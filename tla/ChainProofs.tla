---------------------------- MODULE ChainProofs -----------------------------
(***************************************************************************)
(* Proofs about the chain database, for every block tree, every assignment *)
(* of irreversible blocks and every set of invalid blocks: the block log   *)
(* follows the chain, the undo history reaches what is irreversible, the   *)
(* branch a failed fork switch came from can be applied again, a push      *)
(* never lowers the head, and a fork switch loses no transaction.          *)
(*                                                                         *)
(* First every step is shown to keep the types and the shape of a fork     *)
(* switch, to leave pending transactions that apply, and to do one of      *)
(* three things to the head, the block log and the undo history.           *)
(***************************************************************************)
EXTENDS ChainLemmas

-----------------------------------------------------------------------------
(* The operations keep their types.                                        *)

\* A fork database in which no pointer leads to the null id.
ForkOK(f) == f \in ForkDb /\ \A b \in Items(f) : Prev[b] = Genesis => b \in f.lost

\* Once the pointers are settled, none leads to the null id.
LEMMA SettledOK ==
    ASSUME NEW f \in ForkDb, NEW held \in SUBSET Block
    PROVE  ForkOK(Settled(f, held))
<1>1. Items(f) \subseteq Block
  BY DEF ForkDb, Items
<1>2. Genesis \notin Items(f) \cup held
  BY <1>1, BlockAssumption
<1> DEFINE g == Settled(f, held)
<1>3. /\ g.index = f.index /\ g.head = f.head /\ g.max = f.max
      /\ g.lost = {b \in Items(f) : b \in f.lost \/ Prev[b] \notin Items(f) \cup held}
      /\ g = [index |-> g.index, head |-> g.head, lost |-> g.lost, max |-> g.max]
  BY DEF Settled, ForkDb
<1> HIDE DEF g
<1>4. Items(g) = Items(f)
  BY <1>3 DEF Items
<1>5. g \in ForkDb
  BY <1>1, <1>3 DEF ForkDb
<1> QED
  BY <1>2, <1>3, <1>4, <1>5 DEF ForkOK, g

\* Pushing a block leaves a fork database with a head.
LEMMA PushedType ==
    ASSUME NEW f \in ForkDb, NEW b \in Block
    PROVE  Pushed(f, b) \in ForkDb /\ Pushed(f, b).head \in Block
  BY BlockAssumption DEF ForkDb, Pushed, Pruned

\* Pruning keeps the type.
LEMMA SetMaxSizeType ==
    ASSUME NEW f \in ForkDb, NEW n \in Nat
    PROVE  SetMaxSize(f, n) \in ForkDb
  BY DEF ForkDb, SetMaxSize, Pruned

\* The head that pop_block() falls back on is a block.
LEMMA PoppedType ==
    ASSUME NEW f, ForkOK(f), CanPop(f)
    PROVE  Popped(f) \in ForkDb
<1>1. f.head \in Block /\ f.head \in Items(f) /\ f \in ForkDb
  BY DEF CanPop, ForkOK, ForkDb, Items
<1>2. Prev[f.head] \in Block
  BY <1>1, BlockAssumption DEF CanPop, ForkOK
<1> QED
  BY <1>1, <1>2 DEF Popped, ForkDb

\* The size of the undo history leaves room for every reversible block.
LEMMA SizeForType ==
    ASSUME NEW b \in Block
    PROVE  /\ SizeFor(b) \in Nat \ {0}
           /\ SizeFor(b) = Num[b] - Lib[Prev[b]] + 1
           /\ Num[b] \in Nat /\ Num[Prev[b]] \in Nat /\ Num[b] = Num[Prev[b]] + 1
           /\ Lib[b] \in Nat /\ Lib[Prev[b]] \in Nat
           /\ Lib[Prev[b]] <= Num[Prev[b]] /\ Lib[Prev[b]] <= Lib[b]
<1>1. /\ Num[b] \in Nat /\ Num[Prev[b]] \in Nat /\ Num[b] = Num[Prev[b]] + 1
      /\ Lib[b] \in Nat /\ Lib[Prev[b]] \in Nat /\ Lib[Prev[b]] <= Lib[b]
  BY BlockAssumption, LibAssumption
<1>2. Lib[Prev[b]] <= Num[Prev[b]]
  <2>1. CASE Prev[b] = Genesis
    BY <2>1, BlockAssumption, LibAssumption
  <2>2. CASE Prev[b] \in Block
    BY <2>2, LibAssumption
  <2> QED
    BY <2>1, <2>2, BlockAssumption
<1> QED
  BY <1>1, <1>2 DEF SizeFor

\* The pending transactions once the restorer has run: they apply, and a
\* session undoes them.  The undo history loses entries only down to its limit.
LEMMA RestorePendingEffect ==
    ASSUME NEW h, NEW ps \in Seq(Tx), NEW saved \in Seq(Tx), NEW n \in Nat,
           NEW max \in Nat \ {0}, RestorePending(h, ps, saved, n, max)
    PROVE  /\ pending' \in Seq(Tx)
           /\ session' \in BOOLEAN
           /\ undo' \in Nat
           /\ undo' = n \/ undo' = Smaller(n, max - 1)
           /\ popped' = << >>
           /\ Applying(pending', Included(h)) = pending'
           /\ pending' # << >> => session'
<1> DEFINE todo == ps \o saved
           tried == \E tx \in Elements(todo) : tx \notin Included(h)
<1>1. /\ pending' = Applying(todo, Included(h))
      /\ session' = tried
      /\ undo' = IF tried THEN Smaller(n, max - 1) ELSE n
      /\ popped' = << >>
  BY DEF RestorePending
<1>2. todo \in Seq(Tx)
  OBVIOUS
<1> HIDE DEF todo
<1>3. /\ pending' \in Seq(Tx)
      /\ Applying(pending', Included(h)) = pending'
      /\ Elements(pending') \subseteq Elements(todo) \ Included(h)
  BY <1>1, <1>2, ApplyingTwice
<1>4. session' \in BOOLEAN
  BY <1>1
<1>5. undo' \in Nat /\ (undo' = n \/ undo' = Smaller(n, max - 1))
  BY <1>1 DEF Smaller
<1>6. ASSUME pending' # << >> PROVE session'
  <2>1. pending'[1] \in Elements(pending')
    BY <1>3, <1>6 DEF Elements
  <2>2. tried
    BY <1>3, <2>1
  <2> QED
    BY <1>1, <2>2
<1> QED
  BY <1>1, <1>3, <1>4, <1>5, <1>6

-----------------------------------------------------------------------------
(* The invariant, first part: types, the fork switch, pending transactions. *)

\* While a fork switch runs: the new branch is longer, the old one is chained,
\* and the head is where the next block is to be applied.
SwitchOK ==
    /\ Len(push.first) > 0
    /\ Len(push.second) > 0
    /\ Num[push.first[Len(push.first)]] > Num[push.second[Len(push.second)]]
    /\ \A i \in 1..(Len(push.second) - 1) : Prev[push.second[i + 1]] = push.second[i]
    /\ push.step = "applying" /\ push.done = 0 => head = Root
    /\ push.step = "unwinding" => push.done = 0
    /\ push.step = "restoring" =>
           push.done < Len(push.second) /\ head = Prev[NextOf(push.second)]

SwitchInv ==
    /\ TypeOK
    /\ ForkOK(fork)
    /\ push # Idle => SwitchOK
    /\ PendingApplies

\* What a step does to the head, the block log and the undo history.  It leaves
\* the head alone ...
Stays ==
    /\ head' = head
    /\ log' = log
    /\ libMax' = libMax
    /\ undoMax' = undoMax \/ \E b \in Block : Prev[b] = head /\ undoMax' = SizeFor(b)
    /\ undo' >= Smaller(undo, Smaller(undoMax, undoMax') - 1)

\* ... or puts block b on it ...
Grows(b) ==
    /\ CanApply(b)
    /\ head' = b
    /\ log' = [log EXCEPT ![Num[b]] = b]
    /\ libMax' = Larger(libMax, Lib[b])
    /\ undoMax' = SizeFor(b)
    /\ undo' >= Smaller(Smaller(undo, undoMax - 1) + 1, SizeFor(b) - 1)

\* ... or takes it off.
Shrinks ==
    /\ head \in Block
    /\ head' = Prev[head]
    /\ log' = log
    /\ libMax' = libMax
    /\ undoMax' = undoMax
    /\ undo' = undo - 1

Moves == Stays \/ (\E b \in Block : Grows(b)) \/ Shrinks

\* A running switch is one of the records Switching.
LEMMA RunningSwitch ==
    ASSUME SwitchInv, push # Idle
    PROVE  /\ push \in Switching
           /\ push.first \in Seq(Block) /\ push.second \in Seq(Block)
           /\ push.done \in Nat /\ push.saved \in Seq(Tx)
           /\ push.step \in {"popping", "applying", "unwinding", "restoring"}
           /\ Held \in SUBSET Block
           /\ OldHead \in Block /\ push.second[1] \in Block
           /\ Root \in Known
<1>1. push \in Switching
  BY DEF SwitchInv, TypeOK
<1>2. /\ push.first \in Seq(Block) /\ push.second \in Seq(Block)
      /\ push.done \in Nat /\ push.saved \in Seq(Tx)
      /\ push.step \in {"popping", "applying", "unwinding", "restoring"}
  BY <1>1 DEF Switching
<1>3. Held \in SUBSET Block
  BY <1>2 DEF Held, Elements
<1>4. Len(push.second) > 0
  BY DEF SwitchInv, SwitchOK
<1>5. OldHead \in Block /\ push.second[1] \in Block
  BY <1>2, <1>4 DEF OldHead
<1>6. Root \in Known
  BY <1>5, NumType DEF Root
<1> QED
  BY <1>1, <1>2, <1>3, <1>5, <1>6

\* Applying block b: types and effects, apart from the undo history's length.
LEMMA ApplyEffect ==
    ASSUME SwitchInv, NEW b \in Block, NEW f \in ForkDb, NEW held \in SUBSET Block,
           CanApply(b), Apply(b, f, held)
    PROVE  /\ head' \in Block \cup {Genesis}
           /\ undoMax' \in Nat \ {0}
           /\ ForkOK(fork')
           /\ fork' \in ForkDb
           /\ log' \in [{Num[c] : c \in Block} -> Block \cup {None}]
           /\ libMax' \in Nat
           /\ Prev[b] = head
<1>1. SizeFor(b) \in Nat \ {0} /\ Num[b] \in Nat /\ Lib[b] \in Nat
  BY SizeForType
<1>2. SetMaxSize(f, SizeFor(b)) \in ForkDb
  BY <1>1, SetMaxSizeType
<1>3. ForkOK(fork') /\ fork' \in ForkDb
  <2>1. fork' = Settled(SetMaxSize(f, SizeFor(b)), held)
    BY DEF Apply
  <2>2. ForkOK(Settled(SetMaxSize(f, SizeFor(b)), held))
    BY <1>2, SettledOK
  <2> QED
    BY <2>1, <2>2 DEF ForkOK
<1>4. log' \in [{Num[c] : c \in Block} -> Block \cup {None}]
  BY DEF Apply, SwitchInv, TypeOK
<1>5. libMax' \in Nat
  BY <1>1 DEF Apply, SwitchInv, TypeOK, Larger
<1> QED
  BY <1>1, <1>3, <1>4, <1>5 DEF Apply, CanApply

\* The variables once a push is over, whatever it did: what RestorePending and
\* the rest of the step must have established.
LEMMA PushOver ==
    ASSUME head' \in Block \cup {Genesis}, undoMax' \in Nat \ {0}, ForkOK(fork'),
           log' \in [{Num[c] : c \in Block} -> Block \cup {None}],
           libMax' \in Nat, invalid' \subseteq Block, push' = Idle,
           pending' \in Seq(Tx), session' \in BOOLEAN, undo' \in Nat, popped' = << >>,
           Applying(pending', Included(head')) = pending', pending' # << >> => session'
    PROVE  SwitchInv'
<1>1. popped' \in Seq(Tx)
  OBVIOUS
<1>2. TypeOK'
  BY <1>1 DEF TypeOK, ForkOK
<1>3. PendingApplies'
  BY DEF PendingApplies
<1> QED
  BY <1>2, <1>3 DEF SwitchInv

\* A history trimmed to one limit and then to another.
LEMMA TrimmedTwice ==
    ASSUME NEW u \in Nat, NEW m \in Nat, NEW v \in Nat, NEW p \in Nat, NEW q \in Nat,
           m >= Smaller(u, p - 1), v = m \/ v = Smaller(m, q - 1)
    PROVE  v >= Smaller(u, Smaller(p, q) - 1)
  BY DEF Smaller

\* Pushes that leave the head alone.
LEMMA RejectStep ==
    ASSUME SwitchInv, push = Idle, UNCHANGED invalid, NEW b \in Block, NEW n \in Nat,
           n >= Smaller(undo, undoMax - 1),
           Reject(b, n) \/ Keep(b, n) \/ FailExtend(b, n)
    PROVE  SwitchInv' /\ Stays /\ push' = Idle
<1> DEFINE f == Pushed(fork, b)
<1>1. TypeOK /\ fork \in ForkDb /\ ForkOK(fork)
  BY DEF SwitchInv, ForkOK
<1>2. /\ undo \in Nat /\ undoMax \in Nat \ {0} /\ pending \in Seq(Tx) /\ popped \in Seq(Tx)
      /\ invalid \subseteq Block
  BY <1>1 DEF TypeOK
<1>3. f \in ForkDb
  BY <1>1, PushedType
<1> HIDE DEF f
<1>4. SizeFor(b) \in Nat \ {0}
  BY SizeForType
<1>5. head' = head /\ log' = log /\ push' = Idle /\ libMax' = libMax
  BY DEF Reject, Keep, FailExtend
<1>6. /\ ForkOK(fork')
      /\ \/ undoMax' = undoMax
         \/ Prev[b] = head /\ undoMax' = SizeFor(b)
  <2>1. CASE Reject(b, n)
    BY <1>1, <2>1 DEF Reject
  <2>2. CASE Keep(b, n)
    <3>1. fork' = Settled(f, {}) /\ undoMax' = undoMax
      BY <2>2 DEF Keep, f
    <3> QED
      BY <1>3, <3>1, SettledOK
  <2>3. CASE FailExtend(b, n)
    <3>1. PICK late \in FailsLate(b) :
             /\ undoMax' = IF late THEN SizeFor(b) ELSE undoMax
             /\ fork' = Settled(Removed(AfterFailure(b, f, late), {b}), {})
      BY <2>3 DEF FailExtend, f
    <3>2. late => Prev[b] = head
      BY DEF FailsLate
    <3>3. AfterFailure(b, f, late) \in ForkDb
      BY <1>3, <1>4, SetMaxSizeType DEF AfterFailure
    <3>4. Removed(AfterFailure(b, f, late), {b}) \in ForkDb
      BY <3>3 DEF Removed, ForkDb
    <3>5. ForkOK(fork')
      BY <3>1, <3>4, SettledOK
    <3> QED
      BY <3>1, <3>2, <3>5
  <2> QED
    BY <2>1, <2>2, <2>3
<1>7. undoMax' \in Nat \ {0}
  BY <1>2, <1>4, <1>6
<1>8. PICK m \in Nat : m >= Smaller(n, undoMax) /\ RestorePending(head, popped, pending, m, undoMax')
  <2>1. CASE Reject(b, n) \/ Keep(b, n)
    <3>1. RestorePending(head, popped, pending, n, undoMax')
      BY <2>1 DEF Reject, Keep, AroundPending
    <3>2. n >= Smaller(n, undoMax)
      BY <1>2 DEF Smaller
    <3> QED
      BY <3>1, <3>2
  <2>2. CASE FailExtend(b, n)
    <3>1. RestorePending(head, popped, pending, Smaller(n, undoMax), undoMax')
      BY <2>2 DEF FailExtend, AroundPending
    <3>2. Smaller(n, undoMax) \in Nat
      BY <1>2 DEF Smaller
    <3> QED
      BY <3>1, <3>2
  <2> QED
    BY <2>1, <2>2
<1>9. /\ pending' \in Seq(Tx) /\ session' \in BOOLEAN /\ undo' \in Nat
      /\ undo' = m \/ undo' = Smaller(m, undoMax' - 1)
      /\ popped' = << >>
      /\ Applying(pending', Included(head)) = pending'
      /\ pending' # << >> => session'
  BY <1>2, <1>7, <1>8, RestorePendingEffect
<1>10. undo' >= Smaller(undo, Smaller(undoMax, undoMax') - 1)
  <2>1. m \in Nat /\ m >= Smaller(n, undoMax)
    BY <1>8
  <2>2. undo' = m \/ undo' = Smaller(m, undoMax' - 1)
    BY <1>9
  <2>3. undo \in Nat /\ undoMax \in Nat /\ undoMax' \in Nat
    BY <1>2, <1>7
  <2>4. m >= Smaller(undo, undoMax - 1)
    BY <1>2, <2>1 DEF Smaller
  <2>5. undo' \in Nat
    BY <1>9
  <2> QED
    BY <2>1, <2>2, <2>3, <2>4, <2>5, TrimmedTwice
<1>11. Stays
  BY <1>5, <1>6, <1>10 DEF Stays
<1>12. /\ head' \in Block \cup {Genesis} /\ libMax' \in Nat /\ invalid' \subseteq Block
       /\ log' \in [{Num[c] : c \in Block} -> Block \cup {None}]
  BY <1>1, <1>5 DEF TypeOK
<1>13. SwitchInv'
  BY <1>5, <1>6, <1>7, <1>9, <1>12, PushOver
<1> QED
  BY <1>5, <1>11, <1>13

\* Applying the last block of a push, in Extend, FinishSwitch and FinishRestore.
LEMMA LastApplied ==
    ASSUME SwitchInv, UNCHANGED invalid, NEW b \in Block, NEW f \in ForkDb,
           NEW saved \in Seq(Tx), NEW n \in Nat, n >= Smaller(undo, undoMax - 1),
           CanApply(b), Apply(b, f, {}), push' = Idle,
           RestorePending(b, popped, saved, Smaller(n, undoMax) + 1, SizeFor(b))
    PROVE  SwitchInv' /\ Grows(b)
<1>1. /\ undo \in Nat /\ undoMax \in Nat \ {0} /\ popped \in Seq(Tx) /\ invalid \subseteq Block
  BY DEF SwitchInv, TypeOK
<1>2. SizeFor(b) \in Nat \ {0}
  BY SizeForType
<1>3. /\ head' \in Block \cup {Genesis} /\ undoMax' \in Nat \ {0} /\ ForkOK(fork')
      /\ log' \in [{Num[c] : c \in Block} -> Block \cup {None}] /\ libMax' \in Nat
  BY ApplyEffect
<1>4. Smaller(n, undoMax) + 1 \in Nat
  BY <1>1 DEF Smaller
<1>5. /\ pending' \in Seq(Tx) /\ session' \in BOOLEAN /\ undo' \in Nat
      /\ \/ undo' = Smaller(n, undoMax) + 1
         \/ undo' = Smaller(Smaller(n, undoMax) + 1, SizeFor(b) - 1)
      /\ popped' = << >>
      /\ Applying(pending', Included(b)) = pending'
      /\ pending' # << >> => session'
  BY <1>1, <1>2, <1>4, RestorePendingEffect
<1>6. undo' >= Smaller(Smaller(undo, undoMax - 1) + 1, SizeFor(b) - 1)
  BY <1>1, <1>2, <1>5 DEF Smaller
<1>7. head' = b
  BY DEF Apply
<1>8. Grows(b)
  BY <1>6 DEF Grows, Apply
<1>9. SwitchInv'
  BY <1>1, <1>3, <1>5, <1>7, PushOver
<1> QED
  BY <1>8, <1>9

\* A push that continues the head puts one block on the chain.
LEMMA ExtendStep ==
    ASSUME SwitchInv, push = Idle, UNCHANGED invalid, NEW b \in Block, NEW n \in Nat,
           n >= Smaller(undo, undoMax - 1), Extend(b, n)
    PROVE  SwitchInv' /\ Grows(b) /\ push' = Idle
<1>1. Pushed(fork, b) \in ForkDb /\ pending \in Seq(Tx)
  BY PushedType DEF SwitchInv, ForkOK, TypeOK
<1>2. /\ CanApply(b) /\ Apply(b, Pushed(fork, b), {}) /\ push' = Idle
      /\ RestorePending(b, popped, pending, Smaller(n, undoMax) + 1, SizeFor(b))
  BY DEF Extend, AroundPending
<1> QED
  BY <1>1, <1>2, LastApplied

\* A push that starts a fork switch moves nothing; the old branch is a part of
\* the chain of the head.
LEMMA StartSwitchStep ==
    ASSUME SwitchInv, push = Idle, UNCHANGED invalid, NEW b \in Block, NEW n \in Nat,
           n >= Smaller(undo, undoMax - 1), StartSwitch(b, n)
    PROVE  SwitchInv' /\ Stays /\ push' # Idle
           /\ \A i \in 1..Len(push'.second) : \E j \in 1..Len(Line[head]) :
                  push'.second[i] = Line[head][j]
<1> DEFINE f == Pushed(fork, b)
           br == Branches(f.head, head)
<1>1. TypeOK /\ fork \in ForkDb
  BY DEF SwitchInv, ForkOK
<1>2. f \in ForkDb /\ f.head \in Block
  BY <1>1, PushedType
<1>3. head \in Block
  BY <1>1 DEF StartSwitch, TypeOK
<1>4. Branch(br.first, f.head) /\ Branch(br.second, head)
  BY <1>2, <1>3, BranchesType
<1>5. /\ Num[f.head] > Num[head]
      /\ fork' = Settled(f, Elements(br.first) \cup Elements(br.second))
      /\ push' = [step |-> "popping", first |-> br.first, second |-> br.second,
                  done |-> 0, saved |-> pending]
      /\ undo' = n /\ pending' = << >> /\ session' = FALSE
      /\ head' = head /\ undoMax' = undoMax /\ log' = log /\ popped' = popped
      /\ libMax' = libMax
  BY DEF StartSwitch
<1> HIDE DEF f, br
<1>6. br.first \in Seq(Block) /\ br.second \in Seq(Block)
  BY <1>4 DEF Branch
<1>7. ForkOK(fork')
  <2>1. Elements(br.first) \cup Elements(br.second) \in SUBSET Block
    BY <1>6 DEF Elements
  <2> QED
    BY <1>2, <1>5, <2>1, SettledOK
<1>8. push' \in Switching /\ push' # Idle
  <2>1. pending \in Seq(Tx)
    BY <1>1 DEF TypeOK
  <2> QED
    BY <1>5, <1>6, <2>1 DEF Switching, Idle
<1>9. TypeOK'
  <2>1. pending' \in Seq(Tx) /\ session' \in BOOLEAN
    <3>1. pending' = << >> /\ session' = FALSE
      BY <1>5
    <3>2. pending' \in Seq(Tx)
      BY <3>1
    <3>3. session' \in BOOLEAN
      BY <3>1, Zenon
    <3> QED
      BY <3>2, <3>3
  <2>2. fork' \in ForkDb
    BY <1>7 DEF ForkOK
  <2> QED
    BY <1>1, <1>5, <1>8, <2>1, <2>2 DEF TypeOK
<1>10. SwitchOK'
  BY <1>4, <1>5 DEF Branch, SwitchOK
<1>11. SwitchInv'
  BY <1>7, <1>8, <1>9, <1>10 DEF SwitchInv, PendingApplies
<1>12. Stays
  BY <1>1, <1>5 DEF Stays, TypeOK, Smaller
<1> QED
  BY <1>4, <1>5, <1>8, <1>11, <1>12 DEF Branch

\* A step inside a fork switch, once the types of what it changes are known.
LEMMA StillSwitching ==
    ASSUME SwitchInv, push # Idle, head' \in Block \cup {Genesis}, undoMax' \in Nat \ {0},
           ForkOK(fork'), log' \in [{Num[c] : c \in Block} -> Block \cup {None}],
           libMax' \in Nat, undo' \in Nat, popped' \in Seq(Tx),
           pending' = pending, session' = session, invalid' = invalid,
           push' \in Switching, SwitchOK'
    PROVE  SwitchInv' /\ push' # Idle
<1>1. TypeOK'
  BY DEF SwitchInv, TypeOK, ForkOK
<1>2. push' # Idle
  BY DEF Switching, Idle
<1> QED
  BY <1>1, <1>2 DEF SwitchInv, PendingApplies

\* Taking back a block of either branch; the head was a block.
LEMMA PopStep ==
    ASSUME SwitchInv, PopOld \/ PopNew
    PROVE  SwitchInv' /\ Shrinks /\ push # Idle /\ push' # Idle
           /\ push'.second = push.second
<1>1. push # Idle /\ push.step \in {"popping", "unwinding"}
  BY DEF PopOld, PopNew, Idle
<1>2. /\ push \in Switching /\ Held \in SUBSET Block /\ push.second \in Seq(Block)
      /\ push.first \in Seq(Block) /\ push.done \in Nat /\ push.saved \in Seq(Tx)
  BY <1>1, RunningSwitch
<1>3. TypeOK /\ ForkOK(fork) /\ SwitchOK
  BY <1>1 DEF SwitchInv
<1>4. PopHead(Held)
  BY DEF PopOld, PopNew
<1>5. head \in Block
  <2>1. HeadFound
    BY <1>4 DEF PopHead, CanPopHead
  <2>2. CASE head \in fork.index
    BY <1>3, <2>2 DEF TypeOK, ForkDb
  <2>3. CASE \E k \in DOMAIN log : log[k] = head
    <3>1. head \in Block \cup {None} /\ head \in Block \cup {Genesis}
      BY <1>3, <2>3 DEF TypeOK
    <3> QED
      BY <3>1, BlockAssumption
  <2> QED
    BY <2>1, <2>2, <2>3 DEF HeadFound
<1>6. ForkOK(fork')
  <2>1. CanPop(fork) /\ fork' = Settled(Popped(fork), Held)
    BY <1>4 DEF PopHead, CanPopHead
  <2>2. Popped(fork) \in ForkDb
    BY <1>3, <2>1, PoppedType
  <2> QED
    BY <1>2, <2>1, <2>2, SettledOK
<1>7. /\ head' = Prev[head] /\ undo' = undo - 1 /\ undo > 0
      /\ popped' = Txs[head] \o popped
      /\ undoMax' = undoMax /\ log' = log /\ libMax' = libMax
      /\ pending' = pending /\ session' = session /\ invalid' = invalid
  BY <1>4 DEF PopHead, CanPopHead, PopOld, PopNew
<1>8. /\ head' \in Block \cup {Genesis} /\ undo' \in Nat /\ popped' \in Seq(Tx)
      /\ undoMax' \in Nat \ {0} /\ libMax' \in Nat
      /\ log' \in [{Num[c] : c \in Block} -> Block \cup {None}]
  BY <1>3, <1>5, <1>7, BlockAssumption, TxAssumption DEF TypeOK
<1>9. /\ push'.first = push.first /\ push'.second = push.second /\ push'.done = push.done
      /\ push' \in Switching
      /\ \/ push'.step = push.step
         \/ push.step = "popping" /\ push'.step = "applying" /\ Prev[head] = Root
         \/ push.step = "unwinding" /\ push'.step = "restoring" /\ Prev[head] = Root
  <2>1. PICK st \in {"popping", "unwinding", "applying", "restoring"} :
           /\ push' = [push EXCEPT !.step = st]
           /\ \/ st = push.step
              \/ push.step = "popping" /\ st = "applying" /\ Prev[head] = Root
              \/ push.step = "unwinding" /\ st = "restoring" /\ Prev[head] = Root
    BY <1>1, <1>2 DEF PopOld, PopNew, Switching
  <2> QED
    BY <1>2, <2>1 DEF Switching
<1>10. SwitchOK'
  <2>1. Root' = Root
    BY <1>9 DEF Root
  <2>2. push'.step = "applying" => head' = Root'
    BY <1>1, <1>7, <1>9, <2>1
  <2>3. push'.step = "unwinding" => push'.done = 0
    BY <1>1, <1>3, <1>9 DEF SwitchOK
  <2>4. push'.step = "restoring" =>
           push'.done < Len(push'.second) /\ head' = Prev[push'.second[push'.done + 1]]
    BY <1>1, <1>3, <1>7, <1>9 DEF SwitchOK, Root
  <2> QED
    BY <1>3, <1>9, <2>2, <2>3, <2>4 DEF SwitchOK, NextOf
<1>11. SwitchInv' /\ push' # Idle
  BY <1>1, <1>6, <1>7, <1>8, <1>9, <1>10, StillSwitching
<1> QED
  BY <1>1, <1>5, <1>7, <1>9, <1>11 DEF Shrinks

\* Applying a block of either branch that is not its last.
LEMMA ApplyStep ==
    ASSUME SwitchInv, ApplyNew \/ RestoreOld
    PROVE  SwitchInv' /\ (\E b \in Block : Grows(b)) /\ push # Idle /\ push' # Idle
           /\ push'.second = push.second
<1>1. push # Idle /\ push.step \in {"applying", "restoring"}
  BY DEF ApplyNew, RestoreOld, Idle
<1>2. /\ push \in Switching /\ Held \in SUBSET Block /\ push.second \in Seq(Block)
      /\ push.first \in Seq(Block) /\ push.done \in Nat /\ push.saved \in Seq(Tx)
  BY <1>1, RunningSwitch
<1>3. TypeOK /\ ForkOK(fork) /\ SwitchOK /\ fork \in ForkDb
  BY <1>1 DEF SwitchInv, ForkOK
<1>4. PICK b \in Block :
         /\ CanApply(b) /\ Apply(b, fork, Held)
         /\ push.step = "restoring" =>
                push.done + 1 < Len(push.second) /\ b = push.second[push.done + 1]
  <2>1. CASE ApplyNew
    <3>1. /\ push.first[push.done + 1] \in Block
          /\ push.step = "applying"
      BY <1>2, <2>1 DEF ApplyNew
    <3> QED
      BY <2>1, <3>1 DEF ApplyNew, NextOf
  <2>2. CASE RestoreOld
    <3>1. push.second[push.done + 1] \in Block
      BY <1>2, <2>2 DEF RestoreOld
    <3> QED
      BY <2>2, <3>1 DEF RestoreOld, NextOf
  <2> QED
    BY <2>1, <2>2
<1>5. /\ head' \in Block \cup {Genesis} /\ undoMax' \in Nat \ {0} /\ ForkOK(fork')
      /\ log' \in [{Num[c] : c \in Block} -> Block \cup {None}] /\ libMax' \in Nat
  BY <1>2, <1>3, <1>4, ApplyEffect
<1>6. /\ undo' = Smaller(undo, undoMax) + 1
      /\ push' = [push EXCEPT !.done = @ + 1]
      /\ pending' = pending /\ session' = session /\ popped' = popped /\ invalid' = invalid
  BY DEF ApplyNew, RestoreOld
<1>7. undo \in Nat /\ undoMax \in Nat \ {0} /\ popped' \in Seq(Tx)
  BY <1>3, <1>6 DEF TypeOK
<1>8. /\ undo' \in Nat
      /\ undo' >= Smaller(Smaller(undo, undoMax - 1) + 1, SizeFor(b) - 1)
  <2>1. SizeFor(b) \in Nat
    BY SizeForType
  <2> QED
    BY <1>6, <1>7, <2>1 DEF Smaller
<1>9. /\ push'.first = push.first /\ push'.second = push.second
      /\ push'.done = push.done + 1 /\ push'.step = push.step
      /\ push' \in Switching
  <2>1. push.done + 1 \in Nat
    BY <1>2
  <2>2. push' = [push EXCEPT !.done = push.done + 1]
    BY <1>6
  <2> QED
    BY <1>2, <2>1, <2>2 DEF Switching
<1>10. head' = b
  BY <1>4 DEF Apply
<1>11. SwitchOK'
  <2>1. push'.done # 0
    BY <1>2, <1>9
  <2>2. push'.step = "restoring" =>
           push'.done < Len(push'.second) /\ head' = Prev[push'.second[push'.done + 1]]
    <3> SUFFICES ASSUME push.step = "restoring"
                 PROVE  /\ push.done + 1 < Len(push.second)
                        /\ b = Prev[push.second[(push.done + 1) + 1]]
      BY <1>9, <1>10
    <3>1. push.done + 1 < Len(push.second) /\ b = push.second[push.done + 1]
      BY <1>4
    <3>2. push.done + 1 \in 1..(Len(push.second) - 1)
      BY <1>2, <3>1
    <3> QED
      BY <1>3, <3>1, <3>2 DEF SwitchOK
  <2> QED
    BY <1>1, <1>3, <1>9, <2>1, <2>2 DEF SwitchOK, NextOf
<1>12. SwitchInv' /\ push' # Idle
  BY <1>1, <1>5, <1>6, <1>7, <1>8, <1>9, <1>11, StillSwitching
<1>13. Grows(b)
  BY <1>4, <1>8 DEF Grows, Apply
<1> QED
  BY <1>1, <1>9, <1>12, <1>13

\* The last block of either branch.
LEMMA FinishStep ==
    ASSUME SwitchInv, FinishSwitch \/ FinishRestore
    PROVE  /\ SwitchInv' /\ (\E b \in Block : Grows(b)) /\ push # Idle /\ push' = Idle
           /\ head' = OldHead \/ Num[head'] > Num[OldHead]
<1>1. push # Idle
  BY DEF FinishSwitch, FinishRestore, Idle
<1>2. /\ push \in Switching /\ push.second \in Seq(Block) /\ push.first \in Seq(Block)
      /\ push.done \in Nat /\ push.saved \in Seq(Tx)
  BY <1>1, RunningSwitch
<1>3. TypeOK /\ SwitchOK /\ fork \in ForkDb
  BY <1>1 DEF SwitchInv, ForkOK
<1>4. PICK b \in Block :
         /\ CanApply(b) /\ Apply(b, fork, {})
         /\ RestorePending(b, popped, push.saved, Smaller(undo, undoMax) + 1, undoMax')
         /\ b = push.first[Len(push.first)] \/ b = push.second[Len(push.second)]
  <2>1. CASE FinishSwitch
    <3>1. /\ push.first[push.done + 1] \in Block
          /\ push.first[push.done + 1] = push.first[Len(push.first)]
      BY <1>2, <1>3, <2>1 DEF FinishSwitch, SwitchOK
    <3> QED
      BY <2>1, <3>1 DEF FinishSwitch, NextOf
  <2>2. CASE FinishRestore
    <3>1. /\ push.second[push.done + 1] \in Block
          /\ push.second[push.done + 1] = push.second[Len(push.second)]
      BY <1>2, <1>3, <2>2 DEF FinishRestore, SwitchOK
    <3> QED
      BY <2>2, <3>1 DEF FinishRestore, NextOf
  <2> QED
    BY <2>1, <2>2
<1>5. undoMax' = SizeFor(b) /\ head' = b
  BY <1>4 DEF Apply
<1>6. push' = Idle /\ invalid' = invalid
  BY DEF FinishSwitch, FinishRestore
<1>7. undo \in Nat /\ undo >= Smaller(undo, undoMax - 1)
  BY <1>3 DEF TypeOK, Smaller
<1>8. RestorePending(b, popped, push.saved, Smaller(undo, undoMax) + 1, SizeFor(b))
  BY <1>4, <1>5
<1>9. SwitchInv' /\ Grows(b)
  BY <1>2, <1>3, <1>4, <1>6, <1>7, <1>8, LastApplied
<1> QED
  BY <1>1, <1>3, <1>4, <1>5, <1>6, <1>9 DEF SwitchOK, OldHead

\* A block of the new branch that does not apply: the head stays where it is, and
\* is the block where the branches part if nothing is to be unwound.
LEMMA FailNewStep ==
    ASSUME SwitchInv, FailNew
    PROVE  SwitchInv' /\ Stays /\ push # Idle /\ push' # Idle /\ push'.second = push.second
<1> DEFINE b == NextOf(push.first)
           bad == {push.first[i] : i \in (push.done + 1)..Len(push.first)}
<1>1. push # Idle /\ push.step = "applying"
  BY DEF FailNew, Idle
<1>2. /\ push \in Switching /\ Held \in SUBSET Block /\ OldHead \in Block
      /\ push.second \in Seq(Block)
  BY <1>1, RunningSwitch
<1>3. TypeOK /\ ForkOK(fork) /\ SwitchOK /\ fork \in ForkDb
  BY <1>1 DEF SwitchInv, ForkOK
<1>4. PICK late \in FailsLate(b) :
         /\ undoMax' = IF late THEN SizeFor(b) ELSE undoMax
         /\ fork' = Settled(SetHead(Removed(AfterFailure(b, fork, late), bad), OldHead), Held)
  BY DEF FailNew
<1>5. late \in BOOLEAN /\ (late => b \in Block /\ Prev[b] = head)
  BY <1>3 DEF FailsLate, TypeOK
<1>6. /\ undo' = Smaller(undo, undoMax)
      /\ push' = [push EXCEPT !.step = IF push.done = 0 THEN "restoring" ELSE "unwinding",
                              !.done = 0]
      /\ head' = head /\ log' = log /\ pending' = pending /\ session' = session
      /\ popped' = popped /\ invalid' = invalid /\ libMax' = libMax
  BY DEF FailNew
<1> HIDE DEF b, bad
<1>7. /\ undoMax' \in Nat \ {0}
      /\ undoMax' = undoMax \/ \E c \in Block : Prev[c] = head /\ undoMax' = SizeFor(c)
      /\ AfterFailure(b, fork, late) \in ForkDb
  <2>1. CASE late
    <3>1. b \in Block /\ Prev[b] = head /\ undoMax' = SizeFor(b)
      BY <1>4, <1>5, <2>1
    <3>2. SizeFor(b) \in Nat \ {0}
      BY <3>1, SizeForType
    <3>3. AfterFailure(b, fork, late) = SetMaxSize(fork, SizeFor(b))
      BY <2>1 DEF AfterFailure
    <3> QED
      BY <1>3, <3>1, <3>2, <3>3, SetMaxSizeType
  <2>2. CASE ~late
    BY <1>3, <1>4, <2>2 DEF AfterFailure, TypeOK
  <2> QED
    BY <2>1, <2>2
<1>8. ForkOK(fork')
  <2>1. SetHead(Removed(AfterFailure(b, fork, late), bad), OldHead) \in ForkDb
    BY <1>2, <1>7 DEF SetHead, Removed, ForkDb
  <2> QED
    BY <1>2, <1>4, <2>1, SettledOK
<1>9. /\ head' \in Block \cup {Genesis} /\ popped' \in Seq(Tx) /\ libMax' \in Nat
      /\ log' \in [{Num[c] : c \in Block} -> Block \cup {None}]
      /\ undo \in Nat /\ undoMax \in Nat \ {0}
  BY <1>3, <1>6 DEF TypeOK
<1>10. undo' \in Nat /\ undo' >= Smaller(undo, Smaller(undoMax, undoMax') - 1)
  BY <1>6, <1>7, <1>9 DEF Smaller
<1>11. /\ push'.first = push.first /\ push'.second = push.second /\ push'.done = 0
       /\ push'.step = IF push.done = 0 THEN "restoring" ELSE "unwinding"
       /\ push' \in Switching
  BY <1>2, <1>6 DEF Switching
<1>12. SwitchOK'
  <2>1. push'.step = "restoring" =>
           push'.done < Len(push'.second) /\ head' = Prev[push'.second[push'.done + 1]]
    BY <1>1, <1>2, <1>3, <1>6, <1>11 DEF SwitchOK, Root
  <2>2. push'.step # "applying"
    BY <1>11
  <2> QED
    BY <1>3, <1>11, <2>1, <2>2 DEF SwitchOK, NextOf
<1>13. SwitchInv' /\ push' # Idle
  BY <1>1, <1>6, <1>7, <1>8, <1>9, <1>10, <1>11, <1>12, StillSwitching
<1>14. Stays
  BY <1>6, <1>7, <1>10 DEF Stays
<1> QED
  BY <1>1, <1>11, <1>13, <1>14

\* A switch that breaks off.
LEMMA AbortStep ==
    ASSUME SwitchInv, AbortSwitch
    PROVE  SwitchInv' /\ Stays /\ push # Idle /\ push' = Idle
<1>1. push # Idle
  BY DEF AbortSwitch, Idle
<1>2. push.saved \in Seq(Tx)
  BY <1>1, RunningSwitch
<1>3. TypeOK /\ ForkOK(fork) /\ fork \in ForkDb
  BY DEF SwitchInv, ForkOK
<1>4. undo \in Nat /\ undoMax \in Nat \ {0} /\ popped \in Seq(Tx)
  BY <1>3 DEF TypeOK
<1>5. /\ fork' = Settled(IF HeadFound /\ CanPop(fork) THEN Popped(fork) ELSE fork, {})
      /\ RestorePending(head, popped, push.saved, undo, undoMax)
      /\ push' = Idle
      /\ head' = head /\ undoMax' = undoMax /\ log' = log /\ invalid' = invalid
      /\ libMax' = libMax
  BY DEF AbortSwitch
<1>6. ForkOK(fork')
  <2>1. (IF HeadFound /\ CanPop(fork) THEN Popped(fork) ELSE fork) \in ForkDb
    BY <1>3, PoppedType
  <2> QED
    BY <1>5, <2>1, SettledOK
<1>7. /\ pending' \in Seq(Tx) /\ session' \in BOOLEAN /\ undo' \in Nat
      /\ undo' = undo \/ undo' = Smaller(undo, undoMax - 1)
      /\ popped' = << >>
      /\ Applying(pending', Included(head)) = pending'
      /\ pending' # << >> => session'
  BY <1>2, <1>4, <1>5, RestorePendingEffect
<1>8. /\ head' \in Block \cup {Genesis} /\ libMax' \in Nat /\ invalid' \subseteq Block
      /\ log' \in [{Num[c] : c \in Block} -> Block \cup {None}]
      /\ undoMax' \in Nat \ {0}
  BY <1>3, <1>5 DEF TypeOK
<1>9. SwitchInv'
  BY <1>5, <1>6, <1>7, <1>8, PushOver
<1>10. Stays
  BY <1>4, <1>5, <1>7 DEF Stays, Smaller
<1> QED
  BY <1>1, <1>5, <1>9, <1>10

\* A pending transaction more.
LEMMA PushTransactionStep ==
    ASSUME SwitchInv, NEW tx \in Tx, PushTransaction(tx)
    PROVE  SwitchInv' /\ Stays /\ push = Idle /\ push' = Idle
<1> DEFINE known == Included(head)
<1>1. TypeOK /\ ForkOK(fork)
  BY DEF SwitchInv
<1>2. undo \in Nat /\ undoMax \in Nat \ {0} /\ pending \in Seq(Tx)
  BY <1>1 DEF TypeOK
<1>3. push = Idle /\ Applying(pending, known) = pending /\ popped = << >>
  BY DEF PushTransaction, SwitchInv, PendingApplies
<1>4. /\ session' = TRUE /\ undo' = Smaller(undo, undoMax - 1)
      /\ pending' = IF Applies(tx, known \cup Elements(pending))
                    THEN Append(pending, tx) ELSE pending
      /\ head' = head /\ undoMax' = undoMax /\ fork' = fork /\ log' = log
      /\ popped' = popped /\ push' = push /\ invalid' = invalid /\ libMax' = libMax
  BY DEF PushTransaction, Trimmed
<1> HIDE DEF known
<1>5. Applying(Append(pending, tx), known) =
         IF Applies(tx, known \cup Elements(Applying(pending, known)))
         THEN Append(Applying(pending, known), tx) ELSE Applying(pending, known)
  BY <1>2, ApplyingOneMore, Zenon
<1>6. pending' \in Seq(Tx) /\ Applying(pending', known) = pending'
  <2>1. CASE Applies(tx, known \cup Elements(pending))
    <3>1. pending' = Append(pending, tx) /\ Append(pending, tx) \in Seq(Tx)
      BY <1>2, <1>4, <2>1
    <3>2. Applying(Append(pending, tx), known) = Append(pending, tx)
      BY <1>3, <1>5, <2>1
    <3> QED
      BY <3>1, <3>2
  <2>2. CASE ~Applies(tx, known \cup Elements(pending))
    BY <1>2, <1>3, <1>4, <2>2
  <2> QED
    BY <2>1, <2>2
<1>7. undo' \in Nat
  BY <1>2, <1>4 DEF Smaller
<1>8. session' \in BOOLEAN /\ session'
  BY <1>4, Zenon
<1>9. Applying(pending', Included(head')) = pending'
  BY <1>4, <1>6 DEF known
<1>10. /\ head' \in Block \cup {Genesis} /\ libMax' \in Nat /\ invalid' \subseteq Block
       /\ log' \in [{Num[c] : c \in Block} -> Block \cup {None}]
       /\ undoMax' \in Nat \ {0} /\ ForkOK(fork')
  BY <1>1, <1>4 DEF TypeOK
<1>11. SwitchInv'
  BY <1>3, <1>4, <1>6, <1>7, <1>8, <1>9, <1>10, PushOver
<1>12. Stays
  BY <1>2, <1>4 DEF Stays, Smaller
<1> QED
  BY <1>3, <1>4, <1>11, <1>12

-----------------------------------------------------------------------------
(* Every step.                                                             *)

\* A step that is not part of a broken-off switch does not lower the head.
NotLowered ==
    push' = Idle /\ ~AbortSwitch =>
        IF push = Idle THEN head' = head \/ Prev[head'] = head
        ELSE head' = OldHead \/ Num[head'] > Num[OldHead]

\* The old branch is on the chain when a switch starts, and stays what it is.
OldBranchKept ==
    push' # Idle =>
        \/ push # Idle /\ push'.second = push.second
        \/ /\ push = Idle
           /\ \A i \in 1..Len(push'.second) : \E j \in 1..Len(Line[head]) :
                  push'.second[i] = Line[head][j]

\* A push as a whole.
LEMMA PushStep ==
    ASSUME SwitchInv, NEW b \in Block, NEW n \in Nat, n >= Smaller(undo, undoMax - 1), Push(b, n)
    PROVE  SwitchInv' /\ Moves /\ NotLowered /\ OldBranchKept /\ invalid' = invalid
<1>1. push = Idle /\ invalid' = invalid
  BY DEF Push
<1>2. CASE Reject(b, n) \/ Keep(b, n) \/ FailExtend(b, n)
  <2>1. SwitchInv' /\ Stays /\ push' = Idle
    BY <1>1, <1>2, RejectStep
  <2> QED
    BY <1>1, <2>1 DEF Moves, Stays, NotLowered, OldBranchKept
<1>3. CASE Extend(b, n)
  <2>1. SwitchInv' /\ Grows(b) /\ push' = Idle
    BY <1>1, <1>3, ExtendStep
  <2> QED
    BY <1>1, <2>1 DEF Moves, Grows, CanApply, NotLowered, OldBranchKept
<1>4. CASE StartSwitch(b, n)
  <2>1. /\ SwitchInv' /\ Stays /\ push' # Idle
        /\ \A i \in 1..Len(push'.second) : \E j \in 1..Len(Line[head]) :
               push'.second[i] = Line[head][j]
    <3>1. UNCHANGED invalid
      BY <1>1
    <3> QED
      BY <1>1, <1>4, <3>1, StartSwitchStep, Zenon
  <2> QED
    BY <1>1, <2>1 DEF Moves, NotLowered, OldBranchKept
<1> QED
  BY <1>2, <1>3, <1>4 DEF Push

\* Every step keeps the invariant and moves the head by at most a block.
LEMMA EveryStep ==
    ASSUME SwitchInv, [Next]_vars
    PROVE  /\ SwitchInv' /\ Moves /\ OldBranchKept /\ invalid' = invalid
           /\ vars' # vars => NotLowered
<1>1. undo \in Nat /\ undoMax \in Nat \ {0}
  BY DEF SwitchInv, TypeOK
<1>2. ASSUME NEW b \in Block, PushBlock(b)
      PROVE  SwitchInv' /\ Moves /\ NotLowered /\ OldBranchKept /\ invalid' = invalid
  <2>1. Push(b, undo)
    BY <1>2 DEF PushBlock
  <2>2. undo >= Smaller(undo, undoMax - 1)
    BY <1>1 DEF Smaller
  <2> QED
    BY <1>1, <2>1, <2>2, PushStep
<1>3. ASSUME NEW b \in Block, GenerateBlock(b)
      PROVE  SwitchInv' /\ Moves /\ NotLowered /\ OldBranchKept /\ invalid' = invalid
  <2>1. \E n \in {Smaller(undo, undoMax), Smaller(undo, undoMax - 1)} : Push(b, n)
    BY <1>3 DEF GenerateBlock
  <2>2. PICK n \in {Smaller(undo, undoMax), Smaller(undo, undoMax - 1)} : Push(b, n)
    BY <2>1
  <2>3. n \in Nat /\ n >= Smaller(undo, undoMax - 1)
    BY <1>1, <2>2 DEF Smaller
  <2> QED
    BY <2>2, <2>3, PushStep
<1>4. CASE PopOld \/ PopNew
  <2>1. SwitchInv' /\ Shrinks /\ push # Idle /\ push' # Idle /\ push'.second = push.second
    BY <1>4, PopStep
  <2>2. invalid' = invalid
    BY <1>4 DEF PopOld, PopNew
  <2> QED
    BY <2>1, <2>2 DEF Moves, NotLowered, OldBranchKept
<1>5. CASE ApplyNew \/ RestoreOld
  <2>1. /\ SwitchInv' /\ (\E b \in Block : Grows(b)) /\ push # Idle /\ push' # Idle
        /\ push'.second = push.second
    BY <1>5, ApplyStep
  <2>2. invalid' = invalid
    BY <1>5 DEF ApplyNew, RestoreOld
  <2> QED
    BY <2>1, <2>2 DEF Moves, NotLowered, OldBranchKept
<1>6. CASE FinishSwitch \/ FinishRestore
  <2>1. /\ SwitchInv' /\ (\E b \in Block : Grows(b)) /\ push # Idle /\ push' = Idle
        /\ head' = OldHead \/ Num[head'] > Num[OldHead]
    BY <1>6, FinishStep
  <2>2. invalid' = invalid
    BY <1>6 DEF FinishSwitch, FinishRestore
  <2> QED
    BY <2>1, <2>2 DEF Moves, NotLowered, OldBranchKept
<1>7. CASE FailNew
  <2>1. SwitchInv' /\ Stays /\ push # Idle /\ push' # Idle /\ push'.second = push.second
    BY <1>7, FailNewStep
  <2>2. invalid' = invalid
    BY <1>7 DEF FailNew
  <2> QED
    BY <2>1, <2>2 DEF Moves, NotLowered, OldBranchKept
<1>8. CASE AbortSwitch
  <2>1. SwitchInv' /\ Stays /\ push' = Idle
    BY <1>8, AbortStep
  <2>2. invalid' = invalid
    BY <1>8 DEF AbortSwitch
  <2> QED
    BY <1>8, <2>1, <2>2 DEF Moves, NotLowered, OldBranchKept
<1>9. ASSUME NEW tx \in Tx, PushTransaction(tx)
      PROVE  SwitchInv' /\ Moves /\ NotLowered /\ OldBranchKept /\ invalid' = invalid
  <2>1. SwitchInv' /\ Stays /\ push = Idle /\ push' = Idle
    BY <1>9, PushTransactionStep
  <2>2. invalid' = invalid
    BY <1>9 DEF PushTransaction
  <2> QED
    BY <2>1, <2>2 DEF Moves, Stays, NotLowered, OldBranchKept
<1>10. CASE UNCHANGED vars
  <2>1. /\ head' = head /\ undo' = undo /\ undoMax' = undoMax /\ fork' = fork /\ log' = log
        /\ pending' = pending /\ session' = session /\ popped' = popped /\ push' = push
        /\ invalid' = invalid /\ libMax' = libMax
    BY <1>10 DEF vars
  <2>2. Stays
    BY <1>1, <2>1 DEF Stays, Smaller
  <2>3. SwitchInv'
    BY <2>1 DEF SwitchInv, TypeOK, SwitchOK, PendingApplies, Root, NextOf
  <2> QED
    BY <1>10, <2>1, <2>2, <2>3 DEF Moves, OldBranchKept
<1> QED
  BY <1>2, <1>3, <1>4, <1>5, <1>6, <1>7, <1>8, <1>9, <1>10 DEF Next


-----------------------------------------------------------------------------
(* The invariant, second part: what the head says about the undo history,  *)
(* the block log and the blocks below it.                                  *)

\* What apply_block() has found out about a block, apart from where it is put.
Valid(b, bad) ==
    /\ b \notin bad
    /\ Applying(Txs[b], Included(Prev[b])) = Txs[b]
    /\ Num[b] - Lib[Prev[b]] < MaxUndoHistory

\* The history reaches the last irreversible block, and goes on reaching it
\* when it is trimmed to its limit.
HistoryOK ==
    /\ Num[head] - libMax <= undo
    /\ Num[head] - undoMax + 1 <= libMax
    /\ Lib[head] <= libMax

\* Each block of the chain is in the log, and has been applied.
ChainOK == \A i \in 1..Num[head] : log[i] = Line[head][i] /\ Valid(Line[head][i], invalid)

OldBranchOK == push # Idle => \A i \in 1..Len(push.second) : Valid(push.second[i], invalid)

HeadInv == HistoryOK /\ ChainOK /\ OldBranchOK

\* The invariant holds of an empty database.
LEMMA InitInv ==
    ASSUME Init
    PROVE  SwitchInv /\ HeadInv
<1>1. Num[Genesis] = 0 /\ Lib[Genesis] = 0
  BY BlockAssumption, LibAssumption
<1>2. HeadInv
  <2>1. head = Genesis /\ undo = 0 /\ libMax = 0 /\ push = Idle
    BY DEF Init
  <2>2. HistoryOK
    <3>1. undoMax \in Nat \ {0}
      BY DEF Init
    <3> QED
      BY <1>1, <2>1, <3>1 DEF HistoryOK
  <2>3. 1..Num[head] = {}
    BY <1>1, <2>1
  <2> QED
    BY <2>1, <2>2, <2>3 DEF HeadInv, ChainOK, OldBranchOK
<1>3. invalid \subseteq Block
  BY TxAssumption DEF Init
<1>4. ForkOK(fork)
  BY DEF Init, EmptyForkDb, ForkOK, ForkDb, Items
<1>5. TypeOK
  <2>1. log \in [{Num[b] : b \in Block} -> Block \cup {None}]
    BY DEF Init
  <2>2. session \in BOOLEAN
    BY DEF Init
  <2> QED
    BY <1>3, <1>4, <2>1, <2>2 DEF Init, TypeOK, ForkOK
<1>6. PendingApplies
  BY ApplyingNone DEF Init, PendingApplies
<1> QED
  BY <1>2, <1>4, <1>5, <1>6 DEF SwitchInv, Init

\* What is below all limits is below the smallest.
LEMMA BelowSmaller ==
    ASSUME NEW u \in Nat, NEW p \in Nat, NEW q \in Nat
    PROVE  /\ Smaller(u, Smaller(p, q) - 1) \in Int
           /\ \A x \in Int : x <= u /\ x <= p - 1 /\ x <= q - 1 =>
                 x <= Smaller(u, Smaller(p, q) - 1)
  BY DEF Smaller

\* A block put on the head adds an undo entry, and the limit set for it leaves as
\* many as there are blocks above the last irreversible one.
LEMMA HistoryStep ==
    ASSUME SwitchInv, HistoryOK, Moves, SwitchInv'
    PROVE  HistoryOK'
<1>1. /\ head \in Known /\ undo \in Nat /\ undoMax \in Nat /\ libMax \in Nat
      /\ head' \in Known /\ undo' \in Nat /\ undoMax' \in Nat /\ libMax' \in Nat
  BY DEF SwitchInv, TypeOK, Known
<1>2. Num[head] \in Nat /\ Lib[head] \in Nat
  BY <1>1, NumType, LibAssumption DEF Known
<1>3. CASE Stays
  <2>1. head' = head /\ libMax' = libMax
    BY <1>3 DEF Stays
  <2>2. Num[head] - undoMax' + 1 <= libMax
    <3>1. CASE undoMax' = undoMax
      BY <3>1 DEF HistoryOK
    <3>2. ASSUME NEW b \in Block, Prev[b] = head, undoMax' = SizeFor(b)
          PROVE  Num[head] - undoMax' + 1 <= libMax
      <4>1. undoMax' = Num[head] + 1 - Lib[head] + 1
        BY <3>2, SizeForType
      <4> QED
        BY <1>1, <1>2, <4>1 DEF HistoryOK
    <3> QED
      BY <1>3, <3>1, <3>2 DEF Stays
  <2>3. Num[head] - libMax <= undo'
    <3>1. undo' >= Smaller(undo, Smaller(undoMax, undoMax') - 1)
      BY <1>3 DEF Stays
    <3>2. Num[head] - libMax <= Smaller(undo, Smaller(undoMax, undoMax') - 1)
      <4>1. /\ Num[head] - libMax \in Int /\ Num[head] - libMax <= undo
            /\ Num[head] - libMax <= undoMax - 1 /\ Num[head] - libMax <= undoMax' - 1
        BY <1>1, <1>2, <2>2 DEF HistoryOK
      <4> QED
        BY <1>1, <4>1, BelowSmaller
    <3>3. Smaller(undo, Smaller(undoMax, undoMax') - 1) \in Int
      BY <1>1, BelowSmaller
    <3> QED
      BY <1>1, <1>2, <3>1, <3>2, <3>3
  <2> QED
    BY <2>1, <2>2, <2>3 DEF HistoryOK
<1>4. ASSUME NEW b \in Block, Grows(b) PROVE HistoryOK'
  <2>1. /\ head' = b /\ Prev[b] = head /\ undoMax' = SizeFor(b)
        /\ libMax' = Larger(libMax, Lib[b])
        /\ undo' >= Smaller(Smaller(undo, undoMax - 1) + 1, SizeFor(b) - 1)
    BY <1>4 DEF Grows, CanApply
  <2>2. /\ Num[b] = Num[head] + 1 /\ Lib[b] \in Nat
        /\ SizeFor(b) = Num[b] - Lib[head] + 1
    BY <2>1, SizeForType
  <2>3. libMax' >= libMax /\ libMax' >= Lib[b]
    BY <1>1, <2>1, <2>2 DEF Larger
  <2>4. Num[b] - libMax' <= Smaller(Smaller(undo, undoMax - 1) + 1, SizeFor(b) - 1)
    BY <1>1, <1>2, <2>2, <2>3 DEF HistoryOK, Smaller
  <2>5. Smaller(Smaller(undo, undoMax - 1) + 1, SizeFor(b) - 1) \in Int
    BY <1>1, <1>2, <2>2 DEF Smaller
  <2>6. Num[b] - libMax' <= undo'
    BY <1>1, <1>2, <2>1, <2>2, <2>4, <2>5
  <2>7. Num[b] - undoMax' + 1 <= libMax'
    BY <1>1, <1>2, <2>1, <2>2, <2>3 DEF HistoryOK
  <2> QED
    BY <2>1, <2>3, <2>6, <2>7, <1>1, <2>2 DEF HistoryOK
<1>5. CASE Shrinks
  <2>1. /\ head \in Block /\ head' = Prev[head] /\ libMax' = libMax /\ undoMax' = undoMax
        /\ undo' = undo - 1
    BY <1>5 DEF Shrinks
  <2>2. /\ Num[Prev[head]] \in Nat /\ Num[head] = Num[Prev[head]] + 1
        /\ Lib[Prev[head]] \in Nat /\ Lib[Prev[head]] <= Lib[head]
    BY <2>1, SizeForType
  <2> QED
    BY <1>1, <1>2, <2>1, <2>2 DEF HistoryOK
<1> QED
  BY <1>3, <1>4, <1>5 DEF Moves

\* A block put on the head is written to the log above its predecessor; what lies
\* above the head after a pop is not part of the chain.
LEMMA ChainStep ==
    ASSUME SwitchInv, ChainOK, Moves, SwitchInv', invalid' = invalid
    PROVE  ChainOK'
<1>1. CASE Stays
  BY <1>1 DEF Stays, ChainOK
<1>2. ASSUME NEW b \in Block, Grows(b) PROVE ChainOK'
  <2>1. head' = b /\ Prev[b] = head /\ log' = [log EXCEPT ![Num[b]] = b] /\ Valid(b, invalid)
    BY <1>2 DEF Grows, CanApply, Valid
  <2>2. /\ head \in Known /\ Num[head] \in Nat /\ Num[b] = Num[head] + 1
        /\ Line[head] \in Seq(Block) /\ Len(Line[head]) = Num[head]
        /\ Line[b] = Append(Line[head], b)
    <3>1. head \in Known /\ Num[head] \in Nat /\ Num[b] = Num[head] + 1
      BY <2>1, NumType
    <3>2. Line[head] \in Seq(Block) /\ Len(Line[head]) = Num[head]
      BY <3>1, LineType
    <3>3. Line[b] = Append(Line[head], b)
      BY <2>1, LineUnfold
    <3> QED
      BY <3>1, <3>2, <3>3
  <2>3. Num[b] \in DOMAIN log
    BY DEF SwitchInv, TypeOK
  <2> SUFFICES ASSUME NEW i \in 1..Num[b]
               PROVE  log'[i] = Line[b][i] /\ Valid(Line[b][i], invalid)
    BY <2>1 DEF ChainOK
  <2>4. CASE i = Num[b]
    <3>1. Line[b][i] = b /\ log'[i] = b
      BY <2>1, <2>2, <2>3, <2>4
    <3> QED
      BY <2>1, <3>1
  <2>5. CASE i # Num[b]
    <3>1. i \in 1..Num[head] /\ Line[b][i] = Line[head][i]
      BY <2>2, <2>5
    <3>2. log'[i] = log[i]
      BY <2>1, <2>3, <2>5 DEF SwitchInv, TypeOK
    <3> QED
      BY <3>1, <3>2 DEF ChainOK
  <2> QED
    BY <2>4, <2>5
<1>3. CASE Shrinks
  <2>1. head \in Block /\ head' = Prev[head] /\ log' = log
    BY <1>3 DEF Shrinks
  <2>2. /\ head' \in Known /\ Num[head'] \in Nat /\ Num[head] = Num[head'] + 1
        /\ Line[head'] \in Seq(Block) /\ Len(Line[head']) = Num[head']
        /\ Line[head] = Append(Line[head'], head)
    BY <2>1, NumType, LineType, LineUnfold
  <2>3. ASSUME NEW i \in 1..Num[head']
        PROVE  i \in 1..Num[head] /\ Line[head'][i] = Line[head][i]
    BY <2>2
  <2> QED
    BY <2>1, <2>3 DEF ChainOK
<1> QED
  BY <1>1, <1>2, <1>3 DEF Moves

\* The old branch was part of the chain when the switch started.
LEMMA OldBranchStep ==
    ASSUME SwitchInv, ChainOK, OldBranchOK, OldBranchKept, invalid' = invalid
    PROVE  OldBranchOK'
<1> SUFFICES ASSUME push' # Idle, NEW i \in 1..Len(push'.second)
             PROVE  Valid(push'.second[i], invalid)
  BY DEF OldBranchOK
<1>1. CASE push # Idle /\ push'.second = push.second
  BY <1>1 DEF OldBranchOK
<1>2. CASE push = Idle /\ \E j \in 1..Len(Line[head]) : push'.second[i] = Line[head][j]
  <2>1. PICK j \in 1..Len(Line[head]) : push'.second[i] = Line[head][j]
    BY <1>2
  <2>2. Len(Line[head]) = Num[head]
    BY LineType DEF SwitchInv, TypeOK, Known
  <2>3. Valid(Line[head][j], invalid)
    BY <2>1, <2>2 DEF ChainOK
  <2> QED
    BY <2>1, <2>3
<1> QED
  BY <1>1, <1>2 DEF OldBranchKept

-----------------------------------------------------------------------------
(* The invariant, third part: what a fork switch is to push again.         *)

\* A block includes its own transactions and those of its predecessors.
LEMMA IncludedNext ==
    ASSUME NEW b \in Block
    PROVE  Included(b) = Included(Prev[b]) \cup Elements(Txs[b])
<1> DEFINE p == Line[Prev[b]]
           n == Len(p)
<1>1. /\ p \in Seq(Block) /\ n \in Nat /\ Line[b] = Append(p, b)
  BY NumType, LineType, LineUnfold
<1>2. /\ Len(Line[b]) = n + 1 /\ Line[b][n + 1] = b /\ \A i \in 1..n : Line[b][i] = p[i]
  BY <1>1
<1> HIDE DEF p, n
<1>3. ASSUME NEW tx PROVE tx \in Included(b) <=> tx \in Included(Prev[b]) \cup Elements(Txs[b])
  <2>1. tx \in Included(b) <=> \E i \in 1..(n + 1) : tx \in Elements(Txs[Line[b][i]])
    BY <1>2 DEF Included
  <2>2. tx \in Included(Prev[b]) <=> \E i \in 1..n : tx \in Elements(Txs[p[i]])
    BY DEF Included, p, n
  <2>3. ASSUME NEW i \in 1..(n + 1), tx \in Elements(Txs[Line[b][i]])
        PROVE  tx \in Included(Prev[b]) \cup Elements(Txs[b])
    <3>1. CASE i = n + 1
      BY <1>2, <2>3, <3>1
    <3>2. CASE i # n + 1
      <4>1. i \in 1..n
        BY <1>1, <3>2
      <4> QED
        BY <1>2, <2>2, <2>3, <4>1
    <3> QED
      BY <3>1, <3>2
  <2>4. ASSUME NEW i \in 1..n, tx \in Elements(Txs[p[i]]) PROVE tx \in Included(b)
    <3>1. i \in 1..(n + 1)
      BY <1>1
    <3> QED
      BY <1>2, <2>1, <2>4, <3>1
  <2>5. ASSUME tx \in Elements(Txs[b]) PROVE tx \in Included(b)
    <3>1. n + 1 \in 1..(n + 1)
      BY <1>1
    <3> QED
      BY <1>2, <2>1, <2>5, <3>1
  <2> QED
    BY <2>1, <2>2, <2>3, <2>4, <2>5
<1> QED
  BY <1>3

\* The transactions taken back, in the order in which they will be pushed
\* again, build on the chain or on those before them, wherever the head is.
TodoOK == push # Idle => Ordered(popped \o push.saved, Included(head))

\* Whatever is not on the chain or pending once the switch is over builds on
\* something that is not either.
Accounted ==
    push # Idle /\ push' = Idle =>
        \A tx \in Elements(popped) \cup Elements(push.saved) :
            LET known == Included(head') \cup Elements(pending')
            IN  tx \in known \/ ~(Needs[tx] \subseteq known)

\* The same once the restorer runs on head h, at or above the present one.
LEMMA RestoredAccounted ==
    ASSUME SwitchInv, TodoOK, push # Idle, NEW h, NEW n, NEW max, head' = h,
           Included(head) \subseteq Included(h),
           RestorePending(h, popped, push.saved, n, max)
    PROVE  Accounted
<1> DEFINE todo == popped \o push.saved
<1>1. popped \in Seq(Tx) /\ push.saved \in Seq(Tx)
  BY RunningSwitch DEF SwitchInv, TypeOK
<1>2. todo \in Seq(Tx) /\ Elements(todo) = Elements(popped) \cup Elements(push.saved)
  BY <1>1, ElementsConcat
<1>3. Ordered(todo, Included(head))
  BY DEF TodoOK
<1>4. pending' = Applying(todo, Included(h))
  BY DEF RestorePending
<1> HIDE DEF todo
<1>5. Ordered(todo, Included(h))
  BY <1>2, <1>3, OrderedMore
<1>6. \A tx \in Elements(todo) :
         Needs[tx] \subseteq Included(h) \cup Elements(Applying(todo, Included(h))) =>
             tx \in Included(h) \cup Elements(Applying(todo, Included(h)))
  BY <1>2, <1>5, NoneDropped
<1> QED
  BY <1>2, <1>4, <1>6 DEF Accounted

\* A popped block's transactions come in front of those that may build on them; a
\* block put on the head only adds to what the others can build on.
LEMMA TodoStep ==
    ASSUME SwitchInv, ChainOK, TodoOK, [Next]_vars
    PROVE  TodoOK' /\ Accounted
<1>1. popped \in Seq(Tx) /\ pending \in Seq(Tx) /\ head \in Known
  BY DEF SwitchInv, TypeOK, Known
<1>2. ASSUME NEW b \in Block, NEW n, Push(b, n) PROVE TodoOK' /\ Accounted
  <2>1. push = Idle
    BY <1>2 DEF Push
  <2>2. CASE StartSwitch(b, n)
    <3>1. popped' = << >> /\ push'.saved = pending /\ head' = head
      BY <2>1, <2>2 DEF StartSwitch, SwitchInv, PendingApplies
    <3>2. Applying(pending, Included(head)) = pending
      BY <2>1 DEF SwitchInv, PendingApplies
    <3>3. Ordered(pending, Included(head))
      BY <1>1, <3>2, ApplyingAll
    <3>4. popped' \o push'.saved = pending
      BY <1>1, <3>1
    <3> QED
      BY <2>1, <3>1, <3>3, <3>4 DEF TodoOK, Accounted
  <2>3. CASE ~StartSwitch(b, n)
    <3>1. push' = Idle
      BY <1>2, <2>1, <2>3 DEF Push, Reject, Keep, Extend, FailExtend
    <3> QED
      BY <2>1, <3>1 DEF TodoOK, Accounted
  <2> QED
    BY <2>2, <2>3
<1>3. CASE \E b \in Block : PushBlock(b) \/ GenerateBlock(b)
  BY <1>2, <1>3 DEF PushBlock, GenerateBlock
<1>4. CASE PopOld \/ PopNew
  <2>1. Shrinks /\ push # Idle /\ push' # Idle
    BY <1>4, PopStep
  <2>2. popped' = Txs[head] \o popped /\ push'.saved = push.saved
    <3>1. push \in Switching
      BY <2>1, RunningSwitch
    <3> QED
      BY <1>4, <3>1 DEF PopOld, PopNew, PopHead, Switching
  <2>3. head \in Block /\ head' = Prev[head] /\ Txs[head] \in Seq(Tx) /\ push.saved \in Seq(Tx)
    BY <2>1, RunningSwitch, TxAssumption DEF Shrinks
  <2>4. Ordered(Txs[head], Included(Prev[head]))
    <3>1. Num[head] \in 1..Num[head] /\ Line[head][Num[head]] = head
      BY <2>3, NumType, LineType
    <3>2. Applying(Txs[head], Included(Prev[head])) = Txs[head]
      BY <3>1 DEF ChainOK, Valid
    <3> QED
      BY <2>3, <3>2, ApplyingAll
  <2>5. Ordered(popped \o push.saved, Included(Prev[head]) \cup Elements(Txs[head]))
    BY <2>1, <2>3, IncludedNext DEF TodoOK
  <2>6. Ordered(Txs[head] \o (popped \o push.saved), Included(Prev[head]))
    <3>1. popped \o push.saved \in Seq(Tx)
      BY <1>1, <2>3
    <3> QED
      BY <2>3, <2>4, <2>5, <3>1, OrderedConcat
  <2>7. Txs[head] \o (popped \o push.saved) = (Txs[head] \o popped) \o push.saved
    BY <1>1, <2>3, ConcatThree
  <2> QED
    BY <2>1, <2>2, <2>3, <2>6, <2>7 DEF TodoOK, Accounted
<1>5. CASE ApplyNew \/ RestoreOld
  <2>1. push # Idle /\ push' # Idle
    BY <1>5, ApplyStep
  <2>2. PICK b \in Block : Grows(b)
    BY <1>5, ApplyStep
  <2>3. popped' = popped /\ push'.saved = push.saved
    <3>1. push \in Switching
      BY <2>1, RunningSwitch
    <3> QED
      BY <1>5, <3>1 DEF ApplyNew, RestoreOld, Switching
  <2>4. head' = b /\ Included(head) \subseteq Included(b)
    BY <2>2, IncludedNext DEF Grows, CanApply
  <2>5. popped \o push.saved \in Seq(Tx)
    BY <1>1, <2>1, RunningSwitch
  <2>6. Ordered(popped \o push.saved, Included(b))
    BY <2>1, <2>4, <2>5, OrderedMore DEF TodoOK
  <2> QED
    BY <2>1, <2>3, <2>4, <2>6 DEF TodoOK, Accounted
<1>6. CASE FinishSwitch \/ FinishRestore
  <2>1. push # Idle /\ push' = Idle
    BY <1>6, FinishStep
  <2>2. PICK b \in Block : Grows(b)
    BY <1>6, FinishStep
  <2>3. head' = b /\ Included(head) \subseteq Included(b)
    BY <2>2, IncludedNext DEF Grows, CanApply
  <2>4. \E n : RestorePending(head', popped, push.saved, n, undoMax')
    BY <1>6 DEF FinishSwitch, FinishRestore, Apply
  <2>5. Accounted
    BY <2>1, <2>3, <2>4, RestoredAccounted
  <2> QED
    BY <2>1, <2>5 DEF TodoOK
<1>7. CASE FailNew
  <2>1. push # Idle /\ push' # Idle
    BY <1>7, FailNewStep
  <2>2. popped' = popped /\ push'.saved = push.saved /\ head' = head
    <3>1. push \in Switching
      BY <2>1, RunningSwitch
    <3> QED
      BY <1>7, <3>1 DEF FailNew, Switching
  <2> QED
    BY <2>1, <2>2 DEF TodoOK, Accounted
<1>8. CASE AbortSwitch
  <2>1. push # Idle /\ push' = Idle
    BY <1>8, AbortStep
  <2>2. head' = head /\ RestorePending(head, popped, push.saved, undo, undoMax)
    BY <1>8 DEF AbortSwitch
  <2>3. Accounted
    BY <2>1, <2>2, RestoredAccounted
  <2> QED
    BY <2>1, <2>3 DEF TodoOK
<1>9. CASE \E tx \in Tx : PushTransaction(tx)
  <2>1. push = Idle /\ push' = Idle
    BY <1>9, PushTransactionStep
  <2> QED
    BY <2>1 DEF TodoOK, Accounted
<1>10. CASE UNCHANGED vars
  BY <1>10 DEF vars, TodoOK, Accounted
<1> QED
  BY <1>3, <1>4, <1>5, <1>6, <1>7, <1>8, <1>9, <1>10 DEF Next

-----------------------------------------------------------------------------
(* The theorems.                                                           *)

ChainInv == SwitchInv /\ HeadInv /\ TodoOK

\* Every step keeps the three parts of the invariant together.
LEMMA InvStep ==
    ChainInv /\ [Next]_vars => ChainInv'
<1> SUFFICES ASSUME SwitchInv, HeadInv, TodoOK, [Next]_vars
             PROVE  SwitchInv' /\ HeadInv' /\ TodoOK'
  BY DEF ChainInv
<1>1. SwitchInv' /\ Moves /\ OldBranchKept /\ invalid' = invalid
  BY EveryStep
<1>2. HistoryOK'
  BY <1>1, HistoryStep DEF HeadInv
<1>3. ChainOK'
  BY <1>1, ChainStep DEF HeadInv
<1>4. OldBranchOK'
  BY <1>1, OldBranchStep DEF HeadInv
<1>5. TodoOK'
  BY TodoStep DEF HeadInv
<1> QED
  BY <1>1, <1>2, <1>3, <1>4, <1>5 DEF HeadInv

\* The invariant holds in every reachable state of the chain database, for every
\* block tree.
THEOREM ChainInvariant == Spec => []ChainInv
<1>1. Init => ChainInv
  BY InitInv DEF ChainInv, TodoOK, Init
<1> QED
  BY <1>1, InvStep, PTL DEF Spec

\* push_block() and its fork switches keep every variable of the database within
\* its type: no pop reaches below block 1, no size becomes negative.
THEOREM ChainTypes == Spec => []TypeOK
<1>1. ChainInv => TypeOK
  BY DEF ChainInv, SwitchInv
<1> QED
  BY <1>1, ChainInvariant, PTL

\* ~pending_transactions_restorer() and push_transaction() leave pending
\* transactions that all apply on the head block.
THEOREM PendingAlwaysApplies == Spec => []PendingApplies
<1>1. ChainInv => PendingApplies
  BY DEF ChainInv, SwitchInv
<1> QED
  BY <1>1, ChainInvariant, PTL

\* What _block_id_to_block holds for the numbers up to the head's is the chain
\* of the head, although fork switches overwrite it block by block.
THEOREM LogAlwaysFollows == Spec => []LogFollowsChain
<1>1. ChainInv => LogFollowsChain
  <2> SUFFICES ASSUME ChainInv PROVE LogFollowsChain
    OBVIOUS
  <2>1. Len(Line[head]) = Num[head]
    BY LineType DEF ChainInv, SwitchInv, TypeOK, Known
  <2> QED
    BY <2>1 DEF ChainInv, HeadInv, ChainOK, LogFollowsChain
<1> QED
  BY <1>1, ChainInvariant, PTL

\* The undo history, as trimmed by start_undo_session(), always reaches the
\* highest block that has been irreversible.
THEOREM HistoryAlwaysReaches == Spec => []HistoryReachesLib
<1>1. ChainInv => HistoryReachesLib
  BY DEF ChainInv, HeadInv, HistoryOK, HistoryReachesLib
<1> QED
  BY <1>1, ChainInvariant, PTL

\* When a fork switch fails, each block of the old branch applies again.
THEOREM OldBranchApplies == Spec => []RestoreApplies
<1>1. ChainInv => RestoreApplies
  <2> SUFFICES ASSUME ChainInv, push # Idle, push.step = "restoring"
               PROVE  CanApply(NextOf(push.second))
    BY DEF RestoreApplies
  <2>1. /\ push.done \in Nat /\ push.done < Len(push.second)
        /\ head = Prev[NextOf(push.second)]
        /\ push.second \in Seq(Block)
    BY RunningSwitch DEF ChainInv, SwitchInv, SwitchOK
  <2>2. push.done + 1 \in 1..Len(push.second)
    BY <2>1
  <2>3. Valid(NextOf(push.second), invalid)
    BY <2>2 DEF ChainInv, HeadInv, OldBranchOK, NextOf
  <2> QED
    BY <2>1, <2>3 DEF Valid, CanApply
<1> QED
  BY <1>1, ChainInvariant, PTL

\* push_block() never lowers the head, unless pop_block() throws inside it.
THEOREM HeadStaysUp == Spec => HeadNeverLowered
<1>1. ChainInv /\ [Next]_vars => [NotLowered]_vars
  BY EveryStep DEF ChainInv
<1> QED
  BY <1>1, ChainInvariant, PTL DEF Spec, HeadNeverLowered, NotLowered

\* A fork switch loses no transaction that still applies: what it popped and what
\* was pending is pushed again in an order in which each transaction comes after
\* those it builds on, also when a failed switch has popped both branches.
THEOREM NothingEverLost == Spec => NothingLost
<1>1. ChainInv /\ [Next]_vars => [Accounted]_vars
  BY TodoStep DEF ChainInv, HeadInv
<1> QED
  BY <1>1, ChainInvariant, PTL DEF Spec, NothingLost, Accounted
=============================================================================
