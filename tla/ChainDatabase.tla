---------------------------- MODULE ChainDatabase ----------------------------
(***************************************************************************)
(* How a node's chain database follows the longest branch: push_block(),   *)
(* the fork switch inside it, pop_block(), the pending transactions and    *)
(* the block log on disk (db_block.cpp, db_with.hpp, block_database.cpp).  *)
(*                                                                         *)
(* The contents of the object database are determined by the head block    *)
(* and the pending transactions applied on top of it.  The undo history    *)
(* (module UndoDatabase) appears as the number of blocks it can take back. *)
(* A transaction applies once all those it builds on have been applied,    *)
(* and only once.                                                          *)
(*                                                                         *)
(* The chain runs on one thread, so nothing happens inside a push_block()  *)
(* but its own steps.  A push that switches forks takes one step for each  *)
(* block popped or applied, any other push is one step.                    *)
(***************************************************************************)
EXTENDS ForkDatabase

CONSTANTS
    Lib,            \* last_irreversible_block_num once a block is applied
    Tx,             \* transactions
    Txs,            \* the transactions of each block
    Needs,          \* the transactions each transaction builds on
    MaxUndoHistory, \* GRAPHENE_MAX_UNDO_HISTORY
    MaxPending,     \* bound on the pending transactions
    Faults          \* the sets of blocks that may be invalid together

ASSUME LibAssumption ==
    /\ Lib \in [Block \cup {Genesis} -> Nat]
    /\ Lib[Genesis] = 0
    /\ \A b \in Block : Lib[Prev[b]] <= Lib[b] /\ Lib[b] <= Num[b]

ASSUME TxAssumption ==
    /\ Txs \in [Block -> Seq(Tx)]
    /\ Needs \in [Tx -> SUBSET Tx]
    /\ MaxUndoHistory \in Nat \ {0}
    /\ MaxPending \in Nat
    /\ Faults \subseteq SUBSET Block

VARIABLES
    head,       \* dynamic_global_property_object::head_block_id
    undo,       \* how many blocks the undo history can take back
    undoMax,    \* undo_database::_max_size
    fork,       \* _fork_db
    log,        \* _block_id_to_block: the block stored for each number
    pending,    \* _pending_tx
    session,    \* _pending_tx_session.valid()
    popped,     \* _popped_tx
    push,       \* the fork switch that is running, if any
    invalid,    \* the blocks that fail to apply; never changes
    libMax      \* (history) the highest last_irreversible_block_num so far

vars == <<head, undo, undoMax, fork, log, pending, session, popped, push,
          invalid, libMax>>

Idle == [step |-> "idle"]

\* The locals of _push_block() while it switches forks: the two branches, how
\* many blocks of the branch it is working on are applied, and the pending
\* transactions kept by pending_transactions_restorer.
Switching ==
    [step: {"popping", "applying", "unwinding", "restoring"},
     first: Seq(Block), second: Seq(Block), done: Nat, saved: Seq(Tx)]

Elements(s) == {s[i] : i \in 1..Len(s)}

-----------------------------------------------------------------------------
(* Transactions.                                                           *)

\* The transactions on the chain up to b.
Included(b) == UNION {Elements(Txs[Line[b][i]]) : i \in 1..Len(Line[b])}

\* _apply_transaction(), where the transactions in "known" have been applied.
Applies(tx, known) == tx \notin known /\ Needs[tx] \subseteq known

\* The transactions of s that apply one after the other.
Applying(s, known) ==
    LET kept[i \in 0..Len(s)] ==
            IF i = 0 THEN << >>
            ELSE IF Applies(s[i], known \cup Elements(kept[i - 1]))
            THEN Append(kept[i - 1], s[i]) ELSE kept[i - 1]
    IN  kept[Len(s)]

\* The undo entries left once start_undo_session() has trimmed the history for
\* a pending transaction, and again for the temporary session on top.
Trimmed == Smaller(undo, undoMax - 1)

\* Mutant: transactions the new chain already has are not recognised.
RestorePendingBlindly(h, ps, saved, n, max) ==
    /\ pending' = Applying(ps \o saved, {})
    /\ session' = (ps \o saved # << >>)
    /\ undo' = IF ps \o saved # << >> THEN Smaller(n, max - 1) ELSE n
    /\ popped' = << >>

\* ~pending_transactions_restorer(), with h the head block and n the undo
\* entries: everything popped, then everything that was pending, is pushed
\* again unless it is known or no longer applies.
RestorePending(h, ps, saved, n, max) ==
    LET todo == ps \o saved
        tried == \E tx \in Elements(todo) : tx \notin Included(h)
    IN  /\ pending' = Applying(todo, Included(h))
        /\ session' = tried
        /\ undo' = IF tried THEN Smaller(n, max - 1) ELSE n
        /\ popped' = << >>

-----------------------------------------------------------------------------
(* apply_block() and pop_block().                                          *)

\* Whether b can be applied: it continues the head, its transactions apply in
\* order and it leaves the undo history within its limit.
CanApply(b) ==
    /\ Prev[b] = head
    /\ b \notin invalid
    /\ Applying(Txs[b], Included(head)) = Txs[b]
    /\ Num[b] - Lib[head] < MaxUndoHistory

\* Mutant: off by one.
SizeForOneLess(b) == Num[b] - Lib[Prev[b]]

\* What update_global_dynamic_data() sets the size of the undo history and of
\* the fork database to: Lib is not updated yet.
SizeFor(b) == Num[b] - Lib[Prev[b]] + 1

\* A session, apply_block(), store() and commit(), with fork database f.  The
\* undo history is first trimmed, then grows by one entry.
Apply(b, f, held) ==
    /\ head' = b
    /\ undoMax' = SizeFor(b)
    /\ fork' = Settled(SetMaxSize(f, SizeFor(b)), held)
    /\ log' = [log EXCEPT ![Num[b]] = b]
    /\ libMax' = Larger(libMax, Lib[b])

\* A failed apply_block(): the session takes back all changes but the sizes,
\* which a block that fails late has set.
FailsLate(b) == {FALSE} \cup {late \in {TRUE} : Prev[b] = head /\ b \in invalid}

AfterFailure(b, f, late) == IF late THEN SetMaxSize(f, SizeFor(b)) ELSE f

\* fetch_block_by_id() finds the head block.
HeadFound == head \in fork.index \/ \E n \in DOMAIN log : log[n] = head

CanPopHead == HeadFound /\ CanPop(fork) /\ undo > 0

\* Mutant: the transactions go behind those of the blocks popped before.
PopHeadAppending(held) ==
    /\ CanPopHead
    /\ fork' = Settled(Popped(fork), held)
    /\ undo' = undo - 1
    /\ head' = Prev[head]
    /\ popped' = popped \o Txs[head]

\* pop_block().
PopHead(held) ==
    /\ CanPopHead
    /\ fork' = Settled(Popped(fork), held)
    /\ undo' = undo - 1
    /\ head' = Prev[head]
    /\ popped' = Txs[head] \o popped

-----------------------------------------------------------------------------
(* push_block().  n is the number of undo entries when it begins.          *)

\* clear_pending() ... ~pending_transactions_restorer() around a push that is
\* one step and leaves m undo entries and the head h.
AroundPending(h, m, max) == RestorePending(h, popped, pending, m, max)

\* The block is refused before it reaches the fork database's index: too old,
\* unlinkable, or signed by a witness that verify_signing_witness() knows not
\* to be scheduled.
Reject(b, n) ==
    /\ fork.head # None
    /\ ~Accepts(fork, b) \/ Prev[b] \notin fork.index \/ b \in invalid
    /\ AroundPending(head, n, undoMax)
    /\ UNCHANGED <<head, undoMax, fork, log, push, libMax>>

\* The longest branch is not the head's but no higher, or it is higher and
\* fetch_branch_from() cannot trace it: the block stays in the fork database.
Keep(b, n) ==
    LET f == Pushed(fork, b)
    IN  /\ Accepts(fork, b)
        /\ Prev[f.head] # head
        /\ \/ Num[f.head] <= Num[head]
           \/ ~CanFetch(Settled(f, {}), f.head, head)
        /\ fork' = Settled(f, {})
        /\ AroundPending(head, n, undoMax)
        /\ UNCHANGED <<head, undoMax, log, push, libMax>>

\* The longest branch continues the head: the block is applied.
Extend(b, n) ==
    LET f == Pushed(fork, b)
    IN  /\ Accepts(fork, b)
        /\ Prev[f.head] = head
        /\ CanApply(b)
        /\ Apply(b, f, {})
        /\ AroundPending(b, Smaller(n, undoMax) + 1, SizeFor(b))
        /\ UNCHANGED push

\* The same, but the block does not apply and is removed again.
FailExtend(b, n) ==
    LET f == Pushed(fork, b)
    IN  /\ Accepts(fork, b)
        /\ Prev[f.head] = head
        /\ ~CanApply(b)
        /\ \E late \in FailsLate(b) :
             /\ undoMax' = IF late THEN SizeFor(b) ELSE undoMax
             /\ fork' = Settled(Removed(AfterFailure(b, f, late), {b}), {})
        /\ AroundPending(head, Smaller(n, undoMax), undoMax')
        /\ UNCHANGED <<head, log, push, libMax>>

\* The longest branch is higher than the head and not on it.
StartSwitch(b, n) ==
    LET f == Pushed(fork, b)
        br == Branches(f.head, head)
    IN  /\ Accepts(fork, b)
        /\ Prev[f.head] # head
        /\ Num[f.head] > Num[head]
        /\ head # Genesis
        /\ CanFetch(Settled(f, {}), f.head, head)
        /\ fork' = Settled(f, Elements(br.first) \cup Elements(br.second))
        /\ push' = [step |-> "popping", first |-> br.first, second |-> br.second,
                    done |-> 0, saved |-> pending]
        /\ undo' = n
        /\ pending' = << >>
        /\ session' = FALSE
        /\ UNCHANGED <<head, undoMax, log, popped, libMax>>

Push(b, n) ==
    /\ push = Idle
    /\ \/ Reject(b, n)
       \/ Keep(b, n)
       \/ Extend(b, n)
       \/ FailExtend(b, n)
       \/ StartSwitch(b, n)
    /\ UNCHANGED invalid

\* A block arrives from a peer; it may have arrived before.  Peers send the
\* blocks a node asks for in order, so the first one continues its head.
PushBlock(b) ==
    /\ fork.head # None \/ Prev[b] = head
    /\ Push(b, undo)

\* _generate_block(): pending transactions are applied afresh, except those
\* that would make the block too large.
GenerateBlock(b) ==
    /\ Prev[b] = head
    /\ \E ts \in SUBSET Tx :
         LET chosen == SelectSeq(pending, LAMBDA tx : tx \in ts)
         IN  /\ Txs[b] = Applying(chosen, Included(head))
             /\ Push(b, Smaller(undo, IF chosen = << >> THEN undoMax ELSE undoMax - 1))

-----------------------------------------------------------------------------
(* The steps of a fork switch.                                             *)

Held == Elements(push.first) \cup Elements(push.second)

\* The block both branches continue.
Root == Prev[push.second[1]]

OldHead == push.second[Len(push.second)]

\* The block to apply next, of the branch s.
NextOf(s) == s[push.done + 1]

PopOld ==
    /\ push.step = "popping"
    /\ PopHead(Held)
    /\ push' = [push EXCEPT !.step = IF Prev[head] = Root THEN "applying" ELSE @]
    /\ UNCHANGED <<undoMax, log, pending, session, invalid, libMax>>

ApplyNew ==
    /\ push.step = "applying"
    /\ push.done + 1 < Len(push.first)
    /\ CanApply(NextOf(push.first))
    /\ Apply(NextOf(push.first), fork, Held)
    /\ undo' = Smaller(undo, undoMax) + 1
    /\ push' = [push EXCEPT !.done = @ + 1]
    /\ UNCHANGED <<pending, session, popped, invalid>>

\* The last block of the new branch is applied and push_block() returns true.
FinishSwitch ==
    /\ push.step = "applying"
    /\ push.done + 1 = Len(push.first)
    /\ CanApply(NextOf(push.first))
    /\ Apply(NextOf(push.first), fork, {})
    /\ RestorePending(NextOf(push.first), popped, push.saved,
                      Smaller(undo, undoMax) + 1, undoMax')
    /\ push' = Idle
    /\ UNCHANGED invalid

\* Mutant: the switch stops where it fails.
FailNewStaying ==
    LET b == NextOf(push.first)
    IN  /\ push.step = "applying"
        /\ ~CanApply(b)
        /\ fork' = Settled(Removed(fork,
                {push.first[i] : i \in (push.done + 1)..Len(push.first)}), {})
        /\ RestorePending(head, popped, push.saved, Smaller(undo, undoMax), undoMax)
        /\ push' = Idle
        /\ UNCHANGED <<head, undoMax, log, invalid, libMax>>

\* Mutant: the fork database keeps the head of the bad branch.
FailNewKeepingHead ==
    LET b == NextOf(push.first)
    IN  /\ push.step = "applying"
        /\ ~CanApply(b)
        /\ \E late \in FailsLate(b) :
             /\ undoMax' = IF late THEN SizeFor(b) ELSE undoMax
             /\ fork' = Settled(Removed(AfterFailure(b, fork, late),
                            {push.first[i] : i \in (push.done + 1)..Len(push.first)}),
                            Held)
        /\ undo' = Smaller(undo, undoMax)
        /\ push' = [push EXCEPT !.step = IF push.done = 0 THEN "restoring" ELSE "unwinding",
                                !.done = 0]
        /\ UNCHANGED <<head, log, pending, session, popped, invalid, libMax>>

\* Mutant: a block that was applied before the failure is not popped.
FailNewOneApplied ==
    LET b == NextOf(push.first)
    IN  /\ push.step = "applying"
        /\ ~CanApply(b)
        /\ \E late \in FailsLate(b) :
             /\ undoMax' = IF late THEN SizeFor(b) ELSE undoMax
             /\ fork' = Settled(SetHead(Removed(AfterFailure(b, fork, late),
                            {push.first[i] : i \in (push.done + 1)..Len(push.first)}),
                            OldHead), Held)
        /\ undo' = Smaller(undo, undoMax)
        /\ push' = [push EXCEPT !.step = IF push.done <= 1 THEN "restoring" ELSE "unwinding",
                                !.done = 0]
        /\ UNCHANGED <<head, log, pending, session, popped, invalid, libMax>>

\* A block of the new branch does not apply: it and those above it leave the
\* fork database, and the old head becomes its head.
FailNew ==
    LET b == NextOf(push.first)
    IN  /\ push.step = "applying"
        /\ ~CanApply(b)
        /\ \E late \in FailsLate(b) :
             /\ undoMax' = IF late THEN SizeFor(b) ELSE undoMax
             /\ fork' = Settled(SetHead(Removed(AfterFailure(b, fork, late),
                            {push.first[i] : i \in (push.done + 1)..Len(push.first)}),
                            OldHead), Held)
        /\ undo' = Smaller(undo, undoMax)
        /\ push' = [push EXCEPT !.step = IF push.done = 0 THEN "restoring" ELSE "unwinding",
                                !.done = 0]
        /\ UNCHANGED <<head, log, pending, session, popped, invalid, libMax>>

\* Popping the blocks of the new branch that were applied.
PopNew ==
    /\ push.step = "unwinding"
    /\ PopHead(Held)
    /\ push' = [push EXCEPT !.step = IF Prev[head] = Root THEN "restoring" ELSE @]
    /\ UNCHANGED <<undoMax, log, pending, session, invalid, libMax>>

RestoreOld ==
    /\ push.step = "restoring"
    /\ push.done + 1 < Len(push.second)
    /\ CanApply(NextOf(push.second))
    /\ Apply(NextOf(push.second), fork, Held)
    /\ undo' = Smaller(undo, undoMax) + 1
    /\ push' = [push EXCEPT !.done = @ + 1]
    /\ UNCHANGED <<pending, session, popped, invalid>>

\* Mutant: the blocks of the old branch are not stored again.
FinishRestoreUnstored ==
    /\ push.step = "restoring"
    /\ push.done + 1 = Len(push.second)
    /\ CanApply(NextOf(push.second))
    /\ head' = NextOf(push.second)
    /\ undoMax' = SizeFor(head')
    /\ fork' = Settled(SetMaxSize(fork, SizeFor(head')), {})
    /\ UNCHANGED log
    /\ RestorePending(NextOf(push.second), popped, push.saved,
                      Smaller(undo, undoMax) + 1, undoMax')
    /\ push' = Idle
    /\ UNCHANGED <<invalid, libMax>>

\* The old branch is back, and push_block() throws.
FinishRestore ==
    /\ push.step = "restoring"
    /\ push.done + 1 = Len(push.second)
    /\ CanApply(NextOf(push.second))
    /\ Apply(NextOf(push.second), fork, {})
    /\ RestorePending(NextOf(push.second), popped, push.saved,
                      Smaller(undo, undoMax) + 1, undoMax')
    /\ push' = Idle
    /\ UNCHANGED invalid

\* pop_block() throws, and push_block() with it, where it happens to be.
AbortSwitch ==
    /\ push.step \in {"popping", "unwinding"}
    /\ ~CanPopHead
    /\ fork' = Settled(IF HeadFound /\ CanPop(fork) THEN Popped(fork) ELSE fork, {})
    /\ RestorePending(head, popped, push.saved, undo, undoMax)
    /\ push' = Idle
    /\ UNCHANGED <<head, undoMax, log, invalid, libMax>>

-----------------------------------------------------------------------------
\* push_transaction(): the transaction joins the pending ones if it applies.
PushTransaction(tx) ==
    /\ push = Idle
    /\ Len(pending) < MaxPending
    /\ session' = TRUE
    /\ undo' = Trimmed
    /\ pending' = IF Applies(tx, Included(head) \cup Elements(pending))
                  THEN Append(pending, tx) ELSE pending
    /\ UNCHANGED <<head, undoMax, fork, log, popped, push, invalid, libMax>>

Init ==
    /\ head = Genesis
    /\ undo = 0
    /\ undoMax = 256
    /\ fork = EmptyForkDb
    /\ log = [n \in {Num[b] : b \in Block} |-> None]
    /\ pending = << >>
    /\ session = FALSE
    /\ popped = << >>
    /\ push = Idle
    /\ invalid \in Faults
    /\ libMax = 0

Next ==
    \/ \E b \in Block : PushBlock(b) \/ GenerateBlock(b)
    \/ PopOld \/ ApplyNew \/ FinishSwitch
    \/ FailNew \/ PopNew \/ RestoreOld \/ FinishRestore
    \/ AbortSwitch
    \/ \E tx \in Tx : PushTransaction(tx)

Spec == Init /\ [][Next]_vars

\* The chain thread finishes what it has begun, and peers send their blocks
\* until the node has them.
SwitchStep ==
    PopOld \/ ApplyNew \/ FinishSwitch \/ FailNew \/ PopNew \/ RestoreOld
    \/ FinishRestore \/ AbortSwitch

FairSpec ==
    /\ Spec
    /\ WF_vars(SwitchStep)
    /\ \A b \in Block : WF_vars(PushBlock(b))

-----------------------------------------------------------------------------
\* Types of all variables.
TypeOK ==
    /\ head \in Block \cup {Genesis}
    /\ undo \in Nat
    /\ undoMax \in Nat \ {0}
    /\ fork \in ForkDb
    /\ log \in [{Num[b] : b \in Block} -> Block \cup {None}]
    /\ pending \in Seq(Tx)
    /\ session \in BOOLEAN
    /\ popped \in Seq(Tx)
    /\ push \in {Idle} \cup Switching
    /\ invalid \subseteq Block
    /\ libMax \in Nat

\* The comment in _generate_block(): "_pending_tx_session is the result of
\* applying _pending_tx".  Whatever was pushed, popped or switched, the pending
\* transactions apply one after the other on the head block, none is on the
\* chain already, and there is a session to undo them (what clear_pending()
\* asserts).
PendingApplies ==
    push = Idle =>
        /\ Applying(pending, Included(head)) = pending
        /\ pending # << >> => session
        /\ popped = << >>

\* Between pushes the block log agrees with the chain: the block stored for
\* each number up to the head's is the ancestor of the head with that number,
\* although a fork switch overwrites the log block by block and never erases.
LogFollowsChain ==
    push = Idle => \A i \in 1..Len(Line[head]) : log[i] = Line[head][i]

\* At any time, in the middle of a fork switch too, there is enough undo history
\* to go back to the highest block the node has seen irreversible (on the branch
\* it is on, unless it has left one on which more was irreversible): what close()
\* does before it saves the object database.  The history is trimmed for blocks,
\* for pending transactions and for the branches of abandoned fork switches, to
\* a size that is set before the last irreversible block is known.
HistoryReachesLib == Num[head] - libMax <= undo

\* A fork switch, started as soon as another branch is one block longer, runs
\* into pop_block()'s exceptions only when it takes back a block the node has
\* seen irreversible, or when the old branch is cut off from the block where the
\* branches part (it begins with block 1, or the fork database has dropped that
\* block: see TreeMaintained).  Otherwise the undo history and the pointers
\* suffice, also when the new branch turns out to be invalid half way up.  (A
\* switch that did break off leaves the head behind by more than a block.)
SwitchNeverAborts ==
    push # Idle /\ push.step \in {"popping", "unwinding"}
    /\ Len(push.first) = Len(push.second) + 1 =>
        CanPopHead \/ Num[Root] < libMax \/ push.second[1] \in fork.lost

\* The old branch can always be applied again.
RestoreApplies ==
    push # Idle /\ push.step = "restoring" => CanApply(NextOf(push.second))

\* A push never lowers the head block, and one that ends a fork switch with an
\* exception leaves the head where it was, unless pop_block() throws.
HeadNeverLowered ==
    [][push' = Idle /\ ~AbortSwitch =>
         IF push = Idle THEN head' = head \/ Prev[head'] = head
         ELSE head' = OldHead \/ Num[head'] > Num[OldHead]]_vars

\* Nothing that still applies is lost in a fork switch: a transaction of a
\* popped block, or one that was pending, is on the new chain, pending again,
\* or built on something that is neither.
NothingLost ==
    [][push # Idle /\ push' = Idle =>
         \A tx \in Elements(popped) \cup Elements(push.saved) :
             LET known == Included(head') \cup Elements(pending')
             IN  tx \in known \/ ~(Needs[tx] \subseteq known)]_vars

\* The comment on fork_database: "As long as blocks are pushed in order the
\* fork database will maintain a linked tree of all blocks that branch from the
\* start_block."  A block whose predecessor is known leaves the tree only when
\* it, or a block it builds on, is invalid.
TreeMaintained ==
    [][\A b \in Block : push = Idle /\ Prev[b] \in fork.index /\ FailExtend(b, undo) =>
         \E i \in 1..Len(Line[b]) : Line[b][i] \in invalid]_vars

\* When every block is valid and keeps arriving until push_block takes it, the
\* node ends up on a longest branch and stays there, in whatever order the
\* blocks arrive and however often it switches on the way.
Converges ==
    invalid = {} => <>[](\A b \in Block : Num[b] <= Num[head])
=============================================================================
