---------------------------- MODULE ForkDatabase -----------------------------
(***************************************************************************)
(* The fork database (fork_database.cpp): the recent blocks of every       *)
(* branch, linked to their predecessors by weak pointers, and the block    *)
(* taken to be the tip of the longest branch.                              *)
(*                                                                         *)
(* Blocks form a tree that is fixed by their hashes: a block's id holds    *)
(* its number, which is one more than its predecessor's.  A fork item is   *)
(* named by its block.  It lives while the index, the head pointer or a    *)
(* running fork switch holds it; the "lost" items are those whose own      *)
(* pointer to their predecessor is null, because it was never set or       *)
(* because the predecessor's item has died since.                          *)
(***************************************************************************)
EXTENDS Integers, Sequences

CONSTANTS
    Block,      \* the blocks there are
    Genesis,    \* the null id, the predecessor of block 1
    None,       \* a null item
    Prev,       \* signed_block::previous
    Num         \* block_num(), taken from the id

ASSUME BlockAssumption ==
    /\ Genesis \notin Block
    /\ None \notin Block \cup {Genesis}
    /\ Prev \in [Block -> Block \cup {Genesis}]
    /\ Num \in [Block \cup {Genesis} -> Nat]
    /\ Num[Genesis] = 0
    /\ \A b \in Block : Num[b] = Num[Prev[b]] + 1

Smaller(m, n) == IF m <= n THEN m ELSE n

Larger(m, n) == IF m <= n THEN n ELSE m

\* fork_database's members; max is _max_size.
ForkDb == [index: SUBSET Block, head: Block \cup {None}, lost: SUBSET Block, max: Nat]

\* reset(), with the size a fork database starts with.
EmptyForkDb == [index |-> {}, head |-> None, lost |-> {}, max |-> 1024]

Items(f) == f.index \cup ({f.head} \ {None})

\* The pointers of f once the items that nothing holds any more have died;
\* "held" are the items a running fork switch holds.
Settled(f, held) ==
    [f EXCEPT !.lost = {b \in Items(f) :
                          b \in f.lost \/ Prev[b] \notin Items(f) \cup held}]

\* Erasing the items that are too far below the head.
Pruned(f) ==
    LET lowest == Num[f.head] - Smaller(f.max, Num[f.head])
    IN  [f EXCEPT !.index = {b \in @ : Num[b] >= lowest}]

-----------------------------------------------------------------------------
(* _push_block().                                                          *)

TooOld(f, b) ==
    /\ f.head # None
    /\ Num[b] <= (IF Num[f.head] > f.max THEN Num[f.head] - f.max ELSE 0)

\* Mutant: only a block that continues the head links.
LinkedToHead(f, b) == f.head = None \/ Prev[b] = Genesis \/ Prev[b] = f.head

\* The block links to a known one, or need not.
Linked(f, b) == f.head = None \/ Prev[b] = Genesis \/ Prev[b] \in f.index

Accepts(f, b) == ~TooOld(f, b) /\ Linked(f, b)

Pushed(f, b) ==
    LET g == [f EXCEPT !.index = @ \cup {b}]
    IN  IF f.head = None THEN [g EXCEPT !.head = b]
        ELSE IF Num[b] > Num[f.head] THEN Pruned([g EXCEPT !.head = b])
        ELSE g

-----------------------------------------------------------------------------
(* The other operations.                                                   *)

\* pop_block() asserts that the head has a predecessor to fall back on.
CanPop(f) == f.head # None /\ f.head \notin f.lost

Popped(f) == [f EXCEPT !.head = Prev[f.head]]

Removed(f, bs) == [f EXCEPT !.index = @ \ bs]

SetHead(f, b) == [f EXCEPT !.head = b]

SetMaxSize(f, n) ==
    LET g == [f EXCEPT !.max = n] IN IF f.head = None THEN g ELSE Pruned(g)

-----------------------------------------------------------------------------
(* fetch_branch_from().                                                    *)

\* The blocks from block 1 up to b.
Line[b \in Block \cup {Genesis}] ==
    IF b = Genesis THEN << >> ELSE Append(Line[Prev[b]], b)

\* Where two lines part: the last position up to which they have the same
\* predecessors.  It exists when neither line is empty.
Fork(s, t) ==
    CHOOSE k \in 1..Smaller(Len(s), Len(t)) :
        /\ SubSeq(s, 1, k - 1) = SubSeq(t, 1, k - 1)
        /\ k = Smaller(Len(s), Len(t)) \/ s[k] # t[k]

\* The two branches, lowest block first: everything above the block the two
\* lines have in common.  (If b is an ancestor of a, b itself is in both.)
Branches(a, b) ==
    LET s == Line[a]
        t == Line[b]
        k == Fork(s, t)
    IN  [first |-> SubSeq(s, k, Len(s)), second |-> SubSeq(t, k, Len(t))]

\* Whether fetch_branch_from() finds both ends and can follow the pointers of
\* every block above the lowest of each branch.
CanFetch(f, a, b) ==
    /\ a \in f.index
    /\ b \in f.index
    /\ LET br == Branches(a, b)
       IN  /\ \A i \in 2..Len(br.first) : br.first[i] \notin f.lost
           /\ \A i \in 2..Len(br.second) : br.second[i] \notin f.lost
=============================================================================
