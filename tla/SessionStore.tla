---------------------------- MODULE SessionStore ----------------------------
(***************************************************************************)
(* What the object database promises to the code above it: a store with    *)
(* nested sessions.  Opening a session takes a snapshot; aborting the      *)
(* newest one brings the store back to exactly that snapshot, whatever     *)
(* happened in between; keeping it forgets the snapshot and leaves the     *)
(* store as it is.  The oldest snapshots may be forgotten when a session   *)
(* is opened, and then the blocks they stand for cannot be popped.         *)
(***************************************************************************)
EXTENDS Integers, Sequences

CONSTANT Content    \* the states the store may be in

VARIABLES
    store,   \* the store now
    saved    \* the snapshots that can be returned to, oldest first

vars == <<store, saved>>

Init ==
    /\ store \in Content
    /\ saved = << >>

\* The store changes; the snapshots do not.  A change made when there is no
\* snapshot may take one first.
Change ==
    /\ store' \in Content
    /\ \/ saved' = saved
       \/ saved = << >> /\ saved' = <<store>>

Begin ==
    \E k \in 1..(Len(saved) + 1) :
        /\ saved' = Append(SubSeq(saved, k, Len(saved)), store)
        /\ store' = store

Abort ==
    /\ saved # << >>
    /\ store' = saved[Len(saved)]
    /\ saved' = SubSeq(saved, 1, Len(saved) - 1)

Keep ==
    /\ saved # << >>
    /\ saved' = SubSeq(saved, 1, Len(saved) - 1)
    /\ store' = store

Next == Change \/ Begin \/ Abort \/ Keep

Spec == Init /\ [][Next]_vars
=============================================================================
