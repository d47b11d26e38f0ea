---------------------------- MODULE UndoDatabase ----------------------------
(***************************************************************************)
(* The object database and its undo history                                *)
(* (libraries/db: object_database, index, undo_database).                  *)
(*                                                                         *)
(* The state of the chain is a set of objects, each kept by the index of   *)
(* its type under an id the index hands out.  Every change is recorded in  *)
(* the newest entry of a stack of undo states, so that it can be taken     *)
(* back: a session is undone when a transaction or a block fails, merged   *)
(* into the enclosing one when a transaction succeeds, committed when a    *)
(* block is applied; a committed block is popped when the node switches    *)
(* to another fork.                                                        *)
(***************************************************************************)
EXTENDS Integers, Sequences

CONSTANTS
    Index,        \* the object types, one index each
    MaxInstance,  \* bound: the largest instance number an index hands out
    Value,        \* the values an object may hold
    None,         \* "no object": the id is not in the index / not in the map
    MaxSizes,     \* the history lengths the chain asks for (set_max_size)
    MaxStack      \* bound: a proposal is pushed on fewer entries than this

ASSUME NoneAssumption == None \notin Value
ASSUME InstanceAssumption == MaxInstance \in Nat
ASSUME SizeAssumption == MaxSizes \subseteq Nat \ {0}
ASSUME StackAssumption == MaxStack \in Nat

VARIABLES
    db,        \* the indexes: the objects they hold and their next ids
    stack,     \* undo_database::_stack, oldest entry first
    sessions,  \* the live session handles, outermost first: "disables" if
               \* _disable_on_exit is set.  _active_sessions is their number.
    disabled,  \* undo_database::_disabled
    maxSize    \* undo_database::_max_size

vars == <<db, stack, sessions, disabled, maxSize>>

Last(s) == s[Len(s)]
Front(s) == SubSeq(s, 1, Len(s) - 1)

Id == Index \X (0..MaxInstance)
Instance == 0..(MaxInstance + 1)

Handle == {"plain", "disables"}

\* "this index has no entry in old_index_next_ids"
NoInstance == -1

Database == [objects: [Id -> Value \cup {None}], nextId: [Index -> Instance]]

\* struct undo_state.  A map is a total function that is None (NoInstance)
\* where the C++ map has no entry.
UndoState == [oldValues  : [Id -> Value \cup {None}],
              oldNextIds : [Index -> Instance \cup {NoInstance}],
              newIds     : SUBSET Id,
              removed    : [Id -> Value \cup {None}]]

EmptyState == [oldValues  |-> [id \in Id |-> None],
               oldNextIds |-> [x \in Index |-> NoInstance],
               newIds     |-> {},
               removed    |-> [id \in Id |-> None]]

-----------------------------------------------------------------------------
(* What an undo state records about one change.                            *)

OnCreate(u, id) ==
    [u EXCEPT !.oldNextIds[id[1]] = IF @ = NoInstance THEN id[2] ELSE @,
              !.newIds = @ \cup {id}]

\* Mutant: the old value of a new object is recorded too.
OnModifyOfNew(u, id, old) ==
    IF u.oldValues[id] # None THEN u ELSE [u EXCEPT !.oldValues[id] = old]

OnModify(u, id, old) ==
    IF id \in u.newIds \/ u.oldValues[id] # None
    THEN u
    ELSE [u EXCEPT !.oldValues[id] = old]

\* Mutant: a new object that is removed stays in new_ids.
OnRemoveKeepingNew(u, id, old) ==
    IF id \in u.newIds THEN u
    ELSE IF u.oldValues[id] # None
         THEN [u EXCEPT !.removed[id] = u.oldValues[id],
                        !.oldValues[id] = None]
    ELSE IF u.removed[id] # None THEN u
    ELSE [u EXCEPT !.removed[id] = old]

OnRemove(u, id, old) ==
    IF id \in u.newIds THEN [u EXCEPT !.newIds = @ \ {id}]
    ELSE IF u.oldValues[id] # None
         THEN [u EXCEPT !.removed[id] = u.oldValues[id],
                        !.oldValues[id] = None]
    ELSE IF u.removed[id] # None THEN u
    ELSE [u EXCEPT !.removed[id] = old]

(* What undo() and pop_commit() do to the indexes: put back the old        *)
(* values, remove the new objects, reset the id counters, put back the     *)
(* removed objects.                                                        *)
Rollback(d, u) ==
    [objects |-> [id \in Id |->
         IF u.removed[id] # None THEN u.removed[id]
         ELSE IF id \in u.newIds THEN None
         ELSE IF u.oldValues[id] # None THEN u.oldValues[id]
         ELSE d.objects[id]],
     nextId |-> [x \in Index |->
         IF u.oldNextIds[x] # NoInstance THEN u.oldNextIds[x] ELSE d.nextId[x]]]

\* Mutant: upd(was=X) + upd(was=Y) gives upd(was=Y).
MergedTakingNewer(prev, u) ==
    [oldValues  |-> [id \in Id |->
         IF u.removed[id] # None THEN None
         ELSE IF u.oldValues[id] # None /\ id \notin prev.newIds
              THEN u.oldValues[id] ELSE prev.oldValues[id]],
     oldNextIds |-> [x \in Index |->
         IF prev.oldNextIds[x] = NoInstance
         THEN u.oldNextIds[x] ELSE prev.oldNextIds[x]],
     newIds     |-> {id \in prev.newIds \cup u.newIds : u.removed[id] = None},
     removed    |-> [id \in Id |->
         IF u.removed[id] # None /\ id \notin prev.newIds
         THEN IF prev.oldValues[id] # None THEN prev.oldValues[id] ELSE u.removed[id]
         ELSE prev.removed[id]]]

(* merge(): the composition of prev and the newer state u, computed by the *)
(* four loops of the code in their order: old values, new ids, next ids,   *)
(* removed objects.                                                        *)
Merged(prev, u) ==
    LET old == [id \in Id |->
            IF /\ u.oldValues[id] # None
               /\ id \notin prev.newIds
               /\ prev.oldValues[id] = None
            THEN u.oldValues[id] ELSE prev.oldValues[id]]
        new == prev.newIds \cup u.newIds
        Deleted(id) == u.removed[id] # None
    IN  [oldValues  |-> [id \in Id |->
             IF Deleted(id) /\ id \notin new THEN None ELSE old[id]],
         oldNextIds |-> [x \in Index |->
             IF prev.oldNextIds[x] = NoInstance
             THEN u.oldNextIds[x] ELSE prev.oldNextIds[x]],
         newIds     |-> {id \in new : ~Deleted(id)},
         removed    |-> [id \in Id |->
             IF Deleted(id) /\ id \notin new
             THEN IF old[id] # None THEN old[id] ELSE u.removed[id]
             ELSE prev.removed[id]]]

-----------------------------------------------------------------------------
\* The stack once on_create, on_modify or on_remove has made sure that there
\* is an entry to record in.
Recording == IF stack = << >> THEN <<EmptyState>> ELSE stack

\* Replaces the newest entry by u.
WithTop(s, u) == [s EXCEPT ![Len(s)] = u]

\* while( size() > max_size() ) _stack.pop_front()
Trimmed(s, max) == IF Len(s) > max THEN SubSeq(s, Len(s) - max + 1, Len(s)) ELSE s

Exists(id) == db.objects[id] # None

-----------------------------------------------------------------------------
\* object_database's constructor enables the history; no object yet.
Init ==
    /\ db = [objects |-> [id \in Id |-> None], nextId |-> [x \in Index |-> 0]]
    /\ stack = << >>
    /\ sessions = << >>
    /\ disabled = FALSE
    /\ maxSize \in MaxSizes

\* Mutant: use_next_id() is forgotten.
CreateWithoutAdvance(x, v) ==
    LET id == <<x, db.nextId[x]>> IN
    /\ db.nextId[x] <= MaxInstance
    /\ db' = [db EXCEPT !.objects[id] = v]
    /\ stack' = IF disabled THEN stack
                ELSE WithTop(Recording, OnCreate(Last(Recording), id))
    /\ UNCHANGED <<sessions, disabled, maxSize>>

\* create(): the index assigns the next id, inserts, advances the counter and
\* reports the new object to the undo history.
Create(x, v) ==
    LET id == <<x, db.nextId[x]>> IN
    /\ db.nextId[x] <= MaxInstance
    /\ db' = [objects |-> [db.objects EXCEPT ![id] = v],
              nextId  |-> [db.nextId EXCEPT ![x] = @ + 1]]
    /\ stack' = IF disabled THEN stack
                ELSE WithTop(Recording, OnCreate(Last(Recording), id))
    /\ UNCHANGED <<sessions, disabled, maxSize>>

\* modify(): the old value is reported before the change.
Modify(id, v) ==
    /\ Exists(id)
    /\ stack' = IF disabled THEN stack
                ELSE WithTop(Recording,
                             OnModify(Last(Recording), id, db.objects[id]))
    /\ db' = [db EXCEPT !.objects[id] = v]
    /\ UNCHANGED <<sessions, disabled, maxSize>>

\* remove(): the object is reported before it is erased.
Remove(id) ==
    /\ Exists(id)
    /\ stack' = IF disabled THEN stack
                ELSE WithTop(Recording,
                             OnRemove(Last(Recording), id, db.objects[id]))
    /\ db' = [db EXCEPT !.objects[id] = None]
    /\ UNCHANGED <<sessions, disabled, maxSize>>

\* start_undo_session().  The chain opens at most a pending or block session
\* and one temporary session inside it this way, and never while disabled.
StartSession ==
    /\ ~disabled
    /\ Len(sessions) <= 1
    /\ stack' = Append(Trimmed(stack, maxSize), EmptyState)
    /\ sessions' = Append(sessions, "plain")
    /\ UNCHANGED <<db, disabled, maxSize>>

\* push_proposal(), while a block or a transaction is applied: makes room for
\* one more entry, then forces a session even while the history is disabled
\* (a replay, where the block itself has no session).
StartProposalSession ==
    LET max == IF Len(stack) >= maxSize THEN Len(stack) + 1 ELSE maxSize IN
    /\ disabled \/ sessions # << >>
    /\ Len(stack) < MaxStack
    /\ maxSize' = max
    /\ stack' = Append(Trimmed(stack, max), EmptyState)
    /\ sessions' = Append(sessions, IF disabled THEN "disables" ELSE "plain")
    /\ disabled' = FALSE
    /\ UNCHANGED db

\* The handle's destructor runs _db.disable() last if _disable_on_exit is set.
CloseHandle ==
    /\ sessions' = Front(sessions)
    /\ disabled' = (Last(sessions) = "disables")

\* session::undo(), or the destructor of a session that was not concluded.
Undo ==
    /\ ~disabled
    /\ sessions # << >>
    /\ db' = Rollback(db, Last(stack))
    /\ stack' = Front(stack)
    /\ CloseHandle
    /\ UNCHANGED maxSize

\* session::merge()
Merge ==
    /\ sessions # << >>
    /\ stack' = IF Len(stack) = 1
                THEN << >>
                ELSE WithTop(Front(stack),
                             Merged(stack[Len(stack) - 1], Last(stack)))
    /\ CloseHandle
    /\ UNCHANGED <<db, maxSize>>

\* session::commit(): only a block's session is committed; no other session
\* is open then, and the history was not disabled when it was opened.
Commit ==
    /\ sessions = <<"plain">>
    /\ CloseHandle
    /\ UNCHANGED <<db, stack, maxSize>>

\* pop_commit(), by pop_undo(): takes back the last committed block.
PopCommit ==
    /\ sessions = << >>
    /\ ~disabled
    /\ stack # << >>
    /\ db' = Rollback(db, Last(stack))
    /\ stack' = Front(stack)
    /\ UNCHANGED <<sessions, disabled, maxSize>>

\* A replay disables the history before it applies the first block, when
\* nothing has been recorded yet, and enables it for the last blocks.
Disable ==
    /\ stack = << >>
    /\ sessions = << >>
    /\ disabled' = TRUE
    /\ UNCHANGED <<db, stack, sessions, maxSize>>

Enable ==
    /\ sessions = << >>
    /\ disabled' = FALSE
    /\ UNCHANGED <<db, stack, sessions, maxSize>>

\* set_max_size(), by update_global_dynamic_data() and undo_size_restorer.
SetMaxSize(n) ==
    /\ maxSize' = n
    /\ UNCHANGED <<db, stack, sessions, disabled>>

Next ==
    \/ \E x \in Index, v \in Value : Create(x, v)
    \/ \E id \in Id, v \in Value : Modify(id, v)
    \/ \E id \in Id : Remove(id)
    \/ StartSession
    \/ StartProposalSession
    \/ Undo
    \/ Merge
    \/ Commit
    \/ PopCommit
    \/ Disable
    \/ Enable
    \/ \E n \in MaxSizes : SetMaxSize(n)

Spec == Init /\ [][Next]_vars
=============================================================================
