---------------------------- MODULE UndoHistory -----------------------------
(***************************************************************************)
(* UndoDatabase with a history variable: the database as it was when each  *)
(* entry of the undo stack was opened.  The code keeps no such copies; the *)
(* variable only lets the specification say what undoing must bring back.  *)
(***************************************************************************)
EXTENDS UndoDatabase

VARIABLE saved   \* saved[i]: the database when stack[i] was opened

hvars == <<vars, saved>>

HInit == Init /\ saved = << >>

\* A recorded change opens an entry when there is none.
Recorded == saved' = IF disabled \/ stack # << >> THEN saved ELSE <<db>>

HCreate(x, v) == Create(x, v) /\ Recorded
HModify(id, v) == Modify(id, v) /\ Recorded
HRemove(id) == Remove(id) /\ Recorded

HStart ==
    /\ StartSession
    /\ saved' = Append(Trimmed(saved, maxSize), db)

HStartProposal ==
    /\ StartProposalSession
    /\ saved' = Append(Trimmed(saved, maxSize'), db)

HUndo == Undo /\ saved' = Front(saved)
HMerge == Merge /\ saved' = Front(saved)
HPopCommit == PopCommit /\ saved' = Front(saved)

HNext ==
    \/ \E x \in Index, v \in Value : HCreate(x, v)
    \/ \E id \in Id, v \in Value : HModify(id, v)
    \/ \E id \in Id : HRemove(id)
    \/ HStart
    \/ HStartProposal
    \/ HUndo
    \/ HMerge
    \/ HPopCommit
    \/ Commit /\ UNCHANGED saved
    \/ Disable /\ UNCHANGED saved
    \/ Enable /\ UNCHANGED saved
    \/ \E n \in MaxSizes : SetMaxSize(n) /\ UNCHANGED saved

HSpec == HInit /\ [][HNext]_hvars

-----------------------------------------------------------------------------
\* The database at the end of entry i: when the next entry was opened, or now.
After(i) == IF i = Len(stack) THEN db ELSE saved[i + 1]

\* Types of all variables.
TypeOK ==
    /\ db \in Database
    /\ stack \in Seq(UndoState)
    /\ sessions \in Seq(Handle)
    /\ disabled \in BOOLEAN
    /\ maxSize \in Nat \ {0}
    /\ saved \in Seq(Database)

\* A live session always owns an entry of the stack: trimming the history in
\* start_undo_session() never drops the entry of a session that is still open,
\* or its undo() or merge() would work on somebody else's entry.  While the
\* history is disabled there is neither a session nor an entry, so enabling it
\* again starts from a clean history.
SessionsOwnEntries ==
    /\ Len(sessions) <= Len(stack)
    /\ disabled => stack = << >> /\ sessions = << >>

\* Every object an undo state wants changed or removed exists, and none it
\* wants inserted does, at the moment it is rolled back: get_object() and
\* insert() in undo() and pop_commit() never throw.  (A throw out of undo()
\* in a session's destructor terminates the node.)
UndoApplies ==
    \A i \in 1..Len(stack) : \A id \in Id :
        /\ stack[i].oldValues[id] # None => After(i).objects[id] # None
        /\ id \in stack[i].newIds => After(i).objects[id] # None
        /\ stack[i].removed[id] # None => After(i).objects[id] = None

\* The N/A cells of the table in merge() never arise between an entry and the
\* one below it: no new+new, upd+new, del+new, del+upd or del+del.
MergeCausality ==
    \A i \in 2..Len(stack) : \A id \in Id :
        LET A == stack[i - 1]
            B == stack[i]
        IN  /\ id \in B.newIds =>
                 id \notin A.newIds /\ A.oldValues[id] = None /\ A.removed[id] = None
            /\ B.oldValues[id] # None => A.removed[id] = None
            /\ B.removed[id] # None => A.removed[id] = None

\* An id is handed out once: the id an index gives next belongs to no object
\* of the database now or of any state it can be rolled back to.
IdsFresh ==
    \A x \in Index :
        LET id == <<x, db.nextId[x]>>
        IN  id \in Id => /\ ~Exists(id)
                        /\ \A i \in 1..Len(saved) : saved[i].objects[id] = None

\* Entry u leads from database b, when it was opened, to database a, at its
\* end: rolling it back from a gives b, and can be done.
Link(b, u, a) ==
    /\ b = Rollback(a, u)
    /\ \A x \in Index : b.nextId[x] <= a.nextId[x]
    /\ \A id \in Id :
         /\ u.oldValues[id] # None => a.objects[id] # None
         /\ id \in u.newIds =>
              /\ a.objects[id] # None
              /\ u.oldValues[id] = None
              /\ b.nextId[id[1]] <= id[2]
         /\ u.removed[id] # None => a.objects[id] = None

\* Every object's id is one its index has handed out.
Fresh(d) == \A id \in Id : d.objects[id] # None => id[2] < d.nextId[id[1]]

\* The entries st chain the databases sv together, from the oldest to d.
Chain(sv, st, d) ==
    /\ Len(sv) = Len(st)
    /\ \A i \in 1..Len(st) : Link(sv[i], st[i], IF i = Len(st) THEN d ELSE sv[i + 1])
    /\ \A i \in 1..Len(st) : Fresh(sv[i])

\* The id counters never run backwards from an older snapshot to a newer one.
Ordered(sv) ==
    \A i, j \in 1..Len(sv) :
        i <= j => \A x \in Index : sv[i].nextId[x] <= sv[j].nextId[x]

\* The session that disables the history again on exit is the outermost one,
\* opened when the stack was empty.
DisablingSession ==
    \A i \in 1..Len(sessions) :
        sessions[i] = "disables" => i = 1 /\ Len(stack) = Len(sessions)

\* The inductive invariant.
Inv ==
    /\ TypeOK
    /\ SessionsOwnEntries
    /\ DisablingSession
    /\ Chain(saved, stack, db)
    /\ Fresh(db)

\* The invariant with what IdsFresh needs of the older snapshots.
OrderedInv == Inv /\ Ordered(saved)

\* The undo stack implements the store of snapshots: undo() and pop_commit()
\* bring back the database exactly as it was when the entry was opened, and
\* merge() keeps the changes and the older snapshots.
Store == INSTANCE SessionStore WITH Content <- Database, store <- db
UndoRestores == Store!Spec
=============================================================================
