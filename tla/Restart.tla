------------------------------- MODULE Restart -------------------------------
(***************************************************************************)
(* Stopping and starting a node: database::close(), open(), reindex() and  *)
(* wipe() of db_management.cpp, object_database::flush() and open(), and   *)
(* what a crash of the process leaves of the block log (block_database.cpp)*)
(* and of the saved objects.                                               *)
(*                                                                         *)
(* The objects are saved by renaming whole directories, so a snapshot is   *)
(* the head block it was taken at.  The log's two streams are buffered: a  *)
(* crash may lose the entry written last, or leave it unreadable.  While   *)
(* the node runs, it takes the steps of ChainDatabase.                     *)
(***************************************************************************)
EXTENDS ChainDatabase

CONSTANTS
    ReplayUndo,     \* how many blocks a replay can take back (50)
    FlushEvery,     \* how often a replay saves the objects (1000000)
    MaxStops        \* bound on crashes and shutdowns

ASSUME RestartAssumption ==
    ReplayUndo \in Nat /\ FlushEvery \in Nat \ {0} /\ MaxStops \in Nat

VARIABLES
    mode,       \* what the process is doing
    db,         \* the directory object_database: when it was saved, and by whom
    old,        \* whether object_database.old exists
    flush,      \* how far object_database::flush() is
    buffer,     \* the entry of the log that is not yet on disk
    replay,     \* the locals of reindex()
    stopped,    \* (history) the head when the process last stopped, and how
    torn,       \* (history) what crashes and broken-off switches broke in the log
    stops       \* (bound) how often it stopped

chainVars == <<head, undo, undoMax, fork, pending, session, popped, push, libMax>>
rvars == <<vars, mode, db, old, flush, buffer, replay, stopped, torn, stops>>

NoReplay == [last |-> 0, flushed |-> FALSE]

\* The number of the last block in the log; last_id() skips what it cannot read.
LastOf(l) ==
    IF \A n \in DOMAIN l : l[n] = None THEN 0
    ELSE CHOOSE n \in DOMAIN l : l[n] # None /\ \A m \in DOMAIN l : l[m] # None => m <= n

\* The members of a database that has just been constructed or opened, with
\* head h and fork database f.
Fresh(h, f) ==
    /\ head' = h
    /\ undo' = 0
    /\ undoMax' = 256
    /\ fork' = f
    /\ pending' = << >>
    /\ session' = FALSE
    /\ popped' = << >>
    /\ push' = Idle
    /\ libMax' = Lib[h]

-----------------------------------------------------------------------------
(* Running.                                                                *)

\* A step of the chain, which may store a block in the log: storing it writes
\* out the entry that was stored before.  A fork switch that breaks off leaves
\* the blocks of one branch in the log above a head of the other.
Run ==
    /\ mode = "running"
    /\ Next
    /\ buffer' = IF head' # head /\ Prev[head'] = head
                 THEN [num |-> Num[head'], was |-> log[Num[head']], switch |-> push # Idle]
                 ELSE buffer
    /\ torn' = IF AbortSwitch THEN torn \cup {"switch"} ELSE torn
    /\ UNCHANGED <<mode, db, old, flush, replay, stopped, stops>>

\* What the log can be after a crash: the last entry was written, was not
\* written, or was written before the block it points to.
AfterCrash ==
    {log} \cup (IF buffer = None THEN {}
                ELSE {[log EXCEPT ![buffer.num] = e] : e \in {buffer.was, None}})

\* What a crash may break: the entry it loses belongs to a fork switch, and
\* the log has blocks of both branches, or it is the block of the snapshot.
Broken ==
    {what \in {"switch", "snapshot"} :
        CASE what = "switch" -> push # Idle \/ (buffer # None /\ buffer.switch)
          [] OTHER -> buffer # None /\ db # None /\ Num[db.head] = buffer.num}

Crash ==
    /\ mode \in {"running", "closing", "replaying"}
    /\ stops < MaxStops
    /\ log' \in AfterCrash
    /\ mode' = "down"
    /\ Fresh(Genesis, EmptyForkDb)
    /\ flush' = "no"
    /\ buffer' = None
    /\ replay' = NoReplay
    /\ stopped' = [head |-> IF mode = "running" THEN head ELSE stopped.head, how |-> "crash"]
    /\ torn' = torn \cup Broken
    /\ stops' = stops + 1
    /\ UNCHANGED <<db, old, invalid>>

-----------------------------------------------------------------------------
(* close().                                                                *)

Close ==
    /\ mode = "running"
    /\ push = Idle
    /\ stops < MaxStops
    /\ mode' = "closing"
    /\ stopped' = [head |-> head, how |-> "crash"]
    /\ stops' = stops + 1
    /\ pending' = << >>
    /\ session' = FALSE
    /\ UNCHANGED <<head, undo, undoMax, fork, log, popped, push, invalid, libMax,
                   db, old, flush, buffer, replay, torn>>

\* last_irreversible_block_num when close() began.
Cutoff == Lib[stopped.head]

Rewind ==
    /\ mode = "closing"
    /\ flush = "no"
    /\ Num[head] > Cutoff
    /\ CanPopHead
    /\ fork' = Settled(Removed(Popped(fork), {head}), {})
    /\ undo' = undo - 1
    /\ head' = Prev[head]
    /\ UNCHANGED <<undoMax, log, pending, session, popped, push, invalid, libMax,
                   mode, db, old, flush, buffer, replay, stopped, torn, stops>>

\* Mutant: flush() is reached without rewinding.
RewindEndsEarly ==
    /\ mode = "closing"
    /\ flush = "no"
    /\ flush' = "saving"
    /\ UNCHANGED <<vars, mode, db, old, buffer, replay, stopped, torn, stops>>

\* Nothing is left to pop, or pop_block() throws, which is caught.
RewindEnds ==
    /\ mode = "closing"
    /\ flush = "no"
    /\ Num[head] <= Cutoff \/ ~CanPopHead
    /\ flush' = "saving"
    /\ UNCHANGED <<vars, mode, db, old, buffer, replay, stopped, torn, stops>>

-----------------------------------------------------------------------------
(* object_database::flush(): the objects are in object_database.tmp when   *)
(* flush is "saving".                                                      *)

\* The present directory becomes object_database.old.
MoveAway ==
    /\ flush = "saving"
    /\ db # None => ~old
    /\ flush' = "moved"
    /\ db' = None
    /\ old' = (old \/ db # None)
    /\ UNCHANGED <<vars, mode, buffer, replay, stopped, torn, stops>>

\* There is an object_database.old already, which a crash has left: rename()
\* throws, and so does close() or open().
FlushFails ==
    /\ flush = "saving"
    /\ db # None
    /\ old
    /\ flush' = "no"
    /\ buffer' = None
    /\ replay' = NoReplay
    /\ mode' = IF mode = "closing" THEN "down" ELSE "failed"
    /\ stopped' = [stopped EXCEPT !.how = IF mode = "closing" THEN "close" ELSE @]
    /\ Fresh(Genesis, EmptyForkDb)
    /\ UNCHANGED <<log, invalid, db, old, torn, stops>>

Rename ==
    /\ flush = "moved"
    /\ db' = [head |-> head, by |-> mode]
    /\ flush' = "renamed"
    /\ UNCHANGED <<vars, mode, old, buffer, replay, stopped, torn, stops>>

\* object_database.old is removed.  close() goes on to close the log and
\* the process ends; reindex() goes on with its loop.
RemoveOld ==
    /\ flush = "renamed"
    /\ flush' = "no"
    /\ old' = FALSE
    /\ IF mode = "closing"
       THEN /\ mode' = "down"
            /\ buffer' = None
            /\ stopped' = [stopped EXCEPT !.how = "close"]
            /\ Fresh(Genesis, EmptyForkDb)
            /\ UNCHANGED replay
       ELSE /\ replay' = [replay EXCEPT !.flushed = TRUE]
            /\ UNCHANGED <<chainVars, mode, buffer, stopped>>
    /\ UNCHANGED <<log, invalid, db, torn, stops>>

-----------------------------------------------------------------------------
(* open() and reindex().                                                   *)

\* Mutant: the undo history starts with the end of the log.
UndoPointLast(last) == last

\* The block up to which a replay keeps no undo history.
UndoPoint(last) == IF last < ReplayUndo THEN 0 ELSE last - ReplayUndo

\* fork_database::start_block().
StartBlock(b) ==
    Settled([EmptyForkDb EXCEPT !.index = {b}, !.head = b], {})

\* The fork database reindex() starts with: the head, as the log has it.
ForkAtStart(h, last) ==
    IF Num[h] >= UndoPoint(last) /\ h # Genesis THEN StartBlock(log[Num[h]]) ELSE EmptyForkDb

\* What object_database::open() finds; an upgrade of the program changes
\* db_version, and open() then wipes the objects first.
Loaded(upgraded) == IF upgraded \/ db = None THEN Genesis ELSE db.head

\* Mutant: > in place of >=.
LogGoesBeyond(h) == LastOf(log) # 0 => LastOf(log) > Num[h]

\* The log ends at or above the head: open() asserts it.  It compares the
\* identifiers, which begin with the number; two different blocks with one
\* number may be in either order.
LogReaches(h) ==
    LET last == LastOf(log)
    IN  last # 0 => last > Num[h] \/ (last = Num[h] /\ log[last] = h)

\* There is nothing to replay.
OpenAtOnce(upgraded) ==
    LET h == Loaded(upgraded)
    IN  /\ mode \in {"down", "failed"}
        /\ LastOf(log) = 0 \/ LastOf(log) = Num[h]
        /\ Fresh(h, EmptyForkDb)
        /\ db' = IF upgraded THEN None ELSE db
        /\ mode' = "running"
        /\ UNCHANGED <<log, invalid, old, flush, buffer, replay, stopped, torn, stops>>

OpenReplaying(upgraded) ==
    LET h == Loaded(upgraded)
        last == LastOf(log)
    IN  /\ mode \in {"down", "failed"}
        /\ last > Num[h]
        /\ h # Genesis => log[Num[h]] # None
        /\ Fresh(h, ForkAtStart(h, last))
        /\ db' = IF upgraded THEN None ELSE db
        /\ mode' = "replaying"
        /\ replay' = [last |-> last, flushed |-> FALSE]
        /\ UNCHANGED <<log, invalid, old, flush, buffer, stopped, torn, stops>>

OpenFails(upgraded) ==
    LET h == Loaded(upgraded)
    IN  /\ mode = "down"
        /\ ~LogReaches(h) \/ (LastOf(log) > Num[h] /\ h # Genesis /\ log[Num[h]] = None)
        /\ db' = IF upgraded THEN None ELSE db
        /\ mode' = "failed"
        /\ UNCHANGED <<vars, old, flush, buffer, replay, stopped, torn, stops>>

Open ==
    \E upgraded \in BOOLEAN :
        OpenAtOnce(upgraded) \/ OpenReplaying(upgraded) \/ OpenFails(upgraded)

-----------------------------------------------------------------------------
(* The loop of reindex().                                                  *)

\* The number of the block the loop is at.
Coming == Num[head] + 1

\* The loop is about to take block i and has saved the objects if it must.
AtBlock ==
    /\ mode = "replaying"
    /\ flush = "no"
    /\ Coming <= replay.last
    /\ Coming % FlushEvery = 0 => replay.flushed

ReplayFlush ==
    /\ mode = "replaying"
    /\ flush = "no"
    /\ Coming <= replay.last
    /\ Coming % FlushEvery = 0
    /\ ~replay.flushed
    /\ flush' = "saving"
    /\ UNCHANGED <<vars, mode, db, old, buffer, replay, stopped, torn, stops>>

\* Far below the end of the log: apply_block() without undo history.
ReplayApply ==
    LET b == log[Coming]
    IN  /\ AtBlock
        /\ b # None
        /\ Coming < UndoPoint(replay.last)
        /\ CanApply(b)
        /\ Apply(b, fork, {})
        /\ replay' = [replay EXCEPT !.flushed = FALSE]
        /\ UNCHANGED <<undo, pending, session, popped, push, invalid,
                       mode, db, old, flush, buffer, stopped, torn, stops>>

\* Near the end of it: push_block().
ReplayPush ==
    LET b == log[Coming]
    IN  /\ AtBlock
        /\ b # None
        /\ Coming >= UndoPoint(replay.last)
        /\ Extend(b, undo)
        /\ replay' = [replay EXCEPT !.flushed = FALSE]
        /\ UNCHANGED <<invalid, mode, db, old, flush, buffer, stopped, torn, stops>>

\* The block cannot follow the head: apply_block() or push_block() throws, and
\* open() with it.
ReplayFails ==
    LET b == log[Coming]
    IN  /\ AtBlock
        /\ b # None
        /\ IF Coming < UndoPoint(replay.last) THEN ~CanApply(b)
           ELSE ~(Accepts(fork, b) /\ CanApply(b))
        /\ mode' = "failed"
        /\ Fresh(Genesis, EmptyForkDb)
        /\ replay' = NoReplay
        /\ UNCHANGED <<log, invalid, db, old, flush, buffer, stopped, torn, stops>>

\* A gap: what the log has above it is dropped.
ReplayGap ==
    /\ AtBlock
    /\ log[Coming] = None
    /\ log' = [n \in DOMAIN log |-> IF n > Coming THEN None ELSE log[n]]
    /\ mode' = "running"
    /\ replay' = NoReplay
    /\ UNCHANGED <<chainVars, invalid, db, old, flush, buffer, stopped, torn, stops>>

\* Mutant: i < last_block_num.
ReplayEndsEarly ==
    /\ mode = "replaying"
    /\ flush = "no"
    /\ Num[head] + 1 >= replay.last
    /\ mode' = "running"
    /\ replay' = NoReplay
    /\ UNCHANGED <<vars, db, old, flush, buffer, stopped, torn, stops>>

ReplayEnds ==
    /\ mode = "replaying"
    /\ flush = "no"
    /\ Num[head] = replay.last
    /\ mode' = "running"
    /\ replay' = NoReplay
    /\ UNCHANGED <<vars, db, old, flush, buffer, stopped, torn, stops>>

-----------------------------------------------------------------------------
\* Mutant: a resync keeps the objects.
WipeBlocksOnly(include_blocks) ==
    /\ mode \in {"down", "failed"}
    /\ mode' = "down"
    /\ IF include_blocks
       THEN /\ log' = [n \in DOMAIN log |-> None]
            /\ torn' = {}
            /\ stopped' = [stopped EXCEPT !.head = Genesis]
            /\ UNCHANGED db
       ELSE db' = None /\ UNCHANGED <<log, torn, stopped>>
    /\ UNCHANGED <<chainVars, invalid, old, flush, buffer, replay, stops>>

\* wipe() at start-up: --replay-blockchain removes the objects, and
\* --resync-blockchain the log as well.
Wipe(include_blocks) ==
    /\ mode \in {"down", "failed"}
    /\ mode' = "down"
    /\ db' = None
    /\ IF include_blocks
       THEN /\ log' = [n \in DOMAIN log |-> None]
            /\ torn' = {}
            /\ stopped' = [stopped EXCEPT !.head = Genesis]
       ELSE UNCHANGED <<log, torn, stopped>>
    /\ UNCHANGED <<chainVars, invalid, old, flush, buffer, replay, stops>>

RInit ==
    /\ Init
    /\ mode = "down"
    /\ db = None
    /\ old = FALSE
    /\ flush = "no"
    /\ buffer = None
    /\ replay = NoReplay
    /\ stopped = [head |-> Genesis, how |-> "close"]
    /\ torn = {}
    /\ stops = 0

\* What the process does by itself once it is started or told to stop.
Proceed ==
    \/ Open
    \/ Rewind \/ RewindEnds
    \/ MoveAway \/ FlushFails \/ Rename \/ RemoveOld
    \/ ReplayFlush \/ ReplayApply \/ ReplayPush \/ ReplayFails \/ ReplayGap \/ ReplayEnds

RNext ==
    \/ Run
    \/ Crash \/ Close
    \/ Proceed
    \/ \E include_blocks \in BOOLEAN : Wipe(include_blocks)

RSpec == RInit /\ [][RNext]_rvars

-----------------------------------------------------------------------------
\* Types of the variables that are not ChainDatabase's: the locals of reindex()
\* and flush() only have values while these run.
RTypeOK ==
    /\ mode \in {"down", "failed", "replaying", "running", "closing"}
    /\ db \in {None} \cup [head: Block \cup {Genesis}, by: {"closing", "replaying"}]
    /\ old \in BOOLEAN
    /\ flush \in {"no", "saving", "moved", "renamed"}
    /\ buffer \in {None} \cup
         [num: DOMAIN log, was: Block \cup {None}, switch: BOOLEAN]
    /\ replay \in [last: Nat, flushed: BOOLEAN]
    /\ mode # "replaying" => replay = NoReplay
    /\ flush # "no" => mode \in {"replaying", "closing"}
    /\ stopped \in [head: Block \cup {Genesis}, how: {"close", "crash"}]
    /\ torn \subseteq {"switch", "snapshot"}
    /\ stops \in 0..MaxStops

\* The snapshot, if there is one, was taken by close(): a replay saves the
\* objects without rewinding, possibly at a block that is not irreversible.
SavedByClose == db # None => db.by = "closing"

\* What can end the rewinding above the last irreversible block: the root of
\* the fork database, the snapshot the process started from, a fork database
\* whose head is not the chain's, or a branch on which less is irreversible than
\* was on one the node has left.  The third happens after a fork switch, whose
\* pops lower both heads although only the fork database's has moved.
Stopper ==
    \/ head \in fork.lost
    \/ db # None /\ db.head = head
    \/ fork.head # head
    \/ Cutoff < libMax

\* close() goes back to the last irreversible block, so that the node can still
\* leave its branch after a restart.  The comment there expects the undo history
\* to be what stops it ("this should throw when there is no more undo history
\* to pop"); it always suffices.
RewindsToLib ==
    mode = "closing" /\ flush = "saving" => Num[head] <= Cutoff \/ Stopper

\* The snapshot close() saves stays on the chain the log records, whatever
\* switches and crashes follow: reindex() continues it from the log without
\* comparing the two, and open() compares only their ends.
SnapshotOnLog ==
    db # None /\ SavedByClose /\ db.head # Genesis /\ torn = {} =>
        log[Num[db.head]] = db.head

\* A node that stopped between two pushes can be started again: open() throws
\* only when a fork switch was cut short or a crash left object_database.old
\* behind, or when the snapshot was taken by an interrupted replay.
FailsOnlyIf ==
    mode = "failed" => torn # {} \/ old \/ ~SavedByClose

\* A restart brings back the head the node had: all of it after close(), and
\* all but the block stored last after a crash.
HeadComesBack ==
    [][mode # "running" /\ mode' = "running" /\ torn = {} /\ SavedByClose =>
         \/ head' = stopped.head
         \/ stopped.how = "crash" /\ stopped.head # Genesis /\ head' = Prev[stopped.head]]_rvars

\* The lowest block a node can need to go back to; block 1 is always the root
\* of the fork database and cannot be popped.
Lowest == Larger(libMax, 1)

\* After a restart, too, the undo history reaches the highest irreversible block
\* or the snapshot, as long as the former is no further away than what a replay
\* keeps.
HistoryKept ==
    mode = "running" /\ push = Idle /\ Num[head] - Lib[head] <= ReplayUndo =>
        \/ Num[head] - Lowest <= undo
        \/ db # None /\ Num[head] - Num[db.head] <= undo
=============================================================================
