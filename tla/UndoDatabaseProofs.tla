------------------------- MODULE UndoDatabaseProofs --------------------------
(***************************************************************************)
(* Proofs about the undo history, for any indexes, values and bounds.      *)
(***************************************************************************)
EXTENDS UndoHistory, TLAPS

USE NoneAssumption, InstanceAssumption, SizeAssumption

-----------------------------------------------------------------------------
(* Lemmas about single entries: how Link survives each way of recording.   *)

\* A database is what its entries at every id and index are.
LEMMA RollbackEquality ==
    ASSUME NEW b \in Database, NEW a, NEW u,
           \A id \in Id : b.objects[id] = Rollback(a, u).objects[id],
           \A x \in Index : b.nextId[x] = Rollback(a, u).nextId[x]
    PROVE  b = Rollback(a, u)
<1>1. b.objects = Rollback(a, u).objects
  BY DEF Rollback, Database
<1>2. b.nextId = Rollback(a, u).nextId
  BY DEF Rollback, Database
<1> QED  BY <1>1, <1>2 DEF Rollback, Database

\* An entry just opened leads from the database to itself.
LEMMA LinkEmpty ==
    ASSUME NEW d \in Database
    PROVE  EmptyState \in UndoState /\ Link(d, EmptyState, d)
BY DEF EmptyState, UndoState, Link, Rollback, Database, Instance, NoInstance

\* on_create() keeps the link: rolling back removes the object again and
\* resets the id counter.
LEMMA LinkCreate ==
    ASSUME NEW b \in Database, NEW u \in UndoState, NEW a \in Database,
           Link(b, u, a), Fresh(a), Fresh(b),
           NEW x \in Index, NEW v \in Value, a.nextId[x] <= MaxInstance
    PROVE  LET id == <<x, a.nextId[x]>>
               d == [objects |-> [a.objects EXCEPT ![id] = v],
                     nextId  |-> [a.nextId EXCEPT ![x] = @ + 1]]
           IN  /\ d \in Database
               /\ OnCreate(u, id) \in UndoState
               /\ Fresh(d)
               /\ Link(b, OnCreate(u, id), d)
<1> DEFINE id == <<x, a.nextId[x]>>
           d == [objects |-> [a.objects EXCEPT ![id] = v],
                 nextId  |-> [a.nextId EXCEPT ![x] = @ + 1]]
           w == OnCreate(u, id)
<1>1. id \in Id /\ id[1] = x /\ id[2] = a.nextId[x]
  BY DEF Id, Database, Instance
<1>2. d \in Database
  BY <1>1 DEF Database, Instance
<1>3. w \in UndoState
  BY <1>1 DEF OnCreate, UndoState, Database, Instance
<1>4. Fresh(d)
  BY <1>1 DEF Fresh, Database, Instance, Id
<1>5. a.objects[id] = None
  BY <1>1 DEF Fresh, Database, Instance
<1>6. b.objects[id] = None /\ b.nextId[x] <= id[2]
  BY <1>1 DEF Fresh, Database, Instance, Link
<1>7. u.removed[id] = None /\ u.oldValues[id] = None /\ id \notin u.newIds
  BY <1>1, <1>5, <1>6 DEF Link, Rollback
<1>8. b = Rollback(d, w)
  <2>1. \A i \in Id : Rollback(a, u).objects[i] = Rollback(d, w).objects[i]
    BY <1>1, <1>5, <1>7 DEF Rollback, OnCreate, UndoState, Database
  <2>2. \A y \in Index : Rollback(a, u).nextId[y] = Rollback(d, w).nextId[y]
    BY <1>1 DEF Rollback, OnCreate, UndoState, Database, Instance, NoInstance
  <2> QED  BY <2>1, <2>2 DEF Link, Rollback
<1>9. Link(b, w, d)
  <2>1. /\ w.newIds = u.newIds \cup {id}
        /\ w.oldValues = u.oldValues
        /\ w.removed = u.removed
    BY <1>1 DEF OnCreate, UndoState
  <2>2. \A y \in Index : b.nextId[y] <= d.nextId[y]
    BY <1>1 DEF Link, Database, Instance
  <2>3. \A i \in Id : i # id => d.objects[i] = a.objects[i]
    BY <1>1 DEF Database
  <2>4. d.objects[id] = v /\ v # None
    BY <1>1 DEF Database
  <2> HIDE DEF d, w, id
  <2> QED  BY <1>1, <1>6, <1>7, <1>8, <2>1, <2>2, <2>3, <2>4 DEF Link
<1> QED  BY <1>2, <1>3, <1>4, <1>9

\* on_modify() keeps the link: the first old value of the entry wins.
LEMMA LinkModify ==
    ASSUME NEW b \in Database, NEW u \in UndoState, NEW a \in Database,
           Link(b, u, a), Fresh(a),
           NEW id \in Id, NEW v \in Value, a.objects[id] # None
    PROVE  LET d == [a EXCEPT !.objects[id] = v]
           IN  /\ d \in Database
               /\ OnModify(u, id, a.objects[id]) \in UndoState
               /\ Fresh(d)
               /\ Link(b, OnModify(u, id, a.objects[id]), d)
<1> DEFINE d == [a EXCEPT !.objects[id] = v]
           w == OnModify(u, id, a.objects[id])
<1>1. d \in Database /\ d.nextId = a.nextId /\ d.objects[id] = v
  BY DEF Database
<1>2. \A i \in Id : i # id => d.objects[i] = a.objects[i]
  BY DEF Database
<1>3. w \in UndoState
  BY DEF OnModify, UndoState, Database
<1>4. /\ w.newIds = u.newIds
      /\ w.removed = u.removed
      /\ w.oldNextIds = u.oldNextIds
      /\ \A i \in Id : i # id => w.oldValues[i] = u.oldValues[i]
      /\ w.oldValues[id] = IF id \in u.newIds \/ u.oldValues[id] # None
                           THEN u.oldValues[id] ELSE a.objects[id]
  BY DEF OnModify, UndoState
<1> HIDE DEF d, w
<1>5. Fresh(d)
  BY <1>1, <1>2 DEF Fresh
<1>6. b = Rollback(d, w)
  <2>1. \A i \in Id : Rollback(a, u).objects[i] = Rollback(d, w).objects[i]
    BY <1>1, <1>2, <1>4 DEF Rollback, Link
  <2>2. \A y \in Index : Rollback(a, u).nextId[y] = Rollback(d, w).nextId[y]
    BY <1>1, <1>4 DEF Rollback
  <2> QED  BY <2>1, <2>2 DEF Link, Rollback
<1>7. Link(b, w, d)
  BY <1>1, <1>2, <1>4, <1>6 DEF Link
<1> QED  BY <1>1, <1>3, <1>5, <1>7 DEF d, w

\* on_remove() keeps the link, in each of its four cases.
LEMMA LinkRemove ==
    ASSUME NEW b \in Database, NEW u \in UndoState, NEW a \in Database,
           Link(b, u, a), Fresh(a),
           NEW id \in Id, a.objects[id] # None
    PROVE  LET d == [a EXCEPT !.objects[id] = None]
           IN  /\ d \in Database
               /\ OnRemove(u, id, a.objects[id]) \in UndoState
               /\ Fresh(d)
               /\ Link(b, OnRemove(u, id, a.objects[id]), d)
<1> DEFINE d == [a EXCEPT !.objects[id] = None]
           w == OnRemove(u, id, a.objects[id])
<1>1. d \in Database /\ d.nextId = a.nextId /\ d.objects[id] = None
  BY DEF Database
<1>2. \A i \in Id : i # id => d.objects[i] = a.objects[i]
  BY DEF Database
<1>3. w \in UndoState
  BY DEF OnRemove, UndoState, Database
<1>4. /\ w.oldNextIds = u.oldNextIds
      /\ \A i \in Id : i # id => /\ w.oldValues[i] = u.oldValues[i]
                                /\ w.removed[i] = u.removed[i]
      /\ w.newIds = u.newIds \ {id}
  BY DEF OnRemove, UndoState
<1>5. u.removed[id] = None
  BY DEF Link
<1>6. /\ w.oldValues[id] = None
      /\ w.removed[id] = IF id \in u.newIds THEN None
                         ELSE IF u.oldValues[id] # None THEN u.oldValues[id]
                         ELSE a.objects[id]
  BY <1>5 DEF OnRemove, UndoState, Link
<1> HIDE DEF d, w
<1>7. Fresh(d)
  BY <1>1, <1>2 DEF Fresh
<1>8. b = Rollback(d, w)
  <2>1. ASSUME NEW i \in Id
        PROVE  Rollback(a, u).objects[i] = Rollback(d, w).objects[i]
    <3>1. CASE i = id
      BY <3>1, <1>1, <1>4, <1>5, <1>6 DEF Rollback
    <3>2. CASE i # id
      BY <3>2, <1>2, <1>4 DEF Rollback
    <3> QED  BY <3>1, <3>2
  <2>2. \A y \in Index : Rollback(a, u).nextId[y] = Rollback(d, w).nextId[y]
    BY <1>1, <1>4 DEF Rollback
  <2> QED  BY <2>1, <2>2 DEF Link, Rollback
<1>9. ASSUME NEW i \in Id
      PROVE  /\ w.oldValues[i] # None => d.objects[i] # None
             /\ i \in w.newIds => /\ d.objects[i] # None
                                 /\ w.oldValues[i] = None
                                 /\ b.nextId[i[1]] <= i[2]
             /\ w.removed[i] # None => d.objects[i] = None
  <2>1. CASE i = id
    BY <2>1, <1>1, <1>4, <1>6
  <2>2. CASE i # id
    BY <2>2, <1>2, <1>4 DEF Link
  <2> QED  BY <2>1, <2>2
<1>10. Link(b, w, d)
  BY <1>1, <1>8, <1>9 DEF Link
<1> QED  BY <1>1, <1>3, <1>7, <1>10 DEF d, w

\* The parts of a link that relate id counters.
LEMMA LinkParts ==
    ASSUME NEW b, NEW u, NEW a, Link(b, u, a)
    PROVE  /\ b = Rollback(a, u)
           /\ \A x \in Index : b.nextId[x] <= a.nextId[x]
           /\ \A id \in Id : id \in u.newIds => b.nextId[id[1]] <= id[2]
BY DEF Link

\* An id is an index and a number, and so is what an index gives next.
LEMMA IdTypes ==
    /\ \A id \in Id : id[1] \in Index /\ id[2] \in Int
    /\ \A d \in Database : \A x \in Index : d.nextId[x] \in Int
<1>1. \A i \in Instance : i \in Int
  BY DEF Instance
<1>2. \A id \in Id : id[1] \in Index /\ id[2] \in Int
  BY DEF Id
<1>3. \A d \in Database : \A x \in Index : d.nextId[x] \in Instance
  BY DEF Database
<1> QED  BY <1>1, <1>2, <1>3

\* An object that is new in an entry is unknown to the entry below: its id had
\* not been handed out when either of them was opened.
LEMMA NewIsUnknownBelow ==
    ASSUME NEW b \in Database, NEW c \in Database, NEW a,
           NEW p, NEW u, Link(b, p, c), Link(c, u, a), Fresh(b), Fresh(c),
           NEW id \in Id, id \in u.newIds
    PROVE  /\ id \notin p.newIds
           /\ p.oldValues[id] = None
           /\ p.removed[id] = None
           /\ b.nextId[id[1]] <= id[2]
<1>1. /\ id[1] \in Index /\ id[2] \in Int
      /\ b.nextId[id[1]] \in Int /\ c.nextId[id[1]] \in Int
  BY IdTypes
<1>2. b.nextId[id[1]] <= c.nextId[id[1]] /\ c.nextId[id[1]] <= id[2]
  BY <1>1, LinkParts
<1>3. ~(id[2] < b.nextId[id[1]]) /\ ~(id[2] < c.nextId[id[1]])
  BY <1>1, <1>2
<1>4. b.objects[id] = None /\ c.objects[id] = None
  BY <1>3 DEF Fresh
<1>5. id \notin p.newIds /\ p.oldValues[id] = None
  BY <1>4 DEF Link
<1>6. b.objects[id] = Rollback(c, p).objects[id]
  BY LinkParts
<1>7. p.removed[id] = None
  BY <1>4, <1>5, <1>6 DEF Rollback
<1> QED  BY <1>1, <1>2, <1>5, <1>7

\* What rolling back and merging do to one object and to one id counter.
LEMMA RollbackAt ==
    ASSUME NEW d, NEW u
    PROVE  /\ \A id \in Id : Rollback(d, u).objects[id] =
                 IF u.removed[id] # None THEN u.removed[id]
                 ELSE IF id \in u.newIds THEN None
                 ELSE IF u.oldValues[id] # None THEN u.oldValues[id]
                 ELSE d.objects[id]
           /\ \A x \in Index : Rollback(d, u).nextId[x] =
                 IF u.oldNextIds[x] # NoInstance
                 THEN u.oldNextIds[x] ELSE d.nextId[x]
BY DEF Rollback

\* The same for merge().
LEMMA MergedAt ==
    ASSUME NEW p, NEW u, NEW id \in Id
    PROVE  LET old == IF /\ u.oldValues[id] # None
                         /\ id \notin p.newIds
                         /\ p.oldValues[id] = None
                      THEN u.oldValues[id] ELSE p.oldValues[id]
               new == id \in p.newIds \/ id \in u.newIds
               gone == u.removed[id] # None
           IN  /\ Merged(p, u).oldValues[id] = IF gone /\ ~new THEN None ELSE old
               /\ id \in Merged(p, u).newIds <=> new /\ ~gone
               /\ Merged(p, u).removed[id] =
                    IF gone /\ ~new
                    THEN IF old # None THEN old ELSE u.removed[id]
                    ELSE p.removed[id]
BY DEF Merged

\* merge() composes two links: rolling back the merged entry does what rolling
\* back the newer and then the older one would.
LEMMA LinkMerge ==
    ASSUME NEW b \in Database, NEW c \in Database, NEW a \in Database,
           NEW p \in UndoState, NEW u \in UndoState,
           Link(b, p, c), Link(c, u, a), Fresh(b), Fresh(c)
    PROVE  Merged(p, u) \in UndoState /\ Link(b, Merged(p, u), a)
<1> DEFINE m == Merged(p, u)
<1>1. m \in UndoState
  BY DEF Merged, UndoState
<1>2. ASSUME NEW x \in Index PROVE b.nextId[x] <= a.nextId[x]
  <2>1. b.nextId[x] \in Int /\ c.nextId[x] \in Int /\ a.nextId[x] \in Int
    BY IdTypes
  <2>2. b.nextId[x] <= c.nextId[x] /\ c.nextId[x] <= a.nextId[x]
    BY LinkParts
  <2> QED  BY <2>1, <2>2
<1>3. \A x \in Index : Rollback(a, m).nextId[x] = b.nextId[x]
  <2>1. b = Rollback(c, p) /\ c = Rollback(a, u)
    BY LinkParts
  <2>2. \A x \in Index : m.oldNextIds[x] =
            IF p.oldNextIds[x] = NoInstance THEN u.oldNextIds[x] ELSE p.oldNextIds[x]
    BY DEF Merged
  <2> HIDE DEF m
  <2>3. TAKE x \in Index
  <2>4. /\ b.nextId[x] = IF p.oldNextIds[x] # NoInstance
                         THEN p.oldNextIds[x] ELSE c.nextId[x]
        /\ c.nextId[x] = IF u.oldNextIds[x] # NoInstance
                         THEN u.oldNextIds[x] ELSE a.nextId[x]
        /\ Rollback(a, m).nextId[x] = IF m.oldNextIds[x] # NoInstance
                                      THEN m.oldNextIds[x] ELSE a.nextId[x]
    BY <2>1, RollbackAt
  <2> QED  BY <2>2, <2>4
<1>4. ASSUME NEW id \in Id
      PROVE  /\ Rollback(a, m).objects[id] = b.objects[id]
             /\ m.oldValues[id] # None => a.objects[id] # None
             /\ id \in m.newIds =>
                  /\ a.objects[id] # None
                  /\ m.oldValues[id] = None
                  /\ b.nextId[id[1]] <= id[2]
             /\ m.removed[id] # None => a.objects[id] = None
  <2>1. id \in u.newIds =>
           /\ id \notin p.newIds
           /\ p.oldValues[id] = None
           /\ p.removed[id] = None
           /\ b.nextId[id[1]] <= id[2]
    BY NewIsUnknownBelow
  <2>2. /\ b.objects[id] = Rollback(c, p).objects[id]
        /\ c.objects[id] = Rollback(a, u).objects[id]
    BY LinkParts
  <2>3. /\ p.oldValues[id] # None => c.objects[id] # None
        /\ id \in p.newIds => /\ c.objects[id] # None
                              /\ p.oldValues[id] = None
                              /\ b.nextId[id[1]] <= id[2]
        /\ p.removed[id] # None => c.objects[id] = None
        /\ u.oldValues[id] # None => a.objects[id] # None
        /\ id \in u.newIds => a.objects[id] # None /\ u.oldValues[id] = None
        /\ u.removed[id] # None => a.objects[id] = None
    BY DEF Link
  <2>4. Rollback(a, m).objects[id] = b.objects[id]
    BY <2>1, <2>2, <2>3, RollbackAt, MergedAt
  <2>5. m.oldValues[id] # None => a.objects[id] # None
    BY <2>1, <2>2, <2>3, RollbackAt, MergedAt
  <2>6. id \in m.newIds => /\ a.objects[id] # None
                          /\ m.oldValues[id] = None
                          /\ b.nextId[id[1]] <= id[2]
    BY <2>1, <2>2, <2>3, RollbackAt, MergedAt
  <2>7. m.removed[id] # None => a.objects[id] = None
    BY <2>1, <2>2, <2>3, RollbackAt, MergedAt
  <2> QED  BY <2>4, <2>5, <2>6, <2>7
<1> HIDE DEF m
<1>5. b = Rollback(a, m)
  BY <1>3, <1>4, RollbackEquality
<1>6. Link(b, m, a)
  BY <1>2, <1>4, <1>5 DEF Link
<1> QED  BY <1>1, <1>6 DEF m

-----------------------------------------------------------------------------
(* Lemmas about the stack: how Chain survives each way of changing it.     *)

\* Recording in the newest entry.
LEMMA ChainTop ==
    ASSUME NEW sv \in Seq(Database), NEW st \in Seq(UndoState), NEW d, NEW e,
           Chain(sv, st, d), st # << >>,
           NEW w \in UndoState, Link(Last(sv), w, e)
    PROVE  WithTop(st, w) \in Seq(UndoState) /\ Chain(sv, WithTop(st, w), e)
<1>1. /\ WithTop(st, w) \in Seq(UndoState)
      /\ Len(WithTop(st, w)) = Len(st)
      /\ Len(st) \in Nat \ {0}
      /\ WithTop(st, w)[Len(st)] = w
      /\ \A i \in 1..Len(st) : i # Len(st) => WithTop(st, w)[i] = st[i]
  BY DEF WithTop
<1>2. Last(sv) = sv[Len(st)]
  BY DEF Last, Chain
<1> QED  BY <1>1, <1>2 DEF Chain

\* Opening an entry.
LEMMA ChainPush ==
    ASSUME NEW sv \in Seq(Database), NEW st \in Seq(UndoState),
           NEW d \in Database, Chain(sv, st, d), Fresh(d)
    PROVE  /\ Append(st, EmptyState) \in Seq(UndoState)
           /\ Append(sv, d) \in Seq(Database)
           /\ Chain(Append(sv, d), Append(st, EmptyState), d)
<1> DEFINE sv2 == Append(sv, d)
           st2 == Append(st, EmptyState)
<1>1. /\ st2 \in Seq(UndoState)
      /\ sv2 \in Seq(Database)
      /\ Len(sv) = Len(st)
      /\ Len(st) \in Nat
      /\ Len(st2) = Len(st) + 1
      /\ Len(sv2) = Len(st) + 1
  BY LinkEmpty DEF Chain
<1>2. /\ \A i \in 1..Len(st) : sv2[i] = sv[i] /\ st2[i] = st[i]
      /\ sv2[Len(st) + 1] = d
      /\ st2[Len(st) + 1] = EmptyState
  BY <1>1
<1>3. Link(d, EmptyState, d)
  BY LinkEmpty
<1> HIDE DEF sv2, st2
<1>4. ASSUME NEW i \in 1..Len(st2)
      PROVE  /\ Link(sv2[i], st2[i], IF i = Len(st2) THEN d ELSE sv2[i + 1])
             /\ Fresh(sv2[i])
  <2>1. CASE i = Len(st) + 1
    BY <2>1, <1>1, <1>2, <1>3
  <2>2. CASE i = Len(st)
    BY <2>2, <1>1, <1>2 DEF Chain
  <2>3. CASE i < Len(st)
    <3>1. i \in 1..Len(st) /\ i + 1 \in 1..Len(st) /\ i # Len(st) /\ i # Len(st2)
      BY <2>3, <1>1
    <3> QED  BY <3>1, <1>2 DEF Chain
  <2> QED  BY <2>1, <2>2, <2>3, <1>1
<1> QED  BY <1>1, <1>4 DEF Chain, sv2, st2

\* Forgetting the oldest entries; the newest one always stays.
LEMMA ChainTrim ==
    ASSUME NEW sv \in Seq(Database), NEW st \in Seq(UndoState), NEW d,
           Chain(sv, st, d), NEW max \in Nat \ {0}
    PROVE  /\ Trimmed(st, max) \in Seq(UndoState)
           /\ Trimmed(sv, max) \in Seq(Database)
           /\ Chain(Trimmed(sv, max), Trimmed(st, max), d)
           /\ Len(Trimmed(st, max)) = IF Len(st) > max THEN max ELSE Len(st)
<1>1. CASE Len(st) > max
  <2> DEFINE k == Len(st) - max
             sv2 == SubSeq(sv, k + 1, Len(st))
             st2 == SubSeq(st, k + 1, Len(st))
  <2>1. /\ Len(st) \in Nat
        /\ Len(sv) = Len(st)
        /\ k \in 1..Len(st)
        /\ Len(st) = max + k
    BY <1>1 DEF Chain
  <2>2. /\ Trimmed(st, max) = st2
        /\ Trimmed(sv, max) = sv2
    BY <1>1, <2>1 DEF Trimmed
  <2>3. /\ st2 \in Seq(UndoState)
        /\ sv2 \in Seq(Database)
        /\ Len(st2) = max
        /\ Len(sv2) = max
    BY <2>1
  <2>4. \A i \in 1..max : sv2[i] = sv[i + k] /\ st2[i] = st[i + k]
    BY <2>1
  <2> HIDE DEF sv2, st2, k
  <2>5. ASSUME NEW i \in 1..max
        PROVE  /\ Link(sv2[i], st2[i], IF i = max THEN d ELSE sv2[i + 1])
               /\ Fresh(sv2[i])
    <3>1. i + k \in 1..Len(st) /\ (i + k = Len(st) <=> i = max)
      BY <2>1
    <3>2. i # max => i + 1 \in 1..max /\ (i + 1) + k = (i + k) + 1
      BY <2>1
    <3>3. i # max => sv2[i + 1] = sv[(i + k) + 1]
      BY <3>2, <2>4
    <3> QED  BY <3>1, <3>3, <2>4 DEF Chain
  <2> QED  BY <1>1, <2>2, <2>3, <2>5 DEF Chain
<1>2. CASE ~(Len(st) > max)
  BY <1>2 DEF Trimmed, Chain
<1> QED  BY <1>1, <1>2

\* Rolling back the newest entry.
LEMMA ChainPop ==
    ASSUME NEW sv \in Seq(Database), NEW st \in Seq(UndoState), NEW d,
           Chain(sv, st, d), st # << >>
    PROVE  /\ Front(st) \in Seq(UndoState)
           /\ Front(sv) \in Seq(Database)
           /\ Len(Front(st)) = Len(st) - 1
           /\ Chain(Front(sv), Front(st), Last(sv))
           /\ Last(sv) = Rollback(d, Last(st))
           /\ Last(sv) \in Database
           /\ Fresh(Last(sv))
<1>1. /\ Len(st) \in Nat \ {0}
      /\ Len(sv) = Len(st)
  BY DEF Chain
<1>2. /\ Front(st) \in Seq(UndoState)
      /\ Front(sv) \in Seq(Database)
      /\ Len(Front(st)) = Len(st) - 1
      /\ Len(Front(sv)) = Len(st) - 1
      /\ Last(sv) = sv[Len(st)]
      /\ Last(st) = st[Len(st)]
  BY <1>1 DEF Front, Last
<1>3. \A i \in 1..(Len(st) - 1) : Front(sv)[i] = sv[i] /\ Front(st)[i] = st[i]
  BY <1>1 DEF Front
<1>4. ASSUME NEW i \in 1..(Len(st) - 1)
      PROVE  /\ Link(Front(sv)[i], Front(st)[i],
                      IF i = Len(st) - 1 THEN Last(sv) ELSE Front(sv)[i + 1])
             /\ Fresh(Front(sv)[i])
  <2>1. i \in 1..Len(st) /\ i # Len(st)
    BY <1>1
  <2>2. i # Len(st) - 1 => i + 1 \in 1..(Len(st) - 1)
    BY <1>1
  <2>3. i = Len(st) - 1 => i + 1 = Len(st)
    BY <1>1
  <2> QED  BY <2>1, <2>2, <2>3, <1>2, <1>3 DEF Chain
<1>5. Chain(Front(sv), Front(st), Last(sv))
  BY <1>2, <1>4 DEF Chain
<1>6. Link(sv[Len(st)], st[Len(st)], d) /\ Fresh(sv[Len(st)])
  BY <1>1 DEF Chain
<1> QED  BY <1>1, <1>2, <1>5, <1>6 DEF Link

\* Merging the two newest entries.
LEMMA ChainMerge ==
    ASSUME NEW sv \in Seq(Database), NEW st \in Seq(UndoState),
           NEW d \in Database, Chain(sv, st, d), Len(st) >= 2
    PROVE  LET m == Merged(st[Len(st) - 1], Last(st))
           IN  /\ WithTop(Front(st), m) \in Seq(UndoState)
               /\ Front(sv) \in Seq(Database)
               /\ Len(WithTop(Front(st), m)) = Len(st) - 1
               /\ Chain(Front(sv), WithTop(Front(st), m), d)
<1> DEFINE n == Len(st)
           m == Merged(st[n - 1], Last(st))
<1>1. /\ n \in Nat /\ n >= 2 /\ n - 1 \in 1..n /\ n \in 1..n
      /\ Len(sv) = n
      /\ Last(st) = st[n] /\ Last(sv) = sv[n]
      /\ st # << >>
  BY DEF Chain, Last
<1>2. /\ Link(sv[n - 1], st[n - 1], sv[n])
      /\ Link(sv[n], st[n], d)
      /\ Fresh(sv[n - 1]) /\ Fresh(sv[n])
  BY <1>1 DEF Chain
<1>3. m \in UndoState /\ Link(sv[n - 1], m, d)
  <2>1. /\ sv[n - 1] \in Database /\ sv[n] \in Database
        /\ st[n - 1] \in UndoState /\ st[n] \in UndoState
    BY <1>1
  <2> QED  BY <1>1, <1>2, <2>1, LinkMerge
<1>4. /\ Front(st) \in Seq(UndoState)
      /\ Front(sv) \in Seq(Database)
      /\ Len(Front(st)) = n - 1
      /\ Chain(Front(sv), Front(st), Last(sv))
  BY <1>1, ChainPop
<1>5. Front(st) # << >> /\ Last(Front(sv)) = sv[n - 1]
  <2>1. Front(sv) = SubSeq(sv, 1, n - 1) /\ Len(Front(sv)) = n - 1
    BY <1>1 DEF Front
  <2>2. Front(sv)[n - 1] = sv[n - 1]
    BY <1>1, <2>1
  <2>3. Front(st) # << >>
    BY <1>1, <1>4
  <2> QED  BY <2>1, <2>2, <2>3 DEF Last
<1> HIDE DEF m, n
<1>6. /\ WithTop(Front(st), m) \in Seq(UndoState)
      /\ Chain(Front(sv), WithTop(Front(st), m), d)
  BY <1>3, <1>4, <1>5, ChainTop
<1>7. Len(WithTop(Front(st), m)) = n - 1
  BY <1>4 DEF WithTop
<1> QED  BY <1>4, <1>6, <1>7 DEF m, n

-----------------------------------------------------------------------------
(* The inductive invariant.                                                *)

\* Initially nothing is recorded.
LEMMA InitInv == HInit => Inv
<1> SUFFICES ASSUME HInit PROVE Inv
  OBVIOUS
<1>1. db \in Database /\ Fresh(db)
  BY DEF HInit, Init, Database, Instance, Fresh
<1>2. /\ stack = << >> /\ saved = << >> /\ sessions = << >>
      /\ disabled = FALSE /\ maxSize \in Nat \ {0}
  BY DEF HInit, Init
<1>3. TypeOK
  <2>1. stack \in Seq(UndoState) /\ saved \in Seq(Database)
    BY <1>2
  <2>2. sessions \in Seq(Handle)
    BY <1>2
  <2> QED  BY <1>1, <1>2, <2>1, <2>2, Zenon DEF TypeOK
<1>4. SessionsOwnEntries /\ Chain(saved, stack, db)
  BY <1>2 DEF SessionsOwnEntries, Chain
<1>5. DisablingSession
  BY <1>2 DEF DisablingSession
<1> QED  BY <1>1, <1>3, <1>4, <1>5 DEF Inv

\* The newest entry once there is one to record in, and the database when it
\* was opened.
LEMMA RecordingTop ==
    ASSUME Inv, Recorded, ~disabled
    PROVE  /\ Recording \in Seq(UndoState) /\ Recording # << >>
           /\ saved' \in Seq(Database)
           /\ Chain(saved', Recording, db)
           /\ Last(Recording) \in UndoState
           /\ Last(saved') \in Database
           /\ Fresh(Last(saved'))
           /\ Link(Last(saved'), Last(Recording), db)
           /\ Len(Recording) >= Len(stack)
           /\ sessions # << >> => Len(Recording) = Len(stack)
<1>1. CASE stack = << >>
  <2>1. Recording = <<EmptyState>> /\ saved' = <<db>>
    BY <1>1 DEF Recording, Recorded
  <2>2. EmptyState \in UndoState /\ Link(db, EmptyState, db) /\ db \in Database
    BY LinkEmpty DEF Inv, TypeOK
  <2>3. Fresh(db)
    BY DEF Inv
  <2>4. sessions = << >>
    BY <1>1 DEF Inv, TypeOK, SessionsOwnEntries
  <2> QED  BY <1>1, <2>1, <2>2, <2>3, <2>4 DEF Chain, Last
<1>2. CASE stack # << >>
  <2>1. Recording = stack /\ saved' = saved
    BY <1>2 DEF Recording, Recorded
  <2>2. /\ saved \in Seq(Database) /\ stack \in Seq(UndoState)
        /\ Chain(saved, stack, db)
    BY DEF Inv, TypeOK
  <2>3. /\ Len(stack) \in Nat \ {0} /\ Len(saved) = Len(stack)
        /\ Last(stack) = stack[Len(stack)] /\ Last(saved) = saved[Len(stack)]
        /\ Last(stack) \in UndoState
    BY <1>2, <2>2 DEF Chain, Last
  <2>4. Link(saved[Len(stack)], stack[Len(stack)], db)
    BY <2>2, <2>3 DEF Chain
  <2>5. Last(saved) \in Database /\ Fresh(Last(saved))
    BY <1>2, <2>2, ChainPop
  <2> QED  BY <1>2, <2>1, <2>2, <2>3, <2>4, <2>5
<1> QED  BY <1>1, <1>2

\* A change recorded as entry w of the newest entry keeps the invariant.
LEMMA RecordStep ==
    ASSUME Inv, Recorded, UNCHANGED <<sessions, disabled, maxSize>>, ~disabled,
           NEW w \in UndoState, stack' = WithTop(Recording, w),
           Link(Last(saved'), w, db'), db' \in Database, Fresh(db')
    PROVE  Inv'
<1>1. /\ Recording \in Seq(UndoState) /\ Recording # << >>
      /\ saved' \in Seq(Database)
      /\ Chain(saved', Recording, db)
      /\ Len(Recording) >= Len(stack)
      /\ sessions # << >> => Len(Recording) = Len(stack)
  BY RecordingTop
<1>2. stack' \in Seq(UndoState) /\ Chain(saved', stack', db')
  BY <1>1, ChainTop
<1>3. Len(stack') = Len(Recording)
  BY <1>1 DEF WithTop
<1>4. TypeOK'
  BY <1>1, <1>2 DEF Inv, TypeOK
<1>5. SessionsOwnEntries'
  <2>1. Len(sessions) \in Nat /\ Len(stack) \in Nat /\ Len(Recording) \in Nat
    BY <1>1 DEF Inv, TypeOK
  <2> QED  BY <1>1, <1>3, <2>1 DEF Inv, SessionsOwnEntries
<1>6. DisablingSession'
  BY <1>1, <1>3 DEF Inv, DisablingSession
<1> QED  BY <1>2, <1>4, <1>5, <1>6 DEF Inv

\* A change made while the history is disabled is not recorded.
LEMMA UnrecordedStep ==
    ASSUME Inv, Recorded, UNCHANGED <<stack, sessions, disabled, maxSize>>,
           disabled, db' \in Database, Fresh(db')
    PROVE  Inv'
<1>1. stack = << >> /\ saved' = saved
  BY DEF Inv, SessionsOwnEntries, Recorded
<1>2. Chain(saved', stack', db')
  BY <1>1 DEF Inv, Chain
<1> QED  BY <1>1, <1>2 DEF Inv, TypeOK, SessionsOwnEntries, DisablingSession

\* create() keeps the invariant, recorded or not.
LEMMA CreateInv ==
    ASSUME Inv, NEW x \in Index, NEW v \in Value, HCreate(x, v)
    PROVE  Inv'
<1> DEFINE id == <<x, db.nextId[x]>>
           d == [objects |-> [db.objects EXCEPT ![id] = v],
                 nextId  |-> [db.nextId EXCEPT ![x] = @ + 1]]
<1>1. /\ db' = d /\ Recorded /\ UNCHANGED <<sessions, disabled, maxSize>>
      /\ db.nextId[x] <= MaxInstance
      /\ stack' = IF disabled THEN stack
                  ELSE WithTop(Recording, OnCreate(Last(Recording), id))
  BY DEF HCreate, Create
<1>2. db \in Database /\ Fresh(db)
  BY DEF Inv, TypeOK
<1>3. CASE disabled
  <2>1. EmptyState \in UndoState /\ Link(db, EmptyState, db)
    BY <1>2, LinkEmpty
  <2>2. d \in Database /\ Fresh(d)
    BY <1>1, <1>2, <2>1, LinkCreate
  <2> QED  BY <1>1, <1>3, <2>2, UnrecordedStep
<1>4. CASE ~disabled
  <2>1. /\ Last(Recording) \in UndoState
        /\ Last(saved') \in Database
        /\ Fresh(Last(saved'))
        /\ Link(Last(saved'), Last(Recording), db)
    BY <1>1, <1>4, RecordingTop
  <2>2. /\ d \in Database /\ Fresh(d)
        /\ OnCreate(Last(Recording), id) \in UndoState
        /\ Link(Last(saved'), OnCreate(Last(Recording), id), d)
    BY <1>1, <1>2, <2>1, LinkCreate
  <2> HIDE DEF d, id
  <2> QED  BY <1>1, <1>4, <2>2, RecordStep
<1> QED  BY <1>3, <1>4

\* modify() keeps the invariant, recorded or not.
LEMMA ModifyInv ==
    ASSUME Inv, NEW id \in Id, NEW v \in Value, HModify(id, v)
    PROVE  Inv'
<1> DEFINE d == [db EXCEPT !.objects[id] = v]
<1>1. /\ db' = d /\ Recorded /\ UNCHANGED <<sessions, disabled, maxSize>>
      /\ db.objects[id] # None
      /\ stack' = IF disabled THEN stack
                  ELSE WithTop(Recording,
                               OnModify(Last(Recording), id, db.objects[id]))
  BY DEF HModify, Modify, Exists
<1>2. db \in Database /\ Fresh(db)
  BY DEF Inv, TypeOK
<1>3. CASE disabled
  <2>1. EmptyState \in UndoState /\ Link(db, EmptyState, db)
    BY <1>2, LinkEmpty
  <2>2. d \in Database /\ Fresh(d)
    BY <1>1, <1>2, <2>1, LinkModify
  <2> QED  BY <1>1, <1>3, <2>2, UnrecordedStep
<1>4. CASE ~disabled
  <2>1. /\ Last(Recording) \in UndoState
        /\ Last(saved') \in Database
        /\ Link(Last(saved'), Last(Recording), db)
    BY <1>1, <1>4, RecordingTop
  <2>2. /\ d \in Database /\ Fresh(d)
        /\ OnModify(Last(Recording), id, db.objects[id]) \in UndoState
        /\ Link(Last(saved'), OnModify(Last(Recording), id, db.objects[id]), d)
    BY <1>1, <1>2, <2>1, LinkModify
  <2> HIDE DEF d
  <2> QED  BY <1>1, <1>4, <2>2, RecordStep
<1> QED  BY <1>3, <1>4

\* remove() keeps the invariant, recorded or not.
LEMMA RemoveInv ==
    ASSUME Inv, NEW id \in Id, HRemove(id)
    PROVE  Inv'
<1> DEFINE d == [db EXCEPT !.objects[id] = None]
<1>1. /\ db' = d /\ Recorded /\ UNCHANGED <<sessions, disabled, maxSize>>
      /\ db.objects[id] # None
      /\ stack' = IF disabled THEN stack
                  ELSE WithTop(Recording,
                               OnRemove(Last(Recording), id, db.objects[id]))
  BY DEF HRemove, Remove, Exists
<1>2. db \in Database /\ Fresh(db)
  BY DEF Inv, TypeOK
<1>3. CASE disabled
  <2>1. EmptyState \in UndoState /\ Link(db, EmptyState, db)
    BY <1>2, LinkEmpty
  <2>2. d \in Database /\ Fresh(d)
    BY <1>1, <1>2, <2>1, LinkRemove
  <2> QED  BY <1>1, <1>3, <2>2, UnrecordedStep
<1>4. CASE ~disabled
  <2>1. /\ Last(Recording) \in UndoState
        /\ Last(saved') \in Database
        /\ Link(Last(saved'), Last(Recording), db)
    BY <1>1, <1>4, RecordingTop
  <2>2. /\ d \in Database /\ Fresh(d)
        /\ OnRemove(Last(Recording), id, db.objects[id]) \in UndoState
        /\ Link(Last(saved'), OnRemove(Last(Recording), id, db.objects[id]), d)
    BY <1>1, <1>2, <2>1, LinkRemove
  <2> HIDE DEF d
  <2> QED  BY <1>1, <1>4, <2>2, RecordStep
<1> QED  BY <1>3, <1>4

\* Opening a session with handle h, after trimming to max > 0 entries.  No
\* entry of a live session is trimmed: there is room for them (the second
\* hypothesis), and none is trimmed inside a session that disables on exit.
LEMMA StartInv ==
    ASSUME Inv, NEW max \in Nat \ {0}, NEW h \in Handle,
           Len(sessions) <= max,
           h = "disables" => stack = << >>,
           \/ Len(stack) <= max
           \/ \A i \in 1..Len(sessions) : sessions[i] # "disables",
           stack' = Append(Trimmed(stack, max), EmptyState),
           saved' = Append(Trimmed(saved, max), db),
           sessions' = Append(sessions, h),
           disabled' = FALSE, maxSize' \in Nat \ {0}, UNCHANGED db
    PROVE  Inv'
<1>1. /\ db \in Database /\ Fresh(db)
      /\ stack \in Seq(UndoState) /\ saved \in Seq(Database)
      /\ Chain(saved, stack, db)
      /\ sessions \in Seq(Handle)
      /\ Len(stack) \in Nat /\ Len(sessions) \in Nat
      /\ Len(sessions) <= Len(stack)
  BY DEF Inv, TypeOK, SessionsOwnEntries
<1>2. /\ Trimmed(stack, max) \in Seq(UndoState)
      /\ Trimmed(saved, max) \in Seq(Database)
      /\ Chain(Trimmed(saved, max), Trimmed(stack, max), db)
      /\ Len(Trimmed(stack, max)) = IF Len(stack) > max THEN max ELSE Len(stack)
  BY <1>1, ChainTrim
<1>3. /\ stack' \in Seq(UndoState)
      /\ saved' \in Seq(Database)
      /\ Chain(saved', stack', db')
  BY <1>1, <1>2, ChainPush
<1>4. /\ sessions' \in Seq(Handle)
      /\ Len(sessions') = Len(sessions) + 1
      /\ sessions'[Len(sessions) + 1] = h
      /\ \A i \in 1..Len(sessions) : sessions'[i] = sessions[i]
  BY <1>1
<1>5. Len(stack') = Len(Trimmed(stack, max)) + 1
  BY <1>2, LinkEmpty, <1>1
<1>6. TypeOK'
  BY <1>1, <1>3, <1>4, Zenon DEF TypeOK
<1>7. SessionsOwnEntries'
  BY <1>1, <1>2, <1>4, <1>5 DEF SessionsOwnEntries
<1>8. ASSUME NEW i \in 1..Len(sessions'), sessions'[i] = "disables"
      PROVE  i = 1 /\ Len(stack') = Len(sessions')
  <2>1. CASE i = Len(sessions) + 1
    <3>1. stack = << >> /\ Len(stack) = 0 /\ Len(sessions) = 0
      BY <1>1, <1>4, <1>8, <2>1
    <3> QED  BY <3>1, <2>1, <1>2, <1>4, <1>5
  <2>2. CASE i # Len(sessions) + 1
    <3>1. i \in 1..Len(sessions) /\ sessions[i] = "disables"
      BY <1>1, <1>4, <1>8, <2>2
    <3>2. i = 1 /\ Len(stack) = Len(sessions) /\ Len(stack) <= max
      BY <3>1 DEF Inv, DisablingSession
    <3> QED  BY <3>2, <1>1, <1>2, <1>4, <1>5
  <2> QED  BY <2>1, <2>2
<1> QED  BY <1>1, <1>3, <1>6, <1>7, <1>8 DEF Inv, DisablingSession

\* The handles left when the newest session ends.
LEMMA FrontHandles ==
    ASSUME NEW s \in Seq(Handle), s # << >>
    PROVE  /\ Front(s) \in Seq(Handle)
           /\ Len(Front(s)) = Len(s) - 1
           /\ \A i \in 1..(Len(s) - 1) : Front(s)[i] = s[i]
<1> DEFINE n == Len(s)
<1>1. n \in Nat \ {0}
  OBVIOUS
<1>2. Front(s) \in Seq(Handle)
  BY <1>1 DEF Front
<1>3. Len(SubSeq(s, 1, n - 1)) = n - 1
  <2> HIDE DEF n
  <2>1. CASE n = 1
    BY <2>1
  <2>2. CASE n > 1
    BY <1>1, <2>2
  <2> QED  BY <1>1, <2>1, <2>2
<1>4. \A i \in 1..(n - 1) : Front(s)[i] = s[i]
  BY <1>1 DEF Front
<1> QED  BY <1>2, <1>3, <1>4 DEF Front

\* Ending the newest session while the stack is left with its entries or all
\* but its newest one.
LEMMA CloseInv ==
    ASSUME Inv, sessions # << >>, CloseHandle,
           stack' \in Seq(UndoState), saved' \in Seq(Database),
           Chain(saved', stack', db'), db' \in Database, Fresh(db'),
           Len(stack') = Len(stack) - 1, UNCHANGED maxSize
    PROVE  Inv'
<1>1. /\ sessions \in Seq(Handle) /\ Len(sessions) \in Nat \ {0}
      /\ stack \in Seq(UndoState) /\ Len(stack) \in Nat
      /\ Len(sessions) <= Len(stack)
      /\ maxSize \in Nat \ {0}
  BY DEF Inv, TypeOK, SessionsOwnEntries
<1>2. /\ sessions' = Front(sessions)
      /\ disabled' = (sessions[Len(sessions)] = "disables")
  BY DEF CloseHandle, Last
<1>3. /\ sessions' \in Seq(Handle)
      /\ Len(sessions') = Len(sessions) - 1
      /\ \A i \in 1..(Len(sessions) - 1) : sessions'[i] = sessions[i]
  <2>1. /\ Front(sessions) \in Seq(Handle)
        /\ Len(Front(sessions)) = Len(sessions) - 1
        /\ \A i \in 1..(Len(sessions) - 1) : Front(sessions)[i] = sessions[i]
    BY <1>1, FrontHandles
  <2> QED  BY <1>2, <2>1, Zenon
<1>4. TypeOK'
  <2>1. disabled' \in BOOLEAN
    BY <1>2, Zenon
  <2> QED  BY <1>1, <1>3, <2>1, Zenon DEF TypeOK
<1>5. disabled' => stack' = << >> /\ sessions' = << >>
  <2> SUFFICES ASSUME disabled' PROVE stack' = << >> /\ sessions' = << >>
    OBVIOUS
  <2> sessions[Len(sessions)] = "disables"
    BY <1>2, Zenon
  <2> Len(sessions) \in 1..Len(sessions)
    BY <1>1
  <2>1. Len(sessions) = 1 /\ Len(stack) = Len(sessions)
    BY DEF Inv, DisablingSession
  <2>2. Len(stack') = 0 /\ Len(sessions') = 0
    BY <2>1, <1>1, <1>3
  <2> QED  BY <2>2, <1>3
<1>6. SessionsOwnEntries'
  BY <1>1, <1>3, <1>5 DEF SessionsOwnEntries
<1>7. DisablingSession'
  BY <1>1, <1>3 DEF Inv, DisablingSession
<1> QED  BY <1>4, <1>6, <1>7 DEF Inv

\* Every step keeps the invariant.
LEMMA NextInv == Inv /\ [HNext]_hvars => Inv'
<1> SUFFICES ASSUME Inv, [HNext]_hvars PROVE Inv'
  OBVIOUS
<1>0. /\ db \in Database /\ Fresh(db) /\ Chain(saved, stack, db)
      /\ stack \in Seq(UndoState) /\ saved \in Seq(Database)
      /\ sessions \in Seq(Handle) /\ maxSize \in Nat \ {0}
      /\ Len(stack) \in Nat /\ Len(sessions) \in Nat
      /\ Len(sessions) <= Len(stack)
  BY DEF Inv, TypeOK, SessionsOwnEntries
<1>1. ASSUME NEW x \in Index, NEW v \in Value, HCreate(x, v) PROVE Inv'
  BY <1>1, CreateInv
<1>2. ASSUME NEW id \in Id, NEW v \in Value, HModify(id, v) PROVE Inv'
  BY <1>2, ModifyInv
<1>3. ASSUME NEW id \in Id, HRemove(id) PROVE Inv'
  BY <1>3, RemoveInv
<1>4. CASE HStart
  <2>1. /\ stack' = Append(Trimmed(stack, maxSize), EmptyState)
        /\ saved' = Append(Trimmed(saved, maxSize), db)
        /\ sessions' = Append(sessions, "plain")
        /\ disabled' = FALSE /\ maxSize' = maxSize /\ UNCHANGED db
        /\ Len(sessions) <= 1
    BY <1>4 DEF HStart, StartSession
  <2>2. \/ Len(stack) <= maxSize
        \/ \A i \in 1..Len(sessions) : sessions[i] # "disables"
    BY <1>0, <2>1 DEF Inv, DisablingSession
  <2>3. "plain" \in Handle /\ Len(sessions) <= maxSize
    BY <1>0, <2>1 DEF Handle
  <2> QED  BY <1>0, <2>1, <2>2, <2>3, StartInv
<1>5. CASE HStartProposal
  <2> DEFINE max == IF Len(stack) >= maxSize THEN Len(stack) + 1 ELSE maxSize
             h == IF disabled THEN "disables" ELSE "plain"
  <2>1. /\ stack' = Append(Trimmed(stack, max), EmptyState)
        /\ maxSize' = max
        /\ saved' = Append(Trimmed(saved, max), db)
        /\ sessions' = Append(sessions, h)
        /\ disabled' = FALSE /\ UNCHANGED db
    BY <1>5 DEF HStartProposal, StartProposalSession
  <2>2. max \in Nat \ {0} /\ Len(stack) <= max /\ Len(sessions) <= max
    BY <1>0
  <2>3. h \in Handle /\ (h = "disables" => stack = << >>)
    BY DEF Handle, Inv, SessionsOwnEntries
  <2> HIDE DEF max, h
  <2> QED  BY <2>1, <2>2, <2>3, StartInv
<1>6. CASE HUndo
  <2>1. /\ sessions # << >> /\ CloseHandle /\ UNCHANGED maxSize
        /\ db' = Rollback(db, Last(stack))
        /\ stack' = Front(stack) /\ saved' = Front(saved)
    BY <1>6 DEF HUndo, Undo
  <2>2. stack # << >>
    BY <1>0, <2>1
  <2>3. /\ stack' \in Seq(UndoState) /\ saved' \in Seq(Database)
        /\ Len(stack') = Len(stack) - 1
        /\ db' = Last(saved) /\ db' \in Database /\ Fresh(db')
        /\ Chain(saved', stack', db')
    BY <1>0, <2>1, <2>2, ChainPop
  <2> QED  BY <2>1, <2>3, CloseInv
<1>7. CASE HMerge
  <2>1. /\ sessions # << >> /\ CloseHandle /\ UNCHANGED <<db, maxSize>>
        /\ stack' = IF Len(stack) = 1 THEN << >>
                    ELSE WithTop(Front(stack),
                                 Merged(stack[Len(stack) - 1], Last(stack)))
        /\ saved' = Front(saved)
    BY <1>7 DEF HMerge, Merge
  <2>2. Len(stack) >= 1 /\ stack # << >>
    BY <1>0, <2>1
  <2>3. CASE Len(stack) = 1
    <3>1. stack' = << >> /\ Len(stack') = Len(stack) - 1
      BY <2>1, <2>3
    <3>2. saved' \in Seq(Database) /\ Len(saved') = 0
      <4>1. Len(saved) = 1
        BY <1>0, <2>3 DEF Chain
      <4> QED  BY <1>0, <2>1, <4>1 DEF Front
    <3>3. Chain(saved', stack', db')
      BY <3>1, <3>2 DEF Chain
    <3>4. stack' \in Seq(UndoState)
      BY <3>1
    <3> QED  BY <1>0, <2>1, <3>1, <3>2, <3>3, <3>4, CloseInv
  <2>4. CASE Len(stack) # 1
    <3>1. Len(stack) >= 2
      <4> DEFINE n == Len(stack)
      <4>1. n \in Nat /\ n # 0 /\ n # 1
        BY <1>0, <2>2, <2>4
      <4> HIDE DEF n
      <4>2. n >= 2
        BY <4>1
      <4> QED  BY <4>2 DEF n
    <3>2. stack' = WithTop(Front(stack), Merged(stack[Len(stack) - 1], Last(stack)))
      BY <2>1, <2>4
    <3>3. /\ stack' \in Seq(UndoState) /\ saved' \in Seq(Database)
          /\ Len(stack') = Len(stack) - 1
          /\ Chain(saved', stack', db')
      BY <1>0, <2>1, <3>1, <3>2, ChainMerge, Zenon
    <3> QED  BY <1>0, <2>1, <3>3, CloseInv
  <2> QED  BY <2>3, <2>4
<1>8. CASE HPopCommit
  <2>1. /\ sessions = << >> /\ ~disabled /\ stack # << >>
        /\ db' = Rollback(db, Last(stack))
        /\ stack' = Front(stack) /\ saved' = Front(saved)
        /\ UNCHANGED <<sessions, disabled, maxSize>>
    BY <1>8 DEF HPopCommit, PopCommit
  <2>2. /\ stack' \in Seq(UndoState) /\ saved' \in Seq(Database)
        /\ db' = Last(saved) /\ db' \in Database /\ Fresh(db')
        /\ Chain(saved', stack', db')
    BY <1>0, <2>1, ChainPop
  <2>3. TypeOK'
    BY <2>1, <2>2 DEF Inv, TypeOK
  <2>4. SessionsOwnEntries' /\ DisablingSession'
    BY <2>1, <2>2 DEF SessionsOwnEntries, DisablingSession
  <2> QED  BY <2>2, <2>3, <2>4 DEF Inv
<1>9. CASE Commit /\ UNCHANGED saved
  <2>1. /\ sessions = <<"plain">> /\ sessions' = << >> /\ disabled' = FALSE
        /\ UNCHANGED <<db, stack, maxSize, saved>>
    <3>1. /\ sessions = <<"plain">> /\ sessions # << >>
          /\ Len(sessions) = 1 /\ sessions[1] = "plain"
          /\ UNCHANGED <<db, stack, maxSize, saved>>
          /\ sessions' = Front(sessions)
      BY <1>9 DEF Commit, CloseHandle
    <3>2. Len(Front(sessions)) = 0 /\ Front(sessions) \in Seq(Handle)
      <4>1. /\ Len(Front(sessions)) = Len(sessions) - 1
            /\ Front(sessions) \in Seq(Handle)
        BY <1>0, <3>1, FrontHandles
      <4> QED  BY <3>1, <4>1
    <3>3. disabled' = (sessions[1] = "disables")
      BY <1>9, <3>1 DEF Commit, CloseHandle, Last
    <3>4. disabled' = FALSE
      BY <3>1, <3>3
    <3> QED  BY <3>1, <3>2, <3>4
  <2>2. TypeOK'
    <3>1. sessions' \in Seq(Handle)
      BY <2>1
    <3> QED  BY <1>0, <2>1, <3>1, Zenon DEF TypeOK
  <2>3. SessionsOwnEntries' /\ DisablingSession'
    BY <1>0, <2>1 DEF SessionsOwnEntries, DisablingSession
  <2> QED  BY <1>0, <2>1, <2>2, <2>3 DEF Inv
<1>10. CASE Disable /\ UNCHANGED saved
  BY <1>10 DEF Disable, Inv, TypeOK, SessionsOwnEntries, DisablingSession
<1>11. CASE Enable /\ UNCHANGED saved
  BY <1>11 DEF Enable, Inv, TypeOK, SessionsOwnEntries, DisablingSession
<1>12. ASSUME NEW n \in MaxSizes, SetMaxSize(n), UNCHANGED saved PROVE Inv'
  BY <1>12 DEF SetMaxSize, Inv, TypeOK, SessionsOwnEntries, DisablingSession
<1>13. CASE UNCHANGED hvars
  BY <1>13 DEF hvars, vars, Inv, TypeOK, SessionsOwnEntries, DisablingSession
<1> QED
  BY <1>1, <1>2, <1>3, <1>4, <1>5, <1>6, <1>7, <1>8, <1>9, <1>10, <1>11,
     <1>12, <1>13 DEF HNext

-----------------------------------------------------------------------------
(* The order of the snapshots' id counters.                                *)

\* Appending the database now keeps the order: it is linked to the newest.
LEMMA OrderedPush ==
    ASSUME NEW sv \in Seq(Database), NEW st \in Seq(UndoState),
           NEW d \in Database, Chain(sv, st, d), Ordered(sv)
    PROVE  Ordered(Append(sv, d))
<1> DEFINE n == Len(sv)
           s == Append(sv, d)
<1>1. n \in Nat /\ Len(st) = n /\ Len(s) = n + 1
  BY DEF Chain
<1>2. s[n + 1] = d /\ \A i \in 1..n : s[i] = sv[i] /\ s[i] \in Database
  BY <1>1
<1> HIDE DEF s
<1>3. ASSUME NEW i \in 1..n, NEW x \in Index
      PROVE  sv[i].nextId[x] <= d.nextId[x]
  <2>1. n \in 1..n /\ i <= n
    BY <1>1
  <2>2. sv[n].nextId[x] <= d.nextId[x]
    BY <1>1, <2>1 DEF Chain, Link
  <2>3. sv[i].nextId[x] <= sv[n].nextId[x]
    BY <2>1 DEF Ordered
  <2>4. sv[i].nextId[x] \in Int /\ sv[n].nextId[x] \in Int /\ d.nextId[x] \in Int
    <3>1. sv[i] \in Database /\ sv[n] \in Database
      BY <1>1, <2>1
    <3> QED  BY <3>1 DEF Database, Instance
  <2> QED  BY <2>2, <2>3, <2>4
<1>4. ASSUME NEW i \in 1..(n + 1), NEW j \in 1..(n + 1), i <= j, NEW x \in Index
      PROVE  s[i].nextId[x] <= s[j].nextId[x]
  <2>1. CASE j = n + 1 /\ i = n + 1
    BY <2>1, <1>2 DEF Database, Instance
  <2>2. CASE j = n + 1 /\ i # n + 1
    BY <2>2, <1>1, <1>2, <1>3
  <2>3. CASE j # n + 1
    <3>1. i \in 1..n /\ j \in 1..n
      BY <2>3, <1>1, <1>4
    <3> QED  BY <3>1, <1>2, <1>4 DEF Ordered
  <2> QED  BY <2>1, <2>2, <2>3
<1>5. Ordered(s)
  BY <1>1, <1>4 DEF Ordered
<1> QED  BY <1>5 DEF s

\* Forgetting the oldest snapshots keeps it.
LEMMA OrderedTrim ==
    ASSUME NEW sv \in Seq(Database), Ordered(sv), NEW max \in Nat \ {0}
    PROVE  Ordered(Trimmed(sv, max))
<1>1. CASE Len(sv) > max
  <2> DEFINE k == Len(sv) - max
             s == SubSeq(sv, k + 1, Len(sv))
  <2>1. Len(sv) \in Nat /\ k \in 1..Len(sv) /\ Len(sv) = max + k
    BY <1>1
  <2>2. Trimmed(sv, max) = s
    BY <1>1, <2>1 DEF Trimmed
  <2>3. Len(s) = max /\ \A i \in 1..max : s[i] = sv[i + k]
    BY <2>1
  <2> HIDE DEF s, k
  <2>4. \A i \in 1..max : i + k \in 1..Len(sv)
    BY <2>1
  <2>5. \A i, j \in 1..max : i <= j => i + k <= j + k
    BY <2>1
  <2>6. ASSUME NEW i \in 1..max, NEW j \in 1..max, i <= j, NEW x \in Index
        PROVE  s[i].nextId[x] <= s[j].nextId[x]
    <3>1. sv[i + k].nextId[x] <= sv[j + k].nextId[x]
      BY <2>4, <2>5, <2>6 DEF Ordered
    <3> QED  BY <2>3, <3>1
  <2> QED  BY <2>2, <2>3, <2>6 DEF Ordered
<1>2. CASE ~(Len(sv) > max)
  BY <1>2 DEF Trimmed
<1> QED  BY <1>1, <1>2

\* Dropping the newest one keeps it.
LEMMA OrderedPop ==
    ASSUME NEW sv \in Seq(Database), NEW st \in Seq(UndoState), NEW d,
           Chain(sv, st, d), st # << >>, Ordered(sv)
    PROVE  Ordered(Front(sv))
<1>1. Len(st) \in Nat \ {0} /\ Len(sv) = Len(st)
  BY DEF Chain
<1>2. Len(Front(sv)) = Len(st) - 1
  BY <1>1 DEF Front
<1>3. \A i \in 1..(Len(st) - 1) : Front(sv)[i] = sv[i] /\ i \in 1..Len(sv)
  BY <1>1 DEF Front
<1> QED  BY <1>2, <1>3 DEF Ordered

\* Every step keeps the order.
LEMMA NextOrdered == OrderedInv /\ [HNext]_hvars => Ordered(saved')
<1> SUFFICES ASSUME OrderedInv, [HNext]_hvars PROVE Ordered(saved')
  OBVIOUS
<1>0. /\ db \in Database /\ Chain(saved, stack, db) /\ Ordered(saved)
      /\ stack \in Seq(UndoState) /\ saved \in Seq(Database)
      /\ maxSize \in Nat \ {0} /\ Len(stack) \in Nat
  BY DEF OrderedInv, Inv, TypeOK
<1>1. CASE Recorded
  <2>1. CASE saved' = saved
    BY <1>0, <2>1
  <2>2. CASE saved' = <<db>>
    BY <1>0, <2>2 DEF Ordered, Database, Instance
  <2> QED  BY <1>1, <2>1, <2>2 DEF Recorded
<1>2. ASSUME NEW max \in Nat \ {0}, saved' = Append(Trimmed(saved, max), db)
      PROVE  Ordered(saved')
  <2>1. /\ Trimmed(stack, max) \in Seq(UndoState)
        /\ Trimmed(saved, max) \in Seq(Database)
        /\ Chain(Trimmed(saved, max), Trimmed(stack, max), db)
    BY <1>0, ChainTrim
  <2>2. Ordered(Trimmed(saved, max))
    BY <1>0, OrderedTrim
  <2> QED  BY <1>0, <1>2, <2>1, <2>2, OrderedPush
<1>3. ASSUME stack # << >>, saved' = Front(saved) PROVE Ordered(saved')
  BY <1>0, <1>3, OrderedPop
<1>4. CASE UNCHANGED saved
  BY <1>0, <1>4
<1>5. ASSUME sessions # << >> PROVE stack # << >>
  BY <1>5 DEF OrderedInv, Inv, TypeOK, SessionsOwnEntries
<1>6. CASE HStart
  BY <1>0, <1>2, <1>6 DEF HStart
<1>7. CASE HStartProposal
  <2>1. maxSize' \in Nat \ {0} /\ saved' = Append(Trimmed(saved, maxSize'), db)
    BY <1>0, <1>7 DEF HStartProposal, StartProposalSession
  <2> QED  BY <1>2, <2>1
<1>8. CASE HUndo \/ HMerge \/ HPopCommit
  <2>1. stack # << >> /\ saved' = Front(saved)
    BY <1>5, <1>8 DEF HUndo, HMerge, HPopCommit, Undo, Merge, PopCommit
  <2> QED  BY <1>3, <2>1
<1>9. CASE UNCHANGED hvars
  BY <1>4, <1>9 DEF hvars
<1> QED
  BY <1>1, <1>4, <1>6, <1>7, <1>8, <1>9
  DEF HNext, HCreate, HModify, HRemove

-----------------------------------------------------------------------------
(* The theorems.                                                           *)

\* The inductive invariant holds in every reachable state.
THEOREM Invariance == HSpec => []OrderedInv
<1>1. HInit => OrderedInv
  BY InitInv DEF OrderedInv, HInit, Ordered
<1>2. OrderedInv /\ [HNext]_hvars => OrderedInv'
  BY NextInv, NextOrdered DEF OrderedInv
<1> QED  BY <1>1, <1>2, PTL DEF HSpec

\* The variables keep their types: in particular every undo state holds a
\* value for each id it mentions.
THEOREM TypeCorrect == HSpec => []TypeOK
<1>1. OrderedInv => TypeOK
  BY DEF OrderedInv, Inv
<1> QED  BY <1>1, Invariance, PTL

\* start_undo_session() never trims the entry of a live session, and a
\* disabled history is empty.
THEOREM SessionsSafe == HSpec => []SessionsOwnEntries
<1>1. OrderedInv => SessionsOwnEntries
  BY DEF OrderedInv, Inv
<1> QED  BY <1>1, Invariance, PTL

\* undo() and pop_commit() never meet a missing or a duplicate object.
THEOREM UndoAlwaysApplies == HSpec => []UndoApplies
<1>1. ASSUME OrderedInv, NEW i \in 1..Len(stack), NEW id \in Id
      PROVE  /\ stack[i].oldValues[id] # None => After(i).objects[id] # None
             /\ id \in stack[i].newIds => After(i).objects[id] # None
             /\ stack[i].removed[id] # None => After(i).objects[id] = None
  <2>1. Link(saved[i], stack[i], After(i))
    BY <1>1 DEF OrderedInv, Inv, Chain, After
  <2> QED  BY <2>1 DEF Link
<1>2. OrderedInv => UndoApplies
  BY <1>1 DEF UndoApplies
<1> QED  BY <1>2, Invariance, PTL

\* The cases merge() asserts or assumes away never arise.
THEOREM MergeNeverMisaligned == HSpec => []MergeCausality
<1>1. ASSUME OrderedInv, NEW i \in 2..Len(stack), NEW id \in Id
      PROVE  /\ id \in stack[i].newIds =>
                  /\ id \notin stack[i - 1].newIds
                  /\ stack[i - 1].oldValues[id] = None
                  /\ stack[i - 1].removed[id] = None
             /\ stack[i].oldValues[id] # None => stack[i - 1].removed[id] = None
             /\ stack[i].removed[id] # None => stack[i - 1].removed[id] = None
  <2> DEFINE A == stack[i - 1]
             B == stack[i]
             b == saved[i - 1]
             c == saved[i]
             a == IF i = Len(stack) THEN db ELSE saved[i + 1]
  <2>1. /\ stack \in Seq(UndoState) /\ saved \in Seq(Database)
        /\ Len(stack) \in Nat /\ Len(saved) = Len(stack)
        /\ Chain(saved, stack, db)
    BY <1>1 DEF OrderedInv, Inv, TypeOK, Chain
  <2>2. i \in 1..Len(stack) /\ i - 1 \in 1..Len(stack) /\ i - 1 # Len(stack)
        /\ (i - 1) + 1 = i
    BY <2>1
  <2>3. b \in Database /\ c \in Database
    BY <2>1, <2>2
  <2>4. Link(b, A, c) /\ Link(c, B, a) /\ Fresh(b) /\ Fresh(c)
    BY <2>1, <2>2 DEF Chain
  <2> HIDE DEF A, B, a, b, c
  <2>5. id \in B.newIds =>
           id \notin A.newIds /\ A.oldValues[id] = None /\ A.removed[id] = None
    BY <2>3, <2>4, NewIsUnknownBelow
  <2>6. A.removed[id] # None => c.objects[id] = None
    BY <2>4 DEF Link
  <2>7. B.oldValues[id] # None \/ B.removed[id] # None => c.objects[id] # None
    BY <2>4 DEF Link, Rollback
  <2> QED  BY <2>5, <2>6, <2>7 DEF A, B
<1>2. OrderedInv => MergeCausality
  BY <1>1 DEF MergeCausality
<1> QED  BY <1>2, Invariance, PTL

\* An index never hands out the id of an object that exists, or that undoing
\* or popping blocks could bring back.
THEOREM FreshIds == HSpec => []IdsFresh
<1>1. ASSUME OrderedInv, NEW x \in Index, <<x, db.nextId[x]>> \in Id
      PROVE  /\ ~Exists(<<x, db.nextId[x]>>)
             /\ \A i \in 1..Len(saved) : saved[i].objects[<<x, db.nextId[x]>>] = None
  <2> DEFINE id == <<x, db.nextId[x]>>
             n == Len(saved)
  <2>1. /\ db \in Database /\ Fresh(db) /\ Chain(saved, stack, db)
        /\ Ordered(saved) /\ saved \in Seq(Database)
        /\ n \in Nat /\ Len(stack) = n
    BY <1>1 DEF OrderedInv, Inv, TypeOK, Chain
  <2>2. id \in Id /\ id[1] = x /\ id[2] = db.nextId[x] /\ db.nextId[x] \in Nat
    BY <1>1, <2>1 DEF Database, Instance
  <2>3. ~Exists(id)
    BY <2>1, <2>2 DEF Exists, Fresh
  <2>4. ASSUME NEW i \in 1..n PROVE saved[i].objects[id] = None
    <3>1. n \in 1..n /\ i <= n
      BY <2>1
    <3>2. saved[i] \in Database /\ saved[n] \in Database
      BY <2>1, <3>1
    <3>3. /\ saved[i].nextId[x] \in Nat /\ saved[n].nextId[x] \in Nat
          /\ saved[i].nextId[x] <= saved[n].nextId[x]
          /\ saved[n].nextId[x] <= db.nextId[x]
      <4>1. saved[i].nextId[x] \in Nat /\ saved[n].nextId[x] \in Nat
        BY <3>2 DEF Database, Instance
      <4>2. saved[i].nextId[x] <= saved[n].nextId[x]
        BY <2>1, <3>1 DEF Ordered
      <4>3. Link(saved[n], stack[n], db)
        BY <2>1, <3>1 DEF Chain
      <4> QED  BY <4>1, <4>2, <4>3 DEF Link
    <3>4. Fresh(saved[i])
      BY <2>1 DEF Chain
    <3> QED  BY <2>2, <3>3, <3>4 DEF Fresh
  <2> QED  BY <2>3, <2>4
<1>2. OrderedInv => IdsFresh
  BY <1>1 DEF IdsFresh
<1> QED  BY <1>2, Invariance, PTL

-----------------------------------------------------------------------------
(* The refinement.                                                         *)

\* A step that records a change is a Change of the store.
LEMMA RecordedChange ==
    ASSUME Inv, Inv', Recorded
    PROVE  Store!Change
<1>1. db' \in Database /\ saved \in Seq(Database)
  BY DEF Inv, TypeOK
<1>2. stack = << >> => saved = << >>
  BY <1>1 DEF Inv, Chain
<1> QED  BY <1>1, <1>2 DEF Recorded, Store!Change

\* Opening an entry after trimming is a Begin of the store.
LEMMA TrimmedBegin ==
    ASSUME Inv, NEW max \in Nat \ {0}, UNCHANGED db,
           saved' = Append(Trimmed(saved, max), db)
    PROVE  Store!Begin
<1> DEFINE n == Len(saved)
<1>1. saved \in Seq(Database) /\ n \in Nat
  BY DEF Inv, TypeOK
<1>2. CASE n > max
  <2>1. n - max + 1 \in 1..(n + 1)
    BY <1>1, <1>2
  <2>2. Trimmed(saved, max) = SubSeq(saved, n - max + 1, Len(saved))
    BY <1>2 DEF Trimmed
  <2> QED  BY <2>1, <2>2 DEF Store!Begin
<1>3. CASE ~(n > max)
  <2>1. 1 \in 1..(n + 1)
    BY <1>1
  <2>2. Trimmed(saved, max) = SubSeq(saved, 1, Len(saved))
    BY <1>1, <1>3 DEF Trimmed
  <2> QED  BY <2>1, <2>2 DEF Store!Begin
<1> QED  BY <1>2, <1>3

\* The undo history implements the store of snapshots: undo() and
\* pop_commit() bring the database back exactly to what it was when the entry
\* was opened, merge() keeps the changes and all older snapshots, and no other
\* step touches them.
THEOREM UndoRefinesStore == HSpec => UndoRestores
<1>1. HInit => Store!Init
  BY InitInv DEF Inv, TypeOK, HInit, Store!Init
<1>2. Inv /\ Inv' /\ [HNext]_hvars => [Store!Next]_(Store!vars)
  <2> SUFFICES ASSUME Inv, Inv', [HNext]_hvars
               PROVE  Store!Next \/ UNCHANGED <<db, saved>>
    BY DEF Store!vars
  <2>0. /\ stack \in Seq(UndoState) /\ saved \in Seq(Database)
        /\ Chain(saved, stack, db)
        /\ maxSize \in Nat \ {0} /\ Len(stack) \in Nat
        /\ Len(saved) = Len(stack)
    BY DEF Inv, TypeOK, Chain
  <2>1. CASE Recorded
    BY <2>1, RecordedChange DEF Store!Next
  <2>2. CASE HStart
    BY <2>0, <2>2, TrimmedBegin DEF HStart, StartSession, Store!Next
  <2>3. CASE HStartProposal
    <3>1. /\ maxSize' \in Nat \ {0} /\ UNCHANGED db
          /\ saved' = Append(Trimmed(saved, maxSize'), db)
      BY <2>0, <2>3 DEF HStartProposal, StartProposalSession
    <3> QED  BY <3>1, TrimmedBegin DEF Store!Next
  <2>4. ASSUME stack # << >>, saved' = Front(saved),
               db' = Rollback(db, Last(stack))
        PROVE  Store!Abort
    <3>1. Last(saved) = Rollback(db, Last(stack))
      BY <2>0, <2>4, ChainPop
    <3>2. saved # << >>
      BY <2>0, <2>4
    <3> QED  BY <2>4, <3>1, <3>2 DEF Store!Abort, Front, Last
  <2>5. ASSUME sessions # << >> PROVE stack # << >>
    BY <2>5 DEF Inv, TypeOK, SessionsOwnEntries
  <2>6. CASE HUndo
    BY <2>4, <2>5, <2>6 DEF HUndo, Undo, Store!Next
  <2>7. CASE HPopCommit
    BY <2>4, <2>7 DEF HPopCommit, PopCommit, Store!Next
  <2>8. CASE HMerge
    <3>1. saved' = Front(saved) /\ UNCHANGED db /\ stack # << >>
      BY <2>5, <2>8 DEF HMerge, Merge
    <3>2. saved # << >>
      BY <2>0, <3>1
    <3> QED  BY <3>1, <3>2 DEF Store!Keep, Store!Next, Front
  <2>9. CASE \/ (Commit \/ Disable \/ Enable) /\ UNCHANGED saved
             \/ \E n \in MaxSizes : SetMaxSize(n) /\ UNCHANGED saved
    BY <2>9 DEF Commit, Disable, Enable, SetMaxSize
  <2>10. CASE UNCHANGED hvars
    BY <2>10 DEF hvars, vars
  <2> QED
    BY <2>1, <2>2, <2>3, <2>6, <2>7, <2>8, <2>9, <2>10
    DEF HNext, HCreate, HModify, HRemove
<1>3. OrderedInv => Inv
  BY DEF OrderedInv
<1> QED  BY <1>1, <1>2, <1>3, Invariance, PTL DEF HSpec, UndoRestores, Store!Spec

=============================================================================
