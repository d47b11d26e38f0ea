--------------------------- MODULE BettingMarkets ----------------------------
(***************************************************************************)
(* Events, their betting market groups and the markets of a group: three   *)
(* state machines that drive each other (event_object.cpp,                 *)
(* betting_market_group_object.cpp, betting_market_object.cpp), the        *)
(* witnesses' operations on them, and what every block does at its end     *)
(* (db_bet.cpp, db_update.cpp).                                            *)
(*                                                                         *)
(* A transition runs its action and the entry of the new state before the  *)
(* machine's own state changes, and a handler that throws leaves behind    *)
(* what it did so far: the exception undoes nothing unless the whole       *)
(* transaction fails.  A handler is therefore a function from w to w, all  *)
(* objects together, and w.err is the exception that is being thrown.      *)
(* Objects are numbered in the order of their creation.                    *)
(***************************************************************************)
EXTENDS Integers, Sequences, SequencesExt

CONSTANTS
    MaxEvents, MaxGroups, MaxMarkets,   \* bounds: objects created
    NeverInPlay,                        \* groups created with never_in_play
    Moves                               \* <<market, group>> of market updates

Event == 1..MaxEvents
Group == 1..MaxGroups
Market == 1..MaxMarkets

VARIABLE w

Absent == {"none", "gone"}

EventState == {"upcoming", "frozen_upcoming", "in_progress",
               "frozen_in_progress", "finished", "canceled", "settled"}
GroupState == {"upcoming", "frozen_upcoming", "in_play", "frozen_in_play",
               "closed", "graded", "canceled", "settled"}
MarketState == {"unresolved", "frozen", "closed", "graded", "canceled", "settled"}

\* Of the bets of a market, only whether there may be some on the books, and
\* some delayed ones, matters here: matching and canceling bets one by one is
\* the business of BettingExchange.
World == [ev: [Event -> EventState \cup Absent], paid: [Event -> BOOLEAN],
          grp: [Group -> GroupState \cup Absent], of: [Group -> Event \cup {0}],
          mkt: [Market -> MarketState \cup Absent], in: [Market -> Group \cup {0}],
          res: [Market -> {"none", "win", "not_win", "cancel"}],
          bets: [Market -> SUBSET {"book", "delayed"}],
          err: {"none"}]

Init ==
    w = [ev |-> [e \in Event |-> "none"], paid |-> [e \in Event |-> FALSE],
         grp |-> [g \in Group |-> "none"], of |-> [g \in Group |-> 0],
         mkt |-> [m \in Market |-> "none"], in |-> [m \in Market |-> 0],
         res |-> [m \in Market |-> "none"], bets |-> [m \in Market |-> {}],
         err |-> "none"]

Throw(y, exception) == [y EXCEPT !.err = exception]
Caught(y) == IF y.err = "no_transition" THEN Throw(y, "none") ELSE y

\* A loop over objects in the order of their ids, left by an exception.
Each(Op(_, _), y, S) ==
    FoldLeft(LAMBDA z, i : IF z.err = "none" THEN Op(z, i) ELSE z,
             y, SetToSortSeq(S, <))

MarketsOf(y, g) == {m \in Market : y.mkt[m] \notin Absent /\ y.in[m] = g}
GroupsOf(y, e) == {g \in Group : y.grp[g] \notin Absent /\ y.of[g] = e}

-----------------------------------------------------------------------------
(* betting_market_object.                                                  *)

\* Mutant: a frozen market cannot be taken up again.
MarketRowsNoThaw ==
    ({"unresolved", "frozen"} \X {"closed", "canceled"})
      \cup {<<"unresolved", "frozen">>, <<"closed", "graded">>, <<"closed", "canceled">>,
            <<"graded", "settled">>, <<"graded", "canceled">>}

MarketRows ==
    ({"unresolved", "frozen"} \X {"closed", "canceled"})
      \cup {<<"unresolved", "frozen">>, <<"frozen", "unresolved">>,
            <<"closed", "graded">>, <<"closed", "canceled">>,
            <<"graded", "settled">>, <<"graded", "canceled">>}

\* The transition to a state: the events are named after the states.
MarketOn(y, m, to) ==
    IF <<y.mkt[m], to>> \notin MarketRows
    THEN IF to = "canceled" THEN y ELSE Throw(y, "no_transition")
    ELSE IF to = "canceled"
    THEN [y EXCEPT !.mkt[m] = to, !.res[m] = "cancel", !.bets[m] = {}]
    ELSE [y EXCEPT !.mkt[m] = to]

\* on_graded_event()
Graded(y, m, resolution) ==
    LET z == MarketOn(y, m, "graded")
    IN  IF z.err = "none" THEN [z EXCEPT !.res[m] = resolution] ELSE z

\* Mutant: the delayed bets are forgotten.
UnmatchedOnBooks(y, m) == [y EXCEPT !.bets[m] = @ \ {"book"}]

\* cancel_all_unmatched_bets()
Unmatched(y, m) == [y EXCEPT !.bets[m] = {}]

\* Mutant: the bets of frozen markets are placed too.
UnresolvedOrFrozen(y, m) == y.mkt[m] \in {"unresolved", "closed", "frozen"}

\* get_status() calls a closed market unresolved.
Unresolved(y, m) == y.mkt[m] \in {"unresolved", "closed"}

-----------------------------------------------------------------------------
(* What a group tells its event.                                           *)

Resolved == {"canceled", "settled"}
Closed == {"closed", "graded"} \cup Resolved

\* on_betting_market_group_closed()
GroupClosed(y, g) ==
    LET e == y.of[g]
    IN  CASE y.ev[e] \in Absent -> Throw(y, "missing")
          [] y.ev[e] \in {"finished", "canceled", "settled"} -> Throw(y, "no_transition")
          [] OTHER ->
               IF \A h \in GroupsOf(y, e) \ {g} : y.grp[h] \in Closed
               THEN [y EXCEPT !.ev[e] = "finished"] ELSE y

\* on_betting_market_group_resolved(): the last row of the table is tried
\* first, and a guard that fails on the way still records a payout.
GroupResolved(y, g, canceled) ==
    LET e == y.of[g]
        others == GroupsOf(y, e) \ {g}
        z == [y EXCEPT !.paid[e] = @ \/ ~canceled]
    IN  CASE y.ev[e] \in Absent -> Throw(y, "missing")
          [] y.ev[e] \in {"canceled", "settled"} -> Throw(y, "no_transition")
          [] y.ev[e] # "finished" -> z
          [] OTHER ->
               IF canceled /\ ~y.paid[e] /\ \A h \in others : y.grp[h] = "canceled"
               THEN [y EXCEPT !.ev[e] = "canceled"]
               ELSE IF \A h \in others : y.grp[h] \in Resolved
               THEN [z EXCEPT !.ev[e] = "settled"] ELSE z

-----------------------------------------------------------------------------
(* betting_market_group_object.                                            *)

Open == {"upcoming", "frozen_upcoming", "in_play", "frozen_in_play"}

\* The state that an event leads to: the same when the guard rejects it, "none"
\* when there is no row.
GroupTo(s, event, never) ==
    CASE event = "upcoming" /\ s = "frozen_upcoming" -> "upcoming"
      [] event = "in_play" /\ s = "upcoming" -> IF never THEN s ELSE "in_play"
      [] event = "in_play" /\ s = "frozen_upcoming" -> IF never THEN "upcoming" ELSE "in_play"
      [] event = "in_play" /\ s = "frozen_in_play" -> "in_play"
      [] event = "frozen" /\ s = "upcoming" -> "frozen_upcoming"
      [] event = "frozen" /\ s = "in_play" -> "frozen_in_play"
      [] event = "closed" /\ s \in Open -> "closed"
      [] event = "graded" /\ s = "closed" -> "graded"
      [] event = "settled" /\ s = "graded" -> "settled"
      [] event = "canceled" /\ s \in Open \cup {"closed", "graded"} -> "canceled"
      [] OTHER -> "none"

\* on_entry() of the group's states.
EnterGroup(y, g, to, byEvent) ==
    LET All(Op(_, _)) == Each(Op, y, MarketsOf(y, g))
    IN  CASE to = "upcoming" ->
               All(LAMBDA z, m : Caught(MarketOn(z, m, "unresolved")))
          [] to \in {"frozen_upcoming", "frozen_in_play"} ->
               All(LAMBDA z, m : MarketOn(z, m, "frozen"))
          [] to = "in_play" ->
               All(LAMBDA z, m : Caught(MarketOn(Unmatched(z, m), m, "unresolved")))
          [] to = "closed" ->
               LET z == All(LAMBDA v, m : MarketOn(Unmatched(v, m), m, "closed"))
               IN  IF z.err # "none" \/ byEvent THEN z ELSE GroupClosed(z, g)
          [] to = "settled" ->
               LET z == All(LAMBDA v, m : MarketOn(v, m, "settled"))
               IN  IF z.err # "none" THEN z ELSE GroupResolved(z, g, FALSE)
          [] to = "canceled" ->
               LET z == All(LAMBDA v, m : MarketOn(v, m, "canceled"))
               IN  IF byEvent THEN z ELSE GroupResolved(z, g, TRUE)
          [] OTHER -> y

GroupOn(y, g, event, byEvent) ==
    LET to == GroupTo(y.grp[g], event, g \in NeverInPlay)
        z == EnterGroup(y, g, to, byEvent)
    IN  IF to = "none" THEN IF event = "canceled" THEN y ELSE Throw(y, "no_transition")
        ELSE IF to = y.grp[g] THEN y
        ELSE IF z.err # "none" THEN z
        ELSE [z EXCEPT !.grp[g] = to]

-----------------------------------------------------------------------------
(* event_object.                                                           *)

Live == {"upcoming", "frozen_upcoming", "in_progress", "frozen_in_progress"}

EventTo(s, event) ==
    CASE event = "upcoming" /\ s = "frozen_upcoming" -> "upcoming"
      [] event = "in_progress" /\ s \in Live \ {"in_progress"} -> "in_progress"
      [] event = "frozen" /\ s = "upcoming" -> "frozen_upcoming"
      [] event = "frozen" /\ s = "in_progress" -> "frozen_in_progress"
      [] event = "finished" /\ s \in Live -> "finished"
      [] event = "canceled" /\ s \in Live \cup {"finished"} -> "canceled"
      [] OTHER -> "none"

\* Mutant: groups are told that the event has finished, which they ignore.
ForGroupsSame(event) == IF event = "in_progress" THEN "in_play" ELSE event

\* The event that each of its groups gets in turn.
ForGroups(event) ==
    CASE event = "in_progress" -> "in_play" [] event = "finished" -> "closed"
      [] OTHER -> event

\* A group that has no transition is passed over.
EventOn(y, e, event) ==
    LET to == EventTo(y.ev[e], event)
        z == Each(LAMBDA v, g : Caught(GroupOn(v, g, ForGroups(event), TRUE)),
                  y, GroupsOf(y, e))
    IN  IF to = "none" THEN IF event = "canceled" THEN y ELSE Throw(y, "no_transition")
        ELSE IF z.err # "none" THEN z ELSE [z EXCEPT !.ev[e] = to]

-----------------------------------------------------------------------------
(* The operations of a block's transactions.  An operation that throws     *)
(* fails with its transaction and changes nothing.                         *)

Do(y) == y.err = "none" /\ w' = y

NextId(f, S) == {i \in S : f[i] = "none" /\ \A j \in S : j < i => f[j] # "none"}

EventCreate ==
    \E e \in NextId(w.ev, Event) : w' = [w EXCEPT !.ev[e] = "upcoming"]

\* betting_market_group_create_evaluator: the event has to exist.
GroupCreate ==
    \E g \in NextId(w.grp, Group), e \in Event :
        /\ w.ev[e] \notin Absent
        /\ w' = [w EXCEPT !.grp[g] = "upcoming", !.of[g] = e]

\* betting_market_create_evaluator: the group has to exist.
MarketCreate ==
    \E m \in NextId(w.mkt, Market), g \in Group :
        /\ w.grp[g] \notin Absent
        /\ w' = [w EXCEPT !.mkt[m] = "unresolved", !.in[m] = g]

\* betting_market_update_evaluator
MarketUpdate(m, g) ==
    /\ w.mkt[m] \notin Absent /\ w.grp[g] \notin Absent
    /\ w' = [w EXCEPT !.in[m] = g]

\* event_update_evaluator, event_update_status_evaluator
EventUpdate(e, status) ==
    /\ w.ev[e] \notin Absent
    /\ Do(EventOn(w, e, status))

GroupStatus(s) ==
    IF s \in {"frozen_upcoming", "frozen_in_play"} THEN "frozen" ELSE s

\* betting_market_group_update_evaluator.  Delayed bets are placed when a group
\* leaves in_play for a state that takes bets, which no row allows.
GroupUpdate(g, status) ==
    /\ w.grp[g] \notin Absent
    /\ GroupStatus(w.grp[g]) # status
    /\ Do(GroupOn(w, g, status, FALSE))

\* validate_betting_market_group_resolutions() and resolve_betting_market_group():
\* one market wins, or all are canceled.
GroupResolve(g, winner) ==
    /\ w.grp[g] \notin Absent
    /\ winner \in MarketsOf(w, g)
    /\ LET z == Each(LAMBDA v, m : Graded(v, m, IF m = winner THEN "win" ELSE "not_win"),
                     w, MarketsOf(w, g))
       IN  Do(IF z.err = "none" THEN GroupOn(z, g, "graded", FALSE) ELSE z)

\* betting_market_group_cancel_unmatched_bets_evaluator
CancelUnmatched(g) ==
    /\ w.grp[g] \notin Absent
    /\ w' = Each(Unmatched, w, MarketsOf(w, g))

\* bet_place_evaluator: the group's status decides, and not the market's.
BetPlace(m) ==
    /\ w.mkt[m] \notin Absent
    /\ GroupStatus(w.grp[w.in[m]]) \notin {"frozen", "closed", "graded", "settled"}
    /\ w' = [w EXCEPT !.bets[m] = @ \cup
                {IF w.grp[w.in[m]] = "in_play" THEN "delayed" ELSE "book"}]

-----------------------------------------------------------------------------
(* The end of a block.                                                     *)

\* place_delayed_bets(), for the markets whose delayed bets are due.
PlaceDelayed(y, due) ==
    [y EXCEPT !.bets = [m \in Market |->
       IF m \in due /\ Unresolved(y, m) THEN @[m] \cup {"book"} ELSE @[m]]]

\* settle_betting_market_group(): asserts that every market has a resolution.
Settle(y, g) ==
    LET ms == MarketsOf(y, g)
        paid == [y EXCEPT !.bets = [m \in Market |-> IF m \in ms THEN {} ELSE @[m]]]
        z == IF y.grp[g] = "canceled" THEN paid ELSE GroupOn(paid, g, "settled", FALSE)
    IN  IF \E m \in ms : y.res[m] = "none" THEN Throw(y, "no resolution")
        ELSE IF z.err # "none" THEN z
        ELSE [z EXCEPT !.grp[g] = "gone",
                       !.mkt = [m \in Market |-> IF m \in ms THEN "gone" ELSE @[m]]]

\* remove_completed_events()
EventsRemoved(y) ==
    [y EXCEPT !.ev = [e \in Event |->
       IF @[e] \in {"canceled", "settled"} THEN "gone" ELSE @[e]]]

\* Mutant: only canceled groups are looked for.
DueCanceled(graded) == {g \in Group : w.grp[g] = "canceled"}

\* Canceled groups are settled in the block that cancels them, graded ones in
\* the order of their settling times.
Due(graded) == graded \cup {g \in Group : w.grp[g] = "canceled"}

EndBlock(delayed, graded) ==
    \E order \in SetToSeqs(Due(graded)) :
        LET y == FoldLeft(LAMBDA z, g : IF z.err = "none" THEN Settle(z, g) ELSE z,
                          PlaceDelayed(w, delayed), order)
        IN  Do(IF y.err = "none" THEN EventsRemoved(y) ELSE y)

DelayedMarkets == {m \in Market : "delayed" \in w.bets[m]}
GradedGroups == {g \in Group : w.grp[g] = "graded"}

Next ==
    \/ EventCreate
    \/ GroupCreate
    \/ MarketCreate
    \/ \E mv \in Moves : MarketUpdate(mv[1], mv[2])
    \/ \E e \in Event, s \in {"upcoming", "in_progress", "frozen", "finished", "canceled"} :
         EventUpdate(e, s)
    \/ \E g \in Group, s \in {"upcoming", "in_play", "frozen", "closed", "canceled"} :
         GroupUpdate(g, s)
    \/ \E g \in Group, m \in Market : GroupResolve(g, m)
    \/ \E g \in Group : CancelUnmatched(g)
    \/ \E m \in Market : BetPlace(m)
    \/ \E d \in SUBSET DelayedMarkets, s \in SUBSET GradedGroups : EndBlock(d, s)

Spec == Init /\ [][Next]_w

\* Blocks keep coming, and time passes: the settling delay of every graded group
\* ends.
FairSpec == Spec /\ WF_w(EndBlock(DelayedMarkets, GradedGroups))

-----------------------------------------------------------------------------
(* Properties.                                                             *)

\* The world is well formed, and no exception outlives its transaction.
TypeOK == w \in World

\* A market is where its group has taken it, whichever way the group came there:
\* by an operation of its own, by its event, or through an exception that the
\* event ignored.  A market created late starts unresolved.
MarketsFollowGroup ==
    \A g \in Group : \A m \in MarketsOf(w, g) :
        w.mkt[m] \in {"unresolved"} \cup
            CASE w.grp[g] \in {"frozen_upcoming", "frozen_in_play"} -> {"frozen"}
              [] w.grp[g] \in {"upcoming", "in_play"} -> {}
              [] OTHER -> {w.grp[g]}

\* Once a group is closed, none of its markets holds a bet that could still be
\* matched: those on the books and the delayed ones are all returned.
NoBetsOnceClosed ==
    \A g \in Group : w.grp[g] \in {"closed", "graded"} =>
        \A m \in MarketsOf(w, g) : w.bets[m] = {}

\* place_delayed_bets() looks at the market's status only.  It never places the
\* bets of a market whose group does not take bets at that moment.
PlacedOnlyInPlay ==
    \A m \in Market : "delayed" \in w.bets[m] /\ Unresolved(w, m) => w.grp[w.in[m]] = "in_play"

\* "it's possible a betting market group has already been closed or canceled, in
\* which case we can't freeze the group", and no other reason as long as markets
\* are not moved between groups: an event that is frozen, finished or
\* canceled leaves no group behind that it could have taken along.
EventReachesGroups ==
    [][\A e \in Event : \A g \in GroupsOf(w, e) :
         LET became(s) == w.ev[e] \notin s /\ w'.ev[e] \in s
         IN  /\ became({"frozen_upcoming", "frozen_in_progress"}) =>
                  GroupStatus(w'.grp[g]) \in {"frozen"} \cup Closed
             /\ became({"finished"}) => w'.grp[g] \in Closed \cup {"gone"}
             /\ became({"canceled"}) => w'.grp[g] \in Resolved \cup {"gone"}]_w

\* A block cannot be applied while a group that is to be settled has a market
\* without a resolution, or a graded group one that was moved there ungraded.
Unsettled(g) ==
    \E m \in MarketsOf(w, g) :
        \/ w.res[m] = "none"
        \/ w.grp[g] = "graded" /\ w.mkt[m] # "graded"

Blocked == \E g \in Group : w.grp[g] \in {"graded", "canceled"} /\ Unsettled(g)

\* A graded group is eventually paid out and removed, unless no block that is due
\* to settle some group can be applied.
GradedSettles ==
    \A g \in Group : (w.grp[g] = "graded") ~> (w.grp[g] = "gone" \/ Blocked)
=============================================================================
