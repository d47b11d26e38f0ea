----------------------------- MODULE Tournament -----------------------------
(***************************************************************************)
(* A rock-paper-scissors tournament: registration against a prize pool,    *)
(* the bracket of matches, the games of a match with their commit and      *)
(* reveal moves, the timeouts that force them along, and the prize.  The   *)
(* three Boost.MSM machines (tournament, match, game) call each other      *)
(* inside one operation, so the state is one record and every handler is   *)
(* an operator from a state to a state.                                    *)
(*                                                                         *)
(* A match keeps only its current game: a finished game is never read      *)
(* again.  The winners of past games are kept as the number of wins of     *)
(* each player, the number of ties and the winner of the last game won,    *)
(* which is all that the code computes from them.  A commit holds the      *)
(* gesture that the hash binds: a reveal is accepted only for it.          *)
(***************************************************************************)
EXTENDS Integers, Sequences, FiniteSets, SequencesExt, FiniteSetsExt

CONSTANTS
  Player,           \* accounts that may register, as positive numbers
  Payer,            \* accounts that may pay a buy-in
  NumberOfPlayers,
  NumberOfWins,
  BuyIn,
  Funds,            \* what each payer owns at the start
  RakePercent,
  Insurance,        \* insurance_enabled
  Gestures,         \* gestures thrown, out of 0 .. 2
  Movers,           \* the players who make moves at all
  Seeds             \* orders that the random shuffle of the players may give

VARIABLE w

ASSUME TournamentAssumption ==
  /\ Player \subseteq Nat \ {0}
  /\ NumberOfPlayers \in 2 .. Cardinality(Player)
  /\ NumberOfWins \in Nat \ {0}
  /\ RakePercent \in 0 .. 100
  /\ Gestures \subseteq 0 .. 2
  /\ \A s \in Seeds : ToSet(s) = 1 .. NumberOfPlayers /\ IsInjective(s)

None == -1
Nobody == 0    \* account_id_type(), the default account id
Account == Player \cup Payer

Game == [state : {"commit", "reveal"},
         commit_moves : [1 .. 2 -> Gestures \cup {None}],
         reveal_moves : [1 .. 2 -> Gestures \cup {None}]]

NewGame == [state |-> "commit", commit_moves |-> <<None, None>>, reveal_moves |-> <<None, None>>]

EmptyMatch == [state |-> "waiting", players |-> <<>>, wins |-> <<>>, ties |-> 0,
               games |-> 0, last |-> None, winners |-> {}, game |-> NewGame]

Init == w = [state |-> "accepting_registrations", players |-> {}, payers |-> [a \in Account |-> 0],
             payer_of |-> [p \in Player |-> None], prize_pool |-> 0, matches |-> <<>>,
             bal |-> [a \in Account |-> IF a \in Payer THEN Funds ELSE 0], rake |-> 0]
-----------------------------------------------------------------------------
(* Registration *)

\* Mutant: the leaver is repaid and dropped, but the payer's line keeps the buy-in.
UnregisteredKeepingPayment(p) ==
  [w EXCEPT !.bal[w.payer_of[p]] = @ + BuyIn, !.players = @ \ {p}, !.payer_of[p] = None,
            !.prize_pool = @ - BuyIn]

Registered(p, a) ==
  [w EXCEPT !.bal[a] = @ - BuyIn, !.payers[a] = @ + BuyIn, !.players = @ \cup {p},
            !.payer_of[p] = a, !.prize_pool = @ + BuyIn,
            !.state = IF Cardinality(w.players) = NumberOfPlayers - 1 THEN "awaiting_start" ELSE @]

Unregistered(p) ==
  [w EXCEPT !.bal[w.payer_of[p]] = @ + BuyIn, !.payers[w.payer_of[p]] = @ - BuyIn,
            !.players = @ \ {p}, !.payer_of[p] = None, !.prize_pool = @ - BuyIn]

Join(p, a) ==
  /\ w.state = "accepting_registrations"
  /\ Cardinality(w.players) < NumberOfPlayers
  /\ p \notin w.players
  /\ w.bal[a] >= BuyIn
  /\ w' = Registered(p, a)

Leave(p) ==
  /\ p \in w.players
  /\ w.state = "accepting_registrations"
  /\ w' = Unregistered(p)

Expired(x) ==
  [x EXCEPT !.state = "registration_period_expired",
            !.bal = [a \in Account |-> @[a] + x.payers[a]]]
-----------------------------------------------------------------------------
(* The match machine.  "initiate_match" completes a match that lacks an    *)
(* opponent at once and tells nobody; otherwise its first game starts.     *)

Initiated(m) ==
  LET ready == [m EXCEPT !.wins = [i \in DOMAIN m.players |-> 0]]
  IN  IF Len(m.players) < 2
      THEN [ready EXCEPT !.state = "complete", !.winners = ToSet(m.players)]
      ELSE [ready EXCEPT !.state = "in_progress", !.games = 1]

WonBy(m, won) == [i \in DOMAIN m.players |-> m.wins[i] + (IF m.players[i] \in won THEN 1 ELSE 0)]

WasFinalGame(m, won) ==
  \/ m.games >= NumberOfWins * 4
  \/ \E i \in DOMAIN m.players : WonBy(m, won)[i] >= NumberOfWins

RecordedGame(m, won) ==
  [m EXCEPT !.ties = IF won = {} THEN @ + 1 ELSE @,
            !.wins = WonBy(m, won),
            !.last = IF won = {} THEN @ ELSE CHOOSE p \in won : TRUE]

\* The scan of scores_by_player, in the order of the account ids.  The scores
\* count as different only when the higher one is met after the lower one.
MatchWinner(m) ==
  LET first  == IF m.players[1] < m.players[2] THEN 1 ELSE 2
      second == 3 - first
      high   == IF m.wins[second] > m.wins[first] THEN second ELSE first
      same   == ~(m.wins[first] > 0 /\ high = second)
  IN  IF m.wins[high] = 0 THEN m.players[1]
      ELSE IF same THEN m.last ELSE m.players[high]

CompleteMatch(m) ==
  LET win == MatchWinner(m)
  IN  [m EXCEPT !.state = "complete", !.winners = {win}, !.game = NewGame,
                !.wins = IF m.last # None THEN @
                         ELSE [i \in DOMAIN @ |-> IF i = 1 THEN @[i] + 1 ELSE @[i]]]
-----------------------------------------------------------------------------
(* The tournament machine: matches are numbered from 0, round by round,    *)
(* and match i is matches[i + 1].                                          *)

Rounds == CHOOSE r \in 1 .. NumberOfPlayers : 2 ^ (r - 1) < NumberOfPlayers /\ NumberOfPlayers <= 2 ^ r
NumMatches == 2 ^ Rounds - 1
InFirstRound == 2 ^ (Rounds - 1)
NextIndex(i) == (i + NumMatches + 1) \div 2
SlotInNext(i) == (i + NumMatches + 1) % 2
OtherIndex(i) == NumMatches - ((NumMatches - NextIndex(i)) * 2 + SlotInNext(i))

\* reverse_bits(k ^ (k >> 1)) >> (32 - num_rounds)
Position(k) ==
  MapThenSumSet(LAMBDA b : ((k \div 2 ^ b + k \div 2 ^ (b + 1)) % 2) * 2 ^ (Rounds - 1 - b), 0 .. Rounds - 1)

FirstRoundPlayers(order, i) ==
  LET at(p) == {k \in 0 .. NumberOfPlayers - 1 : Position(k) = p}
      paired(p) == IF at(p) = {} THEN Nobody ELSE order[Max(at(p)) + 1]
  IN  IF paired(2 * i + 1) = Nobody THEN <<paired(2 * i)>> ELSE <<paired(2 * i), paired(2 * i + 1)>>

\* Mutant: a bye is fed into the next match only when somebody waits there.
ByesFedLater(ms, i) ==
  LET n == NextIndex(i) + 1
      fed == [ms[n] EXCEPT !.players = Append(@, ms[i + 1].players[1])]
  IN  IF Len(ms[i + 1].players) # 1 \/ Len(fed.players) = 1 THEN ms ELSE [ms EXCEPT ![n] = Initiated(fed)]

ByesFed(ms, i) ==
  LET n == NextIndex(i) + 1
      fed == [ms[n] EXCEPT !.players = Append(@, ms[i + 1].players[1])]
  IN  IF Len(ms[i + 1].players) # 1 THEN ms
      ELSE [ms EXCEPT ![n] = IF Len(fed.players) > 1 THEN Initiated(fed) ELSE fed]

Started(x, seed) ==
  LET ids == SetToSortSeq(x.players, <)
      order == [k \in 1 .. NumberOfPlayers |-> ids[seed[k]]]
      ms == [n \in 1 .. NumMatches |->
               IF n > InFirstRound THEN EmptyMatch
               ELSE Initiated([EmptyMatch EXCEPT !.players = FirstRoundPlayers(order, n - 1)])]
  IN  [x EXCEPT !.state = "in_progress",
                !.matches = FoldLeft(ByesFed, ms, [n \in 1 .. InFirstRound |-> n - 1])]

\* Mutant: the winner always goes behind the players already there.
WinnerAppended(next, win, slot) == Append(next.players, win)

WinnerPlaced(next, win, slot) ==
  IF slot = 0 THEN <<win>> \o next.players ELSE Append(next.players, win)

Concluded(x, win) ==
  LET rake == (x.prize_pool * RakePercent) \div 100
  IN  [x EXCEPT !.state = "concluded", !.bal[win] = @ + x.prize_pool - rake, !.rake = @ + rake]

\* Mutant: the next match is never started here.
MatchCompletedOnly(x, i) ==
  LET n == NextIndex(i) + 1
      win == CHOOSE p \in x.matches[i + 1].winners : TRUE
  IN  IF i = NumMatches - 1 THEN Concluded(x, win)
      ELSE [x EXCEPT !.matches[n].players = WinnerPlaced(x.matches[n], win, SlotInNext(i))]

MatchCompleted(x, i) ==
  LET n == NextIndex(i) + 1
      win == CHOOSE p \in x.matches[i + 1].winners : TRUE
      fed == [x.matches[n] EXCEPT !.players = WinnerPlaced(x.matches[n], win, SlotInNext(i))]
  IN  IF i = NumMatches - 1 THEN Concluded(x, win)
      ELSE [x EXCEPT !.matches[n] = IF x.matches[OtherIndex(i) + 1].state = "complete"
                                    THEN Initiated(fed) ELSE fed]

GameComplete(x, i, won) ==
  LET m == x.matches[i + 1]
      rec == RecordedGame(m, won)
  IN  IF WasFinalGame(m, won)
      THEN MatchCompleted([x EXCEPT !.matches[i + 1] = CompleteMatch(rec)], i)
      ELSE [x EXCEPT !.matches[i + 1] = [rec EXCEPT !.games = @ + 1, !.game = NewGame]]
-----------------------------------------------------------------------------
(* The game machine *)

AutomaticMoves(g, r) ==
  LET unrevealed == g.reveal_moves = <<None, None>>
  IN  [g EXCEPT !.reveal_moves = [k \in 1 .. 2 |->
         IF Insurance /\ (g.commit_moves[k] = None \/ unrevealed) THEN r[k] ELSE @[k]]]

GameWinner(g) ==
  LET a == g.reveal_moves[1]
      b == g.reveal_moves[2]
  IN  IF a = b THEN {}
      ELSE IF b = None THEN {1}
      ELSE IF a = None THEN {2}
      ELSE {((((a - b + 3) % 3) + 1) % 2) + 1}

DetermineWinner(x, i, g) ==
  GameComplete(x, i, {x.matches[i + 1].players[k] : k \in GameWinner(g)})

OnMove(x, i, g, r) ==
  IF g.state = "reveal" /\ \A k \in 1 .. 2 : g.commit_moves[k] # None => g.reveal_moves[k] # None
  THEN DetermineWinner(x, i, AutomaticMoves(g, r))
  ELSE [x EXCEPT !.matches[i + 1].game = g]

OnTimeout(x, i, r) ==
  LET g == x.matches[i + 1].game
  IN  IF g.state = "commit" /\ g.commit_moves # <<None, None>>
      THEN [x EXCEPT !.matches[i + 1].game.state = "reveal"]
      ELSE DetermineWinner(x, i, AutomaticMoves(g, r))

\* What get_random_bits may give the two players, where it is asked at all.
Random == IF Insurance THEN Gestures \X Gestures ELSE {<<0, 0>>}

Playing(x) == {i \in 0 .. Len(x.matches) - 1 : x.matches[i + 1].state = "in_progress"}

\* evaluate_move_operation and on_move for a commit by player number k of match i.
Commit(i, k, gesture) ==
  LET g == w.matches[i + 1].game
      c == [g EXCEPT !.commit_moves[k] = gesture]
  IN  /\ g.state = "commit"
      /\ g.commit_moves[k] = None
      /\ w' = OnMove(w, i, IF g.commit_moves[3 - k] # None THEN [c EXCEPT !.state = "reveal"] ELSE c, <<0, 0>>)

\* A reveal is taken again from a player who has revealed already, to no effect.
Reveal(i, k, r) ==
  LET g == w.matches[i + 1].game
  IN  /\ g.state = "reveal"
      /\ g.commit_moves[k] # None
      /\ w' = OnMove(w, i, [g EXCEPT !.reveal_moves[k] = g.commit_moves[k]], r)

Move == \E i \in Playing(w), k \in 1 .. 2 :
          /\ w.matches[i + 1].players[k] \in Movers
          /\ \/ \E gesture \in Gestures : Commit(i, k, gesture)
             \/ \E r \in Random : Reveal(i, k, r)
-----------------------------------------------------------------------------
(* update_tournaments, at the end of every block.  Time is abstract:       *)
(* expired and arrived say whether the registration deadline and the start *)
(* time have come, late whose game has run out of time (None: nobody's).   *)
(* A block in which several games run out of time is several such steps.   *)

RoundOf(n) == CHOOSE k \in 0 .. Rounds - 1 :
                NumMatches - NumMatches \div 2 ^ k <= n /\ n < NumMatches - NumMatches \div 2 ^ (k + 1)

\* check_for_new_matches_to_start: the match that is given the winners is the
\* left one of the two that have been won, as in the code.
CheckForNewMatches(x) ==
  LET open == {i \in 0 .. NumMatches - 1 : x.matches[i + 1].state # "complete"}
      from == Min(open)
      left(i) == (NumMatches - 1) - ((NumMatches - 1 - i) * 2 + 2)
      lefts == {left(i) + 1 : i \in {j \in 0 .. NumMatches - 1 : RoundOf(j) = RoundOf(from)}}
      given(n) == SetToSortSeq(x.matches[n].winners, <) \o SetToSortSeq(x.matches[n + 1].winners, <)
  IN  IF open = {} \/ RoundOf(from) = 0 \/ x.matches[from + 1].state # "waiting" THEN x
      ELSE [x EXCEPT !.matches = [n \in DOMAIN @ |->
                                    IF n \in lefts THEN [@[n] EXCEPT !.players = given(n)] ELSE @[n]]]

UpdateTournaments(x, expired, arrived, seed, late, r) ==
  LET a == IF expired /\ x.state = "accepting_registrations" THEN Expired(x) ELSE x
      b == IF arrived /\ a.state = "awaiting_start" THEN Started(a, seed) ELSE a
      c == IF b.state = "in_progress" THEN CheckForNewMatches(b) ELSE b
  IN  IF late \in Playing(c) THEN OnTimeout(c, late, r) ELSE c

EndBlock(expired, arrived, late) ==
  \E seed \in IF w.state = "awaiting_start" THEN Seeds ELSE {<<>>}, r \in Random :
     w' = UpdateTournaments(w, expired, arrived, seed, late, r)

Next ==
  \/ \E p \in Player, a \in Payer : Join(p, a)
  \/ \E p \in Player : Leave(p)
  \/ Move
  \/ \E expired, arrived \in BOOLEAN, late \in Playing(w) \cup {None} : EndBlock(expired, arrived, late)

Spec == Init /\ [][Next]_w

\* Blocks keep coming and their time passes, so every deadline is met in the end.
FairSpec ==
  /\ Spec
  /\ WF_w(EndBlock(TRUE, TRUE, None))
  /\ \A i \in 0 .. NumMatches - 1 : WF_w(i \in Playing(w) /\ EndBlock(TRUE, TRUE, i))
-----------------------------------------------------------------------------
(* What is checked *)

Match == [state : {"waiting", "in_progress", "complete"},
          players : UNION {[1 .. n -> Player] : n \in 0 .. 2},
          wins : UNION {[1 .. n -> 0 .. NumberOfWins] : n \in 0 .. 2},
          ties : 0 .. 4 * NumberOfWins, games : 0 .. 4 * NumberOfWins,
          last : Player \cup {None}, winners : SUBSET Player, game : Game]

\* A match never has more than two players nor more than four times the games
\* that a win takes, whatever the games bring (was_final_game, on_entry of in_progress).
TypeOK ==
  /\ w.state \in {"accepting_registrations", "awaiting_start", "in_progress",
                  "registration_period_expired", "concluded"}
  /\ w.players \subseteq Player
  /\ w.payers \in [Account -> Nat]
  /\ w.payer_of \in [Player -> Account \cup {None}]
  /\ w.matches \in Seq(Match)
  /\ w.bal \in [Account -> Nat]
  /\ {w.prize_pool, w.rake} \subseteq Nat

Held == IF w.state \in {"registration_period_expired", "concluded"} THEN 0 ELSE w.prize_pool

\* Registering, leaving, canceling and paying the prize move the buy-ins without
\* making or losing any, and the pool is at all times what the payers' lines add
\* up to (the assertion on entering "concluded", and the refund of every line).
PoolConserved ==
  /\ MapThenSumSet(LAMBDA a : w.payers[a], Account) = w.prize_pool
  /\ MapThenSumSet(LAMBDA a : w.bal[a], Account) + w.rake + Held = Cardinality(Payer) * Funds

Numbered == 0 .. Len(w.matches) - 1
In(i) == ToSet(w.matches[i + 1].players)
Done(i) == w.matches[i + 1].state = "complete"

\* While the tournament runs every registered player either sits in exactly one
\* match that is not over or has lost exactly one: byes, winners fed into the next
\* match and matches of several rounds at once never duplicate or drop anybody.
EachPlayerOnce ==
  w.state = "in_progress" =>
    \A p \in w.players :
      Cardinality({i \in Numbered : p \in In(i) /\ (~Done(i) \/ p \notin w.matches[i + 1].winners)}) = 1

\* A match of a later round is played by the winners of the two matches that feed
\* it, the winner of the left one first, in whatever order these two ended
\* ("we want to feed the winner of this match into the correct slot").
FedByWinners ==
  \A i \in Numbered : i >= InFirstRound /\ w.matches[i + 1].state # "waiting" =>
    \E l, r \in Numbered :
      /\ NextIndex(l) = i /\ SlotInNext(l) = 0
      /\ NextIndex(r) = i /\ SlotInNext(r) = 1
      /\ Done(l) /\ Done(r)
      /\ w.matches[l + 1].winners = {w.matches[i + 1].players[1]}
      /\ w.matches[r + 1].winners = {w.matches[i + 1].players[2]}

\* A match that is over is not touched any more: the sweep over the running
\* tournaments in every block (check_for_new_matches_to_start) finds nothing to do,
\* since a match starts the moment that both matches before it are over.
MatchesStand ==
  [][\A i \in Numbered : Done(i) => w'.matches[i + 1] = w.matches[i + 1]]_w

\* Every tournament is canceled or concluded in the end, even when players stop
\* moving or only tie: timeouts end the games and the limit on games the matches.
TournamentEnds == <>(w.state \in {"registration_period_expired", "concluded"})
=============================================================================
