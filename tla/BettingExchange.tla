-------------------------- MODULE BettingExchange ----------------------------
(***************************************************************************)
(* The money of one betting market group: bets placed, matched, delayed    *)
(* while the event is in play, canceled, and paid out when the group is    *)
(* settled (betting_market_evaluator.cpp, db_bet.cpp, db_update.cpp,       *)
(* affiliate_payout.cpp).  A frozen group is modelled in BettingMarkets.   *)
(***************************************************************************)
EXTENDS BetMatching

CONSTANTS
    Odds, Amounts,      \* the odds and amounts bets are placed with
    Funds,              \* the balances to begin with
    LiveDelay,          \* whether live_betting_delay_time is positive
    Percent,            \* GRAPHENE_100_PERCENT
    RakeFee,            \* betting_rake_fee_percentage
    Affiliates,         \* who shares in the rake of an account, and how
    MaxBets             \* bound: bets placed

\* GRAPHENE_BETTING_MIN_MULTIPLIER is above the precision, and a bet with no
\* amount is refused.
ASSUME BetAssumption ==
    /\ IsFiniteSet(Account) /\ IsFiniteSet(Market)
    /\ Odds \subseteq Nat /\ \A o \in Odds : o > Precision
    /\ Amounts \subseteq Nat \ {0}
    /\ Funds \in [Account -> Nat]

\* "sum of weights must equal 100%" (affiliate_reward_distribution::validate()).
ASSUME RakeAssumption ==
    /\ Percent \in Nat \ {0} /\ RakeFee \in 0..Percent
    /\ \A a \in Account :
         /\ Affiliates[a] \in Seq([account: Account, share: 1..Percent])
         /\ Affiliates[a] # << >> =>
              SumFunction([i \in DOMAIN Affiliates[a] |-> Affiliates[a][i].share]) = Percent

VARIABLES
    x,          \* balances, unmatched bets and positions
    house,      \* the dividend distribution account, which gets the rake
    group,      \* the status of the group
    resolution, \* the resolutions published for its markets
    placed      \* how many bets were placed

vars == <<x, house, group, resolution, placed>>

Bet == [bettor: Account, market: Market, amount: Nat, odds: Odds,
        side: {"back", "lay"}, delayed: BOOLEAN]

Init ==
    /\ x = [bal |-> Funds, bets |-> << >>,
            pos |-> [a \in Account |-> [m \in Market |-> NoPosition]]]
    /\ house = 0
    /\ group = "upcoming"
    /\ resolution = [m \in Market |-> "none"]
    /\ placed = 0

-----------------------------------------------------------------------------
(* Bets.                                                                   *)

\* Mutant: the balance is not checked once the bet is matched.
BetPlaceUncovered(a, m, n, o, s) ==
    LET bet == [bettor |-> a, market |-> m, amount |-> n, odds |-> o, side |-> s,
                delayed |-> group = "in_play"]
        y == [x EXCEPT !.bets = Append(@, bet)]
        z == IF bet.delayed /\ LiveDelay THEN y ELSE Placed(y, Len(y.bets))
    IN  /\ group \in {"upcoming", "in_play", "canceled"}
        /\ placed < MaxBets
        /\ x' = [z EXCEPT !.bal[a] = @ - n]
        /\ placed' = placed + 1
        /\ UNCHANGED <<house, group, resolution>>

\* bet_place_evaluator: the bet is made and matched before it is paid for, and
\* the transaction fails if the balance, winnings included, does not cover it.
BetPlace(a, m, n, o, s) ==
    LET bet == [bettor |-> a, market |-> m, amount |-> n, odds |-> o, side |-> s,
                delayed |-> group = "in_play"]
        y == [x EXCEPT !.bets = Append(@, bet)]
        z == IF bet.delayed /\ LiveDelay THEN y ELSE Placed(y, Len(y.bets))
    IN  /\ group \in {"upcoming", "in_play", "canceled"}
        /\ placed < MaxBets
        /\ z.bal[a] >= n
        /\ x' = [z EXCEPT !.bal[a] = @ - n]
        /\ placed' = placed + 1
        /\ UNCHANGED <<house, group, resolution>>

\* bet_cancel_evaluator
BetCancel(i) ==
    /\ x' = BetCanceled(x, i)
    /\ UNCHANGED <<house, group, resolution, placed>>

\* cancel_all_unmatched_bets_on_betting_market_group()
Unmatched(y) ==
    LET drop[n \in 0..Len(y.bets)] ==
            IF n = 0 THEN y ELSE BetCanceled(drop[n - 1], 1)
    IN  drop[Len(y.bets)]

CancelUnmatched ==
    /\ group # "gone"
    /\ x' = Unmatched(x)
    /\ UNCHANGED <<house, group, resolution, placed>>

\* place_delayed_bets(), when the delay of the first n bets is over.
DelayedIn(y) == {i \in DOMAIN y.bets : y.bets[i].delayed}

DelayEnds(y, i) == Placed([y EXCEPT !.bets[i].delayed = FALSE], i)

DelayOver(y, D) == IF D = {} THEN y ELSE DelayEnds(y, Min(D))

PlaceDelayed(n) ==
    LET place[k \in 0..n] ==
            IF k = 0 THEN x
            ELSE DelayOver(place[k - 1], DelayedIn(place[k - 1]))
    IN  /\ group = "in_play"
        /\ x' = place[n]
        /\ UNCHANGED <<house, group, resolution, placed>>

-----------------------------------------------------------------------------
(* The group.                                                              *)

\* The bets of a group that goes in play or is closed are canceled.
InPlay ==
    /\ group = "upcoming"
    /\ group' = "in_play"
    /\ x' = Unmatched(x)
    /\ UNCHANGED <<house, resolution, placed>>

Close ==
    /\ group \in {"upcoming", "in_play"}
    /\ group' = "closed"
    /\ x' = Unmatched(x)
    /\ UNCHANGED <<house, resolution, placed>>

\* validate_betting_market_group_resolutions(): one winner, or all canceled.
Grade(w) ==
    /\ group = "closed"
    /\ group' = "graded"
    /\ resolution' = [m \in Market |-> IF m = w THEN "win" ELSE "not_win"]
    /\ UNCHANGED <<x, house, placed>>

Cancel ==
    /\ group \in {"upcoming", "in_play", "closed", "graded"}
    /\ group' = "canceled"
    /\ resolution' = [m \in Market |-> "cancel"]
    /\ x' = Unmatched(x)
    /\ UNCHANGED <<house, placed>>

-----------------------------------------------------------------------------
(* settle_betting_market_group().                                          *)

Payout(a, m) ==
    LET p == x.pos[a][m]
    IN  CASE resolution[m] = "win"     -> p.win + p.played
          [] resolution[m] = "not_win" -> p.lose + p.played
          [] resolution[m] = "cancel"  -> p.canceled

Payouts(a) == SumFunction([m \in Market |-> Payout(a, m)])

NetProfits(a) ==
    SumFunction([m \in Market |-> IF resolution[m] = "cancel" THEN 0
                                  ELSE Payout(a, m) - x.pos[a][m].canceled])

\* Mutant: the rake is taken of what is paid, not of what is won.
RakeOfPayouts(a) ==
    IF NetProfits(a) > 0
    THEN (Payouts(a) * RakeFee + Percent - 1) \div Percent ELSE 0

Rake(a) ==
    IF NetProfits(a) > 0
    THEN (NetProfits(a) * RakeFee + Percent - 1) \div Percent ELSE 0

\* affiliate_payout_helper::payout() deals one affiliate a share of what is left.
Dealt(d, share) ==
    LET pay == IF share = d.of THEN d.left ELSE (d.left * share) \div d.of
    IN  [left |-> d.left - pay,
         of   |-> IF share = d.of THEN d.of ELSE d.of - share,
         to   |-> Append(d.to, pay)]

\* A fifth of the rake, shared out so that the last affiliate gets what rounding
\* has left.
Shares(a) ==
    LET list == Affiliates[a]
        deal[i \in 0..Len(list)] ==
            IF i = 0 THEN [left |-> Rake(a) \div 5, of |-> Percent, to |-> << >>]
            ELSE Dealt(deal[i - 1], list[i].share)
    IN  deal[Len(list)].to

ShareOf(b, a) ==
    SumFunction([i \in DOMAIN Affiliates[a] |->
                   IF Affiliates[a][i].account = b THEN Shares(a)[i] ELSE 0])

\* The canceled bets of the markets are refunded first.
Settle ==
    /\ group \in {"graded", "canceled"}
    /\ LET y == Unmatched(x)
           earned == [a \in Account |->
                        Payouts(a) - Rake(a)
                          + SumFunction([b \in Account |-> ShareOf(a, b)])]
       IN  x' = [bal  |-> [a \in Account |-> y.bal[a] + earned[a]],
                 bets |-> << >>,
                 pos  |-> [a \in Account |-> [m \in Market |-> NoPosition]]]
    /\ house' = house + SumFunction([a \in Account |->
                                       Rake(a) - SumFunction(Shares(a))])
    /\ group' = "gone"
    /\ UNCHANGED <<resolution, placed>>

Next ==
    \/ \E a \in Account, m \in Market, n \in Amounts, o \in Odds, s \in {"back", "lay"} :
         BetPlace(a, m, n, o, s)
    \/ \E i \in DOMAIN x.bets : BetCancel(i)
    \/ CancelUnmatched
    \/ \E n \in 1..Cardinality(DelayedIn(x)) : PlaceDelayed(n)
    \/ InPlay
    \/ Close
    \/ \E w \in Market : Grade(w)
    \/ Cancel
    \/ Settle

Spec == Init /\ [][Next]_vars

-----------------------------------------------------------------------------
(* Properties.                                                             *)

\* No balance, bet or position is ever negative: a bet is covered although it
\* is made before it is paid for, and match_bet() never refunds too much.
TypeOK ==
    /\ \A a \in Account : x.bal[a] \in Nat
    /\ x.bets \in Seq(Bet)
    /\ \A a \in Account, m \in Market :
         x.pos[a][m] \in [win: Nat, lose: Nat, canceled: Nat, played: Nat]
    /\ house \in Nat
    /\ group \in {"upcoming", "in_play", "closed", "graded", "canceled", "gone"}
    /\ resolution \in [Market -> {"none", "win", "not_win", "cancel"}]

Held(m, field) == SumFunction([a \in Account |-> x.pos[a][m][field]])

\* However a market is resolved, its positions pay out exactly what was staked
\* in them: match_bet() splits every match, and reduce() every early payment,
\* without creating or losing a unit under any outcome.
EveryOutcomePaid ==
    \A m \in Market :
        /\ Held(m, "win") + Held(m, "played") = Held(m, "canceled")
        /\ Held(m, "lose") + Held(m, "played") = Held(m, "canceled")

\* Nothing is created or lost by matching, rounding, refunds, rake and
\* affiliate payouts: balances, bets and stakes always add up to the funds.
Conserved ==
    SumFunction(x.bal) + house
      + SumFunction([i \in DOMAIN x.bets |-> x.bets[i].amount])
      + SumFunction([m \in Market |-> Held(m, "canceled")])
    = SumFunction(Funds)

\* "maker bets will always be an exact multiple of maker_odds_ratio": so that a
\* bet on the books is either matched completely or keeps a matchable amount.
BooksExact ==
    \A i \in DOMAIN x.bets :
        ~x.bets[i].delayed => x.bets[i].amount > 0 /\ x.bets[i].amount % Unit(x.bets[i]) = 0

\* Rake comes out of profits only: settling pays every bettor at least the
\* smaller of what the bets won and what was staked on them.
RakeFromProfits ==
    [][group' = "gone" =>
         \A a \in Account :
            x'.bal[a] - x.bal[a] >=
              Smallest(Payouts(a), SumFunction([m \in Market |-> x.pos[a][m].canceled]))]_vars
=============================================================================
