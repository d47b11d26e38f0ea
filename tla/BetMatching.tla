---------------------------- MODULE BetMatching ------------------------------
(***************************************************************************)
(* Matching the bets of a betting exchange (db_bet.cpp and bet_object).    *)
(*                                                                         *)
(* An exchange x is a record: x.bal the balances, x.bets the unmatched     *)
(* bets in the order of their ids, x.pos what each account is paid by each *)
(* market under each outcome.  A back bet of amount s at odds o wins       *)
(* s * (o - P) / P, P being GRAPHENE_BETTING_ODDS_PRECISION; a lay bet     *)
(* takes the other side.                                                   *)
(***************************************************************************)
EXTENDS Integers, Sequences, FiniteSetsExt

CONSTANTS Account, Market, Precision

ASSUME PrecisionAssumption == Precision \in Nat \ {0}

Smallest(m, n) == IF m <= n THEN m ELSE n

\* A sequence without its i-th element.
Without(s, i) == [j \in 1..(Len(s) - 1) |-> s[IF j < i THEN j ELSE j + 1]]

-----------------------------------------------------------------------------
(* bet_object: the amounts that match exactly at given odds.               *)

Divisor(odds) ==
    Max({d \in 1..Precision : Precision % d = 0 /\ (odds - Precision) % d = 0})

\* get_ratio(): what a unit of a bet costs each side.
Ratio(odds) == [back |-> Precision \div Divisor(odds),
                lay  |-> (odds - Precision) \div Divisor(odds)]

Opposite(side) == IF side = "back" THEN "lay" ELSE "back"

\* get_minimum_matchable_amount()
Unit(bet) == Ratio(bet.odds)[bet.side]

\* get_exact_matching_amount()
ExactMatch(bet) == (bet.amount \div Unit(bet)) * Ratio(bet.odds)[Opposite(bet.side)]

-----------------------------------------------------------------------------
(* betting_market_position_object.                                         *)

NoPosition == [win |-> 0, lose |-> 0, canceled |-> 0, played |-> 0]

\* Mutant: the winnings already paid stay in the position.
ReducedTwice(p) ==
    LET sure == Smallest(p.win, p.lose)
        q == [p EXCEPT !.win = @ - sure, !.lose = @ - sure, !.played = @ + sure]
        now == IF sure = 0 THEN 0 ELSE Smallest(q.canceled, q.played)
    IN  [pos |-> [q EXCEPT !.canceled = @ - now], paid |-> now]

\* reduce(): the part won whatever the outcome is paid at once.
Reduced(p) ==
    LET sure == Smallest(p.win, p.lose)
        q == [p EXCEPT !.win = @ - sure, !.lose = @ - sure, !.played = @ + sure]
        now == IF sure = 0 THEN 0 ELSE Smallest(q.canceled, q.played)
    IN  [pos  |-> [q EXCEPT !.canceled = @ - now, !.played = @ - now],
         paid |-> now]

\* adjust_betting_position()
Adjusted(p, side, amount, matched) ==
    IF amount = 0 THEN [pos |-> p, paid |-> 0]
    ELSE Reduced([p EXCEPT
                    !.win = @ + (IF side = "back" THEN amount + matched ELSE 0),
                    !.lose = @ + (IF side = "lay" THEN amount + matched ELSE 0),
                    !.canceled = @ + amount])

-----------------------------------------------------------------------------
(* The books.                                                              *)

\* cancel_bet()
BetCanceled(x, i) ==
    [x EXCEPT !.bal[x.bets[i].bettor] = @ + x.bets[i].amount,
              !.bets = Without(@, i)]

\* Mutant: the refund is paid but the bet keeps its amount.
RefundedOnly(x, i, n) == [x EXCEPT !.bal[x.bets[i].bettor] = @ + n]

\* Takes n off bet i and pays it back.
Refunded(x, i, n) ==
    [x EXCEPT !.bal[x.bets[i].bettor] = @ + n, !.bets[i].amount = @ - n]

\* bet_was_matched(), up to the removal of a bet that nothing is left of.
Recorded(x, i, amount, matched) ==
    LET bet == x.bets[i]
        a == Adjusted(x.pos[bet.bettor][bet.market], bet.side, amount, matched)
    IN  [x EXCEPT !.pos[bet.bettor][bet.market] = a.pos,
                  !.bal[bet.bettor] = @ + a.paid,
                  !.bets[i].amount = @ - amount]

\* The amounts that two bets match at the maker's odds.
Matching(taker, maker) ==
    LET r == Ratio(maker.odds)
        perTaker == r[taker.side]
        perMaker == r[maker.side]
        pays == taker.amount \div perTaker
        wants == IF taker.side = "lay"
                 THEN Smallest(pays, ExactMatch(taker) \div perMaker)
                 ELSE pays
        factor == Smallest(wants, maker.amount \div perMaker)
    IN  [taker |-> factor * perTaker, maker |-> factor * perMaker]

\* Mutant: what stays on the books is not rounded to the taker's odds.
LeftoverUnrounded(taker, m) == taker.amount - m.taker

\* What stays on the books of a taker that used up the maker's bet.
Leftover(taker, m) ==
    LET units == IF taker.side = "back"
                 THEN (taker.amount - m.taker) \div Unit(taker)
                 ELSE (ExactMatch(taker) - m.maker)
                        \div Ratio(taker.odds)["back"]
    IN  units * Unit(taker)

\* bet_was_matched() and cancel_bet() remove a bet that nothing is left of.
Dropped(x, i) ==
    IF x.bets[i].amount = 0 THEN [x EXCEPT !.bets = Without(@, i)] ELSE x

\* Whatever is left of bet i is paid back.
AllRefunded(x, i) == Refunded(x, i, x.bets[i].amount)

\* match_bet(): the taker i against the maker j, for the amounts m.
MatchedBy(x, i, j, m) ==
    LET makerDone == m.maker = x.bets[j].amount
        refund == IF makerDone /\ m.taker # x.bets[i].amount
                  THEN x.bets[i].amount - m.taker - Leftover(x.bets[i], m) ELSE 0
        paid == Recorded(Refunded(x, i, refund), i, m.taker, m.maker)
        rest == IF makerDone THEN paid ELSE AllRefunded(paid, i)
    IN  IF m.maker = 0 THEN x ELSE Recorded(rest, j, m.maker, m.taker)

Matched(x, i, j) == MatchedBy(x, i, j, Matching(x.bets[i], x.bets[j]))

\* The bets a taker may meet, and the order of the book (compare_bet_by_odds):
\* the best odds first, then the oldest.
Crosses(taker, maker) ==
    /\ maker.market = taker.market
    /\ maker.side = Opposite(taker.side)
    /\ ~maker.delayed
    /\ IF taker.side = "back" THEN maker.odds >= taker.odds
                              ELSE maker.odds <= taker.odds

Ahead(bets, j, k) ==
    IF bets[j].odds = bets[k].odds THEN j < k
    ELSE IF bets[j].side = "back" THEN bets[j].odds < bets[k].odds
    ELSE bets[j].odds > bets[k].odds

Best(bets, M) == CHOOSE j \in M : \A k \in M \ {j} : Ahead(bets, j, k)

\* One round of the loop of place_bet(): the taker has met bet j, which gives z.
\* Its index is 0 once the loop has ended.
Met(z, at, j) ==
    [x  |-> IF j < at THEN Dropped(Dropped(z, at), j) ELSE Dropped(Dropped(z, j), at),
     at |-> IF z.bets[j].amount > 0 \/ z.bets[at].amount = 0 THEN 0
            ELSE IF j < at THEN at - 1 ELSE at]

Round(y, makers) ==
    IF makers = {} THEN [y EXCEPT !.at = 0]
    ELSE LET j == Best(y.x.bets, makers) IN Met(Matched(y.x, y.at, j), y.at, j)

Makers(y) ==
    {j \in DOMAIN y.x.bets : y.at # 0 /\ Crosses(y.x.bets[y.at], y.x.bets[j])}

\* The loop of place_bet(): after n rounds, the exchange and the taker's index.
Rounds(x, i) ==
    LET round[n \in 0..Len(x.bets)] ==
            IF n = 0 THEN [x |-> x, at |-> i]
            ELSE LET y == round[n - 1] IN Round(y, Makers(y))
    IN  round[Len(x.bets)].x

\* place_bet(): returns what can never match, then meets the book.
Placed(x, i) ==
    LET bet == x.bets[i]
        odd == bet.amount % Unit(bet)
    IN  IF odd = bet.amount THEN BetCanceled(x, i)
        ELSE Rounds(Refunded(x, i, odd), i)

=============================================================================
