--------------------------- MODULE ExchangeLemmas ---------------------------
(***************************************************************************)
(* Facts about the operators of the betting exchange, for all odds and     *)
(* amounts: what get_ratio(), reduce() and match_bet() compute, and that   *)
(* matching bets keeps the money, the balance of every market's positions  *)
(* and the exactness of the books.                                         *)
(***************************************************************************)
EXTENDS BettingExchange, SumLemmas

Side == {"back", "lay"}

Position == [win: Nat, lose: Nat, canceled: Nat, played: Nat]

Exchange == [bal: [Account -> Nat], bets: Seq(Bet),
             pos: [Account -> [Market -> Position]]]

-----------------------------------------------------------------------------
(* Division and ratios.                                                    *)

\* Division with remainder.
LEMMA Division ==
    ASSUME NEW n \in Nat, NEW d \in Nat \ {0}
    PROVE  /\ n \div d \in Nat
           /\ n % d \in Nat
           /\ n % d < d
           /\ n = ((n \div d) * d) + (n % d)
  OBVIOUS

\* A multiple leaves no remainder.
LEMMA Multiple ==
    ASSUME NEW k \in Nat, NEW d \in Nat \ {0}
    PROVE  k * d \in Nat /\ (k * d) % d = 0 /\ (k * d) \div d = k
  OBVIOUS

\* Multiplying keeps the order of natural numbers, and shows it.
LEMMA Times ==
    ASSUME NEW a \in Nat, NEW b \in Nat, NEW d \in Nat \ {0}
    PROVE  /\ a <= b => a * d <= b * d
           /\ a * d <= b * d => a <= b
  OBVIOUS

\* Fractions of a common multiple: what is cheaper by the unit is cheaper.
LEMMA Fractions ==
    ASSUME NEW l1 \in Nat, NEW b1 \in Nat, NEW l2 \in Nat, NEW b2 \in Nat,
           NEW d1 \in Nat \ {0}, NEW d2 \in Nat \ {0},
           b1 * d1 = b2 * d2, l1 * d1 <= l2 * d2
    PROVE  l1 * b2 <= l2 * b1
<1>1. (l1 * d1) * (b2 * d2) <= (l2 * d2) * (b2 * d2)
  OBVIOUS
<1>2. (l1 * d1) * (b2 * d2) = (l1 * b2) * (d1 * d2)
  OBVIOUS
<1>3. (l2 * d2) * (b1 * d1) = (l2 * b1) * (d1 * d2)
  OBVIOUS
<1>4. (l1 * b2) * (d1 * d2) <= (l2 * b1) * (d1 * d2)
  BY <1>1, <1>2, <1>3
<1>5. d1 * d2 \in Nat \ {0} /\ l1 * b2 \in Nat /\ l2 * b1 \in Nat
  OBVIOUS
<1> QED
  BY <1>4, <1>5, Times

\* A set of natural numbers with a bound has a greatest element.
LEMMA GreatestOf ==
    ASSUME NEW n \in Nat, NEW T \in SUBSET (0..n), T # {}
    PROVE  Max(T) \in T /\ \A e \in T : e <= Max(T)
<1> DEFINE U == {n - e : e \in T}
<1>0. \A e \in T : e \in Nat /\ n - e \in Nat
  <2> SUFFICES ASSUME NEW e \in T PROVE e \in Nat /\ n - e \in Nat
    OBVIOUS
  <2>1. e \in 0..n
    OBVIOUS
  <2> QED
    BY <2>1
<1>1. U \in SUBSET Nat /\ U # {}
  BY <1>0
<1>2. PICK u \in U : \A v \in U : u <= v
  <2> HIDE DEF U
  <2> QED
    BY <1>1, LeastOf
<1>3. PICK t \in T : u = n - t
  BY <1>2
<1>4. \A e \in T : e <= t
  <2> SUFFICES ASSUME NEW e \in T PROVE e <= t
    OBVIOUS
  <2>1. n - e \in U
    OBVIOUS
  <2>2. n - t <= n - e
    BY <1>2, <1>3, <2>1
  <2>3. e \in Nat /\ t \in Nat
    BY <1>0
  <2> QED
    BY <2>2, <2>3
<1>5. \E y \in T : \A e \in T : y >= e
  <2>1. \A e \in T : t >= e
    <3> SUFFICES ASSUME NEW e \in T PROVE t >= e
      OBVIOUS
    <3>1. e <= t /\ e \in Nat /\ t \in Nat
      BY <1>0, <1>4
    <3> QED
      BY <3>1
  <2> QED
    BY <2>1
<1>6. Max(T) \in T /\ \A e \in T : Max(T) >= e
  BY <1>5 DEF Max
<1>7. ASSUME NEW e \in T PROVE e <= Max(T)
  <2>1. Max(T) >= e /\ e \in Nat /\ Max(T) \in Nat
    BY <1>0, <1>6
  <2> QED
    BY <2>1
<1> QED
  BY <1>6, <1>7

\* get_ratio() divides the precision and the odds above it by a common divisor:
\* both sides of the ratio are positive.
LEMMA RatioFacts ==
    ASSUME NEW o \in Odds
    PROVE  /\ Divisor(o) \in Nat \ {0}
           /\ Ratio(o).back \in Nat \ {0}
           /\ Ratio(o).lay \in Nat \ {0}
           /\ Ratio(o).back * Divisor(o) = Precision
           /\ Ratio(o).lay * Divisor(o) = o - Precision
           /\ \A s \in Side : Ratio(o)[s] = IF s = "back" THEN Ratio(o).back ELSE Ratio(o).lay
<1> DEFINE T == {d \in 1..Precision : Precision % d = 0 /\ (o - Precision) % d = 0}
           D == Divisor(o)
<1>1. /\ Precision \in Nat \ {0} /\ o \in Nat /\ o > Precision
      /\ o - Precision \in Nat \ {0}
  BY PrecisionAssumption, BetAssumption
<1>2. 1 \in T
  BY <1>1
<1>3. T \in SUBSET (0..Precision)
  BY <1>1
<1>4. D \in T
  <2>1. Max(T) \in T
    <3> HIDE DEF T
    <3> QED
      BY <1>1, <1>2, <1>3, GreatestOf
  <2> QED
    BY <2>1 DEF Divisor
<1>5. D \in Nat \ {0} /\ Precision % D = 0 /\ (o - Precision) % D = 0
  BY <1>1, <1>4
<1> HIDE DEF D, T
<1>6. /\ Precision \div D \in Nat
      /\ Precision = ((Precision \div D) * D) + (Precision % D)
  BY <1>1, <1>5, Division
<1>7. /\ (o - Precision) \div D \in Nat
      /\ o - Precision = (((o - Precision) \div D) * D) + ((o - Precision) % D)
  BY <1>1, <1>5, Division
<1>8. /\ Ratio(o).back = Precision \div D
      /\ Ratio(o).lay = (o - Precision) \div D
      /\ \A s \in Side : Ratio(o)[s] = IF s = "back" THEN Ratio(o).back ELSE Ratio(o).lay
  BY DEF Ratio, D, Side
<1> DEFINE B == Precision \div D
           L == (o - Precision) \div D
<1>9. B \in Nat /\ L \in Nat /\ B * D = Precision /\ L * D = o - Precision
  BY <1>1, <1>5, <1>6, <1>7
<1> HIDE DEF B, L
<1>10. B # 0 /\ L # 0
  BY <1>1, <1>5, <1>9
<1> QED
  BY <1>5, <1>8, <1>9, <1>10 DEF B, L, D

\* Better odds for the backer cost the layer more by the unit backed.
LEMMA RatioOrder ==
    ASSUME NEW o1 \in Odds, NEW o2 \in Odds, o1 <= o2
    PROVE  Ratio(o1).lay * Ratio(o2).back <= Ratio(o2).lay * Ratio(o1).back
<1>1. o1 \in Nat /\ o2 \in Nat /\ Precision \in Nat
  BY PrecisionAssumption, BetAssumption
<1>2. o1 - Precision <= o2 - Precision
  BY <1>1
<1> QED
  BY <1>2, RatioFacts, Fractions

\* get_minimum_matchable_amount() is the bet's side of the ratio.
LEMMA UnitFacts ==
    ASSUME NEW b \in Bet
    PROVE  /\ Unit(b) \in Nat \ {0}
           /\ Unit(b) = IF b.side = "back" THEN Ratio(b.odds).back ELSE Ratio(b.odds).lay
           /\ Ratio(b.odds)[Opposite(b.side)]
                = IF b.side = "back" THEN Ratio(b.odds).lay ELSE Ratio(b.odds).back
<1>1. b.odds \in Odds /\ b.side \in Side /\ Opposite(b.side) \in Side
  BY DEF Bet, Side, Opposite
<1>2. Opposite(b.side) = "back" <=> b.side # "back"
  BY <1>1 DEF Opposite, Side
<1>3. Unit(b) = Ratio(b.odds)[b.side]
  BY DEF Unit
<1> QED
  BY <1>1, <1>2, <1>3, RatioFacts

-----------------------------------------------------------------------------
(* Positions.                                                              *)

\* reduce() pays the same under every outcome: what is paid at once is no
\* longer due, however the market is resolved.
LEMMA ReducedFacts ==
    ASSUME NEW p \in Position
    PROVE  /\ Reduced(p).pos \in Position
           /\ Reduced(p).paid \in Nat
           /\ Reduced(p).pos.canceled = p.canceled - Reduced(p).paid
           /\ Reduced(p).pos.win + Reduced(p).pos.played = p.win + p.played - Reduced(p).paid
           /\ Reduced(p).pos.lose + Reduced(p).pos.played = p.lose + p.played - Reduced(p).paid
<1> DEFINE sure == Smallest(p.win, p.lose)
           q == [p EXCEPT !.win = @ - sure, !.lose = @ - sure, !.played = @ + sure]
           now == IF sure = 0 THEN 0 ELSE Smallest(q.canceled, q.played)
<1>1. p.win \in Nat /\ p.lose \in Nat /\ p.canceled \in Nat /\ p.played \in Nat
  BY DEF Position
<1>2. sure \in Nat /\ p.win - sure \in Nat /\ p.lose - sure \in Nat
  BY <1>1 DEF Smallest
<1> HIDE DEF sure
<1>3. /\ q \in Position /\ q.win = p.win - sure /\ q.lose = p.lose - sure
      /\ q.canceled = p.canceled /\ q.played = p.played + sure
  <2> DEFINE w == p.win - sure
             l == p.lose - sure
             k == p.played + sure
  <2>1. w \in Nat /\ l \in Nat /\ k \in Nat
    BY <1>1, <1>2
  <2>2. q = [p EXCEPT !.win = w, !.lose = l, !.played = k]
    OBVIOUS
  <2> HIDE DEF w, l, k, q
  <2>3. q \in Position /\ q.win = w /\ q.lose = l /\ q.canceled = p.canceled /\ q.played = k
    BY <2>1, <2>2 DEF Position
  <2> QED
    BY <2>3 DEF w, l, k
<1>4. now \in Nat /\ q.canceled - now \in Nat /\ q.played - now \in Nat
  BY <1>1, <1>2, <1>3 DEF Smallest
<1>5. Reduced(p) = [pos |-> [q EXCEPT !.canceled = @ - now, !.played = @ - now], paid |-> now]
  BY DEF Reduced, sure
<1> HIDE DEF now, q
<1> DEFINE r == [q EXCEPT !.canceled = @ - now, !.played = @ - now]
<1>6. /\ r \in Position /\ r.win = q.win /\ r.lose = q.lose
      /\ r.canceled = q.canceled - now /\ r.played = q.played - now
  BY <1>3, <1>4 DEF Position
<1>7. Reduced(p).paid = now /\ Reduced(p).pos = r
  BY <1>5
<1> HIDE DEF r
<1> QED
  BY <1>1, <1>2, <1>3, <1>4, <1>6, <1>7

\* What adjust_betting_position() adds to a position, less what it pays.
LEMMA AdjustedFacts ==
    ASSUME NEW p \in Position, NEW s \in Side, NEW n \in Nat \ {0}, NEW k \in Nat
    PROVE  LET a == Adjusted(p, s, n, k)
               gain == IF s = "back" THEN n + k ELSE 0
               loss == IF s = "lay" THEN n + k ELSE 0
           IN  /\ a.pos \in Position
               /\ a.paid \in Nat
               /\ a.pos.canceled = p.canceled + n - a.paid
               /\ a.pos.win + a.pos.played = p.win + p.played + gain - a.paid
               /\ a.pos.lose + a.pos.played = p.lose + p.played + loss - a.paid
<1> DEFINE gain == IF s = "back" THEN n + k ELSE 0
           loss == IF s = "lay" THEN n + k ELSE 0
           q == [p EXCEPT !.win = @ + gain, !.lose = @ + loss, !.canceled = @ + n]
<1>0. p.win \in Nat /\ p.lose \in Nat /\ p.canceled \in Nat /\ p.played \in Nat
  BY DEF Position
<1>1. gain \in Nat /\ loss \in Nat
  OBVIOUS
<1>2. Adjusted(p, s, n, k) = Reduced(q)
  BY DEF Adjusted
<1>3. /\ q \in Position /\ q.win = p.win + gain /\ q.lose = p.lose + loss
      /\ q.canceled = p.canceled + n /\ q.played = p.played
  <2> HIDE DEF gain, loss
  <2> DEFINE w == p.win + gain
             l == p.lose + loss
             c == p.canceled + n
  <2>1. w \in Nat /\ l \in Nat /\ c \in Nat
    BY <1>0, <1>1
  <2>2. q = [p EXCEPT !.win = w, !.lose = l, !.canceled = c]
    OBVIOUS
  <2> HIDE DEF w, l, c, q
  <2>3. q \in Position /\ q.win = w /\ q.lose = l /\ q.canceled = c /\ q.played = p.played
    BY <2>1, <2>2 DEF Position
  <2> QED
    BY <2>3 DEF w, l, c
<1> HIDE DEF q, gain, loss
<1>5. Reduced(q).pos \in Position /\ Reduced(q).paid \in Nat
  BY <1>3, ReducedFacts
<1> QED
  BY <1>0, <1>1, <1>2, <1>3, <1>5, ReducedFacts DEF gain, loss

-----------------------------------------------------------------------------
(* The amounts of the bets.                                                *)

Stake(s) == [i \in DOMAIN s |-> s[i].amount]

Stakes(s) == SumFunctionOnSet(Stake(s), DOMAIN s)

\* The fields of a bet, and the indices of the bets.
LEMMA BetFacts ==
    ASSUME NEW s \in Seq(Bet)
    PROVE  /\ DOMAIN s = 1..Len(s) /\ Len(s) \in Nat /\ IsFiniteSet(DOMAIN s)
           /\ \A i \in DOMAIN s :
                /\ s[i] \in Bet /\ s[i].amount \in Nat /\ s[i].bettor \in Account
                /\ s[i].market \in Market /\ s[i].odds \in Odds /\ s[i].side \in Side
                /\ Stake(s)[i] = s[i].amount
<1>1. DOMAIN s = 1..Len(s) /\ Len(s) \in Nat /\ \A i \in DOMAIN s : s[i] \in Bet
  OBVIOUS
<1>2. IsFiniteSet(1..Len(s))
  BY <1>1, FS_Interval
<1> QED
  BY <1>1, <1>2 DEF Bet, Side, Stake

\* The stakes add up to a natural number.
LEMMA StakesNat ==
    ASSUME NEW s \in Seq(Bet)
    PROVE  Stakes(s) \in Nat
  BY BetFacts, SumNat DEF Stakes

\* A bet whose amount changes changes the sum as much.
LEMMA ChangedStakes ==
    ASSUME NEW s \in Seq(Bet), NEW r \in Seq(Bet), NEW i \in DOMAIN s, Len(r) = Len(s),
           \A j \in DOMAIN s \ {i} : r[j].amount = s[j].amount
    PROVE  Stakes(r) = Stakes(s) + (r[i].amount - s[i].amount)
<1>1. DOMAIN r = DOMAIN s
  OBVIOUS
<1>2. \A j \in DOMAIN s : Stake(s)[j] \in Int /\ Stake(r)[j] \in Int
  BY <1>1, BetFacts
<1>3. \A j \in DOMAIN s \ {i} : Stake(r)[j] = Stake(s)[j]
  BY <1>1, BetFacts
<1>4. Stake(r)[i] = r[i].amount /\ Stake(s)[i] = s[i].amount
  BY <1>1, BetFacts
<1>5. SumFunctionOnSet(Stake(r), DOMAIN s)
        = SumFunctionOnSet(Stake(s), DOMAIN s) + (Stake(r)[i] - Stake(s)[i])
  <2> DEFINE S == DOMAIN s
             f == Stake(s)
             g == Stake(r)
  <2>1. /\ IsFiniteSet(S) /\ i \in S
        /\ \A e \in S : f[e] \in Int /\ g[e] \in Int
        /\ \A e \in S \ {i} : g[e] = f[e]
    BY <1>2, <1>3, BetFacts
  <2> HIDE DEF S, f, g
  <2>2. SumFunctionOnSet(g, S) = SumFunctionOnSet(f, S) + (g[i] - f[i])
    BY <2>1, SumAt
  <2> QED
    BY <2>2 DEF S, f, g
<1> QED
  BY <1>1, <1>4, <1>5 DEF Stakes

\* A sequence without an element.
LEMMA RemovedBet ==
    ASSUME NEW S, NEW s \in Seq(S), NEW i \in DOMAIN s
    PROVE  /\ Without(s, i) \in Seq(S)
           /\ Len(Without(s, i)) = Len(s) - 1
           /\ DOMAIN Without(s, i) = 1..(Len(s) - 1)
           /\ \A j \in 1..(Len(s) - 1) :
                Without(s, i)[j] = IF j < i THEN s[j] ELSE s[j + 1]
<1>1. \A j \in 1..(Len(s) - 1) : (IF j < i THEN j ELSE j + 1) \in DOMAIN s
  OBVIOUS
<1>2. Len(s) - 1 \in Nat
  OBVIOUS
<1>3. Without(s, i) \in [1..(Len(s) - 1) -> S]
  BY <1>1 DEF Without
<1>4. \A j \in 1..(Len(s) - 1) :
        Without(s, i)[j] = IF j < i THEN s[j] ELSE s[j + 1]
  BY DEF Without
<1> DEFINE n == Len(s) - 1
           r == Without(s, i)
<1>5. n \in Nat /\ r \in [1..n -> S]
  BY <1>2, <1>3
<1> HIDE DEF n, r
<1>6. r \in Seq(S) /\ Len(r) = n /\ DOMAIN r = 1..n
  BY <1>5
<1> QED
  BY <1>4, <1>6 DEF n, r

\* A bet that is removed takes its amount off the sum.
LEMMA RemovedStakes ==
    ASSUME NEW s \in Seq(Bet), NEW i \in DOMAIN s
    PROVE  Stakes(Without(s, i)) = Stakes(s) - s[i].amount
<1> DEFINE r == Without(s, i)
           at == [j \in DOMAIN r |-> IF j < i THEN j ELSE j + 1]
<1>1. r \in Seq(Bet) /\ Len(r) = Len(s) - 1
      /\ \A j \in 1..(Len(s) - 1) : r[j] = IF j < i THEN s[j] ELSE s[j + 1]
  BY RemovedBet
<1>2. DOMAIN s = 1..Len(s) /\ Len(s) \in Nat /\ i \in 1..Len(s)
  OBVIOUS
<1> HIDE DEF r
<1>3. DOMAIN r = 1..(Len(s) - 1)
  BY <1>1
<1>4. \A j \in DOMAIN r : at[j] \in DOMAIN s /\ at[j] # i /\ r[j] = s[at[j]]
  BY <1>1, <1>2, <1>3
<1>5. \A j, k \in DOMAIN r : at[j] = at[k] => j = k
  BY <1>2, <1>3
<1>6. {at[j] : j \in DOMAIN r} = DOMAIN s \ {i}
  <2>1. ASSUME NEW k \in DOMAIN s \ {i} PROVE \E j \in DOMAIN r : at[j] = k
    <3>1. CASE k < i
      <4>1. k \in DOMAIN r /\ at[k] = k
        BY <1>2, <1>3, <3>1
      <4> QED
        BY <4>1
    <3>2. CASE k > i
      <4>1. k - 1 \in DOMAIN r /\ at[k - 1] = k
        BY <1>2, <1>3, <3>2
      <4> QED
        BY <4>1
    <3> QED
      BY <1>2, <3>1, <3>2
  <2> HIDE DEF at
  <2> QED
    BY <1>4, <2>1
<1> HIDE DEF at
<1>7. \A j \in DOMAIN r : Stake(r)[j] \in Int /\ Stake(s)[at[j]] = Stake(r)[j]
  <2> SUFFICES ASSUME NEW j \in DOMAIN r
               PROVE  Stake(r)[j] \in Int /\ Stake(s)[at[j]] = Stake(r)[j]
    OBVIOUS
  <2>1. Stake(r)[j] = r[j].amount /\ r[j].amount \in Nat
    BY <1>1, BetFacts
  <2>2. at[j] \in DOMAIN s /\ r[j] = s[at[j]]
    BY <1>4
  <2>3. Stake(s)[at[j]] = s[at[j]].amount
    BY <2>2, BetFacts
  <2> QED
    BY <2>1, <2>2, <2>3
<1>8. IsFiniteSet(DOMAIN r) /\ IsFiniteSet(DOMAIN s)
  BY <1>1, BetFacts
<1>9. SumFunctionOnSet(Stake(s), {at[j] : j \in DOMAIN r})
        = SumFunctionOnSet(Stake(r), DOMAIN r)
  <2> DEFINE S == DOMAIN r
             f == Stake(r)
             g == Stake(s)
  <2>1. /\ IsFiniteSet(S)
        /\ \A e \in S : f[e] \in Int /\ g[at[e]] = f[e]
        /\ \A d, e \in S : at[d] = at[e] => d = e
    BY <1>5, <1>7, <1>8
  <2> HIDE DEF S, f, g
  <2>2. SumFunctionOnSet(g, {at[e] : e \in S}) = SumFunctionOnSet(f, S)
    BY <2>1, SumMoved
  <2> QED
    BY <2>2 DEF S, f, g
<1>10. \A j \in DOMAIN s : Stake(s)[j] \in Int
  BY BetFacts
<1>11. SumFunctionOnSet(Stake(s), DOMAIN s)
         = Stake(s)[i] + SumFunctionOnSet(Stake(s), DOMAIN s \ {i})
  BY <1>8, <1>10, SumSplit
<1>12. Stake(s)[i] = s[i].amount /\ s[i].amount \in Nat
  BY BetFacts
<1>13. Stakes(s) = s[i].amount + Stakes(r)
  BY <1>6, <1>9, <1>11, <1>12 DEF Stakes
<1>14. Stakes(r) \in Nat
  BY <1>1, StakesNat
<1> QED
  BY <1>12, <1>13, <1>14 DEF r

\* A bet that is appended adds its amount.
LEMMA AppendedStakes ==
    ASSUME NEW s \in Seq(Bet), NEW b \in Bet
    PROVE  /\ Append(s, b) \in Seq(Bet)
           /\ Len(Append(s, b)) = Len(s) + 1
           /\ Append(s, b)[Len(s) + 1] = b
           /\ \A i \in DOMAIN s : Append(s, b)[i] = s[i]
           /\ Stakes(Append(s, b)) = Stakes(s) + b.amount
<1> DEFINE r == Append(s, b)
           n == Len(s) + 1
<1>0. /\ r \in Seq(Bet) /\ Len(r) = Len(s) + 1 /\ r[n] = b
      /\ \A i \in 1..Len(s) : r[i] = s[i]
  OBVIOUS
<1>1. /\ r \in Seq(Bet) /\ Len(r) = Len(s) + 1 /\ r[n] = b /\ n \in DOMAIN r
      /\ DOMAIN r \ {n} = DOMAIN s /\ \A i \in DOMAIN s : r[i] = s[i]
  <2>1. DOMAIN s = 1..Len(s) /\ Len(s) \in Nat
    OBVIOUS
  <2>2. DOMAIN r = 1..n
    BY <1>0
  <2>3. 1..n = (1..Len(s)) \cup {n} /\ n \notin 1..Len(s)
    BY <2>1
  <2> HIDE DEF r
  <2> QED
    BY <1>0, <2>1, <2>2, <2>3
<1> HIDE DEF r
<1>2. IsFiniteSet(DOMAIN r) /\ IsFiniteSet(DOMAIN s) /\ \A i \in DOMAIN r : Stake(r)[i] \in Int
  BY <1>1, BetFacts
<1>3. SumFunctionOnSet(Stake(r), DOMAIN r)
        = Stake(r)[n] + SumFunctionOnSet(Stake(r), DOMAIN r \ {n})
  BY <1>1, <1>2, SumSplit
<1>4. \A i \in DOMAIN s : Stake(s)[i] \in Int /\ Stake(r)[i] = Stake(s)[i]
  BY <1>1, BetFacts
<1>5. SumFunctionOnSet(Stake(r), DOMAIN s) = SumFunctionOnSet(Stake(s), DOMAIN s)
  BY <1>2, <1>4, SumSame
<1>6. Stake(r)[n] = b.amount /\ b.amount \in Nat
  BY <1>1, BetFacts
<1>7. Stakes(s) \in Nat
  BY StakesNat
<1>8. Stakes(r) = Stakes(s) + b.amount
  BY <1>1, <1>3, <1>5, <1>6, <1>7 DEF Stakes
<1> QED
  BY <1>1, <1>8 DEF r

-----------------------------------------------------------------------------
(* The money of an exchange, and what its positions would pay beyond the    *)
(* stakes if a market is won or lost.                                      *)

Balances(y) == SumFunctionOnSet(y.bal, Account)

Staked(y, m) == SumFunctionOnSet([a \in Account |-> y.pos[a][m].canceled], Account)

AllStaked(y) == SumFunctionOnSet([m \in Market |-> Staked(y, m)], Market)

Money(y) == Balances(y) + Stakes(y.bets) + AllStaked(y)

OwedWon(p) == p.win + p.played - p.canceled

OwedLost(p) == p.lose + p.played - p.canceled

ExcessWon(y, m) == SumFunctionOnSet([a \in Account |-> OwedWon(y.pos[a][m])], Account)

ExcessLost(y, m) == SumFunctionOnSet([a \in Account |-> OwedLost(y.pos[a][m])], Account)

\* Nothing of the money or of what the positions owe is gained or lost from y to z.
Even(y, z) ==
    /\ Money(z) = Money(y)
    /\ \A m \in Market : ExcessWon(z, m) = ExcessWon(y, m) /\ ExcessLost(z, m) = ExcessLost(y, m)

\* The parts of an exchange.
LEMMA ExchangeFacts ==
    ASSUME NEW y \in Exchange
    PROVE  /\ y.bal \in [Account -> Nat] /\ y.bets \in Seq(Bet)
           /\ y.pos \in [Account -> [Market -> Position]]
           /\ \A a \in Account : y.bal[a] \in Nat
           /\ \A a \in Account, m \in Market :
                /\ y.pos[a][m] \in Position
                /\ y.pos[a][m].canceled \in Nat
                /\ OwedWon(y.pos[a][m]) \in Int
                /\ OwedLost(y.pos[a][m]) \in Int
<1>1. /\ y.bal \in [Account -> Nat] /\ y.bets \in Seq(Bet)
      /\ y.pos \in [Account -> [Market -> Position]]
  BY DEF Exchange
<1>2. \A p \in Position : p.canceled \in Nat /\ OwedWon(p) \in Int /\ OwedLost(p) \in Int
  BY DEF Position, OwedWon, OwedLost
<1>3. \A a \in Account, m \in Market : y.pos[a][m] \in Position
  BY <1>1
<1> QED
  BY <1>1, <1>2, <1>3

\* The sums are integers.
LEMMA MoneyTypes ==
    ASSUME NEW y \in Exchange
    PROVE  /\ Balances(y) \in Nat /\ Stakes(y.bets) \in Nat /\ AllStaked(y) \in Nat
           /\ Money(y) \in Nat
           /\ \A m \in Market :
                /\ Staked(y, m) \in Nat
                /\ ExcessWon(y, m) \in Int /\ ExcessLost(y, m) \in Int
<1>1. IsFiniteSet(Account) /\ IsFiniteSet(Market)
  BY BetAssumption
<1>2. Balances(y) \in Nat
  BY <1>1, ExchangeFacts, SumNat DEF Balances
<1>3. Stakes(y.bets) \in Nat
  BY ExchangeFacts, StakesNat
<1>4. ASSUME NEW m \in Market
      PROVE  /\ Staked(y, m) \in Nat
             /\ ExcessWon(y, m) \in Int /\ ExcessLost(y, m) \in Int
  <2> DEFINE f == [a \in Account |-> y.pos[a][m].canceled]
             g == [a \in Account |-> OwedWon(y.pos[a][m])]
             h == [a \in Account |-> OwedLost(y.pos[a][m])]
  <2>1. \A a \in Account : f[a] \in Nat /\ g[a] \in Int /\ h[a] \in Int
    BY ExchangeFacts
  <2> HIDE DEF f, g, h
  <2>2. /\ SumFunctionOnSet(f, Account) \in Nat
        /\ SumFunctionOnSet(g, Account) \in Int /\ SumFunctionOnSet(h, Account) \in Int
    BY <1>1, <2>1, SumNat, SumInt
  <2> QED
    BY <2>2 DEF f, g, h, Staked, ExcessWon, ExcessLost
<1>5. AllStaked(y) \in Nat
  <2> DEFINE f == [m \in Market |-> Staked(y, m)]
  <2>1. \A m \in Market : f[m] \in Nat
    BY <1>4
  <2> HIDE DEF f
  <2>2. SumFunctionOnSet(f, Market) \in Nat
    BY <1>1, <2>1, SumNat
  <2> QED
    BY <2>2 DEF f, AllStaked
<1>6. Money(y) \in Nat
  BY <1>2, <1>3, <1>5 DEF Money
<1> QED
  BY <1>2, <1>3, <1>4, <1>5, <1>6

\* The positions determine the stakes and what is owed.
LEMMA SamePositions ==
    ASSUME NEW y, NEW z, z.pos = y.pos
    PROVE  /\ AllStaked(z) = AllStaked(y)
           /\ \A m \in Market : ExcessWon(z, m) = ExcessWon(y, m) /\ ExcessLost(z, m) = ExcessLost(y, m)
  BY DEF AllStaked, Staked, ExcessWon, ExcessLost

\* A balance that changes changes the sum of the balances as much.
LEMMA BalanceChanged ==
    ASSUME NEW bal \in [Account -> Nat], NEW a \in Account, NEW n \in Nat
    PROVE  /\ [bal EXCEPT ![a] = n] \in [Account -> Nat]
           /\ SumFunctionOnSet([bal EXCEPT ![a] = n], Account)
                = SumFunctionOnSet(bal, Account) + (n - bal[a])
<1> DEFINE f == [bal EXCEPT ![a] = n]
<1>1. f \in [Account -> Nat] /\ f[a] = n /\ \A e \in Account \ {a} : f[e] = bal[e]
  OBVIOUS
<1> HIDE DEF f
<1>2. \A e \in Account : bal[e] \in Int /\ f[e] \in Int
  BY <1>1
<1>3. SumFunctionOnSet(f, Account) = SumFunctionOnSet(bal, Account) + (f[a] - bal[a])
  BY <1>1, <1>2, BetAssumption, SumAt
<1> QED
  BY <1>1, <1>3 DEF f

\* r is s with another amount, n, in bet i.
Amended(s, r, i, n) ==
    /\ r \in Seq(Bet) /\ Len(r) = Len(s) /\ DOMAIN r = DOMAIN s
    /\ \A j \in DOMAIN s \ {i} : r[j] = s[j]
    /\ r[i].amount = n
    /\ r[i].bettor = s[i].bettor /\ r[i].market = s[i].market
    /\ r[i].odds = s[i].odds /\ r[i].side = s[i].side /\ r[i].delayed = s[i].delayed

\* Replacing an amount amends the bets and their sum.
LEMMA AmountChanged ==
    ASSUME NEW s \in Seq(Bet), NEW i \in DOMAIN s, NEW n \in Nat,
           NEW r, r = [s EXCEPT ![i].amount = n]
    PROVE  Amended(s, r, i, n) /\ Stakes(r) = Stakes(s) + (n - s[i].amount)
<1> DEFINE b == [s[i] EXCEPT !.amount = n]
<1>1. s[i] \in Bet
  OBVIOUS
<1>2. /\ b \in Bet /\ b.amount = n
      /\ b.bettor = s[i].bettor /\ b.market = s[i].market
      /\ b.odds = s[i].odds /\ b.side = s[i].side /\ b.delayed = s[i].delayed
  BY <1>1 DEF Bet
<1>3. r = [s EXCEPT ![i] = b]
  OBVIOUS
<1> HIDE DEF b
<1>4. /\ r \in Seq(Bet) /\ Len(r) = Len(s) /\ r[i] = b /\ DOMAIN r = DOMAIN s
      /\ \A j \in DOMAIN s \ {i} : r[j] = s[j]
  BY <1>2, <1>3
<1>5. Stakes(r) = Stakes(s) + (r[i].amount - s[i].amount)
  BY <1>4, ChangedStakes
<1> QED
  BY <1>2, <1>4, <1>5 DEF Amended

\* A position that changes changes the sums over its market as much.
LEMMA PositionChanged ==
    ASSUME NEW y \in Exchange, NEW z \in Exchange, NEW u \in Account, NEW m \in Market,
           \A a \in Account, k \in Market : (a = u /\ k = m) \/ z.pos[a][k] = y.pos[a][k]
    PROVE  LET p == y.pos[u][m]
               q == z.pos[u][m]
           IN  /\ AllStaked(z) = AllStaked(y) + (q.canceled - p.canceled)
               /\ ExcessWon(z, m) = ExcessWon(y, m) + (OwedWon(q) - OwedWon(p))
               /\ ExcessLost(z, m) = ExcessLost(y, m) + (OwedLost(q) - OwedLost(p))
               /\ \A k \in Market \ {m} :
                    ExcessWon(z, k) = ExcessWon(y, k) /\ ExcessLost(z, k) = ExcessLost(y, k)
<1> DEFINE p == y.pos[u][m]
           q == z.pos[u][m]
           C(x1, k) == [a \in Account |-> x1.pos[a][k].canceled]
           W(x1, k) == [a \in Account |-> OwedWon(x1.pos[a][k])]
           L(x1, k) == [a \in Account |-> OwedLost(x1.pos[a][k])]
<1>0. IsFiniteSet(Account) /\ IsFiniteSet(Market)
  BY BetAssumption
<1>1. \A x1 \in {y, z} : \A k \in Market, a \in Account :
        C(x1, k)[a] \in Int /\ W(x1, k)[a] \in Int /\ L(x1, k)[a] \in Int
  BY ExchangeFacts
<1>2. ASSUME NEW k \in Market, NEW a \in Account, a # u \/ k # m
      PROVE  C(z, k)[a] = C(y, k)[a] /\ W(z, k)[a] = W(y, k)[a] /\ L(z, k)[a] = L(y, k)[a]
  <2>1. z.pos[a][k] = y.pos[a][k]
    BY <1>2
  <2> QED
    BY <2>1
<1>3. /\ C(y, m)[u] = p.canceled /\ C(z, m)[u] = q.canceled
      /\ W(y, m)[u] = OwedWon(p) /\ W(z, m)[u] = OwedWon(q)
      /\ L(y, m)[u] = OwedLost(p) /\ L(z, m)[u] = OwedLost(q)
  OBVIOUS
<1>4. \A x1 \in {y, z} : \A k \in Market :
        /\ Staked(x1, k) = SumFunctionOnSet(C(x1, k), Account)
        /\ ExcessWon(x1, k) = SumFunctionOnSet(W(x1, k), Account)
        /\ ExcessLost(x1, k) = SumFunctionOnSet(L(x1, k), Account)
  BY DEF Staked, ExcessWon, ExcessLost
<1> HIDE DEF C, W, L, p, q
<1>5. /\ Staked(z, m) = Staked(y, m) + (q.canceled - p.canceled)
      /\ ExcessWon(z, m) = ExcessWon(y, m) + (OwedWon(q) - OwedWon(p))
      /\ ExcessLost(z, m) = ExcessLost(y, m) + (OwedLost(q) - OwedLost(p))
  <2>1. SumFunctionOnSet(C(z, m), Account)
          = SumFunctionOnSet(C(y, m), Account) + (C(z, m)[u] - C(y, m)[u])
    <3>1. \A e \in Account : C(y, m)[e] \in Int /\ C(z, m)[e] \in Int
      BY <1>1
    <3>2. \A e \in Account \ {u} : C(z, m)[e] = C(y, m)[e]
      BY <1>2
    <3> QED
      BY <1>0, <3>1, <3>2, SumAt
  <2>2. SumFunctionOnSet(W(z, m), Account)
          = SumFunctionOnSet(W(y, m), Account) + (W(z, m)[u] - W(y, m)[u])
    <3>1. \A e \in Account : W(y, m)[e] \in Int /\ W(z, m)[e] \in Int
      BY <1>1
    <3>2. \A e \in Account \ {u} : W(z, m)[e] = W(y, m)[e]
      BY <1>2
    <3> QED
      BY <1>0, <3>1, <3>2, SumAt
  <2>3. SumFunctionOnSet(L(z, m), Account)
          = SumFunctionOnSet(L(y, m), Account) + (L(z, m)[u] - L(y, m)[u])
    <3>1. \A e \in Account : L(y, m)[e] \in Int /\ L(z, m)[e] \in Int
      BY <1>1
    <3>2. \A e \in Account \ {u} : L(z, m)[e] = L(y, m)[e]
      BY <1>2
    <3> QED
      BY <1>0, <3>1, <3>2, SumAt
  <2> QED
    BY <1>3, <1>4, <2>1, <2>2, <2>3
<1>6. ASSUME NEW k \in Market \ {m}
      PROVE  /\ Staked(z, k) = Staked(y, k)
             /\ ExcessWon(z, k) = ExcessWon(y, k) /\ ExcessLost(z, k) = ExcessLost(y, k)
  <2>1. SumFunctionOnSet(C(z, k), Account) = SumFunctionOnSet(C(y, k), Account)
    BY <1>0, <1>1, <1>2, SumSame
  <2>2. SumFunctionOnSet(W(z, k), Account) = SumFunctionOnSet(W(y, k), Account)
    BY <1>0, <1>1, <1>2, SumSame
  <2>3. SumFunctionOnSet(L(z, k), Account) = SumFunctionOnSet(L(y, k), Account)
    BY <1>0, <1>1, <1>2, SumSame
  <2> QED
    BY <1>4, <2>1, <2>2, <2>3
<1>7. AllStaked(z) = AllStaked(y) + (q.canceled - p.canceled)
  <2> DEFINE f == [k \in Market |-> Staked(y, k)]
             g == [k \in Market |-> Staked(z, k)]
  <2>1. \A k \in Market : f[k] \in Int /\ g[k] \in Int
    BY MoneyTypes
  <2>2. \A k \in Market \ {m} : g[k] = f[k]
    BY <1>6
  <2>3. f[m] = Staked(y, m) /\ g[m] = Staked(z, m)
    OBVIOUS
  <2>4. AllStaked(y) = SumFunctionOnSet(f, Market) /\ AllStaked(z) = SumFunctionOnSet(g, Market)
    BY DEF AllStaked
  <2> HIDE DEF f, g
  <2>5. SumFunctionOnSet(g, Market) = SumFunctionOnSet(f, Market) + (g[m] - f[m])
    BY <1>0, <2>1, <2>2, SumAt
  <2>6. Staked(y, m) \in Int
    BY MoneyTypes
  <2>7. q.canceled \in Int /\ p.canceled \in Int
    BY ExchangeFacts DEF p, q
  <2> QED
    BY <1>5, <2>3, <2>4, <2>5, <2>6, <2>7
<1> QED
  BY <1>5, <1>6, <1>7 DEF p, q

-----------------------------------------------------------------------------
(* Refunds, recorded matches and removals.                                 *)

\* A refund moves money from a bet to its bettor.
LEMMA RefundedFacts ==
    ASSUME NEW y \in Exchange, NEW i \in DOMAIN y.bets, NEW n \in 0..y.bets[i].amount
    PROVE  /\ Refunded(y, i, n) \in Exchange
           /\ Amended(y.bets, Refunded(y, i, n).bets, i, y.bets[i].amount - n)
           /\ Even(y, Refunded(y, i, n))
<1> DEFINE s == y.bets
           u == s[i].bettor
           k == s[i].amount - n
           w == y.bal[u] + n
           bal == [y.bal EXCEPT ![u] = w]
           bets == [s EXCEPT ![i].amount = k]
           z == [y EXCEPT !.bal = bal, !.bets = bets]
<1>1. /\ s \in Seq(Bet) /\ y.bal \in [Account -> Nat]
      /\ u \in Account /\ s[i].amount \in Nat /\ y.bal[u] \in Nat /\ i \in DOMAIN s
  BY ExchangeFacts, BetFacts
<1>2. k \in Nat /\ w \in Nat /\ n \in Nat
  BY <1>1
<1>3. Refunded(y, i, n) = z
  BY DEF Refunded, Exchange
<1>4. y.bets = s
  OBVIOUS
<1> HIDE DEF s, u, k, w
<1>5. /\ bal \in [Account -> Nat]
      /\ SumFunctionOnSet(bal, Account) = SumFunctionOnSet(y.bal, Account) + (w - y.bal[u])
  BY <1>1, <1>2, BalanceChanged
<1> HIDE DEF bal
<1>e. bets = [s EXCEPT ![i].amount = k]
  OBVIOUS
<1> HIDE DEF bets
<1>6. Amended(s, bets, i, k) /\ Stakes(bets) = Stakes(s) + (k - s[i].amount)
  BY <1>1, <1>2, <1>e, AmountChanged
<1>7. z \in Exchange /\ z.bal = bal /\ z.bets = bets /\ z.pos = y.pos
  BY <1>5, <1>6 DEF Exchange, Amended
<1> HIDE DEF z
<1>8. Money(z) = Money(y)
  <2>1. AllStaked(z) = AllStaked(y) /\ AllStaked(y) \in Nat
    BY <1>7, SamePositions, MoneyTypes
  <2>2. Balances(z) = Balances(y) + (w - y.bal[u])
    BY <1>5, <1>7 DEF Balances
  <2>3. Stakes(z.bets) = Stakes(s) + (k - s[i].amount)
    BY <1>6, <1>7
  <2>4. Balances(y) \in Nat /\ Stakes(s) \in Nat
    BY <1>4, MoneyTypes
  <2>5. w = y.bal[u] + n /\ k = s[i].amount - n
    BY DEF w, k
  <2>6. Money(y) = Balances(y) + Stakes(s) + AllStaked(y)
    BY <1>4 DEF Money
  <2>7. Money(z) = Balances(z) + Stakes(z.bets) + AllStaked(z)
    BY DEF Money
  <2>8. y.bal[u] \in Nat /\ s[i].amount \in Nat
    BY <1>1
  <2>9. w - y.bal[u] = n /\ k - s[i].amount = 0 - n
    BY <1>2, <2>5, <2>8
  <2> QED
    BY <1>2, <2>1, <2>2, <2>3, <2>4, <2>6, <2>7, <2>9
<1>9. Even(y, z)
  BY <1>7, <1>8, SamePositions DEF Even
<1> QED
  BY <1>3, <1>6, <1>7, <1>9 DEF k, s

-----------------------------------------------------------------------------
(* Bets recorded, canceled and dropped.                                    *)

\* What the positions of market m owe changes by won or lost, and no other does.
Shifted(y, z, m, won, lost) ==
    /\ ExcessWon(z, m) = ExcessWon(y, m) + won
    /\ ExcessLost(z, m) = ExcessLost(y, m) + lost
    /\ \A k \in Market \ {m} :
         ExcessWon(z, k) = ExcessWon(y, k) /\ ExcessLost(z, k) = ExcessLost(y, k)

\* bet_was_matched() turns a stake into a position, and pays what is sure: the
\* money stays, and the position owes what the other side of the match put in.
LEMMA RecordedFacts ==
    ASSUME NEW y \in Exchange, NEW i \in DOMAIN y.bets, NEW n \in 1..y.bets[i].amount,
           NEW k \in Nat
    PROVE  LET b == y.bets[i]
               z == Recorded(y, i, n, k)
           IN  /\ z \in Exchange
               /\ Amended(y.bets, z.bets, i, b.amount - n)
               /\ Money(z) = Money(y)
               /\ Shifted(y, z, b.market, IF b.side = "back" THEN k ELSE -n,
                                          IF b.side = "lay" THEN k ELSE -n)
<1> DEFINE s == y.bets
           b == s[i]
           u == b.bettor
           m == b.market
           e == b.side
           p == y.pos[u][m]
           a == Adjusted(p, e, n, k)
           q == a.pos
           c == a.paid
           gain == IF e = "back" THEN n + k ELSE 0
           loss == IF e = "lay" THEN n + k ELSE 0
           h == b.amount - n
           w == y.bal[u] + c
           bal == [y.bal EXCEPT ![u] = w]
           bets == [s EXCEPT ![i].amount = h]
           pos == [y.pos EXCEPT ![u][m] = q]
           z == [y EXCEPT !.pos = pos, !.bal = bal, !.bets = bets]
<1>1. /\ s \in Seq(Bet) /\ y.bal \in [Account -> Nat] /\ i \in DOMAIN s
      /\ y.pos \in [Account -> [Market -> Position]]
      /\ u \in Account /\ m \in Market /\ e \in Side
      /\ s[i].amount \in Nat /\ y.bal[u] \in Nat /\ p \in Position
  BY ExchangeFacts, BetFacts
<1>a. p \in Position /\ e \in Side /\ y.bal[u] \in Nat
  BY <1>1
<1>2. h \in Nat /\ n \in Nat \ {0}
  BY <1>1
<1>3. Recorded(y, i, n, k) = z
  BY DEF Recorded, Exchange
<1>4. y.bets = s
  OBVIOUS
<1> HIDE DEF p, e
<1>5. /\ q \in Position /\ c \in Nat
      /\ q.canceled = p.canceled + n - c
      /\ q.win + q.played = p.win + p.played + gain - c
      /\ q.lose + q.played = p.lose + p.played + loss - c
  BY <1>a, <1>2, AdjustedFacts
<1> HIDE DEF q, c, u
<1>6. w \in Nat
  BY <1>a, <1>5
<1> HIDE DEF s, m, h, w, gain, loss
<1>7. /\ bal \in [Account -> Nat]
      /\ SumFunctionOnSet(bal, Account) = SumFunctionOnSet(y.bal, Account) + (w - y.bal[u])
  BY <1>1, <1>6, BalanceChanged, Zenon
<1>e. bets = [s EXCEPT ![i].amount = h]
  OBVIOUS
<1> HIDE DEF bal, bets
<1>8. Amended(s, bets, i, h) /\ Stakes(bets) = Stakes(s) + (h - s[i].amount)
  BY <1>1, <1>2, <1>e, AmountChanged
<1>9. /\ pos \in [Account -> [Market -> Position]] /\ pos[u][m] = q
      /\ \A g \in Account, d \in Market : (g = u /\ d = m) \/ pos[g][d] = y.pos[g][d]
  BY <1>1, <1>5
<1> HIDE DEF pos
<1>10. z \in Exchange /\ z.bal = bal /\ z.bets = bets /\ z.pos = pos
  BY <1>7, <1>8, <1>9 DEF Exchange, Amended
<1> HIDE DEF z
<1>11. \A g \in Account, d \in Market : (g = u /\ d = m) \/ z.pos[g][d] = y.pos[g][d]
  BY <1>9, <1>10
<1>12. /\ AllStaked(z) = AllStaked(y) + (q.canceled - p.canceled)
       /\ ExcessWon(z, m) = ExcessWon(y, m) + (OwedWon(q) - OwedWon(p))
       /\ ExcessLost(z, m) = ExcessLost(y, m) + (OwedLost(q) - OwedLost(p))
       /\ \A d \in Market \ {m} :
            ExcessWon(z, d) = ExcessWon(y, d) /\ ExcessLost(z, d) = ExcessLost(y, d)
  <2>1. y.pos[u][m] = p /\ z.pos[u][m] = q
    BY <1>9, <1>10 DEF p
  <2> QED
    BY <1>1, <1>10, <1>11, <2>1, PositionChanged
<1>13. /\ p.canceled \in Nat /\ p.win \in Nat /\ p.lose \in Nat /\ p.played \in Nat
       /\ q.canceled \in Nat /\ q.win \in Nat /\ q.lose \in Nat /\ q.played \in Nat
  BY <1>1, <1>5 DEF Position
<1>14. Money(z) = Money(y)
  <2>1. Balances(z) = Balances(y) + (w - y.bal[u])
    BY <1>7, <1>10 DEF Balances
  <2>2. Stakes(z.bets) = Stakes(s) + (h - s[i].amount)
    BY <1>8, <1>10
  <2>3. Balances(y) \in Nat /\ Stakes(s) \in Nat /\ AllStaked(y) \in Nat
    BY <1>4, MoneyTypes
  <2>4. w - y.bal[u] = c /\ h - s[i].amount = 0 - n
    BY <1>1, <1>2, <1>5 DEF w, h
  <2>8. q.canceled - p.canceled = n - c
    BY <1>2, <1>5, <1>13
  <2>5. Money(y) = Balances(y) + Stakes(s) + AllStaked(y)
    BY <1>4 DEF Money
  <2>6. Money(z) = Balances(z) + Stakes(z.bets) + AllStaked(z)
    BY DEF Money
  <2>7. c \in Nat /\ AllStaked(z) = AllStaked(y) + (q.canceled - p.canceled)
    BY <1>5, <1>12
  <2> QED
    BY <1>2, <2>1, <2>2, <2>3, <2>4, <2>5, <2>6, <2>7, <2>8
<1>15. OwedWon(q) - OwedWon(p) = gain - n /\ OwedLost(q) - OwedLost(p) = loss - n
  <2>1. gain \in Nat /\ loss \in Nat
    BY <1>2 DEF gain, loss
  <2> QED
    <3>1. OwedWon(q) = (q.win + q.played) - q.canceled /\ OwedWon(p) = (p.win + p.played) - p.canceled
      BY <1>13 DEF OwedWon
    <3>2. OwedLost(q) = (q.lose + q.played) - q.canceled /\ OwedLost(p) = (p.lose + p.played) - p.canceled
      BY <1>13 DEF OwedLost
    <3>3. OwedWon(q) - OwedWon(p) = gain - n
      BY <1>2, <1>5, <1>13, <2>1, <3>1
    <3>4. OwedLost(q) - OwedLost(p) = loss - n
      BY <1>2, <1>5, <1>13, <2>1, <3>2
    <3> QED
      BY <3>3, <3>4
<1>16. /\ gain - n = IF e = "back" THEN k ELSE -n
       /\ loss - n = IF e = "lay" THEN k ELSE -n
  BY <1>2 DEF gain, loss
<1>17. Shifted(y, z, m, IF e = "back" THEN k ELSE -n, IF e = "lay" THEN k ELSE -n)
  BY <1>12, <1>15, <1>16 DEF Shifted
<1> QED
  BY <1>3, <1>8, <1>10, <1>14, <1>17 DEF h, s, m, e

\* cancel_bet() pays a bet back and removes it.
LEMMA CanceledFacts ==
    ASSUME NEW y \in Exchange, NEW i \in DOMAIN y.bets
    PROVE  LET z == BetCanceled(y, i)
           IN  /\ z \in Exchange /\ z.bets = Without(y.bets, i) /\ Even(y, z)
               /\ z.pos = y.pos /\ \A a \in Account : z.bal[a] >= y.bal[a]
<1> DEFINE s == y.bets
           u == s[i].bettor
           w == y.bal[u] + s[i].amount
           bal == [y.bal EXCEPT ![u] = w]
           bets == Without(s, i)
           z == [y EXCEPT !.bal = bal, !.bets = bets]
<1>1. /\ s \in Seq(Bet) /\ y.bal \in [Account -> Nat] /\ i \in DOMAIN s
      /\ u \in Account /\ s[i].amount \in Nat /\ y.bal[u] \in Nat
  BY ExchangeFacts, BetFacts
<1>2. w \in Nat
  <2>1. s[i].amount \in Nat /\ y.bal[u] \in Nat
    BY <1>1
  <2> HIDE DEF s, u
  <2> QED
    BY <2>1
<1>3. BetCanceled(y, i) = z
  BY DEF BetCanceled, Exchange
<1>4. y.bets = s
  OBVIOUS
<1> HIDE DEF s, u, w
<1>5. /\ bal \in [Account -> Nat]
      /\ SumFunctionOnSet(bal, Account) = SumFunctionOnSet(y.bal, Account) + (w - y.bal[u])
  BY <1>1, <1>2, BalanceChanged
<1>6. bets \in Seq(Bet) /\ Stakes(bets) = Stakes(s) - s[i].amount
  BY <1>1, RemovedBet, RemovedStakes
<1>b. \A a \in Account : bal[a] >= y.bal[a]
  BY <1>1, <1>2 DEF w
<1> HIDE DEF bal, bets
<1>7. z \in Exchange /\ z.bal = bal /\ z.bets = bets /\ z.pos = y.pos
  BY <1>5, <1>6 DEF Exchange
<1> HIDE DEF z
<1>8. Money(z) = Money(y)
  <2>1. AllStaked(z) = AllStaked(y) /\ AllStaked(y) \in Nat
    BY <1>7, SamePositions, MoneyTypes
  <2>2. Balances(z) = Balances(y) + (w - y.bal[u])
    BY <1>5, <1>7 DEF Balances
  <2>3. Stakes(z.bets) = Stakes(s) - s[i].amount
    BY <1>6, <1>7
  <2>4. Balances(y) \in Nat /\ Stakes(s) \in Nat
    BY <1>4, MoneyTypes
  <2>5. w - y.bal[u] = s[i].amount /\ s[i].amount \in Nat
    BY <1>1 DEF w
  <2>6. Money(y) = Balances(y) + Stakes(s) + AllStaked(y)
    BY <1>4 DEF Money
  <2>7. Money(z) = Balances(z) + Stakes(z.bets) + AllStaked(z)
    BY DEF Money
  <2> QED
    BY <2>1, <2>2, <2>3, <2>4, <2>5, <2>6, <2>7
<1>9. Even(y, z)
  BY <1>7, <1>8, SamePositions DEF Even
<1> QED
  BY <1>3, <1>4, <1>7, <1>9, <1>b DEF bets

\* A bet of nothing can be removed at no cost.
LEMMA DroppedFacts ==
    ASSUME NEW y \in Exchange, NEW i \in DOMAIN y.bets
    PROVE  LET z == Dropped(y, i)
           IN  /\ z \in Exchange /\ Even(y, z)
               /\ z.bets = IF y.bets[i].amount = 0 THEN Without(y.bets, i) ELSE y.bets
<1>1. CASE y.bets[i].amount # 0
  BY <1>1 DEF Dropped, Even
<1>2. CASE y.bets[i].amount = 0
  <2> DEFINE bets == Without(y.bets, i)
             z == [y EXCEPT !.bets = bets]
  <2>1. Dropped(y, i) = z
    BY <1>2 DEF Dropped, Exchange
  <2>2. y.bets \in Seq(Bet)
    BY ExchangeFacts
  <2>3. bets \in Seq(Bet) /\ Stakes(bets) = Stakes(y.bets) - y.bets[i].amount
    BY <2>2, RemovedBet, RemovedStakes
  <2> HIDE DEF bets
  <2>4. z \in Exchange /\ z.bal = y.bal /\ z.bets = bets /\ z.pos = y.pos
    BY <2>3 DEF Exchange
  <2> HIDE DEF z
  <2>5. Money(z) = Money(y)
    <3>1. AllStaked(z) = AllStaked(y) /\ AllStaked(y) \in Nat /\ Stakes(y.bets) \in Nat
      BY <2>4, SamePositions, MoneyTypes
    <3>2. Balances(z) = Balances(y)
      BY <2>4 DEF Balances
    <3>3. Stakes(z.bets) = Stakes(y.bets)
      BY <1>2, <2>3, <2>4, <3>1
    <3> QED
      BY <3>1, <3>2, <3>3 DEF Money
  <2>6. Even(y, z)
    BY <2>4, <2>5, SamePositions DEF Even
  <2> QED
    BY <1>2, <2>1, <2>4, <2>6 DEF bets
<1> QED
  BY <1>1, <1>2

-----------------------------------------------------------------------------
(* Amounts of a match.                                                     *)

\* What a taker pays at the maker's odds is no more than at its own.
LEMMA Dearer ==
    ASSUME NEW l1 \in Nat, NEW b1 \in Nat, NEW l2 \in Nat, NEW b2 \in Nat \ {0},
           NEW f \in Nat, NEW g \in Nat,
           l1 * b2 <= l2 * b1, f * b1 <= g * b2
    PROVE  f * l1 <= g * l2
<1>1. f * (l1 * b2) <= f * (l2 * b1)
  OBVIOUS
<1>2. l2 * (f * b1) <= l2 * (g * b2)
  OBVIOUS
<1>3. f * (l2 * b1) = l2 * (f * b1)
  OBVIOUS
<1>4. f * (l1 * b2) = (f * l1) * b2 /\ l2 * (g * b2) = (g * l2) * b2
  OBVIOUS
<1>5. f * l1 \in Nat /\ g * l2 \in Nat /\ (f * l1) * b2 \in Nat /\ (g * l2) * b2 \in Nat
  OBVIOUS
<1>6. f * (l2 * b1) \in Nat /\ f * (l1 * b2) \in Nat
  OBVIOUS
<1>7. (f * l1) * b2 <= (g * l2) * b2
  BY <1>1, <1>2, <1>3, <1>4, <1>5, <1>6
<1> QED
  BY <1>5, <1>7, Times

\* An amount that can be matched completely at the bet's own odds.
ExactBet(b) == b.amount > 0 /\ b.amount % Unit(b) = 0

\* The amounts of match_bet() are covered by both bets, leave the maker's bet
\* exact, and are either both positive or both zero.
LEMMA MatchingFacts ==
    ASSUME NEW t \in Bet, NEW b \in Bet, Crosses(t, b), ExactBet(t), ExactBet(b)
    PROVE  LET m == Matching(t, b)
           IN  /\ m.taker \in 0..t.amount /\ m.maker \in 0..b.amount
               /\ m.maker # 0 => m.taker # 0
               /\ (b.amount - m.maker) % Unit(b) = 0
               /\ \E f \in Nat :
                    /\ m.taker = f * Ratio(b.odds)[t.side]
                    /\ m.maker = f * Ratio(b.odds)[b.side]
                    /\ t.side = "lay" => m.maker <= ExactMatch(t)
<1> DEFINE r == Ratio(b.odds)
           perTaker == r[t.side]
           perMaker == r[b.side]
           pays == t.amount \div perTaker
           most == ExactMatch(t) \div perMaker
           wants == IF t.side = "lay" THEN Smallest(pays, most) ELSE pays
           has == b.amount \div perMaker
           f == Smallest(wants, has)
           m == Matching(t, b)
<1>1. /\ t.amount \in Nat /\ b.amount \in Nat /\ t.side \in Side /\ b.side \in Side
      /\ b.odds \in Odds /\ t.odds \in Odds
  BY DEF Bet, Side
<1>2. perTaker \in Nat \ {0} /\ perMaker \in Nat \ {0}
  BY <1>1, RatioFacts
<1>3. perMaker = Unit(b)
  BY DEF Unit
<1>4. m.taker = f * perTaker /\ m.maker = f * perMaker
  BY DEF Matching
<1>5. ExactMatch(t) \in Nat
  <2> DEFINE c == Ratio(t.odds)[Opposite(t.side)]
             u == Unit(t)
  <2>1. c \in Nat /\ u \in Nat \ {0}
    BY <1>1, RatioFacts, UnitFacts DEF Opposite, Side
  <2>2. ExactMatch(t) = (t.amount \div u) * c
    BY DEF ExactMatch
  <2> HIDE DEF c, u
  <2>3. t.amount \div u \in Nat
    BY <1>1, <2>1, Division
  <2> QED
    BY <2>1, <2>2, <2>3
<1> HIDE DEF perTaker, perMaker, m
<1>6. pays \in Nat /\ pays * perTaker <= t.amount
  <2>1. /\ pays \in Nat /\ t.amount % perTaker \in Nat
        /\ t.amount = (pays * perTaker) + (t.amount % perTaker)
    BY <1>1, <1>2, Division
  <2> HIDE DEF pays
  <2>2. pays * perTaker \in Nat
    BY <1>2, <2>1
  <2> QED
    BY <2>1, <2>2
<1>7. most \in Nat /\ most * perMaker <= ExactMatch(t)
  BY <1>2, <1>5, Division
<1>8. has \in Nat /\ b.amount = has * perMaker
  <2>1. has \in Nat /\ b.amount = (has * perMaker) + (b.amount % perMaker)
    BY <1>1, <1>2, Division
  <2>2. b.amount % perMaker = 0
    BY <1>3 DEF ExactBet
  <2> HIDE DEF has
  <2>3. has * perMaker \in Nat
    BY <1>2, <2>1
  <2> QED
    BY <2>1, <2>2, <2>3
<1> HIDE DEF pays, most, has
<1>9. /\ f \in Nat /\ f <= pays /\ f <= has
      /\ t.side = "lay" => f <= most
  BY <1>6, <1>7, <1>8 DEF Smallest
<1> HIDE DEF f
<1>10. f * perTaker \in Nat /\ f * perTaker <= t.amount
  <2>1. f * perTaker <= pays * perTaker /\ f * perTaker \in Nat /\ pays * perTaker \in Nat
    BY <1>2, <1>6, <1>9, Times
  <2> QED
    BY <1>1, <1>6, <2>1
<1>11. f * perMaker \in Nat /\ f * perMaker <= b.amount
  BY <1>2, <1>8, <1>9, Times
<1>12. (b.amount - m.maker) % Unit(b) = 0
  <2>1. b.amount - f * perMaker = (has - f) * perMaker
    BY <1>2, <1>8, <1>9
  <2>2. has - f \in Nat
    BY <1>8, <1>9
  <2>3. ((has - f) * perMaker) % perMaker = 0
    BY <1>2, <2>2, Multiple
  <2> QED
    BY <1>3, <1>4, <2>1, <2>3
<1>13. t.side = "lay" => f * perMaker <= ExactMatch(t)
  <2>1. ASSUME t.side = "lay" PROVE f * perMaker <= most * perMaker
    BY <1>2, <1>7, <1>9, <2>1, Times
  <2>2. most * perMaker \in Nat
    BY <1>2, <1>7
  <2> QED
    BY <1>5, <1>7, <1>11, <2>1, <2>2
<1>14. m.maker # 0 => m.taker # 0
  BY <1>2, <1>4, <1>9
<1> QED
  BY <1>1, <1>4, <1>9, <1>10, <1>11, <1>12, <1>13, <1>14 DEF perTaker, perMaker, m

\* What match_bet() leaves of a taker is covered by its amount and exact.
LEMMA LeftoverFacts ==
    ASSUME NEW t \in Bet, NEW b \in Bet, Crosses(t, b), ExactBet(t), ExactBet(b)
    PROVE  LET m == Matching(t, b)
           IN  /\ Leftover(t, m) \in 0..(t.amount - m.taker)
               /\ Leftover(t, m) % Unit(t) = 0
<1> DEFINE m == Matching(t, b)
           u == Unit(t)
<1>1. /\ t.amount \in Nat /\ t.side \in Side /\ b.odds \in Odds /\ t.odds \in Odds
      /\ b.odds \in Nat /\ t.odds \in Nat
  BY BetAssumption DEF Bet, Side
<1>2. u \in Nat \ {0}
  BY UnitFacts
<1>3. m.taker \in Nat /\ m.taker <= t.amount /\ m.maker \in Nat
  <2>1. m.taker \in 0..t.amount /\ m.maker \in 0..b.amount
    BY MatchingFacts
  <2>2. b.amount \in Nat
    BY DEF Bet
  <2> HIDE DEF m
  <2> QED
    BY <1>1, <2>1, <2>2
<1>4. CASE t.side = "back"
  <2> DEFINE v == (t.amount - m.taker) \div u
  <2>1. Leftover(t, m) = v * u
    BY <1>4 DEF Leftover
  <2> HIDE DEF m, u
  <2>2. t.amount - m.taker \in Nat
    BY <1>1, <1>3
  <2>3. v \in Nat /\ v * u <= t.amount - m.taker
    BY <1>2, <2>2, Division
  <2> HIDE DEF v
  <2>4. v * u \in Nat /\ (v * u) % u = 0
    BY <1>2, <2>3, Multiple
  <2> QED
    BY <2>1, <2>2, <2>3, <2>4 DEF m, u
<1>5. CASE t.side = "lay"
  <2> DEFINE b1 == Ratio(b.odds).back
             l1 == Ratio(b.odds).lay
             b2 == Ratio(t.odds).back
             l2 == Ratio(t.odds).lay
             q == t.amount \div l2
             v == (q * b2 - m.maker) \div b2
  <2>1. b.side = "back" /\ b.odds <= t.odds
    BY <1>5 DEF Crosses, Opposite
  <2>2. /\ b1 \in Nat \ {0} /\ l1 \in Nat \ {0} /\ b2 \in Nat \ {0} /\ l2 \in Nat \ {0}
        /\ u = l2
    BY <1>1, <1>5, RatioFacts, UnitFacts
  <2>3. ExactMatch(t) = q * b2
    BY <1>5, UnitFacts DEF ExactMatch
  <2>4. Leftover(t, m) = v * u
    BY <1>5, <2>2, <2>3 DEF Leftover
  <2>5. PICK f \in Nat : m.taker = f * l1 /\ m.maker = f * b1 /\ m.maker <= q * b2
    BY <1>5, <2>1, <2>3, MatchingFacts
  <2>6. t.amount % l2 = 0
    BY <2>2 DEF ExactBet
  <2>7. l1 * b2 <= l2 * b1
    BY <1>1, <2>1, RatioOrder
  <2> HIDE DEF b1, l1, b2, l2, m, u
  <2>8. q \in Nat /\ t.amount = q * l2
    <3>1. q \in Nat /\ t.amount = (q * l2) + (t.amount % l2)
      BY <1>1, <2>2, Division
    <3> HIDE DEF q
    <3>2. q * l2 \in Nat
      BY <2>2, <3>1
    <3> QED
      BY <2>6, <3>1, <3>2
  <2> HIDE DEF q
  <2>9. q * b2 \in Nat /\ q * b2 - m.maker \in Nat
    BY <1>3, <2>2, <2>5, <2>8
  <2>10. v \in Nat /\ v * b2 <= q * b2 - m.maker
    BY <2>2, <2>9, Division
  <2> HIDE DEF v
  <2>11. v <= q
    <3>1. v * b2 \in Nat /\ v * b2 <= q * b2
      BY <1>3, <2>2, <2>9, <2>10
    <3> QED
      BY <2>2, <2>8, <2>10, <3>1, Times
  <2>12. f * b1 <= (q - v) * b2 /\ q - v \in Nat
    BY <1>3, <2>2, <2>5, <2>8, <2>9, <2>10, <2>11
  <2>13. f * l1 <= (q - v) * l2
    BY <2>2, <2>7, <2>12, Dearer
  <2>14. v * l2 <= q * l2 - f * l1
    BY <2>2, <2>5, <2>8, <2>10, <2>13
  <2>15. v * l2 \in Nat /\ (v * l2) % l2 = 0
    BY <2>2, <2>10, Multiple
  <2> QED
    BY <1>1, <1>3, <2>2, <2>4, <2>5, <2>8, <2>14, <2>15 DEF m, u
<1> QED
  BY <1>1, <1>4, <1>5 DEF Side

-----------------------------------------------------------------------------
(* A match.                                                                *)

\* r is s after a match of bets i and j: both keep all but their amounts, which
\* are still whole units, and no other bet is touched.
Struck(s, r, i, j) ==
    /\ r \in Seq(Bet) /\ Len(r) = Len(s) /\ DOMAIN r = DOMAIN s
    /\ \A k \in DOMAIN s \ {i, j} : r[k] = s[k]
    /\ \A k \in {i, j} :
         /\ r[k].market = s[k].market /\ r[k].odds = s[k].odds
         /\ r[k].side = s[k].side /\ r[k].delayed = s[k].delayed
         /\ r[k].amount % Unit(r[k]) = 0

\* The unit of a bet does not depend on its amount.
LEMMA SameUnit ==
    ASSUME NEW b, NEW c, b.odds = c.odds, b.side = c.side
    PROVE  Unit(b) = Unit(c)
BY DEF Unit

\* Nothing is a whole number of units.
LEMMA NoUnits ==
    ASSUME NEW u \in Nat \ {0}
    PROVE  0 % u = 0
OBVIOUS

\* match_bet() takes as much from the two positions as it gives them, refunds
\* no more than there is, and leaves whole units of both bets.
LEMMA MatchedFacts ==
    ASSUME NEW y \in Exchange, NEW i \in DOMAIN y.bets, NEW j \in DOMAIN y.bets,
           Crosses(y.bets[i], y.bets[j]), ExactBet(y.bets[i]), ExactBet(y.bets[j])
    PROVE  LET z == Matched(y, i, j)
           IN  z \in Exchange /\ Even(y, z) /\ Struck(y.bets, z.bets, i, j)
<1> DEFINE s == y.bets
           t == s[i]
           b == s[j]
           m == Matching(t, b)
           n == m.taker
           k == m.maker
           done == k = b.amount
           left == Leftover(t, m)
           refund == IF done /\ n # t.amount THEN t.amount - n - left ELSE 0
           y1 == Refunded(y, i, refund)
           y2 == Recorded(y1, i, n, k)
           y3 == IF done THEN y2 ELSE AllRefunded(y2, i)
           z == Recorded(y3, j, k, n)
<1>1. /\ s \in Seq(Bet) /\ i \in DOMAIN s /\ j \in DOMAIN s /\ t \in Bet /\ b \in Bet
      /\ t.amount \in Nat /\ b.amount \in Nat /\ t.market \in Market
  BY ExchangeFacts, BetFacts
<1>2. /\ i # j /\ b.market = t.market /\ t.side \in Side /\ b.side = Opposite(t.side)
  <2>1. t.side \in Side
    BY <1>1 DEF Bet, Side
  <2> QED
    BY <2>1 DEF Crosses, Opposite, Side
<1>3. Matched(y, i, j) = IF k = 0 THEN y ELSE z
  BY DEF Matched, MatchedBy
<1>4. /\ Crosses(t, b) /\ ExactBet(t) /\ ExactBet(b) /\ y.bets = s
  OBVIOUS
<1>5. /\ n \in 0..t.amount /\ k \in 0..b.amount
      /\ k # 0 => n # 0
      /\ (b.amount - k) % Unit(b) = 0
      /\ left \in 0..(t.amount - n)
      /\ left % Unit(t) = 0
  <2> HIDE DEF t, b
  <2> QED
    BY <1>1, <1>4, MatchingFacts, LeftoverFacts
<1>6. CASE k = 0
  <2>1. Struck(s, s, i, j)
    BY <1>1, <1>4 DEF Struck, ExactBet
  <2>2. Even(y, y)
    BY DEF Even
  <2> QED
    BY <1>3, <1>6, <2>1, <2>2
<1>7. CASE k # 0
  <2>1. /\ n \in Nat \ {0} /\ k \in Nat \ {0} /\ n <= t.amount /\ k <= b.amount
        /\ left \in Nat /\ left <= t.amount - n
    <3>1. /\ n \in 0..t.amount /\ k \in 0..b.amount /\ n # 0
          /\ left \in 0..(t.amount - n)
      BY <1>5, <1>7
    <3>2. t.amount \in Nat /\ b.amount \in Nat
      BY <1>1
    <3> HIDE DEF t, b, n, k, left
    <3> QED
      BY <1>7, <3>1, <3>2
  <2>2. Unit(t) \in Nat \ {0} /\ Unit(b) \in Nat \ {0}
    BY <1>1, UnitFacts
  <2>3. t = s[i] /\ b = s[j] /\ y.bets[i] = t
    OBVIOUS
  <2> HIDE DEF s, t, b, n, k, left, done
  <2>4. refund \in Nat /\ refund <= t.amount - n
    BY <1>1, <2>1
  <2>5. /\ done => (t.amount - refund - n) % Unit(t) = 0
    <3>1. CASE done /\ n # t.amount
      <4>1. t.amount - refund - n = left
        BY <1>1, <2>1, <3>1
      <4> QED
        BY <1>5, <4>1
    <3>2. CASE done /\ n = t.amount
      <4>1. t.amount - refund - n = 0
        BY <1>1, <2>1, <3>2
      <4> QED
        BY <2>2, <4>1, NoUnits
    <3> QED
      BY <3>1, <3>2
  <2> HIDE DEF refund
  <2>6. /\ y1 \in Exchange /\ Even(y, y1)
        /\ Amended(s, y1.bets, i, t.amount - refund)
    <3>1. refund \in 0..y.bets[i].amount
      BY <1>1, <2>1, <2>3, <2>4
    <3> QED
      BY <1>1, <1>4, <2>3, <3>1, RefundedFacts
  <2> HIDE DEF y1
  <2>7. /\ y1.bets[i].amount = t.amount - refund /\ y1.bets[i].market = t.market
        /\ y1.bets[i].side = t.side /\ i \in DOMAIN y1.bets
    BY <1>1, <2>3, <2>6 DEF Amended
  <2>8. /\ y2 \in Exchange /\ Money(y2) = Money(y1)
        /\ Amended(y1.bets, y2.bets, i, (t.amount - refund) - n)
        /\ Shifted(y1, y2, t.market, IF t.side = "back" THEN k ELSE -n,
                                     IF t.side = "lay" THEN k ELSE -n)
    <3>1. n \in 1..y1.bets[i].amount /\ k \in Nat
      BY <1>1, <2>1, <2>4, <2>7
    <3> QED
      BY <2>6, <2>7, <3>1, RecordedFacts
  <2> HIDE DEF y2
  <2>9. PICK g \in Nat :
          /\ y3 \in Exchange /\ Even(y2, y3) /\ Amended(y2.bets, y3.bets, i, g)
          /\ g % Unit(t) = 0
    <3> DEFINE h == (t.amount - refund) - n
    <3>1. h \in Nat /\ y2.bets[i].amount = h /\ i \in DOMAIN y2.bets
      <4>1. h \in Nat
        BY <1>1, <2>1, <2>4
      <4> HIDE DEF h
      <4>2. Amended(y1.bets, y2.bets, i, h)
        BY <2>8 DEF h
      <4> QED
        BY <2>7, <4>1, <4>2 DEF Amended
    <3>2. CASE done
      <4>1. h % Unit(t) = 0
        BY <2>5, <3>2
      <4> HIDE DEF h
      <4>2. y3 \in Exchange /\ Even(y2, y3)
        BY <2>8, <3>2 DEF Even
      <4>3. Amended(y2.bets, y3.bets, i, h)
        BY <2>8, <3>1, <3>2 DEF Amended
      <4> QED
        BY <3>1, <4>1, <4>2, <4>3
    <3>3. CASE ~done
      <4> HIDE DEF h
      <4>1. y3 = Refunded(y2, i, h)
        BY <3>1, <3>3 DEF AllRefunded
      <4>2. h \in 0..y2.bets[i].amount
        BY <3>1
      <4>3. /\ Refunded(y2, i, h) \in Exchange /\ Even(y2, Refunded(y2, i, h))
            /\ Amended(y2.bets, Refunded(y2, i, h).bets, i, y2.bets[i].amount - h)
        BY <2>8, <3>1, <4>2, RefundedFacts
      <4>4. y2.bets[i].amount - h = 0
        BY <3>1
      <4>5. 0 % Unit(t) = 0
        BY <2>2, NoUnits
      <4> HIDE DEF y2, y3, t
      <4>6. y3 \in Exchange /\ Even(y2, y3) /\ Amended(y2.bets, y3.bets, i, 0)
        BY <4>1, <4>3, <4>4
      <4> QED
        BY <4>5, <4>6
    <3> QED
      BY <3>2, <3>3
  <2> HIDE DEF y3
  <2>10. /\ y3.bets \in Seq(Bet) /\ Len(y3.bets) = Len(s) /\ DOMAIN y3.bets = DOMAIN s
         /\ \A e \in DOMAIN s \ {i} : y3.bets[e] = s[e]
         /\ y3.bets[i].amount = g /\ y3.bets[i].market = t.market
         /\ y3.bets[i].odds = t.odds /\ y3.bets[i].side = t.side
         /\ y3.bets[i].delayed = t.delayed
    BY <1>1, <2>3, <2>6, <2>8, <2>9 DEF Amended
  <2>11. y3.bets[j] = b /\ j \in DOMAIN y3.bets
    BY <1>1, <1>2, <2>3, <2>10
  <2>12. /\ z \in Exchange /\ Money(z) = Money(y3)
         /\ Amended(y3.bets, z.bets, j, b.amount - k)
         /\ Shifted(y3, z, b.market, IF b.side = "back" THEN n ELSE -k,
                                     IF b.side = "lay" THEN n ELSE -k)
    <3>1. k \in 1..y3.bets[j].amount /\ n \in Nat
      BY <1>1, <2>1, <2>11
    <3> QED
      BY <2>9, <2>11, <3>1, RecordedFacts
  <2> HIDE DEF z
  <2>13. Money(z) = Money(y)
    BY <2>6, <2>8, <2>9, <2>12 DEF Even
  <2>14. \A e \in Market : ExcessWon(z, e) = ExcessWon(y, e) /\ ExcessLost(z, e) = ExcessLost(y, e)
    <3> DEFINE mk == t.market
    <3>1. \A e \in Market \ {mk} :
            ExcessWon(z, e) = ExcessWon(y, e) /\ ExcessLost(z, e) = ExcessLost(y, e)
      BY <1>2, <2>6, <2>8, <2>9, <2>12 DEF Even, Shifted
    <3>2. /\ ExcessWon(y2, mk) = ExcessWon(y, mk) + (IF t.side = "back" THEN k ELSE -n)
          /\ ExcessLost(y2, mk) = ExcessLost(y, mk) + (IF t.side = "lay" THEN k ELSE -n)
      BY <1>1, <2>6, <2>8 DEF Even, Shifted
    <3>3. /\ ExcessWon(z, mk) = ExcessWon(y2, mk) + (IF b.side = "back" THEN n ELSE -k)
          /\ ExcessLost(z, mk) = ExcessLost(y2, mk) + (IF b.side = "lay" THEN n ELSE -k)
      BY <1>1, <1>2, <2>9, <2>12 DEF Even, Shifted
    <3>4. ExcessWon(y, mk) \in Int /\ ExcessLost(y, mk) \in Int
      BY <1>1, MoneyTypes
    <3>5. \/ t.side = "back" /\ b.side = "lay"
          \/ t.side = "lay" /\ b.side = "back"
      BY <1>2 DEF Side, Opposite
    <3>6. ExcessWon(z, mk) = ExcessWon(y, mk) /\ ExcessLost(z, mk) = ExcessLost(y, mk)
      BY <2>1, <3>2, <3>3, <3>4, <3>5
    <3> QED
      BY <3>1, <3>6
  <2>15. Struck(s, z.bets, i, j)
    <3>1. /\ z.bets \in Seq(Bet) /\ Len(z.bets) = Len(s) /\ DOMAIN z.bets = DOMAIN s
          /\ \A e \in DOMAIN s \ {i, j} : z.bets[e] = s[e]
          /\ z.bets[i] = y3.bets[i]
      BY <1>1, <1>2, <2>10, <2>12 DEF Amended
    <3>2. /\ z.bets[j].amount = b.amount - k /\ z.bets[j].market = b.market
          /\ z.bets[j].odds = b.odds /\ z.bets[j].side = b.side
          /\ z.bets[j].delayed = b.delayed
      BY <2>11, <2>12 DEF Amended
    <3>3. Unit(z.bets[j]) = Unit(b) /\ Unit(z.bets[i]) = Unit(t)
      BY <2>10, <3>1, <3>2, SameUnit
    <3>4. z.bets[j].amount % Unit(z.bets[j]) = 0 /\ z.bets[i].amount % Unit(z.bets[i]) = 0
      BY <1>5, <2>9, <2>10, <3>1, <3>2, <3>3
    <3> QED
      BY <2>3, <2>10, <3>1, <3>2, <3>4 DEF Struck
  <2> QED
    BY <1>3, <1>4, <1>7, <2>12, <2>13, <2>14, <2>15 DEF Even
<1> QED
  BY <1>6, <1>7

-----------------------------------------------------------------------------
(* The order of a book.                                                    *)

\* The books are exact, and so is the bet being placed.
Tidy(s, at) == \A k \in DOMAIN s : (~s[k].delayed \/ k = at) => ExactBet(s[k])

\* Ahead is a strict total order of the bets on one side of a book.
LEMMA AheadOrder ==
    ASSUME NEW s \in Seq(Bet), NEW e
    PROVE  \A i, j, k \in {d \in DOMAIN s : s[d].side = e} :
             /\ i # j => Ahead(s, i, j) \/ Ahead(s, j, i)
             /\ Ahead(s, i, j) /\ Ahead(s, j, k) => Ahead(s, i, k)
<1> SUFFICES ASSUME NEW i \in DOMAIN s, NEW j \in DOMAIN s, NEW k \in DOMAIN s,
                    s[i].side = e, s[j].side = e, s[k].side = e
             PROVE  /\ i # j => Ahead(s, i, j) \/ Ahead(s, j, i)
                    /\ Ahead(s, i, j) /\ Ahead(s, j, k) => Ahead(s, i, k)
  OBVIOUS
<1>1. /\ s[i].odds \in Nat /\ s[j].odds \in Nat /\ s[k].odds \in Nat
      /\ i \in Nat /\ j \in Nat /\ k \in Nat
  <2>1. \A d \in DOMAIN s : s[d].odds \in Odds /\ d \in Nat
    BY BetFacts
  <2>2. Odds \subseteq Nat
    BY BetAssumption
  <2> QED
    BY <2>1, <2>2
<1>2. i # j => Ahead(s, i, j) \/ Ahead(s, j, i)
  BY <1>1 DEF Ahead
<1>3. Ahead(s, i, j) /\ Ahead(s, j, k) => Ahead(s, i, k)
  BY <1>1 DEF Ahead
<1> QED
  BY <1>2, <1>3

\* So the makers have a best one.
LEMMA BestFacts ==
    ASSUME NEW s \in Seq(Bet), NEW e, NEW M \in SUBSET {d \in DOMAIN s : s[d].side = e},
           M # {}
    PROVE  Best(s, M) \in M
<1> DEFINE C == {A \in SUBSET M : A # {} => \E j \in A : \A k \in A \ {j} : Ahead(s, j, k)}
<1>1. IsFiniteSet(M)
  <2>1. IsFiniteSet(DOMAIN s) /\ M \in SUBSET (DOMAIN s)
    BY BetFacts
  <2> QED
    BY <2>1, FS_Subset
<1>2. {} \in C
  OBVIOUS
<1>3. ASSUME NEW A \in C, NEW a \in M PROVE A \cup {a} \in C
  <2>1. CASE A = {}
    BY <2>1
  <2>2. CASE A # {}
    <3>1. PICK j \in A : \A k \in A \ {j} : Ahead(s, j, k)
      BY <2>2
    <3>2. CASE a = j
      BY <3>1, <3>2
    <3>3. CASE a # j /\ Ahead(s, j, a)
      <4>1. \A k \in (A \cup {a}) \ {j} : Ahead(s, j, k)
        BY <3>1, <3>3
      <4> QED
        BY <4>1
    <3>4. CASE a # j /\ Ahead(s, a, j)
      <4>1. ASSUME NEW k \in (A \cup {a}) \ {a} PROVE Ahead(s, a, k)
        <5>1. CASE k = j
          BY <3>4, <5>1
        <5>2. CASE k # j
          <6>1. Ahead(s, j, k)
            BY <3>1, <5>2
          <6> QED
            BY <3>4, <6>1, AheadOrder
        <5> QED
          BY <5>1, <5>2
      <4> QED
        BY <4>1
    <3> QED
      BY <3>2, <3>3, <3>4, AheadOrder
  <2> HIDE DEF C
  <2> QED
    BY <2>1, <2>2, Zenon
<1> HIDE DEF C
<1>4. C \in SUBSET SUBSET M
  BY DEF C
<1>5. M \in C
  BY <1>1, <1>2, <1>3, <1>4, FiniteInduct
<1>6. \E j \in M : \A k \in M \ {j} : Ahead(s, j, k)
  BY <1>5 DEF C
<1> QED
  BY <1>6 DEF Best

\* Removing what is empty of two bets, the later one first.
LEMMA DroppedTwice ==
    ASSUME NEW z \in Exchange, NEW lo \in DOMAIN z.bets, NEW hi \in DOMAIN z.bets, lo < hi
    PROVE  LET c == z.bets
               w == Dropped(Dropped(z, hi), lo)
           IN  /\ w \in Exchange /\ Even(z, w)
               /\ \A k \in DOMAIN w.bets : \E e \in DOMAIN c :
                    w.bets[k] = c[e] /\ (e \in {lo, hi} => c[e].amount # 0)
               /\ c[lo].amount = 0 /\ c[hi].amount # 0 =>
                    hi - 1 \in DOMAIN w.bets /\ w.bets[hi - 1] = c[hi]
               /\ c[hi].amount = 0 /\ c[lo].amount # 0 =>
                    lo \in DOMAIN w.bets /\ w.bets[lo] = c[lo]
<1> DEFINE c == z.bets
           v == Dropped(z, hi)
           d == v.bets
           w == Dropped(v, lo)
<1>1. c \in Seq(Bet) /\ DOMAIN c = 1..Len(c) /\ Len(c) \in Nat
  BY ExchangeFacts, BetFacts
<1>2. lo \in Nat /\ hi \in Nat /\ lo >= 1 /\ hi <= Len(c) /\ lo < hi
  BY <1>1
<1>3. /\ v \in Exchange /\ Even(z, v)
      /\ d = IF c[hi].amount = 0 THEN Without(c, hi) ELSE c
  BY DroppedFacts
<1>4. /\ c[hi].amount = 0 => /\ Len(d) = Len(c) - 1
                             /\ \A k \in 1..(Len(c) - 1) : d[k] = IF k < hi THEN c[k] ELSE c[k + 1]
      /\ c[hi].amount # 0 => d = c
  BY <1>1, <1>3, RemovedBet
<1>5. z.bets = c /\ v.bets = d
  OBVIOUS
<1> HIDE DEF c, v, d
<1>6. d \in Seq(Bet) /\ DOMAIN d = 1..Len(d) /\ Len(d) \in Nat
  BY <1>3, <1>5, ExchangeFacts, BetFacts
<1>7. lo \in DOMAIN d /\ d[lo] = c[lo]
  <2>1. CASE c[hi].amount = 0
    <3>1. lo \in 1..(Len(c) - 1)
      BY <1>1, <1>2
    <3>2. Len(d) = Len(c) - 1 /\ d[lo] = c[lo]
      BY <1>2, <1>4, <2>1, <3>1
    <3> QED
      BY <1>6, <3>1, <3>2
  <2>2. CASE c[hi].amount # 0
    BY <1>4, <1>5, <2>2
  <2> QED
    BY <2>1, <2>2
<1>8. \A k \in DOMAIN d : \E e \in DOMAIN c :
        d[k] = c[e] /\ (e = hi => c[e].amount # 0) /\ (e = lo => k = lo)
  <2> SUFFICES ASSUME NEW k \in DOMAIN d
               PROVE  \E e \in DOMAIN c :
                        d[k] = c[e] /\ (e = hi => c[e].amount # 0) /\ (e = lo => k = lo)
    OBVIOUS
  <2>1. CASE c[hi].amount # 0
    BY <1>4, <2>1
  <2>2. CASE c[hi].amount = 0 /\ k < hi
    <3>1. d[k] = c[k] /\ k \in DOMAIN c
      BY <1>1, <1>2, <1>4, <1>6, <2>2
    <3> QED
      BY <1>2, <2>2, <3>1
  <2>3. CASE c[hi].amount = 0 /\ ~ (k < hi)
    <3>1. d[k] = c[k + 1] /\ k + 1 \in DOMAIN c /\ k + 1 # hi /\ k + 1 # lo
      BY <1>1, <1>2, <1>4, <1>6, <2>3
    <3> QED
      BY <3>1
  <2> QED
    BY <2>1, <2>2, <2>3
<1>9. /\ w \in Exchange /\ Even(v, w)
      /\ w.bets = IF d[lo].amount = 0 THEN Without(d, lo) ELSE d
  BY <1>3, <1>5, <1>7, DroppedFacts
<1> HIDE DEF w
<1>10. /\ c[lo].amount = 0 => /\ DOMAIN w.bets = 1..(Len(d) - 1)
                              /\ \A k \in 1..(Len(d) - 1) : w.bets[k] = IF k < lo THEN d[k] ELSE d[k + 1]
       /\ c[lo].amount # 0 => w.bets = d
  <2>1. /\ DOMAIN Without(d, lo) = 1..(Len(d) - 1)
        /\ \A k \in 1..(Len(d) - 1) :
             Without(d, lo)[k] = IF k < lo THEN d[k] ELSE d[k + 1]
    BY <1>6, <1>7, RemovedBet, Zenon
  <2>2. w.bets = IF c[lo].amount = 0 THEN Without(d, lo) ELSE d
    BY <1>7, <1>9
  <2>3. CASE c[lo].amount = 0
    <3>1. w.bets = Without(d, lo)
      BY <2>2, <2>3
    <3> QED
      BY <2>1, <2>3, <3>1, Zenon
  <2>4. CASE c[lo].amount # 0
    BY <2>2, <2>4
  <2> QED
    BY <2>3, <2>4
<1>11. Even(z, w)
  BY <1>3, <1>9 DEF Even
<1>12. ASSUME NEW k \in DOMAIN w.bets
       PROVE  \E e \in DOMAIN c : w.bets[k] = c[e] /\ (e \in {lo, hi} => c[e].amount # 0)
  <2>1. CASE c[lo].amount # 0
    BY <1>8, <1>10, <2>1
  <2>2. CASE c[lo].amount = 0
    <3>1. PICK h \in DOMAIN d : w.bets[k] = d[h] /\ h # lo
      <4>1. CASE k < lo
        <5>1. k \in DOMAIN d /\ w.bets[k] = d[k] /\ k # lo
          BY <1>2, <1>6, <1>10, <2>2, <4>1
        <5> QED
          BY <5>1
      <4>2. CASE ~ (k < lo)
        <5>1. k + 1 \in DOMAIN d /\ w.bets[k] = d[k + 1] /\ k + 1 # lo
          BY <1>2, <1>6, <1>10, <2>2, <4>2
        <5> QED
          BY <5>1
      <4> QED
        BY <4>1, <4>2
    <3> QED
      BY <1>8, <3>1
  <2> QED
    BY <2>1, <2>2
<1>13. ASSUME c[lo].amount = 0, c[hi].amount # 0
       PROVE  hi - 1 \in DOMAIN w.bets /\ w.bets[hi - 1] = c[hi]
  <2>0. d = c
    BY <1>4, <1>13
  <2>1. hi - 1 \in 1..(Len(d) - 1) /\ ~ (hi - 1 < lo) /\ (hi - 1) + 1 = hi
    BY <1>1, <1>2, <2>0
  <2> QED
    BY <1>10, <1>13, <2>0, <2>1
<1>14. ASSUME c[hi].amount = 0, c[lo].amount # 0
       PROVE  lo \in DOMAIN w.bets /\ w.bets[lo] = c[lo]
  BY <1>7, <1>10, <1>14
<1> QED
  BY <1>9, <1>11, <1>12, <1>13, <1>14 DEF c, v, w

-----------------------------------------------------------------------------
(* The rounds of matching.                                                 *)

\* After a match the books are exact again without the bets that are used up.
LEMMA MetFacts ==
    ASSUME NEW z \in Exchange, NEW s \in Seq(Bet), NEW at \in DOMAIN s, NEW j \in DOMAIN s,
           at # j, Tidy(s, at), ~s[j].delayed, Struck(s, z.bets, at, j)
    PROVE  LET r == Met(z, at, j)
           IN  /\ r.x \in Exchange /\ Even(z, r.x)
               /\ r.at \in Nat /\ r.at <= Len(r.x.bets)
               /\ Tidy(r.x.bets, r.at)
<1> DEFINE c == z.bets
           r == Met(z, at, j)
           w == r.x
<1>1. /\ c \in Seq(Bet) /\ DOMAIN c = DOMAIN s /\ at \in Nat /\ j \in Nat /\ at >= 1 /\ j >= 1
  BY BetFacts DEF Struck
<1>2. \A e \in DOMAIN c : c[e].amount \in Nat
  BY <1>1, BetFacts
<1>3. ASSUME NEW e \in DOMAIN c, (~c[e].delayed \/ e = at), (e \in {at, j} => c[e].amount # 0)
      PROVE  ExactBet(c[e])
  <2>1. CASE e \in {at, j}
    <3>1. c[e].amount % Unit(c[e]) = 0
      BY <2>1 DEF Struck
    <3> QED
      BY <1>2, <1>3, <2>1, <3>1 DEF ExactBet
  <2>2. CASE e \notin {at, j}
    <3>1. c[e] = s[e]
      BY <1>1, <2>2 DEF Struck
    <3> QED
      BY <1>1, <1>3, <2>2, <3>1 DEF Tidy
  <2> QED
    BY <2>1, <2>2
<1>4. r.at = IF c[j].amount > 0 \/ c[at].amount = 0 THEN 0
             ELSE IF j < at THEN at - 1 ELSE at
  BY DEF Met
<1>5. CASE j < at
  <2>1. w = Dropped(Dropped(z, at), j)
    BY <1>5 DEF Met
  <2> HIDE DEF r, w
  <2>2. /\ w \in Exchange /\ Even(z, w)
        /\ \A k \in DOMAIN w.bets : \E e \in DOMAIN c :
             w.bets[k] = c[e] /\ (e \in {j, at} => c[e].amount # 0)
        /\ c[j].amount = 0 /\ c[at].amount # 0 =>
             at - 1 \in DOMAIN w.bets /\ w.bets[at - 1] = c[at]
    <3>1. j \in DOMAIN z.bets /\ at \in DOMAIN z.bets /\ j < at
      BY <1>1, <1>5
    <3> DEFINE v == Dropped(Dropped(z, at), j)
    <3>2. /\ v \in Exchange /\ Even(z, v)
          /\ \A k \in DOMAIN v.bets : \E e \in DOMAIN z.bets :
               v.bets[k] = z.bets[e] /\ (e \in {j, at} => z.bets[e].amount # 0)
          /\ z.bets[j].amount = 0 /\ z.bets[at].amount # 0 =>
               at - 1 \in DOMAIN v.bets /\ v.bets[at - 1] = z.bets[at]
      BY <3>1, DroppedTwice
    <3>3. w = v
      BY <2>1
    <3> HIDE DEF v
    <3> QED
      BY <3>2, <3>3, Zenon
  <2>3. /\ r.at \in Nat
        /\ r.at # 0 => r.at \in DOMAIN w.bets /\ w.bets[r.at] = c[at] /\ c[at].amount # 0
    <3>1. at \in DOMAIN c /\ j \in DOMAIN c /\ at - 1 \in Nat
      BY <1>1
    <3>2. c[at].amount \in Nat /\ c[j].amount \in Nat
      BY <1>2, <3>1
    <3>3. CASE c[j].amount > 0 \/ c[at].amount = 0
      <4>1. r.at = 0
        BY <1>4, <3>3
      <4> QED
        BY <4>1
    <3>4. CASE ~ (c[j].amount > 0 \/ c[at].amount = 0)
      <4>1. c[j].amount = 0 /\ c[at].amount # 0
        BY <3>2, <3>4
      <4>2. r.at = at - 1
        BY <1>1, <1>4, <1>5, <3>4
      <4> QED
        BY <2>2, <3>1, <4>1, <4>2
    <3> QED
      BY <3>3, <3>4
  <2>4. w.bets \in Seq(Bet) /\ DOMAIN w.bets = 1..Len(w.bets) /\ Len(w.bets) \in Nat
    BY <2>2, ExchangeFacts, BetFacts
  <2>5. r.at <= Len(w.bets)
    BY <2>3, <2>4
  <2>6. Tidy(w.bets, r.at)
    <3> SUFFICES ASSUME NEW k \in DOMAIN w.bets, ~w.bets[k].delayed \/ k = r.at
                 PROVE  ExactBet(w.bets[k])
      BY DEF Tidy
    <3>1. CASE k = r.at
      <4>1. k # 0
        BY <2>4
      <4> QED
        BY <1>1, <1>3, <2>3, <3>1, <4>1
    <3>2. CASE ~w.bets[k].delayed
      BY <1>3, <2>2, <3>2
    <3> QED
      BY <3>1, <3>2
  <2> QED
    BY <2>2, <2>3, <2>5, <2>6 DEF r, w
<1>6. CASE at < j
  <2>1. w = Dropped(Dropped(z, j), at)
    BY <1>1, <1>6 DEF Met
  <2> HIDE DEF r, w
  <2>2. /\ w \in Exchange /\ Even(z, w)
        /\ \A k \in DOMAIN w.bets : \E e \in DOMAIN c :
             w.bets[k] = c[e] /\ (e \in {at, j} => c[e].amount # 0)
        /\ c[j].amount = 0 /\ c[at].amount # 0 =>
             at \in DOMAIN w.bets /\ w.bets[at] = c[at]
    <3>1. at \in DOMAIN z.bets /\ j \in DOMAIN z.bets /\ at < j
      BY <1>1, <1>6
    <3> DEFINE v == Dropped(Dropped(z, j), at)
    <3>2. /\ v \in Exchange /\ Even(z, v)
          /\ \A k \in DOMAIN v.bets : \E e \in DOMAIN z.bets :
               v.bets[k] = z.bets[e] /\ (e \in {at, j} => z.bets[e].amount # 0)
          /\ z.bets[j].amount = 0 /\ z.bets[at].amount # 0 =>
               at \in DOMAIN v.bets /\ v.bets[at] = z.bets[at]
      BY <3>1, DroppedTwice
    <3>3. w = v
      BY <2>1
    <3> HIDE DEF v
    <3> QED
      BY <3>2, <3>3, Zenon
  <2>3. /\ r.at \in Nat
        /\ r.at # 0 => r.at \in DOMAIN w.bets /\ w.bets[r.at] = c[at] /\ c[at].amount # 0
    <3>1. at \in DOMAIN c /\ j \in DOMAIN c /\ at \in Nat
      BY <1>1
    <3>2. c[at].amount \in Nat /\ c[j].amount \in Nat
      BY <1>2, <3>1
    <3>3. CASE c[j].amount > 0 \/ c[at].amount = 0
      <4>1. r.at = 0
        BY <1>4, <3>3
      <4> QED
        BY <4>1
    <3>4. CASE ~ (c[j].amount > 0 \/ c[at].amount = 0)
      <4>1. c[j].amount = 0 /\ c[at].amount # 0
        BY <3>2, <3>4
      <4>2. r.at = at
        BY <1>1, <1>4, <1>6, <3>4
      <4> QED
        BY <2>2, <3>1, <4>1, <4>2
    <3> QED
      BY <3>3, <3>4
  <2>4. w.bets \in Seq(Bet) /\ DOMAIN w.bets = 1..Len(w.bets) /\ Len(w.bets) \in Nat
    BY <2>2, ExchangeFacts, BetFacts
  <2>5. r.at <= Len(w.bets)
    BY <2>3, <2>4
  <2>6. Tidy(w.bets, r.at)
    <3> SUFFICES ASSUME NEW k \in DOMAIN w.bets, ~w.bets[k].delayed \/ k = r.at
                 PROVE  ExactBet(w.bets[k])
      BY DEF Tidy
    <3>1. CASE k = r.at
      <4>1. k # 0
        BY <2>4
      <4> QED
        BY <1>1, <1>3, <2>3, <3>1, <4>1
    <3>2. CASE ~w.bets[k].delayed
      BY <1>3, <2>2, <3>2
    <3> QED
      BY <3>1, <3>2
  <2> QED
    BY <2>2, <2>3, <2>5, <2>6 DEF r, w
<1> QED
  BY <1>1, <1>5, <1>6

\* The states of the loop of place_bet() on exchange y.
Placing(y) ==
    {p \in [x: Exchange, at: Nat] :
       p.at <= Len(p.x.bets) /\ Tidy(p.x.bets, p.at) /\ Even(y, p.x)}

\* A round of the loop matches the bet with the best maker, or ends the loop.
LEMMA RoundFacts ==
    ASSUME NEW y \in Exchange, NEW p \in Placing(y)
    PROVE  Round(p, Makers(p)) \in Placing(y)
<1> DEFINE q == p.x
           s == q.bets
           at == p.at
           M == Makers(p)
<1>1. q \in Exchange /\ at \in Nat /\ at <= Len(s) /\ Tidy(s, at) /\ Even(y, q)
  BY DEF Placing
<1>2. s \in Seq(Bet) /\ DOMAIN s = 1..Len(s) /\ Len(s) \in Nat
  BY <1>1, ExchangeFacts, BetFacts
<1>3. CASE M = {}
  <2> DEFINE r == [p EXCEPT !.at = 0]
  <2>1. Round(p, M) = r
    BY <1>3 DEF Round
  <2>2. r \in [x: Exchange, at: Nat] /\ r.x = q /\ r.at = 0
    BY <1>1 DEF Placing
  <2>3. Tidy(s, 0)
    BY <1>1, <1>2 DEF Tidy
  <2> HIDE DEF r
  <2> QED
    BY <1>1, <1>2, <2>1, <2>2, <2>3 DEF Placing
<1>4. CASE M # {}
  <2> DEFINE j == Best(s, M)
             z == Matched(q, at, j)
             r == Met(z, at, j)
  <2>1. M = {k \in DOMAIN s : at # 0 /\ Crosses(s[at], s[k])}
    BY DEF Makers
  <2>2. Round(p, M) = r
    BY <1>4 DEF Round
  <2> HIDE DEF M
  <2>3. at # 0 /\ at \in DOMAIN s
    BY <1>1, <1>2, <1>4, <2>1
  <2>4. M \in SUBSET {k \in DOMAIN s : s[k].side = Opposite(s[at].side)}
    BY <2>1 DEF Crosses
  <2>5. j \in M
    <3> DEFINE e == Opposite(s[at].side)
    <3>1. M \in SUBSET {k \in DOMAIN s : s[k].side = e}
      BY <2>4
    <3> HIDE DEF e, s
    <3> QED
      BY <1>2, <1>4, <3>1, BestFacts
  <2> HIDE DEF j
  <2>6. /\ j \in DOMAIN s /\ Crosses(s[at], s[j]) /\ ~s[j].delayed
        /\ s[j].side = Opposite(s[at].side)
    BY <2>1, <2>5 DEF Crosses
  <2>7. at # j
    <3>1. s[at].side \in Side
      BY <1>2, <2>3, BetFacts
    <3> QED
      BY <2>6, <3>1 DEF Side, Opposite
  <2>8. ExactBet(s[at]) /\ ExactBet(s[j])
    BY <1>1, <2>3, <2>6 DEF Tidy
  <2>9. z \in Exchange /\ Even(q, z) /\ Struck(s, z.bets, at, j)
    BY <1>1, <2>3, <2>6, <2>8, MatchedFacts
  <2> HIDE DEF z
  <2>10. /\ r.x \in Exchange /\ Even(z, r.x) /\ r.at \in Nat /\ r.at <= Len(r.x.bets)
         /\ Tidy(r.x.bets, r.at)
    <3> HIDE DEF s, at
    <3> QED
      BY <1>1, <1>2, <2>3, <2>6, <2>7, <2>9, MetFacts
  <2>11. r \in [x: Exchange, at: Nat]
    BY <2>10 DEF Met
  <2> HIDE DEF r
  <2>12. Even(y, r.x)
    BY <1>1, <2>9, <2>10 DEF Even
  <2> QED
    BY <2>2, <2>10, <2>11, <2>12 DEF Placing, M
<1> QED
  BY <1>3, <1>4

\* The loop of place_bet() keeps the money and leaves the books exact.
LEMMA RoundsFacts ==
    ASSUME NEW y \in Exchange, NEW i \in DOMAIN y.bets, Tidy(y.bets, i)
    PROVE  LET z == Rounds(y, i)
           IN  z \in Exchange /\ Even(y, z) /\ Tidy(z.bets, 0)
<1> DEFINE N == Len(y.bets)
           P == Placing(y)
           S == [n \in 0..N |-> P]
           a == [x |-> y, at |-> i]
           F == [n \in 1..N |-> [p \in P |-> Round(p, Makers(p))]]
           Eq(g) == g = [n \in 0..N |-> IF n = 0 THEN a
                                        ELSE LET p == g[n - 1] IN Round(p, Makers(p))]
<1>1. y.bets \in Seq(Bet) /\ DOMAIN y.bets = 1..N /\ N \in Nat
  BY ExchangeFacts, BetFacts
<1>2. a \in P
  <2>1. a.x = y /\ a.at = i /\ a \in [x: Exchange, at: Nat]
    BY <1>1
  <2> HIDE DEF a
  <2> QED
    BY <1>1, <2>1 DEF Placing, Even
<1>3. \A p \in P : Round(p, Makers(p)) \in P
  BY RoundFacts
<1>4. \A n \in 0..N : S[n] = P
  OBVIOUS
<1>5. \A n \in 1..N : \A p \in P : F[n][p] = Round(p, Makers(p))
  OBVIOUS
<1>6. Rounds(y, i) = (CHOOSE g : Eq(g))[N].x
  BY DEF Rounds
<1> HIDE DEF N, P, S, a, F
<1> HIDE DEF Eq
<1>n. N \in Nat
  BY <1>1
<1>7. PICK g : Unrolls(g, a, F, N)
  BY <1>n, Recursion
<1> USE DEF Eq
<1>8. \A n \in 0..N : g[n] \in P
  <2>1. g[0] = a /\ \A n \in 1..N : g[n] = F[n][g[n - 1]]
    BY <1>1, <1>7 DEF Unrolls
  <2>2. g[0] \in S[0]
    BY <1>1, <1>2, <1>4, <2>1
  <2>3. \A n \in 1..N : g[n - 1] \in S[n - 1] => g[n] \in S[n]
    BY <1>1, <1>3, <1>4, <1>5, <2>1
  <2>4. \A n \in 0..N : g[n] \in S[n]
    BY <1>1, <2>2, <2>3, Reached
  <2> QED
    BY <1>4, <2>4
<1>9. Eq(g)
  <2>1. ASSUME NEW n \in 0..N
        PROVE  (IF n = 0 THEN a ELSE F[n][g[n - 1]])
               = (IF n = 0 THEN a ELSE LET p == g[n - 1] IN Round(p, Makers(p)))
    <3>1. CASE n # 0
      <4>1. n \in 1..N /\ n - 1 \in 0..N
        BY <1>1, <3>1
      <4> QED
        BY <1>5, <1>8, <4>1
    <3> QED
      BY <3>1
  <2> QED
    BY <1>7, <2>1, Zenon DEF Unrolls
<1> DEFINE h == CHOOSE f : Eq(f)
<1>10. Eq(h)
  BY <1>9
<1>11. h[0] = a /\ \A n \in 1..N : h[n] = Round(h[n - 1], Makers(h[n - 1]))
  <2> HIDE DEF h
  <2> QED
    BY <1>1, <1>10
<1> HIDE DEF h, Eq
<1>12. \A n \in 0..N : h[n] \in P
  <2>1. h[0] \in S[0]
    BY <1>1, <1>2, <1>4, <1>11
  <2>2. \A n \in 1..N : h[n - 1] \in S[n - 1] => h[n] \in S[n]
    BY <1>1, <1>3, <1>4, <1>11
  <2>3. \A n \in 0..N : h[n] \in S[n]
    BY <1>1, <2>1, <2>2, Reached
  <2> QED
    BY <1>4, <2>3
<1>13. h[N] \in P /\ Rounds(y, i) = h[N].x
  BY <1>1, <1>6, <1>12 DEF h
<1>14. /\ h[N].x \in Exchange /\ Even(y, h[N].x)
       /\ Tidy(h[N].x.bets, h[N].at)
  BY <1>13 DEF P, Placing
<1>15. Tidy(h[N].x.bets, 0)
  <2>1. \A k \in DOMAIN h[N].x.bets : k # 0
    BY <1>14, ExchangeFacts, BetFacts
  <2> QED
    BY <1>14, <2>1 DEF Tidy
<1> QED
  BY <1>13, <1>14, <1>15
=============================================================================
