--------------------------- MODULE ExchangeProofs ---------------------------
(***************************************************************************)
(* The exchange for all accounts, markets, odds, amounts and affiliates:   *)
(* nothing becomes negative, nothing is created or lost, every outcome is  *)
(* covered by the stakes, the books stay exact and the rake comes out of   *)
(* profits.                                                                *)
(***************************************************************************)
EXTENDS ExchangeLemmas

-----------------------------------------------------------------------------
(* Placing a bet, canceling the unmatched ones.                            *)

\* place_bet() keeps the money and leaves the books exact, whatever the amount.
LEMMA PlacedFacts ==
    ASSUME NEW y \in Exchange, NEW i \in DOMAIN y.bets,
           \A k \in DOMAIN y.bets \ {i} : ~y.bets[k].delayed => ExactBet(y.bets[k])
    PROVE  LET z == Placed(y, i)
           IN  z \in Exchange /\ Even(y, z) /\ Tidy(z.bets, 0)
<1> DEFINE s == y.bets
           n == s[i].amount
           u == Unit(s[i])
           odd == n % u
<1>1. /\ s \in Seq(Bet) /\ DOMAIN s = 1..Len(s) /\ Len(s) \in Nat /\ s[i] \in Bet
      /\ n \in Nat /\ i \in DOMAIN s
  BY ExchangeFacts, BetFacts
<1>2. u \in Nat \ {0}
  BY <1>1, UnitFacts
<1>3. Placed(y, i) = IF odd = n THEN BetCanceled(y, i) ELSE Rounds(Refunded(y, i, odd), i)
  BY DEF Placed
<1>4. odd \in Nat /\ odd <= n /\ (odd # n => n - odd > 0) /\ (n - odd) % u = 0
  <2> HIDE DEF u, n
  <2>1. n \div u \in Nat /\ odd \in Nat /\ n = ((n \div u) * u) + odd
    BY <1>1, <1>2, Division
  <2> DEFINE q == n \div u
  <2> HIDE DEF odd, q
  <2>2. q \in Nat /\ n = (q * u) + odd
    BY <2>1 DEF q
  <2>3. q * u \in Nat /\ (q * u) % u = 0
    BY <1>2, <2>2, Multiple
  <2>4. n - odd = q * u
    BY <2>1, <2>2, <2>3
  <2> QED
    BY <1>1, <2>1, <2>2, <2>3, <2>4
<1>5. CASE odd = n
  <2> DEFINE z == BetCanceled(y, i)
  <2>1. z \in Exchange /\ z.bets = Without(s, i) /\ Even(y, z)
    BY CanceledFacts
  <2>2. /\ DOMAIN z.bets = 1..(Len(s) - 1)
        /\ \A k \in 1..(Len(s) - 1) : z.bets[k] = IF k < i THEN s[k] ELSE s[k + 1]
    <3>1. /\ DOMAIN Without(s, i) = 1..(Len(s) - 1)
          /\ \A k \in 1..(Len(s) - 1) : Without(s, i)[k] = IF k < i THEN s[k] ELSE s[k + 1]
      BY <1>1, RemovedBet, Zenon
    <3>2. z.bets = Without(s, i)
      BY <2>1
    <3> HIDE DEF z
    <3> QED
      BY <3>1, <3>2, Zenon
  <2> HIDE DEF z
  <2>3. \A k \in 1..(Len(s) - 1) : \E e \in DOMAIN s \ {i} : z.bets[k] = s[e]
    <3> SUFFICES ASSUME NEW k \in 1..(Len(s) - 1)
                 PROVE  \E e \in DOMAIN s \ {i} : z.bets[k] = s[e]
      OBVIOUS
    <3>1. CASE k < i
      <4>1. k \in DOMAIN s \ {i} /\ z.bets[k] = s[k]
        BY <1>1, <2>2, <3>1
      <4> QED
        BY <4>1
    <3>2. CASE ~ (k < i)
      <4>1. k + 1 \in DOMAIN s \ {i} /\ z.bets[k] = s[k + 1]
        BY <1>1, <2>2, <3>2
      <4> QED
        BY <4>1
    <3> QED
      BY <3>1, <3>2
  <2>4. Tidy(z.bets, 0)
    <3> SUFFICES ASSUME NEW k \in DOMAIN z.bets, ~z.bets[k].delayed \/ k = 0
                 PROVE  ExactBet(z.bets[k])
      BY DEF Tidy
    <3>1. k # 0 /\ k \in 1..(Len(s) - 1)
      BY <1>1, <2>2
    <3>2. PICK e \in DOMAIN s \ {i} : z.bets[k] = s[e]
      BY <2>3, <3>1
    <3> QED
      BY <3>1, <3>2
  <2> QED
    BY <1>3, <1>5, <2>1, <2>4 DEF z
<1>6. CASE odd # n
  <2> DEFINE v == Refunded(y, i, odd)
             z == Rounds(v, i)
  <2>1. odd \in 0..s[i].amount
    BY <1>1, <1>4
  <2> HIDE DEF odd
  <2>2. v \in Exchange /\ Even(y, v) /\ Amended(s, v.bets, i, n - odd)
    BY <2>1, RefundedFacts
  <2> HIDE DEF v
  <2>3. i \in DOMAIN v.bets /\ DOMAIN v.bets = DOMAIN s /\ \A k \in DOMAIN s \ {i} : v.bets[k] = s[k]
    BY <1>1, <2>2 DEF Amended
  <2>4. Unit(v.bets[i]) = u /\ v.bets[i].amount = n - odd
    BY <2>2, SameUnit DEF Amended
  <2>5. ExactBet(v.bets[i])
    BY <1>4, <1>6, <2>4 DEF ExactBet
  <2>6. Tidy(v.bets, i)
    BY <2>3, <2>5 DEF Tidy
  <2>7. z \in Exchange /\ Even(v, z) /\ Tidy(z.bets, 0)
    BY <2>2, <2>3, <2>6, RoundsFacts
  <2> HIDE DEF z
  <2>8. Even(y, z)
    BY <2>2, <2>7 DEF Even
  <2> QED
    BY <1>3, <1>6, <2>7, <2>8 DEF z, v
<1> QED
  BY <1>5, <1>6

\* Canceling every bet of the books pays them all back.
LEMMA UnmatchedFacts ==
    ASSUME NEW y \in Exchange
    PROVE  LET z == Unmatched(y)
           IN  /\ z \in Exchange /\ Even(y, z) /\ z.bets = << >>
               /\ z.pos = y.pos /\ \A a \in Account : z.bal[a] >= y.bal[a]
<1> DEFINE N == Len(y.bets)
           P(n) == {z \in Exchange : /\ Even(y, z) /\ Len(z.bets) = N - n /\ z.pos = y.pos
                                     /\ \A a \in Account : z.bal[a] >= y.bal[a]}
           S == [n \in 0..N |-> P(n)]
           F == [n \in 1..N |-> [z \in Exchange |-> BetCanceled(z, 1)]]
           Eq(g) == g = [n \in 0..N |-> IF n = 0 THEN y ELSE BetCanceled(g[n - 1], 1)]
<1>1. y.bets \in Seq(Bet) /\ N \in Nat
  BY ExchangeFacts, BetFacts
<1>2. y \in P(0)
  BY <1>1, ExchangeFacts DEF Even
<1>3. ASSUME NEW n \in 1..N, NEW z \in P(n - 1) PROVE BetCanceled(z, 1) \in P(n)
  <2> DEFINE w == BetCanceled(z, 1)
  <2>1. z \in Exchange /\ Even(y, z) /\ Len(z.bets) = N - (n - 1) /\ z.pos = y.pos
    OBVIOUS
  <2>2. z.bets \in Seq(Bet) /\ DOMAIN z.bets = 1..Len(z.bets)
    BY <2>1, ExchangeFacts, BetFacts
  <2>3. 1 \in DOMAIN z.bets
    BY <1>1, <2>1, <2>2
  <2>4. /\ w \in Exchange /\ w.bets = Without(z.bets, 1) /\ Even(z, w)
        /\ w.pos = z.pos /\ \A a \in Account : w.bal[a] >= z.bal[a]
    BY <2>1, <2>3, CanceledFacts
  <2>5. Len(w.bets) = Len(z.bets) - 1
    BY <2>2, <2>3, <2>4, RemovedBet
  <2> HIDE DEF w
  <2>6. Len(w.bets) = N - n
    BY <1>1, <2>1, <2>5
  <2>7. Even(y, w)
    BY <2>1, <2>4 DEF Even
  <2>8. \A a \in Account : w.bal[a] >= y.bal[a]
    <3>1. \A a \in Account : w.bal[a] \in Nat /\ z.bal[a] \in Nat /\ y.bal[a] \in Nat
      BY <2>1, <2>4, ExchangeFacts
    <3>2. \A a \in Account : z.bal[a] >= y.bal[a]
      OBVIOUS
    <3> QED
      BY <2>4, <3>1, <3>2
  <2>9. w \in P(n)
    BY <2>1, <2>4, <2>6, <2>7, <2>8
  <2> QED
    BY <2>9 DEF w
<1>4. \A n \in 0..N : S[n] = P(n)
  OBVIOUS
<1>5. \A n \in 1..N : \A z \in Exchange : F[n][z] = BetCanceled(z, 1)
  OBVIOUS
<1>6. Unmatched(y) = (CHOOSE g : Eq(g))[N]
  BY DEF Unmatched
<1>7. \A n \in 0..N : P(n) \subseteq Exchange
  OBVIOUS
<1>8. 0 \in 0..N /\ N \in 0..N /\ \A n \in 1..N : n \in 0..N /\ n - 1 \in 0..N
  BY <1>1
<1> HIDE DEF N, P, S, F, Eq
<1>9. PICK g : Unrolls(g, y, F, N)
  BY <1>1, Recursion
<1>10. \A n \in 0..N : g[n] \in P(n)
  <2>1. g[0] = y /\ \A n \in 1..N : g[n] = F[n][g[n - 1]]
    BY <1>1, <1>9 DEF Unrolls
  <2>2. g[0] \in S[0]
    BY <1>2, <1>4, <1>8, <2>1
  <2>3. \A n \in 1..N : g[n - 1] \in S[n - 1] => g[n] \in S[n]
    BY <1>3, <1>4, <1>5, <1>7, <1>8, <2>1
  <2>4. \A n \in 0..N : g[n] \in S[n]
    BY <1>1, <2>2, <2>3, Reached
  <2> QED
    BY <1>4, <2>4
<1>11. Eq(g)
  <2>1. ASSUME NEW n \in 0..N
        PROVE  (IF n = 0 THEN y ELSE F[n][g[n - 1]])
               = (IF n = 0 THEN y ELSE BetCanceled(g[n - 1], 1))
    <3>1. CASE n # 0
      <4>1. n \in 1..N /\ n - 1 \in 0..N
        BY <1>1, <3>1
      <4> QED
        BY <1>5, <1>7, <1>10, <4>1
    <3> QED
      BY <3>1
  <2> QED
    BY <1>9, <2>1, Zenon DEF Unrolls, Eq
<1> DEFINE h == CHOOSE f : Eq(f)
<1>12. Eq(h)
  BY <1>11
<1> HIDE DEF h
<1>13. h[0] = y /\ \A n \in 1..N : h[n] = BetCanceled(h[n - 1], 1)
  BY <1>1, <1>12 DEF Eq
<1>14. \A n \in 0..N : h[n] \in P(n)
  <2>1. h[0] \in S[0]
    BY <1>2, <1>4, <1>8, <1>13
  <2>2. \A n \in 1..N : h[n - 1] \in S[n - 1] => h[n] \in S[n]
    BY <1>3, <1>4, <1>8, <1>13
  <2>3. \A n \in 0..N : h[n] \in S[n]
    BY <1>1, <2>1, <2>2, Reached
  <2> QED
    BY <1>4, <2>3
<1>15. h[N] \in P(N) /\ Unmatched(y) = h[N]
  BY <1>6, <1>8, <1>14 DEF h
<1>16. /\ h[N] \in Exchange /\ Even(y, h[N]) /\ Len(h[N].bets) = N - N /\ h[N].pos = y.pos
       /\ \A a \in Account : h[N].bal[a] >= y.bal[a]
  BY <1>15 DEF P
<1>17. h[N].bets = << >>
  <2>1. h[N].bets \in Seq(Bet) /\ Len(h[N].bets) = 0
    BY <1>1, <1>16, ExchangeFacts
  <2> QED
    BY <2>1
<1> QED
  BY <1>15, <1>16, <1>17

-----------------------------------------------------------------------------
(* Bets placed, at once and after the delay.                               *)

\* The least element of a set of numbers is one of them.
LEMMA LeastIn ==
    ASSUME NEW D \in SUBSET Nat, D # {}
    PROVE  Min(D) \in D
<1>1. \E n \in D : \A m \in D : n <= m
  BY LeastOf
<1> QED
  BY <1>1 DEF Min

\* The end of a bet's delay places it.
LEMMA DelayEndsFacts ==
    ASSUME NEW y \in Exchange, Tidy(y.bets, 0), NEW i \in DOMAIN y.bets
    PROVE  LET z == DelayEnds(y, i)
           IN  z \in Exchange /\ Even(y, z) /\ Tidy(z.bets, 0)
<1> DEFINE s == y.bets
           b == [s[i] EXCEPT !.delayed = FALSE]
           r == [s EXCEPT ![i] = b]
           v == [y EXCEPT !.bets = r]
           z == Placed(v, i)
<1>1. s \in Seq(Bet) /\ DOMAIN s = 1..Len(s) /\ s[i] \in Bet /\ i \in DOMAIN s
  BY ExchangeFacts, BetFacts
<1>2. b \in Bet /\ b.amount = s[i].amount
  BY <1>1 DEF Bet
<1>3. DelayEnds(y, i) = z
  BY DEF DelayEnds, Exchange
<1> HIDE DEF b
<1>4. /\ r \in Seq(Bet) /\ Len(r) = Len(s) /\ DOMAIN r = DOMAIN s /\ r[i] = b
      /\ \A k \in DOMAIN s \ {i} : r[k] = s[k]
  BY <1>1, <1>2
<1> HIDE DEF r
<1>5. v \in Exchange /\ v.bal = y.bal /\ v.bets = r /\ v.pos = y.pos
  BY <1>4 DEF Exchange
<1> HIDE DEF v
<1>6. Stakes(r) = Stakes(s)
  <2>1. Stakes(r) = Stakes(s) + (r[i].amount - s[i].amount)
    BY <1>1, <1>4, ChangedStakes
  <2>2. r[i].amount - s[i].amount = 0 /\ Stakes(s) \in Nat
    BY <1>1, <1>2, <1>4, BetFacts, MoneyTypes
  <2> QED
    BY <2>1, <2>2
<1>7. Even(y, v)
  <2>1. AllStaked(v) = AllStaked(y)
    BY <1>5, SamePositions
  <2>2. Balances(v) = Balances(y)
    BY <1>5 DEF Balances
  <2>3. Money(v) = Money(y)
    BY <1>5, <1>6, <2>1, <2>2 DEF Money
  <2> QED
    BY <1>5, <2>3, SamePositions DEF Even
<1>8. i \in DOMAIN v.bets /\ \A k \in DOMAIN v.bets \ {i} : ~v.bets[k].delayed => ExactBet(v.bets[k])
  BY <1>1, <1>4, <1>5 DEF Tidy
<1>9. z \in Exchange /\ Even(v, z) /\ Tidy(z.bets, 0)
  BY <1>5, <1>8, PlacedFacts
<1> HIDE DEF z
<1>10. Even(y, z)
  BY <1>7, <1>9 DEF Even
<1> QED
  BY <1>3, <1>9, <1>10

\* What the delays of several bets may leave.
Books(y) == {z \in Exchange : Even(y, z) /\ Tidy(z.bets, 0)}

\* place_delayed_bets() places the first of the delayed bets, if there is one.
LEMMA DelayOverFacts ==
    ASSUME NEW y \in Exchange, NEW z \in Books(y)
    PROVE  DelayOver(z, DelayedIn(z)) \in Books(y)
<1> DEFINE D == DelayedIn(z)
           i == Min(D)
           w == DelayEnds(z, i)
<1>1. z \in Exchange /\ Even(y, z) /\ Tidy(z.bets, 0)
  BY DEF Books
<1>2. CASE D = {}
  BY <1>2 DEF DelayOver
<1>3. CASE D # {}
  <2>1. D \in SUBSET (DOMAIN z.bets) /\ D \in SUBSET Nat
    BY <1>1, ExchangeFacts, BetFacts DEF DelayedIn
  <2> HIDE DEF D
  <2>2. i \in DOMAIN z.bets
    BY <1>3, <2>1, LeastIn
  <2> HIDE DEF i
  <2>3. w \in Exchange /\ Even(z, w) /\ Tidy(w.bets, 0)
    BY <1>1, <2>2, DelayEndsFacts
  <2>4. DelayOver(z, D) = w
    BY <1>3 DEF DelayOver, i
  <2> HIDE DEF w
  <2>5. Even(y, w)
    BY <1>1, <2>3 DEF Even
  <2> QED
    BY <2>3, <2>4, <2>5 DEF Books, D
<1> QED
  BY <1>2, <1>3

\* place_delayed_bets() keeps the money and leaves the books exact.
LEMMA PlaceDelayedFacts ==
    ASSUME x \in Exchange, Tidy(x.bets, 0), NEW N \in Nat, PlaceDelayed(N)
    PROVE  x' \in Exchange /\ Even(x, x') /\ Tidy(x'.bets, 0)
<1> DEFINE P == Books(x)
           S == [n \in 0..N |-> P]
           F == [n \in 1..N |-> [z \in P |-> DelayOver(z, DelayedIn(z))]]
           Eq(g) == g = [n \in 0..N |-> IF n = 0 THEN x
                                        ELSE DelayOver(g[n - 1], DelayedIn(g[n - 1]))]
<1>1. x \in P
  BY DEF Books, Even
<1>2. \A z \in P : DelayOver(z, DelayedIn(z)) \in P
  BY DelayOverFacts
<1>3. \A n \in 0..N : S[n] = P
  OBVIOUS
<1>4. \A n \in 1..N : \A z \in P : F[n][z] = DelayOver(z, DelayedIn(z))
  OBVIOUS
<1>5. x' = (CHOOSE g : Eq(g))[N]
  BY DEF PlaceDelayed
<1>6. 0 \in 0..N /\ N \in 0..N /\ \A n \in 1..N : n \in 0..N /\ n - 1 \in 0..N
  OBVIOUS
<1> HIDE DEF P, S, F, Eq
<1>7. PICK g : Unrolls(g, x, F, N)
  BY Recursion
<1>8. \A n \in 0..N : g[n] \in P
  <2>1. g[0] = x /\ \A n \in 1..N : g[n] = F[n][g[n - 1]]
    BY <1>7 DEF Unrolls
  <2>2. g[0] \in S[0]
    BY <1>1, <1>3, <1>6, <2>1
  <2>3. \A n \in 1..N : g[n - 1] \in S[n - 1] => g[n] \in S[n]
    BY <1>2, <1>3, <1>4, <1>6, <2>1
  <2>4. \A n \in 0..N : g[n] \in S[n]
    BY <2>2, <2>3, Reached, Zenon
  <2> QED
    BY <1>3, <2>4
<1>9. Eq(g)
  <2>1. ASSUME NEW n \in 0..N
        PROVE  (IF n = 0 THEN x ELSE F[n][g[n - 1]])
               = (IF n = 0 THEN x ELSE DelayOver(g[n - 1], DelayedIn(g[n - 1])))
    <3>1. CASE n # 0
      <4>1. n \in 1..N /\ n - 1 \in 0..N
        BY <3>1
      <4> QED
        BY <1>4, <1>8, <4>1
    <3> QED
      BY <3>1
  <2> QED
    BY <1>7, <2>1, Zenon DEF Unrolls, Eq
<1> DEFINE h == CHOOSE f : Eq(f)
<1>10. Eq(h)
  BY <1>9
<1> HIDE DEF h
<1>11. h[0] = x /\ \A n \in 1..N : h[n] = DelayOver(h[n - 1], DelayedIn(h[n - 1]))
  BY <1>10 DEF Eq
<1>12. \A n \in 0..N : h[n] \in P
  <2>1. h[0] \in S[0]
    BY <1>1, <1>3, <1>6, <1>11
  <2>2. \A n \in 1..N : h[n - 1] \in S[n - 1] => h[n] \in S[n]
    BY <1>2, <1>3, <1>6, <1>11
  <2>3. \A n \in 0..N : h[n] \in S[n]
    BY <2>1, <2>2, Reached, Zenon
  <2> QED
    BY <1>3, <2>3
<1>13. x' = h[N] /\ h[N] \in P
  BY <1>5, <1>6, <1>12 DEF h
<1> QED
  BY <1>13 DEF P, Books

\* bet_place_evaluator makes a bet out of nothing, and takes its amount off the
\* balance in the end: the money is the same, and the books are exact.
LEMMA BetPlaceFacts ==
    ASSUME x \in Exchange, Tidy(x.bets, 0), NEW a \in Account, NEW m \in Market,
           NEW n \in Amounts, NEW o \in Odds, NEW e \in Side, BetPlace(a, m, n, o, e)
    PROVE  x' \in Exchange /\ Even(x, x') /\ Tidy(x'.bets, 0)
<1> DEFINE b == [bettor |-> a, market |-> m, amount |-> n, odds |-> o, side |-> e,
                 delayed |-> group = "in_play"]
           s == x.bets
           r == Append(s, b)
           y == [x EXCEPT !.bets = r]
           z == IF b.delayed /\ LiveDelay THEN y ELSE Placed(y, Len(y.bets))
           w == z.bal[a] - n
           bal == [z.bal EXCEPT ![a] = w]
           v == [z EXCEPT !.bal = bal]
<1>1. n \in Nat /\ s \in Seq(Bet) /\ DOMAIN s = 1..Len(s) /\ Len(s) \in Nat
  BY BetAssumption, ExchangeFacts, BetFacts
<1>2. b \in Bet /\ b.amount = n
  BY <1>1 DEF Bet, Side
<1>3. z.bal[a] >= n /\ x' = [z EXCEPT !.bal[a] = @ - n]
  BY DEF BetPlace
<1> HIDE DEF b
<1>4. /\ r \in Seq(Bet) /\ Len(r) = Len(s) + 1 /\ r[Len(s) + 1] = b
      /\ \A i \in DOMAIN s : r[i] = s[i]
      /\ Stakes(r) = Stakes(s) + b.amount
  BY <1>1, <1>2, AppendedStakes
<1>5. DOMAIN r = 1..(Len(s) + 1)
  BY <1>1, <1>4
<1> HIDE DEF r
<1>6. y \in Exchange /\ y.bal = x.bal /\ y.bets = r /\ y.pos = x.pos
  BY <1>4 DEF Exchange
<1> HIDE DEF y
<1>7. /\ Money(y) = Money(x) + n
      /\ \A k \in Market : ExcessWon(y, k) = ExcessWon(x, k) /\ ExcessLost(y, k) = ExcessLost(x, k)
  <2>1. AllStaked(y) = AllStaked(x) /\ AllStaked(x) \in Nat /\ Balances(x) \in Nat /\ Stakes(s) \in Nat
    BY <1>6, SamePositions, MoneyTypes
  <2>2. Balances(y) = Balances(x)
    BY <1>6 DEF Balances
  <2>3. Stakes(y.bets) = Stakes(s) + n
    BY <1>2, <1>4, <1>6
  <2>4. Money(y) = Balances(y) + Stakes(y.bets) + AllStaked(y)
    BY DEF Money
  <2>5. Money(x) = Balances(x) + Stakes(s) + AllStaked(x)
    BY DEF Money
  <2>6. Money(y) = Money(x) + n
    BY <1>1, <2>1, <2>2, <2>3, <2>4, <2>5
  <2> QED
    BY <1>6, <2>6, SamePositions
<1>8. \A k \in DOMAIN r \ {Len(s) + 1} : ~r[k].delayed => ExactBet(r[k])
  <2> SUFFICES ASSUME NEW k \in DOMAIN r \ {Len(s) + 1}, ~r[k].delayed PROVE ExactBet(r[k])
    OBVIOUS
  <2>1. k \in DOMAIN s
    BY <1>1, <1>5
  <2>2. r[k] = s[k]
    BY <1>4, <2>1
  <2> QED
    BY <2>1, <2>2 DEF Tidy
<1>9. z \in Exchange /\ Even(y, z) /\ Tidy(z.bets, 0)
  <2>1. CASE b.delayed /\ LiveDelay
    <3>1. z = y
      BY <2>1
    <3>2. Tidy(r, 0)
      <4> SUFFICES ASSUME NEW k \in DOMAIN r, ~r[k].delayed \/ k = 0 PROVE ExactBet(r[k])
        BY DEF Tidy
      <4>1. k # 0
        BY <1>1, <1>5
      <4>2. k # Len(s) + 1
        BY <1>4, <2>1, <4>1
      <4> QED
        BY <1>8, <4>1, <4>2
    <3> QED
      BY <1>6, <3>1, <3>2 DEF Even
  <2>2. CASE ~ (b.delayed /\ LiveDelay)
    <3>1. z = Placed(y, Len(s) + 1)
      BY <1>4, <1>6, <2>2
    <3>2. Len(s) + 1 \in DOMAIN y.bets
      BY <1>1, <1>5, <1>6
    <3> HIDE DEF z
    <3> QED
      BY <1>6, <1>8, <3>1, <3>2, PlacedFacts
  <2> QED
    BY <2>1, <2>2
<1> HIDE DEF z
<1>10. z.bal \in [Account -> Nat] /\ z.bal[a] \in Nat /\ w \in Nat
  BY <1>1, <1>3, <1>9, ExchangeFacts
<1>11. x' = v
  BY <1>3, <1>9 DEF Exchange
<1> HIDE DEF w
<1>12. /\ bal \in [Account -> Nat]
       /\ SumFunctionOnSet(bal, Account) = SumFunctionOnSet(z.bal, Account) + (w - z.bal[a])
  BY <1>10, BalanceChanged
<1> HIDE DEF bal
<1>13. v \in Exchange /\ v.bal = bal /\ v.bets = z.bets /\ v.pos = z.pos
  BY <1>9, <1>12 DEF Exchange
<1> HIDE DEF v
<1>14. Money(v) = Money(x)
  <2>1. AllStaked(v) = AllStaked(z) /\ AllStaked(z) \in Nat /\ Balances(z) \in Nat /\ Stakes(z.bets) \in Nat
    BY <1>9, <1>13, SamePositions, MoneyTypes
  <2>2. Balances(v) = Balances(z) + (w - z.bal[a])
    BY <1>12, <1>13 DEF Balances
  <2>3. w - z.bal[a] = 0 - n
    BY <1>1, <1>10 DEF w
  <2>4. Money(v) = Balances(v) + Stakes(z.bets) + AllStaked(v)
    BY <1>13 DEF Money
  <2>5. Money(z) = Balances(z) + Stakes(z.bets) + AllStaked(z)
    BY DEF Money
  <2>6. Money(v) = Money(z) - n
    BY <1>1, <2>1, <2>2, <2>3, <2>4, <2>5
  <2>7. Money(z) = Money(x) + n /\ Money(x) \in Nat
    BY <1>7, <1>9, MoneyTypes DEF Even
  <2> QED
    BY <1>1, <2>6, <2>7
<1>15. Even(x, v)
  BY <1>7, <1>9, <1>13, <1>14, SamePositions DEF Even
<1> QED
  BY <1>9, <1>11, <1>13, <1>15

-----------------------------------------------------------------------------
(* Sums and parts.                                                         *)

\* SumFunction adds up over the whole domain.
LEMMA SumOf ==
    ASSUME NEW f
    PROVE  SumFunction(f) = SumFunctionOnSet(f, DOMAIN f)
  BY DEF SumFunction

\* A part of a number, rounded up, is at most the number.
LEMMA PartOf ==
    ASSUME NEW n \in Nat, NEW p \in Nat \ {0}, NEW r \in 0..p
    PROVE  (n * r + p - 1) \div p \in 0..n
<1> DEFINE k == n * r
           q == k + (p - 1)
           v == q \div p
<1>1. k \in Nat /\ k <= n * p /\ n * p \in Nat
  OBVIOUS
<1>2. (n * r + p - 1) \div p = v
  <2>1. n * r + p - 1 = q
    OBVIOUS
  <2> QED
    BY <2>1
<1> HIDE DEF k
<1>3. q \in Nat /\ q < (n * p) + p
  BY <1>1
<1> HIDE DEF q
<1>4. v \in Nat /\ q % p \in Nat /\ q = (v * p) + (q % p)
  BY <1>3, Division
<1> HIDE DEF v
<1>5. v * p < (n + 1) * p
  <2>1. (n + 1) * p = (n * p) + p /\ v * p \in Nat
    BY <1>4
  <2> QED
    BY <1>1, <1>3, <1>4, <2>1
<1>6. v <= n
  <2>1. v >= n + 1 => v * p >= (n + 1) * p
    BY <1>4, Times
  <2>2. v * p \in Nat /\ (n + 1) * p \in Nat
    BY <1>4
  <2> QED
    BY <1>4, <1>5, <2>1, <2>2
<1> QED
  BY <1>2, <1>4, <1>6

\* A share that does not exceed the whole takes no more than there is.
LEMMA ShareOfLeft ==
    ASSUME NEW n \in Nat, NEW p \in Nat \ {0}, NEW r \in 0..p
    PROVE  (n * r) \div p \in 0..n
<1> DEFINE k == n * r
           v == k \div p
<1>1. k \in Nat /\ k <= n * p
  OBVIOUS
<1> HIDE DEF k
<1>2. v \in Nat /\ k % p \in Nat /\ k = (v * p) + (k % p)
  BY <1>1, Division
<1> HIDE DEF v
<1>3. v * p <= n * p
  <2>1. v * p \in Nat /\ n * p \in Nat
    BY <1>2
  <2> QED
    BY <1>1, <1>2, <2>1
<1>4. v <= n
  BY <1>2, <1>3, Times
<1> QED
  BY <1>2, <1>4 DEF v, k

\* Appending to a sequence of amounts adds to their sum.
LEMMA AppendedSum ==
    ASSUME NEW s \in Seq(Nat), NEW n \in Nat
    PROVE  /\ Append(s, n) \in Seq(Nat) /\ Len(Append(s, n)) = Len(s) + 1
           /\ SumFunction(s) \in Nat
           /\ SumFunction(Append(s, n)) = SumFunction(s) + n
<1> DEFINE r == Append(s, n)
           k == Len(s) + 1
           D == 1..Len(s)
<1>1. /\ r \in Seq(Nat) /\ Len(r) = k /\ r[k] = n /\ DOMAIN s = D /\ Len(s) \in Nat
      /\ \A i \in D : r[i] = s[i] /\ s[i] \in Nat
  OBVIOUS
<1>2. DOMAIN r = D \cup {k} /\ k \notin D
  BY <1>1
<1>3. IsFiniteSet(D)
  BY <1>1, FS_Interval
<1> HIDE DEF r, k, D
<1>4. \A e \in D \cup {k} : r[e] \in Int
  BY <1>1
<1>5. SumFunctionOnSet(r, D \cup {k}) = r[k] + SumFunctionOnSet(r, D)
  BY <1>2, <1>3, <1>4, SumAdded, Zenon
<1>6. SumFunctionOnSet(r, D) = SumFunctionOnSet(s, D)
  <2>1. \A e \in D : s[e] \in Int /\ r[e] = s[e]
    BY <1>1
  <2> QED
    BY <1>3, <2>1, SumSame
<1>7. SumFunctionOnSet(s, D) \in Nat
  BY <1>1, <1>3, SumNat
<1>8. SumFunction(r) = SumFunctionOnSet(r, D \cup {k}) /\ SumFunction(s) = SumFunctionOnSet(s, D)
  BY <1>1, <1>2, SumOf
<1> QED
  BY <1>1, <1>5, <1>6, <1>7, <1>8 DEF r, k

-----------------------------------------------------------------------------
(* The shares of the affiliates.                                           *)

Deal == [left: Nat, of: Nat, to: Seq(Nat)]

\* An affiliate gets no more than is left, and the last one all of it.
LEMMA DealtFacts ==
    ASSUME NEW d \in Deal, NEW share \in Nat \ {0}, NEW rest \in Nat, d.of = share + rest
    PROVE  LET e == Dealt(d, share)
           IN  /\ e \in Deal /\ Len(e.to) = Len(d.to) + 1
               /\ SumFunction(e.to) + e.left = SumFunction(d.to) + d.left
               /\ rest # 0 => e.of = rest
               /\ rest = 0 => e.left = 0
<1> DEFINE pay == IF share = d.of THEN d.left ELSE (d.left * share) \div d.of
           e == Dealt(d, share)
<1>1. d.left \in Nat /\ d.of \in Nat \ {0} /\ d.to \in Seq(Nat) /\ share \in 0..d.of
  BY DEF Deal
<1>2. pay \in 0..d.left
  <2>1. (d.left * share) \div d.of \in 0..d.left
    BY <1>1, ShareOfLeft
  <2> QED
    BY <1>1, <2>1
<1>3. rest = 0 => pay = d.left
  BY <1>1
<1>4. /\ e.left = d.left - pay /\ e.to = Append(d.to, pay)
      /\ e.of = IF share = d.of THEN d.of ELSE d.of - share
      /\ e = [left |-> e.left, of |-> e.of, to |-> e.to]
  BY DEF Dealt
<1> HIDE DEF pay, e
<1>5. e.left \in Nat /\ (rest = 0 => e.left = 0)
  BY <1>1, <1>2, <1>3, <1>4
<1>6. e.of \in Nat /\ (rest # 0 => e.of = rest)
  BY <1>1, <1>4
<1>7. /\ e.to \in Seq(Nat) /\ Len(e.to) = Len(d.to) + 1 /\ SumFunction(d.to) \in Nat
      /\ SumFunction(e.to) = SumFunction(d.to) + pay
  <2> DEFINE t == d.to
  <2>1. pay \in Nat /\ t \in Seq(Nat) /\ e.to = Append(t, pay)
    BY <1>1, <1>2, <1>4
  <2> HIDE DEF t
  <2>2. /\ Append(t, pay) \in Seq(Nat) /\ Len(Append(t, pay)) = Len(t) + 1
        /\ SumFunction(t) \in Nat
        /\ SumFunction(Append(t, pay)) = SumFunction(t) + pay
    BY <2>1, AppendedSum
  <2> QED
    BY <2>1, <2>2, Zenon DEF t
<1>8. SumFunction(e.to) + e.left = SumFunction(d.to) + d.left
  <2> DEFINE l == d.left
             k == e.left
             g == SumFunction(d.to)
             h == SumFunction(e.to)
  <2>1. l \in Nat /\ pay \in 0..l /\ k = l - pay /\ g \in Nat /\ h = g + pay
    BY <1>1, <1>2, <1>4, <1>7, Zenon
  <2> HIDE DEF l, k, g, h
  <2>2. h + k = g + l
    BY <2>1
  <2> QED
    BY <2>2 DEF l, k, g, h
<1>9. e \in Deal
  BY <1>4, <1>5, <1>6, <1>7, Zenon DEF Deal
<1> QED
  BY <1>5, <1>6, <1>7, <1>8, <1>9 DEF e

\* What of the weights is left after the first i of them.
Rest(sh, i, N) == SumFunctionOnSet(sh, (i + 1)..N)

\* The weights left are the next weight and the ones left after it.
LEMMA RestFacts ==
    ASSUME NEW N \in Nat, NEW sh, \A i \in 1..N : sh[i] \in Nat \ {0}
    PROVE  \A i \in 1..N : /\ Rest(sh, i, N) \in Nat
                           /\ Rest(sh, i - 1, N) = sh[i] + Rest(sh, i, N)
                           /\ Rest(sh, i, N) = 0 <=> i = N
<1> SUFFICES ASSUME NEW i \in 1..N
             PROVE  /\ Rest(sh, i, N) \in Nat
                    /\ Rest(sh, i - 1, N) = sh[i] + Rest(sh, i, N)
                    /\ Rest(sh, i, N) = 0 <=> i = N
  OBVIOUS
<1> DEFINE D == (i + 1)..N
<1>1. IsFiniteSet(D) /\ D \subseteq 1..N /\ i \notin D
  BY FS_Interval
<1>2. D \cup {i} = ((i - 1) + 1)..N
  OBVIOUS
<1>3. \A e \in D \cup {i} : sh[e] \in Nat \ {0}
  BY <1>1
<1>4. i = N => D = {}
  OBVIOUS
<1>5. i # N => N \in D
  OBVIOUS
<1>6. Rest(sh, i, N) = SumFunctionOnSet(sh, D) /\ Rest(sh, i - 1, N) = SumFunctionOnSet(sh, D \cup {i})
  BY <1>2 DEF Rest
<1> HIDE DEF D
<1>7. SumFunctionOnSet(sh, D) \in Nat
  BY <1>1, <1>3, SumNat
<1>8. SumFunctionOnSet(sh, D \cup {i}) = sh[i] + SumFunctionOnSet(sh, D)
  <2>1. \A e \in D \cup {i} : sh[e] \in Int
    BY <1>3
  <2> QED
    BY <1>1, <2>1, SumAdded
<1>9. i # N => SumFunctionOnSet(sh, D) # 0
  <2> SUFFICES ASSUME i # N PROVE SumFunctionOnSet(sh, D) # 0
    OBVIOUS
  <2>1. IsFiniteSet(D \ {N}) /\ \A e \in D : sh[e] \in Int
    BY <1>1, <1>3, FS_Subset
  <2>2. SumFunctionOnSet(sh, D) = sh[N] + SumFunctionOnSet(sh, D \ {N})
    BY <1>1, <1>5, <2>1, SumSplit
  <2>3. SumFunctionOnSet(sh, D \ {N}) \in Nat
    BY <1>3, <2>1, SumNat
  <2>4. sh[N] \in Nat \ {0}
    BY <1>3, <1>5
  <2> QED
    BY <2>2, <2>3, <2>4
<1>10. i = N => SumFunctionOnSet(sh, D) = 0
  BY <1>4, SumEmpty
<1> QED
  BY <1>6, <1>7, <1>8, <1>9, <1>10

\* affiliate_payout_helper::payout() pays the affiliates of a bettor exactly a
\* fifth of the rake, and nothing if there are none.
LEMMA SharesFacts ==
    ASSUME NEW a \in Account, Rake(a) \in Nat
    PROVE  /\ Shares(a) \in Seq(Nat) /\ DOMAIN Shares(a) = DOMAIN Affiliates[a]
           /\ SumFunction(Shares(a)) \in 0..Rake(a)
           /\ Affiliates[a] # << >> => SumFunction(Shares(a)) = Rake(a) \div 5
<1> DEFINE list == Affiliates[a]
           N == Len(list)
           sh == [i \in DOMAIN list |-> list[i].share]
           fifth == Rake(a) \div 5
           R(n) == Rest(sh, n, N)
           d0 == [left |-> fifth, of |-> Percent, to |-> << >>]
           P(n) == {d \in Deal : /\ Len(d.to) = n
                                 /\ n < N => d.of = R(n)
                                 /\ n = N /\ N # 0 => d.left = 0
                                 /\ SumFunction(d.to) + d.left = fifth}
           S == [n \in 0..N |-> P(n)]
           F == [n \in 1..N |-> [d \in Deal |-> Dealt(d, list[n].share)]]
           Eq(g) == g = [n \in 0..N |-> IF n = 0 THEN d0 ELSE Dealt(g[n - 1], list[n].share)]
<1>1. /\ N \in Nat /\ DOMAIN list = 1..N
      /\ \A i \in 1..N : list[i].share \in Nat \ {0} /\ sh[i] = list[i].share
  <2> DEFINE T == [account: Account, share: 1..Percent]
  <2>1. list \in Seq(T) /\ Percent \in Nat
    BY RakeAssumption
  <2> HIDE DEF T, list
  <2>2. N \in Nat /\ DOMAIN list = 1..N
    BY <2>1
  <2>3. \A i \in 1..N : list[i] \in T
    BY <2>1
  <2>4. \A i \in 1..N : list[i].share \in Nat \ {0}
    BY <2>1, <2>3 DEF T
  <2>5. \A i \in 1..N : sh[i] = list[i].share
    BY <2>2
  <2> QED
    BY <2>2, <2>4, <2>5
<1>2. fifth \in 0..Rake(a) /\ fifth \in Nat
  OBVIOUS
<1>3. R(0) = SumFunction(sh)
  BY <1>1, SumOf DEF Rest
<1>4. N # 0 => R(0) = Percent
  BY <1>1, <1>3, RakeAssumption
<1>5. Shares(a) = (CHOOSE g : Eq(g))[N].to
  BY DEF Shares
<1>6. \A n \in 0..N : S[n] = P(n)
  OBVIOUS
<1>7. \A n \in 1..N : \A d \in Deal : F[n][d] = Dealt(d, list[n].share)
  OBVIOUS
<1>8. \A n \in 0..N : P(n) \subseteq Deal
  OBVIOUS
<1>9. 0 \in 0..N /\ N \in 0..N /\ \A n \in 1..N : n \in 0..N /\ n - 1 \in 0..N
  BY <1>1
<1> HIDE DEF sh, list, N, fifth, S, F
<1>10. d0 \in P(0)
  <2>1. d0 \in Deal /\ d0.to = << >> /\ d0.left = fifth /\ d0.of = Percent
    BY <1>2, RakeAssumption DEF Deal
  <2>2. SumFunction(<< >>) = 0
    <3>1. DOMAIN << >> = {}
      OBVIOUS
    <3> QED
      BY <3>1, SumOf, SumEmpty
  <2> HIDE DEF d0
  <2> QED
    BY <1>1, <1>2, <1>4, <2>1, <2>2
<1>11. ASSUME NEW n \in 1..N, NEW d \in P(n - 1)
       PROVE  Dealt(d, list[n].share) \in P(n)
  <2> DEFINE e == Dealt(d, list[n].share)
  <2>1. R(n) \in Nat /\ R(n - 1) = sh[n] + R(n) /\ (R(n) = 0 <=> n = N)
    BY <1>1, RestFacts
  <2>2. d \in Deal /\ Len(d.to) = n - 1 /\ SumFunction(d.to) + d.left = fifth /\ d.of = R(n - 1)
    BY <1>1
  <2>3. /\ e \in Deal /\ Len(e.to) = Len(d.to) + 1
        /\ SumFunction(e.to) + e.left = SumFunction(d.to) + d.left
        /\ R(n) # 0 => e.of = R(n)
        /\ R(n) = 0 => e.left = 0
    BY <1>1, <2>1, <2>2, DealtFacts
  <2> HIDE DEF e, R
  <2>4. Len(e.to) = n /\ (n < N => e.of = R(n)) /\ (n = N /\ N # 0 => e.left = 0)
    BY <1>1, <2>1, <2>2, <2>3
  <2> QED
    BY <2>2, <2>3, <2>4 DEF e
<1> HIDE DEF P, d0, Eq
<1>12. PICK g : Unrolls(g, d0, F, N)
  BY <1>1, Recursion
<1>13. \A n \in 0..N : g[n] \in P(n)
  <2>1. g[0] = d0 /\ \A n \in 1..N : g[n] = F[n][g[n - 1]]
    BY <1>1, <1>12 DEF Unrolls
  <2>2. g[0] \in S[0]
    BY <1>6, <1>9, <1>10, <2>1
  <2>3. \A n \in 1..N : g[n - 1] \in S[n - 1] => g[n] \in S[n]
    BY <1>6, <1>7, <1>8, <1>9, <1>11, <2>1
  <2>4. \A n \in 0..N : g[n] \in S[n]
    BY <1>1, <2>2, <2>3, Reached, Zenon
  <2> QED
    BY <1>6, <2>4
<1>14. Eq(g)
  <2>1. ASSUME NEW n \in 0..N
        PROVE  (IF n = 0 THEN d0 ELSE F[n][g[n - 1]])
               = (IF n = 0 THEN d0 ELSE Dealt(g[n - 1], list[n].share))
    <3>1. CASE n # 0
      <4>1. n \in 1..N /\ n - 1 \in 0..N
        BY <1>1, <3>1
      <4> QED
        BY <1>7, <1>8, <1>13, <4>1
    <3> QED
      BY <3>1
  <2> QED
    BY <1>12, <2>1, Zenon DEF Unrolls, Eq
<1> DEFINE h == CHOOSE f : Eq(f)
<1>15. Eq(h)
  BY <1>14
<1> HIDE DEF h
<1>16. h[0] = d0 /\ \A n \in 1..N : h[n] = Dealt(h[n - 1], list[n].share)
  BY <1>1, <1>15 DEF Eq
<1>17. \A n \in 0..N : h[n] \in P(n)
  <2>1. h[0] \in S[0]
    BY <1>6, <1>9, <1>10, <1>16
  <2>2. \A n \in 1..N : h[n - 1] \in S[n - 1] => h[n] \in S[n]
    BY <1>6, <1>9, <1>11, <1>16
  <2>3. \A n \in 0..N : h[n] \in S[n]
    BY <1>1, <2>1, <2>2, Reached
  <2> QED
    BY <1>6, <2>3
<1>18. h[N] \in P(N) /\ Shares(a) = h[N].to
  BY <1>5, <1>9, <1>17 DEF h
<1> DEFINE e == h[N]
<1>19. /\ e \in Deal /\ Len(e.to) = N /\ (N # 0 => e.left = 0)
       /\ SumFunction(e.to) + e.left = fifth
  BY <1>18 DEF P
<1> HIDE DEF e
<1>20. e.to \in Seq(Nat) /\ e.left \in Nat
  BY <1>19 DEF Deal
<1>21. SumFunction(e.to) \in Nat
  BY <1>20, AppendedSum
<1>22. DOMAIN e.to = 1..N
  BY <1>19, <1>20
<1>23. SumFunction(e.to) \in 0..Rake(a) /\ (N # 0 => SumFunction(e.to) = fifth)
  BY <1>2, <1>19, <1>20, <1>21
<1>24. list # << >> => N # 0
  BY RakeAssumption DEF list, N
<1> QED
  BY <1>1, <1>18, <1>20, <1>22, <1>23, <1>24 DEF e, list, fifth

-----------------------------------------------------------------------------
(* Payouts and rake.                                                       *)

\* Every market has been resolved.
Resolved == resolution \in [Market -> {"win", "not_win", "cancel"}]

\* No market's positions owe more or less than was staked in them.
Balanced(y) == \A m \in Market : ExcessWon(y, m) = 0 /\ ExcessLost(y, m) = 0

\* What was staked by an account in the group.
StakedBy(a) == SumFunction([m \in Market |-> x.pos[a][m].canceled])

\* What a position is paid.
LEMMA PayoutFacts ==
    ASSUME x \in Exchange, Resolved, NEW a \in Account, NEW m \in Market
    PROVE  LET p == x.pos[a][m]
           IN  /\ Payout(a, m) \in Nat /\ p.canceled \in Nat
               /\ resolution[m] = "win" => Payout(a, m) = OwedWon(p) + p.canceled
               /\ resolution[m] = "not_win" => Payout(a, m) = OwedLost(p) + p.canceled
               /\ resolution[m] = "cancel" => Payout(a, m) = p.canceled
<1> DEFINE p == x.pos[a][m]
<1>1. p \in Position
  BY ExchangeFacts
<1>2. p.win \in Nat /\ p.lose \in Nat /\ p.canceled \in Nat /\ p.played \in Nat
  BY <1>1 DEF Position
<1>3. resolution[m] \in {"win", "not_win", "cancel"}
  BY DEF Resolved
<1>4. /\ resolution[m] = "win" => Payout(a, m) = p.win + p.played
      /\ resolution[m] = "not_win" => Payout(a, m) = p.lose + p.played
      /\ resolution[m] = "cancel" => Payout(a, m) = p.canceled
  BY DEF Payout
<1> HIDE DEF p
<1>5. Payout(a, m) \in Nat
  BY <1>2, <1>3, <1>4
<1>6. /\ p.win + p.played = OwedWon(p) + p.canceled
      /\ p.lose + p.played = OwedLost(p) + p.canceled
  BY <1>2 DEF OwedWon, OwedLost
<1> QED
  BY <1>2, <1>4, <1>5, <1>6 DEF p

\* The positions in a market are paid what was staked in them.
LEMMA MarketPaid ==
    ASSUME x \in Exchange, Resolved, Balanced(x), NEW m \in Market
    PROVE  SumFunctionOnSet([a \in Account |-> Payout(a, m)], Account) = Staked(x, m)
<1> DEFINE pay == [a \in Account |-> Payout(a, m)]
           won == [a \in Account |-> OwedWon(x.pos[a][m])]
           lost == [a \in Account |-> OwedLost(x.pos[a][m])]
           put == [a \in Account |-> x.pos[a][m].canceled]
<1>1. /\ \A a \in Account : /\ pay[a] \in Int /\ won[a] \in Int /\ lost[a] \in Int /\ put[a] \in Int
      /\ resolution[m] = "win" => \A a \in Account : pay[a] = won[a] + put[a]
      /\ resolution[m] = "not_win" => \A a \in Account : pay[a] = lost[a] + put[a]
      /\ resolution[m] = "cancel" => \A a \in Account : pay[a] = put[a]
  <2>1. ASSUME NEW a \in Account
        PROVE  /\ pay[a] \in Int /\ won[a] \in Int /\ lost[a] \in Int /\ put[a] \in Int
               /\ resolution[m] = "win" => pay[a] = won[a] + put[a]
               /\ resolution[m] = "not_win" => pay[a] = lost[a] + put[a]
               /\ resolution[m] = "cancel" => pay[a] = put[a]
    <3>1. /\ Payout(a, m) \in Nat /\ x.pos[a][m].canceled \in Nat
          /\ resolution[m] = "win" => Payout(a, m) = OwedWon(x.pos[a][m]) + x.pos[a][m].canceled
          /\ resolution[m] = "not_win" => Payout(a, m) = OwedLost(x.pos[a][m]) + x.pos[a][m].canceled
          /\ resolution[m] = "cancel" => Payout(a, m) = x.pos[a][m].canceled
      BY PayoutFacts
    <3>2. OwedWon(x.pos[a][m]) \in Int /\ OwedLost(x.pos[a][m]) \in Int
      BY ExchangeFacts
    <3> QED
      BY <3>1, <3>2
  <2> HIDE DEF pay, won, lost, put
  <2> QED
    BY <2>1
<1>2. SumFunctionOnSet(won, Account) = 0 /\ SumFunctionOnSet(lost, Account) = 0
  BY DEF Balanced, ExcessWon, ExcessLost
<1>3. Staked(x, m) = SumFunctionOnSet(put, Account)
  BY DEF Staked
<1>4. resolution[m] \in {"win", "not_win", "cancel"} /\ IsFiniteSet(Account)
  BY BetAssumption DEF Resolved
<1>5. SumFunctionOnSet(put, Account) \in Int
  BY <1>3, MoneyTypes
<1> HIDE DEF pay, won, lost, put
<1>6. CASE resolution[m] = "win"
  <2>1. SumFunctionOnSet(pay, Account) = SumFunctionOnSet(won, Account) + SumFunctionOnSet(put, Account)
    BY <1>1, <1>4, <1>6, SumPlus
  <2> QED
    BY <1>2, <1>3, <1>5, <2>1 DEF pay
<1>7. CASE resolution[m] = "not_win"
  <2>1. SumFunctionOnSet(pay, Account) = SumFunctionOnSet(lost, Account) + SumFunctionOnSet(put, Account)
    BY <1>1, <1>4, <1>7, SumPlus
  <2> QED
    BY <1>2, <1>3, <1>5, <2>1 DEF pay
<1>8. CASE resolution[m] = "cancel"
  <2>1. SumFunctionOnSet(pay, Account) = SumFunctionOnSet(put, Account)
    BY <1>1, <1>4, <1>8, SumSame
  <2> QED
    BY <1>3, <2>1 DEF pay
<1> QED
  BY <1>4, <1>6, <1>7, <1>8

\* All the payouts together are all the stakes.
LEMMA AllPaid ==
    ASSUME x \in Exchange, Resolved, Balanced(x)
    PROVE  /\ SumFunctionOnSet([a \in Account |-> Payouts(a)], Account) = AllStaked(x)
           /\ \A a \in Account : Payouts(a) \in Nat
<1> DEFINE f == [a \in Account |-> [m \in Market |-> Payout(a, m)]]
<1>1. IsFiniteSet(Account) /\ IsFiniteSet(Market)
  BY BetAssumption
<1>2. \A a \in Account, m \in Market : f[a][m] = Payout(a, m) /\ f[a][m] \in Nat
  BY PayoutFacts
<1>3. \A a \in Account : Payouts(a) = SumFunctionOnSet(f[a], Market)
  BY SumOf DEF Payouts
<1>4. \A a \in Account : Payouts(a) \in Nat
  <2> SUFFICES ASSUME NEW a \in Account PROVE Payouts(a) \in Nat
    OBVIOUS
  <2>1. \A m \in Market : f[a][m] \in Nat
    BY <1>2
  <2> HIDE DEF f
  <2> QED
    BY <1>1, <1>3, <2>1, SumNat
<1>5. ASSUME NEW m \in Market
      PROVE  SumFunctionOnSet([a \in Account |-> f[a][m]], Account) = Staked(x, m)
  <2>1. [a \in Account |-> f[a][m]] = [a \in Account |-> Payout(a, m)]
    BY <1>2
  <2> QED
    BY <2>1, MarketPaid
<1>6. [a \in Account |-> Payouts(a)] = [a \in Account |-> SumFunctionOnSet(f[a], Market)]
  BY <1>3
<1>7. \A a \in Account, m \in Market : f[a][m] \in Int
  BY <1>2
<1> HIDE DEF f
<1>8. SumFunctionOnSet([a \in Account |-> SumFunctionOnSet(f[a], Market)], Account)
        = SumFunctionOnSet([m \in Market |-> SumFunctionOnSet([a \in Account |-> f[a][m]], Account)],
                           Market)
  BY <1>1, <1>7, SumSwap
<1>9. [m \in Market |-> SumFunctionOnSet([a \in Account |-> f[a][m]], Account)]
        = [m \in Market |-> Staked(x, m)]
  BY <1>5, Zenon
<1> QED
  BY <1>4, <1>6, <1>8, <1>9 DEF AllStaked

\* The rake is at most what was won, and what was won is what is paid beyond the
\* stakes: a bettor keeps the smaller of the payouts and the stakes.
LEMMA RakeFacts ==
    ASSUME x \in Exchange, Resolved, Balanced(x), NEW a \in Account
    PROVE  /\ Rake(a) \in 0..Payouts(a) /\ StakedBy(a) \in Nat
           /\ Payouts(a) - Rake(a) >= Smallest(Payouts(a), StakedBy(a))
<1> DEFINE pay == [m \in Market |-> Payout(a, m)]
           put == [m \in Market |-> x.pos[a][m].canceled]
           net == [m \in Market |-> IF resolution[m] = "cancel" THEN 0
                                    ELSE Payout(a, m) - x.pos[a][m].canceled]
<1>1. IsFiniteSet(Market)
  BY BetAssumption
<1>2. \A m \in Market : pay[m] \in Nat /\ put[m] \in Nat /\ net[m] \in Int /\ pay[m] = net[m] + put[m]
  <2> SUFFICES ASSUME NEW m \in Market
               PROVE  pay[m] \in Nat /\ put[m] \in Nat /\ net[m] \in Int /\ pay[m] = net[m] + put[m]
    OBVIOUS
  <2>1. /\ Payout(a, m) \in Nat /\ x.pos[a][m].canceled \in Nat
        /\ resolution[m] = "cancel" => Payout(a, m) = x.pos[a][m].canceled
    BY PayoutFacts
  <2> QED
    BY <2>1
<1>3. /\ Payouts(a) = SumFunctionOnSet(pay, Market)
      /\ NetProfits(a) = SumFunctionOnSet(net, Market)
      /\ StakedBy(a) = SumFunctionOnSet(put, Market)
  BY SumOf DEF Payouts, NetProfits, StakedBy
<1> HIDE DEF pay, put, net
<1>4. Payouts(a) \in Nat /\ StakedBy(a) \in Nat
  <2>1. SumFunctionOnSet(pay, Market) \in Nat
    BY <1>1, <1>2, SumNat
  <2>2. SumFunctionOnSet(put, Market) \in Nat
    BY <1>1, <1>2, SumNat
  <2> QED
    BY <1>3, <2>1, <2>2
<1>5. NetProfits(a) \in Int /\ Payouts(a) = NetProfits(a) + StakedBy(a)
  <2>1. SumFunctionOnSet(net, Market) \in Int
    BY <1>1, <1>2, SumInt
  <2>2. \A m \in Market : net[m] \in Int /\ put[m] \in Int /\ pay[m] = net[m] + put[m]
    BY <1>2
  <2>3. SumFunctionOnSet(pay, Market) = SumFunctionOnSet(net, Market) + SumFunctionOnSet(put, Market)
    BY <1>1, <2>2, SumPlus
  <2> QED
    BY <1>3, <2>1, <2>3
<1>6. CASE NetProfits(a) > 0
  <2>1. NetProfits(a) \in Nat /\ Percent \in Nat \ {0} /\ RakeFee \in 0..Percent
    BY <1>5, <1>6, RakeAssumption
  <2>2. (NetProfits(a) * RakeFee + Percent - 1) \div Percent \in 0..NetProfits(a)
    BY <2>1, PartOf
  <2>3. Rake(a) \in 0..NetProfits(a)
    BY <1>6, <2>2 DEF Rake
  <2> QED
    BY <1>4, <1>5, <2>1, <2>3 DEF Smallest
<1>7. CASE ~ (NetProfits(a) > 0)
  <2>1. Rake(a) = 0
    BY <1>7 DEF Rake
  <2> QED
    BY <1>4, <2>1 DEF Smallest
<1> QED
  BY <1>6, <1>7

\* The affiliates' shares of an account's rake go to accounts.
LEMMA SharesReceived ==
    ASSUME NEW a \in Account, Rake(a) \in Nat
    PROVE  /\ \A b \in Account : ShareOf(b, a) \in Nat
           /\ SumFunctionOnSet([b \in Account |-> ShareOf(b, a)], Account) = SumFunction(Shares(a))
<1> DEFINE list == Affiliates[a]
           D == DOMAIN list
           s == Shares(a)
           f == [b \in Account |-> [i \in D |-> IF list[i].account = b THEN s[i] ELSE 0]]
<1>1. IsFiniteSet(Account)
  BY BetAssumption
<1>2. s \in Seq(Nat) /\ DOMAIN s = D
  BY SharesFacts
<1>3. IsFiniteSet(D) /\ \A i \in D : list[i].account \in Account
  <2> DEFINE T == [account: Account, share: 1..Percent]
  <2>1. list \in Seq(T)
    BY RakeAssumption
  <2> HIDE DEF T, list
  <2>2. Len(list) \in Nat /\ DOMAIN list = 1..Len(list) /\ \A i \in D : list[i] \in T
    BY <2>1
  <2>3. IsFiniteSet(1..Len(list))
    BY <2>2, FS_Interval
  <2> QED
    BY <2>2, <2>3 DEF T
<1>4. \A b \in Account : ShareOf(b, a) = SumFunctionOnSet(f[b], D)
  BY SumOf DEF ShareOf
<1>5. \A i \in D : s[i] \in Nat
  BY <1>2
<1> HIDE DEF s, list, D
<1>6. \A b \in Account, i \in D : f[b][i] \in Nat /\ f[b][i] = IF list[i].account = b THEN s[i] ELSE 0
  BY <1>5
<1> HIDE DEF f
<1>7. ASSUME NEW b \in Account PROVE ShareOf(b, a) \in Nat
  <2>1. \A i \in D : f[b][i] \in Nat
    BY <1>6
  <2> QED
    BY <1>3, <1>4, <2>1, SumNat
<1>8. [b \in Account |-> ShareOf(b, a)] = [b \in Account |-> SumFunctionOnSet(f[b], D)]
  BY <1>4, Zenon
<1>9. SumFunctionOnSet([b \in Account |-> SumFunctionOnSet(f[b], D)], Account)
        = SumFunctionOnSet([i \in D |-> SumFunctionOnSet([b \in Account |-> f[b][i]], Account)], D)
  <2>1. \A b \in Account, i \in D : f[b][i] \in Int
    BY <1>6
  <2> QED
    BY <1>1, <1>3, <2>1, SumSwap
<1>10. ASSUME NEW i \in D
       PROVE  SumFunctionOnSet([b \in Account |-> f[b][i]], Account) = s[i]
  <2> DEFINE c == list[i].account
             g == [b \in Account |-> f[b][i]]
  <2>1. c \in Account /\ g[c] = s[i] /\ g[c] \in Int /\ \A b \in Account \ {c} : g[b] = 0
    BY <1>3, <1>5, <1>6
  <2> HIDE DEF c, g
  <2>2. SumFunctionOnSet(g, Account) = g[c]
    BY <1>1, <2>1, SumPoint
  <2> QED
    BY <2>1, <2>2 DEF g
<1> DEFINE r == [i \in D |-> SumFunctionOnSet([b \in Account |-> f[b][i]], Account)]
<1>11. \A i \in D : s[i] \in Int /\ r[i] = s[i]
  BY <1>5, <1>10
<1> HIDE DEF r
<1>12. SumFunctionOnSet(r, D) = SumFunctionOnSet(s, D)
  BY <1>3, <1>11, SumSame
<1>13. SumFunction(s) = SumFunctionOnSet(s, D)
  BY <1>2, SumOf
<1> QED
  BY <1>7, <1>8, <1>9, <1>12, <1>13 DEF r, s

-----------------------------------------------------------------------------
(* Settling the group.                                                     *)

\* Without bets and positions there is only the money on the balances.
LEMMA EmptyFacts ==
    ASSUME NEW y, NEW bal \in [Account -> Nat],
           y = [bal |-> bal, bets |-> << >>,
                pos |-> [a \in Account |-> [m \in Market |-> NoPosition]]]
    PROVE  /\ y \in Exchange /\ Money(y) = Balances(y) /\ Balanced(y) /\ Tidy(y.bets, 0)
<1>1. NoPosition \in Position /\ NoPosition.canceled = 0 /\ OwedWon(NoPosition) = 0 /\ OwedLost(NoPosition) = 0
  BY DEF NoPosition, Position, OwedWon, OwedLost
<1>2. y.bal = bal /\ y.bets = << >> /\ \A a \in Account, m \in Market : y.pos[a][m] = NoPosition
  OBVIOUS
<1>3. << >> \in Seq(Bet) /\ DOMAIN << >> = {}
  OBVIOUS
<1>4. y \in Exchange
  BY <1>1, <1>3 DEF Exchange
<1>5. IsFiniteSet(Account) /\ IsFiniteSet(Market)
  BY BetAssumption
<1>6. ASSUME NEW m \in Market
      PROVE  Staked(y, m) = 0 /\ ExcessWon(y, m) = 0 /\ ExcessLost(y, m) = 0
  <2> DEFINE put == [a \in Account |-> y.pos[a][m].canceled]
             won == [a \in Account |-> OwedWon(y.pos[a][m])]
             lost == [a \in Account |-> OwedLost(y.pos[a][m])]
  <2>1. \A a \in Account : put[a] = 0 /\ won[a] = 0 /\ lost[a] = 0
    BY <1>1, <1>2
  <2>2. Staked(y, m) = SumFunctionOnSet(put, Account) /\ ExcessWon(y, m) = SumFunctionOnSet(won, Account)
        /\ ExcessLost(y, m) = SumFunctionOnSet(lost, Account)
    BY DEF Staked, ExcessWon, ExcessLost
  <2> HIDE DEF put, won, lost
  <2> QED
    BY <1>5, <2>1, <2>2, SumZero
<1>7. AllStaked(y) = 0
  <2> DEFINE f == [m \in Market |-> Staked(y, m)]
  <2>1. \A m \in Market : f[m] = 0
    BY <1>6
  <2>2. AllStaked(y) = SumFunctionOnSet(f, Market)
    BY DEF AllStaked
  <2> HIDE DEF f
  <2> QED
    BY <1>5, <2>1, <2>2, SumZero
<1>8. Stakes(y.bets) = 0
  BY <1>2, <1>3, SumEmpty DEF Stakes
<1>9. Balances(y) \in Nat
  BY <1>4, MoneyTypes
<1>10. Money(y) = Balances(y)
  <2>1. Money(y) = Balances(y) + Stakes(y.bets) + AllStaked(y)
    BY DEF Money
  <2> QED
    BY <1>7, <1>8, <1>9, <2>1
<1>11. Tidy(y.bets, 0)
  BY <1>2, <1>3 DEF Tidy
<1> QED
  BY <1>4, <1>6, <1>10, <1>11 DEF Balanced

\* settle_betting_market_group() pays out all the stakes: to the bettors, their
\* affiliates and the house.
LEMMA SettleFacts ==
    ASSUME x \in Exchange, house \in Nat, Resolved, Balanced(x), Settle
    PROVE  /\ x' \in Exchange /\ house' \in Nat /\ Money(x') + house' = Money(x) + house
           /\ Balanced(x') /\ x'.bets = << >> /\ Tidy(x'.bets, 0)
           /\ \A a \in Account :
                x'.bal[a] - x.bal[a] >= Smallest(Payouts(a), StakedBy(a))
<1> DEFINE y == Unmatched(x)
           kept == [a \in Account |-> Payouts(a) - Rake(a)]
           extra == [a \in Account |-> SumFunction([b \in Account |-> ShareOf(a, b)])]
           earned == [a \in Account |->
                        Payouts(a) - Rake(a)
                          + SumFunction([b \in Account |-> ShareOf(a, b)])]
           bal == [a \in Account |-> y.bal[a] + earned[a]]
           shared == [a \in Account |-> SumFunction(Shares(a))]
           rest == [a \in Account |-> Rake(a) - SumFunction(Shares(a))]
           paid == [a \in Account |-> Payouts(a)]
           f == [a \in Account |-> [b \in Account |-> ShareOf(a, b)]]
<1>0. IsFiniteSet(Account)
  BY BetAssumption
<1>1. /\ y \in Exchange /\ Even(x, y) /\ y.bets = << >> /\ y.pos = x.pos
      /\ \A a \in Account : y.bal[a] >= x.bal[a]
  BY UnmatchedFacts
<1>2. x' = [bal |-> bal, bets |-> << >>,
            pos |-> [a \in Account |-> [m \in Market |-> NoPosition]]]
  BY DEF Settle
<1>3. house' = house + SumFunction(rest)
  BY DEF Settle
<1>4. SumFunction(rest) = SumFunctionOnSet(rest, Account)
  BY SumOf
<1>5. \A a \in Account : Payouts(a) \in Nat
  BY AllPaid
<1>6. \A a \in Account : /\ Rake(a) \in Nat /\ Rake(a) <= Payouts(a) /\ StakedBy(a) \in Nat
                         /\ Payouts(a) - Rake(a) >= Smallest(Payouts(a), StakedBy(a))
  BY <1>5, RakeFacts
<1>7. \A a \in Account : SumFunction(Shares(a)) \in Nat /\ SumFunction(Shares(a)) <= Rake(a)
  BY <1>6, SharesFacts
<1>8. \A a, b \in Account : f[a][b] = ShareOf(a, b) /\ f[a][b] \in Nat
  BY <1>6, SharesReceived
<1>9. \A a \in Account : extra[a] = SumFunctionOnSet(f[a], Account)
  BY SumOf
<1>10. \A a \in Account : extra[a] \in Nat
  <2> SUFFICES ASSUME NEW a \in Account PROVE extra[a] \in Nat
    OBVIOUS
  <2>1. \A b \in Account : f[a][b] \in Nat
    BY <1>8
  <2> HIDE DEF f, extra
  <2> QED
    BY <1>0, <1>9, <2>1, SumNat
<1>11. \A a \in Account : /\ kept[a] = Payouts(a) - Rake(a) /\ kept[a] \in Nat
                          /\ earned[a] = kept[a] + extra[a]
                          /\ paid[a] = Payouts(a) /\ shared[a] = SumFunction(Shares(a))
                          /\ rest[a] = Rake(a) - shared[a] /\ rest[a] \in Nat
                          /\ bal[a] = y.bal[a] + earned[a]
  BY <1>5, <1>6, <1>7
<1>12. SumFunctionOnSet(extra, Account) = SumFunctionOnSet(shared, Account)
  <2>1. extra = [a \in Account |-> SumFunctionOnSet(f[a], Account)]
    BY <1>9
  <2>2. \A b \in Account :
          SumFunctionOnSet([a \in Account |-> f[a][b]], Account) = SumFunction(Shares(b))
    <3> SUFFICES ASSUME NEW b \in Account
                 PROVE  SumFunctionOnSet([a \in Account |-> f[a][b]], Account) = SumFunction(Shares(b))
      OBVIOUS
    <3>1. [a \in Account |-> f[a][b]] = [a \in Account |-> ShareOf(a, b)]
      BY <1>8
    <3> QED
      BY <1>6, <3>1, SharesReceived
  <2>3. \A a \in Account, b \in Account : f[a][b] \in Int
    BY <1>8
  <2> HIDE DEF f
  <2>4. SumFunctionOnSet([a \in Account |-> SumFunctionOnSet(f[a], Account)], Account)
          = SumFunctionOnSet([b \in Account |-> SumFunctionOnSet([a \in Account |-> f[a][b]], Account)],
                             Account)
    BY <1>0, <2>3, SumSwap
  <2>5. [b \in Account |-> SumFunctionOnSet([a \in Account |-> f[a][b]], Account)] = shared
    BY <2>2, Zenon
  <2> QED
    BY <2>1, <2>4, <2>5
<1>13. SumFunctionOnSet(paid, Account) = AllStaked(x)
  BY AllPaid
<1> HIDE DEF kept, extra, earned, bal, shared, rest, paid, f, y
<1>14. bal \in [Account -> Nat] /\ y.bal \in [Account -> Nat]
  <2>1. y.bal \in [Account -> Nat]
    BY <1>1, ExchangeFacts
  <2>2. \A a \in Account : y.bal[a] + earned[a] \in Nat
    BY <1>10, <1>11, <2>1
  <2> QED
    BY <2>1, <2>2 DEF bal
<1>15. /\ x' \in Exchange /\ Money(x') = Balances(x') /\ Balanced(x') /\ Tidy(x'.bets, 0)
       /\ x'.bal = bal /\ x'.bets = << >>
  BY <1>2, <1>14, EmptyFacts
<1> DEFINE raked == [a \in Account |-> Rake(a)]
<1>16. \A a \in Account : raked[a] = Rake(a) /\ raked[a] \in Nat
  BY <1>6
<1> HIDE DEF raked
\* Each of the sums.
<1>17. SumFunctionOnSet(bal, Account) = SumFunctionOnSet(y.bal, Account) + SumFunctionOnSet(earned, Account)
  <2>1. \A a \in Account : y.bal[a] \in Int /\ earned[a] \in Int /\ bal[a] = y.bal[a] + earned[a]
    BY <1>10, <1>11, <1>14
  <2> QED
    BY <1>0, <2>1, SumPlus
<1>18. SumFunctionOnSet(earned, Account) = SumFunctionOnSet(kept, Account) + SumFunctionOnSet(extra, Account)
  <2>1. \A a \in Account : kept[a] \in Int /\ extra[a] \in Int /\ earned[a] = kept[a] + extra[a]
    BY <1>10, <1>11
  <2> QED
    BY <1>0, <2>1, SumPlus
<1>19. SumFunctionOnSet(paid, Account) = SumFunctionOnSet(kept, Account) + SumFunctionOnSet(raked, Account)
  <2>1. \A a \in Account : kept[a] \in Int /\ raked[a] \in Int /\ paid[a] = kept[a] + raked[a]
    BY <1>5, <1>6, <1>11, <1>16
  <2> QED
    BY <1>0, <2>1, SumPlus
<1>20. SumFunctionOnSet(raked, Account) = SumFunctionOnSet(rest, Account) + SumFunctionOnSet(shared, Account)
  <2>1. \A a \in Account : rest[a] \in Int /\ shared[a] \in Int /\ raked[a] = rest[a] + shared[a]
    BY <1>6, <1>7, <1>11, <1>16
  <2> QED
    BY <1>0, <2>1, SumPlus
<1>21. /\ SumFunctionOnSet(kept, Account) \in Nat /\ SumFunctionOnSet(rest, Account) \in Nat
       /\ SumFunctionOnSet(shared, Account) \in Nat
  <2>1. \A a \in Account : kept[a] \in Nat /\ rest[a] \in Nat /\ shared[a] \in Nat
    BY <1>7, <1>11
  <2> QED
    BY <1>0, <2>1, SumNat
<1>22. house' \in Nat
  BY <1>3, <1>4, <1>21
<1>23. Money(y) = Balances(y) + AllStaked(x) /\ Balances(y) \in Nat /\ AllStaked(x) \in Nat
  <2>1. Money(y) = Balances(y) + Stakes(y.bets) + AllStaked(y)
    BY DEF Money
  <2>2. Stakes(y.bets) = 0
    <3>1. DOMAIN << >> = {}
      OBVIOUS
    <3> QED
      BY <1>1, <3>1, SumEmpty DEF Stakes
  <2>3. AllStaked(y) = AllStaked(x) /\ AllStaked(x) \in Nat /\ Balances(y) \in Nat
    BY <1>1, SamePositions, MoneyTypes
  <2> QED
    BY <2>1, <2>2, <2>3
<1>24. Money(x') + house' = Money(x) + house
  <2>1. Balances(x') = SumFunctionOnSet(bal, Account) /\ Balances(y) = SumFunctionOnSet(y.bal, Account)
    BY <1>15 DEF Balances
  <2>2. Money(x) = Money(y)
    BY <1>1 DEF Even
  <2>3. Balances(x') = Balances(y) + SumFunctionOnSet(kept, Account) + SumFunctionOnSet(shared, Account)
    BY <1>12, <1>17, <1>18, <1>21, <1>23, <2>1
  <2>4. AllStaked(x) = SumFunctionOnSet(kept, Account) + SumFunctionOnSet(rest, Account)
                         + SumFunctionOnSet(shared, Account)
    BY <1>13, <1>19, <1>20, <1>21
  <2> DEFINE k == SumFunctionOnSet(kept, Account)
             r == SumFunctionOnSet(rest, Account)
             s == SumFunctionOnSet(shared, Account)
  <2>5. /\ Money(x') = Balances(y) + k + s /\ AllStaked(x) = k + r + s
        /\ Money(x) = Balances(y) + AllStaked(x) /\ house' = house + r
    BY <1>3, <1>4, <1>15, <1>23, <2>2, <2>3, <2>4
  <2>6. Balances(y) \in Nat /\ k \in Nat /\ r \in Nat /\ s \in Nat
    BY <1>21, <1>23
  <2> HIDE DEF k, r, s, y
  <2> QED
    BY <2>5, <2>6
<1>25. ASSUME NEW a \in Account
       PROVE  x'.bal[a] - x.bal[a] >= Smallest(Payouts(a), StakedBy(a))
  <2> DEFINE least == Smallest(Payouts(a), StakedBy(a))
  <2>1. x'.bal[a] = y.bal[a] + (kept[a] + extra[a])
    BY <1>11, <1>15
  <2>2. kept[a] \in Nat /\ extra[a] \in Nat /\ y.bal[a] \in Nat /\ x.bal[a] \in Nat /\ y.bal[a] >= x.bal[a]
    BY <1>1, <1>10, <1>11, <1>14, ExchangeFacts
  <2>3. kept[a] >= least /\ least \in Nat
    BY <1>5, <1>6, <1>11 DEF Smallest
  <2> HIDE DEF least
  <2>4. x'.bal[a] - x.bal[a] >= least
    BY <2>1, <2>2, <2>3
  <2> QED
    BY <2>4 DEF least
<1> QED
  BY <1>15, <1>22, <1>24, <1>25

-----------------------------------------------------------------------------
(* The invariant.                                                          *)

\* The inductive invariant.  The balance of the markets' positions and the sum
\* of all money only follow each other through the stakes; a settled group has
\* no bets left to cancel; what settles has been resolved.
ExchangeInv ==
    /\ x \in Exchange
    /\ house \in Nat
    /\ group \in {"upcoming", "in_play", "closed", "graded", "canceled", "gone"}
    /\ resolution \in [Market -> {"none", "win", "not_win", "cancel"}]
    /\ group \in {"graded", "canceled"} => Resolved
    /\ group = "gone" => x.bets = << >>
    /\ Balanced(x)
    /\ Money(x) + house = SumFunction(Funds)
    /\ Tidy(x.bets, 0)

\* The exchange starts with the invariant.
LEMMA InitInv == Init => ExchangeInv
<1> SUFFICES ASSUME Init PROVE ExchangeInv
  OBVIOUS
<1>1. Funds \in [Account -> Nat] /\ DOMAIN Funds = Account
  BY BetAssumption
<1>2. x = [bal |-> Funds, bets |-> << >>,
           pos |-> [a \in Account |-> [m \in Market |-> NoPosition]]]
  BY DEF Init
<1>3. x \in Exchange /\ Money(x) = Balances(x) /\ Balanced(x) /\ Tidy(x.bets, 0)
  BY <1>1, <1>2, EmptyFacts
<1>4. Balances(x) = SumFunction(Funds) /\ Balances(x) \in Nat
  BY <1>1, <1>2, <1>3, SumOf, MoneyTypes DEF Balances
<1>5. house = 0 /\ group = "upcoming" /\ resolution = [m \in Market |-> "none"]
  BY DEF Init
<1>6. resolution \in [Market -> {"none", "win", "not_win", "cancel"}]
  BY <1>5
<1> QED
  BY <1>3, <1>4, <1>5, <1>6 DEF ExchangeInv

\* A step that is even keeps the sums.
LEMMA EvenInv ==
    ASSUME ExchangeInv, x' \in Exchange, Even(x, x'), Tidy(x'.bets, 0), house' = house
    PROVE  /\ x' \in Exchange /\ house' \in Nat /\ Balanced(x') /\ Tidy(x'.bets, 0)
           /\ Money(x') + house' = SumFunction(Funds)
  BY DEF ExchangeInv, Even, Balanced

\* No bets are exact books.
LEMMA NoBetsTidy ==
    ASSUME NEW s, s = << >>
    PROVE  Tidy(s, 0)
<1>1. DOMAIN << >> = {}
  OBVIOUS
<1> QED
  BY <1>1 DEF Tidy

\* A book stays exact when a bet is taken off it.
LEMMA WithoutTidy ==
    ASSUME NEW s \in Seq(Bet), Tidy(s, 0), NEW i \in DOMAIN s
    PROVE  Tidy(Without(s, i), 0)
<1> DEFINE r == Without(s, i)
<1>1. /\ DOMAIN r = 1..(Len(s) - 1)
      /\ \A j \in 1..(Len(s) - 1) : r[j] = IF j < i THEN s[j] ELSE s[j + 1]
  BY RemovedBet
<1>2. DOMAIN s = 1..Len(s) /\ Len(s) \in Nat /\ i \in 1..Len(s)
  OBVIOUS
<1> HIDE DEF r
<1>3. ASSUME NEW j \in DOMAIN r PROVE j # 0 /\ \E k \in DOMAIN s : r[j] = s[k]
  <2>1. j \in 1..(Len(s) - 1) /\ j \in DOMAIN s /\ j + 1 \in DOMAIN s
    BY <1>1, <1>2
  <2> QED
    BY <1>1, <2>1
<1>4. Tidy(r, 0)
  BY <1>3 DEF Tidy
<1> QED
  BY <1>4 DEF r

\* Canceling the unmatched bets, whatever happens to the group.
LEMMA UnmatchedInv ==
    ASSUME ExchangeInv, x' = Unmatched(x), house' = house
    PROVE  /\ x' \in Exchange /\ house' \in Nat /\ Balanced(x') /\ Tidy(x'.bets, 0)
           /\ Money(x') + house' = SumFunction(Funds) /\ x'.bets = << >>
<1>1. x' \in Exchange /\ Even(x, x') /\ x'.bets = << >>
  BY UnmatchedFacts DEF ExchangeInv
<1>2. Tidy(x'.bets, 0)
  BY <1>1, NoBetsTidy
<1> QED
  BY <1>1, <1>2, EvenInv

\* Every step keeps the invariant, and settling pays every bettor at least the
\* smaller of the payouts and the stakes.
LEMMA StepInv ==
    ASSUME ExchangeInv, [Next]_vars
    PROVE  /\ ExchangeInv'
           /\ vars' # vars /\ group' = "gone" =>
                \A a \in Account : x'.bal[a] - x.bal[a] >= Smallest(Payouts(a), StakedBy(a))
<1> DEFINE Groups == {"upcoming", "in_play", "closed", "graded", "canceled", "gone"}
           Results == {"none", "win", "not_win", "cancel"}
           Gain == vars' # vars /\ group' = "gone" =>
                     \A a \in Account : x'.bal[a] - x.bal[a] >= Smallest(Payouts(a), StakedBy(a))
<1>1. /\ x \in Exchange /\ house \in Nat /\ group \in Groups /\ resolution \in [Market -> Results]
      /\ group = "gone" => x.bets = << >>
      /\ Balanced(x) /\ Tidy(x.bets, 0) /\ Money(x) + house = SumFunction(Funds)
  BY DEF ExchangeInv
<1>2. group \in {"graded", "canceled"} => Resolved
  BY DEF ExchangeInv
<1>3. ASSUME NEW a \in Account, NEW m \in Market, NEW n \in Amounts, NEW o \in Odds,
             NEW s \in {"back", "lay"}, BetPlace(a, m, n, o, s)
      PROVE  ExchangeInv' /\ Gain
  <2>1. x' \in Exchange /\ Even(x, x') /\ Tidy(x'.bets, 0)
    BY <1>1, <1>3, BetPlaceFacts DEF Side
  <2>2. group # "gone" /\ house' = house /\ group' = group /\ resolution' = resolution
    BY <1>3 DEF BetPlace
  <2>3. group' \in {"graded", "canceled"} => Resolved'
    BY <1>2, <2>2 DEF Resolved
  <2> QED
    BY <1>1, <2>1, <2>2, <2>3, EvenInv DEF ExchangeInv
<1>4. ASSUME NEW i \in DOMAIN x.bets, BetCancel(i)
      PROVE  ExchangeInv' /\ Gain
  <2>1. x' = BetCanceled(x, i) /\ house' = house /\ group' = group /\ resolution' = resolution
    BY <1>4 DEF BetCancel
  <2>2. x' \in Exchange /\ x'.bets = Without(x.bets, i) /\ Even(x, x')
    BY <1>1, <2>1, CanceledFacts
  <2>3. x.bets \in Seq(Bet)
    BY <1>1, ExchangeFacts
  <2>4. Tidy(x'.bets, 0)
    BY <1>1, <2>2, <2>3, WithoutTidy
  <2>5. group # "gone"
    <3>1. DOMAIN << >> = {}
      OBVIOUS
    <3> QED
      BY <1>1, <3>1
  <2>6. group' \in {"graded", "canceled"} => Resolved'
    BY <1>2, <2>1 DEF Resolved
  <2> QED
    BY <1>1, <2>1, <2>2, <2>4, <2>5, <2>6, EvenInv DEF ExchangeInv
<1>5. CASE CancelUnmatched
  <2>1. x' = Unmatched(x) /\ house' = house /\ group' = group /\ resolution' = resolution /\ group # "gone"
    BY <1>5 DEF CancelUnmatched
  <2>2. group' \in {"graded", "canceled"} => Resolved'
    BY <1>2, <2>1 DEF Resolved
  <2> QED
    BY <1>1, <2>1, <2>2, UnmatchedInv DEF ExchangeInv
<1>6. ASSUME NEW n \in 1..Cardinality(DelayedIn(x)), PlaceDelayed(n)
      PROVE  ExchangeInv' /\ Gain
  <2>1. n \in Nat
    OBVIOUS
  <2>2. x' \in Exchange /\ Even(x, x') /\ Tidy(x'.bets, 0)
    BY <1>1, <1>6, <2>1, PlaceDelayedFacts
  <2>3. group = "in_play" /\ house' = house /\ group' = group /\ resolution' = resolution
    BY <1>6 DEF PlaceDelayed
  <2> QED
    BY <1>1, <2>2, <2>3, EvenInv DEF ExchangeInv
<1>7. CASE InPlay \/ Close
  <2>1. /\ x' = Unmatched(x) /\ house' = house /\ group' \in {"in_play", "closed"}
        /\ resolution' = resolution
    BY <1>7 DEF InPlay, Close
  <2> QED
    BY <1>1, <2>1, UnmatchedInv DEF ExchangeInv
<1>8. ASSUME NEW w \in Market, Grade(w)
      PROVE  ExchangeInv' /\ Gain
  <2>1. /\ x' = x /\ house' = house /\ group' = "graded"
        /\ resolution' = [m \in Market |-> IF m = w THEN "win" ELSE "not_win"]
    BY <1>8 DEF Grade
  <2>2. Resolved' /\ resolution' \in [Market -> Results]
    BY <2>1 DEF Resolved
  <2>3. Balanced(x') /\ Tidy(x'.bets, 0) /\ Money(x') + house' = SumFunction(Funds)
    BY <1>1, <2>1
  <2> QED
    BY <1>1, <2>1, <2>2, <2>3 DEF ExchangeInv
<1>9. CASE Cancel
  <2>1. /\ x' = Unmatched(x) /\ house' = house /\ group' = "canceled"
        /\ resolution' = [m \in Market |-> "cancel"]
    BY <1>9 DEF Cancel
  <2>2. Resolved' /\ resolution' \in [Market -> Results]
    BY <2>1 DEF Resolved
  <2> QED
    BY <1>1, <2>1, <2>2, UnmatchedInv DEF ExchangeInv
<1>10. CASE Settle
  <2>1. group \in {"graded", "canceled"} /\ group' = "gone" /\ resolution' = resolution
    BY <1>10 DEF Settle
  <2>2. Resolved
    BY <1>2, <2>1
  <2>3. /\ x' \in Exchange /\ house' \in Nat /\ Money(x') + house' = Money(x) + house
        /\ Balanced(x') /\ x'.bets = << >> /\ Tidy(x'.bets, 0)
        /\ \A a \in Account :
             x'.bal[a] - x.bal[a] >= Smallest(Payouts(a), StakedBy(a))
    BY <1>1, <1>10, <2>2, SettleFacts
  <2> QED
    BY <1>1, <2>1, <2>3 DEF ExchangeInv
<1>11. CASE UNCHANGED vars
  <2>1. x' = x /\ house' = house /\ group' = group /\ resolution' = resolution /\ vars' = vars
    BY <1>11 DEF vars
  <2>2. Balanced(x') /\ Tidy(x'.bets, 0) /\ Money(x') + house' = SumFunction(Funds)
    BY <1>1, <2>1
  <2>3. group' \in {"graded", "canceled"} => Resolved'
    BY <1>2, <2>1 DEF Resolved
  <2> QED
    BY <1>1, <2>1, <2>2, <2>3 DEF ExchangeInv
<1> QED
  BY <1>3, <1>4, <1>5, <1>6, <1>7, <1>8, <1>9, <1>10, <1>11 DEF Next

-----------------------------------------------------------------------------
(* The theorems.                                                           *)

\* The invariant holds in every reachable state.
THEOREM ExchangeInvariant == Spec => []ExchangeInv
<1>1. ExchangeInv /\ [Next]_vars => ExchangeInv'
  BY StepInv
<1> QED
  BY <1>1, InitInv, PTL DEF Spec

\* No balance, bet or position of the exchange is ever negative.
THEOREM ExchangeTypes == Spec => []TypeOK
<1>1. ExchangeInv => TypeOK
  <2> SUFFICES ASSUME ExchangeInv PROVE TypeOK
    OBVIOUS
  <2>1. x \in Exchange
    BY DEF ExchangeInv
  <2>2. /\ \A a \in Account : x.bal[a] \in Nat
        /\ x.bets \in Seq(Bet)
        /\ \A a \in Account, m \in Market : x.pos[a][m] \in Position
    BY <2>1, ExchangeFacts
  <2> QED
    BY <2>2 DEF ExchangeInv, TypeOK, Position
<1> QED
  BY <1>1, ExchangeInvariant, PTL

\* What the positions of a market hold.
LEMMA HeldFacts ==
    ASSUME x \in Exchange, NEW m \in Market
    PROVE  /\ Held(m, "canceled") = Staked(x, m)
           /\ Held(m, "win") + Held(m, "played") = ExcessWon(x, m) + Held(m, "canceled")
           /\ Held(m, "lose") + Held(m, "played") = ExcessLost(x, m) + Held(m, "canceled")
           /\ Held(m, "canceled") \in Nat
<1> DEFINE win == [a \in Account |-> x.pos[a][m]["win"]]
           lose == [a \in Account |-> x.pos[a][m]["lose"]]
           played == [a \in Account |-> x.pos[a][m]["played"]]
           put == [a \in Account |-> x.pos[a][m]["canceled"]]
           won == [a \in Account |-> OwedWon(x.pos[a][m])]
           lost == [a \in Account |-> OwedLost(x.pos[a][m])]
           wins == [a \in Account |-> x.pos[a][m].win + x.pos[a][m].played]
           loses == [a \in Account |-> x.pos[a][m].lose + x.pos[a][m].played]
<1>0. IsFiniteSet(Account)
  BY BetAssumption
<1>1. ASSUME NEW a \in Account
      PROVE  /\ win[a] \in Nat /\ lose[a] \in Nat /\ played[a] \in Nat /\ put[a] \in Nat
             /\ won[a] \in Int /\ lost[a] \in Int /\ wins[a] \in Int /\ loses[a] \in Int
             /\ wins[a] = win[a] + played[a] /\ loses[a] = lose[a] + played[a]
             /\ wins[a] = won[a] + put[a] /\ loses[a] = lost[a] + put[a]
  <2> DEFINE p == x.pos[a][m]
  <2>1. p \in Position
    BY ExchangeFacts
  <2>2. /\ p.win \in Nat /\ p.lose \in Nat /\ p.played \in Nat /\ p.canceled \in Nat
        /\ p["win"] = p.win /\ p["lose"] = p.lose /\ p["played"] = p.played /\ p["canceled"] = p.canceled
    BY <2>1 DEF Position
  <2>3. /\ win[a] = p["win"] /\ lose[a] = p["lose"] /\ played[a] = p["played"] /\ put[a] = p["canceled"]
        /\ won[a] = OwedWon(p) /\ lost[a] = OwedLost(p)
        /\ wins[a] = p.win + p.played /\ loses[a] = p.lose + p.played
    OBVIOUS
  <2> HIDE DEF p, win, lose, played, put, won, lost, wins, loses
  <2>4. /\ OwedWon(p) \in Int /\ OwedLost(p) \in Int
        /\ p.win + p.played = OwedWon(p) + p.canceled /\ p.lose + p.played = OwedLost(p) + p.canceled
    BY <2>2 DEF OwedWon, OwedLost
  <2>5. win[a] \in Nat /\ lose[a] \in Nat /\ played[a] \in Nat /\ put[a] \in Nat
    BY <2>2, <2>3, Zenon
  <2>6. won[a] \in Int /\ lost[a] \in Int
    BY <2>3, <2>4, Zenon
  <2>7. wins[a] = win[a] + played[a] /\ loses[a] = lose[a] + played[a]
    BY <2>2, <2>3, Zenon
  <2>8. wins[a] = won[a] + put[a] /\ loses[a] = lost[a] + put[a]
    BY <2>2, <2>3, <2>4, Zenon
  <2>9. wins[a] \in Int /\ loses[a] \in Int
    BY <2>5, <2>7
  <2> QED
    BY <2>5, <2>6, <2>7, <2>8, <2>9
<1>2. /\ Held(m, "win") = SumFunctionOnSet(win, Account)
      /\ Held(m, "lose") = SumFunctionOnSet(lose, Account)
      /\ Held(m, "played") = SumFunctionOnSet(played, Account)
      /\ Held(m, "canceled") = SumFunctionOnSet(put, Account)
  BY SumOf DEF Held
<1>3. /\ ExcessWon(x, m) = SumFunctionOnSet(won, Account)
      /\ ExcessLost(x, m) = SumFunctionOnSet(lost, Account)
      /\ Staked(x, m) = SumFunctionOnSet(put, Account)
  BY DEF ExcessWon, ExcessLost, Staked
<1> HIDE DEF win, lose, played, put, won, lost, wins, loses
<1>4. \A a \in Account : win[a] \in Int /\ lose[a] \in Int /\ played[a] \in Int /\ put[a] \in Int
  BY <1>1
<1>5. SumFunctionOnSet(wins, Account) = SumFunctionOnSet(win, Account) + SumFunctionOnSet(played, Account)
  BY <1>0, <1>1, <1>4, SumPlus
<1>6. SumFunctionOnSet(wins, Account) = SumFunctionOnSet(won, Account) + SumFunctionOnSet(put, Account)
  BY <1>0, <1>1, <1>4, SumPlus
<1>7. SumFunctionOnSet(loses, Account) = SumFunctionOnSet(lose, Account) + SumFunctionOnSet(played, Account)
  BY <1>0, <1>1, <1>4, SumPlus
<1>8. SumFunctionOnSet(loses, Account) = SumFunctionOnSet(lost, Account) + SumFunctionOnSet(put, Account)
  BY <1>0, <1>1, <1>4, SumPlus
<1>9. SumFunctionOnSet(put, Account) \in Nat
  BY <1>0, <1>1, SumNat
<1> QED
  BY <1>2, <1>3, <1>5, <1>6, <1>7, <1>8, <1>9

\* However a market is resolved, its positions are owed exactly what was staked.
THEOREM OutcomesPaid == Spec => []EveryOutcomePaid
<1>1. ExchangeInv => EveryOutcomePaid
  <2> SUFFICES ASSUME ExchangeInv, NEW m \in Market
               PROVE  /\ Held(m, "win") + Held(m, "played") = Held(m, "canceled")
                      /\ Held(m, "lose") + Held(m, "played") = Held(m, "canceled")
    BY DEF EveryOutcomePaid
  <2>1. x \in Exchange /\ ExcessWon(x, m) = 0 /\ ExcessLost(x, m) = 0
    BY DEF ExchangeInv, Balanced
  <2> QED
    BY <2>1, HeldFacts
<1> QED
  BY <1>1, ExchangeInvariant, PTL

\* Matching, rounding, refunds, rake and affiliate payouts neither create nor
\* lose anything.
THEOREM MoneyConserved == Spec => []Conserved
<1>1. ExchangeInv => Conserved
  <2> SUFFICES ASSUME ExchangeInv PROVE Conserved
    OBVIOUS
  <2> DEFINE bets == [i \in DOMAIN x.bets |-> x.bets[i].amount]
             held == [m \in Market |-> Held(m, "canceled")]
  <2>1. x \in Exchange /\ house \in Nat /\ Money(x) + house = SumFunction(Funds)
    BY DEF ExchangeInv
  <2>2. SumFunction(bets) = Stakes(x.bets)
    BY SumOf DEF Stakes, Stake
  <2>3. SumFunction(x.bal) = Balances(x)
    BY <2>1, ExchangeFacts, SumOf DEF Balances
  <2>4. SumFunction(held) = AllStaked(x)
    <3>1. \A m \in Market : Held(m, "canceled") = Staked(x, m)
      BY <2>1, HeldFacts
    <3>2. held = [m \in Market |-> Staked(x, m)]
      BY <3>1, Zenon
    <3>3. SumFunction(held) = SumFunctionOnSet(held, Market)
      BY SumOf
    <3> QED
      BY <3>2, <3>3 DEF AllStaked
  <2>5. Balances(x) \in Nat /\ Stakes(x.bets) \in Nat /\ AllStaked(x) \in Nat
    BY <2>1, MoneyTypes
  <2>6. Money(x) = Balances(x) + Stakes(x.bets) + AllStaked(x)
    BY DEF Money
  <2>7. SumFunction(x.bal) + house + SumFunction(bets) + SumFunction(held) = SumFunction(Funds)
    BY <2>1, <2>2, <2>3, <2>4, <2>5, <2>6
  <2> QED
    BY <2>7 DEF Conserved
<1> QED
  BY <1>1, ExchangeInvariant, PTL

\* A bet on the books is a positive multiple of what can be matched at its odds.
THEOREM ExactBooks == Spec => []BooksExact
<1>1. ExchangeInv => BooksExact
  BY DEF ExchangeInv, Tidy, ExactBet, BooksExact
<1> QED
  BY <1>1, ExchangeInvariant, PTL

\* Settling pays every bettor at least the smaller of the payouts and the
\* stakes: the rake comes out of profits.
THEOREM RakeOfProfits == Spec => RakeFromProfits
<1>1. ExchangeInv /\ [Next]_vars =>
        [group' = "gone" =>
           \A a \in Account :
              x'.bal[a] - x.bal[a] >=
                Smallest(Payouts(a), SumFunction([m \in Market |-> x.pos[a][m].canceled]))]_vars
  BY StepInv DEF StakedBy
<1> QED
  BY <1>1, ExchangeInvariant, PTL DEF Spec, RakeFromProfits

\* The affiliates of a bettor share exactly a fifth of the rake, to the last
\* unit, and the house keeps the others.
THEOREM AffiliatesShare ==
    ASSUME NEW a \in Account, ExchangeInv, Resolved, Affiliates[a] # << >>
    PROVE  SumFunction(Shares(a)) = Rake(a) \div 5
<1>1. Rake(a) \in 0..Payouts(a) /\ Payouts(a) \in Nat
  BY RakeFacts, AllPaid DEF ExchangeInv
<1> QED
  BY <1>1, SharesFacts
=============================================================================
