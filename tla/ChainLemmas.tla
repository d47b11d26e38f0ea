---------------------------- MODULE ChainLemmas -----------------------------
(***************************************************************************)
(* Facts about the operators of the chain database, for every block tree:  *)
(* the line of a block and the branches fetch_branch_from() returns, and   *)
(* what applies of a sequence of transactions. Recursion is unfolded by    *)
(* induction with sets of numbers in place of predicates.                  *)
(***************************************************************************)
EXTENDS ChainDatabase, SequenceTheorems, WellFoundedInduction, TLAPS

Known == Block \cup {Genesis}

-----------------------------------------------------------------------------
(* Induction on natural numbers, with sets in place of predicates.         *)

\* Every set of natural numbers but the empty one has a least element.
LEMMA LeastOf ==
    ASSUME NEW T \in SUBSET Nat, T # {}
    PROVE  \E n \in T : \A m \in T : n <= m
<1>1. \E n \in T : \A m \in T : ~ (<<m, n>> \in OpToRel(<, Nat))
  BY NatLessThanWellFounded, WFMin
<1>2. PICK n \in T : \A m \in T : ~ (<<m, n>> \in OpToRel(<, Nat))
  BY <1>1
<1>3. ASSUME NEW m \in T PROVE n <= m
  <2>1. ~ (<<m, n>> \in OpToRel(<, Nat))
    BY <1>2
  <2>2. m \in Nat /\ n \in Nat
    OBVIOUS
  <2>3. ~ (m < n)
    BY <2>1, <2>2 DEF OpToRel
  <2> QED
    BY <2>2, <2>3
<1> QED
  BY <1>3

\* A set that has 0 and, with each number, the next one, has them all.
LEMMA Induct ==
    ASSUME NEW T \in SUBSET Nat, 0 \in T, \A n \in T : n + 1 \in T
    PROVE  T = Nat
<1> SUFFICES ASSUME T # Nat PROVE FALSE
  OBVIOUS
<1>1. Nat \ T # {}
  OBVIOUS
<1>2. PICK n \in Nat \ T : \A m \in Nat \ T : n <= m
  BY <1>1, LeastOf
<1>3. n # 0 /\ n - 1 \in Nat
  BY <1>2
<1>4. n - 1 \in T
  BY <1>2, <1>3
<1>5. (n - 1) + 1 \in T
  BY <1>4
<1> QED
  BY <1>2, <1>5

\* A block's number is positive, the null id's is 0.
LEMMA NumType ==
    /\ \A b \in Known : Num[b] \in Nat
    /\ \A b \in Block : b \in Known /\ b # Genesis /\ Num[b] > 0
    /\ \A b \in Known : Num[b] = 0 => b = Genesis
    /\ \A b \in Block : Prev[b] \in Known /\ Num[b] = Num[Prev[b]] + 1
<1>1. \A b \in Known : Num[b] \in Nat
  BY BlockAssumption DEF Known
<1>2. \A b \in Block : Prev[b] \in Known /\ Num[b] = Num[Prev[b]] + 1
  BY BlockAssumption DEF Known
<1>3. ASSUME NEW b \in Block PROVE Num[b] > 0
  <2>1. Num[Prev[b]] \in Nat /\ Num[b] = Num[Prev[b]] + 1
    BY <1>1, <1>2
  <2> QED
    BY <2>1
<1>4. \A b \in Block : b \in Known /\ b # Genesis
  BY BlockAssumption DEF Known
<1>5. \A b \in Known : Num[b] = 0 => b = Genesis
  BY <1>3 DEF Known
<1> QED
  BY <1>1, <1>2, <1>3, <1>4, <1>5

-----------------------------------------------------------------------------
(* Line: the recursion has a solution, and its values are what the code    *)
(* walks along.                                                            *)

Up(n) == {b \in Known : Num[b] <= n}

Solves(f, n) ==
    \A b \in Up(n) : f[b] = IF b = Genesis THEN << >> ELSE Append(f[Prev[b]], b)

\* A block's predecessor is one lower.
LEMMA Below ==
    ASSUME NEW n \in Nat, NEW b \in Up(n + 1), b # Genesis
    PROVE  Prev[b] \in Up(n) /\ b \in Block
  BY BlockAssumption DEF Up, Known

\* For every height there is a function that solves the recursion up to it.
LEMMA Solvable ==
    \A n \in Nat : \E f \in [Up(n) -> Seq(Block)] : Solves(f, n)
<1> DEFINE T == {n \in Nat : \E f \in [Up(n) -> Seq(Block)] : Solves(f, n)}
<1>1. 0 \in T
  <2> DEFINE f == [b \in Up(0) |-> << >>]
  <2>1. ASSUME NEW b \in Up(0) PROVE b = Genesis
    <3>1. b \in Known /\ Num[b] \in Nat /\ Num[b] <= 0
      BY NumType DEF Up
    <3>2. Num[b] = 0
      BY <3>1
    <3> QED
      BY <3>1, <3>2, NumType
  <2>2. f \in [Up(0) -> Seq(Block)] /\ Solves(f, 0)
    BY <2>1 DEF Solves
  <2> QED
    BY <2>2
<1>2. ASSUME NEW n \in T PROVE n + 1 \in T
  <2>1. PICK f \in [Up(n) -> Seq(Block)] : Solves(f, n)
    OBVIOUS
  <2> DEFINE g == [b \in Up(n + 1) |-> IF b = Genesis THEN << >> ELSE Append(f[Prev[b]], b)]
  <2>2. n \in Nat
    OBVIOUS
  <2>3. ASSUME NEW b \in Up(n + 1), b # Genesis
        PROVE  Prev[b] \in Up(n) /\ b \in Block
    BY <2>2, <2>3, Below
  <2>4. ASSUME NEW b \in Up(n) PROVE b \in Up(n + 1) /\ g[b] = f[b]
    <3>1. b \in Up(n + 1)
      <4>1. b \in Known /\ Num[b] \in Nat /\ Num[b] <= n
        BY NumType DEF Up
      <4> QED
        BY <2>2, <4>1 DEF Up
    <3>2. f[b] = IF b = Genesis THEN << >> ELSE Append(f[Prev[b]], b)
      BY <2>1 DEF Solves
    <3> QED
      BY <3>1, <3>2
  <2>5. g \in [Up(n + 1) -> Seq(Block)]
    BY <2>3
  <2>6. Solves(g, n + 1)
    <3> SUFFICES ASSUME NEW b \in Up(n + 1), b # Genesis
                 PROVE  g[b] = Append(g[Prev[b]], b)
      BY DEF Solves
    <3>1. g[Prev[b]] = f[Prev[b]]
      BY <2>3, <2>4
    <3> QED
      BY <3>1
  <2> HIDE DEF g
  <2>7. \E f1 \in [Up(n + 1) -> Seq(Block)] : Solves(f1, n + 1)
    BY <2>5, <2>6
  <2> QED
    BY <2>2, <2>7
<1> HIDE DEF T
<1>3. T = Nat
  <2>1. T \in SUBSET Nat
    BY DEF T
  <2> QED
    BY <1>1, <1>2, <2>1, Induct
<1> QED
  BY <1>3 DEF T

\* Two solutions agree as far as both go.
LEMMA SolutionUnique ==
    ASSUME NEW m \in Nat, NEW n \in Nat, NEW f, NEW g, Solves(f, m), Solves(g, n)
    PROVE  \A k \in Nat : k <= m /\ k <= n => \A b \in Up(k) : f[b] = g[b]
<1> DEFINE T == {k \in Nat : k <= m /\ k <= n => \A b \in Up(k) : f[b] = g[b]}
<1>1. 0 \in T
  <2> SUFFICES ASSUME NEW b \in Up(0) PROVE f[b] = g[b]
    OBVIOUS
  <2>1. b = Genesis /\ b \in Up(m) /\ b \in Up(n)
    BY BlockAssumption DEF Up, Known
  <2> QED
    BY <2>1 DEF Solves
<1>2. ASSUME NEW k \in T PROVE k + 1 \in T
  <2> SUFFICES ASSUME k + 1 <= m, k + 1 <= n, NEW b \in Up(k + 1)
               PROVE  f[b] = g[b]
    OBVIOUS
  <2>1. k \in Nat /\ k <= m /\ k <= n
    OBVIOUS
  <2>2. \A c \in Up(k) : f[c] = g[c]
    BY <2>1
  <2>3. b \in Up(m) /\ b \in Up(n)
    BY <2>1, BlockAssumption DEF Up, Known
  <2>4. CASE b = Genesis
    BY <2>3, <2>4 DEF Solves
  <2>5. CASE b # Genesis
    <3>1. f[Prev[b]] = g[Prev[b]]
      BY <2>1, <2>2, <2>5, Below
    <3> QED
      BY <2>3, <2>5, <3>1 DEF Solves
  <2> QED
    BY <2>4, <2>5
<1> HIDE DEF T
<1>3. T = Nat
  <2>1. T \in SUBSET Nat
    BY DEF T
  <2> QED
    BY <1>1, <1>2, <2>1, Induct
<1> QED
  BY <1>3 DEF T

\* The defining equation of Line holds.
LEMMA LineEquation ==
    Line = [b \in Known |-> IF b = Genesis THEN << >> ELSE Append(Line[Prev[b]], b)]
<1> DEFINE Sol(n) == CHOOSE f \in [Up(n) -> Seq(Block)] : Solves(f, n)
           L == [b \in Known |-> Sol(Num[b])[b]]
<1>1. \A n \in Nat : Sol(n) \in [Up(n) -> Seq(Block)] /\ Solves(Sol(n), n)
  BY Solvable
<1> HIDE DEF Sol
<1>2. ASSUME NEW b \in Known
      PROVE  L[b] = IF b = Genesis THEN << >> ELSE Append(L[Prev[b]], b)
  <2>1. Num[b] \in Nat /\ b \in Up(Num[b])
    BY BlockAssumption DEF Up, Known
  <2>2. Sol(Num[b])[b] = IF b = Genesis THEN << >> ELSE Append(Sol(Num[b])[Prev[b]], b)
    BY <1>1, <2>1 DEF Solves
  <2>3. CASE b = Genesis
    BY <2>2, <2>3
  <2>4. CASE b # Genesis
    <3> DEFINE n == Num[b] - 1
    <3>1. n \in Nat /\ Num[b] = n + 1 /\ n <= Num[b] /\ Prev[b] \in Known /\ Num[Prev[b]] = n
      BY <2>4, BlockAssumption DEF Known
    <3>2. Prev[b] \in Up(n)
      BY <3>1 DEF Up
    <3>3. Solves(Sol(Num[b]), Num[b]) /\ Solves(Sol(n), n)
      BY <1>1, <2>1, <3>1
    <3>4. \A k \in Nat : k <= Num[b] /\ k <= n =>
             \A c \in Up(k) : Sol(Num[b])[c] = Sol(n)[c]
      BY <2>1, <3>1, <3>3, SolutionUnique
    <3>5. Sol(Num[b])[Prev[b]] = Sol(n)[Prev[b]]
      BY <3>1, <3>2, <3>4
    <3>6. L[Prev[b]] = Sol(n)[Prev[b]]
      BY <3>1
    <3> QED
      BY <2>2, <2>4, <3>5, <3>6
  <2> QED
    BY <2>3, <2>4
<1> DEFINE Eqn(g) == g = [b \in Known |-> IF b = Genesis THEN << >> ELSE Append(g[Prev[b]], b)]
<1>3. Eqn(L)
  BY <1>2
<1>4. Line = CHOOSE g : Eqn(g)
  BY DEF Line, Known
<1> HIDE DEF L, Eqn
<1>5. Eqn(Line)
  BY <1>3, <1>4
<1> QED
  BY <1>5 DEF Eqn

\* Line unfolded, on the null id and on a block.
LEMMA LineUnfold ==
    /\ Line[Genesis] = << >>
    /\ \A b \in Block : Line[b] = Append(Line[Prev[b]], b)
<1>1. Genesis \in Known /\ Genesis \notin Block /\ \A b \in Block : b \in Known /\ b # Genesis
  BY BlockAssumption DEF Known
<1> DEFINE Step(b) == IF b = Genesis THEN << >> ELSE Append(Line[Prev[b]], b)
<1>2. Line = [b \in Known |-> Step(b)]
  BY LineEquation
<1>3. \A b \in Known : Line[b] = Step(b)
  <2> HIDE DEF Step
  <2> QED
    BY <1>2
<1> QED
  BY <1>1, <1>3

\* Line[b] ends in b, has as many blocks as b's number says, and each block but
\* the first continues the one before it.
Chained(s) ==
    /\ \A i \in 1..Len(s) : Num[s[i]] = i
    /\ \A i \in 1..(Len(s) - 1) : Prev[s[i + 1]] = s[i]

\* The line of a block, as Chained says: as long as the block's number, and ending
\* in the block.
LEMMA LineType ==
    \A b \in Known :
        /\ Line[b] \in Seq(Block)
        /\ Len(Line[b]) = Num[b]
        /\ Chained(Line[b])
        /\ b # Genesis => Line[b][Num[b]] = b
<1> DEFINE Good(b) ==
               /\ Line[b] \in Seq(Block)
               /\ Len(Line[b]) = Num[b]
               /\ Chained(Line[b])
               /\ b # Genesis => Line[b][Num[b]] = b
           T == {n \in Nat : \A b \in Known : Num[b] = n => Good(b)}
<1>1. 0 \in T
  <2> SUFFICES ASSUME NEW b \in Known, Num[b] = 0 PROVE Good(b)
    OBVIOUS
  <2>1. b = Genesis
    BY BlockAssumption DEF Known
  <2>2. Line[b] = << >>
    BY <2>1, LineUnfold
  <2>3. Line[b] \in Seq(Block) /\ Len(Line[b]) = 0
    BY <2>2
  <2>4. Chained(Line[b])
    BY <2>3 DEF Chained
  <2> QED
    BY <2>1, <2>3, <2>4
<1>2. ASSUME NEW n \in T PROVE n + 1 \in T
  <2> SUFFICES ASSUME NEW b \in Known, Num[b] = n + 1 PROVE Good(b)
    OBVIOUS
  <2>1. n \in Nat /\ b \in Block /\ Prev[b] \in Known /\ Num[Prev[b]] = n
    BY BlockAssumption DEF Known
  <2>2. Good(Prev[b])
    BY <2>1
  <2>3. Line[b] = Append(Line[Prev[b]], b)
    BY <2>1, LineUnfold
  <2>4. CASE n = 0
    <3>1. Line[Prev[b]] = << >>
      BY <2>1, <2>2, <2>4
    <3>2. Line[b] = <<b>>
      BY <2>3, <3>1
    <3> QED
      BY <2>1, <2>4, <3>2 DEF Chained
  <2>5. CASE n # 0
    <3> DEFINE s == Line[Prev[b]]
               t == Line[b]
    <3>1. s \in Seq(Block) /\ Len(s) = n /\ Chained(s)
      BY <2>1, <2>2
    <3>2. t = Append(s, b)
      BY <2>3
    <3>3. s[n] = Prev[b]
      <4>1. Prev[b] \in Block
        BY <2>1, <2>5, BlockAssumption DEF Known
      <4> QED
        BY <2>1, <2>2, <2>5, <4>1, BlockAssumption
    <3> HIDE DEF s, t
    <3>4. t \in Seq(Block) /\ Len(t) = n + 1
      BY <2>1, <3>1, <3>2
    <3>5. \A i \in 1..n : t[i] = s[i]
      BY <2>1, <3>1, <3>2
    <3>6. t[n + 1] = b
      BY <2>1, <3>1, <3>2
    <3>7. Chained(t)
      BY <2>1, <3>1, <3>3, <3>4, <3>5, <3>6 DEF Chained
    <3> QED
      BY <2>1, <3>4, <3>6, <3>7 DEF t
  <2> QED
    BY <2>1, <2>4, <2>5
<1> HIDE DEF T
<1>3. T = Nat
  <2>1. T \in SUBSET Nat
    BY DEF T
  <2> QED
    BY <1>1, <1>2, <2>1, Induct
<1>4. \A b \in Known : Num[b] \in Nat
  BY BlockAssumption DEF Known
<1> QED
  BY <1>3, <1>4 DEF T

-----------------------------------------------------------------------------
(* fetch_branch_from().                                                    *)

\* Two lines that are not empty part somewhere.
LEMMA ForkExists ==
    ASSUME NEW s \in Seq(Block), NEW t \in Seq(Block), Len(s) > 0, Len(t) > 0
    PROVE  Fork(s, t) \in 1..Smaller(Len(s), Len(t))
<1> DEFINE m == Smaller(Len(s), Len(t))
           T == {k \in 1..m : k = m \/ s[k] # t[k]}
<1>1. m \in Nat /\ m > 0 /\ m <= Len(s) /\ m <= Len(t)
  BY DEF Smaller
<1> HIDE DEF m
<1>2. T \in SUBSET Nat /\ m \in T
  BY <1>1
<1>3. PICK k \in T : \A j \in T : k <= j
  BY <1>2, LeastOf
<1>4. \A j \in 1..(k - 1) : s[j] = t[j]
  BY <1>1, <1>3
<1>5. SubSeq(s, 1, k - 1) = SubSeq(t, 1, k - 1)
  <2>1. /\ SubSeq(s, 1, k - 1) = [i \in 1..(k - 1) |-> s[i]]
        /\ SubSeq(t, 1, k - 1) = [i \in 1..(k - 1) |-> t[i]]
    BY <1>1, <1>3
  <2> QED
    BY <1>4, <2>1
<1>6. k \in 1..m /\ (k = m \/ s[k] # t[k])
  BY <1>3
<1> DEFINE Parts(j) == SubSeq(s, 1, j - 1) = SubSeq(t, 1, j - 1) /\ (j = m \/ s[j] # t[j])
<1>7. Fork(s, t) = CHOOSE j \in 1..m : Parts(j)
  BY DEF Fork, m
<1>8. Parts(k) /\ k \in 1..m
  BY <1>5, <1>6
<1> HIDE DEF Parts
<1>9. Fork(s, t) \in 1..m
  BY <1>7, <1>8
<1> QED
  BY <1>9 DEF m

\* A branch s that ends in b is the upper part of the line to b.
Branch(s, b) ==
    /\ s \in Seq(Block)
    /\ Len(s) > 0
    /\ s[Len(s)] = b
    /\ \A i \in 1..(Len(s) - 1) : Prev[s[i + 1]] = s[i]
    /\ \A i \in 1..Len(s) : \E j \in 1..Len(Line[b]) : s[i] = Line[b][j]

\* What fetch_branch_from() collects from some position of a line upwards is a
\* branch.
LEMMA UpperPart ==
    ASSUME NEW b \in Block, NEW k \in 1..Len(Line[b])
    PROVE  Branch(SubSeq(Line[b], k, Len(Line[b])), b)
<1> DEFINE s == Line[b]
           n == Len(s)
           u == SubSeq(s, k, n)
<1>1. s \in Seq(Block) /\ n \in Nat /\ Chained(s) /\ s[n] = b
  BY LineType, BlockAssumption DEF Known
<1> HIDE DEF s, n
<1>2. k \in 1..n
  BY DEF n, s
<1>3. u \in Seq(Block) /\ Len(u) = n - k + 1 /\ \A i \in 1..(n - k + 1) : u[i] = s[k + i - 1]
  BY <1>1, <1>2 DEF n
<1> HIDE DEF u
<1>4. Len(u) > 0 /\ u[Len(u)] = b
  BY <1>1, <1>2, <1>3
<1>5. \A i \in 1..(Len(u) - 1) : Prev[u[i + 1]] = u[i]
  <2> SUFFICES ASSUME NEW i \in 1..(Len(u) - 1) PROVE Prev[u[i + 1]] = u[i]
    OBVIOUS
  <2>1. u[i] = s[k + i - 1] /\ u[i + 1] = s[k + i]
    BY <1>2, <1>3
  <2>2. k + i - 1 \in 1..(n - 1) /\ (k + i - 1) + 1 = k + i
    BY <1>1, <1>2, <1>3
  <2> QED
    BY <1>1, <2>1, <2>2 DEF Chained, n
<1>6. \A i \in 1..Len(u) : \E j \in 1..n : u[i] = s[j]
  <2> SUFFICES ASSUME NEW i \in 1..Len(u) PROVE \E j \in 1..n : u[i] = s[j]
    OBVIOUS
  <2>1. k + i - 1 \in 1..n /\ u[i] = s[k + i - 1]
    BY <1>1, <1>2, <1>3
  <2> QED
    BY <2>1
<1> QED
  BY <1>3, <1>4, <1>5, <1>6 DEF Branch, u, s, n

\* The two branches end where they should.
LEMMA BranchesType ==
    ASSUME NEW a \in Block, NEW b \in Block
    PROVE  Branch(Branches(a, b).first, a) /\ Branch(Branches(a, b).second, b)
<1> DEFINE k == Fork(Line[a], Line[b])
<1>1. /\ Line[a] \in Seq(Block) /\ Len(Line[a]) \in Nat /\ Len(Line[a]) > 0
      /\ Line[b] \in Seq(Block) /\ Len(Line[b]) \in Nat /\ Len(Line[b]) > 0
  <2>1. \A c \in Block : c \in Known /\ Num[c] \in Nat /\ Num[c] > 0
    BY NumType
  <2>2. \A c \in Block : Line[c] \in Seq(Block) /\ Len(Line[c]) = Num[c]
    BY <2>1, LineType
  <2> QED
    BY <2>1, <2>2
<1>2. k \in 1..Smaller(Len(Line[a]), Len(Line[b]))
  BY <1>1, ForkExists
<1> HIDE DEF k
<1>3. k \in 1..Len(Line[a]) /\ k \in 1..Len(Line[b])
  BY <1>1, <1>2 DEF Smaller
<1>4. /\ Branch(SubSeq(Line[a], k, Len(Line[a])), a)
      /\ Branch(SubSeq(Line[b], k, Len(Line[b])), b)
  BY <1>3, UpperPart
<1>5. /\ Branches(a, b).first = SubSeq(Line[a], k, Len(Line[a]))
      /\ Branches(a, b).second = SubSeq(Line[b], k, Len(Line[b]))
  BY DEF Branches, k
<1> QED
  BY <1>4, <1>5

-----------------------------------------------------------------------------
(* Applying transactions one after the other.                              *)

KeptNext(s, known, f, i) ==
    IF i = 0 THEN << >>
    ELSE IF Applies(s[i], known \cup Elements(f[i - 1]))
    THEN Append(f[i - 1], s[i]) ELSE f[i - 1]

Keeps(s, known, f, n) == \A i \in 0..n : f[i] = KeptNext(s, known, f, i)

\* For every prefix of s there is a function that keeps what applies of it.
LEMMA KeptExists ==
    ASSUME NEW s \in Seq(Tx), NEW known
    PROVE  \A n \in 0..Len(s) : \E f \in [0..n -> Seq(Tx)] : Keeps(s, known, f, n)
<1> DEFINE T == {n \in Nat : n <= Len(s) =>
                    \E f \in [0..n -> Seq(Tx)] : Keeps(s, known, f, n)}
<1>1. 0 \in T
  <2> DEFINE f == [i \in 0..0 |-> << >>]
  <2>1. f \in [0..0 -> Seq(Tx)] /\ Keeps(s, known, f, 0)
    BY DEF Keeps, KeptNext
  <2> HIDE DEF f
  <2> QED
    BY <2>1
<1>2. ASSUME NEW n \in T PROVE n + 1 \in T
  <2> SUFFICES ASSUME n + 1 <= Len(s)
               PROVE  \E f \in [0..(n + 1) -> Seq(Tx)] : Keeps(s, known, f, n + 1)
    OBVIOUS
  <2>1. n \in Nat /\ n <= Len(s) /\ s[n + 1] \in Tx
    OBVIOUS
  <2>2. PICK f \in [0..n -> Seq(Tx)] : Keeps(s, known, f, n)
    BY <2>1
  <2> DEFINE e == IF Applies(s[n + 1], known \cup Elements(f[n]))
                  THEN Append(f[n], s[n + 1]) ELSE f[n]
             g == [i \in 0..(n + 1) |-> IF i = n + 1 THEN e ELSE f[i]]
  <2>3. e \in Seq(Tx)
    BY <2>1, <2>2
  <2> HIDE DEF e
  <2>4. g \in [0..(n + 1) -> Seq(Tx)]
    BY <2>1, <2>2, <2>3
  <2>5. ASSUME NEW i \in 0..(n + 1) PROVE g[i] = KeptNext(s, known, g, i)
    <3>1. CASE i = n + 1
      <4>1. g[i] = e /\ g[i - 1] = f[n] /\ i # 0
        BY <2>1, <3>1
      <4> QED
        BY <3>1, <4>1 DEF e, KeptNext
    <3>2. CASE i # n + 1
      <4>1. i \in 0..n /\ g[i] = f[i] /\ (i # 0 => g[i - 1] = f[i - 1])
        BY <2>1, <3>2
      <4>2. f[i] = KeptNext(s, known, f, i)
        BY <2>2, <4>1 DEF Keeps
      <4> HIDE DEF g
      <4> QED
        BY <4>1, <4>2 DEF KeptNext
    <3> QED
      BY <3>1, <3>2
  <2>6. Keeps(s, known, g, n + 1)
    BY <2>5 DEF Keeps
  <2> HIDE DEF g
  <2> QED
    BY <2>4, <2>6
<1> HIDE DEF T
<1>3. T = Nat
  <2>1. T \in SUBSET Nat
    BY DEF T
  <2> QED
    BY <1>1, <1>2, <2>1, Induct
<1> QED
  BY <1>3 DEF T

\* What applies of s is what such a function keeps of all of s.
LEMMA ApplyingKeeps ==
    ASSUME NEW s \in Seq(Tx), NEW known
    PROVE  \E f \in [0..Len(s) -> Seq(Tx)] :
               Keeps(s, known, f, Len(s)) /\ Applying(s, known) = f[Len(s)]
<1> DEFINE Eqn(g) == g = [i \in 0..Len(s) |->
                            IF i = 0 THEN << >>
                            ELSE IF Applies(s[i], known \cup Elements(g[i - 1]))
                            THEN Append(g[i - 1], s[i]) ELSE g[i - 1]]
           K == CHOOSE g : Eqn(g)
<1>1. Len(s) \in Nat
  OBVIOUS
<1>2. PICK f \in [0..Len(s) -> Seq(Tx)] : Keeps(s, known, f, Len(s))
  BY <1>1, KeptExists
<1>3. Eqn(f)
  BY <1>2 DEF Keeps, KeptNext
<1>4. Applying(s, known) = K[Len(s)]
  BY DEF Applying
<1> HIDE DEF Eqn
<1>5. Eqn(K)
  BY <1>3
<1> HIDE DEF K
<1> DEFINE Step(g, i) == IF i = 0 THEN << >>
                         ELSE IF Applies(s[i], known \cup Elements(g[i - 1]))
                         THEN Append(g[i - 1], s[i]) ELSE g[i - 1]
<1>6. /\ \A i \in 0..Len(s) : f[i] = Step(f, i)
      /\ \A i \in 0..Len(s) : K[i] = Step(K, i)
      /\ K = [i \in 0..Len(s) |-> K[i]]
  <2>1. K = [i \in 0..Len(s) |-> Step(K, i)]
    BY <1>5 DEF Eqn
  <2>2. f = [i \in 0..Len(s) |-> Step(f, i)]
    BY <1>3 DEF Eqn
  <2> HIDE DEF Step
  <2> QED
    BY <2>1, <2>2
<1> DEFINE T == {n \in Nat : n <= Len(s) => K[n] = f[n]}
<1>7. 0 \in T
  <2>1. 0 \in 0..Len(s)
    BY <1>1
  <2>2. K[0] = Step(K, 0) /\ f[0] = Step(f, 0)
    BY <1>6, <2>1
  <2>3. K[0] = f[0]
    BY <2>2
  <2> QED
    BY <2>3
<1>8. ASSUME NEW n \in T PROVE n + 1 \in T
  <2> SUFFICES ASSUME n + 1 <= Len(s) PROVE K[n + 1] = f[n + 1]
    OBVIOUS
  <2>1. n \in Nat /\ K[n] = f[n] /\ n + 1 \in 0..Len(s) /\ n + 1 # 0 /\ (n + 1) - 1 = n
    BY <1>1
  <2>2. K[n + 1] = Step(K, n + 1) /\ f[n + 1] = Step(f, n + 1)
    BY <1>6, <2>1
  <2>3. Step(K, n + 1) = Step(f, n + 1)
    <3>1. K[(n + 1) - 1] = f[(n + 1) - 1]
      BY <2>1
    <3> QED
      BY <3>1
  <2> QED
    BY <2>2, <2>3
<1> HIDE DEF T
<1>9. T = Nat
  <2>1. T \in SUBSET Nat
    BY DEF T
  <2> QED
    BY <1>7, <1>8, <2>1, Induct
<1>10. K[Len(s)] = f[Len(s)]
  BY <1>1, <1>9 DEF T
<1> QED
  BY <1>2, <1>4, <1>10

\* Applying nothing, and one transaction more.
LEMMA ApplyingNone ==
    ASSUME NEW known
    PROVE  Applying(<< >>, known) = << >>
<1>1. << >> \in Seq(Tx) /\ Len(<< >>) = 0
  OBVIOUS
<1>2. PICK f \in [0..Len(<< >>) -> Seq(Tx)] :
          Keeps(<< >>, known, f, Len(<< >>)) /\ Applying(<< >>, known) = f[Len(<< >>)]
  BY <1>1, ApplyingKeeps
<1> QED
  BY <1>1, <1>2 DEF Keeps, KeptNext

\* One transaction more is kept if it applies on top of what was kept before.
LEMMA ApplyingOneMore ==
    ASSUME NEW s \in Seq(Tx), NEW x \in Tx, NEW known
    PROVE  /\ Applying(s, known) \in Seq(Tx)
           /\ Applying(Append(s, x), known) =
                 IF Applies(x, known \cup Elements(Applying(s, known)))
                 THEN Append(Applying(s, known), x) ELSE Applying(s, known)
<1> DEFINE t == Append(s, x)
           n == Len(s)
<1>1. /\ t \in Seq(Tx) /\ n \in Nat /\ Len(t) = n + 1 /\ t[n + 1] = x
      /\ \A i \in 1..n : t[i] = s[i]
  OBVIOUS
<1>2. PICK f \in [0..Len(s) -> Seq(Tx)] :
          Keeps(s, known, f, Len(s)) /\ Applying(s, known) = f[Len(s)]
  BY ApplyingKeeps
<1> HIDE DEF t
<1>3. PICK g \in [0..Len(t) -> Seq(Tx)] :
          Keeps(t, known, g, Len(t)) /\ Applying(t, known) = g[Len(t)]
  BY <1>1, ApplyingKeeps
<1> HIDE DEF n
<1> DEFINE T == {k \in Nat : k <= n => g[k] = f[k]}
<1>4. 0 \in T
  <2>1. 0 \in 0..Len(s) /\ 0 \in 0..Len(t)
    BY <1>1
  <2>2. f[0] = KeptNext(s, known, f, 0) /\ g[0] = KeptNext(t, known, g, 0)
    BY <1>2, <1>3, <2>1 DEF Keeps
  <2>3. g[0] = f[0]
    BY <2>2 DEF KeptNext
  <2> QED
    BY <2>3
<1>5. ASSUME NEW k \in T PROVE k + 1 \in T
  <2> SUFFICES ASSUME k + 1 <= n PROVE g[k + 1] = f[k + 1]
    OBVIOUS
  <2>1. /\ k \in Nat /\ g[k] = f[k] /\ k + 1 # 0 /\ (k + 1) - 1 = k
        /\ k + 1 \in 0..n /\ k + 1 \in 0..(n + 1) /\ k + 1 \in 1..n
    BY <1>1
  <2>2. t[k + 1] = s[k + 1]
    BY <1>1, <2>1
  <2>3. f[k + 1] = KeptNext(s, known, f, k + 1) /\ g[k + 1] = KeptNext(t, known, g, k + 1)
    BY <1>1, <1>2, <1>3, <2>1 DEF Keeps, n
  <2>4. KeptNext(s, known, f, k + 1) = KeptNext(t, known, g, k + 1)
    <3>1. f[(k + 1) - 1] = g[(k + 1) - 1]
      BY <2>1
    <3> QED
      BY <2>2, <3>1 DEF KeptNext
  <2> QED
    BY <2>3, <2>4
<1> HIDE DEF T
<1>6. T = Nat
  <2>1. T \in SUBSET Nat
    BY DEF T
  <2> QED
    BY <1>4, <1>5, <2>1, Induct
<1>7. g[n] = f[n]
  <2>1. n \in T /\ n <= n
    BY <1>1, <1>6
  <2> QED
    BY <2>1 DEF T
<1>8. g[n + 1] = KeptNext(t, known, g, n + 1)
  BY <1>1, <1>3 DEF Keeps
<1>9. n + 1 # 0 /\ (n + 1) - 1 = n
  BY <1>1
<1>10. Applying(s, known) = f[n] /\ f[n] \in Seq(Tx) /\ Applying(t, known) = g[n + 1]
  BY <1>1, <1>2, <1>3 DEF n
<1> QED
  BY <1>1, <1>7, <1>8, <1>9, <1>10 DEF KeptNext, t

\* The elements of a sequence that grew by one.
LEMMA ElementsAppend ==
    ASSUME NEW s \in Seq(Tx), NEW x \in Tx
    PROVE  Elements(Append(s, x)) = Elements(s) \cup {x}
<1> DEFINE t == Append(s, x)
           n == Len(s)
<1>1. n \in Nat /\ Len(t) = n + 1 /\ t[n + 1] = x /\ \A i \in 1..n : t[i] = s[i]
  OBVIOUS
<1> HIDE DEF t
<1>2. ASSUME NEW e \in Elements(t) PROVE e \in Elements(s) \cup {x}
  <2>1. PICK i \in 1..Len(t) : e = t[i]
    BY DEF Elements
  <2>2. i = n + 1 \/ i \in 1..n
    BY <1>1, <2>1
  <2> QED
    BY <1>1, <2>1, <2>2 DEF Elements
<1>3. ASSUME NEW e \in Elements(s) PROVE e \in Elements(t)
  <2>1. PICK i \in 1..n : e = s[i]
    BY DEF Elements
  <2>2. i \in 1..Len(t) /\ t[i] = e
    BY <1>1, <2>1
  <2> QED
    BY <2>2 DEF Elements
<1>4. x \in Elements(t)
  <2>1. n + 1 \in 1..Len(t)
    BY <1>1
  <2> QED
    BY <1>1, <2>1 DEF Elements
<1> QED
  BY <1>2, <1>3, <1>4 DEF t

\* What applies of s is in s and not known before, and all of it applies when
\* the rest of s is left out.
LEMMA ApplyingTwice ==
    ASSUME NEW known
    PROVE  \A s \in Seq(Tx) :
               /\ Applying(s, known) \in Seq(Tx)
               /\ Applying(Applying(s, known), known) = Applying(s, known)
               /\ Elements(Applying(s, known)) \subseteq Elements(s) \ known
<1> DEFINE Good(s) ==
               /\ Applying(s, known) \in Seq(Tx)
               /\ Applying(Applying(s, known), known) = Applying(s, known)
               /\ Elements(Applying(s, known)) \subseteq Elements(s) \ known
           T == {n \in Nat : \A s \in Seq(Tx) : Len(s) = n => Good(s)}
<1>1. 0 \in T
  <2> SUFFICES ASSUME NEW s \in Seq(Tx), Len(s) = 0 PROVE Good(s)
    OBVIOUS
  <2>1. s = << >>
    OBVIOUS
  <2>2. Applying(s, known) = << >> /\ Applying(<< >>, known) = << >>
    BY <2>1, ApplyingNone
  <2>3. << >> \in Seq(Tx) /\ Elements(<< >>) = {}
    BY DEF Elements
  <2> QED
    BY <2>2, <2>3
<1>2. ASSUME NEW n \in T PROVE n + 1 \in T
  <2> SUFFICES ASSUME NEW s \in Seq(Tx), Len(s) = n + 1 PROVE Good(s)
    OBVIOUS
  <2> DEFINE r == SubSeq(s, 1, n)
             x == s[n + 1]
             a == Applying(r, known)
  <2>1. n \in Nat /\ r \in Seq(Tx) /\ Len(r) = n /\ x \in Tx /\ s = Append(r, x)
    OBVIOUS
  <2>2. Elements(r) \subseteq Elements(s) /\ x \in Elements(s)
    BY <2>1 DEF Elements
  <2> HIDE DEF r, x
  <2>3. Good(r)
    BY <2>1
  <2>4. Applying(s, known) = IF Applies(x, known \cup Elements(a)) THEN Append(a, x) ELSE a
    BY <2>1, ApplyingOneMore
  <2>5. a \in Seq(Tx) /\ Applying(a, known) = a /\ Elements(a) \subseteq Elements(r) \ known
    BY <2>3
  <2> HIDE DEF a
  <2>6. CASE Applies(x, known \cup Elements(a))
    <3> HIDE DEF Good, T
    <3>1. Applying(Append(a, x), known) =
             IF Applies(x, known \cup Elements(Applying(a, known)))
             THEN Append(Applying(a, known), x) ELSE Applying(a, known)
      <4>1. a \in Seq(Tx) /\ x \in Tx
        BY <2>1, <2>5
      <4> QED
        BY <4>1, ApplyingOneMore, Zenon
    <3>2. Applying(Append(a, x), known) = Append(a, x)
      BY <2>5, <2>6, <3>1
    <3>3. Applying(s, known) = Append(a, x) /\ Append(a, x) \in Seq(Tx)
      BY <2>1, <2>4, <2>5, <2>6
    <3>4. Elements(Append(a, x)) = Elements(a) \cup {x}
      BY <2>1, <2>5, ElementsAppend
    <3>5. x \notin known
      BY <2>6 DEF Applies
    <3> QED
      BY <2>2, <2>5, <3>2, <3>3, <3>4, <3>5 DEF Good
  <2>7. CASE ~Applies(x, known \cup Elements(a))
    BY <2>2, <2>4, <2>5, <2>7
  <2> QED
    BY <2>6, <2>7
<1> HIDE DEF T
<1>3. T = Nat
  <2>1. T \in SUBSET Nat
    BY DEF T
  <2> QED
    BY <1>1, <1>2, <2>1, Induct
<1> QED
  BY <1>3 DEF T

\* Transactions in an order in which each builds only on what was known or on
\* those before it.
Ordered(s, known) ==
    \A i \in 1..Len(s) : Needs[s[i]] \subseteq known \cup {s[j] : j \in 1..(i - 1)}

\* The elements in front of a position are the same once the sequence has grown.
LEMMA ElementsBelow ==
    ASSUME NEW r \in Seq(Tx), NEW x \in Tx, NEW i \in 1..(Len(r) + 1)
    PROVE  {Append(r, x)[j] : j \in 1..(i - 1)} = {r[j] : j \in 1..(i - 1)}
<1>1. \A j \in 1..(i - 1) : Append(r, x)[j] = r[j]
  OBVIOUS
<1> QED
  BY <1>1

\* A sequence in order stays in order when a transaction that builds on what is
\* there is put at its end, and only then.
LEMMA OrderedAppend ==
    ASSUME NEW r \in Seq(Tx), NEW x \in Tx, NEW known
    PROVE  Ordered(Append(r, x), known) <=>
               Ordered(r, known) /\ Needs[x] \subseteq known \cup Elements(r)
<1> DEFINE s == Append(r, x)
           n == Len(r)
<1>1. n \in Nat /\ Len(s) = n + 1 /\ s[n + 1] = x /\ \A i \in 1..n : s[i] = r[i]
  OBVIOUS
<1>2. \A i \in 1..(n + 1) : {s[j] : j \in 1..(i - 1)} = {r[j] : j \in 1..(i - 1)}
  BY ElementsBelow
<1> HIDE DEF s, n
<1>3. ASSUME Ordered(s, known)
      PROVE  Ordered(r, known) /\ Needs[x] \subseteq known \cup Elements(r)
  <2>1. ASSUME NEW i \in 1..n
        PROVE  Needs[r[i]] \subseteq known \cup {r[j] : j \in 1..(i - 1)}
    <3>1. i \in 1..(n + 1) /\ i \in 1..Len(s) /\ s[i] = r[i]
      BY <1>1
    <3>2. Needs[s[i]] \subseteq known \cup {s[j] : j \in 1..(i - 1)}
      BY <1>3, <3>1 DEF Ordered
    <3> QED
      BY <1>2, <3>1, <3>2
  <2>2. Needs[x] \subseteq known \cup {r[j] : j \in 1..n}
    <3>1. n + 1 \in 1..(n + 1) /\ n + 1 \in 1..Len(s) /\ (n + 1) - 1 = n
      BY <1>1
    <3>2. Needs[s[n + 1]] \subseteq known \cup {s[j] : j \in 1..((n + 1) - 1)}
      BY <1>3, <3>1 DEF Ordered
    <3>3. {s[j] : j \in 1..((n + 1) - 1)} = {r[j] : j \in 1..((n + 1) - 1)}
      BY <1>2, <3>1
    <3> QED
      BY <1>1, <3>1, <3>2, <3>3
  <2> QED
    BY <2>1, <2>2 DEF Ordered, Elements, n
<1>4. ASSUME Ordered(r, known), Needs[x] \subseteq known \cup Elements(r)
      PROVE  Ordered(s, known)
  <2> SUFFICES ASSUME NEW i \in 1..(n + 1)
               PROVE  Needs[s[i]] \subseteq known \cup {r[j] : j \in 1..(i - 1)}
    BY <1>1, <1>2 DEF Ordered
  <2>1. CASE i = n + 1
    <3>1. s[i] = x /\ i - 1 = n
      BY <1>1, <2>1
    <3> QED
      BY <1>4, <3>1 DEF Elements, n
  <2>2. CASE i # n + 1
    <3>1. i \in 1..Len(r) /\ s[i] = r[i]
      BY <1>1, <2>2 DEF n
    <3> QED
      BY <1>4, <3>1 DEF Ordered
  <2> QED
    BY <2>1, <2>2
<1> QED
  BY <1>3, <1>4 DEF s

\* What applies of s is no longer than s, and if it is all of s, s is in order.
LEMMA ApplyingAll ==
    ASSUME NEW known
    PROVE  \A s \in Seq(Tx) :
               /\ Len(Applying(s, known)) <= Len(s)
               /\ Applying(s, known) = s => Ordered(s, known)
<1> DEFINE Good(s) ==
               /\ Len(Applying(s, known)) <= Len(s)
               /\ Applying(s, known) = s => Ordered(s, known)
           T == {n \in Nat : \A s \in Seq(Tx) : Len(s) = n => Good(s)}
<1>1. 0 \in T
  <2> SUFFICES ASSUME NEW s \in Seq(Tx), Len(s) = 0 PROVE Good(s)
    OBVIOUS
  <2>1. s = << >>
    OBVIOUS
  <2>2. Applying(s, known) = << >> /\ Len(<< >>) = 0
    BY <2>1, ApplyingNone
  <2> QED
    BY <2>2 DEF Ordered
<1>2. ASSUME NEW n \in T PROVE n + 1 \in T
  <2> SUFFICES ASSUME NEW s \in Seq(Tx), Len(s) = n + 1 PROVE Good(s)
    OBVIOUS
  <2> DEFINE r == SubSeq(s, 1, n)
             x == s[n + 1]
             a == Applying(r, known)
  <2>1. n \in Nat /\ r \in Seq(Tx) /\ Len(r) = n /\ x \in Tx /\ s = Append(r, x)
    OBVIOUS
  <2> HIDE DEF r, x
  <2>2. Good(r)
    BY <2>1
  <2>3. /\ Applying(s, known) = IF Applies(x, known \cup Elements(a)) THEN Append(a, x) ELSE a
        /\ a \in Seq(Tx)
    BY <2>1, ApplyingOneMore
  <2>4. Len(a) <= n /\ (a = r => Ordered(r, known)) /\ Len(a) \in Nat
    BY <2>1, <2>2, <2>3
  <2> HIDE DEF a
  <2>5. CASE Applies(x, known \cup Elements(a))
    <3>1. Applying(s, known) = Append(a, x) /\ Len(Append(a, x)) = Len(a) + 1
      BY <2>1, <2>3, <2>5
    <3>2. ASSUME Applying(s, known) = s PROVE Ordered(s, known)
      <4>1. Append(a, x) = Append(r, x)
        BY <2>1, <3>1, <3>2
      <4>2. a = r
        BY <2>1, <2>3, <4>1
      <4>3. Needs[x] \subseteq known \cup Elements(r)
        BY <2>5, <4>2 DEF Applies
      <4> QED
        BY <2>1, <2>4, <4>2, <4>3, OrderedAppend
    <3> QED
      BY <2>1, <2>4, <3>1, <3>2
  <2>6. CASE ~Applies(x, known \cup Elements(a))
    <3>1. Applying(s, known) = a /\ Len(a) < Len(s)
      BY <2>1, <2>3, <2>4, <2>6
    <3> QED
      BY <2>1, <2>4, <3>1
  <2> QED
    BY <2>5, <2>6
<1> HIDE DEF T
<1>3. T = Nat
  <2>1. T \in SUBSET Nat
    BY DEF T
  <2> QED
    BY <1>1, <1>2, <2>1, Induct
<1> QED
  BY <1>3 DEF T

\* Of transactions in such an order, one is left out only if it builds on
\* another that is left out.
LEMMA NoneDropped ==
    ASSUME NEW known
    PROVE  \A s \in Seq(Tx) : Ordered(s, known) =>
               \A tx \in Elements(s) :
                   Needs[tx] \subseteq known \cup Elements(Applying(s, known)) =>
                       tx \in known \cup Elements(Applying(s, known))
<1> DEFINE Kept(s) == known \cup Elements(Applying(s, known))
           Good(s) == Ordered(s, known) =>
                         \A tx \in Elements(s) : Needs[tx] \subseteq Kept(s) => tx \in Kept(s)
           T == {n \in Nat : \A s \in Seq(Tx) : Len(s) = n => Good(s)}
<1>1. 0 \in T
  <2> SUFFICES ASSUME NEW s \in Seq(Tx), Len(s) = 0 PROVE Good(s)
    OBVIOUS
  <2>1. Elements(s) = {}
    BY DEF Elements
  <2> QED
    BY <2>1
<1>2. ASSUME NEW n \in T PROVE n + 1 \in T
  <2> SUFFICES ASSUME NEW s \in Seq(Tx), Len(s) = n + 1, Ordered(s, known),
                      NEW tx \in Elements(s), Needs[tx] \subseteq Kept(s)
               PROVE  tx \in Kept(s)
    OBVIOUS
  <2> DEFINE r == SubSeq(s, 1, n)
             x == s[n + 1]
             a == Applying(r, known)
  <2>1. n \in Nat /\ r \in Seq(Tx) /\ Len(r) = n /\ x \in Tx /\ s = Append(r, x)
    OBVIOUS
  <2> HIDE DEF r, x
  <2>2. Good(r)
    BY <2>1
  <2>3. /\ Applying(s, known) = IF Applies(x, known \cup Elements(a)) THEN Append(a, x) ELSE a
        /\ a \in Seq(Tx)
    BY <2>1, ApplyingOneMore
  <2>4. Ordered(r, known)
    BY <2>1, OrderedAppend
  <2>5. Kept(r) = known \cup Elements(a)
    OBVIOUS
  <2>6. Elements(s) = Elements(r) \cup {x}
    BY <2>1, ElementsAppend
  <2> HIDE DEF a
  <2>7. CASE Applies(x, known \cup Elements(a))
    <3>1. Kept(s) = Kept(r) \cup {x}
      <4>1. Elements(Append(a, x)) = Elements(a) \cup {x}
        BY <2>1, <2>3, ElementsAppend
      <4> QED
        BY <2>3, <2>5, <2>7, <4>1
    <3>2. x \notin Kept(r) /\ Needs[x] \subseteq Kept(r)
      BY <2>5, <2>7 DEF Applies
    <3> HIDE DEF Kept
    <3>3. x \notin Elements(r)
      BY <2>2, <2>4, <3>2
    <3>4. x \notin known
      BY <3>2 DEF Kept
    <3> SUFFICES ASSUME tx \in Elements(r) PROVE tx \in Kept(r)
      BY <2>6, <3>1
    <3>5. PICK i \in 1..Len(r) : tx = r[i]
      BY DEF Elements
    <3>6. {r[j] : j \in 1..(i - 1)} \subseteq Elements(r)
      BY <2>1, <3>5 DEF Elements
    <3>7. Needs[tx] \subseteq known \cup Elements(r)
      BY <2>4, <3>5, <3>6 DEF Ordered
    <3>8. Needs[tx] \subseteq Kept(r)
      BY <3>1, <3>3, <3>4, <3>7
    <3> QED
      BY <2>2, <2>4, <3>8
  <2>8. CASE ~Applies(x, known \cup Elements(a))
    <3>1. Kept(s) = Kept(r)
      BY <2>3, <2>5, <2>8
    <3>2. Needs[x] \subseteq Kept(r) => x \in Kept(r)
      BY <2>5, <2>8 DEF Applies
    <3> HIDE DEF Kept
    <3> QED
      BY <2>2, <2>4, <2>6, <3>1, <3>2
  <2> QED
    BY <2>7, <2>8
<1> HIDE DEF T
<1>3. T = Nat
  <2>1. T \in SUBSET Nat
    BY DEF T
  <2> QED
    BY <1>1, <1>2, <2>1, Induct
<1> QED
  BY <1>3 DEF T

\* More known before, and the transactions of a block in front.
LEMMA OrderedMore ==
    ASSUME NEW s \in Seq(Tx), NEW known, NEW more, known \subseteq more, Ordered(s, known)
    PROVE  Ordered(s, more)
  BY DEF Ordered

\* The elements of two sequences put together.
LEMMA ElementsConcat ==
    ASSUME NEW s \in Seq(Tx), NEW t \in Seq(Tx)
    PROVE  Elements(s \o t) = Elements(s) \cup Elements(t)
<1> DEFINE u == s \o t
           m == Len(s)
           n == Len(t)
<1>1. /\ m \in Nat /\ n \in Nat /\ Len(u) = m + n
      /\ \A i \in 1..m : u[i] = s[i]
      /\ \A i \in 1..n : u[m + i] = t[i]
  OBVIOUS
<1> HIDE DEF u, m, n
<1>2. ASSUME NEW i \in 1..Len(u) PROVE u[i] \in Elements(s) \cup Elements(t)
  <2>1. CASE i \in 1..m
    BY <1>1, <2>1 DEF Elements, m
  <2>2. CASE i \notin 1..m
    <3>1. i - m \in 1..n /\ m + (i - m) = i
      BY <1>1, <2>2
    <3>2. u[i] = t[i - m]
      BY <1>1, <3>1
    <3> QED
      BY <3>1, <3>2 DEF Elements, n
  <2> QED
    BY <2>1, <2>2
<1>3. ASSUME NEW i \in 1..m PROVE s[i] \in Elements(u)
  <2>1. i \in 1..Len(u) /\ u[i] = s[i]
    BY <1>1
  <2> QED
    BY <2>1 DEF Elements
<1>4. ASSUME NEW i \in 1..n PROVE t[i] \in Elements(u)
  <2>1. m + i \in 1..Len(u) /\ u[m + i] = t[i]
    BY <1>1
  <2> QED
    BY <2>1 DEF Elements
<1> QED
  BY <1>2, <1>3, <1>4 DEF Elements, u, m, n

\* Popping a block puts its transactions in front of those popped before, and
\* both in front of the pending ones: the grouping does not matter.
LEMMA ConcatThree ==
    ASSUME NEW s \in Seq(Tx), NEW t \in Seq(Tx), NEW u \in Seq(Tx)
    PROVE  s \o (t \o u) = (s \o t) \o u
  BY ConcatAssociative

\* Transactions in order in front of others that build on them are in order.
LEMMA OrderedConcat ==
    ASSUME NEW s \in Seq(Tx), NEW t \in Seq(Tx), NEW known,
           Ordered(s, known), Ordered(t, known \cup Elements(s))
    PROVE  Ordered(s \o t, known)
<1> DEFINE u == s \o t
           m == Len(s)
           n == Len(t)
<1>1. /\ m \in Nat /\ n \in Nat /\ Len(u) = m + n
      /\ \A i \in 1..m : u[i] = s[i]
      /\ \A i \in 1..n : u[m + i] = t[i]
  OBVIOUS
<1> HIDE DEF u, m, n
<1> SUFFICES ASSUME NEW i \in 1..Len(u), NEW y \in Needs[u[i]], y \notin known
             PROVE  \E j \in 1..(i - 1) : y = u[j]
  BY DEF Ordered, u
<1>2. CASE i \in 1..m
  <2>1. y \in known \cup {s[j] : j \in 1..(i - 1)}
    BY <1>1, <1>2 DEF Ordered, m
  <2>2. PICK j \in 1..(i - 1) : y = s[j]
    BY <2>1
  <2>3. j \in 1..m
    BY <1>1, <1>2, <2>2
  <2> QED
    BY <1>1, <2>2, <2>3
<1>3. CASE i \notin 1..m
  <2> DEFINE k == i - m
  <2>1. k \in 1..n /\ m + k = i
    BY <1>1, <1>3
  <2>2. u[i] = t[k]
    BY <1>1, <2>1
  <2> HIDE DEF k
  <2>3. y \in known \cup Elements(s) \cup {t[j] : j \in 1..(k - 1)}
    BY <2>1, <2>2 DEF Ordered, n
  <2>4. CASE y \in Elements(s)
    <3>1. PICK j \in 1..m : y = s[j]
      BY <2>4 DEF Elements, m
    <3>2. j \in 1..(i - 1) /\ u[j] = y
      BY <1>1, <2>1, <3>1
    <3> QED
      BY <3>2
  <2>5. CASE y \in {t[j] : j \in 1..(k - 1)}
    <3>1. PICK j \in 1..(k - 1) : y = t[j]
      BY <2>5
    <3>2. m + j \in 1..(i - 1) /\ j \in 1..n
      BY <1>1, <2>1, <3>1
    <3>3. u[m + j] = y
      BY <1>1, <3>1, <3>2
    <3> QED
      BY <3>2, <3>3
  <2> QED
    BY <2>3, <2>4, <2>5
<1> QED
  BY <1>2, <1>3
=============================================================================
