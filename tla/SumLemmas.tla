----------------------------- MODULE SumLemmas ------------------------------
(***************************************************************************)
(* Sums over finite sets, for every summand: what the SumFunctionOnSet of  *)
(* the community modules computes, and how a sum changes with a summand.   *)
(* Functions defined by recursion on numbers, as the loops of the model    *)
(* are.                                                                    *)
(* Induction is on sets of numbers, and of sets, in place of predicates.   *)
(***************************************************************************)
EXTENDS Integers, Sequences, FiniteSetsExt, FiniteSetTheorems, WellFoundedInduction, TLAPS

-----------------------------------------------------------------------------
(* Induction.                                                              *)

\* Every set of natural numbers but the empty one has a least element.
LEMMA LeastOf ==
    ASSUME NEW T \in SUBSET Nat, T # {}
    PROVE  \E n \in T : \A m \in T : n <= m
<1>1. \E n \in T : \A m \in T : ~ (<<m, n>> \in OpToRel(<, Nat))
  BY NatLessThanWellFounded, WFMin
<1>2. PICK n \in T : \A m \in T : ~ (<<m, n>> \in OpToRel(<, Nat))
  BY <1>1
<1>3. ASSUME NEW m \in T PROVE n <= m
  <2>1. ~ (<<m, n>> \in OpToRel(<, Nat))
    BY <1>2
  <2>2. m \in Nat /\ n \in Nat
    OBVIOUS
  <2>3. ~ (m < n)
    BY <2>1, <2>2 DEF OpToRel
  <2> QED
    BY <2>2, <2>3
<1> QED
  BY <1>3

\* A set that has 0 and, with each number, the next one, has them all.
LEMMA Induct ==
    ASSUME NEW T \in SUBSET Nat, 0 \in T, \A n \in T : n + 1 \in T
    PROVE  T = Nat
<1> SUFFICES ASSUME T # Nat PROVE FALSE
  OBVIOUS
<1>1. Nat \ T # {}
  OBVIOUS
<1>2. PICK n \in Nat \ T : \A m \in Nat \ T : n <= m
  BY <1>1, LeastOf
<1>3. n # 0 /\ n - 1 \in Nat
  BY <1>2
<1>4. n - 1 \in T
  BY <1>2, <1>3
<1>5. (n - 1) + 1 \in T
  BY <1>4
<1> QED
  BY <1>2, <1>5

\* Taking an element off a finite set leaves one of them less.
LEMMA OneLess ==
    ASSUME NEW S, IsFiniteSet(S), NEW a \in S
    PROVE  /\ IsFiniteSet(S \ {a})
           /\ Cardinality(S) \in Nat
           /\ Cardinality(S \ {a}) \in Nat
           /\ Cardinality(S \ {a}) + 1 = Cardinality(S)
<1>1. IsFiniteSet(S \ {a}) /\ Cardinality(S \ {a}) = Cardinality(S) - 1
  BY FS_RemoveElement
<1>2. Cardinality(S) \in Nat /\ Cardinality(S \ {a}) \in Nat
  BY <1>1, FS_CardinalityType
<1> QED
  BY <1>1, <1>2

\* A set of subsets of S that has the empty one and stays closed when an
\* element is added has S itself.
LEMMA FiniteInduct ==
    ASSUME NEW S, IsFiniteSet(S), NEW C \in SUBSET SUBSET S, {} \in C,
           \A A \in C, a \in S : A \cup {a} \in C
    PROVE  S \in C
<1> DEFINE T == {n \in Nat : \A A \in SUBSET S : Cardinality(A) = n => A \in C}
<1>1. 0 \in T
  <2> SUFFICES ASSUME NEW A \in SUBSET S, Cardinality(A) = 0 PROVE A \in C
    OBVIOUS
  <2>1. IsFiniteSet(A)
    BY FS_Subset
  <2> QED
    BY <2>1, FS_EmptySet
<1>2. ASSUME NEW n \in T PROVE n + 1 \in T
  <2> SUFFICES ASSUME NEW A \in SUBSET S, Cardinality(A) = n + 1 PROVE A \in C
    OBVIOUS
  <2>1. IsFiniteSet(A) /\ n \in Nat
    BY FS_Subset
  <2>2. A # {}
    BY <2>1, FS_EmptySet
  <2>3. PICK a : a \in A
    BY <2>2
  <2>4. Cardinality(A \ {a}) = n
    <3>1. Cardinality(A \ {a}) \in Nat /\ Cardinality(A \ {a}) + 1 = Cardinality(A)
      BY <2>1, <2>3, OneLess
    <3> QED
      BY <2>1, <3>1
  <2>5. A \ {a} \in C
    BY <2>4
  <2>6. (A \ {a}) \cup {a} \in C
    BY <2>3, <2>5
  <2>7. (A \ {a}) \cup {a} = A
    BY <2>3
  <2> QED
    BY <2>6, <2>7
<1>3. T = Nat
  <2> HIDE DEF T
  <2>1. T \in SUBSET Nat
    BY DEF T
  <2> QED
    BY <1>1, <1>2, <2>1, Induct
<1>4. Cardinality(S) \in T
  BY <1>3, FS_CardinalityType
<1> QED
  BY <1>4

-----------------------------------------------------------------------------
(* Recursive functions over an interval.                                   *)

\* The first value is a, and F makes each value from the one before.
Unrolls(g, a, F, N) == g = [n \in 0..N |-> IF n = 0 THEN a ELSE F[n][g[n - 1]]]

\* There is such a function.
LEMMA Recursion ==
    ASSUME NEW N \in Nat, NEW a, NEW F
    PROVE  \E g : Unrolls(g, a, F, N)
<1> DEFINE T == {n \in Nat : \E g : Unrolls(g, a, F, n)}
<1>1. 0 \in T
  <2> DEFINE g == [k \in 0..0 |-> a]
  <2>1. Unrolls(g, a, F, 0)
    BY DEF Unrolls
  <2> QED
    BY <2>1
<1>2. ASSUME NEW n \in T PROVE n + 1 \in T
  <2>1. n \in Nat
    OBVIOUS
  <2>2. PICK g : Unrolls(g, a, F, n)
    OBVIOUS
  <2> DEFINE h == [k \in 0..(n + 1) |-> IF k = n + 1 THEN F[k][g[n]] ELSE g[k]]
             e(k) == IF k = 0 THEN a ELSE F[k][h[k - 1]]
  <2>3. ASSUME NEW k \in 0..(n + 1) PROVE h[k] = e(k)
    <3>1. CASE k = n + 1
      <4>1. k # 0 /\ k - 1 = n /\ n \in 0..(n + 1) /\ n # n + 1
        BY <2>1, <3>1
      <4>2. h[k] = F[k][g[n]]
        BY <3>1
      <4>3. h[k - 1] = g[n]
        BY <4>1
      <4> QED
        BY <4>1, <4>2, <4>3
    <3>2. CASE k # n + 1
      <4>1. k \in 0..n
        BY <2>1, <3>2
      <4>2. h[k] = g[k]
        BY <3>2
      <4>3. g[k] = IF k = 0 THEN a ELSE F[k][g[k - 1]]
        BY <2>2, <4>1 DEF Unrolls
      <4>4. k # 0 => k - 1 \in 0..(n + 1) /\ k - 1 # n + 1
        BY <2>1, <4>1
      <4>5. k # 0 => h[k - 1] = g[k - 1]
        BY <4>4
      <4> QED
        BY <4>2, <4>3, <4>5
    <3> QED
      BY <3>1, <3>2
  <2>4. h = [k \in 0..(n + 1) |-> h[k]]
    OBVIOUS
  <2> HIDE DEF h
  <2>5. Unrolls(h, a, F, n + 1)
    BY <2>3, <2>4 DEF Unrolls
  <2>6. n + 1 \in Nat
    BY <2>1
  <2> HIDE DEF e
  <2> QED
    BY <2>5, <2>6
<1> HIDE DEF T
<1>3. T = Nat
  <2>1. T \in SUBSET Nat
    BY DEF T
  <2> QED
    BY <1>1, <1>2, <2>1, Induct
<1> QED
  BY <1>3 DEF T

\* What the first value has, and each value passes on, every value has.
LEMMA Reached ==
    ASSUME NEW N \in Nat, NEW S, NEW g, g[0] \in S[0],
           \A n \in 1..N : g[n - 1] \in S[n - 1] => g[n] \in S[n]
    PROVE  \A n \in 0..N : g[n] \in S[n]
<1> DEFINE T == {n \in Nat : n <= N => g[n] \in S[n]}
<1>1. 0 \in T
  OBVIOUS
<1>2. ASSUME NEW n \in T PROVE n + 1 \in T
  <2>1. n \in Nat /\ (n <= N => g[n] \in S[n])
    OBVIOUS
  <2>2. ASSUME n + 1 <= N PROVE g[n + 1] \in S[n + 1]
    <3>1. n + 1 \in 1..N /\ (n + 1) - 1 = n /\ n <= N
      BY <2>1, <2>2
    <3>2. g[(n + 1) - 1] \in S[(n + 1) - 1]
      BY <2>1, <3>1
    <3> QED
      BY <3>1, <3>2
  <2> QED
    BY <2>1, <2>2
<1>3. T = Nat
  <2>1. T \in SUBSET Nat
    OBVIOUS
  <2> HIDE DEF T
  <2> QED
    BY <1>1, <1>2, <2>1, Induct
<1> QED
  BY <1>3
-----------------------------------------------------------------------------
(* The recursion of a sum.                                                 *)

Pick(s) == CHOOSE e \in s : TRUE

SumsUp(g, f, C) ==
    g = [s \in C |-> IF s = {} THEN 0 ELSE f[Pick(s)] + g[s \ {Pick(s)}]]

\* The sum is the value at S of a function that solves its recursion.
LEMMA SumChoice ==
    ASSUME NEW f, NEW S
    PROVE  SumFunctionOnSet(f, S) = (CHOOSE g : SumsUp(g, f, SUBSET S))[S]
  BY DEF SumFunctionOnSet, FoldFunctionOnSet, MapThenFoldSet, SumsUp, Pick

\* Over a finite set the recursion has a solution.
LEMMA SumSolvable ==
    ASSUME NEW f, NEW S, IsFiniteSet(S)
    PROVE  \E g : SumsUp(g, f, SUBSET S)
<1> DEFINE Sub(n) == {s \in SUBSET S : Cardinality(s) <= n}
           T == {n \in Nat : \E g : SumsUp(g, f, Sub(n))}
<1>0. \A s \in SUBSET S : Cardinality(s) \in Nat /\ IsFiniteSet(s)
  BY FS_Subset, FS_CardinalityType
<1>1. 0 \in T
  <2> DEFINE g == [s \in Sub(0) |-> 0]
  <2>1. ASSUME NEW s \in Sub(0) PROVE s = {}
    <3>1. Cardinality(s) = 0 /\ IsFiniteSet(s)
      BY <1>0
    <3> QED
      BY <3>1, FS_EmptySet
  <2>2. SumsUp(g, f, Sub(0))
    BY <2>1 DEF SumsUp
  <2> QED
    BY <2>2
<1>2. ASSUME NEW n \in T PROVE n + 1 \in T
  <2>1. PICK g : SumsUp(g, f, Sub(n))
    OBVIOUS
  <2> DEFINE h == [s \in Sub(n + 1) |-> IF s = {} THEN 0 ELSE f[Pick(s)] + g[s \ {Pick(s)}]]
  <2>2. n \in Nat
    OBVIOUS
  <2>3. ASSUME NEW s \in Sub(n + 1), s # {} PROVE s \ {Pick(s)} \in Sub(n)
    <3>1. Pick(s) \in s
      BY <2>3 DEF Pick
    <3>2. Cardinality(s \ {Pick(s)}) \in Nat /\ Cardinality(s \ {Pick(s)}) + 1 = Cardinality(s)
      BY <1>0, <3>1, OneLess
    <3> QED
      BY <2>2, <3>2
  <2>4. ASSUME NEW s \in Sub(n) PROVE s \in Sub(n + 1) /\ h[s] = g[s]
    <3>1. s \in Sub(n + 1)
      BY <1>0, <2>2
    <3>2. g[s] = IF s = {} THEN 0 ELSE f[Pick(s)] + g[s \ {Pick(s)}]
      BY <2>1 DEF SumsUp
    <3> QED
      BY <3>1, <3>2
  <2>5. h = [s \in Sub(n + 1) |-> IF s = {} THEN 0 ELSE f[Pick(s)] + h[s \ {Pick(s)}]]
    <3> HIDE DEF h
    <3>1. ASSUME NEW s \in Sub(n + 1)
          PROVE  (IF s = {} THEN 0 ELSE f[Pick(s)] + g[s \ {Pick(s)}])
                 = (IF s = {} THEN 0 ELSE f[Pick(s)] + h[s \ {Pick(s)}])
      BY <2>3, <2>4
    <3> QED
      BY <3>1, Zenon DEF h
  <2>6. SumsUp(h, f, Sub(n + 1))
    BY <2>5 DEF SumsUp
  <2> HIDE DEF h, Sub
  <2> QED
    BY <2>2, <2>6
<1>3. T = Nat
  <2> HIDE DEF T
  <2>1. T \in SUBSET Nat
    BY DEF T
  <2> QED
    BY <1>1, <1>2, <2>1, Induct
<1>4. Cardinality(S) \in T
  BY <1>0, <1>3
<1>5. Sub(Cardinality(S)) = SUBSET S
  <2> SUFFICES ASSUME NEW s \in SUBSET S PROVE Cardinality(s) <= Cardinality(S)
    OBVIOUS
  <2> QED
    BY FS_Subset
<1> HIDE DEF Sub
<1> QED
  BY <1>4, <1>5

\* So the sum takes off one element at a time, in the order of Pick.
LEMMA SumUnfold ==
    ASSUME NEW f, NEW S, IsFiniteSet(S)
    PROVE  \A s \in SUBSET S :
             SumFunctionOnSet(f, s) = IF s = {} THEN 0
                                      ELSE f[Pick(s)] + SumFunctionOnSet(f, s \ {Pick(s)})
<1> DEFINE G(s) == CHOOSE g : SumsUp(g, f, SUBSET s)
<1>1. ASSUME NEW s \in SUBSET S PROVE SumsUp(G(s), f, SUBSET s)
  <2>1. \E g : SumsUp(g, f, SUBSET s)
    BY FS_Subset, SumSolvable
  <2> QED
    BY <2>1
<1>2. ASSUME NEW s \in SUBSET S, NEW t \in SUBSET s
      PROVE  G(s)[t] = IF t = {} THEN 0 ELSE f[Pick(t)] + G(s)[t \ {Pick(t)}]
  <2>1. SumsUp(G(s), f, SUBSET s)
    BY <1>1
  <2> HIDE DEF G
  <2> QED
    BY <2>1 DEF SumsUp
<1> DEFINE T == {n \in Nat : \A s \in SUBSET S : \A t \in SUBSET s :
                               Cardinality(t) = n => G(s)[t] = G(t)[t]}
<1>0. \A s \in SUBSET S : Cardinality(s) \in Nat /\ IsFiniteSet(s)
  BY FS_Subset, FS_CardinalityType
<1> HIDE DEF G
<1>3. 0 \in T
  <2> SUFFICES ASSUME NEW s \in SUBSET S, NEW t \in SUBSET s, Cardinality(t) = 0
               PROVE  G(s)[t] = G(t)[t]
    OBVIOUS
  <2>1. t = {} /\ t \in SUBSET S /\ t \in SUBSET t
    BY <1>0, FS_EmptySet
  <2> QED
    BY <1>2, <2>1
<1>4. ASSUME NEW n \in T PROVE n + 1 \in T
  <2> SUFFICES ASSUME NEW s \in SUBSET S, NEW t \in SUBSET s, Cardinality(t) = n + 1
               PROVE  G(s)[t] = G(t)[t]
    OBVIOUS
  <2> DEFINE u == t \ {Pick(t)}
  <2>1. t \in SUBSET S /\ IsFiniteSet(t) /\ n \in Nat
    BY <1>0
  <2>2. t # {}
    BY <2>1, FS_EmptySet
  <2>3. Pick(t) \in t
    BY <2>2 DEF Pick
  <2>4. Cardinality(u) = n
    <3>1. Cardinality(u) \in Nat /\ Cardinality(u) + 1 = Cardinality(t)
      BY <2>1, <2>3, OneLess
    <3> QED
      BY <2>1, <3>1
  <2>5. u \in SUBSET s /\ u \in SUBSET t
    OBVIOUS
  <2>6. G(s)[u] = G(u)[u] /\ G(t)[u] = G(u)[u]
    BY <2>1, <2>4, <2>5
  <2> QED
    BY <1>2, <2>1, <2>2, <2>6
<1>5. T = Nat
  <2> HIDE DEF T
  <2>1. T \in SUBSET Nat
    BY DEF T
  <2> QED
    BY <1>3, <1>4, <2>1, Induct
<1>6. ASSUME NEW s \in SUBSET S, NEW t \in SUBSET s PROVE G(s)[t] = G(t)[t]
  <2>1. Cardinality(t) \in T
    BY <1>0, <1>5
  <2> QED
    BY <2>1
<1> SUFFICES ASSUME NEW s \in SUBSET S
             PROVE  SumFunctionOnSet(f, s) = IF s = {} THEN 0
                      ELSE f[Pick(s)] + SumFunctionOnSet(f, s \ {Pick(s)})
  OBVIOUS
<1>7. \A t \in SUBSET S : SumFunctionOnSet(f, t) = G(t)[t]
  BY SumChoice DEF G
<1>8. G(s)[s] = IF s = {} THEN 0 ELSE f[Pick(s)] + G(s)[s \ {Pick(s)}]
  BY <1>2
<1>9. s \ {Pick(s)} \in SUBSET s /\ s \ {Pick(s)} \in SUBSET S
  OBVIOUS
<1>10. G(s)[s \ {Pick(s)}] = G(s \ {Pick(s)})[s \ {Pick(s)}]
  BY <1>6, <1>9
<1> QED
  BY <1>7, <1>8, <1>9, <1>10

\* The sum over no element is 0, and a sum of integers is an integer.
LEMMA SumEmpty ==
    ASSUME NEW f
    PROVE  SumFunctionOnSet(f, {}) = 0
  BY SumUnfold, FS_EmptySet

\* The sum of integers is one.
LEMMA SumInt ==
    ASSUME NEW S, IsFiniteSet(S), NEW f, \A e \in S : f[e] \in Int
    PROVE  SumFunctionOnSet(f, S) \in Int
<1> DEFINE T == {n \in Nat : \A s \in SUBSET S :
                               Cardinality(s) = n => SumFunctionOnSet(f, s) \in Int}
<1>0. \A s \in SUBSET S : Cardinality(s) \in Nat /\ IsFiniteSet(s)
  BY FS_Subset, FS_CardinalityType
<1>1. 0 \in T
  <2> SUFFICES ASSUME NEW s \in SUBSET S, Cardinality(s) = 0
               PROVE  SumFunctionOnSet(f, s) \in Int
    OBVIOUS
  <2>1. s = {}
    BY <1>0, FS_EmptySet
  <2> QED
    BY <2>1, SumEmpty
<1>2. ASSUME NEW n \in T PROVE n + 1 \in T
  <2> SUFFICES ASSUME NEW s \in SUBSET S, Cardinality(s) = n + 1
               PROVE  SumFunctionOnSet(f, s) \in Int
    OBVIOUS
  <2>1. IsFiniteSet(s) /\ n \in Nat /\ s # {}
    BY <1>0, FS_EmptySet
  <2>2. Pick(s) \in s
    BY <2>1 DEF Pick
  <2>3. Cardinality(s \ {Pick(s)}) \in Nat /\ Cardinality(s \ {Pick(s)}) + 1 = Cardinality(s)
    BY <2>1, <2>2, OneLess
  <2>4. SumFunctionOnSet(f, s \ {Pick(s)}) \in Int
    BY <2>1, <2>3
  <2>5. SumFunctionOnSet(f, s) = f[Pick(s)] + SumFunctionOnSet(f, s \ {Pick(s)})
    BY <2>1, SumUnfold
  <2> QED
    BY <2>2, <2>4, <2>5
<1>3. T = Nat
  <2> HIDE DEF T
  <2>1. T \in SUBSET Nat
    BY DEF T
  <2> QED
    BY <1>1, <1>2, <2>1, Induct
<1>4. Cardinality(S) \in T
  BY <1>0, <1>3
<1> QED
  BY <1>4

\* Any element may be taken off first.
LEMMA SumSplit ==
    ASSUME NEW S, IsFiniteSet(S), NEW f, \A e \in S : f[e] \in Int, NEW a \in S
    PROVE  SumFunctionOnSet(f, S) = f[a] + SumFunctionOnSet(f, S \ {a})
<1> DEFINE Sum(s) == SumFunctionOnSet(f, s)
           T == {n \in Nat : \A s \in SUBSET S, e \in S :
                    (Cardinality(s) = n /\ e \in s) => Sum(s) = f[e] + Sum(s \ {e})}
<1>0. \A s \in SUBSET S : Cardinality(s) \in Nat /\ IsFiniteSet(s)
  BY FS_Subset, FS_CardinalityType
<1>1. \A s \in SUBSET S : Sum(s) \in Int
  BY <1>0, SumInt
<1>2. \A s \in SUBSET S : s # {} => Sum(s) = f[Pick(s)] + Sum(s \ {Pick(s)})
  BY SumUnfold
<1> HIDE DEF Sum
<1>3. 0 \in T
  <2> SUFFICES ASSUME NEW s \in SUBSET S, Cardinality(s) = 0 PROVE s = {}
    OBVIOUS
  <2> QED
    BY <1>0, FS_EmptySet
<1>4. ASSUME NEW n \in T PROVE n + 1 \in T
  <2> SUFFICES ASSUME NEW s \in SUBSET S, NEW e \in S, Cardinality(s) = n + 1, e \in s
               PROVE  Sum(s) = f[e] + Sum(s \ {e})
    OBVIOUS
  <2> DEFINE p == Pick(s)
  <2>1. p \in s
    BY DEF Pick
  <2>2. Sum(s) = f[p] + Sum(s \ {p})
    BY <1>2
  <2> HIDE DEF p
  <2>3. CASE p = e
    BY <2>2, <2>3
  <2>4. CASE p # e
    <3>1. n \in Nat /\ IsFiniteSet(s)
      BY <1>0
    <3>2. Cardinality(s \ {p}) = n
      <4>1. Cardinality(s \ {p}) \in Nat /\ Cardinality(s \ {p}) + 1 = Cardinality(s)
        BY <2>1, <3>1, OneLess
      <4> QED
        BY <3>1, <4>1
    <3>3. Cardinality(s \ {e}) = n
      <4>1. Cardinality(s \ {e}) \in Nat /\ Cardinality(s \ {e}) + 1 = Cardinality(s)
        BY <2>1, <3>1, OneLess
      <4> QED
        BY <3>1, <4>1
    <3>4. Sum(s \ {p}) = f[e] + Sum((s \ {p}) \ {e})
      BY <2>4, <3>2
    <3>5. Sum(s \ {e}) = f[p] + Sum((s \ {e}) \ {p})
      BY <2>1, <2>4, <3>3
    <3>6. (s \ {p}) \ {e} = (s \ {e}) \ {p}
      OBVIOUS
    <3>7. f[e] \in Int /\ f[p] \in Int /\ Sum((s \ {p}) \ {e}) \in Int
      BY <1>1, <2>1
    <3> QED
      BY <2>2, <3>4, <3>5, <3>6, <3>7
  <2> QED
    BY <2>3, <2>4
<1>5. T = Nat
  <2> HIDE DEF T
  <2>1. T \in SUBSET Nat
    BY DEF T
  <2> QED
    BY <1>3, <1>4, <2>1, Induct
<1>6. Cardinality(S) \in T
  BY <1>0, <1>5
<1>7. Sum(S) = f[a] + Sum(S \ {a})
  BY <1>6
<1> QED
  BY <1>7 DEF Sum

-----------------------------------------------------------------------------
(* How sums change.                                                        *)

\* An element that is added adds its summand.
LEMMA SumAdded ==
    ASSUME NEW S, IsFiniteSet(S), NEW a, a \notin S,
           NEW f, \A e \in S \cup {a} : f[e] \in Int
    PROVE  /\ IsFiniteSet(S \cup {a})
           /\ SumFunctionOnSet(f, S \cup {a}) = f[a] + SumFunctionOnSet(f, S)
<1>1. IsFiniteSet(S \cup {a})
  BY FS_AddElement
<1>2. (S \cup {a}) \ {a} = S
  OBVIOUS
<1>3. a \in S \cup {a}
  OBVIOUS
<1>4. SumFunctionOnSet(f, S \cup {a}) = f[a] + SumFunctionOnSet(f, (S \cup {a}) \ {a})
  BY <1>1, <1>3, SumSplit
<1> QED
  BY <1>1, <1>2, <1>4

\* Natural numbers add up to a natural number.
LEMMA SumNat ==
    ASSUME NEW S, IsFiniteSet(S), NEW f, \A e \in S : f[e] \in Nat
    PROVE  SumFunctionOnSet(f, S) \in Nat
<1> DEFINE C == {A \in SUBSET S : SumFunctionOnSet(f, A) \in Nat}
<1>0. \A A \in SUBSET S : IsFiniteSet(A)
  BY FS_Subset
<1>1. {} \in C
  BY SumEmpty
<1>2. ASSUME NEW A \in C, NEW a \in S PROVE A \cup {a} \in C
  <2>1. CASE a \in A
    <3>1. A \cup {a} = A
      BY <2>1
    <3> QED
      BY <3>1
  <2>2. CASE a \notin A
    <3>0. \A e \in A \cup {a} : f[e] \in Int
      OBVIOUS
    <3>1. SumFunctionOnSet(f, A \cup {a}) = f[a] + SumFunctionOnSet(f, A)
      BY <1>0, <2>2, <3>0, SumAdded
    <3>2. f[a] \in Nat /\ SumFunctionOnSet(f, A) \in Nat /\ A \cup {a} \in SUBSET S
      OBVIOUS
    <3> QED
      BY <3>1, <3>2
  <2> QED
    BY <2>1, <2>2
<1>3. S \in C
  <2> HIDE DEF C
  <2>1. C \in SUBSET SUBSET S
    BY DEF C
  <2> QED
    BY <1>1, <1>2, <2>1, FiniteInduct
<1> QED
  BY <1>3

\* The sum of sums.
LEMMA SumPlus ==
    ASSUME NEW S, IsFiniteSet(S), NEW f, NEW g, NEW h,
           \A e \in S : f[e] \in Int /\ g[e] \in Int /\ h[e] = f[e] + g[e]
    PROVE  SumFunctionOnSet(h, S) = SumFunctionOnSet(f, S) + SumFunctionOnSet(g, S)
<1> DEFINE C == {A \in SUBSET S : SumFunctionOnSet(h, A) = SumFunctionOnSet(f, A) + SumFunctionOnSet(g, A)}
<1>0. \A A \in SUBSET S : IsFiniteSet(A)
  BY FS_Subset
<1>1. {} \in C
  BY SumEmpty
<1>2. ASSUME NEW A \in C, NEW a \in S PROVE A \cup {a} \in C
  <2>1. CASE a \in A
    <3>1. A \cup {a} = A
      BY <2>1
    <3> QED
      BY <3>1
  <2>2. CASE a \notin A
    <3>0. \A e \in S : f[e] \in Int /\ g[e] \in Int /\ h[e] \in Int
      OBVIOUS
    <3>1. SumFunctionOnSet(f, A \cup {a}) = f[a] + SumFunctionOnSet(f, A)
      BY <1>0, <2>2, <3>0, SumAdded
    <3>2. SumFunctionOnSet(g, A \cup {a}) = g[a] + SumFunctionOnSet(g, A)
      BY <1>0, <2>2, <3>0, SumAdded
    <3>3. SumFunctionOnSet(h, A \cup {a}) = h[a] + SumFunctionOnSet(h, A)
      BY <1>0, <2>2, <3>0, SumAdded
    <3>4. SumFunctionOnSet(f, A) \in Int /\ SumFunctionOnSet(g, A) \in Int
      BY <1>0, <3>0, SumInt
    <3>5. f[a] \in Int /\ g[a] \in Int /\ h[a] = f[a] + g[a] /\ A \cup {a} \in SUBSET S
      OBVIOUS
    <3>6. SumFunctionOnSet(h, A) = SumFunctionOnSet(f, A) + SumFunctionOnSet(g, A)
      OBVIOUS
    <3>7. SumFunctionOnSet(h, A \cup {a}) = SumFunctionOnSet(f, A \cup {a}) + SumFunctionOnSet(g, A \cup {a})
      BY <3>1, <3>2, <3>3, <3>4, <3>5, <3>6
    <3> QED
      BY <3>5, <3>7
  <2> QED
    BY <2>1, <2>2
<1>3. S \in C
  <2> HIDE DEF C
  <2>1. C \in SUBSET SUBSET S
    BY DEF C
  <2> QED
    BY <1>1, <1>2, <2>1, FiniteInduct
<1> QED
  BY <1>3

\* Greater summands have a greater sum.
LEMMA SumMonotone ==
    ASSUME NEW S, IsFiniteSet(S), NEW f, NEW g,
           \A e \in S : f[e] \in Int /\ g[e] \in Int /\ f[e] <= g[e]
    PROVE  SumFunctionOnSet(f, S) <= SumFunctionOnSet(g, S)
<1> DEFINE C == {A \in SUBSET S : SumFunctionOnSet(f, A) <= SumFunctionOnSet(g, A)}
<1>0. \A A \in SUBSET S : IsFiniteSet(A)
  BY FS_Subset
<1>1. {} \in C
  BY SumEmpty
<1>2. ASSUME NEW A \in C, NEW a \in S PROVE A \cup {a} \in C
  <2>1. CASE a \in A
    <3>1. A \cup {a} = A
      BY <2>1
    <3> QED
      BY <3>1
  <2>2. CASE a \notin A
    <3>1. SumFunctionOnSet(f, A \cup {a}) = f[a] + SumFunctionOnSet(f, A)
      BY <1>0, <2>2, SumAdded
    <3>2. SumFunctionOnSet(g, A \cup {a}) = g[a] + SumFunctionOnSet(g, A)
      BY <1>0, <2>2, SumAdded
    <3>3. SumFunctionOnSet(f, A) \in Int /\ SumFunctionOnSet(g, A) \in Int
      BY <1>0, SumInt
    <3>4. f[a] \in Int /\ g[a] \in Int /\ f[a] <= g[a] /\ A \cup {a} \in SUBSET S
      OBVIOUS
    <3>5. SumFunctionOnSet(f, A) <= SumFunctionOnSet(g, A)
      OBVIOUS
    <3>6. SumFunctionOnSet(f, A \cup {a}) <= SumFunctionOnSet(g, A \cup {a})
      BY <3>1, <3>2, <3>3, <3>4, <3>5
    <3> QED
      BY <3>4, <3>6
  <2> QED
    BY <2>1, <2>2
<1>3. S \in C
  <2> HIDE DEF C
  <2>1. C \in SUBSET SUBSET S
    BY DEF C
  <2> QED
    BY <1>1, <1>2, <2>1, FiniteInduct
<1> QED
  BY <1>3

\* The same summands have the same sum.
LEMMA SumSame ==
    ASSUME NEW S, IsFiniteSet(S), NEW f, NEW g, \A e \in S : f[e] \in Int /\ g[e] = f[e]
    PROVE  SumFunctionOnSet(g, S) = SumFunctionOnSet(f, S)
<1>1. SumFunctionOnSet(f, S) <= SumFunctionOnSet(g, S) /\ SumFunctionOnSet(g, S) <= SumFunctionOnSet(f, S)
  BY SumMonotone
<1>2. SumFunctionOnSet(f, S) \in Int /\ SumFunctionOnSet(g, S) \in Int
  BY SumInt
<1> QED
  BY <1>1, <1>2

\* When one summand changes, the sum changes as much.
LEMMA SumAt ==
    ASSUME NEW S, IsFiniteSet(S), NEW a \in S, NEW f, NEW g,
           \A e \in S : f[e] \in Int /\ g[e] \in Int, \A e \in S \ {a} : g[e] = f[e]
    PROVE  SumFunctionOnSet(g, S) = SumFunctionOnSet(f, S) + (g[a] - f[a])
<1>1. IsFiniteSet(S \ {a})
  BY FS_Subset
<1>2. SumFunctionOnSet(f, S) = f[a] + SumFunctionOnSet(f, S \ {a})
  BY SumSplit
<1>3. SumFunctionOnSet(g, S) = g[a] + SumFunctionOnSet(g, S \ {a})
  BY SumSplit
<1>4. SumFunctionOnSet(g, S \ {a}) = SumFunctionOnSet(f, S \ {a})
  BY <1>1, SumSame
<1>5. SumFunctionOnSet(f, S \ {a}) \in Int
  BY <1>1, SumInt
<1>6. f[a] \in Int /\ g[a] \in Int
  OBVIOUS
<1> QED
  BY <1>2, <1>3, <1>4, <1>5, <1>6

\* Zeroes add up to zero.
LEMMA SumZero ==
    ASSUME NEW S, IsFiniteSet(S), NEW f, \A e \in S : f[e] = 0
    PROVE  SumFunctionOnSet(f, S) = 0
<1> DEFINE C == {A \in SUBSET S : SumFunctionOnSet(f, A) = 0}
<1>0. \A A \in SUBSET S : IsFiniteSet(A)
  BY FS_Subset
<1>1. {} \in C
  BY SumEmpty
<1>2. ASSUME NEW A \in C, NEW a \in S PROVE A \cup {a} \in C
  <2>1. CASE a \in A
    <3>1. A \cup {a} = A
      BY <2>1
    <3> QED
      BY <3>1
  <2>2. CASE a \notin A
    <3>0. \A e \in A \cup {a} : f[e] \in Int
      OBVIOUS
    <3>1. SumFunctionOnSet(f, A \cup {a}) = f[a] + SumFunctionOnSet(f, A)
      BY <1>0, <2>2, <3>0, SumAdded
    <3>2. f[a] = 0 /\ SumFunctionOnSet(f, A) = 0 /\ A \cup {a} \in SUBSET S
      OBVIOUS
    <3> QED
      BY <3>1, <3>2
  <2> QED
    BY <2>1, <2>2
<1>3. S \in C
  <2> HIDE DEF C
  <2>1. C \in SUBSET SUBSET S
    BY DEF C
  <2> QED
    BY <1>1, <1>2, <2>1, FiniteInduct
<1> QED
  BY <1>3

\* A sum with one summand only.
LEMMA SumPoint ==
    ASSUME NEW S, IsFiniteSet(S), NEW a \in S, NEW f, f[a] \in Int,
           \A e \in S \ {a} : f[e] = 0
    PROVE  SumFunctionOnSet(f, S) = f[a]
<1>1. IsFiniteSet(S \ {a})
  BY FS_Subset
<1>2. \A e \in S : f[e] \in Int
  OBVIOUS
<1>3. SumFunctionOnSet(f, S) = f[a] + SumFunctionOnSet(f, S \ {a})
  BY <1>2, SumSplit
<1>4. SumFunctionOnSet(f, S \ {a}) = 0
  BY <1>1, SumZero
<1> QED
  BY <1>3, <1>4

\* The images of finitely many elements are finitely many.
LEMMA Renamed ==
    ASSUME NEW S, IsFiniteSet(S), NEW r
    PROVE  IsFiniteSet({r[e] : e \in S})
<1> DEFINE F == [e \in S |-> r[e]]
           R == {r[e] : e \in S}
<1>1. F \in Surjection(S, R)
  BY DEF Surjection
<1> HIDE DEF F, R
<1>2. IsFiniteSet(R)
  BY <1>1, FS_Surjection
<1> QED
  BY <1>2 DEF R

\* Renaming the elements keeps the sum.
LEMMA SumMoved ==
    ASSUME NEW S, IsFiniteSet(S), NEW r, NEW f, NEW g,
           \A e \in S : f[e] \in Int /\ g[r[e]] = f[e],
           \A d, e \in S : r[d] = r[e] => d = e
    PROVE  SumFunctionOnSet(g, {r[e] : e \in S}) = SumFunctionOnSet(f, S)
<1> DEFINE C == {A \in SUBSET S : SumFunctionOnSet(g, {r[e] : e \in A}) = SumFunctionOnSet(f, A)}
<1>0. \A A \in SUBSET S : IsFiniteSet(A)
  BY FS_Subset
<1>1. {} \in C
  <2>1. {r[e] : e \in {}} = {}
    OBVIOUS
  <2> QED
    BY <2>1, SumEmpty
<1>2. ASSUME NEW A \in C, NEW a \in S PROVE A \cup {a} \in C
  <2>1. CASE a \in A
    <3>1. A \cup {a} = A
      BY <2>1
    <3> QED
      BY <3>1
  <2>2. CASE a \notin A
    <3> DEFINE R == {r[e] : e \in A}
    <3>1. SumFunctionOnSet(f, A \cup {a}) = f[a] + SumFunctionOnSet(f, A)
      BY <1>0, <2>2, SumAdded
    <3>2. {r[e] : e \in A \cup {a}} = R \cup {r[a]}
      OBVIOUS
    <3>3. IsFiniteSet(R)
      BY <1>0, Renamed
    <3>4. r[a] \notin R
      BY <2>2
    <3>5. \A e \in R \cup {r[a]} : g[e] \in Int
      OBVIOUS
    <3>6. SumFunctionOnSet(g, R \cup {r[a]}) = g[r[a]] + SumFunctionOnSet(g, R)
      BY <3>3, <3>4, <3>5, SumAdded
    <3>7. SumFunctionOnSet(g, R) = SumFunctionOnSet(f, A) /\ g[r[a]] = f[a] /\ A \cup {a} \in SUBSET S
      OBVIOUS
    <3> HIDE DEF R
    <3> QED
      BY <3>1, <3>2, <3>6, <3>7
  <2> QED
    BY <2>1, <2>2
<1>3. S \in C
  <2> HIDE DEF C
  <2>1. C \in SUBSET SUBSET S
    BY DEF C
  <2> QED
    BY <1>1, <1>2, <2>1, FiniteInduct
<1> QED
  BY <1>3

\* Rows first or columns first.
LEMMA SumSwap ==
    ASSUME NEW S, IsFiniteSet(S), NEW D, IsFiniteSet(D), NEW f,
           \A e \in S, d \in D : f[e][d] \in Int
    PROVE  SumFunctionOnSet([e \in S |-> SumFunctionOnSet(f[e], D)], S)
             = SumFunctionOnSet([d \in D |-> SumFunctionOnSet([e \in S |-> f[e][d]], S)], D)
<1> DEFINE Row(A) == SumFunctionOnSet([e \in S |-> SumFunctionOnSet(f[e], D)], A)
           Column(A) == SumFunctionOnSet(
                          [d \in D |-> SumFunctionOnSet([e \in S |-> f[e][d]], A)], D)
           C == {A \in SUBSET S : Row(A) = Column(A)}
<1>0. \A A \in SUBSET S : IsFiniteSet(A)
  BY FS_Subset
<1>1. {} \in C
  <2>1. Row({}) = 0
    BY SumEmpty
  <2>2. \A d \in D : [k \in D |-> SumFunctionOnSet([e \in S |-> f[e][k]], {})][d] = 0
    BY SumEmpty
  <2>3. Column({}) = 0
    BY <2>2, SumZero
  <2> QED
    BY <2>1, <2>3
<1>2. ASSUME NEW A \in C, NEW a \in S PROVE A \cup {a} \in C
  <2>1. CASE a \in A
    <3>1. A \cup {a} = A
      BY <2>1
    <3> QED
      BY <3>1
  <2>2. CASE a \notin A
    <3> DEFINE old == [d \in D |-> SumFunctionOnSet([e \in S |-> f[e][d]], A)]
               new == [d \in D |-> SumFunctionOnSet([e \in S |-> f[e][d]], A \cup {a})]
               row == [e \in S |-> SumFunctionOnSet(f[e], D)]
    <3>1. \A e \in S : row[e] \in Int
      BY SumInt
    <3>2. Row(A \cup {a}) = row[a] + Row(A)
      <4> HIDE DEF row
      <4>1. SumFunctionOnSet(row, A \cup {a}) = row[a] + SumFunctionOnSet(row, A)
        BY <1>0, <2>2, <3>1, SumAdded
      <4> QED
        BY <4>1 DEF row
    <3>3. ASSUME NEW d \in D
          PROVE  f[a][d] \in Int /\ old[d] \in Int /\ new[d] = f[a][d] + old[d]
      <4> DEFINE c == [e \in S |-> f[e][d]]
      <4>1. \A e \in S : c[e] \in Int
        OBVIOUS
      <4>2. c[a] = f[a][d]
        OBVIOUS
      <4>3. SumFunctionOnSet(c, A) \in Int /\ SumFunctionOnSet(c, A \cup {a}) = c[a] + SumFunctionOnSet(c, A)
        <5> HIDE DEF c
        <5> QED
          BY <1>0, <2>2, <4>1, SumAdded, SumInt
      <4> QED
        BY <4>1, <4>2, <4>3
    <3>4. Column(A) = SumFunctionOnSet(old, D) /\ Column(A \cup {a}) = SumFunctionOnSet(new, D)
      OBVIOUS
    <3>5. SumFunctionOnSet(new, D) = SumFunctionOnSet(f[a], D) + SumFunctionOnSet(old, D)
      <4> HIDE DEF new, old
      <4> QED
        BY <3>3, SumPlus
    <3>6. row[a] = SumFunctionOnSet(f[a], D) /\ Row(A) = Column(A) /\ A \cup {a} \in SUBSET S
      OBVIOUS
    <3> HIDE DEF row, new, old, Row, Column
    <3> QED
      BY <3>2, <3>4, <3>5, <3>6
  <2> QED
    BY <2>1, <2>2
<1>3. S \in C
  <2> HIDE DEF C
  <2>1. C \in SUBSET SUBSET S
    BY DEF C
  <2> QED
    BY <1>1, <1>2, <2>1, FiniteInduct
<1> QED
  BY <1>3
====
