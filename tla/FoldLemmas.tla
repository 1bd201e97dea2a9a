----------------------------- MODULE FoldLemmas -----------------------------
(***************************************************************************)
(* Lemmas about sums over finite sets, recursion over 0..n and maxima, for *)
(* the theorems whose properties sum or replay rows.                       *)
(*                                                                         *)
(* All induction is over sets: the naturals are well founded, so a set of  *)
(* naturals has a smallest element, so a set with 0 and all successors is  *)
(* Nat.  A lemma by induction takes the set of the sizes for which its     *)
(* claim holds.  Recursive functions are shown to exist the same way.      *)
(***************************************************************************)
EXTENDS Integers, FiniteSetsExt, FiniteSetTheorems, WellFoundedInduction, TLAPS

\* m is smaller than n, as a relation: the pairs <<m, n>>.
LessThan == {p \in Nat \X Nat : p[1] < p[2]}

\* A set of naturals has a smallest element.
LEMMA SmallestOf ==
    ASSUME NEW T \in SUBSET Nat, T # {}
    PROVE  \E n \in T : \A m \in T : n <= m
<1>1. LessThan = OpToRel(<, Nat)
  BY Zenon DEF OpToRel, LessThan
<1>2. IsWellFoundedOn(LessThan, Nat)
  BY <1>1, NatLessThanWellFounded, Zenon
<1>3. PICK n \in T : \A m \in T : ~ (<<m, n>> \in LessThan)
  BY <1>2, WFMin, Zenon
<1>4. ASSUME NEW m \in T PROVE n <= m
  <2>1. m \in Nat /\ n \in Nat
    OBVIOUS
  <2>2. ~(m < n)
    BY <1>3, <2>1 DEF LessThan
  <2> QED BY <2>1, <2>2
<1> QED BY <1>4

\* A set of naturals that has 0 and every successor has them all.
LEMMA NatSetInduction ==
    ASSUME NEW N \in SUBSET Nat, 0 \in N, \A n \in N : n + 1 \in N
    PROVE  N = Nat
<1> SUFFICES ASSUME N # Nat PROVE FALSE
  OBVIOUS
<1>1. Nat \ N # {} /\ Nat \ N \in SUBSET Nat
  OBVIOUS
<1>2. PICK n \in Nat \ N : \A m \in Nat \ N : n <= m
  BY <1>1, SmallestOf
<1>3. n \in Nat /\ n # 0
  OBVIOUS
<1>4. n - 1 \in Nat \ N
  BY <1>3
<1> QED BY <1>2, <1>3, <1>4

\* A collection of sets with the empty set, and with each of its sets one element of S more,
\* has every finite S.
LEMMA FiniteSetInduction ==
    ASSUME NEW S, IsFiniteSet(S), NEW C, {} \in C,
           \A T \in SUBSET S : T \in C => \A x \in S \ T : T \cup {x} \in C
    PROVE  S \in C
<1> DEFINE N == {n \in Nat : \A T \in SUBSET S : Cardinality(T) = n => T \in C}
<1>f. ASSUME NEW T \in SUBSET S PROVE IsFiniteSet(T) /\ Cardinality(T) \in Nat
  BY FS_Subset, FS_CardinalityType
<1>1. 0 \in N
  BY <1>f, FS_EmptySet
<1>2. ASSUME NEW n \in N PROVE n + 1 \in N
  <2> SUFFICES ASSUME NEW T \in SUBSET S, Cardinality(T) = n + 1 PROVE T \in C
    OBVIOUS
  <2>1. n \in Nat
    OBVIOUS
  <2>2. T # {}
    BY <2>1, FS_EmptySet
  <2>3. PICK x \in T : TRUE
    BY <2>2
  <2>4. Cardinality(T \ {x}) = n
    BY <1>f, <2>1, <2>3, FS_RemoveElement
  <2>5. T \ {x} \in C
    BY <2>4
  <2>6. T = (T \ {x}) \cup {x}
    BY <2>3
  <2> QED BY <2>5, <2>6
<1>3. N = Nat
  <2> HIDE DEF N
  <2>1. N \in SUBSET Nat BY DEF N
  <2> QED BY <1>1, <1>2, <2>1, NatSetInduction
<1> QED BY <1>3, <1>f

-----------------------------------------------------------------------------
(* The recursion behind a sum: h[s] is the sum of f over s, for s in S.    *)

Pick(s) == CHOOSE x \in s : TRUE

Sums(f, S, h) ==
    h = [s \in SUBSET S |-> IF s = {} THEN 0 ELSE f[Pick(s)] + h[s \ {Pick(s)}]]

\* That recursion has a solution.
LEMMA SumsExist ==
    ASSUME NEW f, NEW S, IsFiniteSet(S)
    PROVE  \E h : Sums(f, S, h)
<1> DEFINE D(n) == {s \in SUBSET S : Cardinality(s) <= n}
           Body(h, s) == IF s = {} THEN 0 ELSE f[Pick(s)] + h[s \ {Pick(s)}]
           N == {n \in Nat : \E h : h = [s \in D(n) |-> Body(h, s)]}
<1>f. ASSUME NEW T \in SUBSET S PROVE IsFiniteSet(T) /\ Cardinality(T) \in Nat
  BY FS_Subset, FS_CardinalityType
<1>p. ASSUME NEW n \in Nat, NEW s \in D(n + 1), s # {}
      PROVE  s \ {Pick(s)} \in D(n)
  <2>1. Pick(s) \in s BY <1>p DEF Pick
  <2>2. s \ {Pick(s)} \in SUBSET S
    OBVIOUS
  <2>3. Cardinality(s \ {Pick(s)}) = Cardinality(s) - 1
    BY <2>1, <1>f, FS_RemoveElement
  <2> QED BY <1>f, <2>2, <2>3
<1>1. 0 \in N
  <2> DEFINE h == [s \in D(0) |-> 0]
  <2>1. ASSUME NEW s \in D(0) PROVE s = {}
    BY <1>f, FS_EmptySet
  <2>2. h = [s \in D(0) |-> Body(h, s)]
    BY <2>1
  <2> QED BY <2>2
<1>2. ASSUME NEW n \in N PROVE n + 1 \in N
  <2>1. n \in Nat
    OBVIOUS
  <2>2. PICK g : g = [s \in D(n) |-> Body(g, s)]
    OBVIOUS
  <2> DEFINE h == [s \in D(n + 1) |-> Body(g, s)]
  <2>3. ASSUME NEW s \in D(n) PROVE s \in D(n + 1) /\ h[s] = g[s]
    <3>1. s \in D(n + 1)
      BY <1>f, <2>1
    <3>2. g[s] = Body(g, s)
      BY <2>2
    <3> QED BY <3>1, <3>2
  <2>4. ASSUME NEW s \in D(n + 1) PROVE h[s] = Body(h, s)
    <3>1. CASE s = {}
      BY <3>1
    <3>2. CASE s # {}
      <4>1. s \ {Pick(s)} \in D(n) BY <1>p, <2>1, <3>2
      <4>2. h[s \ {Pick(s)}] = g[s \ {Pick(s)}] BY <4>1, <2>3
      <4>3. h[s] = f[Pick(s)] + g[s \ {Pick(s)}] BY <3>2
      <4> HIDE DEF h
      <4> QED BY <3>2, <4>2, <4>3
    <3> QED BY <3>1, <3>2
  <2>5. h = [s \in D(n + 1) |-> Body(h, s)]
    <3>1. h = [s \in D(n + 1) |-> h[s]]
      OBVIOUS
    <3> HIDE DEF h, Body
    <3> QED BY <2>4, <3>1
  <2> HIDE DEF h, D
  <2> QED BY <2>1, <2>5
<1>3. N = Nat
  <2> HIDE DEF N
  <2>1. N \in SUBSET Nat BY DEF N
  <2> QED BY <1>1, <1>2, <2>1, NatSetInduction
<1>4. Cardinality(S) \in N
  <2> HIDE DEF N
  <2> QED BY <1>3, <1>f
<1>5. D(Cardinality(S)) = SUBSET S
  BY <1>f, FS_Subset
<1> QED BY <1>4, <1>5 DEF Sums

\* The library's sum is a solution's value.
LEMMA SumFolds ==
    ASSUME NEW f, NEW S, IsFiniteSet(S)
    PROVE  \E h : Sums(f, S, h) /\ SumFunctionOnSet(f, S) = h[S]
<1> DEFINE h == CHOOSE g : Sums(f, S, g)
<1>1. Sums(f, S, h) BY SumsExist
<1>2. SumFunctionOnSet(f, S) = h[S]
  BY DEF SumFunctionOnSet, FoldFunctionOnSet, MapThenFoldSet, Sums, Pick
<1> QED BY <1>1, <1>2

\* Two sums agree where their terms do.
LEMMA SumsUnique ==
    ASSUME NEW f, NEW g, NEW S, NEW T, NEW h, NEW j, IsFiniteSet(S),
           Sums(f, S, h), Sums(g, T, j),
           NEW U \in SUBSET (S \cap T), \A x \in U : f[x] = g[x]
    PROVE  h[U] = j[U]
<1> DEFINE N == {n \in Nat : \A s \in SUBSET U : Cardinality(s) = n => h[s] = j[s]}
<1>f. ASSUME NEW s \in SUBSET U PROVE IsFiniteSet(s) /\ Cardinality(s) \in Nat
  BY FS_Subset, FS_CardinalityType
<1>1. 0 \in N
  <2>1. h[{}] = 0 /\ j[{}] = 0 BY DEF Sums
  <2> QED BY <1>f, <2>1, FS_EmptySet
<1>2. ASSUME NEW n \in N PROVE n + 1 \in N
  <2> SUFFICES ASSUME NEW s \in SUBSET U, Cardinality(s) = n + 1 PROVE h[s] = j[s]
    OBVIOUS
  <2> DEFINE p == Pick(s)
  <2>1. n \in Nat
    OBVIOUS
  <2>2. s # {}
    <3>1. n + 1 # 0 BY <2>1
    <3> QED BY <3>1, FS_EmptySet, Zenon
  <2>3. p \in s BY <2>2 DEF Pick
  <2>4. Cardinality(s \ {p}) = n BY <1>f, <2>1, <2>3, FS_RemoveElement
  <2>5. h[s \ {p}] = j[s \ {p}] BY <2>4
  <2>6. h[s] = f[p] + h[s \ {p}] BY <2>2 DEF Sums
  <2>7. j[s] = g[p] + j[s \ {p}] BY <2>2 DEF Sums
  <2>8. f[p] = g[p] BY <2>3
  <2> QED BY <2>5, <2>6, <2>7, <2>8
<1>3. N = Nat
  <2> HIDE DEF N
  <2>1. N \in SUBSET Nat BY DEF N
  <2> QED BY <1>1, <1>2, <2>1, NatSetInduction
<1> QED BY <1>3, <1>f

\* A sum of integers is one, and may be taken from any of its terms.
LEMMA SumsRemove ==
    ASSUME NEW f, NEW S, NEW h, IsFiniteSet(S), Sums(f, S, h), \A x \in S : f[x] \in Int
    PROVE  \A s \in SUBSET S : h[s] \in Int /\ \A x \in s : h[s] = f[x] + h[s \ {x}]
<1> DEFINE Good(s) == h[s] \in Int /\ \A x \in s : h[s] = f[x] + h[s \ {x}]
           N == {n \in Nat : \A s \in SUBSET S : Cardinality(s) <= n => Good(s)}
<1>f. ASSUME NEW s \in SUBSET S PROVE IsFiniteSet(s) /\ Cardinality(s) \in Nat
  BY FS_Subset, FS_CardinalityType
<1>0. Good({})
  BY DEF Sums
<1>1. 0 \in N
  <2>1. ASSUME NEW s \in SUBSET S, Cardinality(s) <= 0 PROVE s = {}
    BY <1>f, <2>1, FS_EmptySet
  <2> QED BY <1>0, <2>1
<1>2. ASSUME NEW n \in N PROVE n + 1 \in N
  <2> SUFFICES ASSUME NEW s \in SUBSET S, Cardinality(s) <= n + 1 PROVE Good(s)
    OBVIOUS
  <2>0. CASE s = {} BY <1>0, <2>0
  <2> SUFFICES ASSUME s # {} PROVE Good(s)
    BY <2>0
  <2> DEFINE p == Pick(s)
  <2>1. n \in Nat
    OBVIOUS
  <2>2. \A t \in SUBSET S : Cardinality(t) <= n => Good(t)
    OBVIOUS
  <2>3. p \in s BY DEF Pick
  <2>4. ASSUME NEW x \in s PROVE Good(s \ {x})
    <3>1. Cardinality(s \ {x}) = Cardinality(s) - 1 BY <1>f, FS_RemoveElement
    <3>2. Cardinality(s \ {x}) <= n BY <1>f, <2>1, <3>1
    <3> QED BY <2>2, <3>2
  <2>5. h[s] = f[p] + h[s \ {p}] BY DEF Sums
  <2>6. h[s] \in Int
    <3>1. h[s \ {p}] \in Int BY <2>3, <2>4
    <3>2. f[p] \in Int BY <2>3
    <3> QED BY <2>5, <3>1, <3>2
  <2>7. ASSUME NEW x \in s, x # p PROVE h[s] = f[x] + h[s \ {x}]
    <3> DEFINE r == (s \ {p}) \ {x}
    <3>1. x \in s \ {p} /\ p \in s \ {x} /\ (s \ {x}) \ {p} = r BY <2>3, <2>7
    <3>2. h[s \ {p}] = f[x] + h[r] BY <2>3, <2>4, <3>1
    <3>3. h[s \ {x}] = f[p] + h[r] BY <2>4, <3>1
    <3>4. h[s \ {x}] \in Int /\ h[s \ {p}] \in Int BY <2>3, <2>4
    <3>5. f[x] \in Int /\ f[p] \in Int BY <2>3
    <3>6. h[r] \in Int
      <4>1. Cardinality(r) <= n
        <5>1. Cardinality(s \ {p}) = Cardinality(s) - 1 BY <1>f, <2>3, FS_RemoveElement
        <5>2. Cardinality(r) = Cardinality(s \ {p}) - 1 BY <1>f, <3>1, FS_RemoveElement
        <5> QED BY <1>f, <2>1, <5>1, <5>2
      <4> QED BY <2>2, <4>1
    <3> QED BY <2>5, <3>2, <3>3, <3>4, <3>5, <3>6
  <2> QED BY <2>5, <2>6, <2>7
<1>3. N = Nat
  <2> HIDE DEF N
  <2>1. N \in SUBSET Nat BY DEF N
  <2> QED BY <1>1, <1>2, <2>1, NatSetInduction
<1> QED BY <1>3, <1>f

-----------------------------------------------------------------------------
(* Finite sums: SumFunctionOnSet(f, S) is the sum of f[x] over x in S.     *)

\* The empty sum.
LEMMA SumEmpty == \A f : SumFunctionOnSet(f, {}) = 0
<1> SUFFICES ASSUME NEW f PROVE SumFunctionOnSet(f, {}) = 0
  OBVIOUS
<1>1. PICK h : Sums(f, {}, h) /\ SumFunctionOnSet(f, {}) = h[{}]
  BY SumFolds, FS_EmptySet
<1> QED BY <1>1 DEF Sums

\* A sum depends on its terms only.
LEMMA SumAgree ==
    ASSUME NEW f, NEW g, NEW S, IsFiniteSet(S), \A x \in S : f[x] = g[x]
    PROVE  SumFunctionOnSet(f, S) = SumFunctionOnSet(g, S)
<1>1. PICK h : Sums(f, S, h) /\ SumFunctionOnSet(f, S) = h[S]
  BY SumFolds
<1>2. PICK j : Sums(g, S, j) /\ SumFunctionOnSet(g, S) = j[S]
  BY SumFolds
<1>3. h[S] = j[S]
  BY <1>1, <1>2, SumsUnique, S \in SUBSET (S \cap S)
<1> QED BY <1>1, <1>2, <1>3

\* A sum of integers is an integer.
LEMMA SumIsInt ==
    ASSUME NEW f, NEW S, IsFiniteSet(S), \A x \in S : f[x] \in Int
    PROVE  SumFunctionOnSet(f, S) \in Int
<1>1. PICK h : Sums(f, S, h) /\ SumFunctionOnSet(f, S) = h[S]
  BY SumFolds
<1> QED BY <1>1, SumsRemove

\* Any term may be taken out first.
LEMMA SumRemove ==
    ASSUME NEW f, NEW S, IsFiniteSet(S), \A x \in S : f[x] \in Int, NEW x \in S
    PROVE  SumFunctionOnSet(f, S) = f[x] + SumFunctionOnSet(f, S \ {x})
<1> DEFINE R == S \ {x}
<1>1. PICK h : Sums(f, S, h) /\ SumFunctionOnSet(f, S) = h[S]
  BY SumFolds
<1>2. IsFiniteSet(R)
  BY FS_RemoveElement
<1>3. PICK j : Sums(f, R, j) /\ SumFunctionOnSet(f, R) = j[R]
  BY <1>2, SumFolds
<1>4. h[R] = j[R]
  BY <1>1, <1>3, SumsUnique, R \in SUBSET (S \cap R)
<1>5. h[S] = f[x] + h[R]
  BY <1>1, SumsRemove
<1> QED BY <1>1, <1>3, <1>4, <1>5

\* One more term.
LEMMA SumInsert ==
    ASSUME NEW f, NEW S, IsFiniteSet(S), NEW x, x \notin S, \A y \in S \cup {x} : f[y] \in Int
    PROVE  SumFunctionOnSet(f, S \cup {x}) = f[x] + SumFunctionOnSet(f, S)
<1> DEFINE T == S \cup {x}
<1>1. IsFiniteSet(T) BY FS_AddElement
<1>2. T \ {x} = S
  OBVIOUS
<1>3. x \in T
  OBVIOUS
<1>4. \A y \in T : f[y] \in Int
  OBVIOUS
<1> HIDE DEF T
<1>5. SumFunctionOnSet(f, T) = f[x] + SumFunctionOnSet(f, T \ {x})
  BY <1>1, <1>3, <1>4, SumRemove
<1> QED BY <1>2, <1>5 DEF T

\* The sum over a function's whole domain, with one argument more.
LEMMA SumFunctionInsert ==
    ASSUME NEW f, NEW g, IsFiniteSet(DOMAIN g), NEW x, x \notin DOMAIN g,
           DOMAIN f = DOMAIN g \cup {x}, \A y \in DOMAIN f : f[y] \in Int,
           \A y \in DOMAIN g : f[y] = g[y]
    PROVE  SumFunction(f) = f[x] + SumFunction(g) /\ SumFunction(g) \in Int
<1> DEFINE S == DOMAIN g
<1>1. SumFunctionOnSet(f, S \cup {x}) = f[x] + SumFunctionOnSet(f, S)
  BY SumInsert
<1>2. SumFunctionOnSet(f, S) = SumFunctionOnSet(g, S)
  BY SumAgree
<1>3. SumFunctionOnSet(g, S) \in Int
  BY SumIsInt
<1> QED BY <1>1, <1>2, <1>3 DEF SumFunction

\* A sum of naturals is one.
LEMMA SumIsNat ==
    ASSUME NEW f, NEW S, IsFiniteSet(S), \A x \in S : f[x] \in Nat
    PROVE  SumFunctionOnSet(f, S) \in Nat
<1> DEFINE C == {s \in SUBSET S : SumFunctionOnSet(f, s) \in Nat}
<1>1. {} \in C BY SumEmpty
<1>2. ASSUME NEW s \in SUBSET S, s \in C, NEW x \in S \ s PROVE s \cup {x} \in C
  <2>1. IsFiniteSet(s) BY FS_Subset
  <2>2. \A y \in s \cup {x} : f[y] \in Int
    OBVIOUS
  <2>3. SumFunctionOnSet(f, s \cup {x}) = f[x] + SumFunctionOnSet(f, s)
    BY <2>1, <2>2, SumInsert
  <2>4. f[x] \in Nat /\ SumFunctionOnSet(f, s) \in Nat BY <1>2
  <2> QED BY <2>3, <2>4
<1>3. S \in C
  <2> HIDE DEF C
  <2> QED BY <1>1, <1>2, FiniteSetInduction
<1> QED BY <1>3

\* A common factor.
LEMMA SumScale ==
    ASSUME NEW f, NEW g, NEW S, IsFiniteSet(S), NEW c \in Int,
           \A x \in S : f[x] \in Int /\ g[x] = c * f[x]
    PROVE  SumFunctionOnSet(g, S) = c * SumFunctionOnSet(f, S)
<1> DEFINE C == {s \in SUBSET S : SumFunctionOnSet(g, s) = c * SumFunctionOnSet(f, s)}
<1>1. {} \in C BY SumEmpty
<1>2. ASSUME NEW s \in SUBSET S, s \in C, NEW x \in S \ s PROVE s \cup {x} \in C
  <2>1. IsFiniteSet(s) BY FS_Subset
  <2>2. \A y \in s \cup {x} : f[y] \in Int /\ g[y] \in Int
    OBVIOUS
  <2>3. SumFunctionOnSet(f, s \cup {x}) = f[x] + SumFunctionOnSet(f, s)
    BY <2>1, <2>2, SumInsert
  <2>4. SumFunctionOnSet(g, s \cup {x}) = g[x] + SumFunctionOnSet(g, s)
    BY <2>1, <2>2, SumInsert
  <2>5. SumFunctionOnSet(f, s) \in Int BY <2>1, <2>2, SumIsInt
  <2>6. f[x] \in Int /\ g[x] = c * f[x]
    OBVIOUS
  <2>7. SumFunctionOnSet(g, s) = c * SumFunctionOnSet(f, s) BY <1>2
  <2>8. \A a, b \in Int : c * (a + b) = c * a + c * b
    OBVIOUS
  <2> QED BY <2>3, <2>4, <2>5, <2>6, <2>7, <2>8
<1>3. S \in C
  <2> HIDE DEF C
  <2> QED BY <1>1, <1>2, FiniteSetInduction
<1> QED BY <1>3

-----------------------------------------------------------------------------
(* Recursion over 0..n, and the largest of a set.                          *)

\* A subset of 0..n with 0 and with every successor has them all.
LEMMA IntervalInduction ==
    ASSUME NEW n \in Nat, NEW N \in SUBSET (0..n), 0 \in N, \A m \in N : m < n => m + 1 \in N
    PROVE  N = 0..n
<1> DEFINE M == N \cup {m \in Nat : m > n}
<1>1. M \in SUBSET Nat /\ 0 \in M
  <2>1. \A x \in M : x \in Nat
    OBVIOUS
  <2> QED BY <2>1
<1>2. ASSUME NEW m \in M PROVE m + 1 \in M
  <2>1. m \in Nat /\ m + 1 \in Nat
    OBVIOUS
  <2>2. CASE m + 1 > n BY <2>1, <2>2
  <2>3. CASE m + 1 <= n
    <3>1. m < n /\ ~(m > n) BY <2>1, <2>3
    <3>2. m \in N BY <3>1
    <3> QED BY <3>1, <3>2
  <2> QED BY <2>1, <2>2, <2>3
<1>3. M = Nat
  <2> HIDE DEF M
  <2> QED BY <1>1, <1>2, NatSetInduction
<1>4. ASSUME NEW x \in 0..n PROVE x \in N
  <2>1. x \in Nat /\ ~(x > n)
    OBVIOUS
  <2>2. x \in M BY <1>3, <2>1
  <2> QED BY <2>1, <2>2
<1> QED BY <1>4

\* h takes its first value from base and each later one from the one before it.
Stepwise(n, base, step, h) ==
    h = [d \in 0..n |-> IF d = 0 THEN base ELSE step[d][h[d - 1]]]

\* A function on 0..n whose value at d is a step from its value at d - 1 exists.
LEMMA RecursionExists ==
    ASSUME NEW n \in Nat, NEW base, NEW step
    PROVE  \E h : Stepwise(n, base, step, h)
<1> DEFINE Body(h, d) == IF d = 0 THEN base ELSE step[d][h[d - 1]]
           N == {m \in Nat : \E h : h = [d \in 0..m |-> Body(h, d)]}
<1>1. 0 \in N
  <2> DEFINE h == [d \in 0..0 |-> base]
  <2>1. h = [d \in 0..0 |-> Body(h, d)]
    OBVIOUS
  <2> QED BY <2>1
<1>2. ASSUME NEW m \in N PROVE m + 1 \in N
  <2>1. m \in Nat
    OBVIOUS
  <2>2. PICK g : g = [d \in 0..m |-> Body(g, d)]
    OBVIOUS
  <2> DEFINE h == [d \in 0..(m + 1) |-> Body(g, d)]
  <2>3. ASSUME NEW d \in 0..m PROVE h[d] = g[d]
    <3>1. d \in 0..(m + 1) BY <2>1
    <3>2. g[d] = Body(g, d) BY <2>2
    <3> QED BY <3>1, <3>2
  <2>4. ASSUME NEW d \in 0..(m + 1) PROVE h[d] = Body(h, d)
    <3>1. CASE d = 0 BY <3>1
    <3>2. CASE d # 0
      <4>1. d - 1 \in 0..m BY <2>1, <3>2
      <4>2. h[d - 1] = g[d - 1] BY <2>3, <4>1
      <4>3. h[d] = step[d][g[d - 1]] BY <3>2
      <4> HIDE DEF h
      <4> QED BY <3>2, <4>2, <4>3
    <3> QED BY <3>1, <3>2
  <2>5. h = [d \in 0..(m + 1) |-> Body(h, d)]
    <3>1. h = [d \in 0..(m + 1) |-> h[d]]
      OBVIOUS
    <3> HIDE DEF h, Body
    <3> QED BY <2>4, <3>1
  <2> HIDE DEF h
  <2> QED BY <2>1, <2>5
<1>3. N = Nat
  <2> HIDE DEF N
  <2>1. N \in SUBSET Nat BY DEF N
  <2> QED BY <1>1, <1>2, <2>1, NatSetInduction
<1> QED BY <1>3 DEF Stepwise

\* Values taken step by step from a base stay in their set and form a function.
LEMMA StepwiseFunction ==
    ASSUME NEW n \in Nat, NEW V, NEW base \in V, NEW step \in [1..n -> [V -> V]]
    PROVE  \E h \in [0..n -> V] : Stepwise(n, base, step, h)
<1>1. PICK h : Stepwise(n, base, step, h)
  BY RecursionExists
<1>s. h = [d \in 0..n |-> IF d = 0 THEN base ELSE step[d][h[d - 1]]]
  BY <1>1 DEF Stepwise
<1>2. h[0] = base
  BY <1>s
<1>3. ASSUME NEW d \in 1..n PROVE h[d] = step[d][h[d - 1]]
  BY <1>s
<1> DEFINE N == {d \in 0..n : h[d] \in V}
<1>4. ASSUME NEW m \in N, m < n PROVE m + 1 \in N
  <2>1. m + 1 \in 1..n /\ m + 1 \in 0..n /\ (m + 1) - 1 = m /\ h[m] \in V BY <1>4
  <2>2. h[m + 1] = step[m + 1][h[m]] BY <1>3, <2>1
  <2>3. step[m + 1] \in [V -> V] BY <2>1
  <2> QED BY <2>1, <2>2, <2>3
<1>5. N = 0..n
  <2>1. 0 \in N BY <1>2
  <2>2. N \in SUBSET (0..n)
    OBVIOUS
  <2> HIDE DEF N
  <2> QED BY <1>4, <2>1, <2>2, IntervalInduction
<1>6. h \in [0..n -> V]
  <2>1. h = [d \in 0..n |-> h[d]] BY <1>s
  <2>2. \A d \in 0..n : h[d] \in V BY <1>5
  <2> QED BY <2>1, <2>2
<1> QED BY <1>1, <1>6

\* The largest element, once there is one.
LEMMA MaxIs ==
    ASSUME NEW S \in SUBSET Int, NEW m \in S, \A x \in S : m >= x
    PROVE  Max(S) = m
<1>1. Max(S) \in S /\ \A x \in S : Max(S) >= x
  BY DEF Max
<1>2. Max(S) \in Int /\ m \in Int
  BY <1>1
<1> QED BY <1>1, <1>2

\* A finite set of integers that is not empty has a largest element.
LEMMA MaxExists ==
    ASSUME NEW S \in SUBSET Int, IsFiniteSet(S), S # {}
    PROVE  Max(S) \in S /\ \A x \in S : Max(S) >= x
<1> DEFINE C == {T \in SUBSET S : T # {} => \E m \in T : \A x \in T : m >= x}
<1>1. {} \in C
  OBVIOUS
<1>2. ASSUME NEW T \in SUBSET S, T \in C, NEW y \in S \ T PROVE T \cup {y} \in C
  <2>1. CASE T = {}
    BY <2>1
  <2>2. CASE T # {}
    <3>1. PICK m \in T : \A x \in T : m >= x BY <1>2, <2>2
    <3>2. m \in Int /\ y \in Int /\ \A x \in T : x \in Int
      OBVIOUS
    <3>3. CASE m >= y
      <4>1. \A x \in T \cup {y} : m >= x BY <3>1, <3>3
      <4> QED BY <4>1
    <3>4. CASE ~(m >= y)
      <4>1. \A x \in T \cup {y} : y >= x BY <3>1, <3>2, <3>4
      <4> QED BY <4>1
    <3> QED BY <3>3, <3>4
  <2> QED BY <2>1, <2>2
<1>3. S \in C
  <2> HIDE DEF C
  <2> QED BY <1>1, <1>2, FiniteSetInduction
<1>4. PICK m \in S : \A x \in S : m >= x
  BY <1>3
<1> QED BY <1>4, MaxIs
=============================================================================
