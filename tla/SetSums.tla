------------------------------ MODULE SetSums -------------------------------
(***************************************************************************)
(* Sums over finite sets.  The models add up books and plans with the      *)
(* folds of the community modules, which take the members of a set in an   *)
(* order CHOOSE picks.  The lemmas say that the order does not matter, and *)
(* what a member more or less, or other names for the members, do to a     *)
(* sum; SumIsTotal joins them to what a fold computes.                     *)
(* The last section is of the members of a sequence at some of its places. *)
(***************************************************************************)
EXTENDS Integers, FiniteSetTheorems, WellFoundedInduction, TLAPS

\* The function w gives every member of the finite set S a weight.
Weighs(w, S) == IsFiniteSet(S) /\ \A x \in S : w[x] \in Int

\* A weight of the members of a set is one of the members of its parts.
LEMMA WeighsSubset ==
  ASSUME NEW S, NEW w, Weighs(w, S)
  PROVE  \A s \in SUBSET S : Weighs(w, s)
  BY FS_Subset DEF Weighs

\* The sum of a weight over a set: the recursion of MapThenSumSet, over a
\* function instead of an operator, so that lemmas can be stated about it.
Sums(w, S, g) ==
  /\ g \in [SUBSET S -> Int]
  /\ g[{}] = 0
  /\ \A s \in SUBSET S : s # {} =>
       g[s] = w[CHOOSE x \in s : TRUE] + g[s \ {CHOOSE x \in s : TRUE}]

\* A set of subsets of a finite set that is not empty has a smallest member.
LEMMA Smallest ==
  ASSUME NEW S, IsFiniteSet(S), NEW T \in SUBSET (SUBSET S), T # {}
  PROVE  \E s \in T : \A u \in T : u \subseteq s => u = s
<1>1. IsWellFoundedOn(StrictSubsetOrdering(S), SUBSET S)
  BY FS_StrictSubsetOrderingWellFounded, FS_FiniteSubsetsOfFinite
<1>2. PICK s \in T : \A u \in T : ~(<<u, s>> \in StrictSubsetOrdering(S))
  BY <1>1, WFMin
<1> QED
  BY <1>2 DEF StrictSubsetOrdering

\* A property of sets that holds as soon as it holds of all smaller ones.
LEMMA SetInduction ==
  ASSUME NEW S, IsFiniteSet(S), NEW Good,
         \A s \in SUBSET S : (\A x \in s : s \ {x} \in Good) => s \in Good
  PROVE  \A s \in SUBSET S : s \in Good
<1> SUFFICES ASSUME NEW s \in SUBSET S, s \notin Good
             PROVE  FALSE
  OBVIOUS
<1> DEFINE Bad == {u \in SUBSET S : u \notin Good}
<1>1. Bad # {} /\ Bad \in SUBSET (SUBSET S)
  OBVIOUS
<1> HIDE DEF Bad
<1>2. PICK u \in Bad : \A v \in Bad : v \subseteq u => v = u
  BY <1>1, Smallest
<1> USE DEF Bad
<1>3. ASSUME NEW x \in u PROVE u \ {x} \in Good
  <2>0. u \in SUBSET S /\ u \notin Good
    BY <1>2
  <2>1. u \ {x} \in SUBSET S /\ u \ {x} \subseteq u /\ u \ {x} # u
    BY <1>3, <2>0
  <2>2. u \ {x} \notin Bad
    BY <1>2, <2>1
  <2> QED
    BY <2>1, <2>2
<1>4. u \in SUBSET S /\ u \notin Good
  BY <1>2
<1> QED
  BY <1>3, <1>4

\* The order in which a sum takes its members makes no difference.
LEMMA SumTakesAny ==
  ASSUME NEW S, NEW w, Weighs(w, S), NEW g, Sums(w, S, g)
  PROVE  \A s \in SUBSET S : \A x \in s : g[s] = w[x] + g[s \ {x}]
<1> DEFINE Good == {s \in SUBSET S : \A x \in s : g[s] = w[x] + g[s \ {x}]}
<1>1. ASSUME NEW s \in SUBSET S, \A x \in s : s \ {x} \in Good
      PROVE  s \in Good
  <2> SUFFICES ASSUME NEW x \in s PROVE g[s] = w[x] + g[s \ {x}]
    OBVIOUS
  <2> DEFINE c == CHOOSE y \in s : TRUE
  <2>1. c \in s /\ g[s] = w[c] + g[s \ {c}]
    BY DEF Sums
  <2> HIDE DEF c
  <2> SUFFICES ASSUME c # x PROVE g[s] = w[x] + g[s \ {x}]
    BY <2>1
  <2>2. g[s \ {c}] = w[x] + g[(s \ {c}) \ {x}]
    BY <1>1, <2>1
  <2>3. g[s \ {x}] = w[c] + g[(s \ {x}) \ {c}]
    BY <1>1, <2>1
  <2>4. (s \ {c}) \ {x} = (s \ {x}) \ {c}
    OBVIOUS
  <2>5. /\ w[c] \in Int /\ w[x] \in Int /\ g[(s \ {x}) \ {c}] \in Int
    BY <2>1 DEF Sums, Weighs
  <2> DEFINE a == g[(s \ {x}) \ {c}]
  <2>6. g[s] = w[c] + (w[x] + a) /\ g[s \ {x}] = w[c] + a
    BY <2>1, <2>2, <2>3, <2>4
  <2> HIDE DEF a
  <2>7. a \in Int
    BY <2>5 DEF a
  <2> QED
    BY <2>5, <2>6, <2>7
<1> HIDE DEF Good
<1>2. \A s \in SUBSET S : s \in Good
  BY <1>1, SetInduction DEF Weighs
<1> QED
  BY <1>2 DEF Good

\* Sums of the same members, under other names, are the same.
LEMMA SumRenamed ==
  ASSUME NEW S, NEW w, Weighs(w, S), NEW g, Sums(w, S, g),
         NEW T, NEW v, Weighs(v, T), NEW f, Sums(v, T, f),
         NEW h, \A x \in S : h[x] \in T, \A x, y \in S : h[x] = h[y] => x = y,
         \A x \in S : v[h[x]] = w[x]
  PROVE  g[S] = f[{h[x] : x \in S}]
<1>0. /\ \A s \in SUBSET S : \A x \in s : g[s] = w[x] + g[s \ {x}]
      /\ \A s \in SUBSET T : \A x \in s : f[s] = v[x] + f[s \ {x}]
  BY SumTakesAny
<1> DEFINE Good == {s \in SUBSET S : g[s] = f[{h[x] : x \in s}]}
<1>1. ASSUME NEW s \in SUBSET S, \A x \in s : s \ {x} \in Good
      PROVE  s \in Good
  <2>1. CASE s = {}
    <3>1. {h[x] : x \in s} = {}
      BY <2>1
    <3> QED
      BY <2>1, <3>1 DEF Sums
  <2>2. CASE s # {}
    <3>1. PICK x \in s : TRUE
      BY <2>2
    <3> DEFINE t == {h[y] : y \in s}
    <3>2. t \in SUBSET T /\ h[x] \in t
      BY <3>1
    <3>3. t \ {h[x]} = {h[y] : y \in s \ {x}}
      BY <3>1
    <3>4. g[s \ {x}] = f[t \ {h[x]}]
      BY <1>1, <3>1, <3>3
    <3>5. g[s] = w[x] + g[s \ {x}]
      BY <1>0, <3>1
    <3> HIDE DEF t
    <3>6. f[t] = v[h[x]] + f[t \ {h[x]}]
      BY <1>0, <3>2
    <3>7. g[s] = f[t]
      BY <3>1, <3>4, <3>5, <3>6
    <3> QED
      BY <3>7 DEF t
  <2> QED
    BY <2>1, <2>2
<1> HIDE DEF Good
<1>2. IsFiniteSet(S)
  BY DEF Weighs
<1>3. \A s \in SUBSET S : s \in Good
  BY <1>1, <1>2, SetInduction
<1> QED
  BY <1>3 DEF Good

\* The recursion has a solution, which is built up one cardinality at a time.
LEMMA SumsExist ==
  ASSUME NEW S, NEW w, Weighs(w, S)
  PROVE  \E g : Sums(w, S, g)
<1> DEFINE c(s) == CHOOSE x \in s : TRUE
           Upto(n, g) == /\ g[{}] = 0
                         /\ \A s \in SUBSET S : s # {} /\ Cardinality(s) <= n =>
                              g[s] = w[c(s)] + g[s \ {c(s)}]
           Bad == {n \in Nat : ~\E g \in [SUBSET S -> Int] : Upto(n, g)}
<1>0. \A s \in SUBSET S : IsFiniteSet(s) /\ Cardinality(s) \in Nat
                            /\ Cardinality(s) <= Cardinality(S)
  BY FS_Subset, FS_CardinalityType DEF Weighs
<1>1. Bad = {}
  <2> SUFFICES ASSUME Bad # {} PROVE FALSE
    OBVIOUS
  <2>1. PICK n \in Bad : \A m \in Bad : ~(<<m, n>> \in OpToRel(<, Nat))
    BY WFMin, NatLessThanWellFounded
  <2>2. \A m \in Bad : ~(m < n)
    BY <2>1 DEF OpToRel
  <2>3. CASE n = 0
    <3> DEFINE g == [s \in SUBSET S |-> 0]
    <3>1. g \in [SUBSET S -> Int] /\ g[{}] = 0
      OBVIOUS
    <3>2. \A s \in SUBSET S : s # {} => ~(Cardinality(s) <= 0)
      BY <1>0, FS_EmptySet
    <3>3. Upto(n, g)
      BY <2>3, <3>1, <3>2
    <3> QED
      BY <3>1, <3>3
  <2>4. CASE n # 0
    <3>1. n - 1 \in Nat /\ n - 1 < n
      BY <2>4
    <3>2. PICK g \in [SUBSET S -> Int] : Upto(n - 1, g)
      BY <2>2, <3>1
    <3> DEFINE f == [s \in SUBSET S |-> IF s = {} THEN 0
                                        ELSE w[c(s)] + g[s \ {c(s)}]]
    <3>3. \A s \in SUBSET S : s # {} => c(s) \in s
      OBVIOUS
    <3> HIDE DEF c
    <3>4. f \in [SUBSET S -> Int]
      BY <3>3 DEF Weighs
    <3>5. \A s \in SUBSET S : Cardinality(s) <= n - 1 => f[s] = g[s]
      BY <3>2
    <3>6. ASSUME NEW s \in SUBSET S, s # {}, Cardinality(s) <= n
          PROVE  f[s] = w[c(s)] + f[s \ {c(s)}]
      <4>1. Cardinality(s \ {c(s)}) = Cardinality(s) - 1
        BY <1>0, <3>3, <3>6, FS_RemoveElement
      <4>2. Cardinality(s \ {c(s)}) <= n - 1
        BY <1>0, <3>6, <4>1
      <4>3. f[s \ {c(s)}] = g[s \ {c(s)}]
        BY <3>5, <4>2
      <4> QED
        BY <3>6, <4>3
    <3>7. f[{}] = 0
      OBVIOUS
    <3> HIDE DEF f
    <3>8. Upto(n, f)
      BY <3>6, <3>7
    <3> QED
      BY <3>4, <3>8
  <2> QED
    BY <2>3, <2>4
<1>2. Cardinality(S) \in Nat
  BY FS_CardinalityType DEF Weighs
<1>3. PICK g \in [SUBSET S -> Int] : Upto(Cardinality(S), g)
  BY <1>1, <1>2
<1>4. ASSUME NEW s \in SUBSET S, s # {}
      PROVE  g[s] = w[c(s)] + g[s \ {c(s)}]
  BY <1>0, <1>3, <1>4
<1> HIDE DEF Upto
<1>5. g[{}] = 0
  BY <1>3 DEF Upto
<1> QED
  BY <1>4, <1>5 DEF Sums

Total(w, S) == (CHOOSE g : Sums(w, S, g))[S]

\* The sum of S, whatever recursion it is the value of.
LEMMA TotalIs ==
  ASSUME NEW S, NEW w, Weighs(w, S), NEW g, Sums(w, S, g)
  PROVE  \A s \in SUBSET S : Total(w, s) = g[s]
<1> SUFFICES ASSUME NEW s \in SUBSET S
             PROVE  Total(w, s) = g[s]
  OBVIOUS
<1>1. Weighs(w, s)
  BY WeighsSubset
<1>2. \E f : Sums(w, s, f)
  BY <1>1, SumsExist
<1> DEFINE f == CHOOSE x : Sums(w, s, x)
<1>3. Sums(w, s, f)
  BY <1>2
<1> HIDE DEF f
<1> DEFINE h == [x \in s |-> x]
<1>4. /\ \A x \in s : h[x] \in S
      /\ \A x \in s : w[h[x]] = w[x]
      /\ \A x, y \in s : h[x] = h[y] => x = y
  OBVIOUS
<1>5. {h[x] : x \in s} = s
  OBVIOUS
<1> HIDE DEF h
<1>6. f[s] = g[s]
  BY <1>1, <1>3, <1>4, <1>5, SumRenamed, SMTT(30)
<1> QED
  BY <1>6 DEF Total, f

\* The facts about sums that the proofs below use.
LEMMA TotalFacts ==
  ASSUME NEW S, NEW w, Weighs(w, S)
  PROVE  /\ Total(w, {}) = 0
         /\ \A s \in SUBSET S :
              /\ Total(w, s) \in Int
              /\ \A x \in s : Total(w, s) = w[x] + Total(w, s \ {x})
<1>1. PICK g : Sums(w, S, g)
  BY SumsExist
<1>2. \A s \in SUBSET S : Total(w, s) = g[s]
  BY <1>1, TotalIs
<1>3. ASSUME NEW s \in SUBSET S, NEW x \in s
      PROVE  g[s] = w[x] + g[s \ {x}]
  BY <1>1, SumTakesAny
<1> QED
  BY <1>1, <1>2, <1>3 DEF Sums

\* Renaming the members leaves the sum alone.
LEMMA TotalRenamed ==
  ASSUME NEW S, NEW w, Weighs(w, S),
         NEW T, NEW v, Weighs(v, T),
         NEW h, \A x \in S : h[x] \in T, \A x, y \in S : h[x] = h[y] => x = y,
         \A x \in S : v[h[x]] = w[x]
  PROVE  Total(w, S) = Total(v, {h[x] : x \in S})
<1>1. PICK g : Sums(w, S, g)
  BY SumsExist
<1>2. PICK f : Sums(v, T, f)
  BY SumsExist
<1>3. g[S] = f[{h[x] : x \in S}]
  BY <1>1, <1>2, SumRenamed
<1>4. Total(w, S) = g[S]
  BY <1>1, TotalIs
<1>5. {h[x] : x \in S} \in SUBSET T
  OBVIOUS
<1>6. \A t \in SUBSET T : Total(v, t) = f[t]
  BY <1>2, TotalIs
<1> QED
  BY <1>3, <1>4, <1>5, <1>6

\* A sum of naturals is a natural.
LEMMA TotalNat ==
  ASSUME NEW S, NEW w, Weighs(w, S), \A x \in S : w[x] >= 0
  PROVE  Total(w, S) >= 0
<1> DEFINE Good == {s \in SUBSET S : Total(w, s) >= 0}
<1>1. Total(w, {}) = 0
  BY TotalFacts
<1>2. ASSUME NEW s \in SUBSET S, \A x \in s : s \ {x} \in Good
      PROVE  s \in Good
  <2>1. CASE s = {}
    BY <1>1, <2>1
  <2>2. CASE s # {}
    <3>1. PICK x \in s : TRUE
      BY <2>2
    <3>2. w[x] >= 0 /\ w[x] \in Int /\ Total(w, s \ {x}) >= 0
      BY <1>2, <3>1 DEF Weighs
    <3>3. Total(w, s) = w[x] + Total(w, s \ {x}) /\ Total(w, s \ {x}) \in Int
      BY <3>1, TotalFacts
    <3> QED
      BY <3>2, <3>3
  <2> QED
    BY <2>1, <2>2
<1> HIDE DEF Good
<1>3. IsFiniteSet(S)
  BY DEF Weighs
<1>4. \A s \in SUBSET S : s \in Good
  BY <1>2, <1>3, SetInduction
<1> QED
  BY <1>4 DEF Good

\* The equations of the recursion, with nothing said of where g is defined.
Recurs(w, S, g) ==
  /\ g[{}] = 0
  /\ \A s \in SUBSET S : s # {} =>
       g[s] = w[CHOOSE x \in s : TRUE] + g[s \ {CHOOSE x \in s : TRUE}]

\* What the fold of the community modules computes is the sum.
LEMMA SumIsTotal ==
  ASSUME NEW S, NEW w, Weighs(w, S), NEW g, Recurs(w, S, g)
  PROVE  Total(w, S) = g[S]
<1>1. PICK f : Sums(w, S, f)
  BY SumsExist
<1> DEFINE Good == {s \in SUBSET S : f[s] = g[s]}
<1>2. ASSUME NEW s \in SUBSET S, \A x \in s : s \ {x} \in Good
      PROVE  s \in Good
  <2>1. CASE s = {}
    BY <1>1, <2>1 DEF Sums, Recurs
  <2>2. CASE s # {}
    <3> DEFINE c == CHOOSE x \in s : TRUE
    <3>1. c \in s /\ g[s] = w[c] + g[s \ {c}]
      BY <2>2 DEF Recurs
    <3>2. f[s] = w[c] + f[s \ {c}]
      BY <1>1, <2>2 DEF Sums
    <3> HIDE DEF c
    <3> QED
      BY <1>2, <3>1, <3>2
  <2> QED
    BY <2>1, <2>2
<1> HIDE DEF Good
<1>3. IsFiniteSet(S)
  BY DEF Weighs
<1>4. \A s \in SUBSET S : s \in Good
  BY <1>2, <1>3, SetInduction
<1>5. Total(w, S) = f[S]
  BY <1>1, TotalIs
<1> QED
  BY <1>4, <1>5 DEF Good
-----------------------------------------------------------------------------
(* Members of a sequence at some of its places, in their order: the models  *)
(* write what a filter keeps of a list as such a function, with the n-th     *)
(* place the one that n - 1 of the places come before.                       *)

Placed(s, P) ==
  [n \in 1 .. Cardinality(P) |->
     s[CHOOSE i \in P : Cardinality({j \in P : j < i}) = n - 1]]

\* There is one such place for each n, they grow with n, and none is left out.
LEMMA AtPlaces ==
  ASSUME NEW s, NEW P \in SUBSET Int, IsFiniteSet(P)
  PROVE  /\ Cardinality(P) \in Nat
         /\ \E h \in [1 .. Cardinality(P) -> P] :
              /\ \A n \in 1 .. Cardinality(P) : Placed(s, P)[n] = s[h[n]]
              /\ \A n, m \in 1 .. Cardinality(P) : n < m => h[n] < h[m]
              /\ \A i \in P : \E n \in 1 .. Cardinality(P) : h[n] = i
<1> DEFINE c == Cardinality(P)
           low(i) == {j \in P : j < i}
           rank == [i \in P |-> Cardinality(low(i))]
           at(n) == CHOOSE i \in P : Cardinality(low(i)) = n - 1
           h == [n \in 1 .. c |-> at(n)]
<1>1. c \in Nat
  BY FS_CardinalityType
<1>2. \A i \in P : IsFiniteSet(low(i)) /\ Cardinality(low(i)) \in Nat
  <2> TAKE i \in P
  <2>1. low(i) \in SUBSET P
    OBVIOUS
  <2>2. IsFiniteSet(low(i))
    BY <2>1, FS_Subset
  <2> QED
    BY <2>2, FS_CardinalityType
<1>3. \A i \in P : Cardinality(low(i)) < c
  <2> TAKE i \in P
  <2>1. low(i) \in SUBSET P /\ i \notin low(i)
    <3>1. ~(i < i)
      OBVIOUS
    <3> QED
      BY <3>1
  <2>2. Cardinality(low(i)) <= c /\ Cardinality(low(i)) # c
    BY <2>1, FS_Subset
  <2> QED
    BY <1>1, <1>2, <2>2
<1>4. \A i, k \in P : i < k => Cardinality(low(i)) < Cardinality(low(k))
  <2> SUFFICES ASSUME NEW i \in P, NEW k \in P, i < k
               PROVE  Cardinality(low(i)) < Cardinality(low(k))
    OBVIOUS
  <2>1. low(i) \in SUBSET low(k) /\ i \in low(k) /\ i \notin low(i)
    <3>1. ~(i < i) /\ \A j \in P : j < i => j < k
      OBVIOUS
    <3> QED
      BY <3>1
  <2> HIDE DEF low
  <2>2. /\ Cardinality(low(i)) <= Cardinality(low(k))
        /\ Cardinality(low(i)) # Cardinality(low(k))
    BY <1>2, <2>1, FS_Subset
  <2> QED
    BY <1>2, <2>2
<1> DEFINE R == 0 .. (c - 1)
<1>5. rank \in [P -> R]
  <2> HIDE DEF low
  <2>1. \A i \in P : Cardinality(low(i)) \in R
    BY <1>1, <1>2, <1>3
  <2> QED
    BY <2>1
<1>6. rank \in Injection(P, R)
  <2> SUFFICES ASSUME NEW i \in P, NEW k \in P, rank[i] = rank[k] PROVE i = k
    BY <1>5 DEF Injection, IsInjective
  <2> HIDE DEF low
  <2>1. rank[i] = Cardinality(low(i)) /\ rank[k] = Cardinality(low(k))
    OBVIOUS
  <2>2. ~(i < k) /\ ~(k < i)
    BY <1>2, <1>4, <2>1
  <2> QED
    BY <2>2
<1>7. IsFiniteSet(R) /\ Cardinality(R) = c
  BY <1>1, FS_Interval
<1> HIDE DEF R, c, low
<1>8. rank \in Surjection(P, R)
  <2> HIDE DEF rank
  <2> QED
    BY <1>6, <1>7, FS_Injection DEF c
<1>9. \A n \in 1 .. c : at(n) \in P /\ Cardinality(low(at(n))) = n - 1
  <2> TAKE n \in 1 .. c
  <2>1. n - 1 \in R
    BY <1>1 DEF R
  <2>2. PICK i \in P : rank[i] = n - 1
    <3> HIDE DEF rank
    <3> QED
      BY <1>8, <2>1 DEF Surjection
  <2>3. Cardinality(low(i)) = n - 1
    BY <2>2
  <2> QED
    BY <2>3
<1> HIDE DEF at, rank
<1>10. h \in [1 .. c -> P] /\ \A n \in 1 .. c : h[n] = at(n)
  BY <1>9
<1>11. \A n, m \in 1 .. c : n < m => h[n] < h[m]
  <2> SUFFICES ASSUME NEW n \in 1 .. c, NEW m \in 1 .. c, n < m
               PROVE  at(n) < at(m)
    BY <1>10
  <2>1. /\ at(n) \in P /\ Cardinality(low(at(n))) = n - 1
        /\ at(m) \in P /\ Cardinality(low(at(m))) = m - 1
    BY <1>9
  <2>2. at(n) # at(m) /\ ~(at(m) < at(n))
    <3>1. n - 1 < m - 1 /\ n - 1 # m - 1 /\ ~(m - 1 < n - 1)
      BY <1>1
    <3> QED
      BY <1>4, <2>1, <3>1
  <2>3. at(n) \in Int /\ at(m) \in Int
    BY <2>1
  <2> QED
    BY <2>2, <2>3
<1>12. \A i \in P : \E n \in 1 .. c : h[n] = i
  <2> TAKE i \in P
  <2>1. PICK n : n = Cardinality(low(i)) + 1
    OBVIOUS
  <2>2. n \in 1 .. c /\ Cardinality(low(i)) = n - 1
    BY <1>1, <1>2, <1>3, <2>1
  <2>3. at(n) \in P /\ Cardinality(low(at(n))) = n - 1
    BY <1>9, <2>2
  <2>4. ~(at(n) < i) /\ ~(i < at(n))
    <3>1. ~(n - 1 < n - 1)
      BY <1>1, <2>2
    <3> QED
      BY <1>4, <2>2, <2>3, <3>1
  <2>5. at(n) = i
    <3>1. at(n) \in Int /\ i \in Int
      BY <2>3
    <3>2. \A x, y \in Int : ~(x < y) /\ ~(y < x) => x = y
      OBVIOUS
    <3> QED
      BY <2>4, <3>1, <3>2
  <2> QED
    BY <1>10, <2>2, <2>5
<1>13. Placed(s, P) = [n \in 1 .. c |-> s[h[n]]]
  <2>1. [n \in 1 .. c |-> s[at(n)]] = [n \in 1 .. c |-> s[h[n]]]
    <3> HIDE DEF h
    <3> QED
      BY <1>10
  <2> QED
    BY <2>1, Zenon DEF at, low, c, Placed
<1> HIDE DEF h
<1>14. \A n \in 1 .. c : Placed(s, P)[n] = s[h[n]]
  BY <1>13
<1> QED
  BY <1>1, <1>10, <1>11, <1>12, <1>14 DEF c

LEMMA PlacedIn ==
  ASSUME NEW s, NEW P \in SUBSET Int, IsFiniteSet(P), NEW T, \A i \in P : s[i] \in T
  PROVE  Placed(s, P) \in [1 .. Cardinality(P) -> T]
<1> DEFINE c == Cardinality(P)
<1>1. /\ c \in Nat
      /\ \E h \in [1 .. c -> P] :
           /\ \A n \in 1 .. c : Placed(s, P)[n] = s[h[n]]
           /\ \A n, m \in 1 .. c : n < m => h[n] < h[m]
           /\ \A i \in P : \E n \in 1 .. c : h[n] = i
  BY AtPlaces
<1>2. Placed(s, P) = [n \in 1 .. c |-> Placed(s, P)[n]]
  BY DEF Placed
<1>3. \A n \in 1 .. c : Placed(s, P)[n] \in T
  BY <1>1
<1> HIDE DEF c
<1>4. [n \in 1 .. c |-> Placed(s, P)[n]] \in [1 .. c -> T]
  BY <1>3
<1> QED
  BY <1>2, <1>4, Zenon DEF c
=============================================================================
