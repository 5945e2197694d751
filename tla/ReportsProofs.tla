---------------------------- MODULE ReportsProofs ----------------------------
(***************************************************************************)
(* What holds of the seven reports, for any tables, calendar, requests and   *)
(* number of reports that are computed together.                            *)
(*                                                                         *)
(* Reports over time run two loops: one lays out zeros from the start of     *)
(* the range to its end, the other adds each value to its period.  Both are  *)
(* recursive functions, and sums are folds of the community modules: that    *)
(* such functions exist is shown here (RecursionExists), and what they       *)
(* compute by induction, where a set of naturals, or of subsets of a finite  *)
(* set, stands in for the predicate.  LaysLaid and LaysDense are about the   *)
(* first loop, FoldTells about the second, ChartIsCharted about the answer;  *)
(* GenerateAnswers and NameAnswers say what every report sends; and IInv     *)
(* joins them with the types and with the two reads of shipments per         *)
(* customer.                                                                *)
(***************************************************************************)
EXTENDS Reports, FiniteSetTheorems, SequenceTheorems, WellFoundedInduction, TLAPS

-----------------------------------------------------------------------------
(* Induction, over the naturals and over finite sets: a set stands in for the predicate. *)

(* Numbers have a least one among them. *)
LEMMA LeastNat ==
    ASSUME NEW T, T \subseteq Nat, T # {}
    PROVE  \E m \in T : \A n \in T : m <= n
<1>1. PICK m \in T : \A n \in T : <<n, m>> \notin OpToRel(<, Nat)
  BY WFMin, NatLessThanWellFounded, Zenon
<1>2. m \in Nat
  OBVIOUS
<1>3. ASSUME NEW n \in T PROVE m <= n
  <2>1. n \in Nat
    OBVIOUS
  <2>2. ~ (n < m)
    BY <1>1, <1>2, <2>1, Zenon DEF OpToRel
  <2> QED
    BY <1>2, <2>1, <2>2
<1> QED
  BY <1>3

(* Induction over the naturals, for a set in place of a predicate.            *)
LEMMA NatSetInduction ==
    ASSUME NEW T \in SUBSET Nat, 0 \in T, \A n \in T : n + 1 \in T
    PROVE  T = Nat
<1>1. SUFFICES ASSUME Nat \ T # {} PROVE FALSE
  OBVIOUS
<1>2. PICK m \in Nat \ T : \A n \in Nat \ T : m <= n
  BY <1>1, LeastNat
<1>3. m - 1 \in Nat /\ ~ (m <= m - 1) /\ (m - 1) + 1 = m
  BY <1>2
<1>4. m - 1 \in T
  BY <1>2, <1>3
<1> QED
  BY <1>2, <1>3, <1>4

(* Induction over the subsets of a finite set: from all that lack one element. *)
LEMMA SubsetInduction ==
    ASSUME NEW S, IsFiniteSet(S), NEW T,
           \A U \in SUBSET S : (\A x \in U : U \ {x} \in T) => U \in T
    PROVE  \A U \in SUBSET S : U \in T
<1> DEFINE N == {n \in Nat : \A U \in SUBSET S : Cardinality(U) <= n => U \in T}
<1>1. \A U \in SUBSET S : IsFiniteSet(U) /\ Cardinality(U) \in Nat
  BY FS_Subset, FS_CardinalityType
<1>2. ASSUME NEW U \in SUBSET S, NEW x \in U
      PROVE  Cardinality(U \ {x}) = Cardinality(U) - 1
  BY <1>1, FS_RemoveElement
<1>3. 0 \in N
  <2>1. ASSUME NEW U \in SUBSET S, Cardinality(U) <= 0 PROVE U = {}
    BY <1>1, <2>1, FS_EmptySet
  <2>2. {} \in T
    OBVIOUS
  <2> QED
    BY <2>1, <2>2
<1>4. ASSUME NEW n \in N PROVE n + 1 \in N
  <2>1. SUFFICES ASSUME NEW U \in SUBSET S, Cardinality(U) <= n + 1 PROVE U \in T
    OBVIOUS
  <2>2. ASSUME NEW x \in U PROVE U \ {x} \in T
    BY <1>1, <1>2, <1>4, <2>1
  <2> QED
    BY <2>2
<1> HIDE DEF N
<1>5. N = Nat
  <2>1. N \in SUBSET Nat
    BY DEF N
  <2> QED
    BY <1>3, <1>4, <2>1, NatSetInduction
<1>6. ASSUME NEW U \in SUBSET S PROVE U \in T
  <2>1. Cardinality(U) \in N /\ Cardinality(U) <= Cardinality(U)
    BY <1>1, <1>5
  <2> QED
    BY <2>1 DEF N
<1> QED
  BY <1>6

(* A recursive definition that goes down a measure is satisfied by some        *)
(* function: where it ends is given, elsewhere it takes one step from next.    *)
Satisfies(h, S, End, end, next, step) ==
    \A s \in S : h[s] = IF s \in End THEN end ELSE step[s][h[next[s]]]

(* A table of all the values is built up measure by measure.                  *)
LEMMA RecursionExists ==
    ASSUME NEW S, NEW V, NEW End \in SUBSET S, NEW end \in V,
           NEW next \in [S \ End -> S], NEW step \in [S \ End -> [V -> V]],
           NEW N \in Nat, NEW measure \in [S -> 0..N],
           \A s \in S \ End : measure[next[s]] < measure[s]
    PROVE  \E h \in [S -> V] : Satisfies(h, S, End, end, next, step)
<1> DEFINE Upto(g, n) == \A s \in S : measure[s] < n =>
                            g[s] = IF s \in End THEN end ELSE step[s][g[next[s]]]
           T == {n \in Nat : \E g \in [S -> V] : Upto(g, n)}
<1>1. 0 \in T
  <2>1. [s \in S |-> end] \in [S -> V]
    OBVIOUS
  <2>2. Upto([s \in S |-> end], 0)
    OBVIOUS
  <2> QED
    BY <2>1, <2>2, Zenon
<1>2. ASSUME NEW n \in T PROVE n + 1 \in T
  <2>1. PICK g \in [S -> V] : Upto(g, n)
    BY <1>2
  <2> DEFINE G(s) == IF s \in End THEN end ELSE step[s][g[next[s]]]
             f == [s \in S |-> G(s)]
  <2>2. \A s \in S : G(s) \in V
    OBVIOUS
  <2>3. f \in [S -> V] /\ \A s \in S : f[s] = G(s)
    BY <2>2
  <2>4. ASSUME NEW s \in S, measure[s] < n + 1, s \notin End PROVE f[next[s]] = g[next[s]]
    <3>1. next[s] \in S /\ measure[next[s]] < n
      BY <1>2, <2>4
    <3> QED
      BY <2>1, <2>3, <3>1
  <2> HIDE DEF f
  <2>5. Upto(f, n + 1)
    BY <2>3, <2>4
  <2> QED
    BY <2>3, <2>5, <1>2
<1> HIDE DEF T
<1>3. N + 1 \in T
  <2>1. T \in SUBSET Nat
    BY DEF T
  <2>2. T = Nat
    BY <1>1, <1>2, <2>1, NatSetInduction
  <2> QED
    BY <2>2
<1>4. PICK g \in [S -> V] : Upto(g, N + 1)
  BY <1>3 DEF T
<1>5. \A s \in S : measure[s] < N + 1
  OBVIOUS
<1> QED
  BY <1>4, <1>5, Zenon DEF Satisfies

-----------------------------------------------------------------------------
(* Sums. *)

(* The element that a fold takes first.                                       *)
Pick(S)  == CHOOSE x \in S : TRUE
(* A function on a part of its domain.                                        *)
On(f, S) == [x \in S |-> f[x]]

(* What the fold of Sum does to every subset of the domain of f.              *)
Adds(h, f, S) == h = [U \in SUBSET S |-> IF U = {} THEN 0 ELSE f[Pick(U)] + h[U \ {Pick(U)}]]

(* Sum by its definition in the community modules.                            *)
LEMMA SumIs ==
    ASSUME NEW f
    PROVE  Sum(f) = (CHOOSE h : Adds(h, f, DOMAIN f))[DOMAIN f]
  BY DEF Sum, MapThenSumSet, MapThenFoldSet, Adds, Pick

(* A set that is not empty has one to take.                                   *)
LEMMA PickIn ==
    ASSUME NEW S, S # {}
    PROVE  Pick(S) \in S
  BY DEF Pick

(* There is such a function, for every function to the integers.              *)
LEMMA AddsExists ==
    ASSUME NEW S, IsFiniteSet(S), NEW f, \A x \in S : f[x] \in Int
    PROVE  \E h \in [SUBSET S -> Int] : Adds(h, f, S)
<1> DEFINE Sets    == SUBSET S
           next    == [U \in Sets \ {{}} |-> U \ {Pick(U)}]
           step    == [U \in Sets \ {{}} |-> [v \in Int |-> f[Pick(U)] + v]]
           measure == [U \in Sets |-> Cardinality(U)]
           N       == Cardinality(S)
<1>1. \A U \in Sets \ {{}} : Pick(U) \in U
  BY PickIn
<1>2. next \in [Sets \ {{}} -> Sets] /\ step \in [Sets \ {{}} -> [Int -> Int]]
  BY <1>1
<1>3. \A U \in Sets : /\ IsFiniteSet(U) /\ Cardinality(U) \in 0..N
  BY FS_Subset, FS_CardinalityType
<1>4. N \in Nat /\ measure \in [Sets -> 0..N]
  BY <1>3, FS_CardinalityType
<1>5. ASSUME NEW U \in Sets \ {{}} PROVE measure[next[U]] < measure[U]
  <2>1. Cardinality(U \ {Pick(U)}) = Cardinality(U) - 1
    BY <1>1, <1>3, FS_RemoveElement
  <2> QED
    BY <1>1, <1>3, <2>1
<1>6. {{}} \in SUBSET Sets /\ 0 \in Int
  OBVIOUS
<1> HIDE DEF N, measure, next, step, Sets
<1>7. PICK h \in [Sets -> Int] : Satisfies(h, Sets, {{}}, 0, next, step)
  BY <1>2, <1>4, <1>5, <1>6, RecursionExists, Zenon
<1>8. ASSUME NEW U \in Sets PROVE h[U] = IF U = {} THEN 0 ELSE f[Pick(U)] + h[U \ {Pick(U)}]
  <2>1. CASE U = {}
    BY <1>7, <2>1 DEF Satisfies
  <2>2. CASE U # {}
    <3>1. next[U] = U \ {Pick(U)} /\ h[next[U]] \in Int
      BY <1>2, <2>2 DEF next
    <3>2. step[U][h[next[U]]] = f[Pick(U)] + h[next[U]]
      BY <2>2, <3>1 DEF step
    <3> QED
      BY <1>7, <2>2, <3>1, <3>2 DEF Satisfies
  <2> QED
    BY <2>1, <2>2
<1>9. Adds(h, f, S)
  BY <1>7, <1>8 DEF Adds, Sets
<1> QED
  BY <1>7, <1>9 DEF Sets

(* There is but one, and only what f is on the set counts.                    *)
LEMMA AddsAgree ==
    ASSUME NEW S, NEW R, IsFiniteSet(R), R \subseteq S,
           NEW f, NEW g, \A x \in R : f[x] = g[x],
           NEW h, NEW k, Adds(h, f, S), Adds(k, g, R)
    PROVE  \A U \in SUBSET R : h[U] = k[U]
<1> DEFINE T == {U \in SUBSET R : h[U] = k[U]}
<1>1. ASSUME NEW U \in SUBSET R, \A x \in U : U \ {x} \in T PROVE h[U] = k[U]
  <2>1. /\ h[U] = IF U = {} THEN 0 ELSE f[Pick(U)] + h[U \ {Pick(U)}]
        /\ k[U] = IF U = {} THEN 0 ELSE g[Pick(U)] + k[U \ {Pick(U)}]
    <3>1. U \in SUBSET S
      OBVIOUS
    <3> QED
      BY <3>1, Zenon DEF Adds
  <2>2. U # {} => Pick(U) \in U
    BY PickIn
  <2> QED
    BY <1>1, <2>1, <2>2
<1>2. \A U \in SUBSET R : (\A x \in U : U \ {x} \in T) => U \in T
  BY <1>1
<1> HIDE DEF T
<1>3. \A U \in SUBSET R : U \in T
  BY <1>2, SubsetInduction
<1> QED
  BY <1>3 DEF T

(* The sum over a part of a function's domain. *)
Total(f, U) == Sum(On(f, U))

(* A sum is a value of such a function.                                       *)
LEMMA TotalIs ==
    ASSUME NEW U, IsFiniteSet(U), NEW f, \A x \in U : f[x] \in Int
    PROVE  \E h \in [SUBSET U -> Int] : Adds(h, f, U) /\ Total(f, U) = h[U]
<1>1. DOMAIN On(f, U) = U /\ \A x \in U : On(f, U)[x] = f[x]
  BY DEF On
<1>2. PICK k : k = CHOOSE h : Adds(h, On(f, U), U)
  OBVIOUS
<1>3. PICK g \in [SUBSET U -> Int] : Adds(g, On(f, U), U)
  BY <1>1, AddsExists, Zenon
<1>4. Adds(k, On(f, U), U)
  BY <1>2, <1>3, Zenon
<1>5. Total(f, U) = k[U]
  BY <1>1, <1>2, SumIs DEF Total
<1>6. PICK h \in [SUBSET U -> Int] : Adds(h, f, U)
  BY AddsExists, Zenon
<1>7. h[U] = k[U]
  BY <1>1, <1>4, <1>6, AddsAgree
<1> QED
  BY <1>5, <1>6, <1>7

(* Nothing adds up to nothing.                                                *)
LEMMA TotalEmpty ==
    ASSUME NEW f
    PROVE  Total(f, {}) = 0
<1>1. PICK h \in [SUBSET {} -> Int] : Adds(h, f, {}) /\ Total(f, {}) = h[{}]
  BY FS_EmptySet, TotalIs
<1>2. h[{}] = 0
  BY <1>1, Zenon DEF Adds
<1> QED
  BY <1>1, <1>2

(* Integers add up to an integer.                                             *)
LEMMA TotalInt ==
    ASSUME NEW U, IsFiniteSet(U), NEW f, \A x \in U : f[x] \in Int
    PROVE  Total(f, U) \in Int
<1>1. PICK h \in [SUBSET U -> Int] : Total(f, U) = h[U]
  BY TotalIs
<1> QED
  BY <1>1

(* The equation of the fold, with the element it takes first.                 *)
LEMMA TotalPick ==
    ASSUME NEW U, IsFiniteSet(U), U # {}, NEW f, \A x \in U : f[x] \in Int
    PROVE  Total(f, U) = f[Pick(U)] + Total(f, U \ {Pick(U)})
<1> DEFINE W == U \ {Pick(U)}
<1>1. IsFiniteSet(W) /\ W \subseteq U
  BY FS_RemoveElement
<1>2. PICK h \in [SUBSET U -> Int] : Adds(h, f, U) /\ Total(f, U) = h[U]
  BY TotalIs
<1>3. PICK k \in [SUBSET W -> Int] : Adds(k, f, W) /\ Total(f, W) = k[W]
  BY <1>1, TotalIs
<1>4. h[W] = k[W]
  BY <1>1, <1>2, <1>3, AddsAgree
<1>5. h[U] = f[Pick(U)] + h[W]
  BY <1>2, Zenon DEF Adds
<1> QED
  BY <1>2, <1>3, <1>4, <1>5

(* An element of any kind can be added last. *)
LEMMA TotalRemove ==
    ASSUME NEW S, IsFiniteSet(S), NEW f, \A x \in S : f[x] \in Int, NEW x \in S
    PROVE  Total(f, S) = f[x] + Total(f, S \ {x})
<1> DEFINE T == {U \in SUBSET S : \A y \in U : Total(f, U) = f[y] + Total(f, U \ {y})}
<1>1. ASSUME NEW U \in SUBSET S, \A y \in U : U \ {y} \in T, NEW y \in U
      PROVE  Total(f, U) = f[y] + Total(f, U \ {y})
  <2> DEFINE p == Pick(U)
  <2>1. IsFiniteSet(U) /\ p \in U
    BY FS_Subset, PickIn
  <2>2. Total(f, U) = f[p] + Total(f, U \ {p})
    BY <2>1, TotalPick
  <2>3. CASE y = p
    BY <2>2, <2>3
  <2>4. CASE y # p
    <3> HIDE DEF p
    <3>1. y \in U \ {p} /\ p \in U \ {y}
      BY <2>1, <2>4
    <3> DEFINE W == (U \ {p}) \ {y}
    <3>2. Total(f, U \ {p}) = f[y] + Total(f, W)
      BY <1>1, <2>1, <3>1
    <3>3. W = (U \ {y}) \ {p}
      OBVIOUS
    <3>4. Total(f, U \ {y}) = f[p] + Total(f, W)
      BY <1>1, <3>1, <3>3
    <3>5. Total(f, W) \in Int /\ f[p] \in Int /\ f[y] \in Int
      <4>1. IsFiniteSet(W)
        BY FS_Subset
      <4> QED
        BY <2>1, <4>1, TotalInt
    <3> HIDE DEF W
    <3> QED
      BY <2>2, <3>2, <3>4, <3>5
  <2> QED
    BY <2>3, <2>4
<1>2. \A U \in SUBSET S : (\A y \in U : U \ {y} \in T) => U \in T
  BY <1>1
<1> HIDE DEF T
<1>3. \A U \in SUBSET S : U \in T
  BY <1>2, SubsetInduction
<1> QED
  BY <1>3 DEF T

(* The same induction from the empty set, adding one element at a time.       *)
LEMMA FiniteSetInduction ==
    ASSUME NEW S, IsFiniteSet(S), NEW T, {} \in T,
           \A U \in SUBSET S, x \in S : U \in T /\ x \notin U => U \cup {x} \in T
    PROVE  S \in T
<1>1. ASSUME NEW U \in SUBSET S, \A x \in U : U \ {x} \in T PROVE U \in T
  <2>1. CASE U = {}
    BY <2>1
  <2>2. CASE U # {}
    <3>1. PICK x \in U : TRUE
      BY <2>2
    <3>2. U \ {x} \in T
      BY <1>1
    <3>3. (U \ {x}) \cup {x} \in T
      BY <3>2
    <3>4. (U \ {x}) \cup {x} = U
      OBVIOUS
    <3> QED
      BY <3>3, <3>4
  <2> QED
    BY <2>1, <2>2
<1>2. \A U \in SUBSET S : U \in T
  BY <1>1, SubsetInduction
<1> QED
  BY <1>2

(* And an element that is not there yet, first.                               *)
LEMMA TotalAdd ==
    ASSUME NEW U, IsFiniteSet(U), NEW x, x \notin U, NEW f, \A y \in U \cup {x} : f[y] \in Int
    PROVE  Total(f, U \cup {x}) = f[x] + Total(f, U)
<1>1. IsFiniteSet(U \cup {x}) /\ (U \cup {x}) \ {x} = U
  BY FS_AddElement
<1> QED
  BY <1>1, TotalRemove

(* One element adds up to its value.                                          *)
LEMMA TotalOne ==
    ASSUME NEW x, NEW f, f[x] \in Int
    PROVE  Total(f, {x}) = f[x]
<1>1. IsFiniteSet({}) /\ x \notin {} /\ \A y \in {} \cup {x} : f[y] \in Int
  BY FS_EmptySet
<1>2. Total(f, {} \cup {x}) = f[x] + Total(f, {})
  BY <1>1, TotalAdd
<1>3. {} \cup {x} = {x}
  OBVIOUS
<1> QED
  BY <1>2, <1>3, TotalEmpty

(* Only what a function is on the set counts. *)
LEMMA TotalSame ==
    ASSUME NEW U, NEW f, NEW g, \A x \in U : f[x] = g[x]
    PROVE  Total(f, U) = Total(g, U)
<1>1. On(f, U) = On(g, U)
  BY DEF On
<1> QED
  BY <1>1 DEF Total

(* The sum of a function is the sum over all of its domain.                   *)
LEMMA SumIsTotal ==
    ASSUME NEW U, NEW f, f = [x \in U |-> f[x]]
    PROVE  Sum(f) = Total(f, U)
  BY DEF Total, On

(* Naturals add up to a natural.                                              *)
LEMMA TotalNat ==
    ASSUME NEW S, IsFiniteSet(S), NEW f, \A x \in S : f[x] \in Nat
    PROVE  Total(f, S) \in Nat
<1> DEFINE T == {U \in SUBSET S : Total(f, U) \in Nat}
<1>1. {} \in T
  BY TotalEmpty
<1>2. ASSUME NEW U \in SUBSET S, NEW x \in S, U \in T, x \notin U
      PROVE  U \cup {x} \in T
  <2>1. IsFiniteSet(U) /\ \A y \in U \cup {x} : f[y] \in Int
    BY FS_Subset
  <2>2. Total(f, U \cup {x}) = f[x] + Total(f, U)
    BY <1>2, <2>1, TotalAdd
  <2> QED
    BY <1>2, <2>2
<1> HIDE DEF T
<1>3. S \in T
  BY <1>1, <1>2, FiniteSetInduction
<1> QED
  BY <1>3 DEF T

(* What is rounded to a tenth, is off by half a unit at each element.          *)
LEMMA TotalRounded ==
    ASSUME NEW S, IsFiniteSet(S), NEW f, NEW g,
           \A x \in S : f[x] \in Int /\ g[x] \in Int /\ 10 * g[x] - f[x] \in -5..5
    PROVE  /\ 10 * Total(g, S) - Total(f, S) <= 5 * Cardinality(S)
           /\ Total(f, S) - 10 * Total(g, S) <= 5 * Cardinality(S)
<1> DEFINE T == {U \in SUBSET S : 
                   /\ 10 * Total(g, U) - Total(f, U) <= 5 * Cardinality(U)
                   /\ Total(f, U) - 10 * Total(g, U) <= 5 * Cardinality(U)}
<1>1. {} \in T
  BY TotalEmpty, FS_EmptySet
<1>2. ASSUME NEW U \in SUBSET S, NEW x \in S, U \in T, x \notin U
      PROVE  U \cup {x} \in T
  <2>1. /\ IsFiniteSet(U) /\ Cardinality(U) \in Nat
        /\ Cardinality(U \cup {x}) = Cardinality(U) + 1
    BY <1>2, FS_Subset, FS_CardinalityType, FS_AddElement
  <2>2. /\ Total(f, U \cup {x}) = f[x] + Total(f, U)
        /\ Total(g, U \cup {x}) = g[x] + Total(g, U)
    BY <1>2, <2>1, TotalAdd
  <2>3. Total(f, U) \in Int /\ Total(g, U) \in Int
    BY <2>1, TotalInt
  <2>4. 10 * g[x] - f[x] \in -5..5 /\ f[x] \in Int /\ g[x] \in Int
    OBVIOUS
  <2>5. /\ 10 * Total(g, U) - Total(f, U) <= 5 * Cardinality(U)
        /\ Total(f, U) - 10 * Total(g, U) <= 5 * Cardinality(U)
    BY <1>2
  <2> HIDE DEF T
  <2>6. /\ 10 * Total(g, U \cup {x}) - Total(f, U \cup {x}) <= 5 * Cardinality(U \cup {x})
        /\ Total(f, U \cup {x}) - 10 * Total(g, U \cup {x}) <= 5 * Cardinality(U \cup {x})
    BY <2>1, <2>2, <2>3, <2>4, <2>5
  <2> QED
    BY <2>6 DEF T
<1> HIDE DEF T
<1>3. S \in T
  BY <1>1, <1>2, FiniteSetInduction
<1> QED
  BY <1>3 DEF T

(* Two sets that have nothing in common are counted apart.                    *)
LEMMA CountApart ==
    ASSUME NEW Q, NEW R, IsFiniteSet(Q), IsFiniteSet(R), Q \cap R = {}
    PROVE  IsFiniteSet(Q \cup R) /\ Cardinality(Q \cup R) = Cardinality(Q) + Cardinality(R)
<1>1. Cardinality(Q) \in Nat /\ Cardinality(R) \in Nat
  BY FS_CardinalityType
<1> QED
  BY <1>1, FS_Union, FS_EmptySet

(* Everything that is in a class of K.                                        *)
AllOf(A, K) == UNION {A[k] : k \in K}

(* Sets that have nothing in common are counted one by one. *)
LEMMA TotalOfClasses ==
    ASSUME NEW K, IsFiniteSet(K), NEW A, NEW c,
           \A k \in K : IsFiniteSet(A[k]) /\ c[k] = Cardinality(A[k]),
           \A k, l \in K : k # l => A[k] \cap A[l] = {}
    PROVE  /\ IsFiniteSet(AllOf(A, K))
           /\ Total(c, K) = Cardinality(AllOf(A, K))
<1> DEFINE T == {U \in SUBSET K : /\ IsFiniteSet(AllOf(A, U))
                               /\ Total(c, U) = Cardinality(AllOf(A, U))}
<1>1. {} \in T
  <2>1. AllOf(A, {}) = {}
    BY DEF AllOf
  <2> QED
    BY <2>1, TotalEmpty, FS_EmptySet
<1>2. ASSUME NEW U \in SUBSET K, NEW x \in K, U \in T, x \notin U
      PROVE  U \cup {x} \in T
  <2>1. IsFiniteSet(U) /\ \A y \in U \cup {x} : c[y] \in Int
    BY FS_Subset, FS_CardinalityType
  <2>2. Total(c, U \cup {x}) = c[x] + Total(c, U)
    BY <1>2, <2>1, TotalAdd
  <2>3. AllOf(A, U \cup {x}) = AllOf(A, U) \cup A[x]
    BY DEF AllOf
  <2>4. AllOf(A, U) \cap A[x] = {}
    BY <1>2 DEF AllOf
  <2>5. IsFiniteSet(AllOf(A, U)) /\ Total(c, U) = Cardinality(AllOf(A, U))
    BY <1>2
  <2>6. /\ IsFiniteSet(AllOf(A, U \cup {x}))
        /\ Cardinality(AllOf(A, U \cup {x})) = Cardinality(AllOf(A, U)) + Cardinality(A[x])
    <3>1. IsFiniteSet(A[x]) /\ IsFiniteSet(AllOf(A, U))
      BY <2>5
    <3>2. /\ IsFiniteSet(AllOf(A, U) \cup A[x])
          /\ Cardinality(AllOf(A, U) \cup A[x]) = Cardinality(AllOf(A, U)) + Cardinality(A[x])
      BY <2>4, <3>1, CountApart
    <3> QED
      BY <2>3, <3>2, Zenon
  <2>7. Cardinality(AllOf(A, U)) \in Nat /\ Cardinality(A[x]) \in Nat /\ c[x] = Cardinality(A[x])
    BY <2>5, FS_CardinalityType
  <2>8. Total(c, U \cup {x}) = Cardinality(AllOf(A, U \cup {x}))
    BY <2>2, <2>5, <2>6, <2>7
  <2> QED
    BY <2>6, <2>8
<1> HIDE DEF T
<1>3. K \in T
  BY <1>1, <1>2, FiniteSetInduction
<1> QED
  BY <1>3 DEF T

-----------------------------------------------------------------------------
(* The calendar. *)

(* A natural lies between two multiples.                                      *)
LEMMA Division ==
    ASSUME NEW t \in Nat, NEW n \in Nat \ {0}
    PROVE  /\ t \div n \in Nat
           /\ (t \div n) * n <= t /\ t < (t \div n + 1) * n
<1>1. t = n * (t \div n) + (t % n) /\ t % n \in 0..n-1 /\ t \div n \in Int
  OBVIOUS
<1>2. PICK q, r \in Int : q = t \div n /\ r = t % n
  BY <1>1
<1>3. t = n * q + r /\ 0 <= r /\ r < n
  BY <1>1, <1>2
<1>4. q >= 0
  BY <1>3
<1>5. q * n = n * q /\ (q + 1) * n = n * q + n
  OBVIOUS
<1>6. q * n <= t /\ t < (q + 1) * n
  BY <1>3, <1>5
<1> QED
  BY <1>2, <1>4, <1>6

(* Multiples keep the order.                                                  *)
LEMMA TimesMonotone ==
    ASSUME NEW p \in Nat, NEW q \in Nat, NEW n \in Nat, p <= q
    PROVE  p * n <= q * n
<1>1. PICK d \in Nat : q = p + d
  BY q - p \in Nat
<1>2. q * n = p * n + d * n /\ d * n >= 0 /\ p * n \in Nat
  BY <1>1
<1> QED
  BY <1>2

(* A moment that the calendar reaches. *)
Dated(t)     == t \in Nat /\ \E m \in Months : t < MonthStart[m]
(* A period whose start the calendar knows.                                   *)
Begins(p, g) == p \in Nat /\ (g = "monthly" => p \in Months)

(* The month of a moment starts before it, and the next one after it.         *)
LEMMA MonthFacts ==
    ASSUME NEW t, Dated(t)
    PROVE  /\ MonthOf(t) \in Months /\ MonthOf(t) + 1 \in Months
           /\ MonthStart[MonthOf(t)] <= t /\ t < MonthStart[MonthOf(t) + 1]
<1>1. /\ Len(MonthStart) \in Nat /\ Months = 1..Len(MonthStart)
      /\ \A m \in Months : MonthStart[m] \in Nat
      /\ MonthStart[1] = 0
  BY ReportsAssumption DEF Months
<1> DEFINE After == {m \in Months : t < MonthStart[m]}
<1>2. After \subseteq Nat /\ After # {}
  BY <1>1 DEF Dated
<1>3. PICK m \in After : \A n \in After : m <= n
  BY <1>2, LeastNat
<1>4. m # 1
  BY <1>1, <1>3 DEF Dated
<1>5. m - 1 \in Months /\ (m - 1) + 1 = m /\ ~ (m - 1 >= m)
  BY <1>1, <1>4
<1>6. ~ (t < MonthStart[m - 1])
  BY <1>3, <1>5
<1>7. t \in MonthStart[m - 1]..MonthStart[(m - 1) + 1] - 1
  BY <1>1, <1>3, <1>5, <1>6 DEF Dated
<1>8. \E n \in Months : n + 1 \in Months /\ t \in MonthStart[n]..MonthStart[n + 1] - 1
  BY <1>5, <1>7
<1> DEFINE M == MonthOf(t)
<1>9. M \in Months /\ M + 1 \in Months /\ t \in MonthStart[M]..MonthStart[M + 1] - 1
  BY <1>8 DEF MonthOf
<1> HIDE DEF M
<1>10. MonthStart[M] <= t /\ t < MonthStart[M + 1]
  BY <1>1, <1>9
<1> QED
  BY <1>9, <1>10 DEF M

(* But for months, a period has a length.                                     *)
LEMMA GranularityFacts ==
    ASSUME NEW g \in Granularities, g # "monthly"
    PROVE  PeriodLength[g] \in Nat \ {0}
  BY ReportsAssumption DEF Granularities

(* A period starts at a moment.                                               *)
LEMMA FromNat ==
    ASSUME NEW g \in Granularities, NEW p, Begins(p, g)
    PROVE  From(p, g) \in Nat
<1>1. CASE g = "monthly"
  BY <1>1, ReportsAssumption DEF Begins, From, Months
<1>2. CASE g # "monthly"
  BY <1>2, GranularityFacts DEF Begins, From
<1> QED
  BY <1>1, <1>2

(* Later periods start later.                                                 *)
LEMMA FromMonotone ==
    ASSUME NEW g \in Granularities, NEW p, NEW q, Begins(p, g), Begins(q, g), p <= q
    PROVE  From(p, g) <= From(q, g)
<1>1. CASE g = "monthly"
  <2>1. p \in Months /\ q \in Months /\ p \in Nat /\ q \in Nat
    BY <1>1 DEF Begins
  <2>2. p < q => MonthStart[p] < MonthStart[q]
    BY <2>1, ReportsAssumption
  <2>3. ASSUME NEW m \in Months PROVE MonthStart[m] \in Nat
    <3>1. MonthStart \in Seq(Nat)
      BY ReportsAssumption
    <3> QED
      BY <3>1 DEF Months
  <2> QED
    BY <1>1, <2>1, <2>2, <2>3 DEF From
<1>2. CASE g # "monthly"
  BY <1>2, GranularityFacts, TimesMonotone DEF Begins, From
<1> QED
  BY <1>1, <1>2

(* A moment lies in its period.                                               *)
LEMMA PeriodFacts ==
    ASSUME NEW g \in Granularities, NEW t, Dated(t)
    PROVE  /\ Begins(PeriodOf(t, g), g) /\ Begins(PeriodOf(t, g) + 1, g)
           /\ From(PeriodOf(t, g), g) <= t /\ t < From(PeriodOf(t, g) + 1, g)
<1>1. CASE g = "monthly"
  BY <1>1, MonthFacts DEF Begins, From, PeriodOf, Months
<1>2. CASE g # "monthly"
  <2>1. PICK d \in Nat \ {0} : d = PeriodLength[g]
    BY <1>2, GranularityFacts
  <2>2. t \in Nat /\ t \div d \in Nat /\ (t \div d) * d <= t /\ t < (t \div d + 1) * d
    BY <2>1, Division DEF Dated
  <2>3. /\ PeriodOf(t, g) = t \div d
        /\ From(PeriodOf(t, g), g) = (t \div d) * d
        /\ From(PeriodOf(t, g) + 1, g) = (t \div d + 1) * d
    BY <1>2, <2>1 DEF PeriodOf, From
  <2>4. Begins(PeriodOf(t, g), g) /\ Begins(PeriodOf(t, g) + 1, g)
    <3>1. PICK p \in Nat : p = PeriodOf(t, g)
      BY <2>2, <2>3
    <3> QED
      BY <1>2, <3>1 DEF Begins
  <2> QED
    BY <2>2, <2>3, <2>4
<1> QED
  BY <1>1, <1>2

(* A period that started before a moment is the moment's, or an earlier one.  *)
LEMMA PeriodReached ==
    ASSUME NEW g \in Granularities, NEW t, Dated(t), NEW p, Begins(p, g), From(p, g) <= t
    PROVE  p <= PeriodOf(t, g)
<1> DEFINE q == PeriodOf(t, g)
<1>1. /\ Begins(q, g) /\ Begins(q + 1, g) /\ t < From(q + 1, g) /\ q \in Nat /\ p \in Nat
      /\ From(p, g) \in Nat /\ From(q + 1, g) \in Nat /\ t \in Nat
  BY PeriodFacts, FromNat DEF Begins, Dated
<1> HIDE DEF q
<1>2. SUFFICES ASSUME q + 1 <= p PROVE FALSE
  BY <1>1 DEF q
<1>3. From(q + 1, g) <= From(p, g)
  BY <1>1, <1>2, FromMonotone
<1> QED
  BY <1>1, <1>3

(* A period that starts after a moment is a later one.                        *)
LEMMA PeriodLeft ==
    ASSUME NEW g \in Granularities, NEW t, Dated(t), NEW p, Begins(p, g), t < From(p, g)
    PROVE  PeriodOf(t, g) < p
<1> DEFINE q == PeriodOf(t, g)
<1>1. /\ Begins(q, g) /\ From(q, g) <= t /\ q \in Nat /\ p \in Nat
      /\ From(p, g) \in Nat /\ From(q, g) \in Nat /\ t \in Nat
  BY PeriodFacts, FromNat DEF Begins, Dated
<1> HIDE DEF q
<1>2. SUFFICES ASSUME p <= q PROVE FALSE
  BY <1>1 DEF q
<1>3. From(p, g) <= From(q, g)
  BY <1>1, <1>2, FromMonotone
<1> QED
  BY <1>1, <1>3

(* A period is what lies between two starts. *)
LEMMA PeriodIsWithin ==
    ASSUME NEW g \in Granularities, NEW t, Dated(t),
           NEW p, Begins(p, g), Begins(p + 1, g)
    PROVE  Within(t, p, g) <=> PeriodOf(t, g) = p
<1>1. ASSUME Within(t, p, g) PROVE PeriodOf(t, g) = p
  <2>1. p <= PeriodOf(t, g) /\ PeriodOf(t, g) < p + 1
    BY <1>1, PeriodReached, PeriodLeft DEF Within
  <2>2. PeriodOf(t, g) \in Nat /\ p \in Nat
    BY PeriodFacts DEF Begins
  <2> QED
    BY <2>1, <2>2
<1>2. ASSUME PeriodOf(t, g) = p PROVE Within(t, p, g)
  BY <1>2, PeriodFacts DEF Within
<1> QED
  BY <1>1, <1>2

(* Later moments are in later periods.                                        *)
LEMMA PeriodMonotone ==
    ASSUME NEW g \in Granularities, NEW t, NEW u, Dated(t), Dated(u), t <= u
    PROVE  PeriodOf(t, g) <= PeriodOf(u, g)
<1>1. /\ Begins(PeriodOf(t, g), g) /\ From(PeriodOf(t, g), g) <= t
      /\ From(PeriodOf(t, g), g) \in Nat
  BY PeriodFacts, FromNat
<1>2. From(PeriodOf(t, g), g) <= u
  BY <1>1 DEF Dated
<1> QED
  BY <1>1, <1>2, PeriodReached

(* One step of the date goes past the end of its period. *)
LEMMA IncrementFacts ==
    ASSUME NEW g \in Granularities, NEW t, Dated(t)
    PROVE  LET p == PeriodOf(t, g) IN
           /\ Increment(t, g) = t + (From(p + 1, g) - From(p, g))
           /\ Increment(t, g) \in Nat /\ t < Increment(t, g)
           /\ From(p + 1, g) <= Increment(t, g)
<1> DEFINE p == PeriodOf(t, g)
           a == From(p, g)
           b == From(p + 1, g)
<1>1. a \in Nat /\ b \in Nat /\ a <= t /\ t < b /\ t \in Nat
  BY PeriodFacts, FromNat DEF Dated
<1>2. Increment(t, g) = t + (b - a)
  <2>1. CASE g = "monthly"
    BY <2>1 DEF Increment, From, PeriodOf
  <2>2. CASE g # "monthly"
    <3>1. p \in Nat /\ PeriodLength[g] \in Nat
      BY <2>2, PeriodFacts, GranularityFacts DEF Begins
    <3>2. (p + 1) * PeriodLength[g] - p * PeriodLength[g] = PeriodLength[g]
      BY <3>1
    <3> QED
      BY <2>2, <3>2 DEF Increment, From
  <2> QED
    BY <2>1, <2>2
<1> HIDE DEF a, b
<1>3. Increment(t, g) \in Nat /\ t < Increment(t, g) /\ b <= Increment(t, g)
  BY <1>1, <1>2
<1> QED
  BY <1>2, <1>3 DEF a, b

-----------------------------------------------------------------------------
(* The zeros that are laid out first. *)

(* The point that the loop puts at a date.                                    *)
Zero(t, g) == [period |-> PeriodOf(t, g), value |-> 0]

(* The recursion of Zeros: what the loop lays from each date on.              *)
Lays(z, ask) ==
    z = [t \in Nat |-> IF t > ask.end THEN <<>>
                       ELSE <<Zero(t, ask.granularity)>> \o z[Increment(t, ask.granularity)]]

(* Zeros is what it lays from the start on.                                   *)
LEMMA ZerosIs ==
    ASSUME NEW ask
    PROVE  Zeros(ask) = (CHOOSE z : Lays(z, ask))[ask.start]
  BY DEF Zeros, Lays, Zero

(* What a client may ask about: a series of periods up to a known moment.      *)
SeriesAsk(ask) ==
    /\ ask.granularity \in Granularities
    /\ ask.start \in Nat /\ ask.end \in Nat /\ Dated(ask.end)

(* The calendar reaches whatever is earlier than what it reaches.             *)
LEMMA EarlierDated ==
    ASSUME NEW t \in Nat, NEW u, Dated(u), t <= u
    PROVE  Dated(t)
<1>1. u \in Nat /\ \A m \in Months : MonthStart[m] \in Nat
  BY ReportsAssumption DEF Dated, Months
<1>2. PICK m \in Months : u < MonthStart[m]
  BY DEF Dated
<1>3. t < MonthStart[m]
  BY <1>1, <1>2
<1> QED
  BY <1>3 DEF Dated

(* One point in front of others.                                              *)
LEMMA FrontFacts ==
    ASSUME NEW s \in Seq(Point), NEW a \in Point
    PROVE  /\ <<a>> \o s \in Seq(Point)
           /\ Len(<<a>> \o s) = Len(s) + 1
           /\ (<<a>> \o s)[1] = a
           /\ \A i \in 2..Len(s) + 1 : (<<a>> \o s)[i] = s[i - 1]
<1>1. <<a>> \in Seq(Point) /\ Len(<<a>>) = 1 /\ <<a>>[1] = a /\ Len(s) \in Nat
  OBVIOUS
<1>2. /\ <<a>> \o s \in Seq(Point) /\ Len(<<a>> \o s) = Len(<<a>>) + Len(s)
      /\ \A i \in 1..Len(<<a>>) + Len(s) :
            (<<a>> \o s)[i] = IF i <= Len(<<a>>) THEN <<a>>[i] ELSE s[i - Len(<<a>>)]
  BY <1>1, ConcatProperties
<1> QED
  BY <1>1, <1>2

(* The points are of the type of points.                                      *)
LEMMA ZeroPoint ==
    ASSUME NEW g \in Granularities, NEW t, Dated(t)
    PROVE  Zero(t, g) \in Point /\ PeriodOf(t, g) \in Nat
  BY PeriodFacts DEF Zero, Point, Begins

(* There is such a function: each step brings the date closer to the end.     *)
LEMMA LaysExists ==
    ASSUME NEW ask, SeriesAsk(ask)
    PROVE  \E z \in [Nat -> Seq(Point)] : Lays(z, ask)
<1> DEFINE g       == ask.granularity
           End     == {t \in Nat : t > ask.end}
           next    == [t \in Nat \ End |-> Increment(t, g)]
           step    == [t \in Nat \ End |-> [v \in Seq(Point) |-> <<Zero(t, g)>> \o v]]
           measure == [t \in Nat |-> IF t > ask.end THEN 0 ELSE ask.end + 1 - t]
           N       == ask.end + 1
<1>1. g \in Granularities /\ ask.end \in Nat /\ N \in Nat
  BY DEF SeriesAsk
<1>2. ASSUME NEW t \in Nat \ End
      PROVE  /\ Dated(t) /\ Zero(t, g) \in Point
             /\ Increment(t, g) \in Nat /\ t < Increment(t, g)
  <2>1. Dated(t)
    BY <1>1, EarlierDated DEF SeriesAsk
  <2> QED
    BY <1>1, <2>1, ZeroPoint, IncrementFacts
<1>3. \A t \in Nat \ End : \A v \in Seq(Point) : <<Zero(t, g)>> \o v \in Seq(Point)
  BY <1>2, FrontFacts
<1>4. next \in [Nat \ End -> Nat] /\ step \in [Nat \ End -> [Seq(Point) -> Seq(Point)]]
  BY <1>2, <1>3
<1>5. measure \in [Nat -> 0..N]
  BY <1>1
<1>6. ASSUME NEW t \in Nat \ End PROVE measure[next[t]] < measure[t]
  <2>1. next[t] = Increment(t, g) /\ next[t] \in Nat /\ t < next[t]
    BY <1>2
  <2> HIDE DEF next
  <2> QED
    BY <1>1, <2>1
<1>7. End \in SUBSET Nat /\ <<>> \in Seq(Point)
  OBVIOUS
<1> HIDE DEF N, measure, next, step, End
<1>8. PICK z \in [Nat -> Seq(Point)] : Satisfies(z, Nat, End, <<>>, next, step)
  BY <1>1, <1>4, <1>5, <1>6, <1>7, RecursionExists, Zenon
<1>9. ASSUME NEW t \in Nat
      PROVE  z[t] = IF t > ask.end THEN <<>> ELSE <<Zero(t, g)>> \o z[Increment(t, g)]
  <2>1. CASE t > ask.end
    BY <1>8, <2>1 DEF Satisfies, End
  <2>2. CASE ~ (t > ask.end)
    <3>1. t \in Nat \ End
      BY <2>2 DEF End
    <3>2. next[t] = Increment(t, g) /\ z[next[t]] \in Seq(Point)
      BY <1>4, <3>1 DEF next
    <3>3. step[t][z[next[t]]] = <<Zero(t, g)>> \o z[next[t]]
      BY <3>1, <3>2 DEF step
    <3> QED
      BY <1>8, <2>2, <3>1, <3>2, <3>3 DEF Satisfies
  <2> QED
    BY <2>1, <2>2
<1>10. Lays(z, ask)
  BY <1>8, <1>9 DEF Lays
<1> QED
  BY <1>8, <1>10

(* Zeros of periods one after the other, all from lo to hi. *)
Laid(s, lo, hi) ==
    /\ s \in Seq(Point)
    /\ \A i \in 1..Len(s) : s[i].value = 0 /\ lo <= s[i].period /\ s[i].period <= hi
    /\ \A i, j \in 1..Len(s) : i < j => s[i].period < s[j].period

(* An earlier zero in front of zeros of later periods.                        *)
LEMMA LaidFront ==
    ASSUME NEW p \in Nat, NEW lo \in Nat, NEW hi \in Nat, p < lo, p <= hi,
           NEW s, Laid(s, lo, hi)
    PROVE  Laid(<<[period |-> p, value |-> 0]>> \o s, p, hi)
<1> DEFINE a == [period |-> p, value |-> 0]
           r == <<a>> \o s
<1>1. s \in Seq(Point) /\ a \in Point /\ Len(s) \in Nat
  BY DEF Laid, Point
<1>2. /\ r \in Seq(Point) /\ Len(r) = Len(s) + 1 /\ r[1] = a
      /\ \A i \in 2..Len(s) + 1 : r[i] = s[i - 1]
  BY <1>1, FrontFacts
<1> HIDE DEF r
<1>3. \A i \in 1..Len(s) : s[i].period \in Nat /\ s[i].value \in Nat
  <2>1. \A i \in 1..Len(s) : s[i] \in Point
    BY <1>1, ElementOfSeq
  <2> QED
    BY <2>1 DEF Point
<1>4. ASSUME NEW i \in 1..Len(r)
      PROVE  r[i].value = 0 /\ p <= r[i].period /\ r[i].period <= hi
  <2>1. CASE i = 1
    BY <1>2, <2>1
  <2>2. CASE i # 1
    <3>1. i - 1 \in 1..Len(s) /\ r[i] = s[i - 1]
      BY <1>1, <1>2, <2>2
    <3> QED
      BY <1>3, <3>1 DEF Laid
  <2> QED
    BY <2>1, <2>2
<1>5. ASSUME NEW i \in 1..Len(r), NEW j \in 1..Len(r), i < j
      PROVE  r[i].period < r[j].period
  <2>1. j - 1 \in 1..Len(s) /\ r[j] = s[j - 1]
    BY <1>1, <1>2, <1>5
  <2>2. CASE i = 1
    BY <1>2, <1>3, <2>1, <2>2 DEF Laid
  <2>3. CASE i # 1
    <3>1. i - 1 \in 1..Len(s) /\ r[i] = s[i - 1] /\ i - 1 < j - 1
      BY <1>1, <1>2, <1>5, <2>3
    <3> QED
      BY <2>1, <3>1 DEF Laid
  <2> QED
    BY <2>2, <2>3
<1> QED
  BY <1>2, <1>4, <1>5 DEF Laid, r

(* From any date of the range on, the loop lays zeros of ever later periods.   *)
LEMMA LaysLaid ==
    ASSUME NEW ask, SeriesAsk(ask), NEW z, Lays(z, ask), NEW t \in Nat, t <= ask.end
    PROVE  Laid(z[t], PeriodOf(t, ask.granularity), PeriodOf(ask.end, ask.granularity))
<1> DEFINE g    == ask.granularity
           last == PeriodOf(ask.end, g)
           T    == {m \in Nat : \A u \in Nat : u <= ask.end /\ ask.end - u <= m
                                  => Laid(z[u], PeriodOf(u, g), last)}
<1>1. g \in Granularities /\ ask.end \in Nat /\ Dated(ask.end) /\ last \in Nat
  BY ZeroPoint DEF SeriesAsk
<1>2. \A u \in Nat : z[u] = IF u > ask.end THEN <<>> ELSE <<Zero(u, g)>> \o z[Increment(u, g)]
  BY Zenon DEF Lays
<1>3. ASSUME NEW u \in Nat, u <= ask.end,
             Increment(u, g) <= ask.end
                => Laid(z[Increment(u, g)], PeriodOf(Increment(u, g), g), last)
      PROVE  Laid(z[u], PeriodOf(u, g), last)
  <2> DEFINE p == PeriodOf(u, g)
             v == Increment(u, g)
  <2>1. Dated(u) /\ p \in Nat /\ p <= last
    BY <1>1, <1>3, EarlierDated, ZeroPoint, PeriodMonotone
  <2>2. v \in Nat /\ From(p + 1, g) <= v /\ Begins(p + 1, g)
    BY <1>1, <2>1, IncrementFacts, PeriodFacts
  <2>3. z[u] = <<[period |-> p, value |-> 0]>> \o z[v]
    <3>1. ~ (u > ask.end)
      BY <1>1, <1>3
    <3>2. z[u] = <<Zero(u, g)>> \o z[v]
      BY <1>2, <3>1, Zenon
    <3> QED
      BY <3>2, Zenon DEF Zero
  <2>4. \E lo \in Nat : p < lo /\ Laid(z[v], lo, last)
    <3>1. CASE v <= ask.end
      <4>1. Dated(v)
        BY <1>1, <2>2, <3>1, EarlierDated
      <4>2. PeriodOf(v, g) \in Nat /\ p + 1 <= PeriodOf(v, g)
        BY <1>1, <2>2, <4>1, ZeroPoint, PeriodReached
      <4>3. p < PeriodOf(v, g)
        BY <2>1, <4>2
      <4> QED
        BY <1>3, <3>1, <4>2, <4>3
    <3>2. CASE ~ (v <= ask.end)
      <4>1. v > ask.end
        BY <1>1, <2>2, <3>2
      <4>2. z[v] = <<>>
        BY <1>2, <2>2, <4>1
      <4>3. Laid(<<>>, p + 1, last)
        BY DEF Laid
      <4> QED
        BY <2>1, <4>2, <4>3
    <3> QED
      BY <3>1, <3>2
  <2> HIDE DEF p, v, last
  <2>5. PICK lo \in Nat : p < lo /\ Laid(z[v], lo, last)
    BY <2>4
  <2>6. Laid(<<[period |-> p, value |-> 0]>> \o z[v], p, last)
    BY <1>1, <2>1, <2>5, LaidFront
  <2> QED
    BY <2>3, <2>6 DEF p
<1>4. 0 \in T
  <2> SUFFICES ASSUME NEW u \in Nat, u <= ask.end, ask.end - u <= 0
               PROVE  Laid(z[u], PeriodOf(u, g), last)
    OBVIOUS
  <2>1. u = ask.end
    BY <1>1
  <2>2. ~ (Increment(u, g) <= ask.end)
    BY <1>1, <2>1, IncrementFacts
  <2> QED
    BY <1>3, <2>2
<1>5. ASSUME NEW m \in T PROVE m + 1 \in T
  <2> SUFFICES ASSUME NEW u \in Nat, u <= ask.end, ask.end - u <= m + 1
               PROVE  Laid(z[u], PeriodOf(u, g), last)
    BY <1>5
  <2> DEFINE v == Increment(u, g)
  <2>1. v \in Nat /\ u < v
    BY <1>1, EarlierDated, IncrementFacts
  <2>2. v <= ask.end => ask.end - v <= m
    <3> HIDE DEF v
    <3> QED
      BY <1>1, <1>5, <2>1
  <2>3. v <= ask.end => Laid(z[v], PeriodOf(v, g), last)
    BY <1>5, <2>1, <2>2
  <2> QED
    BY <1>3, <2>3
<1> HIDE DEF T
<1>6. T = Nat
  <2>1. T \in SUBSET Nat
    BY DEF T
  <2> QED
    BY <1>4, <1>5, <2>1, NatSetInduction
<1>7. ask.end - t \in T /\ ask.end - t <= ask.end - t
  BY <1>1, <1>6
<1> QED
  BY <1>7 DEF T

(* The calendar knows the start of whatever is earlier than what it knows.    *)
LEMMA BeginsEarlier ==
    ASSUME NEW g \in Granularities, NEW q, Begins(q, g), NEW p \in Nat, 1 <= p, p <= q
    PROVE  Begins(p, g)
<1>1. Len(MonthStart) \in Nat
  BY ReportsAssumption
<1> QED
  BY <1>1 DEF Begins, Months

(* No hole from period p on, until the last one or the last but one. *)
Dense(s, p, off, ask) ==
    LET last == PeriodOf(ask.end, ask.granularity) IN
    /\ s \in Seq(Point)
    /\ \A i \in 1..Len(s) : s[i].period = p + i - 1
    /\ \/ Len(s) = last - p + 1
       \/ Len(s) = last - p /\ off > Offset(ask.end, ask.granularity)

(* The period before, in front.                                               *)
LEMMA DenseFront ==
    ASSUME NEW ask, SeriesAsk(ask), NEW p \in Nat, NEW off \in Nat, NEW s, Dense(s, p + 1, off, ask)
    PROVE  Dense(<<[period |-> p, value |-> 0]>> \o s, p, off, ask)
<1> DEFINE a == [period |-> p, value |-> 0]
           r == <<a>> \o s
           last == PeriodOf(ask.end, ask.granularity)
<1>1. s \in Seq(Point) /\ a \in Point /\ Len(s) \in Nat
  BY DEF Dense, Point
<1>2. /\ r \in Seq(Point) /\ Len(r) = Len(s) + 1 /\ r[1] = a
      /\ \A i \in 2..Len(s) + 1 : r[i] = s[i - 1]
  BY <1>1, FrontFacts
<1>3. last \in Nat
  BY ZeroPoint DEF SeriesAsk
<1>4. /\ \A i \in 1..Len(s) : s[i].period = (p + 1) + i - 1
      /\ \/ Len(s) = last - (p + 1) + 1
         \/ Len(s) = last - (p + 1) /\ off > Offset(ask.end, ask.granularity)
  BY DEF Dense
<1> HIDE DEF r, last
<1>5. ASSUME NEW i \in 1..Len(r) PROVE r[i].period = p + i - 1
  <2>1. CASE i = 1
    BY <1>2, <2>1
  <2>2. CASE i # 1
    <3>1. i - 1 \in 1..Len(s) /\ r[i] = s[i - 1]
      BY <1>1, <1>2, <2>2
    <3> QED
      BY <1>4, <3>1
  <2> QED
    BY <2>1, <2>2
<1>6. \/ Len(r) = last - p + 1
      \/ Len(r) = last - p /\ off > Offset(ask.end, ask.granularity)
  <2>1. CASE Len(s) = last - (p + 1) + 1
    <3>1. Len(r) = last - p + 1
      BY <1>1, <1>2, <1>3, <2>1
    <3> QED
      BY <3>1
  <2>2. CASE Len(s) = last - (p + 1) /\ off > Offset(ask.end, ask.granularity)
    <3>1. Len(r) = last - p
      BY <1>1, <1>2, <1>3, <2>2
    <3> QED
      BY <2>2, <3>1
  <2> QED
    BY <1>4, <2>1, <2>2
<1> QED
  BY <1>2, <1>5, <1>6 DEF Dense, r, last

(* When every period is longer than the offset of the date in its period, the  *)
(* next date is in the next period, at the same offset.                        *)
LEMMA NextPeriod ==
    ASSUME NEW g \in Granularities, NEW u, Dated(u), Dated(Increment(u, g)),
           \A q \in Nat : Begins(q, g) /\ Begins(q + 1, g) /\ q <= PeriodOf(Increment(u, g), g)
                             /\ PeriodOf(u, g) <= q
              => Offset(u, g) < From(q + 1, g) - From(q, g)
    PROVE  /\ PeriodOf(Increment(u, g), g) = PeriodOf(u, g) + 1
           /\ Offset(Increment(u, g), g) = Offset(u, g)
<1> DEFINE p == PeriodOf(u, g)
           v == Increment(u, g)
           q == PeriodOf(v, g)
<1>1. /\ p \in Nat /\ q \in Nat /\ u \in Nat /\ v \in Nat
      /\ Begins(p, g) /\ Begins(p + 1, g) /\ Begins(q + 1, g) /\ From(p, g) \in Nat
      /\ From(p + 1, g) \in Nat
      /\ v = u + (From(p + 1, g) - From(p, g)) /\ From(p + 1, g) <= v
  BY PeriodFacts, IncrementFacts, FromNat DEF Begins, Dated
<1>2. p + 1 <= q
  BY <1>1, PeriodReached
<1>3. Begins(p + 2, g) /\ (p + 1) + 1 = p + 2
  <2>1. p + 2 \in Nat /\ 1 <= p + 2 /\ p + 2 <= q + 1
    BY <1>1, <1>2
  <2> QED
    BY <1>1, <2>1, BeginsEarlier
<1>4. Offset(u, g) = u - From(p, g)
  BY DEF Offset
<1>5. p + 1 \in Nat /\ p <= p + 1 /\ From(p + 2, g) \in Nat
  BY <1>1, <1>3, FromNat
<1>6. Offset(u, g) < From(p + 2, g) - From(p + 1, g)
  <2> HIDE DEF p, q, v
  <2>1. Offset(u, g) < From((p + 1) + 1, g) - From(p + 1, g)
    BY <1>1, <1>2, <1>3, <1>5, Zenon DEF p, q, v
  <2> QED
    BY <1>3, <2>1
<1> HIDE DEF p, q, v
<1>7. v < From(p + 2, g)
  BY <1>1, <1>4, <1>5, <1>6
<1>8. q < p + 2
  BY <1>3, <1>7, PeriodLeft DEF q, v
<1>9. q = p + 1
  BY <1>1, <1>2, <1>8
<1>10. Offset(v, g) = v - From(p + 1, g)
  BY <1>9 DEF Offset, q
<1>11. Offset(v, g) = Offset(u, g)
  BY <1>1, <1>4, <1>10
<1> QED
  BY <1>9, <1>11 DEF p, q, v

(* From any date of the range on, when every period has the offset of the     *)
(* date, the zeros leave no hole.                                             *)
LEMMA LaysDense ==
    ASSUME NEW ask, SeriesAsk(ask), NEW z, Lays(z, ask), NEW t \in Nat, t <= ask.end,
           \A q \in Nat : /\ Begins(q, ask.granularity) /\ Begins(q + 1, ask.granularity)
                          /\ PeriodOf(t, ask.granularity) <= q
                          /\ q <= PeriodOf(ask.end, ask.granularity)
              => Offset(t, ask.granularity)
                    < From(q + 1, ask.granularity) - From(q, ask.granularity)
    PROVE  Dense(z[t], PeriodOf(t, ask.granularity), Offset(t, ask.granularity), ask)
<1> DEFINE g    == ask.granularity
           last == PeriodOf(ask.end, g)
           low  == PeriodOf(t, g)
           off  == Offset(t, g)
           Fits(q) == off < From(q + 1, g) - From(q, g)
           Known(u) == u <= ask.end /\ low <= PeriodOf(u, g) /\ Offset(u, g) = off
           T    == {m \in Nat : \A u \in Nat : Known(u) /\ ask.end - u <= m
                                  => Dense(z[u], PeriodOf(u, g), off, ask)}
<1>1. /\ g \in Granularities /\ ask.end \in Nat /\ Dated(ask.end) /\ last \in Nat
      /\ Dated(t) /\ low \in Nat
  BY ZeroPoint, EarlierDated DEF SeriesAsk
<1>2. \A u \in Nat : z[u] = IF u > ask.end THEN <<>> ELSE <<Zero(u, g)>> \o z[Increment(u, g)]
  BY Zenon DEF Lays
<1>3. \A q \in Nat : Begins(q, g) /\ Begins(q + 1, g) /\ low <= q /\ q <= last => Fits(q)
  OBVIOUS
<1>4. off \in Nat
  <2>1. From(low, g) \in Nat /\ From(low, g) <= t
    BY <1>1, PeriodFacts, FromNat
  <2> QED
    BY <2>1 DEF Offset
<1> HIDE DEF off, low
<1>5. ASSUME NEW u \in Nat, Known(u),
             Increment(u, g) <= ask.end /\ Known(Increment(u, g))
                => Dense(z[Increment(u, g)], PeriodOf(Increment(u, g), g), off, ask)
      PROVE  Dense(z[u], PeriodOf(u, g), off, ask)
  <2> DEFINE p == PeriodOf(u, g)
             v == Increment(u, g)
  <2>1. Dated(u) /\ p \in Nat /\ p <= last /\ low <= p /\ Offset(u, g) = off
    BY <1>1, <1>5, EarlierDated, ZeroPoint, PeriodMonotone
  <2>2. /\ v \in Nat /\ v = u + (From(p + 1, g) - From(p, g)) /\ Begins(p + 1, g)
        /\ From(p, g) \in Nat /\ From(p + 1, g) \in Nat /\ p + 1 \in Nat
    BY <1>1, <2>1, IncrementFacts, PeriodFacts, FromNat
  <2>3. z[u] = <<[period |-> p, value |-> 0]>> \o z[v]
    <3>1. ~ (u > ask.end)
      BY <1>1, <1>5
    <3>2. z[u] = <<Zero(u, g)>> \o z[v]
      BY <1>2, <3>1, Zenon
    <3> QED
      BY <3>2, Zenon DEF Zero
  <2>4. CASE v <= ask.end
    <3>1. Dated(v) /\ PeriodOf(v, g) <= last
      BY <1>1, <2>2, <2>4, EarlierDated, PeriodMonotone
    <3>2. \A q \in Nat : Begins(q, g) /\ Begins(q + 1, g) /\ q <= PeriodOf(v, g) /\ p <= q
            => Offset(u, g) < From(q + 1, g) - From(q, g)
      <4> SUFFICES ASSUME NEW q \in Nat, Begins(q, g), Begins(q + 1, g),
                          q <= PeriodOf(v, g), p <= q
                   PROVE  Offset(u, g) < From(q + 1, g) - From(q, g)
        OBVIOUS
      <4>1. PeriodOf(v, g) \in Nat
        BY <1>1, <3>1, ZeroPoint
      <4> HIDE DEF p, v, last
      <4>2. low <= q /\ q <= last
        BY <1>1, <2>1, <3>1, <4>1
      <4> QED
        BY <1>3, <2>1, <4>2, Zenon
    <3>3. PeriodOf(v, g) = p + 1 /\ Offset(v, g) = off
      BY <1>1, <2>1, <3>1, <3>2, NextPeriod
    <3>4. Known(v)
      BY <1>1, <2>1, <2>4, <3>3
    <3>5. Dense(z[v], p + 1, off, ask)
      BY <1>5, <2>4, <3>3, <3>4
    <3> QED
      BY <1>4, <2>1, <2>3, <3>5, DenseFront
  <2>5. CASE ~ (v <= ask.end)
    <3>1. v > ask.end
      BY <1>1, <2>2, <2>5
    <3>2. z[v] = <<>>
      BY <1>2, <2>2, <3>1
    <3>3. Dense(<<>>, p + 1, off, ask)
      <4>1. off = u - From(p, g) /\ v = From(p + 1, g) + off /\ u \in Nat
        BY <2>1, <2>2 DEF Offset
      <4>2. /\ Begins(last, g) /\ Begins(last + 1, g) /\ From(last, g) <= ask.end
            /\ From(last, g) \in Nat
        BY <1>1, PeriodFacts, FromNat
      <4>3. CASE p = last
        BY <1>1, <2>1, <4>3 DEF Dense
      <4>4. CASE p # last
        <5>1. p + 1 <= last
          BY <1>1, <2>1, <4>4
        <5>2. ~ (p + 2 <= last)
          <6> SUFFICES ASSUME p + 2 <= last PROVE FALSE
            OBVIOUS
          <6>1. p + 2 \in Nat /\ (p + 1) + 1 = p + 2 /\ 1 <= p + 2 /\ low <= p + 1
            BY <1>1, <2>1
          <6>2. Begins(p + 2, g)
            BY <1>1, <4>2, <6>1, BeginsEarlier
          <6>3. Fits(p + 1)
            BY <1>3, <2>2, <5>1, <6>1, <6>2
          <6>4. From(p + 2, g) <= From(last, g) /\ From(p + 2, g) \in Nat
            BY <1>1, <4>2, <6>2, FromMonotone, FromNat
          <6>5. off < From(p + 2, g) - From(p + 1, g)
            BY <6>1, <6>3
          <6> HIDE DEF v, p, last
          <6> QED
            BY <1>1, <1>4, <2>2, <3>1, <4>1, <4>2, <6>4, <6>5
        <5>3. last = p + 1
          BY <1>1, <2>1, <5>1, <5>2
        <5>4. Offset(ask.end, g) = ask.end - From(p + 1, g)
          BY <5>3 DEF Offset
        <5>5. off > Offset(ask.end, g)
          BY <1>1, <1>4, <2>2, <3>1, <4>1, <5>4
        <5>6. Len(<<>>) = last - (p + 1)
          BY <2>1, <5>3
        <5> QED
          BY <5>5, <5>6 DEF Dense
      <4> QED
        BY <4>3, <4>4
    <3>4. Dense(z[v], p + 1, off, ask)
      BY <3>2, <3>3
    <3> QED
      BY <1>4, <2>1, <2>3, <3>4, DenseFront
  <2> QED
    BY <2>4, <2>5
<1>6. 0 \in T
  <2> SUFFICES ASSUME NEW u \in Nat, Known(u), ask.end - u <= 0
               PROVE  Dense(z[u], PeriodOf(u, g), off, ask)
    OBVIOUS
  <2>1. u = ask.end
    BY <1>1
  <2>2. ~ (Increment(u, g) <= ask.end)
    BY <1>1, <2>1, IncrementFacts
  <2> QED
    BY <1>5, <2>2
<1>7. ASSUME NEW m \in T PROVE m + 1 \in T
  <2> SUFFICES ASSUME NEW u \in Nat, Known(u), ask.end - u <= m + 1
               PROVE  Dense(z[u], PeriodOf(u, g), off, ask)
    BY <1>7
  <2> DEFINE v == Increment(u, g)
  <2>1. v \in Nat /\ u < v
    BY <1>1, EarlierDated, IncrementFacts
  <2>2. v <= ask.end => ask.end - v <= m
    <3> HIDE DEF v
    <3> QED
      BY <1>1, <1>7, <2>1
  <2>3. v <= ask.end /\ Known(v) => Dense(z[v], PeriodOf(v, g), off, ask)
    BY <1>7, <2>1, <2>2
  <2> QED
    BY <1>5, <2>3
<1> HIDE DEF T
<1>8. T = Nat
  <2>1. T \in SUBSET Nat
    BY DEF T
  <2> QED
    BY <1>6, <1>7, <2>1, NatSetInduction
<1>9. ask.end - t \in T /\ ask.end - t <= ask.end - t
  BY <1>1, <1>8
<1>10. Known(t)
  BY <1>1 DEF low, off
<1>11. Dense(z[t], PeriodOf(t, g), off, ask)
  BY <1>9, <1>10 DEF T
<1> QED
  BY <1>11 DEF off

(* The loop over the range, as the facts about it that are used. *)
LEMMA ZerosFacts ==
    ASSUME NEW ask, SeriesAsk(ask)
    PROVE  LET g     == ask.granularity
               first == PeriodOf(ask.start, g)
               last  == PeriodOf(ask.end, g) IN
           /\ Zeros(ask) \in Seq(Point)
           /\ ask.start > ask.end => Zeros(ask) = <<>>
           /\ ask.start <= ask.end =>
                 /\ Laid(Zeros(ask), first, last)
                 /\ (\A q \in Nat : Begins(q, g) /\ Begins(q + 1, g) /\ first <= q /\ q <= last
                        => Offset(ask.start, g) < From(q + 1, g) - From(q, g))
                    => Dense(Zeros(ask), first, Offset(ask.start, g), ask)
<1> DEFINE z == CHOOSE y : Lays(y, ask)
<1>1. Lays(z, ask)
  BY LaysExists
<1>2. Zeros(ask) = z[ask.start]
  BY ZerosIs
<1> HIDE DEF z
<1>3. ask.start \in Nat /\ ask.end \in Nat
  BY DEF SeriesAsk
<1>4. \A u \in Nat : z[u] = IF u > ask.end THEN <<>>
                            ELSE <<Zero(u, ask.granularity)>> \o z[Increment(u, ask.granularity)]
  BY <1>1, Zenon DEF Lays
<1>5. ask.start > ask.end => Zeros(ask) = <<>>
  BY <1>2, <1>3, <1>4
<1>6. ask.start <= ask.end =>
         Laid(Zeros(ask), PeriodOf(ask.start, ask.granularity), PeriodOf(ask.end, ask.granularity))
  BY <1>1, <1>2, <1>3, LaysLaid
<1>7. ASSUME ask.start <= ask.end,
             \A q \in Nat : /\ Begins(q, ask.granularity) /\ Begins(q + 1, ask.granularity)
                            /\ PeriodOf(ask.start, ask.granularity) <= q
                            /\ q <= PeriodOf(ask.end, ask.granularity)
                 => Offset(ask.start, ask.granularity)
                      < From(q + 1, ask.granularity) - From(q, ask.granularity)
      PROVE  Dense(Zeros(ask), PeriodOf(ask.start, ask.granularity),
                   Offset(ask.start, ask.granularity), ask)
  BY <1>1, <1>2, <1>3, <1>7, LaysDense
<1>8. Zeros(ask) \in Seq(Point)
  <2>1. ask.start > ask.end \/ ask.start <= ask.end
    BY <1>3
  <2> QED
    BY <1>5, <1>6, <2>1, EmptySeq DEF Laid
<1> QED
  BY <1>5, <1>6, <1>7, <1>8

-----------------------------------------------------------------------------
(* The fold of the values. *)

(* The recursion of the fold, which takes the last item of a set last.        *)
Folds(h, seq, base) ==
    h = [S \in SUBSET DOMAIN seq |->
            IF S = {} THEN base ELSE Add(h[S \ {Max(S)}], seq[Max(S)])]

(* The Map of groupDataByGranularity after the items of seq.                  *)
Folded(base, seq) == FoldLeft(Add, base, seq)

(* The fold by its definition in the community modules.                       *)
LEMMA FoldIs ==
    ASSUME NEW seq, NEW base
    PROVE  Folded(base, seq) = (CHOOSE h : Folds(h, seq, base))[DOMAIN seq]
  BY DEF Folded, FoldLeft, MapThenFoldSet, Folds

(* The last of the first k.                                                   *)
LEMMA LastOfUpto ==
    ASSUME NEW k \in Nat, k > 0
    PROVE  Max(1..k) = k /\ (1..k) \ {k} = 1..(k - 1)
<1>1. \E x \in 1..k : \A y \in 1..k : x >= y
  OBVIOUS
<1>2. Max(1..k) \in 1..k /\ \A y \in 1..k : Max(1..k) >= y
  BY <1>1 DEF Max
<1> QED
  BY <1>2

(* A set of positions that is not empty has a last one.                       *)
LEMMA MaxIn ==
    ASSUME NEW n \in Nat, NEW S \in SUBSET (1..n), S # {}
    PROVE  Max(S) \in S
<1> DEFINE Above == {b \in Nat : \A y \in S : b >= y}
<1>1. n \in Above /\ Above \subseteq Nat
  OBVIOUS
<1>2. PICK m \in Above : \A b \in Above : m <= b
  BY <1>1, LeastNat
<1>3. m \in S
  <2> SUFFICES ASSUME m \notin S PROVE FALSE
    OBVIOUS
  <2>1. \A y \in S : y \in 1..n /\ m >= y /\ y # m
    BY <1>2
  <2>2. m > 0 /\ m \in Nat
    <3>1. PICK y \in S : TRUE
      OBVIOUS
    <3> QED
      BY <1>1, <2>1, <3>1
  <2>3. m - 1 \in Above
    BY <2>1, <2>2
  <2> QED
    BY <1>2, <2>2, <2>3
<1>4. \E x \in S : \A y \in S : x >= y
  BY <1>2, <1>3
<1> QED
  BY <1>4 DEF Max

(* Add to a period that is there. *)
LEMMA AddThere ==
    ASSUME NEW points \in Seq(Point), NEW item \in Point,
           \E i \in DOMAIN points : points[i].period = item.period
    PROVE  /\ Add(points, item) \in Seq(Point)
           /\ Len(Add(points, item)) = Len(points)
           /\ \A i \in 1..Len(points) :
                 Add(points, item)[i] =
                    IF points[i].period = item.period
                    THEN [period |-> points[i].period, value |-> points[i].value + item.value]
                    ELSE points[i]
<1> DEFINE n == Len(points)
           New(i) == IF points[i].period = item.period
                     THEN [period |-> points[i].period, value |-> points[i].value + item.value]
                     ELSE points[i]
           r == Add(points, item)
<1>1. /\ n \in Nat /\ DOMAIN points = 1..n
      /\ \A i \in 1..n : points[i] \in Point
  BY ElementOfSeq
<1>2. \A i \in 1..n : /\ points[i] = [period |-> points[i].period, value |-> points[i].value]
                      /\ points[i].period \in Nat /\ points[i].value \in Nat
  BY <1>1 DEF Point
<1>3. item.period \in Nat /\ item.value \in Nat
  BY DEF Point
<1>4. \A i \in 1..n : New(i) \in Point
  BY <1>1, <1>2, <1>3 DEF Point
<1>5. \A i \in 1..n : [points[i] EXCEPT !.value = @ + item.value]
                         = [period |-> points[i].period, value |-> points[i].value + item.value]
  <2> SUFFICES ASSUME NEW i \in 1..n
               PROVE  [points[i] EXCEPT !.value = @ + item.value]
                         = [period |-> points[i].period, value |-> points[i].value + item.value]
    OBVIOUS
  <2>1. PICK a \in Nat, b \in Nat : points[i] = [period |-> a, value |-> b]
    BY <1>2
  <2> QED
    BY <2>1
<1>6. r = [i \in 1..n |-> New(i)]
  BY <1>1, <1>5 DEF Add
<1>7. r \in [1..n -> Point] /\ \A i \in 1..n : r[i] = New(i)
  BY <1>4, <1>6
<1> HIDE DEF r
<1>8. r \in Seq(Point) /\ Len(r) = n
  BY <1>1, <1>7
<1> QED
  BY <1>7, <1>8 DEF r

(* Add to a period that is not. *)
LEMMA AddNew ==
    ASSUME NEW points \in Seq(Point), NEW item \in Point,
           ~ (\E i \in DOMAIN points : points[i].period = item.period)
    PROVE  /\ Add(points, item) \in Seq(Point)
           /\ Len(Add(points, item)) = Len(points) + 1
           /\ \A i \in 1..Len(points) : Add(points, item)[i] = points[i]
           /\ Add(points, item)[Len(points) + 1] = item
<1>1. Add(points, item) = Append(points, item)
  BY DEF Add
<1>2. PICK r : r = Append(points, item)
  OBVIOUS
<1>3. r \in Seq(Point) /\ Len(r) = Len(points) + 1
  BY <1>2, AppendProperties
<1>4. (\A i \in 1..Len(points) : r[i] = points[i]) /\ r[Len(points) + 1] = item
  BY <1>2, AppendProperties
<1> QED
  BY <1>1, <1>2, <1>3, <1>4, Zenon

(* The fold takes the items in their order, one after the other. *)
LEMMA FoldInOrder ==
    ASSUME NEW n \in Nat, NEW seq \in [1..n -> Point], NEW base \in Seq(Point)
    PROVE  \E f \in [0..n -> Seq(Point)] :
              /\ f[0] = base
              /\ \A k \in 1..n : f[k] = Add(f[k - 1], seq[k])
              /\ Folded(base, seq) = f[n]
<1> DEFINE Sets    == SUBSET (1..n)
           next    == [S \in Sets \ {{}} |-> S \ {Max(S)}]
           step    == [S \in Sets \ {{}} |-> [v \in Seq(Point) |-> Add(v, seq[Max(S)])]]
           measure == [S \in Sets |-> Cardinality(S)]
<1>1. \A S \in Sets \ {{}} : Max(S) \in S /\ Max(S) \in 1..n
  BY MaxIn
<1>2. \A v \in Seq(Point), i \in 1..n : Add(v, seq[i]) \in Seq(Point)
  <2>1. ASSUME NEW v \in Seq(Point), NEW i \in 1..n PROVE Add(v, seq[i]) \in Seq(Point)
    BY AddThere, AddNew
  <2> QED
    BY <2>1
<1>3. next \in [Sets \ {{}} -> Sets] /\ step \in [Sets \ {{}} -> [Seq(Point) -> Seq(Point)]]
  BY <1>1, <1>2
<1>4. IsFiniteSet(1..n) /\ Cardinality(1..n) = n
  BY FS_Interval
<1>5. \A S \in Sets : IsFiniteSet(S) /\ Cardinality(S) \in 0..n
  <2> SUFFICES ASSUME NEW S \in SUBSET (1..n)
               PROVE  IsFiniteSet(S) /\ Cardinality(S) \in 0..n
    OBVIOUS
  <2>1. IsFiniteSet(S) /\ Cardinality(S) <= Cardinality(1..n)
    BY <1>4, FS_Subset
  <2>2. Cardinality(S) \in Nat
    BY <2>1, FS_CardinalityType
  <2> QED
    BY <1>4, <2>1, <2>2
<1>6. measure \in [Sets -> 0..n]
  BY <1>5
<1>7. ASSUME NEW S \in Sets \ {{}} PROVE measure[next[S]] < measure[S]
  <2>1. Cardinality(S \ {Max(S)}) = Cardinality(S) - 1
    BY <1>1, <1>5, FS_RemoveElement
  <2>2. next[S] = S \ {Max(S)} /\ S \in Sets /\ next[S] \in Sets
    BY <1>1
  <2>3. measure[S] = Cardinality(S) /\ measure[next[S]] = Cardinality(next[S])
    BY <2>2
  <2> HIDE DEF measure, next
  <2> QED
    BY <1>5, <2>1, <2>2, <2>3
<1>8. {{}} \in SUBSET Sets
  OBVIOUS
<1> HIDE DEF Sets, next, step, measure
<1>9. PICK h \in [Sets -> Seq(Point)] : Satisfies(h, Sets, {{}}, base, next, step)
  BY <1>3, <1>6, <1>7, <1>8, RecursionExists, Zenon
<1>10. ASSUME NEW S \in Sets
       PROVE  h[S] = IF S = {} THEN base ELSE Add(h[S \ {Max(S)}], seq[Max(S)])
  <2>1. CASE S = {}
    BY <1>9, <2>1 DEF Satisfies
  <2>2. CASE S # {}
    <3>1. next[S] = S \ {Max(S)} /\ h[next[S]] \in Seq(Point)
      BY <1>3, <2>2 DEF next
    <3>2. step[S][h[next[S]]] = Add(h[next[S]], seq[Max(S)])
      BY <2>2, <3>1 DEF step
    <3> QED
      BY <1>9, <2>2, <3>1, <3>2 DEF Satisfies
  <2> QED
    BY <2>1, <2>2
<1>11. Folds(h, seq, base)
  BY <1>9, <1>10 DEF Folds, Sets
<1>12. PICK g : g = CHOOSE k : Folds(k, seq, base)
  OBVIOUS
<1>13. Folds(g, seq, base)
  BY <1>11, <1>12
<1>14. DOMAIN seq = 1..n
  OBVIOUS
<1>15. Folded(base, seq) = g[1..n]
  BY <1>12, <1>14, FoldIs
<1>16. \A S \in Sets : g[S] = IF S = {} THEN base ELSE Add(g[S \ {Max(S)}], seq[Max(S)])
  BY <1>13, <1>14 DEF Folds, Sets
<1> DEFINE f == [k \in 0..n |-> g[1..k]]
<1>17. 1..0 = {} /\ \A k \in 0..n : 1..k \in Sets
  BY DEF Sets
<1>18. f[0] = base
  <2>1. f[0] = g[1..0]
    OBVIOUS
  <2>2. 1..0 \in Sets
    BY <1>17, {} \in SUBSET (1..n) DEF Sets
  <2> QED
    BY <1>16, <1>17, <2>1, <2>2, Zenon
<1>19. ASSUME NEW k \in 1..n PROVE f[k] = Add(f[k - 1], seq[k])
  <2>1. Max(1..k) = k /\ (1..k) \ {k} = 1..(k - 1) /\ 1..k # {} /\ 1..k \in Sets
    <3>1. k \in Nat /\ k > 0 /\ k \in 0..n /\ k \in 1..k
      OBVIOUS
    <3> QED
      BY <1>17, <3>1, LastOfUpto
  <2>2. g[1..k] = Add(g[1..(k - 1)], seq[k])
    BY <1>16, <2>1
  <2> QED
    BY <2>2
<1>20. f[n] = g[1..n]
  OBVIOUS
<1>21. \A k \in 0..n : f[k] \in Seq(Point)
  <2> DEFINE T == {k \in Nat : k <= n => f[k] \in Seq(Point)}
  <2> HIDE DEF f
  <2>1. 0 \in T
    BY <1>18
  <2>2. ASSUME NEW k \in T PROVE k + 1 \in T
    <3> SUFFICES ASSUME k + 1 <= n PROVE f[k + 1] \in Seq(Point)
      OBVIOUS
    <3>1. k + 1 \in 1..n /\ (k + 1) - 1 = k /\ f[k] \in Seq(Point)
      BY <2>2
    <3>2. f[k + 1] = Add(f[k], seq[k + 1])
      BY <1>19, <3>1
    <3> QED
      BY <1>2, <3>1, <3>2
  <2> HIDE DEF T
  <2>3. T = Nat
    <3>1. T \in SUBSET Nat
      BY DEF T
    <3> QED
      BY <2>1, <2>2, <3>1, NatSetInduction
  <2> QED
    BY <2>3 DEF T
<1>22. f \in [0..n -> Seq(Point)]
  BY <1>21
<1> HIDE DEF f
<1> QED
  BY <1>15, <1>18, <1>19, <1>20, <1>22

(* The elements of U that are in period p; per gives the period of each. *)
In(U, per, p) == {s \in U : per[s] = p}

(* What the points say of the elements of U, of which per gives the period and *)
(* val the value: each period once, with the sum of what is in it; none is     *)
(* left out; and all of the sum is there.                                      *)
Tells(points, per, val, U) ==
    /\ points \in Seq(Point)
    /\ \A i, j \in 1..Len(points) : points[i].period = points[j].period => i = j
    /\ \A i \in 1..Len(points) : points[i].value = Total(val, In(U, per, points[i].period))
    /\ \A s \in U : \E i \in 1..Len(points) : points[i].period = per[s]
    /\ Total([i \in 1..Len(points) |-> points[i].value], 1..Len(points)) = Total(val, U)

(* What was laid out stays where it was, and what came after it came of U.     *)
Follows(points, zeros, per, U) ==
    /\ Len(zeros) <= Len(points)
    /\ \A i \in 1..Len(zeros) : points[i].period = zeros[i].period
    /\ \A i \in 1..Len(points) : i > Len(zeros) => \E s \in U : per[s] = points[i].period

(* An element is added to its own period, and to no other.                    *)
LEMMA InAdded ==
    ASSUME NEW U, NEW per, NEW val, NEW s, s \notin U, IsFiniteSet(U),
           \A x \in U \cup {s} : val[x] \in Int, NEW p
    PROVE  /\ per[s] = p
                => Total(val, In(U \cup {s}, per, p)) = Total(val, In(U, per, p)) + val[s]
           /\ per[s] # p => Total(val, In(U \cup {s}, per, p)) = Total(val, In(U, per, p))
<1>1. IsFiniteSet(In(U, per, p)) /\ s \notin In(U, per, p)
  <2>1. In(U, per, p) \subseteq U
    BY DEF In
  <2> QED
    BY <2>1, FS_Subset
<1>2. CASE per[s] = p
  <2>1. In(U \cup {s}, per, p) = In(U, per, p) \cup {s}
    BY <1>2 DEF In
  <2>2. \A x \in In(U, per, p) \cup {s} : val[x] \in Int
    BY DEF In
  <2>3. Total(val, In(U, per, p) \cup {s}) = val[s] + Total(val, In(U, per, p))
    BY <1>1, <2>2, TotalAdd
  <2>4. Total(val, In(U, per, p)) \in Int /\ val[s] \in Int
    BY <1>1, <2>2, TotalInt
  <2>5. val[s] + Total(val, In(U, per, p)) = Total(val, In(U, per, p)) + val[s]
    BY <2>4
  <2> QED
    BY <1>2, <2>1, <2>3, <2>5, Zenon
<1>3. CASE per[s] # p
  <2>1. In(U \cup {s}, per, p) = In(U, per, p)
    BY <1>3 DEF In
  <2> QED
    BY <1>3, <2>1, Zenon
<1> QED
  BY <1>2, <1>3

(* One element of a table changes: so does the sum. *)
LEMMA TotalChanged ==
    ASSUME NEW S, IsFiniteSet(S), NEW x \in S, NEW f, NEW g,
           \A y \in S : f[y] \in Int /\ g[y] \in Int,
           \A y \in S : y # x => g[y] = f[y]
    PROVE  Total(g, S) = Total(f, S) + (g[x] - f[x])
<1>1. Total(g, S) = g[x] + Total(g, S \ {x})
  BY TotalRemove
<1>2. Total(f, S) = f[x] + Total(f, S \ {x})
  BY TotalRemove
<1>3. Total(g, S \ {x}) = Total(f, S \ {x})
  BY TotalSame
<1>4. IsFiniteSet(S \ {x})
  BY FS_Subset
<1>5. Total(f, S \ {x}) \in Int
  BY <1>4, TotalInt
<1> QED
  BY <1>1, <1>2, <1>3, <1>5

(* Add has the points tell of one more element.                               *)
LEMMA AddTells ==
    ASSUME NEW points, NEW per, NEW val, NEW U, NEW s, s \notin U, IsFiniteSet(U),
           Tells(points, per, val, U),
           \A x \in U \cup {s} : per[x] \in Nat /\ val[x] \in Nat
    PROVE  Tells(Add(points, [period |-> per[s], value |-> val[s]]), per, val, U \cup {s})
<1> DEFINE item == [period |-> per[s], value |-> val[s]]
           r == Add(points, item)
           n == Len(points)
           W == U \cup {s}
           v == val[s]
           Old(p) == Total(val, In(U, per, p))
<1>1. /\ points \in Seq(Point) /\ item \in Point /\ n \in Nat /\ DOMAIN points = 1..n
      /\ v \in Nat /\ per[s] \in Nat
      /\ \A i \in 1..n : points[i].period \in Nat /\ points[i].value \in Nat
  <2>1. points \in Seq(Point) /\ n \in Nat /\ DOMAIN points = 1..n
    BY DEF Tells
  <2>2. \A i \in 1..n : points[i] \in Point
    BY <2>1, ElementOfSeq
  <2> QED
    BY <2>1, <2>2 DEF Point
<1>2. /\ \A i, j \in 1..n : points[i].period = points[j].period => i = j
      /\ \A i \in 1..n : points[i].value = Old(points[i].period)
      /\ \A x \in U : \E i \in 1..n : points[i].period = per[x]
      /\ Total([i \in 1..n |-> points[i].value], 1..n) = Total(val, U)
  BY Zenon DEF Tells
<1>3. /\ \A p : /\ per[s] = p => Total(val, In(W, per, p)) = Old(p) + v
                /\ per[s] # p => Total(val, In(W, per, p)) = Old(p)
      /\ Total(val, W) = v + Total(val, U)
  <2>1. \A x \in U \cup {s} : val[x] \in Int
    OBVIOUS
  <2>2. ASSUME NEW p
        PROVE  /\ per[s] = p
                    => Total(val, In(U \cup {s}, per, p)) = Total(val, In(U, per, p)) + val[s]
               /\ per[s] # p => Total(val, In(U \cup {s}, per, p)) = Total(val, In(U, per, p))
    BY <2>1, InAdded
  <2>3. Total(val, U \cup {s}) = val[s] + Total(val, U)
    BY <2>1, TotalAdd
  <2> QED
    BY <2>2, <2>3, Zenon
<1>4. IsFiniteSet(1..n) /\ IsFiniteSet(1..n + 1)
  BY <1>1, FS_Interval
<1>5. Total(val, U) \in Int
  BY TotalInt
<1>6. item.period = per[s] /\ item.value = v
  OBVIOUS
<1> HIDE DEF item, v, Old, n, W
<1>7. CASE \E i \in 1..n : points[i].period = per[s]
  <2>1. /\ r \in Seq(Point) /\ Len(r) = n
        /\ \A i \in 1..n : r[i] = IF points[i].period = per[s]
                                  THEN [period |-> points[i].period, value |-> points[i].value + v]
                                  ELSE points[i]
    <3>1. \E i \in DOMAIN points : points[i].period = item.period
      BY <1>1, <1>6, <1>7
    <3>2. /\ r \in Seq(Point) /\ Len(r) = Len(points)
          /\ \A i \in 1..Len(points) :
                r[i] = IF points[i].period = item.period
                       THEN [period |-> points[i].period, value |-> points[i].value + item.value]
                       ELSE points[i]
      BY <1>1, <3>1, AddThere, Zenon
    <3> QED
      BY <1>6, <3>2, Zenon DEF n
  <2> HIDE DEF r
  <2>2. PICK k \in 1..n : points[k].period = per[s]
    BY <1>7
  <2>3. \A i \in 1..n : /\ r[i].period = points[i].period
                        /\ i # k => r[i].value = points[i].value
    BY <1>2, <2>1, <2>2
  <2>4. r[k].value = points[k].value + v
    BY <2>1, <2>2
  <2>5. \A i \in 1..n : r[i].value = Total(val, In(W, per, r[i].period))
    <3> SUFFICES ASSUME NEW i \in 1..n PROVE r[i].value = Total(val, In(W, per, r[i].period))
      OBVIOUS
    <3>1. r[i].period = points[i].period /\ points[i].value = Old(points[i].period)
      BY <1>2, <2>3
    <3>2. CASE i = k
      BY <1>3, <2>2, <2>4, <3>1, <3>2
    <3>3. CASE i # k
      <4>1. points[i].period # per[s]
        BY <1>2, <2>2, <3>3
      <4> QED
        BY <1>3, <2>3, <3>1, <3>3, <4>1
    <3> QED
      BY <3>2, <3>3
  <2>6. Total([i \in 1..n |-> r[i].value], 1..n) = Total(val, W)
    <3> DEFINE f == [i \in 1..n |-> points[i].value]
               g == [i \in 1..n |-> r[i].value]
    <3>1. \A i \in 1..n : f[i] = points[i].value /\ g[i] = r[i].value
      OBVIOUS
    <3>2. \A i \in 1..n : f[i] \in Int /\ g[i] \in Int /\ (i # k => g[i] = f[i])
      BY <1>1, <2>3, <2>4, <3>1
    <3>3. g[k] - f[k] = v
      BY <1>1, <2>4, <3>1
    <3> HIDE DEF f, g
    <3>4. Total(g, 1..n) = Total(f, 1..n) + (g[k] - f[k])
      <4>1. /\ \A y \in 1..n : f[y] \in Int /\ g[y] \in Int
            /\ \A y \in 1..n : y # k => g[y] = f[y]
        BY <3>2
      <4> QED
        BY <1>4, <4>1, TotalChanged, ZenonT(30)
    <3>5. Total(f, 1..n) = Total(val, U)
      BY <1>2 DEF f
    <3>6. Total(g, 1..n) = Total(val, W)
      BY <1>1, <1>3, <1>5, <3>3, <3>4, <3>5
    <3> QED
      BY <3>6 DEF g
  <2>7. \A x \in W : \E i \in 1..n : r[i].period = per[x]
    BY <1>2, <2>2, <2>3 DEF W
  <2>8. \A i, j \in 1..n : r[i].period = r[j].period => i = j
    BY <1>2, <2>3
  <2> QED
    BY <2>1, <2>5, <2>6, <2>7, <2>8, Zenon DEF Tells, r, item, W
<1>8. CASE ~ (\E i \in 1..n : points[i].period = per[s])
  <2>1. /\ r \in Seq(Point) /\ Len(r) = n + 1
        /\ \A i \in 1..n : r[i] = points[i]
        /\ r[n + 1] = item
    <3>1. ~ (\E i \in DOMAIN points : points[i].period = item.period)
      BY <1>1, <1>6, <1>8
    <3>2. /\ r \in Seq(Point) /\ Len(r) = Len(points) + 1
          /\ \A i \in 1..Len(points) : r[i] = points[i]
          /\ r[Len(points) + 1] = item
      BY <1>1, <3>1, AddNew, Zenon
    <3> QED
      BY <3>2, Zenon DEF n
  <2> HIDE DEF r
  <2>2. \A i \in 1..n + 1 :
           i = n + 1 \/ (i \in 1..n /\ r[i] = points[i] /\ points[i].period # per[s])
    BY <1>1, <1>8, <2>1
  <2>3. \A i, j \in 1..n + 1 : r[i].period = r[j].period => i = j
    BY <1>2, <1>6, <2>1, <2>2
  <2>4. Old(per[s]) = 0
    <3>1. In(U, per, per[s]) = {}
      BY <1>2, <1>8 DEF In
    <3> QED
      BY <3>1, TotalEmpty DEF Old
  <2>5. \A i \in 1..n + 1 : r[i].value = Total(val, In(W, per, r[i].period))
    <3> SUFFICES ASSUME NEW i \in 1..n + 1 PROVE r[i].value = Total(val, In(W, per, r[i].period))
      OBVIOUS
    <3>1. CASE i = n + 1
      <4>1. r[i].value = v /\ r[i].period = per[s]
        BY <1>6, <2>1, <3>1
      <4>2. Total(val, In(W, per, per[s])) = v
        BY <1>1, <1>3, <2>4
      <4> QED
        BY <4>1, <4>2
    <3>2. CASE i # n + 1
      BY <1>2, <1>3, <2>2, <3>2
    <3> QED
      BY <3>1, <3>2
  <2>6. Total([i \in 1..n + 1 |-> r[i].value], 1..n + 1) = Total(val, W)
    <3> DEFINE f == [i \in 1..n |-> points[i].value]
               g == [i \in 1..n + 1 |-> r[i].value]
    <3>1. /\ \A i \in 1..n : f[i] = points[i].value /\ g[i] = f[i] /\ f[i] \in Int
          /\ g[n + 1] = v
      BY <1>1, <1>6, <2>1
    <3>2. 1..n + 1 = (1..n) \cup {n + 1} /\ n + 1 \notin 1..n
      BY <1>1
    <3>3. f = [i \in 1..n |-> points[i].value]
      OBVIOUS
    <3> HIDE DEF f, g
    <3>4. \A i \in (1..n) \cup {n + 1} : g[i] \in Int
      BY <1>1, <3>1
    <3>5. Total(g, (1..n) \cup {n + 1}) = g[n + 1] + Total(g, 1..n)
      BY <1>4, <3>2, <3>4, TotalAdd
    <3>6. Total(g, 1..n) = Total(f, 1..n)
      BY <3>1, TotalSame
    <3>7. Total(f, 1..n) = Total(val, U)
      BY <1>2, <3>3
    <3>8. Total(g, 1..n + 1) = Total(val, W)
      BY <1>3, <3>1, <3>2, <3>5, <3>6, <3>7
    <3> QED
      BY <3>8 DEF g
  <2>7. \A x \in W : \E i \in 1..n + 1 : r[i].period = per[x]
    <3> SUFFICES ASSUME NEW x \in W PROVE \E i \in 1..n + 1 : r[i].period = per[x]
      OBVIOUS
    <3>1. CASE x = s
      <4>1. n + 1 \in 1..n + 1 /\ r[n + 1].period = per[x]
        BY <1>1, <1>6, <2>1, <3>1
      <4> QED
        BY <4>1
    <3>2. CASE x # s
      <4>1. PICK i \in 1..n : points[i].period = per[x]
        BY <1>2, <3>2 DEF W
      <4>2. i \in 1..n + 1
        BY <1>1
      <4>3. r[i].period = per[x]
        BY <2>1, <4>1
      <4> QED
        BY <4>2, <4>3
    <3> QED
      BY <3>1, <3>2
  <2> QED
    BY <2>1, <2>3, <2>5, <2>6, <2>7, Zenon DEF Tells, r, item, W
<1> QED
  BY <1>7, <1>8

(* Add leaves in place what was laid out.                                     *)
LEMMA AddFollows ==
    ASSUME NEW points \in Seq(Point), NEW zeros \in Seq(Point),
           NEW per, NEW U, NEW s, NEW v \in Nat,
           Follows(points, zeros, per, U), per[s] \in Nat
    PROVE  Follows(Add(points, [period |-> per[s], value |-> v]), zeros, per, U \cup {s})
<1> DEFINE item == [period |-> per[s], value |-> v]
           r == Add(points, item)
           n == Len(points)
           m == Len(zeros)
           W == U \cup {s}
<1>1. item \in Point /\ n \in Nat /\ m \in Nat /\ DOMAIN points = 1..n /\ item.period = per[s]
  BY DEF Point
<1>2. /\ m <= n
      /\ \A i \in 1..m : points[i].period = zeros[i].period
      /\ \A i \in 1..n : i > m => \E x \in U : per[x] = points[i].period
  BY DEF Follows
<1>3. \/ Len(r) = n /\ \A i \in 1..n : r[i].period = points[i].period
      \/ /\ Len(r) = n + 1 /\ r[n + 1].period = per[s]
         /\ \A i \in 1..n : r[i].period = points[i].period
  <2>1. CASE \E i \in DOMAIN points : points[i].period = item.period
    <3>1. /\ r \in Seq(Point) /\ Len(r) = Len(points)
          /\ \A i \in 1..Len(points) :
                r[i] = IF points[i].period = item.period
                       THEN [period |-> points[i].period, value |-> points[i].value + item.value]
                       ELSE points[i]
      BY <1>1, <2>1, AddThere, Zenon
    <3> HIDE DEF r, item
    <3>2. \A i \in 1..n : r[i].period = points[i].period
      <4> SUFFICES ASSUME NEW i \in 1..n PROVE r[i].period = points[i].period
        OBVIOUS
      <4>1. CASE points[i].period = item.period
        <5>1. r[i] = [period |-> points[i].period, value |-> points[i].value + item.value]
          BY <3>1, <4>1
        <5> QED
          BY <5>1
      <4>2. CASE points[i].period # item.period
        BY <3>1, <4>2
      <4> QED
        BY <4>1, <4>2
    <3> QED
      BY <3>1, <3>2
  <2>2. CASE ~ (\E i \in DOMAIN points : points[i].period = item.period)
    <3>1. /\ r \in Seq(Point) /\ Len(r) = Len(points) + 1
          /\ \A i \in 1..Len(points) : r[i] = points[i]
          /\ r[Len(points) + 1] = item
      BY <1>1, <2>2, AddNew, Zenon
    <3> HIDE DEF r, item
    <3> QED
      BY <1>1, <3>1
  <2> QED
    BY <2>1, <2>2
<1> HIDE DEF r, n, m, item
<1>4. \A i \in 1..Len(r) : i > m => \E x \in W : per[x] = r[i].period
  <2> SUFFICES ASSUME NEW i \in 1..Len(r), i > m PROVE \E x \in W : per[x] = r[i].period
    OBVIOUS
  <2>1. CASE i \in 1..n
    BY <1>2, <1>3, <2>1
  <2>2. CASE i \notin 1..n
    <3>1. r[i].period = per[s]
      BY <1>1, <1>3, <2>2
    <3> QED
      BY <3>1
  <2> QED
    BY <2>1, <2>2
<1>5. m <= Len(r) /\ \A i \in 1..m : r[i].period = zeros[i].period
  <2>1. \A i \in 1..m : i \in 1..n
    BY <1>1, <1>2
  <2> QED
    BY <1>1, <1>2, <1>3, <2>1
<1> QED
  BY <1>4, <1>5 DEF Follows, r, m, W, item

(* An order of a finite set names each of its elements once. *)
LEMMA OrderFacts ==
    ASSUME NEW D, IsFiniteSet(D), NEW order \in SetToSeqs(D)
    PROVE  \E n \in Nat : /\ order \in [1..n -> D]
                          /\ \A i, j \in 1..n : i # j => order[i] # order[j]
                          /\ {order[j] : j \in 1..n} = D
<1> DEFINE n == Cardinality(D)
<1>1. n \in Nat
  BY FS_CardinalityType
<1>2. order \in [1..n -> D] /\ \A i, j \in 1..n : i # j => order[i] # order[j]
  BY DEF SetToSeqs
<1>3. Cardinality(1..n) = n
  BY <1>1, FS_Interval
<1>4. order \in Injection(1..n, D)
  <2> HIDE DEF n
  <2> QED
    BY <1>2 DEF Injection, IsInjective
<1>5. order \in Surjection(1..n, D)
  BY <1>3, <1>4, FS_Injection
<1>6. {order[j] : j \in 1..n} = D
  BY <1>2, <1>5 DEF Surjection
<1> QED
  BY <1>1, <1>2, <1>6

(* Zeros add up to zero.                                                      *)
LEMMA TotalZero ==
    ASSUME NEW S, IsFiniteSet(S), NEW f, \A x \in S : f[x] = 0
    PROVE  Total(f, S) = 0
<1> DEFINE T == {U \in SUBSET S : Total(f, U) = 0}
<1>1. {} \in T
  BY TotalEmpty
<1>2. ASSUME NEW U \in SUBSET S, NEW x \in S, U \in T, x \notin U
      PROVE  U \cup {x} \in T
  <2>1. IsFiniteSet(U) /\ \A y \in U \cup {x} : f[y] \in Int
    BY FS_Subset
  <2>2. Total(f, U \cup {x}) = f[x] + Total(f, U)
    BY <1>2, <2>1, TotalAdd
  <2> QED
    BY <1>2, <2>2
<1> HIDE DEF T
<1>3. S \in T
  BY <1>1, <1>2, FiniteSetInduction
<1> QED
  BY <1>3 DEF T

(* From the zeros to the end of the values, whatever their order. *)
LEMMA FoldTells ==
    ASSUME NEW D, IsFiniteSet(D), NEW per, NEW val,
           \A s \in D : per[s] \in Nat /\ val[s] \in Nat,
           NEW order \in SetToSeqs(D),
           NEW zeros \in Seq(Point),
           \A i \in 1..Len(zeros) : zeros[i].value = 0,
           \A i, j \in 1..Len(zeros) : i < j => zeros[i].period < zeros[j].period
    PROVE  LET items  == [i \in DOMAIN order |->
                             [period |-> per[order[i]], value |-> val[order[i]]]]
               points == Folded(zeros, items)
           IN  Tells(points, per, val, D) /\ Follows(points, zeros, per, D)
<1> DEFINE items == [i \in DOMAIN order |-> [period |-> per[order[i]], value |-> val[order[i]]]]
<1>1. PICK n \in Nat : /\ order \in [1..n -> D]
                       /\ \A i, j \in 1..n : i # j => order[i] # order[j]
                       /\ {order[j] : j \in 1..n} = D
  BY OrderFacts
<1>2. /\ items \in [1..n -> Point]
      /\ \A i \in 1..n : items[i] = [period |-> per[order[i]], value |-> val[order[i]]]
  BY <1>1 DEF Point
<1> HIDE DEF items
<1>3. items \in [1..n -> Point]
  BY <1>2
<1>4. PICK f \in [0..n -> Seq(Point)] :
              /\ f[0] = zeros
              /\ \A k \in 1..n : f[k] = Add(f[k - 1], items[k])
              /\ Folded(zeros, items) = f[n]
  BY <1>3, FoldInOrder, ZenonT(30)
<1> DEFINE First(k) == {order[j] : j \in 1..k}
           Holds(k) == Tells(f[k], per, val, First(k)) /\ Follows(f[k], zeros, per, First(k))
           T == {k \in Nat : k <= n => Holds(k)}
<1>5. Holds(0)
  <2>1. First(0) = {}
    OBVIOUS
  <2>2. /\ Len(zeros) \in Nat
        /\ \A i \in 1..Len(zeros) : zeros[i].value = 0 /\ zeros[i].period \in Nat
    <3>1. \A i \in 1..Len(zeros) : zeros[i] \in Point
      BY ElementOfSeq
    <3> QED
      BY <3>1 DEF Point
  <2>3. \A i, j \in 1..Len(zeros) : zeros[i].period = zeros[j].period => i = j
    <3> SUFFICES ASSUME NEW i \in 1..Len(zeros), NEW j \in 1..Len(zeros), i < j
                 PROVE  zeros[i].period # zeros[j].period
      BY <2>2
    <3>1. zeros[i].period < zeros[j].period
      OBVIOUS
    <3> QED
      BY <2>2, <3>1
  <2>4. \A p : Total(val, In({}, per, p)) = 0
    <3>1. \A p : In({}, per, p) = {}
      BY DEF In
    <3> QED
      BY <3>1, TotalEmpty
  <2>5. Total([i \in 1..Len(zeros) |-> zeros[i].value], 1..Len(zeros)) = 0
    <3> DEFINE g == [i \in 1..Len(zeros) |-> zeros[i].value]
    <3>1. \A i \in 1..Len(zeros) : g[i] = 0
      BY <2>2
    <3>2. IsFiniteSet(1..Len(zeros))
      BY <2>2, FS_Interval
    <3> HIDE DEF g
    <3>3. Total(g, 1..Len(zeros)) = 0
      BY <3>1, <3>2, TotalZero
    <3> QED
      BY <3>3 DEF g
  <2>6. Tells(zeros, per, val, {})
    BY <2>2, <2>3, <2>4, <2>5, TotalEmpty DEF Tells
  <2>7. Follows(zeros, zeros, per, {})
    BY <2>2 DEF Follows
  <2> HIDE DEF First
  <2> QED
    BY <1>4, <2>1, <2>6, <2>7
<1>6. ASSUME NEW k \in Nat, k + 1 <= n, Holds(k) PROVE Holds(k + 1)
  <2> DEFINE s == order[k + 1]
  <2>1. k + 1 \in 1..n /\ (k + 1) - 1 = k /\ k \in 0..n /\ s \in D
    BY <1>1, <1>6
  <2>2. First(k + 1) = First(k) \cup {s}
    <3>1. 1..k + 1 = (1..k) \cup {k + 1}
      OBVIOUS
    <3> QED
      BY <3>1
  <2>3. s \notin First(k)
    BY <1>1, <1>6
  <2>4. First(k) \subseteq D /\ IsFiniteSet(First(k))
    <3>1. First(k) \subseteq D
      BY <1>1, <1>6
    <3> QED
      BY <3>1, FS_Subset
  <2>5. f[k] \in Seq(Point) /\ f[k + 1] = Add(f[k], [period |-> per[s], value |-> val[s]])
    <3>1. f[k + 1] = Add(f[k], items[k + 1])
      BY <1>4, <2>1
    <3> QED
      BY <1>2, <2>1, <3>1
  <2> HIDE DEF First
  <2> USE DEF Holds
  <2>6. \A x \in First(k) \cup {s} : per[x] \in Nat /\ val[x] \in Nat
    BY <2>1, <2>4
  <2> HIDE DEF s
  <2>7. Tells(f[k + 1], per, val, First(k) \cup {s})
    <3>1. Tells(Add(f[k], [period |-> per[s], value |-> val[s]]), per, val, First(k) \cup {s})
      BY <1>6, <2>3, <2>4, <2>6, AddTells, Zenon
    <3> QED
      BY <2>5, <3>1, Zenon
  <2>8. Follows(f[k + 1], zeros, per, First(k) \cup {s})
    <3>1. val[s] \in Nat /\ per[s] \in Nat
      BY <2>6
    <3>2. Follows(Add(f[k], [period |-> per[s], value |-> val[s]]), zeros, per, First(k) \cup {s})
      BY <1>6, <2>5, <3>1, AddFollows, Zenon
    <3> QED
      BY <2>5, <3>2, Zenon
  <2> QED
    BY <2>2, <2>7, <2>8
<1> HIDE DEF Holds, First
<1>7. T = Nat
  <2>1. 0 \in T
    BY <1>5
  <2>2. ASSUME NEW k \in T PROVE k + 1 \in T
    BY <1>6
  <2>3. T \in SUBSET Nat
    OBVIOUS
  <2> HIDE DEF T
  <2> QED
    BY <2>1, <2>2, <2>3, NatSetInduction
<1>8. Holds(n)
  <2>1. n \in T
    <3> HIDE DEF T
    <3> QED
      BY <1>1, <1>7
  <2> QED
    BY <2>1
<1>9. Tells(f[n], per, val, D) /\ Follows(f[n], zeros, per, D)
  BY <1>1, <1>8 DEF Holds, First
<1> QED
  BY <1>4, <1>9 DEF items

-----------------------------------------------------------------------------
(* The chart. *)

(* The multiple after.                                                        *)
LEMMA OneMore ==
    ASSUME NEW q \in Nat, NEW n \in Nat
    PROVE  /\ q * n \in Nat /\ (q + 1) * n = q * n + n
           /\ (q + 1) * n - q * n = n
<1>1. q * n \in Nat
  OBVIOUS
<1>2. (q + 1) * n = q * n + n
  OBVIOUS
<1> QED
  BY <1>1, <1>2

(* The place of a period among those from the first one on. *)
LEMMA PlaceOf ==
    ASSUME NEW first \in Nat, NEW p \in Nat, first <= p, NEW m \in Nat
    PROVE  /\ first + (p - first + 1) - 1 = p
           /\ p - first + 1 \notin 1..m => p - first + 1 > m
  OBVIOUS

(* The calendar knows the bounds of each period that the range touches.       *)
LEMMA TouchedBegins ==
    ASSUME NEW ask, SeriesAsk(ask), ask.start <= ask.end, NEW p \in Touched(ask)
    PROVE  /\ p \in Nat /\ Begins(p, ask.granularity) /\ Begins(p + 1, ask.granularity)
           /\ PeriodOf(ask.start, ask.granularity) <= p /\ p <= PeriodOf(ask.end, ask.granularity)
<1> DEFINE g == ask.granularity
           first == PeriodOf(ask.start, g)
           last == PeriodOf(ask.end, g)
<1>1. g \in Granularities /\ Dated(ask.start) /\ Dated(ask.end)
  BY EarlierDated DEF SeriesAsk
<1>2. Begins(first, g) /\ Begins(last, g) /\ Begins(last + 1, g) /\ first \in Nat /\ last \in Nat
  BY <1>1, PeriodFacts DEF Begins
<1>3. p \in first..last
  BY DEF Touched
<1> HIDE DEF first, last
<1>4. p \in Nat /\ first <= p /\ p <= last /\ p <= last + 1 /\ p + 1 <= last + 1 /\ p + 1 \in Nat
  BY <1>2, <1>3
<1>5. CASE g = "monthly"
  <2>1. 1 <= first
    BY <1>2, <1>5 DEF Begins, Months
  <2>2. 1 <= p /\ 1 <= p + 1
    BY <1>2, <1>4, <2>1
  <2>3. Begins(p, g) /\ Begins(p + 1, g)
    BY <1>1, <1>2, <1>4, <2>2, BeginsEarlier
  <2> QED
    BY <1>4, <2>3 DEF first, last
<1>6. CASE g # "monthly"
  <2>1. Begins(p, g) /\ Begins(p + 1, g)
    BY <1>4, <1>6 DEF Begins
  <2> QED
    BY <1>4, <2>1 DEF first, last
<1> QED
  BY <1>5, <1>6

(* What is charted: when each value was made, and that it is of the range.     *)
Made(D, made, val, ask) ==
    /\ IsFiniteSet(D)
    /\ \A s \in D : /\ val[s] \in Nat
                    /\ Dated(made[s]) /\ ask.start <= made[s] /\ made[s] <= ask.end

(* The chart of values that were read in an order, before it is rounded.      *)
Filled(D, order, made, val, ask) ==
    Folded(Zeros(ask), [i \in DOMAIN order |->
        [period |-> PeriodOf(made[order[i]], ask.granularity), value |-> val[order[i]]]])

(* What the chart holds before it is rounded. *)
LEMMA ChartTells ==
    ASSUME NEW ask, SeriesAsk(ask), NEW D, NEW made, NEW val, Made(D, made, val, ask),
           NEW order \in SetToSeqs(D)
    PROVE  LET per    == [s \in D |-> PeriodOf(made[s], ask.granularity)]
               points == Filled(D, order, made, val, ask)
           IN  Tells(points, per, val, D) /\ Follows(points, Zeros(ask), per, D)
<1> DEFINE per == [s \in D |-> PeriodOf(made[s], ask.granularity)]
           items == [i \in DOMAIN order |->
                        [period |-> PeriodOf(made[order[i]], ask.granularity),
                         value  |-> val[order[i]]]]
           moved == [i \in DOMAIN order |-> [period |-> per[order[i]], value |-> val[order[i]]]]
<1>1. IsFiniteSet(D) /\ \A s \in D : per[s] \in Nat /\ val[s] \in Nat
  <2>1. ask.granularity \in Granularities
    BY DEF SeriesAsk
  <2> QED
    BY <2>1, ZeroPoint DEF Made
<1>2. Zeros(ask) \in Seq(Point)
  BY ZerosFacts
<1>3. /\ \A i \in 1..Len(Zeros(ask)) : Zeros(ask)[i].value = 0
      /\ \A i, j \in 1..Len(Zeros(ask)) : i < j => Zeros(ask)[i].period < Zeros(ask)[j].period
  <2>1. CASE ask.start <= ask.end
    BY <2>1, ZerosFacts DEF Laid
  <2>2. CASE ask.start > ask.end
    <3>1. Zeros(ask) = <<>>
      BY <2>2, ZerosFacts
    <3> QED
      BY <3>1
  <2> QED
    BY <2>1, <2>2 DEF SeriesAsk
<1>4. items = moved
  <2>1. \A i \in DOMAIN order : order[i] \in D
    BY <1>1, OrderFacts
  <2> QED
    BY <2>1
<1> HIDE DEF per
<1>5. /\ Tells(Folded(Zeros(ask), moved), per, val, D)
      /\ Follows(Folded(Zeros(ask), moved), Zeros(ask), per, D)
  BY <1>1, <1>2, <1>3, FoldTells
<1>6. Filled(D, order, made, val, ask) = Folded(Zeros(ask), moved)
  BY <1>4, Zenon DEF Filled
<1> QED
  BY <1>5, <1>6, Zenon DEF per

(* Every point is of a period that the range touches: a shipment in the       *)
(* range is dated between its ends, and so is whatever the loop visits.       *)
LEMMA ChartPeriods ==
    ASSUME NEW ask, SeriesAsk(ask), NEW D, NEW made, NEW val, Made(D, made, val, ask),
           NEW points, NEW per, per = [s \in D |-> PeriodOf(made[s], ask.granularity)],
           points \in Seq(Point), Follows(points, Zeros(ask), per, D)
    PROVE  \A i \in 1..Len(points) : points[i].period \in Touched(ask)
<1> DEFINE g == ask.granularity
           first == PeriodOf(ask.start, g)
           last == PeriodOf(ask.end, g)
<1>1. g \in Granularities /\ Dated(ask.end) /\ ask.start \in Nat /\ ask.end \in Nat
  BY DEF SeriesAsk
<1>2. SUFFICES ASSUME NEW i \in 1..Len(points) PROVE points[i].period \in Touched(ask)
  OBVIOUS
<1>3. points[i].period \in Nat
  <2>1. points[i] \in Point
    BY <1>2, ElementOfSeq
  <2> QED
    BY <2>1 DEF Point
<1>4. CASE i > Len(Zeros(ask))
  <2>1. PICK s \in D : per[s] = points[i].period
    BY <1>2, <1>4 DEF Follows
  <2>2. /\ points[i].period = PeriodOf(made[s], g) /\ Dated(made[s]) /\ made[s] \in Nat
        /\ ask.start <= made[s] /\ made[s] <= ask.end /\ Dated(ask.start)
    <3>1. points[i].period = PeriodOf(made[s], g) /\ Dated(made[s])
          /\ ask.start <= made[s] /\ made[s] <= ask.end
      BY <2>1 DEF Made
    <3> QED
      BY <1>1, <3>1, EarlierDated DEF Dated
  <2>3. first <= points[i].period /\ points[i].period <= last
    BY <1>1, <2>2, PeriodMonotone
  <2>4. first \in Nat /\ last \in Nat
    BY <1>1, <2>2, ZeroPoint
  <2> QED
    BY <1>3, <2>3, <2>4 DEF Touched
<1>5. CASE ~ (i > Len(Zeros(ask)))
  <2>1. Len(Zeros(ask)) \in Nat
    BY ZerosFacts, LenProperties
  <2>2. i \in 1..Len(Zeros(ask))
    BY <1>2, <1>5, <2>1
  <2>3. ask.start <= ask.end
    <3> SUFFICES ASSUME ask.start > ask.end PROVE FALSE
      BY <1>1
    <3>1. Zeros(ask) = <<>>
      BY ZerosFacts
    <3> QED
      BY <2>2, <3>1
  <2>4. Laid(Zeros(ask), first, last)
    BY <2>3, ZerosFacts
  <2>5. points[i].period = Zeros(ask)[i].period
    BY <2>2 DEF Follows
  <2>6. first <= points[i].period /\ points[i].period <= last
    BY <2>2, <2>4, <2>5 DEF Laid
  <2>7. first \in Nat /\ last \in Nat
    BY <1>1, <2>3, EarlierDated, ZeroPoint
  <2> QED
    BY <1>3, <2>6, <2>7 DEF Touched
<1> QED
  BY <1>4, <1>5

(* What is in a period by its place among the periods is what is between its   *)
(* bounds.                                                                  *)
LEMMA InIsWithin ==
    ASSUME NEW ask, SeriesAsk(ask), NEW D, NEW made, NEW val, Made(D, made, val, ask),
           NEW p \in Touched(ask)
    PROVE  {s \in D : Within(made[s], p, ask.granularity)}
              = In(D, [s \in D |-> PeriodOf(made[s], ask.granularity)], p)
<1>1. ask.start \in Nat /\ ask.end \in Nat /\ ask.granularity \in Granularities
  BY DEF SeriesAsk
<1>2. CASE ask.start <= ask.end
  <2>1. Begins(p, ask.granularity) /\ Begins(p + 1, ask.granularity)
    BY <1>2, TouchedBegins
  <2>2. \A s \in D : Within(made[s], p, ask.granularity) <=> PeriodOf(made[s], ask.granularity) = p
    BY <1>1, <2>1, PeriodIsWithin DEF Made
  <2> QED
    BY <2>2 DEF In
<1>3. CASE ~ (ask.start <= ask.end)
  <2>1. D = {}
    BY <1>1, <1>3 DEF Made, Dated
  <2> QED
    BY <2>1 DEF In
<1> QED
  BY <1>2, <1>3

(* When no period is shorter than the day of the start, no value comes of a   *)
(* period that the loop has not visited, but for the last one.                *)
LEMMA ChartDense ==
    ASSUME NEW ask, SeriesAsk(ask), ask.start <= ask.end, EveryMonthHasItsDay(ask),
           NEW points \in Seq(Point), NEW per, NEW D, Follows(points, Zeros(ask), per, D),
           \A i, j \in 1..Len(points) : points[i].period = points[j].period => i = j,
           \A i \in 1..Len(points) : points[i].period \in Touched(ask)
    PROVE  LET first == PeriodOf(ask.start, ask.granularity)
               last  == PeriodOf(ask.end, ask.granularity)
               n     == Len(points) IN
           /\ \A i \in 1..n : points[i].period = first + i - 1
           /\ \/ n = last - first + 1
              \/ /\ n = last - first
                 /\ Offset(ask.start, ask.granularity) > Offset(ask.end, ask.granularity)
<1> DEFINE g == ask.granularity
           first == PeriodOf(ask.start, g)
           last == PeriodOf(ask.end, g)
           off == Offset(ask.start, g)
           z == Zeros(ask)
           m == Len(z)
           n == Len(points)
<1>1. /\ g \in Granularities /\ Dated(ask.start) /\ Dated(ask.end)
      /\ first \in Nat /\ last \in Nat /\ ask.start \in Nat
  BY EarlierDated, ZeroPoint DEF SeriesAsk
<1>2. \A q \in Nat : Begins(q, g) /\ Begins(q + 1, g) /\ first <= q /\ q <= last
        => off < From(q + 1, g) - From(q, g)
  <2> SUFFICES ASSUME NEW q \in Nat, Begins(q, g), Begins(q + 1, g), first <= q, q <= last
               PROVE  off < From(q + 1, g) - From(q, g)
    OBVIOUS
  <2>1. /\ From(first, g) <= ask.start /\ ask.start < From(first + 1, g)
        /\ off = ask.start - From(first, g)
        /\ From(first, g) \in Nat /\ From(first + 1, g) \in Nat
    BY <1>1, PeriodFacts, FromNat DEF Offset
  <2>2. CASE g = "monthly"
    <3>1. q \in Touched(ask)
      BY <1>1 DEF Touched
    <3>2. ask.start - MonthStart[MonthOf(ask.start)] < MonthStart[q + 1] - MonthStart[q]
      BY <2>2, <3>1 DEF EveryMonthHasItsDay
    <3> QED
      BY <2>2, <3>2 DEF Offset, From, PeriodOf
  <2>3. CASE g # "monthly"
    <3>1. PeriodLength[g] \in Nat
      BY <1>1, <2>3, GranularityFacts
    <3>2. /\ (q + 1) * PeriodLength[g] - q * PeriodLength[g] = PeriodLength[g]
          /\ (first + 1) * PeriodLength[g] = first * PeriodLength[g] + PeriodLength[g]
          /\ first * PeriodLength[g] \in Nat
      BY <1>1, <3>1, OneMore
    <3>3. /\ From(q + 1, g) - From(q, g) = PeriodLength[g]
          /\ From(first + 1, g) = From(first, g) + PeriodLength[g]
      BY <2>3, <3>2 DEF From
    <3> HIDE DEF off, first
    <3> QED
      BY <1>1, <2>1, <3>1, <3>3
  <2> QED
    BY <2>2, <2>3
<1>3. Dense(z, first, off, ask)
  BY <1>2, ZerosFacts
<1>4. /\ m \in Nat /\ n \in Nat /\ m <= n
      /\ \A i \in 1..m : points[i].period = first + i - 1
      /\ m = last - first + 1 \/ (m = last - first /\ off > Offset(ask.end, g))
  <2>1. z \in Seq(Point) /\ m \in Nat /\ n \in Nat
    BY ZerosFacts, LenProperties
  <2>2. \A i \in 1..m : z[i].period = first + i - 1
    BY <1>3 DEF Dense
  <2>3. m = last - first + 1 \/ (m = last - first /\ off > Offset(ask.end, g))
    BY <1>3 DEF Dense
  <2>4. m <= n /\ \A i \in 1..m : points[i].period = z[i].period
    BY DEF Follows
  <2> HIDE DEF z, m, n, first, last, off
  <2> QED
    BY <2>1, <2>2, <2>3, <2>4
<1>5. /\ \A i, j \in 1..n : points[i].period = points[j].period => i = j
      /\ \A i \in 1..n : points[i].period \in first..last
  BY DEF Touched
<1> HIDE DEF z, m, n, first, last, off
(* A point after the zeros is of a period that none of them has. *)
<1>6. ASSUME NEW i \in 1..n, i > m PROVE m = last - first /\ points[i].period = last
  <2>1. PICK p \in Nat : p = points[i].period /\ first <= p /\ p <= last
    BY <1>1, <1>5
  <2>2. p - first + 1 \notin 1..m
    <3> SUFFICES ASSUME p - first + 1 \in 1..m PROVE FALSE
      OBVIOUS
    <3>1. PICK j \in 1..m : j = p - first + 1
      OBVIOUS
    <3>2. points[j].period = first + j - 1 /\ j \in 1..n /\ j # i
      BY <1>4, <1>6
    <3>3. first + j - 1 = p
      BY <1>1, <2>1, <3>1, PlaceOf
    <3> QED
      BY <1>5, <2>1, <3>2, <3>3
  <2>3. p - first + 1 > m
    BY <1>1, <1>4, <2>1, <2>2, PlaceOf
  <2>4. m # last - first + 1
    BY <1>1, <2>1, <2>3
  <2>5. m = last - first
    BY <1>4, <2>4
  <2> QED
    BY <1>1, <2>1, <2>3, <2>5
<1>7. n = m \/ n = m + 1
  <2> SUFFICES ASSUME n # m, n # m + 1 PROVE FALSE
    OBVIOUS
  <2>1. n \in 1..n /\ m + 1 \in 1..n /\ n > m /\ m + 1 > m /\ n # m + 1
    BY <1>4
  <2>2. points[n].period = points[m + 1].period
    BY <1>6, <2>1
  <2> QED
    BY <1>5, <2>1, <2>2
<1>8. CASE n = m
  <2>1. \A i \in 1..n : points[i].period = first + i - 1
    BY <1>4, <1>8
  <2>2. n = last - first + 1 \/ (n = last - first /\ off > Offset(ask.end, g))
    BY <1>4, <1>8
  <2> QED
    BY <2>1, <2>2 DEF n, first, last, off
<1>9. CASE n = m + 1
  <2>1. n \in 1..n /\ n > m
    BY <1>4, <1>9
  <2>2. m = last - first /\ points[n].period = last
    BY <1>6, <2>1
  <2>3. n = last - first + 1 /\ last = first + n - 1
    BY <1>1, <1>9, <2>2
  <2>4. \A i \in 1..n : points[i].period = first + i - 1
    <3> SUFFICES ASSUME NEW i \in 1..n PROVE points[i].period = first + i - 1
      OBVIOUS
    <3>1. i = n \/ i \in 1..m
      BY <1>4, <1>9
    <3> QED
      BY <1>4, <2>2, <2>3, <3>1
  <2> QED
    BY <2>3, <2>4 DEF n, first, last, off
<1> QED
  BY <1>7, <1>8, <1>9

(* A chart a of the values val, which were made at the dates of made: its      *)
(* points are of periods of the range, and of different ones;                 *)
ChartOfPeriods(a) ==
    /\ a.points \in Seq(Point)
    /\ \A i, j \in 1..Len(a.points) : a.points[i].period = a.points[j].period => i = j
    /\ \A i \in 1..Len(a.points) : a.points[i].period \in Touched(a.ask)

(* they have the values of their periods, and where there is none, none was;   *)
Here(p, g, made, val) == {s \in DOMAIN val : Within(made[s], p, g)}

ChartOfValues(a, made, val) ==
    \A p \in Touched(a.ask) :
        /\ \A i \in 1..Len(a.points) : a.points[i].period = p
              => a.points[i].value
                    = Shown(a.ask.type, Total(val, Here(p, a.ask.granularity, made, val)))
        /\ (\A i \in 1..Len(a.points) : a.points[i].period # p)
              => Here(p, a.ask.granularity, made, val) = {}

(* they leave no hole;                                                        *)
ChartHasNoHole(a) ==
    LET n     == Len(a.points)
        g     == a.ask.granularity
        first == PeriodOf(a.ask.start, g)
        last  == PeriodOf(a.ask.end, g) IN
    EveryMonthHasItsDay(a.ask) /\ a.ask.start <= a.ask.end =>
        /\ \A i \in 1..n : a.points[i].period = first + i - 1
        /\ \/ n = last - first + 1
           \/ n = last - first /\ Offset(a.ask.start, g) > Offset(a.ask.end, g)

(* and add up to the total.                                                   *)
ChartAddsUp(a) ==
    LET n   == Len(a.points)
        sum == Total([i \in 1..n |-> a.points[i].value], 1..n) IN
    /\ a.total \in Nat /\ sum \in Nat
    /\ IF a.ask.type = "total-shipments" THEN sum = a.total
                                         ELSE 2 * Distance(sum, a.total) <= n + 1

(* All of it.                                                                 *)
Charted(a, made, val) ==
    /\ ChartOfPeriods(a)
    /\ ChartOfValues(a, made, val)
    /\ ChartHasNoHole(a)
    /\ ChartAddsUp(a)

(* What is shown is off by half a unit at most.                               *)
LEMMA ShownFacts ==
    ASSUME NEW type, NEW v \in Nat
    PROVE  /\ Shown(type, v) \in Nat
           /\ Shown(type, 0) = 0
           /\ type = "total-shipments" => Shown(type, v) = v
           /\ type # "total-shipments" => 10 * Shown(type, v) - v \in -5..5
<1>1. CASE type = "total-shipments"
  BY <1>1 DEF Shown
<1>2. CASE type # "total-shipments"
  <2>1. PICK q \in Int : q = (v + 5) \div 10
    OBVIOUS
  <2>2. q \in Nat /\ q * 10 <= v + 5 /\ v + 5 < (q + 1) * 10
    BY <2>1, Division
  <2>3. 10 * q - v \in -5..5
    BY <2>2
  <2>4. (0 + 5) \div 10 = 0
    OBVIOUS
  <2> QED
    BY <1>2, <2>1, <2>2, <2>3, <2>4 DEF Shown
<1> QED
  BY <1>1, <1>2

(* At most five apart, to either side. *)
LEMMA AtMostFive ==
    ASSUME NEW x \in Int, NEW y \in Int, x - y \in -5..5
    PROVE  x - y <= 5 /\ y - x <= 5
  OBVIOUS

(* Sums of rounded values and the rounded sum.  *)
LEMMA HalfUnits ==
    ASSUME NEW s \in Nat, NEW t \in Nat, NEW n \in Nat, NEW total \in Nat,
           10 * s - total <= 5 * n, total - 10 * s <= 5 * n,
           10 * t - total <= 5, total - 10 * t <= 5
    PROVE  2 * Distance(s, t) <= n + 1
<1>1. 2 * (s - t) <= n + 1 /\ 2 * (t - s) <= n + 1
  OBVIOUS
<1>2. CASE s < t
  BY <1>1, <1>2 DEF Distance
<1>3. CASE ~ (s < t)
  BY <1>1, <1>3 DEF Distance
<1> QED
  BY <1>2, <1>3

(* The sum of what is shown, and what is shown of the sum.                    *)
LEMMA SumsAgree ==
    ASSUME NEW n \in Nat, NEW type, NEW f, NEW h, NEW total \in Nat,
           \A i \in 1..n : f[i] \in Nat /\ h[i] = Shown(type, f[i]),
           Total(f, 1..n) = total
    PROVE  /\ Total(h, 1..n) \in Nat
           /\ IF type = "total-shipments" THEN Total(h, 1..n) = Shown(type, total)
              ELSE 2 * Distance(Total(h, 1..n), Shown(type, total)) <= n + 1
<1>1. IsFiniteSet(1..n) /\ Cardinality(1..n) = n
  BY FS_Interval
<1>2. \A i \in 1..n : h[i] \in Nat
  BY ShownFacts
<1>3. Total(h, 1..n) \in Nat
  BY <1>1, <1>2, TotalNat
<1>4. CASE type = "total-shipments"
  <2>1. Total(h, 1..n) = Total(f, 1..n)
    BY <1>4, ShownFacts, TotalSame
  <2> QED
    BY <1>3, <1>4, <2>1, ShownFacts
<1>5. CASE type # "total-shipments"
  <2>1. \A i \in 1..n : f[i] \in Int /\ h[i] \in Int /\ 10 * h[i] - f[i] \in -5..5
    <3> SUFFICES ASSUME NEW i \in 1..n
                 PROVE  f[i] \in Int /\ h[i] \in Int /\ 10 * h[i] - f[i] \in -5..5
      OBVIOUS
    <3> QED
      BY <1>2, <1>5, ShownFacts
  <2>2. PICK s \in Nat : s = Total(h, 1..n)
    BY <1>3
  <2>3. 10 * s - total <= 5 * n /\ total - 10 * s <= 5 * n
    BY <1>1, <2>1, <2>2, TotalRounded
  <2>4. PICK t \in Nat : t = Shown(type, total) /\ 10 * t - total \in -5..5
    BY <1>5, ShownFacts
  <2>5. 10 * t - total <= 5 /\ total - 10 * t <= 5
    <3>1. PICK x \in Int : x = 10 * t
      OBVIOUS
    <3>2. x - total \in -5..5
      BY <2>4, <3>1
    <3> QED
      BY <3>1, <3>2, AtMostFive
  <2>6. 2 * Distance(s, t) <= n + 1
    BY <2>3, <2>5, HalfUnits
  <2> QED
    BY <1>3, <1>5, <2>2, <2>4, <2>6
<1> QED
  BY <1>4, <1>5

(* The answer of a report over time is such a chart, whatever order the rows  *)
(* come in.                                                                   *)
LEMMA ChartIsCharted ==
    ASSUME NEW ask, SeriesAsk(ask), NEW made, NEW val, Made(DOMAIN val, made, val, ask),
           NEW order \in SetToSeqs(DOMAIN val), NEW points,
           points = Filled(DOMAIN val, order, made, val, ask),
           NEW a, a = [ask |-> ask, total |-> Shown(ask.type, Total(val, DOMAIN val)), gone |-> {},
                       points |-> [i \in DOMAIN points |->
                           [points[i] EXCEPT !.value = Shown(ask.type, @)]]]
    PROVE  Charted(a, made, val)
<1> DEFINE D == DOMAIN val
           g == ask.granularity
           per == [s \in D |-> PeriodOf(made[s], g)]
           n == Len(points)
           Of(p) == Here(p, g, made, val)
           h == [i \in 1..n |-> a.points[i].value]
           f == [i \in 1..n |-> points[i].value]
<1>1. Tells(points, per, val, D) /\ Follows(points, Zeros(ask), per, D)
  BY ChartTells
<1>2. /\ points \in Seq(Point) /\ n \in Nat /\ DOMAIN points = 1..n
      /\ \A i, j \in 1..n : points[i].period = points[j].period => i = j
      /\ \A i \in 1..n : points[i].value = Total(val, In(D, per, points[i].period))
      /\ \A s \in D : \E i \in 1..n : points[i].period = per[s]
      /\ Total(f, 1..n) = Total(val, D)
  <2>1. points \in Seq(Point)
    BY <1>1 DEF Tells
  <2>2. n \in Nat /\ DOMAIN points = 1..n
    BY <2>1
  <2> QED
    BY <1>1, <2>1, <2>2, Zenon DEF Tells
<1>3. \A i \in 1..n : points[i].period \in Nat /\ points[i].value \in Nat
  <2>1. \A i \in 1..n : points[i] \in Point
    BY <1>2, ElementOfSeq
  <2> QED
    BY <2>1 DEF Point
<1>4. /\ a.ask = ask /\ a.total = Shown(ask.type, Total(val, D))
      /\ \A i \in 1..n : a.points[i] = [points[i] EXCEPT !.value = Shown(ask.type, @)]
      /\ a.points = [i \in 1..n |-> a.points[i]]
  BY <1>2
<1>5. \A i \in 1..n : /\ a.points[i] \in Point
                      /\ a.points[i].period = points[i].period
                      /\ a.points[i].value = Shown(ask.type, points[i].value)
  <2> SUFFICES ASSUME NEW i \in 1..n
               PROVE  /\ a.points[i] \in Point
                      /\ a.points[i].period = points[i].period
                      /\ a.points[i].value = Shown(ask.type, points[i].value)
    OBVIOUS
  <2>1. points[i] \in [period : Nat, value : Nat]
    BY <1>2, ElementOfSeq DEF Point
  <2>2. PICK p \in Nat, v \in Nat : points[i] = [period |-> p, value |-> v]
    BY <2>1
  <2>3. a.points[i] = [period |-> p, value |-> Shown(ask.type, v)]
    BY <1>4, <2>2
  <2>4. Shown(ask.type, v) \in Nat
    BY ShownFacts
  <2> QED
    BY <2>2, <2>3, <2>4 DEF Point
<1>6. a.points \in Seq(Point) /\ Len(a.points) = n
  <2>1. PICK Q : Q = a.points
    OBVIOUS
  <2>2. Q = [i \in 1..n |-> Q[i]] /\ \A i \in 1..n : Q[i] \in Point
    BY <1>4, <1>5, <2>1
  <2>3. Q \in [1..n -> Point]
    BY <2>2
  <2>4. Q \in Seq(Point) /\ Len(Q) = n
    BY <1>2, <2>3
  <2> QED
    BY <2>1, <2>4
<1>7. \A i \in 1..n : points[i].period \in Touched(ask)
  BY <1>1, <1>2, ChartPeriods, ZenonT(40)
<1>8. \A p \in Touched(ask) : Of(p) = In(D, per, p)
  BY InIsWithin DEF Here
<1>9. EveryMonthHasItsDay(ask) /\ ask.start <= ask.end =>
          LET first == PeriodOf(ask.start, g)
              last  == PeriodOf(ask.end, g) IN
          /\ \A i \in 1..n : points[i].period = first + i - 1
          /\ \/ n = last - first + 1
             \/ n = last - first /\ Offset(ask.start, g) > Offset(ask.end, g)
  BY <1>1, <1>2, <1>7, ChartDense
<1>10. Total(val, D) \in Nat
  BY TotalNat DEF Made
<1>11. /\ Total(h, 1..n) \in Nat
       /\ IF ask.type = "total-shipments" THEN Total(h, 1..n) = a.total
          ELSE 2 * Distance(Total(h, 1..n), a.total) <= n + 1
  <2>1. \A i \in 1..n : f[i] \in Nat /\ h[i] = Shown(ask.type, f[i])
    BY <1>3, <1>5
  <2> HIDE DEF f, h
  <2> QED
    BY <1>2, <1>4, <1>10, <2>1, SumsAgree
<1>12. a.total \in Nat
  BY <1>4, <1>10, ShownFacts
<1> HIDE DEF n, per, f
<1>13. \A i, j \in 1..n : a.points[i].period = a.points[j].period => i = j
  BY <1>2, <1>5
<1>14. \A i \in 1..n : a.points[i].period \in Touched(ask)
  BY <1>5, <1>7
<1> HIDE DEF D, Of
<1>15. ASSUME NEW p \in Touched(ask), NEW i \in 1..n, a.points[i].period = p
       PROVE  a.points[i].value = Shown(ask.type, Total(val, Of(p)))
  <2>1. points[i].period = p /\ a.points[i].value = Shown(ask.type, points[i].value)
    BY <1>5, <1>15
  <2>2. points[i].value = Total(val, In(D, per, p))
    BY <1>2, <2>1
  <2> QED
    BY <1>8, <2>1, <2>2
<1>16. ASSUME NEW p \in Touched(ask), \A i \in 1..n : a.points[i].period # p
       PROVE  Of(p) = {}
  <2>1. \A s \in D : per[s] # p
    <3> SUFFICES ASSUME NEW s \in D, per[s] = p PROVE FALSE
      OBVIOUS
    <3>1. PICK i \in 1..n : points[i].period = per[s]
      BY <1>2
    <3> QED
      BY <1>5, <1>16, <3>1
  <2>2. In(D, per, p) = {}
    BY <2>1 DEF In
  <2> QED
    BY <1>8, <2>2
<1>17. EveryMonthHasItsDay(ask) /\ ask.start <= ask.end =>
          LET first == PeriodOf(ask.start, g)
              last  == PeriodOf(ask.end, g) IN
          /\ \A i \in 1..n : a.points[i].period = first + i - 1
          /\ \/ n = last - first + 1
             \/ n = last - first /\ Offset(ask.start, g) > Offset(ask.end, g)
  BY <1>5, <1>9
<1> HIDE DEF g
<1>18. a.ask = ask /\ Len(a.points) = n
  BY <1>4, <1>6
<1>19. ChartOfPeriods(a)
  <2>1. /\ \A i, j \in 1..Len(a.points) : a.points[i].period = a.points[j].period => i = j
        /\ \A i \in 1..Len(a.points) : a.points[i].period \in Touched(a.ask)
    BY <1>13, <1>14, <1>18, ZenonT(60)
  <2> QED
    BY <1>6, <2>1, ZenonT(40) DEF ChartOfPeriods
<1>20. ChartOfValues(a, made, val)
  <2>1. \A p \in Touched(ask) :
           /\ \A i \in 1..n : a.points[i].period = p
                 => a.points[i].value = Shown(ask.type, Total(val, Of(p)))
           /\ (\A i \in 1..n : a.points[i].period # p) => Of(p) = {}
    BY <1>15, <1>16
  <2>2. ASSUME NEW p \in Touched(a.ask)
        PROVE  /\ \A i \in 1..Len(a.points) : a.points[i].period = p
                  => a.points[i].value
                        = Shown(a.ask.type, Total(val, Here(p, a.ask.granularity, made, val)))
               /\ (\A i \in 1..Len(a.points) : a.points[i].period # p)
                  => Here(p, a.ask.granularity, made, val) = {}
    <3>1. Here(p, a.ask.granularity, made, val) = Of(p)
      BY <1>18, Zenon DEF Of, g
    <3>2. /\ \A i \in 1..n : a.points[i].period = p
                => a.points[i].value = Shown(ask.type, Total(val, Of(p)))
          /\ (\A i \in 1..n : a.points[i].period # p) => Of(p) = {}
      BY <1>18, <2>1, <2>2, Zenon
    <3> QED
      BY <1>18, <3>1, <3>2
  <2> QED
    BY <2>2, Zenon DEF ChartOfValues
<1>21. ChartHasNoHole(a)
  BY <1>17, <1>18, Zenon DEF ChartHasNoHole, g
<1>22. ChartAddsUp(a)
  BY <1>11, <1>12, <1>18, Zenon DEF ChartAddsUp
<1> QED
  BY <1>19, <1>20, <1>21, <1>22 DEF Charted

(* The dates of what is charted, and all that is said of a chart that was sent. *)
Dates == [s \in ShipmentIds |-> shipments[s].createdAt]

ChartExact == OverTimeAnswer => Charted(answer, Dates, Values(answer.ask))

(* It is sent of the shipments that are there.                                *)
LEMMA ChartExactNext ==
    ASSUME shipments' = shipments, Charted(answer', Dates, Values(answer'.ask))
    PROVE  ChartExact'
<1>1. Dates' = Dates
  BY DEF Dates, ShipmentIds
<1>2. Values(answer.ask)' = Values(answer'.ask)
  BY DEF Values, Ones, Prices, Distances, InRange, ShipmentIds
<1> QED
  BY <1>1, <1>2, Zenon DEF ChartExact

(* What a client may ask for, by the type of the request.                     *)
LEMMA AskFacts ==
    ASSUME NEW ask \in Asks
    PROVE  /\ ask.type \in ReportTypes /\ ask.start \in Nat /\ ask.end \in Nat /\ Dated(ask.end)
           /\ ask.granularity # None => SeriesAsk(ask)
<1>1. ask \in [type : ReportTypes, granularity : Granularities \cup {None}, start : Nat, end : Nat]
  BY ReportsAssumption DEF Ask
<1>2. \E m \in Months : ask.end < MonthStart[m]
  BY ReportsAssumption
<1> QED
  BY <1>1, <1>2 DEF Dated, SeriesAsk

(* What a row holds, by the type of the table.                                *)
LEMMA RowFacts ==
    ASSUME TypeOK
    PROVE  /\ IsFiniteSet(ShipmentIds) /\ ShipmentIds \subseteq Shipments
           /\ \A s \in ShipmentIds :
                 /\ shipments[s].createdAt \in Nat /\ Dated(shipments[s].createdAt)
                 /\ shipments[s].price \in Nat \cup {None}
                 /\ shipments[s].distance \in Nat \cup {None}
                 /\ shipments[s].status \in Statuses
                 /\ shipments[s].customer \in Customers
                 /\ shipments[s].vehicle \in Vehicles \cup {None}
<1>1. ShipmentIds \subseteq Shipments /\ IsFiniteSet(Shipments)
  BY ReportsAssumption DEF ShipmentIds
<1>2. IsFiniteSet(ShipmentIds)
  BY <1>1, FS_Subset
<1>3. ASSUME NEW s \in ShipmentIds
      PROVE  /\ shipments[s] \in [createdAt : Nat, price : Nat \cup {None},
                                  distance : Nat \cup {None}, status : Statuses,
                                  customer : Customers, vehicle : Vehicles \cup {None}]
             /\ shipments[s] \in Rows
  BY ReportsAssumption DEF TypeOK, ShipmentIds, ShipmentRow
<1>4. \A w \in Rows : \E m \in Months : w.createdAt < MonthStart[m]
  BY ReportsAssumption
<1>5. ASSUME NEW s \in ShipmentIds
      PROVE  /\ shipments[s].createdAt \in Nat /\ Dated(shipments[s].createdAt)
             /\ shipments[s].price \in Nat \cup {None}
             /\ shipments[s].distance \in Nat \cup {None}
             /\ shipments[s].status \in Statuses
             /\ shipments[s].customer \in Customers
             /\ shipments[s].vehicle \in Vehicles \cup {None}
  BY <1>3, <1>4 DEF Dated
<1> QED
  BY <1>1, <1>2, <1>5

(* What is in the range of a report.                                          *)
LEMMA RangeFacts ==
    ASSUME TypeOK, NEW ask \in Asks
    PROVE  /\ IsFiniteSet(InRange(ask)) /\ InRange(ask) \subseteq ShipmentIds
           /\ \A s \in InRange(ask) : ask.start <= shipments[s].createdAt
                                      /\ shipments[s].createdAt <= ask.end
<1>1. IsFiniteSet(ShipmentIds) /\ InRange(ask) \subseteq ShipmentIds
  BY RowFacts DEF InRange
<1>2. IsFiniteSet(InRange(ask))
  BY <1>1, FS_Subset
<1>3. \A s \in InRange(ask) : /\ ask.start <= shipments[s].createdAt
                              /\ shipments[s].createdAt <= ask.end
  BY <1>1, AskFacts, RowFacts DEF InRange
<1> QED
  BY <1>1, <1>2, <1>3

(* What a report over time adds up is of dated rows of the range.             *)
LEMMA ValuesMade ==
    ASSUME TypeOK, NEW ask \in Asks, ask.type \in SeriesTypes
    PROVE  /\ Made(DOMAIN Values(ask), Dates, Values(ask), ask)
           /\ Values(ask) = [s \in DOMAIN Values(ask) |-> Values(ask)[s]]
           /\ DOMAIN Values(ask) \subseteq ShipmentIds
<1> DEFINE val == Values(ask)
           D   == DOMAIN val
<1>1. /\ val = [s \in D |-> val[s]] /\ D \subseteq InRange(ask)
      /\ \A s \in D : val[s] \in Nat
  <2>1. CASE ask.type = "total-shipments"
    BY <2>1 DEF Values, Ones
  <2>2. CASE ask.type = "revenue-over-time"
    <3>1. val = Prices(ask)
      BY <2>2 DEF Values
    <3>2. \A s \in InRange(ask) : shipments[s].price \in Nat \cup {None}
      BY RangeFacts, RowFacts
    <3> QED
      BY <3>1, <3>2 DEF Prices
  <2>3. CASE ask.type = "total-distance-covered"
    <3>1. val = Distances(ask)
      BY <2>3 DEF Values
    <3>2. \A s \in InRange(ask) : shipments[s].distance \in Nat \cup {None}
      BY RangeFacts, RowFacts
    <3> QED
      BY <3>1, <3>2 DEF Distances
  <2> QED
    BY <2>1, <2>2, <2>3 DEF SeriesTypes
<1> HIDE DEF val, D
<1>2. IsFiniteSet(D) /\ D \subseteq ShipmentIds
  BY <1>1, RangeFacts, FS_Subset
<1>3. \A s \in D : /\ Dated(Dates[s]) /\ ask.start <= Dates[s] /\ Dates[s] <= ask.end
  BY <1>1, <1>2, RangeFacts, RowFacts DEF Dates
<1> QED
  BY <1>1, <1>2, <1>3 DEF Made, val, D

(* It adds up to a natural.                                                   *)
LEMMA SumOfValues ==
    ASSUME TypeOK, NEW ask \in Asks, ask.type \in SeriesTypes
    PROVE  /\ Sum(Values(ask)) = Total(Values(ask), DOMAIN Values(ask))
           /\ Sum(Values(ask)) \in Nat
<1>1. Sum(Values(ask)) = Total(Values(ask), DOMAIN Values(ask))
  BY ValuesMade, SumIsTotal
<1>2. IsFiniteSet(DOMAIN Values(ask)) /\ \A s \in DOMAIN Values(ask) : Values(ask)[s] \in Nat
  BY ValuesMade DEF Made
<1> QED
  BY <1>1, <1>2, TotalNat

(* The handler sends such a chart.                                            *)
LEMMA PerPeriodCharted ==
    ASSUME TypeOK, NEW ask \in Asks, ask.type \in SeriesTypes, ask.granularity # None,
           PerPeriod(ask, Values(ask))
    PROVE  answer'.ask = ask /\ Charted(answer', Dates, Values(ask))
<1> DEFINE val == Values(ask)
           D   == DOMAIN val
           Items(order) == [i \in DOMAIN order |->
                               [period |-> PeriodOf(shipments[order[i]].createdAt, ask.granularity),
                                value |-> val[order[i]]]]
           Dated1(order) == [i \in DOMAIN order |->
                               [period |-> PeriodOf(Dates[order[i]], ask.granularity),
                                value |-> val[order[i]]]]
           Sent(points) == [ask |-> ask, total |-> Shown(ask.type, Sum(val)), gone |-> {},
                            points |-> [i \in DOMAIN points |->
                                [points[i] EXCEPT !.value = Shown(ask.type, @)]]]
<1>1. PICK order \in SetToSeqs(D) : answer' = Sent(Folded(Zeros(ask), Items(order)))
  BY Zenon DEF PerPeriod, Folded
<1>2. /\ D \subseteq ShipmentIds /\ Made(D, Dates, val, ask)
      /\ Sum(val) = Total(val, D) /\ IsFiniteSet(D)
  BY ValuesMade, SumOfValues DEF Made
<1>3. SeriesAsk(ask)
  BY AskFacts
<1>4. Items(order) = Dated1(order)
  <2> HIDE DEF D, val
  <2>1. \A i \in DOMAIN order : order[i] \in D
    <3>1. PICK n \in Nat : order \in [1..n -> D]
      BY <1>2, OrderFacts
    <3> QED
      BY <3>1
  <2>2. \A i \in DOMAIN order : Dates[order[i]] = shipments[order[i]].createdAt
    BY <1>2, <2>1 DEF Dates
  <2> QED
    BY <2>2
<1>5. Filled(D, order, Dates, val, ask) = Folded(Zeros(ask), Items(order))
  <2> HIDE DEF D, val, Items
  <2>1. Filled(D, order, Dates, val, ask) = Folded(Zeros(ask), Dated1(order))
    BY Zenon DEF Filled
  <2> QED
    BY <1>4, <2>1, Zenon
<1> HIDE DEF Items, D, val
<1>6. answer' = [ask |-> ask, total |-> Shown(ask.type, Total(val, D)), gone |-> {},
                 points |-> [i \in DOMAIN Folded(Zeros(ask), Items(order)) |->
                     [Folded(Zeros(ask), Items(order))[i] EXCEPT !.value = Shown(ask.type, @)]]]
  BY <1>1, <1>2, Zenon
<1>7. Charted(answer', Dates, val)
  BY <1>2, <1>3, <1>5, <1>6, ChartIsCharted, Zenon DEF D
<1> QED
  BY <1>6, <1>7 DEF val

-----------------------------------------------------------------------------
(* The reports of counts. *)

(* A report that is no chart has the total that its points add up to.         *)
CountsAgree == answer # None /\ ~ OverTimeAnswer => TotalsAgree

(* A percentage is rounded by half a percent at most, and a part has at most  *)
(* all.                                                                       *)
LEMMA PercentFacts ==
    ASSUME NEW n \in Nat, NEW total \in Nat, total > 0
    PROVE  /\ Percent(n, total) \in Nat
           /\ 2 * Distance(100 * n, Percent(n, total) * total) <= total
           /\ n <= total => Percent(n, total) \in 0..100
<1> DEFINE q == Percent(n, total)
<1>1. /\ q \in Nat
      /\ q * (2 * total) <= 200 * n + total /\ 200 * n + total < (q + 1) * (2 * total)
  <2>1. 200 * n + total \in Nat /\ 2 * total \in Nat \ {0}
    OBVIOUS
  <2> QED
    BY <2>1, Division DEF Percent
<1> HIDE DEF q
<1>2. PICK z \in Nat : z = q * total
  BY <1>1
<1>3. q * (2 * total) = 2 * z /\ (q + 1) * (2 * total) = 2 * z + 2 * total
  <2>1. q * (2 * total) = 2 * (q * total)
    BY <1>1
  <2>2. (q + 1) * (2 * total) = q * (2 * total) + 2 * total
    BY <1>1, OneMore
  <2> QED
    BY <1>2, <2>1, <2>2
<1>4. 2 * z <= 200 * n + total /\ 200 * n + total < 2 * z + 2 * total
  BY <1>1, <1>3
<1>5. 2 * Distance(100 * n, z) <= total
  <2>1. CASE 100 * n < z
    BY <1>4, <2>1 DEF Distance
  <2>2. CASE ~ (100 * n < z)
    BY <1>4, <2>2 DEF Distance
  <2> QED
    BY <2>1, <2>2
<1>6. ASSUME n <= total PROVE q \in 0..100
  <2>1. SUFFICES ASSUME 101 <= q PROVE FALSE
    BY <1>1
  <2>2. 101 * total <= q * total
    BY <1>1, <2>1, TimesMonotone
  <2> QED
    BY <1>2, <1>4, <1>6, <2>2
<1> QED
  BY <1>1, <1>2, <1>5, <1>6 DEF q

(* What a report of counts says of the table of its points. *)
LEMMA TalliedTotal ==
    ASSUME NEW ask, NEW points, NEW gone, Tallied(ask, points, gone),
           IsFiniteSet(DOMAIN points), \A k \in DOMAIN points : points[k].value \in Nat
    PROVE  /\ answer' = [ask |-> ask, points |-> points, gone |-> gone, total |-> answer'.total]
           /\ answer'.total = Total([k \in DOMAIN points |-> points[k].value], DOMAIN points)
           /\ answer'.total \in Nat
<1> DEFINE K == DOMAIN points
           f == [k \in K |-> points[k].value]
<1>1. answer' = [ask |-> ask, points |-> points, gone |-> gone, total |-> Sum(f)]
  BY Zenon DEF Tallied
<1>2. f = [k \in K |-> f[k]] /\ \A k \in K : f[k] \in Nat
  OBVIOUS
<1>3. Sum(f) = Total(f, K) /\ Total(f, K) \in Nat
  <2> HIDE DEF f
  <2> QED
    BY <1>2, SumIsTotal, TotalNat
<1> HIDE DEF f
<1> QED
  BY <1>1, <1>3, Zenon DEF f

(* Counts of shipments in classes that have none in common.                   *)
LEMMA TalliedClasses ==
    ASSUME TypeOK, NEW ask \in Asks, NEW points, NEW gone, Tallied(ask, points, gone),
           IsFiniteSet(DOMAIN points), NEW class,
           \A k \in DOMAIN points :
              class[k] \subseteq InRange(ask) /\ points[k].value = Cardinality(class[k]),
           \A k, l \in DOMAIN points : k # l => class[k] \cap class[l] = {}
    PROVE  /\ answer' = [ask |-> ask, points |-> points, gone |-> gone, total |-> answer'.total]
           /\ answer'.total = Cardinality(AllOf(class, DOMAIN points))
           /\ answer'.total \in Nat
           /\ \A k \in DOMAIN points : points[k].value \in Nat
<1> DEFINE K == DOMAIN points
           f == [k \in K |-> points[k].value]
<1>1. \A k \in K : IsFiniteSet(class[k])
  BY RangeFacts, FS_Subset
<1>2. \A k \in K : f[k] = Cardinality(class[k]) /\ points[k].value \in Nat
  BY <1>1, FS_CardinalityType
<1>3. /\ answer' = [ask |-> ask, points |-> points, gone |-> gone, total |-> answer'.total]
      /\ answer'.total = Total(f, K) /\ answer'.total \in Nat
  BY <1>2, TalliedTotal
<1> HIDE DEF f, K
<1>4. Total(f, K) = Cardinality(AllOf(class, K))
  <2>1. \A k \in K : IsFiniteSet(class[k]) /\ f[k] = Cardinality(class[k])
    BY <1>1, <1>2
  <2>2. IsFiniteSet(K) /\ \A k, l \in K : k # l => class[k] \cap class[l] = {}
    BY DEF K
  <2> QED
    BY <2>1, <2>2, TotalOfClasses
<1> QED
  BY <1>2, <1>3, <1>4 DEF K

(* Classes that leave nothing out have everything.                            *)
LEMMA AllOfIs ==
    ASSUME NEW K, NEW A, NEW S, \A k \in K : A[k] \subseteq S, \A s \in S : \E k \in K : s \in A[k]
    PROVE  AllOf(A, K) = S
  BY DEF AllOf

(* A line of a report of counts.                                              *)
LEMMA TallyMade ==
    ASSUME NEW v \in Nat, NEW p \in Nat \cup {None}, NEW name \in BOOLEAN
    PROVE  [value |-> v, name |-> name, percent |-> p] \in Tally
  BY DEF Tally

(* Every shipment of the range has one status.                                *)
LEMMA StatusAnswers ==
    ASSUME TypeOK, NEW ask \in Asks, ShipmentsByStatus(ask), UNCHANGED shipments
    PROVE  /\ answer'.ask = ask /\ answer'.total \in Nat
           /\ \A k \in DOMAIN answer'.points : answer'.points[k] \in Tally
           /\ CountsAgree'
<1> DEFINE Of(status) == {s \in InRange(ask) : shipments[s].status = status}
           K      == {st \in Statuses : Of(st) # {}}
           points == [status \in K |->
                        [value |-> Count(Of(status)), name |-> TRUE,
                         percent |-> Percent(Count(Of(status)), Count(InRange(ask)))]]
           class  == [status \in K |-> Of(status)]
<1>1. Tallied(ask, points, {}) /\ ask.type = "shipments-by-status"
  BY DEF ShipmentsByStatus
<1>2. IsFiniteSet(K)
  <2> HIDE DEF Of
  <2>1. IsFiniteSet({"PENDING"})
    BY FS_Singleton
  <2>2. IsFiniteSet({"PENDING"} \cup {"IN_TRANSIT"})
    BY <2>1, FS_AddElement
  <2>3. IsFiniteSet(({"PENDING"} \cup {"IN_TRANSIT"}) \cup {"DELIVERED"})
    BY <2>2, FS_AddElement
  <2>4. ({"PENDING"} \cup {"IN_TRANSIT"}) \cup {"DELIVERED"} = Statuses
    BY DEF Statuses
  <2>5. IsFiniteSet(Statuses) /\ K \subseteq Statuses
    BY <2>3, <2>4
  <2> QED
    BY <2>5, FS_Subset, Zenon
<1>3. /\ DOMAIN points = K
      /\ \A k \in K : class[k] \subseteq InRange(ask) /\ points[k].value = Cardinality(class[k])
      /\ \A k, l \in K : k # l => class[k] \cap class[l] = {}
  BY DEF Count
<1>4. AllOf(class, K) = InRange(ask)
  <2>1. \A s \in InRange(ask) : shipments[s].status \in Statuses
    BY RangeFacts, RowFacts
  <2>2. ASSUME NEW s \in InRange(ask) PROVE \E k \in K : s \in class[k]
    <3>1. s \in Of(shipments[s].status) /\ shipments[s].status \in K
      BY <2>1
    <3> HIDE DEF Of, K
    <3>2. s \in class[shipments[s].status]
      BY <3>1
    <3> QED
      BY <3>1, <3>2
  <2> QED
    BY <1>3, <2>2, AllOfIs
<1>5. \A k \in K : points[k].percent = Percent(points[k].value, Count(InRange(ask)))
                   /\ points[k] = [value |-> points[k].value, name |-> TRUE,
                                   percent |-> points[k].percent]
  OBVIOUS
<1>6. \A k \in K : Of(k) # {}
  OBVIOUS
<1> HIDE DEF points, class, K
<1>7. /\ answer' = [ask |-> ask, points |-> points, gone |-> {}, total |-> answer'.total]
      /\ answer'.total = Count(InRange(ask)) /\ answer'.total \in Nat
      /\ \A k \in K : points[k].value \in Nat
  BY <1>1, <1>2, <1>3, <1>4, TalliedClasses DEF Count
<1>8. answer'.ask = ask /\ answer'.points = points
  BY <1>7
<1>9. ASSUME NEW k \in K
      PROVE  /\ points[k].percent \in Nat
             /\ 2 * Distance(100 * points[k].value, points[k].percent * answer'.total)
                  <= answer'.total
  <2>1. answer'.total > 0
    <3>1. Cardinality(InRange(ask)) # 0
      BY <1>6, RangeFacts, FS_EmptySet
    <3> QED
      BY <1>7, <3>1 DEF Count
  <2>2. PICK v \in Nat, total \in Nat : v = points[k].value /\ total = answer'.total
    BY <1>7
  <2>3. Percent(v, total) \in Nat /\ 2 * Distance(100 * v, Percent(v, total) * total) <= total
    BY <2>1, <2>2, PercentFacts
  <2>4. points[k].percent = Percent(v, total)
    BY <1>5, <1>7, <2>2
  <2> QED
    BY <2>2, <2>3, <2>4
<1>10. \A k \in K : points[k] \in Tally
  BY <1>5, <1>7, <1>9, TallyMade
<1>11. InRange(answer.ask)' = InRange(ask)
  BY <1>8 DEF InRange, ShipmentIds
<1>12. TotalsAgree'
  BY <1>1, <1>3, <1>7, <1>8, <1>9, <1>11 DEF TotalsAgree, SeriesTypes
<1> QED
  BY <1>3, <1>7, <1>8, <1>10, <1>12 DEF CountsAgree

(* Every shipment of the range with a vehicle has one vehicle.                *)
LEMMA UtilizationAnswers ==
    ASSUME TypeOK, NEW ask \in Asks, VehicleUtilization(ask), UNCHANGED shipments
    PROVE  /\ answer'.ask = ask /\ answer'.total \in Nat
           /\ \A k \in DOMAIN answer'.points : answer'.points[k] \in Tally
           /\ CountsAgree'
<1> DEFINE Of(v)  == {s \in InRange(ask) : shipments[s].vehicle = v}
           points == [v \in Vehicles |-> [value |-> Count(Of(v)), name |-> TRUE, percent |-> None]]
           class  == [v \in Vehicles |-> Of(v)]
           Driven == {s \in InRange(ask) : shipments[s].vehicle # None}
<1>1. Tallied(ask, points, {}) /\ ask.type = "vehicle-utilization"
  BY DEF VehicleUtilization
<1>2. IsFiniteSet(Vehicles) /\ None \notin Vehicles
  BY ReportsAssumption
<1>3. /\ DOMAIN points = Vehicles
      /\ \A v \in Vehicles :
            class[v] \subseteq InRange(ask) /\ points[v].value = Cardinality(class[v])
      /\ \A v, w \in Vehicles : v # w => class[v] \cap class[w] = {}
  BY DEF Count
<1>4. AllOf(class, Vehicles) = Driven
  <2>1. \A s \in InRange(ask) : shipments[s].vehicle \in Vehicles \cup {None}
    BY RangeFacts, RowFacts
  <2>2. \A v \in Vehicles : class[v] \subseteq Driven
    BY <1>2
  <2>3. ASSUME NEW s \in Driven PROVE \E v \in Vehicles : s \in class[v]
    BY <2>1
  <2> HIDE DEF class, Driven
  <2> QED
    BY <2>2, <2>3, AllOfIs
<1>5. \A v \in Vehicles : points[v] = [value |-> points[v].value, name |-> TRUE, percent |-> None]
  OBVIOUS
<1> HIDE DEF points, class, Driven
<1>6. /\ answer' = [ask |-> ask, points |-> points, gone |-> {}, total |-> answer'.total]
      /\ answer'.total = Cardinality(Driven) /\ answer'.total \in Nat
      /\ \A v \in Vehicles : points[v].value \in Nat
  BY <1>1, <1>2, <1>3, <1>4, TalliedClasses
<1>7. answer'.ask = ask /\ answer'.points = points
  BY <1>6
<1>8. \A v \in Vehicles : points[v] \in Tally
  BY <1>5, <1>6, TallyMade
<1>9. InRange(answer.ask)' = InRange(ask)
  BY <1>7 DEF InRange, ShipmentIds
<1>10. TotalsAgree'
  BY <1>1, <1>6, <1>7, <1>9 DEF TotalsAgree, SeriesTypes, Count, Driven
<1> QED
  BY <1>3, <1>6, <1>7, <1>8, <1>10 DEF CountsAgree

(* What a driver has delivered is part of what he was given.                  *)
LEMMA PerformanceAnswers ==
    ASSUME TypeOK, NEW ask \in Asks, DriverPerformance(ask), UNCHANGED shipments
    PROVE  /\ answer'.ask = ask /\ answer'.total \in Nat
           /\ \A k \in DOMAIN answer'.points : answer'.points[k] \in Tally
           /\ CountsAgree'
<1> DEFINE Of(v)   == {s \in InRange(ask) : shipments[s].vehicle = v}
           Done(v) == {s \in Of(v) : shipments[s].status = "DELIVERED"}
           Share(v) == IF Of(v) # {} THEN Percent(Count(Done(v)), Count(Of(v))) ELSE 0
           points == [v \in Vehicles |->
                         [value |-> Count(Done(v)), name |-> TRUE, percent |-> Share(v)]]
           class  == [v \in Vehicles |-> Done(v)]
           Driven == {s \in InRange(ask) : shipments[s].vehicle # None}
<1>1. Tallied(ask, points, {}) /\ ask.type = "driver-performance"
  BY DEF DriverPerformance
<1>2. IsFiniteSet(Vehicles) /\ None \notin Vehicles
  BY ReportsAssumption
<1>3. /\ DOMAIN points = Vehicles
      /\ \A v \in Vehicles :
            class[v] \subseteq InRange(ask) /\ points[v].value = Cardinality(class[v])
      /\ \A v, w \in Vehicles : v # w => class[v] \cap class[w] = {}
  BY DEF Count
<1>4. \A v \in Vehicles :
         points[v] = [value |-> points[v].value, name |-> TRUE, percent |-> Share(v)]
                          /\ points[v].percent = Share(v)
  OBVIOUS
<1>5. ASSUME NEW v \in Vehicles PROVE Share(v) \in 0..100
  <2>1. CASE Of(v) = {}
    BY <2>1
  <2>2. CASE Of(v) # {}
    <3>1. IsFiniteSet(Of(v)) /\ Done(v) \subseteq Of(v)
      BY RangeFacts, FS_Subset
    <3> HIDE DEF Done, Of
    <3>2. /\ Cardinality(Done(v)) \in Nat /\ Cardinality(Of(v)) \in Nat
          /\ Cardinality(Done(v)) <= Cardinality(Of(v)) /\ Cardinality(Of(v)) # 0
      BY <2>2, <3>1, FS_Subset, FS_CardinalityType, FS_EmptySet
    <3>3. PICK n \in Nat, total \in Nat :
             n = Cardinality(Done(v)) /\ total = Cardinality(Of(v)) /\ n <= total /\ total > 0
      BY <3>2
    <3>4. Percent(n, total) \in 0..100
      BY <3>3, PercentFacts
    <3>5. Share(v) = Percent(Count(Done(v)), Count(Of(v)))
      BY <2>2
    <3> QED
      BY <3>3, <3>4, <3>5 DEF Count
  <2> QED
    BY <2>1, <2>2
<1>6. IsFiniteSet(Driven) /\ AllOf(class, Vehicles) \subseteq Driven
  <2>1. IsFiniteSet(Driven)
    BY RangeFacts, FS_Subset
  <2> QED
    BY <1>2, <2>1 DEF AllOf
<1> HIDE DEF points, class, Driven, Share
<1>7. /\ answer' = [ask |-> ask, points |-> points, gone |-> {}, total |-> answer'.total]
      /\ answer'.total = Cardinality(AllOf(class, Vehicles)) /\ answer'.total \in Nat
      /\ \A v \in Vehicles : points[v].value \in Nat
  BY <1>1, <1>2, <1>3, TalliedClasses
<1>8. answer'.ask = ask /\ answer'.points = points /\ answer'.total <= Cardinality(Driven)
  <2>1. Cardinality(AllOf(class, Vehicles)) <= Cardinality(Driven)
    BY <1>6, FS_Subset
  <2> QED
    BY <1>7, <2>1
<1>9. \A v \in Vehicles : points[v] \in Tally
  <2>1. \A v \in Vehicles : Share(v) \in Nat
    BY <1>5
  <2> QED
    BY <1>4, <1>7, <2>1, TallyMade
<1>10. InRange(answer.ask)' = InRange(ask)
  BY <1>8 DEF InRange, ShipmentIds
<1>11. TotalsAgree'
  BY <1>1, <1>3, <1>4, <1>5, <1>8, <1>10 DEF TotalsAgree, SeriesTypes, Count, Driven
<1> QED
  BY <1>3, <1>7, <1>8, <1>9, <1>11 DEF CountsAgree

-----------------------------------------------------------------------------
(* What is sent. *)

(* The foreign key of Shipment. *)
CustomersKept == \A s \in ShipmentIds : shipments[s].customer \in customers

Known(r) ==
    /\ r = [ask |-> r.ask, groups |-> r.groups, gone |-> r.gone]
    /\ DOMAIN r.groups \subseteq customers \cup r.gone

(* The tables, the reports between their reads, and whom an answer calls      *)
(* unknown.                                                                   *)
Inv ==
    /\ DOMAIN shipments = Shipments /\ DOMAIN calls = Calls
    /\ CustomersKept
    /\ \A c \in Calls : calls[c] # None => Known(calls[c])
    /\ UnknownIsExplained

(* A chart over one period only. *)
LEMMA InOneAnswers ==
    ASSUME TypeOK, NEW ask \in Asks, ask.type \in SeriesTypes, ask.granularity = None,
           InOne(ask, Values(ask))
    PROVE  /\ answer'.ask = ask /\ answer'.total \in Nat
           /\ \A i \in DOMAIN answer'.points : answer'.points[i] \in Point
           /\ ChartExact' /\ CountsAgree'
<1> DEFINE total == Shown(ask.type, Sum(Values(ask)))
           points == <<[period |-> ask.start, value |-> total]>>
           f == [k \in DOMAIN points |-> points[k].value]
<1>1. answer' = [ask |-> ask, total |-> total, gone |-> {}, points |-> points]
  BY Zenon DEF InOne
<1>2. total \in Nat /\ ask.start \in Nat
  BY SumOfValues, ShownFacts, AskFacts
<1> HIDE DEF total
<1>3. /\ DOMAIN points = {1} /\ points[1].value = total
      /\ \A i \in DOMAIN points : points[i] \in Point
  BY <1>2 DEF Point
<1>4. f = [k \in {1} |-> f[k]] /\ f[1] = total
  BY <1>3
<1> HIDE DEF points
<1>5. Sum(f) = total
  <2> HIDE DEF f
  <2>1. Sum(f) = Total(f, {1})
    BY <1>4, SumIsTotal
  <2>2. IsFiniteSet({}) /\ 1 \notin {} /\ \A y \in {} \cup {1} : f[y] \in Int
    BY <1>2, <1>4, FS_EmptySet
  <2>3. Total(f, {} \cup {1}) = f[1] + Total(f, {})
    BY <2>2, TotalAdd
  <2>4. {} \cup {1} = {1}
    OBVIOUS
  <2> QED
    BY <1>2, <1>4, <2>1, <2>3, <2>4, TotalEmpty
<1>6. Cardinality(DOMAIN points) = 1 /\ Distance(total, total) = 0
  BY <1>2, <1>3, FS_Singleton DEF Distance
<1>7. answer'.ask = ask /\ answer'.total = total /\ answer'.points = points
  BY <1>1
<1>8. ChartExact' /\ ~ OverTimeAnswer'
  BY <1>7 DEF ChartExact, OverTimeAnswer
<1>9. Sum([k \in DOMAIN answer'.points |-> answer'.points[k].value]) = total
  BY <1>5, <1>7, Zenon DEF f
<1>10. TotalsAgree'
  <2>1. CASE ask.type = "total-shipments"
    BY <1>7, <1>9, <2>1 DEF TotalsAgree
  <2>2. CASE ask.type # "total-shipments"
    BY <1>2, <1>6, <1>7, <1>9, <2>2 DEF TotalsAgree, SeriesTypes
  <2> QED
    BY <2>1, <2>2
<1> QED
  BY <1>2, <1>3, <1>7, <1>8, <1>10 DEF CountsAgree

(* The three reports over time.                                               *)
LEMMA SeriesAnswers ==
    ASSUME TypeOK, NEW ask \in Asks, ask.type \in SeriesTypes, OverTime(ask, Values(ask)),
           UNCHANGED shipments
    PROVE  /\ answer'.ask = ask /\ answer'.total \in Nat
           /\ \A i \in DOMAIN answer'.points : answer'.points[i] \in Point
           /\ ChartExact' /\ CountsAgree'
<1>1. CASE ask.granularity # None
  <2>1. PerPeriod(ask, Values(ask))
    BY <1>1 DEF OverTime
  <2>2. answer'.ask = ask /\ Charted(answer', Dates, Values(ask))
    BY <1>1, <2>1, PerPeriodCharted
  <2>3. ChartExact'
    BY <2>2, ChartExactNext
  <2>4. answer'.total \in Nat /\ answer'.points \in Seq(Point)
    BY <2>2 DEF Charted, ChartOfPeriods, ChartAddsUp
  <2>5. \A i \in DOMAIN answer'.points : answer'.points[i] \in Point
    BY <2>4, ElementOfSeq
  <2>6. CountsAgree'
    BY <1>1, <2>2 DEF CountsAgree, OverTimeAnswer
  <2> QED
    BY <2>2, <2>3, <2>4, <2>5, <2>6
<1>2. CASE ask.granularity = None
  <2>1. InOne(ask, Values(ask))
    BY <1>2 DEF OverTime
  <2> QED
    BY <1>2, <2>1, InOneAnswers
<1> QED
  BY <1>1, <1>2

(* What an answer is, of whatever report. *)
Answered ==
    answer # None =>
        /\ answer.ask \in Asks
        /\ answer.total \in Nat
        /\ IF answer.ask.type \in SeriesTypes
           THEN \A i \in DOMAIN answer.points : answer.points[i] \in Point
           ELSE \A k \in DOMAIN answer.points : answer.points[k] \in Tally

(* Whatever report is computed in one read.                                   *)
LEMMA GenerateAnswers ==
    ASSUME TypeOK, NEW ask \in Asks, GenerateReport(ask)
    PROVE  Answered' /\ ChartExact' /\ CountsAgree'
<1>0. UNCHANGED shipments
  BY DEF GenerateReport
<1>1. CASE TotalShipments(ask) \/ RevenueOverTime(ask) \/ TotalDistance(ask)
  <2>1. ask.type \in SeriesTypes /\ OverTime(ask, Values(ask))
    BY <1>1 DEF TotalShipments, RevenueOverTime, TotalDistance, Values, SeriesTypes
  <2> QED
    BY <1>0, <2>1, SeriesAnswers DEF Answered
<1>2. CASE ShipmentsByStatus(ask) \/ VehicleUtilization(ask) \/ DriverPerformance(ask)
  <2>1. ask.type \notin SeriesTypes
    BY <1>2 DEF ShipmentsByStatus, VehicleUtilization, DriverPerformance, SeriesTypes
  <2>2. /\ answer'.ask = ask /\ answer'.total \in Nat
        /\ \A k \in DOMAIN answer'.points : answer'.points[k] \in Tally
        /\ CountsAgree'
    BY <1>0, <1>2, StatusAnswers, UtilizationAnswers, PerformanceAnswers
  <2>3. ChartExact'
    BY <2>1, <2>2 DEF ChartExact, OverTimeAnswer
  <2>4. Answered'
    BY <2>1, <2>2 DEF Answered
  <2> QED
    BY <2>2, <2>3, <2>4
<1> QED
  BY <1>1, <1>2 DEF GenerateReport

(* The second read of shipments per customer.                                 *)
LEMMA NameAnswers ==
    ASSUME Inv, TypeOK, NEW c \in Calls, NameCustomers(c)
    PROVE  Answered' /\ ChartExact' /\ CountsAgree'
<1> DEFINE r == calls[c]
           points == [u \in DOMAIN r.groups |->
                         [value |-> r.groups[u], percent |-> None, name |-> u \in customers \ nameless]]
<1>1. Tallied(r.ask, points, r.gone) /\ r # None
  BY DEF NameCustomers
<1>2. /\ r.ask \in Asks /\ r.ask.type = "customer-shipments"
      /\ DOMAIN r.groups \subseteq Customers
      /\ \A u \in DOMAIN r.groups : r.groups[u] \in Nat
  BY <1>1 DEF TypeOK
<1>3. IsFiniteSet(DOMAIN points)
  <2>1. DOMAIN points = DOMAIN r.groups /\ IsFiniteSet(Customers)
    BY ReportsAssumption
  <2> QED
    BY <1>2, <2>1, FS_Subset
<1>4. \A u \in DOMAIN points : points[u].value \in Nat /\ points[u] \in Tally
  <2> SUFFICES ASSUME NEW u \in DOMAIN r.groups
               PROVE  points[u].value \in Nat /\ points[u] \in Tally
    OBVIOUS
  <2>1. r.groups[u] \in Nat
    BY <1>2
  <2>2. CASE u \in customers \ nameless
    <3>1. points[u] = [value |-> r.groups[u], name |-> TRUE, percent |-> None]
      BY <2>2
    <3> QED
      BY <2>1, <3>1, TallyMade
  <2>3. CASE u \notin customers \ nameless
    <3>1. points[u] = [value |-> r.groups[u], name |-> FALSE, percent |-> None]
      <4>1. (u \in customers \ nameless) = FALSE
        BY <2>3
      <4>2. points[u] = [value |-> r.groups[u], percent |-> None, name |-> u \in customers \ nameless]
        OBVIOUS
      <4>3. points[u] = [value |-> r.groups[u], percent |-> None, name |-> FALSE]
        BY <4>1, <4>2, Zenon
      <4> QED
        BY <4>3
    <3> QED
      BY <2>1, <3>1, TallyMade
  <2> QED
    BY <2>2, <2>3
<1> HIDE DEF points
<1>5. /\ answer' = [ask |-> r.ask, points |-> points, gone |-> r.gone, total |-> answer'.total]
      /\ answer'.total \in Nat
  BY <1>1, <1>3, <1>4, TalliedTotal
<1>6. answer'.ask = r.ask /\ answer'.points = points
  BY <1>5
<1>7. r.ask.type \notin SeriesTypes
  BY <1>2 DEF SeriesTypes
<1>8. Answered'
  BY <1>2, <1>4, <1>5, <1>6, <1>7 DEF Answered
<1>9. ChartExact'
  BY <1>6, <1>7 DEF ChartExact, OverTimeAnswer
<1>10. TotalsAgree'
  BY <1>2, <1>6, <1>7 DEF TotalsAgree, SeriesTypes
<1> QED
  BY <1>8, <1>9, <1>10 DEF CountsAgree

-----------------------------------------------------------------------------
(* The two reads of shipments per customer. *)

(* What is asked comes back with the answer.                                  *)
LEMMA TalliedFacts ==
    ASSUME NEW ask, NEW points, NEW gone, Tallied(ask, points, gone)
    PROVE  answer'.ask = ask /\ answer'.points = points /\ answer'.gone = gone
  BY DEF Tallied

(* The same for a report over time.                                           *)
LEMMA OverTimeFacts ==
    ASSUME NEW ask, NEW values, OverTime(ask, values)
    PROVE  answer'.ask = ask
<1>1. CASE PerPeriod(ask, values)
  <2>1. \E total, points :
           answer' = [ask |-> ask, total |-> total, gone |-> {}, points |-> points]
    BY <1>1, Zenon DEF PerPeriod
  <2> QED
    BY <2>1
<1>2. CASE InOne(ask, values)
  BY <1>2 DEF InOne
<1> QED
  BY <1>1, <1>2 DEF OverTime

(* A report in one read is of another kind.                                   *)
LEMMA GenerateInv ==
    ASSUME Inv, NEW ask \in Asks, GenerateReport(ask)
    PROVE  Inv'
<1>1. ask.type # "customer-shipments"
  BY DEF GenerateReport, TotalShipments, RevenueOverTime, TotalDistance, ShipmentsByStatus,
         VehicleUtilization, DriverPerformance
<1>2. answer'.ask = ask
  <2>1. CASE TotalShipments(ask) \/ RevenueOverTime(ask) \/ TotalDistance(ask)
    BY <2>1, OverTimeFacts DEF TotalShipments, RevenueOverTime, TotalDistance
  <2>2. CASE ShipmentsByStatus(ask) \/ VehicleUtilization(ask) \/ DriverPerformance(ask)
    BY <2>2, TalliedFacts, Zenon DEF ShipmentsByStatus, VehicleUtilization, DriverPerformance
  <2> QED
    BY <2>1, <2>2 DEF GenerateReport
<1>3. UNCHANGED <<shipments, customers, nameless, calls>>
  BY DEF GenerateReport
<1> QED
  BY <1>1, <1>2, <1>3 DEF Inv, CustomersKept, ShipmentIds, Known, UnknownIsExplained

(* The foreign key has every customer of a group in the table.                *)
LEMMA GroupInv ==
    ASSUME Inv, NEW c \in Calls, NEW ask \in Asks, GroupByCustomer(c, ask)
    PROVE  Inv'
<1> DEFINE Of(u)  == {s \in InRange(ask) : shipments[s].customer = u}
           groups == [u \in {x \in Customers : Of(x) # {}} |-> Count(Of(u))]
           r      == [ask |-> ask, gone |-> {}, groups |-> groups]
<1>1. UNCHANGED <<shipments, customers, nameless, answer>> /\ calls' = [calls EXCEPT ![c] = r]
  BY DEF GroupByCustomer
<1>2. ASSUME NEW u \in DOMAIN groups PROVE u \in customers
  <2>1. PICK s \in InRange(ask) : shipments[s].customer = u
    BY <1>2
  <2> QED
    BY <2>1 DEF Inv, CustomersKept, InRange
<1> HIDE DEF groups
<1>3. r = [ask |-> r.ask, groups |-> r.groups, gone |-> r.gone] /\ r.groups = groups
  OBVIOUS
<1>4. \A x \in Calls : calls'[x] = IF x = c THEN r ELSE calls[x]
  BY <1>1 DEF Inv
<1>5. Known(r)
  BY <1>2, <1>3 DEF Known
<1> HIDE DEF r
<1>6. ASSUME NEW x \in Calls, calls'[x] # None PROVE Known(calls[x])'
  BY <1>1, <1>4, <1>5, <1>6 DEF Inv, Known
<1> QED
  BY <1>1, <1>6 DEF Inv, CustomersKept, ShipmentIds, UnknownIsExplained

(* Whom the second read does not name has no name, or lost his id between.     *)
LEMMA NameInv ==
    ASSUME Inv, NEW c \in Calls, NameCustomers(c)
    PROVE  Inv'
<1> DEFINE r      == calls[c]
           points == [u \in DOMAIN r.groups |->
                         [value |-> r.groups[u], percent |-> None, name |-> u \in customers \ nameless]]
<1>1. /\ UNCHANGED <<shipments, customers, nameless>> /\ calls' = [calls EXCEPT ![c] = None]
      /\ answer'.points = points /\ answer'.gone = r.gone
  BY TalliedFacts DEF NameCustomers
<1>2. Known(r)
  BY DEF Inv, NameCustomers
<1>3. ASSUME NEW u \in DOMAIN points, ~ points[u].name PROVE u \in r.gone \cup nameless
  BY <1>2, <1>3 DEF Known
<1>4. UnknownIsExplained'
  <2> HIDE DEF points
  <2> QED
    BY <1>1, <1>3 DEF UnknownIsExplained
<1>5. ASSUME NEW x \in Calls, calls'[x] # None PROVE Known(calls[x])'
  BY <1>1, <1>5 DEF Inv, Known
<1> QED
  BY <1>1, <1>4, <1>5 DEF Inv, CustomersKept, ShipmentIds

(* A report that ends leaves the others as they are.                          *)
LEMMA EndInv ==
    ASSUME Inv, (\E c \in Calls : ReportFails(c)) \/ Receive \/ UNCHANGED vars
    PROVE  Inv'
<1>1. /\ UNCHANGED <<shipments, customers, nameless>> /\ (answer' = None \/ UNCHANGED answer)
      /\ DOMAIN calls' = Calls /\ \A x \in Calls : calls'[x] # None => calls'[x] = calls[x]
  BY DEF ReportFails, Receive, vars, Inv
<1> QED
  BY <1>1 DEF Inv, CustomersKept, ShipmentIds, UnknownIsExplained, Known

(* The foreign key holds for whatever is written.                             *)
LEMMA ShipmentInv ==
    ASSUME Inv, NEW s \in Shipments, DeleteShipment(s) \/ \E row \in Rows : WriteShipment(s, row)
    PROVE  Inv'
<1>1. UNCHANGED <<customers, nameless, calls, answer>>
  BY DEF DeleteShipment, WriteShipment
<1>2. DOMAIN shipments' = Shipments
  BY DEF Inv, DeleteShipment, WriteShipment
<1>3. ASSUME NEW x \in Shipments, shipments'[x] # None
      PROVE  shipments'[x].customer \in customers
  BY <1>3 DEF Inv, CustomersKept, ShipmentIds, DeleteShipment, WriteShipment
<1> QED
  BY <1>1, <1>2, <1>3 DEF Inv, CustomersKept, ShipmentIds, UnknownIsExplained, Known

(* Every report that is being computed notes who goes.                        *)
LEMMA GoneInv ==
    ASSUME Inv, answer = None, NEW u \in Customers, Gone(u), UNCHANGED answer, CustomersKept',
           DOMAIN shipments' = Shipments, customers \subseteq customers' \cup {u}
    PROVE  Inv'
<1>1. calls' = [c \in Calls |->
          IF calls[c] = None THEN None ELSE [calls[c] EXCEPT !.gone = @ \cup {u}]]
  BY DEF Gone
<1>3. ASSUME NEW c \in Calls, calls'[c] # None PROVE Known(calls[c])'
  <2>1. calls[c] # None /\ Known(calls[c])
    BY <1>1, <1>3 DEF Inv
  <2>2. PICK r : r = calls[c]
    OBVIOUS
  <2>3. r = [ask |-> r.ask, groups |-> r.groups, gone |-> r.gone]
        /\ DOMAIN r.groups \subseteq customers \cup r.gone
    BY <2>1, <2>2 DEF Known
  <2>4. PICK q : q = [ask |-> r.ask, groups |-> r.groups, gone |-> r.gone \cup {u}]
    OBVIOUS
  <2>5. calls'[c] = q
    BY <1>1, <2>1, <2>2, <2>3, <2>4
  <2>6. /\ q = [ask |-> q.ask, groups |-> q.groups, gone |-> q.gone]
        /\ q.groups = r.groups /\ q.gone = r.gone \cup {u}
    BY <2>4
  <2>7. DOMAIN q.groups \subseteq customers' \cup q.gone
    BY <2>3, <2>6
  <2> QED
    BY <2>5, <2>6, <2>7 DEF Known
<1> QED
  BY <1>1, <1>3 DEF Inv, UnknownIsExplained

-----------------------------------------------------------------------------
(* From the chart to what is said of the answer. *)

(* What is shown of a period is the value of its point, or zero if there is   *)
(* none.                                                                      *)
LEMMA ChartGivesSeries ==
    ASSUME TypeOK, ChartExact
    PROVE  SeriesExact
<1> SUFFICES ASSUME OverTimeAnswer PROVE SeriesExact
  BY DEF SeriesExact
<1> DEFINE ask == answer.ask
           Q   == answer.points
           g   == ask.granularity
           val == Values(ask)
           D   == DOMAIN val
           Within_(p) == {s \in D : Within(shipments[s].createdAt, p, g)}
<1>1. ask \in Asks /\ ask.type \in SeriesTypes
  BY DEF TypeOK, OverTimeAnswer
<1>2. ChartOfPeriods(answer) /\ ChartOfValues(answer, Dates, val)
  BY DEF ChartExact, Charted
<1>3. Q \in Seq(Point) /\ DOMAIN Q = 1..Len(Q)
  BY <1>2 DEF ChartOfPeriods
<1>4. \A i, j \in DOMAIN Q : Q[i].period = Q[j].period => i = j
  BY <1>2, <1>3 DEF ChartOfPeriods
<1>5. \A i \in DOMAIN Q : Q[i].period \in Touched(ask)
  BY <1>2, <1>3 DEF ChartOfPeriods
<1>6. ASSUME NEW p \in Touched(ask)
      PROVE  ValueAt(p) = Shown(ask.type, Sum([s \in Within_(p) |-> val[s]]))
  <2> DEFINE J == {j \in DOMAIN Q : Q[j].period = p}
             f == [i \in DOMAIN Q |-> Q[i].value]
  <2>1. Within_(p) = Here(p, g, Dates, val)
    <3>1. D \subseteq ShipmentIds
      BY <1>1, ValuesMade
    <3> QED
      BY <3>1 DEF Here, Dates
  <2>2. Sum([s \in Within_(p) |-> val[s]]) = Total(val, Here(p, g, Dates, val))
    BY <2>1, Zenon DEF Total, On
  <2>3. ValueAt(p) = Total(f, J)
    <3>1. [i \in J |-> Q[i].value] = [i \in J |-> f[i]]
      OBVIOUS
    <3>2. ValueAt(p) = Sum([i \in J |-> Q[i].value])
      BY Zenon DEF ValueAt
    <3> QED
      BY <3>1, <3>2, Zenon DEF Total, On
  <2>4. CASE \E i \in DOMAIN Q : Q[i].period = p
    <3>1. PICK i \in DOMAIN Q : Q[i].period = p
      BY <2>4
    <3>2. J = {i} /\ f[i] = Q[i].value
      BY <1>4, <3>1
    <3>3. Q[i].value = Shown(ask.type, Total(val, Here(p, g, Dates, val)))
      BY <1>2, <1>3, <3>1, Zenon DEF ChartOfValues
    <3>4. Q[i] \in Point
      BY <1>3, <3>1, ElementOfSeq
    <3>5. Q[i].value \in Int
      BY <3>4 DEF Point
    <3> HIDE DEF J, f
    <3>6. Total(f, J) = Q[i].value
      BY <3>2, <3>5, TotalOne
    <3> QED
      BY <2>2, <2>3, <3>3, <3>6, Zenon
  <2>5. CASE ~ \E i \in DOMAIN Q : Q[i].period = p
    <3>1. J = {}
      BY <2>5
    <3>2. Here(p, g, Dates, val) = {}
      BY <1>2, <1>3, <2>5, Zenon DEF ChartOfValues
    <3> HIDE DEF J, f
    <3>3. Total(f, J) = 0 /\ Total(val, Here(p, g, Dates, val)) = 0
      BY <3>1, <3>2, TotalEmpty
    <3>4. Shown(ask.type, 0) = 0
      BY ShownFacts
    <3> QED
      BY <2>2, <2>3, <3>3, <3>4, Zenon
  <2> QED
    BY <2>4, <2>5
<1> QED
  BY <1>4, <1>5, <1>6, Zenon DEF SeriesExact

(* The chart has no hole.                                                     *)
LEMMA ChartGivesNoGaps ==
    ASSUME TypeOK, ChartExact
    PROVE  NoGaps
<1> SUFFICES ASSUME OverTimeAnswer PROVE NoGaps
  BY DEF NoGaps
<1>1. ChartHasNoHole(answer)
  BY DEF ChartExact, Charted
<1> QED
  BY <1>1, Zenon DEF ChartHasNoHole, NoGaps

(* The chart adds up to the total.                                            *)
LEMMA ChartGivesTotals ==
    ASSUME TypeOK, ChartExact, CountsAgree
    PROVE  TotalsAgree
<1> SUFFICES ASSUME OverTimeAnswer PROVE TotalsAgree
  BY DEF CountsAgree, TotalsAgree
<1> DEFINE Q == answer.points
           n == Len(Q)
           f == [k \in DOMAIN Q |-> Q[k].value]
<1>1. answer.ask.type \in SeriesTypes
  BY DEF OverTimeAnswer
<1>2. ChartOfPeriods(answer) /\ ChartAddsUp(answer)
  BY DEF ChartExact, Charted
<1>3. Q \in Seq(Point) /\ DOMAIN Q = 1..n /\ n \in Nat
  BY <1>2 DEF ChartOfPeriods
<1>4. Sum(f) = Total([i \in 1..n |-> Q[i].value], 1..n)
  <2>1. f = [k \in DOMAIN Q |-> f[k]]
    OBVIOUS
  <2> HIDE DEF f
  <2>2. Sum(f) = Total(f, 1..n)
    BY <1>3, <2>1, SumIsTotal
  <2> QED
    BY <1>3, <2>2, Zenon DEF f
<1>5. Cardinality(DOMAIN Q) = n
  BY <1>3, FS_Interval
<1>6. IF answer.ask.type = "total-shipments" THEN Sum(f) = answer.total
      ELSE 2 * Distance(Sum(f), answer.total) <= n + 1
  BY <1>2, <1>4, Zenon DEF ChartAddsUp
<1> HIDE DEF n
<1>7. CASE answer.ask.type = "total-shipments"
  BY <1>6, <1>7 DEF TotalsAgree
<1>8. CASE answer.ask.type # "total-shipments"
  BY <1>1, <1>5, <1>6, <1>8 DEF TotalsAgree, SeriesTypes
<1> QED
  BY <1>7, <1>8

(* What holds of the answer that has just been sent.                          *)
AnswersOK == Answered /\ ChartExact /\ CountsAgree

(* Of no answer there is nothing to say.                                      *)
LEMMA NoAnswer ==
    ASSUME answer' = None
    PROVE  AnswersOK'
  BY DEF AnswersOK, Answered, ChartExact, CountsAgree, OverTimeAnswer

(* An answer about the shipments as they are stays right while nothing        *)
(* changes.                                                                   *)
LEMMA SameAnswer ==
    ASSUME AnswersOK, UNCHANGED vars
    PROVE  AnswersOK'
<1>1. Answered'
  BY DEF AnswersOK, Answered, vars
<1>2. ChartExact'
  <2>1. CASE OverTimeAnswer
    <3>1. Charted(answer, Dates, Values(answer.ask)) /\ answer' = answer /\ shipments' = shipments
      BY <2>1 DEF AnswersOK, ChartExact, vars
    <3> QED
      BY <3>1, ChartExactNext
  <2>2. CASE ~ OverTimeAnswer
    BY <2>2 DEF ChartExact, OverTimeAnswer, vars
  <2> QED
    BY <2>1, <2>2
<1>3. CountsAgree'
  <2>1. answer' = answer /\ \A ask : InRange(ask)' = InRange(ask)
    BY DEF InRange, ShipmentIds, vars
  <2>2. UNCHANGED shipments /\ TotalsAgree = TotalsAgree' /\ OverTimeAnswer = OverTimeAnswer'
    BY <2>1 DEF TotalsAgree, OverTimeAnswer, InRange, ShipmentIds, vars
  <2> QED
    BY <2>1, <2>2 DEF AnswersOK, CountsAgree
<1> QED
  BY <1>1, <1>2, <1>3 DEF AnswersOK

-----------------------------------------------------------------------------
(* Types, and the inductive invariant. *)

(* The type invariant by its parts: the tables, a report between its two reads, *)
(* and the answer.                                                           *)
TablesOK == /\ shipments \in [Shipments -> Rows \cup {None}]
            /\ customers \subseteq Customers /\ nameless \subseteq customers
            /\ CustomersKept

(* A report between its two reads: each group has a shipment.                 *)
CallOK(r) ==
    /\ r.ask \in Asks /\ r.ask.type = "customer-shipments"
    /\ DOMAIN r.groups \subseteq Customers
    /\ \A u \in DOMAIN r.groups : r.groups[u] \in Nat \ {0}
    /\ r.gone \subseteq Customers

(* All of them.                                                               *)
CallsOK == \A c \in Calls : calls[c] # None => CallOK(calls[c])

(* Together they are the type invariant.                                      *)
LEMMA TypeParts == TypeOK <=> TablesOK /\ CallsOK /\ Answered
  BY Zenon DEF TypeOK, TablesOK, CustomersKept, CallsOK, CallOK, Answered

(* A table that is not written keeps its type, and so does a call.             *)
LEMMA TablesSame ==
    ASSUME TablesOK, UNCHANGED <<shipments, customers, nameless>>
    PROVE  TablesOK'
  BY DEF TablesOK, CustomersKept, ShipmentIds

(* Nor do calls that are not touched.                                         *)
LEMMA CallsSame ==
    ASSUME CallsOK, UNCHANGED calls
    PROVE  CallsOK'
<1>1. calls' = calls
  OBVIOUS
<1> QED
  BY <1>1, Zenon DEF CallsOK, CallOK

(* Tables change and calls go on only while no answer waits.                  *)
LEMMA AnswerKept ==
    ASSUME AnswersOK, answer = None, UNCHANGED answer
    PROVE  AnswersOK'
  BY NoAnswer

(* A group has at least the shipment that made it.                            *)
LEMMA GroupType ==
    ASSUME Inv, TypeOK, NEW c \in Calls, NEW ask \in Asks, GroupByCustomer(c, ask)
    PROVE  CallsOK'
<1> DEFINE Of(u)  == {s \in InRange(ask) : shipments[s].customer = u}
           groups == [u \in {x \in Customers : Of(x) # {}} |-> Count(Of(u))]
           r      == [ask |-> ask, gone |-> {}, groups |-> groups]
<1>1. calls' = [calls EXCEPT ![c] = r] /\ ask.type = "customer-shipments"
  BY DEF GroupByCustomer
<1>2. ASSUME NEW u \in DOMAIN groups
      PROVE  u \in Customers /\ groups[u] \in Nat \ {0}
  <2>1. u \in Customers /\ Of(u) # {} /\ groups[u] = Cardinality(Of(u))
    BY <1>2 DEF Count
  <2>2. IsFiniteSet(Of(u))
    BY RangeFacts, FS_Subset
  <2> HIDE DEF Of
  <2>3. Cardinality(Of(u)) \in Nat /\ Cardinality(Of(u)) # 0
    BY <2>1, <2>2, FS_CardinalityType, FS_EmptySet
  <2> QED
    BY <2>1, <2>3
<1> HIDE DEF groups
<1>3. CallOK(r)
  BY <1>1, <1>2 DEF CallOK
<1> HIDE DEF r
<1>4. \A x \in Calls : calls'[x] = IF x = c THEN r ELSE calls[x]
  BY <1>1 DEF Inv
<1>5. CallsOK
  BY TypeParts
<1>6. ASSUME NEW x \in Calls, calls'[x] # None
      PROVE  CallOK(calls'[x])
  <2>1. CASE x = c
    BY <1>3, <1>4, <2>1
  <2>2. CASE x # c
    <3>1. calls'[x] = calls[x]
      BY <1>4, <2>2
    <3> QED
      BY <1>5, <1>6, <3>1 DEF CallsOK
  <2> QED
    BY <2>1, <2>2
<1> QED
  BY <1>6, Zenon DEF CallsOK, CallOK

(* A report that ends leaves the others as they are.                          *)
LEMMA EndType ==
    ASSUME Inv, CallsOK, NEW c \in Calls, calls' = [calls EXCEPT ![c] = None]
    PROVE  CallsOK'
<1>1. \A x \in Calls : calls'[x] # None => calls[x] # None /\ calls'[x] = calls[x]
  BY DEF Inv
<1>2. ASSUME NEW x \in Calls, calls'[x] # None
      PROVE  CallOK(calls'[x])
  BY <1>1, <1>2 DEF CallsOK
<1> QED
  BY <1>2, Zenon DEF CallsOK, CallOK

(* Who goes is added to whoever went before.                                  *)
LEMMA GoneType ==
    ASSUME Inv, TypeOK, NEW u \in Customers, Gone(u)
    PROVE  CallsOK'
<1>1. calls' = [c \in Calls |->
          IF calls[c] = None THEN None ELSE [calls[c] EXCEPT !.gone = @ \cup {u}]]
  BY DEF Gone
<1>2. CallsOK
  BY TypeParts
<1>4. ASSUME NEW c \in Calls, calls'[c] # None
      PROVE  CallOK(calls'[c])
  <2>1. calls[c] # None /\ Known(calls[c]) /\ CallOK(calls[c])
    BY <1>1, <1>2, <1>4 DEF Inv, CallsOK
  <2>2. PICK r : r = calls[c]
    OBVIOUS
  <2>3. r = [ask |-> r.ask, groups |-> r.groups, gone |-> r.gone]
    BY <2>1, <2>2 DEF Known
  <2>4. PICK q : q = [ask |-> r.ask, groups |-> r.groups, gone |-> r.gone \cup {u}]
    OBVIOUS
  <2>5. calls'[c] = q
    BY <1>1, <2>1, <2>2, <2>3, <2>4
  <2>6. q.ask = r.ask /\ q.groups = r.groups /\ q.gone = r.gone \cup {u}
    BY <2>4
  <2> QED
    BY <2>1, <2>2, <2>5, <2>6 DEF CallOK
<1> QED
  BY <1>4, Zenon DEF CallsOK, CallOK

(* The tables after a customer went, with no shipment of his.                 *)
LEMMA DeleteTables ==
    ASSUME TablesOK, NEW u \in Customers, DeleteCustomer(u)
    PROVE  /\ TablesOK' /\ DOMAIN shipments' = Shipments
           /\ customers \subseteq customers' \cup {u}
  BY DEF DeleteCustomer, TablesOK, CustomersKept, ShipmentIds

(* And after he got another id: his shipments have it too.                    *)
LEMMA RenumberTables ==
    ASSUME TablesOK, NEW u \in Customers, NEW v \in Customers, RenumberCustomer(u, v)
    PROVE  /\ TablesOK' /\ DOMAIN shipments' = Shipments
           /\ customers \subseteq customers' \cup {u}
<1>1. /\ u \in customers /\ v \notin customers
      /\ shipments' = [s \in Shipments |->
             IF s \in ShipmentIds /\ shipments[s].customer = u
             THEN [shipments[s] EXCEPT !.customer = v] ELSE shipments[s]]
      /\ \A s \in ShipmentIds : shipments'[s] \in Rows
      /\ customers' = (customers \ {u}) \cup {v}
      /\ nameless' = IF u \in nameless THEN (nameless \ {u}) \cup {v} ELSE nameless
  BY DEF RenumberCustomer
<1>2. ASSUME NEW s \in ShipmentIds
      PROVE  shipments[s] \in ShipmentRow /\ shipments[s].customer \in customers
  BY ReportsAssumption DEF TablesOK, CustomersKept, ShipmentIds
<1>3. ASSUME NEW s \in Shipments, s \notin ShipmentIds PROVE shipments'[s] = None
  BY <1>1, <1>3 DEF ShipmentIds
<1>4. ASSUME NEW s \in ShipmentIds PROVE shipments'[s].customer \in customers'
  <2>1. s \in Shipments
    BY DEF ShipmentIds
  <2>2. CASE shipments[s].customer = u
    <3>1. shipments'[s] = [shipments[s] EXCEPT !.customer = v]
      BY <1>1, <2>1, <2>2
    <3> QED
      BY <1>1, <1>2, <3>1 DEF ShipmentRow
  <2>3. CASE shipments[s].customer # u
    <3>1. shipments'[s] = shipments[s]
      BY <1>1, <2>1, <2>3
    <3> QED
      BY <1>1, <1>2, <2>3, <3>1
  <2> QED
    BY <2>2, <2>3
<1>5. shipments' \in [Shipments -> Rows \cup {None}]
  BY <1>1, <1>3
<1>6. CustomersKept'
  <2>1. ASSUME NEW s \in Shipments, shipments'[s] # None PROVE shipments'[s].customer \in customers'
    BY <1>3, <1>4, <2>1
  <2> QED
    BY <2>1 DEF CustomersKept, ShipmentIds
<1>7. customers' \subseteq Customers /\ nameless' \subseteq customers'
  BY <1>1 DEF TablesOK
<1> QED
  BY <1>1, <1>5, <1>6, <1>7 DEF TablesOK

(* What is written to the table of shipments is a row.                        *)
LEMMA TablesWritten ==
    ASSUME Inv, TablesOK, NEW s \in Shipments,
           DeleteShipment(s) \/ \E row \in Rows : WriteShipment(s, row)
    PROVE  TablesOK'
<1>1. customers' = customers /\ nameless' = nameless
  BY DEF DeleteShipment, WriteShipment
<1>2. shipments' \in [Shipments -> Rows \cup {None}]
  BY DEF TablesOK, DeleteShipment, WriteShipment
<1>3. CustomersKept'
  BY ShipmentInv DEF Inv
<1> QED
  BY <1>1, <1>2, <1>3 DEF TablesOK

-----------------------------------------------------------------------------
(* The inductive invariant: the two reads, the types, and what was sent.      *)
IInv == Inv /\ TypeOK /\ AnswersOK

(* It holds after a step when its parts do.                                   *)
LEMMA AllFromParts ==
    ASSUME Inv', TablesOK', CallsOK', AnswersOK'
    PROVE  IInv'
<1>1. Answered'
  BY DEF AnswersOK
<1>2. TypeOK'
  BY <1>1, Zenon DEF TypeOK, TablesOK, CustomersKept, CallsOK, CallOK, Answered
<1> QED
  BY <1>2 DEF IInv

(* It holds at first, of empty tables.                                        *)
LEMMA AllInit == Init => IInv
<1> SUFFICES ASSUME Init PROVE IInv
  OBVIOUS
<1>1. Inv
  BY DEF Init, Inv, CustomersKept, ShipmentIds, UnknownIsExplained
<1>2. TypeOK
  BY DEF Init, TypeOK, ShipmentIds
<1>3. AnswersOK
  BY DEF Init, AnswersOK, Answered, ChartExact, CountsAgree, OverTimeAnswer
<1> QED
  BY <1>1, <1>2, <1>3 DEF IInv

(* Every step keeps it.                                                       *)
LEMMA AllNext == IInv /\ [Next]_vars => IInv'
<1> SUFFICES ASSUME IInv, [Next]_vars PROVE IInv'
  OBVIOUS
<1> USE DEF IInv
<1>0. Inv /\ TypeOK /\ AnswersOK /\ TablesOK /\ CallsOK
  BY TypeParts
<1>1. CASE \E ask \in Asks : GenerateReport(ask)
  <2>1. PICK ask \in Asks : GenerateReport(ask)
    BY <1>1
  <2>2. UNCHANGED <<shipments, customers, nameless, calls>>
    BY <2>1 DEF GenerateReport
  <2> QED
    BY <1>0, <2>1, <2>2, GenerateInv, GenerateAnswers, TablesSame, CallsSame, AllFromParts
       DEF AnswersOK
<1>2. CASE \E ask \in Asks, c \in Calls : GroupByCustomer(c, ask)
  <2>1. PICK ask \in Asks, c \in Calls : GroupByCustomer(c, ask)
    BY <1>2
  <2>2. UNCHANGED <<shipments, customers, nameless, answer>> /\ answer = None
    BY <2>1 DEF GroupByCustomer
  <2> QED
    BY <1>0, <2>1, <2>2, GroupInv, GroupType, TablesSame, AnswerKept, AllFromParts
<1>3. CASE \E c \in Calls : NameCustomers(c)
  <2>1. PICK c \in Calls : NameCustomers(c)
    BY <1>3
  <2>2. UNCHANGED <<shipments, customers, nameless>> /\ calls' = [calls EXCEPT ![c] = None]
    BY <2>1 DEF NameCustomers
  <2> QED
    BY <1>0, <2>1, <2>2, NameInv, NameAnswers, TablesSame, EndType, AllFromParts DEF AnswersOK
<1>4. CASE \E c \in Calls : ReportFails(c)
  <2>1. PICK c \in Calls : ReportFails(c)
    BY <1>4
  <2>2. /\ UNCHANGED <<shipments, customers, nameless, answer>> /\ answer = None
        /\ calls' = [calls EXCEPT ![c] = None]
    BY <2>1 DEF ReportFails
  <2> QED
    BY <1>0, <1>4, <2>2, EndInv, TablesSame, EndType, AnswerKept, AllFromParts
<1>5. CASE \E s \in Shipments : DeleteShipment(s) \/ \E row \in Rows : WriteShipment(s, row)
  <2>1. PICK s \in Shipments : DeleteShipment(s) \/ \E row \in Rows : WriteShipment(s, row)
    BY <1>5
  <2>2. UNCHANGED <<customers, nameless, calls, answer>> /\ answer = None
    BY <2>1 DEF DeleteShipment, WriteShipment
  <2> QED
    BY <1>0, <2>1, <2>2, ShipmentInv, TablesWritten, CallsSame, AnswerKept, AllFromParts
<1>6. CASE \E u \in Customers : CreateCustomer(u) \/ RenameCustomer(u)
  <2>1. PICK u \in Customers : CreateCustomer(u) \/ RenameCustomer(u)
    BY <1>6
  <2>2. /\ UNCHANGED <<shipments, calls, answer>> /\ answer = None
        /\ customers' \in {customers, customers \cup {u}} /\ nameless' \subseteq customers'
    BY <1>0, <2>1, Zenon DEF CreateCustomer, RenameCustomer, TablesOK
  <2>3. TablesOK'
    BY <1>0, <2>2 DEF TablesOK, CustomersKept, ShipmentIds
  <2>4. Inv'
    BY <1>0, <2>2 DEF Inv, CustomersKept, ShipmentIds, UnknownIsExplained, Known
  <2> QED
    BY <1>0, <2>2, <2>3, <2>4, CallsSame, AnswerKept, AllFromParts
<1>7. CASE \E u \in Customers : DeleteCustomer(u) \/ \E v \in Customers : RenumberCustomer(u, v)
  <2>1. PICK u \in Customers : DeleteCustomer(u) \/ \E v \in Customers : RenumberCustomer(u, v)
    BY <1>7
  <2>2. UNCHANGED answer /\ answer = None /\ Gone(u)
    BY <2>1 DEF DeleteCustomer, RenumberCustomer
  <2>3. /\ TablesOK' /\ DOMAIN shipments' = Shipments
        /\ customers \subseteq customers' \cup {u}
    BY <1>0, <2>1, DeleteTables, RenumberTables
  <2>4. Inv'
    BY <1>0, <2>2, <2>3, GoneInv DEF TablesOK
  <2> QED
    BY <1>0, <2>2, <2>3, <2>4, GoneType, AnswerKept, AllFromParts
<1>8. CASE Receive
  <2>1. UNCHANGED <<shipments, customers, nameless, calls>> /\ answer' = None
    BY <1>8 DEF Receive
  <2> QED
    BY <1>0, <1>8, <2>1, EndInv, NoAnswer, TablesSame, CallsSame, AllFromParts
<1>9. CASE UNCHANGED vars
  <2>1. UNCHANGED <<shipments, customers, nameless, calls>>
    BY <1>9 DEF vars
  <2> QED
    BY <1>0, <1>9, <2>1, EndInv, SameAnswer, TablesSame, CallsSame, AllFromParts
<1> QED
  BY <1>1, <1>2, <1>3, <1>4, <1>5, <1>6, <1>7, <1>8, <1>9 DEF Next

(* It holds always.                                                           *)
LEMMA Invariant == Spec => []IInv
  BY AllInit, AllNext, PTL DEF Spec

(* The tables, the reports in progress and the answer have their types:       *)
(* amounts in a chart are natural, a group has a shipment, a share is a       *)
(* whole percentage (generateReport and its seven handlers), for any tables,  *)
(* requests and number of reports that are computed together.                 *)
THEOREM TypeCorrect == Spec => []TypeOK
  BY Invariant, PTL DEF IInv

(* A report over time says of every period what happened in it, and says it   *)
(* once, whatever the range, the granularity, the lengths of the months and   *)
(* the order in which the rows come (groupDataByGranularity).                 *)
THEOREM SeriesAreExact == Spec => []SeriesExact
<1>1. IInv => SeriesExact
  BY ChartGivesSeries DEF IInv, AnswersOK
<1> QED
  BY <1>1, Invariant, PTL

(* A quiet period is shown as a zero and periods stand in their order, but    *)
(* for the two exceptions NoGaps names, for every range and every calendar:   *)
(* stepping a date from the start of the range to its end misses no period.   *)
THEOREM NoHoles == Spec => []NoGaps
<1>1. IInv => NoGaps
  BY ChartGivesNoGaps DEF IInv, AnswersOK
<1> QED
  BY <1>1, Invariant, PTL

(* The parts of an answer and its total agree, exactly or up to the rounding  *)
(* of each part, for all seven reports and any number of shipments,           *)
(* customers, vehicles and periods.                                           *)
THEOREM TotalsAlwaysAgree == Spec => []TotalsAgree
<1>1. IInv => TotalsAgree
  BY ChartGivesTotals DEF IInv, AnswersOK
<1> QED
  BY <1>1, Invariant, PTL

(* A customer called 'Unknown Customer' has no name, or lost his id while the *)
(* report was being computed, for any number of reports, shipments and        *)
(* customers, whatever comes between the two reads                            *)
(* (customer-shipments.handler.ts:17-49).                                     *)
THEOREM UnknownAreExplained == Spec => []UnknownIsExplained
<1>1. IInv => UnknownIsExplained
  BY DEF IInv, Inv
<1> QED
  BY <1>1, Invariant, PTL
=============================================================================
