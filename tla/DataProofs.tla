------------------------------ MODULE DataProofs ------------------------------
(***************************************************************************)
(* What the proofs about counters and reports need to know of sums and of  *)
(* induction.  A fact about all finite sets, or about all lengths, is      *)
(* proved of a smallest set, or length, that does not have it: the set of  *)
(* the counterexamples is data, so that nothing but first-order logic is   *)
(* asked of the provers.                                                   *)
(***************************************************************************)
EXTENDS Totals, Integers, SequencesExt, FiniteSetTheorems, NaturalsInduction,
        WellFoundedInduction, TLAPS

(* A set of numbers that is not empty has a least one. *)
LEMMA LeastElement ==
  ASSUME NEW S \in SUBSET Nat, S # {}
  PROVE  \E x \in S : \A y \in S : x <= y
<1> DEFINE R == {ss \in Nat \X Nat : ss[1] < ss[2]}
<1>1. IsWellFoundedOn(R, Nat)
  BY NatLessThanWellFounded DEF OpToRel
<1>2. \E x \in S : \A y \in S : <<y, x>> \notin R
  <2> HIDE DEF R
  <2> QED
    BY <1>1, WFMin
<1>3. ASSUME NEW x \in Nat, NEW y \in Nat, <<y, x>> \notin R
      PROVE  x <= y
  <2>1. <<y, x>> \in Nat \X Nat /\ <<y, x>>[1] = y /\ <<y, x>>[2] = x
    OBVIOUS
  <2>2. ~(y < x)
    BY <2>1, <1>3
  <2> QED
    BY <2>2
<1> HIDE DEF R
<1> QED
  BY <1>2, <1>3

(* Induction over the numbers, for a set of them. *)
LEMMA AllNumbers ==
  ASSUME NEW T, 0 \in T, \A n \in Nat : n \in T => n + 1 \in T
  PROVE  Nat \subseteq T
<1> DEFINE Bad == Nat \ T
<1> SUFFICES ASSUME Bad # {}
             PROVE  FALSE
  OBVIOUS
<1>1. PICK n \in Bad : \A m \in Bad : n <= m
  <2>1. Bad \in SUBSET Nat
    OBVIOUS
  <2> HIDE DEF Bad
  <2> QED
    BY <2>1, LeastElement
<1>2. n # 0 /\ n - 1 \in Nat
  BY <1>1
<1>3. n - 1 \in T
  BY <1>1, <1>2
<1> QED
  BY <1>1, <1>2, <1>3

(* Among subsets of a finite set there is one that is minimal. *)
LEMMA MinimalSubset ==
  ASSUME NEW S, IsFiniteSet(S), NEW Bad \in SUBSET SUBSET S, Bad # {}
  PROVE  \E T \in Bad : \A U \in Bad : U \subseteq T => U = T
<1> DEFINE Sizes == {Cardinality(T) : T \in Bad}
<1>1. \A T \in SUBSET S : IsFiniteSet(T) /\ Cardinality(T) \in Nat
  BY FS_Subset, FS_CardinalityType
<1>2. Sizes \in SUBSET Nat /\ Sizes # {}
  BY <1>1
<1>3. PICK n \in Sizes : \A m \in Sizes : n <= m
  <2> HIDE DEF Sizes
  <2> QED
    BY <1>2, LeastElement
<1>4. PICK T \in Bad : n = Cardinality(T)
  BY <1>3
<1>5. ASSUME NEW U \in Bad, U \subseteq T
      PROVE  U = T
  <2>1. Cardinality(T) <= Cardinality(U)
    BY <1>3, <1>4
  <2> QED
    BY <1>1, <1>5, <2>1, FS_Subset
<1> QED
  BY <1>4, <1>5

-----------------------------------------------------------------------------
Pick(S) == CHOOSE x \in S : TRUE

(* g[T] is the sum of f over T, for every subset T of S. *)
Sums(g, f, S) ==
  g = [T \in SUBSET S |-> IF T = {} THEN 0 ELSE f[Pick(T)] + g[T \ {Pick(T)}]]

(* The recursion over the subsets of a finite set defines a function. *)
LEMMA SumsExist ==
  ASSUME NEW f, NEW S, IsFiniteSet(S)
  PROVE  \E g : Sums(g, f, S)
<1> DEFINE UpTo(n) == {T \in SUBSET S : Cardinality(T) <= n}
           Level(g, n) ==
             g = [T \in UpTo(n) |-> IF T = {} THEN 0 ELSE f[Pick(T)] + g[T \ {Pick(T)}]]
           Done == {n \in Nat : \E g : Level(g, n)}
<1>1. \A T \in SUBSET S : IsFiniteSet(T) /\ Cardinality(T) \in Nat
  BY FS_Subset, FS_CardinalityType
<1>2. \A T \in SUBSET S : T # {} =>
        /\ T \ {Pick(T)} \in SUBSET S
        /\ Cardinality(T \ {Pick(T)}) = Cardinality(T) - 1
  <2> SUFFICES ASSUME NEW T \in SUBSET S, T # {}
               PROVE  /\ T \ {Pick(T)} \in SUBSET S
                      /\ Cardinality(T \ {Pick(T)}) = Cardinality(T) - 1
    OBVIOUS
  <2>1. Pick(T) \in T
    BY DEF Pick
  <2> QED
    BY <1>1, <2>1, FS_RemoveElement
<1>3. 0 \in Done
  <2>1. \A T \in UpTo(0) : T = {}
    BY <1>1, FS_EmptySet
  <2>2. Level([T \in UpTo(0) |-> 0], 0)
    BY <2>1
  <2> QED
    BY <2>2
<1>4. ASSUME NEW n \in Nat, n \in Done
      PROVE  n + 1 \in Done
  <2>1. PICK g : Level(g, n)
    BY <1>4
  <2> DEFINE h == [T \in UpTo(n + 1) |->
                     IF T = {} THEN 0 ELSE f[Pick(T)] + g[T \ {Pick(T)}]]
  <2>2. \A T \in UpTo(n + 1) : T # {} => T \ {Pick(T)} \in UpTo(n)
    BY <1>1, <1>2
  <2>3. \A T \in UpTo(n) : T \in UpTo(n + 1)
    BY <1>1
  <2>4. \A T \in UpTo(n) : h[T] = g[T]
    BY <2>1, <2>3
  <2>5. Level(h, n + 1)
    BY <2>2, <2>4
  <2>6. \E k : Level(k, n + 1)
    <3> HIDE DEF h, Level
    <3> QED
      BY <2>5
  <2> HIDE DEF Level
  <2> QED
    BY <2>6
<1>5. Cardinality(S) \in Done
  <2>1. Nat \subseteq Done
    <3> HIDE DEF Done
    <3> QED
      BY <1>3, <1>4, AllNumbers
  <2> QED
    BY <2>1, FS_CardinalityType
<1>6. PICK g : Level(g, Cardinality(S))
  BY <1>5
<1>7. UpTo(Cardinality(S)) = SUBSET S
  BY FS_Subset
<1> QED
  BY <1>6, <1>7 DEF Sums

(* Two such functions agree where both are defined. *)
LEMMA SumsAgree ==
  ASSUME NEW f, NEW f2, NEW S, NEW S2, NEW R, IsFiniteSet(R), R \subseteq S, R \subseteq S2,
         \A x \in R : f[x] = f2[x],
         NEW g, Sums(g, f, S), NEW h, Sums(h, f2, S2)
  PROVE  g[R] = h[R]
<1> DEFINE Bad == {T \in SUBSET R : g[T] # h[T]}
<1> SUFFICES ASSUME Bad # {}
             PROVE  FALSE
  OBVIOUS
<1>1. PICK T \in Bad : \A U \in Bad : U \subseteq T => U = T
  <2>1. Bad \in SUBSET SUBSET R
    OBVIOUS
  <2> HIDE DEF Bad
  <2> QED
    BY <2>1, MinimalSubset
<1>2. CASE T = {}
  BY <1>1, <1>2 DEF Sums
<1>3. CASE T # {}
  <2>1. Pick(T) \in T
    BY <1>3 DEF Pick
  <2>2. g[T \ {Pick(T)}] = h[T \ {Pick(T)}]
    BY <1>1, <2>1
  <2>3. f[Pick(T)] = f2[Pick(T)]
    BY <2>1
  <2>4. T \in SUBSET S /\ T \in SUBSET S2
    OBVIOUS
  <2>5. g[T] = f[Pick(T)] + g[T \ {Pick(T)}]
    BY <1>3, <2>4 DEF Sums
  <2>6. h[T] = f2[Pick(T)] + h[T \ {Pick(T)}]
    BY <1>3, <2>4 DEF Sums
  <2> QED
    BY <1>1, <2>2, <2>3, <2>5, <2>6
<1> QED
  BY <1>2, <1>3

(* The sum of the community modules is such a function. *)
LEMMA TotalIsSums ==
  ASSUME NEW f, NEW S, IsFiniteSet(S)
  PROVE  \E g : Sums(g, f, S) /\ Total(f, S) = g[S]
<1> DEFINE g == CHOOSE h : Sums(h, f, S)
<1>1. Sums(g, f, S)
  BY SumsExist
<1>2. Total(f, S) = g[S]
  BY DEF Total, MapThenSumSet, MapThenFoldSet, Sums, Pick
<1> QED
  BY <1>1, <1>2

(* The sum over no element is 0. *)
LEMMA TotalEmpty ==
  ASSUME NEW f
  PROVE  Total(f, {}) = 0
<1>1. PICK g : Sums(g, f, {}) /\ Total(f, {}) = g[{}]
  BY TotalIsSums, FS_EmptySet
<1> QED
  BY <1>1 DEF Sums

(* One step of the recursion. *)
LEMMA TotalPick ==
  ASSUME NEW f, NEW S, IsFiniteSet(S), S # {}
  PROVE  Pick(S) \in S /\ Total(f, S) = f[Pick(S)] + Total(f, S \ {Pick(S)})
<1>0. Pick(S) \in S
  BY DEF Pick
<1> DEFINE T == S \ {Pick(S)}
<1>1. IsFiniteSet(T) /\ T \subseteq S
  BY FS_Subset
<1>2. PICK g : Sums(g, f, S) /\ Total(f, S) = g[S]
  BY TotalIsSums
<1>3. PICK h : Sums(h, f, T) /\ Total(f, T) = h[T]
  <2> HIDE DEF T
  <2> QED
    BY <1>1, TotalIsSums
<1>4. g[T] = h[T]
  <2> HIDE DEF T
  <2> QED
    BY <1>1, <1>2, <1>3, SumsAgree
<1>5. g[S] = f[Pick(S)] + g[T]
  BY <1>2 DEF Sums
<1> QED
  BY <1>0, <1>2, <1>3, <1>4, <1>5

(* The sum only looks at the elements of the set. *)
LEMMA TotalSame ==
  ASSUME NEW f, NEW g, NEW S, IsFiniteSet(S), \A x \in S : f[x] = g[x]
  PROVE  Total(f, S) = Total(g, S)
<1>1. PICK u : Sums(u, f, S) /\ Total(f, S) = u[S]
  BY TotalIsSums
<1>2. PICK v : Sums(v, g, S) /\ Total(g, S) = v[S]
  BY TotalIsSums
<1>3. ASSUME NEW R, R = S
      PROVE  u[R] = v[R]
  <2>1. IsFiniteSet(R) /\ R \subseteq S /\ (\A x \in R : f[x] = g[x])
    BY <1>3
  <2> QED
    BY <1>1, <1>2, <2>1, SumsAgree
<1>4. u[S] = v[S]
  BY <1>3
<1> QED
  BY <1>1, <1>2, <1>4

(* A sum of numbers is a number. *)
LEMMA TotalType ==
  ASSUME NEW f, NEW S, IsFiniteSet(S), \A x \in S : f[x] \in Nat
  PROVE  Total(f, S) \in Nat
<1> DEFINE Bad == {T \in SUBSET S : Total(f, T) \notin Nat}
<1> SUFFICES ASSUME Bad # {}
             PROVE  FALSE
  OBVIOUS
<1>1. PICK T \in Bad : \A U \in Bad : U \subseteq T => U = T
  <2>1. Bad \in SUBSET SUBSET S
    OBVIOUS
  <2> HIDE DEF Bad
  <2> QED
    BY <2>1, MinimalSubset
<1>2. T # {}
  <2>1. Total(f, {}) \in Nat
    BY TotalEmpty
  <2>2. Total(f, T) \notin Nat
    OBVIOUS
  <2> QED
    BY <2>1, <2>2, Zenon
<1>3. IsFiniteSet(T)
  BY FS_Subset
<1>4. Pick(T) \in T /\ Total(f, T) = f[Pick(T)] + Total(f, T \ {Pick(T)})
  BY <1>2, <1>3, TotalPick
<1>5. Total(f, T \ {Pick(T)}) \in Nat
  BY <1>1, <1>4
<1> QED
  BY <1>1, <1>4, <1>5

(* A sum of nothing but zeros. *)
LEMMA TotalZero ==
  ASSUME NEW f, NEW S, IsFiniteSet(S), \A x \in S : f[x] = 0
  PROVE  Total(f, S) = 0
<1> DEFINE Bad == {T \in SUBSET S : Total(f, T) # 0}
<1> SUFFICES ASSUME Bad # {}
             PROVE  FALSE
  OBVIOUS
<1>1. PICK T \in Bad : \A U \in Bad : U \subseteq T => U = T
  <2>1. Bad \in SUBSET SUBSET S
    OBVIOUS
  <2> HIDE DEF Bad
  <2> QED
    BY <2>1, MinimalSubset
<1>2. T # {}
  BY TotalEmpty
<1>3. IsFiniteSet(T)
  BY FS_Subset
<1>4. Pick(T) \in T /\ Total(f, T) = f[Pick(T)] + Total(f, T \ {Pick(T)})
  BY <1>2, <1>3, TotalPick
<1>5. Total(f, T \ {Pick(T)}) = 0
  BY <1>1, <1>4
<1> QED
  BY <1>1, <1>4, <1>5

(* In which order the elements are added does not matter. *)
LEMMA TotalRemove ==
  ASSUME NEW f, NEW S, IsFiniteSet(S), \A x \in S : f[x] \in Nat, NEW e \in S
  PROVE  Total(f, S) = f[e] + Total(f, S \ {e})
<1> DEFINE Bad == {T \in SUBSET S : \E x \in T : Total(f, T) # f[x] + Total(f, T \ {x})}
<1> SUFFICES ASSUME Bad # {}
             PROVE  FALSE
  OBVIOUS
<1>1. PICK T \in Bad : \A U \in Bad : U \subseteq T => U = T
  <2>1. Bad \in SUBSET SUBSET S
    OBVIOUS
  <2> HIDE DEF Bad
  <2> QED
    BY <2>1, MinimalSubset
<1>2. PICK x \in T : Total(f, T) # f[x] + Total(f, T \ {x})
  BY <1>1
<1> DEFINE p == Pick(T)
<1>3. IsFiniteSet(T)
  BY FS_Subset
<1>4. p \in T /\ Total(f, T) = f[p] + Total(f, T \ {p})
  BY <1>2, <1>3, TotalPick
<1>5. x # p
  BY <1>2, <1>4
<1> HIDE DEF p
<1>6. Total(f, T \ {p}) = f[x] + Total(f, (T \ {p}) \ {x})
  <2>1. T \ {p} \notin Bad
    BY <1>1, <1>4
  <2> QED
    BY <1>5, <2>1
<1>7. Total(f, T \ {x}) = f[p] + Total(f, (T \ {x}) \ {p})
  <2>1. T \ {x} \notin Bad
    BY <1>1
  <2> QED
    BY <1>4, <1>5, <2>1
<1>8. (T \ {x}) \ {p} = (T \ {p}) \ {x}
  OBVIOUS
<1>9. Total(f, (T \ {p}) \ {x}) \in Nat
  <2>1. IsFiniteSet((T \ {p}) \ {x})
    BY <1>3, FS_Subset
  <2> QED
    BY <2>1, TotalType
<1> QED
  BY <1>2, <1>4, <1>6, <1>7, <1>8, <1>9

(* One element more. *)
LEMMA TotalAdd ==
  ASSUME NEW f, NEW S, IsFiniteSet(S), \A x \in S : f[x] \in Nat,
         NEW e, e \notin S, f[e] \in Nat
  PROVE  Total(f, S \cup {e}) = f[e] + Total(f, S)
<1>1. IsFiniteSet(S \cup {e})
  BY FS_AddElement
<1>2. (S \cup {e}) \ {e} = S
  OBVIOUS
<1> QED
  BY <1>1, <1>2, TotalRemove

(* A sum changes by what one value changes. *)
LEMMA TotalChange ==
  ASSUME NEW f, NEW g, NEW S, IsFiniteSet(S), NEW e \in S,
         \A x \in S : f[x] \in Nat /\ g[x] \in Nat,
         \A x \in S \ {e} : g[x] = f[x]
  PROVE  Total(g, S) + f[e] = Total(f, S) + g[e]
<1>1. IsFiniteSet(S \ {e})
  BY FS_Subset
<1>2. Total(f, S \ {e}) = Total(g, S \ {e}) /\ Total(f, S \ {e}) \in Nat
  BY <1>1, TotalSame, TotalType
<1>3. Total(f, S) = f[e] + Total(f, S \ {e}) /\ Total(g, S) = g[e] + Total(g, S \ {e})
  BY TotalRemove
<1> QED
  BY <1>2, <1>3

(* The sum over two disjoint sets. *)
LEMMA TotalUnion ==
  ASSUME NEW f, NEW S, NEW T, IsFiniteSet(S), IsFiniteSet(T), S \cap T = {},
         \A x \in S \cup T : f[x] \in Nat
  PROVE  Total(f, S \cup T) = Total(f, S) + Total(f, T)
<1> DEFINE Bad == {U \in SUBSET T : Total(f, S \cup U) # Total(f, S) + Total(f, U)}
<1> SUFFICES ASSUME Bad # {}
             PROVE  FALSE
  OBVIOUS
<1>1. PICK U \in Bad : \A V \in Bad : V \subseteq U => V = U
  <2>1. Bad \in SUBSET SUBSET T
    OBVIOUS
  <2> HIDE DEF Bad
  <2> QED
    BY <2>1, MinimalSubset
<1>2. IsFiniteSet(U) /\ IsFiniteSet(S \cup U)
  BY FS_Subset, FS_Union
<1>3. Total(f, S) \in Nat
  BY TotalType
<1>4. CASE U = {}
  <2>1. S \cup U = S
    BY <1>4
  <2>2. Total(f, U) = 0
    BY <1>4, TotalEmpty
  <2>3. Total(f, S \cup U) = Total(f, S)
    BY <2>1
  <2>4. Total(f, S \cup U) # Total(f, S) + Total(f, U)
    OBVIOUS
  <2> HIDE DEF Bad
  <2> QED
    BY <1>3, <2>2, <2>3, <2>4
<1>5. CASE U # {}
  <2>1. PICK e : e \in U
    BY <1>5
  <2>2. Total(f, S \cup (U \ {e})) = Total(f, S) + Total(f, U \ {e})
    BY <1>1, <2>1
  <2>3. Total(f, U) = f[e] + Total(f, U \ {e})
    BY <1>2, <2>1, TotalRemove
  <2>4. (S \cup U) \ {e} = S \cup (U \ {e})
    BY <2>1
  <2>5. Total(f, S \cup U) = f[e] + Total(f, S \cup (U \ {e}))
    BY <1>2, <2>1, <2>4, TotalRemove
  <2>6. Total(f, U \ {e}) \in Nat
    <3>1. IsFiniteSet(U \ {e})
      BY <1>2, FS_Subset
    <3> QED
      BY <3>1, TotalType
  <2> QED
    BY <1>1, <1>3, <2>1, <2>2, <2>3, <2>5, <2>6
<1> QED
  BY <1>4, <1>5

(* A sum, added up by parts: those of the elements that have the same key. *)
LEMMA TotalByKey ==
  ASSUME NEW f, NEW S, IsFiniteSet(S), \A x \in S : f[x] \in Nat,
         NEW K, IsFiniteSet(K), NEW key \in [S -> K],
         NEW part, \A y \in K : part[y] \in SUBSET S,
         \A y \in K, x \in S : x \in part[y] <=> key[x] = y,
         NEW t, \A y \in K : t[y] = Total(f, part[y])
  PROVE  Total(f, S) = Total(t, K)
<1> DEFINE Part(U) == [y \in K |-> Total(f, {x \in U : key[x] = y})]
           Bad == {U \in SUBSET S : Total(f, U) # Total(Part(U), K)}
<1>a. ASSUME NEW U \in SUBSET S, NEW y \in K
      PROVE  Part(U)[y] = Total(f, {x \in U : key[x] = y}) /\ Part(U)[y] \in Nat
  <2>1. IsFiniteSet({x \in U : key[x] = y})
    BY FS_Subset
  <2>2. Total(f, {x \in U : key[x] = y}) \in Nat
    BY <2>1, TotalType
  <2> QED
    BY <2>2
<1>b. ASSUME Bad # {}
      PROVE  FALSE
  <2>1. PICK U \in Bad : \A V \in Bad : V \subseteq U => V = U
    <3>1. Bad \in SUBSET SUBSET S
      OBVIOUS
    <3> HIDE DEF Bad
    <3> QED
      BY <1>b, <3>1, MinimalSubset
  <2>2. IsFiniteSet(U) /\ U \in SUBSET S
    BY FS_Subset
  <2>3. CASE U = {}
    <3>1. \A y \in K : Part(U)[y] = 0
      <4> SUFFICES ASSUME NEW y \in K
                   PROVE  Part(U)[y] = 0
        OBVIOUS
      <4>1. {x \in U : key[x] = y} = {}
        BY <2>3
      <4> QED
        BY <4>1, TotalEmpty
    <3>2. Total(Part(U), K) = 0
      <4> HIDE DEF Part
      <4> QED
        BY <3>1, TotalZero
    <3>3. Total(f, U) = 0
      BY <2>3, TotalEmpty
    <3> QED
      BY <2>1, <3>2, <3>3
  <2>4. CASE U # {}
    <3>1. PICK e : e \in U
      BY <2>4
    <3> DEFINE V == U \ {e}
               k == key[e]
    <3>2. V \in SUBSET S /\ k \in K /\ IsFiniteSet(V) /\ f[e] \in Nat
      BY <2>2, <3>1, FS_Subset
    <3>3. Total(f, V) = Total(Part(V), K)
      BY <2>1, <3>1
    <3>4. Total(f, U) = f[e] + Total(f, V)
      BY <2>2, <3>1, TotalRemove
    <3>5. Part(U)[k] = f[e] + Part(V)[k]
      <4> DEFINE P == {x \in U : key[x] = k}
                 Q == {x \in V : key[x] = k}
      <4>1. P \ {e} = Q /\ e \in P /\ \A x \in P : f[x] \in Nat
        BY <3>1
      <4>2. IsFiniteSet(P)
        BY <2>2, FS_Subset
      <4>3. Total(f, P) = f[e] + Total(f, Q)
        <5> HIDE DEF P, Q
        <5> QED
          BY <4>1, <4>2, TotalRemove
      <4> QED
        BY <1>a, <2>2, <3>2, <4>3
    <3>6. \A y \in K \ {k} : Part(U)[y] = Part(V)[y]
      <4> SUFFICES ASSUME NEW y \in K \ {k}
                   PROVE  Part(U)[y] = Part(V)[y]
        OBVIOUS
      <4>1. {x \in U : key[x] = y} = {x \in V : key[x] = y}
        OBVIOUS
      <4> QED
        BY <4>1
    <3>7. \A y \in K : Part(U)[y] \in Nat /\ Part(V)[y] \in Nat
      BY <1>a, <2>2, <3>2
    <3>8. Total(Part(U), K) + Part(V)[k] = Total(Part(V), K) + Part(U)[k]
      <4> HIDE DEF Part, V, k
      <4> QED
        BY <3>2, <3>6, <3>7, TotalChange
    <3>9. Total(Part(U), K) \in Nat /\ Total(Part(V), K) \in Nat
      <4> HIDE DEF Part, V, k
      <4> QED
        BY <3>7, TotalType
    <3>10. Total(f, U) # Total(Part(U), K)
      BY <2>1
    <3> HIDE DEF Part, V, k
    <3> QED
      BY <3>2, <3>3, <3>4, <3>5, <3>7, <3>8, <3>9, <3>10
  <2> QED
    BY <2>3, <2>4
<1>c. Total(f, S) = Total(Part(S), K)
  BY <1>b
<1>d. \A y \in K : Part(S)[y] = t[y]
  <2> SUFFICES ASSUME NEW y \in K
               PROVE  Part(S)[y] = t[y]
    OBVIOUS
  <2>1. part[y] = {x \in S : key[x] = y}
    OBVIOUS
  <2> QED
    BY <1>a, <2>1
<1> HIDE DEF Part
<1> QED
  BY <1>c, <1>d, TotalSame

(* The sum over one element. *)
LEMMA TotalSingle ==
  ASSUME NEW f, NEW e, f[e] \in Nat
  PROVE  Total(f, {e}) = f[e]
<1>1. IsFiniteSet({}) /\ Total(f, {}) = 0 /\ e \notin {} /\ {} \cup {e} = {e}
  BY FS_EmptySet, TotalEmpty
<1>2. Total(f, {} \cup {e}) = f[e] + Total(f, {})
  BY <1>1, TotalAdd
<1> QED
  BY <1>1, <1>2

(* Elements that count for nothing can be left out. *)
LEMMA TotalPart ==
  ASSUME NEW f, NEW g, NEW S, IsFiniteSet(S), NEW T \in SUBSET S,
         \A x \in T : f[x] \in Nat /\ g[x] = f[x],
         \A x \in S \ T : g[x] = 0
  PROVE  Total(g, S) = Total(f, T)
<1> DEFINE R == S \ T
<1>1. IsFiniteSet(T) /\ IsFiniteSet(R) /\ T \cap R = {} /\ T \cup R = S
  BY FS_Subset
<1>2. \A x \in T \cup R : g[x] \in Nat
  OBVIOUS
<1>3. \A x \in R : g[x] = 0
  OBVIOUS
<1> HIDE DEF R
<1>4. Total(g, T \cup R) = Total(g, T) + Total(g, R)
  BY <1>1, <1>2, TotalUnion
<1>5. Total(g, R) = 0
  BY <1>1, <1>3, TotalZero
<1>6. Total(g, T) = Total(f, T)
  BY <1>1, TotalSame
<1>7. Total(f, T) \in Nat
  BY <1>1, TotalType
<1> QED
  BY <1>1, <1>4, <1>5, <1>6, <1>7

(* A set has as many elements as ones add up to. *)
LEMMA CardinalityIsTotal ==
  ASSUME NEW f, NEW S, IsFiniteSet(S), \A x \in S : f[x] = 1
  PROVE  Total(f, S) = Cardinality(S)
<1> DEFINE Bad == {T \in SUBSET S : Total(f, T) # Cardinality(T)}
<1> SUFFICES ASSUME Bad # {}
             PROVE  FALSE
  OBVIOUS
<1>1. PICK T \in Bad : \A U \in Bad : U \subseteq T => U = T
  <2>1. Bad \in SUBSET SUBSET S
    OBVIOUS
  <2> HIDE DEF Bad
  <2> QED
    BY <2>1, MinimalSubset
<1>2. T \subseteq S /\ IsFiniteSet(T) /\ Total(f, T) # Cardinality(T)
  BY FS_Subset
<1>3. T # {}
  BY <1>2, TotalEmpty, FS_EmptySet
<1>4. PICK e : e \in T
  BY <1>3
<1>5. T \ {e} \notin Bad
  BY <1>1, <1>4
<1>6. Total(f, T \ {e}) = Cardinality(T \ {e})
  BY <1>2, <1>5
<1>7. \A x \in T : f[x] \in Nat
  BY <1>2
<1>8. Total(f, T) = f[e] + Total(f, T \ {e})
  BY <1>2, <1>4, <1>7, TotalRemove
<1>9. Cardinality(T \ {e}) = Cardinality(T) - 1 /\ Cardinality(T) \in Nat
  BY <1>2, <1>4, FS_RemoveElement, FS_CardinalityType
<1>10. f[e] = 1
  BY <1>2, <1>4
<1> QED
  BY <1>2, <1>6, <1>8, <1>9, <1>10

(* A sum over the positions of a list is that of its first k and of the list
   that is left without them. *)
LEMMA TotalSplit ==
  ASSUME NEW n \in Nat, NEW k \in 0..n, NEW f, NEW g,
         \A i \in 1..n : f[i] \in Nat, \A i \in 1..(n - k) : g[i] = f[i + k]
  PROVE  Total(f, 1..n) = Total(f, 1..k) + Total(g, 1..(n - k))
<1> DEFINE A == 1..k
           B == (k + 1)..n
           K == 1..(n - k)
           key == [i \in B |-> i - k]
<1>1. /\ IsFiniteSet(A) /\ IsFiniteSet(B) /\ IsFiniteSet(K)
      /\ A \cup B = 1..n /\ A \cap B = {}
  <2>1. k \in Int /\ k + 1 \in Int /\ n - k \in Int
    OBVIOUS
  <2>2. IsFiniteSet(A) /\ IsFiniteSet(B) /\ IsFiniteSet(K)
    BY <2>1, FS_Interval
  <2> QED
    BY <2>2
<1>2. Total(f, 1..n) = Total(f, A) + Total(f, B)
  <2>1. \A i \in A \cup B : f[i] \in Nat
    BY <1>1
  <2> HIDE DEF A, B
  <2>2. Total(f, A \cup B) = Total(f, A) + Total(f, B)
    BY <1>1, <2>1, TotalUnion
  <2> QED
    BY <1>1, <2>2
<1>3. Total(f, B) = Total(g, K)
  <2>1. key \in [B -> K] /\ \A i \in B : f[i] \in Nat
    OBVIOUS
  <2> DEFINE part == [j \in K |-> {j + k}]
  <2>2. /\ \A j \in K : part[j] \in SUBSET B
        /\ \A j \in K, i \in B : i \in part[j] <=> key[i] = j
    OBVIOUS
  <2>3. \A j \in K : g[j] = Total(f, part[j])
    <3> SUFFICES ASSUME NEW j \in K
                 PROVE  g[j] = Total(f, {j + k})
      OBVIOUS
    <3>1. j + k \in 1..n /\ f[j + k] \in Nat /\ g[j] = f[j + k]
      OBVIOUS
    <3> QED
      BY <3>1, TotalSingle
  <2> HIDE DEF B, K, key, part
  <2> QED
    BY <1>1, <2>1, <2>2, <2>3, TotalByKey
<1> QED
  BY <1>2, <1>3

(* The sum over a list and over its tail; ... *)
LEMMA TotalFirst ==
  ASSUME NEW n \in Nat, n # 0, NEW f, NEW g,
         \A i \in 1..n : f[i] \in Nat, \A i \in 1..(n - 1) : g[i] = f[i + 1]
  PROVE  Total(f, 1..n) = f[1] + Total(g, 1..(n - 1))
<1>1. 1 \in 0..n /\ 1 \in 1..n /\ 1..1 = {1}
  OBVIOUS
<1>2. Total(f, 1..n) = Total(f, 1..1) + Total(g, 1..(n - 1))
  <2> DEFINE k == 1
  <2>1. k \in 0..n /\ \A i \in 1..(n - k) : g[i] = f[i + k]
    OBVIOUS
  <2> HIDE DEF k
  <2>2. Total(f, 1..n) = Total(f, 1..k) + Total(g, 1..(n - k))
    BY <2>1, TotalSplit
  <2> QED
    BY <2>2 DEF k
<1>3. Total(f, {1}) = f[1]
  BY <1>1, TotalSingle
<1> QED
  BY <1>1, <1>2, <1>3

(* ... over a list and the one with another element at its end. *)
LEMMA TotalLast ==
  ASSUME NEW n \in Nat, NEW f, NEW g,
         \A i \in 1..(n + 1) : f[i] \in Nat, \A i \in 1..n : g[i] = f[i]
  PROVE  Total(f, 1..(n + 1)) = Total(g, 1..n) + f[n + 1]
<1> DEFINE S == 1..n
           e == n + 1
<1>1. /\ 1..(n + 1) = S \cup {e} /\ e \notin S /\ IsFiniteSet(S)
      /\ f[e] \in Nat /\ \A i \in S : f[i] \in Nat /\ g[i] = f[i]
  <2>1. 1..(n + 1) = S \cup {e} /\ e \notin S
    OBVIOUS
  <2>2. IsFiniteSet(S)
    BY FS_Interval
  <2>3. f[e] \in Nat /\ \A i \in S : f[i] \in Nat /\ g[i] = f[i]
    OBVIOUS
  <2> QED
    BY <2>1, <2>2, <2>3
<1>2. Total(f, S \cup {e}) = f[e] + Total(f, S)
  <2> HIDE DEF S, e
  <2> QED
    BY <1>1, TotalAdd
<1>3. Total(f, S) = Total(g, S) /\ Total(f, S) \in Nat
  <2> HIDE DEF S, e
  <2> QED
    BY <1>1, TotalSame, TotalType
<1> HIDE DEF S
<1>4. Total(f, S \cup {e}) = Total(g, S) + f[e]
  BY <1>1, <1>2, <1>3
<1> QED
  BY <1>1, <1>4 DEF S

-----------------------------------------------------------------------------
(* A list of all the elements of a finite set has each of them once. *)
LEMMA ListOfAll ==
  ASSUME NEW S, IsFiniteSet(S), NEW s \in SetToSeqs(S)
  PROVE  /\ s \in Seq(S) /\ Len(s) = Cardinality(S) /\ DOMAIN s = 1..Cardinality(S)
         /\ Cardinality(S) \in Nat
         /\ \A i \in DOMAIN s : s[i] \in S
         /\ \A i, j \in DOMAIN s : s[i] = s[j] => i = j
         /\ \A x \in S : \E i \in DOMAIN s : s[i] = x
<1> DEFINE n == Cardinality(S)
<1>1. n \in Nat
  BY FS_CardinalityType
<1>2. s \in [1..n -> S] /\ \A i, j \in 1..n : i # j => s[i] # s[j]
  BY DEF SetToSeqs
<1>3. IsFiniteSet(1..n) /\ Cardinality(1..n) = n
  BY <1>1, FS_Interval
<1>4. s \in Injection(1..n, S)
  BY <1>2 DEF Injection, IsInjective
<1>5. s \in Surjection(1..n, S)
  <2> HIDE DEF n
  <2>1. Cardinality(1..n) = Cardinality(S)
    BY <1>3 DEF n
  <2> QED
    BY <1>4, <2>1, FS_Injection
<1>6. \A x \in S : \E i \in 1..n : s[i] = x
  BY <1>5 DEF Surjection
<1>7. s \in Seq(S) /\ Len(s) = n
  BY <1>1, <1>2
<1> QED
  BY <1>1, <1>2, <1>6, <1>7

(* As many different values as places. *)
LEMMA DistinctValues ==
  ASSUME NEW n \in Nat, NEW f, \A i, j \in 1..n : f[i] = f[j] => i = j,
         NEW T, \A i \in 1..n : f[i] \in T, \A x \in T : \E i \in 1..n : f[i] = x
  PROVE  IsFiniteSet(T) /\ Cardinality(T) = n
<1> DEFINE g == [i \in 1..n |-> f[i]]
<1>1. g \in Surjection(1..n, T) /\ g \in Injection(1..n, T)
  BY DEF Surjection, Injection, IsInjective
<1>2. IsFiniteSet(1..n) /\ Cardinality(1..n) = n
  BY FS_Interval
<1>3. IsFiniteSet(T) /\ Cardinality(T) = n
  <2> HIDE DEF g
  <2> QED
    BY <1>1, <1>2, FS_Surjection
<1> QED
  BY <1>3
==============================================================================
