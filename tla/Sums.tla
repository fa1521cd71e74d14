--------------------------------- MODULE Sums ---------------------------------
(***************************************************************************)
(* Sums over finite sets: what MapThenSumSet adds up.  The summands are    *)
(* given by a function, g[x] for x \in S, so that the lemmas quantify over *)
(* values only and can be cited wherever a sum is taken; a sum of another  *)
(* form becomes one by SumsExists and TotalIs.  Induction over finite sets *)
(* is stated with a set of sets in the place of a predicate.               *)
(***************************************************************************)
EXTENDS Integers, FiniteSetsExt, FiniteSetTheorems, WellFoundedInduction, TLAPS

Total(g, S) == MapThenSumSet(LAMBDA x : g[x], S)

\* A set of naturals that contains 0 and successors contains them all.
LEMMA NatSet ==
  ASSUME NEW N, N \subseteq Nat, 0 \in N, \A n \in N : n + 1 \in N
  PROVE  N = Nat
<1> DEFINE B == Nat \ N
<1> SUFFICES ASSUME B # {} PROVE FALSE
  OBVIOUS
<1>1. IsWellFoundedOn(OpToRel(<, Nat), Nat)
  BY NatLessThanWellFounded
<1>2. PICK n \in B : \A m \in B : ~(<<m, n>> \in OpToRel(<, Nat))
  <2>1. B \subseteq Nat
    OBVIOUS
  <2> HIDE DEF B
  <2> QED
    BY <1>1, <2>1, WFMin
<1>3. n # 0 /\ n - 1 \in Nat /\ (n - 1) + 1 = n
  OBVIOUS
<1>4. n - 1 \in B
  BY <1>3
<1>5. <<n - 1, n>> \in OpToRel(<, Nat)
  BY <1>3 DEF OpToRel
<1> QED
  BY <1>2, <1>4, <1>5

\* Induction over the subsets of a finite set.
LEMMA SubsetInduction ==
  ASSUME NEW S, IsFiniteSet(S), NEW F, F \subseteq SUBSET S,
         {} \in F, \A T \in F : \A x \in S \ T : T \cup {x} \in F
  PROVE  F = SUBSET S
<1> DEFINE N == {n \in Nat : \A T \in SUBSET S : Cardinality(T) = n => T \in F}
<1>1. \A T \in SUBSET S : IsFiniteSet(T) /\ Cardinality(T) \in Nat
  BY FS_Subset, FS_CardinalityType
<1>2. 0 \in N
  <2>1. \A T \in SUBSET S : Cardinality(T) = 0 => T = {}
    BY <1>1, FS_EmptySet
  <2> QED
    BY <2>1
<1>3. ASSUME NEW n \in N PROVE n + 1 \in N
  <2> SUFFICES ASSUME NEW T \in SUBSET S, Cardinality(T) = n + 1 PROVE T \in F
    OBVIOUS
  <2>0. n \in Nat /\ n + 1 # 0
    OBVIOUS
  <2>1. T # {}
    BY <2>0, FS_EmptySet
  <2>2. PICK x \in T : TRUE
    BY <2>1
  <2>3. Cardinality(T \ {x}) = n
    BY <1>1, FS_RemoveElement
  <2>4. T \ {x} \in F
    BY <2>3
  <2>5. (T \ {x}) \cup {x} = T /\ x \in S \ (T \ {x})
    OBVIOUS
  <2> QED
    BY <2>4, <2>5
<1>4. N = Nat
  <2> HIDE DEF N
  <2>1. N \subseteq Nat
    BY DEF N
  <2> QED
    BY <1>2, <1>3, <2>1, NatSet
<1>5. \A T \in SUBSET S : T \in F
  BY <1>1, <1>4
<1> QED
  BY <1>5
-------------------------------------------------------------------------------
\* The recursive function of MapThenSumSet, on a set D of sets.
Pick(s) == CHOOSE x \in s : TRUE
Sums(f, g, D) ==
  f = [s \in D |-> IF s = {} THEN 0 ELSE g[Pick(s)] + f[s \ {Pick(s)}]]

\* The element picked of a set is in it.
LEMMA PickIn == \A s : s # {} => Pick(s) \in s
  BY DEF Pick

\* There is such a function on the subsets of a finite set.
LEMMA SumsExists ==
  ASSUME NEW S, IsFiniteSet(S), NEW g
  PROVE  \E f : Sums(f, g, SUBSET S)
<1> DEFINE Upto(n) == {s \in SUBSET S : Cardinality(s) <= n}
           N == {n \in Nat : \E f : Sums(f, g, Upto(n))}
<1>1. \A T \in SUBSET S : IsFiniteSet(T) /\ Cardinality(T) \in Nat
  BY FS_Subset, FS_CardinalityType
<1>2. \A s \in SUBSET S : s # {} => /\ s \ {Pick(s)} \in SUBSET S
                                    /\ Cardinality(s \ {Pick(s)}) = Cardinality(s) - 1
  BY <1>1, PickIn, FS_RemoveElement
<1>3. 0 \in N
  <2>1. \A s \in Upto(0) : s = {}
    BY <1>1, FS_EmptySet
  <2>2. Sums([s \in Upto(0) |-> 0], g, Upto(0))
    BY <2>1 DEF Sums
  <2> QED
    BY <2>2
<1>4. ASSUME NEW n \in N PROVE n + 1 \in N
  <2>1. PICK f : Sums(f, g, Upto(n))
    OBVIOUS
  <2> DEFINE h == [s \in Upto(n + 1) |->
                     IF s = {} THEN 0 ELSE g[Pick(s)] + f[s \ {Pick(s)}]]
  <2>0. n \in Nat
    OBVIOUS
  <2>2. \A s \in Upto(n) : s \in Upto(n + 1) /\ h[s] = f[s]
    <3>1. \A s \in Upto(n) : s \in Upto(n + 1)
      BY <1>1, <2>0
    <3>2. \A s \in Upto(n) :
            f[s] = IF s = {} THEN 0 ELSE g[Pick(s)] + f[s \ {Pick(s)}]
      BY <2>1 DEF Sums
    <3> QED
      BY <3>1, <3>2
  <2>3. \A s \in Upto(n + 1) : s # {} => s \ {Pick(s)} \in Upto(n)
    BY <1>1, <1>2
  <2>4. \A s \in Upto(n + 1) : s # {} => h[s \ {Pick(s)}] = f[s \ {Pick(s)}]
    BY <2>2, <2>3
  <2>5. h = [s \in Upto(n + 1) |->
               IF s = {} THEN 0 ELSE g[Pick(s)] + h[s \ {Pick(s)}]]
    <3> SUFFICES ASSUME NEW s \in Upto(n + 1), s # {}
                 PROVE  g[Pick(s)] + f[s \ {Pick(s)}] = g[Pick(s)] + h[s \ {Pick(s)}]
      OBVIOUS
    <3> QED
      BY <2>4
  <2>6. Sums(h, g, Upto(n + 1))
    BY <2>5 DEF Sums
  <2>7. \E k : Sums(k, g, Upto(n + 1))
    <3> HIDE DEF h
    <3> QED
      BY <2>6
  <2> QED
    <3> HIDE DEF h, Upto
    <3> QED
      BY <2>0, <2>7
<1>5. N = Nat
  <2> HIDE DEF N
  <2>1. N \subseteq Nat
    BY DEF N
  <2> QED
    BY <1>3, <1>4, <2>1, NatSet
<1>6. Cardinality(S) \in N
  BY <1>1, <1>5
<1>7. Upto(Cardinality(S)) = SUBSET S
  <2>1. \A s \in SUBSET S : Cardinality(s) <= Cardinality(S)
    BY FS_Subset
  <2> QED
    BY <2>1
<1> QED
  BY <1>6, <1>7

\* It is the only one.
LEMMA SumsUnique ==
  ASSUME NEW S, IsFiniteSet(S), NEW g, NEW f, NEW h,
         Sums(f, g, SUBSET S), Sums(h, g, SUBSET S)
  PROVE  f = h
<1> DEFINE N == {n \in Nat : \A T \in SUBSET S : Cardinality(T) = n => f[T] = h[T]}
<1>1. \A T \in SUBSET S : IsFiniteSet(T) /\ Cardinality(T) \in Nat
  BY FS_Subset, FS_CardinalityType
<1>2. \A s \in SUBSET S : s # {} => /\ s \ {Pick(s)} \in SUBSET S
                                    /\ Cardinality(s \ {Pick(s)}) = Cardinality(s) - 1
  BY <1>1, PickIn, FS_RemoveElement
<1>3. \A s \in SUBSET S :
        /\ f[s] = IF s = {} THEN 0 ELSE g[Pick(s)] + f[s \ {Pick(s)}]
        /\ h[s] = IF s = {} THEN 0 ELSE g[Pick(s)] + h[s \ {Pick(s)}]
  BY DEF Sums
<1>4. 0 \in N
  BY <1>1, <1>3, FS_EmptySet
<1>5. ASSUME NEW n \in N PROVE n + 1 \in N
  <2> SUFFICES ASSUME NEW T \in SUBSET S, Cardinality(T) = n + 1 PROVE f[T] = h[T]
    OBVIOUS
  <2>1. CASE T = {}
    BY <1>3, <2>1
  <2>2. CASE T # {}
    <3>1. T \ {Pick(T)} \in SUBSET S /\ Cardinality(T \ {Pick(T)}) = n
      BY <1>2, <2>2
    <3>2. f[T \ {Pick(T)}] = h[T \ {Pick(T)}]
      BY <3>1
    <3> QED
      BY <1>3, <2>2, <3>2
  <2> QED
    BY <2>1, <2>2
<1>6. N = Nat
  <2> HIDE DEF N
  <2>1. N \subseteq Nat
    BY DEF N
  <2> QED
    BY <1>4, <1>5, <2>1, NatSet
<1>7. \A T \in SUBSET S : f[T] = h[T]
  BY <1>1, <1>6
<1>8. f = [s \in SUBSET S |-> f[s]] /\ h = [s \in SUBSET S |-> h[s]]
  BY DEF Sums
<1> QED
  BY <1>7, <1>8

\* A total is what any function that sums the subsets says.
LEMMA TotalIs ==
  ASSUME NEW S, IsFiniteSet(S), NEW g, NEW f, Sums(f, g, SUBSET S)
  PROVE  Total(g, S) = f[S]
<1> DEFINE it == CHOOSE it : it = [s \in SUBSET S |-> IF s = {} THEN 0 ELSE
                      g[CHOOSE x \in s : TRUE] + it[s \ {CHOOSE x \in s : TRUE}]]
<1>1. Total(g, S) = it[S]
  BY DEF Total, MapThenSumSet, MapThenFoldSet
<1>2. Sums(it, g, SUBSET S)
  BY DEF Sums, Pick
<1> QED
  BY <1>1, <1>2, SumsUnique
-------------------------------------------------------------------------------
\* A sum of integers is one.
LEMMA SumsType ==
  ASSUME NEW S, IsFiniteSet(S), NEW g, \A x \in S : g[x] \in Int,
         NEW f, Sums(f, g, SUBSET S)
  PROVE  \A T \in SUBSET S : f[T] \in Int
<1> DEFINE N == {n \in Nat : \A T \in SUBSET S : Cardinality(T) = n => f[T] \in Int}
<1>1. \A T \in SUBSET S : IsFiniteSet(T) /\ Cardinality(T) \in Nat
  BY FS_Subset, FS_CardinalityType
<1>2. \A s \in SUBSET S : s # {} => /\ Pick(s) \in S
                                    /\ s \ {Pick(s)} \in SUBSET S
                                    /\ Cardinality(s \ {Pick(s)}) = Cardinality(s) - 1
  BY <1>1, PickIn, FS_RemoveElement
<1>3. \A s \in SUBSET S : f[s] = IF s = {} THEN 0 ELSE g[Pick(s)] + f[s \ {Pick(s)}]
  BY DEF Sums
<1>4. 0 \in N
  <2>1. \A T \in SUBSET S : Cardinality(T) = 0 => T = {}
    BY <1>1, FS_EmptySet
  <2>2. f[{}] = 0
    BY <1>3
  <2>3. ASSUME NEW T \in SUBSET S, Cardinality(T) = 0 PROVE f[T] \in Int
    <3>1. T = {}
      BY <2>1, <2>3
    <3> QED
      BY <2>2, <3>1
  <2> QED
    BY <2>3
<1>5. ASSUME NEW n \in N PROVE n + 1 \in N
  <2>0. n \in Nat
    OBVIOUS
  <2> SUFFICES ASSUME NEW T \in SUBSET S, Cardinality(T) = n + 1 PROVE f[T] \in Int
    BY <2>0
  <2>1. CASE T = {}
    <3>1. f[{}] = 0
      BY <1>3
    <3> QED
      BY <2>1, <3>1
  <2>2. CASE T # {}
    <3>1. T \ {Pick(T)} \in SUBSET S /\ Cardinality(T \ {Pick(T)}) = n /\ Pick(T) \in S
      BY <1>2, <2>0, <2>2
    <3>2. f[T \ {Pick(T)}] \in Int /\ g[Pick(T)] \in Int
      BY <3>1
    <3> QED
      BY <1>3, <2>2, <3>2
  <2> QED
    BY <2>1, <2>2
<1>6. N = Nat
  <2> HIDE DEF N
  <2>1. N \subseteq Nat
    BY DEF N
  <2> QED
    BY <1>4, <1>5, <2>1, NatSet
<1> QED
  BY <1>1, <1>6

\* The order of the summands does not matter.
LEMMA SumsRemove ==
  ASSUME NEW S, IsFiniteSet(S), NEW g, \A x \in S : g[x] \in Int,
         NEW f, Sums(f, g, SUBSET S), NEW U \in SUBSET S, NEW u \in U
  PROVE  f[U] = g[u] + f[U \ {u}]
<1> DEFINE N == {n \in Nat : \A T \in SUBSET S : Cardinality(T) = n =>
                               \A x \in T : f[T] = g[x] + f[T \ {x}]}
<1>1. \A T \in SUBSET S : IsFiniteSet(T) /\ Cardinality(T) \in Nat
  BY FS_Subset, FS_CardinalityType
<1>2. \A s \in SUBSET S : \A x \in s : /\ s \ {x} \in SUBSET S
                                       /\ Cardinality(s \ {x}) = Cardinality(s) - 1
  BY <1>1, FS_RemoveElement
<1>3. \A s \in SUBSET S : f[s] = IF s = {} THEN 0 ELSE g[Pick(s)] + f[s \ {Pick(s)}]
  BY DEF Sums
<1>4. \A T \in SUBSET S : f[T] \in Int
  BY SumsType
<1>5. 0 \in N
  BY <1>1, FS_EmptySet
<1>6. ASSUME NEW n \in N PROVE n + 1 \in N
  <2>0. n \in Nat
    OBVIOUS
  <2> SUFFICES ASSUME NEW T \in SUBSET S, Cardinality(T) = n + 1, NEW x \in T
               PROVE  f[T] = g[x] + f[T \ {x}]
    BY <2>0
  <2> DEFINE c == Pick(T)
  <2>1. c \in T
    BY PickIn
  <2>2. f[T] = g[c] + f[T \ {c}]
    BY <1>3
  <2>3. CASE c = x
    BY <2>2, <2>3
  <2>4. CASE c # x
    <3>1. /\ T \ {c} \in SUBSET S /\ Cardinality(T \ {c}) = n /\ x \in T \ {c}
          /\ T \ {x} \in SUBSET S /\ Cardinality(T \ {x}) = n /\ c \in T \ {x}
      BY <1>2, <2>0, <2>1, <2>4
    <3>2. f[T \ {c}] = g[x] + f[(T \ {c}) \ {x}]
      BY <3>1
    <3>3. f[T \ {x}] = g[c] + f[(T \ {x}) \ {c}]
      BY <3>1
    <3>4. (T \ {c}) \ {x} = (T \ {x}) \ {c} /\ (T \ {c}) \ {x} \in SUBSET S
      OBVIOUS
    <3>5. g[c] \in Int /\ g[x] \in Int /\ f[(T \ {c}) \ {x}] \in Int
      BY <1>4, <2>1, <3>4
    <3>6. f[T] = g[c] + (g[x] + f[(T \ {c}) \ {x}])
      BY <2>2, <3>2
    <3>7. f[T \ {x}] = g[c] + f[(T \ {c}) \ {x}]
      BY <3>3, <3>4
    <3> HIDE DEF c
    <3> QED
      BY <3>5, <3>6, <3>7
  <2> QED
    BY <2>3, <2>4
<1>7. N = Nat
  <2> HIDE DEF N
  <2>1. N \subseteq Nat
    BY DEF N
  <2> QED
    BY <1>5, <1>6, <2>1, NatSet
<1> QED
  BY <1>1, <1>7

\* A function that sums over the subsets of S does so over those of a subset.
LEMMA SumsSubset ==
  ASSUME NEW S, IsFiniteSet(S), NEW g, NEW f, Sums(f, g, SUBSET S), NEW T \in SUBSET S
  PROVE  Total(g, T) = f[T]
<1> DEFINE h == [s \in SUBSET T |-> f[s]]
<1>1. \A s \in SUBSET T : s # {} => s \ {Pick(s)} \in SUBSET T
  OBVIOUS
<1>2. Sums(h, g, SUBSET T)
  BY <1>1 DEF Sums
<1>3. IsFiniteSet(T)
  BY FS_Subset
<1> QED
  <2>1. Total(g, T) = h[T]
    <3> HIDE DEF h
    <3> QED
      BY <1>2, <1>3, TotalIs
  <2> QED
    BY <2>1

\* A sum of integers is an integer.
LEMMA TotalType ==
  ASSUME NEW S, IsFiniteSet(S), NEW g, \A x \in S : g[x] \in Int
  PROVE  Total(g, S) \in Int
<1>1. PICK f : Sums(f, g, SUBSET S)
  BY SumsExists
<1>2. f[S] \in Int
  BY <1>1, SumsType
<1> QED
  BY <1>1, <1>2, TotalIs

\* The empty sum.
LEMMA TotalEmpty == \A g : Total(g, {}) = 0
<1> SUFFICES ASSUME NEW g PROVE Total(g, {}) = 0
  OBVIOUS
<1>1. PICK f : Sums(f, g, SUBSET {})
  BY SumsExists, FS_EmptySet
<1>2. f[{}] = 0
  BY <1>1 DEF Sums
<1> QED
  BY <1>1, <1>2, TotalIs, FS_EmptySet

\* Any summand can be taken out, not only the one that is picked.
LEMMA TotalRemove ==
  ASSUME NEW S, IsFiniteSet(S), NEW g, \A y \in S : g[y] \in Int, NEW x \in S
  PROVE  Total(g, S) = g[x] + Total(g, S \ {x})
<1>1. PICK f : Sums(f, g, SUBSET S)
  BY SumsExists
<1>2. S \ {x} \in SUBSET S /\ S \in SUBSET S
  OBVIOUS
<1>3. Total(g, S) = f[S] /\ Total(g, S \ {x}) = f[S \ {x}]
  BY <1>1, <1>2, SumsSubset
<1>4. f[S] = g[x] + f[S \ {x}]
  <2>1. f[S] \in Int /\ f[S \ {x}] \in Int /\ g[x] \in Int
    BY <1>1, <1>2, SumsType
  <2> QED
    BY <1>1, <1>2, <2>1, SumsRemove
<1> QED
  BY <1>3, <1>4

\* One summand more.
LEMMA TotalAdd ==
  ASSUME NEW S, IsFiniteSet(S), NEW x, x \notin S,
         NEW g, \A y \in S \cup {x} : g[y] \in Int
  PROVE  Total(g, S \cup {x}) = Total(g, S) + g[x]
<1>1. IsFiniteSet(S \cup {x}) /\ (S \cup {x}) \ {x} = S
  BY FS_AddElement
<1>2. Total(g, S \cup {x}) = g[x] + Total(g, S)
  BY <1>1, TotalRemove
<1>3. Total(g, S) \in Int
  BY TotalType
<1> QED
  BY <1>2, <1>3

\* The same for a set that is known by another name.
LEMMA TotalMore ==
  ASSUME NEW S, IsFiniteSet(S), NEW x, x \notin S, NEW T, T = S \cup {x},
         NEW g, \A y \in T : g[y] \in Int
  PROVE  /\ Total(g, S) \in Int /\ g[x] \in Int
         /\ Total(g, T) = Total(g, S) + g[x]
<1>1. Total(g, S \cup {x}) = Total(g, S) + g[x]
  BY TotalAdd
<1>2. Total(g, S) \in Int
  BY TotalType
<1> QED
  BY <1>1, <1>2

\* Sums of equal summands are equal.
LEMMA TotalSame ==
  ASSUME NEW S, IsFiniteSet(S), NEW g, NEW h, \A x \in S : g[x] = h[x]
  PROVE  Total(g, S) = Total(h, S)
<1>1. PICK f : Sums(f, g, SUBSET S)
  BY SumsExists
<1>2. \A s \in SUBSET S : s # {} => g[Pick(s)] = h[Pick(s)]
  BY PickIn
<1>3. Sums(f, h, SUBSET S)
  BY <1>1, <1>2 DEF Sums
<1> QED
  BY <1>1, <1>3, TotalIs

\* A sum of sums, summand by summand.
LEMMA TotalPlus ==
  ASSUME NEW S, IsFiniteSet(S), NEW g, NEW h, NEW k,
         \A x \in S : g[x] \in Int /\ h[x] \in Int /\ k[x] = g[x] + h[x]
  PROVE  Total(k, S) = Total(g, S) + Total(h, S)
<1> DEFINE F == {T \in SUBSET S : Total(k, T) = Total(g, T) + Total(h, T)}
<1>1. {} \in F
  BY TotalEmpty
<1>2. ASSUME NEW T \in F, NEW x \in S \ T PROVE T \cup {x} \in F
  <2>1. IsFiniteSet(T)
    BY FS_Subset
  <2>2. \A y \in T \cup {x} : g[y] \in Int /\ h[y] \in Int /\ k[y] = g[y] + h[y]
    OBVIOUS
  <2>3. Total(g, T) \in Int /\ Total(h, T) \in Int
    BY <2>1, <2>2, TotalType
  <2>4. ASSUME NEW l, \A y \in T \cup {x} : l[y] \in Int
        PROVE  Total(l, T \cup {x}) = Total(l, T) + l[x]
    BY <2>1, <2>4, TotalAdd
  <2>5. Total(k, T) = Total(g, T) + Total(h, T)
    OBVIOUS
  <2>6. /\ Total(g, T \cup {x}) = Total(g, T) + g[x]
        /\ Total(h, T \cup {x}) = Total(h, T) + h[x]
        /\ Total(k, T \cup {x}) = Total(k, T) + k[x]
    <3>1. \A y \in T \cup {x} : g[y] \in Int
      BY <2>2
    <3>2. \A y \in T \cup {x} : h[y] \in Int
      BY <2>2
    <3>3. \A y \in T \cup {x} : k[y] \in Int
      BY <2>2
    <3> QED
      BY <2>4, <3>1, <3>2, <3>3
  <2>7. Total(k, T \cup {x}) = Total(g, T \cup {x}) + Total(h, T \cup {x})
    BY <2>2, <2>3, <2>5, <2>6
  <2> QED
    BY <2>7
<1>3. F = SUBSET S
  <2> HIDE DEF F
  <2>1. F \subseteq SUBSET S
    BY DEF F
  <2> QED
    BY <1>1, <1>2, <2>1, SubsetInduction
<1> QED
  BY <1>3

\* A sum of zeros.
LEMMA TotalZero ==
  ASSUME NEW S, IsFiniteSet(S), NEW g, \A x \in S : g[x] = 0
  PROVE  Total(g, S) = 0
<1> DEFINE F == {T \in SUBSET S : Total(g, T) = 0}
<1>1. {} \in F
  BY TotalEmpty
<1>2. ASSUME NEW T \in F, NEW x \in S \ T PROVE T \cup {x} \in F
  <2>1. IsFiniteSet(T)
    BY FS_Subset
  <2>2. \A y \in T \cup {x} : g[y] \in Int
    OBVIOUS
  <2>3. Total(g, T \cup {x}) = Total(g, T) + g[x]
    BY <2>1, <2>2, TotalAdd
  <2> QED
    BY <2>3
<1>3. F = SUBSET S
  <2> HIDE DEF F
  <2>1. F \subseteq SUBSET S
    BY DEF F
  <2> QED
    BY <1>1, <1>2, <2>1, SubsetInduction
<1> QED
  BY <1>3

\* Summands that are zero can be left out.
LEMMA TotalRestrict ==
  ASSUME NEW S, IsFiniteSet(S), NEW g, \A x \in S : g[x] \in Int,
         NEW T \in SUBSET S, \A x \in S \ T : g[x] = 0
  PROVE  Total(g, S) = Total(g, T)
<1> DEFINE R == S \ T
           F == {U \in SUBSET R : Total(g, T \cup U) = Total(g, T)}
<1>1. {} \in F
  <2>1. T \cup {} = T
    OBVIOUS
  <2> QED
    BY <2>1
<1>2. ASSUME NEW U \in F, NEW x \in R \ U PROVE U \cup {x} \in F
  <2>1. IsFiniteSet(T \cup U) /\ x \notin T \cup U /\ T \cup (U \cup {x}) = (T \cup U) \cup {x}
    BY FS_Subset
  <2>2. \A y \in (T \cup U) \cup {x} : g[y] \in Int
    OBVIOUS
  <2> DEFINE V == T \cup U
             W == T \cup (U \cup {x})
  <2>3. /\ Total(g, V) \in Int /\ g[x] \in Int
        /\ Total(g, W) = Total(g, V) + g[x]
    <3>1. IsFiniteSet(V) /\ x \notin V /\ W = V \cup {x} /\ \A y \in W : g[y] \in Int
      BY <2>1, <2>2
    <3> HIDE DEF V, W
    <3> QED
      BY <3>1, TotalMore
  <2>4. Total(g, T \cup U) = Total(g, T) /\ g[x] = 0
    OBVIOUS
  <2>6. Total(g, T \cup (U \cup {x})) = Total(g, T)
    BY <2>3, <2>4
  <2>7. U \cup {x} \in SUBSET R
    OBVIOUS
  <2> HIDE DEF R
  <2> QED
    BY <2>6, <2>7
<1>3. F = SUBSET R
  <2>1. IsFiniteSet(R)
    BY FS_Subset
  <2> HIDE DEF F, R
  <2>2. F \subseteq SUBSET R
    BY DEF F
  <2> QED
    BY <1>1, <1>2, <2>1, <2>2, SubsetInduction
<1>4. R \in F /\ T \cup R = S
  BY <1>3
<1> QED
  BY <1>4

\* A sum with one summand that is not zero.
LEMMA TotalOne ==
  ASSUME NEW S, IsFiniteSet(S), NEW g, NEW x \in S, g[x] \in Int,
         \A y \in S \ {x} : g[y] = 0
  PROVE  Total(g, S) = g[x]
<1>1. \A y \in S : g[y] \in Int
  OBVIOUS
<1>2. {x} \in SUBSET S /\ \A y \in S \ {x} : g[y] = 0
  OBVIOUS
<1>3. Total(g, S) = Total(g, {x})
  BY <1>1, <1>2, TotalRestrict
<1>4. Total(g, {} \cup {x}) = Total(g, {}) + g[x]
  <2>1. x \notin {} /\ \A y \in {} \cup {x} : g[y] \in Int
    OBVIOUS
  <2> QED
    BY <2>1, FS_EmptySet, TotalAdd
<1>5. {} \cup {x} = {x}
  OBVIOUS
<1> QED
  BY <1>3, <1>4, <1>5, TotalEmpty

\* A sum over the positions of a sequence made of two.
LEMMA TotalCat ==
  ASSUME NEW m \in Nat, NEW k \in Nat, NEW f, NEW g, NEW h,
         \A i \in 1..m : f[i] \in Int /\ h[i] = f[i],
         \A i \in 1..k : g[i] \in Int /\ h[m + i] = g[i]
  PROVE  Total(h, 1..(m + k)) = Total(f, 1..m) + Total(g, 1..k)
<1> DEFINE N == {n \in Nat : n <= k =>
                   Total(h, 1..(m + n)) = Total(f, 1..m) + Total(g, 1..n)}
<1>1. \A n \in Nat : IsFiniteSet(1..n)
  BY FS_Interval
<1>0. Total(f, 1..m) \in Int
  BY <1>1, TotalType
<1>2. 0 \in N
  <2>1. m + 0 = m /\ 1..0 = {}
    OBVIOUS
  <2>2. Total(h, 1..m) = Total(f, 1..m)
    BY <1>1, TotalSame
  <2>3. Total(g, 1..0) = 0
    BY <2>1, TotalEmpty
  <2>4. Total(h, 1..(m + 0)) = Total(f, 1..m) + Total(g, 1..0)
    BY <1>0, <2>1, <2>2, <2>3
  <2> QED
    BY <2>4
<1>3. ASSUME NEW n \in N PROVE n + 1 \in N
  <2>0. n \in Nat
    OBVIOUS
  <2> SUFFICES ASSUME n + 1 <= k
               PROVE  Total(h, 1..(m + (n + 1))) = Total(f, 1..m) + Total(g, 1..(n + 1))
    BY <2>0
  <2>1. Total(h, 1..(m + n)) = Total(f, 1..m) + Total(g, 1..n)
    BY <2>0
  <2> DEFINE A == 1..n
             B == 1..(n + 1)
             C == 1..(m + n)
             D == 1..(m + (n + 1))
             x == m + (n + 1)
             y == n + 1
  <2>2. /\ B = A \cup {y} /\ y \notin A /\ IsFiniteSet(A)
        /\ D = C \cup {x} /\ x \notin C /\ IsFiniteSet(C)
    BY <1>1, <2>0
  <2>3. \A i \in B : g[i] \in Int
    BY <2>0
  <2>4. \A i \in D : h[i] \in Int
    <3>1. \A i \in D : i \in 1..m \/ (i - m \in 1..k /\ m + (i - m) = i)
      BY <2>0
    <3> QED
      BY <3>1
  <2>7. h[x] = g[y]
    BY <2>0
  <2> HIDE DEF N, A, B, C, D, x, y
  <2>5. Total(g, A) \in Int /\ g[y] \in Int /\ Total(g, B) = Total(g, A) + g[y]
    BY <2>2, <2>3, TotalMore
  <2>6. Total(h, C) \in Int /\ h[x] \in Int /\ Total(h, D) = Total(h, C) + h[x]
    BY <2>2, <2>4, TotalMore
  <2>8. Total(h, C) = Total(f, 1..m) + Total(g, A)
    BY <2>1 DEF A, C
  <2>9. Total(h, D) = Total(f, 1..m) + Total(g, B)
    BY <1>0, <2>5, <2>6, <2>7, <2>8
  <2> QED
    BY <2>9 DEF B, D
<1>4. N = Nat
  <2> HIDE DEF N
  <2>1. N \subseteq Nat
    BY DEF N
  <2> QED
    BY <1>2, <1>3, <2>1, NatSet
<1> QED
  BY <1>4

\* The table g with rows R and columns S, and c the same by columns; the rows
\* add up to a, the columns to b.
Table(R, S, g, c, a, b) ==
  /\ \A r \in R : \A x \in S : g[r][x] \in Int /\ c[x][r] = g[r][x]
  /\ \A r \in R : a[r] = Total(g[r], S)
  /\ \A x \in S : b[x] = Total(c[x], R)

\* Rows and columns: a sum of sums can be taken in either order.
LEMMA TotalSwap ==
  ASSUME NEW R, IsFiniteSet(R), NEW S, IsFiniteSet(S), NEW g, NEW a, NEW b, NEW c,
         Table(R, S, g, c, a, b)
  PROVE  Total(a, R) = Total(b, S)
<1>0. /\ \A r \in R : \A x \in S : g[r][x] \in Int /\ c[x][r] = g[r][x]
      /\ \A r \in R : a[r] = Total(g[r], S)
      /\ \A x \in S : b[x] = Total(c[x], R)
  BY DEF Table
<1> DEFINE B(U) == [x \in S |-> Total(c[x], U)]
           F == {U \in SUBSET R : Total(a, U) = Total(B(U), S)}
<1>6. \A r \in R : a[r] \in Int
  <2> SUFFICES ASSUME NEW r \in R PROVE Total(g[r], S) \in Int
    BY <1>0
  <2>1. \A x \in S : g[r][x] \in Int
    BY <1>0
  <2> QED
    BY <2>1, TotalType
<1>1. {} \in F
  <2>1. \A x \in S : B({})[x] = 0
    BY TotalEmpty
  <2>2. Total(B({}), S) = 0
    <3> HIDE DEF B
    <3> QED
      BY <2>1, TotalZero
  <2>3. Total(a, {}) = 0
    BY TotalEmpty
  <2> QED
    BY <2>2, <2>3
<1>2. ASSUME NEW U \in F, NEW r \in R \ U PROVE U \cup {r} \in F
  <2>1. IsFiniteSet(U) /\ U \in SUBSET R
    BY FS_Subset
  <2> DEFINE V == U \cup {r}
  <2>0. V = U \cup {r} /\ r \notin U /\ V \in SUBSET R
    OBVIOUS
  <2>2. Total(a, U) \in Int /\ a[r] \in Int /\ Total(a, V) = Total(a, U) + a[r]
    <3>1. \A y \in V : a[y] \in Int
      BY <1>6
    <3> HIDE DEF V
    <3> QED
      BY <2>1, <2>0, <3>1, TotalMore
  <2>3. ASSUME NEW x \in S
        PROVE  /\ Total(c[x], V) = Total(c[x], U) + g[r][x]
               /\ Total(c[x], U) \in Int /\ g[r][x] \in Int
    <3> DEFINE l == c[x]
    <3>1. (\A y \in V : l[y] \in Int) /\ l[r] = g[r][x]
      BY <1>0
    <3> HIDE DEF V, l
    <3>2. Total(l, U) \in Int /\ l[r] \in Int /\ Total(l, V) = Total(l, U) + l[r]
      BY <2>1, <2>0, <3>1, TotalMore
    <3> QED
      BY <3>1, <3>2 DEF l
  <2>4. Total(B(U \cup {r}), S) = Total(B(U), S) + Total(g[r], S)
    <3>1. \A x \in S : /\ B(U)[x] \in Int /\ g[r][x] \in Int
                        /\ B(U \cup {r})[x] = B(U)[x] + g[r][x]
      BY <2>3
    <3> DEFINE l == B(U \cup {r})
               k == B(U)
               q == g[r]
    <3>2. \A x \in S : k[x] \in Int /\ q[x] \in Int /\ l[x] = k[x] + q[x]
      BY <3>1
    <3> HIDE DEF l, k, q
    <3>3. Total(l, S) = Total(k, S) + Total(q, S)
      BY <3>2, TotalPlus
    <3> QED
      BY <3>3 DEF l, k, q
  <2>5. Total(a, U) = Total(B(U), S) /\ a[r] = Total(g[r], S)
    BY <1>0
  <2>6. Total(a, U \cup {r}) = Total(B(U \cup {r}), S)
    BY <2>2, <2>4, <2>5, <2>0
  <2> QED
    BY <2>1, <2>6
<1>3. F = SUBSET R
  <2> HIDE DEF F
  <2>1. F \subseteq SUBSET R
    BY DEF F
  <2> QED
    BY <1>1, <1>2, <2>1, SubsetInduction
<1>4. Total(a, R) = Total(B(R), S)
  BY <1>3
<1>5. Total(B(R), S) = Total(b, S)
  <2>1. \A x \in S : B(R)[x] = b[x]
    BY <1>0
  <2> HIDE DEF B
  <2> QED
    BY <2>1, TotalSame
<1> QED
  BY <1>4, <1>5

\* Running sums, from 0 on, are the totals of the summands so far.
LEMMA TotalPrefix ==
  ASSUME NEW k \in Nat, NEW g, NEW v, v[0] = 0,
         \A i \in 1..k : g[i] \in Int /\ v[i] = v[i - 1] + g[i]
  PROVE  \A i \in 0..k : v[i] = Total(g, 1..i) /\ v[i] \in Int
<1> DEFINE N == {n \in Nat : n <= k => v[n] = Total(g, 1..n) /\ v[n] \in Int}
<1>1. 0 \in N
  <2>1. 1..0 = {}
    OBVIOUS
  <2> QED
    BY <2>1, TotalEmpty
<1>2. ASSUME NEW n \in N PROVE n + 1 \in N
  <2>0. n \in Nat
    OBVIOUS
  <2> DEFINE a == n + 1
             A == 1..n
             B == 1..a
  <2> SUFFICES ASSUME a <= k PROVE v[a] = Total(g, B) /\ v[a] \in Int
    BY <2>0
  <2>1. v[n] = Total(g, A) /\ v[n] \in Int
    BY <2>0
  <2>2. B = A \cup {a} /\ a \notin A /\ a \in 1..k /\ a - 1 = n
    BY <2>0
  <2>3. v[a] = v[n] + g[a]
    BY <2>2
  <2>4. (\A y \in B : g[y] \in Int) /\ IsFiniteSet(A)
    BY <2>0, FS_Interval
  <2> HIDE DEF N, A, B, a
  <2>5. Total(g, A) \in Int /\ g[a] \in Int /\ Total(g, B) = Total(g, A) + g[a]
    BY <2>2, <2>4, TotalMore
  <2> QED
    BY <2>1, <2>3, <2>5
<1>3. N = Nat
  <2> HIDE DEF N
  <2>1. N \subseteq Nat
    BY DEF N
  <2> QED
    BY <1>1, <1>2, <2>1, NatSet
<1> QED
  BY <1>3

\* The summands g and h are the same, but n more is added at x.
Changed(S, g, h, x, n) == /\ \A y \in S : g[y] \in Int
                          /\ h[x] = g[x] + n
                          /\ \A y \in S \ {x} : h[y] = g[y]

\* One summand grows by n.
LEMMA TotalChange ==
  ASSUME NEW S, IsFiniteSet(S), NEW g, NEW h, NEW x \in S, NEW n \in Int, Changed(S, g, h, x, n)
  PROVE  Total(g, S) \in Int /\ Total(h, S) = Total(g, S) + n
<1> DEFINE R == S \ {x}
<1>0. (\A y \in S : g[y] \in Int) /\ h[x] = g[x] + n /\ \A y \in R : h[y] = g[y]
  BY DEF Changed
<1>1. IsFiniteSet(R) /\ \A y \in R : g[y] \in Int /\ h[y] = g[y]
  BY <1>0, FS_Subset
<1>2. \A y \in S : h[y] \in Int
  BY <1>0
<1>3. Total(g, S) = g[x] + Total(g, R) /\ Total(h, S) = h[x] + Total(h, R)
  BY <1>0, <1>2, TotalRemove
<1>5. g[x] \in Int
  BY <1>0
<1> HIDE DEF R
<1>4. Total(g, R) \in Int /\ Total(h, R) = Total(g, R)
  BY <1>1, TotalType, TotalSame
<1> QED
  BY <1>0, <1>3, <1>4, <1>5
==============================================================================
