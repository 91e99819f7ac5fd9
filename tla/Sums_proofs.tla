----------------------------- MODULE Sums_proofs -----------------------------
(***************************************************************************)
(* Facts that the proofs about several components need: sums over finite   *)
(* sets (MapThenSumSet, which the fold of the community modules defines by *)
(* recursion over subsets), and what follows when no two requests overlap. *)
(*                                                                         *)
(* Induction over a finite set is by the smallest counterexample: of the   *)
(* subsets for which a formula fails, one contains no other.               *)
(***************************************************************************)
EXTENDS Integers, FiniteSetsExt, FiniteSetTheorems, WellFoundedInduction, TLAPS

\* The sum of f[x] over the elements of S.
TotalOver(f, S) == MapThenSumSet(LAMBDA x : f[x], S)

\* The element that the fold takes next.
Pick(s) == CHOOSE x \in s : TRUE

\* g holds the sum of f over every subset of S.
Adds(g, f, S) ==
  g = [s \in SUBSET S |-> IF s = {} THEN 0 ELSE f[Pick(s)] + g[s \ {Pick(s)}]]

\* What the fold expands to.
LEMMA TotalIsChosen ==
  ASSUME NEW f, NEW S
  PROVE  TotalOver(f, S) = (CHOOSE g : Adds(g, f, S))[S]
BY DEF TotalOver, MapThenSumSet, MapThenFoldSet, Adds, Pick

\* The smallest counterexample.
LEMMA SmallestSubset ==
  ASSUME NEW S, IsFiniteSet(S), NEW W, W \subseteq SUBSET S, W # {}
  PROVE  \E u \in W : \A v \in SUBSET u : v # u => v \notin W
<1> DEFINE Less == StrictSubsetOrdering(S)
<1>1. IsWellFoundedOn(Less, FiniteSubsetsOf(S))
  BY FS_StrictSubsetOrderingWellFounded
<1>2. W \subseteq FiniteSubsetsOf(S)
  BY FS_FiniteSubsetsOfFinite
<1>3. PICK u \in W : \A v \in W : ~ (<<v, u>> \in Less)
  <2> HIDE DEF Less
  <2>1. QED
    BY <1>1, <1>2, WFMin
<1>4. ASSUME NEW v \in SUBSET u, v # u, v \in W PROVE FALSE
  <2>1. <<v, u>> \in (SUBSET S) \X (SUBSET S)
    BY <1>4
  <2>2. <<v, u>>[1] = v /\ <<v, u>>[2] = u
    OBVIOUS
  <2>3. <<v, u>> \in Less
    BY <1>4, <2>1, <2>2 DEF StrictSubsetOrdering
  <2>4. QED
    BY <1>3, <1>4, <2>3
<1>5. QED
  BY <1>4

\* One element less is a smaller set.
LEMMA PickIn ==
  ASSUME NEW s, s # {}
  PROVE  Pick(s) \in s /\ s \ {Pick(s)} \in SUBSET s /\ s \ {Pick(s)} # s
BY DEF Pick

\* Two functions that hold sums of the same values agree where both do.
LEMMA AddsOnce ==
  ASSUME NEW f, NEW h, NEW S, IsFiniteSet(S), NEW T, NEW a, NEW b, Adds(a, f, S), Adds(b, h, T),
         \A x \in S : f[x] = h[x]
  PROVE  \A u \in SUBSET S : u \in SUBSET T => a[u] = b[u]
<1> DEFINE W == {u \in SUBSET S : u \in SUBSET T /\ a[u] # b[u]}
<1> SUFFICES ASSUME W # {} PROVE FALSE
  OBVIOUS
<1>1. PICK u \in W : \A v \in SUBSET u : v # u => v \notin W
  <2> HIDE DEF W
  <2>0. W \subseteq SUBSET S
    BY DEF W
  <2>1. QED
    BY <2>0, SmallestSubset
<1>2. u \in SUBSET S /\ u \in SUBSET T /\ a[u] # b[u]
  OBVIOUS
<1>3. /\ a[u] = IF u = {} THEN 0 ELSE f[Pick(u)] + a[u \ {Pick(u)}]
      /\ b[u] = IF u = {} THEN 0 ELSE h[Pick(u)] + b[u \ {Pick(u)}]
  BY <1>2 DEF Adds
<1>4. u # {}
  BY <1>2, <1>3
<1>5. a[u \ {Pick(u)}] = b[u \ {Pick(u)}]
  BY <1>1, <1>2, <1>4, PickIn
<1>6. f[Pick(u)] = h[Pick(u)]
  BY <1>2, <1>4, PickIn
<1>7. QED
  BY <1>2, <1>3, <1>4, <1>5, <1>6

\* There is such a function for every finite set: up to s from those up to its
\* proper subsets.
LEMMA AddsExists ==
  ASSUME NEW f, NEW S, IsFiniteSet(S)
  PROVE  \E g : Adds(g, f, S)
<1> DEFINE W == {s \in SUBSET S : ~ \E g : Adds(g, f, s)}
<1> SUFFICES ASSUME W # {} PROVE FALSE
  OBVIOUS
<1>1. PICK s \in W : \A v \in SUBSET s : v # s => v \notin W
  <2> HIDE DEF W
  <2>0. W \subseteq SUBSET S
    BY DEF W
  <2>1. QED
    BY <2>0, SmallestSubset
<1>2. s \in SUBSET S /\ ~ \E g : Adds(g, f, s)
  OBVIOUS
<1> DEFINE G(t) == CHOOSE g : Adds(g, f, t)
<1>3. \A t \in SUBSET s : t # s => Adds(G(t), f, t)
  <2> SUFFICES ASSUME NEW t \in SUBSET s, t # s PROVE Adds(G(t), f, t)
    OBVIOUS
  <2>1. \E g : Adds(g, f, t)
    BY <1>1, <1>2
  <2> HIDE DEF Adds
  <2>2. QED
    BY <2>1
<1> DEFINE Rest(t) == t \ {Pick(t)}
           h == [t \in SUBSET s |-> IF t = {} THEN 0 ELSE f[Pick(t)] + G(Rest(t))[Rest(t)]]
<1> HIDE DEF G, W
<1>4. ASSUME NEW t \in SUBSET s, t # s PROVE h[t] = G(t)[t]
  <2>1. Adds(G(t), f, t)
    BY <1>3, <1>4
  <2>2. G(t)[t] = IF t = {} THEN 0 ELSE f[Pick(t)] + G(t)[Rest(t)]
    BY <2>1 DEF Adds
  <2>3. CASE t = {}
    BY <2>2, <2>3
  <2>4. CASE t # {}
    <3>1. Rest(t) \in SUBSET t /\ Rest(t) # t
      BY <2>4, PickIn
    <3>2. Rest(t) \in SUBSET s /\ Rest(t) # s
      BY <3>1
    <3>3. Adds(G(Rest(t)), f, Rest(t))
      BY <3>2, <1>3
    <3>4. IsFiniteSet(t)
      BY <1>2, FS_Subset
    <3>5. G(t)[Rest(t)] = G(Rest(t))[Rest(t)]
      <4>1. ASSUME NEW a, NEW b, NEW u, u \in SUBSET t, Adds(a, f, t), Adds(b, f, u)
            PROVE  a[u] = b[u]
        <5>1. u \in SUBSET u /\ \A x \in t : f[x] = f[x]
          OBVIOUS
        <5>2. QED
          BY <3>4, <4>1, <5>1, AddsOnce
      <4> HIDE DEF Rest, Adds
      <4>2. QED
        BY <2>1, <3>1, <3>3, <4>1
    <3>6. QED
      BY <2>2, <2>4, <3>5
  <2>5. QED
    BY <2>3, <2>4
<1>5. ASSUME NEW t \in SUBSET s, t # {} PROVE h[Rest(t)] = G(Rest(t))[Rest(t)]
  <2>1. Rest(t) \in SUBSET s /\ Rest(t) # s
    BY <1>5, PickIn
  <2> HIDE DEF h, Rest
  <2>2. QED
    BY <2>1, <1>4
<1>6. h = [t \in SUBSET s |-> IF t = {} THEN 0 ELSE f[Pick(t)] + h[Rest(t)]]
  <2>1. \A t \in SUBSET s : h[t] = IF t = {} THEN 0 ELSE f[Pick(t)] + h[Rest(t)]
    BY <1>5
  <2>2. h = [t \in SUBSET s |-> h[t]]
    OBVIOUS
  <2> HIDE DEF h
  <2>3. QED
    BY <2>1, <2>2
<1>7. Adds(h, f, s)
  <2> HIDE DEF h
  <2>1. QED
    BY <1>6 DEF Adds
<1>8. QED
  BY <1>2, <1>7

\* The sum of nothing is zero; the sum of a set is that of one element and
\* of the others.
LEMMA TotalUnfolds ==
  ASSUME NEW f, NEW S, IsFiniteSet(S)
  PROVE  TotalOver(f, S) = IF S = {} THEN 0 ELSE f[Pick(S)] + TotalOver(f, S \ {Pick(S)})
<1> DEFINE a == CHOOSE g : Adds(g, f, S)
           R == S \ {Pick(S)}
           b == CHOOSE g : Adds(g, f, R)
<1>1. IsFiniteSet(R) /\ R \in SUBSET S
  BY FS_Subset
<1>2. Adds(a, f, S) /\ Adds(b, f, R)
  <2>1. (\E g : Adds(g, f, S)) /\ (\E g : Adds(g, f, R))
    BY <1>1, AddsExists
  <2> HIDE DEF Adds
  <2>2. QED
    BY <2>1
<1>3. TotalOver(f, S) = a[S] /\ TotalOver(f, R) = b[R]
  BY TotalIsChosen
<1> HIDE DEF a, b
<1>4. a[R] = b[R]
  <2>1. R \in SUBSET R /\ \A x \in S : f[x] = f[x]
    OBVIOUS
  <2> HIDE DEF R
  <2>2. QED
    BY <1>1, <1>2, <2>1, AddsOnce
<1>5. a[S] = IF S = {} THEN 0 ELSE f[Pick(S)] + a[R]
  BY <1>2 DEF Adds
<1>6. QED
  BY <1>3, <1>4, <1>5

\* A sum of integers is an integer.
LEMMA TotalInt ==
  ASSUME NEW S, IsFiniteSet(S), NEW f, \A x \in S : f[x] \in Int
  PROVE  TotalOver(f, S) \in Int
<1> DEFINE W == {s \in SUBSET S : TotalOver(f, s) \notin Int}
<1> SUFFICES ASSUME W # {} PROVE FALSE
  OBVIOUS
<1>1. PICK s \in W : \A v \in SUBSET s : v # s => v \notin W
  <2> HIDE DEF W
  <2>0. W \subseteq SUBSET S
    BY DEF W
  <2>1. QED
    BY <2>0, SmallestSubset
<1>2. s \in SUBSET S /\ TotalOver(f, s) \notin Int /\ IsFiniteSet(s)
  BY FS_Subset
<1>3. TotalOver(f, s) = IF s = {} THEN 0 ELSE f[Pick(s)] + TotalOver(f, s \ {Pick(s)})
  BY <1>2, TotalUnfolds
<1>4. s # {} => TotalOver(f, s \ {Pick(s)}) \in Int /\ f[Pick(s)] \in Int
  BY <1>1, <1>2, PickIn
<1> HIDE DEF W
<1>5. QED
  BY <1>2, <1>3, <1>4

\* Sums add up point by point.
LEMMA TotalOfSums ==
  ASSUME NEW S, IsFiniteSet(S), NEW f, NEW g, NEW h, \A x \in S : f[x] \in Int /\ g[x] \in Int,
         \A x \in S : h[x] = f[x] + g[x]
  PROVE  TotalOver(h, S) = TotalOver(f, S) + TotalOver(g, S)
<1> DEFINE W == {s \in SUBSET S : TotalOver(h, s) # TotalOver(f, s) + TotalOver(g, s)}
<1> SUFFICES ASSUME W # {} PROVE FALSE
  <2>1. S \in SUBSET S
    OBVIOUS
  <2>2. QED
    BY <2>1
<1>1. PICK s \in W : \A v \in SUBSET s : v # s => v \notin W
  <2> HIDE DEF W
  <2>0. W \subseteq SUBSET S
    BY DEF W
  <2>1. QED
    BY <2>0, SmallestSubset
<1>2. s \in SUBSET S /\ TotalOver(h, s) # TotalOver(f, s) + TotalOver(g, s) /\ IsFiniteSet(s)
  BY FS_Subset
<1> DEFINE R == s \ {Pick(s)}
<1>3. /\ TotalOver(f, s) = IF s = {} THEN 0 ELSE f[Pick(s)] + TotalOver(f, R)
      /\ TotalOver(g, s) = IF s = {} THEN 0 ELSE g[Pick(s)] + TotalOver(g, R)
      /\ TotalOver(h, s) = IF s = {} THEN 0 ELSE h[Pick(s)] + TotalOver(h, R)
  BY <1>2, TotalUnfolds
<1>4. s # {}
  BY <1>2, <1>3
<1>5. TotalOver(h, R) = TotalOver(f, R) + TotalOver(g, R)
  BY <1>1, <1>2, <1>4, PickIn
<1>6. R \in SUBSET S /\ IsFiniteSet(R) /\ Pick(s) \in S
  BY <1>2, <1>4, PickIn, FS_Subset
<1>7. /\ TotalOver(f, R) \in Int /\ TotalOver(g, R) \in Int
      /\ f[Pick(s)] \in Int /\ g[Pick(s)] \in Int /\ h[Pick(s)] = f[Pick(s)] + g[Pick(s)]
  BY <1>6, TotalInt
<1> HIDE DEF W, R
<1>8. QED
  BY <1>2, <1>3, <1>4, <1>5, <1>7

\* A sum depends on the values alone.
LEMMA TotalSame ==
  ASSUME NEW S, IsFiniteSet(S), NEW f, NEW g, \A x \in S : f[x] = g[x]
  PROVE  TotalOver(f, S) = TotalOver(g, S)
<1> DEFINE a == CHOOSE u : Adds(u, f, S)
           b == CHOOSE u : Adds(u, g, S)
<1>1. Adds(a, f, S) /\ Adds(b, g, S)
  <2>1. (\E u : Adds(u, f, S)) /\ (\E u : Adds(u, g, S))
    BY AddsExists
  <2> HIDE DEF Adds
  <2>2. QED
    BY <2>1
<1>2. TotalOver(f, S) = a[S] /\ TotalOver(g, S) = b[S]
  BY TotalIsChosen
<1> HIDE DEF a, b
<1>3. S \in SUBSET S
  OBVIOUS
<1>4. QED
  BY <1>1, <1>2, <1>3, AddsOnce

\* The order of the elements does not matter: any of them can be taken out.
LEMMA TotalWithout ==
  ASSUME NEW S, IsFiniteSet(S), NEW f, \A x \in S : f[x] \in Int, NEW e \in S
  PROVE  TotalOver(f, S) = f[e] + TotalOver(f, S \ {e})
<1> DEFINE W == {s \in SUBSET S : \E d \in s : TotalOver(f, s) # f[d] + TotalOver(f, s \ {d})}
<1> SUFFICES ASSUME W # {} PROVE FALSE
  <2>1. S \in SUBSET S
    OBVIOUS
  <2>2. QED
    BY <2>1
<1>1. PICK s \in W : \A v \in SUBSET s : v # s => v \notin W
  <2> HIDE DEF W
  <2>0. W \subseteq SUBSET S
    BY DEF W
  <2>1. QED
    BY <2>0, SmallestSubset
<1>2. s \in SUBSET S /\ IsFiniteSet(s)
  BY FS_Subset
<1>3. PICK d \in s : TotalOver(f, s) # f[d] + TotalOver(f, s \ {d})
  OBVIOUS
<1>4. \A v \in SUBSET s : v # s => \A c \in v : TotalOver(f, v) = f[c] + TotalOver(f, v \ {c})
  BY <1>1, <1>2
<1> DEFINE p == Pick(s)
           R == s \ {p, d}
<1>5. p \in s /\ TotalOver(f, s) = f[p] + TotalOver(f, s \ {p})
  BY <1>2, <1>3, TotalUnfolds, PickIn
<1> HIDE DEF p, W
<1>6. p # d
  BY <1>3, <1>5
<1>7. TotalOver(f, s \ {p}) = f[d] + TotalOver(f, R)
  <2>1. s \ {p} \in SUBSET s /\ s \ {p} # s /\ d \in s \ {p} /\ (s \ {p}) \ {d} = R
    BY <1>5, <1>6
  <2> HIDE DEF R
  <2>2. QED
    BY <1>4, <2>1
<1>8. TotalOver(f, s \ {d}) = f[p] + TotalOver(f, R)
  <2>1. s \ {d} \in SUBSET s /\ s \ {d} # s /\ p \in s \ {d} /\ (s \ {d}) \ {p} = R
    BY <1>5, <1>6
  <2> HIDE DEF R
  <2>2. QED
    BY <1>4, <2>1
<1>9. f[d] \in Int /\ f[p] \in Int /\ TotalOver(f, R) \in Int
  <2>1. R \in SUBSET S /\ IsFiniteSet(R)
    BY <1>2, FS_Subset
  <2>2. QED
    BY <1>2, <1>5, <2>1, TotalInt
<1> HIDE DEF R
<1>10. QED
  BY <1>3, <1>5, <1>7, <1>8, <1>9

\* One value changes: the sum changes by as much.
LEMMA TotalChanged ==
  ASSUME NEW S, IsFiniteSet(S), NEW f, NEW g, NEW e \in S,
         \A x \in S : f[x] \in Int, \A x \in S : g[x] \in Int,
         \A x \in S : x # e => g[x] = f[x]
  PROVE  TotalOver(g, S) = TotalOver(f, S) + g[e] - f[e]
<1>1. TotalOver(f, S) = f[e] + TotalOver(f, S \ {e}) /\ TotalOver(g, S) = g[e] + TotalOver(g, S \ {e})
  BY TotalWithout
<1>2. IsFiniteSet(S \ {e})
  BY FS_RemoveElement
<1>3. TotalOver(f, S \ {e}) = TotalOver(g, S \ {e}) /\ TotalOver(f, S \ {e}) \in Int
  <2> DEFINE R == S \ {e}
  <2>1. IsFiniteSet(R) /\ \A x \in R : f[x] = g[x] /\ f[x] \in Int
    BY <1>2
  <2> HIDE DEF R
  <2>2. TotalOver(f, R) = TotalOver(g, R) /\ TotalOver(f, R) \in Int
    BY <2>1, TotalSame, TotalInt
  <2>3. QED
    BY <2>2 DEF R
<1>4. QED
  BY <1>1, <1>3

\* A sum of zeros is zero.
LEMMA TotalZero ==
  ASSUME NEW S, IsFiniteSet(S), NEW f, \A x \in S : f[x] = 0
  PROVE  TotalOver(f, S) = 0
<1> DEFINE W == {s \in SUBSET S : TotalOver(f, s) # 0}
<1> SUFFICES ASSUME W # {} PROVE FALSE
  <2>1. S \in SUBSET S
    OBVIOUS
  <2>2. QED
    BY <2>1
<1>1. PICK s \in W : \A v \in SUBSET s : v # s => v \notin W
  <2> HIDE DEF W
  <2>0. W \subseteq SUBSET S
    BY DEF W
  <2>1. QED
    BY <2>0, SmallestSubset
<1>2. s \in SUBSET S /\ TotalOver(f, s) # 0 /\ IsFiniteSet(s)
  BY FS_Subset
<1>3. TotalOver(f, s) = IF s = {} THEN 0 ELSE f[Pick(s)] + TotalOver(f, s \ {Pick(s)})
  BY <1>2, TotalUnfolds
<1>4. s # {} => TotalOver(f, s \ {Pick(s)}) = 0 /\ f[Pick(s)] = 0
  BY <1>1, <1>2, PickIn
<1> HIDE DEF W
<1>5. QED
  BY <1>2, <1>3, <1>4

\* Where the values are zero, the elements do not count.
LEMMA TotalOfPart ==
  ASSUME NEW S, IsFiniteSet(S), NEW T, NEW f, \A x \in S : f[x] \in Int,
         \A x \in S : x \notin T => f[x] = 0
  PROVE  TotalOver(f, S) = TotalOver(f, S \cap T)
<1> DEFINE W == {s \in SUBSET S : TotalOver(f, s) # TotalOver(f, s \cap T)}
<1> SUFFICES ASSUME W # {} PROVE FALSE
  <2>1. S \in SUBSET S
    OBVIOUS
  <2>2. QED
    BY <2>1
<1>1. PICK s \in W : \A v \in SUBSET s : v # s => v \notin W
  <2> HIDE DEF W
  <2>0. W \subseteq SUBSET S
    BY DEF W
  <2>1. QED
    BY <2>0, SmallestSubset
<1>2. s \in SUBSET S /\ TotalOver(f, s) # TotalOver(f, s \cap T) /\ IsFiniteSet(s)
  BY FS_Subset
<1>3. s # {}
  <2>1. {} \cap T = {}
    OBVIOUS
  <2>2. QED
    BY <1>2, <2>1
<1> DEFINE e == Pick(s)
           R == s \ {e}
<1>4. TotalOver(f, s) = f[e] + TotalOver(f, R)
  BY <1>2, <1>3, TotalUnfolds
<1>5. TotalOver(f, R) = TotalOver(f, R \cap T)
  BY <1>1, <1>2, <1>3, PickIn
<1>6. e \in s /\ IsFiniteSet(s \cap T) /\ IsFiniteSet(R \cap T)
  BY <1>2, <1>3, PickIn, FS_Subset
<1>7. TotalOver(f, R \cap T) \in Int
  BY <1>2, <1>6, TotalInt
<1> HIDE DEF W, e, R
<1>8. CASE e \in T
  <2>1. e \in s \cap T /\ \A x \in s \cap T : f[x] \in Int
    BY <1>2, <1>6, <1>8
  <2>2. TotalOver(f, s \cap T) = f[e] + TotalOver(f, (s \cap T) \ {e})
    BY <1>6, <2>1, TotalWithout
  <2>3. (s \cap T) \ {e} = R \cap T
    BY DEF R
  <2>4. QED
    BY <1>2, <1>4, <1>5, <2>2, <2>3
<1>9. CASE e \notin T
  <2>1. s \cap T = R \cap T /\ f[e] = 0
    BY <1>2, <1>6, <1>9 DEF R
  <2>2. TotalOver(f, s \cap T) = TotalOver(f, R \cap T)
    BY <2>1
  <2>3. TotalOver(f, s) = TotalOver(f, R \cap T)
    BY <1>4, <1>5, <1>7, <2>1
  <2>4. QED
    BY <1>2, <2>2, <2>3
<1>10. QED
  BY <1>8, <1>9

\* A set has as many elements as its parts by the value of g have together.
LEMMA TotalOfFibres ==
  ASSUME NEW S, IsFiniteSet(S), NEW T, IsFiniteSet(T), NEW g, \A x \in S : g[x] \in T,
         NEW h, \A t \in T : h[t] = Cardinality({x \in S : g[x] = t})
  PROVE  TotalOver(h, T) = Cardinality(S)
<1> DEFINE Fibre(s, t) == {x \in s : g[x] = t}
           Sizes(s) == [t \in T |-> Cardinality(Fibre(s, t))]
           W == {s \in SUBSET S : TotalOver(Sizes(s), T) # Cardinality(s)}
<1>1. ASSUME NEW s \in SUBSET S
      PROVE  IsFiniteSet(s) /\ \A t \in T : Sizes(s)[t] \in Int /\ IsFiniteSet(Fibre(s, t))
  <2>1. IsFiniteSet(s)
    BY FS_Subset
  <2>2. \A t \in T : Fibre(s, t) \in SUBSET s
    OBVIOUS
  <2>3. \A t \in T : IsFiniteSet(Fibre(s, t)) /\ Cardinality(Fibre(s, t)) \in Int
    <3> HIDE DEF Fibre
    <3>1. QED
      BY <2>1, <2>2, FS_Subset, FS_CardinalityType
  <2>4. QED
    BY <2>1, <2>3
<1>2. TotalOver(h, T) = TotalOver(Sizes(S), T)
  <2>1. \A t \in T : h[t] = Sizes(S)[t]
    OBVIOUS
  <2> HIDE DEF Sizes
  <2>2. QED
    BY <2>1, TotalSame
<1> SUFFICES ASSUME W # {} PROVE FALSE
  <2>1. S \in SUBSET S
    OBVIOUS
  <2>2. QED
    BY <1>2, <2>1
<1>3. PICK s \in W : \A v \in SUBSET s : v # s => v \notin W
  <2> HIDE DEF W
  <2>0. W \subseteq SUBSET S
    BY DEF W
  <2>1. QED
    BY <2>0, SmallestSubset
<1>4. s \in SUBSET S /\ TotalOver(Sizes(s), T) # Cardinality(s)
  OBVIOUS
<1>5. CASE s = {}
  <2>1. \A t \in T : Sizes(s)[t] = 0
    <3>1. \A t \in T : Fibre(s, t) = {}
      BY <1>5
    <3> HIDE DEF Fibre
    <3>2. QED
      BY <3>1, FS_EmptySet
  <2>2. Cardinality(s) = 0
    BY <1>5, FS_EmptySet
  <2> HIDE DEF Sizes, W
  <2>3. QED
    BY <1>4, <2>1, <2>2, TotalZero
<1>6. CASE s # {}
  <2> DEFINE e == Pick(s)
             R == s \ {e}
  <2>1. e \in s /\ R \in SUBSET s /\ R # s
    BY <1>6, PickIn
  <2>2. TotalOver(Sizes(R), T) = Cardinality(R)
    <3>1. R \notin W /\ R \in SUBSET S
      BY <1>3, <1>4, <2>1
    <3> HIDE DEF Sizes, R, Fibre
    <3>2. QED
      BY <3>1
  <2>3. Cardinality(R) = Cardinality(s) - 1
    BY <1>1, <1>4, <2>1, FS_RemoveElement
  <2>4. g[e] \in T /\ R \in SUBSET S
    BY <1>4, <2>1
  <2>5. \A t \in T : Fibre(s, t) = IF t = g[e] THEN Fibre(R, t) \cup {e} ELSE Fibre(R, t)
    BY <2>1
  <2>6. e \notin Fibre(R, g[e])
    OBVIOUS
  <2>7. Sizes(s)[g[e]] = Sizes(R)[g[e]] + 1
    <3>1. Cardinality(Fibre(R, g[e]) \cup {e}) = Cardinality(Fibre(R, g[e])) + 1
      <4>1. IsFiniteSet(Fibre(R, g[e]))
        BY <1>1, <2>4
      <4> HIDE DEF Fibre, R
      <4>2. QED
        BY <2>6, <4>1, FS_AddElement
    <3> HIDE DEF Fibre, R
    <3>2. QED
      BY <2>4, <2>5, <3>1
  <2>8. \A t \in T : t # g[e] => Sizes(s)[t] = Sizes(R)[t]
    <3> HIDE DEF Fibre, R
    <3>1. QED
      BY <2>5
  <2>9. TotalOver(Sizes(s), T) = TotalOver(Sizes(R), T) + Sizes(s)[g[e]] - Sizes(R)[g[e]]
    <3>1. \A t \in T : Sizes(s)[t] \in Int /\ Sizes(R)[t] \in Int
      BY <1>1, <1>4, <2>4
    <3> HIDE DEF Sizes, R
    <3>2. QED
      BY <2>4, <2>8, <3>1, TotalChanged
  <2>10. Sizes(R)[g[e]] \in Int /\ Cardinality(s) \in Int
    BY <1>1, <1>4, <2>4, FS_CardinalityType
  <2> HIDE DEF Sizes, R, W
  <2>11. QED
    BY <1>4, <2>2, <2>3, <2>7, <2>9, <2>10
<1>7. QED
  BY <1>5, <1>6

\* At most one element that is not idle, if only one element has changed and
\* the set of those that are not idle has no two elements.
LEMMA OneMoves ==
  ASSUME NEW S, NEW f, NEW g, NEW r \in S,
         \A a, b \in S : f[a] # "idle" /\ f[b] # "idle" => a = b,
         \A q \in S : q # r => g[q] = f[q],
         ~(Cardinality({q \in S : g[q] # "idle"}) > 1)
  PROVE  \A a, b \in S : g[a] # "idle" /\ g[b] # "idle" => a = b
<1> DEFINE B == {q \in S : g[q] # "idle"}
<1> SUFFICES ASSUME NEW a \in S, NEW b \in S, g[a] # "idle", g[b] # "idle", a # b PROVE FALSE
  OBVIOUS
<1>1. B = {a, b}
  OBVIOUS
<1>2. Cardinality({a}) = 1 /\ IsFiniteSet({a})
  BY FS_Singleton
<1>3. Cardinality({a} \cup {b}) = 2
  <2>1. Cardinality({a} \cup {b}) = IF b \in {a} THEN Cardinality({a}) ELSE Cardinality({a}) + 1
    BY <1>2, FS_AddElement
  <2>2. QED
    BY <1>2, <2>1
<1>4. {a} \cup {b} = B
  BY <1>1
<1>5. QED
  BY <1>3, <1>4

\* The sum over a set is that of its parts by the value of g.
LEMMA TotalOfParts ==
  ASSUME NEW S, IsFiniteSet(S), NEW f, \A x \in S : f[x] \in Int,
         NEW T, IsFiniteSet(T), NEW g, \A x \in S : g[x] \in T,
         NEW h, \A t \in T : h[t] = TotalOver(f, {x \in S : g[x] = t})
  PROVE  TotalOver(h, T) = TotalOver(f, S)
<1> DEFINE Fibre(s, t) == {x \in s : g[x] = t}
           Sums(s) == [t \in T |-> TotalOver(f, Fibre(s, t))]
           W == {s \in SUBSET S : TotalOver(Sums(s), T) # TotalOver(f, s)}
<1>1. ASSUME NEW s \in SUBSET S
      PROVE  IsFiniteSet(s) /\ \A t \in T : Sums(s)[t] \in Int /\ IsFiniteSet(Fibre(s, t))
  <2>1. IsFiniteSet(s)
    BY FS_Subset
  <2>2. \A t \in T : Fibre(s, t) \in SUBSET s /\ \A x \in Fibre(s, t) : f[x] \in Int
    OBVIOUS
  <2>3. \A t \in T : IsFiniteSet(Fibre(s, t)) /\ TotalOver(f, Fibre(s, t)) \in Int
    <3> HIDE DEF Fibre
    <3>1. QED
      BY <2>1, <2>2, FS_Subset, TotalInt
  <2>4. QED
    BY <2>1, <2>3
<1>2. TotalOver(h, T) = TotalOver(Sums(S), T)
  <2>1. \A t \in T : h[t] = Sums(S)[t]
    OBVIOUS
  <2> HIDE DEF Sums
  <2>2. QED
    BY <2>1, TotalSame
<1> SUFFICES ASSUME W # {} PROVE FALSE
  <2>1. S \in SUBSET S
    OBVIOUS
  <2>2. QED
    BY <1>2, <2>1
<1>3. PICK s \in W : \A v \in SUBSET s : v # s => v \notin W
  <2> HIDE DEF W
  <2>0. W \subseteq SUBSET S
    BY DEF W
  <2>1. QED
    BY <2>0, SmallestSubset
<1>4. s \in SUBSET S /\ TotalOver(Sums(s), T) # TotalOver(f, s)
  OBVIOUS
<1>5. CASE s = {}
  <2>1. \A t \in T : Sums(s)[t] = 0
    <3>1. \A t \in T : Fibre(s, t) = {}
      BY <1>5
    <3>2. TotalOver(f, {}) = 0
      BY FS_EmptySet, TotalZero
    <3> HIDE DEF Fibre
    <3>3. QED
      BY <3>1, <3>2
  <2>2. TotalOver(f, s) = 0
    BY <1>5, FS_EmptySet, TotalZero
  <2> HIDE DEF Sums, W
  <2>3. QED
    BY <1>4, <2>1, <2>2, TotalZero
<1>6. CASE s # {}
  <2> DEFINE e == Pick(s)
             R == s \ {e}
  <2>1. e \in s /\ R \in SUBSET s /\ R # s
    BY <1>6, PickIn
  <2>2. TotalOver(Sums(R), T) = TotalOver(f, R)
    <3>1. R \notin W /\ R \in SUBSET S
      BY <1>3, <1>4, <2>1
    <3> HIDE DEF Sums, R, Fibre
    <3>2. QED
      BY <3>1
  <2>3. TotalOver(f, s) = f[e] + TotalOver(f, R)
    BY <1>1, <1>4, <1>6, TotalUnfolds
  <2>4. g[e] \in T /\ R \in SUBSET S /\ f[e] \in Int
    BY <1>4, <2>1
  <2>5. \A t \in T : t # g[e] => Fibre(s, t) = Fibre(R, t)
    BY <2>1
  <2>6. e \in Fibre(s, g[e]) /\ Fibre(s, g[e]) \ {e} = Fibre(R, g[e]) /\ \A x \in Fibre(s, g[e]) : f[x] \in Int
    BY <1>4, <2>1
  <2>7. Sums(s)[g[e]] = f[e] + Sums(R)[g[e]]
    <3>1. TotalOver(f, Fibre(s, g[e])) = f[e] + TotalOver(f, Fibre(R, g[e]))
      <4>1. IsFiniteSet(Fibre(s, g[e]))
        BY <1>1, <1>4, <2>4
      <4> HIDE DEF Fibre, R
      <4>2. QED
        BY <2>6, <4>1, TotalWithout
    <3> HIDE DEF Fibre, R
    <3>2. QED
      BY <2>4, <3>1
  <2>8. \A t \in T : t # g[e] => Sums(s)[t] = Sums(R)[t]
    <3> HIDE DEF Fibre, R
    <3>1. QED
      BY <2>5
  <2>9. TotalOver(Sums(s), T) = TotalOver(Sums(R), T) + Sums(s)[g[e]] - Sums(R)[g[e]]
    <3>1. \A t \in T : Sums(s)[t] \in Int /\ Sums(R)[t] \in Int
      BY <1>1, <1>4, <2>4
    <3>2. g[e] \in T
      BY <2>4
    <3> DEFINE u == Sums(R)
               v == Sums(s)
               k == g[e]
    <3>3. k \in T /\ (\A t \in T : v[t] \in Int /\ u[t] \in Int) /\ (\A t \in T : t # k => v[t] = u[t])
      BY <2>8, <3>1, <3>2
    <3> HIDE DEF u, v, k
    <3>4. TotalOver(v, T) = TotalOver(u, T) + v[k] - u[k]
      BY <3>3, TotalChanged
    <3>5. QED
      BY <3>4 DEF u, v, k
  <2>10. Sums(R)[g[e]] \in Int /\ TotalOver(f, R) \in Int
    <3>1. IsFiniteSet(R) /\ \A x \in R : f[x] \in Int
      BY <1>1, <2>4
    <3> HIDE DEF R, Sums
    <3>2. TotalOver(f, R) \in Int
      BY <3>1, TotalInt
    <3>3. Sums(R)[g[e]] \in Int
      BY <1>1, <2>4
    <3>4. QED
      BY <3>2, <3>3
  <2> HIDE DEF Sums, R, W
  <2>11. QED
    BY <1>4, <2>2, <2>3, <2>4, <2>7, <2>9, <2>10
<1>7. QED
  BY <1>5, <1>6

\* Two sets with no common element add up.
LEMMA TotalOfUnion ==
  ASSUME NEW A, IsFiniteSet(A), NEW B, IsFiniteSet(B), A \cap B = {},
         NEW f, \A x \in A \cup B : f[x] \in Int
  PROVE  TotalOver(f, A \cup B) = TotalOver(f, A) + TotalOver(f, B)
<1> DEFINE S == A \cup B
           l == [x \in S |-> IF x \in A THEN f[x] ELSE 0]
           r == [x \in S |-> IF x \in A THEN 0 ELSE f[x]]
<1>1. IsFiniteSet(S)
  BY FS_Union
<1>2. /\ \A x \in S : l[x] \in Int /\ r[x] \in Int /\ f[x] = l[x] + r[x]
      /\ \A x \in S : x \notin A => l[x] = 0
      /\ \A x \in S : x \notin B => r[x] = 0
      /\ \A x \in A : l[x] = f[x]
      /\ \A x \in B : r[x] = f[x]
      /\ S \cap A = A /\ S \cap B = B
  OBVIOUS
<1> HIDE DEF l, r, S
<1>3. TotalOver(f, S) = TotalOver(l, S) + TotalOver(r, S)
  BY <1>1, <1>2, TotalOfSums
<1>4. TotalOver(l, S) = TotalOver(l, A) /\ TotalOver(r, S) = TotalOver(r, B)
  <2>1. TotalOver(l, S) = TotalOver(l, S \cap A)
    BY <1>1, <1>2, TotalOfPart
  <2>2. TotalOver(r, S) = TotalOver(r, S \cap B)
    BY <1>1, <1>2, TotalOfPart
  <2>3. QED
    BY <1>2, <2>1, <2>2
<1>5. TotalOver(l, A) = TotalOver(f, A) /\ TotalOver(r, B) = TotalOver(f, B)
  BY <1>2, TotalSame
<1>6. QED
  BY <1>3, <1>4, <1>5 DEF S

\* The sum over one element.
LEMMA TotalOfOne ==
  ASSUME NEW e, NEW f, f[e] \in Int
  PROVE  TotalOver(f, {e}) = f[e]
<1>1. IsFiniteSet({e}) /\ {e} \ {e} = {} /\ e \in {e} /\ \A x \in {e} : f[x] \in Int
  BY FS_Singleton
<1>2. TotalOver(f, {e}) = f[e] + TotalOver(f, {e} \ {e})
  BY <1>1, TotalWithout
<1> DEFINE r == {e} \ {e}
<1>3. r = {}
  OBVIOUS
<1>4. TotalOver(f, {}) = 0
  BY FS_EmptySet, TotalZero
<1>5. TotalOver(f, {e}) = f[e] + TotalOver(f, r)
  BY <1>2
<1> HIDE DEF r
<1>6. QED
  BY <1>3, <1>4, <1>5

\* Sets that correspond element by element have the same sum.
LEMMA TotalMatched ==
  ASSUME NEW S, IsFiniteSet(S), NEW f, \A x \in S : f[x] \in Int,
         NEW T, IsFiniteSet(T), NEW h, NEW g, \A x \in S : g[x] \in T /\ h[g[x]] = f[x],
         \A x, y \in S : g[x] = g[y] => x = y,
         \A t \in T : \E x \in S : g[x] = t
  PROVE  TotalOver(h, T) = TotalOver(f, S)
<1>1. ASSUME NEW t \in T
      PROVE  h[t] = TotalOver(f, {x \in S : g[x] = t})
  <2>1. PICK x \in S : g[x] = t
    OBVIOUS
  <2>2. {y \in S : g[y] = t} = {x}
    BY <2>1
  <2>3. TotalOver(f, {x}) = f[x]
    BY TotalOfOne
  <2>4. QED
    BY <2>1, <2>2, <2>3
<1>2. \A x \in S : g[x] \in T
  OBVIOUS
<1>3. \A k : (\A t \in T : k[t] = TotalOver(f, {x \in S : g[x] = t})) => TotalOver(k, T) = TotalOver(f, S)
  BY <1>2, TotalOfParts
<1>4. QED
  BY <1>1, <1>3

\* A sum of natural numbers is one, and each of them is at most the sum.
LEMMA TotalNat ==
  ASSUME NEW S, IsFiniteSet(S), NEW f, \A x \in S : f[x] \in Nat
  PROVE  TotalOver(f, S) \in Nat /\ \A x \in S : f[x] <= TotalOver(f, S)
<1> DEFINE W == {s \in SUBSET S : TotalOver(f, s) \notin Nat}
<1>1. W = {}
  <2> SUFFICES ASSUME W # {} PROVE FALSE
    OBVIOUS
  <2>1. PICK s \in W : \A v \in SUBSET s : v # s => v \notin W
    <3> HIDE DEF W
    <3>0. W \subseteq SUBSET S
      BY DEF W
    <3>1. QED
      BY <3>0, SmallestSubset
  <2>2. s \in SUBSET S /\ TotalOver(f, s) \notin Nat /\ IsFiniteSet(s)
    BY FS_Subset
  <2>3. TotalOver(f, s) = IF s = {} THEN 0 ELSE f[Pick(s)] + TotalOver(f, s \ {Pick(s)})
    BY <2>2, TotalUnfolds
  <2>4. s # {} => TotalOver(f, s \ {Pick(s)}) \in Nat /\ f[Pick(s)] \in Nat
    BY <2>1, <2>2, PickIn
  <2> HIDE DEF W
  <2>5. QED
    BY <2>2, <2>3, <2>4
<1>2. \A s \in SUBSET S : TotalOver(f, s) \in Nat
  BY <1>1
<1>3. ASSUME NEW x \in S
      PROVE  f[x] <= TotalOver(f, S)
  <2>1. TotalOver(f, S) = f[x] + TotalOver(f, S \ {x})
    BY TotalWithout
  <2>2. S \ {x} \in SUBSET S
    OBVIOUS
  <2>3. TotalOver(f, S \ {x}) \in Nat
    BY <1>2, <2>2
  <2>4. QED
    BY <2>1, <2>3
<1>4. QED
  BY <1>2, <1>3

\* The same, with the sums of the parts in one function.
LEMMA TotalByPart ==
  ASSUME NEW S, IsFiniteSet(S), NEW f, \A x \in S : f[x] \in Int,
         NEW T, IsFiniteSet(T), NEW g, \A x \in S : g[x] \in T
  PROVE  TotalOver([t \in T |-> TotalOver(f, {x \in S : g[x] = t})], T) = TotalOver(f, S)
<1> DEFINE h == [t \in T |-> TotalOver(f, {x \in S : g[x] = t})]
<1>1. \A t \in T : h[t] = TotalOver(f, {x \in S : g[x] = t})
  OBVIOUS
<1> HIDE DEF h
<1>2. TotalOver(h, T) = TotalOver(f, S)
  BY <1>1, TotalOfParts
<1>3. QED
  BY <1>2 DEF h

\* Quantities that correspond with the sign changed.
LEMMA TotalMirrored ==
  ASSUME NEW S, IsFiniteSet(S), NEW f, \A x \in S : f[x] \in Int,
         NEW T, IsFiniteSet(T), NEW h, NEW g, \A x \in S : g[x] \in T /\ h[g[x]] = -f[x],
         \A x, y \in S : g[x] = g[y] => x = y,
         \A t \in T : \E x \in S : g[x] = t
  PROVE  TotalOver(h, T) = -TotalOver(f, S)
<1> DEFINE n == [x \in S |-> -f[x]]
           z == [x \in S |-> 0]
<1>1. \A x \in S : /\ n[x] \in Int /\ z[x] = 0 /\ z[x] = n[x] + f[x]
                   /\ g[x] \in T /\ h[g[x]] = n[x]
  OBVIOUS
<1> HIDE DEF n, z
<1>2. TotalOver(h, T) = TotalOver(n, S)
  BY <1>1, TotalMatched
<1>3. TotalOver(z, S) = TotalOver(n, S) + TotalOver(f, S)
  BY <1>1, TotalOfSums
<1>4. TotalOver(z, S) = 0 /\ TotalOver(n, S) \in Int /\ TotalOver(f, S) \in Int
  BY <1>1, TotalZero, TotalInt
<1>5. QED
  BY <1>2, <1>3, <1>4

\* The smallest of some numbers.
LEMMA SmallestNumber ==
  ASSUME NEW n \in Nat, NEW T, T \subseteq 0 .. n, T # {}
  PROVE  \E k \in T : \A j \in T : k <= j
<1> DEFINE S == 0 .. n
           W == {u \in SUBSET S : \E k \in T : u = 0 .. k}
<1>1. IsFiniteSet(S)
  BY FS_Interval
<1>2. W \subseteq SUBSET S /\ W # {}
  <2>1. PICK k \in T : TRUE
    OBVIOUS
  <2>2. 0 .. k \in SUBSET S
    OBVIOUS
  <2>3. QED
    BY <2>2
<1>3. PICK u \in W : \A v \in SUBSET u : v # u => v \notin W
  <2> HIDE DEF W, S
  <2>1. QED
    BY <1>1, <1>2, SmallestSubset
<1>4. PICK k \in T : u = 0 .. k
  OBVIOUS
<1>5. ASSUME NEW j \in T, ~(k <= j)
      PROVE  FALSE
  <2>1. j \in Nat /\ k \in Nat /\ j < k /\ k <= n
    BY <1>5
  <2>2. 0 .. j \in SUBSET u /\ k \in u /\ k \notin 0 .. j
    BY <1>4, <2>1
  <2>3. 0 .. j \in W
    BY <2>1
  <2> HIDE DEF W, S
  <2>4. QED
    BY <1>3, <2>2, <2>3
<1>6. QED
  BY <1>5

\* A product grows with a factor.
LEMMA ProductGrows ==
  ASSUME NEW k \in Nat, NEW m \in Int, NEW n \in Int, m <= n
  PROVE  m * k <= n * k
<1>1. (n - m) \in Nat
  OBVIOUS
<1>2. (n - m) * k \in Nat
  BY <1>1
<1>3. (n - m) * k = n * k - m * k
  OBVIOUS
<1>4. m * k \in Int /\ n * k \in Int
  OBVIOUS
<1>5. QED
  BY <1>2, <1>3, <1>4
=============================================================================
