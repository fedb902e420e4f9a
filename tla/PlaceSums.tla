----------------------------- MODULE PlaceSums -----------------------------
(***************************************************************************)
(* How many places a set of requests wants, as a sum over the set: what    *)
(* the counters of Booking, EarlyDropper and FlowControl are compared with.*)
(* The fold of the community modules is defined by a function that takes   *)
(* the elements one by one; the lemmas show that the function exists, that *)
(* the order does not matter, and how the sum of one set compares with that*)
(* of another.  Each induction takes a smallest set, or (SmallestNumber,   *)
(* which AgentProofs uses too) a smallest number, for which a fact fails.  *)
(***************************************************************************)
EXTENDS Integers, FiniteSetsExt, FiniteSetTheorems, WellFoundedInduction, TLAPS

\* The places that the members of S want in area a; C[c] is what c wants.
Places(C, a, S) == MapThenSumSet(LAMBDA c : C[c][a], S)

\* The member that the fold takes next, and what it leaves.
First(s) == CHOOSE x \in s : TRUE
Without(s) == s \ {First(s)}

\* g adds up the places of every subset of S, as the fold does.
AddsUp(g, C, a, S) ==
    g = [s \in SUBSET S |->
            IF s = {} THEN 0 ELSE C[First(s)][a] + g[Without(s)]]

\* CHOOSE takes a member of a set that has one.
LEMMA FirstIn == \A s : s # {} => First(s) \in s
  BY DEF First

\* When some function adds up, the one that the fold chooses does.
LEMMA PlacesUnfold ==
    ASSUME NEW C, NEW a, NEW S, NEW g, AddsUp(g, C, a, S)
    PROVE  \E h : AddsUp(h, C, a, S) /\ Places(C, a, S) = h[S]
  BY DEF Places, MapThenSumSet, MapThenFoldSet, AddsUp, First, Without

\* A set of subsets of a finite set has a smallest one.
LEMMA SmallestSubset ==
    ASSUME NEW S, IsFiniteSet(S), NEW T, T \subseteq SUBSET S, T # {}
    PROVE  \E s \in T : \A t \in T : t \subseteq s => t = s
  <1>1. IsWellFoundedOn(StrictSubsetOrdering(S), SUBSET S)
    BY FS_StrictSubsetOrderingWellFounded, FS_FiniteSubsetsOfFinite
  <1>2. \E s \in T : \A t \in T : ~ (<<t, s>> \in StrictSubsetOrdering(S))
    BY <1>1, WFMin
  <1> QED
    BY <1>2 DEF StrictSubsetOrdering

\* Two ways to add up agree on the sets that both know.
LEMMA AddsUpUnique ==
    ASSUME NEW C, NEW a, NEW S, IsFiniteSet(S), NEW U, U \subseteq S,
           NEW g, AddsUp(g, C, a, S), NEW h, AddsUp(h, C, a, U)
    PROVE  \A s \in SUBSET U : g[s] = h[s]
  <1> DEFINE T == {s \in SUBSET U : g[s] # h[s]}
  <1> SUFFICES ASSUME T # {} PROVE FALSE
    OBVIOUS
  <1>1. IsFiniteSet(U)
    BY FS_Subset
  <1>2. T \subseteq SUBSET U
    OBVIOUS
  <1>3. \E s \in T : \A t \in T : t \subseteq s => t = s
    <2> HIDE DEF T
    <2> QED
      BY <1>1, <1>2, SmallestSubset
  <1>4. PICK s \in T : \A t \in T : t \subseteq s => t = s
    BY <1>3
  <1>5. s # {}
    BY DEF AddsUp
  <1>6. Without(s) \in SUBSET U /\ Without(s) \subseteq s /\ Without(s) # s
    BY <1>5, FirstIn DEF Without
  <1>7. g[Without(s)] = h[Without(s)]
    BY <1>4, <1>6
  <1>8. g[s] = C[First(s)][a] + g[Without(s)]
    BY <1>5 DEF AddsUp
  <1>9. h[s] = C[First(s)][a] + h[Without(s)]
    BY <1>5 DEF AddsUp
  <1> QED
    BY <1>7, <1>8, <1>9

\* A set of natural numbers up to N that is not empty has a smallest one.
LEMMA SmallestNumber ==
    ASSUME NEW N \in Nat, NEW T, T \subseteq 0 .. N, T # {}
    PROVE  \E n \in T : \A m \in T : n <= m
  <1> DEFINE I == {1 .. n : n \in T}
             All == 1 .. N
  <1>1. IsFiniteSet(All)
    BY FS_Interval
  <1>2. I \subseteq SUBSET All
    <2>1. \A n \in T : 1 .. n \subseteq 1 .. N
      OBVIOUS
    <2> QED
      BY <2>1
  <1>3. \E s \in I : \A t \in I : t \subseteq s => t = s
    <2>1. \E s : s \in I
      OBVIOUS
    <2> HIDE DEF I, All
    <2>2. I # {}
      BY <2>1
    <2> QED
      BY <1>1, <1>2, <2>2, SmallestSubset
  <1>4. PICK n \in T : \A t \in I : t \subseteq 1 .. n => t = 1 .. n
    BY <1>3
  <1>5. ASSUME NEW m \in T, m < n PROVE FALSE
    <2>1. 1 .. m \subseteq 1 .. n /\ n \in 1 .. n /\ n \notin 1 .. m
      BY <1>5
    <2> QED
      BY <1>4, <2>1
  <1> QED
    BY <1>5

\* g adds up the places of the subsets of S with n elements at most.
AddsUpTo(g, C, a, S, n) ==
    /\ g = [s \in SUBSET S |-> g[s]]
    /\ \A s \in SUBSET S : Cardinality(s) <= n =>
          g[s] = IF s = {} THEN 0 ELSE C[First(s)][a] + g[Without(s)]

\* Some function does, for one more element at a time.
LEMMA AddsUpExists ==
    ASSUME NEW C, NEW a, NEW S, IsFiniteSet(S)
    PROVE  \E g : AddsUp(g, C, a, S)
  <1>1. \A s \in SUBSET S : /\ IsFiniteSet(s) /\ Cardinality(s) \in Nat
                            /\ Cardinality(s) <= Cardinality(S)
                            /\ Cardinality(s) = 0 <=> s = {}
    BY FS_Subset, FS_CardinalityType, FS_EmptySet
  <1>2. \A s \in SUBSET S : s # {} => /\ Without(s) \in SUBSET S
                                      /\ Cardinality(Without(s)) = Cardinality(s) - 1
    BY <1>1, FirstIn, FS_RemoveElement DEF Without
  <1> DEFINE N == Cardinality(S)
             Fails == {n \in 0 .. N : ~ \E g : AddsUpTo(g, C, a, S, n)}
  <1>3. N \in Nat
    BY <1>1
  <1>4. Fails = {}
    <2> SUFFICES ASSUME Fails # {} PROVE FALSE
      OBVIOUS
    <2>1. Fails \subseteq 0 .. N
      OBVIOUS
    <2>2. \E n \in Fails : \A m \in Fails : n <= m
      <3> HIDE DEF Fails, N
      <3> QED
        BY <1>3, <2>1, SmallestNumber
    <2>3. PICK n \in Fails : \A m \in Fails : n <= m
      BY <2>2
    <2>4. n # 0
      <3>1. AddsUpTo([s \in SUBSET S |-> 0], C, a, S, 0)
        BY <1>1 DEF AddsUpTo
      <3> QED
        BY <3>1
    <2>5. \E g : AddsUpTo(g, C, a, S, n - 1)
      BY <1>3, <2>3, <2>4
    <2>6. PICK g : AddsUpTo(g, C, a, S, n - 1)
      BY <2>5
    <2> DEFINE h == [s \in SUBSET S |-> IF Cardinality(s) = n
                                        THEN C[First(s)][a] + g[Without(s)] ELSE g[s]]
    <2>7. AddsUpTo(h, C, a, S, n)
      <3>1. ASSUME NEW s \in SUBSET S, Cardinality(s) <= n
            PROVE  h[s] = IF s = {} THEN 0 ELSE C[First(s)][a] + h[Without(s)]
        <4>1. CASE Cardinality(s) = n
          <5>1. s # {} /\ Without(s) \in SUBSET S /\ Cardinality(Without(s)) # n
            BY <1>1, <1>2, <1>3, <2>4, <4>1
          <5> QED
            BY <4>1, <5>1
        <4>2. CASE Cardinality(s) # n
          <5>1. Cardinality(s) <= n - 1
            BY <1>1, <1>3, <3>1, <4>2
          <5>2. g[s] = IF s = {} THEN 0 ELSE C[First(s)][a] + g[Without(s)]
            BY <2>6, <5>1 DEF AddsUpTo
          <5>3. h[s] = g[s]
            BY <4>2
          <5>4. s # {} => Without(s) \in SUBSET S /\ Cardinality(Without(s)) # n
            BY <1>1, <1>2, <1>3, <5>1
          <5> QED
            BY <5>2, <5>3, <5>4
        <4> QED
          BY <4>1, <4>2
      <3> QED
        BY <3>1 DEF AddsUpTo
    <2> QED
      BY <2>7
  <1>5. PICK g : AddsUpTo(g, C, a, S, N)
    BY <1>3, <1>4
  <1>6. AddsUp(g, C, a, S)
    BY <1>1, <1>5 DEF AddsUp, AddsUpTo
  <1> QED
    BY <1>6

\* Places is computed by any function that adds up.
LEMMA PlacesAddsUp ==
    ASSUME NEW C, NEW a, NEW S, IsFiniteSet(S), NEW g, AddsUp(g, C, a, S),
           NEW U, U \subseteq S
    PROVE  Places(C, a, U) = g[U]
  <1>1. IsFiniteSet(U)
    BY FS_Subset
  <1>2. PICK f : AddsUp(f, C, a, U)
    BY <1>1, AddsUpExists
  <1>3. PICK h : AddsUp(h, C, a, U) /\ Places(C, a, U) = h[U]
    BY <1>2, PlacesUnfold
  <1>4. g[U] = h[U]
    BY <1>3, AddsUpUnique
  <1> QED
    BY <1>3, <1>4

\* An empty set wants no places.
LEMMA PlacesEmpty ==
    ASSUME NEW C, NEW a
    PROVE  Places(C, a, {}) = 0
  <1>1. IsFiniteSet({})
    BY FS_EmptySet
  <1>2. PICK g : AddsUp(g, C, a, {})
    BY <1>1, AddsUpExists
  <1>3. Places(C, a, {}) = g[{}]
    BY <1>1, <1>2, PlacesAddsUp
  <1>4. g[{}] = 0
    BY <1>2 DEF AddsUp
  <1> QED
    BY <1>3, <1>4

\* The recursion of the fold.
LEMMA PlacesFirst ==
    ASSUME NEW C, NEW a, NEW S, IsFiniteSet(S), S # {}
    PROVE  Places(C, a, S) = C[First(S)][a] + Places(C, a, Without(S))
  <1>1. PICK g : AddsUp(g, C, a, S)
    BY AddsUpExists
  <1>2. Without(S) \subseteq S
    BY DEF Without
  <1>3. Places(C, a, S) = g[S] /\ Places(C, a, Without(S)) = g[Without(S)]
    BY <1>1, <1>2, PlacesAddsUp
  <1>4. g[S] = C[First(S)][a] + g[Without(S)]
    BY <1>1 DEF AddsUp
  <1> QED
    BY <1>3, <1>4

\* A sum of natural numbers is one.
LEMMA PlacesType ==
    ASSUME NEW C, NEW a, NEW S, IsFiniteSet(S), \A c \in S : C[c][a] \in Nat
    PROVE  Places(C, a, S) \in Nat
  <1> DEFINE T == {s \in SUBSET S : Places(C, a, s) \notin Nat}
  <1> SUFFICES ASSUME T # {} PROVE FALSE
    OBVIOUS
  <1>1. T \subseteq SUBSET S
    OBVIOUS
  <1>2. \E s \in T : \A t \in T : t \subseteq s => t = s
    <2> HIDE DEF T
    <2> QED
      BY <1>1, SmallestSubset
  <1>3. PICK s \in T : \A t \in T : t \subseteq s => t = s
    BY <1>2
  <1>4. s # {}
    BY PlacesEmpty
  <1>5. First(s) \in s /\ Without(s) \subseteq s /\ Without(s) # s
    BY <1>4, FirstIn DEF Without
  <1>6. Places(C, a, Without(s)) \in Nat /\ C[First(s)][a] \in Nat
    BY <1>3, <1>5
  <1>7. IsFiniteSet(s)
    BY FS_Subset
  <1>8. Places(C, a, s) = C[First(s)][a] + Places(C, a, Without(s))
    BY <1>4, <1>7, PlacesFirst
  <1> QED
    BY <1>6, <1>8

\* Any element may be taken out first: the order of the fold does not matter.
LEMMA PlacesTakeOut ==
    ASSUME NEW C, NEW a, NEW S, IsFiniteSet(S), \A c \in S : C[c][a] \in Nat, NEW x \in S
    PROVE  Places(C, a, S) = Places(C, a, S \ {x}) + C[x][a]
  <1> DEFINE T == {s \in SUBSET S : \E y \in s :
                      Places(C, a, s) # Places(C, a, s \ {y}) + C[y][a]}
  <1> SUFFICES ASSUME T # {} PROVE FALSE
    OBVIOUS
  <1>1. T \subseteq SUBSET S
    OBVIOUS
  <1>2. \E s \in T : \A t \in T : t \subseteq s => t = s
    <2> HIDE DEF T
    <2> QED
      BY <1>1, SmallestSubset
  <1>3. PICK s \in T : \A t \in T : t \subseteq s => t = s
    BY <1>2
  <1>4. PICK y \in s : Places(C, a, s) # Places(C, a, s \ {y}) + C[y][a]
    BY <1>3
  <1> DEFINE f == First(s)
  <1>5. f \in s /\ s \in SUBSET S
    BY <1>1, <1>3, <1>4, FirstIn
  <1>6. Without(s) = s \ {f}
    BY DEF Without
  <1>7. \A u \in SUBSET S : IsFiniteSet(u) /\ Places(C, a, u) \in Nat
    BY FS_Subset, PlacesType
  <1>8. Places(C, a, s) = C[f][a] + Places(C, a, s \ {f})
    <2> HIDE DEF T, f
    <2>1. IsFiniteSet(s) /\ s # {}
      BY <1>5, <1>7
    <2>2. Places(C, a, s) = C[First(s)][a] + Places(C, a, Without(s))
      BY <2>1, PlacesFirst
    <2> QED
      BY <1>6, <2>2 DEF f
  <1> HIDE DEF f
  <1>9. C[f][a] \in Nat /\ C[y][a] \in Nat /\ Places(C, a, s \ {f}) \in Nat
    BY <1>5, <1>7
  <1>10. y # f
    <2>1. C[f][a] + Places(C, a, s \ {f}) = Places(C, a, s \ {f}) + C[f][a]
      BY <1>9
    <2> QED
      BY <1>4, <1>8, <2>1
  <1>11. s \ {f} \in SUBSET S /\ s \ {f} # s /\ s \ {y} \in SUBSET S /\ s \ {y} # s
    BY <1>5
  <1>12. s \ {f} \notin T /\ s \ {y} \notin T
    BY <1>3, <1>11
  <1>13. /\ Places(C, a, s \ {f}) = Places(C, a, (s \ {f}) \ {y}) + C[y][a]
         /\ Places(C, a, s \ {y}) = Places(C, a, (s \ {y}) \ {f}) + C[f][a]
    BY <1>5, <1>10, <1>11, <1>12
  <1>14. (s \ {f}) \ {y} = (s \ {y}) \ {f}
    OBVIOUS
  <1>15. Places(C, a, (s \ {y}) \ {f}) \in Nat
    BY <1>5, <1>7
  <1> HIDE DEF T
  <1>16. Places(C, a, s) = Places(C, a, s \ {y}) + C[y][a]
    <2> DEFINE k == C[f][a]
               m == C[y][a]
               p == Places(C, a, (s \ {y}) \ {f})
    <2>1. /\ Places(C, a, s) = k + (p + m)
          /\ Places(C, a, s \ {y}) = p + k
      BY <1>8, <1>13, <1>14
    <2>2. k \in Nat /\ m \in Nat /\ p \in Nat
      BY <1>9, <1>15
    <2> HIDE DEF k, m, p
    <2>3. k + (p + m) = (p + k) + m
      BY <2>2
    <2>4. m = C[y][a]
      BY DEF m
    <2> QED
      BY <2>1, <2>3, <2>4
  <1> QED
    BY <1>4, <1>16

\* One more element.
LEMMA PlacesPutIn ==
    ASSUME NEW C, NEW a, NEW S, IsFiniteSet(S), NEW x, x \notin S,
           \A c \in S \cup {x} : C[c][a] \in Nat
    PROVE  Places(C, a, S \cup {x}) = Places(C, a, S) + C[x][a]
  <1>1. IsFiniteSet(S \cup {x}) /\ (S \cup {x}) \ {x} = S
    BY FS_AddElement
  <1> QED
    BY <1>1, PlacesTakeOut

\* A sum looks at the members of its set only.
LEMMA PlacesSame ==
    ASSUME NEW C, NEW D, NEW a, NEW S, IsFiniteSet(S), \A c \in S : C[c][a] = D[c][a]
    PROVE  Places(C, a, S) = Places(D, a, S)
  <1>1. PICK g : AddsUp(g, C, a, S)
    BY AddsUpExists
  <1>2. \A s \in SUBSET S : s # {} => C[First(s)][a] = D[First(s)][a]
    BY FirstIn
  <1>3. [s \in SUBSET S |-> IF s = {} THEN 0 ELSE C[First(s)][a] + g[Without(s)]]
        = [s \in SUBSET S |-> IF s = {} THEN 0 ELSE D[First(s)][a] + g[Without(s)]]
    BY <1>2
  <1>4. AddsUp(g, D, a, S)
    BY <1>1, <1>3 DEF AddsUp
  <1>5. Places(C, a, S) = g[S] /\ Places(D, a, S) = g[S]
    BY <1>1, <1>4, PlacesAddsUp
  <1> QED
    BY <1>5

\* Two sets that have no member in common.
LEMMA PlacesUnion ==
    ASSUME NEW C, NEW a, NEW S, IsFiniteSet(S), NEW T, IsFiniteSet(T), S \cap T = {},
           \A c \in S \cup T : C[c][a] \in Nat
    PROVE  Places(C, a, S \cup T) = Places(C, a, S) + Places(C, a, T)
  <1> DEFINE Bad == {t \in SUBSET T : Places(C, a, S \cup t) # Places(C, a, S) + Places(C, a, t)}
  <1> SUFFICES ASSUME Bad # {} PROVE FALSE
    OBVIOUS
  <1>1. \E t \in Bad : \A u \in Bad : u \subseteq t => u = t
    <2>1. Bad \subseteq SUBSET T
      OBVIOUS
    <2> HIDE DEF Bad
    <2> QED
      BY <2>1, SmallestSubset
  <1>2. PICK t \in Bad : \A u \in Bad : u \subseteq t => u = t
    BY <1>1
  <1>3. t \subseteq T /\ IsFiniteSet(t)
    BY FS_Subset
  <1>4. Places(C, a, S) \in Nat
    BY PlacesType
  <1>5. t # {}
    <2>1. Places(C, a, {}) = 0
      BY PlacesEmpty
    <2>2. S \cup {} = S
      OBVIOUS
    <2>3. Places(C, a, S \cup {}) = Places(C, a, S)
      BY <2>2, Zenon
    <2>4. ASSUME t = {} PROVE Places(C, a, S \cup t) = Places(C, a, S) + Places(C, a, t)
      <3>1. Places(C, a, S \cup t) = Places(C, a, S) /\ Places(C, a, t) = 0
        BY <2>1, <2>3, <2>4, Zenon
      <3> QED
        BY <1>4, <3>1
    <2> QED
      BY <1>2, <2>4
  <1> DEFINE x == First(t)
             w == Without(t)
  <1>6. x \in t /\ w \subseteq t /\ w # t /\ t = w \cup {x} /\ x \notin w
    BY <1>5, FirstIn DEF Without
  <1> HIDE DEF Bad
  <1>7. Places(C, a, t) = C[x][a] + Places(C, a, w)
    BY <1>3, <1>5, PlacesFirst
  <1>8. w \notin Bad
    BY <1>2, <1>6
  <1> HIDE DEF x, w
  <1>9. Places(C, a, S \cup w) = Places(C, a, S) + Places(C, a, w)
    BY <1>3, <1>6, <1>8 DEF Bad
  <1>10. IsFiniteSet(w) /\ IsFiniteSet(S \cup w)
    BY <1>3, <1>6, FS_Subset, FS_Union
  <1>11. Places(C, a, w) \in Nat /\ C[x][a] \in Nat
    BY <1>3, <1>6, <1>10, PlacesType
  <1>12. Places(C, a, (S \cup w) \cup {x}) = Places(C, a, S \cup w) + C[x][a]
    <2>1. x \notin S \cup w /\ \A c \in (S \cup w) \cup {x} : C[c][a] \in Nat
      BY <1>3, <1>6
    <2> QED
      BY <1>10, <2>1, PlacesPutIn
  <1>13. (S \cup w) \cup {x} = S \cup t
    BY <1>6
  <1>14. Places(C, a, S \cup t) = Places(C, a, S) + Places(C, a, t)
    <2>1. Places(C, a, (S \cup w) \cup {x}) = Places(C, a, S \cup t)
      BY <1>13, Zenon
    <2> QED
      BY <1>4, <1>7, <1>9, <1>11, <1>12, <2>1
  <1> QED
    BY <1>2, <1>14 DEF Bad

\* A part wants no more than the whole.
LEMMA PlacesSubset ==
    ASSUME NEW C, NEW a, NEW S, IsFiniteSet(S), \A c \in S : C[c][a] \in Nat,
           NEW U, U \subseteq S
    PROVE  Places(C, a, U) <= Places(C, a, S)
  <1>1. IsFiniteSet(U) /\ IsFiniteSet(S \ U) /\ S = U \cup (S \ U) /\ U \cap (S \ U) = {}
    BY FS_Subset, FS_Difference
  <1>2. Places(C, a, U) \in Nat /\ Places(C, a, S \ U) \in Nat
    BY <1>1, PlacesType
  <1>3. Places(C, a, U \cup (S \ U)) = Places(C, a, U) + Places(C, a, S \ U)
    BY <1>1, PlacesUnion
  <1>4. Places(C, a, U \cup (S \ U)) = Places(C, a, S)
    BY <1>1, Zenon
  <1> QED
    BY <1>2, <1>3, <1>4

\* Every member of S has a member of T of its own that wants as much.
LEMMA PlacesEmbed ==
    ASSUME NEW C, NEW D, NEW a, NEW S, IsFiniteSet(S), NEW T, IsFiniteSet(T),
           \A c \in S : C[c][a] \in Nat, \A c \in T : D[c][a] \in Nat,
           NEW f, \A c \in S : f[c] \in T /\ C[c][a] = D[f[c]][a],
           \A c, d \in S : f[c] = f[d] => c = d
    PROVE  Places(C, a, S) <= Places(D, a, T)
  <1> DEFINE Img(s) == {f[c] : c \in s}
             Bad == {s \in SUBSET S : Places(C, a, s) # Places(D, a, Img(s))}
  <1>1. \A s \in SUBSET S : Img(s) \subseteq T /\ IsFiniteSet(s) /\ IsFiniteSet(Img(s))
    <2>1. \A s \in SUBSET S : Img(s) \subseteq T
      OBVIOUS
    <2> HIDE DEF Img
    <2> QED
      BY <2>1, FS_Subset
  <1>2. ASSUME Bad # {} PROVE FALSE
    <2>1. \E s \in Bad : \A u \in Bad : u \subseteq s => u = s
      <3>1. Bad \subseteq SUBSET S
        OBVIOUS
      <3> HIDE DEF Bad
      <3> QED
        BY <1>2, <3>1, SmallestSubset
    <2>2. PICK s \in Bad : \A u \in Bad : u \subseteq s => u = s
      BY <2>1
    <2>3. s \in SUBSET S
      OBVIOUS
    <2>4. s # {}
      <3>1. Img({}) = {}
        OBVIOUS
      <3> HIDE DEF Img
      <3> QED
        BY <3>1, PlacesEmpty
    <2> DEFINE x == First(s)
               w == Without(s)
    <2>5. x \in s /\ w \subseteq s /\ w # s /\ s = w \cup {x} /\ x \notin w
      BY <2>4, FirstIn DEF Without
    <2> HIDE DEF Bad
    <2>6. Places(C, a, s) = C[x][a] + Places(C, a, w)
      BY <1>1, <2>3, <2>4, PlacesFirst
    <2>7. w \notin Bad /\ w \in SUBSET S
      BY <2>2, <2>3, <2>5
    <2> HIDE DEF x, w
    <2>8. Places(C, a, w) = Places(D, a, Img(w))
      BY <2>7 DEF Bad
    <2>9. Img(s) = Img(w) \cup {f[x]} /\ f[x] \notin Img(w)
      BY <2>3, <2>5
    <2>10. \A c \in Img(w) \cup {f[x]} : D[c][a] \in Nat
      BY <1>1, <2>3, <2>5, <2>7
    <2>11. IsFiniteSet(Img(w)) /\ C[x][a] = D[f[x]][a] /\ C[x][a] \in Nat
           /\ Places(C, a, w) \in Nat
      <3>1. IsFiniteSet(Img(w)) /\ IsFiniteSet(w) /\ \A c \in w : C[c][a] \in Nat
        BY <1>1, <2>7
      <3>2. Places(C, a, w) \in Nat
        BY <3>1, PlacesType
      <3> QED
        BY <2>3, <2>5, <3>1, <3>2
    <2> HIDE DEF Img
    <2>12. Places(D, a, Img(w) \cup {f[x]}) = Places(D, a, Img(w)) + D[f[x]][a]
      BY <2>9, <2>10, <2>11, PlacesPutIn
    <2>13. Places(C, a, s) = Places(D, a, Img(s))
      BY <2>6, <2>8, <2>9, <2>11, <2>12
    <2> QED
      BY <2>2, <2>13 DEF Bad
  <1>3. Places(C, a, S) = Places(D, a, Img(S))
    BY <1>2
  <1>4. Img(S) \subseteq T
    BY <1>1
  <1> HIDE DEF Img
  <1>5. Places(D, a, Img(S)) <= Places(D, a, T)
    BY <1>4, PlacesSubset
  <1> QED
    BY <1>3, <1>5

\* The sum when one element joins a set, or leaves it.
LEMMA PlacesJoin ==
    ASSUME NEW C, NEW a, NEW S, IsFiniteSet(S), NEW x, x \notin S,
           \A c \in S \cup {x} : C[c][a] \in Nat, NEW T, T = S \cup {x}
    PROVE  /\ IsFiniteSet(T) /\ Places(C, a, S) \in Nat /\ Places(C, a, T) \in Nat
           /\ Places(C, a, T) = Places(C, a, S) + C[x][a]
  <1>1. Places(C, a, S \cup {x}) = Places(C, a, S) + C[x][a]
    BY PlacesPutIn
  <1>2. Places(C, a, T) = Places(C, a, S \cup {x})
    BY Zenon
  <1>3. Places(C, a, S) \in Nat /\ C[x][a] \in Nat
    BY PlacesType
  <1>4. IsFiniteSet(T)
    BY FS_AddElement
  <1> QED
    BY <1>1, <1>2, <1>3, <1>4

LEMMA PlacesLeave ==
    ASSUME NEW C, NEW a, NEW S, IsFiniteSet(S), NEW x \in S,
           \A c \in S : C[c][a] \in Nat, NEW T, T = S \ {x}
    PROVE  /\ IsFiniteSet(T) /\ Places(C, a, S) \in Nat /\ Places(C, a, T) \in Nat
           /\ Places(C, a, S) = Places(C, a, T) + C[x][a]
  <1>1. Places(C, a, S) = Places(C, a, S \ {x}) + C[x][a]
    BY PlacesTakeOut
  <1>2. Places(C, a, T) = Places(C, a, S \ {x})
    BY Zenon
  <1>3. IsFiniteSet(T) /\ \A c \in T : C[c][a] \in Nat
    BY FS_RemoveElement
  <1>4. Places(C, a, S) \in Nat /\ Places(C, a, T) \in Nat
    BY <1>3, PlacesType
  <1> QED
    BY <1>1, <1>2, <1>3, <1>4

\* Two sets that may have members in common.
LEMMA PlacesBound ==
    ASSUME NEW C, NEW a, NEW S, IsFiniteSet(S), NEW T, IsFiniteSet(T),
           \A c \in S \cup T : C[c][a] \in Nat
    PROVE  Places(C, a, S \cup T) <= Places(C, a, S) + Places(C, a, T)
  <1> DEFINE R == T \ S
  <1>1. S \cup T = S \cup R /\ S \cap R = {} /\ R \subseteq T
    OBVIOUS
  <1>2. IsFiniteSet(R) /\ \A c \in S \cup R : C[c][a] \in Nat
    BY FS_Difference
  <1> HIDE DEF R
  <1>3. Places(C, a, S \cup R) = Places(C, a, S) + Places(C, a, R)
    BY <1>1, <1>2, PlacesUnion
  <1>4. Places(C, a, R) <= Places(C, a, T)
    BY <1>1, PlacesSubset
  <1>5. Places(C, a, S \cup T) = Places(C, a, S \cup R)
    BY <1>1, Zenon
  <1>6. Places(C, a, S) \in Nat /\ Places(C, a, R) \in Nat /\ Places(C, a, T) \in Nat
    BY <1>2, PlacesType
  <1> QED
    BY <1>3, <1>4, <1>5, <1>6
=============================================================================
