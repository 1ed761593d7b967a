-------------------------- MODULE GameShrinkProofs --------------------------
(***************************************************************************)
(* Proofs about the refinement loop of GameShrink, for every deck whose    *)
(* ids fit, the 52-card deck among them: no id ever wraps around, a pass   *)
(* only splits, the partition returned loses nothing, no partition that    *)
(* loses nothing is coarser, and the textbook iteration ends in it.        *)
(***************************************************************************)
EXTENDS GameShrinkRefine, SumTheorems, FunctionTheorems, TLAPS

-----------------------------------------------------------------------------
(* Sorted arrays as multisets *)

\* f is a function on D.
Over(f, D) == f = [d \in D |-> f[d]]

\* The arguments of two functions can be matched one by one, value for value.
Matched(D, E, f, g) == \E b \in Bijection(D, E) : \A d \in D : f[d] = g[b[d]]

\* Equal multisets: the arguments can be matched one by one, value for value.
LEMMA BagsMatch ==
  ASSUME NEW D, NEW E, IsFiniteSet(D), IsFiniteSet(E),
         NEW f, Over(f, D), NEW g, Over(g, E),
         SortedBag(f) = SortedBag(g)
  PROVE  Matched(D, E, f, g)
<1> DEFINE F(v) == {d \in D : f[d] = v}
           G(v) == {e \in E : g[e] = v}
           VF   == {f[d] : d \in D}
           VG   == {g[e] : e \in E}
<1>1. DOMAIN f = D /\ DOMAIN g = E
  BY DEF Over
<1>2. /\ SortedBag(f) = [v \in VF |-> Cardinality(F(v))]
      /\ SortedBag(g) = [v \in VG |-> Cardinality(G(v))]
  <2>1. SortedBag(f) = [v \in {f[d] : d \in D} |-> Cardinality({d \in D : f[d] = v})]
    BY <1>1 DEF SortedBag
  <2>2. SortedBag(g) = [v \in {g[e] : e \in E} |-> Cardinality({e \in E : g[e] = v})]
    BY <1>1 DEF SortedBag
  <2> QED
    BY <2>1, <2>2
<1>3. VF = VG /\ \A v \in VF : Cardinality(F(v)) = Cardinality(G(v))
  <2> HIDE DEF VF, VG, F, G
  <2>1. [v \in VF |-> Cardinality(F(v))] = [v \in VG |-> Cardinality(G(v))]
    BY <1>2
  <2> QED
    BY <2>1
<1>4. ASSUME NEW v \in VF
      PROVE  Bijection(F(v), G(v)) # {}
  <2>1. IsFiniteSet(F(v)) /\ IsFiniteSet(G(v))
    BY FS_Subset
  <2> HIDE DEF F, G, VF
  <2> QED
    BY <1>3, <2>1, FS_SameCardinalityBij DEF ExistsBijection
<1> DEFINE bij(v) == CHOOSE b \in Bijection(F(v), G(v)) : TRUE
           b      == [d \in D |-> bij(f[d])[d]]
<1>5. ASSUME NEW v \in VF
      PROVE  bij(v) \in Bijection(F(v), G(v))
  <2> HIDE DEF F, G, VF
  <2> QED
    BY <1>4
<1>6. ASSUME NEW v \in VF
      PROVE  /\ \A d \in F(v) : bij(v)[d] \in G(v)
             /\ \A d, c \in F(v) : bij(v)[d] = bij(v)[c] => d = c
             /\ \A e \in G(v) : \E d \in F(v) : bij(v)[d] = e
  <2> DEFINE h == bij(v)
             X == F(v)
             Y == G(v)
  <2>1. h \in Bijection(X, Y)
    BY <1>5
  <2> HIDE DEF h, X, Y
  <2>2. h \in [X -> Y] /\ (\A d, c \in X : h[d] = h[c] => d = c)
        /\ (\A e \in Y : \E d \in X : h[d] = e)
    BY <2>1, Fun_BijectionProperties
  <2>3. \A d \in X : h[d] \in Y
    BY <2>2
  <2> QED
    BY <2>2, <2>3, Zenon DEF h, X, Y
<1>7. \A d \in D : f[d] \in VF /\ d \in F(f[d]) /\ b[d] = bij(f[d])[d]
  BY Zenon
<1>8. \A d \in D : b[d] \in E /\ g[b[d]] = f[d]
  <2> TAKE d \in D
  <2>1. b[d] \in G(f[d])
    BY <1>6, <1>7, Zenon
  <2> HIDE DEF b
  <2> QED
    BY <2>1
<1>9. \A d, c \in D : b[d] = b[c] => d = c
  <2> SUFFICES ASSUME NEW d \in D, NEW c \in D, b[d] = b[c] PROVE d = c
    OBVIOUS
  <2>1. f[d] = f[c]
    BY <1>8, Zenon
  <2>2. f[d] \in VF /\ d \in F(f[d]) /\ c \in F(f[d])
    BY <1>7, <2>1
  <2>3. bij(f[d])[d] = bij(f[d])[c]
    BY <1>7, <2>1, Zenon
  <2> HIDE DEF F, b, bij, VF
  <2> QED
    BY <1>6, <2>2, <2>3, Zenon
<1>10. \A e \in E : \E d \in D : b[d] = e
  <2> TAKE e \in E
  <2>1. g[e] \in VF /\ e \in G(g[e])
    BY <1>3
  <2>2. PICK d \in F(g[e]) : bij(g[e])[d] = e
    <3> HIDE DEF F, G, VF, bij
    <3> QED
      BY <1>6, <2>1, Zenon
  <2>3. d \in D /\ f[d] = g[e]
    BY <2>2
  <2> HIDE DEF F, G, VF, bij
  <2> QED
    BY <2>2, <2>3
<1>11. b \in Bijection(D, E)
  <2>1. b \in [D -> E]
    <3> HIDE DEF bij
    <3> QED
      BY <1>8
  <2> HIDE DEF b
  <2> QED
    BY <2>1, <1>9, <1>10, Fun_IsBij
<1> HIDE DEF b
<1> QED
  BY <1>8, <1>11 DEF Matched

\* And arguments that can be matched make equal multisets.
LEMMA MatchingBags ==
  ASSUME NEW D, NEW E, IsFiniteSet(D), IsFiniteSet(E),
         NEW f, Over(f, D), NEW g, Over(g, E),
         Matched(D, E, f, g)
  PROVE  SortedBag(f) = SortedBag(g)
<1> DEFINE F(v) == {d \in D : f[d] = v}
           G(v) == {e \in E : g[e] = v}
           VF   == {f[d] : d \in D}
           VG   == {g[e] : e \in E}
<1>1. DOMAIN f = D /\ DOMAIN g = E
  BY DEF Over
<1>2. /\ SortedBag(f) = [v \in VF |-> Cardinality(F(v))]
      /\ SortedBag(g) = [v \in VG |-> Cardinality(G(v))]
  <2>1. SortedBag(f) = [v \in {f[d] : d \in D} |-> Cardinality({d \in D : f[d] = v})]
    BY <1>1 DEF SortedBag
  <2>2. SortedBag(g) = [v \in {g[e] : e \in E} |-> Cardinality({e \in E : g[e] = v})]
    BY <1>1 DEF SortedBag
  <2> QED
    BY <2>1, <2>2
<1> PICK b \in Bijection(D, E) : \A d \in D : f[d] = g[b[d]]
  BY DEF Matched
<1>3. /\ b \in [D -> E]
      /\ \A d, c \in D : b[d] = b[c] => d = c
      /\ \A e \in E : \E d \in D : b[d] = e
  BY Fun_BijectionProperties
<1>4. VF = VG
  <2>1. VF \subseteq VG
    BY <1>3
  <2>2. VG \subseteq VF
    BY <1>3
  <2> QED
    BY <2>1, <2>2
<1>5. ASSUME NEW v \in VF
      PROVE  Cardinality(F(v)) = Cardinality(G(v))
  <2> DEFINE bv == [d \in F(v) |-> b[d]]
  <2>1. bv \in [F(v) -> G(v)]
    BY <1>3
  <2>2. \A d, c \in F(v) : bv[d] = bv[c] => d = c
    BY <1>3
  <2>3. \A e \in G(v) : \E d \in F(v) : bv[d] = e
    BY <1>3
  <2>4. IsFiniteSet(F(v))
    BY FS_Subset
  <2> HIDE DEF bv, F, G
  <2>5. bv \in Bijection(F(v), G(v))
    BY <2>1, <2>2, <2>3, Fun_IsBij
  <2> QED
    BY <2>4, <2>5, FS_Bijection DEF ExistsBijection
<1> HIDE DEF F, G, VF, VG
<1> QED
  BY <1>2, <1>4, <1>5

ClassesOf(T, a) == {a[t] : t \in T}

\* A partition that only splits another has no fewer classes, and if it has as
\* many it is the other.
LEMMA Settles ==
  ASSUME NEW T, IsFiniteSet(T), NEW a, NEW b, \A t, u \in T : a[t] = a[u] => b[t] = b[u]
  PROVE  /\ IsFiniteSet(ClassesOf(T, a))
         /\ Cardinality(ClassesOf(T, b)) <= Cardinality(ClassesOf(T, a))
         /\ Cardinality(ClassesOf(T, a)) = Cardinality(ClassesOf(T, b)) =>
              \A t, u \in T : b[t] = b[u] => a[t] = a[u]
<1> DEFINE A == {a[t] : t \in T}
           B == {b[t] : t \in T}
           g == [t \in T |-> a[t]]
           f == [x \in A |-> b[CHOOSE t \in T : a[t] = x]]
<1>1. IsFiniteSet(A)
  <2>1. g \in [T -> A] /\ \A x \in A : \E t \in T : g[t] = x
    OBVIOUS
  <2> HIDE DEF g, A
  <2>2. g \in Surjection(T, A)
    BY <2>1, Fun_IsSurj
  <2> QED
    BY <2>2, FS_Surjection
<1>2. \A t \in T : a[t] \in A /\ b[t] \in B /\ f[a[t]] = b[t]
  <2> TAKE t \in T
  <2> DEFINE s == CHOOSE s \in T : a[s] = a[t]
  <2>1. s \in T /\ a[s] = a[t]
    OBVIOUS
  <2>2. b[s] = b[t]
    BY <2>1
  <2>3. a[t] \in A /\ b[t] \in B
    OBVIOUS
  <2>4. f[a[t]] = b[s]
    BY <2>3
  <2> QED
    BY <2>2, <2>3, <2>4
<1>3. f \in [A -> B]
  BY <1>2
<1>4. ASSUME NEW y \in B
      PROVE  \E x \in A : f[x] = y
  <2>1. PICK t \in T : y = b[t]
    OBVIOUS
  <2>2. a[t] \in A /\ f[a[t]] = y
    BY <1>2, <2>1
  <2> HIDE DEF A, f
  <2> QED
    BY <2>2
<1> HIDE DEF A, B, f
<1>5. f \in Surjection(A, B)
  BY <1>3, <1>4, Fun_IsSurj
<1>6. Cardinality(B) <= Cardinality(A)
  BY <1>1, <1>5, FS_Surjection
<1>7. ASSUME Cardinality(A) = Cardinality(B)
      PROVE  \A t, u \in T : b[t] = b[u] => a[t] = a[u]
  <2>1. f \in Injection(A, B)
    BY <1>1, <1>5, <1>7, FS_Surjection
  <2>2. \A x, y \in A : f[x] = f[y] => x = y
    BY <2>1, Fun_InjectionProperties
  <2> QED
    BY <1>2, <2>2
<1> QED
  BY <1>1, <1>6, <1>7 DEF A, B, ClassesOf

-----------------------------------------------------------------------------
(* Interning *)

\* Computing a function once changes nothing.
LEMMA TableIs == \A f : Table(f) = f
  BY DEF Table

\* Finitely many tuples, told apart by their indices.
Listed(T) ==
  /\ IsFiniteSet(T)
  /\ \A t \in T : TupleIndex(t) \in Nat
  /\ \A t, u \in T : TupleIndex(t) = TupleIndex(u) => t = u

\* Two tuples get the same id when they have the same key; and then only, if
\* there are fewer keys than ids: the ids number the places at which new keys
\* are met, and wrap around only after kIdRange of them.
LEMMA InternIs ==
  ASSUME NEW T, Listed(T), NEW S, NEW keys \in [T -> S]
  PROVE  /\ intern(keys) \in [T -> Nat]
         /\ \A t, u \in T : keys[t] = keys[u] => intern(keys)[t] = intern(keys)[u]
         /\ KeyCount(keys) < kIdRange =>
              \A t, u \in T : intern(keys)[t] = intern(keys)[u] => keys[t] = keys[u]
<1> DEFINE Places(t) == {TupleIndex(x) : x \in {u \in T : keys[u] = keys[t]}}
           first     == [t \in T |-> MinOf(Places(t))]
           met       == {first[t] : t \in T}
           Before(t) == {m \in met : m < first[t]}
<1>0. /\ IsFiniteSet(T) /\ \A t \in T : TupleIndex(t) \in Nat
      /\ \A t, u \in T : TupleIndex(t) = TupleIndex(u) => t = u
  BY DEF Listed
<1>1. DOMAIN keys = T
  OBVIOUS
<1>2. first \in [T -> {MinOf(Places(t)) : t \in T}]
  OBVIOUS
<1>3. intern(keys) = [t \in T |-> next_id(Cardinality(Before(t)))]
  <2> DEFINE f == Table([t \in DOMAIN keys |-> first_met(keys, keys[t])])
             m == {f[t] : t \in DOMAIN keys}
             ids == [t \in DOMAIN keys |-> next_id(Cardinality({n \in m : n < f[t]}))]
  <2>1. intern(keys) = ids
    <3>1. intern(keys) = Table(ids)
      BY ZenonT(30) DEF intern
    <3> HIDE DEF ids
    <3> QED
      BY <3>1, TableIs
  <2>2. f = first
    BY <1>1, TableIs DEF first_met
  <2>3. m = met
    BY <1>1, <2>2
  <2> HIDE DEF f, m, first, met
  <2> QED
    BY <1>1, <2>1, <2>2, <2>3
<1>4. ASSUME NEW t \in T
      PROVE  /\ first[t] \in Nat
             /\ \E u \in T : keys[u] = keys[t] /\ first[t] = TupleIndex(u)
  <2> DEFINE P == Places(t)
  <2>1. P \subseteq Nat /\ P # {}
    BY <1>0
  <2>2. first[t] = MinOf(P)
    OBVIOUS
  <2>3. \A n \in P : \E u \in T : keys[u] = keys[t] /\ n = TupleIndex(u)
    OBVIOUS
  <2> HIDE DEF P, first
  <2>4. MinOf(P) \in P
    BY <2>1, Least DEF MinOf
  <2> QED
    BY <2>1, <2>2, <2>3, <2>4
<1>5. ASSUME NEW t \in T, NEW u \in T, keys[t] = keys[u]
      PROVE  first[t] = first[u]
  <2>1. Places(t) = Places(u)
    BY <1>5
  <2> HIDE DEF Places
  <2> QED
    BY <2>1
<1>6. IsFiniteSet(met)
  <2>1. first \in [T -> met] /\ \A m \in met : \E t \in T : first[t] = m
    OBVIOUS
  <2> HIDE DEF first, met
  <2>2. first \in Surjection(T, met)
    BY <2>1, Fun_IsSurj
  <2> QED
    BY <1>0, <2>2, FS_Surjection
<1>7. \A t \in T : first[t] \in met /\ first[t] \in Nat
  BY <1>4
<1>8. met \subseteq Nat
  BY <1>4
<1> HIDE DEF first, met, Places
<1>9. ASSUME NEW t \in T
      PROVE  IsFiniteSet(Before(t)) /\ Cardinality(Before(t)) \in Nat
  BY <1>6, FS_Subset, FS_CardinalityType
<1>10. ASSUME NEW t \in T, NEW u \in T, first[t] < first[u]
       PROVE  Cardinality(Before(t)) < Cardinality(Before(u))
  <2>1. ASSUME NEW m \in met, m < first[t]
        PROVE  m < first[u]
    BY <1>7, <1>8, <1>10, <2>1
  <2>2. first[t] \in Before(u) /\ ~(first[t] \in Before(t))
    BY <1>7, <1>10
  <2> DEFINE X == Before(t)
             Y == Before(u)
  <2>3. X \subseteq Y /\ X # Y /\ IsFiniteSet(Y)
    BY <2>1, <2>2, <1>9, Zenon
  <2> HIDE DEF X, Y
  <2>4. Cardinality(X) <= Cardinality(Y) /\ Cardinality(X) # Cardinality(Y)
        /\ Cardinality(X) \in Nat /\ Cardinality(Y) \in Nat
    BY <2>3, FS_Subset, FS_CardinalityType
  <2> QED
    BY <2>4 DEF X, Y
<1>11. ASSUME NEW t \in T, NEW u \in T, first[t] = first[u]
       PROVE  keys[t] = keys[u]
  BY <1>0, <1>4, <1>11
<1>12. ASSUME NEW t \in T, NEW u \in T, Cardinality(Before(t)) = Cardinality(Before(u))
       PROVE  first[t] = first[u]
  <2> HIDE DEF Before
  <2> QED
    BY <1>7, <1>9, <1>10, <1>12
<1>13. \A t \in T : intern(keys)[t] = next_id(Cardinality(Before(t)))
  BY <1>3
<1>14. \A t, u \in T : first[t] = first[u] => Cardinality(Before(t)) = Cardinality(Before(u))
  OBVIOUS
<1>15. \A k \in Nat : next_id(k) \in Nat /\ (k < kIdRange => next_id(k) = k)
  BY IdRangeAssumption DEF next_id
<1>16. intern(keys) \in [T -> Nat]
  BY <1>3, <1>9, <1>15
<1>17. \A t \in T : Cardinality(Before(t)) <= Cardinality(met)
  BY <1>6, FS_Subset
<1> HIDE DEF Before
<1>18. Cardinality(met) <= KeyCount(keys) /\ KeyCount(keys) \in Nat
  <2>1. /\ IsFiniteSet(ClassesOf(T, keys))
        /\ Cardinality(ClassesOf(T, first)) <= Cardinality(ClassesOf(T, keys))
    BY <1>0, <1>5, Settles
  <2>2. ClassesOf(T, keys) = {keys[t] : t \in DOMAIN keys} /\ ClassesOf(T, first) = met
    BY <1>1 DEF ClassesOf, met
  <2> QED
    BY <2>1, <2>2, FS_CardinalityType DEF KeyCount
<1>19. ASSUME KeyCount(keys) < kIdRange, NEW t \in T
       PROVE  next_id(Cardinality(Before(t))) = Cardinality(Before(t))
  <2>1. Cardinality(met) \in Nat
    BY <1>6, FS_CardinalityType
  <2>2. Cardinality(Before(t)) < kIdRange
    BY <1>9, <1>17, <1>18, <1>19, <2>1, IdRangeAssumption
  <2> QED
    BY <1>9, <1>15, <2>2
<1> QED
  BY <1>5, <1>11, <1>12, <1>13, <1>14, <1>16, <1>19

-----------------------------------------------------------------------------
(* The cards a player sees *)

Some == 0 .. kCardCount - 1

\* One card more.
LEMMA AppendedCard ==
  ASSUME NEW a, NEW b, NEW c
  PROVE  Append(<<a>>, c) = <<a, c>> /\ Append(<<a, b>>, c) = <<a, b, c>>
<1> DEFINE S == {a, b, c}
           x == Append(<<a>>, c)
           y == Append(<<a, b>>, c)
<1>1. x \in Seq(S) /\ Len(x) = 2 /\ x[1] = a /\ x[2] = c
  <2>1. <<a>> \in Seq(S) /\ Len(<<a>>) = 1 /\ <<a>>[1] = a
    OBVIOUS
  <2> QED
    BY <2>1
<1>2. y \in Seq(S) /\ Len(y) = 3 /\ y[1] = a /\ y[2] = b /\ y[3] = c
  <2>1. <<a, b>> \in Seq(S) /\ Len(<<a, b>>) = 2 /\ <<a, b>>[1] = a /\ <<a, b>>[2] = b
    OBVIOUS
  <2> QED
    BY <2>1
<1> HIDE DEF x, y
<1>3. x = <<a, c>> /\ y = <<a, b, c>>
  BY <1>1, <1>2
<1> QED
  BY <1>3 DEF x, y

LEMMA HoleIs ==
  ASSUME NEW cards \in SUBSET Some, NEW t \in Holes(cards)
  PROVE  /\ t = <<t[1]>> /\ t[1] \in cards /\ Len(t) = 1 /\ Cards(t) = {t[1]}
         /\ t[1] \in Some /\ TupleIndex(t) = t[1]
         /\ \A c \in cards \ Cards(t) : Append(t, c) = <<t[1], c>> /\ Append(t, c) \in Pairs(cards)
<1>1. PICK h \in cards : t = <<h>>
  BY DEF Holes
<1>2. t = <<t[1]>> /\ t[1] \in cards /\ Len(t) = 1 /\ t \in Seq(cards) /\ DOMAIN t = {1}
  BY <1>1
<1>3. Cards(t) = {t[1]}
  BY <1>2 DEF Cards
<1>4. ASSUME NEW c \in cards \ Cards(t)
      PROVE  Append(t, c) = <<t[1], c>> /\ Append(t, c) \in Pairs(cards)
  <2>1. Append(<<t[1]>>, c) = <<t[1], c>>
    BY AppendedCard
  <2>2. <<t[1], c>> \in Pairs(cards)
    BY <1>2, <1>3 DEF Pairs
  <2> QED
    BY <1>2, <2>1, <2>2, Zenon
<1> QED
  BY <1>2, <1>3, <1>4 DEF TupleIndex

LEMMA PairIs ==
  ASSUME NEW cards \in SUBSET Some, NEW t \in Pairs(cards)
  PROVE  /\ t = <<t[1], t[2]>> /\ t[1] \in cards /\ t[2] \in cards /\ t[1] # t[2]
         /\ Len(t) = 2 /\ Cards(t) = {t[1], t[2]} /\ <<t[1]>> \in Holes(cards)
         /\ t[1] \in Some /\ t[2] \in Some /\ TupleIndex(t) = t[1] * 52 + t[2]
         /\ \A c \in cards \ Cards(t) :
              Append(t, c) = <<t[1], t[2], c>> /\ Append(t, c) \in Triples(cards)
<1>1. /\ t = <<t[1], t[2]>> /\ t[1] \in cards /\ t[2] \in cards /\ t[1] # t[2]
      /\ Len(t) = 2 /\ t \in Seq(cards) /\ DOMAIN t = {1, 2}
  <2>1. PICK a \in cards, b \in cards : t = <<a, b>> /\ a # b
    BY DEF Pairs
  <2>2. DOMAIN <<a, b>> = {1, 2}
    OBVIOUS
  <2> QED
    BY <2>1, <2>2
<1>2. Cards(t) = {t[1], t[2]}
  BY <1>1 DEF Cards
<1>3. ASSUME NEW c \in cards \ Cards(t)
      PROVE  Append(t, c) = <<t[1], t[2], c>> /\ Append(t, c) \in Triples(cards)
  <2>1. Append(<<t[1], t[2]>>, c) = <<t[1], t[2], c>>
    BY AppendedCard
  <2>2. <<t[1], t[2], c>> \in Triples(cards)
    BY <1>1, <1>2 DEF Triples
  <2> QED
    BY <1>1, <2>1, <2>2, Zenon
<1>4. TupleIndex(t) = t[1] * 52 + t[2]
  BY <1>1 DEF TupleIndex, kCardCount, kRankCount, kSuitCount
<1> QED
  BY <1>1, <1>2, <1>3, <1>4 DEF Holes

LEMMA TripleIs ==
  ASSUME NEW cards \in SUBSET Some, NEW t \in Triples(cards)
  PROVE  /\ t = <<t[1], t[2], t[3]>>
         /\ t[1] \in cards /\ t[2] \in cards /\ t[3] \in cards
         /\ t[1] # t[2] /\ t[1] # t[3] /\ t[2] # t[3]
         /\ Len(t) = 3 /\ Cards(t) = {t[1], t[2], t[3]} /\ <<t[1], t[2]>> \in Pairs(cards)
         /\ t[1] \in Some /\ t[2] \in Some /\ t[3] \in Some
         /\ TupleIndex(t) = (t[1] * 52 + t[2]) * 52 + t[3]
         /\ \A c \in cards \ Cards(t) : <<c, t[2], t[3]>> \in Triples(cards)
<1>1. /\ t = <<t[1], t[2], t[3]>> /\ t[1] \in cards /\ t[2] \in cards /\ t[3] \in cards
      /\ t[1] # t[2] /\ t[1] # t[3] /\ t[2] # t[3]
      /\ Len(t) = 3 /\ t \in Seq(cards) /\ DOMAIN t = {1, 2, 3}
  <2>1. PICK a \in cards, b \in cards, c \in cards : t = <<a, b, c>> /\ a # b /\ a # c /\ b # c
    BY DEF Triples
  <2>2. DOMAIN <<a, b, c>> = {1, 2, 3}
    OBVIOUS
  <2> QED
    BY <2>1, <2>2
<1>2. Cards(t) = {t[1], t[2], t[3]}
  BY <1>1 DEF Cards
<1>3. ASSUME NEW c \in cards \ Cards(t)
      PROVE  <<c, t[2], t[3]>> \in Triples(cards)
  BY <1>1, <1>2 DEF Triples
<1>4. TupleIndex(t) = (t[1] * 52 + t[2]) * 52 + t[3]
  BY <1>1 DEF TupleIndex, kCardCount, kRankCount, kSuitCount
<1> QED
  BY <1>1, <1>2, <1>3, <1>4 DEF Pairs

\* The tuples of each round are finitely many, and their indices differ.
LEMMA RoundsListed ==
  ASSUME NEW cards \in SUBSET Some
  PROVE  /\ IsFiniteSet(cards)
         /\ Listed(Holes(cards)) /\ Listed(Pairs(cards)) /\ Listed(Triples(cards))
<1>1. IsFiniteSet(cards)
  <2>1. IsFiniteSet(0 .. 51) /\ Some = 0 .. 51
    <3>1. 0 \in Int /\ 51 \in Int
      OBVIOUS
    <3>2. IsFiniteSet(0 .. 51)
      BY <3>1, FS_Interval, Zenon
    <3> QED
      BY <3>2 DEF Some, kCardCount, kRankCount, kSuitCount
  <2> QED
    BY <2>1, FS_Subset
<1>2. \A c \in Some : c \in Nat /\ c < 52
  BY DEF Some, kCardCount, kRankCount, kSuitCount
<1>3. IsFiniteSet(Holes(cards))
  <2> DEFINE f == [c \in cards |-> <<c>>]
  <2>1. f \in Surjection(cards, Holes(cards))
    <3>1. f \in [cards -> Holes(cards)] /\ \A t \in Holes(cards) : \E c \in cards : f[c] = t
      BY DEF Holes
    <3> HIDE DEF f
    <3> QED
      BY <3>1, Fun_IsSurj
  <2> HIDE DEF f
  <2> QED
    BY <1>1, <2>1, FS_Surjection
<1>4. IsFiniteSet(Pairs(cards))
  BY <1>1, FS_Product, FS_Subset DEF Pairs
<1>5. IsFiniteSet(Triples(cards))
  <2>1. IsFiniteSet((cards \X cards) \X cards)
    BY <1>1, FS_Product
  <2> DEFINE f == [p \in (cards \X cards) \X cards |-> <<p[1][1], p[1][2], p[2]>>]
             T == cards \X cards \X cards
  <2>2. f \in Surjection((cards \X cards) \X cards, T)
    <3>1. f \in [(cards \X cards) \X cards -> T]
      OBVIOUS
    <3>2. ASSUME NEW t \in T
          PROVE  \E p \in (cards \X cards) \X cards : f[p] = t
      <4>1. << <<t[1], t[2]>>, t[3]>> \in (cards \X cards) \X cards
        OBVIOUS
      <4>2. f[<< <<t[1], t[2]>>, t[3]>>] = t
        BY <4>1
      <4> QED
        BY <4>1, <4>2
    <3> HIDE DEF f
    <3> QED
      BY <3>1, <3>2, Fun_IsSurj
  <2>3. IsFiniteSet(T)
    <3> HIDE DEF f, T
    <3> QED
      BY <2>1, <2>2, FS_Surjection
  <2> QED
    BY <2>3, FS_Subset DEF Triples
<1>6. ASSUME NEW t \in Holes(cards), NEW u \in Holes(cards)
      PROVE  TupleIndex(t) \in Nat /\ (TupleIndex(t) = TupleIndex(u) => t = u)
  BY <1>2, HoleIs
<1>7. ASSUME NEW t \in Pairs(cards), NEW u \in Pairs(cards)
      PROVE  TupleIndex(t) \in Nat /\ (TupleIndex(t) = TupleIndex(u) => t = u)
  <2>1. \A a, b, c, d \in Nat : b < 52 /\ d < 52 /\ a * 52 + b = c * 52 + d => a = c /\ b = d
    OBVIOUS
  <2>2. /\ t = <<t[1], t[2]>> /\ t[1] \in Some /\ t[2] \in Some /\ TupleIndex(t) = t[1] * 52 + t[2]
        /\ u = <<u[1], u[2]>> /\ u[1] \in Some /\ u[2] \in Some /\ TupleIndex(u) = u[1] * 52 + u[2]
    BY PairIs, Zenon
  <2>3. TupleIndex(t) = TupleIndex(u) => t[1] = u[1] /\ t[2] = u[2]
    BY <1>2, <2>1, <2>2
  <2>4. TupleIndex(t) \in Nat
    BY <1>2, <2>2
  <2> QED
    BY <2>2, <2>3, <2>4
<1>8. ASSUME NEW t \in Triples(cards), NEW u \in Triples(cards)
      PROVE  TupleIndex(t) \in Nat /\ (TupleIndex(t) = TupleIndex(u) => t = u)
  <2>1. \A a, b, c, d \in Nat : b < 52 /\ d < 52 /\ a * 52 + b = c * 52 + d => a = c /\ b = d
    OBVIOUS
  <2>2. /\ t = <<t[1], t[2], t[3]>> /\ t[1] \in Some /\ t[2] \in Some /\ t[3] \in Some
        /\ TupleIndex(t) = (t[1] * 52 + t[2]) * 52 + t[3]
        /\ u = <<u[1], u[2], u[3]>> /\ u[1] \in Some /\ u[2] \in Some /\ u[3] \in Some
        /\ TupleIndex(u) = (u[1] * 52 + u[2]) * 52 + u[3]
    BY TripleIs, Zenon
  <2>3. t[1] * 52 + t[2] \in Nat /\ u[1] * 52 + u[2] \in Nat
    BY <1>2, <2>2
  <2>4. TupleIndex(t) = TupleIndex(u) => t[3] = u[3] /\ t[1] * 52 + t[2] = u[1] * 52 + u[2]
    BY <1>2, <2>1, <2>2, <2>3
  <2>5. TupleIndex(t) = TupleIndex(u) => t[1] = u[1] /\ t[2] = u[2]
    BY <1>2, <2>1, <2>2, <2>4
  <2>6. TupleIndex(t) \in Nat
    BY <1>2, <2>2, <2>3
  <2> QED
    BY <2>2, <2>4, <2>5, <2>6
<1> QED
  BY <1>1, <1>3, <1>4, <1>5, <1>6, <1>7, <1>8 DEF Listed

-----------------------------------------------------------------------------
(* Keys and consequences, told by matching *)

LEMMA SameBags ==
  ASSUME NEW D, NEW E, IsFiniteSet(D), IsFiniteSet(E),
         NEW f, Over(f, D), NEW g, Over(g, E)
  PROVE  SortedBag(f) = SortedBag(g) <=> Matched(D, E, f, g)
<1>1. SortedBag(f) = SortedBag(g) => Matched(D, E, f, g)
  BY BagsMatch
<1>2. Matched(D, E, f, g) => SortedBag(f) = SortedBag(g)
  BY MatchingBags
<1> QED
  BY <1>1, <1>2

\* What the cards of a tuple leave over.
Left(cards, t)    == cards \ Cards(t)
Against(t, theirs) == <<theirs, t[2], t[3]>>

\* Two tuples of which every card left over for one has a match for the other.
Matching(cards, t, u) == Bijection(Left(cards, t), Left(cards, u))

\* What is left over can be matched so that it leads to the same ids, ...
SameNext(cards, ids, t, u) ==
  \E b \in Matching(cards, t, u) : \A d \in Left(cards, t) :
    ids[Append(t, d)] = ids[Append(u, b[d])]

\* ... or, as the opponent's cards, to the same outcome (against the same class).
SameDuels(cards, class, rank, opp, t, u) ==
  \E b \in Matching(cards, t, u) : \A d \in Left(cards, t) :
    /\ opp => class[Against(t, d)] = class[Against(u, b[d])]
    /\ Outcome(rank[t], rank[Against(t, d)]) = Outcome(rank[u], rank[Against(u, b[d])])

LEMMA MatchingIs ==
  ASSUME NEW cards, NEW t, NEW u, NEW b \in Matching(cards, t, u), NEW d \in Left(cards, t)
  PROVE  b[d] \in Left(cards, u)
<1>1. b \in [Left(cards, t) -> Left(cards, u)]
  BY Fun_BijectionProperties DEF Matching
<1> QED
  BY <1>1

LEMMA LeafKeyTells ==
  ASSUME NEW cards \in SUBSET Some, NEW p, NEW rank, NEW opp, NEW t, NEW u
  PROVE  LeafKey(cards, p, rank, opp, t) = LeafKey(cards, p, rank, opp, u)
           <=> p.class[t] = p.class[u] /\ SameDuels(cards, p.class, rank, opp, t, u)
<1> DEFINE f == [d \in Left(cards, t) |->
                   << IF opp THEN p.class[Against(t, d)] ELSE 0,
                      Outcome(rank[t], rank[Against(t, d)]) >>]
           g == [d \in Left(cards, u) |->
                   << IF opp THEN p.class[Against(u, d)] ELSE 0,
                      Outcome(rank[u], rank[Against(u, d)]) >>]
           D == Left(cards, t)
           E == Left(cards, u)
<1>1. /\ LeafKey(cards, p, rank, opp, t) = <<p.class[t], SortedBag(f)>>
      /\ LeafKey(cards, p, rank, opp, u) = <<p.class[u], SortedBag(g)>>
  BY DEF LeafKey, Left, Against
<1>2. IsFiniteSet(D) /\ IsFiniteSet(E)
  BY RoundsListed, FS_Difference DEF Left
<1>3. Over(f, D) /\ Over(g, E)
  BY DEF Over
<1>4. ASSUME NEW b \in Matching(cards, t, u), NEW d \in D
      PROVE  f[d] = g[b[d]] <=>
               /\ opp => p.class[Against(t, d)] = p.class[Against(u, b[d])]
               /\ Outcome(rank[t], rank[Against(t, d)]) = Outcome(rank[u], rank[Against(u, b[d])])
  <2>1. b[d] \in E
    BY MatchingIs
  <2> QED
    BY <2>1
<1> HIDE DEF f, g, D, E
<1>5. SortedBag(f) = SortedBag(g) <=> Matched(D, E, f, g)
  BY <1>2, <1>3, SameBags
<1>6. SortedBag(f) = SortedBag(g)
        <=> \E b \in Matching(cards, t, u) : \A d \in Left(cards, t) : f[d] = g[b[d]]
  BY <1>5 DEF Matching, Matched, D, E
<1> QED
  BY <1>1, <1>4, <1>6 DEF D, SameDuels

LEMMA BagKeyTells ==
  ASSUME NEW cards \in SUBSET Some, NEW p, NEW ids, NEW t, NEW u
  PROVE  BagKey(cards, p, ids, t) = BagKey(cards, p, ids, u)
           <=> p.class[t] = p.class[u] /\ SameNext(cards, ids, t, u)
<1> DEFINE f == [d \in Left(cards, t) |-> ids[Append(t, d)]]
           g == [d \in Left(cards, u) |-> ids[Append(u, d)]]
           D == Left(cards, t)
           E == Left(cards, u)
<1>1. /\ BagKey(cards, p, ids, t) = <<p.class[t], SortedBag(f)>>
      /\ BagKey(cards, p, ids, u) = <<p.class[u], SortedBag(g)>>
  BY DEF BagKey, Left
<1>2. IsFiniteSet(D) /\ IsFiniteSet(E)
  BY RoundsListed, FS_Difference DEF Left
<1>3. Over(f, D) /\ Over(g, E)
  BY DEF Over
<1>4. ASSUME NEW b \in Matching(cards, t, u), NEW d \in D
      PROVE  f[d] = g[b[d]] <=> ids[Append(t, d)] = ids[Append(u, b[d])]
  <2>1. b[d] \in E
    BY MatchingIs
  <2> QED
    BY <2>1
<1> HIDE DEF f, g, D, E
<1>5. SortedBag(f) = SortedBag(g) <=> Matched(D, E, f, g)
  BY <1>2, <1>3, SameBags
<1>6. SortedBag(f) = SortedBag(g)
        <=> \E b \in Matching(cards, t, u) : \A d \in Left(cards, t) : f[d] = g[b[d]]
  BY <1>5 DEF Matching, Matched, D, E
<1> QED
  BY <1>1, <1>4, <1>6 DEF D, SameNext

\* Cards lead to the same when what is left over can be matched, and leads to
\* the same classes.
LEMMA ConsequencesNext ==
  ASSUME deck \in SUBSET Some, NEW class, NEW t, NEW u, Len(t) # 3, Len(u) # 3
  PROVE  Consequences(class, t) = Consequences(class, u) <=> SameNext(deck, class, t, u)
<1> DEFINE D == Left(deck, t)
           E == Left(deck, u)
           f == [d \in Left(deck, t) |-> class[Append(t, d)]]
           g == [d \in Left(deck, u) |-> class[Append(u, d)]]
<1>1. IsFiniteSet(D) /\ IsFiniteSet(E)
  BY RoundsListed, FS_Difference DEF Left
<1>2. Consequences(class, t) = SortedBag(f) /\ Consequences(class, u) = SortedBag(g)
  BY DEF Consequences, Left
<1>3. Over(f, D) /\ Over(g, E)
  BY DEF Over
<1>4. ASSUME NEW b \in Matching(deck, t, u), NEW d \in Left(deck, t)
      PROVE  f[d] = g[b[d]] <=> class[Append(t, d)] = class[Append(u, b[d])]
  <2>1. b[d] \in Left(deck, u)
    BY MatchingIs
  <2> QED
    BY <2>1
<1> HIDE DEF f, g, D, E
<1>5. SortedBag(f) = SortedBag(g) <=> Matched(D, E, f, g)
  BY <1>1, <1>3, SameBags
<1>6. SortedBag(f) = SortedBag(g)
        <=> \E b \in Matching(deck, t, u) : \A d \in Left(deck, t) : f[d] = g[b[d]]
  BY <1>5 DEF Matching, Matched, D, E
<1> QED
  BY <1>2, <1>4, <1>6 DEF SameNext

LEMMA ConsequencesDuels ==
  ASSUME deck \in SUBSET Some, NEW class, NEW t \in Triples(deck), NEW u \in Triples(deck)
  PROVE  Consequences(class, t) = Consequences(class, u)
           <=> SameDuels(deck, class, showdown_ranks(deck), TRUE, t, u)
<1> DEFINE D == Left(deck, t)
           E == Left(deck, u)
           rank == showdown_ranks(deck)
           f == [d \in Left(deck, t) |->
                   << class[Against(t, d)],
                      Outcome(evaluate_3card(t), evaluate_3card(Against(t, d))) >>]
           g == [d \in Left(deck, u) |->
                   << class[Against(u, d)],
                      Outcome(evaluate_3card(u), evaluate_3card(Against(u, d))) >>]
<1>1. IsFiniteSet(D) /\ IsFiniteSet(E)
  BY RoundsListed, FS_Difference DEF Left
<1>2. Consequences(class, t) = SortedBag(f) /\ Consequences(class, u) = SortedBag(g)
  BY TripleIs DEF Consequences, Left, Against
<1>3. Over(f, D) /\ Over(g, E)
  BY DEF Over
<1>4. \A x \in Triples(deck) : rank[x] = evaluate_3card(x)
  BY TableIs DEF showdown_ranks
<1>5. /\ \A d \in Left(deck, t) : Against(t, d) \in Triples(deck)
      /\ \A d \in Left(deck, u) : Against(u, d) \in Triples(deck)
  BY TripleIs DEF Left, Against
<1>6. ASSUME NEW b \in Matching(deck, t, u), NEW d \in Left(deck, t)
      PROVE  f[d] = g[b[d]] <=>
               /\ class[Against(t, d)] = class[Against(u, b[d])]
               /\ Outcome(rank[t], rank[Against(t, d)]) = Outcome(rank[u], rank[Against(u, b[d])])
  <2>1. b[d] \in Left(deck, u)
    BY MatchingIs
  <2>2. /\ rank[t] = evaluate_3card(t) /\ rank[Against(t, d)] = evaluate_3card(Against(t, d))
        /\ rank[u] = evaluate_3card(u) /\ rank[Against(u, b[d])] = evaluate_3card(Against(u, b[d]))
    BY <1>4, <1>5, <2>1
  <2> HIDE DEF rank
  <2> QED
    BY <2>1, <2>2
<1> HIDE DEF f, g, D, E, rank
<1>7. SortedBag(f) = SortedBag(g) <=> Matched(D, E, f, g)
  BY <1>1, <1>3, SameBags
<1>8. SortedBag(f) = SortedBag(g)
        <=> \E b \in Matching(deck, t, u) : \A d \in Left(deck, t) : f[d] = g[b[d]]
  BY <1>7 DEF Matching, Matched, D, E
<1>9. SortedBag(f) = SortedBag(g) <=> SameDuels(deck, class, rank, TRUE, t, u)
  BY <1>6, <1>8 DEF SameDuels
<1> QED
  BY <1>2, <1>9 DEF rank

-----------------------------------------------------------------------------
(* Interchanging suits *)

\* The card when suit 0 and another suit are interchanged.
Swap(s, card) ==
  IF card_suit(card) = 0 THEN card_rank(card) * kSuitCount + s
  ELSE IF card_suit(card) = s THEN card_rank(card) * kSuitCount
  ELSE card
Swap1(s, t) == <<Swap(s, t[1])>>
Swap2(s, t) == <<Swap(s, t[1]), Swap(s, t[2])>>
Swap3(s, t) == <<Swap(s, t[1]), Swap(s, t[2]), Swap(s, t[3])>>

LEMMA SwapIs ==
  ASSUME NEW s \in Suit, NEW c \in Some
  PROVE  /\ Swap(s, c) \in Some /\ card_rank(Swap(s, c)) = card_rank(c)
         /\ Swap(s, c) = card_rank(c) * 4 + card_suit(Swap(s, c))
         /\ card_suit(Swap(s, c)) = IF card_suit(c) = 0 THEN s
                                    ELSE IF card_suit(c) = s THEN 0 ELSE card_suit(c)
         /\ card_suit(c) \in Suit /\ card_suit(Swap(s, c)) \in Suit
         /\ Swap(s, Swap(s, c)) = c
<1>1. /\ s \in 0 .. 3 /\ c \in 0 .. 51 /\ Suit = 0 .. 3 /\ Some = 0 .. 51
      /\ \A x : card_rank(x) = x \div 4 /\ card_suit(x) = x % 4
  BY DEF Suit, Some, card_rank, card_suit, kSuitCount, kCardCount, kRankCount
<1>2. PICK r \in 0 .. 12, q \in 0 .. 3 : c = r * 4 + q
  <2>1. c \div 4 \in 0 .. 12 /\ c % 4 \in 0 .. 3 /\ c = (c \div 4) * 4 + (c % 4)
    BY <1>1
  <2> QED
    BY <2>1
<1>3. \A x \in 0 .. 12, y \in 0 .. 3 :
        card_rank(x * 4 + y) = x /\ card_suit(x * 4 + y) = y /\ x * 4 + y \in Some
  BY <1>1
<1>4. card_rank(c) = r /\ card_suit(c) = q
  BY <1>2, <1>3
<1> DEFINE y == IF q = 0 THEN s ELSE IF q = s THEN 0 ELSE q
<1>5. y \in 0 .. 3 /\ Swap(s, c) = r * 4 + y
  BY <1>1, <1>2, <1>4 DEF Swap, kSuitCount
<1>6. card_rank(Swap(s, c)) = r /\ card_suit(Swap(s, c)) = y /\ Swap(s, c) \in Some
  BY <1>3, <1>5
<1>7. Swap(s, Swap(s, c)) = c
  <2>1. Swap(s, Swap(s, c)) = IF y = 0 THEN r * 4 + s ELSE IF y = s THEN r * 4 ELSE r * 4 + y
    BY <1>5, <1>6 DEF Swap, kSuitCount
  <2> QED
    BY <1>1, <1>2, <2>1
<1> QED
  BY <1>1, <1>4, <1>5, <1>6, <1>7

\* Where suits are interchangeable, so are the tuples of each round.
LEMMA SwapStays ==
  ASSUME NEW cards \in SUBSET Some, AllSuits(cards), NEW s \in Suit
  PROVE  /\ \A c \in cards : Swap(s, c) \in cards
         /\ \A c, d \in cards : Swap(s, c) = Swap(s, d) => c = d
         /\ \A t \in Holes(cards) : Swap1(s, t) \in Holes(cards)
         /\ \A t \in Pairs(cards) : Swap2(s, t) \in Pairs(cards)
         /\ \A t \in Triples(cards) : Swap3(s, t) \in Triples(cards)
<1>1. ASSUME NEW c \in cards
      PROVE  Swap(s, c) \in cards
  <2>1. Swap(s, c) = card_rank(c) * 4 + card_suit(Swap(s, c)) /\ card_suit(Swap(s, c)) \in Suit
    BY SwapIs
  <2> QED
    BY <2>1 DEF AllSuits, kSuitCount
<1>2. ASSUME NEW c \in cards, NEW d \in cards, Swap(s, c) = Swap(s, d)
      PROVE  c = d
  <2>1. Swap(s, Swap(s, c)) = c /\ Swap(s, Swap(s, d)) = d
    BY SwapIs
  <2> QED
    BY <1>2, <2>1
<1>3. ASSUME NEW t \in Holes(cards)
      PROVE  Swap1(s, t) \in Holes(cards)
  <2>1. t[1] \in cards
    BY HoleIs
  <2> QED
    BY <1>1, <2>1 DEF Swap1, Holes
<1>4. ASSUME NEW t \in Pairs(cards)
      PROVE  Swap2(s, t) \in Pairs(cards)
  <2>1. t[1] \in cards /\ t[2] \in cards /\ t[1] # t[2]
    BY PairIs
  <2>2. Swap(s, t[1]) \in cards /\ Swap(s, t[2]) \in cards /\ Swap(s, t[1]) # Swap(s, t[2])
    BY <1>1, <1>2, <2>1
  <2> QED
    BY <2>2 DEF Swap2, Pairs
<1>5. ASSUME NEW t \in Triples(cards)
      PROVE  Swap3(s, t) \in Triples(cards)
  <2>1. /\ t[1] \in cards /\ t[2] \in cards /\ t[3] \in cards
        /\ t[1] # t[2] /\ t[1] # t[3] /\ t[2] # t[3]
    BY TripleIs
  <2>2. /\ Swap(s, t[1]) \in cards /\ Swap(s, t[2]) \in cards /\ Swap(s, t[3]) \in cards
        /\ Swap(s, t[1]) # Swap(s, t[2]) /\ Swap(s, t[1]) # Swap(s, t[3])
        /\ Swap(s, t[2]) # Swap(s, t[3])
    BY <1>1, <1>2, <2>1
  <2> QED
    BY <2>2 DEF Swap3, Triples
<1> QED
  BY <1>1, <1>2, <1>3, <1>4, <1>5

\* The evaluator does not see the interchange.
LEMMA EvaluateBlind ==
  ASSUME NEW cards \in SUBSET Some, NEW s \in Suit, NEW t \in Triples(cards)
  PROVE  evaluate_3card(Swap3(s, t)) = evaluate_3card(t)
<1> DEFINE u == Swap3(s, t)
           RanksOf(hand) == {card_rank(hand[i]) : i \in 1 .. 3}
           FlushOf(hand) == \A i \in 1 .. 3 : card_suit(hand[i]) = card_suit(hand[1])
           Value(ranks, flush, trips, pairs, singles) ==
             LET straight_high == straight_high_rank(ranks)
                 is_straight   == straight_high # kNoRank
             IN  CASE is_straight /\ flush -> hand_rank(kStraightFlush, straight_high)
                   [] trips # {} -> hand_rank(kTrips, MaxOf(trips))
                   [] is_straight /\ ~flush -> hand_rank(kStraight, straight_high)
                   [] pairs # {} ->
                        hand_rank(kPair, MaxOf(pairs) * kRankCount
                                           + compact_rank(MinOf(singles), MaxOf(pairs)))
                   [] OTHER ->
                        hand_rank(IF flush THEN kFlush ELSE kHighCard,
                                  colex_index_3(MinOf(singles), MidOf(singles), MaxOf(singles)))
<1>1. /\ t[1] \in Some /\ t[2] \in Some /\ t[3] \in Some
      /\ u[1] = Swap(s, t[1]) /\ u[2] = Swap(s, t[2]) /\ u[3] = Swap(s, t[3])
  BY TripleIs DEF Swap3
<1>2. \A i \in 1 .. 3 : t[i] \in Some /\ u[i] = Swap(s, t[i])
  BY <1>1
<1> HIDE DEF u
<1>3. \A i \in 1 .. 3 : card_rank(u[i]) = card_rank(t[i])
  <2>1. \A c \in Some : card_rank(Swap(s, c)) = card_rank(c)
    BY SwapIs
  <2> QED
    BY <1>2, <2>1
<1>4. \A i \in 1 .. 3 : card_suit(u[i]) = card_suit(u[1]) <=> card_suit(t[i]) = card_suit(t[1])
  <2>1. ASSUME NEW c \in Some, NEW d \in Some
        PROVE  card_suit(Swap(s, c)) = card_suit(Swap(s, d)) <=> card_suit(c) = card_suit(d)
    <3>1. card_suit(Swap(s, c)) = IF card_suit(c) = 0 THEN s
                                  ELSE IF card_suit(c) = s THEN 0 ELSE card_suit(c)
      BY SwapIs
    <3>2. card_suit(Swap(s, d)) = IF card_suit(d) = 0 THEN s
                                  ELSE IF card_suit(d) = s THEN 0 ELSE card_suit(d)
      BY SwapIs
    <3> QED
      BY <3>1, <3>2
  <2>2. 1 \in 1 .. 3
    OBVIOUS
  <2> QED
    BY <1>2, <2>1, <2>2
<1>5. RanksOf(u) = RanksOf(t)
  BY <1>3
<1>6. FlushOf(u) = FlushOf(t)
  <2>1. FlushOf(u) <=> FlushOf(t)
    BY <1>4
  <2> QED
    BY <2>1
<1>7. \A n : RanksOccurring(u, n) = RanksOccurring(t, n)
  <2> TAKE n
  <2>1. \A r : {i \in 1 .. 3 : card_rank(u[i]) = r} = {i \in 1 .. 3 : card_rank(t[i]) = r}
    BY <1>3
  <2> QED
    BY <1>5, <2>1 DEF RanksOccurring
<1>8. \A hand : evaluate_3card(hand) =
                  Value(RanksOf(hand), FlushOf(hand), RanksOccurring(hand, 3),
                        RanksOccurring(hand, 2), RanksOccurring(hand, 1))
  BY Zenon DEF evaluate_3card
<1> HIDE DEF RanksOf, FlushOf, Value
<1>9. evaluate_3card(u) = evaluate_3card(t)
  <2>1. /\ RanksOccurring(u, 3) = RanksOccurring(t, 3)
        /\ RanksOccurring(u, 2) = RanksOccurring(t, 2)
        /\ RanksOccurring(u, 1) = RanksOccurring(t, 1)
    BY <1>7
  <2>2. evaluate_3card(u) = Value(RanksOf(u), FlushOf(u), RanksOccurring(u, 3),
                                  RanksOccurring(u, 2), RanksOccurring(u, 1))
    BY <1>8
  <2>3. evaluate_3card(t) = Value(RanksOf(t), FlushOf(t), RanksOccurring(t, 3),
                                  RanksOccurring(t, 2), RanksOccurring(t, 1))
    BY <1>8
  <2> QED
    BY <1>5, <1>6, <2>1, <2>2, <2>3, Zenon
<1> QED
  BY <1>9 DEF u

\* Functions on the tuples of a round that do not see the interchange either.
Blind1(cards, f) == \A s \in Suit : \A t \in Holes(cards) : f[Swap1(s, t)] = f[t]
Blind2(cards, f) == \A s \in Suit : \A t \in Pairs(cards) : f[Swap2(s, t)] = f[t]
Blind3(cards, f) == \A s \in Suit : \A t \in Triples(cards) : f[Swap3(s, t)] = f[t]
SuitBlind(cards, f) == Blind1(cards, f) /\ Blind2(cards, f) /\ Blind3(cards, f)

\* What is left over after the interchange is what was left over, interchanged.
LEMMA SwapMatching ==
  ASSUME NEW cards \in SUBSET Some, AllSuits(cards), NEW s \in Suit, NEW t, NEW u,
         Cards(t) \in SUBSET cards, Cards(u) = {Swap(s, c) : c \in Cards(t)}
  PROVE  [d \in Left(cards, t) |-> Swap(s, d)] \in Matching(cards, t, u)
<1> DEFINE D == Left(cards, t)
           E == Left(cards, u)
           b == [d \in D |-> Swap(s, d)]
<1>1. /\ \A c \in cards : Swap(s, c) \in cards /\ Swap(s, Swap(s, c)) = c
      /\ \A c, d \in cards : Swap(s, c) = Swap(s, d) => c = d
  BY SwapStays, SwapIs
<1>2. ASSUME NEW d \in D
      PROVE  Swap(s, d) \in E
  <2>1. d \in cards /\ ~(d \in Cards(t)) /\ Swap(s, d) \in cards
    BY <1>1 DEF Left
  <2>2. ASSUME Swap(s, d) \in Cards(u) PROVE FALSE
    <3>1. PICK c \in Cards(t) : Swap(s, d) = Swap(s, c)
      BY <2>2
    <3>2. c \in cards
      OBVIOUS
    <3> QED
      BY <1>1, <2>1, <3>1, <3>2
  <2> QED
    BY <2>1, <2>2 DEF Left
<1>3. ASSUME NEW e \in E
      PROVE  \E d \in D : b[d] = e
  <2>1. e \in cards /\ ~(e \in Cards(u)) /\ Swap(s, e) \in cards /\ Swap(s, Swap(s, e)) = e
    BY <1>1 DEF Left
  <2>2. ~(Swap(s, e) \in Cards(t))
    BY <2>1
  <2>3. Swap(s, e) \in D
    BY <2>1, <2>2 DEF Left
  <2> QED
    BY <2>1, <2>3
<1>4. b \in [D -> E]
  BY <1>2
<1>5. \A c, d \in D : b[c] = b[d] => c = d
  BY <1>1 DEF Left
<1> HIDE DEF b, D, E
<1>6. b \in Bijection(D, E)
  BY <1>3, <1>4, <1>5, Fun_IsBij
<1> QED
  BY <1>6 DEF b, D, E, Matching

-----------------------------------------------------------------------------
(* The labels of a pass *)

\* The keys its five maps meet, and the ids they give.
LeafKeys(cards, p, rank, opp) ==
  [t \in Triples(cards) |-> LeafKey(cards, p, rank, opp, t)]
Raw3(cards, p, rank, opp) == intern(LeafKeys(cards, p, rank, opp))
PairKeys(cards, p, rank, opp) ==
  [t \in Pairs(cards) |-> BagKey(cards, p, Raw3(cards, p, rank, opp), t)]
Raw2(cards, p, rank, opp) == intern(PairKeys(cards, p, rank, opp))
HoleKeys(cards, p, rank, opp) ==
  [t \in Holes(cards) |-> BagKey(cards, p, Raw2(cards, p, rank, opp), t)]
Class0(cards, p, rank, opp) == intern(HoleKeys(cards, p, rank, opp))
FlopKeys(cards, p, rank, opp) ==
  [t \in Pairs(cards) |-> FamilyKey(Class0(cards, p, rank, opp)[<<t[1]>>],
                                    Raw2(cards, p, rank, opp)[t])]
Class1(cards, p, rank, opp) == intern(FlopKeys(cards, p, rank, opp))
TurnKeys(cards, p, rank, opp) ==
  [t \in Triples(cards) |-> FamilyKey(Class1(cards, p, rank, opp)[<<t[1], t[2]>>],
                                      Raw3(cards, p, rank, opp)[t])]
Class2(cards, p, rank, opp) == intern(TurnKeys(cards, p, rank, opp))

PassKeys(cards, p, rank, opp) ==
  { LeafKeys(cards, p, rank, opp), PairKeys(cards, p, rank, opp), HoleKeys(cards, p, rank, opp),
    FlopKeys(cards, p, rank, opp), TurnKeys(cards, p, rank, opp) }

\* What label makes of them.
LEMMA LabelIs ==
  ASSUME NEW cards, NEW p, NEW rank, NEW opp
  PROVE  label(cards, p, rank, opp) =
           [ class  |-> [t \in Dealt(cards) |->
                           CASE Len(t) = 1 -> Class0(cards, p, rank, opp)[t]
                             [] Len(t) = 2 -> Class1(cards, p, rank, opp)[t]
                             [] Len(t) = 3 -> Class2(cards, p, rank, opp)[t]],
             counts |-> [r \in 0 .. 2 |->
                           next_id(KeyCount(CASE r = 0 -> HoleKeys(cards, p, rank, opp)
                                              [] r = 1 -> FlopKeys(cards, p, rank, opp)
                                              [] r = 2 -> TurnKeys(cards, p, rank, opp)))] ]
<1> DEFINE raw3   == intern(Table([t \in Triples(cards) |-> LeafKey(cards, p, rank, opp, t)]))
           raw2   == intern(Table([t \in Pairs(cards) |-> BagKey(cards, p, raw3, t)]))
           keys0  == Table([t \in Holes(cards) |-> BagKey(cards, p, raw2, t)])
           class0 == intern(keys0)
           keys1  == Table([t \in Pairs(cards) |-> FamilyKey(class0[<<t[1]>>], raw2[t])])
           class1 == intern(keys1)
           keys2  == Table([t \in Triples(cards) |-> FamilyKey(class1[<<t[1], t[2]>>], raw3[t])])
           class2 == intern(keys2)
           class  == Table([t \in Dealt(cards) |-> CASE Len(t) = 1 -> class0[t]
                                                     [] Len(t) = 2 -> class1[t]
                                                     [] Len(t) = 3 -> class2[t]])
           counts == Table([r \in 0 .. 2 |-> next_id(KeyCount(CASE r = 0 -> keys0
                                                                [] r = 1 -> keys1
                                                                [] r = 2 -> keys2))])
<1>1. label(cards, p, rank, opp) = [class |-> class, counts |-> counts]
  BY Zenon DEF label
<1>2. raw3 = Raw3(cards, p, rank, opp)
  BY TableIs DEF Raw3, LeafKeys
<1> HIDE DEF raw3
<1>3. raw2 = Raw2(cards, p, rank, opp)
  BY <1>2, TableIs DEF Raw2, PairKeys
<1> HIDE DEF raw2
<1>4. keys0 = HoleKeys(cards, p, rank, opp)
  BY <1>3, TableIs DEF HoleKeys
<1> HIDE DEF keys0
<1>5. class0 = Class0(cards, p, rank, opp)
  BY <1>4 DEF Class0
<1> HIDE DEF class0
<1>6. keys1 = FlopKeys(cards, p, rank, opp)
  BY <1>3, <1>5, TableIs DEF FlopKeys
<1> HIDE DEF keys1
<1>7. class1 = Class1(cards, p, rank, opp)
  BY <1>6 DEF Class1
<1> HIDE DEF class1
<1>8. keys2 = TurnKeys(cards, p, rank, opp)
  BY <1>2, <1>7, TableIs DEF TurnKeys
<1> HIDE DEF keys2
<1>9. class2 = Class2(cards, p, rank, opp)
  BY <1>8 DEF Class2
<1> HIDE DEF class2
<1>10. class = [t \in Dealt(cards) |->
                 CASE Len(t) = 1 -> Class0(cards, p, rank, opp)[t]
                   [] Len(t) = 2 -> Class1(cards, p, rank, opp)[t]
                   [] Len(t) = 3 -> Class2(cards, p, rank, opp)[t]]
  BY <1>5, <1>7, <1>9, TableIs
<1>11. counts = [r \in 0 .. 2 |->
                  next_id(KeyCount(CASE r = 0 -> HoleKeys(cards, p, rank, opp)
                                     [] r = 1 -> FlopKeys(cards, p, rank, opp)
                                     [] r = 2 -> TurnKeys(cards, p, rank, opp)))]
  BY <1>4, <1>6, <1>8, TableIs
<1> HIDE DEF class, counts
<1> QED
  BY <1>1, <1>10, <1>11

\* Whatever they are, equal keys get equal labels.
LEMMA LabelsSame ==
  ASSUME NEW cards \in SUBSET Some, NEW p, NEW rank, NEW opp
  PROVE  \A keys \in PassKeys(cards, p, rank, opp) :
           /\ intern(keys) \in [DOMAIN keys -> Nat]
           /\ \A t, u \in DOMAIN keys : keys[t] = keys[u] => intern(keys)[t] = intern(keys)[u]
           /\ KeyCount(keys) < kIdRange =>
                \A t, u \in DOMAIN keys : intern(keys)[t] = intern(keys)[u] => keys[t] = keys[u]
<1> TAKE keys \in PassKeys(cards, p, rank, opp)
<1> DEFINE T == DOMAIN keys
           S == {keys[t] : t \in T}
<1>1. T \in {Holes(cards), Pairs(cards), Triples(cards)} /\ keys = [t \in T |-> keys[t]]
  BY DEF PassKeys, LeafKeys, PairKeys, HoleKeys, FlopKeys, TurnKeys
<1>2. Listed(T)
  BY <1>1, RoundsListed
<1>3. keys \in [T -> S]
  BY <1>1
<1> HIDE DEF T, S
<1> QED
  BY <1>2, <1>3, InternIs DEF T

\* A pass keeps a partition blind to suits where they are interchangeable: no
\* key tells a hand from the same hand with two suits interchanged.
LEMMA KeysBlind ==
  ASSUME NEW cards \in SUBSET Some, AllSuits(cards), NEW p, SuitBlind(cards, p.class),
         NEW rank, rank = showdown_ranks(cards), NEW opp
  PROVE  /\ Blind3(cards, LeafKeys(cards, p, rank, opp))
         /\ Blind2(cards, PairKeys(cards, p, rank, opp))
         /\ Blind1(cards, HoleKeys(cards, p, rank, opp))
         /\ Blind2(cards, FlopKeys(cards, p, rank, opp))
         /\ Blind3(cards, TurnKeys(cards, p, rank, opp))
         /\ SuitBlind(cards, label(cards, p, rank, opp).class)
<1> DEFINE k3 == LeafKeys(cards, p, rank, opp)
           k2 == PairKeys(cards, p, rank, opp)
           k0 == HoleKeys(cards, p, rank, opp)
           kF == FlopKeys(cards, p, rank, opp)
           kT == TurnKeys(cards, p, rank, opp)
           r3 == Raw3(cards, p, rank, opp)
           r2 == Raw2(cards, p, rank, opp)
           c0 == Class0(cards, p, rank, opp)
           c1 == Class1(cards, p, rank, opp)
           c2 == Class2(cards, p, rank, opp)
           n  == label(cards, p, rank, opp)
<1>1. /\ \A t, u \in Triples(cards) : k3[t] = k3[u] => r3[t] = r3[u]
      /\ \A t, u \in Pairs(cards) : k2[t] = k2[u] => r2[t] = r2[u]
      /\ \A t, u \in Holes(cards) : k0[t] = k0[u] => c0[t] = c0[u]
      /\ \A t, u \in Pairs(cards) : kF[t] = kF[u] => c1[t] = c1[u]
      /\ \A t, u \in Triples(cards) : kT[t] = kT[u] => c2[t] = c2[u]
  <2>1. /\ k3 \in PassKeys(cards, p, rank, opp) /\ DOMAIN k3 = Triples(cards) /\ r3 = intern(k3)
        /\ k2 \in PassKeys(cards, p, rank, opp) /\ DOMAIN k2 = Pairs(cards) /\ r2 = intern(k2)
        /\ k0 \in PassKeys(cards, p, rank, opp) /\ DOMAIN k0 = Holes(cards) /\ c0 = intern(k0)
        /\ kF \in PassKeys(cards, p, rank, opp) /\ DOMAIN kF = Pairs(cards) /\ c1 = intern(kF)
        /\ kT \in PassKeys(cards, p, rank, opp) /\ DOMAIN kT = Triples(cards) /\ c2 = intern(kT)
    BY DEF PassKeys, LeafKeys, PairKeys, HoleKeys, FlopKeys, TurnKeys, Raw3, Raw2, Class0, Class1, Class2
  <2> HIDE DEF k3, k2, k0, kF, kT, r3, r2, c0, c1, c2
  <2>2. \A keys \in PassKeys(cards, p, rank, opp) : \A t, u \in DOMAIN keys :
          keys[t] = keys[u] => intern(keys)[t] = intern(keys)[u]
    BY LabelsSame
  <2> QED
    BY <2>1, <2>2
<1>2. /\ \A t \in Triples(cards) : k3[t] = LeafKey(cards, p, rank, opp, t)
      /\ \A t \in Pairs(cards) : k2[t] = BagKey(cards, p, r3, t)
      /\ \A t \in Holes(cards) : k0[t] = BagKey(cards, p, r2, t)
      /\ \A t \in Pairs(cards) : kF[t] = FamilyKey(c0[<<t[1]>>], r2[t])
      /\ \A t \in Triples(cards) : kT[t] = FamilyKey(c1[<<t[1], t[2]>>], r3[t])
  BY DEF LeafKeys, PairKeys, HoleKeys, FlopKeys, TurnKeys
<1>3. /\ \A t \in Holes(cards) : n.class[t] = c0[t]
      /\ \A t \in Pairs(cards) : n.class[t] = c1[t]
      /\ \A t \in Triples(cards) : n.class[t] = c2[t]
  <2>1. n.class = [t \in Dealt(cards) |-> CASE Len(t) = 1 -> c0[t]
                                            [] Len(t) = 2 -> c1[t]
                                            [] Len(t) = 3 -> c2[t]]
    BY LabelIs
  <2> HIDE DEF n, c0, c1, c2
  <2>2. /\ \A t \in Holes(cards) : Len(t) = 1 /\ t \in Dealt(cards)
        /\ \A t \in Pairs(cards) : Len(t) = 2 /\ t \in Dealt(cards)
        /\ \A t \in Triples(cards) : Len(t) = 3 /\ t \in Dealt(cards)
    BY HoleIs, PairIs, TripleIs DEF Dealt
  <2>3. ASSUME NEW t \in Holes(cards) PROVE n.class[t] = c0[t]
    <3>1. n.class[t] = CASE Len(t) = 1 -> c0[t] [] Len(t) = 2 -> c1[t] [] Len(t) = 3 -> c2[t]
      BY <2>1, <2>2
    <3> QED
      BY <2>2, <3>1
  <2>4. ASSUME NEW t \in Pairs(cards) PROVE n.class[t] = c1[t]
    <3>1. n.class[t] = CASE Len(t) = 1 -> c0[t] [] Len(t) = 2 -> c1[t] [] Len(t) = 3 -> c2[t]
      BY <2>1, <2>2
    <3> QED
      BY <2>2, <3>1
  <2>5. ASSUME NEW t \in Triples(cards) PROVE n.class[t] = c2[t]
    <3>1. n.class[t] = CASE Len(t) = 1 -> c0[t] [] Len(t) = 2 -> c1[t] [] Len(t) = 3 -> c2[t]
      BY <2>1, <2>2
    <3> QED
      BY <2>2, <3>1
  <2> QED
    BY <2>3, <2>4, <2>5
<1> HIDE DEF k3, k2, k0, kF, kT, r3, r2, c0, c1, c2, n
<1>4. \A s \in Suit : /\ \A t \in Holes(cards) : Swap1(s, t) \in Holes(cards)
                      /\ \A t \in Pairs(cards) : Swap2(s, t) \in Pairs(cards)
                      /\ \A t \in Triples(cards) : Swap3(s, t) \in Triples(cards)
  BY SwapStays
<1>5. ASSUME NEW s \in Suit, NEW t \in Triples(cards)
      PROVE  k3[Swap3(s, t)] = k3[t]
  <2> DEFINE u == Swap3(s, t)
             b == [d \in Left(cards, t) |-> Swap(s, d)]
  <2>1. u \in Triples(cards) /\ p.class[u] = p.class[t]
    BY <1>4 DEF SuitBlind, Blind3
  <2>2. u[1] = Swap(s, t[1]) /\ u[2] = Swap(s, t[2]) /\ u[3] = Swap(s, t[3])
    BY DEF Swap3
  <2> HIDE DEF u
  <2>3. b \in Matching(cards, t, u)
    <3>1. Cards(t) = {t[1], t[2], t[3]} /\ t[1] \in cards /\ t[2] \in cards /\ t[3] \in cards
      BY TripleIs
    <3>3. Cards(u) = {u[1], u[2], u[3]}
      BY <2>1, TripleIs
    <3>2. Cards(u) = {Swap(s, c) : c \in Cards(t)}
      BY <2>2, <3>1, <3>3
    <3> QED
      BY <3>1, <3>2, SwapMatching
  <2>4. ASSUME NEW x \in Triples(cards)
        PROVE  rank[Swap3(s, x)] = rank[x]
    <3>1. \A y \in Triples(cards) : rank[y] = evaluate_3card(y)
      BY TableIs DEF showdown_ranks
    <3>2. Swap3(s, x) \in Triples(cards)
      BY <1>4
    <3>3. evaluate_3card(Swap3(s, x)) = evaluate_3card(x)
      BY EvaluateBlind
    <3> QED
      BY <3>1, <3>2, <3>3
  <2>5. ASSUME NEW d \in Left(cards, t)
        PROVE  /\ p.class[Against(t, d)] = p.class[Against(u, b[d])]
               /\ Outcome(rank[t], rank[Against(t, d)]) = Outcome(rank[u], rank[Against(u, b[d])])
    <3>1. Against(t, d) \in Triples(cards)
      BY TripleIs DEF Left, Against
    <3>2. Swap3(s, Against(t, d)) = Against(u, b[d])
      BY <2>2 DEF Swap3, Against
    <3>3. p.class[Swap3(s, Against(t, d))] = p.class[Against(t, d)]
      BY <3>1 DEF SuitBlind, Blind3
    <3>4. rank[Swap3(s, Against(t, d))] = rank[Against(t, d)] /\ rank[u] = rank[t]
      BY <2>4, <3>1 DEF u
    <3> QED
      BY <3>2, <3>3, <3>4
  <2> HIDE DEF b
  <2>6. SameDuels(cards, p.class, rank, opp, t, u)
    BY <2>3, <2>5 DEF SameDuels
  <2>7. LeafKey(cards, p, rank, opp, t) = LeafKey(cards, p, rank, opp, u)
    BY <2>1, <2>6, LeafKeyTells
  <2> QED
    BY <1>2, <2>1, <2>7 DEF u
<1>6. ASSUME NEW s \in Suit, NEW t \in Triples(cards)
      PROVE  r3[Swap3(s, t)] = r3[t]
  BY <1>1, <1>4, <1>5
<1>7. ASSUME NEW s \in Suit, NEW t \in Pairs(cards)
      PROVE  k2[Swap2(s, t)] = k2[t]
  <2> DEFINE u == Swap2(s, t)
             b == [d \in Left(cards, t) |-> Swap(s, d)]
  <2>1. u \in Pairs(cards) /\ p.class[u] = p.class[t]
    BY <1>4 DEF SuitBlind, Blind2
  <2>2. u[1] = Swap(s, t[1]) /\ u[2] = Swap(s, t[2])
    BY DEF Swap2
  <2> HIDE DEF u
  <2>3. b \in Matching(cards, t, u)
    <3>1. Cards(t) = {t[1], t[2]} /\ t[1] \in cards /\ t[2] \in cards
      BY PairIs
    <3>3. Cards(u) = {u[1], u[2]}
      BY <2>1, PairIs
    <3>2. Cards(u) = {Swap(s, c) : c \in Cards(t)}
      BY <2>2, <3>1, <3>3
    <3> QED
      BY <3>1, <3>2, SwapMatching
  <2>4. ASSUME NEW d \in Left(cards, t)
        PROVE  r3[Append(t, d)] = r3[Append(u, b[d])]
    <3> DEFINE x == Append(t, d)
    <3>1. b[d] \in Left(cards, u) /\ b[d] = Swap(s, d)
      BY <2>3, MatchingIs
    <3>2. x = <<t[1], t[2], d>> /\ x \in Triples(cards)
      BY PairIs DEF Left
    <3>3. Append(u, b[d]) = <<u[1], u[2], b[d]>> /\ Append(u, b[d]) \in Triples(cards)
      <4> DEFINE e == b[d]
      <4>1. e \in Left(cards, u) /\ u \in Pairs(cards)
        BY <2>1, <3>1
      <4> HIDE DEF b, e
      <4>2. Append(u, e) = <<u[1], u[2], e>> /\ Append(u, e) \in Triples(cards)
        BY <4>1, PairIs DEF Left
      <4> QED
        BY <4>2 DEF e
    <3>4. x[1] = t[1] /\ x[2] = t[2] /\ x[3] = d
      BY <3>2
    <3> HIDE DEF x
    <3>5. Append(u, b[d]) = Swap3(s, x)
      BY <2>2, <3>1, <3>3, <3>4, Zenon DEF Swap3
    <3> QED
      BY <1>6, <3>2, <3>5 DEF x
  <2> HIDE DEF b
  <2>5. SameNext(cards, r3, t, u)
    BY <2>3, <2>4 DEF SameNext
  <2>6. BagKey(cards, p, r3, t) = BagKey(cards, p, r3, u)
    BY <2>1, <2>5, BagKeyTells
  <2> QED
    BY <1>2, <2>1, <2>6 DEF u
<1>8. ASSUME NEW s \in Suit, NEW t \in Pairs(cards)
      PROVE  r2[Swap2(s, t)] = r2[t]
  BY <1>1, <1>4, <1>7
<1>9. ASSUME NEW s \in Suit, NEW t \in Holes(cards)
      PROVE  k0[Swap1(s, t)] = k0[t]
  <2> DEFINE u == Swap1(s, t)
             b == [d \in Left(cards, t) |-> Swap(s, d)]
  <2>1. u \in Holes(cards) /\ p.class[u] = p.class[t]
    BY <1>4 DEF SuitBlind, Blind1
  <2>2. u[1] = Swap(s, t[1])
    BY DEF Swap1
  <2> HIDE DEF u
  <2>3. b \in Matching(cards, t, u)
    <3>1. Cards(t) = {t[1]} /\ t[1] \in cards
      BY HoleIs
    <3>3. Cards(u) = {u[1]}
      BY <2>1, HoleIs
    <3>2. Cards(u) = {Swap(s, c) : c \in Cards(t)}
      BY <2>2, <3>1, <3>3
    <3> QED
      BY <3>1, <3>2, SwapMatching
  <2>4. ASSUME NEW d \in Left(cards, t)
        PROVE  r2[Append(t, d)] = r2[Append(u, b[d])]
    <3> DEFINE x == Append(t, d)
    <3>1. b[d] \in Left(cards, u) /\ b[d] = Swap(s, d)
      BY <2>3, MatchingIs
    <3>2. x = <<t[1], d>> /\ x \in Pairs(cards)
      BY HoleIs DEF Left
    <3>3. Append(u, b[d]) = <<u[1], b[d]>>
      <4>1. b[d] \in cards \ Cards(u)
        BY <3>1 DEF Left
      <4> HIDE DEF b
      <4> QED
        BY <2>1, <4>1, HoleIs
    <3>4. x[1] = t[1] /\ x[2] = d
      BY <3>2
    <3> HIDE DEF x
    <3>5. Append(u, b[d]) = Swap2(s, x)
      BY <2>2, <3>1, <3>3, <3>4, Zenon DEF Swap2
    <3> QED
      BY <1>8, <3>2, <3>5 DEF x
  <2> HIDE DEF b
  <2>5. SameNext(cards, r2, t, u)
    BY <2>3, <2>4 DEF SameNext
  <2>6. BagKey(cards, p, r2, t) = BagKey(cards, p, r2, u)
    BY <2>1, <2>5, BagKeyTells
  <2> QED
    BY <1>2, <2>1, <2>6 DEF u
<1>10. ASSUME NEW s \in Suit, NEW t \in Holes(cards)
       PROVE  c0[Swap1(s, t)] = c0[t]
  BY <1>1, <1>4, <1>9
<1>11. ASSUME NEW s \in Suit, NEW t \in Pairs(cards)
       PROVE  kF[Swap2(s, t)] = kF[t]
  <2> DEFINE u == Swap2(s, t)
             h == <<t[1]>>
  <2>1. u \in Pairs(cards) /\ h \in Holes(cards) /\ r2[u] = r2[t]
    BY <1>4, <1>8, PairIs
  <2>2. <<u[1]>> = Swap1(s, h)
    BY DEF Swap1, Swap2
  <2> HIDE DEF u, h
  <2>3. c0[<<u[1]>>] = c0[h]
    BY <1>10, <2>1, <2>2
  <2> QED
    BY <1>2, <2>1, <2>3, Zenon DEF u, h
<1>12. ASSUME NEW s \in Suit, NEW t \in Pairs(cards)
       PROVE  c1[Swap2(s, t)] = c1[t]
  BY <1>1, <1>4, <1>11
<1>13. ASSUME NEW s \in Suit, NEW t \in Triples(cards)
       PROVE  kT[Swap3(s, t)] = kT[t]
  <2> DEFINE u == Swap3(s, t)
             h == <<t[1], t[2]>>
  <2>1. u \in Triples(cards) /\ h \in Pairs(cards) /\ r3[u] = r3[t]
    BY <1>4, <1>6, TripleIs
  <2>2. <<u[1], u[2]>> = Swap2(s, h)
    BY DEF Swap2, Swap3
  <2> HIDE DEF u, h
  <2>3. c1[<<u[1], u[2]>>] = c1[h]
    BY <1>12, <2>1, <2>2
  <2> QED
    BY <1>2, <2>1, <2>3, Zenon DEF u, h
<1>14. ASSUME NEW s \in Suit, NEW t \in Triples(cards)
       PROVE  c2[Swap3(s, t)] = c2[t]
  BY <1>1, <1>4, <1>13
<1>15. SuitBlind(cards, n.class)
  BY <1>3, <1>4, <1>10, <1>12, <1>14 DEF SuitBlind, Blind1, Blind2, Blind3
<1> QED
  BY <1>5, <1>7, <1>9, <1>11, <1>13, <1>15 DEF Blind1, Blind2, Blind3, k3, k2, k0, kF, kT, n

\* A partition the loop can start a pass from without its ids wrapping around.
Fits(cards, p, rank) ==
  /\ IdsFit(cards, kIdRange)
  /\ AllSuits(cards) => SuitBlind(cards, p.class) /\ rank = showdown_ranks(cards)

\* Every key is one of a tuple that starts in suit 0, where suits are
\* interchangeable: interchange the suit it starts in and suit 0.
LEMMA StartsInSuit0 ==
  ASSUME NEW cards \in SUBSET Some, AllSuits(cards), NEW keys, NEW T,
         \/ T = Holes(cards) /\ Blind1(cards, keys)
         \/ T = Pairs(cards) /\ Blind2(cards, keys)
         \/ T = Triples(cards) /\ Blind3(cards, keys),
         NEW t \in T
  PROVE  \E u \in OwnClass(cards, T) : keys[u] = keys[t]
<1>1. t[1] \in Some
  <2>1. ASSUME T = Holes(cards) PROVE t[1] \in Some
    BY <2>1, HoleIs
  <2>2. ASSUME T = Pairs(cards) PROVE t[1] \in Some
    BY <2>2, PairIs
  <2>3. ASSUME T = Triples(cards) PROVE t[1] \in Some
    BY <2>3, TripleIs
  <2> QED
    BY <2>1, <2>2, <2>3
<1> DEFINE s == card_suit(t[1])
<1>2. s \in Suit /\ card_suit(Swap(s, t[1])) = 0
  <2>1. 0 \in Suit
    BY DEF Suit, kSuitCount
  <2>2. card_suit(t[1]) \in Suit
    BY <1>1, <2>1, SwapIs
  <2> QED
    BY <1>1, <2>2, SwapIs
<1> HIDE DEF s
<1>3. \E u \in T : keys[u] = keys[t] /\ u[1] = Swap(s, t[1])
  <2>1. CASE T = Holes(cards) /\ Blind1(cards, keys)
    <3>1. Swap1(s, t) \in T /\ keys[Swap1(s, t)] = keys[t]
      BY <1>2, <2>1, SwapStays DEF Blind1
    <3>2. Swap1(s, t)[1] = Swap(s, t[1])
      BY DEF Swap1
    <3> QED
      BY <3>1, <3>2
  <2>2. CASE T = Pairs(cards) /\ Blind2(cards, keys)
    <3>1. Swap2(s, t) \in T /\ keys[Swap2(s, t)] = keys[t]
      BY <1>2, <2>2, SwapStays DEF Blind2
    <3>2. Swap2(s, t)[1] = Swap(s, t[1])
      BY DEF Swap2
    <3> QED
      BY <3>1, <3>2
  <2>3. CASE T = Triples(cards) /\ Blind3(cards, keys)
    <3>1. Swap3(s, t) \in T /\ keys[Swap3(s, t)] = keys[t]
      BY <1>2, <2>3, SwapStays DEF Blind3
    <3>2. Swap3(s, t)[1] = Swap(s, t[1])
      BY DEF Swap3
    <3> QED
      BY <3>1, <3>2
  <2> QED
    BY <2>1, <2>2, <2>3
<1> QED
  BY <1>2, <1>3 DEF OwnClass

\* So no map of a pass ever holds as many keys as there are ids.
LEMMA KeysFit ==
  ASSUME NEW cards \in SUBSET Some, NEW p, NEW rank, NEW opp, Fits(cards, p, rank)
  PROVE  \A keys \in PassKeys(cards, p, rank, opp) : KeyCount(keys) < kIdRange
<1> TAKE keys \in PassKeys(cards, p, rank, opp)
<1> DEFINE T == DOMAIN keys
           R == OwnClass(cards, T)
           K == {keys[t] : t \in T}
           f == [u \in R |-> keys[u]]
<1>1. T \in {Holes(cards), Pairs(cards), Triples(cards)}
  BY DEF PassKeys, LeafKeys, PairKeys, HoleKeys, FlopKeys, TurnKeys
<1>2. IsFiniteSet(T) /\ IsFiniteSet(R) /\ Cardinality(R) < kIdRange
  <2>1. IsFiniteSet(T) /\ R \in SUBSET T
    BY <1>1, RoundsListed DEF Listed, OwnClass
  <2>2. Cardinality(R) < kIdRange
    BY <1>1 DEF Fits, IdsFit
  <2> HIDE DEF T, R
  <2> QED
    BY <2>1, <2>2, FS_Subset
<1>3. ASSUME NEW t \in T
      PROVE  \E u \in R : keys[u] = keys[t]
  <2>1. CASE AllSuits(cards)
    <3>1. /\ Blind3(cards, LeafKeys(cards, p, rank, opp)) /\ Blind2(cards, PairKeys(cards, p, rank, opp))
          /\ Blind1(cards, HoleKeys(cards, p, rank, opp)) /\ Blind2(cards, FlopKeys(cards, p, rank, opp))
          /\ Blind3(cards, TurnKeys(cards, p, rank, opp))
      BY <2>1, KeysBlind DEF Fits
    <3>2. \/ T = Holes(cards) /\ Blind1(cards, keys)
          \/ T = Pairs(cards) /\ Blind2(cards, keys)
          \/ T = Triples(cards) /\ Blind3(cards, keys)
      <4>1. /\ DOMAIN LeafKeys(cards, p, rank, opp) = Triples(cards)
            /\ DOMAIN PairKeys(cards, p, rank, opp) = Pairs(cards)
            /\ DOMAIN HoleKeys(cards, p, rank, opp) = Holes(cards)
            /\ DOMAIN FlopKeys(cards, p, rank, opp) = Pairs(cards)
            /\ DOMAIN TurnKeys(cards, p, rank, opp) = Triples(cards)
        BY DEF LeafKeys, PairKeys, HoleKeys, FlopKeys, TurnKeys
      <4> QED
        BY <3>1, <4>1 DEF PassKeys
    <3> HIDE DEF T
    <3> QED
      BY <2>1, <3>2, StartsInSuit0
  <2>2. CASE ~AllSuits(cards)
    BY <2>2 DEF OwnClass
  <2> QED
    BY <2>1, <2>2
<1>4. f \in [R -> K]
  BY DEF OwnClass
<1>5. ASSUME NEW k \in K
      PROVE  \E u \in R : f[u] = k
  <2>1. PICK t \in T : k = keys[t]
    OBVIOUS
  <2>2. PICK u \in R : keys[u] = keys[t]
    BY <1>3
  <2>3. f[u] = k
    BY <2>1, <2>2
  <2> HIDE DEF f, R
  <2> QED
    BY <2>3
<1>6. KeyCount(keys) = Cardinality(K)
  BY DEF KeyCount
<1> HIDE DEF f, R, K, T
<1>7. f \in Surjection(R, K)
  BY <1>4, <1>5, Fun_IsSurj
<1>8. Cardinality(K) <= Cardinality(R) /\ IsFiniteSet(K)
  BY <1>2, <1>7, FS_Surjection
<1>9. Cardinality(K) \in Nat /\ Cardinality(R) \in Nat
  BY <1>2, <1>8, FS_CardinalityType
<1> QED
  BY <1>2, <1>6, <1>8, <1>9, IdRangeAssumption

\* Then equal labels are equal keys, at every stage.
LEMMA LabelsTell ==
  ASSUME NEW cards \in SUBSET Some, NEW p, NEW rank, NEW opp, Fits(cards, p, rank)
  PROVE  \A keys \in PassKeys(cards, p, rank, opp) : \A t, u \in DOMAIN keys :
           intern(keys)[t] = intern(keys)[u] <=> keys[t] = keys[u]
  BY LabelsSame, KeysFit

-----------------------------------------------------------------------------
(* A pass *)

\* What the ids of a pass tell, stage by stage, and the classes they become.
PassBy(cards, p, rank, opp, n, r3, r2, c0, c1, c2) ==
  /\ \A t, u \in Triples(cards) :
       r3[t] = r3[u] <=> p.class[t] = p.class[u] /\ SameDuels(cards, p.class, rank, opp, t, u)
  /\ \A t, u \in Pairs(cards) :
       r2[t] = r2[u] <=> p.class[t] = p.class[u] /\ SameNext(cards, r3, t, u)
  /\ \A t, u \in Holes(cards) :
       c0[t] = c0[u] <=> p.class[t] = p.class[u] /\ SameNext(cards, r2, t, u)
  /\ \A t, u \in Pairs(cards) :
       c1[t] = c1[u] <=> c0[<<t[1]>>] = c0[<<u[1]>>] /\ r2[t] = r2[u]
  /\ \A t, u \in Triples(cards) :
       c2[t] = c2[u] <=> c1[<<t[1], t[2]>>] = c1[<<u[1], u[2]>>] /\ r3[t] = r3[u]
  /\ \A t \in Holes(cards) : n.class[t] = c0[t]
  /\ \A t \in Pairs(cards) : n.class[t] = c1[t]
  /\ \A t \in Triples(cards) : n.class[t] = c2[t]
  /\ n.counts[2] = Cardinality({n.class[t] : t \in Triples(cards)})

LEMMA PassIs ==
  ASSUME NEW cards \in SUBSET Some, NEW p, NEW rank, NEW opp, NEW n,
         Fits(cards, p, rank), n = label(cards, p, rank, opp)
  PROVE  \E r3, r2, c0, c1, c2 : PassBy(cards, p, rank, opp, n, r3, r2, c0, c1, c2)
<1> DEFINE r3 == Raw3(cards, p, rank, opp)
           r2 == Raw2(cards, p, rank, opp)
           c0 == Class0(cards, p, rank, opp)
           c1 == Class1(cards, p, rank, opp)
           c2 == Class2(cards, p, rank, opp)
           k2 == TurnKeys(cards, p, rank, opp)
<1>0. \A keys \in PassKeys(cards, p, rank, opp) : \A t, u \in DOMAIN keys :
        intern(keys)[t] = intern(keys)[u] <=> keys[t] = keys[u]
  BY LabelsTell
<1>1. \A t, u \in Triples(cards) :
        r3[t] = r3[u] <=> LeafKey(cards, p, rank, opp, t) = LeafKey(cards, p, rank, opp, u)
  <2> DEFINE keys == LeafKeys(cards, p, rank, opp)
  <2>1. /\ keys \in PassKeys(cards, p, rank, opp) /\ DOMAIN keys = Triples(cards) /\ r3 = intern(keys)
        /\ \A t \in Triples(cards) : keys[t] = LeafKey(cards, p, rank, opp, t)
    BY DEF PassKeys, LeafKeys, Raw3
  <2> HIDE DEF keys, r3
  <2> QED
    BY <1>0, <2>1
<1>2. \A t, u \in Pairs(cards) :
        r2[t] = r2[u] <=> BagKey(cards, p, r3, t) = BagKey(cards, p, r3, u)
  <2> DEFINE keys == PairKeys(cards, p, rank, opp)
  <2>1. /\ keys \in PassKeys(cards, p, rank, opp) /\ DOMAIN keys = Pairs(cards) /\ r2 = intern(keys)
        /\ \A t \in Pairs(cards) : keys[t] = BagKey(cards, p, r3, t)
    BY DEF PassKeys, PairKeys, Raw2
  <2> HIDE DEF keys, r2, r3
  <2> QED
    BY <1>0, <2>1
<1>3. \A t, u \in Holes(cards) :
        c0[t] = c0[u] <=> BagKey(cards, p, r2, t) = BagKey(cards, p, r2, u)
  <2> DEFINE keys == HoleKeys(cards, p, rank, opp)
  <2>1. /\ keys \in PassKeys(cards, p, rank, opp) /\ DOMAIN keys = Holes(cards) /\ c0 = intern(keys)
        /\ \A t \in Holes(cards) : keys[t] = BagKey(cards, p, r2, t)
    BY DEF PassKeys, HoleKeys, Class0
  <2> HIDE DEF keys, c0, r2
  <2> QED
    BY <1>0, <2>1
<1>4. \A t, u \in Pairs(cards) :
        c1[t] = c1[u] <=> FamilyKey(c0[<<t[1]>>], r2[t]) = FamilyKey(c0[<<u[1]>>], r2[u])
  <2> DEFINE keys == FlopKeys(cards, p, rank, opp)
  <2>1. /\ keys \in PassKeys(cards, p, rank, opp) /\ DOMAIN keys = Pairs(cards) /\ c1 = intern(keys)
        /\ \A t \in Pairs(cards) : keys[t] = FamilyKey(c0[<<t[1]>>], r2[t])
    BY DEF PassKeys, FlopKeys, Class1
  <2> HIDE DEF keys, c1, c0, r2
  <2>2. \A t, u \in Pairs(cards) : c1[t] = c1[u] <=> keys[t] = keys[u]
    BY <1>0, <2>1
  <2> TAKE t, u \in Pairs(cards)
  <2>3. /\ keys[t] = FamilyKey(c0[<<t[1]>>], r2[t])
        /\ keys[u] = FamilyKey(c0[<<u[1]>>], r2[u])
    BY <2>1, Zenon
  <2> QED
    BY <2>2, <2>3, Zenon
<1>5. /\ DOMAIN k2 = Triples(cards)
      /\ \A t, u \in Triples(cards) : c2[t] = c2[u] <=> k2[t] = k2[u]
      /\ \A t \in Triples(cards) : k2[t] = FamilyKey(c1[<<t[1], t[2]>>], r3[t])
  <2>1. /\ k2 \in PassKeys(cards, p, rank, opp) /\ DOMAIN k2 = Triples(cards) /\ c2 = intern(k2)
        /\ \A t \in Triples(cards) : k2[t] = FamilyKey(c1[<<t[1], t[2]>>], r3[t])
    BY DEF PassKeys, TurnKeys, Class2
  <2> HIDE DEF k2, c2, c1, r3
  <2> QED
    BY <1>0, <2>1
<1>6. /\ n.class = [t \in Dealt(cards) |-> CASE Len(t) = 1 -> c0[t]
                                             [] Len(t) = 2 -> c1[t]
                                             [] Len(t) = 3 -> c2[t]]
      /\ n.counts[2] = next_id(KeyCount(k2))
  <2> DEFINE h == HoleKeys(cards, p, rank, opp)
             f == FlopKeys(cards, p, rank, opp)
  <2>1. n.class = [t \in Dealt(cards) |-> CASE Len(t) = 1 -> c0[t]
                                            [] Len(t) = 2 -> c1[t]
                                            [] Len(t) = 3 -> c2[t]]
    BY LabelIs
  <2>2. n.counts = [r \in 0 .. 2 |-> next_id(KeyCount(CASE r = 0 -> h [] r = 1 -> f [] r = 2 -> k2))]
    BY LabelIs
  <2> HIDE DEF h, f, k2
  <2>3. n.counts[2] = next_id(KeyCount(CASE 2 = 0 -> h [] 2 = 1 -> f [] 2 = 2 -> k2))
    BY <2>2
  <2>4. n.counts[2] = next_id(KeyCount(k2))
    BY <2>3
  <2> QED
    BY <2>1, <2>4
<1>6a. KeyCount(k2) < kIdRange
  <2>1. k2 \in PassKeys(cards, p, rank, opp)
    BY DEF PassKeys
  <2> QED
    BY <2>1, KeysFit
<1> HIDE DEF k2
<1> HIDE DEF r3, r2, c0, c1, c2
<1>7. /\ \A t, u \in Triples(cards) :
           r3[t] = r3[u] <=> p.class[t] = p.class[u] /\ SameDuels(cards, p.class, rank, opp, t, u)
      /\ \A t, u \in Pairs(cards) :
           r2[t] = r2[u] <=> p.class[t] = p.class[u] /\ SameNext(cards, r3, t, u)
      /\ \A t, u \in Holes(cards) :
           c0[t] = c0[u] <=> p.class[t] = p.class[u] /\ SameNext(cards, r2, t, u)
  BY <1>1, <1>2, <1>3, LeafKeyTells, BagKeyTells
<1>8. /\ \A t, u \in Pairs(cards) :
           c1[t] = c1[u] <=> c0[<<t[1]>>] = c0[<<u[1]>>] /\ r2[t] = r2[u]
      /\ \A t, u \in Triples(cards) :
           c2[t] = c2[u] <=> c1[<<t[1], t[2]>>] = c1[<<u[1], u[2]>>] /\ r3[t] = r3[u]
  BY <1>4, <1>5 DEF FamilyKey
<1>9. \A t \in Holes(cards) : n.class[t] = c0[t]
  <2>1. \A t \in Holes(cards) : Len(t) = 1 /\ t \in Dealt(cards)
    BY HoleIs DEF Dealt
  <2> TAKE t \in Holes(cards)
  <2>2. n.class[t] = CASE Len(t) = 1 -> c0[t] [] Len(t) = 2 -> c1[t] [] Len(t) = 3 -> c2[t]
    BY <1>6, <2>1
  <2> QED
    BY <2>1, <2>2
<1>10. \A t \in Pairs(cards) : n.class[t] = c1[t]
  <2>1. \A t \in Pairs(cards) : Len(t) = 2 /\ t \in Dealt(cards)
    BY PairIs DEF Dealt
  <2> QED
    BY <1>6, <2>1
<1>11. \A t \in Triples(cards) : n.class[t] = c2[t]
  <2>1. \A t \in Triples(cards) : Len(t) = 3 /\ t \in Dealt(cards)
    BY TripleIs DEF Dealt
  <2> QED
    BY <1>6, <2>1
<1>12. KeyCount(k2) = Cardinality({n.class[t] : t \in Triples(cards)}) /\ KeyCount(k2) \in Nat
  <2> DEFINE T == Triples(cards)
             a == k2
             c == n.class
  <2>1. /\ \A t, u \in T : a[t] = a[u] => c[t] = c[u]
        /\ \A t, u \in T : c[t] = c[u] => a[t] = a[u]
    BY <1>5, <1>11
  <2>2. IsFiniteSet(T)
    BY RoundsListed DEF Listed
  <2>3. KeyCount(k2) = Cardinality(ClassesOf(T, a))
    BY <1>5 DEF KeyCount, ClassesOf
  <2> HIDE DEF T, a, c
  <2>4. Cardinality(ClassesOf(T, a)) = Cardinality(ClassesOf(T, c)) /\ Cardinality(ClassesOf(T, a)) \in Nat
    <3>1. /\ Cardinality(ClassesOf(T, c)) <= Cardinality(ClassesOf(T, a))
          /\ IsFiniteSet(ClassesOf(T, a))
      BY <2>1, <2>2, Settles
    <3>2. /\ Cardinality(ClassesOf(T, a)) <= Cardinality(ClassesOf(T, c))
          /\ IsFiniteSet(ClassesOf(T, c))
      BY <2>1, <2>2, Settles
    <3>3. Cardinality(ClassesOf(T, a)) \in Nat /\ Cardinality(ClassesOf(T, c)) \in Nat
      BY <3>1, <3>2, FS_CardinalityType
    <3> QED
      BY <3>1, <3>2, <3>3
  <2> QED
    BY <2>3, <2>4 DEF ClassesOf, T, c
<1>13. n.counts[2] = Cardinality({n.class[t] : t \in Triples(cards)})
  <2>1. next_id(KeyCount(k2)) = KeyCount(k2)
    BY <1>6a, <1>12, IdRangeAssumption DEF next_id
  <2> QED
    BY <1>6, <1>12, <2>1
<1>14. PassBy(cards, p, rank, opp, n, r3, r2, c0, c1, c2)
  BY <1>7, <1>8, <1>9, <1>10, <1>11, <1>13, Zenon DEF PassBy
<1> QED
  BY <1>14

\* Cards in one class after a pass are in one class before it, and so is what
\* they were before the last card.
Splits(cards, p, n) ==
  /\ \A t, u \in Holes(cards) : n.class[t] = n.class[u] => p.class[t] = p.class[u]
  /\ \A t, u \in Pairs(cards) : n.class[t] = n.class[u] =>
       p.class[t] = p.class[u] /\ n.class[<<t[1]>>] = n.class[<<u[1]>>]
  /\ \A t, u \in Triples(cards) : n.class[t] = n.class[u] =>
       p.class[t] = p.class[u] /\ n.class[<<t[1], t[2]>>] = n.class[<<u[1], u[2]>>]

LEMMA PassSplits ==
  ASSUME NEW cards \in SUBSET Some, NEW p, NEW rank, NEW opp, NEW n,
         Fits(cards, p, rank), n = label(cards, p, rank, opp)
  PROVE  Splits(cards, p, n)
<1> PICK r3, r2, c0, c1, c2 : PassBy(cards, p, rank, opp, n, r3, r2, c0, c1, c2)
  BY PassIs
<1>1. /\ \A t \in Pairs(cards) : <<t[1]>> \in Holes(cards)
      /\ \A t \in Triples(cards) : <<t[1], t[2]>> \in Pairs(cards)
  BY PairIs, TripleIs
<1> QED
  BY <1>1 DEF PassBy, Splits

\* Before the turn, what is left over for cards of one class can be matched so
\* that it leads to the same classes.
LEMMA PassLeadsOn ==
  ASSUME NEW cards \in SUBSET Some, NEW p, NEW rank, NEW opp, NEW n,
         Fits(cards, p, rank), n = label(cards, p, rank, opp)
  PROVE  /\ \A t, u \in Holes(cards) : n.class[t] = n.class[u] => SameNext(cards, n.class, t, u)
         /\ \A t, u \in Pairs(cards) : n.class[t] = n.class[u] => SameNext(cards, n.class, t, u)
<1> PICK r3, r2, c0, c1, c2 : PassBy(cards, p, rank, opp, n, r3, r2, c0, c1, c2)
  BY PassIs
<1>1. ASSUME NEW t \in Holes(cards), NEW u \in Holes(cards), n.class[t] = n.class[u]
      PROVE  SameNext(cards, n.class, t, u)
  <2>1. c0[t] = c0[u] /\ SameNext(cards, r2, t, u)
    BY <1>1 DEF PassBy
  <2>2. PICK b \in Matching(cards, t, u) :
          \A d \in Left(cards, t) : r2[Append(t, d)] = r2[Append(u, b[d])]
    BY <2>1 DEF SameNext
  <2>3. ASSUME NEW d \in Left(cards, t)
        PROVE  n.class[Append(t, d)] = n.class[Append(u, b[d])]
    <3> DEFINE x == Append(t, d)
               y == Append(u, b[d])
    <3>1. b[d] \in Left(cards, u)
      BY MatchingIs
    <3>2. x = <<t[1], d>> /\ x \in Pairs(cards) /\ y = <<u[1], b[d]>> /\ y \in Pairs(cards)
      BY <3>1, HoleIs DEF Left
    <3>3. x[1] = t[1] /\ y[1] = u[1] /\ t = <<t[1]>> /\ u = <<u[1]>>
      BY <3>2, HoleIs
    <3>4. r2[x] = r2[y]
      BY <2>2
    <3> HIDE DEF x, y
    <3>5. c0[<<x[1]>>] = c0[<<y[1]>>]
      BY <2>1, <3>3, Zenon
    <3>6. c1[x] = c1[y]
      BY <3>2, <3>4, <3>5 DEF PassBy
    <3>7. n.class[x] = n.class[y]
      BY <3>2, <3>6 DEF PassBy
    <3> QED
      BY <3>7 DEF x, y
  <2> QED
    BY <2>3 DEF SameNext
<1>2. ASSUME NEW t \in Pairs(cards), NEW u \in Pairs(cards), n.class[t] = n.class[u]
      PROVE  SameNext(cards, n.class, t, u)
  <2>1. c1[t] = c1[u]
    BY <1>2 DEF PassBy
  <2>0. SameNext(cards, r3, t, u)
    <3>1. r2[t] = r2[u]
      BY <2>1 DEF PassBy
    <3> QED
      BY <3>1 DEF PassBy
  <2>2. PICK b \in Matching(cards, t, u) :
          \A d \in Left(cards, t) : r3[Append(t, d)] = r3[Append(u, b[d])]
    BY <2>0 DEF SameNext
  <2>3. ASSUME NEW d \in Left(cards, t)
        PROVE  n.class[Append(t, d)] = n.class[Append(u, b[d])]
    <3> DEFINE x == Append(t, d)
               y == Append(u, b[d])
    <3>1. b[d] \in Left(cards, u)
      BY MatchingIs
    <3>2. x = <<t[1], t[2], d>> /\ x \in Triples(cards)
      BY PairIs DEF Left
    <3>3. y = <<u[1], u[2], b[d]>> /\ y \in Triples(cards)
      BY <3>1, PairIs DEF Left
    <3>4. x[1] = t[1] /\ y[1] = u[1] /\ x[2] = t[2] /\ y[2] = u[2]
      BY <3>2, <3>3
    <3>5. t = <<t[1], t[2]>> /\ u = <<u[1], u[2]>>
      BY PairIs, Zenon
    <3>6. r3[x] = r3[y]
      BY <2>2
    <3> HIDE DEF x, y
    <3>7. c1[<<x[1], x[2]>>] = c1[<<y[1], y[2]>>]
      BY <2>1, <3>4, <3>5, Zenon
    <3>8. c2[x] = c2[y]
      BY <3>2, <3>3, <3>6, <3>7 DEF PassBy
    <3>9. n.class[x] = n.class[y]
      BY <3>2, <3>3, <3>8 DEF PassBy
    <3> QED
      BY <3>9 DEF x, y
  <2> QED
    BY <2>3 DEF SameNext
<1> QED
  BY <1>1, <1>2

\* The number of round 2 classes is the count the loop compares.
LEMMA PassCounts ==
  ASSUME NEW cards \in SUBSET Some, NEW p, NEW rank, NEW opp, NEW n,
         Fits(cards, p, rank), n = label(cards, p, rank, opp)
  PROVE  n.counts[2] = Cardinality({n.class[t] : t \in Triples(cards)})
<1> PICK r3, r2, c0, c1, c2 : PassBy(cards, p, rank, opp, n, r3, r2, c0, c1, c2)
  BY PassIs
<1> QED
  BY DEF PassBy

-----------------------------------------------------------------------------
(* The loop *)

\* Cards of one class lead to the same.
NothingLost(class) ==
  \A r \in Round : \A t, u \in Tuples(r) :
    class[t] = class[u] => Consequences(class, t) = Consequences(class, u)

\* So they do, and were in one class before their last card.
Faithful(class) ==
  /\ NothingLost(class)
  /\ \A t, u \in Pairs(deck) : class[t] = class[u] => class[<<t[1]>>] = class[<<u[1]>>]
  /\ \A t, u \in Triples(deck) :
       class[t] = class[u] => class[<<t[1], t[2]>>] = class[<<u[1], u[2]>>]

Finer(class, other) ==
  \A r \in Round : \A t, u \in Tuples(r) : class[t] = class[u] => other[t] = other[u]

GInv ==
  /\ deck \in Decks
  /\ current.counts[2] = Cardinality({current.class[t] : t \in Triples(deck)})
  /\ \A class : Faithful(class) => Finer(class, current.class)
  /\ AllSuits(deck) => SuitBlind(deck, current.class)
  /\ outcome = "returned" => Faithful(current.class)

LEMMA RoundIs ==
  /\ Round = {0, 1, 2}
  /\ Tuples(0) = Holes(deck) /\ Tuples(1) = Pairs(deck) /\ Tuples(2) = Triples(deck)
  BY DEF Round, Tuples

LEMMA DeckIs == deck \in Decks => deck \in SUBSET Some /\ IdsFit(deck, kIdRange)
  BY DecksAssumption DEF Some

\* What is finer than a partition, and faithful, is finer than the next one.
LEMMA StaysFiner ==
  ASSUME deck \in SUBSET Some, NEW class, Faithful(class), NEW p, NEW opp, Finer(class, p.class),
         Fits(deck, p, showdown_ranks(deck)),
         NEW n, n = label(deck, p, showdown_ranks(deck), opp)
  PROVE  Finer(class, n.class)
<1> DEFINE rank == showdown_ranks(deck)
<1> PICK r3, r2, c0, c1, c2 : PassBy(deck, p, rank, opp, n, r3, r2, c0, c1, c2)
  BY PassIs
<1>1. ASSUME NEW t \in Triples(deck), NEW u \in Triples(deck), class[t] = class[u]
      PROVE  r3[t] = r3[u]
  <2>1. p.class[t] = p.class[u] /\ Consequences(class, t) = Consequences(class, u)
    BY <1>1, RoundIs DEF Faithful, NothingLost, Finer
  <2>2. SameDuels(deck, class, rank, TRUE, t, u)
    BY <2>1, ConsequencesDuels
  <2> HIDE DEF rank
  <2>3. PICK b \in Matching(deck, t, u) : \A d \in Left(deck, t) :
          /\ class[Against(t, d)] = class[Against(u, b[d])]
          /\ Outcome(rank[t], rank[Against(t, d)]) = Outcome(rank[u], rank[Against(u, b[d])])
    BY <2>2 DEF SameDuels
  <2>4. ASSUME NEW d \in Left(deck, t)
        PROVE  p.class[Against(t, d)] = p.class[Against(u, b[d])]
    <3>1. b[d] \in Left(deck, u)
      BY MatchingIs
    <3>2. Against(t, d) \in Triples(deck) /\ Against(u, b[d]) \in Triples(deck)
      BY <3>1, TripleIs DEF Left, Against
    <3> QED
      BY <2>3, <3>2, RoundIs DEF Finer
  <2>5. SameDuels(deck, p.class, rank, opp, t, u)
    BY <2>3, <2>4 DEF SameDuels
  <2> QED
    BY <2>1, <2>5 DEF PassBy
<1> HIDE DEF rank
<1>2. ASSUME NEW t \in Pairs(deck), NEW u \in Pairs(deck), class[t] = class[u]
      PROVE  r2[t] = r2[u]
  <2>1. p.class[t] = p.class[u] /\ Consequences(class, t) = Consequences(class, u)
    BY <1>2, RoundIs DEF Faithful, NothingLost, Finer
  <2>2. Len(t) = 2 /\ Len(u) = 2
    BY PairIs
  <2>3. SameNext(deck, class, t, u)
    BY <2>1, <2>2, ConsequencesNext
  <2>4. PICK b \in Matching(deck, t, u) :
          \A d \in Left(deck, t) : class[Append(t, d)] = class[Append(u, b[d])]
    BY <2>3 DEF SameNext
  <2>5. ASSUME NEW d \in Left(deck, t)
        PROVE  r3[Append(t, d)] = r3[Append(u, b[d])]
    <3>1. b[d] \in Left(deck, u)
      BY MatchingIs
    <3>2. Append(t, d) \in Triples(deck)
      BY PairIs DEF Left
    <3>3. Append(u, b[d]) \in Triples(deck)
      BY <3>1, PairIs DEF Left
    <3> QED
      BY <1>1, <2>4, <3>2, <3>3
  <2>6. SameNext(deck, r3, t, u)
    BY <2>5 DEF SameNext
  <2> QED
    BY <2>1, <2>6 DEF PassBy
<1>3. ASSUME NEW t \in Holes(deck), NEW u \in Holes(deck), class[t] = class[u]
      PROVE  c0[t] = c0[u]
  <2>1. p.class[t] = p.class[u] /\ Consequences(class, t) = Consequences(class, u)
    BY <1>3, RoundIs DEF Faithful, NothingLost, Finer
  <2>2. Len(t) = 1 /\ Len(u) = 1
    BY HoleIs
  <2>3. SameNext(deck, class, t, u)
    BY <2>1, <2>2, ConsequencesNext
  <2>4. PICK b \in Matching(deck, t, u) :
          \A d \in Left(deck, t) : class[Append(t, d)] = class[Append(u, b[d])]
    BY <2>3 DEF SameNext
  <2>5. ASSUME NEW d \in Left(deck, t)
        PROVE  r2[Append(t, d)] = r2[Append(u, b[d])]
    <3>1. b[d] \in Left(deck, u)
      BY MatchingIs
    <3>2. Append(t, d) \in Pairs(deck) /\ Append(u, b[d]) \in Pairs(deck)
      BY <3>1, HoleIs DEF Left
    <3> QED
      BY <1>2, <2>4, <3>2
  <2>6. SameNext(deck, r2, t, u)
    BY <2>5 DEF SameNext
  <2> QED
    BY <2>1, <2>6 DEF PassBy
<1>4. ASSUME NEW t \in Pairs(deck), NEW u \in Pairs(deck), class[t] = class[u]
      PROVE  c1[t] = c1[u]
  <2>1. <<t[1]>> \in Holes(deck) /\ <<u[1]>> \in Holes(deck)
    BY PairIs
  <2>2. class[<<t[1]>>] = class[<<u[1]>>]
    BY <1>4 DEF Faithful
  <2>3. c0[<<t[1]>>] = c0[<<u[1]>>]
    BY <1>3, <2>1, <2>2
  <2> QED
    BY <1>2, <1>4, <2>3 DEF PassBy
<1>5. ASSUME NEW t \in Triples(deck), NEW u \in Triples(deck), class[t] = class[u]
      PROVE  c2[t] = c2[u]
  <2>1. <<t[1], t[2]>> \in Pairs(deck) /\ <<u[1], u[2]>> \in Pairs(deck)
    BY TripleIs
  <2>2. class[<<t[1], t[2]>>] = class[<<u[1], u[2]>>]
    BY <1>5 DEF Faithful
  <2>3. c1[<<t[1], t[2]>>] = c1[<<u[1], u[2]>>]
    BY <1>4, <2>1, <2>2
  <2> QED
    BY <1>1, <1>5, <2>3 DEF PassBy
<1>6. /\ \A t, u \in Holes(deck) : class[t] = class[u] => n.class[t] = n.class[u]
      /\ \A t, u \in Pairs(deck) : class[t] = class[u] => n.class[t] = n.class[u]
      /\ \A t, u \in Triples(deck) : class[t] = class[u] => n.class[t] = n.class[u]
  BY <1>3, <1>4, <1>5 DEF PassBy
<1> QED
  BY <1>6, RoundIs DEF Finer

\* A pass that leaves the number of round 2 classes as it was splits none of
\* them, and then what it returns loses nothing.
LEMMA SettledIsFaithful ==
  ASSUME deck \in SUBSET Some, NEW p, Fits(deck, p, showdown_ranks(deck)),
         NEW n, n = label(deck, p, showdown_ranks(deck), TRUE),
         p.counts[2] = Cardinality({p.class[t] : t \in Triples(deck)}),
         n.counts[2] = p.counts[2]
  PROVE  Faithful(n.class)
<1> DEFINE rank == showdown_ranks(deck)
<1> PICK r3, r2, c0, c1, c2 : PassBy(deck, p, rank, TRUE, n, r3, r2, c0, c1, c2)
  BY PassIs
<1>1. /\ \A t, u \in Holes(deck) : n.class[t] = n.class[u] => SameNext(deck, n.class, t, u)
      /\ \A t, u \in Pairs(deck) : n.class[t] = n.class[u] => SameNext(deck, n.class, t, u)
  BY PassLeadsOn
<1>2. /\ \A t, u \in Pairs(deck) : n.class[t] = n.class[u] => n.class[<<t[1]>>] = n.class[<<u[1]>>]
      /\ \A t, u \in Triples(deck) : n.class[t] = n.class[u] =>
           p.class[t] = p.class[u] /\ n.class[<<t[1], t[2]>>] = n.class[<<u[1], u[2]>>]
  <2>1. Splits(deck, p, n)
    BY PassSplits
  <2> QED
    BY <2>1 DEF Splits
<1>3. \A t, u \in Triples(deck) : p.class[t] = p.class[u] => n.class[t] = n.class[u]
  <2> DEFINE a == n.class
             b == p.class
             T == Triples(deck)
  <2>1. Cardinality(ClassesOf(T, a)) = Cardinality(ClassesOf(T, b))
    BY DEF PassBy, ClassesOf
  <2>2. IsFiniteSet(T)
    BY RoundsListed DEF Listed
  <2>3. \A t, u \in T : a[t] = a[u] => b[t] = b[u]
    BY <1>2
  <2> HIDE DEF a, b, T
  <2>4. \A t, u \in T : b[t] = b[u] => a[t] = a[u]
    BY <2>1, <2>2, <2>3, Settles
  <2> QED
    BY <2>4 DEF a, b, T
<1>4. ASSUME NEW t \in Triples(deck), NEW u \in Triples(deck), n.class[t] = n.class[u]
      PROVE  Consequences(n.class, t) = Consequences(n.class, u)
  <2> HIDE DEF rank
  <2>1. SameDuels(deck, p.class, rank, TRUE, t, u)
    <3>1. n.class[t] = c2[t] /\ n.class[u] = c2[u]
      BY DEF PassBy
    <3>2. c2[t] = c2[u]
      BY <1>4, <3>1
    <3>3. r3[t] = r3[u]
      BY <3>2 DEF PassBy
    <3> QED
      BY <3>3 DEF PassBy
  <2>2. PICK b \in Matching(deck, t, u) : \A d \in Left(deck, t) :
          /\ p.class[Against(t, d)] = p.class[Against(u, b[d])]
          /\ Outcome(rank[t], rank[Against(t, d)]) = Outcome(rank[u], rank[Against(u, b[d])])
    BY <2>1 DEF SameDuels
  <2>3. ASSUME NEW d \in Left(deck, t)
        PROVE  n.class[Against(t, d)] = n.class[Against(u, b[d])]
    <3>1. b[d] \in Left(deck, u)
      BY MatchingIs
    <3>2. Against(t, d) \in Triples(deck) /\ Against(u, b[d]) \in Triples(deck)
      BY <3>1, TripleIs DEF Left, Against
    <3> QED
      BY <1>3, <2>2, <3>2
  <2>4. SameDuels(deck, n.class, rank, TRUE, t, u)
    BY <2>2, <2>3 DEF SameDuels
  <2> QED
    BY <2>4, ConsequencesDuels DEF rank
<1> HIDE DEF rank
<1>5. ASSUME NEW t \in Pairs(deck), NEW u \in Pairs(deck), n.class[t] = n.class[u]
      PROVE  Consequences(n.class, t) = Consequences(n.class, u)
  <2>1. Len(t) # 3 /\ Len(u) # 3
    <3>1. Len(t) = 2 /\ Len(u) = 2
      BY PairIs
    <3> QED
      BY <3>1
  <2> QED
    BY <1>1, <1>5, <2>1, ConsequencesNext
<1>6. ASSUME NEW t \in Holes(deck), NEW u \in Holes(deck), n.class[t] = n.class[u]
      PROVE  Consequences(n.class, t) = Consequences(n.class, u)
  <2>1. Len(t) # 3 /\ Len(u) # 3
    BY HoleIs
  <2> QED
    BY <1>1, <1>6, <2>1, ConsequencesNext
<1>7. NothingLost(n.class)
  <2> DEFINE class == n.class
  <2> HIDE DEF class
  <2>1. /\ \A t, u \in Holes(deck) : class[t] = class[u] => Consequences(class, t) = Consequences(class, u)
        /\ \A t, u \in Pairs(deck) : class[t] = class[u] => Consequences(class, t) = Consequences(class, u)
        /\ \A t, u \in Triples(deck) : class[t] = class[u] => Consequences(class, t) = Consequences(class, u)
    BY <1>4, <1>5, <1>6 DEF class
  <2>2. NothingLost(class)
    BY <2>1, RoundIs DEF NothingLost
  <2> QED
    BY <2>2 DEF class
<1> QED
  BY <1>2, <1>7 DEF Faithful

\* What holds of a partition holds for as long as the deck is the same.
LEMMA SameDeck ==
  ASSUME deck' = deck
  PROVE  /\ \A class : Faithful(class)' <=> Faithful(class)
         /\ \A class, other : Finer(class, other)' <=> Finer(class, other)
<1>1. \A r : Tuples(r)' = Tuples(r)
  BY DEF Tuples
<1>2. \A class, t : Consequences(class, t)' = Consequences(class, t)
  BY DEF Consequences
<1>3. ASSUME NEW class
      PROVE  NothingLost(class)' <=> NothingLost(class)
  BY <1>1, <1>2 DEF NothingLost
<1> QED
  BY <1>1, <1>3 DEF Faithful, Finer

\* A single class is blind to everything.
LEMMA TrivialBlind ==
  ASSUME NEW cards \in SUBSET Some, AllSuits(cards)
  PROVE  SuitBlind(cards, Trivial(cards).class)
<1> DEFINE class == Trivial(cards).class
<1>1. \A t \in Dealt(cards) : class[t] = 0
  BY TableIs DEF Trivial
<1> HIDE DEF class
<1>2. \A s \in Suit : /\ \A t \in Holes(cards) : Swap1(s, t) \in Holes(cards)
                      /\ \A t \in Pairs(cards) : Swap2(s, t) \in Pairs(cards)
                      /\ \A t \in Triples(cards) : Swap3(s, t) \in Triples(cards)
  BY SwapStays
<1>3. SuitBlind(cards, class)
  BY <1>1, <1>2 DEF SuitBlind, Blind1, Blind2, Blind3, Dealt
<1> QED
  BY <1>3 DEF class

LEMMA LoopInit == Init => GInv
<1> SUFFICES ASSUME Init PROVE GInv
  OBVIOUS
<1> DEFINE p == Trivial(deck)
<1>1. deck \in Decks /\ deck \in SUBSET Some /\ outcome = "running"
  BY DeckIs DEF Init
<1>2. current = label(deck, p, showdown_ranks(deck), FALSE)
  BY DEF Init, compute
<1>3. \A t \in Dealt(deck) : p.class[t] = 0
  BY TableIs DEF Trivial
<1>4. Fits(deck, p, showdown_ranks(deck))
  <2>1. AllSuits(deck) => SuitBlind(deck, p.class)
    BY <1>1, TrivialBlind
  <2> HIDE DEF p
  <2> QED
    BY <1>1, <2>1, DeckIs DEF Fits
<1> HIDE DEF p
<1>5. ASSUME NEW class
      PROVE  Finer(class, p.class)
  BY <1>3, RoundIs DEF Finer, Dealt
<1>6. \A class : Faithful(class) => Finer(class, current.class)
  <2> DEFINE opp == FALSE
             n == current
  <2> SUFFICES ASSUME NEW class, Faithful(class)
               PROVE  Finer(class, n.class)
    OBVIOUS
  <2>1. Finer(class, p.class)
    BY <1>5
  <2>2. n = label(deck, p, showdown_ranks(deck), opp)
    BY <1>2
  <2> HIDE DEF opp, n
  <2> QED
    BY <1>1, <1>4, <2>1, <2>2, StaysFiner
<1>7. current.counts[2] = Cardinality({current.class[t] : t \in Triples(deck)})
  <2> DEFINE opp == FALSE
             n == current
  <2>1. n = label(deck, p, showdown_ranks(deck), opp)
    BY <1>2
  <2> HIDE DEF opp, n
  <2>2. n.counts[2] = Cardinality({n.class[t] : t \in Triples(deck)})
    BY <1>1, <1>4, <2>1, PassCounts
  <2> QED
    BY <2>2 DEF n
<1>8. AllSuits(deck) => SuitBlind(deck, current.class)
  <2> DEFINE opp == FALSE
             n == current
  <2>1. n = label(deck, p, showdown_ranks(deck), opp)
    BY <1>2
  <2> HIDE DEF opp, n
  <2>2. AllSuits(deck) => SuitBlind(deck, n.class)
    BY <1>1, <1>4, <2>1, KeysBlind DEF Fits
  <2> QED
    BY <2>2 DEF n
<1> QED
  BY <1>1, <1>6, <1>7, <1>8 DEF GInv

LEMMA LoopNext == GInv /\ [Next]_vars => GInv'
<1> SUFFICES ASSUME GInv, [Next]_vars PROVE GInv'
  OBVIOUS
<1>0. /\ deck \in Decks /\ deck \in SUBSET Some
      /\ Fits(deck, current, showdown_ranks(deck))
  BY DeckIs DEF GInv, Fits
<1>1. CASE Next
  <2> DEFINE n == Relabelled
  <2>1. deck' = deck /\ current' = n /\ n = label(deck, current, showdown_ranks(deck), TRUE)
    BY <1>1 DEF Next, Pass, Relabelled
  <2>2. outcome' = "returned" => n.counts = current.counts
    BY <1>1 DEF Next, Pass, CountsSettled
  <2> HIDE DEF n
  <2>3. ASSUME NEW class, Faithful(class)
        PROVE  Finer(class, n.class)
    <3> DEFINE opp == TRUE
    <3>1. Finer(class, current.class)
      BY <2>3 DEF GInv
    <3>2. n = label(deck, current, showdown_ranks(deck), opp)
      BY <2>1
    <3> HIDE DEF opp
    <3> QED
      BY <1>0, <2>3, <3>1, <3>2, StaysFiner
  <2>4. n.counts[2] = Cardinality({n.class[t] : t \in Triples(deck)})
    <3> DEFINE opp == TRUE
    <3>1. n = label(deck, current, showdown_ranks(deck), opp)
      BY <2>1
    <3> HIDE DEF opp
    <3> QED
      BY <1>0, <3>1, PassCounts
  <2>5. outcome' = "returned" => Faithful(n.class)
    BY <1>0, <2>1, <2>2, SettledIsFaithful DEF GInv
  <2>6. AllSuits(deck) => SuitBlind(deck, n.class)
    <3> DEFINE opp == TRUE
    <3>1. n = label(deck, current, showdown_ranks(deck), opp)
      BY <2>1
    <3> HIDE DEF opp
    <3> QED
      BY <1>0, <3>1, KeysBlind DEF GInv
  <2> QED
    BY <1>0, <2>1, <2>3, <2>4, <2>5, <2>6, SameDeck DEF GInv
<1>2. CASE UNCHANGED vars
  <2>1. deck' = deck /\ current' = current /\ outcome' = outcome
    BY <1>2 DEF vars
  <2> QED
    BY <2>1, SameDeck DEF GInv
<1> QED
  BY <1>1, <1>2

\* At every point of the loop, every partition that loses nothing is finer
\* than the current one, and a returned partition loses nothing itself.
THEOREM LoopKeeps == Spec => []GInv
  BY LoopInit, LoopNext, PTL DEF Spec

\* The unchecked next_id++ never wraps around: in every pass, from the first one
\* from a single class on, each of the five maps holds fewer keys than there are
\* ids.  The 52-card deck has 132,600 tuples in its last round, twice the ids of
\* a uint16_t, but every key is met in a tuple that starts in suit 0.
IdsNeverWrap ==
  LET rank == showdown_ranks(deck)
  IN  \A keys \in PassKeys(deck, Trivial(deck), rank, FALSE)
                  \cup PassKeys(deck, current, rank, TRUE) : KeyCount(keys) < kIdRange
THEOREM NoIdWraps == Spec => []IdsNeverWrap
<1>1. GInv => IdsNeverWrap
  <2> SUFFICES ASSUME GInv PROVE IdsNeverWrap
    OBVIOUS
  <2> DEFINE rank == showdown_ranks(deck)
             no == FALSE
             yes == TRUE
             p == Trivial(deck)
  <2>1. deck \in SUBSET Some /\ IdsFit(deck, kIdRange)
    BY DeckIs DEF GInv
  <2>2. Fits(deck, p, rank) /\ Fits(deck, current, rank)
    <3>1. AllSuits(deck) => SuitBlind(deck, p.class)
      BY <2>1, TrivialBlind
    <3> HIDE DEF p
    <3> QED
      BY <2>1, <3>1 DEF GInv, Fits
  <2> HIDE DEF rank, no, yes, p
  <2>3. /\ \A keys \in PassKeys(deck, p, rank, no) : KeyCount(keys) < kIdRange
        /\ \A keys \in PassKeys(deck, current, rank, yes) : KeyCount(keys) < kIdRange
    BY <2>1, <2>2, KeysFit
  <2> QED
    BY <2>3 DEF IdsNeverWrap, rank, no, yes, p
<1> QED
  BY <1>1, LoopKeeps, PTL

\* RihPartition::refined() only ever splits: cards that a pass puts into one
\* class were in one class before it.
THEOREM PassesOnlySplit == Spec => PassOnlySplits
<1>1. GInv /\ [Next]_vars =>
        [\A r \in Round : \A t, u \in Tuples(r) : Same(current', t, u) => Same(current, t, u)]_vars
  <2> SUFFICES ASSUME GInv, Next
               PROVE  \A r \in Round : \A t, u \in Tuples(r) :
                        Same(current', t, u) => Same(current, t, u)
    OBVIOUS
  <2>1. /\ deck \in SUBSET Some /\ Fits(deck, current, showdown_ranks(deck))
        /\ current' = label(deck, current, showdown_ranks(deck), TRUE)
    BY DeckIs DEF GInv, Next, Pass, Relabelled, Fits
  <2>2. PICK n : n = current'
    OBVIOUS
  <2>3. Splits(deck, current, n)
    <3> DEFINE opp == TRUE
    <3>1. n = label(deck, current, showdown_ranks(deck), opp)
      BY <2>1, <2>2
    <3> HIDE DEF opp
    <3> QED
      BY <2>1, <3>1, PassSplits
  <2>4. /\ \A t, u \in Holes(deck) : n.class[t] = n.class[u] => current.class[t] = current.class[u]
        /\ \A t, u \in Pairs(deck) : n.class[t] = n.class[u] => current.class[t] = current.class[u]
        /\ \A t, u \in Triples(deck) : n.class[t] = n.class[u] => current.class[t] = current.class[u]
    BY <2>3 DEF Splits
  <2>5. \A r \in Round : \A t, u \in Tuples(r) :
          n.class[t] = n.class[u] => current.class[t] = current.class[u]
    BY <2>4, RoundIs
  <2> QED
    BY <2>2, <2>5 DEF Same
<1> QED
  BY <1>1, LoopKeeps, PTL DEF Spec, PassOnlySplits

\* When the loop returns, cards of one class lead to the same classes and the
\* same outcomes: the labels of refined() lose nothing.
THEOREM ReturnsLossless == Spec => []Lossless
<1>1. GInv => Lossless
  <2> SUFFICES ASSUME GInv, outcome = "returned"
               PROVE  LET leads == Table([t \in AllTuples |-> Consequences(current.class, t)])
                      IN  \A r \in Round : \A t, u \in Tuples(r) :
                            Same(current, t, u) => leads[t] = leads[u]
    BY DEF Lossless
  <2>1. NothingLost(current.class)
    BY DEF GInv, Faithful
  <2>2. \A r \in Round : Tuples(r) \in SUBSET AllTuples
    BY DEF AllTuples
  <2> DEFINE leads == Table([t \in AllTuples |-> Consequences(current.class, t)])
  <2>3. \A t \in AllTuples : leads[t] = Consequences(current.class, t)
    BY TableIs
  <2> HIDE DEF leads
  <2>4. ASSUME NEW r \in Round, NEW t \in Tuples(r), NEW u \in Tuples(r), Same(current, t, u)
        PROVE  leads[t] = leads[u]
    <3>1. Consequences(current.class, t) = Consequences(current.class, u)
      BY <2>1, <2>4 DEF NothingLost, Same
    <3>2. t \in AllTuples /\ u \in AllTuples
      BY <2>2
    <3> QED
      BY <2>3, <3>1, <3>2
  <2> QED
    BY <2>4 DEF leads
<1> QED
  BY <1>1, LoopKeeps, PTL

\* The header calls refined() "the coarsest fixed point of the full condition":
\* what the loop returns is a partition that loses nothing, and every other
\* such partition of the deck, whatever made it, is finer.
THEOREM ReturnedIsCoarsest ==
  Spec => [](outcome = "returned" =>
               /\ Faithful(current.class)
               /\ \A class : Faithful(class) => Finer(class, current.class))
<1>1. GInv => (outcome = "returned" =>
                 /\ Faithful(current.class)
                 /\ \A class : Faithful(class) => Finer(class, current.class))
  BY DEF GInv
<1> QED
  BY <1>1, LoopKeeps, PTL

-----------------------------------------------------------------------------
(* The textbook iteration *)

\* The tuples of all rounds, told apart by their indices within a round.
LEMMA TuplesAre ==
  ASSUME deck \in SUBSET Some
  PROVE  /\ AllTuples = Holes(deck) \cup Pairs(deck) \cup Triples(deck)
         /\ IsFiniteSet(AllTuples)
         /\ \A t \in AllTuples : TupleIndex(t) \in Nat /\ Len(t) \in 1 .. 3
         /\ \A t, u \in AllTuples : Len(t) = Len(u) /\ TupleIndex(t) = TupleIndex(u) => t = u
         /\ \A r \in Round : /\ Tuples(r) \subseteq AllTuples
                             /\ \A t \in AllTuples : t \in Tuples(r) <=> Len(t) = r + 1
<1>1. AllTuples = Holes(deck) \cup Pairs(deck) \cup Triples(deck)
  BY RoundIs DEF AllTuples
<1>2. /\ \A t \in Holes(deck) : Len(t) = 1
      /\ \A t \in Pairs(deck) : Len(t) = 2
      /\ \A t \in Triples(deck) : Len(t) = 3
  BY HoleIs, PairIs, TripleIs
<1>3. Listed(Holes(deck)) /\ Listed(Pairs(deck)) /\ Listed(Triples(deck))
  BY RoundsListed
<1>4. IsFiniteSet(AllTuples)
  <2>1. IsFiniteSet(Holes(deck) \cup Pairs(deck))
    BY <1>3, FS_Union DEF Listed
  <2> QED
    BY <1>1, <1>3, <2>1, FS_Union DEF Listed
<1>5. \A t \in AllTuples : TupleIndex(t) \in Nat /\ Len(t) \in 1 .. 3
  BY <1>1, <1>2, <1>3 DEF Listed
<1>6. ASSUME NEW t \in AllTuples
      PROVE  /\ t \in Holes(deck) <=> Len(t) = 1
             /\ t \in Pairs(deck) <=> Len(t) = 2
             /\ t \in Triples(deck) <=> Len(t) = 3
  <2>1. CASE t \in Holes(deck)
    <3>1. Len(t) = 1
      BY <1>2, <2>1
    <3>2. Len(t) # 2 /\ Len(t) # 3
      BY <3>1
    <3> QED
      BY <1>2, <2>1, <3>1, <3>2, Zenon
  <2>2. CASE t \in Pairs(deck)
    <3>1. Len(t) = 2
      BY <1>2, <2>2
    <3>2. Len(t) # 1 /\ Len(t) # 3
      BY <3>1
    <3> QED
      BY <1>2, <2>2, <3>1, <3>2, Zenon
  <2>3. CASE t \in Triples(deck)
    <3>1. Len(t) = 3
      BY <1>2, <2>3
    <3>2. Len(t) # 1 /\ Len(t) # 2
      BY <3>1
    <3> QED
      BY <1>2, <2>3, <3>1, <3>2, Zenon
  <2> QED
    BY <1>1, <2>1, <2>2, <2>3, Zenon
<1>7. ASSUME NEW t \in AllTuples, NEW u \in AllTuples, Len(t) = Len(u), TupleIndex(t) = TupleIndex(u)
      PROVE  t = u
  <2>1. \/ t \in Holes(deck) /\ u \in Holes(deck)
        \/ t \in Pairs(deck) /\ u \in Pairs(deck)
        \/ t \in Triples(deck) /\ u \in Triples(deck)
    BY <1>1, <1>6, <1>7, Zenon
  <2> QED
    BY <1>3, <1>7, <2>1 DEF Listed
<1>8. ASSUME NEW r \in Round
      PROVE  /\ Tuples(r) \subseteq AllTuples
             /\ \A t \in AllTuples : t \in Tuples(r) <=> Len(t) = r + 1
  <2>1. /\ Tuples(0) \subseteq AllTuples /\ Tuples(1) \subseteq AllTuples /\ Tuples(2) \subseteq AllTuples
        /\ \A t \in AllTuples : /\ t \in Tuples(0) <=> Len(t) = 1
                                /\ t \in Tuples(1) <=> Len(t) = 2
                                /\ t \in Tuples(2) <=> Len(t) = 3
    BY <1>1, <1>6, RoundIs, Zenon
  <2>2. r \in {0, 1, 2} /\ 0 + 1 = 1 /\ 1 + 1 = 2 /\ 2 + 1 = 3
    BY RoundIs
  <2> QED
    BY <2>1, <2>2, Zenon
<1> QED
  BY <1>1, <1>4, <1>5, <1>7, <1>8

\* The tuples in the class of t.
ClassMates(class, t) == {u \in AllTuples : Len(u) = Len(t) /\ class[u] = class[t]}

\* Each class named after its first tuple.
Named(class) == [t \in AllTuples |-> MinOf({TupleIndex(u) : u \in ClassMates(class, t)})]

\* What a split keeps together: classes, consequences and parents agree.
Alike(class, t, u) ==
  /\ class[t] = class[u] /\ Consequences(class, t) = Consequences(class, u)
  /\ Len(t) # 1 => class[Parent(t)] = class[Parent(u)]

LEMMA SplitIs ==
  ASSUME deck \in SUBSET Some, NEW class
  PROVE  /\ \A t, u \in AllTuples : Len(t) = Len(u) =>
              (Split(class)[t] = Split(class)[u] <=> Alike(class, t, u))
         /\ Split(class) = Named(Split(class))
<1> DEFINE key(t) == << class[t], Consequences(class, t),
                        IF Len(t) = 1 THEN 0 ELSE class[Parent(t)] >>
           Mates(t) == {u \in AllTuples : Len(u) = Len(t) /\ key(u) = key(t)}
           Places(t) == {TupleIndex(u) : u \in Mates(t)}
           first(t) == MinOf(Places(t))
<1>1. Split(class) = [t \in AllTuples |-> first(t)]
  <2> DEFINE keys == Table([t \in AllTuples |-> key(t)])
             by == [t \in AllTuples |->
                      MinOf({TupleIndex(u) : u \in {v \in AllTuples :
                                              Len(v) = Len(t) /\ keys[v] = keys[t]}})]
  <2>1. Split(class) = by
    <3>1. Split(class) = Table(by)
      BY ZenonT(30) DEF Split
    <3> HIDE DEF by
    <3> QED
      BY <3>1, TableIs
  <2>2. \A t \in AllTuples : keys[t] = key(t)
    BY TableIs
  <2> HIDE DEF keys, key
  <2>3. \A t \in AllTuples :
          {v \in AllTuples : Len(v) = Len(t) /\ keys[v] = keys[t]} = Mates(t)
    BY <2>2
  <2> HIDE DEF Mates
  <2> QED
    BY <2>1, <2>3
<1> HIDE DEF key
<1>2. ASSUME NEW t \in AllTuples
      PROVE  \E u \in Mates(t) : first(t) = TupleIndex(u)
  <2> DEFINE P == Places(t)
  <2>1. P \subseteq Nat /\ P # {}
    BY TuplesAre
  <2>2. \A n \in P : \E u \in Mates(t) : n = TupleIndex(u)
    OBVIOUS
  <2> HIDE DEF P, Mates
  <2>3. MinOf(P) \in P
    BY <2>1, Least DEF MinOf
  <2> QED
    BY <2>2, <2>3 DEF P
<1>3. ASSUME NEW t \in AllTuples, NEW u \in AllTuples, Len(t) = Len(u)
      PROVE  first(t) = first(u) <=> key(t) = key(u)
  <2>1. ASSUME key(t) = key(u)
        PROVE  first(t) = first(u)
    <3>1. Mates(t) = Mates(u)
      BY <1>3, <2>1
    <3> HIDE DEF Mates
    <3> QED
      BY <3>1
  <2>2. ASSUME first(t) = first(u)
        PROVE  key(t) = key(u)
    <3> HIDE DEF first
    <3>1. PICK v \in Mates(t) : first(t) = TupleIndex(v)
      BY <1>2
    <3>2. PICK w \in Mates(u) : first(u) = TupleIndex(w)
      BY <1>2
    <3>3. v = w
      BY <1>3, <2>2, <3>1, <3>2, TuplesAre
    <3> QED
      BY <3>3
  <2> QED
    BY <2>1, <2>2
<1> HIDE DEF first
<1>4. ASSUME NEW t \in AllTuples, NEW u \in AllTuples, Len(t) = Len(u)
      PROVE  Split(class)[t] = Split(class)[u] <=> key(t) = key(u)
  BY <1>1, <1>3, <1>4
<1>5. \A t, u \in AllTuples : Len(t) = Len(u) => (key(t) = key(u) <=> Alike(class, t, u))
  BY DEF key, Alike
<1>6. \A t \in AllTuples : ClassMates(Split(class), t) = Mates(t)
  BY <1>4 DEF ClassMates
<1> HIDE DEF Mates
<1>7. Split(class) = Named(Split(class))
  BY <1>1, <1>6 DEF first, Named
<1> QED
  BY <1>4, <1>5, <1>7

LEMMA ParentIs ==
  ASSUME deck \in SUBSET Some
  PROVE  /\ \A t \in Pairs(deck) : Parent(t) = <<t[1]>>
         /\ \A t \in Triples(deck) : Parent(t) = <<t[1], t[2]>>
<1>1. ASSUME NEW t \in Pairs(deck) PROVE Parent(t) = <<t[1]>>
  <2> DEFINE s == SubSeq(t, 1, 1)
  <2>1. t \in Seq(deck) /\ Len(t) = 2
    <3>1. t = <<t[1], t[2]>> /\ t[1] \in deck /\ t[2] \in deck /\ Len(t) = 2
      BY PairIs
    <3>2. <<t[1], t[2]>> \in Seq(deck)
      BY <3>1
    <3> QED
      BY <3>1, <3>2, Zenon
  <2>2. s \in Seq(deck) /\ Len(s) = 1 /\ s[1] = t[1]
    BY <2>1
  <2> HIDE DEF s
  <2>3. s = <<t[1]>>
    BY <2>2
  <2> QED
    BY <2>1, <2>3 DEF Parent, s
<1>2. ASSUME NEW t \in Triples(deck) PROVE Parent(t) = <<t[1], t[2]>>
  <2> DEFINE s == SubSeq(t, 1, 2)
  <2>1. t \in Seq(deck) /\ Len(t) = 3
    <3>1. t = <<t[1], t[2], t[3]>> /\ t[1] \in deck /\ t[2] \in deck /\ t[3] \in deck /\ Len(t) = 3
      BY TripleIs
    <3>2. <<t[1], t[2], t[3]>> \in Seq(deck)
      BY <3>1
    <3> QED
      BY <3>1, <3>2, Zenon
  <2>2. s \in Seq(deck) /\ Len(s) = 2 /\ s[1] = t[1] /\ s[2] = t[2]
    BY <2>1
  <2> HIDE DEF s
  <2>3. s = <<t[1], t[2]>>
    BY <2>2
  <2> QED
    BY <2>1, <2>3 DEF Parent, s
<1> QED
  BY <1>1, <1>2

\* A partition that a split leaves alone loses nothing.
LEMMA SettledSplitIsFaithful ==
  ASSUME deck \in SUBSET Some, NEW class, Split(class) = class
  PROVE  Faithful(class)
<1>1. \A t, u \in AllTuples : Len(t) = Len(u) => (class[t] = class[u] => Alike(class, t, u))
  BY SplitIs
<1>2. NothingLost(class)
  BY <1>1, TuplesAre DEF NothingLost, Alike
<1>3. ASSUME NEW t \in Pairs(deck), NEW u \in Pairs(deck), class[t] = class[u]
      PROVE  class[<<t[1]>>] = class[<<u[1]>>]
  <2>1. t \in AllTuples /\ u \in AllTuples /\ Len(t) = 2 /\ Len(u) = 2
    BY TuplesAre, PairIs
  <2>2. Alike(class, t, u) /\ Len(t) # 1
    BY <1>1, <1>3, <2>1
  <2> QED
    BY <2>2, ParentIs DEF Alike
<1>4. ASSUME NEW t \in Triples(deck), NEW u \in Triples(deck), class[t] = class[u]
      PROVE  class[<<t[1], t[2]>>] = class[<<u[1], u[2]>>]
  <2>1. t \in AllTuples /\ u \in AllTuples /\ Len(t) = 3 /\ Len(u) = 3
    BY TuplesAre, TripleIs
  <2>2. Alike(class, t, u) /\ Len(t) # 1
    BY <1>1, <1>4, <2>1
  <2> QED
    BY <2>2, ParentIs DEF Alike
<1> QED
  BY <1>2, <1>3, <1>4 DEF Faithful

\* A partition that loses nothing is finer than every step of the iteration.
LEMMA SplitStaysCoarser ==
  ASSUME deck \in SUBSET Some, NEW class, Faithful(class), NEW other, Finer(class, other)
  PROVE  Finer(class, Split(other))
<1>1. ASSUME NEW t \in Triples(deck), NEW u \in Triples(deck), class[t] = class[u]
      PROVE  Alike(other, t, u)
  <2> DEFINE rank == showdown_ranks(deck)
  <2>1. other[t] = other[u] /\ Consequences(class, t) = Consequences(class, u)
    BY <1>1, RoundIs DEF Faithful, NothingLost, Finer
  <2>2. SameDuels(deck, class, rank, TRUE, t, u)
    BY <2>1, ConsequencesDuels
  <2> HIDE DEF rank
  <2>3. PICK b \in Matching(deck, t, u) : \A d \in Left(deck, t) :
          /\ class[Against(t, d)] = class[Against(u, b[d])]
          /\ Outcome(rank[t], rank[Against(t, d)]) = Outcome(rank[u], rank[Against(u, b[d])])
    BY <2>2 DEF SameDuels
  <2>4. ASSUME NEW d \in Left(deck, t)
        PROVE  other[Against(t, d)] = other[Against(u, b[d])]
    <3>1. b[d] \in Left(deck, u)
      BY MatchingIs
    <3>2. Against(t, d) \in Triples(deck) /\ Against(u, b[d]) \in Triples(deck)
      BY <3>1, TripleIs DEF Left, Against
    <3> QED
      BY <2>3, <3>2, RoundIs DEF Finer
  <2>5. SameDuels(deck, other, rank, TRUE, t, u)
    BY <2>3, <2>4 DEF SameDuels
  <2>6. Consequences(other, t) = Consequences(other, u)
    BY <2>5, ConsequencesDuels DEF rank
  <2>7. other[Parent(t)] = other[Parent(u)]
    <3>1. <<t[1], t[2]>> \in Pairs(deck) /\ <<u[1], u[2]>> \in Pairs(deck)
      BY TripleIs
    <3>2. class[<<t[1], t[2]>>] = class[<<u[1], u[2]>>]
      BY <1>1 DEF Faithful
    <3>3. other[<<t[1], t[2]>>] = other[<<u[1], u[2]>>]
      BY <3>1, <3>2, RoundIs DEF Finer
    <3> QED
      BY <3>3, ParentIs
  <2> QED
    BY <2>1, <2>6, <2>7 DEF Alike
<1>2. ASSUME NEW t \in Pairs(deck), NEW u \in Pairs(deck), class[t] = class[u]
      PROVE  Alike(other, t, u)
  <2>1. other[t] = other[u] /\ Consequences(class, t) = Consequences(class, u)
    BY <1>2, RoundIs DEF Faithful, NothingLost, Finer
  <2>2. Len(t) # 3 /\ Len(u) # 3
    <3>1. Len(t) = 2 /\ Len(u) = 2
      BY PairIs
    <3> QED
      BY <3>1
  <2>3. SameNext(deck, class, t, u)
    BY <2>1, <2>2, ConsequencesNext
  <2>4. PICK b \in Matching(deck, t, u) :
          \A d \in Left(deck, t) : class[Append(t, d)] = class[Append(u, b[d])]
    BY <2>3 DEF SameNext
  <2>5. ASSUME NEW d \in Left(deck, t)
        PROVE  other[Append(t, d)] = other[Append(u, b[d])]
    <3>1. b[d] \in Left(deck, u)
      BY MatchingIs
    <3>2. Append(t, d) \in Triples(deck)
      BY PairIs DEF Left
    <3>3. Append(u, b[d]) \in Triples(deck)
      BY <3>1, PairIs DEF Left
    <3> QED
      BY <2>4, <3>2, <3>3, RoundIs DEF Finer
  <2>6. SameNext(deck, other, t, u)
    BY <2>5 DEF SameNext
  <2>7. Consequences(other, t) = Consequences(other, u)
    BY <2>2, <2>6, ConsequencesNext
  <2>8. other[Parent(t)] = other[Parent(u)]
    <3>1. <<t[1]>> \in Holes(deck) /\ <<u[1]>> \in Holes(deck)
      BY PairIs
    <3>2. class[<<t[1]>>] = class[<<u[1]>>]
      BY <1>2 DEF Faithful
    <3>3. other[<<t[1]>>] = other[<<u[1]>>]
      BY <3>1, <3>2, RoundIs DEF Finer
    <3> QED
      BY <3>3, ParentIs
  <2> QED
    BY <2>1, <2>7, <2>8 DEF Alike
<1>3. ASSUME NEW t \in Holes(deck), NEW u \in Holes(deck), class[t] = class[u]
      PROVE  Alike(other, t, u)
  <2>1. other[t] = other[u] /\ Consequences(class, t) = Consequences(class, u)
    BY <1>3, RoundIs DEF Faithful, NothingLost, Finer
  <2>2. Len(t) = 1 /\ Len(t) # 3 /\ Len(u) # 3
    BY HoleIs
  <2>3. SameNext(deck, class, t, u)
    BY <2>1, <2>2, ConsequencesNext
  <2>4. PICK b \in Matching(deck, t, u) :
          \A d \in Left(deck, t) : class[Append(t, d)] = class[Append(u, b[d])]
    BY <2>3 DEF SameNext
  <2>5. ASSUME NEW d \in Left(deck, t)
        PROVE  other[Append(t, d)] = other[Append(u, b[d])]
    <3>1. b[d] \in Left(deck, u)
      BY MatchingIs
    <3>2. Append(t, d) \in Pairs(deck) /\ Append(u, b[d]) \in Pairs(deck)
      BY <3>1, HoleIs DEF Left
    <3> QED
      BY <2>4, <3>2, RoundIs DEF Finer
  <2>6. SameNext(deck, other, t, u)
    BY <2>5 DEF SameNext
  <2>7. Consequences(other, t) = Consequences(other, u)
    BY <2>2, <2>6, ConsequencesNext
  <2> QED
    BY <2>1, <2>2, <2>7 DEF Alike
<1>4. ASSUME NEW r \in Round, NEW t \in Tuples(r), NEW u \in Tuples(r), class[t] = class[u]
      PROVE  Split(other)[t] = Split(other)[u]
  <2>1. Alike(other, t, u)
    BY <1>1, <1>2, <1>3, <1>4, RoundIs
  <2>2. t \in AllTuples /\ u \in AllTuples /\ Len(t) = Len(u)
    BY TuplesAre
  <2> QED
    BY <2>1, <2>2, SplitIs
<1> QED
  BY <1>4 DEF Finer

\* A partition has no more classes than there are things, and some.
LEMMA ClassesCounted ==
  ASSUME NEW T, IsFiniteSet(T), T # {}, NEW a
  PROVE  /\ Cardinality(ClassesOf(T, a)) \in Nat
         /\ Cardinality(ClassesOf(T, a)) >= 1
         /\ Cardinality(ClassesOf(T, a)) <= Cardinality(T)
<1> DEFINE A == {a[t] : t \in T}
           g == [t \in T |-> a[t]]
<1>1. A # {}
  OBVIOUS
<1>2. IsFiniteSet(A) /\ Cardinality(A) <= Cardinality(T)
  <2>1. g \in [T -> A] /\ \A x \in A : \E t \in T : g[t] = x
    OBVIOUS
  <2> HIDE DEF g, A
  <2>2. g \in Surjection(T, A)
    BY <2>1, Fun_IsSurj
  <2> QED
    BY <2>2, FS_Surjection
<1> HIDE DEF A
<1>3. Cardinality(A) # 0 /\ Cardinality(A) \in Nat
  BY <1>1, <1>2, FS_EmptySet, FS_CardinalityType
<1> QED
  BY <1>2, <1>3 DEF A, ClassesOf

\* The iteration, from one class for every tuple, as far as it goes.
OneClass == Table([t \in AllTuples |-> 0])
Iterates(f, n) ==
  f = [i \in 0 .. n |-> IF i = 0 THEN OneClass ELSE Split(f[i - 1])]

LEMMA OneClassIs == OneClass = [t \in AllTuples |-> 0]
  BY TableIs DEF OneClass

LEMMA IterationExists == \A n \in Nat : \E f : Iterates(f, n)
<1> DEFINE S == {n \in Nat : \E f : Iterates(f, n)}
<1>1. 0 \in S
  <2> DEFINE f == [i \in 0 .. 0 |-> IF i = 0 THEN OneClass ELSE OneClass]
             g == [i \in 0 .. 0 |-> IF i = 0 THEN OneClass ELSE Split(f[i - 1])]
  <2>1. \A i \in 0 .. 0 : f[i] = g[i]
    OBVIOUS
  <2>2. f = g
    <3>1. f = [i \in 0 .. 0 |-> f[i]] /\ g = [i \in 0 .. 0 |-> g[i]]
      OBVIOUS
    <3> HIDE DEF f, g
    <3> QED
      BY <2>1, <3>1
  <2>3. Iterates(f, 0)
    BY <2>2, Zenon DEF Iterates
  <2> HIDE DEF f
  <2> QED
    BY <2>3
<1>2. ASSUME NEW n \in Nat, n \in S
      PROVE  n + 1 \in S
  <2>1. PICK f : Iterates(f, n)
    BY <1>2
  <2> DEFINE g == [i \in 0 .. n + 1 |-> IF i = 0 THEN OneClass ELSE Split(f[i - 1])]
             h == [i \in 0 .. n + 1 |-> IF i = 0 THEN OneClass ELSE Split(g[i - 1])]
  <2>2. f = [i \in 0 .. n |-> IF i = 0 THEN OneClass ELSE Split(f[i - 1])]
    BY <2>1 DEF Iterates
  <2>3. \A i \in 0 .. n : g[i] = f[i]
    <3> SUFFICES ASSUME NEW i \in 0 .. n PROVE g[i] = f[i]
      OBVIOUS
    <3>1. i \in 0 .. n + 1
      BY <1>2
    <3>2. f[i] = IF i = 0 THEN OneClass ELSE Split(f[i - 1])
      BY <2>2
    <3> QED
      BY <3>1, <3>2
  <2>4. \A i \in 0 .. n + 1 : g[i] = h[i]
    <3> SUFFICES ASSUME NEW i \in 0 .. n + 1 PROVE g[i] = h[i]
      OBVIOUS
    <3>1. i # 0 => i - 1 \in 0 .. n
      BY <1>2
    <3>2. i # 0 => g[i - 1] = f[i - 1]
      BY <2>3, <3>1
    <3> HIDE DEF g
    <3>3. g[i] = IF i = 0 THEN OneClass ELSE Split(f[i - 1])
      BY DEF g
    <3> QED
      BY <3>2, <3>3
  <2>5. g = h
    <3>1. g = [i \in 0 .. n + 1 |-> g[i]] /\ h = [i \in 0 .. n + 1 |-> h[i]]
      OBVIOUS
    <3> HIDE DEF g, h
    <3> QED
      BY <2>4, <3>1
  <2>6. Iterates(g, n + 1)
    BY <2>5, Zenon DEF Iterates
  <2> HIDE DEF g
  <2> QED
    BY <1>2, <2>6
<1> HIDE DEF S
<1>3. \A n \in Nat : n \in S
  BY <1>1, <1>2, Induction
<1> QED
  BY <1>3 DEF S

\* A split that changes a partition made by a split makes a class more, and
\* so before long there is one that changes nothing.
LEMMA IterationSettles ==
  ASSUME deck \in SUBSET Some, NEW most, most = Cardinality(AllTuples),
         AllTuples # {}, NEW f, Iterates(f, most + 1)
  PROVE  \E n \in 0 .. most : f[n + 1] = f[n]
<1> SUFFICES ASSUME \A n \in 0 .. most : f[n + 1] # f[n] PROVE FALSE
  OBVIOUS
<1> DEFINE tag(n) == [t \in AllTuples |-> <<Len(t), f[n][t]>>]
           N(n) == Cardinality(ClassesOf(AllTuples, tag(n)))
<1>1. most \in Nat /\ IsFiniteSet(AllTuples)
  BY TuplesAre, FS_CardinalityType
<1>2. ASSUME NEW n \in 0 .. most
      PROVE  n + 1 \in 1 .. most + 1 /\ f[n + 1] = Split(f[n])
  <2>1. n + 1 \in 0 .. most + 1 /\ n + 1 # 0 /\ (n + 1) - 1 = n
    BY <1>1
  <2>2. f[n + 1] = IF n + 1 = 0 THEN OneClass ELSE Split(f[(n + 1) - 1])
    BY <2>1, Zenon DEF Iterates
  <2> QED
    BY <1>1, <2>1, <2>2
<1>3. ASSUME NEW n \in 0 .. most, NEW t \in AllTuples, NEW u \in AllTuples, tag(n + 1)[t] = tag(n + 1)[u]
      PROVE  tag(n)[t] = tag(n)[u]
  <2>1. Len(t) = Len(u) /\ Split(f[n])[t] = Split(f[n])[u]
    BY <1>2, <1>3
  <2>2. f[n][t] = f[n][u]
    BY <2>1, SplitIs DEF Alike
  <2> QED
    BY <2>1, <2>2
<1>4. ASSUME NEW n \in 1 .. most
      PROVE  ~(\A t, u \in AllTuples : tag(n)[t] = tag(n)[u] => tag(n + 1)[t] = tag(n + 1)[u])
  <2> SUFFICES ASSUME \A t, u \in AllTuples : tag(n)[t] = tag(n)[u] => tag(n + 1)[t] = tag(n + 1)[u]
               PROVE  f[n + 1] = f[n]
    BY <1>1
  <2>1. n \in 0 .. most /\ n - 1 \in 0 .. most /\ (n - 1) + 1 = n
    BY <1>1
  <2>2. f[n] = Split(f[n - 1]) /\ f[n + 1] = Split(f[n])
    BY <1>2, <2>1
  <2>3. f[n] = Named(f[n]) /\ f[n + 1] = Named(f[n + 1])
    BY <2>2, SplitIs
  <2>4. \A t, u \in AllTuples : Len(t) = Len(u) => (f[n][t] = f[n][u] <=> f[n + 1][t] = f[n + 1][u])
    <3> SUFFICES ASSUME NEW t \in AllTuples, NEW u \in AllTuples, Len(t) = Len(u)
                 PROVE  f[n][t] = f[n][u] <=> f[n + 1][t] = f[n + 1][u]
      OBVIOUS
    <3>1. tag(n)[t] = tag(n)[u] <=> tag(n + 1)[t] = tag(n + 1)[u]
      BY <1>3, <2>1
    <3> QED
      BY <3>1
  <2>5. \A t \in AllTuples : ClassMates(f[n], t) = ClassMates(f[n + 1], t)
    BY <2>4 DEF ClassMates
  <2>6. Named(f[n]) = Named(f[n + 1])
    BY <2>5 DEF Named
  <2> QED
    BY <2>3, <2>6
<1> HIDE DEF tag
<1>5. ASSUME NEW n \in 1 .. most
      PROVE  N(n) \in Nat /\ N(n + 1) \in Nat /\ N(n) + 1 <= N(n + 1)
  <2> DEFINE a == tag(n + 1)
             b == tag(n)
             T == AllTuples
  <2>1. n \in 0 .. most
    OBVIOUS
  <2>2. \A t, u \in T : a[t] = a[u] => b[t] = b[u]
    BY <1>3, <2>1
  <2>4. ~(\A t, u \in T : b[t] = b[u] => a[t] = a[u])
    BY <1>4
  <2> HIDE DEF a, b, T
  <2>5. IsFiniteSet(T)
    BY <1>1 DEF T
  <2>6. Cardinality(ClassesOf(T, b)) <= Cardinality(ClassesOf(T, a))
    BY <2>2, <2>5, Settles
  <2>7. Cardinality(ClassesOf(T, a)) \in Nat /\ Cardinality(ClassesOf(T, b)) \in Nat
    BY <1>1, <2>5, ClassesCounted DEF T
  <2>8. Cardinality(ClassesOf(T, a)) # Cardinality(ClassesOf(T, b))
    BY <2>2, <2>4, <2>5, Settles
  <2> QED
    BY <2>6, <2>7, <2>8 DEF a, b, T
<1>6. N(1) >= 1 /\ N(most + 1) <= most /\ N(1) \in Nat /\ N(most + 1) \in Nat
  <2>1. ASSUME NEW n \in {1, most + 1}
        PROVE  N(n) \in Nat /\ N(n) <= most /\ N(n) >= 1
    <3> DEFINE a == tag(n)
               T == AllTuples
    <3> HIDE DEF a
    <3>1. /\ Cardinality(ClassesOf(T, a)) \in Nat /\ Cardinality(ClassesOf(T, a)) >= 1
          /\ Cardinality(ClassesOf(T, a)) <= Cardinality(T)
      BY <1>1, ClassesCounted
    <3> QED
      BY <3>1 DEF a
  <2> QED
    BY <2>1
<1> HIDE DEF N
<1> DEFINE S == {i \in Nat : i <= most => N(i + 1) >= i + 1}
<1>7. 0 \in S
  BY <1>6
<1>8. ASSUME NEW i \in Nat, i \in S
      PROVE  i + 1 \in S
  <2>1. CASE i + 1 <= most
    <3>1. i + 1 \in 1 .. most /\ N(i + 1) >= i + 1
      BY <1>1, <1>8, <2>1
    <3>2. N(i + 1) \in Nat /\ N((i + 1) + 1) \in Nat /\ N(i + 1) + 1 <= N((i + 1) + 1)
      BY <1>5, <3>1
    <3> QED
      BY <3>1, <3>2
  <2>2. CASE ~(i + 1 <= most)
    BY <2>2
  <2> QED
    BY <2>1, <2>2
<1> HIDE DEF S
<1>9. most \in S
  BY <1>1, <1>7, <1>8, Induction
<1>10. N(most + 1) >= most + 1
  BY <1>1, <1>9 DEF S
<1> QED
  BY <1>1, <1>6, <1>10

\* Every partition that loses nothing is finer than every step of the iteration.
LEMMA IterationStaysCoarser ==
  ASSUME deck \in SUBSET Some, NEW most \in Nat, NEW f, Iterates(f, most),
         NEW class, Faithful(class), NEW n \in 0 .. most
  PROVE  Finer(class, f[n])
<1> DEFINE S == {i \in Nat : i <= most => Finer(class, f[i])}
<1>1. 0 \in S
  <2>1. f[0] = [t \in AllTuples |-> 0]
    <3>1. f[0] = IF 0 = 0 THEN OneClass ELSE Split(f[0 - 1])
      <4>1. 0 \in 0 .. most
        OBVIOUS
      <4> QED
        BY <4>1, Zenon DEF Iterates
    <3> QED
      BY <3>1, OneClassIs
  <2>2. \A r \in Round : \A t \in Tuples(r) : f[0][t] = 0
    BY <2>1, TuplesAre
  <2> QED
    BY <2>2 DEF Finer
<1>2. ASSUME NEW i \in Nat, i \in S
      PROVE  i + 1 \in S
  <2> SUFFICES ASSUME i + 1 <= most PROVE Finer(class, f[i + 1])
    OBVIOUS
  <2>1. Finer(class, f[i])
    BY <1>2
  <2>2. f[i + 1] = Split(f[i])
    <3>1. i + 1 \in 0 .. most /\ i + 1 # 0 /\ (i + 1) - 1 = i
      BY <1>2
    <3>2. f[i + 1] = IF i + 1 = 0 THEN OneClass ELSE Split(f[(i + 1) - 1])
      BY <3>1, Zenon DEF Iterates
    <3> QED
      BY <3>1, <3>2
  <2> QED
    BY <2>1, <2>2, SplitStaysCoarser
<1> HIDE DEF S
<1>3. n \in S
  BY <1>1, <1>2, Induction
<1> QED
  BY <1>3 DEF S

\* The reference is a partition that loses nothing, and the coarsest of them.
LEMMA CoarsestIs ==
  ASSUME deck \in Decks
  PROVE  /\ Faithful(Coarsest)
         /\ \A class : Faithful(class) => Finer(class, Coarsest)
<1> DEFINE most == Cardinality(AllTuples)
           After == CHOOSE f : Iterates(f, most + 1)
           n == CHOOSE n \in 0 .. most : After[n + 1] = After[n]
<1>1. deck \in SUBSET Some /\ IsFiniteSet(AllTuples) /\ most \in Nat /\ AllTuples # {}
  <2>1. deck \in SUBSET Some /\ Cardinality(deck) >= 4
    BY DeckIs, DecksAssumption
  <2>2. IsFiniteSet(AllTuples) /\ AllTuples = Holes(deck) \cup Pairs(deck) \cup Triples(deck)
    BY <2>1, TuplesAre
  <2>3. deck # {}
    <3> SUFFICES ASSUME deck = {} PROVE FALSE
      OBVIOUS
    <3>1. Cardinality(deck) = 0
      BY FS_EmptySet
    <3> QED
      BY <2>1, <3>1
  <2> QED
    BY <2>1, <2>2, <2>3, FS_CardinalityType DEF Holes
<1>2. Coarsest = After[n]
  BY Zenon DEF Coarsest, Iterates, OneClass
<1> HIDE DEF most
<1>3. Iterates(After, most + 1)
  <2>1. \E f : Iterates(f, most + 1)
    BY <1>1, IterationExists
  <2> QED
    BY <2>1, Zenon
<1> HIDE DEF After
<1>4. n \in 0 .. most /\ After[n + 1] = After[n]
  <2>1. \E m \in 0 .. most : After[m + 1] = After[m]
    BY <1>1, <1>3, IterationSettles DEF most
  <2> QED
    BY <2>1, Zenon
<1> HIDE DEF n
<1>5. n \in 0 .. most + 1 /\ most + 1 \in Nat /\ n + 1 \in 0 .. most + 1 /\ n + 1 # 0 /\ (n + 1) - 1 = n
  BY <1>1, <1>4
<1>6. Split(After[n]) = After[n]
  <2>1. After[n + 1] = IF n + 1 = 0 THEN OneClass ELSE Split(After[(n + 1) - 1])
    BY <1>3, <1>5, Zenon DEF Iterates
  <2> QED
    BY <1>4, <1>5, <2>1
<1>7. Faithful(After[n])
  BY <1>1, <1>6, SettledSplitIsFaithful
<1>8. ASSUME NEW class, Faithful(class)
      PROVE  Finer(class, After[n])
  BY <1>1, <1>3, <1>5, <1>8, IterationStaysCoarser
<1> QED
  BY <1>2, <1>7, <1>8

\* What the loop returns is, class for class, what the textbook iteration ends
\* in.
THEOREM ReturnsTheCoarsest == Spec => []ReturnsCoarsest
<1>1. GInv => ReturnsCoarsest
  <2> SUFFICES ASSUME GInv, outcome = "returned"
               PROVE  \A r \in Round : \A t, u \in Tuples(r) :
                        Same(current, t, u) <=> Coarsest[t] = Coarsest[u]
    BY DEF ReturnsCoarsest
  <2>1. Faithful(Coarsest) /\ \A class : Faithful(class) => Finer(class, Coarsest)
    BY CoarsestIs DEF GInv
  <2>2. Finer(Coarsest, current.class) /\ Finer(current.class, Coarsest)
    BY <2>1 DEF GInv
  <2> QED
    BY <2>2 DEF Finer, Same
<1> QED
  BY <1>1, LoopKeeps, PTL
=============================================================================
