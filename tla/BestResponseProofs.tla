------------------------- MODULE BestResponseProofs -------------------------
(***************************************************************************)
(* Proofs about BestResponse, for every deck, table of classes and ranks,  *)
(* bet, raise limit and strategy: deviating is never worth less than       *)
(* following, in a round or in all.                                        *)
(*                                                                         *)
(* Two walks of one strategy are compared node by node, though they run    *)
(* one after the other.  Walked(w) is the least set of frames that holds   *)
(* every node nothing is walked of and is closed under returning to the    *)
(* parent, so what holds of every such step holds of every frame of a      *)
(* session, without induction over the tree.  The invariant SessionInv     *)
(* keeps the stack within Walked of the walk in progress and remembers of  *)
(* each answer the frame it was returned from.                             *)
(***************************************************************************)
EXTENDS BestResponse, RhodeIslandProofs, SumTheorems, FunctionTheorems

-----------------------------------------------------------------------------
(* Numbers in ascending order *)

\* How many members of S are less.
Lower(S, x) == {y \in S : y < x}
Rank(S, x)  == Cardinality(Lower(S, x))

\* Each rank below the number of members is that of exactly one member.
LEMMA RankIs ==
  ASSUME NEW S, S \subseteq Int, IsFiniteSet(S)
  PROVE  /\ Cardinality(S) \in Nat
         /\ \A x \in S : Rank(S, x) + 1 \in 1 .. Cardinality(S)
         /\ \A x, y \in S : Rank(S, x) = Rank(S, y) => x = y
         /\ \A i \in 1 .. Cardinality(S) : \E x \in S : Rank(S, x) + 1 = i
<1> DEFINE n == Cardinality(S)
           f == [x \in S |-> Rank(S, x) + 1]
<1>1. n \in Nat
  BY FS_CardinalityType
<1>2. ASSUME NEW x \in S
      PROVE  Rank(S, x) \in Nat /\ Rank(S, x) + 1 \in 1 .. n /\ IsFiniteSet(Lower(S, x))
  <2>1. Lower(S, x) \in SUBSET S /\ x \notin Lower(S, x)
    BY DEF Lower
  <2>2. IsFiniteSet(Lower(S, x)) /\ Cardinality(Lower(S, x)) <= n
        /\ Cardinality(Lower(S, x)) # n
    BY <2>1, FS_Subset
  <2>3. Cardinality(Lower(S, x)) \in Nat
    BY <2>2, FS_CardinalityType
  <2> QED
    BY <1>1, <2>2, <2>3 DEF Rank
<1>3. ASSUME NEW x \in S, NEW y \in S, x < y
      PROVE  Rank(S, x) < Rank(S, y)
  <2>0. x \in Int /\ y \in Int /\ ~(x < x)
    OBVIOUS
  <2>1. Lower(S, x) \cup {x} \in SUBSET Lower(S, y) /\ x \notin Lower(S, x)
    <3>1. ASSUME NEW z \in S, z < x
          PROVE  z < y
      <4>1. z \in Int
        OBVIOUS
      <4> QED
        BY <1>3, <2>0, <3>1, <4>1
    <3> QED
      BY <1>3, <2>0, <3>1 DEF Lower
  <2>2. Cardinality(Lower(S, x) \cup {x}) = Rank(S, x) + 1
    BY <1>2, <2>1, FS_AddElement DEF Rank
  <2>3. Cardinality(Lower(S, x) \cup {x}) <= Rank(S, y)
    BY <1>2, <2>1, FS_Subset DEF Rank
  <2> QED
    BY <1>2, <2>2, <2>3
<1>4. \A x, y \in S : Rank(S, x) = Rank(S, y) => x = y
  <2> SUFFICES ASSUME NEW x \in S, NEW y \in S, Rank(S, x) = Rank(S, y), x # y
               PROVE  FALSE
    OBVIOUS
  <2>1. x \in Int /\ y \in Int
    OBVIOUS
  <2>2. CASE x < y
    BY <1>2, <1>3, <2>2
  <2>3. CASE y < x
    BY <1>2, <1>3, <2>3
  <2> QED
    BY <2>1, <2>2, <2>3
<1>5. f \in Injection(S, 1 .. n)
  <2>1. f \in [S -> 1 .. n]
    BY <1>2
  <2>2. \A x, y \in S : f[x] = f[y] => x = y
    BY <1>2, <1>4
  <2> QED
    BY <2>1, <2>2, Fun_IsInj
<1>6. f \in Surjection(S, 1 .. n)
  <2>1. IsFiniteSet(1 .. n) /\ Cardinality(1 .. n) = n
    BY <1>1, FS_Interval
  <2> HIDE DEF f
  <2>2. Cardinality(S) = Cardinality(1 .. n) => f \in Surjection(S, 1 .. n)
    <3> DEFINE T == 1 .. n
    <3>1. f \in Injection(S, T) /\ IsFiniteSet(T)
      BY <1>5, <2>1
    <3> HIDE DEF T
    <3>2. Cardinality(S) = Cardinality(T) => f \in Surjection(S, T)
      BY <3>1, FS_Injection, Zenon
    <3> QED
      BY <3>2 DEF T
  <2> QED
    BY <2>1, <2>2
<1>7. \A i \in 1 .. n : \E x \in S : f[x] = i
  <2> DEFINE T == 1 .. n
  <2>1. f \in Surjection(S, T)
    BY <1>6
  <2> HIDE DEF f, T
  <2>2. \A i \in T : \E x \in S : f[x] = i
    BY <2>1, Fun_SurjectionProperties, Zenon
  <2> QED
    BY <2>2 DEF T
<1> QED
  BY <1>1, <1>2, <1>4, <1>7

\* The list holds every member once.
LEMMA AscendingIs ==
  ASSUME NEW S, S \subseteq Int, IsFiniteSet(S)
  PROVE  /\ Cardinality(S) \in Nat /\ Len(Ascending(S)) = Cardinality(S)
         /\ DOMAIN Ascending(S) = 1 .. Cardinality(S)
         /\ \A i \in 1 .. Cardinality(S) : Ascending(S)[i] \in S
         /\ \A x \in S : \E i \in 1 .. Cardinality(S) : Ascending(S)[i] = x
<1> DEFINE n == Cardinality(S)
           a == Ascending(S)
<1>1. n \in Nat
  BY RankIs
<1>2. ASSUME NEW i \in 1 .. n
      PROVE  a[i] \in S /\ Rank(S, a[i]) + 1 = i
  <2>1. PICK x \in S : Rank(S, x) + 1 = i
    BY RankIs
  <2>2. Rank(S, x) + 1 \in 1 .. n
    BY RankIs
  <2>3. a[i] = CHOOSE y \in S : Rank(S, y) = i - 1
    BY DEF Ascending, Rank, Lower
  <2>4. \A y \in S : Rank(S, y) + 1 \in 1 .. n
    BY RankIs
  <2>5. Rank(S, x) \in Int
    <3>1. Lower(S, x) \in SUBSET S
      BY DEF Lower
    <3> QED
      BY <3>1, FS_Subset, FS_CardinalityType DEF Rank
  <2>6. Rank(S, x) = i - 1
    BY <2>1, <2>5
  <2> QED
    BY <1>1, <2>3, <2>6
<1>3. ASSUME NEW x \in S
      PROVE  \E i \in 1 .. n : a[i] = x
  <2>1. Rank(S, x) + 1 \in 1 .. n
    BY RankIs
  <2>2. a[Rank(S, x) + 1] \in S /\ Rank(S, a[Rank(S, x) + 1]) + 1 = Rank(S, x) + 1
    BY <1>2, <2>1
  <2>3. \A y \in S : Rank(S, y) \in Int
    <3> SUFFICES ASSUME NEW y \in S PROVE Rank(S, y) \in Int
      OBVIOUS
    <3>1. Lower(S, y) \in SUBSET S
      BY DEF Lower
    <3> QED
      BY <3>1, FS_Subset, FS_CardinalityType DEF Rank
  <2>4. Rank(S, a[Rank(S, x) + 1]) = Rank(S, x)
    <3> DEFINE y == a[Rank(S, x) + 1]
    <3>1. y \in S /\ Rank(S, y) + 1 = Rank(S, x) + 1
      BY <2>2
    <3> HIDE DEF y
    <3>2. Rank(S, y) \in Int /\ Rank(S, x) \in Int
      BY <2>3, <3>1
    <3>3. Rank(S, y) = Rank(S, x)
      BY <3>1, <3>2
    <3> QED
      BY <3>3 DEF y
  <2>5. a[Rank(S, x) + 1] = x
    BY <2>2, <2>4, RankIs
  <2> QED
    BY <2>1, <2>5
<1>4. DOMAIN a = 1 .. n /\ Len(a) = n
  <2>1. a \in [1 .. n -> S]
    BY <1>2 DEF Ascending
  <2> QED
    BY <1>1, <2>1
<1> HIDE DEF a
<1> QED
  BY <1>1, <1>2, <1>3, <1>4 DEF a

-----------------------------------------------------------------------------
(* Shares of a row *)

\* Dividing by a positive number.
LEMMA DivIs ==
  ASSUME NEW x \in Int, NEW d \in Nat \ {0}
  PROVE  /\ x \div d \in Int
         /\ d * (x \div d) <= x
         /\ x \in Nat => x \div d \in Nat
  OBVIOUS

\* The shares of the first k columns.
Given(share, k) == SumFunctionOnSet(share, 1 .. k)

\* Shares are whole, and together they are everything.
LEMMA SharesAre ==
  ASSUME NEW strategy \in Profile, NEW row \in 0 .. infoset_count - 1,
         NEW action_count \in ActionCounts
  PROVE  LET share == average_strategy(strategy, row, action_count)
         IN  /\ action_count \in {2, 3}
             /\ share \in [1 .. action_count -> Nat]
             /\ Given(share, action_count) = Split
<1> DEFINE sums  == StrategySums[strategy][row]
           total == SumFunctionOnSet(sums, 1 .. action_count)
           share == average_strategy(strategy, row, action_count)
<1>1. action_count \in {2, 3} /\ Split \in Nat \ {0}
  BY SplitAssumption DEF ActionCounts
<1>2. /\ \A k \in 1 .. action_count : sums[k] \in Nat
      /\ SumFunction(share) = Split
  BY SumsAssumption
<1>3. IsFiniteSet(1 .. action_count)
  BY <1>1, FS_Interval
<1> HIDE DEF sums
<1>4. total \in Nat
  BY <1>2, <1>3, SumNat
<1>5. share = [k \in 1 .. action_count |-> IF total = 0 THEN Split \div action_count
                                           ELSE (sums[k] * Split) \div total]
  BY DEF average_strategy, sums
<1> HIDE DEF total, share
<1>6. ASSUME NEW k \in 1 .. action_count
      PROVE  (IF total = 0 THEN Split \div action_count
              ELSE (sums[k] * Split) \div total) \in Nat
  <2>1. sums[k] * Split \in Nat
    BY <1>1, <1>2
  <2>2. CASE total = 0
    BY <1>1, <2>2, DivIs
  <2>3. CASE total # 0
    BY <1>4, <2>1, <2>3, DivIs
  <2> QED
    BY <2>2, <2>3
<1>7. share \in [1 .. action_count -> Nat]
  BY <1>5, <1>6
<1>8. Given(share, action_count) = Split
  <2>1. DOMAIN share = 1 .. action_count
    BY <1>7
  <2> QED
    BY <1>2, <2>1, SumAll DEF Given
<1> QED
  BY <1>1, <1>7, <1>8 DEF share

\* One column more.
LEMMA GivenGrows ==
  ASSUME NEW n \in Nat, NEW share \in [1 .. n -> Nat], NEW k \in 0 .. n - 1
  PROVE  /\ Given(share, 0) = 0
         /\ Given(share, k) \in Nat
         /\ Given(share, k + 1) = Given(share, k) + share[k + 1]
<1>1. IsFiniteSet(1 .. n) /\ IntOn(share, 1 .. n)
  BY FS_Interval DEF IntOn
<1>2. 1 .. k \subseteq 1 .. n /\ k + 1 \in (1 .. n) \ (1 .. k) /\ 1 .. k + 1 = (1 .. k) \cup {k + 1}
  OBVIOUS
<1>3. SumFunctionOnSet(share, 1 .. k + 1) = share[k + 1] + SumFunctionOnSet(share, 1 .. k)
  <2> DEFINE S == 1 .. n
             T == 1 .. k
             x == k + 1
  <2>1. IsFiniteSet(S) /\ IntOn(share, S) /\ T \subseteq S /\ x \in S \ T
    BY <1>1, <1>2
  <2> HIDE DEF S, T, x
  <2>2. SumFunctionOnSet(share, T \cup {x}) = share[x] + SumFunctionOnSet(share, T)
    BY <2>1, SumAdd
  <2> QED
    BY <1>2, <2>2 DEF T, x
<1>4. SumFunctionOnSet(share, 1 .. k) \in Nat
  <2>1. IsFiniteSet(1 .. k)
    <3>1. 1 \in Int /\ k \in Int
      OBVIOUS
    <3> QED
      BY <3>1, FS_Interval
  <2>2. \A i \in 1 .. k : share[i] \in Nat
    OBVIOUS
  <2> QED
    BY <2>1, <2>2, SumNat
<1>5. 1 .. 0 = {}
  OBVIOUS
<1> QED
  BY <1>3, <1>4, <1>5, SumEmpty DEF Given

-----------------------------------------------------------------------------
(* Payoffs are numbers *)

CardVector == [Deck -> Int]

\* The deck is finite, so a vector over it has a sum.
LEMMA VectorSum ==
  ASSUME NEW reach \in CardVector
  PROVE  /\ IsFiniteSet(Deck) /\ IntOn(reach, Deck) /\ SumFunction(reach) \in Int
         /\ SumFunction(reach) = SumFunctionOnSet(reach, Deck)
         /\ \A S \in SUBSET Deck : SumFunctionOnSet(reach, S) \in Int
<1>1. IsFiniteSet(Deck) /\ IntOn(reach, Deck) /\ DOMAIN reach = Deck
  BY DeckAssumption DEF CardVector, IntOn
<1>2. SumFunction(reach) = SumFunctionOnSet(reach, Deck)
  BY <1>1, SumAll
<1>3. \A S \in SUBSET Deck : SumFunctionOnSet(reach, S) \in Int
  BY <1>1, SumSubset
<1> QED
  BY <1>1, <1>2, <1>3

\* A vector that is nowhere less has no smaller sum.
LEMMA SumMonotone ==
  ASSUME NEW f \in CardVector, NEW g \in CardVector, \A card \in Deck : f[card] <= g[card]
  PROVE  SumFunction(f) <= SumFunction(g)
<1> DEFINE P == {S \in SUBSET Deck : SumFunctionOnSet(f, S) <= SumFunctionOnSet(g, S)}
<1>1. IsFiniteSet(Deck) /\ IntOn(f, Deck) /\ IntOn(g, Deck)
  BY VectorSum
<1>2. {} \in P
  BY SumEmpty
<1>3. ASSUME NEW S \in SUBSET Deck, S \in P, NEW card \in Deck \ S
      PROVE  S \cup {card} \in P
  <2>1. /\ SumFunctionOnSet(f, S \cup {card}) = f[card] + SumFunctionOnSet(f, S)
        /\ SumFunctionOnSet(g, S \cup {card}) = g[card] + SumFunctionOnSet(g, S)
    BY <1>1, SumAdd
  <2>2. /\ SumFunctionOnSet(f, S) \in Int /\ SumFunctionOnSet(g, S) \in Int
        /\ f[card] \in Int /\ g[card] \in Int
    BY VectorSum DEF CardVector
  <2>3. SumFunctionOnSet(f, S) <= SumFunctionOnSet(g, S) /\ f[card] <= g[card]
    BY <1>3
  <2>4. SumFunctionOnSet(f, S \cup {card}) <= SumFunctionOnSet(g, S \cup {card})
    BY <2>1, <2>2, <2>3
  <2> QED
    BY <1>3, <2>4
<1> HIDE DEF P
<1>4. Deck \in P
  BY <1>1, <1>2, <1>3, SetInduction
<1> QED
  BY <1>4, VectorSum DEF P

\* The sweep, group after group.
Sweep(weaker, tied, n) ==
  weaker = [g \in 1 .. n |-> IF g = 1 THEN 0 ELSE weaker[g - 1] + tied[g - 1]]

\* There is one, and what it has swept before a group is a number.
LEMMA SweepIs ==
  ASSUME NEW n \in Nat, NEW tied \in [1 .. n -> Int]
  PROVE  /\ \E weaker : Sweep(weaker, tied, n)
         /\ \A weaker : Sweep(weaker, tied, n) => weaker \in [1 .. n -> Int]
<1>1. \E weaker : Sweep(weaker, tied, n)
  <2> DEFINE w == [g \in 1 .. n |-> SumFunctionOnSet(tied, 1 .. g - 1)]
             v == [g \in 1 .. n |-> IF g = 1 THEN 0 ELSE w[g - 1] + tied[g - 1]]
  <2>1. IsFiniteSet(1 .. n) /\ IntOn(tied, 1 .. n)
    BY FS_Interval DEF IntOn
  <2>2. ASSUME NEW g \in 1 .. n
        PROVE  w[g] = v[g]
    <3>1. CASE g = 1
      <4>1. 1 .. g - 1 = {}
        BY <3>1
      <4> QED
        BY <3>1, <4>1, SumEmpty
    <3>2. CASE g # 1
      <4> DEFINE S == 1 .. n
                 h == g - 1
                 T == 1 .. h - 1
      <4>1. h \in S /\ h \in S \ T /\ T \subseteq S /\ 1 .. h = T \cup {h}
        BY <3>2
      <4> HIDE DEF S, T, h
      <4>2. SumFunctionOnSet(tied, T \cup {h}) = tied[h] + SumFunctionOnSet(tied, T)
        BY <2>1, <4>1, SumAdd DEF S
      <4>3. SumFunctionOnSet(tied, T) \in Int /\ tied[h] \in Int
        <5>1. T \subseteq 1 .. n /\ h \in 1 .. n
          BY <4>1 DEF S
        <5>2. SumFunctionOnSet(tied, T) \in Int
          BY <2>1, <5>1, SumSubset
        <5>3. tied[h] \in Int
          BY <5>1
        <5> QED
          BY <5>2, <5>3
      <4>4. SumFunctionOnSet(tied, 1 .. h) = SumFunctionOnSet(tied, T) + tied[h]
        <5>1. SumFunctionOnSet(tied, 1 .. h) = SumFunctionOnSet(tied, T \cup {h})
          BY <4>1
        <5> DEFINE x == SumFunctionOnSet(tied, T)
                   y == tied[h]
        <5>2. x \in Int /\ y \in Int /\ SumFunctionOnSet(tied, 1 .. h) = y + x
          BY <4>2, <4>3, <5>1
        <5> HIDE DEF x, y
        <5>3. y + x = x + y
          BY <5>2
        <5>4. SumFunctionOnSet(tied, 1 .. h) = x + y
          BY <5>2, <5>3
        <5> QED
          BY <5>4 DEF x, y
      <4>5. w[h] = SumFunctionOnSet(tied, T)
        BY <4>1 DEF S, T
      <4>6. w[g] = SumFunctionOnSet(tied, 1 .. h)
        BY DEF h
      <4>7. v[g] = w[h] + tied[h]
        BY <3>2 DEF h
      <4> QED
        BY <4>4, <4>5, <4>6, <4>7
    <3> QED
      BY <3>1, <3>2
  <2>3. w = v
    <3>1. w = [g \in 1 .. n |-> w[g]] /\ v = [g \in 1 .. n |-> v[g]]
      OBVIOUS
    <3> HIDE DEF w, v
    <3> QED
      BY <2>2, <3>1
  <2>4. Sweep(w, tied, n)
    <3>1. v = [g \in 1 .. n |-> IF g = 1 THEN 0 ELSE w[g - 1] + tied[g - 1]]
      OBVIOUS
    <3> HIDE DEF w, v
    <3> QED
      BY <2>3, <3>1 DEF Sweep
  <2> QED
    BY <2>4
<1>2. ASSUME NEW w, Sweep(w, tied, n)
      PROVE  w \in [1 .. n -> Int]
  <2> DEFINE S == {i \in Nat : i + 1 \in 1 .. n => w[i + 1] \in Int}
  <2>1. \A g \in 1 .. n : w[g] = IF g = 1 THEN 0 ELSE w[g - 1] + tied[g - 1]
    BY <1>2 DEF Sweep
  <2>2. 0 \in S
    BY <2>1
  <2>3. ASSUME NEW i \in Nat, i \in S
        PROVE  i + 1 \in S
    <3> SUFFICES ASSUME (i + 1) + 1 \in 1 .. n
                 PROVE  w[(i + 1) + 1] \in Int
      OBVIOUS
    <3>1. i + 1 \in 1 .. n /\ ((i + 1) + 1) - 1 = i + 1 /\ (i + 1) + 1 # 1
      OBVIOUS
    <3>2. w[i + 1] \in Int /\ tied[i + 1] \in Int
      BY <2>3, <3>1
    <3>3. w[(i + 1) + 1] = w[i + 1] + tied[i + 1]
      BY <2>1, <3>1
    <3> QED
      BY <3>2, <3>3
  <2> HIDE DEF S
  <2>4. \A i \in Nat : i \in S
    BY <2>2, <2>3, Induction
  <2>5. ASSUME NEW g \in 1 .. n
        PROVE  w[g] \in Int
    <3>1. g - 1 \in Nat /\ (g - 1) + 1 = g
      OBVIOUS
    <3>2. g - 1 \in S
      BY <2>4, <3>1
    <3> QED
      BY <3>1, <3>2 DEF S
  <2>6. w = [g \in 1 .. n |-> w[g]]
    BY <1>2 DEF Sweep
  <2> QED
    BY <2>5, <2>6
<1> QED
  BY <1>1, <1>2

\* What a showdown is worth is a number for every hole card.
LEMMA ShowdownIs ==
  ASSUME NEW stake \in Int, NEW reach \in CardVector, NEW ranks \in [Deck -> Nat]
  PROVE  showdown_value(stake, reach, ranks) \in CardVector
<1> DEFINE group == Ascending(Range(ranks))
           n     == Cardinality(Range(ranks))
           tied  == [g \in DOMAIN group |->
                       SumFunctionOnSet(reach, {card \in Deck : ranks[card] = group[g]})]
           swept == CHOOSE weaker : weaker = [g \in DOMAIN group |->
                      IF g = 1 THEN 0 ELSE weaker[g - 1] + tied[g - 1]]
           place(card) == CHOOSE i \in DOMAIN group : group[i] = ranks[card]
           value(card) == stake * (swept[place(card)]
                            - (SumFunction(reach) - swept[place(card)] - tied[place(card)]))
<1>1. Range(ranks) \subseteq Int /\ IsFiniteSet(Range(ranks))
      /\ \A card \in Deck : ranks[card] \in Range(ranks)
  <2>1. ranks \in Surjection(Deck, Range(ranks)) /\ Range(ranks) \subseteq Nat
    BY Fun_RangeProperties
  <2>2. IsFiniteSet(Deck)
    BY DeckAssumption
  <2>3. IsFiniteSet(Range(ranks))
    BY <2>1, <2>2, FS_Surjection
  <2>4. \A card \in Deck : ranks[card] \in Range(ranks)
    BY DEF Range
  <2> QED
    BY <2>1, <2>3, <2>4
<1>2. /\ n \in Nat /\ DOMAIN group = 1 .. n
      /\ \A card \in Deck : \E i \in 1 .. n : group[i] = ranks[card]
  BY <1>1, AscendingIs
<1>3. showdown_value(stake, reach, ranks) = [card \in Deck |-> value(card)]
  BY Zenon DEF showdown_value
<1> HIDE DEF group, n
<1>4. tied \in [1 .. n -> Int]
  <2>1. \A g \in 1 .. n : SumFunctionOnSet(reach, {card \in Deck : ranks[card] = group[g]}) \in Int
    BY VectorSum
  <2> QED
    BY <1>2, <2>1
<1> HIDE DEF tied
<1>5. Sweep(swept, tied, n)
  <2>1. \E weaker : Sweep(weaker, tied, n)
    BY <1>2, <1>4, SweepIs
  <2>2. swept = CHOOSE weaker : Sweep(weaker, tied, n)
    BY <1>2, Zenon DEF Sweep
  <2> QED
    BY <2>1, <2>2, Zenon
<1> HIDE DEF swept
<1>6. swept \in [1 .. n -> Int]
  BY <1>2, <1>4, <1>5, SweepIs
<1>7. ASSUME NEW card \in Deck
      PROVE  value(card) \in Int
  <2>1. place(card) \in 1 .. n
    BY <1>2
  <2> HIDE DEF place
  <2>2. swept[place(card)] \in Int /\ tied[place(card)] \in Int /\ SumFunction(reach) \in Int
    BY <1>4, <1>6, <2>1, VectorSum
  <2> QED
    BY <2>2
<1> QED
  BY <1>3, <1>7 DEF CardVector

-----------------------------------------------------------------------------
(* The states of a walk.  A board card can be one the walk pretends to have *)
(* dealt as a hole card, which no hand has; but apart from the hole cards   *)
(* and what is remembered of them, the state is that of a hand.             *)

SameTable(s, t) ==
  /\ t.board_cards = s.board_cards
  /\ t.board_count = s.board_count
  /\ t.history = s.history
  /\ t.round_len = s.round_len
  /\ t.raises_used = s.raises_used
  /\ t.closing = s.closing
  /\ t.contribution = s.contribution
  /\ t.round_contribution = s.round_contribution
  /\ t.level_to_match = s.level_to_match

BothSeated(s) == s.hole_cards \in [Player -> Deck]

OnTable(s, t) == t \in States /\ Good(t) /\ BothSeated(t) /\ SameTable(s, t)

InWalk(s) == s \in States /\ BothSeated(s) /\ \E t : OnTable(s, t)

\* A card of the deck is not the absence of one.
LEMMA SeatedIs ==
  ASSUME NEW s, BothSeated(s)
  PROVE  /\ s.hole_cards[0] # NoCard /\ s.hole_cards[1] # NoCard /\ BoardCardNext(s)
         /\ s.hole_cards[0] \in Deck /\ s.hole_cards[1] \in Deck
  BY DeckAssumption DEF BothSeated, NoCard, Player, kPlayerCount, BoardCardNext

\* The rules read neither hole cards nor what is remembered of them.
LEMMA TableReads ==
  ASSUME NEW s, NEW t, BothSeated(s), OnTable(s, t)
  PROVE  /\ is_chance(t) <=> is_chance(s)
         /\ is_terminal(t) <=> is_terminal(s)
         /\ is_decision(t) <=> is_decision(s)
         /\ current_player(t) = current_player(s)
         /\ legal_actions(t) = legal_actions(s)
         /\ bet_size_of(t) = bet_size_of(s)
         /\ folded(t) <=> folded(s)
<1>1. /\ s.hole_cards[0] # NoCard /\ s.hole_cards[1] # NoCard
      /\ t.hole_cards[0] # NoCard /\ t.hole_cards[1] # NoCard
  BY SeatedIs DEF OnTable
<1>2. /\ last_action(t) = last_action(s) /\ previous_action(t) = previous_action(s)
      /\ current_player(t) = current_player(s) /\ bet_size_of(t) = bet_size_of(s)
  BY DEF OnTable, SameTable, last_action, previous_action, current_player, bet_size_of
<1>3. /\ folded(t) <=> folded(s)
      /\ facing_bet(t) <=> facing_bet(s)
      /\ round_closed(t) <=> round_closed(s)
  BY <1>2 DEF OnTable, SameTable, folded, facing_bet, round_closed
<1>4. is_chance(t) <=> is_chance(s)
  BY <1>1, <1>3 DEF OnTable, SameTable, is_chance
<1>5. is_terminal(t) <=> is_terminal(s)
  BY <1>3, <1>4 DEF OnTable, SameTable, is_terminal
<1>6. legal_actions(t) = legal_actions(s)
  BY <1>3 DEF OnTable, SameTable, legal_actions, round_legal_actions
<1> QED
  BY <1>2, <1>3, <1>4, <1>5, <1>6 DEF is_decision

\* The cards on the board are cards of the deck, and different.
LEMMA WalkBoard ==
  ASSUME NEW s, InWalk(s)
  PROVE  /\ s.board_count \in {0, 1, 2} /\ s.board_count \in Street
         /\ \A i \in 0 .. s.board_count - 1 : s.board_cards[i] \in Deck
         /\ s.board_count = 2 => s.board_cards[0] # s.board_cards[1]
         /\ OnBoard(s) \subseteq Deck
<1>1. PICK t : OnTable(s, t)
  BY DEF InWalk
<1>2. s.board_count \in {0, 1, 2} /\ s.board_count \in Street
  BY DEF InWalk, States, Street, kRihRoundCount
<1>3. /\ \A i \in 0 .. s.board_count - 1 : s.board_cards[i] \in Deck
      /\ s.board_count = 2 => s.board_cards[0] # s.board_cards[1]
  BY <1>1 DEF OnTable, SameTable, Good, CardsInv
<1> QED
  BY <1>2, <1>3 DEF OnBoard

\* A decision offers two actions or three, each of them legal.
LEMMA WalkActions ==
  ASSUME NEW s, InWalk(s), is_decision(s)
  PROVE  LET n == Len(legal_actions(s))
         IN  /\ n \in ActionCounts /\ n \in {2, 3}
             /\ DOMAIN legal_actions(s) = 1 .. n
             /\ \A k \in 1 .. n : /\ IsLegal(s, legal_actions(s)[k])
                                  /\ legal_actions(s)[k] \in BettingAction
<1> DEFINE a == legal_actions(s)
<1>1. PICK t : OnTable(s, t)
  BY DEF InWalk
<1>2. facing_bet(s) /\ MaxRaises = 1 => ~(s.raises_used < MaxRaises)
  <2> SUFFICES ASSUME facing_bet(s), MaxRaises = 1 PROVE ~(s.raises_used < MaxRaises)
    OBVIOUS
  <2>1. t \in States /\ Good(t) /\ is_decision(t)
    BY <1>1, TableReads DEF InWalk, OnTable
  <2>2. t.round_len # 0 /\ last_action(t) = kActionRaise
    BY <1>1 DEF OnTable, SameTable, facing_bet, last_action
  <2>3. BetStands(t)
    BY <2>1, <2>2, DecisionShape DEF Checked, kActionRaise, kActionCallCheck
  <2>4. s.raises_used >= 1 /\ s.raises_used \in 0 .. MaxRaises
    BY <1>1, <2>3 DEF OnTable, SameTable, BetStands, InWalk, States
  <2> QED
    BY <2>4
<1>3. \/ a = <<kActionCallCheck, kActionRaise>>
      \/ a = <<kActionFold, kActionCallCheck>>
      \/ a = <<kActionFold, kActionCallCheck, kActionRaise>> /\ MaxRaises # 1
  BY <1>2 DEF legal_actions, round_legal_actions
<1>4. a \in Seq(BettingAction) /\ Len(a) \in ActionCounts /\ Len(a) \in {2, 3}
  <2>1. CASE a = <<kActionCallCheck, kActionRaise>>
    BY <2>1 DEF BettingAction, ActionCounts
  <2>2. CASE a = <<kActionFold, kActionCallCheck>>
    BY <2>2 DEF BettingAction, ActionCounts
  <2>3. CASE a = <<kActionFold, kActionCallCheck, kActionRaise>> /\ MaxRaises # 1
    BY <2>3 DEF BettingAction, ActionCounts
  <2> QED
    BY <1>3, <2>1, <2>2, <2>3
<1> HIDE DEF a
<1>5. DOMAIN a = 1 .. Len(a) /\ \A k \in 1 .. Len(a) : a[k] \in BettingAction
  BY <1>4
<1> QED
  BY <1>4, <1>5 DEF a, IsLegal

\* What has changed the same way on both sides is still the same.
BetAlike(s, t, u, v) ==
  /\ SameCards(s, u) /\ SameCards(t, v)
  /\ v.history = u.history
  /\ v.round_len = u.round_len
  /\ v.raises_used = u.raises_used
  /\ v.contribution = u.contribution
  /\ v.round_contribution = u.round_contribution
  /\ v.level_to_match = u.level_to_match

LEMMA AlikeInWalk ==
  ASSUME NEW s, NEW t, NEW u, NEW v, InWalk(s), OnTable(s, t), BetAlike(s, t, u, v),
         u \in States, v \in States, Good(v)
  PROVE  InWalk(u)
<1>1. SameTable(u, v)
  BY DEF OnTable, SameTable, BetAlike, SameCards
<1>2. BothSeated(u) /\ BothSeated(v)
  BY DEF InWalk, OnTable, BothSeated, BetAlike, SameCards
<1> QED
  BY <1>1, <1>2 DEF InWalk, OnTable

\* The legal actions keep a state one of the walk.
LEMMA BetInWalk ==
  ASSUME NEW s, InWalk(s), is_decision(s), NEW action \in BettingAction, IsLegal(s, action)
  PROVE  InWalk(apply_bet(s, action))
<1>1. PICK t : OnTable(s, t)
  BY DEF InWalk
<1> DEFINE u == apply_bet(s, action)
           v == apply_bet(t, action)
           p == current_player(s)
           a == append_action(s, action)
<1>2. /\ s \in States /\ t \in States /\ Good(t) /\ is_decision(t) /\ IsLegal(t, action)
      /\ current_player(t) = p /\ bet_size_of(t) = bet_size_of(s)
  BY <1>1, TableReads DEF InWalk, OnTable, IsLegal
<1>3. action \in HistoryEntry
  BY DEF HistoryEntry
<1>4. a \in States /\ a = [s EXCEPT !.history = Append(s.history, action)]
  BY <1>2, <1>3, AppendType DEF append_action
<1>5. /\ a.round_len = s.round_len /\ a.raises_used = s.raises_used
      /\ a.contribution = s.contribution /\ a.round_contribution = s.round_contribution
      /\ a.level_to_match = s.level_to_match /\ a.board_count = s.board_count
  BY <1>2, <1>4 DEF States
<1>6. current_player(a) = p /\ bet_size_of(a) = bet_size_of(s)
  BY <1>5 DEF current_player, bet_size_of
<1>7. u = apply_betting_action(a, action, bet_size_of(a))
  BY DEF apply_bet
<1> HIDE DEF a
<1>8. /\ t.round_len = s.round_len /\ t.raises_used = s.raises_used
      /\ t.contribution = s.contribution /\ t.round_contribution = s.round_contribution
      /\ t.level_to_match = s.level_to_match /\ t.history = s.history
  BY <1>1 DEF OnTable, SameTable
<1>9. p \in Player /\ bet_size_of(s) \in Nat
  BY <1>2, Seats
<1>10. /\ s.contribution[p] \in Nat /\ s.round_contribution[p] \in Nat
       /\ s.level_to_match \in Nat /\ s.round_len \in Nat /\ s.raises_used \in Nat
       /\ s.contribution \in [Player -> Nat]
  BY <1>2, <1>9, RaiseCapAssumption DEF States
<1>11. CASE action = kActionFold
  <2>1. v \in States /\ Good(v)
    BY <1>2, <1>11, FoldKeeps
  <2>2. BetAlike(s, t, u, v) /\ v.round_len = s.round_len + 1
    BY <1>2, <1>8, <1>11, FoldFields DEF BetAlike
  <2>3. s.round_len + 1 <= MaxRaises + 2
    BY <2>1, <2>2, RaiseCapAssumption DEF States
  <2>4. u \in States
    BY <1>4, <1>5, <1>7, <1>11, <2>3, FoldType
  <2> QED
    BY <1>1, <2>1, <2>2, <2>4, AlikeInWalk
<1>12. CASE action = kActionCallCheck
  <2> DEFINE due == s.contribution[p] + (s.level_to_match - s.round_contribution[p])
  <2>1. v \in States /\ Good(v)
    BY <1>2, <1>12, CallKeeps
  <2>2. /\ BetAlike(s, t, u, v) /\ v.round_len = s.round_len + 1
        /\ v.contribution = [s.contribution EXCEPT ![p] = due]
    <3>1. /\ SameCards(s, u)
          /\ u.history = Append(s.history, kActionCallCheck)
          /\ u.round_len = s.round_len + 1
          /\ u.raises_used = s.raises_used
          /\ u.level_to_match = s.level_to_match
          /\ u.contribution = [s.contribution EXCEPT ![p] = due]
          /\ u.round_contribution = [s.round_contribution EXCEPT ![p] = s.level_to_match]
      BY <1>2, <1>12, CallFields, Zenon
    <3>2. /\ SameCards(t, v)
          /\ v.history = Append(s.history, kActionCallCheck)
          /\ v.round_len = s.round_len + 1
          /\ v.raises_used = s.raises_used
          /\ v.level_to_match = s.level_to_match
          /\ v.contribution = [s.contribution EXCEPT ![p] = due]
          /\ v.round_contribution = [s.round_contribution EXCEPT ![p] = s.level_to_match]
      BY <1>2, <1>8, <1>12, CallFields, Zenon
    <3> QED
      BY <3>1, <3>2, Zenon DEF BetAlike
  <2>3. s.round_len + 1 <= MaxRaises + 2
    BY <2>1, <2>2, RaiseCapAssumption DEF States
  <2>4. due \in Nat
    <3>1. v.contribution[p] = due
      BY <1>9, <1>10, <2>2
    <3>2. v.contribution[p] \in Nat
      BY <1>9, <2>1 DEF States
    <3> QED
      BY <3>1, <3>2
  <2>5. u \in States
    BY <1>4, <1>5, <1>6, <1>7, <1>12, <2>3, <2>4, CallType
  <2> QED
    BY <1>1, <2>1, <2>2, <2>5, AlikeInWalk
<1>13. CASE action = kActionRaise
  <2> DEFINE level == s.level_to_match + bet_size_of(s)
             due   == s.contribution[p] + (level - s.round_contribution[p])
  <2>1. v \in States /\ Good(v)
    BY <1>2, <1>13, RaiseKeeps
  <2>2. /\ BetAlike(s, t, u, v) /\ v.round_len = s.round_len + 1
        /\ v.raises_used = s.raises_used + 1
        /\ v.contribution = [s.contribution EXCEPT ![p] = due]
    <3>1. /\ SameCards(s, u)
          /\ u.history = Append(s.history, kActionRaise)
          /\ u.round_len = s.round_len + 1
          /\ u.raises_used = s.raises_used + 1
          /\ u.level_to_match = level
          /\ u.contribution = [s.contribution EXCEPT ![p] = due]
          /\ u.round_contribution = [s.round_contribution EXCEPT ![p] = level]
      BY <1>2, <1>13, RaiseFields, Zenon
    <3>2. /\ SameCards(t, v)
          /\ v.history = Append(s.history, kActionRaise)
          /\ v.round_len = s.round_len + 1
          /\ v.raises_used = s.raises_used + 1
          /\ v.level_to_match = level
          /\ v.contribution = [s.contribution EXCEPT ![p] = due]
          /\ v.round_contribution = [s.round_contribution EXCEPT ![p] = level]
      BY <1>2, <1>8, <1>13, RaiseFields, Zenon
    <3> QED
      BY <3>1, <3>2, Zenon DEF BetAlike
  <2>3. s.round_len + 1 <= MaxRaises + 2 /\ s.raises_used < MaxRaises
    BY <1>10, <2>1, <2>2, RaiseCapAssumption DEF States
  <2>4. due \in Nat
    <3>1. v.contribution[p] = due
      BY <1>9, <1>10, <2>2
    <3>2. v.contribution[p] \in Nat
      BY <1>9, <2>1 DEF States
    <3> QED
      BY <3>1, <3>2
  <2>5. u \in States
    BY <1>4, <1>5, <1>6, <1>7, <1>13, <2>3, <2>4, RaiseType
  <2> QED
    BY <1>1, <2>1, <2>2, <2>5, AlikeInWalk
<1> QED
  BY <1>11, <1>12, <1>13 DEF BettingAction

\* A board card that is not on the board keeps a state one of the walk.
LEMMA DealInWalk ==
  ASSUME NEW s, InWalk(s), is_chance(s), NEW card \in Deck \ OnBoard(s)
  PROVE  LET u == apply_deal(s, card)
         IN  /\ InWalk(u)
             /\ s.board_count \in {0, 1} /\ u.board_count = s.board_count + 1
<1>1. PICK t : OnTable(s, t)
  BY DEF InWalk
<1> DEFINE n == s.board_count
           d == deal_and_advance(append_action(s, kChanceCardOffset + card), card, MaxRaises)
           k == remember_own_classes(d)
           u == apply_deal(s, card)
           board == [s.board_cards EXCEPT ![n] = card]
           h == Append(s.history, kChanceCardOffset + card)
<1>2. s \in States /\ BothSeated(s) /\ BoardCardNext(s)
  BY SeatedIs DEF InWalk
<1>3. t \in States /\ Good(t) /\ is_chance(t) /\ BoardCardNext(t)
  BY <1>1, <1>2, SeatedIs, TableReads DEF OnTable
<1>4. /\ n \in {0, 1} /\ s.round_len # 0 /\ s.round_len <= Len(s.history)
      /\ s.contribution[0] = s.contribution[1]
      /\ t.hole_cards[0] # NoCard /\ t.hole_cards[1] # NoCard
      /\ n = 0 => Len(s.history) <= 2 + s.round_len
      /\ n = 1 => Len(s.history) <= MaxRaises + 5 + s.round_len
  BY <1>1, <1>3, BoardDueShape DEF OnTable, SameTable, Good, HistoryInv, BoardCardNext
<1>5. /\ d \in States
      /\ d.hole_cards = s.hole_cards
      /\ d.board_cards = board /\ d.board_count = n + 1
      /\ d.round_len = 0 /\ d.raises_used = 0 /\ d.level_to_match = 0
      /\ d.round_contribution = [p \in Player |-> 0]
      /\ d.history = h
      /\ d.contribution = s.contribution
  BY <1>2, <1>4, BoardDealt
<1>6. u = IF k.board_count = 2 THEN remember_showdown_ranks(k) ELSE k
  BY DEF apply_deal
<1> HIDE DEF d, u
<1>7. /\ \A i \in 0 .. n : board[i] \in Deck
      /\ n = 1 => board[0] # board[1]
      /\ \A i \in 0 .. n : board[i] \in {board[0], board[n]}
  <2>1. board[n] = card /\ \A i \in 0 .. n - 1 : board[i] = s.board_cards[i]
    BY <1>2, <1>4 DEF States
  <2>2. \A i \in 0 .. n - 1 : board[i] \in Deck /\ board[i] # card
    BY <2>1, WalkBoard DEF OnBoard
  <2> QED
    BY <1>4, <2>1, <2>2
<1> HIDE DEF board
<1>8. \A p \in Player : own_cards(d, p) \in [1 .. d.board_count + 1 -> Deck]
  <2> SUFFICES ASSUME NEW p \in Player
               PROVE  own_cards(d, p) \in [1 .. d.board_count + 1 -> Deck]
    OBVIOUS
  <2>1. d.hole_cards[p] \in Deck
    BY <1>2, <1>5 DEF BothSeated
  <2>2. \A i \in 1 .. d.board_count + 1 : i # 1 => d.board_cards[i - 2] \in Deck
    BY <1>4, <1>5, <1>7
  <2> QED
    BY <2>1, <2>2 DEF own_cards
<1>9. \A p \in Player : own_class(d, p) \in Nat
  <2>1. d.board_count \in Street
    BY <1>5 DEF States
  <2> QED
    BY <1>8, <2>1, StorageAssumption DEF own_class
<1>10. /\ k \in States /\ SameHand(d, k)
  <2> DEFINE classes == [p \in Player |-> IF d.hole_cards[p] # NoCard
                                          THEN own_class(d, p) ELSE d.card_class[p]]
  <2>1. k = [d EXCEPT !.card_class = classes]
    BY DEF remember_own_classes
  <2>2. \A p \in Player : d.card_class[p] \in Nat
    BY <1>5 DEF States
  <2>3. classes \in [Player -> Nat]
    BY <1>9, <2>2
  <2> HIDE DEF classes, k
  <2> QED
    BY <1>5, <2>1, <2>3 DEF States, SameHand
<1> HIDE DEF k
<1>11. u \in States /\ SameHand(d, u)
  <2>1. CASE k.board_count # 2
    BY <1>6, <1>10, <2>1
  <2>2. CASE k.board_count = 2
    <3> DEFINE ranks == [p \in Player |-> Strength[own_cards(k, p)]]
    <3>1. u = [k EXCEPT !.showdown_rank = ranks]
      BY <1>6, <2>2 DEF remember_showdown_ranks
    <3>2. \A p \in Player : own_cards(k, p) = own_cards(d, p)
      BY <1>10 DEF SameHand, own_cards
    <3>3. \A p \in Player : own_cards(k, p) \in [1 .. 3 -> Deck]
      BY <1>8, <1>10, <2>2, <3>2 DEF SameHand
    <3>4. ranks \in [Player -> Nat]
      BY <3>3, StorageAssumption
    <3> HIDE DEF ranks
    <3> QED
      BY <1>10, <3>1, <3>4 DEF States, SameHand
  <2> QED
    BY <2>1, <2>2
<1>12. PICK a \in Deck : a # board[0] /\ a # board[n]
  BY FourthCard
<1>13. PICK b \in Deck : b # board[0] /\ b # board[n] /\ b # a
  BY FourthCard
<1> DEFINE holes == [p \in Player |-> IF p = 0 THEN a ELSE b]
           v     == [d EXCEPT !.hole_cards = holes]
<1>14. /\ holes \in [Player -> Deck] /\ holes[0] = a /\ holes[1] = b
       /\ \A p \in Player : holes[p] \in {a, b}
  BY DEF Player, kPlayerCount
<1> HIDE DEF holes
<1>15. v \in States /\ v.hole_cards = holes
  BY <1>5, <1>14 DEF States
<1>16. SameTable(d, v)
  BY <1>5 DEF States, SameTable
<1> HIDE DEF v
<1>17. Good(v)
  <2>1. a # NoCard /\ b # NoCard
    BY DeckAssumption DEF NoCard
  <2>2. CardsInv(v)
    <3>1. v.board_cards = board /\ v.board_count = n + 1
      BY <1>5, <1>16 DEF SameTable
    <3>2. \A i \in 0 .. v.board_count - 1 : i \in 0 .. n
      BY <1>4, <3>1
    <3>3. \A i \in 0 .. v.board_count - 1 :
            v.board_cards[i] \in Deck /\ \A p \in Player : v.board_cards[i] # v.hole_cards[p]
      BY <1>7, <1>12, <1>13, <1>14, <1>15, <3>1, <3>2
    <3>4. v.board_count = 2 => n = 1
      BY <1>4, <3>1
    <3>5. v.board_count = 2 => v.board_cards[0] # v.board_cards[1]
      BY <1>7, <3>1, <3>4
    <3> QED
      BY <1>13, <1>14, <1>15, <2>1, <3>3, <3>5 DEF CardsInv
  <2>3. HistoryInv(v)
    <3>1. s.history \in Seq(HistoryEntry) /\ h \in Seq(HistoryEntry)
          /\ Len(h) = Len(s.history) + 1 /\ Len(s.history) \in Nat
      <4>1. kChanceCardOffset + card \in HistoryEntry
        BY DEF HistoryEntry
      <4> QED
        BY <1>2, <4>1 DEF States
    <3>2. s.round_len \in 0 .. MaxRaises + 2 /\ MaxRaises \in Nat
      BY <1>2, RaiseCapAssumption DEF States
    <3>3. v.history = h /\ v.board_count = n + 1 /\ v.round_len = 0
      BY <1>5, <1>16 DEF SameTable
    <3>4. v.hole_cards[0] # NoCard /\ v.hole_cards[1] # NoCard
      BY <1>14, <1>15, <2>1
    <3> HIDE DEF h
    <3> QED
      BY <1>4, <3>1, <3>2, <3>3, <3>4 DEF HistoryInv
  <2>4. RoundInv(v)
    BY <1>5, <1>16 DEF SameTable, RoundInv
  <2>5. StakesInv(v)
    <3>1. 0 \in Player /\ 1 \in Player /\ \A p \in Player : s.contribution[p] \in Nat
      BY <1>2 DEF States, Player, kPlayerCount
    <3>2. /\ v.round_len = 0 /\ v.raises_used = 0 /\ v.level_to_match = 0
          /\ \A p \in Player : v.round_contribution[p] = 0
          /\ v.contribution = s.contribution
      BY <1>5, <1>16 DEF SameTable
    <3> QED
      BY <1>4, <3>1, <3>2 DEF StakesInv, Level
  <2> QED
    BY <2>2, <2>3, <2>4, <2>5 DEF Good
<1>18. OnTable(u, v)
  <2>1. BothSeated(v)
    BY <1>14, <1>15 DEF BothSeated
  <2>2. SameTable(u, v)
    BY <1>11, <1>16 DEF SameHand, SameTable
  <2> QED
    BY <1>15, <1>17, <2>1, <2>2 DEF OnTable
<1>19. BothSeated(u)
  BY <1>2, <1>5, <1>11 DEF BothSeated, SameHand
<1> QED
  BY <1>4, <1>5, <1>11, <1>18, <1>19 DEF InWalk, SameHand, u

\* A walk begins where two cards of the deck are dealt as hole cards.
LEMMA RootInWalk == InWalk(root) /\ root.board_count = 0
<1> DEFINE s0 == initial_state
           s1 == apply_deal(s0, placeholder(0))
           s2 == apply_deal(s1, placeholder(1))
<1>1. placeholder(0) = 0 /\ placeholder(1) = 1 /\ 0 \in Deck /\ 1 \in Deck /\ 0 # NoCard
      /\ 0 \in Player /\ 1 \in Player
  BY StorageAssumption DEF placeholder, NoCard, Player, kPlayerCount
<1>2. /\ s0 \in States /\ Good(s0) /\ s0.board_count = 0
      /\ s0.hole_cards = [p \in Player |-> NoCard]
  BY InitGood DEF initial_state, BlankState
<1>3. root = s2
  BY DEF root
<1> HIDE DEF s0, s2
<1>4. s0.hole_cards[0] = NoCard /\ s0.hole_cards[1] = NoCard
  BY <1>1, <1>2
<1>5. is_chance(s0) /\ ~BoardCardNext(s0) /\ placeholder(0) \in chance_outcomes(s0)
  BY <1>1, <1>2, <1>4 DEF is_chance, BoardCardNext, chance_outcomes, deal_outcomes, DealtCards
<1>6. /\ s1 \in States /\ Good(s1) /\ s1.board_count = 0
      /\ s1.hole_cards = [s0.hole_cards EXCEPT ![0] = 0]
  BY <1>1, <1>2, <1>4, <1>5, DealKeeps, DealFields DEF HoleSeat
<1>7. s1.hole_cards[0] = 0 /\ s1.hole_cards[1] = NoCard
  BY <1>1, <1>2, <1>6
<1> HIDE DEF s1
<1>8. is_chance(s1) /\ ~BoardCardNext(s1)
  BY <1>1, <1>6, <1>7 DEF is_chance, BoardCardNext
<1>9. placeholder(1) \in chance_outcomes(s1)
  <2>1. 1 \notin DealtCards(s1)
    BY <1>1, <1>6, <1>7 DEF DealtCards, NoCard, Player, kPlayerCount
  <2> QED
    BY <1>1, <2>1 DEF chance_outcomes, deal_outcomes
<1>10. /\ s2 \in States /\ Good(s2) /\ s2.board_count = 0
       /\ s2.hole_cards = [s1.hole_cards EXCEPT ![1] = 1]
  <2>1. HoleSeat(s1) = 1 /\ s2 = apply_deal(s1, 1)
    BY <1>1, <1>7 DEF HoleSeat, s2
  <2>2. 1 \in chance_outcomes(s1)
    BY <1>1, <1>9
  <2>3. s2 \in States /\ Good(s2)
    BY <1>6, <1>8, <2>1, <2>2, DealKeeps
  <2>4. s2.board_count = 0 /\ s2.hole_cards = [s1.hole_cards EXCEPT ![HoleSeat(s1)] = 1]
    BY <1>6, <1>8, <2>1, <2>2, DealFields
  <2> QED
    BY <2>1, <2>3, <2>4
<1>11. s2.hole_cards = [p \in Player |-> p]
  <2>1. s1.hole_cards \in [Player -> Deck \cup {NoCard}]
    BY <1>6 DEF States
  <2>2. \A p \in Player : s2.hole_cards[p] = p
    BY <1>7, <1>10, <2>1 DEF Player, kPlayerCount
  <2> QED
    BY <1>10, <2>1, <2>2
<1>12. BothSeated(s2)
  BY <1>1, <1>11 DEF BothSeated, Player, kPlayerCount
<1> QED
  BY <1>3, <1>10, <1>12 DEF InWalk, OnTable, SameTable

-----------------------------------------------------------------------------
(* The strategy is asked in every state of a walk *)

\* A table has rows of every street.
LEMMA RowCounts ==
  /\ round0_rows \in Nat /\ round1_rows \in Nat /\ round2_rows \in Nat
  /\ infoset_count = round0_rows + round1_rows + round2_rows
<1> DEFINE P == kProgress
           K == kClosing
<1>1. P \in Nat /\ K \in Nat
  BY RaiseCapAssumption DEF kProgress, kClosing, round_progress_count, closing_sequence_count
<1>2. ClassCount[0] \in Nat /\ ClassCount[1] \in Nat /\ ClassCount[2] \in Nat
  BY ClassAssumption DEF Street, kRihRoundCount
<1> HIDE DEF P, K
<1>3. P * ClassCount[0] \in Nat
  BY <1>1, <1>2
<1>4. K * P \in Nat /\ K * K \in Nat
  BY <1>1
<1>5. K * P * ClassCount[1] \in Nat
  BY <1>2, <1>4
<1>6. K * K * P \in Nat
  BY <1>1, <1>4
<1>7. K * K * P * ClassCount[2] \in Nat
  BY <1>2, <1>6
<1> QED
  BY <1>3, <1>5, <1>7 DEF round0_rows, round1_rows, round2_rows, infoset_count, P, K

\* Whatever hole card is asked about, the answer is a share for each action.
LEMMA QueryIs ==
  ASSUME NEW s, InWalk(s), is_decision(s), NEW w, w.strategy \in Profile, NEW card \in Deck
  PROVE  LET n     == Len(legal_actions(s))
             share == strategy_query(w, s, card)
         IN  /\ n \in {2, 3}
             /\ share \in [1 .. n -> Nat]
             /\ Given(share, n) = Split
<1> DEFINE p == current_player(s)
           q == [s EXCEPT !.hole_cards[p] = card]
           probe == set_hole_card(s, p, card)
           n == Len(legal_actions(s))
<1>1. /\ s \in States /\ p \in Player /\ s.board_count \in Street
  BY Seats DEF InWalk, States
<1> HIDE DEF p
<1>2. /\ q.hole_cards = [s.hole_cards EXCEPT ![p] = card] /\ q.board_cards = s.board_cards
      /\ q.board_count = s.board_count
      /\ q.card_class = s.card_class /\ q.closing = s.closing
      /\ q.round_len = s.round_len /\ q.raises_used = s.raises_used
      /\ q.history = s.history
  BY <1>1 DEF States
<1>3. probe = [q EXCEPT !.card_class[p] = own_class(q, p)]
  BY DEF set_hole_card
<1>4. /\ probe.board_count = s.board_count /\ probe.closing = s.closing
      /\ probe.round_len = s.round_len /\ probe.raises_used = s.raises_used
      /\ probe.history = s.history
      /\ probe.card_class = [s.card_class EXCEPT ![p] = own_class(q, p)]
  <2>1. q \in [ {"hole_cards", "board_cards", "board_count", "history", "round_len",
                 "raises_used", "closing", "contribution", "round_contribution",
                 "level_to_match", "showdown_rank", "card_class"} -> {q[f] : f \in DOMAIN q} ]
    BY <1>1 DEF States
  <2> HIDE DEF q
  <2> QED
    BY <1>2, <1>3, <2>1
<1> HIDE DEF q, probe
<1>5. own_class(q, p) \in 0 .. ClassCount[s.board_count] - 1
  <2>1. own_cards(q, p) \in [1 .. q.board_count + 1 -> Deck]
    <3>1. q.hole_cards[p] = card
      BY <1>1, <1>2 DEF States
    <3>2. q.board_count \in {0, 1, 2}
      BY <1>1, <1>2 DEF Street, kRihRoundCount
    <3>3. \A i \in 1 .. q.board_count + 1 : i # 1 => q.board_cards[i - 2] \in Deck
      BY <1>2, <3>2, WalkBoard
    <3> QED
      BY <3>1, <3>3 DEF own_cards
  <2>2. own_class(q, p) \in Nat /\ own_class(q, p) < ClassCount[s.board_count]
    BY <1>1, <1>2, <2>1, StorageAssumption DEF own_class
  <2>3. ClassCount[s.board_count] \in Nat
    BY <1>1, ClassAssumption
  <2> QED
    BY <2>2, <2>3
<1>6. current_player(probe) = p /\ round_progress(probe) = round_progress(s)
  BY <1>4 DEF p, current_player, round_progress, opened_with_check, first_action
<1>7. probe.card_class[p] = own_class(q, p)
  BY <1>1, <1>4 DEF States
<1>8. round_progress(s) \in 0 .. kProgress - 1
  <2>1. s.raises_used \in 0 .. MaxRaises /\ MaxRaises \in Nat
    BY <1>1, RaiseCapAssumption DEF States
  <2> QED
    BY <2>1 DEF round_progress, kProgress, round_progress_count
<1>9. s.closing[0] \in 0 .. kClosing - 1 /\ s.closing[1] \in 0 .. kClosing - 1
  BY <1>1 DEF States
<1>10. RowOnStreet(probe)
  BY <1>1, <1>4, <1>5, <1>6, <1>7, <1>8, <1>9, RowOfDigits
<1>11. infoset_index(probe) \in 0 .. infoset_count - 1
  <2>1. probe.board_count \in {0, 1, 2}
    BY <1>1, <1>4 DEF Street, kRihRoundCount
  <2> DEFINE a == round0_rows
             b == round1_rows
             c == round2_rows
             i == infoset_index(probe)
  <2>2. /\ probe.board_count = 0 => i \in 0 .. a - 1
        /\ probe.board_count = 1 => i \in a .. a + b - 1
        /\ probe.board_count = 2 => i \in a + b .. infoset_count - 1
    BY <1>10 DEF RowOnStreet
  <2>3. a \in Nat /\ b \in Nat /\ c \in Nat /\ infoset_count = a + b + c
    BY RowCounts
  <2> HIDE DEF a, b, c, i
  <2>4. i \in 0 .. infoset_count - 1
    BY <2>1, <2>2, <2>3
  <2> QED
    BY <2>4 DEF i
<1>12. n \in ActionCounts
  BY WalkActions
<1>13. strategy_query(w, s, card) = average_strategy(w.strategy, infoset_index(probe), n)
  BY DEF strategy_query, probe, p
<1> HIDE DEF n
<1> DEFINE row   == infoset_index(probe)
           share == average_strategy(w.strategy, row, n)
<1> HIDE DEF row
<1>14. n \in {2, 3} /\ share \in [1 .. n -> Nat] /\ Given(share, n) = Split
  <2>1. row \in 0 .. infoset_count - 1
    BY <1>11 DEF row
  <2> QED
    BY <1>12, <2>1, SharesAre
<1>15. strategy_query(w, s, card) = share
  BY <1>13 DEF row
<1> QED
  BY <1>14, <1>15 DEF n

-----------------------------------------------------------------------------
(* The frames of a walk *)

FrameSpace ==
  [ state          : States,
    opponent_reach : CardVector,
    ranks          : {NoRanks} \cup [Deck -> Nat],
    value          : CardVector,
    walked         : Nat ]

Frames ==
  {fr \in FrameSpace : /\ InWalk(fr.state)
                       /\ fr.state.board_count = 2 => fr.ranks \in [Deck -> Nat]
                       /\ fr.walked <= Len(children(fr.state))}

\* What a walk can be asked.
Asked(w) == w.strategy \in Profile /\ w.responder \in Player

\* The child a node goes down to next.
next_child(w, at) ==
  IF is_chance(at.state) THEN board_child(at, children(at.state)[at.walked + 1])
  ELSE action_child(w, at, at.walked + 1)

\* The children of a node: none, the cards off the board, or the actions.
LEMMA ChildrenAre ==
  ASSUME NEW s, InWalk(s)
  PROVE  LET n == Len(children(s))
         IN  /\ n \in Nat
             /\ is_terminal(s) => n = 0
             /\ is_chance(s) => \A k \in 1 .. n : children(s)[k] \in Deck \ OnBoard(s)
             /\ is_decision(s) => children(s) = legal_actions(s)
<1>1. is_terminal(s) => ~is_chance(s) /\ ~is_decision(s)
  BY DEF is_terminal, is_decision
<1>2. is_chance(s) => ~is_terminal(s) /\ ~is_decision(s)
  BY DEF is_terminal, is_decision
<1>3. is_terminal(s) \/ is_chance(s) \/ is_decision(s)
  BY DEF is_decision
<1>4. CASE is_terminal(s)
  BY <1>1, <1>4 DEF children
<1>5. CASE is_chance(s)
  <2> DEFINE S == Deck \ OnBoard(s)
  <2>1. S \subseteq Int /\ IsFiniteSet(S)
    <3>1. Deck \subseteq Int /\ IsFiniteSet(Deck) /\ S \in SUBSET Deck
      BY DeckAssumption
    <3> HIDE DEF S
    <3> QED
      BY <3>1, FS_Subset
  <2>2. children(s) = Ascending(S)
    BY <1>2, <1>5 DEF children
  <2> HIDE DEF S
  <2>3. Len(children(s)) \in Nat /\ \A k \in 1 .. Len(children(s)) : children(s)[k] \in S
    BY <2>1, <2>2, AscendingIs
  <2> QED
    BY <1>2, <1>5, <2>3 DEF S
<1>6. CASE is_decision(s)
  <2>1. children(s) = legal_actions(s) /\ ~is_chance(s) /\ ~is_terminal(s)
    BY <1>6 DEF is_decision, children
  <2>2. Len(legal_actions(s)) \in Nat
    BY <1>6, WalkActions
  <2> QED
    BY <1>6, <2>1, <2>2
<1> QED
  BY <1>3, <1>4, <1>5, <1>6

\* A node begins with no child walked and nothing added up.
LEMMA NodeIs ==
  ASSUME NEW s, InWalk(s), NEW reach \in CardVector,
         NEW ranks \in {NoRanks} \cup [Deck -> Nat],
         s.board_count = 2 => ranks \in [Deck -> Nat]
  PROVE  /\ node(s, reach, ranks) \in Frames
         /\ node(s, reach, ranks).state = s
         /\ node(s, reach, ranks).opponent_reach = reach
         /\ node(s, reach, ranks).ranks = ranks
         /\ node(s, reach, ranks).value = Zero /\ node(s, reach, ranks).walked = 0
<1> DEFINE fr == node(s, reach, ranks)
<1>1. Zero \in CardVector
  BY DEF Zero, CardVector
<1>2. s \in States /\ Len(children(s)) \in Nat
  BY ChildrenAre DEF InWalk
<1>3. /\ fr.state = s /\ fr.opponent_reach = reach /\ fr.ranks = ranks
      /\ fr.value = Zero /\ fr.walked = 0
  BY DEF node
<1>4. fr \in FrameSpace
  BY <1>1, <1>2 DEF node, FrameSpace
<1> HIDE DEF fr
<1>5. fr \in Frames
  BY <1>2, <1>3, <1>4 DEF Frames
<1> QED
  BY <1>3, <1>5 DEF fr

\* The fields of a frame.
LEMMA FrameIs ==
  ASSUME NEW fr \in Frames
  PROVE  /\ InWalk(fr.state) /\ fr.state \in States
         /\ fr.opponent_reach \in CardVector /\ fr.value \in CardVector
         /\ fr.ranks \in {NoRanks} \cup [Deck -> Nat]
         /\ fr.state.board_count = 2 => fr.ranks \in [Deck -> Nat]
         /\ fr.walked \in Nat /\ fr.walked <= Len(children(fr.state))
  BY DEF Frames, FrameSpace

\* Each child of a node is a node of the walk.
LEMMA ChildIs ==
  ASSUME NEW w, Asked(w), NEW at \in Frames, at.walked < Len(children(at.state))
  PROVE  /\ ~is_terminal(at.state)
         /\ next_child(w, at) \in Frames
         /\ next_child(w, at).walked = 0 /\ next_child(w, at).value = Zero
<1> DEFINE s == at.state
           k == at.walked + 1
           n == Len(children(s))
<1>1. /\ InWalk(s) /\ at.walked \in Nat /\ n \in Nat /\ k \in 1 .. n
      /\ at.opponent_reach \in CardVector
      /\ at.ranks \in {NoRanks} \cup [Deck -> Nat]
      /\ s.board_count = 2 => at.ranks \in [Deck -> Nat]
  BY FrameIs, ChildrenAre
<1>2. ~is_terminal(s)
  BY <1>1, ChildrenAre
<1>3. CASE is_chance(s)
  <2> DEFINE card  == children(s)[k]
             u     == apply_deal(s, card)
             reach == reach_without(at.opponent_reach, card)
             ranks == IF completes_board(s) THEN rank_every_hole_card(s.board_cards[0], card)
                      ELSE NoRanks
  <2>1. card \in Deck \ OnBoard(s)
    BY <1>1, <1>3, ChildrenAre
  <2>2. InWalk(u) /\ s.board_count \in {0, 1} /\ u.board_count = s.board_count + 1
    BY <1>1, <1>3, <2>1, DealInWalk
  <2>3. reach \in CardVector
    BY <1>1, <2>1 DEF reach_without, CardVector
  <2>4. completes_board(s) => ranks \in [Deck -> Nat]
    <3> SUFFICES ASSUME completes_board(s) PROVE ranks \in [Deck -> Nat]
      OBVIOUS
    <3>1. s.board_cards[0] \in Deck
      BY <1>1, WalkBoard DEF completes_board
    <3>2. \A c \in Deck : <<c, s.board_cards[0], card>> \in [1 .. 3 -> Deck]
      BY <2>1, <3>1
    <3>3. \A c \in Deck : Strength[<<c, s.board_cards[0], card>>] \in Nat
      BY <3>2, StorageAssumption
    <3> QED
      BY <3>3 DEF rank_every_hole_card
  <2>5. ranks \in {NoRanks} \cup [Deck -> Nat]
    BY <2>4
  <2>6. u.board_count = 2 => completes_board(s)
    BY <2>2 DEF completes_board
  <2>7. next_child(w, at) = node(u, reach, ranks)
    BY <1>3 DEF next_child, board_child
  <2> HIDE DEF card, u, reach, ranks
  <2> QED
    BY <1>2, <2>2, <2>3, <2>4, <2>5, <2>6, <2>7, NodeIs
<1>4. CASE ~is_chance(s)
  <2> DEFINE action == legal_actions(s)[k]
             u      == apply_bet(s, action)
             reach  == IF ResponderActs(w, s) THEN at.opponent_reach ELSE split_reach(w, at, k)
  <2>1. is_decision(s) /\ children(s) = legal_actions(s)
    BY <1>1, <1>2, <1>4, ChildrenAre DEF is_decision
  <2>2. action \in BettingAction /\ IsLegal(s, action)
    BY <1>1, <2>1, WalkActions
  <2>3. InWalk(u)
    BY <1>1, <2>1, <2>2, BetInWalk
  <2>4. u.board_count = s.board_count
    <3>1. s \in States
      BY <1>1 DEF InWalk
    <3>2. SameCards(s, u)
      <4>1. CASE action = kActionFold
        BY <3>1, <4>1, FoldFields
      <4>2. CASE action = kActionCallCheck
        BY <3>1, <4>2, CallFields
      <4>3. CASE action = kActionRaise
        BY <3>1, <4>3, RaiseFields
      <4> QED
        BY <2>2, <4>1, <4>2, <4>3 DEF BettingAction
    <3> QED
      BY <3>2 DEF SameCards
  <2>5. reach \in CardVector
    <3>1. split_reach(w, at, k) \in CardVector
      <4>1. ASSUME NEW card \in Deck
            PROVE  (at.opponent_reach[card] * strategy_query(w, s, card)[k]) \div Split \in Int
        <5>1. strategy_query(w, s, card) \in [1 .. n -> Nat]
          BY <1>1, <2>1, QueryIs DEF Asked
        <5>2. strategy_query(w, s, card)[k] \in Nat /\ at.opponent_reach[card] \in Int
          BY <1>1, <5>1 DEF CardVector
        <5>3. at.opponent_reach[card] * strategy_query(w, s, card)[k] \in Int
          BY <5>2
        <5> QED
          BY <5>3, DivIs, SplitAssumption
      <4> QED
        BY <4>1 DEF split_reach, CardVector
    <3> QED
      BY <1>1, <3>1
  <2>6. next_child(w, at) = node(u, reach, at.ranks)
    BY <1>4 DEF next_child, action_child
  <2> HIDE DEF action, u, reach
  <2> QED
    BY <1>1, <1>2, <2>3, <2>4, <2>5, <2>6, NodeIs
<1> QED
  BY <1>3, <1>4

\* What a node returns is a number for every hole card.
LEMMA ReturnedIs ==
  ASSUME NEW w, Asked(w), NEW at \in Frames
  PROVE  returned(w, at) \in CardVector
<1> DEFINE s == at.state
           p == w.responder
<1>1. /\ s \in States /\ InWalk(s) /\ at.opponent_reach \in CardVector
      /\ at.value \in CardVector
      /\ s.board_count = 2 => at.ranks \in [Deck -> Nat]
      /\ p \in Player
  BY FrameIs DEF Asked
<1>2. s.contribution[0] \in Int /\ s.contribution[1] \in Int /\ s.contribution[p] \in Int
  <2>1. s.contribution \in [Player -> Nat]
    BY <1>1 DEF States
  <2>2. 0 \in Player /\ 1 \in Player
    BY DEF Player, kPlayerCount
  <2> QED
    BY <1>1, <2>1, <2>2
<1>3. ASSUME is_terminal(s)
      PROVE  terminal_value(s, p, at.opponent_reach, at.ranks) \in CardVector
  <2> DEFINE value == IF folded(s) THEN fold_value(s, p, at.opponent_reach)
                      ELSE showdown_value(s.contribution[p], at.opponent_reach, at.ranks)
  <2>1. ASSUME folded(s)
        PROVE  value \in CardVector
    <3>1. undealt_board_multiplicity(s) \in Int
      <4>1. kCardCount \in Int
        BY DeckAssumption, FS_CardinalityType DEF kCardCount
      <4>2. s.board_count \in {0, 1, 2}
        BY <1>1, WalkBoard
      <4>3. (kCardCount - 2) * (kCardCount - 3) \in Int /\ kCardCount - 3 \in Int
        BY <4>1
      <4> QED
        BY <4>2, <4>3 DEF undealt_board_multiplicity
    <3>2. fold_payoff(s, p) \in Int
      BY <1>2 DEF fold_payoff
    <3>3. \A card \in Deck : reach_of_others(at.opponent_reach, card) \in Int
      BY <1>1, VectorSum DEF reach_of_others, CardVector
    <3>4. \A card \in Deck : undealt_board_multiplicity(s) * fold_payoff(s, p)
                               * reach_of_others(at.opponent_reach, card) \in Int
      <4>1. undealt_board_multiplicity(s) * fold_payoff(s, p) \in Int
        BY <3>1, <3>2
      <4> QED
        BY <3>3, <4>1
    <3> QED
      BY <2>1, <3>4 DEF fold_value, CardVector
  <2>2. ASSUME ~folded(s)
        PROVE  value \in CardVector
    <3>1. s.board_count = 2
      BY <1>3, <2>2 DEF is_terminal
    <3> QED
      BY <1>1, <1>2, <2>2, <3>1, ShowdownIs
  <2>3. value \in CardVector
    BY <2>1, <2>2
  <2>4. terminal_value(s, p, at.opponent_reach, at.ranks) = clear_board_cards(s, value)
    BY DEF terminal_value
  <2> HIDE DEF value
  <2> QED
    BY <2>3, <2>4 DEF clear_board_cards, CardVector
<1> QED
  BY <1>1, <1>3 DEF returned

\* Adding what a child returns leaves a number for every hole card.
LEMMA AddedIs ==
  ASSUME NEW w, Asked(w), NEW at \in Frames, at.walked < Len(children(at.state)),
         NEW below \in CardVector
  PROVE  added(w, at, below) \in CardVector
<1> DEFINE s == at.state
<1>1. InWalk(s) /\ at.value \in CardVector /\ at.walked \in Nat
  BY FrameIs
<1>2. ~is_terminal(s)
  BY ChildIs
<1>3. /\ \A card \in Deck : at.value[card] \in Int /\ below[card] \in Int
      /\ \A card \in Deck : at.value[card] + below[card] \in Int
  BY <1>1 DEF CardVector
<1>4. CASE is_chance(s)
  <2>1. ~ResponderActs(w, s) /\ ~OpponentActs(w, s)
    BY <1>4 DEF ResponderActs, OpponentActs, is_decision
  <2>2. added(w, at, below) = add_board_child(at, below)
    BY <1>4, <2>1 DEF added
  <2> QED
    BY <1>3, <2>2 DEF add_board_child, CardVector
<1>5. CASE ResponderActs(w, s)
  <2>1. ~is_chance(s) /\ ~OpponentActs(w, s) /\ is_decision(s)
    BY <1>5 DEF ResponderActs, OpponentActs, is_decision
  <2>2. added(w, at, below) = add_responder_child(w, at, below)
    BY <1>5, <2>1 DEF added
  <2>3. ASSUME NEW card \in Deck
        PROVE  at.value[card]
                 + (strategy_query(w, s, card)[at.walked + 1] * below[card]) \div Split \in Int
    <3>1. strategy_query(w, s, card) \in [1 .. Len(legal_actions(s)) -> Nat]
      BY <1>1, <2>1, QueryIs DEF Asked
    <3>2. at.walked + 1 \in 1 .. Len(legal_actions(s))
      BY <1>1, <2>1, ChildrenAre
    <3>3. strategy_query(w, s, card)[at.walked + 1] * below[card] \in Int
      BY <1>3, <3>1, <3>2
    <3>4. (strategy_query(w, s, card)[at.walked + 1] * below[card]) \div Split \in Int
      BY <3>3, DivIs, SplitAssumption
    <3> QED
      BY <1>3, <3>4
  <2> QED
    BY <1>3, <2>2, <2>3 DEF add_responder_child, CardVector
<1>6. CASE OpponentActs(w, s)
  <2>1. ~is_chance(s) /\ ~ResponderActs(w, s)
    BY <1>6 DEF ResponderActs, OpponentActs, is_decision
  <2>2. added(w, at, below) = add_opponent_child(at, below)
    BY <1>6, <2>1 DEF added
  <2> QED
    BY <1>3, <2>2 DEF add_opponent_child, CardVector
<1>7. is_chance(s) \/ ResponderActs(w, s) \/ OpponentActs(w, s)
  BY <1>2 DEF ResponderActs, OpponentActs, is_decision
<1> QED
  BY <1>4, <1>5, <1>6, <1>7

\* The node with one more child walked.
absorbed(w, at, below) ==
  [at EXCEPT !.value = added(w, at, returned(w, below)), !.walked = @ + 1]

LEMMA AbsorbedIs ==
  ASSUME NEW w, Asked(w), NEW at \in Frames, at.walked < Len(children(at.state)),
         NEW below \in Frames
  PROVE  LET u == absorbed(w, at, below)
         IN  /\ u \in Frames
             /\ u.state = at.state /\ u.opponent_reach = at.opponent_reach
             /\ u.ranks = at.ranks /\ u.walked = at.walked + 1
             /\ u.value = added(w, at, returned(w, below))
<1> DEFINE v == added(w, at, returned(w, below))
           u == absorbed(w, at, below)
<1>1. v \in CardVector
  BY ReturnedIs, AddedIs
<1>2. u = [at EXCEPT !.value = v, !.walked = at.walked + 1]
  BY DEF absorbed
<1> HIDE DEF v, u
<1>3. at \in FrameSpace /\ at.walked \in Nat /\ Len(children(at.state)) \in Nat
  BY FrameIs, ChildrenAre DEF Frames
<1>4. /\ u.state = at.state /\ u.opponent_reach = at.opponent_reach
      /\ u.ranks = at.ranks /\ u.walked = at.walked + 1 /\ u.value = v
      /\ u \in FrameSpace
  <2> DEFINE Ranks == {NoRanks} \cup [Deck -> Nat]
             n == at.walked + 1
  <2>1. n \in Nat /\ u = [at EXCEPT !.value = v, !.walked = n]
    BY <1>2, <1>3
  <2>2. FrameSpace = [state : States, opponent_reach : CardVector, ranks : Ranks,
                      value : CardVector, walked : Nat]
    BY DEF FrameSpace
  <2> HIDE DEF Ranks, n
  <2>3. u \in FrameSpace
    BY <1>1, <1>3, <2>1, <2>2
  <2>4. /\ u.state = at.state /\ u.opponent_reach = at.opponent_reach
        /\ u.ranks = at.ranks /\ u.walked = n /\ u.value = v
    BY <1>3, <2>1, <2>2
  <2> QED
    BY <2>3, <2>4 DEF n
<1>5. u \in Frames
  BY <1>3, <1>4 DEF Frames
<1> QED
  BY <1>4, <1>5 DEF u, v

-----------------------------------------------------------------------------
(* What a walk can have added up: the least set of frames that holds every *)
(* node nothing is walked of and every node that has just taken over what  *)
(* its next child returned.                                                *)

SameNode(at, other) ==
  /\ other.state = at.state
  /\ other.opponent_reach = at.opponent_reach
  /\ other.ranks = at.ranks

Unwalked(at) == at.walked = 0 /\ at.value = Zero

\* below is the next child of at, with all its own children walked.
Returns(w, at, below) ==
  /\ at.walked < Len(children(at.state))
  /\ SameNode(next_child(w, at), below)
  /\ Finished(below)

ClosedUnderWalks(w, S) ==
  /\ \A at \in Frames : Unwalked(at) => at \in S
  /\ \A at, below \in S : Returns(w, at, below) => absorbed(w, at, below) \in S

Walked(w) == {at \in Frames : \A S \in SUBSET Frames : ClosedUnderWalks(w, S) => at \in S}

LEMMA WalkedIsClosed ==
  ASSUME NEW w, Asked(w)
  PROVE  ClosedUnderWalks(w, Walked(w))
<1>1. \A at \in Frames : Unwalked(at) => at \in Walked(w)
  BY DEF Walked, ClosedUnderWalks
<1>2. ASSUME NEW at \in Walked(w), NEW below \in Walked(w), Returns(w, at, below)
      PROVE  absorbed(w, at, below) \in Walked(w)
  <2>1. at \in Frames /\ below \in Frames
    BY DEF Walked
  <2>2. absorbed(w, at, below) \in Frames
    BY <1>2, <2>1, AbsorbedIs DEF Returns
  <2>3. ASSUME NEW S \in SUBSET Frames, ClosedUnderWalks(w, S)
        PROVE  absorbed(w, at, below) \in S
    <3>1. at \in S /\ below \in S
      BY <2>3 DEF Walked
    <3> QED
      BY <1>2, <2>3, <3>1 DEF ClosedUnderWalks
  <2> QED
    BY <2>2, <2>3 DEF Walked
<1> QED
  BY <1>1, <1>2 DEF ClosedUnderWalks

\* Induction: what is closed under walks holds every frame of a walk.
LEMMA WalkedIsLeast ==
  ASSUME NEW w, NEW S \in SUBSET Frames, ClosedUnderWalks(w, S)
  PROVE  \A at \in Walked(w) : at \in S
  BY DEF Walked

\* A frame of a walk is one nothing is walked of, or has taken over a child.
LEMMA WalkedFrom ==
  ASSUME NEW w, Asked(w), NEW fr \in Walked(w)
  PROVE  \/ Unwalked(fr)
         \/ \E at, below \in Walked(w) : Returns(w, at, below) /\ fr = absorbed(w, at, below)
<1> DEFINE From(u) == \/ Unwalked(u)
                      \/ \E at, below \in Walked(w) :
                           Returns(w, at, below) /\ u = absorbed(w, at, below)
           S == {u \in Walked(w) : From(u)}
<1>1. ClosedUnderWalks(w, Walked(w))
  BY WalkedIsClosed
<1>2. S \in SUBSET Frames
  BY DEF Walked
<1>3. \A at \in Frames : Unwalked(at) => at \in S
  BY <1>1 DEF ClosedUnderWalks
<1>4. ASSUME NEW at \in S, NEW below \in S, Returns(w, at, below)
      PROVE  absorbed(w, at, below) \in S
  BY <1>1, <1>4 DEF ClosedUnderWalks
<1>5. ClosedUnderWalks(w, S)
  BY <1>3, <1>4 DEF ClosedUnderWalks
<1> HIDE DEF S
<1>6. fr \in S
  BY <1>2, <1>5, WalkedIsLeast
<1> QED
  BY <1>6 DEF S

\* Nothing walked, nothing added up; something walked, then a child last.
LEMMA WalkedSteps ==
  ASSUME NEW w, Asked(w), NEW fr \in Walked(w)
  PROVE  /\ fr \in Frames
         /\ fr.walked = 0 => fr.value = Zero
         /\ fr.walked # 0 =>
              \E at, below \in Walked(w) :
                 /\ Returns(w, at, below)
                 /\ at \in Frames /\ below \in Frames
                 /\ SameNode(fr, at) /\ fr.walked = at.walked + 1
                 /\ fr.value = added(w, at, returned(w, below))
<1>1. fr \in Frames
  BY DEF Walked
<1>2. CASE Unwalked(fr)
  BY <1>1, <1>2 DEF Unwalked
<1>3. CASE ~Unwalked(fr)
  <2>1. PICK at \in Walked(w), below \in Walked(w) :
               Returns(w, at, below) /\ fr = absorbed(w, at, below)
    BY <1>3, WalkedFrom
  <2>2. at \in Frames /\ below \in Frames /\ at.walked < Len(children(at.state))
    BY <2>1 DEF Walked, Returns
  <2>3. /\ fr.state = at.state /\ fr.opponent_reach = at.opponent_reach
        /\ fr.ranks = at.ranks /\ fr.walked = at.walked + 1
        /\ fr.value = added(w, at, returned(w, below))
    BY <2>1, <2>2, AbsorbedIs
  <2>4. fr.walked # 0
    BY <2>2, <2>3, FrameIs
  <2> QED
    BY <1>1, <2>1, <2>2, <2>3, <2>4 DEF SameNode
<1> QED
  BY <1>2, <1>3

-----------------------------------------------------------------------------
(* Products and quotients of numbers that are no less *)

LEMMA TimesMonotone ==
  ASSUME NEW n \in Nat, NEW x \in Int, NEW y \in Int, x <= y
  PROVE  n * x <= n * y /\ n * x \in Int /\ n * y \in Int
<1> DEFINE d == y - x
<1>1. d \in Nat /\ y = x + d
  OBVIOUS
<1> HIDE DEF d
<1>2. n * y = n * x + n * d
  BY <1>1
<1>3. n * d \in Nat /\ n * x \in Int /\ n * y \in Int
  BY <1>1
<1> DEFINE a == n * x
           b == n * y
           c == n * d
<1>4. b = a + c /\ c \in Nat /\ a \in Int /\ b \in Int
  BY <1>2, <1>3
<1> HIDE DEF a, b, c
<1>5. a <= b
  BY <1>4
<1> QED
  BY <1>3, <1>5 DEF a, b

LEMMA TimesReflects ==
  ASSUME NEW n \in Nat \ {0}, NEW x \in Int, NEW y \in Int, n * x <= n * y
  PROVE  x <= y
<1> SUFFICES ASSUME y + 1 <= x PROVE FALSE
  OBVIOUS
<1>1. n * (y + 1) <= n * x
  BY TimesMonotone
<1>2. n * (y + 1) = n * y + n
  OBVIOUS
<1> DEFINE a == n * x
           b == n * y
<1>3. a \in Int /\ b \in Int /\ a <= b /\ b + n <= a
  BY <1>1, <1>2
<1> HIDE DEF a, b
<1> QED
  BY <1>3

LEMMA DivMonotone ==
  ASSUME NEW d \in Nat \ {0}, NEW x \in Int, NEW y \in Int, x <= y
  PROVE  x \div d <= y \div d
<1> DEFINE a == x \div d
           b == y \div d
<1>1. a \in Int /\ b \in Int /\ d * a <= x /\ y < d * b + d
  OBVIOUS
<1> SUFFICES ASSUME b + 1 <= a PROVE FALSE
  BY <1>1
<1> HIDE DEF a, b
<1>2. d * (b + 1) <= d * a
  BY <1>1, TimesMonotone
<1>3. d * (b + 1) = d * b + d /\ d * a \in Int /\ d * b \in Int
  BY <1>1
<1> DEFINE p == d * a
           q == d * b
<1>4. p \in Int /\ q \in Int /\ p <= x /\ y < q + d /\ q + d <= p
  BY <1>1, <1>2, <1>3
<1> HIDE DEF p, q
<1> QED
  BY <1>4

\* The mean of what was seen so far, next to a value no less than each part.
LEMMA MeanBelow ==
  ASSUME NEW d \in Nat \ {0}, NEW given \in Nat, NEW q \in Nat,
         NEW v1 \in Int, NEW b1 \in Int, NEW v2 \in Int,
         d * v1 <= given * v2, b1 <= v2
  PROVE  d * (v1 + (q * b1) \div d) <= (given + q) * v2
<1> DEFINE m == q * b1
           k == m \div d
<1>1. m \in Int
  OBVIOUS
<1>2. m <= q * v2
  BY TimesMonotone
<1> HIDE DEF m
<1>3. k \in Int /\ d * k <= m
  BY <1>1, DivIs
<1> HIDE DEF k
<1>4. d * (v1 + k) = d * v1 + d * k
  BY <1>3
<1>5. (given + q) * v2 = given * v2 + q * v2
  OBVIOUS
<1> DEFINE e == d * v1
           f == d * k
           g == given * v2
           h == q * v2
<1>6. e \in Int /\ f \in Int /\ g \in Int /\ h \in Int
  BY <1>3
<1>7. e <= g /\ f <= m /\ m <= h
  BY <1>2, <1>3
<1> HIDE DEF e, f, g, h
<1>8. e + f <= g + h
  BY <1>1, <1>6, <1>7
<1> QED
  BY <1>4, <1>5, <1>8 DEF e, f, g, h, k, m

-----------------------------------------------------------------------------
(* Two walks of one strategy for one responder, the second with at least   *)
(* the freedom of the first                                                *)

Freer(w1, w2) ==
  /\ w2.strategy = w1.strategy
  /\ w2.responder = w1.responder
  /\ \A s : maximize_at(w1, s) => maximize_at(w2, s)

\* Where only the second maximizes and a child is walked, the first has summed
\* parts of the shares given so far and the second has the best of them.
OnlySecondMaximizes(w1, w2, at) ==
  /\ ResponderActs(w1, at.state)
  /\ maximize_at(w2, at.state) /\ ~maximize_at(w1, at.state)
  /\ at.walked # 0

NoBetter(w1, w2, fr1, fr2) ==
  IF OnlySecondMaximizes(w1, w2, fr1)
  THEN \A card \in Deck :
         Split * fr1.value[card]
           <= Given(strategy_query(w1, fr1.state, card), fr1.walked) * fr2.value[card]
  ELSE \A card \in Deck : fr1.value[card] <= fr2.value[card]

\* The two walks go down to the same nodes.
LEMMA SameChild ==
  ASSUME NEW w1, NEW w2, Freer(w1, w2), NEW at1, NEW at2,
         SameNode(at1, at2), at1.walked = at2.walked,
         NEW u1, NEW u2, SameNode(next_child(w1, at1), u1), SameNode(next_child(w2, at2), u2)
  PROVE  SameNode(u1, u2)
<1>1. /\ at2.state = at1.state /\ at2.opponent_reach = at1.opponent_reach
      /\ at2.ranks = at1.ranks
  BY DEF SameNode
<1>2. \A s, card : strategy_query(w1, s, card) = strategy_query(w2, s, card)
  BY DEF Freer, strategy_query
<1>3. \A s : ResponderActs(w1, s) <=> ResponderActs(w2, s)
  BY DEF Freer, ResponderActs
<1>4. \A k : split_reach(w1, at1, k) = split_reach(w2, at2, k)
  BY <1>1, <1>2, Zenon DEF split_reach
<1>5. \A k : action_child(w1, at1, k) = action_child(w2, at2, k)
  BY <1>1, <1>3, <1>4, Zenon DEF action_child
<1>6. \A card : board_child(at1, card) = board_child(at2, card)
  BY <1>1, Zenon DEF board_child
<1>7. next_child(w1, at1) = next_child(w2, at2)
  BY <1>1, <1>5, <1>6, Zenon DEF next_child
<1> QED
  BY <1>7 DEF SameNode

\* What is no better while it is added up is no better when it is returned.
LEMMA ReturnedNoBetter ==
  ASSUME NEW w1, NEW w2, Asked(w1), Asked(w2), Freer(w1, w2),
         NEW fr1 \in Frames, NEW fr2 \in Frames, SameNode(fr1, fr2),
         Finished(fr1), Finished(fr2), NoBetter(w1, w2, fr1, fr2), NEW card \in Deck
  PROVE  returned(w1, fr1)[card] <= returned(w2, fr2)[card]
<1> DEFINE s == fr1.state
<1>1. /\ fr2.state = s /\ fr2.opponent_reach = fr1.opponent_reach /\ fr2.ranks = fr1.ranks
      /\ w2.responder = w1.responder /\ w2.strategy = w1.strategy
  BY DEF SameNode, Freer
<1>2. fr1.value[card] \in Int /\ fr2.value[card] \in Int
  BY FrameIs DEF CardVector
<1>3. CASE is_terminal(s)
  <2>1. returned(w1, fr1) = returned(w2, fr2)
    BY <1>1, <1>3 DEF returned
  <2>2. returned(w1, fr1)[card] \in Int
    BY ReturnedIs DEF CardVector
  <2> QED
    BY <2>1, <2>2
<1>4. CASE ~is_terminal(s)
  <2>1. returned(w1, fr1) = fr1.value /\ returned(w2, fr2) = fr2.value
    BY <1>1, <1>4 DEF returned
  <2>2. CASE ~OnlySecondMaximizes(w1, w2, fr1)
    BY <2>1, <2>2 DEF NoBetter
  <2>3. CASE OnlySecondMaximizes(w1, w2, fr1)
    <3>1. is_decision(s)
      BY <2>3 DEF OnlySecondMaximizes, ResponderActs
    <3>2. fr1.walked = Len(legal_actions(s))
      BY <3>1, ChildrenAre, FrameIs DEF Finished
    <3>3. Given(strategy_query(w1, s, card), fr1.walked) = Split
      BY <3>1, <3>2, QueryIs, FrameIs DEF Asked
    <3>4. Split * fr1.value[card] <= Split * fr2.value[card]
      BY <2>3, <3>3 DEF NoBetter
    <3>5. Split \in Nat \ {0}
      BY SplitAssumption
    <3>6. fr1.value[card] <= fr2.value[card]
      BY <1>2, <3>4, <3>5, TimesReflects
    <3> QED
      BY <2>1, <3>6
  <2> QED
    BY <2>2, <2>3
<1> QED
  BY <1>3, <1>4

\* A child that is no better leaves the parent no better.
LEMMA AddedNoBetter ==
  ASSUME NEW w1, NEW w2, Asked(w1), Asked(w2), Freer(w1, w2),
         NEW at1 \in Frames, NEW at2 \in Frames, SameNode(at1, at2),
         at1.walked = at2.walked, at1.walked < Len(children(at1.state)),
         at1.walked = 0 => at1.value = Zero,
         NoBetter(w1, w2, at1, at2),
         NEW b1 \in CardVector, NEW b2 \in CardVector, \A card \in Deck : b1[card] <= b2[card],
         NEW fr1, NEW fr2,
         SameNode(fr1, at1), fr1.walked = at1.walked + 1, fr1.value = added(w1, at1, b1),
         fr2.value = added(w2, at2, b2)
  PROVE  NoBetter(w1, w2, fr1, fr2)
<1> DEFINE s == at1.state
           k == at1.walked
           share(card) == strategy_query(w1, s, card)
<1>1. /\ at2.state = s /\ at2.walked = k /\ fr1.state = s
      /\ w2.responder = w1.responder /\ w2.strategy = w1.strategy
  BY DEF SameNode, Freer
<1>2. /\ InWalk(s) /\ k \in Nat /\ fr1.walked = k + 1 /\ fr1.walked # 0
      /\ \A card \in Deck : /\ at1.value[card] \in Int /\ at2.value[card] \in Int
                            /\ b1[card] \in Int /\ b2[card] \in Int
  BY FrameIs DEF CardVector
<1>3. ~is_terminal(s)
  BY ChildIs
<1>4. /\ ResponderActs(w2, s) <=> ResponderActs(w1, s)
      /\ OpponentActs(w2, s) <=> OpponentActs(w1, s)
      /\ \A card : strategy_query(w2, s, card) = share(card)
  BY <1>1 DEF ResponderActs, OpponentActs, strategy_query
<1>5. is_chance(s) \/ ResponderActs(w1, s) \/ OpponentActs(w1, s)
  BY <1>3 DEF ResponderActs, OpponentActs, is_decision
<1>6. CASE ~ResponderActs(w1, s)
  <2>1. ~OnlySecondMaximizes(w1, w2, fr1) /\ ~OnlySecondMaximizes(w1, w2, at1)
    BY <1>1, <1>6 DEF OnlySecondMaximizes
  <2>2. \A card \in Deck : at1.value[card] <= at2.value[card]
    BY <2>1 DEF NoBetter
  <2>3. \A card \in Deck : at1.value[card] + b1[card] <= at2.value[card] + b2[card]
    BY <1>2, <2>2
  <2>4. \A card \in Deck : fr1.value[card] <= fr2.value[card]
    <3>1. CASE is_chance(s)
      <4>1. /\ added(w1, at1, b1) = add_board_child(at1, b1)
            /\ added(w2, at2, b2) = add_board_child(at2, b2)
        BY <1>1, <3>1 DEF added, ResponderActs, OpponentActs, is_decision
      <4> QED
        BY <1>1, <1>2, <2>2, <2>3, <4>1 DEF add_board_child
    <3>2. CASE OpponentActs(w1, s)
      <4>1. /\ added(w1, at1, b1) = add_opponent_child(at1, b1)
            /\ added(w2, at2, b2) = add_opponent_child(at2, b2)
        BY <1>1, <1>4, <3>2 DEF added, ResponderActs, OpponentActs, is_decision
      <4> QED
        BY <1>2, <2>3, <4>1 DEF add_opponent_child
    <3> QED
      BY <1>5, <1>6, <3>1, <3>2
  <2> QED
    BY <2>1, <2>4 DEF NoBetter
<1>7. CASE ResponderActs(w1, s)
  <2>1. /\ added(w1, at1, b1) = add_responder_child(w1, at1, b1)
        /\ added(w2, at2, b2) = add_responder_child(w2, at2, b2)
    BY <1>1, <1>4, <1>7 DEF added, ResponderActs, OpponentActs, is_decision
  <2>2. is_decision(s) /\ k + 1 \in 1 .. Len(legal_actions(s)) /\ k \in 0 .. Len(legal_actions(s)) - 1
    <3>1. is_decision(s)
      BY <1>7 DEF ResponderActs
    <3>2. children(s) = legal_actions(s) /\ Len(children(s)) \in Nat
      BY <1>2, <3>1, ChildrenAre
    <3> QED
      BY <1>2, <3>1, <3>2
  <2>3. ASSUME NEW card \in Deck
        PROVE  /\ share(card)[k + 1] \in Nat /\ Given(share(card), k) \in Nat
               /\ Given(share(card), 0) = 0
               /\ Given(share(card), k + 1) = Given(share(card), k) + share(card)[k + 1]
    <3> DEFINE f == share(card)
               n == Len(legal_actions(s))
    <3>1. f \in [1 .. n -> Nat] /\ n \in Nat
      BY <1>2, <2>2, QueryIs DEF Asked
    <3> HIDE DEF f, n
    <3>2. k + 1 \in 1 .. n /\ k \in 0 .. n - 1
      BY <2>2 DEF n
    <3>3. f[k + 1] \in Nat /\ Given(f, 0) = 0 /\ Given(f, k) \in Nat
          /\ Given(f, k + 1) = Given(f, k) + f[k + 1]
      BY <3>1, <3>2, GivenGrows
    <3> QED
      BY <3>3 DEF f
  <2> HIDE DEF share
  <2>4. maximize_at(w1, s) => maximize_at(w2, s)
    BY DEF Freer
  <2>5. CASE maximize_at(w1, s)
    <3>1. ~OnlySecondMaximizes(w1, w2, fr1) /\ ~OnlySecondMaximizes(w1, w2, at1)
      BY <1>1, <2>5 DEF OnlySecondMaximizes
    <3>2. \A card \in Deck : at1.value[card] <= at2.value[card]
      BY <3>1 DEF NoBetter
    <3>3. \A card \in Deck :
            /\ fr1.value[card] = IF k = 0 \/ b1[card] > at1.value[card]
                                 THEN b1[card] ELSE at1.value[card]
            /\ fr2.value[card] = IF k = 0 \/ b2[card] > at2.value[card]
                                 THEN b2[card] ELSE at2.value[card]
      BY <1>1, <2>1, <2>4, <2>5 DEF add_responder_child
    <3>4. \A card \in Deck : fr1.value[card] <= fr2.value[card]
      BY <1>2, <3>2, <3>3
    <3> QED
      BY <3>1, <3>4 DEF NoBetter
  <2>6. CASE ~maximize_at(w2, s)
    <3>1. ~OnlySecondMaximizes(w1, w2, fr1) /\ ~OnlySecondMaximizes(w1, w2, at1)
      BY <1>1, <2>6 DEF OnlySecondMaximizes
    <3>2. \A card \in Deck : at1.value[card] <= at2.value[card]
      BY <3>1 DEF NoBetter
    <3>3. \A card \in Deck :
            /\ fr1.value[card] = at1.value[card] + (share(card)[k + 1] * b1[card]) \div Split
            /\ fr2.value[card] = at2.value[card] + (share(card)[k + 1] * b2[card]) \div Split
      BY <1>1, <1>4, <2>1, <2>4, <2>6 DEF add_responder_child, share
    <3>4. ASSUME NEW card \in Deck
          PROVE  fr1.value[card] <= fr2.value[card]
      <4> DEFINE q  == share(card)[k + 1]
                 m1 == q * b1[card]
                 m2 == q * b2[card]
                 d1 == m1 \div Split
                 d2 == m2 \div Split
      <4>1. q \in Nat
        BY <2>3
      <4> HIDE DEF q
      <4>2. m1 <= m2 /\ m1 \in Int /\ m2 \in Int
        BY <1>2, <4>1, TimesMonotone
      <4> HIDE DEF m1, m2
      <4>3. d1 <= d2 /\ d1 \in Int /\ d2 \in Int
        BY <4>2, SplitAssumption, DivMonotone, DivIs
      <4>4. fr1.value[card] = at1.value[card] + d1 /\ fr2.value[card] = at2.value[card] + d2
        BY <3>3 DEF m1, m2, q
      <4> HIDE DEF d1, d2
      <4> QED
        BY <1>2, <3>2, <4>3, <4>4
    <3> QED
      BY <3>1, <3>4 DEF NoBetter
  <2>7. CASE ~maximize_at(w1, s) /\ maximize_at(w2, s)
    <3>1. OnlySecondMaximizes(w1, w2, fr1)
      BY <1>1, <1>2, <1>7, <2>7 DEF OnlySecondMaximizes
    <3>2. k # 0 => OnlySecondMaximizes(w1, w2, at1)
      BY <1>7, <2>7 DEF OnlySecondMaximizes
    <3>3. \A card \in Deck :
            /\ fr1.value[card] = at1.value[card] + (share(card)[k + 1] * b1[card]) \div Split
            /\ fr2.value[card] = IF k = 0 \/ b2[card] > at2.value[card]
                                 THEN b2[card] ELSE at2.value[card]
      BY <1>1, <2>1, <2>7 DEF add_responder_child, share
    <3>4. ASSUME NEW card \in Deck
          PROVE  Split * fr1.value[card] <= Given(share(card), k + 1) * fr2.value[card]
      <4> DEFINE q == share(card)[k + 1]
                 G == Given(share(card), k)
                 x == at1.value[card]
                 y == at2.value[card]
                 v == fr2.value[card]
                 b == b1[card]
      <4>1. q \in Nat /\ G \in Nat /\ Given(share(card), k + 1) = G + q
        BY <2>3
      <4>2. x \in Int /\ y \in Int /\ v \in Int /\ b \in Int /\ b <= v
        <5>1. v = IF k = 0 \/ b2[card] > y THEN b2[card] ELSE y
          BY <3>3
        <5> QED
          BY <1>2, <5>1
      <4>3. Split * x <= G * v
        <5>1. CASE k = 0
          <6>1. x = 0
            BY <1>2, <5>1 DEF Zero
          <6>2. G = 0
            BY <2>3, <5>1
          <6>3. Split \in Nat
            BY SplitAssumption
          <6> HIDE DEF x, G, v
          <6> QED
            BY <4>2, <6>1, <6>2, <6>3
        <5>2. CASE k # 0
          <6>1. Split * x <= G * y
            BY <3>2, <5>2 DEF NoBetter, share
          <6>2. y <= v
            <7>1. v = IF k = 0 \/ b2[card] > y THEN b2[card] ELSE y
              BY <3>3
            <7> QED
              BY <1>2, <4>2, <5>2, <7>1
          <6>3. Split \in Nat
            BY SplitAssumption
          <6> HIDE DEF x, y, G, v
          <6>4. G * y <= G * v /\ G * y \in Int /\ G * v \in Int
            BY <4>1, <4>2, <6>2, TimesMonotone
          <6> DEFINE e == Split * x
                     f == G * y
                     g == G * v
          <6>5. e \in Int /\ f \in Int /\ g \in Int /\ e <= f /\ f <= g
            BY <4>2, <6>1, <6>3, <6>4
          <6> HIDE DEF e, f, g
          <6>6. e <= g
            BY <6>5
          <6> QED
            BY <6>6 DEF e, g
        <5> QED
          BY <5>1, <5>2
      <4>4. fr1.value[card] = x + (q * b) \div Split
        BY <3>3
      <4>5. Split \in Nat \ {0}
        BY SplitAssumption
      <4> HIDE DEF x, y, G, v, q, b
      <4>6. Split * (x + (q * b) \div Split) <= (G + q) * v
        BY <4>1, <4>2, <4>3, <4>5, MeanBelow
      <4> QED
        BY <4>1, <4>4, <4>6 DEF v
    <3> QED
      BY <1>1, <1>2, <3>1, <3>4 DEF NoBetter, share
  <2> QED
    BY <2>4, <2>5, <2>6, <2>7
<1> QED
  BY <1>6, <1>7

\* Of two frames with the same node and as many children walked, the one of
\* the freer walk is no worse.
LEMMA FreerIsNoWorse ==
  ASSUME NEW w1, NEW w2, Asked(w1), Asked(w2), Freer(w1, w2),
         NEW fr1 \in Walked(w1), NEW fr2 \in Walked(w2),
         SameNode(fr1, fr2), fr1.walked = fr2.walked
  PROVE  NoBetter(w1, w2, fr1, fr2)
<1> DEFINE NoBetterThanAny(u1) ==
             \A u2 \in Walked(w2) : SameNode(u1, u2) /\ u1.walked = u2.walked
                                      => NoBetter(w1, w2, u1, u2)
           S == {u1 \in Walked(w1) : NoBetterThanAny(u1)}
<1>1. ClosedUnderWalks(w1, Walked(w1))
  BY WalkedIsClosed
<1>2. S \in SUBSET Frames
  BY DEF Walked
<1>3. ASSUME NEW u1 \in Frames, Unwalked(u1)
      PROVE  u1 \in S
  <2>1. u1 \in Walked(w1)
    BY <1>1, <1>3 DEF ClosedUnderWalks
  <2>2. ASSUME NEW u2 \in Walked(w2), u1.walked = u2.walked
        PROVE  NoBetter(w1, w2, u1, u2)
    <3>1. u1.value = Zero /\ u2.value = Zero /\ u1.walked = 0
      BY <1>3, <2>2, WalkedSteps DEF Unwalked
    <3>2. \A card \in Deck : u1.value[card] <= u2.value[card]
      BY <3>1 DEF Zero
    <3> QED
      BY <3>1, <3>2 DEF NoBetter, OnlySecondMaximizes
  <2> QED
    BY <2>1, <2>2
<1>4. ASSUME NEW at1 \in S, NEW below1 \in S, Returns(w1, at1, below1)
      PROVE  absorbed(w1, at1, below1) \in S
  <2> DEFINE u1 == absorbed(w1, at1, below1)
  <2>1. /\ at1 \in Walked(w1) /\ below1 \in Walked(w1)
        /\ at1 \in Frames /\ below1 \in Frames
        /\ NoBetterThanAny(at1) /\ NoBetterThanAny(below1)
    BY <1>2
  <2> HIDE DEF S, NoBetterThanAny
  <2>2. u1 \in Walked(w1)
    BY <1>1, <1>4, <2>1 DEF ClosedUnderWalks
  <2>3. /\ SameNode(u1, at1) /\ u1.walked = at1.walked + 1 /\ at1.walked \in Nat
        /\ u1.value = added(w1, at1, returned(w1, below1))
    BY <1>4, <2>1, AbsorbedIs, FrameIs DEF Returns, SameNode
  <2> HIDE DEF u1
  <2>4. ASSUME NEW u2 \in Walked(w2), SameNode(u1, u2), u1.walked = u2.walked
        PROVE  NoBetter(w1, w2, u1, u2)
    <3>1. u2.walked # 0
      BY <2>3, <2>4
    <3>2. PICK at2 \in Walked(w2), below2 \in Walked(w2) :
                 /\ Returns(w2, at2, below2)
                 /\ at2 \in Frames /\ below2 \in Frames
                 /\ SameNode(u2, at2) /\ u2.walked = at2.walked + 1
                 /\ u2.value = added(w2, at2, returned(w2, below2))
      BY <3>1, WalkedSteps
    <3>3. SameNode(at1, at2) /\ at1.walked = at2.walked
      <4>1. at2.walked \in Nat
        BY <3>2, FrameIs
      <4> QED
        BY <2>3, <2>4, <3>2, <4>1 DEF SameNode
    <3>4. SameNode(below1, below2)
      BY <1>4, <3>2, <3>3, SameChild DEF Returns
    <3>5. below1.walked = below2.walked /\ Finished(below1) /\ Finished(below2)
      BY <1>4, <3>2, <3>4 DEF Returns, Finished, SameNode
    <3>6. NoBetter(w1, w2, at1, at2) /\ NoBetter(w1, w2, below1, below2)
      BY <2>1, <3>2, <3>3, <3>4, <3>5 DEF NoBetterThanAny
    <3> DEFINE b1 == returned(w1, below1)
               b2 == returned(w2, below2)
    <3>7. b1 \in CardVector /\ b2 \in CardVector
      BY <2>1, <3>2, ReturnedIs
    <3>8. \A card \in Deck : b1[card] <= b2[card]
      BY <2>1, <3>2, <3>4, <3>5, <3>6, ReturnedNoBetter
    <3>9. at1.walked = 0 => at1.value = Zero
      BY <2>1, WalkedSteps
    <3>10. at1.walked < Len(children(at1.state))
      BY <1>4 DEF Returns
    <3>11. u1.value = added(w1, at1, b1) /\ u2.value = added(w2, at2, b2)
      BY <2>3, <3>2
    <3> HIDE DEF b1, b2
    <3> QED
      BY <2>1, <2>3, <3>2, <3>3, <3>6, <3>7, <3>8, <3>9, <3>10, <3>11, AddedNoBetter
  <2>5. NoBetterThanAny(u1)
    BY <2>4 DEF NoBetterThanAny
  <2> QED
    BY <2>2, <2>5 DEF S, u1
<1>5. ClosedUnderWalks(w1, S)
  BY <1>3, <1>4 DEF ClosedUnderWalks
<1> HIDE DEF S
<1>6. fr1 \in S
  BY <1>2, <1>5, WalkedIsLeast
<1> QED
  BY <1>6 DEF S

-----------------------------------------------------------------------------
(* The grading session *)

\* Every frame of the stack is one of the walk in progress, the first at the
\* root and each other at the next child of the one before it.
StackInv(w, st) ==
  /\ st \in Seq(Frames)
  /\ \A k \in 1 .. Len(st) : st[k] \in Walked(w)
  /\ Len(st) >= 1 => SameNode(root_node, st[1])
  /\ \A k \in 1 .. Len(st) - 1 :
       /\ st[k].walked < Len(children(st[k].state))
       /\ SameNode(next_child(w, st[k]), st[k + 1])

\* Every answer is what the root returned once all its children were walked.
AnswerOf(w, answer) ==
  \E fr \in Walked(w) : /\ SameNode(root_node, fr) /\ Finished(fr)
                        /\ answer = SumFunction(returned(w, fr))

AnswersInv(strategy, given) ==
  /\ given \in Seq(Int)
  /\ \A i \in 1 .. Len(given) : AnswerOf(Walk(strategy, i), given[i])

\* The entry points of a session.
Entries == kPlayerCount * PerPlayer

SessionInv ==
  /\ profile \in Profile
  /\ AnswersInv(profile, answers) /\ Len(answers) <= Entries
  /\ StackInv(walker, stack)
  /\ stack # << >> => Len(answers) < Entries

\* A session asks walks of its strategy for the two players.
LEMMA WalkIs ==
  ASSUME NEW strategy \in Profile, NEW i \in 1 .. Entries
  PROVE  Asked(Walk(strategy, i))
<1>1. i \in 1 .. 10
  BY DEF Entries, kPlayerCount, PerPlayer, kRihRoundCount
<1>2. (i - 1) \div 5 \in {0, 1}
  BY <1>1
<1> QED
  BY <1>2 DEF Asked, Walk, Player, kPlayerCount, PerPlayer, kRihRoundCount

LEMMA SessionBegins == WalkInit => SessionInv
<1> SUFFICES ASSUME WalkInit PROVE SessionInv
  OBVIOUS
<1>1. profile \in Profile /\ stack = << >> /\ answers = << >>
  BY DEF WalkInit
<1>2. Entries \in Nat
  BY DEF Entries, kPlayerCount, PerPlayer, kRihRoundCount
<1>3. StackInv(walker, stack)
  BY <1>1 DEF StackInv
<1>4. AnswersInv(profile, answers) /\ Len(answers) <= Entries
  BY <1>1, <1>2 DEF AnswersInv
<1> QED
  BY <1>1, <1>3, <1>4 DEF SessionInv

\* The walk of the next answer has a strategy and a responder.
LEMMA WalkerIs ==
  ASSUME SessionInv, Len(answers) < Entries
  PROVE  Asked(walker)
<1>1. Entries \in Nat /\ Len(answers) \in Nat /\ profile \in Profile
  BY DEF SessionInv, AnswersInv, Entries, kPlayerCount, PerPlayer, kRihRoundCount
<1>2. Len(answers) + 1 \in 1 .. Entries
  BY <1>1
<1> QED
  BY <1>1, <1>2, WalkIs DEF walker

\* The node a walk is in, and the one above it.
LEMMA TopIs ==
  ASSUME SessionInv, stack # << >>
  PROVE  /\ Asked(walker) /\ Len(stack) \in Nat \ {0} /\ stack \in Seq(Frames)
         /\ Top \in Walked(walker) /\ Top \in Frames
         /\ ~Finished(Top) => Top.walked < Len(children(Top.state))
<1>1. Asked(walker)
  BY WalkerIs DEF SessionInv
<1>2. stack \in Seq(Frames) /\ Len(stack) \in Nat \ {0}
  BY DEF SessionInv, StackInv
<1>3. Top \in Walked(walker)
  BY <1>2 DEF SessionInv, StackInv, Top
<1>4. Top \in Frames
  BY <1>3 DEF Walked
<1>5. Top.walked \in Nat /\ Top.walked <= Len(children(Top.state))
      /\ Len(children(Top.state)) \in Nat
  BY <1>4, FrameIs, ChildrenAre
<1> QED
  BY <1>1, <1>2, <1>3, <1>4, <1>5 DEF Finished

\* Going down to the next child.
LEMMA DownKeeps ==
  ASSUME SessionInv, stack # << >>, ~Finished(Top)
  PROVE  StackInv(walker, Append(stack, next_child(walker, Top)))
<1> DEFINE w == walker
           n == Len(stack)
           child == next_child(w, Top)
           st == Append(stack, child)
<1>1. /\ Asked(w) /\ n \in Nat \ {0} /\ stack \in Seq(Frames)
      /\ Top \in Frames /\ Top.walked < Len(children(Top.state))
  BY TopIs
<1>2. child \in Frames /\ Unwalked(child)
  BY <1>1, ChildIs DEF Unwalked
<1>3. child \in Walked(w)
  BY <1>1, <1>2, WalkedIsClosed DEF ClosedUnderWalks
<1>4. /\ \A k \in 1 .. n : stack[k] \in Walked(w)
      /\ SameNode(root_node, stack[1])
      /\ \A k \in 1 .. n - 1 : /\ stack[k].walked < Len(children(stack[k].state))
                               /\ SameNode(next_child(w, stack[k]), stack[k + 1])
  BY <1>1 DEF SessionInv, StackInv
<1>5. stack[n] = Top
  BY DEF Top
<1>6. SameNode(next_child(w, Top), child)
  BY DEF SameNode
<1> HIDE DEF w, child
<1>7. /\ st \in Seq(Frames) /\ Len(st) = n + 1
      /\ \A k \in 1 .. n : st[k] = stack[k]
      /\ st[n + 1] = child
  BY <1>1, <1>2
<1> HIDE DEF st, n
<1>8. ASSUME NEW k \in 1 .. Len(st)
      PROVE  st[k] \in Walked(w)
  <2>1. k \in 1 .. n \/ k = n + 1
    BY <1>1, <1>7
  <2> QED
    BY <1>3, <1>4, <1>7, <2>1
<1>9. SameNode(root_node, st[1])
  BY <1>1, <1>4, <1>7
<1>10. ASSUME NEW k \in 1 .. Len(st) - 1
       PROVE  /\ st[k].walked < Len(children(st[k].state))
              /\ SameNode(next_child(w, st[k]), st[k + 1])
  <2>1. k \in 1 .. n /\ st[k] = stack[k]
    BY <1>1, <1>7
  <2>2. CASE k = n
    BY <1>1, <1>5, <1>6, <1>7, <2>1, <2>2
  <2>3. CASE k # n
    <3>1. k \in 1 .. n - 1 /\ k + 1 \in 1 .. n
      BY <1>1, <2>1, <2>3
    <3> QED
      BY <1>4, <1>7, <2>1, <3>1
  <2> QED
    BY <2>2, <2>3
<1>11. StackInv(w, st)
  BY <1>7, <1>8, <1>9, <1>10 DEF StackInv
<1> QED
  BY <1>11 DEF w, st, child

\* Returning to the parent.
LEMMA UpKeeps ==
  ASSUME SessionInv, Len(stack) > 1, Finished(Top)
  PROVE  StackInv(walker, Append(SubSeq(stack, 1, Len(stack) - 2),
                                 absorbed(walker, Below, Top)))
<1> DEFINE w == walker
           n == Len(stack)
           fr == absorbed(w, Below, Top)
           st == Append(SubSeq(stack, 1, n - 2), fr)
<1>0. stack # << >>
  OBVIOUS
<1>1. /\ Asked(w) /\ n \in Nat /\ n > 1 /\ stack \in Seq(Frames)
      /\ Top \in Frames /\ Top \in Walked(w)
  BY <1>0, TopIs
<1>2. /\ \A k \in 1 .. n : stack[k] \in Walked(w)
      /\ SameNode(root_node, stack[1])
      /\ \A k \in 1 .. n - 1 : /\ stack[k].walked < Len(children(stack[k].state))
                               /\ SameNode(next_child(w, stack[k]), stack[k + 1])
  BY <1>1 DEF SessionInv, StackInv
<1>3. /\ Below \in Walked(w) /\ Below.walked < Len(children(Below.state))
      /\ SameNode(next_child(w, Below), Top)
  <2>1. n - 1 \in 1 .. n /\ n - 1 \in 1 .. n - 1 /\ (n - 1) + 1 = n
    BY <1>1
  <2>2. Below = stack[n - 1] /\ Top = stack[n]
    BY DEF Below, Top
  <2> QED
    BY <1>2, <2>1, <2>2
<1>4. Returns(w, Below, Top)
  BY <1>3 DEF Returns
<1>5. Below \in Frames
  BY <1>3 DEF Walked
<1>6. fr \in Walked(w)
  BY <1>1, <1>3, <1>4, WalkedIsClosed DEF ClosedUnderWalks
<1>7. fr \in Frames /\ SameNode(Below, fr)
  BY <1>1, <1>3, <1>5, AbsorbedIs DEF SameNode
<1>8. Below = stack[n - 1]
  BY DEF Below
<1> HIDE DEF w, fr
<1>9. /\ st \in Seq(Frames) /\ Len(st) = n - 1
      /\ \A k \in 1 .. n - 2 : st[k] = stack[k]
      /\ st[n - 1] = fr
  <2> DEFINE rest == SubSeq(stack, 1, n - 2)
  <2>1. /\ rest \in Seq(Frames) /\ Len(rest) = n - 2
        /\ \A k \in 1 .. n - 2 : rest[k] = stack[k]
    <3> DEFINE m == n - 2
    <3>1. m \in Nat /\ 1 \in Int /\ \A k \in 1 .. m : stack[k] \in Frames
      BY <1>1
    <3> HIDE DEF m, n
    <3>2. /\ SubSeq(stack, 1, m) \in Seq(Frames)
          /\ Len(SubSeq(stack, 1, m)) = IF 1 <= m THEN m - 1 + 1 ELSE 0
          /\ \A k \in 1 .. m - 1 + 1 : SubSeq(stack, 1, m)[k] = stack[1 + k - 1]
      BY <3>1, SubSeqProperties
    <3>3. /\ Len(SubSeq(stack, 1, m)) = m
          /\ \A k \in 1 .. m : SubSeq(stack, 1, m)[k] = stack[k]
      BY <3>1, <3>2
    <3> QED
      BY <3>2, <3>3 DEF m
  <2> HIDE DEF rest, n
  <2> QED
    BY <1>1, <1>7, <2>1
<1> HIDE DEF st, n
<1>10. ASSUME NEW k \in 1 .. Len(st)
       PROVE  st[k] \in Walked(w)
  <2>1. (k \in 1 .. n - 2 /\ k \in 1 .. n) \/ k = n - 1
    BY <1>1, <1>9
  <2> QED
    BY <1>2, <1>6, <1>9, <2>1
<1>11. SameNode(root_node, st[1])
  <2>1. CASE n = 2
    <3>1. st[1] = fr /\ Below = stack[1]
      BY <1>8, <1>9, <2>1
    <3> QED
      BY <1>2, <1>7, <3>1 DEF SameNode
  <2>2. CASE n # 2
    <3>1. 1 \in 1 .. n - 2
      BY <1>1, <2>2
    <3> QED
      BY <1>2, <1>9, <3>1
  <2> QED
    BY <2>1, <2>2
<1>12. ASSUME NEW k \in 1 .. Len(st) - 1
       PROVE  /\ st[k].walked < Len(children(st[k].state))
              /\ SameNode(next_child(w, st[k]), st[k + 1])
  <2>1. k \in 1 .. n - 2 /\ st[k] = stack[k] /\ k \in 1 .. n - 1
    BY <1>1, <1>9
  <2>2. /\ st[k].walked < Len(children(st[k].state))
        /\ SameNode(next_child(w, st[k]), stack[k + 1])
    BY <1>2, <2>1
  <2>3. CASE k = n - 2
    <3>1. k + 1 = n - 1
      BY <1>1, <2>3
    <3> QED
      BY <1>7, <1>8, <1>9, <2>2, <3>1 DEF SameNode
  <2>4. CASE k # n - 2
    <3>1. k + 1 \in 1 .. n - 2
      BY <1>1, <2>1, <2>4
    <3> QED
      BY <1>9, <2>2, <3>1
  <2> QED
    BY <2>3, <2>4
<1>13. StackInv(w, st)
  BY <1>9, <1>10, <1>11, <1>12 DEF StackInv
<1> QED
  BY <1>13 DEF w, st, fr, n

LEMMA SessionGoesOn == SessionInv /\ [WalkNext]_walk_vars => SessionInv'
<1> SUFFICES ASSUME SessionInv, [WalkNext]_walk_vars PROVE SessionInv'
  OBVIOUS
<1>1. /\ profile \in Profile /\ AnswersInv(profile, answers) /\ StackInv(walker, stack)
      /\ answers \in Seq(Int) /\ Len(answers) \in Nat /\ Len(answers) <= Entries
      /\ Entries \in Nat
      /\ stack # << >> => Len(answers) < Entries
  BY DEF SessionInv, AnswersInv, Entries, kPlayerCount, PerPlayer, kRihRoundCount
<1>2. ASSUME UNCHANGED <<profile, answers>>, StackInv(walker, stack'), Len(answers) < Entries
      PROVE  SessionInv'
  <2>1. walker' = walker
    BY <1>2 DEF walker
  <2> QED
    BY <1>1, <1>2, <2>1 DEF SessionInv
<1>3. CASE walk_root
  <2>1. stack' = <<root_node>> /\ Len(answers) < Entries /\ UNCHANGED <<profile, answers>>
    BY <1>3 DEF walk_root, Entries
  <2>2. root_node \in Frames /\ Unwalked(root_node)
    <3>1. [card \in Deck |-> Unit] \in CardVector
      BY SplitAssumption DEF CardVector
    <3>2. root.board_count # 2
      BY RootInWalk
    <3> QED
      BY <3>1, <3>2, RootInWalk, NodeIs DEF root_node, Unwalked
  <2>3. Asked(walker)
    BY <2>1, WalkerIs
  <2>4. root_node \in Walked(walker)
    BY <2>2, <2>3, WalkedIsClosed DEF ClosedUnderWalks
  <2>5. SameNode(root_node, root_node)
    BY DEF SameNode
  <2>6. StackInv(walker, <<root_node>>)
    BY <2>2, <2>4, <2>5 DEF StackInv
  <2> QED
    BY <1>2, <2>1, <2>6
<1>4. CASE deal_board_card
  <2>1. /\ stack # << >> /\ ~Finished(Top) /\ UNCHANGED <<profile, answers>>
        /\ stack' = Append(stack, next_child(walker, Top))
    BY <1>4 DEF deal_board_card, next_child
  <2>2. StackInv(walker, stack')
    BY <2>1, DownKeeps
  <2> QED
    BY <1>1, <1>2, <2>1, <2>2
<1>5. CASE take_action
  <2>1. /\ stack # << >> /\ ~Finished(Top) /\ UNCHANGED <<profile, answers>>
        /\ stack' = Append(stack, next_child(walker, Top))
    BY <1>5 DEF take_action, next_child, is_decision
  <2>2. StackInv(walker, stack')
    BY <2>1, DownKeeps
  <2> QED
    BY <1>1, <1>2, <2>1, <2>2
<1>6. CASE return_to_parent
  <2>1. /\ Len(stack) > 1 /\ Finished(Top) /\ UNCHANGED <<profile, answers>>
        /\ stack' = Append(SubSeq(stack, 1, Len(stack) - 2), absorbed(walker, Below, Top))
    BY <1>6 DEF return_to_parent, absorbed
  <2>2. StackInv(walker, stack')
    BY <2>1, UpKeeps
  <2>3. stack # << >>
    BY <2>1
  <2> QED
    BY <1>1, <1>2, <2>1, <2>2, <2>3
<1>7. CASE return_from_root
  <2> DEFINE answer == SumFunction(returned(walker, Top))
  <2>1. /\ Len(stack) = 1 /\ Finished(Top) /\ stack' = << >> /\ profile' = profile
        /\ answers' = Append(answers, answer)
    BY <1>7 DEF return_from_root
  <2>2. stack # << >>
    BY <2>1
  <2>3. Asked(walker) /\ Top \in Walked(walker) /\ Top \in Frames
    BY <2>2, TopIs
  <2>4. SameNode(root_node, Top)
    BY <1>1, <2>1 DEF StackInv, Top
  <2>5. answer \in Int
    BY <2>3, ReturnedIs, VectorSum
  <2>6. AnswerOf(walker, answer)
    BY <2>1, <2>3, <2>4 DEF AnswerOf
  <2> HIDE DEF answer
  <2>7. /\ answers' \in Seq(Int) /\ Len(answers') = Len(answers) + 1
        /\ \A i \in 1 .. Len(answers) : answers'[i] = answers[i]
        /\ answers'[Len(answers) + 1] = answer
    BY <1>1, <2>1, <2>5
  <2>8. ASSUME NEW i \in 1 .. Len(answers')
        PROVE  AnswerOf(Walk(profile, i), answers'[i])
    <3>1. CASE i = Len(answers) + 1
      BY <2>6, <2>7, <3>1 DEF walker
    <3>2. CASE i # Len(answers) + 1
      <4>1. i \in 1 .. Len(answers)
        BY <1>1, <2>7, <3>2
      <4> QED
        BY <1>1, <2>7, <4>1 DEF AnswersInv
    <3> QED
      BY <3>1, <3>2
  <2>9. AnswersInv(profile, answers')
    BY <2>7, <2>8 DEF AnswersInv
  <2>10. StackInv(walker', stack')
    BY <2>1 DEF StackInv
  <2> QED
    BY <1>1, <2>1, <2>2, <2>7, <2>9, <2>10 DEF SessionInv
<1>8. CASE UNCHANGED walk_vars
  <2>1. UNCHANGED <<profile, stack, answers>> /\ walker' = walker
    BY <1>8 DEF walk_vars, walker
  <2> QED
    BY <1>1, <2>1 DEF SessionInv
<1> QED
  BY <1>3, <1>4, <1>5, <1>6, <1>7, <1>8 DEF WalkNext

\* Every frame of a session is one of the walk it belongs to, and every answer
\* what that walk's root returned.
THEOREM SessionKeepsWalks == WalkSpec => []SessionInv
  BY SessionBegins, SessionGoesOn, PTL DEF WalkSpec

\* Of two walks of a session, the freer one has the answer that is no smaller.
LEMMA AnswersCompare ==
  ASSUME SessionInv, NEW i \in 1 .. Len(answers), NEW j \in 1 .. Len(answers),
         Freer(Walk(profile, i), Walk(profile, j))
  PROVE  answers[i] <= answers[j]
<1> DEFINE w1 == Walk(profile, i)
           w2 == Walk(profile, j)
<1>1. Asked(w1) /\ Asked(w2)
  <2>1. i \in 1 .. Entries /\ j \in 1 .. Entries /\ profile \in Profile
    BY DEF SessionInv, AnswersInv, Entries, kPlayerCount, PerPlayer, kRihRoundCount
  <2> QED
    BY <2>1, WalkIs
<1>2. AnswerOf(w1, answers[i]) /\ AnswerOf(w2, answers[j])
  BY DEF SessionInv, AnswersInv
<1> HIDE DEF w1, w2
<1>3. PICK fr1 \in Walked(w1) : /\ SameNode(root_node, fr1) /\ Finished(fr1)
                                /\ answers[i] = SumFunction(returned(w1, fr1))
  BY <1>2 DEF AnswerOf
<1>4. PICK fr2 \in Walked(w2) : /\ SameNode(root_node, fr2) /\ Finished(fr2)
                                /\ answers[j] = SumFunction(returned(w2, fr2))
  BY <1>2 DEF AnswerOf
<1>5. SameNode(fr1, fr2) /\ fr1.walked = fr2.walked
  BY <1>3, <1>4 DEF SameNode, Finished
<1>6. fr1 \in Frames /\ fr2 \in Frames
  BY DEF Walked
<1>7. Freer(w1, w2)
  BY DEF w1, w2
<1>8. NoBetter(w1, w2, fr1, fr2)
  BY <1>1, <1>5, <1>7, FreerIsNoWorse
<1>9. \A card \in Deck : returned(w1, fr1)[card] <= returned(w2, fr2)[card]
  BY <1>1, <1>3, <1>4, <1>5, <1>6, <1>7, <1>8, ReturnedNoBetter
<1>10. returned(w1, fr1) \in CardVector /\ returned(w2, fr2) \in CardVector
  BY <1>1, <1>6, ReturnedIs
<1>11. SumFunction(returned(w1, fr1)) <= SumFunction(returned(w2, fr2))
  BY <1>9, <1>10, SumMonotone
<1> QED
  BY <1>3, <1>4, <1>11

\* Following is the least free, then a deviation in one round, then in all.
LEMMA EntriesFreer ==
  ASSUME NEW strategy, NEW player \in Player, NEW round \in Street
  PROVE  /\ Freer(Walk(strategy, player * PerPlayer + 1),
                  Walk(strategy, player * PerPlayer + 2 + round))
         /\ Freer(Walk(strategy, player * PerPlayer + 2 + round),
                  Walk(strategy, (player + 1) * PerPlayer))
<1> DEFINE f == Walk(strategy, player * PerPlayer + 1)
           r == Walk(strategy, player * PerPlayer + 2 + round)
           b == Walk(strategy, (player + 1) * PerPlayer)
<1>1. player \in {0, 1} /\ round \in {0, 1, 2} /\ PerPlayer = 5
  BY DEF Player, kPlayerCount, Street, kRihRoundCount, PerPlayer
<1>2. f.strategy = strategy /\ f.responder = player /\ ~f.maximize
  <2>1. ((player * 5 + 1) - 1) % 5 = 0 /\ ((player * 5 + 1) - 1) \div 5 = player
    BY <1>1
  <2> QED
    BY <1>1, <2>1 DEF Walk
<1>3. r.strategy = strategy /\ r.responder = player
  <2>1. ((player * 5 + 2 + round) - 1) \div 5 = player
    BY <1>1
  <2> QED
    BY <1>1, <2>1 DEF Walk
<1>4. /\ b.strategy = strategy /\ b.responder = player /\ b.maximize
      /\ b.deviation_round = kDeviateInEveryRound
  <2>1. (((player + 1) * 5) - 1) % 5 = 4 /\ (((player + 1) * 5) - 1) \div 5 = player
    BY <1>1
  <2>2. 4 # 0 /\ 4 \notin 1 .. kRihRoundCount
    BY DEF kRihRoundCount
  <2> QED
    BY <1>1, <2>1, <2>2 DEF Walk
<1> HIDE DEF f, r, b
<1>5. Freer(f, r)
  BY <1>2, <1>3 DEF Freer, maximize_at
<1>6. Freer(r, b)
  BY <1>3, <1>4 DEF Freer, maximize_at
<1> QED
  BY <1>5, <1>6 DEF f, r, b

\* Whatever the strategy, the deck and the tables, being allowed to deviate is
\* worth no less than following, and being allowed everywhere no less than in
\* one round: what best_response_exploitability takes for granted.
THEOREM DeviatingNeverHurts == WalkSpec => []DeviatingPays
<1>1. SessionInv => DeviatingPays
  <2> SUFFICES ASSUME SessionInv, NEW player \in Player,
                      Len(answers) >= (player + 1) * PerPlayer, NEW round \in Street
               PROVE  /\ Follow(player) <= InRound(player, round)
                      /\ InRound(player, round) <= Best(player)
    BY DEF DeviatingPays
  <2> DEFINE i == player * PerPlayer + 1
             j == player * PerPlayer + 2 + round
             k == (player + 1) * PerPlayer
  <2>1. i \in 1 .. Len(answers) /\ j \in 1 .. Len(answers) /\ k \in 1 .. Len(answers)
    <3>1. player \in {0, 1} /\ round \in {0, 1, 2} /\ PerPlayer = 5
      BY DEF Player, kPlayerCount, Street, kRihRoundCount, PerPlayer
    <3>2. Len(answers) \in Nat
      BY DEF SessionInv, AnswersInv
    <3> QED
      BY <3>1, <3>2
  <2>2. Freer(Walk(profile, i), Walk(profile, j)) /\ Freer(Walk(profile, j), Walk(profile, k))
    BY EntriesFreer
  <2>3. Follow(player) = answers[i] /\ InRound(player, round) = answers[j]
        /\ Best(player) = answers[k]
    BY DEF Follow, InRound, Best
  <2> HIDE DEF i, j, k
  <2>4. answers[i] <= answers[j]
    BY <2>1, <2>2, AnswersCompare
  <2>5. answers[j] <= answers[k]
    BY <2>1, <2>2, AnswersCompare
  <2> QED
    BY <2>3, <2>4, <2>5
<1> QED
  BY <1>1, SessionKeepsWalks, PTL

=============================================================================
