----------------------------- MODULE GameShrink -----------------------------
(***************************************************************************)
(* The GameShrink labelling of abstraction/rih_gameshrink.cpp, for any     *)
(* deck.  A partition is a record: class maps the cards one player sees, a *)
(* tuple <<hole>>, <<hole, flop>> or <<hole, flop, turn>>, to a class id,  *)
(* and counts[r] is next_id after round r (tuples of r + 1 cards).         *)
(* A sorted array of ids is a multiset.  Ids wrap around, unchecked, at    *)
(* kIdRange: 2^16 in the program, where an id is a uint16_t.               *)
(***************************************************************************)
EXTENDS Eval3, Sequences

CONSTANT kIdRange
ASSUME IdRangeAssumption == kIdRange \in Nat \ {0}

Holes(deck)   == {<<hole>> : hole \in deck}
Pairs(deck)   == {t \in deck \X deck : t[1] # t[2]}
Triples(deck) == {t \in deck \X deck \X deck : t[1] # t[2] /\ t[1] # t[3] /\ t[2] # t[3]}
Dealt(deck)   == Holes(deck) \cup Pairs(deck) \cup Triples(deck)
Cards(t) == {t[i] : i \in DOMAIN t}

\* pair_index and triple_index: also the order in which the loops visit tuples.
TupleIndex(t) ==
  CASE Len(t) = 1 -> t[1]
    [] Len(t) = 2 -> t[1] * kCardCount + t[2]
    [] Len(t) = 3 -> (t[1] * kCardCount + t[2]) * kCardCount + t[3]

\* f itself; comparing it makes TLC compute it once, as the code fills its
\* vectors.
Table(f) == CHOOSE table \in {f} : table = f

\* Slip: the id type is two bits narrower, too narrow for the classes.
next_id_narrow(k) == k % (kIdRange \div 4)

\* next_id after k new keys: the id the next new key gets.
next_id(k) == k % kIdRange

KeyCount(keys) == Cardinality({keys[t] : t \in DOMAIN keys})

\* Where a loop over the tuples of DOMAIN keys first meets a key.
first_met(keys, key) == MinOf({TupleIndex(t) : t \in {u \in DOMAIN keys : keys[u] = key}})

\* The id of each tuple when the loop interns its key: keys are numbered by
\* next_id in the order in which they are first met.
intern(keys) ==
  LET first == Table([t \in DOMAIN keys |-> first_met(keys, keys[t])])
      met   == {first[t] : t \in DOMAIN keys}
  IN  Table([t \in DOMAIN keys |-> next_id(Cardinality({m \in met : m < first[t]}))])

\* The sorted array of the values f takes.
SortedBag(f) ==
  [v \in {f[d] : d \in DOMAIN f} |-> Cardinality({d \in DOMAIN f : f[d] = v})]

Loss == 0
Draw == 1
Win  == 2
Outcome(mine, theirs) ==
  IF mine > theirs THEN Win ELSE IF mine < theirs THEN Loss ELSE Draw

showdown_ranks(deck) == Table([t \in Triples(deck) |-> evaluate_3card(t)])

\* Slip: refined passes leave the opponent's class out of the leaf, too.
LeafKeyByOutcome(deck, partition, rank, opponent_labels, t) ==
  << partition.class[t],
     SortedBag([opp \in deck \ Cards(t) |-> Outcome(rank[t], rank[<<opp, t[2], t[3]>>])]) >>

\* Round 2 keys: the current class and the (opponent class or 0, outcome) pairs.
LeafKey(deck, partition, rank, opponent_labels, t) ==
  LET Against(opp) == <<opp, t[2], t[3]>>
  IN  << partition.class[t],
         SortedBag([opp \in deck \ Cards(t) |->
                      << IF opponent_labels THEN partition.class[Against(opp)] ELSE 0,
                         Outcome(rank[t], rank[Against(opp)]) >>]) >>

\* Slip: the children are not sorted, so that their order counts.
BagKeyUnsorted(deck, partition, childIds, t) ==
  << partition.class[t], [c \in deck \ Cards(t) |-> childIds[Append(t, c)]] >>

\* Round 1 and 0 keys: the current class and the ids of the children.
BagKey(deck, partition, childIds, t) ==
  << partition.class[t],
     SortedBag([c \in deck \ Cards(t) |-> childIds[Append(t, c)]]) >>

\* Final round 1 and 2 keys: the parent's new class and the bottom-up id.
FamilyKey(parentClass, rawId) == <<parentClass, rawId>>

label(deck, partition, rank, opponent_labels) ==
  LET raw3 == intern(Table([t \in Triples(deck) |->
                              LeafKey(deck, partition, rank, opponent_labels, t)]))
      raw2   == intern(Table([t \in Pairs(deck) |-> BagKey(deck, partition, raw3, t)]))
      keys0  == Table([t \in Holes(deck) |-> BagKey(deck, partition, raw2, t)])
      class0 == intern(keys0)
      keys1  == Table([t \in Pairs(deck) |-> FamilyKey(class0[<<t[1]>>], raw2[t])])
      class1 == intern(keys1)
      keys2  == Table([t \in Triples(deck) |-> FamilyKey(class1[<<t[1], t[2]>>], raw3[t])])
      class2 == intern(keys2)
  IN  [ class  |-> Table([t \in Dealt(deck) |-> CASE Len(t) = 1 -> class0[t]
                                                  [] Len(t) = 2 -> class1[t]
                                                  [] Len(t) = 3 -> class2[t]]),
        counts |-> Table([r \in 0 .. 2 |-> next_id(KeyCount(CASE r = 0 -> keys0
                                                             [] r = 1 -> keys1
                                                             [] r = 2 -> keys2))]) ]

Trivial(deck) ==
  [ class  |-> Table([t \in Dealt(deck) |-> 0]),
    counts |-> [r \in 0 .. 2 |-> 0] ]

compute(deck) == label(deck, Trivial(deck), showdown_ranks(deck), FALSE)

\* refined(): label again until a pass leaves the counts as they were.
MaxPasses == 32
refined(deck) ==
  LET rank == showdown_ranks(deck)
      After[n \in 0 .. MaxPasses] ==
        IF n = 0 THEN compute(deck) ELSE label(deck, After[n - 1], rank, TRUE)
      Converged(n) == After[n].counts = After[n - 1].counts
  IN  After[CHOOSE n \in 1 .. MaxPasses :
              Converged(n) /\ \A k \in 1 .. n - 1 : ~Converged(k)]

class_of(partition, own_cards) == partition.class[own_cards]
=============================================================================
