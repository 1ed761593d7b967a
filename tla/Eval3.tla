------------------------------- MODULE Eval3 -------------------------------
(***************************************************************************)
(* The three-card hand evaluator of eval/eval3.cpp.  A hand is a triple of *)
(* card ids of the 52-card deck (game/card.hpp); the rank bitmask is the   *)
(* set of ranks and the per-rank counts are a function on ranks.           *)
(***************************************************************************)
EXTENDS Integers, FiniteSets

kRankCount == 13
kSuitCount == 4
kCardCount == kRankCount * kSuitCount

card_rank(card) == card \div kSuitCount
card_suit(card) == card % kSuitCount

kHighCard       == 0
kPair           == 1
kFlush          == 2
kStraight       == 3
kTrips          == 4
kStraightFlush  == 5
kCategoryBudget == 286

\* n choose k for the k of colex_index_3: 1, 2 and 3.
binomial(n, k) ==
  CASE k = 1 -> n
    [] k = 2 -> (n * (n - 1)) \div 2
    [] k = 3 -> (((n * (n - 1)) \div 2) * (n - 2)) \div 3

colex_index_3(low, mid, high) ==
  binomial(low, 1) + binomial(mid, 2) + binomial(high, 3)

compact_rank(rank, excluded_rank) ==
  IF rank < excluded_rank THEN rank ELSE rank - 1

kNoRank            == -1
kWheelRanks        == {0, 1, 12}
kWheelStraightHigh == 1

MinOf(S) == CHOOSE x \in S : \A y \in S : x <= y
MaxOf(S) == CHOOSE x \in S : \A y \in S : x >= y
MidOf(S) == CHOOSE x \in S : x # MinOf(S) /\ x # MaxOf(S)

straight_high_rank(ranks) ==
  IF Cardinality(ranks) # 3 THEN kNoRank
  ELSE IF ranks = kWheelRanks THEN kWheelStraightHigh
  ELSE IF MaxOf(ranks) - MinOf(ranks) # 2 THEN kNoRank
  ELSE MaxOf(ranks)

hand_rank(category, order) == category * kCategoryBudget + order

\* group_ranks: the ranks that occur exactly n times in the hand.
RanksOccurring(hand, n) ==
  {r \in {card_rank(hand[i]) : i \in 1 .. 3} :
     Cardinality({i \in 1 .. 3 : card_rank(hand[i]) = r}) = n}

evaluate_3card(hand) ==
  LET ranks         == {card_rank(hand[i]) : i \in 1 .. 3}
      is_flush      == \A i \in 1 .. 3 : card_suit(hand[i]) = card_suit(hand[1])
      straight_high == straight_high_rank(ranks)
      is_straight   == straight_high # kNoRank
      trips         == RanksOccurring(hand, 3)
      pairs         == RanksOccurring(hand, 2)
      singles       == RanksOccurring(hand, 1)
  IN  CASE is_straight /\ is_flush -> hand_rank(kStraightFlush, straight_high)
        [] trips # {} -> hand_rank(kTrips, MaxOf(trips))
        [] is_straight /\ ~is_flush -> hand_rank(kStraight, straight_high)
        [] pairs # {} ->
             hand_rank(kPair, MaxOf(pairs) * kRankCount
                                + compact_rank(MinOf(singles), MaxOf(pairs)))
        [] OTHER ->
             hand_rank(IF is_flush THEN kFlush ELSE kHighCard,
                       colex_index_3(MinOf(singles), MidOf(singles), MaxOf(singles)))

-----------------------------------------------------------------------------
(* The 22100-entry table, indexed by the colex index of the sorted cards.   *)
(* Over a deck, it is the function that sends each index to the rank of the *)
(* last hand written there.                                                 *)

SortedHands(deck) ==
  {hand \in deck \X deck \X deck : hand[1] < hand[2] /\ hand[2] < hand[3]}

HandIndex(hand) == colex_index_3(hand[1], hand[2], hand[3])

three_card_table(deck) ==
  [index \in {HandIndex(hand) : hand \in SortedHands(deck)} |->
     evaluate_3card(CHOOSE hand \in SortedHands(deck) : HandIndex(hand) = index)]

sort3(hand) ==
  LET cards == {hand[i] : i \in 1 .. 3}
  IN  <<MinOf(cards), MidOf(cards), MaxOf(cards)>>

lookup_3card(table, hand) == table[HandIndex(sort3(hand))]
=============================================================================
