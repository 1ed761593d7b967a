------------------------------ MODULE Sampling ------------------------------
(***************************************************************************)
(* The cards of a hand drawn from rolls: sample_undealt_card and its table *)
(* of prefix sums (game/betting_round.hpp), beside the draw it stands in   *)
(* for, sample_index over deal_outcomes (solver/mccfr_solver.hpp).         *)
(*                                                                         *)
(* A double is a whole multiple of 1 / Unit; not every multiple is one,    *)
(* and rounded gives the double next to it.                                *)
(***************************************************************************)
EXTENDS BettingRound, FiniteSets

CONSTANTS deck_size, kMaxN, Unit, rounded

ASSUME SizesAssumption ==
  /\ kMaxN \in 4 .. 64 /\ deck_size \in 4 .. kMaxN
  /\ Unit \in Nat /\ Unit > kMaxN * kMaxN

\* Rounding keeps the order, and moves neither doubles nor whole numbers.
Grid == 0 .. kMaxN * Unit
ASSUME RoundingAssumption ==
  /\ rounded \in [Grid -> Grid]
  /\ \A x, y \in Grid : x <= y => rounded[x] <= rounded[y]
  /\ \A x \in Grid : rounded[rounded[x]] = rounded[x]
  /\ \A n \in 0 .. kMaxN : rounded[n * Unit] = n * Unit

VARIABLE state

Deck  == 0 .. deck_size - 1
Rolls == 0 .. Unit - 1

\* The double next to 1 / n.
inverse(n) == rounded[(2 * Unit + n) \div (2 * n)]

-----------------------------------------------------------------------------
(* std::upper_bound over a[first .. last - 1], by halving.                  *)

beyond(element, roll) == element > roll

upper_bound(a, first, last, roll) ==
  LET search[at \in (first .. last) \X (first .. last)] ==
        LET low  == at[1]
            high == at[2]
            mid  == low + (high - low) \div 2
        IN  IF low >= high THEN low
            ELSE IF beyond(a[mid], roll) THEN search[<<low, mid>>]
            ELSE search[<<mid + 1, high>>]
  IN  search[<<first, last>>]

-----------------------------------------------------------------------------
(* UniformPrefix: for every n the running sums of 1 / n but the last, one  *)
(* run after the other, each term added to the sum so far.                 *)

kSumCount == (kMaxN * (kMaxN - 1)) \div 2

\* Where the cursor stands when the run of n begins.
offset(n) == ((n - 1) * (n - 2)) \div 2

\* The run the cursor is in.
run_of(cursor) ==
  CHOOSE n \in 1 .. kMaxN : offset(n) <= cursor /\ cursor < offset(n + 1)

\* Slip: the k-th sum is k times 1 / n, rounded once.
UniformPrefix_multiplied ==
  [cursor \in 0 .. kSumCount - 1 |->
     rounded[(cursor - offset(run_of(cursor)) + 1) * inverse(run_of(cursor))]]

UniformPrefix ==
  LET sums[cursor \in 0 .. kSumCount - 1] ==
        LET n      == run_of(cursor)
            so_far == IF cursor = offset(n) THEN 0 ELSE sums[cursor - 1]
        IN  rounded[so_far + inverse(n)]
  IN  sums

\* The card with k of the cards below it.
nth(cards, k) ==
  CHOOSE card \in cards : Cardinality({other \in cards : other < card}) = k

\* Slip: only the hole cards are marked.
marked_hole_cards(s) == {s.hole_cards[p] : p \in Player} \ {NoCard}

marked(s) ==
  ({s.hole_cards[p] : p \in Player} \cup {s.board_cards[i] : i \in 0 .. s.board_count - 1})
    \ {NoCard}

\* The lowest bit is cleared chosen times, and then read.
sample_undealt_card(s, roll) ==
  LET dealt     == marked(s)
      remaining == deck_size - Cardinality(dealt)
      begin     == offset(remaining)
      chosen    == upper_bound(UniformPrefix, begin, begin + remaining - 1, roll) - begin
  IN  nth(Deck \ dealt, chosen)

-----------------------------------------------------------------------------
(* The draw it stands in for *)

\* deal_outcomes lists the undealt cards in ascending order.
outcomes(s) ==
  [i \in 1 .. Cardinality(deal_outcomes(s, Deck)) |-> nth(deal_outcomes(s, Deck), i - 1)]
probabilities(s) == [i \in DOMAIN outcomes(s) |-> inverse(Len(outcomes(s)))]

\* The first index whose sum passes the roll; the last one absorbs the rest.
sample_index(distribution, roll) ==
  LET n == Len(distribution)
      cumulative[i \in 0 .. n] ==
        IF i = 0 THEN 0 ELSE rounded[cumulative[i - 1] + distribution[i]]
      passes == {i \in 1 .. n : i = n \/ roll < cumulative[i]}
  IN  CHOOSE i \in passes : \A j \in passes : i <= j

sample_by_index(s, roll) == outcomes(s)[sample_index(probabilities(s), roll)]

-----------------------------------------------------------------------------
(* A hand dealt card by card: two hole cards, then the board *)

DrawInit == state = BlankState([p \in Player |-> 0])

Draw(roll) ==
  /\ state.board_count < kMaxBoardCards
  /\ state' = deal_card(state, sample_undealt_card(state, roll))

DrawNext == \E roll \in Rolls : Draw(roll)

DrawSpec == DrawInit /\ [][DrawNext]_state

-----------------------------------------------------------------------------

CanDraw == state.board_count < kMaxBoardCards

\* Whatever was dealt, every roll, one that lands on a partial sum or beyond
\* the last included, draws the card that summing chance_outcomes would: the
\* fast path may not change a checkpoint.
SameDraw ==
  CanDraw => \A roll \in Rolls : sample_undealt_card(state, roll) = sample_by_index(state, roll)

\* No card is dealt twice in a hand.
NeverTwice == [][DealtCards(state) \subseteq DealtCards(state')
                 /\ Cardinality(DealtCards(state')) = Cardinality(DealtCards(state)) + 1]_state
=============================================================================
