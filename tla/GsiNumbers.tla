----------------------------- MODULE GsiNumbers -----------------------------
(***************************************************************************)
(* The numbers of the published strategy files (grader/gsi_strategy.cpp):  *)
(* cards, the nodes of one player's signal tree, and the keys of the rows  *)
(* of a player file.  The sizes of the real files are constants here.      *)
(***************************************************************************)
EXTENDS Integers, Sequences

CONSTANTS kGsiRankCount, kGsiSuitCount,   \* kRankCount and kSuitCount of card.hpp
          kGsiRound1ClassCount, kGsiRound2ClassCount, kGsiRound3ClassCount,
          kGsiSequencesPerRound, kGsiSlotsPerKey

ASSUME GsiSizesAssumption ==
  /\ kGsiRankCount \in Nat \ {0} /\ kGsiSuitCount \in Nat \ {0}
  /\ kGsiRankCount * kGsiSuitCount >= 3
  /\ kGsiRound1ClassCount \in Nat \ {0}
  /\ kGsiRound2ClassCount \in Nat \ {0}
  /\ kGsiRound3ClassCount \in Nat \ {0}
  /\ kGsiSequencesPerRound \in Nat \ {0}
  /\ kGsiSlotsPerKey \in Nat \ {0}

-----------------------------------------------------------------------------
(* Cards: ours are rank-major, those of the files suit-major. *)

kGsiCardCount == kGsiRankCount * kGsiSuitCount
GsiCard       == 0 .. kGsiCardCount - 1

\* Slip: the number is taken for one of the files.
card_unconverted(card) == card

gsi_card(card) == (card % kGsiSuitCount) * kGsiRankCount + card \div kGsiSuitCount

-----------------------------------------------------------------------------
(* The signal tree.  Node 0 is the root; a level follows the one before.    *)

kHoleBoardPairCount == kGsiCardCount * (kGsiCardCount - 1)
kSignalLevel3Base   == kGsiCardCount + kHoleBoardPairCount
kGsiOnePlayerSignalNodeCount ==
  kSignalLevel3Base + kHoleBoardPairCount * (kGsiCardCount - 2)

hole_index(hole) == 1 + hole

shifted_board0(hole, board0) == IF board0 > hole THEN board0 - 1 ELSE board0

pair_index(hole, board0) ==
  kGsiCardCount + kGsiCardCount * shifted_board0(hole, board0) + hole_index(hole)

shifted_board1(hole, board0, board1) ==
  board1 - ((IF hole < board1 THEN 1 ELSE 0) + (IF board0 < board1 THEN 1 ELSE 0))

deal_index(hole, board0, board1) ==
  kSignalLevel3Base + kHoleBoardPairCount * shifted_board1(hole, board0, board1)
    + (pair_index(hole, board0) - kGsiCardCount)

signal_index(cards) ==
  CASE Len(cards) = 1 -> hole_index(cards[1])
    [] Len(cards) = 2 -> pair_index(cards[1], cards[2])
    [] Len(cards) = 3 -> deal_index(cards[1], cards[2], cards[3])

-----------------------------------------------------------------------------
(* Row keys, from the class of the acting player's cards *)

kGsiRound2ClassIdBase == kGsiRound1ClassCount + 1
kGsiRound3ClassIdBase == kGsiRound2ClassIdBase + kGsiRound2ClassCount
kGsiRound1KeySpan     == kGsiRound1ClassCount * kGsiSlotsPerKey
kGsiRound2KeySpan     == kGsiRound2ClassCount * kGsiSequencesPerRound * kGsiSlotsPerKey

round1_key(class_id) == kGsiSlotsPerKey * (class_id - 1) + 1

round2_key(class_id, sequence1) ==
  kGsiSequencesPerRound * kGsiSlotsPerKey * (class_id - kGsiRound2ClassIdBase)
    + kGsiSlotsPerKey * sequence1 + kGsiRound1KeySpan + 1

round3_key(class_id, sequence1, sequence2) ==
  kGsiSequencesPerRound * kGsiSequencesPerRound * kGsiSlotsPerKey
      * (class_id - kGsiRound3ClassIdBase)
    + kGsiSlotsPerKey * (kGsiSequencesPerRound * sequence1 + sequence2)
    + kGsiRound1KeySpan + kGsiRound2KeySpan + 1
=============================================================================
