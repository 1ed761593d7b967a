---------------------------- MODULE MCGameShrink ----------------------------
(***************************************************************************)
(* The refinement loop over every five-card deck cut from eight cards of   *)
(* mixed ranks and suits, over one symmetric deck of six, and over the two *)
(* lowest ranks in all four suits.                                         *)
(***************************************************************************)
EXTENDS GameShrinkRefine

\* 2c 2d 2h 3c 3d 4c 4d As
EightCards == {0, 1, 2, 4, 5, 8, 9, 51}
MCDecks ==
  {cards \in SUBSET EightCards : Cardinality(cards) = 5} \cup {{0, 1, 4, 5, 8, 9}, 0 .. 7}

\* The 52-card deck and the 16 bits of the program meet the assumption, too.
ASSUME FullDeckFits == AllSuits(0 .. kCardCount - 1) /\ IdsFit(0 .. kCardCount - 1, 65536)

\* The deck of eight has more tuples than there are ids.
ASSUME TuplesOutnumberIds == Cardinality(Triples(0 .. 7)) > kIdRange
=============================================================================
