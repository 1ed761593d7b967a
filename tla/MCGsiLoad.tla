----------------------------- MODULE MCGsiLoad -----------------------------
(***************************************************************************)
(* Files over four cards: a class of its own for every node, so that no    *)
(* mix-up goes unseen, and two rows of three slots per player, with a      *)
(* second row for a key in the first file.                                 *)
(***************************************************************************)
EXTENDS GsiLoad

MCPartition ==
  LET nodes == SortSeq(FoldSet(LAMBDA node, seq : Append(seq, node), << >>, Node), Listed)
  IN  [i \in DOMAIN nodes |-> [cards |-> nodes[i], class |-> i]]

MCPlayerRows ==
  << <<[key |-> 1, slots |-> <<Decimal(0, 25), Decimal(0, 75), Whole(0)>>],
       [key |-> 14, slots |-> <<Whole(1), Decimal(0, 5), Decimal(0, 5)>>],
       [key |-> 1, slots |-> <<Whole(0), Whole(1), Whole(0)>>]>>,
     <<[key |-> 1, slots |-> <<Decimal(0, 5), Whole(0), Decimal(0, 5)>>],
       [key |-> 24, slots |-> <<Decimal(0, 1), Decimal(0, 2), Decimal(0, 7)>>]>> >>
=============================================================================
