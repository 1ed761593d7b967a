------------------------------ MODULE MCMccfr ------------------------------
(***************************************************************************)
(* Two small games for the solver.  In both, player 0 stops or goes on and *)
(* player 1 answers; a path meets each player at most once, so utilities   *)
(* that are multiples of Unit make every node value exact.                 *)
(***************************************************************************)
EXTENDS Mccfr

\* A card is dealt face down first, both players share their row between the
\* two deals, and player 1 has three actions: player 0's row is shorter than
\* kStride.
DealtNode  == 0 .. 12
DealtKind  == [n \in DealtNode |-> IF n = 0 THEN "chance"
                                   ELSE IF n <= 4 THEN "decision" ELSE "terminal"]
DealtChild == [n \in DealtNode |-> CASE n = 0 -> <<1, 2>>
                                     [] n = 1 -> <<5, 3>>    [] n = 2 -> <<6, 4>>
                                     [] n = 3 -> <<7, 8, 9>> [] n = 4 -> <<10, 11, 12>>
                                     [] OTHER -> << >>]
DealtMover == [n \in DealtNode |-> IF n <= 2 THEN 0 ELSE 1]
DealtRow   == [n \in DealtNode |-> IF n <= 2 THEN 0 ELSE 1]
\* Player 0's results, scaled by Unit = 6.
DealtUtility == [n \in DealtNode |-> 6 * (CASE n = 5 -> 1   [] n = 6 -> -1
                                            [] n = 7 -> 2   [] n = 8 -> 0  [] n = 9 -> 1
                                            [] n = 10 -> -2 [] n = 11 -> 1 [] n = 12 -> 0
                                            [] OTHER -> 0)]

\* A player divides by Unit at the nodes where it moves.
DealtScale == [p \in Player |-> [n \in DealtNode |->
                 IF (p = 0 /\ n > 2) \/ (p = 1 /\ n > 6) THEN 6 ELSE 1]]

\* No deal, two actions each: many short calls one after the other.
ShortNode    == 1 .. 5
ShortKind    == [n \in ShortNode |-> IF n <= 2 THEN "decision" ELSE "terminal"]
ShortChild   == [n \in ShortNode |-> CASE n = 1 -> <<3, 2>> [] n = 2 -> <<4, 5>>
                                       [] OTHER -> << >>]
ShortMover   == [n \in ShortNode |-> n - 1]
ShortRow     == [n \in ShortNode |-> n - 1]
\* Scaled by Unit = 2.
ShortUtility == [n \in ShortNode |-> CASE n = 3 -> 2 [] n = 4 -> 6 [] n = 5 -> -2
                                       [] OTHER -> 0]
ShortScale   == [p \in Player |-> [n \in ShortNode |->
                   IF (p = 0 /\ n \in {2, 3, 4, 5}) \/ (p = 1 /\ n \in {4, 5}) THEN 2
                   ELSE 1]]

TwoOnTwo == {<<2, 2>>}
MixedRequests == {<<-1, 1>>, <<0, 0>>, <<1, 0>>, <<1, 1>>, <<3, 2>>}
AllFiles == {"missing", "cut_in_count", "cut_in_iteration", "other_size",
             "cut_in_table", "trailing_bytes", "good"}
=============================================================================
