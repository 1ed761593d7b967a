--------------------------- MODULE MCBestResponse ---------------------------
(***************************************************************************)
(* Grading sessions over five-card decks with the real evaluator and       *)
(* stakes, one bet a round, and strategies that mix.                       *)
(***************************************************************************)
EXTENDS BestResponse

RealBets == [r \in 0 .. 2 |-> IF r = 0 THEN 10 ELSE 20]

\* 2c 2d 3c 3d 4c: the placeholders 2c and 2d tie unless suited boards part them.
FiveCards == {0, 1, 4, 5, 8}

\* Also of tuples with a card twice, which the walk looks up and never pays.
Evaluator == INSTANCE Eval3
AllRanks   == [t \in [1 .. 3 -> Deck] |-> Evaluator!evaluate_3card(t)]
MCStrength == AllRanks

\* Classes that tell faces apart and not suits, so cards share rows.
FaceOf(card) == card \div 4
FaceCode(t)  == CASE Len(t) = 1 -> FaceOf(t[1])
                  [] Len(t) = 2 -> 3 * FaceOf(t[1]) + FaceOf(t[2])
                  [] Len(t) = 3 -> 9 * FaceOf(t[1]) + 3 * FaceOf(t[2]) + FaceOf(t[3])
FaceClasses  == [t \in UNION {[1 .. n -> Deck] : n \in 1 .. 3} |-> FaceCode(t)]
MCClassOf    == FaceClasses
MCClassCount == [r \in 0 .. 2 |-> 3 ^ (r + 1)]

\* Rows of every kind: empty, pure, mixed, and of sums that do not add up to 1.
Rows == << <<1, 1>>, <<0, 3>>, <<2, 0>>, <<0, 0>>, <<1, 0>>, <<4, 4>>, <<0, 1>> >>
AllSums == [p \in Profile |->
              [row \in 0 .. infoset_count - 1 |-> Rows[((row * (p + 3) + row \div 5 + p) % 7) + 1]]]
MCSums == AllSums
=============================================================================
