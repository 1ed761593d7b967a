------------------------------- MODULE MCPlay -------------------------------
(***************************************************************************)
(* Hands with a deck of four cards, of two ranks.                          *)
(***************************************************************************)
EXTENDS Play

RealBets   == [r \in 0 .. 2 |-> IF r = 0 THEN 10 ELSE 20]
MCDeck     == 0 .. 3
MCTuples   == UNION {Held(r) : r \in Street}
MCStrength == [t \in MCTuples |-> t[1] \div 2]
MCClassOf  == [t \in MCTuples |-> t[1] \div 2]
MCClassCount == [r \in Street |-> 2]

\* Every other row bets or calls only; the rest mix all columns.
MCColumns == [row \in 0 .. infoset_count - 1 |-> IF row % 4 = 0 THEN {2} ELSE {1, 2, 3}]
=============================================================================
