----------------------------- MODULE FixedLimit -----------------------------
(***************************************************************************)
(* What a hand of Rhode Island hold'em promises, told in chips and cards   *)
(* and without a betting history: who has paid what decides who may fold,  *)
(* when a street ends and what the hand is worth.  The implementation      *)
(* decides the same things from the last entries of State::history and     *)
(* from values it remembered earlier.                                      *)
(***************************************************************************)
EXTENDS Integers, Sequences

CONSTANTS Deck,        \* the cards
          MaxRaises,   \* raises allowed per street
          RoundBet,    \* the fixed bet of each street
          Ante,
          Strength     \* of the three cards <<hole, flop, turn>>

VARIABLES cards,   \* the cards dealt, in order: two hole cards, flop, turn
          paid,    \* chips each seat has put in the pot, antes included
          acted,   \* betting actions taken on this street
          raises,  \* raises made on this street
          folder   \* the seat that folded, or Nobody

flvars == <<cards, paid, acted, raises, folder>>

Seat   == {0, 1}
Nobody == -1
Other(seat) == 1 - seat

Street == Len(cards) - 2
ToAct  == acted % 2
Even   == paid[0] = paid[1]
StreetDone == acted >= 2 /\ Even
HandOver   == folder # Nobody \/ (Street = 2 /\ StreetDone)
Betting    == Street >= 0 /\ ~HandOver /\ ~StreetDone

Init ==
  /\ cards = << >>
  /\ paid = [seat \in Seat |-> Ante]
  /\ acted = 0
  /\ raises = 0
  /\ folder = Nobody

\* A card not yet out is dealt; every street starts with nobody having acted.
Deal ==
  /\ Street < 0 \/ (folder = Nobody /\ StreetDone /\ Street < 2)
  /\ \E card \in Deck \ {cards[i] : i \in 1 .. Len(cards)} :
       cards' = Append(cards, card)
  /\ acted' = 0
  /\ raises' = 0
  /\ UNCHANGED <<paid, folder>>

\* Only a seat that has paid less than the other has anything to fold to.
Fold ==
  /\ Betting
  /\ paid[ToAct] < paid[Other(ToAct)]
  /\ folder' = ToAct
  /\ acted' = acted + 1
  /\ UNCHANGED <<cards, paid, raises>>

\* Checking or calling evens the pot.
CallCheck ==
  /\ Betting
  /\ paid' = [paid EXCEPT ![ToAct] = paid[Other(ToAct)]]
  /\ acted' = acted + 1
  /\ UNCHANGED <<cards, raises, folder>>

\* A raise is one bet more than the other seat has paid.
Raise ==
  /\ Betting
  /\ raises < MaxRaises
  /\ paid' = [paid EXCEPT ![ToAct] = paid[Other(ToAct)] + RoundBet[Street]]
  /\ acted' = acted + 1
  /\ raises' = raises + 1
  /\ UNCHANGED <<cards, folder>>

NewHand ==
  /\ HandOver
  /\ cards' = << >>
  /\ paid' = [seat \in Seat |-> Ante]
  /\ acted' = 0
  /\ raises' = 0
  /\ folder' = Nobody

Next == Deal \/ Fold \/ CallCheck \/ Raise \/ NewHand

FLSpec == Init /\ [][Next]_flvars

-----------------------------------------------------------------------------
(* What the hand is worth once it is over *)

StrengthOf(seat) == Strength[<<cards[seat + 1], cards[3], cards[4]>>]

\* The winner takes what the loser paid; equal hands exchange nothing.
Worth(seat) ==
  IF folder # Nobody
  THEN IF seat = folder THEN -paid[folder] ELSE paid[folder]
  ELSE IF StrengthOf(seat) > StrengthOf(Other(seat)) THEN paid[Other(seat)]
  ELSE IF StrengthOf(seat) < StrengthOf(Other(seat)) THEN -paid[seat]
  ELSE 0
=============================================================================
