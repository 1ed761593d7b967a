-------------------------- MODULE RhodeIslandGame --------------------------
(***************************************************************************)
(* The class RhodeIslandGame of game/rhode_island.cpp: its functions from  *)
(* State to State, the payoffs and the row numbers, as operators.          *)
(*                                                                         *)
(* Strength is lookup_3card over <<hole, flop, turn>>, ClassOf is class_of *)
(* of the refined partition over <<hole>>, <<hole, flop>> and              *)
(* <<hole, flop, turn>>, and ClassCount[r] its class_count(r).             *)
(***************************************************************************)
EXTENDS BettingRound, FiniteSets

CONSTANTS Deck, MaxRaises, RoundBet, Ante, Strength, ClassOf, ClassCount

kRihRoundCount == 3
kRihCardsDealt == 4
Street == 0 .. kRihRoundCount - 1

\* The tuples of cards a player can hold on each street.
Held(street) ==
  {t \in [1 .. street + 1 -> Deck] : \A i, j \in 1 .. street + 1 : i # j => t[i] # t[j]}

ASSUME DeckAssumption ==
  Deck \subseteq 0 .. 51 /\ IsFiniteSet(Deck) /\ Cardinality(Deck) >= kRihCardsDealt
ASSUME StakesAssumption ==
  /\ RoundBet \in [Street -> Nat \ {0}]
  /\ Ante \in Nat
\* The static_assert on max_history_depth.
ASSUME RaiseCapAssumption ==
  /\ MaxRaises \in Nat \ {0}
  /\ max_history_depth(kRihRoundCount, MaxRaises, kRihCardsDealt) <= kMaxHistory
ASSUME StrengthAssumption == \A t \in Held(2) : Strength[t] \in Nat
ASSUME ClassAssumption ==
  /\ ClassCount \in [Street -> Nat]
  /\ \A street \in Street : \A t \in Held(street) :
       ClassOf[t] \in Nat /\ ClassOf[t] < ClassCount[street]

-----------------------------------------------------------------------------
(* Kinds of node *)

is_chance(s) ==
  \/ s.hole_cards[0] = NoCard
  \/ s.hole_cards[1] = NoCard
  \/ s.board_count < 2 /\ round_closed(s)

is_terminal(s) ==
  /\ ~is_chance(s)
  /\ folded(s) \/ (s.board_count = 2 /\ round_closed(s))

is_decision(s) == ~is_chance(s) /\ ~is_terminal(s)

current_player(s) == s.round_len % kPlayerCount

legal_actions(s) == round_legal_actions(s, MaxRaises)

bet_size_of(s) == RoundBet[s.board_count]

-----------------------------------------------------------------------------
(* What a deal remembers *)

\* The cards the player holds so far: hole, then the board cards dealt.
own_cards(s, player) ==
  [i \in 1 .. s.board_count + 1 |->
     IF i = 1 THEN s.hole_cards[player] ELSE s.board_cards[i - 2]]

own_class(s, player) == ClassOf[own_cards(s, player)]

\* Slip: classes are written with the hole cards and not renewed.
remember_hole_classes(s) ==
  [s EXCEPT !.card_class = [p \in Player |-> IF s.hole_cards[p] # NoCard /\ s.board_count = 0
                                             THEN own_class(s, p) ELSE @[p]]]

remember_own_classes(s) ==
  [s EXCEPT !.card_class = [p \in Player |-> IF s.hole_cards[p] # NoCard
                                             THEN own_class(s, p) ELSE @[p]]]

remember_showdown_ranks(s) ==
  [s EXCEPT !.showdown_rank = [p \in Player |-> Strength[own_cards(s, p)]]]

\* Slip: the weaker hand wins.
showdown_winner_low(s) ==
  IF s.showdown_rank[0] = s.showdown_rank[1] THEN Tie
  ELSE IF s.showdown_rank[0] < s.showdown_rank[1] THEN 0 ELSE 1

showdown_winner(s) ==
  IF s.showdown_rank[0] = s.showdown_rank[1] THEN Tie
  ELSE IF s.showdown_rank[0] > s.showdown_rank[1] THEN 0 ELSE 1

-----------------------------------------------------------------------------
(* Moving from node to node *)

initial_state == BlankState([p \in Player |-> Ante])

\* apply_action at a chance node, and at a decision node.
apply_deal(s, card) ==
  LET dealt == deal_and_advance(append_action(s, kChanceCardOffset + card),
                                card, MaxRaises)
      known == remember_own_classes(dealt)
  IN  IF known.board_count = 2 THEN remember_showdown_ranks(known) ELSE known

apply_bet(s, action) ==
  LET next == append_action(s, action)
  IN  apply_betting_action(next, action, bet_size_of(next))

\* The asserts on the way: a full history, a full round, a full board.
append_action_asserts(s)  == Len(s.history) < kMaxHistory
apply_betting_asserts(s)  == append_action_asserts(s) /\ s.round_len < kMaxActionsPerRound
apply_deal_asserts(s, card) ==
  /\ append_action_asserts(s)
  /\ deal_and_advance_asserts(append_action(s, kChanceCardOffset + card))

folder_of(s) == (s.round_len - 1) % kPlayerCount

terminal_utility(s, player) ==
  IF folded(s)
  THEN settle(s.contribution, opponent(folder_of(s)), player)
  ELSE settle(s.contribution, showdown_winner(s), player)

-----------------------------------------------------------------------------
(* The row of the solver tables a decision node owns *)

kProgress == round_progress_count(MaxRaises)
kClosing  == closing_sequence_count(MaxRaises)

round0_rows == kProgress * ClassCount[0]
round1_rows == kClosing * kProgress * ClassCount[1]
round2_rows == kClosing * kClosing * kProgress * ClassCount[2]
infoset_count == round0_rows + round1_rows + round2_rows

infoset_index(s) ==
  LET progress   == round_progress(s)
      card_class == s.card_class[current_player(s)]
      closing0   == s.closing[0]
      closing1   == s.closing[1]
  IN  CASE s.board_count = 0 -> progress * ClassCount[0] + card_class
        [] s.board_count = 1 ->
             round0_rows + (closing0 * kProgress + progress) * ClassCount[1] + card_class
        [] s.board_count = 2 ->
             round0_rows + round1_rows
               + ((closing0 * kClosing + closing1) * kProgress + progress) * ClassCount[2]
               + card_class

chance_outcomes(s) == deal_outcomes(s, Deck)

\* Slip: the class of the card that was there before is kept.
set_hole_card_keeping_class(s, player, card) == [s EXCEPT !.hole_cards[player] = card]

\* A hole card written over another for a probe: the history is not told.
set_hole_card(s, player, card) ==
  LET probe == [s EXCEPT !.hole_cards[player] = card]
  IN  [probe EXCEPT !.card_class[player] = own_class(probe, player)]

IsLegal(s, action) == \E i \in DOMAIN legal_actions(s) : legal_actions(s)[i] = action
=============================================================================
