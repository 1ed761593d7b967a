---------------------------- MODULE BettingRound ----------------------------
(***************************************************************************)
(* The State every game shares (game/game.hpp) and the fixed-limit betting *)
(* primitives of game/betting_round.hpp, as operators from a State to a    *)
(* State.  The array and its length (history, history_len) are one         *)
(* sequence; every other field keeps its name.  Cards are card ids.        *)
(***************************************************************************)
EXTENDS Integers, Sequences

kPlayerCount        == 2
kMaxHistory         == 26
kMaxBoardCards      == 2
kMaxActionsPerRound == 8

Player == 0 .. kPlayerCount - 1
opponent(player) == kPlayerCount - 1 - player

kActionFold        == 0
kActionCallCheck   == 1
kActionRaise       == 2
kChanceCardOffset  == 100
BettingAction      == {kActionFold, kActionCallCheck, kActionRaise}

NoCard == -1

\* A State as its field initialisers leave it, with the given contributions.
BlankState(contribution) ==
  [ hole_cards         |-> [p \in Player |-> NoCard],
    board_cards        |-> [i \in 0 .. kMaxBoardCards - 1 |-> NoCard],
    board_count        |-> 0,
    history            |-> << >>,
    round_len          |-> 0,
    raises_used        |-> 0,
    closing            |-> [r \in 0 .. 1 |-> 0],
    contribution       |-> contribution,
    round_contribution |-> [p \in Player |-> 0],
    level_to_match     |-> 0,
    showdown_rank      |-> [p \in Player |-> 0],
    card_class         |-> [p \in Player |-> 0] ]

-----------------------------------------------------------------------------
(* Codes of a betting round *)

round_progress_count(max_raises)   == 2 * max_raises + 2
closing_sequence_count(max_raises) == 2 * max_raises + 1

\* Slip: a bet opening numbered from max_raises - 1.
closing_sequence_overlapping(raises, opened, max_raises) ==
  IF opened THEN raises ELSE raises + max_raises - 1

closing_sequence(raises, opened, max_raises) ==
  IF opened THEN raises ELSE raises + max_raises

max_history_depth(rounds, max_raises, chance_events) ==
  rounds * (max_raises + 2) + chance_events

-----------------------------------------------------------------------------
(* Reading the betting round in progress off the end of the history *)

\* history_len is the length of the sequence; entry k of the array is k + 1.
last_action(s)     == s.history[Len(s.history)]
previous_action(s) == s.history[Len(s.history) - 1]
first_action(s)    == s.history[Len(s.history) - s.round_len + 1]

folded(s)     == s.round_len # 0 /\ last_action(s) = kActionFold
facing_bet(s) == s.round_len # 0 /\ last_action(s) = kActionRaise

\* Slip: the opening check closes the round.
round_closed_by_any_check(s) ==
  s.round_len >= 1 /\ last_action(s) = kActionCallCheck

\* Slip: only a call closes a round, so that two checks go on.
round_closed_by_call(s) ==
  s.round_len >= 2 /\ last_action(s) = kActionCallCheck /\ previous_action(s) = kActionRaise

round_closed(s) ==
  /\ s.round_len >= 2
  /\ last_action(s) = kActionCallCheck
  /\ previous_action(s) \in {kActionCallCheck, kActionRaise}

opened_with_check(s) ==
  s.round_len # 0 /\ first_action(s) = kActionCallCheck

round_progress(s) ==
  s.raises_used * 2 + (IF opened_with_check(s) THEN 1 ELSE 0)

\* Slip: the raise cap is forgotten.
round_legal_actions_uncapped(s, max_raises) ==
  IF ~facing_bet(s) THEN <<kActionCallCheck, kActionRaise>>
  ELSE <<kActionFold, kActionCallCheck, kActionRaise>>

\* In table column order.
round_legal_actions(s, max_raises) ==
  IF ~facing_bet(s) THEN <<kActionCallCheck, kActionRaise>>
  ELSE IF s.raises_used < max_raises
       THEN <<kActionFold, kActionCallCheck, kActionRaise>>
       ELSE <<kActionFold, kActionCallCheck>>

\* Tie is the nullopt winner.
Tie == -1
settle(contributions, winner, player) ==
  IF winner = Tie THEN 0
  ELSE IF player = winner THEN contributions[opponent(winner)]
  ELSE -contributions[player]

-----------------------------------------------------------------------------
(* Writing a State *)

append_action(s, action) == [s EXCEPT !.history = Append(@, action)]

deal_card(s, card) ==
  IF s.hole_cards[0] = NoCard THEN [s EXCEPT !.hole_cards[0] = card]
  ELSE IF s.hole_cards[1] = NoCard THEN [s EXCEPT !.hole_cards[1] = card]
  ELSE [s EXCEPT !.board_cards[s.board_count] = card, !.board_count = @ + 1]

\* Slip: the raises of the closed round are kept.
begin_next_betting_round_keeping_raises(s) ==
  [s EXCEPT !.round_len = 0, !.level_to_match = 0,
            !.round_contribution = [p \in Player |-> 0]]

begin_next_betting_round(s) ==
  [s EXCEPT !.round_len = 0, !.raises_used = 0, !.level_to_match = 0,
            !.round_contribution = [p \in Player |-> 0]]

BoardCardNext(s) == s.hole_cards[0] # NoCard /\ s.hole_cards[1] # NoCard

\* The chance entry is already the last one, so the round's actions are the
\* round_len entries before it.
first_action_before_chance(s) == s.history[Len(s.history) - s.round_len]

\* Slip: every closed round is recorded in the first slot.
first_closing_slot(s) == 0

closing_slot(s) == s.board_count

deal_and_advance(s, card, max_raises) ==
  IF BoardCardNext(s)
  THEN LET code   == closing_sequence(s.raises_used,
                                      first_action_before_chance(s) = kActionCallCheck,
                                      max_raises)
           marked == [s EXCEPT !.closing[closing_slot(s)] = code]
       IN  begin_next_betting_round(deal_card(marked, card))
  ELSE deal_card(s, card)

\* The asserts deal_and_advance makes of a board card, after append_action.
deal_and_advance_asserts(s) ==
  BoardCardNext(s) => /\ s.board_count < kMaxBoardCards
                      /\ Len(s.history) > s.round_len

\* Slip: a call pays the whole level, whatever is already in.
whole_level_due(s, acting, level) == level

chips_due(s, acting, level) == level - s.round_contribution[acting]

apply_betting_action(s, action, bet_size) ==
  LET acting == s.round_len % kPlayerCount
      raised == action = kActionRaise
      level  == IF raised THEN s.level_to_match + bet_size ELSE s.level_to_match
  IN  IF action = kActionFold
      THEN [s EXCEPT !.round_len = @ + 1]
      ELSE [s EXCEPT
              !.level_to_match = level,
              !.raises_used = IF raised THEN @ + 1 ELSE @,
              !.contribution[acting] = @ + chips_due(s, acting, level),
              !.round_contribution[acting] = level,
              !.round_len = @ + 1]

-----------------------------------------------------------------------------
(* The cards a chance node may deal *)

DealtCards(s) ==
  {s.hole_cards[p] : p \in {q \in Player : s.hole_cards[q] # NoCard}}
    \cup {s.board_cards[i] : i \in 0 .. s.board_count - 1}

\* Every undealt card, each with probability 1 / remaining.
deal_outcomes(s, deck) == deck \ DealtCards(s)
=============================================================================
