---------------------------- MODULE RhodeIsland ----------------------------
(***************************************************************************)
(* One hand of Rhode Island hold'em, as game/rhode_island.cpp plays it:    *)
(* a hole card each, a betting round, a flop card, a round, a turn card, a *)
(* last round, and a fold or a showdown.  The variable is the State that   *)
(* apply_action maps from node to node; when a hand is over its caller     *)
(* starts the next one from initial_state().                               *)
(***************************************************************************)
EXTENDS RhodeIslandGame

VARIABLE state
vars == <<state>>

-----------------------------------------------------------------------------
(* The hand *)

Init == state = initial_state

\* A chance node deals one of the undealt cards.
Deal ==
  /\ is_chance(state)
  /\ \E card \in chance_outcomes(state) :
       /\ apply_deal_asserts(state, card)
       /\ state' = apply_deal(state, card)

\* The player to act takes a legal action.
Act(action) ==
  /\ is_decision(state)
  /\ IsLegal(state, action)
  /\ apply_betting_asserts(state)
  /\ state' = apply_bet(state, action)

Fold      == Act(kActionFold)
CallCheck == Act(kActionCallCheck)
Raise     == Act(kActionRaise)

\* A caller is done with the hand and starts another.
NewHand ==
  /\ is_terminal(state)
  /\ state' = initial_state

Next == Deal \/ Fold \/ CallCheck \/ Raise \/ NewHand

Spec     == Init /\ [][Next]_vars
FairSpec == Spec /\ WF_vars(Next)

-----------------------------------------------------------------------------
(* Properties *)

\* A history entry is a betting action or a dealt card.
HistoryEntry == BettingAction \cup {kChanceCardOffset + card : card \in Deck}

States ==
  [ hole_cards         : [Player -> Deck \cup {NoCard}],
    board_cards        : [0 .. 1 -> Deck \cup {NoCard}],
    board_count        : Street,
    history            : Seq(HistoryEntry),
    round_len          : 0 .. MaxRaises + 2,
    raises_used        : 0 .. MaxRaises,
    closing            : [0 .. 1 -> 0 .. kClosing - 1],
    contribution       : [Player -> Nat],
    round_contribution : [Player -> Nat],
    level_to_match     : Nat,
    showdown_rank      : [Player -> Nat],
    card_class         : [Player -> Nat] ]

\* Type invariant: every field of the State holds a value of its range.
TypeOK == state \in States

\* The asserts of append_action, apply_betting_action and deal_and_advance
\* hold wherever the rules let play go on, and a chance node has a card left:
\* the arrays of State are large enough for every hand.
AssertsHold ==
  /\ Len(state.history)
       <= max_history_depth(kRihRoundCount, MaxRaises, kRihCardsDealt)
  /\ is_decision(state) => apply_betting_asserts(state)
  /\ is_chance(state) =>
       /\ chance_outcomes(state) # {}
       /\ \A card \in chance_outcomes(state) : apply_deal_asserts(state, card)

\* Both seats have paid the same whenever a board card is due and at every
\* showdown, so a showdown exchanges nothing or half the pot
\* (require_showdown_pot in tests/tree_walk.hpp; rih_best_response.cpp takes
\* the responder's own contribution for the stake).
BoardDue(s) == is_chance(s) /\ BoardCardNext(s)
Showdown(s) == is_terminal(s) /\ ~folded(s)

EvenStakes ==
  BoardDue(state) \/ Showdown(state) =>
    /\ state.contribution[0] = state.contribution[1]
    /\ Showdown(state) =>
         \A p \in Player : terminal_utility(state, p)
                            \in {0, state.contribution[0], -state.contribution[0]}

\* Whoever folds is exactly one bet of the street behind, forfeits what it
\* paid, and the other seat gains just that.
FoldForfeits ==
  is_terminal(state) /\ folded(state) =>
    LET folder == folder_of(state)
        paid   == state.contribution
    IN  /\ paid[opponent(folder)] - paid[folder] = bet_size_of(state)
        /\ terminal_utility(state, folder) = -paid[folder]
        /\ terminal_utility(state, opponent(folder)) = paid[folder]

\* The cards in the order of their slots.
InSlots(s) ==
  [i \in 1 .. 2 + s.board_count |->
     IF i <= 2 THEN s.hole_cards[i - 1] ELSE s.board_cards[i - 3]]

\* The values remembered when a card was dealt are those of the cards now on
\* the table: the classes are what infoset_index asserts, and the ranks are
\* those of the showdown hands.
RememberedValuesFresh ==
  /\ is_decision(state) =>
       \A p \in Player : state.card_class[p] = own_class(state, p)
  /\ Showdown(state) =>
       \A p \in Player : state.showdown_rank[p] = Strength[own_cards(state, p)]

\* The seat to act can be read off the progress code alone, as the comment
\* on round_progress says (codes 0, 3, 4, 7 are seat 0's).
ProgressNamesSeat ==
  is_decision(state) =>
    LET progress == round_progress(state)
    IN  /\ progress < kProgress
        /\ current_player(state) = (progress \div 2 + progress) % 2

\* Where the history holds its k-th card.
ChancePosition(s, k) ==
  CHOOSE i \in 1 .. Len(s.history) :
    /\ s.history[i] >= kChanceCardOffset
    /\ Cardinality({j \in 1 .. i : s.history[j] >= kChanceCardOffset}) = k

\* The cards in the order the history dealt them.
DealtInOrder(s) ==
  [k \in 1 .. Cardinality({i \in 1 .. Len(s.history) : s.history[i] >= kChanceCardOffset}) |->
     s.history[ChancePosition(s, k)] - kChanceCardOffset]

\* The betting actions of a street, cut out of the history.
LineOn(s, street) ==
  SubSeq(s.history, ChancePosition(s, street + 2) + 1,
         IF street = s.board_count THEN Len(s.history)
         ELSE ChancePosition(s, street + 3) - 1)

\* The line a progress code and a closing code stand for, by the comments on
\* round_progress and closing_sequence.
Raises(n) == [i \in 1 .. n |-> kActionRaise]
OpenLine(progress) ==
  (IF progress % 2 = 1 THEN <<kActionCallCheck>> ELSE << >>) \o Raises(progress \div 2)
ClosedLine(code) ==
  (IF code <= MaxRaises THEN <<kActionCallCheck>> \o Raises(code)
   ELSE Raises(code - MaxRaises)) \o <<kActionCallCheck>>

\* A row read back: where the rows of a street begin, the street of a row, and
\* the closing codes of the streets before it.
FirstRow(street) ==
  CASE street = 0 -> 0 [] street = 1 -> round0_rows [] street = 2 -> round0_rows + round1_rows
StreetOfRow(row) ==
  IF row < round0_rows THEN 0 ELSE IF row < round0_rows + round1_rows THEN 1 ELSE 2
ClosedCodes(street, closed) ==
  CASE street = 0 -> << >>
    [] street = 1 -> <<closed>>
    [] street = 2 -> <<closed \div kClosing, closed % kClosing>>

\* The row of a decision node is inside the table and can be decoded to the
\* whole betting history and the class of the player's own cards, those the
\* history dealt it: two nodes share a row exactly when the player to act
\* cannot tell them apart.
RowDecodes ==
  is_decision(state) =>
    LET row     == infoset_index(state)
        street  == StreetOfRow(row)
        place   == row - FirstRow(street)
        betting == place \div ClassCount[street]
        codes   == ClosedCodes(street, betting \div kProgress)
    IN  /\ row \in 0 .. infoset_count - 1
        /\ street = state.board_count
        /\ InSlots(state) = DealtInOrder(state)
        /\ place % ClassCount[street] = own_class(state, current_player(state))
        /\ LineOn(state, street) = OpenLine(betting % kProgress)
        /\ \A r \in 1 .. street : LineOn(state, r - 1) = ClosedLine(codes[r])

\* Within a hand nothing already dealt, paid or closed is taken back: cards
\* and closing codes stay, the history only grows, no contribution shrinks.
NothingTakenBack ==
  [][ ~is_terminal(state) =>
        /\ \A p \in Player :
             /\ state.hole_cards[p] \in {NoCard, state'.hole_cards[p]}
             /\ state.contribution[p] <= state'.contribution[p]
        /\ \A r \in 0 .. state.board_count - 1 :
             /\ state.board_cards[r] = state'.board_cards[r]
             /\ state.closing[r] = state'.closing[r]
        /\ SubSeq(state'.history, 1, Len(state.history)) = state.history ]_vars

\* Hands end: a caller that keeps playing legal actions reaches terminal nodes
\* for ever.
HandsEnd == []<>is_terminal(state)

\* The hand as the rules tell it.
CardsOut(s) ==
  CASE s.hole_cards[0] = NoCard -> << >>
    [] s.hole_cards[0] # NoCard /\ s.hole_cards[1] = NoCard -> <<s.hole_cards[0]>>
    [] BoardCardNext(s) /\ s.board_count = 0 -> <<s.hole_cards[0], s.hole_cards[1]>>
    [] BoardCardNext(s) /\ s.board_count = 1 ->
         <<s.hole_cards[0], s.hole_cards[1], s.board_cards[0]>>
    [] BoardCardNext(s) /\ s.board_count = 2 ->
         <<s.hole_cards[0], s.hole_cards[1], s.board_cards[0], s.board_cards[1]>>

Rules == INSTANCE FixedLimit
  WITH cards  <- CardsOut(state),
       paid   <- state.contribution,
       acted  <- state.round_len,
       raises <- state.raises_used,
       folder <- IF folded(state) THEN folder_of(state) ELSE Tie

\* Every hand is a hand of FixedLimit, and is worth what the rules say.
FollowsRules == Rules!FLSpec
WorthByRules ==
  is_terminal(state) =>
    /\ Rules!HandOver
    /\ \A p \in Player : terminal_utility(state, p) = Rules!Worth(p)
=============================================================================
