------------------------------ MODULE GsiKeys ------------------------------
(***************************************************************************)
(* Looking a node of a hand up in the published strategy                   *)
(* (grader/gsi_strategy.cpp): what both players can see, the key of the    *)
(* row, the slots of the row that belong to the decision, and the          *)
(* distribution made of them.                                              *)
(***************************************************************************)
EXTENDS RhodeIsland, GsiNumbers, SequencesExt

CONSTANTS
  SignalClass,    \* signal_class_: the class id of every node of the tree
  StrategyRows,   \* strategy_rows_: per player, slots by key, in whole units
  kEmptyRowTotal  \* in the units of the slots

\* Class ids of the files start at 1 and go on from street to street.
ClassIdBase == [r \in Street |-> CASE r = 0 -> 1
                                   [] r = 1 -> kGsiRound2ClassIdBase
                                   [] r = 2 -> kGsiRound3ClassIdBase]

PublishedClassCount == [r \in Street |-> CASE r = 0 -> kGsiRound1ClassCount
                                           [] r = 1 -> kGsiRound2ClassCount
                                           [] r = 2 -> kGsiRound3ClassCount]

\* The class the published partition gives a player's cards.  It is not the
\* class of the game: the authors merge hands that the game tells apart.
published_class(t) == SignalClass[signal_index([i \in DOMAIN t |-> gsi_card(t[i])])]

\* The files are written for the cards and the raise cap of this game.
ASSUME SameGameAssumption == Deck = GsiCard /\ kGsiSequencesPerRound = kClosing

\* The file's partition is any that numbers the classes of a street in its range.
ASSUME PublishedClassesAssumption ==
  \A r \in Street : \A t \in Held(r) :
    published_class(t) \in ClassIdBase[r] .. ClassIdBase[r] + PublishedClassCount[r] - 1

\* kSlotRanges is written for the files of the game with three raises.
ASSUME FileSizesAssumption == kGsiSequencesPerRound = 7 /\ kGsiSlotsPerKey = 10

\* A row of a file is its slots; the code's threshold is 1e-9 of a float.
ASSUME RowsAssumption ==
  /\ kEmptyRowTotal \in Nat
  /\ \A p \in Player : \A key \in DOMAIN StrategyRows[p] :
       StrategyRows[p][key] \in [1 .. kGsiSlotsPerKey -> Int]

-----------------------------------------------------------------------------
(* The look-up *)

\* begin and end, by the number of raises faced.
kSlotRanges(decision_type) ==
  CASE decision_type = 0 -> <<0, 2>>
    [] decision_type = 1 -> <<2, 5>>
    [] decision_type = 2 -> <<5, 8>>
    [] decision_type = 3 -> <<8, 10>>

public_context(s) ==
  [ boards        |-> [i \in 1 .. s.board_count |-> gsi_card(s.board_cards[i - 1])],
    sequence1     |-> IF s.board_count >= 1 THEN s.closing[0] ELSE 0,
    sequence2     |-> IF s.board_count >= 2 THEN s.closing[1] ELSE 0,
    decision_type |-> s.raises_used,
    acting_player |-> s.round_len % kPlayerCount ]

public_context_asserts(s) == facing_bet(s) = (s.raises_used > 0)

\* Slip: the sequences of the two streets change places.
key_for_swapped(context, hole) ==
  LET class_id == SignalClass[signal_index(<<hole>> \o context.boards)]
  IN  CASE Len(context.boards) = 0 -> round1_key(class_id)
        [] Len(context.boards) = 1 -> round2_key(class_id, context.sequence1)
        [] Len(context.boards) = 2 -> round3_key(class_id, context.sequence2, context.sequence1)

key_for(context, hole) ==
  LET class_id == SignalClass[signal_index(<<hole>> \o context.boards)]
  IN  CASE Len(context.boards) = 0 -> round1_key(class_id)
        [] Len(context.boards) = 1 -> round2_key(class_id, context.sequence1)
        [] Len(context.boards) = 2 -> round3_key(class_id, context.sequence1, context.sequence2)

Uniform(n) == [weight |-> [i \in 1 .. n |-> 1], total |-> n]

\* Slip: negative slots are counted as they are.
clamped_not(slot) == slot

clamped(slot) == IF slot > 0 THEN slot ELSE 0

\* The share of action i is weight[i] / total.  A row whose slots come to
\* kEmptyRowTotal or less is treated as absent.
write_slots(acting_player, key, decision_type) ==
  LET begin  == kSlotRanges(decision_type)[1]
      n      == kSlotRanges(decision_type)[2] - begin
      rows   == StrategyRows[acting_player]
      weight == [i \in 1 .. n |-> clamped(rows[key][begin + i])]
      total  == FoldSeq(+, 0, weight)
  IN  IF key \in DOMAIN rows /\ total > kEmptyRowTotal THEN [weight |-> weight, total |-> total]
      ELSE Uniform(n)

action_probabilities(s) ==
  LET context == public_context(s)
      hole    == gsi_card(s.hole_cards[context.acting_player])
  IN  write_slots(context.acting_player, key_for(context, hole), context.decision_type)

\* Nothing is written for a card on the board.
action_probabilities_by_card(s, acting_player) ==
  LET context == public_context(s)
      free    == {card \in Deck : ~Contains(context.boards, gsi_card(card))}
  IN  [card \in free |->
         write_slots(acting_player, key_for(context, gsi_card(card)), context.decision_type)]

-----------------------------------------------------------------------------
(* Properties *)

Own(s) == gsi_card(s.hole_cards[current_player(s)])

\* The slots of a player file read at a decision can be decoded to the whole
\* betting history and the published class of the player's cards: the key
\* gives street, class and the closed rounds, the slot range and the seat the
\* round in progress.  So two infosets of the game share slots only if the
\* authors' partition merges their cards and the betting is the same.
SlotsDecode ==
  is_decision(state) =>
    LET context  == public_context(state)
        index    == key_for(context, Own(state)) - 1
        range    == kSlotRanges(context.decision_type)
        street   == IF index < kGsiRound1KeySpan THEN 0
                    ELSE IF index < kGsiRound1KeySpan + kGsiRound2KeySpan THEN 1 ELSE 2
        first    == CASE street = 0 -> 0 [] street = 1 -> kGsiRound1KeySpan
                      [] street = 2 -> kGsiRound1KeySpan + kGsiRound2KeySpan
        row      == (index - first) \div kGsiSlotsPerKey
        lines    == CASE street = 0 -> 1
                      [] street = 1 -> kGsiSequencesPerRound
                      [] street = 2 -> kGsiSequencesPerRound * kGsiSequencesPerRound
        codes    == ClosedCodes(street, row % lines)
        faced    == CHOOSE n \in 0 .. MaxRaises : kSlotRanges(n) = range
        opened   == (faced + context.acting_player) % 2
    IN  /\ index >= 0 /\ (index - first) % kGsiSlotsPerKey = 0
        /\ street = state.board_count
        /\ ClassIdBase[street] + row \div lines
             = published_class(own_cards(state, current_player(state)))
        /\ \A r \in 1 .. street : LineOn(state, r - 1) = ClosedLine(codes[r])
        /\ range[1] >= 0 /\ range[2] <= kGsiSlotsPerKey
        /\ LineOn(state, street) = OpenLine(2 * faced + opened)

\* The best-response walk asks with placeholder hole cards in the State.  The
\* answer for a card does not depend on them: it is the strategy of a player
\* who really holds that card, one share per legal action, none negative and
\* together 1; a card on the board has none.
AnswersForEveryHand ==
  is_decision(state) =>
    LET player  == current_player(state)
        by_card == action_probabilities_by_card(state, player)
    IN  /\ public_context_asserts(state)
        /\ DOMAIN by_card = Deck \ {state.board_cards[i] : i \in 0 .. state.board_count - 1}
        /\ \A card \in DOMAIN by_card :
             LET share == by_card[card]
             IN  /\ share = action_probabilities(set_hole_card(state, player, card))
                 /\ DOMAIN share.weight = DOMAIN legal_actions(state)
                 /\ \A i \in DOMAIN share.weight : share.weight[i] \in 0 .. share.total
                 /\ share.total > 0 /\ FoldSeq(+, 0, share.weight) = share.total
=============================================================================
