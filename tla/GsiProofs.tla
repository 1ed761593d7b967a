----------------------------- MODULE GsiProofs -----------------------------
(***************************************************************************)
(* Proofs about GsiKeys and GsiLoad, for every deck of ranks and suits,    *)
(* partition and published rows of that game.  The slots read at a         *)
(* decision belong to one betting history and one published class, and the *)
(* answer for a card is that of a player who holds it; what is known of    *)
(* the hand is RInv of RhodeIslandProofs.  The nodes classes are looked up *)
(* at are numbered one to one.  And a load leaves every class at its node  *)
(* and every row under its key, or throws.                                 *)
(***************************************************************************)
EXTENDS GsiKeys, GsiLoad, RhodeIslandProofs, SumTheorems, FunctionTheorems

\* The sizes of this game.
LEMMA Sizes ==
  /\ MaxRaises = 3 /\ kClosing = 7
  /\ kGsiSequencesPerRound = 7 /\ kGsiSlotsPerKey = 10
  /\ Street = {0, 1, 2} /\ Player = {0, 1}
  /\ PublishedClassCount[0] = kGsiRound1ClassCount
  /\ PublishedClassCount[1] = kGsiRound2ClassCount
  /\ PublishedClassCount[2] = kGsiRound3ClassCount
  /\ kGsiRound1ClassCount \in Nat /\ kGsiRound2ClassCount \in Nat
  /\ kGsiRound3ClassCount \in Nat
<1>1. Street = {0, 1, 2} /\ Player = {0, 1}
  BY DEF Street, kRihRoundCount, Player, kPlayerCount
<1>2. kGsiSequencesPerRound = 7 /\ kGsiSlotsPerKey = 10 /\ kClosing = 7
  BY FileSizesAssumption, SameGameAssumption
<1>3. MaxRaises = 3
  BY <1>2, RaiseCapAssumption DEF kClosing, closing_sequence_count
<1>4. /\ PublishedClassCount[0] = kGsiRound1ClassCount
      /\ PublishedClassCount[1] = kGsiRound2ClassCount
      /\ PublishedClassCount[2] = kGsiRound3ClassCount
  BY <1>1 DEF PublishedClassCount
<1> QED
  BY <1>1, <1>2, <1>3, <1>4, GsiSizesAssumption

-----------------------------------------------------------------------------
(* The key of a row *)

\* The published class of the player's cards is found at their node of the
\* tree, and is one of the street's.
LEMMA ClassIdIs ==
  ASSUME NEW s \in States, CardsInv(s), s.hole_cards[1] # NoCard, NEW p \in Player,
         s.hole_cards[p] # NoCard
  PROVE  /\ SignalClass[signal_index(<<gsi_card(s.hole_cards[p])>> \o public_context(s).boards)]
                = published_class(own_cards(s, p))
         /\ published_class(own_cards(s, p)) \in
              ClassIdBase[s.board_count]
                .. ClassIdBase[s.board_count] + PublishedClassCount[s.board_count] - 1
<1> DEFINE t      == own_cards(s, p)
           b      == s.board_count
           gsi    == [i \in DOMAIN t |-> gsi_card(t[i])]
           hole   == <<gsi_card(s.hole_cards[p])>>
           boards == public_context(s).boards
           S      == {gsi_card(card) : card \in Deck}
<1>1. b \in Street /\ b \in {0, 1, 2}
  BY DEF States, Street, kRihRoundCount
<1>2. t \in Held(b)
  BY <1>1, OwnCardsHeld
<1>3. t \in [1 .. b + 1 -> Deck]
  BY <1>2 DEF Held
<1>4. boards = [i \in 1 .. b |-> gsi_card(s.board_cards[i - 1])]
  BY DEF public_context
<1>5. /\ t[1] = s.hole_cards[p]
      /\ \A i \in 1 .. b : t[i + 1] = s.board_cards[i - 1]
  BY <1>1 DEF own_cards
<1>6. \A i \in 1 .. b + 1 : gsi_card(t[i]) \in S
  BY <1>3
<1> HIDE DEF t, b, S, boards
<1>7. hole \in Seq(S) /\ Len(hole) = 1 /\ hole[1] = gsi_card(t[1])
  BY <1>1, <1>5, <1>6
<1>8. boards \in Seq(S) /\ Len(boards) = b /\ \A i \in 1 .. b : boards[i] = gsi_card(t[i + 1])
  <2>1. \A i \in 1 .. b : boards[i] = gsi_card(t[i + 1]) /\ i + 1 \in 1 .. b + 1
    BY <1>1, <1>4, <1>5
  <2>2. boards = [i \in 1 .. b |-> boards[i]]
    BY <1>4
  <2>3. boards \in [1 .. b -> S]
    BY <1>6, <2>1, <2>2
  <2> QED
    BY <1>1, <2>1, <2>3
<1>9. gsi \in Seq(S) /\ Len(gsi) = b + 1 /\ \A i \in 1 .. b + 1 : gsi[i] = gsi_card(t[i])
  <2>1. DOMAIN t = 1 .. b + 1
    BY <1>3
  <2>2. gsi \in [1 .. b + 1 -> S]
    BY <1>6, <2>1
  <2> QED
    BY <1>1, <2>1, <2>2
<1> HIDE DEF hole, gsi
<1>10. /\ hole \o boards \in Seq(S) /\ Len(hole \o boards) = Len(hole) + Len(boards)
       /\ \A i \in 1 .. Len(hole) + Len(boards) :
            (hole \o boards)[i] = IF i <= Len(hole) THEN hole[i] ELSE boards[i - Len(hole)]
  BY <1>7, <1>8, ConcatProperties, Zenon
<1> DEFINE node == hole \o boards
<1>11. node \in Seq(S) /\ Len(node) = b + 1
  BY <1>1, <1>7, <1>8, <1>10
<1>12. \A i \in 1 .. b + 1 : node[i] = IF i <= 1 THEN hole[i] ELSE boards[i - 1]
  BY <1>1, <1>7, <1>8, <1>10
<1> HIDE DEF node
<1>13. \A i \in 1 .. b + 1 : node[i] = gsi[i]
  <2> SUFFICES ASSUME NEW i \in 1 .. b + 1
               PROVE  node[i] = gsi[i]
    OBVIOUS
  <2>1. CASE i = 1
    BY <1>1, <1>7, <1>9, <1>12, <2>1
  <2>2. CASE i # 1
    <3> DEFINE j == i - 1
    <3>1. j \in 1 .. b /\ j + 1 = i /\ ~(i <= 1)
      BY <1>1, <2>2
    <3>2. node[i] = boards[j]
      BY <1>12, <3>1
    <3> HIDE DEF j
    <3> QED
      BY <1>8, <1>9, <3>1, <3>2
  <2> QED
    BY <2>1, <2>2
<1>14. node = gsi
  BY <1>9, <1>11, <1>13, SeqEqual
<1>15. SignalClass[signal_index(gsi)] = published_class(t)
  BY DEF gsi, published_class
<1>16. published_class(t) \in ClassIdBase[b] .. ClassIdBase[b] + PublishedClassCount[b] - 1
  BY <1>1, <1>2, PublishedClassesAssumption
<1> QED
  BY <1>14, <1>15, <1>16 DEF node, hole, boards, t, b

\* What the look-up reads of a decision.
LEMMA ContextIs ==
  ASSUME NEW s \in States
  PROVE  LET context == public_context(s)
         IN  /\ Len(context.boards) = s.board_count
             /\ context.sequence1 = IF s.board_count >= 1 THEN s.closing[0] ELSE 0
             /\ context.sequence2 = IF s.board_count >= 2 THEN s.closing[1] ELSE 0
             /\ context.decision_type = s.raises_used
             /\ context.acting_player = current_player(s)
<1>1. s.board_count \in Nat
  BY DEF States, Street, kRihRoundCount
<1> DEFINE boards == public_context(s).boards
<1>2. boards = [i \in 1 .. s.board_count |-> gsi_card(s.board_cards[i - 1])]
  BY DEF public_context
<1>3. Len(boards) = s.board_count
  BY <1>1, <1>2
<1> QED
  BY <1>3 DEF public_context, current_player

\* The published class of a player's cards, counted from 0 on its street.
FileClass(s, player) == published_class(own_cards(s, player)) - ClassIdBase[s.board_count]

\* A key is a row number times the slots of a row, after the keys of the
\* streets before.
RowNumber(s, class) ==
  CASE s.board_count = 0 -> class
    [] s.board_count = 1 -> 7 * class + s.closing[0]
    [] s.board_count = 2 -> 49 * class + (7 * s.closing[0] + s.closing[1])
FirstKey(street) ==
  CASE street = 0 -> 0 [] street = 1 -> kGsiRound1KeySpan
    [] street = 2 -> kGsiRound1KeySpan + kGsiRound2KeySpan

LEMMA KeyIs ==
  ASSUME NEW s \in States, Good(s), Fresh(s), is_decision(s)
  PROVE  LET class == FileClass(s, current_player(s))
         IN  /\ key_for(public_context(s), Own(s)) - 1
                    = FirstKey(s.board_count) + 10 * RowNumber(s, class)
             /\ class \in 0 .. PublishedClassCount[s.board_count] - 1
             /\ ClassIdBase[s.board_count] \in Nat
             /\ published_class(own_cards(s, current_player(s))) \in Int
             /\ s.closing[0] \in 0 .. 6 /\ s.closing[1] \in 0 .. 6
             /\ s.board_count \in {0, 1, 2}
<1> DEFINE p       == current_player(s)
           class   == FileClass(s, p)
           b       == s.board_count
           context == public_context(s)
           id      == SignalClass[signal_index(<<Own(s)>> \o context.boards)]
           key     == key_for(context, Own(s))
<1>1. b \in {0, 1, 2}
  BY DEF States, Street, kRihRoundCount
<1>2. s.hole_cards[1] # NoCard /\ p \in Player /\ s.hole_cards[p] # NoCard
  BY DecisionShape, Seats DEF Player, kPlayerCount
<1> DEFINE base  == ClassIdBase[b]
           count == PublishedClassCount[b]
           card  == published_class(own_cards(s, p))
<1>7. /\ ClassIdBase[0] = 1 /\ ClassIdBase[1] = kGsiRound1ClassCount + 1
      /\ ClassIdBase[2] = kGsiRound1ClassCount + 1 + kGsiRound2ClassCount
  BY Sizes DEF ClassIdBase, kGsiRound2ClassIdBase, kGsiRound3ClassIdBase
<1>13. base \in Nat /\ count \in Nat
  BY <1>1, <1>7, Sizes
<1>14. id = card /\ card \in base .. base + count - 1
  BY <1>2, ClassIdIs DEF Good, Own
<1>15. class = card - base
  BY DEF FileClass
<1>3. s.closing[0] \in 0 .. 6 /\ s.closing[1] \in 0 .. 6
  BY <1>2, DigitsInRange, Sizes DEF Fresh
<1> HIDE DEF base, count, card, class, id
<1>16. class \in 0 .. count - 1 /\ class \in Nat /\ card \in Int
  BY <1>13, <1>14, <1>15
<1>4. id = base + class
  BY <1>13, <1>14, <1>15
<1> USE DEF base, id
<1>5. /\ Len(context.boards) = b
      /\ b >= 1 => context.sequence1 = s.closing[0]
      /\ b >= 2 => context.sequence2 = s.closing[1]
  BY ContextIs
<1>6. /\ b = 0 => key = round1_key(id)
      /\ b = 1 => key = round2_key(id, s.closing[0])
      /\ b = 2 => key = round3_key(id, s.closing[0], s.closing[1])
  <2> HIDE DEF b, context
  <2>1. /\ Len(context.boards) = 0 => key = round1_key(id)
        /\ Len(context.boards) = 1 => key = round2_key(id, context.sequence1)
        /\ Len(context.boards) = 2 => key = round3_key(id, context.sequence1, context.sequence2)
    BY DEF key_for
  <2> QED
    BY <1>5, <2>1
<1>8. kGsiRound1KeySpan \in Nat /\ kGsiRound2KeySpan \in Nat
  BY Sizes DEF kGsiRound1KeySpan, kGsiRound2KeySpan
<1>9. class \in Nat /\ s.closing[0] \in Nat /\ s.closing[1] \in Nat
  BY <1>3, <1>16
<1> HIDE DEF class, b, context, id, key
<1>10. CASE b = 0
  <2>1. key = 10 * (id - 1) + 1 /\ id = 1 + class
    BY <1>4, <1>6, <1>7, <1>10, Sizes DEF round1_key
  <2>2. FirstKey(b) = 0 /\ RowNumber(s, class) = class
    BY <1>10 DEF FirstKey, RowNumber, b
  <2>3. key - 1 = FirstKey(b) + 10 * RowNumber(s, class)
    BY <1>9, <2>1, <2>2
  <2> QED
    BY <1>1, <1>3, <1>13, <1>16, <2>3 DEF class, b, key, context, count, card
<1>11. CASE b = 1
  <2>1. /\ key = 70 * (id - (kGsiRound1ClassCount + 1)) + 10 * s.closing[0]
                   + kGsiRound1KeySpan + 1
        /\ id = kGsiRound1ClassCount + 1 + class
    BY <1>4, <1>6, <1>7, <1>11, Sizes DEF round2_key, kGsiRound2ClassIdBase
  <2>2. FirstKey(b) = kGsiRound1KeySpan /\ RowNumber(s, class) = 7 * class + s.closing[0]
    BY <1>11 DEF FirstKey, RowNumber, b
  <2>3. key - 1 = FirstKey(b) + 10 * RowNumber(s, class)
    BY <1>8, <1>9, <2>1, <2>2, Sizes
  <2> QED
    BY <1>1, <1>3, <1>13, <1>16, <2>3 DEF class, b, key, context, count, card
<1>12. CASE b = 2
  <2>1. /\ key = 490 * (id - (kGsiRound1ClassCount + 1 + kGsiRound2ClassCount))
                   + 10 * (7 * s.closing[0] + s.closing[1])
                   + kGsiRound1KeySpan + kGsiRound2KeySpan + 1
        /\ id = kGsiRound1ClassCount + 1 + kGsiRound2ClassCount + class
    BY <1>4, <1>6, <1>7, <1>12, Sizes
       DEF round3_key, kGsiRound3ClassIdBase, kGsiRound2ClassIdBase
  <2>2. /\ FirstKey(b) = kGsiRound1KeySpan + kGsiRound2KeySpan
        /\ RowNumber(s, class) = 49 * class + (7 * s.closing[0] + s.closing[1])
    BY <1>12 DEF FirstKey, RowNumber, b
  <2>3. key - 1 = FirstKey(b) + 10 * RowNumber(s, class)
    BY <1>8, <1>9, <2>1, <2>2, Sizes
  <2> QED
    BY <1>1, <1>3, <1>13, <1>16, <2>3 DEF class, b, key, context, count, card
<1> QED
  BY <1>1, <1>10, <1>11, <1>12

\* The four ranges of slots are apart and inside the row.
LEMMA RangesApart ==
  ASSUME NEW n \in 0 .. MaxRaises
  PROVE  /\ \A k \in 0 .. MaxRaises : kSlotRanges(k) = kSlotRanges(n) => k = n
         /\ kSlotRanges(n)[1] \in Nat
         /\ kSlotRanges(n)[2] \in kSlotRanges(n)[1] + 1 .. kGsiSlotsPerKey
         /\ kSlotRanges(n)[2] - kSlotRanges(n)[1] = IF n \in {0, 3} THEN 2 ELSE 3
<1>1. 0 .. MaxRaises = {0, 1, 2, 3}
  BY Sizes
<1>2. /\ kSlotRanges(0) = <<0, 2>> /\ kSlotRanges(1) = <<2, 5>>
      /\ kSlotRanges(2) = <<5, 8>> /\ kSlotRanges(3) = <<8, 10>>
  BY DEF kSlotRanges
<1>3. \A k \in 0 .. MaxRaises : kSlotRanges(k)[1] = IF k = 0 THEN 0 ELSE 3 * k - 1
  BY <1>1, <1>2
<1>4. \A k \in 0 .. MaxRaises : kSlotRanges(k)[2] = IF k = 3 THEN 10 ELSE 3 * k + 2
  BY <1>1, <1>2
<1>5. ASSUME NEW k \in 0 .. MaxRaises, kSlotRanges(k) = kSlotRanges(n)
      PROVE  k = n
  <2>1. kSlotRanges(k)[1] = kSlotRanges(n)[1]
    BY <1>5
  <2> QED
    BY <1>1, <1>3, <2>1
<1> QED
  BY <1>1, <1>3, <1>4, <1>5, Sizes

\* The round in progress, by its raises and whether it opened with a check.
LEMMA RoundLength ==
  ASSUME NEW s \in States, Good(s), is_decision(s)
  PROVE  /\ s.raises_used \in 0 .. MaxRaises /\ Opened(s) \in {0, 1}
         /\ s.round_len = s.raises_used + Opened(s)
         /\ round_progress(s) = 2 * s.raises_used + Opened(s)
         /\ facing_bet(s) <=> s.raises_used > 0
<1> DEFINE R == s.raises_used
           o == Opened(s)
<1>1. R \in 0 .. MaxRaises /\ MaxRaises \in Nat /\ o \in {0, 1}
  BY RaiseCapAssumption DEF States, Opened
<1>2. round_progress(s) = 2 * R + o
  BY <1>1 DEF round_progress, Opened
<1>3. CASE s.round_len = 0
  <2>1. R = 0
    BY <1>3 DEF Good, RoundInv
  <2>2. o = 0 /\ ~facing_bet(s)
    BY <1>3 DEF Opened, opened_with_check, facing_bet
  <2> QED
    BY <1>1, <1>2, <1>3, <2>1, <2>2
<1>4. CASE s.round_len # 0 /\ BetStands(s)
  BY <1>1, <1>2, <1>4 DEF BetStands, facing_bet
<1>5. CASE s.round_len # 0 /\ Checked(s)
  <2>1. o = 1
    BY <1>5, CheckedOpened
  <2>2. ~facing_bet(s)
    BY <1>5 DEF Checked, facing_bet, kActionCallCheck, kActionRaise
  <2> QED
    BY <1>1, <1>2, <1>5, <2>1, <2>2 DEF Checked
<1> QED
  BY <1>3, <1>4, <1>5, DecisionShape

\* At every decision of every hand, for every partition of the published
\* file, the slots read can be decoded to the whole betting history and the
\* published class of the player's cards: only hands that the partition puts
\* in one class share slots.
THEOREM SlotsAlwaysDecode == Spec => []SlotsDecode
<1>1. RInv => SlotsDecode
  <2> SUFFICES ASSUME state \in States, Good(state), Fresh(state), LinesInv(state),
                      is_decision(state)
               PROVE  SlotsDecode
    BY DEF RInv, FInv, IInv, TypeOK, SlotsDecode
  <2> DEFINE context  == public_context(state)
             index    == key_for(context, Own(state)) - 1
             range    == kSlotRanges(context.decision_type)
             street   == IF index < kGsiRound1KeySpan THEN 0
                         ELSE IF index < kGsiRound1KeySpan + kGsiRound2KeySpan THEN 1 ELSE 2
             first    == FirstKey(street)
             place    == (index - first) \div kGsiSlotsPerKey
             lines    == CASE street = 0 -> 1
                           [] street = 1 -> kGsiSequencesPerRound
                           [] street = 2 -> kGsiSequencesPerRound * kGsiSequencesPerRound
             codes    == ClosedCodes(street, place % lines)
             faced    == CHOOSE n \in 0 .. MaxRaises : kSlotRanges(n) = range
             opened   == (faced + context.acting_player) % 2
             b        == state.board_count
             seat     == current_player(state)
             class    == FileClass(state, seat)
             card     == published_class(own_cards(state, seat))
             number   == RowNumber(state, class)
             R        == state.raises_used
             o        == Opened(state)
             c0       == state.closing[0]
             c1       == state.closing[1]
  <2>1. /\ index = FirstKey(b) + 10 * number /\ class \in 0 .. PublishedClassCount[b] - 1
        /\ ClassIdBase[b] \in Nat /\ card \in Int
        /\ c0 \in 0 .. 6 /\ c1 \in 0 .. 6 /\ b \in {0, 1, 2}
    BY KeyIs
  <2>2. /\ kGsiRound1KeySpan = 10 * PublishedClassCount[0]
        /\ kGsiRound2KeySpan = 70 * PublishedClassCount[1]
        /\ PublishedClassCount[0] \in Nat /\ PublishedClassCount[1] \in Nat
        /\ PublishedClassCount[2] \in Nat
    BY Sizes DEF kGsiRound1KeySpan, kGsiRound2KeySpan
  <2>3. /\ b = 0 => number = class /\ FirstKey(b) = 0
        /\ b = 1 => number = 7 * class + c0 /\ FirstKey(b) = kGsiRound1KeySpan
        /\ b = 2 => /\ number = 49 * class + (7 * c0 + c1)
                    /\ FirstKey(b) = kGsiRound1KeySpan + kGsiRound2KeySpan
    BY DEF RowNumber, FirstKey
  <2> HIDE DEF index, number, class, c0, c1, b
  <2>4. class \in Nat /\ c0 \in Nat /\ c1 \in Nat /\ number \in Nat /\ FirstKey(b) \in Nat
    <3>1. PublishedClassCount[b] \in Nat
      BY <2>1, <2>2
    <3>2. class \in Nat /\ c0 \in Nat /\ c1 \in Nat
      BY <2>1, <3>1
    <3> QED
      BY <2>1, <2>2, <2>3, <3>2
  <2>5. street = b
    <3>1. CASE b = 0
      BY <2>1, <2>2, <2>3, <2>4, <3>1
    <3>2. CASE b = 1
      BY <2>1, <2>2, <2>3, <2>4, <3>2
    <3>3. CASE b = 2
      BY <2>1, <2>2, <2>3, <2>4, <3>3
    <3> QED
      BY <2>1, <3>1, <3>2, <3>3
  <2>6. index - first = 10 * number /\ index >= 0
    BY <2>1, <2>4, <2>5
  <2>7. place = number /\ (index - first) % kGsiSlotsPerKey = 0
    <3>1. kGsiSlotsPerKey = 10
      BY Sizes
    <3> HIDE DEF first
    <3> QED
      BY <2>4, <2>6, <3>1
  <2> HIDE DEF place, first, street
  <2>8. lines = IF b = 0 THEN 1 ELSE IF b = 1 THEN 7 ELSE 49
    BY <2>1, <2>5, Sizes
  <2> HIDE DEF lines
  <2>9. place \div lines = class
    <3>1. CASE b = 0
      BY <2>3, <2>4, <2>7, <2>8, <3>1
    <3>2. CASE b = 1
      BY <2>1, <2>3, <2>4, <2>7, <2>8, <3>2
    <3>3. CASE b = 2
      BY <2>1, <2>3, <2>4, <2>7, <2>8, <3>3
    <3> QED
      BY <2>1, <3>1, <3>2, <3>3
  <2>10. \A r \in 1 .. b : codes[r] = state.closing[r - 1]
    <3> SUFFICES ASSUME NEW r \in 1 .. b
                 PROVE  codes[r] = state.closing[r - 1]
      OBVIOUS
    <3>1. codes = ClosedCodes(b, place % lines)
      BY <2>5
    <3> HIDE DEF codes
    <3>2. CASE b = 1
      <4>1. place % lines = c0
        BY <2>1, <2>3, <2>4, <2>7, <2>8, <3>2
      <4>2. codes = <<c0>> /\ r = 1
        BY <3>1, <3>2, <4>1 DEF ClosedCodes
      <4> QED
        BY <4>2 DEF c0
    <3>3. CASE b = 2
      <4> DEFINE pair == 7 * c0 + c1
      <4>1. place % lines = pair
        BY <2>1, <2>3, <2>4, <2>7, <2>8, <3>3
      <4>2. pair \div 7 = c0 /\ pair % 7 = c1
        BY <2>1, <2>4
      <4> HIDE DEF pair
      <4>3. codes = <<pair \div 7, pair % 7>> /\ (r = 1 \/ r = 2)
        BY <3>1, <3>3, <4>1, Sizes DEF ClosedCodes
      <4>4. codes = <<c0, c1>>
        BY <4>2, <4>3
      <4> QED
        BY <4>3, <4>4 DEF c0, c1
    <3> QED
      BY <2>1, <3>2, <3>3
  <2>11. /\ LineOn(state, b) = OpenLine(round_progress(state))
         /\ \A r \in 0 .. b - 1 : LineOn(state, r) = ClosedLine(state.closing[r])
    BY StreetsAreLines DEF b
  <2>12. \A r \in 1 .. street : LineOn(state, r - 1) = ClosedLine(codes[r])
    <3> SUFFICES ASSUME NEW r \in 1 .. b
                 PROVE  LineOn(state, r - 1) = ClosedLine(codes[r])
      BY <2>5
    <3>1. r - 1 \in 0 .. b - 1
      BY <2>1
    <3> HIDE DEF codes
    <3> QED
      BY <2>10, <2>11, <3>1
  <2>13. /\ R \in 0 .. MaxRaises /\ o \in {0, 1} /\ state.round_len = R + o
         /\ round_progress(state) = 2 * R + o
    BY RoundLength
  <2>14. context.decision_type = R /\ context.acting_player = seat
    BY ContextIs
  <2>15. faced = R
    BY <2>13, <2>14, RangesApart
  <2>16. opened = o
    <3>1. seat = (R + o) % 2
      BY <2>13 DEF current_player, kPlayerCount
    <3>2. opened = (R + seat) % 2
      BY <2>14, <2>15
    <3>3. R \in Nat
      BY <2>13, Sizes
    <3> HIDE DEF opened, seat, R, o
    <3> QED
      BY <2>13, <3>1, <3>2, <3>3
  <2>17. LineOn(state, street) = OpenLine(2 * faced + opened)
    <3> HIDE DEF faced, opened, R, o
    <3> QED
      BY <2>5, <2>11, <2>13, <2>15, <2>16
  <2>18. range[1] >= 0 /\ range[2] <= kGsiSlotsPerKey
    BY <2>13, <2>14, RangesApart, Sizes
  <2> HIDE DEF range, faced, opened, codes
  <2>19. /\ index >= 0 /\ (index - first) % kGsiSlotsPerKey = 0
         /\ street = state.board_count
         /\ ClassIdBase[street] + place \div lines = card
    <3> DEFINE base == ClassIdBase[b]
    <3>1. class = card - base
      BY DEF class, b, FileClass
    <3> HIDE DEF base, card
    <3>2. base + class = card
      BY <2>1, <2>4, <3>1 DEF base
    <3> QED
      BY <2>5, <2>6, <2>7, <2>9, <3>2 DEF b, base
  <2> QED
    BY <2>12, <2>17, <2>18, <2>19, Zenon
       DEF SlotsDecode, index, range, street, first, place, lines, codes, faced, opened, FirstKey
<1> QED
  BY <1>1, HistoryIsLines, PTL

-----------------------------------------------------------------------------
(* The answer for a card *)

\* Cards keep apart when they are renumbered for the files.
LEMMA SuitsAndRanks ==
  ASSUME NEW card \in GsiCard
  PROVE  /\ card \div kGsiSuitCount \in 0 .. kGsiRankCount - 1
         /\ card % kGsiSuitCount \in 0 .. kGsiSuitCount - 1
         /\ card = (card \div kGsiSuitCount) * kGsiSuitCount + (card % kGsiSuitCount)
<1> DEFINE S == kGsiSuitCount
           R == kGsiRankCount
           q == card \div S
           r == card % S
<1>1. /\ S \in Nat /\ S >= 1 /\ R \in Nat /\ R >= 1
  BY GsiSizesAssumption
<1>2. card \in 0 .. R * S - 1 /\ R * S \in Nat
  BY <1>1 DEF GsiCard, kGsiCardCount
<1>3. card \in Nat /\ q \in Int /\ r \in 0 .. S - 1 /\ card = S * q + r
  BY <1>1, <1>2
<1> HIDE DEF S, R, q, r
<1>4. S * q = q * S
  BY <1>1, <1>3
<1>5. q >= 0
  <2> SUFFICES ASSUME q <= -1 PROVE FALSE
    BY <1>3
  <2>1. q * S <= -1 * S
    BY <1>1, <1>3
  <2> QED
    BY <1>1, <1>3, <1>4, <2>1
<1>6. q <= R - 1
  <2> SUFFICES ASSUME q >= R PROVE FALSE
    BY <1>1, <1>3
  <2>1. q * S >= R * S
    BY <1>1, <1>3
  <2> QED
    BY <1>1, <1>2, <1>3, <1>4, <2>1
<1>7. q \in 0 .. R - 1 /\ r \in 0 .. S - 1 /\ card = q * S + r
  BY <1>1, <1>3, <1>4, <1>5, <1>6
<1> QED
  BY <1>7, Zenon DEF q, r, S, R

LEMMA CardsStayApart ==
  ASSUME NEW c \in GsiCard, NEW d \in GsiCard, gsi_card(c) = gsi_card(d)
  PROVE  c = d
<1> DEFINE S == kGsiSuitCount
           R == kGsiRankCount
           qc == c \div S
           rc == c % S
           qd == d \div S
           rd == d % S
<1>1. /\ S \in Nat /\ S >= 1 /\ R \in Nat /\ R >= 1
  BY GsiSizesAssumption
<1>2. qc \in 0 .. R - 1 /\ rc \in 0 .. S - 1 /\ c = qc * S + rc
  BY SuitsAndRanks, Zenon
<1>3. qd \in 0 .. R - 1 /\ rd \in 0 .. S - 1 /\ d = qd * S + rd
  BY SuitsAndRanks, Zenon
<1>4. rc * R + qc = rd * R + qd
  BY DEF gsi_card
<1> HIDE DEF S, R, qc, rc, qd, rd
<1>5. (rc * R + qc) \div R = rc /\ (rc * R + qc) % R = qc
  BY <1>1, <1>2, DivMod
<1>6. (rd * R + qd) \div R = rd /\ (rd * R + qd) % R = qd
  BY <1>1, <1>3, DivMod
<1> QED
  BY <1>2, <1>3, <1>4, <1>5, <1>6

\* The board the look-up sees holds a card exactly when the State does.
LEMMA OnTheBoard ==
  ASSUME NEW s \in States, CardsInv(s), NEW card \in Deck
  PROVE  Contains(public_context(s).boards, gsi_card(card))
           <=> card \in {s.board_cards[i] : i \in 0 .. s.board_count - 1}
<1> DEFINE boards == public_context(s).boards
           b      == s.board_count
<1>1. b \in {0, 1, 2}
  BY DEF States, Street, kRihRoundCount
<1>2. boards = [i \in 1 .. b |-> gsi_card(s.board_cards[i - 1])]
  BY DEF public_context
<1>3. Len(boards) = b
  BY <1>1, <1>2
<1>4. \A i \in 0 .. b - 1 : s.board_cards[i] \in Deck
  BY DEF CardsInv
<1> HIDE DEF boards, b
<1>5. ASSUME NEW i \in 1 .. b, boards[i] = gsi_card(card)
      PROVE  \E j \in 0 .. b - 1 : card = s.board_cards[j]
  <2>1. i - 1 \in 0 .. b - 1
    BY <1>1
  <2>2. s.board_cards[i - 1] \in Deck
    BY <1>4, <2>1
  <2>3. gsi_card(s.board_cards[i - 1]) = gsi_card(card)
    BY <1>2, <1>5
  <2>4. s.board_cards[i - 1] = card
    BY <2>2, <2>3, CardsStayApart, SameGameAssumption
  <2> QED
    BY <2>1, <2>4
<1>6. ASSUME NEW j \in 0 .. b - 1, card = s.board_cards[j]
      PROVE  \E i \in 1 .. b : boards[i] = gsi_card(card)
  <2> DEFINE i == j + 1
  <2>1. i \in 1 .. b /\ i - 1 = j
    BY <1>1
  <2> HIDE DEF i
  <2>2. boards[i] = gsi_card(s.board_cards[j])
    BY <1>2, <2>1
  <2> QED
    BY <1>6, <2>1, <2>2
<1>7. Contains(boards, gsi_card(card)) <=> \E i \in 1 .. b : boards[i] = gsi_card(card)
  BY <1>3 DEF Contains
<1> QED
  BY <1>5, <1>6, <1>7 DEF boards, b

\* A fold of a row by addition is its sum.
LEMMA FoldIsSum ==
  ASSUME NEW w
  PROVE  FoldSeq(+, 0, w) = SumFunctionOnSet(w, DOMAIN w)
  BY DEF FoldSeq, FoldFunction, SumFunctionOnSet

\* What is made of the slots is a distribution over the legal actions of a
\* decision of that type.
Shares(share, n) ==
  /\ DOMAIN share.weight = 1 .. n
  /\ \A i \in 1 .. n : share.weight[i] \in 0 .. share.total
  /\ share.total > 0 /\ FoldSeq(+, 0, share.weight) = share.total

LEMMA SlotsAreShares ==
  ASSUME NEW p \in Player, NEW key, NEW type \in 0 .. MaxRaises
  PROVE  Shares(write_slots(p, key, type), IF type \in {0, 3} THEN 2 ELSE 3)
<1> DEFINE begin  == kSlotRanges(type)[1]
           n      == kSlotRanges(type)[2] - begin
           rows   == StrategyRows[p]
           weight == [i \in 1 .. n |-> clamped(rows[key][begin + i])]
           total  == FoldSeq(+, 0, weight)
           size   == IF type \in {0, 3} THEN 2 ELSE 3
<1>1. begin \in Nat /\ n = size /\ begin + n <= kGsiSlotsPerKey
  BY RangesApart, Sizes
<1> HIDE DEF begin, n, rows
<1>2. IsFiniteSet(1 .. n) /\ Cardinality(1 .. n) = n /\ n \in {2, 3}
  BY <1>1, FS_Interval
<1>3. CASE key \in DOMAIN rows /\ total > kEmptyRowTotal
  <2>1. ASSUME NEW i \in 1 .. n
        PROVE  weight[i] \in Nat
    <3>1. begin + i \in 1 .. kGsiSlotsPerKey
      BY <1>1, <1>2, Sizes
    <3>2. rows[key] \in [1 .. kGsiSlotsPerKey -> Int]
      BY <1>3, RowsAssumption DEF rows
    <3>3. rows[key][begin + i] \in Int
      BY <3>1, <3>2
    <3> QED
      BY <3>3 DEF clamped
  <2>2. DOMAIN weight = 1 .. n
    OBVIOUS
  <2> HIDE DEF weight
  <2>3. total = SumFunctionOnSet(weight, 1 .. n)
    BY <2>2, FoldIsSum
  <2> HIDE DEF total
  <2>4. total \in Nat /\ \A i \in 1 .. n : weight[i] <= total
    BY <1>2, <2>1, <2>3, SumNat
  <2>5. \A i \in 1 .. n : weight[i] \in 0 .. total
    BY <2>1, <2>4
  <2> DEFINE share == [weight |-> weight, total |-> total]
  <2>6. write_slots(p, key, type) = share
    BY <1>3 DEF write_slots, rows, total, weight, n, begin
  <2>7. Shares(share, n)
    <3>1. total > 0
      BY <1>3, <2>4, RowsAssumption
    <3> QED
      BY <2>2, <2>5, <3>1 DEF Shares, total
  <2> QED
    BY <1>1, <2>6, <2>7
<1>4. CASE ~(key \in DOMAIN rows /\ total > kEmptyRowTotal)
  <2> DEFINE ones == [i \in 1 .. n |-> 1]
  <2>1. SumFunctionOnSet(ones, 1 .. n) = 1 * Cardinality(1 .. n)
    BY <1>2, SumConstant
  <2>2. DOMAIN ones = 1 .. n /\ \A i \in 1 .. n : ones[i] = 1
    OBVIOUS
  <2>3. write_slots(p, key, type) = Uniform(n)
    BY <1>4 DEF write_slots, rows, total, weight, n, begin
  <2>4. Uniform(n) = [weight |-> ones, total |-> n]
    BY DEF Uniform
  <2> HIDE DEF ones
  <2> DEFINE fold == FoldSeq(+, 0, ones)
  <2>5. fold = SumFunctionOnSet(ones, 1 .. n)
    BY <2>2, FoldIsSum
  <2> HIDE DEF fold
  <2>6. fold = n
    BY <1>2, <2>1, <2>5
  <2> DEFINE share == [weight |-> ones, total |-> n]
  <2>7. /\ DOMAIN share.weight = 1 .. n
        /\ \A i \in 1 .. n : share.weight[i] \in 0 .. share.total
        /\ share.total > 0 /\ fold = share.total /\ share.weight = ones
    BY <1>2, <2>2, <2>6
  <2> HIDE DEF share
  <2>8. Shares(share, n)
    BY <2>7, Zenon DEF Shares, fold
  <2> QED
    BY <1>1, <2>3, <2>4, <2>8 DEF share
<1> QED
  BY <1>3, <1>4

\* As many actions are legal as the decision type has slots.
LEMMA ActionsHaveSlots ==
  ASSUME NEW s \in States, Good(s), is_decision(s)
  PROVE  /\ public_context_asserts(s)
         /\ s.raises_used \in 0 .. MaxRaises
         /\ DOMAIN legal_actions(s) = 1 .. (IF s.raises_used \in {0, 3} THEN 2 ELSE 3)
<1>1. s.raises_used \in 0 .. MaxRaises /\ (facing_bet(s) <=> s.raises_used > 0)
  BY RoundLength
<1>2. MaxRaises = 3
  BY Sizes
<1>3. s.raises_used \in {0, 1, 2, 3}
  BY <1>1, <1>2
<1>4. public_context_asserts(s)
  BY <1>1, <1>3 DEF public_context_asserts, facing_bet
<1>5. /\ \A a, b : DOMAIN <<a, b>> = 1 .. 2
      /\ \A a, b, c : DOMAIN <<a, b, c>> = 1 .. 3
  OBVIOUS
<1>6. CASE s.raises_used = 0
  <2>1. ~facing_bet(s)
    BY <1>1, <1>6
  <2>2. legal_actions(s) = <<kActionCallCheck, kActionRaise>>
    BY <2>1, Zenon DEF legal_actions, round_legal_actions
  <2> QED
    BY <1>1, <1>4, <1>5, <1>6, <2>2
<1>7. CASE s.raises_used \in {1, 2}
  <2>1. facing_bet(s) /\ s.raises_used < MaxRaises
    BY <1>1, <1>2, <1>7
  <2>2. legal_actions(s) = <<kActionFold, kActionCallCheck, kActionRaise>>
    BY <2>1, Zenon DEF legal_actions, round_legal_actions
  <2>3. ~(s.raises_used \in {0, 3})
    BY <1>7
  <2> QED
    BY <1>1, <1>4, <1>5, <2>2, <2>3
<1>8. CASE s.raises_used = 3
  <2>1. facing_bet(s) /\ ~(s.raises_used < MaxRaises)
    BY <1>1, <1>2, <1>8
  <2>2. legal_actions(s) = <<kActionFold, kActionCallCheck>>
    BY <2>1, Zenon DEF legal_actions, round_legal_actions
  <2> QED
    BY <1>1, <1>4, <1>5, <1>8, <2>2
<1> QED
  BY <1>1, <1>3, <1>4, <1>6, <1>7, <1>8

\* A hole card written for a probe is not seen in public.
LEMMA ProbeIsPublic ==
  ASSUME NEW s \in States, NEW p \in Player, NEW card \in Deck
  PROVE  /\ public_context(set_hole_card(s, p, card)) = public_context(s)
         /\ set_hole_card(s, p, card).hole_cards[p] = card
<1> DEFINE t == set_hole_card(s, p, card)
<1>1. /\ t.board_cards = s.board_cards /\ t.board_count = s.board_count
      /\ t.closing = s.closing /\ t.raises_used = s.raises_used
      /\ t.round_len = s.round_len /\ t.hole_cards = [s.hole_cards EXCEPT ![p] = card]
  BY DEF set_hole_card, States
<1>2. DOMAIN s.hole_cards = Player
  BY DEF States
<1> HIDE DEF t
<1>3. t.hole_cards[p] = card
  BY <1>1, <1>2
<1>4. public_context(t) = public_context(s)
  BY <1>1 DEF public_context
<1> QED
  BY <1>3, <1>4 DEF t

\* At every decision of every hand, for every file of this game, the answer
\* for a card is the strategy of a player who holds it, whatever the hole
\* cards in the State are, and it is a distribution over the legal actions.
THEOREM AnswersAreForEveryHand == Spec => []AnswersForEveryHand
<1>1. FInv => AnswersForEveryHand
  <2> SUFFICES ASSUME state \in States, Good(state), is_decision(state)
               PROVE  AnswersForEveryHand
    BY DEF FInv, IInv, TypeOK, AnswersForEveryHand
  <2> DEFINE player  == current_player(state)
             by_card == action_probabilities_by_card(state, player)
             context == public_context(state)
             R       == state.raises_used
             n       == IF R \in {0, 3} THEN 2 ELSE 3
             answer(card) == write_slots(player, key_for(context, gsi_card(card)), R)
             onboard == {state.board_cards[i] : i \in 0 .. state.board_count - 1}
  <2>1. /\ public_context_asserts(state) /\ R \in 0 .. MaxRaises
        /\ DOMAIN legal_actions(state) = 1 .. n
    BY ActionsHaveSlots
  <2>2. context.decision_type = R /\ context.acting_player = player
    BY ContextIs
  <2>3. player \in Player
    BY Seats DEF Good
  <2>4. by_card = [card \in {c \in Deck : ~Contains(context.boards, gsi_card(c))} |-> answer(card)]
    BY <2>2 DEF action_probabilities_by_card
  <2>5. DOMAIN by_card = Deck \ onboard
    <3>1. \A card \in Deck : Contains(context.boards, gsi_card(card)) <=> card \in onboard
      BY OnTheBoard DEF Good
    <3> HIDE DEF onboard, context, answer
    <3> QED
      BY <2>4, <3>1
  <2>6. ASSUME NEW card \in DOMAIN by_card
        PROVE  /\ by_card[card] = action_probabilities(set_hole_card(state, player, card))
               /\ Shares(by_card[card], n)
    <3>1. card \in Deck /\ by_card[card] = answer(card)
      BY <2>4, <2>5, <2>6
    <3> DEFINE t == set_hole_card(state, player, card)
    <3>2. public_context(t) = context /\ t.hole_cards[player] = card
      BY <2>3, <3>1, ProbeIsPublic
    <3> HIDE DEF t, context, by_card
    <3>3. action_probabilities(t) = answer(card)
      BY <2>2, <3>2 DEF action_probabilities
    <3>4. Shares(answer(card), n)
      BY <2>1, <2>3, SlotsAreShares
    <3> QED
      BY <3>1, <3>3, <3>4 DEF t
  <2> HIDE DEF by_card, n, onboard
  <2>7. ASSUME NEW card \in DOMAIN by_card
        PROVE  LET share == by_card[card]
               IN  /\ share = action_probabilities(set_hole_card(state, player, card))
                   /\ DOMAIN share.weight = DOMAIN legal_actions(state)
                   /\ \A i \in DOMAIN share.weight : share.weight[i] \in 0 .. share.total
                   /\ share.total > 0 /\ FoldSeq(+, 0, share.weight) = share.total
    BY <2>1, <2>6 DEF Shares
  <2> QED
    BY <2>1, <2>5, <2>7 DEF AnswersForEveryHand, by_card, onboard
<1> QED
  BY <1>1, ValuesStayFresh, PTL

-----------------------------------------------------------------------------
(* The signal tree *)

\* How many cards there are, and ordered pairs of them.
N == kGsiCardCount
P == kHoleBoardPairCount

\* The cards of a node of one player's tree: one, two or three different ones.
Nodes(n) == {t \in [1 .. n -> GsiCard] : \A i, j \in 1 .. n : t[i] = t[j] => i = j}
AllNodes == Nodes(1) \cup Nodes(2) \cup Nodes(3)

LEMMA TreeSizes ==
  /\ N \in Nat /\ N >= 3 /\ P \in Nat /\ P = (N - 1) * N /\ GsiCard = 0 .. N - 1
  /\ kSignalLevel3Base = N + P /\ kGsiOnePlayerSignalNodeCount = N + P + (N - 2) * P
<1>1. kGsiRankCount \in Nat /\ kGsiSuitCount \in Nat /\ kGsiRankCount * kGsiSuitCount >= 3
  BY GsiSizesAssumption
<1>2. N \in Nat /\ N >= 3
  BY <1>1 DEF N, kGsiCardCount
<1>3. P = N * (N - 1)
  BY DEF P, N, kHoleBoardPairCount
<1>4. P \in Nat /\ P = (N - 1) * N
  BY <1>2, <1>3
<1>5. kGsiOnePlayerSignalNodeCount = N + P + P * (N - 2) /\ kSignalLevel3Base = N + P
  BY DEF kGsiOnePlayerSignalNodeCount, kSignalLevel3Base, N, P
<1>6. P * (N - 2) = (N - 2) * P
  BY <1>2, <1>4
<1> QED
  BY <1>2, <1>4, <1>5, <1>6 DEF GsiCard, N

\* The first board card counts the cards without the hole card.
LEMMA FirstShift ==
  ASSUME NEW h \in GsiCard
  PROVE  /\ \A b \in GsiCard : b # h => shifted_board0(h, b) \in 0 .. N - 2
         /\ \A b, c \in GsiCard : b # h /\ c # h /\ shifted_board0(h, b) = shifted_board0(h, c)
                                    => b = c
         /\ \A k \in 0 .. N - 2 : \E b \in GsiCard : b # h /\ shifted_board0(h, b) = k
<1>1. N \in Nat /\ N >= 3 /\ GsiCard = 0 .. N - 1
  BY TreeSizes
<1>2. ASSUME NEW k \in 0 .. N - 2
      PROVE  \E b \in GsiCard : b # h /\ shifted_board0(h, b) = k
  <2> DEFINE b == IF k >= h THEN k + 1 ELSE k
  <2>1. b \in GsiCard /\ b # h /\ shifted_board0(h, b) = k
    BY <1>1 DEF shifted_board0
  <2> QED
    BY <2>1
<1> QED
  BY <1>1, <1>2 DEF shifted_board0

\* The second one counts those without both.
LEMMA SecondShift ==
  ASSUME NEW h \in GsiCard, NEW b \in GsiCard, h # b
  PROVE  /\ \A c \in GsiCard : c # h /\ c # b => shifted_board1(h, b, c) \in 0 .. N - 3
         /\ \A c, d \in GsiCard :
              c # h /\ c # b /\ d # h /\ d # b /\ shifted_board1(h, b, c) = shifted_board1(h, b, d)
                => c = d
         /\ \A k \in 0 .. N - 3 :
              \E c \in GsiCard : c # h /\ c # b /\ shifted_board1(h, b, c) = k
<1>1. N \in Nat /\ N >= 3 /\ GsiCard = 0 .. N - 1
  BY TreeSizes
<1>2. ASSUME NEW k \in 0 .. N - 3
      PROVE  \E c \in GsiCard : c # h /\ c # b /\ shifted_board1(h, b, c) = k
  <2> DEFINE low  == IF h < b THEN h ELSE b
             high == IF h < b THEN b ELSE h
             c    == IF k < low THEN k ELSE IF k + 1 < high THEN k + 1 ELSE k + 2
  <2>1. c \in GsiCard /\ c # h /\ c # b /\ shifted_board1(h, b, c) = k
    BY <1>1 DEF shifted_board1
  <2> QED
    BY <2>1
<1>3. \A c \in GsiCard : c # h /\ c # b => shifted_board1(h, b, c) \in 0 .. N - 3
  BY <1>1 DEF shifted_board1
<1>4. \A c, d \in GsiCard :
        c # h /\ c # b /\ d # h /\ d # b /\ shifted_board1(h, b, c) = shifted_board1(h, b, d)
          => c = d
  BY <1>1 DEF shifted_board1
<1> QED
  BY <1>2, <1>3, <1>4

\* Places among the pairs and among the triples, counted from zero.
PairPlace(h, b)    == shifted_board0(h, b) * N + h
DealPlace(h, b, c) == shifted_board1(h, b, c) * P + PairPlace(h, b)

LEMMA PairPlaces ==
  /\ \A h, b \in GsiCard : h # b =>
       PairPlace(h, b) \in 0 .. P - 1 /\ pair_index(h, b) = N + 1 + PairPlace(h, b)
  /\ \A h, b, g, a \in GsiCard : h # b /\ g # a /\ PairPlace(h, b) = PairPlace(g, a)
                                   => h = g /\ b = a
  /\ \A k \in 0 .. P - 1 : \E h, b \in GsiCard : h # b /\ PairPlace(h, b) = k
<1>1. N \in Nat /\ N >= 3 /\ GsiCard = 0 .. N - 1 /\ P \in Nat /\ P = (N - 1) * N
  BY TreeSizes
<1>2. ASSUME NEW h \in GsiCard, NEW b \in GsiCard, h # b
      PROVE  /\ PairPlace(h, b) \in 0 .. P - 1 /\ pair_index(h, b) = N + 1 + PairPlace(h, b)
             /\ PairPlace(h, b) \div N = shifted_board0(h, b) /\ PairPlace(h, b) % N = h
  <2> DEFINE s == shifted_board0(h, b)
  <2> HIDE DEF s
  <2>1. s \in 0 .. (N - 1) - 1 /\ s \in Nat /\ N - 1 \in Nat /\ h \in 0 .. N - 1
    <3>1. s \in 0 .. N - 2
      BY <1>2, FirstShift DEF s
    <3> QED
      BY <1>1, <3>1
  <2>2. s * N + h \in 0 .. (N - 1) * N - 1
    BY <1>1, <2>1, MixedRadix
  <2>3. (s * N + h) \div N = s /\ (s * N + h) % N = h
    BY <1>1, <2>1, DivMod
  <2>4. pair_index(h, b) = N + N * s + (1 + h)
    BY Zenon DEF pair_index, hole_index, N, s
  <2>5. N * s = s * N /\ s * N \in Nat
    BY <1>1, <2>1
  <2>6. pair_index(h, b) = N + 1 + (s * N + h)
    BY <1>1, <2>1, <2>4, <2>5
  <2>7. PairPlace(h, b) = s * N + h
    BY DEF PairPlace, s
  <2> QED
    BY <1>1, <2>2, <2>3, <2>6, <2>7 DEF s
<1>3. ASSUME NEW h \in GsiCard, NEW b \in GsiCard, NEW g \in GsiCard, NEW a \in GsiCard,
             h # b, g # a, PairPlace(h, b) = PairPlace(g, a)
      PROVE  h = g /\ b = a
  <2>1. h = g /\ shifted_board0(h, b) = shifted_board0(h, a)
    BY <1>2, <1>3
  <2> QED
    BY <1>3, <2>1, FirstShift
<1>4. ASSUME NEW k \in 0 .. P - 1
      PROVE  \E h, b \in GsiCard : h # b /\ PairPlace(h, b) = k
  <2> DEFINE q == k \div N
             h == k % N
  <2>1. q \in Int /\ h \in 0 .. N - 1 /\ k = N * q + h
    BY <1>1
  <2> HIDE DEF q, h
  <2>2. N * q = q * N
    BY <1>1, <2>1
  <2>3. q >= 0
    <3> SUFFICES ASSUME q <= -1 PROVE FALSE
      BY <2>1
    <3>1. q * N <= -1 * N
      BY <1>1, <2>1
    <3> QED
      BY <1>1, <2>1, <2>2, <3>1
  <2>4. q <= N - 2
    <3> SUFFICES ASSUME q >= N - 1 PROVE FALSE
      BY <1>1, <2>1
    <3>1. q * N >= (N - 1) * N
      BY <1>1, <2>1
    <3> QED
      BY <1>1, <2>1, <2>2, <3>1
  <2>5. h \in GsiCard /\ q \in 0 .. N - 2
    BY <1>1, <2>1, <2>3, <2>4
  <2>6. PICK b \in GsiCard : b # h /\ shifted_board0(h, b) = q
    BY <2>5, FirstShift
  <2>7. PairPlace(h, b) = k
    BY <2>1, <2>2, <2>6 DEF PairPlace
  <2> QED
    BY <2>5, <2>6, <2>7
<1> QED
  BY <1>2, <1>3, <1>4

LEMMA DealPlaces ==
  /\ \A h, b, c \in GsiCard : h # b /\ c # h /\ c # b =>
       /\ DealPlace(h, b, c) \in 0 .. (N - 2) * P - 1
       /\ deal_index(h, b, c) = N + P + 1 + DealPlace(h, b, c)
  /\ \A h, b, c, g, a, d \in GsiCard :
       /\ h # b /\ c # h /\ c # b
       /\ g # a /\ d # g /\ d # a
       /\ DealPlace(h, b, c) = DealPlace(g, a, d)
       => h = g /\ b = a /\ c = d
  /\ \A k \in 0 .. (N - 2) * P - 1 :
       \E h, b, c \in GsiCard : h # b /\ c # h /\ c # b /\ DealPlace(h, b, c) = k
<1>1. N \in Nat /\ N >= 3 /\ GsiCard = 0 .. N - 1 /\ P \in Nat /\ P = (N - 1) * N
  BY TreeSizes
<1>2. P >= 1
  BY <1>1
<1>3. ASSUME NEW h \in GsiCard, NEW b \in GsiCard, NEW c \in GsiCard, h # b, c # h, c # b
      PROVE  /\ DealPlace(h, b, c) \in 0 .. (N - 2) * P - 1
             /\ deal_index(h, b, c) = N + P + 1 + DealPlace(h, b, c)
             /\ DealPlace(h, b, c) \div P = shifted_board1(h, b, c)
             /\ DealPlace(h, b, c) % P = PairPlace(h, b)
  <2> DEFINE s == shifted_board1(h, b, c)
             v == PairPlace(h, b)
  <2> HIDE DEF s, v
  <2>1. s \in 0 .. (N - 2) - 1 /\ s \in Nat /\ N - 2 \in Nat
    <3>1. s \in 0 .. N - 3
      BY <1>3, SecondShift DEF s
    <3> QED
      BY <1>1, <3>1
  <2>2. v \in 0 .. P - 1 /\ pair_index(h, b) = N + 1 + v
    BY <1>3, PairPlaces DEF v
  <2>3. s * P + v \in 0 .. (N - 2) * P - 1
    BY <1>1, <2>1, <2>2, MixedRadix
  <2>4. (s * P + v) \div P = s /\ (s * P + v) % P = v
    BY <1>1, <2>1, <2>2, DivMod
  <2>5. deal_index(h, b, c) = kSignalLevel3Base + P * s + (pair_index(h, b) - N)
    BY Zenon DEF deal_index, N, P, s
  <2>6. P * s = s * P /\ s * P \in Nat
    BY <1>1, <2>1
  <2>7. deal_index(h, b, c) = N + P + 1 + (s * P + v)
    BY <1>1, <2>2, <2>5, <2>6, TreeSizes
  <2>8. DealPlace(h, b, c) = s * P + v
    BY DEF DealPlace, s, v
  <2> QED
    BY <2>3, <2>4, <2>7, <2>8 DEF s, v
<1>4. ASSUME NEW h \in GsiCard, NEW b \in GsiCard, NEW c \in GsiCard,
             NEW g \in GsiCard, NEW a \in GsiCard, NEW d \in GsiCard,
             h # b, c # h, c # b, g # a, d # g, d # a,
             DealPlace(h, b, c) = DealPlace(g, a, d)
      PROVE  h = g /\ b = a /\ c = d
  <2>1. PairPlace(h, b) = PairPlace(g, a)
    <3>1. DealPlace(h, b, c) % P = PairPlace(h, b) /\ DealPlace(g, a, d) % P = PairPlace(g, a)
      BY <1>3, <1>4
    <3> QED
      BY <1>4, <3>1
  <2>2. h = g /\ b = a
    BY <1>4, <2>1, PairPlaces
  <2>3. shifted_board1(h, b, c) = shifted_board1(h, b, d)
    <3>1. /\ DealPlace(h, b, c) \div P = shifted_board1(h, b, c)
          /\ DealPlace(g, a, d) \div P = shifted_board1(g, a, d)
      BY <1>3, <1>4
    <3> QED
      BY <1>4, <2>2, <3>1
  <2> QED
    BY <1>4, <2>2, <2>3, SecondShift
<1>5. ASSUME NEW k \in 0 .. (N - 2) * P - 1
      PROVE  \E h, b, c \in GsiCard : h # b /\ c # h /\ c # b /\ DealPlace(h, b, c) = k
  <2> DEFINE q == k \div P
             v == k % P
             n == N - 2
  <2>1. k \in Nat /\ k < n * P /\ n \in Nat
    <3>1. n \in Nat /\ n * P \in Nat
      BY <1>1
    <3> HIDE DEF n
    <3> QED
      BY <3>1 DEF n
  <2>2. q \in Int /\ v \in 0 .. P - 1 /\ k = P * q + v
    BY <1>1, <1>2, <2>1
  <2> HIDE DEF q, v, n
  <2>3. P * q = q * P
    BY <1>1, <2>2
  <2>4. q >= 0
    <3> SUFFICES ASSUME q <= -1 PROVE FALSE
      BY <2>2
    <3>1. q * P <= -1 * P
      BY <1>1, <2>2
    <3> QED
      BY <1>1, <2>1, <2>2, <2>3, <3>1
  <2>5. q <= n - 1
    <3> SUFFICES ASSUME q >= n PROVE FALSE
      BY <2>1, <2>2
    <3>1. q * P >= n * P
      BY <1>1, <2>1, <2>2
    <3> DEFINE x == q * P
               y == n * P
    <3>2. x \in Int /\ y \in Int /\ x >= y /\ k < y /\ k = x + v
      BY <1>1, <2>1, <2>2, <2>3, <3>1
    <3> HIDE DEF x, y
    <3> QED
      BY <2>2, <3>2
  <2>6. q \in 0 .. N - 3
    BY <1>1, <2>2, <2>4, <2>5 DEF n
  <2>7. PICK h \in GsiCard, b \in GsiCard : h # b /\ PairPlace(h, b) = v
    BY <2>2, PairPlaces
  <2>8. PICK c \in GsiCard : c # h /\ c # b /\ shifted_board1(h, b, c) = q
    BY <2>6, <2>7, SecondShift
  <2>9. DealPlace(h, b, c) = k
    BY <2>2, <2>3, <2>7, <2>8 DEF DealPlace
  <2> QED
    BY <2>7, <2>8, <2>9
<1> QED
  BY <1>3, <1>4, <1>5

\* The class of a hole card, pair or triple is kept at the node signal_index
\* names.  Whatever the size of the deck, different cards have different
\* nodes, and the nodes are just those of the table: no class is written over
\* another, outside of the table, or nowhere.
THEOREM NodesAreNumbered ==
  /\ \A t \in AllNodes : signal_index(t) \in 1 .. kGsiOnePlayerSignalNodeCount
  /\ \A t, u \in AllNodes : signal_index(t) = signal_index(u) => t = u
  /\ \A k \in 1 .. kGsiOnePlayerSignalNodeCount : \E t \in AllNodes : signal_index(t) = k
<1> DEFINE D == (N - 2) * P
<1>1. /\ N \in Nat /\ N >= 3 /\ GsiCard = 0 .. N - 1 /\ P \in Nat /\ D \in Nat
      /\ kGsiOnePlayerSignalNodeCount = N + P + D
  BY TreeSizes
<1> HIDE DEF D
<1>2. ASSUME NEW t \in Nodes(1)
      PROVE  /\ t = <<t[1]>> /\ t[1] \in GsiCard
             /\ signal_index(t) = 1 + t[1] /\ signal_index(t) \in 1 .. N
  <2>1. t = <<t[1]>> /\ t[1] \in GsiCard /\ Len(t) = 1
    BY DEF Nodes
  <2>2. signal_index(t) = 1 + t[1]
    BY <2>1 DEF signal_index, hole_index
  <2> QED
    BY <1>1, <2>1, <2>2
<1>3. ASSUME NEW t \in Nodes(2)
      PROVE  /\ t = <<t[1], t[2]>> /\ t[1] \in GsiCard /\ t[2] \in GsiCard /\ t[1] # t[2]
             /\ PairPlace(t[1], t[2]) \in 0 .. P - 1
             /\ signal_index(t) = N + 1 + PairPlace(t[1], t[2])
             /\ signal_index(t) \in N + 1 .. N + P
  <2>1. /\ t = <<t[1], t[2]>> /\ t[1] \in GsiCard /\ t[2] \in GsiCard /\ t[1] # t[2]
        /\ Len(t) = 2
    BY DEF Nodes
  <2>2. signal_index(t) = pair_index(t[1], t[2])
    BY <2>1 DEF signal_index
  <2>3. /\ PairPlace(t[1], t[2]) \in 0 .. P - 1
        /\ signal_index(t) = N + 1 + PairPlace(t[1], t[2])
    BY <2>1, <2>2, PairPlaces
  <2> QED
    BY <1>1, <2>1, <2>3
<1>4. ASSUME NEW t \in Nodes(3)
      PROVE  /\ t = <<t[1], t[2], t[3]>>
             /\ t[1] \in GsiCard /\ t[2] \in GsiCard /\ t[3] \in GsiCard
             /\ t[1] # t[2] /\ t[3] # t[1] /\ t[3] # t[2]
             /\ DealPlace(t[1], t[2], t[3]) \in 0 .. D - 1
             /\ signal_index(t) = N + P + 1 + DealPlace(t[1], t[2], t[3])
             /\ signal_index(t) \in N + P + 1 .. N + P + D
  <2>1. /\ t = <<t[1], t[2], t[3]>>
        /\ t[1] \in GsiCard /\ t[2] \in GsiCard /\ t[3] \in GsiCard
        /\ t[1] # t[2] /\ t[3] # t[1] /\ t[3] # t[2] /\ Len(t) = 3
    BY DEF Nodes
  <2>2. signal_index(t) = deal_index(t[1], t[2], t[3])
    BY <2>1 DEF signal_index
  <2>3. /\ DealPlace(t[1], t[2], t[3]) \in 0 .. D - 1
        /\ signal_index(t) = N + P + 1 + DealPlace(t[1], t[2], t[3])
    BY <2>1, <2>2, DealPlaces DEF D
  <2> QED
    BY <1>1, <2>1, <2>3
<1>5. \A t \in AllNodes : signal_index(t) \in 1 .. N + P + D
  <2>1. 1 .. N \subseteq 1 .. N + P + D /\ N + 1 .. N + P \subseteq 1 .. N + P + D
        /\ N + P + 1 .. N + P + D \subseteq 1 .. N + P + D
    BY <1>1
  <2> QED
    BY <1>2, <1>3, <1>4, <2>1 DEF AllNodes
<1>6. ASSUME NEW t \in AllNodes, NEW u \in AllNodes, signal_index(t) = signal_index(u)
      PROVE  t = u
  <2> DEFINE i == signal_index(t)
  <2>1. /\ t \in Nodes(1) => i \in 1 .. N
        /\ t \in Nodes(2) => i \in N + 1 .. N + P
        /\ t \in Nodes(3) => i \in N + P + 1 .. N + P + D
        /\ u \in Nodes(1) => i \in 1 .. N
        /\ u \in Nodes(2) => i \in N + 1 .. N + P
        /\ u \in Nodes(3) => i \in N + P + 1 .. N + P + D
    BY <1>2, <1>3, <1>4, <1>6
  <2> HIDE DEF i
  <2>2. \/ t \in Nodes(1) /\ u \in Nodes(1)
        \/ t \in Nodes(2) /\ u \in Nodes(2)
        \/ t \in Nodes(3) /\ u \in Nodes(3)
    <3>1. /\ ~(i \in 1 .. N /\ i \in N + 1 .. N + P)
          /\ ~(i \in 1 .. N /\ i \in N + P + 1 .. N + P + D)
          /\ ~(i \in N + 1 .. N + P /\ i \in N + P + 1 .. N + P + D)
      BY <1>1
    <3> QED
      BY <2>1, <3>1, Zenon DEF AllNodes
  <2>3. CASE t \in Nodes(1) /\ u \in Nodes(1)
    <3>1. t[1] = u[1]
      BY <1>1, <1>2, <1>6, <2>3
    <3> QED
      BY <1>2, <2>3, <3>1
  <2>4. CASE t \in Nodes(2) /\ u \in Nodes(2)
    <3>1. PairPlace(t[1], t[2]) = PairPlace(u[1], u[2])
      BY <1>1, <1>3, <1>6, <2>4
    <3>2. t[1] = u[1] /\ t[2] = u[2]
      BY <1>3, <2>4, <3>1, PairPlaces
    <3> QED
      BY <1>3, <2>4, <3>2
  <2>5. CASE t \in Nodes(3) /\ u \in Nodes(3)
    <3>1. DealPlace(t[1], t[2], t[3]) = DealPlace(u[1], u[2], u[3])
      BY <1>1, <1>4, <1>6, <2>5
    <3>2. /\ t[1] \in GsiCard /\ t[2] \in GsiCard /\ t[3] \in GsiCard
          /\ t[1] # t[2] /\ t[3] # t[1] /\ t[3] # t[2] /\ t = <<t[1], t[2], t[3]>>
          /\ u[1] \in GsiCard /\ u[2] \in GsiCard /\ u[3] \in GsiCard
          /\ u[1] # u[2] /\ u[3] # u[1] /\ u[3] # u[2] /\ u = <<u[1], u[2], u[3]>>
      BY <1>4, <2>5, Zenon
    <3>3. t[1] = u[1] /\ t[2] = u[2] /\ t[3] = u[3]
      <4> DEFINE place(h, b, c) == DealPlace(h, b, c)
      <4>1. \A h, b, c, g, a, d \in GsiCard :
              /\ h # b /\ c # h /\ c # b
              /\ g # a /\ d # g /\ d # a
              /\ place(h, b, c) = place(g, a, d)
              => h = g /\ b = a /\ c = d
        BY DealPlaces
      <4>2. place(t[1], t[2], t[3]) = place(u[1], u[2], u[3])
        BY <3>1
      <4> HIDE DEF place
      <4> QED
        BY <3>2, <4>1, <4>2
    <3> QED
      BY <3>2, <3>3
  <2> QED
    BY <2>2, <2>3, <2>4, <2>5
<1>7. ASSUME NEW k \in 1 .. N + P + D
      PROVE  \E t \in AllNodes : signal_index(t) = k
  <2>1. CASE k \in 1 .. N
    <3> DEFINE t == <<k - 1>>
    <3>1. t \in Nodes(1) /\ t[1] = k - 1
      BY <1>1, <2>1 DEF Nodes
    <3>2. signal_index(t) = k
      <4> HIDE DEF t
      <4> QED
        BY <1>2, <2>1, <3>1
    <3> QED
      BY <3>1, <3>2 DEF AllNodes
  <2>2. CASE k \in N + 1 .. N + P
    <3>1. k - N - 1 \in 0 .. P - 1
      BY <1>1, <2>2
    <3>2. PICK h \in GsiCard, b \in GsiCard : h # b /\ PairPlace(h, b) = k - N - 1
      BY <3>1, PairPlaces
    <3> DEFINE t == <<h, b>>
    <3>3. t \in Nodes(2) /\ t[1] = h /\ t[2] = b
      BY <3>2 DEF Nodes
    <3>4. signal_index(t) = k
      <4> HIDE DEF t
      <4> QED
        BY <1>1, <1>3, <2>2, <3>2, <3>3
    <3> QED
      BY <3>3, <3>4 DEF AllNodes
  <2>3. CASE k \in N + P + 1 .. N + P + D
    <3>1. k - N - P - 1 \in 0 .. D - 1
      BY <1>1, <2>3
    <3>2. PICK h \in GsiCard, b \in GsiCard, c \in GsiCard :
            h # b /\ c # h /\ c # b /\ DealPlace(h, b, c) = k - N - P - 1
      BY <3>1, DealPlaces DEF D
    <3> DEFINE t == <<h, b, c>>
    <3>3. t \in Nodes(3) /\ t[1] = h /\ t[2] = b /\ t[3] = c
      BY <3>2 DEF Nodes
    <3>4. signal_index(t) = k
      <4> HIDE DEF t
      <4>1. signal_index(t) = N + P + 1 + DealPlace(t[1], t[2], t[3])
        BY <1>4, <3>3
      <4>2. DealPlace(t[1], t[2], t[3]) = k - N - P - 1
        BY <3>2, <3>3
      <4> QED
        BY <1>1, <2>3, <4>1, <4>2
    <3> QED
      BY <3>3, <3>4 DEF AllNodes
  <2> QED
    BY <1>1, <2>1, <2>2, <2>3
<1> QED
  BY <1>1, <1>5, <1>6, <1>7

-----------------------------------------------------------------------------
(* The order of the partition *)

\* The nodes of the partition are those of the tree.
LEMMA NodesAre ==
  /\ Node = AllNodes
  /\ \A t \in Node : /\ t \in Seq(GsiCard) /\ Len(t) \in 1 .. 3
                     /\ \A i, j \in 1 .. Len(t) : t[i] = t[j] => i = j
<1>1. ASSUME NEW n \in 1 .. 3
      PROVE  Nodes(n) = {cards \in [1 .. n -> GsiCard] : IsInjective(cards)}
  <2>1. ASSUME NEW t \in [1 .. n -> GsiCard]
        PROVE  IsInjective(t) <=> \A i, j \in 1 .. n : t[i] = t[j] => i = j
    BY DEF IsInjective
  <2> QED
    BY <2>1 DEF Nodes
<1>2. Node = AllNodes
  <2>1. Node = UNION {Nodes(n) : n \in 1 .. 3}
    BY <1>1 DEF Node
  <2>2. 1 .. 3 = {1, 2, 3}
    OBVIOUS
  <2> QED
    BY <2>1, <2>2 DEF AllNodes
<1>3. ASSUME NEW t \in Node
      PROVE  /\ t \in Seq(GsiCard) /\ Len(t) \in 1 .. 3
             /\ \A i, j \in 1 .. Len(t) : t[i] = t[j] => i = j
  <2>1. PICK n \in 1 .. 3 : t \in Nodes(n)
    BY <1>2 DEF AllNodes
  <2> QED
    BY <2>1 DEF Nodes
<1> QED
  BY <1>2, <1>3

\* Different injective sequences of cards, as nodes.
LEMMA IsNode ==
  ASSUME NEW t, NEW n \in 1 .. 3, t \in [1 .. n -> GsiCard],
         \A i, j \in 1 .. n : t[i] = t[j] => i = j
  PROVE  t \in Node
<1>1. IsInjective(t)
  BY DEF IsInjective
<1> QED
  BY <1>1 DEF Node

\* The entries of a node that are cards come first, then the -1 of no card.
LEMMA CardsAt ==
  ASSUME NEW t \in Node, NEW i \in 1 .. 3
  PROVE  /\ CardAt(t, i) \in Int /\ CardAt(t, i) >= -1
         /\ i \in DOMAIN t <=> i <= Len(t)
         /\ i <= Len(t) <=> CardAt(t, i) >= 0
         /\ i <= Len(t) => CardAt(t, i) = t[i] /\ t[i] \in GsiCard
         /\ i > Len(t) => CardAt(t, i) = -1
<1>1. t \in Seq(GsiCard) /\ Len(t) \in 1 .. 3
  BY NodesAre
<1>2. GsiCard = 0 .. N - 1 /\ N \in Nat
  BY TreeSizes
<1> QED
  BY <1>1, <1>2 DEF CardAt

\* Being listed before is a strict order.
LEMMA ListedIsStrict ==
  /\ \A t \in Node : ~Listed(t, t)
  /\ \A t, u, v \in Node : Listed(t, u) /\ Listed(u, v) => Listed(t, v)
<1>1. ASSUME NEW t \in Node PROVE ~Listed(t, t)
  BY CardsAt DEF Listed
<1>2. ASSUME NEW t \in Node, NEW u \in Node, NEW v \in Node, Listed(t, u), Listed(u, v)
      PROVE  Listed(t, v)
  <2>1. \A i \in 1 .. 3 : CardAt(t, i) \in Int /\ CardAt(u, i) \in Int /\ CardAt(v, i) \in Int
    BY CardsAt
  <2>2. PICK n \in 1 .. 3 : /\ CardAt(t, n) < CardAt(u, n)
                            /\ \A i \in 1 .. n - 1 : CardAt(t, i) = CardAt(u, i)
    BY <1>2 DEF Listed
  <2>3. PICK m \in 1 .. 3 : /\ CardAt(u, m) < CardAt(v, m)
                            /\ \A i \in 1 .. m - 1 : CardAt(u, i) = CardAt(v, i)
    BY <1>2 DEF Listed
  <2>4. CASE n <= m
    <3>1. \A i \in 1 .. n - 1 : CardAt(t, i) = CardAt(v, i)
      BY <2>2, <2>3, <2>4
    <3>2. CardAt(t, n) < CardAt(v, n)
      BY <2>1, <2>2, <2>3, <2>4
    <3> QED
      BY <3>1, <3>2 DEF Listed
  <2>5. CASE m < n
    <3>1. \A i \in 1 .. m - 1 : CardAt(t, i) = CardAt(v, i)
      BY <2>2, <2>3, <2>5
    <3>2. CardAt(t, m) < CardAt(v, m)
      BY <2>1, <2>2, <2>3, <2>5
    <3> QED
      BY <3>1, <3>2 DEF Listed
  <2> QED
    BY <2>4, <2>5
<1> QED
  BY <1>1, <1>2

\* The cards a loop at depth n has not come to, once the outer ones are at t.
Left(t, n) == {card \in GsiCard : /\ n \in DOMAIN t => card > t[n]
                                  /\ \A i \in 1 .. n - 1 : card # t[i]}
Going(t) == {n \in 1 .. 3 : n <= Len(t) + 1 /\ Left(t, n) # {}}

\* A node listed after t first differs from it where a loop has cards left.
LEMMA LaterDiffers ==
  ASSUME NEW t \in Node, NEW v \in Node, NEW n \in 1 .. 3, CardAt(t, n) < CardAt(v, n),
         \A i \in 1 .. n - 1 : CardAt(t, i) = CardAt(v, i)
  PROVE  n \in Going(t) /\ n <= Len(v) /\ v[n] \in Left(t, n)
<1>1. /\ t \in Seq(GsiCard) /\ Len(t) \in 1 .. 3
      /\ v \in Seq(GsiCard) /\ Len(v) \in 1 .. 3
      /\ \A i, j \in 1 .. Len(v) : v[i] = v[j] => i = j
  BY NodesAre
<1>2. n <= Len(v) /\ v[n] \in GsiCard /\ CardAt(v, n) = v[n]
  BY CardsAt
<1>3. n <= Len(t) + 1
  <2> SUFFICES ASSUME n > Len(t) + 1 PROVE FALSE
    BY <1>1
  <2>1. n - 1 \in 1 .. 3 /\ n - 1 > Len(t) /\ n - 1 <= Len(v)
    BY <1>1, <1>2
  <2>2. CardAt(t, n - 1) = -1 /\ CardAt(v, n - 1) >= 0
    BY <2>1, CardsAt
  <2> QED
    BY <2>1, <2>2
<1>4. n \in DOMAIN t => v[n] > t[n]
  BY <1>2, CardsAt
<1>5. ASSUME NEW i \in 1 .. n - 1 PROVE v[n] # t[i]
  <2>1. i \in 1 .. 3 /\ i <= Len(t) /\ i <= Len(v) /\ i # n
    BY <1>1, <1>2, <1>3
  <2>2. t[i] = v[i]
    BY <2>1, CardsAt
  <2> QED
    BY <1>1, <1>2, <2>1, <2>2
<1> QED
  BY <1>2, <1>3, <1>4, <1>5 DEF Going, Left

LEMMA MinIs ==
  ASSUME NEW S, S \subseteq Nat, S # {}
  PROVE  Min(S) \in S /\ \A y \in S : Min(S) <= y
<1>1. \E x \in S : \A y \in S : x <= y
  BY Least
<1> QED
  BY <1>1 DEF Min

LEMMA MaxIs ==
  ASSUME NEW S, S \subseteq 1 .. 3, S # {}
  PROVE  Max(S) \in S /\ \A y \in S : Max(S) >= y
<1>1. \E x \in S : \A y \in S : x >= y
  <2>1. CASE 3 \in S
    BY <2>1
  <2>2. CASE 3 \notin S /\ 2 \in S
    <3>1. \A y \in S : y \in {1, 2}
      BY <2>2
    <3> QED
      BY <2>2, <3>1
  <2>3. CASE 3 \notin S /\ 2 \notin S
    <3>1. \A y \in S : y = 1
      BY <2>3
    <3>2. PICK x \in S : x = 1
      BY <3>1
    <3> QED
      BY <3>1, <3>2
  <2> QED
    BY <2>1, <2>2, <2>3
<1> QED
  BY <1>1 DEF Max

\* The loops come from a node to the one listed next, and end after the last.
LEMMA NextVisitIs ==
  ASSUME NEW t \in Node
  PROVE  \/ /\ next_visit(t) = << >>
            /\ \A v \in Node : ~Listed(t, v)
         \/ /\ next_visit(t) \in Node /\ Listed(t, next_visit(t))
            /\ \A v \in Node : ~(Listed(t, v) /\ Listed(v, next_visit(t)))
<1>1. t \in Seq(GsiCard) /\ Len(t) \in 1 .. 3 /\ \A i, j \in 1 .. Len(t) : t[i] = t[j] => i = j
  BY NodesAre
<1>2. GsiCard = 0 .. N - 1 /\ N \in Nat
  BY TreeSizes
<1> DEFINE m == Max(Going(t))
           c == Min(Left(t, m))
           u == Append(SubSeq(t, 1, m - 1), c)
<1>3. next_visit(t) = IF Going(t) = {} THEN << >> ELSE u
  BY DEF next_visit, Going, Left
<1>4. CASE Going(t) = {}
  <2>1. ASSUME NEW v \in Node, Listed(t, v) PROVE FALSE
    <3>1. PICK n \in 1 .. 3 : /\ CardAt(t, n) < CardAt(v, n)
                              /\ \A i \in 1 .. n - 1 : CardAt(t, i) = CardAt(v, i)
      BY <2>1 DEF Listed
    <3> QED
      BY <3>1, <1>4, LaterDiffers
  <2> QED
    BY <1>3, <1>4, <2>1
<1>5. CASE Going(t) # {}
  <2>1. m \in Going(t) /\ \A n \in Going(t) : m >= n
    <3>1. Going(t) \subseteq 1 .. 3
      BY DEF Going
    <3> QED
      BY <1>5, <3>1, MaxIs
  <2>2. m \in 1 .. 3 /\ m <= Len(t) + 1 /\ Left(t, m) # {}
    BY <2>1 DEF Going
  <2>3. c \in Left(t, m) /\ \A d \in Left(t, m) : c <= d
    <3>1. Left(t, m) \subseteq Nat
      BY <1>2 DEF Left
    <3> HIDE DEF m
    <3> QED
      BY <2>2, <3>1, MinIs
  <2> HIDE DEF m, c
  <2>4. /\ c \in GsiCard /\ (m \in DOMAIN t => c > t[m])
        /\ \A i \in 1 .. m - 1 : c # t[i]
    BY <2>3 DEF Left
  <2>5. /\ u \in [1 .. m -> GsiCard] /\ u[m] = c /\ Len(u) = m
        /\ \A i \in 1 .. m - 1 : u[i] = t[i]
    <3> DEFINE b == SubSeq(t, 1, m - 1)
    <3>1. b \in Seq(GsiCard) /\ Len(b) = m - 1 /\ \A i \in 1 .. m - 1 : b[i] = t[i]
      BY <1>1, <2>2
    <3> HIDE DEF b
    <3>2. u = Append(b, c)
      BY DEF b
    <3> HIDE DEF u
    <3>3. Len(u) = m /\ u \in Seq(GsiCard) /\ u[m] = c
      BY <2>2, <2>4, <3>1, <3>2
    <3>4. \A i \in 1 .. m - 1 : u[i] = b[i]
      BY <2>2, <2>4, <3>1, <3>2
    <3> QED
      BY <2>2, <3>1, <3>3, <3>4
  <2> HIDE DEF u
  <2>6. u \in Node
    <3>1. ASSUME NEW i \in 1 .. m, NEW j \in 1 .. m, u[i] = u[j] PROVE i = j
      BY <1>1, <2>2, <2>4, <2>5, <3>1
    <3> QED
      BY <2>2, <2>5, <3>1, IsNode
  <2>7. /\ \A i \in 1 .. m - 1 : CardAt(t, i) = CardAt(u, i)
        /\ CardAt(u, m) = c /\ \A i \in 1 .. 3 : i > m => CardAt(u, i) = -1
    <3>1. ASSUME NEW i \in 1 .. m - 1 PROVE CardAt(t, i) = CardAt(u, i)
      <4>1. i \in 1 .. 3 /\ i <= Len(t) /\ i <= Len(u)
        BY <1>1, <2>2, <2>5
      <4> QED
        BY <4>1, <2>5, <2>6, CardsAt
    <3> QED
      BY <2>2, <2>5, <2>6, <3>1, CardsAt
  <2>8. CardAt(t, m) < c
    <3>1. CASE m \in DOMAIN t
      BY <3>1, <2>2, <2>4, CardsAt DEF CardAt
    <3>2. CASE m \notin DOMAIN t
      BY <3>2, <1>2, <2>2, <2>4 DEF CardAt
    <3> QED
      BY <3>1, <3>2
  <2>9. Listed(t, u)
    BY <2>2, <2>7, <2>8 DEF Listed
  <2>10. ASSUME NEW v \in Node, Listed(t, v), Listed(v, u) PROVE FALSE
    <3>1. PICK n \in 1 .. 3 : /\ CardAt(t, n) < CardAt(v, n)
                              /\ \A i \in 1 .. n - 1 : CardAt(t, i) = CardAt(v, i)
      BY <2>10 DEF Listed
    <3>2. PICK k \in 1 .. 3 : /\ CardAt(v, k) < CardAt(u, k)
                              /\ \A i \in 1 .. k - 1 : CardAt(v, i) = CardAt(u, i)
      BY <2>10 DEF Listed
    <3>3. n \in Going(t) /\ n <= Len(v) /\ v[n] \in Left(t, n)
      BY <3>1, LaterDiffers
    <3>4. n <= m
      BY <2>1, <3>3
    <3>5. \A i \in 1 .. 3 : CardAt(t, i) \in Int /\ CardAt(u, i) \in Int /\ CardAt(v, i) \in Int
      BY <2>6, CardsAt
    <3>6. CASE n < m
      <4>1. CardAt(t, n) = CardAt(u, n)
        BY <2>2, <2>7, <3>6
      <4>2. k <= n
        <5> SUFFICES ASSUME k > n PROVE FALSE
          OBVIOUS
        <5>1. CardAt(v, n) = CardAt(u, n)
          BY <3>2
        <5> QED
          BY <3>1, <3>5, <4>1, <5>1
      <4>3. k = n
        <5> SUFFICES ASSUME k < n PROVE FALSE
          BY <4>2
        <5>1. CardAt(t, k) = CardAt(v, k) /\ CardAt(t, k) = CardAt(u, k)
          BY <2>2, <2>7, <3>1, <3>6
        <5> QED
          BY <3>2, <3>5, <5>1
      <4> QED
        BY <3>1, <3>2, <3>5, <4>1, <4>3
    <3>7. CASE n = m
      <4>1. v[m] \in Left(t, m) /\ v[m] >= c /\ CardAt(v, m) = v[m] /\ v[m] \in GsiCard
        BY <2>3, <3>3, <3>7, CardsAt
      <4>2. k >= m
        <5> SUFFICES ASSUME k < m PROVE FALSE
          BY <2>2
        <5>1. CardAt(t, k) = CardAt(v, k) /\ CardAt(t, k) = CardAt(u, k)
          BY <2>2, <2>7, <3>1, <3>7
        <5> QED
          BY <3>2, <3>5, <5>1
      <4>3. k > m
        <5> SUFFICES ASSUME k = m PROVE FALSE
          BY <2>2, <4>2
        <5>1. CardAt(v, m) < c
          BY <2>7, <3>2
        <5> QED
          BY <1>2, <2>4, <4>1, <5>1
      <4>4. CardAt(u, k) = -1 /\ CardAt(v, k) >= -1
        BY <2>7, <4>3, CardsAt
      <4> QED
        BY <3>2, <3>5, <4>4
    <3> QED
      BY <2>2, <3>4, <3>6, <3>7
  <2> QED
    BY <1>3, <1>5, <2>6, <2>9, <2>10
<1> QED
  BY <1>4, <1>5

-----------------------------------------------------------------------------
(* The loops and the lines of the partition *)

\* The lines of the partition.
LineCount    == Len(Partition)
LineCards(i) == Partition[i].cards
LineClass(i) == Partition[i].class

LEMMA LinesAre ==
  /\ LineCount \in Nat
  /\ DOMAIN Partition = 1 .. LineCount
  /\ \A i \in 1 .. LineCount : LineCards(i) \in Node /\ LineClass(i) \in Nat /\ uint16(LineClass(i)) = LineClass(i)
  /\ \A t \in Node : \E i \in 1 .. LineCount : LineCards(i) = t
  /\ \A i, j \in 1 .. LineCount : i < j => Listed(LineCards(i), LineCards(j))
<1>1. Partition \in Seq(PartitionLine)
  BY PartitionAssumption
<1>2. \A l \in PartitionLine : l.cards \in Node /\ l.class \in Nat /\ uint16(l.class) = l.class
  BY DEF PartitionLine
<1>3. Len(Partition) \in Nat /\ DOMAIN Partition = 1 .. Len(Partition)
      /\ \A i \in 1 .. Len(Partition) : Partition[i] \in PartitionLine
  BY <1>1
<1>4. \A i \in 1 .. LineCount : LineCards(i) \in Node /\ LineClass(i) \in Nat /\ uint16(LineClass(i)) = LineClass(i)
  BY <1>2, <1>3 DEF LineCount, LineCards, LineClass
<1>5. \A t \in Node : \E i \in 1 .. LineCount : LineCards(i) = t
  BY <1>3, PartitionAssumption, Zenon DEF LineCount, LineCards
<1>6. \A i, j \in 1 .. LineCount : i < j => Listed(LineCards(i), LineCards(j))
  BY <1>3, PartitionAssumption, Zenon DEF LineCount, LineCards
<1>7. LineCount \in Nat /\ DOMAIN Partition = 1 .. LineCount
  BY <1>3 DEF LineCount
<1> QED
  BY <1>4, <1>5, <1>6, <1>7, Zenon

\* The node the loops are at when k - 1 classes are read.
NodeAt(k) == IF k <= LineCount THEN LineCards(k) ELSE << >>

LEMMA LoopsFollow ==
  /\ NodeAt(1) = <<0>>
  /\ \A k \in 1 .. LineCount : next_visit(LineCards(k)) = NodeAt(k + 1)
<1>1. NodeAt(1) = <<0>>
  <2>1. <<0>> \in Node
    <3>1. GsiCard = 0 .. N - 1 /\ N \in Nat /\ N >= 3
      BY TreeSizes
    <3>2. <<0>> \in [1 .. 1 -> GsiCard] /\ 1 \in 1 .. 3
      BY <3>1
    <3> QED
      BY <3>2, IsNode
  <2>2. PICK j \in 1 .. LineCount : LineCards(j) = <<0>>
    BY <2>1, LinesAre
  <2>3. j = 1
    <3> SUFFICES ASSUME j > 1 PROVE FALSE
      OBVIOUS
    <3> DEFINE t == LineCards(1)
    <3>1. t \in Node /\ Listed(t, <<0>>)
      <4>1. 1 \in 1 .. LineCount /\ 1 < j
        BY LinesAre
      <4> QED
        BY <4>1, <2>2, LinesAre
    <3> HIDE DEF t
    <3>2. PICK n \in 1 .. 3 : /\ CardAt(t, n) < CardAt(<<0>>, n)
                              /\ \A i \in 1 .. n - 1 : CardAt(t, i) = CardAt(<<0>>, i)
      BY <3>1 DEF Listed
    <3>3. CardAt(<<0>>, 1) = 0 /\ \A i \in 2 .. 3 : CardAt(<<0>>, i) = -1
      BY DEF CardAt
    <3>4. CardAt(t, 1) >= 0 /\ CardAt(t, n) >= -1 /\ CardAt(t, n) \in Int
      BY <3>1, CardsAt, NodesAre
    <3> QED
      BY <3>2, <3>3, <3>4
  <2> QED
    BY <2>2, <2>3, LinesAre DEF NodeAt
<1>2. ASSUME NEW k \in 1 .. LineCount
      PROVE  next_visit(LineCards(k)) = NodeAt(k + 1)
  <2> DEFINE t == LineCards(k)
             u == next_visit(t)
  <2>1. t \in Node /\ LineCount \in Nat
    BY LinesAre
  <2>2. \A i, j \in 1 .. LineCount : Listed(LineCards(i), LineCards(j)) => i < j
    <3>1. ASSUME NEW i \in 1 .. LineCount, NEW j \in 1 .. LineCount,
                 Listed(LineCards(i), LineCards(j)), i >= j
          PROVE  FALSE
      <4>1. LineCards(i) \in Node /\ LineCards(j) \in Node
        BY LinesAre
      <4>2. CASE i = j
        BY <3>1, <4>1, <4>2, ListedIsStrict
      <4>3. CASE i > j
        <5>1. Listed(LineCards(j), LineCards(i))
          BY <4>3, LinesAre
        <5>2. Listed(LineCards(i), LineCards(i))
          BY <3>1, <4>1, <5>1, ListedIsStrict
        <5> QED
          BY <4>1, <5>2, ListedIsStrict
      <4> QED
        BY <3>1, <4>2, <4>3
    <3> QED
      BY <3>1
  <2>3. CASE u = << >> /\ \A v \in Node : ~Listed(t, v)
    <3>1. k = LineCount
      <4> SUFFICES ASSUME k < LineCount PROVE FALSE
        BY <2>1
      <4>1. k + 1 \in 1 .. LineCount /\ k < k + 1
        BY <2>1
      <4>2. LineCards(k + 1) \in Node /\ Listed(t, LineCards(k + 1))
        BY <4>1, LinesAre
      <4> QED
        BY <2>3, <4>2
    <3> QED
      BY <2>3, <3>1 DEF NodeAt
  <2>4. CASE /\ u \in Node /\ Listed(t, u)
             /\ \A v \in Node : ~(Listed(t, v) /\ Listed(v, u))
    <3>1. PICK j \in 1 .. LineCount : LineCards(j) = u
      BY <2>4, LinesAre
    <3>2. k < j
      BY <2>2, <2>4, <3>1
    <3>3. j = k + 1
      <4> SUFFICES ASSUME k + 1 < j PROVE FALSE
        BY <3>2
      <4>1. k + 1 \in 1 .. LineCount /\ k < k + 1
        BY <2>1
      <4>2. LineCards(k + 1) \in Node /\ Listed(t, LineCards(k + 1)) /\ Listed(LineCards(k + 1), LineCards(j))
        BY <4>1, LinesAre
      <4> QED
        BY <2>4, <3>1, <4>2
    <3> QED
      BY <2>1, <3>1, <3>3 DEF NodeAt
  <2> HIDE DEF u
  <2>5. \/ u = << >> /\ \A v \in Node : ~Listed(t, v)
        \/ /\ u \in Node /\ Listed(t, u)
           /\ \A v \in Node : ~(Listed(t, v) /\ Listed(v, u))
    BY <2>1, NextVisitIs DEF u
  <2> QED
    BY <2>3, <2>4, <2>5
<1> QED
  BY <1>1, <1>2

\* Different lines name different nodes of the tree.
LEMMA LinesApart ==
  ASSUME NEW i \in 1 .. LineCount, NEW j \in 1 .. LineCount, i # j
  PROVE  signal_index(LineCards(i)) # signal_index(LineCards(j))
<1>1. LineCards(i) \in Node /\ LineCards(j) \in Node
  BY LinesAre
<1>2. LineCards(i) # LineCards(j)
  <2>1. Listed(LineCards(i), LineCards(j)) \/ Listed(LineCards(j), LineCards(i))
    <3>1. i < j \/ j < i
      BY LinesAre
    <3> QED
      BY <3>1, LinesAre
  <2> QED
    BY <1>1, <2>1, ListedIsStrict
<1> QED
  BY <1>1, <1>2, NodesAre, NodesAreNumbered

-----------------------------------------------------------------------------
(* The numbering of the files *)

\* gsi_card numbers the cards one to one by suit, then by rank.
LEMMA NumbersCards ==
  /\ \A c \in GsiCard : gsi_card(c) \in GsiCard
  /\ \A k \in GsiCard : \E c \in GsiCard : gsi_card(c) = k
  /\ \A c, d \in GsiCard : 
       gsi_card(d) < gsi_card(c) <=>
         \/ d % kGsiSuitCount < c % kGsiSuitCount
         \/ d % kGsiSuitCount = c % kGsiSuitCount /\ d \div kGsiSuitCount < c \div kGsiSuitCount
<1> DEFINE S == kGsiSuitCount
           R == kGsiRankCount
           suit(c) == c % S
           rank(c) == c \div S
<1>1. /\ S \in Nat /\ S >= 1 /\ R \in Nat /\ R >= 1 /\ GsiCard = 0 .. R * S - 1
      /\ R * S \in Nat /\ R * S = S * R
  BY GsiSizesAssumption DEF GsiCard, kGsiCardCount
<1>2. \A c \in GsiCard : rank(c) \in 0 .. R - 1 /\ suit(c) \in 0 .. S - 1
                         /\ gsi_card(c) = suit(c) * R + rank(c)
  BY SuitsAndRanks, Zenon DEF gsi_card
<1>3. \A k \in GsiCard : \E c \in GsiCard : gsi_card(c) = k
  <2> SUFFICES ASSUME NEW k \in GsiCard PROVE \E c \in GsiCard : gsi_card(c) = k
    OBVIOUS
  <2> DEFINE s == k \div R
             r == k % R
             c == r * S + s
  <2>1. k \in Nat /\ s \in Int /\ r \in 0 .. R - 1 /\ k = R * s + r
    BY <1>1
  <2> HIDE DEF s, r
  <2>2. R * s = s * R
    BY <1>1, <2>1
  <2>3. s >= 0
    <3> SUFFICES ASSUME s <= -1 PROVE FALSE
      BY <2>1
    <3>1. s * R <= -1 * R
      BY <1>1, <2>1
    <3> QED
      BY <1>1, <2>1, <2>2, <3>1
  <2>4. s <= S - 1
    <3> SUFFICES ASSUME s >= S PROVE FALSE
      BY <1>1, <2>1
    <3>1. s * R >= S * R
      BY <1>1, <2>1
    <3> QED
      BY <1>1, <2>1, <2>2, <3>1
  <2>5. r * S <= (R - 1) * S /\ (R - 1) * S = R * S - S /\ r * S >= 0 /\ r * S \in Int
    BY <1>1, <2>1
  <2>6. c \in GsiCard
    BY <1>1, <2>1, <2>3, <2>4, <2>5
  <2>7. c \div S = r /\ c % S = s
    BY <1>1, <2>1, <2>3, <2>4, DivMod
  <2>8. gsi_card(c) = k
    <3>1. gsi_card(c) = suit(c) * R + rank(c)
      BY <1>2, <2>6
    <3> QED
      BY <2>1, <2>2, <2>7, <3>1
  <2> QED
    BY <2>6, <2>8
<1> HIDE DEF S, R, suit, rank
<1>4. ASSUME NEW c \in GsiCard, NEW d \in GsiCard, suit(d) < suit(c)
      PROVE  gsi_card(d) < gsi_card(c)
  <2>1. suit(d) + 1 <= suit(c) /\ suit(c) \in Int /\ suit(d) \in Int
    BY <1>1, <1>2, <1>4
  <2>2. (suit(d) + 1) * R <= suit(c) * R /\ (suit(d) + 1) * R = suit(d) * R + R
    BY <1>1, <2>1
  <2> QED
    BY <1>1, <1>2, <2>1, <2>2
<1>5. ASSUME NEW c \in GsiCard
      PROVE  gsi_card(c) \in GsiCard
  <2> DEFINE x == suit(c)
             y == rank(c)
  <2>1. x \in 0 .. S - 1 /\ y \in 0 .. R - 1 /\ gsi_card(c) = x * R + y
    BY <1>2
  <2> HIDE DEF x, y
  <2>2. x * R <= (S - 1) * R /\ (S - 1) * R = R * S - R /\ x * R >= 0 /\ x * R \in Int
    BY <1>1, <2>1
  <2>3. gsi_card(c) \in Int /\ gsi_card(c) >= 0 /\ gsi_card(c) <= R * S - 1
    BY <1>1, <2>1, <2>2
  <2> QED
    BY <1>1, <2>3
<1>6. ASSUME NEW c \in GsiCard, NEW d \in GsiCard
      PROVE  gsi_card(d) < gsi_card(c) <=>
               (suit(d) < suit(c) \/ (suit(d) = suit(c) /\ rank(d) < rank(c)))
  <2>1. suit(c) \in Int /\ suit(d) \in Int /\ rank(c) \in Int /\ rank(d) \in Int
    BY <1>1, <1>2
  <2>2. gsi_card(c) \in Int /\ gsi_card(d) \in Int
    <3>1. gsi_card(c) \in GsiCard /\ gsi_card(d) \in GsiCard
      BY <1>5
    <3>2. \A x \in GsiCard : x \in Int
      BY TreeSizes
    <3> QED
      BY <3>1, <3>2
  <2>3. CASE suit(d) < suit(c)
    <3>1. gsi_card(d) < gsi_card(c)
      BY <1>4, <2>3
    <3> QED
      BY <2>3, <3>1
  <2>4. CASE suit(c) < suit(d)
    BY <1>4, <2>1, <2>2, <2>4
  <2>5. CASE suit(c) = suit(d)
    <3>1. gsi_card(c) = suit(c) * R + rank(c) /\ gsi_card(d) = suit(c) * R + rank(d)
      BY <1>2, <2>5
    <3>2. suit(c) * R \in Int
      BY <1>1, <2>1
    <3> QED
      BY <2>1, <2>5, <3>1, <3>2
  <2> QED
    BY <2>1, <2>3, <2>4, <2>5
<1>7. \A c, d \in GsiCard : gsi_card(d) < gsi_card(c) <=>
                               (suit(d) < suit(c) \/ (suit(d) = suit(c) /\ rank(d) < rank(c)))
  BY <1>6
<1>8. \A c \in GsiCard : gsi_card(c) \in GsiCard
  BY <1>5
<1>9. \A c, d \in GsiCard :
       gsi_card(d) < gsi_card(c) <=>
         \/ d % kGsiSuitCount < c % kGsiSuitCount
         \/ d % kGsiSuitCount = c % kGsiSuitCount /\ d \div kGsiSuitCount < c \div kGsiSuitCount
  BY <1>7 DEF suit, rank, S
<1> QED
  BY <1>3, <1>8, <1>9

\* Counting the cards before a card in that order gives its number.
LEMMA PlaceIs ==
  ASSUME NEW card \in GsiCard
  PROVE  PlaceInFile(card) = gsi_card(card)
<1> DEFINE B == {other \in GsiCard : gsi_card(other) < gsi_card(card)}
           g == gsi_card(card)
           f == [k \in 0 .. g - 1 |-> CHOOSE c \in GsiCard : gsi_card(c) = k]
<1>1. PlaceInFile(card) = Cardinality(B)
  <2>1. B = {other \in GsiCard :
               \/ other % kGsiSuitCount < card % kGsiSuitCount
               \/ /\ other % kGsiSuitCount = card % kGsiSuitCount
                  /\ other \div kGsiSuitCount < card \div kGsiSuitCount}
    BY NumbersCards, Zenon
  <2> QED
    BY <2>1, Zenon DEF PlaceInFile
<1>2. g \in Nat /\ 0 .. g - 1 \subseteq GsiCard /\ GsiCard \subseteq Nat
  <2>1. g \in GsiCard
    BY NumbersCards, Zenon
  <2> HIDE DEF g
  <2> QED
    BY <2>1, TreeSizes
<1>3. \A k \in 0 .. g - 1 : f[k] \in B /\ gsi_card(f[k]) = k
  <2> SUFFICES ASSUME NEW k \in 0 .. g - 1 PROVE f[k] \in B /\ gsi_card(f[k]) = k
    OBVIOUS
  <2>1. f[k] \in GsiCard /\ gsi_card(f[k]) = k
    BY <1>2, NumbersCards
  <2> HIDE DEF f
  <2>2. k < g
    BY <1>2
  <2> QED
    BY <2>1, <2>2
<1>4. \A c \in B : gsi_card(c) \in 0 .. g - 1 /\ c \in GsiCard
  <2> SUFFICES ASSUME NEW c \in B PROVE gsi_card(c) \in 0 .. g - 1 /\ c \in GsiCard
    OBVIOUS
  <2>1. c \in GsiCard /\ gsi_card(c) < g
    OBVIOUS
  <2>2. gsi_card(c) \in Nat
    BY <1>2, <2>1, NumbersCards
  <2> QED
    BY <1>2, <2>1, <2>2
<1>5. f \in Bijection(0 .. g - 1, B)
  <2>1. f \in [0 .. g - 1 -> B]
    BY <1>3
  <2>2. \A j, k \in 0 .. g - 1 : f[j] = f[k] => j = k
    BY <1>3, Zenon
  <2>3. \A c \in B : \E k \in 0 .. g - 1 : f[k] = c
    <3> SUFFICES ASSUME NEW c \in B PROVE f[gsi_card(c)] = c
      BY <1>4
    <3>1. gsi_card(c) \in 0 .. g - 1 /\ c \in GsiCard
      BY <1>4
    <3>2. gsi_card(f[gsi_card(c)]) = gsi_card(c) /\ f[gsi_card(c)] \in GsiCard
      BY <1>3, <1>4, <3>1
    <3> QED
      BY <3>1, <3>2, CardsStayApart
  <2> DEFINE D == 0 .. g - 1
  <2>4. f \in [D -> B]
    BY <2>1
  <2>5. \A j, k \in D : f[j] = f[k] => j = k
    BY <2>2
  <2>6. \A c \in B : \E k \in D : f[k] = c
    BY <2>3
  <2> HIDE DEF f, B, D
  <2>7. f \in Bijection(D, B)
    BY <2>4, <2>5, <2>6, Fun_IsBij
  <2> QED
    BY <2>7 DEF D
<1>6. Cardinality(B) = Cardinality(0 .. g - 1)
  BY <1>2, <1>5, FS_Interval, FS_Bijection DEF ExistsBijection
<1>7. Cardinality(0 .. g - 1) = g
  BY <1>2, FS_Interval
<1> QED
  BY <1>1, <1>6, <1>7

-----------------------------------------------------------------------------
(* What is in the files *)

Word == [whole : Nat \cup {Absent}, fraction : Nat \cup {Absent}]

LEMMA WordsAre ==
  /\ \A n \in Nat : Whole(n) \in Word /\ Whole(n).whole = n /\ Whole(n).fraction = Absent
  /\ Text \in Word /\ Text.whole = Absent /\ Text.fraction = Absent
  /\ \A w \in Word : w.whole \in Nat \cup {Absent} /\ w.fraction \in Nat \cup {Absent}
  /\ Absent \notin Nat /\ Slot \subseteq Word
  /\ \A w \in Slot : w.whole \in Nat /\ w.whole # Absent /\ w # Text /\ Number(w) = w
<1>1. Absent = -1
  BY DEF Absent
<1>2. \A w \in Slot : w.whole # Absent /\ w # Text
  BY <1>1 DEF Slot, Text
<1>3. \A w \in Slot : Number(w) = w
  BY <1>2 DEF Number, Decimal, Slot
<1> QED
  BY <1>1, <1>2, <1>3 DEF Word, Slot, Whole, Text

\* What is left of a file, a word further on.
LEMMA RestOf ==
  ASSUME NEW W, NEW w \in Seq(W), NEW k \in 1 .. Len(w) + 1
  PROVE  /\ SubSeq(w, k, Len(w)) = << >> <=> k = Len(w) + 1
         /\ k <= Len(w) => /\ Head(SubSeq(w, k, Len(w))) = w[k]
                           /\ Tail(SubSeq(w, k, Len(w))) = SubSeq(w, k + 1, Len(w))
<1> DEFINE u == SubSeq(w, k, Len(w))
<1>1. /\ Len(w) \in Nat /\ u \in Seq(W) /\ Len(u) = Len(w) - k + 1
      /\ \A i \in 1 .. Len(u) : u[i] = w[k + i - 1]
  OBVIOUS
<1> HIDE DEF u
<1>2. u = << >> <=> k = Len(w) + 1
  BY <1>1
<1>3. ASSUME k <= Len(w)
      PROVE  Head(u) = w[k] /\ Tail(u) = SubSeq(w, k + 1, Len(w))
  <2> DEFINE v == SubSeq(w, k + 1, Len(w))
             t == Tail(u)
  <2>1. /\ v \in Seq(W) /\ Len(v) = Len(w) - k
        /\ \A i \in 1 .. Len(v) : v[i] = w[k + i]
    BY <1>1, <1>3
  <2>2. /\ t \in Seq(W) /\ Len(t) = Len(w) - k /\ Head(u) = w[k]
        /\ \A i \in 1 .. Len(t) : t[i] = w[k + i]
    BY <1>1, <1>3
  <2> HIDE DEF v, t
  <2> DEFINE D == 1 .. Len(w) - k
  <2>3. v \in [D -> W] /\ t \in [D -> W] /\ \A i \in D : v[i] = t[i]
    BY <1>1, <1>3, <2>1, <2>2
  <2> HIDE DEF D
  <2>4. t = v
    BY <2>3
  <2> QED
    BY <2>2, <2>4 DEF t, v
<1> QED
  BY <1>2, <1>3 DEF u

\* The partition, as written.
LEMMA PartitionWritten ==
  /\ DOMAIN Written = File /\ "partition" \in File
  /\ Written["partition"] \in Seq(Word) /\ Len(Written["partition"]) = LineCount
  /\ \A i \in 1 .. LineCount : Written["partition"][i] = Whole(LineClass(i))
<1>1. Written["partition"] = [i \in 1 .. LineCount |-> Whole(LineClass(i))]
  BY LinesAre DEF Written, File, LineClass
<1>2. \A i \in 1 .. LineCount : Whole(LineClass(i)) \in Word
  BY LinesAre, WordsAre
<1>3. DOMAIN Written = File /\ "partition" \in File
  BY DEF Written, File
<1> QED
  BY <1>1, <1>2, <1>3, LinesAre

\* What damage can leave of a file of whole numbers: a file that still has a
\* number in every place was not cut, and has lost no word.
LEMMA DamageShows ==
  ASSUME NEW w \in Seq(Word), \A i \in 1 .. Len(w) : w[i].fraction = Absent,
         NEW kind \in {"cut", "clipped", "lost", "garbled"}, NEW k \in 1 .. Len(w),
         NEW v \in Remains(w, kind, k)
  PROVE  /\ v \in Seq(Word) /\ \A i \in 1 .. Len(v) : v[i].fraction = Absent
         /\ kind # "clipped" => \E i \in 1 .. Len(w) : i <= Len(v) => v[i].whole = Absent
<1>1. Len(w) \in Nat /\ w[k] \in Word /\ w[k].fraction = Absent
  OBVIOUS
<1> DEFINE b == SubSeq(w, 1, k - 1)
<1>2. b \in Seq(Word) /\ Len(b) = k - 1 /\ \A i \in 1 .. k - 1 : b[i] = w[i]
  BY <1>1
<1> HIDE DEF b
<1>3. CASE kind = "cut"
  <2>1. v = b
    BY <1>3 DEF Remains, b
  <2> QED
    BY <1>1, <1>2, <1>3, <2>1
<1>4. CASE kind = "clipped"
  <2>1. PICK x \in Clipped(w[k]) : v = Append(b, x)
    BY <1>4 DEF Remains, b
  <2>2. x \in Word /\ x.fraction = Absent
    <3>1. x = Whole(w[k].whole \div 10)
      BY <1>1, <2>1 DEF Clipped
    <3>2. w[k].whole \in Nat \cup {-1}
      BY <1>1, WordsAre DEF Absent
    <3>3. w[k].whole \div 10 \in Nat \cup {-1}
      BY <3>2
    <3> QED
      BY <3>1, <3>3 DEF Whole, Word, Absent
  <2>3. /\ v \in Seq(Word) /\ Len(v) = k /\ v[k] = x
        /\ \A i \in 1 .. k - 1 : v[i] = b[i]
    BY <1>1, <1>2, <2>1, <2>2
  <2> QED
    BY <1>1, <1>2, <1>4, <2>2, <2>3
<1>5. CASE kind = "lost"
  <2> DEFINE c == SubSeq(w, k + 1, Len(w))
  <2>1. /\ c \in Seq(Word) /\ Len(c) = Len(w) - k
        /\ \A i \in 1 .. Len(w) - k : c[i] = w[k + i]
    BY <1>1
  <2>2. v = b \o c
    BY <1>5 DEF Remains, RemoveAt, b
  <2> HIDE DEF c
  <2>3. /\ b \o c \in Seq(Word) /\ Len(b \o c) = Len(b) + Len(c)
        /\ \A i \in 1 .. Len(b) + Len(c) :
             (b \o c)[i] = IF i <= Len(b) THEN b[i] ELSE c[i - Len(b)]
    BY <1>2, <2>1, ConcatProperties, Zenon
  <2>4. /\ v \in Seq(Word) /\ Len(v) = Len(b) + Len(c)
        /\ \A i \in 1 .. Len(b) + Len(c) : v[i] = IF i <= Len(b) THEN b[i] ELSE c[i - Len(b)]
    BY <2>2, <2>3, Zenon
  <2>5. Len(v) = Len(w) - 1
    BY <1>1, <1>2, <2>1, <2>4
  <2>6. \A i \in 1 .. Len(v) : v[i].fraction = Absent
    <3> SUFFICES ASSUME NEW i \in 1 .. Len(v) PROVE v[i].fraction = Absent
      OBVIOUS
    <3>1. CASE i <= k - 1
      BY <1>1, <1>2, <2>4, <2>5, <2>1, <3>1
    <3>2. CASE i > k - 1
      <4>1. i - (k - 1) \in 1 .. Len(w) - k /\ k + (i - (k - 1)) = i + 1 /\ i + 1 \in 1 .. Len(w)
        BY <1>1, <2>5, <3>2
      <4>2. v[i] = c[i - (k - 1)] /\ c[i - (k - 1)] = w[i + 1]
        BY <1>1, <1>2, <2>1, <2>4, <2>5, <3>2, <4>1
      <4> QED
        BY <4>1, <4>2
    <3> QED
      BY <3>1, <3>2
  <2> QED
    BY <1>1, <1>5, <2>4, <2>5, <2>6
<1>6. CASE kind = "garbled"
  <2>1. v = [w EXCEPT ![k] = Text]
    BY <1>6 DEF Remains, ReplaceAt
  <2>2. /\ v \in Seq(Word) /\ Len(v) = Len(w) /\ v[k] = Text
        /\ \A i \in 1 .. Len(w) : i # k => v[i] = w[i]
    BY <2>1, WordsAre
  <2> QED
    BY <1>1, <1>6, <2>2, WordsAre
<1> QED
  BY <1>3, <1>4, <1>5, <1>6

-----------------------------------------------------------------------------
(* The partition is read into its place *)

PartitionFile == files["partition"]

\* The damage done shows in the words there are.
FilesAre ==
  "partition" \in DOMAIN files =>
    /\ PartitionFile \in Seq(Word)
    /\ \A i \in 1 .. Len(PartitionFile) : PartitionFile[i].fraction = Absent
    /\ damage.file = "partition" /\ damage.kind \notin {"none", "clipped"} =>
         \E i \in 1 .. LineCount : i <= Len(PartitionFile) => PartitionFile[i].whole = Absent
    /\ damage.file # "partition" \/ damage.kind = "none" => PartitionFile = Written["partition"]

\* The loops have come to line k, and the nodes before it have their classes.
ReadTo(k) ==
  /\ visiting = NodeAt(k) /\ k - 1 <= Len(PartitionFile)
  /\ \A i \in 1 .. k - 1 :
       /\ PartitionFile[i].whole # Absent
       /\ signal_class[signal_index(LineCards(i))] = uint16(PartitionFile[i].whole)

PartitionInv ==
  /\ FilesAre
  /\ DOMAIN signal_class = 0 .. kGsiOnePlayerSignalNodeCount
  /\ phase \in {"start", "partition", "player1", "player2", "loaded", "threw"}
  /\ phase = "start" => visiting = <<0>>
  /\ phase = "partition" =>
       /\ "partition" \in DOMAIN files
       /\ \E k \in 1 .. LineCount + 1 :
            ReadTo(k) /\ unread = SubSeq(PartitionFile, k, Len(PartitionFile))
  /\ phase \in {"player1", "player2", "loaded"} =>
       "partition" \in DOMAIN files /\ ReadTo(LineCount + 1)

LEMMA FilesStart ==
  ASSUME LoadInit
  PROVE  FilesAre
<1>1. PICK f \in File, kind \in {"none", "missing", "cut", "clipped", "lost", "garbled"} :
        damage = [file |-> f, kind |-> kind] /\ Damaged(f, kind)
  BY DEF LoadInit
<1> DEFINE w == Written["partition"]
<1>2. /\ w \in Seq(Word) /\ Len(w) = LineCount /\ DOMAIN Written = File
      /\ \A i \in 1 .. Len(w) : w[i].fraction = Absent
  BY PartitionWritten, LinesAre, WordsAre
<1> HIDE DEF w
<1>3. CASE kind = "none"
  BY <1>1, <1>2, <1>3 DEF Damaged, FilesAre, PartitionFile, w
<1>4. CASE kind = "missing"
  <2>1. files = [g \in File \ {f} |-> Written[g]]
    BY <1>1, <1>4 DEF Damaged
  <2>2. "partition" \in DOMAIN files => PartitionFile = w /\ f # "partition"
    BY <2>1 DEF PartitionFile, w
  <2> QED
    BY <1>1, <1>2, <2>2 DEF FilesAre, w
<1>5. CASE kind \in {"cut", "clipped", "lost", "garbled"}
  <2>0. PICK k \in DOMAIN Written[f] : \E words \in Remains(Written[f], kind, k) :
          files = [Written EXCEPT ![f] = words]
    BY <1>1, <1>5 DEF Damaged
  <2>1. PICK words \in Remains(Written[f], kind, k) : files = [Written EXCEPT ![f] = words]
    BY <2>0
  <2>2. CASE f # "partition"
    <3>1. PartitionFile = w
      BY <1>2, <2>1, <2>2, PartitionWritten DEF PartitionFile, w
    <3> QED
      BY <1>1, <1>2, <2>2, <3>1 DEF FilesAre, w
  <2>3. CASE f = "partition"
    <3>1. PartitionFile = words
      BY <1>2, <2>1, <2>3 DEF PartitionFile
    <3>2. k \in 1 .. Len(w) /\ words \in Remains(w, kind, k)
      BY <1>2, <2>1, <2>3 DEF w
    <3>3. /\ words \in Seq(Word) /\ \A i \in 1 .. Len(words) : words[i].fraction = Absent
          /\ kind # "clipped" => \E i \in 1 .. Len(w) : i <= Len(words) => words[i].whole = Absent
      BY <1>2, <1>5, <3>2, DamageShows
    <3> QED
      BY <1>1, <1>2, <1>5, <2>3, <3>1, <3>3 DEF FilesAre
  <2> QED
    BY <2>2, <2>3
<1> QED
  BY <1>3, <1>4, <1>5

LEMMA PartitionStarts == LoadInit => PartitionInv
<1> SUFFICES ASSUME LoadInit PROVE PartitionInv
  OBVIOUS
<1>1. FilesAre
  BY FilesStart
<1>2. phase = "start" /\ visiting = <<0>> /\ DOMAIN signal_class = 0 .. kGsiOnePlayerSignalNodeCount
  BY DEF LoadInit
<1> QED
  BY <1>1, <1>2 DEF PartitionInv

\* Reading a class puts it at the node of its line and nowhere else.
LEMMA ClassIsRead ==
  ASSUME PartitionInv, next_class
  PROVE  PartitionInv'
<1> DEFINE w == PartitionFile
<1>1. /\ phase = "partition" /\ visiting # << >>
      /\ files' = files /\ damage' = damage /\ "partition" \in DOMAIN files
      /\ w \in Seq(Word) /\ \A i \in 1 .. Len(w) : w[i].fraction = Absent
      /\ FilesAre'
  BY DEF next_class, PartitionInv, FilesAre, PartitionFile
<1>2. PICK k \in 1 .. LineCount + 1 : ReadTo(k) /\ unread = SubSeq(w, k, Len(w))
  BY <1>1 DEF PartitionInv
<1>3. LineCount \in Nat /\ Len(w) \in Nat
  BY <1>1, LinesAre
<1>4. k <= LineCount /\ visiting = LineCards(k) /\ visiting \in Node
  BY <1>1, <1>2, <1>3, LinesAre DEF ReadTo, NodeAt
<1>5. k \in 1 .. Len(w) + 1
  BY <1>2, <1>3 DEF ReadTo
<1>6. CASE ~ReadsInteger(unread)
  <2>1. phase' = "threw" /\ signal_class' = signal_class
    BY <1>6 DEF next_class, Throws, Goes
  <2> QED
    BY <1>1, <2>1 DEF PartitionInv
<1>7. CASE ReadsInteger(unread)
  <2> DEFINE n == signal_index(visiting)
  <2>1. k <= Len(w) /\ Head(unread) = w[k] /\ Tail(unread) = SubSeq(w, k + 1, Len(w))
    BY <1>1, <1>2, <1>3, <1>5, <1>7, RestOf DEF ReadsInteger
  <2>2. w[k].whole # Absent /\ w[k].fraction = Absent
    BY <1>1, <1>3, <1>7, <2>1 DEF ReadsInteger
  <2>3. /\ phase' = "partition" /\ unread' = SubSeq(w, k + 1, Len(w))
        /\ visiting' = NodeAt(k + 1)
        /\ signal_class' = [signal_class EXCEPT ![n] = uint16(w[k].whole)]
    <3>1. visiting' = NodeAt(k + 1)
      BY <1>3, <1>4, <1>7, LoopsFollow DEF next_class
    <3> QED
      BY <1>1, <1>7, <2>1, <2>2, <3>1 DEF next_class, Goes, AfterInteger
  <2>4. n \in DOMAIN signal_class
    BY <1>4, NodesAre, NodesAreNumbered DEF PartitionInv
  <2>5. DOMAIN signal_class' = DOMAIN signal_class
    BY <2>3
  <2> HIDE DEF n
  <2>6. signal_class'[n] = uint16(w[k].whole)
    BY <2>3, <2>4
  <2>7. ASSUME NEW i \in 1 .. k - 1
        PROVE  signal_class'[signal_index(LineCards(i))] = uint16(w[i].whole)
    <3>1. i \in 1 .. LineCount /\ k \in 1 .. LineCount /\ i # k
      BY <1>3, <1>4
    <3>2. signal_index(LineCards(i)) # n
      BY <1>4, <3>1, LinesApart DEF n
    <3>3. signal_index(LineCards(i)) \in DOMAIN signal_class
      BY <3>1, LinesAre, NodesAre, NodesAreNumbered DEF PartitionInv
    <3>4. signal_class'[signal_index(LineCards(i))] = signal_class[signal_index(LineCards(i))]
      BY <2>3, <3>2, <3>3
    <3> QED
      BY <1>2, <3>4 DEF ReadTo
  <2>8. \A i \in 1 .. k : /\ w[i].whole # Absent
                         /\ signal_class'[signal_index(LineCards(i))] = uint16(w[i].whole)
    <3> SUFFICES ASSUME NEW i \in 1 .. k
                 PROVE  /\ w[i].whole # Absent
                        /\ signal_class'[signal_index(LineCards(i))] = uint16(w[i].whole)
      OBVIOUS
    <3>1. CASE i = k
      BY <1>4, <2>2, <2>6, <3>1 DEF n
    <3>2. CASE i # k
      <4>1. i \in 1 .. k - 1
        BY <3>2
      <4> QED
        BY <1>2, <2>7, <4>1 DEF ReadTo
    <3> QED
      BY <3>1, <3>2
  <2>9. w' = w /\ k + 1 \in 1 .. LineCount + 1 /\ (k + 1) - 1 = k
    BY <1>1, <1>3, <1>4 DEF PartitionFile
  <2>10. ReadTo(k + 1)'
    BY <2>1, <2>3, <2>8, <2>9 DEF ReadTo
  <2> QED
    BY <1>1, <2>3, <2>5, <2>9, <2>10 DEF PartitionInv
<1> QED
  BY <1>6, <1>7

LEMMA PartitionKeeps == PartitionInv /\ [LoadNext]_load_vars => PartitionInv'
<1> SUFFICES ASSUME PartitionInv, [LoadNext]_load_vars PROVE PartitionInv'
  OBVIOUS
<1>1. CASE OpenPartition
  <2>1. /\ files' = files /\ damage' = damage /\ signal_class' = signal_class
        /\ visiting' = visiting /\ visiting = <<0>> /\ FilesAre' /\ FilesAre
    BY <1>1 DEF OpenPartition, PartitionInv, FilesAre, PartitionFile
  <2>2. CASE "partition" \in DOMAIN files
    <3>1. phase' = "partition" /\ unread' = PartitionFile
      BY <1>1, <2>2 DEF OpenPartition, Opens, Goes, PartitionFile
    <3>2. PartitionFile \in Seq(Word) /\ PartitionFile' = PartitionFile
      BY <2>1, <2>2 DEF FilesAre, PartitionFile
    <3>3. PartitionFile = SubSeq(PartitionFile, 1, Len(PartitionFile)) /\ Len(PartitionFile) \in Nat
      BY <3>2
    <3>4. ReadTo(1)'
      <4>1. visiting' = NodeAt(1) /\ 1 - 1 = 0 /\ 1 .. 0 = {}
        BY <2>1, LoopsFollow
      <4> QED
        BY <3>2, <3>3, <4>1 DEF ReadTo
    <3>5. 1 \in 1 .. LineCount + 1
      BY LinesAre
    <3> QED
      BY <2>1, <2>2, <3>1, <3>2, <3>3, <3>4, <3>5 DEF PartitionInv
  <2>3. CASE "partition" \notin DOMAIN files
    <3>1. phase' = "threw"
      BY <1>1, <2>3 DEF OpenPartition, Opens, Throws, Goes
    <3> QED
      BY <2>1, <3>1 DEF PartitionInv
  <2> QED
    BY <2>2, <2>3
<1>2. CASE next_class
  BY <1>2, ClassIsRead
<1>3. CASE OpenPlayer1
  <2>1. /\ files' = files /\ damage' = damage /\ signal_class' = signal_class
        /\ visiting' = visiting /\ visiting = << >> /\ phase = "partition"
        /\ FilesAre' /\ PartitionFile' = PartitionFile
    BY <1>3 DEF OpenPlayer1, PartitionInv, FilesAre, PartitionFile
  <2>2. PICK k \in 1 .. LineCount + 1 : ReadTo(k)
    BY <2>1 DEF PartitionInv
  <2>3. k = LineCount + 1
    <3> SUFFICES ASSUME k \in 1 .. LineCount PROVE FALSE
      BY LinesAre
    <3>1. LineCards(k) = << >> /\ LineCards(k) \in Node
      BY <2>1, <2>2, LinesAre DEF ReadTo, NodeAt
    <3>2. Len(<< >>) \in 1 .. 3
      BY <3>1, NodesAre
    <3> QED
      BY <3>2
  <2>4. ReadTo(LineCount + 1)'
    BY <2>1, <2>2, <2>3 DEF ReadTo
  <2>5. phase' \in {"player1", "threw"}
    BY <1>3 DEF OpenPlayer1, Opens, Throws, Goes
  <2> QED
    BY <2>1, <2>4, <2>5 DEF PartitionInv
<1>4. CASE read_key \/ read_slot \/ emplace
  <2>1. /\ files' = files /\ damage' = damage /\ signal_class' = signal_class
        /\ visiting' = visiting /\ phase \in {"player1", "player2"}
        /\ FilesAre' /\ PartitionFile' = PartitionFile
    BY <1>4 DEF read_key, read_slot, emplace, PartitionInv, FilesAre, PartitionFile, PlayerFile, PlayerOf
  <2>2. phase' \in {"player1", "player2", "loaded", "threw"}
    BY <1>4, <2>1 DEF read_key, read_slot, emplace, AfterRows, Opens, Throws, Goes
  <2>3. ReadTo(LineCount + 1)'
    BY <2>1 DEF ReadTo, PartitionInv
  <2> QED
    BY <2>1, <2>2, <2>3 DEF PartitionInv
<1>5. CASE UNCHANGED load_vars
  BY <1>5 DEF load_vars, PartitionInv, FilesAre, PartitionFile, ReadTo
<1> QED
  BY <1>1, <1>2, <1>3, <1>4, <1>5 DEF LoadNext

\* In our numbering the faces of a node are those of a line.
LEMMA FacesAre ==
  ASSUME NEW cards \in Node
  PROVE  /\ [j \in DOMAIN cards |-> PlaceInFile(cards[j])]
              = [j \in DOMAIN cards |-> gsi_card(cards[j])]
         /\ [j \in DOMAIN cards |-> gsi_card(cards[j])] \in Node
<1> DEFINE n == Len(cards)
           faces == [j \in 1 .. n |-> gsi_card(cards[j])]
<1>1. /\ n \in 1 .. 3 /\ DOMAIN cards = 1 .. n /\ \A j \in 1 .. n : cards[j] \in GsiCard
      /\ \A i, j \in 1 .. n : cards[i] = cards[j] => i = j
  BY NodesAre
<1> HIDE DEF n
<1>2. \A j \in 1 .. n : PlaceInFile(cards[j]) = gsi_card(cards[j]) /\ gsi_card(cards[j]) \in GsiCard
  BY <1>1, PlaceIs, NumbersCards
<1>3. faces \in [1 .. n -> GsiCard]
  BY <1>2
<1>4. \A i, j \in 1 .. n : faces[i] = faces[j] => i = j
  BY <1>1, CardsStayApart
<1> HIDE DEF faces
<1>5. faces \in Node
  BY <1>1, <1>3, <1>4, IsNode
<1> QED
  BY <1>1, <1>2, <1>5 DEF faces

\* A partition that is read to its end leaves the class of every node where
\* the look-ups of GsiKeys find it.
THEOREM PartitionIsInPlace == LoadSpec => []PartitionInPlace
<1>1. PartitionInv => PartitionInPlace
  <2> SUFFICES ASSUME PartitionInv, phase \in PlayerFile \cup {"loaded"}
               PROVE  PartitionInPlace
    BY DEF PartitionInPlace
  <2>1. /\ FilesAre /\ "partition" \in DOMAIN files /\ ReadTo(LineCount + 1)
        /\ LineCount \in Nat /\ (LineCount + 1) - 1 = LineCount
    BY LinesAre DEF PartitionInv, PlayerFile, PlayerOf
  <2>2. /\ LineCount <= Len(PartitionFile)
        /\ \A i \in 1 .. LineCount :
             /\ PartitionFile[i].whole # Absent
             /\ signal_class[signal_index(LineCards(i))] = uint16(PartitionFile[i].whole)
    BY <2>1 DEF ReadTo
  <2>3. damage.file = "partition" => damage.kind \in {"none", "clipped"}
    <3> SUFFICES ASSUME damage.file = "partition", damage.kind \notin {"none", "clipped"}
                 PROVE  FALSE
      OBVIOUS
    <3>1. PICK i \in 1 .. LineCount : i <= Len(PartitionFile) => PartitionFile[i].whole = Absent
      BY <2>1 DEF FilesAre
    <3>2. Len(PartitionFile) \in Nat
      BY <2>1 DEF FilesAre
    <3> QED
      BY <2>1, <2>2, <3>1, <3>2
  <2>4. ASSUME damage.file # "partition" \/ damage.kind = "none", NEW cards \in Node
        PROVE  [cards |-> [j \in DOMAIN cards |-> PlaceInFile(cards[j])],
                class |-> class_of_cards(cards)] \in Range(Partition)
    <3> DEFINE faces == [j \in DOMAIN cards |-> gsi_card(cards[j])]
    <3>1. faces \in Node /\ [j \in DOMAIN cards |-> PlaceInFile(cards[j])] = faces
      BY FacesAre
    <3>2. class_of_cards(cards) = signal_class[signal_index(faces)]
      BY DEF class_of_cards
    <3> HIDE DEF faces
    <3>3. PICK i \in 1 .. LineCount : LineCards(i) = faces
      BY <3>1, LinesAre
    <3>4. PartitionFile[i] = Whole(LineClass(i))
      BY <2>1, <2>4, PartitionWritten DEF FilesAre
    <3>5. class_of_cards(cards) = LineClass(i)
      BY <2>2, <3>2, <3>3, <3>4, LinesAre, WordsAre
    <3>6. Partition[i] = [cards |-> faces, class |-> LineClass(i)] /\ i \in DOMAIN Partition
      <4>1. Partition[i] \in PartitionLine /\ i \in DOMAIN Partition
        BY PartitionAssumption, LinesAre
      <4> QED
        BY <3>3, <4>1 DEF PartitionLine, LineCards, LineClass
    <3> QED
      BY <3>1, <3>5, <3>6 DEF Range
  <2> QED
    BY <2>3, <2>4 DEF PartitionInPlace
<1> QED
  BY <1>1, PartitionStarts, PartitionKeeps, PTL DEF LoadSpec

-----------------------------------------------------------------------------
(* The rows of the player files *)

RowWidth         == kGsiSlotsPerKey + 1
FileOf(p)        == IF p = 1 THEN "player1" ELSE "player2"
RowCount(p)      == Len(PlayerRows[p])
KeyOf(p, i)      == PlayerRows[p][i].key
SlotsOf(p, i)    == PlayerRows[p][i].slots
RowWord(p, i, j) == IF j = 0 THEN Whole(KeyOf(p, i)) ELSE SlotsOf(p, i)[j]
IsFirst(p, i)    == \A j \in 1 .. i - 1 : KeyOf(p, j) # KeyOf(p, i)

LEMMA RowsAre ==
  ASSUME NEW p \in 1 .. 2
  PROVE  /\ RowCount(p) \in Nat /\ DOMAIN PlayerRows[p] = 1 .. RowCount(p)
         /\ RowWidth \in Nat /\ kGsiSlotsPerKey \in Nat /\ kGsiSlotsPerKey >= 1
         /\ RowWidth = kGsiSlotsPerKey + 1
         /\ PlayerOf[FileOf(p)] = p /\ FileOf(p) \in File /\ FileOf(p) # "partition"
         /\ \A i \in 1 .. RowCount(p) :
              KeyOf(p, i) \in Nat /\ SlotsOf(p, i) \in [1 .. kGsiSlotsPerKey -> Slot]
<1>1. PlayerRows[p] \in Seq(PlayerRow)
  BY PlayerRowsAssumption
<1>2. \A r \in PlayerRow : r.key \in Nat /\ r.slots \in [1 .. kGsiSlotsPerKey -> Slot]
  BY DEF PlayerRow
<1>3. /\ RowCount(p) \in Nat /\ DOMAIN PlayerRows[p] = 1 .. RowCount(p)
      /\ \A i \in 1 .. RowCount(p) : PlayerRows[p][i] \in PlayerRow
  BY <1>1 DEF RowCount
<1>4. \A i \in 1 .. RowCount(p) :
        KeyOf(p, i) \in Nat /\ SlotsOf(p, i) \in [1 .. kGsiSlotsPerKey -> Slot]
  BY <1>2, <1>3 DEF KeyOf, SlotsOf
<1>5. PlayerOf[FileOf(p)] = p /\ FileOf(p) \in File /\ FileOf(p) # "partition"
  BY DEF PlayerOf, FileOf, File
<1>6. RowWidth \in Nat /\ kGsiSlotsPerKey \in Nat /\ kGsiSlotsPerKey >= 1
  BY GsiSizesAssumption DEF RowWidth
<1> QED
  BY <1>3, <1>4, <1>5, <1>6 DEF RowWidth

\* Where a word of a row stands in the file as it was written.
LEMMA RowsWritten ==
  ASSUME NEW p \in 1 .. 2
  PROVE  /\ Written[FileOf(p)] \in Seq(Word)
         /\ RowCount(p) * RowWidth \in Nat
         /\ Len(Written[FileOf(p)]) = RowCount(p) * RowWidth
         /\ \A r \in 0 .. RowCount(p) - 1, j \in 0 .. kGsiSlotsPerKey :
              /\ r * RowWidth + j \in Nat
              /\ r * RowWidth + j < RowCount(p) * RowWidth
              /\ Written[FileOf(p)][r * RowWidth + j + 1] = RowWord(p, r + 1, j)
<1> DEFINE R == RowCount(p)
           W == RowWidth
           w == Written[FileOf(p)]
           at(i) == IF (i - 1) % W = 0 THEN Whole(KeyOf(p, (i - 1) \div W + 1))
                    ELSE SlotsOf(p, (i - 1) \div W + 1)[(i - 1) % W]
<1>1. w = [i \in 1 .. R * W |-> at(i)]
  BY RowsAre, Zenon DEF Written, RowWidth, RowCount, KeyOf, SlotsOf
<1>2. /\ R \in Nat /\ W \in Nat /\ W >= 2 /\ W = kGsiSlotsPerKey + 1 /\ R * W \in Nat
      /\ kGsiSlotsPerKey \in Nat
  BY RowsAre
<1>3. ASSUME NEW r \in 0 .. R - 1, NEW j \in 0 .. kGsiSlotsPerKey
      PROVE  /\ r * W + j \in Nat /\ r * W + j < R * W
             /\ r * W + j + 1 \in 1 .. R * W
             /\ at(r * W + j + 1) = RowWord(p, r + 1, j)
  <2> DEFINE n == r * W
  <2>1. n \in Nat /\ n + W <= R * W
    <3>1. (r + 1) * W <= R * W /\ (r + 1) * W = r * W + W /\ r * W >= 0 /\ r * W \in Int
      BY <1>2
    <3> QED
      BY <3>1
  <2>2. (n + j) \div W = r /\ (n + j) % W = j /\ j \in 0 .. W - 1
    <3>1. r \in Nat /\ j \in 0 .. W - 1
      BY <1>2
    <3> QED
      BY <1>2, <3>1, DivMod
  <2> HIDE DEF n, W, R
  <2>3. n + j \in Nat /\ n + j < R * W /\ n + j + 1 \in 1 .. R * W /\ (n + j + 1) - 1 = n + j
    BY <1>2, <2>1, <2>2
  <2>4. at(n + j + 1) = RowWord(p, r + 1, j)
    BY <2>2, <2>3 DEF RowWord
  <2> QED
    BY <2>3, <2>4 DEF n
<1>4. ASSUME NEW i \in 1 .. R * W PROVE at(i) \in Word
  <2> HIDE DEF W, R
  <2> DEFINE q == (i - 1) \div W
             j == (i - 1) % W
  <2>0. i - 1 \in Nat /\ i \in Int /\ i - 1 < R * W
    BY <1>2
  <2>1. i - 1 \in Nat /\ q \in Int /\ j \in 0 .. W - 1 /\ i - 1 = W * q + j
    <3> DEFINE m == i - 1
    <3>1. m \in Nat /\ W \in Nat /\ W >= 2
      BY <1>2, <2>0
    <3> HIDE DEF m
    <3>2. m \div W \in Int /\ m % W \in 0 .. W - 1 /\ m = W * (m \div W) + (m % W)
      BY <3>1
    <3> QED
      BY <3>1, <3>2 DEF m
  <2> HIDE DEF q, j
  <2>2. W * q = q * W
    BY <1>2, <2>1
  <2>3. q >= 0
    <3> SUFFICES ASSUME q <= -1 PROVE FALSE
      BY <2>1
    <3>1. q * W <= -1 * W
      BY <1>2, <2>1
    <3> QED
      BY <1>2, <2>1, <2>2, <3>1
  <2>4. q <= R - 1
    <3> SUFFICES ASSUME q >= R PROVE FALSE
      BY <1>2, <2>1
    <3>1. q * W >= R * W
      BY <1>2, <2>1
    <3> QED
      BY <1>2, <2>0, <2>1, <2>2, <3>1
  <2>5. q + 1 \in 1 .. RowCount(p)
    BY <1>2, <2>1, <2>3, <2>4 DEF R
  <2>6. CASE j = 0
    BY <2>5, <2>6, RowsAre, WordsAre DEF j, q
  <2>7. CASE j # 0
    <3>1. j \in 1 .. kGsiSlotsPerKey
      BY <1>2, <2>1, <2>7
    <3>2. SlotsOf(p, q + 1)[j] \in Word
      <4>1. SlotsOf(p, q + 1) \in [1 .. kGsiSlotsPerKey -> Slot]
        BY <2>5, RowsAre
      <4> QED
        BY <3>1, <4>1, WordsAre
    <3> QED
      BY <2>7, <3>2 DEF j, q
  <2> QED
    BY <2>6, <2>7
<1> HIDE DEF at, W, R
<1>5. w \in Seq(Word) /\ Len(w) = R * W
  BY <1>1, <1>2, <1>4
<1>6. ASSUME NEW r \in 0 .. R - 1, NEW j \in 0 .. kGsiSlotsPerKey
      PROVE  /\ r * W + j \in Nat /\ r * W + j < R * W
             /\ w[r * W + j + 1] = RowWord(p, r + 1, j)
  BY <1>1, <1>3
<1> QED
  BY <1>2, <1>5, <1>6 DEF W, R

\* The beginning of a row, as it is read: the key, then slots.
RowSoFar(p, i, n) == [j \in 1 .. n |-> IF j = 1 THEN KeyOf(p, i) ELSE SlotsOf(p, i)[j - 1]]

LEMMA RowLength ==
  ASSUME NEW p, NEW i, NEW n \in Nat
  PROVE  Len(RowSoFar(p, i, n)) = n /\ (RowSoFar(p, i, n) = << >> <=> n = 0)
BY DEF RowSoFar

LEMMA RowGrows ==
  ASSUME NEW p \in 1 .. 2, NEW i \in 1 .. RowCount(p)
  PROVE  /\ RowSoFar(p, i, 1) = <<KeyOf(p, i)>>
         /\ \A n \in 1 .. kGsiSlotsPerKey :
              Append(RowSoFar(p, i, n), SlotsOf(p, i)[n]) = RowSoFar(p, i, n + 1)
         /\ RowSoFar(p, i, RowWidth)[1] = KeyOf(p, i)
         /\ Tail(RowSoFar(p, i, RowWidth)) = SlotsOf(p, i)
<1> DEFINE S == kGsiSlotsPerKey
           T == Nat \cup Slot
           key == KeyOf(p, i)
           slots == SlotsOf(p, i)
           el(j) == IF j = 1 THEN key ELSE slots[j - 1]
<1>1. S \in Nat /\ S >= 1 /\ RowWidth = S + 1 /\ key \in Nat /\ slots \in [1 .. S -> Slot]
  BY RowsAre
<1>2. RowSoFar(p, i, 1) = <<key>>
  BY DEF RowSoFar
<1> HIDE DEF S, key, slots
<1>3. \A n \in 0 .. S + 1 : RowSoFar(p, i, n) = [j \in 1 .. n |-> el(j)]
  BY DEF RowSoFar, key, slots
<1>4. \A j \in 1 .. S + 1 : el(j) \in T
  BY <1>1
<1> HIDE DEF el, T
<1>5. ASSUME NEW n \in 1 .. S
      PROVE  Append(RowSoFar(p, i, n), slots[n]) = RowSoFar(p, i, n + 1)
  <2> DEFINE b == RowSoFar(p, i, n)
             a == Append(b, slots[n])
             c == RowSoFar(p, i, n + 1)
             D == 1 .. n + 1
  <2>1. b = [j \in 1 .. n |-> el(j)] /\ c = [j \in 1 .. n + 1 |-> el(j)]
    BY <1>1, <1>3
  <2>2. slots[n] = el(n + 1)
    BY DEF el
  <2> HIDE DEF b, c
  <2>3. b \in Seq(T) /\ Len(b) = n /\ \A j \in 1 .. n : b[j] = el(j)
    BY <1>1, <1>4, <2>1
  <2>4. slots[n] \in T
    BY <1>1, <1>4, <2>2
  <2>5. a \in [D -> T] /\ \A j \in D : a[j] = el(j)
    <3>1. /\ a \in Seq(T) /\ Len(a) = n + 1 /\ a[n + 1] = slots[n]
          /\ \A j \in 1 .. n : a[j] = b[j]
      BY <1>1, <2>3, <2>4
    <3> HIDE DEF a
    <3>2. a \in [D -> T]
      BY <3>1
    <3>3. \A j \in D : a[j] = el(j)
      BY <1>1, <2>2, <2>3, <3>1
    <3> QED
      BY <3>2, <3>3
  <2>6. c \in [D -> T] /\ \A j \in D : c[j] = el(j)
    BY <1>1, <1>4, <2>1
  <2> HIDE DEF a, D
  <2>7. a = c
    BY <2>5, <2>6
  <2> QED
    BY <2>7 DEF a, b, c
<1>6. RowSoFar(p, i, RowWidth)[1] = key /\ Tail(RowSoFar(p, i, RowWidth)) = slots
  <2> DEFINE f == RowSoFar(p, i, RowWidth)
             t == Tail(f)
             D == 1 .. S
  <2>1. f = [j \in 1 .. S + 1 |-> el(j)]
    BY <1>1, <1>3
  <2> HIDE DEF f
  <2>2. f \in Seq(T) /\ Len(f) = S + 1 /\ f[1] = el(1) /\ \A j \in 1 .. S + 1 : f[j] = el(j)
    BY <1>1, <1>4, <2>1
  <2>3. t \in [D -> T] /\ \A j \in D : t[j] = el(j + 1)
    <3>1. t \in Seq(T) /\ Len(t) = S /\ \A j \in 1 .. S : t[j] = f[j + 1]
      BY <1>1, <2>2
    <3> HIDE DEF t
    <3> QED
      BY <1>1, <2>2, <3>1
  <2>4. \A j \in D : el(j + 1) = slots[j]
    BY <1>1 DEF el
  <2>5. slots \in [D -> T]
    BY <1>1 DEF T
  <2> HIDE DEF t, D
  <2>6. t = slots
    BY <2>3, <2>4, <2>5
  <2> QED
    BY <2>2, <2>6 DEF f, t, el
<1> QED
  BY <1>2, <1>5, <1>6 DEF S, key, slots

\* The first r rows are kept, each key with its first row.
KeptTo(p, r) ==
  /\ DOMAIN strategy_rows[p] = {KeyOf(p, i) : i \in 1 .. r}
  /\ \A i \in 1 .. r : IsFirst(p, i) => strategy_rows[p][KeyOf(p, i)] = SlotsOf(p, i)

KeptSome(p) == \E r \in 0 .. RowCount(p) : KeptTo(p, r)
KeptAll(p)  == \E r \in 0 .. RowCount(p) :
                 KeptTo(p, r) /\ (damage.kind = "none" => r = RowCount(p))

\* r rows of a file and n words of the next are read.
Reading(p, r, n) ==
  /\ FileOf(p) \in DOMAIN files
  /\ n > 0 => r < RowCount(p)
  /\ row = RowSoFar(p, r + 1, n)
  /\ r * RowWidth + n <= Len(files[FileOf(p)])
  /\ unread = SubSeq(files[FileOf(p)], r * RowWidth + n + 1, Len(files[FileOf(p)]))

IsReading(p) ==
  \E r \in 0 .. RowCount(p), n \in 0 .. RowWidth : KeptTo(p, r) /\ Reading(p, r, n)

\* A file that was at most cut between two words.
PlayerFilesAre ==
  /\ damage.kind = "none" => files = Written
  /\ \A p \in 1 .. 2 :
       FileOf(p) \in DOMAIN files =>
         /\ files[FileOf(p)] \in Seq(Word)
         /\ Len(files[FileOf(p)]) <= RowCount(p) * RowWidth
         /\ \A i \in 1 .. Len(files[FileOf(p)]) : files[FileOf(p)][i] = Written[FileOf(p)][i]

RowsInv ==
  damage.kind \in {"none", "missing", "cut"} =>
    /\ PlayerFilesAre
    /\ DOMAIN strategy_rows = 1 .. 2
    /\ damage.kind = "none" => phase # "threw"
    /\ phase \in {"start", "partition"} => row = << >> /\ KeptTo(1, 0) /\ KeptTo(2, 0)
    /\ phase = "player1" => IsReading(1) /\ KeptTo(2, 0)
    /\ phase = "player2" => KeptAll(1) /\ IsReading(2)
    /\ phase = "loaded" => KeptAll(1) /\ KeptAll(2)
    /\ phase = "threw" => KeptSome(1) /\ KeptSome(2)

\* The rows kept are rows that were written, the first of each key.
LEMMA KeptAre ==
  ASSUME NEW p \in 1 .. 2, NEW r \in 0 .. RowCount(p), KeptTo(p, r)
  PROVE  /\ KeptRows(p) \subseteq WrittenRows(p)
         /\ r = RowCount(p) => KeptRows(p) = WrittenRows(p)
<1>1. RowCount(p) \in Nat /\ DOMAIN PlayerRows[p] = 1 .. RowCount(p)
  BY RowsAre
<1>2. WrittenRows(p) = {<<KeyOf(p, i), SlotsOf(p, i)>> : i \in {k \in 1 .. RowCount(p) : IsFirst(p, k)}}
  BY <1>1, Zenon DEF WrittenRows, KeyOf, SlotsOf, IsFirst
<1>3. ASSUME NEW key \in DOMAIN strategy_rows[p]
      PROVE  \E i \in 1 .. r : IsFirst(p, i) /\ KeyOf(p, i) = key /\ SlotsOf(p, i) = strategy_rows[p][key]
  <2> DEFINE T == {i \in 1 .. r : KeyOf(p, i) = key}
  <2>1. T # {} /\ T \subseteq Nat
    BY <1>1 DEF KeptTo
  <2>2. PICK i \in T : \A j \in T : i <= j
    BY <2>1, Least
  <2>3. IsFirst(p, i)
    <3> SUFFICES ASSUME NEW j \in 1 .. i - 1, KeyOf(p, j) = KeyOf(p, i) PROVE FALSE
      BY DEF IsFirst
    <3>1. j \in T /\ j < i
      BY <1>1, <2>2
    <3> QED
      BY <1>1, <2>2, <3>1
  <2> QED
    BY <2>2, <2>3 DEF KeptTo
<1>4. KeptRows(p) \subseteq WrittenRows(p)
  BY <1>1, <1>2, <1>3 DEF KeptRows
<1>5. ASSUME r = RowCount(p), NEW i \in 1 .. RowCount(p), IsFirst(p, i)
      PROVE  <<KeyOf(p, i), SlotsOf(p, i)>> \in KeptRows(p)
  <2>1. KeyOf(p, i) \in DOMAIN strategy_rows[p] /\ strategy_rows[p][KeyOf(p, i)] = SlotsOf(p, i)
    BY <1>5 DEF KeptTo
  <2> QED
    BY <2>1 DEF KeptRows
<1> QED
  BY <1>2, <1>4, <1>5

LEMMA PlayerFilesStart ==
  ASSUME LoadInit, damage.kind \in {"none", "missing", "cut"}
  PROVE  PlayerFilesAre
<1>1. PICK f \in File, kind \in {"none", "missing", "cut", "clipped", "lost", "garbled"} :
        damage = [file |-> f, kind |-> kind] /\ Damaged(f, kind)
  BY DEF LoadInit
<1>2. damage.kind = kind /\ kind \in {"none", "missing", "cut"}
  BY <1>1
<1>3. ASSUME NEW p \in 1 .. 2
      PROVE  /\ FileOf(p) \in File /\ DOMAIN Written = File
             /\ Written[FileOf(p)] \in Seq(Word)
             /\ Len(Written[FileOf(p)]) = RowCount(p) * RowWidth
             /\ RowCount(p) * RowWidth \in Nat
  BY RowsAre, RowsWritten, PartitionWritten
<1>4. CASE kind = "none"
  <2>1. files = Written
    BY <1>1, <1>4 DEF Damaged
  <2> QED
    BY <1>2, <1>3, <2>1 DEF PlayerFilesAre
<1>5. CASE kind = "missing"
  <2>1. files = [g \in File \ {f} |-> Written[g]]
    BY <1>1, <1>5 DEF Damaged
  <2>2. ASSUME NEW p \in 1 .. 2, FileOf(p) \in DOMAIN files
        PROVE  files[FileOf(p)] = Written[FileOf(p)]
    BY <2>1, <2>2
  <2> QED
    BY <1>2, <1>3, <1>5, <2>2 DEF PlayerFilesAre
<1>6. CASE kind = "cut"
  <2>1. PICK k \in DOMAIN Written[f] : \E words \in Remains(Written[f], kind, k) :
          files = [Written EXCEPT ![f] = words]
    BY <1>1, <1>6 DEF Damaged
  <2> DEFINE c == SubSeq(Written[f], 1, k - 1)
  <2>2. files = [Written EXCEPT ![f] = c]
    BY <1>6, <2>1 DEF Remains
  <2>3. ASSUME NEW p \in 1 .. 2
        PROVE  /\ files[FileOf(p)] \in Seq(Word)
               /\ Len(files[FileOf(p)]) <= RowCount(p) * RowWidth
               /\ \A i \in 1 .. Len(files[FileOf(p)]) : files[FileOf(p)][i] = Written[FileOf(p)][i]
    <3> DEFINE w == Written[FileOf(p)]
               n == RowCount(p) * RowWidth
    <3>1. w \in Seq(Word) /\ Len(w) = n /\ n \in Nat
      BY <1>3
    <3>2. CASE f # FileOf(p)
      <4>1. files[FileOf(p)] = w
        BY <1>3, <2>2, <3>2
      <4> HIDE DEF w, n
      <4>2. w \in Seq(Word) /\ Len(w) <= n
        BY <3>1
      <4> QED
        BY <4>1, <4>2 DEF w, n
    <3>3. CASE f = FileOf(p)
      <4>1. files[FileOf(p)] = c /\ c = SubSeq(w, 1, k - 1) /\ k \in DOMAIN w
        BY <1>3, <2>2, <3>3
      <4> HIDE DEF w, n, c
      <4>2. c \in Seq(Word) /\ Len(c) = k - 1 /\ k - 1 <= n /\ \A i \in 1 .. k - 1 : c[i] = w[i]
        BY <3>1, <4>1
      <4> QED
        BY <4>1, <4>2 DEF w, n
    <3> QED
      BY <3>2, <3>3
  <2> QED
    BY <1>2, <1>6, <2>3 DEF PlayerFilesAre
<1> QED
  BY <1>2, <1>4, <1>5, <1>6

LEMMA RowsStart == LoadInit => RowsInv
<1> SUFFICES ASSUME LoadInit, damage.kind \in {"none", "missing", "cut"} PROVE RowsInv
  BY DEF RowsInv
<1>1. PlayerFilesAre
  BY PlayerFilesStart
<1>2. strategy_rows = [p \in 1 .. 2 |-> << >>] /\ row = << >> /\ phase = "start"
  BY DEF LoadInit
<1>3. ASSUME NEW p \in 1 .. 2 PROVE KeptTo(p, 0)
  <2>1. strategy_rows[p] = << >>
    BY <1>2
  <2>2. 1 .. 0 = {} /\ DOMAIN << >> = {}
    OBVIOUS
  <2> QED
    BY <2>1, <2>2 DEF KeptTo
<1> QED
  BY <1>1, <1>2, <1>3 DEF RowsInv

\* The word a reader of rows comes to next, if the file goes on.
LEMMA NextWord ==
  ASSUME PlayerFilesAre, NEW p \in 1 .. 2, NEW r \in 0 .. RowCount(p), NEW n \in 0 .. kGsiSlotsPerKey,
         Reading(p, r, n), unread # << >>
  PROVE  /\ r < RowCount(p) /\ Head(unread) = RowWord(p, r + 1, n)
         /\ r * RowWidth + (n + 1) <= Len(files[FileOf(p)])
         /\ Tail(unread) = SubSeq(files[FileOf(p)], r * RowWidth + (n + 1) + 1, Len(files[FileOf(p)]))
<1> DEFINE v == files[FileOf(p)]
           k == r * RowWidth + n
           m == RowCount(p) * RowWidth
<1>1. /\ RowCount(p) \in Nat /\ RowWidth \in Nat /\ kGsiSlotsPerKey \in Nat
      /\ RowWidth = kGsiSlotsPerKey + 1
  BY RowsAre
<1>2. r * RowWidth \in Nat /\ m \in Nat
  BY <1>1
<1>3. /\ v \in Seq(Word) /\ Len(v) \in Nat /\ Len(v) <= m
      /\ \A i \in 1 .. Len(v) : v[i] = Written[FileOf(p)][i]
  BY DEF PlayerFilesAre, Reading
<1>4. k \in Nat /\ k <= Len(v) /\ unread = SubSeq(v, k + 1, Len(v))
  <2>1. k \in Nat
    BY <1>1, <1>2
  <2>2. k <= Len(v) /\ unread = SubSeq(v, k + 1, Len(v))
    BY Zenon DEF Reading
  <2> QED
    BY <2>1, <2>2
<1> HIDE DEF v, k, m
<1>5. k + 1 \in 1 .. Len(v) + 1
  BY <1>3, <1>4
<1>6. k + 1 <= Len(v) /\ Head(unread) = v[k + 1] /\ Tail(unread) = SubSeq(v, k + 1 + 1, Len(v))
  BY <1>3, <1>4, <1>5, RestOf
<1>7. r < RowCount(p)
  <2> SUFFICES ASSUME r = RowCount(p) PROVE FALSE
    BY <1>1
  <2>1. k >= m
    BY <1>1, <1>2 DEF k, m
  <2> QED
    BY <1>2, <1>3, <1>4, <1>6, <2>1
<1>8. v[k + 1] = RowWord(p, r + 1, n)
  <2>1. r \in 0 .. RowCount(p) - 1 /\ k + 1 \in 1 .. Len(v)
    BY <1>1, <1>3, <1>4, <1>6, <1>7
  <2>2. Written[FileOf(p)][k + 1] = RowWord(p, r + 1, n)
    BY <2>1, RowsWritten DEF k
  <2> QED
    BY <1>3, <2>1, <2>2
<1>9. r * RowWidth + (n + 1) = k + 1
  BY <1>1, <1>2 DEF k
<1> QED
  BY <1>6, <1>7, <1>8, <1>9 DEF v

\* An undamaged file ends with a whole row.
LEMMA FileEnds ==
  ASSUME PlayerFilesAre, NEW p \in 1 .. 2, NEW r \in 0 .. RowCount(p), NEW n \in 0 .. kGsiSlotsPerKey,
         Reading(p, r, n), unread = << >>, damage.kind = "none"
  PROVE  r = RowCount(p)
<1> DEFINE v == files[FileOf(p)]
           k == r * RowWidth + n
           m == RowCount(p) * RowWidth
<1>1. /\ RowCount(p) \in Nat /\ RowWidth \in Nat /\ kGsiSlotsPerKey \in Nat
      /\ RowWidth = kGsiSlotsPerKey + 1 /\ r \in Nat
  BY RowsAre
<1>2. r * RowWidth \in Nat /\ m \in Nat
  BY <1>1
<1>3. v \in Seq(Word) /\ Len(v) \in Nat /\ Len(v) = m
  BY RowsWritten DEF PlayerFilesAre, Reading
<1>4. k \in Nat /\ k <= Len(v) /\ unread = SubSeq(v, k + 1, Len(v))
  <2>1. k \in Nat
    BY <1>1, <1>2
  <2>2. k <= Len(v) /\ unread = SubSeq(v, k + 1, Len(v))
    BY Zenon DEF Reading
  <2> QED
    BY <2>1, <2>2
<1> HIDE DEF v, k, m
<1>5. k + 1 \in 1 .. Len(v) + 1
  BY <1>3, <1>4
<1>6. k = m
  BY <1>3, <1>4, <1>5, RestOf
<1> SUFFICES ASSUME r < RowCount(p) PROVE FALSE
  BY <1>1
<1>7. (r + 1) * RowWidth <= m /\ (r + 1) * RowWidth = r * RowWidth + RowWidth
  BY <1>1 DEF m
<1> QED
  BY <1>1, <1>2, <1>6, <1>7 DEF k

\* Reading goes on: in the row, with the next row, or after the last.
LEMMA KeyIsRead ==
  ASSUME PlayerFilesAre, NEW p \in 1 .. 2, phase = FileOf(p), IsReading(p), read_key
  PROVE  /\ strategy_rows' = strategy_rows /\ files' = files /\ damage' = damage
         /\ \/ phase' = phase /\ IsReading(p)'
            \/ AfterRows /\ unread = << >> /\ row' = << >> /\ KeptAll(p)
            \/ phase' = "threw" /\ damage.kind # "none"
<1>1. PICK r \in 0 .. RowCount(p), n \in 0 .. RowWidth : KeptTo(p, r) /\ Reading(p, r, n)
  BY DEF IsReading
<1>2. strategy_rows' = strategy_rows /\ files' = files /\ damage' = damage /\ row = << >>
  BY DEF read_key
<1>3. /\ RowCount(p) \in Nat /\ RowWidth \in Nat /\ kGsiSlotsPerKey \in Nat
      /\ RowWidth = kGsiSlotsPerKey + 1 /\ kGsiSlotsPerKey >= 1
      /\ \A i \in 1 .. RowCount(p) : KeyOf(p, i) \in Nat
  BY RowsAre
<1>4. n = 0
  BY <1>1, <1>2, <1>3, RowLength DEF Reading
<1>5. Reading(p, r, 0) /\ 0 \in 0 .. kGsiSlotsPerKey
  BY <1>1, <1>3, <1>4
<1>6. CASE unread = << >>
  <2>1. AfterRows /\ row' = row
    BY <1>6 DEF read_key, ReadsInteger
  <2>2. damage.kind = "none" => r = RowCount(p)
    BY <1>5, <1>6, FileEnds
  <2> QED
    BY <1>1, <1>2, <1>6, <2>1, <2>2 DEF KeptAll
<1>7. CASE unread # << >>
  <2>1. /\ r < RowCount(p) /\ Head(unread) = RowWord(p, r + 1, 0)
        /\ r * RowWidth + (0 + 1) <= Len(files[FileOf(p)])
        /\ Tail(unread) = SubSeq(files[FileOf(p)], r * RowWidth + (0 + 1) + 1, Len(files[FileOf(p)]))
    BY <1>5, <1>7, NextWord
  <2>2. r + 1 \in 1 .. RowCount(p)
    BY <1>3, <2>1
  <2>3. /\ Head(unread) = Whole(KeyOf(p, r + 1)) /\ Head(unread).whole = KeyOf(p, r + 1)
        /\ Head(unread).fraction = Absent /\ Head(unread).whole # Absent
    BY <1>3, <2>1, <2>2, WordsAre DEF RowWord
  <2>4. row' = <<KeyOf(p, r + 1)>> /\ phase' = phase /\ unread' = Tail(unread)
    BY <1>7, <2>3 DEF read_key, ReadsInteger, AfterInteger, Goes
  <2>5. row' = RowSoFar(p, r + 1, 1)
    BY <2>2, <2>4, RowGrows
  <2>6. 0 + 1 = 1 /\ 1 \in 0 .. RowWidth
    BY <1>3
  <2>7. Reading(p, r, 1)'
    <3>1. FileOf(p) \in DOMAIN files
      BY <1>1 DEF Reading
    <3> QED
      BY <1>2, <2>1, <2>4, <2>5, <2>6, <3>1 DEF Reading
  <2>8. KeptTo(p, r)'
    BY <1>1, <1>2 DEF KeptTo
  <2> QED
    BY <1>2, <2>4, <2>6, <2>7, <2>8 DEF IsReading
<1> QED
  BY <1>6, <1>7

LEMMA SlotIsRead ==
  ASSUME PlayerFilesAre, NEW p \in 1 .. 2, phase = FileOf(p), IsReading(p), read_slot
  PROVE  /\ strategy_rows' = strategy_rows /\ files' = files /\ damage' = damage
         /\ \/ phase' = phase /\ IsReading(p)'
            \/ phase' = "threw" /\ damage.kind # "none"
<1>1. PICK r \in 0 .. RowCount(p), n \in 0 .. RowWidth : KeptTo(p, r) /\ Reading(p, r, n)
  BY DEF IsReading
<1>2. /\ strategy_rows' = strategy_rows /\ files' = files /\ damage' = damage
      /\ Len(row) \in 1 .. kGsiSlotsPerKey
  BY DEF read_slot
<1>3. /\ RowCount(p) \in Nat /\ RowWidth \in Nat /\ kGsiSlotsPerKey \in Nat
      /\ RowWidth = kGsiSlotsPerKey + 1
  BY RowsAre
<1>4. n \in 1 .. kGsiSlotsPerKey /\ row = RowSoFar(p, r + 1, n) /\ r < RowCount(p)
  <2>1. row = RowSoFar(p, r + 1, n) /\ n \in Nat
    BY <1>1, <1>3 DEF Reading
  <2>2. n \in 1 .. kGsiSlotsPerKey
    BY <1>2, <2>1, RowLength
  <2>3. n > 0
    BY <1>3, <2>2
  <2> QED
    BY <1>1, <2>1, <2>2, <2>3 DEF Reading
<1>5. r + 1 \in 1 .. RowCount(p) /\ n \in 0 .. kGsiSlotsPerKey /\ n + 1 \in 0 .. RowWidth /\ n # 0
  BY <1>3, <1>4
<1>6. SlotsOf(p, r + 1)[n] \in Slot
  <2>1. SlotsOf(p, r + 1) \in [1 .. kGsiSlotsPerKey -> Slot]
    BY <1>5, RowsAre
  <2> QED
    BY <1>4, <2>1
<1>7. CASE unread = << >>
  <2>1. phase' = "threw"
    BY <1>7 DEF read_slot, ReadsFloat, Throws, Goes
  <2>2. damage.kind # "none"
    <3> SUFFICES ASSUME damage.kind = "none" PROVE FALSE
      OBVIOUS
    <3>1. r = RowCount(p)
      BY <1>1, <1>5, <1>7, FileEnds
    <3> QED
      BY <1>3, <1>4, <3>1
  <2> QED
    BY <1>2, <2>1, <2>2
<1>8. CASE unread # << >>
  <2>1. /\ Head(unread) = RowWord(p, r + 1, n)
        /\ r * RowWidth + (n + 1) <= Len(files[FileOf(p)])
        /\ Tail(unread) = SubSeq(files[FileOf(p)], r * RowWidth + (n + 1) + 1, Len(files[FileOf(p)]))
    BY <1>1, <1>5, <1>8, NextWord
  <2>2. Head(unread) = SlotsOf(p, r + 1)[n]
    BY <1>5, <2>1 DEF RowWord
  <2>3. Head(unread) # Text /\ Number(Head(unread)) = Head(unread)
    BY <1>6, <2>2, WordsAre
  <2>4. row' = Append(row, SlotsOf(p, r + 1)[n]) /\ phase' = phase /\ unread' = Tail(unread)
    BY <1>8, <2>2, <2>3 DEF read_slot, ReadsFloat, Goes
  <2>5. row' = RowSoFar(p, r + 1, n + 1)
    BY <1>4, <1>5, <2>4, RowGrows
  <2>6. Reading(p, r, n + 1)'
    <3>1. FileOf(p) \in DOMAIN files
      BY <1>1 DEF Reading
    <3> QED
      BY <1>2, <1>4, <2>1, <2>4, <2>5, <3>1 DEF Reading
  <2>7. KeptTo(p, r)'
    BY <1>1, <1>2 DEF KeptTo
  <2> QED
    BY <1>2, <1>5, <2>4, <2>6, <2>7 DEF IsReading
<1> QED
  BY <1>7, <1>8

LEMMA RowIsKept ==
  ASSUME PlayerFilesAre, NEW p \in 1 .. 2, phase = FileOf(p), IsReading(p), emplace,
         DOMAIN strategy_rows = 1 .. 2
  PROVE  /\ files' = files /\ damage' = damage /\ phase' = phase
         /\ DOMAIN strategy_rows' = 1 .. 2
         /\ \A q \in 1 .. 2 : q # p => strategy_rows'[q] = strategy_rows[q]
         /\ IsReading(p)'
<1>1. PICK r \in 0 .. RowCount(p), n \in 0 .. RowWidth : KeptTo(p, r) /\ Reading(p, r, n)
  BY DEF IsReading
<1> DEFINE old == strategy_rows[p]
           kept == [x \in DOMAIN old \cup {row[1]} |-> IF x \in DOMAIN old THEN old[x] ELSE Tail(row)]
<1>2. /\ files' = files /\ damage' = damage /\ phase' = phase /\ unread' = unread /\ row' = << >>
      /\ Len(row) = kGsiSlotsPerKey + 1
      /\ strategy_rows' = [strategy_rows EXCEPT ![p] = kept]
  BY RowsAre DEF emplace
<1>3. /\ RowCount(p) \in Nat /\ RowWidth \in Nat /\ kGsiSlotsPerKey \in Nat
      /\ RowWidth = kGsiSlotsPerKey + 1
  BY RowsAre
<1>4. n = RowWidth /\ row = RowSoFar(p, r + 1, RowWidth) /\ r < RowCount(p) /\ r + 1 \in 1 .. RowCount(p)
  <2>1. row = RowSoFar(p, r + 1, n) /\ n \in Nat
    BY <1>1, <1>3 DEF Reading
  <2>2. n = RowWidth
    BY <1>2, <1>3, <2>1, RowLength
  <2>3. r < RowCount(p)
    BY <1>1, <1>3, <2>2 DEF Reading
  <2> QED
    BY <1>3, <2>1, <2>2, <2>3
<1> DEFINE key   == KeyOf(p, r + 1)
           slots == SlotsOf(p, r + 1)
<1>5. row[1] = key /\ Tail(row) = slots
  BY <1>4, RowGrows
<1>6. /\ DOMAIN kept = DOMAIN old \cup {key}
      /\ \A x \in DOMAIN old : kept[x] = old[x]
      /\ key \notin DOMAIN old => kept[key] = slots
  <2> HIDE DEF old, key, slots
  <2> QED
    BY <1>5
<1> HIDE DEF kept
<1>7. /\ DOMAIN strategy_rows' = 1 .. 2 /\ strategy_rows'[p] = kept
      /\ \A q \in 1 .. 2 : q # p => strategy_rows'[q] = strategy_rows[q]
  BY <1>2
<1>8. KeptTo(p, r + 1)'
  <2>1. 1 .. r + 1 = 1 .. r \cup {r + 1} /\ r \in Nat
    BY <1>3
  <2>2. DOMAIN old = {KeyOf(p, i) : i \in 1 .. r}
    BY <1>1 DEF KeptTo
  <2>3. DOMAIN strategy_rows'[p] = {KeyOf(p, i) : i \in 1 .. r + 1}
    BY <1>6, <1>7, <2>1, <2>2
  <2>4. ASSUME NEW i \in 1 .. r + 1, IsFirst(p, i)
        PROVE  strategy_rows'[p][KeyOf(p, i)] = SlotsOf(p, i)
    <3>1. CASE i \in 1 .. r
      <4>1. KeyOf(p, i) \in DOMAIN old /\ old[KeyOf(p, i)] = SlotsOf(p, i)
        BY <1>1, <2>2, <2>4, <3>1 DEF KeptTo
      <4> QED
        BY <1>6, <1>7, <4>1
    <3>2. CASE i = r + 1
      <4>1. key \notin DOMAIN old
        <5> SUFFICES ASSUME NEW j \in 1 .. r, KeyOf(p, j) = key PROVE FALSE
          BY <2>2
        <5>1. j \in 1 .. i - 1
          BY <2>1, <3>2
        <5> QED
          BY <2>4, <3>2, <5>1 DEF IsFirst
      <4> QED
        BY <1>6, <1>7, <3>2, <4>1
    <3> QED
      BY <2>1, <3>1, <3>2
  <2> QED
    BY <2>3, <2>4 DEF KeptTo
<1>9. Reading(p, r + 1, 0)'
  <2>1. row' = RowSoFar(p, r + 1 + 1, 0)
    BY <1>2, RowLength
  <2>2. (r + 1) * RowWidth + 0 = r * RowWidth + RowWidth
    BY <1>3
  <2>3. /\ FileOf(p) \in DOMAIN files
        /\ r * RowWidth + RowWidth <= Len(files[FileOf(p)])
        /\ unread = SubSeq(files[FileOf(p)], r * RowWidth + RowWidth + 1, Len(files[FileOf(p)]))
    BY <1>1, <1>4 DEF Reading
  <2>4. /\ (r + 1) * RowWidth + 0 <= Len(files[FileOf(p)])
        /\ unread = SubSeq(files[FileOf(p)], (r + 1) * RowWidth + 0 + 1, Len(files[FileOf(p)]))
    BY <2>2, <2>3
  <2>5. ~(0 > 0)
    OBVIOUS
  <2> QED
    BY <1>2, <2>1, <2>3, <2>4, <2>5, Zenon DEF Reading
<1>10. r + 1 \in 0 .. RowCount(p) /\ 0 \in 0 .. RowWidth
  BY <1>3, <1>4
<1>11. IsReading(p)'
  BY <1>8, <1>9, <1>10 DEF IsReading
<1> QED
  BY <1>2, <1>7, <1>11

LEMMA OpensPlayer ==
  ASSUME PlayerFilesAre, NEW p \in 1 .. 2, Opens(FileOf(p)), files' = files,
         strategy_rows' = strategy_rows, KeptTo(p, 0), row' = << >>
  PROVE  \/ phase' = FileOf(p) /\ IsReading(p)'
         \/ phase' = "threw" /\ FileOf(p) \notin DOMAIN files
<1>1. CASE FileOf(p) \notin DOMAIN files
  BY <1>1 DEF Opens, Throws, Goes
<1>2. CASE FileOf(p) \in DOMAIN files
  <2> DEFINE w == files[FileOf(p)]
  <2>1. phase' = FileOf(p) /\ unread' = w
    BY <1>2 DEF Opens, Goes
  <2>2. w \in Seq(Word)
    BY <1>2 DEF PlayerFilesAre
  <2>3. Len(w) \in Nat /\ w = SubSeq(w, 1, Len(w))
    BY <2>2
  <2>4. RowWidth \in Nat /\ 0 * RowWidth + 0 = 0 /\ 0 + 1 = 1 /\ ~(0 > 0) /\ RowCount(p) \in Nat
    BY RowsAre
  <2>5. row' = RowSoFar(p, 0 + 1, 0)
    BY RowLength
  <2> HIDE DEF w
  <2>6. /\ FileOf(p) \in DOMAIN files' /\ 0 * RowWidth + 0 <= Len(w)
        /\ unread' = SubSeq(w, 0 * RowWidth + 0 + 1, Len(w))
    BY <1>2, <2>1, <2>3, <2>4
  <2>7. Reading(p, 0, 0)'
    BY <2>4, <2>5, <2>6, Zenon DEF Reading, w
  <2>8. KeptTo(p, 0)'
    BY DEF KeptTo
  <2>9. 0 \in 0 .. RowCount(p) /\ 0 \in 0 .. RowWidth
    BY <2>4
  <2> QED
    BY <2>1, <2>7, <2>8, <2>9 DEF IsReading
<1> QED
  BY <1>1, <1>2

\* An undamaged partition has a number for every node.
LEMMA ClassesAreThere ==
  ASSUME PartitionInv, damage.kind = "none", next_class
  PROVE  phase' = "partition"
<1> DEFINE w == PartitionFile
<1>1. phase = "partition" /\ visiting # << >> /\ "partition" \in DOMAIN files /\ FilesAre
  BY DEF next_class, PartitionInv
<1>2. PICK k \in 1 .. LineCount + 1 : ReadTo(k) /\ unread = SubSeq(w, k, Len(w))
  BY <1>1 DEF PartitionInv
<1>3. /\ w = Written["partition"] /\ w \in Seq(Word) /\ Len(w) = LineCount /\ LineCount \in Nat
      /\ \A i \in 1 .. LineCount : w[i] = Whole(LineClass(i)) /\ LineClass(i) \in Nat
  BY <1>1, PartitionWritten, LinesAre DEF FilesAre
<1> HIDE DEF w
<1>4. k <= LineCount
  BY <1>1, <1>2, <1>3 DEF ReadTo, NodeAt
<1>5. k \in 1 .. Len(w) + 1 /\ k <= Len(w) /\ k \in 1 .. LineCount
  BY <1>3, <1>4
<1> DEFINE u == SubSeq(w, k, Len(w))
<1>6. unread # << >> /\ Head(unread) = w[k]
  <2>1. (u = << >> <=> k = Len(w) + 1) /\ Head(u) = w[k]
    BY <1>3, <1>5, RestOf
  <2>2. Len(w) \in Nat /\ k # Len(w) + 1
    BY <1>3, <1>5
  <2> HIDE DEF u
  <2>3. unread = u
    BY <1>2 DEF u
  <2> QED
    BY <2>1, <2>2, <2>3
<1> HIDE DEF u
<1>7. Head(unread).whole # Absent
  BY <1>3, <1>5, <1>6, WordsAre
<1> QED
  BY <1>1, <1>6, <1>7 DEF next_class, ReadsInteger, Goes

LEMMA KeptIs ==
  ASSUME NEW p \in 1 .. 2
  PROVE  /\ KeptTo(p, 0) => KeptSome(p)
         /\ IsReading(p) => KeptSome(p)
         /\ KeptAll(p) => KeptSome(p)
<1>1. RowCount(p) \in Nat /\ 0 \in 0 .. RowCount(p)
  BY RowsAre
<1> QED
  BY <1>1 DEF KeptSome, KeptAll, IsReading

LEMMA KeptStays ==
  ASSUME NEW p \in 1 .. 2, strategy_rows'[p] = strategy_rows[p], damage' = damage
  PROVE  /\ KeptTo(p, 0) => KeptTo(p, 0)'
         /\ KeptSome(p) => KeptSome(p)'
         /\ KeptAll(p) => KeptAll(p)'
BY DEF KeptTo, KeptSome, KeptAll

LEMMA RowsKeep == PartitionInv /\ RowsInv /\ [LoadNext]_load_vars => RowsInv'
<1> SUFFICES ASSUME PartitionInv, RowsInv, [LoadNext]_load_vars,
                    damage'.kind \in {"none", "missing", "cut"}
             PROVE  RowsInv'
  BY DEF RowsInv
<1>1. damage' = damage /\ files' = files
  BY DEF LoadNext, load_vars, OpenPartition, next_class, OpenPlayer1, read_key, read_slot, emplace
<1>2. /\ damage.kind \in {"none", "missing", "cut"}
      /\ PlayerFilesAre /\ DOMAIN strategy_rows = 1 .. 2
      /\ damage.kind = "none" => files = Written
      /\ damage.kind = "none" => phase # "threw"
      /\ PlayerFilesAre'
  BY <1>1 DEF RowsInv, PlayerFilesAre
<1>3. DOMAIN Written = File /\ FileOf(1) = "player1" /\ FileOf(2) = "player2" /\ 1 \in 1 .. 2 /\ 2 \in 1 .. 2
  BY PartitionWritten DEF FileOf
<1>4. CASE OpenPartition
  <2>1. /\ strategy_rows' = strategy_rows /\ row' = row /\ phase = "start"
        /\ phase' \in {"partition", "threw"}
        /\ damage.kind = "none" => phase' # "threw"
    BY <1>2, <1>3, <1>4 DEF OpenPartition, Opens, Throws, Goes, File
  <2>2. row = << >> /\ KeptTo(1, 0) /\ KeptTo(2, 0)
    BY <1>2, <2>1 DEF RowsInv
  <2>3. KeptTo(1, 0)' /\ KeptTo(2, 0)' /\ KeptSome(1)' /\ KeptSome(2)'
    BY <1>1, <1>3, <2>1, <2>2, KeptIs, KeptStays
  <2> QED
    BY <1>1, <1>2, <2>1, <2>2, <2>3 DEF RowsInv
<1>5. CASE next_class
  <2>1. /\ strategy_rows' = strategy_rows /\ row' = row /\ phase = "partition"
        /\ phase' \in {"partition", "threw"}
        /\ damage.kind = "none" => phase' # "threw"
    <3>1. damage.kind = "none" => phase' = "partition"
      BY <1>5, ClassesAreThere
    <3> QED
      BY <1>5, <3>1 DEF next_class, Throws, Goes
  <2>2. row = << >> /\ KeptTo(1, 0) /\ KeptTo(2, 0)
    BY <1>2, <2>1 DEF RowsInv
  <2>3. KeptTo(1, 0)' /\ KeptTo(2, 0)' /\ KeptSome(1)' /\ KeptSome(2)'
    BY <1>1, <1>3, <2>1, <2>2, KeptIs, KeptStays
  <2> QED
    BY <1>1, <1>2, <2>1, <2>2, <2>3 DEF RowsInv
<1>6. CASE OpenPlayer1
  <2>1. strategy_rows' = strategy_rows /\ row' = row /\ phase = "partition" /\ Opens(FileOf(1))
    BY <1>3, <1>6 DEF OpenPlayer1
  <2>2. row = << >> /\ KeptTo(1, 0) /\ KeptTo(2, 0)
    BY <1>2, <2>1 DEF RowsInv
  <2>3. KeptTo(1, 0)' /\ KeptTo(2, 0)' /\ KeptSome(1)' /\ KeptSome(2)'
    BY <1>1, <1>3, <2>1, <2>2, KeptIs, KeptStays
  <2>4. \/ phase' = "player1" /\ IsReading(1)'
        \/ phase' = "threw" /\ "player1" \notin DOMAIN files
    BY <1>1, <1>2, <1>3, <2>1, <2>2, OpensPlayer
  <2>5. damage.kind = "none" => phase' # "threw"
    BY <1>2, <1>3, <2>4 DEF File
  <2> QED
    BY <1>1, <1>2, <2>1, <2>2, <2>3, <2>4, <2>5 DEF RowsInv
<1>7. ASSUME NEW p \in 1 .. 2, phase = FileOf(p), read_key \/ read_slot \/ emplace
      PROVE  RowsInv'
  <2>1. /\ IsReading(p)
        /\ p = 1 => KeptTo(2, 0)
        /\ p = 2 => KeptAll(1)
    BY <1>2, <1>3, <1>7 DEF RowsInv
  <2>2. ASSUME phase' = phase, IsReading(p)', DOMAIN strategy_rows' = 1 .. 2,
               \A q \in 1 .. 2 : q # p => strategy_rows'[q] = strategy_rows[q]
        PROVE  RowsInv'
    <3>1. p = 1 => KeptTo(2, 0)'
      BY <1>1, <1>3, <2>1, <2>2, KeptStays
    <3>2. p = 2 => KeptAll(1)'
      BY <1>1, <1>3, <2>1, <2>2, KeptStays
    <3>3. p = 1 \/ p = 2
      OBVIOUS
    <3> QED
      BY <1>1, <1>2, <1>3, <1>7, <2>2, <3>1, <3>2, <3>3 DEF RowsInv
  <2>3. KeptSome(1) /\ KeptSome(2)
    <3>1. p = 1 \/ p = 2
      OBVIOUS
    <3> QED
      BY <1>3, <2>1, <3>1, KeptIs
  <2>4. ASSUME phase' = "threw", strategy_rows' = strategy_rows, damage.kind # "none"
        PROVE  RowsInv'
    <3>1. KeptSome(1)' /\ KeptSome(2)'
      BY <1>1, <1>3, <2>3, <2>4, KeptStays
    <3> QED
      BY <1>1, <1>2, <2>4, <3>1 DEF RowsInv
  <2>5. ASSUME AfterRows, unread = << >>, row' = << >>, KeptAll(p), strategy_rows' = strategy_rows
        PROVE  RowsInv'
    <3>1. CASE p = 1
      <4>1. Opens(FileOf(2)) /\ KeptTo(2, 0)
        BY <1>3, <1>7, <2>1, <2>5, <3>1 DEF AfterRows
      <4>2. \/ phase' = "player2" /\ IsReading(2)'
            \/ phase' = "threw" /\ "player2" \notin DOMAIN files
        BY <1>1, <1>2, <1>3, <2>5, <4>1, OpensPlayer
      <4>3. damage.kind = "none" => phase' # "threw"
        BY <1>2, <1>3, <4>2 DEF File
      <4>4. KeptAll(1)' /\ KeptSome(1)' /\ KeptSome(2)'
        BY <1>1, <1>3, <2>3, <2>5, <3>1, KeptStays
      <4> QED
        BY <1>1, <1>2, <2>5, <4>2, <4>3, <4>4 DEF RowsInv
    <3>2. CASE p = 2
      <4>1. phase' = "loaded"
        BY <1>3, <1>7, <2>5, <3>2 DEF AfterRows, Goes
      <4>2. KeptAll(1)' /\ KeptAll(2)'
        BY <1>1, <1>3, <2>1, <2>5, <3>2, KeptStays
      <4> QED
        BY <1>1, <1>2, <2>5, <4>1, <4>2 DEF RowsInv
    <3> QED
      BY <3>1, <3>2
  <2>6. CASE read_key
    <3>1. /\ strategy_rows' = strategy_rows
          /\ \/ phase' = phase /\ IsReading(p)'
             \/ AfterRows /\ unread = << >> /\ row' = << >> /\ KeptAll(p)
             \/ phase' = "threw" /\ damage.kind # "none"
      BY <1>2, <1>7, <2>1, <2>6, KeyIsRead
    <3> QED
      BY <1>2, <2>2, <2>4, <2>5, <3>1
  <2>7. CASE read_slot
    <3>1. /\ strategy_rows' = strategy_rows
          /\ \/ phase' = phase /\ IsReading(p)'
             \/ phase' = "threw" /\ damage.kind # "none"
      BY <1>2, <1>7, <2>1, <2>7, SlotIsRead
    <3> QED
      BY <1>2, <2>2, <2>4, <3>1
  <2>8. CASE emplace
    <3>1. /\ phase' = phase /\ DOMAIN strategy_rows' = 1 .. 2 /\ IsReading(p)'
          /\ \A q \in 1 .. 2 : q # p => strategy_rows'[q] = strategy_rows[q]
      BY <1>2, <1>7, <2>1, <2>8, RowIsKept
    <3> QED
      BY <2>2, <3>1
  <2> QED
    BY <1>7, <2>6, <2>7, <2>8
<1>8. CASE read_key \/ read_slot \/ emplace
  <2>1. phase \in {"player1", "player2"}
    BY <1>8 DEF read_key, read_slot, emplace, PlayerFile, PlayerOf
  <2> QED
    BY <1>3, <1>7, <1>8, <2>1
<1>9. CASE UNCHANGED load_vars
  BY <1>1, <1>2, <1>9 DEF load_vars, RowsInv, KeptTo, KeptSome, KeptAll, IsReading, Reading
<1> QED
  BY <1>4, <1>5, <1>6, <1>8, <1>9 DEF LoadNext

\* A player file that is whole, missing or cut between two words gives back
\* rows that were written and no others; if every file is whole the load
\* returns with all of them, the first of each key.
THEOREM RowsAreReadBack == LoadSpec => []RowsReadBack
<1>1. RowsInv /\ PartitionInv => RowsReadBack
  <2> SUFFICES ASSUME RowsInv, PartitionInv, damage.kind \in {"none", "missing", "cut"}
               PROVE  RowsReadBack
    BY DEF RowsReadBack
  <2>1. KeptSome(1) /\ KeptSome(2)
    <3>1. 1 \in 1 .. 2 /\ 2 \in 1 .. 2
      OBVIOUS
    <3>2. phase \in {"start", "partition", "player1", "player2", "loaded", "threw"}
      BY DEF PartitionInv
    <3> QED
      BY <3>1, <3>2, KeptIs DEF RowsInv
  <2>2. ASSUME NEW p \in 1 .. 2 PROVE KeptRows(p) \subseteq WrittenRows(p)
    <3>1. KeptSome(p)
      BY <2>1
    <3> QED
      BY <3>1, KeptAre DEF KeptSome
  <2>3. ASSUME damage.kind = "none", phase = "loaded", NEW p \in 1 .. 2
        PROVE  KeptRows(p) = WrittenRows(p)
    <3>1. KeptAll(p)
      BY <2>3 DEF RowsInv
    <3> QED
      BY <2>3, <3>1, KeptAre DEF KeptAll
  <2> QED
    BY <2>2, <2>3 DEF RowsInv, RowsReadBack
<1> QED
  BY <1>1, PartitionStarts, PartitionKeeps, RowsStart, RowsKeep, PTL DEF LoadSpec
=============================================================================
