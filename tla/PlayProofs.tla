----------------------------- MODULE PlayProofs -----------------------------
(***************************************************************************)
(* Proofs about Play, for every deck, raise cap, stakes and strategy: what *)
(* the program plays, however words and the end of input come, are hands   *)
(* of RhodeIsland dealt from the top of one shuffled deck.                 *)
(***************************************************************************)
EXTENDS Play, FiniteSetTheorems, TLAPS

\* What is proved about hands, of the hand on the table.
Hand == INSTANCE RhodeIslandProofs

-----------------------------------------------------------------------------
(* The operators are the same, whichever module names them *)

\* Hand reads and writes a State as Play does.
LEMMA HandSame ==
  ASSUME NEW s, NEW a
  PROVE  /\ Hand!initial_state = initial_state
         /\ Hand!NoCard = NoCard
         /\ Hand!Player = Player
         /\ Hand!chance_outcomes(s) = chance_outcomes(s)
         /\ Hand!apply_deal(s, a) = apply_deal(s, a)
         /\ Hand!apply_bet(s, a) = apply_bet(s, a)
         /\ Hand!BoardCardNext(s) <=> BoardCardNext(s)
         /\ Hand!is_chance(s) <=> is_chance(s)
         /\ Hand!is_terminal(s) <=> is_terminal(s)
         /\ Hand!is_decision(s) <=> is_decision(s)
         /\ Hand!IsLegal(s, a) <=> IsLegal(s, a)
         /\ Hand!apply_deal_asserts(s, a) <=> apply_deal_asserts(s, a)
         /\ Hand!apply_betting_asserts(s) <=> apply_betting_asserts(s)
<1> USE DEF
            kPlayerCount, kMaxHistory, kMaxBoardCards, kMaxActionsPerRound,
            Player, kActionFold, kActionCallCheck, kActionRaise,
            kChanceCardOffset, NoCard, BlankState, closing_sequence,
            last_action, previous_action, folded, facing_bet, round_closed,
            round_legal_actions, append_action, deal_card,
            begin_next_betting_round, BoardCardNext,
            first_action_before_chance, closing_slot, deal_and_advance,
            deal_and_advance_asserts, chips_due, apply_betting_action,
            DealtCards, deal_outcomes, is_chance, is_terminal, is_decision,
            legal_actions, bet_size_of, own_cards, own_class,
            remember_own_classes, remember_showdown_ranks, initial_state,
            apply_deal, apply_bet, append_action_asserts,
            apply_betting_asserts, apply_deal_asserts, chance_outcomes,
            IsLegal,
            Hand!kPlayerCount, Hand!kMaxHistory, Hand!kMaxBoardCards,
            Hand!kMaxActionsPerRound, Hand!Player, Hand!kActionFold,
            Hand!kActionCallCheck, Hand!kActionRaise, Hand!kChanceCardOffset,
            Hand!NoCard, Hand!BlankState, Hand!closing_sequence,
            Hand!last_action, Hand!previous_action, Hand!folded,
            Hand!facing_bet, Hand!round_closed, Hand!round_legal_actions,
            Hand!append_action, Hand!deal_card, Hand!begin_next_betting_round,
            Hand!BoardCardNext, Hand!first_action_before_chance,
            Hand!closing_slot, Hand!deal_and_advance,
            Hand!deal_and_advance_asserts, Hand!chips_due,
            Hand!apply_betting_action, Hand!DealtCards, Hand!deal_outcomes,
            Hand!is_chance, Hand!is_terminal, Hand!is_decision,
            Hand!legal_actions, Hand!bet_size_of, Hand!own_cards,
            Hand!own_class, Hand!remember_own_classes,
            Hand!remember_showdown_ranks, Hand!initial_state, Hand!apply_deal,
            Hand!apply_bet, Hand!append_action_asserts,
            Hand!apply_betting_asserts, Hand!apply_deal_asserts,
            Hand!chance_outcomes, Hand!IsLegal
<1>1. Hand!initial_state = initial_state
  BY ZenonT(30)
<1>2. Hand!NoCard = NoCard
  BY ZenonT(30)
<1>3. Hand!Player = Player
  BY ZenonT(30)
<1>4. Hand!chance_outcomes(s) = chance_outcomes(s)
  BY ZenonT(30)
<1>5. Hand!apply_deal(s, a) = apply_deal(s, a)
  BY ZenonT(30)
<1>6. Hand!apply_bet(s, a) = apply_bet(s, a)
  BY ZenonT(30)
<1>7. Hand!BoardCardNext(s) <=> BoardCardNext(s)
  BY ZenonT(30)
<1>8. Hand!is_chance(s) <=> is_chance(s)
  BY ZenonT(30)
<1>9. Hand!is_terminal(s) <=> is_terminal(s)
  BY ZenonT(30)
<1>10. Hand!is_decision(s) <=> is_decision(s)
  BY ZenonT(30)
<1>11. Hand!IsLegal(s, a) <=> IsLegal(s, a)
  BY ZenonT(30)
<1>12. Hand!apply_deal_asserts(s, a) <=> apply_deal_asserts(s, a)
  BY ZenonT(30)
<1>13. Hand!apply_betting_asserts(s) <=> apply_betting_asserts(s)
  BY ZenonT(30)
<1> QED
  BY <1>1, <1>2, <1>3, <1>4, <1>5, <1>6, <1>7, <1>8, <1>9, <1>10, <1>11, <1>12, <1>13, ZenonT(30)

\* So does Game.
LEMMA GameSame ==
  ASSUME NEW s, NEW a
  PROVE  /\ Game!initial_state = initial_state
         /\ Game!NoCard = NoCard
         /\ Game!Player = Player
         /\ Game!chance_outcomes(s) = chance_outcomes(s)
         /\ Game!apply_deal(s, a) = apply_deal(s, a)
         /\ Game!apply_bet(s, a) = apply_bet(s, a)
         /\ Game!BoardCardNext(s) <=> BoardCardNext(s)
         /\ Game!is_chance(s) <=> is_chance(s)
         /\ Game!is_terminal(s) <=> is_terminal(s)
         /\ Game!is_decision(s) <=> is_decision(s)
         /\ Game!IsLegal(s, a) <=> IsLegal(s, a)
         /\ Game!apply_deal_asserts(s, a) <=> apply_deal_asserts(s, a)
         /\ Game!apply_betting_asserts(s) <=> apply_betting_asserts(s)
<1> USE DEF
            kPlayerCount, kMaxHistory, kMaxBoardCards, kMaxActionsPerRound,
            Player, kActionFold, kActionCallCheck, kActionRaise,
            kChanceCardOffset, NoCard, BlankState, closing_sequence,
            last_action, previous_action, folded, facing_bet, round_closed,
            round_legal_actions, append_action, deal_card,
            begin_next_betting_round, BoardCardNext,
            first_action_before_chance, closing_slot, deal_and_advance,
            deal_and_advance_asserts, chips_due, apply_betting_action,
            DealtCards, deal_outcomes, is_chance, is_terminal, is_decision,
            legal_actions, bet_size_of, own_cards, own_class,
            remember_own_classes, remember_showdown_ranks, initial_state,
            apply_deal, apply_bet, append_action_asserts,
            apply_betting_asserts, apply_deal_asserts, chance_outcomes,
            IsLegal,
            Game!kPlayerCount, Game!kMaxHistory, Game!kMaxBoardCards,
            Game!kMaxActionsPerRound, Game!Player, Game!kActionFold,
            Game!kActionCallCheck, Game!kActionRaise, Game!kChanceCardOffset,
            Game!NoCard, Game!BlankState, Game!closing_sequence,
            Game!last_action, Game!previous_action, Game!folded,
            Game!facing_bet, Game!round_closed, Game!round_legal_actions,
            Game!append_action, Game!deal_card, Game!begin_next_betting_round,
            Game!BoardCardNext, Game!first_action_before_chance,
            Game!closing_slot, Game!deal_and_advance,
            Game!deal_and_advance_asserts, Game!chips_due,
            Game!apply_betting_action, Game!DealtCards, Game!deal_outcomes,
            Game!is_chance, Game!is_terminal, Game!is_decision,
            Game!legal_actions, Game!bet_size_of, Game!own_cards,
            Game!own_class, Game!remember_own_classes,
            Game!remember_showdown_ranks, Game!initial_state, Game!apply_deal,
            Game!apply_bet, Game!append_action_asserts,
            Game!apply_betting_asserts, Game!apply_deal_asserts,
            Game!chance_outcomes, Game!IsLegal
<1>1. Game!initial_state = initial_state
  BY ZenonT(30)
<1>2. Game!NoCard = NoCard
  BY ZenonT(30)
<1>3. Game!Player = Player
  BY ZenonT(30)
<1>4. Game!chance_outcomes(s) = chance_outcomes(s)
  BY ZenonT(30)
<1>5. Game!apply_deal(s, a) = apply_deal(s, a)
  BY ZenonT(30)
<1>6. Game!apply_bet(s, a) = apply_bet(s, a)
  BY ZenonT(30)
<1>7. Game!BoardCardNext(s) <=> BoardCardNext(s)
  BY ZenonT(30)
<1>8. Game!is_chance(s) <=> is_chance(s)
  BY ZenonT(30)
<1>9. Game!is_terminal(s) <=> is_terminal(s)
  BY ZenonT(30)
<1>10. Game!is_decision(s) <=> is_decision(s)
  BY ZenonT(30)
<1>11. Game!IsLegal(s, a) <=> IsLegal(s, a)
  BY ZenonT(30)
<1>12. Game!apply_deal_asserts(s, a) <=> apply_deal_asserts(s, a)
  BY ZenonT(30)
<1>13. Game!apply_betting_asserts(s) <=> apply_betting_asserts(s)
  BY ZenonT(30)
<1> QED
  BY <1>1, <1>2, <1>3, <1>4, <1>5, <1>6, <1>7, <1>8, <1>9, <1>10, <1>11, <1>12, <1>13, ZenonT(30)

\* The constants are as its theorems take them.
LEMMA HandAssumed ==
  /\ Deck \subseteq 0 .. 51 /\ Hand!IsFiniteSet(Deck)
  /\ Hand!Cardinality(Deck) >= Hand!kRihCardsDealt
  /\ RoundBet \in [Hand!Street -> Nat \ {0}] /\ Ante \in Nat
  /\ MaxRaises \in Nat \ {0}
  /\ Hand!max_history_depth(Hand!kRihRoundCount, MaxRaises, Hand!kRihCardsDealt)
       <= Hand!kMaxHistory
  /\ \A t \in Hand!Held(2) : Strength[t] \in Nat
  /\ ClassCount \in [Hand!Street -> Nat]
  /\ \A street \in Hand!Street : \A t \in Hand!Held(street) :
       ClassOf[t] \in Nat /\ ClassOf[t] < ClassCount[street]
<1>1. Hand!kRihCardsDealt = kRihCardsDealt /\ Hand!Street = Street
      /\ \A r : Hand!Held(r) = Held(r)
  BY DEF Hand!kRihCardsDealt, kRihCardsDealt, Hand!Street, Street,
         Hand!kRihRoundCount, kRihRoundCount, Hand!Held, Held
<1>2. Hand!max_history_depth(Hand!kRihRoundCount, MaxRaises, Hand!kRihCardsDealt)
        = max_history_depth(kRihRoundCount, MaxRaises, kRihCardsDealt)
      /\ Hand!kMaxHistory = kMaxHistory
  BY DEF Hand!kRihCardsDealt, kRihCardsDealt, Hand!kRihRoundCount, kRihRoundCount,
         Hand!kMaxHistory, kMaxHistory, Hand!max_history_depth, max_history_depth
<1>3. Hand!IsFiniteSet(Deck) <=> IsFiniteSet(Deck)
  BY DEF Hand!IsFiniteSet, IsFiniteSet
<1>4. Hand!Cardinality(Deck) = Cardinality(Deck)
  BY DEF Hand!Cardinality, Cardinality
<1> QED
  BY <1>1, <1>2, <1>3, <1>4, DeckAssumption, StakesAssumption, RaiseCapAssumption,
     StrengthAssumption, ClassAssumption

-----------------------------------------------------------------------------
(* The invariant *)

\* The cards on the table are the first of the deck, in the order dealt.
FromDeck ==
  /\ state.hole_cards[0] # NoCard => state.hole_cards[0] = deck[1]
  /\ state.hole_cards[1] # NoCard => state.hole_cards[1] = deck[2]
  /\ \A i \in 0 .. state.board_count - 1 : state.board_cards[i] = deck[i + 3]
  /\ next_board_card = kHoleCardsDealt + state.board_count

HandGood == state \in Hand!States /\ Hand!Good(state)

\* A hand is under way whenever a word is matched, and the next is shuffled
\* only once it is over.
PInv ==
  /\ phase \in {"load", "shuffle", "hand", "typed", "exit"}
  /\ deck \in Shuffled
  /\ HandGood
  /\ phase = "load" => state = initial_state
  /\ phase = "shuffle" => state = initial_state \/ is_terminal(state)
  /\ phase = "typed" => is_decision(state)
  /\ phase \in {"hand", "typed"} => FromDeck

\* Four cards of the deck are different cards.
LEMMA TopOfDeck ==
  ASSUME deck \in Shuffled
  PROVE  /\ \A i \in 1 .. 4 : deck[i] \in Deck
         /\ \A i, j \in 1 .. 4 : i # j => deck[i] # deck[j]
<1>1. Cardinality(Deck) >= 4 /\ Cardinality(Deck) \in Nat
  BY DeckAssumption, FS_CardinalityType DEF kRihCardsDealt
<1>2. 1 .. 4 \subseteq DOMAIN deck /\ deck \in [1 .. Cardinality(Deck) -> Deck]
  BY <1>1 DEF Shuffled
<1> QED
  BY <1>2 DEF Shuffled

-----------------------------------------------------------------------------
(* Steps of a hand *)

\* A legal action, whoever takes it, is a step of the game and touches no card.
LEMMA ActionIsPlayed ==
  ASSUME HandGood, is_decision(state), NEW a, IsLegal(state, a),
         state' = apply_bet(state, a), UNCHANGED <<deck, next_board_card>>
  PROVE  Game!Next /\ HandGood' /\ (FromDeck => FromDeck')
<1>1. Hand!is_decision(state) /\ Hand!IsLegal(state, a) /\ state' = Hand!apply_bet(state, a)
  BY HandSame
<1>2. a \in {0, 1, 2}
  BY DEF IsLegal, legal_actions, round_legal_actions, kActionFold, kActionCallCheck,
         kActionRaise
<1>3. Hand!kActionFold = 0 /\ Hand!kActionCallCheck = 1 /\ Hand!kActionRaise = 2
  BY DEF Hand!kActionFold, Hand!kActionCallCheck, Hand!kActionRaise
<1>4. HandGood' /\ Hand!SameCards(state, state')
  <2>1. CASE a = 0
    BY <1>1, <1>3, <2>1, HandAssumed, Hand!FoldKeeps, Hand!FoldFields DEF HandGood
  <2>2. CASE a = 1
    BY <1>1, <1>3, <2>2, HandAssumed, Hand!CallKeeps, Hand!CallFields DEF HandGood
  <2>3. CASE a = 2
    BY <1>1, <1>3, <2>3, HandAssumed, Hand!RaiseKeeps, Hand!RaiseFields DEF HandGood
  <2> QED
    BY <1>2, <2>1, <2>2, <2>3
<1>5. FromDeck => FromDeck'
  BY <1>4 DEF FromDeck, Hand!SameCards
<1>6. Game!Next
  <2>1. apply_betting_asserts(state)
    <3>1. Hand!AssertsHold
      BY HandAssumed, Hand!AssertsFollow DEF HandGood, Hand!TypeOK
    <3>2. Hand!apply_betting_asserts(state)
      BY <1>1, <3>1 DEF Hand!AssertsHold
    <3> QED
      BY <3>2, HandSame
  <2>2. Game!Act(a)
    BY <2>1, GameSame DEF Game!Act
  <2> QED
    BY <1>2, <2>2 DEF Game!Next, Game!Fold, Game!CallCheck, Game!Raise,
                      Game!kActionFold, Game!kActionCallCheck, Game!kActionRaise
<1> QED
  BY <1>4, <1>5, <1>6

\* A card nobody holds, dealt at a chance node, is a step of the game.
LEMMA DealIsPlayed ==
  ASSUME HandGood, is_chance(state), NEW c \in chance_outcomes(state),
         state' = apply_deal(state, c)
  PROVE  Game!Next /\ HandGood'
<1>1. Hand!is_chance(state) /\ c \in Hand!chance_outcomes(state)
      /\ state' = Hand!apply_deal(state, c)
  BY HandSame
<1>2. HandGood'
  BY <1>1, HandAssumed, Hand!DealKeeps DEF HandGood
<1>3. apply_deal_asserts(state, c)
  <2>1. Hand!AssertsHold
    BY HandAssumed, Hand!AssertsFollow DEF HandGood, Hand!TypeOK
  <2>2. Hand!apply_deal_asserts(state, c)
    BY <1>1, <2>1 DEF Hand!AssertsHold
  <2> QED
    BY <2>2, HandSame
<1>4. Game!Deal
  BY <1>3, GameSame DEF Game!Deal
<1> QED
  BY <1>2, <1>4 DEF Game!Next

\* The hole cards are the first two of the deck.
LEMMA HoleCardsFromDeck ==
  ASSUME deck \in Shuffled, HandGood, FromDeck, deal_hole_card
  PROVE  Game!Next /\ HandGood' /\ FromDeck'
<1> DEFINE seat == IF state.hole_cards[0] = NoCard THEN 0 ELSE 1
           c == deck[seat + 1]
<1>1. state' = apply_deal(state, c) /\ ~BoardCardNext(state)
      /\ UNCHANGED <<deck, next_board_card>>
  BY DEF deal_hole_card, DeckCard, kHuman
<1>2. is_chance(state)
  BY <1>1 DEF BoardCardNext, is_chance
<1>3. Player = {0, 1} /\ Hand!Player = {0, 1} /\ Hand!NoCard = NoCard
  BY DEF Player, kPlayerCount, Hand!Player, Hand!kPlayerCount, Hand!NoCard, NoCard
<1>4. state.hole_cards[1] = NoCard /\ state.board_count = 0
  BY <1>1, <1>3 DEF BoardCardNext, HandGood, Hand!Good, Hand!CardsInv
<1>5. c \in Deck /\ (seat = 1 => c # state.hole_cards[0])
  BY TopOfDeck DEF FromDeck
<1>6. c \in chance_outcomes(state)
  BY <1>3, <1>4, <1>5 DEF chance_outcomes, deal_outcomes, DealtCards
<1>7. Game!Next /\ HandGood'
  BY <1>1, <1>2, <1>6, DealIsPlayed
<1>8. /\ state'.hole_cards = [state.hole_cards EXCEPT ![seat] = c]
      /\ state'.board_count = 0
  <2>1. Hand!is_chance(state) /\ c \in Hand!chance_outcomes(state)
        /\ state' = Hand!apply_deal(state, c) /\ ~Hand!BoardCardNext(state)
    BY <1>1, <1>2, <1>6, HandSame
  <2>2. Hand!HoleSeat(state) = seat
    BY <1>3 DEF Hand!HoleSeat
  <2> HIDE DEF c, seat
  <2> DEFINE u == Hand!apply_deal(state, c)
  <2>3. /\ u.hole_cards = [state.hole_cards EXCEPT ![Hand!HoleSeat(state)] = c]
        /\ u.board_count = 0
    BY <2>1, HandAssumed, Hand!DealFields DEF HandGood
  <2> HIDE DEF u
  <2> QED
    BY <2>1, <2>2, <2>3 DEF u
<1>9. state.hole_cards \in [{0, 1} -> Deck \cup {NoCard}]
  BY <1>3 DEF HandGood, Hand!States
<1>10. FromDeck'
  BY <1>1, <1>4, <1>8, <1>9 DEF FromDeck
<1> QED
  BY <1>7, <1>10

\* The board cards are the two after them.
LEMMA BoardCardsFromDeck ==
  ASSUME deck \in Shuffled, HandGood, FromDeck, deal_board_card
  PROVE  Game!Next /\ HandGood' /\ FromDeck'
<1> DEFINE n == state.board_count
           c == deck[n + 3]
<1>1. /\ is_chance(state) /\ BoardCardNext(state) /\ next_board_card = n + 2
      /\ state' = apply_deal(state, c)
      /\ next_board_card' = next_board_card + 1 /\ UNCHANGED deck
  <2>1. n \in Nat
    BY DEF HandGood, Hand!States, Hand!Street, Hand!kRihRoundCount
  <2>2. next_board_card = n + 2 /\ next_board_card + 1 = n + 3
    BY <2>1 DEF FromDeck, kHoleCardsDealt
  <2> QED
    BY <2>2 DEF deal_board_card, DeckCard
<1>2. Hand!is_chance(state) /\ Hand!BoardCardNext(state)
  BY <1>1, HandSame
<1>3. n \in {0, 1}
  BY <1>2, HandAssumed, Hand!BoardDueShape DEF HandGood
<1>4. Player = {0, 1} /\ Hand!Player = {0, 1} /\ Hand!NoCard = NoCard
  BY DEF Player, kPlayerCount, Hand!Player, Hand!kPlayerCount, Hand!NoCard, NoCard
<1>5. /\ state.hole_cards[0] = deck[1] /\ state.hole_cards[1] = deck[2]
      /\ n = 1 => state.board_cards[0] = deck[3]
  BY <1>1, <1>3 DEF BoardCardNext, FromDeck
<1>6. c \in Deck /\ c # deck[1] /\ c # deck[2] /\ (n = 1 => c # deck[3])
  BY <1>3, TopOfDeck
<1>7. c \in chance_outcomes(state)
  <2>1. DealtCards(state) \subseteq {deck[1], deck[2]} \cup (IF n = 1 THEN {deck[3]} ELSE {})
    BY <1>3, <1>4, <1>5 DEF DealtCards
  <2> QED
    BY <1>6, <2>1 DEF chance_outcomes, deal_outcomes
<1>8. Game!Next /\ HandGood'
  BY <1>1, <1>7, DealIsPlayed
<1>9. /\ state'.hole_cards = state.hole_cards
      /\ state'.board_cards = [state.board_cards EXCEPT ![n] = c]
      /\ state'.board_count = n + 1
  <2>1. c \in Hand!chance_outcomes(state) /\ state' = Hand!apply_deal(state, c)
    BY <1>1, <1>7, HandSame
  <2> QED
    BY <1>2, <2>1, HandAssumed, Hand!DealFields DEF HandGood
<1>10. state.board_cards \in [0 .. 1 -> Deck \cup {NoCard}]
  BY <1>4 DEF HandGood, Hand!States
<1>11. FromDeck'
  BY <1>1, <1>3, <1>9, <1>10 DEF FromDeck, kHoleCardsDealt
<1> QED
  BY <1>8, <1>11

-----------------------------------------------------------------------------
(* Every step of the program *)

LEMMA PInit == Init => PInv /\ Game!Init
<1> SUFFICES ASSUME Init PROVE PInv /\ Game!Init
  OBVIOUS
<1>1. state = initial_state /\ phase = "load" /\ deck \in Shuffled
  BY DEF Init
<1>2. HandGood
  BY <1>1, HandSame, HandAssumed, Hand!InitGood DEF HandGood
<1>3. Game!Init
  BY <1>1, GameSame DEF Game!Init
<1> QED
  BY <1>1, <1>2, <1>3 DEF PInv

LEMMA PNext ==
  ASSUME PInv, [Next]_vars
  PROVE  PInv' /\ (Game!Next \/ UNCHANGED state)
<1>1. CASE load_strategy
  BY <1>1 DEF load_strategy, PInv, HandGood
<1>2. CASE shuffle
  <2>1. /\ state' = initial_state /\ deck' \in Shuffled /\ phase' = "hand"
        /\ next_board_card' = kHoleCardsDealt
    BY <1>2 DEF shuffle
  <2>2. HandGood'
    BY <2>1, HandSame, HandAssumed, Hand!InitGood DEF HandGood
  <2>3. FromDeck'
    <3>1. /\ \A p \in {0, 1} : initial_state.hole_cards[p] = NoCard
          /\ initial_state.board_count = 0
      BY DEF initial_state, BlankState, Player, kPlayerCount
    <3> QED
      BY <2>1, <3>1 DEF FromDeck, kHoleCardsDealt
  <2>4. Game!Next \/ UNCHANGED state
    BY <1>2, <2>1, GameSame DEF shuffle, PInv, Game!Next, Game!NewHand
  <2> QED
    BY <2>1, <2>2, <2>3, <2>4 DEF PInv
<1>3. CASE deal_hole_card
  BY <1>3, HoleCardsFromDeck DEF deal_hole_card, PInv
<1>4. CASE deal_board_card
  BY <1>4, BoardCardsFromDeck DEF deal_board_card, PInv
<1>5. CASE match_word
  <2>1. CASE Named(state, typed) = {}
    BY <1>5, <2>1 DEF match_word, PInv, HandGood, FromDeck
  <2>2. CASE Named(state, typed) # {}
    <3> DEFINE a == CHOOSE action \in Named(state, typed) : TRUE
    <3>1. a \in Named(state, typed)
      BY <2>2
    <3>2. IsLegal(state, a)
      BY <3>1 DEF Named, Legal, IsLegal
    <3>3. /\ state' = apply_bet(state, a) /\ phase = "typed" /\ phase' = "hand"
          /\ UNCHANGED <<deck, next_board_card>>
      BY <1>5, <2>2 DEF match_word
    <3> HIDE DEF a
    <3>4. Game!Next /\ HandGood' /\ FromDeck'
      BY <3>2, <3>3, ActionIsPlayed DEF PInv
    <3> QED
      BY <3>3, <3>4 DEF PInv
  <2> QED
    BY <2>1, <2>2
<1>6. CASE read_fails
  BY <1>6 DEF read_fails, PInv, HandGood
<1>7. CASE solver_move
  <2>1. PICK column \in DOMAIN legal_actions(state) :
          state' = apply_bet(state, legal_actions(state)[column])
    BY <1>7 DEF solver_move
  <2>2. IsLegal(state, legal_actions(state)[column])
    BY DEF IsLegal
  <2>3. /\ is_decision(state) /\ phase = "hand" /\ phase' = "hand"
        /\ UNCHANGED <<deck, next_board_card>>
    BY <1>7 DEF solver_move
  <2>4. Game!Next /\ HandGood' /\ FromDeck'
    BY <2>1, <2>2, <2>3, ActionIsPlayed DEF PInv
  <2> QED
    BY <2>3, <2>4 DEF PInv
<1>8. CASE report_result
  BY <1>8 DEF report_result, PInv, HandGood
<1>9. CASE CloseInput
  BY <1>9 DEF CloseInput, PInv, HandGood, FromDeck
<1>10. CASE \E word \in Word : read_word(word)
  BY <1>10 DEF read_word, HumanToMove, PInv, HandGood, FromDeck
<1>11. CASE UNCHANGED vars
  BY <1>11 DEF vars, PInv, HandGood, FromDeck
<1> QED
  BY <1>1, <1>2, <1>3, <1>4, <1>5, <1>6, <1>7, <1>8, <1>9, <1>10, <1>11 DEF Next, Program

\* The cards on the table are always the top of the one deck that was
\* shuffled, and a word is only matched while the human is to act.
THEOREM DealtFromOneDeck == Spec => []PInv
<1>1. Init => PInv
  BY PInit
<1>2. PInv /\ [Next]_vars => PInv'
  BY PNext
<1> QED
  BY <1>1, <1>2, PTL DEF Spec

\* Whatever the human types and wherever input ends, what the program plays is
\* one hand of Rhode Island hold'em after the other.
THEOREM HandsAreOfTheGame == Spec => HandsAreHands
<1>1. Init => PInv /\ Game!Init
  BY PInit
<1>2. PInv /\ [Next]_vars => PInv' /\ [Game!Next]_(Game!vars)
  BY PNext DEF Game!vars
<1> QED
  BY <1>1, <1>2, PTL DEF Spec, HandsAreHands, Game!Spec
=============================================================================
