-------------------------------- MODULE Play --------------------------------
(***************************************************************************)
(* The cfr_play program (play/play_rih.cpp): hands against a strategy, the *)
(* human in seat 0 typing words until input ends.  PlayersRow gives, for a *)
(* row of the tables, the columns the strategy takes with positive chance. *)
(***************************************************************************)
EXTENDS RhodeIslandGame

CONSTANTS Columns,   \* by row number: the columns played
          Hands      \* bound: hands looked at

VARIABLES
  phase,             \* "load", "shuffle", "hand", "typed" or "exit"
  stdin,             \* "open" or "ended"
  typed,             \* the word read and not matched yet
  deck,              \* the shuffled deck
  state,             \* the hand
  next_board_card,
  hands_played, human_total

vars == <<phase, stdin, typed, deck, state, next_board_card, hands_played, human_total>>

kHuman  == 0
kSolver == 1
kHoleCardsDealt == 2

Word == {"fold", "call", "check", "raise", "bet", "other"}

\* Slip: the words are those of a round without a bet.
action_word_unfaced(action, s) ==
  CASE action = kActionFold      -> "fold"
    [] action = kActionCallCheck -> "check"
    [] action = kActionRaise     -> "bet"

action_word(action, s) ==
  CASE action = kActionFold      -> "fold"
    [] action = kActionCallCheck -> IF facing_bet(s) THEN "call" ELSE "check"
    [] action = kActionRaise     -> IF facing_bet(s) THEN "raise" ELSE "bet"

Legal(s) == {legal_actions(s)[i] : i \in DOMAIN legal_actions(s)}
Named(s, word) == {action \in Legal(s) : action_word(action, s) = word}

\* Entry i of the C++ vector.
DeckCard(i) == deck[i + 1]

Shuffled == {order \in [1 .. Cardinality(Deck) -> Deck] :
               \A i, j \in DOMAIN order : i # j => order[i] # order[j]}

-----------------------------------------------------------------------------
(* The program *)

Init ==
  /\ phase = "load" /\ stdin = "open" /\ typed = ""
  /\ deck \in {order \in Shuffled : \A i, j \in DOMAIN order : i < j => order[i] < order[j]}
  /\ state = initial_state /\ next_board_card = 0
  /\ hands_played = 0 /\ human_total = 0

\* A strategy that cannot be loaded ends the program before the first hand.
load_strategy ==
  /\ phase = "load"
  /\ phase' \in {"shuffle", "exit"}
  /\ UNCHANGED <<stdin, typed, deck, state, next_board_card, hands_played, human_total>>

shuffle ==
  /\ phase = "shuffle" /\ hands_played < Hands
  /\ phase' = "hand"
  /\ deck' \in Shuffled
  /\ state' = initial_state /\ next_board_card' = kHoleCardsDealt
  /\ UNCHANGED <<stdin, typed, hands_played, human_total>>

deal_hole_card ==
  /\ phase = "hand" /\ ~BoardCardNext(state)
  /\ state' = apply_deal(state, DeckCard(IF state.hole_cards[kHuman] = NoCard THEN 0 ELSE 1))
  /\ UNCHANGED <<phase, stdin, typed, deck, next_board_card, hands_played, human_total>>

deal_board_card ==
  /\ phase = "hand" /\ BoardCardNext(state) /\ is_chance(state)
  /\ state' = apply_deal(state, DeckCard(next_board_card))
  /\ next_board_card' = next_board_card + 1
  /\ UNCHANGED <<phase, stdin, typed, deck, hands_played, human_total>>

HumanToMove == phase = "hand" /\ is_decision(state) /\ current_player(state) = kHuman

\* ask_human reads a word, and asks again until one names a legal action.
read_word(word) ==
  /\ HumanToMove /\ stdin = "open"
  /\ typed' = word /\ phase' = "typed"
  /\ UNCHANGED <<stdin, deck, state, next_board_card, hands_played, human_total>>

match_word ==
  /\ phase = "typed"
  /\ phase' = "hand" /\ typed' = ""
  /\ IF Named(state, typed) = {} THEN UNCHANGED state
     ELSE state' = apply_bet(state, CHOOSE action \in Named(state, typed) : TRUE)
  /\ UNCHANGED <<stdin, deck, next_board_card, hands_played, human_total>>

\* Slips: the fold that stands for the end of input is played; the end of
\* input is taken for a word that is not legal.
read_fails_folding ==
  /\ HumanToMove /\ stdin = "ended"
  /\ state' = apply_bet(state, kActionFold)
  /\ UNCHANGED <<phase, stdin, typed, deck, next_board_card, hands_played, human_total>>
read_fails_asking_again ==
  /\ HumanToMove /\ stdin = "ended"
  /\ UNCHANGED vars

\* At the end of input ask_human returns a fold, which play_hand never plays:
\* the hand is dropped, not counted, and the program returns 0.
read_fails ==
  /\ HumanToMove /\ stdin = "ended"
  /\ phase' = "exit"
  /\ UNCHANGED <<stdin, typed, deck, state, next_board_card, hands_played, human_total>>

\* The strategy at the row of the state picks a column.
solver_move ==
  /\ phase = "hand" /\ is_decision(state) /\ current_player(state) = kSolver
  /\ \E column \in Columns[infoset_index(state)] \cap DOMAIN legal_actions(state) :
       state' = apply_bet(state, legal_actions(state)[column])
  /\ UNCHANGED <<phase, stdin, typed, deck, next_board_card, hands_played, human_total>>

report_result ==
  /\ phase = "hand" /\ is_terminal(state)
  /\ phase' = "shuffle"
  /\ hands_played' = hands_played + 1
  /\ human_total' = human_total + terminal_utility(state, kHuman)
  /\ UNCHANGED <<stdin, typed, deck, state, next_board_card>>

\* The human may close the input at any time, a word already read or not.
CloseInput ==
  /\ stdin = "open" /\ stdin' = "ended"
  /\ UNCHANGED <<phase, typed, deck, state, next_board_card, hands_played, human_total>>

Program == \/ load_strategy \/ shuffle \/ deal_hole_card \/ deal_board_card
           \/ match_word \/ read_fails \/ solver_move \/ report_result
Next    == Program \/ CloseInput \/ \E word \in Word : read_word(word)

\* The words the rules of the game allow: a bet is faced when the other seat
\* has paid more.
LegalWords ==
  LET faced == state.contribution[kHuman] # state.contribution[kSolver]
  IN  (IF faced THEN {"fold", "call"} ELSE {"check"})
        \cup (IF state.raises_used = MaxRaises THEN {} ELSE IF faced THEN {"raise"} ELSE {"bet"})

\* The program keeps running.  In PatientSpec the human, asked again and
\* again, types in the end some word the rules allow.
Spec        == Init /\ [][Next]_vars /\ WF_vars(Program)
PatientSpec == Spec /\ SF_vars(\E word \in LegalWords : read_word(word))

-----------------------------------------------------------------------------
(* Properties *)

Game == INSTANCE RhodeIsland

\* Every hand is a hand of Rhode Island hold'em, from the two hole cards on:
\* cards come from one deck without repeats, only legal actions are played,
\* also when input ends where no fold is legal, and no hand begins before the
\* one before is over.
HandsAreHands == Game!Spec

\* When input ends the program ends, at the next question at the latest.
EndOfInputEnds == stdin = "ended" ~> (phase = "exit" \/ hands_played = Hands)

\* Every word the rules allow is understood: a patient human gets to the end
\* of hand after hand.
HandsGoOn == <>(phase = "exit" \/ hands_played = Hands \/ stdin = "ended")
=============================================================================
