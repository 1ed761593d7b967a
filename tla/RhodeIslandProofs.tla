------------------------- MODULE RhodeIslandProofs -------------------------
(***************************************************************************)
(* Proofs about RhodeIsland for every deck, raise cap, stakes, strength    *)
(* table and class table that its assumptions admit.                       *)
(*                                                                         *)
(* IInv is the inductive invariant: it says which lines a betting round    *)
(* can be in and what each seat has paid on each of them.  With it         *)
(* RhodeIsland implements FixedLimit: every step of a hand is a step of    *)
(* the rules, and the values remembered along the way are what the rules   *)
(* pay by.  RInv adds what the history is, entry by entry: the rows        *)
(* infoset_index computes along the way lie in their tables, and each can  *)
(* be read back to the history and the cards of its player.                *)
(***************************************************************************)
EXTENDS RhodeIsland, FiniteSetTheorems, SequenceTheorems, TLAPS

\* Cards are dealt in the order hole, hole, flop, turn, each of them once.
CardsInv(s) ==
  /\ s.hole_cards[0] = NoCard => s.hole_cards[1] = NoCard
  /\ s.hole_cards[1] = NoCard => s.board_count = 0 /\ s.round_len = 0
  /\ s.hole_cards[1] # NoCard => s.hole_cards[0] # s.hole_cards[1]
  /\ \A i \in 0 .. s.board_count - 1 :
       s.board_cards[i] \in Deck /\ \A p \in Player : s.board_cards[i] # s.hole_cards[p]
  /\ s.board_count = 2 => s.board_cards[0] # s.board_cards[1]

\* The history holds the dealt cards and at most MaxRaises + 2 actions of each
\* closed street, and the round in progress is at its end.
HistoryInv(s) ==
  /\ s.hole_cards[0] = NoCard => Len(s.history) = 0
  /\ s.hole_cards[1] = NoCard => Len(s.history) <= 1
  /\ s.board_count = 0 => Len(s.history) <= 2 + s.round_len
  /\ s.board_count = 1 => Len(s.history) <= MaxRaises + 5 + s.round_len
  /\ s.board_count = 2 => Len(s.history) <= 2 * MaxRaises + 8 + s.round_len
  /\ s.round_len <= Len(s.history)

Opened(s) == IF opened_with_check(s) THEN 1 ELSE 0

\* The four things a round can look like once somebody has acted.
BetStands(s) ==
  /\ last_action(s) = kActionRaise
  /\ s.raises_used >= 1
  /\ s.round_len = s.raises_used + Opened(s)
Checked(s) ==
  last_action(s) = kActionCallCheck /\ s.round_len = 1 /\ s.raises_used = 0
Closed(s) ==
  /\ round_closed(s)
  /\ s.round_len = s.raises_used + Opened(s) + 1
Folded(s) ==
  /\ last_action(s) = kActionFold
  /\ s.raises_used >= 1
  /\ s.round_len = s.raises_used + Opened(s) + 1

RoundInv(s) ==
  /\ s.round_len = 0 => s.raises_used = 0
  /\ s.round_len # 0 => BetStands(s) \/ Checked(s) \/ Closed(s) \/ Folded(s)

\* What the seats have paid on this street, and that they had paid the same
\* before it.
Level(s, p)  == s.round_contribution[p] = s.level_to_match
Behind(s, p) == s.round_contribution[p] = s.level_to_match - bet_size_of(s)
StakesInv(s) ==
  /\ s.raises_used = 0 => s.level_to_match = 0
  /\ s.raises_used >= 1 => s.level_to_match >= bet_size_of(s)
  /\ s.contribution[0] - s.round_contribution[0]
       = s.contribution[1] - s.round_contribution[1]
  /\ \A p \in Player : s.contribution[p] >= s.round_contribution[p]
  /\ s.round_len = 0 => \A p \in Player : Level(s, p)
  /\ s.round_len # 0 /\ last_action(s) = kActionCallCheck =>
       \A p \in Player : Level(s, p)
  /\ s.round_len # 0 /\ last_action(s) = kActionRaise =>
       Level(s, opponent(current_player(s))) /\ Behind(s, current_player(s))
  /\ s.round_len # 0 /\ last_action(s) = kActionFold =>
       Behind(s, opponent(current_player(s))) /\ Level(s, current_player(s))

Good(s) == CardsInv(s) /\ HistoryInv(s) /\ RoundInv(s) /\ StakesInv(s)

IInv == TypeOK /\ Good(state)

-----------------------------------------------------------------------------
(* What an action does to the fields of a State *)

\* Only a deal touches the cards and what is remembered of them.
SameCards(s, t) ==
  /\ t.hole_cards = s.hole_cards
  /\ t.board_cards = s.board_cards
  /\ t.board_count = s.board_count
  /\ t.closing = s.closing
  /\ t.showdown_rank = s.showdown_rank
  /\ t.card_class = s.card_class

\* A fold only lengthens the round and the history.
LEMMA FoldFields ==
  ASSUME NEW s \in States
  PROVE  LET t == apply_bet(s, kActionFold)
         IN  /\ SameCards(s, t)
             /\ t.history = Append(s.history, kActionFold)
             /\ t.round_len = s.round_len + 1
             /\ t.raises_used = s.raises_used
             /\ t.level_to_match = s.level_to_match
             /\ t.contribution = s.contribution
             /\ t.round_contribution = s.round_contribution
  BY DEF apply_bet, append_action, apply_betting_action, States, SameCards

\* A call or check pays up to the level.
LEMMA CallFields ==
  ASSUME NEW s \in States
  PROVE  LET p == current_player(s)
             t == apply_bet(s, kActionCallCheck)
         IN  /\ SameCards(s, t)
             /\ t.history = Append(s.history, kActionCallCheck)
             /\ t.round_len = s.round_len + 1
             /\ t.raises_used = s.raises_used
             /\ t.level_to_match = s.level_to_match
             /\ t.contribution =
                  [s.contribution EXCEPT
                     ![p] = @ + (s.level_to_match - s.round_contribution[p])]
             /\ t.round_contribution =
                  [s.round_contribution EXCEPT ![p] = s.level_to_match]
  BY DEF apply_bet, append_action, apply_betting_action, chips_due, current_player,
         kActionFold, kActionCallCheck, kActionRaise, States, SameCards

\* A raise lifts the level by the bet of the street and pays up to it.
LEMMA RaiseFields ==
  ASSUME NEW s \in States
  PROVE  LET p == current_player(s)
             level == s.level_to_match + bet_size_of(s)
             t == apply_bet(s, kActionRaise)
         IN  /\ SameCards(s, t)
             /\ t.history = Append(s.history, kActionRaise)
             /\ t.round_len = s.round_len + 1
             /\ t.raises_used = s.raises_used + 1
             /\ t.level_to_match = level
             /\ t.contribution =
                  [s.contribution EXCEPT ![p] = @ + (level - s.round_contribution[p])]
             /\ t.round_contribution = [s.round_contribution EXCEPT ![p] = level]
  BY DEF apply_bet, append_action, apply_betting_action, chips_due, current_player,
         bet_size_of, kActionFold, kActionCallCheck, kActionRaise, States, SameCards

\* The seat to act and its opponent are the two players.
LEMMA Seats ==
  ASSUME NEW s \in States
  PROVE  /\ current_player(s) \in Player
         /\ opponent(current_player(s)) \in Player
         /\ opponent(current_player(s)) # current_player(s)
         /\ Player = {current_player(s), opponent(current_player(s))}
         /\ bet_size_of(s) \in Nat /\ bet_size_of(s) >= 1
<1>1. s.round_len \in Nat /\ s.board_count \in Street
  BY RaiseCapAssumption DEF States
<1>2. s.round_len % 2 \in {0, 1}
  BY <1>1
<1>3. bet_size_of(s) \in Nat \ {0}
  BY <1>1, StakesAssumption DEF bet_size_of
<1> QED
  BY <1>2, <1>3 DEF current_player, opponent, Player, kPlayerCount

\* Appending an action or a card keeps the fields in their ranges.
LEMMA AppendType ==
  ASSUME NEW s \in States, NEW entry \in HistoryEntry
  PROVE  append_action(s, entry) \in States
<1> DEFINE h == Append(s.history, entry)
<1>1. h \in Seq(HistoryEntry)
  BY DEF States
<1>2. append_action(s, entry) = [s EXCEPT !.history = h]
  BY DEF append_action
<1> HIDE DEF h
<1> QED
  BY <1>1, <1>2 DEF States

\* So does a fold, wherever the round has room for one more action.
LEMMA FoldType ==
  ASSUME NEW s \in States, s.round_len + 1 <= MaxRaises + 2
  PROVE  apply_betting_action(s, kActionFold, bet_size_of(s)) \in States
<1>2. s.round_len + 1 \in 0 .. MaxRaises + 2
  BY RaiseCapAssumption DEF States
<1> QED
  BY <1>2 DEF apply_betting_action, States

\* So does a payment of a level that costs the acting seat something in Nat.
LEMMA PaidType ==
  ASSUME NEW s \in States, NEW level \in Nat, NEW raises \in 0 .. MaxRaises,
         NEW length \in 0 .. MaxRaises + 2,
         NEW paid \in [Player -> Nat], NEW thisRound \in [Player -> Nat]
  PROVE  [s EXCEPT !.level_to_match = level, !.raises_used = raises,
                   !.contribution = paid, !.round_contribution = thisRound,
                   !.round_len = length] \in States
  BY DEF States

\* So does a call or check that costs nothing below zero.
LEMMA CallType ==
  ASSUME NEW s \in States, s.round_len + 1 <= MaxRaises + 2,
         s.contribution[current_player(s)]
           + (s.level_to_match - s.round_contribution[current_player(s)]) \in Nat
  PROVE  apply_betting_action(s, kActionCallCheck, bet_size_of(s)) \in States
<1> DEFINE p         == current_player(s)
           due       == s.level_to_match - s.round_contribution[p]
           paid      == [s.contribution EXCEPT ![p] = s.contribution[p] + due]
           thisRound == [s.round_contribution EXCEPT ![p] = s.level_to_match]
           length    == s.round_len + 1
<1>1. p \in Player /\ p = s.round_len % kPlayerCount
  BY Seats DEF current_player
<1>2. length \in 0 .. MaxRaises + 2
  BY RaiseCapAssumption, SMTT(30) DEF States
<1>3. paid \in [Player -> Nat]
  BY <1>1 DEF States
<1>4. thisRound \in [Player -> Nat]
  BY <1>1 DEF States
<1>5. apply_betting_action(s, kActionCallCheck, bet_size_of(s))
        = [s EXCEPT !.level_to_match = s.level_to_match, !.raises_used = s.raises_used,
                    !.contribution = paid, !.round_contribution = thisRound,
                    !.round_len = length]
  BY <1>1 DEF apply_betting_action, chips_due, kActionFold, kActionCallCheck, kActionRaise
<1>6. s.level_to_match \in Nat /\ s.raises_used \in 0 .. MaxRaises
  BY DEF States
<1> HIDE DEF p, due, paid, thisRound, length
<1> DEFINE t == [s EXCEPT !.level_to_match = s.level_to_match, !.raises_used = s.raises_used,
                    !.contribution = paid, !.round_contribution = thisRound,
                    !.round_len = length]
<1>7. t \in States
  BY <1>2, <1>3, <1>4, <1>6, PaidType
<1> QED
  BY <1>5, <1>7

\* So does a raise below the cap.
LEMMA RaiseType ==
  ASSUME NEW s \in States, s.round_len + 1 <= MaxRaises + 2,
         s.raises_used < MaxRaises,
         s.contribution[current_player(s)]
           + ((s.level_to_match + bet_size_of(s))
                - s.round_contribution[current_player(s)]) \in Nat
  PROVE  apply_betting_action(s, kActionRaise, bet_size_of(s)) \in States
<1> DEFINE p         == current_player(s)
           level     == s.level_to_match + bet_size_of(s)
           due       == level - s.round_contribution[p]
           paid      == [s.contribution EXCEPT ![p] = s.contribution[p] + due]
           thisRound == [s.round_contribution EXCEPT ![p] = level]
           raises    == s.raises_used + 1
           length    == s.round_len + 1
<1>1. p \in Player /\ p = s.round_len % kPlayerCount
  BY Seats DEF current_player
<1>2. length \in 0 .. MaxRaises + 2 /\ raises \in 0 .. MaxRaises
  BY RaiseCapAssumption, SMTT(30) DEF States
<1>3. level \in Nat
  BY StakesAssumption, SMTT(30) DEF bet_size_of, States
<1>4. s.contribution[p] + due \in Nat
  OBVIOUS
<1> HIDE DEF due
<1>5. paid \in [Player -> Nat]
  BY <1>1, <1>4 DEF States
<1>6. thisRound \in [Player -> Nat]
  BY <1>1, <1>3 DEF States
<1>7. apply_betting_action(s, kActionRaise, bet_size_of(s))
        = [s EXCEPT !.level_to_match = level, !.raises_used = raises,
                    !.contribution = paid, !.round_contribution = thisRound,
                    !.round_len = length]
  BY <1>1 DEF apply_betting_action, chips_due, kActionFold, kActionRaise, due
<1> HIDE DEF p, level, due, paid, thisRound, raises, length
<1> DEFINE t == [s EXCEPT !.level_to_match = level, !.raises_used = raises,
                    !.contribution = paid, !.round_contribution = thisRound,
                    !.round_len = length]
<1>8. t \in States
  BY <1>2, <1>3, <1>5, <1>6, PaidType
<1> QED
  BY <1>7, <1>8

\* What was there stays: the cards dealt, the codes of closed rounds, what was
\* paid, and the history so far.
Continues(s, t) ==
  /\ \A p \in Player : /\ s.hole_cards[p] \in {NoCard, t.hole_cards[p]}
                        /\ s.contribution[p] <= t.contribution[p]
  /\ \A r \in 0 .. s.board_count - 1 : /\ s.board_cards[r] = t.board_cards[r]
                                       /\ s.closing[r] = t.closing[r]
  /\ SubSeq(t.history, 1, Len(s.history)) = s.history

\* Appending leaves the earlier entries of the history where they were.
LEMMA AppendKeepsHistory ==
  ASSUME NEW S, NEW h \in Seq(S), NEW entry \in S
  PROVE  SubSeq(Append(h, entry), 1, Len(h)) = h
  OBVIOUS

-----------------------------------------------------------------------------
(* Betting keeps the invariant *)

\* Seats take turns.
LEMMA NextSeat ==
  ASSUME NEW s \in States, NEW t, t.round_len = s.round_len + 1
  PROVE  /\ current_player(t) = opponent(current_player(s))
         /\ opponent(current_player(t)) = current_player(s)
<1>1. s.round_len \in Nat
  BY RaiseCapAssumption DEF States
<1> DEFINE seat == s.round_len % 2
           next == t.round_len % 2
<1>2. seat \in {0, 1} /\ next = 1 - seat
  BY <1>1
<1>3. current_player(s) = seat /\ current_player(t) = next
  BY DEF current_player, kPlayerCount
<1> HIDE DEF seat, next
<1> QED
  BY <1>2, <1>3 DEF opponent, kPlayerCount

\* At a decision node both hole cards are out and the round is open.
LEMMA DecisionShape ==
  ASSUME NEW s \in States, Good(s), is_decision(s)
  PROVE  /\ s.hole_cards[0] # NoCard /\ s.hole_cards[1] # NoCard
         /\ ~folded(s) /\ ~round_closed(s)
         /\ s.round_len = 0 \/ BetStands(s) \/ Checked(s)
<1>1. s.hole_cards[0] # NoCard /\ s.hole_cards[1] # NoCard
  BY DEF is_decision, is_chance
<1>2. ~folded(s)
  BY DEF is_decision, is_terminal
<1>3. s.board_count \in {0, 1, 2}
  BY DEF States, Street, kRihRoundCount
<1>4. ~round_closed(s)
  BY <1>3 DEF is_decision, is_terminal, is_chance
<1> QED
  BY <1>1, <1>2, <1>4 DEF Good, RoundInv, Closed, Folded, folded

\* What the last entries of the history say after one more action.
LEMMA Extended ==
  ASSUME NEW s \in States, s.round_len <= Len(s.history),
         NEW action \in BettingAction, NEW t,
         t.history = Append(s.history, action), t.round_len = s.round_len + 1
  PROVE  /\ last_action(t) = action
         /\ s.round_len # 0 => /\ previous_action(t) = last_action(s)
                               /\ Opened(t) = Opened(s)
         /\ s.round_len = 0 => Opened(t) = IF action = kActionCallCheck THEN 1 ELSE 0
<1>1. s.history \in Seq(HistoryEntry) /\ s.round_len \in Nat
  BY RaiseCapAssumption DEF States
<1>2. Len(t.history) = Len(s.history) + 1 /\ Len(s.history) \in Nat
  BY <1>1
<1>3. t.history[Len(t.history)] = action
  BY <1>1, <1>2
<1>4. \A k \in 1 .. Len(s.history) : t.history[k] = s.history[k]
  BY <1>1
<1>5. s.round_len = 0 => first_action(t) = action
  BY <1>1, <1>2, <1>3 DEF first_action
<1>6. s.round_len # 0 => first_action(t) = first_action(s)
  <2>1. Len(t.history) - t.round_len + 1 = Len(s.history) - s.round_len + 1
    BY <1>1, <1>2
  <2>2. s.round_len # 0 => Len(s.history) - s.round_len + 1 \in 1 .. Len(s.history)
    BY <1>1, <1>2
  <2> QED
    BY <2>1, <2>2, <1>4 DEF first_action
<1>7. s.round_len # 0 => previous_action(t) = last_action(s)
  BY <1>1, <1>2, <1>4 DEF previous_action, last_action
<1> QED
  BY <1>1, <1>3, <1>5, <1>6, <1>7 DEF last_action, Opened, opened_with_check

\* An action leaves cards alone and fits into the history.
LEMMA CardsAndHistoryKept ==
  ASSUME NEW s \in States, Good(s), is_decision(s), NEW action \in BettingAction,
         NEW t, SameCards(s, t),
         t.history = Append(s.history, action), t.round_len = s.round_len + 1
  PROVE  CardsInv(t) /\ HistoryInv(t)
<1>1. s.hole_cards[0] # NoCard /\ s.hole_cards[1] # NoCard
  BY DecisionShape
<1>2. CardsInv(t)
  BY <1>1 DEF Good, CardsInv, SameCards
<1>3. s.history \in Seq(HistoryEntry) /\ s.round_len \in Nat /\ MaxRaises \in Nat
  BY RaiseCapAssumption DEF States
<1>4. Len(t.history) = Len(s.history) + 1 /\ Len(s.history) \in Nat
  BY <1>3
<1>5. HistoryInv(t)
  BY <1>1, <1>3, <1>4, SMTT(30) DEF Good, HistoryInv, SameCards
<1> QED
  BY <1>2, <1>5

\* What legal_actions offers: a fold only to a bet, a raise only below the cap.
LEMMA LegalActions ==
  ASSUME NEW s \in States
  PROVE  /\ IsLegal(s, kActionFold) => facing_bet(s)
         /\ IsLegal(s, kActionRaise) => ~facing_bet(s) \/ s.raises_used < MaxRaises
  BY DEF IsLegal, legal_actions, round_legal_actions, kActionFold, kActionCallCheck,
         kActionRaise

\* Folding: the seat that faces a bet stays behind by it.
LEMMA FoldKeeps ==
  ASSUME NEW s \in States, Good(s), is_decision(s), IsLegal(s, kActionFold)
  PROVE  /\ apply_bet(s, kActionFold) \in States /\ Good(apply_bet(s, kActionFold))
         /\ Continues(s, apply_bet(s, kActionFold))
<1> DEFINE t == apply_bet(s, kActionFold)
<1>1. kActionFold \in BettingAction /\ kActionFold \in HistoryEntry
  BY DEF BettingAction, HistoryEntry
<1>2. BetStands(s)
  BY DecisionShape, LegalActions
     DEF facing_bet, Checked, kActionCallCheck, kActionRaise
<1>3. /\ SameCards(s, t)
      /\ t.history = Append(s.history, kActionFold)
      /\ t.round_len = s.round_len + 1
      /\ t.raises_used = s.raises_used
      /\ t.level_to_match = s.level_to_match
      /\ t.contribution = s.contribution
      /\ t.round_contribution = s.round_contribution
  BY FoldFields
<1>4. s.round_len \in Nat /\ s.raises_used \in 0 .. MaxRaises /\ MaxRaises \in Nat
  BY RaiseCapAssumption DEF States
<1>5. Opened(s) \in {0, 1}
  BY DEF Opened
<1>6. s.round_len # 0 /\ s.round_len + 1 <= MaxRaises + 2
  BY <1>2, <1>4, <1>5 DEF BetStands
<1>7. t \in States
  <2>1. append_action(s, kActionFold) \in States
    BY <1>1, AppendType
  <2>2. append_action(s, kActionFold).round_len = s.round_len
    BY DEF append_action, States
  <2> QED
    BY <2>1, <2>2, <1>6, FoldType DEF apply_bet
<1> HIDE DEF t
<1>8. CardsInv(t) /\ HistoryInv(t)
  BY <1>1, <1>3, CardsAndHistoryKept
<1>9. last_action(t) = kActionFold /\ Opened(t) = Opened(s)
  BY <1>1, <1>3, <1>6, Extended DEF Good, HistoryInv
<1>10. RoundInv(t)
  BY <1>2, <1>3, <1>4, <1>9 DEF RoundInv, Folded, BetStands
<1>11. StakesInv(t)
  <2>1. bet_size_of(t) = bet_size_of(s)
    BY <1>3 DEF bet_size_of, SameCards
  <2>2. current_player(t) = opponent(current_player(s))
    BY <1>3, NextSeat
  <2>3. opponent(current_player(t)) = current_player(s)
    BY <1>3, NextSeat
  <2>4. Level(s, opponent(current_player(s))) /\ Behind(s, current_player(s))
    BY <1>2, <1>6 DEF Good, StakesInv, BetStands
  <2>5. Level(t, current_player(t)) /\ Behind(t, opponent(current_player(t)))
    BY <1>3, <2>1, <2>2, <2>3, <2>4 DEF Level, Behind
  <2>6. t.round_len # 0
    BY <1>3, <1>4
  <2> QED
    BY <1>3, <1>9, <2>1, <2>5, <2>6
       DEF Good, StakesInv, kActionFold, kActionCallCheck, kActionRaise
<1>12. Continues(s, t)
  BY <1>1, <1>3, AppendKeepsHistory DEF Continues, SameCards, States
<1> QED
  BY <1>7, <1>8, <1>10, <1>11, <1>12 DEF Good, t

\* The seat not to act has paid the level, and the other at most the level.
LEMMA ToPay ==
  ASSUME NEW s \in States, Good(s), is_decision(s)
  PROVE  /\ s.round_contribution[opponent(current_player(s))] = s.level_to_match
         /\ s.round_contribution[current_player(s)] <= s.level_to_match
         /\ s.contribution[current_player(s)] >= s.round_contribution[current_player(s)]
         /\ \A p \in Player : s.contribution[p] \in Nat /\ s.round_contribution[p] \in Nat
         /\ s.level_to_match \in Nat
<1> DEFINE p == current_player(s)
           q == opponent(current_player(s))
<1>1. /\ \A r \in Player : s.contribution[r] \in Nat /\ s.round_contribution[r] \in Nat
      /\ s.level_to_match \in Nat
  BY DEF States
<1>2. p \in Player /\ q \in Player /\ bet_size_of(s) \in Nat
  BY Seats
<1>3. s.round_contribution[q] = s.level_to_match
      /\ s.round_contribution[p] <= s.level_to_match
  <2>1. CASE s.round_len = 0 \/ Checked(s)
    BY <2>1, <1>1, <1>2 DEF Good, StakesInv, Checked, Level
  <2>2. CASE BetStands(s)
    <3>1. s.round_len # 0
      BY <2>2, RaiseCapAssumption DEF BetStands, Opened, States
    <3>2. Level(s, q) /\ Behind(s, p)
      BY <2>2, <3>1 DEF Good, StakesInv, BetStands
    <3> QED
      BY <3>2, <1>1, <1>2 DEF Level, Behind
  <2> QED
    BY <2>1, <2>2, DecisionShape
<1>4. s.contribution[p] >= s.round_contribution[p]
  BY <1>2 DEF Good, StakesInv
<1> QED
  BY <1>1, <1>3, <1>4

\* A round of one check was opened with a check.
LEMMA CheckedOpened ==
  ASSUME NEW s \in States, Checked(s)
  PROVE  Opened(s) = 1
<1>1. s.history \in Seq(HistoryEntry)
  BY DEF States
<1>2. Len(s.history) - 1 + 1 = Len(s.history)
  BY <1>1
<1> QED
  BY <1>2 DEF Checked, Opened, opened_with_check, first_action, last_action

\* Checking or calling: both seats have paid the level.
LEMMA CallKeeps ==
  ASSUME NEW s \in States, Good(s), is_decision(s)
  PROVE  /\ apply_bet(s, kActionCallCheck) \in States
         /\ Good(apply_bet(s, kActionCallCheck))
         /\ Continues(s, apply_bet(s, kActionCallCheck))
<1> DEFINE t == apply_bet(s, kActionCallCheck)
           p == current_player(s)
           q == opponent(current_player(s))
<1>1. kActionCallCheck \in BettingAction /\ kActionCallCheck \in HistoryEntry
  BY DEF BettingAction, HistoryEntry
<1>2. /\ SameCards(s, t)
      /\ t.history = Append(s.history, kActionCallCheck)
      /\ t.round_len = s.round_len + 1
      /\ t.raises_used = s.raises_used
      /\ t.level_to_match = s.level_to_match
      /\ t.contribution = [s.contribution EXCEPT
                             ![p] = @ + (s.level_to_match - s.round_contribution[p])]
      /\ t.round_contribution = [s.round_contribution EXCEPT ![p] = s.level_to_match]
  BY CallFields
<1>3. s.round_len \in Nat /\ s.raises_used \in 0 .. MaxRaises /\ MaxRaises \in Nat
  BY RaiseCapAssumption DEF States
<1>4. Opened(s) \in {0, 1}
  BY DEF Opened
<1>5. s.round_len + 1 <= MaxRaises + 2
  BY <1>3, <1>4, DecisionShape DEF BetStands, Checked
<1>6. t \in States
  <2>1. append_action(s, kActionCallCheck) \in States
    BY <1>1, AppendType
  <2>2. LET u == append_action(s, kActionCallCheck)
        IN  /\ u.round_len = s.round_len
            /\ u.contribution = s.contribution
            /\ u.round_contribution = s.round_contribution
            /\ u.level_to_match = s.level_to_match
    BY DEF append_action, States
  <2>3. s.contribution[p] + (s.level_to_match - s.round_contribution[p]) \in Nat
    BY ToPay, Seats
  <2> QED
    BY <2>1, <2>2, <2>3, <1>5, CallType DEF apply_bet, current_player
<1>7. /\ t.round_contribution[p] = s.level_to_match
      /\ t.round_contribution[q] = s.round_contribution[q]
      /\ t.contribution[p] = s.contribution[p]
                               + (s.level_to_match - s.round_contribution[p])
      /\ t.contribution[q] = s.contribution[q]
  BY <1>2, Seats DEF States
<1> HIDE DEF t
<1>8. CardsInv(t) /\ HistoryInv(t)
  BY <1>1, <1>2, CardsAndHistoryKept
<1>9. /\ last_action(t) = kActionCallCheck
      /\ s.round_len # 0 => previous_action(t) = last_action(s) /\ Opened(t) = Opened(s)
  BY <1>1, <1>2, Extended DEF Good, HistoryInv
<1>10. RoundInv(t)
  <2>1. CASE s.round_len = 0
    BY <2>1, <1>2, <1>3, <1>9 DEF Good, RoundInv, Checked
  <2>2. CASE Checked(s)
    BY <2>2, <1>2, <1>3, <1>9, CheckedOpened DEF RoundInv, Closed, Checked, round_closed
  <2>3. CASE BetStands(s)
    BY <2>3, <1>2, <1>3, <1>4, <1>9 DEF RoundInv, Closed, BetStands, round_closed
  <2> QED
    BY <2>1, <2>2, <2>3, DecisionShape
<1>11. StakesInv(t)
  <2>1. bet_size_of(t) = bet_size_of(s)
    BY <1>2 DEF bet_size_of, SameCards
  <2>2. Level(t, p) /\ Level(t, q)
    BY <1>2, <1>7, ToPay DEF Level
  <2>3. \A r \in Player : Level(t, r)
    BY <2>2, Seats
  <2>4. /\ t.contribution[p] - t.round_contribution[p]
             = t.contribution[q] - t.round_contribution[q]
        /\ t.contribution[p] >= t.round_contribution[p]
        /\ t.contribution[q] >= t.round_contribution[q]
    BY <1>7, ToPay, Seats DEF Good, StakesInv, Player, kPlayerCount, opponent
  <2>5. /\ t.contribution[0] - t.round_contribution[0]
             = t.contribution[1] - t.round_contribution[1]
        /\ \A r \in Player : t.contribution[r] >= t.round_contribution[r]
    BY <2>4, Seats DEF Player, kPlayerCount
  <2> QED
    BY <1>2, <1>3, <1>9, <2>1, <2>3, <2>5
       DEF Good, StakesInv, kActionFold, kActionCallCheck, kActionRaise
<1>12. Continues(s, t)
  <2>1. \A r \in Player : s.contribution[r] <= t.contribution[r]
    BY <1>7, ToPay, Seats
  <2> QED
    BY <1>1, <1>2, <2>1, AppendKeepsHistory DEF Continues, SameCards, States
<1> QED
  BY <1>6, <1>8, <1>10, <1>11, <1>12 DEF Good, t

\* Raising: the seat to act goes one bet above what the other has paid.
LEMMA RaiseKeeps ==
  ASSUME NEW s \in States, Good(s), is_decision(s), IsLegal(s, kActionRaise)
  PROVE  /\ apply_bet(s, kActionRaise) \in States /\ Good(apply_bet(s, kActionRaise))
         /\ Continues(s, apply_bet(s, kActionRaise))
<1> DEFINE t     == apply_bet(s, kActionRaise)
           p     == current_player(s)
           q     == opponent(current_player(s))
           level == s.level_to_match + bet_size_of(s)
<1>1. kActionRaise \in BettingAction /\ kActionRaise \in HistoryEntry
  BY DEF BettingAction, HistoryEntry
<1>2. /\ SameCards(s, t)
      /\ t.history = Append(s.history, kActionRaise)
      /\ t.round_len = s.round_len + 1
      /\ t.raises_used = s.raises_used + 1
      /\ t.level_to_match = level
      /\ t.contribution = [s.contribution EXCEPT
                             ![p] = @ + (level - s.round_contribution[p])]
      /\ t.round_contribution = [s.round_contribution EXCEPT ![p] = level]
  BY RaiseFields
<1>3. /\ s.round_len \in Nat /\ s.raises_used \in 0 .. MaxRaises
      /\ MaxRaises \in Nat /\ MaxRaises >= 1
  BY RaiseCapAssumption DEF States
<1>4. Opened(s) \in {0, 1}
  BY DEF Opened
<1>5. s.raises_used < MaxRaises
  <2>1. CASE facing_bet(s)
    BY <2>1, LegalActions
  <2>2. CASE ~facing_bet(s)
    <3>1. s.raises_used = 0
      BY <2>2, <1>3, <1>4, DecisionShape
         DEF Good, RoundInv, BetStands, Checked, facing_bet
    <3> QED
      BY <3>1, <1>3
  <2> QED
    BY <2>1, <2>2
<1>6. s.round_len + 1 <= MaxRaises + 2
  BY <1>3, <1>4, DecisionShape DEF BetStands, Checked
<1>7. t \in States
  <2>1. append_action(s, kActionRaise) \in States
    BY <1>1, AppendType
  <2>2. LET u == append_action(s, kActionRaise)
        IN  /\ u.round_len = s.round_len
            /\ u.raises_used = s.raises_used
            /\ u.contribution = s.contribution
            /\ u.round_contribution = s.round_contribution
            /\ u.level_to_match = s.level_to_match
            /\ u.board_count = s.board_count
    BY DEF append_action, States
  <2>3. s.contribution[p] + (level - s.round_contribution[p]) \in Nat
    BY ToPay, Seats
  <2> QED
    BY <2>1, <2>2, <2>3, <1>5, <1>6, RaiseType
       DEF apply_bet, current_player, bet_size_of
<1>8. /\ t.round_contribution[p] = level
      /\ t.round_contribution[q] = s.round_contribution[q]
      /\ t.contribution[p] = s.contribution[p] + (level - s.round_contribution[p])
      /\ t.contribution[q] = s.contribution[q]
  BY <1>2, Seats DEF States
<1> HIDE DEF t
<1>9. CardsInv(t) /\ HistoryInv(t)
  BY <1>1, <1>2, CardsAndHistoryKept
<1>10. /\ last_action(t) = kActionRaise
       /\ s.round_len # 0 => Opened(t) = Opened(s)
       /\ s.round_len = 0 => Opened(t) = 0
  BY <1>1, <1>2, Extended
     DEF Good, HistoryInv, kActionCallCheck, kActionRaise
<1>11. RoundInv(t)
  <2>1. CASE s.round_len = 0
    BY <2>1, <1>2, <1>3, <1>10 DEF Good, RoundInv, BetStands
  <2>2. CASE Checked(s)
    BY <2>2, <1>2, <1>3, <1>10, CheckedOpened DEF RoundInv, BetStands, Checked
  <2>3. CASE BetStands(s) /\ s.round_len # 0
    BY <2>3, <1>2, <1>3, <1>4, <1>10 DEF RoundInv, BetStands
  <2> QED
    BY <2>1, <2>2, <2>3, DecisionShape
<1>12. StakesInv(t)
  <2>1. bet_size_of(t) = bet_size_of(s)
    BY <1>2 DEF bet_size_of, SameCards
  <2>2. current_player(t) = q
    BY <1>2, NextSeat
  <2>3. opponent(current_player(t)) = p
    BY <1>2, NextSeat
  <2>4. Level(t, p) /\ Behind(t, q)
    BY <1>2, <1>8, <2>1, ToPay, Seats DEF Level, Behind
  <2>5. /\ t.contribution[p] - t.round_contribution[p]
             = t.contribution[q] - t.round_contribution[q]
        /\ t.contribution[p] >= t.round_contribution[p]
        /\ t.contribution[q] >= t.round_contribution[q]
    BY <1>8, ToPay, Seats DEF Good, StakesInv, Player, kPlayerCount, opponent
  <2>6. /\ t.contribution[0] - t.round_contribution[0]
             = t.contribution[1] - t.round_contribution[1]
        /\ \A r \in Player : t.contribution[r] >= t.round_contribution[r]
    BY <2>5, Seats DEF Player, kPlayerCount
  <2>7. /\ t.round_len # 0 /\ t.raises_used >= 1
        /\ t.level_to_match >= bet_size_of(t)
    BY <1>2, <1>3, <2>1, ToPay, Seats
  <2> QED
    BY <1>3, <1>10, <2>2, <2>3, <2>4, <2>6, <2>7
       DEF StakesInv, kActionFold, kActionCallCheck, kActionRaise
<1>13. Continues(s, t)
  <2>1. \A r \in Player : s.contribution[r] <= t.contribution[r]
    BY <1>8, ToPay, Seats
  <2> QED
    BY <1>1, <1>2, <2>1, AppendKeepsHistory, SMTT(30) DEF Continues, SameCards, States
<1> QED
  BY <1>7, <1>9, <1>11, <1>12, <1>13 DEF Good, t

-----------------------------------------------------------------------------
(* Dealing keeps the invariant *)

\* Only the values remembered for the cards differ.
SameHand(s, t) ==
  /\ t.hole_cards = s.hole_cards
  /\ t.board_cards = s.board_cards
  /\ t.board_count = s.board_count
  /\ t.history = s.history
  /\ t.round_len = s.round_len
  /\ t.raises_used = s.raises_used
  /\ t.closing = s.closing
  /\ t.contribution = s.contribution
  /\ t.round_contribution = s.round_contribution
  /\ t.level_to_match = s.level_to_match

\* The classes and ranks a deal remembers are outside the inductive invariant.
LEMMA SameHandGood ==
  ASSUME NEW s, NEW t, SameHand(s, t), Good(s)
  PROVE  Good(t)
<1>1. CardsInv(t)
  BY DEF SameHand, Good, CardsInv
<1>2. HistoryInv(t)
  BY DEF SameHand, Good, HistoryInv
<1>3. /\ last_action(t) = last_action(s)
      /\ previous_action(t) = previous_action(s)
      /\ Opened(t) = Opened(s)
      /\ current_player(t) = current_player(s)
      /\ bet_size_of(t) = bet_size_of(s)
  BY DEF SameHand, last_action, previous_action, first_action, Opened,
         opened_with_check, current_player, bet_size_of
<1>4. RoundInv(t)
  BY <1>3 DEF SameHand, Good, RoundInv, BetStands, Checked, Closed, Folded, round_closed
<1>5. StakesInv(t)
  BY <1>3 DEF SameHand, Good, StakesInv, Level, Behind
<1> QED
  BY <1>1, <1>2, <1>4, <1>5 DEF Good

\* The cards a player holds are as many different cards as the tables expect.
LEMMA OwnCardsHeld ==
  ASSUME NEW s \in States, CardsInv(s), NEW p \in Player, s.hole_cards[p] # NoCard
  PROVE  own_cards(s, p) \in Held(s.board_count)
<1> DEFINE t == own_cards(s, p)
<1>1. s.board_count \in {0, 1, 2} /\ s.hole_cards[p] \in Deck
  BY DEF States, Street, kRihRoundCount
<1>2. \A i \in 1 .. s.board_count + 1 :
        /\ i = 1 => t[i] = s.hole_cards[p]
        /\ i # 1 => t[i] = s.board_cards[i - 2] /\ i - 2 \in 0 .. s.board_count - 1
  BY <1>1 DEF own_cards
<1>3. t \in [1 .. s.board_count + 1 -> Deck]
  <2>1. \A i \in 1 .. s.board_count + 1 : t[i] \in Deck
    BY <1>1, <1>2 DEF CardsInv
  <2> QED
    BY <2>1 DEF own_cards
<1>4. \A i, j \in 1 .. s.board_count + 1 : i # j => t[i] # t[j]
  <2>1. \A i \in 1 .. s.board_count + 1 : i # 1 => t[i] # t[1]
    BY <1>1, <1>2 DEF CardsInv
  <2>2. s.board_count = 2 => t[2] # t[3]
    BY <1>2 DEF CardsInv
  <2> QED
    BY <1>1, <2>1, <2>2
<1> QED
  BY <1>3, <1>4 DEF Held

\* Remembering the classes keeps the fields in their ranges.
LEMMA ClassesType ==
  ASSUME NEW s \in States, CardsInv(s)
  PROVE  /\ remember_own_classes(s) \in States
         /\ SameHand(s, remember_own_classes(s))
<1> DEFINE classes == [p \in Player |-> IF s.hole_cards[p] # NoCard
                                        THEN own_class(s, p) ELSE s.card_class[p]]
<1>1. remember_own_classes(s) = [s EXCEPT !.card_class = classes]
  BY DEF remember_own_classes
<1>2. \A p \in Player : s.hole_cards[p] # NoCard => own_class(s, p) \in Nat
  <2> SUFFICES ASSUME NEW p \in Player, s.hole_cards[p] # NoCard
               PROVE  own_class(s, p) \in Nat
    OBVIOUS
  <2>1. own_cards(s, p) \in Held(s.board_count)
    BY OwnCardsHeld
  <2>2. s.board_count \in Street
    BY DEF States
  <2> QED
    BY <2>1, <2>2, ClassAssumption DEF own_class
<1>3. \A p \in Player : s.card_class[p] \in Nat
  BY DEF States
<1>4. classes \in [Player -> Nat]
  BY <1>2, <1>3
<1> HIDE DEF classes
<1> QED
  BY <1>1, <1>4 DEF States, SameHand

\* So does remembering the showdown ranks.
LEMMA RanksType ==
  ASSUME NEW s \in States, CardsInv(s), s.board_count = 2,
         s.hole_cards[0] # NoCard, s.hole_cards[1] # NoCard
  PROVE  /\ remember_showdown_ranks(s) \in States
         /\ SameHand(s, remember_showdown_ranks(s))
<1> DEFINE ranks == [p \in Player |-> Strength[own_cards(s, p)]]
<1>1. remember_showdown_ranks(s) = [s EXCEPT !.showdown_rank = ranks]
  BY DEF remember_showdown_ranks
<1>2. \A p \in Player : own_cards(s, p) \in Held(2)
  BY OwnCardsHeld DEF Player, kPlayerCount
<1>3. ranks \in [Player -> Nat]
  BY <1>2, StrengthAssumption
<1> HIDE DEF ranks
<1> QED
  BY <1>1, <1>3 DEF States, SameHand

\* The card dealt is one of the deck that nobody holds.
LEMMA NewCard ==
  ASSUME NEW s \in States, NEW card \in chance_outcomes(s)
  PROVE  /\ card \in Deck /\ card # NoCard
         /\ \A p \in Player : s.hole_cards[p] # NoCard => card # s.hole_cards[p]
         /\ \A i \in 0 .. s.board_count - 1 : card # s.board_cards[i]
         /\ kChanceCardOffset + card \in HistoryEntry
  BY DeckAssumption DEF chance_outcomes, deal_outcomes, DealtCards, NoCard, HistoryEntry

\* The seat a hole card goes to.
HoleSeat(s) == IF s.hole_cards[0] = NoCard THEN 0 ELSE 1

\* A hole card.
LEMMA DealHole ==
  ASSUME NEW s \in States, Good(s), ~BoardCardNext(s), NEW card \in chance_outcomes(s)
  PROVE  LET u == deal_and_advance(append_action(s, kChanceCardOffset + card), card, MaxRaises)
         IN  /\ u \in States /\ Good(u) /\ Continues(s, u)
             /\ u.hole_cards = [s.hole_cards EXCEPT ![HoleSeat(s)] = card]
             /\ u.board_count = 0 /\ u.round_len = 0 /\ u.raises_used = 0
             /\ u.history = Append(s.history, kChanceCardOffset + card)
             /\ u.contribution = s.contribution
<1> DEFINE entry == kChanceCardOffset + card
           a     == append_action(s, entry)
           u     == deal_and_advance(a, card, MaxRaises)
           seat  == IF s.hole_cards[0] = NoCard THEN 0 ELSE 1
           holes == [s.hole_cards EXCEPT ![seat] = card]
           h     == Append(s.history, entry)
<1>1. /\ s.hole_cards[1] = NoCard /\ s.hole_cards[seat] = NoCard
      /\ s.board_count = 0 /\ s.round_len = 0 /\ s.raises_used = 0
      /\ seat \in Player
      /\ seat = 1 => s.hole_cards[0] # NoCard
  BY DEF BoardCardNext, Good, CardsInv, RoundInv, Player, kPlayerCount
<1>2. entry \in HistoryEntry /\ card \in Deck /\ card # NoCard
  BY NewCard
<1>3. a \in States /\ a = [s EXCEPT !.history = h]
  BY <1>2, AppendType DEF append_action
<1>4. /\ a.hole_cards = s.hole_cards /\ a.history = h
      /\ a.board_cards = s.board_cards /\ a.board_count = s.board_count
      /\ a.round_len = s.round_len /\ a.raises_used = s.raises_used
      /\ a.contribution = s.contribution
      /\ a.round_contribution = s.round_contribution
      /\ a.level_to_match = s.level_to_match
  BY <1>3 DEF States
<1> HIDE DEF a
<1>5. u = [a EXCEPT !.hole_cards[seat] = card]
  BY <1>1, <1>4 DEF deal_and_advance, deal_card, BoardCardNext
<1>6. holes \in [Player -> Deck \cup {NoCard}]
  BY <1>1, <1>2 DEF States
<1>7. u = [a EXCEPT !.hole_cards = holes]
  BY <1>4, <1>5
<1> HIDE DEF u, holes
<1>8. u \in States
  BY <1>3, <1>6, <1>7 DEF States
<1>9. /\ u.hole_cards = holes /\ u.history = h
      /\ u.board_cards = s.board_cards /\ u.board_count = s.board_count
      /\ u.round_len = s.round_len /\ u.raises_used = s.raises_used
      /\ u.contribution = s.contribution
      /\ u.round_contribution = s.round_contribution
      /\ u.level_to_match = s.level_to_match
  BY <1>3, <1>4, <1>7 DEF States
<1>10. /\ holes[seat] = card
       /\ \A p \in Player \ {seat} : holes[p] = s.hole_cards[p]
  BY <1>1 DEF holes, States
<1>11. CardsInv(u)
  BY <1>1, <1>2, <1>9, <1>10, NewCard DEF Good, CardsInv, Player, kPlayerCount
<1>12. Len(h) = Len(s.history) + 1 /\ Len(s.history) \in Nat
  BY <1>2 DEF States
<1>13. HistoryInv(u)
  BY <1>1, <1>2, <1>9, <1>10, <1>12
     DEF Good, HistoryInv, Player, kPlayerCount
<1>14. RoundInv(u)
  BY <1>1, <1>9 DEF RoundInv
<1>15. StakesInv(u)
  BY <1>1, <1>9 DEF Good, StakesInv, Level
<1>16. Continues(s, u)
  <2>1. \A p \in Player : s.contribution[p] <= u.contribution[p]
    BY <1>9 DEF States
  <2>2. \A p \in Player : s.hole_cards[p] \in {NoCard, u.hole_cards[p]}
    BY <1>1, <1>9, <1>10
  <2>3. SubSeq(u.history, 1, Len(s.history)) = s.history
    BY <1>2, <1>9, AppendKeepsHistory DEF States
  <2>4. 0 .. s.board_count - 1 = {}
    BY <1>1
  <2> QED
    BY <2>1, <2>2, <2>3, <2>4 DEF Continues
<1> QED
  BY <1>1, <1>8, <1>9, <1>11, <1>13, <1>14, <1>15, <1>16 DEF Good, HoleSeat, holes, u, a

\* A board card is due only when the round is closed: both seats have paid the
\* level of the street, and the round was at most MaxRaises + 2 actions long.
LEMMA BoardDueShape ==
  ASSUME NEW s \in States, Good(s), is_chance(s), BoardCardNext(s)
  PROVE  /\ s.board_count \in {0, 1}
         /\ s.round_len # 0 /\ Closed(s)
         /\ \A p \in Player : Level(s, p)
         /\ s.contribution[0] = s.contribution[1]
<1>1. s.board_count \in {0, 1} /\ round_closed(s)
  BY DEF is_chance, BoardCardNext, States, Street, kRihRoundCount
<1>2. s.round_len \in Nat /\ s.round_len # 0 /\ last_action(s) = kActionCallCheck
  BY <1>1, RaiseCapAssumption DEF round_closed, States
<1>3. Closed(s)
  BY <1>1, <1>2 DEF Good, RoundInv, BetStands, Checked, Folded, round_closed,
                    kActionFold, kActionCallCheck, kActionRaise
<1>4. \A p \in Player : Level(s, p)
  BY <1>2 DEF Good, StakesInv
<1>5. s.contribution[0] = s.contribution[1]
  <2>1. 0 \in Player /\ 1 \in Player
    BY DEF Player, kPlayerCount
  <2>2. s.round_contribution[0] = s.round_contribution[1]
    BY <1>4, <2>1 DEF Level
  <2>3. s.contribution[0] \in Nat /\ s.contribution[1] \in Nat
        /\ s.round_contribution[0] \in Nat /\ s.round_contribution[1] \in Nat
    BY <2>1 DEF States
  <2> QED
    BY <2>2, <2>3 DEF Good, StakesInv
<1> QED
  BY <1>1, <1>2, <1>3, <1>4, <1>5

\* A board card resets the round and records the line it closes.
LEMMA BoardDealt ==
  ASSUME NEW s \in States, BoardCardNext(s), s.board_count \in {0, 1},
         s.round_len # 0, s.round_len <= Len(s.history), NEW card \in Deck
  PROVE  LET u == deal_and_advance(append_action(s, kChanceCardOffset + card), card, MaxRaises)
         IN  /\ u \in States
             /\ u.hole_cards = s.hole_cards
             /\ u.board_cards = [s.board_cards EXCEPT ![s.board_count] = card]
             /\ u.board_count = s.board_count + 1
             /\ u.round_len = 0 /\ u.raises_used = 0 /\ u.level_to_match = 0
             /\ u.round_contribution = [p \in Player |-> 0]
             /\ u.history = Append(s.history, kChanceCardOffset + card)
             /\ u.closing = [s.closing EXCEPT ![s.board_count] =
                               closing_sequence(s.raises_used, opened_with_check(s), MaxRaises)]
             /\ u.contribution = s.contribution
<1> DEFINE entry  == kChanceCardOffset + card
           a      == append_action(s, entry)
           u      == deal_and_advance(a, card, MaxRaises)
           h      == Append(s.history, entry)
           n      == s.board_count
           code   == closing_sequence(a.raises_used,
                       first_action_before_chance(a) = kActionCallCheck, MaxRaises)
           closed == [s.closing EXCEPT ![n] = code]
           board  == [s.board_cards EXCEPT ![n] = card]
           zero   == [p \in Player |-> 0]
<1>1. n \in {0, 1} /\ n \in 0 .. 1 /\ n + 1 \in Street
  BY DEF Street, kRihRoundCount
<1>2. entry \in HistoryEntry /\ card \in Deck
  BY DEF HistoryEntry
<1>3. a \in States /\ a = [s EXCEPT !.history = h]
  BY <1>2, AppendType DEF append_action
<1>4. /\ a.hole_cards = s.hole_cards /\ a.history = h
      /\ a.board_cards = s.board_cards /\ a.board_count = n
      /\ a.round_len = s.round_len /\ a.raises_used = s.raises_used
      /\ a.closing = s.closing
      /\ a.contribution = s.contribution
  BY <1>3 DEF States
<1>5. code \in 0 .. kClosing - 1
  <2>1. a.raises_used \in 0 .. MaxRaises /\ MaxRaises \in Nat
    BY <1>3, RaiseCapAssumption DEF States
  <2> QED
    BY <2>1 DEF closing_sequence, kClosing, closing_sequence_count
<1> HIDE DEF a, code
<1>6. u = [a EXCEPT !.closing[n] = code,
                    !.board_cards[n] = card, !.board_count = n + 1,
                    !.round_len = 0, !.raises_used = 0, !.level_to_match = 0,
                    !.round_contribution = zero]
  <2>1. BoardCardNext(a)
    BY <1>4 DEF BoardCardNext
  <2>2. u = begin_next_betting_round(
              deal_card([a EXCEPT !.closing[n] = code], card))
    BY <2>1, <1>4 DEF deal_and_advance, closing_slot, code
  <2>3. deal_card([a EXCEPT !.closing[n] = code], card)
          = [a EXCEPT !.closing[n] = code,
                      !.board_cards[n] = card, !.board_count = n + 1]
    BY <2>1, <1>3, <1>4 DEF deal_card, BoardCardNext, States
  <2> QED
    BY <2>2, <2>3 DEF begin_next_betting_round
<1>7. closed \in [0 .. 1 -> 0 .. kClosing - 1]
  BY <1>1, <1>5 DEF States
<1>8. board \in [0 .. 1 -> Deck \cup {NoCard}]
  BY <1>1, <1>2 DEF States
<1>9. zero \in [Player -> Nat]
  OBVIOUS
<1>10. u = [a EXCEPT !.closing = closed, !.board_cards = board, !.board_count = n + 1,
                     !.round_len = 0, !.raises_used = 0, !.level_to_match = 0,
                     !.round_contribution = zero]
  BY <1>4, <1>6, ZenonT(30)
<1> HIDE DEF u, closed, board, zero
<1>11. u \in States
  <2>1. 0 \in 0 .. MaxRaises + 2 /\ 0 \in 0 .. MaxRaises
    BY RaiseCapAssumption
  <2> QED
    BY <1>1, <1>3, <1>7, <1>8, <1>9, <1>10, <2>1 DEF States
<1>12. /\ u.hole_cards = s.hole_cards /\ u.history = h
       /\ u.board_cards = board /\ u.board_count = n + 1
       /\ u.round_len = 0 /\ u.raises_used = 0
       /\ u.contribution = s.contribution
       /\ u.round_contribution = zero
       /\ u.level_to_match = 0
       /\ u.closing = closed
  BY <1>3, <1>4, <1>10 DEF States
<1>13. closed = [s.closing EXCEPT ![n] =
                   closing_sequence(s.raises_used, opened_with_check(s), MaxRaises)]
  <2>0. s.round_len \in 0 .. MaxRaises + 2 /\ MaxRaises \in Nat
    BY RaiseCapAssumption DEF States
  <2>1. s.round_len # 0 /\ s.round_len <= Len(s.history) /\ s.round_len \in Nat
    BY <2>0
  <2>2. s.history \in Seq(HistoryEntry) /\ Len(s.history) \in Nat
    BY DEF States
  <2>3. Len(h) - s.round_len = Len(s.history) - s.round_len + 1
    BY <1>2, <2>1, <2>2
  <2>4. Len(s.history) - s.round_len + 1 \in 1 .. Len(s.history)
    BY <2>1, <2>2
  <2>5. h[Len(s.history) - s.round_len + 1] = first_action(s)
    BY <1>2, <2>2, <2>4 DEF first_action
  <2>6. first_action_before_chance(a) = first_action(s)
    BY <1>4, <2>3, <2>5 DEF first_action_before_chance
  <2>7. (first_action_before_chance(a) = kActionCallCheck) <=> opened_with_check(s)
    BY <2>1, <2>6 DEF opened_with_check
  <2>8. code = closing_sequence(s.raises_used, opened_with_check(s), MaxRaises)
    BY <1>4, <2>7 DEF code, closing_sequence
  <2> QED
    BY <2>8 DEF closed
<1> QED
  BY <1>11, <1>12, <1>13 DEF board, zero, u, a

\* A board card: the round it closes starts again with nothing paid.
LEMMA DealBoard ==
  ASSUME NEW s \in States, Good(s), is_chance(s), BoardCardNext(s),
         NEW card \in chance_outcomes(s)
  PROVE  LET u == deal_and_advance(append_action(s, kChanceCardOffset + card), card, MaxRaises)
         IN  /\ u \in States /\ Good(u) /\ Continues(s, u)
             /\ u.hole_cards = s.hole_cards
             /\ u.board_cards = [s.board_cards EXCEPT ![s.board_count] = card]
             /\ u.board_count = s.board_count + 1
             /\ u.round_len = 0 /\ u.raises_used = 0
             /\ u.history = Append(s.history, kChanceCardOffset + card)
             /\ u.closing = [s.closing EXCEPT ![s.board_count] =
                               closing_sequence(s.raises_used, opened_with_check(s), MaxRaises)]
             /\ u.contribution = s.contribution
<1> DEFINE entry  == kChanceCardOffset + card
           u      == deal_and_advance(append_action(s, entry), card, MaxRaises)
           h      == Append(s.history, entry)
           n      == s.board_count
           code   == closing_sequence(s.raises_used, opened_with_check(s), MaxRaises)
           closed == [s.closing EXCEPT ![n] = code]
           board  == [s.board_cards EXCEPT ![n] = card]
           zero   == [p \in Player |-> 0]
<1>1. n \in {0, 1} /\ s.round_len # 0 /\ s.round_len <= Len(s.history)
  BY BoardDueShape DEF Good, HistoryInv
<1>2. entry \in HistoryEntry /\ card \in Deck /\ card # NoCard
  BY NewCard
<1>3. /\ u \in States
      /\ u.hole_cards = s.hole_cards /\ u.history = h
      /\ u.board_cards = board /\ u.board_count = n + 1
      /\ u.round_len = 0 /\ u.raises_used = 0
      /\ u.contribution = s.contribution
      /\ u.round_contribution = zero
      /\ u.level_to_match = 0
      /\ u.closing = closed
  BY <1>1, <1>2, BoardDealt
<1>4. board[n] = card /\ \A i \in 0 .. 1 : i # n => board[i] = s.board_cards[i]
  BY <1>1 DEF States
<1>5. \A r \in 0 .. n - 1 : closed[r] = s.closing[r]
  BY <1>1 DEF States
<1>6. \A p \in Player : zero[p] = 0
  OBVIOUS
<1> HIDE DEF u, closed, board, zero
<1>7. s.hole_cards[0] # NoCard /\ s.hole_cards[1] # NoCard
  BY DEF BoardCardNext
<1>8. CardsInv(u)
  <2>1. CASE n = 0
    BY <2>1, <1>2, <1>3, <1>4, <1>7, NewCard
       DEF Good, CardsInv, Player, kPlayerCount
  <2>2. CASE n = 1
    BY <2>2, <1>2, <1>3, <1>4, <1>7, NewCard
       DEF Good, CardsInv, Player, kPlayerCount
  <2> QED
    BY <1>1, <2>1, <2>2
<1>9. HistoryInv(u)
  <2>1. Len(h) = Len(s.history) + 1 /\ Len(s.history) \in Nat
    BY <1>2 DEF States
  <2>2. s.round_len \in 0 .. MaxRaises + 2 /\ MaxRaises \in Nat
    BY RaiseCapAssumption DEF States
  <2> QED
    BY <1>1, <1>3, <1>7, <2>1, <2>2 DEF Good, HistoryInv
<1>10. RoundInv(u)
  BY <1>3 DEF RoundInv
<1>11. StakesInv(u)
  <2>1. \A p \in Player : s.contribution[p] \in Nat
    BY DEF States
  <2>2. 0 \in Player /\ 1 \in Player
    BY DEF Player, kPlayerCount
  <2> QED
    BY <1>3, <1>6, <2>1, <2>2, BoardDueShape DEF StakesInv, Level
<1>12. Continues(s, u)
  <2>1. \A r \in 0 .. n - 1 : board[r] = s.board_cards[r]
    BY <1>1, <1>4
  <2> QED
    BY <1>2, <1>3, <1>5, <2>1, AppendKeepsHistory DEF Continues, States
<1> QED
  BY <1>3, <1>8, <1>9, <1>10, <1>11, <1>12 DEF Good, board, closed, u

\* The whole deal, with what it remembers.
LEMMA DealKeeps ==
  ASSUME NEW s \in States, Good(s), is_chance(s), NEW card \in chance_outcomes(s)
  PROVE  /\ apply_deal(s, card) \in States /\ Good(apply_deal(s, card))
         /\ Continues(s, apply_deal(s, card))
<1> DEFINE u == deal_and_advance(append_action(s, kChanceCardOffset + card), card, MaxRaises)
           k == remember_own_classes(u)
<1>1. /\ u \in States /\ Good(u) /\ Continues(s, u)
      /\ u.board_count = 2 => u.hole_cards[0] # NoCard /\ u.hole_cards[1] # NoCard
  <2>1. u \in States /\ Good(u) /\ Continues(s, u)
    <3>1. CASE BoardCardNext(s)
      BY <3>1, DealBoard
    <3>2. CASE ~BoardCardNext(s)
      BY <3>2, DealHole
    <3> QED
      BY <3>1, <3>2
  <2> QED
    BY <2>1 DEF Good, CardsInv
<1>2. apply_deal(s, card) = IF k.board_count = 2 THEN remember_showdown_ranks(k) ELSE k
  BY DEF apply_deal
<1> HIDE DEF u
<1>3. k \in States /\ SameHand(u, k)
  BY <1>1, ClassesType DEF Good
<1>4. Good(k)
  BY <1>1, <1>3, SameHandGood
<1> HIDE DEF k
<1>5. ASSUME k.board_count = 2
      PROVE  /\ remember_showdown_ranks(k) \in States
             /\ Good(remember_showdown_ranks(k))
             /\ SameHand(k, remember_showdown_ranks(k))
  <2>1. k.hole_cards[0] # NoCard /\ k.hole_cards[1] # NoCard
    BY <1>1, <1>3, <1>5 DEF SameHand
  <2>2. /\ remember_showdown_ranks(k) \in States
        /\ SameHand(k, remember_showdown_ranks(k))
    BY <1>3, <1>4, <1>5, <2>1, RanksType DEF Good
  <2> QED
    BY <1>4, <2>2, SameHandGood
<1>6. Continues(s, k)
  BY <1>1, <1>3 DEF Continues, SameHand
<1>7. k.board_count = 2 => Continues(s, remember_showdown_ranks(k))
  BY <1>5, <1>6 DEF Continues, SameHand
<1> QED
  BY <1>2, <1>3, <1>4, <1>5, <1>6, <1>7

-----------------------------------------------------------------------------
(* The invariant, and what follows from it *)

\* The invariant holds before any card is dealt.
LEMMA InitGood ==
  initial_state \in States /\ Good(initial_state)
<1> DEFINE s == initial_state
<1>1. /\ s.hole_cards = [p \in Player |-> NoCard]
      /\ s.board_count = 0 /\ s.history = << >>
      /\ s.round_len = 0 /\ s.raises_used = 0
      /\ s.contribution = [p \in Player |-> Ante]
      /\ s.round_contribution = [p \in Player |-> 0]
      /\ s.level_to_match = 0
  BY DEF initial_state, BlankState
<1>2. s \in States
  <2>1. /\ 0 \in Street /\ 0 \in 0 .. MaxRaises + 2 /\ 0 \in 0 .. MaxRaises
        /\ 0 \in 0 .. kClosing - 1 /\ Ante \in Nat
    BY RaiseCapAssumption, StakesAssumption
       DEF Street, kRihRoundCount, kClosing, closing_sequence_count
  <2>2. << >> \in Seq(HistoryEntry)
    OBVIOUS
  <2> QED
    BY <2>1, <2>2 DEF initial_state, BlankState, States, kMaxBoardCards
<1> HIDE DEF s
<1>3. \A p \in Player : /\ s.hole_cards[p] = NoCard
                        /\ s.contribution[p] = Ante
                        /\ s.round_contribution[p] = 0
  BY <1>1
<1>4. 0 \in Player /\ 1 \in Player /\ Ante \in Nat
  BY StakesAssumption DEF Player, kPlayerCount
<1>5. CardsInv(s)
  BY <1>1, <1>3, <1>4 DEF CardsInv
<1>6. HistoryInv(s)
  <2>1. Len(<< >>) = 0
    OBVIOUS
  <2> QED
    BY <1>1, <1>3, <1>4, <2>1, RaiseCapAssumption DEF HistoryInv
<1>7. RoundInv(s)
  BY <1>1 DEF RoundInv
<1>8. StakesInv(s)
  BY <1>1, <1>3, <1>4 DEF StakesInv, Level
<1> QED
  BY <1>2, <1>5, <1>6, <1>7, <1>8 DEF Good, s

\* Every step, and every stutter, keeps the invariant.
LEMMA NextKeeps ==
  ASSUME IInv, [Next]_vars
  PROVE  IInv'
<1> USE DEF IInv, TypeOK
<1>1. CASE Deal
  BY <1>1, DealKeeps DEF Deal
<1>2. CASE Fold
  BY <1>2, FoldKeeps DEF Fold, Act
<1>3. CASE CallCheck
  BY <1>3, CallKeeps DEF CallCheck, Act
<1>4. CASE Raise
  BY <1>4, RaiseKeeps DEF Raise, Act
<1>5. CASE NewHand
  BY <1>5, InitGood DEF NewHand
<1>6. CASE UNCHANGED vars
  BY <1>6 DEF vars
<1> QED
  BY <1>1, <1>2, <1>3, <1>4, <1>5, <1>6 DEF Next

\* The inductive invariant holds in every state of every hand.
THEOREM Invariance == Spec => []IInv
<1>1. Init => IInv
  BY InitGood DEF Init, IInv, TypeOK
<1> QED
  BY <1>1, NextKeeps, PTL DEF Spec

\* Every field of State stays in its range: in particular every closing code
\* and every raise count is one the solver's tables have a column for, and
\* every lookup by cards is a lookup of distinct cards.
THEOREM TypeCorrect == Spec => []TypeOK
<1>1. IInv => TypeOK
  BY DEF IInv
<1> QED
  BY <1>1, Invariance, PTL

\* The seat to act is a function of the progress code, for every raise cap.
THEOREM ProgressAlwaysNamesSeat == Spec => []ProgressNamesSeat
<1>1. IInv => ProgressNamesSeat
  <2> SUFFICES ASSUME TypeOK, Good(state), is_decision(state)
               PROVE  LET progress == round_progress(state)
                      IN  /\ progress < kProgress
                          /\ current_player(state) = (progress \div 2 + progress) % 2
    BY DEF IInv, ProgressNamesSeat
  <2> DEFINE o == Opened(state)
             R == state.raises_used
             L == state.round_len
  <2>1. o \in {0, 1} /\ R \in 0 .. MaxRaises /\ L \in Nat /\ MaxRaises \in Nat
    BY RaiseCapAssumption DEF TypeOK, States, Opened
  <2>2. round_progress(state) = R * 2 + o
    BY DEF round_progress, Opened
  <2>3. L = R + o
    BY <2>1, DecisionShape, CheckedOpened
       DEF TypeOK, Good, RoundInv, BetStands, Checked, Opened, opened_with_check
  <2>4. current_player(state) = (R + o) % 2
    BY <2>3 DEF current_player, kPlayerCount
  <2> HIDE DEF o, R, L
  <2>5. (R * 2 + o) \div 2 = R
    BY <2>1
  <2>6. (R + o) % 2 = (R + (R * 2 + o)) % 2
    BY <2>1
  <2>7. R * 2 + o < kProgress
    BY <2>1 DEF kProgress, round_progress_count
  <2> QED
    BY <2>2, <2>4, <2>5, <2>6, <2>7
<1> QED
  BY <1>1, Invariance, PTL

\* Beside any three cards the deck has a fourth.
LEMMA FourthCard ==
  ASSUME NEW x, NEW y, NEW z
  PROVE  \E card \in Deck : card # x /\ card # y /\ card # z
<1> DEFINE one   == Deck \ {x}
           two   == one \ {y}
           three == two \ {z}
<1>1. IsFiniteSet(Deck) /\ Cardinality(Deck) \in Nat /\ Cardinality(Deck) >= 4
  BY DeckAssumption, FS_CardinalityType DEF kRihCardsDealt
<1>2. IsFiniteSet(one) /\ Cardinality(one) \in {Cardinality(Deck), Cardinality(Deck) - 1}
  BY <1>1, FS_RemoveElement
<1> HIDE DEF one
<1>3. IsFiniteSet(two) /\ Cardinality(two) \in {Cardinality(one), Cardinality(one) - 1}
  BY <1>2, FS_RemoveElement
<1> HIDE DEF two
<1>4. /\ IsFiniteSet(three)
      /\ Cardinality(three) \in {Cardinality(two), Cardinality(two) - 1}
  BY <1>3, FS_RemoveElement
<1> HIDE DEF three
<1>5. three # {}
  <2>1. Cardinality(three) # 0
    BY <1>1, <1>2, <1>3, <1>4
  <2> QED
    BY <1>4, <2>1, FS_EmptySet
<1> QED
  BY <1>5 DEF one, two, three

\* Whenever play goes on there is a card left, because the deck holds one more
\* than are dealt before the last deal.
LEMMA CardLeft ==
  ASSUME NEW s \in States, Good(s), is_chance(s)
  PROVE  chance_outcomes(s) # {}
<1>1. s.board_count = 0 \/ s.board_count = 1
  BY BoardDueShape DEF BoardCardNext, Good, CardsInv
<1> DEFINE x == s.hole_cards[0]
           y == s.hole_cards[1]
           z == s.board_cards[0]
<1> HIDE DEF x, y, z
<1>2. PICK card \in Deck : card # x /\ card # y /\ card # z
  BY FourthCard
<1>3. card \notin DealtCards(s)
  BY <1>1, <1>2 DEF DealtCards, Player, kPlayerCount, x, y, z
<1> QED
  BY <1>3 DEF chance_outcomes, deal_outcomes

\* In every state of the invariant the arrays of State are large enough for
\* what comes next, and there is a card to deal.
LEMMA AssertsFollow ==
  ASSUME TypeOK, Good(state)
  PROVE  AssertsHold
<1>1. /\ state.round_len \in 0 .. MaxRaises + 2
      /\ state.raises_used \in 0 .. MaxRaises
      /\ MaxRaises \in Nat /\ MaxRaises >= 1
      /\ 3 * (MaxRaises + 2) + 4 <= 26
      /\ state.board_count \in {0, 1, 2}
      /\ Len(state.history) \in Nat
  BY RaiseCapAssumption
     DEF TypeOK, States, Street, kRihRoundCount, kRihCardsDealt, kMaxHistory,
         max_history_depth
<1> DEFINE n == Len(state.history)
           L == state.round_len
           b == state.board_count
<1>2. /\ L \in 0 .. MaxRaises + 2 /\ n \in Nat /\ b \in {0, 1, 2}
      /\ b = 0 => n <= 2 + L
      /\ b = 1 => n <= MaxRaises + 5 + L
      /\ b = 2 => n <= 2 * MaxRaises + 8 + L
  BY <1>1 DEF Good, HistoryInv
<1> HIDE DEF n, L, b
<1>3. n <= 2 * MaxRaises + 8 + L
  BY <1>1, <1>2
<1>4. n <= 3 * (MaxRaises + 2) + 4
  BY <1>1, <1>2, <1>3
<1>5. is_decision(state) => state.round_len <= MaxRaises + 1
  <2>1. Opened(state) \in {0, 1}
    BY DEF Opened
  <2> QED
    BY <1>1, <2>1, DecisionShape DEF TypeOK, BetStands, Checked
<1>6. L <= MaxRaises + 1 => n < 26 /\ L < 8
  BY <1>1, <1>2, <1>3
<1>7. is_decision(state) => apply_betting_asserts(state)
  BY <1>5, <1>6
     DEF n, L, apply_betting_asserts, append_action_asserts, kMaxHistory,
         kMaxActionsPerRound
<1>8. is_chance(state) => Len(state.history) < 26
  <2>1. CASE BoardCardNext(state)
    BY <2>1, <1>1, BoardDueShape, SMTT(30) DEF TypeOK, Good, HistoryInv
  <2>2. CASE ~BoardCardNext(state)
    BY <2>2, <1>1 DEF BoardCardNext, Good, HistoryInv, CardsInv
  <2> QED
    BY <2>1, <2>2
<1>9. ASSUME is_chance(state), NEW card \in chance_outcomes(state)
      PROVE  apply_deal_asserts(state, card)
  <2> DEFINE a == append_action(state, kChanceCardOffset + card)
  <2>1. /\ a.hole_cards = state.hole_cards /\ a.board_count = state.board_count
        /\ a.round_len = state.round_len
        /\ Len(a.history) = Len(state.history) + 1
    <3>1. kChanceCardOffset + card \in HistoryEntry
      BY <1>9, NewCard DEF TypeOK
    <3> QED
      BY <3>1 DEF append_action, TypeOK, States
  <2>2. deal_and_advance_asserts(a)
    <3>1. BoardCardNext(a) <=> BoardCardNext(state)
      BY <2>1 DEF BoardCardNext
    <3>2. state.round_len <= Len(state.history)
      BY DEF Good, HistoryInv
    <3> QED
      BY <3>1, <3>2, <2>1, <1>1, <1>9, BoardDueShape
         DEF TypeOK, deal_and_advance_asserts, kMaxBoardCards
  <2> QED
    BY <2>2, <1>8, <1>9 DEF apply_deal_asserts, append_action_asserts, kMaxHistory
<1>10. is_chance(state) => chance_outcomes(state) # {}
  BY CardLeft DEF TypeOK
<1> QED
  BY <1>4, <1>7, <1>9, <1>10
     DEF n, AssertsHold, max_history_depth, kRihRoundCount, kRihCardsDealt

\* No assert of betting_round.hpp can fail: the arrays of State are as large as
\* the longest hand, and a chance node always has a card to deal.
THEOREM AssertsAlwaysHold == Spec => []AssertsHold
<1>1. IInv => AssertsHold
  BY AssertsFollow DEF IInv
<1> QED
  BY <1>1, Invariance, PTL

\* At a fold the folder is one bet behind; at a showdown nobody is.
LEMMA TerminalShape ==
  ASSUME NEW s \in States, Good(s), is_terminal(s)
  PROVE  /\ folded(s) => /\ Level(s, current_player(s))
                         /\ Behind(s, opponent(current_player(s)))
                         /\ folder_of(s) = opponent(current_player(s))
         /\ ~folded(s) => s.contribution[0] = s.contribution[1]
<1>1. /\ s.round_len \in Nat
      /\ \A p \in Player : s.contribution[p] \in Nat /\ s.round_contribution[p] \in Nat
      /\ 0 \in Player /\ 1 \in Player
  BY RaiseCapAssumption DEF States, Player, kPlayerCount
<1>2. ASSUME folded(s)
      PROVE  /\ Level(s, current_player(s))
             /\ Behind(s, opponent(current_player(s)))
             /\ folder_of(s) = opponent(current_player(s))
  <2>1. Level(s, current_player(s)) /\ Behind(s, opponent(current_player(s)))
    BY <1>2 DEF Good, StakesInv, folded
  <2> DEFINE before == (s.round_len - 1) % 2
             seat   == s.round_len % 2
  <2>2. seat \in {0, 1} /\ before = 1 - seat
    BY <1>1, <1>2 DEF folded
  <2>3. current_player(s) = seat /\ folder_of(s) = before
    BY DEF current_player, folder_of, kPlayerCount
  <2> HIDE DEF before, seat
  <2>4. folder_of(s) = opponent(current_player(s))
    BY <2>2, <2>3 DEF opponent, kPlayerCount
  <2> QED
    BY <2>1, <2>4
<1>3. ASSUME ~folded(s)
      PROVE  s.contribution[0] = s.contribution[1]
  <2>1. s.round_len # 0 /\ last_action(s) = kActionCallCheck
    BY <1>1, <1>3 DEF is_terminal, round_closed
  <2>2. s.round_contribution[0] = s.round_contribution[1]
    BY <2>1, <1>1 DEF Good, StakesInv, Level
  <2> QED
    BY <2>2, <1>1 DEF Good, StakesInv
<1> QED
  BY <1>2, <1>3

\* Board cards and showdowns find both seats with the same in the pot.
THEOREM StakesAlwaysEven == Spec => []EvenStakes
<1>1. IInv => EvenStakes
  <2> SUFFICES ASSUME state \in States, Good(state)
               PROVE  EvenStakes
    BY DEF IInv, TypeOK
  <2>1. BoardDue(state) \/ Showdown(state) =>
          state.contribution[0] = state.contribution[1]
    BY BoardDueShape, TerminalShape DEF BoardDue, Showdown
  <2>2. ASSUME Showdown(state), NEW p \in Player
        PROVE  terminal_utility(state, p)
                 \in {0, state.contribution[0], -state.contribution[0]}
    <3>1. p \in {0, 1} /\ state.contribution[0] = state.contribution[1]
      BY <2>1, <2>2 DEF Player, kPlayerCount
    <3>2. showdown_winner(state) \in {Tie, 0, 1}
      BY DEF showdown_winner
    <3>3. terminal_utility(state, p)
            = settle(state.contribution, showdown_winner(state), p)
      BY <2>2 DEF terminal_utility, Showdown
    <3> QED
      BY <3>1, <3>2, <3>3 DEF settle, opponent, kPlayerCount
  <2> QED
    BY <2>1, <2>2 DEF EvenStakes
<1> QED
  BY <1>1, Invariance, PTL

\* A fold costs exactly what the folder paid, one bet less than the winner did.
THEOREM FoldsAlwaysForfeit == Spec => []FoldForfeits
<1>1. IInv => FoldForfeits
  <2> SUFFICES ASSUME state \in States, Good(state), is_terminal(state), folded(state)
               PROVE  LET folder == folder_of(state)
                          paid   == state.contribution
                      IN  /\ paid[opponent(folder)] - paid[folder] = bet_size_of(state)
                          /\ terminal_utility(state, folder) = -paid[folder]
                          /\ terminal_utility(state, opponent(folder)) = paid[folder]
    BY DEF IInv, TypeOK, FoldForfeits
  <2> DEFINE f == folder_of(state)
             w == opponent(folder_of(state))
  <2>1. f \in {0, 1} /\ w = 1 - f /\ opponent(w) = f
    BY Seats, TerminalShape DEF Player, opponent, kPlayerCount
  <2>2. /\ state.round_contribution[w] = state.level_to_match
        /\ state.round_contribution[f] = state.level_to_match - bet_size_of(state)
    BY TerminalShape, Seats DEF Level, Behind, Player, opponent, kPlayerCount
  <2>3. state.contribution[w] - state.round_contribution[w]
          = state.contribution[f] - state.round_contribution[f]
    BY <2>1 DEF Good, StakesInv
  <2>4. /\ state.contribution[w] \in Nat /\ state.contribution[f] \in Nat
        /\ state.level_to_match \in Nat /\ bet_size_of(state) \in Nat
    BY <2>1, Seats, SMTT(30) DEF States, Player, kPlayerCount
  <2>5. state.contribution[w] - state.contribution[f] = bet_size_of(state)
    BY <2>2, <2>3, <2>4
  <2>6. /\ terminal_utility(state, f) = -state.contribution[f]
        /\ terminal_utility(state, w) = state.contribution[f]
    BY <2>1 DEF terminal_utility, settle, Tie
  <2> QED
    BY <2>5, <2>6
<1> QED
  BY <1>1, Invariance, PTL

\* Within a hand no step takes back a card, a closing code, a chip or an entry
\* of the history.
THEOREM NothingIsTakenBack == Spec => NothingTakenBack
<1>1. ASSUME IInv, [Next]_vars, ~is_terminal(state), ~UNCHANGED vars
      PROVE  Continues(state, state')
  <2>1. state \in States /\ Good(state)
    BY <1>1 DEF IInv, TypeOK
  <2>2. CASE Deal
    BY <2>1, <2>2, DealKeeps DEF Deal
  <2>3. CASE Fold
    BY <2>1, <2>3, FoldKeeps DEF Fold, Act
  <2>4. CASE CallCheck
    BY <2>1, <2>4, CallKeeps DEF CallCheck, Act
  <2>5. CASE Raise
    BY <2>1, <2>5, RaiseKeeps DEF Raise, Act
  <2> QED
    BY <1>1, <2>2, <2>3, <2>4, <2>5 DEF Next, NewHand
<1>2. IInv /\ [Next]_vars =>
        [ ~is_terminal(state) =>
            /\ \A p \in Player :
                 /\ state.hole_cards[p] \in {NoCard, state'.hole_cards[p]}
                 /\ state.contribution[p] <= state'.contribution[p]
            /\ \A r \in 0 .. state.board_count - 1 :
                 /\ state.board_cards[r] = state'.board_cards[r]
                 /\ state.closing[r] = state'.closing[r]
            /\ SubSeq(state'.history, 1, Len(state.history)) = state.history ]_vars
  BY <1>1 DEF Continues
<1> QED
  BY <1>2, Invariance, PTL DEF Spec, NothingTakenBack

-----------------------------------------------------------------------------
(* The values a deal remembers, and the rules of the game                  *)

\* The values a deal remembers are those of the cards on the table.
Fresh(s) ==
  /\ \A p \in Player : s.hole_cards[p] # NoCard => s.card_class[p] = own_class(s, p)
  /\ s.board_count = 2 => \A p \in Player : s.showdown_rank[p] = Strength[own_cards(s, p)]

FInv == IInv /\ Fresh(state)

-----------------------------------------------------------------------------
(* What a deal does to the fields of a State *)

\* Cards, round and contributions are those of the hand; the rest is fresh.
LEMMA DealFields ==
  ASSUME NEW s \in States, Good(s), is_chance(s), NEW card \in chance_outcomes(s)
  PROVE  LET t == apply_deal(s, card)
         IN  /\ t.round_len = 0 /\ t.raises_used = 0
             /\ t.history = Append(s.history, kChanceCardOffset + card)
             /\ t.contribution = s.contribution
             /\ ~BoardCardNext(s) =>
                  /\ t.hole_cards = [s.hole_cards EXCEPT ![HoleSeat(s)] = card]
                  /\ t.board_count = 0
             /\ BoardCardNext(s) =>
                  /\ t.hole_cards = s.hole_cards
                  /\ t.board_cards = [s.board_cards EXCEPT ![s.board_count] = card]
                  /\ t.board_count = s.board_count + 1
                  /\ t.closing = [s.closing EXCEPT ![s.board_count] =
                        closing_sequence(s.raises_used, opened_with_check(s), MaxRaises)]
             /\ Fresh(t)
<1> DEFINE u == deal_and_advance(append_action(s, kChanceCardOffset + card), card, MaxRaises)
           k == remember_own_classes(u)
           t == apply_deal(s, card)
<1>1. /\ u \in States /\ Good(u)
      /\ u.round_len = 0 /\ u.raises_used = 0
      /\ u.history = Append(s.history, kChanceCardOffset + card)
      /\ u.contribution = s.contribution
      /\ ~BoardCardNext(s) =>
           /\ u.hole_cards = [s.hole_cards EXCEPT ![HoleSeat(s)] = card]
           /\ u.board_count = 0
      /\ BoardCardNext(s) =>
           /\ u.hole_cards = s.hole_cards
           /\ u.board_cards = [s.board_cards EXCEPT ![s.board_count] = card]
           /\ u.board_count = s.board_count + 1
           /\ u.closing = [s.closing EXCEPT ![s.board_count] =
                 closing_sequence(s.raises_used, opened_with_check(s), MaxRaises)]
  <2>1. CASE BoardCardNext(s)
    BY <2>1, DealBoard
  <2>2. CASE ~BoardCardNext(s)
    BY <2>2, DealHole
  <2> QED
    BY <2>1, <2>2
<1>2. t = IF k.board_count = 2 THEN remember_showdown_ranks(k) ELSE k
  BY DEF apply_deal
<1>3. k \in States /\ SameHand(u, k)
  BY <1>1, ClassesType DEF Good
<1>4. \A p \in Player : u.hole_cards[p] # NoCard => k.card_class[p] = own_class(u, p)
  <2>1. k.card_class = [p \in Player |-> IF u.hole_cards[p] # NoCard
                                         THEN own_class(u, p) ELSE u.card_class[p]]
    BY <1>1 DEF remember_own_classes, States
  <2> QED
    BY <2>1
<1> HIDE DEF u, k, t
<1>5. \A p \in Player : own_cards(k, p) = own_cards(u, p)
  BY <1>3 DEF SameHand, own_cards
<1>6. \A p \in Player : k.hole_cards[p] # NoCard => k.card_class[p] = own_class(k, p)
  BY <1>3, <1>4, <1>5 DEF SameHand, own_class
<1>7. CASE k.board_count # 2
  <2>1. t = k
    BY <1>2, <1>7
  <2>2. Fresh(t)
    BY <1>6, <1>7, <2>1 DEF Fresh
  <2> QED
    BY <1>1, <1>3, <2>1, <2>2 DEF SameHand, t
<1>8. CASE k.board_count = 2
  <2> DEFINE ranks == [p \in Player |-> Strength[own_cards(k, p)]]
  <2>1. t = [k EXCEPT !.showdown_rank = ranks]
    BY <1>2, <1>8 DEF remember_showdown_ranks
  <2>2. \A p \in Player : ranks[p] = Strength[own_cards(k, p)]
    OBVIOUS
  <2> HIDE DEF ranks
  <2>3. SameHand(k, t) /\ t.card_class = k.card_class /\ t.showdown_rank = ranks
    BY <1>3, <2>1 DEF SameHand, States
  <2>4. \A p \in Player : own_cards(t, p) = own_cards(k, p)
    BY <2>3 DEF SameHand, own_cards
  <2>5. Fresh(t)
    BY <1>6, <2>2, <2>3, <2>4 DEF Fresh, SameHand, own_class
  <2> QED
    BY <1>1, <1>3, <2>3, <2>5 DEF SameHand, t
<1> QED
  BY <1>7, <1>8

\* Betting changes neither the cards nor what is remembered of them.
LEMMA BettingStaysFresh ==
  ASSUME NEW s \in States, NEW action \in BettingAction, Fresh(s)
  PROVE  SameCards(s, apply_bet(s, action)) /\ Fresh(apply_bet(s, action))
<1> DEFINE t == apply_bet(s, action)
<1>1. SameCards(s, t)
  BY FoldFields, CallFields, RaiseFields DEF BettingAction
<1> HIDE DEF t
<1>2. \A p \in Player : own_cards(t, p) = own_cards(s, p)
  BY <1>1 DEF SameCards, own_cards
<1>3. Fresh(t)
  BY <1>1, <1>2 DEF SameCards, Fresh, own_class
<1> QED
  BY <1>1, <1>3 DEF t

\* Nothing is remembered before the first card.
LEMMA InitFresh == Fresh(initial_state)
<1>1. /\ \A p \in Player : initial_state.hole_cards[p] = NoCard
      /\ initial_state.board_count = 0
  BY DEF initial_state, BlankState
<1> QED
  BY <1>1 DEF Fresh

\* Every step keeps the values fresh.
LEMMA NextKeepsFresh ==
  ASSUME FInv, [Next]_vars
  PROVE  FInv'
<1>1. IInv'
  BY NextKeeps DEF FInv
<1>2. state \in States /\ Good(state) /\ Fresh(state)
  BY DEF FInv, IInv, TypeOK
<1>3. Fresh(state')
  <2>1. CASE Deal
    BY <1>2, <2>1, DealFields DEF Deal
  <2>2. CASE Fold
    BY <1>2, <2>2, BettingStaysFresh DEF Fold, Act, BettingAction
  <2>3. CASE CallCheck
    BY <1>2, <2>3, BettingStaysFresh DEF CallCheck, Act, BettingAction
  <2>4. CASE Raise
    BY <1>2, <2>4, BettingStaysFresh DEF Raise, Act, BettingAction
  <2>5. CASE NewHand
    BY <2>5, InitFresh DEF NewHand
  <2>6. CASE UNCHANGED vars
    BY <1>2, <2>6 DEF vars
  <2> QED
    BY <2>1, <2>2, <2>3, <2>4, <2>5, <2>6 DEF Next
<1> QED
  BY <1>1, <1>3 DEF FInv

\* The invariant with the remembered values.
THEOREM ValuesStayFresh == Spec => []FInv
<1>1. Init => FInv
  BY InitGood, InitFresh DEF Init, FInv, IInv, TypeOK
<1> QED
  BY <1>1, NextKeepsFresh, PTL DEF Spec

\* The class infoset_index takes from the state and the ranks a showdown is
\* settled by are those of the cards on the table, in every hand.
THEOREM RememberedStayFresh == Spec => []RememberedValuesFresh
<1>1. FInv => RememberedValuesFresh
  <2> SUFFICES ASSUME state \in States, Good(state), Fresh(state)
               PROVE  RememberedValuesFresh
    BY DEF FInv, IInv, TypeOK
  <2>1. ASSUME is_decision(state), NEW p \in Player
        PROVE  state.card_class[p] = own_class(state, p)
    BY <2>1, DecisionShape, Seats DEF Fresh, Player, kPlayerCount
  <2>2. ASSUME Showdown(state), NEW p \in Player
        PROVE  state.showdown_rank[p] = Strength[own_cards(state, p)]
    BY <2>2 DEF Fresh, Showdown, is_terminal
  <2> QED
    BY <2>1, <2>2 DEF RememberedValuesFresh
<1> QED
  BY <1>1, ValuesStayFresh, PTL

-----------------------------------------------------------------------------
(* The cards of the rules *)

\* The cards that are out, slot by slot.
LEMMA CardsOutIs ==
  ASSUME NEW s
  PROVE  /\ s.hole_cards[0] = NoCard => CardsOut(s) = << >>
         /\ s.hole_cards[0] # NoCard /\ s.hole_cards[1] = NoCard =>
              CardsOut(s) = <<s.hole_cards[0]>>
         /\ BoardCardNext(s) /\ s.board_count = 0 =>
              CardsOut(s) = <<s.hole_cards[0], s.hole_cards[1]>>
         /\ BoardCardNext(s) /\ s.board_count = 1 =>
              CardsOut(s) = <<s.hole_cards[0], s.hole_cards[1], s.board_cards[0]>>
         /\ BoardCardNext(s) /\ s.board_count = 2 =>
              CardsOut(s) = <<s.hole_cards[0], s.hole_cards[1],
                              s.board_cards[0], s.board_cards[1]>>
  BY SMTT(30) DEF CardsOut, BoardCardNext

\* Both hole cards are out from the first street on, and the street is the
\* number of board cards.
LEMMA StreetIs ==
  ASSUME NEW s \in States, Good(s)
  PROVE  /\ BoardCardNext(s) => Len(CardsOut(s)) - 2 = s.board_count
         /\ ~BoardCardNext(s) => Len(CardsOut(s)) - 2 < 0
<1>1. s.board_count \in {0, 1, 2}
  BY DEF States, Street, kRihRoundCount
<1>2. ASSUME BoardCardNext(s) PROVE Len(CardsOut(s)) - 2 = s.board_count
  <2>1. CASE s.board_count = 0
    <3>1. CardsOut(s) = <<s.hole_cards[0], s.hole_cards[1]>>
      BY <1>2, <2>1, CardsOutIs
    <3> QED
      BY <2>1, <3>1
  <2>2. CASE s.board_count = 1
    <3>1. CardsOut(s) = <<s.hole_cards[0], s.hole_cards[1], s.board_cards[0]>>
      BY <1>2, <2>2, CardsOutIs
    <3> QED
      BY <2>2, <3>1
  <2>3. CASE s.board_count = 2
    <3>1. CardsOut(s) = <<s.hole_cards[0], s.hole_cards[1],
                          s.board_cards[0], s.board_cards[1]>>
      BY <1>2, <2>3, CardsOutIs
    <3> QED
      BY <2>3, <3>1
  <2> QED
    BY <1>1, <2>1, <2>2, <2>3
<1>3. ASSUME ~BoardCardNext(s) PROVE Len(CardsOut(s)) - 2 < 0
  <2>1. CASE s.hole_cards[0] = NoCard
    <3>1. CardsOut(s) = << >>
      BY <2>1, CardsOutIs
    <3> QED
      BY <3>1
  <2>2. CASE s.hole_cards[0] # NoCard
    <3>1. CardsOut(s) = <<s.hole_cards[0]>>
      BY <1>3, <2>2, CardsOutIs DEF BoardCardNext
    <3> QED
      BY <3>1
  <2> QED
    BY <2>1, <2>2
<1> QED
  BY <1>2, <1>3

\* A deal adds its card to them, one that was not out.
LEMMA DealAddsCard ==
  ASSUME NEW s \in States, Good(s), is_chance(s), NEW card \in chance_outcomes(s)
  PROVE  /\ CardsOut(apply_deal(s, card)) = Append(CardsOut(s), card)
         /\ card \in Deck \ {CardsOut(s)[i] : i \in 1 .. Len(CardsOut(s))}
<1> DEFINE t == apply_deal(s, card)
           c == CardsOut(s)
<1>1. /\ ~BoardCardNext(s) =>
           /\ t.hole_cards = [s.hole_cards EXCEPT ![HoleSeat(s)] = card]
           /\ t.board_count = 0
      /\ BoardCardNext(s) =>
           /\ t.hole_cards = s.hole_cards
           /\ t.board_cards = [s.board_cards EXCEPT ![s.board_count] = card]
           /\ t.board_count = s.board_count + 1
  BY DealFields
<1>2. /\ card \in Deck /\ card # NoCard
      /\ \A p \in Player : s.hole_cards[p] # NoCard => card # s.hole_cards[p]
      /\ \A i \in 0 .. s.board_count - 1 : card # s.board_cards[i]
  BY NewCard
<1>3. /\ 0 \in Player /\ 1 \in Player
      /\ s.hole_cards \in [Player -> Deck \cup {NoCard}]
      /\ s.board_cards \in [0 .. 1 -> Deck \cup {NoCard}]
  BY DEF States, Player, kPlayerCount
<1> HIDE DEF t
<1>4. CASE s.hole_cards[0] = NoCard
  <2>1. ~BoardCardNext(s) /\ HoleSeat(s) = 0 /\ s.hole_cards[1] = NoCard
    BY <1>4 DEF BoardCardNext, HoleSeat, Good, CardsInv
  <2>2. t.hole_cards[0] = card /\ t.hole_cards[1] = NoCard
    BY <1>1, <1>3, <2>1
  <2>3. CardsOut(t) = <<card>> /\ c = << >>
    BY <1>2, <1>4, <2>2, CardsOutIs
  <2> HIDE DEF c
  <2> QED
    BY <1>2, <2>3 DEF c, t
<1>5. CASE s.hole_cards[0] # NoCard /\ s.hole_cards[1] = NoCard
  <2>1. ~BoardCardNext(s) /\ HoleSeat(s) = 1
    BY <1>5 DEF BoardCardNext, HoleSeat
  <2>2. t.hole_cards[0] = s.hole_cards[0] /\ t.hole_cards[1] = card /\ t.board_count = 0
    BY <1>1, <1>3, <2>1
  <2>3. CardsOut(t) = <<s.hole_cards[0], card>> /\ c = <<s.hole_cards[0]>>
    BY <1>2, <1>5, <2>2, CardsOutIs DEF BoardCardNext
  <2>4. card # s.hole_cards[0]
    BY <1>2, <1>3, <1>5
  <2> HIDE DEF c
  <2> QED
    BY <1>2, <2>3, <2>4 DEF c, t
<1>6. CASE BoardCardNext(s)
  <2>1. s.board_count \in {0, 1}
    BY <1>6, BoardDueShape
  <2>2. /\ t.hole_cards = s.hole_cards /\ t.board_count = s.board_count + 1
        /\ t.board_cards[s.board_count] = card
        /\ s.board_count = 1 => t.board_cards[0] = s.board_cards[0]
        /\ BoardCardNext(t)
    BY <1>1, <1>3, <1>6, <2>1 DEF BoardCardNext
  <2>3. card # s.hole_cards[0] /\ card # s.hole_cards[1]
    BY <1>2, <1>3, <1>6 DEF BoardCardNext
  <2>4. CASE s.board_count = 0
    <3>1. /\ CardsOut(t) = <<s.hole_cards[0], s.hole_cards[1], card>>
          /\ c = <<s.hole_cards[0], s.hole_cards[1]>>
      BY <1>6, <2>2, <2>4, CardsOutIs
    <3> HIDE DEF c
    <3> QED
      BY <1>2, <2>3, <3>1 DEF c, t
  <2>5. CASE s.board_count = 1
    <3>1. /\ CardsOut(t) = <<s.hole_cards[0], s.hole_cards[1], s.board_cards[0], card>>
          /\ c = <<s.hole_cards[0], s.hole_cards[1], s.board_cards[0]>>
      BY <1>6, <2>2, <2>5, CardsOutIs
    <3>2. card # s.board_cards[0]
      BY <1>2, <2>5
    <3> HIDE DEF c
    <3> QED
      BY <1>2, <2>3, <3>1, <3>2 DEF c, t
  <2> QED
    BY <2>1, <2>4, <2>5
<1> QED
  BY <1>4, <1>5, <1>6 DEF BoardCardNext

\* Betting leaves them as they are.
LEMMA BettingKeepsCards ==
  ASSUME NEW s, NEW t, SameCards(s, t)
  PROVE  CardsOut(t) = CardsOut(s)
  BY DEF SameCards, CardsOut, BoardCardNext

-----------------------------------------------------------------------------
(* Every step of a hand is a step of the rules *)

\* The seat that folded, as the rules are told.
FolderOf(s) == IF folded(s) THEN folder_of(s) ELSE Tie

\* At a decision the rules have betting going on; the seat to act has paid
\* what it had to catch up with, and the difference is what it owes.
LEMMA DecisionIsBetting ==
  ASSUME NEW s \in States, Good(s), is_decision(s)
  PROVE  LET p == current_player(s)
             q == opponent(p)
         IN  /\ BoardCardNext(s) /\ ~folded(s)
             /\ ~(s.round_len >= 2 /\ s.contribution[0] = s.contribution[1])
             /\ facing_bet(s) => s.contribution[p] < s.contribution[q]
             /\ s.contribution[q] - s.contribution[p]
                  = s.level_to_match - s.round_contribution[p]
             /\ s.contribution[p] \in Nat /\ s.contribution[q] \in Nat
<1> DEFINE p == current_player(s)
           q == opponent(p)
<1>1. p \in Player /\ q \in Player /\ Player = {p, q} /\ p # q
      /\ bet_size_of(s) \in Nat /\ bet_size_of(s) >= 1
  BY Seats
<1>2. /\ s.round_contribution[q] = s.level_to_match
      /\ \A r \in Player : s.contribution[r] \in Nat /\ s.round_contribution[r] \in Nat
      /\ s.level_to_match \in Nat
  BY ToPay
<1>3. s.contribution[p] - s.round_contribution[p] = s.contribution[q] - s.round_contribution[q]
  <2>1. p \in {0, 1} /\ q = 1 - p
    BY <1>1 DEF Player, opponent, kPlayerCount
  <2>2. s.contribution[0] - s.round_contribution[0]
          = s.contribution[1] - s.round_contribution[1]
    BY DEF Good, StakesInv
  <2> HIDE DEF p, q
  <2> QED
    BY <2>1, <2>2
<1>4. s.contribution[q] - s.contribution[p] = s.level_to_match - s.round_contribution[p]
  BY <1>1, <1>2, <1>3
<1>5. /\ BoardCardNext(s) /\ ~folded(s)
      /\ s.round_len = 0 \/ BetStands(s) \/ Checked(s)
  BY DecisionShape DEF BoardCardNext
<1>6. ASSUME s.round_len # 0, last_action(s) = kActionRaise
      PROVE  s.contribution[p] < s.contribution[q]
  <2>1. Behind(s, p)
    BY <1>6 DEF Good, StakesInv
  <2> QED
    BY <1>1, <1>2, <1>4, <2>1 DEF Behind
<1>7. ASSUME s.round_len >= 2 PROVE s.contribution[0] # s.contribution[1]
  <2>1. BetStands(s)
    BY <1>5, <1>7 DEF Checked
  <2>2. s.contribution[p] < s.contribution[q]
    BY <1>6, <1>7, <2>1 DEF BetStands
  <2> HIDE DEF p, q
  <2> QED
    BY <1>1, <1>2, <2>2 DEF Player, kPlayerCount
<1> QED
  BY <1>1, <1>2, <1>4, <1>5, <1>6, <1>7 DEF facing_bet

\* A raise is only offered below the cap.
LEMMA RaiseBelowCap ==
  ASSUME NEW s \in States, Good(s), is_decision(s), IsLegal(s, kActionRaise)
  PROVE  s.raises_used < MaxRaises
<1>1. s.raises_used \in 0 .. MaxRaises /\ MaxRaises \in Nat /\ MaxRaises >= 1
  BY RaiseCapAssumption DEF States
<1>2. CASE facing_bet(s)
  BY <1>2, LegalActions
<1>3. CASE ~facing_bet(s)
  <2>1. BetStands(s) => s.round_len # 0
    BY <1>1, RaiseCapAssumption DEF BetStands, Opened, States
  <2>2. s.raises_used = 0
    BY <1>3, <2>1, DecisionShape DEF Good, RoundInv, BetStands, Checked, facing_bet
  <2> QED
    BY <1>1, <2>2
<1> QED
  BY <1>2, <1>3

\* What an action appends is what folded reads back.
LEMMA FolderAfter ==
  ASSUME NEW s \in States, NEW action \in BettingAction, NEW t,
         t.history = Append(s.history, action), t.round_len = s.round_len + 1
  PROVE  FolderOf(t) = IF action = kActionFold THEN current_player(s) ELSE Tie
<1>1. s.history \in Seq(HistoryEntry) /\ s.round_len \in Nat
  BY RaiseCapAssumption DEF States
<1>2. action \in HistoryEntry
  BY DEF HistoryEntry
<1>3. last_action(t) = action
  BY <1>1, <1>2 DEF last_action
<1>4. t.round_len # 0 /\ t.round_len - 1 = s.round_len
  BY <1>1
<1> QED
  BY <1>3, <1>4 DEF FolderOf, folded, folder_of, current_player

\* A deal is a deal of the rules.
LEMMA DealFollows ==
  ASSUME state \in States, Good(state), Deal
  PROVE  Rules!Deal
<1> PICK card \in chance_outcomes(state) : state' = apply_deal(state, card)
  BY DEF Deal
<1>1. is_chance(state)
  BY DEF Deal
<1>2. /\ CardsOut(state') = Append(CardsOut(state), card)
      /\ card \in Deck \ {CardsOut(state)[i] : i \in 1 .. Len(CardsOut(state))}
  BY <1>1, DealAddsCard
<1>3. /\ state'.round_len = 0 /\ state'.raises_used = 0
      /\ state'.contribution = state.contribution
  BY <1>1, DealFields
<1>4. FolderOf(state') = Tie
  BY <1>3 DEF FolderOf, folded
<1>5. CASE BoardCardNext(state)
  <2>1. /\ state.board_count \in {0, 1} /\ Closed(state)
        /\ state.contribution[0] = state.contribution[1]
    BY <1>1, <1>5, BoardDueShape
  <2>2. state.round_len >= 2 /\ FolderOf(state) = Tie
    BY <2>1 DEF Closed, round_closed, FolderOf, folded, kActionFold, kActionCallCheck
  <2>3. Len(CardsOut(state)) - 2 = state.board_count
    BY <1>5, StreetIs
  <2> QED
    BY <1>2, <1>3, <1>4, <2>1, <2>2, <2>3
       DEF Rules!Deal, Rules!Street, Rules!StreetDone, Rules!Even, Rules!Nobody,
           FolderOf, Tie
<1>6. CASE ~BoardCardNext(state)
  <2>1. Len(CardsOut(state)) - 2 < 0
    BY <1>6, StreetIs
  <2>2. state.round_len = 0
    BY <1>6 DEF BoardCardNext, Good, CardsInv
  <2>3. FolderOf(state) = Tie
    BY <2>2 DEF FolderOf, folded
  <2> QED
    BY <1>2, <1>3, <1>4, <2>1, <2>3 DEF Rules!Deal, Rules!Street, FolderOf
<1> QED
  BY <1>5, <1>6

\* At a decision the rules have betting going on, by the seat to act.
LEMMA RulesAtDecision ==
  ASSUME state \in States, Good(state), is_decision(state)
  PROVE  /\ Rules!Betting
         /\ Rules!ToAct = current_player(state)
         /\ Rules!Other(Rules!ToAct) = opponent(current_player(state))
         /\ FolderOf(state) = Tie
         /\ RoundBet[Rules!Street] = bet_size_of(state)
<1>1. /\ BoardCardNext(state) /\ ~folded(state)
      /\ ~(state.round_len >= 2 /\ state.contribution[0] = state.contribution[1])
  BY DecisionIsBetting
<1>2. Len(CardsOut(state)) - 2 = state.board_count /\ state.board_count \in {0, 1, 2}
  <2>1. Len(CardsOut(state)) - 2 = state.board_count
    BY <1>1, StreetIs
  <2>2. state.board_count \in {0, 1, 2}
    BY DEF States, Street, kRihRoundCount
  <2> QED
    BY <2>1, <2>2
<1>3. FolderOf(state) = Tie
  BY <1>1 DEF FolderOf
<1>4. Rules!ToAct = current_player(state)
  BY DEF Rules!ToAct, current_player, kPlayerCount
<1>5. Rules!Betting
  BY <1>1, <1>2, <1>3 DEF Rules!Betting, Rules!HandOver, Rules!StreetDone, Rules!Even,
     Rules!Street, Rules!Nobody, FolderOf, Tie
<1>6. Rules!Other(current_player(state)) = opponent(current_player(state))
  BY DEF Rules!Other, opponent, kPlayerCount
<1>7. RoundBet[Rules!Street] = bet_size_of(state)
  BY <1>2 DEF Rules!Street, bet_size_of
<1> QED
  BY <1>3, <1>4, <1>5, <1>6, <1>7

\* Only a seat that is behind may fold.
LEMMA FoldFollows ==
  ASSUME state \in States, Good(state), Fold
  PROVE  Rules!Fold
<1>1. /\ is_decision(state) /\ IsLegal(state, kActionFold)
      /\ state' = apply_bet(state, kActionFold)
  BY DEF Fold, Act
<1>2. /\ SameCards(state, state')
      /\ state'.history = Append(state.history, kActionFold)
      /\ state'.round_len = state.round_len + 1
      /\ state'.raises_used = state.raises_used
      /\ state'.contribution = state.contribution
  BY <1>1, FoldFields
<1>3. CardsOut(state') = CardsOut(state)
  BY <1>2, BettingKeepsCards
<1>4. state.contribution[current_player(state)]
        < state.contribution[opponent(current_player(state))]
  BY <1>1, LegalActions, DecisionIsBetting
<1>5. FolderOf(state') = current_player(state)
  BY <1>2, FolderAfter DEF BettingAction
<1>6. /\ Rules!Betting
      /\ Rules!ToAct = current_player(state)
      /\ Rules!Other(Rules!ToAct) = opponent(current_player(state))
  BY <1>1, RulesAtDecision
<1> QED
  BY <1>2, <1>3, <1>4, <1>5, <1>6 DEF Rules!Fold, FolderOf

\* A call or check evens the pot.
LEMMA CallFollows ==
  ASSUME state \in States, Good(state), CallCheck
  PROVE  Rules!CallCheck
<1> DEFINE p == current_player(state)
           q == opponent(p)
<1>1. is_decision(state) /\ state' = apply_bet(state, kActionCallCheck)
  BY DEF CallCheck, Act
<1>2. /\ SameCards(state, state')
      /\ state'.history = Append(state.history, kActionCallCheck)
      /\ state'.round_len = state.round_len + 1
      /\ state'.raises_used = state.raises_used
      /\ state'.contribution =
           [state.contribution EXCEPT
              ![p] = @ + (state.level_to_match - state.round_contribution[p])]
  BY <1>1, CallFields
<1>3. CardsOut(state') = CardsOut(state)
  BY <1>2, BettingKeepsCards
<1>4. state.contribution[p] + (state.level_to_match - state.round_contribution[p])
        = state.contribution[q]
  BY <1>1, DecisionIsBetting, ToPay, Seats
<1>5. state'.contribution = [state.contribution EXCEPT ![p] = state.contribution[q]]
  BY <1>2, <1>4
<1>6. FolderOf(state') = Tie
  BY <1>2, FolderAfter DEF BettingAction, kActionFold, kActionCallCheck
<1>7. /\ Rules!Betting /\ FolderOf(state) = Tie
      /\ Rules!ToAct = p
      /\ Rules!Other(Rules!ToAct) = q
  BY <1>1, RulesAtDecision
<1> QED
  BY <1>2, <1>3, <1>5, <1>6, <1>7 DEF Rules!CallCheck, FolderOf

\* A raise goes one bet of the street above what the other seat has paid.
LEMMA RaiseFollows ==
  ASSUME state \in States, Good(state), Raise
  PROVE  Rules!Raise
<1> DEFINE p     == current_player(state)
           q     == opponent(p)
           level == state.level_to_match + bet_size_of(state)
<1>1. /\ is_decision(state) /\ IsLegal(state, kActionRaise)
      /\ state' = apply_bet(state, kActionRaise)
  BY DEF Raise, Act
<1>2. /\ SameCards(state, state')
      /\ state'.history = Append(state.history, kActionRaise)
      /\ state'.round_len = state.round_len + 1
      /\ state'.raises_used = state.raises_used + 1
      /\ state'.contribution =
           [state.contribution EXCEPT ![p] = @ + (level - state.round_contribution[p])]
  BY <1>1, RaiseFields
<1>3. CardsOut(state') = CardsOut(state)
  BY <1>2, BettingKeepsCards
<1>4. state.contribution[p] + (level - state.round_contribution[p])
        = state.contribution[q] + bet_size_of(state)
  BY <1>1, DecisionIsBetting, ToPay, Seats
<1>5. state'.contribution =
        [state.contribution EXCEPT ![p] = state.contribution[q] + bet_size_of(state)]
  BY <1>2, <1>4
<1>6. FolderOf(state') = Tie
  BY <1>2, FolderAfter DEF BettingAction, kActionFold, kActionRaise
<1>7. /\ Rules!Betting /\ FolderOf(state) = Tie
      /\ Rules!ToAct = p
      /\ Rules!Other(Rules!ToAct) = q
      /\ RoundBet[Rules!Street] = bet_size_of(state)
  BY <1>1, RulesAtDecision
<1>8. state.raises_used < MaxRaises
  BY <1>1, RaiseBelowCap
<1> QED
  BY <1>2, <1>3, <1>5, <1>6, <1>7, <1>8 DEF Rules!Raise, FolderOf

\* A terminal node is where the hand is over by the rules.
LEMMA TerminalIsOver ==
  ASSUME state \in States, Good(state), is_terminal(state)
  PROVE  Rules!HandOver
<1>1. BoardCardNext(state)
  BY DEF is_terminal, is_chance, BoardCardNext
<1>2. CASE folded(state)
  <2>1. folder_of(state) \in Player
    BY <1>2, TerminalShape, Seats
  <2> QED
    BY <1>2, <2>1 DEF Rules!HandOver, Rules!Nobody, Player
<1>3. CASE ~folded(state)
  <2>1. /\ state.board_count = 2 /\ state.round_len >= 2
        /\ state.contribution[0] = state.contribution[1]
    BY <1>3, TerminalShape DEF is_terminal, round_closed
  <2>2. Len(CardsOut(state)) - 2 = 2
    BY <1>1, <2>1, StreetIs
  <2> QED
    BY <2>1, <2>2 DEF Rules!HandOver, Rules!StreetDone, Rules!Even, Rules!Street
<1> QED
  BY <1>2, <1>3

\* Before any card is dealt, the rules are at their start.
LEMMA InitialFields ==
  /\ CardsOut(initial_state) = << >>
  /\ initial_state.contribution = [seat \in {0, 1} |-> Ante]
  /\ initial_state.round_len = 0 /\ initial_state.raises_used = 0
  /\ FolderOf(initial_state) = Tie
<1> DEFINE s == initial_state
<1>1. /\ s.hole_cards = [p \in Player |-> NoCard]
      /\ s.contribution = [p \in Player |-> Ante]
      /\ s.round_len = 0 /\ s.raises_used = 0
  BY DEF initial_state, BlankState
<1>2. Player = {0, 1}
  BY DEF Player, kPlayerCount
<1>3. s.hole_cards[0] = NoCard
  BY <1>1, <1>2
<1> HIDE DEF s
<1>4. CardsOut(s) = << >> /\ FolderOf(s) = Tie
  BY <1>1, <1>3, CardsOutIs DEF FolderOf, folded
<1> QED
  BY <1>1, <1>2, <1>4 DEF s

\* Every hand is a hand of FixedLimit: what the implementation reads off the
\* last entries of the history is what the rules decide by chips and cards.
THEOREM HandsFollowRules == Spec => FollowsRules
<1>1. Init => Rules!Init
  BY InitialFields DEF Init, Rules!Init, Rules!Seat, Rules!Nobody, Tie, FolderOf
<1>2. IInv /\ [Next]_vars => [Rules!Next]_Rules!flvars
  <2> SUFFICES ASSUME state \in States, Good(state), [Next]_vars
               PROVE  Rules!Next \/ UNCHANGED Rules!flvars
    BY DEF IInv, TypeOK
  <2>1. CASE Deal
    BY <2>1, DealFollows DEF Rules!Next
  <2>2. CASE Fold
    BY <2>2, FoldFollows DEF Rules!Next
  <2>3. CASE CallCheck
    BY <2>3, CallFollows DEF Rules!Next
  <2>4. CASE Raise
    BY <2>4, RaiseFollows DEF Rules!Next
  <2>5. CASE NewHand
    <3>1. is_terminal(state) /\ state' = initial_state
      BY <2>5 DEF NewHand
    <3>2. Rules!HandOver
      BY <3>1, TerminalIsOver
    <3>3. Rules!NewHand
      BY <3>1, <3>2, InitialFields
         DEF Rules!NewHand, Rules!Seat, Rules!Nobody, Tie, FolderOf
    <3> QED
      BY <3>3 DEF Rules!Next
  <2>6. CASE UNCHANGED vars
    <3>1. state' = state
      BY <2>6 DEF vars
    <3> QED
      BY <3>1 DEF Rules!flvars
  <2> QED
    BY <2>1, <2>2, <2>3, <2>4, <2>5, <2>6 DEF Next
<1> QED
  BY <1>1, <1>2, Invariance, PTL DEF Spec, FollowsRules, Rules!FLSpec

-----------------------------------------------------------------------------
(* What a hand is worth, and which row a decision uses *)

\* At a showdown the payoffs go by the strength of the cards on the table: the
\* ranks remembered when the turn was dealt are still those.
LEMMA ShowdownByStrength ==
  ASSUME state \in States, Good(state), Fresh(state), is_terminal(state), ~folded(state)
  PROVE  /\ state.contribution[0] = state.contribution[1]
         /\ \A p \in Player : state.showdown_rank[p] = Rules!StrengthOf(p)
<1>1. state.contribution[0] = state.contribution[1]
  BY TerminalShape
<1>2. BoardCardNext(state) /\ state.board_count = 2
  BY DEF is_terminal, is_chance, BoardCardNext
<1>3. CardsOut(state) = <<state.hole_cards[0], state.hole_cards[1],
                          state.board_cards[0], state.board_cards[1]>>
  BY <1>2, CardsOutIs
<1>4. ASSUME NEW p \in Player
      PROVE  own_cards(state, p)
               = <<CardsOut(state)[p + 1], CardsOut(state)[3], CardsOut(state)[4]>>
  <2>1. p \in {0, 1}
    BY DEF Player, kPlayerCount
  <2>2. /\ CardsOut(state)[p + 1] = state.hole_cards[p]
        /\ CardsOut(state)[3] = state.board_cards[0]
        /\ CardsOut(state)[4] = state.board_cards[1]
    BY <1>3, <2>1
  <2>3. own_cards(state, p) = [i \in 1 .. 3 |->
           IF i = 1 THEN state.hole_cards[p] ELSE state.board_cards[i - 2]]
    BY <1>2 DEF own_cards
  <2>4. [i \in 1 .. 3 |-> IF i = 1 THEN state.hole_cards[p] ELSE state.board_cards[i - 2]]
          = <<state.hole_cards[p], state.board_cards[0], state.board_cards[1]>>
    OBVIOUS
  <2> QED
    BY <2>2, <2>3, <2>4
<1>5. ASSUME NEW p \in Player
      PROVE  state.showdown_rank[p] = Rules!StrengthOf(p)
  BY <1>2, <1>4 DEF Fresh, Rules!StrengthOf
<1> QED
  BY <1>1, <1>5

\* A hand is over where the rules say, and pays what they say: the payoff read
\* from the last entry of the history and from remembered ranks is that of who
\* folded and of the cards.
THEOREM HandsWorthByRules == Spec => []WorthByRules
<1>1. FInv => WorthByRules
  <2> SUFFICES ASSUME state \in States, Good(state), Fresh(state), is_terminal(state)
               PROVE  /\ Rules!HandOver
                      /\ \A p \in Player : terminal_utility(state, p) = Rules!Worth(p)
    BY DEF FInv, IInv, TypeOK, WorthByRules
  <2>1. Rules!HandOver
    BY TerminalIsOver
  <2> SUFFICES ASSUME NEW p \in Player
               PROVE  terminal_utility(state, p) = Rules!Worth(p)
    BY <2>1
  <2>2. p \in {0, 1} /\ opponent(0) = 1 /\ opponent(1) = 0
    BY DEF Player, opponent, kPlayerCount
  <2>3. CASE folded(state)
    <3>1. folder_of(state) \in {0, 1}
      BY <2>3, TerminalShape, Seats DEF Player, kPlayerCount
    <3>2. terminal_utility(state, p)
            = IF p = folder_of(state) THEN -state.contribution[folder_of(state)]
              ELSE state.contribution[folder_of(state)]
      BY <2>2, <2>3, <3>1 DEF terminal_utility, settle, Tie
    <3> QED
      BY <2>3, <3>1, <3>2 DEF Rules!Worth, Rules!Nobody, Tie
  <2>4. CASE ~folded(state)
    <3>1. /\ state.contribution[0] = state.contribution[1]
          /\ Rules!StrengthOf(0) = state.showdown_rank[0]
          /\ Rules!StrengthOf(1) = state.showdown_rank[1]
      BY <2>4, ShowdownByStrength DEF Player, kPlayerCount
    <3>2. state.showdown_rank[0] \in Nat /\ state.showdown_rank[1] \in Nat
      BY DEF States, Player, kPlayerCount
    <3>3. terminal_utility(state, p)
            = settle(state.contribution, showdown_winner(state), p)
      BY <2>4 DEF terminal_utility
    <3>4. terminal_utility(state, p)
            = IF state.showdown_rank[0] = state.showdown_rank[1] THEN 0
              ELSE IF (state.showdown_rank[0] > state.showdown_rank[1]) = (p = 0)
                   THEN state.contribution[0] ELSE -state.contribution[0]
      BY <2>2, <3>1, <3>2, <3>3 DEF settle, showdown_winner, Tie
    <3>5. Rules!Worth(p)
            = IF Rules!StrengthOf(p) > Rules!StrengthOf(1 - p) THEN state.contribution[1 - p]
              ELSE IF Rules!StrengthOf(p) < Rules!StrengthOf(1 - p) THEN -state.contribution[p]
              ELSE 0
      BY <2>4 DEF Rules!Worth, Rules!Other, Rules!Nobody, Tie
    <3>6. CASE p = 0
      BY <3>1, <3>2, <3>4, <3>5, <3>6
    <3>7. CASE p = 1
      BY <3>1, <3>2, <3>4, <3>5, <3>7
    <3> QED
      BY <2>2, <3>6, <3>7
  <2> QED
    BY <2>3, <2>4
<1> QED
  BY <1>1, ValuesStayFresh, PTL

\* Two digits of a mixed radix stay below the product of the radices.
LEMMA MixedRadix ==
  ASSUME NEW m \in Nat, NEW n \in Nat, NEW a \in 0 .. m - 1, NEW b \in 0 .. n - 1
  PROVE  a * n + b \in 0 .. m * n - 1
<1> DEFINE d == m - 1 - a
<1>1. d \in Nat /\ a \in Nat /\ b \in Nat /\ n \in Nat
  OBVIOUS
<1>2. m = a + 1 + d
  OBVIOUS
<1> HIDE DEF d
<1>3. m * n = a * n + n + d * n
  BY <1>1, <1>2
<1>4. a * n \in Nat /\ d * n \in Nat
  BY <1>1
<1> DEFINE x == a * n
           y == d * n
           z == m * n
<1>5. x \in Nat /\ y \in Nat /\ z = x + n + y
  BY <1>3, <1>4
<1> HIDE DEF x, y, z
<1>6. x + b \in 0 .. z - 1
  BY <1>1, <1>5
<1> QED
  BY <1>6 DEF x, z

\* The digits of a row number are each below their radix, at every decision.
LEMMA DigitsInRange ==
  ASSUME NEW s \in States, Good(s), Fresh(s), is_decision(s)
  PROVE  /\ round_progress(s) \in 0 .. kProgress - 1
         /\ s.card_class[current_player(s)] \in 0 .. ClassCount[s.board_count] - 1
         /\ s.closing[0] \in 0 .. kClosing - 1 /\ s.closing[1] \in 0 .. kClosing - 1
<1>1. s.raises_used \in 0 .. MaxRaises /\ MaxRaises \in Nat
  BY RaiseCapAssumption DEF States
<1>2. round_progress(s) \in 0 .. kProgress - 1
  BY <1>1 DEF round_progress, kProgress, round_progress_count
<1> DEFINE p == current_player(s)
<1>3. p \in Player /\ s.hole_cards[p] # NoCard
  BY Seats, DecisionShape DEF Player, kPlayerCount
<1>4. own_cards(s, p) \in Held(s.board_count) /\ s.board_count \in Street
  BY <1>3, OwnCardsHeld DEF Good, States
<1>5. s.card_class[p] = ClassOf[own_cards(s, p)]
  BY <1>3 DEF Fresh, own_class
<1>6. /\ ClassOf[own_cards(s, p)] \in Nat
      /\ ClassOf[own_cards(s, p)] < ClassCount[s.board_count]
      /\ ClassCount[s.board_count] \in Nat
  BY <1>4, ClassAssumption
<1>7. s.card_class[p] \in 0 .. ClassCount[s.board_count] - 1
  BY <1>5, <1>6
<1>8. s.closing[0] \in 0 .. kClosing - 1 /\ s.closing[1] \in 0 .. kClosing - 1
  BY DEF States
<1> QED
  BY <1>2, <1>7, <1>8

\* The rows of a street.
RowOnStreet(s) ==
  infoset_index(s) \in
    CASE s.board_count = 0 -> 0 .. round0_rows - 1
      [] s.board_count = 1 -> round0_rows .. round0_rows + round1_rows - 1
      [] s.board_count = 2 -> round0_rows + round1_rows .. infoset_count - 1

\* Digits below their radices name a row of the street.
LEMMA RowOfDigits ==
  ASSUME NEW s, s.board_count \in Street, round_progress(s) \in 0 .. kProgress - 1,
         s.card_class[current_player(s)] \in 0 .. ClassCount[s.board_count] - 1,
         s.closing[0] \in 0 .. kClosing - 1, s.closing[1] \in 0 .. kClosing - 1
  PROVE  RowOnStreet(s)
<1> DEFINE progress == round_progress(s)
           class    == s.card_class[current_player(s)]
           c0       == s.closing[0]
           c1       == s.closing[1]
           P == kProgress
           K == kClosing
           b == s.board_count
<1>1. /\ progress \in 0 .. P - 1 /\ class \in 0 .. ClassCount[b] - 1
      /\ c0 \in 0 .. K - 1 /\ c1 \in 0 .. K - 1
  OBVIOUS
<1>2. P \in Nat /\ K \in Nat
  BY RaiseCapAssumption DEF kProgress, kClosing, round_progress_count, closing_sequence_count
<1>3. b \in {0, 1, 2} /\ ClassCount \in [{0, 1, 2} -> Nat]
  BY ClassAssumption DEF Street, kRihRoundCount
<1>4. ClassCount[0] \in Nat /\ ClassCount[1] \in Nat /\ ClassCount[2] \in Nat
  BY <1>3
<1>5. round0_rows \in Nat /\ round1_rows \in Nat
  <2>1. P * ClassCount[0] \in Nat
    BY <1>2, <1>4
  <2>2. K * P \in Nat
    BY <1>2
  <2>3. K * P * ClassCount[1] \in Nat
    BY <1>4, <2>2
  <2> QED
    BY <2>1, <2>3 DEF round0_rows, round1_rows
<1>6. /\ b = 0 => infoset_index(s) = progress * ClassCount[0] + class
      /\ b = 1 => infoset_index(s)
                    = round0_rows + (c0 * P + progress) * ClassCount[1] + class
      /\ b = 2 => infoset_index(s)
                    = round0_rows + round1_rows
                        + ((c0 * K + c1) * P + progress) * ClassCount[2] + class
  BY DEF infoset_index
<1>7. infoset_count = round0_rows + round1_rows + K * K * P * ClassCount[2]
  BY DEF infoset_count, round2_rows
<1>8. round0_rows = P * ClassCount[0] /\ round1_rows = K * P * ClassCount[1]
  BY DEF round0_rows, round1_rows
<1> HIDE DEF progress, class, c0, c1, P, K, b
<1>9. CASE b = 0
  <2>1. progress * ClassCount[0] + class \in 0 .. P * ClassCount[0] - 1
    BY <1>1, <1>2, <1>4, <1>9, MixedRadix
  <2> QED
    BY <1>6, <1>8, <1>9, <2>1 DEF RowOnStreet, b
<1>10. CASE b = 1
  <2> DEFINE line == c0 * P + progress
             lines == K * P
             row == line * ClassCount[1] + class
             rows == lines * ClassCount[1]
  <2>1. line \in 0 .. lines - 1 /\ lines \in Nat
    BY <1>1, <1>2, MixedRadix
  <2> HIDE DEF line, lines
  <2>2. row \in 0 .. rows - 1
    BY <1>1, <1>4, <1>10, <2>1, MixedRadix
  <2>3. infoset_index(s) = round0_rows + line * ClassCount[1] + class
    BY <1>6, <1>10 DEF line
  <2>4. round1_rows = rows
    BY <1>8 DEF lines
  <2>5. line * ClassCount[1] \in Int /\ class \in Int
    BY <1>1, <1>4, <1>10, <2>1
  <2>6. infoset_index(s) = round0_rows + row
    BY <1>5, <2>3, <2>5
  <2> HIDE DEF row, rows
  <2>7. infoset_index(s) \in round0_rows .. round0_rows + round1_rows - 1
    BY <1>5, <2>2, <2>4, <2>6
  <2> QED
    BY <1>10, <2>7 DEF RowOnStreet, b
<1>11. CASE b = 2
  <2> DEFINE codes == c0 * K + c1
             line  == codes * P + progress
             pairs == K * K
             lines == pairs * P
             row   == line * ClassCount[2] + class
             rows  == lines * ClassCount[2]
  <2>1. codes \in 0 .. pairs - 1 /\ pairs \in Nat
    BY <1>1, <1>2, MixedRadix
  <2> HIDE DEF codes, pairs
  <2>2. line \in 0 .. lines - 1 /\ lines \in Nat
    BY <1>1, <1>2, <2>1, MixedRadix
  <2>3. /\ infoset_index(s)
             = round0_rows + round1_rows + line * ClassCount[2] + class
        /\ infoset_count = round0_rows + round1_rows + rows
    BY <1>6, <1>7, <1>11 DEF codes, pairs
  <2> HIDE DEF line, lines
  <2>4. row \in 0 .. rows - 1
    BY <1>1, <1>4, <1>11, <2>2, MixedRadix
  <2>5. line * ClassCount[2] \in Int /\ class \in Int /\ rows \in Nat
    BY <1>1, <1>4, <1>11, <2>2
  <2>6. infoset_index(s) = round0_rows + round1_rows + row
    BY <1>5, <2>3, <2>5
  <2> HIDE DEF row, rows
  <2>7. infoset_index(s) \in round0_rows + round1_rows .. infoset_count - 1
    BY <1>5, <2>3, <2>4, <2>5, <2>6
  <2> QED
    BY <1>11, <2>7 DEF RowOnStreet, b
<1> QED
  BY <1>3, <1>9, <1>10, <1>11

\* A decision node owns one of the rows of its street.
LEMMA DecisionOwnsRow ==
  ASSUME NEW s \in States, Good(s), Fresh(s), is_decision(s)
  PROVE  RowOnStreet(s)
<1>1. s.board_count \in Street
  BY DEF States
<1> QED
  BY <1>1, DigitsInRange, RowOfDigits

\* Whatever the raise cap and the classes, a decision owns a row of its street
\* inside the tables: no look-up of the solver leaves them.
RowsInTable == is_decision(state) => RowOnStreet(state)
THEOREM RowsStayInTable == Spec => []RowsInTable
<1>1. FInv => RowsInTable
  BY DecisionOwnsRow DEF FInv, IInv, TypeOK, RowsInTable
<1> QED
  BY <1>1, ValuesStayFresh, PTL


-----------------------------------------------------------------------------
(* The line a code stands for, entry by entry *)

ClosedLength(code) == IF code <= MaxRaises THEN code + 2 ELSE code - MaxRaises + 1
ClosedEntry(code, i) ==
  IF i = ClosedLength(code) \/ (i = 1 /\ code <= MaxRaises) THEN kActionCallCheck
  ELSE kActionRaise

\* A line of actions, and two of them one after the other.
Line(a, n)        == a \in Seq(BettingAction) /\ Len(a) = n
Joins(line, a, b) == line = a \o b
Joined(line, a, b, m, n) ==
  /\ Line(line, m + n)
  /\ \A i \in 1 .. m + n : line[i] = IF i <= m THEN a[i] ELSE b[i - m]

\* Two lines one after the other are a line with the entries of both.
LEMMA JoinedIs ==
  ASSUME NEW a, NEW b, NEW line, NEW m, NEW n, Line(a, m), Line(b, n), Joins(line, a, b)
  PROVE  Joined(line, a, b, m, n)
<1>1. a \in Seq(BettingAction) /\ Len(a) = m /\ b \in Seq(BettingAction) /\ Len(b) = n
  BY DEF Line
<1>2. /\ line \in Seq(BettingAction) /\ Len(line) = Len(a) + Len(b)
      /\ \A i \in 1 .. Len(a) + Len(b) :
           line[i] = IF i <= Len(a) THEN a[i] ELSE b[i - Len(a)]
  BY <1>1, ConcatProperties, Zenon DEF Joins
<1>3. line \in Seq(BettingAction) /\ Len(line) = m + n
  BY <1>1, <1>2
<1>4. \A i \in 1 .. m + n : line[i] = IF i <= m THEN a[i] ELSE b[i - m]
  BY <1>1, <1>2, Zenon
<1> QED
  BY <1>3, <1>4, Zenon DEF Line, Joined

\* A run of raises.
LEMMA RaisesIs ==
  ASSUME NEW n \in Nat
  PROVE  /\ Raises(n) \in Seq(BettingAction) /\ Len(Raises(n)) = n
         /\ \A i \in 1 .. n : Raises(n)[i] = kActionRaise
  BY DEF Raises, BettingAction

\* What a closing code stands for: for every code below closing_sequence_count a
\* line that ends with a call or check, entry by entry.
LEMMA ClosedLineIs ==
  ASSUME NEW code \in 0 .. kClosing - 1
  PROVE  /\ Line(ClosedLine(code), ClosedLength(code))
         /\ \A i \in 1 .. ClosedLength(code) : ClosedLine(code)[i] = ClosedEntry(code, i)
         /\ ClosedLength(code) \in Nat /\ ClosedLength(code) >= 2
<1> DEFINE check  == <<kActionCallCheck>>
           raises == Raises(code)
           others == Raises(code - MaxRaises)
<1>1. /\ MaxRaises \in Nat /\ code \in Nat /\ code <= 2 * MaxRaises
  BY RaiseCapAssumption DEF kClosing, closing_sequence_count
<1>2. Line(check, 1) /\ check[1] = kActionCallCheck
  BY DEF BettingAction, Line
<1>3. CASE code <= MaxRaises
  <2> DEFINE opening == check \o raises
             line    == opening \o check
  <2>1. ClosedLine(code) = line
    BY <1>3 DEF ClosedLine
  <2>2. Line(raises, code) /\ \A i \in 1 .. code : raises[i] = kActionRaise
    BY <1>1, RaisesIs DEF Line
  <2>3. ClosedLength(code) = code + 2
    BY <1>3 DEF ClosedLength
  <2>4. Joins(opening, check, raises) /\ Joins(line, opening, check)
    BY DEF Joins
  <2> HIDE DEF check, raises, opening, line
  <2>5. /\ Line(opening, 1 + code)
        /\ \A i \in 1 .. 1 + code : opening[i] = IF i <= 1 THEN check[i] ELSE raises[i - 1]
    <3>1. Joined(opening, check, raises, 1, code)
      BY <1>2, <2>2, <2>4, JoinedIs
    <3> QED
      BY <3>1, Zenon DEF Joined
  <2>6. /\ Line(line, 1 + code + 1)
        /\ \A i \in 1 .. 1 + code + 1 :
             line[i] = IF i <= 1 + code THEN opening[i] ELSE check[i - (1 + code)]
    <3>1. Joined(line, opening, check, 1 + code, 1)
      BY <1>2, <2>4, <2>5, JoinedIs
    <3> QED
      BY <3>1, Zenon DEF Joined
  <2>7. ASSUME NEW i \in 1 .. code + 2
        PROVE  line[i] = ClosedEntry(code, i)
    <3>1. CASE i = 1
      BY <1>1, <1>2, <1>3, <2>5, <2>6, <3>1 DEF ClosedEntry
    <3>2. CASE i \in 2 .. code + 1
      <4>1. line[i] = opening[i] /\ opening[i] = raises[i - 1] /\ i - 1 \in 1 .. code
        BY <1>1, <2>5, <2>6, <3>2
      <4>2. line[i] = kActionRaise
        BY <2>2, <4>1
      <4> QED
        BY <1>1, <2>3, <3>2, <4>2 DEF ClosedEntry
    <3>3. CASE i = code + 2
      <4>1. line[i] = check[i - (1 + code)] /\ i - (1 + code) = 1
        BY <1>1, <2>6, <3>3
      <4>2. line[i] = kActionCallCheck
        BY <1>2, <4>1
      <4> QED
        BY <1>1, <2>3, <3>3, <4>2 DEF ClosedEntry
    <3> QED
      BY <1>1, <3>1, <3>2, <3>3
  <2>8. 1 + code + 1 = code + 2
    BY <1>1
  <2>9. Line(line, code + 2)
    BY <2>6, <2>8
  <2> QED
    BY <1>1, <2>1, <2>3, <2>7, <2>9
<1>4. CASE code > MaxRaises
  <2> DEFINE n    == code - MaxRaises
             line == others \o check
  <2>0. ~(code <= MaxRaises) /\ n \in Nat /\ n >= 1
    BY <1>1, <1>4
  <2>1. ClosedLine(code) = line
    BY <2>0, Zenon DEF ClosedLine
  <2>2. Line(others, n) /\ \A i \in 1 .. n : others[i] = kActionRaise
    BY <2>0, RaisesIs DEF Line
  <2>3. ClosedLength(code) = n + 1
    BY <2>0 DEF ClosedLength
  <2>4. Joins(line, others, check)
    BY DEF Joins
  <2> HIDE DEF check, others, line, n
  <2>5. /\ Line(line, n + 1)
        /\ \A i \in 1 .. n + 1 : line[i] = IF i <= n THEN others[i] ELSE check[i - n]
    <3>1. Joined(line, others, check, n, 1)
      BY <1>2, <2>2, <2>4, JoinedIs
    <3> QED
      BY <3>1, Zenon DEF Joined
  <2>6. ASSUME NEW i \in 1 .. n + 1
        PROVE  line[i] = ClosedEntry(code, i)
    <3>1. CASE i <= n
      <4>1. line[i] = kActionRaise
        BY <2>0, <2>2, <2>5, <3>1
      <4> QED
        BY <2>0, <2>3, <3>1, <4>1 DEF ClosedEntry
    <3>2. CASE i = n + 1
      <4>1. line[i] = check[i - n] /\ i - n = 1
        BY <2>0, <2>5, <3>2
      <4>2. line[i] = kActionCallCheck
        BY <1>2, <4>1
      <4> QED
        BY <2>3, <3>2, <4>2 DEF ClosedEntry
    <3> QED
      BY <2>0, <3>1, <3>2
  <2> QED
    BY <2>0, <2>1, <2>3, <2>5, <2>6
<1> QED
  BY <1>1, <1>3, <1>4

\* What a progress code stands for: a check if it is odd, then its raises.
LEMMA OpenLineIs ==
  ASSUME NEW n \in Nat, NEW o \in {0, 1}
  PROVE  LET line == OpenLine(2 * n + o)
         IN  /\ Line(line, n + o)
             /\ \A i \in 1 .. n + o :
                  line[i] = IF i = 1 /\ o = 1 THEN kActionCallCheck ELSE kActionRaise
<1> DEFINE raises == Raises(n)
           check  == <<kActionCallCheck>>
           line   == OpenLine(2 * n + o)
<1>1. (2 * n + o) % 2 = o /\ (2 * n + o) \div 2 = n
  OBVIOUS
<1>2. Line(raises, n) /\ \A i \in 1 .. n : raises[i] = kActionRaise
  BY RaisesIs DEF Line
<1>3. CASE o = 1
  <2>1. Joins(line, check, raises)
    BY <1>1, <1>3 DEF OpenLine, Joins
  <2>2. Line(check, 1) /\ check[1] = kActionCallCheck
    BY DEF BettingAction, Line
  <2> HIDE DEF raises, line, check
  <2>3. /\ Line(line, 1 + n)
        /\ \A i \in 1 .. 1 + n : line[i] = IF i <= 1 THEN check[i] ELSE raises[i - 1]
    <3>1. Joined(line, check, raises, 1, n)
      BY <1>2, <2>1, <2>2, JoinedIs
    <3> QED
      BY <3>1, Zenon DEF Joined
  <2>4. 1 + n = n + o
    BY <1>3
  <2>5. ASSUME NEW i \in 1 .. n + o
        PROVE  line[i] = IF i = 1 /\ o = 1 THEN kActionCallCheck ELSE kActionRaise
    <3>1. i \in 1 .. 1 + n /\ (i # 1 => i - 1 \in 1 .. n /\ ~(i <= 1))
      BY <1>3
    <3> QED
      BY <1>2, <1>3, <2>2, <2>3, <3>1
  <2> QED
    BY <2>3, <2>4, <2>5 DEF line
<1>4. CASE o = 0
  <2>0. (2 * n + o) % 2 # 1
    BY <1>1, <1>4
  <2>1. line = << >> \o raises
    BY <1>1, <2>0, Zenon DEF OpenLine
  <2> HIDE DEF raises, line
  <2>2. line = raises
    BY <1>2, <2>1, ConcatEmptySeq DEF Line
  <2> QED
    BY <1>2, <1>4, <2>2 DEF line
<1> QED
  BY <1>3, <1>4

-----------------------------------------------------------------------------
(* The history, entry by entry *)

\* Where the actions of a street begin.
First(s, street) ==
  CASE street = 0 -> 3
    [] street = 1 -> 4 + ClosedLength(s.closing[0])
    [] street = 2 -> 5 + ClosedLength(s.closing[0]) + ClosedLength(s.closing[1])

\* Before its last action, the round in progress is an optional check and raises.
OpenEntry(s, i) == IF i = 1 /\ Opened(s) = 1 THEN kActionCallCheck ELSE kActionRaise

\* The history is the cards and the lines the codes stand for, in their order.
Holes(s) ==
  /\ s.hole_cards[0] # NoCard =>
       /\ s.history[1] = kChanceCardOffset + s.hole_cards[0]
       /\ s.hole_cards[1] = NoCard => Len(s.history) = 1
  /\ s.hole_cards[1] # NoCard => s.history[2] = kChanceCardOffset + s.hole_cards[1]
InProgress(s) ==
  s.hole_cards[1] # NoCard =>
    /\ Len(s.history) = First(s, s.board_count) - 1 + s.round_len
    /\ s.round_len # 0 => last_action(s) \in BettingAction
    /\ \A i \in 1 .. s.round_len - 1 :
         s.history[First(s, s.board_count) - 1 + i] = OpenEntry(s, i)
Street0(s) ==
  s.board_count >= 1 =>
    /\ \A i \in 1 .. ClosedLength(s.closing[0]) :
         s.history[First(s, 0) - 1 + i] = ClosedEntry(s.closing[0], i)
    /\ s.history[First(s, 1) - 1] = kChanceCardOffset + s.board_cards[0]
Street1(s) ==
  s.board_count = 2 =>
    /\ \A i \in 1 .. ClosedLength(s.closing[1]) :
         s.history[First(s, 1) - 1 + i] = ClosedEntry(s.closing[1], i)
    /\ s.history[First(s, 2) - 1] = kChanceCardOffset + s.board_cards[1]
LinesInv(s) == Holes(s) /\ InProgress(s) /\ Street0(s) /\ Street1(s)

RInv == FInv /\ LinesInv(state)

\* The lengths the history is measured in.
LEMMA LengthsAre ==
  ASSUME NEW s \in States
  PROVE  /\ ClosedLength(s.closing[0]) \in Nat /\ ClosedLength(s.closing[0]) >= 2
         /\ ClosedLength(s.closing[1]) \in Nat /\ ClosedLength(s.closing[1]) >= 2
         /\ s.round_len \in Nat /\ s.board_count \in {0, 1, 2}
         /\ Len(s.history) \in Nat
<1>1. s.closing[0] \in 0 .. kClosing - 1 /\ s.closing[1] \in 0 .. kClosing - 1
  BY DEF States
<1>2. s.round_len \in Nat /\ s.board_count \in {0, 1, 2} /\ Len(s.history) \in Nat
  BY RaiseCapAssumption DEF States, Street, kRihRoundCount
<1> QED
  BY <1>1, <1>2, ClosedLineIs

\* An action goes to the end of the line in progress.
LEMMA BettingKeepsLines ==
  ASSUME NEW s \in States, Good(s), is_decision(s), LinesInv(s), NEW action \in BettingAction
  PROVE  LinesInv(apply_bet(s, action))
<1> DEFINE t == apply_bet(s, action)
<1>1. /\ SameCards(s, t) /\ t.history = Append(s.history, action)
      /\ t.round_len = s.round_len + 1
  BY FoldFields, CallFields, RaiseFields DEF BettingAction
<1> HIDE DEF t
<1>2. s.hole_cards[0] # NoCard /\ s.hole_cards[1] # NoCard
  BY DecisionShape
<1>3. s.round_len <= Len(s.history)
  BY DEF Good, HistoryInv
<1>4. /\ last_action(t) = action
      /\ s.round_len # 0 => Opened(t) = Opened(s)
  BY <1>1, <1>3, Extended
<1> DEFINE L0 == ClosedLength(s.closing[0])
           L1 == ClosedLength(s.closing[1])
           n  == s.round_len
           b  == s.board_count
           F  == First(s, b)
           N  == Len(s.history)
<1>5. L0 \in Nat /\ L0 >= 2 /\ L1 \in Nat /\ L1 >= 2 /\ n \in Nat /\ b \in {0, 1, 2} /\ N \in Nat
  BY LengthsAre
<1>6. Len(t.history) = N + 1 /\ \A k \in 1 .. N : t.history[k] = s.history[k]
  <2>1. s.history \in Seq(HistoryEntry) /\ action \in HistoryEntry
    BY DEF States, HistoryEntry
  <2> QED
    BY <1>1, <2>1
<1>7. \A r \in {0, 1, 2} : First(t, r) = First(s, r)
  BY <1>1 DEF First, SameCards
<1>8. /\ First(s, 0) = 3 /\ First(s, 1) = 4 + L0 /\ First(s, 2) = 5 + L0 + L1
      /\ F = IF b = 0 THEN 3 ELSE IF b = 1 THEN 4 + L0 ELSE 5 + L0 + L1
  BY <1>5 DEF First
<1>9. N = F - 1 + n
  BY <1>2 DEF LinesInv, InProgress
<1> HIDE DEF L0, L1, n, b, F, N
<1>10. Holes(t)
  <2>1. N >= 2
    BY <1>5, <1>8, <1>9
  <2>2. t.history[1] = s.history[1] /\ t.history[2] = s.history[2]
    BY <1>5, <1>6, <2>1
  <2> QED
    BY <1>1, <1>2, <2>2 DEF LinesInv, Holes, SameCards
<1>11. InProgress(t)
  <2>1. Len(t.history) = First(t, t.board_count) - 1 + t.round_len
    <3>1. First(t, t.board_count) = F /\ t.round_len = n + 1
      BY <1>1, <1>5, <1>7 DEF SameCards, F, b, n
    <3> QED
      BY <1>5, <1>6, <1>8, <1>9, <3>1
  <2>2. ASSUME NEW i \in 1 .. n
        PROVE  t.history[F - 1 + i] = OpenEntry(t, i)
    <3>1. t.history[F - 1 + i] = s.history[F - 1 + i]
      <4>1. F - 1 + i \in 1 .. N
        BY <1>5, <1>8, <1>9
      <4> QED
        BY <1>6, <4>1
    <3>2. n # 0 /\ Opened(t) = Opened(s)
      BY <1>4, <1>5 DEF n
    <3>3. CASE i \in 1 .. n - 1
      <4>1. s.history[F - 1 + i] = OpenEntry(s, i)
        BY <1>2, <3>3 DEF LinesInv, InProgress, F, n, b
      <4> QED
        BY <3>1, <3>2, <4>1 DEF OpenEntry
    <3>4. CASE i = n
      <4>1. s.history[F - 1 + i] = last_action(s)
        BY <1>9, <3>4 DEF last_action, N
      <4>2. CASE BetStands(s)
        <5>1. last_action(s) = kActionRaise /\ n = s.raises_used + Opened(s) /\ s.raises_used >= 1
          BY <4>2 DEF BetStands, n
        <5>2. s.raises_used \in Nat
          BY RaiseCapAssumption DEF States
        <5> QED
          BY <3>1, <3>2, <3>4, <4>1, <5>1, <5>2 DEF OpenEntry
      <4>3. CASE Checked(s)
        <5>1. last_action(s) = kActionCallCheck /\ n = 1
          BY <4>3 DEF Checked, n
        <5>2. Opened(s) = 1
          BY <4>3, CheckedOpened DEF Good
        <5> QED
          BY <3>1, <3>2, <3>4, <4>1, <5>1, <5>2 DEF OpenEntry
      <4> QED
        BY <3>2, <4>2, <4>3, DecisionShape DEF n
    <3> QED
      BY <1>5, <3>3, <3>4
  <2>3. t.round_len - 1 = n /\ First(t, t.board_count) = F
    BY <1>1, <1>5, <1>7 DEF SameCards, n, b, F
  <2>4. last_action(t) \in BettingAction
    BY <1>4
  <2> QED
    BY <2>1, <2>2, <2>3, <2>4 DEF InProgress
<1>12. Street0(t)
  <2> DEFINE A == First(s, 0)
             B == First(s, 1)
  <2> SUFFICES ASSUME b >= 1
               PROVE  /\ \A i \in 1 .. L0 : t.history[A - 1 + i] = ClosedEntry(s.closing[0], i)
                      /\ t.history[B - 1] = kChanceCardOffset + s.board_cards[0]
    BY <1>1, <1>7, Zenon DEF Street0, SameCards, b, L0
  <2>1. /\ \A i \in 1 .. L0 : s.history[A - 1 + i] = ClosedEntry(s.closing[0], i)
        /\ s.history[B - 1] = kChanceCardOffset + s.board_cards[0]
    BY Zenon DEF LinesInv, Street0, b, L0
  <2>2. A \in Nat /\ A >= 1 /\ B = A + L0 + 1 /\ B - 1 <= N
    BY <1>5, <1>8, <1>9
  <2> HIDE DEF A, B
  <2>3. B - 1 \in 1 .. N /\ \A i \in 1 .. L0 : A - 1 + i \in 1 .. N
    BY <1>5, <2>2
  <2> QED
    BY <1>6, <2>1, <2>3
<1>13. Street1(t)
  <2> DEFINE A == First(s, 1)
             B == First(s, 2)
  <2> SUFFICES ASSUME b = 2
               PROVE  /\ \A i \in 1 .. L1 : t.history[A - 1 + i] = ClosedEntry(s.closing[1], i)
                      /\ t.history[B - 1] = kChanceCardOffset + s.board_cards[1]
    BY <1>1, <1>7, Zenon DEF Street1, SameCards, b, L1
  <2>1. /\ \A i \in 1 .. L1 : s.history[A - 1 + i] = ClosedEntry(s.closing[1], i)
        /\ s.history[B - 1] = kChanceCardOffset + s.board_cards[1]
    BY Zenon DEF LinesInv, Street1, b, L1
  <2>2. A \in Nat /\ A >= 1 /\ B = A + L1 + 1 /\ B - 1 <= N
    BY <1>5, <1>8, <1>9
  <2> HIDE DEF A, B
  <2>3. B - 1 \in 1 .. N /\ \A i \in 1 .. L1 : A - 1 + i \in 1 .. N
    BY <1>5, <2>2
  <2> QED
    BY <1>6, <2>1, <2>3
<1> QED
  BY <1>10, <1>11, <1>12, <1>13 DEF LinesInv, t

\* The hole cards are the first two entries.
LEMMA HoleKeepsLines ==
  ASSUME NEW s \in States, Good(s), is_chance(s), ~BoardCardNext(s),
         NEW card \in chance_outcomes(s)
  PROVE  LinesInv(s) => LinesInv(apply_deal(s, card))
<1> DEFINE t == apply_deal(s, card)
<1>1. /\ t.round_len = 0 /\ t.board_count = 0
      /\ t.history = Append(s.history, kChanceCardOffset + card)
      /\ t.hole_cards = [s.hole_cards EXCEPT ![HoleSeat(s)] = card]
  BY DealFields
<1> HIDE DEF t
<1>2. /\ s.hole_cards[1] = NoCard
      /\ s.hole_cards[0] = NoCard => Len(s.history) = 0
  BY DEF BoardCardNext, Good, CardsInv, HistoryInv
<1>3. card # NoCard /\ s.hole_cards \in [{0, 1} -> Deck \cup {NoCard}]
  BY NewCard DEF States, Player, kPlayerCount
<1>4. /\ Len(t.history) = Len(s.history) + 1 /\ Len(s.history) \in Nat
      /\ \A k \in 1 .. Len(s.history) : t.history[k] = s.history[k]
      /\ t.history[Len(s.history) + 1] = kChanceCardOffset + card
  <2>1. s.history \in Seq(HistoryEntry) /\ kChanceCardOffset + card \in HistoryEntry
    BY NewCard DEF States
  <2> QED
    BY <1>1, <2>1
<1> SUFFICES ASSUME LinesInv(s)
             PROVE  LinesInv(t)
  BY DEF t
<1>5. CASE s.hole_cards[0] = NoCard
  <2>1. t.hole_cards[0] = card /\ t.hole_cards[1] = NoCard
    BY <1>1, <1>2, <1>3, <1>5 DEF HoleSeat
  <2>2. Len(t.history) = 1 /\ t.history[1] = kChanceCardOffset + card
    BY <1>2, <1>4, <1>5
  <2> QED
    BY <1>1, <2>1, <2>2 DEF LinesInv, Holes, InProgress, Street0, Street1
<1>6. CASE s.hole_cards[0] # NoCard
  <2>1. t.hole_cards[0] = s.hole_cards[0] /\ t.hole_cards[1] = card
    BY <1>1, <1>2, <1>3, <1>6 DEF HoleSeat
  <2>2. Len(s.history) = 1 /\ s.history[1] = kChanceCardOffset + s.hole_cards[0]
    BY <1>2, <1>6 DEF LinesInv, Holes
  <2>3. /\ Len(t.history) = 2 /\ t.history[1] = s.history[1]
        /\ t.history[2] = kChanceCardOffset + card
    BY <1>4, <2>2
  <2>4. Holes(t) /\ Street0(t) /\ Street1(t)
    BY <1>1, <1>3, <2>1, <2>2, <2>3 DEF Holes, Street0, Street1
  <2>5. InProgress(t)
    <3>1. First(t, t.board_count) = 3
      BY <1>1 DEF First
    <3> QED
      BY <1>1, <2>3, <3>1 DEF InProgress
  <2> QED
    BY <2>4, <2>5 DEF LinesInv
<1> QED
  BY <1>5, <1>6

\* The code of a closed round stands for the line in the history.
LEMMA ClosedRoundIs ==
  ASSUME NEW s \in States, Good(s), is_chance(s), BoardCardNext(s), LinesInv(s)
  PROVE  LET code == closing_sequence(s.raises_used, opened_with_check(s), MaxRaises)
             A    == First(s, s.board_count)
         IN  /\ ClosedLength(code) = s.round_len
             /\ \A i \in 1 .. s.round_len : s.history[A - 1 + i] = ClosedEntry(code, i)
<1> DEFINE code == closing_sequence(s.raises_used, opened_with_check(s), MaxRaises)
           A    == First(s, s.board_count)
           n    == s.round_len
           R    == s.raises_used
           o    == Opened(s)
<1>1. /\ s.hole_cards[1] # NoCard /\ round_closed(s) /\ n = R + o + 1
  BY BoardDueShape DEF Closed, BoardCardNext
<1>2. /\ R \in 0 .. MaxRaises /\ MaxRaises \in Nat /\ o \in {0, 1} /\ n \in Nat /\ n >= 2
      /\ last_action(s) = kActionCallCheck /\ n >= 2
  BY <1>1, RaiseCapAssumption DEF States, Opened, round_closed
<1>3. code = IF o = 1 THEN R ELSE R + MaxRaises
  BY DEF closing_sequence, Opened
<1>4. /\ Len(s.history) = A - 1 + n
      /\ \A i \in 1 .. n - 1 : s.history[A - 1 + i] = OpenEntry(s, i)
  BY <1>1 DEF LinesInv, InProgress
<1> HIDE DEF code, A, n, R, o
<1>5. /\ (code <= MaxRaises) <=> (o = 1)
      /\ ClosedLength(code) = n
  BY <1>1, <1>2, <1>3 DEF ClosedLength
<1>6. ASSUME NEW i \in 1 .. n
      PROVE  s.history[A - 1 + i] = ClosedEntry(code, i)
  <2>1. CASE i = n
    <3>1. s.history[A - 1 + i] = last_action(s)
      BY <1>4, <2>1 DEF last_action
    <3> QED
      BY <1>2, <1>5, <2>1, <3>1 DEF ClosedEntry
  <2>2. CASE i # n
    <3>1. i \in 1 .. n - 1
      BY <1>2, <2>2
    <3>2. s.history[A - 1 + i] = OpenEntry(s, i)
      BY <1>4, <3>1
    <3> QED
      BY <1>5, <2>2, <3>2 DEF ClosedEntry, OpenEntry, o
  <2> QED
    BY <2>1, <2>2
<1> QED
  BY <1>5, <1>6 DEF code, A, n

\* A board card ends a line that is now closed for good.
LEMMA BoardKeepsLines ==
  ASSUME NEW s \in States, Good(s), is_chance(s), BoardCardNext(s), LinesInv(s),
         NEW card \in chance_outcomes(s)
  PROVE  LinesInv(apply_deal(s, card))
<1> DEFINE t    == apply_deal(s, card)
           code == closing_sequence(s.raises_used, opened_with_check(s), MaxRaises)
           L0   == ClosedLength(s.closing[0])
           n    == s.round_len
           b    == s.board_count
           N    == Len(s.history)
<1>1. /\ t.round_len = 0
      /\ t.history = Append(s.history, kChanceCardOffset + card)
      /\ t.hole_cards = s.hole_cards
      /\ t.board_cards = [s.board_cards EXCEPT ![b] = card]
      /\ t.board_count = b + 1
      /\ t.closing = [s.closing EXCEPT ![b] = code]
  BY DealFields
<1>2. b \in {0, 1} /\ s.hole_cards[0] # NoCard /\ s.hole_cards[1] # NoCard
  BY BoardDueShape DEF BoardCardNext
<1>3. /\ ClosedLength(code) = n
      /\ \A i \in 1 .. n : s.history[First(s, b) - 1 + i] = ClosedEntry(code, i)
  BY ClosedRoundIs
<1>4. N = First(s, b) - 1 + n
  BY <1>2 DEF LinesInv, InProgress
<1>5. L0 \in Nat /\ L0 >= 2 /\ n \in Nat /\ N \in Nat
  BY LengthsAre
<1> HIDE DEF t, code
<1>6. /\ Len(t.history) = N + 1 /\ \A k \in 1 .. N : t.history[k] = s.history[k]
      /\ t.history[N + 1] = kChanceCardOffset + card
  <2>1. s.history \in Seq(HistoryEntry) /\ kChanceCardOffset + card \in HistoryEntry
    BY NewCard DEF States
  <2> QED
    BY <1>1, <2>1
<1>7. /\ t.closing[b] = code /\ t.board_cards[b] = card
      /\ b = 1 => t.closing[0] = s.closing[0] /\ t.board_cards[0] = s.board_cards[0]
  BY <1>1, <1>2 DEF States
<1>8. /\ b = 0 => First(s, b) = 3 /\ First(t, 0) = 3 /\ First(t, 1) = 4 + n
      /\ b = 1 => /\ First(s, b) = 4 + L0 /\ First(s, 0) = 3 /\ First(s, 1) = 4 + L0
                  /\ First(t, 0) = 3 /\ First(t, 1) = 4 + L0 /\ First(t, 2) = 5 + L0 + n
  BY <1>3, <1>7 DEF First
<1> HIDE DEF L0, n, b, N
<1>9. First(s, b) \in Nat /\ First(s, b) >= 3
  BY <1>2, <1>5, <1>8
<1>10. Holes(t)
  <2>1. N >= 2
    BY <1>4, <1>5, <1>9
  <2>2. t.history[1] = s.history[1] /\ t.history[2] = s.history[2]
    BY <1>5, <1>6, <2>1
  <2> QED
    BY <1>1, <1>2, <2>2 DEF LinesInv, Holes
<1>11. InProgress(t)
  <2>1. First(t, t.board_count) = N + 2
    BY <1>1, <1>2, <1>4, <1>5, <1>8
  <2> QED
    BY <1>1, <1>5, <1>6, <2>1 DEF InProgress
<1>12. \A i \in 1 .. n : t.history[First(s, b) - 1 + i] = ClosedEntry(code, i)
  <2>1. \A i \in 1 .. n : First(s, b) - 1 + i \in 1 .. N
    BY <1>4, <1>5, <1>9
  <2> QED
    BY <1>3, <1>6, <2>1
<1>13. CASE b = 0
  <2>1. First(t, 0) = First(s, b) /\ First(t, 1) - 1 = N + 1
    BY <1>4, <1>5, <1>8, <1>13
  <2>2. Street0(t)
    BY <1>3, <1>6, <1>7, <1>12, <1>13, <2>1 DEF Street0
  <2>3. Street1(t)
    BY <1>1, <1>13 DEF Street1
  <2> QED
    BY <1>10, <1>11, <2>2, <2>3 DEF LinesInv, t
<1>14. CASE b = 1
  <2>1. First(t, 1) = First(s, b) /\ First(t, 2) - 1 = N + 1
    BY <1>4, <1>5, <1>8, <1>14
  <2>2. Street1(t)
    BY <1>3, <1>6, <1>7, <1>12, <1>14, <2>1 DEF Street1
  <2> DEFINE A == First(s, 0)
             B == First(s, 1)
  <2>3. /\ \A i \in 1 .. L0 : s.history[A - 1 + i] = ClosedEntry(s.closing[0], i)
        /\ s.history[B - 1] = kChanceCardOffset + s.board_cards[0]
    <3>1. s.board_count >= 1
      BY <1>14 DEF b
    <3> QED
      BY <3>1, Zenon DEF LinesInv, Street0, L0
  <2>4. A = 3 /\ B = 4 + L0 /\ B - 1 <= N /\ First(t, 0) = A /\ First(t, 1) = B
    BY <1>4, <1>5, <1>8, <1>14
  <2> HIDE DEF A, B
  <2>5. B - 1 \in 1 .. N /\ \A i \in 1 .. L0 : A - 1 + i \in 1 .. N
    BY <1>5, <2>4
  <2>6. Street0(t)
    <3>1. /\ \A i \in 1 .. L0 : t.history[A - 1 + i] = ClosedEntry(s.closing[0], i)
          /\ t.history[B - 1] = kChanceCardOffset + s.board_cards[0]
      BY <1>6, <2>3, <2>5
    <3>2. First(t, 0) = A /\ First(t, 1) = B /\ t.closing[0] = s.closing[0]
          /\ t.board_cards[0] = s.board_cards[0]
      BY <1>7, <1>14, <2>4
    <3> QED
      BY <3>1, <3>2, Zenon DEF Street0, L0
  <2> QED
    BY <1>10, <1>11, <2>2, <2>6 DEF LinesInv, t
<1> QED
  BY <1>2, <1>13, <1>14 DEF t

\* Nothing is in the history before the first card.
LEMMA InitLines == LinesInv(initial_state)
<1>1. /\ initial_state.hole_cards[0] = NoCard /\ initial_state.hole_cards[1] = NoCard
      /\ initial_state.board_count = 0
  BY DEF initial_state, BlankState, Player, kPlayerCount
<1> QED
  BY <1>1 DEF LinesInv, Holes, InProgress, Street0, Street1

\* Every step keeps the history in lines.
LEMMA NextKeepsLines ==
  ASSUME RInv, [Next]_vars
  PROVE  RInv'
<1>1. FInv'
  BY NextKeepsFresh DEF RInv
<1>2. state \in States /\ Good(state) /\ LinesInv(state)
  BY DEF RInv, FInv, IInv, TypeOK
<1>3. LinesInv(state')
  <2>1. CASE Deal
    BY <1>2, <2>1, HoleKeepsLines, BoardKeepsLines DEF Deal
  <2>2. CASE Fold
    BY <1>2, <2>2, BettingKeepsLines DEF Fold, Act, BettingAction
  <2>3. CASE CallCheck
    BY <1>2, <2>3, BettingKeepsLines DEF CallCheck, Act, BettingAction
  <2>4. CASE Raise
    BY <1>2, <2>4, BettingKeepsLines DEF Raise, Act, BettingAction
  <2>5. CASE NewHand
    BY <2>5, InitLines DEF NewHand
  <2>6. CASE UNCHANGED vars
    BY <1>2, <2>6 DEF vars
  <2> QED
    BY <2>1, <2>2, <2>3, <2>4, <2>5, <2>6 DEF Next
<1> QED
  BY <1>1, <1>3 DEF RInv

\* In every hand the history is the cards and the lines the codes stand for.
THEOREM HistoryIsLines == Spec => []RInv
<1>1. Init => RInv
  BY InitGood, InitFresh, InitLines DEF Init, RInv, FInv, IInv, TypeOK
<1> QED
  BY <1>1, NextKeepsLines, PTL DEF Spec

-----------------------------------------------------------------------------
(* Where the cards are in the history *)

Position(s, k) ==
  CASE k = 1 -> 1 [] k = 2 -> 2 [] k = 3 -> First(s, 1) - 1 [] k = 4 -> First(s, 2) - 1
IsCard(s, i) == s.history[i] >= kChanceCardOffset

\* An action is smaller than the offset of the cards.
LEMMA ActionsAreNotCards ==
  ASSUME NEW action \in BettingAction
  PROVE  ~(action >= kChanceCardOffset)
  BY DEF BettingAction, kActionFold, kActionCallCheck, kActionRaise, kChanceCardOffset

\* The cards stand between the lines, in their order, and everything else is an
\* action.
LEMMA PositionsAre ==
  ASSUME NEW s \in States, Good(s), s.hole_cards[1] # NoCard, LinesInv(s)
  PROVE  LET m == s.board_count + 2
         IN  /\ m \in {2, 3, 4}
             /\ \A k \in 1 .. m : /\ Position(s, k) \in 1 .. Len(s.history)
                                 /\ s.history[Position(s, k)] = kChanceCardOffset + InSlots(s)[k]
                                 /\ InSlots(s)[k] \in Nat
             /\ \A k, l \in 1 .. m : k < l => Position(s, k) < Position(s, l)
             /\ \A i \in 1 .. Len(s.history) :
                  \/ \E k \in 1 .. m : i = Position(s, k)
                  \/ s.history[i] \in BettingAction
<1> DEFINE L0 == ClosedLength(s.closing[0])
           L1 == ClosedLength(s.closing[1])
           n  == s.round_len
           b  == s.board_count
           F  == First(s, b)
           N  == Len(s.history)
           m  == b + 2
           A  == First(s, 1)
           B  == First(s, 2)
<1>1. L0 \in Nat /\ L0 >= 2 /\ L1 \in Nat /\ L1 >= 2 /\ n \in Nat /\ b \in {0, 1, 2} /\ N \in Nat
  BY LengthsAre
<1>2. /\ First(s, 0) = 3 /\ A = 4 + L0 /\ B = 5 + L0 + L1
      /\ F = IF b = 0 THEN 3 ELSE IF b = 1 THEN A ELSE B
  <2>1. First(s, 0) = 3 /\ A = 4 + L0 /\ B = 5 + L0 + L1
    BY DEF First
  <2>2. F = IF b = 0 THEN First(s, 0) ELSE IF b = 1 THEN A ELSE B
    BY <1>1
  <2> QED
    BY <2>1, <2>2
<1>3. N = F - 1 + n
  BY DEF LinesInv, InProgress
<1>4. /\ s.hole_cards[0] # NoCard
      /\ s.hole_cards[0] \in Deck /\ s.hole_cards[1] \in Deck
      /\ b >= 1 => s.board_cards[0] \in Deck
      /\ b = 2 => s.board_cards[1] \in Deck
  <2>1. s.hole_cards \in [{0, 1} -> Deck \cup {NoCard}]
    BY DEF States, Player, kPlayerCount
  <2>2. s.hole_cards[0] # NoCard
    BY DEF Good, CardsInv
  <2>3. \A i \in 0 .. b - 1 : s.board_cards[i] \in Deck
    BY DEF Good, CardsInv
  <2> QED
    BY <1>1, <2>1, <2>2, <2>3
<1>5. /\ Position(s, 1) = 1 /\ Position(s, 2) = 2
      /\ Position(s, 3) = A - 1 /\ Position(s, 4) = B - 1
  BY DEF Position
<1>6. /\ InSlots(s)[1] = s.hole_cards[0] /\ InSlots(s)[2] = s.hole_cards[1]
      /\ b >= 1 => InSlots(s)[3] = s.board_cards[0]
      /\ b = 2 => InSlots(s)[4] = s.board_cards[1]
  BY <1>1 DEF InSlots
<1>7. \A card \in Deck : card \in Nat
  BY DeckAssumption
<1>8. /\ s.history[1] = kChanceCardOffset + s.hole_cards[0]
      /\ s.history[2] = kChanceCardOffset + s.hole_cards[1]
  BY <1>4 DEF LinesInv, Holes
<1>9. ASSUME b >= 1
      PROVE  /\ \A i \in 1 .. L0 : s.history[2 + i] \in BettingAction
             /\ s.history[A - 1] = kChanceCardOffset + s.board_cards[0]
  <2>1. \A i \in 1 .. L0 : s.history[3 - 1 + i] = ClosedEntry(s.closing[0], i)
    BY <1>2, <1>9, Zenon DEF LinesInv, Street0
  <2>2. \A i \in 1 .. L0 : s.history[3 - 1 + i] \in BettingAction
    BY <2>1 DEF ClosedEntry, BettingAction
  <2>3. s.history[A - 1] = kChanceCardOffset + s.board_cards[0]
    BY <1>9 DEF LinesInv, Street0
  <2> HIDE DEF L0
  <2> QED
    BY <1>1, <2>2, <2>3
<1>10. ASSUME b = 2
       PROVE  /\ \A i \in 1 .. L1 : s.history[A - 1 + i] \in BettingAction
              /\ s.history[B - 1] = kChanceCardOffset + s.board_cards[1]
  <2>1. \A i \in 1 .. L1 : s.history[A - 1 + i] = ClosedEntry(s.closing[1], i)
    BY <1>10, Zenon DEF LinesInv, Street1
  <2>2. \A i \in 1 .. L1 : s.history[A - 1 + i] \in BettingAction
    BY <2>1 DEF ClosedEntry, BettingAction
  <2>3. s.history[B - 1] = kChanceCardOffset + s.board_cards[1]
    BY <1>10 DEF LinesInv, Street1
  <2> QED
    BY <2>2, <2>3
<1>11. \A i \in 1 .. n : s.history[F - 1 + i] \in BettingAction
  <2> SUFFICES ASSUME NEW i \in 1 .. n
               PROVE  s.history[F - 1 + i] \in BettingAction
    OBVIOUS
  <2>1. CASE i = n
    <3>1. s.history[F - 1 + i] = last_action(s) /\ n # 0
      BY <1>1, <1>3, <2>1 DEF last_action
    <3> QED
      BY <3>1 DEF LinesInv, InProgress
  <2>2. CASE i # n
    <3>1. i \in 1 .. n - 1
      BY <1>1, <2>2
    <3>2. s.history[F - 1 + i] = OpenEntry(s, i)
      BY <3>1 DEF LinesInv, InProgress
    <3> QED
      BY <3>2 DEF OpenEntry, BettingAction
  <2> QED
    BY <2>1, <2>2
<1> HIDE DEF L0, L1, n, b, F, N, A, B
<1>12. ASSUME NEW k \in 1 .. m
       PROVE  /\ Position(s, k) \in 1 .. N
              /\ s.history[Position(s, k)] = kChanceCardOffset + InSlots(s)[k]
              /\ InSlots(s)[k] \in Nat
  <2>1. k = 1 \/ k = 2 \/ (k = 3 /\ b >= 1) \/ (k = 4 /\ b = 2)
    BY <1>1
  <2>2. /\ 1 \in 1 .. N /\ 2 \in 1 .. N
        /\ b >= 1 => A - 1 \in 1 .. N
        /\ b = 2 => B - 1 \in 1 .. N
    BY <1>1, <1>2, <1>3
  <2> QED
    BY <1>1, <1>4, <1>5, <1>6, <1>7, <1>8, <1>9, <1>10, <2>1, <2>2
<1>13. ASSUME NEW k \in 1 .. m, NEW l \in 1 .. m, k < l
       PROVE  Position(s, k) < Position(s, l)
  <2>1. k \in {1, 2, 3} /\ l \in {2, 3, 4}
    BY <1>1, <1>13
  <2> QED
    BY <1>1, <1>2, <1>5, <1>13, <2>1
<1>14. ASSUME NEW i \in 1 .. N
       PROVE  \/ \E k \in 1 .. m : i = Position(s, k)
              \/ s.history[i] \in BettingAction
  <2>1. CASE i >= F
    <3> DEFINE j == i - F + 1
    <3>1. j \in 1 .. n /\ i = F - 1 + j
      BY <1>1, <1>2, <1>3, <2>1
    <3> HIDE DEF j
    <3> QED
      BY <1>11, <3>1
  <2>2. CASE i = 1 \/ i = 2
    BY <1>1, <1>5, <2>2
  <2>3. CASE b >= 1 /\ i >= 3 /\ i < A
    <3>1. CASE i = A - 1
      BY <1>1, <1>5, <2>3, <3>1
    <3>2. CASE i # A - 1
      <4> DEFINE j == i - 2
      <4>1. j \in 1 .. L0 /\ i = 2 + j
        BY <1>1, <1>2, <2>3, <3>2
      <4> HIDE DEF j
      <4> QED
        BY <1>9, <2>3, <4>1
    <3> QED
      BY <3>1, <3>2
  <2>4. CASE b = 2 /\ i >= A /\ i < B
    <3>1. CASE i = B - 1
      BY <1>1, <1>5, <2>4, <3>1
    <3>2. CASE i # B - 1
      <4> DEFINE j == i - A + 1
      <4>1. j \in 1 .. L1 /\ i = A - 1 + j
        BY <1>1, <1>2, <2>4, <3>2
      <4> HIDE DEF j
      <4> QED
        BY <1>10, <2>4, <4>1
    <3> QED
      BY <3>1, <3>2
  <2> QED
    BY <1>1, <1>2, <2>1, <2>2, <2>3, <2>4
<1>15. m \in {2, 3, 4}
  BY <1>1
<1> QED
  BY <1>12, <1>13, <1>14, <1>15 DEF b, N

\* The k-th card is found by counting, and it is the card of the k-th slot.
LEMMA CardsBefore ==
  ASSUME NEW s \in States, Good(s), s.hole_cards[1] # NoCard, LinesInv(s),
         NEW k \in 1 .. s.board_count + 2
  PROVE  Cardinality({j \in 1 .. Position(s, k) : IsCard(s, j)}) = k
<1> DEFINE m    == s.board_count + 2
           N    == Len(s.history)
           P(l) == Position(s, l)
           C(l) == {j \in 1 .. P(l) : IsCard(s, j)}
           Counted(l) == IsFiniteSet(C(l)) /\ Cardinality(C(l)) = l
<1>1. m \in {2, 3, 4} /\ N \in Nat
  BY PositionsAre, LengthsAre
<1>2. \A l \in 1 .. m : P(l) \in 1 .. N /\ IsCard(s, P(l))
  BY PositionsAre DEF IsCard, kChanceCardOffset
<1>3. \A l, i \in 1 .. m : l < i => P(l) < P(i)
  BY PositionsAre
<1>4. ASSUME NEW j \in 1 .. N, IsCard(s, j)
      PROVE  \E l \in 1 .. m : j = P(l)
  BY <1>4, PositionsAre, ActionsAreNotCards DEF IsCard
<1>5. P(1) = 1
  BY DEF Position
<1> HIDE DEF P, N, m
<1>6. Counted(1)
  <2>1. C(1) = {1}
    <3>1. 1 \in 1 .. m /\ P(1) = 1 /\ IsCard(s, 1)
      BY <1>1, <1>2, <1>5
    <3>2. C(1) = {j \in 1 .. 1 : IsCard(s, j)}
      BY <3>1
    <3> QED
      BY <3>1, <3>2
  <2> HIDE DEF C
  <2> QED
    BY <2>1, FS_Singleton
<1>7. ASSUME NEW l \in 1 .. m, l + 1 \in 1 .. m, Counted(l)
      PROVE  Counted(l + 1)
  <2>1. P(l) \in 1 .. N /\ P(l + 1) \in 1 .. N /\ P(l) < P(l + 1) /\ IsCard(s, P(l + 1))
    BY <1>1, <1>2, <1>3, <1>7
  <2>2. ASSUME NEW j \in 1 .. P(l + 1), IsCard(s, j), j > P(l)
        PROVE  j = P(l + 1)
    <3>1. j \in 1 .. N
      BY <1>1, <2>1
    <3>2. PICK i \in 1 .. m : j = P(i)
      BY <1>4, <2>2, <3>1
    <3>3. i < l \/ i = l \/ i = l + 1 \/ l + 1 < i
      BY <1>1, <1>7
    <3>4. i < l => P(i) < P(l)
      BY <1>3
    <3>5. l + 1 < i => P(l + 1) < P(i)
      BY <1>3, <1>7
    <3> QED
      BY <1>1, <2>1, <2>2, <3>1, <3>2, <3>3, <3>4, <3>5
  <2>3. C(l + 1) = C(l) \cup {P(l + 1)} /\ P(l + 1) \notin C(l)
    BY <1>1, <2>1, <2>2
  <2> DEFINE x == P(l + 1)
             S == C(l)
  <2>4. IsFiniteSet(S) /\ Cardinality(S) = l /\ x \notin S
    BY <1>7, <2>3
  <2> HIDE DEF C, x, S
  <2>5. IsFiniteSet(S \cup {x}) /\ Cardinality(S \cup {x}) = l + 1
    BY <2>4, FS_AddElement
  <2> QED
    BY <2>3, <2>5 DEF x, S
<1> HIDE DEF Counted
<1>8. 2 \in 1 .. m => Counted(2)
  BY <1>1, <1>6, <1>7
<1>9. 3 \in 1 .. m => Counted(3)
  BY <1>1, <1>7, <1>8
<1>10. 4 \in 1 .. m => Counted(4)
  BY <1>1, <1>7, <1>9
<1>11. k \in {1, 2, 3, 4} /\ k \in 1 .. m
  BY <1>1 DEF m
<1>12. Counted(k)
  BY <1>6, <1>8, <1>9, <1>10, <1>11
<1> QED
  BY <1>12 DEF Counted, P

\* So the cards the history dealt are those in the slots.
LEMMA CardPositions ==
  ASSUME NEW s \in States, Good(s), s.hole_cards[1] # NoCard, LinesInv(s)
  PROVE  /\ \A k \in 1 .. s.board_count + 2 : ChancePosition(s, k) = Position(s, k)
         /\ DealtInOrder(s) = InSlots(s)
<1> DEFINE m    == s.board_count + 2
           N    == Len(s.history)
           P(l) == Position(s, l)
           C(l) == Cardinality({j \in 1 .. l : IsCard(s, j)})
<1>1. m \in {2, 3, 4} /\ N \in Nat
  BY PositionsAre, LengthsAre
<1>2. \A l \in 1 .. m : /\ P(l) \in 1 .. N /\ IsCard(s, P(l)) /\ C(P(l)) = l
  BY PositionsAre, CardsBefore DEF IsCard, kChanceCardOffset
<1>3. ASSUME NEW j \in 1 .. N, IsCard(s, j)
      PROVE  \E l \in 1 .. m : j = P(l)
  BY <1>3, PositionsAre, ActionsAreNotCards DEF IsCard
<1>4. \A l, i \in 1 .. m : l < i => P(l) < P(i)
  BY PositionsAre
<1>5. \A l \in 1 .. m : s.history[P(l)] = kChanceCardOffset + InSlots(s)[l] /\ InSlots(s)[l] \in Nat
  BY PositionsAre
<1>6. Cardinality({j \in 1 .. N : IsCard(s, j)}) = m
  <2> HIDE DEF m, P, C, N
  <2>1. m \in 1 .. m
    BY <1>1
  <2>2. P(m) \in 1 .. N /\ C(P(m)) = m
    BY <1>2, <2>1
  <2>4. ASSUME NEW l \in 1 .. m
        PROVE  P(l) <= P(m)
    <3>1. l = m \/ l < m
      BY <1>1
    <3> QED
      BY <1>1, <1>2, <1>4, <2>1, <2>2, <3>1
  <2>3. {j \in 1 .. N : IsCard(s, j)} = {j \in 1 .. P(m) : IsCard(s, j)}
    BY <1>1, <1>3, <2>2, <2>4
  <2> QED
    BY <2>2, <2>3 DEF C
<1>7. ASSUME NEW k \in 1 .. m
      PROVE  ChancePosition(s, k) = P(k)
  <2> DEFINE Right(i) == s.history[i] >= kChanceCardOffset
                           /\ Cardinality({j \in 1 .. i : s.history[j] >= kChanceCardOffset}) = k
  <2>1. ChancePosition(s, k) = CHOOSE i \in 1 .. N : Right(i)
    BY DEF ChancePosition
  <2>2. \A i : Right(i) <=> IsCard(s, i) /\ C(i) = k
    BY DEF IsCard
  <2> HIDE DEF Right, C, P, N
  <2>3. \A i \in 1 .. N : Right(i) <=> i = P(k)
    BY <1>2, <1>3, <2>2
  <2> QED
    BY <1>2, <2>1, <2>3
<1>8. DealtInOrder(s) = InSlots(s)
  <2>1. Cardinality({i \in 1 .. N : s.history[i] >= kChanceCardOffset}) = m
    BY <1>6 DEF IsCard
  <2>2. DealtInOrder(s) = [k \in 1 .. m |-> s.history[ChancePosition(s, k)] - kChanceCardOffset]
    BY <2>1, Zenon DEF DealtInOrder
  <2>3. \A k \in 1 .. m : s.history[ChancePosition(s, k)] - kChanceCardOffset = InSlots(s)[k]
    <3> SUFFICES ASSUME NEW k \in 1 .. m
                 PROVE  s.history[ChancePosition(s, k)] - kChanceCardOffset = InSlots(s)[k]
      OBVIOUS
    <3> DEFINE c == InSlots(s)[k]
    <3>1. s.history[ChancePosition(s, k)] = kChanceCardOffset + c /\ c \in Nat
      BY <1>5, <1>7
    <3> HIDE DEF c
    <3> QED
      BY <3>1 DEF kChanceCardOffset, c
  <2>4. InSlots(s) = [k \in 1 .. m |-> InSlots(s)[k]]
    <3>1. m = 2 + s.board_count
      BY LengthsAre
    <3> QED
      BY <3>1 DEF InSlots
  <2> QED
    BY <2>2, <2>3, <2>4, Zenon
<1> QED
  BY <1>7, <1>8

\* Every street, cut out of the history, is the line its code stands for.
LEMMA StreetsAreLines ==
  ASSUME NEW s \in States, Good(s), is_decision(s), LinesInv(s)
  PROVE  /\ LineOn(s, s.board_count) = OpenLine(round_progress(s))
         /\ \A r \in 0 .. s.board_count - 1 : LineOn(s, r) = ClosedLine(s.closing[r])
<1> DEFINE L0 == ClosedLength(s.closing[0])
           L1 == ClosedLength(s.closing[1])
           n  == s.round_len
           b  == s.board_count
           F  == First(s, b)
           N  == Len(s.history)
           A  == First(s, 1)
           B  == First(s, 2)
<1>1. L0 \in Nat /\ L0 >= 2 /\ L1 \in Nat /\ L1 >= 2 /\ n \in Nat /\ b \in {0, 1, 2} /\ N \in Nat
  BY LengthsAre
<1>2. /\ First(s, 0) = 3 /\ A = 4 + L0 /\ B = 5 + L0 + L1
      /\ F = IF b = 0 THEN First(s, 0) ELSE IF b = 1 THEN A ELSE B
  <2>1. First(s, 0) = 3 /\ A = 4 + L0 /\ B = 5 + L0 + L1
    BY DEF First
  <2>2. F = IF b = 0 THEN First(s, 0) ELSE IF b = 1 THEN A ELSE B
    BY <1>1
  <2> QED
    BY <2>1, <2>2
<1>3. s.hole_cards[1] # NoCard
  BY DecisionShape
<1>4. N = F - 1 + n
  BY <1>3 DEF LinesInv, InProgress
<1>5. /\ Position(s, 2) = 2 /\ Position(s, 3) = A - 1 /\ Position(s, 4) = B - 1
  BY DEF Position
<1>6. /\ ChancePosition(s, 2) = 2
      /\ b >= 1 => ChancePosition(s, 3) = A - 1
      /\ b = 2 => ChancePosition(s, 4) = B - 1
  <2>1. \A k \in 1 .. b + 2 : ChancePosition(s, k) = Position(s, k)
    BY <1>3, CardPositions
  <2>2. 2 \in 1 .. b + 2 /\ (b >= 1 => 3 \in 1 .. b + 2) /\ (b = 2 => 4 \in 1 .. b + 2)
    BY <1>1
  <2> QED
    BY <1>5, <2>1, <2>2
\* A piece of the history is the line with the same entries.
<1> DEFINE Cut(first, last) == SubSeq(s.history, first, last)
<1>7. ASSUME NEW first \in Nat, NEW length \in Nat, NEW last \in Int, NEW line,
             Line(line, length), first >= 1, last = first - 1 + length, last <= N,
             \A i \in 1 .. length : s.history[first - 1 + i] = line[i]
      PROVE  Cut(first, last) = line
  <2>1. s.history \in Seq(HistoryEntry)
    BY DEF States
  <2>2. \A i \in first .. last : s.history[i] \in HistoryEntry
    BY <1>1, <1>7, <2>1
  <2>3. /\ Cut(first, last) \in Seq(HistoryEntry)
        /\ Len(Cut(first, last)) = IF first <= last THEN last - first + 1 ELSE 0
        /\ \A i \in 1 .. last - first + 1 : Cut(first, last)[i] = s.history[first + i - 1]
    <3>1. first \in Int /\ last \in Int
      BY <1>7
    <3> QED
      BY <2>2, <3>1, SubSeqProperties
  <2>4. line \in Seq(HistoryEntry) /\ Len(line) = length
    <3>1. line \in Seq(BettingAction) /\ Len(line) = length
      BY <1>7 DEF Line
    <3>2. BettingAction \subseteq HistoryEntry
      BY DEF HistoryEntry
    <3> QED
      BY <3>1, <3>2
  <2> HIDE DEF Cut
  <2>5. Len(Cut(first, last)) = length
    BY <1>7, <2>3
  <2>6. \A i \in 1 .. length : Cut(first, last)[i] = line[i]
    <3> SUFFICES ASSUME NEW i \in 1 .. length
                 PROVE  Cut(first, last)[i] = line[i]
      OBVIOUS
    <3>1. i \in 1 .. last - first + 1 /\ first + i - 1 = first - 1 + i
      BY <1>7
    <3> QED
      BY <1>7, <2>3, <3>1
  <2> QED
    BY <2>3, <2>4, <2>5, <2>6, SeqEqual
<1> HIDE DEF Cut
<1>8. LineOn(s, b) = OpenLine(round_progress(s))
  <2> DEFINE R == s.raises_used
             o == Opened(s)
             line == OpenLine(round_progress(s))
  <2>1. LineOn(s, b) = Cut(F, N)
    <3>1. LineOn(s, b) = Cut(ChancePosition(s, b + 2) + 1, N)
      BY DEF LineOn, Cut
    <3>2. ChancePosition(s, b + 2) + 1 = F
      <4> HIDE DEF L0, L1, A, B, F
      <4>1. CASE b = 0
        BY <1>2, <1>6, <4>1
      <4>2. CASE b = 1
        BY <1>1, <1>2, <1>6, <4>2
      <4>3. CASE b = 2
        BY <1>1, <1>2, <1>6, <4>3
      <4> QED
        BY <1>1, <4>1, <4>2, <4>3
    <3> QED
      BY <3>1, <3>2
  <2>2. R \in Nat /\ o \in {0, 1} /\ n = R + o
    <3>1. R \in Nat /\ o \in {0, 1}
      BY RaiseCapAssumption DEF States, Opened
    <3>2. CASE n = 0
      <4>1. R = 0
        BY <3>2 DEF Good, RoundInv
      <4>2. o = 0
        BY <3>2 DEF Opened, opened_with_check
      <4> QED
        BY <3>1, <3>2, <4>1, <4>2
    <3>3. CASE BetStands(s)
      BY <3>1, <3>3 DEF BetStands
    <3>4. CASE Checked(s)
      BY <3>1, <3>4, CheckedOpened DEF Checked
    <3> QED
      BY <3>1, <3>2, <3>3, <3>4, DecisionShape
  <2>3. round_progress(s) = 2 * R + o
    BY <2>2 DEF round_progress, Opened
  <2>4. /\ Line(line, n)
        /\ \A i \in 1 .. n : line[i] = IF i = 1 /\ o = 1 THEN kActionCallCheck ELSE kActionRaise
    <3>1. line = OpenLine(2 * R + o)
      BY <2>3
    <3> HIDE DEF R, o, n, line
    <3> QED
      BY <2>2, <3>1, OpenLineIs
  <2>5. ASSUME NEW i \in 1 .. n
        PROVE  s.history[F - 1 + i] = OpenEntry(s, i)
    <3>1. CASE i = n
      <4>1. s.history[F - 1 + i] = last_action(s)
        BY <1>4, <3>1 DEF last_action
      <4>2. n # 0
        BY <1>1
      <4>3. CASE BetStands(s)
        BY <2>2, <3>1, <4>1, <4>3 DEF BetStands, OpenEntry
      <4>4. CASE Checked(s)
        BY <2>2, <3>1, <4>1, <4>4, CheckedOpened DEF Checked, OpenEntry
      <4> QED
        BY <4>2, <4>3, <4>4, DecisionShape
    <3>2. CASE i # n
      <4>1. i \in 1 .. n - 1
        BY <1>1, <3>2
      <4> QED
        BY <1>3, <4>1 DEF LinesInv, InProgress
    <3> QED
      BY <3>1, <3>2
  <2>6. \A i \in 1 .. n : s.history[F - 1 + i] = line[i]
    BY <2>4, <2>5 DEF OpenEntry
  <2>7. F \in Nat /\ F >= 1
    <3> HIDE DEF L0, L1, A, B, F
    <3> QED
      BY <1>1, <1>2
  <2> HIDE DEF n, b, F, N, line
  <2>8. Cut(F, N) = line
    BY <1>1, <1>4, <1>7, <2>4, <2>6, <2>7
  <2> QED
    BY <2>1, <2>8 DEF line
<1>9. ASSUME b >= 1
      PROVE  LineOn(s, 0) = ClosedLine(s.closing[0])
  <2> DEFINE code == s.closing[0]
             line == ClosedLine(code)
  <2>1. /\ Line(line, L0)
        /\ \A i \in 1 .. L0 : line[i] = ClosedEntry(code, i)
    BY ClosedLineIs DEF States
  <2>2. LineOn(s, 0) = Cut(3, A - 2)
    <3>1. LineOn(s, 0) = Cut(ChancePosition(s, 0 + 2) + 1, ChancePosition(s, 0 + 3) - 1)
      <4>1. 0 # s.board_count
        BY <1>1, <1>9
      <4> QED
        BY <4>1 DEF LineOn, Cut
    <3> HIDE DEF A
    <3>2. ChancePosition(s, 0 + 2) + 1 = 3 /\ ChancePosition(s, 0 + 3) - 1 = A - 2
      BY <1>1, <1>2, <1>6, <1>9
    <3> QED
      BY <3>1, <3>2
  <2>3. \A i \in 1 .. L0 : s.history[3 - 1 + i] = line[i]
    <3>1. \A i \in 1 .. L0 : s.history[3 - 1 + i] = ClosedEntry(code, i)
      BY <1>2, <1>9, Zenon DEF LinesInv, Street0
    <3> QED
      BY <2>1, <3>1
  <2> HIDE DEF L0, L1, n, b, F, N, A, B, line
  <2>4. A - 2 \in Int /\ A - 2 = 3 - 1 + L0 /\ A - 2 <= N
    BY <1>1, <1>2, <1>4, <1>9
  <2>5. Cut(3, A - 2) = line
    BY <1>1, <1>7, <2>1, <2>3, <2>4
  <2> QED
    BY <2>2, <2>5 DEF line
<1>10. ASSUME b = 2
       PROVE  LineOn(s, 1) = ClosedLine(s.closing[1])
  <2> DEFINE code == s.closing[1]
             line == ClosedLine(code)
  <2>1. /\ Line(line, L1)
        /\ \A i \in 1 .. L1 : line[i] = ClosedEntry(code, i)
    BY ClosedLineIs DEF States
  <2>2. LineOn(s, 1) = Cut(A, B - 2)
    <3>1. LineOn(s, 1) = Cut(ChancePosition(s, 1 + 2) + 1, ChancePosition(s, 1 + 3) - 1)
      BY <1>10 DEF LineOn, Cut
    <3> HIDE DEF A, B
    <3>2. ChancePosition(s, 1 + 2) + 1 = A /\ ChancePosition(s, 1 + 3) - 1 = B - 2
      BY <1>1, <1>2, <1>6, <1>10
    <3> QED
      BY <3>1, <3>2
  <2>3. \A i \in 1 .. L1 : s.history[A - 1 + i] = line[i]
    <3>1. \A i \in 1 .. L1 : s.history[A - 1 + i] = ClosedEntry(code, i)
      BY <1>10, Zenon DEF LinesInv, Street1
    <3> QED
      BY <2>1, <3>1
  <2> HIDE DEF L0, L1, n, b, F, N, A, B, line
  <2>4. A \in Nat /\ A >= 1 /\ B - 2 \in Int /\ B - 2 = A - 1 + L1 /\ B - 2 <= N
    BY <1>1, <1>2, <1>4, <1>10
  <2>5. Cut(A, B - 2) = line
    BY <1>1, <1>7, <2>1, <2>3, <2>4
  <2> QED
    BY <2>2, <2>5 DEF line
<1>11. ASSUME NEW r \in 0 .. b - 1
       PROVE  LineOn(s, r) = ClosedLine(s.closing[r])
  <2>1. (r = 0 /\ b >= 1) \/ (r = 1 /\ b = 2)
    BY <1>1
  <2> QED
    BY <1>9, <1>10, <2>1
<1> QED
  BY <1>8, <1>11

-----------------------------------------------------------------------------
(* Reading a row back *)

\* Dividing by the radix takes the last digit off.
LEMMA DivMod ==
  ASSUME NEW n \in Nat, NEW a \in Nat, NEW b \in 0 .. n - 1
  PROVE  (a * n + b) \div n = a /\ (a * n + b) % n = b
<1> DEFINE p == a * n
           x == p + b
           q == x \div n
           r == x % n
<1>1. n \in Nat /\ n >= 1 /\ b \in Nat /\ p \in Nat /\ x \in Nat
  OBVIOUS
<1> HIDE DEF p
<1>2. q \in Int /\ r \in 0 .. n - 1 /\ x = n * q + r
  BY <1>1
<1> DEFINE d == q - a
<1>3. d \in Int /\ q = a + d
  BY <1>2
<1> HIDE DEF q, r, d
<1>4. n * q = p + n * d
  BY <1>1, <1>2, <1>3 DEF p
<1> DEFINE e == n * d
<1>5. d >= 1 => e >= n
  BY <1>1, <1>3
<1>6. d <= -1 => e <= -n
  BY <1>1, <1>3
<1>7. e \in Int
  BY <1>1, <1>3
<1> DEFINE nq == n * q
<1>8. x = nq + r /\ nq = p + e /\ nq \in Int
  BY <1>1, <1>2, <1>4
<1> HIDE DEF e, nq
<1>9. e + r = b
  BY <1>1, <1>2, <1>7, <1>8
<1>10. d = 0
  BY <1>1, <1>2, <1>3, <1>5, <1>6, <1>7, <1>9
<1>11. q = a
  BY <1>3, <1>10
<1>12. e = 0
  BY <1>1, <1>10 DEF e
<1>13. r = b
  BY <1>1, <1>2, <1>9, <1>12
<1> QED
  BY <1>11, <1>13 DEF q, r, p

\* The number of the closed lines before this street.
LineNumber(s) ==
  CASE s.board_count = 0 -> 0
    [] s.board_count = 1 -> s.closing[0]
    [] s.board_count = 2 -> s.closing[0] * kClosing + s.closing[1]

\* Its digits are those of the history and of the class of its cards.
LEMMA RowDigits ==
  ASSUME NEW s \in States, Good(s), Fresh(s), is_decision(s)
  PROVE  LET place   == infoset_index(s) - FirstRow(s.board_count)
             classes == ClassCount[s.board_count]
             betting == place \div classes
         IN  /\ place % classes = s.card_class[current_player(s)]
             /\ betting % kProgress = round_progress(s)
             /\ betting \div kProgress = LineNumber(s)
<1> DEFINE class    == s.card_class[current_player(s)]
           progress == round_progress(s)
           classes  == ClassCount[s.board_count]
           line     == LineNumber(s)
           betting  == line * kProgress + progress
           place    == infoset_index(s) - FirstRow(s.board_count)
<1>1. /\ progress \in 0 .. kProgress - 1 /\ class \in 0 .. classes - 1
      /\ s.closing[0] \in 0 .. kClosing - 1 /\ s.closing[1] \in 0 .. kClosing - 1
  BY DigitsInRange
<1>2. kProgress \in Nat /\ kClosing \in Nat
  BY RaiseCapAssumption DEF kProgress, kClosing, round_progress_count, closing_sequence_count
<1>3. s.board_count \in {0, 1, 2} /\ classes \in Nat
  BY ClassAssumption DEF States, Street, kRihRoundCount
<1>4. ClassCount[0] \in Nat /\ ClassCount[1] \in Nat
  BY ClassAssumption DEF Street, kRihRoundCount
<1>5. line \in Nat
  <2>1. s.closing[0] * kClosing \in Nat
    BY <1>1, <1>2
  <2> QED
    BY <1>1, <1>3, <2>1 DEF LineNumber
<1>6. betting \in Nat /\ betting * classes \in Nat
  <2>1. line * kProgress \in Nat
    BY <1>2, <1>5
  <2>2. betting \in Nat
    BY <1>1, <1>2, <2>1
  <2> HIDE DEF betting
  <2> QED
    BY <1>3, <2>2
<1>7. round0_rows \in Nat /\ round1_rows \in Nat
  <2>1. kProgress * ClassCount[0] \in Nat
    BY <1>2, <1>4
  <2>2. kClosing * kProgress \in Nat
    BY <1>2
  <2>3. kClosing * kProgress * ClassCount[1] \in Nat
    BY <1>4, <2>2
  <2> QED
    BY <2>1, <2>3 DEF round0_rows, round1_rows
<1>8. FirstRow(s.board_count) \in Nat
  BY <1>3, <1>7 DEF FirstRow
<1>9. infoset_index(s) = FirstRow(s.board_count) + (betting * classes + class)
  <2> DEFINE row == infoset_index(s)
             product == betting * classes
  <2>0. class \in Nat /\ product \in Nat
    BY <1>1, <1>3, <1>6
  <2>1. CASE s.board_count = 0
    <3>1. row = progress * ClassCount[0] + class
      BY <2>1 DEF infoset_index
    <3>2. FirstRow(s.board_count) = 0 /\ line = 0
      BY <2>1 DEF FirstRow, LineNumber
    <3>3. betting = progress
      BY <1>1, <1>2, <3>2
    <3>4. row = product + class
      BY <2>1, <3>1, <3>3
    <3> HIDE DEF row, product, class
    <3> QED
      BY <2>0, <3>2, <3>4 DEF row, product
  <2>2. CASE s.board_count = 1
    <3>1. row = round0_rows + (s.closing[0] * kProgress + progress) * ClassCount[1] + class
      BY <2>2 DEF infoset_index
    <3>2. FirstRow(s.board_count) = round0_rows /\ line = s.closing[0]
      BY <2>2 DEF FirstRow, LineNumber
    <3>3. row = round0_rows + product + class
      BY <2>2, <3>1, <3>2
    <3> HIDE DEF row, product, class
    <3> QED
      BY <1>7, <2>0, <3>2, <3>3 DEF row, product
  <2>3. CASE s.board_count = 2
    <3>1. row = round0_rows + round1_rows
                  + ((s.closing[0] * kClosing + s.closing[1]) * kProgress + progress)
                      * ClassCount[2] + class
      BY <2>3 DEF infoset_index
    <3>2. /\ FirstRow(s.board_count) = round0_rows + round1_rows
          /\ line = s.closing[0] * kClosing + s.closing[1]
      BY <2>3 DEF FirstRow, LineNumber
    <3>3. row = round0_rows + round1_rows + product + class
      BY <2>3, <3>1, <3>2
    <3> HIDE DEF row, product, class
    <3> QED
      BY <1>7, <2>0, <3>2, <3>3 DEF row, product
  <2> QED
    BY <1>3, <2>1, <2>2, <2>3
<1>10. place = betting * classes + class
  <2> DEFINE product == betting * classes
             first   == FirstRow(s.board_count)
             row     == infoset_index(s)
  <2>1. product \in Nat /\ class \in Nat /\ first \in Nat /\ row = first + (product + class)
    BY <1>1, <1>3, <1>6, <1>8, <1>9
  <2> HIDE DEF product, class, first, row
  <2>2. row - first = product + class
    BY <2>1
  <2> QED
    BY <2>2 DEF product, class, first, row
<1> HIDE DEF place, betting, classes, class
<1>11. place \div classes = betting /\ place % classes = class
  BY <1>1, <1>3, <1>6, <1>10, DivMod
<1>12. betting \div kProgress = line /\ betting % kProgress = progress
  <2> HIDE DEF line, progress
  <2> QED
    BY <1>1, <1>2, <1>5, DivMod DEF betting
<1> QED
  BY <1>11, <1>12 DEF place, classes, class

\* The street of a row.
LEMMA RowStreet ==
  ASSUME NEW s \in States, RowOnStreet(s)
  PROVE  /\ infoset_index(s) \in 0 .. infoset_count - 1
         /\ StreetOfRow(infoset_index(s)) = s.board_count
<1> DEFINE row == infoset_index(s)
           b   == s.board_count
<1>1. kProgress \in Nat /\ kClosing \in Nat
  BY RaiseCapAssumption DEF kProgress, kClosing, round_progress_count, closing_sequence_count
<1>2. b \in {0, 1, 2}
  BY DEF States, Street, kRihRoundCount
<1>3. ClassCount[0] \in Nat /\ ClassCount[1] \in Nat /\ ClassCount[2] \in Nat
  BY ClassAssumption DEF Street, kRihRoundCount
<1>4. round0_rows \in Nat /\ round1_rows \in Nat /\ round2_rows \in Nat
  <2>1. kProgress * ClassCount[0] \in Nat
    BY <1>1, <1>3
  <2>2. kClosing * kProgress \in Nat /\ kClosing * kClosing \in Nat
    BY <1>1
  <2>3. kClosing * kProgress * ClassCount[1] \in Nat
    BY <1>3, <2>2
  <2>4. kClosing * kClosing * kProgress \in Nat
    BY <1>1, <2>2
  <2>5. kClosing * kClosing * kProgress * ClassCount[2] \in Nat
    BY <1>3, <2>4
  <2> QED
    BY <2>1, <2>3, <2>5 DEF round0_rows, round1_rows, round2_rows
<1>5. infoset_count = round0_rows + round1_rows + round2_rows
  BY DEF infoset_count
<1>6. /\ b = 0 => row \in 0 .. round0_rows - 1
      /\ b = 1 => row \in round0_rows .. round0_rows + round1_rows - 1
      /\ b = 2 => row \in round0_rows + round1_rows .. infoset_count - 1
  BY DEF RowOnStreet
<1> HIDE DEF row, b
<1>7. row \in 0 .. infoset_count - 1
  BY <1>2, <1>4, <1>5, <1>6
<1>8. StreetOfRow(row) = b
  BY <1>2, <1>4, <1>5, <1>6 DEF StreetOfRow
<1> QED
  BY <1>7, <1>8 DEF row, b

\* In every hand, for every raise cap and class table, the row of a decision
\* can be read back to the betting history and the class of the player's own
\* cards: no two situations a player can tell apart share a row.
THEOREM RowsAlwaysDecode == Spec => []RowDecodes
<1>1. RInv => RowDecodes
  <2> SUFFICES ASSUME state \in States, Good(state), Fresh(state), LinesInv(state),
                      is_decision(state)
               PROVE  RowDecodes
    BY DEF RInv, FInv, IInv, TypeOK, RowDecodes
  <2> DEFINE row     == infoset_index(state)
             street  == StreetOfRow(row)
             place   == row - FirstRow(street)
             betting == place \div ClassCount[street]
             codes   == ClosedCodes(street, betting \div kProgress)
             seat    == current_player(state)
  <2>1. row \in 0 .. infoset_count - 1 /\ street = state.board_count
    BY DecisionOwnsRow, RowStreet
  <2>2. /\ place % ClassCount[street] = state.card_class[seat]
        /\ betting % kProgress = round_progress(state)
        /\ betting \div kProgress = LineNumber(state)
    <3> HIDE DEF street, row
    <3> QED
      BY <2>1, RowDigits DEF row
  <2>3. state.hole_cards[1] # NoCard /\ seat \in Player /\ state.hole_cards[seat] # NoCard
    BY DecisionShape, Seats DEF Player, kPlayerCount
  <2>4. state.card_class[seat] = own_class(state, seat)
    BY <2>3 DEF Fresh
  <2>5. InSlots(state) = DealtInOrder(state)
    BY <2>3, CardPositions
  <2>6. /\ LineOn(state, state.board_count) = OpenLine(round_progress(state))
        /\ \A r \in 0 .. state.board_count - 1 : LineOn(state, r) = ClosedLine(state.closing[r])
    BY StreetsAreLines
  <2>7. ASSUME NEW r \in 1 .. street
        PROVE  LineOn(state, r - 1) = ClosedLine(codes[r])
    <3> DEFINE c0 == state.closing[0]
               c1 == state.closing[1]
    <3>1. c0 \in 0 .. kClosing - 1 /\ c1 \in 0 .. kClosing - 1
      BY DigitsInRange
    <3>2. kClosing \in Nat /\ state.board_count \in {0, 1, 2}
      BY RaiseCapAssumption
         DEF kClosing, closing_sequence_count, States, Street, kRihRoundCount
    <3>3. codes = ClosedCodes(state.board_count, LineNumber(state))
      BY <2>1, <2>2
    <3> HIDE DEF codes, street
    <3>4. r - 1 \in 0 .. state.board_count - 1
      BY <2>1, <3>2
    <3>5. codes[r] = state.closing[r - 1]
      <4>1. CASE state.board_count = 1
        <5>1. codes = <<c0>> /\ r = 1
          BY <2>1, <3>3, <4>1 DEF ClosedCodes, LineNumber
        <5> QED
          BY <5>1
      <4>2. CASE state.board_count = 2
        <5> DEFINE number == c0 * kClosing + c1
        <5>1. codes = <<number \div kClosing, number % kClosing>>
          BY <3>3, <4>2 DEF ClosedCodes, LineNumber
        <5>2. number \div kClosing = c0 /\ number % kClosing = c1
          <6> HIDE DEF c0, c1
          <6>1. c0 \in Nat
            BY <3>1, <3>2
          <6> QED
            BY <3>1, <3>2, <6>1, DivMod
        <5>3. codes = <<c0, c1>>
          BY <5>1, <5>2
        <5>4. r = 1 \/ r = 2
          BY <2>1, <4>2
        <5> QED
          BY <5>3, <5>4
      <4> QED
        BY <3>2, <3>4, <4>1, <4>2
    <3> QED
      BY <2>6, <3>4, <3>5
  <2>8. LineOn(state, street) = OpenLine(betting % kProgress)
    <3> HIDE DEF street, betting
    <3> QED
      BY <2>1, <2>2, <2>6
  <2>9. place % ClassCount[street] = own_class(state, seat)
    <3> HIDE DEF street, place
    <3> QED
      BY <2>2, <2>4
  <2> QED
    BY <2>1, <2>5, <2>7, <2>8, <2>9, Zenon DEF RowDecodes
<1> QED
  BY <1>1, HistoryIsLines, PTL
=============================================================================
