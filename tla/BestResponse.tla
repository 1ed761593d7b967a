---------------------------- MODULE BestResponse ----------------------------
(***************************************************************************)
(* solver/rih_best_response.cpp: one walk over the public tree that values *)
(* a strategy, or a best response to it, for every hole card at once, and  *)
(* the grading session that asks its three entry points.                   *)
(*                                                                         *)
(* A strategy is a table of strategy sums, StrategySums[profile][row]      *)
(* [column].  Probabilities are whole multiples of 1 / Split and reaches   *)
(* of 1 / Unit, so a double of the program is an exact integer here; Unit  *)
(* is a power of Split large enough for every decision of a path.  The     *)
(* deck stands for the 52 cards.                                           *)
(***************************************************************************)
EXTENDS RhodeIslandGame, FiniteSetsExt, Functions

CONSTANTS Profile, StrategySums, Split, Unit

\* The class storage has an entry for every tuple, zero for one with a card
\* twice, and the rank table for every index; the walk looks such tuples up.
ASSUME StorageAssumption ==
  /\ 0 \in Deck /\ 1 \in Deck
  /\ \A street \in Street : \A t \in [1 .. street + 1 -> Deck] :
       ClassOf[t] \in Nat /\ ClassOf[t] < ClassCount[street]
  /\ \A t \in [1 .. 3 -> Deck] : Strength[t] \in Nat

\* How many actions a decision can have.
ActionCounts == IF MaxRaises = 1 THEN {2} ELSE {2, 3}

\* average_strategy_into: the row's sums in proportion, uniform when empty.
average_strategy(strategy, row, action_count) ==
  LET sums  == StrategySums[strategy][row]
      total == SumFunctionOnSet(sums, 1 .. action_count)
  IN  [k \in 1 .. action_count |-> IF total = 0 THEN Split \div action_count
                                   ELSE (sums[k] * Split) \div total]

\* Split is a common denominator of every row, so that nothing is lost.
ASSUME SplitAssumption == Split \in Nat \ {0} /\ Unit \in Nat \ {0} /\ Unit % Split = 0
ASSUME SumsAssumption ==
  \A strategy \in Profile :
    /\ DOMAIN StrategySums[strategy] = 0 .. infoset_count - 1
    /\ \A row \in 0 .. infoset_count - 1 : \A action_count \in ActionCounts :
         /\ \A k \in 1 .. action_count : StrategySums[strategy][row][k] \in Nat
         /\ SumFunction(average_strategy(strategy, row, action_count)) = Split

kCardCount == Cardinality(Deck)
kOrderedDealCount == kCardCount * (kCardCount - 1) * (kCardCount - 2) * (kCardCount - 3)

OnBoard(s) == {s.board_cards[i] : i \in 0 .. s.board_count - 1}

\* The members of a finite set of numbers, the least first.
Ascending(S) ==
  [i \in 1 .. Cardinality(S) |-> CHOOSE x \in S : Cardinality({y \in S : y < x}) = i - 1]

-----------------------------------------------------------------------------
(* The entry points, and what a walk is asked                              *)

\* A limited deviation names its round, kDeviateInEveryRound is no limit.
kDeviateInEveryRound == -1

\* A session asks, for each player in turn, for the value of following, of
\* deviating in each of the rounds, and of deviating everywhere.
PerPlayer == kRihRoundCount + 2
Walk(strategy, i) ==
  LET entry == (i - 1) % PerPlayer
  IN  [ strategy        |-> strategy,
        responder       |-> (i - 1) \div PerPlayer,
        maximize        |-> entry # 0,
        deviation_round |-> IF entry \in 1 .. kRihRoundCount THEN entry - 1
                            ELSE kDeviateInEveryRound ]

\* Slip: kDeviateInEveryRound is compared like any round.
maximize_only_in_round(w, s) == w.maximize /\ w.deviation_round = s.board_count

maximize_at(w, s) ==
  w.maximize /\ w.deviation_round \in {kDeviateInEveryRound, s.board_count}

ResponderActs(w, s) == is_decision(s) /\ current_player(s) = w.responder
OpponentActs(w, s)  == is_decision(s) /\ current_player(s) # w.responder

\* probabilities_by_card at the acting player's node, for one hole card.
strategy_query(w, s, card) ==
  average_strategy(w.strategy, infoset_index(set_hole_card(s, current_player(s), card)),
                   Len(legal_actions(s)))

-----------------------------------------------------------------------------
(* Payoffs at the end of a hand, one per responder hole card *)

clear_board_cards(s, value) ==
  [card \in Deck |-> IF card \in OnBoard(s) THEN 0 ELSE value[card]]

undealt_board_multiplicity(s) ==
  CASE s.board_count = 0 -> (kCardCount - 2) * (kCardCount - 3)
    [] s.board_count = 1 -> kCardCount - 3
    [] s.board_count = 2 -> 1

reach_of_others(reach, card) == SumFunction(reach) - reach[card]

fold_payoff(s, player) ==
  LET pot == s.contribution[0] + s.contribution[1]
  IN  IF player = opponent(folder_of(s)) THEN pot - s.contribution[player]
      ELSE -s.contribution[player]

fold_value(s, player, reach) ==
  [card \in Deck |->
     undealt_board_multiplicity(s) * fold_payoff(s, player) * reach_of_others(reach, card)]

\* The rank of every hole card on a full board, the board's own included.
rank_every_hole_card(board0, board1) ==
  [card \in Deck |-> Strength[<<card, board0, board1>>]]

\* Tie groups weakest first.  weaker_reach runs over the groups already swept.
showdown_value(stake, reach, ranks) ==
  LET group     == Ascending(Range(ranks))
      tie_reach == [g \in DOMAIN group |->
                      SumFunctionOnSet(reach, {card \in Deck : ranks[card] = group[g]})]
      weaker_reach[g \in DOMAIN group] ==
        IF g = 1 THEN 0 ELSE weaker_reach[g - 1] + tie_reach[g - 1]
      stronger_reach(g) == SumFunction(reach) - weaker_reach[g] - tie_reach[g]
  IN  [card \in Deck |->
         LET g == CHOOSE i \in DOMAIN group : group[i] = ranks[card]
         IN  stake * (weaker_reach[g] - stronger_reach(g))]

terminal_value(s, player, reach, ranks) ==
  clear_board_cards(s,
    IF folded(s) THEN fold_value(s, player, reach)
    ELSE showdown_value(s.contribution[player], reach, ranks))

-----------------------------------------------------------------------------
(* The walk, one frame of the stack per node it is in: where the node is,  *)
(* how many of its children are walked, and the value they have added up   *)
(* to.                                                                     *)

\* What a node goes through: the cards not on the board, or the actions.
children(s) ==
  IF is_terminal(s) THEN << >>
  ELSE IF is_chance(s) THEN Ascending(Deck \ OnBoard(s))
  ELSE legal_actions(s)

\* The ranks are those of a full board, and null before that.
NoRanks == << >>
Zero    == [card \in Deck |-> 0]

node(s, reach, ranks) ==
  [state |-> s, opponent_reach |-> reach, ranks |-> ranks, value |-> Zero, walked |-> 0]

reach_without(reach, board_card) == [reach EXCEPT ![board_card] = 0]

completes_board(s) == s.board_count = 1

\* The node below that the loop of a node walks next.
board_child(at, card) ==
  node(apply_deal(at.state, card), reach_without(at.opponent_reach, card),
       IF completes_board(at.state)
       THEN rank_every_hole_card(at.state.board_cards[0], card) ELSE NoRanks)

\* The code asks once at a node and keeps the answer; the strategy is fixed.
split_reach(w, at, k) ==
  [card \in Deck |->
     (at.opponent_reach[card] * strategy_query(w, at.state, card)[k]) \div Split]

action_child(w, at, k) ==
  node(apply_bet(at.state, legal_actions(at.state)[k]),
       IF ResponderActs(w, at.state) THEN at.opponent_reach ELSE split_reach(w, at, k),
       at.ranks)

\* What a value below adds to the value of its parent at a chance node, ...
add_board_child(at, below) ==
  [card \in Deck |-> IF card = children(at.state)[at.walked + 1] THEN at.value[card]
                     ELSE at.value[card] + below[card]]

\* ... where the opponent acts, ...
add_opponent_child(at, below) == [card \in Deck |-> at.value[card] + below[card]]

\* ... and where the responder does.
add_responder_child(w, at, below) ==
  IF maximize_at(w, at.state)
  THEN [card \in Deck |-> IF at.walked = 0 \/ below[card] > at.value[card]
                          THEN below[card] ELSE at.value[card]]
  ELSE [card \in Deck |->
          at.value[card]
            + (strategy_query(w, at.state, card)[at.walked + 1] * below[card]) \div Split]

\* What a node whose children are all walked returns.
Finished(at) == at.walked = Len(children(at.state))

returned(w, at) ==
  IF is_terminal(at.state)
  THEN terminal_value(at.state, w.responder, at.opponent_reach, at.ranks)
  ELSE at.value

added(w, at, below) ==
  CASE is_chance(at.state)        -> add_board_child(at, below)
    [] ResponderActs(w, at.state) -> add_responder_child(w, at, below)
    [] OpponentActs(w, at.state)  -> add_opponent_child(at, below)

-----------------------------------------------------------------------------
(* A grading session: for both players every entry point of the header.    *)

VARIABLES profile, stack, answers
walk_vars == <<profile, stack, answers>>

Top   == stack[Len(stack)]
Below == stack[Len(stack) - 1]

\* The walk in progress.
walker == Walk(profile, Len(answers) + 1)

\* The hole cards the walk pretends are dealt.
placeholder(player) == player
root == apply_deal(apply_deal(initial_state, placeholder(0)), placeholder(1))
root_node == node(root, [card \in Deck |-> Unit], NoRanks)

WalkInit ==
  /\ profile \in Profile
  /\ stack = << >>
  /\ answers = << >>

walk_root ==
  /\ stack = << >> /\ Len(answers) < kPlayerCount * PerPlayer
  /\ stack' = <<root_node>>
  /\ UNCHANGED <<profile, answers>>

deal_board_card ==
  /\ stack # << >> /\ is_chance(Top.state) /\ ~Finished(Top)
  /\ stack' = Append(stack, board_child(Top, children(Top.state)[Top.walked + 1]))
  /\ UNCHANGED <<profile, answers>>

take_action ==
  /\ stack # << >> /\ is_decision(Top.state) /\ ~Finished(Top)
  /\ stack' = Append(stack, action_child(walker, Top, Top.walked + 1))
  /\ UNCHANGED <<profile, answers>>

return_to_parent ==
  /\ Len(stack) > 1 /\ Finished(Top)
  /\ stack' = Append(SubSeq(stack, 1, Len(stack) - 2),
                     [Below EXCEPT !.value  = added(walker, Below, returned(walker, Top)),
                                   !.walked = @ + 1])
  /\ UNCHANGED <<profile, answers>>

\* The sum of the values, a fraction of kOrderedDealCount * Unit.
return_from_root ==
  /\ Len(stack) = 1 /\ Finished(Top)
  /\ answers' = Append(answers, SumFunction(returned(walker, Top)))
  /\ stack' = << >>
  /\ UNCHANGED profile

WalkNext ==
  \/ walk_root
  \/ deal_board_card
  \/ take_action
  \/ return_to_parent
  \/ return_from_root

WalkSpec == WalkInit /\ [][WalkNext]_walk_vars

-----------------------------------------------------------------------------
(* What the walk stands for: every ordered deal played out by the rules,   *)
(* grouped by what the responder has seen.                                 *)

Deals == {deal \in [1 .. kRihCardsDealt -> Deck] : IsInjective(deal)}

Choice(s, k) == average_strategy(profile, infoset_index(s), Len(legal_actions(s)))[k]

\* A line is the public course of a hand: column numbers and Deal.  Its State
\* in a deal, and how likely the opponent's choices made it.
DealNext == 0
CardsIn(line) == Cardinality({i \in DOMAIN line : line[i] = DealNext})

After[line \in Seq(Nat), deal \in Deals] ==
  IF line = << >> THEN initial_state
  ELSE LET before == After[SubSeq(line, 1, Len(line) - 1), deal]
       IN  IF line[Len(line)] = DealNext THEN apply_deal(before, deal[CardsIn(line)])
           ELSE apply_bet(before, legal_actions(before)[line[Len(line)]])

Weight[player \in Player, line \in Seq(Nat), deal \in Deals] ==
  IF line = << >> THEN Unit
  ELSE LET before == After[SubSeq(line, 1, Len(line) - 1), deal]
       IN  IF line[Len(line)] = DealNext \/ current_player(before) = player
           THEN Weight[player, SubSeq(line, 1, Len(line) - 1), deal]
           ELSE (Weight[player, SubSeq(line, 1, Len(line) - 1), deal] * Choice(before, line[Len(line)])) \div Split

\* The responder's best sum over the deals, which look the same to it so far.
ValueOf[i \in Nat, line \in Seq(Nat), deals \in SUBSET Deals] ==
  LET w        == Walk(profile, i)
      s        == After[line, CHOOSE d \in deals : TRUE]
      after(k) == ValueOf[i, Append(line, k), deals]
      dealt(card) == ValueOf[i, Append(line, DealNext),
                             {d \in deals : d[CardsIn(line) + 1] = card}]
      columns  == DOMAIN legal_actions(s)
  IN  CASE is_terminal(s) ->
             MapThenSumSet(LAMBDA d : Weight[w.responder, line, d]
                                        * terminal_utility(After[line, d], w.responder), deals)
        [] is_chance(s) -> MapThenSumSet(dealt, {d[CardsIn(line) + 1] : d \in deals})
        [] OpponentActs(w, s) -> MapThenSumSet(after, columns)
        [] ResponderActs(w, s) ->
             IF maximize_at(w, s) THEN Max({after(k) : k \in columns})
             ELSE MapThenSumSet(LAMBDA k : (Choice(s, k) * after(k)) \div Split, columns)

OverDeals(i) ==
  LET holding(card) == {d \in Deals : d[Walk(profile, i).responder + 1] = card}
  IN  MapThenSumSet(LAMBDA card : ValueOf[i, <<DealNext, DealNext>>, holding(card)], Deck)

\* The average over kOrderedDealCount of the walk from placeholder hole cards
\* is the average over all ordered deals of hands played out by the rules, for
\* a followed strategy, a best response and one limited to a round alike: the
\* cards the walk pretends are dealt, also when they come again on the board,
\* the folds that skip boards and the swept tie groups change nothing.
ValuesAreOverDeals ==
  answers # << >> /\ stack = << >> =>
    LET i == Len(answers)
    IN  answers[i] * Cardinality(Deals) = OverDeals(i) * kOrderedDealCount

\* The answers of a session, once it has got so far.
Follow(player)         == answers[player * PerPlayer + 1]
InRound(player, round) == answers[player * PerPlayer + 2 + round]
Best(player)           == answers[(player + 1) * PerPlayer]

\* Deviating in a round is worth no less than following and no more than
\* deviating everywhere.
DeviatingPays ==
  \A player \in Player :
    Len(answers) >= (player + 1) * PerPlayer =>
      \A round \in Street : /\ Follow(player) <= InRound(player, round)
                            /\ InRound(player, round) <= Best(player)

=============================================================================
