-------------------------- MODULE GameShrinkRefine --------------------------
(***************************************************************************)
(* The loop of RihPartition::refined() as a state machine, for every deck  *)
(* of a set of decks: it labels again and again until a pass leaves the    *)
(* class counts as they were, and throws if 32 passes do not suffice.      *)
(***************************************************************************)
EXTENDS GameShrink

CONSTANT Decks

\* The suits of a deck are interchangeable when it has all four cards of each
\* of its ranks.
Suit == 0 .. kSuitCount - 1
AllSuits(cards) == \A card \in cards, suit \in Suit : card_rank(card) * kSuitCount + suit \in cards

\* The tuples that can have a class to themselves: where suits are
\* interchangeable, any other tuple has the class of one that starts in suit 0.
OwnClass(cards, tuples) == {t \in tuples : AllSuits(cards) => card_suit(t[1]) = 0}

\* There are fewer of them in each round than ids.
IdsFit(cards, range) ==
  \A tuples \in {Holes(cards), Pairs(cards), Triples(cards)} :
    Cardinality(OwnClass(cards, tuples)) < range

ASSUME DecksAssumption ==
  \A deck \in Decks : /\ deck \subseteq 0 .. kCardCount - 1 /\ Cardinality(deck) >= 4
                      /\ IdsFit(deck, kIdRange)

VARIABLES deck,      \* the cards of the game
          current,   \* the partition the next pass starts from
          pass,      \* passes made
          outcome    \* "running", "returned" or "thrown"
vars == <<deck, current, pass, outcome>>

Init ==
  /\ deck \in Decks
  /\ current = compute(deck)
  /\ pass = 0
  /\ outcome = "running"

Relabelled == label(deck, current, showdown_ranks(deck), TRUE)

\* Slip: the loop waits for a pass that splits every round.
CountsAllGrew(next) == \A r \in 0 .. 2 : next.counts[r] > current.counts[r]

CountsSettled(next) == next.counts = current.counts

\* One pass: return next when the counts agree; otherwise go on with it, or
\* throw when this was the last pass allowed.
Pass ==
  /\ outcome = "running"
  /\ LET next == Relabelled
     IN  /\ current' = next
         /\ outcome' = IF CountsSettled(next) THEN "returned"
                       ELSE IF pass + 1 = MaxPasses THEN "thrown" ELSE "running"
  /\ pass' = pass + 1
  /\ UNCHANGED deck

Next == Pass
Spec == Init /\ [][Next]_vars

-----------------------------------------------------------------------------
(* Properties *)

Round == 0 .. 2
Tuples(r) == CASE r = 0 -> Holes(deck) [] r = 1 -> Pairs(deck) [] r = 2 -> Triples(deck)
AllTuples == UNION {Tuples(r) : r \in Round}
Parent(t) == SubSeq(t, 1, Len(t) - 1)

Same(partition, t, u) == partition.class[t] = partition.class[u]

\* What the cards of a tuple lead to, told in classes: at the turn the class
\* and the outcome against each opponent card, before it the next classes.
Consequences(class, t) ==
  IF Len(t) = 3
  THEN SortedBag([opp \in deck \ Cards(t) |->
                    LET theirs == <<opp, t[2], t[3]>>
                    IN  <<class[theirs], Outcome(evaluate_3card(t), evaluate_3card(theirs))>>])
  ELSE SortedBag([c \in deck \ Cards(t) |-> class[Append(t, c)]])

\* When the loop returns, cards of one class lead to the same things: the
\* classes lose nothing that matters to either player.
Lossless ==
  outcome = "returned" =>
    LET leads == Table([t \in AllTuples |-> Consequences(current.class, t)])
    IN  \A r \in Round : \A t, u \in Tuples(r) :
          Same(current, t, u) => leads[t] = leads[u]

\* The textbook iteration to the coarsest such partition: start from one class
\* per round and split by parent and consequences, naming each class after its
\* first tuple, until nothing splits.
Split(class) ==
  LET keys == Table([t \in AllTuples |->
                       << class[t], Consequences(class, t),
                          IF Len(t) = 1 THEN 0 ELSE class[Parent(t)] >>])
  IN  Table([t \in AllTuples |->
               MinOf({TupleIndex(u) : u \in {v \in AllTuples :
                                       Len(v) = Len(t) /\ keys[v] = keys[t]}})])

\* A split that changes anything makes a class more, and there are no more
\* classes than tuples.
Coarsest ==
  LET most == Cardinality(AllTuples)
      After[n \in 0 .. most + 1] ==
        IF n = 0 THEN Table([t \in AllTuples |-> 0]) ELSE Split(After[n - 1])
  IN  After[CHOOSE n \in 0 .. most : After[n + 1] = After[n]]

\* The partition returned is exactly the coarsest lossless one: the header
\* calls refined() "the coarsest fixed point of the full condition".
ReturnsCoarsest ==
  outcome = "returned" =>
    LET reference == Coarsest
    IN  \A r \in Round : \A t, u \in Tuples(r) :
          Same(current, t, u) <=> reference[t] = reference[u]

\* A pass only splits: the reason given for the loop's termination.
PassOnlySplits ==
  [][ \A r \in Round : \A t, u \in Tuples(r) :
        Same(current', t, u) => Same(current, t, u) ]_vars

\* The throw after 32 passes "cannot happen": the loop returns before.
NeverThrows == outcome # "thrown"
=============================================================================
