--------------------------- MODULE MCRhodeIsland ---------------------------
(***************************************************************************)
(* Hands of Rhode Island hold'em over a deck small enough to enumerate,    *)
(* with the real evaluator, looked up in its table, and the real, refined  *)
(* GameShrink classes of that deck; and the same hands looked up in a      *)
(* published strategy whose partition is coarser than the game's.          *)
(***************************************************************************)
EXTENDS GsiKeys

\* The program's stakes (rhode_island.hpp).
RealBets == [r \in 0 .. 2 |-> IF r = 0 THEN 10 ELSE 20]

\* 2c 2d 3c 3d 4c 4d: pairs, straights, straight flushes, high cards and
\* ties, and suits that can be swapped, so that cards share classes.  Of()
\* gives the cards of the game their ids in the deck of four suits.
ThreeRanks == 0 .. 5
TwoSuits   == {0, 1, 4, 5, 8, 9}
Of(t) == [i \in DOMAIN t |-> 4 * (t[i] \div 2) + (t[i] % 2)]

Shrunk == INSTANCE GameShrink WITH kIdRange <- 65536

\* The tables of the game: the rank of every hand as it is looked up, in any
\* order of its cards, and the class of every tuple.
Game ==
  LET lookup    == Shrunk!three_card_table(TwoSuits)
      shrinking == Shrunk!refined(TwoSuits)
  IN  [ rank   |-> Shrunk!Table([t \in Held(2) |-> Shrunk!lookup_3card(lookup, Of(t))]),
        class  |-> Shrunk!Table([t \in UNION {Held(r) : r \in Street} |-> shrinking.class[Of(t)]]),
        counts |-> shrinking.counts ]

MCStrength    == LET game == Game IN game.rank
MCClassOf     == LET game == Game IN game.class
\* The class counts, round by round; the assumption computes them.
MCClassCount == [r \in 0 .. 2 |-> <<3, 15, 60>>[r + 1]]
ASSUME CountsAssumption == MCClassCount = Game.counts

\* No two hands share an entry of the table: the look-up is what GameShrink
\* evaluates.
ASSUME TableAssumption ==
  LET evaluated == Shrunk!showdown_ranks(TwoSuits)
  IN  \A t \in Held(2) : MCStrength[t] = evaluated[Of(t)]

\* The classes of the file, by tuple and by node of the tree.  Its partition
\* forgets in which order the board came.
Reordered(t) == IF Len(t) = 3 THEN <<t[1], t[3], t[2]>> ELSE t
Published ==
  LET class     == Game.class
      merged(t) == Min({class[t], class[Reordered(t)]})
      kept      == Shrunk!Table([r \in Street |-> {merged(t) : t \in Held(r)}])
      id(t)     == ClassIdBase[Len(t) - 1] + Cardinality({n \in kept[Len(t) - 1] : n < merged(t)})
      node(t)   == signal_index([i \in DOMAIN t |-> gsi_card(t[i])])
      entries   == {<<node(t), id(t)>> : t \in DOMAIN class}
  IN  [ id   |-> Shrunk!Table([t \in DOMAIN class |-> id(t)]),
        node |-> Shrunk!Table([k \in 1 .. kGsiOnePlayerSignalNodeCount |->
                                 (CHOOSE e \in entries : e[1] = k)[2]]) ]
MCSignalClass == LET file == Published IN file.node

\* It merges classes of the game, and splits none.
ASSUME CoarserAssumption ==
  LET game == Game  file == Published
  IN  /\ PublishedClassCount[2] < ClassCount[2]
      /\ \A r \in Street : \A t, u \in Held(r) :
           game.class[t] = game.class[u] => file.id[t] = file.id[u]

\* Every third row is missing; slots are negative, zero and positive.
LastRow == kGsiRound1ClassCount + 7 * kGsiRound2ClassCount + 49 * kGsiRound3ClassCount - 1
AllRows == [p \in Player |->
              [key \in {10 * n + 1 : n \in {k \in 0 .. LastRow : (k + p) % 3 # 0}} |->
                 [slot \in 1 .. 10 |-> ((key + slot * slot + p) % 7) - 3]]]
MCRows  == AllRows
=============================================================================
