# A verification of the Rhode Island hold'em solver

TLA+ modules that model the program, TLC configurations that check them on
small instances, and proofs for every value of the constants. Names in the
modules are those of the source; `PROJECT.json` maps each definition to the
lines it stands for.

## The program

| part | source | state it keeps | operations |
|---|---|---|---|
| game state, betting round | `game/game.hpp`, `game/betting_round.hpp` | `State`: cards, history, round counters, chips, closing codes, remembered ranks and classes | append, deal and advance, betting action, legal actions, progress and closing codes, deal outcomes, sampling a card |
| Rhode Island rules | `game/rhode_island.cpp/.hpp` | none of its own; a `State` is mapped to the next | initial state, node kinds, `apply_action`, payoffs, `infoset_index` |
| evaluator, cards | `eval/eval3.cpp`, `game/card.hpp` | a table of all three-card hands | `evaluate_3card`, `lookup_3card` |
| GameShrink classes | `abstraction/rih_gameshrink.cpp/.hpp` | class id of every hole, pair and triple; counts per round | `compute`, `label`, `refined`, `class_of` |
| MCCFR solver | `solver/mccfr_solver.hpp`, `solver/strategy.hpp` | regret and strategy tables of atomics, `iteration_`, a context per thread | `run_iterations`, `traverse`, average strategy, save and load |
| best response | `solver/rih_best_response.cpp/.hpp` | a value per hole card while it walks the public tree | best-response, profile and one-round values |
| published-strategy grader | `grader/gsi_strategy.cpp/.hpp` | classes of the signal tree, rows of two players | load, row keys, probabilities |
| train and measure | `measure/rih_exploitability.cpp` | checkpoint file, log, the schedule of checkpoints | `--train`, measure a file, `--published`, `--partition` |
| play | `play/play_rih.cpp` | the deck, the hand, a running total | the hand loop, moves of the human and the solver |
| oracles, tests | `tests/` | | Kuhn, Leduc, reference CFR, evaluator and labels |

The rules call the betting round and remember, at each deal, the classes that
GameShrink assigned and, at the turn, the ranks of the evaluator. The solver
sees the rules only through `GameLike`: it walks the tree, asks for the row of
each decision node and adds to the row. The best response and the player read
rows through the same `infoset_index`. The training command runs the solver in
segments, saves, measures and logs; another process may load the checkpoint at
any time.

What is hard to test here:

- *concurrency*: threads share rows without locks, one atomic entry at a time;
- *files*: the checkpoint is rewritten in place, and a kill, a full disk or a
  reader may come between any two writes;
- *caches*: classes, ranks and closing codes are computed at a deal and used
  many actions later;
- *encodings*: row numbers, progress and closing codes pack a whole betting
  history into an integer, and a collision would still train;
- *fixed arrays and counters*: capacities guarded by asserts only, 16-bit ids,
  an int that doubles;
- *a loop that must converge* before a limit, tested by counts alone.

`PROJECT.json` lists these as hazards at their lines, with the properties that
would catch each.

## Modules

| module | models | kind |
|---|---|---|
| `BettingRound` | `game.hpp`, `betting_round.hpp` | operators from `State` to `State`; `history` and `history_len` are one sequence |
| `RhodeIslandGame` | the class `RhodeIslandGame` of `rhode_island.cpp` | operators from `State` to `State`: kinds of node, `apply_deal`, `apply_bet`, payoffs, row numbers, `set_hole_card` |
| `RhodeIsland` | a caller that plays hands | state machine: the variable is the `State` threaded through `apply_action`; actions `Deal`, `Fold`, `CallCheck`, `Raise`, `NewHand` |
| `FixedLimit` | what a hand promises | abstract specification in chips and cards, with no betting history and nothing remembered |
| `Eval3` | `eval3.cpp`, `card.hpp` | operators, with the table of hands and its look-up; the rank bitmask is a set of ranks |
| `GameShrink` | `label`, `compute`, `refined`, `class_of` | operators over any deck; ids are assigned in the order the loops first meet a key, and wrap around at `kIdRange` |
| `GameShrinkRefine` | the loop of `refined` | state machine: one action is one pass and its test |
| `Mccfr` | `mccfr_solver.hpp`, `strategy.hpp` | state machine: each worker has a stack of activations of `traverse`; one step is one access to one table entry |
| `Training` | `train`, `report_checkpoint`, `measure`, save and load | state machine: a training process, a reader, a checkpoint of `Pieces` writes and a log, across sessions and kills |
| `BestResponse` | `rih_best_response.cpp` | state machine: a stack of nodes of the public tree, one node entered or left a step; a session asks every entry point for both players |
| `Sampling` | `UniformPrefix`, `sample_undealt_card`, `sample_index` | state machine: a hand dealt by any rolls, with sums rounded as they are made |
| `GsiNumbers` | signal nodes and row keys of `gsi_strategy.cpp` | operators, with the sizes of the files as constants |
| `GsiLoad` | `GsiStrategy::load` | state machine: the three files, whole or damaged, read word by word |
| `GsiKeys` | the look-up of a node of a hand in the loaded strategy | operators on the states of `RhodeIsland` |
| `Play` | `play_rih.cpp` | state machine: the program, a human who types words, and an input that may end at any time |
| `RhodeIslandProofs`, `MccfrProofs`, `TrainingProofs`, `PlayProofs`, `BestResponseProofs`, `GameShrinkProofs`, `GsiProofs` | | theorems about the module each is named for, with proofs; `TrainingProofs` also holds those about `Sampling`, the draws a training iteration makes |
| `SumTheorems` | | induction in the form the provers can use, and facts about sums over finite sets |
| `MC...` | | the instances TLC checks |

How they fit together:

- `RhodeIslandGame` extends `BettingRound`. Its `Strength` and `ClassOf` are
  constants, so that proofs hold for any evaluator and any partition;
  `MCRhodeIsland` gives them the ranks that `lookup_3card` finds in the table
  of `Eval3`, in any order of the cards, and the classes that `GameShrink`
  computes for the deck of the run.
- `RhodeIsland` instantiates `FixedLimit` under a refinement mapping: cards out,
  contributions, `round_len`, `raises_used` and the folder, all read off a
  `State`. `FollowsRules` is that specification as a property.
- `Play`, `BestResponse` and `GsiKeys` use the same operators. The states of
  `Play` implement `RhodeIsland` in turn (`HandsAreHands` is `Game!Spec`), so a
  hand in the terminal is a hand of `FixedLimit`. `BestResponse` compares its
  walk with hands played out by `RhodeIslandGame` and asks strategies through
  `infoset_index`; `GsiKeys` answers the same questions from the files, whose
  partition is not the game's: `SignalClass` is a constant of its own.
  `MCRhodeIsland` is the instance of `GsiKeys` and, through it, of `RhodeIsland`.
- `GameShrinkRefine` extends `GameShrink`, which extends `Eval3`. `GsiLoad` and
  `GsiKeys` extend `GsiNumbers`: what one stores under a number the other reads.
- `Training` counts iterations where `Mccfr` runs them: what the two share is
  the checkpoint, read whole or refused in `Training` and, in every way a
  refusal can happen, in `Mccfr`.

Operators commented `Slip:` are plausible mistakes in the definition they stand
before; no specification uses them. Each property is checked to fail when the
slip named for it in `PROJECT.json` replaces that definition.

### How the abstractions were chosen

- *Rhode Island*: the asserts on array bounds are guards of the actions and
  also the invariant `AssertsHold`, so that an overrun shows as a violation.
  `NewHand` is what the callers do after a terminal node. Integers stay far
  below the width of their fields; the proofs bound them.
- *GameShrink*: a map from key to id, filled in loop order, is the function
  from tuple to the rank of its key's first tuple. Sorted arrays are bags.
  `next_id` wraps around, unchecked, at `kIdRange`: 2^16 in the program. The 52
  cards have 132,600 triples, so nothing but what the keys are keeps the ids in
  range. `IdsFit`, assumed of every deck, counts only the tuples that can have
  a class to themselves: all of them, or those that start in suit 0 if the deck
  has all suits of its ranks. That these are enough is proved (`NoIdWraps`). Of
  the 52 cards they are 33,150, which TLC evaluates (`FullDeckFits`).
- *Mccfr*: any finite game tree. Chance nodes are passed in the step that
  reaches them, since they touch no shared state. Doubles are fixed point with
  `Unit` for 1.0. Regret matching gives each action with positive regret the
  same share: the support of a strategy, its sum and the identity behind the
  residual assert are kept; the sizes of the shares and rounding are not.
  `Scale` says of every node what power of `Unit` its results are multiples of,
  so that no value is cut short on the way up.
  Accesses are `memory_order_relaxed` to single atomics, and each is one step.
  The interleaving explores all orders of accesses. It does not explore one
  thread seeing two entries change in different orders from another; no
  property relates what different threads saw of different entries.
  Random numbers are choices. `ledger` is a history variable: what the tables
  ought to hold.
- *Training*: a save is `Pieces` writes (count, iteration count, table), each
  named by the save it belongs to, so that a mixed file can be told. `ofstream`
  truncates on opening. A write may fail at any piece, the log may fail at any
  line and then stays failed. `Kill` may come between any two steps. Writes that
  reached the file stay there: loss of power, where they might not, is left out.
  `int` wraps at `IntMax`, so the overflow the code avoids would be seen.
- *BestResponse*: values and reaches are exact multiples of `1 / Unit`;
  `Split` is the grid of the strategy's probabilities. `Walk` lists the ten
  questions of a session in order; the one in progress is the next that has no
  answer, and the answers given are kept. The stack holds, for each node the
  recursion is in, the arguments of the call and its local `value` and loop
  counter. Storage that the walk looks up for a card already dealt (its
  placeholder hole cards come again on the board) is modelled with whatever the
  table holds there: that every tuple has an entry, also one that no hand has,
  is `StorageAssumption` (the class arrays are sized for every tuple and filled
  with zeros, `rih_gameshrink.cpp:163` and `:210`).
- *Sampling*: a double is a whole multiple of `1 / Unit`. Not every multiple is
  a double: `rounded` gives the one next to it, and every sum is rounded as soon
  as it is made, so that sums of n shares fall short of 1 or pass it, as those
  of the code do. Which multiples are doubles is left open; all that is assumed
  is that rounding keeps the order and moves neither doubles nor whole numbers.
- *Gsi*: a word of a file is a number with a whole part and a fraction, or
  text; `>>` into an int stops at the point, `>>` into a float does not. A file
  may be missing, cut after any word or inside it, lack any word, or hold text
  in its place. Class ids are narrowed to 16 bits. What the authors of the files
  wrote are constants: `Partition` is any list of all nodes, each with a class,
  in the order of suits and ranks (`PartitionAssumption`), and `PlayerRows` any
  rows. The look-up takes any class for any node, so long as ids of a street lie
  in its range (`PublishedClassesAssumption`): the authors' partition has
  13/205/1,774 classes where the refined one of the game has 13/325/7,969.
  Slots are whole units, and a row counts as empty up to `kEmptyRowTotal` units
  (1e-9 in the code).
- *Play*: the strategy plays any column of positive probability. The human may
  end the input at any moment, also after a word was read and before it is
  matched.

## Runs

| run | instance | distinct states | shows |
|---|---|---|---|
| `stakes` | real stakes and cap (ante 5, bets 10/20/20, 3 raises), six cards of two suits, a published strategy with fewer classes and with missing, empty and negative rows | 388,717 | the invariants of the hand, rows that decode to what the player saw, `FollowsRules`: every hand is a hand of `FixedLimit`, worth what it says; the slots of a published row decode to the betting and the published class, and answers for one card and for all agree; hands end |
| `refine_loop` | 57 decks of five and six cards, and one of eight with 336 triples, and 128 ids | 171 | classes lose nothing and are the coarsest such; a pass only splits; the loop never throws |
| `threads` | two threads, one iteration each, a game with a chance node and rows of two lengths | 58,571 | no regret lost, residual zero, trailing entries untouched, the call returns |
| `calls` | any two calls: negative, empty, one thread, three iterations on two threads, loads of seven kinds of file | 584,237 | every iteration is run once per player; the strategy sums gain one unit for every visit counted, from the last load on; the cheap addition is only made alone |
| `training` | two sessions, targets 2, 6, 7, 15 and refused 0 and 16, with kills, failures and a reader | 991,995 | what is loaded is one save, the log is behind the file and keeps to the schedule, exit 0 means saved, sessions end |
| `grading` | five cards, one raise, two strategies that mix, all ten questions of a session | 70,562 | the walk's values are those of every deal played out; a deviation in a round lies between following and deviating everywhere |
| `chance` | seven cards, prefix sums for up to eight, doubles of five significant bits, 128 rolls | 1,100 | the fast draw is the slow one at every boundary; no card comes twice |
| `strategy_files` | files of a four-card game, rows of three slots, one key twice, every damage at every word | 9,919 | classes land where the look-up finds them, no row is made up, loads end |
| `terminal` | four cards, one raise, two hands, every shuffle | 220,422 | hands are hands, the program ends with its input, a patient human is never stuck |
| `failed_load` | as `calls` | to the violation | a refused load leaves its iteration count in the solver |
| `loaded_mass` | as `calls` | to the violation | after a load that succeeds the mass of the strategy sums is not the number of visits |
| `full_disk` | as `training` | to the violation | a log line that could not be written is lost and `--train` exits 0 |

The bounds and why they are enough:

- *Decks.* A hand uses four cards, so four is the least. Six cards of two suits
  hold pairs, straights, straight flushes, ties and cards that share a class.
  Five cards in `grading` leave one card that is neither held nor dealt, and
  with the placeholder holes on the board. Betting does not depend on the deck.
- *Raise cap.* The real cap of 3 in `stakes`. Where a run multiplies betting by
  deals or shuffles (`grading`, `terminal`) the cap is 1: all kinds of round
  (checked, called, folded, opened late) exist there. What a cap can break,
  capacities and row numbers, is proved for every cap that fits.
- *Refinement.* Passes past the first are needed on some of the decks; every
  deck of five cut from eight cards of mixed ranks and suits is tried, one
  symmetric deck of six, and two ranks in all four suits. That last deck has more
  triples than `kIdRange`, as the full deck has: its ids fit because suits are
  interchangeable. With a quarter of the ids they wrap around, and a pass merges
  what an earlier one split.
- *Published classes.* The partition of the run forgets the order in which the
  board came: 30 classes on the last street for 60 of the game, so hands that
  the game tells apart do share rows.
- *Threads.* Two threads exhibit every lost update and torn row, since each is
  a race of two. Two paths through the same row come from the two deals. That
  no regret is lost is proved for any number of threads and any tree.
- *Calls.* Two in a row are the least in which contexts, a load or a rejected
  request can disturb what follows.
- *Training.* An int of four bits with a first checkpoint of 3 has targets below
  it, one and two doublings, an odd target whose half rounds down, the largest
  int, and counts just outside. Three pieces tell the header from the table.
  Two sessions show what the second finds of the first.
- *Grading.* The rows of the two strategies are empty, pure, mixed or sum to
  other than 1. `Unit` 512 and `Split` 2 keep every product of probabilities on
  a path exact: no division leaves a remainder.
- *Chance.* Doubles of five significant bits, rounded to even, on a grid of
  1/128: a seventh, a sixth and a fifth are not doubles, their sums are rounded
  on the way, and every boundary is a roll. With seven cards, sums made one
  after the other differ from multiples rounded once; with fewer they do not,
  and a table made the wrong way would pass.
- *Strategy files.* Two rows suffice for a word of one to be taken for another
  row's, and a third repeats a key; slots with a whole part, a fraction and both are the kinds `>>` treats
  differently.
- *Terminal.* The second hand finds what the first left: the deck, the total
  and the phase.

### Fairness

- `HandsEnd` assumes that a caller keeps playing (`WF_vars(Next)`): all callers
  loop until a terminal node. Bounded raises do the rest.
- `RunsReturn` assumes that each worker keeps running and that the caller joins:
  threads the operating system schedules, with nothing to wait for.
- `SessionsEnd` assumes only that the process keeps running (`WF_vars(TrainStep)`);
  a kill is never assumed.
- `LoadsEnd` assumes that the one thread that loads keeps reading, and files
  are finite.
- `EndOfInputEnds` assumes that the program keeps running (`WF_vars(Program)`)
  and nothing of the human.
- `HandsGoOn` also assumes a patient human: asked infinitely often, somebody
  who in the end types one of the words the rules allow (strong fairness over
  those words; which words they are is stated from the chips, not from the
  words the program matches).

### Three divergences, and a narrow promise

- `load_strategy_sums` reads the iteration count of the file into `iteration_`
  before it knows that the file is good. After a load that throws,
  `iterations_run()` is the count of the refused file
  (`mccfr_solver.hpp:155`), not "iterations completed, including any loaded".
  The programs of the repository exit on the exception; the class does not ask
  them to.
- `load_strategy_sums` replaces the strategy sums and leaves the visits that the
  contexts have counted. After a load that succeeds `strategy_mass()` is not
  `opponent_node_visits()`, although `mccfr_solver.hpp:93` says that it "equals"
  the visits and `:102` that the visits "should match". In a solver that loaded
  and then trained, the check of `report_checkpoint` would report updates that
  were not lost. No command does: those that load (`rih_exploitability.cpp:89`,
  `play_rih.cpp:167`) do not train, and `--train` loads nothing.
  `MassConserved` says what holds throughout, `MassMatchesUnlessLoaded` that
  the documented equality holds as long as no load succeeds.
- `train` tests the log when it opens it and never again. "The log keeps every
  line" (`rih_exploitability.cpp:173`) fails on a full disk, with exit status 0.
- `gsi_strategy.hpp:35` says that truncated files throw. `load` finds a
  partition that lacks a word, and a player file cut inside a row. A player file
  that ends between two rows, or is empty, loads with the rows it has, and the
  look-up answers uniformly for the others; a last number that lost its end is
  another number. `PartitionInPlace` and `RowsReadBack` state exactly what
  is promised: no row is ever mixed of two or filled up with zeros.

## Proofs

Every theorem is checked by TLAPS, for every value of the constants. What is
assumed of them are the named `ASSUME`s of the modules, which TLC evaluates on
the instances.

Two things shape the proofs. The library's induction theorems take a predicate
as a parameter, which the provers cannot instantiate; `SumTheorems` derives from
`WFMin` that every set of naturals has a least element, and from that induction
over sets of naturals (`Induction`) and over finite sets (`SetInduction`).
And a definition that chooses a value (a sum, a recursive function, an interned
id) says nothing until some value is known to satisfy it: each such proof begins
with a lemma that one exists (`SumsExist`, `TableExists`, `InternIs`).

### The hand

`RhodeIslandProofs` assumes a deck of at least four of the 52 cards, a raise cap
the `static_assert` admits, positive bets, an ante, a strength for every hand of
three cards, and classes below their count. For all of these it proves
`TypeOK`, `AssertsHold`, `EvenStakes` and `NothingTakenBack`, and two facts no
run needs to repeat: `FoldForfeits` (a fold is by the seat that is one bet
behind and costs what it paid) and `ProgressNamesSeat` (rows of the two seats
never meet). None is inductive. The code decides what may happen next from the
last two entries of the history, so the inductive invariant `IInv` has to say
which entries go with which counters:

- `CardsInv`: hole, hole, flop, turn, in that order, each a different card;
- `HistoryInv`: how long the history can be on each street, in terms of the
  actions of this one;
- `RoundInv`: a round in which somebody has acted stands at a bet, at a lone
  check, closed, or folded, and in each case `round_len` is `raises_used`, plus
  one if it was opened with a check, plus one for the last call or fold;
- `StakesInv`: both had paid the same before this street; after a check or call
  both have paid the level, after a raise the seat to act is one bet behind,
  after a fold the folder is.

One lemma per action shows that it keeps each part (`FoldKeeps`, `CallKeeps`,
`RaiseKeeps`, `DealHole`, `DealBoard`), and one per action that it keeps the
types.

What a deal remembers is not part of `IInv`; `Fresh` adds that classes are those
of the cards held and, on the turn, ranks those of the full hands. `FInv`, the
two together, is inductive (`ValuesStayFresh`), and gives:

- `HandsFollowRules`: every hand implements `FixedLimit`, one action of the
  code to one of the rules, with the abstract guards (who is to act, whether a
  bet is faced, whether the round is over) derived from the shapes of `RoundInv`;
- `HandsWorthByRules` and `RememberedStayFresh`, the values of terminal nodes
  and of the caches;
- `RowsStayInTable`: every decision owns a row inside the tables and inside the
  part of its own street. Class, closing codes and progress are digits below
  their radix for every cap (`DigitsInRange`), so the row they make up is below
  the product of the radices (`MixedRadix`).

That rows are in range does not make them different. `RowsAlwaysDecode` proves
`RowDecodes`: the row gives back the street, the class and every betting entry.
Counters cannot show this, since they do not know the entries before the last
two; `RInv` (`HistoryIsLines`) adds to `FInv` what the history is, place by
place: the cards where they were dealt, between them the line each closing code
stands for, and at the end an optional check and raises. It is inductive because
a closed round leaves exactly the line of the code that `deal_and_advance`
stores. The digits are then read off the row by division.

### The terminal

`PlayProofs` imports the theorems of the hand (`Hand == INSTANCE
RhodeIslandProofs`, with lemmas that the operators are the same whichever module
names them) and proves that the program plays hands: `HandsAreOfTheGame`, that
`Play` implements `RhodeIsland`. What has to be known at every step is that the
card dealt next is one that nobody holds: by `PInv` the cards on the table are
the top of the deck that was shuffled, in order, and `next_board_card` counts
them (`DealtFromOneDeck`).

### The published strategy

`GsiProofs` assumes that the files are for the cards and the raise cap of the
game (`SameGameAssumption`), seven lines a round and ten slots a key
(`FileSizesAssumption`), and rows of integers (`RowsAssumption`). Nothing is
assumed of how the published classes relate to those of the game. From `RInv`:

- `SlotsAlwaysDecode`: key and slot range give back the published class, the
  closed rounds and the round in progress, for every partition whose ids are in
  the range of their street. Infosets of the game do share slots, but only where
  the authors' partition merges their cards. Keys are read as digits, like
  rows; the four slot ranges are apart, and a range with the seat to act tells how the round was opened;
- `AnswersAreForEveryHand`: writing a hole card into the State changes nothing
  the look-up reads of it but that card (`ProbeIsPublic`), cards stay apart when
  they are renumbered for the files (`CardsStayApart`), so a card has an answer
  exactly if it is not on the board, and the shares of an answer are not
  negative and add up to 1 (`SlotsAreShares`), one per legal action.

`NodesAreNumbered` needs none of this: for every size of deck `signal_index`
maps the hole cards, pairs and triples one to one onto the nodes of the tree.

Of the load, for every deck, every partition and all rows:

- `PartitionIsInPlace`: the nested loops take the nodes in just the order they
  are listed in (`NextVisitIs`, `LoopsFollow`: the next node is the least of
  those after this one), so `PartitionInv` can say how far the file is read and
  which nodes have their class. That a partition that lacks a word, or holds
  text, throws follows from what damage can leave of a file of whole numbers
  (`DamageShows`), and `NodesAreNumbered` keeps classes from being written over;
- `RowsAreReadBack`: by `RowsInv` a file that is whole or cut between two words
  is read to row r, word n of the next (`Reading`), the rows before are kept,
  each key with its first row (`KeptTo`), and a word of a row is where it was
  written (`RowsWritten`). An undamaged file can then only end with a row.

### The card classes

`GameShrinkProofs` follows the loop of `refined()` for every set of decks whose
ids fit (`DecksAssumption`), the 52 cards with 16 bits among them:

- where suits are interchangeable, a partition that gives tuples equal but for
  their suits one class (`SuitBlind`) is followed by one that does too, since
  the keys of such tuples are equal in each stage of `label`. So every key is
  met in a tuple that starts in suit 0 (`StartsInSuit0`), and there are fewer
  keys than ids: `NoIdWraps`. All that follows rests on it;

- equal ids are equal keys, since ids number the places at which keys are first
  met (`InternIs`), at each stage of `label` (`LabelsTell`). A key holds the
  class before the pass, so `PassesOnlySplit`;
- sorted arrays are equal exactly if their entries can be matched one by one
  (`BagsMatch`, `MatchingBags`). With it the class after a pass is known by what
  its cards lead to (`PassIs`);
- a pass that leaves the count of round 2 as it was has split nothing there
  (`Settles`), so the same ids went into the keys of rounds 1 and 0, and what it
  returns loses nothing (`SettledIsFaithful`, `ReturnsLossless`): comparing
  counts, as the code does, is enough;
- a partition that loses nothing and is finer than the one before a pass is
  finer than the one after it (`StaysFiner`). All are finer than the first, so
  what is returned is the coarsest (`ReturnedIsCoarsest`), compared with every
  partition there is;
- the run compares with the textbook iteration. That it ends is proved by
  counting: a step that changes anything makes a class more, and there are no
  more classes than tuples (`IterationSettles`). What it ends in loses nothing
  and is the coarsest such (`CoarsestIs`), so it is what the loop returns
  (`ReturnsTheCoarsest`).

### The solver

`MccfrProofs` assumes a tree whose rows belong to one player and one number of
actions, inside the table (`TreeAssumption`), requests of no more threads than
exist (`RequestAssumption`), that passing chance nodes leads to a node that is
none (`LandingAssumption`), and a `Unit` fine enough that values are not cut
short (`ScaleAssumption`). Everything is proved for every such tree, every
number of threads and every sequence of calls and loads. `RegretsKept`,
`SplitAdditionAlone` and `TrailingZero` follow from

- `Shape`: tables over all entries and stacks of sound activations;
- `Owed`: a worker is in a traversal only for an iteration it owes, nobody owes
  one between calls, and a call of one thread gives work to worker 0 only;
- `Held`: an addition split in a load and a store is made in a call of one
  thread only, and what was loaded is still in the table.

Without `Owed` the step after the load could not be known to be alone; without
`Held` the store could take back what another wrote. `RegretsKept` follows for
the atomic addition from the ledger moving with the table, and for the split
one from `Held`. On top of these:

- `Values`: what an activation holds at each of its places, and that its values
  are multiples of their scale. A node's value is the sum of its children's,
  each weighted by the strategy the frame holds, so the regrets so weighted sum
  to nothing whatever others did to the row (`ResidualsAreZero`);
- `Counters`: the ranges of the counters, which with `Values` is `TypeOK`
  (`TypesAreOK`), and that a worker without a context owes nothing;
- `Traversals`: for each player, those made and those owed are the iterations
  counted and those of the call in flight. The shares of a call add up to its
  count, the remainder included (`SharesAddUp`), so `IterationsAreExact`;
- `Mass`: the average and what is on its way to it (`Pending`: the part of a
  node's strategy not yet added) hold one `Unit` for every visit counted.
  Each step moves mass between the table and one activation (`PendingMoves`),
  which gives `MassIsConserved`; what a load replaces is the constant `Brought`.
  While no load succeeds that is zero, and between calls nothing is on its way,
  so mass equals visits (`MassMatchesUnlessLoaded`).

### The training

`TrainingProofs` assumes a first checkpoint between 1 and the largest int and a
file of at least three pieces. It proves for every width of int, first
checkpoint, request, number of pieces and number of sessions:

- from `TInv` (a running session's iteration is at most its checkpoint and that
  at most its target) `CheckpointInRange`, so no doubling overflows and no run
  asks for a negative count, and `LogAppendOnly`;
- from `FileInv` (the file is at all times the beginning of one save, the one
  in progress while it is written, and whole when it is reported) `DoneIsOnDisk`;
- from `ReaderInv` (a reader left alone holds the beginning of the file as it
  is) `LoadedWhole`;
- from `LogInv` (lines are in order, behind the counter and behind the file)
  `LogNeverAhead`;
- from `DueInv` (the checkpoint is due, and everything due before it is in the
  log) `ScheduleKept`. Between a checkpoint and the next no doubling is skipped,
  which is where the doubling of the code meets the doublings it promises.

### The draw

`TrainingProofs` also proves `Sampling`. It assumes a deck of 4 to 64 cards (the bits of the mask), a grid
finer than the table is long, and a rounding as described above. `SInv` says
where the cards of a hand are, so that the marks of `sample_undealt_card` are
exactly the cards dealt. Then

- the place `offset` computes for n is where a run of n - 1 sums begins, behind
  the one before and inside the table (`RunOf`), and each entry of it is the sum
  `sample_index` would form at that place, rounding included (`TableHoldsSums`);
- rounding keeps the order, so sums never fall (`SumsGrow`), and halving finds
  the first that passes the roll or the end (`SearchFinds`, by induction over
  the length searched);
- there is a card with k below it for every k below the number left (`NthIs`).

Hence `DrawsAgree`, for any rounding, and `EveryCardIsNew`.

### The best response

`BestResponseProofs` assumes what the hand does, that the class and rank tables
have an entry for every tuple (`StorageAssumption`), that sums are not negative
(`SumsAssumption`) and that `Split` is a common denominator of every row, so
that shares are exact (`SplitAssumption`, `SumsAssumption`). It proves
`DeviatingPays` for every deck, raise cap, bets, tables and strategy.

The two numbers compared come from two walks, one after the other, each a
recursion over the tree. Nothing in a state relates them, and induction over
the tree is not to be had. The argument goes round both:

- `Walked(w)` is the least set of frames that holds every node of which no child
  is walked yet and is closed under taking over what a finished child returned.
  It is defined as an intersection, so what every such step keeps holds of all
  of it (`WalkedIsLeast`), without a measure of the tree;
- `SessionInv` is the inductive invariant (`SessionKeepsWalks`): the stack is a
  path of the tree from the root, each frame in `Walked` of the walk in
  progress, and each answer is what some finished root frame of its own walk
  returned. Returning to the parent needs the path: the frame below is an
  argument of the closure only because it is the next child of the one above;
- `FreerIsNoWorse`: of two walks of one strategy for one responder, the second
  free to maximise wherever the first may, frames of the same node with as many
  children walked have values card by card no worse in the second. Where both
  maximise or both follow, values grow with those below; where only the second
  maximises, a mix is at most the best of what is mixed (`MeanBelow`), which
  takes the shares to be no less than zero and to add up to 1 (`SharesAre`).
  At the leaves both walks compute the same, since reaches do not depend on
  what the responder does. Following, one round, every round are in that order
  of freedom (`EntriesFreer`).

The walk is not a hand: a card it pretends is held may come on the board. So
`InWalk` says that a state of the walk is, apart from the hole cards and what is
remembered of them, one of a hand that `IInv` describes (`OnTable`), and betting
and dealing keep it so (`BetInWalk`, `DealInWalk`, `RootInWalk`). From that the
row asked for is in the table whichever card is asked about, with as many
actions as the row has shares (`QueryIs`). The sweep over the tie groups is
shown to give an integer to each card (`SweepIs`, `ShowdownIs`); what it is
worth in deals is what `ValuesAreOverDeals` checks.

### Only model-checked

- Liveness: `HandsEnd`, `RunsReturn`, `SessionsEnd`, `LoadsEnd`,
  `EndOfInputEnds`, `HandsGoOn`. They need fairness and ENABLED.
- `NeverThrows`: that 32 passes suffice is a matter of the decks, not of the
  loop.
- `ValuesAreOverDeals`: it equates the walk with a recursive function over all
  lines and deals of a hand. `Walked` would carry the induction, but the proof
  has also to exchange sums over cards with sums over deals at every node, and
  to show that no division on a path leaves a remainder, for which `Unit` would
  have to be tied to the longest path. It has not been attempted.

## Not modelled

- Floating point, but for the sums of a draw: rounding, the order of additions,
  and the tolerance of the mass check. `MassConserved` is the exact identity
  the check approximates.
- A reader whose load a save disturbs: sizes never change, so a mixture of two
  saves loads, and `LoadedWhole` speaks of undisturbed loads only.
- `--partition` and `--published` of the measuring command: they load and
  print; what they call is `GameShrink`, `GsiLoad` and `BestResponse`.
- `show_table` and the wording of results in the terminal, `rih_card_name`,
  argument parsing and timing.
- The reference code of the tests (Kuhn, Leduc, the sequential CFR), the
  benchmark script, the build and CI.
- `Eval3` has no run of its own: `stakes` ranks its hands by the look-up, in
  every order of their cards, and compares them with `evaluate_3card`, and
  `tests/test_eval3.cpp` compares the code with a reference on every hand.
