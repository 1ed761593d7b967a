------------------------------- MODULE Mccfr -------------------------------
(***************************************************************************)
(* ExternalSamplingSolver of solver/mccfr_solver.hpp: worker threads walk  *)
(* a game tree and add to two tables of lock-free atomics that all of them *)
(* share.  One step of a worker is one access to a table entry, so updates *)
(* of one row interleave and a row is read while others write it.          *)
(*                                                                         *)
(* The game is any finite tree.  Doubles are fixed point: a distribution   *)
(* sums to Unit, and utilities are multiples of a power of Unit (Scale),   *)
(* so that the products below divide exactly.  Regret matching gives every *)
(* action of positive regret the same share: the shares' sizes are         *)
(* abstracted, their support and their sum are not.                        *)
(***************************************************************************)
EXTENDS Integers, Sequences, FiniteSets, Functions

CONSTANTS
  Node, Root,     \* the tree
  Kind,           \* Kind[n]: "terminal", "chance" or "decision"
  Child,          \* Child[n]: the sequence of n's children
  Mover,          \* Mover[n]: the player of a decision node
  Row,            \* Row[n]: its infoset index
  RowCount,       \* infoset_count()
  kStride,        \* GameT::kMaxActions
  Utility,        \* Utility[n]: player 0's result at a terminal node, scaled
  Unit,           \* the fixed-point 1.0
  Scale,          \* Scale[p][n]: player p's results below n are multiples of it
  Threads,        \* largest thread_count of a call
  Requests,       \* the <<iteration_count, thread_count>> a caller may pass
  MaxCalls,       \* bound: calls of run_iterations and load_strategy_sums
  Files,          \* states of the checkpoint file a load may find
  FileIterations, \* iteration count stored in it
  FileMass,       \* and the value of its first entry; the others are zero
  LowHalf         \* an int is split in two halves, base LowHalf

Player == {0, 1}
Worker == 0 .. Threads - 1
Decision == {n \in Node : Kind[n] = "decision"}
Actions(n) == 1 .. Len(Child[n])
Entry == (0 .. RowCount - 1) \X (1 .. kStride)

ASSUME TreeAssumption ==
  /\ Root \in Node
  /\ \A n \in Decision : Len(Child[n]) \in 1 .. kStride
  /\ \A n \in Decision : \A k \in 1 .. kStride : Len(Child[n]) >= k => Unit % k = 0
  /\ \A n, m \in Decision : Row[n] = Row[m] => /\ Mover[n] = Mover[m]
                                               /\ Len(Child[n]) = Len(Child[m])
  /\ \A n \in Decision : Row[n] \in 0 .. RowCount - 1 /\ Mover[n] \in Player
  /\ RowCount \in Nat \ {0} /\ kStride \in Nat \ {0} /\ Unit \in Nat \ {0}

ASSUME RequestAssumption ==
  /\ Threads \in Nat \ {0}
  /\ Requests \subseteq Int \X {t \in Int : t <= Threads}
  /\ MaxCalls \in Nat
  /\ Files \subseteq {"missing", "cut_in_count", "cut_in_iteration", "other_size",
                     "cut_in_table", "trailing_bytes", "good"}
  /\ FileIterations \in Int /\ FileMass \in Int /\ LowHalf \in Nat \ {0}

VARIABLES
  cumulative_regrets,  \* entry -> value
  strategy_sums,       \* entry -> value
  iteration,           \* iteration_
  contexts,            \* contexts_.size()
  visits,              \* opponent_node_visits of each context
  call,                \* the run_iterations in flight, or Idle
  calls,               \* calls made so far (bounded)
  todo,                \* traversals each worker still has to finish
  stack,               \* each worker's activations of traverse, outermost first
  ledger               \* what the tables should say (see Properties)

vars == <<cumulative_regrets, strategy_sums, iteration, contexts, visits, call,
          calls, todo, stack, ledger>>

Idle == [count |-> 0, threads |-> 0]

\* Slip: two threads are few enough to go without read-modify-write.
ConcurrentAboveTwo == call.threads > 2

\* run_iterations runs run_iteration_range<true> unless thread_count is 1.
Concurrent == call.threads # 1

-----------------------------------------------------------------------------
(* One activation of traverse *)

\* regret_matching_in_place: zero for negative regrets, the rest normalised,
\* uniform when nothing is positive.
Matched(regrets) ==
  LET positive == {i \in DOMAIN regrets : regrets[i] > 0}
      support  == IF positive = {} THEN DOMAIN regrets ELSE positive
  IN  [i \in DOMAIN regrets |->
         IF i \in support THEN Unit \div Cardinality(support) ELSE 0]

\* The nodes traverse can be at after sampling its way through chance nodes.
Landing[n \in Node] ==
  IF Kind[n] = "chance" THEN UNION {Landing[Child[n][i]] : i \in Actions(n)} ELSE {n}

\* Every deal leads on to a decision or to the end of a hand.
ASSUME LandingAssumption ==
  /\ Landing[Root] \subseteq Decision
  /\ \A n \in Decision : \A i \in Actions(n) :
       Landing[Child[n][i]] \subseteq {m \in Node : Kind[m] \in {"terminal", "decision"}}

\* A traverser's node divides what its children return by Unit.
ASSUME ScaleAssumption ==
  /\ Scale \in [Player -> [Node -> Nat \ {0}]]
  /\ \A n \in Node : Kind[n] = "terminal" =>
       Utility[n] \in Int /\ \A p \in Player : Utility[n] % Scale[p][n] = 0
  /\ \A n \in Decision : \A i \in Actions(n) : \A m \in Landing[Child[n][i]] :
       \A p \in Player :
         Scale[p][m] % (IF Mover[n] = p THEN Unit * Scale[p][n] ELSE Scale[p][n]) = 0

\* step is what the activation does next: "read" entry i of the regrets;
\* then, at an opponent node, "sum" it into strategy_sums and "sample" a child,
\* or, at a traverser node, try "child" i and then add to "regret" i.
\* storing says that an addition by load and store is half done, held what it
\* loaded.
Frame(n) == [node |-> n, step |-> "read", i |-> 1, strategy |-> << >>,
             values |-> << >>, storing |-> FALSE, held |-> 0]

Active(w) == stack[w] # << >>
Top(w)    == stack[w][Len(stack[w])]
Below(w)  == SubSeq(stack[w], 1, Len(stack[w]) - 1)
At(w, step) == Active(w) /\ Top(w).step = step

\* A worker's traversals alternate between player 0 and player 1.
Traverser(w) == IF todo[w] % 2 = 0 THEN 0 ELSE 1
Result(n, player) == IF player = 0 THEN Utility[n] ELSE -Utility[n]

ActionCount(frame) == Len(Child[frame.node])

\* Slip: a row is filled from its end.
EntryFromEnd(frame) == <<Row[frame.node], kStride + 1 - frame.i>>

EntryOf(frame) == <<Row[frame.node], frame.i>>

\* Go on with the next action of the row, or with another step after the last.
NextAction(frame, step) ==
  IF frame.i < ActionCount(frame) THEN [frame EXCEPT !.i = @ + 1]
  ELSE [frame EXCEPT !.i = 1, !.step = step]

\* Slip: the strategy is read again after the children were tried.
NodeValueRereading(frame) ==
  LET row == Matched([k \in 1 .. ActionCount(frame) |->
                        cumulative_regrets[<<Row[frame.node], k>>]])
  IN  SumFunction([k \in 1 .. ActionCount(frame) |-> row[k] * frame.values[k]]) \div Unit

NodeValue(frame) ==
  SumFunction([k \in 1 .. ActionCount(frame) |-> frame.strategy[k] * frame.values[k]])
    \div Unit

\* traverse returns a value: to the caller's node, or, from the outermost
\* activation, to run_iteration_range, which counts the traversal.
WithValue(frame, value) ==
  NextAction([frame EXCEPT !.values = Append(@, value)], "regret")

ReturnWith(w, value, owed) ==
  IF Len(stack[w]) = 1
  THEN /\ stack' = [stack EXCEPT ![w] = << >>]
       /\ todo' = [todo EXCEPT ![w] = @ - 1]
       /\ ledger' = [owed EXCEPT !.finished[Traverser(w)] = @ + 1]
  ELSE LET caller == Len(stack[w]) - 1
       IN  /\ stack' = [stack EXCEPT ![w] =
                          [Below(w) EXCEPT ![caller] = WithValue(@, value)]]
           /\ ledger' = owed
           /\ UNCHANGED todo
Return(w, value) == ReturnWith(w, value, ledger)

Goto(w, frame) == stack' = [stack EXCEPT ![w] = Append(Below(w), frame)]

-----------------------------------------------------------------------------
(* Steps of a worker *)

\* Slip: the loop of run_iteration_range runs once too often.
StartOneMore(w) ==
  /\ ~Active(w) /\ call # Idle /\ todo[w] >= 0
  /\ \E n \in Landing[Root] : stack' = [stack EXCEPT ![w] = <<Frame(n)>>]
  /\ UNCHANGED <<cumulative_regrets, strategy_sums, iteration, contexts, visits,
                 call, calls, todo, ledger>>

\* run_iteration_range starts a traversal for the next player.
StartTraversal(w) ==
  /\ ~Active(w) /\ todo[w] > 0
  /\ \E n \in Landing[Root] : stack' = [stack EXCEPT ![w] = <<Frame(n)>>]
  /\ UNCHANGED <<cumulative_regrets, strategy_sums, iteration, contexts, visits,
                 call, calls, todo, ledger>>

\* current_strategy_into: one entry at a time; the last is matched at once, and
\* an opponent node is counted as visited.
ReadRegret(w) ==
  /\ At(w, "read")
  /\ LET frame    == Top(w)
         row      == Append(frame.strategy, cumulative_regrets[EntryOf(frame)])
         last     == frame.i = ActionCount(frame)
         opposing == Mover[frame.node] # Traverser(w)
         read     == [frame EXCEPT !.strategy = IF last THEN Matched(row) ELSE row]
     IN  /\ Goto(w, NextAction(read, IF opposing THEN "sum" ELSE "child"))
         /\ visits' = IF last /\ opposing THEN [visits EXCEPT ![w] = @ + 1] ELSE visits
  /\ UNCHANGED <<cumulative_regrets, strategy_sums, iteration, contexts, call,
                 calls, todo, ledger>>

\* accumulate<false>, first half: the entry is loaded.
Load(w) ==
  /\ ~Concurrent
  /\ At(w, "sum") \/ At(w, "regret")
  /\ ~Top(w).storing
  /\ LET table == IF At(w, "sum") THEN strategy_sums ELSE cumulative_regrets
     IN  Goto(w, [Top(w) EXCEPT !.storing = TRUE, !.held = table[EntryOf(Top(w))]])
  /\ UNCHANGED <<cumulative_regrets, strategy_sums, iteration, contexts, visits,
                 call, calls, todo, ledger>>

\* Slip: an activation keeps its row to itself until it returns.
CanAddInOwnRow(w) ==
  \A v \in Worker \ {w} : \A f \in DOMAIN stack[v] :
    Row[stack[v][f].node] # Row[Top(w).node]

\* accumulate<true> adds to the entry as it is; the second half of
\* accumulate<false> stores what was loaded, plus the increment.
CanAdd(w) == Concurrent \/ Top(w).storing
Added(w, table, increment) ==
  [table EXCEPT ![EntryOf(Top(w))] =
     (IF Concurrent THEN @ ELSE Top(w).held) + increment]
Stored(frame) == [frame EXCEPT !.storing = FALSE, !.held = 0]

\* An opponent node adds its strategy to the average.
AddSum(w) ==
  /\ At(w, "sum") /\ CanAdd(w)
  /\ strategy_sums' = Added(w, strategy_sums, Top(w).strategy[Top(w).i])
  /\ Goto(w, NextAction(Stored(Top(w)), "sample"))
  /\ UNCHANGED <<cumulative_regrets, iteration, contexts, visits, call, calls,
                 todo, ledger>>

\* sample_index picks an action the strategy plays, or the last one, which
\* absorbs rounding.
Samples(frame) ==
  {k \in 1 .. ActionCount(frame) : frame.strategy[k] > 0 \/ k = ActionCount(frame)}

\* The sampled child's value is the node's.
Sample(w) ==
  /\ At(w, "sample")
  /\ \E k \in Samples(Top(w)) : \E n \in Landing[Child[Top(w).node][k]] :
       IF Kind[n] = "terminal" THEN Return(w, Result(n, Traverser(w)))
       ELSE Goto(w, Frame(n)) /\ UNCHANGED <<todo, ledger>>
  /\ UNCHANGED <<cumulative_regrets, strategy_sums, iteration, contexts, visits,
                 call, calls>>

\* A traverser node tries its next action.
TryChild(w) ==
  /\ At(w, "child")
  /\ \E n \in Landing[Child[Top(w).node][Top(w).i]] :
       IF Kind[n] = "terminal"
       THEN Goto(w, WithValue(Top(w), Result(n, Traverser(w))))
       ELSE stack' = [stack EXCEPT ![w] = Append(@, Frame(n))]
  /\ UNCHANGED <<cumulative_regrets, strategy_sums, iteration, contexts, visits,
                 call, calls, todo, ledger>>

\* With every action tried, it adds each action's regret; the last addition
\* returns the node's value.
AddRegret(w) ==
  /\ At(w, "regret") /\ CanAdd(w)
  /\ LET frame     == Top(w)
         increment == frame.values[frame.i] - NodeValue(frame)
         owed      == [ledger EXCEPT !.regrets[EntryOf(frame)] = @ + increment]
     IN  /\ cumulative_regrets' = Added(w, cumulative_regrets, increment)
         /\ IF frame.i < ActionCount(frame)
            THEN /\ Goto(w, NextAction(Stored(frame), "regret"))
                 /\ ledger' = owed
                 /\ UNCHANGED todo
            ELSE ReturnWith(w, NodeValue(frame), owed)
  /\ UNCHANGED <<strategy_sums, iteration, contexts, visits, call, calls>>

WorkerStep(w) ==
  \/ StartTraversal(w) \/ ReadRegret(w) \/ Load(w) \/ AddSum(w)
  \/ Sample(w) \/ TryChild(w) \/ AddRegret(w)

-----------------------------------------------------------------------------
(* Calls of the caller's thread, while no run is in flight *)

\* Slip: the remainder of the division is lost.
ShareWithoutRemainder(count, threads, w) ==
  IF w >= threads THEN 0 ELSE count \div threads

\* The remainder goes to the first threads, one iteration each.
Share(count, threads, w) ==
  IF w >= threads THEN 0
  ELSE count \div threads + (IF w < count % threads THEN 1 ELSE 0)

Rejected(request) == request[1] < 0 \/ (request[1] > 0 /\ request[2] <= 0)

\* A negative count or a thread count that is not positive throws, a count of
\* zero returns at once: neither changes anything.
RunNothing ==
  /\ call = Idle /\ calls < MaxCalls
  /\ \E request \in Requests : Rejected(request) \/ request[1] = 0
  /\ calls' = calls + 1
  /\ UNCHANGED <<cumulative_regrets, strategy_sums, iteration, contexts, visits,
                 call, todo, stack, ledger>>

\* Otherwise there is a context for each thread, old ones kept, and a share of
\* the iterations for each worker: two traversals an iteration.
RunIterations ==
  /\ call = Idle /\ calls < MaxCalls
  /\ \E request \in Requests :
       /\ ~Rejected(request) /\ request[1] > 0
       /\ call' = [count |-> request[1], threads |-> request[2]]
       /\ contexts' = IF contexts < request[2] THEN request[2] ELSE contexts
       /\ todo' = [w \in Worker |-> 2 * Share(request[1], request[2], w)]
  /\ calls' = calls + 1
  /\ UNCHANGED <<cumulative_regrets, strategy_sums, iteration, visits, stack, ledger>>

\* Every worker has been joined; the iterations are counted.
Join ==
  /\ call # Idle
  /\ \A w \in Worker : todo[w] = 0
  /\ iteration' = iteration + call.count
  /\ ledger' = [ledger EXCEPT !.completed = @ + call.count]
  /\ call' = Idle
  /\ UNCHANGED <<cumulative_regrets, strategy_sums, contexts, visits, calls, todo, stack>>

\* load_strategy_sums reads the count and iteration_ itself before it checks
\* anything; what follows may still be refused.  A file cut inside the
\* iteration count replaces only the low half of iteration_.
FileTable == [e \in Entry |-> IF e = <<0, 1>> THEN FileMass ELSE 0]

IterationRead(file) ==
  CASE file \in {"missing", "cut_in_count"} -> iteration
    [] file = "cut_in_iteration" ->
         (iteration \div LowHalf) * LowHalf + (FileIterations % LowHalf)
    [] file \in {"other_size", "cut_in_table", "trailing_bytes", "good"} -> FileIterations

LoadStrategySums ==
  /\ call = Idle /\ calls < MaxCalls
  /\ \E file \in Files :
       /\ iteration' = IterationRead(file)
       /\ strategy_sums' = IF file = "good" THEN FileTable ELSE strategy_sums
       /\ ledger' =
            [ledger EXCEPT
               !.completed = IF file = "good" THEN FileIterations ELSE @,
               !.iterationBase = @ + IterationRead(file) - iteration,
               !.loaded = IF file = "good"
                          THEN [mass |-> FileMass, visits |-> SumFunction(visits)] ELSE @]
  /\ calls' = calls + 1
  /\ UNCHANGED <<cumulative_regrets, contexts, visits, call, todo, stack>>

NothingLoaded == [mass |-> 0, visits |-> 0]

Init ==
  /\ cumulative_regrets = [e \in Entry |-> 0]
  /\ strategy_sums = [e \in Entry |-> 0]
  /\ iteration = 0
  /\ contexts = 0
  /\ visits = [w \in Worker |-> 0]
  /\ call = Idle
  /\ calls = 0
  /\ todo = [w \in Worker |-> 0]
  /\ stack = [w \in Worker |-> << >>]
  /\ ledger = [regrets |-> [e \in Entry |-> 0], finished |-> [p \in Player |-> 0],
               completed |-> 0, iterationBase |-> 0, loaded |-> NothingLoaded]

\* The caller stops after MaxCalls calls.
Stop == call = Idle /\ calls = MaxCalls /\ UNCHANGED vars

Next == \/ RunNothing \/ RunIterations \/ Join \/ LoadStrategySums \/ Stop
        \/ \E w \in Worker : WorkerStep(w)

Spec == Init /\ [][Next]_vars

\* The operating system runs every thread that can run; the caller joins.
FairSpec == Spec /\ WF_vars(Join) /\ \A w \in Worker : WF_vars(WorkerStep(w))

-----------------------------------------------------------------------------
(* Properties.  ledger is not part of the program: regrets adds up every    *)
(* regret increment, finished counts traversals, completed is what          *)
(* iterations_run() should say, iterationBase adds up what loads changed in *)
(* iteration, and loaded is the mass the last good load brought, with the   *)
(* visits counted before it.                                                *)

SumOf(table) == SumFunction(table)

Frames == [ node : Decision, step : {"read", "sum", "sample", "child", "regret"},
            i : 1 .. kStride, strategy : Seq(Int), values : Seq(Int),
            storing : BOOLEAN, held : Int ]

\* Type invariant: tables hold integers, activations are frames, counters count.
TypeOK ==
  /\ cumulative_regrets \in [Entry -> Int]
  /\ strategy_sums \in [Entry -> Int]
  /\ iteration \in Int
  /\ contexts \in 0 .. Threads
  /\ visits \in [Worker -> Nat]
  /\ call \in [count : Nat, threads : 0 .. Threads]
  /\ calls \in 0 .. MaxCalls
  /\ todo \in [Worker -> Nat]
  /\ stack \in [Worker -> Seq(Frames)]

\* What the opponent node a worker is at still has to add to the average.
Unsent(w) ==
  IF At(w, "sum")
  THEN SumFunction([k \in Top(w).i .. ActionCount(Top(w)) |-> Top(w).strategy[k]])
  ELSE 0

\* Visits counted in the contexts, opponent_node_visits().
Visited == SumFunction([w \in 0 .. contexts - 1 |-> visits[w]])

\* Strategy mass is conserved at every moment: what the table gained since the
\* last good load and what is still on its way is one unit for every visit
\* counted since.  While nothing was loaded that is the check of
\* report_checkpoint, that no update was lost.
MassConserved ==
  SumOf(strategy_sums) + SumFunction([w \in Worker |-> Unsent(w)]) - ledger.loaded.mass
    = Unit * (Visited - ledger.loaded.visits)

\* "Each opponent-node visit adds one distribution that sums to 1, so this
\* equals opponent_node_visits" (mccfr_solver.hpp:93-94, on strategy_mass).
MassMatchesVisits == call = Idle => SumOf(strategy_sums) = Unit * Visited

\* No regret update is lost either, which nothing in the program checks.
RegretsKept == cumulative_regrets = ledger.regrets

\* While a worker is between the load and the store of an addition, nobody else
\* is in a traversal: the cheap path is only taken alone.
SplitAdditionAlone ==
  \A w \in Worker :
    Active(w) /\ Top(w).storing => \A v \in Worker \ {w} : ~Active(v)

\* The assert on weighted_residual: the strategy that weights the regrets is the
\* one that weighted the node value, whatever other threads did to the row.
ResidualZero ==
  \A w \in Worker :
    At(w, "regret") =>
      LET frame == Top(w)
      IN  SumFunction([k \in 1 .. ActionCount(frame) |->
            frame.strategy[k] * (frame.values[k] - NodeValue(frame))]) = 0

\* A row with fewer actions than kStride never writes its trailing entries.
TrailingZero ==
  \A n \in Decision : \A k \in Len(Child[n]) + 1 .. kStride :
    cumulative_regrets[<<Row[n], k>>] = 0 /\ strategy_sums[<<Row[n], k>>] = 0

\* At rest, each player has been the traverser once for every iteration counted
\* since the last load, whatever the thread counts of the calls were.
IterationsExact ==
  call = Idle =>
    /\ \A w \in Worker : ~Active(w)
    /\ \A p \in Player : ledger.finished[p] = iteration - ledger.iterationBase

\* "Iterations completed, including any loaded from a checkpoint"
\* (mccfr_solver.hpp:90, on iterations_run).
IterationsRunAsDocumented == call = Idle => iteration = ledger.completed

\* A call comes back: nobody waits for a lock, so nobody waits for ever.
RunsReturn == call # Idle ~> call = Idle
=============================================================================
