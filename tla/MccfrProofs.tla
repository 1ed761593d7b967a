---------------------------- MODULE MccfrProofs ----------------------------
(***************************************************************************)
(* The solver, for every tree, every number of threads and every sequence  *)
(* of calls.  First the shared tables: the cheap addition by load and      *)
(* store is only taken alone, no regret update is lost, and the entries    *)
(* past a row's actions stay zero.  Then the values the activations hold:  *)
(* their types, and that one entry of a row gains in regret what the       *)
(* others lose.  Then what the calls owe: every iteration asked for is     *)
(* run, neither more nor fewer.  Last the sums: the average holds one unit *)
(* for every opponent node visited.                                        *)
(***************************************************************************)
EXTENDS Mccfr, SequenceTheorems, SumTheorems, TLAPS

-----------------------------------------------------------------------------
(* Stacks of activations *)

\* The fields of an activation.
IsFrame(f) ==
  f = [node |-> f.node, step |-> f.step, i |-> f.i, strategy |-> f.strategy,
       values |-> f.values, storing |-> f.storing, held |-> f.held]

\* What they hold.  A half-done addition belongs to a step
\* that adds.
FrameOK(f) ==
  /\ IsFrame(f)
  /\ f.node \in Decision
  /\ f.i \in 1 .. Len(Child[f.node])
  /\ f.storing \in BOOLEAN
  /\ f.storing => f.step \in {"sum", "regret"}

\* A stack of activations, of which only the innermost may be half way
\* through an addition.
Sound(s) ==
  /\ \E S : s \in Seq(S)
  /\ \A j \in 1 .. Len(s) : FrameOK(s[j]) /\ (s[j].storing => j = Len(s))

\* All but the last element of a sequence.
LEMMA Front ==
  ASSUME NEW S, NEW s \in Seq(S), s # << >>
  PROVE  LET b == SubSeq(s, 1, Len(s) - 1)
         IN  /\ Len(s) \in Nat \ {0}
             /\ b \in Seq(S) /\ Len(b) = Len(s) - 1
             /\ \A j \in 1 .. Len(s) - 1 : b[j] = s[j]
<1>1. Len(s) \in Nat \ {0}
  BY EmptySeq
<1>2. \A j \in 1 .. Len(s) - 1 : s[j] \in S
  BY <1>1, ElementOfSeq
<1> DEFINE n == Len(s) - 1
           b == SubSeq(s, 1, n)
<1>3. n \in Nat /\ n + 1 = Len(s)
  BY <1>1
<1>4. \A i \in 1 .. n : s[i] \in S
  BY <1>2
<1> HIDE DEF n
<1>5. /\ b \in Seq(S) /\ Len(b) = IF 1 <= n THEN n - 1 + 1 ELSE 0
      /\ \A i \in 1 .. n - 1 + 1 : b[i] = s[1 + i - 1]
  BY <1>3, <1>4, SubSeqProperties
<1>6. Len(b) = n /\ \A i \in 1 .. n : b[i] = s[i]
  BY <1>3, <1>5
<1> QED
  BY <1>1, <1>5, <1>6 DEF n

\* The innermost activation is replaced.
LEMMA Replace ==
  ASSUME NEW s, Sound(s), s # << >>, NEW f, FrameOK(f)
  PROVE  LET t == Append(SubSeq(s, 1, Len(s) - 1), f)
         IN  /\ Sound(t) /\ Len(t) = Len(s) /\ t # << >> /\ t[Len(t)] = f
             /\ \A j \in 1 .. Len(s) - 1 : t[j] = s[j]
<1> DEFINE b == SubSeq(s, 1, Len(s) - 1)
           t == Append(b, f)
<1>1. PICK S : s \in Seq(S)
  BY DEF Sound
<1>2. Len(s) \in Nat /\ Len(s) > 0
  BY <1>1, Front
<1>3. b \in Seq(S) /\ Len(b) = Len(s) - 1 /\ \A j \in 1 .. Len(s) - 1 : b[j] = s[j]
  BY <1>1, Front
<1> HIDE DEF b
<1>4. b \in Seq(S \cup {f})
  BY <1>3
<1>5. /\ t \in Seq(S \cup {f}) /\ Len(t) = Len(s) /\ t[Len(s)] = f
      /\ \A j \in 1 .. Len(s) - 1 : t[j] = s[j]
  BY <1>2, <1>3, <1>4
<1> HIDE DEF t
<1>6. ASSUME NEW j \in 1 .. Len(t)
      PROVE  FrameOK(t[j]) /\ (t[j].storing => j = Len(t))
  <2>1. CASE j = Len(s)
    BY <1>5, <2>1
  <2>2. CASE j # Len(s)
    <3>1. j \in 1 .. Len(s) - 1
      BY <1>2, <1>5, <2>2
    <3>2. t[j] = s[j] /\ FrameOK(s[j]) /\ (s[j].storing => j = Len(s))
      BY <1>2, <1>5, <3>1 DEF Sound
    <3> QED
      BY <2>2, <3>2
  <2> QED
    BY <2>1, <2>2
<1>7. t # << >>
  BY <1>2, <1>5
<1>8. Sound(t)
  BY <1>5, <1>6 DEF Sound
<1> QED
  BY <1>5, <1>7, <1>8 DEF b, t

\* An activation begins while the one that calls it is not adding.
LEMMA Push ==
  ASSUME NEW s, Sound(s), s # << >> => ~s[Len(s)].storing, NEW f, FrameOK(f)
  PROVE  LET t == Append(s, f)
         IN  /\ Sound(t) /\ Len(t) = Len(s) + 1 /\ t # << >> /\ t[Len(t)] = f
             /\ \A j \in 1 .. Len(s) : t[j] = s[j]
<1> DEFINE t == Append(s, f)
<1>1. PICK S : s \in Seq(S)
  BY DEF Sound
<1>2. Len(s) \in Nat
  BY <1>1
<1>3. s \in Seq(S \cup {f})
  BY <1>1
<1>4. /\ t \in Seq(S \cup {f}) /\ Len(t) = Len(s) + 1 /\ t[Len(s) + 1] = f
      /\ \A j \in 1 .. Len(s) : t[j] = s[j]
  BY <1>2, <1>3
<1> HIDE DEF t
<1>5. ASSUME NEW j \in 1 .. Len(t)
      PROVE  FrameOK(t[j]) /\ (t[j].storing => j = Len(t))
  <2>1. CASE j = Len(s) + 1
    BY <1>4, <2>1
  <2>2. CASE j # Len(s) + 1
    <3>1. j \in 1 .. Len(s)
      BY <1>2, <1>4, <2>2
    <3>2. t[j] = s[j] /\ FrameOK(s[j]) /\ (s[j].storing => j = Len(s))
      BY <1>4, <3>1 DEF Sound
    <3>3. s # << >>
      BY <1>2, <3>1
    <3>4. ~s[j].storing
      BY <3>2, <3>3
    <3> QED
      BY <3>2, <3>4
  <2> QED
    BY <2>1, <2>2
<1>6. t # << >>
  BY <1>2, <1>4
<1>7. Sound(t)
  BY <1>4, <1>5 DEF Sound
<1> QED
  BY <1>4, <1>6, <1>7 DEF t

\* The innermost activation is taken off: the one that called it is not adding.
LEMMA Caller ==
  ASSUME NEW s, Sound(s), s # << >>, Len(s) # 1
  PROVE  LET b == SubSeq(s, 1, Len(s) - 1)
         IN  /\ FrameOK(b[Len(s) - 1]) /\ ~b[Len(s) - 1].storing
             /\ b[Len(s) - 1] = s[Len(s) - 1] /\ Len(s) - 1 \in 1 .. Len(s)
<1>1. PICK S : s \in Seq(S)
  BY DEF Sound
<1>2. Len(s) \in Nat \ {0}
  BY <1>1, Front
<1>3. Len(s) - 1 \in 1 .. Len(s) - 1 /\ Len(s) - 1 \in 1 .. Len(s) /\ Len(s) - 1 # Len(s)
  BY <1>2
<1>4. SubSeq(s, 1, Len(s) - 1)[Len(s) - 1] = s[Len(s) - 1]
  BY <1>1, <1>3, Front
<1>5. FrameOK(s[Len(s) - 1]) /\ ~s[Len(s) - 1].storing
  BY <1>3 DEF Sound
<1> QED
  BY <1>3, <1>4, <1>5

\* It goes on where it was.
LEMMA Pop ==
  ASSUME NEW s, Sound(s), s # << >>, Len(s) # 1, NEW f, FrameOK(f)
  PROVE  LET t == [SubSeq(s, 1, Len(s) - 1) EXCEPT ![Len(s) - 1] = f]
         IN  /\ Sound(t) /\ Len(t) = Len(s) - 1 /\ t # << >> /\ t[Len(t)] = f
             /\ \A j \in 1 .. Len(s) - 1 : j # Len(s) - 1 => t[j] = s[j]
<1> DEFINE b == SubSeq(s, 1, Len(s) - 1)
           t == [b EXCEPT ![Len(s) - 1] = f]
<1>1. PICK S : s \in Seq(S)
  BY DEF Sound
<1>2. Len(s) \in Nat \ {0}
  BY <1>1, Front
<1>3. b \in Seq(S) /\ Len(b) = Len(s) - 1 /\ \A j \in 1 .. Len(s) - 1 : b[j] = s[j]
  BY <1>1, Front
<1> HIDE DEF b
<1>4. b \in Seq(S \cup {f}) /\ Len(s) - 1 \in 1 .. Len(b)
  BY <1>2, <1>3
<1>5. /\ t \in Seq(S \cup {f}) /\ Len(t) = Len(s) - 1 /\ t[Len(s) - 1] = f
      /\ \A j \in 1 .. Len(s) - 1 : j # Len(s) - 1 => t[j] = s[j]
  BY <1>3, <1>4, ExceptSeq
<1> HIDE DEF t
<1>6. ASSUME NEW j \in 1 .. Len(t)
      PROVE  FrameOK(t[j]) /\ (t[j].storing => j = Len(t))
  <2>1. CASE j = Len(s) - 1
    BY <1>5, <2>1
  <2>2. CASE j # Len(s) - 1
    <3>1. t[j] = s[j] /\ j \in 1 .. Len(s) /\ j # Len(s)
      BY <1>2, <1>5, <2>2
    <3>2. FrameOK(s[j]) /\ (s[j].storing => j = Len(s))
      BY <3>1 DEF Sound
    <3> QED
      BY <3>1, <3>2
  <2> QED
    BY <2>1, <2>2
<1>7. t # << >>
  BY <1>2, <1>5
<1>8. Sound(t)
  BY <1>5, <1>6 DEF Sound
<1> QED
  BY <1>5, <1>7, <1>8 DEF b, t

\* The outermost activation begins.
LEMMA Begin ==
  ASSUME NEW f, FrameOK(f), ~f.storing
  PROVE  Sound(<<f>>) /\ Len(<<f>>) = 1 /\ <<f>>[1] = f
<1>1. <<f>> \in Seq({f}) /\ Len(<<f>>) = 1 /\ <<f>>[1] = f
  OBVIOUS
<1>2. \A j \in 1 .. Len(<<f>>) : <<f>>[j] = f
  BY <1>1
<1> QED
  BY <1>1, <1>2 DEF Sound

-----------------------------------------------------------------------------
(* Steps of an activation *)

\* Setting a field leaves the others as they are.
LEMMA SetStep ==
  ASSUME NEW f, IsFrame(f), NEW value
  PROVE  LET g == [f EXCEPT !.step = value]
         IN  /\ IsFrame(g) /\ g.step = value
             /\ g.node = f.node /\ g.i = f.i /\ g.strategy = f.strategy
             /\ g.values = f.values /\ g.storing = f.storing /\ g.held = f.held
  BY DEF IsFrame

LEMMA SetI ==
  ASSUME NEW f, IsFrame(f), NEW value
  PROVE  LET g == [f EXCEPT !.i = value]
         IN  /\ IsFrame(g) /\ g.i = value
             /\ g.node = f.node /\ g.step = f.step /\ g.strategy = f.strategy
             /\ g.values = f.values /\ g.storing = f.storing /\ g.held = f.held
  BY DEF IsFrame

LEMMA SetStrategy ==
  ASSUME NEW f, IsFrame(f), NEW value
  PROVE  LET g == [f EXCEPT !.strategy = value]
         IN  /\ IsFrame(g) /\ g.strategy = value
             /\ g.node = f.node /\ g.step = f.step /\ g.i = f.i
             /\ g.values = f.values /\ g.storing = f.storing /\ g.held = f.held
  BY DEF IsFrame

LEMMA SetValues ==
  ASSUME NEW f, IsFrame(f), NEW value
  PROVE  LET g == [f EXCEPT !.values = value]
         IN  /\ IsFrame(g) /\ g.values = value
             /\ g.node = f.node /\ g.step = f.step /\ g.i = f.i
             /\ g.strategy = f.strategy /\ g.storing = f.storing /\ g.held = f.held
  BY DEF IsFrame

LEMMA SetStoring ==
  ASSUME NEW f, IsFrame(f), NEW value
  PROVE  LET g == [f EXCEPT !.storing = value]
         IN  /\ IsFrame(g) /\ g.storing = value
             /\ g.node = f.node /\ g.step = f.step /\ g.i = f.i
             /\ g.strategy = f.strategy /\ g.values = f.values /\ g.held = f.held
  BY DEF IsFrame

LEMMA SetHeld ==
  ASSUME NEW f, IsFrame(f), NEW value
  PROVE  LET g == [f EXCEPT !.held = value]
         IN  /\ IsFrame(g) /\ g.held = value
             /\ g.node = f.node /\ g.step = f.step /\ g.i = f.i
             /\ g.strategy = f.strategy /\ g.values = f.values /\ g.storing = f.storing
  BY DEF IsFrame

\* An activation starts at the first action of its node.
LEMMA FrameStarts ==
  ASSUME NEW n \in Decision
  PROVE  FrameOK(Frame(n)) /\ ~Frame(n).storing
<1> DEFINE f == Frame(n)
<1>1. 1 \in 1 .. Len(Child[n])
  BY TreeAssumption
<1>2. IsFrame(f) /\ f.node = n /\ f.i = 1 /\ f.storing = FALSE
  BY DEF Frame, IsFrame
<1> HIDE DEF f
<1>3. FrameOK(f) /\ ~f.storing
  BY <1>1, <1>2 DEF FrameOK
<1> QED
  BY <1>3 DEF f

\* It goes from action to action and from step to step.
LEMMA NextActionOK ==
  ASSUME NEW f, FrameOK(f), ~f.storing, NEW step
  PROVE  FrameOK(NextAction(f, step)) /\ ~NextAction(f, step).storing
<1>1. IsFrame(f) /\ f.node \in Decision /\ f.i \in 1 .. Len(Child[f.node])
  BY DEF FrameOK
<1>2. Len(Child[f.node]) \in Nat \ {0}
  BY <1>1, TreeAssumption
<1>3. CASE f.i < ActionCount(f)
  <2> DEFINE next == f.i + 1
             g == [f EXCEPT !.i = next]
  <2>1. next \in 1 .. Len(Child[f.node])
    BY <1>1, <1>2, <1>3 DEF ActionCount
  <2>2. NextAction(f, step) = g
    BY <1>3 DEF NextAction
  <2> HIDE DEF next
  <2>3. IsFrame(g) /\ g.i = next /\ g.node = f.node /\ g.storing = f.storing
    BY <1>1, SetI
  <2> HIDE DEF g
  <2> QED
    BY <1>1, <2>1, <2>2, <2>3 DEF FrameOK
<1>4. CASE ~(f.i < ActionCount(f))
  <2> DEFINE g == [f EXCEPT !.i = 1]
             h == [g EXCEPT !.step = step]
  <2>1. NextAction(f, step) = h
    BY <1>4 DEF NextAction
  <2>2. 1 \in 1 .. Len(Child[f.node])
    BY <1>2
  <2>3. IsFrame(g) /\ g.i = 1 /\ g.node = f.node /\ g.storing = f.storing
    BY <1>1, SetI
  <2> HIDE DEF g
  <2>4. IsFrame(h) /\ h.i = g.i /\ h.node = g.node /\ h.storing = g.storing
    BY <2>3, SetStep
  <2> HIDE DEF h
  <2> QED
    BY <1>1, <2>1, <2>2, <2>3, <2>4 DEF FrameOK
<1> QED
  BY <1>3, <1>4

\* What it reads and tries keeps its place.
LEMMA ReadOK ==
  ASSUME NEW f, FrameOK(f), ~f.storing, NEW value
  PROVE  LET g == [f EXCEPT !.strategy = value]
         IN  FrameOK(g) /\ ~g.storing
<1> DEFINE g == [f EXCEPT !.strategy = value]
<1>1. IsFrame(g) /\ g.i = f.i /\ g.node = f.node /\ g.storing = f.storing
  BY SetStrategy DEF FrameOK
<1> HIDE DEF g
<1>2. FrameOK(g) /\ ~g.storing
  BY <1>1 DEF FrameOK
<1> QED
  BY <1>2 DEF g

LEMMA WithValueOK ==
  ASSUME NEW f, FrameOK(f), ~f.storing, NEW value
  PROVE  FrameOK(WithValue(f, value)) /\ ~WithValue(f, value).storing
<1> DEFINE values == Append(f.values, value)
           g == [f EXCEPT !.values = values]
<1>1. WithValue(f, value) = NextAction(g, "regret")
  BY DEF WithValue
<1> HIDE DEF values
<1>2. IsFrame(g) /\ g.i = f.i /\ g.node = f.node /\ g.storing = f.storing
  BY SetValues DEF FrameOK
<1> HIDE DEF g
<1>3. FrameOK(g) /\ ~g.storing
  BY <1>2 DEF FrameOK
<1> QED
  BY <1>1, <1>3, NextActionOK

\* An addition that is split holds what it loaded, and is over when stored.
LEMMA LoadOK ==
  ASSUME NEW f, FrameOK(f), f.step \in {"sum", "regret"}, NEW value
  PROVE  LET g == [f EXCEPT !.storing = TRUE, !.held = value]
         IN  /\ FrameOK(g) /\ g.step = f.step /\ g.held = value
             /\ g.node = f.node /\ g.i = f.i
<1> DEFINE on == TRUE
           g == [f EXCEPT !.storing = on]
           h == [g EXCEPT !.held = value]
<1>1. on \in BOOLEAN /\ h = [f EXCEPT !.storing = TRUE, !.held = value]
  OBVIOUS
<1> HIDE DEF on
<1>2. IsFrame(g) /\ g.storing = on /\ g.i = f.i /\ g.node = f.node /\ g.step = f.step
  BY SetStoring DEF FrameOK
<1> HIDE DEF g
<1>3. /\ IsFrame(h) /\ h.held = value
      /\ h.storing = g.storing /\ h.i = g.i /\ h.node = g.node /\ h.step = g.step
  BY <1>2, SetHeld
<1> HIDE DEF h
<1>4. FrameOK(h) /\ h.step = f.step /\ h.held = value /\ h.node = f.node /\ h.i = f.i
  BY <1>1, <1>2, <1>3 DEF FrameOK
<1> QED
  BY <1>1, <1>4

LEMMA StoredOK ==
  ASSUME NEW f, FrameOK(f)
  PROVE  FrameOK(Stored(f)) /\ ~Stored(f).storing
<1> DEFINE off == FALSE
           g == [f EXCEPT !.storing = off]
           h == [g EXCEPT !.held = 0]
<1>1. off \in BOOLEAN /\ ~off /\ Stored(f) = h
  BY DEF Stored
<1> HIDE DEF off
<1>2. IsFrame(g) /\ g.storing = off /\ g.i = f.i /\ g.node = f.node
  BY SetStoring DEF FrameOK
<1> HIDE DEF g
<1>3. IsFrame(h) /\ h.storing = g.storing /\ h.i = g.i /\ h.node = g.node
  BY <1>2, SetHeld
<1> HIDE DEF h
<1> QED
  BY <1>1, <1>2, <1>3 DEF FrameOK

-----------------------------------------------------------------------------
(* The invariant *)

\* The fields of the ledger; setting one leaves the others as they are.
IsLedger(l) ==
  l = [regrets |-> l.regrets, finished |-> l.finished, completed |-> l.completed,
       iterationBase |-> l.iterationBase, loaded |-> l.loaded]

LEMMA SetRegrets ==
  ASSUME NEW l, IsLedger(l), NEW value
  PROVE  LET m == [l EXCEPT !.regrets = value]
         IN  /\ IsLedger(m) /\ m.regrets = value
             /\ m.finished = l.finished /\ m.completed = l.completed
             /\ m.iterationBase = l.iterationBase /\ m.loaded = l.loaded
  BY DEF IsLedger

LEMMA SetFinished ==
  ASSUME NEW l, IsLedger(l), NEW value
  PROVE  LET m == [l EXCEPT !.finished = value]
         IN  /\ IsLedger(m) /\ m.finished = value
             /\ m.regrets = l.regrets /\ m.completed = l.completed
             /\ m.iterationBase = l.iterationBase /\ m.loaded = l.loaded
  BY DEF IsLedger

LEMMA SetCompleted ==
  ASSUME NEW l, IsLedger(l), NEW value
  PROVE  LET m == [l EXCEPT !.completed = value]
         IN  /\ IsLedger(m) /\ m.completed = value
             /\ m.regrets = l.regrets /\ m.finished = l.finished
             /\ m.iterationBase = l.iterationBase /\ m.loaded = l.loaded
  BY DEF IsLedger

LEMMA SetIterationBase ==
  ASSUME NEW l, IsLedger(l), NEW value
  PROVE  LET m == [l EXCEPT !.iterationBase = value]
         IN  /\ IsLedger(m) /\ m.iterationBase = value
             /\ m.regrets = l.regrets /\ m.finished = l.finished
             /\ m.completed = l.completed /\ m.loaded = l.loaded
  BY DEF IsLedger

LEMMA SetLoaded ==
  ASSUME NEW l, IsLedger(l), NEW value
  PROVE  LET m == [l EXCEPT !.loaded = value]
         IN  /\ IsLedger(m) /\ m.loaded = value
             /\ m.regrets = l.regrets /\ m.finished = l.finished
             /\ m.completed = l.completed /\ m.iterationBase = l.iterationBase
  BY DEF IsLedger

\* Tables and ledger are what they are declared to be; stacks are sound.
Shape ==
  /\ cumulative_regrets = [e \in Entry |-> cumulative_regrets[e]]
  /\ strategy_sums = [e \in Entry |-> strategy_sums[e]]
  /\ IsLedger(ledger)
  /\ todo \in [Worker -> Nat]
  /\ stack = [w \in Worker |-> stack[w]]
  /\ \A w \in Worker : Sound(stack[w])

\* A worker is in a traversal only for an iteration it owes, nobody owes one
\* between calls, and in a call of one thread only the first worker does.
Owed ==
  /\ \A w \in Worker : Active(w) => todo[w] > 0
  /\ call = Idle => \A w \in Worker : todo[w] = 0
  /\ ~Concurrent => \A w \in Worker \ {0} : todo[w] = 0

\* Only calls of one thread split an addition, and what was loaded for it is
\* still what the table holds.
Held ==
  \A w \in Worker : Active(w) /\ Top(w).storing =>
    /\ ~Concurrent
    /\ At(w, "regret") => Top(w).held = cumulative_regrets[EntryOf(Top(w))]

IInv == Shape /\ Owed /\ Held

\* The cheap addition is taken alone: a worker in the middle of one is the
\* only worker the call has work for.
LEMMA StoringAlone == ASSUME Owed, Held PROVE SplitAdditionAlone
<1> SUFFICES ASSUME NEW w \in Worker, Active(w), Top(w).storing,
                    NEW v \in Worker \ {w}, Active(v)
             PROVE  FALSE
  BY DEF SplitAdditionAlone
<1>1. ~Concurrent
  BY DEF Held
<1>2. todo[w] > 0 /\ todo[v] > 0
  BY DEF Owed
<1>3. w # 0 => todo[w] = 0
  BY <1>1 DEF Owed
<1>4. v # 0 => todo[v] = 0
  BY <1>1 DEF Owed
<1> QED
  BY <1>2, <1>3, <1>4

\* A step of worker w changes w's stack and what w owes, nobody else's.
Moved(w) ==
  /\ stack' = [stack EXCEPT ![w] = stack'[w]]
  /\ todo' = [todo EXCEPT ![w] = todo'[w]]
  /\ Sound(stack'[w])
  /\ todo'[w] \in Nat /\ todo'[w] <= todo[w]
  /\ stack'[w] # << >> => todo'[w] > 0

\* It leaves no addition half done.
Quiet(s) == s # << >> => ~s[Len(s)].storing

\* The innermost activation of a worker.
LEMMA TopIs ==
  ASSUME Shape, NEW w \in Worker, Active(w)
  PROVE  /\ FrameOK(Top(w)) /\ Top(w) = stack[w][Len(stack[w])]
         /\ Len(stack[w]) \in Nat \ {0}
<1>1. Sound(stack[w]) /\ stack[w] # << >>
  BY DEF Shape, Active
<1>2. PICK S : stack[w] \in Seq(S)
  BY <1>1 DEF Sound
<1>3. Len(stack[w]) \in Nat \ {0}
  BY <1>1, <1>2, EmptySeq
<1>4. Len(stack[w]) \in 1 .. Len(stack[w])
  BY <1>3
<1> QED
  BY <1>1, <1>3, <1>4 DEF Sound, Top

\* Going on in the same activation.
LEMMA GotoMoves ==
  ASSUME Shape, Owed, NEW w \in Worker, Active(w), NEW f, FrameOK(f),
         Goto(w, f), UNCHANGED todo
  PROVE  Moved(w) /\ stack'[w] # << >> /\ stack'[w][Len(stack'[w])] = f
<1> DEFINE t == Append(SubSeq(stack[w], 1, Len(stack[w]) - 1), f)
<1>1. Sound(stack[w]) /\ stack[w] # << >>
  BY DEF Shape, Active
<1>2. Sound(t) /\ t # << >> /\ t[Len(t)] = f
  BY <1>1, Replace
<1>3. stack' = [stack EXCEPT ![w] = t]
  BY DEF Goto, Below
<1>4. stack'[w] = t
  BY <1>3 DEF Shape
<1> HIDE DEF t
<1> QED
  BY <1>2, <1>3, <1>4 DEF Moved, Shape, Owed

\* A new activation begins at a child.
LEMMA CallMoves ==
  ASSUME Shape, Owed, NEW w \in Worker, Active(w), ~Top(w).storing,
         NEW n \in Decision, stack' = [stack EXCEPT ![w] = Append(@, Frame(n))],
         UNCHANGED todo
  PROVE  Moved(w) /\ Quiet(stack'[w])
<1> DEFINE t == Append(stack[w], Frame(n))
<1>1. Sound(stack[w]) /\ ~stack[w][Len(stack[w])].storing
  BY DEF Shape, Top
<1>2. FrameOK(Frame(n)) /\ ~Frame(n).storing
  BY FrameStarts
<1>3. Sound(t) /\ t # << >> /\ t[Len(t)] = Frame(n)
  BY <1>1, <1>2, Push
<1>4. stack'[w] = t /\ stack' = [stack EXCEPT ![w] = t]
  BY DEF Shape
<1>5. todo'[w] \in Nat /\ todo'[w] > 0 /\ todo' = [todo EXCEPT ![w] = todo'[w]]
  BY DEF Shape, Owed
<1>6. Moved(w)
  <2>1. stack' = [stack EXCEPT ![w] = stack'[w]]
    BY <1>4
  <2>2. Sound(stack'[w])
    BY <1>3, <1>4
  <2>3. todo'[w] <= todo[w]
    BY DEF Shape
  <2> QED
    BY <1>5, <2>1, <2>2, <2>3 DEF Moved
<1>7. Quiet(stack'[w])
  <2> HIDE DEF t
  <2> QED
    BY <1>2, <1>3, <1>4 DEF Quiet
<1> QED
  BY <1>6, <1>7

\* An activation returns, to the one that called it or out of the traversal.
LEMMA ReturnMoves ==
  ASSUME Shape, Owed, NEW w \in Worker, Active(w), NEW value, NEW owed,
         ReturnWith(w, value, owed)
  PROVE  /\ Moved(w) /\ Quiet(stack'[w])
         /\ ledger' = owed \/ ledger' = [owed EXCEPT !.finished[Traverser(w)] = @ + 1]
<1>1. Sound(stack[w]) /\ stack[w] # << >> /\ todo[w] \in Nat \ {0}
  BY DEF Shape, Active, Owed
<1>2. CASE Len(stack[w]) = 1
  <2>1. /\ stack' = [stack EXCEPT ![w] = << >>]
        /\ todo' = [todo EXCEPT ![w] = @ - 1]
        /\ ledger' = [owed EXCEPT !.finished[Traverser(w)] = @ + 1]
    BY <1>2 DEF ReturnWith
  <2>2. stack'[w] = << >> /\ todo'[w] = todo[w] - 1
    BY <2>1 DEF Shape
  <2>3. Sound(<< >>)
    <3>1. << >> \in Seq({}) /\ Len(<< >>) = 0
      OBVIOUS
    <3> QED
      BY <3>1 DEF Sound
  <2>4. stack' = [stack EXCEPT ![w] = stack'[w]] /\ Sound(stack'[w])
    BY <2>1, <2>2, <2>3
  <2>5. todo' = [todo EXCEPT ![w] = todo'[w]] /\ todo'[w] \in Nat /\ todo'[w] <= todo[w]
    <3> DEFINE left == todo[w] - 1
    <3>1. todo' = [todo EXCEPT ![w] = left] /\ todo'[w] = left
      BY <2>1, <2>2
    <3>2. left \in Nat /\ left <= todo[w]
      BY <1>1
    <3> HIDE DEF left
    <3> QED
      BY <3>1, <3>2
  <2>6. Moved(w) /\ Quiet(stack'[w])
    BY <2>2, <2>4, <2>5 DEF Moved, Quiet
  <2> QED
    BY <2>1, <2>6
<1>3. CASE Len(stack[w]) # 1
  <2> DEFINE b == SubSeq(stack[w], 1, Len(stack[w]) - 1)
             f == WithValue(b[Len(stack[w]) - 1], value)
             t == [b EXCEPT ![Len(stack[w]) - 1] = f]
  <2>1. stack' = [stack EXCEPT ![w] = t] /\ ledger' = owed /\ todo' = todo
    BY <1>3 DEF ReturnWith, Below
  <2>2. stack'[w] = t
    BY <2>1 DEF Shape
  <2>3. FrameOK(b[Len(stack[w]) - 1]) /\ ~b[Len(stack[w]) - 1].storing
    BY <1>1, <1>3, Caller
  <2>4. FrameOK(f) /\ ~f.storing
    <3> HIDE DEF b
    <3> QED
      BY <2>3, WithValueOK
  <2> HIDE DEF f
  <2>5. Sound(t) /\ t # << >> /\ t[Len(t)] = f
    BY <1>1, <1>3, <2>4, Pop
  <2> HIDE DEF t
  <2> QED
    BY <1>1, <2>1, <2>2, <2>4, <2>5 DEF Moved, Quiet, Shape
<1> QED
  BY <1>2, <1>3

-----------------------------------------------------------------------------
(* Every step of a worker *)

\* The steps of a worker but one leave no addition half done; that one loads
\* the entry it will add to, and is taken in calls of one thread.
Loaded(w) ==
  /\ ~Concurrent
  /\ LET top == stack'[w][Len(stack'[w])]
         table == IF top.step = "sum" THEN strategy_sums ELSE cumulative_regrets
     IN  top.step \in {"sum", "regret"} /\ top.held = table[EntryOf(top)]

LEMMA StartMoves ==
  ASSUME IInv, NEW w \in Worker, StartTraversal(w)
  PROVE  Moved(w) /\ Quiet(stack'[w])
<1>1. PICK n \in Landing[Root] : stack' = [stack EXCEPT ![w] = <<Frame(n)>>]
  BY DEF StartTraversal
<1>2. todo' = todo /\ todo[w] \in Nat /\ todo[w] > 0
  BY DEF StartTraversal, IInv, Shape
<1>3. n \in Decision
  BY LandingAssumption
<1> DEFINE t == <<Frame(n)>>
<1>4. Sound(t) /\ Len(t) = 1 /\ t[1] = Frame(n) /\ ~Frame(n).storing
  BY <1>3, FrameStarts, Begin
<1>5. stack'[w] = t
  BY <1>1 DEF IInv, Shape
<1>6. stack' = [stack EXCEPT ![w] = stack'[w]] /\ Sound(stack'[w])
  BY <1>1, <1>4, <1>5
<1>7. todo' = [todo EXCEPT ![w] = todo'[w]] /\ todo'[w] \in Nat /\ todo'[w] <= todo[w]
  BY <1>2 DEF IInv, Shape
<1>8. Moved(w)
  BY <1>2, <1>6, <1>7 DEF Moved
<1>9. Quiet(stack'[w])
  BY <1>4, <1>5 DEF Quiet
<1> QED
  BY <1>8, <1>9

LEMMA GotoQuiet ==
  ASSUME Shape, Owed, NEW w \in Worker, Active(w), NEW f, FrameOK(f), ~f.storing,
         Goto(w, f), UNCHANGED todo
  PROVE  Moved(w) /\ Quiet(stack'[w])
  BY GotoMoves DEF Quiet

LEMMA ReadMoves ==
  ASSUME IInv, NEW w \in Worker, ReadRegret(w)
  PROVE  Moved(w) /\ Quiet(stack'[w])
<1> DEFINE f == Top(w)
           row == Append(f.strategy, cumulative_regrets[EntryOf(f)])
           matched == IF f.i = ActionCount(f) THEN Matched(row) ELSE row
           read == [f EXCEPT !.strategy = matched]
           step == IF Mover[f.node] # Traverser(w) THEN "sum" ELSE "child"
<1>1. Active(w) /\ f.step = "read" /\ UNCHANGED todo
  BY DEF ReadRegret, At
<1>2. FrameOK(f)
  BY <1>1, TopIs DEF IInv
<1>3. ~f.storing
  BY <1>1, <1>2 DEF FrameOK
<1>4. Goto(w, NextAction(read, step))
  BY DEF ReadRegret
<1> HIDE DEF f, matched, step
<1>5. FrameOK(read) /\ ~read.storing
  BY <1>2, <1>3, ReadOK
<1> HIDE DEF read
<1>6. FrameOK(NextAction(read, step)) /\ ~NextAction(read, step).storing
  BY <1>5, NextActionOK
<1> QED
  BY <1>1, <1>4, <1>6, GotoQuiet DEF IInv

LEMMA LoadMoves ==
  ASSUME IInv, NEW w \in Worker, Load(w)
  PROVE  Moved(w) /\ Loaded(w)
<1> DEFINE f == Top(w)
           table == IF At(w, "sum") THEN strategy_sums ELSE cumulative_regrets
           value == table[EntryOf(f)]
           g == [f EXCEPT !.storing = TRUE, !.held = value]
<1>1. Active(w) /\ f.step \in {"sum", "regret"} /\ UNCHANGED todo /\ ~Concurrent
  BY DEF Load, At
<1>2. FrameOK(f)
  BY <1>1, TopIs DEF IInv
<1>3. Goto(w, g)
  BY DEF Load
<1>4. table = IF f.step = "sum" THEN strategy_sums ELSE cumulative_regrets
  BY <1>1 DEF At
<1> HIDE DEF f, value
<1>5. /\ FrameOK(g) /\ g.step = f.step /\ g.held = value
      /\ g.node = f.node /\ g.i = f.i
  BY <1>1, <1>2, LoadOK
<1> HIDE DEF g
<1>6. Moved(w) /\ stack'[w][Len(stack'[w])] = g
  BY <1>1, <1>3, <1>5, GotoMoves DEF IInv
<1>7. EntryOf(g) = EntryOf(f)
  BY <1>5 DEF EntryOf
<1> HIDE DEF table
<1> QED
  BY <1>1, <1>4, <1>5, <1>6, <1>7 DEF Loaded, value

LEMMA SumMoves ==
  ASSUME IInv, NEW w \in Worker, AddSum(w)
  PROVE  Moved(w) /\ Quiet(stack'[w])
<1>1. Active(w) /\ UNCHANGED todo /\ Goto(w, NextAction(Stored(Top(w)), "sample"))
  BY DEF AddSum, At
<1>2. FrameOK(Top(w))
  BY <1>1, TopIs DEF IInv
<1>3. FrameOK(Stored(Top(w))) /\ ~Stored(Top(w)).storing
  BY <1>2, StoredOK
<1>4. /\ FrameOK(NextAction(Stored(Top(w)), "sample"))
      /\ ~NextAction(Stored(Top(w)), "sample").storing
  BY <1>3, NextActionOK
<1> QED
  BY <1>1, <1>4, GotoQuiet DEF IInv

\* Where a child of a decision lands.
LEMMA LandsOn ==
  ASSUME NEW n \in Decision, NEW k \in 1 .. Len(Child[n]), NEW m \in Landing[Child[n][k]],
         Kind[m] # "terminal"
  PROVE  m \in Decision
<1>1. k \in Actions(n)
  BY DEF Actions
<1>2. m \in Node /\ Kind[m] \in {"terminal", "decision"}
  BY <1>1, LandingAssumption
<1> QED
  BY <1>2 DEF Decision

LEMMA SampleMoves ==
  ASSUME IInv, NEW w \in Worker, Sample(w)
  PROVE  /\ Moved(w) /\ Quiet(stack'[w])
         /\ ledger' = ledger \/ ledger' = [ledger EXCEPT !.finished[Traverser(w)] = @ + 1]
<1>1. Active(w) /\ Top(w).step = "sample"
  BY DEF Sample, At
<1>2. FrameOK(Top(w)) /\ Shape /\ Owed
  BY <1>1, TopIs DEF IInv
<1>3. PICK k \in Samples(Top(w)) : \E n \in Landing[Child[Top(w).node][k]] :
        IF Kind[n] = "terminal" THEN Return(w, Result(n, Traverser(w)))
        ELSE Goto(w, Frame(n)) /\ UNCHANGED <<todo, ledger>>
  BY DEF Sample
<1>4. PICK n \in Landing[Child[Top(w).node][k]] :
        IF Kind[n] = "terminal" THEN Return(w, Result(n, Traverser(w)))
        ELSE Goto(w, Frame(n)) /\ UNCHANGED <<todo, ledger>>
  BY <1>3
<1>5. CASE Kind[n] = "terminal"
  BY <1>1, <1>2, <1>4, <1>5, ReturnMoves DEF Return
<1>6. CASE Kind[n] # "terminal"
  <2>1. n \in Decision
    BY <1>2, <1>6, LandsOn DEF Samples, ActionCount, FrameOK
  <2>2. FrameOK(Frame(n)) /\ ~Frame(n).storing
    BY <2>1, FrameStarts
  <2>3. Goto(w, Frame(n)) /\ todo' = todo /\ ledger' = ledger
    BY <1>4, <1>6
  <2> QED
    BY <1>1, <1>2, <2>2, <2>3, GotoQuiet
<1> QED
  BY <1>5, <1>6

LEMMA TryMoves ==
  ASSUME IInv, NEW w \in Worker, TryChild(w)
  PROVE  Moved(w) /\ Quiet(stack'[w])
<1>1. Active(w) /\ Top(w).step = "child" /\ UNCHANGED todo
  BY DEF TryChild, At
<1>2. FrameOK(Top(w)) /\ Shape /\ Owed
  BY <1>1, TopIs DEF IInv
<1>3. ~Top(w).storing
  BY <1>1, <1>2 DEF FrameOK
<1>4. PICK n \in Landing[Child[Top(w).node][Top(w).i]] :
        IF Kind[n] = "terminal"
        THEN Goto(w, WithValue(Top(w), Result(n, Traverser(w))))
        ELSE stack' = [stack EXCEPT ![w] = Append(@, Frame(n))]
  BY DEF TryChild
<1>5. CASE Kind[n] = "terminal"
  <2> DEFINE f == WithValue(Top(w), Result(n, Traverser(w)))
  <2>1. FrameOK(f) /\ ~f.storing
    BY <1>2, <1>3, WithValueOK
  <2>2. Goto(w, f)
    BY <1>4, <1>5
  <2> HIDE DEF f
  <2> QED
    BY <1>1, <1>2, <2>1, <2>2, GotoQuiet
<1>6. CASE Kind[n] # "terminal"
  <2>1. n \in Decision
    BY <1>2, <1>6, LandsOn DEF FrameOK
  <2>2. stack' = [stack EXCEPT ![w] = Append(@, Frame(n))]
    BY <1>4, <1>6
  <2> QED
    BY <1>1, <1>2, <1>3, <2>1, <2>2, CallMoves
<1> QED
  BY <1>5, <1>6

\* Adding a regret goes on or returns; the ledger owes the same increment.
Increment(w) == Top(w).values[Top(w).i] - NodeValue(Top(w))
LEMMA RegretMoves ==
  ASSUME IInv, NEW w \in Worker, AddRegret(w)
  PROVE  LET owed == [ledger EXCEPT !.regrets[EntryOf(Top(w))] = @ + Increment(w)]
         IN  /\ Moved(w) /\ Quiet(stack'[w])
             /\ cumulative_regrets' = Added(w, cumulative_regrets, Increment(w))
             /\ ledger' = owed \/ ledger' = [owed EXCEPT !.finished[Traverser(w)] = @ + 1]
<1> DEFINE owed == [ledger EXCEPT !.regrets[EntryOf(Top(w))] = @ + Increment(w)]
<1>1. Active(w) /\ cumulative_regrets' = Added(w, cumulative_regrets, Increment(w))
  BY DEF AddRegret, At, Increment
<1>2. FrameOK(Top(w)) /\ Shape /\ Owed
  BY <1>1, TopIs DEF IInv
<1>3. IF Top(w).i < ActionCount(Top(w))
      THEN /\ Goto(w, NextAction(Stored(Top(w)), "regret"))
           /\ ledger' = owed
           /\ UNCHANGED todo
      ELSE ReturnWith(w, NodeValue(Top(w)), owed)
  BY DEF AddRegret, Increment
<1> HIDE DEF owed
<1>4. CASE Top(w).i < ActionCount(Top(w))
  <2>1. FrameOK(Stored(Top(w))) /\ ~Stored(Top(w)).storing
    BY <1>2, StoredOK
  <2>2. /\ FrameOK(NextAction(Stored(Top(w)), "regret"))
        /\ ~NextAction(Stored(Top(w)), "regret").storing
    BY <2>1, NextActionOK
  <2>3. Moved(w) /\ Quiet(stack'[w])
    BY <1>1, <1>2, <1>3, <1>4, <2>2, GotoQuiet
  <2> QED
    BY <1>1, <1>3, <1>4, <2>3 DEF owed
<1>5. CASE ~(Top(w).i < ActionCount(Top(w)))
  <2>1. ReturnWith(w, NodeValue(Top(w)), owed)
    BY <1>3, <1>5
  <2>2. /\ Moved(w) /\ Quiet(stack'[w])
        /\ ledger' = owed \/ ledger' = [owed EXCEPT !.finished[Traverser(w)] = @ + 1]
    BY <1>1, <1>2, <2>1, ReturnMoves
  <2> QED
    BY <1>1, <2>2 DEF owed
<1> QED
  BY <1>4, <1>5

\* Whatever a worker does, it moves only itself.
LEMMA WorkerMoves ==
  ASSUME IInv, NEW w \in Worker, WorkerStep(w)
  PROVE  Moved(w) /\ (Quiet(stack'[w]) \/ Loaded(w)) /\ UNCHANGED call
<1>1. UNCHANGED call
  BY DEF WorkerStep, StartTraversal, ReadRegret, Load, AddSum, Sample, TryChild, AddRegret
<1>2. Moved(w) /\ (Quiet(stack'[w]) \/ Loaded(w))
  BY StartMoves, ReadMoves, LoadMoves, SumMoves, SampleMoves, TryMoves, RegretMoves
     DEF WorkerStep
<1> QED
  BY <1>1, <1>2

\* The others stay where they are.
LEMMA OthersStay ==
  ASSUME Shape, NEW w \in Worker, Moved(w), NEW v \in Worker, v # w
  PROVE  stack'[v] = stack[v] /\ todo'[v] = todo[v]
  BY DEF Shape, Moved

\* So nobody works without owing an iteration.
LEMMA MovesKeepOwed ==
  ASSUME Shape, Owed, NEW w \in Worker, Moved(w), UNCHANGED call
  PROVE  /\ Owed'
         /\ todo' \in [Worker -> Nat]
         /\ stack' = [v \in Worker |-> stack'[v]]
         /\ \A v \in Worker : Sound(stack'[v])
<1>1. todo' \in [Worker -> Nat]
  BY DEF Shape, Moved
<1>2. stack' = [v \in Worker |-> stack'[v]]
  BY DEF Shape, Moved
<1>3. ASSUME NEW v \in Worker
      PROVE  Sound(stack'[v]) /\ (stack'[v] # << >> => todo'[v] > 0)
                              /\ (todo[v] = 0 => todo'[v] = 0)
  <2>1. CASE v = w
    BY <1>1, <2>1 DEF Moved, Shape
  <2>2. CASE v # w
    BY <2>2, OthersStay DEF Shape, Owed, Active
  <2> QED
    BY <2>1, <2>2
<1>4. Owed'
  BY <1>3 DEF Owed, Active, Concurrent
<1> QED
  BY <1>1, <1>2, <1>3, <1>4

\* An addition in progress stays what it is: nobody else is there to disturb it.
LEMMA MovesKeepHeld ==
  ASSUME IInv, NEW w \in Worker, Moved(w), UNCHANGED call,
         UNCHANGED cumulative_regrets \/ Active(w),
         Quiet(stack'[w]) \/ (Loaded(w) /\ UNCHANGED cumulative_regrets)
  PROVE  Held'
<1> SUFFICES ASSUME NEW v \in Worker, Active(v)', Top(v)'.storing
             PROVE  /\ ~Concurrent'
                    /\ At(v, "regret")' =>
                         Top(v)'.held = cumulative_regrets'[EntryOf(Top(v)')]
  BY DEF Held, EntryOf
<1>1. stack'[v] # << >> /\ Top(v)' = stack'[v][Len(stack'[v])]
  BY DEF Active, Top
<1>2. Concurrent' = Concurrent
  BY DEF Concurrent
<1>3. CASE v = w
  <2>1. Loaded(w) /\ UNCHANGED cumulative_regrets
    BY <1>1, <1>3 DEF Quiet
  <2>2. /\ ~Concurrent
        /\ Top(v)'.step # "sum" => Top(v)'.held = cumulative_regrets[EntryOf(Top(v)')]
    BY <1>1, <1>3, <2>1 DEF Loaded
  <2>3. At(v, "regret")' => Top(v)'.step = "regret"
    BY DEF At
  <2> QED
    BY <1>2, <2>1, <2>2, <2>3
<1>4. CASE v # w
  <2>1. stack'[v] = stack[v]
    BY <1>4, OthersStay DEF IInv
  <2>2. Active(v) /\ Top(v) = Top(v)' /\ (At(v, "regret")' => At(v, "regret"))
    BY <2>1 DEF Active, Top, At
  <2>3. /\ ~Concurrent
        /\ At(v, "regret") => Top(v).held = cumulative_regrets[EntryOf(Top(v))]
    BY <2>2 DEF IInv, Held
  <2>4. ~Active(w)
    BY <1>4, <2>2, StoringAlone DEF IInv, SplitAdditionAlone
  <2> QED
    BY <1>2, <2>2, <2>3, <2>4
<1> QED
  BY <1>3, <1>4

\* The tables after an addition.
LEMMA AddedTable ==
  ASSUME NEW w \in Worker, NEW table, table = [e \in Entry |-> table[e]], NEW increment
  PROVE  LET sum == Added(w, table, increment)
         IN  /\ sum = [e \in Entry |-> sum[e]]
             /\ \A e \in Entry : e # EntryOf(Top(w)) => sum[e] = table[e]
  BY DEF Added

\* No regret update is lost: the addition of one worker is the one the ledger
\* makes, whatever path it takes.
LEMMA RegretKept ==
  ASSUME IInv, RegretsKept, NEW w \in Worker, AddRegret(w)
  PROVE  RegretsKept' /\ IsLedger(ledger')
<1> DEFINE e == EntryOf(Top(w))
           sums == [ledger.regrets EXCEPT ![e] = @ + Increment(w)]
           owed == [ledger EXCEPT !.regrets = sums]
           finished == [owed.finished EXCEPT ![Traverser(w)] = @ + 1]
           closed == [owed EXCEPT !.finished = finished]
<1>1. /\ cumulative_regrets' = Added(w, cumulative_regrets, Increment(w))
      /\ ledger' = owed \/ ledger' = closed
  BY RegretMoves
<1>2. IsLedger(ledger)
  BY DEF IInv, Shape
<1>3. Concurrent \/ Top(w).held = cumulative_regrets[e]
  <2>1. At(w, "regret") /\ Active(w) /\ (Concurrent \/ Top(w).storing)
    BY DEF AddRegret, At, CanAdd
  <2> QED
    BY <2>1 DEF IInv, Held
<1>4. cumulative_regrets' = sums
  BY <1>1, <1>3 DEF Added, RegretsKept
<1> HIDE DEF sums
<1>5. IsLedger(owed) /\ owed.regrets = sums
  BY <1>2, SetRegrets
<1> HIDE DEF owed, finished
<1>6. IsLedger(closed) /\ closed.regrets = sums
  BY <1>5, SetFinished
<1> QED
  BY <1>1, <1>4, <1>5, <1>6 DEF RegretsKept

LEMMA SampleLedger ==
  ASSUME IInv, RegretsKept, NEW w \in Worker, Sample(w)
  PROVE  RegretsKept' /\ IsLedger(ledger')
<1> DEFINE finished == [ledger.finished EXCEPT ![Traverser(w)] = @ + 1]
           closed == [ledger EXCEPT !.finished = finished]
<1>1. UNCHANGED cumulative_regrets /\ (ledger' = ledger \/ ledger' = closed)
  BY SampleMoves DEF Sample
<1>2. IsLedger(ledger)
  BY DEF IInv, Shape
<1> HIDE DEF finished
<1>3. IsLedger(closed) /\ closed.regrets = ledger.regrets
  BY <1>2, SetFinished
<1> QED
  BY <1>1, <1>2, <1>3 DEF RegretsKept

\* The invariant and the regrets survive every step of a worker.
LEMMA WorkerKeeps ==
  ASSUME IInv, RegretsKept, NEW w \in Worker, WorkerStep(w)
  PROVE  IInv' /\ RegretsKept'
<1>1. Moved(w) /\ UNCHANGED call
  BY WorkerMoves
<1>2. /\ Owed'
      /\ todo' \in [Worker -> Nat]
      /\ stack' = [v \in Worker |-> stack'[v]]
      /\ \A v \in Worker : Sound(stack'[v])
  BY <1>1, MovesKeepOwed DEF IInv
<1>3. Shape /\ IsLedger(ledger)
  BY DEF IInv, Shape
<1>4. /\ cumulative_regrets' = [e \in Entry |-> cumulative_regrets'[e]]
      /\ strategy_sums' = [e \in Entry |-> strategy_sums'[e]]
      /\ IsLedger(ledger') /\ RegretsKept' /\ Held'
  <2>1. CASE StartTraversal(w) \/ ReadRegret(w) \/ TryChild(w)
    <3>1. UNCHANGED <<cumulative_regrets, strategy_sums, ledger>>
      BY <2>1 DEF StartTraversal, ReadRegret, TryChild
    <3>2. Quiet(stack'[w])
      BY <2>1, StartMoves, ReadMoves, TryMoves
    <3>3. Held'
      BY <1>1, <3>1, <3>2, MovesKeepHeld
    <3> QED
      BY <1>3, <3>1, <3>3 DEF Shape, RegretsKept
  <2>2. CASE Load(w)
    <3>1. UNCHANGED <<cumulative_regrets, strategy_sums, ledger>>
      BY <2>2 DEF Load
    <3>2. Held'
      BY <1>1, <2>2, <3>1, LoadMoves, MovesKeepHeld
    <3> QED
      BY <1>3, <3>1, <3>2 DEF Shape, RegretsKept
  <2>3. CASE AddSum(w)
    <3> DEFINE x == Top(w).strategy[Top(w).i]
    <3>1. UNCHANGED <<cumulative_regrets, ledger>> /\ strategy_sums' = Added(w, strategy_sums, x)
      BY <2>3 DEF AddSum
    <3> HIDE DEF x
    <3>2. Held'
      BY <1>1, <2>3, <3>1, SumMoves, MovesKeepHeld
    <3>3. strategy_sums' = [e \in Entry |-> strategy_sums'[e]]
      BY <1>3, <3>1, AddedTable DEF Shape
    <3> QED
      BY <1>3, <3>1, <3>2, <3>3 DEF Shape, RegretsKept
  <2>4. CASE Sample(w)
    <3>1. UNCHANGED <<cumulative_regrets, strategy_sums>>
      BY <2>4 DEF Sample
    <3>2. Held'
      BY <1>1, <2>4, <3>1, SampleMoves, MovesKeepHeld
    <3>3. RegretsKept' /\ IsLedger(ledger')
      BY <2>4, SampleLedger
    <3> QED
      BY <1>3, <3>1, <3>2, <3>3 DEF Shape
  <2>5. CASE AddRegret(w)
    <3>1. UNCHANGED strategy_sums /\ Active(w)
      BY <2>5 DEF AddRegret, At
    <3>2. Quiet(stack'[w]) /\ cumulative_regrets' = Added(w, cumulative_regrets, Increment(w))
      BY <2>5, RegretMoves
    <3>3. Held'
      BY <1>1, <3>1, <3>2, MovesKeepHeld
    <3>4. RegretsKept' /\ IsLedger(ledger')
      BY <2>5, RegretKept
    <3>5. cumulative_regrets' = [e \in Entry |-> cumulative_regrets'[e]]
      BY <1>3, <3>2, AddedTable DEF Shape
    <3> QED
      BY <1>3, <3>1, <3>3, <3>4, <3>5 DEF Shape
  <2> QED
    BY <2>1, <2>2, <2>3, <2>4, <2>5 DEF WorkerStep
<1> QED
  BY <1>2, <1>4 DEF IInv, Shape

-----------------------------------------------------------------------------
(* Steps of the caller *)

\* Between calls nobody is in a traversal.
LEMMA AtRest ==
  ASSUME IInv, \A w \in Worker : todo[w] = 0
  PROVE  \A w \in Worker : ~Active(w) /\ stack[w] = << >>
  BY DEF IInv, Owed, Active

\* Everybody at rest is a state in which nothing is held.
LEMMA RestKeeps ==
  ASSUME IInv, \A w \in Worker : todo[w] = 0, UNCHANGED <<stack, cumulative_regrets>>,
         strategy_sums' = [e \in Entry |-> strategy_sums'[e]], IsLedger(ledger'),
         todo' \in [Worker -> Nat],
         call' = Idle => \A w \in Worker : todo'[w] = 0,
         ~Concurrent' => \A w \in Worker \ {0} : todo'[w] = 0
  PROVE  IInv'
<1>1. \A w \in Worker : stack'[w] = << >>
  BY AtRest
<1>2. Shape'
  BY DEF IInv, Shape
<1>3. Owed' /\ Held'
  BY <1>1 DEF Owed, Held, Active
<1> QED
  BY <1>2, <1>3 DEF IInv

\* The shares of a call are counts, and a call of one thread is the first
\* worker's.
LEMMA SharesAre ==
  ASSUME NEW count \in Nat, NEW threads \in Nat \ {0}, NEW w \in Worker
  PROVE  /\ Share(count, threads, w) \in Nat
         /\ threads = 1 /\ w # 0 => Share(count, threads, w) = 0
<1>1. w \in Nat
  BY DEF Worker
<1>2. count \div threads \in Nat /\ count % threads \in Nat
  OBVIOUS
<1> QED
  BY <1>1, <1>2 DEF Share

LEMMA RunKeeps ==
  ASSUME IInv, RegretsKept, RunIterations
  PROVE  IInv' /\ RegretsKept'
<1>1. call = Idle /\ UNCHANGED <<cumulative_regrets, strategy_sums, stack, ledger>>
  BY DEF RunIterations
<1>2. \A w \in Worker : todo[w] = 0
  BY <1>1 DEF IInv, Owed
<1>3. PICK request \in Requests :
        /\ ~Rejected(request) /\ request[1] > 0
        /\ call' = [count |-> request[1], threads |-> request[2]]
        /\ todo' = [w \in Worker |-> 2 * Share(request[1], request[2], w)]
  BY DEF RunIterations
<1>4. request[1] \in Nat \ {0} /\ request[2] \in Nat \ {0}
  BY <1>3, RequestAssumption DEF Rejected
<1>5. call' # Idle /\ (~Concurrent' => request[2] = 1)
  BY <1>3, <1>4 DEF Idle, Concurrent
<1>6. \A w \in Worker : /\ Share(request[1], request[2], w) \in Nat
                        /\ request[2] = 1 /\ w # 0 => Share(request[1], request[2], w) = 0
  BY <1>4, SharesAre
<1>7. todo' \in [Worker -> Nat] /\ (~Concurrent' => \A w \in Worker \ {0} : todo'[w] = 0)
  BY <1>3, <1>5, <1>6
<1>8. strategy_sums' = [e \in Entry |-> strategy_sums'[e]] /\ IsLedger(ledger')
  BY <1>1 DEF IInv, Shape
<1>9. IInv'
  BY <1>1, <1>2, <1>5, <1>7, <1>8, RestKeeps
<1> QED
  BY <1>1, <1>9 DEF RegretsKept

LEMMA JoinKeeps ==
  ASSUME IInv, RegretsKept, Join
  PROVE  IInv' /\ RegretsKept'
<1> DEFINE completed == ledger.completed + call.count
<1>1. /\ UNCHANGED <<cumulative_regrets, strategy_sums, stack, todo>>
      /\ \A w \in Worker : todo[w] = 0
      /\ ledger' = [ledger EXCEPT !.completed = completed]
  BY DEF Join
<1> HIDE DEF completed
<1>2. IsLedger(ledger') /\ ledger'.regrets = ledger.regrets
  BY <1>1, SetCompleted DEF IInv, Shape
<1>3. IInv'
  BY <1>1, <1>2, RestKeeps DEF IInv, Shape
<1> QED
  BY <1>1, <1>2, <1>3 DEF RegretsKept

LEMMA FileTableIs == FileTable = [e \in Entry |-> FileTable[e]]
  BY DEF FileTable

LEMMA LoadKeeps ==
  ASSUME IInv, RegretsKept, LoadStrategySums
  PROVE  IInv' /\ RegretsKept'
<1>1. call = Idle /\ UNCHANGED <<cumulative_regrets, call, stack, todo>>
  BY DEF LoadStrategySums
<1>2. \A w \in Worker : todo[w] = 0
  BY <1>1 DEF IInv, Owed
<1>3. PICK file \in Files :
        /\ strategy_sums' = IF file = "good" THEN FileTable ELSE strategy_sums
        /\ ledger' =
             [ledger EXCEPT
                !.completed = IF file = "good" THEN FileIterations ELSE @,
                !.iterationBase = @ + IterationRead(file) - iteration,
                !.loaded = IF file = "good"
                           THEN [mass |-> FileMass, visits |-> SumFunction(visits)] ELSE @]
  BY DEF LoadStrategySums
<1>4. strategy_sums' = [e \in Entry |-> strategy_sums'[e]]
  BY <1>3, FileTableIs DEF IInv, Shape
<1> DEFINE completed == IF file = "good" THEN FileIterations ELSE ledger.completed
           base == ledger.iterationBase + IterationRead(file) - iteration
           mass == IF file = "good" THEN [mass |-> FileMass, visits |-> SumFunction(visits)]
                   ELSE ledger.loaded
           first  == [ledger EXCEPT !.completed = completed]
           second == [first EXCEPT !.iterationBase = base]
           third  == [second EXCEPT !.loaded = mass]
<1>5. ledger' = third
  BY <1>3
<1> HIDE DEF completed, base, mass
<1>6. IsLedger(first) /\ first.regrets = ledger.regrets
  BY SetCompleted DEF IInv, Shape
<1> HIDE DEF first
<1>7. IsLedger(second) /\ second.regrets = first.regrets
  BY <1>6, SetIterationBase
<1> HIDE DEF second
<1>8. IsLedger(third) /\ third.regrets = second.regrets
  BY <1>7, SetLoaded
<1> HIDE DEF third
<1>9. todo' \in [Worker -> Nat] /\ (\A w \in Worker : todo'[w] = 0)
  BY <1>1, <1>2 DEF IInv, Shape
<1>10. IInv'
  BY <1>1, <1>2, <1>4, <1>5, <1>8, <1>9, RestKeeps
<1> QED
  BY <1>1, <1>5, <1>6, <1>7, <1>8, <1>10 DEF RegretsKept

-----------------------------------------------------------------------------
(* Every behaviour *)

LEMMA InitKeeps == Init => IInv /\ RegretsKept
<1> SUFFICES ASSUME Init PROVE IInv /\ RegretsKept
  OBVIOUS
<1>1. \A w \in Worker : stack[w] = << >> /\ todo[w] = 0 /\ ~Active(w)
  BY DEF Init, Active
<1>2. Sound(<< >>)
  <2>1. << >> \in Seq({}) /\ Len(<< >>) = 0
    OBVIOUS
  <2> QED
    BY <2>1 DEF Sound
<1>3. Shape
  BY <1>1, <1>2 DEF Init, Shape, IsLedger
<1>4. Owed /\ Held
  BY <1>1 DEF Owed, Held
<1> QED
  BY <1>3, <1>4 DEF IInv, RegretsKept, Init

LEMMA NextKeeps ==
  ASSUME IInv, RegretsKept, [Next]_vars
  PROVE  IInv' /\ RegretsKept'
<1>1. CASE RunNothing \/ Stop \/ UNCHANGED vars
  <2>1. UNCHANGED <<cumulative_regrets, strategy_sums, call, todo, stack, ledger>>
    BY <1>1 DEF RunNothing, Stop, vars
  <2>2. Shape'
    BY <2>1 DEF IInv, Shape
  <2>3. Owed' /\ Held'
    BY <2>1 DEF IInv, Owed, Held, Active, Top, At, Concurrent, EntryOf
  <2> QED
    BY <2>1, <2>2, <2>3 DEF IInv, RegretsKept
<1>2. CASE RunIterations
  BY <1>2, RunKeeps
<1>3. CASE Join
  BY <1>3, JoinKeeps
<1>4. CASE LoadStrategySums
  BY <1>4, LoadKeeps
<1>5. CASE \E w \in Worker : WorkerStep(w)
  BY <1>5, WorkerKeeps
<1> QED
  BY <1>1, <1>2, <1>3, <1>4, <1>5 DEF Next

\* No update of the regrets is lost: whatever the tree, however many threads
\* share the rows and however calls of one and of many threads alternate, the
\* table holds the sum of all regrets computed so far.
THEOREM NoRegretIsLost == Spec => []RegretsKept
  BY InitKeeps, NextKeeps, PTL DEF Spec

\* The addition by separate load and store, which would lose updates of
\* others, is only ever made while nobody else is in a traversal.
THEOREM SplitAdditionsAreAlone == Spec => []SplitAdditionAlone
<1>1. IInv => SplitAdditionAlone
  BY StoringAlone DEF IInv
<1> QED
  BY <1>1, InitKeeps, NextKeeps, PTL DEF Spec

-----------------------------------------------------------------------------
(* The entries past a row's actions *)

\* An addition goes to an action the row has.
LEMMA AddsToAction ==
  ASSUME IInv, NEW w \in Worker, Active(w), NEW table,
         table = [e \in Entry |-> table[e]], NEW increment,
         \A n \in Decision : \A k \in Len(Child[n]) + 1 .. kStride : table[<<Row[n], k>>] = 0,
         NEW n \in Decision, NEW k \in Len(Child[n]) + 1 .. kStride
  PROVE  Added(w, table, increment)[<<Row[n], k>>] = 0
<1>1. FrameOK(Top(w))
  BY TopIs DEF IInv
<1> DEFINE m == Top(w).node
           i == Top(w).i
<1>2. m \in Decision /\ i \in 1 .. Len(Child[m])
  BY <1>1 DEF FrameOK
<1>3. EntryOf(Top(w)) = <<Row[m], i>>
  BY DEF EntryOf
<1> HIDE DEF m, i
<1>4. /\ Len(Child[n]) \in 1 .. kStride /\ Len(Child[m]) \in 1 .. kStride
      /\ kStride \in Nat /\ Row[n] \in 0 .. RowCount - 1
      /\ Row[n] = Row[m] => Len(Child[n]) = Len(Child[m])
  BY <1>2, TreeAssumption
<1>5. <<Row[n], k>> # <<Row[m], i>>
  BY <1>2, <1>4
<1>6. <<Row[n], k>> \in Entry
  BY <1>4 DEF Entry
<1> DEFINE sum == Added(w, table, increment)
<1>7. \A e \in Entry : e # EntryOf(Top(w)) => sum[e] = table[e]
  BY AddedTable
<1> HIDE DEF sum
<1>8. sum[<<Row[n], k>>] = table[<<Row[n], k>>]
  BY <1>3, <1>5, <1>6, <1>7
<1>9. table[<<Row[n], k>>] = 0
  OBVIOUS
<1> QED
  BY <1>8, <1>9 DEF sum

LEMMA NextKeepsTrailing ==
  ASSUME IInv, TrailingZero, [Next]_vars
  PROVE  TrailingZero'
<1>1. CASE UNCHANGED <<cumulative_regrets, strategy_sums>>
  BY <1>1 DEF TrailingZero
<1>2. ASSUME NEW w \in Worker, AddSum(w)
      PROVE  TrailingZero'
  <2> DEFINE x == Top(w).strategy[Top(w).i]
  <2>1. /\ Active(w) /\ UNCHANGED cumulative_regrets
        /\ strategy_sums' = Added(w, strategy_sums, x)
    BY <1>2 DEF AddSum, At
  <2> HIDE DEF x
  <2>2. \A n \in Decision : \A k \in Len(Child[n]) + 1 .. kStride :
          Added(w, strategy_sums, x)[<<Row[n], k>>] = 0
    <3>1. strategy_sums = [e \in Entry |-> strategy_sums[e]]
      BY DEF IInv, Shape
    <3>2. \A n \in Decision : \A k \in Len(Child[n]) + 1 .. kStride :
            strategy_sums[<<Row[n], k>>] = 0
      BY DEF TrailingZero
    <3> QED
      BY <2>1, <3>1, <3>2, AddsToAction
  <2> QED
    BY <2>1, <2>2 DEF TrailingZero
<1>3. ASSUME NEW w \in Worker, AddRegret(w)
      PROVE  TrailingZero'
  <2>1. /\ Active(w) /\ UNCHANGED strategy_sums
        /\ cumulative_regrets' = Added(w, cumulative_regrets, Increment(w))
    BY <1>3 DEF AddRegret, At, Increment
  <2>2. \A n \in Decision : \A k \in Len(Child[n]) + 1 .. kStride :
          Added(w, cumulative_regrets, Increment(w))[<<Row[n], k>>] = 0
    <3>1. cumulative_regrets = [e \in Entry |-> cumulative_regrets[e]]
      BY DEF IInv, Shape
    <3>2. \A n \in Decision : \A k \in Len(Child[n]) + 1 .. kStride :
            cumulative_regrets[<<Row[n], k>>] = 0
      BY DEF TrailingZero
    <3> QED
      BY <2>1, <3>1, <3>2, AddsToAction
  <2> QED
    BY <2>1, <2>2 DEF TrailingZero
<1>4. CASE LoadStrategySums
  <2>1. UNCHANGED cumulative_regrets /\ (strategy_sums' = FileTable \/ UNCHANGED strategy_sums)
    BY <1>4 DEF LoadStrategySums
  <2>2. ASSUME NEW n \in Decision, NEW k \in Len(Child[n]) + 1 .. kStride
        PROVE  FileTable[<<Row[n], k>>] = 0
    <3>1. /\ Len(Child[n]) \in 1 .. kStride /\ kStride \in Nat
          /\ Row[n] \in 0 .. RowCount - 1
      BY TreeAssumption
    <3>2. <<Row[n], k>> \in Entry /\ <<Row[n], k>> # <<0, 1>>
      BY <3>1 DEF Entry
    <3> QED
      BY <3>2 DEF FileTable
  <2> QED
    BY <2>1, <2>2 DEF TrailingZero
<1>5. \/ UNCHANGED <<cumulative_regrets, strategy_sums>> \/ LoadStrategySums
      \/ \E w \in Worker : AddSum(w) \/ AddRegret(w)
  BY DEF Next, vars, RunNothing, RunIterations, Join, Stop, WorkerStep, StartTraversal,
         ReadRegret, Load, Sample, TryChild
<1> QED
  BY <1>1, <1>2, <1>3, <1>4, <1>5

LEMMA InitTrailing == Init => TrailingZero
<1> SUFFICES ASSUME Init, NEW n \in Decision, NEW k \in Len(Child[n]) + 1 .. kStride
             PROVE  cumulative_regrets[<<Row[n], k>>] = 0 /\ strategy_sums[<<Row[n], k>>] = 0
  BY DEF TrailingZero
<1>1. /\ Len(Child[n]) \in 1 .. kStride /\ kStride \in Nat
      /\ Row[n] \in 0 .. RowCount - 1
  BY TreeAssumption
<1>2. <<Row[n], k>> \in Entry
  BY <1>1 DEF Entry
<1> QED
  BY <1>2 DEF Init

\* Rows that are shorter than the stride never use the rest of it, so a
\* checkpoint of any tree stores zeros there.
THEOREM TrailingStaysZero == Spec => []TrailingZero
  BY InitTrailing, InitKeeps, NextKeeps, NextKeepsTrailing, PTL DEF Spec

-----------------------------------------------------------------------------
(* What the activations have read and tried *)

\* Regret matching yields a distribution: shares that sum to Unit.
LEMMA MatchedIs ==
  ASSUME NEW n \in Nat \ {0}, \A k \in 1 .. n : Unit % k = 0,
         NEW row \in Seq(Int), Len(row) = n
  PROVE  /\ Matched(row) \in Seq(Int) /\ Len(Matched(row)) = n
         /\ SumFunctionOnSet(Matched(row), 1 .. n) = Unit
<1> DEFINE D == 1 .. n
           positive == {i \in D : row[i] > 0}
           support == IF positive = {} THEN D ELSE positive
           k == Cardinality(support)
           share == Unit \div k
           m == [i \in D |-> IF i \in support THEN share ELSE 0]
<1>1. DOMAIN row = D
  OBVIOUS
<1>2. Matched(row) = m
  BY <1>1 DEF Matched
<1>3. IsFiniteSet(D) /\ Cardinality(D) = n
  BY FS_Interval
<1>4. support \subseteq D /\ support # {}
  OBVIOUS
<1>5. IsFiniteSet(support) /\ k \in Nat /\ k <= n /\ k # 0
  BY <1>3, <1>4, FS_Subset, FS_EmptySet, FS_CardinalityType
<1>6. k \in 1 .. n /\ Unit \in Nat
  BY <1>5, TreeAssumption
<1>7. share \in Int /\ share * k = Unit
  <2>1. Unit % k = 0
    BY <1>6
  <2> HIDE DEF k
  <2> QED
    BY <1>6, <2>1
<1> HIDE DEF share, k, support
<1>8. m \in [D -> Int]
  BY <1>7
<1>9. m \in Seq(Int) /\ Len(m) = n
  BY <1>8
<1>10. /\ IntOn(m, D) /\ \A i \in D \ support : m[i] = 0
       /\ \A i \in support : m[i] = share
  BY <1>4, <1>8 DEF IntOn
<1> HIDE DEF m
<1>11. SumFunctionOnSet(m, D) = SumFunctionOnSet(m, support)
  BY <1>3, <1>4, <1>10, SumWide
<1>12. SumFunctionOnSet(m, support) = share * k
  BY <1>5, <1>7, <1>10, SumConstant DEF k
<1> QED
  BY <1>2, <1>7, <1>9, <1>11, <1>12

\* Multiples: of themselves, of what divides them, and their negatives.
LEMMA MultipleSelf == ASSUME NEW x \in Int PROVE Multiple(x, x)
<1>1. x = x * 1
  OBVIOUS
<1> QED
  BY <1>1 DEF Multiple

LEMMA MultipleTrans ==
  ASSUME NEW x, NEW y, NEW z \in Int, Multiple(x, y), Multiple(y, z)
  PROVE  Multiple(x, z)
<1>1. PICK a \in Int : x = y * a
  BY DEF Multiple
<1>2. PICK b \in Int : y = z * b
  BY DEF Multiple
<1>3. x = z * (b * a) /\ b * a \in Int
  BY <1>1, <1>2
<1> QED
  BY <1>3 DEF Multiple

LEMMA MultipleOfMod ==
  ASSUME NEW x \in Int, NEW d \in Nat \ {0}, x % d = 0
  PROVE  Multiple(x, d) /\ Multiple(-x, d)
<1>1. x = d * (x \div d) /\ x \div d \in Int
  OBVIOUS
<1>2. PICK q \in Int : x = d * q
  BY <1>1
<1>3. -x = d * (-q) /\ -q \in Int /\ -x \in Int
  BY <1>2
<1> QED
  BY <1>1, <1>3 DEF Multiple

\* What an activation of player p's traversal has: as much of the row as it
\* has read, a distribution once it has read it all, and, at p's own nodes, the
\* value of each action tried, a multiple of what the node will divide it by.
Filled(f, p) ==
  /\ f.step \in {"read", "sum", "sample", "child", "regret"}
  /\ f.held \in Int /\ f.strategy \in Seq(Int) /\ f.values \in Seq(Int)
  /\ f.step = "read" => Len(f.strategy) = f.i - 1
  /\ f.step # "read" =>
       /\ Len(f.strategy) = ActionCount(f)
       /\ SumFunctionOnSet(f.strategy, 1 .. ActionCount(f)) = Unit
  /\ f.step \in {"read", "sum", "sample"} => Len(f.values) = 0
  /\ f.step = "child" => Len(f.values) = f.i - 1
  /\ f.step = "regret" => Len(f.values) = ActionCount(f)
  /\ f.step \in {"child", "regret"} => Mover[f.node] = p
  /\ \A k \in 1 .. Len(f.values) : Multiple(f.values[k], Unit * Scale[p][f.node])

\* Every activation but the innermost waits for the value of an action, which
\* will be fine enough for its node.
Whole(s, p) ==
  /\ \A j \in 1 .. Len(s) : Filled(s[j], p)
  /\ \A j \in 1 .. Len(s) - 1 :
       s[j].step = "child" /\ Multiple(Scale[p][s[j + 1].node], Unit * Scale[p][s[j].node])

\* What going on does to an activation's fields.
LEMMA NextActionIs ==
  ASSUME NEW f, IsFrame(f), NEW step
  PROVE  LET g == NextAction(f, step)
         IN  /\ IsFrame(g) /\ g.node = f.node /\ g.strategy = f.strategy
             /\ g.values = f.values /\ g.storing = f.storing /\ g.held = f.held
             /\ f.i < ActionCount(f) => g.i = f.i + 1 /\ g.step = f.step
             /\ ~(f.i < ActionCount(f)) => g.i = 1 /\ g.step = step
<1> DEFINE next == f.i + 1
           up == [f EXCEPT !.i = next]
           first == [f EXCEPT !.i = 1]
           over == [first EXCEPT !.step = step]
<1>1. NextAction(f, step) = IF f.i < ActionCount(f) THEN up ELSE over
  BY DEF NextAction
<1> HIDE DEF next
<1>2. /\ IsFrame(up) /\ up.i = next /\ up.node = f.node /\ up.step = f.step
      /\ up.strategy = f.strategy /\ up.values = f.values
      /\ up.storing = f.storing /\ up.held = f.held
  BY SetI
<1>3. /\ IsFrame(first) /\ first.i = 1 /\ first.node = f.node
      /\ first.strategy = f.strategy /\ first.values = f.values
      /\ first.storing = f.storing /\ first.held = f.held
  BY SetI
<1> HIDE DEF up, first
<1>4. /\ IsFrame(over) /\ over.step = step /\ over.i = first.i /\ over.node = first.node
      /\ over.strategy = first.strategy /\ over.values = first.values
      /\ over.storing = first.storing /\ over.held = first.held
  BY <1>3, SetStep
<1> HIDE DEF over
<1> QED
  BY <1>1, <1>2, <1>3, <1>4 DEF next

LEMMA StoredIs ==
  ASSUME NEW f, IsFrame(f)
  PROVE  LET g == Stored(f)
         IN  /\ IsFrame(g) /\ g.node = f.node /\ g.step = f.step /\ g.i = f.i
             /\ g.strategy = f.strategy /\ g.values = f.values
             /\ g.storing = FALSE /\ g.held = 0
<1> DEFINE off == FALSE
           g == [f EXCEPT !.storing = off]
           h == [g EXCEPT !.held = 0]
<1>1. Stored(f) = h
  BY DEF Stored
<1> HIDE DEF off
<1>2. /\ IsFrame(g) /\ g.storing = off /\ g.node = f.node /\ g.step = f.step
      /\ g.i = f.i /\ g.strategy = f.strategy /\ g.values = f.values
  BY SetStoring
<1> HIDE DEF g
<1>3. /\ IsFrame(h) /\ h.held = 0 /\ h.node = g.node /\ h.step = g.step
      /\ h.i = g.i /\ h.strategy = g.strategy /\ h.values = g.values
      /\ h.storing = g.storing
  BY <1>2, SetHeld
<1> HIDE DEF h
<1> QED
  BY <1>1, <1>2, <1>3 DEF off

\* The constants an activation's node stands for.
LEMMA NodeIs ==
  ASSUME NEW f, FrameOK(f), NEW p \in Player
  PROVE  /\ IsFrame(f) /\ f.node \in Decision /\ f.node \in Node
         /\ ActionCount(f) \in Nat \ {0} /\ ActionCount(f) <= kStride
         /\ f.i \in 1 .. ActionCount(f)
         /\ \A k \in 1 .. ActionCount(f) : Unit % k = 0
         /\ Scale[p][f.node] \in Nat \ {0} /\ Unit \in Nat \ {0}
         /\ Unit * Scale[p][f.node] \in Nat \ {0}
         /\ EntryOf(f) \in Entry
<1>1. IsFrame(f) /\ f.node \in Decision /\ f.i \in 1 .. ActionCount(f)
  BY DEF FrameOK, ActionCount
<1>2. /\ ActionCount(f) \in 1 .. kStride /\ kStride \in Nat /\ Unit \in Nat \ {0}
      /\ \A k \in 1 .. kStride : ActionCount(f) >= k => Unit % k = 0
      /\ Row[f.node] \in 0 .. RowCount - 1
  BY <1>1, TreeAssumption DEF ActionCount
<1>3. \A k \in 1 .. ActionCount(f) : Unit % k = 0
  BY <1>2
<1>4. f.node \in Node /\ Scale[p][f.node] \in Nat \ {0}
  BY <1>1, ScaleAssumption DEF Decision
<1>5. Unit * Scale[p][f.node] \in Nat \ {0}
  BY <1>2, <1>4
<1>6. EntryOf(f) \in Entry
  BY <1>1, <1>2 DEF EntryOf, Entry
<1> QED
  BY <1>1, <1>2, <1>3, <1>4, <1>5, <1>6

\* An activation starts with nothing read and nothing tried.
LEMMA FrameFilled ==
  ASSUME NEW n \in Decision, NEW p \in Player
  PROVE  Filled(Frame(n), p)
<1> DEFINE f == Frame(n)
<1>1. /\ f.step = "read" /\ f.i = 1 /\ f.strategy = << >> /\ f.values = << >> /\ f.held = 0
  BY DEF Frame
<1> HIDE DEF f
<1>2. << >> \in Seq(Int) /\ Len(<< >>) = 0
  OBVIOUS
<1>3. Filled(f, p)
  BY <1>1, <1>2 DEF Filled
<1> QED
  BY <1>3 DEF f

\* Reading an entry; the last one read is matched at once.
LEMMA ReadFilled ==
  ASSUME NEW p \in Player, NEW f, FrameOK(f), Filled(f, p), f.step = "read",
         NEW value \in Int, NEW step \in {"sum", "child"},
         step = "child" => Mover[f.node] = p
  PROVE  LET row == Append(f.strategy, value)
             last == f.i = ActionCount(f)
             read == [f EXCEPT !.strategy = IF last THEN Matched(row) ELSE row]
             g == NextAction(read, step)
         IN  Filled(g, p) /\ g.node = f.node
<1> DEFINE row == Append(f.strategy, value)
           last == f.i = ActionCount(f)
           strategy == IF last THEN Matched(row) ELSE row
           read == [f EXCEPT !.strategy = strategy]
           g == NextAction(read, step)
           n == ActionCount(f)
<1>1. /\ IsFrame(f) /\ n \in Nat \ {0} /\ f.i \in 1 .. n
      /\ \A k \in 1 .. n : Unit % k = 0
  BY NodeIs
<1>2. /\ f.strategy \in Seq(Int) /\ Len(f.strategy) = f.i - 1 /\ f.held \in Int
      /\ f.values \in Seq(Int) /\ Len(f.values) = 0
  BY DEF Filled
<1>3. row \in Seq(Int) /\ Len(row) = f.i
  BY <1>1, <1>2
<1>4. last => /\ strategy \in Seq(Int) /\ Len(strategy) = n
              /\ SumFunctionOnSet(strategy, 1 .. n) = Unit
  BY <1>1, <1>3, MatchedIs
<1>5. ~last => strategy = row
  OBVIOUS
<1> HIDE DEF row, strategy
<1>6. /\ IsFrame(read) /\ read.strategy = strategy
      /\ read.node = f.node /\ read.step = f.step /\ read.i = f.i
      /\ read.values = f.values /\ read.storing = f.storing /\ read.held = f.held
  BY <1>1, SetStrategy
<1> HIDE DEF read
<1>7. ActionCount(read) = n
  BY <1>6 DEF ActionCount
<1>8. /\ g.node = read.node /\ g.strategy = read.strategy
      /\ g.values = read.values /\ g.held = read.held
      /\ read.i < ActionCount(read) => g.i = read.i + 1 /\ g.step = read.step
      /\ ~(read.i < ActionCount(read)) => g.i = 1 /\ g.step = step
  BY <1>6, NextActionIs
<1> HIDE DEF g
<1>9. ActionCount(g) = n /\ g.node = f.node
  BY <1>6, <1>8 DEF ActionCount
<1> HIDE DEF n
<1>10. Filled(g, p)
  <2>1. CASE last
    <3>1. g.i = 1 /\ g.step = step /\ g.strategy = strategy /\ g.values = f.values /\ g.held = f.held
      BY <1>1, <1>6, <1>7, <1>8, <2>1 DEF n
    <3> QED
      BY <1>2, <1>4, <1>9, <2>1, <3>1 DEF Filled
  <2>2. CASE ~last
    <3>1. f.i < ActionCount(read)
      BY <1>1, <1>7, <2>2 DEF n
    <3>2. /\ g.i = f.i + 1 /\ g.step = "read" /\ g.strategy = row /\ g.values = f.values
          /\ g.held = f.held
      BY <1>5, <1>6, <1>8, <2>2, <3>1
    <3>3. Len(g.strategy) = g.i - 1
      BY <1>1, <1>3, <3>2
    <3> QED
      BY <1>2, <1>3, <3>2, <3>3 DEF Filled
  <2> QED
    BY <2>1, <2>2
<1> QED
  BY <1>9, <1>10 DEF g, read, strategy, row

\* An addition changes nothing else than how far the activation is.
LEMMA LoadFilled ==
  ASSUME NEW p \in Player, NEW f, FrameOK(f), Filled(f, p), NEW value \in Int
  PROVE  LET g == [f EXCEPT !.storing = TRUE, !.held = value]
         IN  Filled(g, p) /\ g.node = f.node
<1> DEFINE on == TRUE
           g == [f EXCEPT !.storing = on]
           h == [g EXCEPT !.held = value]
<1>1. h = [f EXCEPT !.storing = TRUE, !.held = value]
  OBVIOUS
<1> HIDE DEF on
<1>2. /\ IsFrame(g) /\ g.i = f.i /\ g.node = f.node /\ g.step = f.step
      /\ g.strategy = f.strategy /\ g.values = f.values
  BY SetStoring DEF FrameOK
<1> HIDE DEF g
<1>3. /\ h.held = value /\ h.i = g.i /\ h.node = g.node /\ h.step = g.step
      /\ h.strategy = g.strategy /\ h.values = g.values
  BY <1>2, SetHeld
<1> HIDE DEF h
<1>4. ActionCount(h) = ActionCount(f)
  BY <1>2, <1>3 DEF ActionCount
<1>5. Filled(h, p) /\ h.node = f.node
  BY <1>2, <1>3, <1>4 DEF Filled
<1> QED
  BY <1>1, <1>5

LEMMA StoredFilled ==
  ASSUME NEW p \in Player, NEW f, FrameOK(f), Filled(f, p),
         NEW step, \/ f.step = "sum" /\ step = "sample"
                   \/ f.step = "regret" /\ step = "regret" /\ f.i < ActionCount(f)
  PROVE  LET g == NextAction(Stored(f), step)
         IN  Filled(g, p) /\ g.node = f.node
<1> DEFINE h == Stored(f)
           g == NextAction(h, step)
<1>1. IsFrame(f) /\ ActionCount(f) \in Nat \ {0} /\ f.i \in 1 .. ActionCount(f)
  BY NodeIs
<1>2. /\ IsFrame(h) /\ h.node = f.node /\ h.step = f.step /\ h.i = f.i
      /\ h.strategy = f.strategy /\ h.values = f.values /\ h.held = 0
  BY <1>1, StoredIs
<1> HIDE DEF h
<1>3. /\ g.node = h.node /\ g.strategy = h.strategy
      /\ g.values = h.values /\ g.held = h.held
      /\ h.i < ActionCount(h) => g.i = h.i + 1 /\ g.step = h.step
      /\ ~(h.i < ActionCount(h)) => g.i = 1 /\ g.step = step
  BY <1>2, NextActionIs
<1> HIDE DEF g
<1>4. ActionCount(h) = ActionCount(f) /\ ActionCount(g) = ActionCount(f)
  BY <1>2, <1>3 DEF ActionCount
<1>5. g.step \in {f.step, step} /\ (f.step = "regret" => g.step = "regret")
  BY <1>2, <1>3
<1>6. Filled(g, p)
  BY <1>2, <1>3, <1>4, <1>5 DEF Filled
<1> QED
  BY <1>2, <1>3, <1>6 DEF g, h

\* The value of an action tried is added to those before.
LEMMA ValueFilled ==
  ASSUME NEW p \in Player, NEW f, FrameOK(f), Filled(f, p), f.step = "child",
         NEW value, Multiple(value, Unit * Scale[p][f.node])
  PROVE  Filled(WithValue(f, value), p) /\ WithValue(f, value).node = f.node
<1> DEFINE values == Append(f.values, value)
           h == [f EXCEPT !.values = values]
           g == NextAction(h, "regret")
<1>1. IsFrame(f) /\ ActionCount(f) \in Nat \ {0} /\ f.i \in 1 .. ActionCount(f)
  BY NodeIs
<1>2. g = WithValue(f, value)
  BY DEF WithValue
<1>3. /\ f.values \in Seq(Int) /\ Len(f.values) = f.i - 1 /\ value \in Int
      /\ \A k \in 1 .. Len(f.values) : Multiple(f.values[k], Unit * Scale[p][f.node])
  BY DEF Filled, Multiple
<1>4. values \in Seq(Int) /\ Len(values) = f.i
  BY <1>1, <1>3
<1>5. \A k \in 1 .. Len(values) : Multiple(values[k], Unit * Scale[p][f.node])
  <2> SUFFICES ASSUME NEW k \in 1 .. f.i
               PROVE  Multiple(values[k], Unit * Scale[p][f.node])
    BY <1>4
  <2>1. CASE k = f.i
    <3>1. values[k] = value
      BY <1>1, <1>3, <2>1
    <3> QED
      BY <3>1
  <2>2. CASE k # f.i
    <3>1. k \in 1 .. Len(f.values) /\ values[k] = f.values[k]
      BY <1>1, <1>3, <2>2
    <3> QED
      BY <1>3, <3>1
  <2> QED
    BY <2>1, <2>2
<1> HIDE DEF values
<1>6. /\ IsFrame(h) /\ h.values = values /\ h.node = f.node /\ h.step = f.step
      /\ h.i = f.i /\ h.strategy = f.strategy /\ h.held = f.held
  BY <1>1, SetValues
<1> HIDE DEF h
<1>7. /\ g.node = h.node /\ g.strategy = h.strategy
      /\ g.values = h.values /\ g.held = h.held
      /\ h.i < ActionCount(h) => g.i = h.i + 1 /\ g.step = h.step
      /\ ~(h.i < ActionCount(h)) => g.i = 1 /\ g.step = "regret"
  BY <1>6, NextActionIs
<1> HIDE DEF g
<1>8. ActionCount(h) = ActionCount(f) /\ ActionCount(g) = ActionCount(f)
  BY <1>6, <1>7 DEF ActionCount
<1>9. g.node = f.node /\ g.values = values /\ g.strategy = f.strategy /\ g.held = f.held
  BY <1>6, <1>7
<1>10. \/ g.step = "child" /\ Len(values) = g.i - 1
       \/ g.step = "regret" /\ Len(values) = ActionCount(g)
  BY <1>1, <1>4, <1>6, <1>7, <1>8
<1>11. Filled(g, p)
  BY <1>4, <1>5, <1>8, <1>9, <1>10 DEF Filled
<1> QED
  BY <1>2, <1>9, <1>11

\* Dividing what is a multiple.
LEMMA DivideMultiple ==
  ASSUME NEW u \in Nat \ {0}, NEW x \in Int
  PROVE  (u * x) \div u = x
<1> DEFINE y == u * x
           q == y \div u
           r == y % u
<1>1. y \in Int /\ y = u * q + r /\ q \in Int /\ r \in 0 .. u - 1
  BY SMT
<1>2. u * (x - q) = r
  BY <1>1
<1> HIDE DEF q, r
<1>3. x - q = 0
  <2> DEFINE d == x - q
  <2>1. d \in Int /\ u * d = r
    BY <1>1, <1>2
  <2> HIDE DEF d
  <2>2. d >= 1 => u * d >= u
    BY <2>1
  <2>3. d <= -1 => u * d <= -u
    BY <2>1
  <2>4. d = 0
    BY <1>1, <2>1, <2>2, <2>3
  <2> QED
    BY <2>4 DEF d
<1> QED
  BY <1>1, <1>3 DEF q

\* The products a node's value is the sum of.
Products(f) == [k \in 1 .. ActionCount(f) |-> f.strategy[k] * f.values[k]]

\* The division of the node's value is exact, and what it returns is as fine as
\* its caller needs.
LEMMA ValueExact ==
  ASSUME NEW p \in Player, NEW f, FrameOK(f), Filled(f, p), f.step = "regret"
  PROVE  /\ NodeValue(f) \in Int
         /\ SumFunctionOnSet(Products(f), 1 .. ActionCount(f)) = Unit * NodeValue(f)
         /\ Multiple(NodeValue(f), Scale[p][f.node])
         /\ IntOn(Products(f), 1 .. ActionCount(f))
<1> DEFINE n == ActionCount(f)
           scale == Scale[p][f.node]
           unit == Unit
           products == Products(f)
<1>1. n \in Nat \ {0} /\ unit \in Nat \ {0} /\ scale \in Nat \ {0}
  BY NodeIs
<1>2. /\ f.strategy \in Seq(Int) /\ Len(f.strategy) = n
      /\ f.values \in Seq(Int) /\ Len(f.values) = n
      /\ \A k \in 1 .. n : Multiple(f.values[k], unit * scale)
  BY DEF Filled
<1>3. DOMAIN products = 1 .. n /\ IsFiniteSet(1 .. n)
  BY <1>1, FS_Interval DEF Products
<1>4. NodeValue(f) = SumFunctionOnSet(products, 1 .. n) \div unit
  BY <1>3, SumAll DEF NodeValue, Products
<1>5. ASSUME NEW k \in 1 .. n
      PROVE  Multiple(products[k], unit * scale)
  <2> DEFINE a == f.strategy[k]
             b == f.values[k]
  <2>1. a \in Int /\ b \in Int /\ products[k] = a * b
    BY <1>2 DEF Products
  <2>2. PICK q \in Int : b = (unit * scale) * q
    BY <1>2 DEF Multiple
  <2> HIDE DEF a, b, unit, scale
  <2>3. a * b = (unit * scale) * (a * q) /\ a * q \in Int /\ a * b \in Int
    BY <1>1, <2>1, <2>2
  <2> HIDE DEF products
  <2> QED
    BY <2>1, <2>3 DEF Multiple
<1> DEFINE sum == SumFunctionOnSet(products, 1 .. n)
<1>6. Multiple(sum, unit * scale)
  <2>1. unit * scale \in Int
    BY <1>1
  <2> HIDE DEF products, unit, scale, n
  <2> QED
    BY <1>3, <1>5, <2>1, SumMultiple
<1>7. PICK q \in Int : sum = (unit * scale) * q
  BY <1>6 DEF Multiple
<1> HIDE DEF sum, unit, scale
<1>8. sum = unit * (scale * q) /\ scale * q \in Int
  BY <1>1, <1>7
<1>9. sum \div unit = scale * q
  BY <1>1, <1>8, DivideMultiple
<1>10. NodeValue(f) = scale * q
  BY <1>4, <1>9 DEF sum
<1>11. IntOn(products, 1 .. n)
  BY <1>5 DEF IntOn, Multiple
<1> QED
  BY <1>8, <1>10, <1>11 DEF sum, unit, scale, Multiple

\* The regrets, weighted by the strategy that weighted the node's value, cancel.
LEMMA RegretsCancel ==
  ASSUME NEW p \in Player, NEW f, FrameOK(f), Filled(f, p), f.step = "regret"
  PROVE  SumFunction([k \in 1 .. ActionCount(f) |->
                        f.strategy[k] * (f.values[k] - NodeValue(f))]) = 0
<1> DEFINE D == 1 .. ActionCount(f)
           v == NodeValue(f)
           weighted == [k \in D |-> f.strategy[k] * (f.values[k] - v)]
           shares == [k \in D |-> (-v) * f.strategy[k]]
<1>1. /\ v \in Int /\ IntOn(Products(f), D)
      /\ SumFunctionOnSet(Products(f), D) = Unit * v
  BY ValueExact
<1>2. /\ f.strategy \in Seq(Int) /\ Len(f.strategy) = ActionCount(f)
      /\ f.values \in Seq(Int) /\ Len(f.values) = ActionCount(f)
      /\ SumFunctionOnSet(f.strategy, D) = Unit
  BY DEF Filled
<1>3. IsFiniteSet(D) /\ Unit \in Nat /\ ActionCount(f) \in Nat
  <2>1. Unit \in Nat /\ ActionCount(f) \in Nat
    BY NodeIs
  <2> QED
    BY <2>1, FS_Interval
<1>4. \A k \in D : f.strategy[k] \in Int /\ f.values[k] \in Int
  BY <1>2, <1>3
<1> HIDE DEF v
<1>5. IntOn(f.strategy, D) /\ IntOn(shares, D) /\ -v \in Int
  BY <1>1, <1>4 DEF IntOn
<1>6. SumFunctionOnSet(shares, D) = (-v) * Unit
  BY <1>2, <1>3, <1>5, SumScaled
<1>7. ASSUME NEW k \in D
      PROVE  weighted[k] = Products(f)[k] + shares[k]
  <2> DEFINE a == f.strategy[k]
             b == f.values[k]
  <2>1. a \in Int /\ b \in Int
    BY <1>4
  <2>2. weighted[k] = a * (b - v) /\ Products(f)[k] = a * b /\ shares[k] = (-v) * a
    BY DEF Products
  <2> HIDE DEF a, b, weighted, shares
  <2>3. a * (b - v) = a * b + (-v) * a
    BY <1>1, <2>1
  <2> QED
    BY <2>2, <2>3
<1> HIDE DEF shares
<1>8. SumFunctionOnSet(weighted, D) = SumFunctionOnSet(Products(f), D) + SumFunctionOnSet(shares, D)
  <2> HIDE DEF weighted
  <2> QED
    BY <1>1, <1>3, <1>5, <1>7, SumPlus
<1>9. Unit * v + (-v) * Unit = 0
  BY <1>1, <1>3
<1>10. SumFunction(weighted) = SumFunctionOnSet(weighted, D)
  BY SumAll
<1> QED
  BY <1>1, <1>6, <1>8, <1>9, <1>10 DEF v

-----------------------------------------------------------------------------
(* Every stack of activations is whole *)

\* The innermost activation goes on, or its node's child takes its place.
LEMMA ReplaceWhole ==
  ASSUME NEW p \in Player, NEW s, Sound(s), s # << >>, Whole(s, p),
         NEW f, FrameOK(f), Filled(f, p),
         Multiple(Scale[p][f.node], Scale[p][s[Len(s)].node])
  PROVE  Whole(Append(SubSeq(s, 1, Len(s) - 1), f), p)
<1> DEFINE t == Append(SubSeq(s, 1, Len(s) - 1), f)
           n == Len(s)
<1>1. n \in Nat \ {0}
  BY Front DEF Sound
<1>2. Len(t) = n /\ t[n] = f /\ \A j \in 1 .. n - 1 : t[j] = s[j]
  BY Replace
<1> HIDE DEF t
<1>3. ASSUME NEW j \in 1 .. Len(t)
      PROVE  Filled(t[j], p)
  BY <1>1, <1>2, <1>3 DEF Whole
<1>4. ASSUME NEW j \in 1 .. Len(t) - 1
      PROVE  /\ t[j].step = "child"
             /\ Multiple(Scale[p][t[j + 1].node], Unit * Scale[p][t[j].node])
  <2>1. /\ j \in 1 .. n - 1 /\ t[j] = s[j]
        /\ s[j].step = "child" /\ Multiple(Scale[p][s[j + 1].node], Unit * Scale[p][s[j].node])
    BY <1>1, <1>2, <1>4 DEF Whole
  <2>2. CASE j + 1 # n
    <3>1. j + 1 \in 1 .. n - 1
      BY <1>1, <2>1, <2>2
    <3> QED
      BY <1>2, <2>1, <3>1
  <2>3. CASE j + 1 = n
    <3>1. FrameOK(s[j])
      BY <1>1, <2>1 DEF Sound
    <3>2. Unit * Scale[p][s[j].node] \in Int
      BY <3>1, NodeIs
    <3>3. t[j + 1] = f
      BY <1>2, <2>3
    <3> QED
      BY <2>1, <2>3, <3>2, <3>3, MultipleTrans
  <2> QED
    BY <2>2, <2>3
<1>5. Whole(t, p)
  BY <1>3, <1>4 DEF Whole
<1> QED
  BY <1>5 DEF t

\* A child's activation begins on top.
LEMMA PushWhole ==
  ASSUME NEW p \in Player, NEW s, Sound(s), s # << >>, Whole(s, p),
         ~s[Len(s)].storing, s[Len(s)].step = "child",
         NEW f, FrameOK(f), Filled(f, p),
         Multiple(Scale[p][f.node], Unit * Scale[p][s[Len(s)].node])
  PROVE  Whole(Append(s, f), p)
<1> DEFINE t == Append(s, f)
           n == Len(s)
<1>1. n \in Nat \ {0}
  BY Front DEF Sound
<1>2. Len(t) = n + 1 /\ t[n + 1] = f /\ \A j \in 1 .. n : t[j] = s[j]
  BY Push
<1> HIDE DEF t
<1>3. ASSUME NEW j \in 1 .. Len(t)
      PROVE  Filled(t[j], p)
  BY <1>1, <1>2, <1>3 DEF Whole
<1>4. ASSUME NEW j \in 1 .. Len(t) - 1
      PROVE  /\ t[j].step = "child"
             /\ Multiple(Scale[p][t[j + 1].node], Unit * Scale[p][t[j].node])
  <2>1. j \in 1 .. n /\ t[j] = s[j]
    BY <1>1, <1>2, <1>4
  <2>2. CASE j = n
    BY <1>2, <2>1, <2>2
  <2>3. CASE j # n
    <3>1. j \in 1 .. n - 1 /\ j + 1 \in 1 .. n
      BY <1>1, <2>1, <2>3
    <3> QED
      BY <1>2, <2>1, <3>1 DEF Whole
  <2> QED
    BY <2>2, <2>3
<1>5. Whole(t, p)
  BY <1>3, <1>4 DEF Whole
<1> QED
  BY <1>5 DEF t

\* The caller goes on when the innermost activation has returned.
LEMMA PopWhole ==
  ASSUME NEW p \in Player, NEW s, Sound(s), s # << >>, Len(s) # 1, Whole(s, p),
         NEW f, FrameOK(f), Filled(f, p), f.node = s[Len(s) - 1].node
  PROVE  Whole([SubSeq(s, 1, Len(s) - 1) EXCEPT ![Len(s) - 1] = f], p)
<1> DEFINE t == [SubSeq(s, 1, Len(s) - 1) EXCEPT ![Len(s) - 1] = f]
           n == Len(s)
<1>1. n \in Nat \ {0}
  BY Front DEF Sound
<1>2. /\ Len(t) = n - 1 /\ t[n - 1] = f
      /\ \A j \in 1 .. n - 1 : j # n - 1 => t[j] = s[j]
  <2>1. /\ Len(t) = Len(s) - 1 /\ t[Len(t)] = f
        /\ \A j \in 1 .. Len(s) - 1 : j # Len(s) - 1 => t[j] = s[j]
    BY Pop, ZenonT(30)
  <2> HIDE DEF t
  <2> QED
    BY <2>1
<1> HIDE DEF t
<1>3. ASSUME NEW j \in 1 .. Len(t)
      PROVE  Filled(t[j], p) /\ t[j].node = s[j].node
  <2>1. j \in 1 .. n - 1 /\ j \in 1 .. n
    BY <1>1, <1>2, <1>3
  <2>2. Filled(s[j], p)
    BY <2>1 DEF Whole
  <2> QED
    BY <1>2, <2>1, <2>2
<1>4. ASSUME NEW j \in 1 .. Len(t) - 1
      PROVE  /\ t[j].step = "child"
             /\ Multiple(Scale[p][t[j + 1].node], Unit * Scale[p][t[j].node])
  <2>1. j \in 1 .. n - 1 /\ j # n - 1 /\ j + 1 \in 1 .. Len(t) /\ j \in 1 .. Len(t)
    BY <1>1, <1>2, <1>4
  <2>2. t[j] = s[j] /\ t[j + 1].node = s[j + 1].node
    BY <1>2, <1>3, <2>1
  <2> QED
    BY <2>1, <2>2 DEF Whole
<1>5. Whole(t, p)
  BY <1>3, <1>4 DEF Whole
<1> QED
  BY <1>5 DEF t

LEMMA BeginWhole ==
  ASSUME NEW p \in Player, NEW f, Filled(f, p)
  PROVE  Whole(<<f>>, p) /\ Whole(<< >>, p)
<1>1. Len(<<f>>) = 1 /\ <<f>>[1] = f /\ Len(<< >>) = 0
  OBVIOUS
<1> QED
  BY <1>1 DEF Whole

\* The tables hold integers and every activation is whole.
Values ==
  /\ cumulative_regrets \in [Entry -> Int]
  /\ strategy_sums \in [Entry -> Int]
  /\ \A w \in Worker : Whole(stack[w], Traverser(w))

LEMMA TraverserIs == ASSUME NEW w PROVE Traverser(w) \in Player
  BY DEF Traverser, Player

\* What a worker's innermost activation is.
LEMMA TopWhole ==
  ASSUME IInv, Values, NEW w \in Worker, Active(w)
  PROVE  /\ Sound(stack[w]) /\ stack[w] # << >> /\ Whole(stack[w], Traverser(w))
         /\ Top(w) = stack[w][Len(stack[w])]
         /\ FrameOK(Top(w)) /\ Filled(Top(w), Traverser(w))
<1>1. /\ FrameOK(Top(w)) /\ Top(w) = stack[w][Len(stack[w])]
      /\ Len(stack[w]) \in Nat \ {0}
  BY TopIs DEF IInv
<1>2. Len(stack[w]) \in 1 .. Len(stack[w])
  BY <1>1
<1> QED
  BY <1>1, <1>2 DEF IInv, Shape, Active, Values, Whole

\* Going on in the innermost activation.
LEMMA GotoWhole ==
  ASSUME IInv, Values, NEW w \in Worker, Active(w), NEW f, FrameOK(f),
         Filled(f, Traverser(w)),
         Multiple(Scale[Traverser(w)][f.node], Scale[Traverser(w)][Top(w).node]),
         Goto(w, f), UNCHANGED todo
  PROVE  Whole(stack'[w], Traverser(w)')
<1>1. /\ Sound(stack[w]) /\ stack[w] # << >> /\ Whole(stack[w], Traverser(w))
      /\ Top(w) = stack[w][Len(stack[w])]
  BY TopWhole
<1>2. stack'[w] = Append(SubSeq(stack[w], 1, Len(stack[w]) - 1), f)
  BY DEF Goto, Below, IInv, Shape
<1>3. Traverser(w)' = Traverser(w)
  BY DEF Traverser
<1> QED
  BY <1>1, <1>2, <1>3, TraverserIs, ReplaceWhole

LEMMA StayWhole ==
  ASSUME IInv, Values, NEW w \in Worker, Active(w), NEW f, FrameOK(f),
         Filled(f, Traverser(w)), f.node = Top(w).node, Goto(w, f), UNCHANGED todo
  PROVE  Whole(stack'[w], Traverser(w)')
<1>1. FrameOK(Top(w)) /\ Traverser(w) \in Player
  BY TopWhole, TraverserIs
<1>2. Scale[Traverser(w)][Top(w).node] \in Int
  BY <1>1, NodeIs
<1> QED
  BY <1>2, MultipleSelf, GotoWhole

\* Returning a value that is fine enough for the caller.
LEMMA ReturnWhole ==
  ASSUME IInv, Values, NEW w \in Worker, Active(w), NEW value, NEW owed,
         Multiple(value, Scale[Traverser(w)][Top(w).node]),
         ReturnWith(w, value, owed)
  PROVE  Whole(stack'[w], Traverser(w)')
<1> DEFINE s == stack[w]
           p == Traverser(w)
<1>1. /\ Sound(s) /\ s # << >> /\ Whole(s, p) /\ Top(w) = s[Len(s)] /\ p \in Player
  BY TopWhole, TraverserIs
<1>2. CASE Len(s) = 1
  <2>1. stack'[w] = << >>
    BY <1>2 DEF ReturnWith, IInv, Shape
  <2> QED
    BY <2>1 DEF Whole
<1>3. CASE Len(s) # 1
  <2> DEFINE b == SubSeq(s, 1, Len(s) - 1)
             c == b[Len(s) - 1]
             f == WithValue(c, value)
             t == [b EXCEPT ![Len(s) - 1] = f]
  <2>1. stack' = [stack EXCEPT ![w] = t] /\ todo' = todo
    BY <1>3 DEF ReturnWith, Below
  <2>2. stack'[w] = t /\ Traverser(w)' = p
    BY <2>1 DEF IInv, Shape, Traverser
  <2>3. FrameOK(c) /\ ~c.storing /\ c = s[Len(s) - 1]
    BY <1>1, <1>3, Caller
  <2>4. Len(s) \in Nat \ {0}
    BY <1>1, Front DEF Sound
  <2> DEFINE n == Len(s)
             m == n - 1
  <2>5. m \in 1 .. n - 1 /\ m \in 1 .. n /\ m + 1 = n
    <3>1. n \in Nat \ {0} /\ n # 1
      BY <1>3, <2>4
    <3> HIDE DEF n
    <3> QED
      BY <3>1
  <2>6. /\ Filled(c, p) /\ c.step = "child"
        /\ Multiple(Scale[p][Top(w).node], Unit * Scale[p][c.node])
    <3> HIDE DEF m
    <3>1. /\ Filled(s[m], p) /\ s[m].step = "child"
          /\ Multiple(Scale[p][s[m + 1].node], Unit * Scale[p][s[m].node])
      BY <1>1, <2>5 DEF Whole
    <3>2. c = s[m] /\ Top(w) = s[m + 1]
      BY <1>1, <2>3, <2>5 DEF m
    <3> QED
      BY <3>1, <3>2
  <2> HIDE DEF c, p
  <2>7. Unit * Scale[p][c.node] \in Int
    BY <1>1, <2>3, NodeIs
  <2>8. Multiple(value, Unit * Scale[p][c.node])
    BY <2>6, <2>7, MultipleTrans DEF p
  <2>9. Filled(f, p) /\ f.node = c.node
    BY <1>1, <2>3, <2>6, <2>8, ValueFilled
  <2>10. FrameOK(f)
    BY <2>3, WithValueOK
  <2> HIDE DEF f
  <2>11. Whole(t, p)
    BY <1>1, <1>3, <2>3, <2>9, <2>10, PopWhole
  <2> QED
    BY <2>2, <2>11
<1> QED
  BY <1>2, <1>3

\* Each step of a worker leaves its stack whole.
LEMMA StartWhole ==
  ASSUME IInv, Values, NEW w \in Worker, StartTraversal(w)
  PROVE  Whole(stack'[w], Traverser(w)')
<1>1. PICK n \in Landing[Root] : stack' = [stack EXCEPT ![w] = <<Frame(n)>>]
  BY DEF StartTraversal
<1>2. n \in Decision
  BY LandingAssumption
<1>3. stack'[w] = <<Frame(n)>> /\ Traverser(w)' \in Player
  BY <1>1 DEF IInv, Shape, Traverser, Player
<1> QED
  BY <1>2, <1>3, FrameFilled, BeginWhole

LEMMA ReadWhole ==
  ASSUME IInv, Values, NEW w \in Worker, ReadRegret(w)
  PROVE  Whole(stack'[w], Traverser(w)')
<1> DEFINE f == Top(w)
           p == Traverser(w)
           value == cumulative_regrets[EntryOf(f)]
           row == Append(f.strategy, value)
           last == f.i = ActionCount(f)
           matched == IF last THEN Matched(row) ELSE row
           read == [f EXCEPT !.strategy = matched]
           step == IF Mover[f.node] # p THEN "sum" ELSE "child"
           g == NextAction(read, step)
<1>1. Active(w) /\ f.step = "read" /\ UNCHANGED todo
  BY DEF ReadRegret, At
<1>2. FrameOK(f) /\ Filled(f, p) /\ p \in Player
  BY <1>1, TopWhole, TraverserIs
<1>3. ~f.storing
  BY <1>1, <1>2 DEF FrameOK
<1>4. Goto(w, g)
  BY DEF ReadRegret
<1>5. value \in Int /\ step \in {"sum", "child"} /\ (step = "child" => Mover[f.node] = p)
  <2>1. EntryOf(f) \in Entry
    BY <1>2, NodeIs
  <2> QED
    BY <2>1 DEF Values
<1> HIDE DEF f, value, step, p
<1>6. Filled(g, p) /\ g.node = f.node
  BY <1>1, <1>2, <1>5, ReadFilled
<1> HIDE DEF matched
<1>7. FrameOK(read) /\ ~read.storing
  BY <1>2, <1>3, ReadOK
<1> HIDE DEF read
<1>8. FrameOK(g)
  BY <1>7, NextActionOK
<1> HIDE DEF g
<1> QED
  BY <1>1, <1>4, <1>6, <1>8, StayWhole DEF f, p

LEMMA LoadWhole ==
  ASSUME IInv, Values, NEW w \in Worker, Load(w)
  PROVE  Whole(stack'[w], Traverser(w)')
<1> DEFINE f == Top(w)
           table == IF At(w, "sum") THEN strategy_sums ELSE cumulative_regrets
           value == table[EntryOf(f)]
           g == [f EXCEPT !.storing = TRUE, !.held = value]
<1>1. Active(w) /\ f.step \in {"sum", "regret"} /\ UNCHANGED todo
  BY DEF Load, At
<1>2. FrameOK(f) /\ Filled(f, Traverser(w)) /\ Traverser(w) \in Player
  BY <1>1, TopWhole, TraverserIs
<1>3. Goto(w, g)
  BY DEF Load
<1>4. value \in Int
  <2>1. EntryOf(f) \in Entry
    BY <1>2, NodeIs
  <2> QED
    BY <2>1 DEF Values
<1> HIDE DEF f, value
<1>5. FrameOK(g) /\ Filled(g, Traverser(w)) /\ g.node = f.node
  BY <1>1, <1>2, <1>4, LoadOK, LoadFilled
<1> HIDE DEF g
<1> QED
  BY <1>1, <1>3, <1>5, StayWhole DEF f

LEMMA SumWhole ==
  ASSUME IInv, Values, NEW w \in Worker, AddSum(w)
  PROVE  Whole(stack'[w], Traverser(w)')
<1> DEFINE f == Top(w)
           g == NextAction(Stored(f), "sample")
<1>1. Active(w) /\ f.step = "sum" /\ UNCHANGED todo /\ Goto(w, g)
  BY DEF AddSum, At
<1>2. FrameOK(f) /\ Filled(f, Traverser(w)) /\ Traverser(w) \in Player
  BY <1>1, TopWhole, TraverserIs
<1> HIDE DEF f
<1>3. Filled(g, Traverser(w)) /\ g.node = f.node
  BY <1>1, <1>2, StoredFilled
<1>4. FrameOK(Stored(f)) /\ ~Stored(f).storing
  BY <1>2, StoredOK
<1>5. FrameOK(g)
  BY <1>4, NextActionOK
<1> HIDE DEF g
<1> QED
  BY <1>1, <1>3, <1>5, StayWhole DEF f

\* What is below a node is as fine as the node, and finer where p moves.
LEMMA ChildScale ==
  ASSUME NEW p \in Player, NEW n \in Decision, NEW k \in 1 .. Len(Child[n]),
         NEW m \in Landing[Child[n][k]]
  PROVE  /\ Multiple(Scale[p][m], Scale[p][n])
         /\ Mover[n] = p => Multiple(Scale[p][m], Unit * Scale[p][n])
         /\ Kind[m] = "terminal" => Multiple(Result(m, p), Scale[p][m])
         /\ Scale[p][m] \in Nat \ {0} /\ Scale[p][n] \in Nat \ {0}
<1> DEFINE a == Scale[p][m]
           b == Scale[p][n]
<1>1. k \in Actions(n) /\ m \in Node /\ n \in Node
  BY LandingAssumption DEF Actions, Decision
<1>2. a \in Nat \ {0} /\ b \in Nat \ {0} /\ Unit \in Nat \ {0}
  BY <1>1, ScaleAssumption, TreeAssumption
<1>3. a % (IF Mover[n] = p THEN Unit * b ELSE b) = 0
  BY <1>1, ScaleAssumption
<1>4. ASSUME Kind[m] = "terminal"
      PROVE  Multiple(Result(m, p), a)
  <2>1. Utility[m] \in Int /\ Utility[m] % a = 0
    BY <1>1, <1>4, ScaleAssumption
  <2>2. Multiple(Utility[m], a) /\ Multiple(-Utility[m], a)
    <3> DEFINE u == Utility[m]
    <3> HIDE DEF u, a
    <3>1. Multiple(u, a) /\ Multiple(-u, a)
      BY <1>2, <2>1, MultipleOfMod DEF u
    <3> QED
      BY <3>1 DEF u
  <2> QED
    BY <2>2 DEF Result
<1> HIDE DEF a, b
<1>5. Unit * b \in Nat \ {0}
  BY <1>2
<1>6. CASE Mover[n] = p
  <2>1. Multiple(a, Unit * b)
    BY <1>2, <1>3, <1>5, <1>6, MultipleOfMod
  <2>2. Multiple(Unit * b, b)
    BY <1>2 DEF Multiple
  <2> QED
    BY <1>2, <1>4, <2>1, <2>2, MultipleTrans DEF a, b
<1>7. CASE Mover[n] # p
  <2>1. Multiple(a, b)
    BY <1>2, <1>3, <1>7, MultipleOfMod
  <2> QED
    BY <1>2, <1>4, <1>7, <2>1 DEF a, b
<1> QED
  BY <1>6, <1>7

LEMMA SampleWhole ==
  ASSUME IInv, Values, NEW w \in Worker, Sample(w)
  PROVE  Whole(stack'[w], Traverser(w)')
<1> DEFINE f == Top(w)
           p == Traverser(w)
<1>1. Active(w) /\ f.step = "sample"
  BY DEF Sample, At
<1>2. FrameOK(f) /\ p \in Player
  BY <1>1, TopWhole, TraverserIs
<1>3. PICK k \in Samples(f) : \E n \in Landing[Child[f.node][k]] :
        IF Kind[n] = "terminal" THEN Return(w, Result(n, p))
        ELSE Goto(w, Frame(n)) /\ UNCHANGED <<todo, ledger>>
  BY DEF Sample
<1>4. PICK n \in Landing[Child[f.node][k]] :
        IF Kind[n] = "terminal" THEN Return(w, Result(n, p))
        ELSE Goto(w, Frame(n)) /\ UNCHANGED <<todo, ledger>>
  BY <1>3
<1>5. f.node \in Decision /\ k \in 1 .. Len(Child[f.node])
  BY <1>2 DEF FrameOK, Samples, ActionCount
<1> DEFINE a == Scale[p][n]
           b == Scale[p][f.node]
<1>6. /\ Multiple(a, b)
      /\ Kind[n] = "terminal" => Multiple(Result(n, p), a)
      /\ b \in Int
  BY <1>2, <1>5, ChildScale
<1>7. CASE Kind[n] = "terminal"
  <2>1. ReturnWith(w, Result(n, p), ledger)
    BY <1>4, <1>7 DEF Return
  <2>2. Multiple(Result(n, p), b)
    <3> HIDE DEF a, b, p
    <3> QED
      BY <1>6, <1>7, MultipleTrans
  <2> QED
    BY <1>1, <2>1, <2>2, ReturnWhole
<1>8. CASE Kind[n] # "terminal"
  <2>1. n \in Decision
    BY <1>5, <1>8, LandsOn
  <2>2. FrameOK(Frame(n)) /\ Filled(Frame(n), p) /\ Frame(n).node = n
    BY <1>2, <2>1, FrameStarts, FrameFilled DEF Frame
  <2>3. Goto(w, Frame(n)) /\ UNCHANGED todo
    BY <1>4, <1>8
  <2> QED
    BY <1>1, <1>6, <2>2, <2>3, GotoWhole
<1> QED
  BY <1>7, <1>8

LEMMA TryWhole ==
  ASSUME IInv, Values, NEW w \in Worker, TryChild(w)
  PROVE  Whole(stack'[w], Traverser(w)')
<1> DEFINE f == Top(w)
           p == Traverser(w)
<1>1. Active(w) /\ f.step = "child" /\ UNCHANGED todo
  BY DEF TryChild, At
<1>2. /\ FrameOK(f) /\ Filled(f, p) /\ p \in Player
      /\ Sound(stack[w]) /\ stack[w] # << >> /\ Whole(stack[w], p)
      /\ f = stack[w][Len(stack[w])]
  BY <1>1, TopWhole, TraverserIs
<1>3. ~f.storing /\ f.node \in Decision /\ f.i \in 1 .. Len(Child[f.node])
      /\ Mover[f.node] = p
  BY <1>1, <1>2 DEF FrameOK, Filled
<1>4. PICK n \in Landing[Child[f.node][f.i]] :
        IF Kind[n] = "terminal"
        THEN Goto(w, WithValue(f, Result(n, p)))
        ELSE stack' = [stack EXCEPT ![w] = Append(@, Frame(n))]
  BY DEF TryChild
<1> DEFINE a == Scale[p][n]
           b == Unit * Scale[p][f.node]
<1>5. Multiple(a, b) /\ (Kind[n] = "terminal" => Multiple(Result(n, p), a))
  BY <1>2, <1>3, ChildScale
<1>6. b \in Int
  BY <1>2, NodeIs
<1>7. CASE Kind[n] = "terminal"
  <2> DEFINE g == WithValue(f, Result(n, p))
  <2>1. Multiple(Result(n, p), b)
    <3> HIDE DEF a, b, p
    <3> QED
      BY <1>5, <1>6, <1>7, MultipleTrans
  <2>2. Filled(g, p) /\ g.node = f.node
    BY <1>1, <1>2, <2>1, ValueFilled
  <2>3. FrameOK(g) /\ Goto(w, g)
    BY <1>2, <1>3, <1>4, <1>7, WithValueOK
  <2> HIDE DEF g
  <2> QED
    BY <1>1, <2>2, <2>3, StayWhole
<1>8. CASE Kind[n] # "terminal"
  <2>1. n \in Decision
    BY <1>3, <1>8, LandsOn
  <2>2. FrameOK(Frame(n)) /\ Filled(Frame(n), p) /\ Frame(n).node = n
    BY <1>2, <2>1, FrameStarts, FrameFilled DEF Frame
  <2>3. stack'[w] = Append(stack[w], Frame(n)) /\ Traverser(w)' = p
    BY <1>1, <1>4, <1>8 DEF IInv, Shape, Traverser
  <2> DEFINE g == Frame(n)
             s == stack[w]
  <2>4. Multiple(Scale[p][g.node], b) /\ b = Unit * Scale[p][s[Len(s)].node]
    BY <1>2, <1>5, <2>2
  <2>5. ~s[Len(s)].storing /\ s[Len(s)].step = "child"
    BY <1>1, <1>2, <1>3
  <2> HIDE DEF g, p, s, b
  <2>6. Whole(Append(s, g), p)
    BY <1>2, <2>2, <2>4, <2>5, PushWhole DEF g, s
  <2> QED
    BY <2>3, <2>6 DEF g, s
<1> QED
  BY <1>7, <1>8

LEMMA RegretWhole ==
  ASSUME IInv, Values, NEW w \in Worker, AddRegret(w)
  PROVE  Whole(stack'[w], Traverser(w)') /\ Increment(w) \in Int
<1> DEFINE f == Top(w)
           p == Traverser(w)
           owed == [ledger EXCEPT !.regrets[EntryOf(f)] = @ + Increment(w)]
<1>1. Active(w) /\ f.step = "regret"
  BY DEF AddRegret, At
<1>2. FrameOK(f) /\ Filled(f, p) /\ p \in Player
  BY <1>1, TopWhole, TraverserIs
<1>3. IF f.i < ActionCount(f)
      THEN /\ Goto(w, NextAction(Stored(f), "regret"))
           /\ UNCHANGED todo
      ELSE ReturnWith(w, NodeValue(f), owed)
  BY DEF AddRegret, Increment
<1>4. NodeValue(f) \in Int /\ Multiple(NodeValue(f), Scale[p][f.node])
  BY <1>1, <1>2, ValueExact
<1>5. Increment(w) \in Int
  <2>1. f.i \in 1 .. ActionCount(f)
    BY <1>2, NodeIs
  <2>2. f.values \in Seq(Int) /\ Len(f.values) = ActionCount(f)
    BY <1>1, <1>2 DEF Filled
  <2>3. f.values[f.i] \in Int
    BY <2>1, <2>2
  <2> QED
    BY <1>4, <2>3 DEF Increment
<1>6. CASE f.i < ActionCount(f)
  <2> DEFINE g == NextAction(Stored(f), "regret")
  <2>1. Goto(w, g) /\ UNCHANGED todo
    BY <1>3, <1>6
  <2>2. Filled(g, p) /\ g.node = f.node
    BY <1>1, <1>2, <1>6, StoredFilled
  <2>3. FrameOK(Stored(f)) /\ ~Stored(f).storing
    BY <1>2, StoredOK
  <2>4. FrameOK(g)
    BY <2>3, NextActionOK
  <2> HIDE DEF g
  <2> QED
    BY <1>1, <1>5, <2>1, <2>2, <2>4, StayWhole
<1>7. CASE ~(f.i < ActionCount(f))
  BY <1>1, <1>3, <1>4, <1>5, <1>7, ReturnWhole
<1> QED
  BY <1>6, <1>7

\* What an addition leaves in the table.
LEMMA AddedInt ==
  ASSUME NEW w \in Worker, NEW table \in [Entry -> Int], NEW increment \in Int,
         Top(w).held \in Int, EntryOf(Top(w)) \in Entry
  PROVE  /\ Added(w, table, increment) \in [Entry -> Int]
         /\ \A e \in Entry : e # EntryOf(Top(w)) => Added(w, table, increment)[e] = table[e]
         /\ Added(w, table, increment)[EntryOf(Top(w))]
              = (IF Concurrent THEN table[EntryOf(Top(w))] ELSE Top(w).held) + increment
<1> DEFINE e == EntryOf(Top(w))
           y == (IF Concurrent THEN table[e] ELSE Top(w).held) + increment
<1>1. y \in Int
  OBVIOUS
<1>2. Added(w, table, increment) = [table EXCEPT ![e] = y]
  BY DEF Added
<1> HIDE DEF e, y
<1>3. [table EXCEPT ![e] = y] \in [Entry -> Int]
  BY <1>1
<1> QED
  BY <1>2, <1>3 DEF e, y

\* Whatever a worker does, tables hold integers and activations stay whole.
LEMMA WorkerKeepsValues ==
  ASSUME IInv, Values, NEW w \in Worker, WorkerStep(w)
  PROVE  Values'
<1>1. Moved(w)
  BY WorkerMoves
<1>2. Whole(stack'[w], Traverser(w)')
  BY StartWhole, ReadWhole, LoadWhole, SumWhole, SampleWhole, TryWhole, RegretWhole
     DEF WorkerStep
<1>3. ASSUME NEW v \in Worker
      PROVE  Whole(stack'[v], Traverser(v)')
  <2>1. CASE v = w
    BY <1>2, <2>1
  <2>2. CASE v # w
    <3>1. stack'[v] = stack[v] /\ todo'[v] = todo[v]
      BY <1>1, <2>2, OthersStay DEF IInv
    <3> QED
      BY <3>1 DEF Values, Traverser
  <2> QED
    BY <2>1, <2>2
<1>4. cumulative_regrets' \in [Entry -> Int] /\ strategy_sums' \in [Entry -> Int]
  <2>1. CASE AddSum(w)
    <3> DEFINE x == Top(w).strategy[Top(w).i]
    <3>1. /\ Active(w) /\ At(w, "sum") /\ UNCHANGED cumulative_regrets
          /\ strategy_sums' = Added(w, strategy_sums, x)
      BY <2>1 DEF AddSum, At
    <3>2. FrameOK(Top(w)) /\ Filled(Top(w), Traverser(w)) /\ Top(w).step = "sum"
      BY <3>1, TopWhole DEF At
    <3>3. Top(w).i \in 1 .. ActionCount(Top(w)) /\ EntryOf(Top(w)) \in Entry
      BY <3>2, TraverserIs, NodeIs
    <3>4. /\ Top(w).strategy \in Seq(Int) /\ Top(w).held \in Int
          /\ Len(Top(w).strategy) = ActionCount(Top(w))
      BY <3>2 DEF Filled
    <3>5. x \in Int
      BY <3>3, <3>4
    <3> HIDE DEF x
    <3> QED
      BY <3>1, <3>3, <3>4, <3>5, AddedInt DEF Values
  <2>2. CASE AddRegret(w)
    <3>1. /\ Active(w) /\ UNCHANGED strategy_sums
          /\ cumulative_regrets' = Added(w, cumulative_regrets, Increment(w))
      BY <2>2, RegretMoves DEF AddRegret, At
    <3>2. /\ Top(w).held \in Int /\ Increment(w) \in Int
          /\ EntryOf(Top(w)) \in Entry
      BY <2>2, <3>1, TopWhole, RegretWhole, TraverserIs, NodeIs DEF Filled
    <3> QED
      BY <3>1, <3>2, AddedInt DEF Values
  <2>3. CASE ~AddSum(w) /\ ~AddRegret(w)
    <3>1. UNCHANGED <<cumulative_regrets, strategy_sums>>
      BY <2>3 DEF WorkerStep, StartTraversal, ReadRegret, Load, Sample, TryChild
    <3> QED
      BY <3>1 DEF Values
  <2> QED
    BY <2>1, <2>2, <2>3
<1> QED
  BY <1>3, <1>4 DEF Values

\* Between calls there are no activations.
LEMMA RestKeepsValues ==
  ASSUME IInv, Values, \A w \in Worker : todo[w] = 0,
         UNCHANGED <<stack, cumulative_regrets>>, strategy_sums' \in [Entry -> Int]
  PROVE  Values'
<1>1. \A w \in Worker : stack'[w] = << >>
  BY AtRest
<1>2. \A w \in Worker : Whole(stack'[w], Traverser(w)')
  BY <1>1 DEF Whole
<1> QED
  BY <1>2 DEF Values

LEMMA NextKeepsValues ==
  ASSUME IInv, Values, [Next]_vars
  PROVE  Values'
<1>1. CASE RunNothing \/ Stop \/ UNCHANGED vars
  <2>1. UNCHANGED <<cumulative_regrets, strategy_sums, todo, stack>>
    BY <1>1 DEF RunNothing, Stop, vars
  <2> QED
    BY <2>1 DEF Values, Traverser
<1>2. CASE RunIterations \/ Join \/ LoadStrategySums
  <2>1. call = Idle \/ Join
    BY <1>2 DEF RunIterations, LoadStrategySums
  <2>2. \A w \in Worker : todo[w] = 0
    BY <2>1 DEF Join, IInv, Owed
  <2>3. UNCHANGED <<stack, cumulative_regrets>>
    BY <1>2 DEF RunIterations, Join, LoadStrategySums
  <2>4. strategy_sums' = strategy_sums \/ strategy_sums' = FileTable
    BY <1>2 DEF RunIterations, Join, LoadStrategySums
  <2>5. FileTable \in [Entry -> Int]
    BY RequestAssumption DEF FileTable
  <2>6. strategy_sums' \in [Entry -> Int]
    BY <2>4, <2>5 DEF Values
  <2> QED
    BY <2>2, <2>3, <2>6, RestKeepsValues
<1>3. CASE \E w \in Worker : WorkerStep(w)
  BY <1>3, WorkerKeepsValues
<1> QED
  BY <1>1, <1>2, <1>3 DEF Next

LEMMA InitValues == Init => Values
<1> SUFFICES ASSUME Init PROVE Values
  OBVIOUS
<1>1. \A w \in Worker : stack[w] = << >>
  BY DEF Init
<1>2. \A w \in Worker : Whole(stack[w], Traverser(w))
  BY <1>1 DEF Whole
<1> QED
  BY <1>2 DEF Init, Values

\* The strategy that weighted a node's value also weights its regrets, so they
\* cancel, whatever other threads did to the row meanwhile.
THEOREM ResidualsAreZero == Spec => []ResidualZero
<1>1. IInv /\ Values => ResidualZero
  <2> SUFFICES ASSUME IInv, Values, NEW w \in Worker, At(w, "regret")
               PROVE  SumFunction([k \in 1 .. ActionCount(Top(w)) |->
                        Top(w).strategy[k] * (Top(w).values[k] - NodeValue(Top(w)))]) = 0
    BY DEF ResidualZero
  <2>1. /\ FrameOK(Top(w)) /\ Filled(Top(w), Traverser(w)) /\ Top(w).step = "regret"
        /\ Traverser(w) \in Player
    BY TopWhole, TraverserIs DEF At
  <2> QED
    BY <2>1, RegretsCancel
<1>2. Init => IInv /\ RegretsKept /\ Values
  BY InitKeeps, InitValues
<1>3. IInv /\ RegretsKept /\ Values /\ [Next]_vars => IInv' /\ RegretsKept' /\ Values'
  BY NextKeeps, NextKeepsValues
<1> QED
  BY <1>1, <1>2, <1>3, PTL DEF Spec

-----------------------------------------------------------------------------
(* Counters *)

\* A worker without a context of its own has not visited anything and owes
\* nothing.
Counters ==
  /\ iteration \in Int
  /\ contexts \in 0 .. Threads
  /\ visits \in [Worker -> Nat]
  /\ call \in [count : Nat, threads : 0 .. Threads]
  /\ calls \in 0 .. MaxCalls
  /\ \A w \in Worker : w >= contexts => visits[w] = 0 /\ todo[w] = 0
  /\ ledger.finished \in [Player -> Int]
  /\ ledger.iterationBase \in Int
  /\ ledger.loaded.mass \in Int /\ ledger.loaded.visits \in Int

\* What a worker's step does to what it owes and to the ledger: it may finish
\* a traversal.
Finishes(w) ==
  /\ stack'[w] = << >>
  /\ todo[w] > 0 /\ todo' = [todo EXCEPT ![w] = @ - 1]
  /\ ledger'.finished = [ledger.finished EXCEPT ![Traverser(w)] = @ + 1]

LEMMA WorkerCounts ==
  ASSUME IInv, NEW w \in Worker, WorkerStep(w)
  PROVE  /\ (UNCHANGED todo /\ ledger'.finished = ledger.finished) \/ Finishes(w)
         /\ ledger'.iterationBase = ledger.iterationBase
         /\ ledger'.loaded = ledger.loaded
<1>1. CASE ~Sample(w) /\ ~AddRegret(w)
  BY <1>1 DEF WorkerStep, StartTraversal, ReadRegret, Load, AddSum, TryChild
<1>2. ASSUME NEW value, NEW owed, ReturnWith(w, value, owed), IsLedger(owed),
             Active(w), owed.finished = ledger.finished,
             owed.iterationBase = ledger.iterationBase, owed.loaded = ledger.loaded
      PROVE  /\ (UNCHANGED todo /\ ledger'.finished = ledger.finished) \/ Finishes(w)
             /\ ledger'.iterationBase = ledger.iterationBase
             /\ ledger'.loaded = ledger.loaded
  <2>1. CASE Len(stack[w]) = 1
    <3> DEFINE finished == [owed.finished EXCEPT ![Traverser(w)] = @ + 1]
               closed == [owed EXCEPT !.finished = finished]
    <3>1. /\ stack' = [stack EXCEPT ![w] = << >>]
          /\ todo' = [todo EXCEPT ![w] = @ - 1] /\ ledger' = closed
      BY <1>2, <2>1 DEF ReturnWith
    <3>2. stack'[w] = << >> /\ todo[w] > 0
      BY <1>2, <3>1 DEF IInv, Shape, Owed
    <3>3. finished = [ledger.finished EXCEPT ![Traverser(w)] = @ + 1]
      BY <1>2
    <3> HIDE DEF finished
    <3>4. /\ closed.finished = finished /\ closed.iterationBase = owed.iterationBase
          /\ closed.loaded = owed.loaded
      BY <1>2, SetFinished
    <3> HIDE DEF closed
    <3> QED
      BY <1>2, <3>1, <3>2, <3>3, <3>4 DEF Finishes
  <2>2. CASE Len(stack[w]) # 1
    BY <1>2, <2>2 DEF ReturnWith
  <2> QED
    BY <2>1, <2>2
<1>3. IsLedger(ledger)
  BY DEF IInv, Shape
<1>4. CASE Sample(w)
  <2>1. PICK k \in Samples(Top(w)) : \E n \in Landing[Child[Top(w).node][k]] :
          IF Kind[n] = "terminal" THEN Return(w, Result(n, Traverser(w)))
          ELSE Goto(w, Frame(n)) /\ UNCHANGED <<todo, ledger>>
    BY <1>4 DEF Sample
  <2>2. PICK n \in Landing[Child[Top(w).node][k]] :
          \/ ReturnWith(w, Result(n, Traverser(w)), ledger)
          \/ UNCHANGED <<todo, ledger>>
    BY <2>1 DEF Return
  <2>3. Active(w)
    BY <1>4 DEF Sample, At
  <2> QED
    BY <1>2, <1>3, <2>2, <2>3
<1>5. CASE AddRegret(w)
  <2> DEFINE sums == [ledger.regrets EXCEPT ![EntryOf(Top(w))] = @ + Increment(w)]
             owed == [ledger EXCEPT !.regrets = sums]
  <2>1. Active(w)
    BY <1>5 DEF AddRegret, At
  <2>2. \/ ledger' = owed /\ UNCHANGED todo
        \/ ReturnWith(w, NodeValue(Top(w)), owed)
    BY <1>5 DEF AddRegret, Increment
  <2> HIDE DEF sums
  <2>3. /\ IsLedger(owed) /\ owed.finished = ledger.finished
        /\ owed.iterationBase = ledger.iterationBase /\ owed.loaded = ledger.loaded
    BY <1>3, SetRegrets
  <2> HIDE DEF owed
  <2> QED
    BY <1>2, <2>1, <2>2, <2>3
<1> QED
  BY <1>1, <1>4, <1>5

LEMMA WorkerKeepsCounters ==
  ASSUME IInv, Counters, NEW w \in Worker, WorkerStep(w)
  PROVE  Counters'
<1>1. UNCHANGED <<iteration, contexts, call, calls>>
  BY DEF WorkerStep, StartTraversal, ReadRegret, Load, AddSum, Sample, TryChild, AddRegret
<1>2. /\ (UNCHANGED todo /\ ledger'.finished = ledger.finished) \/ Finishes(w)
      /\ ledger'.iterationBase = ledger.iterationBase
      /\ ledger'.loaded = ledger.loaded
  BY WorkerCounts
<1>3. ledger'.finished \in [Player -> Int]
  BY <1>2, TraverserIs DEF Finishes, Counters
<1>4. UNCHANGED visits \/ (todo[w] > 0 /\ visits' = [visits EXCEPT ![w] = @ + 1])
  <2>1. CASE ReadRegret(w)
    <3>1. Active(w)
      BY <2>1 DEF ReadRegret, At
    <3>2. todo[w] > 0
      BY <3>1 DEF IInv, Owed
    <3> QED
      BY <2>1, <3>2 DEF ReadRegret
  <2>2. CASE ~ReadRegret(w)
    BY <2>2 DEF WorkerStep, StartTraversal, Load, AddSum, Sample, TryChild, AddRegret
  <2> QED
    BY <2>1, <2>2
<1>5. visits' \in [Worker -> Nat]
  BY <1>4 DEF Counters
<1>6. ASSUME NEW v \in Worker, v >= contexts
      PROVE  visits'[v] = 0 /\ todo'[v] = 0
  <2>1. visits[v] = 0 /\ todo[v] = 0
    BY <1>6 DEF Counters
  <2>2. UNCHANGED todo \/ v # w
    BY <1>2, <2>1 DEF Finishes
  <2>3. todo'[v] = todo[v]
    BY <1>2, <2>2 DEF Finishes, IInv, Shape
  <2>4. visits'[v] = visits[v]
    BY <1>4, <2>1 DEF Counters
  <2> QED
    BY <2>1, <2>3, <2>4
<1> QED
  BY <1>1, <1>2, <1>3, <1>5, <1>6 DEF Counters

LEMMA IterationReadInt ==
  ASSUME Counters, NEW file \in Files
  PROVE  IterationRead(file) \in Int
<1> DEFINE high == (iteration \div LowHalf) * LowHalf
           low == FileIterations % LowHalf
<1>1. high + low \in Int
  <2>1. iteration \div LowHalf \in Int /\ low \in Int /\ LowHalf \in Int
    BY RequestAssumption DEF Counters
  <2> QED
    BY <2>1
<1> HIDE DEF high, low
<1>2. /\ file \in {"missing", "cut_in_count", "cut_in_iteration", "other_size",
                   "cut_in_table", "trailing_bytes", "good"}
      /\ FileIterations \in Int /\ iteration \in Int
  BY RequestAssumption DEF Counters
<1> QED
  BY <1>1, <1>2 DEF IterationRead, high, low

\* What loading a file changes in the ledger.
LEMMA LoadedLedger ==
  ASSUME IInv, LoadStrategySums
  PROVE  \E file \in Files :
           /\ iteration' = IterationRead(file)
           /\ strategy_sums' = IF file = "good" THEN FileTable ELSE strategy_sums
           /\ ledger'.finished = ledger.finished
           /\ ledger'.iterationBase = ledger.iterationBase + IterationRead(file) - iteration
           /\ ledger'.loaded = IF file = "good"
                               THEN [mass |-> FileMass, visits |-> SumFunction(visits)]
                               ELSE ledger.loaded
<1>1. PICK file \in Files :
        /\ iteration' = IterationRead(file)
        /\ strategy_sums' = IF file = "good" THEN FileTable ELSE strategy_sums
        /\ ledger' =
             [ledger EXCEPT
                !.completed = IF file = "good" THEN FileIterations ELSE @,
                !.iterationBase = @ + IterationRead(file) - iteration,
                !.loaded = IF file = "good"
                           THEN [mass |-> FileMass, visits |-> SumFunction(visits)] ELSE @]
  BY DEF LoadStrategySums
<1> DEFINE completed == IF file = "good" THEN FileIterations ELSE ledger.completed
           base == ledger.iterationBase + IterationRead(file) - iteration
           mass == IF file = "good" THEN [mass |-> FileMass, visits |-> SumFunction(visits)]
                   ELSE ledger.loaded
           first  == [ledger EXCEPT !.completed = completed]
           second == [first EXCEPT !.iterationBase = base]
           third  == [second EXCEPT !.loaded = mass]
<1>2. ledger' = third
  BY <1>1
<1> HIDE DEF completed, base, mass
<1>3. /\ IsLedger(first) /\ first.finished = ledger.finished
      /\ first.iterationBase = ledger.iterationBase
  BY SetCompleted DEF IInv, Shape
<1> HIDE DEF first
<1>4. /\ IsLedger(second) /\ second.finished = first.finished
      /\ second.iterationBase = base
  BY <1>3, SetIterationBase
<1> HIDE DEF second
<1>5. /\ third.finished = second.finished /\ third.iterationBase = second.iterationBase
      /\ third.loaded = mass
  BY <1>4, SetLoaded
<1> HIDE DEF third
<1>6. /\ ledger'.finished = ledger.finished
      /\ ledger'.iterationBase = base /\ ledger'.loaded = mass
  BY <1>2, <1>3, <1>4, <1>5
<1> QED
  BY <1>1, <1>6 DEF base, mass

\* The workers are a finite set.
LEMMA WorkerIs == IsFiniteSet(Worker) /\ Worker \subseteq Nat
<1>1. Threads \in Nat
  BY RequestAssumption
<1>2. 0 \in Int /\ Threads - 1 \in Int
  BY <1>1
<1>3. IsFiniteSet(0 .. Threads - 1)
  BY <1>2, FS_Interval
<1> QED
  BY <1>1, <1>3 DEF Worker

LEMMA NextKeepsCounters ==
  ASSUME IInv, Values, Counters, [Next]_vars
  PROVE  Counters'
<1>1. CASE UNCHANGED <<iteration, contexts, visits, call, todo, ledger>> /\ (calls' = calls \/ RunNothing)
  <2>1. calls' \in 0 .. MaxCalls
    BY <1>1, RequestAssumption DEF Counters, RunNothing
  <2> QED
    BY <1>1, <2>1 DEF Counters
<1>2. CASE RunIterations
  <2>1. PICK request \in Requests :
          /\ ~Rejected(request) /\ request[1] > 0
          /\ call' = [count |-> request[1], threads |-> request[2]]
          /\ contexts' = IF contexts < request[2] THEN request[2] ELSE contexts
          /\ todo' = [w \in Worker |-> 2 * Share(request[1], request[2], w)]
    BY <1>2 DEF RunIterations
  <2>2. /\ request[1] \in Nat \ {0} /\ request[2] \in Nat \ {0}
        /\ request[2] <= Threads /\ Threads \in Nat
    BY <2>1, RequestAssumption DEF Rejected
  <2>3. /\ contexts' \in 0 .. Threads /\ contexts' >= contexts /\ contexts' >= request[2]
    BY <2>1, <2>2 DEF Counters
  <2>4. call' \in [count : Nat, threads : 0 .. Threads]
    BY <2>1, <2>2
  <2>5. ASSUME NEW w \in Worker, w >= contexts'
        PROVE  visits'[w] = 0 /\ todo'[w] = 0
    <3>1. w \in Int /\ w >= contexts /\ w >= request[2]
      BY <2>2, <2>3, <2>5, WorkerIs DEF Counters
    <3>2. Share(request[1], request[2], w) = 0
      BY <3>1 DEF Share
    <3> QED
      BY <1>2, <2>1, <3>1, <3>2 DEF RunIterations, Counters
  <2>6. calls' \in 0 .. MaxCalls
    BY <1>2, RequestAssumption DEF RunIterations, Counters
  <2>7. UNCHANGED <<iteration, visits, ledger>>
    BY <1>2 DEF RunIterations
  <2> QED
    BY <2>3, <2>4, <2>5, <2>6, <2>7 DEF Counters
<1>3. CASE Join
  <2> DEFINE completed == ledger.completed + call.count
  <2>1. /\ iteration' = iteration + call.count /\ call' = Idle
        /\ ledger' = [ledger EXCEPT !.completed = completed]
        /\ UNCHANGED <<contexts, visits, calls, todo>>
    BY <1>3 DEF Join
  <2>2. iteration' \in Int
    BY <2>1 DEF Counters
  <2>3. call' \in [count : Nat, threads : 0 .. Threads]
    BY <2>1, RequestAssumption DEF Idle
  <2> HIDE DEF completed
  <2>4. /\ ledger'.finished = ledger.finished /\ ledger'.loaded = ledger.loaded
        /\ ledger'.iterationBase = ledger.iterationBase
    BY <2>1, SetCompleted DEF IInv, Shape
  <2> QED
    BY <2>1, <2>2, <2>3, <2>4 DEF Counters
<1>4. CASE LoadStrategySums
  <2>1. UNCHANGED <<contexts, visits, call, todo>>
    BY <1>4 DEF LoadStrategySums
  <2>2. PICK file \in Files :
           /\ iteration' = IterationRead(file)
           /\ ledger'.finished = ledger.finished
           /\ ledger'.iterationBase = ledger.iterationBase + IterationRead(file) - iteration
           /\ ledger'.loaded = IF file = "good"
                               THEN [mass |-> FileMass, visits |-> SumFunction(visits)]
                               ELSE ledger.loaded
    BY <1>4, LoadedLedger
  <2>3. IterationRead(file) \in Int
    BY IterationReadInt
  <2>4. SumFunction(visits) \in Int
    <3>1. DOMAIN visits = Worker /\ IntOn(visits, Worker)
      BY DEF Counters, IntOn
    <3> QED
      BY <3>1, WorkerIs, SumAll, SumInt
  <2>5. ledger'.loaded.mass \in Int /\ ledger'.loaded.visits \in Int
    BY <2>2, <2>4, RequestAssumption DEF Counters
  <2>6. calls' \in 0 .. MaxCalls
    BY <1>4, RequestAssumption DEF LoadStrategySums, Counters
  <2> QED
    BY <2>1, <2>2, <2>3, <2>5, <2>6 DEF Counters
<1>5. CASE \E w \in Worker : WorkerStep(w)
  BY <1>5, WorkerKeepsCounters
<1> QED
  BY <1>1, <1>2, <1>3, <1>4, <1>5 DEF Next, RunNothing, Stop, vars

LEMMA InitCounters == Init => Counters
  BY RequestAssumption DEF Init, Counters, Idle, Player, NothingLoaded

\* Every variable holds what it should.
LEMMA TypesHold == ASSUME IInv, Values, Counters PROVE TypeOK
<1>1. ASSUME NEW w \in Worker, NEW j \in 1 .. Len(stack[w])
      PROVE  stack[w][j] \in Frames
  <2> DEFINE f == stack[w][j]
  <2>1. FrameOK(f) /\ Filled(f, Traverser(w))
    BY DEF IInv, Shape, Sound, Values, Whole
  <2>2. /\ IsFrame(f) /\ f.node \in Decision /\ f.i \in 1 .. ActionCount(f)
        /\ ActionCount(f) \in Nat /\ ActionCount(f) <= kStride /\ kStride \in Nat
    BY <2>1, TraverserIs, NodeIs, TreeAssumption
  <2> HIDE DEF f
  <2>3. f.i \in 1 .. kStride
    BY <2>2
  <2>4. f \in Frames
    BY <2>1, <2>2, <2>3 DEF FrameOK, Filled, IsFrame, Frames
  <2> QED
    BY <2>4 DEF f
<1>2. ASSUME NEW w \in Worker
      PROVE  stack[w] \in Seq(Frames)
  <2>1. PICK S : stack[w] \in Seq(S)
    BY DEF IInv, Shape, Sound
  <2> DEFINE s == stack[w]
  <2>2. Len(s) \in Nat /\ s = [j \in 1 .. Len(s) |-> s[j]]
    BY <2>1
  <2>3. \A j \in 1 .. Len(s) : s[j] \in Frames
    BY <1>1
  <2> HIDE DEF s
  <2>4. s \in [1 .. Len(s) -> Frames]
    BY <2>2, <2>3
  <2>5. s \in Seq(Frames)
    BY <2>2, <2>4
  <2> QED
    BY <2>5 DEF s
<1>3. stack \in [Worker -> Seq(Frames)]
  BY <1>2 DEF IInv, Shape
<1> QED
  BY <1>3 DEF TypeOK, IInv, Shape, Values, Counters

\* Type correctness, for every tree and any calls: the frames a thread has open
\* are those of run_traversal at a decision node, and both tables, the ledgers
\* and what is left to do hold integers, through every addition and every load.
THEOREM TypesAreOK == Spec => []TypeOK
<1>1. Init => IInv /\ RegretsKept /\ Values /\ Counters
  BY InitKeeps, InitValues, InitCounters
<1>2. /\ IInv /\ RegretsKept /\ Values /\ Counters /\ [Next]_vars
      => IInv' /\ RegretsKept' /\ Values' /\ Counters'
  BY NextKeeps, NextKeepsValues, NextKeepsCounters
<1>3. IInv /\ Values /\ Counters => TypeOK
  BY TypesHold
<1> QED
  BY <1>1, <1>2, <1>3, PTL DEF Spec

-----------------------------------------------------------------------------
(* Iterations *)

\* The traversals player p has yet to make: a worker's alternate, and the last
\* of them is player 1's.
Left(w, p) == IF p = 0 THEN todo[w] \div 2 ELSE (todo[w] + 1) \div 2
LeftOf(p) == [w \in Worker |-> Left(w, p)]

\* The shares of a call add up to its iterations.
LEMMA SharesAddUp ==
  ASSUME NEW count \in Nat, NEW threads \in 1 .. Threads
  PROVE  SumFunctionOnSet([w \in Worker |-> Share(count, threads, w)], Worker) = count
<1> DEFINE q == count \div threads
           r == count % threads
           share == [w \in Worker |-> Share(count, threads, w)]
           busy == 0 .. threads - 1
           equal == [w \in busy |-> q]
           extra == [w \in busy |-> IF w < r THEN 1 ELSE 0]
           first == 0 .. r - 1
<1>1. /\ threads \in Nat \ {0} /\ Threads \in Nat /\ threads <= Threads
  BY RequestAssumption
<1>2. /\ q \in Nat /\ r \in Nat /\ r < threads /\ count = q * threads + r
  BY <1>1
<1>3. /\ busy \subseteq Worker /\ first \subseteq busy /\ Worker \subseteq Nat
      /\ \A w \in Worker : w \in busy <=> w < threads
  BY <1>1, <1>2 DEF Worker
<1>4. /\ IsFiniteSet(busy) /\ Cardinality(busy) = threads
      /\ IsFiniteSet(first) /\ Cardinality(first) = r
  <2>1. threads - 1 \in Int /\ r - 1 \in Int /\ 0 \in Int
    BY <1>1, <1>2
  <2>2. /\ IsFiniteSet(busy) /\ Cardinality(busy) = IF 0 > threads - 1 THEN 0 ELSE threads - 1 - 0 + 1
    BY <2>1, FS_Interval
  <2>3. /\ IsFiniteSet(first) /\ Cardinality(first) = IF 0 > r - 1 THEN 0 ELSE r - 1 - 0 + 1
    BY <2>1, FS_Interval
  <2> HIDE DEF q, r
  <2> QED
    BY <1>1, <1>2, <2>2, <2>3
<1>5. \A w \in Worker : share[w] = IF w >= threads THEN 0 ELSE q + (IF w < r THEN 1 ELSE 0)
  BY DEF Share
<1> HIDE DEF share, q, r
<1>6. IntOn(share, Worker) /\ \A w \in Worker \ busy : share[w] = 0
  BY <1>1, <1>2, <1>3, <1>5 DEF IntOn
<1>7. SumFunctionOnSet(share, Worker) = SumFunctionOnSet(share, busy)
  BY <1>3, <1>6, WorkerIs, SumWide
<1>8. SumFunctionOnSet(share, busy) = SumFunctionOnSet(equal, busy) + SumFunctionOnSet(extra, busy)
  <2>1. IntOn(equal, busy) /\ IntOn(extra, busy)
    BY <1>2 DEF IntOn
  <2>2. \A w \in busy : share[w] = equal[w] + extra[w]
    BY <1>1, <1>2, <1>3, <1>5
  <2> HIDE DEF equal, extra, busy
  <2> QED
    BY <1>4, <2>1, <2>2, SumPlus
<1>9. SumFunctionOnSet(equal, busy) = q * threads
  <2>1. \A w \in busy : equal[w] = q
    OBVIOUS
  <2> HIDE DEF equal, busy
  <2> QED
    BY <1>2, <1>4, <2>1, SumConstant
<1>10. SumFunctionOnSet(extra, busy) = r
  <2>1. /\ IntOn(extra, busy) /\ \A w \in busy \ first : extra[w] = 0
        /\ \A w \in first : extra[w] = 1
    BY <1>1, <1>2, <1>3 DEF IntOn
  <2> HIDE DEF extra, busy, first
  <2>2. SumFunctionOnSet(extra, busy) = SumFunctionOnSet(extra, first)
    BY <1>3, <1>4, <2>1, SumWide
  <2>3. SumFunctionOnSet(extra, first) = 1 * r
    BY <1>4, <2>1, SumConstant
  <2> QED
    BY <1>2, <2>2, <2>3
<1> QED
  BY <1>2, <1>7, <1>8, <1>9, <1>10 DEF share

\* For each player, the traversals made and those still owed are the
\* iterations counted and those of the call in flight.
Traversals ==
  \A p \in Player :
    ledger.finished[p] + SumFunctionOnSet(LeftOf(p), Worker)
      = iteration - ledger.iterationBase + call.count

LEMMA LeftInt ==
  ASSUME Shape, NEW p
  PROVE  /\ IntOn(LeftOf(p), Worker)
         /\ SumFunctionOnSet(LeftOf(p), Worker) \in Int
<1>1. ASSUME NEW w \in Worker
      PROVE  Left(w, p) \in Int
  <2>1. todo[w] \in Nat
    BY DEF Shape
  <2> QED
    BY <2>1 DEF Left
<1>2. IntOn(LeftOf(p), Worker)
  BY <1>1 DEF IntOn, LeftOf
<1> QED
  BY <1>2, WorkerIs, SumInt

\* Nobody owes anything.
LEMMA NothingLeft ==
  ASSUME Shape, \A w \in Worker : todo[w] = 0, NEW p
  PROVE  SumFunctionOnSet(LeftOf(p), Worker) = 0
<1>1. \A w \in Worker : LeftOf(p)[w] = 0
  BY DEF LeftOf, Left
<1>2. SumFunctionOnSet(LeftOf(p), Worker) = SumFunctionOnSet(LeftOf(p), {})
  BY <1>1, LeftInt, WorkerIs, SumWide
<1> QED
  BY <1>2, SumEmpty

\* A traversal that finishes is one less for its traverser.
LEMMA FinishCounts ==
  ASSUME IInv, IInv', NEW w \in Worker, Finishes(w), NEW p \in Player
  PROVE  SumFunctionOnSet(LeftOf(p), Worker)'
           = SumFunctionOnSet(LeftOf(p), Worker) - (IF p = Traverser(w) THEN 1 ELSE 0)
<1> DEFINE t == todo[w]
           f == LeftOf(p)
           g == LeftOf(p)'
<1>1. t \in Nat \ {0} /\ todo'[w] = t - 1 /\ \A v \in Worker \ {w} : todo'[v] = todo[v]
  BY DEF Finishes, IInv, Shape
<1>2. IntOn(f, Worker) /\ IntOn(g, Worker)
  <2>1. IntOn(f, Worker)
    BY LeftInt DEF IInv
  <2>2. ASSUME NEW v \in Worker
        PROVE  g[v] \in Int
    <3>1. todo'[v] \in Nat
      BY DEF IInv, Shape
    <3> QED
      BY <3>1 DEF LeftOf, Left
  <2> QED
    BY <2>1, <2>2 DEF IntOn
<1>3. \A v \in Worker \ {w} : f[v] = g[v]
  BY <1>1 DEF LeftOf, Left
<1>4. g[w] = f[w] - (IF p = Traverser(w) THEN 1 ELSE 0)
  <2>1. /\ f[w] = IF p = 0 THEN t \div 2 ELSE (t + 1) \div 2
        /\ g[w] = IF p = 0 THEN (t - 1) \div 2 ELSE ((t - 1) + 1) \div 2
        /\ Traverser(w) = IF t % 2 = 0 THEN 0 ELSE 1
        /\ p = 0 \/ p = 1
    BY <1>1 DEF LeftOf, Left, Traverser, Player
  <2> HIDE DEF t, f, g
  <2>2. CASE t % 2 = 0
    <3>1. (t - 1) \div 2 = t \div 2 - 1 /\ ((t - 1) + 1) \div 2 = (t + 1) \div 2
      BY <1>1, <2>2
    <3> QED
      BY <1>1, <2>1, <2>2, <3>1
  <2>3. CASE t % 2 # 0
    <3>1. (t - 1) \div 2 = t \div 2 /\ ((t - 1) + 1) \div 2 = (t + 1) \div 2 - 1
      BY <1>1, <2>3
    <3> QED
      BY <1>1, <2>1, <2>3, <3>1
  <2> QED
    BY <2>2, <2>3
<1> HIDE DEF f, g
<1>5. SumFunctionOnSet(g, Worker) = SumFunctionOnSet(f, Worker) + g[w] - f[w]
  BY <1>2, <1>3, WorkerIs, SumChange, ZenonT(30)
<1>6. f[w] \in Int /\ g[w] \in Int /\ SumFunctionOnSet(f, Worker) \in Int
  BY <1>2, WorkerIs, SumInt DEF IntOn
<1>7. SumFunctionOnSet(g, Worker) = SumFunctionOnSet(f, Worker) - (IF p = Traverser(w) THEN 1 ELSE 0)
  BY <1>4, <1>5, <1>6
<1> QED
  BY <1>7 DEF f, g

LEMMA NextKeepsTraversals ==
  ASSUME IInv, RegretsKept, IInv', Values, Counters, Traversals, [Next]_vars
  PROVE  Traversals'
<1> SUFFICES ASSUME NEW p \in Player
             PROVE  ledger'.finished[p] + SumFunctionOnSet(LeftOf(p), Worker)'
                      = iteration' - ledger'.iterationBase + call'.count
  BY DEF Traversals
<1> DEFINE sum == SumFunctionOnSet(LeftOf(p), Worker)
<1>1. /\ ledger.finished[p] + sum = iteration - ledger.iterationBase + call.count
      /\ ledger.finished[p] \in Int /\ sum \in Int /\ iteration \in Int
      /\ ledger.iterationBase \in Int /\ call.count \in Nat
  BY LeftInt DEF Traversals, Counters, IInv
<1>2. UNCHANGED todo => UNCHANGED sum
  BY DEF LeftOf, Left
<1>3. CASE UNCHANGED <<iteration, call, todo, ledger>>
  BY <1>1, <1>2, <1>3
<1>4. CASE RunIterations
  <2>1. PICK request \in Requests :
          /\ ~Rejected(request) /\ request[1] > 0
          /\ call' = [count |-> request[1], threads |-> request[2]]
          /\ todo' = [w \in Worker |-> 2 * Share(request[1], request[2], w)]
    BY <1>4 DEF RunIterations
  <2> DEFINE c == request[1]
             h == request[2]
             shares == [w \in Worker |-> Share(c, h, w)]
  <2>2. c \in Nat \ {0} /\ h \in 1 .. Threads
    BY <2>1, RequestAssumption DEF Rejected
  <2>3. /\ call = Idle /\ call.count = 0 /\ call'.count = c
        /\ UNCHANGED <<iteration, ledger>>
    BY <1>4, <2>1 DEF RunIterations, Idle
  <2>4. \A w \in Worker : todo[w] = 0
    BY <2>3 DEF IInv, Owed
  <2>5. sum = 0
    BY <2>4, NothingLeft DEF IInv
  <2> HIDE DEF c, h
  <2>6. ASSUME NEW w \in Worker
        PROVE  LeftOf(p)'[w] = shares[w]
    <3> DEFINE share == Share(c, h, w)
    <3>1. share \in Nat /\ todo'[w] = 2 * share
      BY <2>1, <2>2, SharesAre DEF c, h
    <3> HIDE DEF share
    <3>2. (2 * share) \div 2 = share /\ (2 * share + 1) \div 2 = share
      BY <3>1
    <3> QED
      BY <3>1, <3>2 DEF LeftOf, Left, share
  <2>7. LeftOf(p)' = shares
    BY <2>6 DEF LeftOf
  <2>8. sum' = c
    BY <2>2, <2>7, SharesAddUp
  <2> QED
    BY <1>1, <2>2, <2>3, <2>5, <2>8
<1>5. CASE Join
  <2> DEFINE completed == ledger.completed + call.count
  <2>1. /\ iteration' = iteration + call.count /\ call'.count = 0
        /\ ledger' = [ledger EXCEPT !.completed = completed]
        /\ UNCHANGED todo
    BY <1>5 DEF Join, Idle
  <2> HIDE DEF completed
  <2>2. /\ ledger'.finished = ledger.finished
        /\ ledger'.iterationBase = ledger.iterationBase
    BY <2>1, SetCompleted DEF IInv, Shape
  <2>3. UNCHANGED sum
    BY <1>2, <2>1
  <2> QED
    BY <1>1, <2>1, <2>2, <2>3
<1>6. CASE LoadStrategySums
  <2>1. UNCHANGED <<call, todo>>
    BY <1>6 DEF LoadStrategySums
  <2>2. PICK file \in Files :
           /\ iteration' = IterationRead(file)
           /\ ledger'.finished = ledger.finished
           /\ ledger'.iterationBase = ledger.iterationBase + IterationRead(file) - iteration
    BY <1>6, LoadedLedger
  <2>3. IterationRead(file) \in Int
    BY IterationReadInt
  <2>4. UNCHANGED sum
    BY <1>2, <2>1
  <2> QED
    BY <1>1, <2>1, <2>2, <2>3, <2>4
<1>7. ASSUME NEW w \in Worker, WorkerStep(w)
      PROVE  ledger'.finished[p] + sum' = iteration' - ledger'.iterationBase + call'.count
  <2>1. /\ (UNCHANGED todo /\ ledger'.finished = ledger.finished) \/ Finishes(w)
        /\ ledger'.iterationBase = ledger.iterationBase
    BY <1>7, WorkerCounts
  <2>2. UNCHANGED <<iteration, call>>
    BY <1>7 DEF WorkerStep, StartTraversal, ReadRegret, Load, AddSum, Sample, TryChild, AddRegret
  <2>3. CASE UNCHANGED todo /\ ledger'.finished = ledger.finished
    BY <1>1, <1>2, <2>1, <2>2, <2>3
  <2>4. CASE Finishes(w)
    <3>1. sum' = sum - (IF p = Traverser(w) THEN 1 ELSE 0)
      BY <2>4, FinishCounts
    <3>2. ledger'.finished[p] = ledger.finished[p] + (IF p = Traverser(w) THEN 1 ELSE 0)
      BY <2>4 DEF Finishes, Counters
    <3> HIDE DEF sum
    <3> QED
      BY <1>1, <2>1, <2>2, <3>1, <3>2
  <2> QED
    BY <2>1, <2>3, <2>4
<1> QED
  BY <1>3, <1>4, <1>5, <1>6, <1>7 DEF Next, RunNothing, Stop, vars

LEMMA InitTraversals == ASSUME Init, IInv PROVE Traversals
<1>1. \A w \in Worker : todo[w] = 0
  BY DEF Init
<1>2. \A p \in Player : SumFunctionOnSet(LeftOf(p), Worker) = 0
  BY <1>1, NothingLeft DEF IInv
<1> QED
  BY <1>2 DEF Init, Traversals, Idle

\* Everything that holds in every reachable state of the solver, but for the
\* strategy mass.
Everything == IInv /\ RegretsKept /\ Values /\ Counters /\ Traversals

LEMMA EverythingHolds == Spec => []Everything
<1>1. Init => Everything
  BY InitKeeps, InitValues, InitCounters, InitTraversals DEF Everything
<1>2. Everything /\ [Next]_vars => Everything'
  <2> SUFFICES ASSUME Everything, [Next]_vars PROVE Everything'
    OBVIOUS
  <2>1. IInv' /\ RegretsKept'
    BY NextKeeps DEF Everything
  <2>2. Values' /\ Counters'
    BY NextKeepsValues, NextKeepsCounters DEF Everything
  <2>3. Traversals'
    BY <2>1, NextKeepsTraversals DEF Everything
  <2> QED
    BY <2>1, <2>2, <2>3 DEF Everything
<1> QED
  BY <1>1, <1>2, PTL DEF Spec

\* No iteration is lost or run twice, however they are shared out among the
\* threads of a call: at rest each player has traversed once for each one.
THEOREM IterationsAreExact == Spec => []IterationsExact
<1>1. Everything => IterationsExact
  <2> SUFFICES ASSUME Everything, call = Idle
               PROVE  /\ \A w \in Worker : ~Active(w)
                      /\ \A p \in Player :
                           ledger.finished[p] = iteration - ledger.iterationBase
    BY DEF IterationsExact
  <2>1. \A w \in Worker : todo[w] = 0
    BY DEF Everything, IInv, Owed
  <2>2. \A w \in Worker : ~Active(w)
    BY <2>1, AtRest DEF Everything
  <2>3. ASSUME NEW p \in Player
        PROVE  ledger.finished[p] = iteration - ledger.iterationBase
    <3>1. SumFunctionOnSet(LeftOf(p), Worker) = 0
      BY <2>1, NothingLeft DEF Everything, IInv
    <3>2. /\ ledger.finished[p] + SumFunctionOnSet(LeftOf(p), Worker)
               = iteration - ledger.iterationBase + call.count
          /\ ledger.finished[p] \in Int /\ iteration \in Int /\ ledger.iterationBase \in Int
          /\ call.count = 0
      BY DEF Everything, Traversals, Counters, Idle
    <3> QED
      BY <3>1, <3>2
  <2> QED
    BY <2>2, <2>3
<1> QED
  BY <1>1, EverythingHolds, PTL

-----------------------------------------------------------------------------
(* Strategy mass *)

\* What is on its way to the average, from the innermost activation of a stack.
Pending(s) ==
  IF s # << >> /\ s[Len(s)].step = "sum"
  THEN LET f == s[Len(s)]
       IN  SumFunction([k \in f.i .. ActionCount(f) |-> f.strategy[k]])
  ELSE 0

LEMMA UnsentIs == \A w : Unsent(w) = Pending(stack[w]) /\ Unsent(w)' = Pending(stack'[w])
  BY DEF Unsent, Pending, At, Active, Top

LEMMA PendingIs ==
  ASSUME NEW p \in Player, NEW f, FrameOK(f), Filled(f, p), f.step = "sum",
         NEW s, s # << >>, s[Len(s)] = f
  PROVE  /\ Pending(s) = SumFunctionOnSet(f.strategy, f.i .. ActionCount(f))
         /\ IntOn(f.strategy, f.i .. ActionCount(f))
         /\ IsFiniteSet(f.i .. ActionCount(f))
         /\ Pending(s) \in Int
<1> DEFINE n == ActionCount(f)
           D == f.i .. n
           g == [k \in D |-> f.strategy[k]]
<1>1. n \in Nat /\ f.i \in 1 .. n /\ f.i \in Int /\ n \in Int
  BY NodeIs
<1>2. IsFiniteSet(D)
  BY <1>1, FS_Interval
<1>3. f.strategy \in Seq(Int) /\ Len(f.strategy) = n
  BY DEF Filled
<1>4. IntOn(f.strategy, D)
  BY <1>1, <1>3 DEF IntOn
<1>5. SumFunctionOnSet(f.strategy, D) = SumFunctionOnSet(g, D)
  <2>1. \A k \in D : f.strategy[k] = g[k]
    OBVIOUS
  <2> HIDE DEF g, D
  <2> QED
    BY <1>2, <1>4, <2>1, SumSame
<1>6. Pending(s) = SumFunction(g) /\ SumFunction(g) = SumFunctionOnSet(g, D)
  BY SumAll DEF Pending
<1> QED
  BY <1>2, <1>4, <1>5, <1>6, SumInt

\* Nothing is on its way from an activation that is not adding to the average.
LEMMA PendingNot ==
  ASSUME NEW s, s # << >> => s[Len(s)].step # "sum"
  PROVE  Pending(s) = 0
  BY DEF Pending

LEMMA GotoTop ==
  ASSUME IInv, NEW w \in Worker, Active(w), NEW f, FrameOK(f), Goto(w, f)
  PROVE  stack'[w] # << >> /\ stack'[w][Len(stack'[w])] = f
<1> DEFINE t == Append(SubSeq(stack[w], 1, Len(stack[w]) - 1), f)
<1>1. Sound(stack[w]) /\ stack[w] # << >>
  BY DEF IInv, Shape, Active
<1>2. t # << >> /\ t[Len(t)] = f
  BY <1>1, Replace
<1>3. stack'[w] = t
  BY DEF Goto, Below, IInv, Shape
<1> HIDE DEF t
<1> QED
  BY <1>2, <1>3

\* A caller that is given a value goes on trying actions or adds its regrets.
LEMMA ValueStep ==
  ASSUME NEW f, FrameOK(f), f.step = "child", NEW value
  PROVE  WithValue(f, value).step \in {"child", "regret"}
<1> DEFINE values == Append(f.values, value)
           h == [f EXCEPT !.values = values]
           g == NextAction(h, "regret")
<1>1. g = WithValue(f, value)
  BY DEF WithValue
<1> HIDE DEF values
<1>2. IsFrame(h) /\ h.step = "child"
  BY SetValues DEF FrameOK
<1> HIDE DEF h
<1>3. g.step \in {h.step, "regret"}
  BY <1>2, NextActionIs
<1> QED
  BY <1>1, <1>2, <1>3

LEMMA ReturnPending ==
  ASSUME IInv, Values, NEW w \in Worker, Active(w), NEW value, NEW owed,
         ReturnWith(w, value, owed)
  PROVE  Pending(stack'[w]) = 0
<1> DEFINE s == stack[w]
<1>1. Sound(s) /\ s # << >> /\ Whole(s, Traverser(w))
  BY TopWhole
<1>2. CASE Len(s) = 1
  <2>1. stack'[w] = << >>
    BY <1>2 DEF ReturnWith, IInv, Shape
  <2> QED
    BY <2>1, PendingNot
<1>3. CASE Len(s) # 1
  <2> DEFINE b == SubSeq(s, 1, Len(s) - 1)
             c == b[Len(s) - 1]
             f == WithValue(c, value)
             t == [b EXCEPT ![Len(s) - 1] = f]
  <2>1. stack'[w] = t
    BY <1>3 DEF ReturnWith, Below, IInv, Shape
  <2>2. FrameOK(c) /\ ~c.storing /\ c = s[Len(s) - 1]
    BY <1>1, <1>3, Caller
  <2>3. Len(s) \in Nat \ {0}
    BY <1>1, Front DEF Sound
  <2> DEFINE n == Len(s)
             m == n - 1
  <2>4. m \in 1 .. n - 1
    <3>1. n \in Nat \ {0} /\ n # 1
      BY <1>3, <2>3
    <3> HIDE DEF n
    <3> QED
      BY <3>1
  <2>5. c.step = "child"
    <3> HIDE DEF m
    <3>1. s[m].step = "child"
      BY <1>1, <2>4 DEF Whole
    <3> QED
      BY <2>2, <3>1 DEF m
  <2> HIDE DEF c
  <2>6. f.step \in {"child", "regret"}
    BY <2>2, <2>5, ValueStep
  <2>7. FrameOK(f)
    BY <2>2, WithValueOK
  <2> HIDE DEF f
  <2>8. t # << >> /\ t[Len(t)] = f
    BY <1>1, <1>3, <2>7, Pop
  <2> HIDE DEF t
  <2> QED
    BY <2>1, <2>6, <2>8, PendingNot
<1> QED
  BY <1>2, <1>3

\* Steps that have nothing to do with the average.
LEMMA QuietSteps ==
  ASSUME IInv, Values, NEW w \in Worker,
         StartTraversal(w) \/ Sample(w) \/ TryChild(w) \/ AddRegret(w)
  PROVE  Pending(stack[w]) = 0 /\ Pending(stack'[w]) = 0
<1>1. Pending(stack[w]) = 0
  <2>1. stack[w] # << >> => stack[w][Len(stack[w])].step # "sum"
    BY DEF StartTraversal, Sample, TryChild, AddRegret, At, Active, Top
  <2> QED
    BY <2>1, PendingNot
<1>2. ASSUME NEW n
      PROVE  Frame(n).step = "read"
  BY DEF Frame
<1>3. CASE StartTraversal(w)
  <2>1. PICK n \in Landing[Root] : stack' = [stack EXCEPT ![w] = <<Frame(n)>>]
    BY <1>3 DEF StartTraversal
  <2>2. stack'[w] = <<Frame(n)>>
    BY <2>1 DEF IInv, Shape
  <2>3. Len(<<Frame(n)>>) = 1 /\ <<Frame(n)>>[1] = Frame(n)
    OBVIOUS
  <2> QED
    BY <1>1, <1>2, <2>2, <2>3, PendingNot
<1>4. CASE Sample(w)
  <2>1. Active(w)
    BY <1>4 DEF Sample, At
  <2>2. FrameOK(Top(w))
    BY <2>1, TopWhole
  <2>3. PICK k \in Samples(Top(w)) : \E n \in Landing[Child[Top(w).node][k]] :
          IF Kind[n] = "terminal" THEN Return(w, Result(n, Traverser(w)))
          ELSE Goto(w, Frame(n)) /\ UNCHANGED <<todo, ledger>>
    BY <1>4 DEF Sample
  <2>4. PICK n \in Landing[Child[Top(w).node][k]] :
          IF Kind[n] = "terminal" THEN Return(w, Result(n, Traverser(w)))
          ELSE Goto(w, Frame(n)) /\ UNCHANGED <<todo, ledger>>
    BY <2>3
  <2>5. CASE Kind[n] = "terminal"
    BY <1>1, <2>1, <2>4, <2>5, ReturnPending DEF Return
  <2>6. CASE Kind[n] # "terminal"
    <3>1. n \in Decision
      BY <2>2, <2>6, LandsOn DEF FrameOK, Samples, ActionCount
    <3>2. FrameOK(Frame(n)) /\ Goto(w, Frame(n))
      BY <2>4, <2>6, <3>1, FrameStarts
    <3> QED
      BY <1>1, <1>2, <2>1, <3>2, GotoTop, PendingNot
  <2> QED
    BY <2>5, <2>6
<1>5. CASE TryChild(w)
  <2>1. Active(w) /\ Top(w).step = "child"
    BY <1>5 DEF TryChild, At
  <2>2. FrameOK(Top(w)) /\ ~Top(w).storing /\ Sound(stack[w])
        /\ Top(w) = stack[w][Len(stack[w])]
    BY <2>1, TopWhole DEF FrameOK
  <2>3. PICK n \in Landing[Child[Top(w).node][Top(w).i]] :
          IF Kind[n] = "terminal"
          THEN Goto(w, WithValue(Top(w), Result(n, Traverser(w))))
          ELSE stack' = [stack EXCEPT ![w] = Append(@, Frame(n))]
    BY <1>5 DEF TryChild
  <2>4. CASE Kind[n] = "terminal"
    <3> DEFINE g == WithValue(Top(w), Result(n, Traverser(w)))
    <3>1. FrameOK(g) /\ Goto(w, g)
      BY <2>2, <2>3, <2>4, WithValueOK
    <3>2. g.step \in {"child", "regret"}
      BY <2>1, <2>2, ValueStep
    <3> HIDE DEF g
    <3> QED
      BY <1>1, <2>1, <3>1, <3>2, GotoTop, PendingNot
  <2>5. CASE Kind[n] # "terminal"
    <3> DEFINE t == Append(stack[w], Frame(n))
    <3>1. n \in Decision
      BY <2>2, <2>5, LandsOn DEF FrameOK
    <3>2. t # << >> /\ t[Len(t)] = Frame(n)
      BY <2>2, <3>1, FrameStarts, Push
    <3>3. stack'[w] = t
      BY <2>3, <2>5 DEF IInv, Shape
    <3> HIDE DEF t
    <3> QED
      BY <1>1, <1>2, <3>2, <3>3, PendingNot
  <2> QED
    BY <2>4, <2>5
<1>6. CASE AddRegret(w)
  <2> DEFINE f == Top(w)
             g == NextAction(Stored(f), "regret")
             owed == [ledger EXCEPT !.regrets[EntryOf(f)] = @ + Increment(w)]
  <2>1. Active(w) /\ f.step = "regret"
    BY <1>6 DEF AddRegret, At
  <2>2. IF f.i < ActionCount(f) THEN Goto(w, g) ELSE ReturnWith(w, NodeValue(f), owed)
    BY <1>6 DEF AddRegret, Increment
  <2>3. FrameOK(f)
    BY <2>1, TopWhole
  <2> HIDE DEF f
  <2>4. FrameOK(Stored(f)) /\ ~Stored(f).storing /\ IsFrame(Stored(f)) /\ Stored(f).step = "regret"
    BY <2>1, <2>3, StoredOK, StoredIs DEF FrameOK
  <2>5. FrameOK(g) /\ g.step = "regret"
    BY <2>4, NextActionOK, NextActionIs
  <2> HIDE DEF g, owed
  <2>6. CASE f.i < ActionCount(f)
    BY <1>1, <2>1, <2>2, <2>5, <2>6, GotoTop, PendingNot
  <2>7. CASE ~(f.i < ActionCount(f))
    BY <1>1, <2>1, <2>2, <2>7, ReturnPending
  <2> QED
    BY <2>6, <2>7
<1> QED
  BY <1>3, <1>4, <1>5, <1>6

\* A visit is counted when the strategy that goes to the average is complete.
LEMMA ReadMass ==
  ASSUME IInv, Values, Counters, NEW w \in Worker, ReadRegret(w)
  PROVE  /\ Pending(stack[w]) = 0
         /\ \/ Pending(stack'[w]) = 0 /\ UNCHANGED visits
            \/ Pending(stack'[w]) = Unit /\ visits' = [visits EXCEPT ![w] = @ + 1]
<1> DEFINE f == Top(w)
           p == Traverser(w)
           value == cumulative_regrets[EntryOf(f)]
           row == Append(f.strategy, value)
           last == f.i = ActionCount(f)
           matched == IF last THEN Matched(row) ELSE row
           read == [f EXCEPT !.strategy = matched]
           opposing == Mover[f.node] # p
           step == IF opposing THEN "sum" ELSE "child"
           g == NextAction(read, step)
<1>1. /\ Active(w) /\ f.step = "read" /\ Goto(w, g)
      /\ visits' = IF last /\ opposing THEN [visits EXCEPT ![w] = @ + 1] ELSE visits
  BY DEF ReadRegret, At
<1>2. FrameOK(f) /\ Filled(f, p) /\ p \in Player /\ f = stack[w][Len(stack[w])]
  BY <1>1, TopWhole, TraverserIs
<1>3. ~f.storing /\ IsFrame(f) /\ f.i \in 1 .. ActionCount(f) /\ ActionCount(f) \in Nat
  BY <1>1, <1>2, NodeIs DEF FrameOK
<1>4. value \in Int /\ step \in {"sum", "child"} /\ (step = "child" => Mover[f.node] = p)
  <2>1. EntryOf(f) \in Entry
    BY <1>2, NodeIs
  <2> QED
    BY <2>1 DEF Values
<1>5. Pending(stack[w]) = 0
  BY <1>1, <1>2, PendingNot
<1> HIDE DEF f, value, opposing, p
<1>6. Filled(g, p) /\ g.node = f.node
  BY <1>1, <1>2, <1>4, ReadFilled, ZenonT(30)
<1> HIDE DEF matched
<1>7. /\ FrameOK(read) /\ ~read.storing /\ IsFrame(read) /\ read.step = "read"
      /\ read.i = f.i /\ read.node = f.node
  BY <1>1, <1>2, <1>3, ReadOK, SetStrategy, SMTT(30)
<1> HIDE DEF read
<1>8. /\ FrameOK(g)
      /\ read.i < ActionCount(read) => g.step = "read"
      /\ ~(read.i < ActionCount(read)) => g.i = 1 /\ g.step = step
  BY <1>7, NextActionOK, NextActionIs
<1>9. ActionCount(read) = ActionCount(f) /\ ActionCount(g) = ActionCount(f)
  BY <1>6, <1>7 DEF ActionCount
<1> HIDE DEF g
<1>10. stack'[w] # << >> /\ stack'[w][Len(stack'[w])] = g
  BY <1>1, <1>8, GotoTop
<1>11. CASE last /\ opposing
  <2>1. g.i = 1 /\ g.step = "sum"
    BY <1>3, <1>7, <1>8, <1>9, <1>11
  <2>2. Pending(stack'[w]) = SumFunctionOnSet(g.strategy, 1 .. ActionCount(g))
    BY <1>2, <1>6, <1>8, <1>10, <2>1, PendingIs
  <2>3. SumFunctionOnSet(g.strategy, 1 .. ActionCount(g)) = Unit
    BY <1>6, <2>1 DEF Filled
  <2> QED
    BY <1>1, <1>5, <1>11, <2>2, <2>3
<1>12. CASE ~(last /\ opposing)
  <2>1. g.step # "sum"
    BY <1>3, <1>7, <1>8, <1>9, <1>12
  <2> QED
    BY <1>1, <1>5, <1>10, <1>12, <2>1, PendingNot
<1> QED
  BY <1>11, <1>12

\* What is loaded for an addition is still on its way.
LEMMA LoadMass ==
  ASSUME IInv, Values, NEW w \in Worker, Load(w)
  PROVE  Pending(stack'[w]) = Pending(stack[w])
<1> DEFINE f == Top(w)
           table == IF At(w, "sum") THEN strategy_sums ELSE cumulative_regrets
           value == table[EntryOf(f)]
           g == [f EXCEPT !.storing = TRUE, !.held = value]
           on == TRUE
           h == [f EXCEPT !.storing = on]
           k == [h EXCEPT !.held = value]
<1>1. Active(w) /\ f.step \in {"sum", "regret"} /\ Goto(w, g) /\ stack[w] # << >>
  BY DEF Load, At, Active
<1>2. FrameOK(f) /\ f = stack[w][Len(stack[w])]
  BY <1>1, TopWhole
<1> HIDE DEF f, value
<1>3. FrameOK(g)
  BY <1>1, <1>2, LoadOK
<1>4. g = k
  OBVIOUS
<1> HIDE DEF g, on
<1>5. IsFrame(h) /\ h.i = f.i /\ h.node = f.node /\ h.step = f.step /\ h.strategy = f.strategy
  BY <1>2, SetStoring DEF FrameOK
<1> HIDE DEF h
<1>6. k.i = h.i /\ k.node = h.node /\ k.step = h.step /\ k.strategy = h.strategy
  BY <1>5, SetHeld
<1> HIDE DEF k
<1>7. /\ g.i = f.i /\ g.step = f.step /\ g.strategy = f.strategy
      /\ ActionCount(g) = ActionCount(f)
  BY <1>4, <1>5, <1>6 DEF ActionCount
<1>8. stack'[w] # << >> /\ stack'[w][Len(stack'[w])] = g
  BY <1>1, <1>3, GotoTop
<1> QED
  BY <1>1, <1>2, <1>7, <1>8 DEF Pending

\* What is loaded of the average is still there.
SumHeld ==
  \A w \in Worker : At(w, "sum") /\ Top(w).storing =>
    Top(w).held = strategy_sums[EntryOf(Top(w))]

\* An addition to the average moves as much out of the activation.
LEMMA AddMass ==
  ASSUME IInv, Values, SumHeld, NEW w \in Worker, AddSum(w)
  PROVE  /\ SumFunctionOnSet(strategy_sums', Entry) + Pending(stack'[w])
              = SumFunctionOnSet(strategy_sums, Entry) + Pending(stack[w])
         /\ Pending(stack'[w]) \in Int /\ Pending(stack[w]) \in Int
<1> DEFINE f == Top(w)
           p == Traverser(w)
           n == ActionCount(f)
           x == f.strategy[f.i]
           e == EntryOf(f)
           g == NextAction(Stored(f), "sample")
           D == f.i .. n
<1>1. /\ Active(w) /\ f.step = "sum" /\ Goto(w, g) /\ stack[w] # << >> /\ At(w, "sum")
      /\ strategy_sums' = Added(w, strategy_sums, x)
      /\ Concurrent \/ f.storing
  BY DEF AddSum, At, Active, CanAdd
<1>2. FrameOK(f) /\ Filled(f, p) /\ p \in Player /\ f = stack[w][Len(stack[w])]
  BY <1>1, TopWhole, TraverserIs
<1>3. /\ n \in Nat \ {0} /\ f.i \in 1 .. n /\ e \in Entry /\ IsFrame(f)
  BY <1>2, NodeIs
<1>4. /\ f.strategy \in Seq(Int) /\ Len(f.strategy) = n /\ f.held \in Int
  BY <1>1, <1>2 DEF Filled
<1>5. x \in Int
  BY <1>3, <1>4
<1>6. (IF Concurrent THEN strategy_sums[e] ELSE f.held) = strategy_sums[e]
  BY <1>1 DEF SumHeld
<1> HIDE DEF x
<1>7. /\ strategy_sums' \in [Entry -> Int]
      /\ \A d \in Entry : d # e => strategy_sums'[d] = strategy_sums[d]
      /\ strategy_sums'[e] = (IF Concurrent THEN strategy_sums[e] ELSE f.held) + x
  <2>1. strategy_sums \in [Entry -> Int]
    BY DEF Values
  <2>2. Top(w).held \in Int /\ EntryOf(Top(w)) \in Entry
    BY <1>3, <1>4
  <2>3. strategy_sums' = Added(w, strategy_sums, x)
    BY <1>1
  <2> QED
    BY <1>5, <2>1, <2>2, <2>3, AddedInt
<1>8. SumFunctionOnSet(strategy_sums', Entry) = SumFunctionOnSet(strategy_sums, Entry) + x
      /\ SumFunctionOnSet(strategy_sums, Entry) \in Int
  <2>1. IsFiniteSet(Entry)
    <3>1. RowCount \in Nat /\ kStride \in Nat
      BY TreeAssumption
    <3>2. 0 \in Int /\ RowCount - 1 \in Int /\ 1 \in Int /\ kStride \in Int
      BY <3>1
    <3> QED
      BY <3>2, FS_Interval, FS_Product DEF Entry
  <2>2. IntOn(strategy_sums, Entry) /\ IntOn(strategy_sums', Entry)
    BY <1>7 DEF IntOn, Values
  <2> HIDE DEF e
  <2>3. SumFunctionOnSet(strategy_sums', Entry)
          = SumFunctionOnSet(strategy_sums, Entry) + strategy_sums'[e] - strategy_sums[e]
    BY <1>3, <1>7, <2>1, <2>2, SumChange
  <2>4. strategy_sums'[e] = strategy_sums[e] + x /\ strategy_sums[e] \in Int
        /\ SumFunctionOnSet(strategy_sums, Entry) \in Int
    BY <1>3, <1>6, <1>7, <2>1, <2>2, SumInt DEF IntOn, e
  <2> QED
    BY <1>5, <2>3, <2>4
<1>9. /\ Pending(stack[w]) = SumFunctionOnSet(f.strategy, D)
      /\ IntOn(f.strategy, D) /\ IsFiniteSet(D) /\ Pending(stack[w]) \in Int
  BY <1>1, <1>2, PendingIs
<1>10. f.i \in D /\ D \ {f.i} = f.i + 1 .. n
  BY <1>3
<1>11. /\ Pending(stack[w]) = x + SumFunctionOnSet(f.strategy, f.i + 1 .. n)
       /\ SumFunctionOnSet(f.strategy, f.i + 1 .. n) \in Int
  <2> HIDE DEF D
  <2>1. SumFunctionOnSet(f.strategy, D) = f.strategy[f.i] + SumFunctionOnSet(f.strategy, D \ {f.i})
    BY <1>9, <1>10, SumSplit
  <2>2. SumFunctionOnSet(f.strategy, D \ {f.i}) \in Int
    BY <1>9, SumSubset
  <2> QED
    BY <1>9, <1>10, <2>1, <2>2 DEF x
<1> HIDE DEF f, D, p
<1>12. FrameOK(Stored(f)) /\ ~Stored(f).storing
  BY <1>2, StoredOK
<1>13. /\ IsFrame(Stored(f)) /\ Stored(f).i = f.i /\ Stored(f).node = f.node
       /\ Stored(f).strategy = f.strategy /\ Stored(f).step = f.step
  BY <1>3, StoredIs
<1>14. ActionCount(Stored(f)) = n
  BY <1>13 DEF ActionCount
<1>15. /\ FrameOK(g) /\ g.strategy = f.strategy /\ g.node = f.node
       /\ f.i < n => g.i = f.i + 1 /\ g.step = "sum"
       /\ ~(f.i < n) => g.step = "sample"
  BY <1>1, <1>12, <1>13, <1>14, NextActionOK, NextActionIs
<1>16. ActionCount(g) = n
  BY <1>15 DEF ActionCount
<1>17. Filled(g, p)
  BY <1>1, <1>2, StoredFilled
<1> HIDE DEF g
<1>18. stack'[w] # << >> /\ stack'[w][Len(stack'[w])] = g
  BY <1>1, <1>15, GotoTop
<1>19. Pending(stack'[w]) = SumFunctionOnSet(f.strategy, f.i + 1 .. n)
  <2>1. CASE f.i < n
    BY <1>2, <1>15, <1>16, <1>17, <1>18, <2>1, PendingIs
  <2>2. CASE ~(f.i < n)
    <3>1. f.i + 1 .. n = {}
      BY <1>3, <2>2
    <3>2. Pending(stack'[w]) = 0
      BY <1>15, <1>18, <2>2, PendingNot
    <3> QED
      BY <3>1, <3>2, SumEmpty
  <2> QED
    BY <2>1, <2>2
<1> QED
  BY <1>5, <1>8, <1>9, <1>11, <1>19

\* The same in every state: whoever is between the load and the store of an
\* addition is alone.
LEMMA NextKeepsSumHeld ==
  ASSUME IInv, Values, SumHeld, [Next]_vars
  PROVE  SumHeld'
<1>1. CASE UNCHANGED <<strategy_sums, stack>>
  BY <1>1 DEF SumHeld, At, Active, Top, EntryOf
<1>2. CASE LoadStrategySums
  <2>1. call = Idle /\ UNCHANGED stack
    BY <1>2 DEF LoadStrategySums
  <2>2. \A w \in Worker : stack'[w] = << >>
    BY <2>1, AtRest DEF IInv, Owed
  <2> QED
    BY <2>2 DEF SumHeld, At, Active
<1>3. ASSUME NEW w \in Worker, WorkerStep(w), NEW v \in Worker,
             At(v, "sum")', Top(v)'.storing
      PROVE  Top(v)'.held = strategy_sums'[EntryOf(Top(v)')]
  <2>1. Moved(w) /\ (Quiet(stack'[w]) \/ Loaded(w))
    BY <1>3, WorkerMoves
  <2>2. stack'[v] # << >> /\ Top(v)' = stack'[v][Len(stack'[v])] /\ Top(v)'.step = "sum"
    BY <1>3 DEF At, Active, Top
  <2>3. CASE v = w
    <3>1. Loaded(w) /\ ~Quiet(stack'[w])
      BY <1>3, <2>1, <2>2, <2>3 DEF Quiet
    <3>2. ~AddSum(w)
      BY <3>1, SumMoves
    <3>3. UNCHANGED strategy_sums
      BY <1>3, <3>2 DEF WorkerStep, StartTraversal, ReadRegret, Load, Sample, TryChild, AddRegret
    <3>4. Top(v)'.held = strategy_sums[EntryOf(Top(v)')]
      BY <2>2, <2>3, <3>1 DEF Loaded
    <3> QED
      BY <3>3, <3>4
  <2>4. CASE v # w
    <3>1. stack'[v] = stack[v]
      BY <2>1, <2>4, OthersStay DEF IInv
    <3>2. At(v, "sum") /\ Active(v) /\ Top(v)' = Top(v) /\ Top(v).storing
      BY <1>3, <3>1 DEF At, Active, Top
    <3>3. ~Active(w)
      BY <2>4, <3>2, StoringAlone DEF IInv, SplitAdditionAlone
    <3>4. UNCHANGED strategy_sums
      BY <1>3, <3>3 DEF WorkerStep, StartTraversal, ReadRegret, Load, AddSum, Sample,
                        TryChild, AddRegret, At
    <3> QED
      BY <3>2, <3>4 DEF SumHeld
  <2> QED
    BY <2>3, <2>4
<1>4. ASSUME NEW w \in Worker, WorkerStep(w)
      PROVE  SumHeld'
  <2>1. \A v \in Worker : At(v, "sum")' /\ Top(v)'.storing =>
          Top(v)'.held = strategy_sums'[EntryOf(Top(v)')]
    BY <1>3, <1>4
  <2> QED
    BY <2>1 DEF SumHeld, EntryOf
<1> QED
  BY <1>1, <1>2, <1>4 DEF Next, RunNothing, RunIterations, Join, Stop, vars

\* The mass in the table and the mass on its way, as sums over fixed sets.
PendingOf == [w \in Worker |-> Pending(stack[w])]
Brought == ledger.loaded.mass - Unit * ledger.loaded.visits
Mass ==
  SumFunctionOnSet(strategy_sums, Entry) + SumFunctionOnSet(PendingOf, Worker)
    = Unit * SumFunctionOnSet(visits, Worker) + Brought

LEMMA EntryIs == IsFiniteSet(Entry) /\ <<0, 1>> \in Entry
<1>1. RowCount \in Nat \ {0} /\ kStride \in Nat \ {0}
  BY TreeAssumption
<1>2. 0 \in Int /\ RowCount - 1 \in Int /\ 1 \in Int /\ kStride \in Int
  BY <1>1
<1>3. IsFiniteSet(Entry)
  BY <1>2, FS_Interval, FS_Product DEF Entry
<1> QED
  BY <1>1, <1>3 DEF Entry

\* The contexts of past and present calls hold all visits.
LEMMA VisitsAre ==
  ASSUME Counters
  PROVE  /\ SumFunction([w \in 0 .. contexts - 1 |-> visits[w]]) = SumFunctionOnSet(visits, Worker)
         /\ SumFunction(visits) = SumFunctionOnSet(visits, Worker)
         /\ SumFunctionOnSet(visits, Worker) \in Int
<1> DEFINE C == 0 .. contexts - 1
           f == [w \in C |-> visits[w]]
<1>1. /\ visits \in [Worker -> Nat] /\ IntOn(visits, Worker)
      /\ \A w \in Worker : w >= contexts => visits[w] = 0
  BY DEF Counters, IntOn
<1>2. C \subseteq Worker /\ \A w \in Worker \ C : w >= contexts
  BY RequestAssumption DEF Counters, Worker
<1>3. IsFiniteSet(C) /\ IntOn(visits, C)
  BY <1>1, <1>2, WorkerIs, SumSubset
<1>4. SumFunctionOnSet(visits, Worker) = SumFunctionOnSet(visits, C)
  <2>1. \A w \in Worker \ C : visits[w] = 0
    BY <1>1, <1>2
  <2> QED
    BY <1>1, <1>2, <2>1, WorkerIs, SumWide
<1>5. SumFunctionOnSet(visits, C) = SumFunctionOnSet(f, C)
  <2>1. \A w \in C : visits[w] = f[w]
    OBVIOUS
  <2> HIDE DEF f, C
  <2> QED
    BY <1>3, <2>1, SumSame
<1>6. SumFunction(f) = SumFunctionOnSet(f, C)
  BY SumAll
<1>7. SumFunction(visits) = SumFunctionOnSet(visits, Worker)
  BY <1>1, SumAll
<1> QED
  BY <1>1, <1>4, <1>5, <1>6, <1>7, WorkerIs, SumInt

\* What is on its way is a number.
LEMMA PendingInt ==
  ASSUME IInv, Values
  PROVE  IntOn(PendingOf, Worker) /\ SumFunctionOnSet(PendingOf, Worker) \in Int
<1>1. ASSUME NEW w \in Worker
      PROVE  Pending(stack[w]) \in Int
  <2>1. CASE At(w, "sum")
    <3>1. /\ FrameOK(Top(w)) /\ Filled(Top(w), Traverser(w)) /\ Top(w).step = "sum"
          /\ stack[w] # << >> /\ Top(w) = stack[w][Len(stack[w])]
          /\ Traverser(w) \in Player
      BY <2>1, TopWhole, TraverserIs DEF At, Active
    <3> QED
      BY <3>1, PendingIs
  <2>2. CASE ~At(w, "sum")
    BY <2>2, PendingNot DEF At, Active, Top
  <2> QED
    BY <2>1, <2>2
<1>2. IntOn(PendingOf, Worker)
  BY <1>1 DEF IntOn, PendingOf
<1> QED
  BY <1>2, WorkerIs, SumInt

LEMMA PendingIntNext == IInv' /\ Values' => IntOn(PendingOf', Worker)
<1>1. IInv /\ Values => IntOn(PendingOf, Worker)
  BY PendingInt
<1>2. (IInv /\ Values => IntOn(PendingOf, Worker))'
  BY <1>1, PTL
<1> QED
  BY <1>2 DEF IntOn

LEMMA MassIs ==
  ASSUME IInv, Values, Counters
  PROVE  MassConserved <=> Mass
<1>1. SumOf(strategy_sums) = SumFunctionOnSet(strategy_sums, Entry)
  BY SumAll DEF SumOf, Values
<1>2. [w \in Worker |-> Unsent(w)] = PendingOf
  BY UnsentIs DEF PendingOf
<1>3. SumFunction(PendingOf) = SumFunctionOnSet(PendingOf, Worker)
  BY SumAll DEF PendingOf
<1>4. IntOn(PendingOf, Worker)
  BY PendingInt
<1> DEFINE table == SumFunctionOnSet(strategy_sums, Entry)
           way   == SumFunctionOnSet(PendingOf, Worker)
           seen  == SumFunctionOnSet(visits, Worker)
           mass  == ledger.loaded.mass
           old   == ledger.loaded.visits
<1>5. Visited = seen /\ seen \in Int
  BY VisitsAre DEF Visited
<1>6. /\ MassConserved <=> table + way - mass = Unit * (seen - old)
      /\ Mass <=> table + way = Unit * seen + (mass - Unit * old)
  BY <1>1, <1>2, <1>3, <1>5 DEF MassConserved, Mass, Brought
<1>7. IntOn(strategy_sums, Entry)
  BY DEF Values, IntOn
<1>8. /\ table \in Int /\ way \in Int /\ mass \in Int /\ old \in Int /\ Unit \in Int
  BY <1>4, <1>7, EntryIs, WorkerIs, SumInt, TreeAssumption DEF Counters
<1> HIDE DEF table, way, seen, mass, old
<1>9. Unit * (seen - old) = Unit * seen - Unit * old
  BY <1>5, <1>8
<1>10. Unit * seen \in Int /\ Unit * old \in Int
  BY <1>5, <1>8
<1> QED
  BY <1>5, <1>6, <1>8, <1>9, <1>10

\* Between traversals nothing is on its way.
LEMMA NothingPending ==
  ASSUME \A w \in Worker : stack[w] = << >>
  PROVE  SumFunctionOnSet(PendingOf, Worker) = 0
<1>1. \A w \in Worker : PendingOf[w] = 0
  BY PendingNot DEF PendingOf
<1>2. IntOn(PendingOf, Worker)
  BY <1>1 DEF IntOn
<1>3. SumFunctionOnSet(PendingOf, Worker) = SumFunctionOnSet(PendingOf, {})
  BY <1>1, <1>2, WorkerIs, SumWide
<1>4. SumFunctionOnSet(PendingOf, {}) = 0
  BY SumEmpty
<1> QED
  BY <1>3, <1>4

\* A worker's step moves mass only from its own activation.
LEMMA PendingMoves ==
  ASSUME IInv, Values, IInv', Values', NEW w \in Worker, WorkerStep(w)
  PROVE  SumFunctionOnSet(PendingOf', Worker)
           = SumFunctionOnSet(PendingOf, Worker) + Pending(stack'[w]) - Pending(stack[w])
<1> DEFINE f == PendingOf
           g == PendingOf'
<1>1. Moved(w)
  BY WorkerMoves
<1>2. \A v \in Worker \ {w} : f[v] = g[v]
  BY <1>1, OthersStay DEF PendingOf, IInv
<1>3. IntOn(f, Worker)
  BY PendingInt
<1>4. IntOn(g, Worker)
  BY PendingIntNext
<1>5. f[w] = Pending(stack[w]) /\ g[w] = Pending(stack'[w])
  BY DEF PendingOf
<1> HIDE DEF f, g
<1>6. SumFunctionOnSet(g, Worker) = SumFunctionOnSet(f, Worker) + g[w] - f[w]
  BY <1>2, <1>3, <1>4, WorkerIs, SumChange, ZenonT(30)
<1> QED
  BY <1>5, <1>6 DEF f, g

LEMMA FileMassIs == SumFunctionOnSet(FileTable, Entry) = FileMass
<1> DEFINE e == <<0, 1>>
<1>1. e \in Entry /\ IsFiniteSet(Entry) /\ FileMass \in Int
  BY EntryIs, RequestAssumption
<1>2. FileTable[e] = FileMass /\ \A d \in Entry \ {e} : FileTable[d] = 0
  BY <1>1 DEF FileTable
<1>3. IntOn(FileTable, Entry)
  BY <1>1 DEF FileTable, IntOn
<1> HIDE DEF e
<1>4. SumFunctionOnSet(FileTable, Entry) = SumFunctionOnSet(FileTable, {e})
  BY <1>1, <1>2, <1>3, SumWide
<1>5. SumFunctionOnSet(FileTable, {e}) = FileTable[e] * Cardinality({e})
  <2>1. IsFiniteSet({e}) /\ \A x \in {e} : FileTable[x] = FileTable[e]
    BY FS_Singleton
  <2> QED
    BY <1>1, <1>2, <2>1, SumConstant
<1>6. Cardinality({e}) = 1
  BY FS_Singleton
<1> QED
  BY <1>1, <1>2, <1>4, <1>5, <1>6

LEMMA VisitCounts ==
  ASSUME Counters, NEW w \in Worker, visits' = [visits EXCEPT ![w] = @ + 1]
  PROVE  SumFunctionOnSet(visits', Worker) = SumFunctionOnSet(visits, Worker) + 1
<1>1. visits \in [Worker -> Nat]
  BY DEF Counters
<1>2. visits' \in [Worker -> Nat] /\ visits'[w] = visits[w] + 1
      /\ \A v \in Worker \ {w} : visits[v] = visits'[v]
  BY <1>1
<1>3. IntOn(visits, Worker) /\ IntOn(visits', Worker)
  BY <1>1, <1>2 DEF IntOn
<1>4. SumFunctionOnSet(visits', Worker)
        = SumFunctionOnSet(visits, Worker) + visits'[w] - visits[w]
  <2> DEFINE f == visits
             g == visits'
  <2>1. IntOn(f, Worker) /\ IntOn(g, Worker) /\ \A v \in Worker \ {w} : f[v] = g[v]
    BY <1>2, <1>3
  <2> HIDE DEF f, g
  <2>2. SumFunctionOnSet(g, Worker) = SumFunctionOnSet(f, Worker) + g[w] - f[w]
    BY <2>1, WorkerIs, SumChange, ZenonT(30)
  <2> QED
    BY <2>2 DEF f, g
<1>5. SumFunctionOnSet(visits, Worker) \in Int /\ visits[w] \in Int
  BY <1>1, <1>3, WorkerIs, SumInt
<1> QED
  BY <1>2, <1>4, <1>5

LEMMA WorkerKeepsMass ==
  ASSUME IInv, Values, Counters, SumHeld, Mass, IInv', Values',
         NEW w \in Worker, WorkerStep(w)
  PROVE  Mass'
<1> DEFINE table == SumFunctionOnSet(strategy_sums, Entry)
           way == SumFunctionOnSet(PendingOf, Worker)
           seen == SumFunctionOnSet(visits, Worker)
           mine == Pending(stack[w])
           next == Pending(stack'[w])
<1>1. table + way = Unit * seen + Brought /\ Brought' = Brought
  BY WorkerCounts DEF Mass, Brought
<1>2. way' = way + next - mine
  BY PendingMoves DEF PendingOf
<1>3. /\ way \in Int /\ seen \in Int /\ Brought \in Int /\ Unit \in Int
      /\ mine \in Int /\ table \in Int
  <2>1. mine = PendingOf[w]
    BY DEF PendingOf
  <2>2. IntOn(strategy_sums, Entry)
    BY DEF Values, IntOn
  <2>3. Unit \in Int /\ Brought \in Int
    BY TreeAssumption DEF Counters, Brought
  <2> QED
    BY <2>1, <2>2, <2>3, PendingInt, VisitsAre, EntryIs, SumInt DEF IntOn
<1>4. CASE StartTraversal(w) \/ Sample(w) \/ TryChild(w) \/ AddRegret(w)
  <2>1. UNCHANGED <<strategy_sums, visits>>
    BY <1>4 DEF StartTraversal, Sample, TryChild, AddRegret
  <2>2. mine = 0 /\ next = 0
    BY <1>4, QuietSteps
  <2> HIDE DEF table, way, seen, mine, next
  <2>3. table' = table /\ seen' = seen
    BY <2>1 DEF table, seen
  <2>4. table' + way' = Unit * seen' + Brought'
    BY <1>1, <1>2, <1>3, <2>2, <2>3
  <2> QED
    BY <2>4 DEF Mass, table, way, seen
<1>5. CASE ReadRegret(w)
  <2>1. UNCHANGED strategy_sums
    BY <1>5 DEF ReadRegret
  <2>2. /\ mine = 0
        /\ \/ next = 0 /\ seen' = seen
           \/ next = Unit /\ seen' = seen + 1
    <3>1. CASE next = 0 /\ UNCHANGED visits
      BY <1>5, <3>1, ReadMass
    <3>2. CASE next = Unit /\ visits' = [visits EXCEPT ![w] = @ + 1]
      BY <1>5, <3>2, ReadMass, VisitCounts
    <3> QED
      BY <1>5, <3>1, <3>2, ReadMass
  <2> HIDE DEF table, way, seen, mine, next
  <2>3. table' = table
    BY <2>1 DEF table
  <2>4. table' + way' = Unit * seen' + Brought'
    <3>1. Unit * (seen + 1) = Unit * seen + Unit /\ Unit * seen \in Int
      BY <1>3
    <3>2. way' = way + next
      BY <1>2, <1>3, <2>2
    <3>3. Unit * seen' = Unit * seen + next
      BY <1>3, <2>2, <3>1
    <3> DEFINE paid == Unit * seen
               due  == Unit * seen'
    <3>4. paid \in Int /\ next \in Int /\ due = paid + next /\ table + way = paid + Brought
      BY <1>1, <1>3, <2>2, <3>1, <3>3
    <3> HIDE DEF paid, due
    <3>5. table' + way' = due + Brought'
      BY <1>1, <1>3, <2>3, <3>2, <3>4
    <3> QED
      BY <3>5 DEF due
  <2> QED
    BY <2>4 DEF Mass, table, way, seen
<1>6. CASE Load(w)
  <2>1. UNCHANGED <<strategy_sums, visits>>
    BY <1>6 DEF Load
  <2>2. next = mine
    BY <1>6, LoadMass
  <2> HIDE DEF table, way, seen, mine, next
  <2>3. table' = table /\ seen' = seen
    BY <2>1 DEF table, seen
  <2>4. table' + way' = Unit * seen' + Brought'
    BY <1>1, <1>2, <1>3, <2>2, <2>3
  <2> QED
    BY <2>4 DEF Mass, table, way, seen
<1>7. CASE AddSum(w)
  <2> DEFINE added == strategy_sums'
             held == SumFunctionOnSet(added, Entry)
             left == SumFunctionOnSet(PendingOf', Worker)
  <2>1. UNCHANGED visits
    BY <1>7 DEF AddSum
  <2>2. held + next = table + mine /\ next \in Int
    BY <1>7, AddMass
  <2>3. held \in Int
    <3>1. IntOn(strategy_sums', Entry)
      BY DEF Values, IntOn
    <3> QED
      BY <3>1, EntryIs, SumInt
  <2>4. left = way + next - mine
    BY <1>2
  <2>5. Mass' = (held + left = Unit * seen + Brought)
    BY <1>1, <2>1 DEF Mass
  <2> HIDE DEF table, way, seen, mine, next, held, left
  <2>6. held + left = table + way
    BY <1>3, <2>2, <2>3, <2>4
  <2> QED
    BY <1>1, <2>5, <2>6
<1> QED
  BY <1>4, <1>5, <1>6, <1>7 DEF WorkerStep

LEMMA NextKeepsMass ==
  ASSUME IInv, Values, Counters, SumHeld, Mass, IInv', Values', [Next]_vars
  PROVE  Mass'
<1>1. CASE UNCHANGED <<strategy_sums, stack, visits>> /\ ledger'.loaded = ledger.loaded
  BY <1>1 DEF Mass, PendingOf, Brought
<1>2. CASE Join
  <2> DEFINE completed == ledger.completed + call.count
  <2>1. UNCHANGED <<strategy_sums, stack, visits>> /\ ledger' = [ledger EXCEPT !.completed = completed]
    BY <1>2 DEF Join
  <2> HIDE DEF completed
  <2>2. ledger'.loaded = ledger.loaded
    BY <2>1, SetCompleted DEF IInv, Shape
  <2> QED
    BY <1>1, <2>1, <2>2
<1>3. CASE LoadStrategySums
  <2>1. call = Idle /\ UNCHANGED <<stack, visits>>
    BY <1>3 DEF LoadStrategySums
  <2>2. PICK file \in Files :
           /\ strategy_sums' = IF file = "good" THEN FileTable ELSE strategy_sums
           /\ ledger'.loaded = IF file = "good"
                               THEN [mass |-> FileMass, visits |-> SumFunction(visits)]
                               ELSE ledger.loaded
    BY <1>3, LoadedLedger
  <2>3. CASE file # "good"
    BY <1>1, <2>1, <2>2, <2>3
  <2>4. CASE file = "good"
    <3> DEFINE way == SumFunctionOnSet(PendingOf, Worker)
               seen == SumFunctionOnSet(visits, Worker)
    <3>1. way' = 0
      <4>1. \A w \in Worker : stack[w] = << >>
        BY <2>1, AtRest DEF IInv, Owed
      <4>2. PendingOf' = PendingOf
        BY <2>1 DEF PendingOf
      <4> QED
        BY <4>1, <4>2, NothingPending
    <3>2. SumFunctionOnSet(strategy_sums', Entry) = FileMass
      BY <2>2, <2>4, FileMassIs
    <3>3. Brought' = FileMass - Unit * seen /\ seen \in Int
      BY <2>2, <2>4, VisitsAre DEF Brought
    <3>4. seen' = seen
      BY <2>1
    <3>5. Unit * seen \in Int /\ FileMass \in Int
      BY <3>3, TreeAssumption, RequestAssumption
    <3> HIDE DEF way, seen
    <3>6. FileMass + way' = Unit * seen' + Brought'
      BY <3>1, <3>3, <3>4, <3>5
    <3> QED
      BY <3>2, <3>6 DEF Mass, way, seen
  <2> QED
    BY <2>3, <2>4
<1>4. CASE \E w \in Worker : WorkerStep(w)
  BY <1>4, WorkerKeepsMass
<1> QED
  BY <1>1, <1>2, <1>3, <1>4 DEF Next, RunNothing, RunIterations, Stop, vars

LEMMA InitMass == ASSUME Init PROVE SumHeld /\ Mass
<1>1. \A w \in Worker : stack[w] = << >> /\ PendingOf[w] = 0 /\ visits[w] = 0
  BY PendingNot DEF Init, PendingOf
<1>2. \A e \in Entry : strategy_sums[e] = 0
  BY DEF Init
<1>3. /\ IntOn(PendingOf, Worker) /\ IntOn(visits, Worker) /\ IntOn(strategy_sums, Entry)
  BY <1>1, <1>2 DEF IntOn
<1>4. SumFunctionOnSet(PendingOf, Worker) = 0 /\ SumFunctionOnSet(visits, Worker) = 0
  <2>1. /\ SumFunctionOnSet(PendingOf, Worker) = SumFunctionOnSet(PendingOf, {})
        /\ SumFunctionOnSet(visits, Worker) = SumFunctionOnSet(visits, {})
    BY <1>1, <1>3, WorkerIs, SumWide
  <2> QED
    BY <2>1, SumEmpty
<1>5. SumFunctionOnSet(strategy_sums, Entry) = 0
  <2>1. SumFunctionOnSet(strategy_sums, Entry) = SumFunctionOnSet(strategy_sums, {})
    BY <1>2, <1>3, EntryIs, SumWide
  <2> QED
    BY <2>1, SumEmpty
<1>6. Brought = 0 /\ Unit \in Int
  BY TreeAssumption DEF Init, Brought, NothingLoaded
<1>7. SumHeld
  BY <1>1 DEF SumHeld, At, Active
<1> QED
  BY <1>4, <1>5, <1>6, <1>7 DEF Mass

LEMMA MassHolds == Spec => [](Everything /\ Mass)
<1>1. Init => SumHeld /\ Mass
  BY InitMass
<1>2. Everything /\ Everything' /\ SumHeld /\ Mass /\ [Next]_vars => SumHeld' /\ Mass'
  <2> SUFFICES ASSUME Everything, Everything', SumHeld, Mass, [Next]_vars
               PROVE  SumHeld' /\ Mass'
    OBVIOUS
  <2>1. SumHeld'
    BY NextKeepsSumHeld DEF Everything
  <2>2. Mass'
    BY NextKeepsMass DEF Everything
  <2> QED
    BY <2>1, <2>2
<1> QED
  BY <1>1, <1>2, EverythingHolds, PTL DEF Spec

\* No strategy mass is lost or counted twice: whatever threads interleave and
\* whatever is loaded between calls, what the average gained since the last
\* good load is one unit for every opponent node visited since, but for what
\* is on its way.
THEOREM MassIsConserved == Spec => []MassConserved
<1>1. Everything /\ Mass => MassConserved
  BY MassIs DEF Everything
<1> QED
  BY <1>1, MassHolds, PTL

Unloaded == ledger.loaded = NothingLoaded

\* A load that finds no good file leaves what was loaded before.
LEMMA NothingIsLoaded ==
  ASSUME "good" \notin Files, Everything, [Next]_vars, Unloaded
  PROVE  Unloaded'
<1>1. CASE UNCHANGED ledger
  BY <1>1 DEF Unloaded
<1>2. CASE Join
  <2> DEFINE completed == ledger.completed + call.count
  <2>1. ledger' = [ledger EXCEPT !.completed = completed]
    BY <1>2 DEF Join
  <2> HIDE DEF completed
  <2>2. ledger'.loaded = ledger.loaded
    BY <2>1, SetCompleted DEF Everything, IInv, Shape
  <2> QED
    BY <2>2 DEF Unloaded, NothingLoaded
<1>3. CASE LoadStrategySums
  BY <1>3, LoadedLedger DEF Everything, Unloaded, NothingLoaded
<1>4. ASSUME NEW w \in Worker, WorkerStep(w)
      PROVE  Unloaded'
  BY <1>4, WorkerCounts DEF Everything, Unloaded, NothingLoaded
<1> QED
  BY <1>1, <1>2, <1>3, <1>4 DEF Next, RunNothing, RunIterations, Stop, vars

\* What the comment on strategy_mass says holds of a solver that no good file
\* is loaded into, as when training: at rest the mass equals the visits.
THEOREM MassMatchesUnlessLoaded ==
  ASSUME "good" \notin Files
  PROVE  Spec => []MassMatchesVisits
<1>1. Init => Unloaded
  BY DEF Init, Unloaded
<1>2. Everything /\ [Next]_vars /\ Unloaded => Unloaded'
  BY NothingIsLoaded
<1>3. Everything /\ Mass /\ Unloaded => MassMatchesVisits
  <2> SUFFICES ASSUME Everything, Mass, Unloaded, call = Idle
               PROVE  SumOf(strategy_sums) = Unit * Visited
    BY DEF MassMatchesVisits
  <2>1. \A w \in Worker : stack[w] = << >>
    BY AtRest DEF Everything, IInv, Owed
  <2>2. SumFunctionOnSet(PendingOf, Worker) = 0
    BY <2>1, NothingPending
  <2>3. Brought = 0
    BY TreeAssumption DEF Brought, Unloaded, NothingLoaded
  <2>4. SumOf(strategy_sums) = SumFunctionOnSet(strategy_sums, Entry)
    BY SumAll DEF SumOf, Everything, Values
  <2>5. /\ Visited = SumFunctionOnSet(visits, Worker)
        /\ SumFunctionOnSet(visits, Worker) \in Int
    BY VisitsAre DEF Visited, Everything
  <2>6. SumFunctionOnSet(strategy_sums, Entry) \in Int
    <3>1. IntOn(strategy_sums, Entry)
      BY DEF Everything, Values, IntOn
    <3> QED
      BY <3>1, EntryIs, SumInt
  <2>7. Unit * SumFunctionOnSet(visits, Worker) \in Int
    BY <2>5, TreeAssumption
  <2> QED
    BY <2>2, <2>3, <2>4, <2>5, <2>6, <2>7 DEF Mass
<1> QED
  BY <1>1, <1>2, <1>3, EverythingHolds, MassHolds, PTL DEF Spec
=============================================================================
