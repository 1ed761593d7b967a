------------------------------ MODULE Training ------------------------------
(***************************************************************************)
(* cfr_measure --train (measure/rih_exploitability.cpp) over the files it  *)
(* leaves behind: a checkpoint rewritten in place by save_strategy_sums    *)
(* and a log opened for appending.  The process may be killed between any  *)
(* two steps, an open or a write may fail, a new session may follow on the *)
(* same files, and a cfr_measure <checkpoint> may load at any moment.      *)
(*                                                                         *)
(* Mccfr models what a run does to the tables; here it only counts.        *)
(***************************************************************************)
EXTENDS Integers, Sequences, SequencesExt

CONSTANTS
  kFirstCheckpoint,
  IntMax,        \* numeric_limits<int>::max()
  Requests,      \* the iteration counts a user may pass
  Pieces,        \* writes of a save: value count, iteration count, then table
  MaxSessions    \* bound: trainings started

ASSUME ScheduleAssumption ==
  /\ IntMax \in Nat /\ kFirstCheckpoint \in 1 .. IntMax
  /\ Requests \subseteq Int
ASSUME PiecesAssumption == Pieces \in Nat /\ Pieces > 2

VARIABLES
  file,      \* pieces in the checkpoint file, each named by the save it is of
  log,       \* lines of the log
  session,   \* trainings started
  train,     \* the training process
  reader     \* the cfr_measure <checkpoint> process
vars == <<file, log, session, train, reader>>

\* A save is named by its session and by iteration_ at the time.
Save == [session |-> session, iterations |-> train.iteration]
Whole == Len(file) = Pieces
Line(n) == [session |-> session, iterations |-> n]
Header == Line(0)

\* status is "up" while the process runs, else how it ended.
Down(status) == [pc |-> "down", status |-> status, target |-> train.target,
                 checkpoint |-> train.checkpoint, iteration |-> train.iteration,
                 logBad |-> train.logBad]

\* int arithmetic wraps where the code would overflow.
Int32(n) == ((n + IntMax + 1) % (2 * (IntMax + 1))) - (IntMax + 1)

\* The file changed under a reader that has it open.
Disturbed == [reader EXCEPT !.disturbed = (@ \/ reader.pc = "reading")]

-----------------------------------------------------------------------------
(* The training process *)

\* train_command: a count an int cannot hold, or not positive, is refused.
Accepted(count) == count > 0 /\ count <= IntMax

Refuse ==
  /\ train.pc = "down" /\ session < MaxSessions
  /\ \E count \in Requests : ~Accepted(count)
  /\ session' = session + 1
  /\ train' = [Down("refused") EXCEPT !.target = 0]
  /\ UNCHANGED <<file, log, reader>>

\* Slip: the log is opened for writing, not for appending.
StartTruncatingLog ==
  /\ train.pc = "down" /\ session < MaxSessions
  /\ session' = session + 1
  /\ log' = <<[session |-> session', iterations |-> 0]>>
  /\ \E count \in Requests :
       /\ Accepted(count)
       /\ train' = [pc |-> "run", status |-> "up", target |-> count,
                    checkpoint |-> IF count < kFirstCheckpoint THEN count
                                   ELSE kFirstCheckpoint,
                    iteration |-> 0, logBad |-> FALSE]
  /\ UNCHANGED <<file, reader>>

\* The log may not open: exit 1.  Otherwise its first line is written, or lost;
\* once a write fails the stream drops all that follow, and nobody looks.
Start ==
  /\ train.pc = "down" /\ session < MaxSessions
  /\ session' = session + 1
  /\ \E count \in Requests, logBad \in BOOLEAN :
       /\ Accepted(count)
       /\ \/ /\ train' = [Down("failed") EXCEPT !.target = 0]
             /\ UNCHANGED log
          \/ /\ train' = [pc |-> "run", status |-> "up", target |-> count,
                          checkpoint |-> IF count < kFirstCheckpoint THEN count
                                         ELSE kFirstCheckpoint,
                          iteration |-> 0, logBad |-> logBad]
             /\ log' = IF logBad THEN log
                       ELSE Append(log, [session |-> session', iterations |-> 0])
  /\ UNCHANGED <<file, reader>>

\* run_iterations(checkpoint - iterations_run()): a negative count throws.
Run ==
  /\ train.pc = "run"
  /\ LET count == Int32(train.checkpoint - train.iteration)
     IN  train' = IF count < 0 THEN Down("failed")
                  ELSE [train EXCEPT !.iteration = @ + count, !.pc = "open"]
  /\ UNCHANGED <<file, log, session, reader>>

\* Slip: whether the file opened is not looked at.
OpenCheckpointUnchecked ==
  /\ train.pc = "open"
  /\ \/ /\ train' = [train EXCEPT !.pc = "report"]
        /\ UNCHANGED <<file, reader>>
     \/ /\ train' = [train EXCEPT !.pc = "write"]
        /\ file' = << >>
        /\ reader' = Disturbed
  /\ UNCHANGED <<log, session>>

\* Slip: a file that does not open is tried again after another, empty, run.
OpenCheckpointRetrying ==
  /\ train.pc = "open"
  /\ \/ /\ train' = [train EXCEPT !.pc = "run"]
        /\ UNCHANGED <<file, reader>>
     \/ /\ train' = [train EXCEPT !.pc = "write"]
        /\ file' = << >>
        /\ reader' = Disturbed
  /\ UNCHANGED <<log, session>>

\* save_strategy_sums: opening the file for output empties it.
OpenCheckpoint ==
  /\ train.pc = "open"
  /\ \/ train' = Down("failed") /\ UNCHANGED <<file, reader>>
     \/ /\ train' = [train EXCEPT !.pc = "write"]
        /\ file' = << >>
        /\ reader' = Disturbed
  /\ UNCHANGED <<log, session>>

\* Slip: flush is not followed by a test of the stream.
WritePieceUnchecked ==
  /\ train.pc = "write"
  /\ \/ /\ train' = [train EXCEPT !.pc = "report"]
        /\ UNCHANGED <<file, reader>>
     \/ /\ file' = Append(file, Save)
        /\ reader' = Disturbed
        /\ train' = [train EXCEPT !.pc = IF Len(file) + 1 = Pieces THEN "report" ELSE @]
  /\ UNCHANGED <<log, session>>

\* A piece reaches the file, or a failed write ends the session.  After the
\* last, flush succeeded.
WritePiece ==
  /\ train.pc = "write"
  /\ \/ train' = Down("failed") /\ UNCHANGED <<file, reader>>
     \/ /\ file' = Append(file, Save)
        /\ reader' = Disturbed
        /\ train' = [train EXCEPT !.pc = IF Len(file) + 1 = Pieces THEN "report" ELSE @]
  /\ UNCHANGED <<log, session>>

\* report_checkpoint: the measured line goes to the log before the mass check.
WriteLine ==
  /\ train.pc = "report"
  /\ \E logBad \in {train.logBad, TRUE} :
       /\ log' = IF logBad THEN log ELSE Append(log, Line(train.iteration))
       /\ train' = [train EXCEPT !.pc = "check", !.logBad = logBad]
  /\ UNCHANGED <<file, session, reader>>

\* Slip: the test for the last doubling is made after it.
NextCheckpointOverflowing ==
  IF Int32(train.checkpoint * 2) > train.target THEN train.target
  ELSE Int32(train.checkpoint * 2)

\* Slip: half of an odd target, rounded down, is taken for the last doubling.
NextCheckpointSkipping ==
  IF train.checkpoint >= train.target \div 2 THEN train.target
  ELSE Int32(train.checkpoint * 2)

NextCheckpoint ==
  IF train.checkpoint > train.target \div 2 THEN train.target
  ELSE Int32(train.checkpoint * 2)

\* Mass and visits disagree: exit 1.  Otherwise the target ends the session, or
\* the next checkpoint follows.
CheckMass ==
  /\ train.pc = "check"
  /\ \/ train' = Down("lost updates")
     \/ train' = IF train.checkpoint = train.target THEN Down("done")
                 ELSE [train EXCEPT !.checkpoint = NextCheckpoint, !.pc = "run"]
  /\ UNCHANGED <<file, log, session, reader>>

\* The process is killed.  What it had not written yet is gone.
Kill ==
  /\ train.pc # "down"
  /\ train' = Down("killed")
  /\ UNCHANGED <<file, log, session, reader>>

TrainStep == Run \/ OpenCheckpoint \/ WritePiece \/ WriteLine \/ CheckMass

-----------------------------------------------------------------------------
(* The measuring process: load_strategy_sums while the file may change *)

Closed == [pc |-> "closed", pieces |-> << >>, disturbed |-> FALSE]

OpenToMeasure ==
  /\ reader.pc # "reading"
  /\ reader' = [Closed EXCEPT !.pc = "reading"]
  /\ UNCHANGED <<file, log, session, train>>

\* The next piece is read from where the reader stands; a short file is refused.
ReadPiece ==
  /\ reader.pc = "reading" /\ Len(reader.pieces) < Pieces
  /\ reader' = LET k == Len(reader.pieces) + 1
               IN  IF k > Len(file) THEN [reader EXCEPT !.pc = "refused"]
                   ELSE [reader EXCEPT !.pieces = Append(@, file[k])]
  /\ UNCHANGED <<file, log, session, train>>

\* Slip: a table that ends early is taken as it is.
AcceptShort ==
  /\ reader.pc = "reading" /\ Len(reader.pieces) >= 2
  /\ reader' = [reader EXCEPT !.pc = "loaded"]
  /\ UNCHANGED <<file, log, session, train>>

\* Nothing may follow the table, then the load succeeds.
Accept ==
  /\ reader.pc = "reading" /\ Len(reader.pieces) = Pieces
  /\ reader' = [reader EXCEPT !.pc = IF Len(file) > Pieces THEN "refused" ELSE "loaded"]
  /\ UNCHANGED <<file, log, session, train>>

ReadStep == OpenToMeasure \/ ReadPiece \/ Accept

-----------------------------------------------------------------------------

Init ==
  /\ file = << >>
  /\ log = << >>
  /\ session = 0
  /\ train = [pc |-> "down", status |-> "none", target |-> 0, checkpoint |-> 0,
              iteration |-> 0, logBad |-> FALSE]
  /\ reader = Closed

Next == Refuse \/ Start \/ TrainStep \/ Kill \/ ReadStep

Spec == Init /\ [][Next]_vars

\* The process keeps running unless it is killed, which never has to happen.
FairSpec == Spec /\ WF_vars(TrainStep)

-----------------------------------------------------------------------------
(* Properties *)

\* Where the lines of the session started last are, without its header, and
\* what it measured.
Lines == {i \in DOMAIN log : log[i].session = session /\ log[i].iterations > 0}
Measured(i) == log[i].iterations

\* What the usage text promises to measure: "1,600,000 iterations (or the target
\* if smaller), at every doubling below the target, and at the target".
Doubling[k \in Nat] == IF k = 0 THEN kFirstCheckpoint ELSE 2 * Doubling[k - 1]
Scheduled(target) ==
  {target} \cup ({Doubling[k] : k \in 0 .. target} \cap 1 .. target - 1)

\* A reader the trainer left alone got one save, whole, never a torn one, and a
\* table goes with its own iteration count.
LoadedWhole ==
  reader.pc = "loaded" /\ ~reader.disturbed =>
    /\ Len(reader.pieces) = Pieces
    /\ \A i, j \in DOMAIN reader.pieces : reader.pieces[i] = reader.pieces[j]

\* A session whose log holds measures what the usage text says, in order, each
\* once, and has measured all of it when it exits 0.
ScheduleKept ==
  LET due == Scheduled(train.target)
  IN  ~train.logBad /\ train.target > 0 =>
        /\ \A i \in Lines : Measured(i) \in due
        /\ \A i \in Lines : \A n \in due :
             n < Measured(i) <=> \E j \in Lines : j < i /\ Measured(j) = n
        /\ train.status = "done" => due \subseteq {Measured(i) : i \in Lines}

\* Whatever happens, a number in the log was saved before: from then on the
\* checkpoint is that save, or a later one of the same session under way.
LogNeverAhead ==
  \A i \in Lines :
    /\ \A piece \in DOMAIN file :
         file[piece].session = session /\ file[piece].iterations >= Measured(i)
    /\ ~Whole => train.iteration > Measured(i)

\* Exit 0 leaves the whole checkpoint of the target behind.
DoneIsOnDisk ==
  train.status = "done" =>
    Whole /\ \A i \in DOMAIN file : file[i] = [session |-> session, iterations |-> train.target]

\* The comment on the doubling, "cannot overflow": a checkpoint is in the
\* range of the target, and iterations only grow towards it.
CheckpointInRange ==
  train.pc # "down" => /\ train.checkpoint \in 1 .. train.target
                       /\ train.iteration \in 0 .. train.checkpoint

\* Nothing is ever removed from the log, by this session or an earlier one.
LogAppendOnly == [][IsPrefix(log, log')]_log

\* "Each save overwrites the checkpoint file; the log keeps every line"
\* (rih_exploitability.cpp:173): an exit of 0 has the target's line in the log.
LogKeepsEveryLine ==
  train.status = "done" => \E i \in Lines : Measured(i) = train.target

\* Every session comes to an end.
SessionsEnd == train.pc # "down" ~> train.pc = "down"
=============================================================================
