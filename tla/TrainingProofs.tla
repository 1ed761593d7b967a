--------------------------- MODULE TrainingProofs ---------------------------
(***************************************************************************)
(* Proofs about Training for every first checkpoint, every width of int,   *)
(* every request and every number of sessions: first the numbers, which    *)
(* never overflow, then the file, which is always the beginning of one     *)
(* save, the reader, which is always behind it, and the log, which keeps   *)
(* to the schedule and never runs ahead of the file.  Last the draws a     *)
(* training iteration makes (Sampling), for every size of deck and table,  *)
(* every grid of doubles and every rounding: a hand never deals a card     *)
(* twice, and the fast draw is the slow one.                               *)
(***************************************************************************)
EXTENDS Training, Sampling, SumTheorems, TLAPS

\* The numbers of a training under way.
Counting(t) ==
  /\ t.target \in 1 .. IntMax
  /\ t.checkpoint \in 1 .. t.target
  /\ t.iteration \in 0 .. t.checkpoint

Places   == {"down", "run", "open", "write", "report", "check"}
Outcomes == {"none", "up", "refused", "failed", "lost updates", "done", "killed"}
Processes ==
  [ pc : Places, status : Outcomes,
    target : Int, checkpoint : Int, iteration : Int, logBad : BOOLEAN ]

LogLine == [session : Nat, iterations : Nat]

TInv ==
  /\ train \in Processes
  /\ train.pc # "down" => Counting(train)
  /\ session \in Nat
  /\ log \in Seq(LogLine)
  /\ train.iteration >= 0

\* No wrap inside the range.
LEMMA NoWrap ==
  ASSUME NEW n \in 0 .. IntMax
  PROVE  Int32(n) = n
<1>1. IntMax \in Nat
  BY ScheduleAssumption
<1> DEFINE a == n + IntMax + 1
           b == 2 * (IntMax + 1)
<1>2. a \in Nat /\ b \in Nat /\ b > 0 /\ a < b
  BY <1>1
<1> HIDE DEF a, b
<1>3. a % b = a
  BY <1>2
<1> QED
  BY <1>1, <1>3 DEF Int32, a, b

\* The next checkpoint is no smaller and does not pass the target.
LEMMA NextInRange ==
  ASSUME Counting(train)
  PROVE  NextCheckpoint \in train.checkpoint .. train.target
<1> DEFINE c == train.checkpoint
           t == train.target
<1>1. c \in Nat /\ t \in Nat /\ c <= t /\ t <= IntMax /\ IntMax \in Nat /\ c >= 1
  BY ScheduleAssumption DEF Counting
<1>2. CASE c > t \div 2
  BY <1>1, <1>2 DEF NextCheckpoint
<1>3. CASE ~(c > t \div 2)
  <2>1. c * 2 <= t
    BY <1>1, <1>3
  <2>2. Int32(c * 2) = c * 2
    BY <1>1, <2>1, NoWrap
  <2> QED
    BY <1>1, <1>3, <2>1, <2>2 DEF NextCheckpoint
<1> QED
  BY <1>2, <1>3

\* A log with one more line has the old log as a prefix.
LEMMA AppendIsLonger ==
  ASSUME NEW S, NEW s \in Seq(S), NEW e \in S
  PROVE  IsPrefix(s, Append(s, e)) /\ IsPrefix(s, s) /\ Append(s, e) \in Seq(S)
  BY DEF IsPrefix

\* A session that ends leaves the numbers as they are.
LEMMA DownKeeps ==
  ASSUME TInv, NEW status \in {"refused", "failed", "lost updates", "done", "killed"},
         train' = Down(status), UNCHANGED <<session, log>>
  PROVE  TInv'
<1>1. Down(status) \in Processes
  BY DEF Down, TInv, Processes, Places, Outcomes
<1> QED
  BY <1>1 DEF Down, TInv

\* Nor does one that was never let begin.
LEMMA DownUntargeted ==
  ASSUME train \in Processes, NEW status \in Outcomes
  PROVE  LET t == [Down(status) EXCEPT !.target = 0]
         IN  t \in Processes /\ t.pc = "down" /\ t.iteration = train.iteration
<1>1. Down(status) \in Processes
  BY DEF Down, Processes, Places
<1>2. Down(status).pc = "down" /\ Down(status).iteration = train.iteration
  BY DEF Down
<1> QED
  BY <1>1, <1>2 DEF Processes

\* The invariant holds before the first session.
LEMMA TInit == Init => TInv
  BY DEF Init, TInv, Processes, Places, Outcomes

\* Every step, and every stutter, keeps the invariant and the lines of the log.
LEMMA TNext ==
  ASSUME TInv, [Next]_vars
  PROVE  TInv' /\ (log' = log \/ IsPrefix(log, log'))
<1> USE DEF TInv
<1>1. CASE Refuse
  <2>1. train' \in Processes /\ train'.pc = "down" /\ train'.iteration = train.iteration
    BY <1>1, DownUntargeted DEF Refuse, Outcomes
  <2> QED
    BY <1>1, <2>1 DEF Refuse
<1>2. CASE Start
  <2>1. PICK count \in Requests, logBad \in BOOLEAN :
          /\ Accepted(count)
          /\ \/ /\ train' = [Down("failed") EXCEPT !.target = 0]
                /\ UNCHANGED log
             \/ /\ train' = [pc |-> "run", status |-> "up", target |-> count,
                             checkpoint |-> IF count < kFirstCheckpoint THEN count
                                            ELSE kFirstCheckpoint,
                             iteration |-> 0, logBad |-> logBad]
                /\ log' = IF logBad THEN log
                          ELSE Append(log, [session |-> session', iterations |-> 0])
    BY <1>2 DEF Start
  <2>2. session' \in Nat
    BY <1>2 DEF Start
  <2>3. CASE train' = [Down("failed") EXCEPT !.target = 0] /\ UNCHANGED log
    <3>1. train' \in Processes /\ train'.pc = "down" /\ train'.iteration = train.iteration
      BY <2>3, DownUntargeted DEF Outcomes
    <3> QED
      BY <2>2, <2>3, <3>1
  <2>4. CASE /\ train' = [pc |-> "run", status |-> "up", target |-> count,
                          checkpoint |-> IF count < kFirstCheckpoint THEN count
                                         ELSE kFirstCheckpoint,
                          iteration |-> 0, logBad |-> logBad]
             /\ log' = IF logBad THEN log
                       ELSE Append(log, [session |-> session', iterations |-> 0])
    <3>1. count \in 1 .. IntMax /\ kFirstCheckpoint \in 1 .. IntMax /\ IntMax \in Nat
      BY <2>1, ScheduleAssumption DEF Accepted
    <3>2. train' \in Processes /\ Counting(train')
      <4> DEFINE first == IF count < kFirstCheckpoint THEN count ELSE kFirstCheckpoint
      <4>1. first \in 1 .. count
        BY <3>1
      <4> HIDE DEF first
      <4>2. train' = [pc |-> "run", status |-> "up", target |-> count,
                      checkpoint |-> first, iteration |-> 0, logBad |-> logBad]
        BY <2>4 DEF first
      <4>3. count \in Int /\ first \in Int
        BY <3>1, <4>1
      <4>4. "run" \in Places /\ "up" \in Outcomes
        BY DEF Places, Outcomes
      <4>5. train' \in Processes
        BY <4>2, <4>3, <4>4 DEF Processes
      <4>6. train'.target = count /\ train'.checkpoint = first /\ train'.iteration = 0
        BY <4>2
      <4> QED
        BY <3>1, <4>1, <4>5, <4>6 DEF Counting
    <3>3. [session |-> session', iterations |-> 0] \in LogLine
      BY <2>2 DEF LogLine
    <3>4. log' \in Seq(LogLine) /\ IsPrefix(log, log')
      BY <2>4, <3>3, AppendIsLonger
    <3> QED
      BY <2>2, <2>4, <3>2, <3>4
  <2> QED
    BY <2>1, <2>3, <2>4
<1>3. CASE Run
  <2> DEFINE count == Int32(train.checkpoint - train.iteration)
  <2>1. Counting(train) /\ IntMax \in Nat
    BY <1>3, ScheduleAssumption DEF Run
  <2>2. count = train.checkpoint - train.iteration /\ count \in Nat /\ ~(count < 0)
    <3>1. train.checkpoint - train.iteration \in 0 .. IntMax
      BY <2>1 DEF Counting
    <3> QED
      BY <3>1, NoWrap
  <2>3. train' = [train EXCEPT !.iteration = train.checkpoint, !.pc = "open"]
    <3>1. train.iteration + count = train.checkpoint
      BY <2>1, <2>2 DEF Counting
    <3>2. train' = [train EXCEPT !.iteration = @ + count, !.pc = "open"]
      BY <1>3, <2>2 DEF Run
    <3> HIDE DEF count
    <3> QED
      BY <3>1, <3>2
  <2>4. train' \in Processes /\ Counting(train')
    <3>1. train' = [train EXCEPT !.checkpoint = train.checkpoint,
                                 !.iteration = train.checkpoint,
                                 !.pc = "open", !.logBad = train.logBad]
      BY <2>3 DEF Processes
    <3>2. train.checkpoint \in Int /\ train.logBad \in BOOLEAN
      BY DEF Processes
    <3>3. "open" \in Places
      BY DEF Places
    <3>4. /\ train' \in Processes /\ train'.target = train.target
          /\ train'.checkpoint = train.checkpoint
          /\ train'.iteration = train.checkpoint
      BY <3>1, <3>2, <3>3 DEF Processes
    <3> QED
      BY <2>1, <3>4 DEF Counting
  <2> QED
    BY <1>3, <2>4 DEF Run, Counting
<1>4. CASE OpenCheckpoint
  <2>1. CASE train' = Down("failed")
    BY <1>4, <2>1, DownKeeps DEF OpenCheckpoint
  <2>2. CASE train' = [train EXCEPT !.pc = "write"]
    <3>1. train' \in Processes /\ Counting(train')
      BY <1>4, <2>2 DEF OpenCheckpoint, Processes, Places, Counting
    <3> QED
      BY <1>4, <3>1 DEF OpenCheckpoint, Counting
  <2> QED
    BY <1>4, <2>1, <2>2 DEF OpenCheckpoint
<1>5. CASE WritePiece
  <2>1. CASE train' = Down("failed")
    BY <1>5, <2>1, DownKeeps DEF WritePiece
  <2>2. CASE train' = [train EXCEPT !.pc = IF Len(file) + 1 = Pieces THEN "report" ELSE @]
    <3>1. train' \in Processes /\ Counting(train')
      BY <1>5, <2>2 DEF WritePiece, Processes, Places, Counting
    <3> QED
      BY <1>5, <3>1 DEF WritePiece, Counting
  <2> QED
    BY <1>5, <2>1, <2>2 DEF WritePiece
<1>6. CASE WriteLine
  <2>1. PICK logBad \in {train.logBad, TRUE} :
          /\ log' = IF logBad THEN log ELSE Append(log, Line(train.iteration))
          /\ train' = [train EXCEPT !.pc = "check", !.logBad = logBad]
    BY <1>6 DEF WriteLine
  <2>2. Counting(train) /\ logBad \in BOOLEAN
    BY <1>6, <2>1 DEF WriteLine, Processes
  <2>3. train' \in Processes /\ Counting(train')
    BY <2>1, <2>2 DEF Processes, Places, Counting
  <2>4. Line(train.iteration) \in LogLine
    BY <2>2 DEF Line, LogLine, Counting
  <2>5. log' \in Seq(LogLine) /\ IsPrefix(log, log')
    BY <2>1, <2>4, AppendIsLonger
  <2> QED
    BY <1>6, <2>3, <2>5 DEF WriteLine, Counting
<1>7. CASE CheckMass
  <2>1. CASE train' = Down("lost updates") \/ train' = Down("done")
    BY <1>7, <2>1, DownKeeps DEF CheckMass
  <2>2. CASE train' = [train EXCEPT !.checkpoint = NextCheckpoint, !.pc = "run"]
    <3>1. Counting(train) /\ NextCheckpoint \in train.checkpoint .. train.target
      BY <1>7, NextInRange DEF CheckMass
    <3>2. train' = [train EXCEPT !.checkpoint = NextCheckpoint,
                                 !.iteration = train.iteration,
                                 !.pc = "run", !.logBad = train.logBad]
      BY <2>2 DEF Processes
    <3>3. NextCheckpoint \in Int /\ train.iteration \in Int /\ train.logBad \in BOOLEAN
      BY <3>1 DEF Processes, Counting
    <3>4. "run" \in Places
      BY DEF Places
    <3>5. /\ train' \in Processes /\ train'.target = train.target
          /\ train'.checkpoint = NextCheckpoint
          /\ train'.iteration = train.iteration
      <4> DEFINE next == NextCheckpoint
      <4>1. next \in Int
        BY <3>3
      <4>2. train' = [train EXCEPT !.checkpoint = next, !.iteration = train.iteration,
                                   !.pc = "run", !.logBad = train.logBad]
        BY <3>2
      <4> HIDE DEF next
      <4>3. /\ train' \in Processes /\ train'.target = train.target
            /\ train'.checkpoint = next
            /\ train'.iteration = train.iteration
        BY <3>3, <3>4, <4>1, <4>2 DEF Processes
      <4> QED
        BY <4>3 DEF next
    <3>6. Counting(train')
      <4> DEFINE next == NextCheckpoint
      <4>1. next \in train.checkpoint .. train.target
        BY <3>1
      <4>2. train'.checkpoint = next
        BY <3>5
      <4> HIDE DEF next
      <4> QED
        BY <3>1, <3>5, <4>1, <4>2, ScheduleAssumption DEF Counting
    <3>7. UNCHANGED <<session, log>>
      BY <1>7 DEF CheckMass
    <3> QED
      BY <3>5, <3>6, <3>7
  <2> QED
    BY <1>7, <2>1, <2>2 DEF CheckMass
<1>8. CASE Kill
  BY <1>8, DownKeeps DEF Kill
<1>9. CASE ReadStep
  BY <1>9 DEF ReadStep, OpenToMeasure, ReadPiece, Accept
<1>10. CASE UNCHANGED vars
  BY <1>10 DEF vars
<1> QED
  BY <1>1, <1>2, <1>3, <1>4, <1>5, <1>6, <1>7, <1>8, <1>9, <1>10 DEF Next, TrainStep

\* No int overflows: whatever the target, each checkpoint is at most the target
\* and each run goes on for a count that is not negative.
THEOREM NoOverflow == Spec => []CheckpointInRange
<1>1. TInv => CheckpointInRange
  BY DEF TInv, Counting, CheckpointInRange
<1> QED
  BY <1>1, TInit, TNext, PTL DEF Spec

\* No session, and no crash, shortens the log.
THEOREM LogOnlyGrows == Spec => LogAppendOnly
<1>1. TInv /\ [Next]_vars => [IsPrefix(log, log')]_log
  BY TNext
<1>2. TInv /\ [Next]_vars => TInv'
  BY TNext
<1> QED
  BY <1>1, <1>2, TInit, PTL DEF Spec, LogAppendOnly
-----------------------------------------------------------------------------
(* What is in the checkpoint file, and what a reader has of it *)

\* All pieces are of one save; while a save is under way, or just done, of
\* that one.
Equal(seq) == \A i, j \in DOMAIN seq : seq[i] = seq[j]
AllSave    == \A i \in DOMAIN file : file[i] = Save
FileInv ==
  /\ file \in Seq(LogLine) /\ Len(file) <= Pieces /\ Equal(file)
  /\ train.pc \in {"open", "write", "report", "check"} =>
       train.iteration = train.checkpoint
  /\ train.pc = "write" => Len(file) < Pieces /\ AllSave
  /\ train.pc \in {"report", "check"} => Whole /\ AllSave
  /\ train.pc # "down" => train.status = "up"
  /\ DoneIsOnDisk

\* What a reader left alone has read is the beginning of the file as it is.
ReaderProcesses ==
  [pc : {"closed", "reading", "refused", "loaded"}, pieces : Seq(LogLine), disturbed : BOOLEAN]
ReaderInv ==
  /\ reader \in ReaderProcesses
  /\ reader.pc = "reading" /\ ~reader.disturbed =>
       /\ Len(reader.pieces) <= Len(file)
       /\ \A i \in 1 .. Len(reader.pieces) : reader.pieces[i] = file[i]
  /\ LoadedWhole

\* The process that ends leaves the file behind, by a 0 only once it is whole.
LEMMA DownLeavesFile ==
  ASSUME FileInv, UNCHANGED <<file, session>>,
         NEW status \in Outcomes \ {"done"}, train' = Down(status)
  PROVE  FileInv'
  BY DEF FileInv, Down, DoneIsOnDisk, Whole

\* A reader that sees the file change under it no longer counts.
LEMMA DisturbedReader ==
  ASSUME ReaderInv, reader' = Disturbed
  PROVE  ReaderInv'
<1> DEFINE r == [reader EXCEPT !.disturbed = (reader.disturbed \/ reader.pc = "reading")]
<1>1. reader' = r
  BY DEF Disturbed
<1>2. /\ r \in ReaderProcesses /\ r.pc = reader.pc /\ r.pieces = reader.pieces
      /\ r.disturbed = (reader.disturbed \/ reader.pc = "reading")
  BY DEF ReaderInv, ReaderProcesses
<1> QED
  BY <1>1, <1>2, ZenonT(30) DEF ReaderInv, LoadedWhole

\* Nothing is in the file before the first session.
LEMMA FileInit == Init => FileInv /\ ReaderInv
<1> SUFFICES ASSUME Init PROVE FileInv /\ ReaderInv
  OBVIOUS
<1>1. file = << >> /\ Pieces \in Nat
  BY PiecesAssumption DEF Init
<1>2. FileInv
  BY <1>1 DEF Init, FileInv, Equal, DoneIsOnDisk
<1>3. ReaderInv
  BY <1>1 DEF Init, ReaderInv, ReaderProcesses, Closed, LoadedWhole
<1> QED
  BY <1>2, <1>3

\* One more piece of the save under way.
LEMMA PieceWritten ==
  ASSUME TInv, FileInv, train.pc = "write",
         file' = Append(file, Save), session' = session,
         train' = [train EXCEPT !.pc = IF Len(file) + 1 = Pieces THEN "report" ELSE @]
  PROVE  FileInv'
<1>1. Save \in LogLine
  BY DEF Save, LogLine, TInv, Processes
<1>2. file' \in Seq(LogLine) /\ Len(file') = Len(file) + 1 /\ Len(file) \in Nat
  BY <1>1 DEF FileInv
<1>3. Save' = Save
  BY DEF Save, TInv, Processes
<1>4. \A i \in DOMAIN file' : file'[i] = Save
  BY <1>1 DEF FileInv, AllSave
<1>5. /\ train'.pc = IF Len(file) + 1 = Pieces THEN "report" ELSE "write"
      /\ train'.iteration = train.iteration /\ train'.checkpoint = train.checkpoint
      /\ train'.status = train.status
  BY DEF TInv, Processes
<1>6. Len(file') <= Pieces /\ (Len(file') # Pieces => Len(file') < Pieces)
  BY <1>2, PiecesAssumption DEF FileInv
<1> QED
  BY <1>2, <1>3, <1>4, <1>5, <1>6 DEF FileInv, Equal, AllSave, Whole, DoneIsOnDisk

\* Every step keeps the file in order.
LEMMA FileNext ==
  ASSUME TInv, FileInv, [Next]_vars
  PROVE  FileInv'
<1>1. CASE Refuse
  BY <1>1 DEF Refuse, Down, FileInv, DoneIsOnDisk
<1>2. CASE Start
  BY <1>2 DEF Start, Down, FileInv, DoneIsOnDisk
<1>3. CASE Run
  <2> DEFINE count == Int32(train.checkpoint - train.iteration)
  <2>1. CASE train' = Down("failed")
    BY <1>3, <2>1, DownLeavesFile DEF Run, Outcomes
  <2>2. CASE train' = [train EXCEPT !.iteration = @ + count, !.pc = "open"]
    <3>1. Counting(train) /\ IntMax \in Nat
      BY <1>3, ScheduleAssumption DEF Run, TInv
    <3>2. train.checkpoint - train.iteration \in 0 .. IntMax
      BY <3>1 DEF Counting
    <3>3. count = train.checkpoint - train.iteration
      BY <3>2, NoWrap
    <3>4. train.iteration + count = train.checkpoint
      BY <3>1, <3>3 DEF Counting
    <3>5. train' = [train EXCEPT !.iteration = train.checkpoint, !.pc = "open"]
      BY <2>2, <3>4
    <3>6. /\ train'.pc = "open" /\ train'.iteration = train'.checkpoint
          /\ train'.status = train.status
      BY <3>5 DEF TInv, Processes
    <3> QED
      BY <1>3, <3>6 DEF Run, FileInv, DoneIsOnDisk
  <2> QED
    BY <1>3, <2>1, <2>2 DEF Run
<1>4. CASE OpenCheckpoint
  <2>1. CASE train' = Down("failed") /\ UNCHANGED file
    BY <1>4, <2>1, DownLeavesFile DEF OpenCheckpoint, Outcomes
  <2>2. CASE train' = [train EXCEPT !.pc = "write"] /\ file' = << >>
    <3>1. /\ train'.pc = "write" /\ train'.status = train.status
          /\ train'.iteration = train.iteration /\ train'.checkpoint = train.checkpoint
      BY <2>2 DEF TInv, Processes
    <3>2. file' \in Seq(LogLine) /\ Len(file') = 0 /\ DOMAIN file' = {}
      BY <2>2
    <3> QED
      BY <1>4, <3>1, <3>2, PiecesAssumption
         DEF OpenCheckpoint, FileInv, Equal, AllSave, DoneIsOnDisk
  <2> QED
    BY <1>4, <2>1, <2>2 DEF OpenCheckpoint
<1>5. CASE WritePiece
  <2>1. CASE train' = Down("failed") /\ UNCHANGED file
    BY <1>5, <2>1, DownLeavesFile DEF WritePiece, Outcomes
  <2>2. CASE /\ file' = Append(file, Save)
             /\ train' = [train EXCEPT !.pc = IF Len(file) + 1 = Pieces THEN "report" ELSE @]
    BY <1>5, <2>2, PieceWritten DEF WritePiece
  <2> QED
    BY <1>5, <2>1, <2>2 DEF WritePiece
<1>6. CASE WriteLine
  <2>1. /\ train'.pc = "check" /\ train'.status = train.status
        /\ train'.iteration = train.iteration /\ train'.checkpoint = train.checkpoint
    BY <1>6 DEF WriteLine, TInv, Processes
  <2>2. UNCHANGED <<file, session>> /\ train.pc = "report"
    BY <1>6 DEF WriteLine
  <2> QED
    BY <2>1, <2>2 DEF FileInv, Equal, AllSave, Whole, Save, DoneIsOnDisk
<1>7. CASE CheckMass
  <2>1. CASE train' = Down("lost updates")
    BY <1>7, <2>1, DownLeavesFile DEF CheckMass, Outcomes
  <2>2. CASE train.checkpoint = train.target /\ train' = Down("done")
    <3>1. Whole /\ AllSave /\ train.iteration = train.target
      BY <1>7, <2>2 DEF CheckMass, FileInv
    <3>2. UNCHANGED <<file, session>>
      BY <1>7 DEF CheckMass
    <3>3. /\ train'.pc = "down" /\ train'.status = "done" /\ train'.target = train.target
      BY <2>2 DEF Down
    <3>4. DoneIsOnDisk'
      BY <3>1, <3>2, <3>3 DEF DoneIsOnDisk, Whole, AllSave, Save
    <3> QED
      BY <3>2, <3>3, <3>4 DEF FileInv, Equal
  <2>3. CASE train' = [train EXCEPT !.checkpoint = NextCheckpoint, !.pc = "run"]
    <3>1. train'.pc = "run" /\ train'.status = train.status
      BY <2>3 DEF TInv, Processes
    <3> QED
      BY <1>7, <3>1 DEF CheckMass, FileInv, DoneIsOnDisk
  <2> QED
    BY <1>7, <2>1, <2>2, <2>3 DEF CheckMass
<1>8. CASE Kill
  BY <1>8, DownLeavesFile DEF Kill, Outcomes
<1>9. CASE ReadStep
  BY <1>9 DEF ReadStep, OpenToMeasure, ReadPiece, Accept, FileInv, Equal, AllSave,
              Whole, Save, DoneIsOnDisk
<1>10. CASE UNCHANGED vars
  BY <1>10 DEF vars, FileInv, Equal, AllSave, Whole, Save, DoneIsOnDisk
<1> QED
  BY <1>1, <1>2, <1>3, <1>4, <1>5, <1>6, <1>7, <1>8, <1>9, <1>10 DEF Next, TrainStep

\* Every step keeps what the reader has in order.
LEMMA ReaderNext ==
  ASSUME TInv, FileInv, ReaderInv, [Next]_vars
  PROVE  ReaderInv'
<1>1. CASE UNCHANGED <<file, reader>>
  BY <1>1 DEF ReaderInv, LoadedWhole
<1>2. CASE reader' = Disturbed
  BY <1>2, DisturbedReader
<1>3. CASE OpenToMeasure
  <2>1. reader' = [pc |-> "reading", pieces |-> << >>, disturbed |-> FALSE]
    BY <1>3 DEF OpenToMeasure, Closed
  <2>2. file' = file /\ Len(file) \in Nat
    BY <1>3 DEF OpenToMeasure, FileInv
  <2> QED
    BY <2>1, <2>2 DEF ReaderInv, ReaderProcesses, LoadedWhole
<1>4. CASE ReadPiece
  <2> DEFINE k == Len(reader.pieces) + 1
  <2>1. /\ reader.pc = "reading" /\ file' = file /\ reader \in ReaderProcesses
        /\ file \in Seq(LogLine) /\ reader.pieces \in Seq(LogLine)
        /\ k \in Nat /\ k >= 1 /\ Len(file) \in Nat
    BY <1>4 DEF ReadPiece, ReaderInv, ReaderProcesses, FileInv
  <2>2. CASE k > Len(file)
    <3>1. reader' = [reader EXCEPT !.pc = "refused"]
      BY <1>4, <2>2 DEF ReadPiece
    <3> QED
      BY <2>1, <3>1 DEF ReaderInv, ReaderProcesses, LoadedWhole
  <2>3. CASE ~(k > Len(file))
    <3> DEFINE pieces == Append(reader.pieces, file[k])
    <3>1. reader' = [reader EXCEPT !.pieces = pieces]
      BY <1>4, <2>3 DEF ReadPiece
    <3>2. file[k] \in LogLine
      BY <2>1, <2>3
    <3>3. /\ pieces \in Seq(LogLine) /\ Len(pieces) = k /\ pieces[k] = file[k]
          /\ \A i \in 1 .. Len(reader.pieces) : pieces[i] = reader.pieces[i]
      BY <2>1, <3>2
    <3> HIDE DEF pieces
    <3>4. /\ reader' \in ReaderProcesses /\ reader'.pc = "reading"
          /\ reader'.pieces = pieces /\ reader'.disturbed = reader.disturbed
      BY <2>1, <3>1, <3>3 DEF ReaderProcesses
    <3>5. \A i \in 1 .. k : i = k \/ i \in 1 .. Len(reader.pieces)
      BY <2>1
    <3> QED
      BY <2>1, <2>3, <3>3, <3>4, <3>5 DEF ReaderInv, LoadedWhole
  <2> QED
    BY <2>2, <2>3
<1>5. CASE Accept
  <2>1. /\ reader.pc = "reading" /\ Len(reader.pieces) = Pieces /\ file' = file
        /\ reader' = [reader EXCEPT !.pc = IF Len(file) > Pieces THEN "refused" ELSE "loaded"]
        /\ reader \in ReaderProcesses /\ Len(file) \in Nat /\ file \in Seq(LogLine)
    BY <1>5 DEF Accept, ReaderInv, FileInv
  <2>2. /\ reader' \in ReaderProcesses /\ reader'.pc \in {"refused", "loaded"}
        /\ reader'.pieces = reader.pieces /\ reader'.disturbed = reader.disturbed
    BY <2>1 DEF ReaderProcesses
  <2>3. ~reader.disturbed => \A i, j \in DOMAIN reader.pieces : reader.pieces[i] = reader.pieces[j]
    <3>1. DOMAIN reader.pieces = 1 .. Len(reader.pieces)
      BY <2>1 DEF ReaderProcesses
    <3>2. DOMAIN file = 1 .. Len(file)
      BY <2>1
    <3>3. Len(reader.pieces) \in Nat
      BY <2>1 DEF ReaderProcesses
    <3> QED
      BY <2>1, <3>1, <3>2, <3>3 DEF ReaderInv, FileInv, Equal
  <2> QED
    BY <2>1, <2>2, <2>3 DEF ReaderInv, LoadedWhole
<1> QED
  BY <1>1, <1>2, <1>3, <1>4, <1>5
     DEF Next, TrainStep, ReadStep, Refuse, Start, Run, OpenCheckpoint, WritePiece,
         WriteLine, CheckMass, Kill, vars

\* The whole inductive invariant.
THEOREM FilesInOrder == Spec => [](TInv /\ FileInv /\ ReaderInv)
<1>1. Init => TInv /\ FileInv /\ ReaderInv
  BY TInit, FileInit
<1>2. TInv /\ FileInv /\ ReaderInv /\ [Next]_vars => (TInv /\ FileInv /\ ReaderInv)'
  BY TNext, FileNext, ReaderNext
<1> QED
  BY <1>1, <1>2, PTL DEF Spec

\* However trainings end, are killed or fail, a load that nothing disturbed
\* gives back one save: never a torn file, never two saves in one.
THEOREM LoadsAreWhole == Spec => []LoadedWhole
  BY FilesInOrder, PTL DEF ReaderInv

\* A session that exits 0 leaves the whole save of its target behind.
THEOREM DoneLeavesCheckpoint == Spec => []DoneIsOnDisk
  BY FilesInOrder, PTL DEF FileInv

-----------------------------------------------------------------------------
(* The doublings of the first checkpoint *)

\* The doublings up to the n-th.
DoublingsTo(n) ==
  {g \in [0 .. n -> Nat] : /\ g[0] = kFirstCheckpoint
                           /\ \A k \in 1 .. n : g[k] = 2 * g[k - 1]}

LEMMA DoublingsExist == \A n \in Nat : DoublingsTo(n) # {}
<1> DEFINE S == {n \in Nat : DoublingsTo(n) # {}}
<1>1. 0 \in S
  <2> DEFINE g == [k \in 0 .. 0 |-> kFirstCheckpoint]
  <2>1. g \in DoublingsTo(0)
    BY ScheduleAssumption DEF DoublingsTo
  <2> QED
    BY <2>1
<1>2. ASSUME NEW n \in Nat, n \in S PROVE n + 1 \in S
  <2>1. PICK g \in DoublingsTo(n) : TRUE
    BY <1>2
  <2> DEFINE h == [k \in 0 .. n + 1 |-> IF k = n + 1 THEN 2 * g[n] ELSE g[k]]
  <2>2. /\ g \in [0 .. n -> Nat] /\ g[0] = kFirstCheckpoint
        /\ \A k \in 1 .. n : g[k] = 2 * g[k - 1]
    BY <2>1 DEF DoublingsTo
  <2>3. g[n] \in Nat /\ \A k \in 0 .. n : h[k] = g[k]
    BY <2>2
  <2>4. h[n + 1] = 2 * g[n] /\ h[0] = kFirstCheckpoint /\ h \in [0 .. n + 1 -> Nat]
    BY <2>2, <2>3
  <2> HIDE DEF h
  <2>5. ASSUME NEW k \in 1 .. n + 1 PROVE h[k] = 2 * h[k - 1]
    <3>1. CASE k = n + 1
      <4>1. k - 1 = n /\ n \in 0 .. n
        BY <3>1
      <4> QED
        BY <2>3, <2>4, <3>1, <4>1
    <3>2. CASE k \in 1 .. n
      <4>1. k - 1 \in 0 .. n /\ k \in 0 .. n
        BY <3>2
      <4> QED
        BY <2>2, <2>3, <3>2, <4>1
    <3> QED
      BY <3>1, <3>2
  <2>6. h \in DoublingsTo(n + 1)
    BY <2>4, <2>5 DEF DoublingsTo
  <2> QED
    BY <2>6
<1> HIDE DEF S
<1>3. \A n \in Nat : n \in S
  BY <1>1, <1>2, Induction
<1> QED
  BY <1>3 DEF S

LEMMA DoublingsAgree ==
  \A k \in Nat : \A m, n \in Nat : k <= m /\ k <= n =>
    \A g \in DoublingsTo(m), h \in DoublingsTo(n) : g[k] = h[k]
<1> DEFINE S == {k \in Nat : \A m, n \in Nat : k <= m /\ k <= n =>
                   \A g \in DoublingsTo(m), h \in DoublingsTo(n) : g[k] = h[k]}
<1>1. 0 \in S
  BY DEF DoublingsTo
<1>2. ASSUME NEW k \in Nat, k \in S PROVE k + 1 \in S
  <2> SUFFICES ASSUME NEW m \in Nat, NEW n \in Nat, k + 1 <= m, k + 1 <= n,
                      NEW g \in DoublingsTo(m), NEW h \in DoublingsTo(n)
               PROVE  g[k + 1] = h[k + 1]
    OBVIOUS
  <2>1. k + 1 \in 1 .. m /\ k + 1 \in 1 .. n /\ (k + 1) - 1 = k /\ k <= m /\ k <= n
    OBVIOUS
  <2>2. g[k + 1] = 2 * g[k] /\ h[k + 1] = 2 * h[k]
    BY <2>1 DEF DoublingsTo
  <2>3. g[k] = h[k]
    BY <1>2, <2>1
  <2> QED
    BY <2>2, <2>3
<1> HIDE DEF S
<1>3. \A k \in Nat : k \in S
  BY <1>1, <1>2, Induction
<1> QED
  BY <1>3 DEF S

\* The recursive function is one: it starts at the first checkpoint and doubles.
LEMMA DoublingIs ==
  /\ Doubling \in [Nat -> Nat] /\ Doubling[0] = kFirstCheckpoint
  /\ \A k \in Nat : Doubling[k + 1] = 2 * Doubling[k]
<1> DEFINE pick(n) == CHOOSE g : g \in DoublingsTo(n)
           f == [n \in Nat |-> pick(n)[n]]
           Def(h, k) == IF k = 0 THEN kFirstCheckpoint ELSE 2 * h[k - 1]
<1>1. \A n \in Nat : pick(n) \in DoublingsTo(n)
  BY DoublingsExist
<1>2. ASSUME NEW k \in Nat PROVE f[k] = Def(f, k) /\ f[k] \in Nat
  <2>1. /\ pick(k) \in [0 .. k -> Nat] /\ pick(k)[0] = kFirstCheckpoint
        /\ \A i \in 1 .. k : pick(k)[i] = 2 * pick(k)[i - 1]
    BY <1>1 DEF DoublingsTo
  <2>2. CASE k = 0
    BY <2>1, <2>2
  <2>3. CASE k # 0
    <3>1. k - 1 \in Nat /\ k \in 1 .. k /\ k - 1 <= k
      BY <2>3
    <3>2. pick(k)[k - 1] = pick(k - 1)[k - 1]
      BY <1>1, <3>1, DoublingsAgree
    <3> QED
      BY <2>1, <2>3, <3>1, <3>2
  <2> QED
    BY <2>2, <2>3
<1> HIDE DEF pick
<1>3. f = [k \in Nat |-> f[k]]
  OBVIOUS
<1> HIDE DEF f
<1>4. \E h : h = [k \in Nat |-> Def(h, k)]
  <2>1. [k \in Nat |-> f[k]] = [k \in Nat |-> Def(f, k)]
    BY <1>2
  <2>2. f = [k \in Nat |-> Def(f, k)]
    BY <1>3, <2>1
  <2> QED
    BY <2>2
<1>5. Doubling = [k \in Nat |-> Def(Doubling, k)]
  BY <1>4 DEF Doubling
<1>6. \A k \in Nat : Doubling[k] = Def(Doubling, k)
  BY <1>5
<1>7. Doubling[0] = kFirstCheckpoint /\ \A k \in Nat : Doubling[k + 1] = 2 * Doubling[k]
  <2>1. ASSUME NEW k \in Nat PROVE Doubling[k + 1] = 2 * Doubling[k]
    <3>1. k + 1 # 0 /\ (k + 1) - 1 = k /\ k + 1 \in Nat
      OBVIOUS
    <3> QED
      BY <1>6, <3>1
  <2> QED
    BY <1>6, <2>1
<1>8. \A k \in Nat : Doubling[k] \in Nat
  <2> DEFINE S == {k \in Nat : Doubling[k] \in Nat}
  <2>1. 0 \in S
    BY <1>7, ScheduleAssumption
  <2>2. \A k \in Nat : k \in S => k + 1 \in S
    BY <1>7
  <2> HIDE DEF S
  <2>3. \A k \in Nat : k \in S
    BY <2>1, <2>2, Induction
  <2> QED
    BY <2>3 DEF S
<1>9. Doubling \in [Nat -> Nat]
  BY <1>5, <1>8
<1> QED
  BY <1>7, <1>9

\* Doublings outgrow their numbers, and each is at least twice any before it.
LEMMA DoublingGrows ==
  /\ \A k \in Nat : Doubling[k] > k /\ Doubling[k] >= kFirstCheckpoint
  /\ \A j, k \in Nat : j < k => 2 * Doubling[j] <= Doubling[k]
<1>1. \A k \in Nat : Doubling[k] > k /\ Doubling[k] >= kFirstCheckpoint
  <2> DEFINE S == {k \in Nat : Doubling[k] > k /\ Doubling[k] >= kFirstCheckpoint}
  <2>1. 0 \in S
    BY DoublingIs, ScheduleAssumption
  <2>2. ASSUME NEW k \in Nat, k \in S PROVE k + 1 \in S
    <3>1. Doubling[k] \in Nat /\ Doubling[k + 1] = 2 * Doubling[k]
          /\ kFirstCheckpoint \in Nat
      BY DoublingIs, ScheduleAssumption
    <3> QED
      BY <2>2, <3>1
  <2> HIDE DEF S
  <2>3. \A k \in Nat : k \in S
    BY <2>1, <2>2, Induction
  <2> QED
    BY <2>3 DEF S
<1>2. ASSUME NEW j \in Nat PROVE \A k \in Nat : j < k => 2 * Doubling[j] <= Doubling[k]
  <2> DEFINE S == {k \in Nat : j < k => 2 * Doubling[j] <= Doubling[k]}
  <2>1. 0 \in S
    OBVIOUS
  <2>2. ASSUME NEW k \in Nat, k \in S PROVE k + 1 \in S
    <3>1. Doubling[k] \in Nat /\ Doubling[j] \in Nat /\ Doubling[k + 1] = 2 * Doubling[k]
      BY DoublingIs
    <3>2. CASE j < k
      BY <2>2, <3>1, <3>2
    <3>3. CASE j = k
      BY <3>1, <3>3
    <3>4. CASE j > k
      BY <3>4
    <3> QED
      BY <3>2, <3>3, <3>4
  <2> HIDE DEF S
  <2>3. \A k \in Nat : k \in S
    BY <2>1, <2>2, Induction
  <2> QED
    BY <2>3 DEF S
<1> QED
  BY <1>1, <1>2

\* What is due for a target: the target, and the doublings below it.
LEMMA DueIs ==
  ASSUME NEW target \in Nat \ {0}
  PROVE  /\ target \in Scheduled(target) /\ Scheduled(target) \subseteq 1 .. target
         /\ \A n : n \in Scheduled(target) <=>
              n = target \/ (n < target /\ \E k \in Nat : n = Doubling[k])
<1>1. ASSUME NEW k \in Nat, Doubling[k] < target
      PROVE  k \in 0 .. target /\ Doubling[k] \in 1 .. target - 1
  <2>1. Doubling[k] \in Nat /\ Doubling[k] > k
    BY DoublingIs, DoublingGrows
  <2> QED
    BY <1>1, <2>1
<1>2. \A n : n \in Scheduled(target) <=>
        n = target \/ (n < target /\ \E k \in Nat : n = Doubling[k])
  <2>1. ASSUME NEW n \in Scheduled(target), n # target
        PROVE  n < target /\ \E k \in Nat : n = Doubling[k]
    BY <2>1 DEF Scheduled
  <2>2. ASSUME NEW k \in Nat, Doubling[k] < target PROVE Doubling[k] \in Scheduled(target)
    BY <1>1, <2>2 DEF Scheduled
  <2> QED
    BY <2>1, <2>2 DEF Scheduled
<1> QED
  BY <1>2 DEF Scheduled

\* The first checkpoint is the least number due.
LEMMA FirstIsDue ==
  ASSUME NEW target \in Nat \ {0}
  PROVE  LET c == IF target < kFirstCheckpoint THEN target ELSE kFirstCheckpoint
         IN  c \in Scheduled(target) /\ \A n \in Scheduled(target) : c <= n
<1> DEFINE c == IF target < kFirstCheckpoint THEN target ELSE kFirstCheckpoint
<1>1. kFirstCheckpoint \in Nat /\ Doubling[0] = kFirstCheckpoint
  BY ScheduleAssumption, DoublingIs
<1>2. c \in Scheduled(target)
  BY <1>1, DueIs
<1>3. ASSUME NEW n \in Scheduled(target) PROVE c <= n
  <2>1. CASE n = target
    BY <1>1, <2>1
  <2>2. CASE n # target
    <3>1. PICK k \in Nat : n = Doubling[k] /\ n < target
      BY <2>2, DueIs
    <3>2. n \in Nat /\ n >= kFirstCheckpoint
      BY <3>1, DoublingIs, DoublingGrows
    <3> QED
      BY <1>1, <3>1, <3>2
  <2> QED
    BY <2>1, <2>2
<1> QED
  BY <1>2, <1>3

\* And NextCheckpoint goes on to the next larger one.
LEMMA NextIsDue ==
  ASSUME Counting(train), train.checkpoint \in Scheduled(train.target),
         train.checkpoint # train.target
  PROVE  /\ NextCheckpoint \in Scheduled(train.target)
         /\ NextCheckpoint > train.checkpoint
         /\ \A n \in Scheduled(train.target) : n < NextCheckpoint => n <= train.checkpoint
<1> DEFINE c == train.checkpoint
           t == train.target
<1>1. /\ c \in Nat /\ t \in Nat /\ c < t /\ c >= 1 /\ t <= IntMax /\ IntMax \in Nat
      /\ t # 0
  BY ScheduleAssumption DEF Counting
<1>2. PICK k \in Nat : c = Doubling[k]
  BY <1>1, DueIs
<1>3. /\ \A j \in Nat : Doubling[j] \in Nat /\ (k < j => 2 * c <= Doubling[j])
      /\ \A j \in Nat : j < k => Doubling[j] <= c
      /\ Doubling[k + 1] = 2 * c /\ k + 1 \in Nat
  <2>1. ASSUME NEW j \in Nat, j < k PROVE Doubling[j] <= c
    <3>1. 2 * Doubling[j] <= c /\ Doubling[j] \in Nat
      BY <1>2, <2>1, DoublingGrows, DoublingIs
    <3> QED
      BY <1>1, <3>1
  <2>2. \A j \in Nat : k < j => 2 * c <= Doubling[j]
    BY <1>2, DoublingGrows
  <2>3. Doubling[k + 1] = 2 * c
    BY <1>2, DoublingIs
  <2> QED
    BY <2>1, <2>2, <2>3, DoublingIs
<1>4. \A n \in Scheduled(t) : n <= c \/ n = t \/ n >= 2 * c
  <2> SUFFICES ASSUME NEW n \in Scheduled(t), n # t PROVE n <= c \/ n >= 2 * c
    OBVIOUS
  <2>1. PICK j \in Nat : n = Doubling[j]
    BY <1>1, DueIs
  <2>2. j < k \/ j = k \/ k < j
    OBVIOUS
  <2> QED
    BY <1>1, <1>2, <1>3, <2>1, <2>2
<1>5. Scheduled(t) \subseteq Nat /\ t \in Scheduled(t) /\ \A n \in Scheduled(t) : n <= t
  BY <1>1, DueIs
<1>6. CASE c > t \div 2
  <2>1. NextCheckpoint = t /\ 2 * c > t
    BY <1>1, <1>6 DEF NextCheckpoint
  <2> HIDE DEF c, t
  <2>2. \A n \in Scheduled(t) : n < t => n <= c
    BY <1>1, <1>4, <1>5, <2>1
  <2> QED
    BY <1>1, <1>5, <2>1, <2>2 DEF c, t
<1>7. CASE ~(c > t \div 2)
  <2>1. 2 * c <= t /\ c * 2 = 2 * c
    BY <1>1, <1>7
  <2>2. NextCheckpoint = 2 * c
    <3>1. Int32(c * 2) = c * 2
      BY <1>1, <2>1, NoWrap
    <3> QED
      BY <1>7, <2>1, <3>1 DEF NextCheckpoint
  <2>3. 2 * c \in Scheduled(t)
    BY <1>1, <1>3, <2>1, DueIs
  <2> HIDE DEF c, t
  <2>4. \A n \in Scheduled(t) : n < 2 * c => n <= c
    BY <1>1, <1>4, <1>5, <2>1
  <2> QED
    BY <1>1, <2>2, <2>3, <2>4 DEF c, t
<1> QED
  BY <1>6, <1>7

\* In any case it goes on.
LEMMA NextIsLater ==
  ASSUME Counting(train), train.checkpoint # train.target
  PROVE  NextCheckpoint \in Int /\ train.checkpoint \in Int
         /\ NextCheckpoint > train.checkpoint
<1> DEFINE c == train.checkpoint
           t == train.target
<1>1. c \in Nat /\ t \in Nat /\ c < t /\ c >= 1 /\ t <= IntMax /\ IntMax \in Nat
  BY ScheduleAssumption DEF Counting
<1>2. CASE c > t \div 2
  BY <1>1, <1>2 DEF NextCheckpoint
<1>3. CASE ~(c > t \div 2)
  <2>1. c * 2 <= t
    BY <1>1, <1>3
  <2>2. Int32(c * 2) = c * 2
    BY <1>1, <2>1, NoWrap
  <2> QED
    BY <1>1, <1>3, <2>1, <2>2 DEF NextCheckpoint
<1> QED
  BY <1>2, <1>3

-----------------------------------------------------------------------------
(* The log against the file and the schedule *)

Seen    == {Measured(i) : i \in Lines}
Before  == {"run", "open", "write", "report"}
InOrder == \A i, j \in Lines : i < j => Measured(i) < Measured(j)

\* The lines of the session are behind its counter and its file.
LogInv ==
  /\ \A i \in DOMAIN log : log[i].session <= session
  /\ InOrder
  /\ LogNeverAhead
  /\ train.pc \in Before => \A i \in Lines : Measured(i) < train.checkpoint
  /\ train.pc = "check" => \A i \in Lines : Measured(i) <= train.checkpoint

\* While every line reaches the log, all that was due up to the checkpoint is
\* in it, and nothing else.
DueInv ==
  LET due == Scheduled(train.target)
  IN  ~train.logBad /\ train.target > 0 =>
        /\ Seen \subseteq due
        /\ \A m \in Seen, n \in due : n < m => n \in Seen
        /\ train.pc # "down" => train.checkpoint \in due
        /\ train.pc \in Before => \A n \in due : n < train.checkpoint => n \in Seen
        /\ train.pc = "check" => \A n \in due : n <= train.checkpoint => n \in Seen
        /\ train.status = "done" => due \subseteq Seen

LInv == TInv /\ FileInv /\ LogInv /\ DueInv

LEMMA LinesAre ==
  ASSUME TInv
  PROVE  /\ Lines \subseteq 1 .. Len(log) /\ Len(log) \in Nat
         /\ \A i \in Lines : i \in Nat /\ Measured(i) \in Nat
<1>1. log \in Seq(LogLine)
  BY DEF TInv
<1>2. DOMAIN log = 1 .. Len(log) /\ Len(log) \in Nat
      /\ \A i \in 1 .. Len(log) : log[i] \in LogLine
  BY <1>1
<1>3. Lines \subseteq 1 .. Len(log)
  BY <1>2 DEF Lines
<1> QED
  BY <1>2, <1>3 DEF Measured, LogLine

\* A new session has no lines yet.
LEMMA NewSession ==
  ASSUME TInv, LogInv, session' = session + 1,
         log' = log \/ log' = Append(log, [session |-> session', iterations |-> 0])
  PROVE  Lines' = {} /\ Seen' = {} /\ \A i \in DOMAIN log' : log'[i].session <= session'
<1>1. log \in Seq(LogLine) /\ session \in Nat
  BY DEF TInv
<1>2. \A i \in DOMAIN log : log[i].session \in Nat /\ log[i].session < session'
  <2>1. \A i \in DOMAIN log : log[i] \in LogLine
    BY <1>1
  <2> QED
    BY <1>1, <2>1 DEF LogInv, LogLine
<1>3. CASE log' = log
  BY <1>1, <1>2, <1>3 DEF Lines, Seen
<1>4. CASE log' = Append(log, [session |-> session', iterations |-> 0])
  <2> DEFINE e == [session |-> session', iterations |-> 0]
  <2>1. e \in LogLine /\ e.session = session' /\ e.iterations = 0
    BY <1>1 DEF LogLine
  <2> HIDE DEF e
  <2>2. /\ DOMAIN log' = 1 .. Len(log) + 1 /\ DOMAIN log = 1 .. Len(log)
        /\ \A i \in 1 .. Len(log) : log'[i] = log[i]
        /\ log'[Len(log) + 1] = e /\ Len(log) \in Nat
    BY <1>1, <1>4, <2>1 DEF e
  <2>3. \A i \in DOMAIN log' : i \in DOMAIN log \/ i = Len(log) + 1
    BY <2>2
  <2>4. Lines' = {}
    BY <1>1, <1>2, <2>1, <2>2, <2>3 DEF Lines
  <2>5. \A i \in DOMAIN log' : log'[i].session <= session'
    BY <1>1, <1>2, <2>1, <2>2, <2>3
  <2> QED
    BY <2>4, <2>5 DEF Seen
<1> QED
  BY <1>3, <1>4

\* A line more.
LEMMA OneMoreLine ==
  ASSUME TInv, LogInv, NEW n \in Nat \ {0}, session' = session, log' = Append(log, Line(n))
  PROVE  LET k == Len(log) + 1
         IN  /\ Lines' = Lines \cup {k} /\ k \in Nat
             /\ \A i \in Lines : i \in 1 .. Len(log) /\ log'[i] = log[i]
             /\ log'[k] = Line(n) /\ Line(n).iterations = n /\ Line(n).session = session
             /\ \A i \in DOMAIN log' : log'[i].session <= session'
             /\ Seen' = Seen \cup {n}
<1> DEFINE k == Len(log) + 1
           e == Line(n)
<1>1. log \in Seq(LogLine) /\ session \in Nat
  BY DEF TInv
<1>2. e \in LogLine /\ e.session = session /\ e.iterations = n
  BY <1>1 DEF LogLine, Line
<1> HIDE DEF e
<1>3. /\ DOMAIN log' = 1 .. k /\ DOMAIN log = 1 .. Len(log)
      /\ \A i \in 1 .. Len(log) : log'[i] = log[i]
      /\ log'[k] = e /\ Len(log) \in Nat
  BY <1>1, <1>2 DEF e
<1>4. \A i : i \in 1 .. k <=> i \in 1 .. Len(log) \/ i = k
  BY <1>3
<1>5. Lines' = Lines \cup {k}
  <2>1. \A i : i \in Lines' <=> i \in Lines \/ i = k
    <3>1. k \in Lines'
      BY <1>2, <1>3, <1>4 DEF Lines
    <3>2. \A i \in 1 .. Len(log) : i \in Lines' <=> i \in Lines
      BY <1>3, <1>4 DEF Lines
    <3>3. Lines' \subseteq 1 .. k /\ Lines \subseteq 1 .. Len(log)
      BY <1>3 DEF Lines
    <3> QED
      BY <1>4, <3>1, <3>2, <3>3
  <2> QED
    BY <2>1
<1>6. \A i \in DOMAIN log' : log'[i].session <= session'
  BY <1>1, <1>2, <1>3, <1>4 DEF LogInv
<1>7. \A i \in Lines : i \in 1 .. Len(log) /\ log'[i] = log[i]
  BY <1>3 DEF Lines
<1>8. Seen' = Seen \cup {n}
  <2>1. Seen' = {log'[i].iterations : i \in Lines'}
    BY DEF Seen, Measured
  <2>2. Seen = {log[i].iterations : i \in Lines}
    BY DEF Seen, Measured
  <2> QED
    BY <1>2, <1>3, <1>5, <1>7, <2>1, <2>2
<1> QED
  BY <1>2, <1>3, <1>5, <1>6, <1>7, <1>8 DEF e

\* Where the log and the session stay as they are, so do the lines.
LEMMA SameLines ==
  ASSUME UNCHANGED <<log, session>>
  PROVE  Lines' = Lines /\ Seen' = Seen /\ (InOrder <=> InOrder')
         /\ \A i : log'[i].iterations = Measured(i)
  BY DEF Lines, Seen, InOrder, Measured

\* The process ends, not by a 0, with the file as it is.
LEMMA DownKeepsLog ==
  ASSUME LogInv, DueInv, UNCHANGED <<file, log, session>>,
         NEW status \in Outcomes \ {"done"}, train' = Down(status)
  PROVE  LogInv' /\ DueInv'
<1>1. /\ train'.pc = "down" /\ train'.status = status /\ train'.target = train.target
      /\ train'.iteration = train.iteration /\ train'.logBad = train.logBad
  BY DEF Down
<1>2. LogInv'
  BY <1>1, SameLines DEF LogInv, LogNeverAhead, Measured, Whole, Before
<1>3. DueInv'
  BY <1>1, SameLines DEF DueInv, Before
<1> QED
  BY <1>2, <1>3

\* Every step keeps both.
LEMMA LogNext ==
  ASSUME LInv, TInv', FileInv', [Next]_vars
  PROVE  LogInv' /\ DueInv'
<1> USE DEF LInv
<1>1. CASE Refuse
  <2>1. session' = session + 1 /\ log' = log /\ train' = [Down("refused") EXCEPT !.target = 0]
    BY <1>1 DEF Refuse
  <2>2. train'.pc = "down" /\ train'.target = 0
    BY <2>1 DEF Down
  <2> QED
    BY <2>1, <2>2, NewSession DEF LogInv, DueInv, LogNeverAhead, InOrder, Before
<1>2. CASE Start
  <2>1. PICK count \in Requests, logBad \in BOOLEAN :
          /\ Accepted(count)
          /\ \/ /\ train' = [Down("failed") EXCEPT !.target = 0]
                /\ UNCHANGED log
             \/ /\ train' = [pc |-> "run", status |-> "up", target |-> count,
                             checkpoint |-> IF count < kFirstCheckpoint THEN count
                                            ELSE kFirstCheckpoint,
                             iteration |-> 0, logBad |-> logBad]
                /\ log' = IF logBad THEN log
                          ELSE Append(log, [session |-> session', iterations |-> 0])
    BY <1>2 DEF Start
  <2>2. /\ Lines' = {} /\ Seen' = {}
        /\ \A i \in DOMAIN log' : log'[i].session <= session'
    BY <1>2, <2>1, NewSession DEF Start
  <2>3. LogInv'
    BY <2>2 DEF LogInv, LogNeverAhead, InOrder
  <2>4. CASE train' = [Down("failed") EXCEPT !.target = 0]
    <3>1. train'.target = 0
      BY <2>4 DEF Down
    <3> QED
      BY <2>3, <3>1 DEF DueInv
  <2>5. CASE train' = [pc |-> "run", status |-> "up", target |-> count,
                       checkpoint |-> IF count < kFirstCheckpoint THEN count
                                      ELSE kFirstCheckpoint,
                       iteration |-> 0, logBad |-> logBad]
    <3> DEFINE first == IF count < kFirstCheckpoint THEN count ELSE kFirstCheckpoint
    <3>1. /\ train'.pc = "run" /\ train'.status = "up" /\ train'.target = count
          /\ train'.checkpoint = first
      BY <2>5
    <3>2. count \in Nat \ {0}
      BY <2>1, ScheduleAssumption DEF Accepted
    <3>3. first \in Scheduled(count) /\ \A n \in Scheduled(count) : first <= n
      BY <3>2, FirstIsDue
    <3>4. first \in Nat /\ Scheduled(count) \subseteq Nat
      BY <3>2, <3>3, DueIs
    <3> HIDE DEF first
    <3>5. \A n \in Scheduled(count) : ~(n < first)
      BY <3>3, <3>4
    <3> QED
      BY <2>2, <2>3, <3>1, <3>3, <3>5 DEF DueInv, Before
  <2> QED
    BY <2>1, <2>4, <2>5
<1>3. CASE Run
  <2> DEFINE count == Int32(train.checkpoint - train.iteration)
  <2>1. CASE train' = Down("failed")
    BY <1>3, <2>1, DownKeepsLog DEF Run, Outcomes
  <2>2. CASE train' = [train EXCEPT !.iteration = @ + count, !.pc = "open"]
    <3>1. Counting(train) /\ IntMax \in Nat /\ train \in Processes
      BY <1>3, ScheduleAssumption DEF Run, TInv
    <3>2. train.checkpoint - train.iteration \in 0 .. IntMax
      BY <3>1 DEF Counting
    <3>3. count = train.checkpoint - train.iteration
      BY <3>2, NoWrap
    <3>4. train.iteration + count = train.checkpoint
      BY <3>1, <3>3 DEF Counting
    <3>5. train' = [train EXCEPT !.iteration = train.checkpoint, !.pc = "open"]
      BY <2>2, <3>4
    <3>6. /\ train'.pc = "open" /\ train'.iteration = train.checkpoint
          /\ train'.checkpoint = train.checkpoint /\ train'.target = train.target
          /\ train'.logBad = train.logBad /\ train'.status = train.status
      BY <3>1, <3>5 DEF Processes
    <3>7. UNCHANGED <<file, log, session>> /\ train.pc = "run"
      BY <1>3 DEF Run
    <3>8. LogInv'
      BY <3>6, <3>7, SameLines DEF LogInv, LogNeverAhead, Measured, Whole, Before
    <3>9. DueInv'
      BY <3>6, <3>7, SameLines DEF DueInv, Before
    <3> QED
      BY <3>8, <3>9
  <2> QED
    BY <1>3, <2>1, <2>2 DEF Run
<1>4. CASE OpenCheckpoint
  <2>1. CASE train' = Down("failed") /\ UNCHANGED file
    BY <1>4, <2>1, DownKeepsLog DEF OpenCheckpoint, Outcomes
  <2>2. CASE train' = [train EXCEPT !.pc = "write"] /\ file' = << >>
    <3>1. /\ train'.pc = "write" /\ train'.iteration = train.iteration
          /\ train'.checkpoint = train.checkpoint /\ train'.target = train.target
          /\ train'.logBad = train.logBad /\ train'.status = train.status
      BY <2>2 DEF TInv, Processes
    <3>2. UNCHANGED <<log, session>> /\ train.pc = "open" /\ DOMAIN file' = {}
          /\ train.iteration = train.checkpoint
      BY <1>4, <2>2 DEF OpenCheckpoint, FileInv
    <3>3. LogInv'
      BY <3>1, <3>2, SameLines DEF LogInv, LogNeverAhead, Measured, Before
    <3>4. DueInv'
      BY <3>1, <3>2, SameLines DEF DueInv, Before
    <3> QED
      BY <3>3, <3>4
  <2> QED
    BY <1>4, <2>1, <2>2 DEF OpenCheckpoint
<1>5. CASE WritePiece
  <2>1. CASE train' = Down("failed") /\ UNCHANGED file
    BY <1>5, <2>1, DownKeepsLog DEF WritePiece, Outcomes
  <2>2. CASE /\ file' = Append(file, Save)
             /\ train' = [train EXCEPT !.pc = IF Len(file) + 1 = Pieces THEN "report" ELSE @]
    <3>1. /\ train'.pc \in {"write", "report"} /\ train'.iteration = train.iteration
          /\ train'.checkpoint = train.checkpoint /\ train'.target = train.target
          /\ train'.logBad = train.logBad /\ train'.status = train.status
      BY <1>5, <2>2 DEF WritePiece, TInv, Processes
    <3>2. UNCHANGED <<log, session>> /\ train.pc = "write" /\ file \in Seq(LogLine)
          /\ train.iteration = train.checkpoint /\ train.iteration \in Nat /\ session \in Nat
      BY <1>5 DEF WritePiece, FileInv, TInv, Counting
    <3>3. Save.session = session /\ Save.iterations = train.iteration /\ Save \in LogLine
      BY <3>2 DEF Save, LogLine
    <3>4. \A i \in DOMAIN file' : (i \in DOMAIN file /\ file'[i] = file[i]) \/ file'[i] = Save
      BY <2>2, <3>2, <3>3
    <3>5. \A i \in Lines : Measured(i) < train.iteration
      BY <3>2 DEF LogInv, Before
    <3>6. LogInv'
      <4>1. ASSUME NEW i \in Lines, NEW piece \in DOMAIN file'
            PROVE  file'[piece].session = session /\ file'[piece].iterations >= Measured(i)
        <5>1. Measured(i) \in Nat
          BY LinesAre
        <5> QED
          BY <3>2, <3>3, <3>4, <3>5, <4>1, <5>1 DEF LogInv, LogNeverAhead
      <4>2. LogNeverAhead'
        BY <3>1, <3>2, <3>5, <4>1, SameLines DEF LogNeverAhead, Measured
      <4> QED
        BY <3>1, <3>2, <4>2, SameLines DEF LogInv, Measured, Before
    <3>7. DueInv'
      BY <3>1, <3>2, SameLines DEF DueInv, Before
    <3> QED
      BY <3>6, <3>7
  <2> QED
    BY <1>5, <2>1, <2>2 DEF WritePiece
<1>6. CASE WriteLine
  <2>1. PICK logBad \in {train.logBad, TRUE} :
          /\ log' = IF logBad THEN log ELSE Append(log, Line(train.iteration))
          /\ train' = [train EXCEPT !.pc = "check", !.logBad = logBad]
    BY <1>6 DEF WriteLine
  <2>2. /\ train'.pc = "check" /\ train'.iteration = train.iteration
        /\ train'.checkpoint = train.checkpoint /\ train'.target = train.target
        /\ train'.logBad = logBad /\ train'.status = train.status
    BY <2>1 DEF TInv, Processes
  <2>3. /\ UNCHANGED <<file, session>> /\ train.pc = "report" /\ Whole /\ AllSave
        /\ train.iteration = train.checkpoint /\ train.iteration \in Nat \ {0}
        /\ train.status = "up" /\ train.checkpoint \in Nat
    BY <1>6 DEF WriteLine, FileInv, TInv, Counting
  <2>4. CASE logBad
    <3>1. UNCHANGED <<log, session>>
      BY <2>1, <2>3, <2>4
    <3>2. \A i \in Lines : Measured(i) \in Nat
      BY LinesAre
    <3>3. LogInv'
      BY <2>2, <2>3, <3>1, <3>2, SameLines DEF LogInv, LogNeverAhead, Measured, Whole, Before
    <3> QED
      BY <2>2, <2>4, <3>3 DEF DueInv
  <2>5. CASE ~logBad
    <3> DEFINE n == train.iteration
               k == Len(log) + 1
    <3>1. /\ Lines' = Lines \cup {k} /\ k \in Nat
          /\ \A i \in Lines : i \in 1 .. Len(log) /\ log'[i] = log[i]
          /\ log'[k].iterations = n
          /\ \A i \in DOMAIN log' : log'[i].session <= session'
          /\ Seen' = Seen \cup {n}
      BY <2>1, <2>3, <2>5, OneMoreLine
    <3>2. \A i \in Lines : Measured(i) \in Nat /\ Measured(i) < n /\ i < k
      <4>1. \A i \in Lines : Measured(i) \in Nat
        BY LinesAre
      <4> QED
        BY <2>3, <3>1, <4>1 DEF LogInv, Before
    <3>3. \A i \in Lines' : (i \in Lines /\ log'[i] = log[i]) \/ i = k
      BY <3>1
    <3>4. InOrder'
      BY <2>3, <3>1, <3>2, <3>3 DEF InOrder, LogInv, Measured
    <3>5. LogNeverAhead'
      <4>1. \A i \in Lines' : log'[i].iterations \in Nat /\ log'[i].iterations <= n
        BY <2>3, <3>1, <3>2, <3>3 DEF Measured
      <4>2. \A piece \in DOMAIN file : file[piece].session = session /\ file[piece].iterations = n
        BY <2>3 DEF AllSave, Save
      <4> QED
        BY <2>2, <2>3, <4>1, <4>2 DEF LogNeverAhead, Measured, Whole
    <3>6. LogInv'
      <4>1. \A i \in Lines' : log'[i].iterations <= train.checkpoint
        BY <2>3, <3>1, <3>2, <3>3 DEF Measured
      <4> QED
        BY <2>2, <3>1, <3>4, <3>5, <4>1 DEF LogInv, Measured, Before
    <3>7. DueInv'
      <4> DEFINE due == Scheduled(train.target)
      <4>1. SUFFICES ASSUME ~train.logBad, train.target > 0
                     PROVE  /\ Seen \cup {n} \subseteq due
                            /\ \A m \in Seen \cup {n}, d \in due : d < m => d \in Seen \cup {n}
                            /\ n \in due
                            /\ \A d \in due : d <= n => d \in Seen \cup {n}
        <5>1. ~logBad => ~train.logBad
          BY <2>1
        <5> QED
          BY <2>2, <2>3, <2>5, <3>1, <5>1 DEF DueInv, Before
      <4>2. /\ Seen \subseteq due /\ n \in due
            /\ \A m \in Seen, d \in due : d < m => d \in Seen
            /\ \A d \in due : d < n => d \in Seen
        BY <2>3, <4>1 DEF DueInv, Before
      <4>3. due \subseteq Nat
        BY <4>1, DueIs DEF TInv, Processes
      <4> HIDE DEF due, n
      <4> QED
        BY <4>2, <4>3
    <3> QED
      BY <3>6, <3>7
  <2> QED
    BY <2>4, <2>5
<1>7. CASE CheckMass
  <2>1. CASE train' = Down("lost updates")
    BY <1>7, <2>1, DownKeepsLog DEF CheckMass, Outcomes
  <2>2. CASE train.checkpoint = train.target /\ train' = Down("done")
    <3>1. /\ train'.pc = "down" /\ train'.status = "done" /\ train'.target = train.target
          /\ train'.iteration = train.iteration /\ train'.logBad = train.logBad
      BY <2>2 DEF Down
    <3>2. UNCHANGED <<file, log, session>> /\ train.pc = "check"
          /\ train.checkpoint \in Nat \ {0}
      <4>1. UNCHANGED <<file, log, session>> /\ train.pc = "check"
        BY <1>7 DEF CheckMass
      <4>2. Counting(train) /\ IntMax \in Nat
        BY <4>1, ScheduleAssumption DEF TInv
      <4> QED
        BY <4>1, <4>2 DEF Counting
    <3>3. LogInv'
      BY <3>1, <3>2, SameLines DEF LogInv, LogNeverAhead, Measured, Whole, Before
    <3>4. \A n \in Scheduled(train.target) : n <= train.checkpoint
      BY <2>2, <3>2, DueIs
    <3>5. DueInv'
      BY <3>1, <3>2, <3>4, SameLines DEF DueInv, Before
    <3> QED
      BY <3>3, <3>5
  <2>3. CASE /\ train.checkpoint # train.target
             /\ train' = [train EXCEPT !.checkpoint = NextCheckpoint, !.pc = "run"]
    <3> DEFINE next == NextCheckpoint
    <3>1. /\ train'.pc = "run" /\ train'.checkpoint = next
          /\ train'.iteration = train.iteration /\ train'.target = train.target
          /\ train'.logBad = train.logBad /\ train'.status = train.status
      BY <2>3 DEF TInv, Processes
    <3>2. UNCHANGED <<file, log, session>> /\ train.pc = "check" /\ Counting(train)
          /\ train.status = "up"
      BY <1>7 DEF CheckMass, TInv, FileInv
    <3>3. next \in Int /\ next > train.checkpoint /\ train.checkpoint \in Int
      BY <2>3, <3>2, NextIsLater
    <3> HIDE DEF next
    <3>4. \A i \in Lines : Measured(i) < next
      <4>1. \A i \in Lines : Measured(i) \in Nat
        BY LinesAre
      <4> QED
        BY <3>2, <3>3, <4>1 DEF LogInv
    <3>5. LogInv'
      BY <3>1, <3>2, <3>4, SameLines DEF LogInv, LogNeverAhead, Measured, Whole, Before
    <3>6. DueInv'
      <4> DEFINE due == Scheduled(train.target)
      <4>1. SUFFICES ASSUME ~train.logBad, train.target > 0
                     PROVE  next \in due /\ \A d \in due : d < next => d \in Seen
        BY <3>1, <3>2, SameLines DEF DueInv, Before
      <4>2. train.checkpoint \in due /\ \A d \in due : d <= train.checkpoint => d \in Seen
        BY <3>2, <4>1 DEF DueInv
      <4>3. next \in due /\ \A d \in due : d < next => d <= train.checkpoint
        BY <2>3, <3>2, <4>2, NextIsDue DEF next
      <4> QED
        BY <4>2, <4>3
    <3> QED
      BY <3>5, <3>6
  <2> QED
    BY <1>7, <2>1, <2>2, <2>3 DEF CheckMass
<1>8. CASE Kill
  BY <1>8, DownKeepsLog DEF Kill, Outcomes
<1>9. CASE ReadStep \/ UNCHANGED vars
  <2>1. UNCHANGED <<file, log, session, train>>
    BY <1>9 DEF ReadStep, OpenToMeasure, ReadPiece, Accept, vars
  <2> QED
    BY <2>1, SameLines DEF LogInv, LogNeverAhead, DueInv, Measured, Whole
<1> QED
  BY <1>1, <1>2, <1>3, <1>4, <1>5, <1>6, <1>7, <1>8, <1>9 DEF Next, TrainStep

LEMMA LogInit == Init => LogInv /\ DueInv
<1> SUFFICES ASSUME Init PROVE LogInv /\ DueInv
  OBVIOUS
<1>1. Lines = {} /\ Seen = {} /\ train.pc = "down" /\ train.target = 0 /\ DOMAIN log = {}
  BY DEF Init, Lines, Seen
<1> QED
  BY <1>1 DEF LogInv, DueInv, LogNeverAhead, InOrder, Before

\* The inductive invariant with the log: the lines of the session under way are
\* the numbers it has reached, in their order, and no line names a later save
\* than the file has held.
THEOREM LogInOrder == Spec => []LInv
<1>1. Init => LInv
  BY TInit, FileInit, LogInit DEF LInv
<1>2. LInv /\ [Next]_vars => LInv'
  <2> SUFFICES ASSUME LInv, [Next]_vars PROVE LInv'
    OBVIOUS
  <2>1. TInv' /\ FileInv'
    BY TNext, FileNext DEF LInv
  <2> QED
    BY <2>1, LogNext DEF LInv
<1> QED
  BY <1>1, <1>2, PTL DEF Spec

\* However sessions end, the log never names a save the file has not held.
THEOREM LogStaysBehind == Spec => []LogNeverAhead
<1>1. LInv => LogNeverAhead
  BY DEF LInv, LogInv
<1> QED
  BY <1>1, LogInOrder, PTL

\* A session measures what the usage text promises, for every first checkpoint,
\* target and width of int.
THEOREM ScheduleIsKept == Spec => []ScheduleKept
<1>1. LInv => ScheduleKept
  <2> SUFFICES ASSUME LInv, ~train.logBad, train.target > 0
               PROVE  LET due == Scheduled(train.target)
                      IN  /\ \A i \in Lines : Measured(i) \in due
                          /\ \A i \in Lines : \A n \in due :
                               n < Measured(i) <=> \E j \in Lines : j < i /\ Measured(j) = n
                          /\ train.status = "done" => due \subseteq {Measured(i) : i \in Lines}
    BY DEF ScheduleKept
  <2> DEFINE due == Scheduled(train.target)
  <2>1. Seen \subseteq due /\ (\A m \in Seen, n \in due : n < m => n \in Seen)
        /\ (train.status = "done" => due \subseteq Seen)
    BY DEF LInv, DueInv
  <2>2. InOrder /\ \A i \in Lines : i \in Nat /\ Measured(i) \in Nat /\ Measured(i) \in Seen
    BY LinesAre DEF LInv, LogInv, Seen
  <2> HIDE DEF due
  <2>3. ASSUME NEW i \in Lines, NEW n \in due, n < Measured(i)
        PROVE  \E j \in Lines : j < i /\ Measured(j) = n
    <3>1. PICK j \in Lines : Measured(j) = n
      BY <2>1, <2>2, <2>3 DEF Seen
    <3>2. ~(i < j) /\ i # j
      BY <2>2, <2>3, <3>1 DEF InOrder
    <3> QED
      BY <2>2, <3>1, <3>2
  <2> QED
    BY <2>1, <2>2, <2>3 DEF InOrder, Seen, due
<1> QED
  BY <1>1, LogInOrder, PTL

-----------------------------------------------------------------------------
(* The k-th card of a set *)

Below(cards, card) == {other \in cards : other < card}

\* Every place below the size of a set is the place of one of its cards.
LEMMA NthIs ==
  ASSUME NEW S \in SUBSET Nat, IsFiniteSet(S), NEW k \in Nat, k < Cardinality(S)
  PROVE  nth(S, k) \in S
<1> DEFINE Good == {n \in Nat : n < Cardinality(S) =>
                                  \E c \in S : Cardinality(Below(S, c)) = n}
<1>1. ASSUME NEW c \in S
      PROVE  /\ IsFiniteSet(Below(S, c)) /\ Cardinality(Below(S, c)) \in Nat
             /\ IsFiniteSet(Below(S, c) \cup {c})
             /\ Cardinality(Below(S, c) \cup {c}) = Cardinality(Below(S, c)) + 1
  <2>1. Below(S, c) \in SUBSET S /\ ~(c \in Below(S, c))
    BY DEF Below
  <2>2. IsFiniteSet(Below(S, c))
    BY <2>1, FS_Subset
  <2> QED
    BY <2>1, <2>2, FS_AddElement, FS_CardinalityType
<1> DEFINE before(d, c) == d < c
<1>2. \A c, d \in S : /\ before(d, c) \/ d = c \/ before(c, d)
                      /\ d <= c => ~before(c, d)
                      /\ c # d => ~(before(c, d) /\ before(d, c))
                      /\ ~before(c, c)
                      /\ \A e \in S : before(c, d) /\ before(d, e) => before(c, e)
  OBVIOUS
<1>3. \A c, d : d \in Below(S, c) <=> d \in S /\ before(d, c)
  BY DEF Below
<1> HIDE DEF before
<1>4. 0 \in Good
  <2> SUFFICES ASSUME 0 < Cardinality(S)
               PROVE  \E c \in S : Cardinality(Below(S, c)) = 0
    OBVIOUS
  <2>1. S # {}
    BY FS_EmptySet
  <2>2. PICK c \in S : \A d \in S : c <= d
    BY <2>1, Least
  <2>3. Below(S, c) = {}
    BY <1>2, <1>3, <2>2
  <2> QED
    BY <2>3, FS_EmptySet
<1>5. ASSUME NEW n \in Nat, n \in Good
      PROVE  n + 1 \in Good
  <2> SUFFICES ASSUME n + 1 < Cardinality(S)
               PROVE  \E c \in S : Cardinality(Below(S, c)) = n + 1
    OBVIOUS
  <2>1. Cardinality(S) \in Nat
    BY FS_CardinalityType
  <2>2. PICK c \in S : Cardinality(Below(S, c)) = n
    BY <1>5, <2>1
  <2> DEFINE T == {d \in S : before(c, d)}
  <2>3. T # {}
    <3> SUFFICES ASSUME T = {}
                 PROVE  FALSE
      OBVIOUS
    <3>1. ASSUME NEW d \in S
          PROVE  before(d, c) \/ d = c
      <4>1. ~before(c, d)
        OBVIOUS
      <4> QED
        BY <1>2, <4>1, <2>2, Zenon
    <3>2. \A d : d \in S <=> d \in Below(S, c) \cup {c}
      BY <1>3, <3>1, <2>2
    <3>3. Cardinality(S) = n + 1
      <4>1. S = Below(S, c) \cup {c}
        BY <3>2
      <4> QED
        BY <1>1, <2>2, <4>1
    <3> QED
      BY <2>1, <3>3
  <2>4. T \subseteq Nat
    OBVIOUS
  <2>5. PICK e \in T : \A d \in T : e <= d
    BY <2>3, <2>4, Least
  <2>6. Below(S, e) = Below(S, c) \cup {c}
    <3>1. e \in S /\ before(c, e) /\ \A d \in T : ~before(d, e)
      BY <1>2, <2>5
    <3>2. ASSUME NEW d \in S
          PROVE  before(d, e) <=> before(d, c) \/ d = c
      BY <1>2, <2>2, <3>1, Zenon
    <3> QED
      BY <1>3, <3>2, <2>2
  <2>7. Cardinality(Below(S, e)) = n + 1 /\ e \in S
    BY <1>1, <2>2, <2>5, <2>6
  <2> QED
    BY <2>7
<1> HIDE DEF Good
<1>6. k \in Good
  BY <1>4, <1>5, Induction
<1>7. \E c \in S : Cardinality(Below(S, c)) = k
  BY <1>6 DEF Good
<1> QED
  BY <1>7 DEF nth, Below

-----------------------------------------------------------------------------
(* The runs of the table *)

LEMMA Sizes == kMaxN \in Nat /\ kMaxN >= 4 /\ deck_size \in Nat /\ deck_size >= 4
               /\ deck_size <= kMaxN /\ Unit \in Nat /\ Unit >= 1
<1>1. kMaxN \in Nat /\ kMaxN >= 4 /\ deck_size \in Nat /\ deck_size >= 4 /\ deck_size <= kMaxN
  BY SizesAssumption
<1>2. kMaxN * kMaxN >= 0
  BY <1>1
<1> QED
  BY <1>1, <1>2, SizesAssumption

\* A run is one sum shorter than its number, and the next begins behind it.
LEMMA NextRun ==
  ASSUME NEW n \in Nat, n >= 1
  PROVE  offset(n) \in Nat /\ offset(n + 1) = offset(n) + n - 1
<1> DEFINE x == (n - 1) * (n - 2)
           y == n * (n - 1)
<1>1. x \in Int /\ y = x + 2 * (n - 1)
  OBVIOUS
<1>2. x >= 0
  <2>1. CASE n = 1
    BY <2>1
  <2>2. CASE n # 1
    BY <2>2
  <2> QED
    BY <2>1, <2>2
<1>3. offset(n) = x \div 2
  BY DEF offset
<1>4. offset(n + 1) = y \div 2
  <2>1. ((n + 1) - 1) * ((n + 1) - 2) = y
    OBVIOUS
  <2> QED
    BY <2>1 DEF offset
<1> HIDE DEF x, y
<1> QED
  BY <1>1, <1>2, <1>3, <1>4

\* Later runs begin later.
LEMMA RunsInOrder ==
  ASSUME NEW m \in Nat, NEW n \in Nat, m >= 1, m <= n
  PROVE  offset(m) <= offset(n)
<1> DEFINE Good == {k \in Nat : offset(m) <= offset(m + k)}
<1>1. 0 \in Good
  BY NextRun
<1>2. ASSUME NEW k \in Nat, k \in Good
      PROVE  k + 1 \in Good
  <2>1. /\ offset(m) \in Nat /\ offset(m + k) \in Nat
        /\ offset((m + k) + 1) = offset(m + k) + (m + k) - 1
    BY NextRun
  <2>2. (m + k) + 1 = m + (k + 1)
    OBVIOUS
  <2> QED
    BY <1>2, <2>1, <2>2
<1>3. n - m \in Nat /\ m + (n - m) = n
  OBVIOUS
<1> HIDE DEF Good
<1>4. n - m \in Good
  BY <1>1, <1>2, <1>3, Induction
<1> QED
  BY <1>3, <1>4 DEF Good

\* The cursor is in one run at a time, and the table holds all of it.
LEMMA RunOf ==
  ASSUME NEW n \in 1 .. kMaxN, NEW k \in 0 .. n - 2
  PROVE  /\ run_of(offset(n) + k) = n /\ offset(n) + k \in 0 .. kSumCount - 1
         /\ offset(n) \in Nat
<1> DEFINE cursor == offset(n) + k
<1>1. n \in Nat /\ n >= 1 /\ k \in Nat /\ kMaxN \in Nat
  BY Sizes
<1>2. offset(n) \in Nat /\ offset(n + 1) = offset(n) + n - 1
  BY <1>1, NextRun
<1>3. offset(n) <= cursor /\ cursor < offset(n + 1) /\ cursor \in Nat
  BY <1>1, <1>2
<1> HIDE DEF cursor
<1>4. ASSUME NEW m \in 1 .. kMaxN, offset(m) <= cursor, cursor < offset(m + 1)
      PROVE  m = n
  <2>1. m \in Nat /\ m >= 1 /\ offset(m) \in Nat /\ offset(m + 1) \in Nat
    BY <1>1, NextRun
  <2>2. CASE m < n
    <3>1. offset(m + 1) <= offset(n)
      BY <1>1, <2>1, <2>2, RunsInOrder
    <3> QED
      BY <1>2, <1>3, <1>4, <2>1, <3>1
  <2>3. CASE n < m
    <3>1. offset(n + 1) <= offset(m)
      BY <1>1, <2>1, <2>3, RunsInOrder
    <3> QED
      BY <1>2, <1>3, <1>4, <2>1, <3>1
  <2> QED
    BY <1>1, <2>1, <2>2, <2>3
<1>5. run_of(cursor) = n
  BY <1>3, <1>4 DEF run_of
<1>6. offset(n + 1) <= offset(kMaxN + 1)
  BY <1>1, RunsInOrder
<1>7. offset(kMaxN + 1) = kSumCount
  <2>1. ((kMaxN + 1) - 1) * ((kMaxN + 1) - 2) = kMaxN * (kMaxN - 1)
    BY <1>1
  <2> QED
    BY <2>1 DEF offset, kSumCount
<1>8. offset(kMaxN + 1) \in Nat
  BY <1>1, NextRun
<1>9. cursor \in 0 .. kSumCount - 1
  BY <1>2, <1>3, <1>6, <1>7, <1>8, <1>1
<1> QED
  BY <1>2, <1>5, <1>9 DEF cursor

-----------------------------------------------------------------------------
(* Running sums *)

\* What the recursions of the table and of the slow draw ask for, up to a
\* length.
TableUpTo(n, f) ==
  f = [cursor \in 0 .. n - 1 |->
         rounded[(IF cursor = offset(run_of(cursor)) THEN 0 ELSE f[cursor - 1])
                   + inverse(run_of(cursor))]]
SumsOf(d, n, f) ==
  f = [i \in 0 .. n |-> IF i = 0 THEN 0 ELSE rounded[f[i - 1] + d[i]]]

\* The first run begins with the table.
LEMMA TableBegins == offset(run_of(0)) = 0
<1>1. offset(1) \in Nat /\ offset(1) = 0 /\ offset(2) = offset(1) + 1 - 1
  BY NextRun DEF offset
<1>2. 2 \in 1 .. kMaxN /\ 0 \in 0 .. 2 - 2
  BY Sizes
<1>3. run_of(offset(2) + 0) = 2
  BY <1>2, RunOf
<1> QED
  BY <1>1, <1>3

LEMMA TableExists == \A n \in Nat : \E f : TableUpTo(n, f)
<1> DEFINE Good == {n \in Nat : \E f : TableUpTo(n, f)}
           next(f, c) == rounded[(IF c = offset(run_of(c)) THEN 0 ELSE f[c - 1])
                                   + inverse(run_of(c))]
<1>1. 0 \in Good
  <2> DEFINE f == [c \in 0 .. 0 - 1 |-> 0]
  <2>1. 0 .. 0 - 1 = {}
    OBVIOUS
  <2>2. TableUpTo(0, f)
    BY <2>1 DEF TableUpTo
  <2> QED
    BY <2>2
<1>2. ASSUME NEW n \in Nat, n \in Good
      PROVE  n + 1 \in Good
  <2>1. PICK f : TableUpTo(n, f)
    BY <1>2
  <2> DEFINE g == [c \in 0 .. (n + 1) - 1 |-> IF c = n THEN next(f, n) ELSE f[c]]
  <2>2. \A c \in 0 .. n - 1 : f[c] = next(f, c)
    BY <2>1 DEF TableUpTo
  <2>3. \A c \in 0 .. (n + 1) - 1 : g[c] = next(f, c)
    <3> SUFFICES ASSUME NEW c \in 0 .. (n + 1) - 1
                 PROVE  g[c] = next(f, c)
      OBVIOUS
    <3>1. g[c] = IF c = n THEN next(f, n) ELSE f[c]
      OBVIOUS
    <3>2. c # n => c \in 0 .. n - 1
      OBVIOUS
    <3> HIDE DEF g, next
    <3> QED
      BY <2>2, <3>1, <3>2
  <2>4. \A c \in 0 .. (n + 1) - 1 : next(g, c) = next(f, c)
    <3> SUFFICES ASSUME NEW c \in 0 .. (n + 1) - 1
                 PROVE  next(g, c) = next(f, c)
      OBVIOUS
    <3>1. CASE c = 0
      BY <3>1, TableBegins
    <3>2. CASE c # 0
      <4>1. c - 1 \in 0 .. (n + 1) - 1 /\ c - 1 # n
        BY <3>2
      <4>2. g[c - 1] = f[c - 1]
        BY <4>1
      <4> HIDE DEF g
      <4> QED
        BY <4>2
    <3> QED
      BY <3>1, <3>2
  <2>5. g = [c \in 0 .. (n + 1) - 1 |-> g[c]]
    OBVIOUS
  <2> HIDE DEF g, next
  <2>6. g = [c \in 0 .. (n + 1) - 1 |-> next(g, c)]
    BY <2>3, <2>4, <2>5
  <2>7. TableUpTo(n + 1, g)
    BY <2>6, Zenon DEF TableUpTo, next
  <2> QED
    BY <2>7
<1> HIDE DEF Good
<1>3. \A n \in Nat : n \in Good
  BY <1>1, <1>2, Induction
<1> QED
  BY <1>3 DEF Good

LEMMA SumsAlwaysExist ==
  ASSUME NEW d
  PROVE  \A n \in Nat : \E f : SumsOf(d, n, f)
<1> DEFINE Good == {n \in Nat : \E f : SumsOf(d, n, f)}
           next(f, i) == IF i = 0 THEN 0 ELSE rounded[f[i - 1] + d[i]]
<1>1. 0 \in Good
  <2> DEFINE f == [i \in 0 .. 0 |-> 0]
  <2>1. \A i \in 0 .. 0 : i = 0
    OBVIOUS
  <2>2. SumsOf(d, 0, f)
    BY <2>1 DEF SumsOf
  <2> QED
    BY <2>2
<1>2. ASSUME NEW n \in Nat, n \in Good
      PROVE  n + 1 \in Good
  <2>1. PICK f : SumsOf(d, n, f)
    BY <1>2
  <2> DEFINE g == [i \in 0 .. n + 1 |-> IF i = n + 1 THEN next(f, n + 1) ELSE f[i]]
  <2>2. \A i \in 0 .. n : f[i] = next(f, i)
    BY <2>1 DEF SumsOf
  <2>3. \A i \in 0 .. n + 1 : g[i] = next(f, i)
    <3> SUFFICES ASSUME NEW i \in 0 .. n + 1
                 PROVE  g[i] = next(f, i)
      OBVIOUS
    <3>1. g[i] = IF i = n + 1 THEN next(f, n + 1) ELSE f[i]
      OBVIOUS
    <3>2. i # n + 1 => i \in 0 .. n
      OBVIOUS
    <3> HIDE DEF g, next
    <3> QED
      BY <2>2, <3>1, <3>2
  <2>4. \A i \in 0 .. n + 1 : next(g, i) = next(f, i)
    <3> SUFFICES ASSUME NEW i \in 0 .. n + 1, i # 0
                 PROVE  next(g, i) = next(f, i)
      OBVIOUS
    <3>1. i - 1 \in 0 .. n + 1 /\ i - 1 # n + 1
      OBVIOUS
    <3>2. g[i - 1] = f[i - 1]
      BY <3>1
    <3> HIDE DEF g
    <3> QED
      BY <3>2
  <2>5. g = [i \in 0 .. n + 1 |-> g[i]]
    OBVIOUS
  <2> HIDE DEF g, next
  <2>6. g = [i \in 0 .. n + 1 |-> next(g, i)]
    BY <2>3, <2>4, <2>5
  <2>7. SumsOf(d, n + 1, g)
    BY <2>6, Zenon DEF SumsOf, next
  <2> QED
    BY <2>7
<1> HIDE DEF Good
<1>3. \A n \in Nat : n \in Good
  BY <1>1, <1>2, Induction
<1> QED
  BY <1>3 DEF Good

LEMMA UniformPrefixIs == TableUpTo(kSumCount, UniformPrefix)
<1>1. kSumCount \in Nat
  <2>1. offset(kMaxN + 1) \in Nat
    BY NextRun, Sizes
  <2>2. ((kMaxN + 1) - 1) * ((kMaxN + 1) - 2) = kMaxN * (kMaxN - 1)
    BY Sizes
  <2> QED
    BY <2>1, <2>2 DEF offset, kSumCount
<1>2. \E f : TableUpTo(kSumCount, f)
  BY <1>1, TableExists
<1>3. TableUpTo(kSumCount, CHOOSE f : TableUpTo(kSumCount, f))
  BY <1>2
<1>4. UniformPrefix = CHOOSE f : TableUpTo(kSumCount, f)
  BY DEF UniformPrefix, TableUpTo
<1> QED
  BY <1>3, <1>4

\* Sums of one share after the other never fall, stay on the grid and are
\* doubles.
LEMMA SumsGrow ==
  ASSUME NEW n \in 1 .. kMaxN, NEW d, \A i \in 1 .. n : d[i] = inverse(n),
         NEW c, SumsOf(d, n, c)
  PROVE  /\ inverse(n) \in 0 .. Unit
         /\ \A i \in 0 .. n : c[i] \in Nat
         /\ \A i \in 1 .. n : c[i - 1] <= c[i] /\ c[i] = rounded[c[i - 1] + inverse(n)]
         /\ c[0] = 0
<1> DEFINE share == (2 * Unit + n) \div (2 * n)
<1>1. n \in Nat /\ n >= 1 /\ n <= kMaxN /\ Unit \in Nat /\ Unit >= 1 /\ kMaxN \in Nat
  BY Sizes
<1>2. share \in 0 .. Unit
  <2> DEFINE m == 2 * n
             x == 2 * Unit + n
             y == m * (Unit + 1)
  <2>1. m \in Nat /\ m >= 1 /\ x \in Nat
    BY <1>1
  <2>2. y = 2 * (n * Unit) + 2 * n /\ n * Unit >= Unit
    BY <1>1
  <2>3. x < y
    BY <1>1, <2>2
  <2> HIDE DEF m, x
  <2>4. x \div m \in Nat /\ m * (x \div m) <= x
    BY <2>1
  <2>5. ~(x \div m >= Unit + 1)
    <3> DEFINE q == x \div m
    <3> SUFFICES ASSUME q >= Unit + 1 PROVE FALSE
      OBVIOUS
    <3> HIDE DEF q
    <3>1. q \in Nat /\ m * q <= x
      BY <2>4 DEF q
    <3>2. m * q >= m * (Unit + 1)
      BY <1>1, <2>1, <3>1
    <3> QED
      BY <1>1, <2>1, <2>3, <3>1, <3>2
  <2> QED
    BY <1>1, <2>4, <2>5 DEF m, x
<1>3. \A k \in 0 .. kMaxN : k * Unit \in Grid
  <2> SUFFICES ASSUME NEW k \in 0 .. kMaxN
               PROVE  k * Unit \in Grid
    OBVIOUS
  <2>1. k * Unit \in Nat /\ k * Unit <= kMaxN * Unit
    BY <1>1
  <2>2. kMaxN * Unit \in Nat
    BY <1>1
  <2> HIDE DEF share
  <2> QED
    BY <2>1, <2>2 DEF Grid
<1>4. /\ \A x \in Grid : rounded[x] \in Grid /\ x \in Nat
      /\ \A x, y \in Grid : x <= y => rounded[x] <= rounded[y]
      /\ \A x \in Grid : rounded[rounded[x]] = rounded[x]
      /\ \A k \in 0 .. kMaxN : rounded[k * Unit] = k * Unit
      /\ \A x \in Grid : \A y \in 0 .. x : y \in Grid
  <2> DEFINE top == kMaxN * Unit
  <2>1. Grid = 0 .. top /\ top \in Nat
    BY <1>1 DEF Grid
  <2> HIDE DEF top, share
  <2>2. /\ \A x \in Grid : x \in Nat
        /\ \A x \in Grid : \A y \in 0 .. x : y \in Grid
    BY <2>1
  <2> QED
    BY <2>2, RoundingAssumption, Zenon
<1>5. inverse(n) \in 0 .. Unit
  <2>1. Unit \in Grid /\ rounded[Unit] = Unit /\ share \in Grid
    <3>1. 1 \in 0 .. kMaxN /\ 1 * Unit = Unit
      BY <1>1
    <3> HIDE DEF share
    <3> QED
      BY <1>1, <1>2, <1>3, <1>4, <3>1
  <2>2. inverse(n) = rounded[share]
    BY DEF inverse
  <2> HIDE DEF share
  <2>3. share <= Unit
    BY <1>1, <1>2
  <2>4. rounded[share] \in Grid /\ rounded[share] <= rounded[Unit] /\ rounded[share] \in Nat
    BY <1>4, <2>1, <2>3, Zenon
  <2> QED
    BY <1>1, <2>1, <2>2, <2>4
<1> HIDE DEF share
<1> DEFINE v == inverse(n)
           Sound(i) == c[i] \in Grid /\ c[i] <= i * Unit /\ rounded[c[i]] = c[i]
           Good == {i \in Nat : i <= n => Sound(i)}
<1>6. c[0] = 0 /\ \A i \in 1 .. n : c[i] = rounded[c[i - 1] + v]
  <2>1. \A i \in 0 .. n : c[i] = IF i = 0 THEN 0 ELSE rounded[c[i - 1] + d[i]]
    BY DEF SumsOf
  <2>2. 0 \in 0 .. n /\ \A i \in 1 .. n : i \in 0 .. n /\ i # 0
    BY <1>1
  <2> HIDE DEF v
  <2> QED
    BY <2>1, <2>2 DEF v
<1> HIDE DEF v
<1>7. ASSUME NEW i \in 0 .. n - 1, Sound(i)
      PROVE  /\ c[i] + v \in Grid /\ c[i] <= c[i] + v /\ c[i] <= c[i + 1]
             /\ Sound(i + 1)
  <2>1. v \in Nat /\ v <= Unit /\ c[i] \in Nat /\ i \in Nat /\ i + 1 \in 1 .. n /\ (i + 1) - 1 = i
    BY <1>1, <1>4, <1>5, <1>7 DEF v
  <2>2. (i + 1) * Unit = i * Unit + Unit /\ i * Unit \in Nat /\ (i + 1) * Unit \in Nat
    BY <1>1, <2>1
  <2> DEFINE top == (i + 1) * Unit
             x   == c[i] + v
             low == i * Unit
  <2>3. top \in Grid /\ rounded[top] = top
    <3>1. i + 1 \in 0 .. kMaxN
      BY <1>1, <2>1
    <3> QED
      BY <1>3, <1>4, <3>1
  <2>4. c[i] <= low
    BY <1>7
  <2> HIDE DEF top, low
  <2>5. top = low + Unit /\ top \in Nat /\ low \in Nat
    BY <2>2 DEF top, low
  <2>6. x \in 0 .. top /\ c[i] <= x
    BY <1>1, <2>1, <2>4, <2>5
  <2> HIDE DEF x
  <2>7. x \in Grid
    BY <1>4, <2>3, <2>6
  <2>8. c[i + 1] = rounded[x]
    BY <1>6, <2>1 DEF x
  <2>9. rounded[x] <= top /\ rounded[x] \in Grid /\ rounded[rounded[x]] = rounded[x]
    BY <1>4, <2>3, <2>6, <2>7
  <2>10. rounded[c[i]] <= rounded[x] /\ rounded[c[i]] = c[i]
    BY <1>4, <1>7, <2>6, <2>7
  <2> QED
    BY <2>6, <2>7, <2>8, <2>9, <2>10 DEF x, top
<1>8. 0 \in Good
  <2>1. 0 * Unit = 0 /\ 0 \in 0 .. kMaxN
    BY <1>1
  <2>2. rounded[0] = 0 /\ 0 \in Grid
    BY <1>3, <1>4, <2>1
  <2> QED
    BY <1>6, <2>1, <2>2
<1>9. ASSUME NEW i \in Nat, i \in Good
      PROVE  i + 1 \in Good
  <2> SUFFICES ASSUME i + 1 <= n
               PROVE  Sound(i + 1)
    OBVIOUS
  <2>1. i \in 0 .. n - 1 /\ i <= n
    BY <1>1
  <2>2. Sound(i)
    BY <1>9, <2>1
  <2> HIDE DEF Sound, Good
  <2> QED
    BY <1>7, <2>1, <2>2
<1> HIDE DEF Good
<1>10. \A i \in Nat : i \in Good
  BY <1>8, <1>9, Induction
<1>11. \A i \in 0 .. n : Sound(i)
  BY <1>1, <1>10 DEF Good
<1>12. \A i \in 0 .. n : c[i] \in Nat
  BY <1>4, <1>11
<1>13. ASSUME NEW i \in 1 .. n
       PROVE  c[i - 1] <= c[i] /\ c[i] = rounded[c[i - 1] + v]
  <2> DEFINE j == i - 1
  <2>1. j \in 0 .. n - 1 /\ j \in 0 .. n /\ j + 1 = i
    BY <1>1
  <2> HIDE DEF j
  <2>2. c[j] <= c[j + 1]
    BY <1>7, <1>11, <2>1
  <2> QED
    BY <1>6, <2>1, <2>2 DEF j
<1> QED
  BY <1>5, <1>6, <1>12, <1>13 DEF v

\* The table holds the sums the slow draw adds up.
LEMMA TableHoldsSums ==
  ASSUME NEW n \in 1 .. kMaxN, NEW d, \A i \in 1 .. n : d[i] = inverse(n),
         NEW c, SumsOf(d, n, c)
  PROVE  \A k \in 0 .. n - 2 : UniformPrefix[offset(n) + k] = c[k + 1]
<1> DEFINE P    == UniformPrefix
           b    == offset(n)
           v    == inverse(n)
           Good == {k \in Nat : k <= n - 2 => P[b + k] = c[k + 1]}
<1>1. n \in Nat /\ n >= 1
  BY Sizes
<1>2. ASSUME NEW k \in 0 .. n - 2
      PROVE  /\ b + k \in 0 .. kSumCount - 1 /\ b \in Nat
             /\ P[b + k] = rounded[(IF k = 0 THEN 0 ELSE P[b + k - 1]) + v]
  <2> DEFINE at == b + k
  <2>1. run_of(at) = n /\ at \in 0 .. kSumCount - 1 /\ b \in Nat
    BY RunOf
  <2>2. P[at] = rounded[(IF at = offset(run_of(at)) THEN 0 ELSE P[at - 1])
                          + inverse(run_of(at))]
    BY <2>1, UniformPrefixIs DEF TableUpTo
  <2>3. at = b <=> k = 0
    BY <2>1
  <2> HIDE DEF P, v
  <2> QED
    BY <2>1, <2>2, <2>3 DEF v
<1>3. c[0] = 0 /\ \A i \in 1 .. n : c[i] = rounded[c[i - 1] + v]
  BY SumsGrow
<1> HIDE DEF P, b, v
<1>4. 0 \in Good
  <2> SUFFICES ASSUME 0 <= n - 2
               PROVE  P[b + 0] = c[0 + 1]
    OBVIOUS
  <2>1. P[b + 0] = rounded[0 + v]
    BY <1>1, <1>2
  <2>2. c[1] = rounded[c[1 - 1] + v]
    BY <1>1, <1>3
  <2> QED
    BY <1>3, <2>1, <2>2
<1>5. ASSUME NEW k \in Nat, k \in Good
      PROVE  k + 1 \in Good
  <2> SUFFICES ASSUME k + 1 <= n - 2
               PROVE  P[b + (k + 1)] = c[(k + 1) + 1]
    OBVIOUS
  <2> DEFINE j == k + 1
  <2>1. j \in 0 .. n - 2 /\ j # 0 /\ j + 1 \in 1 .. n /\ j - 1 = k /\ (j + 1) - 1 = j /\ k <= n - 2
    BY <1>1
  <2>2. P[b + k] = c[j]
    BY <1>5, <2>1
  <2> HIDE DEF j
  <2>3. P[b + j] = rounded[P[b + j - 1] + v] /\ b \in Nat
    BY <1>2, <2>1
  <2>4. b + j - 1 = b + k
    BY <2>1, <2>3
  <2>5. c[j + 1] = rounded[c[j] + v]
    BY <1>3, <2>1
  <2> QED
    BY <2>2, <2>3, <2>4, <2>5 DEF j
<1> HIDE DEF Good
<1>6. \A k \in Nat : k \in Good
  BY <1>4, <1>5, Induction
<1> QED
  BY <1>1, <1>6 DEF Good, P, b

-----------------------------------------------------------------------------
(* The search *)

\* What a search of a sorted part finds: the first element beyond the roll.
FirstBeyond(a, low, high, roll, u) ==
  /\ u \in low .. high
  /\ \A j \in low .. u - 1 : ~beyond(a[j], roll)
  /\ u < high => beyond(a[u], roll)

SearchIs(a, first, last, roll, f) ==
  f = [at \in (first .. last) \X (first .. last) |->
         IF at[1] >= at[2] THEN at[1]
         ELSE IF beyond(a[at[1] + (at[2] - at[1]) \div 2], roll)
              THEN f[<<at[1], at[1] + (at[2] - at[1]) \div 2>>]
              ELSE f[<<at[1] + (at[2] - at[1]) \div 2 + 1, at[2]>>]]

Rising(a, first, last, roll) ==
  \A i, j \in first .. last - 1 : i <= j /\ beyond(a[i], roll) => beyond(a[j], roll)

\* Halving keeps what is searched for.
LEMMA Halving ==
  ASSUME NEW first \in Nat, NEW last \in Nat, NEW a, NEW roll, Rising(a, first, last, roll),
         NEW low \in first .. last, NEW high \in first .. last, low < high
  PROVE  LET mid == low + (high - low) \div 2
         IN  /\ mid \in low .. high - 1 /\ mid \in first .. last /\ mid + 1 \in first .. last
             /\ \A u : beyond(a[mid], roll) /\ FirstBeyond(a, low, mid, roll, u)
                         => FirstBeyond(a, low, high, roll, u)
             /\ \A u : ~beyond(a[mid], roll) /\ FirstBeyond(a, mid + 1, high, roll, u)
                         => FirstBeyond(a, low, high, roll, u)
<1> DEFINE mid == low + (high - low) \div 2
<1>1. /\ low \in Nat /\ high \in Nat /\ first <= low /\ high <= last
      /\ (high - low) \div 2 \in 0 .. high - low - 1
  OBVIOUS
<1>2. mid \in low .. high - 1 /\ mid \in first .. last /\ mid + 1 \in first .. last
      /\ mid \in first .. last - 1
  BY <1>1
<1> HIDE DEF mid
<1>3. ASSUME NEW u, beyond(a[mid], roll), FirstBeyond(a, low, mid, roll, u)
      PROVE  FirstBeyond(a, low, high, roll, u)
  <2>1. u \in low .. mid /\ (u < mid => beyond(a[u], roll))
        /\ \A j \in low .. u - 1 : ~beyond(a[j], roll)
    BY <1>3 DEF FirstBeyond
  <2>2. u \in low .. high /\ (u = mid \/ u < mid)
    BY <1>1, <1>2, <2>1
  <2> QED
    BY <1>3, <2>1, <2>2 DEF FirstBeyond
<1>4. ASSUME NEW u, ~beyond(a[mid], roll), FirstBeyond(a, mid + 1, high, roll, u)
      PROVE  FirstBeyond(a, low, high, roll, u)
  <2>1. u \in mid + 1 .. high /\ (u < high => beyond(a[u], roll))
        /\ \A j \in mid + 1 .. u - 1 : ~beyond(a[j], roll)
    BY <1>4 DEF FirstBeyond
  <2>2. u \in low .. high
    BY <1>1, <1>2, <2>1
  <2>3. ASSUME NEW j \in low .. u - 1
        PROVE  ~beyond(a[j], roll)
    <3>1. CASE j \in mid + 1 .. u - 1
      BY <2>1, <3>1
    <3>2. CASE ~(j \in mid + 1 .. u - 1)
      <4>1. j \in first .. last - 1 /\ j <= mid
        BY <1>1, <1>2, <2>1, <3>2
      <4> QED
        BY <1>2, <1>4, <4>1 DEF Rising
    <3> QED
      BY <3>1, <3>2
  <2> QED
    BY <2>1, <2>2, <2>3 DEF FirstBeyond
<1> QED
  BY <1>2, <1>3, <1>4 DEF mid

LEMMA FirstExists ==
  ASSUME NEW a, NEW roll, NEW low \in Nat, NEW high \in Nat, low <= high
  PROVE  /\ \E u : FirstBeyond(a, low, high, roll, u)
         /\ \A u, w : FirstBeyond(a, low, high, roll, u) /\ FirstBeyond(a, low, high, roll, w)
                        => u = w
<1> DEFINE T == {u \in low .. high : u = high \/ beyond(a[u], roll)}
<1>1. T # {} /\ T \subseteq Nat
  OBVIOUS
<1>2. PICK u \in T : \A w \in T : u <= w
  BY <1>1, Least
<1>3. \A j \in low .. u - 1 : ~(j \in T) /\ j \in low .. high
  BY <1>1, <1>2
<1>4. FirstBeyond(a, low, high, roll, u)
  <2>1. u \in low .. high
    BY <1>2
  <2>2. \A j \in low .. u - 1 : ~beyond(a[j], roll)
    BY <1>3
  <2>3. u < high => beyond(a[u], roll)
    BY <1>2
  <2> QED
    BY <2>1, <2>2, <2>3 DEF FirstBeyond
<1>5. ASSUME NEW v, NEW w, FirstBeyond(a, low, high, roll, v), FirstBeyond(a, low, high, roll, w)
      PROVE  ~(v < w)
  <2> SUFFICES ASSUME v < w PROVE FALSE
    OBVIOUS
  <2>1. v \in low .. high /\ w \in low .. high /\ (v < high => beyond(a[v], roll))
        /\ \A j \in low .. w - 1 : ~beyond(a[j], roll)
    BY <1>5 DEF FirstBeyond
  <2>2. v \in low .. w - 1 /\ v < high
    BY <2>1
  <2> QED
    BY <2>1, <2>2
<1>6. ASSUME NEW v, NEW w, FirstBeyond(a, low, high, roll, v), FirstBeyond(a, low, high, roll, w)
      PROVE  v = w
  <2>1. v \in low .. high /\ w \in low .. high
    BY <1>6 DEF FirstBeyond
  <2>2. ~(v < w) /\ ~(w < v)
    BY <1>5, <1>6
  <2> QED
    BY <2>1, <2>2
<1> QED
  BY <1>4, <1>6

\* There is a search by halving.
LEMMA SearchExists ==
  ASSUME NEW first \in Nat, NEW last \in Nat, NEW a, NEW roll, Rising(a, first, last, roll)
  PROVE  \E f : SearchIs(a, first, last, roll, f)
<1> DEFINE D    == (first .. last) \X (first .. last)
           mid(at) == at[1] + (at[2] - at[1]) \div 2
           found(low, high) == CHOOSE u : FirstBeyond(a, low, high, roll, u)
           f    == [at \in D |-> IF at[1] >= at[2] THEN at[1] ELSE found(at[1], at[2])]
           step(at) == IF at[1] >= at[2] THEN at[1]
                       ELSE IF beyond(a[mid(at)], roll) THEN f[<<at[1], mid(at)>>]
                       ELSE f[<<mid(at) + 1, at[2]>>]
<1>1. ASSUME NEW low \in first .. last, NEW high \in first .. last, low <= high
      PROVE  FirstBeyond(a, low, high, roll, f[<<low, high>>])
  <2>1. f[<<low, high>>] = IF low >= high THEN low ELSE found(low, high)
    <3> DEFINE at == <<low, high>>
    <3>1. at \in D /\ at[1] = low /\ at[2] = high
      OBVIOUS
    <3> HIDE DEF at, D, found
    <3>2. f[at] = IF at[1] >= at[2] THEN at[1] ELSE found(at[1], at[2])
      BY <3>1
    <3> QED
      BY <3>1, <3>2, Zenon DEF at
  <2>2. low \in Nat /\ high \in Nat
    OBVIOUS
  <2> HIDE DEF f
  <2>3. CASE low >= high
    <3>1. f[<<low, high>>] = low /\ low = high
      BY <1>1, <2>1, <2>2, <2>3
    <3> QED
      BY <2>2, <3>1 DEF FirstBeyond
  <2>4. CASE ~(low >= high)
    <3>1. FirstBeyond(a, low, high, roll, found(low, high))
      BY <1>1, <2>2, FirstExists
    <3> QED
      BY <2>1, <2>4, <3>1
  <2> QED
    BY <2>3, <2>4
<1>2. ASSUME NEW at \in D
      PROVE  f[at] = step(at)
  <2> DEFINE low  == at[1]
             high == at[2]
             m    == mid(at)
  <2>1. low \in first .. last /\ high \in first .. last /\ at = <<low, high>>
    OBVIOUS
  <2>2. CASE low >= high
    BY <2>1, <2>2
  <2>3. CASE ~(low >= high)
    <3>1. low < high /\ low \in Nat /\ high \in Nat /\ low <= high
      BY <2>1, <2>3
    <3>2. /\ m \in low .. high - 1 /\ m \in first .. last /\ m + 1 \in first .. last
          /\ \A u : beyond(a[m], roll) /\ FirstBeyond(a, low, m, roll, u)
                      => FirstBeyond(a, low, high, roll, u)
          /\ \A u : ~beyond(a[m], roll) /\ FirstBeyond(a, m + 1, high, roll, u)
                      => FirstBeyond(a, low, high, roll, u)
      BY <2>1, <3>1, Halving
    <3>3. step(at) = IF beyond(a[m], roll) THEN f[<<low, m>>] ELSE f[<<m + 1, high>>]
      BY <2>3
    <3>4. FirstBeyond(a, low, high, roll, f[at])
      BY <1>1, <2>1, <3>1
    <3> HIDE DEF f, step, low, high, m
    <3>5. CASE beyond(a[m], roll)
      <4>1. low <= m
        BY <3>1, <3>2
      <4>2. FirstBeyond(a, low, m, roll, f[<<low, m>>])
        BY <1>1, <2>1, <3>2, <4>1
      <4>3. FirstBeyond(a, low, high, roll, step(at))
        BY <3>2, <3>3, <3>5, <4>2
      <4> QED
        BY <3>1, <3>4, <4>3, FirstExists
    <3>6. CASE ~beyond(a[m], roll)
      <4>1. m + 1 <= high
        BY <3>1, <3>2
      <4>2. FirstBeyond(a, m + 1, high, roll, f[<<m + 1, high>>])
        BY <1>1, <2>1, <3>2, <4>1
      <4>3. FirstBeyond(a, low, high, roll, step(at))
        BY <3>2, <3>3, <3>6, <4>2
      <4> QED
        BY <3>1, <3>4, <4>3, FirstExists
    <3> QED
      BY <3>5, <3>6
  <2> QED
    BY <2>2, <2>3
<1>3. f = [at \in D |-> f[at]]
  OBVIOUS
<1> HIDE DEF f
<1>4. f = [at \in D |-> step(at)]
  <2> HIDE DEF step
  <2> QED
    BY <1>2, <1>3
<1>5. SearchIs(a, first, last, roll, f)
  BY <1>4, Zenon DEF SearchIs, step, mid, D
<1> QED
  BY <1>5

\* What the search returns is the first element beyond the roll.
LEMMA SearchFinds ==
  ASSUME NEW first \in Nat, NEW last \in Nat, first <= last, NEW a, NEW roll,
         Rising(a, first, last, roll)
  PROVE  FirstBeyond(a, first, last, roll, upper_bound(a, first, last, roll))
<1> DEFINE f    == CHOOSE g : SearchIs(a, first, last, roll, g)
           Good == {n \in Nat : \A low, high \in first .. last : low <= high /\ high - low <= n
                                  => FirstBeyond(a, low, high, roll, f[<<low, high>>])}
<1>1. SearchIs(a, first, last, roll, f)
  BY SearchExists
<1>2. upper_bound(a, first, last, roll) = f[<<first, last>>]
  BY DEF upper_bound, SearchIs
<1> HIDE DEF f
<1>3. ASSUME NEW low \in first .. last, NEW high \in first .. last
      PROVE  LET mid == low + (high - low) \div 2
             IN  f[<<low, high>>] = IF low >= high THEN low
                                    ELSE IF beyond(a[mid], roll) THEN f[<<low, mid>>]
                                    ELSE f[<<mid + 1, high>>]
  <2> DEFINE at == <<low, high>>
  <2>1. at \in (first .. last) \X (first .. last) /\ at[1] = low /\ at[2] = high
    OBVIOUS
  <2> HIDE DEF at
  <2>2. f[at] = IF at[1] >= at[2] THEN at[1]
                ELSE IF beyond(a[at[1] + (at[2] - at[1]) \div 2], roll)
                     THEN f[<<at[1], at[1] + (at[2] - at[1]) \div 2>>]
                     ELSE f[<<at[1] + (at[2] - at[1]) \div 2 + 1, at[2]>>]
    BY <1>1, <2>1 DEF SearchIs
  <2> QED
    BY <2>1, <2>2, Zenon DEF at
<1>4. ASSUME NEW low \in first .. last, NEW high \in first .. last, low = high
      PROVE  FirstBeyond(a, low, high, roll, f[<<low, high>>])
  <2>1. low >= high /\ low \in Nat
    BY <1>4
  <2>2. f[<<low, high>>] = low
    BY <1>3, <2>1, Zenon
  <2> QED
    BY <1>4, <2>1, <2>2 DEF FirstBeyond
<1>5. 0 \in Good
  <2>1. \A low, high \in first .. last : low <= high /\ high - low <= 0 => low = high
    OBVIOUS
  <2> QED
    BY <1>4, <2>1
<1>6. ASSUME NEW n \in Nat, n \in Good
      PROVE  n + 1 \in Good
  <2> SUFFICES ASSUME NEW low \in first .. last, NEW high \in first .. last, low < high,
                      high - low <= n + 1
               PROVE  FirstBeyond(a, low, high, roll, f[<<low, high>>])
    BY <1>4
  <2> DEFINE m == low + (high - low) \div 2
  <2>1. /\ m \in low .. high - 1 /\ m \in first .. last /\ m + 1 \in first .. last
        /\ \A u : beyond(a[m], roll) /\ FirstBeyond(a, low, m, roll, u)
                    => FirstBeyond(a, low, high, roll, u)
        /\ \A u : ~beyond(a[m], roll) /\ FirstBeyond(a, m + 1, high, roll, u)
                    => FirstBeyond(a, low, high, roll, u)
    BY Halving
  <2>2. f[<<low, high>>] = IF low >= high THEN low
                           ELSE IF beyond(a[m], roll) THEN f[<<low, m>>] ELSE f[<<m + 1, high>>]
    BY <1>3
  <2> HIDE DEF m
  <2>3. /\ ~(low >= high) /\ low <= m /\ m - low <= n
        /\ m + 1 <= high /\ high - (m + 1) <= n
    BY <2>1
  <2>4. \A i, j \in first .. last : i <= j /\ j - i <= n
          => FirstBeyond(a, i, j, roll, f[<<i, j>>])
    BY <1>6
  <2>5. /\ FirstBeyond(a, low, m, roll, f[<<low, m>>])
        /\ FirstBeyond(a, m + 1, high, roll, f[<<m + 1, high>>])
    BY <2>1, <2>3, <2>4
  <2> QED
    BY <2>1, <2>2, <2>3, <2>5
<1> DEFINE size == last - first
<1>7. size \in Nat /\ first \in first .. last /\ last \in first .. last /\ last - first <= size
  OBVIOUS
<1> HIDE DEF Good, size
<1>8. size \in Good
  BY <1>5, <1>6, <1>7, Induction
<1>9. FirstBeyond(a, first, last, roll, f[<<first, last>>])
  BY <1>7, <1>8 DEF Good
<1> QED
  BY <1>2, <1>9

-----------------------------------------------------------------------------
(* A hand *)

\* What a hand holds at any time.
Cards == Deck \cup {NoCard}
SInv ==
  /\ state \in [ hole_cards         : [Player -> Cards],
                 board_cards        : [0 .. 1 -> Cards],
                 board_count        : 0 .. 2,
                 history            : {<< >>},
                 round_len          : {0},
                 raises_used        : {0},
                 closing            : {[r \in 0 .. 1 |-> 0]},
                 contribution       : {[p \in Player |-> 0]},
                 round_contribution : {[p \in Player |-> 0]},
                 level_to_match     : {0},
                 showdown_rank      : {[p \in Player |-> 0]},
                 card_class         : {[p \in Player |-> 0]} ]
  /\ state.hole_cards[0] = NoCard => state.hole_cards[1] = NoCard
  /\ state.hole_cards[1] = NoCard => state.board_count = 0
  /\ \A i \in 0 .. state.board_count - 1 : state.board_cards[i] \in Deck

\* Until the turn is dealt at most three cards are out, and the marks are on
\* just those.
LEMMA Remaining ==
  ASSUME SInv
  PROVE  /\ marked(state) = DealtCards(state) /\ DealtCards(state) \subseteq Deck
         /\ IsFiniteSet(DealtCards(state)) /\ IsFiniteSet(Deck \ DealtCards(state))
         /\ Cardinality(DealtCards(state)) \in Nat
         /\ Cardinality(Deck \ DealtCards(state)) = deck_size - Cardinality(DealtCards(state))
         /\ CanDraw => Cardinality(DealtCards(state)) <= 3
         /\ Deck \subseteq Nat
<1> DEFINE holes  == {state.hole_cards[p] : p \in Player}
           board  == {state.board_cards[i] : i \in 0 .. state.board_count - 1}
           dealt  == DealtCards(state)
<1>1. Deck \subseteq Nat /\ ~(NoCard \in Deck)
  BY Sizes DEF Deck, NoCard
<1>2. /\ state.hole_cards \in [Player -> Cards] /\ state.board_count \in 0 .. 2
      /\ \A i \in 0 .. state.board_count - 1 : state.board_cards[i] \in Deck
  BY DEF SInv
<1>3. dealt = (holes \cup board) \ {NoCard} /\ dealt \subseteq Deck
  BY <1>1, <1>2 DEF DealtCards, Cards
<1>4. marked(state) = dealt
  BY <1>3 DEF marked
<1>5. IsFiniteSet(Deck) /\ Cardinality(Deck) = deck_size
  BY Sizes, FS_Interval DEF Deck
<1> HIDE DEF dealt
<1>6. IsFiniteSet(dealt) /\ Cardinality(dealt) \in Nat
  BY <1>3, <1>5, FS_Subset, FS_CardinalityType
<1>7. IsFiniteSet(Deck \ dealt) /\ Cardinality(Deck \ dealt) = deck_size - Cardinality(dealt)
  <2>1. Deck \cap dealt = dealt
    BY <1>3
  <2> QED
    BY <1>5, <2>1, FS_Difference
<1>8. CanDraw => Cardinality(dealt) <= 3
  <2> SUFFICES ASSUME CanDraw
               PROVE  Cardinality(dealt) <= 3
    OBVIOUS
  <2> DEFINE a == state.hole_cards[0]
             b == state.hole_cards[1]
             c == state.board_cards[0]
  <2>1. state.board_count \in {0, 1}
    BY <1>2 DEF CanDraw, kMaxBoardCards
  <2>2. dealt \subseteq {a, b, c}
    <3>1. Player = {0, 1}
      BY DEF Player, kPlayerCount
    <3>2. 0 .. state.board_count - 1 \subseteq {0}
      BY <2>1
    <3>3. holes \subseteq {a, b, c} /\ board \subseteq {a, b, c}
      BY <3>1, <3>2
    <3> QED
      BY <1>3, <3>3
  <2> HIDE DEF a, b, c
  <2>3. IsFiniteSet({a, b, c}) /\ Cardinality({a, b, c}) <= 3
    <3>1. IsFiniteSet({a}) /\ Cardinality({a}) = 1
      BY FS_Singleton
    <3>2. IsFiniteSet({a} \cup {b}) /\ Cardinality({a} \cup {b}) <= 2
      BY <3>1, FS_AddElement
    <3>3. Cardinality({a} \cup {b}) \in Nat
      BY <3>2, FS_CardinalityType
    <3>4. /\ IsFiniteSet(({a} \cup {b}) \cup {c})
          /\ Cardinality(({a} \cup {b}) \cup {c}) <= 3
      BY <3>2, <3>3, FS_AddElement
    <3>5. ({a} \cup {b}) \cup {c} = {a, b, c}
      OBVIOUS
    <3> QED
      BY <3>4, <3>5
  <2>4. Cardinality(dealt) <= Cardinality({a, b, c}) /\ Cardinality({a, b, c}) \in Nat
    BY <2>2, <2>3, FS_Subset, FS_CardinalityType
  <2> QED
    BY <1>6, <2>3, <2>4
<1> QED
  BY <1>1, <1>3, <1>4, <1>6, <1>7, <1>8 DEF dealt

\* The search of the run for the cards that are left counts the sums the roll
\* has passed.
LEMMA ChosenIs ==
  ASSUME NEW n \in 1 .. kMaxN, NEW d, \A i \in 1 .. n : d[i] = inverse(n),
         NEW c, SumsOf(d, n, c), NEW roll \in Rolls
  PROVE  LET chosen == upper_bound(UniformPrefix, offset(n), offset(n) + n - 1, roll) - offset(n)
         IN  /\ chosen \in 0 .. n - 1
             /\ \A i \in 1 .. chosen : ~(roll < c[i])
             /\ chosen < n - 1 => roll < c[chosen + 1]
<1> DEFINE P    == UniformPrefix
           b    == offset(n)
           last == b + n - 1
           u    == upper_bound(P, b, last, roll)
<1>1. n \in Nat /\ n >= 1 /\ roll \in Nat
  BY Sizes DEF Rolls
<1>2. b \in Nat
  BY <1>1, NextRun
<1>3. \A k \in 0 .. n - 2 : P[b + k] = c[k + 1]
  BY TableHoldsSums
<1>4. /\ \A i \in 0 .. n : c[i] \in Nat
      /\ \A i \in 1 .. n : c[i - 1] <= c[i]
  BY SumsGrow
<1> HIDE DEF P, b
<1>5. last \in Nat /\ b <= last
  BY <1>1, <1>2
<1>6. \A i \in 0 .. n : \A k \in 0 .. n - i : c[i] <= c[i + k]
  <2> SUFFICES ASSUME NEW i \in 0 .. n
               PROVE  \A k \in 0 .. n - i : c[i] <= c[i + k]
    OBVIOUS
  <2> DEFINE Good == {k \in Nat : i + k <= n => c[i] <= c[i + k]}
  <2>1. 0 \in Good
    BY <1>1, <1>4
  <2>2. ASSUME NEW k \in Nat, k \in Good
        PROVE  k + 1 \in Good
    <3> SUFFICES ASSUME i + (k + 1) <= n
                 PROVE  c[i] <= c[i + (k + 1)]
      OBVIOUS
    <3> DEFINE j == i + (k + 1)
    <3>1. j \in 1 .. n /\ j - 1 = i + k /\ i + k \in 0 .. n /\ i + k <= n
      BY <1>1
    <3> HIDE DEF j
    <3>2. c[i] <= c[i + k]
      BY <2>2, <3>1
    <3>3. c[j - 1] <= c[j] /\ j \in 0 .. n
      BY <1>4, <3>1
    <3>4. c[i] \in Nat /\ c[i + k] \in Nat /\ c[j] \in Nat
      BY <1>4, <3>1, <3>3
    <3> QED
      BY <3>1, <3>2, <3>3, <3>4 DEF j
  <2> HIDE DEF Good
  <2>3. \A k \in Nat : k \in Good
    BY <2>1, <2>2, Induction
  <2>4. \A k \in 0 .. n - i : k \in Nat /\ i + k <= n
    BY <1>1
  <2> QED
    BY <2>3, <2>4 DEF Good
<1>7. ASSUME NEW i \in b .. last - 1
      PROVE  /\ i - b \in 0 .. n - 2 /\ i - b + 1 \in 0 .. n
             /\ P[i] = c[i - b + 1] /\ P[i] \in Nat
  <2> DEFINE k == i - b
  <2>1. k \in 0 .. n - 2 /\ k + 1 \in 0 .. n /\ b + k = i
    BY <1>1, <1>2
  <2> HIDE DEF k
  <2>2. P[i] = c[k + 1] /\ c[k + 1] \in Nat
    BY <1>3, <1>4, <2>1
  <2> QED
    BY <2>1, <2>2 DEF k
<1>8. Rising(P, b, last, roll)
  <2> SUFFICES ASSUME NEW i \in b .. last - 1, NEW j \in b .. last - 1, i <= j, P[i] > roll
               PROVE  P[j] > roll
    BY DEF Rising, beyond
  <2> DEFINE x == i - b + 1
             k == j - i
  <2>1. x \in 0 .. n /\ k \in 0 .. n - x /\ x + k = j - b + 1
    BY <1>1, <1>2, <1>7
  <2>2. P[i] = c[x] /\ P[j] = c[j - b + 1] /\ P[i] \in Nat /\ P[j] \in Nat
    BY <1>7
  <2> HIDE DEF x, k
  <2>3. c[x] <= c[x + k]
    BY <1>6, <2>1
  <2> QED
    BY <1>1, <2>1, <2>2, <2>3
<1> HIDE DEF last
<1>9. FirstBeyond(P, b, last, roll, u)
  BY <1>2, <1>5, <1>8, SearchFinds
<1> HIDE DEF u
<1>10. /\ u \in b .. last /\ (u < last => P[u] > roll)
       /\ \A j \in b .. u - 1 : ~(P[j] > roll)
  BY <1>9 DEF FirstBeyond, beyond
<1> DEFINE chosen == u - b
<1>11. chosen \in 0 .. n - 1 /\ u = b + chosen
  BY <1>1, <1>2, <1>5, <1>10 DEF last
<1>12. ASSUME NEW i \in 1 .. chosen
       PROVE  ~(roll < c[i])
  <2> DEFINE k == i - 1
  <2>1. k \in 0 .. n - 2 /\ k + 1 = i /\ b + k \in b .. u - 1 /\ i \in 0 .. n
    BY <1>1, <1>2, <1>11
  <2> HIDE DEF k, chosen
  <2>2. P[b + k] = c[i] /\ ~(P[b + k] > roll) /\ c[i] \in Nat
    BY <1>3, <1>4, <1>10, <2>1
  <2> QED
    BY <1>1, <2>2
<1>13. ASSUME chosen < n - 1
       PROVE  roll < c[chosen + 1]
  <2>1. chosen \in 0 .. n - 2 /\ u < last /\ chosen + 1 \in 0 .. n
    BY <1>1, <1>2, <1>11, <1>13 DEF last
  <2> HIDE DEF chosen
  <2>2. P[b + chosen] = c[chosen + 1] /\ P[b + chosen] > roll /\ c[chosen + 1] \in Nat
    BY <1>3, <1>4, <1>10, <1>11, <2>1
  <2> QED
    BY <1>1, <2>2
<1> QED
  BY <1>11, <1>12, <1>13 DEF u, P, b, last

\* How many cards are left while a card can be drawn.
Left == deck_size - Cardinality(DealtCards(state))

\* The draw takes a card that is left, the one with as many left below it as
\* there are sums the roll has passed.
LEMMA DrawIs ==
  ASSUME SInv, CanDraw, NEW roll \in Rolls,
         NEW d, \A i \in 1 .. Left : d[i] = inverse(Left), NEW c, SumsOf(d, Left, c)
  PROVE  /\ Left \in 1 .. kMaxN /\ Left = Cardinality(Deck \ DealtCards(state))
         /\ sample_undealt_card(state, roll) \in Deck \ DealtCards(state)
         /\ \E k \in 0 .. Left - 1 :
              /\ sample_undealt_card(state, roll) = nth(Deck \ DealtCards(state), k)
              /\ \A i \in 1 .. k : ~(roll < c[i])
              /\ k < Left - 1 => roll < c[k + 1]
<1> DEFINE S == Deck \ DealtCards(state)
           k == upper_bound(UniformPrefix, offset(Left), offset(Left) + Left - 1, roll)
                  - offset(Left)
<1>1. /\ marked(state) = DealtCards(state) /\ IsFiniteSet(S)
      /\ Cardinality(DealtCards(state)) \in Nat /\ Cardinality(S) = Left
      /\ Cardinality(DealtCards(state)) <= 3 /\ S \in SUBSET Nat
  BY Remaining DEF Left
<1>2. Left \in 1 .. kMaxN
  BY <1>1, Sizes DEF Left
<1>3. /\ k \in 0 .. Left - 1 /\ \A i \in 1 .. k : ~(roll < c[i])
      /\ k < Left - 1 => roll < c[k + 1]
  BY <1>2, ChosenIs
<1>4. sample_undealt_card(state, roll) = nth(S, k)
  BY <1>1 DEF sample_undealt_card, Left
<1> HIDE DEF S, k
<1>5. nth(S, k) \in S
  <2>1. k \in Nat /\ k < Cardinality(S)
    BY <1>1, <1>2, <1>3
  <2> QED
    BY <1>1, <2>1, NthIs
<1> QED
  BY <1>1, <1>2, <1>3, <1>4, <1>5 DEF S

\* A roll always draws a card that is left.
LEMMA DrawTakesOne ==
  ASSUME SInv, CanDraw, NEW roll \in Rolls
  PROVE  sample_undealt_card(state, roll) \in Deck \ DealtCards(state)
<1> DEFINE d == [i \in 1 .. Left |-> inverse(Left)]
<1>1. Left \in Nat
  BY Remaining, Sizes DEF Left
<1>2. \A i \in 1 .. Left : d[i] = inverse(Left)
  OBVIOUS
<1> HIDE DEF d
<1>3. PICK c : SumsOf(d, Left, c)
  BY <1>1, SumsAlwaysExist
<1> QED
  BY <1>2, <1>3, DrawIs

\* A card dealt joins those that are out, in the place that is next.
LEMMA CardJoins ==
  ASSUME SInv, CanDraw, NEW card \in Deck \ DealtCards(state),
         state' = deal_card(state, card)
  PROVE  SInv' /\ DealtCards(state') = DealtCards(state) \cup {card}
<1> DEFINE Out(h, b, n) == {h[p] : p \in {q \in Player : h[q] # NoCard}} \cup {b[i] : i \in 0 .. n - 1}
<1>1. card \in Deck /\ card # NoCard /\ card \in Cards /\ 0 \in Player /\ 1 \in Player
      /\ Player = {0, 1}
  BY Sizes DEF Deck, NoCard, Cards, Player, kPlayerCount
<1>2. /\ state.hole_cards \in [Player -> Cards] /\ state.board_cards \in [0 .. 1 -> Cards]
      /\ state.board_count \in {0, 1}
  BY DEF SInv, CanDraw, kMaxBoardCards
<1>3. /\ DealtCards(state) = Out(state.hole_cards, state.board_cards, state.board_count)
      /\ DealtCards(state') = Out(state'.hole_cards, state'.board_cards, state'.board_count)
  BY DEF DealtCards
<1>4. CASE state.hole_cards[0] = NoCard
  <2>1. state' = [state EXCEPT !.hole_cards[0] = card]
    BY <1>4 DEF deal_card
  <2>2. state.hole_cards[1] = NoCard /\ state.board_count = 0
    BY <1>4 DEF SInv
  <2>3. /\ state'.hole_cards = [state.hole_cards EXCEPT ![0] = card]
        /\ state'.board_count = 0
    BY <2>1, <2>2 DEF SInv
  <2>4. SInv'
    BY <1>1, <1>2, <2>1, <2>2 DEF SInv
  <2>5. Out(state'.hole_cards, state'.board_cards, 0) = {card}
    BY <1>1, <1>2, <2>2, <2>3
  <2>6. Out(state.hole_cards, state.board_cards, 0) = {}
    BY <1>1, <1>2, <1>4, <2>2
  <2> QED
    BY <1>3, <2>2, <2>3, <2>4, <2>5, <2>6
<1>5. CASE state.hole_cards[0] # NoCard /\ state.hole_cards[1] = NoCard
  <2>1. state' = [state EXCEPT !.hole_cards[1] = card]
    BY <1>5 DEF deal_card
  <2>2. state.board_count = 0
    BY <1>5 DEF SInv
  <2>3. /\ state'.hole_cards = [state.hole_cards EXCEPT ![1] = card]
        /\ state'.board_count = 0
    BY <2>1, <2>2 DEF SInv
  <2>4. SInv'
    BY <1>1, <1>2, <1>5, <2>1, <2>2 DEF SInv
  <2>5. Out(state'.hole_cards, state'.board_cards, 0) = {state.hole_cards[0], card}
    BY <1>1, <1>2, <1>5, <2>3
  <2>6. Out(state.hole_cards, state.board_cards, 0) = {state.hole_cards[0]}
    BY <1>1, <1>2, <1>5
  <2> QED
    BY <1>3, <2>2, <2>3, <2>4, <2>5, <2>6
<1>6. CASE state.hole_cards[0] # NoCard /\ state.hole_cards[1] # NoCard
  <2> DEFINE n == state.board_count
  <2>1. state' = [state EXCEPT !.board_cards[n] = card, !.board_count = n + 1]
    BY <1>6, Zenon DEF deal_card
  <2>2. /\ state'.board_cards = [state.board_cards EXCEPT ![n] = card]
        /\ state'.board_count = n + 1 /\ state'.hole_cards = state.hole_cards
    BY <2>1 DEF SInv
  <2>3. n \in 0 .. 1 /\ n + 1 \in 0 .. 2
    BY <1>2
  <2>4. /\ state'.board_cards[n] = card
        /\ \A i \in 0 .. n - 1 : state'.board_cards[i] = state.board_cards[i]
        /\ 0 .. (n + 1) - 1 = (0 .. n - 1) \cup {n}
        /\ state'.board_cards \in [0 .. 1 -> Cards]
    BY <1>1, <1>2, <2>2, <2>3
  <2>5. SInv'
    <3>1. \A i \in 0 .. (n + 1) - 1 : state'.board_cards[i] \in Deck
      BY <1>1, <2>4 DEF SInv
    <3> HIDE DEF n
    <3>2. \A i \in 0 .. state'.board_count - 1 : state'.board_cards[i] \in Deck
      BY <2>2, <3>1
    <3>3. state' = [state EXCEPT !.board_cards = state'.board_cards, !.board_count = n + 1]
      BY <2>1, <2>2 DEF SInv
    <3> QED
      BY <1>6, <2>2, <2>3, <2>4, <3>2, <3>3 DEF SInv
  <2>6. Out(state'.hole_cards, state'.board_cards, n + 1)
          = Out(state.hole_cards, state.board_cards, n) \cup {card}
    <3> HIDE DEF n
    <3>1. {state'.board_cards[i] : i \in (0 .. n - 1) \cup {n}}
            = {state.board_cards[i] : i \in 0 .. n - 1} \cup {card}
      BY <2>4
    <3> QED
      BY <2>2, <2>4, <3>1
  <2> QED
    BY <1>3, <2>2, <2>5, <2>6
<1> QED
  BY <1>4, <1>5, <1>6

LEMMA HandBegins == DrawInit => SInv
<1> SUFFICES ASSUME DrawInit
             PROVE  SInv
  OBVIOUS
<1>1. NoCard \in Cards /\ 0 .. kMaxBoardCards - 1 = 0 .. 1
  BY DEF Cards, kMaxBoardCards
<1> DEFINE none == [p \in Player |-> NoCard]
           bare == [i \in 0 .. 1 |-> NoCard]
           zero == [p \in Player |-> 0]
           open == [r \in 0 .. 1 |-> 0]
<1>2. none \in [Player -> Cards] /\ bare \in [0 .. 1 -> Cards]
  BY <1>1
<1>3. none[0] = NoCard /\ none[1] = NoCard
  BY DEF Player, kPlayerCount
<1>4. state = [ hole_cards |-> none, board_cards |-> bare, board_count |-> 0,
                history |-> << >>, round_len |-> 0, raises_used |-> 0, closing |-> open,
                contribution |-> zero, round_contribution |-> zero, level_to_match |-> 0,
                showdown_rank |-> zero, card_class |-> zero ]
  BY <1>1 DEF DrawInit, BlankState
<1> HIDE DEF none, bare, zero, open
<1> QED
  BY <1>2, <1>3, <1>4 DEF SInv, zero, open

\* A step is the draw of a card that is left.
LEMMA StepDraws ==
  ASSUME SInv, DrawNext
  PROVE  \E card \in Deck \ DealtCards(state) :
           SInv' /\ DealtCards(state') = DealtCards(state) \cup {card}
<1>1. PICK roll \in Rolls : Draw(roll)
  BY DEF DrawNext
<1>2. CanDraw /\ state' = deal_card(state, sample_undealt_card(state, roll))
  BY <1>1 DEF Draw, CanDraw
<1> DEFINE card == sample_undealt_card(state, roll)
<1>3. card \in Deck \ DealtCards(state)
  BY <1>2, DrawTakesOne
<1> HIDE DEF card
<1>4. state' = deal_card(state, card)
  BY <1>2 DEF card
<1> QED
  BY <1>2, <1>3, <1>4, CardJoins

LEMMA HandsAreSound == DrawSpec => []SInv
<1>1. SInv /\ [DrawNext]_state => SInv'
  <2> SUFFICES ASSUME SInv, [DrawNext]_state
               PROVE  SInv'
    OBVIOUS
  <2>1. CASE DrawNext
    BY <2>1, StepDraws
  <2>2. CASE UNCHANGED state
    BY <2>2 DEF SInv
  <2> QED
    BY <2>1, <2>2
<1> QED
  BY HandBegins, <1>1, PTL DEF DrawSpec

-----------------------------------------------------------------------------

\* However the cards before it fell and wherever the roll lands, the next
\* card is one that is still in the deck, and just one joins the cards dealt:
\* no card is dealt twice (sample_undealt_card, deal_card).
THEOREM EveryCardIsNew == DrawSpec => NeverTwice
<1>1. SInv /\ DrawNext => /\ DealtCards(state) \subseteq DealtCards(state')
                      /\ Cardinality(DealtCards(state')) = Cardinality(DealtCards(state)) + 1
  <2> SUFFICES ASSUME SInv, DrawNext
               PROVE  /\ DealtCards(state) \subseteq DealtCards(state')
                      /\ Cardinality(DealtCards(state')) = Cardinality(DealtCards(state)) + 1
    OBVIOUS
  <2>1. PICK card \in Deck \ DealtCards(state) :
          DealtCards(state') = DealtCards(state) \cup {card}
    BY StepDraws
  <2> QED
    BY <2>1, Remaining, FS_AddElement
<1> QED
  BY HandsAreSound, <1>1, PTL DEF DrawSpec, NeverTwice

\* What the slow draw makes of its sums: the first that passes the roll, or
\* the last.
LEMMA IndexIs ==
  ASSUME NEW d, NEW n \in Nat, n >= 1, Len(d) = n, NEW roll
  PROVE  \E c : /\ SumsOf(d, n, c)
                /\ \A k \in 0 .. n - 1 :
                     /\ \A i \in 1 .. k : ~(roll < c[i])
                     /\ k < n - 1 => roll < c[k + 1]
                     => sample_index(d, roll) = k + 1
<1> DEFINE c == CHOOSE f : SumsOf(d, n, f)
           passes == {i \in 1 .. n : i = n \/ roll < c[i]}
<1>1. SumsOf(d, n, c)
  BY SumsAlwaysExist
<1>2. sample_index(d, roll) = CHOOSE i \in passes : \A j \in passes : i <= j
  BY Zenon DEF sample_index, SumsOf
<1> HIDE DEF c
<1>3. ASSUME NEW k \in 0 .. n - 1, \A i \in 1 .. k : ~(roll < c[i]),
             k < n - 1 => roll < c[k + 1]
      PROVE  sample_index(d, roll) = k + 1
  <2>1. k + 1 \in passes
    BY <1>3
  <2>2. ASSUME NEW j \in passes
        PROVE  k + 1 <= j
    <3>1. j \in 1 .. n /\ (j = n \/ roll < c[j])
      OBVIOUS
    <3>2. CASE j <= k
      <4>1. j \in 1 .. k /\ j # n
        BY <3>1, <3>2
      <4> QED
        BY <1>3, <3>1, <4>1
    <3> QED
      BY <3>1, <3>2
  <2>3. passes \subseteq Int
    OBVIOUS
  <2> HIDE DEF passes
  <2>4. \A i \in passes : (\A j \in passes : i <= j) => i = k + 1
    BY <2>1, <2>2, <2>3
  <2>5. \E i \in passes : \A j \in passes : i <= j
    BY <2>1, <2>2
  <2> QED
    BY <1>2, <2>4, <2>5
<1> QED
  BY <1>1, <1>3

\* Whatever was dealt and whatever the rounding of doubles, the search of the
\* table draws for every roll the card that summing the outcomes would
\* (sample_undealt_card beside sample_index over deal_outcomes).
THEOREM DrawsAgree == DrawSpec => []SameDraw
<1>1. SInv => SameDraw
  <2> SUFFICES ASSUME SInv, CanDraw, NEW roll \in Rolls
               PROVE  sample_undealt_card(state, roll) = sample_by_index(state, roll)
    BY DEF SameDraw
  <2> DEFINE S == Deck \ DealtCards(state)
             n == Left
             o == outcomes(state)
             d == probabilities(state)
  <2>1. /\ Cardinality(S) = n /\ n \in 1 .. kMaxN
    <3>1. n \in 1 .. kMaxN
      BY Remaining, Sizes DEF Left
    <3> QED
      BY <3>1, Remaining DEF Left
  <2>2. deal_outcomes(state, Deck) = S
    BY DEF deal_outcomes
  <2> HIDE DEF S, n
  <2>3. o = [i \in 1 .. n |-> nth(S, i - 1)]
    BY <2>1, <2>2 DEF outcomes
  <2>4. n \in Nat /\ n >= 1
    BY <2>1, Sizes
  <2>5. Len(o) = n /\ DOMAIN o = 1 .. n
    BY <2>3, <2>4
  <2>6. d = [i \in 1 .. n |-> inverse(n)]
    BY <2>5 DEF probabilities
  <2>7. Len(d) = n /\ \A i \in 1 .. n : d[i] = inverse(n)
    BY <2>4, <2>6
  <2> HIDE DEF o, d
  <2>8. PICK c : /\ SumsOf(d, n, c)
                 /\ \A k \in 0 .. n - 1 :
                      /\ \A i \in 1 .. k : ~(roll < c[i])
                      /\ k < n - 1 => roll < c[k + 1]
                      => sample_index(d, roll) = k + 1
    BY <2>4, <2>7, IndexIs
  <2>9. PICK k \in 0 .. n - 1 :
          /\ sample_undealt_card(state, roll) = nth(S, k)
          /\ \A i \in 1 .. k : ~(roll < c[i])
          /\ k < n - 1 => roll < c[k + 1]
    BY <2>7, <2>8, DrawIs DEF S, n
  <2>10. sample_index(d, roll) = k + 1
    BY <2>8, <2>9
  <2>11. sample_by_index(state, roll) = o[k + 1]
    BY <2>10 DEF sample_by_index, o, d
  <2>12. o[k + 1] = nth(S, k)
    <3>1. k + 1 \in 1 .. n /\ (k + 1) - 1 = k
      BY <2>4
    <3> QED
      BY <2>3, <3>1
  <2> QED
    BY <2>9, <2>11, <2>12
<1> QED
  BY HandsAreSound, <1>1, PTL

=============================================================================
