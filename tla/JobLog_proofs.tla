---------------------------- MODULE JobLog_proofs ----------------------------
(***************************************************************************)
(* Proofs about JobLog for every kind of job, every set of progress notes, *)
(* any number of lines and crashes, with and without power loss: the log   *)
(* is dense, the record never claims a line the log lacks nor contradicts  *)
(* one it is level with, and the two-write protocol implements the         *)
(* one-step Job.                                                           *)
(***************************************************************************)
EXTENDS JobLog, TLAPS

\* What makes the three facts inductive: which files and records agree at
\* which point of a change.
WriteOrder ==
    /\ pc = "absent" => disk = Nothing /\ log = <<>>
    /\ pc # "absent" => disk # Nothing
    /\ pc = "idle" => mem = disk /\ disk.last_seq = Len(log)
    /\ pc = "appended" => /\ pending # Nothing
                          /\ pending.last_seq = Len(log)
                          /\ disk.last_seq < Len(log)
    /\ pc = "closed" => disk.last_seq <= Len(log)

IInv == TypeOK /\ SeqDense /\ WriteOrder

-----------------------------------------------------------------------------
(* Two facts about the state machine alone. *)

LEMMA TransitionTypes ==
    ASSUME NEW t \in TransitionsOf(Kind)
    PROVE  t[1] \in JobStates /\ t[3] \in JobStates
  BY DEF TransitionsOf, Edges, JobStates

LEMMA RecoveredIsPaused ==
    \A s \in Interrupted : Recovered(s) = "paused"
  BY DEF Recovered

(* The number open() takes from a dense log is the number of its lines. *)
LEMMA DenseLastSeq ==
    ASSUME TypeOK, SeqDense
    PROVE  LastLoggedSeq(log) = Len(log)
  <1> DEFINE S == {0} \cup {log[i].seq : i \in DOMAIN log}
  <1>1. Len(log) \in Nat /\ DOMAIN log = 1..Len(log)
    BY DEF TypeOK
  <1>2. Len(log) \in S
    <2>1. CASE Len(log) = 0
      BY <2>1
    <2>2. CASE Len(log) # 0
      <3>1. Len(log) \in DOMAIN log
        BY <1>1, <2>2
      <3>2. log[Len(log)].seq = Len(log)
        BY <3>1 DEF SeqDense
      <3>. QED
        BY <3>1, <3>2
    <2>. QED
      BY <2>1, <2>2
  <1>3. \A y \in S : y \in Nat /\ y <= Len(log)
    BY <1>1 DEF SeqDense
  <1>4. ASSUME NEW x \in S, \A y \in S : x >= y
        PROVE  x = Len(log)
    <2>1. x \in Nat /\ x <= Len(log)
      BY <1>3
    <2>2. x >= Len(log)
      BY <1>2, <1>4
    <2>3. \A a, b \in Nat : a <= b /\ a >= b => a = b
      OBVIOUS
    <2>. HIDE DEF S
    <2>. QED
      BY <1>1, <2>1, <2>2, <2>3
  <1>5. \A y \in S : Len(log) >= y
    BY <1>1, <1>3
  <1>6. Max(S) = Len(log)
    <2>. HIDE DEF S
    <2>. QED
      BY <1>2, <1>4, <1>5 DEF Max
  <1>. QED
    BY <1>6 DEF LastLoggedSeq

LEMMA CaughtUpLevel ==
    ASSUME TypeOK, SeqDense, disk \in Record, disk.last_seq <= Len(log)
    PROVE  /\ CaughtUp(disk) \in Record
           /\ CaughtUp(disk) = [disk EXCEPT !.last_seq = Len(log)]
  <1>1. LastLoggedSeq(log) = Len(log)
    BY DenseLastSeq
  <1>2. Len(log) \in Nat
    BY DEF TypeOK
  <1>3. disk.last_seq \in Nat
    BY DEF Record
  <1>4. (IF Len(log) > disk.last_seq THEN Len(log) ELSE disk.last_seq) = Len(log)
    BY <1>2, <1>3
  <1>5. CaughtUp(disk) = [disk EXCEPT !.last_seq = Len(log)]
    BY <1>1, <1>4 DEF CaughtUp
  <1>. QED
    BY <1>2, <1>5 DEF Record

(* The records a change computes are records, numbered one up. *)
LEMMA MovedRecord ==
    ASSUME NEW rec \in Record, NEW to \in JobStates
    PROVE  /\ Moved(rec, to) \in Record
           /\ Moved(rec, to).state = to
           /\ Moved(rec, to).last_seq = rec.last_seq + 1
  <1>1. PICK n \in Nat : n = rec.last_seq + 1
    BY DEF Record
  <1>2. PICK st \in SUBSET {"started", "finished"} :
          st = rec.stamps \cup StampsOf(rec.state, to)
    BY DEF StampsOf, Record
  <1>3. Moved(rec, to) = [rec EXCEPT !.state    = to,
                                     !.reason   = IF to = "paused" THEN @ ELSE "none",
                                     !.stamps   = st,
                                     !.last_seq = n]
    BY <1>1, <1>2 DEF Moved
  <1>. QED
    BY <1>1, <1>3 DEF Record

LEMMA NotedRecord ==
    ASSUME NEW rec \in Record, NEW p \in Progress
    PROVE  /\ Noted(rec, p) \in Record
           /\ Noted(rec, p).progress = p
           /\ Noted(rec, p).last_seq = rec.last_seq + 1
  <1>1. PICK n \in Nat : n = rec.last_seq + 1
    BY DEF Record
  <1>2. Noted(rec, p) = [rec EXCEPT !.progress = p, !.last_seq = n]
    BY <1>1 DEF Noted
  <1>. QED
    BY <1>1, <1>2 DEF Record

(* One more line, numbered after the last one. *)
LEMMA AppendKeepsDense ==
    ASSUME TypeOK, SeqDense, NEW line \in Line, line.seq = Len(log) + 1,
           log' = Append(log, line)
    PROVE  /\ log' \in Seq(Line)
           /\ Len(log') = Len(log) + 1
           /\ SeqDense'
  <1>1. log \in Seq(Line)
    BY DEF TypeOK
  <1>2. log' \in Seq(Line) /\ Len(log') = Len(log) + 1
    BY <1>1
  <1>3. ASSUME NEW i \in DOMAIN log'
        PROVE  log'[i].seq = i
    <2>1. CASE i = Len(log) + 1
      <3>1. log'[i] = line
        BY <1>1, <2>1
      <3>. QED
        BY <2>1, <3>1
    <2>2. CASE i # Len(log) + 1
      <3>1. i \in DOMAIN log /\ log'[i] = log[i]
        BY <1>1, <1>2, <2>2
      <3>. QED
        BY <3>1 DEF SeqDense
    <2>. QED
      BY <2>1, <2>2
  <1>. QED
    BY <1>2, <1>3 DEF SeqDense

-----------------------------------------------------------------------------
(* The invariant, one step per action. *)

LEMMA InitIInv == Init => IInv
  <1> SUFFICES ASSUME Init PROVE IInv
    OBVIOUS
  <1>1. TypeOK
    <2>1. <<>> \in Seq(Line)
      OBVIOUS
    <2>. QED
      BY <2>1 DEF Init, TypeOK
  <1>2. SeqDense
    BY DEF Init, SeqDense
  <1>3. WriteOrder
    BY DEF Init, WriteOrder
  <1>. QED
    BY <1>1, <1>2, <1>3 DEF IInv

LEMMA CreateIInv == IInv /\ Create => IInv'
  <1>1. Queued \in Record /\ Queued.last_seq = 0
    BY DEF Queued, Record, JobStates
  <1>2. Queued # Nothing
    BY <1>1, NothingAssumption
  <1>. QED
    BY <1>1, <1>2 DEF IInv, Create, TypeOK, SeqDense, WriteOrder

LEMMA ApplyIInv ==
    ASSUME IInv, NEW event, Apply(event)
    PROVE  IInv'
  <1>1. PICK t \in TransitionsOf(Kind) :
           /\ t[1] = mem.state
           /\ AppendLine(StateLine(Moved(mem, t[3])), Moved(mem, t[3]))
    BY DEF Apply
  <1> DEFINE rec == Moved(mem, t[3])
             line == StateLine(rec)
  <1>2. mem \in Record /\ mem = disk /\ mem.last_seq = Len(log) /\ pc = "idle"
    BY DEF IInv, TypeOK, WriteOrder, Apply
  <1>3. t[3] \in JobStates
    BY TransitionTypes
  <1>4. rec \in Record /\ rec.state = t[3] /\ rec.last_seq = Len(log) + 1
    BY <1>2, <1>3, MovedRecord DEF Record
  <1>5. line \in Line /\ line.seq = Len(log) + 1
    BY <1>2, <1>3, <1>4 DEF StateLine, Line, Record
  <1>6. log' = Append(log, line) /\ pending' = rec /\ pc' = "appended"
        /\ UNCHANGED <<disk, torn, crashes, mem>>
    BY <1>1 DEF AppendLine, Apply
  <1>7. log' \in Seq(Line) /\ Len(log') = Len(log) + 1 /\ SeqDense'
    BY <1>5, <1>6, AppendKeepsDense DEF IInv
  <1>8. rec # Nothing
    BY <1>4, NothingAssumption
  <1>9. Len(log) \in Nat
    BY DEF IInv, TypeOK
  <1>. QED
    BY <1>2, <1>4, <1>6, <1>7, <1>8, <1>9 DEF IInv, TypeOK, WriteOrder

LEMMA NoteProgressIInv ==
    ASSUME IInv, NEW p \in Progress, NoteProgress(p)
    PROVE  IInv'
  <1> DEFINE rec == Noted(mem, p)
             line == ProgressLine(rec)
  <1>2. mem \in Record /\ mem = disk /\ mem.last_seq = Len(log) /\ pc = "idle"
    BY NothingAssumption DEF IInv, TypeOK, WriteOrder, NoteProgress
  <1>4. rec \in Record /\ rec.progress = p /\ rec.last_seq = Len(log) + 1
    BY <1>2, NotedRecord DEF Record
  <1>5. line \in Line /\ line.seq = Len(log) + 1
    BY <1>2, <1>4 DEF ProgressLine, Line, Record
  <1>6. log' = Append(log, line) /\ pending' = rec /\ pc' = "appended"
        /\ UNCHANGED <<disk, torn, crashes, mem>>
    BY DEF AppendLine, NoteProgress
  <1>7. log' \in Seq(Line) /\ Len(log') = Len(log) + 1 /\ SeqDense'
    BY <1>5, <1>6, AppendKeepsDense DEF IInv
  <1>8. rec # Nothing
    BY <1>4, NothingAssumption
  <1>9. Len(log) \in Nat
    BY DEF IInv, TypeOK
  <1>. QED
    BY <1>2, <1>4, <1>6, <1>7, <1>8, <1>9 DEF IInv, TypeOK, WriteOrder

LEMMA CommitIInv == IInv /\ Commit => IInv'
  BY DEF IInv, Commit, TypeOK, SeqDense, WriteOrder

LEMMA OpenQuietIInv == IInv /\ OpenQuiet => IInv'
  <1> SUFFICES ASSUME IInv, OpenQuiet PROVE IInv'
    OBVIOUS
  <1>1. disk \in Record /\ disk.last_seq <= Len(log)
    BY DEF IInv, OpenQuiet, TypeOK, WriteOrder
  <1>2. CaughtUp(disk) \in Record /\ CaughtUp(disk).last_seq = Len(log)
    BY <1>1, CaughtUpLevel DEF IInv, Record
  <1>3. CaughtUp(disk) # Nothing
    BY <1>2, NothingAssumption
  <1>. QED
    BY <1>2, <1>3 DEF IInv, OpenQuiet, TypeOK, SeqDense, WriteOrder

LEMMA OpenRecoverIInv == IInv /\ OpenRecover => IInv'
  <1> SUFFICES ASSUME IInv, OpenRecover PROVE IInv'
    OBVIOUS
  <1> DEFINE rec == RecoveredRecord(CaughtUp(disk))
             line == StateLine(rec)
  <1>1. disk \in Record /\ disk.last_seq <= Len(log) /\ disk.state \in Interrupted
        /\ pc = "closed"
    BY DEF IInv, OpenRecover, TypeOK, WriteOrder
  <1>2. Len(log) \in Nat
    BY DEF IInv, TypeOK
  <1>3. CaughtUp(disk) = [disk EXCEPT !.last_seq = Len(log)] /\ CaughtUp(disk) \in Record
    BY <1>1, CaughtUpLevel DEF IInv
  <1>4. rec \in Record /\ rec.state = "paused" /\ rec.last_seq = Len(log) + 1
    <2>1. Recovered(CaughtUp(disk).state) = "paused"
      BY <1>1, <1>3, RecoveredIsPaused DEF Record
    <2>2. CaughtUp(disk).last_seq = Len(log)
      BY <1>1, <1>3 DEF Record
    <2>3. PICK n \in Nat : n = Len(log) + 1
      BY <1>2
    <2>4. rec = [CaughtUp(disk) EXCEPT !.state = "paused", !.reason = "crash_recovery",
                                       !.last_seq = n]
      BY <2>1, <2>2, <2>3 DEF RecoveredRecord
    <2>. QED
      BY <1>3, <2>3, <2>4 DEF Record, JobStates
  <1>5. line \in Line /\ line.seq = Len(log) + 1
    BY <1>2, <1>4 DEF StateLine, Line, Record
  <1>6. log' = Append(log, line) /\ pending' = rec /\ pc' = "appended"
        /\ UNCHANGED <<disk, torn, crashes, mem>>
    BY DEF AppendLine, OpenRecover
  <1>7. log' \in Seq(Line) /\ Len(log') = Len(log) + 1 /\ SeqDense'
    BY <1>5, <1>6, AppendKeepsDense DEF IInv
  <1>8. rec # Nothing
    BY <1>4, NothingAssumption
  <1>9. disk.last_seq < Len(log')
    BY <1>1, <1>2, <1>7 DEF Record
  <1>. QED
    BY <1>1, <1>2, <1>4, <1>6, <1>7, <1>8, <1>9 DEF IInv, TypeOK, WriteOrder

LEMMA CrashIInv == IInv /\ (Crash \/ CrashInAppend) => IInv'
  <1> SUFFICES ASSUME IInv, Crash \/ CrashInAppend PROVE IInv'
    OBVIOUS
  <1>1. disk' = disk /\ log' = log /\ pc' = "closed" /\ torn' \in BOOLEAN
        /\ mem' = Nothing /\ pending' \in {pending, Nothing} /\ crashes' = crashes + 1
    BY DEF Crash, CrashInAppend, IInv, TypeOK
  <1>2. TypeOK' /\ SeqDense'
    BY <1>1 DEF IInv, TypeOK, SeqDense
  <1>3. disk # Nothing /\ disk.last_seq <= Len(log)
    <2>1. Len(log) \in Nat /\ (disk # Nothing => disk.last_seq \in Nat)
      BY DEF IInv, TypeOK, Record
    <2>2. pc \in {"idle", "appended", "closed"}
      BY DEF Crash, CrashInAppend
    <2>. QED
      BY <2>1, <2>2 DEF IInv, WriteOrder
  <1>4. WriteOrder'
    BY <1>1, <1>3 DEF WriteOrder
  <1>. QED
    BY <1>2, <1>4 DEF IInv

LEMMA NextIInv == IInv /\ [Next]_vars => IInv'
  <1>1. IInv /\ UNCHANGED vars => IInv'
    BY DEF vars, IInv, TypeOK, SeqDense, WriteOrder
  <1>. QED
    BY <1>1, CreateIInv, ApplyIInv, NoteProgressIInv, CommitIInv, OpenQuietIInv,
       OpenRecoverIInv, CrashIInv DEF Next

(* The invariant holds throughout.  Every theorem below is read off it. *)
THEOREM Invariant == Spec => []IInv
  BY InitIInv, NextIInv, PTL DEF Spec

(* Types: whatever the kind, the notes and the crashes, the two files and the
   record in hand keep their shape. *)
THEOREM TypeCorrect == Spec => []TypeOK
  <1>1. IInv => TypeOK
    BY DEF IInv
  <1>. QED
    BY <1>1, Invariant, PTL

(* The numbers of the log: line i carries number i for ever, so no number is
   handed out twice across any crash between the two writes of checkpoint.py. *)
THEOREM SequenceIsDense == Spec => []SeqDense
  <1>1. IInv => SeqDense
    BY DEF IInv
  <1>. QED
    BY <1>1, Invariant, PTL

(* job.json never runs ahead of events.jsonl, and the record in the caller's
   hands is level with both. *)
THEOREM RecordStaysLevel == Spec => []RecordLevel
  <1>1. IInv => RecordLevel
    BY DEF IInv, TypeOK, WriteOrder, RecordLevel, Record
  <1>. QED
    BY <1>1, Invariant, PTL

-----------------------------------------------------------------------------
(* The refinement.  Between the two writes the pending record is one step of
   Job away from job.json, so the rename is that step and everything else,
   the line, the deaths, reading the files, is invisible in job.json. *)

OneStep ==
    \/ \E t \in TransitionsOf(Kind) : /\ disk.state = t[1]
                                      /\ pending = Moved(disk, t[3])
    \/ disk.state = "running" /\ \E p \in Progress : pending = Noted(disk, p)
    \/ /\ disk.state \in Interrupted
       /\ pending = [disk EXCEPT !.state = "paused", !.reason = "crash_recovery",
                                 !.last_seq = Len(log)]

\* A finished job has no line its record does not know of.
Settled == disk # Nothing /\ disk.state \in Terminal => disk.last_seq = Len(log)

StepInv == IInv /\ (pc = "appended" => OneStep) /\ Settled

LEMMA LeavesLive ==
    ASSUME NEW t \in TransitionsOf(Kind)
    PROVE  /\ t[1] \notin Terminal
           /\ StampsOf(t[1], t[3]) = IF t[2] = "start" THEN {"started"}
                                     ELSE IF t[3] \in Terminal THEN {"finished"}
                                     ELSE {}
  BY DEF TransitionsOf, Edges, Terminal, StampsOf

LEMMA OneStepLeavesLive ==
    OneStep => disk.state \notin Terminal
  BY LeavesLive DEF OneStep, Interrupted, Terminal

LEMMA NextStepInv == StepInv /\ [Next]_vars => StepInv'
  <1> SUFFICES ASSUME StepInv, [Next]_vars PROVE StepInv'
    OBVIOUS
  <1>1. IInv'
    BY NextIInv DEF StepInv
  <1>2. IInv
    BY DEF StepInv
  <1>3. CASE Create
    <2>1. Queued.state \notin Terminal
      BY DEF Queued, Terminal
    <2>. QED
      BY <1>1, <1>3, <2>1 DEF Create, StepInv, Settled
  <1>4. ASSUME NEW event \in JobEvents, Apply(event)
        PROVE  StepInv'
    <2>1. PICK t \in TransitionsOf(Kind) :
             /\ t[1] = mem.state
             /\ AppendLine(StateLine(Moved(mem, t[3])), Moved(mem, t[3]))
      BY <1>4 DEF Apply
    <2>2. mem = disk
      BY <1>2, <1>4 DEF Apply, IInv, WriteOrder
    <2>3. disk' = disk /\ pending' = Moved(disk, t[3]) /\ disk.state = t[1]
      BY <2>1, <2>2 DEF AppendLine
    <2>4. disk'.state \notin Terminal
      BY <2>3, LeavesLive
    <2>5. OneStep'
      BY <2>3 DEF OneStep, Moved
    <2>. QED
      BY <1>1, <2>4, <2>5 DEF StepInv, Settled
  <1>5. ASSUME NEW p \in Progress, NoteProgress(p)
        PROVE  StepInv'
    <2>1. mem = disk /\ mem.state = "running"
      BY <1>2, <1>5 DEF NoteProgress, IInv, WriteOrder
    <2>2. disk' = disk /\ pending' = Noted(disk, p)
      BY <1>5, <2>1 DEF NoteProgress, AppendLine
    <2>3. disk'.state \notin Terminal
      BY <2>1, <2>2 DEF Terminal
    <2>4. OneStep'
      BY <2>1, <2>2 DEF OneStep, Noted
    <2>. QED
      BY <1>1, <2>3, <2>4 DEF StepInv, Settled
  <1>6. CASE Commit
    BY <1>1, <1>2, <1>6 DEF Commit, StepInv, Settled, IInv, WriteOrder
  <1>7. CASE OpenQuiet
    <2>1. disk \in Record /\ disk.last_seq <= Len(log)
      BY <1>2, <1>7 DEF IInv, OpenQuiet, TypeOK, WriteOrder
    <2>2. CaughtUp(disk).last_seq = Len(log)
      BY <1>2, <2>1, CaughtUpLevel DEF IInv, Record
    <2>. QED
      BY <1>1, <1>7, <2>2 DEF OpenQuiet, StepInv, Settled
  <1>8. CASE OpenRecover
    <2> DEFINE rec == RecoveredRecord(CaughtUp(disk))
    <2>1. disk \in Record /\ disk.last_seq <= Len(log) /\ disk.state \in Interrupted
      BY <1>2, <1>8 DEF IInv, OpenRecover, TypeOK, WriteOrder
    <2>2. CaughtUp(disk) = [disk EXCEPT !.last_seq = Len(log)] /\ CaughtUp(disk) \in Record
      BY <1>2, <2>1, CaughtUpLevel DEF IInv
    <2>3. pc' = "appended" /\ disk' = disk /\ pending' = rec
      BY <1>8 DEF OpenRecover, AppendLine
    <2>4. pending'.last_seq = Len(log')
      BY <1>1, <2>3 DEF IInv, WriteOrder
    <2>5. Recovered(CaughtUp(disk).state) = "paused"
      BY <2>1, <2>2, RecoveredIsPaused DEF Record
    <2>6. PICK n : n = Len(log')
      OBVIOUS
    <2>7. rec = [CaughtUp(disk) EXCEPT !.state = "paused", !.reason = "crash_recovery",
                                       !.last_seq = @ + 1]
      BY <2>5 DEF RecoveredRecord
    <2>8. rec.last_seq = CaughtUp(disk).last_seq + 1 /\ rec.last_seq = n
      BY <2>2, <2>3, <2>4, <2>6, <2>7 DEF Record
    <2>9. rec = [CaughtUp(disk) EXCEPT !.state = "paused", !.reason = "crash_recovery",
                                       !.last_seq = n]
      BY <2>7, <2>8
    <2>10. rec = [disk EXCEPT !.state = "paused", !.reason = "crash_recovery",
                              !.last_seq = n]
      BY <2>1, <2>2, <2>9 DEF Record
    <2>11. OneStep'
      BY <2>1, <2>3, <2>6, <2>10 DEF OneStep
    <2>. QED
      BY <1>1, <2>1, <2>3, <2>11, OneStepLeavesLive
      DEF StepInv, Settled, Interrupted, Terminal
  <1>9. CASE Crash \/ CrashInAppend
    <2>1. disk' = disk /\ log' = log /\ pc' = "closed"
      BY <1>9 DEF Crash, CrashInAppend
    <2>. QED
      BY <1>1, <2>1 DEF StepInv, Settled
  <1>10. CASE UNCHANGED vars
    BY <1>1, <1>10 DEF vars, StepInv, Settled, OneStep
  <1>. QED
    BY <1>3, <1>4, <1>5, <1>6, <1>7, <1>8, <1>9, <1>10 DEF Next

THEOREM StepInvariant == Spec => []StepInv
  <1>1. Init => StepInv
    BY InitIInv DEF Init, StepInv, Settled
  <1>. QED
    BY <1>1, NextStepInv, PTL DEF Spec

(* A job that is done, failed or cancelled stays exactly as it is, in both
   files, through every crash and every open(). *)
THEOREM TerminalStays == Spec => TerminalIsFinal
  <1>1. StepInv /\ [Next]_vars =>
          [disk # Nothing /\ disk.state \in Terminal => UNCHANGED <<disk, log>>]_vars
    <2> SUFFICES ASSUME StepInv, Next, disk # Nothing, disk.state \in Terminal
                 PROVE  UNCHANGED <<disk, log>>
      OBVIOUS
    <2>1. disk.last_seq = Len(log) /\ pc # "appended" /\ disk \in Record
      BY OneStepLeavesLive DEF StepInv, Settled, IInv, TypeOK
    <2>2. ~Create /\ ~Commit
      BY <2>1 DEF Create, Commit, StepInv, IInv, WriteOrder
    <2>3. ASSUME NEW event \in JobEvents, Apply(event)
          PROVE  FALSE
      BY <2>3, LeavesLive DEF Apply, StepInv, IInv, WriteOrder
    <2>4. ASSUME NEW p \in Progress, NoteProgress(p)
          PROVE  FALSE
      BY <2>4 DEF NoteProgress, StepInv, IInv, WriteOrder, Terminal
    <2>5. CASE OpenQuiet
      <3>1. CaughtUp(disk) = [disk EXCEPT !.last_seq = disk.last_seq]
        BY <2>1, CaughtUpLevel DEF StepInv, IInv, Record
      <3>2. CaughtUp(disk) = disk
        BY <2>1, <3>1 DEF Record
      <3>. QED
        BY <2>5, <3>2 DEF OpenQuiet
    <2>6. ~OpenRecover
      BY DEF OpenRecover, Interrupted, Terminal
    <2>7. CASE Crash \/ CrashInAppend
      BY <2>7 DEF Crash, CrashInAppend
    <2>. QED
      BY <2>2, <2>3, <2>4, <2>5, <2>6, <2>7 DEF Next
  <1>. QED
    BY <1>1, StepInvariant, PTL DEF Spec, TerminalIsFinal

(* Job and JobLog read the same state machine. *)
LEMMA SameMachine ==
    /\ AbstractJob!TransitionsOf(Kind) = TransitionsOf(Kind)
    /\ AbstractJob!Interrupted = Interrupted
    /\ AbstractJob!Terminal = Terminal
  BY DEF AbstractJob!TransitionsOf, AbstractJob!Edges, AbstractJob!Interrupted,
         AbstractJob!Terminal, TransitionsOf, Edges, Interrupted, Terminal

(* The rename of job.json is one step of Job. *)
LEMMA CommitRefines ==
    ASSUME StepInv, Commit
    PROVE  AbstractJob!Next
  <1>1. disk \in Record /\ disk # Nothing /\ pending \in Record
        /\ pending.last_seq = Len(log) /\ disk.last_seq < Len(log)
        /\ disk' = pending /\ OneStep
    BY DEF StepInv, IInv, TypeOK, WriteOrder, Commit
  <1>2. ASSUME NEW t \in TransitionsOf(Kind), disk.state = t[1],
               pending = Moved(disk, t[3])
        PROVE  AbstractJob!Move
    <2> DEFINE st == IF t[2] = "start" THEN disk.stamps \cup {"started"}
                     ELSE IF t[3] \in Terminal THEN disk.stamps \cup {"finished"}
                     ELSE disk.stamps
    <2>1. st = disk.stamps \cup StampsOf(disk.state, t[3])
      BY <1>2, LeavesLive
    <2>2. Moved(disk, t[3]) =
            [disk EXCEPT !.state    = t[3],
                         !.reason   = IF t[3] = "paused" THEN @ ELSE "none",
                         !.stamps   = st,
                         !.last_seq = @ + 1]
      BY <2>1 DEF Moved
    <2>3. disk' = [disk EXCEPT !.state    = t[3],
                               !.reason   = IF t[3] = "paused" THEN @ ELSE "none",
                               !.stamps   = IF t[2] = "start" THEN @ \cup {"started"}
                                            ELSE IF t[3] \in AbstractJob!Terminal
                                                 THEN @ \cup {"finished"}
                                                 ELSE @,
                               !.last_seq = @ + 1]
      BY <1>1, <1>2, <2>2, SameMachine
    <2>4. t \in AbstractJob!TransitionsOf(Kind)
      BY SameMachine
    <2>. QED
      BY <1>1, <1>2, <2>3, <2>4, Zenon DEF AbstractJob!Move
  <1>3. ASSUME disk.state = "running", NEW p \in Progress, pending = Noted(disk, p)
        PROVE  AbstractJob!NoteProgress
    BY <1>1, <1>3 DEF AbstractJob!NoteProgress, Noted
  <1>4. ASSUME disk.state \in Interrupted,
               pending = [disk EXCEPT !.state = "paused", !.reason = "crash_recovery",
                                      !.last_seq = Len(log)]
        PROVE  AbstractJob!Recover
    <2>1. disk'.last_seq = Len(log) /\ disk'.last_seq > disk.last_seq
      BY <1>1, BoundsAssumption DEF StepInv, IInv, TypeOK, Record
    <2>. QED
      BY <1>1, <1>4, <2>1, SameMachine DEF AbstractJob!Recover
  <1>. QED
    BY <1>1, <1>2, <1>3, <1>4 DEF OneStep, AbstractJob!Next

(* The two-write protocol implements a record that changes in single legal
   steps: what a reader of job.json can observe of checkpoint.py. *)
THEOREM Implementation == Spec => ImplementsJob
  <1>1. Init => AbstractJob!Init
    BY DEF Init, AbstractJob!Init
  <1>2. StepInv /\ [Next]_vars => [AbstractJob!Next]_disk
    <2> SUFFICES ASSUME StepInv, Next, disk' # disk
                 PROVE  AbstractJob!Next
      BY DEF vars
    <2>1. CASE Create
      BY <2>1 DEF Create, StepInv, IInv, WriteOrder, Queued, AbstractJob!Next,
                  AbstractJob!Create, AbstractJob!Queued
    <2>2. CASE Commit
      BY <2>2, CommitRefines
    <2>3. CASE OpenQuiet
      <3>1. disk \in Record /\ disk # Nothing /\ disk.last_seq <= Len(log)
            /\ disk.state \notin Interrupted /\ Len(log) \in Nat
        BY <2>3 DEF OpenQuiet, StepInv, IInv, TypeOK, WriteOrder
      <3>2. disk' = [disk EXCEPT !.last_seq = Len(log)]
        BY <2>3, <3>1, CaughtUpLevel DEF OpenQuiet, StepInv, IInv
      <3>3. disk'.last_seq = Len(log) /\ disk.last_seq # Len(log) /\ disk.last_seq \in Nat
        BY <3>1, <3>2 DEF Record
      <3>4. disk'.last_seq > disk.last_seq
        BY <3>1, <3>3
      <3>. QED
        BY <3>1, <3>2, <3>3, <3>4, SameMachine DEF AbstractJob!Next, AbstractJob!CatchUp
    <2>4. ~(\E event \in JobEvents : Apply(event)) /\ ~(\E p \in Progress : NoteProgress(p))
          /\ ~OpenRecover /\ ~Crash /\ ~CrashInAppend
      BY DEF Apply, NoteProgress, OpenRecover, AppendLine, Crash, CrashInAppend
    <2>. QED
      BY <2>1, <2>2, <2>3, <2>4 DEF Next
  <1>. QED
    BY <1>1, <1>2, StepInvariant, PTL DEF Spec, ImplementsJob, AbstractJob!Spec

-----------------------------------------------------------------------------
(* What the log says.  The lines of a state are the ones at StateLines, and the
   last of them is what LoggedState reads. *)

StateLines(l) == {i \in 1..Len(l) : l[i].type = "job.state"}

\* The last line of a state in log is of state s; with none, the job is queued.
Says(l, s) == \/ StateLines(l) = {} /\ s = "queued"
              \/ \E i \in StateLines(l) : l[i].value = s /\ \A j \in StateLines(l) : i >= j

LEMMA LoggedIsSaid ==
    ASSUME TypeOK, NEW s, Says(log, s)
    PROVE  LoggedState = s
  <1> DEFINE I == StateLines(log)
             last == SelectLastInSeq(log, LAMBDA line : line.type = "job.state")
  <1>1. last = IF I # {} THEN Max(I) ELSE 0
    BY DEF SelectLastInSeq, StateLines
  <1>2. CASE I = {}
    BY <1>1, <1>2 DEF LoggedState, Says
  <1>3. CASE I # {}
    <2>1. PICK i \in I : log[i].value = s /\ \A j \in I : i >= j
      BY <1>3 DEF Says
    <2>2. Len(log) \in Nat /\ \A x \in I : x \in Nat /\ x # 0
      BY DEF TypeOK, StateLines
    <2>3. \A x \in I : (\A y \in I : x >= y) => x = i
      <3>. HIDE DEF I
      <3>. QED
        BY <2>1, <2>2
    <2>4. Max(I) = i
      <3>. HIDE DEF I
      <3>. QED
        BY <2>1, <2>3 DEF Max
    <2>. QED
      BY <1>1, <1>3, <2>1, <2>2, <2>4 DEF LoggedState
  <1>. QED
    BY <1>2, <1>3

LEMMA StateLineIsSaid ==
    ASSUME TypeOK, NEW line \in Line, line.type = "job.state", log' = Append(log, line)
    PROVE  Says(log', line.value)
  <1>1. /\ Len(log) \in Nat /\ Len(log') = Len(log) + 1 /\ log'[Len(log) + 1] = line
    BY DEF TypeOK
  <1>2. Len(log) + 1 \in StateLines(log') /\ \A j \in StateLines(log') : Len(log) + 1 >= j
    BY <1>1 DEF StateLines
  <1>. QED
    BY <1>1, <1>2 DEF Says

LEMMA OtherLineSaysNothing ==
    ASSUME TypeOK, NEW line \in Line, line.type = "job.progress", log' = Append(log, line),
           NEW s, Says(log, s)
    PROVE  Says(log', s)
  <1>1. /\ Len(log) \in Nat /\ Len(log') = Len(log) + 1 /\ log'[Len(log) + 1] = line
        /\ \A i \in 1..Len(log) : log'[i] = log[i]
    BY DEF TypeOK
  <1>2. StateLines(log') = StateLines(log)
    <2>1. ASSUME NEW i \in 1..Len(log')
          PROVE  i \in StateLines(log') <=> i \in StateLines(log)
      <3>1. CASE i = Len(log) + 1
        BY <1>1, <3>1 DEF StateLines
      <3>2. CASE i # Len(log) + 1
        BY <1>1, <3>2 DEF StateLines
      <3>. QED
        BY <3>1, <3>2
    <2>2. StateLines(log) \subseteq 1..Len(log')
      BY <1>1 DEF StateLines
    <2>. QED
      BY <2>1, <2>2 DEF StateLines
  <1>3. \A i \in StateLines(log) : log'[i] = log[i]
    BY <1>1 DEF StateLines
  <1>. QED
    BY <1>2, <1>3 DEF Says

\* What the caller writes next, and what it has written, is what the log says.
Announced(rec) == rec.state \notin {"queued", "paused"} => Says(log, rec.state)

SaidInv == /\ pc = "appended" => Announced(pending)
           /\ disk # Nothing /\ disk.last_seq = Len(log) => Announced(disk)

LEMMA SaidStep == StepInv /\ StepInv' /\ SaidInv /\ [Next]_vars => SaidInv'
  <1> SUFFICES ASSUME StepInv, StepInv', SaidInv, [Next]_vars PROVE SaidInv'
    OBVIOUS
  <1>1. TypeOK /\ WriteOrder /\ TypeOK' /\ WriteOrder' /\ Settled
    BY DEF StepInv, IInv
  <1>2. CASE Create
    <2>1. Queued.state = "queued" /\ disk' = Queued /\ pc' = "idle"
      BY <1>2 DEF Create, Queued
    <2>. QED
      BY <2>1 DEF SaidInv, Announced
  <1>3. ASSUME pc' = "appended", disk' = disk, NEW line \in Line, log' = Append(log, line),
               disk # Nothing => disk.last_seq <= Len(log)
        PROVE  disk' # Nothing => disk'.last_seq # Len(log')
    BY <1>1, <1>3 DEF TypeOK, Record
  <1>4. ASSUME NEW event \in JobEvents, Apply(event)
        PROVE  SaidInv'
    <2>1. PICK t \in TransitionsOf(Kind) :
             /\ t[1] = mem.state
             /\ AppendLine(StateLine(Moved(mem, t[3])), Moved(mem, t[3]))
      BY <1>4 DEF Apply
    <2> DEFINE rec == Moved(mem, t[3])
               line == StateLine(rec)
    <2>2. mem \in Record /\ mem = disk /\ disk.last_seq = Len(log) /\ t[3] \in JobStates /\ pc = "idle"
      BY <1>1, <1>4, TransitionTypes DEF Apply, WriteOrder, TypeOK
    <2>3. rec \in Record /\ rec.state = t[3]
      BY <2>2, MovedRecord
    <2>4. line \in Line /\ line.type = "job.state" /\ line.value = rec.state
      BY <2>2, <2>3 DEF StateLine, Line, Record
    <2>5. pending' = rec /\ log' = Append(log, line) /\ pc' = "appended" /\ disk' = disk
      BY <2>1 DEF AppendLine
    <2>6. Says(log', rec.state)
      BY <1>1, <2>4, <2>5, StateLineIsSaid
    <2>7. disk' # Nothing => disk'.last_seq # Len(log')
      <3>1. Len(log) \in Nat
        BY <1>1 DEF TypeOK
      <3>. HIDE DEF line
      <3>. QED
        BY <1>3, <2>2, <2>4, <2>5, <3>1
    <2>. QED
      BY <2>5, <2>6, <2>7 DEF SaidInv, Announced
  <1>5. ASSUME NEW p \in Progress, NoteProgress(p)
        PROVE  SaidInv'
    <2> DEFINE rec == Noted(mem, p)
               line == ProgressLine(rec)
    <2>1. mem \in Record /\ mem = disk /\ disk.last_seq = Len(log) /\ mem.state = "running" /\ disk # Nothing
      BY <1>1, <1>5, NothingAssumption DEF NoteProgress, WriteOrder, TypeOK
    <2>2. rec \in Record /\ rec.progress = p /\ rec.state = "running"
      BY <2>1, NotedRecord DEF Noted, Record
    <2>3. line \in Line /\ line.type = "job.progress"
      BY <2>1, <2>2 DEF ProgressLine, Line, Record
    <2>4. pending' = rec /\ log' = Append(log, line) /\ pc' = "appended" /\ disk' = disk
      BY <1>5 DEF NoteProgress, AppendLine
    <2>5. Says(log, "running")
      BY <2>1 DEF SaidInv, Announced
    <2>6. Says(log', "running")
      <3>. HIDE DEF line
      <3>. QED
        BY <1>1, <2>3, <2>4, <2>5, OtherLineSaysNothing
    <2>7. disk' # Nothing => disk'.last_seq # Len(log')
      <3>1. Len(log) \in Nat
        BY <1>1 DEF TypeOK
      <3>. HIDE DEF line
      <3>. QED
        BY <1>3, <2>1, <2>3, <2>4, <3>1
    <2>. QED
      BY <2>2, <2>4, <2>6, <2>7 DEF SaidInv, Announced
  <1>6. CASE Commit
    BY <1>6 DEF Commit, SaidInv, Announced
  <1>7. CASE OpenQuiet
    <2>1. disk \in Record /\ disk # Nothing /\ disk.last_seq <= Len(log)
          /\ disk.state \notin Interrupted
      BY <1>1, <1>7 DEF OpenQuiet, TypeOK, WriteOrder
    <2>2. disk' = [disk EXCEPT !.last_seq = Len(log)] /\ log' = log /\ pc' = "idle"
      BY <1>7, <2>1, CaughtUpLevel DEF OpenQuiet, StepInv, IInv
    <2>3. disk'.state = disk.state
      BY <2>1, <2>2 DEF Record
    <2>4. disk.state \in Terminal \cup {"queued", "paused"}
      BY <2>1 DEF Record, JobStates, Terminal, Interrupted
    <2>5. Announced(disk)
      BY <1>1, <2>1, <2>4 DEF Settled, SaidInv, Announced
    <2>. QED
      BY <2>2, <2>3, <2>5 DEF SaidInv, Announced
  <1>8. CASE OpenRecover
    <2> DEFINE rec == RecoveredRecord(CaughtUp(disk))
               line == StateLine(rec)
    <2>1. disk \in Record /\ disk.last_seq <= Len(log) /\ disk.state \in Interrupted
      BY <1>1, <1>8 DEF OpenRecover, TypeOK, WriteOrder
    <2>2. CaughtUp(disk) \in Record /\ CaughtUp(disk).state = disk.state
      BY <2>1, CaughtUpLevel DEF StepInv, IInv, Record
    <2>3. rec.state = "paused"
      BY <2>1, <2>2, RecoveredIsPaused DEF RecoveredRecord, Record
    <2>4. pending' = rec /\ log' = Append(log, line) /\ pc' = "appended" /\ disk' = disk
      BY <1>8 DEF OpenRecover, AppendLine
    <2>5. disk'.last_seq # Len(log')
      BY <1>1, <2>1, <2>4 DEF WriteOrder, TypeOK, Record
    <2>. QED
      BY <2>3, <2>4, <2>5 DEF SaidInv, Announced
  <1>9. CASE Crash \/ CrashInAppend
    BY <1>9 DEF Crash, CrashInAppend, SaidInv, Announced
  <1>10. CASE UNCHANGED vars
    BY <1>10 DEF vars, SaidInv, Announced
  <1>. QED
    BY <1>2, <1>4, <1>5, <1>6, <1>7, <1>8, <1>9, <1>10 DEF Next

(* A job.json that shows a job at work or finished is what the log it is level with says,
   however many lines of transitions that never took effect deaths have left in it. *)
THEOREM SettledIsLogged == Spec => []SettledStateIsLogged
  <1>1. Init => SaidInv
    BY DEF Init, SaidInv
  <1>2. StepInv /\ SaidInv => SettledStateIsLogged
    BY LoggedIsSaid DEF StepInv, IInv, SaidInv, Announced, SettledStateIsLogged
  <1>. QED
    BY <1>1, <1>2, SaidStep, StepInvariant, PTL DEF Spec

=============================================================================
