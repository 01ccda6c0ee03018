------------------------------- MODULE JobLog -------------------------------
(***************************************************************************)
(* One job directory, jobs/<id>/, as engine/src/praelector/jobs/           *)
(* checkpoint.py keeps it: the record job.json and the append-only log     *)
(* events.jsonl.  One caller at a time holds the record in memory.  Every  *)
(* change is two durable writes, the line and then the record, and the     *)
(* process may die before, between or after them; open() is what the next  *)
(* process does first.                                                     *)
(*                                                                         *)
(* Time stamps are abstracted to whether they are set, the cursor, counts  *)
(* and metrics of a progress note to one value of Progress.  Identifiers,  *)
(* options, voices, warnings and errors never change here and are left     *)
(* out, as is the stage, a function of state and kind.                     *)
(***************************************************************************)
EXTENDS Naturals, Sequences, FiniteSets, SequencesExt, JobState

CONSTANTS Kind,        \* "prep" or "record"
          Progress,    \* what note_progress may record
          Nothing,     \* no record in hand, no progress noted yet
          MaxSeq,      \* bound: lines a caller may append
          MaxCrashes,  \* bound: deaths of the process
          PowerLoss    \* whether a death may leave part of a line behind

ASSUME KindAssumption == Kind \in Kinds
ASSUME BoundsAssumption == /\ MaxSeq \in Nat
                           /\ MaxCrashes \in Nat
                           /\ PowerLoss \in BOOLEAN

VARIABLES disk,     \* job.json
          log,      \* the complete lines of events.jsonl
          torn,     \* whether a partial line follows them
          mem,      \* the record the caller holds
          pending,  \* the record being written, between its two writes
          pc,       \* "absent", "idle", "appended" or "closed"
          crashes

vars == <<disk, log, torn, mem, pending, pc, crashes>>

-----------------------------------------------------------------------------
Record == [state : JobStates, reason : {"none", "crash_recovery"},
           stamps : SUBSET {"started", "finished"}, progress : Progress \cup {Nothing},
           last_seq : Nat]

ASSUME NothingAssumption == Nothing \notin Progress \cup Record

Line == [type : {"job.state"}, seq : Nat, value : JobStates]
          \cup [type : {"job.progress"}, seq : Nat, value : Progress]

StateLine(rec) ==
    [type |-> "job.state", seq |-> rec.last_seq, value |-> rec.state]

ProgressLine(rec) ==
    [type |-> "job.progress", seq |-> rec.last_seq, value |-> rec.progress]

\* The record create() writes.
Queued == [state |-> "queued", reason |-> "none", stamps |-> {},
           progress |-> Nothing, last_seq |-> 0]

\* The time stamps a transition sets.
StampsOf(from, to) ==
    (IF from = "queued" /\ to = "running" THEN {"started"} ELSE {})
      \cup (IF to \in Terminal THEN {"finished"} ELSE {})

\* Mutant: a transition into a terminal state does not take a new number.
MovedWithoutSeq(rec, to) ==
    [rec EXCEPT !.state    = to,
                !.reason   = IF to = "paused" THEN @ ELSE "none",
                !.stamps   = @ \cup StampsOf(rec.state, to),
                !.last_seq = IF to \in Terminal THEN @ ELSE @ + 1]

\* apply(): the record after a transition.
Moved(rec, to) ==
    [rec EXCEPT !.state    = to,
                !.reason   = IF to = "paused" THEN @ ELSE "none",
                !.stamps   = @ \cup StampsOf(rec.state, to),
                !.last_seq = @ + 1]

\* note_progress(): the record after a progress note.
Noted(rec, p) == [rec EXCEPT !.progress = p, !.last_seq = @ + 1]

\* Mutant: open() trusts the number in job.json.
LastLoggedSeqUnread(l) == 0

\* The largest number in the log, 0 for an empty one.
LastLoggedSeq(l) == Max({0} \cup {l[i].seq : i \in DOMAIN l})

\* open(): the record with its number caught up to the log.
CaughtUp(rec) ==
    [rec EXCEPT !.last_seq = IF LastLoggedSeq(log) > @ THEN LastLoggedSeq(log) ELSE @]

\* open(): the record crash recovery writes.
RecoveredRecord(rec) ==
    [rec EXCEPT !.state = Recovered(@), !.reason = "crash_recovery", !.last_seq = @ + 1]

-----------------------------------------------------------------------------
Init == /\ disk = Nothing
        /\ log = <<>>
        /\ torn = FALSE
        /\ mem = Nothing
        /\ pending = Nothing
        /\ pc = "absent"
        /\ crashes = 0

\* create(): the first job.json, without a line.
Create == /\ pc = "absent"
          /\ disk' = Queued
          /\ mem' = Queued
          /\ pc' = "idle"
          /\ UNCHANGED <<log, torn, pending, crashes>>

\* The line is durable; the record it announces is not written yet.
AppendLine(line, rec) == /\ log' = Append(log, line)
                         /\ pending' = rec
                         /\ pc' = "appended"
                         /\ UNCHANGED <<disk, torn, crashes>>

\* apply(), as far as the line.  An event that is no edge raises and changes
\* nothing, so it is no step.
Apply(event) ==
    /\ pc = "idle"
    /\ Len(log) < MaxSeq
    /\ \E t \in TransitionsOf(Kind) :
         /\ t[1] = mem.state
         /\ t[2] = event
         /\ LET rec == Moved(mem, t[3]) IN AppendLine(StateLine(rec), rec)
    /\ UNCHANGED mem

\* note_progress(), as far as the line.  Only a running job notes progress.
NoteProgress(p) ==
    /\ pc = "idle"
    /\ Len(log) < MaxSeq
    /\ mem.state = "running"
    /\ LET rec == Noted(mem, p) IN AppendLine(ProgressLine(rec), rec)
    /\ UNCHANGED mem

\* The second write: job.json by temp and rename, and the caller gets the record.
Commit == /\ pc = "appended"
          /\ disk' = pending
          /\ mem' = pending
          /\ pending' = Nothing
          /\ pc' = "idle"
          /\ UNCHANGED <<log, torn, crashes>>

\* open() of a job nobody was working on: job.json is rewritten only if the
\* log was ahead of it.  A line that cannot be parsed makes events() raise, and
\* open() with it: a torn log is never opened again.
OpenQuiet == /\ pc = "closed"
             /\ ~torn
             /\ disk.state \notin Interrupted
             /\ disk' = CaughtUp(disk)
             /\ mem' = CaughtUp(disk)
             /\ pc' = "idle"
             /\ UNCHANGED <<log, torn, pending, crashes>>

\* open() of a job that was in flight: one more line, then the paused record.
OpenRecover == /\ pc = "closed"
               /\ ~torn
               /\ disk.state \in Interrupted
               /\ LET rec == RecoveredRecord(CaughtUp(disk))
                  IN  AppendLine(StateLine(rec), rec)
               /\ UNCHANGED mem

\* The process dies between two steps.  What it held in memory is gone.
Crash == /\ pc \in {"idle", "appended"}
         /\ crashes < MaxCrashes
         /\ crashes' = crashes + 1
         /\ mem' = Nothing
         /\ pending' = Nothing
         /\ pc' = "closed"
         /\ UNCHANGED <<disk, log, torn>>

\* The machine loses power inside an append: part of the line is on disk.
CrashInAppend ==
    /\ PowerLoss
    /\ crashes < MaxCrashes
    /\ \/ pc = "idle" /\ \E t \in TransitionsOf(Kind) : t[1] = mem.state
       \/ pc = "closed" /\ ~torn /\ disk.state \in Interrupted
    /\ torn' = TRUE
    /\ crashes' = crashes + 1
    /\ mem' = Nothing
    /\ pc' = "closed"
    /\ UNCHANGED <<disk, log, pending>>

JobEvents == {t[2] : t \in TransitionsOf(Kind)}

Next == \/ Create
        \/ \E event \in JobEvents : Apply(event)
        \/ \E p \in Progress : NoteProgress(p)
        \/ Commit
        \/ OpenQuiet
        \/ OpenRecover
        \/ Crash
        \/ CrashInAppend

Spec == Init /\ [][Next]_vars

-----------------------------------------------------------------------------
\* What a reader who replays the log takes the state to be.
LoggedState ==
    LET i == SelectLastInSeq(log, LAMBDA line : line.type = "job.state")
    IN  IF i = 0 THEN "queued" ELSE log[i].value

TypeOK ==
    /\ disk \in Record \cup {Nothing}
    /\ log \in Seq(Line)
    /\ torn \in BOOLEAN
    /\ mem \in Record \cup {Nothing}
    /\ pending \in Record \cup {Nothing}
    /\ pc \in {"absent", "idle", "appended", "closed"}
    /\ crashes \in Nat

\* Line i of events.jsonl carries number i, whatever crashes happened between
\* the two writes of a change or inside recovery: no number is reused and none
\* is skipped, so ?since=<seq> neither hides a line nor shows one twice.
SeqDense == \A i \in DOMAIN log : log[i].seq = i

\* job.json never claims a line the log does not have, and the record in the
\* caller's hands is always level with both files: the number the next line
\* takes is free.
RecordLevel ==
    /\ disk # Nothing => disk.last_seq <= Len(log)
    /\ pc = "idle" => mem = disk /\ mem.last_seq = Len(log)

\* A job.json that shows a job at work or finished is never contradicted by
\* the log it is level with, although an interrupted write leaves lines in the
\* log for transitions that never took effect.
SettledStateIsLogged ==
    (disk # Nothing /\ disk.last_seq = Len(log) /\ disk.state \notin {"queued", "paused"})
        => LoggedState = disk.state

\* Once job.json shows a terminal state neither file ever changes again, not
\* even through crashes and openings.
TerminalIsFinal ==
    [][disk # Nothing /\ disk.state \in Terminal => UNCHANGED <<disk, log>>]_vars

\* The two-write protocol with its crashes implements a record that changes in
\* single legal steps.
AbstractJob == INSTANCE Job WITH job <- disk
ImplementsJob == AbstractJob!Spec

=============================================================================
