-------------------------------- MODULE Job --------------------------------
(***************************************************************************)
(* What a job directory promises to whoever reads job.json: one record     *)
(* that only ever moves along a transition of the state machine, notes     *)
(* progress, is paused by crash recovery, or has its sequence number       *)
(* caught up, each in one indivisible step.  No log, no write order and    *)
(* no crash is visible here.                                               *)
(*                                                                         *)
(* This is an abstract specification: JobLog is shown to implement it.     *)
(***************************************************************************)
EXTENDS Naturals, JobState

CONSTANTS Kind,      \* the kind of this job
          Progress,  \* what note_progress may record
          Nothing    \* no record, or no progress noted yet

VARIABLE job

Init == job = Nothing

\* The queued record, before any event.
Queued == [state |-> "queued", reason |-> "none", stamps |-> {},
           progress |-> Nothing, last_seq |-> 0]

Create == /\ job = Nothing
          /\ job' = Queued

\* One transition.  The sequence number goes forward with it.
Move == /\ job # Nothing
        /\ \E t \in TransitionsOf(Kind) :
             /\ job.state = t[1]
             /\ job' = [job EXCEPT
                          !.state    = t[3],
                          !.reason   = IF t[3] = "paused" THEN @ ELSE "none",
                          !.stamps   = IF t[2] = "start" THEN @ \cup {"started"}
                                       ELSE IF t[3] \in Terminal THEN @ \cup {"finished"}
                                       ELSE @,
                          !.last_seq = @ + 1]

NoteProgress == /\ job # Nothing
                /\ job.state = "running"
                /\ \E p \in Progress :
                     job' = [job EXCEPT !.progress = p, !.last_seq = @ + 1]

\* An engine start pauses a job that was running or muxing.
Recover == /\ job # Nothing
           /\ job.state \in Interrupted
           /\ job'.last_seq > job.last_seq
           /\ job' = [job EXCEPT !.state    = "paused",
                                 !.reason   = "crash_recovery",
                                 !.last_seq = job'.last_seq]

\* An engine start finds lines the record does not know of yet.
CatchUp == /\ job # Nothing
           /\ job.state \notin Interrupted
           /\ job'.last_seq > job.last_seq
           /\ job' = [job EXCEPT !.last_seq = job'.last_seq]

Next == Create \/ Move \/ NoteProgress \/ Recover \/ CatchUp

Spec == Init /\ [][Next]_job

=============================================================================
