------------------------------ MODULE JobRoutes ------------------------------
(***************************************************************************)
(* The job routes of the HTTP API (api/v1/jobs.py with jobs/create.py and  *)
(* jobs/catalog.py) over the job directories of the open project.  The     *)
(* handlers are plain functions that the server runs in a pool of threads, *)
(* nothing locks a job directory, and every handler reads job.json, works  *)
(* on its own copy and writes twice: the line, then the record.  A client  *)
(* follows the log of each job with ?since=<last seq it saw>.              *)
(*                                                                         *)
(* No route starts a job: a running, paused or finished one was left by    *)
(* the render engine before the project was opened (see Left).  A record   *)
(* is reduced to the two fields the routes read and change; JobLog has the *)
(* others.  Listing the directories is one step here: what can happen      *)
(* between two reads of one listing can also happen right after it.        *)
(***************************************************************************)
EXTENDS Naturals, Sequences, FiniteSets, SequencesExt, JobState

CONSTANTS Jobs,        \* job directories that may come to exist
          Threads,     \* requests the server works on at the same time
          Kind,        \* the kind of every job
          Absent,      \* no job.json in the directory
          MaxLines,    \* bound: lines of a log before new changes are requested
          MaxCrashes   \* bound: deaths of the engine

ASSUME RoutesAssumption == /\ Kind \in Kinds
                           /\ MaxLines \in Nat
                           /\ MaxCrashes \in Nat

ASSUME AbsentAssumption == Absent \notin [state : JobStates, last_seq : Nat]

VARIABLES jobs,      \* job.json of every directory
          logs,      \* events.jsonl of every directory
          partials,  \* whether *.part files lie under the chunks directory
          up,        \* the engine runs and has the project open
          thread,    \* what every thread is doing
          cursor,    \* the largest seq the client has seen, per job
          received,  \* the lines the client has received, per job
          acked,     \* the changes answered with 200, per job
          overlapped, \* history: two requests were ever in progress at once
          crashes

vars == <<jobs, logs, partials, up, thread, cursor, received, acked, overlapped, crashes>>

-----------------------------------------------------------------------------
Record == [state : JobStates, last_seq : Nat]

\* A line of the log: a job.state event.
StateOf(rec) == [seq |-> rec.last_seq, value |-> rec.state]

Idle == [pc |-> "idle"]

\* The states a job has gone through when the render engine leaves it.
Left == [queued    |-> <<>>,
         running   |-> <<"running">>,
         paused    |-> <<"running", "paused">>,
         muxing    |-> <<"running", "muxing">>,
         done      |-> <<"running", "muxing", "done">>,
         failed    |-> <<"running", "failed">>,
         cancelled |-> <<"cancelled">>]

ActiveJobs == {j \in Jobs : jobs[j] # Absent /\ jobs[j].state \in Active}

\* The engine has opened a project with at most one job in it.
Init == /\ \E j \in Jobs, s \in JobStates \cup {Absent} :
             /\ jobs = [k \in Jobs |->
                          IF k = j /\ s # Absent
                          THEN [state |-> s, last_seq |-> Len(Left[s])]
                          ELSE Absent]
             /\ logs = [k \in Jobs |->
                          IF k = j /\ s # Absent
                          THEN [i \in DOMAIN Left[s] |-> [seq |-> i, value |-> Left[s][i]]]
                          ELSE <<>>]
        /\ partials \in BOOLEAN
        /\ up = TRUE
        /\ thread = [t \in Threads |-> Idle]
        /\ cursor = [j \in Jobs |-> 0]
        /\ received = [j \in Jobs |-> {}]
        /\ acked = [j \in Jobs |-> {}]
        /\ overlapped = FALSE
        /\ crashes = 0

-----------------------------------------------------------------------------
(* POST /projects/{id}/jobs *)

\* A thread takes a request.
Begin(t, work) == /\ thread' = [thread EXCEPT ![t] = work]
                  /\ overlapped' = (overlapped \/ \E u \in Threads : thread[u] # Idle)

\* create_queued() lists the jobs and goes on only if none is live.  The new
\* identifier is one nobody else has or will take.
CreateScan(t) ==
    /\ up
    /\ thread[t] = Idle
    /\ ActiveJobs = {}
    /\ \E j \in Jobs : /\ jobs[j] = Absent
                       /\ \A u \in Threads : thread[u] # Idle => thread[u].job # j
                       /\ Begin(t, [pc |-> "scanned", job |-> j])
    /\ UNCHANGED <<jobs, logs, partials, up, cursor, received, acked, crashes>>

\* ... and then writes the queued record.
CreateWrite(t) ==
    /\ thread[t].pc = "scanned"
    /\ jobs' = [jobs EXCEPT ![thread[t].job] = [state |-> "queued", last_seq |-> 0]]
    /\ thread' = [thread EXCEPT ![t] = Idle]
    /\ UNCHANGED <<logs, partials, up, cursor, received, acked, overlapped, crashes>>

-----------------------------------------------------------------------------
(* POST /jobs/{id}/pause, /resume and /cancel *)

\* The event a request stands for; cancel is a stop unless the job is queued.
EventOf(op, state) == IF op # "cancel" THEN op
                      ELSE IF state = "queued" THEN "cancel" ELSE "stop"

\* load_job() and the transition.  A request whose event is no edge from the
\* loaded state is answered 409 and is no step.
Load(t) ==
    /\ up
    /\ thread[t] = Idle
    /\ \E j \in Jobs, op \in {"pause", "resume", "cancel"} :
         /\ jobs[j] # Absent
         /\ Len(logs[j]) < MaxLines
         /\ \E e \in TransitionsOf(Kind) :
              /\ e[1] = jobs[j].state
              /\ e[2] = EventOf(op, jobs[j].state)
              /\ Begin(t, [pc |-> "loaded", job |-> j, op |-> op,
                           rec |-> [state |-> e[3], last_seq |-> jobs[j].last_seq + 1]])
    /\ UNCHANGED <<jobs, logs, partials, up, cursor, received, acked, crashes>>

\* JobLog.apply() appends the line ...
AppendEvent(t) ==
    /\ thread[t].pc = "loaded"
    /\ logs' = [logs EXCEPT ![thread[t].job] = Append(@, StateOf(thread[t].rec))]
    /\ thread' = [thread EXCEPT ![t].pc = "appended"]
    /\ UNCHANGED <<jobs, partials, up, cursor, received, acked, overlapped, crashes>>

\* Mutant: the record is written before its line.
WriteRecordFirst(t) ==
    /\ thread[t].pc \in {"loaded", "appended"}
    /\ jobs' = [jobs EXCEPT ![thread[t].job] = thread[t].rec]
    /\ thread' = [thread EXCEPT ![t].pc = "written"]
    /\ UNCHANGED <<logs, partials, up, cursor, received, acked, overlapped, crashes>>

\* ... and replaces job.json.
WriteRecord(t) ==
    /\ thread[t].pc = "appended"
    /\ jobs' = [jobs EXCEPT ![thread[t].job] = thread[t].rec]
    /\ thread' = [thread EXCEPT ![t].pc = "written"]
    /\ UNCHANGED <<logs, partials, up, cursor, received, acked, overlapped, crashes>>

\* A pause deletes the partial chunks; then the request is answered.
Answer(t) ==
    /\ thread[t].pc = "written"
    /\ partials' = (partials /\ thread[t].op # "pause")
    /\ acked' = [acked EXCEPT ![thread[t].job] = @ \cup {StateOf(thread[t].rec)}]
    /\ thread' = [thread EXCEPT ![t] = Idle]
    /\ UNCHANGED <<jobs, logs, up, cursor, received, overlapped, crashes>>

-----------------------------------------------------------------------------
(* GET /jobs/{id}/events?since=<seq> *)

\* Mutant: the lines from the given number on, the one already seen included,
\* but the newest one left out.
NewLinesOff(log, since) == {i \in DOMAIN log : log[i].seq > since + 1}

\* events_since(): the lines whose number is greater.
NewLines(log, since) == {i \in DOMAIN log : log[i].seq > since}

\* The client asks for what it has not seen and remembers the largest number.
Poll(j) ==
    /\ up
    /\ jobs[j] # Absent
    /\ LET new == NewLines(logs[j], cursor[j])
       IN  /\ new # {}
           /\ received' = [received EXCEPT ![j] = @ \cup new]
           /\ cursor' = [cursor EXCEPT ![j] = Max({logs[j][i].seq : i \in new})]
    /\ UNCHANGED <<jobs, logs, partials, up, thread, acked, overlapped, crashes>>

-----------------------------------------------------------------------------
(* The engine dies, and the next one opens the project. *)

Crash == /\ up
         /\ crashes < MaxCrashes
         /\ crashes' = crashes + 1
         /\ up' = FALSE
         /\ thread' = [t \in Threads |-> Idle]
         /\ UNCHANGED <<jobs, logs, partials, cursor, received, acked, overlapped>>

\* ProjectStore.open() migrates, reconciles the chunks and writes the chunk
\* index.  It opens no job log.
OpenProject == /\ ~up
               /\ up' = TRUE
               /\ UNCHANGED <<jobs, logs, partials, thread, cursor, received, acked, overlapped, crashes>>

Next == \/ \E t \in Threads : \/ CreateScan(t)
                              \/ CreateWrite(t)
                              \/ Load(t)
                              \/ AppendEvent(t)
                              \/ WriteRecord(t)
                              \/ Answer(t)
        \/ \E j \in Jobs : Poll(j)
        \/ Crash
        \/ OpenProject

Spec == Init /\ [][Next]_vars

-----------------------------------------------------------------------------
TypeOK ==
    /\ jobs \in [Jobs -> Record \cup {Absent}]
    /\ \A j \in Jobs : logs[j] \in Seq([seq : Nat, value : JobStates])
    /\ partials \in BOOLEAN
    /\ up \in BOOLEAN
    /\ \A t \in Threads :
         thread[t] = Idle \/ thread[t].pc \in {"scanned", "loaded", "appended", "written"}
    /\ cursor \in [Jobs -> Nat]
    /\ \A j \in Jobs : received[j] \subseteq DOMAIN logs[j]
    /\ \A j \in Jobs : acked[j] \subseteq [seq : Nat, value : JobStates]
    /\ overlapped \in BOOLEAN /\ crashes \in 0..MaxCrashes

\* Whatever the threads and the deaths, job.json never shows a change that
\* events.jsonl does not announce under the same number.
RecordWasLogged ==
    \A j \in Jobs : (jobs[j] # Absent /\ jobs[j].last_seq > 0) =>
        \E i \in DOMAIN logs[j] : logs[j][i] = StateOf(jobs[j])

\* A change answered with 200 stays in the log of its job for good.
AckedIsLogged ==
    \A j \in Jobs : \A a \in acked[j] : \E i \in DOMAIN logs[j] : logs[j][i] = a

\* Both: the log is written first, and what was told to a client or to the record
\* is in it (jobs/checkpoint.py, JobLog.apply).
LogComesFirst == RecordWasLogged /\ AckedIsLogged

\* create.py: a second job is refused while any job of the project is live.
OneActiveJob == Cardinality(ActiveJobs) <= 1

\* PLAN.md 8.1: a client that asks for the events since the last number it saw
\* misses nothing: it has every line up to that number.  (After a death between
\* the two writes of a change, and when two overlapping requests number their
\* lines from one record, a number is used twice: see README.)
ReplayMissesNothing ==
    (crashes = 0 /\ ~overlapped) =>
        \A j \in Jobs : \A i \in DOMAIN logs[j] :
            logs[j][i].seq <= cursor[j] => i \in received[j]

=============================================================================
