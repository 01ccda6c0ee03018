----------------------------- MODULE Supervisor -----------------------------
(***************************************************************************)
(* The desktop shell keeps one engine process running (apps/desktop/src/   *)
(* engine/supervisor.rs): spawn, wait for the ready line (ready.rs),       *)
(* publish the endpoint, probe its health, and on failure tear it down and *)
(* start another after a back-off, until the restart budget is used up or  *)
(* the user closes the application (lib.rs).  The engine (__main__.py)     *)
(* binds its port, announces itself, serves, stops when it is asked to,    *)
(* and watches whether the shell is still there.                           *)
(*                                                                         *)
(* Time is counted in ticks; timer is what is left of the wait the         *)
(* supervisor is in.  The supervisor acts as soon as it can.  Restarts are *)
(* kept by age, and only while they count.                                 *)
(***************************************************************************)
EXTENDS Naturals, Sequences, FiniteSets

CONSTANTS ReadyBudget,    \* how long the ready line may take
          HealthInterval, \* pause between two probes
          ProbeTimeout,   \* longest health probe
          HealthFailures, \* failed probes in a row that end an engine
          HttpTimeout,    \* longest request to shut down
          ShutdownWait,   \* wait for an exit before the signal to terminate
          KillGrace,      \* wait after a signal
          Backoff,        \* delays before successive restarts
          RestartWindow,  \* restarts count for so long
          RestartLimit,   \* restarts allowed in a window
          ShellWait       \* how long the closing shell waits

ASSUME SupervisorAssumption ==
    /\ {ReadyBudget, HealthInterval, ProbeTimeout, HealthFailures, HttpTimeout, ShutdownWait,
        KillGrace, RestartWindow, RestartLimit, ShellWait} \subseteq Nat \ {0}
    /\ Backoff \in Seq(Nat) /\ Backoff # <<>>

VARIABLES pc,          \* where the supervisor is
          timer,       \* ticks left of its wait
          outcome,     \* why the attempt ends: "none", "stopped" or an error
          state,       \* the published state
          endpoint,    \* "none", "current" or that of an "earlier" engine
          engine,      \* "none", "starting", "serving", "stopping", "hung" or "exited"
          said,        \* the line of its output that decides the handshake, if there is one
          pipes,       \* whether the shell still reads what the engine says
          job,         \* whether a job keeps the engine busy
          signals,     \* what the engine was sent: "shutdown", "term", "kill"
          consecutive, \* failed probes in a row
          restarts,    \* ages of the restarts that still count
          restarted,   \* whether there was ever a restart
          streak,      \* restarts since the last answered probe, as far as the delays differ
          closing,     \* whether the user closed the application
          waited,      \* ticks the closing shell has waited
          shell        \* "open" or "gone"

supervisorVars == <<pc, timer, outcome, state, endpoint, engine, said, pipes, job, signals,
                    consecutive, restarts, restarted, streak, closing, waited, shell>>

process == <<engine, said, pipes, job>>
published == <<state, endpoint>>
clock == <<restarts, restarted, streak>>
app == <<closing, waited, shell>>

-----------------------------------------------------------------------------
Retryable(err) == err \notin {"not_found", "ready_malformed"}

\* Mutant: one restart too many.
ExhaustedLate == Len(restarts) > RestartLimit

\* restart_budget_exhausted()
Exhausted == Len(restarts) >= RestartLimit

\* backoff_delay(): the last delay is used for every later restart.
Delay == Backoff[streak + 1]

\* The process has not ended; a hung one does nothing any more.
Alive == engine \in {"starting", "serving", "stopping", "hung"}

\* Mutant: a new attempt keeps the endpoint of the last one.
ClearedKeeping(e) == e

\* begin_attempt() takes the endpoint back.
Cleared(e) == "none"

SupervisorInit ==
    /\ pc = "loop"
    /\ timer = 0
    /\ outcome = "none"
    /\ state = "launching"
    /\ endpoint = "none"
    /\ engine = "none" /\ said = "nothing" /\ pipes = "open" /\ job = FALSE
    /\ signals = {}
    /\ consecutive = 0
    /\ restarts = <<>>
    /\ restarted = FALSE
    /\ streak = 0
    /\ closing = FALSE
    /\ waited = 0
    /\ shell = "open"

-----------------------------------------------------------------------------
(* supervise() and attempt(): one launch. *)

LoopStopped == /\ pc = "loop" /\ closing
               /\ pc' = "done"
               /\ UNCHANGED <<timer, outcome, published, process, signals, consecutive, clock, app>>

\* The command may be missing and the spawn may fail.
Launch ==
    /\ pc = "loop" /\ ~closing
    /\ state' = IF restarted THEN "restarting" ELSE "launching"
    /\ \/ /\ engine' = "starting" /\ said' = "nothing" /\ pipes' = "open" /\ job' = FALSE
          /\ endpoint' = IF Cleared(endpoint) = "current" THEN "earlier" ELSE Cleared(endpoint)
          /\ signals' = {}
          /\ pc' = "handshake"
          /\ timer' = ReadyBudget
          /\ outcome' = "none"
       \/ /\ outcome' \in {"not_found", "spawn_failed"}
          /\ endpoint' = Cleared(endpoint)
          /\ pc' = "ended"
          /\ UNCHANGED <<process, signals, timer>>
    /\ UNCHANGED <<consecutive, clock, app>>

\* drain_lines(): of what the engine says, a line with the prefix decides.
FirstLine(line) == said = line

\* publish()
Announced == /\ pc = "handshake" /\ ~closing
             /\ FirstLine("ready")
             /\ state' = "ready"
             /\ endpoint' = "current"
             /\ consecutive' = 0
             /\ pc' = "watching"
             /\ timer' = HealthInterval
             /\ UNCHANGED <<outcome, process, signals, clock, app>>

\* Without a ready line the engine has no endpoint to ask: teardown starts
\* with the wait.
TearDownSilently(err) == /\ outcome' = err
                         /\ pc' = "waiting"
                         /\ timer' = ShutdownWait
                         /\ UNCHANGED <<published, signals, consecutive, clock, app>>

\* read_ready() is dropped, and the readers it has taken with it.
HandshakeStopped == /\ pc = "handshake" /\ closing
                    /\ TearDownSilently("stopped")
                    /\ pipes' = "closed"
                    /\ UNCHANGED <<engine, said, job>>

\* await_ready(): a bad line, both streams at their end, or no line in time.
HandshakeFailed == /\ pc = "handshake" /\ ~closing
                   /\ \/ FirstLine("malformed") /\ TearDownSilently("ready_malformed")
                      \/ /\ FirstLine("nothing") /\ ~Alive
                         /\ TearDownSilently("exited_before_ready")
                      \/ /\ FirstLine("nothing") /\ timer = 0
                         /\ TearDownSilently("ready_timeout")
                   /\ UNCHANGED process

-----------------------------------------------------------------------------
(* watch_health(): stop first, then the exit, then the next probe. *)

TearDown(err) == /\ outcome' = err
                 /\ pc' = "asking"
                 /\ timer' = HttpTimeout
                 /\ UNCHANGED <<published, process, signals, clock, app>>

WatchStopped == pc = "watching" /\ closing /\ TearDown("stopped") /\ UNCHANGED consecutive

\* Mutant: only an engine that left after a failed probe is noticed.
WatchExitedAfterFailure ==
    /\ pc = "watching" /\ ~closing
    /\ engine = "exited" /\ consecutive > 0
    /\ TearDown("health_unreachable") /\ UNCHANGED consecutive

WatchExited == /\ pc = "watching" /\ ~closing
               /\ engine = "exited"
               /\ TearDown("health_unreachable") /\ UNCHANGED consecutive

Probe == /\ pc = "watching" /\ ~closing
         /\ engine # "exited"
         /\ timer = 0
         /\ pc' = "probing"
         /\ timer' = ProbeTimeout
         /\ UNCHANGED <<outcome, published, process, signals, consecutive, clock, app>>

\* probe_health(): an engine that is stopping answers, with the wrong status.
Healthy == engine = "serving"

ProbeAnswered == /\ pc = "probing" /\ Healthy
                 /\ consecutive' = 0
                 /\ streak' = 0
                 /\ pc' = "watching"
                 /\ timer' = HealthInterval
                 /\ UNCHANGED <<outcome, published, process, signals, restarts, restarted, app>>

ProbeFailed == /\ pc = "probing"
               /\ consecutive' = consecutive + 1
               /\ IF consecutive + 1 >= HealthFailures
                  THEN TearDown("health_unreachable")
                  ELSE /\ pc' = "watching"
                       /\ timer' = HealthInterval
                       /\ UNCHANGED <<outcome, published, process, signals, clock, app>>

-----------------------------------------------------------------------------
(* teardown(): ask, wait, terminate, wait, kill, wait. *)

\* POST /v1/shutdown, and the server's handler of the signal to terminate: a
\* serving engine stops, if it hears of it.
Heard == \/ UNCHANGED process
         \/ engine = "serving" /\ engine' = "stopping" /\ UNCHANGED <<said, pipes, job>>

Sent(signal, next, wait) ==
    /\ signals' = signals \cup {signal}
    /\ pc' = next
    /\ timer' = wait
    /\ UNCHANGED <<outcome, published, consecutive, clock, app>>

\* The request to shut down is answered or fails at any time up to its limit.
Asked == pc = "asking" /\ Heard /\ Sent("shutdown", "waiting", ShutdownWait)

\* Mutant: an engine that does not exit in time is killed at once.
TerminateByKill == /\ pc = "waiting" /\ timer = 0 /\ Alive
                   /\ Sent("kill", "killed", KillGrace)
                   /\ UNCHANGED process

Terminate == /\ pc = "waiting" /\ timer = 0 /\ Alive
             /\ Heard /\ Sent("term", "terminated", KillGrace)

Kill == /\ pc = "terminated" /\ timer = 0 /\ Alive
        /\ Sent("kill", "killed", KillGrace)
        /\ UNCHANGED process

\* Mutant: the signal to terminate is taken for the end.
TornDownTrusting ==
    /\ \/ pc \in {"waiting", "terminated", "killed"} /\ engine = "exited"
       \/ pc \in {"terminated", "killed"} /\ timer = 0
    /\ pc' = "ended"
    /\ UNCHANGED <<timer, outcome, published, process, signals, consecutive, clock, app>>

\* The wait ends with the exit, or after the kill in any case.
TornDown == /\ \/ pc \in {"waiting", "terminated", "killed"} /\ engine = "exited"
               \/ pc = "killed" /\ timer = 0
            /\ pc' = "ended"
            /\ UNCHANGED <<timer, outcome, published, process, signals, consecutive, clock, app>>

-----------------------------------------------------------------------------
(* continue_after() *)

\* The supervisor returns; the state stays what it was.
EndStopped == /\ pc = "ended" /\ outcome = "stopped"
              /\ pc' = "done"
              /\ UNCHANGED <<timer, outcome, published, process, signals, consecutive, clock, app>>

GiveUp == /\ pc = "ended" /\ outcome # "stopped"
          /\ ~Retryable(outcome) \/ Exhausted
          /\ state' = "fatal"
          /\ endpoint' = "none"
          /\ pc' = "done"
          /\ UNCHANGED <<timer, outcome, process, signals, consecutive, clock, app>>

Restart == /\ pc = "ended" /\ outcome # "stopped"
           /\ Retryable(outcome) /\ ~Exhausted
           /\ restarts' = Append(restarts, 0)
           /\ streak' = IF streak + 1 < Len(Backoff) THEN streak + 1 ELSE streak
           /\ restarted' = TRUE
           /\ state' = "restarting"
           /\ endpoint' = Cleared(endpoint)
           /\ pc' = "backoff"
           /\ timer' = Delay
           /\ UNCHANGED <<outcome, process, signals, consecutive, app>>

BackoffStopped == /\ pc = "backoff" /\ closing
                  /\ pc' = "done"
                  /\ UNCHANGED <<timer, outcome, published, process, signals, consecutive, clock, app>>

BackoffOver == /\ pc = "backoff" /\ ~closing
               /\ timer = 0
               /\ pc' = "loop"
               /\ UNCHANGED <<timer, outcome, published, process, signals, consecutive, clock, app>>

-----------------------------------------------------------------------------
(* The engine: __main__._run() and its watchdog. *)

\* The port is bound and announced.  Nobody reads a line that is written once
\* the shell has let go of the pipe: the write raises, and the engine ends.
StartServing == /\ engine = "starting"
                /\ engine' = IF pipes = "open" /\ shell = "open" THEN "serving" ELSE "exited"
                /\ said' = IF engine' = "serving" /\ said = "nothing" THEN "ready" ELSE said
                /\ UNCHANGED <<pc, timer, outcome, published, pipes, job, signals, consecutive,
                               clock, app>>

\* Something else writes a line with the prefix first.
Stray == /\ engine = "starting" /\ said = "nothing"
         /\ said' = "malformed"
         /\ UNCHANGED <<pc, timer, outcome, published, engine, pipes, job, signals, consecutive,
                        clock, app>>

\* A job, as far as the engine tells (active_job_id).
JobChanges == /\ Alive /\ engine # "hung"
              /\ ~job => engine = "serving" /\ shell = "open"
              /\ job' = ~job
              /\ UNCHANGED <<pc, timer, outcome, published, engine, said, pipes, signals,
                             consecutive, clock, app>>

\* _process_alive() of the parent.
ParentGone == shell = "gone"

\* Mutant: the check for a job is the wrong way round.
WatchParentInverted == /\ engine = "serving" /\ ParentGone /\ job
                       /\ engine' = "stopping"
                       /\ UNCHANGED <<pc, timer, outcome, published, said, pipes, job, signals,
                                      consecutive, clock, app>>

\* _watch_parent(): the shell is gone and there is no job.
WatchParent == /\ engine = "serving" /\ ParentGone /\ ~job
               /\ engine' = "stopping"
               /\ UNCHANGED <<pc, timer, outcome, published, said, pipes, job, signals,
                              consecutive, clock, app>>

\* serve() drains, closes the project and returns.
Stopped == /\ engine = "stopping"
           /\ engine' = "exited" /\ job' = FALSE
           /\ UNCHANGED <<pc, timer, outcome, published, said, pipes, signals, consecutive,
                          clock, app>>

\* The engine dies, also before it has bound its port, or comes to a halt.
EngineFails == /\ Alive
               /\ \/ engine' = "exited" /\ job' = FALSE
                  \/ engine' = "hung" /\ UNCHANGED job
               /\ UNCHANGED <<pc, timer, outcome, published, said, pipes, signals, consecutive,
                              clock, app>>

Engine == StartServing \/ WatchParent \/ Stopped

-----------------------------------------------------------------------------
(* The user, the shell and the clock. *)

\* run_exit: the user closes the application; stop is sent.
Close == /\ ~closing
         /\ closing' = TRUE
         /\ UNCHANGED <<pc, timer, outcome, published, process, signals, consecutive, clock,
                        waited, shell>>

\* The shell leaves when the supervisor is done or has taken too long.
ShellExits == /\ shell = "open" /\ closing
              /\ pc = "done" \/ waited = ShellWait
              /\ shell' = "gone"
              /\ UNCHANGED <<pc, timer, outcome, published, process, signals, consecutive, clock,
                             closing, waited>>

\* The shell is killed.
ShellDies == /\ shell = "open"
             /\ shell' = "gone"
             /\ UNCHANGED <<pc, timer, outcome, published, process, signals, consecutive, clock,
                            closing, waited>>

\* The supervisor has something to do before the next tick.
Urgent == \/ pc \in {"loop", "ended"}
          \/ closing /\ pc \in {"handshake", "watching", "backoff"}
          \/ pc = "handshake" /\ (said # "nothing" \/ ~Alive)
          \/ engine = "exited" /\ pc \in {"watching", "waiting", "terminated", "killed"}

\* A stamp exactly as old as the window still counts.
Counts(age) == age + 1 <= RestartWindow

\* Restarts that still count after a tick: the newest, which come last.
Recent == Cardinality({i \in DOMAIN restarts : Counts(restarts[i])})

Tick == /\ shell = "open"
        /\ ~Urgent /\ timer > 0
        /\ pc # "done"
        /\ closing => waited < ShellWait
        /\ timer' = timer - 1
        /\ restarts' = [i \in 1..Recent |-> restarts[Len(restarts) - Recent + i] + 1]
        /\ waited' = IF closing THEN waited + 1 ELSE waited
        /\ UNCHANGED <<pc, outcome, published, process, signals, consecutive, restarted,
                       streak, closing, shell>>

Supervise == /\ shell = "open"
             /\ \/ LoopStopped \/ Launch
                \/ Announced \/ HandshakeStopped \/ HandshakeFailed
                \/ WatchStopped \/ WatchExited \/ Probe \/ ProbeAnswered \/ ProbeFailed
                \/ Asked \/ Terminate \/ Kill \/ TornDown
                \/ EndStopped \/ GiveUp \/ Restart \/ BackoffStopped \/ BackoffOver

SupervisorNext ==
    \/ Supervise \/ Engine \/ Stray \/ JobChanges \/ EngineFails
    \/ Close \/ ShellExits \/ ShellDies \/ Tick

\* The task and the timers of the shell run, and so does an engine, unless it
\* hangs.
SupervisorSpec ==
    /\ SupervisorInit /\ [][SupervisorNext]_supervisorVars
    /\ WF_supervisorVars(Supervise) /\ WF_supervisorVars(Tick)
    /\ WF_supervisorVars(ShellExits) /\ WF_supervisorVars(Engine)

-----------------------------------------------------------------------------
\* Plan 1.6: never more than RestartLimit restarts within RestartWindow, and
\* the supervisor that gives up on a retryable error has used all of them.
RestartsAreBounded ==
    /\ Len(restarts) <= RestartLimit
    /\ state = "fatal" /\ Retryable(outcome) => Len(restarts) = RestartLimit

\* The endpoint the UI is given is that of the engine now supervised, never of
\* an engine that was replaced, and the UI has one whenever it is told ready.
EndpointIsCurrent == /\ endpoint \in {"none", "current"}
                     /\ endpoint = "current" <=> state = "ready"

\* Plan 1.6: an engine is killed only after it was told to terminate and, if
\* it ever was ready, asked to shut down: it gets its chance to checkpoint.
KillIsLastResort ==
    [][/\ "kill" \in signals' \ signals => "term" \in signals
       /\ ("term" \in signals' \ signals /\ endpoint = "current") => "shutdown" \in signals]_supervisorVars

\* No engine is started, and the supervisor does not return, while an earlier
\* engine may go on working on the same projects: it has exited or was killed.
NoEngineAbandoned ==
    pc \in {"loop", "backoff", "done"} => ~Alive \/ "kill" \in signals

\* Whatever is told of an engine is told of the one that is there.
EngineIsAccountedFor == EndpointIsCurrent /\ NoEngineAbandoned

\* An engine that left while it was published is noticed: the UI is not told
\* ready for ever, while there is one.
ExitIsNoticed == (state = "ready" /\ engine = "exited") ~> (state # "ready" \/ closing \/ shell = "gone")

\* An engine that is left behind without a job ends itself, however far it has
\* come, unless it hangs.
ShellIsMissed == (shell = "gone" /\ ~job) ~> (engine \in {"none", "exited", "hung"})

\* Each side notices that the other one is gone.
LossIsNoticed == ExitIsNoticed /\ ShellIsMissed

=============================================================================
