------------------------------ MODULE JobState ------------------------------
(***************************************************************************)
(* The job state machine of engine/src/praelector/jobs/state.py: the edge  *)
(* table, the one edge that depends on the kind of job, and what an engine *)
(* start makes of a job that was in flight.  JobLog and JobRoutes step     *)
(* their records with it.                                                  *)
(***************************************************************************)

Kinds == {"prep", "record"}

JobStates ==
    {"queued", "running", "paused", "muxing", "done", "failed", "cancelled"}

Terminal == {"done", "failed", "cancelled"}

Active == {"queued", "running", "paused", "muxing"}

\* Every edge whose target does not depend on the kind: <<from, event, to>>.
Edges ==
    { <<"queued",  "start",        "running">>,
      <<"queued",  "cancel",       "cancelled">>,
      <<"running", "pause",        "paused">>,
      <<"paused",  "resume",       "running">>,
      <<"running", "stop",         "cancelled">>,
      <<"paused",  "stop",         "cancelled">>,
      <<"muxing",  "stop",         "cancelled">>,
      <<"running", "fail",         "failed">>,
      <<"paused",  "fail",         "failed">>,
      <<"muxing",  "muxed",        "done">>,
      <<"muxing",  "ffmpeg_error", "failed">> }

\* The transitions a job of the given kind may take.  An event that labels no
\* transition from the current state is job.invalid_transition.
TransitionsOf(kind) ==
    Edges \cup
    { <<"running", "rendered", IF kind = "prep" THEN "done" ELSE "muxing">> }

\* Mutant: recovery forgets that a mux can be interrupted too.
InterruptedForgetsMuxing == {"running"}

\* The states an engine start finds only if the engine died.
Interrupted == {"running", "muxing"}

\* What recovery makes of a state.
Recovered(state) == IF state \in Interrupted THEN "paused" ELSE state

=============================================================================
