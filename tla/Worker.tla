------------------------------- MODULE Worker -------------------------------
(***************************************************************************)
(* One text-to-speech worker: the client in the engine (tts/worker_client  *)
(* and tts/protocol), the process behind it (praelector_tts/worker) and    *)
(* the two pipes between them.                                             *)
(*                                                                         *)
(* Requests and answers are lines.  The client has one caller, sends a     *)
(* request, and reads lines until one carries the number of the request.   *)
(* The worker reads a line, works on it, and answers.  Its backend may     *)
(* write lines of its own, without end, the process may die at any time,   *)
(* and how long anything takes is open.  Time passes in ticks while the    *)
(* client waits.                                                           *)
(*                                                                         *)
(* The pipe and the queue that a reader thread fills from it are one       *)
(* sequence here: both keep the order and neither is bounded.  Answers     *)
(* carry the request they answer beside its number; the code has only the  *)
(* number.                                                                 *)
(***************************************************************************)
EXTENDS Naturals, Sequences

CONSTANTS Ops,        \* what is asked: "load", "unload", "work" and "invalid"
          ReadyLimit, \* ticks until the ready line has to be there
          CallLimit,  \* ticks until the answer to a call has to be there
          MaxCalls,   \* bound: calls
          MaxUnread   \* bound: lines not read yet, where the backend writes by itself

ASSUME WorkerAssumption == /\ Ops \subseteq {"load", "unload", "work", "invalid"}
                           /\ ReadyLimit \in Nat \ {0} /\ CallLimit \in Nat \ {0}
                           /\ MaxCalls \in Nat /\ MaxUnread \in Nat

VARIABLES caller,   \* "spawned", "free", "calling", "unready", "dead" or "gone"
          next_id,  \* the number of the next request
          left,     \* ticks until the deadline of what the client waits for
          stdin,    \* requests the worker has not read
          lines,    \* lines the client has not read
          proc,     \* "running", "exited" or "killed"
          worker,   \* booting, reading, or at work on a request
          loaded,   \* the backend holds a model
          waited,   \* history: ticks since the last call was made
          returned, \* history: every request with the answer its caller got
          strayed   \* history: the client has met a line it cannot parse

timer == <<left, waited>>
ends == <<caller, next_id, returned, strayed, timer>>
process == <<proc, worker, loaded>>
workerVars == <<ends, stdin, lines, process>>

WorkerEvent(name) == [kind |-> "event", event |-> name]

\* success() and failure() with the number of the request.
Answer(request) == [kind |-> "answer", id |-> request.id, of |-> request]

\* failure(None): a reply without a number, which parse_worker_line() rejects,
\* like anything else a library may print.
Unparsable == [kind |-> "unparsable"]

EndOfFile == [kind |-> "eof"]

Booting == [pc |-> "booting"]
Reading == [pc |-> "reading"]

WorkerInit == /\ caller = "spawned"
        /\ next_id = 1
        /\ stdin = <<>> /\ lines = <<>>
        /\ left = ReadyLimit /\ waited = 0
        /\ proc = "running" /\ worker = Booting /\ loaded = FALSE
        /\ returned = {} /\ strayed = FALSE

-----------------------------------------------------------------------------
(* WorkerClient *)

\* kill(): the process is gone when it returns, and its stdin is closed.
Killed == /\ proc' = IF proc = "running" THEN "killed" ELSE proc
          /\ stdin' = <<>>
          /\ UNCHANGED <<worker, loaded>>

\* The client waits, with a deadline for the whole of a call.
Waiting == caller \in {"spawned", "calling"}

\* Time passes; at the deadline the wait is over first.
Tick == /\ Waiting /\ left > 0
        /\ left' = left - 1 /\ waited' = waited + 1
        /\ UNCHANGED <<caller, next_id, returned, strayed, stdin, lines, process>>

\* Mutant: a worker that is late with an answer is not killed.
TimedOutForgiving == /\ Waiting /\ left = 0
                     /\ caller' = "free"
                     /\ UNCHANGED <<next_id, lines, returned, strayed, timer, stdin, process>>

\* _read_until(): no time is left, or it passed without a line.
TimedOut == /\ Waiting /\ left = 0
            /\ caller' = "dead"
            /\ Killed
            /\ UNCHANGED <<next_id, lines, returned, strayed, timer>>

\* _read_until(): a line, while there is time.
Read == /\ Waiting /\ left > 0
        /\ lines # <<>> /\ lines' = Tail(lines)

\* The worker exited before it answered.
ReadEnd == /\ Read
           /\ Head(lines) = EndOfFile
           /\ caller' = "dead"
           /\ Killed
           /\ UNCHANGED <<next_id, returned, strayed, timer>>

\* The error of parse_worker_line() leaves wait_ready() and call(), and the
\* process goes on.
ReadUnparsable == /\ Read
                  /\ Head(lines) = Unparsable
                  /\ caller' = IF caller = "spawned" THEN "unready" ELSE "free"
                  /\ strayed' = TRUE
                  /\ UNCHANGED <<next_id, returned, timer, stdin, process>>

\* wait_ready(): the first line has to be the event.
ReadReady == /\ caller = "spawned"
             /\ Read
             /\ Head(lines) = WorkerEvent("ready")
             /\ caller' = "free"
             /\ UNCHANGED <<next_id, returned, strayed, timer, stdin, process>>

ReadTooEarly == /\ caller = "spawned"
                /\ Read
                /\ Head(lines).kind \in {"event", "answer"}
                /\ Head(lines) # WorkerEvent("ready")
                /\ caller' = "dead"
                /\ Killed
                /\ UNCHANGED <<next_id, returned, strayed, timer>>

\* call(): the request goes out, and the deadline is set.  Without a process the
\* write raises, and no call follows.
Call == /\ caller = "free"
        /\ proc = "running"
        /\ next_id <= MaxCalls
        /\ \E op \in Ops : stdin' = Append(stdin, [id |-> next_id, op |-> op])
        /\ caller' = "calling"
        /\ next_id' = next_id + 1
        /\ left' = CallLimit /\ waited' = 0
        /\ UNCHANGED <<lines, returned, strayed, process>>

\* The request being waited for.
Current == next_id - 1

\* Mutant: the first answer is taken for the answer.
AnsweredByAny(line) == line.kind = "answer"

Answered(line) == line.kind = "answer" /\ line.id = Current

ReadAnswer == /\ caller = "calling"
              /\ Read
              /\ Answered(Head(lines))
              /\ caller' = "free"
              /\ returned' = returned \cup {<<Current, Head(lines).of>>}
              /\ UNCHANGED <<next_id, strayed, timer, stdin, process>>

\* Mutant: every line begins the wait anew.
SkipAnew == /\ caller = "calling"
            /\ Read
            /\ Head(lines).kind \in {"event", "answer"}
            /\ ~Answered(Head(lines))
            /\ left' = CallLimit
            /\ UNCHANGED <<caller, next_id, returned, strayed, waited, stdin, process>>

\* Events and the answers to other requests are skipped; the deadline stays.
Skip == /\ caller = "calling"
        /\ Read
        /\ Head(lines).kind \in {"event", "answer"}
        /\ ~Answered(Head(lines))
        /\ UNCHANGED <<ends, stdin, process>>

\* close(): the request to shut down is written and the process killed before
\* it has read it, or not.
Close == /\ caller \in {"free", "unready", "dead"}
         /\ caller' = "gone"
         /\ Killed
         /\ UNCHANGED <<next_id, returned, strayed, timer, lines>>

\* The engine dies: nobody reads the lines any more, and stdin ends after what
\* is in it.
EngineDies == /\ caller # "gone"
              /\ caller' = "gone"
              /\ UNCHANGED <<next_id, returned, strayed, timer, stdin, lines, process>>

-----------------------------------------------------------------------------
(* Worker *)

\* _emit(): when the engine is gone nobody reads, the write raises and the
\* process ends.
Said(line) == IF caller = "gone"
              THEN proc' = "exited" /\ UNCHANGED lines
              ELSE lines' = Append(lines, line) /\ UNCHANGED proc

\* serve(): the ready line comes first.
Boot == /\ proc = "running" /\ worker = Booting
        /\ worker' = Reading
        /\ Said(WorkerEvent("ready"))
        /\ UNCHANGED <<ends, stdin, loaded>>

TakeRequest == /\ proc = "running" /\ worker = Reading
               /\ stdin # <<>>
               /\ worker' = [pc |-> "busy", request |-> Head(stdin)]
               /\ stdin' = Tail(stdin)
               /\ UNCHANGED <<ends, lines, proc, loaded>>

AtWork == proc = "running" /\ worker.pc = "busy"

\* handle_line(): the request is no request.
Reject == /\ AtWork /\ worker.request.op = "invalid"
          /\ worker' = Reading
          /\ Said(Unparsable)
          /\ UNCHANGED <<ends, stdin, loaded>>

\* dispatch(): a success or the failure of the backend; only load and unload
\* leave something behind.
Finish == /\ AtWork /\ worker.request.op \in {"load", "unload", "work"}
          /\ worker' = Reading
          /\ Said(Answer(worker.request))
          /\ CASE worker.request.op = "load"   -> loaded' \in BOOLEAN
               [] worker.request.op = "unload" -> loaded' = FALSE
               [] OTHER                        -> loaded' = loaded
          /\ UNCHANGED <<ends, stdin>>

\* The backend reports, or a library prints, also while it is imported.
Noise == /\ proc = "running" /\ worker.pc \in {"booting", "busy"}
         /\ Len(lines) < MaxUnread
         /\ \E line \in {WorkerEvent("log"), Unparsable} : Said(line)
         /\ UNCHANGED <<ends, stdin, worker, loaded>>

\* The process ends, its memory and its end of the pipe with it.
Exited == /\ proc' = "exited"
          /\ loaded' = FALSE
          /\ lines' = IF caller = "gone" THEN lines ELSE Append(lines, EndOfFile)
          /\ UNCHANGED <<ends, stdin, worker>>

\* Mutant: the loop ends at a request to shut down, and at nothing else.
LeaveWhenAsked == /\ proc = "running" /\ worker = Reading
                  /\ stdin # <<>> /\ Head(stdin).op = "shutdown"
                  /\ Exited

\* End of stdin: the model is unloaded and the process ends.
Leave == /\ proc = "running" /\ worker = Reading
         /\ caller = "gone" /\ stdin = <<>>
         /\ Exited

\* The process dies.
Die == proc = "running" /\ Exited

Serve == Boot \/ TakeRequest \/ Leave

Receive == ReadEnd \/ ReadUnparsable \/ ReadReady \/ ReadTooEarly \/ ReadAnswer \/ Skip

WorkerNext == \/ Serve \/ Reject \/ Finish \/ Noise \/ Die
              \/ Receive \/ Tick \/ TimedOut \/ Call \/ Close \/ EngineDies

\* Time passes, the timers of the client fire, and the loop of the worker
\* runs.  A backend may never return, and it is not assumed that its lines are read.
WorkerSpec == /\ WorkerInit /\ [][WorkerNext]_workerVars
              /\ WF_workerVars(Tick) /\ WF_workerVars(TimedOut) /\ WF_workerVars(Serve)

-----------------------------------------------------------------------------
\* call(): "the matching reply".  What a caller gets is the answer to its own
\* request, also when an earlier call gave up on a line it could not parse and
\* the answer to it is still under way.
AnswerBelongs == \A r \in returned : r[2].id = r[1]

\* PLAN.md 6.2: one request in flight per worker.  A call that times out takes
\* the worker with it, so the next one cannot find it at work; but a call that
\* meets a line it cannot parse gives up and leaves its request with the
\* worker.
OneInFlight == ~strayed => Len(stdin) + (IF worker.pc = "busy" THEN 1 ELSE 0) <= 1

\* Both: requests and answers go in pairs.
CallsArePaired == AnswerBelongs /\ OneInFlight

\* call(): "A timeout kills the child".  A call comes back within its limit, with
\* an answer or an error, also from a backend that never returns, and whatever that
\* goes on writing: the limit is of the call and not of a line.
CallReturns ==
    \A n \in 1..MaxCalls :
        (caller = "calling" /\ Current = n)
            ~> (caller # "calling" /\ Current = n /\ waited <= CallLimit)

\* worker.py: a worker does not linger as an orphan when the engine dies or
\* lets go of it, unless its backend never returns.
NoOrphan == (caller = "gone") ~> (proc # "running" \/ worker.pc = "busy")

=============================================================================
