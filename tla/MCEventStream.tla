---------------------------- MODULE MCEventStream ----------------------------
(* Model values for EventStream: a thread of a worker and the event loop.    *)
EXTENDS EventStream
CONSTANTS worker, loop
MCPublishers == {worker, loop}
MCOnLoop == {loop}
MCQuota == [p \in MCPublishers |-> IF p = worker THEN 3 ELSE 1]
=============================================================================
