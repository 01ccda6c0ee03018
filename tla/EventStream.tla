----------------------------- MODULE EventStream -----------------------------
(***************************************************************************)
(* The event stream from the engine to the window: the bus (events.py),    *)
(* the WebSocket hub (api/v1/ws.py) and the client that watches the        *)
(* numbers (apps/ui/src/lib/ws/client.ts).                                 *)
(*                                                                         *)
(* Any thread may publish.  It takes the next number, then enters the lock *)
(* and appends to the replay buffer, then hands the event to the event     *)
(* loop, which puts it into the bounded queue of the connection.  The pump *)
(* of the connection takes events out and sends them; it says so first     *)
(* when some were dropped.  A client that sees a hole asks for the events  *)
(* since the last number in a row.  The client handles every frame in a    *)
(* function of its own, which waits for that answer while later frames go  *)
(* on arriving.                                                            *)
(*                                                                         *)
(* Events are their numbers.  Topics and pings are left out: this client   *)
(* sends neither.                                                          *)
(***************************************************************************)
EXTENDS Naturals, Sequences, FiniteSets, SequencesExt

CONSTANTS Publishers,   \* threads that publish
          OnLoop,       \* the one of them that is the thread of the event loop
          QueueSize,    \* events the queue of a connection holds
          BufferSize,   \* events the replay buffer holds
          Limit,        \* events in an answer
          Quota,        \* bound: events of every thread
          MaxConnects,  \* bound: connections
          MaxAsks       \* bound: requests for missing events under way

ASSUME StreamAssumption ==
    /\ OnLoop \subseteq Publishers /\ Cardinality(OnLoop) <= 1
    /\ QueueSize \in Nat \ {0} /\ BufferSize \in Nat \ {0} /\ Limit \in Nat \ {0}
    /\ Quota \in [Publishers -> Nat] /\ MaxConnects \in Nat /\ MaxAsks \in Nat

VARIABLES counter,    \* numbers taken
          buffer,     \* the replay buffer
          publisher,  \* what every publishing thread is doing
          callbacks,  \* events handed to the loop, with the connection they are for
          link,       \* "none", "subscribed", "open" or "closed"
          connection, \* connections so far
          queue,      \* the queue of the connection
          dropped,    \* events that did not fit since the count was last reset
          pump,       \* the event the pump holds while it sends an overflow frame
          wire,       \* frames sent and not received
          seenHello, last, applied,  \* the fields of the client
          fills,      \* its requests for missing events
          owner,      \* history: who published every number
          untold,     \* history: events dropped since the last overflow frame
          missed,     \* history: an event was dropped while one was being sent
          refused,    \* history: a request for missing events failed
          cut         \* history: an answer left events out because of its limit

bus == <<counter, buffer, publisher, callbacks, owner>>
hub == <<link, connection, queue, dropped, pump, untold, missed>>
client == <<seenHello, last, applied, fills, refused, cut>>
vars == <<bus, hub, wire, client>>

Idle == [pc |-> "idle"]

-----------------------------------------------------------------------------
\* last_seq: the number of the newest event in the buffer.
LastSeq == IF buffer = <<>> THEN 0 ELSE Last(buffer)

\* Where the buffer holds the events after a number.
After(seq) == {i \in DOMAIN buffer : buffer[i] > seq}

\* since(): the first Limit of them, in the order of the buffer.
Since(seq) == {buffer[i] : i \in {j \in After(seq) : Cardinality({k \in After(seq) : k <= j}) <= Limit}}

\* deque(maxlen): the oldest event makes room.
Pushed(buf, n) == IF Len(buf) < BufferSize THEN Append(buf, n) ELSE Append(Tail(buf), n)

\* A publisher in the loop's thread keeps the loop from doing anything else.
LoopFree == \A p \in OnLoop : publisher[p] = Idle

Init == /\ counter = 0 /\ buffer = <<>> /\ callbacks = <<>> /\ owner = <<>>
        /\ publisher = [p \in Publishers |-> Idle]
        /\ link = "none" /\ connection = 0
        /\ queue = <<>> /\ dropped = 0 /\ pump = 0
        /\ untold = {} /\ missed = FALSE
        /\ wire = <<>>
        /\ seenHello = FALSE /\ last = 0 /\ applied = <<>> /\ fills = <<>>
        /\ refused = FALSE /\ cut = FALSE

-----------------------------------------------------------------------------
(* EventBus.publish() *)

\* next(self._counter), outside the lock.
Number(p) ==
    /\ publisher[p] = Idle
    /\ p \in OnLoop => LoopFree
    /\ Cardinality({n \in DOMAIN owner : owner[n] = p}) < Quota[p]
    /\ counter' = counter + 1
    /\ owner' = Append(owner, p)
    /\ publisher' = [publisher EXCEPT ![p] = [pc |-> "numbered", seq |-> counter + 1]]
    /\ UNCHANGED <<buffer, callbacks, hub, wire, client>>

\* Inside the lock: the buffer, and who is subscribed.
Buffer(p) ==
    /\ publisher[p].pc = "numbered"
    /\ buffer' = Pushed(buffer, publisher[p].seq)
    /\ publisher' = [publisher EXCEPT ![p] =
           [pc |-> "buffered", seq |-> @.seq,
            target |-> IF link \in {"subscribed", "open"} THEN connection ELSE 0]]
    /\ UNCHANGED <<counter, callbacks, owner, hub, wire, client>>

\* Mutant: what does not fit is dropped without a count.
PutUncounted(seq) ==
    IF Len(queue) < QueueSize
    THEN queue' = Append(queue, seq) /\ UNCHANGED <<dropped, untold, missed>>
    ELSE /\ untold' = untold \cup {seq}
         /\ UNCHANGED <<queue, dropped, missed>>

\* _put()
Put(seq) ==
    IF Len(queue) < QueueSize
    THEN queue' = Append(queue, seq) /\ UNCHANGED <<dropped, untold, missed>>
    ELSE /\ dropped' = dropped + 1
         /\ untold' = untold \cup {seq}
         /\ missed' = (missed \/ pump # 0)
         /\ UNCHANGED queue

\* _deliver(): straight into the queue from the loop's own thread, over
\* call_soon_threadsafe() from any other.
Deliver(p) ==
    /\ publisher[p].pc = "buffered"
    /\ publisher' = [publisher EXCEPT ![p] = Idle]
    /\ LET target == publisher[p].target
       IN  IF p \in OnLoop
           THEN /\ IF target = connection /\ link \in {"subscribed", "open"}
                   THEN Put(publisher[p].seq)
                   ELSE UNCHANGED <<queue, dropped, untold, missed>>
                /\ UNCHANGED callbacks
           ELSE /\ callbacks' = IF target = 0 THEN callbacks
                                ELSE Append(callbacks, [to |-> target, seq |-> publisher[p].seq])
                /\ UNCHANGED <<queue, dropped, untold, missed>>
    /\ UNCHANGED <<counter, buffer, owner, link, connection, pump, wire, client>>

\* The loop runs callback i.
RunCallback(i) ==
    /\ LoopFree
    /\ link # "subscribed"
    /\ i \in DOMAIN callbacks
    /\ callbacks' = RemoveAt(callbacks, i)
    /\ IF link = "open" /\ callbacks[i].to = connection
       THEN Put(callbacks[i].seq)
       ELSE UNCHANGED <<queue, dropped, untold, missed>>
    /\ UNCHANGED <<counter, buffer, publisher, owner, link, connection, pump, wire, client>>

\* Mutant: the newest callback runs first.
RunNewest == RunCallback(Len(callbacks))

\* Callbacks run in the order they were handed over.
RunNext == RunCallback(1)

-----------------------------------------------------------------------------
(* event_stream() and _pump_events() *)

Subscribe ==
    /\ LoopFree
    /\ link \in {"none", "closed"}
    /\ connection < MaxConnects
    /\ connection' = connection + 1
    /\ link' = "subscribed"
    /\ queue' = <<>> /\ dropped' = 0 /\ pump' = 0
    /\ untold' = {} /\ missed' = FALSE
    /\ UNCHANGED <<bus, wire, client>>

\* The number is read after the subscription; threads may publish in between.
Hello ==
    /\ link = "subscribed"
    /\ link' = "open"
    /\ wire' = <<[op |-> "hello", seq |-> LastSeq]>>
    /\ UNCHANGED <<bus, connection, queue, dropped, pump, untold, missed, client>>

Frame(seq) == [op |-> "event", seq |-> seq]

\* The pump takes an event.  If some were dropped, it sends that first, and
\* waits while the transport is busy.
Get ==
    /\ LoopFree
    /\ link = "open" /\ pump = 0
    /\ queue # <<>>
    /\ queue' = Tail(queue)
    /\ IF dropped = 0
       THEN /\ wire' = Append(wire, Frame(Head(queue)))
            /\ UNCHANGED <<pump, untold>>
       ELSE /\ wire' = Append(wire, [op |-> "overflow"])
            /\ pump' = Head(queue)
            /\ untold' = {}
    /\ UNCHANGED <<bus, link, connection, dropped, missed, client>>

\* After the overflow frame: the count starts again, and the event is sent.
Told ==
    /\ LoopFree
    /\ link = "open" /\ pump # 0
    /\ dropped' = 0
    /\ wire' = Append(wire, Frame(pump))
    /\ pump' = 0
    /\ UNCHANGED <<bus, link, connection, queue, untold, missed, client>>

\* The connection is lost, with the frames under way.
Disconnect ==
    /\ link = "open"
    /\ connection < MaxConnects
    /\ link' = "closed"
    /\ wire' = <<>>
    /\ UNCHANGED <<bus, connection, queue, dropped, pump, untold, missed, client>>

-----------------------------------------------------------------------------
(* EngineEvents of the client *)

\* Mutant: one missing number is no hole.
IsGapLate(seq) == seq > last + 2

\* gapSince()
IsGap(seq) == seq > last + 1

\* fill(): the request; what comes after it depends on the frame.
Ask(frame) ==
    /\ Len(fills) < MaxAsks
    /\ fills' = Append(fills, [since |-> last, frame |-> frame, answered |-> FALSE, answer |-> {}])

\* Mutant: a newer frame is taken whatever came before it.
TakeNewer(answer, frame) ==
    LET new == {n \in answer \cup {frame} : n > last}
    IN  /\ applied' = applied \o SetToSortSeq(new, <)
        /\ last' = Max(new \cup {last})

\* The end of the run of numbers of S that starts after n.
RunEnd(n, S) == CHOOSE m \in n..counter : n+1..m \subseteq S /\ m+1 \notin S

\* take(), for the frames of an answer in the order of their numbers and then
\* for the frame itself: each is taken only if it is the next one.
Take(answer, frame) ==
    LET end == RunEnd(RunEnd(last, answer), {frame})
    IN  /\ applied' = applied \o [i \in 1..end - last |-> last + i]
        /\ last' = end

Received == wire # <<>> /\ wire' = Tail(wire)

\* The first hello says where to start; a later one may show a hole.
ReceiveHello ==
    /\ Received
    /\ Head(wire).op = "hello"
    /\ IF ~seenHello
       THEN seenHello' = TRUE /\ last' = Head(wire).seq /\ UNCHANGED fills
       ELSE /\ IF Head(wire).seq > last THEN Ask(0) ELSE UNCHANGED fills
            /\ UNCHANGED <<seenHello, last>>
    /\ UNCHANGED <<bus, hub, applied, refused, cut>>

ReceiveOverflow ==
    /\ Received
    /\ Head(wire).op = "overflow"
    /\ Ask(0)
    /\ UNCHANGED <<bus, hub, seenHello, last, applied, refused, cut>>

ReceiveEvent ==
    /\ Received
    /\ Head(wire).op = "event"
    /\ IF IsGap(Head(wire).seq)
       THEN Ask(Head(wire).seq) /\ UNCHANGED <<last, applied>>
       ELSE Take({}, Head(wire).seq) /\ UNCHANGED fills
    /\ UNCHANGED <<bus, hub, seenHello, refused, cut>>

\* The answer is worked out from the buffer.
Answer(i) ==
    /\ ~fills[i].answered
    /\ fills' = [fills EXCEPT ![i].answered = TRUE, ![i].answer = Since(fills[i].since)]
    /\ cut' = (cut \/ Cardinality(After(fills[i].since)) > Limit)
    /\ UNCHANGED <<bus, hub, wire, seenHello, last, applied, refused>>

\* The answer arrives, and after it the frame that asked is looked at again.
Filled(i) ==
    /\ fills[i].answered
    /\ Take(fills[i].answer, fills[i].frame)
    /\ fills' = RemoveAt(fills, i)
    /\ UNCHANGED <<bus, hub, wire, seenHello, refused, cut>>

\* The request fails.
Refused(i) ==
    /\ ~fills[i].answered
    /\ Take({}, fills[i].frame)
    /\ fills' = RemoveAt(fills, i)
    /\ refused' = TRUE
    /\ UNCHANGED <<bus, hub, wire, seenHello, cut>>

Next == \/ \E p \in Publishers : Number(p) \/ Buffer(p) \/ Deliver(p)
        \/ RunNext
        \/ Subscribe \/ Hello \/ Get \/ Told \/ Disconnect
        \/ ReceiveHello \/ ReceiveOverflow \/ ReceiveEvent
        \/ \E i \in DOMAIN fills : Answer(i) \/ Filled(i) \/ Refused(i)

\* Threads finish what they publish, and the loop runs what it is given.
Spec == /\ Init /\ [][Next]_vars
        /\ \A p \in Publishers : WF_vars(Buffer(p) \/ Deliver(p))
        /\ WF_vars(RunNext) /\ WF_vars(Get) /\ WF_vars(Told)

-----------------------------------------------------------------------------
\* client.ts: the frames the client applies are consecutive, however its
\* handlers, which wait for answers while later frames arrive, interleave.
AppliedInOrder == \A i \in DOMAIN applied : i > 1 => applied[i] = applied[i-1] + 1

\* The events on their way, those nearest to the client first; 0 stands for a frame that
\* carries none, and for a pump that holds none.
Path == [i \in DOMAIN wire |-> IF wire[i].op = "event" THEN wire[i].seq ELSE 0]
            \o <<pump>> \o queue \o [i \in DOMAIN callbacks |-> callbacks[i].seq]

\* events.py: the events of one publishing thread reach the client in the order
\* in which that thread published them, over lock, loop, queue and wire.
PublisherOrderKept ==
    LET path == Path
    IN  \A i, j \in DOMAIN path :
            (/\ i < j /\ path[i] # 0 /\ path[j] # 0
             /\ owner[path[i]] = owner[path[j]]) => path[i] < path[j]

\* Both: no event overtakes another, on the way or at its end.
OrderIsKept == AppliedInOrder /\ PublisherOrderKept

\* events.py: a subscriber that cannot keep up loses events and is told about
\* it: once its queue is empty every loss was followed by an overflow frame.
\* The exception is an event dropped while such a frame is being sent: the
\* count that would announce it is reset when the frame is out (ws.py:59).
LossIsTold ==
    (link = "open" /\ queue = <<>> /\ pump = 0 /\ ~missed) => untold = {}

\* Nothing is under way between the threads and the client.
Settled == /\ \A p \in Publishers : publisher[p] = Idle
           /\ callbacks = <<>> /\ queue = <<>> /\ pump = 0 /\ wire = <<>> /\ fills = <<>>

\* PLAN.md 8.1: the client misses nothing, over overflows, holes and lost
\* connections: when everything has arrived it has every event.  Needed for it
\* are that the requests for missing events are answered, and in full, that no
\* loss goes untold, that the buffer still holds what is asked for, and that the
\* threads append in the order of their numbers.
ClientCatchesUp ==
    (/\ Settled /\ link = "open"
     /\ ~refused /\ ~cut /\ ~missed
     /\ counter <= BufferSize /\ IsSorted(buffer, <)) => last = counter

=============================================================================
