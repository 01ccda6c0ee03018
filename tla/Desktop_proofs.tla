---------------------------- MODULE Desktop_proofs ----------------------------
(***************************************************************************)
(* Proofs about the two ends the desktop application has of its engine:    *)
(* the process it supervises (Supervisor) and the events it is sent        *)
(* (EventStream).  For every budget, delay and limit: the endpoint and the *)
(* engine agree, no engine is left behind, the signals come in their       *)
(* order, and the restarts stay within their budget.  For any threads,     *)
(* sizes of queue and buffer and numbers of events, connections and        *)
(* requests: the client applies what follows on what it has, no event of a *)
(* thread overtakes another of the same thread, and a loss is told unless  *)
(* it happened while another one was being told.                           *)
(***************************************************************************)
EXTENDS Supervisor, EventStream, FiniteSetTheorems, NaturalsInduction, WellFoundedInduction, TLAPS

\* What the wait, the signals and the engine have to do with one another at
\* each point of an attempt.
AttemptOrder ==
    /\ pc \in {"loop", "ended", "backoff", "done"} => ~Alive \/ "kill" \in signals
    /\ pc \in {"terminated", "killed"} => "term" \in signals
    /\ pc = "killed" => "kill" \in signals
    /\ pc = "handshake" => endpoint # "current"
    /\ pc = "waiting" /\ endpoint = "current" => "shutdown" \in signals

AttemptInv == EndpointIsCurrent /\ AttemptOrder

\* Where the supervisor has given up, nothing changes the account any more.
BudgetInv == /\ restarts \in Seq(Nat)
             /\ state = "fatal" => pc = "done"
             /\ RestartsAreBounded

-----------------------------------------------------------------------------
(* The engine and its endpoint. *)

LEMMA AttemptInit == SupervisorInit => AttemptInv
  BY DEF SupervisorInit, AttemptInv, AttemptOrder, EndpointIsCurrent, Alive

LEMMA AttemptStep == AttemptInv /\ [SupervisorNext]_supervisorVars => AttemptInv'
  <1> SUFFICES ASSUME AttemptInv, [SupervisorNext]_supervisorVars
               PROVE  AttemptInv'
    OBVIOUS
  <1> USE DEF AttemptInv, AttemptOrder, EndpointIsCurrent, Alive, process, published, clock, app
  <1>1. CASE LoopStopped
    BY <1>1 DEF LoopStopped
  <1>2. CASE Launch
    BY <1>2 DEF Launch, Cleared
  <1>3. CASE Announced
    BY <1>3 DEF Announced
  <1>4. CASE HandshakeStopped
    BY <1>4 DEF HandshakeStopped, TearDownSilently
  <1>5. CASE HandshakeFailed
    BY <1>5 DEF HandshakeFailed, TearDownSilently
  <1>6. CASE WatchStopped \/ WatchExited
    BY <1>6 DEF WatchStopped, WatchExited, TearDown
  <1>7. CASE Probe \/ ProbeAnswered
    BY <1>7 DEF Probe, ProbeAnswered
  <1>8. CASE ProbeFailed
    BY <1>8 DEF ProbeFailed, TearDown
  <1>9. CASE Asked
    BY <1>9 DEF Asked, Heard, Sent
  <1>10. CASE Terminate
    BY <1>10 DEF Terminate, Heard, Sent
  <1>11. CASE Kill
    BY <1>11 DEF Kill, Sent
  <1>12. CASE TornDown
    BY <1>12 DEF TornDown
  <1>13. CASE EndStopped \/ GiveUp
    BY <1>13 DEF EndStopped, GiveUp
  <1>14. CASE Restart
    BY <1>14 DEF Restart, Cleared
  <1>15. CASE BackoffStopped \/ BackoffOver
    BY <1>15 DEF BackoffStopped, BackoffOver
  <1>16. CASE Engine
    BY <1>16 DEF Engine, StartServing, WatchParent, Stopped
  <1>17. CASE Stray \/ JobChanges \/ EngineFails
    BY <1>17 DEF Stray, JobChanges, EngineFails
  <1>18. CASE Close \/ ShellExits \/ ShellDies
    BY <1>18 DEF Close, ShellExits, ShellDies
  <1>19. CASE Tick
    BY <1>19 DEF Tick
  <1>20. CASE UNCHANGED supervisorVars
    BY <1>20 DEF supervisorVars
  <1>. QED
    BY <1>1, <1>2, <1>3, <1>4, <1>5, <1>6, <1>7, <1>8, <1>9, <1>10, <1>11, <1>12, <1>13,
       <1>14, <1>15, <1>16, <1>17, <1>18, <1>19, <1>20 DEF SupervisorNext, Supervise

\* The endpoint is that of the engine there is, the UI has one whenever it is
\* told ready, and no engine is started beside one that may still work
\* (attempt(), teardown() and publish() of supervisor.rs).
THEOREM EngineAccounted == SupervisorSpec => []EngineIsAccountedFor
  <1>1. AttemptInv => EngineIsAccountedFor
    BY DEF AttemptInv, AttemptOrder, EngineIsAccountedFor, NoEngineAbandoned
  <1>. QED
    BY <1>1, AttemptInit, AttemptStep, PTL DEF SupervisorSpec

\* teardown() asks, then terminates, then kills, whatever the engine does.
LEMMA SignalStep ==
    AttemptInv /\ [SupervisorNext]_supervisorVars =>
        [/\ "kill" \in signals' \ signals => "term" \in signals
         /\ ("term" \in signals' \ signals /\ endpoint = "current") => "shutdown" \in signals]_supervisorVars
  <1> SUFFICES ASSUME AttemptInv, SupervisorNext
               PROVE  /\ "kill" \in signals' \ signals => "term" \in signals
                      /\ ("term" \in signals' \ signals /\ endpoint = "current")
                             => "shutdown" \in signals
    OBVIOUS
  <1> USE DEF process, published, clock, app
  <1>1. CASE signals' \subseteq signals
    BY <1>1
  <1>2. CASE Asked
    BY <1>2 DEF Asked, Sent
  <1>3. CASE Terminate
    BY <1>3 DEF Terminate, Sent, AttemptInv, AttemptOrder
  <1>4. CASE Kill
    BY <1>4 DEF Kill, Sent, AttemptInv, AttemptOrder
  <1>5. ASSUME SupervisorNext, ~Asked, ~Terminate, ~Kill
        PROVE  signals' \subseteq signals
    BY <1>5 DEF SupervisorNext, Supervise, LoopStopped, Launch, Announced, HandshakeStopped, HandshakeFailed,
       TearDownSilently, WatchStopped, WatchExited, TearDown, Probe, ProbeAnswered, ProbeFailed,
       TornDown, EndStopped, GiveUp, Restart, BackoffStopped, BackoffOver, Engine, StartServing,
       WatchParent, Stopped, Stray, JobChanges, EngineFails, Close, ShellExits, ShellDies, Tick
  <1>. QED
    BY <1>1, <1>2, <1>3, <1>4, <1>5

\* An engine is killed only after it was told to terminate, and terminated
\* only after it was asked to shut down, if it was ever published.
THEOREM KillComesLast == SupervisorSpec => KillIsLastResort
  BY AttemptInit, AttemptStep, SignalStep, PTL DEF SupervisorSpec, KillIsLastResort

-----------------------------------------------------------------------------
(* The restart budget. *)

\* The restarts that still count are some of the restarts.
LEMMA RecentBounded ==
    ASSUME restarts \in Seq(Nat)
    PROVE  Recent \in Nat /\ Recent <= Len(restarts)
  <1> DEFINE R == {i \in DOMAIN restarts : Counts(restarts[i])}
  <1>1. Len(restarts) \in Nat /\ DOMAIN restarts = 1..Len(restarts)
    OBVIOUS
  <1>2. IsFiniteSet(1..Len(restarts)) /\ Cardinality(1..Len(restarts)) = Len(restarts)
    <2>1. ASSUME NEW n \in Nat
          PROVE  IsFiniteSet(1..n) /\ Cardinality(1..n) = n
      BY FS_Interval, SMTT(30)
    <2>. QED
      BY <1>1, <2>1
  <1>3. R \subseteq 1..Len(restarts)
    BY <1>1
  <1>4. IsFiniteSet(R) /\ Cardinality(R) <= Len(restarts)
    BY <1>2, <1>3, FS_Subset
  <1>5. Cardinality(R) \in Nat
    BY <1>4, FS_CardinalityType
  <1>. QED
    BY <1>4, <1>5 DEF Recent

LEMMA BudgetInit == SupervisorInit => BudgetInv
  BY SupervisorAssumption DEF SupervisorInit, BudgetInv, RestartsAreBounded

LEMMA BudgetStep == BudgetInv /\ [SupervisorNext]_supervisorVars => BudgetInv'
  <1> SUFFICES ASSUME BudgetInv, [SupervisorNext]_supervisorVars
               PROVE  BudgetInv'
    OBVIOUS
  <1> USE DEF BudgetInv, RestartsAreBounded, process, published, clock, app
  <1>1. RestartLimit \in Nat /\ Len(restarts) \in Nat
    BY SupervisorAssumption
  <1>2. CASE LoopStopped \/ Launch
    BY <1>2 DEF LoopStopped, Launch
  <1>3. CASE Announced \/ HandshakeStopped \/ HandshakeFailed
    BY <1>3 DEF Announced, HandshakeStopped, HandshakeFailed, TearDownSilently
  <1>4. CASE WatchStopped \/ WatchExited \/ Probe \/ ProbeAnswered \/ ProbeFailed
    BY <1>4 DEF WatchStopped, WatchExited, TearDown, Probe, ProbeAnswered, ProbeFailed
  <1>5. CASE Asked \/ Terminate \/ Kill \/ TornDown
    BY <1>5 DEF Asked, Terminate, Kill, Sent, TornDown
  <1>6. CASE EndStopped \/ BackoffStopped \/ BackoffOver
    BY <1>6 DEF EndStopped, BackoffStopped, BackoffOver
  <1>7. CASE GiveUp
    <2>1. Retryable(outcome) => Len(restarts) = RestartLimit
      BY <1>1, <1>7 DEF GiveUp, Exhausted
    <2>. QED
      BY <1>7, <2>1 DEF GiveUp, Retryable
  <1>8. CASE Restart
    <2>1. Len(restarts) < RestartLimit
      BY <1>1, <1>8 DEF Restart, Exhausted
    <2>2. restarts' \in Seq(Nat) /\ Len(restarts') = Len(restarts) + 1
      BY <1>8 DEF Restart
    <2>3. state' # "fatal"
      BY <1>8 DEF Restart
    <2>. QED
      BY <1>1, <2>1, <2>2, <2>3
  <1>9. CASE Tick
    <2>1. Recent \in Nat /\ Recent <= Len(restarts)
      BY RecentBounded
    <2>2. restarts' = [i \in 1..Recent |-> restarts[Len(restarts) - Recent + i] + 1]
      BY <1>9 DEF Tick
    <2>3. ASSUME NEW i \in 1..Recent
          PROVE  restarts[Len(restarts) - Recent + i] + 1 \in Nat
      <3>1. Len(restarts) - Recent + i \in 1..Len(restarts)
        BY <1>1, <2>1
      <3>2. restarts[Len(restarts) - Recent + i] \in Nat
        BY <3>1
      <3>. QED
        BY <3>2
    <2>4. restarts' \in [1..Recent -> Nat]
      BY <2>2, <2>3
    <2>5. restarts' \in Seq(Nat) /\ Len(restarts') = Recent
      BY <2>1, <2>4
    <2>6. state' = state /\ pc' = pc /\ pc # "done"
      BY <1>9 DEF Tick
    <2>. QED
      BY <1>1, <2>1, <2>5, <2>6
  <1>10. CASE Engine \/ Stray \/ JobChanges \/ EngineFails
    BY <1>10 DEF Engine, StartServing, WatchParent, Stopped, Stray, JobChanges, EngineFails
  <1>11. CASE Close \/ ShellExits \/ ShellDies
    BY <1>11 DEF Close, ShellExits, ShellDies
  <1>12. CASE UNCHANGED supervisorVars
    BY <1>12 DEF supervisorVars
  <1>. QED
    BY <1>2, <1>3, <1>4, <1>5, <1>6, <1>7, <1>8, <1>9, <1>10, <1>11, <1>12 DEF SupervisorNext, Supervise

\* Never more than RestartLimit restarts count, and the supervisor that gives
\* up on a retryable error has used all of them (restart_budget_exhausted()).
THEOREM BudgetKept == SupervisorSpec => []RestartsAreBounded
  <1>1. BudgetInv => RestartsAreBounded
    BY DEF BudgetInv
  <1>. QED
    BY <1>1, BudgetInit, BudgetStep, PTL DEF SupervisorSpec

-----------------------------------------------------------------------------
(* The stream of events. *)

Frames(n) == [op : {"hello"}, seq : 0..n] \cup [op : {"event"}, seq : 1..n]
                \cup [op : {"overflow"}]

Handed(n) == [to : Nat, seq : 1..n]

Requests(n) == [since : 0..n, frame : 0..n, answered : BOOLEAN, answer : SUBSET (1..n)]

Publishings(n) == {Idle} \cup [pc : {"numbered"}, seq : 1..n]
                      \cup [pc : {"buffered"}, seq : 1..n, target : Nat]

\* No number is in use that was not taken.
Typed == /\ counter \in Nat
         /\ owner \in Seq(Publishers) /\ Len(owner) = counter
         /\ buffer \in Seq(1..counter)
         /\ publisher \in [Publishers -> Publishings(counter)]
         /\ callbacks \in Seq(Handed(counter))
         /\ link \in {"none", "subscribed", "open", "closed"}
         /\ connection \in Nat /\ dropped \in Nat
         /\ queue \in Seq(1..counter) /\ pump \in 0..counter
         /\ wire \in Seq(Frames(counter))
         /\ last \in 0..counter /\ applied \in Seq(Nat)
         /\ seenHello \in BOOLEAN
         /\ fills \in Seq(Requests(counter))

\* The first frame of every connection is its hello, and nothing precedes the first.
Greeted == /\ link # "open" => wire = <<>>
           /\ ~seenHello => /\ applied = <<>> /\ fills = <<>>
                            /\ link = "open" => wire # <<>> /\ Head(wire).op = "hello"

\* The client's number is that of the last frame it applied.
Applied == /\ AppliedInOrder
           /\ applied # <<>> => Last(applied) = last

\* A loss that was not told is still counted, and there is an event to send it with.
Counted == (~missed /\ untold # {}) => (dropped > 0 /\ pump = 0 /\ queue # <<>>)

-----------------------------------------------------------------------------
(* Sequences. *)

LEMMA SeqWider ==
    ASSUME NEW S, NEW T, S \subseteq T, NEW s \in Seq(S)
    PROVE  s \in Seq(T)
OBVIOUS

LEMMA TailOf ==
    ASSUME NEW T, NEW s \in Seq(T), s # <<>>
    PROVE  /\ Head(s) \in T /\ Head(s) = s[1] /\ 1 \in 1..Len(s)
           /\ Tail(s) \in Seq(T) /\ Len(s) \in Nat /\ Len(Tail(s)) = Len(s) - 1
           /\ \A k \in 1..Len(s) - 1 : Tail(s)[k] = s[k + 1]
OBVIOUS

LEMMA LastIn ==
    ASSUME NEW T, NEW s \in Seq(T), s # <<>>
    PROVE  s[Len(s)] \in T
OBVIOUS

LEMMA Longer ==
    ASSUME NEW T, NEW s \in Seq(T), NEW x \in T
    PROVE  /\ Append(s, x) \in Seq(T) /\ Len(Append(s, x)) = Len(s) + 1
           /\ Append(s, x) # <<>>
           /\ Append(s, x)[Len(s) + 1] = x
           /\ \A k \in 1..Len(s) : Append(s, x)[k] = s[k]
  <1>1. Append(s, x) \in Seq(T) /\ Len(Append(s, x)) = Len(s) + 1 /\ Len(s) \in Nat
    OBVIOUS
  <1>2. Len(Append(s, x)) # Len(<<>>)
    BY <1>1
  <1>3. /\ Append(s, x)[Len(s) + 1] = x
        /\ \A k \in 1..Len(s) : Append(s, x)[k] = s[k]
    OBVIOUS
  <1>. QED
    BY <1>1, <1>2, <1>3

LEMMA Joined ==
    ASSUME NEW T, NEW s \in Seq(T), NEW t \in Seq(T)
    PROVE  /\ s \o t \in Seq(T) /\ Len(s \o t) = Len(s) + Len(t)
           /\ \A i \in 1..Len(s) : (s \o t)[i] = s[i]
           /\ \A i \in 1..Len(t) : (s \o t)[Len(s) + i] = t[i]
OBVIOUS

LEMMA RemovedIs ==
    ASSUME NEW T, NEW s \in Seq(T), NEW i \in 1..Len(s)
    PROVE  RemoveAt(s, i) \in Seq(T)
  BY DEF RemoveAt

LEMMA FirstRemoved ==
    ASSUME NEW T, NEW s \in Seq(T), s # <<>>
    PROVE  RemoveAt(s, 1) = Tail(s)
  <1>1. /\ Len(s) \in Nat \ {0}
        /\ SubSeq(s, 1, 0) = <<>>
        /\ SubSeq(s, 2, Len(s)) = Tail(s)
    OBVIOUS
  <1>2. /\ 1 - 1 = 0 /\ 1 + 1 = 2
    OBVIOUS
  <1>3. Tail(s) \in Seq(T)
    BY TailOf
  <1>4. <<>> \o Tail(s) = Tail(s)
    BY <1>3
  <1>. QED
    BY <1>1, <1>2, <1>4 DEF RemoveAt

-----------------------------------------------------------------------------
(* take(): where a run of numbers ends. *)

LEMMA LeastExists ==
    ASSUME NEW S \in SUBSET Nat, S # {}
    PROVE  \E m \in S : \A k \in S : m <= k
  <1> DEFINE R == OpToRel(<, Nat)
  <1>1. \A x, y \in Nat : <<y, x>> \in R <=> y < x
    BY DEF OpToRel
  <1>2. IsWellFoundedOn(R, Nat)
    BY NatLessThanWellFounded
  <1>. HIDE DEF R
  <1>3. PICK x \in S : \A y \in S : <<y, x>> \notin R
    BY <1>2, WFMin
  <1>4. ASSUME NEW k \in S
        PROVE  x <= k
    <2>1. k \in Nat /\ x \in Nat
      OBVIOUS
    <2>2. ~(k < x)
      BY <1>1, <1>3, <2>1
    <2>. QED
      BY <2>1, <2>2
  <1>. QED
    BY <1>4

LEMMA RunEnds ==
    ASSUME counter \in Nat, NEW n \in 0..counter, NEW S \in SUBSET (0..counter)
    PROVE  RunEnd(n, S) \in n..counter /\ RunEnd(n, S) + 1 \notin S
  <1> DEFINE Stops == {m \in n..counter : m + 1 \notin S}
  <1>1. counter \in Stops /\ Stops \in SUBSET Nat
    OBVIOUS
  <1>2. PICK m \in Stops : \A k \in Stops : m <= k
    <2>. HIDE DEF Stops
    <2>. QED
      BY <1>1, LeastExists
  <1>3. m \in n..counter /\ m + 1 \notin S
    BY <1>2
  <1>4. ASSUME NEW k \in n+1..m
        PROVE  k \in S
    <2>1. k - 1 \in n..counter /\ k - 1 < m /\ (k - 1) + 1 = k
      BY <1>3
    <2>2. k - 1 \notin Stops
      BY <1>2, <2>1
    <2>. QED
      BY <2>1, <2>2
  <1>5. \E e \in n..counter : n+1..e \subseteq S /\ e+1 \notin S
    BY <1>3, <1>4
  <1>. QED
    BY <1>5 DEF RunEnd

\* Whatever is taken follows on what was taken before.
LEMMA TakeFollowsOn ==
    ASSUME Typed, Applied, NEW answer \in SUBSET (1..counter), NEW frame \in 0..counter,
           Take(answer, frame)
    PROVE  /\ last' \in 0..counter /\ applied' \in Seq(Nat)
           /\ Applied'
  <1> DEFINE middle == RunEnd(last, answer)
             end == RunEnd(middle, {frame})
             new == [i \in 1..end - last |-> last + i]
  <1>1. middle \in last..counter
    BY RunEnds DEF Typed
  <1>2. end \in middle..counter
    <2>1. middle \in 0..counter /\ {frame} \in SUBSET (0..counter)
      BY <1>1 DEF Typed
    <2>. HIDE DEF middle
    <2>. QED
      BY <2>1, RunEnds DEF Typed
  <1>3. end \in Nat /\ last \in Nat /\ last <= end /\ end \in 0..counter
    <2>. HIDE DEF middle, end
    <2>. QED
      BY <1>1, <1>2 DEF Typed
  <1>4. applied' = applied \o new /\ last' = end
    BY DEF Take
  <1>. HIDE DEF middle, end
  <1>5. /\ new \in Seq(Nat) /\ Len(new) = end - last
        /\ \A i \in 1..end - last : new[i] = last + i
    BY <1>3
  <1>. HIDE DEF new
  <1>6. applied \in Seq(Nat) /\ Len(applied) \in Nat
    BY DEF Typed
  <1>7. /\ applied' \in Seq(Nat)
        /\ Len(applied') = Len(applied) + (end - last)
        /\ \A i \in 1..Len(applied) : applied'[i] = applied[i]
        /\ \A i \in 1..end - last : applied'[Len(applied) + i] = last + i
    BY <1>3, <1>4, <1>5, <1>6, Joined
  <1>8. applied' # <<>> => Last(applied') = last'
    <2>1. CASE end = last
      <3>1. Len(applied') = Len(applied)
        BY <1>3, <1>6, <1>7, <2>1
      <3>2. applied' # <<>> => Len(applied) \in 1..Len(applied) /\ applied # <<>>
        BY <1>6, <1>7, <3>1
      <3>. QED
        BY <1>4, <1>7, <2>1, <3>1, <3>2 DEF Applied, Last
    <2>2. CASE end # last
      <3>1. end - last \in 1..end - last /\ last + (end - last) = end
        BY <1>3, <2>2
      <3>. QED
        BY <1>4, <1>7, <3>1 DEF Last
    <2>. QED
      BY <2>1, <2>2
  <1>9. ASSUME NEW i \in DOMAIN applied', i > 1
        PROVE  applied'[i] = applied'[i-1] + 1
    <2>1. i \in 1..Len(applied) + (end - last) /\ i - 1 \in 1..Len(applied) + (end - last)
      BY <1>3, <1>6, <1>7, <1>9
    <2>2. CASE i <= Len(applied)
      <3>1. i \in 1..Len(applied) /\ i - 1 \in 1..Len(applied)
        BY <1>6, <2>1, <2>2, <1>9
      <3>. QED
        <4>1. applied[i] = applied[i-1] + 1
          BY <1>6, <1>9, <3>1 DEF Applied, AppliedInOrder
        <4>. QED
          BY <1>7, <3>1, <4>1
    <2>3. CASE i = Len(applied) + 1
      <3>1. 1 \in 1..end - last /\ Len(applied) \in 1..Len(applied) /\ applied # <<>>
        BY <1>3, <1>6, <2>1, <2>3, <1>9
      <3>2. applied'[i] = last + 1 /\ applied'[i-1] = applied[Len(applied)] /\ applied[Len(applied)] = last
        BY <1>6, <1>7, <2>3, <3>1 DEF Applied, Last
      <3>. QED
        BY <3>2
    <2>4. CASE i > Len(applied) + 1
      <3>1. PICK j \in 1..end - last : i = Len(applied) + j /\ j > 1
        <4>1. i - Len(applied) \in 1..end - last /\ i = Len(applied) + (i - Len(applied))
              /\ i - Len(applied) > 1
          BY <1>3, <1>6, <2>1, <2>4
        <4>. QED
          BY <4>1
      <3>2. j - 1 \in 1..end - last /\ i - 1 = Len(applied) + (j - 1)
        BY <1>3, <1>6, <3>1
      <3>3. applied'[i] = last + j /\ applied'[i-1] = last + (j - 1)
        BY <1>7, <3>1, <3>2
      <3>. QED
        BY <1>3, <3>1, <3>3
    <2>. QED
      BY <1>6, <2>1, <2>2, <2>3, <2>4
  <1>10. AppliedInOrder'
    BY <1>9 DEF AppliedInOrder
  <1>. QED
    BY <1>3, <1>4, <1>7, <1>8, <1>10 DEF Applied

-----------------------------------------------------------------------------
(* What is on its way was numbered. *)

LEMMA NumbersGrow ==
    ASSUME NEW n \in Nat
    PROVE  /\ 0..n \subseteq 0..n+1 /\ 1..n \subseteq 1..n+1
           /\ Frames(n) \subseteq Frames(n+1) /\ Handed(n) \subseteq Handed(n+1)
           /\ Requests(n) \subseteq Requests(n+1) /\ Publishings(n) \subseteq Publishings(n+1)
  <1>1. 0..n \subseteq 0..n+1 /\ 1..n \subseteq 1..n+1
    OBVIOUS
  <1>. QED
    BY <1>1 DEF Frames, Handed, Requests, Publishings

LEMMA PublisherIs ==
    ASSUME Typed, NEW p \in Publishers
    PROVE  /\ publisher[p].pc \in {"numbered", "buffered"} => publisher[p].seq \in 1..counter
           /\ publisher[p].pc = "buffered" => publisher[p].target \in Nat
           /\ publisher[p].pc \in {"numbered", "buffered"} => publisher[p] # Idle
  BY DEF Typed, Publishings, Idle

LEMMA CallbackIs ==
    ASSUME Typed, NEW k \in DOMAIN callbacks
    PROVE  callbacks[k] \in Handed(counter) /\ callbacks[k].seq \in 1..counter
  <1>1. callbacks[k] \in Handed(counter)
    BY DEF Typed
  <1>. QED
    BY <1>1 DEF Handed

\* A queue that is full is not empty.
LEMMA PutIs ==
    ASSUME Typed, NEW n \in 1..counter, Put(n)
    PROVE  /\ queue' \in {queue, Append(queue, n)} /\ queue' \in Seq(1..counter)
           /\ dropped' \in Nat
           /\ UNCHANGED pump => (Counted => Counted')
  <1>1. CASE Len(queue) < QueueSize
    <2>1. queue' = Append(queue, n) /\ UNCHANGED <<dropped, untold, missed>>
      BY <1>1 DEF Put
    <2>2. Append(queue, n) # <<>> /\ Append(queue, n) \in Seq(1..counter)
      <3>1. queue \in Seq(1..counter)
        BY DEF Typed
      <3>. QED
        BY <3>1, Longer
    <2>. QED
      BY <2>1, <2>2 DEF Typed, Counted
  <1>2. CASE ~(Len(queue) < QueueSize)
    <2>1. /\ dropped' = dropped + 1 /\ missed' = (missed \/ pump # 0) /\ UNCHANGED queue
      BY <1>2 DEF Put
    <2>2. queue # <<>>
      BY <1>2, StreamAssumption
    <2>3. dropped' \in Nat /\ dropped' > 0
      BY <2>1 DEF Typed
    <2>. QED
      BY <2>1, <2>2, <2>3 DEF Typed, Counted
  <1>. QED
    BY <1>1, <1>2

StreamInv == Typed /\ Greeted /\ Applied /\ Counted

LEMMA StreamInit ==
    ASSUME Init
    PROVE  StreamInv
  <1>1. Typed
    <2>1. /\ counter = 0 /\ owner = <<>> /\ buffer = <<>> /\ callbacks = <<>> /\ queue = <<>>
          /\ wire = <<>> /\ applied = <<>> /\ fills = <<>>
          /\ link = "none" /\ connection = 0 /\ dropped = 0 /\ pump = 0 /\ last = 0
          /\ seenHello = FALSE
      BY DEF Init
    <2>2. publisher \in [Publishers -> Publishings(counter)]
      BY DEF Init, Publishings
    <2>3. /\ \A T : <<>> \in Seq(T)
          /\ Len(<<>>) = 0
      OBVIOUS
    <2>4. /\ counter \in Nat /\ connection \in Nat /\ dropped \in Nat
          /\ pump \in 0..counter /\ last \in 0..counter
      BY <2>1
    <2>5. /\ owner \in Seq(Publishers) /\ Len(owner) = counter /\ buffer \in Seq(1..counter)
          /\ callbacks \in Seq(Handed(counter)) /\ queue \in Seq(1..counter)
          /\ wire \in Seq(Frames(counter)) /\ applied \in Seq(Nat)
          /\ fills \in Seq(Requests(counter))
      BY <2>1, <2>3, Zenon
    <2>. QED
      BY <2>1, <2>2, <2>4, <2>5 DEF Typed
  <1>2. Greeted /\ Applied /\ Counted
    BY DEF Init, Greeted, Applied, AppliedInOrder, Counted
  <1>. QED
    BY <1>1, <1>2 DEF StreamInv

\* Publishing, up to the queue.
LEMMA PublishingStep ==
    ASSUME StreamInv, NEW p \in Publishers, Number(p) \/ Buffer(p) \/ Deliver(p)
    PROVE  StreamInv'
  <1>. USE DEF StreamInv
  <1>1. CASE Number(p)
    <2>. USE <1>1 DEF Number
    <2>1. UNCHANGED <<hub, wire, client, buffer, callbacks>> /\ counter' = counter + 1
      OBVIOUS
    <2>2. /\ 0..counter \subseteq 0..counter' /\ 1..counter \subseteq 1..counter'
          /\ Frames(counter) \subseteq Frames(counter') /\ Handed(counter) \subseteq Handed(counter')
          /\ Requests(counter) \subseteq Requests(counter')
          /\ Publishings(counter) \subseteq Publishings(counter')
      BY <2>1, NumbersGrow DEF Typed
    <2>3. publisher' \in [Publishers -> Publishings(counter')]
      <3>1. [pc |-> "numbered", seq |-> counter + 1] \in Publishings(counter')
        BY <2>1 DEF Typed, Publishings
      <3>. QED
        BY <2>2, <3>1 DEF Typed
    <2>4. owner' \in Seq(Publishers) /\ Len(owner') = counter'
      BY <2>1 DEF Typed
    <2>5. /\ buffer' \in Seq(1..counter') /\ queue' \in Seq(1..counter')
          /\ callbacks' \in Seq(Handed(counter')) /\ wire' \in Seq(Frames(counter'))
          /\ fills' \in Seq(Requests(counter'))
      BY <2>1, <2>2, SeqWider DEF Typed, hub, client
    <2>6. Typed'
      BY <2>1, <2>2, <2>3, <2>4, <2>5 DEF Typed, hub, client
    <2>7. Greeted' /\ Applied' /\ Counted'
      BY <2>1 DEF hub, client, Greeted, Applied, AppliedInOrder, Counted
    <2>. QED
      BY <2>6, <2>7
  <1>2. CASE Buffer(p)
    <2>. USE <1>2 DEF Buffer
    <2>1. UNCHANGED <<hub, wire, client, counter, callbacks, owner>>
      OBVIOUS
    <2>2. publisher[p].seq \in 1..counter
      BY PublisherIs
    <2>3. publisher' \in [Publishers -> Publishings(counter)]
      <3>1. [pc |-> "buffered", seq |-> publisher[p].seq,
             target |-> IF link \in {"subscribed", "open"} THEN connection ELSE 0]
                \in Publishings(counter)
        BY <2>2 DEF Typed, Publishings
      <3>. QED
        BY <3>1 DEF Typed
    <2>4. buffer' \in Seq(1..counter)
      <3>1. Append(buffer, publisher[p].seq) \in Seq(1..counter)
        BY <2>2 DEF Typed
      <3>2. ASSUME ~(Len(buffer) < BufferSize)
            PROVE  Append(Tail(buffer), publisher[p].seq) \in Seq(1..counter)
        <4>1. buffer # <<>>
          BY <3>2, StreamAssumption
        <4>. QED
          BY <2>2, <4>1, TailOf DEF Typed
      <3>. QED
        BY <3>1, <3>2 DEF Pushed
    <2>5. Typed'
      BY <2>1, <2>3, <2>4 DEF Typed, hub, client
    <2>7. Greeted' /\ Applied' /\ Counted'
      BY <2>1 DEF hub, client, Greeted, Applied, AppliedInOrder, Counted
    <2>. QED
      BY <2>5, <2>7
  <1>3. CASE Deliver(p)
    <2>. USE <1>3 DEF Deliver
    <2>1. /\ UNCHANGED <<counter, buffer, owner, link, connection, pump, wire, client>>
          /\ publisher' = [publisher EXCEPT ![p] = Idle]
      OBVIOUS
    <2>2. publisher[p].seq \in 1..counter /\ publisher[p].target \in Nat
      BY PublisherIs
    <2>3. publisher' \in [Publishers -> Publishings(counter)]
      BY <2>1 DEF Typed, Publishings
    <2>4. callbacks' \in Seq(Handed(counter))
      <3>1. [to |-> publisher[p].target, seq |-> publisher[p].seq] \in Handed(counter)
        BY <2>2 DEF Handed
      <3>2. Append(callbacks, [to |-> publisher[p].target, seq |-> publisher[p].seq])
                \in Seq(Handed(counter))
        BY <3>1 DEF Typed
      <3>. QED
        BY <3>2 DEF Typed
    <2>5. /\ queue' \in Seq(1..counter) /\ dropped' \in Nat /\ Counted'
      <3>1. Put(publisher[p].seq) \/ UNCHANGED <<queue, dropped, untold, missed>>
        OBVIOUS
      <3>2. CASE Put(publisher[p].seq)
        BY <2>1, <2>2, <3>2, PutIs
      <3>3. CASE UNCHANGED <<queue, dropped, untold, missed>>
        BY <2>1, <3>3 DEF Typed, Counted
      <3>. QED
        BY <3>1, <3>2, <3>3
    <2>6. Typed'
      BY <2>1, <2>3, <2>4, <2>5 DEF Typed, client
    <2>7. Greeted' /\ Applied'
      BY <2>1 DEF client, Greeted, Applied, AppliedInOrder
    <2>. QED
      BY <2>5, <2>6, <2>7
  <1>. QED
    BY <1>1, <1>2, <1>3

LEMMA WireGrows ==
    ASSUME Typed, NEW frame \in Frames(counter), wire' = Append(wire, frame)
    PROVE  /\ wire' \in Seq(Frames(counter)) /\ wire' # <<>>
           /\ wire # <<>> => Head(wire') = Head(wire)
  <1>1. wire \in Seq(Frames(counter)) /\ Len(wire) \in Nat
    BY DEF Typed
  <1>2. /\ wire' \in Seq(Frames(counter)) /\ wire' # <<>>
        /\ \A k \in 1..Len(wire) : wire'[k] = wire[k]
    BY <1>1, Longer
  <1>3. wire # <<>> => Head(wire) = wire[1] /\ 1 \in 1..Len(wire)
    BY <1>1
  <1>4. Head(wire') = wire'[1]
    BY <1>2
  <1>. QED
    BY <1>2, <1>3, <1>4

\* The loop and the connection.
LEMMA HubStep ==
    ASSUME StreamInv, RunNext \/ Subscribe \/ Hello \/ Get \/ Told \/ Disconnect
    PROVE  StreamInv'
  <1>. USE DEF StreamInv
  <1>1. CASE RunNext
    <2>1. /\ UNCHANGED <<counter, buffer, publisher, owner, link, connection, pump, wire, client>>
          /\ callbacks' = RemoveAt(callbacks, 1) /\ 1 \in DOMAIN callbacks
          /\ Put(callbacks[1].seq) \/ UNCHANGED <<queue, dropped, untold, missed>>
      BY <1>1 DEF RunNext, RunCallback
    <2>2. callbacks' \in Seq(Handed(counter)) /\ callbacks[1] \in Handed(counter)
      BY <2>1, RemovedIs DEF Typed
    <2>3. callbacks[1].seq \in 1..counter
      BY <2>2 DEF Handed
    <2>4. /\ queue' \in Seq(1..counter) /\ dropped' \in Nat /\ Counted'
      <3>1. CASE Put(callbacks[1].seq)
        BY <2>1, <2>3, <3>1, PutIs
      <3>2. CASE UNCHANGED <<queue, dropped, untold, missed>>
        BY <2>1, <3>2 DEF Typed, Counted
      <3>. QED
        BY <2>1, <3>1, <3>2
    <2>5. Typed'
      BY <2>1, <2>2, <2>4 DEF Typed, client
    <2>6. Greeted' /\ Applied'
      BY <2>1 DEF client, Greeted, Applied, AppliedInOrder
    <2>. QED
      BY <2>4, <2>5, <2>6
  <1>2. CASE Subscribe
    <2>1. /\ UNCHANGED <<bus, wire, client>> /\ link' = "subscribed" /\ link # "open"
          /\ connection' = connection + 1 /\ queue' = <<>> /\ dropped' = 0 /\ pump' = 0
          /\ untold' = {}
      BY <1>2 DEF Subscribe
    <2>2. \A T : <<>> \in Seq(T)
      OBVIOUS
    <2>3. /\ connection' \in Nat /\ dropped' \in Nat /\ pump' \in 0..counter
          /\ queue' \in Seq(1..counter)
      BY <2>1, <2>2 DEF Typed
    <2>4. Typed'
      BY <2>1, <2>3 DEF Typed, bus, client
    <2>5. Greeted' /\ Applied' /\ Counted'
      BY <2>1 DEF client, Greeted, Applied, AppliedInOrder, Counted
    <2>. QED
      BY <2>4, <2>5
  <1>3. CASE Hello
    <2>1. /\ link' = "open" /\ wire' = <<[op |-> "hello", seq |-> LastSeq]>>
          /\ UNCHANGED <<bus, connection, queue, dropped, pump, untold, missed, client>>
      BY <1>3 DEF Hello
    <2>2. LastSeq \in 0..counter
      <3>1. CASE buffer = <<>>
        BY <3>1 DEF LastSeq, Typed
      <3>2. CASE buffer # <<>>
        <4>1. buffer \in Seq(1..counter)
          BY DEF Typed
        <4>2. buffer[Len(buffer)] \in 1..counter
          BY <3>2, <4>1, LastIn
        <4>. QED
          BY <3>2, <4>2 DEF LastSeq, Last, Typed
      <3>. QED
        BY <3>1, <3>2
    <2>3. [op |-> "hello", seq |-> LastSeq] \in Frames(counter)
      BY <2>2 DEF Frames
    <2>4. wire' \in Seq(Frames(counter)) /\ wire' # <<>> /\ Head(wire').op = "hello"
      BY <2>1, <2>3
    <2>5. Typed'
      BY <2>1, <2>4 DEF Typed, bus, client
    <2>6. Greeted' /\ Applied' /\ Counted'
      BY <2>1, <2>4 DEF client, Greeted, Applied, AppliedInOrder, Counted
    <2>. QED
      BY <2>5, <2>6
  <1>4. CASE Get
    <2>1. /\ link = "open" /\ pump = 0 /\ queue # <<>> /\ queue' = Tail(queue)
          /\ UNCHANGED <<bus, link, connection, dropped, missed, client>>
      BY <1>4 DEF Get
    <2>2. Head(queue) \in 1..counter /\ queue' \in Seq(1..counter)
      BY <2>1, TailOf DEF Typed
    <2>3. Frame(Head(queue)) \in Frames(counter) /\ [op |-> "overflow"] \in Frames(counter)
      BY <2>2 DEF Frame, Frames
    <2>4. PICK frame \in Frames(counter) : wire' = Append(wire, frame)
      BY <1>4, <2>3 DEF Get
    <2>5. /\ wire' \in Seq(Frames(counter)) /\ wire' # <<>>
          /\ wire # <<>> => Head(wire') = Head(wire)
      BY <2>4, WireGrows
    <2>6. pump' \in 0..counter /\ (dropped = 0 => pump' = pump /\ untold' = untold)
          /\ (dropped # 0 => untold' = {})
      BY <1>4, <2>2 DEF Get, Typed
    <2>7. Typed'
      BY <2>1, <2>2, <2>5, <2>6 DEF Typed, bus, client
    <2>8. Counted'
      BY <2>1, <2>6 DEF Counted, Typed
    <2>9. Greeted' /\ Applied'
      BY <2>1, <2>5 DEF client, Greeted, Applied, AppliedInOrder
    <2>. QED
      BY <2>7, <2>8, <2>9
  <1>5. CASE Told
    <2>1. /\ link = "open" /\ pump # 0 /\ dropped' = 0 /\ pump' = 0
          /\ wire' = Append(wire, Frame(pump))
          /\ UNCHANGED <<bus, link, connection, queue, untold, missed, client>>
      BY <1>5 DEF Told
    <2>2. Frame(pump) \in Frames(counter)
      BY <2>1 DEF Frame, Frames, Typed
    <2>5. /\ wire' \in Seq(Frames(counter)) /\ wire' # <<>>
          /\ wire # <<>> => Head(wire') = Head(wire)
      BY <2>1, <2>2, WireGrows
    <2>6. dropped' \in Nat /\ pump' \in 0..counter
      BY <2>1 DEF Typed
    <2>7. Typed'
      BY <2>1, <2>5, <2>6 DEF Typed, bus, client
    <2>8. Counted'
      BY <2>1 DEF Counted
    <2>9. Greeted' /\ Applied'
      BY <2>1, <2>5 DEF client, Greeted, Applied, AppliedInOrder
    <2>. QED
      BY <2>7, <2>8, <2>9
  <1>6. CASE Disconnect
    <2>1. /\ link' = "closed" /\ wire' = <<>>
          /\ UNCHANGED <<bus, connection, queue, dropped, pump, untold, missed, client>>
      BY <1>6 DEF Disconnect
    <2>2. \A T : <<>> \in Seq(T)
      OBVIOUS
    <2>3. wire' \in Seq(Frames(counter))
      BY <2>1, <2>2
    <2>4. Typed'
      BY <2>1, <2>3 DEF Typed, bus, client
    <2>5. Greeted' /\ Applied' /\ Counted'
      BY <2>1 DEF client, Greeted, Applied, AppliedInOrder, Counted
    <2>. QED
      BY <2>4, <2>5
  <1>. QED
    BY <1>1, <1>2, <1>3, <1>4, <1>5, <1>6

\* The client.
LEMMA ClientStep ==
    ASSUME StreamInv,
           \/ ReceiveHello \/ ReceiveOverflow \/ ReceiveEvent
           \/ \E i \in DOMAIN fills : Answer(i) \/ Filled(i) \/ Refused(i)
    PROVE  StreamInv'
  <1>. USE DEF StreamInv
  <1>1. ASSUME Received, NEW f \in 0..counter, Ask(f)
        PROVE  fills' \in Seq(Requests(counter))
    <2>1. [since |-> last, frame |-> f, answered |-> FALSE, answer |-> {}] \in Requests(counter)
      BY DEF Typed, Requests
    <2>. QED
      BY <1>1, <2>1, Longer DEF Ask, Typed
  <1>2. ASSUME Received
        PROVE  /\ wire' \in Seq(Frames(counter)) /\ Head(wire) \in Frames(counter) /\ link = "open"
               /\ seenHello \/ Head(wire).op = "hello"
    BY <1>2, TailOf DEF Received, Typed, Greeted
  <1>3. ASSUME UNCHANGED <<bus, hub>>, wire' \in Seq(Frames(counter)), link = "open",
               last' \in 0..counter, seenHello' = TRUE, fills' \in Seq(Requests(counter)),
               applied' \in Seq(Nat), Applied'
        PROVE  StreamInv'
    <2>1. Typed'
      BY <1>3 DEF Typed, bus, hub
    <2>2. Greeted' /\ Counted'
      BY <1>3 DEF Greeted, Counted, hub
    <2>. QED
      BY <1>3, <2>1, <2>2
  <1>4. CASE ReceiveHello
    <2>1. /\ Received /\ Head(wire).op = "hello" /\ UNCHANGED <<bus, hub, applied, refused>>
      BY <1>4 DEF ReceiveHello
    <2>2. Head(wire).seq \in 0..counter
      BY <1>2, <2>1 DEF Frames
    <2>3. 0 \in 0..counter
      BY DEF Typed
    <2>4. CASE ~seenHello
      <3>1. seenHello' = TRUE /\ last' = Head(wire).seq /\ UNCHANGED fills
        BY <1>4, <2>4 DEF ReceiveHello
      <3>2. applied' = <<>>
        BY <2>1, <2>4 DEF Greeted
      <3>3. Applied'
        BY <3>2 DEF Applied, AppliedInOrder
      <3>. QED
        BY <1>2, <1>3, <2>1, <2>2, <3>1, <3>3 DEF Typed
    <2>5. CASE seenHello
      <3>1. (Ask(0) \/ UNCHANGED fills) /\ UNCHANGED <<seenHello, last>>
        BY <1>4, <2>5 DEF ReceiveHello
      <3>2. fills' \in Seq(Requests(counter))
        BY <1>1, <2>1, <2>3, <3>1 DEF Typed
      <3>3. Applied'
        BY <2>1, <3>1 DEF Applied, AppliedInOrder
      <3>. QED
        BY <1>2, <1>3, <2>1, <2>5, <3>1, <3>2, <3>3 DEF Typed
    <2>. QED
      BY <2>4, <2>5 DEF Typed
  <1>5. CASE ReceiveOverflow
    <2>1. /\ Received /\ Head(wire).op = "overflow" /\ Ask(0)
          /\ UNCHANGED <<bus, hub, seenHello, last, applied, refused>>
      BY <1>5 DEF ReceiveOverflow
    <2>2. 0 \in 0..counter
      BY DEF Typed
    <2>3. fills' \in Seq(Requests(counter)) /\ seenHello
      BY <1>1, <1>2, <2>1, <2>2
    <2>4. Applied'
      BY <2>1 DEF Applied, AppliedInOrder
    <2>. QED
      BY <1>2, <1>3, <2>1, <2>3, <2>4 DEF Typed
  <1>6. CASE ReceiveEvent
    <2>1. /\ Received /\ Head(wire).op = "event" /\ UNCHANGED <<bus, hub, seenHello, refused>>
      BY <1>6 DEF ReceiveEvent
    <2>2. Head(wire).seq \in 0..counter /\ {} \in SUBSET (1..counter) /\ seenHello
      BY <1>2, <2>1 DEF Frames, Typed
    <2>3. CASE Ask(Head(wire).seq) /\ UNCHANGED <<last, applied>>
      <3>1. fills' \in Seq(Requests(counter)) /\ Applied'
        BY <1>1, <2>1, <2>2, <2>3 DEF Applied, AppliedInOrder
      <3>. QED
        BY <1>2, <1>3, <2>1, <2>2, <2>3, <3>1 DEF Typed
    <2>4. CASE Take({}, Head(wire).seq) /\ UNCHANGED fills
      <3>1. last' \in 0..counter /\ applied' \in Seq(Nat) /\ Applied'
        BY <2>2, <2>4, TakeFollowsOn
      <3>. QED
        BY <1>2, <1>3, <2>1, <2>2, <2>4, <3>1 DEF Typed
    <2>. QED
      BY <1>6, <2>3, <2>4 DEF ReceiveEvent
  <1>7. ASSUME NEW i \in DOMAIN fills, Answer(i) \/ Filled(i) \/ Refused(i)
        PROVE  StreamInv'
    <2>1. /\ fills \in Seq(Requests(counter)) /\ i \in 1..Len(fills) /\ fills[i] \in Requests(counter)
          /\ fills # <<>>
      BY <1>7 DEF Typed
    <2>2. seenHello
      BY <2>1 DEF Greeted
    <2>3. /\ fills[i].frame \in 0..counter /\ fills[i].answer \in SUBSET (1..counter)
          /\ {} \in SUBSET (1..counter)
      BY <2>1 DEF Requests
    <2>4. ASSUME UNCHANGED <<bus, hub, wire, seenHello>>, last' \in 0..counter,
                 fills' \in Seq(Requests(counter)), applied' \in Seq(Nat), Applied'
          PROVE  StreamInv'
      <3>1. Typed'
        BY <2>4 DEF Typed, bus, hub
      <3>2. Greeted' /\ Counted'
        BY <2>2, <2>4 DEF Greeted, Counted, hub
      <3>. QED
        BY <2>4, <3>1, <3>2
    <2>5. CASE Answer(i)
      <3>1. /\ fills' = [fills EXCEPT ![i].answered = TRUE, ![i].answer = Since(fills[i].since)]
            /\ UNCHANGED <<bus, hub, wire, seenHello, last, applied, refused>>
        BY <2>5 DEF Answer
      <3>2. Since(fills[i].since) \in SUBSET (1..counter)
        <4>1. \A k \in DOMAIN buffer : buffer[k] \in 1..counter
          BY DEF Typed
        <4>2. \A n \in Since(fills[i].since) : \E k \in DOMAIN buffer : n = buffer[k]
          BY DEF Since, After
        <4>. QED
          BY <4>1, <4>2
      <3>3. fills' \in Seq(Requests(counter))
        <4>1. [fills[i] EXCEPT !.answered = TRUE, !.answer = Since(fills[i].since)]
                  \in Requests(counter)
          BY <2>1, <3>2 DEF Requests
        <4>2. fills' = [fills EXCEPT ![i] =
                           [fills[i] EXCEPT !.answered = TRUE, !.answer = Since(fills[i].since)]]
          BY <3>1
        <4>. QED
          BY <2>1, <4>1, <4>2
      <3>4. Applied'
        BY <3>1 DEF Applied, AppliedInOrder
      <3>. QED
        BY <2>4, <3>1, <3>3, <3>4 DEF Typed
    <2>6. CASE Filled(i)
      <3>1. /\ fills' = RemoveAt(fills, i) /\ UNCHANGED <<bus, hub, wire, seenHello, refused>>
            /\ Take(fills[i].answer, fills[i].frame)
        BY <2>6 DEF Filled
      <3>2. /\ fills' \in Seq(Requests(counter)) /\ last' \in 0..counter /\ applied' \in Seq(Nat)
            /\ Applied'
        BY <2>1, <2>3, <3>1, RemovedIs, TakeFollowsOn
      <3>. QED
        BY <2>4, <3>1, <3>2
    <2>7. CASE Refused(i)
      <3>1. /\ fills' = RemoveAt(fills, i) /\ UNCHANGED <<bus, hub, wire, seenHello>>
            /\ Take({}, fills[i].frame)
        BY <2>7 DEF Refused
      <3>2. /\ fills' \in Seq(Requests(counter)) /\ last' \in 0..counter /\ applied' \in Seq(Nat)
            /\ Applied'
        BY <2>1, <2>3, <3>1, RemovedIs, TakeFollowsOn
      <3>. QED
        BY <2>4, <3>1, <3>2
    <2>. QED
      BY <1>7, <2>5, <2>6, <2>7
  <1>. QED
    BY <1>4, <1>5, <1>6, <1>7

-----------------------------------------------------------------------------
(* The order of the events of one thread. *)

\* What a thread has in hand is newer than everything of its own on the way, and the
\* loop's own events never wait among the callbacks.
Fresh == \A p \in Publishers :
            publisher[p].pc \in {"numbered", "buffered"} =>
                /\ owner[publisher[p].seq] = p
                /\ \A i \in DOMAIN Path :
                       (Path[i] # 0 /\ owner[Path[i]] = p) => Path[i] < publisher[p].seq

OffLoop == \A k \in DOMAIN callbacks : owner[callbacks[k].seq] \notin OnLoop

OrderInv == PublisherOrderKept /\ Fresh /\ OffLoop

PathOf(w, u, q, c) == [i \in DOMAIN w |-> IF w[i].op = "event" THEN w[i].seq ELSE 0]
                          \o <<u>> \o q \o [i \in DOMAIN c |-> c[i].seq]

LEMMA PathAt ==
    ASSUME NEW n \in Nat, NEW w \in Seq(Frames(n)), NEW u \in 0..n, NEW q \in Seq(1..n),
           NEW c \in Seq(Handed(n))
    PROVE  /\ PathOf(w, u, q, c) \in Seq(0..n)
           /\ Len(PathOf(w, u, q, c)) = Len(w) + 1 + Len(q) + Len(c)
           /\ \A i \in 1..Len(w) :
                  PathOf(w, u, q, c)[i] = IF w[i].op = "event" THEN w[i].seq ELSE 0
           /\ PathOf(w, u, q, c)[Len(w) + 1] = u
           /\ \A i \in 1..Len(q) : PathOf(w, u, q, c)[Len(w) + 1 + i] = q[i]
           /\ \A i \in 1..Len(c) : PathOf(w, u, q, c)[Len(w) + 1 + Len(q) + i] = c[i].seq
  <1> DEFINE W == [i \in DOMAIN w |-> IF w[i].op = "event" THEN w[i].seq ELSE 0]
             C == [i \in DOMAIN c |-> c[i].seq]
             U == <<u>>
  <1>1. /\ W \in Seq(0..n) /\ Len(W) = Len(w) /\ Len(w) \in Nat
        /\ \A i \in 1..Len(w) : W[i] = IF w[i].op = "event" THEN w[i].seq ELSE 0
    <2>1. \A i \in 1..Len(w) : w[i] \in Frames(n)
      OBVIOUS
    <2>2. \A i \in 1..Len(w) : w[i].op = "event" => w[i].seq \in 0..n
      BY <2>1 DEF Frames
    <2>3. DOMAIN w = 1..Len(w) /\ 0 \in 0..n
      OBVIOUS
    <2>. QED
      BY <2>2, <2>3
  <1>2. /\ C \in Seq(0..n) /\ Len(C) = Len(c) /\ Len(c) \in Nat
        /\ \A i \in 1..Len(c) : C[i] = c[i].seq
    <2>1. \A i \in 1..Len(c) : c[i] \in Handed(n)
      OBVIOUS
    <2>2. \A i \in 1..Len(c) : c[i].seq \in 0..n
      BY <2>1 DEF Handed
    <2>3. DOMAIN c = 1..Len(c)
      OBVIOUS
    <2>. QED
      BY <2>2, <2>3
  <1>3. U \in Seq(0..n) /\ Len(U) = 1 /\ U[1] = u
    OBVIOUS
  <1>4. q \in Seq(0..n) /\ Len(q) \in Nat
    BY SeqWider
  <1>. HIDE DEF W, C, U
  <1>5. /\ W \o U \in Seq(0..n) /\ Len(W \o U) = Len(w) + 1
        /\ \A i \in 1..Len(w) : (W \o U)[i] = W[i]
        /\ (W \o U)[Len(w) + 1] = u
    <2>1. W \in Seq(0..n) /\ U \in Seq(0..n)
      BY <1>1, <1>3
    <2>2. /\ W \o U \in Seq(0..n) /\ Len(W \o U) = Len(W) + Len(U)
          /\ \A i \in 1..Len(W) : (W \o U)[i] = W[i]
          /\ \A i \in 1..Len(U) : (W \o U)[Len(W) + i] = U[i]
      BY <2>1, Joined
    <2>3. 1 \in 1..1
      OBVIOUS
    <2>. QED
      BY <1>1, <1>3, <2>2, <2>3
  <1>6. /\ W \o U \o q \in Seq(0..n) /\ Len(W \o U \o q) = Len(w) + 1 + Len(q)
        /\ \A i \in 1..Len(w) + 1 : (W \o U \o q)[i] = (W \o U)[i]
        /\ \A i \in 1..Len(q) : (W \o U \o q)[Len(w) + 1 + i] = q[i]
    <2> DEFINE V == W \o U
    <2>. HIDE DEF V
    <2>1. V \in Seq(0..n) /\ q \in Seq(0..n)
      BY <1>4, <1>5 DEF V
    <2>2. /\ V \o q \in Seq(0..n) /\ Len(V \o q) = Len(V) + Len(q)
          /\ \A i \in 1..Len(V) : (V \o q)[i] = V[i]
          /\ \A i \in 1..Len(q) : (V \o q)[Len(V) + i] = q[i]
      BY <2>1, Joined
    <2>3. Len(V) = Len(w) + 1
      BY <1>5 DEF V
    <2>. QED
      BY <2>2, <2>3 DEF V
  <1>7. /\ W \o U \o q \o C \in Seq(0..n)
        /\ Len(W \o U \o q \o C) = Len(w) + 1 + Len(q) + Len(c)
        /\ \A i \in 1..Len(w) + 1 + Len(q) : (W \o U \o q \o C)[i] = (W \o U \o q)[i]
        /\ \A i \in 1..Len(c) : (W \o U \o q \o C)[Len(w) + 1 + Len(q) + i] = C[i]
    <2> DEFINE V == W \o U \o q
    <2>. HIDE DEF V
    <2>1. V \in Seq(0..n) /\ C \in Seq(0..n)
      BY <1>2, <1>6 DEF V
    <2>2. /\ V \o C \in Seq(0..n) /\ Len(V \o C) = Len(V) + Len(C)
          /\ \A i \in 1..Len(V) : (V \o C)[i] = V[i]
          /\ \A i \in 1..Len(C) : (V \o C)[Len(V) + i] = C[i]
      BY <2>1, Joined
    <2>3. Len(V) = Len(w) + 1 + Len(q) /\ Len(C) = Len(c)
      BY <1>2, <1>6 DEF V
    <2>. QED
      BY <2>2, <2>3 DEF V
  <1>8. PathOf(w, u, q, c) = W \o U \o q \o C
    BY DEF PathOf, W, U, C
  <1>9. /\ \A i \in 1..Len(w) : i \in 1..Len(w) + 1 /\ i \in 1..Len(w) + 1 + Len(q)
        /\ Len(w) + 1 \in 1..Len(w) + 1 /\ Len(w) + 1 \in 1..Len(w) + 1 + Len(q)
        /\ \A i \in 1..Len(q) : Len(w) + 1 + i \in 1..Len(w) + 1 + Len(q)
    BY <1>1, <1>4
  <1>10. PathOf(w, u, q, c)[Len(w) + 1] = u
    BY <1>5, <1>6, <1>7, <1>8, <1>9
  <1>11. \A i \in 1..Len(w) :
             PathOf(w, u, q, c)[i] = IF w[i].op = "event" THEN w[i].seq ELSE 0
    BY <1>1, <1>5, <1>6, <1>7, <1>8, <1>9
  <1>12. \A i \in 1..Len(q) : PathOf(w, u, q, c)[Len(w) + 1 + i] = q[i]
    BY <1>6, <1>7, <1>8, <1>9
  <1>. QED
    BY <1>2, <1>7, <1>8, <1>10, <1>11, <1>12

LEMMA PathIs == Path = PathOf(wire, pump, queue, callbacks)
  BY DEF Path, PathOf

\* Where the pieces of the path are, before and after a step.
LEMMA PathNow ==
    ASSUME Typed
    PROVE  /\ Path \in Seq(0..counter) /\ DOMAIN Path = 1..Len(Path) /\ Len(Path) \in Nat
           /\ Len(wire) \in Nat /\ Len(queue) \in Nat /\ Len(callbacks) \in Nat
           /\ Len(Path) = Len(wire) + 1 + Len(queue) + Len(callbacks)
           /\ \A i \in 1..Len(wire) :
                  Path[i] = IF wire[i].op = "event" THEN wire[i].seq ELSE 0
           /\ Path[Len(wire) + 1] = pump
           /\ \A i \in 1..Len(queue) : Path[Len(wire) + 1 + i] = queue[i]
           /\ \A i \in 1..Len(callbacks) :
                  Path[Len(wire) + 1 + Len(queue) + i] = callbacks[i].seq
  <1>1. /\ counter \in Nat /\ wire \in Seq(Frames(counter)) /\ pump \in 0..counter
        /\ queue \in Seq(1..counter) /\ callbacks \in Seq(Handed(counter))
    BY DEF Typed
  <1> DEFINE path == PathOf(wire, pump, queue, callbacks)
  <1>2. /\ path \in Seq(0..counter)
        /\ Len(path) = Len(wire) + 1 + Len(queue) + Len(callbacks)
        /\ \A i \in 1..Len(wire) :
               path[i] = IF wire[i].op = "event" THEN wire[i].seq ELSE 0
        /\ path[Len(wire) + 1] = pump
        /\ \A i \in 1..Len(queue) : path[Len(wire) + 1 + i] = queue[i]
        /\ \A i \in 1..Len(callbacks) :
               path[Len(wire) + 1 + Len(queue) + i] = callbacks[i].seq
    BY <1>1, PathAt
  <1>3. Path = path
    BY PathIs
  <1>. HIDE DEF path
  <1>4. DOMAIN path = 1..Len(path) /\ Len(path) \in Nat
    BY <1>2
  <1>5. Len(wire) \in Nat /\ Len(queue) \in Nat /\ Len(callbacks) \in Nat
    BY <1>1
  <1>. QED
    BY <1>2, <1>3, <1>4, <1>5

LEMMA PathThen ==
    ASSUME Typed'
    PROVE  /\ Path' \in Seq(0..counter') /\ DOMAIN Path' = 1..Len(Path') /\ Len(Path') \in Nat
           /\ Len(wire') \in Nat /\ Len(queue') \in Nat /\ Len(callbacks') \in Nat
           /\ Len(Path') = Len(wire') + 1 + Len(queue') + Len(callbacks')
           /\ \A i \in 1..Len(wire') :
                  Path'[i] = IF wire'[i].op = "event" THEN wire'[i].seq ELSE 0
           /\ Path'[Len(wire') + 1] = pump'
           /\ \A i \in 1..Len(queue') : Path'[Len(wire') + 1 + i] = queue'[i]
           /\ \A i \in 1..Len(callbacks') :
                  Path'[Len(wire') + 1 + Len(queue') + i] = callbacks'[i].seq
  <1>1. /\ counter' \in Nat /\ wire' \in Seq(Frames(counter')) /\ pump' \in 0..counter'
        /\ queue' \in Seq(1..counter') /\ callbacks' \in Seq(Handed(counter'))
    BY DEF Typed
  <1> DEFINE path == PathOf(wire', pump', queue', callbacks')
  <1>2. /\ path \in Seq(0..counter')
        /\ Len(path) = Len(wire') + 1 + Len(queue') + Len(callbacks')
        /\ \A i \in 1..Len(wire') :
               path[i] = IF wire'[i].op = "event" THEN wire'[i].seq ELSE 0
        /\ path[Len(wire') + 1] = pump'
        /\ \A i \in 1..Len(queue') : path[Len(wire') + 1 + i] = queue'[i]
        /\ \A i \in 1..Len(callbacks') :
               path[Len(wire') + 1 + Len(queue') + i] = callbacks'[i].seq
    BY <1>1, PathAt
  <1>3. Path' = path
    BY DEF Path, PathOf
  <1>. HIDE DEF path
  <1>4. DOMAIN path = 1..Len(path) /\ Len(path) \in Nat
    BY <1>2
  <1>5. Len(wire') \in Nat /\ Len(queue') \in Nat /\ Len(callbacks') \in Nat
    BY <1>1
  <1>. QED
    BY <1>2, <1>3, <1>4, <1>5

\* Everything on the way was numbered, so its publisher is known.
LEMMA OwnerKnown ==
    ASSUME Typed, NEW i \in DOMAIN Path, Path[i] # 0
    PROVE  Path[i] \in 1..counter /\ owner[Path[i]] \in Publishers
  <1>1. Path \in Seq(0..counter) /\ counter \in Nat
    BY PathNow DEF Typed
  <1>2. Path[i] \in 0..counter
    BY <1>1
  <1>3. Path[i] \in 1..counter
    BY <1>1, <1>2
  <1>. QED
    BY <1>3 DEF Typed

\* A path that only loses events keeps its order.  Place f[i] of the old path is where
\* the event at place i of the new one was.
LEMMA Thinner ==
    ASSUME Typed, Typed', OrderInv, UNCHANGED <<publisher, owner>>, OffLoop',
           NEW f \in [1..Len(Path') -> 1..Len(Path)],
           \A i \in 1..Len(Path') : Path'[i] # 0 => Path'[i] = Path[f[i]],
           \A i, j \in 1..Len(Path') :
               (i < j /\ Path'[i] # 0 /\ Path'[j] # 0) => f[i] < f[j]
    PROVE  OrderInv'
  <1>1. DOMAIN Path = 1..Len(Path)
    BY PathNow
  <1>2. DOMAIN Path' = 1..Len(Path')
    BY PathThen
  <1>3. PublisherOrderKept'
    <2>. SUFFICES ASSUME NEW i \in 1..Len(Path'), NEW j \in 1..Len(Path'),
                         i < j, Path'[i] # 0, Path'[j] # 0,
                         owner'[Path'[i]] = owner'[Path'[j]]
                  PROVE  Path'[i] < Path'[j]
      BY <1>2 DEF PublisherOrderKept
    <2>1. f[i] \in DOMAIN Path /\ f[j] \in DOMAIN Path /\ f[i] < f[j]
      BY <1>1
    <2>2. Path'[i] = Path[f[i]] /\ Path'[j] = Path[f[j]]
      OBVIOUS
    <2>. QED
      BY <2>1, <2>2 DEF OrderInv, PublisherOrderKept
  <1>4. Fresh'
    <2>. SUFFICES ASSUME NEW p \in Publishers, publisher[p].pc \in {"numbered", "buffered"}
                  PROVE  /\ owner[publisher[p].seq] = p
                         /\ \A i \in 1..Len(Path') :
                                (Path'[i] # 0 /\ owner[Path'[i]] = p)
                                    => Path'[i] < publisher[p].seq
      BY <1>2 DEF Fresh
    <2>1. \A i \in 1..Len(Path') : Path'[i] # 0 => f[i] \in DOMAIN Path /\ Path'[i] = Path[f[i]]
      BY <1>1
    <2>. QED
      BY <2>1 DEF OrderInv, Fresh
  <1>. QED
    BY <1>3, <1>4 DEF OrderInv

LEMMA OrderInit ==
    ASSUME Init
    PROVE  OrderInv
  <1>1. Typed
    BY StreamInit DEF StreamInv
  <1>2. /\ wire = <<>> /\ queue = <<>> /\ callbacks = <<>> /\ pump = 0
        /\ publisher = [p \in Publishers |-> Idle]
    BY DEF Init
  <1>3. Len(Path) = 1
    <2>1. Len(<<>>) = 0
      OBVIOUS
    <2>2. Len(wire) = 0 /\ Len(queue) = 0 /\ Len(callbacks) = 0
      BY <1>2, <2>1
    <2>3. Len(Path) = Len(wire) + 1 + Len(queue) + Len(callbacks)
      BY <1>1, PathNow
    <2>. QED
      BY <2>2, <2>3
  <1>4. PublisherOrderKept
    BY <1>1, <1>3, PathNow DEF PublisherOrderKept
  <1>5. Fresh /\ OffLoop
    BY <1>2 DEF Fresh, OffLoop, Idle
  <1>. QED
    BY <1>4, <1>5 DEF OrderInv

\* The number is the largest there is.
LEMMA NumberKeepsOrder ==
    ASSUME Typed, Typed', OrderInv, NEW p \in Publishers, Number(p)
    PROVE  OrderInv'
  <1>1. /\ counter' = counter + 1 /\ owner' = Append(owner, p)
        /\ publisher' = [publisher EXCEPT ![p] = [pc |-> "numbered", seq |-> counter + 1]]
        /\ UNCHANGED <<wire, pump, queue, callbacks>>
    BY DEF Number, hub
  <1>2. Path' = Path
    BY <1>1, PathIs DEF PathOf, Path
  <1>3. /\ counter \in Nat /\ owner \in Seq(Publishers) /\ Len(owner) = counter
    BY DEF Typed
  <1>4. /\ owner'[counter + 1] = p
        /\ \A n \in 1..counter : owner'[n] = owner[n]
    BY <1>1, <1>3
  <1>5. \A i \in DOMAIN Path : Path[i] # 0 => Path[i] \in 1..counter
    BY OwnerKnown
  <1>6. PublisherOrderKept'
    BY <1>2, <1>4, <1>5 DEF OrderInv, PublisherOrderKept
  <1>7. OffLoop'
    <2>1. \A k \in DOMAIN callbacks : callbacks[k].seq \in 1..counter
      BY CallbackIs
    <2>. QED
      BY <1>1, <1>4, <2>1 DEF OrderInv, OffLoop
  <1>8. Fresh'
    <2>. SUFFICES ASSUME NEW x \in Publishers,
                         publisher'[x].pc \in {"numbered", "buffered"}
                  PROVE  /\ owner'[publisher'[x].seq] = x
                         /\ \A i \in DOMAIN Path :
                                (Path[i] # 0 /\ owner'[Path[i]] = x) => Path[i] < publisher'[x].seq
      BY <1>2 DEF Fresh
    <2>1. publisher \in [Publishers -> Publishings(counter)]
      BY DEF Typed
    <2>2. CASE x = p
      <3>1. publisher'[x].seq = counter + 1
        BY <1>1, <2>1, <2>2
      <3>. QED
        BY <1>3, <1>4, <1>5, <2>2, <3>1
    <2>3. CASE x # p
      <3>1. publisher'[x] = publisher[x]
        BY <1>1, <2>1, <2>3
      <3>2. publisher[x].seq \in 1..counter
        BY <3>1, PublisherIs
      <3>. QED
        BY <1>4, <1>5, <3>1, <3>2 DEF OrderInv, Fresh
    <2>. QED
      BY <2>2, <2>3
  <1>. QED
    BY <1>6, <1>7, <1>8 DEF OrderInv

LEMMA BufferKeepsOrder ==
    ASSUME Typed, Typed', OrderInv, NEW p \in Publishers, Buffer(p)
    PROVE  OrderInv'
  <1>1. /\ UNCHANGED <<owner, wire, pump, queue, callbacks>> /\ publisher[p].pc = "numbered"
    BY DEF Buffer, hub
  <1>2. Path' = Path
    BY <1>1, PathIs DEF PathOf, Path
  <1>3. publisher \in [Publishers -> Publishings(counter)]
    BY DEF Typed
  <1>4. \A x \in Publishers : /\ publisher'[x].seq = publisher[x].seq
                              /\ publisher'[x].pc \in {"numbered", "buffered"}
                                     => publisher[x].pc \in {"numbered", "buffered"}
    BY <1>1, <1>3 DEF Buffer
  <1>5. Fresh'
    BY <1>1, <1>2, <1>4 DEF OrderInv, Fresh
  <1>. QED
    BY <1>1, <1>2, <1>5 DEF OrderInv, PublisherOrderKept, OffLoop

\* An event that enters the path at place k, with none of its publisher behind it.
LEMMA Inserted ==
    ASSUME Typed, Typed', OrderInv, UNCHANGED owner, OffLoop',
           NEW p \in Publishers, publisher[p].pc = "buffered",
           publisher' = [publisher EXCEPT ![p] = Idle],
           NEW k \in 1..Len(Path) + 1, Len(Path') = Len(Path) + 1,
           Path'[k] = publisher[p].seq,
           \A i \in 1..Len(Path) : i < k => Path'[i] = Path[i],
           \A i \in 1..Len(Path) : i >= k => /\ Path'[i + 1] = Path[i]
                                             /\ Path[i] # 0 => owner[Path[i]] # p
    PROVE  OrderInv'
  <1>1. DOMAIN Path = 1..Len(Path) /\ Len(Path) \in Nat
    BY PathNow
  <1>2. DOMAIN Path' = 1..Len(Path')
    BY PathThen
  <1>3. publisher[p].seq \in 1..counter /\ owner[publisher[p].seq] = p
    BY PublisherIs DEF OrderInv, Fresh
  <1>4. ASSUME NEW i \in 1..Len(Path')
        PROVE  \/ i = k
               \/ i < k /\ i \in 1..Len(Path) /\ Path'[i] = Path[i]
               \/ i > k /\ i - 1 \in 1..Len(Path) /\ Path'[i] = Path[i - 1]
                        /\ (Path[i - 1] # 0 => owner[Path[i - 1]] # p)
    <2>1. CASE i < k
      BY <1>1, <2>1
    <2>2. CASE i > k
      <3>1. i - 1 \in 1..Len(Path) /\ i - 1 >= k /\ (i - 1) + 1 = i
        BY <1>1, <2>2
      <3>. QED
        BY <2>2, <3>1
    <2>. QED
      BY <1>1, <2>1, <2>2
  <1>5. PublisherOrderKept'
    <2>. SUFFICES ASSUME NEW i \in 1..Len(Path'), NEW j \in 1..Len(Path'),
                         i < j, Path'[i] # 0, Path'[j] # 0,
                         owner[Path'[i]] = owner[Path'[j]]
                  PROVE  Path'[i] < Path'[j]
      BY <1>2 DEF PublisherOrderKept
    <2>1. CASE j = k
      <3>1. i \in DOMAIN Path /\ Path'[i] = Path[i]
        BY <1>1, <2>1
      <3>. QED
        BY <1>3, <2>1, <3>1 DEF OrderInv, Fresh
    <2>2. CASE i = k
      BY <1>1, <1>3, <1>4, <2>2
    <2>3. CASE i # k /\ j # k
      <3>1. \E a, b \in DOMAIN Path : a < b /\ Path'[i] = Path[a] /\ Path'[j] = Path[b]
        <4>1. CASE j < k
          <5>1. i \in DOMAIN Path /\ j \in DOMAIN Path
            BY <1>1, <4>1
          <5>. QED
            BY <1>1, <4>1, <5>1
        <4>2. CASE i < k /\ j > k
          <5>1. i \in DOMAIN Path /\ j - 1 \in DOMAIN Path /\ i < j - 1
            BY <1>1, <4>2
          <5>2. Path'[i] = Path[i] /\ Path'[j] = Path[j - 1]
            BY <1>4, <4>2
          <5>. QED
            BY <5>1, <5>2
        <4>3. CASE i > k
          <5>1. i - 1 \in DOMAIN Path /\ j - 1 \in DOMAIN Path /\ i - 1 < j - 1
            BY <1>1, <4>3
          <5>2. Path'[i] = Path[i - 1] /\ Path'[j] = Path[j - 1]
            BY <1>4, <4>3
          <5>. QED
            BY <5>1, <5>2
        <4>. QED
          BY <1>1, <2>3, <4>1, <4>2, <4>3
      <3>. QED
        BY <3>1 DEF OrderInv, PublisherOrderKept
    <2>. QED
      BY <2>1, <2>2, <2>3
  <1>6. Fresh'
    <2>. SUFFICES ASSUME NEW x \in Publishers, publisher'[x].pc \in {"numbered", "buffered"}
                  PROVE  /\ owner[publisher'[x].seq] = x
                         /\ \A i \in 1..Len(Path') :
                                (Path'[i] # 0 /\ owner[Path'[i]] = x)
                                    => Path'[i] < publisher'[x].seq
      BY <1>2 DEF Fresh
    <2>1. publisher \in [Publishers -> Publishings(counter)]
      BY DEF Typed
    <2>2. x # p /\ publisher'[x] = publisher[x]
      BY <2>1 DEF Idle
    <2>3. /\ owner[publisher[x].seq] = x
          /\ \A i \in DOMAIN Path :
                 (Path[i] # 0 /\ owner[Path[i]] = x) => Path[i] < publisher[x].seq
      BY <2>2 DEF OrderInv, Fresh
    <2>4. ASSUME NEW i \in 1..Len(Path'), Path'[i] # 0, owner[Path'[i]] = x
          PROVE  \E a \in DOMAIN Path : Path'[i] = Path[a]
      BY <1>1, <1>3, <1>4, <2>2, <2>4
    <2>. QED
      BY <2>2, <2>3, <2>4
  <1>. QED
    BY <1>5, <1>6 DEF OrderInv

\* A thread that is done with its event leaves the rest of the path as it is.
LEMMA Dropped ==
    ASSUME Typed, Typed', OrderInv, UNCHANGED owner, OffLoop', Path' = Path,
           NEW p \in Publishers, publisher' = [publisher EXCEPT ![p] = Idle]
    PROVE  OrderInv'
  <1>1. publisher \in [Publishers -> Publishings(counter)]
    BY DEF Typed
  <1>2. \A x \in Publishers : publisher'[x].pc \in {"numbered", "buffered"}
                                  => publisher'[x] = publisher[x]
    BY <1>1 DEF Idle
  <1>3. Fresh'
    BY <1>2 DEF OrderInv, Fresh
  <1>. QED
    BY <1>3 DEF OrderInv, PublisherOrderKept

LEMMA DeliverKeepsOrder ==
    ASSUME Typed, Typed', OrderInv, NEW p \in Publishers, Deliver(p)
    PROVE  OrderInv'
  <1> DEFINE n == publisher[p].seq
             target == publisher[p].target
  <1>1. /\ publisher[p].pc = "buffered" /\ publisher' = [publisher EXCEPT ![p] = Idle]
        /\ UNCHANGED <<owner, pump, wire>>
        /\ n \in 1..counter /\ owner[n] = p /\ target \in Nat
    BY PublisherIs DEF Deliver, OrderInv, Fresh
  <1>2. /\ Len(wire) \in Nat /\ Len(queue) \in Nat /\ Len(callbacks) \in Nat
        /\ DOMAIN callbacks = 1..Len(callbacks)
    BY DEF Typed
  <1>3. CASE UNCHANGED <<queue, callbacks>>
    <2>1. Path' = Path
      BY <1>1, <1>3, PathIs DEF Path, PathOf
    <2>2. OffLoop'
      BY <1>1, <1>3 DEF OrderInv, OffLoop
    <2>. QED
      BY <1>1, <2>1, <2>2, Dropped
  <1>4. CASE p \in OnLoop /\ queue' = Append(queue, n) /\ UNCHANGED callbacks
    <2>1. /\ Len(queue') = Len(queue) + 1 /\ queue'[Len(queue) + 1] = n
          /\ \A i \in 1..Len(queue) : queue'[i] = queue[i]
      <3>1. queue \in Seq(1..counter)
        BY DEF Typed
      <3>. QED
        BY <1>1, <1>4, <3>1, Longer
    <2>2. OffLoop'
      BY <1>1, <1>4 DEF OrderInv, OffLoop
    <2> DEFINE k == Len(wire) + 1 + Len(queue) + 1
    <2>3. /\ Len(Path) = Len(wire) + 1 + Len(queue) + Len(callbacks)
          /\ Len(Path') = Len(wire) + 1 + Len(queue') + Len(callbacks)
      BY <1>1, <1>4, PathNow, PathThen
    <2>4. k \in 1..Len(Path) + 1 /\ Len(Path') = Len(Path) + 1
      BY <1>2, <2>1, <2>3
    <2>5. Path'[k] = n
      <3>1. \A i \in 1..Len(queue') : Path'[Len(wire) + 1 + i] = queue'[i]
        BY <1>1, PathThen
      <3>2. Len(queue) + 1 \in 1..Len(queue') /\ k = Len(wire) + 1 + (Len(queue) + 1)
        BY <1>2, <2>1
      <3>. QED
        BY <2>1, <3>1, <3>2
    <2>6. ASSUME NEW i \in 1..Len(Path), i < k
          PROVE  Path'[i] = Path[i]
      <3>1. CASE i \in 1..Len(wire)
        <4>1. Path[i] = (IF wire[i].op = "event" THEN wire[i].seq ELSE 0)
          BY <3>1, PathNow
        <4>2. Path'[i] = (IF wire[i].op = "event" THEN wire[i].seq ELSE 0)
          BY <1>1, <3>1, PathThen
        <4>. QED
          BY <4>1, <4>2
      <3>2. CASE i = Len(wire) + 1
        BY <1>1, <3>2, PathNow, PathThen
      <3>3. CASE i > Len(wire) + 1
        <4>1. PICK j \in 1..Len(queue) : i = Len(wire) + 1 + j
          <5>1. i - (Len(wire) + 1) \in 1..Len(queue)
                /\ i = Len(wire) + 1 + (i - (Len(wire) + 1))
            BY <1>2, <2>6, <3>3
          <5>. QED
            BY <5>1
        <4>2. Path[i] = queue[j]
          BY <4>1, PathNow
        <4>3. j \in 1..Len(queue') /\ queue'[j] = queue[j]
          BY <1>2, <2>1
        <4>4. Path'[i] = queue'[j]
          BY <1>1, <4>1, <4>3, PathThen
        <4>. QED
          BY <4>2, <4>3, <4>4
      <3>. QED
        BY <1>2, <2>3, <3>1, <3>2, <3>3
    <2>7. ASSUME NEW i \in 1..Len(Path), i >= k
          PROVE  /\ Path'[i + 1] = Path[i]
                 /\ Path[i] # 0 => owner[Path[i]] # p
      <3>1. PICK j \in 1..Len(callbacks) : i = Len(wire) + 1 + Len(queue) + j
        <4>1. i - (Len(wire) + 1 + Len(queue)) \in 1..Len(callbacks)
              /\ i = Len(wire) + 1 + Len(queue) + (i - (Len(wire) + 1 + Len(queue)))
          BY <1>2, <2>3, <2>7
        <4>. QED
          BY <4>1
      <3>2. Path[i] = callbacks[j].seq
        BY <3>1, PathNow
      <3>3. i + 1 = Len(wire) + 1 + Len(queue') + j
        BY <1>2, <2>1, <3>1
      <3>4. Path'[i + 1] = callbacks[j].seq
        BY <1>1, <1>4, <3>3, PathThen
      <3>5. owner[callbacks[j].seq] \notin OnLoop
        BY <1>2 DEF OrderInv, OffLoop
      <3>. QED
        BY <1>4, <3>2, <3>4, <3>5
    <2>. HIDE DEF k
    <2>. QED
      BY <1>1, <2>2, <2>4, <2>5, <2>6, <2>7, Inserted
  <1>5. CASE p \notin OnLoop /\ callbacks' = Append(callbacks, [to |-> target, seq |-> n])
             /\ UNCHANGED queue
    <2>1. /\ Len(callbacks') = Len(callbacks) + 1 /\ callbacks'[Len(callbacks) + 1].seq = n
          /\ \A i \in 1..Len(callbacks) : callbacks'[i] = callbacks[i]
          /\ DOMAIN callbacks' = 1..Len(callbacks) + 1
      <3>1. callbacks \in Seq(Handed(counter)) /\ [to |-> target, seq |-> n] \in Handed(counter)
        BY <1>1 DEF Typed, Handed
      <3>2. callbacks' \in Seq(Handed(counter))
        BY <1>5, <3>1, Longer
      <3>. QED
        BY <1>5, <3>1, <3>2, Longer
    <2>2. OffLoop'
      <3>. SUFFICES ASSUME NEW j \in 1..Len(callbacks) + 1
                    PROVE  owner[callbacks'[j].seq] \notin OnLoop
        BY <1>1, <2>1 DEF OffLoop
      <3>1. CASE j = Len(callbacks) + 1
        BY <1>1, <1>5, <2>1, <3>1
      <3>2. CASE j # Len(callbacks) + 1
        <4>1. j \in 1..Len(callbacks)
          BY <1>2, <3>2
        <4>. QED
          BY <1>2, <2>1, <4>1 DEF OrderInv, OffLoop
      <3>. QED
        BY <3>1, <3>2
    <2> DEFINE k == Len(Path) + 1
    <2>3. /\ Len(Path) = Len(wire) + 1 + Len(queue) + Len(callbacks) /\ Len(Path) \in Nat
          /\ Len(Path') = Len(wire) + 1 + Len(queue) + Len(callbacks')
      BY <1>1, <1>5, PathNow, PathThen
    <2>4. k \in 1..Len(Path) + 1 /\ Len(Path') = Len(Path) + 1
      BY <1>2, <2>1, <2>3
    <2>5. Path'[k] = n
      <3>1. \A i \in 1..Len(callbacks') :
                Path'[Len(wire) + 1 + Len(queue) + i] = callbacks'[i].seq
        BY <1>1, <1>5, PathThen
      <3>2. Len(callbacks) + 1 \in 1..Len(callbacks')
            /\ k = Len(wire) + 1 + Len(queue) + (Len(callbacks) + 1)
        BY <1>2, <2>1, <2>3
      <3>. QED
        BY <2>1, <3>1, <3>2
    <2>6. ASSUME NEW i \in 1..Len(Path)
          PROVE  Path'[i] = Path[i]
      <3>1. CASE i \in 1..Len(wire)
        <4>1. Path[i] = (IF wire[i].op = "event" THEN wire[i].seq ELSE 0)
          BY <3>1, PathNow
        <4>2. Path'[i] = (IF wire[i].op = "event" THEN wire[i].seq ELSE 0)
          BY <1>1, <3>1, PathThen
        <4>. QED
          BY <4>1, <4>2
      <3>2. CASE i = Len(wire) + 1
        BY <1>1, <3>2, PathNow, PathThen
      <3>3. CASE \E j \in 1..Len(queue) : i = Len(wire) + 1 + j
        <4>1. PICK j \in 1..Len(queue) : i = Len(wire) + 1 + j
          BY <3>3
        <4>2. Path[i] = queue[j]
          BY <4>1, PathNow
        <4>3. Path'[i] = queue[j]
          BY <1>1, <1>5, <4>1, PathThen
        <4>. QED
          BY <4>2, <4>3
      <3>4. CASE \E j \in 1..Len(callbacks) : i = Len(wire) + 1 + Len(queue) + j
        <4>1. PICK j \in 1..Len(callbacks) : i = Len(wire) + 1 + Len(queue) + j
          BY <3>4
        <4>2. Path[i] = callbacks[j].seq
          BY <4>1, PathNow
        <4>3. j \in 1..Len(callbacks') /\ callbacks'[j] = callbacks[j]
          BY <1>2, <2>1
        <4>4. Path'[i] = callbacks'[j].seq
          BY <1>1, <1>5, <4>1, <4>3, PathThen
        <4>. QED
          BY <4>2, <4>3, <4>4
      <3>5. \/ i \in 1..Len(wire) \/ i = Len(wire) + 1
            \/ i - (Len(wire) + 1) \in 1..Len(queue)
            \/ i - (Len(wire) + 1 + Len(queue)) \in 1..Len(callbacks)
        BY <1>2, <2>3
      <3>6. /\ i = Len(wire) + 1 + (i - (Len(wire) + 1))
            /\ i = Len(wire) + 1 + Len(queue) + (i - (Len(wire) + 1 + Len(queue)))
        BY <1>2
      <3>. QED
        BY <3>1, <3>2, <3>3, <3>4, <3>5, <3>6
    <2>7. \A i \in 1..Len(Path) : i < k
      BY <2>3
    <2>8. \A i \in 1..Len(Path) : i >= k => /\ Path'[i + 1] = Path[i]
                                            /\ Path[i] # 0 => owner[Path[i]] # p
      BY <2>3
    <2>. HIDE DEF k
    <2>. QED
      BY <1>1, <2>2, <2>4, <2>5, <2>6, <2>8, Inserted
  <1>6. queue' \in {queue, Append(queue, n)}
    BY DEF Deliver, Put
  <1>. QED
    BY <1>3, <1>4, <1>5, <1>6 DEF Deliver

LEMMA Lengths ==
    ASSUME Typed, Typed'
    PROVE  /\ Len(Path) = Len(wire) + 1 + Len(queue) + Len(callbacks)
           /\ Len(Path') = Len(wire') + 1 + Len(queue') + Len(callbacks')
           /\ Len(wire) \in Nat /\ Len(queue) \in Nat /\ Len(callbacks) \in Nat
           /\ Len(wire') \in Nat /\ Len(queue') \in Nat /\ Len(callbacks') \in Nat
           /\ DOMAIN callbacks = 1..Len(callbacks) /\ DOMAIN callbacks' = 1..Len(callbacks')
  <1>1. DOMAIN callbacks = 1..Len(callbacks) /\ DOMAIN callbacks' = 1..Len(callbacks')
    BY DEF Typed
  <1>. QED
    BY <1>1, PathNow, PathThen

\* Every place of the new path belongs to one of its pieces.
LEMMA PlaceThen ==
    ASSUME Typed', NEW i \in 1..Len(Path')
    PROVE  \/ i \in 1..Len(wire')
                  /\ Path'[i] = IF wire'[i].op = "event" THEN wire'[i].seq ELSE 0
           \/ i = Len(wire') + 1 /\ Path'[i] = pump'
           \/ \E j \in 1..Len(queue') : i = Len(wire') + 1 + j /\ Path'[i] = queue'[j]
           \/ \E j \in 1..Len(callbacks') : /\ i = Len(wire') + 1 + Len(queue') + j
                                            /\ Path'[i] = callbacks'[j].seq
  <1>1. /\ Len(wire') \in Nat /\ Len(queue') \in Nat /\ Len(callbacks') \in Nat
        /\ Len(Path') = Len(wire') + 1 + Len(queue') + Len(callbacks')
    BY PathThen
  <1>2. \/ i \in 1..Len(wire') \/ i = Len(wire') + 1
        \/ i - (Len(wire') + 1) \in 1..Len(queue')
        \/ i - (Len(wire') + 1 + Len(queue')) \in 1..Len(callbacks')
    BY <1>1
  <1>3. /\ i = Len(wire') + 1 + (i - (Len(wire') + 1))
        /\ i = Len(wire') + 1 + Len(queue') + (i - (Len(wire') + 1 + Len(queue')))
    BY <1>1
  <1>4. CASE i \in 1..Len(wire')
    BY <1>4, PathThen
  <1>5. CASE i = Len(wire') + 1
    BY <1>5, PathThen
  <1>6. CASE i - (Len(wire') + 1) \in 1..Len(queue')
    <2>1. PICK j \in 1..Len(queue') : i = Len(wire') + 1 + j
      BY <1>3, <1>6
    <2>2. Path'[i] = queue'[j]
      BY <2>1, PathThen
    <2>. QED
      BY <2>1, <2>2
  <1>7. CASE i - (Len(wire') + 1 + Len(queue')) \in 1..Len(callbacks')
    <2>1. PICK j \in 1..Len(callbacks') : i = Len(wire') + 1 + Len(queue') + j
      BY <1>3, <1>7
    <2>2. Path'[i] = callbacks'[j].seq
      BY <2>1, PathThen
    <2>. QED
      BY <2>1, <2>2
  <1>. QED
    BY <1>2, <1>4, <1>5, <1>6, <1>7

LEMMA ReceivedKeepsOrder ==
    ASSUME Typed, Typed', OrderInv, Received, UNCHANGED <<bus, hub>>
    PROVE  OrderInv'
  <1>1. UNCHANGED <<publisher, owner, pump, queue, callbacks>>
    BY DEF bus, hub
  <1>2. /\ Len(wire') = Len(wire) - 1 /\ Len(wire) \in Nat /\ Len(wire) > 0
        /\ \A k \in 1..Len(wire) - 1 : wire'[k] = wire[k + 1]
    <2>1. wire \in Seq(Frames(counter)) /\ wire # <<>> /\ wire' = Tail(wire)
      BY DEF Typed, Received
    <2>2. Len(wire) \in Nat /\ Len(wire) # 0
      BY <2>1
    <2>. QED
      BY <2>1, <2>2, TailOf
  <1>3. OffLoop'
    BY <1>1 DEF OrderInv, OffLoop
  <1> DEFINE f == [i \in 1..Len(Path') |-> i + 1]
  <1>4. /\ Len(Path) = Len(Path') + 1 /\ Len(Path') \in Nat
        /\ Len(queue) \in Nat /\ Len(callbacks) \in Nat
    <2>1. /\ Len(Path) = Len(wire) + 1 + Len(queue) + Len(callbacks)
          /\ Len(Path') = Len(wire') + 1 + Len(queue') + Len(callbacks')
          /\ Len(queue) \in Nat /\ Len(callbacks) \in Nat
      BY Lengths
    <2>2. Len(queue') = Len(queue) /\ Len(callbacks') = Len(callbacks)
      BY <1>1
    <2>. QED
      BY <1>2, <2>1, <2>2
  <1>5. f \in [1..Len(Path') -> 1..Len(Path)]
    BY <1>4
  <1>6. ASSUME NEW i \in 1..Len(Path')
        PROVE  Path'[i] = Path[i + 1]
    <2>1. CASE i \in 1..Len(wire')
      <3>1. i + 1 \in 1..Len(wire) /\ wire'[i] = wire[i + 1]
        BY <1>2, <2>1
      <3>2. Path[i + 1] = (IF wire[i + 1].op = "event" THEN wire[i + 1].seq ELSE 0)
        BY <3>1, PathNow
      <3>3. Path'[i] = (IF wire'[i].op = "event" THEN wire'[i].seq ELSE 0)
        BY <2>1, PathThen
      <3>. QED
        BY <3>1, <3>2, <3>3
    <2>2. CASE i = Len(wire') + 1
      <3>1. Path'[i] = pump /\ i + 1 = Len(wire) + 1
        BY <1>1, <1>2, <2>2, PathThen
      <3>. QED
        BY <3>1, PathNow
    <2>3. ASSUME NEW j \in 1..Len(queue'), i = Len(wire') + 1 + j
          PROVE  Path'[i] = Path[i + 1]
      <3>1. Path'[i] = queue[j] /\ i + 1 = Len(wire) + 1 + j
        BY <1>1, <1>2, <2>3, PathThen
      <3>. QED
        BY <1>1, <3>1, PathNow
    <2>4. ASSUME NEW j \in 1..Len(callbacks'), i = Len(wire') + 1 + Len(queue') + j
          PROVE  Path'[i] = Path[i + 1]
      <3>1. Path'[i] = callbacks[j].seq
        BY <1>1, <2>4, PathThen
      <3>2. i + 1 = Len(wire) + 1 + Len(queue) + j
        BY <1>1, <1>2, <1>4, <2>4
      <3>. QED
        BY <1>1, <3>1, <3>2, PathNow
    <2>. QED
      BY <2>1, <2>2, <2>3, <2>4, PlaceThen
  <1>7. \A i \in 1..Len(Path') : f[i] = i + 1
    OBVIOUS
  <1>. HIDE DEF f
  <1>8. \A i \in 1..Len(Path') : Path'[i] # 0 => Path'[i] = Path[f[i]]
    BY <1>6, <1>7
  <1>9. \A i, j \in 1..Len(Path') : i < j => f[i] < f[j]
    BY <1>4, <1>7
  <1>. QED
    BY <1>1, <1>3, <1>5, <1>8, <1>9, Thinner

LEMMA CallbackKeepsOrder ==
    ASSUME Typed, Typed', OrderInv, RunNext
    PROVE  OrderInv'
  <1>1. /\ UNCHANGED <<publisher, owner, pump, wire>>
        /\ callbacks # <<>> /\ callbacks' = Tail(callbacks)
        /\ queue' \in {queue, Append(queue, callbacks[1].seq)}
    <2>1. /\ UNCHANGED <<publisher, owner, pump, wire>>
          /\ 1 \in DOMAIN callbacks /\ callbacks' = RemoveAt(callbacks, 1)
          /\ queue' \in {queue, Append(queue, callbacks[1].seq)}
      BY DEF RunNext, RunCallback, Put
    <2>2. callbacks \in Seq(Handed(counter)) /\ callbacks # <<>>
      BY <2>1 DEF Typed
    <2>. QED
      BY <2>1, <2>2, FirstRemoved
  <1>2. /\ Len(callbacks') = Len(callbacks) - 1 /\ Len(callbacks) \in Nat
        /\ Len(callbacks) > 0
        /\ \A k \in 1..Len(callbacks) - 1 : callbacks'[k] = callbacks[k + 1]
    <2>1. callbacks \in Seq(Handed(counter))
      BY DEF Typed
    <2>2. Len(callbacks) \in Nat /\ Len(callbacks) # 0
      BY <1>1, <2>1
    <2>. QED
      BY <1>1, <2>1, <2>2, TailOf
  <1>3. OffLoop'
    <2>1. \A k \in 1..Len(callbacks') : /\ k + 1 \in 1..Len(callbacks)
                                        /\ callbacks'[k] = callbacks[k + 1]
      BY <1>2
    <2>. QED
      BY <1>1, <2>1, Lengths DEF OrderInv, OffLoop
  <1>4. /\ Len(Path) = Len(wire) + 1 + Len(queue) + Len(callbacks)
        /\ Len(Path') = Len(wire) + 1 + Len(queue') + (Len(callbacks) - 1)
        /\ Len(wire) \in Nat /\ Len(queue) \in Nat /\ Len(Path') \in Nat
    BY <1>1, <1>2, Lengths
  <1>5. CASE queue' = Append(queue, callbacks[1].seq)
    <2> DEFINE f == [i \in 1..Len(Path') |-> i]
    <2>1. /\ Len(queue') = Len(queue) + 1 /\ queue'[Len(queue) + 1] = callbacks[1].seq
          /\ \A k \in 1..Len(queue) : queue'[k] = queue[k]
      <3>1. queue \in Seq(1..counter) /\ callbacks[1].seq \in 1..counter
        <4>1. 1 \in DOMAIN callbacks
          BY <1>2, Lengths
        <4>. QED
          BY <4>1, CallbackIs DEF Typed
      <3>. QED
        BY <1>5, <3>1, Longer
    <2>2. Len(Path') = Len(Path)
      BY <1>4, <2>1
    <2>3. ASSUME NEW i \in 1..Len(Path')
          PROVE  Path'[i] = Path[i]
      <3>1. CASE i \in 1..Len(wire')
        <4>1. Path[i] = (IF wire[i].op = "event" THEN wire[i].seq ELSE 0)
          BY <1>1, <3>1, PathNow
        <4>2. Path'[i] = (IF wire[i].op = "event" THEN wire[i].seq ELSE 0)
          BY <1>1, <3>1, PathThen
        <4>. QED
          BY <4>1, <4>2
      <3>2. CASE i = Len(wire') + 1
        <4>1. Path'[i] = pump
          BY <1>1, <3>2, PathThen
        <4>. QED
          BY <1>1, <3>2, <4>1, PathNow
      <3>3. ASSUME NEW j \in 1..Len(queue'), i = Len(wire') + 1 + j, Path'[i] = queue'[j]
            PROVE  Path'[i] = Path[i]
        <4>1. CASE j \in 1..Len(queue)
          <5>1. Path[i] = queue[j]
            BY <1>1, <3>3, <4>1, PathNow
          <5>. QED
            BY <2>1, <3>3, <4>1, <5>1
        <4>2. CASE j \notin 1..Len(queue)
          <5>1. j = Len(queue) + 1 /\ i = Len(wire) + 1 + Len(queue) + 1 /\ 1 \in 1..Len(callbacks)
            <6>1. j = Len(queue) + 1
              BY <1>4, <2>1, <4>2
            <6>. QED
              BY <1>1, <1>2, <1>4, <3>3, <6>1
          <5>2. Path[i] = callbacks[1].seq
            BY <5>1, PathNow
          <5>. QED
            BY <2>1, <3>3, <5>1, <5>2
        <4>. QED
          BY <4>1, <4>2
      <3>4. ASSUME NEW j \in 1..Len(callbacks'), i = Len(wire') + 1 + Len(queue') + j,
                   Path'[i] = callbacks'[j].seq
            PROVE  Path'[i] = Path[i]
        <4>1. /\ j + 1 \in 1..Len(callbacks) /\ callbacks'[j] = callbacks[j + 1]
              /\ i = Len(wire) + 1 + Len(queue) + (j + 1)
          BY <1>1, <1>2, <1>4, <2>1, <3>4
        <4>2. Path[i] = callbacks[j + 1].seq
          BY <4>1, PathNow
        <4>. QED
          BY <3>4, <4>1, <4>2
      <3>. QED
        BY <3>1, <3>2, <3>3, <3>4, PlaceThen
    <2>4. /\ f \in [1..Len(Path') -> 1..Len(Path)]
          /\ \A i \in 1..Len(Path') : f[i] = i
      BY <2>2
    <2>. HIDE DEF f
    <2>. QED
      BY <1>1, <1>3, <2>3, <2>4, Thinner
  <1>6. CASE queue' = queue
    <2> DEFINE h == Len(wire) + 1 + Len(queue)
               f == [i \in 1..Len(Path') |-> IF i <= h THEN i ELSE i + 1]
    <2>1. h \in Nat /\ Len(Path') = Len(Path) - 1 /\ h <= Len(Path')
      BY <1>2, <1>4, <1>6
    <2>2. /\ f \in [1..Len(Path') -> 1..Len(Path)]
          /\ \A i \in 1..Len(Path') : i <= h => f[i] = i
          /\ \A i \in 1..Len(Path') : i > h => f[i] = i + 1
      <3>. HIDE DEF h
      <3>. QED
        BY <1>4, <2>1
    <2>. HIDE DEF f
    <2>3. ASSUME NEW i \in 1..Len(Path')
          PROVE  Path'[i] = Path[f[i]]
      <3>1. CASE i \in 1..Len(wire')
        <4>1. Path[i] = (IF wire[i].op = "event" THEN wire[i].seq ELSE 0)
          BY <1>1, <3>1, PathNow
        <4>2. Path'[i] = (IF wire[i].op = "event" THEN wire[i].seq ELSE 0)
          BY <1>1, <3>1, PathThen
        <4>3. i <= h
          BY <1>1, <1>4, <3>1
        <4>. QED
          BY <2>2, <4>1, <4>2, <4>3
      <3>2. CASE i = Len(wire') + 1
        <4>1. Path'[i] = pump
          BY <1>1, <3>2, PathThen
        <4>2. i <= h
          BY <1>1, <1>4, <3>2
        <4>. QED
          BY <1>1, <2>2, <3>2, <4>1, <4>2, PathNow
      <3>3. ASSUME NEW j \in 1..Len(queue'), i = Len(wire') + 1 + j, Path'[i] = queue'[j]
            PROVE  Path'[i] = Path[f[i]]
        <4>1. Path[i] = queue[j]
          BY <1>1, <1>6, <3>3, PathNow
        <4>2. i <= h
          BY <1>1, <1>4, <1>6, <3>3
        <4>. QED
          BY <1>6, <2>2, <3>3, <4>1, <4>2
      <3>4. ASSUME NEW j \in 1..Len(callbacks'), i = Len(wire') + 1 + Len(queue') + j,
                   Path'[i] = callbacks'[j].seq
            PROVE  Path'[i] = Path[f[i]]
        <4>1. /\ j + 1 \in 1..Len(callbacks) /\ callbacks'[j] = callbacks[j + 1]
              /\ i + 1 = Len(wire) + 1 + Len(queue) + (j + 1) /\ i > h
          BY <1>1, <1>2, <1>4, <1>6, <3>4
        <4>2. Path[i + 1] = callbacks[j + 1].seq
          BY <4>1, PathNow
        <4>. QED
          BY <2>2, <3>4, <4>1, <4>2
      <3>. QED
        BY <3>1, <3>2, <3>3, <3>4, PlaceThen
    <2>4. \A i, j \in 1..Len(Path') : i < j => f[i] < f[j]
      <3>. HIDE DEF h
      <3>. QED
        BY <1>4, <2>1, <2>2
    <2>. HIDE DEF h
    <2>. QED
      BY <1>1, <1>3, <2>2, <2>3, <2>4, Thinner
  <1>. QED
    BY <1>1, <1>5, <1>6

\* A new connection starts with nothing but what waits for the loop.
LEMMA SubscribeKeepsOrder ==
    ASSUME Typed, Typed', OrderInv, Subscribe
    PROVE  OrderInv'
  <1>1. /\ UNCHANGED <<publisher, owner, wire, callbacks>>
        /\ queue' = <<>> /\ pump' = 0 /\ Len(queue') = 0
    BY DEF Subscribe, bus
  <1>2. OffLoop'
    BY <1>1 DEF OrderInv, OffLoop
  <1>3. /\ Len(Path) = Len(wire) + 1 + Len(queue) + Len(callbacks)
        /\ Len(Path') = Len(wire) + 1 + Len(callbacks)
        /\ Len(wire) \in Nat /\ Len(queue) \in Nat /\ Len(callbacks) \in Nat
    BY <1>1, Lengths
  <1> DEFINE h == Len(wire) + 1
             f == [i \in 1..Len(Path') |-> IF i <= h THEN i ELSE i + Len(queue)]
  <1>4. /\ f \in [1..Len(Path') -> 1..Len(Path)]
        /\ \A i \in 1..Len(Path') : i <= h => f[i] = i
        /\ \A i \in 1..Len(Path') : i > h => f[i] = i + Len(queue)
    BY <1>3
  <1>. HIDE DEF f
  <1>5. ASSUME NEW i \in 1..Len(Path'), Path'[i] # 0
        PROVE  Path'[i] = Path[f[i]]
    <2>1. CASE i \in 1..Len(wire')
      <3>1. Path[i] = (IF wire[i].op = "event" THEN wire[i].seq ELSE 0)
        BY <1>1, <2>1, PathNow
      <3>2. Path'[i] = (IF wire[i].op = "event" THEN wire[i].seq ELSE 0)
        BY <1>1, <2>1, PathThen
      <3>3. i <= h
        BY <1>1, <1>3, <2>1
      <3>. QED
        BY <1>4, <3>1, <3>2, <3>3
    <2>2. CASE i = Len(wire') + 1
      BY <1>1, <1>5, <2>2, PathThen
    <2>3. ASSUME NEW j \in 1..Len(queue')
          PROVE  FALSE
      BY <1>1, <2>3
    <2>4. ASSUME NEW j \in 1..Len(callbacks'), i = Len(wire') + 1 + Len(queue') + j,
                 Path'[i] = callbacks'[j].seq
          PROVE  Path'[i] = Path[f[i]]
      <3>1. i + Len(queue) = Len(wire) + 1 + Len(queue) + j /\ i > h
        BY <1>1, <1>3, <2>4
      <3>2. Path[i + Len(queue)] = callbacks[j].seq
        BY <1>1, <3>1, PathNow
      <3>. QED
        BY <1>1, <1>4, <2>4, <3>1, <3>2
    <2>. QED
      BY <2>1, <2>2, <2>3, <2>4, PlaceThen
  <1>6. \A i, j \in 1..Len(Path') : i < j => f[i] < f[j]
    BY <1>3, <1>4
  <1>. HIDE DEF h
  <1>. QED
    BY <1>1, <1>2, <1>4, <1>5, <1>6, Thinner

\* The first frame carries no event.
LEMMA HelloKeepsOrder ==
    ASSUME Typed, Typed', Greeted, OrderInv, Hello
    PROVE  OrderInv'
  <1>1. /\ UNCHANGED <<publisher, owner, queue, callbacks, pump>>
        /\ wire' = <<[op |-> "hello", seq |-> LastSeq]>> /\ wire = <<>>
    BY DEF Hello, bus, Greeted
  <1>2. Len(wire') = 1 /\ wire'[1].op = "hello" /\ Len(wire) = 0
    BY <1>1
  <1>3. OffLoop'
    BY <1>1 DEF OrderInv, OffLoop
  <1>4. /\ Len(Path) = 1 + Len(queue) + Len(callbacks)
        /\ Len(Path') = 2 + Len(queue) + Len(callbacks)
        /\ Len(queue) \in Nat /\ Len(callbacks) \in Nat
    BY <1>1, <1>2, Lengths
  <1> DEFINE f == [i \in 1..Len(Path') |-> IF i = 1 THEN 1 ELSE i - 1]
  <1>5. /\ f \in [1..Len(Path') -> 1..Len(Path)]
        /\ \A i \in 1..Len(Path') : i > 1 => f[i] = i - 1
    BY <1>4
  <1>. HIDE DEF f
  <1>6. Path'[1] = 0
    BY <1>2, PathThen
  <1>7. ASSUME NEW i \in 1..Len(Path'), Path'[i] # 0
        PROVE  Path'[i] = Path[f[i]]
    <2>1. CASE i \in 1..Len(wire')
      BY <1>2, <1>6, <1>7, <2>1
    <2>2. CASE i = Len(wire') + 1
      <3>1. i = 2 /\ Path'[i] = pump
        BY <1>1, <1>2, <2>2, PathThen
      <3>2. Path[1] = pump
        BY <1>2, PathNow
      <3>. QED
        BY <1>5, <3>1, <3>2
    <2>3. ASSUME NEW j \in 1..Len(queue'), i = Len(wire') + 1 + j, Path'[i] = queue'[j]
          PROVE  Path'[i] = Path[f[i]]
      <3>1. i - 1 = Len(wire) + 1 + j /\ i > 1 /\ j \in 1..Len(queue)
        BY <1>1, <1>2, <1>4, <2>3
      <3>2. Path[i - 1] = queue[j]
        BY <3>1, PathNow
      <3>. QED
        BY <1>1, <1>5, <2>3, <3>1, <3>2
    <2>4. ASSUME NEW j \in 1..Len(callbacks'), i = Len(wire') + 1 + Len(queue') + j,
                 Path'[i] = callbacks'[j].seq
          PROVE  Path'[i] = Path[f[i]]
      <3>1. i - 1 = Len(wire) + 1 + Len(queue) + j /\ i > 1 /\ j \in 1..Len(callbacks)
        BY <1>1, <1>2, <1>4, <2>4
      <3>2. Path[i - 1] = callbacks[j].seq
        BY <3>1, PathNow
      <3>. QED
        BY <1>1, <1>5, <2>4, <3>1, <3>2
    <2>. QED
      BY <2>1, <2>2, <2>3, <2>4, PlaceThen
  <1>8. \A i, j \in 1..Len(Path') :
            (i < j /\ Path'[i] # 0 /\ Path'[j] # 0) => f[i] < f[j]
    BY <1>4, <1>5, <1>6
  <1>. QED
    BY <1>1, <1>3, <1>5, <1>7, <1>8, Thinner

\* What was on the wire is gone.
LEMMA DisconnectKeepsOrder ==
    ASSUME Typed, Typed', OrderInv, Disconnect
    PROVE  OrderInv'
  <1>1. /\ UNCHANGED <<publisher, owner, queue, callbacks, pump>>
        /\ wire' = <<>> /\ Len(wire') = 0
    BY DEF Disconnect, bus
  <1>2. OffLoop'
    BY <1>1 DEF OrderInv, OffLoop
  <1>3. /\ Len(Path) = Len(wire) + 1 + Len(queue) + Len(callbacks)
        /\ Len(Path') = 1 + Len(queue) + Len(callbacks)
        /\ Len(wire) \in Nat /\ Len(queue) \in Nat /\ Len(callbacks) \in Nat
    BY <1>1, Lengths
  <1> DEFINE f == [i \in 1..Len(Path') |-> i + Len(wire)]
  <1>4. /\ f \in [1..Len(Path') -> 1..Len(Path)]
        /\ \A i \in 1..Len(Path') : f[i] = i + Len(wire)
    BY <1>3
  <1>. HIDE DEF f
  <1>5. ASSUME NEW i \in 1..Len(Path')
        PROVE  Path'[i] = Path[f[i]]
    <2>1. ASSUME i \in 1..Len(wire')
          PROVE  FALSE
      BY <1>1, <2>1
    <2>2. CASE i = Len(wire') + 1
      <3>1. i = 1 /\ Path'[i] = pump
        BY <1>1, <2>2, PathThen
      <3>2. Path[Len(wire) + 1] = pump /\ i + Len(wire) = Len(wire) + 1
        BY <1>3, <3>1, PathNow
      <3>. QED
        BY <1>4, <3>1, <3>2
    <2>3. ASSUME NEW j \in 1..Len(queue'), i = Len(wire') + 1 + j, Path'[i] = queue'[j]
          PROVE  Path'[i] = Path[f[i]]
      <3>1. i + Len(wire) = Len(wire) + 1 + j /\ j \in 1..Len(queue)
        BY <1>1, <1>3, <2>3
      <3>2. Path[Len(wire) + 1 + j] = queue[j]
        BY <3>1, PathNow
      <3>. QED
        BY <1>1, <1>4, <2>3, <3>1, <3>2
    <2>4. ASSUME NEW j \in 1..Len(callbacks'), i = Len(wire') + 1 + Len(queue') + j,
                 Path'[i] = callbacks'[j].seq
          PROVE  Path'[i] = Path[f[i]]
      <3>1. i + Len(wire) = Len(wire) + 1 + Len(queue) + j /\ j \in 1..Len(callbacks)
        BY <1>1, <1>3, <2>4
      <3>2. Path[Len(wire) + 1 + Len(queue) + j] = callbacks[j].seq
        BY <3>1, PathNow
      <3>. QED
        BY <1>1, <1>4, <2>4, <3>1, <3>2
    <2>. QED
      BY <2>1, <2>2, <2>3, <2>4, PlaceThen
  <1>6. \A i, j \in 1..Len(Path') : i < j => f[i] < f[j]
    BY <1>3, <1>4
  <1>. QED
    BY <1>1, <1>2, <1>4, <1>5, <1>6, Thinner

LEMMA WireLonger ==
    ASSUME Typed, NEW frame \in Frames(counter), wire' = Append(wire, frame)
    PROVE  /\ Len(wire') = Len(wire) + 1 /\ wire'[Len(wire) + 1] = frame
           /\ \A k \in 1..Len(wire) : wire'[k] = wire[k]
  <1>1. wire \in Seq(Frames(counter))
    BY DEF Typed
  <1>. QED
    BY <1>1, Longer

\* The event goes out, or an overflow frame does and the pump keeps the event.
LEMMA GetKeepsOrder ==
    ASSUME Typed, Typed', OrderInv, Get
    PROVE  OrderInv'
  <1> DEFINE n == Len(wire)
             e == Head(queue)
  <1>1. /\ UNCHANGED <<publisher, owner, callbacks>>
        /\ pump = 0 /\ queue # <<>> /\ queue' = Tail(queue)
        /\ \/ wire' = Append(wire, Frame(e)) /\ pump' = 0
           \/ wire' = Append(wire, [op |-> "overflow"]) /\ pump' = e
    BY DEF Get, bus
  <1>2. /\ Len(queue) \in Nat /\ Len(queue') = Len(queue) - 1 /\ Len(queue) > 0
        /\ e = queue[1] /\ e \in 1..counter
        /\ \A k \in 1..Len(queue) - 1 : queue'[k] = queue[k + 1]
    <2>1. queue \in Seq(1..counter) /\ queue # <<>> /\ queue' = Tail(queue)
      BY <1>1 DEF Typed
    <2>2. Len(queue) \in Nat /\ Len(queue) # 0
      BY <2>1
    <2>3. /\ Head(queue) \in 1..counter /\ Head(queue) = queue[1]
          /\ Len(queue') = Len(queue) - 1
          /\ \A k \in 1..Len(queue) - 1 : queue'[k] = queue[k + 1]
      BY <2>1, TailOf
    <2>. QED
      BY <2>2, <2>3
  <1>3. Frame(e) \in Frames(counter) /\ [op |-> "overflow"] \in Frames(counter)
    BY <1>2 DEF Frame, Frames
  <1>4. /\ Len(wire') = n + 1
        /\ \A k \in 1..n : wire'[k] = wire[k]
        /\ \/ wire'[n + 1] = Frame(e) /\ pump' = 0
           \/ wire'[n + 1] = [op |-> "overflow"] /\ pump' = e
    BY <1>1, <1>3, WireLonger
  <1>5. /\ Len(Path) = n + 1 + Len(queue) + Len(callbacks)
        /\ Len(Path') = n + 1 + Len(queue) + Len(callbacks)
        /\ n \in Nat /\ Len(callbacks) \in Nat
    <2>1. /\ Len(Path) = n + 1 + Len(queue) + Len(callbacks)
          /\ Len(Path') = Len(wire') + 1 + Len(queue') + Len(callbacks')
          /\ n \in Nat /\ Len(callbacks) \in Nat
      BY Lengths
    <2>. QED
      BY <1>1, <1>2, <1>4, <2>1
  <1>6. OffLoop'
    BY <1>1 DEF OrderInv, OffLoop
  <1>7. /\ Path[n + 2] = e
        /\ \/ Path'[n + 1] = e /\ Path'[n + 2] = 0
           \/ Path'[n + 1] = 0 /\ Path'[n + 2] = e
    <2>1. 1 \in 1..Len(queue) /\ n + 1 + 1 = n + 2 /\ n + 1 \in 1..Len(wire')
          /\ Len(wire') + 1 = n + 2
      BY <1>2, <1>4, <1>5
    <2>2. Path[n + 2] = e
      BY <1>2, <2>1, PathNow
    <2>3. /\ Path'[n + 2] = pump'
          /\ Path'[n + 1] = IF wire'[n + 1].op = "event" THEN wire'[n + 1].seq ELSE 0
      BY <2>1, PathThen
    <2>. QED
      BY <1>4, <2>2, <2>3 DEF Frame
  <1> DEFINE f == [i \in 1..Len(Path') |-> IF i = n + 1 THEN n + 2 ELSE i]
  <1>8. n + 2 \in 1..Len(Path)
    BY <1>2, <1>5
  <1>. HIDE DEF n, e
  <1>9. /\ f \in [1..Len(Path') -> 1..Len(Path)]
        /\ \A i \in 1..Len(Path') : i # n + 1 => f[i] = i
        /\ \A i \in 1..Len(Path') : i = n + 1 => f[i] = n + 2
    BY <1>5, <1>8
  <1>. HIDE DEF f
  <1>10. ASSUME NEW i \in 1..Len(Path'), Path'[i] # 0
         PROVE  Path'[i] = Path[f[i]]
    <2>1. CASE i = n + 1
      BY <1>7, <1>9, <1>10, <2>1
    <2>2. CASE i = n + 2
      <3>1. f[i] = n + 2
        BY <1>5, <1>9, <2>2
      <3>. QED
        BY <1>7, <1>10, <2>2, <3>1
    <2>3. CASE i \in 1..n
      <3>1. i \in 1..Len(wire) /\ i \in 1..Len(wire') /\ wire'[i] = wire[i] /\ i # n + 1
        BY <1>4, <1>5, <2>3 DEF n
      <3>2. Path[i] = (IF wire[i].op = "event" THEN wire[i].seq ELSE 0)
        BY <3>1, PathNow
      <3>3. Path'[i] = (IF wire'[i].op = "event" THEN wire'[i].seq ELSE 0)
        BY <3>1, PathThen
      <3>. QED
        BY <1>9, <3>1, <3>2, <3>3
    <2>4. ASSUME NEW j \in 1..Len(queue'), i = Len(wire') + 1 + j, Path'[i] = queue'[j]
          PROVE  Path'[i] = Path[f[i]]
      <3>1. /\ j + 1 \in 1..Len(queue) /\ queue'[j] = queue[j + 1] /\ i # n + 1
            /\ i = n + 1 + (j + 1)
        BY <1>2, <1>4, <1>5, <2>4
      <3>2. Path[n + 1 + (j + 1)] = queue[j + 1]
        BY <3>1, PathNow DEF n
      <3>. QED
        BY <1>9, <2>4, <3>1, <3>2
    <2>5. ASSUME NEW j \in 1..Len(callbacks'), i = Len(wire') + 1 + Len(queue') + j,
                 Path'[i] = callbacks'[j].seq
          PROVE  Path'[i] = Path[f[i]]
      <3>1. j \in 1..Len(callbacks) /\ i # n + 1 /\ i = n + 1 + Len(queue) + j
        BY <1>1, <1>2, <1>4, <1>5, <2>5
      <3>2. Path[n + 1 + Len(queue) + j] = callbacks[j].seq
        BY <3>1, PathNow DEF n
      <3>. QED
        BY <1>1, <1>9, <2>5, <3>1, <3>2
    <2>6. \/ i \in 1..n \/ i = n + 1 \/ i = n + 2
          \/ \E j \in 1..Len(queue') : i = Len(wire') + 1 + j /\ Path'[i] = queue'[j]
          \/ \E j \in 1..Len(callbacks') : /\ i = Len(wire') + 1 + Len(queue') + j
                                           /\ Path'[i] = callbacks'[j].seq
      <3>1. i \in 1..Len(wire') => (i \in 1..n \/ i = n + 1)
        BY <1>4, <1>5
      <3>2. i = Len(wire') + 1 => i = n + 2
        BY <1>4, <1>5
      <3>. QED
        BY <3>1, <3>2, PlaceThen
    <2>. QED
      BY <2>1, <2>2, <2>3, <2>4, <2>5, <2>6
  <1>11. \A i, j \in 1..Len(Path') :
             (i < j /\ Path'[i] # 0 /\ Path'[j] # 0) => f[i] < f[j]
    BY <1>5, <1>7, <1>9
  <1>. QED
    BY <1>1, <1>6, <1>9, <1>10, <1>11, Thinner

\* After the overflow frame the event the pump kept goes out.
LEMMA ToldKeepsOrder ==
    ASSUME Typed, Typed', OrderInv, Told
    PROVE  OrderInv'
  <1> DEFINE n == Len(wire)
  <1>1. /\ UNCHANGED <<publisher, owner, queue, callbacks>>
        /\ pump # 0 /\ pump' = 0 /\ wire' = Append(wire, Frame(pump))
    BY DEF Told, bus
  <1>2. Frame(pump) \in Frames(counter)
    BY <1>1 DEF Frame, Frames, Typed
  <1>3. /\ Len(wire') = n + 1 /\ wire'[n + 1] = Frame(pump)
        /\ \A k \in 1..n : wire'[k] = wire[k]
    BY <1>1, <1>2, WireLonger
  <1>4. /\ Len(Path) = n + 1 + Len(queue) + Len(callbacks)
        /\ Len(Path') = n + 2 + Len(queue) + Len(callbacks)
        /\ n \in Nat /\ Len(queue) \in Nat /\ Len(callbacks) \in Nat
    <2>1. /\ Len(Path) = n + 1 + Len(queue) + Len(callbacks)
          /\ Len(Path') = Len(wire') + 1 + Len(queue') + Len(callbacks')
          /\ n \in Nat /\ Len(queue) \in Nat /\ Len(callbacks) \in Nat
      BY Lengths
    <2>. QED
      BY <1>1, <1>3, <2>1
  <1>5. OffLoop'
    BY <1>1 DEF OrderInv, OffLoop
  <1>6. Path[n + 1] = pump /\ Path'[n + 1] = pump /\ Path'[n + 2] = 0
    <2>1. n + 1 \in 1..Len(wire') /\ Len(wire') + 1 = n + 2
      BY <1>3, <1>4
    <2>2. /\ Path'[n + 2] = pump'
          /\ Path'[n + 1] = IF wire'[n + 1].op = "event" THEN wire'[n + 1].seq ELSE 0
      BY <2>1, PathThen
    <2>3. Path[n + 1] = pump
      BY PathNow
    <2>. QED
      BY <1>1, <1>3, <2>2, <2>3 DEF Frame
  <1> DEFINE f == [i \in 1..Len(Path') |-> IF i <= n + 1 THEN i ELSE i - 1]
  <1>. HIDE DEF n
  <1>7. /\ f \in [1..Len(Path') -> 1..Len(Path)]
        /\ \A i \in 1..Len(Path') : i <= n + 1 => f[i] = i
        /\ \A i \in 1..Len(Path') : i > n + 1 => f[i] = i - 1
    BY <1>4
  <1>. HIDE DEF f
  <1>8. ASSUME NEW i \in 1..Len(Path'), Path'[i] # 0
        PROVE  Path'[i] = Path[f[i]]
    <2>1. CASE i = n + 1
      BY <1>4, <1>6, <1>7, <2>1
    <2>2. CASE i = n + 2
      BY <1>6, <1>8, <2>2
    <2>3. CASE i \in 1..n
      <3>1. i \in 1..Len(wire) /\ i \in 1..Len(wire') /\ wire'[i] = wire[i] /\ i <= n + 1
        BY <1>3, <1>4, <2>3 DEF n
      <3>2. Path[i] = (IF wire[i].op = "event" THEN wire[i].seq ELSE 0)
        BY <3>1, PathNow
      <3>3. Path'[i] = (IF wire'[i].op = "event" THEN wire'[i].seq ELSE 0)
        BY <3>1, PathThen
      <3>. QED
        BY <1>7, <3>1, <3>2, <3>3
    <2>4. ASSUME NEW j \in 1..Len(queue'), i = Len(wire') + 1 + j, Path'[i] = queue'[j]
          PROVE  Path'[i] = Path[f[i]]
      <3>1. j \in 1..Len(queue) /\ i > n + 1 /\ i - 1 = n + 1 + j
        BY <1>1, <1>3, <1>4, <2>4
      <3>2. Path[n + 1 + j] = queue[j]
        BY <3>1, PathNow DEF n
      <3>. QED
        BY <1>1, <1>7, <2>4, <3>1, <3>2
    <2>5. ASSUME NEW j \in 1..Len(callbacks'), i = Len(wire') + 1 + Len(queue') + j,
                 Path'[i] = callbacks'[j].seq
          PROVE  Path'[i] = Path[f[i]]
      <3>1. j \in 1..Len(callbacks) /\ i > n + 1 /\ i - 1 = n + 1 + Len(queue) + j
        <4>1. Len(queue') = Len(queue) /\ j \in 1..Len(callbacks)
          BY <1>1
        <4>2. i = n + 2 + Len(queue) + j
          BY <1>3, <1>4, <2>5, <4>1
        <4>. QED
          BY <1>4, <4>1, <4>2
      <3>2. Path[n + 1 + Len(queue) + j] = callbacks[j].seq
        BY <3>1, PathNow DEF n
      <3>. QED
        BY <1>1, <1>7, <2>5, <3>1, <3>2
    <2>6. \/ i \in 1..n \/ i = n + 1 \/ i = n + 2
          \/ \E j \in 1..Len(queue') : i = Len(wire') + 1 + j /\ Path'[i] = queue'[j]
          \/ \E j \in 1..Len(callbacks') : /\ i = Len(wire') + 1 + Len(queue') + j
                                           /\ Path'[i] = callbacks'[j].seq
      <3>1. i \in 1..Len(wire') => (i \in 1..n \/ i = n + 1)
        BY <1>3, <1>4
      <3>2. i = Len(wire') + 1 => i = n + 2
        BY <1>3, <1>4
      <3>. QED
        BY <3>1, <3>2, PlaceThen
    <2>. QED
      BY <2>1, <2>2, <2>3, <2>4, <2>5, <2>6
  <1>9. \A i, j \in 1..Len(Path') :
            (i < j /\ Path'[i] # 0 /\ Path'[j] # 0) => f[i] < f[j]
    BY <1>4, <1>6, <1>7
  <1>. QED
    BY <1>1, <1>5, <1>7, <1>8, <1>9, Thinner


-----------------------------------------------------------------------------
(* Every step. *)

StepInv == StreamInv /\ OrderInv

LEMMA StepKeeps ==
    ASSUME StepInv, [Next]_vars
    PROVE  StepInv'
  <1>. USE DEF StepInv
  <1>1. Typed /\ Greeted
    BY DEF StreamInv
  <1>2. ASSUME NEW p \in Publishers, Number(p) \/ Buffer(p) \/ Deliver(p)
        PROVE  StepInv'
    <2>1. StreamInv' /\ Typed'
      BY <1>2, PublishingStep DEF StreamInv
    <2>. QED
      BY <1>1, <1>2, <2>1, NumberKeepsOrder, BufferKeepsOrder, DeliverKeepsOrder
  <1>3. CASE RunNext \/ Subscribe \/ Hello \/ Get \/ Told \/ Disconnect
    <2>1. StreamInv' /\ Typed'
      BY <1>3, HubStep DEF StreamInv
    <2>. QED
      BY <1>1, <1>3, <2>1, CallbackKeepsOrder, SubscribeKeepsOrder, HelloKeepsOrder,
         GetKeepsOrder, ToldKeepsOrder, DisconnectKeepsOrder
  <1>4. CASE ReceiveHello \/ ReceiveOverflow \/ ReceiveEvent
    <2>1. StreamInv' /\ Typed'
      BY <1>4, ClientStep DEF StreamInv
    <2>2. Received /\ UNCHANGED <<bus, hub>>
      BY <1>4 DEF ReceiveHello, ReceiveOverflow, ReceiveEvent
    <2>. QED
      BY <1>1, <2>1, <2>2, ReceivedKeepsOrder
  <1>5. ASSUME NEW i \in DOMAIN fills, Answer(i) \/ Filled(i) \/ Refused(i)
        PROVE  StepInv'
    <2>1. StreamInv'
      BY <1>5, ClientStep
    <2>2. UNCHANGED <<bus, hub, wire>>
      BY <1>5 DEF Answer, Filled, Refused
    <2>3. Path' = Path
      BY <2>2 DEF Path, bus, hub
    <2>4. OrderInv'
      BY <2>2, <2>3 DEF OrderInv, PublisherOrderKept, Fresh, OffLoop, bus
    <2>. QED
      BY <2>1, <2>4
  <1>6. CASE UNCHANGED vars
    <2>1. UNCHANGED <<bus, hub, wire, client>>
      BY <1>6 DEF vars
    <2>2. Path' = Path
      BY <2>1 DEF Path, bus, hub
    <2>3. OrderInv'
      BY <2>1, <2>2 DEF OrderInv, PublisherOrderKept, Fresh, OffLoop, bus
    <2>4. StreamInv'
      BY <2>1 DEF StreamInv, Typed, Greeted, Applied, AppliedInOrder, Counted, bus, hub, client
    <2>. QED
      BY <2>3, <2>4
  <1>. QED
    BY <1>2, <1>3, <1>4, <1>5, <1>6 DEF Next

LEMMA StepHolds == Spec => []StepInv
  <1>1. Init => StepInv
    BY StreamInit, OrderInit DEF StepInv
  <1>2. StepInv /\ [Next]_vars => StepInv'
    BY StepKeeps
  <1>. QED
    BY <1>1, <1>2, PTL DEF Spec

(* However the client's handlers interleave and whatever threads, loop, queue and wire do,
   frames are applied one after the other and a thread's events stay in its order. *)
THEOREM NothingOvertakes == Spec => []OrderIsKept
  <1>1. StepInv => OrderIsKept
    BY DEF StepInv, StreamInv, Applied, OrderInv, OrderIsKept
  <1>. QED
    BY <1>1, StepHolds, PTL

(* For any size of the queue, an empty queue means that every loss was told, unless one
   happened while the frame about another was on its way out. *)
THEOREM LossesAreTold == Spec => []LossIsTold
  <1>1. StepInv => LossIsTold
    BY DEF StepInv, StreamInv, Counted, LossIsTold
  <1>. QED
    BY <1>1, StepHolds, PTL

-----------------------------------------------------------------------------
(* Nothing is missed for good. *)

\* While no event has left the buffer, every number is in it once or in the hands of a
\* thread that has not come to the lock.
Booked == counter <= BufferSize =>
             /\ \A i, j \in DOMAIN buffer : buffer[i] = buffer[j] => i = j
             /\ \A p \in Publishers : publisher[p].pc = "numbered" =>
                    \A i \in DOMAIN buffer : buffer[i] # publisher[p].seq
             /\ \A n \in 1..counter :
                    \/ \E i \in DOMAIN buffer : buffer[i] = n
                    \/ \E p \in Publishers : publisher[p].pc = "numbered" /\ publisher[p].seq = n

\* The threads came to the lock in the order of their numbers, nothing has left, and no
\* answer was cut short.
InTurn == ~cut /\ counter <= BufferSize /\ \A i \in DOMAIN buffer : buffer[i] = i

\* A frame that makes the client look for event n, if it does not have it.
Shows(frame, n) == frame.op = "overflow" \/ frame.seq >= n

\* A request whose answer brings event n to a client that has come to a number.
Brings(request, n, seq) == IF request.answered THEN n \in request.answer ELSE request.since <= seq

\* What will yet bring event n to the client, or tell it that n is missing.
Underway(n) ==
    \/ \E p \in Publishers : /\ publisher[p].pc = "buffered"
                             /\ publisher[p].seq = n /\ publisher[p].target = connection
    \/ \E k \in DOMAIN callbacks : callbacks[k].to = connection /\ callbacks[k].seq = n
    \/ \E k \in DOMAIN queue : queue[k] = n
    \/ pump = n
    \/ n \in untold
    \/ \E k \in DOMAIN wire : Shows(wire[k], n)
    \/ \E k \in DOMAIN fills : Brings(fills[k], n, last)

\* An answer goes on from where the client was, or before, without a hole.
AnswersFollowOn ==
    \A k \in DOMAIN fills :
        /\ fills[k].since <= last
        /\ InTurn /\ fills[k].answered => \E b \in Nat : fills[k].answer = fills[k].since+1..b

Reached(n) == n <= last \/ Underway(n)

Followed == (InTurn /\ link = "open" /\ ~missed /\ ~refused) =>
                \A n \in 1..Len(buffer) : Reached(n)

\* A connection has a number, and the client starts from nothing.
Started == /\ link \in {"subscribed", "open"} => connection > 0
           /\ ~seenHello => last = 0

CatchUpInv == Booked /\ AnswersFollowOn /\ Followed /\ Started

LEMMA CatchUpInit ==
    ASSUME Init
    PROVE  CatchUpInv
  <1>1. /\ counter = 0 /\ buffer = <<>> /\ publisher = [p \in Publishers |-> Idle]
        /\ fills = <<>> /\ link = "none" /\ last = 0
    BY DEF Init
  <1>2. Booked
    BY <1>1 DEF Booked, Idle
  <1>3. AnswersFollowOn /\ Followed /\ Started
    BY <1>1 DEF AnswersFollowOn, Followed, Started
  <1>. QED
    BY <1>2, <1>3 DEF CatchUpInv

\* A thread that has a number which is not in the buffer finds room.
LEMMA Room ==
    ASSUME Typed, Booked, counter <= BufferSize,
           NEW p \in Publishers, publisher[p].pc = "numbered"
    PROVE  Len(buffer) < BufferSize
  <1> DEFINE n == publisher[p].seq
             Rest == (1..counter) \ {n}
  <1>1. counter \in Nat /\ n \in 1..counter /\ buffer \in Seq(1..counter) /\ Len(buffer) \in Nat
    BY PublisherIs DEF Typed
  <1>2. IsFiniteSet(1..counter) /\ Cardinality(1..counter) = counter
    <2>1. ASSUME NEW m \in Nat
          PROVE  IsFiniteSet(1..m) /\ Cardinality(1..m) = m
      BY FS_Interval, SMTT(30)
    <2>. QED
      BY <1>1, <2>1
  <1>3. IsFiniteSet(Rest) /\ Cardinality(Rest) = counter - 1
    BY <1>1, <1>2, FS_RemoveElement
  <1>4. buffer \in [1..Len(buffer) -> Rest]
    <2>1. ASSUME NEW i \in 1..Len(buffer)
          PROVE  buffer[i] \in Rest
      <3>1. buffer[i] \in 1..counter /\ i \in DOMAIN buffer
        BY <1>1
      <3>2. buffer[i] # n
        BY <3>1 DEF Booked
      <3>. QED
        BY <3>1, <3>2
    <2>. QED
      BY <1>1, <2>1
  <1>5. \A x, y \in 1..Len(buffer) : buffer[x] = buffer[y] => x = y
    BY <1>1 DEF Booked
  <1>6. IsFiniteSet(1..Len(buffer)) /\ Cardinality(1..Len(buffer)) = Len(buffer)
    <2>1. ASSUME NEW m \in Nat
          PROVE  IsFiniteSet(1..m) /\ Cardinality(1..m) = m
      BY FS_Interval, SMTT(30)
    <2>. QED
      BY <1>1, <2>1
  <1>. HIDE DEF Rest, n
  <1>7. ~(Cardinality(Rest) < Cardinality(1..Len(buffer)))
    BY <1>3, <1>4, <1>5, <1>6, FS_PigeonHole
  <1>8. BufferSize \in Nat
    BY StreamAssumption
  <1>. QED
    BY <1>1, <1>3, <1>6, <1>7, <1>8

\* What Buffer does while nothing leaves.
LEMMA Buffers ==
    ASSUME Typed, Booked, counter <= BufferSize, NEW p \in Publishers, Buffer(p)
    PROVE  /\ buffer' = Append(buffer, publisher[p].seq)
           /\ DOMAIN buffer' = 1..Len(buffer) + 1 /\ Len(buffer') = Len(buffer) + 1
           /\ buffer'[Len(buffer) + 1] = publisher[p].seq
           /\ DOMAIN buffer = 1..Len(buffer)
           /\ \A k \in 1..Len(buffer) : buffer'[k] = buffer[k]
  <1>1. publisher[p].pc = "numbered" /\ buffer' = Pushed(buffer, publisher[p].seq)
    BY DEF Buffer
  <1>2. Len(buffer) < BufferSize
    BY <1>1, Room
  <1>3. buffer' = Append(buffer, publisher[p].seq)
    BY <1>1, <1>2 DEF Pushed
  <1>4. buffer \in Seq(1..counter) /\ publisher[p].seq \in 1..counter
    BY <1>1, PublisherIs DEF Typed
  <1>. QED
    BY <1>3, <1>4, Longer

LEMMA BookedStep ==
    ASSUME StepInv, Booked, [Next]_vars
    PROVE  Booked'
  <1>1. Typed /\ Fresh
    BY DEF StepInv, StreamInv, OrderInv
  <1>2. counter \in Nat /\ BufferSize \in Nat /\ buffer \in Seq(1..counter)
        /\ publisher \in [Publishers -> Publishings(counter)] /\ DOMAIN buffer = 1..Len(buffer)
        /\ Len(buffer) \in Nat
    BY <1>1, StreamAssumption DEF Typed
  <1>3. ASSUME NEW p \in Publishers, Number(p)
        PROVE  Booked'
    <2>1. /\ publisher[p] = Idle /\ counter' = counter + 1 /\ buffer' = buffer
          /\ publisher' = [publisher EXCEPT ![p] = [pc |-> "numbered", seq |-> counter + 1]]
      BY <1>3 DEF Number
    <2>2. \A q \in Publishers : publisher'[q] =
              IF q = p THEN [pc |-> "numbered", seq |-> counter + 1] ELSE publisher[q]
      BY <1>2, <2>1
    <2>. SUFFICES ASSUME counter + 1 <= BufferSize
                  PROVE  Booked'
      BY <2>1 DEF Booked
    <2>3. counter <= BufferSize
      BY <1>2
    <2>4. \A i \in DOMAIN buffer : buffer[i] # counter + 1
      BY <1>2
    <2>5. ASSUME NEW n \in 1..counter'
          PROVE  \/ \E i \in DOMAIN buffer' : buffer'[i] = n
                 \/ \E q \in Publishers : publisher'[q].pc = "numbered" /\ publisher'[q].seq = n
      <3>1. CASE n = counter + 1
        BY <2>2, <3>1
      <3>2. CASE n \in 1..counter
        <4>1. CASE \E i \in DOMAIN buffer : buffer[i] = n
          BY <2>1, <4>1
        <4>2. CASE \E q \in Publishers : publisher[q].pc = "numbered" /\ publisher[q].seq = n
          <5>1. PICK q \in Publishers : publisher[q].pc = "numbered" /\ publisher[q].seq = n
            BY <4>2
          <5>2. q # p
            BY <2>1, <5>1 DEF Idle
          <5>. QED
            BY <2>2, <5>1, <5>2
        <4>. QED
          BY <2>3, <3>2, <4>1, <4>2 DEF Booked
      <3>. QED
        BY <1>2, <2>1, <3>1, <3>2
    <2>6. ASSUME NEW q \in Publishers, publisher'[q].pc = "numbered", NEW i \in DOMAIN buffer'
          PROVE  buffer'[i] # publisher'[q].seq
      BY <2>1, <2>2, <2>3, <2>4, <2>6 DEF Booked
    <2>7. \A i, j \in DOMAIN buffer' : buffer'[i] = buffer'[j] => i = j
      BY <2>1, <2>3 DEF Booked
    <2>. QED
      BY <2>5, <2>6, <2>7 DEF Booked
  <1>4. ASSUME NEW p \in Publishers, Buffer(p)
        PROVE  Booked'
    <2>. SUFFICES ASSUME counter <= BufferSize
                  PROVE  Booked'
      BY <1>4 DEF Buffer, Booked
    <2> DEFINE m == publisher[p].seq
    <2>1. /\ publisher[p].pc = "numbered" /\ counter' = counter
          /\ \A q \in Publishers \ {p} : publisher'[q] = publisher[q]
          /\ publisher'[p].pc = "buffered"
      BY <1>2, <1>4 DEF Buffer
    <2>2. /\ DOMAIN buffer' = 1..Len(buffer) + 1 /\ buffer'[Len(buffer) + 1] = m
          /\ \A k \in 1..Len(buffer) : buffer'[k] = buffer[k]
      BY <1>1, <1>4, Buffers
    <2>3. \A k \in 1..Len(buffer) : buffer[k] # m
      BY <1>2, <2>1 DEF Booked
    <2>4. ASSUME NEW q \in Publishers \ {p}, publisher[q].pc = "numbered"
          PROVE  publisher[q].seq # m
      BY <1>1, <2>1, <2>4 DEF Fresh
    <2>. HIDE DEF m
    <2>5. ASSUME NEW i \in DOMAIN buffer', NEW j \in DOMAIN buffer', buffer'[i] = buffer'[j]
          PROVE  i = j
      <3>1. (i \in 1..Len(buffer) \/ i = Len(buffer) + 1) /\ (j \in 1..Len(buffer) \/ j = Len(buffer) + 1)
        BY <1>2, <2>2
      <3>. QED
        BY <1>2, <2>2, <2>3, <2>5, <3>1 DEF Booked
    <2>6. ASSUME NEW q \in Publishers, publisher'[q].pc = "numbered", NEW i \in DOMAIN buffer'
          PROVE  buffer'[i] # publisher'[q].seq
      <3>1. q # p /\ publisher'[q] = publisher[q] /\ publisher[q].pc = "numbered"
        BY <2>1, <2>6
      <3>2. i \in 1..Len(buffer) \/ i = Len(buffer) + 1
        BY <1>2, <2>2
      <3>. QED
        BY <1>2, <2>2, <2>4, <3>1, <3>2 DEF Booked
    <2>7. ASSUME NEW n \in 1..counter'
          PROVE  \/ \E i \in DOMAIN buffer' : buffer'[i] = n
                 \/ \E q \in Publishers : publisher'[q].pc = "numbered" /\ publisher'[q].seq = n
      <3>0. n \in 1..counter
        BY <2>1
      <3>1. CASE \E i \in DOMAIN buffer : buffer[i] = n
        <4>1. PICK i \in 1..Len(buffer) : buffer[i] = n
          BY <1>2, <3>1
        <4>2. i \in DOMAIN buffer' /\ buffer'[i] = n
          BY <1>2, <2>2, <4>1
        <4>. QED
          BY <4>2
      <3>2. CASE \E q \in Publishers : publisher[q].pc = "numbered" /\ publisher[q].seq = n
        <4>1. PICK q \in Publishers : publisher[q].pc = "numbered" /\ publisher[q].seq = n
          BY <3>2
        <4>2. CASE q = p
          <5>1. Len(buffer) + 1 \in DOMAIN buffer' /\ buffer'[Len(buffer) + 1] = n
            BY <1>2, <2>2, <4>1, <4>2 DEF m
          <5>. QED
            BY <5>1
        <4>3. CASE q # p
          BY <2>1, <4>1, <4>3
        <4>. QED
          BY <4>2, <4>3
      <3>. QED
        BY <3>0, <3>1, <3>2 DEF Booked
    <2>. QED
      BY <2>5, <2>6, <2>7 DEF Booked
  <1>5. ASSUME NEW p \in Publishers, Deliver(p)
        PROVE  Booked'
    <2>1. /\ publisher[p].pc = "buffered" /\ UNCHANGED <<counter, buffer>>
          /\ \A q \in Publishers \ {p} : publisher'[q] = publisher[q]
          /\ publisher'[p] = Idle
      BY <1>2, <1>5 DEF Deliver
    <2>2. \A q \in Publishers : (publisher'[q].pc = "numbered") <=> (publisher[q].pc = "numbered")
      BY <2>1 DEF Idle
    <2>3. \A q \in Publishers : publisher[q].pc = "numbered" => publisher'[q] = publisher[q]
      BY <2>1
    <2>. QED
      BY <2>1, <2>2, <2>3 DEF Booked
  <1>6. CASE UNCHANGED <<counter, buffer, publisher>>
    BY <1>6 DEF Booked
  <1>7. CASE RunNext \/ Subscribe \/ Hello \/ Get \/ Told \/ Disconnect
    BY <1>6, <1>7 DEF RunNext, RunCallback, Subscribe, Hello, Get, Told, Disconnect, bus
  <1>8. CASE \/ ReceiveHello \/ ReceiveOverflow \/ ReceiveEvent
             \/ \E i \in DOMAIN fills : Answer(i) \/ Filled(i) \/ Refused(i)
    BY <1>6, <1>8 DEF ReceiveHello, ReceiveOverflow, ReceiveEvent, Answer, Filled, Refused, bus
  <1>9. CASE UNCHANGED vars
    BY <1>6, <1>9 DEF vars, bus
  <1>. QED
    BY <1>3, <1>4, <1>5, <1>7, <1>8, <1>9 DEF Next

\* What is out of turn stays so; and what comes to the buffer in its turn comes next.
LEMMA TurnBefore ==
    ASSUME StepInv, Booked, [Next]_vars, InTurn'
    PROVE  /\ InTurn
           /\ \/ UNCHANGED buffer
              \/ \E p \in Publishers : /\ Buffer(p) /\ publisher[p].seq = Len(buffer) + 1
                                       /\ Len(buffer') = Len(buffer) + 1
  <1>1. Typed /\ counter \in Nat /\ BufferSize \in Nat /\ DOMAIN buffer = 1..Len(buffer)
        /\ Len(buffer) \in Nat
    BY StreamAssumption DEF Typed, StepInv, StreamInv
  <1>5. ~cut
    <2>1. ~cut'
      BY DEF InTurn
    <2>2. CASE \/ ReceiveHello \/ ReceiveOverflow \/ ReceiveEvent
               \/ \E i \in DOMAIN fills : Answer(i) \/ Filled(i) \/ Refused(i)
      BY <2>1, <2>2 DEF ReceiveHello, ReceiveOverflow, ReceiveEvent, Answer, Filled, Refused
    <2>3. CASE UNCHANGED client
      BY <2>1, <2>3 DEF client
    <2>. QED
      BY <2>2, <2>3 DEF Next, Number, Buffer, Deliver, RunNext, RunCallback, Subscribe, Hello, Get,
         Told, Disconnect, vars
  <1>2. ASSUME NEW p \in Publishers, Buffer(p)
        PROVE  /\ InTurn /\ publisher[p].seq = Len(buffer) + 1 /\ Len(buffer') = Len(buffer) + 1
    <2>1. counter' = counter /\ counter <= BufferSize
      BY <1>2 DEF Buffer, InTurn
    <2>2. /\ DOMAIN buffer' = 1..Len(buffer) + 1 /\ Len(buffer') = Len(buffer) + 1
          /\ buffer'[Len(buffer) + 1] = publisher[p].seq
          /\ \A k \in 1..Len(buffer) : buffer'[k] = buffer[k]
      BY <1>1, <1>2, <2>1, Buffers
    <2>3. \A k \in 1..Len(buffer) : k \in DOMAIN buffer'
      BY <1>1, <2>2
    <2>4. Len(buffer) + 1 \in DOMAIN buffer'
      BY <1>1, <2>2
    <2>. QED
      BY <1>1, <1>5, <2>1, <2>2, <2>3, <2>4 DEF InTurn
  <1>3. ASSUME UNCHANGED buffer, counter' = counter \/ counter' = counter + 1
        PROVE  InTurn
    BY <1>1, <1>3, <1>5 DEF InTurn
  <1>4. ASSUME NEW p \in Publishers, Number(p) \/ Deliver(p)
        PROVE  UNCHANGED buffer /\ InTurn
    BY <1>3, <1>4 DEF Number, Deliver
  <1>7. CASE RunNext \/ Subscribe \/ Hello \/ Get \/ Told \/ Disconnect
    BY <1>3, <1>7 DEF RunNext, RunCallback, Subscribe, Hello, Get, Told, Disconnect, bus
  <1>8. CASE \/ ReceiveHello \/ ReceiveOverflow \/ ReceiveEvent
             \/ \E i \in DOMAIN fills : Answer(i) \/ Filled(i) \/ Refused(i)
    BY <1>3, <1>8 DEF ReceiveHello, ReceiveOverflow, ReceiveEvent, Answer, Filled, Refused, bus
  <1>9. CASE UNCHANGED vars
    BY <1>3, <1>9 DEF vars, bus
  <1>. QED
    BY <1>2, <1>4, <1>7, <1>8, <1>9 DEF Next

\* The places after a number can be counted.
LEMMA AfterIs ==
    ASSUME Typed, NEW m
    PROVE  Cardinality(After(m)) \in Nat /\ (~(Cardinality(After(m)) > Limit) => Cardinality(After(m)) <= Limit)
  <1>1. Len(buffer) \in Nat /\ DOMAIN buffer = 1..Len(buffer)
    BY DEF Typed
  <1>2. IsFiniteSet(1..Len(buffer))
    BY <1>1, FS_Interval
  <1>3. After(m) \subseteq 1..Len(buffer)
    BY <1>1 DEF After
  <1>4. Cardinality(After(m)) \in Nat
    BY <1>2, <1>3, FS_Subset, FS_CardinalityType
  <1>. QED
    BY <1>4, StreamAssumption

\* The buffer's newest number, and what it has after a number, if that fits in an answer.
LEMMA InTurnIs ==
    ASSUME Typed, InTurn
    PROVE  /\ LastSeq = Len(buffer) /\ Len(buffer) \in 0..counter
           /\ \A m \in Nat : Cardinality(After(m)) <= Limit => Since(m) = m+1..Len(buffer)
  <1>1. /\ counter \in Nat /\ Len(buffer) \in Nat /\ DOMAIN buffer = 1..Len(buffer)
        /\ buffer \in Seq(1..counter)
    BY DEF Typed
  <1>2. Len(buffer) \in 0..counter
    <2>1. CASE Len(buffer) > 0
      <3>1. Len(buffer) \in DOMAIN buffer
        BY <1>1, <2>1
      <3>2. buffer[Len(buffer)] \in 1..counter
        BY <1>1, <3>1
      <3>. QED
        BY <1>1, <3>1, <3>2 DEF InTurn
    <2>. QED
      BY <1>1, <2>1
  <1>3. LastSeq = Len(buffer)
    <2>1. CASE buffer = <<>>
      <3>1. Len(<<>>) = 0
        OBVIOUS
      <3>. QED
        BY <2>1, <3>1 DEF LastSeq
    <2>2. CASE buffer # <<>>
      <3>1. Len(buffer) \in DOMAIN buffer
        BY <1>1, <2>2
      <3>. QED
        BY <2>2, <3>1 DEF LastSeq, Last, InTurn
    <2>. QED
      BY <2>1, <2>2
  <1>4. ASSUME NEW m \in Nat, Cardinality(After(m)) <= Limit
        PROVE  Since(m) = m+1..Len(buffer)
    <2>1. After(m) = m+1..Len(buffer)
      BY <1>1 DEF After, InTurn
    <2>2. IsFiniteSet(After(m)) /\ Cardinality(After(m)) \in Nat
      <3>1. \A a, b \in Int : IsFiniteSet(a..b)
        BY FS_Interval
      <3>2. m + 1 \in Int /\ Len(buffer) \in Int
        BY <1>1
      <3>3. IsFiniteSet(After(m))
        BY <2>1, <3>1, <3>2
      <3>. QED
        BY <3>3, FS_CardinalityType
    <2>3. ASSUME NEW j \in After(m)
          PROVE  Cardinality({k \in After(m) : k <= j}) <= Limit
      <3> DEFINE S == {k \in After(m) : k <= j}
      <3>1. S \subseteq After(m)
        OBVIOUS
      <3>. HIDE DEF S
      <3>2. Cardinality(S) \in Nat /\ Cardinality(S) <= Cardinality(After(m))
        BY <2>2, <3>1, FS_Subset, FS_CardinalityType
      <3>3. Cardinality(S) <= Limit
        BY <1>4, <2>2, <3>2, StreamAssumption
      <3>. QED
        BY <3>3 DEF S
    <2>4. Since(m) = {buffer[i] : i \in After(m)}
      BY <2>3 DEF Since
    <2>5. \A i \in After(m) : buffer[i] = i
      BY DEF After, InTurn
    <2>. QED
      BY <2>1, <2>4, <2>5
  <1>. QED
    BY <1>2, <1>3, <1>4

\* take() never goes back, and takes the whole of an answer that follows on.
LEMMA TakesAll ==
    ASSUME Typed, NEW answer \in SUBSET (1..counter), NEW frame \in 0..counter,
           Take(answer, frame)
    PROVE  /\ last <= last' /\ last' \in 0..counter
           /\ \A a, b \in Nat : (answer = a+1..b /\ a <= last) => b <= last'
           /\ frame <= last + 1 => frame <= last'
  <1> DEFINE middle == RunEnd(last, answer)
             end == RunEnd(middle, {frame})
  <1>0. counter \in Nat /\ last \in 0..counter
    BY DEF Typed
  <1>1. middle \in last..counter
    BY RunEnds DEF Typed
  <1>2. end \in middle..counter
    <2>1. middle \in 0..counter /\ {frame} \in SUBSET (0..counter)
      BY <1>1 DEF Typed
    <2>. HIDE DEF middle
    <2>. QED
      BY <2>1, RunEnds DEF Typed
  <1>3. last' = end
    BY DEF Take
  <1>4. ASSUME NEW a \in Nat, NEW b \in Nat, answer = a+1..b, a <= last
        PROVE  b <= middle
    <2>1. middle + 1 \notin answer
      BY <1>0, RunEnds
    <2>. HIDE DEF middle
    <2>. QED
      BY <1>0, <1>1, <1>4, <2>1
  <1>5. frame <= last + 1 => frame <= end
    <2>1. middle \in 0..counter /\ {frame} \in SUBSET (0..counter)
      BY <1>0, <1>1
    <2>. HIDE DEF middle
    <2>2. end + 1 \notin {frame}
      BY <1>0, <2>1, RunEnds
    <2>. HIDE DEF end
    <2>. QED
      BY <1>0, <1>1, <1>2, <2>2
  <1>. HIDE DEF middle, end
  <1>. QED
    BY <1>0, <1>1, <1>2, <1>3, <1>4, <1>5

\* What is left of a sequence from which an element was removed.
LEMMA RemovedHolds ==
    ASSUME NEW T, NEW s \in Seq(T), NEW i \in 1..Len(s)
    PROVE  /\ \A k \in DOMAIN RemoveAt(s, i) : \E j \in DOMAIN s : RemoveAt(s, i)[k] = s[j]
           /\ \A j \in DOMAIN s : j # i => \E k \in DOMAIN RemoveAt(s, i) : RemoveAt(s, i)[k] = s[j]
  <1> DEFINE a == SubSeq(s, 1, i - 1)
             b == SubSeq(s, i + 1, Len(s))
  <1>1. Len(s) \in Nat /\ DOMAIN s = 1..Len(s) /\ i \in Nat
    OBVIOUS
  <1>2. /\ a \in Seq(T) /\ Len(a) = i - 1
        /\ \A k \in 1..i - 1 : a[k] = s[k]
    OBVIOUS
  <1>3. /\ b \in Seq(T) /\ Len(b) = Len(s) - i
        /\ \A k \in 1..Len(s) - i : b[k] = s[i + k]
    OBVIOUS
  <1>4. RemoveAt(s, i) = a \o b
    BY DEF RemoveAt
  <1>. HIDE DEF a, b
  <1>5. /\ a \o b \in Seq(T) /\ Len(a \o b) = Len(a) + Len(b)
        /\ \A k \in 1..Len(a) : (a \o b)[k] = a[k]
        /\ \A k \in 1..Len(b) : (a \o b)[Len(a) + k] = b[k]
    <2>1. a \in Seq(T) /\ b \in Seq(T)
      BY <1>2, <1>3
    <2>. HIDE DEF a, b
    <2>. QED
      BY <2>1
  <1> DEFINE r == a \o b
  <1>. HIDE DEF r
  <1>6. /\ DOMAIN r = 1..Len(s) - 1
        /\ \A k \in 1..i - 1 : r[k] = s[k]
        /\ \A k \in 1..Len(s) - i : r[i - 1 + k] = s[i + k]
    <2>1. DOMAIN r = 1..Len(s) - 1
      <3>1. r \in Seq(T) /\ Len(r) = Len(a) + Len(b)
        BY <1>5 DEF r
      <3>2. Len(r) = Len(s) - 1 /\ DOMAIN r = 1..Len(r)
        BY <1>1, <1>2, <1>3, <3>1
      <3>. QED
        BY <3>2
    <2>2. \A k \in 1..i - 1 : r[k] = s[k]
      BY <1>1, <1>2, <1>5 DEF r
    <2>3. \A k \in 1..Len(s) - i : r[i - 1 + k] = s[i + k]
      BY <1>1, <1>2, <1>3, <1>5 DEF r
    <2>. QED
      BY <2>1, <2>2, <2>3
  <1>7. ASSUME NEW k \in DOMAIN r
        PROVE  \E j \in DOMAIN s : r[k] = s[j]
    <2>1. CASE k < i
      BY <1>1, <1>6, <2>1
    <2>2. CASE ~(k < i)
      <3>1. PICK m \in 1..Len(s) - i : k = i - 1 + m
        <4>1. k - i + 1 \in 1..Len(s) - i /\ k = i - 1 + (k - i + 1)
          BY <1>1, <1>6, <2>2
        <4>. QED
          BY <4>1
      <3>2. i + m \in DOMAIN s
        BY <1>1, <3>1
      <3>. QED
        BY <1>6, <3>1, <3>2
    <2>. QED
      BY <2>1, <2>2
  <1>8. ASSUME NEW j \in DOMAIN s, j # i
        PROVE  \E k \in DOMAIN r : r[k] = s[j]
    <2>1. CASE j < i
      <3>1. j \in DOMAIN r /\ j \in 1..i - 1
        BY <1>1, <1>6, <2>1
      <3>. QED
        BY <1>6, <3>1
    <2>2. CASE ~(j < i)
      <3>1. PICK m \in 1..Len(s) - i : j = i + m
        <4>1. j - i \in 1..Len(s) - i /\ j = i + (j - i)
          BY <1>1, <1>8, <2>2
        <4>. QED
          BY <4>1
      <3>2. i - 1 + m \in DOMAIN r
        BY <1>1, <1>6, <3>1
      <3>. QED
        BY <1>6, <3>1, <3>2
    <2>. QED
      BY <2>1, <2>2
  <1>. QED
    BY <1>4, <1>7, <1>8 DEF r

LEMMA RequestIs ==
    ASSUME Typed, NEW i \in DOMAIN fills
    PROVE  /\ i \in 1..Len(fills) /\ fills[i] \in Requests(counter)
           /\ fills[i].since \in 0..counter /\ fills[i].frame \in 0..counter
           /\ fills[i].answered \in BOOLEAN /\ fills[i].answer \in SUBSET (1..counter)
  <1>1. i \in 1..Len(fills) /\ fills[i] \in Requests(counter)
    BY DEF Typed
  <1>. QED
    BY <1>1 DEF Requests

\* Whatever asks, asks from where the client is.
LEMMA AskIs ==
    ASSUME Typed, NEW f \in 0..counter, Ask(f)
    PROVE  /\ DOMAIN fills = 1..Len(fills) /\ DOMAIN fills' = 1..Len(fills) + 1 /\ Len(fills) \in Nat
           /\ \A k \in 1..Len(fills) : fills'[k] = fills[k]
           /\ fills'[Len(fills) + 1].since = last /\ ~fills'[Len(fills) + 1].answered
  <1> DEFINE r == [since |-> last, frame |-> f, answered |-> FALSE, answer |-> {}]
  <1>1. r \in Requests(counter) /\ fills \in Seq(Requests(counter)) /\ fills' = Append(fills, r)
    BY DEF Typed, Requests, Ask
  <1>2. r.since = last /\ ~r.answered
    OBVIOUS
  <1>. HIDE DEF r
  <1>3. /\ Append(fills, r) \in Seq(Requests(counter)) /\ Len(Append(fills, r)) = Len(fills) + 1
        /\ Append(fills, r)[Len(fills) + 1] = r
        /\ \A k \in 1..Len(fills) : Append(fills, r)[k] = fills[k]
    BY <1>1, Longer
  <1>. QED
    BY <1>1, <1>2, <1>3

LEMMA AnswersStep ==
    ASSUME StepInv, Booked, AnswersFollowOn, [Next]_vars, Started
    PROVE  AnswersFollowOn'
  <1>1. Typed /\ Greeted /\ DOMAIN fills = 1..Len(fills) /\ Len(fills) \in Nat /\ counter \in Nat
        /\ last \in 0..counter
    BY DEF Typed, StepInv, StreamInv
  <1>2. InTurn' => InTurn
    BY TurnBefore
  <1>3. ASSUME \A k \in DOMAIN fills' : \E j \in DOMAIN fills : fills'[k] = fills[j],
               last <= last', last' \in Nat
        PROVE  AnswersFollowOn'
    <2>. SUFFICES ASSUME NEW k \in DOMAIN fills'
                  PROVE  /\ fills'[k].since <= last'
                         /\ InTurn' /\ fills'[k].answered =>
                                \E b \in Nat : fills'[k].answer = fills'[k].since+1..b
      BY DEF AnswersFollowOn
    <2>1. PICK j \in DOMAIN fills : fills'[k] = fills[j]
      BY <1>3
    <2>2. fills[j].since \in Nat
      BY <1>1, RequestIs
    <2>3. fills[j].since <= last'
      BY <1>1, <1>3, <2>2 DEF AnswersFollowOn
    <2>4. InTurn /\ fills[j].answered => \E b \in Nat : fills[j].answer = fills[j].since+1..b
      BY DEF AnswersFollowOn
    <2>. QED
      BY <1>2, <2>1, <2>3, <2>4
  <1>4. ASSUME UNCHANGED <<fills, last>>
        PROVE  AnswersFollowOn'
    BY <1>1, <1>3, <1>4
  <1>5. ASSUME NEW f \in 0..counter, Ask(f), UNCHANGED last
        PROVE  AnswersFollowOn'
    <2>. SUFFICES ASSUME NEW k \in DOMAIN fills'
                  PROVE  /\ fills'[k].since <= last'
                         /\ InTurn' /\ fills'[k].answered =>
                                \E b \in Nat : fills'[k].answer = fills'[k].since+1..b
      BY DEF AnswersFollowOn
    <2>1. /\ DOMAIN fills' = 1..Len(fills) + 1
          /\ \A j \in 1..Len(fills) : fills'[j] = fills[j]
          /\ fills'[Len(fills) + 1].since = last /\ ~fills'[Len(fills) + 1].answered
      BY <1>1, <1>5, AskIs
    <2>2. CASE k \in 1..Len(fills)
      <3>1. fills'[k] = fills[k] /\ k \in DOMAIN fills
        BY <1>1, <2>1, <2>2
      <3>2. /\ fills[k].since <= last
            /\ InTurn /\ fills[k].answered => \E b \in Nat : fills[k].answer = fills[k].since+1..b
        BY <3>1 DEF AnswersFollowOn
      <3>. QED
        BY <1>2, <1>5, <3>1, <3>2
    <2>3. CASE k = Len(fills) + 1
      BY <1>1, <1>5, <2>1, <2>3
    <2>. QED
      BY <1>1, <2>1, <2>2, <2>3
  <1>6. CASE ReceiveHello
    <2>1. Head(wire).op = "hello" /\ wire # <<>>
      BY <1>6 DEF ReceiveHello, Received
    <2>2. CASE ~seenHello
      <3>1. fills = <<>> /\ UNCHANGED fills
        BY <1>1, <1>6, <2>2 DEF ReceiveHello, Greeted
      <3>. QED
        BY <3>1 DEF AnswersFollowOn
    <2>3. CASE seenHello
      <3>1. (Ask(0) \/ UNCHANGED fills) /\ UNCHANGED last
        BY <1>6, <2>3 DEF ReceiveHello
      <3>2. 0 \in 0..counter
        BY <1>1
      <3>. QED
        BY <1>4, <1>5, <3>1, <3>2
    <2>. QED
      BY <2>2, <2>3
  <1>7. CASE ReceiveOverflow
    <2>1. 0 \in 0..counter
      BY <1>1
    <2>. QED
      BY <1>5, <1>7, <2>1 DEF ReceiveOverflow
  <1>8. CASE ReceiveEvent
    <2>1. Head(wire).op = "event" /\ wire # <<>>
      BY <1>8 DEF ReceiveEvent, Received
    <2>2. Head(wire).seq \in 0..counter
      BY <1>1, <2>1, TailOf DEF Typed, Frames
    <2>3. CASE Ask(Head(wire).seq) /\ UNCHANGED last
      BY <1>5, <2>2, <2>3
    <2>4. CASE Take({}, Head(wire).seq) /\ UNCHANGED fills
      <3>1. last <= last' /\ last' \in 0..counter
        BY <1>1, <2>2, <2>4, TakesAll
      <3>. QED
        BY <1>3, <2>4, <3>1
    <2>. QED
      BY <1>8, <2>3, <2>4 DEF ReceiveEvent
  <1>9. ASSUME NEW i \in DOMAIN fills, Answer(i)
        PROVE  AnswersFollowOn'
    <2>1. /\ fills' = [fills EXCEPT ![i].answered = TRUE, ![i].answer = Since(fills[i].since)]
          /\ UNCHANGED <<bus, last>>
      BY <1>9 DEF Answer
    <2>2. /\ DOMAIN fills' = DOMAIN fills
          /\ \A k \in DOMAIN fills : k # i => fills'[k] = fills[k]
          /\ fills'[i].since = fills[i].since /\ fills'[i].answer = Since(fills[i].since)
      <3>1. fills[i] \in Requests(counter)
        BY <1>1, RequestIs
      <3>. QED
        BY <1>1, <2>1, <3>1 DEF Requests
    <2>3. fills[i].since \in Nat
      BY <1>1, RequestIs
    <2>4. InTurn' => \E b \in Nat : Since(fills[i].since) = fills[i].since+1..b
      <3>1. ASSUME InTurn'
            PROVE  Len(buffer) \in Nat /\ Since(fills[i].since) = fills[i].since+1..Len(buffer)
        <4>1. Len(buffer) \in 0..counter
              /\ \A m \in Nat : Cardinality(After(m)) <= Limit => Since(m) = m+1..Len(buffer)
          BY <1>1, <1>2, <3>1, InTurnIs
        <4>2. PICK m \in Nat : m = fills[i].since
          BY <2>3
        <4>3. Since(m) = m+1..Len(buffer)
          <5>1. ~(Cardinality(After(m)) > Limit)
            BY <1>9, <3>1, <4>2 DEF Answer, InTurn
          <5>2. Cardinality(After(m)) <= Limit
            BY <1>1, <5>1, AfterIs
          <5>. QED
            BY <4>1, <5>2
        <4>. QED
          BY <1>1, <4>1, <4>2, <4>3
      <3>. QED
        BY <3>1
    <2>. SUFFICES ASSUME NEW k \in DOMAIN fills'
                  PROVE  /\ fills'[k].since <= last'
                         /\ InTurn' /\ fills'[k].answered =>
                                \E b \in Nat : fills'[k].answer = fills'[k].since+1..b
      BY DEF AnswersFollowOn
    <2>5. CASE k = i
      BY <1>2, <2>1, <2>2, <2>4, <2>5 DEF AnswersFollowOn
    <2>6. CASE k # i
      <3>1. fills'[k] = fills[k] /\ k \in DOMAIN fills
        BY <2>2, <2>6
      <3>2. /\ fills[k].since <= last
            /\ InTurn /\ fills[k].answered => \E b \in Nat : fills[k].answer = fills[k].since+1..b
        BY <3>1 DEF AnswersFollowOn
      <3>. QED
        BY <1>2, <2>1, <3>1, <3>2
    <2>. QED
      BY <2>5, <2>6
  <1>10. ASSUME NEW i \in DOMAIN fills, Filled(i) \/ Refused(i)
         PROVE  AnswersFollowOn'
    <2>1. /\ fills' = RemoveAt(fills, i)
          /\ Take(fills[i].answer, fills[i].frame) \/ Take({}, fills[i].frame)
      BY <1>10 DEF Filled, Refused
    <2>2. last <= last' /\ last' \in 0..counter
      <3>1. /\ fills[i].frame \in 0..counter /\ fills[i].answer \in SUBSET (1..counter)
            /\ {} \in SUBSET (1..counter)
        BY <1>1, RequestIs
      <3>. QED
        BY <1>1, <2>1, <3>1, TakesAll
    <2>3. \A k \in DOMAIN fills' : \E j \in DOMAIN fills : fills'[k] = fills[j]
      <3>1. fills \in Seq(Requests(counter)) /\ i \in 1..Len(fills)
        BY <1>1 DEF Typed
      <3>. QED
        BY <2>1, <3>1, RemovedHolds
    <2>. QED
      BY <1>3, <2>2, <2>3
  <1>11. ASSUME NEW p \in Publishers, Number(p) \/ Buffer(p) \/ Deliver(p)
         PROVE  AnswersFollowOn'
    BY <1>4, <1>11 DEF Number, Buffer, Deliver, client
  <1>12. CASE RunNext \/ Subscribe \/ Hello \/ Get \/ Told \/ Disconnect
    BY <1>4, <1>12 DEF RunNext, RunCallback, Subscribe, Hello, Get, Told, Disconnect, client
  <1>13. CASE UNCHANGED vars
    BY <1>4, <1>13 DEF vars, client
  <1>. QED
    BY <1>6, <1>7, <1>8, <1>9, <1>10, <1>11, <1>12, <1>13 DEF Next

LEMMA StartedStep ==
    ASSUME StepInv, Started, [Next]_vars
    PROVE  Started'
  <1>1. Typed /\ Greeted /\ connection \in Nat
    BY DEF Typed, StepInv, StreamInv
  <1>2. link' \in {"subscribed", "open"} => connection' > 0
    <2>1. CASE UNCHANGED hub
      BY <2>1 DEF hub, Started
    <2>2. CASE UNCHANGED <<link, connection>>
      BY <2>2 DEF Started
    <2>3. CASE RunNext \/ Subscribe \/ Hello \/ Get \/ Told \/ Disconnect
      BY <1>1, <2>2, <2>3 DEF RunNext, RunCallback, Subscribe, Hello, Get, Told, Disconnect, Started
    <2>4. ASSUME NEW p \in Publishers, Number(p) \/ Buffer(p) \/ Deliver(p)
          PROVE  UNCHANGED <<link, connection>>
      BY <2>4 DEF Number, Buffer, Deliver, hub
    <2>5. CASE \/ ReceiveHello \/ ReceiveOverflow \/ ReceiveEvent
               \/ \E i \in DOMAIN fills : Answer(i) \/ Filled(i) \/ Refused(i)
      BY <2>1, <2>5 DEF ReceiveHello, ReceiveOverflow, ReceiveEvent, Answer, Filled, Refused
    <2>6. CASE UNCHANGED vars
      BY <2>1, <2>6 DEF vars
    <2>. QED
      BY <2>2, <2>3, <2>4, <2>5, <2>6 DEF Next
  <1>3. ~seenHello' => last' = 0
    <2>1. CASE UNCHANGED <<seenHello, last>>
      BY <2>1 DEF Started
    <2>2. CASE seenHello'
      BY <2>2
    <2>3. CASE RunNext \/ Subscribe \/ Hello \/ Get \/ Told \/ Disconnect
      BY <2>1, <2>3 DEF RunNext, RunCallback, Subscribe, Hello, Get, Told, Disconnect, client
    <2>4. ASSUME NEW p \in Publishers, Number(p) \/ Buffer(p) \/ Deliver(p)
          PROVE  UNCHANGED <<seenHello, last>>
      BY <2>4 DEF Number, Buffer, Deliver, client
    <2>5. CASE ReceiveHello
      BY <2>1, <2>2, <2>5 DEF ReceiveHello
    <2>6. CASE ReceiveOverflow
      BY <2>1, <2>6 DEF ReceiveOverflow
    <2>7. CASE ReceiveEvent
      <3>1. UNCHANGED seenHello /\ Head(wire).op = "event" /\ wire # <<>>
        BY <2>7 DEF ReceiveEvent, Received
      <3>2. seenHello
        BY <1>1, <3>1 DEF Greeted
      <3>. QED
        BY <2>2, <3>1, <3>2
    <2>8. ASSUME NEW i \in DOMAIN fills, Answer(i) \/ Filled(i) \/ Refused(i)
          PROVE  seenHello'
      <3>1. UNCHANGED seenHello /\ fills # <<>>
        BY <2>8, <1>1 DEF Answer, Filled, Refused, Typed
      <3>. QED
        BY <1>1, <3>1 DEF Greeted
    <2>9. CASE UNCHANGED vars
      BY <2>1, <2>9 DEF vars, client
    <2>. QED
      BY <2>1, <2>2, <2>3, <2>4, <2>5, <2>6, <2>7, <2>8, <2>9 DEF Next
  <1>. QED
    BY <1>2, <1>3 DEF Started

Holds(s, n) == \E k \in DOMAIN s : s[k] = n

LEMMA PutCarries ==
    ASSUME Typed, NEW m \in 1..counter, Put(m)
    PROVE  /\ \A n \in Nat : Holds(queue, n) => Holds(queue', n)
           /\ \A n \in untold : n \in untold'
           /\ Holds(queue', m) \/ m \in untold'
  <1>1. queue \in Seq(1..counter) /\ Len(queue) \in Nat
    BY DEF Typed
  <1>2. CASE Len(queue) < QueueSize
    <2>1. queue' = Append(queue, m) /\ UNCHANGED untold
      BY <1>2 DEF Put
    <2>2. /\ DOMAIN queue' = 1..Len(queue) + 1 /\ queue'[Len(queue) + 1] = m
          /\ \A k \in 1..Len(queue) : queue'[k] = queue[k]
      BY <1>1, <2>1, Longer
    <2>3. Len(queue) + 1 \in DOMAIN queue' /\ \A k \in DOMAIN queue : k \in DOMAIN queue' /\ k \in 1..Len(queue)
      BY <1>1, <2>2
    <2>. QED
      BY <2>1, <2>2, <2>3 DEF Holds
  <1>3. CASE ~(Len(queue) < QueueSize)
    BY <1>3 DEF Put, Holds
  <1>. QED
    BY <1>2, <1>3

\* Appending to the wire loses nothing of it.
LEMMA WireCarries ==
    ASSUME Typed, NEW frame \in Frames(counter), wire' = Append(wire, frame), NEW n
    PROVE  /\ (\E k \in DOMAIN wire : Shows(wire[k], n)) => \E k \in DOMAIN wire' : Shows(wire'[k], n)
           /\ Shows(frame, n) => \E k \in DOMAIN wire' : Shows(wire'[k], n)
  <1>1. wire \in Seq(Frames(counter)) /\ Len(wire) \in Nat
    BY DEF Typed
  <1>2. /\ DOMAIN wire' = 1..Len(wire) + 1 /\ wire'[Len(wire) + 1] = frame
        /\ \A k \in 1..Len(wire) : wire'[k] = wire[k]
    BY <1>1, Longer
  <1>3. Len(wire) + 1 \in DOMAIN wire' /\ \A k \in DOMAIN wire : k \in DOMAIN wire' /\ k \in 1..Len(wire)
    BY <1>1, <1>2
  <1>. QED
    BY <1>2, <1>3

\* The threads: what one hands over is in the queue, among the callbacks or told as lost.
LEMMA PublishingFollowed ==
    ASSUME StepInv, Started, NEW p \in Publishers, link = "open",
           Number(p) \/ Buffer(p) \/ Deliver(p), NEW n \in 1..counter, Reached(n)
    PROVE  Reached(n)'
  <1>1. Typed /\ publisher \in [Publishers -> Publishings(counter)] /\ connection > 0
    BY DEF StepInv, StreamInv, Typed, Started
  <1>2. CASE Number(p) \/ Buffer(p)
    <2>1. /\ UNCHANGED <<callbacks, hub, wire, client>> /\ publisher[p].pc # "buffered"
          /\ \A q \in Publishers \ {p} : publisher'[q] = publisher[q]
      BY <1>1, <1>2 DEF Number, Buffer, Idle
    <2>2. \A q \in Publishers : publisher[q].pc = "buffered" => publisher'[q] = publisher[q]
      BY <2>1
    <2>. QED
      BY <2>1, <2>2 DEF Reached, Underway, Brings, hub, client
  <1>3. CASE Deliver(p)
    <2> DEFINE m == publisher[p].seq
               target == publisher[p].target
    <2>1. /\ UNCHANGED <<link, connection, pump, wire, client>> /\ publisher[p].pc = "buffered"
          /\ \A q \in Publishers \ {p} : publisher'[q] = publisher[q]
      BY <1>1, <1>3 DEF Deliver
    <2>2. m \in 1..counter /\ target \in Nat
      BY <1>1, <2>1, PublisherIs
    <2>3. /\ \A k \in DOMAIN callbacks : k \in DOMAIN callbacks' /\ callbacks'[k] = callbacks[k]
          /\ p \notin OnLoop /\ target = connection =>
                 \E k \in DOMAIN callbacks' : callbacks'[k].to = connection /\ callbacks'[k].seq = m
      <3>1. CASE p \in OnLoop \/ target = 0
        BY <1>1, <1>3, <3>1 DEF Deliver
      <3>2. CASE p \notin OnLoop /\ target # 0
        <4> DEFINE c == [to |-> target, seq |-> m]
        <4>1. callbacks' = Append(callbacks, c)
          BY <1>3, <3>2 DEF Deliver
        <4>2. callbacks \in Seq(Handed(counter)) /\ c \in Handed(counter) /\ Len(callbacks) \in Nat
          BY <1>1, <2>2 DEF Typed, Handed
        <4>3. c.to = target /\ c.seq = m
          OBVIOUS
        <4>. HIDE DEF c
        <4>4. /\ DOMAIN callbacks' = 1..Len(callbacks) + 1 /\ callbacks'[Len(callbacks) + 1] = c
              /\ \A k \in 1..Len(callbacks) : callbacks'[k] = callbacks[k]
          BY <4>1, <4>2, Longer
        <4>5. Len(callbacks) + 1 \in DOMAIN callbacks'
              /\ \A k \in DOMAIN callbacks : k \in DOMAIN callbacks' /\ k \in 1..Len(callbacks)
          BY <4>2, <4>4
        <4>. QED
          BY <4>3, <4>4, <4>5
      <3>. QED
        BY <3>1, <3>2
    <2>4. /\ Holds(queue, n) => Holds(queue', n)
          /\ n \in untold => n \in untold'
          /\ p \in OnLoop /\ target = connection => Holds(queue', m) \/ m \in untold'
      <3>1. CASE p \in OnLoop /\ target = connection
        <4>1. Put(m)
          BY <1>3, <3>1 DEF Deliver
        <4>2. m \in 1..counter
          BY <2>2
        <4>. HIDE DEF m
        <4>3. /\ \A j \in Nat : Holds(queue, j) => Holds(queue', j)
              /\ \A j \in untold : j \in untold'
              /\ Holds(queue', m) \/ m \in untold'
          BY <1>1, <4>1, <4>2, PutCarries
        <4>. QED
          BY <4>3
      <3>2. CASE ~(p \in OnLoop /\ target = connection)
        <4>1. UNCHANGED <<queue, untold>>
          BY <1>3, <3>2 DEF Deliver
        <4>. QED
          BY <3>2, <4>1 DEF Holds
      <3>. QED
        BY <3>1, <3>2
    <2>5. CASE n = m /\ target = connection
      <3>1. (Holds(queue', n) \/ n \in untold') \/ \E k \in DOMAIN callbacks' :
                callbacks'[k].to = connection /\ callbacks'[k].seq = n
        BY <2>3, <2>4, <2>5
      <3>. QED
        BY <2>1, <3>1 DEF Reached, Underway, Holds
    <2>6. CASE ~(n = m /\ target = connection)
      <3>1. ASSUME NEW q \in Publishers, publisher[q].pc = "buffered", publisher[q].seq = n,
                   publisher[q].target = connection
            PROVE  publisher'[q] = publisher[q]
        BY <2>1, <2>6, <3>1
      <3>. QED
        BY <2>1, <2>3, <2>4, <3>1 DEF Reached, Underway, Holds, Brings, client
    <2>. QED
      BY <2>5, <2>6
  <1>. QED
    BY <1>2, <1>3

\* The loop and the pump.
LEMMA HubFollowed ==
    ASSUME StepInv, link = "open", ~missed', link' = "open",
           RunNext \/ Get \/ Told, NEW n \in 1..counter, Reached(n)
    PROVE  Reached(n)'
  <1>1. Typed /\ Counted /\ counter \in Nat
    BY DEF StepInv, StreamInv, Typed
  <1>2. CASE RunNext
    <2> DEFINE m == callbacks[1].seq
    <2>1. /\ UNCHANGED <<publisher, link, connection, pump, wire, client>>
          /\ callbacks' = RemoveAt(callbacks, 1) /\ 1 \in DOMAIN callbacks
      BY <1>2 DEF RunNext, RunCallback
    <2>2. /\ callbacks \in Seq(Handed(counter)) /\ 1 \in 1..Len(callbacks)
          /\ m \in 1..counter
      BY <1>1, <2>1, CallbackIs DEF Typed
    <2>3. \A j \in DOMAIN callbacks : j # 1 => \E k \in DOMAIN callbacks' : callbacks'[k] = callbacks[j]
      BY <2>1, <2>2, RemovedHolds
    <2>4. /\ Holds(queue, n) => Holds(queue', n)
          /\ n \in untold => n \in untold'
          /\ callbacks[1].to = connection => Holds(queue', m) \/ m \in untold'
      <3>1. CASE callbacks[1].to = connection
        <4>1. Put(m)
          BY <1>2, <3>1 DEF RunNext, RunCallback
        <4>2. m \in 1..counter
          BY <2>2
        <4>. HIDE DEF m
        <4>3. /\ \A j \in Nat : Holds(queue, j) => Holds(queue', j)
              /\ \A j \in untold : j \in untold'
              /\ Holds(queue', m) \/ m \in untold'
          BY <1>1, <4>1, <4>2, PutCarries
        <4>. QED
          BY <4>3
      <3>2. CASE callbacks[1].to # connection
        <4>1. UNCHANGED <<queue, untold>>
          BY <1>2, <3>2 DEF RunNext, RunCallback
        <4>. QED
          BY <3>2, <4>1 DEF Holds
      <3>. QED
        BY <3>1, <3>2
    <2>5. CASE n = m /\ callbacks[1].to = connection
      <3>1. (Holds(queue', n) \/ n \in untold')
        BY <2>4, <2>5
      <3>. QED
        BY <3>1 DEF Reached, Underway, Holds
    <2>6. CASE ~(n = m /\ callbacks[1].to = connection)
      <3>1. ASSUME NEW j \in DOMAIN callbacks, callbacks[j].to = connection, callbacks[j].seq = n
            PROVE  \E k \in DOMAIN callbacks' : callbacks'[k].to = connection /\ callbacks'[k].seq = n
        BY <2>3, <2>6, <3>1
      <3>. QED
        BY <2>1, <2>4, <3>1 DEF Reached, Underway, Holds, Brings, client
    <2>. QED
      BY <2>5, <2>6
  <1>3. CASE Get
    <2>1. /\ UNCHANGED <<bus, link, connection, client>> /\ queue # <<>> /\ queue' = Tail(queue)
          /\ pump = 0 /\ ~missed
      BY <1>3 DEF Get
    <2>2. /\ queue \in Seq(1..counter) /\ Len(queue) \in Nat /\ Head(queue) \in 1..counter
          /\ Head(queue) = queue[1]
          /\ Len(queue') = Len(queue) - 1 /\ queue' \in Seq(1..counter)
          /\ \A k \in 1..Len(queue) - 1 : queue'[k] = queue[k + 1]
      BY <1>1, <2>1, TailOf DEF Typed
    <2>3. Holds(queue, n) => Holds(queue', n) \/ n = Head(queue)
      <3>. SUFFICES ASSUME NEW k \in DOMAIN queue, queue[k] = n, k # 1
                    PROVE  Holds(queue', n)
        BY <2>2 DEF Holds
      <3>1. PICK j \in 1..Len(queue) - 1 : k = j + 1
        <4>1. k - 1 \in 1..Len(queue) - 1 /\ k = (k - 1) + 1
          BY <2>2
        <4>. QED
          BY <4>1
      <3>2. j \in DOMAIN queue' /\ queue'[j] = n
        BY <2>2, <3>1
      <3>. QED
        BY <3>2 DEF Holds
    <2>4. CASE dropped = 0
      <3>1. wire' = Append(wire, Frame(Head(queue))) /\ UNCHANGED <<pump, untold>>
        BY <1>3, <2>4 DEF Get
      <3>2. untold = {}
        BY <1>1, <2>1, <2>4 DEF Counted
      <3>3. Frame(Head(queue)) \in Frames(counter)
        BY <2>2 DEF Frame, Frames
      <3>4. n = Head(queue) => Shows(Frame(Head(queue)), n)
        BY DEF Frame, Shows
      <3>5. /\ (\E k \in DOMAIN wire : Shows(wire[k], n)) => \E k \in DOMAIN wire' : Shows(wire'[k], n)
            /\ n = Head(queue) => \E k \in DOMAIN wire' : Shows(wire'[k], n)
        BY <1>1, <3>1, <3>3, <3>4, WireCarries
      <3>. QED
        BY <2>1, <2>3, <3>1, <3>2, <3>5 DEF Reached, Underway, Holds, Brings, client, bus
    <2>5. CASE dropped # 0
      <3>1. wire' = Append(wire, [op |-> "overflow"])
        BY <1>3, <2>5 DEF Get
      <3>2. [op |-> "overflow"] \in Frames(counter) /\ Shows([op |-> "overflow"], n)
        BY DEF Frames, Shows
      <3>3. \E k \in DOMAIN wire' : Shows(wire'[k], n)
        BY <1>1, <3>1, <3>2, WireCarries
      <3>. QED
        BY <3>3 DEF Reached, Underway
    <2>. QED
      BY <2>4, <2>5
  <1>4. CASE Told
    <2>1. /\ UNCHANGED <<bus, link, connection, queue, untold, client>>
          /\ wire' = Append(wire, Frame(pump)) /\ pump # 0
      BY <1>4 DEF Told
    <2>2. pump \in 1..counter
      BY <1>1, <2>1 DEF Typed
    <2>3. Frame(pump) \in Frames(counter) /\ (n = pump => Shows(Frame(pump), n))
      BY <2>2 DEF Frame, Frames, Shows
    <2>4. /\ (\E k \in DOMAIN wire : Shows(wire[k], n)) => \E k \in DOMAIN wire' : Shows(wire'[k], n)
          /\ n = pump => \E k \in DOMAIN wire' : Shows(wire'[k], n)
      BY <1>1, <2>1, <2>3, WireCarries
    <2>. QED
      BY <2>1, <2>4 DEF Reached, Underway, Brings, client, bus
  <1>. QED
    BY <1>2, <1>3, <1>4

\* A request that was not answered brings whatever the client does not have.
LEMMA Asks ==
    ASSUME Typed, NEW f \in 0..counter, Ask(f), UNCHANGED last, NEW n
    PROVE  Reached(n)'
  <1>1. /\ DOMAIN fills' = 1..Len(fills) + 1 /\ Len(fills) \in Nat
        /\ fills'[Len(fills) + 1].since = last /\ ~fills'[Len(fills) + 1].answered
    BY AskIs
  <1>2. Len(fills) + 1 \in DOMAIN fills' /\ last' <= last'
    BY <1>1 DEF Typed
  <1>3. Brings(fills'[Len(fills) + 1], n, last')
    BY <1>1, <1>2 DEF Brings
  <1>. QED
    BY <1>2, <1>3 DEF Reached, Underway

\* The frames.
LEMMA ReceivedFollowed ==
    ASSUME StepInv, Started, ReceiveHello \/ ReceiveOverflow \/ ReceiveEvent,
           NEW n \in 1..counter, Reached(n)
    PROVE  Reached(n)'
  <1>1. Typed /\ Greeted /\ counter \in Nat /\ last \in 0..counter
    BY DEF StepInv, StreamInv, Typed
  <1>2. /\ Received /\ UNCHANGED <<bus, hub>>
        /\ 0 \in 0..counter
    BY <1>1 DEF ReceiveHello, ReceiveOverflow, ReceiveEvent
  <1>3. /\ wire \in Seq(Frames(counter)) /\ Len(wire) \in Nat
        /\ Head(wire) = wire[1] /\ Head(wire) \in Frames(counter)
        /\ DOMAIN wire' = 1..Len(wire) - 1
        /\ \A k \in 1..Len(wire) - 1 : wire'[k] = wire[k + 1]
    BY <1>1, <1>2, TailOf DEF Typed, Received
  <1>4. (\E k \in DOMAIN wire : Shows(wire[k], n)) =>
            Shows(Head(wire), n) \/ \E k \in DOMAIN wire' : Shows(wire'[k], n)
    <2>. SUFFICES ASSUME NEW k \in DOMAIN wire, Shows(wire[k], n), k # 1
                  PROVE  \E j \in DOMAIN wire' : Shows(wire'[j], n)
      BY <1>3
    <2>1. PICK j \in 1..Len(wire) - 1 : k = j + 1
      <3>1. k - 1 \in 1..Len(wire) - 1 /\ k = (k - 1) + 1
        BY <1>3
      <3>. QED
        BY <3>1
    <2>. QED
      BY <1>3, <2>1
  <1>5. ASSUME UNCHANGED fills, last <= last', last' \in Nat,
               Shows(Head(wire), n) => n <= last'
        PROVE  Reached(n)'
    <2>1. n <= last => n <= last'
      BY <1>1, <1>5
    <2>2. \A k \in DOMAIN fills : fills[k].since \in Nat
      BY <1>1, RequestIs
    <2>3. (\E k \in DOMAIN fills : Brings(fills[k], n, last))
              => \E k \in DOMAIN fills' : Brings(fills'[k], n, last')
      <3>. SUFFICES ASSUME NEW k \in DOMAIN fills, Brings(fills[k], n, last)
                    PROVE  Brings(fills'[k], n, last')
        BY <1>5
      <3>1. fills[k].since \in Nat /\ fills'[k] = fills[k]
        BY <1>5, <2>2
      <3>. QED
        BY <1>1, <1>5, <3>1 DEF Brings
    <2>4. CASE Shows(Head(wire), n)
      BY <1>5, <2>4 DEF Reached
    <2>5. CASE ~Shows(Head(wire), n)
      BY <1>2, <1>4, <2>1, <2>3, <2>5 DEF Reached, Underway, bus, hub
    <2>. QED
      BY <2>4, <2>5
  <1>6. CASE ReceiveHello
    <2>1. Head(wire).op = "hello" /\ Head(wire).seq \in 0..counter
      BY <1>3, <1>6 DEF ReceiveHello, Frames
    <2>2. CASE ~seenHello
      <3>1. last' = Head(wire).seq /\ UNCHANGED fills /\ last = 0
        BY <1>6, <2>2 DEF ReceiveHello, Started
      <3>. QED
        BY <1>5, <2>1, <3>1 DEF Shows
    <2>3. CASE seenHello /\ Head(wire).seq > last
      <3>1. Ask(0) /\ UNCHANGED last
        BY <1>6, <2>3 DEF ReceiveHello
      <3>. QED
        BY <1>1, <1>2, <3>1, Asks
    <2>4. CASE seenHello /\ ~(Head(wire).seq > last)
      <3>1. UNCHANGED <<fills, last>>
        BY <1>6, <2>4 DEF ReceiveHello
      <3>. QED
        BY <1>1, <1>5, <2>1, <2>4, <3>1 DEF Shows
    <2>. QED
      BY <2>2, <2>3, <2>4
  <1>7. CASE ReceiveOverflow
    BY <1>1, <1>2, <1>7, Asks DEF ReceiveOverflow
  <1>8. CASE ReceiveEvent
    <2>1. Head(wire).op = "event" /\ Head(wire).seq \in 1..counter
      BY <1>3, <1>8 DEF ReceiveEvent, Frames
    <2>2. CASE IsGap(Head(wire).seq)
      <3>1. Ask(Head(wire).seq) /\ UNCHANGED last /\ Head(wire).seq \in 0..counter
        BY <1>8, <2>1, <2>2 DEF ReceiveEvent
      <3>. QED
        BY <1>1, <3>1, Asks
    <2>3. CASE ~IsGap(Head(wire).seq)
      <3>1. Take({}, Head(wire).seq) /\ UNCHANGED fills /\ Head(wire).seq \in 0..counter
            /\ {} \in SUBSET (1..counter)
        BY <1>8, <2>1, <2>3 DEF ReceiveEvent
      <3>2. /\ last <= last' /\ last' \in 0..counter
            /\ Head(wire).seq <= last + 1 => Head(wire).seq <= last'
        BY <1>1, <3>1, TakesAll
      <3>3. Head(wire).seq <= last'
        BY <1>1, <2>1, <2>3, <3>2 DEF IsGap
      <3>. QED
        BY <1>1, <1>5, <2>1, <3>1, <3>2, <3>3 DEF Shows
    <2>. QED
      BY <2>2, <2>3
  <1>. QED
    BY <1>6, <1>7, <1>8

\* The answers.
LEMMA AnsweredFollowed ==
    ASSUME StepInv, InTurn, InTurn', AnswersFollowOn, NEW i \in DOMAIN fills, Answer(i) \/ Filled(i),
           NEW n \in 1..Len(buffer), Reached(n)
    PROVE  Reached(n)'
  <1>1. Typed /\ Greeted /\ counter \in Nat /\ last \in 0..counter
    BY DEF StepInv, StreamInv, Typed
  <1>2. UNCHANGED <<bus, hub, wire>>
    BY DEF Answer, Filled
  <1>3. /\ Len(buffer) \in Nat /\ n \in Nat
        /\ \A m \in Nat : Cardinality(After(m)) <= Limit => Since(m) = m+1..Len(buffer)
    BY <1>1, InTurnIs
  <1>4. CASE Answer(i)
    <2>1. /\ fills' = [fills EXCEPT ![i].answered = TRUE, ![i].answer = Since(fills[i].since)]
          /\ UNCHANGED last
      BY <1>4 DEF Answer
    <2>2. /\ DOMAIN fills' = DOMAIN fills
          /\ \A k \in DOMAIN fills : k # i => fills'[k] = fills[k]
          /\ fills'[i].answered /\ fills'[i].answer = Since(fills[i].since)
      <3>1. fills[i] \in Requests(counter)
        BY <1>1, RequestIs
      <3>. QED
        BY <1>1, <2>1, <3>1 DEF Requests
    <2>3. fills[i].since \in Nat /\ fills[i].since <= last
      BY <1>1, RequestIs DEF AnswersFollowOn
    <2>4. CASE n <= last
      BY <2>1, <2>4 DEF Reached
    <2>5. CASE ~(n <= last)
      <3>1. n \in Since(fills[i].since)
        <4>1. PICK m \in Nat : m = fills[i].since
          BY <2>3
        <4>2. Since(m) = m+1..Len(buffer)
          <5>1. ~(Cardinality(After(m)) > Limit)
            BY <1>4, <4>1 DEF Answer, InTurn
          <5>2. Cardinality(After(m)) <= Limit
            BY <1>1, <5>1, AfterIs
          <5>. QED
            BY <1>3, <5>2
        <4>3. n \in m+1..Len(buffer)
          <5>1. m <= last /\ last \in Nat /\ ~(n <= last)
            BY <1>1, <2>3, <2>5, <4>1
          <5>2. n \in 1..Len(buffer)
            OBVIOUS
          <5>. QED
            BY <1>3, <5>1, <5>2
        <4>. QED
          BY <4>1, <4>2, <4>3
      <3>2. Brings(fills'[i], n, last')
        BY <2>2, <3>1 DEF Brings
      <3>. QED
        BY <2>2, <3>2 DEF Reached, Underway
    <2>. QED
      BY <2>4, <2>5
  <1>5. CASE Filled(i)
    <2>1. /\ fills' = RemoveAt(fills, i) /\ Take(fills[i].answer, fills[i].frame)
          /\ fills[i].answered
      BY <1>5 DEF Filled
    <2>2. /\ fills[i].frame \in 0..counter /\ fills[i].answer \in SUBSET (1..counter)
          /\ fills[i].since \in Nat
      BY <1>1, RequestIs
    <2>3. PICK b \in Nat : fills[i].answer = fills[i].since+1..b
      BY <2>1 DEF AnswersFollowOn
    <2>4. fills[i].since <= last
      BY DEF AnswersFollowOn
    <2>5. last <= last' /\ last' \in 0..counter /\ b <= last'
      BY <1>1, <2>1, <2>2, <2>3, <2>4, TakesAll
    <2>6. CASE n \in fills[i].answer \/ n <= last
      <3>1. n <= last'
        BY <1>1, <1>3, <2>2, <2>3, <2>5, <2>6
      <3>. QED
        BY <3>1 DEF Reached
    <2>7. CASE ~(n \in fills[i].answer \/ n <= last)
      <3>1. fills \in Seq(Requests(counter)) /\ i \in 1..Len(fills)
        BY <1>1 DEF Typed
      <3>2. \A j \in DOMAIN fills : j # i => \E k \in DOMAIN fills' : fills'[k] = fills[j]
        BY <2>1, <3>1, RemovedHolds
      <3>3. ASSUME NEW j \in DOMAIN fills, Brings(fills[j], n, last)
            PROVE  \E k \in DOMAIN fills' : Brings(fills'[k], n, last')
        <4>1. j # i
          BY <2>1, <2>7, <3>3 DEF Brings
        <4>2. PICK k \in DOMAIN fills' : fills'[k] = fills[j]
          BY <3>2, <4>1
        <4>3. fills[j].since \in Nat
          BY <1>1, RequestIs
        <4>4. Brings(fills'[k], n, last')
          BY <1>1, <2>5, <3>3, <4>2, <4>3 DEF Brings
        <4>. QED
          BY <4>4
      <3>. QED
        BY <1>2, <2>7, <3>3 DEF Reached, Underway, bus, hub
    <2>. QED
      BY <2>6, <2>7
  <1>. QED
    BY <1>4, <1>5

LEMMA FollowedStep ==
    ASSUME StepInv, CatchUpInv, [Next]_vars
    PROVE  Followed'
  <1>. SUFFICES ASSUME InTurn', link' = "open", ~missed', ~refused',
                       NEW n \in 1..Len(buffer')
                PROVE  Reached(n)'
    BY DEF Followed
  <1>. USE DEF CatchUpInv
  <1>1. Typed /\ Greeted /\ counter \in Nat /\ publisher \in [Publishers -> Publishings(counter)]
    BY DEF StepInv, StreamInv, Typed
  <1>2. /\ InTurn
        /\ \/ UNCHANGED buffer
           \/ \E p \in Publishers : /\ Buffer(p) /\ publisher[p].seq = Len(buffer) + 1
                                    /\ Len(buffer') = Len(buffer) + 1
    BY TurnBefore
  <1>3. LastSeq = Len(buffer) /\ Len(buffer) \in 0..counter
    BY <1>1, <1>2, InTurnIs
  <1>4. CASE Hello
    <2>1. wire' = <<[op |-> "hello", seq |-> LastSeq]>> /\ UNCHANGED bus
      BY <1>4 DEF Hello
    <2>2. n <= LastSeq /\ n \in Nat
      BY <1>3, <2>1 DEF bus
    <2>3. 1 \in DOMAIN wire' /\ Shows(wire'[1], n)
      BY <2>1, <2>2 DEF Shows
    <2>. QED
      BY <2>3 DEF Reached, Underway
  <1>5. CASE Subscribe \/ Disconnect
    BY <1>5 DEF Subscribe, Disconnect
  <1>6. ASSUME UNCHANGED <<buffer, link, missed, refused>>
        PROVE  n \in 1..Len(buffer) /\ n \in 1..counter /\ Reached(n) /\ link = "open"
    BY <1>1, <1>2, <1>3, <1>6 DEF Followed
  <1>7. CASE RunNext \/ Get \/ Told
    <2>1. UNCHANGED buffer /\ UNCHANGED <<link, refused>>
      BY <1>7 DEF RunNext, RunCallback, Get, Told, bus, client
    <2>2. ~missed
      <3>1. CASE RunNext
        BY <3>1 DEF RunNext, RunCallback, Put
      <3>. QED
        BY <1>7, <3>1 DEF Get, Told
    <2>3. n \in 1..counter /\ Reached(n) /\ link = "open"
      BY <1>1, <1>2, <1>3, <2>1, <2>2 DEF Followed
    <2>. QED
      BY <1>7, <2>3, HubFollowed
  <1>8. CASE ReceiveHello \/ ReceiveOverflow \/ ReceiveEvent
    <2>1. UNCHANGED <<buffer, link, missed, refused>>
      BY <1>8 DEF ReceiveHello, ReceiveOverflow, ReceiveEvent, bus, hub
    <2>. QED
      BY <1>6, <1>8, <2>1, ReceivedFollowed
  <1>9. ASSUME NEW i \in DOMAIN fills, Answer(i) \/ Filled(i)
        PROVE  Reached(n)'
    <2>1. UNCHANGED <<buffer, link, missed, refused>>
      BY <1>9 DEF Answer, Filled, bus, hub
    <2>. QED
      BY <1>2, <1>6, <1>9, <2>1, AnsweredFollowed
  <1>10. ASSUME NEW i \in DOMAIN fills
         PROVE  ~Refused(i)
    BY DEF Refused
  <1>11. ASSUME NEW p \in Publishers, Number(p) \/ Buffer(p) \/ Deliver(p)
         PROVE  Reached(n)'
    <2>1. UNCHANGED <<link, refused>>
      BY <1>11 DEF Number, Buffer, Deliver, hub, client
    <2>2. ~missed
      <3>1. CASE Deliver(p)
        BY <3>1 DEF Deliver, Put
      <3>. QED
        BY <1>11, <3>1 DEF Number, Buffer, hub
    <2>3. CASE n \in 1..Len(buffer)
      <3>1. n \in 1..counter /\ Reached(n) /\ link = "open"
        BY <1>1, <1>2, <1>3, <2>1, <2>2, <2>3 DEF Followed
      <3>. QED
        BY <1>11, <3>1, PublishingFollowed
    <2>4. CASE n \notin 1..Len(buffer)
      <3>1. PICK q \in Publishers : /\ Buffer(q) /\ publisher[q].seq = Len(buffer) + 1
                                    /\ Len(buffer') = Len(buffer) + 1
        BY <1>2, <2>4
      <3>2. n = publisher[q].seq
        BY <1>3, <2>4, <3>1
      <3>3. /\ publisher'[q].pc = "buffered" /\ publisher'[q].seq = n
            /\ publisher'[q].target = connection'
        BY <1>1, <2>1, <3>1, <3>2 DEF Buffer, hub
      <3>. QED
        BY <3>3 DEF Reached, Underway
    <2>. QED
      BY <2>3, <2>4
  <1>12. CASE UNCHANGED vars
    <2>1. UNCHANGED <<bus, hub, wire, client>>
      BY <1>12 DEF vars
    <2>2. UNCHANGED <<buffer, link, missed, refused>>
      BY <2>1 DEF bus, hub, client
    <2>3. Reached(n)
      BY <1>6, <2>2
    <2>. QED
      BY <2>1, <2>3 DEF Reached, Underway, Brings, bus, hub, client
  <1>. QED
    BY <1>4, <1>5, <1>7, <1>8, <1>9, <1>10, <1>11, <1>12 DEF Next

LEMMA CatchUpHolds == Spec => [](StepInv /\ CatchUpInv)
  <1>1. Init => StepInv /\ CatchUpInv
    BY StreamInit, OrderInit, CatchUpInit DEF StepInv
  <1>2. StepInv /\ CatchUpInv /\ [Next]_vars => (StepInv /\ CatchUpInv)'
    <2>. SUFFICES ASSUME StepInv, CatchUpInv, [Next]_vars
                  PROVE  StepInv' /\ CatchUpInv'
      OBVIOUS
    <2>1. Booked' /\ AnswersFollowOn' /\ Started'
      BY BookedStep, AnswersStep, StartedStep DEF CatchUpInv
    <2>. QED
      BY <2>1, FollowedStep, StepKeeps DEF CatchUpInv
  <1>. QED
    BY <1>1, <1>2, PTL DEF Spec

\* The numbers came to the buffer in their order.
Rising == \A i, j \in 1..Len(buffer) : i < j => buffer[i] < buffer[j]

LEMMA RisingIs == IsSorted(buffer, <) <=> Rising
  BY DEF IsSorted, Rising

\* Sorted numbers of which none is absent are the numbers in their turn.
LEMMA SortedInTurn ==
    ASSUME Typed, Booked, ~cut, counter <= BufferSize, Rising,
           \A p \in Publishers : publisher[p] = Idle
    PROVE  InTurn /\ Len(buffer) = counter
  <1>1. /\ counter \in Nat /\ Len(buffer) \in Nat /\ DOMAIN buffer = 1..Len(buffer)
        /\ buffer \in Seq(1..counter)
    BY DEF Typed
  <1>2. \A i, j \in 1..Len(buffer) : i < j => buffer[i] < buffer[j]
    BY DEF Rising
  <1>3. \A n \in 1..counter : \E i \in 1..Len(buffer) : buffer[i] = n
    <2>1. \A p \in Publishers : publisher[p].pc # "numbered"
      BY DEF Idle
    <2>2. counter <= BufferSize
      OBVIOUS
    <2>. QED
      BY <1>1, <2>1, <2>2 DEF Booked
  <1>4. \A i \in 1..Len(buffer) : buffer[i] \in 1..counter
    BY <1>1
  <1>5. \A i \in 1..Len(buffer) : buffer[i] = i
    <2> DEFINE Wrong == {i \in 1..Len(buffer) : buffer[i] # i}
    <2>. SUFFICES ASSUME Wrong # {}
                  PROVE  FALSE
      OBVIOUS
    <2>1. Wrong \in SUBSET Nat
      BY <1>1
    <2>2. PICK i \in Wrong : \A k \in Wrong : i <= k
      <3>. HIDE DEF Wrong
      <3>. QED
        BY <2>1, LeastExists
    <2>3. i \in 1..Len(buffer) /\ buffer[i] # i /\ buffer[i] \in 1..counter
      BY <1>4, <2>2
    <2>4. \A j \in 1..Len(buffer) : j < i => buffer[j] = j
      <3>. SUFFICES ASSUME NEW j \in 1..Len(buffer), j < i, buffer[j] # j
                    PROVE  FALSE
        OBVIOUS
      <3>1. j \in Wrong
        OBVIOUS
      <3>. QED
        BY <1>1, <2>2, <2>3, <3>1
    <2>5. buffer[i] > i
      <3>1. CASE i = 1
        BY <1>1, <2>3, <3>1
      <3>2. CASE i # 1
        <4>1. i - 1 \in 1..Len(buffer) /\ i - 1 < i
          BY <1>1, <2>3, <3>2
        <4>2. buffer[i - 1] = i - 1 /\ buffer[i - 1] < buffer[i]
          BY <1>2, <2>3, <2>4, <4>1
        <4>. QED
          BY <1>1, <2>3, <4>1, <4>2
      <3>. QED
        BY <3>1, <3>2
    <2>6. i \in 1..counter
      BY <1>1, <2>3, <2>5
    <2>7. PICK j \in 1..Len(buffer) : buffer[j] = i
      BY <1>3, <2>6
    <2>8. j # i /\ ~(j < i)
      BY <2>3, <2>4, <2>7
    <2>9. i < j
      BY <1>1, <2>3, <2>8
    <2>10. buffer[i] < buffer[j]
      BY <1>2, <2>3, <2>9
    <2>. QED
      BY <1>1, <2>3, <2>5, <2>7, <2>10
  <1>6. Len(buffer) <= counter
    <2>1. CASE Len(buffer) > 0
      <3>1. Len(buffer) \in 1..Len(buffer)
        BY <1>1, <2>1
      <3>2. buffer[Len(buffer)] = Len(buffer) /\ buffer[Len(buffer)] \in 1..counter
        BY <1>4, <1>5, <3>1
      <3>. QED
        BY <1>1, <3>2
    <2>. QED
      BY <1>1, <2>1
  <1>7. counter <= Len(buffer)
    <2>1. CASE counter > 0
      <3>1. counter \in 1..counter
        BY <1>1, <2>1
      <3>2. PICK i \in 1..Len(buffer) : buffer[i] = counter
        BY <1>3, <3>1
      <3>. QED
        BY <1>1, <1>5, <3>2
    <2>. QED
      BY <1>1, <2>1
  <1>. QED
    <2>1. Len(buffer) = counter
      <3>1. \A m, k \in Nat : m <= k /\ k <= m => m = k
        OBVIOUS
      <3>. QED
        BY <1>1, <1>6, <1>7, <3>1, Zenon
    <2>2. \A i \in DOMAIN buffer : buffer[i] = i
      BY <1>1, <1>5
    <2>. QED
      BY <2>1, <2>2 DEF InTurn

(* For any threads, queue, buffer and numbers of connections and requests: when nothing is
   under way, a client whose requests were answered in full has every event that was published,
   over overflows, holes and lost connections. *)
THEOREM ClientHasAll == Spec => []ClientCatchesUp
  <1>1. StepInv /\ CatchUpInv => ClientCatchesUp
    <2>. SUFFICES ASSUME StepInv, CatchUpInv, Settled, link = "open", ~refused, ~cut, ~missed,
                         counter <= BufferSize, Rising
                  PROVE  last = counter
      BY RisingIs DEF ClientCatchesUp
    <2>1. Typed /\ Counted /\ counter \in Nat /\ last \in 0..counter
      BY DEF StepInv, StreamInv, Typed
    <2>2. InTurn /\ Len(buffer) = counter
      BY <2>1, SortedInTurn DEF CatchUpInv, Settled
    <2>3. CASE counter = 0
      BY <2>1, <2>3
    <2>4. CASE counter # 0
      <3>1. counter \in 1..Len(buffer)
        BY <2>1, <2>2, <2>4
      <3>2. Reached(counter)
        BY <2>2, <3>1 DEF CatchUpInv, Followed
      <3>3. ~Underway(counter)
        <4>1. untold = {}
          BY <2>1 DEF Counted, Settled
        <4>. QED
          BY <2>4, <4>1 DEF Settled, Underway, Idle
      <3>. QED
        BY <2>1, <3>2, <3>3 DEF Reached
    <2>. QED
      BY <2>3, <2>4
  <1>. QED
    BY <1>1, CatchUpHolds, PTL

=============================================================================
