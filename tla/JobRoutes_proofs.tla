-------------------------- MODULE JobRoutes_proofs --------------------------
(***************************************************************************)
(* Proofs about JobRoutes for any number of jobs, of threads, of requests  *)
(* and of deaths: however the unserialised requests interleave, job.json   *)
(* never shows a change that its log does not announce, and a change that  *)
(* was answered with 200 stays announced.  These are the two promises that *)
(* survive without a lock, and they rest on the order of the two writes    *)
(* and on the log being append-only.  The third, that a polling client     *)
(* misses nothing, holds until requests overlap or the engine dies.        *)
(***************************************************************************)
EXTENDS JobRoutes, TLAPS

Line == [seq : Nat, value : JobStates]

Work == {Idle} \cup [pc : {"scanned"}, job : Jobs]
               \cup [pc : {"loaded", "appended", "written"}, job : Jobs,
                     op : {"pause", "resume", "cancel"}, rec : Record]

HasLine(j, line) == \E i \in DOMAIN logs[j] : logs[j][i] = line

Typed == /\ jobs \in [Jobs -> Record \cup {Absent}]
         /\ logs \in [Jobs -> Seq(Line)]
         /\ thread \in [Threads -> Work]
         /\ acked \in [Jobs -> SUBSET Line]

\* A thread past the first write has its line in the log; this is what makes
\* the two promises inductive.
Announced == \A t \in Threads :
                thread[t].pc \in {"appended", "written"} =>
                    HasLine(thread[t].job, StateOf(thread[t].rec))

IInv == Typed /\ Announced /\ RecordWasLogged /\ AckedIsLogged

-----------------------------------------------------------------------------
(* The targets of the transitions are states. *)
LEMMA TransitionTargets ==
    ASSUME NEW e \in TransitionsOf(Kind)
    PROVE  e[3] \in JobStates
  BY DEF TransitionsOf, Edges, JobStates

(* The history of a job that was found ends in the state it was found in. *)
LEMMA LeftTold ==
    ASSUME NEW s \in JobStates
    PROVE  /\ Left[s] \in Seq(JobStates)
           /\ Len(Left[s]) > 0 => Left[s][Len(Left[s])] = s
  <1>1. CASE s = "queued"
    BY <1>1 DEF Left
  <1>2. CASE s \in {"running", "cancelled"}
    BY <1>2 DEF Left, JobStates
  <1>3. CASE s = "paused"
    BY <1>3 DEF Left, JobStates
  <1>4. CASE s = "muxing"
    BY <1>4 DEF Left, JobStates
  <1>5. CASE s = "failed"
    BY <1>5 DEF Left, JobStates
  <1>6. CASE s = "done"
    BY <1>6 DEF Left, JobStates
  <1>. QED
    BY <1>1, <1>2, <1>3, <1>4, <1>5, <1>6 DEF JobStates

(* Threads that do something carry what they need for it. *)
LEMMA Carried ==
    ASSUME Typed, NEW t \in Threads
    PROVE  /\ thread[t].pc = "scanned" => thread[t].job \in Jobs
           /\ thread[t].pc \in {"loaded", "appended", "written"} =>
                /\ thread[t].job \in Jobs
                /\ thread[t].rec \in Record
                /\ StateOf(thread[t].rec) \in Line
                /\ thread[t] \in [pc : {"loaded", "appended", "written"}, job : Jobs,
                                  op : {"pause", "resume", "cancel"}, rec : Record]
  <1>1. thread[t] \in Work
    BY DEF Typed
  <1>. QED
    BY <1>1 DEF Work, Idle, StateOf, Record, Line

(* A step that moves a working thread on to the next point of its request. *)
LEMMA MovedOn ==
    ASSUME Typed, NEW t \in Threads,
           thread[t].pc \in {"loaded", "appended", "written"},
           NEW p \in {"loaded", "appended", "written"},
           thread' = [thread EXCEPT ![t].pc = p]
    PROVE  /\ thread' \in [Threads -> Work]
           /\ thread'[t].job = thread[t].job
           /\ thread'[t].rec = thread[t].rec
           /\ thread'[t].pc = p
           /\ \A u \in Threads \ {t} : thread'[u] = thread[u]
  <1>1. thread[t] \in [pc : {"loaded", "appended", "written"}, job : Jobs,
                       op : {"pause", "resume", "cancel"}, rec : Record]
    BY Carried
  <1>2. [thread[t] EXCEPT !.pc = p] \in Work
    BY <1>1 DEF Work
  <1>3. thread' = [thread EXCEPT ![t] = [thread[t] EXCEPT !.pc = p]]
    OBVIOUS
  <1>. QED
    BY <1>1, <1>2, <1>3 DEF Typed

-----------------------------------------------------------------------------
(* At first the log tells the whole history of the job that was found. *)
LEMMA InitIInv == Init => IInv
  <1>. SUFFICES ASSUME Init PROVE IInv
    OBVIOUS
  <1>1. PICK j \in Jobs, s \in JobStates \cup {Absent} :
          /\ jobs = [k \in Jobs |-> IF k = j /\ s # Absent
                                    THEN [state |-> s, last_seq |-> Len(Left[s])]
                                    ELSE Absent]
          /\ logs = [k \in Jobs |->
                       IF k = j /\ s # Absent
                       THEN [i \in DOMAIN Left[s] |-> [seq |-> i, value |-> Left[s][i]]]
                       ELSE <<>>]
    BY DEF Init
  <1>2. thread = [t \in Threads |-> Idle] /\ acked = [k \in Jobs |-> {}]
    BY DEF Init
  <1>3. CASE s = Absent
    <2>1. jobs = [k \in Jobs |-> Absent] /\ logs = [k \in Jobs |-> <<>>]
      BY <1>1, <1>3
    <2>. QED
      BY <2>1, <1>2 DEF IInv, Typed, Announced, RecordWasLogged, AckedIsLogged, Work, Idle
  <1>4. CASE s # Absent
    <2>1. s \in JobStates
      BY <1>4
    <2>2. /\ Left[s] \in Seq(JobStates)
          /\ Len(Left[s]) > 0 => Left[s][Len(Left[s])] = s
      BY <2>1, LeftTold
    <2>. DEFINE n == Len(Left[s])
                first == [i \in DOMAIN Left[s] |-> [seq |-> i, value |-> Left[s][i]]]
    <2>3. n \in Nat /\ DOMAIN Left[s] = 1..n
      BY <2>2
    <2>4. first \in Seq(Line)
      BY <2>2, <2>3 DEF Line
    <2>5. n > 0 => n \in DOMAIN first /\ first[n] = [seq |-> n, value |-> s]
      BY <2>2, <2>3
    <2>6. /\ jobs = [k \in Jobs |-> IF k = j THEN [state |-> s, last_seq |-> n] ELSE Absent]
          /\ logs = [k \in Jobs |-> IF k = j THEN first ELSE <<>>]
      BY <1>1, <1>4
    <2>. HIDE DEF n, first
    <2>7. Typed
      BY <2>1, <2>3, <2>4, <2>6, <1>2 DEF Typed, Record, Work
    <2>8. RecordWasLogged
      BY <2>1, <2>3, <2>5, <2>6 DEF RecordWasLogged, StateOf
    <2>. QED
      BY <2>7, <2>8, <1>2 DEF IInv, Announced, AckedIsLogged, Idle
  <1>. QED
    BY <1>3, <1>4

-----------------------------------------------------------------------------
(* A thread that takes a request or finishes one leaves the promises alone. *)
LEMMA BeginIInv ==
    ASSUME IInv, NEW t \in Threads, NEW w \in Work, w.pc \notin {"appended", "written"},
           thread' = [thread EXCEPT ![t] = w], UNCHANGED <<jobs, logs, acked>>
    PROVE  IInv'
  <1>1. Typed'
    BY DEF IInv, Typed
  <1>2. Announced'
    BY DEF IInv, Typed, Announced, HasLine
  <1>3. RecordWasLogged' /\ AckedIsLogged'
    BY DEF IInv, RecordWasLogged, AckedIsLogged
  <1>. QED
    BY <1>1, <1>2, <1>3 DEF IInv

LEMMA CreateWriteIInv ==
    ASSUME IInv, NEW t \in Threads, CreateWrite(t)
    PROVE  IInv'
  <1>. DEFINE j == thread[t].job
              new == [state |-> "queued", last_seq |-> 0]
  <1>1. j \in Jobs
    BY Carried DEF IInv, CreateWrite
  <1>2. new \in Record /\ new.last_seq = 0
    BY DEF Record, JobStates
  <1>3. /\ jobs' = [jobs EXCEPT ![j] = new]
        /\ thread' = [thread EXCEPT ![t] = Idle]
        /\ UNCHANGED <<logs, acked>>
    BY DEF CreateWrite
  <1>. HIDE DEF j, new
  <1>4. Typed'
    BY <1>1, <1>2, <1>3 DEF IInv, Typed, Work
  <1>5. Announced'
    BY <1>3 DEF IInv, Typed, Announced, HasLine, Idle
  <1>6. RecordWasLogged'
    BY <1>1, <1>2, <1>3 DEF IInv, Typed, RecordWasLogged
  <1>7. AckedIsLogged'
    BY <1>3 DEF IInv, AckedIsLogged
  <1>. QED
    BY <1>4, <1>5, <1>6, <1>7 DEF IInv

LEMMA LoadIInv ==
    ASSUME IInv, NEW t \in Threads, Load(t)
    PROVE  IInv'
  <1>1. PICK j \in Jobs, op \in {"pause", "resume", "cancel"} :
          /\ jobs[j] # Absent
          /\ \E e \in TransitionsOf(Kind) :
               Begin(t, [pc |-> "loaded", job |-> j, op |-> op,
                         rec |-> [state |-> e[3], last_seq |-> jobs[j].last_seq + 1]])
    BY DEF Load
  <1>2. PICK e \in TransitionsOf(Kind) :
          Begin(t, [pc |-> "loaded", job |-> j, op |-> op,
                    rec |-> [state |-> e[3], last_seq |-> jobs[j].last_seq + 1]])
    BY <1>1
  <1>3. e[3] \in JobStates
    BY TransitionTargets
  <1>4. jobs[j] \in Record
    BY <1>1 DEF IInv, Typed
  <1>5. PICK n \in Nat : n = jobs[j].last_seq + 1
    BY <1>4 DEF Record
  <1>. DEFINE w == [pc |-> "loaded", job |-> j, op |-> op, rec |-> [state |-> e[3], last_seq |-> n]]
  <1>6. w \in Work /\ w.pc = "loaded"
    BY <1>3 DEF Work, Record
  <1>7. thread' = [thread EXCEPT ![t] = w]
    BY <1>2, <1>5 DEF Begin
  <1>8. UNCHANGED <<jobs, logs, acked>>
    BY DEF Load
  <1>. HIDE DEF w
  <1>. QED
    BY <1>6, <1>7, <1>8, BeginIInv

(* The line is appended: nothing that was in the log leaves it. *)
LEMMA AppendEventIInv ==
    ASSUME IInv, NEW t \in Threads, AppendEvent(t)
    PROVE  IInv'
  <1>1. PICK k \in Jobs, line \in Line :
          /\ k = thread[t].job /\ line = StateOf(thread[t].rec)
          /\ thread[t].pc \in {"loaded", "appended", "written"}
    BY Carried DEF IInv, AppendEvent
  <1>2. /\ logs' = [logs EXCEPT ![k] = Append(@, line)]
        /\ thread' = [thread EXCEPT ![t].pc = "appended"]
        /\ UNCHANGED <<jobs, acked>>
    BY <1>1 DEF AppendEvent
  <1>3. /\ thread' \in [Threads -> Work]
        /\ thread'[t].job = k /\ StateOf(thread'[t].rec) = line
        /\ \A u \in Threads \ {t} : thread'[u] = thread[u]
    BY <1>1, <1>2, MovedOn DEF IInv
  <1>4. \A j \in Jobs : logs[j] \in Seq(Line)
    BY DEF IInv, Typed
  <1>5. /\ logs' \in [Jobs -> Seq(Line)]
        /\ logs'[k] = Append(logs[k], line)
        /\ \A j \in Jobs \ {k} : logs'[j] = logs[j]
    BY <1>1, <1>2, <1>4 DEF IInv, Typed
  <1>6. \A j \in Jobs : \A i \in DOMAIN logs[j] :
           i \in DOMAIN logs'[j] /\ logs'[j][i] = logs[j][i]
    <2>1. ASSUME NEW i \in DOMAIN logs[k]
          PROVE  i \in DOMAIN logs'[k] /\ logs'[k][i] = logs[k][i]
      BY <1>4, <1>5
    <2>. QED
      BY <1>5, <2>1
  <1>7. HasLine(k, line)'
    <2>1. Len(logs[k]) + 1 \in DOMAIN logs'[k] /\ logs'[k][Len(logs[k]) + 1] = line
      BY <1>4, <1>5
    <2>. QED
      BY <2>1 DEF HasLine
  <1>8. Typed'
    BY <1>2, <1>3, <1>5 DEF IInv, Typed
  <1>9. Announced'
    <2>. SUFFICES ASSUME NEW u \in Threads, thread'[u].pc \in {"appended", "written"}
                  PROVE  HasLine(thread[u].job, StateOf(thread[u].rec))'
      BY DEF Announced
    <2>1. CASE u = t
      BY <2>1, <1>3, <1>7 DEF HasLine, StateOf
    <2>2. CASE u # t
      <3>1. thread'[u] = thread[u]
        BY <2>2, <1>3
      <3>2. thread[u].job \in Jobs
        BY <3>1, Carried DEF IInv
      <3>3. HasLine(thread[u].job, StateOf(thread[u].rec))
        BY <3>1 DEF IInv, Announced
      <3>. QED
        BY <3>1, <3>2, <3>3, <1>6 DEF HasLine, StateOf
    <2>. QED
      BY <2>1, <2>2
  <1>10. RecordWasLogged'
    BY <1>2, <1>6 DEF IInv, RecordWasLogged, StateOf
  <1>11. AckedIsLogged'
    BY <1>2, <1>6 DEF IInv, AckedIsLogged
  <1>. QED
    BY <1>8, <1>9, <1>10, <1>11 DEF IInv

(* The record is written: its line is there already. *)
LEMMA WriteRecordIInv ==
    ASSUME IInv, NEW t \in Threads, WriteRecord(t)
    PROVE  IInv'
  <1>. DEFINE k == thread[t].job
              rec == thread[t].rec
  <1>1. k \in Jobs /\ rec \in Record /\ thread[t].pc \in {"loaded", "appended", "written"}
    BY Carried DEF IInv, WriteRecord
  <1>2. HasLine(k, StateOf(rec))
    BY DEF IInv, Announced, WriteRecord
  <1>3. /\ jobs' = [jobs EXCEPT ![k] = rec]
        /\ thread' = [thread EXCEPT ![t].pc = "written"]
        /\ UNCHANGED <<logs, acked>>
    BY DEF WriteRecord
  <1>4. /\ thread' \in [Threads -> Work]
        /\ thread'[t].job = k /\ thread'[t].rec = rec
        /\ \A u \in Threads \ {t} : thread'[u] = thread[u]
    BY <1>1, <1>3, MovedOn DEF IInv
  <1>. HIDE DEF k, rec
  <1>5. Typed'
    BY <1>1, <1>3, <1>4 DEF IInv, Typed
  <1>6. Announced'
    BY <1>2, <1>3, <1>4 DEF IInv, Announced, HasLine
  <1>7. RecordWasLogged'
    BY <1>1, <1>2, <1>3 DEF IInv, Typed, RecordWasLogged, HasLine
  <1>8. AckedIsLogged'
    BY <1>3 DEF IInv, AckedIsLogged
  <1>. QED
    BY <1>5, <1>6, <1>7, <1>8 DEF IInv

(* The request is answered with a line that is in the log. *)
LEMMA AnswerIInv ==
    ASSUME IInv, NEW t \in Threads, Answer(t)
    PROVE  IInv'
  <1>. DEFINE k == thread[t].job
              line == StateOf(thread[t].rec)
  <1>1. k \in Jobs /\ line \in Line
    BY Carried DEF IInv, Answer
  <1>2. HasLine(k, line)
    BY DEF IInv, Announced, Answer
  <1>3. /\ acked' = [acked EXCEPT ![k] = @ \cup {line}]
        /\ thread' = [thread EXCEPT ![t] = Idle]
        /\ UNCHANGED <<jobs, logs>>
    BY DEF Answer
  <1>. HIDE DEF k, line
  <1>4. Typed'
    BY <1>1, <1>3 DEF IInv, Typed, Work
  <1>5. Announced'
    BY <1>3 DEF IInv, Typed, Announced, HasLine, Idle
  <1>6. RecordWasLogged'
    BY <1>3 DEF IInv, RecordWasLogged
  <1>7. AckedIsLogged'
    BY <1>1, <1>2, <1>3 DEF IInv, Typed, AckedIsLogged, HasLine
  <1>. QED
    BY <1>4, <1>5, <1>6, <1>7 DEF IInv

LEMMA CrashIInv ==
    ASSUME IInv, thread' = [t \in Threads |-> Idle], UNCHANGED <<jobs, logs, acked>>
    PROVE  IInv'
  BY DEF IInv, Typed, Announced, RecordWasLogged, AckedIsLogged, Work, Idle

LEMMA StutterIInv ==
    ASSUME IInv, UNCHANGED <<jobs, logs, thread, acked>>
    PROVE  IInv'
  BY DEF IInv, Typed, Announced, HasLine, RecordWasLogged, AckedIsLogged

LEMMA NextIInv == IInv /\ [Next]_vars => IInv'
  <1>. SUFFICES ASSUME IInv, [Next]_vars PROVE IInv'
    OBVIOUS
  <1>1. ASSUME NEW t \in Threads, CreateScan(t) PROVE IInv'
    <2>1. PICK j \in Jobs : Begin(t, [pc |-> "scanned", job |-> j])
      BY <1>1 DEF CreateScan
    <2>2. [pc |-> "scanned", job |-> j] \in Work
      BY DEF Work
    <2>. QED
      BY <1>1, <2>1, <2>2, BeginIInv DEF Begin, CreateScan
  <1>2. ASSUME NEW t \in Threads, CreateWrite(t) PROVE IInv'
    BY <1>2, CreateWriteIInv
  <1>3. ASSUME NEW t \in Threads, Load(t) PROVE IInv'
    BY <1>3, LoadIInv
  <1>4. ASSUME NEW t \in Threads, AppendEvent(t) PROVE IInv'
    BY <1>4, AppendEventIInv
  <1>5. ASSUME NEW t \in Threads, WriteRecord(t) PROVE IInv'
    BY <1>5, WriteRecordIInv
  <1>6. ASSUME NEW t \in Threads, Answer(t) PROVE IInv'
    BY <1>6, AnswerIInv
  <1>7. ASSUME NEW j \in Jobs, Poll(j) PROVE IInv'
    BY <1>7, StutterIInv DEF Poll
  <1>8. CASE Crash
    BY <1>8, CrashIInv DEF Crash
  <1>9. CASE OpenProject
    BY <1>9, StutterIInv DEF OpenProject
  <1>10. CASE UNCHANGED vars
    BY <1>10, StutterIInv DEF vars
  <1>. QED
    BY <1>1, <1>2, <1>3, <1>4, <1>5, <1>6, <1>7, <1>8, <1>9, <1>10 DEF Next

-----------------------------------------------------------------------------
\* The invariant holds in every state of every behaviour.
THEOREM Invariant == Spec => []IInv
  BY InitIInv, NextIInv, PTL DEF Spec

\* Whatever the threads and the deaths, job.json never shows a change that
\* events.jsonl does not announce under the same number.
THEOREM RecordAlwaysLogged == Spec => []RecordWasLogged
  <1>1. IInv => RecordWasLogged
    BY DEF IInv
  <1>. QED
    BY <1>1, Invariant, PTL

\* A change answered with 200 is in the log of its job from then on.
THEOREM AckedAlwaysLogged == Spec => []AckedIsLogged
  <1>1. IInv => AckedIsLogged
    BY DEF IInv
  <1>. QED
    BY <1>1, Invariant, PTL

\* Both at once, as the runs check them.
THEOREM LogAlwaysFirst == Spec => []LogComesFirst
  <1>1. RecordWasLogged /\ AckedIsLogged => LogComesFirst
    BY DEF LogComesFirst
  <1>. QED
    BY <1>1, RecordAlwaysLogged, AckedAlwaysLogged, PTL

-----------------------------------------------------------------------------
(* A client that misses nothing.                                           *)

\* Until requests overlap one thread at most has something to do.
Lone == \A t, u \in Threads : thread[t] # Idle /\ thread[u] # Idle => t = u

\* Line i has number i.
Dense == \A j \in Jobs : \A i \in DOMAIN logs[j] : logs[j][i].seq = i

\* Unless a thread has only appended, the record has the number of the last line.
Level == \A j \in Jobs :
            /\ jobs[j] = Absent => logs[j] = <<>>
            /\ (jobs[j] # Absent /\ \A t \in Threads : thread[t].pc = "appended" => thread[t].job # j)
                 => jobs[j].last_seq = Len(logs[j])

\* The number a thread works with is that of the line it is about to write or wrote.
Abreast == \A t \in Threads :
              /\ thread[t].pc = "scanned" => logs[thread[t].job] = <<>>
              /\ thread[t].pc = "loaded" => /\ thread[t].rec.last_seq = Len(logs[thread[t].job]) + 1
                                            /\ jobs[thread[t].job] # Absent
              /\ thread[t].pc = "appended" => thread[t].rec.last_seq = Len(logs[thread[t].job])

\* The client has all lines up to the number it remembers.
Seen == /\ cursor \in [Jobs -> Nat] /\ received \in [Jobs -> SUBSET Nat]
        /\ \A j \in Jobs : cursor[j] \in 0..Len(logs[j]) /\ 1..cursor[j] \subseteq received[j]

Orderly == Lone /\ Dense /\ Level /\ Abreast /\ Seen

ReplayInv == /\ crashes \in Nat /\ overlapped \in BOOLEAN
             /\ crashes = 0 /\ ~overlapped => Orderly

LEMMA MaxIs ==
    ASSUME NEW S \in SUBSET Int, NEW m \in S, \A k \in S : k <= m
    PROVE  Max(S) = m
  <1>1. \A x \in S : (\A k \in S : x >= k) => x = m
    <2>1. ASSUME NEW x \in S, \A k \in S : x >= k
          PROVE  x = m
      <3>1. x >= m /\ x <= m /\ x \in Int /\ m \in Int
        BY <2>1
      <3>. QED
        BY <3>1
    <2>. QED
      BY <2>1
  <1>2. \A k \in S : m >= k
    OBVIOUS
  <1>. QED
    BY <1>1, <1>2 DEF Max

(* While one thread works the others are idle, also after its step. *)
LEMMA Solo ==
    ASSUME Lone, NEW t \in Threads,
           thread[t].pc \in {"scanned", "loaded", "appended", "written"}
    PROVE  \A u \in Threads \ {t} : thread[u] = Idle
  BY DEF Lone, Idle

LEMMA StaysLone ==
    ASSUME NEW t \in Threads, \A u \in Threads \ {t} : thread'[u] = Idle
    PROVE  Lone' /\ \A u \in Threads \ {t} : thread'[u].pc = "idle"
  BY DEF Lone, Idle

LEMMA RecordIsThere ==
    ASSUME NEW rec \in Record
    PROVE  rec # Absent /\ rec.last_seq \in Nat
  BY AbsentAssumption DEF Record

-----------------------------------------------------------------------------
LEMMA InitReplay == Init => ReplayInv
  <1>. SUFFICES ASSUME Init PROVE ReplayInv
    OBVIOUS
  <1>1. PICK j \in Jobs, s \in JobStates \cup {Absent} :
          /\ jobs = [k \in Jobs |-> IF k = j /\ s # Absent
                                    THEN [state |-> s, last_seq |-> Len(Left[s])]
                                    ELSE Absent]
          /\ logs = [k \in Jobs |->
                       IF k = j /\ s # Absent
                       THEN [i \in DOMAIN Left[s] |-> [seq |-> i, value |-> Left[s][i]]]
                       ELSE <<>>]
    BY DEF Init
  <1>2. /\ thread = [t \in Threads |-> Idle]
        /\ cursor = [k \in Jobs |-> 0] /\ received = [k \in Jobs |-> {}]
        /\ overlapped = FALSE /\ crashes = 0
    BY DEF Init
  <1>3. Lone /\ Abreast
    BY <1>2 DEF Lone, Abreast, Idle
  <1>4. Dense /\ Level /\ \A k \in Jobs : Len(logs[k]) \in Nat
    <2>1. CASE s = Absent
      <3>1. jobs = [k \in Jobs |-> Absent] /\ logs = [k \in Jobs |-> <<>>]
        BY <1>1, <2>1
      <3>. QED
        BY <3>1 DEF Dense, Level
    <2>2. CASE s # Absent
      <3>1. Left[s] \in Seq(JobStates)
        BY <2>2, LeftTold
      <3>. DEFINE n == Len(Left[s])
                  first == [i \in DOMAIN Left[s] |-> [seq |-> i, value |-> Left[s][i]]]
                  found == [state |-> s, last_seq |-> n]
      <3>2. n \in Nat /\ DOMAIN Left[s] = 1..n
        BY <3>1
      <3>3. DOMAIN first = 1..n /\ Len(first) = n /\ \A i \in DOMAIN first : first[i].seq = i
        BY <3>2
      <3>4. found \in Record /\ found.last_seq = n
        BY <2>2, <3>2 DEF Record
      <3>5. found # Absent
        BY <3>4, RecordIsThere
      <3>6. /\ jobs = [k \in Jobs |-> IF k = j THEN found ELSE Absent]
            /\ logs = [k \in Jobs |-> IF k = j THEN first ELSE <<>>]
        BY <1>1, <2>2
      <3>. HIDE DEF n, first, found
      <3>7. Dense /\ \A k \in Jobs : Len(logs[k]) \in Nat
        BY <3>2, <3>3, <3>6 DEF Dense
      <3>8. Level
        BY <3>3, <3>4, <3>5, <3>6 DEF Level
      <3>. QED
        BY <3>7, <3>8
    <2>. QED
      BY <2>1, <2>2
  <1>5. Seen
    BY <1>2, <1>4 DEF Seen
  <1>. QED
    BY <1>2, <1>3, <1>4, <1>5 DEF ReplayInv, Orderly

(* A request is taken when no other is in progress. *)
LEMMA ScanOrderly ==
    ASSUME IInv, Orderly, NEW t \in Threads, CreateScan(t), \A u \in Threads : thread[u] = Idle
    PROVE  Orderly'
  <1>1. PICK j \in Jobs : jobs[j] = Absent /\ Begin(t, [pc |-> "scanned", job |-> j])
    BY DEF CreateScan
  <1>. DEFINE w == [pc |-> "scanned", job |-> j]
  <1>2. /\ w.pc = "scanned" /\ w.job = j
        /\ thread' = [thread EXCEPT ![t] = w] /\ UNCHANGED <<jobs, logs, cursor, received>>
    BY <1>1 DEF Begin, CreateScan
  <1>. HIDE DEF w
  <1>3. thread'[t] = w /\ \A u \in Threads \ {t} : thread'[u] = Idle
    BY <1>2 DEF IInv, Typed
  <1>4. Lone' /\ \A u \in Threads \ {t} : thread'[u].pc = "idle"
    BY <1>3, StaysLone
  <1>5. logs[j] = <<>>
    BY <1>1 DEF Orderly, Level
  <1>6. Abreast'
    BY <1>2, <1>3, <1>4, <1>5 DEF Abreast
  <1>7. Level'
    BY <1>2, <1>3, <1>4 DEF Orderly, Level, Idle
  <1>8. Dense' /\ Seen'
    BY <1>2 DEF Orderly, Dense, Seen
  <1>. QED
    BY <1>4, <1>6, <1>7, <1>8 DEF Orderly

LEMMA LoadOrderly ==
    ASSUME IInv, Orderly, NEW t \in Threads, Load(t), \A u \in Threads : thread[u] = Idle
    PROVE  Orderly'
  <1>1. PICK j \in Jobs, op \in {"pause", "resume", "cancel"} :
          /\ jobs[j] # Absent
          /\ \E e \in TransitionsOf(Kind) :
               Begin(t, [pc |-> "loaded", job |-> j, op |-> op,
                         rec |-> [state |-> e[3], last_seq |-> jobs[j].last_seq + 1]])
    BY DEF Load
  <1>2. PICK s : Begin(t, [pc |-> "loaded", job |-> j, op |-> op,
                           rec |-> [state |-> s, last_seq |-> jobs[j].last_seq + 1]])
    BY <1>1
  <1>. DEFINE w == [pc |-> "loaded", job |-> j, op |-> op,
                    rec |-> [state |-> s, last_seq |-> jobs[j].last_seq + 1]]
  <1>3. /\ w.pc = "loaded" /\ w.job = j /\ w.rec.last_seq = jobs[j].last_seq + 1
        /\ thread' = [thread EXCEPT ![t] = w] /\ UNCHANGED <<jobs, logs, cursor, received>>
    BY <1>2 DEF Begin, Load
  <1>. HIDE DEF w
  <1>4. thread'[t] = w /\ \A u \in Threads \ {t} : thread'[u] = Idle
    BY <1>3 DEF IInv, Typed
  <1>5. Lone' /\ \A u \in Threads \ {t} : thread'[u].pc = "idle"
    BY <1>4, StaysLone
  <1>6. jobs[j].last_seq = Len(logs[j])
    BY <1>1 DEF Orderly, Level, Idle
  <1>7. Abreast'
    BY <1>1, <1>3, <1>4, <1>5, <1>6 DEF Abreast
  <1>8. Level'
    BY <1>3, <1>4, <1>5 DEF Orderly, Level, Idle
  <1>9. Dense' /\ Seen'
    BY <1>3 DEF Orderly, Dense, Seen
  <1>. QED
    BY <1>5, <1>7, <1>8, <1>9 DEF Orderly

(* A new job has no lines yet, and a record that says so. *)
LEMMA CreateOrderly ==
    ASSUME IInv, Orderly, NEW t \in Threads, CreateWrite(t)
    PROVE  Orderly'
  <1>. DEFINE j == thread[t].job
              new == [state |-> "queued", last_seq |-> 0]
  <1>1. j \in Jobs
    BY Carried DEF IInv, CreateWrite
  <1>2. new # Absent /\ new.last_seq = 0
    BY RecordIsThere DEF Record, JobStates
  <1>3. logs[j] = <<>>
    BY DEF CreateWrite, Orderly, Abreast
  <1>4. /\ jobs' = [jobs EXCEPT ![j] = new]
        /\ thread' = [thread EXCEPT ![t] = Idle]
        /\ UNCHANGED <<logs, cursor, received>>
    BY DEF CreateWrite
  <1>5. \A u \in Threads \ {t} : thread[u] = Idle
    BY Solo DEF CreateWrite, Orderly
  <1>. HIDE DEF j, new
  <1>6. thread'[t] = Idle /\ \A u \in Threads \ {t} : thread'[u] = Idle
    BY <1>4, <1>5 DEF IInv, Typed
  <1>7. Lone' /\ Abreast'
    BY <1>6 DEF Lone, Abreast, Idle
  <1>8. jobs'[j] = new /\ \A k \in Jobs \ {j} : jobs'[k] = jobs[k]
    BY <1>1, <1>4 DEF IInv, Typed
  <1>9. Level'
    <2>. SUFFICES ASSUME NEW k \in Jobs
                  PROVE  /\ jobs'[k] = Absent => logs[k] = <<>>
                         /\ jobs'[k] # Absent => jobs'[k].last_seq = Len(logs[k])
      BY <1>4 DEF Level
    <2>1. CASE k = j
      BY <2>1, <1>2, <1>3, <1>8
    <2>2. CASE k # j
      <3>1. \A u \in Threads : thread[u].pc # "appended"
        BY <1>5 DEF CreateWrite, Idle
      <3>. QED
        BY <2>2, <3>1, <1>8 DEF Orderly, Level
    <2>. QED
      BY <2>1, <2>2
  <1>10. Dense' /\ Seen'
    BY <1>4 DEF Orderly, Dense, Seen
  <1>. QED
    BY <1>7, <1>9, <1>10 DEF Orderly

(* The line that is written has the next number. *)
LEMMA AppendOrderly ==
    ASSUME IInv, Orderly, NEW t \in Threads, AppendEvent(t)
    PROVE  Orderly'
  <1>1. PICK k \in Jobs, line \in Line, rec \in Record :
          /\ k = thread[t].job /\ rec = thread[t].rec /\ line = StateOf(rec)
          /\ thread[t].pc \in {"loaded", "appended", "written"}
    BY Carried DEF IInv, AppendEvent
  <1>2. /\ logs' = [logs EXCEPT ![k] = Append(@, line)]
        /\ thread' = [thread EXCEPT ![t].pc = "appended"]
        /\ UNCHANGED <<jobs, cursor, received>>
    BY <1>1 DEF AppendEvent
  <1>3. /\ thread'[t].job = k /\ thread'[t].rec = rec /\ thread'[t].pc = "appended"
        /\ \A u \in Threads \ {t} : thread'[u] = thread[u]
    BY <1>1, <1>2, MovedOn DEF IInv
  <1>4. \A u \in Threads \ {t} : thread[u] = Idle
    BY Solo DEF AppendEvent, Orderly
  <1>5. Lone' /\ \A u \in Threads \ {t} : thread'[u].pc = "idle"
    BY <1>3, <1>4, StaysLone
  <1>6. rec.last_seq = Len(logs[k]) + 1 /\ jobs[k] # Absent /\ line.seq = rec.last_seq
    BY <1>1 DEF AppendEvent, Orderly, Abreast, StateOf
  <1>7. logs[k] \in Seq(Line) /\ Len(logs[k]) \in Nat
    BY DEF IInv, Typed
  <1>8. /\ logs'[k] = Append(logs[k], line) /\ Len(logs'[k]) = Len(logs[k]) + 1
        /\ \A j \in Jobs \ {k} : logs'[j] = logs[j]
    BY <1>2, <1>7 DEF IInv, Typed
  <1>9. Dense'
    <2>1. ASSUME NEW i \in DOMAIN logs'[k]
          PROVE  logs'[k][i].seq = i
      <3>1. i \in 1..(Len(logs[k]) + 1)
        BY <2>1, <1>7, <1>8
      <3>2. CASE i = Len(logs[k]) + 1
        BY <3>2, <1>6, <1>7, <1>8
      <3>3. CASE i # Len(logs[k]) + 1
        <4>1. i \in DOMAIN logs[k] /\ logs'[k][i] = logs[k][i]
          BY <3>1, <3>3, <1>7, <1>8
        <4>. QED
          BY <4>1 DEF Orderly, Dense
      <3>. QED
        BY <3>2, <3>3
    <2>. QED
      BY <2>1, <1>8 DEF Orderly, Dense
  <1>10. Level'
    <2>. SUFFICES ASSUME NEW j \in Jobs
                  PROVE  /\ jobs[j] = Absent => logs'[j] = <<>>
                         /\ (jobs[j] # Absent /\ \A u \in Threads : thread'[u].pc = "appended" => thread'[u].job # j)
                              => jobs[j].last_seq = Len(logs'[j])
      BY <1>2 DEF Level
    <2>1. CASE j = k
      BY <2>1, <1>3, <1>6
    <2>2. CASE j # k
      <3>1. \A u \in Threads : thread[u].pc # "appended"
        BY <1>4 DEF AppendEvent, Idle
      <3>. QED
        BY <2>2, <3>1, <1>8 DEF Orderly, Level
    <2>. QED
      BY <2>1, <2>2
  <1>11. Abreast'
    BY <1>3, <1>5, <1>6, <1>8 DEF Abreast
  <1>12. Seen'
    <2>1. ASSUME NEW j \in Jobs
          PROVE  cursor[j] \in 0..Len(logs'[j]) /\ 1..cursor[j] \subseteq received[j]
      <3>1. cursor[j] \in 0..Len(logs[j]) /\ 1..cursor[j] \subseteq received[j]
        BY DEF Orderly, Seen
      <3>2. logs[j] \in Seq(Line)
        BY DEF IInv, Typed
      <3>3. Len(logs'[j]) = Len(logs[j]) \/ Len(logs'[j]) = Len(logs[j]) + 1
        BY <1>8
      <3>. QED
        BY <3>1, <3>2, <3>3
    <2>. QED
      BY <2>1, <1>2 DEF Orderly, Seen
  <1>. QED
    BY <1>5, <1>9, <1>10, <1>11, <1>12 DEF Orderly

(* With the record the directory is level again. *)
LEMMA WriteOrderly ==
    ASSUME IInv, Orderly, NEW t \in Threads, WriteRecord(t)
    PROVE  Orderly'
  <1>1. PICK k \in Jobs, rec \in Record :
          /\ k = thread[t].job /\ rec = thread[t].rec
          /\ thread[t].pc \in {"loaded", "appended", "written"}
    BY Carried DEF IInv, WriteRecord
  <1>2. /\ jobs' = [jobs EXCEPT ![k] = rec]
        /\ thread' = [thread EXCEPT ![t].pc = "written"]
        /\ UNCHANGED <<logs, cursor, received>>
    BY <1>1 DEF WriteRecord
  <1>3. /\ thread'[t].pc = "written"
        /\ \A u \in Threads \ {t} : thread'[u] = thread[u]
    BY <1>1, <1>2, MovedOn DEF IInv
  <1>4. \A u \in Threads \ {t} : thread[u] = Idle
    BY Solo DEF WriteRecord, Orderly
  <1>5. Lone' /\ \A u \in Threads \ {t} : thread'[u].pc = "idle"
    BY <1>3, <1>4, StaysLone
  <1>6. rec.last_seq = Len(logs[k]) /\ rec # Absent
    BY <1>1, RecordIsThere DEF WriteRecord, Orderly, Abreast
  <1>7. jobs'[k] = rec /\ \A j \in Jobs \ {k} : jobs'[j] = jobs[j]
    BY <1>2 DEF IInv, Typed
  <1>8. Level'
    <2>. SUFFICES ASSUME NEW j \in Jobs
                  PROVE  /\ jobs'[j] = Absent => logs[j] = <<>>
                         /\ jobs'[j] # Absent => jobs'[j].last_seq = Len(logs[j])
      BY <1>2 DEF Level
    <2>1. CASE j = k
      BY <2>1, <1>6, <1>7
    <2>2. CASE j # k
      <3>1. \A u \in Threads : thread[u].pc = "appended" => thread[u].job # j
        BY <2>2, <1>1, <1>4 DEF Idle
      <3>. QED
        BY <2>2, <3>1, <1>7 DEF Orderly, Level
    <2>. QED
      BY <2>1, <2>2
  <1>9. Abreast'
    BY <1>3, <1>5 DEF Abreast
  <1>10. Dense' /\ Seen'
    BY <1>2 DEF Orderly, Dense, Seen
  <1>. QED
    BY <1>5, <1>8, <1>9, <1>10 DEF Orderly

LEMMA AnswerOrderly ==
    ASSUME IInv, Orderly, NEW t \in Threads, Answer(t)
    PROVE  Orderly'
  <1>1. thread' = [thread EXCEPT ![t] = Idle] /\ UNCHANGED <<jobs, logs, cursor, received>>
    BY DEF Answer
  <1>2. \A u \in Threads \ {t} : thread[u] = Idle
    BY Solo DEF Answer, Orderly
  <1>3. \A u \in Threads : thread'[u] = Idle
    BY <1>1, <1>2 DEF IInv, Typed
  <1>4. Lone' /\ Abreast'
    BY <1>3 DEF Lone, Abreast, Idle
  <1>5. \A u \in Threads : thread[u].pc # "appended"
    BY <1>2 DEF Answer, Idle
  <1>6. Level'
    BY <1>1, <1>5 DEF Orderly, Level
  <1>7. Dense' /\ Seen'
    BY <1>1 DEF Orderly, Dense, Seen
  <1>. QED
    BY <1>4, <1>6, <1>7 DEF Orderly

(* In a dense log the lines with a greater number are those behind, and the *)
(* largest number is that of the last.                                     *)
LEMMA PollOrderly ==
    ASSUME IInv, Orderly, NEW j \in Jobs, Poll(j)
    PROVE  Orderly'
  <1>. DEFINE new == NewLines(logs[j], cursor[j])
              m == Len(logs[j])
              n == cursor[j]
  <1>1. /\ new # {} /\ UNCHANGED <<jobs, logs, thread>>
        /\ received' = [received EXCEPT ![j] = @ \cup new]
        /\ cursor' = [cursor EXCEPT ![j] = Max({logs[j][i].seq : i \in new})]
    BY DEF Poll
  <1>2. logs[j] \in Seq(Line) /\ m \in Nat /\ DOMAIN logs[j] = 1..m
    BY DEF IInv, Typed
  <1>3. \A i \in 1..m : logs[j][i].seq = i
    BY <1>2 DEF Orderly, Dense
  <1>4. n \in 0..m /\ 1..n \subseteq received[j] /\ received[j] \subseteq Nat
    BY DEF Orderly, Seen
  <1>. cursor \in [Jobs -> Nat] /\ received \in [Jobs -> SUBSET Nat]
    BY DEF Orderly, Seen
  <1>5. new = {i \in 1..m : i > n}
    BY <1>2, <1>3 DEF NewLines
  <1>. HIDE DEF new, m, n
  <1>6. {logs[j][i].seq : i \in new} = new
    BY <1>3, <1>5
  <1>7. new \in SUBSET Int /\ m \in new /\ \A k \in new : k <= m
    BY <1>1, <1>2, <1>4, <1>5
  <1>8. Max(new) = m
    BY <1>7, MaxIs
  <1>9. 1..m \subseteq received[j] \cup new /\ received[j] \cup new \subseteq Nat
    BY <1>2, <1>4, <1>5
  <1>10. cursor' \in [Jobs -> Nat] /\ received' \in [Jobs -> SUBSET Nat]
    BY <1>1, <1>2, <1>6, <1>8, <1>9
  <1>11. /\ cursor'[j] = m /\ received'[j] = received[j] \cup new
         /\ \A k \in Jobs \ {j} : cursor'[k] = cursor[k] /\ received'[k] = received[k]
    BY <1>1, <1>6, <1>8
  <1>12. Seen'
    <2>1. ASSUME NEW k \in Jobs
          PROVE  cursor'[k] \in 0..Len(logs[k]) /\ 1..cursor'[k] \subseteq received'[k]
      <3>1. CASE k = j
        BY <3>1, <1>2, <1>9, <1>11 DEF m
      <3>2. CASE k # j
        BY <3>2, <1>11 DEF Orderly, Seen
      <3>. QED
        BY <3>1, <3>2
    <2>. QED
      BY <2>1, <1>1, <1>10 DEF Seen
  <1>13. Lone' /\ Dense' /\ Level' /\ Abreast'
    BY <1>1 DEF Orderly, Lone, Dense, Level, Abreast
  <1>. QED
    BY <1>12, <1>13 DEF Orderly

-----------------------------------------------------------------------------
(* A request that is taken while another is in progress is remembered. *)
LEMMA BeginAlone ==
    ASSUME NEW t \in Threads, NEW w, Begin(t, w), overlapped \in BOOLEAN
    PROVE  /\ overlapped' \in BOOLEAN
           /\ ~overlapped' => ~overlapped /\ \A u \in Threads : thread[u] = Idle
  BY DEF Begin

LEMMA ReplayStep == IInv /\ ReplayInv /\ [Next]_vars => ReplayInv'
  <1>. SUFFICES ASSUME IInv, ReplayInv, [Next]_vars PROVE ReplayInv'
    OBVIOUS
  <1>. USE DEF ReplayInv
  <1>1. ASSUME NEW t \in Threads, CreateScan(t) PROVE ReplayInv'
    <2>1. PICK w : Begin(t, w)
      BY <1>1 DEF CreateScan
    <2>2. /\ overlapped' \in BOOLEAN
          /\ ~overlapped' => ~overlapped /\ \A u \in Threads : thread[u] = Idle
      BY <2>1, BeginAlone
    <2>3. UNCHANGED <<crashes, cursor, received>>
      BY <1>1 DEF CreateScan
    <2>. QED
      BY <1>1, <2>2, <2>3, ScanOrderly
  <1>2. ASSUME NEW t \in Threads, Load(t) PROVE ReplayInv'
    <2>1. PICK w : Begin(t, w)
      BY <1>2 DEF Load
    <2>2. /\ overlapped' \in BOOLEAN
          /\ ~overlapped' => ~overlapped /\ \A u \in Threads : thread[u] = Idle
      BY <2>1, BeginAlone
    <2>3. UNCHANGED <<crashes, cursor, received>>
      BY <1>2 DEF Load
    <2>. QED
      BY <1>2, <2>2, <2>3, LoadOrderly
  <1>3. ASSUME NEW t \in Threads, CreateWrite(t) PROVE ReplayInv'
    BY <1>3, CreateOrderly DEF CreateWrite
  <1>4. ASSUME NEW t \in Threads, AppendEvent(t) PROVE ReplayInv'
    BY <1>4, AppendOrderly DEF AppendEvent
  <1>5. ASSUME NEW t \in Threads, WriteRecord(t) PROVE ReplayInv'
    BY <1>5, WriteOrderly DEF WriteRecord
  <1>6. ASSUME NEW t \in Threads, Answer(t) PROVE ReplayInv'
    BY <1>6, AnswerOrderly DEF Answer
  <1>7. ASSUME NEW j \in Jobs, Poll(j) PROVE ReplayInv'
    <2>1. UNCHANGED <<crashes, overlapped>>
      BY <1>7 DEF Poll
    <2>. QED
      BY <1>7, <2>1, PollOrderly
  <1>8. CASE Crash
    BY <1>8 DEF Crash
  <1>9. CASE OpenProject
    BY <1>9 DEF OpenProject, Orderly, Lone, Dense, Level, Abreast, Seen
  <1>10. CASE UNCHANGED vars
    BY <1>10 DEF vars, Orderly, Lone, Dense, Level, Abreast, Seen
  <1>. QED
    BY <1>1, <1>2, <1>3, <1>4, <1>5, <1>6, <1>7, <1>8, <1>9, <1>10 DEF Next

\* A client that polls with the last number it saw has every line up to it, for any
\* jobs, threads and lines, until requests overlap or the engine dies.
THEOREM NothingIsMissed == Spec => []ReplayMissesNothing
  <1>1. Init => ReplayInv
    BY InitReplay
  <1>2. IInv /\ ReplayInv /\ [Next]_vars => ReplayInv'
    BY ReplayStep
  <1>3. IInv /\ ReplayInv => ReplayMissesNothing
    <2>. SUFFICES ASSUME IInv, Orderly, NEW j \in Jobs, NEW i \in DOMAIN logs[j],
                         logs[j][i].seq <= cursor[j]
                  PROVE  i \in received[j]
      BY DEF ReplayInv, ReplayMissesNothing
    <2>1. i \in Nat \ {0} /\ logs[j][i].seq = i
      BY DEF IInv, Typed, Orderly, Dense
    <2>2. cursor[j] \in Nat /\ 1..cursor[j] \subseteq received[j]
      BY DEF Orderly, Seen, IInv, Typed
    <2>. QED
      BY <2>1, <2>2
  <1>. QED
    BY <1>1, <1>2, <1>3, Invariant, PTL DEF Spec

=============================================================================
