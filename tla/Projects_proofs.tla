--------------------------- MODULE Projects_proofs ---------------------------
(***************************************************************************)
(* Proofs about Projects for any number of engines, names, revisions and   *)
(* deaths: the lock of a project is held by the engine that has it open or *)
(* is opening it, no two engines have it open, and project.json is never   *)
(* behind the database.                                                    *)
(***************************************************************************)
EXTENDS Projects, FiniteSetTheorems, TLAPS

LoopState ==
    {Idle} \cup [op : {"create"}] \cup [op : {"open", "locked"}, manifest : Manifest]
    \cup [op : {"patch"}, renames : BOOLEAN, cloud : BOOLEAN, manifest : Manifest]
    \cup [op : {"delete"}, all : BOOLEAN, todo : SUBSET {"manifest", "db", "lock"}]

ThreadState == {Idle} \cup [op : {"editing", "written"}, next : 1..MaxRevision]

TypeOK == /\ manifest \in Manifest \cup {None}
          /\ db \in Stored
          /\ open \in [Engines -> Handle \cup {None}]
          /\ stale \in [Engines -> Handle \cup {None}]
          /\ loop \in [Engines -> LoopState]
          /\ thread \in [Engines -> ThreadState]

\* An edit has a handle: that of the open project, or the one it was closed with.
EditHasHandle == \A e \in Engines : thread[e] # Idle => stale[e] # None \/ open[e] # None

\* A project that is being opened is not open.
OpenedOnce == \A e \in Engines : loop[e].op \in {"open", "locked"} => open[e] = None

\* Who has the project open, or is about to, holds the lock; where the lock is
\* being deleted nobody has.
OwnersHoldTheLock ==
    ~intruded => \A e \in Engines :
        /\ open[e] # None \/ loop[e].op = "locked" => holder = e
        /\ loop[e].op = "delete" =>
             \A f \in Engines : open[f] = None /\ loop[f].op \notin {"open", "locked"}

LockInv == TypeOK /\ EditHasHandle /\ OpenedOnce /\ OwnersHoldTheLock /\ LockIsAccountedFor

-----------------------------------------------------------------------------
(* Records. *)

LEMMA Kinds ==
    /\ Idle.op = "idle"
    /\ \A s \in LoopState : s # Idle => s.op \in {"create", "open", "locked", "patch", "delete"}
    /\ \A s \in LoopState : s.op \in {"open", "locked", "patch"} => s.manifest \in Manifest
    /\ \A s \in LoopState : s.op \in {"open", "locked"} =>
          \A o \in {"open", "locked"} : [s EXCEPT !.op = o] \in LoopState
                                        /\ [s EXCEPT !.op = o].op = o
    /\ \A s \in LoopState : s.op = "delete" =>
          \A f : [s EXCEPT !.todo = @ \ {f}] \in LoopState /\ [s EXCEPT !.todo = @ \ {f}].op = "delete"
    /\ \A s \in ThreadState : s # Idle => s.next \in 1..MaxRevision
          /\ \A o \in {"editing", "written"} : [s EXCEPT !.op = o] \in ThreadState
  BY DEF Idle, LoopState, ThreadState

LEMMA HandleUpdates ==
    ASSUME NEW h \in Handle
    PROVE  /\ h # None
           /\ \A m \in Manifest : [h EXCEPT !.manifest = m] \in Handle
           /\ \A d \in Stored : [h EXCEPT !.db = d] \in Handle
           /\ h.manifest \in Manifest /\ h.db \in Stored \cup {Linked}
  BY NoneAssumption DEF Handle

\* A step of e in which nobody takes or gives up the lock, opens or closes.
LEMMA QuietStep ==
    ASSUME LockInv, NEW e \in Engines, NEW work \in LoopState, loop' = [loop EXCEPT ![e] = work],
           holder' = holder, \A f \in Engines : (open'[f] # None) <=> (open[f] # None),
           intruded => intruded',
           work.op = loop[e].op \/ (loop[e].op # "locked" /\ work.op \in {"idle", "create", "open", "patch"}),
           work.op = "open" /\ ~intruded' => loop[e].op = "open" \/ ~Unguarded,
           work.op = "open" => open[e] = None
    PROVE  OwnersHoldTheLock' /\ LockIsAccountedFor' /\ OpenedOnce'
  <1>1. loop'[e] = work /\ \A f \in Engines \ {e} : loop'[f] = loop[f]
    BY DEF LockInv, TypeOK
  <1>2. OwnersHoldTheLock'
    <2>1. SUFFICES ASSUME ~intruded'
                   PROVE  OwnersHoldTheLock'
      BY DEF OwnersHoldTheLock
    <2>2. ~intruded
      BY <2>1
    <2>3. ASSUME NEW f \in Engines, open'[f] # None \/ loop'[f].op = "locked"
          PROVE  holder' = f
      BY <1>1, <2>2, <2>3 DEF LockInv, OwnersHoldTheLock
    <2>4. ASSUME NEW f \in Engines, loop'[f].op = "delete", NEW g \in Engines
          PROVE  open'[g] = None /\ loop'[g].op \notin {"open", "locked"}
      <3>1. loop[f].op = "delete"
        BY <1>1, <2>4
      <3>2. open[g] = None /\ loop[g].op \notin {"open", "locked"} /\ Unguarded
        BY <2>2, <3>1 DEF LockInv, OwnersHoldTheLock, Unguarded
      <3>. QED
        BY <1>1, <2>1, <3>2
    <2>. QED
      BY <2>3, <2>4 DEF OwnersHoldTheLock
  <1>3. LockIsAccountedFor'
    BY <1>1 DEF LockInv, LockIsAccountedFor
  <1>4. OpenedOnce'
    BY <1>1 DEF LockInv, OpenedOnce
  <1>. QED
    BY <1>2, <1>3, <1>4

\* The new handle of e; a busy thread keeps the old one.
LEMMA ReopenedIs ==
    ASSUME LockInv, NEW e \in Engines, NEW h \in Handle \cup {None}, Reopened(e, h),
           thread' = thread
    PROVE  /\ open' \in [Engines -> Handle \cup {None}]
           /\ stale' \in [Engines -> Handle \cup {None}]
           /\ open'[e] = h /\ \A f \in Engines \ {e} : open'[f] = open[f]
           /\ EditHasHandle'
  <1>1. /\ open' \in [Engines -> Handle \cup {None}]
        /\ open'[e] = h /\ \A f \in Engines \ {e} : open'[f] = open[f]
    BY DEF Reopened, LockInv, TypeOK
  <1>2. /\ stale' \in [Engines -> Handle \cup {None}]
        /\ \A f \in Engines \ {e} : stale'[f] = stale[f]
        /\ stale'[e] = IF thread[e] # Idle /\ stale[e] = None THEN open[e] ELSE stale[e]
    BY DEF Reopened, LockInv, TypeOK
  <1>3. EditHasHandle'
    BY <1>1, <1>2 DEF LockInv, EditHasHandle
  <1>. QED
    BY <1>1, <1>2, <1>3

-----------------------------------------------------------------------------
(* The steps. *)

LEMMA LockInit == Init => LockInv
  <1> SUFFICES ASSUME Init
               PROVE  LockInv
    OBVIOUS
  <1>1. /\ open = [e \in Engines |-> None] /\ loop = [e \in Engines |-> Idle]
        /\ thread = [e \in Engines |-> Idle] /\ stale = [e \in Engines |-> None]
        /\ holder = None
    BY DEF Init
  <1>2. manifest \in Manifest \cup {None} /\ db \in Stored
    BY ProjectsAssumption DEF Init, Manifest, Stored
  <1>3. TypeOK
    BY <1>1, <1>2 DEF TypeOK, LoopState, ThreadState
  <1>4. \A e \in Engines : holder # e
    BY <1>1, NoneAssumption
  <1>. QED
    BY <1>1, <1>3, <1>4, Kinds DEF LockInv, EditHasHandle, OwnersHoldTheLock, LockIsAccountedFor,
       OpenedOnce

LEMMA CreateStep ==
    ASSUME LockInv, NEW e \in Engines, Create(e) \/ CreateEnds(e)
    PROVE  LockInv'
  <1>1. PICK work \in LoopState : /\ loop' = [loop EXCEPT ![e] = work]
                                  /\ work.op \in {"idle", "create"} /\ loop[e].op # "locked"
    BY Kinds DEF Create, CreateEnds, Begin, LoopState, Idle
  <1>2. /\ UNCHANGED <<holder, open, thread, stale>> /\ (intruded => intruded')
        /\ manifest' \in Manifest \cup {None} /\ db' \in Stored
    <2>1. [name : Names, revision : {0}] \subseteq Manifest /\ {0, None} \subseteq Stored
      BY ProjectsAssumption DEF Manifest, Stored
    <2>2. manifest \in Manifest \cup {None} /\ db \in Stored
      BY DEF LockInv, TypeOK
    <2>3. CASE Create(e)
      BY <2>1, <2>2, <2>3 DEF Create
    <2>4. CASE CreateEnds(e)
      BY <2>1, <2>2, <2>4 DEF CreateEnds
    <2>. QED
      BY <2>3, <2>4
  <1>3. OwnersHoldTheLock' /\ LockIsAccountedFor' /\ OpenedOnce'
    BY <1>1, <1>2, QuietStep
  <1>. QED
    BY <1>1, <1>2, <1>3 DEF LockInv, TypeOK, EditHasHandle

LEMMA OpenReadStep ==
    ASSUME LockInv, NEW e \in Engines, OpenRead(e)
    PROVE  LockInv'
  <1> DEFINE work == [op |-> "open", manifest |-> manifest]
  <1>1. work \in LoopState /\ work.op = "open"
    BY DEF OpenRead, LockInv, TypeOK, LoopState
  <1>2. loop' = [loop EXCEPT ![e] = work] /\ loop[e].op # "locked"
    BY Kinds DEF OpenRead, Begin
  <1>3. /\ UNCHANGED <<manifest, db, holder, open, thread, stale>> /\ (intruded => intruded')
        /\ ~intruded' => ~Unguarded
    BY DEF OpenRead
  <1>4. OwnersHoldTheLock' /\ LockIsAccountedFor' /\ OpenedOnce'
    BY <1>1, <1>2, <1>3, QuietStep DEF OpenRead
  <1>. QED
    BY <1>1, <1>2, <1>3, <1>4 DEF LockInv, TypeOK, EditHasHandle

LEMMA OpenLockStep ==
    ASSUME LockInv, NEW e \in Engines, OpenLock(e)
    PROVE  LockInv'
  <1>1. /\ loop[e].op = "open" /\ UNCHANGED <<manifest, db, open, thread, stale, intruded>>
        /\ loop[e] \in LoopState
    BY DEF OpenLock, LockInv, TypeOK
  <1>2. CASE holder # None
    <2>1. loop' = [loop EXCEPT ![e] = Idle] /\ holder' = holder
      BY <1>2 DEF OpenLock
    <2>2. OwnersHoldTheLock' /\ LockIsAccountedFor' /\ OpenedOnce'
      BY <1>1, <2>1, Kinds, QuietStep DEF LoopState
    <2>. QED
      BY <1>1, <2>1, <2>2 DEF LockInv, TypeOK, EditHasHandle, LoopState
  <1>3. CASE holder = None
    <2>1. PICK work \in LoopState : work.op = "locked" /\ loop' = [loop EXCEPT ![e] = work]
      BY <1>1, <1>3, Kinds DEF OpenLock
    <2>2. holder' = e
      BY <1>3 DEF OpenLock
    <2>3. loop'[e] = work /\ \A f \in Engines \ {e} : loop'[f] = loop[f]
      BY <2>1 DEF LockInv, TypeOK
    <2>4. OwnersHoldTheLock'
      <3>1. SUFFICES ASSUME ~intruded
                     PROVE  OwnersHoldTheLock'
        BY <1>1 DEF OwnersHoldTheLock
      <3>2. \A f \in Engines : open[f] = None /\ loop[f].op # "locked"
        BY <1>3, <3>1, NoneAssumption DEF LockInv, OwnersHoldTheLock
      <3>3. \A f \in Engines : loop[f].op # "delete"
        BY <1>1, <3>1 DEF LockInv, OwnersHoldTheLock
      <3>. QED
        BY <1>1, <2>1, <2>2, <2>3, <3>2, <3>3 DEF OwnersHoldTheLock
    <2>5. LockIsAccountedFor'
      BY <2>1, <2>2, <2>3 DEF LockIsAccountedFor
    <2>6. OpenedOnce'
      BY <1>1, <2>3 DEF LockInv, OpenedOnce
    <2>. QED
      BY <1>1, <2>1, <2>4, <2>5, <2>6 DEF LockInv, TypeOK, EditHasHandle
  <1>. QED
    BY <1>2, <1>3

\* A step in which e gives the lock up, if it has it, and has nothing open.
LEMMA LetGo ==
    ASSUME LockInv, NEW e \in Engines, NEW work \in LoopState, loop' = [loop EXCEPT ![e] = work],
           work.op \in {"idle", "delete"}, holder' = Unlocked(e), open'[e] = None,
           \A f \in Engines \ {e} : open'[f] = open[f], intruded => intruded',
           work.op = "delete" /\ ~intruded' =>
               \A f \in Engines \ {e} : open[f] = None /\ loop[f].op \notin {"open", "locked"}
    PROVE  OwnersHoldTheLock' /\ LockIsAccountedFor' /\ OpenedOnce'
  <1>1. loop'[e] = work /\ \A f \in Engines \ {e} : loop'[f] = loop[f]
    BY DEF LockInv, TypeOK
  <1>2. \A f \in Engines \ {e} : holder = f <=> holder' = f
    BY NoneAssumption DEF Unlocked
  <1>3. holder' # e
    BY NoneAssumption DEF Unlocked
  <1>4. LockIsAccountedFor'
    BY <1>1, <1>2, <1>3 DEF LockInv, LockIsAccountedFor
  <1>5. OwnersHoldTheLock'
    <2>1. SUFFICES ASSUME ~intruded'
                   PROVE  OwnersHoldTheLock'
      BY DEF OwnersHoldTheLock
    <2>2. ASSUME NEW f \in Engines, open'[f] # None \/ loop'[f].op = "locked"
          PROVE  holder' = f
      <3>1. f # e /\ (open[f] # None \/ loop[f].op = "locked")
        BY <1>1, <2>2
      <3>. QED
        BY <1>2, <2>1, <3>1 DEF LockInv, OwnersHoldTheLock
    <2>3. ASSUME NEW f \in Engines, loop'[f].op = "delete", NEW g \in Engines
          PROVE  open'[g] = None /\ loop'[g].op \notin {"open", "locked"}
      <3>1. CASE g = e
        BY <1>1, <3>1
      <3>2. CASE g # e /\ f = e
        BY <1>1, <2>1, <2>3, <3>2
      <3>3. CASE g # e /\ f # e
        BY <1>1, <2>1, <2>3, <3>3 DEF LockInv, OwnersHoldTheLock
      <3>. QED
        BY <3>1, <3>2, <3>3
    <2>. QED
      BY <2>2, <2>3 DEF OwnersHoldTheLock
  <1>6. OpenedOnce'
    BY <1>1 DEF LockInv, OpenedOnce
  <1>. QED
    BY <1>4, <1>5, <1>6

LEMMA OpenEndsStep ==
    ASSUME LockInv, NEW e \in Engines, OpenEnds(e)
    PROVE  LockInv'
  <1>1. /\ loop[e].op = "locked" /\ loop[e] \in LoopState /\ loop' = [loop EXCEPT ![e] = Idle]
        /\ UNCHANGED <<manifest, thread, intruded>>
    BY DEF OpenEnds, LockInv, TypeOK
  <1>2. db' \in Stored /\ loop' \in [Engines -> LoopState] /\ Idle \in LoopState
    BY <1>1 DEF OpenEnds, LockInv, TypeOK, Stored, LoopState
  <1>3. loop'[e] = Idle /\ \A f \in Engines \ {e} : loop'[f] = loop[f]
    BY <1>1 DEF LockInv, TypeOK
  <1>4. CASE UNCHANGED <<open, stale>> /\ holder' = Unlocked(e)
    <2>1. open'[e] = None
      BY <1>1, <1>4 DEF LockInv, OpenedOnce
    <2>2. OwnersHoldTheLock' /\ LockIsAccountedFor' /\ OpenedOnce'
      BY <1>1, <1>2, <1>4, <2>1, Kinds, LetGo
    <2>. QED
      BY <1>1, <1>2, <1>4, <2>2 DEF LockInv, TypeOK, EditHasHandle
  <1>5. CASE /\ Reopened(e, [manifest |-> loop[e].manifest, db |-> Linked])
             /\ UNCHANGED holder
    <2> DEFINE h == [manifest |-> loop[e].manifest, db |-> Linked]
    <2>1. h \in Handle
      BY <1>1, Kinds DEF Handle
    <2>2. h # None
      BY <2>1, HandleUpdates
    <2>. HIDE DEF h
    <2>3. /\ open' \in [Engines -> Handle \cup {None}]
          /\ stale' \in [Engines -> Handle \cup {None}]
          /\ open'[e] = h /\ \A f \in Engines \ {e} : open'[f] = open[f]
          /\ EditHasHandle'
      BY <1>1, <1>5, <2>1, ReopenedIs DEF h
    <2>4. LockIsAccountedFor'
      BY <1>3, <1>5, <2>2, <2>3 DEF LockInv, LockIsAccountedFor
    <2>5. OwnersHoldTheLock'
      <3>1. SUFFICES ASSUME ~intruded
                     PROVE  OwnersHoldTheLock'
        BY <1>1 DEF OwnersHoldTheLock
      <3>2. holder = e
        BY <1>1, <3>1 DEF LockInv, OwnersHoldTheLock
      <3>3. \A f \in Engines : loop[f].op # "delete"
        BY <1>1, <3>1 DEF LockInv, OwnersHoldTheLock
      <3>. QED
        BY <1>1, <1>3, <1>5, <2>3, <3>1, <3>2, <3>3, Kinds DEF LockInv, OwnersHoldTheLock
    <2>6. OpenedOnce'
      BY <1>3, <2>3, Kinds DEF LockInv, OpenedOnce
    <2>. QED
      BY <1>1, <1>2, <2>3, <2>4, <2>5, <2>6 DEF LockInv, TypeOK
  <1>. QED
    BY <1>4, <1>5 DEF OpenEnds

LEMMA CloseStep ==
    ASSUME LockInv, NEW e \in Engines, Close(e)
    PROVE  LockInv'
  <1>1. /\ loop[e] = Idle /\ Reopened(e, None) /\ holder' = Unlocked(e)
        /\ UNCHANGED <<manifest, db, loop, thread>> /\ (intruded => intruded')
    BY DEF Close
  <1>2. Idle \in LoopState /\ loop' = [loop EXCEPT ![e] = Idle]
    BY <1>1 DEF LockInv, TypeOK, LoopState
  <1>3. /\ open' \in [Engines -> Handle \cup {None}]
        /\ stale' \in [Engines -> Handle \cup {None}]
        /\ open'[e] = None /\ \A f \in Engines \ {e} : open'[f] = open[f]
        /\ EditHasHandle'
    BY <1>1, ReopenedIs
  <1>4. OwnersHoldTheLock' /\ LockIsAccountedFor' /\ OpenedOnce'
    BY <1>1, <1>2, <1>3, Kinds, LetGo
  <1>. QED
    BY <1>1, <1>3, <1>4 DEF LockInv, TypeOK

LEMMA CrashStep ==
    ASSUME LockInv, NEW e \in Engines, Crash(e)
    PROVE  LockInv'
  <1>1. /\ open' = [open EXCEPT ![e] = None] /\ stale' = [stale EXCEPT ![e] = None]
        /\ loop' = [loop EXCEPT ![e] = Idle] /\ thread' = [thread EXCEPT ![e] = Idle]
        /\ holder' = Unlocked(e) /\ UNCHANGED <<manifest, db, intruded>>
    BY DEF Crash
  <1>2. Idle \in LoopState /\ Idle \in ThreadState
    BY DEF LoopState, ThreadState
  <1>3. TypeOK'
    BY <1>1, <1>2 DEF LockInv, TypeOK
  <1>4. open'[e] = None /\ \A f \in Engines \ {e} : open'[f] = open[f]
    BY <1>1 DEF LockInv, TypeOK
  <1>5. EditHasHandle'
    BY <1>1 DEF LockInv, TypeOK, EditHasHandle
  <1>6. OwnersHoldTheLock' /\ LockIsAccountedFor' /\ OpenedOnce'
    BY <1>1, <1>2, <1>4, Kinds, LetGo
  <1>. QED
    BY <1>3, <1>5, <1>6 DEF LockInv

LEMMA DeleteStep ==
    ASSUME LockInv, NEW e \in Engines, Delete(e)
    PROVE  LockInv'
  <1>1. PICK all \in BOOLEAN :
          Begin(e, [op |-> "delete", all |-> all, todo |-> {"manifest", "db", "lock"}])
    BY DEF Delete
  <1> DEFINE work == [op |-> "delete", all |-> all, todo |-> {"manifest", "db", "lock"}]
  <1>2. work \in LoopState /\ work.op = "delete"
    BY DEF LoopState
  <1>3. loop[e] = Idle /\ loop' = [loop EXCEPT ![e] = work]
    BY <1>1 DEF Begin
  <1>. HIDE DEF work
  <1>4. UNCHANGED <<manifest, db, thread>> /\ (intruded => intruded')
    BY DEF Delete
  <1>5. /\ open' \in [Engines -> Handle \cup {None}]
        /\ stale' \in [Engines -> Handle \cup {None}]
        /\ open'[e] = None /\ \A f \in Engines \ {e} : open'[f] = open[f]
        /\ EditHasHandle'
    <2>1. CASE open[e] = None
      BY <1>4, <2>1 DEF Delete, LockInv, TypeOK, EditHasHandle
    <2>2. CASE open[e] # None
      BY <1>4, <2>2, ReopenedIs DEF Delete
    <2>. QED
      BY <2>1, <2>2
  <1>6. holder' = Unlocked(e) \/ (holder' = holder /\ open[e] = None)
    BY DEF Delete
  <1>7. holder' = Unlocked(e)
    <2>1. holder = e => open[e] # None
      BY <1>3, Kinds DEF LockInv, LockIsAccountedFor
    <2>. QED
      BY <1>6, <2>1 DEF Unlocked
  <1>8. ~intruded' => \A f \in Engines \ {e} : open[f] = None /\ loop[f].op \notin {"open", "locked"}
    BY Kinds DEF Delete, AtWork, OpenElsewhere
  <1>9. OwnersHoldTheLock' /\ LockIsAccountedFor' /\ OpenedOnce'
    BY <1>2, <1>3, <1>4, <1>5, <1>7, <1>8, LetGo
  <1>. QED
    BY <1>2, <1>3, <1>4, <1>5, <1>9 DEF LockInv, TypeOK

LEMMA PatchReadStep ==
    ASSUME LockInv, NEW e \in Engines, PatchRead(e)
    PROVE  LockInv'
  <1>1. manifest \in Manifest /\ loop[e] = Idle
    BY DEF PatchRead, Begin, LockInv, TypeOK
  <1>2. PICK name \in Names, renames, cloud \in BOOLEAN :
          Begin(e, [op |-> "patch", renames |-> renames, cloud |-> cloud,
                    manifest |-> IF renames THEN [manifest EXCEPT !.name = name] ELSE manifest])
    BY DEF PatchRead
  <1>3. PICK m \in Manifest : m = IF renames THEN [manifest EXCEPT !.name = name] ELSE manifest
    BY <1>1 DEF Manifest
  <1> DEFINE work == [op |-> "patch", renames |-> renames, cloud |-> cloud, manifest |-> m]
  <1>4. work \in LoopState /\ work.op = "patch" /\ loop' = [loop EXCEPT ![e] = work]
    BY <1>2, <1>3 DEF Begin, LoopState
  <1>. HIDE DEF work
  <1>5. UNCHANGED <<manifest, db, holder, open, thread, stale>> /\ (intruded => intruded')
    BY DEF PatchRead
  <1>6. OwnersHoldTheLock' /\ LockIsAccountedFor' /\ OpenedOnce'
    BY <1>1, <1>4, <1>5, Kinds, QuietStep
  <1>. QED
    BY <1>4, <1>5, <1>6 DEF LockInv, TypeOK, EditHasHandle

LEMMA PatchWriteStep ==
    ASSUME LockInv, NEW e \in Engines, PatchWrite(e)
    PROVE  LockInv'
  <1>1. /\ loop[e].op = "patch" /\ loop[e] \in LoopState /\ loop[e].manifest \in Manifest
        /\ loop' = [loop EXCEPT ![e] = Idle] /\ Idle \in LoopState
    BY Kinds DEF PatchWrite, LockInv, TypeOK, LoopState
  <1>2. UNCHANGED <<holder, thread, stale, intruded>>
    BY DEF PatchWrite
  <1>3. manifest' \in Manifest \cup {None} /\ db' \in Stored
    BY <1>1 DEF PatchWrite, LockInv, TypeOK, Stored
  <1>4. /\ open' \in [Engines -> Handle \cup {None}]
        /\ \A f \in Engines : (open'[f] # None) <=> (open[f] # None)
    <2>1. CASE open' = open
      BY <2>1 DEF LockInv, TypeOK
    <2>2. CASE open[e] # None /\ open' = [open EXCEPT ![e].manifest = loop[e].manifest]
      <3>1. open[e] \in Handle
        BY <2>2 DEF LockInv, TypeOK
      <3>2. PICK h \in Handle : h = [open[e] EXCEPT !.manifest = loop[e].manifest]
        BY <1>1, <3>1, HandleUpdates
      <3>3. open' = [open EXCEPT ![e] = h]
        BY <2>2, <3>2
      <3>. QED
        BY <2>2, <3>3, HandleUpdates DEF LockInv, TypeOK
    <2>. QED
      BY <2>1, <2>2 DEF PatchWrite
  <1>5. OwnersHoldTheLock' /\ LockIsAccountedFor' /\ OpenedOnce'
    BY <1>1, <1>2, <1>4, Kinds, QuietStep
  <1>. QED
    BY <1>1, <1>2, <1>3, <1>4, <1>5 DEF LockInv, TypeOK, EditHasHandle

LEMMA UnlinkStep ==
    ASSUME LockInv, NEW e \in Engines, Unlink(e)
    PROVE  LockInv'
  <1>1. PICK f \in loop[e].todo :
          /\ loop' = [loop EXCEPT ![e].todo = @ \ {f}]
          /\ manifest' = IF f = "manifest" THEN None ELSE manifest
          /\ db' = IF f = "db" THEN None ELSE db
          /\ holder' = IF f = "lock" THEN None ELSE holder
          /\ open' = IF f = "db" THEN [g \in Engines |-> Orphaned(open[g])] ELSE open
    BY DEF Unlink
  <1>2. loop[e].op = "delete" /\ loop[e] \in LoopState /\ UNCHANGED <<thread, stale, intruded>>
    BY DEF Unlink, LockInv, TypeOK
  <1>3. PICK work \in LoopState : work = [loop[e] EXCEPT !.todo = @ \ {f}] /\ work.op = "delete"
    BY <1>2, Kinds
  <1>4. loop' = [loop EXCEPT ![e] = work]
    BY <1>1, <1>3
  <1>5. loop'[e] = work /\ \A g \in Engines \ {e} : loop'[g] = loop[g]
    BY <1>4 DEF LockInv, TypeOK
  <1>6. manifest' \in Manifest \cup {None} /\ db' \in Stored
    BY <1>1 DEF LockInv, TypeOK, Stored
  <1>7. /\ open' \in [Engines -> Handle \cup {None}]
        /\ \A g \in Engines : (open'[g] # None) <=> (open[g] # None)
    <2>1. CASE open' = open
      BY <2>1 DEF LockInv, TypeOK
    <2>2. CASE open' = [g \in Engines |-> Orphaned(open[g])]
      <3>1. ASSUME NEW g \in Engines
            PROVE  Orphaned(open[g]) \in Handle \cup {None} /\ (Orphaned(open[g]) # None <=> open[g] # None)
        <4>1. open[g] \in Handle \cup {None} /\ db \in Stored
          BY DEF LockInv, TypeOK
        <4>2. CASE open[g] = None
          BY <4>2 DEF Orphaned
        <4>3. CASE open[g] \in Handle
          BY <4>1, <4>3, HandleUpdates DEF Orphaned
        <4>. QED
          BY <4>1, <4>2, <4>3
      <3>. QED
        BY <2>2, <3>1
    <2>. QED
      BY <1>1, <2>1, <2>2
  <1>8. EditHasHandle' /\ OpenedOnce'
    BY <1>2, <1>3, <1>5, <1>7 DEF LockInv, EditHasHandle, OpenedOnce
  <1>9. LockIsAccountedFor'
    BY <1>1, <1>2, <1>3, <1>5, <1>7, NoneAssumption DEF LockInv, LockIsAccountedFor
  <1>10. OwnersHoldTheLock'
    BY <1>2, <1>3, <1>5, <1>7 DEF LockInv, OwnersHoldTheLock
  <1>. QED
    BY <1>2, <1>4, <1>6, <1>7, <1>8, <1>9, <1>10 DEF LockInv, TypeOK

LEMMA DeleteEndsStep ==
    ASSUME LockInv, NEW e \in Engines, DeleteEnds(e)
    PROVE  LockInv'
  <1>1. /\ loop[e].op = "delete" /\ loop' = [loop EXCEPT ![e] = Idle]
        /\ UNCHANGED <<manifest, db, holder, open, thread, stale, intruded>>
    BY DEF DeleteEnds
  <1>2. Idle \in LoopState
    BY DEF LoopState
  <1>3. OwnersHoldTheLock' /\ LockIsAccountedFor' /\ OpenedOnce'
    BY <1>1, <1>2, Kinds, QuietStep
  <1>. QED
    BY <1>1, <1>2, <1>3 DEF LockInv, TypeOK, EditHasHandle

\* An edit, which is no step of the event loop.
LEMMA EditStep ==
    ASSUME LockInv, NEW e \in Engines, UNCHANGED <<loop, holder>>, intruded => intruded',
           manifest' \in Manifest \cup {None}, db' \in Stored,
           NEW s \in ThreadState, thread' = [thread EXCEPT ![e] = s],
           open' \in [Engines -> Handle \cup {None}], stale' \in [Engines -> Handle \cup {None}],
           \A f \in Engines : (open'[f] # None) <=> (open[f] # None),
           \A f \in Engines \ {e} : stale'[f] = stale[f],
           s # Idle => stale'[e] # None \/ open[e] # None
    PROVE  LockInv'
  <1>1. loop[e] \in LoopState /\ loop' = [loop EXCEPT ![e] = loop[e]]
    BY DEF LockInv, TypeOK
  <1>2. loop[e].op = "open" => open[e] = None
    BY DEF LockInv, OpenedOnce
  <1>3. OwnersHoldTheLock' /\ LockIsAccountedFor' /\ OpenedOnce'
    BY <1>1, <1>2, QuietStep
  <1>4. TypeOK'
    BY DEF LockInv, TypeOK
  <1>5. EditHasHandle'
    BY DEF LockInv, TypeOK, EditHasHandle
  <1>. QED
    BY <1>3, <1>4, <1>5 DEF LockInv

LEMMA EditBeginStep ==
    ASSUME LockInv, NEW e \in Engines, EditBegin(e)
    PROVE  LockInv'
  <1>1. PICK n \in 1..MaxRevision : n = Database(open[e]) + 1
    BY ProjectsAssumption DEF EditBegin
  <1> DEFINE s == [op |-> "editing", next |-> n]
  <1>2. s \in ThreadState
    BY DEF ThreadState
  <1>3. /\ thread' = [thread EXCEPT ![e] = s] /\ open[e] # None /\ (intruded => intruded')
        /\ UNCHANGED <<manifest, db, holder, open, loop, stale>>
    BY <1>1 DEF EditBegin
  <1>. HIDE DEF s
  <1>. QED
    BY <1>2, <1>3, EditStep DEF LockInv, TypeOK

LEMMA EditManifestStep ==
    ASSUME LockInv, NEW e \in Engines, EditManifest(e)
    PROVE  LockInv'
  <1> DEFINE h == IF stale[e] # None THEN stale[e] ELSE open[e]
  <1>1. /\ thread[e] \in ThreadState /\ thread[e] # Idle /\ thread[e].next \in 1..MaxRevision
        /\ thread' = [thread EXCEPT ![e].op = "written"]
        /\ UNCHANGED <<db, holder, loop, intruded>> /\ Announce(e, thread[e].next)
    BY Kinds DEF EditManifest, LockInv, TypeOK
  <1>2. PICK s \in ThreadState : s = [thread[e] EXCEPT !.op = "written"]
    BY <1>1, Kinds
  <1>3. thread' = [thread EXCEPT ![e] = s]
    BY <1>1, <1>2
  <1>4. h \in Handle
    BY <1>1 DEF LockInv, TypeOK, EditHasHandle
  <1>5. PICK m \in Manifest : m = [h.manifest EXCEPT !.revision = thread[e].next]
    <2>1. PICK n \in 0..MaxRevision : n = thread[e].next
      BY <1>1, ProjectsAssumption
    <2>2. h.manifest \in Manifest
      BY <1>4, HandleUpdates
    <2>. HIDE DEF h
    <2>3. [h.manifest EXCEPT !.revision = n] \in Manifest
      BY <2>2 DEF Manifest
    <2>. QED
      BY <2>1, <2>3
  <1>6. PICK k \in Handle : k = [h EXCEPT !.manifest = m]
    BY <1>4, HandleUpdates
  <1>7. manifest' \in Manifest \cup {None}
    BY <1>1, <1>5 DEF Announce
  <1>8. CASE stale[e] # None
    <2>1. stale' = [stale EXCEPT ![e] = k] /\ open' = open
      BY <1>1, <1>5, <1>6, <1>8 DEF Announce
    <2>2. k # None
      BY HandleUpdates
    <2>. QED
      BY <1>1, <1>3, <1>7, <2>1, <2>2, EditStep DEF LockInv, TypeOK
  <1>9. CASE stale[e] = None
    <2>1. open' = [open EXCEPT ![e] = k] /\ stale' = stale /\ open[e] # None
      BY <1>1, <1>4, <1>5, <1>6, <1>9, HandleUpdates DEF Announce
    <2>2. k # None
      BY HandleUpdates
    <2>3. /\ open' \in [Engines -> Handle \cup {None}]
          /\ \A f \in Engines : (open'[f] # None) <=> (open[f] # None)
      BY <2>1, <2>2 DEF LockInv, TypeOK
    <2>. QED
      BY <1>1, <1>3, <1>7, <2>1, <2>3, EditStep DEF LockInv, TypeOK
  <1>. QED
    BY <1>8, <1>9

LEMMA EditEndsStep ==
    ASSUME LockInv, NEW e \in Engines, EditEnds(e)
    PROVE  LockInv'
  <1>1. /\ thread[e] \in ThreadState /\ thread[e] # Idle /\ thread[e].next \in 1..MaxRevision
        /\ thread' = [thread EXCEPT ![e] = Idle] /\ stale' = [stale EXCEPT ![e] = None]
        /\ UNCHANGED <<manifest, holder, loop, intruded>> /\ Idle \in ThreadState
    BY Kinds DEF EditEnds, LockInv, TypeOK, ThreadState
  <1>2. thread[e].next \in Stored
    BY <1>1, ProjectsAssumption DEF Stored
  <1>3. /\ stale' \in [Engines -> Handle \cup {None}]
        /\ \A f \in Engines \ {e} : stale'[f] = stale[f]
    BY <1>1 DEF LockInv, TypeOK
  <1>4. CASE open' = open /\ db' \in {db, thread[e].next}
    BY <1>1, <1>2, <1>3, <1>4, EditStep DEF LockInv, TypeOK
  <1>5. CASE stale[e] = None /\ open' = [open EXCEPT ![e].db = thread[e].next] /\ db' = db
    <2>1. open[e] \in Handle
      BY <1>1, <1>5 DEF LockInv, TypeOK, EditHasHandle
    <2>2. PICK h \in Handle : h = [open[e] EXCEPT !.db = thread[e].next]
      BY <1>2, <2>1, HandleUpdates
    <2>3. open' = [open EXCEPT ![e] = h]
      BY <1>5, <2>2
    <2>4. /\ open' \in [Engines -> Handle \cup {None}]
          /\ \A f \in Engines : (open'[f] # None) <=> (open[f] # None)
      BY <2>1, <2>3, HandleUpdates DEF LockInv, TypeOK
    <2>. QED
      BY <1>1, <1>3, <1>5, <2>4, EditStep DEF LockInv, TypeOK
  <1>. QED
    BY <1>4, <1>5 DEF EditEnds

-----------------------------------------------------------------------------
LEMMA LockStep == LockInv /\ [Next]_vars => LockInv'
  <1>1. LockInv /\ UNCHANGED vars => LockInv'
    BY DEF vars, LockInv, TypeOK, EditHasHandle, OpenedOnce, OwnersHoldTheLock, LockIsAccountedFor
  <1>. QED
    BY <1>1, CreateStep, OpenReadStep, OpenLockStep, OpenEndsStep, CloseStep, PatchReadStep,
       PatchWriteStep, DeleteStep, UnlinkStep, DeleteEndsStep, EditBeginStep, EditManifestStep,
       EditEndsStep, CrashStep DEF Next

LEMMA OneHolder == LockInv => OneOwner
  <1> SUFFICES ASSUME LockInv, ~intruded
               PROVE  Cardinality({e \in Engines : open[e] # None}) <= 1
    BY DEF OneOwner
  <1> DEFINE S == {e \in Engines : open[e] # None}
  <1>1. S \subseteq {holder}
    BY DEF LockInv, OwnersHoldTheLock
  <1>2. IsFiniteSet({holder}) /\ Cardinality({holder}) = 1
    BY FS_Singleton
  <1>3. Cardinality(S) <= 1
    <2>. HIDE DEF S
    <2>. QED
      BY <1>1, <1>2, FS_Subset
  <1>. QED
    BY <1>3

\* One process per project, and no lock is left behind by a request that was
\* refused, failed or interrupted (ProjectLock, ProjectStore.open and close).
THEOREM LockServes == Spec => []LockIsKept
  <1>1. LockInv => LockIsKept
    BY OneHolder DEF LockIsKept, LockInv
  <1>. QED
    BY <1>1, LockInit, LockStep, PTL DEF Spec

-----------------------------------------------------------------------------
(* The revision in project.json.                                           *)

\* While nobody intrudes, an open project works on project.db itself, and an edit has the
\* handle of the open project.
DatabaseIsLinked == \A e \in Engines : /\ stale[e] = None
                                       /\ open[e] # None => open[e].db = Linked
                                       /\ thread[e] # Idle => open[e] # None

\* An edit makes the revision after that of the database, and has announced it once written.
EditIsNext == \A e \in Engines : thread[e] # Idle =>
                  /\ db \in Nat /\ thread[e].next = db + 1
                  /\ thread[e].op = "written" => manifest # None /\ manifest.revision = thread[e].next

\* A PATCH is alone, so the manifest it has read is still the one on disk.
PatchIsAlone == \A e \in Engines : loop[e].op = "patch" =>
                    /\ manifest # None /\ loop[e].manifest.revision = manifest.revision
                    /\ \A f \in Engines : thread[f] = Idle /\ (f # e => loop[f] = Idle)

\* Until the project has been created it has no revision, and it is created once.
CreatedOnce == /\ ~born => db \notin Nat
               /\ \A e \in Engines : loop[e].op = "create" =>
                     born /\ db \notin Nat /\ \A f \in Engines : loop[f].op = "create" => f = e

Level == manifest # None /\ db \in Nat => manifest.revision >= db

RevisionInv == ~intruded => DatabaseIsLinked /\ EditIsNext /\ PatchIsAlone /\ CreatedOnce /\ Level

LEMMA RevisionInit == Init => RevisionInv
  <1> SUFFICES ASSUME Init
               PROVE  RevisionInv
    OBVIOUS
  <1>1. /\ open = [e \in Engines |-> None] /\ loop = [e \in Engines |-> Idle]
        /\ thread = [e \in Engines |-> Idle] /\ stale = [e \in Engines |-> None]
    BY DEF Init
  <1>2. DatabaseIsLinked /\ EditIsNext
    BY <1>1 DEF DatabaseIsLinked, EditIsNext
  <1>3. PatchIsAlone
    BY <1>1, Kinds DEF PatchIsAlone
  <1>4. CreatedOnce
    BY <1>1, Kinds, RevisionAssumption DEF CreatedOnce, Init
  <1>5. Level
    BY RevisionAssumption DEF Level, Init
  <1>. QED
    BY <1>2, <1>3, <1>4, <1>5 DEF RevisionInv

\* A step of a request that leaves files and handles alone.
LEMMA RequestStep ==
    ASSUME LockInv, RevisionInv, NEW e \in Engines, NEW work \in LoopState,
           loop' = [loop EXCEPT ![e] = work], UNCHANGED <<manifest, open, thread, stale, born>>,
           db' = db \/ (db \notin Nat /\ db' \notin Nat), ~intruded', ~intruded,
           work.op = "create" => loop[e].op = "create",
           work.op = "patch" => /\ manifest # None /\ work.manifest.revision = manifest.revision
                                /\ \A f \in Engines : thread[f] = Idle /\ (f # e => loop[f] = Idle),
           \/ work = Idle \/ \A f \in Engines : loop[f].op # "patch"
    PROVE  RevisionInv'
  <1>1. DatabaseIsLinked /\ EditIsNext /\ PatchIsAlone /\ CreatedOnce /\ Level
    BY DEF RevisionInv
  <1>2. loop'[e] = work /\ \A f \in Engines \ {e} : loop'[f] = loop[f]
    BY DEF LockInv, TypeOK
  <1>3. DatabaseIsLinked' /\ EditIsNext'
    BY <1>1 DEF DatabaseIsLinked, EditIsNext
  <1>4. PatchIsAlone'
    BY <1>1, <1>2, Kinds DEF PatchIsAlone
  <1>5. CreatedOnce'
    BY <1>1, <1>2 DEF CreatedOnce
  <1>6. Level'
    BY <1>1 DEF Level
  <1>. QED
    BY <1>3, <1>4, <1>5, <1>6 DEF RevisionInv

LEMMA RevisionKeptByLoop ==
    ASSUME LockInv, RevisionInv, ~intruded, ~intruded', NEW e \in Engines,
           OpenRead(e) \/ OpenLock(e) \/ PatchRead(e) \/ DeleteEnds(e)
    PROVE  RevisionInv'
  <1>0. loop[e] \in LoopState /\ Idle \in LoopState
    BY DEF LockInv, TypeOK, LoopState
  <1>1. CASE OpenRead(e)
    <2> DEFINE work == [op |-> "open", manifest |-> manifest]
    <2>1. work \in LoopState /\ work.op = "open"
      BY <1>1 DEF OpenRead, LockInv, TypeOK, LoopState
    <2>2. \A f \in Engines : loop[f].op # "patch"
      BY <1>1 DEF OpenRead, Unguarded
    <2>3. loop' = [loop EXCEPT ![e] = work] /\ UNCHANGED <<manifest, db, open, thread, stale, born>>
      BY <1>1 DEF OpenRead, Begin
    <2>. HIDE DEF work
    <2>. QED
      BY <2>1, <2>2, <2>3, RequestStep
  <1>2. CASE OpenLock(e)
    <2>1. PICK work \in LoopState : /\ loop' = [loop EXCEPT ![e] = work]
                                    /\ work = Idle \/ work.op = "locked"
      BY <1>0, <1>2, Kinds DEF OpenLock
    <2>2. \A f \in Engines : loop[f].op # "patch"
      BY <1>2, Kinds DEF OpenLock, RevisionInv, PatchIsAlone
    <2>3. UNCHANGED <<manifest, db, open, thread, stale, born>>
      BY <1>2 DEF OpenLock
    <2>. QED
      BY <2>1, <2>2, <2>3, Kinds, RequestStep
  <1>3. CASE PatchRead(e)
    <2>1. manifest # None /\ ~AtWork /\ UNCHANGED <<manifest, db, open, thread, stale, born>>
      BY <1>3 DEF PatchRead
    <2>2. manifest \in Manifest
      BY <2>1 DEF LockInv, TypeOK
    <2>3. PICK work \in LoopState : /\ loop' = [loop EXCEPT ![e] = work] /\ work.op = "patch"
                                    /\ work.manifest.revision = manifest.revision
      <3>1. PICK name \in Names, renames \in BOOLEAN, cloud \in BOOLEAN :
               loop' = [loop EXCEPT ![e] =
                         [op |-> "patch", renames |-> renames, cloud |-> cloud,
                          manifest |-> IF renames THEN [manifest EXCEPT !.name = name] ELSE manifest]]
        BY <1>3 DEF PatchRead, Begin
      <3> DEFINE m == IF renames THEN [manifest EXCEPT !.name = name] ELSE manifest
      <3>2. m \in Manifest /\ m.revision = manifest.revision
        BY <2>2 DEF Manifest
      <3>. HIDE DEF m
      <3> DEFINE work == [op |-> "patch", renames |-> renames, cloud |-> cloud, manifest |-> m]
      <3>3. work \in LoopState /\ work.op = "patch" /\ work.manifest = m
        BY <3>2 DEF LoopState
      <3>4. loop' = [loop EXCEPT ![e] = work]
        BY <3>1 DEF m
      <3>. QED
        BY <3>2, <3>3, <3>4
    <2>4. \A f \in Engines : loop[f] = Idle /\ thread[f] = Idle
      BY <2>1 DEF AtWork
    <2>5. \A f \in Engines : loop[f].op # "patch"
      BY <2>4, Kinds
    <2>. QED
      BY <2>1, <2>3, <2>4, <2>5, RequestStep
  <1>4. CASE DeleteEnds(e)
    <2>1. loop' = [loop EXCEPT ![e] = Idle] /\ UNCHANGED <<manifest, db, open, thread, stale, born>>
      BY <1>4 DEF DeleteEnds
    <2>. QED
      BY <1>0, <2>1, Kinds, RequestStep
  <1>. QED
    BY <1>1, <1>2, <1>3, <1>4

LEMMA RevisionKeptByCreate ==
    ASSUME LockInv, RevisionInv, ~intruded, ~intruded', NEW e \in Engines, Create(e) \/ CreateEnds(e)
    PROVE  RevisionInv'
  <1>0. /\ DatabaseIsLinked /\ EditIsNext /\ PatchIsAlone /\ CreatedOnce /\ Level
        /\ UNCHANGED <<open, thread, stale>> /\ loop \in [Engines -> LoopState]
        /\ DatabaseIsLinked'
    BY DEF RevisionInv, Create, CreateEnds, DatabaseIsLinked, LockInv, TypeOK
  <1>1. CASE Create(e)
    <2>1. /\ loop[e] = Idle /\ ~born /\ born' /\ db' = db /\ db \notin Nat /\ manifest' # None
          /\ loop' = [loop EXCEPT ![e] = [op |-> "create"]] /\ ~Unguarded
      <3>1. manifest' \in Manifest
        BY <1>1, ProjectsAssumption DEF Create, Manifest
      <3>2. manifest' # None
        BY <3>1, NoneAssumption
      <3>. QED
        BY <1>0, <1>1, <3>2 DEF Create, Begin, CreatedOnce
    <2>2. loop'[e].op = "create" /\ \A f \in Engines \ {e} : loop'[f] = loop[f]
      BY <1>0, <2>1
    <2>3. EditIsNext'
      BY <1>0, <2>1 DEF EditIsNext
    <2>4. PatchIsAlone'
      BY <2>1, <2>2 DEF PatchIsAlone, Unguarded
    <2>5. CreatedOnce'
      BY <1>0, <2>1, <2>2 DEF CreatedOnce
    <2>6. Level'
      BY <2>1 DEF Level
    <2>. QED
      BY <1>0, <2>3, <2>4, <2>5, <2>6 DEF RevisionInv
  <1>2. CASE CreateEnds(e)
    <2>1. /\ loop[e].op = "create" /\ born /\ born' = born /\ db \notin Nat
          /\ loop' = [loop EXCEPT ![e] = Idle]
          /\ \/ db' = 0 /\ manifest' = manifest
             \/ db' = None /\ manifest' = None
      BY <1>0, <1>2 DEF CreateEnds, CreatedOnce
    <2>2. loop'[e] = Idle /\ \A f \in Engines \ {e} : loop'[f] = loop[f]
      BY <1>0, <2>1
    <2>3. \A f \in Engines : thread[f] = Idle
      BY <1>0, <2>1 DEF EditIsNext
    <2>4. EditIsNext'
      BY <1>0, <2>3 DEF EditIsNext
    <2>5. \A f \in Engines : loop[f].op # "patch"
      BY <1>0, <2>1, Kinds DEF PatchIsAlone
    <2>6. PatchIsAlone'
      BY <2>2, <2>5, Kinds DEF PatchIsAlone
    <2>7. CreatedOnce'
      BY <1>0, <2>1, <2>2, Kinds DEF CreatedOnce
    <2>8. manifest # None => manifest.revision \in Nat
      BY DEF LockInv, TypeOK, Manifest
    <2>9. Level'
      BY <2>1, <2>8, RevisionAssumption DEF Level
    <2>. QED
      BY <1>0, <2>4, <2>6, <2>7, <2>9 DEF RevisionInv
  <1>. QED
    BY <1>1, <1>2

LEMMA RevisionKeptByOpen ==
    ASSUME LockInv, RevisionInv, ~intruded, ~intruded', NEW e \in Engines, OpenEnds(e) \/ Close(e)
    PROVE  RevisionInv'
  <1>0. /\ DatabaseIsLinked /\ EditIsNext /\ PatchIsAlone /\ CreatedOnce /\ Level
        /\ UNCHANGED <<manifest, thread, born>> /\ loop \in [Engines -> LoopState]
    BY DEF RevisionInv, OpenEnds, Close, LockInv, TypeOK
  <1>1. thread[e] = Idle
    <2>1. CASE OpenEnds(e)
      BY <1>0, <2>1 DEF OpenEnds, LockInv, OpenedOnce, DatabaseIsLinked
    <2>2. CASE Close(e)
      BY <2>2 DEF Close
    <2>. QED
      BY <2>1, <2>2
  <1>2. /\ db' = db \/ (db \notin Nat /\ db' \notin Nat)
        /\ loop'[e] = Idle /\ \A f \in Engines \ {e} : loop'[f] = loop[f]
    BY <1>0, RevisionAssumption DEF OpenEnds, Close
  <1>3. /\ stale' = stale /\ \A f \in Engines \ {e} : open'[f] = open[f]
        /\ open'[e] # None => open'[e].db = Linked
    <2>1. CASE UNCHANGED <<open, stale>>
      BY <1>0, <2>1 DEF DatabaseIsLinked
    <2>2. CASE \E h \in {None, [manifest |-> loop[e].manifest, db |-> Linked]} : Reopened(e, h)
      <3>1. stale' = stale
        BY <1>1, <2>2 DEF Reopened, LockInv, TypeOK
      <3>2. PICK h \in {None, [manifest |-> loop[e].manifest, db |-> Linked]} :
               open' = [open EXCEPT ![e] = h]
        BY <2>2 DEF Reopened
      <3>3. open'[e] = h /\ \A f \in Engines \ {e} : open'[f] = open[f]
        BY <3>2 DEF LockInv, TypeOK
      <3>. QED
        BY <3>1, <3>2, <3>3
    <2>. QED
      BY <2>1, <2>2 DEF OpenEnds, Close
  <1>4. DatabaseIsLinked'
    BY <1>0, <1>1, <1>3 DEF DatabaseIsLinked
  <1>5. EditIsNext'
    BY <1>0, <1>2 DEF EditIsNext
  <1>6. PatchIsAlone'
    BY <1>0, <1>2, Kinds DEF PatchIsAlone
  <1>7. CreatedOnce'
    BY <1>0, <1>2, Kinds DEF CreatedOnce
  <1>8. Level'
    BY <1>0, <1>2 DEF Level
  <1>. QED
    BY <1>4, <1>5, <1>6, <1>7, <1>8 DEF RevisionInv

LEMMA RevisionKeptByPatch ==
    ASSUME LockInv, RevisionInv, ~intruded, ~intruded', NEW e \in Engines, PatchWrite(e)
    PROVE  RevisionInv'
  <1>0. /\ DatabaseIsLinked /\ EditIsNext /\ PatchIsAlone /\ CreatedOnce /\ Level
        /\ UNCHANGED <<thread, born, stale>> /\ loop \in [Engines -> LoopState]
        /\ loop[e].op = "patch" /\ loop[e] # Idle /\ loop[e].manifest \in Manifest
    BY Kinds DEF RevisionInv, PatchWrite, LockInv, TypeOK
  <1>1. /\ manifest # None /\ loop[e].manifest.revision = manifest.revision
        /\ \A f \in Engines : thread[f] = Idle /\ (f # e => loop[f] = Idle)
    BY <1>0 DEF PatchIsAlone
  <1>2. /\ db' = db \/ (db \notin Nat /\ db' \notin Nat)
        /\ loop'[e] = Idle /\ \A f \in Engines \ {e} : loop'[f] = loop[f]
    BY <1>0, RevisionAssumption DEF PatchWrite
  <1>3. manifest' # None /\ manifest'.revision = manifest.revision
    BY <1>0, <1>1, NoneAssumption DEF PatchWrite
  <1>4. \A f \in Engines : open'[f] # None => open'[f].db = Linked
    <2>1. CASE open' = open
      BY <1>0, <2>1 DEF DatabaseIsLinked
    <2>2. CASE open[e] # None /\ open' = [open EXCEPT ![e].manifest = loop[e].manifest]
      <3>1. open[e] \in Handle /\ open[e].db = Linked
        BY <1>0, <2>2 DEF LockInv, TypeOK, DatabaseIsLinked
      <3>2. open'[e].db = Linked /\ \A f \in Engines \ {e} : open'[f] = open[f]
        BY <2>2, <3>1 DEF LockInv, TypeOK, Handle
      <3>. QED
        BY <1>0, <3>2 DEF DatabaseIsLinked
    <2>. QED
      BY <2>1, <2>2 DEF PatchWrite
  <1>5. DatabaseIsLinked'
    BY <1>0, <1>1, <1>4 DEF DatabaseIsLinked
  <1>6. EditIsNext'
    BY <1>0, <1>1 DEF EditIsNext
  <1>7. PatchIsAlone'
    BY <1>1, <1>2, Kinds DEF PatchIsAlone
  <1>8. CreatedOnce'
    BY <1>0, <1>2, Kinds DEF CreatedOnce
  <1>9. Level'
    BY <1>0, <1>1, <1>2, <1>3 DEF Level
  <1>. QED
    BY <1>5, <1>6, <1>7, <1>8, <1>9 DEF RevisionInv

LEMMA RevisionKeptByDelete ==
    ASSUME LockInv, RevisionInv, ~intruded, ~intruded', NEW e \in Engines, Delete(e) \/ Unlink(e)
    PROVE  RevisionInv'
  <1>0. /\ DatabaseIsLinked /\ EditIsNext /\ PatchIsAlone /\ CreatedOnce /\ Level
        /\ UNCHANGED <<thread, born>> /\ loop \in [Engines -> LoopState]
    BY DEF RevisionInv, Delete, Unlink, LockInv, TypeOK
  <1>1. CASE Delete(e)
    <2>1. /\ ~AtWork /\ UNCHANGED <<manifest, db>>
          /\ \E all \in BOOLEAN : loop' = [loop EXCEPT ![e] =
                [op |-> "delete", all |-> all, todo |-> {"manifest", "db", "lock"}]]
      BY <1>1 DEF Delete, Begin
    <2>2. /\ \A f \in Engines : loop[f] = Idle /\ thread[f] = Idle
          /\ loop'[e].op = "delete" /\ \A f \in Engines \ {e} : loop'[f] = loop[f]
      BY <1>0, <2>1 DEF AtWork
    <2>3. \A f \in Engines : open'[f] \in {None, open[f]}
      BY <1>1 DEF Delete, Reopened, LockInv, TypeOK
    <2>4. stale' = stale
      BY <1>1, <2>2 DEF Delete, Reopened, LockInv, TypeOK
    <2>5. DatabaseIsLinked'
      BY <1>0, <2>2, <2>3, <2>4 DEF DatabaseIsLinked
    <2>6. EditIsNext' /\ PatchIsAlone' /\ CreatedOnce' /\ Level'
      BY <1>0, <2>1, <2>2, Kinds DEF EditIsNext, PatchIsAlone, CreatedOnce, Level
    <2>. QED
      BY <2>5, <2>6 DEF RevisionInv
  <1>2. CASE Unlink(e)
    <2>1. /\ loop[e].op = "delete" /\ loop[e] # Idle /\ stale' = stale
          /\ \E f : loop' = [loop EXCEPT ![e].todo = @ \ {f}]
          /\ manifest' \in {manifest, None} /\ db' \in {db, None}
          /\ open' \in {open, [g \in Engines |-> Orphaned(open[g])]}
      BY <1>2, Kinds DEF Unlink
    <2>2. \A f \in Engines : open[f] = None
      BY <2>1 DEF LockInv, OwnersHoldTheLock
    <2>3. open' = open
      BY <2>1, <2>2 DEF Orphaned, LockInv, TypeOK
    <2>4. loop'[e].op = "delete" /\ \A f \in Engines \ {e} : loop'[f] = loop[f]
      BY <1>0, <2>1, Kinds
    <2>5. \A f \in Engines : thread[f] = Idle
      BY <1>0, <2>2 DEF DatabaseIsLinked
    <2>6. \A f \in Engines : loop[f].op # "patch"
      BY <1>0, <2>1 DEF PatchIsAlone
    <2>7. DatabaseIsLinked' /\ EditIsNext' /\ PatchIsAlone'
      BY <1>0, <2>1, <2>3, <2>4, <2>5, <2>6 DEF DatabaseIsLinked, EditIsNext, PatchIsAlone
    <2>8. CreatedOnce' /\ Level'
      BY <1>0, <2>1, <2>4, RevisionAssumption DEF CreatedOnce, Level
    <2>. QED
      BY <2>7, <2>8 DEF RevisionInv
  <1>. QED
    BY <1>1, <1>2

LEMMA RevisionKeptByCrash ==
    ASSUME LockInv, RevisionInv, ~intruded, ~intruded', NEW e \in Engines, Crash(e)
    PROVE  RevisionInv'
  <1>0. /\ DatabaseIsLinked /\ EditIsNext /\ PatchIsAlone /\ CreatedOnce /\ Level
        /\ UNCHANGED <<manifest, db, born>>
        /\ \A f \in Engines : /\ loop'[f] \in {Idle, loop[f]} /\ thread'[f] \in {Idle, thread[f]}
                              /\ open'[f] \in {None, open[f]} /\ stale'[f] \in {None, stale[f]}
                              /\ f # e => thread'[f] = thread[f] /\ open'[f] = open[f]
        /\ thread'[e] = Idle
    BY DEF RevisionInv, Crash, LockInv, TypeOK
  <1>1. DatabaseIsLinked' /\ EditIsNext'
    BY <1>0 DEF DatabaseIsLinked, EditIsNext
  <1>2. PatchIsAlone' /\ CreatedOnce' /\ Level'
    BY <1>0, Kinds DEF PatchIsAlone, CreatedOnce, Level
  <1>. QED
    BY <1>1, <1>2 DEF RevisionInv

LEMMA RevisionKeptByEdit ==
    ASSUME LockInv, RevisionInv, ~intruded, ~intruded', NEW e \in Engines,
           EditBegin(e) \/ EditManifest(e) \/ EditEnds(e)
    PROVE  RevisionInv'
  <1>0. /\ DatabaseIsLinked /\ EditIsNext /\ PatchIsAlone /\ CreatedOnce /\ Level
        /\ UNCHANGED <<loop, born>> /\ thread \in [Engines -> ThreadState]
        /\ stale[e] = None /\ stale' = stale
    <2>1. stale[e] = None /\ stale' = stale
      BY DEF RevisionInv, DatabaseIsLinked, EditBegin, EditManifest, Announce, EditEnds, LockInv, TypeOK
    <2>. QED
      BY <2>1 DEF RevisionInv, EditBegin, EditManifest, EditEnds, LockInv, TypeOK
  <1>1. open[e] # None /\ open[e] \in Handle /\ open[e].db = Linked
    BY <1>0, Kinds DEF DatabaseIsLinked, EditBegin, EditManifest, EditEnds, LockInv, TypeOK
  <1>2. \A f \in Engines \ {e} : open[f] = None /\ thread[f] = Idle
    BY <1>0, <1>1 DEF LockInv, OwnersHoldTheLock, DatabaseIsLinked
  <1>3. CASE EditBegin(e)
    <2>1. /\ db \in Nat /\ ~Unguarded /\ UNCHANGED <<manifest, db, open>>
          /\ thread' = [thread EXCEPT ![e] = [op |-> "editing", next |-> db + 1]]
      <3>1. Database(open[e]) = db
        BY <1>1 DEF Database
      <3>2. db \in 0..(MaxRevision - 1)
        BY <1>3, <3>1 DEF EditBegin
      <3>3. db \in Nat
        BY <3>2, ProjectsAssumption
      <3>. QED
        BY <1>3, <3>1, <3>3 DEF EditBegin
    <2>2. /\ thread'[e].op = "editing" /\ thread'[e].next = db + 1
          /\ \A f \in Engines \ {e} : thread'[f] = thread[f]
      BY <1>0, <2>1
    <2>3. DatabaseIsLinked' /\ EditIsNext'
      BY <1>0, <1>1, <1>2, <2>1, <2>2 DEF DatabaseIsLinked, EditIsNext
    <2>4. PatchIsAlone' /\ CreatedOnce' /\ Level'
      BY <1>0, <2>1 DEF PatchIsAlone, CreatedOnce, Level, Unguarded
    <2>. QED
      BY <2>3, <2>4 DEF RevisionInv
  <1>4. \A f \in Engines : thread[e] # Idle => loop[f].op \notin {"patch", "create"}
    BY <1>0 DEF PatchIsAlone, EditIsNext, CreatedOnce
  <1>5. CASE EditManifest(e)
    <2> DEFINE h == open[e]
               m == [h.manifest EXCEPT !.revision = thread[e].next]
    <2>1. /\ thread[e].op = "editing" /\ thread[e] # Idle /\ db' = db /\ manifest' = m
          /\ thread' = [thread EXCEPT ![e].op = "written"]
          /\ open' = [open EXCEPT ![e].manifest = m]
      BY <1>0, <1>5, Kinds DEF EditManifest, Announce
    <2>2. /\ db \in Nat /\ thread[e].next = db + 1 /\ thread[e].next \in 1..MaxRevision
      BY <1>0, <2>1, Kinds DEF EditIsNext
    <2>3. m # None /\ m.revision = thread[e].next
      <3>1. h.manifest \in Manifest
        BY <1>1, HandleUpdates
      <3>2. m.revision = thread[e].next
        BY <3>1 DEF Manifest
      <3>3. thread[e].next \in 0..MaxRevision
        BY <2>2, ProjectsAssumption
      <3>4. m \in Manifest
        BY <3>1, <3>3 DEF Manifest
      <3>. QED
        BY <3>2, <3>4, NoneAssumption
    <2>. HIDE DEF m
    <2>4. open'[e].db = Linked /\ \A f \in Engines \ {e} : open'[f] = open[f]
      BY <1>1, <2>1 DEF LockInv, TypeOK, Handle
    <2>5. open'[e] # None
      <3>1. [h EXCEPT !.manifest = m] \in [manifest : {m}, db : Stored \cup {Linked}]
        BY <1>1 DEF Handle
      <3>2. m \in Manifest
        <4>1. h.manifest \in Manifest /\ thread[e].next \in 0..MaxRevision
          BY <1>1, <2>2, HandleUpdates, ProjectsAssumption
        <4>. QED
          BY <4>1 DEF m, Manifest
      <3>3. open'[e] = [h EXCEPT !.manifest = m]
        BY <2>1 DEF LockInv, TypeOK
      <3>4. [h EXCEPT !.manifest = m] \in Handle
        BY <1>1, <3>2, HandleUpdates
      <3>. QED
        BY <3>3, <3>4, HandleUpdates
    <2>6. /\ thread'[e] # Idle /\ thread'[e].next = thread[e].next
          /\ \A f \in Engines \ {e} : thread'[f] = Idle
      BY <1>0, <1>2, <2>1, Kinds DEF ThreadState, Idle
    <2>7. DatabaseIsLinked'
      BY <1>0, <1>2, <2>4, <2>5, <2>6 DEF DatabaseIsLinked
    <2>8. EditIsNext'
      BY <2>1, <2>2, <2>3, <2>6 DEF EditIsNext
    <2>9. PatchIsAlone' /\ CreatedOnce'
      BY <1>0, <1>4, <2>1 DEF PatchIsAlone, CreatedOnce
    <2>10. Level'
      BY <2>1, <2>2, <2>3 DEF Level
    <2>. QED
      BY <2>7, <2>8, <2>9, <2>10 DEF RevisionInv
  <1>6. CASE EditEnds(e)
    <2>1. /\ thread[e].op = "written" /\ thread[e] # Idle /\ open' = open /\ manifest' = manifest
          /\ thread' = [thread EXCEPT ![e] = Idle] /\ db' \in {db, thread[e].next}
      BY <1>0, <1>1, <1>6, Kinds DEF EditEnds
    <2>2. /\ db \in Nat /\ thread[e].next = db + 1 /\ manifest # None
          /\ manifest.revision = thread[e].next
      BY <1>0, <2>1 DEF EditIsNext
    <2>3. \A f \in Engines : thread'[f] = Idle
      BY <1>0, <1>2, <2>1
    <2>4. DatabaseIsLinked' /\ EditIsNext'
      BY <1>0, <2>1, <2>3 DEF DatabaseIsLinked, EditIsNext
    <2>5. PatchIsAlone' /\ CreatedOnce'
      BY <1>0, <1>4, <2>1, <2>2 DEF PatchIsAlone, CreatedOnce
    <2>6. Level'
      BY <2>1, <2>2 DEF Level
    <2>. QED
      BY <2>4, <2>5, <2>6 DEF RevisionInv
  <1>. QED
    BY <1>3, <1>5, <1>6

LEMMA RevisionStep == LockInv /\ RevisionInv /\ [Next]_vars => RevisionInv'
  <1> SUFFICES ASSUME LockInv, RevisionInv, [Next]_vars, ~intruded'
               PROVE  RevisionInv'
    BY DEF RevisionInv
  <1>1. CASE UNCHANGED vars
    BY <1>1 DEF vars, RevisionInv, DatabaseIsLinked, EditIsNext, PatchIsAlone, CreatedOnce, Level
  <1>2. CASE Next
    <2>1. ~intruded
      BY <1>2 DEF Next, Create, CreateEnds, OpenRead, OpenLock, OpenEnds, Close, PatchRead, PatchWrite,
         Delete, Unlink, DeleteEnds, EditBegin, EditManifest, EditEnds, Crash
    <2>. QED
      BY <1>2, <2>1, RevisionKeptByLoop, RevisionKeptByCreate, RevisionKeptByOpen, RevisionKeptByPatch,
         RevisionKeptByDelete, RevisionKeptByCrash, RevisionKeptByEdit DEF Next
  <1>. QED
    BY <1>1, <1>2

\* The Library never shows an older revision than the database has: the manifest is written
\* before the commit, and from a handle nobody else can have (ChapterStore._bump).
THEOREM LibraryIsCurrent == Spec => []ManifestNotBehind
  <1>1. RevisionInv => ManifestNotBehind
    BY DEF RevisionInv, Level, ManifestNotBehind
  <1>. QED
    BY <1>1, LockInit, LockStep, RevisionInit, RevisionStep, PTL DEF Spec

=============================================================================
