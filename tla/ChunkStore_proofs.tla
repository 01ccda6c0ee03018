-------------------------- MODULE ChunkStore_proofs --------------------------
(***************************************************************************)
(* Proofs about ChunkStore for any keys, takes and measures, any number of *)
(* deaths, power losses and resets, these beside a render or not: a        *)
(* sidecar of an open project stands for audio that can be reused, unless  *)
(* a reset has unlinked that, the chunk table names only such audio, and   *)
(* audio that was committed once is never lost by anything but a reset     *)
(* that had listed it or a power loss before it was written back.          *)
(***************************************************************************)
EXTENDS ChunkStore, TLAPS

\* Which phases exclude each other, and where damaged audio can be: a project
\* with a chunk that cannot be read does not open, and damage was written back.
Phases ==
    /\ mode # "open" => render = Idle /\ shards = {} /\ doomed = {} /\ swept = {}
    /\ resets = 0 => shards = {} /\ doomed = {}
    /\ mode = "open" => damaged = {}
    /\ mode = "reconciling" => damaged \subseteq todo
    /\ todo # {} => mode = "reconciling"
    /\ damaged \cap unsynced = {}

\* What the renderer works on cannot be reused, and has no sidecar until its own,
\* unless a reset has unlinked the WAV of one.
UnderWay ==
    /\ render.pc \in {"writing", "written"} => ~Reusable(render.key)
    /\ render.pc # "idle" => side[render.key] = None \/ render.key \in swept
    /\ render.pc = "written" => part[render.key] \in Takes \cup {None}
    /\ render.pc \in {"published", "described"} =>
          wav[render.key] = render.take \/ (wav[render.key] = None /\ render.key \in swept)

\* What the reconciliation has looked at is in order.
Sifted ==
    mode = "reconciling" => \A k \in Keys \ todo : side[k] # None => Reusable(k)

IInv == TypeOK /\ Phases /\ UnderWay /\ Sifted /\ SidecarMeansReusable

-----------------------------------------------------------------------------
(* Reusable looks at the WAV, the sidecar and the damage of its key only. *)
LEMMA SameChunk ==
    ASSUME NEW k, wav'[k] = wav[k], side'[k] = side[k], k \in damaged' <=> k \in damaged
    PROVE  Reusable(k)' <=> Reusable(k)
  BY DEF Reusable, SizeAgrees

(* The step of a key with no sidecar cannot take anything away. *)
LEMMA NoSidecar ==
    ASSUME NEW k, side[k] = None
    PROVE  ~Reusable(k)
  BY DEF Reusable, SizeAgrees

LEMMA InitIInv == Init => IInv
  <1> SUFFICES ASSUME Init PROVE IInv
    OBVIOUS
  <1> USE DEF Init, Idle
  <1>1. TypeOK
    <2>1. crashes \in 0..MaxCrashes /\ resets \in 0..MaxResets
      BY ChunkAssumption
    <2>2. part \in [Keys -> File] /\ wav \in [Keys -> File] /\ side \in [Keys -> Takes \cup {None}]
      BY DEF File
    <2>. QED
      BY <2>1, <2>2 DEF TypeOK, Work
  <1>2. Phases /\ UnderWay /\ Sifted
    BY DEF Phases, UnderWay, Sifted
  <1>3. SidecarMeansReusable
    BY DEF SidecarMeansReusable
  <1>. QED
    BY <1>1, <1>2, <1>3 DEF IInv

-----------------------------------------------------------------------------
(* Rendering. *)

LEMMA StartIInv == ASSUME IInv, NEW k \in Keys, Start(k) PROVE IInv'
  <1> USE DEF IInv, Start, Idle, sweep
  <1>1. TypeOK'
    BY DEF TypeOK, File, Work
  <1>2. Phases'
    BY DEF Phases
  <1>3. side[k] = None \/ k \in swept
    BY DEF TypeOK, SidecarMeansReusable
  <1>4. UnderWay'
    <2>1. ~Reusable(k)'
      BY SameChunk
    <2>. QED
      BY <1>3, <2>1 DEF UnderWay
  <1>5. Sifted' /\ SidecarMeansReusable'
    BY SameChunk DEF Sifted, SidecarMeansReusable
  <1>. QED
    BY <1>1, <1>2, <1>4, <1>5

LEMMA WriteIInv == ASSUME IInv, NEW take \in Takes, Write(take) PROVE IInv'
  <1> USE DEF IInv, Write, Idle, sweep
  <1>1. render \in [pc : {"writing"}, key : Keys]
    BY DEF TypeOK, Work
  <1>2. TypeOK'
    <2>1. CASE part[render.key] = None
      BY <2>1 DEF TypeOK, Work
    <2>2. CASE part[render.key] # None
      <3>1. part' \in [Keys -> File]
        BY <1>1, <2>2 DEF TypeOK, File
      <3>2. render' \in Work
        BY <1>1, <2>2 DEF Work
      <3>. QED
        BY <3>1, <3>2 DEF TypeOK
    <2>. QED
      BY <2>1, <2>2
  <1>3. Phases'
    BY <1>1 DEF Phases
  <1>4. UnderWay'
    <2>1. \A x \in Keys : Reusable(x)' <=> Reusable(x)
      BY SameChunk
    <2>. QED
      BY <1>1, <2>1 DEF UnderWay, TypeOK
  <1>5. Sifted' /\ SidecarMeansReusable'
    BY SameChunk DEF Sifted, SidecarMeansReusable
  <1>. QED
    BY <1>2, <1>3, <1>4, <1>5

LEMMA PublishIInv == ASSUME IInv, Publish PROVE IInv'
  <1> USE DEF IInv, Publish, Idle, sweep
  <1> DEFINE k == render.key
  <1>1. render \in [pc : {"written"}, key : Keys]
    BY DEF TypeOK, Work
  <1>2. (side[k] = None \/ k \in swept) /\ part[k] \in Takes \cup {None} /\ mode = "open"
    BY <1>1 DEF UnderWay, Phases, TypeOK
  <1>3. CASE part[k] = None
    <2>1. TypeOK' /\ Phases' /\ UnderWay'
      BY <1>1, <1>2, <1>3 DEF TypeOK, Work, Phases, UnderWay, files
    <2>2. Sifted' /\ SidecarMeansReusable'
      BY <1>2, <1>3, SameChunk DEF Sifted, SidecarMeansReusable, files
    <2>. QED
      BY <2>1, <2>2
  <1>4. CASE part[k] # None
    <2>1. wav' \in [Keys -> File] /\ part' \in [Keys -> File] /\ damaged' = {}
      BY <1>1, <1>2, <1>4 DEF TypeOK, File, Phases
    <2>2. render' \in Work
      BY <1>1, <1>2, <1>4 DEF Work
    <2>3. TypeOK'
      BY <1>1, <1>4, <2>1, <2>2 DEF TypeOK
    <2>4. Phases'
      BY <1>2, <1>4, <2>1 DEF Phases
    <2>5. UnderWay'
      BY <1>1, <1>2, <1>4 DEF UnderWay, TypeOK
    <2>6. \A x \in Keys \ swept : side[x] # None => (Reusable(x)' <=> Reusable(x))
      <3> SUFFICES ASSUME NEW x \in Keys \ swept, side[x] # None PROVE Reusable(x)' <=> Reusable(x)
        OBVIOUS
      <3>1. x # k
        BY <1>2
      <3>. QED
        BY <3>1, <1>1, <1>4, SameChunk DEF TypeOK
    <2>7. Sifted' /\ SidecarMeansReusable'
      BY <1>2, <1>4, <2>6 DEF Sifted, SidecarMeansReusable
    <2>. QED
      BY <2>3, <2>4, <2>5, <2>7
  <1>. QED
    BY <1>3, <1>4

LEMMA WriteSidecarIInv == ASSUME IInv, WriteSidecar PROVE IInv'
  <1> USE DEF IInv, WriteSidecar, Idle, sweep
  <1>1. render \in [pc : {"published"}, key : Keys, take : Takes]
    BY DEF TypeOK, Work
  <1>2. TypeOK'
    BY <1>1 DEF TypeOK, Work
  <1>3. Phases' /\ UnderWay'
    BY <1>1 DEF Phases, UnderWay
  <1>4. Sifted' /\ SidecarMeansReusable'
    BY SameChunk DEF Sifted, SidecarMeansReusable
  <1>. QED
    BY <1>2, <1>3, <1>4

LEMMA PublishSidecarIInv == ASSUME IInv, PublishSidecar PROVE IInv'
  <1> USE DEF IInv, PublishSidecar, Idle, sweep
  <1> DEFINE k == render.key
  <1>1. render \in [pc : {"described"}, key : Keys, take : Takes]
    BY DEF TypeOK, Work
  <1>2. /\ mode = "open" /\ damaged = {}
        /\ wav[k] = render.take \/ (wav[k] = None /\ k \in swept)
    BY <1>1 DEF UnderWay, Phases, TypeOK
  <1>3. TypeOK'
    BY <1>1 DEF TypeOK, Work
  <1>4. Phases' /\ UnderWay'
    BY <1>1 DEF Phases, UnderWay
  <1>5. Sifted'
    BY <1>2 DEF Sifted
  <1>6. ASSUME NEW x \in Keys \ swept', side'[x] # None PROVE Reusable(x)'
    <2>1. CASE x = k /\ k \in temp
      <3>1. side'[x] = render.take /\ wav'[x] = render.take /\ damaged' = {}
        BY <1>1, <1>2, <1>6, <2>1 DEF TypeOK
      <3>2. render.take \in Takes /\ render.take # None
        BY <1>1, ChunkAssumption
      <3>. QED
        BY <3>1, <3>2 DEF Reusable, SizeAgrees
    <2>2. CASE ~(x = k /\ k \in temp)
      <3>1. side'[x] = side[x]
        BY <1>1, <2>2 DEF TypeOK
      <3>2. Reusable(x)
        BY <1>2, <1>6, <2>2, <3>1 DEF SidecarMeansReusable
      <3>. QED
        BY <3>1, <3>2, SameChunk
    <2>. QED
      BY <2>1, <2>2
  <1>7. SidecarMeansReusable'
    BY <1>6 DEF SidecarMeansReusable
  <1>. QED
    BY <1>3, <1>4, <1>5, <1>7

LEMMA WritebackIInv == ASSUME IInv, NEW k \in Keys, Writeback(k) PROVE IInv'
  <1> USE DEF IInv, Writeback, sweep
  <1>1. TypeOK'
    BY DEF TypeOK
  <1>2. Phases' /\ UnderWay'
    BY SameChunk DEF Phases, UnderWay
  <1>3. Sifted' /\ SidecarMeansReusable'
    BY SameChunk DEF Sifted, SidecarMeansReusable
  <1>. QED
    BY <1>1, <1>2, <1>3

-----------------------------------------------------------------------------
(* Pauses and resets. *)

LEMMA PauseIInv ==
    ASSUME IInv, PauseBegin \/ PauseEnd \/ \E k \in Keys : DropPartial(k)
    PROVE  IInv'
  <1> USE DEF IInv, PauseBegin, PauseEnd, DropPartial, files, sweep
  <1>1. TypeOK'
    BY DEF TypeOK, File
  <1>2. Phases'
    BY DEF Phases
  <1>3. part' = part \/ \E k \in Keys : part' = [part EXCEPT ![k] = None]
    OBVIOUS
  <1>4. UnderWay'
    <2> SUFFICES ASSUME render.pc = "written" PROVE part'[render.key] \in Takes \cup {None}
      BY SameChunk DEF UnderWay
    <2>1. render.key \in Keys
      BY DEF TypeOK, Work, Idle
    <2>. QED
      BY <1>3, <2>1 DEF UnderWay, TypeOK
  <1>5. Sifted' /\ SidecarMeansReusable'
    BY SameChunk DEF Sifted, SidecarMeansReusable
  <1>. QED
    BY <1>1, <1>2, <1>4, <1>5

LEMMA ResetBeginIInv == ASSUME IInv, ResetBegin PROVE IInv'
  <1> USE DEF IInv, ResetBegin, files
  <1>1. TypeOK'
    BY ChunkAssumption DEF TypeOK
  <1>2. Phases'
    BY ChunkAssumption DEF Phases, TypeOK
  <1>3. UnderWay'
    BY SameChunk DEF UnderWay
  <1>4. Sifted' /\ SidecarMeansReusable'
    BY SameChunk DEF Sifted, SidecarMeansReusable
  <1>. QED
    BY <1>1, <1>2, <1>3, <1>4

\* A reset reads what is there, or gives up, and leaves the files alone.
LEMMA ListIInv ==
    ASSUME IInv, ResetRaises \/ \E k \in Keys : List(k)
    PROVE  IInv'
  <1> USE DEF IInv, List, ResetRaises, files
  <1>1. doomed' \subseteq {"part", "wav", "temp", "side"} \X Keys
    BY DEF FilesOf
  <1>2. TypeOK'
    BY <1>1 DEF TypeOK
  <1>3. Phases'
    BY DEF Phases
  <1>4. UnderWay'
    BY SameChunk DEF UnderWay
  <1>5. Sifted' /\ SidecarMeansReusable'
    BY SameChunk DEF Sifted, SidecarMeansReusable
  <1>. QED
    BY <1>2, <1>3, <1>4, <1>5

LEMMA DeleteIInv == ASSUME IInv, NEW k \in Keys, Delete(k) PROVE IInv'
  <1>1. PICK file \in doomed \cap FilesOf(k) :
          /\ doomed' = doomed \ {file}
          /\ part' = IF file[1] = "part" THEN [part EXCEPT ![k] = None] ELSE part
          /\ wav' = IF file[1] = "wav" THEN [wav EXCEPT ![k] = None] ELSE wav
          /\ temp' = IF file[1] = "temp" THEN temp \ {k} ELSE temp
          /\ side' = IF file[1] = "side" THEN [side EXCEPT ![k] = None] ELSE side
          /\ swept' = IF file[1] = "wav" THEN swept \cup {k} ELSE swept
    BY DEF Delete
  <1>2. UNCHANGED <<damaged, unsynced, render, mode, todo, index, pausing, shards, crashes, resets>>
    BY DEF Delete
  <1>3. mode = "open" /\ damaged = {} /\ resets # 0
    BY <1>1 DEF IInv, Phases, TypeOK
  <1>4. TypeOK'
    <2>1. part' \in [Keys -> File] /\ wav' \in [Keys -> File]
      BY <1>1 DEF IInv, TypeOK, File
    <2>2. side' \in [Keys -> Takes \cup {None}]
      BY <1>1 DEF IInv, TypeOK
    <2>3. temp' \subseteq Keys /\ swept' \subseteq Keys
      BY <1>1 DEF IInv, TypeOK
    <2>4. doomed' \subseteq {"part", "wav", "temp", "side"} \X Keys
      BY <1>1 DEF IInv, TypeOK
    <2>. QED
      BY <1>2, <1>3, <2>1, <2>2, <2>3, <2>4 DEF IInv, TypeOK
  <1>5. Phases'
    BY <1>1, <1>2, <1>3 DEF IInv, Phases
  <1>6. \A x \in Keys : /\ wav'[x] = wav[x] \/ (wav'[x] = None /\ x \in swept')
                        /\ side'[x] = side[x] \/ side'[x] = None
                        /\ part'[x] = part[x] \/ part'[x] = None
                        /\ x \in swept => x \in swept'
    BY <1>1 DEF IInv, TypeOK
  <1>7. \A x \in Keys : Reusable(x)' => Reusable(x)
    BY <1>2, <1>6, ChunkAssumption DEF Reusable, SizeAgrees
  <1>8. UnderWay'
    <2>1. render.pc # "idle" => render.key \in Keys
      BY DEF IInv, TypeOK, Work, Idle
    <2>2. CASE render.pc = "idle"
      BY <1>2, <2>2 DEF UnderWay
    <2>3. CASE render.pc # "idle"
      BY <1>2, <1>6, <1>7, <2>1, <2>3 DEF IInv, UnderWay
    <2>. QED
      BY <2>2, <2>3
  <1>9. SidecarMeansReusable'
    <2> SUFFICES ASSUME NEW x \in Keys \ swept', side'[x] # None PROVE Reusable(x)'
      BY DEF SidecarMeansReusable
    <2>1. wav'[x] = wav[x] /\ side'[x] = side[x] /\ x \notin swept
      BY <1>6
    <2>2. Reusable(x)
      BY <1>3, <2>1 DEF IInv, SidecarMeansReusable
    <2>. QED
      BY <1>2, <2>1, <2>2, SameChunk
  <1>10. Sifted'
    BY <1>2, <1>3 DEF Sifted
  <1>. QED
    BY <1>4, <1>5, <1>8, <1>9, <1>10 DEF IInv

-----------------------------------------------------------------------------
(* Deaths and openings. *)

LEMMA CloseIInv == ASSUME IInv, Close PROVE IInv'
  <1> USE DEF IInv, Close, files
  <1>1. TypeOK'
    BY DEF TypeOK
  <1>2. Phases' /\ UnderWay'
    BY DEF Phases, UnderWay, Idle
  <1>3. Sifted' /\ SidecarMeansReusable'
    BY DEF Sifted, SidecarMeansReusable
  <1>. QED
    BY <1>1, <1>2, <1>3

\* Damage is a WAV of some take, also when it strikes more than once.
LEMMA LossTypes ==
    ASSUME TypeOK, Phases, LoseData
    PROVE  /\ wav' \in [Keys -> File]
           /\ damaged' \subseteq {k \in Keys : wav'[k] \in Takes}
           /\ ~PowerLoss => damaged' = damaged
  <1>1. PICK gone \in SUBSET unsynced, broken \in SUBSET unsynced :
          /\ PowerLoss \/ gone \cup broken = {}
          /\ gone \cap broken = {}
          /\ wav' = [k \in Keys |-> IF k \in gone /\ wav[k] # None THEN Empty ELSE wav[k]]
          /\ damaged' = damaged \cup {k \in broken : wav[k] \in Takes}
    BY DEF LoseData
  <1>2. wav' \in [Keys -> File]
    BY <1>1 DEF TypeOK, File
  <1>3. ASSUME NEW k \in damaged' PROVE k \in Keys /\ wav'[k] \in Takes
    <2>1. k \in Keys /\ wav[k] \in Takes /\ k \notin gone
      BY <1>1, <1>3 DEF TypeOK, Phases
    <2>. QED
      BY <1>1, <2>1
  <1>4. ~PowerLoss => damaged' = damaged
    BY <1>1
  <1>. QED
    BY <1>2, <1>3, <1>4

LEMMA CrashIInv == ASSUME IInv, Crash PROVE IInv'
  <1> USE DEF IInv, Crash, Idle
  <1>1. TypeOK'
    <2>1. wav' \in [Keys -> File] /\ damaged' \subseteq {k \in Keys : wav'[k] \in Takes}
      BY LossTypes
    <2>2. crashes' \in 0..MaxCrashes /\ unsynced' \subseteq Keys /\ render' \in Work
      BY ChunkAssumption DEF TypeOK, Work
    <2>. QED
      BY <2>1, <2>2 DEF TypeOK
  <1>2. Phases'
    BY LossTypes DEF Phases
  <1>3. UnderWay' /\ Sifted' /\ SidecarMeansReusable'
    BY DEF UnderWay, Sifted, SidecarMeansReusable
  <1>. QED
    BY <1>1, <1>2, <1>3

LEMMA OpenBeginIInv == ASSUME IInv, OpenBegin PROVE IInv'
  <1> USE DEF IInv, OpenBegin, files, sweep
  <1>1. TypeOK'
    BY DEF TypeOK
  <1>2. Phases'
    BY ChunkAssumption DEF Phases, TypeOK
  <1>3. UnderWay'
    BY DEF UnderWay, Phases, Idle
  <1>4. Sifted' /\ SidecarMeansReusable'
    BY DEF Sifted, SidecarMeansReusable
  <1>. QED
    BY <1>1, <1>2, <1>3, <1>4

LEMMA SiftIInv ==
    ASSUME IInv, NEW k \in Keys,
           Keep(k) \/ OpenRaises(k) \/ QuarantineWav(k) \/ QuarantineSidecar(k)
    PROVE  IInv'
  <1> USE DEF IInv, sweep
  <1>1. render = Idle /\ mode = "reconciling"
    BY DEF Phases, Keep, OpenRaises, QuarantineWav, QuarantineSidecar
  <1>2. CASE Keep(k) \/ OpenRaises(k)
    <2> USE DEF Keep, OpenRaises, files
    <2>1. TypeOK'
      BY <1>2 DEF TypeOK
    <2>2. Phases' /\ UnderWay'
      BY <1>1, <1>2 DEF Phases, UnderWay, Idle, Reusable
    <2>3. Sifted' /\ SidecarMeansReusable'
      BY <1>2, SameChunk DEF Sifted, SidecarMeansReusable
    <2>. QED
      BY <2>1, <2>2, <2>3
  <1>3. CASE QuarantineWav(k)
    <2> USE DEF QuarantineWav
    <2>1. TypeOK'
      BY <1>3 DEF TypeOK, File
    <2>2. Phases' /\ UnderWay'
      BY <1>1, <1>3 DEF Phases, UnderWay, Idle
    <2>3. Sifted'
      <3> SUFFICES ASSUME NEW x \in Keys \ todo, side[x] # None PROVE Reusable(x)'
        BY <1>3 DEF Sifted
      <3>1. x # k /\ Reusable(x)
        BY <1>1, <1>3 DEF Sifted
      <3>. QED
        BY <3>1, <1>3, SameChunk DEF TypeOK
    <2>4. SidecarMeansReusable'
      BY <1>1, <1>3 DEF SidecarMeansReusable
    <2>. QED
      BY <2>1, <2>2, <2>3, <2>4
  <1>4. CASE QuarantineSidecar(k)
    <2> USE DEF QuarantineSidecar
    <2>1. TypeOK'
      BY <1>4 DEF TypeOK
    <2>2. Phases' /\ UnderWay'
      BY <1>1, <1>4, ChunkAssumption DEF Phases, UnderWay, Idle, TypeOK
    <2>3. \A x \in Keys \ {k} : side'[x] = side[x] /\ (Reusable(x)' <=> Reusable(x))
      BY <1>4, SameChunk DEF TypeOK
    <2>4. Sifted' /\ SidecarMeansReusable'
      BY <1>4, <2>3 DEF Sifted, SidecarMeansReusable, TypeOK
    <2>. QED
      BY <2>1, <2>2, <2>4
  <1>. QED
    BY <1>2, <1>3, <1>4

LEMMA WriteIndexIInv == ASSUME IInv, WriteIndex PROVE IInv'
  <1> USE DEF IInv, WriteIndex, files, sweep
  <1>1. TypeOK'
    BY DEF TypeOK
  <1>2. Phases' /\ UnderWay'
    BY DEF Phases, UnderWay, Idle
  <1>3. Sifted' /\ SidecarMeansReusable'
    BY SameChunk DEF Sifted, SidecarMeansReusable
  <1>. QED
    BY <1>1, <1>2, <1>3

LEMMA NextIInv == IInv /\ [Next]_vars => IInv'
  <1> SUFFICES ASSUME IInv, [Next]_vars PROVE IInv'
    OBVIOUS
  <1>1. CASE \E k \in Keys : Start(k) \/ Writeback(k) \/ DropPartial(k) \/ List(k) \/ Delete(k)
    BY <1>1, StartIInv, WritebackIInv, PauseIInv, ListIInv, DeleteIInv
  <1>2. CASE \/ \E take \in Takes : Write(take)
             \/ Publish \/ WriteSidecar \/ PublishSidecar
    BY <1>2, WriteIInv, PublishIInv, WriteSidecarIInv, PublishSidecarIInv
  <1>3. CASE PauseBegin \/ PauseEnd \/ ResetBegin \/ ResetRaises
    BY <1>3, PauseIInv, ResetBeginIInv, ListIInv
  <1>4. CASE Close \/ Crash
    BY <1>4, CloseIInv, CrashIInv
  <1>5. CASE Reconcile
    BY <1>5, OpenBeginIInv, WriteIndexIInv, SiftIInv DEF Reconcile
  <1>6. CASE UNCHANGED vars
    BY <1>6 DEF vars, sweep, files, IInv, TypeOK, Phases, UnderWay, Sifted, SidecarMeansReusable, Reusable,
       SizeAgrees
  <1>. QED
    BY <1>1, <1>2, <1>3, <1>4, <1>5, <1>6 DEF Next

THEOREM Invariant == Spec => []IInv
  <1>. QED
    BY InitIInv, NextIInv, PTL DEF Spec

(* The files keep their shapes, a damaged WAV is that of some take, and the
   renderer is nowhere but in one of its places. *)
THEOREM TypeCorrect == Spec => []TypeOK
  <1>1. IInv => TypeOK
    BY DEF IInv
  <1>. QED
    BY <1>1, Invariant, PTL

(* In an open project a sidecar stands for a complete WAV of the size it
   records, whatever renders, pauses, resets, deaths, power losses and openings
   there were, unless a reset unlinked the WAV and nothing has put that right. *)
THEOREM SidecarsAreSound == Spec => []SidecarMeansReusable
  <1>1. IInv => SidecarMeansReusable
    BY DEF IInv
  <1>. QED
    BY <1>1, Invariant, PTL

-----------------------------------------------------------------------------
(* What a step does to audio that can be reused. *)

LEMMA StepKeepsAudio ==
    ASSUME IInv, [Next]_vars, NEW k \in Keys, Reusable(k)
    PROVE  \/ Reusable(k)'
           \/ <<"wav", k>> \in doomed \/ <<"side", k>> \in doomed
           \/ k \in unsynced /\ mode' = "closed"
  <1>1. side[k] # None /\ wav[k] # None
    BY ChunkAssumption DEF Reusable, SizeAgrees
  <1>2. CASE UNCHANGED <<wav, side, damaged>>
    BY <1>2, SameChunk
  <1>3. CASE Publish
    <2>1. render.pc = "written" /\ render.key # k
      BY <1>3 DEF Publish, IInv, UnderWay
    <2>. QED
      BY <1>3, <2>1, SameChunk DEF Publish, IInv, TypeOK, files
  <1>4. CASE PublishSidecar
    <2>1. render \in [pc : {"described"}, key : Keys, take : Takes]
      BY <1>4 DEF PublishSidecar, IInv, TypeOK, Work, Idle
    <2>2. CASE render.key = k /\ k \in temp
      <3>1. wav[k] = render.take /\ mode = "open" /\ damaged = {}
        BY <1>1, <2>1, <2>2 DEF IInv, UnderWay, Phases, TypeOK, Idle
      <3>2. wav'[k] = render.take /\ side'[k] = render.take /\ damaged' = {}
        BY <1>4, <2>2, <3>1 DEF PublishSidecar, IInv, TypeOK
      <3>. QED
        BY <2>1, <3>2, ChunkAssumption DEF Reusable, SizeAgrees
    <2>3. CASE ~(render.key = k /\ k \in temp)
      BY <1>4, <2>1, <2>3, SameChunk DEF PublishSidecar, IInv, TypeOK
    <2>. QED
      BY <2>2, <2>3
  <1>5. CASE \E x \in Keys : Delete(x)
    <2>1. PICK x \in Keys : Delete(x)
      BY <1>5
    <2>2. PICK file \in doomed \cap FilesOf(x) :
            /\ wav' = IF file[1] = "wav" THEN [wav EXCEPT ![x] = None] ELSE wav
            /\ side' = IF file[1] = "side" THEN [side EXCEPT ![x] = None] ELSE side
      BY <2>1 DEF Delete
    <2>3. damaged' = damaged
      BY <2>1 DEF Delete
    <2>4. CASE x = k /\ file[1] \in {"wav", "side"}
      <3>1. file = <<file[1], k>>
        BY <2>4 DEF FilesOf
      <3>. QED
        BY <2>4, <3>1
    <2>5. CASE ~(x = k /\ file[1] \in {"wav", "side"})
      <3>1. wav'[k] = wav[k] /\ side'[k] = side[k]
        BY <2>2, <2>5 DEF IInv, TypeOK
      <3>. QED
        BY <2>3, <3>1, SameChunk
    <2>. QED
      BY <2>4, <2>5
  <1>6. CASE Crash
    <2>1. mode' = "closed" /\ side' = side
      BY <1>6 DEF Crash
    <2>2. PICK gone \in SUBSET unsynced, broken \in SUBSET unsynced :
            /\ wav' = [x \in Keys |-> IF x \in gone /\ wav[x] # None THEN Empty ELSE wav[x]]
            /\ damaged' = damaged \cup {x \in broken : wav[x] \in Takes}
      BY <1>6 DEF Crash, LoseData
    <2>3. CASE k \in unsynced
      BY <2>1, <2>3
    <2>4. CASE k \notin unsynced
      <3>1. wav'[k] = wav[k] /\ (k \in damaged' <=> k \in damaged)
        BY <2>2, <2>4
      <3>. QED
        BY <2>1, <3>1, SameChunk
    <2>. QED
      BY <2>3, <2>4
  <1>7. CASE \E x \in Keys : QuarantineWav(x) \/ QuarantineSidecar(x)
    <2>1. PICK x \in Keys : QuarantineWav(x) \/ QuarantineSidecar(x)
      BY <1>7
    <2>2. x # k
      BY <1>1, <2>1 DEF QuarantineWav, QuarantineSidecar, Reusable
    <2>. QED
      BY <2>1, <2>2, SameChunk DEF QuarantineWav, QuarantineSidecar, IInv, TypeOK
  <1>8. CASE \/ \E x \in Keys : Start(x) \/ Writeback(x) \/ DropPartial(x) \/ Keep(x) \/ OpenRaises(x) \/ List(x)
             \/ \E take \in Takes : Write(take)
             \/ WriteSidecar \/ PauseBegin \/ PauseEnd \/ ResetBegin \/ ResetRaises
             \/ Close \/ OpenBegin \/ WriteIndex
    BY <1>2, <1>8 DEF Start, Writeback, DropPartial, Keep, OpenRaises, List, Write, WriteSidecar,
       PauseBegin, PauseEnd, ResetBegin, ResetRaises, Close, OpenBegin, WriteIndex, files
  <1>9. CASE UNCHANGED vars
    BY <1>2, <1>9 DEF vars, files
  <1>. QED
    BY <1>3, <1>4, <1>5, <1>6, <1>7, <1>8, <1>9 DEF Next, Reconcile

(* Audio that was committed is reused until a reset that listed it deletes it or a
   power loss takes what the kernel had not written back: no render, pause, death
   of the engine or opening does. *)
THEOREM CommittedAudioSurvives == Spec => CommittedSurvives
  <1>1. IInv /\ [Next]_vars => [AudioSurvives]_vars
    <2> SUFFICES ASSUME IInv, [Next]_vars, NEW k \in Keys, Reusable(k)
                 PROVE  \/ Reusable(k)'
                        \/ <<"wav", k>> \in doomed \/ <<"side", k>> \in doomed
                        \/ k \in unsynced /\ mode' = "closed"
      BY DEF AudioSurvives
    <2>. QED
      BY StepKeepsAudio
  <1>. QED
    BY <1>1, Invariant, PTL DEF Spec, CommittedSurvives

(* The chunk table is written when the project opens and is still right when
   it is read, unless a reset has deleted audio. *)
THEOREM IndexStaysSound == Spec => []IndexIsSound
  <1>1. Init => IndexIsSound
    BY DEF Init, IndexIsSound
  <1>2. IInv /\ IndexIsSound /\ [Next]_vars => IndexIsSound'
    <2> SUFFICES ASSUME IInv, IndexIsSound, [Next]_vars, mode' = "open", resets' = 0,
                        NEW k \in index'
                 PROVE  Reusable(k)'
      BY DEF IndexIsSound
    <2>1. CASE WriteIndex
      <3>1. k \in Keys /\ Reusable(k)
        BY <2>1 DEF WriteIndex
      <3>. QED
        BY <2>1, <3>1, SameChunk DEF WriteIndex, files
    <2>2. CASE ~WriteIndex
      <3>1. index' = index /\ mode = "open" /\ resets = 0
        BY <2>2 DEF IInv, TypeOK, Next, Reconcile, Start, Writeback, DropPartial, List, Delete, Write,
           Publish, WriteSidecar, PublishSidecar, PauseBegin, PauseEnd, ResetBegin, ResetRaises,
           Close, Crash, OpenBegin, Keep, OpenRaises, QuarantineWav, QuarantineSidecar, vars, files
      <3>2. k \in Keys /\ Reusable(k) /\ doomed = {}
        BY <3>1 DEF IndexIsSound, IInv, TypeOK, Phases
      <3>. QED
        BY <3>2, StepKeepsAudio
    <2>. QED
      BY <2>1, <2>2
  <1>. QED
    BY <1>1, <1>2, Invariant, PTL DEF Spec

=============================================================================
