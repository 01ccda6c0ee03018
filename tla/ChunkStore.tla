----------------------------- MODULE ChunkStore -----------------------------
(***************************************************************************)
(* The rendered audio of one project: per render key a partial, a WAV, the *)
(* temporary of its sidecar and the sidecar (audio/render_fake.py,         *)
(* jobs/commit.py, jobs/reuse.py), the reconciliation that opening a       *)
(* project runs over them (store/reconcile.py), the pause that deletes     *)
(* partials while a render may be under way (api/v1/jobs.py), and the      *)
(* reset that deletes the audio, which may have one beside it as well      *)
(* (jobs/manager.py).  One pass renders, and a project is closed when      *)
(* nothing is under way in it; the code sees to neither (README, 6).       *)
(*                                                                         *)
(* A take is one rendering of a key; takes of the same text may differ in  *)
(* size and duration, and Measure is what a sidecar records of them.       *)
(* commit_chunk's refusal of a partial whose duration is not the claimed   *)
(* one is left out: render_chunk claims the duration it has just measured. *)
(***************************************************************************)
EXTENDS Naturals, FiniteSets

CONSTANTS Keys,        \* render keys
          Takes,       \* renderings a backend may produce
          Measure,     \* size and duration of every take
          None,        \* no such file
          Empty,       \* a file that exists and has no content
          MaxCrashes,  \* bound: deaths of the engine
          MaxResets,   \* bound: resets that delete audio
          PowerLoss    \* whether a death may lose data not yet flushed

ASSUME ChunkAssumption ==
    /\ None \notin Takes /\ Empty \notin Takes /\ None # Empty
    /\ DOMAIN Measure = Takes
    /\ MaxCrashes \in Nat /\ MaxResets \in Nat
    /\ PowerLoss \in BOOLEAN

VARIABLES part,      \* <key>.wav.part: None, Empty while written, or a take
          wav,       \* <key>.wav: None, Empty or a take
          temp,      \* keys with a temporary of the sidecar
          side,      \* <key>.json: None or the take it describes
          damaged,   \* keys whose WAV has its size but not its content
          unsynced,  \* keys whose WAV the kernel has not written back
          render,    \* what the renderer is doing
          mode,      \* "closed", "reconciling" or "open"
          todo,      \* keys reconciliation has not looked at
          index,     \* the chunk table of the database
          pausing,   \* a pause is deleting partials
          shards,    \* keys whose directory a reset has not listed yet
          doomed,    \* files a reset has listed and not unlinked yet
          swept,     \* history: keys whose WAV a reset unlinked since the opening
          crashes, resets

files == <<part, wav, temp, side, damaged, unsynced>>
sweep == <<shards, doomed, swept>>
vars == <<files, render, mode, todo, index, pausing, sweep, crashes, resets>>

Idle == [pc |-> "idle"]

\* What the renderer may be doing, and with which chunk.
Work == {Idle} \cup [pc : {"writing", "written"}, key : Keys]
               \cup [pc : {"published", "described"}, key : Keys, take : Takes]

-----------------------------------------------------------------------------
\* chunk_reusable() up to the probe: both files, and the size agrees.
SizeAgrees(k) == /\ wav[k] \in Takes
                 /\ side[k] # None
                 /\ Measure[wav[k]] = Measure[side[k]]

Reusable(k) == SizeAgrees(k) /\ k \notin damaged

\* wav_seconds() raises wave.Error on a header it cannot read, and neither
\* chunk_reusable() nor reconcile_chunks() catches it.
ProbeRaises(k) == SizeAgrees(k) /\ k \in damaged

Init == /\ part = [k \in Keys |-> None]
        /\ wav = [k \in Keys |-> None]
        /\ temp = {}
        /\ side = [k \in Keys |-> None]
        /\ damaged = {}
        /\ unsynced = {}
        /\ render = Idle
        /\ mode = "open"
        /\ todo = {}
        /\ index = {}
        /\ pausing = FALSE
        /\ shards = {}
        /\ doomed = {}
        /\ swept = {}
        /\ crashes = 0
        /\ resets = 0

-----------------------------------------------------------------------------
(* Rendering one key: write the partial, rename it, write the sidecar. *)

\* render_pass() skips what is reusable; write_sine() opens the partial.
Start(k) ==
    /\ mode = "open"
    /\ render = Idle
    /\ ~Reusable(k)
    /\ part' = [part EXCEPT ![k] = Empty]
    /\ render' = [pc |-> "writing", key |-> k]
    /\ UNCHANGED <<wav, temp, side, damaged, unsynced, mode, todo, index, pausing, sweep, crashes, resets>>

\* The partial is complete, unless a pause has unlinked it: then the handle
\* still writes, to a file without a name, and probing the path fails.
Write(take) ==
    /\ render.pc = "writing"
    /\ IF part[render.key] = None
       THEN part' = part /\ render' = Idle
       ELSE /\ part' = [part EXCEPT ![render.key] = take]
            /\ render' = [render EXCEPT !.pc = "written"]
    /\ UNCHANGED <<wav, temp, side, damaged, unsynced, mode, todo, index, pausing, sweep, crashes, resets>>

\* part.replace(wav).  A partial deleted by a pause raises and ends the pass.
Publish ==
    /\ render.pc = "written"
    /\ LET k == render.key
       IN  IF part[k] = None
           THEN render' = Idle /\ UNCHANGED files
           ELSE /\ wav' = [wav EXCEPT ![k] = part[k]]
                /\ part' = [part EXCEPT ![k] = None]
                /\ damaged' = damaged \ {k}
                /\ unsynced' = unsynced \cup {k}
                /\ render' = [pc |-> "published", key |-> k, take |-> part[k]]
                /\ UNCHANGED <<temp, side>>
    /\ UNCHANGED <<mode, todo, index, pausing, sweep, crashes, resets>>

\* write_json_atomic() fills its temporary, <key>.json.<random>.part ...
WriteSidecar ==
    /\ render.pc = "published"
    /\ temp' = temp \cup {render.key}
    /\ render' = [render EXCEPT !.pc = "described"]
    /\ UNCHANGED <<part, wav, side, damaged, unsynced, mode, todo, index, pausing, sweep, crashes, resets>>

\* ... and renames it, which raises if a pause or a reset has deleted it meanwhile.
PublishSidecar ==
    /\ render.pc = "described"
    /\ LET k == render.key
       IN  /\ side' = IF k \in temp THEN [side EXCEPT ![k] = render.take] ELSE side
           /\ swept' = IF k \in temp /\ wav[k] # None THEN swept \ {k} ELSE swept
           /\ temp' = temp \ {k}
    /\ render' = Idle
    /\ UNCHANGED <<part, wav, damaged, unsynced, mode, todo, index, pausing, shards, doomed,
                   crashes, resets>>

\* The kernel writes the audio back.  commit_chunk() does not ask for it.
Writeback(k) ==
    /\ k \in unsynced
    /\ unsynced' = unsynced \ {k}
    /\ UNCHANGED <<part, wav, temp, side, damaged, render, mode, todo, index, pausing, sweep, crashes, resets>>

-----------------------------------------------------------------------------
(* A pause request deletes *.part, one file after the other, in its own      *)
(* thread: the partials of chunks and the temporaries of sidecars alike.     *)

PauseBegin ==
    /\ mode = "open" /\ ~pausing
    /\ pausing' = TRUE
    /\ UNCHANGED <<files, render, mode, todo, index, sweep, crashes, resets>>

\* Mutant: the pattern also takes the finished WAV of the key.
DropWholeKey(k) ==
    /\ pausing
    /\ part' = [part EXCEPT ![k] = None]
    /\ wav' = [wav EXCEPT ![k] = None]
    /\ temp' = temp \ {k}
    /\ UNCHANGED <<side, damaged, unsynced, render, mode, todo, index, pausing, sweep, crashes, resets>>

DropPartial(k) ==
    /\ pausing
    /\ \/ part[k] # None /\ part' = [part EXCEPT ![k] = None] /\ UNCHANGED temp
       \/ k \in temp /\ temp' = temp \ {k} /\ UNCHANGED part
    /\ UNCHANGED <<wav, side, damaged, unsynced, render, mode, todo, index, pausing, sweep, crashes, resets>>

PauseEnd ==
    /\ pausing
    /\ pausing' = FALSE
    /\ UNCHANGED <<files, render, mode, todo, index, sweep, crashes, resets>>

-----------------------------------------------------------------------------
(* reset(delete_audio=True) of a job that is over: rmtree of the directories, *)
(* whatever a pass that was begun before is doing.                           *)

ResetBegin ==
    /\ mode = "open"
    /\ resets < MaxResets
    /\ shards' = Keys
    /\ resets' = resets + 1
    /\ UNCHANGED <<files, render, mode, todo, index, pausing, doomed, swept, crashes>>

\* The files of a key, each of which is a kind and its key.
FilesOf(k) == (IF part[k] # None THEN {<<"part", k>>} ELSE {})
                \cup (IF wav[k] # None THEN {<<"wav", k>>} ELSE {})
                \cup (IF k \in temp THEN {<<"temp", k>>} ELSE {})
                \cup (IF side[k] # None THEN {<<"side", k>>} ELSE {})

\* A directory is listed, and then its files are unlinked in that order, whatever
\* it is; what is written behind the listing stays.
List(k) ==
    /\ k \in shards /\ doomed = {}
    /\ shards' = shards \ {k}
    /\ doomed' = FilesOf(k)
    /\ UNCHANGED <<files, render, mode, todo, index, pausing, swept, crashes, resets>>

Delete(k) ==
    /\ \E file \in doomed \cap FilesOf(k) :
         /\ doomed' = doomed \ {file}
         /\ part' = IF file[1] = "part" THEN [part EXCEPT ![k] = None] ELSE part
         /\ wav' = IF file[1] = "wav" THEN [wav EXCEPT ![k] = None] ELSE wav
         /\ temp' = IF file[1] = "temp" THEN temp \ {k} ELSE temp
         /\ side' = IF file[1] = "side" THEN [side EXCEPT ![k] = None] ELSE side
         /\ swept' = IF file[1] = "wav" THEN swept \cup {k} ELSE swept
    /\ UNCHANGED <<damaged, unsynced, render, mode, todo, index, pausing, shards,
                   crashes, resets>>

\* A file that is in use or gone already, or a directory that is not empty, makes
\* rmtree raise, and what is left stays.
ResetRaises ==
    /\ shards # {} \/ doomed # {}
    /\ shards' = {} /\ doomed' = {}
    /\ UNCHANGED <<files, render, mode, todo, index, pausing, swept, crashes, resets>>

-----------------------------------------------------------------------------
(* The engine dies; opening the project reconciles the chunk files.          *)

Close ==
    /\ mode = "open" /\ ~pausing /\ shards = {} /\ doomed = {}
    /\ render = Idle
    /\ mode' = "closed"
    /\ swept' = {}
    /\ UNCHANGED <<files, render, todo, index, pausing, shards, doomed, crashes, resets>>

\* What a power loss leaves of WAVs that were not written back: nothing, or
\* the right length with the wrong bytes.
LoseData ==
    \E gone, broken \in SUBSET unsynced :
        /\ PowerLoss \/ gone \cup broken = {}
        /\ gone \cap broken = {}
        /\ wav' = [k \in Keys |-> IF k \in gone /\ wav[k] # None THEN Empty ELSE wav[k]]
        /\ damaged' = damaged \cup {k \in broken : wav[k] \in Takes}

Crash ==
    /\ crashes < MaxCrashes
    /\ mode # "closed"
    /\ crashes' = crashes + 1
    /\ LoseData
    /\ unsynced' = IF PowerLoss THEN {} ELSE unsynced
    /\ render' = Idle
    /\ mode' = "closed"
    /\ todo' = {}
    /\ pausing' = FALSE
    /\ shards' = {} /\ doomed' = {} /\ swept' = {}
    /\ UNCHANGED <<part, temp, side, index, resets>>

\* reconcile_chunks() looks at every key that has a WAV or a sidecar.
OpenBegin ==
    /\ mode = "closed"
    /\ mode' = "reconciling"
    /\ todo' = {k \in Keys : wav[k] # None \/ side[k] # None}
    /\ UNCHANGED <<files, render, index, pausing, sweep, crashes, resets>>

Keep(k) ==
    /\ k \in todo
    /\ Reusable(k)
    /\ todo' = todo \ {k}
    /\ UNCHANGED <<files, render, mode, index, pausing, sweep, crashes, resets>>

\* The error leaves reconcile_chunks() and open(): the project stays closed.
OpenRaises(k) ==
    /\ k \in todo
    /\ ProbeRaises(k)
    /\ mode' = "closed"
    /\ todo' = {}
    /\ UNCHANGED <<files, render, index, pausing, sweep, crashes, resets>>

\* Anything else is torn: the WAV is moved aside first ...
QuarantineWav(k) ==
    /\ k \in todo
    /\ ~SizeAgrees(k)
    /\ wav[k] # None
    /\ wav' = [wav EXCEPT ![k] = None]
    /\ damaged' = damaged \ {k}
    /\ unsynced' = unsynced \ {k}
    /\ UNCHANGED <<part, temp, side, render, mode, todo, index, pausing, sweep,
                   crashes, resets>>

\* Mutant: only the WAV is moved.
LeaveSidecar(k) ==
    /\ k \in todo
    /\ wav[k] = None
    /\ todo' = todo \ {k}
    /\ UNCHANGED <<files, render, mode, index, pausing, sweep, crashes, resets>>

\* Mutant: a sidecar that is not there is an error.
QuarantineSidecarPresent(k) ==
    /\ k \in todo
    /\ wav[k] = None /\ side[k] # None
    /\ side' = [side EXCEPT ![k] = None]
    /\ todo' = todo \ {k}
    /\ UNCHANGED <<part, wav, temp, damaged, unsynced, render, mode, index, pausing, sweep, crashes, resets>>

\* ... and then the sidecar.
QuarantineSidecar(k) ==
    /\ k \in todo
    /\ wav[k] = None
    /\ side' = [side EXCEPT ![k] = None]
    /\ todo' = todo \ {k}
    /\ UNCHANGED <<part, wav, temp, damaged, unsynced, render, mode, index, pausing, sweep, crashes, resets>>

\* Mutant: the rows of earlier openings are kept.
WriteIndexAdding ==
    /\ mode = "reconciling"
    /\ todo = {}
    /\ index' = index \cup {k \in Keys : Reusable(k)}
    /\ mode' = "open"
    /\ UNCHANGED <<files, render, todo, pausing, sweep, crashes, resets>>

\* write_chunk_index() replaces the rows with the keys that were kept.
WriteIndex ==
    /\ mode = "reconciling"
    /\ todo = {}
    /\ index' = {k \in Keys : Reusable(k)}
    /\ mode' = "open"
    /\ UNCHANGED <<files, render, todo, pausing, sweep, crashes, resets>>

-----------------------------------------------------------------------------
Reconcile == \/ OpenBegin
             \/ WriteIndex
             \/ \E k \in Keys : \/ Keep(k)
                                \/ OpenRaises(k)
                                \/ QuarantineWav(k)
                                \/ QuarantineSidecar(k)

Next == \/ \E k \in Keys : Start(k) \/ Writeback(k) \/ DropPartial(k) \/ List(k) \/ Delete(k)
        \/ \E take \in Takes : Write(take)
        \/ Publish
        \/ WriteSidecar
        \/ PublishSidecar
        \/ PauseBegin
        \/ PauseEnd
        \/ ResetBegin
        \/ ResetRaises
        \/ Close
        \/ Crash
        \/ Reconcile

Spec == Init /\ [][Next]_vars

\* A user opens a project that is closed, and open() runs to its end.
FairSpec == Spec /\ WF_vars(Reconcile)

-----------------------------------------------------------------------------
File == Takes \cup {None, Empty}

TypeOK ==
    /\ part \in [Keys -> File]
    /\ wav \in [Keys -> File]
    /\ temp \subseteq Keys
    /\ side \in [Keys -> Takes \cup {None}]
    /\ damaged \subseteq {k \in Keys : wav[k] \in Takes}
    /\ unsynced \subseteq Keys
    /\ render \in Work
    /\ mode \in {"closed", "reconciling", "open"}
    /\ todo \subseteq Keys
    /\ index \subseteq Keys
    /\ pausing \in BOOLEAN
    /\ shards \subseteq Keys /\ swept \subseteq Keys
    /\ doomed \subseteq {"part", "wav", "temp", "side"} \X Keys
    /\ crashes \in 0..MaxCrashes /\ resets \in 0..MaxResets

\* In an open project every sidecar stands for a complete WAV of the size and
\* duration it records, whatever renders, pauses, deaths and openings came
\* before, and also while a chunk is being committed; and where a reset has
\* unlinked the WAV, from beside its sidecar or from under a commit, a new commit
\* or the next opening puts it right.
SidecarMeansReusable ==
    mode = "open" => \A k \in Keys \ swept : side[k] # None => Reusable(k)

AudioSurvives == \A k \in Keys : Reusable(k) => \/ Reusable(k)'
                                                \/ <<"wav", k>> \in doomed \/ <<"side", k>> \in doomed
                                                \/ k \in unsynced /\ mode' = "closed"

\* Audio that was committed once is reused for ever: only a reset that has listed it
\* takes it away, or a power loss before the kernel has written it back; never a
\* pause, a death of the engine, a render of another key or an opening, nor a
\* reset that listed its directory before it was committed.
CommittedSurvives == [][AudioSurvives]_vars

\* The chunk table names only chunks that can be reused, until a reset
\* deletes audio without touching the table.
IndexIsSound ==
    mode = "open" /\ resets = 0 => \A k \in index : Reusable(k)

\* reconcile.py: whatever a death left is kept or moved aside, so a project
\* that was closed, or whose engine died, is open again, unless a power loss
\* left a WAV whose header cannot be read.
ReopensIfReadable == (mode = "closed") ~> (mode = "open" \/ damaged # {})

=============================================================================
