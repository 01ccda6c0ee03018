----------------------------- MODULE Recording ------------------------------
(***************************************************************************)
(* How a plan is recorded: the budget of a graphics card (gpu/budget.py),  *)
(* the monitor of its free memory (gpu/monitor.py), the slots of workers   *)
(* (jobs/admission.py), the walk over the plan (jobs/scheduler.py), and    *)
(* the manager that holds the active job and renders it with the fake      *)
(* voice (jobs/manager.py, jobs/fake_run.py, jobs/cursor.py).              *)
(*                                                                         *)
(* The loop that polls, dispatches and starts workers is not in the engine *)
(* yet; it is modelled as the modules it will call expect it, and external.*)
(* So is what becomes of the workers of a job that is over: the manager    *)
(* knows nothing of them, and they end in their own time, beside a reset   *)
(* and beside the next job.  Sizes are in MiB.                             *)
(***************************************************************************)
EXTENDS Integers, FiniteSets, FiniteSetsExt, JobState

CONSTANTS Kind,          \* the kind of each item of the plan, by ordinal: "tts" or "silence"
          Cards,         \* arguments compute_budget() may be called with
          Samples,       \* free memory the probe of the monitor may read
          ResumeSamples, \* samples that end a pause
          MaxTrouble     \* bound: samples that do not admit a worker

None == -1

ASSUME RecordingAssumption ==
    /\ IsFiniteSet(DOMAIN Kind) /\ DOMAIN Kind = 0..(Cardinality(DOMAIN Kind) - 1)
    /\ Cards \subseteq [cpu : BOOLEAN, backend : STRING, model : STRING, precision : STRING,
                        total : Int, free : Int, override : Int, measured : Int,
                        reserve : Int, cap : Int, parallel : Int]
    /\ None \in Samples /\ Samples \subseteq Nat \cup {None}
    /\ ResumeSamples \in Nat \ {0} /\ MaxTrouble \in Nat

VARIABLES budget,   \* what compute_budget() made of the card
          paused,   \* whether admissions are paused
          streak,   \* clear samples in a row while paused
          free,     \* the last sample, None if the driver gave no number
          sampled,  \* whether there is a last sample
          elapsed,  \* whether the sampling interval has passed
          held,     \* slots taken
          running,  \* ordinals with a worker of the job
          others,   \* workers of earlier jobs
          ooms,     \* out-of-memory errors of the chunk a worker renders
          failed,   \* ordinals given up
          next,     \* where the loop dispatches from
          audio,    \* ordinals whose audio and sidecar are on disk
          record,   \* the record in the manager's slot
          clear,    \* samples since the last one below the reserve, up to ResumeSamples
          trouble   \* samples so far that did not admit a worker

vars == <<budget, paused, streak, free, sampled, elapsed, held, running, others, ooms, failed, next,
          audio, record, clear, trouble>>

monitor == <<paused, streak, free, sampled, elapsed, clear, trouble>>
workers == <<held, running, others, ooms, failed, next>>

-----------------------------------------------------------------------------
(* The budget.                                                             *)

SeedPeak == [omnivoice |-> [fp16 |-> 3500, fp32 |-> 6000],
             chatterbox |-> [fp16 |-> 4500], qwen3_tts |-> [fp16 |-> 4000]]

\* _seed_peak(): None for a backend or precision nobody measured.
Seeded(card) ==
    CASE card.backend = "fake" -> 64
      [] card.backend = "qwen3_tts" /\ card.model = "1.7b" /\ card.precision = "fp16" -> 7000
      [] OTHER -> IF /\ card.backend \in DOMAIN SeedPeak
                     /\ card.precision \in DOMAIN SeedPeak[card.backend]
                  THEN SeedPeak[card.backend][card.precision] ELSE None

\* _peak(): the first that is given counts, and 0 or less is refused (None).
Peak(card) ==
    LET given == IF card.override # None THEN card.override ELSE card.measured
    IN  IF given = None THEN Seeded(card) ELSE IF given > 0 THEN given ELSE None

\* _reserve(): a fifth of the card, rounded up, and at least 1.5 GiB.
Reserve(card) ==
    IF card.reserve # None THEN Max({0, card.reserve})
    ELSE Max({(card.total * 20 + 99) \div 100, 1536})

\* Mutant: the workers are counted over all free memory.
BudgetIgnoringReserve(card) ==
    LET peak == Peak(card)
        fits == card.free \div peak
    IN  [total |-> card.total, peak |-> peak, reserve |-> Reserve(card), low |-> card.free < peak,
         workers |-> Min({Max({1, fits}), Max({1, card.cap}), Max({1, card.parallel})})]

\* compute_budget(), for a card that _peak() does not refuse.
Budget(card) ==
    LET peak     == Peak(card)
        reserve  == Reserve(card)
        headroom == card.free - reserve
        fits     == IF headroom > 0 THEN headroom \div peak ELSE 0
    IN  IF card.cpu \/ None \in {card.total, card.free}
        THEN [total |-> None, peak |-> peak, reserve |-> 0, workers |-> 1, low |-> ~card.cpu]
        ELSE [total |-> card.total, peak |-> peak, reserve |-> reserve, low |-> headroom < peak,
              workers |-> Min({Max({1, fits}), Max({1, card.cap}), Max({1, card.parallel})})]

-----------------------------------------------------------------------------
(* The monitor: a poll samples when the interval has passed.               *)

Below(mib) == mib # None /\ mib < budget.reserve

\* admits_worker()
Fits(mib) == mib # None /\ mib - budget.reserve >= budget.peak

\* Mutant: a low sample during a pause does not restart the count.
DecideKeepingStreak(mib) ==
    LET long == paused /\ ~Below(mib) /\ streak + 1 >= ResumeSamples
    IN  /\ paused' = (Below(mib) \/ (paused /\ ~long))
        /\ streak' = IF paused /\ ~Below(mib) /\ ~long THEN streak + 1
                     ELSE IF Below(mib) THEN streak ELSE 0

\* _decide(): below the reserve pauses, ResumeSamples others in a row resume.
Decide(mib) ==
    LET long == paused /\ ~Below(mib) /\ streak + 1 >= ResumeSamples
    IN  /\ paused' = (Below(mib) \/ (paused /\ ~long))
        /\ streak' = IF paused /\ ~Below(mib) /\ ~long THEN streak + 1 ELSE 0

Sample(mib) ==
    /\ ~sampled \/ elapsed
    /\ Fits(mib) \/ trouble < MaxTrouble
    /\ Decide(mib)
    /\ free' = mib
    /\ sampled' = TRUE
    /\ elapsed' = FALSE
    /\ clear' = IF Below(mib) THEN 0 ELSE Min({clear + 1, ResumeSamples})
    /\ trouble' = IF Fits(mib) THEN trouble ELSE trouble + 1

\* poll(): within the interval the last sample is answered again.
Poll == \/ \E mib \in {m \in Samples : m <= budget.total} : Sample(mib)
        \/ sampled /\ ~elapsed /\ UNCHANGED monitor

\* MonitorTick.admits of the sample in force after the poll.
Admits == Fits(free') /\ ~paused'

-----------------------------------------------------------------------------
(* Slots, and the walk of dispatch() over the plan.                        *)

Ordinals == DOMAIN Kind
Speech == {i \in Ordinals : Kind[i] = "tts"}

\* AdmissionGate.__init__(): at least one slot.
Slots == Max({1, budget.workers})

\* What try_acquire() will still admit on this tick.
Vacant == IF Admits THEN Slots - held ELSE 0

\* Speech that needs a worker: silence and audio on disk do not.
Needing == {i \in Speech \ audio : i >= next}

\* Mutant: a chunk that must wait is skipped, and later ones are looked at.
WalkedPastWaiting(n) ==
    {i \in Ordinals : i >= next /\ (i \in Needing => Cardinality(Needing) - Cardinality({j \in Needing : j < i}) <= n)}

\* The walk ends at the first item that needs more than the n vacant slots.
Walked(n) == {i \in Ordinals : i >= next /\ Cardinality({j \in Needing : j <= i}) <= n}

\* One round of the loop: poll, dispatch, and a worker for each synthesis.
Round == /\ record.state = "running"
         /\ Poll
         /\ LET taken == Walked(Vacant)
                synth == taken \cap Needing
            IN  /\ held' = held + Cardinality(synth)
                /\ running' = running \cup synth
                /\ next' = Max({next} \cup {i + 1 : i \in taken})
         /\ UNCHANGED <<budget, others, ooms, failed, audio, record>>

IntervalPasses == /\ ~elapsed
                  /\ elapsed' = TRUE
                  /\ UNCHANGED <<budget, paused, streak, free, sampled, clear, trouble, workers, audio, record>>

\* Mutant: the slot is not returned.
ReleaseForgotten == held

\* release()
Release == IF held > 0 THEN held - 1 ELSE held

\* The worker published its chunk and exits.
WorkerDone(i) == /\ i \in running
                 /\ running' = running \ {i}
                 /\ audio' = audio \cup {i}
                 /\ held' = Release
                 /\ ooms' = [ooms EXCEPT ![i] = 0]
                 /\ UNCHANGED <<budget, monitor, others, failed, next, record>>

\* A worker of an earlier job exits, with a chunk of this plan, with one of another or
\* with none.
OtherEnds == /\ others > 0
             /\ others' = others - 1
             /\ held' = Release
             /\ audio' \in {audio} \cup {audio \cup {i} : i \in Speech}
             /\ UNCHANGED <<budget, monitor, running, ooms, failed, next, record>>

\* after_oom(): one retry, in the slot the worker has; the second error fails the item.
OutOfMemory(i) ==
    /\ i \in running
    /\ IF ooms[i] < 1
       THEN /\ ooms' = [ooms EXCEPT ![i] = @ + 1]
            /\ UNCHANGED <<running, failed, held>>
       ELSE /\ ooms' = [ooms EXCEPT ![i] = 0]
            /\ running' = running \ {i}
            /\ failed' = failed \cup {i}
            /\ held' = Release
    /\ UNCHANGED <<budget, monitor, others, next, audio, record>>

-----------------------------------------------------------------------------
(* The manager, with one slot for a record.                                *)

Empty == [state |-> "none", cursor |-> 0, done |-> 0]

\* adopt(): a job that is still active keeps the slot.  The loop begins with the new
\* plan; what still renders is an earlier job's.
Adopt == /\ record.state \notin Active
         /\ record' = [Empty EXCEPT !.state = "queued"]
         /\ others' = others + Cardinality(running)
         /\ running' = {} /\ failed' = {} /\ next' = 0
         /\ ooms' = [i \in Ordinals |-> 0]
         /\ UNCHANGED <<budget, monitor, held, audio>>

\* start(), pause(), resume(), stop(): an event with no edge is refused.
Event(events) ==
    /\ \E e \in TransitionsOf("record") :
          /\ e[1] = record.state /\ e[2] \in events
          /\ record' = [record EXCEPT !.state = e[3]]
    /\ UNCHANGED <<budget, monitor, workers, audio>>

Start == Event({"start"})
Pause == Event({"pause"})
Resume == Event({"resume"})
Stop == Event({IF record.state = "queued" THEN "cancel" ELSE "stop"})

\* cursor_after(): the first speech that is not done, or one past the plan.
CursorAfter(done) == Min((Speech \ done) \cup {Cardinality(Ordinals)})

\* render_pass(): render what is missing, note the progress, enter muxing.
RenderPass == /\ record.state = "running"
              /\ audio' = audio \cup Speech
              /\ record' = [state |-> "muxing", cursor |-> CursorAfter(audio'),
                            done |-> Cardinality(audio')]
              /\ UNCHANGED <<budget, monitor, workers>>

\* A chunk of the pass cannot be rendered: render_chunk() raises before any progress
\* is noted, and the chunks before it stay.
RenderFails == /\ record.state = "running"
               /\ \E i \in Speech \ audio : audio' = audio \cup {j \in Speech : j < i}
               /\ UNCHANGED <<budget, monitor, workers, record>>

\* reset(): the slot is freed, and with delete_audio the chunks go too; where rmtree()
\* raises over one of them, some are gone and the record stays.
Reset(deleteAudio) ==
    /\ record.state \notin Active \cup {"none"}
    /\ \/ audio' = (IF deleteAudio THEN {} ELSE audio) /\ record' = Empty
       \/ deleteAudio /\ audio' \in SUBSET audio /\ UNCHANGED record
    /\ UNCHANGED <<budget, monitor, workers>>

\* The engine dies: all that is left is the audio.
Crash == /\ record.state # "none"
         /\ paused' = FALSE /\ streak' = 0 /\ free' = None /\ sampled' = FALSE
         /\ elapsed' = FALSE /\ clear' = ResumeSamples
         /\ held' = 0 /\ running' = {} /\ others' = 0 /\ failed' = {} /\ next' = 0
         /\ ooms' = [i \in Ordinals |-> 0]
         /\ record' = Empty
         /\ UNCHANGED <<budget, audio, trouble>>

-----------------------------------------------------------------------------
Init == /\ budget \in {Budget(c) : c \in {d \in Cards : Peak(d) # None}}
        /\ paused = FALSE
        /\ streak = 0
        /\ free = None
        /\ sampled = FALSE
        /\ elapsed = FALSE
        /\ held = 0
        /\ running = {}
        /\ others = 0
        /\ ooms = [i \in Ordinals |-> 0]
        /\ failed = {}
        /\ next = 0
        /\ audio = {}
        /\ record = Empty
        /\ clear = ResumeSamples
        /\ trouble = 0

Next == \/ Round \/ IntervalPasses
        \/ \E i \in Ordinals : WorkerDone(i) \/ OutOfMemory(i)
        \/ OtherEnds
        \/ Adopt \/ Start \/ Pause \/ Resume \/ Stop
        \/ RenderPass \/ RenderFails
        \/ \E d \in BOOLEAN : Reset(d)
        \/ Crash

\* The loop goes on, the interval passes and every worker ends.
Fairness == /\ WF_vars(Round /\ <<monitor, workers>>' # <<monitor, workers>>)
            /\ WF_vars(IntervalPasses)
            /\ WF_vars(OtherEnds)
            /\ \A i \in Ordinals : WF_vars(WorkerDone(i) \/ OutOfMemory(i))

Spec == Init /\ [][Next]_vars /\ Fairness

-----------------------------------------------------------------------------
TypeOK == /\ paused \in BOOLEAN /\ sampled \in BOOLEAN /\ elapsed \in BOOLEAN
          /\ streak \in 0..(ResumeSamples - 1) /\ clear \in 0..ResumeSamples
          /\ free \in Samples /\ trouble \in 0..MaxTrouble
          /\ others \in 0..Slots /\ running \subseteq Speech /\ audio \subseteq Speech /\ failed \subseteq Speech
          /\ ooms \in [Ordinals -> 0..1] /\ next \in 0..Cardinality(Ordinals)
          /\ record \in [state : JobStates \cup {"none"}, cursor : 0..Cardinality(Ordinals),
                         done : 0..Cardinality(Speech)]

\* After a sample below the reserve no worker starts until ResumeSamples others followed in
\* a row, whatever was sampled, cached or dispatched in between (gpu/monitor.py, _decide and
\* poll).  It does not say that every worker has room: all that start in one round do so on
\* one sample (README, 21).
PauseHolds == [][~(running' \subseteq running) => clear' >= ResumeSamples]_vars

\* The gate counts the workers there are, those of earlier jobs too: none is lost by an error,
\* a retry, a reset or a crash, and together they fit in the memory the budget was computed from, unless it is the one worker
\* every card gets (jobs/admission.py, gpu/budget.py).
WorkersHoldSlots ==
    /\ held = Cardinality(running) + others /\ held <= Slots
    /\ held > 1 => \E c \in Cards : /\ Peak(c) # None /\ Budget(c) = budget
                                    /\ budget.reserve + held * budget.peak <= c.free

\* In a job that is not over no chunk overtakes one that waits: before a chunk with a worker,
\* and before one that was given up, all speech is on disk, has a worker or was given up
\* (jobs/scheduler.py, "a later chunk cannot jump a waiting one"), whatever resets, passes
\* and workers of earlier jobs do to the audio that the walks look at.
NoOvertaking ==
    record.state \in Active => \A i \in running \cup failed, j \in Speech : j < i => j \in audio \cup running \cup failed

\* On a card with room for a worker whose memory can be read, a job that stays running
\* gets all its speech recorded or given up, once the trouble with memory is over: no slot
\* leaks and no pause lasts.
PlanIsFinished ==
    (record.state = "running" /\ budget.total # None /\ ~budget.low)
        ~> (record.state # "running" \/ Speech \subseteq audio \cup failed)
=============================================================================
