-------------------------- MODULE Rendering_proofs --------------------------
(***************************************************************************)
(* Proofs about the two sides of rendering.                                *)
(*                                                                         *)
(* Recording, for every plan, every set of cards and samples: the gate     *)
(* counts the workers, they fit in the memory, no chunk overtakes a        *)
(* waiting one, and no worker starts while a pause lasts.                  *)
(*                                                                         *)
(* Worker, for any number of calls, operations and lines the backend       *)
(* writes by itself: a caller gets the answer to its own request, and,     *)
(* until the client meets a line it cannot parse, the worker has one       *)
(* request at a time.                                                      *)
(***************************************************************************)
EXTENDS Recording, Worker, FiniteSetTheorems, WellFoundedInduction, TLAPS

(***************************************************************************)
(* Recording.                                                              *)
(***************************************************************************)

\* The slots taken are those of workers, and the budget is that of a card.
GateInv == /\ running \subseteq Speech /\ failed \subseteq Speech
           /\ others \in Nat /\ held = Cardinality(running) + others /\ held <= Slots
           /\ \E c \in Cards : Peak(c) # None /\ Budget(c) = budget

\* Everything before the place the loop dispatches from was dispatched, as long as
\* the job is not over, and nothing behind it.
WalkInv == /\ next \in Nat
           /\ \A i \in running \cup failed : i < next
           /\ record.state \in Active =>
                \A j \in Speech : j < next => j \in audio \cup running \cup failed

\* In a pause the monitor counts the clear samples, outside of one it need not.
PauseInv == /\ paused \in BOOLEAN /\ streak \in Nat /\ clear \in Nat
            /\ paused => streak = clear /\ streak < ResumeSamples
            /\ ~paused => clear = ResumeSamples

-----------------------------------------------------------------------------
(* Extremes of sets of numbers. *)

LEMMA MaxIs ==
    ASSUME NEW S \in SUBSET Int, NEW m \in S, \A k \in S : k <= m
    PROVE  Max(S) = m
  <1>1. \A x \in S : (\A k \in S : x >= k) => x = m
    <2>1. ASSUME NEW x \in S, \A k \in S : x >= k
          PROVE  x = m
      <3>1. x >= m /\ x <= m /\ x \in Int /\ m \in Int
        BY <2>1
      <3>. QED
        BY <3>1
    <2>. QED
      BY <2>1
  <1>2. \A k \in S : m >= k
    OBVIOUS
  <1>. QED
    BY <1>1, <1>2 DEF Max

LEMMA MinIs ==
    ASSUME NEW S \in SUBSET Int, NEW m \in S, \A k \in S : m <= k
    PROVE  Min(S) = m
  <1>1. \A x \in S : (\A k \in S : x <= k) => x = m
    <2>1. ASSUME NEW x \in S, \A k \in S : x <= k
          PROVE  x = m
      <3>1. x >= m /\ x <= m /\ x \in Int /\ m \in Int
        BY <2>1
      <3>. QED
        BY <3>1
    <2>. QED
      BY <2>1
  <1>. QED
    BY <1>1 DEF Min

LEMMA MaxOfTwo ==
    ASSUME NEW a \in Int, NEW b \in Int
    PROVE  Max({a, b}) = IF a >= b THEN a ELSE b
  <1>1. CASE a >= b
    BY <1>1, MaxIs
  <1>2. CASE ~(a >= b)
    BY <1>2, MaxIs
  <1>. QED
    BY <1>1, <1>2

LEMMA MinOfThree ==
    ASSUME NEW a \in Int, NEW b \in Int, NEW c \in Int
    PROVE  /\ Min({a, b, c}) \in {a, b, c}
           /\ Min({a, b, c}) <= a
  <1>1. CASE a <= b /\ a <= c
    BY <1>1, MinIs
  <1>2. CASE b <= a /\ b <= c
    BY <1>2, MinIs
  <1>3. CASE c <= a /\ c <= b
    BY <1>3, MinIs
  <1>. QED
    BY <1>1, <1>2, <1>3

LEMMA LeastExists ==
    ASSUME NEW S \in SUBSET Nat, S # {}
    PROVE  \E m \in S : \A k \in S : m <= k
  <1> DEFINE R == OpToRel(<, Nat)
  <1>1. \A x, y \in Nat : <<y, x>> \in R <=> y < x
    BY DEF OpToRel
  <1>2. IsWellFoundedOn(R, Nat)
    BY NatLessThanWellFounded
  <1>. HIDE DEF R
  <1>3. PICK x \in S : \A y \in S : <<y, x>> \notin R
    BY <1>2, WFMin
  <1>4. ASSUME NEW k \in S
        PROVE  x <= k
    <2>1. k \in Nat /\ x \in Nat
      OBVIOUS
    <2>2. ~(k < x)
      BY <1>1, <1>3, <2>1
    <2>. QED
      BY <2>1, <2>2
  <1>. QED
    BY <1>4

LEMMA LargestExists ==
    ASSUME NEW n \in Nat, NEW S \in SUBSET (0..n), S # {}
    PROVE  Max(S) \in S /\ \A k \in S : k <= Max(S)
  <1> DEFINE T == {m \in Nat : n - m \in S}
  <1>1. T \in SUBSET Nat /\ T # {}
    <2>1. PICK s \in S : TRUE
      OBVIOUS
    <2>2. n - s \in Nat /\ n - (n - s) = s
      OBVIOUS
    <2>3. n - s \in T
      BY <2>2
    <2>. QED
      BY <2>3
  <1>2. PICK m \in T : \A k \in T : m <= k
    <2>. HIDE DEF T
    <2>. QED
      BY <1>1, LeastExists
  <1>3. n - m \in S
    BY <1>2
  <1>4. ASSUME NEW k \in S
        PROVE  k <= n - m
    <2>1. n - k \in T
      OBVIOUS
    <2>. QED
      BY <1>2, <2>1
  <1>5. Max(S) = n - m
    BY <1>3, <1>4, MaxIs
  <1>. QED
    BY <1>3, <1>4, <1>5

-----------------------------------------------------------------------------
(* The budget of a card. *)

LEMMA CardTypes ==
    ASSUME NEW c \in Cards
    PROVE  /\ c.total \in Int /\ c.free \in Int /\ c.override \in Int /\ c.measured \in Int
           /\ c.reserve \in Int /\ c.cap \in Int /\ c.parallel \in Int /\ c.cpu \in BOOLEAN
  BY RecordingAssumption

LEMMA SeededPositive ==
    ASSUME NEW c, Seeded(c) # None
    PROVE  Seeded(c) \in Nat \ {0}
  <1>1. CASE c.backend = "fake"
    BY <1>1 DEF Seeded
  <1>2. CASE c.backend # "fake" /\ c.backend = "qwen3_tts" /\ c.model = "1.7b" /\ c.precision = "fp16"
    BY <1>2 DEF Seeded
  <1>3. CASE /\ c.backend # "fake"
             /\ ~(c.backend = "qwen3_tts" /\ c.model = "1.7b" /\ c.precision = "fp16")
    <2>1. Seeded(c) = IF c.backend \in DOMAIN SeedPeak /\ c.precision \in DOMAIN SeedPeak[c.backend]
                      THEN SeedPeak[c.backend][c.precision] ELSE None
      BY <1>3 DEF Seeded
    <2>2. c.backend \in DOMAIN SeedPeak /\ c.precision \in DOMAIN SeedPeak[c.backend]
      BY <2>1
    <2>3. c.backend \in {"omnivoice", "chatterbox", "qwen3_tts"}
      BY <2>2 DEF SeedPeak
    <2>4. CASE c.backend = "omnivoice"
      BY <2>1, <2>2, <2>4 DEF SeedPeak
    <2>5. CASE c.backend = "chatterbox"
      BY <2>1, <2>2, <2>5 DEF SeedPeak
    <2>6. CASE c.backend = "qwen3_tts"
      BY <2>1, <2>2, <2>6 DEF SeedPeak
    <2>. QED
      BY <2>3, <2>4, <2>5, <2>6
  <1>. QED
    BY <1>1, <1>2, <1>3

\* _peak() refuses 0 and less.
LEMMA PeakPositive ==
    ASSUME NEW c \in Cards, Peak(c) # None
    PROVE  Peak(c) \in Nat \ {0}
  <1>1. CASE c.override = None /\ c.measured = None
    BY <1>1, SeededPositive DEF Peak
  <1>2. CASE c.override # None
    BY <1>2, CardTypes DEF Peak, None
  <1>3. CASE c.override = None /\ c.measured # None
    BY <1>3, CardTypes DEF Peak, None
  <1>. QED
    BY <1>1, <1>2, <1>3

LEMMA DivisionFits ==
    ASSUME NEW h \in Nat, NEW p \in Nat \ {0}, NEW n \in Nat, n <= h \div p
    PROVE  h \div p \in Nat /\ n * p <= h
  <1>1. h \div p \in Nat /\ p * (h \div p) <= h
    OBVIOUS
  <1>2. \A q \in Nat : n <= q => n * p <= p * q
    OBVIOUS
  <1>3. n * p \in Nat /\ p * (h \div p) \in Nat
    BY <1>1
  <1>. QED
    BY <1>1, <1>2, <1>3

\* compute_budget(): one worker at least, and more only as far as they fit.
LEMMA BudgetFits ==
    ASSUME NEW c \in Cards, Peak(c) # None
    PROVE  /\ Budget(c).workers \in Int
           /\ \A n \in Nat : n > 1 /\ n <= Budget(c).workers
                                => Budget(c).reserve + n * Budget(c).peak <= c.free
  <1> DEFINE reserve == Reserve(c)
             headroom == c.free - reserve
             fits == IF headroom > 0 THEN headroom \div Peak(c) ELSE 0
             many == Min({Max({1, fits}), Max({1, c.cap}), Max({1, c.parallel})})
  <1>1. CASE c.cpu \/ None \in {c.total, c.free}
    <2>1. Budget(c).workers = 1
      BY <1>1 DEF Budget
    <2>. QED
      BY <2>1
  <1>2. CASE ~(c.cpu \/ None \in {c.total, c.free})
    <2>1. Budget(c) = [total |-> c.total, peak |-> Peak(c), reserve |-> reserve,
                       workers |-> many, low |-> headroom < Peak(c)]
      BY <1>2 DEF Budget
    <2>2. Peak(c) \in Nat \ {0}
      BY PeakPositive
    <2>3. reserve \in Int
      <3>1. Max({0, c.reserve}) \in Int
        BY CardTypes, MaxOfTwo
      <3>2. (c.total * 20 + 99) \div 100 \in Int
        BY CardTypes
      <3>3. Max({(c.total * 20 + 99) \div 100, 1536}) \in Int
        BY <3>2, MaxOfTwo
      <3>. QED
        BY <3>1, <3>3 DEF Reserve
    <2>4. headroom \in Int
      BY <2>3, CardTypes
    <2>5. fits \in Nat
      BY <2>2, <2>4, DivisionFits
    <2>. HIDE DEF headroom, fits, reserve
    <2>6. /\ Max({1, fits}) = IF 1 >= fits THEN 1 ELSE fits
          /\ Max({1, c.cap}) \in Int /\ Max({1, c.parallel}) \in Int
      BY <2>5, CardTypes, MaxOfTwo
    <2>7. many \in Int /\ many <= Max({1, fits})
      <3>1. Max({1, fits}) \in Int /\ Max({1, c.cap}) \in Int /\ Max({1, c.parallel}) \in Int
        BY <2>5, <2>6
      <3>2. \A x, y, z \in Int : Min({x, y, z}) \in Int /\ Min({x, y, z}) <= x
        BY MinOfThree
      <3>. QED
        BY <3>1, <3>2
    <2>. HIDE DEF many
    <2>8. ASSUME NEW n \in Nat, n > 1, n <= many
          PROVE  reserve + n * Peak(c) <= c.free
      <3>1. n <= fits /\ fits # 0
        BY <2>5, <2>6, <2>7, <2>8
      <3>2. headroom > 0 /\ fits = headroom \div Peak(c)
        BY <3>1 DEF fits
      <3>3. n * Peak(c) <= headroom
        BY <2>2, <2>4, <3>1, <3>2, DivisionFits
      <3>4. n * Peak(c) \in Int
        BY <2>2
      <3>. QED
        BY <2>3, <3>3, <3>4, CardTypes DEF headroom
    <2>. QED
      BY <2>1, <2>7, <2>8
  <1>. QED
    BY <1>1, <1>2

LEMMA SlotsType ==
    ASSUME NEW c \in Cards, Peak(c) # None, Budget(c) = budget
    PROVE  /\ Slots \in Nat \ {0}
           /\ Slots > 1 => Slots = budget.workers
  BY BudgetFits, MaxOfTwo DEF Slots

-----------------------------------------------------------------------------
(* The monitor. *)

LEMMA PauseInit == Init => PauseInv
  <1> SUFFICES ASSUME Init
               PROVE  PauseInv
    OBVIOUS
  <1>1. paused = FALSE /\ streak = 0 /\ clear = ResumeSamples
    BY DEF Init
  <1>. QED
    BY <1>1, RecordingAssumption DEF PauseInv

LEMMA ClearBounds ==
    ASSUME NEW n \in Nat
    PROVE  Min({n + 1, ResumeSamples}) = IF n + 1 <= ResumeSamples THEN n + 1 ELSE ResumeSamples
  <1>1. ResumeSamples \in Nat
    BY RecordingAssumption
  <1>2. CASE n + 1 <= ResumeSamples
    BY <1>1, <1>2, MinIs
  <1>3. CASE ~(n + 1 <= ResumeSamples)
    BY <1>1, <1>3, MinIs
  <1>. QED
    BY <1>2, <1>3

LEMMA SamplePauses ==
    ASSUME PauseInv, NEW mib, Sample(mib)
    PROVE  PauseInv'
  <1>1. /\ ResumeSamples \in Nat \ {0}
        /\ Decide(mib)
        /\ clear' = IF Below(mib) THEN 0
                    ELSE IF clear + 1 <= ResumeSamples THEN clear + 1 ELSE ResumeSamples
    BY RecordingAssumption, ClearBounds DEF Sample, PauseInv
  <1>2. CASE Below(mib)
    <2>1. paused' = TRUE /\ streak' = 0 /\ clear' = 0
      BY <1>1, <1>2 DEF Decide
    <2>. QED
      BY <1>1, <2>1 DEF PauseInv
  <1>3. CASE ~Below(mib) /\ paused
    <2>1. streak = clear /\ streak \in Nat /\ streak < ResumeSamples
      BY <1>3 DEF PauseInv
    <2>2. CASE streak + 1 >= ResumeSamples
      <3>1. paused' = FALSE /\ streak' = 0
        BY <1>1, <1>3, <2>2 DEF Decide
      <3>2. clear' = ResumeSamples
        BY <1>1, <1>3, <2>1, <2>2
      <3>. QED
        BY <1>1, <3>1, <3>2 DEF PauseInv
    <2>3. CASE ~(streak + 1 >= ResumeSamples)
      <3>1. paused' = TRUE /\ streak' = streak + 1
        BY <1>1, <1>3, <2>3 DEF Decide
      <3>. QED
        BY <1>1, <1>3, <2>1, <2>3, <3>1 DEF PauseInv
    <2>. QED
      BY <2>2, <2>3
  <1>4. CASE ~Below(mib) /\ ~paused
    BY <1>1, <1>4 DEF Decide, PauseInv
  <1>. QED
    BY <1>2, <1>3, <1>4 DEF PauseInv

LEMMA PollPauses ==
    ASSUME PauseInv, Poll
    PROVE  PauseInv'
  <1>1. CASE \E mib \in {m \in Samples : m <= budget.total} : Sample(mib)
    BY <1>1, SamplePauses
  <1>2. CASE UNCHANGED monitor
    BY <1>2 DEF monitor, PauseInv
  <1>. QED
    BY <1>1, <1>2 DEF Poll

LEMMA PauseStep == PauseInv /\ [Next]_vars => PauseInv'
  <1> SUFFICES ASSUME PauseInv, [Next]_vars
               PROVE  PauseInv'
    OBVIOUS
  <1>1. CASE Round
    BY <1>1, PollPauses DEF Round
  <1>2. CASE IntervalPasses
    BY <1>2 DEF IntervalPasses, PauseInv
  <1>3. ASSUME NEW i \in Ordinals, WorkerDone(i) \/ OutOfMemory(i)
        PROVE  PauseInv'
    BY <1>3 DEF WorkerDone, OutOfMemory, monitor, PauseInv
  <1>4. CASE Adopt \/ Start \/ Pause \/ Resume \/ Stop
    BY <1>4 DEF Adopt, Start, Pause, Resume, Stop, Event, monitor, PauseInv
  <1>9. CASE OtherEnds
    BY <1>9 DEF OtherEnds, monitor, PauseInv
  <1>5. CASE RenderPass \/ RenderFails
    BY <1>5 DEF RenderPass, RenderFails, monitor, PauseInv
  <1>6. ASSUME NEW d \in BOOLEAN, Reset(d)
        PROVE  PauseInv'
    BY <1>6 DEF Reset, monitor, PauseInv
  <1>7. CASE Crash
    BY <1>7, RecordingAssumption DEF Crash, PauseInv
  <1>8. CASE UNCHANGED vars
    BY <1>8 DEF vars, PauseInv
  <1>. QED
    BY <1>1, <1>2, <1>3, <1>4, <1>5, <1>6, <1>7, <1>8, <1>9 DEF Next

-----------------------------------------------------------------------------
(* The walk over the plan. *)

LEMMA PlanIsFinite ==
    /\ IsFiniteSet(Ordinals) /\ Cardinality(Ordinals) \in Nat
    /\ Ordinals = 0..(Cardinality(Ordinals) - 1)
  BY RecordingAssumption, FS_CardinalityType DEF Ordinals

LEMMA NeedingIsFinite ==
    /\ Needing \subseteq Speech /\ Speech \subseteq Ordinals /\ Ordinals \subseteq Nat
    /\ \A S : S \subseteq Ordinals => IsFiniteSet(S) /\ Cardinality(S) \in Nat
  <1>1. Needing \subseteq Speech /\ Speech \subseteq Ordinals
    BY DEF Needing, Speech
  <1>2. Ordinals \subseteq Nat
    BY PlanIsFinite
  <1>3. ASSUME NEW S, S \subseteq Ordinals
        PROVE  IsFiniteSet(S) /\ Cardinality(S) \in Nat
    BY <1>3, PlanIsFinite, FS_Subset, FS_CardinalityType
  <1>. QED
    BY <1>1, <1>2, <1>3

\* The walk takes all that comes before what it takes.
LEMMA WalkIsPrefix ==
    ASSUME NEW n \in Nat, NEW i \in Walked(n), NEW j \in Needing, j <= i
    PROVE  j \in Walked(n)
  <1> DEFINE upto(k) == {m \in Needing : m <= k}
  <1>1. i \in Nat /\ j \in Nat /\ Needing \subseteq Nat
    BY NeedingIsFinite DEF Walked
  <1>2. upto(j) \subseteq upto(i) /\ upto(i) \subseteq Ordinals
    <2>1. upto(i) \subseteq Needing /\ Needing \subseteq Ordinals
      BY NeedingIsFinite
    <2>2. ASSUME NEW m \in upto(j)
          PROVE  m \in upto(i)
      BY <1>1
    <2>. QED
      BY <2>1, <2>2
  <1>3. /\ IsFiniteSet(upto(i)) /\ Cardinality(upto(i)) \in Nat
        /\ Cardinality(upto(j)) \in Nat
    BY <1>2, NeedingIsFinite
  <1>4. Cardinality(upto(j)) <= Cardinality(upto(i))
    BY <1>2, <1>3, FS_Subset
  <1>5. Cardinality(upto(i)) <= n
    BY DEF Walked
  <1>6. j \in Ordinals /\ j >= next
    BY NeedingIsFinite DEF Needing
  <1>. HIDE DEF upto
  <1>7. Cardinality(upto(j)) <= n
    BY <1>3, <1>4, <1>5
  <1>. QED
    BY <1>6, <1>7 DEF Walked, upto

\* The walk takes no more speech than there are vacant slots.
LEMMA WalkFits ==
    ASSUME NEW n \in Nat
    PROVE  /\ Cardinality(Walked(n) \cap Needing) \in Nat
           /\ Cardinality(Walked(n) \cap Needing) <= n
  <1> DEFINE S == Walked(n) \cap Needing
  <1>1. S \subseteq Ordinals /\ IsFiniteSet(S) /\ Cardinality(S) \in Nat
    BY NeedingIsFinite DEF Walked
  <1>2. CASE S = {}
    BY <1>2, FS_EmptySet
  <1>3. CASE S # {}
    <2>1. /\ Cardinality(Ordinals) - 1 \in Nat
          /\ S \in SUBSET (0..(Cardinality(Ordinals) - 1))
      BY <1>1, <1>3, PlanIsFinite
    <2>2. Max(S) \in S /\ \A k \in S : k <= Max(S)
      <3>. HIDE DEF S
      <3>. QED
        BY <1>3, <2>1, LargestExists
    <2>3. PICK m \in S : \A k \in S : k <= m
      BY <2>2
    <2> DEFINE upto == {j \in Needing : j <= m}
    <2>4. S \subseteq upto
      BY <2>3
    <2>5. IsFiniteSet(upto) /\ Cardinality(upto) \in Nat
      BY NeedingIsFinite
    <2>6. Cardinality(S) <= Cardinality(upto)
      BY <2>4, <2>5, FS_Subset
    <2>7. Cardinality(upto) <= n
      BY <2>3 DEF Walked
    <2>8. \A a, b \in Nat : a <= b /\ b <= n => a <= n
      OBVIOUS
    <2>. QED
      BY <1>1, <2>5, <2>6, <2>7, <2>8
  <1>. QED
    BY <1>1, <1>2, <1>3

-----------------------------------------------------------------------------
(* The gate. *)

LEMMA GateInit == Init => GateInv /\ WalkInv
  <1> SUFFICES ASSUME Init
               PROVE  GateInv /\ WalkInv
    OBVIOUS
  <1>1. /\ held = 0 /\ running = {} /\ others = 0 /\ failed = {} /\ next = 0
        /\ budget \in {Budget(c) : c \in {d \in Cards : Peak(d) # None}}
    BY DEF Init
  <1>2. PICK c \in Cards : Peak(c) # None /\ Budget(c) = budget
    BY <1>1
  <1>3. Slots \in Nat \ {0}
    BY <1>2, SlotsType
  <1>4. held = Cardinality(running) + others /\ held <= Slots
    BY <1>1, <1>3, FS_EmptySet
  <1>5. \A j \in Speech : ~(j < 0)
    BY NeedingIsFinite
  <1>. QED
    BY <1>1, <1>2, <1>4, <1>5 DEF GateInv, WalkInv

\* What a step that leaves the workers alone keeps.
LEMMA WorkersUnchanged ==
    ASSUME GateInv, WalkInv, UNCHANGED <<budget, held, running, others, failed, next>>,
           record'.state \in Active => record.state \in Active /\ audio \subseteq audio'
    PROVE  GateInv' /\ WalkInv'
  BY DEF GateInv, WalkInv, Slots

LEMMA RoundStep ==
    ASSUME GateInv, WalkInv, Round
    PROVE  GateInv' /\ WalkInv'
  <1>1. PICK c \in Cards : Peak(c) # None /\ Budget(c) = budget
    BY DEF GateInv
  <1>2. /\ Slots \in Nat \ {0} /\ held \in Nat /\ held <= Slots
        /\ others \in Nat /\ Cardinality(running) \in Nat /\ held = Cardinality(running) + others
    <2>1. running \subseteq Ordinals
      BY NeedingIsFinite DEF GateInv
    <2>2. Cardinality(running) \in Nat
      BY <2>1, NeedingIsFinite
    <2>3. others \in Nat /\ held = Cardinality(running) + others /\ held <= Slots
      BY DEF GateInv
    <2>4. held \in Nat
      BY <2>2, <2>3
    <2>. QED
      BY <1>1, <2>2, <2>3, <2>4, SlotsType
  <1>3. \E n \in Nat : n = Vacant /\ held + n <= Slots
    <2>1. CASE Admits
      BY <1>2, <2>1 DEF Vacant
    <2>2. CASE ~Admits
      BY <1>2, <2>2 DEF Vacant
    <2>. QED
      BY <2>1, <2>2
  <1>4. PICK n \in Nat : n = Vacant /\ held + n <= Slots
    BY <1>3
  <1> DEFINE taken == Walked(n)
             synth == taken \cap Needing
  <1>5. /\ held' = held + Cardinality(synth)
        /\ running' = running \cup synth
        /\ next' = Max({next} \cup {i + 1 : i \in taken})
        /\ budget' = budget /\ others' = others /\ failed' = failed /\ audio' = audio
        /\ record.state \in Active
    BY <1>4 DEF Round, Active
  <1>6. GateInv'
    <2>1. Cardinality(synth) \in Nat /\ Cardinality(synth) <= n
      BY WalkFits
    <2>2. synth \subseteq Speech /\ synth \cap running = {}
      <3>1. synth \subseteq Speech /\ running \subseteq Nat /\ next \in Nat
        BY NeedingIsFinite DEF GateInv, WalkInv
      <3>2. ASSUME NEW i \in synth
            PROVE  i \notin running
        <4>1. i >= next
          BY DEF Needing
        <4>2. i \in running => i < next /\ i \in Nat
          BY <3>1 DEF WalkInv
        <4>. QED
          BY <3>1, <4>1, <4>2
      <3>. QED
        BY <3>1, <3>2
    <2>3. Cardinality(running \cup synth) = Cardinality(running) + Cardinality(synth)
      <3>1. IsFiniteSet(running) /\ IsFiniteSet(synth)
        BY <2>2, NeedingIsFinite DEF GateInv
      <3>2. running \cap synth = {}
        BY <2>2
      <3>. HIDE DEF synth
      <3>3. Cardinality(running \cup synth)
              = Cardinality(running) + Cardinality(synth) - Cardinality({})
        BY <3>1, <3>2, FS_Union
      <3>4. Cardinality({}) = 0
        BY FS_EmptySet
      <3>. QED
        BY <1>2, <2>1, <3>3, <3>4
    <2>. HIDE DEF synth
    <2>4. held' = Cardinality(running') + others' /\ held' <= Slots
      BY <1>2, <1>4, <1>5, <2>1, <2>3
    <2>5. Slots' = Slots
      BY <1>5 DEF Slots
    <2>. QED
      BY <1>1, <1>2, <1>5, <2>2, <2>4, <2>5 DEF GateInv
  <1>7. WalkInv'
    <2> DEFINE T == {next} \cup {i + 1 : i \in taken}
    <2>1. next \in Nat /\ taken \subseteq Ordinals /\ Ordinals \subseteq Nat
      BY NeedingIsFinite DEF Walked, WalkInv
    <2>2. next' \in T /\ \A t \in T : t <= next'
      <3>1. PICK k \in Nat : k = Cardinality(Ordinals) /\ Ordinals = 0..(k - 1)
        BY PlanIsFinite
      <3>2. next + k \in Nat /\ T \in SUBSET (0..(next + k))
        <4>1. next \in 0..(next + k)
          BY <2>1
        <4>2. ASSUME NEW i \in taken
              PROVE  i + 1 \in 0..(next + k)
          <5>1. i \in 0..(k - 1)
            BY <2>1, <3>1
          <5>. QED
            BY <2>1, <5>1
        <4>. QED
          BY <2>1, <4>1, <4>2
      <3>3. T # {}
        OBVIOUS
      <3>. HIDE DEF T
      <3>4. Max(T) \in T /\ \A t \in T : t <= Max(T)
        BY <3>2, <3>3, LargestExists
      <3>. QED
        BY <1>5, <3>4 DEF T
    <2>3. next' \in Nat
      BY <2>1, <2>2
    <2>4. ASSUME NEW i \in running' \cup failed'
          PROVE  i < next'
      <3>1. CASE i \in running \cup failed
        <4>1. i < next /\ next <= next' /\ i \in Nat
          BY <2>2, <3>1, NeedingIsFinite DEF WalkInv, GateInv
        <4>. QED
          BY <2>1, <2>3, <4>1
      <3>2. CASE i \in synth
        <4>1. i \in Nat /\ i + 1 \in T
          BY <2>1, <3>2
        <4>2. i + 1 <= next'
          BY <2>2, <4>1
        <4>. QED
          BY <2>3, <4>1, <4>2
      <3>. QED
        BY <1>5, <2>4, <3>1, <3>2
    <2>5. ASSUME NEW j \in Speech, j < next'
          PROVE  j \in audio' \cup running' \cup failed'
      <3>1. CASE j < next \/ j \in audio
        BY <1>5, <3>1 DEF WalkInv
      <3>2. CASE ~(j < next) /\ j \notin audio
        <4>1. j \in Needing /\ j \in Nat
          BY <2>1, <3>2, NeedingIsFinite DEF Needing
        <4>2. next' # next
          BY <2>1, <2>5, <3>2
        <4>3. PICK i \in taken : next' = i + 1
          BY <2>2, <4>2
        <4>4. i \in Nat /\ j <= i
          <5>1. i \in Nat
            BY <2>1
          <5>2. j < i + 1
            BY <2>5, <4>3
          <5>. QED
            BY <4>1, <5>1, <5>2
        <4>5. j \in taken
          BY <4>1, <4>4, WalkIsPrefix
        <4>. QED
          BY <1>5, <4>1, <4>5
      <3>. QED
        BY <3>1, <3>2
    <2>6. Speech' = Speech
      BY DEF Speech, Ordinals
    <2>. HIDE DEF T, taken, synth
    <2>. QED
      BY <2>3, <2>4, <2>5, <2>6 DEF WalkInv
  <1>. QED
    BY <1>6, <1>7

\* A worker that ends gives its slot back, whether its chunk is done or given up.
LEMMA WorkerEnds ==
    ASSUME GateInv, NEW i \in running
    PROVE  /\ Release \in Nat /\ Release <= Slots
           /\ Release = Cardinality(running \ {i}) + others
  <1>1. PICK c \in Cards : Peak(c) # None /\ Budget(c) = budget
    BY DEF GateInv
  <1>2. /\ Slots \in Nat /\ held \in Nat /\ held <= Slots
        /\ others \in Nat /\ Cardinality(running) \in Nat /\ held = Cardinality(running) + others
    <2>1. running \subseteq Ordinals
      BY NeedingIsFinite DEF GateInv
    <2>2. Cardinality(running) \in Nat
      BY <2>1, NeedingIsFinite
    <2>3. others \in Nat /\ held = Cardinality(running) + others /\ held <= Slots
      BY DEF GateInv
    <2>4. held \in Nat
      BY <2>2, <2>3
    <2>. QED
      BY <1>1, <2>2, <2>3, <2>4, SlotsType
  <1>3. IsFiniteSet(running)
    BY NeedingIsFinite DEF GateInv
  <1>4. Cardinality(running \ {i}) = Cardinality(running) - 1
    BY <1>3, FS_RemoveElement
  <1>5. held # 0
    BY <1>2, <1>3, FS_EmptySet
  <1>. QED
    BY <1>2, <1>4, <1>5 DEF Release

LEMMA WorkerDoneStep ==
    ASSUME GateInv, WalkInv, NEW i \in Ordinals, WorkerDone(i)
    PROVE  GateInv' /\ WalkInv'
  <1>1. /\ i \in running /\ running' = running \ {i} /\ held' = Release
        /\ audio' = audio \cup {i}
        /\ UNCHANGED <<budget, others, failed, next, record>>
    BY DEF WorkerDone
  <1>2. held' = Cardinality(running') + others' /\ held' <= Slots
    BY <1>1, WorkerEnds
  <1>3. GateInv'
    BY <1>1, <1>2 DEF GateInv, Slots
  <1>4. WalkInv'
    BY <1>1 DEF WalkInv
  <1>. QED
    BY <1>3, <1>4

LEMMA OutOfMemoryStep ==
    ASSUME GateInv, WalkInv, NEW i \in Ordinals, OutOfMemory(i)
    PROVE  GateInv' /\ WalkInv'
  <1>1. i \in running /\ UNCHANGED <<budget, others, next, audio, record>>
    BY DEF OutOfMemory
  <1>2. CASE UNCHANGED <<running, failed, held>>
    BY <1>1, <1>2, WorkersUnchanged
  <1>3. CASE running' = running \ {i} /\ failed' = failed \cup {i} /\ held' = Release
    <2>1. held' = Cardinality(running') + others' /\ held' <= Slots
      BY <1>1, <1>3, WorkerEnds
    <2>2. GateInv'
      BY <1>1, <1>3, <2>1 DEF GateInv, Slots
    <2>3. WalkInv'
      BY <1>1, <1>3 DEF WalkInv
    <2>. QED
      BY <2>2, <2>3
  <1>. QED
    BY <1>2, <1>3 DEF OutOfMemory

\* A worker of an earlier job gives its slot back too.
LEMMA OtherEndsStep ==
    ASSUME GateInv, WalkInv, OtherEnds
    PROVE  GateInv' /\ WalkInv'
  <1>1. /\ others > 0 /\ others' = others - 1 /\ held' = Release /\ audio \subseteq audio'
        /\ UNCHANGED <<budget, running, failed, next, record>>
    BY DEF OtherEnds
  <1>2. PICK c \in Cards : Peak(c) # None /\ Budget(c) = budget
    BY DEF GateInv
  <1>3. /\ Slots \in Nat /\ held <= Slots
        /\ others \in Nat /\ Cardinality(running) \in Nat /\ held = Cardinality(running) + others
    BY <1>2, SlotsType, NeedingIsFinite DEF GateInv
  <1>4. /\ others' \in Nat /\ held' = Cardinality(running) + others' /\ held' <= Slots
    BY <1>1, <1>3 DEF Release
  <1>5. GateInv'
    BY <1>1, <1>4 DEF GateInv, Slots
  <1>6. WalkInv'
    BY <1>1 DEF WalkInv
  <1>. QED
    BY <1>5, <1>6

\* The workers of the job before keep their slots, and the walk begins again.
LEMMA AdoptStep ==
    ASSUME GateInv, WalkInv, Adopt
    PROVE  GateInv' /\ WalkInv'
  <1>1. /\ others' = others + Cardinality(running)
        /\ running' = {} /\ failed' = {} /\ next' = 0
        /\ UNCHANGED <<budget, held>>
    BY DEF Adopt
  <1>2. /\ others \in Nat /\ Cardinality(running) \in Nat /\ Cardinality({}) = 0
        /\ held = Cardinality(running) + others /\ held <= Slots
    BY NeedingIsFinite, FS_EmptySet DEF GateInv
  <1>3. others' \in Nat /\ held' = Cardinality(running') + others'
    BY <1>1, <1>2
  <1>4. GateInv'
    BY <1>1, <1>2, <1>3 DEF GateInv, Slots
  <1>5. \A j \in Speech : ~(j < 0)
    BY NeedingIsFinite
  <1>6. WalkInv'
    BY <1>1, <1>5 DEF WalkInv
  <1>. QED
    BY <1>4, <1>6

\* An event has an edge only from a state that is not the end of a job.
LEMMA EventsOfActive ==
    ASSUME Start \/ Pause \/ Resume \/ Stop
    PROVE  /\ record.state \in Active
           /\ UNCHANGED <<budget, held, running, others, failed, next, audio>>
  <1>1. \E e \in TransitionsOf("record") : e[1] = record.state
    BY DEF Start, Pause, Resume, Stop, Event
  <1>2. \A e \in TransitionsOf("record") : e[1] \in Active
    BY DEF TransitionsOf, Edges, Active
  <1>3. UNCHANGED <<workers, budget, audio>>
    BY DEF Start, Pause, Resume, Stop, Event
  <1>. QED
    BY <1>1, <1>2, <1>3 DEF workers

\* A reset leaves no live record, whether it deletes all the audio or some.
LEMMA ResetStep ==
    ASSUME GateInv, WalkInv, NEW d \in BOOLEAN, Reset(d)
    PROVE  GateInv' /\ WalkInv'
  <1>1. record'.state \notin Active
    BY DEF Reset, Empty, Active
  <1>2. UNCHANGED <<budget, held, running, others, failed, next>>
    BY DEF Reset, workers
  <1>. QED
    BY <1>1, <1>2, WorkersUnchanged

LEMMA CrashStep ==
    ASSUME GateInv, WalkInv, Crash
    PROVE  GateInv' /\ WalkInv'
  <1>1. /\ held' = 0 /\ running' = {} /\ others' = 0 /\ failed' = {} /\ next' = 0
        /\ budget' = budget
    BY DEF Crash
  <1>2. PICK c \in Cards : Peak(c) # None /\ Budget(c) = budget
    BY DEF GateInv
  <1>3. Slots \in Nat
    BY <1>2, SlotsType
  <1>4. held' = Cardinality(running') + others' /\ held' <= Slots
    BY <1>1, <1>3, FS_EmptySet
  <1>5. GateInv'
    BY <1>1, <1>2, <1>4 DEF GateInv, Slots
  <1>6. \A j \in Speech : ~(j < 0)
    BY NeedingIsFinite
  <1>7. WalkInv'
    BY <1>1, <1>6 DEF WalkInv
  <1>. QED
    BY <1>5, <1>7

LEMMA GateStep == GateInv /\ WalkInv /\ [Next]_vars => GateInv' /\ WalkInv'
  <1> SUFFICES ASSUME GateInv, WalkInv, [Next]_vars
               PROVE  GateInv' /\ WalkInv'
    OBVIOUS
  <1>1. CASE IntervalPasses
    BY <1>1, WorkersUnchanged DEF IntervalPasses, workers
  <1>2. CASE Start \/ Pause \/ Resume \/ Stop
    BY <1>2, WorkersUnchanged, EventsOfActive
  <1>3. CASE RenderPass
    BY <1>3, WorkersUnchanged DEF RenderPass, workers, Active
  <1>4. CASE RenderFails
    BY <1>4, WorkersUnchanged DEF RenderFails, workers
  <1>5. CASE UNCHANGED vars
    BY <1>5, WorkersUnchanged DEF vars
  <1>6. CASE \E i \in Ordinals : WorkerDone(i) \/ OutOfMemory(i)
    BY <1>6, WorkerDoneStep, OutOfMemoryStep
  <1>7. CASE \E d \in BOOLEAN : Reset(d)
    BY <1>7, ResetStep
  <1>. QED
    BY <1>1, <1>2, <1>3, <1>4, <1>5, <1>6, <1>7, RoundStep, CrashStep, AdoptStep, OtherEndsStep
    DEF Next

-----------------------------------------------------------------------------
(* The theorems. *)

LEMMA GateFits == GateInv => WorkersHoldSlots
  <1> SUFFICES ASSUME GateInv
               PROVE  WorkersHoldSlots
    OBVIOUS
  <1>1. PICK c \in Cards : Peak(c) # None /\ Budget(c) = budget
    BY DEF GateInv
  <1>2. held \in Nat /\ held = Cardinality(running) + others /\ held <= Slots
    <2>1. running \subseteq Ordinals
      BY NeedingIsFinite DEF GateInv
    <2>2. Cardinality(running) \in Nat
      BY <2>1, NeedingIsFinite
    <2>. QED
      BY <2>2 DEF GateInv
  <1>3. ASSUME held > 1
        PROVE  budget.reserve + held * budget.peak <= c.free
    <2>1. Slots \in Nat /\ (Slots > 1 => Slots = budget.workers)
      BY <1>1, SlotsType
    <2>2. held <= budget.workers
      BY <1>2, <1>3, <2>1
    <2>. QED
      BY <1>1, <1>2, <1>3, <2>2, BudgetFits
  <1>. QED
    BY <1>1, <1>2, <1>3 DEF WorkersHoldSlots

\* The slots taken are those of the workers there are, of this job and of earlier
\* ones, and together the workers fit in the memory the budget was computed from (AdmissionGate, compute_budget).
THEOREM SlotsAreHeld == Spec => []WorkersHoldSlots
  BY GateInit, GateStep, GateFits, PTL DEF Spec

LEMMA WalkOrders == GateInv /\ WalkInv => NoOvertaking
  <1> SUFFICES ASSUME GateInv, WalkInv, record.state \in Active,
                      NEW i \in running \cup failed, NEW j \in Speech, j < i
               PROVE  j \in audio \cup running \cup failed
    BY DEF NoOvertaking
  <1>1. i < next /\ next \in Nat
    BY DEF WalkInv
  <1>2. i \in Nat /\ j \in Nat
    BY NeedingIsFinite DEF GateInv
  <1>3. j < next
    BY <1>1, <1>2
  <1>. QED
    BY <1>3 DEF WalkInv

\* In a job that is not over no chunk overtakes one that waits for a worker (dispatch()),
\* whatever resets and workers of earlier jobs do to the audio (JobManager.reset).
THEOREM WaitingKeepsTheOrder == Spec => []NoOvertaking
  BY GateInit, GateStep, WalkOrders, PTL DEF Spec

LEMMA AdmissionStep ==
    ASSUME PauseInv, PauseInv', GateInv, Next
    PROVE  ~(running' \subseteq running) => clear' >= ResumeSamples
  <1> SUFFICES ASSUME ~(running' \subseteq running)
               PROVE  clear' >= ResumeSamples
    OBVIOUS
  <1>1. Round
    BY DEF Next, IntervalPasses, WorkerDone, OutOfMemory, OtherEnds, Adopt, Start, Pause, Resume, Stop, Event,
       RenderPass, RenderFails, Reset, Crash, workers
  <1>2. running' = running \cup (Walked(Vacant) \cap Needing)
    BY <1>1 DEF Round
  <1>3. Admits
    <2>1. SUFFICES ASSUME ~Admits
                   PROVE  FALSE
      OBVIOUS
    <2>2. Vacant = 0
      BY <2>1 DEF Vacant
    <2>3. Cardinality(Walked(0) \cap Needing) = 0
      BY WalkFits
    <2>4. Walked(0) \cap Needing = {}
      <3>1. IsFiniteSet(Walked(0) \cap Needing)
        BY NeedingIsFinite DEF Walked
      <3>. QED
        BY <2>3, <3>1, FS_EmptySet
    <2>. QED
      BY <1>2, <2>2, <2>4
  <1>4. clear' = ResumeSamples
    BY <1>3 DEF Admits, PauseInv
  <1>. QED
    BY <1>4, RecordingAssumption

LEMMA AdmissionRule ==
    PauseInv /\ PauseInv' /\ GateInv /\ [Next]_vars =>
        [~(running' \subseteq running) => clear' >= ResumeSamples]_vars
  BY AdmissionStep

\* After a sample below the reserve no worker starts until ResumeSamples others
\* followed it in a row (VramMonitor.poll).
THEOREM NobodyStartsInAPause == Spec => PauseHolds
  BY PauseInit, PauseStep, GateInit, GateStep, AdmissionRule, PTL DEF Spec, PauseHolds

-----------------------------------------------------------------------------
(***************************************************************************)
(* Worker.                                                                 *)
(***************************************************************************)

Request == [id : Nat, op : Ops]

Line == {WorkerEvent("ready"), WorkerEvent("log"), Unparsable, EndOfFile}
        \cup [kind : {"answer"}, id : Nat, of : Request]

\* What is on its way was asked, and an answer carries what it answers.
Numbered(line) == line.kind = "answer" => line.id = line.of.id /\ line.id < next_id

WireInv == /\ next_id \in Nat \ {0}
           /\ stdin \in Seq(Request) /\ lines \in Seq(Line)
           /\ worker \in {Booting, Reading} \cup [pc : {"busy"}, request : Request]
           /\ worker.pc = "busy" => worker.request.id < next_id
           /\ \A k \in 1..Len(stdin) : stdin[k].id < next_id
           /\ \A k \in 1..Len(lines) : Numbered(lines[k])
           /\ AnswerBelongs

Idle == stdin = <<>> /\ worker.pc # "busy"

\* Before the first call and after an answer the worker has nothing to do, and
\* an answer to the current request leaves nothing behind it.
FlightInv == ~strayed => /\ OneInFlight
                         /\ caller \in {"spawned", "free"} => Idle
                         /\ \A k \in 1..Len(lines) : Answered(lines[k]) => Idle

-----------------------------------------------------------------------------
(* Sequences. *)

LEMMA TailOf ==
    ASSUME NEW T, NEW s \in Seq(T), s # <<>>
    PROVE  /\ Head(s) \in T /\ Head(s) = s[1] /\ 1 \in 1..Len(s)
           /\ Tail(s) \in Seq(T) /\ Len(s) \in Nat /\ Len(Tail(s)) = Len(s) - 1
           /\ \A k \in 1..Len(Tail(s)) : k + 1 \in 1..Len(s) /\ Tail(s)[k] = s[k + 1]
  OBVIOUS

LEMMA AppendOf ==
    ASSUME NEW T, NEW s \in Seq(T), NEW e \in T
    PROVE  /\ Append(s, e) \in Seq(T) /\ Len(Append(s, e)) = Len(s) + 1 /\ Len(s) \in Nat
           /\ \A k \in 1..Len(Append(s, e)) :
                 Append(s, e)[k] = e \/ (k \in 1..Len(s) /\ Append(s, e)[k] = s[k])
  OBVIOUS

LEMMA LineKinds ==
    ASSUME NEW line \in Line
    PROVE  line.kind = "answer" => line.id \in Nat /\ line.of \in Request
  BY DEF Line, WorkerEvent, Unparsable, EndOfFile

LEMMA WorkerKinds ==
    ASSUME WireInv
    PROVE  /\ worker.pc = "busy" => worker.request \in Request
           /\ Booting.pc # "busy" /\ Reading.pc # "busy"
  BY DEF WireInv, Booting, Reading

-----------------------------------------------------------------------------
(* What happens to the lines and to stdin. *)

\* The client takes a line.
LEMMA ReadKeeps ==
    ASSUME WireInv, Read, UNCHANGED next_id
    PROVE  /\ Head(lines) \in Line /\ Numbered(Head(lines))
           /\ lines' \in Seq(Line)
           /\ \A k \in 1..Len(lines') : Numbered(lines[k + 1]) /\ lines'[k] = lines[k + 1]
                                        /\ k + 1 \in 1..Len(lines)
           /\ Head(lines) = lines[1] /\ 1 \in 1..Len(lines)
  BY TailOf DEF WireInv, Read

\* The worker says a line, or there is nobody to hear it.
LEMMA SaidKeeps ==
    ASSUME WireInv, NEW line \in Line, lines' \in {lines, Append(lines, line)}
    PROVE  /\ lines' \in Seq(Line)
           /\ \A k \in 1..Len(lines') : lines'[k] = line \/ (k \in 1..Len(lines) /\ lines'[k] = lines[k])
  <1>1. lines \in Seq(Line)
    BY DEF WireInv
  <1>2. CASE lines' = lines
    BY <1>1, <1>2
  <1>3. CASE lines' = Append(lines, line)
    BY <1>1, <1>3, AppendOf
  <1>. QED
    BY <1>2, <1>3

\* What the worker says beside answers.
LEMMA OtherLines ==
    ASSUME NEW line \in {WorkerEvent("ready"), WorkerEvent("log"), Unparsable, EndOfFile}
    PROVE  line \in Line /\ line.kind # "answer"
  BY DEF Line, WorkerEvent, Unparsable, EndOfFile

\* A step that asks nothing, reads nothing and answers nothing, and at most
\* empties stdin, ends what the worker is at or says another line.
LEMMA QuietStep ==
    ASSUME WireInv, FlightInv, UNCHANGED <<next_id, returned>>, worker' \in {worker, Reading},
           stdin' = stdin \/ stdin' = <<>>,
           caller' = caller \/ caller' \notin {"spawned", "free"} \/ strayed',
           strayed => strayed',
           \/ lines' = lines
           \/ \E line \in {WorkerEvent("ready"), WorkerEvent("log"), Unparsable, EndOfFile} :
                 lines' = Append(lines, line)
    PROVE  WireInv' /\ FlightInv'
  <1>1. PICK line \in {WorkerEvent("ready"), WorkerEvent("log"), Unparsable, EndOfFile} :
           lines' \in {lines, Append(lines, line)}
    OBVIOUS
  <1>2. /\ lines' \in Seq(Line)
        /\ \A k \in 1..Len(lines') : lines'[k] = line \/ (k \in 1..Len(lines) /\ lines'[k] = lines[k])
    BY <1>1, SaidKeeps, OtherLines
  <1>3. line.kind # "answer"
    BY <1>1, OtherLines
  <1>4. stdin' \in Seq(Request) /\ \A k \in 1..Len(stdin') : stdin'[k].id < next_id'
    <2>1. CASE stdin' = stdin
      BY <2>1 DEF WireInv
    <2>2. CASE stdin' = <<>>
      BY <2>2
    <2>. QED
      BY <2>1, <2>2
  <1>5. \A k \in 1..Len(lines') : Numbered(lines[k])'
    BY <1>2, <1>3 DEF WireInv, Numbered
  <1>6. WireInv'
    <2>1. worker' \in {Booting, Reading} \cup [pc : {"busy"}, request : Request]
      BY DEF WireInv
    <2>2. worker'.pc = "busy" => worker'.request.id < next_id'
      BY WorkerKinds DEF WireInv
    <2>. QED
      BY <1>2, <1>4, <1>5, <2>1, <2>2 DEF WireInv, AnswerBelongs
  <1>7. FlightInv'
    <2>1. SUFFICES ASSUME ~strayed'
                   PROVE  FlightInv'
      BY DEF FlightInv
    <2>2. ~strayed /\ (caller' \in {"spawned", "free"} => caller \in {"spawned", "free"})
      BY <2>1
    <2>3. (Idle => Idle') /\ (worker'.pc = "busy" => worker.pc = "busy")
      BY WorkerKinds DEF Idle
    <2>4. OneInFlight'
      <3>1. Len(stdin') <= Len(stdin) /\ Len(stdin) \in Nat /\ Len(stdin') \in Nat
        BY DEF WireInv
      <3>2. OneInFlight
        BY <2>2 DEF FlightInv
      <3>. QED
        BY <2>2, <2>3, <3>1, <3>2 DEF OneInFlight
    <2>5. \A k \in 1..Len(lines') : Answered(lines[k])' => Idle'
      BY <1>2, <1>3, <2>2, <2>3 DEF FlightInv, Answered, Current
    <2>. QED
      BY <2>2, <2>3, <2>4, <2>5 DEF FlightInv
  <1>. QED
    BY <1>6, <1>7

\* A step that reads a line.
LEMMA ReadStep ==
    ASSUME WireInv, FlightInv, Read, UNCHANGED <<next_id, worker>>,
           \/ UNCHANGED returned
           \/ Answered(Head(lines)) /\ returned' = returned \cup {<<Current, Head(lines).of>>},
           stdin' = stdin \/ stdin' = <<>>,
           \/ caller' \notin {"spawned", "free"} \/ strayed'
           \/ caller = "spawned" \/ (caller' = "free" /\ Answered(Head(lines))),
           strayed => strayed'
    PROVE  WireInv' /\ FlightInv'
  <1>1. /\ lines' \in Seq(Line)
        /\ \A k \in 1..Len(lines') : /\ Numbered(lines[k + 1]) /\ lines'[k] = lines[k + 1]
                                     /\ k + 1 \in 1..Len(lines)
        /\ Head(lines) = lines[1] /\ 1 \in 1..Len(lines)
    BY ReadKeeps
  <1>2. stdin' \in Seq(Request) /\ \A k \in 1..Len(stdin') : stdin'[k].id < next_id'
    <2>1. CASE stdin' = stdin
      BY <2>1 DEF WireInv
    <2>2. CASE stdin' = <<>>
      BY <2>2
    <2>. QED
      BY <2>1, <2>2
  <1>3. \A k \in 1..Len(lines') : Numbered(lines[k])'
    BY <1>1 DEF Numbered
  <1>4. AnswerBelongs'
    <2>1. Answered(Head(lines)) => Head(lines).of.id = Current
      BY ReadKeeps DEF Answered, Numbered
    <2>. QED
      BY <2>1 DEF WireInv, AnswerBelongs
  <1>5. WireInv'
    BY <1>1, <1>2, <1>3, <1>4 DEF WireInv
  <1>6. FlightInv'
    <2>1. SUFFICES ASSUME ~strayed'
                   PROVE  FlightInv'
      BY DEF FlightInv
    <2>2. ~strayed
      BY <2>1
    <2>3. Idle => Idle'
      BY DEF Idle
    <2>4. OneInFlight'
      <3>1. Len(stdin') <= Len(stdin) /\ Len(stdin) \in Nat /\ Len(stdin') \in Nat
        BY DEF WireInv
      <3>2. OneInFlight
        BY <2>2 DEF FlightInv
      <3>. QED
        BY <2>2, <3>1, <3>2 DEF OneInFlight
    <2>5. \A k \in 1..Len(lines') : Answered(lines[k])' => Idle'
      BY <1>1, <2>2, <2>3 DEF FlightInv, Answered, Current
    <2>6. caller' \in {"spawned", "free"} => Idle
      BY <1>1, <2>1, <2>2 DEF FlightInv
    <2>. QED
      BY <2>3, <2>4, <2>5, <2>6 DEF FlightInv
  <1>. QED
    BY <1>5, <1>6

LEMMA CallStep == WireInv /\ FlightInv /\ Call => WireInv' /\ FlightInv'
  <1> SUFFICES ASSUME WireInv, FlightInv, Call
               PROVE  WireInv' /\ FlightInv'
    OBVIOUS
  <1>1. PICK op \in Ops : stdin' = Append(stdin, [id |-> next_id, op |-> op])
    BY DEF Call
  <1>2. PICK n \in Nat \ {0} : n = next_id /\ next_id' = n + 1
    BY DEF Call, WireInv
  <1>3. [id |-> n, op |-> op] \in Request
    BY DEF Request
  <1>4. /\ stdin' \in Seq(Request) /\ Len(stdin') = Len(stdin) + 1 /\ Len(stdin) \in Nat
        /\ \A k \in 1..Len(stdin') : \/ stdin'[k] = [id |-> n, op |-> op]
                                     \/ k \in 1..Len(stdin) /\ stdin'[k] = stdin[k]
    BY <1>1, <1>2, <1>3, AppendOf DEF WireInv
  <1>5. UNCHANGED <<lines, returned, strayed, worker>> /\ caller = "free" /\ caller' = "calling"
    BY DEF Call, process
  <1>6. \A m \in Nat : m < n => m < n + 1
    BY <1>2
  <1>7. \A k \in 1..Len(stdin') : stdin'[k].id < next_id'
    <2>1. SUFFICES ASSUME NEW k \in 1..Len(stdin')
                   PROVE  stdin'[k].id < n + 1
      BY <1>2
    <2>2. CASE stdin'[k] = [id |-> n, op |-> op]
      BY <1>2, <2>2
    <2>3. CASE k \in 1..Len(stdin) /\ stdin'[k] = stdin[k]
      <3>1. stdin[k] \in Request /\ stdin[k].id < n
        BY <1>2, <2>3 DEF WireInv
      <3>2. stdin[k].id \in Nat
        BY <3>1 DEF Request
      <3>. QED
        BY <1>6, <2>3, <3>1, <3>2
    <2>. QED
      BY <1>4, <2>2, <2>3
  <1>8. \A k \in 1..Len(lines) : lines[k].kind = "answer" =>
           lines[k].id \in Nat /\ lines[k].id < n /\ lines[k].id = lines[k].of.id
    BY <1>2, LineKinds DEF WireInv, Numbered
  <1>9. \A k \in 1..Len(lines') : Numbered(lines[k])'
    BY <1>2, <1>5, <1>6, <1>8 DEF Numbered
  <1>10. worker.pc = "busy" => worker'.request.id < next_id'
    <2>1. worker.pc = "busy" => worker.request.id \in Nat /\ worker.request.id < n
      BY <1>2, WorkerKinds DEF WireInv, Request
    <2>. QED
      BY <1>2, <1>5, <1>6, <2>1
  <1>11. WireInv'
    BY <1>2, <1>4, <1>5, <1>7, <1>9, <1>10 DEF WireInv, AnswerBelongs
  <1>12. FlightInv'
    <2>1. SUFFICES ASSUME ~strayed'
                   PROVE  FlightInv'
      BY DEF FlightInv
    <2>2. Idle
      BY <1>5, <2>1 DEF FlightInv
    <2>3. Len(stdin') = 1 /\ worker'.pc # "busy"
      BY <1>4, <1>5, <2>2 DEF Idle
    <2>4. \A k \in 1..Len(lines') : ~Answered(lines[k])'
      BY <1>2, <1>5, <1>8 DEF Answered, Current
    <2>. QED
      BY <1>5, <2>3, <2>4 DEF FlightInv, OneInFlight
  <1>. QED
    BY <1>11, <1>12

LEMMA TakeStep == WireInv /\ FlightInv /\ TakeRequest => WireInv' /\ FlightInv'
  <1> SUFFICES ASSUME WireInv, FlightInv, TakeRequest
               PROVE  WireInv' /\ FlightInv'
    OBVIOUS
  <1>1. /\ stdin # <<>> /\ stdin' = Tail(stdin)
        /\ worker = Reading /\ worker' = [pc |-> "busy", request |-> Head(stdin)]
        /\ UNCHANGED <<caller, next_id, returned, strayed, lines>>
    BY DEF TakeRequest, ends
  <1>2. /\ Head(stdin) \in Request /\ Head(stdin) = stdin[1] /\ 1 \in 1..Len(stdin)
        /\ stdin' \in Seq(Request) /\ Len(stdin) \in Nat /\ Len(stdin') = Len(stdin) - 1
        /\ \A k \in 1..Len(stdin') : k + 1 \in 1..Len(stdin) /\ stdin'[k] = stdin[k + 1]
    BY <1>1, TailOf DEF WireInv
  <1>3. /\ worker' \in [pc : {"busy"}, request : Request]
        /\ worker'.pc = "busy" /\ worker'.request.id < next_id'
    BY <1>1, <1>2 DEF WireInv
  <1>4. \A k \in 1..Len(lines') : Numbered(lines[k])'
    BY <1>1 DEF WireInv, Numbered
  <1>5. WireInv'
    BY <1>1, <1>2, <1>3, <1>4 DEF WireInv, AnswerBelongs
  <1>6. FlightInv'
    <2>1. SUFFICES ASSUME ~strayed'
                   PROVE  FlightInv'
      BY DEF FlightInv
    <2>2. ~Idle
      BY <1>1 DEF Idle
    <2>3. OneInFlight'
      <3>1. Len(stdin) <= 1
        BY <1>1, <1>2, <2>1, WorkerKinds DEF FlightInv, OneInFlight
      <3>. QED
        BY <1>2, <1>3, <3>1 DEF OneInFlight
    <2>4. \A k \in 1..Len(lines') : ~Answered(lines[k])'
      BY <1>1, <2>1, <2>2 DEF FlightInv, Answered, Current
    <2>. QED
      BY <1>1, <2>1, <2>2, <2>3, <2>4 DEF FlightInv
  <1>. QED
    BY <1>5, <1>6

LEMMA FinishStep == WireInv /\ FlightInv /\ Finish => WireInv' /\ FlightInv'
  <1> SUFFICES ASSUME WireInv, FlightInv, Finish
               PROVE  WireInv' /\ FlightInv'
    OBVIOUS
  <1> DEFINE line == Answer(worker.request)
  <1>1. /\ worker.pc = "busy" /\ worker' = Reading /\ lines' \in {lines, Append(lines, line)}
        /\ UNCHANGED <<caller, next_id, returned, strayed, stdin>>
    BY DEF Finish, AtWork, Said, ends
  <1>2. worker.request \in Request /\ worker.request.id < next_id /\ worker.request.id \in Nat
    BY <1>1, WorkerKinds DEF WireInv, Request
  <1>3. /\ line \in Line /\ line.kind = "answer" /\ line.id = worker.request.id
        /\ line.of.id = line.id
    BY <1>2 DEF Line, Answer
  <1>. HIDE DEF line
  <1>4. /\ lines' \in Seq(Line)
        /\ \A k \in 1..Len(lines') : lines'[k] = line \/ (k \in 1..Len(lines) /\ lines'[k] = lines[k])
    BY <1>1, <1>3, SaidKeeps
  <1>5. \A k \in 1..Len(lines') : Numbered(lines[k])'
    BY <1>1, <1>2, <1>3, <1>4 DEF WireInv, Numbered
  <1>6. worker'.pc # "busy"
    BY <1>1, WorkerKinds
  <1>7. WireInv'
    BY <1>1, <1>4, <1>5, <1>6 DEF WireInv, AnswerBelongs
  <1>8. FlightInv'
    <2>1. SUFFICES ASSUME ~strayed'
                   PROVE  FlightInv'
      BY DEF FlightInv
    <2>2. Len(stdin) = 0 /\ stdin \in Seq(Request)
      <3>1. Len(stdin) + 1 <= 1 /\ Len(stdin) \in Nat
        BY <1>1, <2>1 DEF FlightInv, OneInFlight, WireInv
      <3>. QED
        BY <3>1 DEF WireInv
    <2>3. Idle'
      BY <1>1, <1>6, <2>2 DEF Idle
    <2>. QED
      BY <1>1, <1>6, <2>2, <2>3 DEF FlightInv, OneInFlight
  <1>. QED
    BY <1>7, <1>8

-----------------------------------------------------------------------------
LEMMA WireInit == WorkerInit => WireInv /\ FlightInv
  <1> SUFFICES ASSUME WorkerInit
               PROVE  WireInv /\ FlightInv
    OBVIOUS
  <1>1. /\ next_id = 1 /\ stdin = <<>> /\ lines = <<>> /\ worker = Booting /\ returned = {}
        /\ Booting.pc # "busy"
    BY DEF WorkerInit, Booting
  <1>2. WireInv
    BY <1>1 DEF WireInv, AnswerBelongs
  <1>3. FlightInv
    BY <1>1 DEF FlightInv, OneInFlight, Idle
  <1>. QED
    BY <1>2, <1>3

LEMMA ReceiveStep == WireInv /\ FlightInv /\ Receive => WireInv' /\ FlightInv'
  <1> SUFFICES ASSUME WireInv, FlightInv, Receive
               PROVE  WireInv' /\ FlightInv'
    OBVIOUS
  <1>1. CASE ReadEnd
    BY <1>1, ReadStep DEF ReadEnd, Killed
  <1>2. CASE ReadUnparsable
    BY <1>2, ReadStep DEF ReadUnparsable, process
  <1>3. CASE ReadReady
    BY <1>3, ReadStep DEF ReadReady, process
  <1>4. CASE ReadTooEarly
    BY <1>4, ReadStep DEF ReadTooEarly, Killed
  <1>5. CASE ReadAnswer
    BY <1>5, ReadStep DEF ReadAnswer, process
  <1>6. CASE Skip
    BY <1>6, ReadStep DEF Skip, ends, process
  <1>. QED
    BY <1>1, <1>2, <1>3, <1>4, <1>5, <1>6 DEF Receive

LEMMA WireStep == WireInv /\ FlightInv /\ [WorkerNext]_workerVars => WireInv' /\ FlightInv'
  <1> SUFFICES ASSUME WireInv, FlightInv, [WorkerNext]_workerVars
               PROVE  WireInv' /\ FlightInv'
    OBVIOUS
  <1>1. CASE Boot
    BY <1>1, QuietStep DEF Boot, Said, ends
  <1>2. CASE Reject
    BY <1>2, QuietStep DEF Reject, Said, ends
  <1>3. CASE Noise
    BY <1>3, QuietStep DEF Noise, Said, ends
  <1>4. CASE Leave \/ Die
    BY <1>4, QuietStep DEF Leave, Die, Exited, ends
  <1>5. CASE TimedOut
    BY <1>5, QuietStep DEF TimedOut, Killed
  <1>6. CASE Close
    BY <1>6, QuietStep DEF Close, Killed
  <1>7. CASE EngineDies
    BY <1>7, QuietStep DEF EngineDies, process
  <1>9. CASE Tick
    BY <1>9, QuietStep DEF Tick, process
  <1>8. CASE UNCHANGED workerVars
    BY <1>8, QuietStep DEF workerVars, ends, process
  <1>. QED
    BY <1>1, <1>2, <1>3, <1>4, <1>5, <1>6, <1>7, <1>8, <1>9, ReceiveStep, CallStep, TakeStep, FinishStep
       DEF WorkerNext, Serve

\* A caller gets the answer to its own request, and one request at a time is
\* with the worker until the client meets a line it cannot parse (call()).
THEOREM CallsPaired == WorkerSpec => []CallsArePaired
  <1>1. WireInv /\ FlightInv => CallsArePaired
    BY DEF WireInv, FlightInv, CallsArePaired, OneInFlight
  <1>. QED
    BY <1>1, WireInit, WireStep, PTL DEF WorkerSpec

=============================================================================
