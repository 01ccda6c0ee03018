# Formal model of praelector

praelector turns a DRM-free EPUB into an audiobook on the user's own machine.
A desktop shell (Rust, Tauri) supervises a Python engine (FastAPI); the engine
drives text-to-speech workers over a line protocol; a React window talks to the
engine over HTTP and one WebSocket. This directory models, in TLA+, the parts
whose correctness depends on order: what is written first, who reads what when,
who is told, and what a death leaves behind. TLC checks the models on small
instances, and TLAPS proves part of what they promise for every instance.

Paths below are relative to the repository. `E` stands for
`engine/src/praelector`, `W` for `engine-tts/src/praelector_tts`, `S` for
`apps/desktop/src`, `U` for `apps/ui/src`.

- [1. The system](#1-the-system)
- [2. Modules](#2-modules)
- [3. Runs, bounds and fairness](#3-runs-bounds-and-fairness)
- [4. Proofs](#4-proofs)
- [5. Disagreements between the code and its documents](#5-disagreements-between-the-code-and-its-documents)
- [6. What is not modelled](#6-what-is-not-modelled)
- [7. Plan](#7-plan)

## 1. The system

### 1.1 How the parts run

- The **shell** runs one supervisor thread (`S/engine/supervisor.rs`), a reader
  thread and a waiter thread per engine, and the window's thread.
- The **engine** is one process. The project routes, the WebSocket hub and the
  health route are `async` and run one after another on the event loop, up to
  their awaits. The chapter and job routes are plain `def`: the server runs
  them in a pool of threads, and nothing serialises them. Other threads may
  publish events.
- A **worker** is a process per backend, single-threaded, with a JSONL loop on
  stdin and stdout.
- The **window** is one JavaScript thread; its handlers interleave at awaits.
- **Persistent state** is the project directory: `project.json`, `project.db`
  (SQLite), `project.lock`, `jobs/<id>/job.json`, `jobs/<id>/events.jsonl`, and
  the chunk files. All JSON files are replaced by temporary file and rename
  (`E/store/atomic.py`); log lines are appended and flushed.

At this commit some of the engine has no caller outside its tests:
`JobManager`, `render_pass`, `dispatch`, `AdmissionGate`, `VramMonitor`,
`WorkerClient`, `apply_reading`, the planner and `JobLog.open`. They are modelled
as what they promise to the component that will call them.

### 1.2 Components

| Component | State | Operations | What makes it correct |
|---|---|---|---|
| Job state machine (`E/jobs/state.py`) | none | `transition`, `recover` | terminal states have no way out; recovery only from running and muxing |
| Job record and log (`E/jobs/checkpoint.py`) | `job.json`, `events.jsonl`, the record in the caller's hands | `create`, `apply`, `note_progress`, `open`, `events_since` | every change is two durable writes with a possible death between them; numbers are dense, the record never leads the log, and a finished job never changes |
| Job routes (`E/api/v1/jobs.py`, `E/jobs/create.py`) | the job directories of the open project | create, pause, resume, cancel, list, replay | requests overlap in pool threads without a lock; what was answered stays logged, a polling client misses nothing |
| Chunk store (`E/jobs/commit.py`, `E/jobs/reuse.py`, `E/store/reconcile.py`) | partial, WAV, sidecar per render key; the chunk table | render, commit, reuse, reconcile, pause's and reset's deletions | a sidecar stands for a complete WAV; committed audio is never lost; a project opens after any death |
| Chapter tree (`E/store/chapters.py`, `E/store/db.py`) | chapters, blocks as versions, revision, copy in the manifest | ingest, update, reorder, merge, split, put_text, replace | one current version per block, dense ordinals, structure edits keep the text, history is fixed |
| Project lifecycle (`E/store/projects.py`, `E/store/locks.py`) | manifest, database, lock, the engine's handle | create, open, close, patch, delete | one owner, no lock left behind, no edit lost or undone |
| Supervisor (`S/engine/supervisor.rs`, `mod.rs`, `ready.rs`, `S/lib.rs`) | attempt, published state, restart clock | launch, handshake, health watch, teardown, restart, close | a bounded number of restarts, an endpoint that is current, no engine abandoned, a kill only as a last resort |
| Engine process (`E/__main__.py`, `E/app.py`) | port, announcement, watchdog | bind, announce, serve, stop, watch for the parent | it goes when its shell is gone |
| Event stream (`E/events.py`, `E/api/v1/ws.py`, `U/lib/ws/client.ts`) | counter, replay buffer, queue per connection, the client's cursor | publish, subscribe, pump, hello, fill a hole | frames are applied in order, losses are told, a client catches up |
| TTS worker (`E/tts/worker_client.py`, `W/worker.py`) | two pipes, the request in flight, the process | ready, call, timeouts, kill, close, serve | the answer belongs to the request, one request in flight, a call returns, no orphan |
| Admission and scheduling (`E/gpu/budget.py`, `E/gpu/monitor.py`, `E/jobs/admission.py`, `scheduler.py`) | last sample, hysteresis, slots, running workers, the place in the plan | compute a budget, poll, admit, release, dispatch, after an out-of-memory error | slots agree with workers, nobody starts on a sample he does not fit in, no chunk overtakes one that waits, the plan is finished |
| Job manager and render pass (`E/jobs/manager.py`, `fake_run.py`, `cursor.py`) | the slot with the active record, a cursor | start, pause, resume, stop, reset, render | one pass at a time, chunks that exist are kept |
| Text analysis (`E/text/*`, `E/ebook/frontmatter.py`) | none | sentences, dialogue, speakers, numerals, acronyms, foreign words, lexicon, broken words, front matter | a dialogue is tiled, what is read aloud is the number that was written |
| Spans and readings (`E/text/apply.py`, `suggestion.py`, `spoken.py`, `apply_reading` of `E/store/chapters.py`) | texts and span rows of a chapter, its revision | accept a batch, edit, send again | a span lies on the words it quotes, a batch is committed over the text it was made from |
| Render plan (`E/jobs/planner.py`, `chunker.py`, `planfile.py`, `E/voices/assignment.py`) | none | blocks and spans to runs, items and their voices | every word is spoken once, in order, by its voice |
| Book readers and writers (`E/ebook/*`) | none | detect, read an EPUB, write a working copy, export with spans, look for text in a PDF | the copy is the book, a block leads back to its words, spans are on their words in the export |
| Ingest routes (`E/api/v1/ingest.py`, `stage_epub`, `commit_epub`) | the files of the project, two temporary files, the stored book | probe, commit | an edited book stays, files and chapters are of one book |
| Device detection (`E/gpu/detect.py`) | a report, kept for some seconds | run the tools, read what they print, number the cards | whatever a tool does there is a list, its numbers differ, and what it says fits the budget |
| Audio and mux (`E/audio/*`, `E/mux/*`) | none | ffmpeg command lines, chapter marks | sums of durations |
| Voices, settings, secrets, logging | rows and single files | create, read, delete | no concurrency, one atomic write each |
| Rest of the shell and of the window (`S/*`, `U/*`) | screens, paths | commands, views | wording and layout |

### 1.3 How they interact

- Supervisor → engine: spawn, ready line on stdout, `GET /v1/health` every few
  seconds, `POST /v1/shutdown`, then signals. The engine polls for its parent.
- Window → engine: the endpoint published by the supervisor, HTTP requests, one
  WebSocket. A new engine means a new endpoint and a new event client.
- Project lifecycle → everything: opening takes the lock, reconciles the chunk
  store and hands out a handle; chapter edits keep that handle, and with it a
  copy of the manifest, until they end, also when the project is closed.
- Chapter tree → manifest: an edit writes `project.json` before its commit.
- Job routes → job log: every change is load, line, record, from the route's own
  copy. Pause also deletes partials in the chunk store, under a running render.
- Book file → reader → chapter tree: an ingest parses the file, stages the original
  and a working copy through two temporary files, and replaces the chapters.
- Chapter tree → text analysis → the user → `apply_reading` → planner: the pre-pass
  proposes over the blocks of a revision, the accepted part comes back with it as
  base, and the plan is made of the blocks and spans that are stored.
- Device detection → budget: the memory of a card, or that it cannot be read, decides how
  many workers may run.
- Plan → scheduler → gate → monitor: a poll gives a sample, the gate admits workers
  on it, the walk starts chunks in the order of the plan and skips the audio the
  chunk store has.
- Publishing threads → event bus → event loop → hub → socket → client.

### 1.4 Where it is hard

`PROJECT.json` lists the hazards at their lines. By kind: two durable writes
with a death between them (job log, chunk commit, quarantine, manifest before
commit); handlers that work on a copy while others change the file (job routes,
manifest, editor); one database connection shared by all threads; queues at
their limit and counters reset after an await (event hub); answers to several
overlapping requests (event client); timeouts that race with what they wait for
(teardown, worker calls, the closing shell); lines out of turn (worker); a decision
about memory that is used after the memory has changed (admission); offsets into a
text that is rewritten (readings, planner, export); round trips through a format
(reader and writer of books); two requests that stage the same files (ingest).

## 2. Modules

One module per component; a module `MC...` gives its constants values for TLC,
and a module `..._proofs` holds theorems. `Job` is an abstract specification,
`JobState` is extended by every module about jobs. In all modules a definition
that starts with the comment *Mutant* is a plausible bug in the definition that
follows it: it is never used by the specification, and replacing the correct
definition by it must break a property (`PROJECT.json`, `mutants`).

| Module | Models | State and actions against the code |
|---|---|---|
| `JobState` | `E/jobs/state.py` | `Edges` and `TransitionsOf(kind)` are `_EDGES` and the kind-dependent edge, `Recovered` is `recover()` |
| `Job` | what a reader of `job.json` may rely on | one record that moves by single legal steps; no log, no write order, no death |
| `JobLog` | one job directory and one caller at a time | `disk` and `log` are the two files, `mem` the record in hand, `pc = "appended"` the instant between line and record. `Apply`, `NoteProgress`, `OpenRecover` append, `Commit` writes the record, `Crash` and `CrashInAppend` strike anywhere |
| `JobRoutes` | the job routes over several job directories | `thread[t]` is a handler: `Load`, `AppendEvent`, `WriteRecord`, `Answer`; a create is `CreateScan`, `CreateWrite`; `Poll` is a client with `?since=`. `Left` is the job the render engine left behind, because no route starts one |
| `ChunkStore` | the files of a render key, by every component that touches them | a render is `Start`, `Write`, `Publish` (rename of the WAV), `WriteSidecar`, `PublishSidecar`; a pause and a reset (`List` a directory, `Delete` what was listed, `ResetRaises` leaves the rest) delete file by file beside it; `OpenBegin`, `Keep`, `QuarantineWav`, `QuarantineSidecar`, `WriteIndex` are the reconciliation. A power loss takes any WAV the kernel has not written back: nothing in `commit_chunk` flushes it |
| `ChapterStore` | chapters, blocks, revisions in SQLite | `db` is what the one shared connection sees and `saved` what is committed. A request works out its row changes in one step (`Ingest`, `Update`, `Reorder`, `Merge`, `SplitAtBoundary`, `SplitInside`, `PutText`, `Replace`), sends them in the two flushes the code has, and commits. Constraint violations roll back, the key of the revision included, which refuses the second of two edits of one revision. Sessions of all threads share `db`; `overlapped` says that one of them met rows another had sent, or that a reorder or an ingest, which take no revision, ran beside another change |
| `Projects` | project directory, lock, and engines over it | `loop[e]` is the project request on the event loop of engine `e`, `thread[e]` an edit in its pool, `open[e]` the handle and `stale[e]` the handle an edit keeps after a close. A file that is unlinked while open stays usable to the engine that has it |
| `Supervisor` | the supervisor thread, the closing shell and the engine process | `pc` is its place in `supervise`/`attempt`/`watch_health`/`teardown`, `timer` what is left of the wait it is in, `restarts` the ages of the restarts that still count; the engine binds, announces itself, serves, stops, and ends itself when its watchdog misses the shell |
| `EventStream` | bus, hub, client | a publisher takes a number (`Number`), appends (`Buffer`), hands over (`Deliver`); `RunNext` runs the loop's callback, `Get` and `Told` are the pump, `Receive...` the client's handlers, `Ask`, `Answer`, `Filled`, `Refused` its overlapping requests for a hole |
| `Worker` | worker client, worker process, pipes | `stdin` and `lines` are the two pipes, `caller` the engine's side with `left` until its deadline, `worker` the loop of the process |
| `Recording` | budget, VRAM monitor, slots, dispatch, job manager, render pass | `Budget(card)` is `compute_budget`; `Round` is the loop a caller has to write, a poll and then a walk of `dispatch` over the plan; `IntervalPasses` lets the next poll be due; `WorkerDone` and `OutOfMemory` end a worker, `OtherEnds` one of a job that is over (`others`: the manager does not know of workers, so they run on beside a reset and beside the next job); `Adopt`, `Start`, `Pause`, `Resume`, `Stop`, `Reset` are `JobManager`, `RenderPass` and `RenderFails` the pass over the plan, and `Crash` keeps only the files |
| `Devices` | `E/gpu/detect.py` | operators: what becomes of a tool that is called (`Command`), what its output is read as (`ParseNvidia`, `ParseAmd`, `ParseSysfs`), the fallbacks of AMD (`ProbeAmd`), the numbers of all cards (`UniqueIndices`), the cached report (`ProbeReport`). `MCRecording` gets its cards from it |
| `Numerals`, `Text`, `Dialogue`, `Gender`, `Detectors` | `E/text/*`, `E/ebook/frontmatter.py` | operators over sequences of symbols: cardinals, ordinals and decimals in words and back; sentences; dialogue marks and their speakers; acronyms, foreign words, lexicon, broken words, front matter |
| `Spans` | `E/text/apply.py`, `spoken.py`, `suggestion.py` | accepted rewrites in one text and the marks that move behind them |
| `Plan` | `E/jobs/planner.py`, `chunker.py`, `E/voices/assignment.py` | runs of a block by its spans, sentences, cut sentences, packed items, the voice of each |
| `Reading` | pre-pass, review, `apply_reading`, `put_text` on one chapter | `Review` is a client that gets the proposals of a revision, `ApplyReading` sends an accepted part of them with that base (a batch that `Fails` raises, and leaves everything as it was), `PutText` is the editor's save |
| `Markup`, `Epub`, `EpubWriter` | `E/ebook/*` | element trees; spine, contents and blocks of a book; the working copy and the export with spans |
| `Intake` | ingest routes, `stage_epub`, `commit_epub`, `E/ebook/detect.py`, `pdf.py` | what the reader says of a book is given (`reader`); a request is `Read`, `Check`, `Take`, `Stage` (four steps: two temporary files, each written and put in its place), `Compare`, `Store` (the transaction on the one connection: `Verify`, `ClearChapters`, an `Insert` of the first chapter and one of the rest, `Commit`); `db` and `saved` are as in `ChapterStore`; `Edit`, `Save` and `OtherSession`, which commits or rolls back what the connection holds, are others' doings in between any two steps, `Crash` ends them all |
| `Ingest` | the same, with the reader | `Intake` in which `reader` is what `ReadEpub` makes of the archives, and the properties of the books themselves |

Modules are composed where components share state and not only calls: `JobLog`
and `JobRoutes` share `JobState`; `ChunkStore` holds the render, the pause, the
reset and the reconciliation because all four work on the same files;
`Recording` holds the monitor, the gate, the walk and the manager because the
slots, the plan and the record pass through all of them, and has one bit per
chunk in place of `ChunkStore`'s files; `Reading` composes the analysis, the
spans and the plan, each a module of operators, around the rows of one chapter;
`Ingest` composes `Markup`, `Epub` and `EpubWriter` around `Intake`'s files and one
stored book; the two are apart so that what is true of the files whatever the reader says
can be proved without the recursive operators of the reader. `Projects` has one edit per engine in place of `ChapterStore`'s detail,
because all it needs of an edit is the handle, the manifest and the commit.

The text and book modules work on symbols, not characters: a word, a dash, a
quote, a break or an amount is one symbol with the attributes the code asks it
for (its class, its gender, its length), and an offset is a position between two
symbols. Regular expressions are stated as what they match in such a sequence.
They are about half as long as their code, or less.

History variables record what a property needs to know about the past and are
never read by an action: `overlapped` (JobRoutes: two requests were in progress
at once; ChapterStore: a session met rows another had sent, or a reorder or ingest ran
beside another change), `intruded` (Projects: an unguarded PATCH, DELETE or close met somebody
at work), `swept` (ChunkStore: a reset took a WAV from under a commit), `untold`, `missed`, `refused`, `cut`, `owner` (EventStream), `returned`,
`waited`, `strayed` (Worker), `clear` (Recording: polls since the last one below the
reserve), `stale` (Reading: blocks edited since their spans were written), `commit` (Reading: what the last commit was made from),
`disturbed` (Intake: requests overlapped, or an edit, a save, another session or a death
met one at work), `overtaken` (Intake: an edit came between the check in a transaction
and its deletes). A property conditional on one of them says where the code's
guarantee ends; section 5 says what happens beyond.

## 3. Runs, bounds and fairness

Run all of them in this directory: `tlc -workers 2 -config X.cfg M` with the
module and configuration of `PROJECT.json`. Times are from two cores.

### Passing runs

**JobLog** (`MCJobLog`, 15,554 states). A job of kind `record`, two
distinguishable progress notes, five lines by callers (recovery may add more),
three deaths, power loss allowed. Five lines reach every state of the machine
(queued, running, paused, running, muxing, done) with a death in between; three
deaths allow one inside recovery from a death inside recovery. Shows that line
*i* carries number *i* (`SeqDense`), which rests on `job.json` never claiming a line the log
lacks and the caller being level with both (`RecordLevel`, proved and not run);
that a settled record is not contradicted by its log (`SettledStateIsLogged`); and that the directory
implements `Job` (`ImplementsJob`). No fairness is assumed and no liveness claimed: nothing in
the engine calls `open()` yet, so nothing promises that a job left behind is taken up
again. *Deadlock is off*: a job that has used its lines rests.

**JobRoutes** (`MCJobRoutes`, 465,862 states). Two directories, two threads, four
lines, one death, one job left by the render engine in any state; directories and
threads are symmetric. Two threads are enough for every pairwise overlap, four
lines for a change by each of them after the two the left job may have. Shows
what survives without a lock, that the line comes before the record and before
the answer (`LogComesFirst`); and that a polling client misses nothing as long as
nothing overlapped or died (`ReplayMissesNothing`, which fails without either
condition). *Deadlock is off*: all jobs may be finished.

**ChunkStore** (`MCChunkStore`, 1,566,831 states, two minutes). Two keys, so that a render, a
pause, a reset or a death concerns one of them while the other is at rest; two takes
of different lengths, so that a sidecar can describe another take than the WAV
beside it; two deaths with power loss, so that recovery from
a recovery is reached; one reset, at any time an open project may have one, beside a
render and its commit too. Where it unlinks a WAV from under a commit, the sidecar that
follows stands alone until that key is committed again or the project opened
(`swept`, in `SidecarMeansReusable`). Shows `SidecarMeansReusable`, `IndexIsSound`,
`CommittedSurvives` and `ReopensIfReadable`. *Fairness*: `Reconcile`, a user
opens a closed project and `open()` runs to its end.

**ChapterStore** (`MCChapterStore`, 628,496 states up to symmetry, two minutes). A book of two chapters with two
blocks and one block; drafts that empty a chapter, keep one text, or change one
and drop a character; one replacement that deletes a character; three revisions,
four chapters, one death. Three revisions reach an edit of a split of a merge. Two
threads, so that a request plans its rows, another edits the same revision, and the
first is refused or goes on; up to revision `MaxBeside` a request may begin beside
another, and of the two one is a merge, which takes no new identifier (`Apart`).
Nothing follows a state in which sessions overlapped. Without any one of the three
conditions of `overlapped` (nobody reads or ends beside rows that were sent, no reorder
and no ingest beside a change) the run finds a property violated. Shows `TreeIsSound` (one current version per block, contiguous
ordinals), `StructureKeepsText` and `HistoryIsFixed`.

**Projects** (`MCProjects`, 3,188 states up to symmetry). Two engines, two names,
four revisions, three deaths. The constraint `Undisturbed` stops after the first
state in which `intruded` holds: every property is conditional on its absence.
Shows `LockIsKept` (one owner, and the lock is held exactly by who has the
project open) and `ManifestNotBehind`, with two engines that try to open the
project at the same time, edits in the pool, failing opens, and deaths anywhere.
*Deadlock is off*: a deleted project rests.

**Supervisor** (`MCSupervisor`, 152,620 states). A tick is about five seconds, so
the waits keep their proportions (probe and shutdown request 1, shutdown wait 2,
kill grace 1, closing shell 4 ticks; the restart window is shortened from 600 s
to 8 ticks and the limit from 5 to 2 so that it is reached by more than one
pattern of crashes). Shows `RestartsAreBounded`, `EngineIsAccountedFor` (only the
engine started last is announced, and the loop is not left while one runs),
`KillIsLastResort` and `LossIsNoticed` (a supervisor learns that its engine is
gone, and an engine learns that its shell is). *Fairness*: `Supervise`, `Tick`,
`ShellExits` and `Engine`: the shell's threads, its clock and the engine's own
steps run. An engine may still choose to hang, and then does nothing for ever,
and its watchdog lets it live as long as a job keeps it; `LossIsNoticed` is
conditional on both. *Deadlock is off*: the shell is gone or the supervisor has
given up.

**EventStream** (`MCEventStream`, 574,417 states, under a minute). A worker
thread with three events and the event loop with one; a queue of one event,
which overflows at the second; a replay buffer of four and answers of two, so that one may be cut short; two connections; two
requests for missing events under way at a time, so that their answers overlap.
Three events by one thread are a hole with something on either side; the second
publisher makes appends out of order. Shows `OrderIsKept` (consecutive frames are
applied, and the events of one publisher stay in their order), `LossIsTold` and
`ClientCatchesUp`. Each condition of `ClientCatchesUp` was dropped once, and TLC
found it necessary: a refused request leaves the client waiting, one whose answer is cut
short leaves it behind (`cut`; section 5, item 17), an event dropped while an overflow
frame is being sent is announced by nothing, and two publishers that append in the other
order make an answer that lacks a number. *Fairness*:
publishers finish what they began, the loop runs its callbacks, the pump takes
and sends. None on the answers: requests may stay unanswered. *Deadlock is off*:
everything sent.

**Worker** (`MCWorker`, 185,446 states). Three calls of any kind, a backend that may go
on for ever to write lines of its own, of which at most two wait to be read
(`MaxUnread`), a death of either side at any time. While the client waits time passes in
ticks, one until the ready line has to be there and two for a call, so that lines come
before and after the first of them. Three calls are enough for an answer that is two
calls late. Shows `CallsArePaired` (a call returns the answer to its own request; one
request at a time, until the client has met a line it cannot parse), `CallReturns` (a
call is over within its limit, whatever lines arrive in the meantime: the limit is of
the call; with one for each line a backend that goes on writing would keep the call for
ever, which is its mutant), `NoOrphan`. *Fairness*: time passes (`Tick`), the client's timers fire when it is
up (`TimedOut`), the worker's loop takes requests and notices the end of stdin
(`Serve`). None on `Finish`, since a backend may never return, and `NoOrphan` is
conditional on that; none on what the client reads. *Deadlock is off*: all calls made.

**Recording** (`MCRecording`, 270,944 states, about a minute). Eight cards: 12,
8 and 4 GiB, one with a measured peak, one with the override 0, one with int8
weights, one whose memory cannot be read, and a CPU, so that the budget takes
each of its branches; the assumption `DetectedCards` says that those with a memory are what
`Devices` makes of machines with such tools. A plan of four items, three pieces of speech with a pause
behind the first; samples that are unreadable, below the reserve, between
reserve and the size of a worker, and above it; a streak of three
polls as in the code; at most two samples that fit no worker, `MaxTrouble`. Three pieces
and up to two workers are a walk that skips, one that waits, and one that
overtakes if it is wrong. A reset comes whenever the manager allows one, also beside
workers, and may raise over any of the audio. Shows `WorkersHoldSlots`, `NoOvertaking`,
`PauseHolds` (only of the pause: section 5, item 21, has what the admission does not keep) and `PlanIsFinished` (a job that stays running gets all
its speech recorded or given up, since the trouble with memory ends, on a card
that has room for a worker and whose memory can be read). *Fairness*: the loop makes a round whenever
one would change something, its interval passes, and a worker, also of an earlier job, ends its item or
fails. *Deadlock is checked*.

**Reading** (`MCReading`, 59,861 states, a minute and a half). Chapters of up to
five, four or three phrases from seven families (dialogue with dashes, quotes,
numbers, broken words, foreign words, long sentences, breaks), each a
counterexample to some simpler way of doing it; and 342 figures of one number each
(`MCFigures`): one to four groups of digits, of which any may be zero or end in 00 or 000,
written in one or in groups, with a dot (an ordinal), as a year, a time (minute 00 too), a
decimal of up to four places or the number of a chapter; two revisions, one client;
limits of five symbols for an item, four for a line, three for a lexicon entry.
Shows `SpansAreTheReview`, `ReadingsKeepTheirWords`, `PlanSpeaksTheText`, `DialogueIsTiled`,
`ReadsItsNumber` (exact hundreds, thousands, millions and milliards, and what stands between them) and
`CommittedOnItsText`. No fairness: nothing has to happen. *Deadlock is off*: the
revisions are used up.

**Ingest** (`MCIngest`, 1,346,052 states, about 110 s). A library of 28 books and
files: blocks in blocks, lists in lists, text behind elements; contents in either
format, broken, or absent; documents missing, unnamed or twice in the
spine; cover pages; encrypted books and encrypted fonts; entries too large, alone
or together; PDF with text, without, and locked; a file of another reader. Two threads, one save of the user's, one edit, one
death, any number of other sessions; size limits of ten and twenty, three documents for a book that is not
short, two PDF pages looked at (five in the code). The constraint
`RacesAreOfPlainBooks` keeps overlapping requests to the plain books, since what
a race does is not a matter of markup. Shows `WorkingCopyKeepsTheBook`,
`BlocksHoldTheText`, `ExportKeepsTheSpans`, `FilesFollowTheStore` and
`EditedBookStays`, the last for edits and other sessions between any two steps of the
transaction. *Deadlock is off*: all requests made.

### The run that finds a violation

**JobRoutes_two_active** (`OneActiveJob`) checks one sentence of the repository,
and TLC finds a behaviour of the code that contradicts it: section 5, item 1.

### Type invariants

Every module with theorems states the types of its variables (`TypeOK`, `Typed`)
as a part of its inductive invariant, which TLC checked before it was proved; no
run spends a property on them. In the others the comments of the variables give
their types, and the properties relate them.

## 4. Proofs

TLAPS checks eight modules to the last leaf, for every value of the constants
that the named assumptions allow (a kind and any set of progress notes; any set
of jobs and threads; any keys, takes and measure; any limits and waits; any
engines and names; any threads, sizes of queue and buffer; any cards and plan; any book,
drafts and replacements; any library of files; any chapters and detectors' proposals).
Since the bounds on steps are only upper bounds in guards, the theorems hold for
any number of lines, deaths, edits and calls. 35 theorems are listed in
`PROJECT.json`.

**JobLog_proofs.** `IInv == TypeOK /\ SeqDense /\ WriteOrder` is inductive.
`SeqDense` alone is not: that the next line takes a free number needs the record
to be level with the log whenever a caller may append, which `WriteOrder` says
for each place of the protocol (level when idle, exactly one behind between the
two writes, at most behind when closed). `DenseLastSeq` shows that the largest
number in a dense log is its length, and `CaughtUpLevel` that `open()` therefore
levels the record before it appends. From it follow `TypeCorrect`,
`SequenceIsDense` and `RecordStaysLevel`. `TerminalStays` (a finished job never
changes again, which no run spends a property on) and `Implementation`
need more: `StepInv` adds that between the two writes the pending record is one
step of `Job` away from `job.json` (`OneStep`), and that a finished record is
level with its log (`Settled`). Then the rename is that step of `Job`, and
everything else, the line, the deaths, reading the files, is a stutter.
`SettledIsLogged` needs `SaidInv`: the record the caller is about to write, and the
record on disk where it is level with its log, are in the state the last transition
line names (`Says`), unless they wait in the queue or a pause, where a recovery may
have put them.

**JobRoutes_proofs.** `IInv == Typed /\ Announced /\ RecordWasLogged /\
AckedIsLogged`. `Announced` is what makes the two promises inductive: a thread
past its first write has its line in the log, whatever other threads have done
to the record since, because the log is append-only (`Carried`). Both promises,
and with them `LogComesFirst`, hold for any number of threads without a lock;
they are the ones that do.
`NothingIsMissed` needs `ReplayInv`: while no two requests have overlapped and
nothing has died, one thread works at a time (`Lone`), line *i* has number *i*
(`Dense`), the record and the thread are level with the log (`Level`, `Abreast`),
and so the lines with a greater number are those behind the client's (`Seen`).

**ChunkStore_proofs.** `IInv == TypeOK /\ Phases /\ UnderWay /\ Sifted /\
SidecarMeansReusable`. The sidecar property is not inductive, because it speaks of
an open project only and a sidecar is written at the end of a chain of steps.
`UnderWay` carries it through a render: the key under way cannot be reused, since the
render began for that reason, so it has no sidecar unless a reset unlinked the WAV of one,
and from the rename on the WAV is the take the sidecar will describe, unless a reset has
unlinked it since. `Sifted` carries it through an opening:
whatever the reconciliation has looked at is in order. `Phases` keeps openings apart from renders
and resets and says that damage never reaches an open project.
`SidecarsAreSound` and `TypeCorrect` follow; `StepKeepsAudio` says for one step
what `CommittedAudioSurvives` says for a behaviour, and `IndexStaysSound` uses it
again: the table is right when it is written, and nothing takes a chunk away
while the project stays open. So all safety properties of this component hold
for every instance; only that a closed project opens is left to TLC.

**Desktop_proofs**, the supervisor (`SupervisorSpec`). `AttemptInv` ties the attempt's number, the engine and
what is published together (`EndpointIsCurrent`), and says for each place of the
teardown which of the request, the signal and the waits lie behind it
(`AttemptOrder`): `EngineAccounted` and `KillComesLast` follow. `BudgetInv`
adds the shape of the restarts that still count and that a supervisor which has
given up is done, so that no later tick takes from the count; `BudgetKept`
follows.

**Projects_proofs.** `LockInv == TypeOK /\ EditHasHandle /\ OpenedOnce /\
OwnersHoldTheLock /\ LockIsAccountedFor`: the lock file is that of the one engine
which has it open or is opening or closing, and `LockServes` follows while
nothing has intruded. `RevisionInv`, under the same condition, says how far the
manifest may be ahead of the database at each place of an edit, a patch or a
create; `LibraryIsCurrent` follows.

**Desktop_proofs**, the event stream. `NothingOvertakes` needs an order over four places: what
a thread holds, the callbacks of the loop, the queue, and the wire. Their
concatenation is the path of a publisher's events; `PublisherOrderKept` says it is
increasing. `Thinner` and `Inserted` say that leaving out an event, or adding one
that is newer than all of its publisher, keeps it so; `Fresh` that what a thread
holds is newer than all its own on the way; `OffLoop` that the loop's own events
never wait among the callbacks, so that its direct puts overtake nothing of its
own. `StreamInv` adds that a connection begins with its greeting and that the
client's number is that of the last frame it applied (`Greeted`, `Applied`);
`LossesAreTold` rests on `Counted`, that a loss which was not told is still counted
and has an event to be sent with.

`ClientHasAll`, that an idle client with nothing on its way has every event, needs more.
`Underway(n)` lists what may yet bring event *n* or tell the client that it lacks it: a
thread past the buffer, a callback, the queue, the pump, the loss that is still to be told,
a frame that shows a later number, a request whose answer will hold it. `Followed` says
that while the threads came to the buffer in the order of their numbers (`InTurn`), and no
request was refused, no answer cut short and no loss missed, each event in the buffer has reached the client or is
underway; `AnswersFollowOn` that an answer goes on from where the client was, without a
hole. When nothing is left on the way, each has reached it.

**Rendering_proofs**, the worker (`WorkerSpec`). `WireInv` says what each pipe may hold:
requests whose numbers were given out, and answers that carry the number of what they
answer. `FlightInv` adds that before a call and behind an answer to the current one the
worker has nothing to do, until the client meets a line it cannot parse. `CallsPaired`
follows, also after a call that gave up, whose answer is still on its way.

**Rendering_proofs**, the recording. `GateInv` counts slots against workers, those of
earlier jobs too, through errors, retries and crashes (`SlotsAreHeld`). `WalkInv` says that
in a job that is not over all speech behind `next` is recorded, being recorded or given up: a walk
ends at the first item that must wait, so no later one is admitted past it, and a reset takes
audio away only from a job that is over (`WaitingKeepsTheOrder`). `PauseInv`
says that in a pause the streak is the number of samples since the last one below
the reserve (`NobodyStartsInAPause`).

**ChapterStore_proofs.** For any finite number of threads, until sessions overlap
(`overlapped`; section 5, item 2, says what happens then). `Fits` says of what a
request has worked out that the rows it closes are current and that the tree is sound once
all of it is there; `Held`, that at most one request sends at a time, at which of its two
flushes the connection is on the way from what is committed to that tree, and that each of
the others still fits what is committed or is `Stale`: an edit whose revision another
has taken, so that its first flush is refused. When one commits, every other edit of that
revision becomes stale, and an update, which sends no rows, fits any tree (`Commits`); a
rollback or a death goes back to what is committed. `TreeStaysSound` has one lemma for the rows of each operation:
ordinals of a reordered, merged, split or dropped chapter are contiguous because the
operation is a bijection between them and `1..n`. `HistoryStays` follows from the revisions:
a row is closed at the revision of its edit, which is above every revision that was
answered. `StructureStays` (merge and split keep the text) compares two trees
whose blocks have other identifiers, so it goes through what a tree says: a book `Tells` a
sequence of chapters, a chapter `Reads` a sequence of texts, both determined by the tree.
A split `Divides` one chapter in two, a cut inside a block its text as well, and a merge is
the same read backwards; `SameStory` says that the flattened text is then the same. Flattening
is a fold, which is a `CHOOSE` of a recursive function: `Joined` shows that it is what it
should be by the least length at which it is not, since the library's induction rules cannot
be used.

**Documents_proofs**, `Intake`. `reader`, what the reader says of each book, is not
constrained, so the theorems hold for any reader, and for `Ingest`, whose behaviours are
those of `Intake` with one `reader`. `AsGiven` says that the original, and what is staged for
it, is a file that was given; `InPeace` that as long as nothing has disturbed a request
there is one, and for each of its places which of the two files are already those of its
book (`Progress`); when it has ended they are those of the stored book (`Follows`).
`FilesStayTogether` follows. `EditsSurviveIngest` rests on `EditsAreKept`: since an edit
commits what the connection holds, the connection has its chapters as they are committed,
a transaction that checks after it finds them and ends, and none that checked before is
about to delete, unless the edit is one that overtook it.

**Documents_proofs**, `Reading`. `CommitsFitTheirText` rests on `DraftInv`: a review made at
the current revision has the texts of the chapter. A commit is refused at any other.

`DialogueStaysTiled` is about what `Segments()` computes for a text of any length. Of each of its
recursive functions a lemma shows that it exists (`SomePassing`, `SomeSearch`) and another what
holds of every step: `Choice` of the dashes chosen so far (in order, and behind a speech tag the
next dash always among them), `Found` of the quotes (apart, between two marks). A cut at such
places (`Cutting`) gives pieces that are apart and hold every letter (`CutPieces`, `Covers`), and
`Laid` puts them in order, which `Listed` shows of any strict order on a finite set: as many come
before a member as its rank says. The rest of the proof is that the text of a block stays one
(`TextsInv`): a batch replaces texts by texts, each at a place of its own (`Placed`). That is so
because no detector but the artefacts' proposes a rewrite (`Quiet`), and those do not overlap
(`ArtefactsAre`: `finditer()` and the order of the searches, `ScanApart` and `InTurnApart`).

`ReadingsStayOnTheirWords` goes on from there. What the pre-pass proposes to read quotes the
words it lies on (`Lies`, shown search by search, and for the lexicon from the order
`effective_rules()` puts its rules in, `RulesAre`); what it proposes to rewrite fits the text
(`PrepassRewrites`), and both stay so in a review as long as its base is the current revision
(`GivenInv` with `DraftInv`). A batch rewrites from the right to the left, so before a rewrite
at `e` everything up to `e` is the text it was made from (`Alike`), and a reading is either
where it was or behind `e`, on its words in both cases (`Carried`, kept by `RewriteCarries`).
What still lies on its words in the end is committed (`AppliedKeeps`).

`SpansStayApart` is about the same batches, and its invariant `ReviewStands` (a review stands, and
so do the committed spans) was checked by TLC on the run's constants first. Every search finds
readings apart from each other and none empty (`Readings`, `DetectedApart`; `LexiconApart` for the
hits of the lexicon), `Settled` drops those a hit touches, a skipped block has no tiles beside its
skip, and a block has at most one split, whose pieces lie in a row (`SplitsStand`, `InRow`): so
what the pre-pass proposes stands (`PrepassStands`). A rewrite takes a suggestion along to one
place or loses it (`ShiftedTakes`), which keeps it in the text (`TakenFits`) and keeps two that
were apart in their order (`TakenBehind`); hence a rewrite, then a batch, then the spans stand
(`RewriteStands`, `BatchStands`, `SpansStand`). That a span is not empty is decided at one place:
a rewrite that leaves nothing of an accepted suggestion fails the whole batch (`Fails`; section 5,
item 29). A draft takes the spans of its block out of the review (`stale`).

These theorems assume of the constants that chapters are sequences of texts over `Symbols`
(`LessonsAssumption`) and that rules of the lexicon have texts and numbers where the code has
them (`LexiconAssumption`).

Only model-checked:

- liveness (`ReopensIfReadable`, `LossIsNoticed`, `CallReturns`,
  `NoOrphan`, `PlanIsFinished`), because fairness and `ENABLED` are beyond the prover;
- `WorkingCopyKeepsTheBook`, `BlocksHoldTheText`, `ExportKeepsTheSpans`: trees of elements are
  read and written with recursive operators, which are beyond it too;
- `PlanSpeaksTheText`, `ReadsItsNumber`: each is about what several recursive definitions
  and folds compute together, for inputs of any length.

A write that fails without ending the process is outside `JobLog` and
`ChunkStore`: a failed second write is taken for a death (section 5, item 7).

## 5. Disagreements between the code and its documents

Found while modelling. The first has a run; the others were read off the code,
and are excluded from a property by a condition, or follow from a state the
models reach, or lie outside what is modelled (said where so).

### Jobs, chunks, chapters, projects

1. *Two live jobs* (run `JobRoutes_two_active`). `E/jobs/create.py:4-5`: "A
   second job is refused while any job for the project is still queued, running,
   paused, or muxing". Two creates in two pool threads both list the jobs
   (line 37) before either writes.
2. *Two current versions of a block.* `E/store/db.py:69`: "One transaction per
   block". All sessions share the connection of the StaticPool (line 48): a
   refused request rolls back what another thread has flushed, whose second flush
   is then committed alone. A read that comes in between commits the half (line 73). And a reorder
   or an ingest takes no revision, so nothing refuses it, or the split or merge
   beside it, when the tree it read is gone. `ChapterStore`'s run shows each of the
   three without the condition `overlapped`, which its properties have.
3. *An engine outlives the shell.* `docs/plan/PLAN.md:116` promises a kill after
   the last wait; the shell leaves after 20 s (`S/lib.rs:200`), the kill may come
   after 4 + 5 + 10 + 5. The engine left behind ends itself through its watchdog
   unless it hangs or a job keeps it; on POSIX nothing else ends it, since its
   process group is its own.
4. *A deleted project comes back.* `E/store/projects.py:403-406` drops the project
   from the Library; an edit in flight writes `project.json` again
   (`E/store/chapters.py:873`).
5. *A torn log line closes a job for good.* `docs/PRD.md:250`: recover after power loss
   from `job.json`. A partial last line makes `events()` raise
   (`E/jobs/checkpoint.py:224`), and `open()` with it, although `job.json` is
   intact. `JobLog` has no step out of such a state.
6. *A garbled WAV closes a project for good.* `E/store/reconcile.py:4-6`: anything
   torn is moved to quarantine. A WAV of the right size whose header cannot be
   parsed makes `wav_seconds` raise through `chunk_reusable`
   (`E/jobs/reuse.py:27`); nothing is moved, and every open fails. This is why
   `ReopensIfReadable` has a condition. `commit_chunk` does not flush the WAV
   before it publishes the sidecar, although `docs/plan/DATA_MODEL.md:440` says
   that a sidecar always implies a complete WAV.
7. *A number is used twice*: by a request after a death between line and record
   (the routes load `job.json` without `JobLog.open`; `E/jobs/catalog.py:32`), by
   the same caller after a write error it survives (`E/jobs/checkpoint.py:153`),
   and by two overlapping requests that number their lines from one record. A
   client that polls with `?since=` then misses a line.
8. *A stale request undoes a final one.* A pause or resume that loaded its record
   before a cancel writes it after (`E/api/v1/jobs.py:117`), against
   `docs/plan/PLAN.md:593-595`.
9. *Opening a project recovers no job.* `E/store/projects.py:272-273` reconciles
   chunks only, against `docs/plan/PLAN.md:609`; a job that was running stays so.
10. *The log shows what never happened.* A line whose record was lost stays in
    the log; `open()` catches the number up and not the state. The logged state
    agrees with the record only where `SettledStateIsLogged` says.
11. *The published state during teardown.* The supervisor stays ready, with its
    endpoint, while the engine is being torn down (`S/engine/mod.rs:135-137`).
12. *Spans out of range.* `split`, `put_text` and `replace` leave spans as they
    are, against `docs/plan/DATA_MODEL.md:146,182,242`, and
    `orphaned_span_ids` is always empty. `Reading` marks such blocks `stale`.
13. *The manifest ahead of the database* after a death or rollback between them
    (`E/store/chapters.py:873`). `ManifestNotBehind` is the direction that holds.
14. *PATCH and DELETE take no lock* (`E/store/projects.py:408`): a second engine
    unlinks the lock file and both own the project (`E/store/locks.py:2`); the
    first engine's copy of the manifest undoes a rename. An edit in flight after
    a close writes an older manifest over the next owner's.
15. *A half-made project.* A death between manifest and database in `create`
    leaves a listed project without a row (`E/store/projects.py:186`).

### Events and workers

16. *No replay for the window.* The client asks `GET /v1/events?since=`
    (`U/lib/api/client.ts:130`), which the engine does not serve: every hole
    leaves the cursor where it is. `EventStream` models the endpoint the client
    and its tests expect, as an external action.
17. *A loss that is not told.* `E/events.py:11-13`: a slow subscriber "loses
    events and is told about it". `E/api/v1/ws.py:59` resets the count after the
    await that sends the frame, so what is dropped meanwhile is forgotten. An answer to a
    hole holds the first 1000 events (`E/events.py:129`) of a buffer of 4096: a client that
    lacks more stays behind after it, until a later event shows it the hole again, although
    `docs/plan/PLAN.md` 8.1 has it miss nothing. `ClientCatchesUp` excludes both.
18. *Numbers out of order.* `E/events.py:4` promises one monotonic counter; the
    number is taken outside the lock, so two threads may append in the other
    order, and the client sees a hole that an answer does not fill.
19. *A worker left alive.* `E/tts/worker_client.py:72`: "Kill the child if it does
    not arrive". A first line that cannot be parsed raises without the kill.
20. *Two requests in flight.* `docs/plan/PLAN.md:498`: "One request in flight per
    worker". A call that raised on a stray line leaves its request with the
    worker; the next call sends a second. The answers are paired all the same.
21. *Smaller ones.* `close()` sends a shutdown request and kills at once.
    `parse_worker_line` lets its own `ValueError` through. `failure(None)` drops
    the `id`, so the engine takes it for a malformed line. `JobManager.render`
    overwrites a record that changed meanwhile. `dispatch` admits several workers
    on one sample, against `docs/plan/PLAN.md:568`, "Before each spawn:
    re-sample": a sample with room for one worker starts as many as there are slots.

### Shell and engine process

22. *A cancelled handshake* drops the readers of the pipes, so an engine that is
    still starting ends on its announcement during the teardown. A malformed line
    with the ready prefix on stderr fails the handshake for good, although stderr
    "never carries the ready line". The end of the output counts only when both
    pipes are closed.
23. *The watchdog's job check has no effect*: `active_job_id` is set by nobody
    (`E/state.py:56`). `Supervisor` models the check, with a job that may be there.

### Recording

24. *One worker that never starts.* The docstring of `compute_budget` says "CPU,
    and any device whose VRAM cannot be read, is one worker", and a card without
    room gets one too; the monitor admits nobody on a sample it cannot read or
    that does not fit, so that worker is never admitted. `PlanIsFinished` excludes
    both. Unreadable samples count toward the streak that ends a pause.
    `release` says nothing of which worker it is for.
25. *A plan that cannot be read.* `E/jobs/planfile.py:27` and `events()` split with
    `splitlines()` what was written with `ensure_ascii=False`: a text with U+2028
    or U+0085 tears its line.

### Text, readings and plan

26. *A second batch drops the first.* `apply_reading` closes the spans of every
    block of the chapter, also of those the batch does not name: readings accepted
    earlier are lost. `Reading` has only the spans of the last batch.
27. *What a planner speaks.* A dialogue dash between two spans becomes a run "—"
    of the narrator; overlay spans across a structural boundary are dropped;
    `_split_oversized` cuts inside "3,14", drops separators and cuts at no other
    white space than " "; the branch for `run.kind == "dialogue"` is dead.
28. *What the analysis proposes.* `_noun` takes the form of one for 21, 31, ...; a
    decimal with an integer part of 10^12 or more raises out of the pre-pass; a
    rewrite inside a dialogue mark makes the whole split a conflict; the kind of a
    trailing dash is dead code; a block of soft hyphens becomes an empty block;
    of two broken words that share a part, the second is not found.
29. *A rewrite that empties a reading.* `E/text/apply.py:6-8`: "A
    suggestion whose `original` is no longer in the text is a conflict and is not
    applied". When a rewrite takes every symbol of one, `_rewrite_inside` builds a
    suggestion that ends where it starts, which `Suggestion.__post_init__` refuses:
    `apply_block()` raises and the whole batch is lost (`Fails` in `Reading`). The soft hyphens of a contents
    entry that is nothing else, and the `skip` of that entry, are such a pair.

### Books

30. *An edited project's files are written over.* `E/store/chapters.py:150`: such a
    project "is not overwritten". An edit between the early check and the staging
    keeps its chapters (`EditedBookStays`), and its original and working copy are
    already those of the new book. Two ingests at a time leave the original, the
    copy and the chapters of different books. Both are what `disturbed` excludes.
    An edit that comes between the check inside the transaction and its deletes
    (`E/store/chapters.py:167-168`) commits on the same connection and then loses its
    chapters: what `overtaken` excludes from `EditedBookStays`. One that comes between the
    flushes of the new chapters commits the part that is there; when the ingest
    fails after that, the project keeps half a book with an edit in it, which no later
    ingest may replace. `Intake` has both.
31. *Parsed before it is copied.* `docs/plan/SEQUENCES.md:65` copies first; the code
    parses first, so a save in between is compared with a copy of itself and goes unnoticed.
32. *Spans that no import can restore.* `docs/plan/DATA_MODEL.md:593` writes
    `prl-spans.json` "so an import can restore spans"; it is keyed by the paths of
    the original book, which the exported one does not have. Of spans with the
    same bounds one is marked in the text.
33. *Titles.* A chapter is named after the last contents entry that points to its
    file, since fragments are dropped; without entry and heading it takes another
    title when read again; a document twice in the spine gives its title to both.
34. *A copy that is refused.* A cover page is one more item of the spine, so the
    working copy of a short book of three documents is refused as empty.
    `WorkingCopyKeepsTheBook` excludes it by its size.
35. *What a reader drops or refuses.* Text beside blocks, and the `alt` of a
    picture inside a paragraph, is lost. Contents that escape the book fall back
    to NCX, contents without `<nav>` do not; a guide that escapes refuses the book.

### Devices and export

36. *Device numbers.* `E/gpu/detect.py` says they are "stable between calls on the
    same machine"; those of AMD cards change when another tool answers or NVIDIA's
    fails once (`UniqueIndices` in `Devices`). `invalidate_cache` during a probe is undone
    by that probe's write (line 597). A list of cards with an item that is no object raises
    `AttributeError`, so the whole AMD probe fails, although what cannot be read "yields an
    empty list rather than an exception".
37. *A report of another export* (read and not modelled). The M4B is written over the earlier one without a
    temporary file, and `partial_report.json` last.

## 6. What is not modelled

`PROJECT.json` lists every component with its status and the reason.

- *Audio and mux, voices, settings, secrets, and of the capabilities the runtime and the
  models*: command lines and single atomic writes by one caller; nothing in them survives
  a call in more than one place or depends on an order.
- *TTS backends* belong to their libraries; `Worker` models what the process around
  them promises.
- *The window's screens, the rest of the shell, schemas, scripts*: wording, layout,
  generated types and build checks.
- *calibre's conversion*, for books that are not EPUB, and the sentence splitter of
  *pysbd* are programs of others; `Ingest` and `Text` model what the code does with
  their results, and a converted book enters as an EPUB.

Of the components marked *partly*: the chapter tree is followed until two sessions overlap (item 2), and its
spans are in `Reading`; the lifecycle has one project, and no import or listing; the event
stream has no topics or pings; one pass at a time renders into the files of a chunk (the job
manager's slot refuses a second job only while the first one is live, so a pass that was begun
before a stop may still run beside the next job's), and a project is closed when no pass, pause
or reset is under way in it, which `close()` (`E/store/projects.py:302`) does not see to; the job manager has one caller at a time and no progress events; the writer no styles.

Data that no property tells apart is left out of the modelled components too:
kinds and character counts of blocks, identifiers and options of jobs, contents
of requests and answers, spelling, markup that carries no text.

## 7. Plan

Done: 1. `JobState`; 2. `JobLog`, `Job`; 3. `JobRoutes`; 4. `ChunkStore`;
5. `ChapterStore`; 6. `Supervisor`, with the engine process; 7. `Projects`;
8. `EventStream`; 9. `Worker`; 10. `Recording` (admission, scheduling, manager and
pass); 11. `Numerals`, `Text`, `Dialogue`, `Gender`, `Detectors`; 12. `Spans`, `Plan`,
`Reading`; 13. `Markup`, `Epub`, `EpubWriter`, `Intake`, `Ingest`; 14. `Devices`; and the
eight modules of proofs.

Left, in this order:

1. `Reading` with two clients and `ChapterStore`'s versions, in place of one list
   of current blocks.
2. The mux: chunks to chapters, marks as sums of durations, and the export over
   `ChunkStore`'s files (item 37).
3. Several projects in one engine, and the voices they share.
