---------------------------- MODULE ChapterStore ----------------------------
(***************************************************************************)
(* The chapter tree of the open project (store/chapters.py) in its SQLite  *)
(* database: chapters with ordinals, and blocks as versions that a         *)
(* revision opens and a later one closes.                                  *)
(*                                                                         *)
(* Every request is one session: it reads, works out its row changes, sends *)
(* them in two flushes (the revision and the closed versions, then the new *)
(* versions and the ordinals) and commits.  All sessions share the one     *)
(* connection of the engine (StaticPool, store/db.py), and with it its one *)
(* transaction: db is what the connection sees, saved what is committed.   *)
(* The routes are plain functions that the server runs in a pool of        *)
(* threads.  The manifest project.json is written while the changes are    *)
(* worked out, before the first flush.                                     *)
(*                                                                         *)
(* Texts are short sequences of code points.  Titles, the include flag,     *)
(* kinds, character counts and source references are left out, as are      *)
(* spans, which only apply_reading writes and no route calls.              *)
(***************************************************************************)
EXTENDS Integers, Sequences, FiniteSets, SequencesExt

CONSTANTS Book,         \* the chapters of the EPUB: sequences of block texts
          Drafts,       \* what an editor may submit: sequences of block texts
          Replacements, \* pairs of a searched character and its replacement
          Similar(_, _),\* whether two texts are similar enough to be one block
          Threads,      \* requests the server works on at the same time
          Now,          \* the end of a version that has none
          MaxRevision,  \* bound: revisions
          MaxChapters,  \* bound: chapter rows
          MaxBeside,    \* bound: the last revision at which a request begins beside another
          MaxCrashes    \* bound: deaths of the engine

ASSUME ChaptersAssumption ==
    /\ Book \in Seq(Seq(Seq(Nat))) /\ Drafts \subseteq Seq(Seq(Nat))
    /\ \A r \in Replacements : r[1] \in Nat /\ r[2] \in Seq(Nat)
    /\ Now \notin Nat /\ IsFiniteSet(Threads)
    /\ MaxRevision \in Nat /\ MaxChapters \in Nat /\ MaxBeside \in Nat /\ MaxCrashes \in Nat

VARIABLES db,       \* the database as the shared connection sees it
          saved,    \* the database as it is committed
          manifest, \* current_revision in project.json
          thread,   \* what every thread is doing
          overlapped, \* whether a session met another that the revision does not keep from it
          crashes

vars == <<db, saved, manifest, thread, overlapped, crashes>>

-----------------------------------------------------------------------------
Idle == [pc |-> "idle"]

Live(d) == {c \in DOMAIN d.chapters : d.chapters[c] >= 0}

Current(d, c) == {v \in d.versions : v.chapter = c /\ v.to = Now}

\* _current_blocks(): in the order of their ordinals.
CurrentBlocks(d, c) ==
    [i \in 1..Cardinality(Current(d, c)) |->
        CHOOSE v \in Current(d, c) :
            Cardinality({w \in Current(d, c) : w.ordinal < v.ordinal}) = i - 1]

\* _active(): the same of the chapters.
ActiveChapters(d) ==
    [i \in 1..Cardinality(Live(d)) |->
        CHOOSE c \in Live(d) :
            Cardinality({l \in Live(d) : d.chapters[l] < d.chapters[c]}) = i - 1]

Texts(blocks) == [i \in DOMAIN blocks |-> blocks[i].text]

\* new_id(): an identifier for each member of S, and none that is used.
Fresh(used, S) ==
    CHOOSE id \in Injection(S, (1..Cardinality(used) + Cardinality(S)) \ used) : TRUE

BlockIds == {v.id : v \in db.versions \cup saved.versions}
               \cup UNION {{v.id : v \in thread[t].insert} :
                             t \in {u \in Threads : thread[u] # Idle}}
ChapterIds == DOMAIN db.chapters \cup DOMAIN saved.chapters
               \cup UNION {DOMAIN thread[t].ordinals :
                             t \in {u \in Threads : thread[u] # Idle}}

\* _add_block(): a current version.
Version(id, c, ordinal, text, revision) ==
    [id |-> id, chapter |-> c, ordinal |-> ordinal, text |-> text,
     from |-> revision, to |-> Now]

\* _reversion_blocks(): current versions that keep their ids.
Reversioned(blocks, c, start, revision) ==
    {Version(blocks[i].id, c, start + i - 1, blocks[i].text, revision) : i \in DOMAIN blocks}

\* Mutant: the new chapter goes to the end of the book.
ShiftedToEnd(c, new) == [k \in {new} |-> Cardinality(Live(db))]

\* split(): the new chapter follows c and the later ones move up.
Shifted(c, new) ==
    [k \in {new} \cup {l \in Live(db) : db.chapters[l] > db.chapters[c]} |->
        IF k = new THEN db.chapters[c] + 1 ELSE db.chapters[k] + 1]

\* _next_tombstone()
Tombstone == Min({0} \cup {db.chapters[c] : c \in DOMAIN db.chapters}) - 1

\* Mutant: the chapters behind the removed one keep their ordinals.
RemovedLeavingGap(b) == [k \in {b} |-> Tombstone]

\* merge(): b leaves the tree and the later chapters move down.
Removed(b) ==
    [k \in {l \in Live(db) : db.chapters[l] >= db.chapters[b]} |->
        IF k = b THEN Tombstone ELSE db.chapters[k] - 1]

\* A session that has sent rows to the connection and not committed them.
Sending(t) == thread[t] # Idle /\ thread[t].pc \in {"flushed", "written"}

\* A session that reads or ends while another is sending.
MeetsSender(t) == overlapped' = (overlapped \/ \E u \in Threads \ {t} : Sending(u))

\* A session that sends beside another; of two that only edit, the second will be refused.
Rearranges(w) == w.op \in {"ingest", "reorder"}
SendsBeside(t) ==
    overlapped' = \/ overlapped
                  \/ \E u \in Threads \ {t} : /\ thread[u] # Idle
                                             /\ (Sending(u) \/ Rearranges(thread[t]) \/ Rearranges(thread[u]))

MayBegin(t) == /\ thread[t] = Idle
               /\ saved.rev > MaxBeside => \A u \in Threads : thread[u] = Idle

\* The session has read the rows and written the manifest; what it will send
\* is worked out.  _bump() takes the next revision, _touch() keeps it.
Plan(t, op, bumps, close, insert, ordinals) ==
    LET revision == IF bumps THEN db.rev + 1 ELSE db.rev
    IN  /\ revision <= MaxRevision
        /\ thread' = [thread EXCEPT ![t] =
               [pc |-> "planned", op |-> op, bumps |-> bumps, revision |-> revision,
                close |-> close, insert |-> insert, ordinals |-> ordinals]]
        /\ manifest' = revision
        /\ MeetsSender(t)
        /\ UNCHANGED <<db, saved, crashes>>

-----------------------------------------------------------------------------
Init == /\ db = [rev |-> 0, revisions |-> {0}, chapters |-> <<>>, versions |-> {}]
        /\ saved = db
        /\ manifest = 0
        /\ thread = [t \in Threads |-> Idle]
        /\ overlapped = FALSE
        /\ crashes = 0

\* _clear_chapters() and _insert_book()
InsertBook(t) ==
    LET places == UNION {{i} \X DOMAIN Book[i] : i \in DOMAIN Book}
        c == Fresh(ChapterIds, DOMAIN Book)
        b == Fresh(BlockIds, places)
    IN  Plan(t, "ingest", FALSE, db.versions,
             {Version(b[p], c[p[1]], p[2] - 1, Book[p[1]][p[2]], db.rev) : p \in places},
             [k \in ToSet(c) |-> (CHOOSE i \in DOMAIN Book : c[i] = k) - 1])

\* Mutant: a book may be ingested again after it was edited.
IngestAlways(t) == MayBegin(t) /\ InsertBook(t)

\* commit_epub(): the book replaces what is there, unless that was edited.
Ingest(t) ==
    /\ MayBegin(t)
    /\ DOMAIN db.chapters = {} \/ db.rev = 0
    /\ InsertBook(t)

\* update() of a title or of the include flag: only the manifest is of
\* interest here.
Update(t) ==
    /\ MayBegin(t)
    /\ Live(db) # {}
    /\ Plan(t, "update", FALSE, {}, {}, <<>>)

\* reorder(): any other permutation of the live chapters.
Reorder(t) ==
    /\ MayBegin(t)
    /\ \E order \in [Live(db) -> 0..Cardinality(Live(db)) - 1] :
         /\ \A a, b \in Live(db) : a # b => order[a] # order[b]
         /\ \E c \in Live(db) : order[c] # db.chapters[c]
         /\ Plan(t, "reorder", FALSE, {}, {}, order)

\* merge(): the later of two adjacent chapters is appended to the earlier one
\* and keeps its row under a negative ordinal.
Merge(t) ==
    /\ MayBegin(t)
    /\ \E a, b \in Live(db) :
         /\ db.chapters[b] = db.chapters[a] + 1
         /\ LET moved == CurrentBlocks(db, b)
            IN  Plan(t, "merge", TRUE, ToSet(moved),
                     Reversioned(moved, a, Len(CurrentBlocks(db, a)), db.rev + 1),
                     Removed(b))

\* split() between two blocks: at offset 0 of the first block that moves, or
\* at the end of the last one that stays.
SplitAtBoundary(t) ==
    /\ MayBegin(t)
    /\ Cardinality(DOMAIN db.chapters) < MaxChapters
    /\ \E c \in Live(db) : \E cut \in 1..Len(CurrentBlocks(db, c)) - 1 :
         LET blocks == CurrentBlocks(db, c)
             right  == SubSeq(blocks, cut + 1, Len(blocks))
             new    == Fresh(ChapterIds, {1})[1]
         IN  Plan(t, "split", TRUE, ToSet(right),
                  Reversioned(right, new, 0, db.rev + 1),
                  Shifted(c, new))

\* split() inside a block: the left piece keeps the id, the right piece is a
\* new block at the head of the new chapter.
SplitInside(t) ==
    /\ MayBegin(t)
    /\ Cardinality(DOMAIN db.chapters) < MaxChapters
    /\ \E c \in Live(db) : \E i \in DOMAIN CurrentBlocks(db, c) :
         LET blocks == CurrentBlocks(db, c)
             block  == blocks[i]
             right  == SubSeq(blocks, i + 1, Len(blocks))
             new    == Fresh(ChapterIds, {1})[1]
         IN  \E offset \in 1..Len(block.text) - 1 :
               Plan(t, "split", TRUE, {block} \cup ToSet(right),
                    {Version(block.id, c, block.ordinal,
                             SubSeq(block.text, 1, offset), db.rev + 1),
                     Version(Fresh(BlockIds, {1})[1], new, 0,
                             SubSeq(block.text, offset + 1, Len(block.text)), db.rev + 1)}
                      \cup Reversioned(right, new, 1, db.rev + 1),
                    Shifted(c, new))

\* associate_block_ids(): every piece gets the id of at most one similar block
\* and every block gives its id to at most one piece, as many as fit.
Associations(blocks, pieces) ==
    LET eligible == {e \in (DOMAIN pieces) \X (DOMAIN blocks) :
                        Similar(blocks[e[2]].text, pieces[e[1]])}
        matching(P) == \A p, q \in P : p # q => p[1] # q[1] /\ p[2] # q[2]
    IN  {P \in SUBSET eligible :
            matching(P) /\ \A e \in eligible \ P : ~matching(P \cup {e})}

\* put_text(): the editor's draft, based on the current revision, replaces the
\* blocks of a chapter.  A draft based on another revision is refused.
PutText(t) ==
    /\ MayBegin(t)
    /\ \E c \in Live(db), pieces \in Drafts :
         LET blocks == CurrentBlocks(db, c)
         IN  /\ Texts(blocks) # pieces
             /\ \E P \in Associations(blocks, pieces) :
                  LET new == Fresh(BlockIds, DOMAIN pieces)
                      idOf(n) == IF \E p \in P : p[1] = n
                                 THEN blocks[(CHOOSE p \in P : p[1] = n)[2]].id
                                 ELSE new[n]
                  IN  Plan(t, "put", TRUE, ToSet(blocks),
                           {Version(idOf(n), c, n - 1, pieces[n], db.rev + 1) :
                              n \in DOMAIN pieces},
                           <<>>)

Replaced(text, r) ==
    FlattenSeq([i \in DOMAIN text |-> IF text[i] = r[1] THEN r[2] ELSE <<text[i]>>])

\* replace() in one chapter or in all of them, unless nothing would change.
Replace(t) ==
    /\ MayBegin(t)
    /\ \E r \in Replacements, scope \in {{c} : c \in Live(db)} \cup {Live(db)} :
         LET edits == {v \in db.versions : /\ v.to = Now
                                           /\ v.chapter \in scope
                                           /\ Replaced(v.text, r) # v.text}
         IN  /\ edits # {}
             /\ Plan(t, "replace", TRUE, edits,
                     {Version(v.id, v.chapter, v.ordinal, Replaced(v.text, r), db.rev + 1) :
                        v \in edits},
                     <<>>)

-----------------------------------------------------------------------------
(* Sending the changes.  An error rolls the shared transaction back. *)

RollBack(t) == /\ db' = saved
               /\ thread' = [thread EXCEPT ![t] = Idle]
               /\ UNCHANGED <<saved, manifest, crashes>>

SameRow(v, w) == v.id = w.id /\ v.from = w.from

Closed(v, revision) == [v EXCEPT !.to = revision]

\* Mutant: the replaced versions are left open.
FlushRevisionOnly(t) ==
    /\ thread[t].pc = "planned"
    /\ LET w == thread[t]
       IN  db' = [db EXCEPT !.rev = w.revision, !.revisions = @ \cup {w.revision}]
    /\ thread' = [thread EXCEPT ![t].pc = "flushed"]
    /\ SendsBeside(t)
    /\ UNCHANGED <<saved, manifest, crashes>>

\* The revision and the versions it closes; commit_epub() deletes the rows instead.
AfterClosings(w, d) ==
    CASE w.op = "ingest" -> [d EXCEPT !.chapters = <<>>, !.versions = {}]
      [] w.bumps ->
           [d EXCEPT !.rev = w.revision,
                     !.revisions = @ \cup {w.revision},
                     !.versions = {IF \E c \in w.close : SameRow(c, v)
                                   THEN Closed(v, w.revision) ELSE v : v \in @}]
      [] OTHER -> d

\* _write_ordinals(): new ordinals over the old ones.
Over(new, old) ==
    [c \in DOMAIN new \cup DOMAIN old |-> IF c \in DOMAIN new THEN new[c] ELSE old[c]]

\* New versions, new chapters and ordinals.
AfterRows(w, d) ==
    [d EXCEPT !.versions = @ \cup w.insert, !.chapters = Over(w.ordinals, @)]

\* Mutant: a revision may be taken twice, as without its key.
FlushAnyRevision(t) ==
    /\ thread[t].pc = "planned"
    /\ SendsBeside(t)
    /\ db' = AfterClosings(thread[t], db)
    /\ thread' = [thread EXCEPT ![t].pc = "flushed"]
    /\ UNCHANGED <<saved, manifest, crashes>>

\* The first flush.  The key of the revision refuses an edit that read an older one.
FlushClosings(t) ==
    /\ thread[t].pc = "planned"
    /\ SendsBeside(t)
    /\ LET w == thread[t]
       IN  IF \/ w.bumps /\ w.revision \in db.revisions
              \/ w.op # "ingest" /\ \E c \in w.close : \A v \in db.versions : ~SameRow(c, v)
           THEN RollBack(t)
           ELSE /\ db' = AfterClosings(w, db)
                /\ thread' = [thread EXCEPT ![t].pc = "flushed"]
                /\ UNCHANGED <<saved, manifest, crashes>>

\* The second flush.  The keys and uq_chapter_ordinal must hold.
FlushRows(t) ==
    /\ thread[t].pc = "flushed"
    /\ UNCHANGED overlapped
    /\ LET w == thread[t]
       IN  IF \/ \E v \in w.insert, x \in db.versions : SameRow(v, x)
              \/ ~IsInjective(Over(w.ordinals, db.chapters))
           THEN RollBack(t)
           ELSE /\ db' = AfterRows(w, db)
                /\ thread' = [thread EXCEPT ![t].pc = "written"]
                /\ UNCHANGED <<saved, manifest, crashes>>

\* The commit takes whatever the connection holds.
Commit(t) ==
    /\ thread[t].pc = "written"
    /\ saved' = db
    /\ thread' = [thread EXCEPT ![t] = Idle]
    /\ UNCHANGED <<db, manifest, overlapped, crashes>>

\* A request that only reads commits, and one that is refused rolls back.
ReadOrRefuse(t) ==
    /\ MayBegin(t)
    /\ \/ saved' = db /\ UNCHANGED db
       \/ db' = saved /\ UNCHANGED saved
    /\ MeetsSender(t)
    /\ UNCHANGED <<manifest, thread, crashes>>

\* The engine dies, and the next one opens the project.
Crash == /\ crashes < MaxCrashes
         /\ crashes' = crashes + 1
         /\ db' = saved
         /\ thread' = [t \in Threads |-> Idle]
         /\ UNCHANGED <<saved, manifest, overlapped>>

Next == \/ \E t \in Threads : \/ Ingest(t) \/ Update(t) \/ Reorder(t) \/ Merge(t)
                              \/ SplitAtBoundary(t) \/ SplitInside(t)
                              \/ PutText(t) \/ Replace(t)
                              \/ FlushClosings(t) \/ FlushRows(t) \/ Commit(t)
                              \/ ReadOrRefuse(t)
        \/ Crash

Spec == Init /\ [][Next]_vars

-----------------------------------------------------------------------------
\* session_scope() is one transaction: whatever is committed, a block has at
\* most one current version, which lies in a chapter of the tree.
OneCurrentVersion ==
    \A v \in saved.versions : v.to = Now =>
        /\ v.chapter \in Live(saved)
        /\ \A w \in saved.versions : w.to = Now /\ w.id = v.id => w = v

\* The chapters of the tree are numbered 0, 1, 2, ... and so are the current
\* blocks of each, through every series of splits, merges and edits.
OrdinalsAreDense ==
    /\ {saved.chapters[c] : c \in Live(saved)} = 0..Cardinality(Live(saved)) - 1
    /\ \A c \in Live(saved) :
         {v.ordinal : v \in Current(saved, c)} = 0..Cardinality(Current(saved, c)) - 1

\* The tree: every block in one place, and no place missing or taken twice.  Sessions may
\* read the same rows and edit them at the same time, since the key of the revision lets only
\* one commit; what must not happen is that one uses the connection between the first rows of
\* another and its commit, or that a reorder or an ingest runs beside another change.
TreeIsSound == ~overlapped => OneCurrentVersion /\ OrdinalsAreDense

\* What a listener hears: the texts of the chapters in order.
BookText(d) ==
    FlattenSeq([i \in DOMAIN ActiveChapters(d) |->
                  FlattenSeq(Texts(CurrentBlocks(d, ActiveChapters(d)[i])))])

\* Splitting and merging chapters move text and never lose, repeat or reorder
\* any of it, also when the chapters were edited after they were read.
StructureKeepsText ==
    [][\A t \in Threads :
         /\ ~overlapped' /\ saved' # saved
         /\ thread[t] # Idle /\ thread[t].op \in {"split", "merge"} /\ thread'[t] = Idle
         => BookText(saved') = BookText(saved)]_vars

\* DATA_MODEL.md 1: the blocks of a chapter at revision r.
AtRevision(d, c, r) ==
    {<<v.id, v.ordinal, v.text>> :
        v \in {x \in d.versions : x.chapter = c /\ x.from <= r /\ (x.to = Now \/ x.to > r)}}

\* A revision that was committed reads the same for ever, also after later
\* edits, splits, merges and deaths, of sessions that read the same revision too; only a book
\* nobody has edited is replaced.
HistoryIsFixed ==
    [][~overlapped' /\ saved.rev > 0 =>
         \A c \in DOMAIN saved.chapters : \A r \in 0..saved.rev :
            AtRevision(saved', c, r) = AtRevision(saved, c, r)]_vars

=============================================================================
