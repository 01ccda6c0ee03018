------------------------------- MODULE Intake -------------------------------
(***************************************************************************)
(* A file becomes the chapters of a project (api/v1/ingest.py, ebook/      *)
(* detect.py, ebook/pdf.py, stage_epub() of ebook/epub_write.py and        *)
(* commit_epub() of store/chapters.py).                                    *)
(*                                                                         *)
(* A request runs on a thread of the pool, so that two may be underway.    *)
(* The user's files may change at any time; a file holds a book of Library,*)
(* or the copy the engine rendered of one.  What the reader says of a book *)
(* is given here and computed in Ingest.                                   *)
(***************************************************************************)
EXTENDS Integers, Sequences, FiniteSetsExt, TLC

CONSTANTS Library,     \* what a file may hold, by name: [magic, mimetype, archive, pdf]
          Suffix,      \* the files of the user, with the suffix of each
          Shelf,       \* what they may hold at first
          Later,       \* what the user may save over a file
          Threads,
          MaxEdits,    \* bound: edits
          MaxSaves,    \* bound: saves by the user
          MaxCrashes   \* bound: deaths of the engine

VARIABLES files,      \* what each file holds; also the two of the project
          partial,    \* what the temporary files of the two hold
          db,         \* the chapters and the revision, as the one connection sees them
          saved,      \* the same as they are committed
          reader,     \* what the reader says of each book, and of the copy rendered of it
          thread,     \* what a request has read and how far it is
          disturbed,  \* whether requests overlapped, failed half way, or files changed under them
          overtaken,  \* whether an edit was made between a transaction's check and its deletes
          saves,      \* saves so far
          crashes     \* deaths so far

intakeVars == <<files, partial, db, saved, reader, thread, disturbed, overtaken, saves, crashes>>
stored == <<db, saved, overtaken>>

NoFile == [book |-> "", rendered |-> FALSE]
Copy(content) == [content EXCEPT !.rendered = TRUE]
Project == {"original", "working"}
Paths == DOMAIN Suffix \cup Project

\* The two files of a project are the engine's own, and a file holds a book that has a name.
ASSUME IntakeAssumption ==
    /\ DOMAIN Suffix \cap Project = {} /\ "" \notin DOMAIN Suffix \cup DOMAIN Library
    /\ \A held \in Shelf : \A p \in DOMAIN held : p \in DOMAIN Suffix /\ held[p] \in DOMAIN Library
    /\ Later \subseteq DOMAIN Library
    /\ MaxEdits \in Nat /\ MaxSaves \in Nat /\ MaxCrashes \in Nat

Idle == [pc |-> "idle", path |-> "", book |-> NoFile, payload |-> NoFile]

\* The chapters of a project: the first one, the rest, and the book each is of.
Halves == {"first", "rest"}
HasChapters(d) == \E part \in Halves : d[part] # NoFile
AllOf(d, book) == \A part \in Halves : d[part] = book

-----------------------------------------------------------------------------
(* What a file is.                                                         *)

Formats == ".epub" :> "epub" @@ ".pdf" :> "pdf" @@ ".mobi" :> "mobi" @@ ".prc" :> "mobi"
           @@ ".azw3" :> "azw3" @@ ".azw" :> "azw"

\* _extension_format()
ByExtension(suffix) == IF suffix \in DOMAIN Formats THEN Formats[suffix] ELSE ""

\* _magic_format() and _palm_format()
ByMagic(file, suffix) ==
    CASE file.magic = "pdf" -> "pdf"
      [] file.magic = "palm" -> IF suffix \in {".azw3", ".azw"} THEN Formats[suffix] ELSE "mobi"
      [] file.magic = "zip" /\ (suffix = ".epub" \/ file.mimetype) -> "epub"
      [] OTHER -> ""

\* detect_format(): "" when the two disagree or say nothing.
AgreedFormat(magic, extension) == CASE magic = "" -> extension
                              [] magic # "" /\ extension \in {"", magic} -> magic
                              [] OTHER -> ""
Detected(file, suffix) == AgreedFormat(ByMagic(file, suffix), ByExtension(suffix))

PdfPages == 2   \* TEXT_LAYER_PAGES, which is 5, and fewer here

\* assert_pdf_text_layer(): a page that cannot be read is empty, a locked file is refused.
FirstPages(pdf) == {pdf.pages[k] : k \in 1..Min({Len(pdf.pages), PdfPages})}
PdfAnswer(pdf) ==
    CASE pdf.broken -> "ebook.parse_failed"
      [] ~pdf.broken /\ (pdf.password \/ "locked" \in FirstPages(pdf)) -> "ebook.drm_detected"
      [] OTHER -> IF "text" \in FirstPages(pdf) THEN "convert" ELSE "ebook.no_text_layer"

FormatOf(path) ==
    IF files[path].rendered THEN "epub"
    ELSE Detected(Library[files[path].book], IF path \in Project THEN ".epub" ELSE Suffix[path])

\* probe_ingest(): what a client is told of a file.
Told(content, format) ==
    CASE format = "" -> "ebook.unsupported_format"
      [] format = "epub" -> IF content \in DOMAIN reader THEN reader[content] ELSE "ebook.parse_failed"
      [] format = "pdf" -> PdfAnswer(Library[content.book].pdf)
      [] OTHER -> "convert"
Answer(path) == Told(files[path], FormatOf(path))

-----------------------------------------------------------------------------
(* A request to ingest.                                                    *)

Goes(t, pc) == thread' = [thread EXCEPT ![t].pc = pc]
Ends(t) == thread' = [thread EXCEPT ![t] = Idle]
Alone(t) == \A u \in Threads \ {t} : thread[u].pc = "idle"

\* commit_epub() up to the book: only an epub that can be read goes on.
Read(t, path) ==
    /\ thread[t].pc = "idle"
    /\ files[path] # NoFile
    /\ Answer(path) = "ok"
    /\ thread' = [thread EXCEPT ![t] = [Idle EXCEPT !.pc = "read", !.path = path, !.book = files[path]]]
    /\ disturbed' = (disturbed \/ ~Alone(t))
    /\ UNCHANGED <<files, partial, reader, saves, crashes, stored>>

\* What _refuse_reingest_after_edits() finds.
Edited == HasChapters(db) /\ db.revision # 0

\* The end of a session, which takes with it whatever other sessions sent on the connection.
Commits == saved' = db /\ UNCHANGED <<db, overtaken>>
RollsBack == db' = saved /\ UNCHANGED <<saved, overtaken>>

\* Mutant: the check before the files are written is left out.
CheckNothing(t) ==
    /\ thread[t].pc = "read"
    /\ Goes(t, "checked")
    /\ Commits
    /\ UNCHANGED <<files, partial, reader, disturbed, saves, crashes>>

\* The check before the files are written, in a session of its own.
Check(t) ==
    /\ thread[t].pc = "read"
    /\ \/ Edited /\ Ends(t) /\ RollsBack
       \/ ~Edited /\ Goes(t, "checked") /\ Commits
    /\ UNCHANGED <<files, partial, reader, disturbed, saves, crashes>>

\* Mutant: a file of the project is taken as any other.
TakeAny(t) ==
    /\ thread[t].pc = "checked"
    /\ thread' = [thread EXCEPT ![t].pc = "taken", ![t].payload = files[thread[t].path]]
    /\ UNCHANGED <<files, partial, reader, disturbed, saves, crashes, stored>>

\* stage_epub(): a file that would be written over is refused, another is read as it is now.
Take(t) ==
    /\ thread[t].pc = "checked"
    /\ IF thread[t].path \in Project THEN Ends(t)
       ELSE thread' = [thread EXCEPT ![t].pc = "taken", ![t].payload = files[thread[t].path]]
    /\ UNCHANGED <<files, partial, reader, disturbed, saves, crashes, stored>>

\* The first half of _atomic_bytes(): the temporary file, of which there is one for each.
Write(t, name, content, from, to) ==
    /\ thread[t].pc = from
    /\ partial' = [partial EXCEPT ![name] = content]
    /\ Goes(t, to)
    /\ UNCHANGED <<files, reader, disturbed, saves, crashes, stored>>

\* The second half: whatever it holds takes the place of the file; another request may
\* have moved it away.
Replace(t, name, from, to) ==
    /\ thread[t].pc = from
    /\ IF partial[name] = NoFile
       THEN Ends(t) /\ UNCHANGED <<files, partial>>
       ELSE /\ files' = [files EXCEPT ![name] = partial[name]]
            /\ partial' = [partial EXCEPT ![name] = NoFile]
            /\ Goes(t, to)
    /\ UNCHANGED <<reader, disturbed, saves, crashes, stored>>

Stage(t) == \/ Write(t, "original", thread[t].payload, "taken", "written1")
            \/ Replace(t, "original", "written1", "replaced1")
            \/ Write(t, "working", Copy(thread[t].book), "replaced1", "written2")
            \/ Replace(t, "working", "written2", "staged")

\* The end of stage_epub(): the file must not have changed since it was copied.
Compare(t) ==
    /\ thread[t].pc = "staged"
    /\ IF files[thread[t].path] # thread[t].payload THEN Ends(t) ELSE Goes(t, "same")
    /\ UNCHANGED <<files, partial, reader, disturbed, saves, crashes, stored>>

\* Mutant: the check in the transaction is left out.
VerifyNothing(t) ==
    /\ thread[t].pc = "same"
    /\ Goes(t, "verified")
    /\ UNCHANGED <<files, partial, reader, disturbed, saves, crashes, stored>>

\* The transaction looks again; other sessions use the connection before it goes on.
Verify(t) ==
    /\ thread[t].pc = "same"
    /\ \/ Edited /\ Ends(t) /\ RollsBack
       \/ ~Edited /\ Goes(t, "verified") /\ UNCHANGED stored
    /\ UNCHANGED <<files, partial, reader, disturbed, saves, crashes>>

\* _clear_chapters()
ClearChapters(t) ==
    /\ thread[t].pc = "verified"
    /\ Goes(t, "cleared")
    /\ db' = [db EXCEPT !.first = NoFile, !.rest = NoFile]
    /\ UNCHANGED <<files, partial, saved, reader, disturbed, overtaken, saves, crashes>>

\* _insert_book(), a flush for each chapter: uq_chapter_ordinal refuses a place that is taken.
Insert(t, part, from, to) ==
    /\ thread[t].pc = from
    /\ \/ db[part] # NoFile /\ Ends(t) /\ RollsBack
       \/ /\ db[part] = NoFile /\ Goes(t, to)
          /\ db' = [db EXCEPT ![part] = thread[t].book]
          /\ UNCHANGED <<saved, overtaken>>
    /\ UNCHANGED <<files, partial, reader, disturbed, saves, crashes>>

Commit(t) ==
    /\ thread[t].pc = "inserted"
    /\ Ends(t)
    /\ Commits
    /\ UNCHANGED <<files, partial, reader, disturbed, saves, crashes>>

Store(t) == \/ Verify(t) \/ ClearChapters(t)
            \/ Insert(t, "first", "cleared", "begun") \/ Insert(t, "rest", "begun", "inserted")
            \/ Commit(t)

-----------------------------------------------------------------------------
(* What goes on around it.                                                 *)

\* An edit of a chapter, which ChapterStore has in steps; its commit is that of all sessions.
Edit ==
    /\ HasChapters(db) /\ db.revision < MaxEdits
    /\ db' = [db EXCEPT !.revision = @ + 1]
    /\ saved' = db'
    /\ disturbed' = (disturbed \/ \E t \in Threads : thread[t].pc # "idle")
    /\ overtaken' = (overtaken \/ \E t \in Threads : thread[t].pc = "verified")
    /\ UNCHANGED <<files, partial, thread, reader, saves, crashes>>

\* A session that only reads, or that fails, ends under a transaction.
OtherSession ==
    /\ db # saved
    /\ Commits \/ RollsBack
    /\ disturbed' = TRUE
    /\ UNCHANGED <<files, partial, thread, reader, saves, crashes>>

\* The user saves another book over a file.
Save(path, book) ==
    /\ saves < MaxSaves /\ files[path].book # book
    /\ files' = [files EXCEPT ![path] = [NoFile EXCEPT !.book = book]]
    /\ disturbed' = (disturbed \/ \E t \in Threads : thread[t].path = path)
    /\ saves' = saves + 1
    /\ UNCHANGED <<partial, thread, reader, crashes, stored>>

\* The engine dies and is started again with what was committed.
Crash ==
    /\ crashes < MaxCrashes /\ \E t \in Threads : thread[t].pc # "idle"
    /\ thread' = [t \in Threads |-> Idle]
    /\ disturbed' = TRUE
    /\ crashes' = crashes + 1
    /\ RollsBack
    /\ UNCHANGED <<files, partial, reader, saves>>

IntakeInit == /\ \E held \in Shelf : files = [p \in Paths |-> IF p \in DOMAIN held THEN [NoFile EXCEPT !.book = held[p]] ELSE NoFile]
              /\ partial = [p \in Project |-> NoFile]
              /\ db = [first |-> NoFile, rest |-> NoFile, revision |-> 0]
              /\ saved = db
              /\ thread = [t \in Threads |-> Idle]
              /\ disturbed = FALSE /\ overtaken = FALSE
              /\ saves = 0 /\ crashes = 0

IntakeNext == \/ \E t \in Threads : \/ \E p \in Paths : Read(t, p)
                                    \/ Check(t) \/ Take(t) \/ Stage(t) \/ Compare(t) \/ Store(t)
              \/ Edit \/ OtherSession
              \/ \E p \in DOMAIN Suffix : \E b \in Later : Save(p, b)
              \/ Crash

IntakeSpec == IntakeInit /\ [][IntakeNext]_intakeVars

-----------------------------------------------------------------------------
\* No chapter of an edited book is replaced or deleted, however the sessions of requests mix
\* on the one connection, also when the edit was made while the book was copied into the
\* project or when half of the new chapters were sent; only an edit that came between the
\* check in a transaction and its deletes is not seen (store/chapters.py, commit_epub).
EditedBookStays ==
    [][~overtaken /\ saved.revision # 0 =>
         \A part \in Halves : saved[part] # NoFile => saved'[part] = saved[part]]_intakeVars

\* What the project keeps as the original is a file as the user gave it, never one that was
\* rendered; and when requests came one by one and no file changed under them, the stored
\* chapters, the original and the working copy are those of one book, also after a request
\* that was refused (stage_epub, commit_epub).
FilesFollowTheStore ==
    /\ ~files["original"].rendered
    /\ (~disturbed /\ (\A t \in Threads : thread[t].pc = "idle") /\ HasChapters(saved)) =>
          AllOf(saved, files["original"]) /\ files["working"] = Copy(files["original"])
=============================================================================
