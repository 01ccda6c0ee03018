-------------------------- MODULE Documents_proofs --------------------------
(***************************************************************************)
(* Proofs about how a file becomes chapters and how chapters become a      *)
(* recording.                                                              *)
(*                                                                         *)
(* Intake, for any books, whatever the reader says of them, any requests,  *)
(* saves, edits and deaths: the original of the project, its working copy  *)
(* and the chapters are those of one book, and edited chapters stay.       *)
(*                                                                         *)
(* Reading, for any chapters, lexicon and limits: what is committed was    *)
(* made from the text it is committed over, and the tiles of a text are in *)
(* order, hold every word and part where dialogue is taken up again,       *)
(* readings are committed on the words they were proposed for, and no two  *)
(* readings or tiles over the same words.                                  *)
(***************************************************************************)
EXTENDS Intake, Reading, FiniteSetTheorems, TLAPS

(***************************************************************************)
(* Intake.                                                                 *)
(***************************************************************************)

FileContent == [book : DOMAIN Library \cup {""}, rendered : BOOLEAN]

Rows == [first : FileContent, rest : FileContent, revision : Nat]

\* The steps of a request: those with rows that are not committed, those after it has replaced
\* the original and those after it has taken its file.
Sent == {"cleared", "begun", "inserted"}
Late == {"replaced1", "written2", "staged", "same", "verified"} \cup Sent
Taken == {"taken", "written1"} \cup Late
Busy == {"read", "checked"} \cup Taken

Request == [pc : Busy \cup {"idle"}, path : Paths \cup {""}, book : FileContent, payload : FileContent]

IntakeType == /\ files \in [Paths -> FileContent]
              /\ partial \in [Project -> FileContent]
              /\ db \in Rows /\ saved \in Rows
              /\ thread \in [Threads -> Request]
              /\ disturbed \in BOOLEAN /\ overtaken \in BOOLEAN

\* What was rendered never gets to where an original is made from.
AsGiven == /\ \A p \in DOMAIN Suffix : ~files[p].rendered
           /\ ~files["original"].rendered /\ ~partial["original"].rendered
           /\ \A t \in Threads : ~thread[t].payload.rendered

\* A request has a book, and one that wrote has it from a file of the user.
HasABook == \A t \in Threads :
               /\ thread[t].pc \in Busy => thread[t].path \in Paths /\ thread[t].book # NoFile
               /\ thread[t].pc \in Taken => thread[t].path \notin Project

\* An edit is committed with its chapters, the connection has them as they are committed, and
\* no transaction that is past its check is about to delete them.
EditsAreKept ==
    /\ saved.revision = db.revision
    /\ ~overtaken /\ saved.revision # 0 =>
         /\ HasChapters(saved)
         /\ \A part \in Halves : saved[part] # NoFile => db[part] = saved[part]
         /\ \A t \in Threads : thread[t].pc # "verified"

\* What a step does to the chapters of an edited book.
Keeps == ~overtaken /\ saved.revision # 0 =>
            \A part \in Halves : saved[part] # NoFile => saved'[part] = saved[part]

\* The files of the project are of the book that is stored, and all of it is committed.
Follows == /\ db = saved
           /\ HasChapters(saved) => AllOf(saved, files["original"]) /\ files["working"] = Copy(files["original"])

\* How far a request that was left alone is.
Progress(r) ==
    /\ r.book = files[r.path]
    /\ r.pc \notin {"read", "verified"} \cup Sent => ~Edited
    /\ r.pc \in Taken => r.payload = r.book
    /\ r.pc \notin Late => Follows
    /\ r.pc = "written1" => partial["original"] = r.book
    /\ r.pc \in Late => files["original"] = r.book
    /\ r.pc = "written2" => partial["working"] = Copy(r.book)
    /\ r.pc \in {"staged", "same", "verified"} \cup Sent => files["working"] = Copy(r.book)
    /\ r.pc \notin Sent => db = saved
    /\ r.pc \in {"cleared", "begun"} => db.rest = NoFile
    /\ r.pc = "cleared" => db.first = NoFile
    /\ r.pc \in {"begun", "inserted"} => db.first = r.book
    /\ r.pc = "inserted" => db.rest = r.book

\* Undisturbed, one request is underway, or none and the files follow the store.
InPeace == ~disturbed =>
             /\ \A t, u \in Threads : thread[t].pc \in Busy /\ thread[u].pc \in Busy => t = u
             /\ \A t \in Threads : thread[t].pc \in Busy => Progress(thread[t])
             /\ (\A t \in Threads : thread[t].pc = "idle") => Follows

FilesInv == IntakeType /\ AsGiven /\ HasABook /\ InPeace

IntakeInv == FilesInv /\ EditsAreKept

LEMMA FilesAre ==
    /\ NoFile \in FileContent /\ ~NoFile.rendered /\ NoFile.book = ""
    /\ \A c \in FileContent : /\ Copy(c) \in FileContent /\ Copy(c) # NoFile
                             /\ Copy(c).rendered /\ Copy(c).book = c.book
    /\ "original" \in Paths /\ "working" \in Paths /\ DOMAIN Suffix \subseteq Paths
    /\ "original" \notin DOMAIN Suffix /\ "working" \notin DOMAIN Suffix
    /\ Project = {"original", "working"} /\ Idle \in Request /\ Idle.pc = "idle"
    /\ Busy = {"read", "checked", "taken", "written1", "replaced1", "written2", "staged", "same",
               "verified", "cleared", "begun", "inserted"}
    /\ Taken = {"taken", "written1", "replaced1", "written2", "staged", "same",
                "verified", "cleared", "begun", "inserted"}
  BY IntakeAssumption DEF NoFile, FileContent, Copy, Paths, Project, Idle, Request, Busy, Taken, Late, Sent

LEMMA IntakeStart == IntakeInit => IntakeInv
  <1>. SUFFICES ASSUME IntakeInit
                PROVE  IntakeInv
    OBVIOUS
  <1>1. PICK held \in Shelf :
          files = [p \in Paths |-> IF p \in DOMAIN held THEN [NoFile EXCEPT !.book = held[p]] ELSE NoFile]
    BY DEF IntakeInit
  <1>2. /\ partial = [p \in Project |-> NoFile] /\ db = [first |-> NoFile, rest |-> NoFile, revision |-> 0]
        /\ thread = [t \in Threads |-> Idle] /\ disturbed = FALSE /\ overtaken = FALSE /\ saved = db
    BY DEF IntakeInit
  <1>3. \A p \in Paths : files[p] \in FileContent /\ ~files[p].rendered
    BY <1>1, IntakeAssumption DEF FileContent, NoFile
  <1>4. IntakeType
    BY <1>1, <1>2, <1>3, FilesAre DEF IntakeType, Rows
  <1>5. AsGiven
    BY <1>2, <1>3, FilesAre DEF AsGiven, Idle
  <1>6. ~HasChapters(saved) /\ db = saved /\ saved.revision = 0
    BY <1>2 DEF HasChapters, Halves
  <1>7. HasABook /\ EditsAreKept /\ InPeace
    BY <1>2, <1>6, FilesAre DEF HasABook, EditsAreKept, InPeace, Follows
  <1>. QED
    BY <1>4, <1>5, <1>7 DEF IntakeInv, FilesInv

\* With one request underway its progress says everything.
LEMMA OneUnderway ==
    ASSUME NEW t \in Threads, IntakeType',
           \A u \in Threads \ {t} : thread'[u].pc = "idle",
           thread'[t].pc \in Busy => Progress(thread[t])',
           thread'[t].pc = "idle" => Follows'
    PROVE  InPeace'
  <1>1. \A u \in Threads : thread'[u].pc \in Busy => u = t
    BY FilesAre
  <1>2. ASSUME \A u \in Threads : thread'[u].pc = "idle"
        PROVE  Follows'
    BY <1>2
  <1>3. \A u \in Threads : thread'[u].pc \in Busy => Progress(thread[u])'
    BY <1>1
  <1>. QED
    BY <1>1, <1>2, <1>3 DEF InPeace

\* What a step of an undisturbed request finds.
LEMMA LeftAlone ==
    ASSUME IntakeInv, NEW t \in Threads, thread[t].pc \in Busy, ~disturbed
    PROVE  Progress(thread[t]) /\ \A u \in Threads \ {t} : thread[u].pc = "idle"
  BY DEF IntakeInv, FilesInv, InPeace, IntakeType, Request

\* A step that ends a request, or moves it and leaves what it holds.
LEMMA Moving ==
    ASSUME IntakeInv, NEW t \in Threads, NEW to \in Busy, thread[t].pc \in Busy,
           Ends(t) \/ Goes(t, to), to \in Taken => thread[t].pc \in Taken
    PROVE  /\ thread' \in [Threads -> Request] /\ HasABook'
           /\ \A u \in Threads : thread'[u].payload = thread[u].payload \/ thread'[u].payload = NoFile
           /\ \A u \in Threads \ {t} : thread'[u] = thread[u]
           /\ Goes(t, to) => /\ thread'[t].pc = to /\ thread'[t].book = thread[t].book
                             /\ thread'[t].path = thread[t].path /\ thread'[t].payload = thread[t].payload
           /\ Ends(t) => thread'[t] = Idle
  <1>1. thread \in [Threads -> Request] /\ HasABook
    BY DEF IntakeInv, FilesInv, IntakeType
  <1>2. CASE Ends(t)
    <2>1. thread' = [thread EXCEPT ![t] = Idle]
      BY <1>2 DEF Ends
    <2>2. thread' \in [Threads -> Request]
      BY <1>1, <2>1, FilesAre
    <2>3. HasABook'
      BY <1>1, <2>1, FilesAre DEF HasABook
    <2>4. ~Goes(t, to)
      <3>1. SUFFICES ASSUME thread' = [thread EXCEPT ![t].pc = to]
                     PROVE  FALSE
        BY DEF Goes
      <3>2. thread'[t].pc = to
        BY <1>1, <3>1 DEF Request
      <3>3. thread'[t].pc = "idle" /\ to # "idle"
        BY <1>1, <2>1, FilesAre
      <3>. QED
        BY <3>2, <3>3
    <2>. QED
      BY <1>1, <2>1, <2>2, <2>3, <2>4 DEF Idle
  <1>3. CASE Goes(t, to)
    <2>1. thread' = [thread EXCEPT ![t].pc = to]
      BY <1>3 DEF Goes
    <2>2. thread' \in [Threads -> Request]
      BY <1>1, <2>1 DEF Request
    <2>3. /\ thread'[t].pc = to /\ thread'[t].book = thread[t].book
          /\ thread'[t].path = thread[t].path /\ thread'[t].payload = thread[t].payload
          /\ \A u \in Threads \ {t} : thread'[u] = thread[u]
      BY <1>1, <2>1 DEF Request
    <2>4. HasABook'
      BY <1>1, <2>3 DEF HasABook
    <2>5. ~Ends(t)
      BY <1>1, <2>3, FilesAre DEF Ends
    <2>. QED
      BY <2>2, <2>3, <2>4, <2>5
  <1>. QED
    BY <1>2, <1>3

\* Steps that leave the database alone, and do not get a transaction past its check.
LEMMA RowsUntouched ==
    ASSUME IntakeInv, UNCHANGED stored,
           \A u \in Threads : thread'[u].pc = "verified" => thread[u].pc = "verified"
    PROVE  EditsAreKept' /\ Keeps
  <1>1. db' = db /\ saved' = saved /\ overtaken' = overtaken /\ EditsAreKept
    BY DEF stored, IntakeInv, FilesInv
  <1>2. HasChapters(saved)' = HasChapters(saved)
    BY <1>1 DEF HasChapters
  <1>. QED
    BY <1>1, <1>2 DEF EditsAreKept, Keeps

\* The end of a session leaves what was edited, in the database and on the connection.
LEMMA EndOfSession ==
    ASSUME IntakeInv, Commits \/ RollsBack,
           \A u \in Threads : thread'[u].pc = "verified" => thread[u].pc = "verified"
    PROVE  EditsAreKept' /\ Keeps /\ db' \in Rows /\ saved' \in Rows /\ overtaken' = overtaken
           /\ (db = saved => db' = db /\ saved' = saved)
  <1>1. /\ overtaken' = overtaken /\ EditsAreKept /\ db \in Rows /\ saved \in Rows
        /\ (db' = db /\ saved' = db) \/ (db' = saved /\ saved' = saved)
    BY DEF Commits, RollsBack, IntakeInv, FilesInv, IntakeType
  <1>2. ASSUME ~overtaken, saved.revision # 0
        PROVE  /\ HasChapters(saved)' /\ \A t \in Threads : thread'[t].pc # "verified"
               /\ \A part \in Halves : saved[part] # NoFile => saved'[part] = saved[part]
    <2>1. /\ \A part \in Halves : saved[part] # NoFile => db[part] = saved[part]
          /\ HasChapters(saved) /\ \A t \in Threads : thread[t].pc # "verified"
      BY <1>1, <1>2 DEF EditsAreKept
    <2>2. \A part \in Halves : saved[part] # NoFile => saved'[part] = saved[part]
      BY <1>1, <2>1
    <2>. QED
      BY <2>1, <2>2 DEF HasChapters
  <1>3. saved'.revision = saved.revision /\ saved'.revision = db'.revision /\ saved' = db'
    BY <1>1 DEF EditsAreKept
  <1>. QED
    BY <1>1, <1>2, <1>3 DEF EditsAreKept, Keeps

LEMMA ReadStep ==
    ASSUME IntakeInv, NEW t \in Threads, NEW p \in Paths, Read(t, p)
    PROVE  FilesInv'
  <1>1. /\ thread' = [thread EXCEPT ![t] = [Idle EXCEPT !.pc = "read", !.path = p, !.book = files[p]]]
        /\ thread[t].pc = "idle" /\ files[p] # NoFile /\ disturbed' = (disturbed \/ ~Alone(t))
        /\ files' = files /\ partial' = partial /\ db' = db /\ saved' = saved /\ overtaken' = overtaken
    BY DEF Read, stored
  <1>2. /\ IntakeType /\ thread \in [Threads -> Request] /\ files[p] \in FileContent
        /\ AsGiven /\ HasABook
    BY DEF IntakeInv, FilesInv, IntakeType
  <1>3. /\ thread'[t].pc = "read" /\ thread'[t].path = p /\ thread'[t].book = files[p]
        /\ thread'[t].payload = NoFile /\ thread'[t] \in Request
        /\ \A u \in Threads \ {t} : thread'[u] = thread[u]
    <2>1. Idle \in Request /\ "read" \in Busy /\ Idle.payload = NoFile
      BY FilesAre DEF Idle
    <2>. QED
      BY <1>1, <1>2, <2>1 DEF Request
  <1>4. IntakeType'
    BY <1>1, <1>2, <1>3 DEF IntakeType
  <1>5. AsGiven'
    BY <1>1, <1>2, <1>3, FilesAre DEF AsGiven
  <1>6. HasABook'
    <2>1. "read" \notin Taken
      BY FilesAre
    <2>. QED
      BY <1>1, <1>2, <1>3, <2>1 DEF HasABook
  <1>7. ASSUME ~disturbed'
        PROVE  InPeace'
    <2>1. ~disturbed /\ \A u \in Threads \ {t} : thread[u].pc = "idle"
      BY <1>1, <1>7 DEF Alone
    <2>2. Follows
      BY <1>1, <2>1 DEF IntakeInv, FilesInv, InPeace
    <2>3. Progress(thread[t])'
      <3>1. "read" \notin Taken /\ "read" \notin Late /\ "read" \notin Sent
        BY DEF Taken, Late, Sent
      <3>2. Follows' /\ (db = saved)'
        BY <1>1, <2>2 DEF Follows
      <3>. QED
        BY <1>1, <1>3, <3>1, <3>2 DEF Progress
    <2>. QED
      BY <1>1, <1>3, <1>4, <2>1, <2>2, <2>3, OneUnderway DEF Follows
  <1>. QED
    BY <1>4, <1>5, <1>6, <1>7 DEF FilesInv, InPeace

LEMMA CheckStep ==
    ASSUME IntakeInv, NEW t \in Threads, Check(t)
    PROVE  IntakeInv' /\ Keeps
  <1>1. /\ thread[t].pc = "read" /\ ((Edited /\ Ends(t)) \/ (~Edited /\ Goes(t, "checked")))
        /\ Commits \/ RollsBack
        /\ files' = files /\ partial' = partial /\ disturbed' = disturbed
    BY DEF Check
  <1>2. IntakeType /\ AsGiven /\ "checked" \in Busy /\ "checked" \notin Taken
    BY FilesAre DEF IntakeInv, FilesInv
  <1>3. /\ thread' \in [Threads -> Request] /\ HasABook'
        /\ \A u \in Threads : thread'[u].payload = thread[u].payload \/ thread'[u].payload = NoFile
        /\ \A u \in Threads \ {t} : thread'[u] = thread[u]
        /\ Goes(t, "checked") => thread'[t].pc = "checked" /\ thread'[t].book = thread[t].book
                                  /\ thread'[t].path = thread[t].path
        /\ Ends(t) => thread'[t] = Idle
    <2>1. thread[t].pc \in Busy /\ (Ends(t) \/ Goes(t, "checked"))
      BY <1>1, FilesAre
    <2>. QED
      BY <1>2, <2>1, Moving
  <1>4. \A u \in Threads : thread'[u].pc = "verified" => thread[u].pc = "verified"
    BY <1>1, <1>3, FilesAre
  <1>5. /\ EditsAreKept' /\ Keeps /\ db' \in Rows /\ saved' \in Rows /\ overtaken' = overtaken
        /\ (db = saved => db' = db /\ saved' = saved)
    BY <1>1, <1>4, EndOfSession
  <1>6. IntakeType' /\ AsGiven'
    BY <1>1, <1>2, <1>3, <1>5, FilesAre DEF IntakeType, AsGiven
  <1>7. ASSUME ~disturbed'
        PROVE  InPeace'
    <2>1. Progress(thread[t]) /\ \A u \in Threads \ {t} : thread'[u].pc = "idle"
      <3>1. thread[t].pc \in Busy /\ ~disturbed
        BY <1>1, <1>7 DEF Busy
      <3>. QED
        BY <1>3, <3>1, LeftAlone
    <2>2. Follows
      BY <1>1, <2>1 DEF Progress, Late, Sent
    <2>3. db' = db /\ saved' = saved
      BY <1>5, <2>2 DEF Follows
    <2>4. Follows'
      BY <1>1, <2>2, <2>3 DEF Follows
    <2>5. thread'[t].pc \in Busy => Progress(thread[t])'
      BY <1>1, <1>3, <2>1, <2>3, <2>4, FilesAre DEF Progress, Late, Sent, Edited, Follows
    <2>. QED
      BY <1>6, <2>1, <2>4, <2>5, OneUnderway
  <1>. QED
    BY <1>3, <1>5, <1>6, <1>7 DEF IntakeInv, FilesInv, InPeace

LEMMA TakeStep ==
    ASSUME IntakeInv, NEW t \in Threads, Take(t)
    PROVE  FilesInv'
  <1>1. /\ thread[t].pc = "checked"
        /\ files' = files /\ partial' = partial /\ disturbed' = disturbed
        /\ db' = db /\ saved' = saved /\ overtaken' = overtaken
    BY DEF Take, stored
  <1>2. /\ IntakeType /\ thread \in [Threads -> Request] /\ AsGiven /\ HasABook
        /\ thread[t].pc \in Busy
    BY <1>1 DEF IntakeInv, FilesInv, IntakeType, Busy
  <1>3. ASSUME ~disturbed'
        PROVE  /\ Progress(thread[t]) /\ Follows' /\ ~Edited'
               /\ \A u \in Threads \ {t} : thread[u].pc = "idle"
    <2>1. Progress(thread[t]) /\ \A u \in Threads \ {t} : thread[u].pc = "idle"
      BY <1>1, <1>2, <1>3, LeftAlone
    <2>2. Follows /\ ~Edited
      BY <1>1, <2>1 DEF Progress, Late, Sent
    <2>. QED
      BY <1>1, <2>1, <2>2 DEF Follows, Edited
  <1>4. CASE Ends(t)
    <2>1. /\ thread' \in [Threads -> Request] /\ HasABook'
          /\ \A u \in Threads : thread'[u].payload = thread[u].payload \/ thread'[u].payload = NoFile
          /\ \A u \in Threads \ {t} : thread'[u] = thread[u]
          /\ thread'[t] = Idle
      BY <1>2, <1>4, FilesAre, Moving
    <2>2. IntakeType' /\ AsGiven'
      BY <1>1, <1>2, <2>1, FilesAre DEF IntakeType, AsGiven
    <2>3. ASSUME ~disturbed'
          PROVE  InPeace'
      <3>1. thread'[t].pc = "idle" /\ "idle" \notin Busy
        BY <2>1, FilesAre
      <3>. QED
        BY <1>3, <2>1, <2>2, <2>3, <3>1, OneUnderway
    <2>. QED
      BY <2>1, <2>2, <2>3 DEF FilesInv, InPeace
  <1>5. CASE ~Ends(t)
    <2>1. /\ thread[t].path \notin Project
          /\ thread' = [thread EXCEPT ![t].pc = "taken", ![t].payload = files[thread[t].path]]
      BY <1>5 DEF Take
    <2>2. thread[t].path \in DOMAIN Suffix /\ thread[t].path \in Paths /\ thread[t].book # NoFile
      BY <1>2, <2>1 DEF HasABook, Paths
    <2>3. files[thread[t].path] \in FileContent /\ ~files[thread[t].path].rendered
      BY <1>2, <2>2 DEF IntakeType, AsGiven
    <2>4. /\ thread'[t].pc = "taken" /\ thread'[t].path = thread[t].path /\ thread'[t].book = thread[t].book
          /\ thread'[t].payload = files[thread[t].path] /\ thread'[t] \in Request
          /\ \A u \in Threads \ {t} : thread'[u] = thread[u]
          /\ thread' \in [Threads -> Request]
      <3>1. PICK held \in FileContent : held = files[thread[t].path]
        BY <2>3
      <3>2. thread' = [thread EXCEPT ![t].pc = "taken", ![t].payload = held]
        BY <2>1, <3>1
      <3>3. "taken" \in Busy
        BY FilesAre
      <3>4. /\ thread'[t].pc = "taken" /\ thread'[t].path = thread[t].path
            /\ thread'[t].book = thread[t].book /\ thread'[t].payload = held
            /\ thread'[t] \in Request
        BY <1>2, <3>2, <3>3 DEF Request
      <3>5. \A u \in Threads \ {t} : thread'[u] = thread[u]
        BY <1>2, <3>2
      <3>6. thread' \in [Threads -> Request]
        BY <1>2, <3>2, <3>4
      <3>. QED
        BY <3>1, <3>4, <3>5, <3>6
    <2>5. IntakeType'
      BY <1>1, <1>2, <2>4 DEF IntakeType
    <2>6. AsGiven'
      BY <1>1, <1>2, <2>3, <2>4 DEF AsGiven
    <2>7. HasABook'
      BY <1>2, <2>1, <2>2, <2>4 DEF HasABook
    <2>8. ASSUME ~disturbed'
          PROVE  InPeace'
      <3>1. thread[t].book = files[thread[t].path]
        BY <1>3, <2>8 DEF Progress
      <3>2. Progress(thread[t])'
        BY <1>1, <1>3, <2>4, <2>8, <3>1 DEF Progress, Late, Sent
      <3>. QED
        BY <1>3, <2>4, <2>5, <2>8, <3>2, OneUnderway
    <2>. QED
      BY <2>5, <2>6, <2>7, <2>8 DEF FilesInv, InPeace
  <1>. QED
    BY <1>4, <1>5

\* The pairs of steps that write a file and put it in its place.
LEMMA WriteStep ==
    ASSUME IntakeInv, NEW t \in Threads, NEW name \in Project, NEW content \in FileContent,
           NEW from \in Busy, NEW to \in Taken, Write(t, name, content, from, to),
           from \in Taken, name = "original" => ~content.rendered,
           \/ /\ from = "taken" /\ to = "written1" /\ name = "original" /\ content = thread[t].payload
           \/ /\ from = "replaced1" /\ to = "written2" /\ name = "working" /\ content = Copy(thread[t].book)
    PROVE  FilesInv'
  <1>1. /\ thread[t].pc = from /\ Goes(t, to) /\ partial' = [partial EXCEPT ![name] = content]
        /\ files' = files /\ disturbed' = disturbed
        /\ db' = db /\ saved' = saved /\ overtaken' = overtaken
    BY DEF Write, stored
  <1>2. /\ IntakeType /\ partial \in [Project -> FileContent] /\ thread[t].pc \in Busy
        /\ AsGiven /\ to \in Busy
    BY <1>1 DEF IntakeInv, FilesInv, IntakeType, Busy
  <1>3. /\ thread' \in [Threads -> Request] /\ HasABook'
        /\ \A u \in Threads : thread'[u].payload = thread[u].payload \/ thread'[u].payload = NoFile
        /\ \A u \in Threads \ {t} : thread'[u] = thread[u]
        /\ thread'[t].pc = to /\ thread'[t].book = thread[t].book
        /\ thread'[t].path = thread[t].path /\ thread'[t].payload = thread[t].payload
        /\ Ends(t) => thread'[t] = Idle
    BY <1>1, <1>2, Moving
  <1>4. partial' \in [Project -> FileContent] /\ partial'[name] = content
    BY <1>1, <1>2
  <1>5. IntakeType'
    BY <1>1, <1>2, <1>3, <1>4 DEF IntakeType
  <1>6. ~partial'["original"].rendered
    BY <1>1, <1>2 DEF AsGiven, Project
  <1>7. AsGiven'
    BY <1>1, <1>2, <1>3, <1>6, FilesAre DEF AsGiven
  <1>8. ASSUME ~disturbed'
        PROVE  InPeace'
    <2>1. Progress(thread[t]) /\ \A u \in Threads \ {t} : thread[u].pc = "idle"
      BY <1>1, <1>2, <1>8, LeftAlone
    <2>2. thread[t].book = files[thread[t].path] /\ ~Edited /\ thread[t].payload = thread[t].book
      BY <1>1, <2>1 DEF Progress, Taken, Late, Sent
    <2>3. /\ from = "taken" => Follows
          /\ from = "replaced1" => files["original"] = thread[t].book
      BY <1>1, <2>1 DEF Progress, Late, Sent
    <2>4. ~Edited' /\ (Follows => Follows') /\ (db = saved)'
      <3>1. db = saved
        BY <1>1, <2>1 DEF Progress, Sent
      <3>. QED
        BY <1>1, <2>2, <3>1 DEF Edited, Follows
    <2>5. Progress(thread[t])'
      BY <1>1, <1>3, <1>4, <2>2, <2>3, <2>4 DEF Progress, Late, Sent
    <2>6. \A u \in Threads \ {t} : thread'[u].pc = "idle"
      BY <1>3, <2>1
    <2>7. thread'[t].pc # "idle"
      BY <1>3, FilesAre
    <2>. QED
      BY <1>5, <2>5, <2>6, <2>7, OneUnderway
  <1>. QED
    BY <1>3, <1>5, <1>7, <1>8 DEF FilesInv, InPeace

LEMMA ReplaceStep ==
    ASSUME IntakeInv, NEW t \in Threads, NEW name \in Project, NEW from \in Taken, NEW to \in Taken,
           Replace(t, name, from, to),
           \/ from = "written1" /\ to = "replaced1" /\ name = "original"
           \/ from = "written2" /\ to = "staged" /\ name = "working"
    PROVE  FilesInv'
  <1>1. /\ thread[t].pc = from /\ db' = db /\ saved' = saved /\ overtaken' = overtaken
        /\ disturbed' = disturbed /\ from \in Busy /\ to \in Busy
        /\ \/ Ends(t) /\ files' = files /\ partial' = partial /\ partial[name] = NoFile
           \/ /\ Goes(t, to) /\ files' = [files EXCEPT ![name] = partial[name]]
              /\ partial' = [partial EXCEPT ![name] = NoFile]
    BY DEF Replace, stored, Busy
  <1>2. /\ IntakeType /\ files \in [Paths -> FileContent] /\ partial \in [Project -> FileContent]
        /\ AsGiven /\ HasABook /\ name \in Paths
    BY DEF IntakeInv, FilesInv, IntakeType, Paths
  <1>3. /\ thread' \in [Threads -> Request] /\ HasABook'
        /\ \A u \in Threads : thread'[u].payload = thread[u].payload \/ thread'[u].payload = NoFile
        /\ \A u \in Threads \ {t} : thread'[u] = thread[u]
        /\ Goes(t, to) => /\ thread'[t].pc = to /\ thread'[t].book = thread[t].book
                          /\ thread'[t].path = thread[t].path /\ thread'[t].payload = thread[t].payload
    BY <1>1, Moving
  <1>4. files' \in [Paths -> FileContent] /\ partial' \in [Project -> FileContent]
    BY <1>1, <1>2, FilesAre
  <1>5. IntakeType'
    BY <1>1, <1>2, <1>3, <1>4 DEF IntakeType
  <1>6. /\ \A p \in DOMAIN Suffix : files'[p] = files[p]
        /\ ~files'["original"].rendered /\ ~partial'["original"].rendered
    BY <1>1, <1>2, FilesAre DEF AsGiven
  <1>7. AsGiven'
    BY <1>1, <1>2, <1>3, <1>6, FilesAre DEF AsGiven
  <1>8. ASSUME ~disturbed'
        PROVE  InPeace'
    <2>1. Progress(thread[t]) /\ \A u \in Threads \ {t} : thread[u].pc = "idle"
      BY <1>1, <1>8, LeftAlone
    <2>2. thread[t].book # NoFile /\ thread[t].book \in FileContent /\ thread[t].path \in DOMAIN Suffix
      BY <1>1, <1>2 DEF HasABook, Paths, IntakeType, Request
    <2>3. /\ thread[t].book = files[thread[t].path] /\ ~Edited /\ thread[t].payload = thread[t].book
          /\ from = "written1" => partial["original"] = thread[t].book
          /\ from = "written2" => /\ partial["working"] = Copy(thread[t].book)
                                  /\ files["original"] = thread[t].book
      BY <1>1, <2>1 DEF Progress, Taken, Late, Sent
    <2>4. partial[name] # NoFile
      BY <2>2, <2>3, FilesAre
    <2>5. /\ Goes(t, to) /\ files' = [files EXCEPT ![name] = partial[name]]
      BY <1>1, <2>4
    <2>6. /\ files'[name] = partial[name]
          /\ name = "working" => files'["original"] = files["original"]
          /\ files'[thread[t].path] = files[thread[t].path]
      BY <1>2, <1>6, <2>2, <2>5, FilesAre
    <2>7. Progress(thread[t])'
      <3>1. ~Edited' /\ (db = saved)'
        <4>1. db = saved
          BY <1>1, <2>1 DEF Progress, Sent
        <4>. QED
          BY <1>1, <2>3, <4>1 DEF Edited
      <3>. QED
        BY <1>3, <2>3, <2>5, <2>6, <3>1 DEF Progress, Late, Sent
    <2>8. (\A u \in Threads \ {t} : thread'[u].pc = "idle") /\ thread'[t].pc # "idle"
      BY <1>3, <2>1, <2>5, FilesAre
    <2>. QED
      BY <1>5, <2>7, <2>8, OneUnderway
  <1>. QED
    BY <1>3, <1>5, <1>7, <1>8 DEF FilesInv, InPeace

LEMMA CompareStep ==
    ASSUME IntakeInv, NEW t \in Threads, Compare(t)
    PROVE  FilesInv'
  <1>1. /\ thread[t].pc = "staged" /\ "staged" \in Busy /\ "staged" \in Taken
        /\ "same" \in Busy /\ "same" \in Taken
        /\ (Ends(t) /\ files[thread[t].path] # thread[t].payload) \/ Goes(t, "same")
        /\ files' = files /\ partial' = partial /\ disturbed' = disturbed
        /\ db' = db /\ saved' = saved /\ overtaken' = overtaken
    BY DEF Compare, stored, Busy, Taken, Late, Sent
  <1>2. IntakeType /\ AsGiven
    BY DEF IntakeInv, FilesInv
  <1>3. /\ thread' \in [Threads -> Request] /\ HasABook'
        /\ \A u \in Threads : thread'[u].payload = thread[u].payload \/ thread'[u].payload = NoFile
        /\ \A u \in Threads \ {t} : thread'[u] = thread[u]
        /\ Goes(t, "same") => /\ thread'[t].pc = "same" /\ thread'[t].book = thread[t].book
                              /\ thread'[t].path = thread[t].path /\ thread'[t].payload = thread[t].payload
    BY <1>1, Moving
  <1>4. IntakeType' /\ AsGiven'
    BY <1>1, <1>2, <1>3, FilesAre DEF IntakeType, AsGiven
  <1>5. ASSUME ~disturbed'
        PROVE  InPeace'
    <2>1. Progress(thread[t]) /\ \A u \in Threads \ {t} : thread[u].pc = "idle"
      BY <1>1, <1>5, LeftAlone
    <2>2. /\ thread[t].book = files[thread[t].path] /\ ~Edited /\ thread[t].payload = thread[t].book
          /\ files["original"] = thread[t].book /\ files["working"] = Copy(thread[t].book)
      BY <1>1, <2>1 DEF Progress, Late, Sent
    <2>3. Goes(t, "same")
      BY <1>1, <2>2
    <2>4. ~Edited' /\ (db = saved)'
      <3>1. db = saved
        BY <1>1, <2>1 DEF Progress, Sent
      <3>. QED
        BY <1>1, <2>2, <3>1 DEF Edited
    <2>5. Progress(thread[t])'
      BY <1>1, <1>3, <2>2, <2>3, <2>4 DEF Progress, Late, Sent
    <2>6. (\A u \in Threads \ {t} : thread'[u].pc = "idle") /\ thread'[t].pc # "idle"
      BY <1>3, <2>1, <2>3
    <2>. QED
      BY <1>4, <2>5, <2>6, OneUnderway
  <1>. QED
    BY <1>3, <1>4, <1>5 DEF FilesInv, InPeace

LEMMA VerifyStep ==
    ASSUME IntakeInv, NEW t \in Threads, Verify(t)
    PROVE  IntakeInv' /\ Keeps
  <1>1. /\ thread[t].pc = "same" /\ thread[t].pc \in Busy /\ thread[t].pc \in Taken
        /\ "verified" \in Busy /\ "verified" \in Taken
        /\ \/ Edited /\ Ends(t) /\ RollsBack
           \/ /\ ~Edited /\ Goes(t, "verified") /\ UNCHANGED stored
              /\ db' = db /\ saved' = saved /\ overtaken' = overtaken
        /\ files' = files /\ partial' = partial /\ disturbed' = disturbed
    BY FilesAre DEF Verify, stored
  <1>2. IntakeType /\ AsGiven /\ EditsAreKept
    BY DEF IntakeInv, FilesInv
  <1>3. /\ thread' \in [Threads -> Request] /\ HasABook'
        /\ \A u \in Threads : thread'[u].payload = thread[u].payload \/ thread'[u].payload = NoFile
        /\ \A u \in Threads \ {t} : thread'[u] = thread[u]
        /\ Goes(t, "verified") => /\ thread'[t].pc = "verified" /\ thread'[t].book = thread[t].book
                                  /\ thread'[t].path = thread[t].path /\ thread'[t].payload = thread[t].payload
        /\ Ends(t) => thread'[t] = Idle
    BY <1>1, Moving
  <1>4. EditsAreKept' /\ Keeps /\ db' \in Rows /\ saved' \in Rows /\ overtaken' = overtaken
    <2>1. CASE Ends(t) /\ RollsBack
      <3>1. \A u \in Threads : thread'[u].pc = "verified" => thread[u].pc = "verified"
        BY <1>3, <2>1, FilesAre
      <3>. QED
        BY <2>1, <3>1, EndOfSession
    <2>2. CASE ~Edited /\ UNCHANGED stored /\ db' = db /\ saved' = saved /\ overtaken' = overtaken
      <3>1. ~overtaken => saved.revision = 0
        <4>1. SUFFICES ASSUME ~overtaken, saved.revision # 0
                       PROVE  FALSE
          OBVIOUS
        <4>2. HasChapters(saved) /\ \A part \in Halves : saved[part] # NoFile => db[part] = saved[part]
          BY <1>2, <4>1 DEF EditsAreKept
        <4>3. HasChapters(db) /\ db.revision # 0
          BY <1>2, <4>1, <4>2 DEF HasChapters, EditsAreKept
        <4>. QED
          BY <2>2, <4>3 DEF Edited
      <3>. QED
        BY <1>2, <2>2, <3>1 DEF EditsAreKept, Keeps, IntakeType
    <2>. QED
      BY <1>1, <2>1, <2>2
  <1>5. IntakeType' /\ AsGiven'
    BY <1>1, <1>2, <1>3, <1>4, FilesAre DEF IntakeType, AsGiven
  <1>6. ASSUME ~disturbed'
        PROVE  InPeace'
    <2>1. Progress(thread[t]) /\ \A u \in Threads \ {t} : thread[u].pc = "idle"
      BY <1>1, <1>6, LeftAlone
    <2>2. /\ thread[t].book = files[thread[t].path] /\ ~Edited /\ thread[t].payload = thread[t].book
          /\ files["original"] = thread[t].book /\ files["working"] = Copy(thread[t].book) /\ db = saved
      BY <1>1, <2>1 DEF Progress, Late, Sent, Taken
    <2>3. Goes(t, "verified") /\ db' = db /\ saved' = saved
      BY <1>1, <2>2
    <2>4. Progress(thread[t])'
      BY <1>1, <1>3, <2>2, <2>3 DEF Progress, Late, Sent
    <2>5. (\A u \in Threads \ {t} : thread'[u].pc = "idle") /\ thread'[t].pc # "idle"
      BY <1>3, <2>1, <2>3
    <2>. QED
      BY <1>5, <2>4, <2>5, OneUnderway
  <1>. QED
    BY <1>3, <1>4, <1>5, <1>6 DEF IntakeInv, FilesInv, InPeace

\* A transaction deletes edited chapters only when the edit came after it had looked.
LEMMA ClearStep ==
    ASSUME IntakeInv, NEW t \in Threads, ClearChapters(t)
    PROVE  IntakeInv' /\ Keeps
  <1>1. /\ thread[t].pc = "verified" /\ thread[t].pc \in Busy /\ thread[t].pc \in Taken
        /\ "cleared" \in Busy /\ "cleared" \in Taken
        /\ Goes(t, "cleared") /\ db' = [db EXCEPT !.first = NoFile, !.rest = NoFile]
        /\ saved' = saved /\ overtaken' = overtaken
        /\ files' = files /\ partial' = partial /\ disturbed' = disturbed
    BY FilesAre DEF ClearChapters
  <1>2. IntakeType /\ AsGiven /\ EditsAreKept /\ db \in Rows
    BY DEF IntakeInv, FilesInv, IntakeType
  <1>3. /\ thread' \in [Threads -> Request] /\ HasABook'
        /\ \A u \in Threads : thread'[u].payload = thread[u].payload \/ thread'[u].payload = NoFile
        /\ \A u \in Threads \ {t} : thread'[u] = thread[u]
        /\ thread'[t].pc = "cleared" /\ thread'[t].book = thread[t].book
        /\ thread'[t].path = thread[t].path /\ thread'[t].payload = thread[t].payload
    BY <1>1, Moving
  <1>4. /\ db' \in Rows /\ db'.first = NoFile /\ db'.rest = NoFile /\ db'.revision = db.revision
    BY <1>1, <1>2, FilesAre DEF Rows
  <1>5. EditsAreKept' /\ Keeps
    <2>1. ~overtaken => saved.revision = 0
      BY <1>1, <1>2 DEF EditsAreKept
    <2>. QED
      BY <1>1, <1>2, <1>4, <2>1 DEF EditsAreKept, Keeps
  <1>6. IntakeType' /\ AsGiven'
    BY <1>1, <1>2, <1>3, <1>4, FilesAre DEF IntakeType, AsGiven
  <1>7. ASSUME ~disturbed'
        PROVE  InPeace'
    <2>1. Progress(thread[t]) /\ \A u \in Threads \ {t} : thread[u].pc = "idle"
      BY <1>1, <1>7, LeftAlone
    <2>2. /\ thread[t].book = files[thread[t].path] /\ thread[t].payload = thread[t].book
          /\ files["original"] = thread[t].book /\ files["working"] = Copy(thread[t].book)
      BY <1>1, <2>1 DEF Progress, Late, Sent, Taken
    <2>3. Progress(thread[t])'
      BY <1>1, <1>3, <1>4, <2>2 DEF Progress, Late, Sent
    <2>4. (\A u \in Threads \ {t} : thread'[u].pc = "idle") /\ thread'[t].pc # "idle"
      BY <1>3, <2>1
    <2>. QED
      BY <1>6, <2>3, <2>4, OneUnderway
  <1>. QED
    BY <1>3, <1>5, <1>6, <1>7 DEF IntakeInv, FilesInv, InPeace

LEMMA InsertStep ==
    ASSUME IntakeInv, NEW t \in Threads, NEW part \in Halves, NEW from, NEW to,
           Insert(t, part, from, to),
           \/ part = "first" /\ from = "cleared" /\ to = "begun"
           \/ part = "rest" /\ from = "begun" /\ to = "inserted"
    PROVE  IntakeInv' /\ Keeps
  <1>1. /\ thread[t].pc = from /\ from \in Busy /\ from \in Taken /\ to \in Busy /\ to \in Taken
        /\ \/ db[part] # NoFile /\ Ends(t) /\ RollsBack
           \/ /\ db[part] = NoFile /\ Goes(t, to) /\ db' = [db EXCEPT ![part] = thread[t].book]
              /\ saved' = saved /\ overtaken' = overtaken
        /\ files' = files /\ partial' = partial /\ disturbed' = disturbed
        /\ Halves = {"first", "rest"}
    BY FilesAre DEF Insert, Halves
  <1>2. /\ IntakeType /\ AsGiven /\ EditsAreKept /\ db \in Rows /\ saved \in Rows
        /\ thread[t].book \in FileContent
    BY DEF IntakeInv, FilesInv, IntakeType, Request
  <1>3. /\ thread' \in [Threads -> Request] /\ HasABook'
        /\ \A u \in Threads : thread'[u].payload = thread[u].payload \/ thread'[u].payload = NoFile
        /\ \A u \in Threads \ {t} : thread'[u] = thread[u]
        /\ Goes(t, to) => /\ thread'[t].pc = to /\ thread'[t].book = thread[t].book
                          /\ thread'[t].path = thread[t].path /\ thread'[t].payload = thread[t].payload
        /\ Ends(t) => thread'[t] = Idle
    BY <1>1, Moving
  <1>4. \A u \in Threads : thread'[u].pc = "verified" => thread[u].pc = "verified"
    BY <1>1, <1>3, FilesAre
  <1>5. ASSUME db[part] = NoFile, Goes(t, to), db' = [db EXCEPT ![part] = thread[t].book]
        PROVE  /\ db' \in Rows /\ db'.revision = db.revision /\ db'[part] = thread[t].book
               /\ \A other \in Halves \ {part} : db'[other] = db[other]
    BY <1>1, <1>2, <1>5 DEF Rows
  <1>6. EditsAreKept' /\ Keeps /\ db' \in Rows /\ saved' \in Rows /\ overtaken' = overtaken
    <2>1. CASE RollsBack
      BY <1>4, <2>1, EndOfSession
    <2>2. CASE db[part] = NoFile /\ Goes(t, to) /\ db' = [db EXCEPT ![part] = thread[t].book]
               /\ saved' = saved /\ overtaken' = overtaken
      <3>1. /\ db' \in Rows /\ db'.revision = db.revision
            /\ \A other \in Halves \ {part} : db'[other] = db[other]
        BY <1>5, <2>2
      <3>2. ASSUME ~overtaken, saved.revision # 0
            PROVE  \A other \in Halves : saved[other] # NoFile => db'[other] = saved[other]
        <4>1. \A other \in Halves : saved[other] # NoFile => db[other] = saved[other]
          BY <1>2, <3>2 DEF EditsAreKept
        <4>. QED
          BY <2>2, <3>1, <4>1
      <3>. QED
        BY <1>2, <1>4, <2>2, <3>1, <3>2 DEF EditsAreKept, Keeps
    <2>. QED
      BY <1>1, <2>1, <2>2
  <1>7. IntakeType' /\ AsGiven'
    BY <1>1, <1>2, <1>3, <1>6, FilesAre DEF IntakeType, AsGiven
  <1>8. ASSUME ~disturbed'
        PROVE  InPeace'
    <2>1. Progress(thread[t]) /\ \A u \in Threads \ {t} : thread[u].pc = "idle"
      BY <1>1, <1>8, LeftAlone
    <2>2. /\ thread[t].book = files[thread[t].path] /\ thread[t].payload = thread[t].book
          /\ files["original"] = thread[t].book /\ files["working"] = Copy(thread[t].book)
          /\ db[part] = NoFile /\ (from = "begun" => db.first = thread[t].book)
          /\ (from = "cleared" => db.rest = NoFile)
      BY <1>1, <2>1 DEF Progress, Late, Sent, Taken
    <2>3. /\ Goes(t, to) /\ db'[part] = thread[t].book
          /\ \A other \in Halves \ {part} : db'[other] = db[other]
      BY <1>1, <1>5, <2>2
    <2>4. Progress(thread[t])'
      BY <1>1, <1>3, <2>2, <2>3 DEF Progress, Late, Sent
    <2>5. (\A u \in Threads \ {t} : thread'[u].pc = "idle") /\ thread'[t].pc # "idle"
      BY <1>1, <1>3, <2>1, <2>3, FilesAre
    <2>. QED
      BY <1>7, <2>4, <2>5, OneUnderway
  <1>. QED
    BY <1>3, <1>6, <1>7, <1>8 DEF IntakeInv, FilesInv, InPeace

LEMMA StoredStep ==
    ASSUME IntakeInv, NEW t \in Threads, Commit(t)
    PROVE  IntakeInv' /\ Keeps
  <1>1. /\ thread[t].pc = "inserted" /\ thread[t].pc \in Busy /\ thread[t].pc \in Taken
        /\ Ends(t) /\ Commits /\ saved' = db /\ db' = db
        /\ files' = files /\ partial' = partial /\ disturbed' = disturbed
    BY FilesAre DEF Commit, Commits
  <1>2. IntakeType /\ AsGiven
    BY DEF IntakeInv, FilesInv
  <1>3. /\ thread' \in [Threads -> Request] /\ HasABook'
        /\ \A u \in Threads : thread'[u].payload = thread[u].payload \/ thread'[u].payload = NoFile
        /\ \A u \in Threads \ {t} : thread'[u] = thread[u]
        /\ thread'[t] = Idle
    BY <1>1, FilesAre, Moving
  <1>4. EditsAreKept' /\ Keeps /\ db' \in Rows /\ saved' \in Rows /\ overtaken' = overtaken
    <2>1. \A u \in Threads : thread'[u].pc = "verified" => thread[u].pc = "verified"
      BY <1>3, FilesAre
    <2>. QED
      BY <1>1, <2>1, EndOfSession
  <1>5. IntakeType' /\ AsGiven'
    BY <1>1, <1>2, <1>3, <1>4, FilesAre DEF IntakeType, AsGiven
  <1>6. ASSUME ~disturbed'
        PROVE  InPeace'
    <2>1. Progress(thread[t]) /\ \A u \in Threads \ {t} : thread[u].pc = "idle"
      BY <1>1, <1>6, LeftAlone
    <2>2. /\ files["original"] = thread[t].book /\ files["working"] = Copy(thread[t].book)
          /\ db.first = thread[t].book /\ db.rest = thread[t].book
      BY <1>1, <2>1 DEF Progress, Late, Sent
    <2>3. Follows'
      BY <1>1, <2>2 DEF Follows, AllOf, Halves
    <2>4. (\A u \in Threads \ {t} : thread'[u].pc = "idle") /\ thread'[t].pc \notin Busy
      BY <1>3, <2>1, FilesAre
    <2>. QED
      BY <1>5, <2>3, <2>4, OneUnderway
  <1>. QED
    BY <1>3, <1>4, <1>5, <1>6 DEF IntakeInv, FilesInv, InPeace

LEMMA EditStep == IntakeInv /\ Edit => IntakeInv' /\ Keeps
  <1>. SUFFICES ASSUME IntakeInv, Edit
                PROVE  IntakeInv' /\ Keeps
    OBVIOUS
  <1>1. /\ HasChapters(db) /\ db' = [db EXCEPT !.revision = @ + 1] /\ saved' = db'
        /\ disturbed' = (disturbed \/ \E t \in Threads : thread[t].pc # "idle")
        /\ overtaken' = (overtaken \/ \E t \in Threads : thread[t].pc = "verified")
        /\ files' = files /\ partial' = partial /\ thread' = thread
    BY DEF Edit
  <1>2. IntakeType /\ AsGiven /\ HasABook /\ EditsAreKept /\ db \in Rows
    BY DEF IntakeInv, FilesInv, IntakeType
  <1>3. /\ db' \in Rows /\ \A part \in Halves : db'[part] = db[part]
        /\ saved' = db' /\ overtaken' \in BOOLEAN
    BY <1>1, <1>2 DEF Rows, Halves, IntakeType
  <1>4. IntakeType' /\ AsGiven' /\ HasABook'
    BY <1>1, <1>2, <1>3 DEF IntakeType, AsGiven, HasABook
  <1>5. EditsAreKept'
    <2>1. HasChapters(saved)'
      BY <1>1, <1>3 DEF HasChapters
    <2>2. ~overtaken' => \A t \in Threads : thread'[t].pc # "verified"
      BY <1>1
    <2>. QED
      BY <1>3, <2>1, <2>2 DEF EditsAreKept
  <1>6. Keeps
    BY <1>2, <1>3 DEF Keeps, EditsAreKept
  <1>7. ASSUME ~disturbed'
        PROVE  InPeace'
    <2>1. ~disturbed /\ \A t \in Threads : thread[t].pc = "idle"
      BY <1>1, <1>7
    <2>2. Follows'
      <3>1. Follows
        BY <2>1 DEF IntakeInv, FilesInv, InPeace
      <3>2. HasChapters(saved) /\ \A part \in Halves : saved'[part] = saved[part]
        BY <1>1, <1>3, <3>1 DEF Follows
      <3>. QED
        BY <1>1, <1>3, <3>1, <3>2 DEF Follows, AllOf
    <2>3. \A t \in Threads : thread'[t].pc \notin Busy
      BY <1>1, <2>1, FilesAre
    <2>. QED
      BY <2>2, <2>3 DEF InPeace
  <1>. QED
    BY <1>4, <1>5, <1>6, <1>7 DEF IntakeInv, FilesInv, InPeace

LEMMA OtherStep == IntakeInv /\ OtherSession => IntakeInv' /\ Keeps
  <1>. SUFFICES ASSUME IntakeInv, OtherSession
                PROVE  IntakeInv' /\ Keeps
    OBVIOUS
  <1>1. /\ (Commits \/ RollsBack) /\ disturbed' = TRUE
        /\ files' = files /\ partial' = partial /\ thread' = thread
    BY DEF OtherSession
  <1>2. EditsAreKept' /\ Keeps /\ db' \in Rows /\ saved' \in Rows /\ overtaken' = overtaken
    BY <1>1, EndOfSession DEF OtherSession
  <1>. QED
    BY <1>1, <1>2 DEF OtherSession, IntakeInv, FilesInv, IntakeType, AsGiven, HasABook, InPeace

LEMMA SaveStep ==
    ASSUME IntakeInv, NEW p \in DOMAIN Suffix, NEW b \in Later, Save(p, b)
    PROVE  FilesInv'
  <1>1. /\ files' = [files EXCEPT ![p] = [NoFile EXCEPT !.book = b]]
        /\ disturbed' = (disturbed \/ \E t \in Threads : thread[t].path = p)
        /\ partial' = partial /\ db' = db /\ saved' = saved /\ overtaken' = overtaken /\ thread' = thread
    BY DEF Save, stored
  <1>2. /\ IntakeType /\ AsGiven /\ HasABook /\ p \in Paths
        /\ files \in [Paths -> FileContent]
    BY DEF IntakeInv, FilesInv, IntakeType, Paths
  <1>3. [NoFile EXCEPT !.book = b] \in FileContent /\ ~[NoFile EXCEPT !.book = b].rendered
    BY IntakeAssumption DEF NoFile, FileContent
  <1>4. /\ files' \in [Paths -> FileContent] /\ ~files'[p].rendered
        /\ \A q \in Paths \ {p} : files'[q] = files[q]
    BY <1>1, <1>2, <1>3
  <1>5. files'["original"] = files["original"] /\ files'["working"] = files["working"]
    BY <1>4, FilesAre
  <1>6. AsGiven'
    <2>1. \A q \in DOMAIN Suffix : ~files'[q].rendered
      BY <1>2, <1>4, FilesAre DEF AsGiven
    <2>. QED
      BY <1>1, <1>2, <1>5, <2>1 DEF AsGiven
  <1>7. IntakeType' /\ HasABook'
    BY <1>1, <1>2, <1>4 DEF IntakeType, HasABook
  <1>8. ASSUME ~disturbed'
        PROVE  InPeace'
    <2>1. ~disturbed /\ InPeace /\ \A t \in Threads : thread[t].path # p
      BY <1>1, <1>8 DEF IntakeInv, FilesInv
    <2>2. Follows => Follows'
      BY <1>1, <1>5 DEF Follows
    <2>3. ASSUME NEW t \in Threads, thread[t].pc \in Busy
          PROVE  Progress(thread[t])'
      <3>1. Progress(thread[t]) /\ thread[t].path \in Paths \ {p}
        BY <1>2, <2>1, <2>3 DEF InPeace, HasABook
      <3>2. files'[thread[t].path] = files[thread[t].path]
        BY <1>4, <3>1
      <3>3. ~Edited => ~Edited'
        BY <1>1 DEF Edited
      <3>. QED
        BY <1>1, <1>5, <2>2, <3>1, <3>2, <3>3 DEF Progress
    <2>4. \A t \in Threads : thread'[t].pc \in Busy => Progress(thread[t])'
      BY <1>1, <2>3
    <2>. QED
      BY <1>1, <2>1, <2>2, <2>4 DEF InPeace
  <1>. QED
    BY <1>6, <1>7, <1>8 DEF FilesInv, InPeace

LEMMA CrashStep == IntakeInv /\ Crash => IntakeInv' /\ Keeps
  <1>. SUFFICES ASSUME IntakeInv, Crash
                PROVE  IntakeInv' /\ Keeps
    OBVIOUS
  <1>1. /\ thread' = [t \in Threads |-> Idle] /\ disturbed' = TRUE /\ RollsBack
        /\ files' = files /\ partial' = partial
    BY DEF Crash
  <1>2. Idle.payload = NoFile
    BY DEF Idle
  <1>3. EditsAreKept' /\ Keeps /\ db' \in Rows /\ saved' \in Rows /\ overtaken' = overtaken
    <2>1. \A u \in Threads : thread'[u].pc # "verified"
      BY <1>1, FilesAre
    <2>. QED
      BY <1>1, <2>1, EndOfSession
  <1>. QED
    BY <1>1, <1>2, <1>3, FilesAre DEF IntakeInv, FilesInv, IntakeType, AsGiven, HasABook, InPeace

LEMMA IntakeStep == IntakeInv /\ [IntakeNext]_intakeVars => IntakeInv' /\ Keeps
  <1>. SUFFICES ASSUME IntakeInv, [IntakeNext]_intakeVars
                PROVE  IntakeInv' /\ Keeps
    OBVIOUS
  <1>1. ASSUME NEW t \in Threads, NEW p \in Paths, Read(t, p)
        PROVE  IntakeInv' /\ Keeps
    <2>1. \A u \in Threads : thread'[u].pc = "verified" => thread[u].pc = "verified"
      BY <1>1 DEF Read, IntakeInv, FilesInv, IntakeType, Request, Idle
    <2>. QED
      BY <1>1, <2>1, ReadStep, RowsUntouched DEF Read, IntakeInv
  <1>2. ASSUME NEW t \in Threads, Take(t) \/ Compare(t)
        PROVE  IntakeInv' /\ Keeps
    <2>1. /\ FilesInv' /\ UNCHANGED stored
      BY <1>2, TakeStep, CompareStep DEF Take, Compare
    <2>2. thread \in [Threads -> Request]
      BY DEF IntakeInv, FilesInv, IntakeType
    <2>3. \E r : r.pc # "verified" /\ thread' = [thread EXCEPT ![t] = r]
      <3>1. CASE thread' = [thread EXCEPT ![t] = Idle]
        BY <3>1 DEF Idle
      <3>2. CASE thread' = [thread EXCEPT ![t].pc = "same"]
        BY <2>2, <3>2 DEF Request
      <3>3. CASE thread' = [thread EXCEPT ![t].pc = "taken", ![t].payload = files[thread[t].path]]
        BY <2>2, <3>3 DEF Request
      <3>. QED
        BY <1>2, <3>1, <3>2, <3>3 DEF Take, Compare, Goes, Ends
    <2>4. \A u \in Threads : thread'[u].pc = "verified" => thread[u].pc = "verified"
      BY <2>2, <2>3
    <2>. QED
      BY <2>1, <2>4, RowsUntouched DEF IntakeInv
  <1>3. ASSUME NEW t \in Threads, Stage(t)
        PROVE  IntakeInv' /\ Keeps
    <2>1. /\ thread[t].payload \in FileContent /\ ~thread[t].payload.rendered
          /\ Copy(thread[t].book) \in FileContent /\ thread \in [Threads -> Request]
      BY FilesAre DEF IntakeInv, FilesInv, IntakeType, Request, AsGiven
    <2>2. /\ {"taken", "written1", "replaced1", "written2", "staged"} \subseteq Taken
          /\ {"taken", "replaced1"} \subseteq Busy /\ "original" \in Project /\ "working" \in Project
      BY FilesAre
    <2>3. FilesInv'
      <3>1. CASE Write(t, "original", thread[t].payload, "taken", "written1")
        BY <2>1, <2>2, <3>1, WriteStep
      <3>2. CASE Write(t, "working", Copy(thread[t].book), "replaced1", "written2")
        BY <2>1, <2>2, <3>2, WriteStep
      <3>3. CASE Replace(t, "original", "written1", "replaced1")
        BY <2>2, <3>3, ReplaceStep
      <3>4. CASE Replace(t, "working", "written2", "staged")
        BY <2>2, <3>4, ReplaceStep
      <3>. QED
        BY <1>3, <3>1, <3>2, <3>3, <3>4 DEF Stage
    <2>4. UNCHANGED stored
      BY <1>3 DEF Stage, Write, Replace
    <2>5. \E to \in Taken \ {"verified"} : Goes(t, to) \/ Ends(t)
      BY <1>3, <2>2 DEF Stage, Write, Replace
    <2>6. \E r : r.pc # "verified" /\ thread' = [thread EXCEPT ![t] = r]
      <3>1. PICK to \in Taken \ {"verified"} : Goes(t, to) \/ Ends(t)
        BY <2>5
      <3>2. CASE thread' = [thread EXCEPT ![t] = Idle]
        BY <3>2 DEF Idle
      <3>3. CASE thread' = [thread EXCEPT ![t].pc = to]
        BY <2>1, <3>1, <3>3 DEF Request
      <3>. QED
        BY <3>1, <3>2, <3>3 DEF Goes, Ends
    <2>7. \A u \in Threads : thread'[u].pc = "verified" => thread[u].pc = "verified"
      BY <2>1, <2>6
    <2>. QED
      BY <2>3, <2>4, <2>7, RowsUntouched DEF IntakeInv
  <1>4. ASSUME NEW t \in Threads, Store(t)
        PROVE  IntakeInv' /\ Keeps
    <2>1. CASE Insert(t, "first", "cleared", "begun") \/ Insert(t, "rest", "begun", "inserted")
      BY <2>1, InsertStep DEF Halves
    <2>. QED
      BY <1>4, <2>1, VerifyStep, ClearStep, StoredStep DEF Store
  <1>5. ASSUME NEW p \in DOMAIN Suffix, NEW b \in Later, Save(p, b)
        PROVE  IntakeInv' /\ Keeps
    <2>1. FilesInv' /\ UNCHANGED stored /\ thread' = thread
      BY <1>5, SaveStep DEF Save
    <2>. QED
      BY <2>1, RowsUntouched DEF IntakeInv
  <1>6. CASE UNCHANGED intakeVars
    BY <1>6 DEF intakeVars, IntakeInv, FilesInv, IntakeType, AsGiven, HasABook, EditsAreKept, InPeace,
       Progress, Follows, Edited, Keeps
  <1>. QED
    BY <1>1, <1>2, <1>3, <1>4, <1>5, <1>6, CheckStep, EditStep, OtherStep, CrashStep DEF IntakeNext

\* Whatever the reader says of the books: the original is a file as it was given, and after
\* requests that nobody disturbed the files of the project are those of the stored book.
THEOREM FilesStayTogether == IntakeSpec => []FilesFollowTheStore
  <1>1. IntakeInv => FilesFollowTheStore
    BY DEF IntakeInv, FilesInv, AsGiven, InPeace, Follows, FilesFollowTheStore
  <1>. QED
    BY <1>1, IntakeStart, IntakeStep, PTL DEF IntakeSpec

\* However sessions mix on the connection, a request replaces or deletes no committed chapter
\* of an edited book, as long as no edit came between the check in a transaction and its
\* deletes.
THEOREM EditsSurviveIngest == IntakeSpec => EditedBookStays
  <1>1. IntakeInv /\ [IntakeNext]_intakeVars =>
            [~overtaken /\ saved.revision # 0 =>
                \A part \in Halves : saved[part] # NoFile => saved'[part] = saved[part]]_intakeVars
    BY IntakeStep DEF Keeps
  <1>. QED
    BY <1>1, IntakeStart, IntakeStep, PTL DEF IntakeSpec, EditedBookStays

-----------------------------------------------------------------------------
(***************************************************************************)
(* Reading.                                                                *)
(***************************************************************************)

\* Revisions only grow, and what a client was given at the current one is the text.
DraftInv == /\ revision \in Nat /\ DOMAIN review = Clients /\ review = [c \in Clients |-> review[c]]
            /\ \A c \in Clients : review[c].base \in Nat \cup {None} /\ review[c].base <= revision
            /\ \A c \in Clients : review[c].base = revision => review[c].texts = Texts

LEMMA DraftStart == Init => DraftInv
  <1>. SUFFICES ASSUME Init
                PROVE  DraftInv
    OBVIOUS
  <1>1. revision = 0 /\ review = [c \in Clients |-> NoReview]
    BY DEF Init
  <1>. QED
    BY <1>1 DEF DraftInv, NoReview, None

LEMMA ReviewStep ==
    ASSUME DraftInv, NEW c \in Clients, Review(c)
    PROVE  DraftInv'
  <1>. DEFINE given == [base |-> revision, texts |-> Texts, found |-> Prepass(Texts, headings)]
  <1>1. review' = [review EXCEPT ![c] = given] /\ revision' = revision /\ blocks' = blocks
    BY DEF Review
  <1>2. given.base = revision /\ given.texts = Texts
    OBVIOUS
  <1>. HIDE DEF given
  <1>3. Texts' = Texts
    BY <1>1 DEF Texts
  <1>. QED
    BY <1>1, <1>2, <1>3 DEF DraftInv

\* A commit takes a new revision, at the one its client was given.
LEMMA CommitStep ==
    ASSUME DraftInv, NEW c \in Clients, review[c].base = revision,
           revision' = revision + 1, review' = review
    PROVE  DraftInv' /\ review[c].texts = Texts
  BY DEF DraftInv, None

LEMMA DraftStep ==
    DraftInv /\ [Next]_vars =>
        DraftInv' /\ (revision' # revision => \E c \in Clients : review[c].texts = Texts)
  <1>. SUFFICES ASSUME DraftInv, [Next]_vars
                PROVE  DraftInv' /\ (revision' # revision => \E c \in Clients : review[c].texts = Texts)
    OBVIOUS
  <1>1. ASSUME NEW c \in Clients, Review(c)
        PROVE  DraftInv' /\ revision' = revision
    BY <1>1, ReviewStep DEF Review
  <1>2. ASSUME NEW c \in Clients, NEW kinds \in Accepts, ApplyReading(c, kinds)
        PROVE  DraftInv' /\ review[c].texts = Texts
    BY <1>2, CommitStep DEF ApplyReading, Stale
  <1>3. ASSUME NEW c \in Clients, NEW b, NEW t, PutText(c, b, t)
        PROVE  DraftInv' /\ review[c].texts = Texts
    BY <1>3, CommitStep DEF PutText, Stale
  <1>4. CASE UNCHANGED vars
    BY <1>4 DEF vars, DraftInv, Texts
  <1>. QED
    BY <1>1, <1>2, <1>3, <1>4 DEF Next

\* Whatever the detectors propose: nothing is committed over a text it was not made from.
THEOREM CommitsFitTheirText == Spec => CommittedOnItsText
  <1>1. DraftInv /\ [Next]_vars =>
          [revision' # revision => \E c \in Clients : review[c].texts = Texts]_vars
    BY DraftStep
  <1>. QED
    BY <1>1, DraftStart, DraftStep, PTL DEF Spec, CommittedOnItsText

-----------------------------------------------------------------------------
(***************************************************************************)
(* The tiling of a text.  Segments() is a search for dashes or quotes, a   *)
(* choice among them and a cut; each is a recursion or a ranking, of which *)
(* the lemmas show what they give for any text.  That the text of a block  *)
(* stays one, whatever is committed, needs what the pre-pass proposes to   *)
(* replace: rewrites of texts by texts, each at a place of its own.  And   *)
(* what the pre-pass proposes to read quotes its words, which rewrites     *)
(* from the right to the left leave alone or move as a whole.              *)
(***************************************************************************)

(* Numbers and ranks.                                                      *)

\* Of some integers that are not less than a number, one is the least.
LEMMA LeastOf ==
    ASSUME NEW a \in Int, NEW T \in SUBSET Int, T # {}, \A k \in T : a <= k
    PROVE  Min(T) \in T /\ \A k \in T : Min(T) <= k
  <1>1. PICK n \in T : TRUE
    OBVIOUS
  <1>. DEFINE Upto(m) == {x \in T : x <= m}
              C == {Upto(m) : m \in T}
  <1>2. IsWellFoundedOn(StrictSubsetOrdering(a..n), FiniteSubsetsOf(a..n))
    BY FS_Interval, FS_StrictSubsetOrderingWellFounded
  <1>. DEFINE D == {U \in C : U \subseteq a..n}
  <1>3. Upto(n) \in C /\ Upto(n) \subseteq a..n
    <2>1. \A x \in T : x <= n => x \in a..n
      OBVIOUS
    <2>. QED
      BY <2>1
  <1>4. D \subseteq FiniteSubsetsOf(a..n) /\ D # {}
    <2>1. D \subseteq SUBSET (a..n)
      OBVIOUS
    <2>. HIDE DEF C, Upto
    <2>2. D # {}
      BY <1>3
    <2>3. IsFiniteSet(a..n)
      BY FS_Interval
    <2>. HIDE DEF D
    <2>. QED
      BY <2>1, <2>2, <2>3, FS_FiniteSubsetsOfFinite
  <1>5. PICK U \in D : \A V \in D : ~(<<V, U>> \in StrictSubsetOrdering(a..n))
    <2>. HIDE DEF D
    <2>. QED
      BY <1>2, <1>4, WFMin
  <1>6. PICK m \in T : U = Upto(m)
    OBVIOUS
  <1>7. U \subseteq a..n
    OBVIOUS
  <1>8. ASSUME NEW k \in T PROVE m <= k
    <2>. SUFFICES ASSUME k < m PROVE FALSE
      OBVIOUS
    <2>1. m \in Upto(m) /\ m \notin Upto(k) /\ \A x \in Upto(k) : x \in Upto(m)
      OBVIOUS
    <2>2. Upto(k) \in C
      OBVIOUS
    <2>. HIDE DEF Upto, C
    <2>3. Upto(k) \in D
      BY <1>6, <1>7, <2>1, <2>2
    <2>4. <<Upto(k), U>> \in StrictSubsetOrdering(a..n)
      BY <2>1, <1>6, <1>7 DEF StrictSubsetOrdering
    <2>. QED
      BY <2>3, <2>4, <1>5
  <1>. QED
    BY <1>8 DEF Min

\* And of some that are not greater, one is the greatest.
LEMMA GreatestOf ==
    ASSUME NEW a \in Int, NEW T \in SUBSET Int, T # {}, \A k \in T : k <= a
    PROVE  Max(T) \in T /\ \A k \in T : k <= Max(T)
  <1>. DEFINE U == {-k : k \in T}
  <1>1. U \in SUBSET Int /\ U # {} /\ -a \in Int /\ \A k \in U : -a <= k
    <2>1. \A k \in T : -k \in Int /\ -a <= -k
      OBVIOUS
    <2>2. PICK k \in T : TRUE
      OBVIOUS
    <2>3. -k \in U
      BY <2>2
    <2>4. U \in SUBSET Int /\ \A j \in U : -a <= j
      BY <2>1
    <2>. QED
      BY <2>3, <2>4
  <1>. HIDE DEF U
  <1>2. Min(U) \in U /\ \A k \in U : Min(U) <= k
    BY <1>1, LeastOf
  <1>3. PICK m \in T : Min(U) = -m
    BY <1>2 DEF U
  <1>4. ASSUME NEW k \in T PROVE k <= m
    <2>1. -k \in U
      BY DEF U
    <2>. QED
      BY <2>1, <1>2, <1>3
  <1>. QED
    BY <1>4 DEF Max

\* A strict total order, as a set of pairs.
Ordering(R, S) == /\ \A x \in S : <<x, x>> \notin R
                  /\ \A x, y \in S : x # y => <<x, y>> \in R \/ <<y, x>> \in R
                  /\ \A x, y, z \in S : <<x, y>> \in R /\ <<y, z>> \in R => <<x, z>> \in R

\* What comes before x.
Below(R, S, x) == {y \in S : <<y, x>> \in R}

\* The members of a finite set that is ordered can be listed in that order.
LEMMA Listed ==
    ASSUME NEW S, IsFiniteSet(S), NEW R, Ordering(R, S)
    PROVE  /\ Cardinality(S) \in Nat
           /\ \A k \in 1..Cardinality(S) : \E x \in S : Cardinality(Below(R, S, x)) = k - 1
           /\ \A x \in S : Cardinality(Below(R, S, x)) \in 0..(Cardinality(S) - 1)
           /\ \A x, y \in S : Cardinality(Below(R, S, x)) < Cardinality(Below(R, S, y)) => <<x, y>> \in R
           /\ \A x, y \in S : Cardinality(Below(R, S, x)) = Cardinality(Below(R, S, y)) => x = y
  <1>. DEFINE n == Cardinality(S)
              rank(x) == Cardinality(Below(R, S, x))
              f == [x \in S |-> rank(x)]
  <1>1. n \in Nat
    BY FS_CardinalityType
  <1>2. ASSUME NEW x \in S PROVE rank(x) \in 0..(n - 1)
    <2>1. Below(R, S, x) \subseteq S /\ x \notin Below(R, S, x)
      BY DEF Below, Ordering
    <2>2. IsFiniteSet(Below(R, S, x)) /\ rank(x) \in Nat /\ rank(x) < n
      BY <2>1, FS_Subset, FS_CardinalityType
    <2>. HIDE DEF rank
    <2>. QED
      BY <2>2, <1>1
  <1>3. ASSUME NEW x \in S, NEW y \in S, <<x, y>> \in R PROVE rank(x) < rank(y)
    <2>1. Below(R, S, x) \subseteq Below(R, S, y) /\ x \in Below(R, S, y) /\ x \notin Below(R, S, x)
      BY <1>3 DEF Below, Ordering
    <2>2. IsFiniteSet(Below(R, S, y))
      BY FS_Subset DEF Below
    <2>. QED
      BY <2>1, <2>2, FS_Subset, FS_CardinalityType
  <1>4. ASSUME NEW x \in S, NEW y \in S, rank(x) = rank(y) PROVE x = y
    <2>1. rank(x) \in Int /\ rank(y) \in Int
      BY <1>2
    <2>2. <<x, y>> \notin R /\ <<y, x>> \notin R
      BY <1>3, <1>4, <2>1
    <2>. QED
      BY <2>2 DEF Ordering
  <1>5. ASSUME NEW x \in S, NEW y \in S, rank(x) < rank(y) PROVE <<x, y>> \in R
    <2>1. rank(x) \in Int /\ rank(y) \in Int
      BY <1>2
    <2>2. <<y, x>> \notin R /\ x # y
      BY <1>3, <1>5, <2>1
    <2>. QED
      BY <2>2 DEF Ordering
  <1>. HIDE DEF rank
  <1>. DEFINE T == {f[x] : x \in S}
  <1>6. f \in Bijection(S, T)
    <2>1. f \in [S -> T] /\ \A x, y \in S : f[x] = f[y] => x = y
      BY <1>4
    <2>2. \A z \in T : \E x \in S : f[x] = z
      OBVIOUS
    <2>. HIDE DEF f, T
    <2>. QED
      BY <2>1, <2>2 DEF Bijection, Injection, Surjection, IsInjective
  <1>7. T \subseteq 0..(n - 1)
    BY <1>2
  <1>8. IsFiniteSet(T) /\ Cardinality(T) = n
    <2>. HIDE DEF T, f
    <2>. QED
      BY <1>6, FS_Bijection DEF ExistsBijection
  <1>9. IsFiniteSet(0..(n - 1)) /\ Cardinality(0..(n - 1)) = n
    BY <1>1, FS_Interval
  <1>10. T = 0..(n - 1)
    <2>. HIDE DEF T, n
    <2>. QED
      BY <1>7, <1>8, <1>9, <1>1, FS_Subset
  <1>11. ASSUME NEW k \in 1..n PROVE \E x \in S : rank(x) = k - 1
    <2>1. k - 1 \in T
      BY <1>10, <1>1
    <2>. QED
      BY <2>1
  <1>. QED
    BY <1>1, <1>2, <1>4, <1>5, <1>11 DEF rank

-----------------------------------------------------------------------------
(* Texts.                                                                  *)

\* FirstNot() stops at the first symbol that is not in S, or at the end.
LEMMA FirstNotIs ==
    ASSUME NEW t \in Seq(Symbols), NEW i \in 0..Len(t), NEW S
    PROVE  /\ FirstNot(t, i, S) \in i..Len(t)
           /\ \A j \in i..(FirstNot(t, i, S) - 1) : At(t, j) \in S
           /\ FirstNot(t, i, S) < Len(t) => At(t, FirstNot(t, i, S)) \notin S
  <1>. DEFINE T == {j \in i..Len(t) : j = Len(t) \/ At(t, j) \notin S} \cup {Len(t)}
  <1>1. Len(t) \in Nat /\ i \in Int
    OBVIOUS
  <1>2. T \in SUBSET Int /\ T # {} /\ \A k \in T : i <= k
    BY <1>1
  <1>3. Len(t) \in T /\ \A k \in T : k \in i..Len(t)
    BY <1>1
  <1>4. FirstNot(t, i, S) = Min(T)
    BY DEF FirstNot
  <1>5. \A j \in i..Len(t) : j \notin T => At(t, j) \in S
    OBVIOUS
  <1>6. \A j \in T : j # Len(t) => At(t, j) \notin S
    OBVIOUS
  <1>. HIDE DEF T
  <1>7. Min(T) \in T /\ \A k \in T : Min(T) <= k
    BY <1>1, <1>2, LeastOf
  <1>. DEFINE m == Min(T)
  <1>8. m \in i..Len(t)
    BY <1>3, <1>7
  <1>. HIDE DEF m
  <1>9. ASSUME NEW j \in i..(m - 1) PROVE At(t, j) \in S
    <2>1. j \in i..Len(t) /\ ~(m <= j)
      BY <1>1, <1>8
    <2>. QED
      BY <2>1, <1>5, <1>7 DEF m
  <1>. QED
    BY <1>1, <1>4, <1>6, <1>7, <1>8, <1>9 DEF m

\* What is left between a and b is <<p, q>>.
Leaves(t, a, b, S, p, q) ==
    /\ p \in a..b /\ q \in p..b
    /\ \A i \in a..(b - 1) : At(t, i) \notin S => p <= i /\ i < q
    /\ p < q => At(t, p) \notin S /\ At(t, q - 1) \notin S

\* Strip() leaves everything but symbols of S.
LEMMA StripLeaves ==
    ASSUME NEW t \in Seq(Symbols), NEW a \in Nat, NEW b \in Nat, a <= b, NEW S
    PROVE  /\ Strip(t, a, b, S) = <<Strip(t, a, b, S)[1], Strip(t, a, b, S)[2]>>
           /\ Leaves(t, a, b, S, Strip(t, a, b, S)[1], Strip(t, a, b, S)[2])
  <1>. DEFINE kept == {i \in a..(b - 1) : At(t, i) \notin S}
  <1>1. CASE kept = {}
    BY <1>1 DEF Strip, Leaves
  <1>2. CASE kept # {}
    <2>1. Strip(t, a, b, S) = <<Min(kept), Max(kept) + 1>>
      BY <1>2 DEF Strip
    <2>2. kept \in SUBSET Int /\ (\A k \in kept : a <= k /\ k <= b - 1) /\ a \in Int /\ b - 1 \in Int
      OBVIOUS
    <2>3. \A k \in kept : At(t, k) \notin S
      OBVIOUS
    <2>4. \A i \in a..(b - 1) : At(t, i) \notin S => i \in kept
      OBVIOUS
    <2>. HIDE DEF kept
    <2>5. Min(kept) \in kept /\ \A k \in kept : Min(kept) <= k
      BY <1>2, <2>2, LeastOf
    <2>6. Max(kept) \in kept /\ \A k \in kept : k <= Max(kept)
      BY <1>2, <2>2, GreatestOf
    <2>. DEFINE p == Min(kept)
                m == Max(kept)
                q == m + 1
    <2>7. p \in Int /\ m \in Int /\ a <= p /\ p <= m /\ m <= b - 1
      BY <2>2, <2>5, <2>6
    <2>8. At(t, p) \notin S /\ At(t, m) \notin S
      BY <2>3, <2>5, <2>6
    <2>9. \A i \in a..(b - 1) : At(t, i) \notin S => p <= i /\ i <= m
      BY <2>4, <2>5, <2>6
    <2>. HIDE DEF p, m
    <2>10. p \in a..b /\ q \in p..b /\ q - 1 = m /\ \A i \in Int : i <= m => i < q
      BY <2>7
    <2>11. Leaves(t, a, b, S, p, q)
      BY <2>8, <2>9, <2>10 DEF Leaves
    <2>. QED
      BY <2>1, <2>11 DEF p, m
  <1>. QED
    BY <1>1, <1>2

\* A dash that counts.
IsDash(t, d) == /\ d.start \in 0..(Len(t) - 1) /\ At(t, d.start) \in Dashes
                /\ d.content = FirstNot(t, d.start + 1, Space)
                /\ d.kind = DashKind(t, d.start)

\* An offset at which FindDashes() finds a dash.
Counts(t, i) == /\ At(t, i) \in Dashes
                /\ FirstNot(t, i + 1, Space) = Len(t) \/ At(t, i + 1) \in Space
                /\ DashKind(t, i) # "none"

\* The dashes of a text, as they come.
LEMMA DashesInOrder ==
    ASSUME NEW t \in Seq(Symbols)
    PROVE  /\ FindDashes(t) \in Seq([start : Int, content : {FirstNot(t, i + 1, Space) : i \in Int},
                                     kind : {DashKind(t, i) : i \in Int}])
           /\ \A k \in 1..Len(FindDashes(t)) : IsDash(t, FindDashes(t)[k])
           /\ \A j, k \in 1..Len(FindDashes(t)) : j < k => FindDashes(t)[j].start < FindDashes(t)[k].start
           /\ \A i \in 0..(Len(t) - 1) : Counts(t, i) =>
                  \E k \in 1..Len(FindDashes(t)) : FindDashes(t)[k].start = i
  <1>. DEFINE at == {i \in 0..(Len(t) - 1) : Counts(t, i)}
              R == {p \in at \X at : p[1] < p[2]}
              n == Cardinality(at)
              order == [k \in 1..n |-> CHOOSE x \in at : Cardinality({y \in at : y < x}) = k - 1]
              dash(i) == [start |-> i, content |-> FirstNot(t, i + 1, Space), kind |-> DashKind(t, i)]
              D == [k \in 1..n |-> dash(order[k])]
  <1>1. IsFiniteSet(at)
    <2>1. IsFiniteSet(0..(Len(t) - 1)) /\ at \in SUBSET (0..(Len(t) - 1))
      BY FS_Interval
    <2>. QED
      BY <2>1, FS_Subset
  <1>2. Ordering(R, at)
    BY DEF Ordering
  <1>3. \A x \in at : Below(R, at, x) = {y \in at : y < x}
    BY DEF Below
  <1>4. FindDashes(t) = [k \in 1..Len(order) |-> dash(order[k])]
    BY DEF FindDashes, Ranked, Counts
  <1>5. \A x \in at : x \in 0..(Len(t) - 1) /\ Counts(t, x)
    OBVIOUS
  <1>6. \A x, y \in at : <<x, y>> \in R => x < y
    OBVIOUS
  <1>7. \A i \in 0..(Len(t) - 1) : Counts(t, i) => i \in at
    OBVIOUS
  <1>. HIDE DEF at, R, dash
  <1>8. /\ n \in Nat
        /\ \A k \in 1..n : \E x \in at : Cardinality(Below(R, at, x)) = k - 1
        /\ \A x \in at : Cardinality(Below(R, at, x)) \in 0..(n - 1)
        /\ \A x, y \in at : Cardinality(Below(R, at, x)) < Cardinality(Below(R, at, y)) => <<x, y>> \in R
        /\ \A x, y \in at : Cardinality(Below(R, at, x)) = Cardinality(Below(R, at, y)) => x = y
    BY <1>1, <1>2, Listed
  <1>9. ASSUME NEW k \in 1..n
        PROVE  order[k] \in at /\ Cardinality(Below(R, at, order[k])) = k - 1
    <2>1. \E x \in at : Cardinality({y \in at : y < x}) = k - 1
      BY <1>3, <1>8
    <2>2. order[k] \in at /\ Cardinality({y \in at : y < order[k]}) = k - 1
      BY <2>1
    <2>. QED
      BY <2>2, <1>3
  <1>10. Len(order) = n
    BY <1>8
  <1>11. FindDashes(t) = D
    BY <1>4, <1>10
  <1>. HIDE DEF n, order
  <1>12. ASSUME NEW k \in 1..n
         PROVE  /\ D[k] = dash(order[k]) /\ order[k] \in 0..(Len(t) - 1) /\ Counts(t, order[k])
                /\ IsDash(t, D[k]) /\ D[k].start = order[k]
    <2>1. D[k] = dash(order[k]) /\ order[k] \in 0..(Len(t) - 1) /\ Counts(t, order[k])
      BY <1>5, <1>9
    <2>. HIDE DEF D
    <2>. QED
      BY <2>1 DEF dash, IsDash, Counts
  <1>. DEFINE Rec == [start : Int, content : {FirstNot(t, i + 1, Space) : i \in Int},
                      kind : {DashKind(t, i) : i \in Int}]
  <1>13. ASSUME NEW i \in Int PROVE dash(i) \in Rec
    BY DEF dash
  <1>. HIDE DEF Rec
  <1>14. D \in Seq(Rec) /\ Len(D) = n
    <2>1. \A k \in 1..n : D[k] \in Rec
      BY <1>12, <1>13
    <2>2. D \in [1..n -> Rec]
      BY <2>1
    <2>. HIDE DEF D
    <2>. QED
      BY <2>2, <1>8
  <1>15. ASSUME NEW j \in 1..n, NEW k \in 1..n, j < k PROVE D[j].start < D[k].start
    <2>1. j - 1 < k - 1
      BY <1>8, <1>15
    <2>2. <<order[j], order[k]>> \in R
      BY <2>1, <1>8, <1>9
    <2>. QED
      BY <2>2, <1>6, <1>9, <1>12
  <1>16. ASSUME NEW i \in 0..(Len(t) - 1), Counts(t, i) PROVE \E k \in 1..n : D[k].start = i
    <2>1. i \in at
      BY <1>7, <1>16
    <2>2. PICK k \in 1..n : k - 1 = Cardinality(Below(R, at, i))
      <3>1. PICK m \in 0..(n - 1) : m = Cardinality(Below(R, at, i))
        BY <2>1, <1>8
      <3>2. m + 1 \in 1..n /\ (m + 1) - 1 = m
        BY <1>8
      <3>. QED
        BY <3>1, <3>2
    <2>3. order[k] = i
      BY <2>1, <2>2, <1>8, <1>9
    <2>. QED
      BY <2>3, <1>12
  <1>. HIDE DEF D
  <1>. QED
    BY <1>11, <1>12, <1>14, <1>15, <1>16 DEF Rec

\* Induction up to a bound, over a set.
LEMMA Inductive ==
    ASSUME NEW n \in Nat, NEW Good, 0 \in Good,
           \A k \in 1..n : k - 1 \in Good => k \in Good
    PROVE  \A k \in 0..n : k \in Good
  <1>. DEFINE Bad == {k \in 0..n : k \notin Good}
  <1>. SUFFICES ASSUME Bad # {} PROVE FALSE
    OBVIOUS
  <1>1. Bad \in SUBSET Int /\ \A k \in Bad : 0 <= k /\ k <= n /\ k \notin Good
    OBVIOUS
  <1>2. \A k \in 0..n : k \notin Bad => k \in Good
    OBVIOUS
  <1>. HIDE DEF Bad
  <1>3. PICK m \in Bad : \A k \in Bad : m <= k
    <2>1. 0 \in Int /\ Bad # {} /\ \A k \in Bad : 0 <= k
      BY <1>1
    <2>2. Min(Bad) \in Bad /\ \A k \in Bad : Min(Bad) <= k
      BY <1>1, <2>1, LeastOf
    <2>. QED
      BY <2>2
  <1>4. m # 0 /\ m \in 1..n /\ m - 1 \in 0..n /\ ~(m <= m - 1)
    BY <1>1
  <1>. QED
    BY <1>1, <1>2, <1>3, <1>4

-----------------------------------------------------------------------------
(* Which dashes are chosen.                                                *)

\* Before the first dash.
NoDash == [state |-> Narration, tag |-> FALSE, chosen |-> <<>>]

\* f goes through the dashes.
Passes(f, t, D, n) == f = [k \in 0..n |-> IF k = 0 THEN NoDash ELSE Passed(t, D, f[k - 1], k)]

\* There is such a passing, up to any dash.
LEMMA SomePassing ==
    ASSUME NEW t, NEW D, NEW n \in Nat
    PROVE  \E f : Passes(f, t, D, n)
  <1>. DEFINE Good == {m \in 0..n : \E f : Passes(f, t, D, m)}
  <1>1. 0 \in Good
    <2>. DEFINE f == [k \in 0..0 |-> NoDash]
    <2>1. Passes(f, t, D, 0)
      BY DEF Passes
    <2>. QED
      BY <2>1
  <1>2. ASSUME NEW m \in 1..n, m - 1 \in Good PROVE m \in Good
    <2>1. PICK f : Passes(f, t, D, m - 1)
      BY <1>2
    <2>. DEFINE g == [k \in 0..m |-> IF k = m THEN Passed(t, D, f[m - 1], m) ELSE f[k]]
    <2>2. ASSUME NEW k \in 0..m PROVE g[k] = IF k = 0 THEN NoDash ELSE Passed(t, D, g[k - 1], k)
      <3>1. CASE k = m
        <4>1. k # 0 /\ k - 1 \in 0..m /\ k - 1 # m
          BY <3>1
        <4>. QED
          BY <3>1, <4>1
      <3>2. CASE k # m
        <4>1. k \in 0..(m - 1) /\ (k # 0 => k - 1 \in 0..m /\ k - 1 # m)
          BY <3>2
        <4>2. f[k] = IF k = 0 THEN NoDash ELSE Passed(t, D, f[k - 1], k)
          BY <2>1, <4>1 DEF Passes
        <4>. QED
          BY <3>2, <4>1, <4>2
      <3>. QED
        BY <3>1, <3>2
    <2>3. g = [k \in 0..m |-> g[k]]
      OBVIOUS
    <2>. HIDE DEF g
    <2>4. Passes(g, t, D, m)
      BY <2>2, <2>3 DEF Passes
    <2>. QED
      BY <2>4
  <1>. HIDE DEF Good
  <1>3. n \in Good
    BY <1>1, <1>2, Inductive
  <1>. QED
    BY <1>3 DEF Good

\* Confirmed() is the last of it.
LEMMA PassingOf ==
    ASSUME NEW t, NEW D, Len(D) \in Nat
    PROVE  \E f : Passes(f, t, D, Len(D)) /\ Confirmed(t, D) = f[Len(D)].chosen
  <1>. DEFINE F == CHOOSE f : f = [k \in 0..Len(D) |-> IF k = 0 THEN NoDash ELSE Passed(t, D, f[k - 1], k)]
  <1>1. F = [k \in 0..Len(D) |-> IF k = 0 THEN NoDash ELSE Passed(t, D, F[k - 1], k)]
    <2>1. \E f : f = [k \in 0..Len(D) |-> IF k = 0 THEN NoDash ELSE Passed(t, D, f[k - 1], k)]
      <3>1. \E f : Passes(f, t, D, Len(D))
        BY SomePassing
      <3>. QED
        BY <3>1 DEF Passes
    <2>. QED
      BY <2>1
  <1>2. Confirmed(t, D) = F[Len(D)].chosen
    BY DEF Confirmed, NoDash
  <1>. HIDE DEF F
  <1>3. Passes(F, t, D, Len(D))
    BY <1>1 DEF Passes
  <1>. QED
    BY <1>2, <1>3

\* What a list of dashes is that FindDashes() gives.
Dashed(t, D) == /\ Len(D) \in Nat /\ DOMAIN D = 1..Len(D)
                /\ \A k \in 1..Len(D) : IsDash(t, D[k])
                /\ \A j, k \in 1..Len(D) : j < k => D[j].start < D[k].start

\* The dashes chosen among the first k: some of them, in their order; what is read behind the
\* last; and behind a speech tag the next dash is always one of them.
Choice(t, D, k, a) ==
    /\ Len(a.chosen) \in Nat /\ a.chosen \in Seq({D[m] : m \in 1..k})
    /\ \A i, j \in 1..Len(a.chosen) : i < j => a.chosen[i].start < a.chosen[j].start
    /\ Len(a.chosen) = 0 => a.state = Narration /\ a.tag = FALSE
    /\ Len(a.chosen) # 0 => /\ a.state = StateAfter(t, a.chosen[Len(a.chosen)])
                            /\ a.tag = Tagged(t, a.chosen[Len(a.chosen)])
    /\ \A m \in 1..k, i \in 1..Len(a.chosen) :
          Tagged(t, a.chosen[i]) /\ a.chosen[i].start < D[m].start =>
              i < Len(a.chosen) /\ a.chosen[i + 1].start <= D[m].start
    /\ k # 0 /\ D[1].kind = "initial" => Len(a.chosen) # 0 /\ a.chosen[1] = D[1]

\* A choice with one more dash.
Chosen(a, d, state, tag) == [state |-> state, tag |-> tag, chosen |-> Append(a.chosen, d)]

\* A dash is chosen.
LEMMA TakenStep ==
    ASSUME NEW t, NEW D, Dashed(t, D), NEW k \in 1..Len(D), NEW a, Choice(t, D, k - 1, a),
           NEW state, NEW tag, state = StateAfter(t, D[k]), tag = Tagged(t, D[k])
    PROVE  Choice(t, D, k, Chosen(a, D[k], state, tag))
  <1>. DEFINE b == Chosen(a, D[k], state, tag)
              n == Len(a.chosen)
              d == D[k]
              Old == {D[m] : m \in 1..(k - 1)}
              New == {D[m] : m \in 1..k}
  <1>1. k \in Nat /\ k - 1 \in Nat /\ Len(D) \in Nat /\ 1..(k - 1) \subseteq 1..k /\ k \in 1..k
    BY DEF Dashed
  <1>2. Old \subseteq New /\ d \in New
    BY <1>1
  <1>3. a.chosen \in Seq(Old) /\ n \in Nat
    BY DEF Choice
  <1>4. \A e \in Old : e.start < d.start
    BY <1>1 DEF Dashed
  <1>. HIDE DEF Old, New
  <1>5. a.chosen \in Seq(New)
    <2>1. DOMAIN a.chosen = 1..n /\ \A i \in 1..n : a.chosen[i] \in New
      BY <1>2, <1>3
    <2>2. a.chosen = [i \in 1..n |-> a.chosen[i]]
      BY <1>3
    <2>. QED
      BY <2>1, <2>2, <1>3
  <1>6. /\ b.chosen \in Seq(New) /\ Len(b.chosen) = n + 1 /\ b.chosen[n + 1] = d
        /\ \A i \in 1..n : b.chosen[i] = a.chosen[i] /\ b.chosen[i].start < d.start
        /\ b.state = state /\ b.tag = tag
    <2>1. b.chosen = Append(a.chosen, d) /\ b.state = state /\ b.tag = tag
      BY DEF Chosen
    <2>2. \A i \in 1..n : a.chosen[i] \in Old
      BY <1>3
    <2>. HIDE DEF b, d
    <2>. QED
      BY <2>1, <2>2, <1>2, <1>3, <1>4, <1>5
  <1>7. ASSUME NEW i \in 1..(n + 1), NEW j \in 1..(n + 1), i < j
        PROVE  b.chosen[i].start < b.chosen[j].start
    <2>. HIDE DEF b
    <2>1. CASE j = n + 1
      <3>1. i \in 1..n
        BY <1>3, <1>7, <2>1
      <3>. QED
        BY <3>1, <2>1, <1>6
    <2>2. CASE j # n + 1
      <3>1. i \in 1..n /\ j \in 1..n
        BY <1>3, <1>7, <2>2
      <3>2. a.chosen[i].start < a.chosen[j].start
        BY <3>1, <1>7 DEF Choice
      <3>. QED
        BY <3>1, <3>2, <1>6
    <2>. QED
      BY <2>1, <2>2
  <1>8. ASSUME NEW m \in 1..k, NEW i \in 1..(n + 1), Tagged(t, b.chosen[i]), b.chosen[i].start < D[m].start
        PROVE  i < n + 1 /\ b.chosen[i + 1].start <= D[m].start
    <2>. HIDE DEF b
    <2>1. \A e \in 1..k : D[e].start \in Int /\ D[e].start <= d.start
      BY <1>1 DEF Dashed, IsDash
    <2>2. i # n + 1
      BY <2>1, <1>6, <1>8
    <2>3. i \in 1..n /\ i + 1 \in 1..(n + 1) /\ b.chosen[i] = a.chosen[i]
      BY <2>2, <1>3, <1>6
    <2>4. CASE m = k
      <3>1. i + 1 = n + 1 \/ i + 1 \in 1..n
        BY <2>3, <1>3
      <3>2. CASE i + 1 = n + 1
        <4>1. b.chosen[i + 1] = d
          BY <3>2, <1>6
        <4>2. d.start \in Int /\ D[m].start = d.start
          BY <2>1, <2>4, <1>1
        <4>. HIDE DEF d
        <4>. QED
          BY <4>1, <4>2, <3>2, <2>3, <1>3
      <3>3. CASE i + 1 \in 1..n
        <4>1. b.chosen[i + 1].start < d.start /\ a.chosen[i + 1] \in Old /\ b.chosen[i + 1] = a.chosen[i + 1]
          BY <3>3, <1>3, <1>6
        <4>2. b.chosen[i + 1].start \in Int /\ d.start \in Int
          BY <4>1, <2>1, <1>1 DEF Old
        <4>. QED
          BY <4>1, <4>2, <2>3, <2>4, <1>3
      <3>. QED
        BY <3>1, <3>2, <3>3
    <2>5. CASE m # k
      <3>1. m \in 1..(k - 1)
        BY <2>5, <1>1
      <3>2. i < n /\ a.chosen[i + 1].start <= D[m].start
        BY <3>1, <2>3, <1>8 DEF Choice
      <3>3. i + 1 \in 1..n
        BY <3>2, <2>3, <1>3
      <3>4. b.chosen[i + 1] = a.chosen[i + 1]
        <4>. HIDE DEF d
        <4>. QED
          BY <3>3, <1>6
      <3>5. i < n + 1
        BY <3>2, <1>3
      <3>. HIDE DEF d
      <3>. QED
        BY <3>2, <3>4, <3>5
    <2>. QED
      BY <2>4, <2>5
  <1>9. D[1].kind = "initial" => b.chosen[1] = D[1]
    <2>. HIDE DEF b
    <2>. SUFFICES ASSUME D[1].kind = "initial" PROVE b.chosen[1] = D[1]
      OBVIOUS
    <2>1. CASE k = 1
      <3>1. Old = {}
        BY <2>1 DEF Old
      <3>2. n = 0
        <4>. SUFFICES ASSUME n # 0 PROVE FALSE
          OBVIOUS
        <4>1. a.chosen[1] \in Old
          BY <1>3
        <4>. QED
          BY <4>1, <3>1
      <3>. QED
        BY <2>1, <3>2, <1>6
    <2>2. CASE k # 1
      <3>1. n # 0 /\ a.chosen[1] = D[1]
        BY <2>2, <1>1 DEF Choice
      <3>. QED
        BY <3>1, <1>3, <1>6
    <2>. QED
      BY <2>1, <2>2
  <1>. HIDE DEF b
  <1>10. Choice(t, D, k, b)
    <2>1. Len(b.chosen) = n + 1 /\ n + 1 \in Nat /\ n + 1 # 0 /\ b.chosen[Len(b.chosen)] = D[k]
      BY <1>3, <1>6
    <2>. HIDE DEF n
    <2>. QED
      BY <2>1, <1>6, <1>7, <1>8, <1>9 DEF Choice, New
  <1>. QED
    BY <1>10 DEF b

\* A dash is passed over.
LEMMA LeftStep ==
    ASSUME NEW t, NEW D, Dashed(t, D), NEW k \in 1..Len(D), NEW a, Choice(t, D, k - 1, a),
           D[k].kind # "initial", ~(a.state = Narration /\ a.tag)
    PROVE  Choice(t, D, k, a)
  <1>. DEFINE n == Len(a.chosen)
              Old == {D[m] : m \in 1..(k - 1)}
              New == {D[m] : m \in 1..k}
  <1>1. k \in Nat /\ k - 1 \in Nat /\ Len(D) \in Nat /\ 1..(k - 1) \subseteq 1..k /\ k \in 1..k
    BY DEF Dashed
  <1>2. Old \subseteq New
    BY <1>1
  <1>3. a.chosen \in Seq(Old) /\ n \in Nat
    BY DEF Choice
  <1>4. \A e \in Old : e.start < D[k].start /\ e.start \in Int /\ D[k].start \in Int
    BY <1>1 DEF Dashed, IsDash
  <1>. HIDE DEF Old, New
  <1>5. a.chosen \in Seq(New)
    <2>1. DOMAIN a.chosen = 1..n /\ \A i \in 1..n : a.chosen[i] \in New
      BY <1>2, <1>3
    <2>2. a.chosen = [i \in 1..n |-> a.chosen[i]]
      BY <1>3
    <2>. QED
      BY <2>1, <2>2, <1>3
  <1>6. n # 0 => ~Tagged(t, a.chosen[n])
    BY DEF Choice, StateAfter, Narration
  <1>7. ASSUME NEW m \in 1..k, NEW i \in 1..n, Tagged(t, a.chosen[i]), a.chosen[i].start < D[m].start
        PROVE  i < n /\ a.chosen[i + 1].start <= D[m].start
    <2>1. CASE m = k
      <3>1. i # n /\ n # 0
        BY <1>3, <1>6, <1>7
      <3>2. i < n /\ i + 1 \in 1..n
        BY <1>3, <3>1
      <3>3. a.chosen[i + 1] \in Old
        BY <3>2, <1>3
      <3>. QED
        BY <3>2, <3>3, <1>4, <2>1
    <2>2. CASE m # k
      <3>1. m \in 1..(k - 1)
        BY <2>2, <1>1
      <3>. QED
        BY <3>1, <1>7 DEF Choice
    <2>. QED
      BY <2>1, <2>2
  <1>8. D[1].kind = "initial" => n # 0 /\ a.chosen[1] = D[1]
    <2>1. D[1].kind = "initial" => k # 1
      OBVIOUS
    <2>. QED
      BY <2>1, <1>1 DEF Choice
  <1>. QED
    BY <1>3, <1>5, <1>7, <1>8 DEF Choice, New

\* Each dash is chosen or passed over.
LEMMA PassedStep ==
    ASSUME NEW t, NEW D, Dashed(t, D), NEW k \in 1..Len(D), NEW a, Choice(t, D, k - 1, a)
    PROVE  Choice(t, D, k, Passed(t, D, a, k))
  <1>1. CASE D[k].kind \in {"initial", "colon"}
    <2>1. ~Tagged(t, D[k])
      BY <1>1 DEF Tagged
    <2>2. Passed(t, D, a, k) = Chosen(a, D[k], Spoken, FALSE)
      BY <1>1, <2>1 DEF Passed, Chosen
    <2>3. Spoken = StateAfter(t, D[k]) /\ FALSE = Tagged(t, D[k])
      BY <2>1 DEF StateAfter, Tagged
    <2>. QED
      BY <2>2, <2>3, TakenStep
  <1>2. CASE Tagged(t, D[k])
    <2>1. D[k].kind \notin {"initial", "colon"}
      BY <1>2 DEF Tagged
    <2>2. Passed(t, D, a, k) = Chosen(a, D[k], Narration, TRUE)
      BY <1>2, <2>1 DEF Passed, Chosen
    <2>3. Narration = StateAfter(t, D[k]) /\ TRUE = Tagged(t, D[k])
      BY <1>2 DEF StateAfter, Tagged
    <2>. QED
      BY <2>2, <2>3, TakenStep
  <1>3. CASE D[k].kind \notin {"initial", "colon"} /\ ~Tagged(t, D[k]) /\ Opens(t, D, a, k)
    <2>2. Passed(t, D, a, k) = Chosen(a, D[k], Spoken, FALSE)
      BY <1>3 DEF Passed, Chosen
    <2>3. Spoken = StateAfter(t, D[k]) /\ FALSE = Tagged(t, D[k])
      BY <1>3 DEF StateAfter, Tagged
    <2>. QED
      BY <2>2, <2>3, TakenStep
  <1>4. CASE D[k].kind \notin {"initial", "colon"} /\ ~Tagged(t, D[k]) /\ ~Opens(t, D, a, k)
    <2>1. Passed(t, D, a, k) = a
      BY <1>4 DEF Passed
    <2>2. ~(a.state = Narration /\ a.tag)
      BY <1>4 DEF Opens
    <2>. QED
      BY <2>1, <2>2, <1>4, LeftStep
  <1>. QED
    BY <1>1, <1>2, <1>3, <1>4

\* What is confirmed is chosen among all the dashes.
LEMMA ConfirmedChoice ==
    ASSUME NEW t, NEW D, Dashed(t, D)
    PROVE  \E a : Choice(t, D, Len(D), a) /\ Confirmed(t, D) = a.chosen
  <1>1. Len(D) \in Nat
    BY DEF Dashed
  <1>2. PICK f : Passes(f, t, D, Len(D)) /\ Confirmed(t, D) = f[Len(D)].chosen
    BY <1>1, PassingOf
  <1>. DEFINE Good == {k \in 0..Len(D) : Choice(t, D, k, f[k])}
  <1>3. 0 \in Good
    <2>1. f[0] = NoDash
      BY <1>1, <1>2 DEF Passes
    <2>2. Choice(t, D, 0, NoDash)
      BY DEF Choice, NoDash
    <2>. QED
      BY <2>1, <2>2, <1>1
  <1>4. ASSUME NEW k \in 1..Len(D), k - 1 \in Good PROVE k \in Good
    <2>1. f[k] = Passed(t, D, f[k - 1], k)
      BY <1>1, <1>2 DEF Passes
    <2>2. Choice(t, D, k, Passed(t, D, f[k - 1], k))
      BY <1>4, PassedStep
    <2>. QED
      BY <2>1, <2>2, <1>1
  <1>. HIDE DEF Good
  <1>5. \A k \in 0..Len(D) : k \in Good
    BY <1>1, <1>3, <1>4, Inductive
  <1>6. Len(D) \in Good
    BY <1>1, <1>5
  <1>. QED
    BY <1>2, <1>6 DEF Good

-----------------------------------------------------------------------------
(* Tilings.                                                                *)

\* What a text is cut into.
Piece == [kind : {Narration, Spoken}, start : Int, end : Int]

\* Pieces that are not empty and do not overlap.
ApartPieces(S) ==
    /\ S \subseteq Piece /\ IsFiniteSet(S)
    /\ \A s \in S : s.start < s.end
    /\ \A s, r \in S : s # r => s.end <= r.start \/ r.end <= s.start

\* No piece begins before the text.
FromZero(S) == \A s \in S : 0 <= s.start

\* Pieces in a row, from a on.
InRow(L, a) ==
    /\ L \in Seq(Piece)
    /\ \A k \in 1..Len(L) : a <= L[k].start /\ L[k].start < L[k].end
    /\ \A j, k \in 1..Len(L) : j < k => L[j].end <= L[k].start

\* They are laid one behind the other.
LEMMA LaidOut ==
    ASSUME NEW S, ApartPieces(S)
    PROVE  /\ Laid(S) \in Seq(S)
           /\ \A k \in 1..(Len(Laid(S)) - 1) : Laid(S)[k].end <= Laid(S)[k + 1].start
           /\ \A j, k \in 1..Len(Laid(S)) : j < k => Laid(S)[j].end <= Laid(S)[k].start
           /\ \A s \in S : \E k \in 1..Len(Laid(S)) : Laid(S)[k] = s
  <1>. DEFINE R == {p \in S \X S : p[1].start < p[2].start}
              n == Cardinality(S)
              L == [k \in 1..n |-> CHOOSE x \in S : Cardinality({y \in S : y.start < x.start}) = k - 1]
  <1>1. \A s \in S : s.start \in Int /\ s.end \in Int /\ s.start < s.end
    BY DEF ApartPieces, Piece
  <1>2. \A s, r \in S : s # r => s.start < r.start \/ r.start < s.start
    BY <1>1 DEF ApartPieces
  <1>3. \A x, y \in S : <<x, y>> \in R <=> x.start < y.start
    OBVIOUS
  <1>4. Ordering(R, S)
    <2>. HIDE DEF R
    <2>. QED
      BY <1>1, <1>2, <1>3 DEF Ordering
  <1>5. \A x \in S : Below(R, S, x) = {y \in S : y.start < x.start}
    BY DEF Below
  <1>6. Laid(S) = L
    BY DEF Laid, Ranked
  <1>. HIDE DEF R
  <1>7. /\ n \in Nat
        /\ \A k \in 1..n : \E x \in S : Cardinality(Below(R, S, x)) = k - 1
        /\ \A x \in S : Cardinality(Below(R, S, x)) \in 0..(n - 1)
        /\ \A x, y \in S : Cardinality(Below(R, S, x)) < Cardinality(Below(R, S, y)) => <<x, y>> \in R
        /\ \A x, y \in S : Cardinality(Below(R, S, x)) = Cardinality(Below(R, S, y)) => x = y
    BY <1>4, Listed DEF ApartPieces
  <1>8. ASSUME NEW k \in 1..n
        PROVE  L[k] \in S /\ Cardinality(Below(R, S, L[k])) = k - 1
    <2>1. \E x \in S : Cardinality({y \in S : y.start < x.start}) = k - 1
      BY <1>5, <1>7
    <2>2. L[k] \in S /\ Cardinality({y \in S : y.start < L[k].start}) = k - 1
      BY <2>1
    <2>. QED
      BY <2>2, <1>5
  <1>. HIDE DEF n
  <1>9. L \in Seq(S) /\ Len(L) = n
    <2>1. L \in [1..n -> S]
      BY <1>8
    <2>. HIDE DEF L
    <2>. QED
      BY <2>1, <1>7
  <1>. HIDE DEF L
  <1>9a. ASSUME NEW j \in 1..n, NEW k \in 1..n, j < k PROVE L[j].end <= L[k].start
    <2>1. j - 1 < k - 1
      BY <1>7, <1>9a
    <2>2. <<L[j], L[k]>> \in R /\ L[j] \in S /\ L[k] \in S
      BY <2>1, <1>7, <1>8
    <2>3. L[j].start < L[k].start
      BY <2>2, <1>3
    <2>. QED
      BY <2>2, <2>3, <1>1 DEF ApartPieces
  <1>10. ASSUME NEW k \in 1..(n - 1) PROVE L[k].end <= L[k + 1].start
    <2>1. k \in 1..n /\ k + 1 \in 1..n /\ k < k + 1
      BY <1>7
    <2>. QED
      BY <2>1, <1>9a
  <1>11. ASSUME NEW s \in S PROVE \E k \in 1..n : L[k] = s
    <2>1. PICK m \in 0..(n - 1) : m = Cardinality(Below(R, S, s))
      BY <1>7
    <2>2. m + 1 \in 1..n /\ (m + 1) - 1 = m
      BY <1>7
    <2>. QED
      BY <2>1, <2>2, <1>7, <1>8
  <1>. QED
    BY <1>6, <1>9, <1>9a, <1>10, <1>11

\* Laid out, they are in a row.
LEMMA LaidInRow ==
    ASSUME NEW S, ApartPieces(S), FromZero(S)
    PROVE  InRow(Laid(S), 0)
  <1>. DEFINE L == Laid(S)
  <1>1. L \in Seq(S) /\ \A j, k \in 1..Len(L) : j < k => L[j].end <= L[k].start
    BY LaidOut
  <1>2. S \subseteq Piece /\ \A s \in S : 0 <= s.start /\ s.start < s.end
    BY DEF ApartPieces, FromZero
  <1>. HIDE DEF L
  <1>3. L \in Seq(Piece)
    BY <1>1, <1>2
  <1>4. ASSUME NEW k \in 1..Len(L) PROVE 0 <= L[k].start /\ L[k].start < L[k].end
    <2>1. L[k] \in S
      BY <1>1
    <2>. QED
      BY <2>1, <1>2
  <1>. QED
    BY <1>1, <1>3, <1>4 DEF InRow, L

\* Every letter is in a piece.
Covers(t, S) == \A i \in 0..(Len(t) - 1) : At(t, i) \in Alnum => \E s \in S : s.start <= i /\ i < s.end

\* A narration takes in no dash.
Parted(S, D) == D # <<>> /\ D[1].kind = "initial" =>
                    \A s \in S : s.kind = Narration =>
                        \A m \in 1..Len(D) : ~(s.start <= D[m].start /\ D[m].start < s.end)

\* Pieces that hold every letter and part at the dashes are a tiling when they are laid.
LEMMA LaidTiles ==
    ASSUME NEW t \in Seq(Symbols), NEW S, ApartPieces(S), NEW D, Covers(t, S), Parted(S, D)
    PROVE  Tiled(t, Laid(S), D)
  <1>1. /\ Laid(S) \in Seq(S)
        /\ \A k \in 1..(Len(Laid(S)) - 1) : Laid(S)[k].end <= Laid(S)[k + 1].start
        /\ \A s \in S : \E k \in 1..Len(Laid(S)) : Laid(S)[k] = s
    BY LaidOut
  <1>. DEFINE L == Laid(S)
  <1>2. \A k \in 1..Len(L) : L[k] \in S
    BY <1>1
  <1>. HIDE DEF L
  <1>3. \A i \in 0..(Len(t) - 1) : At(t, i) \in Alnum => \E k \in 1..Len(L) : L[k].start <= i /\ i < L[k].end
    BY <1>1 DEF Covers, L
  <1>4. Tiled(t, L, D)
    BY <1>1, <1>2, <1>3 DEF Tiled, Parted, L
  <1>. QED
    BY <1>4 DEF L

\* The symbols that are not words.
Signs == {"sp", "nl", "ls", "hyphen", "endash", "dash", "stop", "colon", "comma", "lquote", "rquote"}

\* A sequence of words.
Worded(s) == \A i \in DOMAIN s : s[i] \notin Signs

\* Its members are words.
LEMMA WordedSet ==
    ASSUME NEW s, Worded(s)
    PROVE  \A c \in ToSet(s) : c \notin Signs
  BY DEF Worded, ToSet

\* The words of numbers are words.
LEMMA NumberWordsAreWords == \A c \in NumberWords : c \notin Signs
  <1>. DEFINE WordLists == {Units, Teens, Tens, Hundreds, OrdinalsLow, OrdinalTens, OrdinalHundreds, UnitStems,
                         TeenStems, TenStems, HundredStems, Fractions[1], Fractions[2], Fractions[3]}
              Forms == {ToSet(Scales[i].forms) : i \in 1..3}
              Rest == {"jedna", "dwie", "przecinek", "i", "tysieczny"}
              Tabled == UNION {ToSet(s) : s \in WordLists}
              Formed == UNION Forms
  <1>0. NumberWords = Tabled \cup Formed \cup Rest
    BY DEF NumberWords
  <1>1. Worded(Units)
    BY DEF Worded, Units, Signs
  <1>2. Worded(Teens)
    BY DEF Worded, Teens, Signs
  <1>3. Worded(Tens)
    BY DEF Worded, Tens, Signs
  <1>4. Worded(Hundreds)
    BY DEF Worded, Hundreds, Signs
  <1>5. Worded(OrdinalsLow)
    BY DEF Worded, OrdinalsLow, Signs
  <1>6. Worded(OrdinalTens)
    BY DEF Worded, OrdinalTens, Signs
  <1>7. Worded(OrdinalHundreds)
    BY DEF Worded, OrdinalHundreds, Signs
  <1>8. Worded(UnitStems)
    BY DEF Worded, UnitStems, Signs
  <1>9. Worded(TeenStems)
    BY DEF Worded, TeenStems, Signs
  <1>10. Worded(TenStems)
    BY DEF Worded, TenStems, Signs
  <1>11. Worded(HundredStems)
    BY DEF Worded, HundredStems, Signs
  <1>12. Worded(Fractions[1]) /\ Worded(Fractions[2]) /\ Worded(Fractions[3])
    BY DEF Worded, Fractions, Signs
  <1>13. \A i \in 1..3 : Worded(Scales[i].forms)
    BY DEF Worded, Scales, Signs
  <1>14. \A c \in Rest : c \notin Signs
    BY DEF Signs
  <1>15. ASSUME NEW s \in WordLists
         PROVE  Worded(s)
    BY <1>1, <1>2, <1>3, <1>4, <1>5, <1>6, <1>7, <1>8, <1>9, <1>10, <1>11, <1>12
  <1>16. \A c \in UNION {ToSet(s) : s \in WordLists} : \E s \in WordLists : c \in ToSet(s)
    <2>. HIDE DEF WordLists
    <2>. QED
      OBVIOUS
  <1>18. \A c \in Tabled : \E s \in WordLists : c \in ToSet(s)
    BY <1>16
  <1>19. \A c \in Formed : \E i \in 1..3 : c \in ToSet(Scales[i].forms)
    OBVIOUS
  <1>. HIDE DEF WordLists, Rest, Tabled, Formed
  <1>20. ASSUME NEW c \in NumberWords PROVE c \notin Signs
    <2>1. CASE c \in Rest
      BY <2>1, <1>14
    <2>2. CASE c \in Formed
      <3>1. PICK i \in 1..3 : c \in ToSet(Scales[i].forms)
        BY <2>2, <1>19
      <3>. QED
        BY <3>1, <1>13, WordedSet
    <2>3. CASE c \in Tabled
      BY <2>3, <1>18, <1>15, WordedSet
    <2>. QED
      BY <1>0, <2>1, <2>2, <2>3
  <1>. QED
    BY <1>20

\* Words and signs are told apart.
LEMMA Classes ==
    /\ \A c \in Alnum : c \notin Signs
    /\ Space \cup Dashes \cup Marks \cup DOMAIN Pairs \subseteq Signs
    /\ \A c \in Dashes : c \notin Space
  <1>1. \A c \in Alnum : c \in NumberWords \/ c \notin Signs
    BY DEF Alnum, Letters, Lower, Upper, Names, Capitals, Digits, Phrases, Spelled, Verbs, Signs
  <1>2. Space \cup Dashes \cup Marks \cup DOMAIN Pairs \subseteq Signs
    BY DEF Space, Dashes, Marks, Pairs, Signs
  <1>3. \A c \in Dashes : c \notin Space
    BY DEF Space, Dashes
  <1>. QED
    BY <1>1, <1>2, <1>3, NumberWordsAreWords

\* The pieces of a text that is cut at some places: piece k is what is left between F[k] and
\* U[k], of kind K[k].
Cutting(t, I, F, U, K) ==
    /\ IsFiniteSet(I)
    /\ F \in [I -> 0..Len(t)] /\ U \in [I -> 0..Len(t)] /\ K \in [I -> {Narration, Spoken}]
    /\ \A k \in I : F[k] <= U[k]
    /\ \A j, k \in I : j # k => U[j] <= F[k] \/ U[k] <= F[j]

\* Piece k of a cut.
PieceOf(t, F, U, K, k) == Seg(K[k], Trimmed(t, F[k], U[k]))

\* Where a piece is.
Holds(t, s, a, b) ==
    /\ s.start \in a..b /\ s.end \in s.start..b
    /\ \A i \in a..(b - 1) : At(t, i) \in Alnum => s.start <= i /\ i < s.end
    /\ s.start < s.end => At(t, s.start) \notin Space

\* It is where it was cut, and holds the letters there.
LEMMA PieceIs ==
    ASSUME NEW t \in Seq(Symbols), NEW I, NEW F, NEW U, NEW K, Cutting(t, I, F, U, K), NEW k \in I
    PROVE  /\ PieceOf(t, F, U, K, k) \in Piece /\ PieceOf(t, F, U, K, k).kind = K[k]
           /\ Holds(t, PieceOf(t, F, U, K, k), F[k], U[k])
  <1>. DEFINE a == F[k]
              b == U[k]
              T == Space \cup Dashes
              s == Strip(t, a, b, T)
              p == PieceOf(t, F, U, K, k)
  <1>1. Len(t) \in Nat
    OBVIOUS
  <1>2. a \in 0..Len(t) /\ b \in 0..Len(t) /\ a <= b /\ K[k] \in {Narration, Spoken}
    BY DEF Cutting
  <1>3. a \in Nat /\ b \in Nat
    BY <1>1, <1>2
  <1>4. p = [kind |-> K[k], start |-> s[1], end |-> s[2]]
    BY DEF PieceOf, Seg, Trimmed
  <1>. HIDE DEF a, b, T, s, p
  <1>5. Leaves(t, a, b, T, s[1], s[2])
    BY <1>2, <1>3, StripLeaves DEF s
  <1>6. \A i \in a..(b - 1) : At(t, i) \in Alnum => At(t, i) \notin T
    BY Classes DEF T
  <1>7. /\ s[1] \in a..b /\ s[2] \in s[1]..b
        /\ \A i \in a..(b - 1) : At(t, i) \in Alnum => s[1] <= i /\ i < s[2]
        /\ s[1] < s[2] => At(t, s[1]) \notin Space
    BY <1>5, <1>6 DEF Leaves, T
  <1>8. s[1] \in Int /\ s[2] \in Int
    BY <1>3, <1>7
  <1>9. p \in Piece /\ p.kind = K[k]
    BY <1>2, <1>4, <1>8 DEF Piece
  <1>10. Holds(t, p, a, b)
    BY <1>4, <1>7 DEF Holds
  <1>. QED
    BY <1>9, <1>10 DEF p, a, b

\* A finite set stays finite under a function.
LEMMA ImageFinite ==
    ASSUME NEW I, IsFiniteSet(I), NEW f
    PROVE  IsFiniteSet({f[k] : k \in I})
  <1>. DEFINE J == {f[k] : k \in I}
              g == [k \in I |-> f[k]]
  <1>1. g \in Surjection(I, J)
    BY DEF Surjection
  <1>. QED
    BY <1>1, FS_Surjection

\* The pieces of a cut that are not empty are apart.
LEMMA CutPieces ==
    ASSUME NEW t \in Seq(Symbols), NEW I, NEW F, NEW U, NEW K, Cutting(t, I, F, U, K),
           NEW S, S \subseteq {PieceOf(t, F, U, K, k) : k \in I}, \A s \in S : s.start < s.end
    PROVE  /\ ApartPieces(S)
           /\ FromZero(S)
  <1>. DEFINE f == [k \in I |-> PieceOf(t, F, U, K, k)]
  <1>1. \A k \in I : f[k] = PieceOf(t, F, U, K, k)
    OBVIOUS
  <1>2. S \subseteq {f[k] : k \in I}
    BY <1>1
  <1>. HIDE DEF f
  <1>3. IsFiniteSet(S)
    <2>1. IsFiniteSet({f[k] : k \in I})
      BY ImageFinite DEF Cutting
    <2>. QED
      BY <2>1, <1>2, FS_Subset
  <1>4. ASSUME NEW k \in I
        PROVE  /\ f[k] \in Piece
               /\ f[k].start \in F[k]..U[k] /\ f[k].end \in f[k].start..U[k]
    BY <1>1, PieceIs DEF Holds
  <1>5. S \subseteq Piece
    BY <1>2, <1>4
  <1>6. ASSUME NEW s \in S, NEW r \in S, s # r PROVE s.end <= r.start \/ r.end <= s.start
    <2>1. PICK j \in I : s = f[j]
      BY <1>2
    <2>2. PICK k \in I : r = f[k]
      BY <1>2
    <2>3. j # k
      BY <2>1, <2>2, <1>6
    <2>4. U[j] <= F[k] \/ U[k] <= F[j]
      BY <2>3 DEF Cutting
    <2>5. F[j] \in Int /\ U[j] \in Int /\ F[k] \in Int /\ U[k] \in Int
      <3>1. Len(t) \in Nat
        OBVIOUS
      <3>. QED
        BY <3>1 DEF Cutting
    <2>6. s.start \in F[j]..U[j] /\ s.end \in s.start..U[j] /\ r.start \in F[k]..U[k] /\ r.end \in r.start..U[k]
      BY <2>1, <2>2, <1>4
    <2>. QED
      BY <2>4, <2>5, <2>6
  <1>7. ASSUME NEW s \in S PROVE 0 <= s.start
    <2>1. PICK k \in I : s = f[k]
      BY <1>2
    <2>2. F[k] \in 0..Len(t) /\ U[k] \in 0..Len(t) /\ Len(t) \in Nat
      BY DEF Cutting
    <2>3. s.start \in F[k]..U[k] /\ s.end \in s.start..U[k]
      BY <2>1, <1>4
    <2>. QED
      BY <2>2, <2>3
  <1>. QED
    BY <1>3, <1>5, <1>6, <1>7 DEF ApartPieces, FromZero

-----------------------------------------------------------------------------
(* A block that is all narration.                                          *)

\* A text that is not cut is its own tiling.
LEMMA WholeTiles ==
    ASSUME NEW t \in Seq(Symbols), NEW D, D = <<>> \/ D[1].kind # "initial"
    PROVE  Tiled(t, Whole(t), D) /\ InRow(Whole(t), 0)
  <1>. DEFINE F == [k \in {0} |-> 0]
              U == [k \in {0} |-> Len(t)]
              K == [k \in {0} |-> Narration]
              p == PieceOf(t, F, U, K, 0)
              S == {s \in {p} : s.start < s.end}
  <1>1. Len(t) \in Nat
    OBVIOUS
  <1>2. Cutting(t, {0}, F, U, K)
    <2>1. IsFiniteSet({0})
      BY FS_Singleton
    <2>2. F \in [{0} -> 0..Len(t)] /\ U \in [{0} -> 0..Len(t)] /\ K \in [{0} -> {Narration, Spoken}]
      BY <1>1
    <2>3. F[0] <= U[0]
      BY <1>1
    <2>. HIDE DEF F, U, K
    <2>. QED
      BY <2>1, <2>2, <2>3 DEF Cutting
  <1>3. p = Seg(Narration, Trimmed(t, 0, Len(t)))
    BY DEF PieceOf
  <1>4. Whole(t) = Laid(S)
    BY <1>3 DEF Whole, NonEmpty
  <1>5. F[0] = 0 /\ U[0] = Len(t)
    OBVIOUS
  <1>6. S \subseteq {PieceOf(t, F, U, K, k) : k \in {0}}
    OBVIOUS
  <1>. HIDE DEF F, U, K
  <1>7. Holds(t, p, 0, Len(t))
    BY <1>2, <1>5, PieceIs
  <1>8. ApartPieces(S) /\ FromZero(S)
    <2>1. \A s \in S : s.start < s.end
      OBVIOUS
    <2>. HIDE DEF S
    <2>. QED
      BY <1>2, <1>6, <2>1, CutPieces
  <1>. HIDE DEF p
  <1>9. Covers(t, S)
    <2>1. ASSUME NEW i \in 0..(Len(t) - 1), At(t, i) \in Alnum
          PROVE  p.start <= i /\ i < p.end
      BY <2>1, <1>7 DEF Holds
    <2>2. p.start \in Int /\ p.end \in Int
      BY <1>1, <1>7 DEF Holds
    <2>3. ASSUME NEW i \in 0..(Len(t) - 1), At(t, i) \in Alnum
          PROVE  p \in S /\ p.start <= i /\ i < p.end
      BY <2>1, <2>2, <2>3
    <2>. HIDE DEF S
    <2>. QED
      BY <2>3 DEF Covers
  <1>10. Parted(S, D)
    BY DEF Parted
  <1>. HIDE DEF S
  <1>11. InRow(Laid(S), 0)
    BY <1>8, LaidInRow
  <1>. QED
    BY <1>4, <1>8, <1>9, <1>10, <1>11, LaidTiles

-----------------------------------------------------------------------------
(* Pieces between dashes.                                                  *)

\* The later of two offsets.
LEMMA LaterOf ==
    ASSUME NEW a \in Int, NEW b \in Int, a <= b
    PROVE  Max({a, b}) = b
  <1>. DEFINE T == {a, b}
  <1>0. T \in SUBSET Int /\ T # {} /\ b \in T /\ \A k \in T : k <= b
    OBVIOUS
  <1>. HIDE DEF T
  <1>1. Max(T) \in T /\ b <= Max(T)
    BY <1>0, GreatestOf
  <1>. USE DEF T
  <1>. QED
    BY <1>1

\* What is behind a dash, up to the next one.
LEMMA DashEnds ==
    ASSUME NEW t \in Seq(Symbols), NEW d, IsDash(t, d)
    PROVE  /\ d.start \in 0..(Len(t) - 1) /\ d.content \in (d.start + 1)..Len(t)
           /\ \A j \in d.start..(d.content - 1) : At(t, j) \notin Alnum
           /\ \A e : IsDash(t, e) /\ d.start < e.start => d.content <= e.start
  <1>1. d.start \in 0..(Len(t) - 1) /\ At(t, d.start) \in Dashes /\ d.content = FirstNot(t, d.start + 1, Space)
    BY DEF IsDash
  <1>2. Len(t) \in Nat
    OBVIOUS
  <1>. DEFINE i == d.start + 1
  <1>3. i \in 0..Len(t)
    BY <1>1, <1>2
  <1>. HIDE DEF i
  <1>4. /\ d.content \in i..Len(t)
        /\ \A j \in i..(d.content - 1) : At(t, j) \in Space
    BY <1>1, <1>3, FirstNotIs DEF i
  <1>5. ASSUME NEW j \in d.start..(d.content - 1) PROVE At(t, j) \notin Alnum
    <2>1. CASE j = d.start
      BY <2>1, <1>1, Classes
    <2>2. CASE j # d.start
      <3>1. j \in i..(d.content - 1)
        BY <2>2, <1>1, <1>2, <1>3, <1>4 DEF i
      <3>2. At(t, j) \in Space
        BY <3>1, <1>4
      <3>. QED
        BY <3>2, Classes
    <2>. QED
      BY <2>1, <2>2
  <1>6. ASSUME NEW e, IsDash(t, e), d.start < e.start PROVE d.content <= e.start
    <2>1. e.start \in 0..(Len(t) - 1) /\ At(t, e.start) \in Dashes
      BY <1>6 DEF IsDash
    <2>2. At(t, e.start) \notin Space
      BY <2>1, Classes
    <2>3. e.start \notin i..(d.content - 1)
      BY <2>2, <1>4
    <2>. QED
      BY <2>1, <2>3, <1>1, <1>2, <1>3, <1>4, <1>6 DEF i
  <1>. QED
    BY <1>1, <1>4, <1>5, <1>6 DEF i

\* The tiling at the dashes that were chosen (dialogue.py, _dash_tiling).
LEMMA DashTilingTiles ==
    ASSUME NEW t \in Seq(Symbols), NEW D, Dashed(t, D), NEW a, Choice(t, D, Len(D), a), a.chosen # <<>>
    PROVE  Tiled(t, DashTiling(t, a.chosen), D) /\ InRow(DashTiling(t, a.chosen), 0)
  <1>. DEFINE C == a.chosen
              n == Len(C)
              I == 0..n
              from(k) == IF k = 0 THEN 0 ELSE C[k].content
              upto(k) == IF k = n THEN Len(t) ELSE C[k + 1].start
              F == [k \in I |-> from(k)]
              U == [k \in I |-> upto(k)]
              K == [k \in I |-> IF k = 0 THEN Narration ELSE StateAfter(t, C[k])]
              S == {s \in {PieceOf(t, F, U, K, k) : k \in I} : s.start < s.end}
  <1>1. Len(t) \in Nat /\ Len(D) \in Nat
    BY DEF Dashed
  <1>2. n \in Nat /\ C \in Seq({D[m] : m \in 1..Len(D)})
    BY DEF Choice
  <1>3. n # 0
    BY <1>2
  <1>4. ASSUME NEW k \in 1..n
        PROVE  /\ IsDash(t, C[k]) /\ C[k].start \in 0..(Len(t) - 1) /\ C[k].content \in (C[k].start + 1)..Len(t)
               /\ \A j \in C[k].start..(C[k].content - 1) : At(t, j) \notin Alnum
               /\ \A e : IsDash(t, e) /\ C[k].start < e.start => C[k].content <= e.start
    <2>1. C[k] \in {D[m] : m \in 1..Len(D)}
      BY <1>2
    <2>2. PICK m \in 1..Len(D) : C[k] = D[m]
      BY <2>1
    <2>3. IsDash(t, C[k])
      BY <2>2 DEF Dashed
    <2>. HIDE DEF C
    <2>. QED
      BY <2>3, DashEnds
  <1>5. \A i, j \in 1..n : i < j => C[i].start < C[j].start
    BY DEF Choice
  <1>6. ASSUME NEW k \in I
        PROVE  /\ F[k] = from(k) /\ U[k] = upto(k) /\ from(k) \in 0..Len(t) /\ upto(k) \in 0..Len(t)
               /\ from(k) <= upto(k)
    <2>1. from(k) \in 0..Len(t)
      <3>1. CASE k = 0
        BY <3>1, <1>1
      <3>2. CASE k # 0
        <4>1. k \in 1..n
          BY <3>2, <1>2
        <4>2. C[k].start \in 0..(Len(t) - 1) /\ C[k].content \in (C[k].start + 1)..Len(t)
          BY <4>1, <1>4
        <4>. HIDE DEF C
        <4>. QED
          BY <4>2, <3>2, <1>1
      <3>. QED
        BY <3>1, <3>2
    <2>2. upto(k) \in 0..Len(t)
      <3>1. CASE k = n
        BY <3>1, <1>1
      <3>2. CASE k # n
        <4>1. k + 1 \in 1..n
          BY <3>2, <1>2
        <4>2. C[k + 1].start \in 0..(Len(t) - 1)
          BY <4>1, <1>4
        <4>. HIDE DEF C
        <4>. QED
          BY <4>2, <3>2, <1>1
      <3>. QED
        BY <3>1, <3>2
    <2>3. from(k) <= upto(k)
      <3>1. CASE k = 0 \/ k = n
        <4>. HIDE DEF C
        <4>. QED
          BY <3>1, <2>1, <2>2, <1>1
      <3>2. CASE k # 0 /\ k # n
        <4>1. k \in 1..n /\ k + 1 \in 1..n /\ k < k + 1
          BY <3>2, <1>2
        <4>2. C[k].content <= C[k + 1].start
          BY <4>1, <1>4, <1>5
        <4>. QED
          BY <4>2, <3>2
      <3>. QED
        BY <3>1, <3>2
    <2>. QED
      BY <2>1, <2>2, <2>3
  <1>7. ASSUME NEW j \in I, NEW k \in I, j < k PROVE upto(j) <= from(k)
    <2>1. j # n /\ k # 0 /\ j + 1 \in 1..n /\ k \in 1..n /\ (j + 1 = k \/ j + 1 < k)
      BY <1>2, <1>7
    <2>2. C[j + 1].start \in Int /\ C[k].start \in Int /\ C[k].content \in Int /\ C[k].start <= C[k].content
      <3>1. C[j + 1].start \in 0..(Len(t) - 1) /\ C[k].start \in 0..(Len(t) - 1) /\ C[k].content \in (C[k].start + 1)..Len(t)
        BY <2>1, <1>4
      <3>. HIDE DEF C
      <3>. QED
        BY <3>1, <1>1
    <2>3. C[j + 1].start <= C[k].start
      BY <2>1, <2>2, <1>5
    <2>. HIDE DEF C
    <2>. QED
      BY <2>1, <2>2, <2>3
  <1>8. DashTiling(t, C) = Laid(S)
    <2>1. ASSUME NEW k \in I
          PROVE  PieceOf(t, F, U, K, k)
                     = Seg(IF k = 0 THEN Narration ELSE StateAfter(t, C[k]), Trimmed(t, from(k), Max({from(k), upto(k)})))
      <3>1. from(k) \in Int /\ upto(k) \in Int /\ from(k) <= upto(k)
        <4>1. from(k) \in 0..Len(t) /\ upto(k) \in 0..Len(t) /\ from(k) <= upto(k)
          BY <1>6
        <4>. HIDE DEF from, upto
        <4>. QED
          BY <4>1, <1>1
      <3>. HIDE DEF from, upto
      <3>2. Max({from(k), upto(k)}) = upto(k)
        BY <3>1, LaterOf
      <3>. QED
        BY <3>2 DEF PieceOf
    <2>2. {PieceOf(t, F, U, K, k) : k \in I}
             = {Seg(IF k = 0 THEN Narration ELSE StateAfter(t, C[k]), Trimmed(t, from(k), Max({from(k), upto(k)}))) : k \in I}
      <3>. HIDE DEF C, from, upto, F, U, K
      <3>. QED
        BY <2>1
    <2>3. DashTiling(t, C) = NonEmpty({Seg(IF k = 0 THEN Narration ELSE StateAfter(t, C[k]),
                                           Trimmed(t, from(k), Max({from(k), upto(k)}))) : k \in I})
      BY DEF DashTiling
    <2>. HIDE DEF C, from, upto, F, U, K
    <2>. QED
      BY <2>2, <2>3 DEF NonEmpty
  <1>9. K \in [I -> {Narration, Spoken}]
    BY DEF StateAfter
  <1>10. \A k \in I : K[k] = IF k = 0 THEN Narration ELSE StateAfter(t, C[k])
    OBVIOUS
  <1>. HIDE DEF F, U, K
  <1>11. Cutting(t, I, F, U, K)
    <2>1. IsFiniteSet(I)
      <3>1. 0 \in Int /\ n \in Int
        BY <1>2
      <3>. HIDE DEF n
      <3>. QED
        BY <3>1, FS_Interval
    <2>2. F \in [I -> 0..Len(t)] /\ U \in [I -> 0..Len(t)]
      <3>1. \A k \in I : F[k] \in 0..Len(t) /\ U[k] \in 0..Len(t)
        BY <1>6
      <3>2. F = [k \in I |-> F[k]] /\ U = [k \in I |-> U[k]]
        BY DEF F, U
      <3>. QED
        BY <3>1, <3>2
    <2>3. \A k \in I : F[k] <= U[k]
      BY <1>6
    <2>4. ASSUME NEW j \in I, NEW k \in I, j # k PROVE U[j] <= F[k] \/ U[k] <= F[j]
      <3>1. j < k \/ k < j
        BY <2>4, <1>2
      <3>2. F[j] = from(j) /\ U[j] = upto(j) /\ F[k] = from(k) /\ U[k] = upto(k)
        BY <1>6
      <3>. HIDE DEF from, upto
      <3>. QED
        BY <3>1, <3>2, <1>7
    <2>. HIDE DEF I
    <2>. QED
      BY <2>1, <2>2, <2>3, <2>4, <1>9 DEF Cutting
  <1>. HIDE DEF C
  <1>12. ASSUME NEW k \in I
         PROVE  /\ PieceOf(t, F, U, K, k).kind = K[k]
                /\ Holds(t, PieceOf(t, F, U, K, k), from(k), upto(k))
    <2>1. F[k] = from(k) /\ U[k] = upto(k)
      BY <1>6
    <2>. HIDE DEF from, upto, I
    <2>. QED
      BY <2>1, <1>11, PieceIs
  <1>13. ApartPieces(S) /\ FromZero(S)
    <2>1. S \subseteq {PieceOf(t, F, U, K, k) : k \in I} /\ \A s \in S : s.start < s.end
      OBVIOUS
    <2>. HIDE DEF S, I
    <2>. QED
      BY <2>1, <1>11, CutPieces
  <1>14. Covers(t, S)
    <2>1. ASSUME NEW i \in 0..(Len(t) - 1), At(t, i) \in Alnum
          PROVE  \E s \in S : s.start <= i /\ i < s.end
      <3>. DEFINE T == {k \in I : from(k) <= i}
                  k == Max(T)
      <3>1. k \in T /\ \A j \in T : j <= k
        <4>1. 0 \in T
          BY <1>2
        <4>2. T \in SUBSET Int /\ \A j \in T : j <= n
          BY <1>2
        <4>3. n \in Int
          BY <1>2
        <4>. HIDE DEF T, n
        <4>. QED
          BY <4>1, <4>2, <4>3, GreatestOf
      <3>. HIDE DEF k
      <3>2. k \in I /\ from(k) <= i
        BY <3>1
      <3>3. k < n => ~(from(k + 1) <= i)
        <4>1. ASSUME k < n PROVE k + 1 \in I /\ ~(k + 1 <= k)
          BY <3>2, <4>1, <1>2
        <4>. HIDE DEF from
        <4>. QED
          BY <4>1, <3>1
      <3>4. i < upto(k)
        <4>1. CASE k = n
          BY <4>1, <1>1
        <4>2. CASE k # n
          <5>1. k < n /\ k + 1 \in 1..n /\ k + 1 # 0
            BY <4>2, <3>2, <1>2
          <5>2. /\ C[k + 1].start \in 0..(Len(t) - 1) /\ C[k + 1].content \in (C[k + 1].start + 1)..Len(t)
                /\ \A j \in C[k + 1].start..(C[k + 1].content - 1) : At(t, j) \notin Alnum
            BY <5>1, <1>4
          <5>3. i < C[k + 1].content
            BY <5>1, <5>2, <3>3, <1>1
          <5>4. i \notin C[k + 1].start..(C[k + 1].content - 1)
            BY <5>2, <2>1
          <5>5. i < C[k + 1].start
            BY <5>2, <5>3, <5>4, <1>1
          <5>. QED
            BY <5>5, <4>2
        <4>. QED
          BY <4>1, <4>2
      <3>. DEFINE p == PieceOf(t, F, U, K, k)
      <3>5. Holds(t, p, from(k), upto(k)) /\ from(k) \in Int /\ upto(k) \in Int
        BY <3>2, <1>1, <1>6, <1>12
      <3>6. p \in {PieceOf(t, F, U, K, j) : j \in I}
        BY <3>2
      <3>. HIDE DEF p, from, upto
      <3>7. p.start <= i /\ i < p.end /\ p.start \in Int /\ p.end \in Int
        <4>1. i \in from(k)..(upto(k) - 1)
          BY <3>2, <3>4, <3>5
        <4>. QED
          BY <4>1, <3>5, <2>1 DEF Holds
      <3>8. p \in S
        BY <3>6, <3>7
      <3>. QED
        BY <3>7, <3>8
    <2>. HIDE DEF S
    <2>. QED
      BY <2>1 DEF Covers
  <1>15. Parted(S, D)
    <2>1. ASSUME D # <<>>, D[1].kind = "initial", NEW s \in S, s.kind = Narration, NEW m \in 1..Len(D),
                 s.start <= D[m].start, D[m].start < s.end
          PROVE  FALSE
      <3>1. PICK k \in I : s = PieceOf(t, F, U, K, k)
        BY <2>1
      <3>2. K[k] = Narration /\ Holds(t, s, from(k), upto(k)) /\ from(k) \in 0..Len(t) /\ upto(k) \in 0..Len(t)
        BY <3>1, <2>1, <1>6, <1>12
      <3>3. /\ s.start \in from(k)..upto(k) /\ s.end \in s.start..upto(k) /\ s.start < s.end
            /\ At(t, s.start) \notin Space
        BY <3>2, <2>1 DEF Holds
      <3>4. D[m].start \in Int /\ IsDash(t, D[m])
        BY <1>1 DEF Dashed, IsDash
      <3>. HIDE DEF S
      <3>5. CASE k = 0
        <4>1. Len(D) # 0
          BY <2>1, <1>1
        <4>2. C[1] = D[1]
          BY <4>1, <2>1 DEF Choice, C
        <4>3. upto(k) = D[1].start
          BY <4>2, <3>5, <1>3
        <4>4. 1 \in 1..Len(D)
          BY <4>1, <1>1
        <4>5. DashKind(t, D[1].start) = "initial" /\ D[1].start \in 0..(Len(t) - 1)
          BY <4>4, <2>1 DEF Dashed, IsDash
        <4>6. Blank(Slice(t, 0, D[1].start))
          BY <4>5 DEF DashKind
        <4>7. At(t, s.start) \in Space
          <5>. DEFINE q == s.start + 1
          <5>1. q \in 1..D[1].start
            BY <3>2, <3>3, <3>5, <4>3, <4>5, <1>1
          <5>2. Len(Slice(t, 0, D[1].start)) = D[1].start /\ Slice(t, 0, D[1].start)[q] = t[q]
            BY <4>5, <5>1, <1>1 DEF Slice
          <5>. QED
            BY <5>1, <5>2, <4>6 DEF Blank, At
        <4>. QED
          BY <4>7, <3>3
      <3>6. CASE k # 0
        <4>1. k \in 1..n
          BY <3>6, <1>2
        <4>2. StateAfter(t, C[k]) = Narration
          BY <3>2, <3>6, <1>10
        <4>3. Tagged(t, C[k])
          BY <4>2 DEF StateAfter, Narration, Spoken
        <4>4. C[k].start \in 0..(Len(t) - 1) /\ C[k].content \in (C[k].start + 1)..Len(t)
          BY <4>1, <1>4
        <4>5. C[k].start < D[m].start
          BY <4>4, <3>2, <3>3, <3>4, <3>6, <2>1, <1>1
        <4>6. k < n /\ C[k + 1].start <= D[m].start
          BY <4>1, <4>3, <4>5 DEF Choice, C
        <4>7. upto(k) = C[k + 1].start
          BY <4>6, <4>1, <1>2
        <4>. QED
          BY <4>6, <4>7, <3>2, <3>3, <3>4, <2>1, <1>1
      <3>. QED
        BY <3>5, <3>6
    <2>. HIDE DEF S
    <2>. QED
      BY <2>1 DEF Parted
  <1>. HIDE DEF S
  <1>16. InRow(Laid(S), 0)
    BY <1>13, LaidInRow
  <1>. QED
    BY <1>8, <1>13, <1>14, <1>15, <1>16, LaidTiles DEF C

-----------------------------------------------------------------------------
(* Quotes.                                                                 *)

\* Where the quote that opens at i may end.
EndsOf(t, i) == {j \in (i + 1)..(Len(t) - 1) : At(t, j) = Pairs[At(t, i)]}

\* The search from offset i, which goes on with f.
Search(t, f, i) ==
    IF i = Len(t) THEN [pairs |-> <<>>, open |-> FALSE]
    ELSE IF At(t, i) \notin DOMAIN Pairs THEN f[i + 1]
    ELSE IF EndsOf(t, i) = {} THEN [pairs |-> <<>>, open |-> TRUE]
    ELSE [f[Min(EndsOf(t, i)) + 1] EXCEPT !.pairs = <<<<i + 1, Min(EndsOf(t, i))>>>> \o @]

\* f is that search from the offsets of m on.
Searches(f, t, m) == f = [i \in m..Len(t) |-> Search(t, f, i)]

\* The quote ends at the first of them.
LEMMA EndIs ==
    ASSUME NEW t \in Seq(Symbols), NEW i \in 0..Len(t), EndsOf(t, i) # {}
    PROVE  /\ Min(EndsOf(t, i)) \in (i + 1)..(Len(t) - 1)
           /\ At(t, Min(EndsOf(t, i))) = Pairs[At(t, i)]
  <1>. DEFINE T == EndsOf(t, i)
  <1>1. Len(t) \in Nat
    OBVIOUS
  <1>2. T \in SUBSET Int /\ T # {} /\ \A k \in T : i <= k
    BY <1>1 DEF EndsOf
  <1>3. i \in Int
    BY <1>1
  <1>. HIDE DEF T
  <1>4. Min(T) \in T
    BY <1>2, <1>3, LeastOf
  <1>. QED
    BY <1>4 DEF EndsOf, T

\* There is such a search from any offset.
LEMMA SomeSearch ==
    ASSUME NEW t \in Seq(Symbols)
    PROVE  \E f : Searches(f, t, 0)
  <1>. DEFINE n == Len(t)
              Good == {m \in 0..n : \E f : Searches(f, t, n - m)}
  <1>1. n \in Nat
    OBVIOUS
  <1>2. 0 \in Good
    <2>. DEFINE f == [i \in n..n |-> [pairs |-> <<>>, open |-> FALSE]]
    <2>1. f = [i \in n..n |-> Search(t, f, i)]
      <3>1. \A i \in n..n : i = n
        BY <1>1
      <3>2. \A i \in n..n : Search(t, f, i) = [pairs |-> <<>>, open |-> FALSE]
        BY <3>1 DEF Search
      <3>. QED
        BY <3>2
    <2>. HIDE DEF f
    <2>2. Searches(f, t, n - 0)
      BY <1>1, <2>1 DEF Searches
    <2>. QED
      BY <1>1, <2>2
  <1>3. ASSUME NEW m \in 1..n, m - 1 \in Good PROVE m \in Good
    <2>. DEFINE l == n - m
    <2>1. l \in Nat /\ l < n /\ n - (m - 1) = l + 1
      BY <1>1
    <2>2. PICK f : Searches(f, t, l + 1)
      BY <1>3, <2>1
    <2>. DEFINE h == [i \in l..n |-> IF i = l THEN Search(t, f, l) ELSE f[i]]
    <2>3. \A i \in (l + 1)..n : h[i] = f[i]
      BY <1>1, <2>1
    <2>4. h[l] = Search(t, f, l)
      BY <1>1, <2>1
    <2>. HIDE DEF l
    <2>5. ASSUME NEW i \in l..n PROVE Search(t, h, i) = Search(t, f, i)
      <3>. HIDE DEF h
      <3>1. CASE i = n
        BY <3>1 DEF Search
      <3>2. CASE i # n
        <4>1. i + 1 \in (l + 1)..n /\ i \in 0..n
          BY <3>2, <1>1, <2>1
        <4>2. EndsOf(t, i) # {} => Min(EndsOf(t, i)) + 1 \in (l + 1)..n
          <5>1. ASSUME EndsOf(t, i) # {} PROVE Min(EndsOf(t, i)) \in (i + 1)..(n - 1)
            BY <4>1, <5>1, EndIs
          <5>. QED
            BY <5>1, <4>1, <1>1, <2>1
        <4>3. h[i + 1] = f[i + 1] /\ (EndsOf(t, i) # {} => h[Min(EndsOf(t, i)) + 1] = f[Min(EndsOf(t, i)) + 1])
          BY <4>1, <4>2, <2>3
        <4>. QED
          BY <4>3 DEF Search
      <3>. QED
        BY <3>1, <3>2
    <2>6. ASSUME NEW i \in l..n PROVE h[i] = Search(t, h, i)
      <3>1. CASE i = l
        BY <3>1, <2>4, <2>5
      <3>2. CASE i # l
        <4>1. i \in (l + 1)..n
          BY <3>2, <1>1, <2>1
        <4>2. f[i] = Search(t, f, i)
          BY <2>2, <4>1 DEF Searches
        <4>. QED
          BY <2>3, <2>5, <4>1, <4>2
      <3>. QED
        BY <3>1, <3>2
    <2>7. h = [i \in l..n |-> h[i]]
      OBVIOUS
    <2>. HIDE DEF h
    <2>8. Searches(h, t, l)
      BY <2>6, <2>7 DEF Searches
    <2>. QED
      BY <2>8 DEF l
  <1>. HIDE DEF Good
  <1>4. \A m \in 0..n : m \in Good
    BY <1>1, <1>2, <1>3, Inductive
  <1>5. n \in Good /\ n - n = 0
    BY <1>1, <1>4
  <1>. QED
    BY <1>5 DEF Good

\* FindQuotes() is its result from the start.
LEMMA SearchOf ==
    ASSUME NEW t \in Seq(Symbols)
    PROVE  \E f : Searches(f, t, 0) /\ FindQuotes(t) = f[0]
  <1>. DEFINE G == CHOOSE f : f = [i \in 0..Len(t) |-> Search(t, f, i)]
  <1>1. G = [i \in 0..Len(t) |-> Search(t, G, i)]
    <2>1. \E f : f = [i \in 0..Len(t) |-> Search(t, f, i)]
      <3>1. PICK f : Searches(f, t, 0)
        BY SomeSearch
      <3>. QED
        BY <3>1 DEF Searches
    <2>. QED
      BY <2>1
  <1>2. FindQuotes(t) = G[0]
    BY DEF FindQuotes, Search, EndsOf
  <1>. HIDE DEF G
  <1>3. Searches(G, t, 0)
    BY <1>1 DEF Searches
  <1>. QED
    BY <1>2, <1>3

\* The quoted pieces that are found from offset i on: apart from each other and in order, each
\* with a quotation mark on both sides.
Quoted(t, i, p) == /\ p[1] \in (i + 1)..(Len(t) - 1) /\ p[2] \in p[1]..(Len(t) - 1)
                   /\ At(t, p[1] - 1) \in Signs /\ At(t, p[2]) \in Signs

\* A sequence of such pieces.
Quoting(t, i, P) == /\ P \in Seq(Int \X Int)
                    /\ \A k \in 1..Len(P) : Quoted(t, i, P[k])
                    /\ \A j, k \in 1..Len(P) : j < k => P[j][2] + 1 < P[k][1]

\* A result of the search.
Found(t, i, r) == r \in [pairs : Seq(Int \X Int), open : BOOLEAN] /\ Quoting(t, i, r.pairs)

\* One more pair before those behind it.
LEMMA OneMore ==
    ASSUME NEW t \in Seq(Symbols), NEW i \in 0..Len(t), NEW c \in (i + 1)..(Len(t) - 1),
           At(t, i) \in Signs, At(t, c) \in Signs, NEW P, Quoting(t, c + 1, P)
    PROVE  Quoting(t, i, <<<<i + 1, c>>>> \o P)
  <1>. DEFINE q == <<i + 1, c>>
              Q == <<q>> \o P
              n == Len(P)
  <1>1. Len(t) \in Nat /\ i \in Int /\ c \in Int
    OBVIOUS
  <1>2. n \in Nat /\ P \in Seq(Int \X Int) /\ q \in Int \X Int
    BY <1>1 DEF Quoting
  <1>3. q[1] = i + 1 /\ q[2] = c
    OBVIOUS
  <1>. HIDE DEF q
  <1>4. Q \in Seq(Int \X Int) /\ Len(Q) = n + 1 /\ Q[1] = q /\ \A k \in 2..(n + 1) : Q[k] = P[k - 1]
    BY <1>2
  <1>. HIDE DEF Q, n
  <1>5. \A k \in 1..n : P[k][1] \in (c + 2)..(Len(t) - 1) /\ P[k][2] \in P[k][1]..(Len(t) - 1)
                        /\ At(t, P[k][1] - 1) \in Signs /\ At(t, P[k][2]) \in Signs
    BY <1>1 DEF Quoting, Quoted, n
  <1>6. ASSUME NEW k \in 1..(n + 1) PROVE Quoted(t, i, Q[k])
    <2>1. CASE k = 1
      <3>1. Q[k] = q /\ q[1] - 1 = i
        BY <2>1, <1>1, <1>3, <1>4
      <3>. QED
        BY <3>1, <1>1, <1>3 DEF Quoted
    <2>2. CASE k # 1
      <3>1. k \in 2..(n + 1) /\ k - 1 \in 1..n
        BY <2>2, <1>2
      <3>2. Q[k] = P[k - 1]
        BY <3>1, <1>4
      <3>. DEFINE p == P[k - 1]
      <3>3. p[1] \in (c + 2)..(Len(t) - 1) /\ p[2] \in p[1]..(Len(t) - 1)
            /\ At(t, p[1] - 1) \in Signs /\ At(t, p[2]) \in Signs
        BY <3>1, <1>5
      <3>. HIDE DEF p
      <3>4. p[1] \in (i + 1)..(Len(t) - 1)
        BY <3>3, <1>1
      <3>. QED
        BY <3>2, <3>3, <3>4 DEF Quoted, p
    <2>. QED
      BY <2>1, <2>2
  <1>7. ASSUME NEW j \in 1..(n + 1), NEW k \in 1..(n + 1), j < k PROVE Q[j][2] + 1 < Q[k][1]
    <2>1. k \in 2..(n + 1) /\ k - 1 \in 1..n
      BY <1>7, <1>2
    <2>2. Q[k] = P[k - 1]
      BY <2>1, <1>4
    <2>3. CASE j = 1
      <3>1. Q[j][2] = c
        BY <2>3, <1>3, <1>4
      <3>2. P[k - 1][1] \in (c + 2)..(Len(t) - 1)
        BY <2>1, <1>5
      <3>. QED
        BY <3>1, <3>2, <2>2, <1>1
    <2>4. CASE j # 1
      <3>1. j \in 2..(n + 1) /\ j - 1 \in 1..n /\ j - 1 < k - 1
        BY <2>1, <2>4, <1>7, <1>2
      <3>2. Q[j] = P[j - 1]
        BY <3>1, <1>4
      <3>3. P[j - 1][2] + 1 < P[k - 1][1]
        BY <3>1, <2>1 DEF Quoting, n
      <3>. QED
        BY <3>2, <3>3, <2>2
    <2>. QED
      BY <2>3, <2>4
  <1>8. Quoting(t, i, Q)
    BY <1>4, <1>6, <1>7 DEF Quoting
  <1>. QED
    BY <1>8 DEF Q, q

\* What is found from a later offset on is found from an earlier one.
LEMMA Weaker ==
    ASSUME NEW t \in Seq(Symbols), NEW i \in 0..Len(t), NEW j \in 0..Len(t), i <= j, NEW r, Found(t, j, r)
    PROVE  Found(t, i, r)
  <1>1. Len(t) \in Nat
    OBVIOUS
  <1>2. ASSUME NEW p, Quoted(t, j, p) PROVE Quoted(t, i, p)
    BY <1>1, <1>2 DEF Quoted
  <1>. QED
    BY <1>2 DEF Found, Quoting

\* One step of the search, given what it finds further on.
LEMMA SearchStep ==
    ASSUME NEW t \in Seq(Symbols), NEW i \in 0..Len(t), NEW f,
           \A j \in (i + 1)..Len(t) : Found(t, j, f[j])
    PROVE  Found(t, i, Search(t, f, i))
  <1>1. Len(t) \in Nat
    OBVIOUS
  <1>2. Quoting(t, i, <<>>)
    BY DEF Quoting
  <1>3. CASE i = Len(t)
    BY <1>2, <1>3 DEF Search, Found
  <1>4. CASE i # Len(t) /\ At(t, i) \notin DOMAIN Pairs
    <2>1. i + 1 \in (i + 1)..Len(t) /\ i + 1 \in 0..Len(t) /\ i <= i + 1
      BY <1>1, <1>4
    <2>2. Search(t, f, i) = f[i + 1]
      BY <1>4 DEF Search
    <2>. QED
      BY <2>1, <2>2, Weaker
  <1>5. CASE i # Len(t) /\ At(t, i) \in DOMAIN Pairs /\ EndsOf(t, i) = {}
    BY <1>2, <1>5 DEF Search, Found
  <1>6. CASE i # Len(t) /\ At(t, i) \in DOMAIN Pairs /\ EndsOf(t, i) # {}
    <2>. DEFINE c == Min(EndsOf(t, i))
    <2>1. c \in (i + 1)..(Len(t) - 1) /\ At(t, c) = Pairs[At(t, i)]
      BY <1>6, EndIs
    <2>2. Search(t, f, i) = [f[c + 1] EXCEPT !.pairs = <<<<i + 1, c>>>> \o @]
      BY <1>6 DEF Search
    <2>. HIDE DEF c
    <2>3. At(t, i) \in Signs /\ At(t, c) \in Signs
      <3>1. At(t, i) \in Signs
        BY <1>6, Classes
      <3>2. \A q \in DOMAIN Pairs : Pairs[q] \in Signs
        BY DEF Pairs, Signs
      <3>. QED
        BY <3>1, <3>2, <2>1, <1>6
    <2>4. Found(t, c + 1, f[c + 1])
      BY <2>1, <1>1
    <2>. DEFINE r == f[c + 1]
                P == <<<<i + 1, c>>>> \o r.pairs
    <2>5. Quoting(t, i, P)
      BY <2>1, <2>3, <2>4, OneMore DEF Found
    <2>. HIDE DEF P
    <2>6. Search(t, f, i) = [r EXCEPT !.pairs = P]
      BY <2>2 DEF P
    <2>7. r \in [pairs : Seq(Int \X Int), open : BOOLEAN] /\ P \in Seq(Int \X Int)
      BY <2>4, <2>5 DEF Found, Quoting
    <2>. HIDE DEF r
    <2>8. [r EXCEPT !.pairs = P] \in [pairs : Seq(Int \X Int), open : BOOLEAN] /\ [r EXCEPT !.pairs = P].pairs = P
      BY <2>7
    <2>. QED
      BY <2>5, <2>6, <2>8 DEF Found
  <1>. QED
    BY <1>3, <1>4, <1>5, <1>6

\* FindQuotes() finds quotes that are apart.
LEMMA QuotesFound ==
    ASSUME NEW t \in Seq(Symbols)
    PROVE  Found(t, 0, FindQuotes(t))
  <1>. DEFINE n == Len(t)
  <1>1. n \in Nat
    OBVIOUS
  <1>2. PICK f : Searches(f, t, 0) /\ FindQuotes(t) = f[0]
    BY SearchOf
  <1>3. \A i \in 0..n : f[i] = Search(t, f, i)
    BY <1>2 DEF Searches
  <1>. DEFINE Good == {m \in 0..n : \A i \in (n - m)..n : Found(t, i, f[i])}
  <1>4. ASSUME NEW i \in 0..n, \A j \in (i + 1)..n : Found(t, j, f[j]) PROVE Found(t, i, f[i])
    BY <1>3, <1>4, SearchStep
  <1>5. 0 \in Good
    <2>1. ASSUME NEW i \in (n - 0)..n PROVE Found(t, i, f[i])
      <3>1. i = n /\ i \in 0..n /\ (i + 1)..n = {}
        BY <1>1
      <3>. QED
        BY <3>1, <1>4
    <2>. QED
      BY <2>1, <1>1
  <1>6. ASSUME NEW m \in 1..n, m - 1 \in Good PROVE m \in Good
    <2>1. ASSUME NEW i \in (n - m)..n PROVE Found(t, i, f[i])
      <3>1. i \in 0..n /\ (i # n - m => i \in (n - (m - 1))..n)
        BY <1>1
      <3>2. CASE i # n - m
        BY <3>1, <3>2, <1>6
      <3>3. CASE i = n - m
        <4>1. \A j \in (i + 1)..n : j \in (n - (m - 1))..n
          BY <3>3, <1>1
        <4>2. \A j \in (i + 1)..n : Found(t, j, f[j])
          BY <4>1, <1>6
        <4>. QED
          BY <4>2, <3>1, <1>4
      <3>. QED
        BY <3>2, <3>3
    <2>. QED
      BY <2>1, <1>1
  <1>. HIDE DEF Good
  <1>. HIDE DEF n
  <1>7. n \in Good
    <2>1. \A m \in 0..n : m \in Good
      BY <1>1, <1>5, <1>6, Inductive
    <2>. QED
      BY <2>1, <1>1
  <1>8. 0 \in (n - n)..n
    BY <1>1
  <1>9. Found(t, 0, f[0])
    BY <1>7, <1>8 DEF Good
  <1>. QED
    BY <1>2, <1>9

\* The tiling at quotation marks (dialogue.py, _quote_tiling).
LEMMA QuoteTilingTiles ==
    ASSUME NEW t \in Seq(Symbols), NEW P, Quoting(t, 0, P), NEW D, D = <<>> \/ D[1].kind # "initial"
    PROVE  Tiled(t, QuoteTiling(t, P), D) /\ InRow(QuoteTiling(t, P), 0)
  <1>. DEFINE n == Len(P)
              I == (0..n) \X {Narration, Spoken}
              from(k) == IF k = 0 THEN 0 ELSE P[k][2] + 1
              upto(k) == IF k = n THEN Len(t) ELSE P[k + 1][1] - 1
              F == [x \in I |-> IF x[2] = Narration THEN from(x[1]) ELSE IF x[1] = 0 THEN 0 ELSE P[x[1]][1]]
              U == [x \in I |-> IF x[2] = Narration THEN upto(x[1]) ELSE IF x[1] = 0 THEN 0 ELSE P[x[1]][2]]
              K == [x \in I |-> x[2]]
              around == {Seg(Narration, Trimmed(t, from(k), Max({from(k), upto(k)}))) : k \in 0..n}
              inside == {Seg(Spoken, Trimmed(t, P[k][1], P[k][2])) : k \in 1..n}
              said(s) == \E i \in s.start..(s.end - 1) : At(t, i) \notin Marks \cup Space
              S == {s \in around \cup inside : said(s)}
              piece(x) == PieceOf(t, F, U, K, x)
  <1>1. Len(t) \in Nat /\ n \in Nat
    BY DEF Quoting
  <1>2. ASSUME NEW k \in 1..n
        PROVE  /\ P[k][1] \in 1..(Len(t) - 1) /\ P[k][2] \in P[k][1]..(Len(t) - 1)
               /\ At(t, P[k][1] - 1) \notin Alnum /\ At(t, P[k][2]) \notin Alnum
    <2>1. /\ P[k][1] \in (0 + 1)..(Len(t) - 1) /\ P[k][2] \in P[k][1]..(Len(t) - 1)
          /\ At(t, P[k][1] - 1) \in Signs /\ At(t, P[k][2]) \in Signs
      BY DEF Quoting, Quoted
    <2>. QED
      BY <2>1, Classes
  <1>3. \A j, k \in 1..n : j < k => P[j][2] + 1 < P[k][1]
    BY DEF Quoting
  <1>4. QuoteTiling(t, P) = Laid(S)
    BY DEF QuoteTiling
  <1>5. Narration # Spoken
    BY DEF Narration, Spoken
  <1>6. ASSUME NEW k \in 1..n
        PROVE  P[k][1] \in Int /\ P[k][2] \in Int /\ 1 <= P[k][1] /\ P[k][1] <= P[k][2] /\ P[k][2] < Len(t)
    <2>1. P[k][1] \in 1..(Len(t) - 1) /\ P[k][2] \in P[k][1]..(Len(t) - 1)
      BY <1>2
    <2>. QED
      BY <2>1, <1>1
  <1>7. ASSUME NEW k \in 0..n
        PROVE  /\ from(k) \in Int /\ upto(k) \in Int /\ 0 <= from(k) /\ from(k) <= upto(k) /\ upto(k) <= Len(t)
    <2>1. k # 0 => k \in 1..n
      BY <1>1
    <2>2. from(k) \in Int /\ 0 <= from(k) /\ from(k) <= Len(t)
      BY <2>1, <1>1, <1>6
    <2>3. k # n => k + 1 \in 1..n
      BY <1>1
    <2>4. upto(k) \in Int /\ 0 <= upto(k) /\ upto(k) <= Len(t)
      BY <2>3, <1>1, <1>6
    <2>5. k # 0 /\ k # n => P[k][2] + 1 < P[k + 1][1]
      BY <2>1, <2>3, <1>1, <1>3
    <2>6. from(k) <= upto(k)
      <3>1. CASE k = 0 \/ k = n
        <4>1. k = 0 => from(k) = 0
          OBVIOUS
        <4>2. k = n => upto(k) = Len(t)
          OBVIOUS
        <4>. HIDE DEF from, upto
        <4>. QED
          BY <3>1, <4>1, <4>2, <2>2, <2>4
      <3>2. CASE k # 0 /\ k # n
        <4>1. P[k][2] \in Int /\ P[k + 1][1] \in Int
          BY <2>1, <2>3, <3>2, <1>6
        <4>. QED
          BY <2>5, <3>2, <4>1
      <3>. QED
        BY <3>1, <3>2
    <2>. QED
      BY <2>2, <2>4, <2>6
  <1>8. ASSUME NEW k \in 0..n
        PROVE  <<k, Narration>> \in I /\ F[<<k, Narration>>] = from(k) /\ U[<<k, Narration>>] = upto(k)
               /\ K[<<k, Narration>>] = Narration
    OBVIOUS
  <1>9. ASSUME NEW k \in 1..n
        PROVE  <<k, Spoken>> \in I /\ F[<<k, Spoken>>] = P[k][1] /\ U[<<k, Spoken>>] = P[k][2] /\ K[<<k, Spoken>>] = Spoken
    BY <1>1, <1>5
  <1>10. 0 \in 0..n /\ F[<<0, Spoken>>] = 0 /\ U[<<0, Spoken>>] = 0 /\ K[<<0, Spoken>>] = Spoken
    BY <1>1, <1>5
  <1>11. ASSUME NEW x \in I
         PROVE  \/ \E k \in 0..n : x = <<k, Narration>>
                \/ \E k \in 1..n : x = <<k, Spoken>>
                \/ x = <<0, Spoken>>
    BY <1>1
  <1>12. F = [x \in I |-> F[x]] /\ U = [x \in I |-> U[x]] /\ K = [x \in I |-> K[x]]
    OBVIOUS
  <1>. HIDE DEF F, U, K
  <1>13. ASSUME NEW x \in I
         PROVE  F[x] \in 0..Len(t) /\ U[x] \in 0..Len(t) /\ K[x] \in {Narration, Spoken} /\ F[x] <= U[x]
    <2>1. CASE \E k \in 0..n : x = <<k, Narration>>
      <3>1. PICK k \in 0..n : x = <<k, Narration>>
        BY <2>1
      <3>2. /\ from(k) \in Int /\ upto(k) \in Int /\ 0 <= from(k) /\ from(k) <= upto(k) /\ upto(k) <= Len(t)
            /\ F[x] = from(k) /\ U[x] = upto(k) /\ K[x] = Narration
        BY <3>1, <1>7, <1>8
      <3>. HIDE DEF from, upto, I
      <3>. QED
        BY <3>2, <1>1
    <2>2. CASE \E k \in 1..n : x = <<k, Spoken>>
      <3>1. PICK k \in 1..n : x = <<k, Spoken>>
        BY <2>2
      <3>2. /\ P[k][1] \in Int /\ P[k][2] \in Int /\ 1 <= P[k][1] /\ P[k][1] <= P[k][2] /\ P[k][2] < Len(t)
            /\ F[x] = P[k][1] /\ U[x] = P[k][2] /\ K[x] = Spoken
        BY <3>1, <1>6, <1>9
      <3>. HIDE DEF I
      <3>. QED
        BY <3>2, <1>1
    <2>3. CASE x = <<0, Spoken>>
      BY <2>3, <1>1, <1>10
    <2>. QED
      BY <2>1, <2>2, <2>3, <1>11
  <1>14. ASSUME NEW j \in 0..n, NEW k \in 0..n, j < k PROVE upto(j) <= from(k)
    <2>1. j + 1 \in 1..n /\ k \in 1..n /\ j # n /\ k # 0 /\ (j + 1 = k \/ j + 1 < k)
      BY <1>1, <1>14
    <2>2. upto(j) = P[j + 1][1] - 1 /\ from(k) = P[k][2] + 1
      BY <2>1
    <2>3. P[j + 1][1] <= P[k][1]
      <3>1. CASE j + 1 = k
        BY <3>1, <2>1, <1>6
      <3>2. CASE j + 1 < k
        <4>1. P[j + 1][2] + 1 < P[k][1] /\ P[j + 1][1] <= P[j + 1][2]
          BY <3>2, <2>1, <1>3, <1>6
        <4>2. P[j + 1][1] \in Int /\ P[j + 1][2] \in Int /\ P[k][1] \in Int
          BY <2>1, <1>6
        <4>. QED
          BY <4>1, <4>2
      <3>. QED
        BY <2>1, <3>1, <3>2
    <2>4. P[j + 1][1] \in Int /\ P[k][1] \in Int /\ P[k][2] \in Int /\ P[k][1] <= P[k][2]
      BY <2>1, <1>6
    <2>. HIDE DEF from, upto
    <2>. QED
      BY <2>2, <2>3, <2>4
  <1>15. ASSUME NEW j \in 0..n, NEW k \in 1..n PROVE upto(j) <= P[k][1] \/ P[k][2] <= from(j)
    <2>1. j < k \/ k <= j
      BY <1>1
    <2>2. CASE j < k
      <3>1. upto(j) <= from(k)
        BY <2>2, <1>1, <1>14
      <3>2. j + 1 \in 1..n /\ j # n /\ (j + 1 = k \/ j + 1 < k)
        BY <2>2, <1>1
      <3>3. upto(j) = P[j + 1][1] - 1
        BY <3>2
      <3>4. P[j + 1][1] \in Int /\ P[k][1] \in Int /\ P[j + 1][2] \in Int /\ P[j + 1][1] <= P[j + 1][2]
        BY <3>2, <1>6
      <3>5. j + 1 < k => P[j + 1][2] + 1 < P[k][1]
        BY <3>2, <1>3
      <3>. HIDE DEF from, upto
      <3>. QED
        BY <3>2, <3>3, <3>4, <3>5
    <2>3. CASE k <= j
      <3>1. j \in 1..n /\ j # 0 /\ (k = j \/ k < j)
        BY <2>3, <1>1
      <3>2. from(j) = P[j][2] + 1
        BY <3>1
      <3>3. P[j][1] \in Int /\ P[j][2] \in Int /\ P[k][2] \in Int /\ P[j][1] <= P[j][2]
        BY <3>1, <1>6
      <3>4. k < j => P[k][2] + 1 < P[j][1]
        BY <3>1, <1>3
      <3>. HIDE DEF from, upto
      <3>. QED
        BY <3>1, <3>2, <3>3, <3>4
    <2>. QED
      BY <2>1, <2>2, <2>3
  <1>16. ASSUME NEW x \in I, NEW y \in I, x # y PROVE U[x] <= F[y] \/ U[y] <= F[x]
    <2>1. ASSUME NEW j \in 0..n, NEW k \in 0..n, j # k
          PROVE  upto(j) <= from(k) \/ upto(k) <= from(j)
      <3>1. j < k \/ k < j
        BY <2>1, <1>1
      <3>. HIDE DEF from, upto
      <3>. QED
        BY <3>1, <1>14
    <2>2. ASSUME NEW j \in 1..n, NEW k \in 1..n, j # k
          PROVE  P[j][2] <= P[k][1] \/ P[k][2] <= P[j][1]
      <3>1. j < k \/ k < j
        BY <2>2, <1>1
      <3>2. P[j][1] \in Int /\ P[j][2] \in Int /\ P[k][1] \in Int /\ P[k][2] \in Int
        BY <1>6
      <3>3. P[j][2] + 1 < P[k][1] \/ P[k][2] + 1 < P[j][1]
        BY <3>1, <1>3
      <3>. QED
        BY <3>2, <3>3
    <2>3. ASSUME NEW z \in I PROVE 0 <= F[z]
      BY <1>13
    <2>4. x = <<0, Spoken>> \/ y = <<0, Spoken>> => U[x] <= F[y] \/ U[y] <= F[x]
      BY <2>3, <1>10
    <2>5. ASSUME NEW j \in 0..n, NEW k \in 0..n, x = <<j, Narration>>, y = <<k, Narration>>
          PROVE  U[x] <= F[y] \/ U[y] <= F[x]
      <3>1. j # k
        BY <2>5, <1>16
      <3>2. F[x] = from(j) /\ U[x] = upto(j) /\ F[y] = from(k) /\ U[y] = upto(k)
        BY <2>5, <1>8
      <3>. HIDE DEF from, upto, I
      <3>. QED
        BY <3>1, <3>2, <2>1
    <2>6. ASSUME NEW j \in 1..n, NEW k \in 1..n, x = <<j, Spoken>>, y = <<k, Spoken>>
          PROVE  U[x] <= F[y] \/ U[y] <= F[x]
      <3>1. j # k
        BY <2>6, <1>16
      <3>2. F[x] = P[j][1] /\ U[x] = P[j][2] /\ F[y] = P[k][1] /\ U[y] = P[k][2]
        BY <2>6, <1>9
      <3>. HIDE DEF I
      <3>. QED
        BY <3>1, <3>2, <2>2
    <2>7. ASSUME NEW j \in 0..n, NEW k \in 1..n, NEW u, NEW v, u = <<j, Narration>>, v = <<k, Spoken>>
          PROVE  U[u] <= F[v] \/ U[v] <= F[u]
      <3>1. F[u] = from(j) /\ U[u] = upto(j) /\ F[v] = P[k][1] /\ U[v] = P[k][2]
        BY <2>7, <1>8, <1>9
      <3>. HIDE DEF from, upto, I
      <3>. QED
        BY <3>1, <1>15
    <2>. HIDE DEF I
    <2>. QED
      BY <2>4, <2>5, <2>6, <2>7, <1>11
  <1>17. Cutting(t, I, F, U, K)
    <2>1. IsFiniteSet(I)
      <3>1. 0 \in Int /\ n \in Int
        BY <1>1
      <3>2. IsFiniteSet(0..n) /\ IsFiniteSet({Narration, Spoken})
        <4>. HIDE DEF n
        <4>1. IsFiniteSet({Narration}) /\ {Narration, Spoken} = {Narration} \cup {Spoken}
          BY FS_Singleton
        <4>2. IsFiniteSet({Narration, Spoken})
          BY <4>1, FS_AddElement
        <4>. QED
          BY <3>1, <4>2, FS_Interval
      <3>. QED
        BY <3>2, FS_Product
    <2>2. F \in [I -> 0..Len(t)] /\ U \in [I -> 0..Len(t)] /\ K \in [I -> {Narration, Spoken}]
      <3>. HIDE DEF I
      <3>. QED
        BY <1>12, <1>13
    <2>3. \A x \in I : F[x] <= U[x]
      BY <1>13
    <2>4. \A x, y \in I : x # y => U[x] <= F[y] \/ U[y] <= F[x]
      BY <1>16
    <2>. HIDE DEF I
    <2>. QED
      BY <2>1, <2>2, <2>3, <2>4 DEF Cutting
  <1>18. ASSUME NEW k \in 0..n
         PROVE  Seg(Narration, Trimmed(t, from(k), Max({from(k), upto(k)}))) = piece(<<k, Narration>>)
    <2>1. from(k) \in Int /\ upto(k) \in Int /\ from(k) <= upto(k)
      BY <1>7
    <2>2. F[<<k, Narration>>] = from(k) /\ U[<<k, Narration>>] = upto(k) /\ K[<<k, Narration>>] = Narration
      BY <1>8
    <2>. HIDE DEF from, upto
    <2>3. Max({from(k), upto(k)}) = upto(k)
      BY <2>1, LaterOf
    <2>. QED
      BY <2>2, <2>3 DEF PieceOf
  <1>19. ASSUME NEW k \in 1..n
         PROVE  Seg(Spoken, Trimmed(t, P[k][1], P[k][2])) = piece(<<k, Spoken>>)
    BY <1>9 DEF PieceOf
  <1>20. ASSUME NEW x \in I PROVE Holds(t, piece(x), F[x], U[x]) /\ piece(x) \in Piece
    <2>. HIDE DEF I
    <2>. QED
      BY <1>17, PieceIs
  <1>21. /\ \A k \in 0..n : piece(<<k, Narration>>) \in around
         /\ \A k \in 1..n : piece(<<k, Spoken>>) \in inside
         /\ \A s \in around : \E k \in 0..n : s = piece(<<k, Narration>>)
         /\ \A s \in inside : \E k \in 1..n : s = piece(<<k, Spoken>>)
    <2>. HIDE DEF from, upto, piece, I
    <2>. QED
      BY <1>18, <1>19
  <1>. HIDE DEF around, inside
  <1>22. S \subseteq {PieceOf(t, F, U, K, x) : x \in I}
    <2>1. \A s \in around \cup inside : \E x \in I : s = piece(x)
      BY <1>21, <1>8, <1>9
    <2>. HIDE DEF I
    <2>. QED
      BY <2>1
  <1>23. ASSUME NEW s \in S PROVE s.start < s.end
    <2>1. PICK x \in I : s = piece(x)
      BY <1>22
    <2>2. s \in Piece
      BY <2>1, <1>20
    <2>3. s.start \in Int /\ s.end \in Int
      BY <2>2 DEF Piece
    <2>4. PICK i \in s.start..(s.end - 1) : TRUE
      OBVIOUS
    <2>. QED
      BY <2>3, <2>4
  <1>24. ApartPieces(S) /\ FromZero(S)
    <2>. HIDE DEF S, I
    <2>. QED
      BY <1>17, <1>22, <1>23, CutPieces
  <1>25. ASSUME NEW x \in I, piece(x) \in around \cup inside, NEW i \in F[x]..(U[x] - 1), At(t, i) \in Alnum
         PROVE  piece(x) \in S /\ piece(x).start <= i /\ i < piece(x).end
    <2>1. Holds(t, piece(x), F[x], U[x]) /\ piece(x) \in Piece
      BY <1>20
    <2>2. piece(x).start <= i /\ i < piece(x).end
      BY <2>1, <1>25 DEF Holds
    <2>3. piece(x).start \in Int /\ piece(x).end \in Int /\ i \in Int
      <3>1. F[x] \in 0..Len(t) /\ U[x] \in 0..Len(t)
        BY <1>13
      <3>. QED
        BY <2>1, <3>1 DEF Piece
    <2>4. At(t, i) \notin Marks \cup Space
      BY <1>25, Classes
    <2>. DEFINE p == piece(x)
    <2>. HIDE DEF p
    <2>5. i \in p.start..(p.end - 1)
      BY <2>2, <2>3 DEF p
    <2>6. said(p)
      BY <2>4, <2>5
    <2>. QED
      BY <2>2, <2>6, <1>25 DEF p
  <1>26. Covers(t, S)
    <2>1. ASSUME NEW i \in 0..(Len(t) - 1), At(t, i) \in Alnum
          PROVE  \E s \in S : s.start <= i /\ i < s.end
      <3>. DEFINE T == {k \in 0..n : from(k) <= i}
                  k == Max(T)
      <3>1. k \in T /\ \A j \in T : j <= k
        <4>1. 0 \in T
          BY <1>1
        <4>2. T \in SUBSET Int /\ \A j \in T : j <= n
          BY <1>1
        <4>3. n \in Int
          BY <1>1
        <4>. HIDE DEF T, n
        <4>. QED
          BY <4>1, <4>2, <4>3, GreatestOf
      <3>. HIDE DEF k
      <3>2. k \in 0..n /\ from(k) <= i
        BY <3>1
      <3>3. k # n => k + 1 \in 1..n /\ ~(from(k + 1) <= i)
        <4>1. ASSUME k # n PROVE k + 1 \in 0..n /\ k + 1 \in 1..n /\ ~(k + 1 <= k)
          BY <3>2, <4>1, <1>1
        <4>. HIDE DEF from
        <4>. QED
          BY <4>1, <3>1
      <3>. HIDE DEF T
      <3>4. from(k) \in Int /\ upto(k) \in Int
        BY <3>2, <1>7
      <3>5. CASE i < upto(k)
        <4>1. F[<<k, Narration>>] = from(k) /\ U[<<k, Narration>>] = upto(k) /\ <<k, Narration>> \in I
          BY <3>2, <1>8
        <4>2. i \in from(k)..(upto(k) - 1)
          <5>. HIDE DEF from, upto
          <5>. QED
            BY <3>2, <3>4, <3>5, <1>1
        <4>. DEFINE x == <<k, Narration>>
        <4>3. piece(x) \in around \cup inside
          BY <3>2, <1>21
        <4>4. x \in I /\ i \in F[x]..(U[x] - 1)
          BY <4>1, <4>2
        <4>. HIDE DEF x, piece, S, I
        <4>. QED
          BY <4>3, <4>4, <2>1, <1>25
      <3>6. CASE ~(i < upto(k))
        <4>1. k # n
          BY <3>6, <1>1
        <4>. DEFINE m == k + 1
        <4>2. m \in 1..n /\ ~(from(m) <= i) /\ m # 0
          BY <4>1, <3>3
        <4>3. upto(k) = P[m][1] - 1 /\ from(m) = P[m][2] + 1
          BY <4>1, <4>2
        <4>. HIDE DEF m
        <4>4. /\ P[m][1] \in Int /\ P[m][2] \in Int
              /\ At(t, P[m][1] - 1) \notin Alnum /\ At(t, P[m][2]) \notin Alnum
          BY <4>2, <1>2, <1>6
        <4>5. i # P[m][1] - 1 /\ i # P[m][2]
          BY <4>4, <2>1
        <4>6. i \in P[m][1]..(P[m][2] - 1)
          <5>1. ~(i < P[m][1] - 1) /\ ~(P[m][2] + 1 <= i)
            BY <3>6, <4>2, <4>3
          <5>2. i \in Int
            BY <1>1
          <5>. QED
            BY <5>1, <5>2, <4>4, <4>5
        <4>. DEFINE x == <<m, Spoken>>
        <4>7. F[x] = P[m][1] /\ U[x] = P[m][2] /\ x \in I /\ piece(x) \in around \cup inside
          BY <4>2, <1>9, <1>21
        <4>8. i \in F[x]..(U[x] - 1)
          BY <4>6, <4>7
        <4>. HIDE DEF x, piece, S, I
        <4>. QED
          BY <4>7, <4>8, <2>1, <1>25
      <3>. QED
        BY <3>5, <3>6
    <2>. HIDE DEF S
    <2>. QED
      BY <2>1 DEF Covers
  <1>27. Parted(S, D)
    BY DEF Parted
  <1>. HIDE DEF S
  <1>28. InRow(Laid(S), 0)
    BY <1>24, LaidInRow
  <1>. QED
    BY <1>4, <1>24, <1>26, <1>27, <1>28, LaidTiles

-----------------------------------------------------------------------------
\* The tiling of any text.
LEMMA SegmentsTile ==
    ASSUME NEW t \in Seq(Symbols)
    PROVE  Tiled(t, Segments(t), FindDashes(t))
  <1>. DEFINE D == FindDashes(t)
              Q == FindQuotes(t)
              C == Confirmed(t, D)
  <1>1. Len(t) \in Nat /\ t \in [1..Len(t) -> Symbols]
    OBVIOUS
  <1>2. Dashed(t, D)
    <2>1. D \in Seq([start : Int, content : {FirstNot(t, i + 1, Space) : i \in Int}, kind : {DashKind(t, i) : i \in Int}])
          /\ (\A k \in 1..Len(D) : IsDash(t, D[k]))
          /\ (\A j, k \in 1..Len(D) : j < k => D[j].start < D[k].start)
      BY DashesInOrder
    <2>. HIDE DEF D
    <2>2. Len(D) \in Nat /\ DOMAIN D = 1..Len(D)
      BY <2>1
    <2>. QED
      BY <2>1, <2>2 DEF Dashed
  <1>2a. Len(D) # 0 \/ D = <<>>
    <2>1. D \in Seq([start : Int, content : {FirstNot(t, i + 1, Space) : i \in Int}, kind : {DashKind(t, i) : i \in Int}])
      BY DashesInOrder
    <2>. HIDE DEF D
    <2>. QED
      BY <2>1
  <1>. HIDE DEF D
  <1>3. PICK a : Choice(t, D, Len(D), a) /\ C = a.chosen
    BY <1>2, ConfirmedChoice
  <1>. HIDE DEF C
  <1>4. Quoting(t, 0, Q.pairs)
    BY QuotesFound DEF Found
  <1>. HIDE DEF Q
  <1>5. CASE Blank(t)
    <2>1. Segments(t) = <<>>
      BY <1>5 DEF Segments
    <2>2. \A i \in 0..(Len(t) - 1) : At(t, i) \notin Alnum
      <3>1. ASSUME NEW i \in 0..(Len(t) - 1) PROVE At(t, i) \notin Alnum
        <4>1. i + 1 \in 1..Len(t)
          BY <1>1
        <4>. QED
          BY <4>1, <1>5, Classes DEF Blank, At
      <3>. QED
        BY <3>1
    <2>3. Tiled(t, <<>>, D)
      BY <2>2 DEF Tiled
    <2>. QED
      BY <2>1, <2>3 DEF D
  <1>6. CASE ~Blank(t) /\ C # <<>>
    <2>1. Segments(t) = DashTiling(t, C)
      BY <1>6 DEF Segments, Analysis, Judged, Sure, C, D, Q
    <2>2. Tiled(t, DashTiling(t, C), D)
      BY <1>2, <1>3, <1>6, DashTilingTiles
    <2>. QED
      BY <2>1, <2>2 DEF D
  <1>7. CASE ~Blank(t) /\ C = <<>>
    <2>1. D = <<>> \/ D[1].kind # "initial"
      <3>1. Len(D) # 0 /\ D[1].kind = "initial" => Len(a.chosen) # 0
        BY <1>3 DEF Choice
      <3>2. Len(C) = 0
        BY <1>7
      <3>. QED
        BY <3>1, <3>2, <1>2a, <1>3
    <2>2. Segments(t) = Whole(t) \/ Segments(t) = QuoteTiling(t, Q.pairs)
      BY <1>7 DEF Segments, Analysis, Judged, Sure, ToReview, C, D, Q
    <2>3. Tiled(t, Whole(t), D)
      BY <2>1, WholeTiles
    <2>4. Tiled(t, QuoteTiling(t, Q.pairs), D)
      BY <2>1, <1>4, QuoteTilingTiles
    <2>. QED
      BY <2>2, <2>3, <2>4 DEF D
  <1>. QED
    BY <1>5, <1>6, <1>7

-----------------------------------------------------------------------------
(* What a text is rewritten with.                                          *)

\* A slice of a text is a text.
LEMMA SliceIs ==
    ASSUME NEW t \in Seq(Symbols), NEW a \in Nat, NEW b \in Int
    PROVE  Slice(t, a, b) \in Seq(Symbols)
  <1>. DEFINE e == IF b <= Len(t) THEN b ELSE Len(t)
  <1>1. Len(t) \in Nat /\ e \in Int /\ e <= Len(t)
    OBVIOUS
  <1>2. Slice(t, a, b) = SubSeq(t, a + 1, e)
    BY DEF Slice
  <1>. HIDE DEF e
  <1>. QED
    BY <1>1, <1>2

\* Stretches of a text, and such as are apart from each other.
Stretches(t, M) == /\ M \subseteq Int \X Int
                   /\ \A m \in M : m[1] \in 0..(Len(t) - 1) /\ m[2] \in (m[1] + 1)..Len(t)

\* Stretches that do not meet.
AreApart(M) == \A m, o \in M : m # o => m[2] <= o[1] \/ o[2] <= m[1]

\* A text has finitely many stretches.
LEMMA StretchesFinite ==
    ASSUME NEW t \in Seq(Symbols), NEW M, Stretches(t, M)
    PROVE  IsFiniteSet(M)
  <1>1. Len(t) \in Nat
    OBVIOUS
  <1>2. M \subseteq (0..Len(t)) \X (0..Len(t))
    <2>1. ASSUME NEW m \in M PROVE m \in (0..Len(t)) \X (0..Len(t))
      <3>1. m \in Int \X Int /\ m[1] \in 0..(Len(t) - 1) /\ m[2] \in (m[1] + 1)..Len(t)
        BY DEF Stretches
      <3>2. m[1] \in 0..Len(t) /\ m[2] \in 0..Len(t)
        BY <3>1, <1>1
      <3>. QED
        BY <3>1, <3>2
    <2>. QED
      BY <2>1
  <1>3. IsFiniteSet(0..Len(t))
    BY <1>1, FS_Interval
  <1>4. IsFiniteSet((0..Len(t)) \X (0..Len(t)))
    BY <1>3, FS_Product
  <1>. QED
    BY <1>2, <1>4, FS_Subset

\* The runs of a class of symbols are stretches apart from each other.
LEMMA RunsAre ==
    ASSUME NEW t \in Seq(Symbols), NEW S
    PROVE  Stretches(t, Runs(t, 0, Len(t), S)) /\ AreApart(Runs(t, 0, Len(t), S))
  <1>. DEFINE n == Len(t)
              at == {j \in 0..(n - 1) : At(t, j) \in S /\ (j = 0 \/ At(t, j - 1) \notin S)}
              end(i) == Min({n, FirstNot(t, i, S)})
              R == {<<i, end(i)>> : i \in at}
  <1>1. n \in Nat
    OBVIOUS
  <1>2. Runs(t, 0, n, S) = R
    BY DEF Runs
  <1>3. ASSUME NEW i \in at
        PROVE  /\ i \in 0..(n - 1) /\ end(i) \in (i + 1)..n
               /\ \A j \in i..(end(i) - 1) : At(t, j) \in S
    <2>. DEFINE f == FirstNot(t, i, S)
                T == {n, f}
    <2>1. i \in 0..n /\ i \in 0..(n - 1) /\ At(t, i) \in S
      BY <1>1
    <2>2. f \in i..n /\ (\A j \in i..(f - 1) : At(t, j) \in S) /\ (f < n => At(t, f) \notin S)
      BY <2>1, FirstNotIs
    <2>. HIDE DEF f, n
    <2>3. T \in SUBSET Int /\ T # {} /\ \A k \in T : f <= k
      BY <1>1, <2>2
    <2>4. f \in Int
      BY <1>1, <2>2
    <2>. HIDE DEF T
    <2>5. Min(T) \in T /\ \A k \in T : Min(T) <= k
      BY <2>3, <2>4, LeastOf
    <2>6. end(i) = f
      BY <2>3, <2>4, <2>5, <1>1, <2>2 DEF T, f
    <2>7. f # i
      BY <2>1, <2>2, <1>1
    <2>. HIDE DEF end
    <2>. QED
      BY <2>1, <2>2, <2>6, <2>7, <1>1
  <1>4. Stretches(t, R)
    <2>1. \A i \in at : i \in Int /\ end(i) \in Int
      BY <1>1, <1>3
    <2>. HIDE DEF end, at, n
    <2>. QED
      BY <2>1, <1>3 DEF Stretches, n
  <1>5. ASSUME NEW i \in at, NEW j \in at, i < j PROVE end(i) <= j
    <2>1. j # 0 /\ At(t, j - 1) \notin S /\ j - 1 >= i
      BY <1>1, <1>3, <1>5
    <2>2. j - 1 \notin i..(end(i) - 1)
      BY <2>1, <1>3
    <2>3. end(i) \in (i + 1)..n /\ i \in Int /\ j \in Int
      BY <1>1, <1>3
    <2>. HIDE DEF end, at
    <2>. QED
      BY <2>1, <2>2, <2>3, <1>1
  <1>6. AreApart(R)
    <2>1. ASSUME NEW i \in at, NEW j \in at, i # j PROVE end(i) <= j \/ end(j) <= i
      <3>1. i < j \/ j < i
        BY <2>1, <1>1
      <3>. QED
        BY <3>1, <1>5
    <2>. HIDE DEF end, at
    <2>2. ASSUME NEW m \in R, NEW o \in R, m # o PROVE m[2] <= o[1] \/ o[2] <= m[1]
      <3>1. PICK i \in at : m = <<i, end(i)>>
        OBVIOUS
      <3>2. PICK j \in at : o = <<j, end(j)>>
        OBVIOUS
      <3>3. i # j
        BY <3>1, <3>2, <2>2
      <3>. QED
        BY <3>1, <3>2, <3>3, <2>1
    <2>. HIDE DEF R
    <2>. QED
      BY <2>2 DEF AreApart
  <1>. HIDE DEF R
  <1>. QED
    BY <1>2, <1>4, <1>6 DEF n

-----------------------------------------------------------------------------
(* A search from the left.                                                 *)

\* Stretches can be put in order.
LEMMA OrderListed ==
    ASSUME NEW t \in Seq(Symbols), NEW M, Stretches(t, M)
    PROVE  /\ Len(InOrder(M)) \in Nat /\ DOMAIN InOrder(M) = 1..Len(InOrder(M))
           /\ \A k \in 1..Len(InOrder(M)) : InOrder(M)[k] \in M
  <1>. DEFINE before(a, b) == a[1] < b[1] \/ (a[1] = b[1] /\ a[2] < b[2])
              R == {p \in M \X M : before(p[1], p[2])}
              n == Cardinality(M)
              L == [k \in 1..n |-> CHOOSE x \in M : Cardinality({y \in M : before(y, x)}) = k - 1]
  <1>1. \A m \in M : m \in Int \X Int
    BY DEF Stretches
  <1>2. \A x, y \in M : <<x, y>> \in R <=> before(x, y)
    OBVIOUS
  <1>3. \A x \in M : ~before(x, x)
    BY <1>1
  <1>4. \A x, y \in M : x # y => before(x, y) \/ before(y, x)
    BY <1>1
  <1>5. \A x, y, z \in M : before(x, y) /\ before(y, z) => before(x, z)
    BY <1>1
  <1>6. Ordering(R, M)
    <2>. HIDE DEF R, before
    <2>. QED
      BY <1>2, <1>3, <1>4, <1>5 DEF Ordering
  <1>7. \A x \in M : Below(R, M, x) = {y \in M : before(y, x)}
    <2>. HIDE DEF before
    <2>. QED
      BY DEF Below
  <1>8. InOrder(M) = L
    BY DEF InOrder, Ranked
  <1>9. IsFiniteSet(M)
    BY StretchesFinite
  <1>. HIDE DEF R, before
  <1>10. n \in Nat /\ \A k \in 1..n : \E x \in M : Cardinality(Below(R, M, x)) = k - 1
    BY <1>6, <1>9, Listed
  <1>11. ASSUME NEW k \in 1..n PROVE L[k] \in M
    <2>1. \E x \in M : Cardinality({y \in M : before(y, x)}) = k - 1
      BY <1>7, <1>10
    <2>. QED
      BY <2>1
  <1>12. Len(L) = n /\ DOMAIN L = 1..n
    BY <1>10
  <1>. HIDE DEF L, n
  <1>. QED
    BY <1>8, <1>10, <1>11, <1>12

\* f goes through the matches.
Scans(f, L, n) == f = [k \in 0..n |-> IF k = 0 THEN {} ELSE Matched(f[k - 1], L[k])]

\* There is such a scan up to any match.
LEMMA SomeScan ==
    ASSUME NEW L, NEW n \in Nat
    PROVE  \E f : Scans(f, L, n)
  <1>. DEFINE Good == {m \in 0..n : \E f : Scans(f, L, m)}
  <1>1. 0 \in Good
    <2>. DEFINE f == [k \in 0..0 |-> {}]
    <2>1. Scans(f, L, 0)
      BY DEF Scans
    <2>. QED
      BY <2>1
  <1>2. ASSUME NEW m \in 1..n, m - 1 \in Good PROVE m \in Good
    <2>1. PICK f : Scans(f, L, m - 1)
      BY <1>2
    <2>. DEFINE g == [k \in 0..m |-> IF k = m THEN Matched(f[m - 1], L[m]) ELSE f[k]]
    <2>2. ASSUME NEW k \in 0..m PROVE g[k] = IF k = 0 THEN {} ELSE Matched(g[k - 1], L[k])
      <3>1. CASE k = m
        <4>1. k # 0 /\ k - 1 \in 0..m /\ k - 1 # m
          BY <3>1
        <4>. QED
          BY <3>1, <4>1
      <3>2. CASE k # m
        <4>1. k \in 0..(m - 1) /\ (k # 0 => k - 1 \in 0..m /\ k - 1 # m)
          BY <3>2
        <4>2. f[k] = IF k = 0 THEN {} ELSE Matched(f[k - 1], L[k])
          BY <2>1, <4>1 DEF Scans
        <4>. QED
          BY <3>2, <4>1, <4>2
      <3>. QED
        BY <3>1, <3>2
    <2>3. g = [k \in 0..m |-> g[k]]
      OBVIOUS
    <2>. HIDE DEF g
    <2>4. Scans(g, L, m)
      BY <2>2, <2>3 DEF Scans
    <2>. QED
      BY <2>4
  <1>. HIDE DEF Good
  <1>3. n \in Good
    BY <1>1, <1>2, Inductive
  <1>. QED
    BY <1>3 DEF Good

\* What a scan leaves is apart (finditer()).
LEMMA ScanApart ==
    ASSUME NEW t \in Seq(Symbols), NEW M, Stretches(t, M)
    PROVE  Scan(M) \subseteq M /\ AreApart(Scan(M))
  <1>. DEFINE L == InOrder(M)
              n == Len(L)
              F == CHOOSE f : f = [k \in 0..n |-> IF k = 0 THEN {} ELSE Matched(f[k - 1], L[k])]
  <1>1. n \in Nat /\ \A k \in 1..n : L[k] \in M
    BY OrderListed
  <1>. HIDE DEF L, n
  <1>2. F = [k \in 0..n |-> IF k = 0 THEN {} ELSE Matched(F[k - 1], L[k])]
    <2>1. \E f : f = [k \in 0..n |-> IF k = 0 THEN {} ELSE Matched(f[k - 1], L[k])]
      <3>1. \E f : Scans(f, L, n)
        BY <1>1, SomeScan
      <3>. QED
        BY <3>1 DEF Scans
    <2>. QED
      BY <2>1
  <1>3. Scan(M) = F[n]
    BY DEF Scan, L, n
  <1>. HIDE DEF F
  <1>. DEFINE Good == {k \in 0..n : F[k] \subseteq M /\ AreApart(F[k])}
  <1>4. 0 \in Good
    <2>0. 0 \in 0..n
      BY <1>1
    <2>1. F[0] = {}
      BY <2>0, <1>2
    <2>. QED
      BY <2>1, <1>1 DEF AreApart
  <1>5. ASSUME NEW k \in 1..n, k - 1 \in Good PROVE k \in Good
    <2>0. k \in 0..n /\ k # 0
      BY <1>1
    <2>1. F[k] = Matched(F[k - 1], L[k])
      BY <2>0, <1>2
    <2>2. F[k - 1] \subseteq M /\ AreApart(F[k - 1]) /\ L[k] \in M
      BY <1>1, <1>5
    <2>3. F[k] \subseteq M /\ AreApart(F[k])
      BY <2>1, <2>2 DEF Matched, AreApart
    <2>. QED
      BY <2>3
  <1>. HIDE DEF Good
  <1>6. n \in Good
    <2>1. \A k \in 0..n : k \in Good
      BY <1>1, <1>4, <1>5, Inductive
    <2>. QED
      BY <2>1, <1>1
  <1>. QED
    BY <1>3, <1>6 DEF Good

-----------------------------------------------------------------------------
(* Several searches, where each leaves what the earlier ones have.         *)

\* Suggestions that do not overlap.
NoOverlap(A) == \A g, h \in A : g # h => ~Overlap(SpanOf(g), SpanOf(h))

\* f goes through the searches.
Turns(f, S, n) == f = [k \in 0..n |-> IF k = 0 THEN {} ELSE Adding(f[k - 1], S[k])]

\* There are such turns up to any search.
LEMMA SomeTurns ==
    ASSUME NEW S, NEW n \in Nat
    PROVE  \E f : Turns(f, S, n)
  <1>. DEFINE Good == {m \in 0..n : \E f : Turns(f, S, m)}
  <1>1. 0 \in Good
    <2>. DEFINE f == [k \in 0..0 |-> {}]
    <2>1. Turns(f, S, 0)
      BY DEF Turns
    <2>. QED
      BY <2>1
  <1>2. ASSUME NEW m \in 1..n, m - 1 \in Good PROVE m \in Good
    <2>1. PICK f : Turns(f, S, m - 1)
      BY <1>2
    <2>. DEFINE g == [k \in 0..m |-> IF k = m THEN Adding(f[m - 1], S[m]) ELSE f[k]]
    <2>2. ASSUME NEW k \in 0..m PROVE g[k] = IF k = 0 THEN {} ELSE Adding(g[k - 1], S[k])
      <3>1. CASE k = m
        <4>1. k # 0 /\ k - 1 \in 0..m /\ k - 1 # m
          BY <3>1
        <4>. QED
          BY <3>1, <4>1
      <3>2. CASE k # m
        <4>1. k \in 0..(m - 1) /\ (k # 0 => k - 1 \in 0..m /\ k - 1 # m)
          BY <3>2
        <4>2. f[k] = IF k = 0 THEN {} ELSE Adding(f[k - 1], S[k])
          BY <2>1, <4>1 DEF Turns
        <4>. QED
          BY <3>2, <4>1, <4>2
      <3>. QED
        BY <3>1, <3>2
    <2>3. g = [k \in 0..m |-> g[k]]
      OBVIOUS
    <2>. HIDE DEF g
    <2>4. Turns(g, S, m)
      BY <2>2, <2>3 DEF Turns
    <2>. QED
      BY <2>4
  <1>. HIDE DEF Good
  <1>3. n \in Good
    BY <1>1, <1>2, Inductive
  <1>. QED
    BY <1>3 DEF Good

\* InTurn() is the last of them.
LEMMA TurnsOf ==
    ASSUME NEW S, Len(S) \in Nat
    PROVE  \E f : Turns(f, S, Len(S)) /\ InTurn(S) = f[Len(S)]
  <1>. DEFINE n == Len(S)
              F == CHOOSE f : f = [k \in 0..n |-> IF k = 0 THEN {} ELSE Adding(f[k - 1], S[k])]
  <1>. HIDE DEF n
  <1>1. F = [k \in 0..n |-> IF k = 0 THEN {} ELSE Adding(F[k - 1], S[k])]
    <2>1. \E f : f = [k \in 0..n |-> IF k = 0 THEN {} ELSE Adding(f[k - 1], S[k])]
      <3>1. \E f : Turns(f, S, n)
        BY SomeTurns DEF n
      <3>. QED
        BY <3>1 DEF Turns
    <2>. QED
      BY <2>1
  <1>2. InTurn(S) = F[n]
    BY DEF InTurn, n
  <1>. HIDE DEF F
  <1>3. Turns(F, S, n)
    BY <1>1 DEF Turns
  <1>. QED
    BY <1>2, <1>3 DEF n

\* Nothing is found that no search finds.
LEMMA InTurnFrom ==
    ASSUME NEW S, Len(S) \in Nat
    PROVE  \A g \in InTurn(S) : \E k \in 1..Len(S) : g \in S[k]
  <1>. DEFINE n == Len(S)
  <1>1. PICK f : Turns(f, S, n) /\ InTurn(S) = f[n]
    BY TurnsOf
  <1>. DEFINE Good == {k \in 0..n : \A g \in f[k] : \E j \in 1..n : g \in S[j]}
  <1>2. n \in Nat
    OBVIOUS
  <1>. HIDE DEF n
  <1>3. f = [k \in 0..n |-> IF k = 0 THEN {} ELSE Adding(f[k - 1], S[k])]
    BY <1>1 DEF Turns
  <1>4. 0 \in Good
    <2>1. 0 \in 0..n
      BY <1>2
    <2>2. f[0] = {}
      BY <2>1, <1>3
    <2>. QED
      BY <2>1, <2>2
  <1>5. ASSUME NEW k \in 1..n, k - 1 \in Good PROVE k \in Good
    <2>1. k \in 0..n /\ k # 0
      BY <1>2
    <2>2. f[k] = Adding(f[k - 1], S[k])
      BY <2>1, <1>3
    <2>3. \A g \in f[k] : g \in f[k - 1] \/ g \in S[k]
      BY <2>2 DEF Adding, Apart
    <2>4. \A g \in f[k - 1] : \E j \in 1..n : g \in S[j]
      BY <1>5
    <2>. QED
      BY <2>1, <2>3, <2>4
  <1>. HIDE DEF Good
  <1>6. n \in Good
    <2>1. \A k \in 0..n : k \in Good
      BY <1>2, <1>4, <1>5, Inductive
    <2>. QED
      BY <2>1, <1>2
  <1>. QED
    BY <1>1, <1>6 DEF Good, n

\* What is found is apart from each other when each search finds what is.
LEMMA InTurnApart ==
    ASSUME NEW S, Len(S) \in Nat, \A k \in 1..Len(S) : NoOverlap(S[k])
    PROVE  NoOverlap(InTurn(S))
  <1>. DEFINE n == Len(S)
  <1>1. PICK f : Turns(f, S, n) /\ InTurn(S) = f[n]
    BY TurnsOf
  <1>. DEFINE Good == {k \in 0..n : NoOverlap(f[k])}
  <1>2. n \in Nat /\ \A k \in 1..n : NoOverlap(S[k])
    OBVIOUS
  <1>. HIDE DEF n
  <1>3. f = [k \in 0..n |-> IF k = 0 THEN {} ELSE Adding(f[k - 1], S[k])]
    BY <1>1 DEF Turns
  <1>4. 0 \in Good
    <2>1. 0 \in 0..n
      BY <1>2
    <2>2. f[0] = {}
      BY <2>1, <1>3
    <2>. QED
      BY <2>1, <2>2 DEF NoOverlap
  <1>5. ASSUME NEW k \in 1..n, k - 1 \in Good PROVE k \in Good
    <2>1. k \in 0..n /\ k # 0
      BY <1>2
    <2>2. f[k] = Adding(f[k - 1], S[k])
      BY <2>1, <1>3
    <2>3. \A g \in f[k] : g \in f[k - 1] \/ (g \in S[k] /\ \A o \in f[k - 1] : ~Overlap(SpanOf(g), SpanOf(o)))
      BY <2>2 DEF Adding, Apart, OverlapsAny
    <2>4. NoOverlap(f[k - 1]) /\ NoOverlap(S[k])
      BY <1>2, <1>5
    <2>5. \A g, h : Overlap(SpanOf(g), SpanOf(h)) => Overlap(SpanOf(h), SpanOf(g))
      BY DEF Overlap
    <2>6. NoOverlap(f[k])
      BY <2>3, <2>4, <2>5 DEF NoOverlap
    <2>. QED
      BY <2>1, <2>6
  <1>. HIDE DEF Good
  <1>6. n \in Good
    <2>1. \A k \in 0..n : k \in Good
      BY <1>2, <1>4, <1>5, Inductive
    <2>. QED
      BY <2>1, <1>2
  <1>. QED
    BY <1>1, <1>6 DEF Good, n

-----------------------------------------------------------------------------
(* The artefacts of a text.                                                *)

\* A suggestion, whatever it is about.
Suggested(g) == g = [block |-> g.block, kind |-> g.kind, start |-> g.start, end |-> g.end, original |-> g.original,
                     replacement |-> g.replacement, reason |-> g.reason, form |-> g.form, segments |-> g.segments,
                     speaker |-> g.speaker]

\* A suggestion that quotes what it lies on.
Lies(t, g) == /\ Suggested(g) /\ g.start \in Nat /\ g.end \in Int /\ g.start <= g.end
              /\ g.original = Slice(t, g.start, g.end)

\* Rewrites that fit a text and are apart from each other.
Rewriting(t, A) ==
    /\ \A g \in A : /\ Suggested(g) /\ g.kind = "conversion_artifact"
                    /\ g.start \in 0..(Len(t) - 1) /\ g.end \in (g.start + 1)..Len(t)
                    /\ g.original = Slice(t, g.start, g.end)
                    /\ g.replacement \in Seq(Symbols)
    /\ NoOverlap(A)

\* A rewrite of each stretch of M, with what new gives for it.
RewritesOf(t, M, new, reason) == {Artefact(t, m, new[m], reason) : m \in M}

\* They are rewrites that fit the text, and apart.
LEMMA ArtefactsOf ==
    ASSUME NEW t \in Seq(Symbols), NEW M, Stretches(t, M), AreApart(M),
           NEW new \in [M -> Seq(Symbols)], NEW reason
    PROVE  Rewriting(t, RewritesOf(t, M, new, reason))
  <1>. DEFINE A == {Artefact(t, m, new[m], reason) : m \in M}
  <1>1. ASSUME NEW m \in M, NEW g, g = Artefact(t, m, new[m], reason)
        PROVE  /\ Suggested(g) /\ g.kind = "conversion_artifact" /\ g.start = m[1] /\ g.end = m[2]
               /\ g.original = Slice(t, m[1], m[2]) /\ g.replacement \in Seq(Symbols) /\ SpanOf(g) = m
    <2>1. m = <<m[1], m[2]>> /\ new[m] \in Seq(Symbols)
      BY DEF Stretches
    <2>. HIDE DEF A
    <2>2. /\ g.kind = "conversion_artifact" /\ g.start = m[1] /\ g.end = m[2]
          /\ g.original = Slice(t, m[1], m[2]) /\ g.replacement = new[m]
      BY <1>1 DEF Artefact, Suggestion
    <2>3. SpanOf(g) = <<m[1], m[2]>>
      BY <2>2 DEF SpanOf
    <2>4. Suggested(g)
      BY <1>1 DEF Suggested, Artefact, Suggestion
    <2>. QED
      BY <2>1, <2>2, <2>3, <2>4
  <1>2. \A m \in M : m[1] \in 0..(Len(t) - 1) /\ m[2] \in (m[1] + 1)..Len(t)
    BY DEF Stretches
  <1>3. \A g \in A : \E m \in M : g = Artefact(t, m, new[m], reason)
    OBVIOUS
  <1>. HIDE DEF A
  <1>4. \A g \in A : /\ Suggested(g) /\ g.kind = "conversion_artifact"
                     /\ g.start \in 0..(Len(t) - 1) /\ g.end \in (g.start + 1)..Len(t)
                     /\ g.original = Slice(t, g.start, g.end)
                     /\ g.replacement \in Seq(Symbols)
    BY <1>1, <1>2, <1>3
  <1>5. ASSUME NEW g \in A, NEW h \in A, g # h PROVE ~Overlap(SpanOf(g), SpanOf(h))
    <2>1. PICK m \in M : g = Artefact(t, m, new[m], reason)
      BY <1>3
    <2>2. PICK o \in M : h = Artefact(t, o, new[o], reason)
      BY <1>3
    <2>3. SpanOf(g) = m /\ SpanOf(h) = o
      BY <2>1, <2>2, <1>1
    <2>4. m # o
      BY <2>1, <2>2, <1>5
    <2>5. m[2] <= o[1] \/ o[2] <= m[1]
      BY <2>4 DEF AreApart
    <2>6. m[1] \in Int /\ m[2] \in Int /\ o[1] \in Int /\ o[2] \in Int
      BY DEF Stretches
    <2>. QED
      BY <2>3, <2>5, <2>6 DEF Overlap
  <1>6. Rewriting(t, A)
    BY <1>4, <1>5 DEF Rewriting, NoOverlap
  <1>. QED
    BY <1>6 DEF A, RewritesOf

\* A text without some symbols is a text.
LEMMA WithoutIs ==
    ASSUME NEW t \in Seq(Symbols), NEW S
    PROVE  Without(t, S) \in Seq(Symbols)
  <1>. DEFINE at == {i \in 1..Len(t) : t[i] \notin S}
              R == {p \in at \X at : p[1] < p[2]}
              n == Cardinality(at)
              order == [k \in 1..n |-> CHOOSE x \in at : Cardinality({y \in at : y < x}) = k - 1]
              W == [k \in 1..n |-> t[order[k]]]
  <1>1. Len(t) \in Nat
    OBVIOUS
  <1>2. IsFiniteSet(at)
    <2>1. IsFiniteSet(1..Len(t))
      BY <1>1, FS_Interval
    <2>. QED
      BY <2>1, FS_Subset
  <1>3. Ordering(R, at)
    BY <1>1 DEF Ordering
  <1>4. \A x \in at : Below(R, at, x) = {y \in at : y < x}
    BY DEF Below
  <1>. HIDE DEF R
  <1>5. n \in Nat /\ \A k \in 1..n : \E x \in at : Cardinality(Below(R, at, x)) = k - 1
    <2>. HIDE DEF at
    <2>. QED
      BY <1>2, <1>3, Listed
  <1>6. ASSUME NEW k \in 1..n PROVE order[k] \in at
    <2>1. \E x \in at : Cardinality({y \in at : y < x}) = k - 1
      BY <1>4, <1>5
    <2>. QED
      BY <2>1
  <1>7. Without(t, S) = [k \in 1..Len(order) |-> t[order[k]]]
    BY DEF Without, Ranked
  <1>8. Len(order) = n
    BY <1>5
  <1>. HIDE DEF order, n
  <1>9. \A k \in 1..n : W[k] \in Symbols
    BY <1>6
  <1>10. W \in [1..n -> Symbols]
    <2>1. W = [k \in 1..n |-> W[k]]
      OBVIOUS
    <2>. HIDE DEF W
    <2>. QED
      BY <2>1, <1>9
  <1>11. W \in Seq(Symbols)
    <2>. HIDE DEF W
    <2>. QED
      BY <1>5, <1>10
  <1>. QED
    BY <1>7, <1>8, <1>11

\* So are some of the runs.
LEMMA SomeRuns ==
    ASSUME NEW t \in Seq(Symbols), NEW S, NEW M, M \subseteq Runs(t, 0, Len(t), S)
    PROVE  Stretches(t, M) /\ AreApart(M)
  BY RunsAre DEF Stretches, AreApart

\* The searches of normalize.py, one by one: words broken over two lines,
LEMMA HyphenationIs ==
    ASSUME NEW t \in Seq(Symbols)
    PROVE  Rewriting(t, Hyphenation(t))
  <1>. DEFINE n == Len(t)
              words == Runs(t, 0, Len(t), Letters)
              breaks == {"hyphen", "shy"}
              eol(b) == {e \in {b + 1, b + 2} : /\ e < Len(t) /\ At(t, e) = "nl" /\ At(t, e - 1) \in breaks
                                                /\ e = b + 2 => At(t, b) = "shy"}
              joins == {j \in words \X words : j[2][1] - 1 \in eol(j[1][2])}
              N == {<<j[1][1], j[2][2]>> : j \in joins}
              M == Scan(N)
              said(m) == LET j == CHOOSE j \in joins : j[1][1] = m[1]
                         IN  Slice(t, j[1][1], j[1][2]) \o Slice(t, j[2][1], j[2][2])
              new == [m \in M |-> said(m)]
  <1>1. n \in Nat
    OBVIOUS
  <1>2. Stretches(t, words)
    BY RunsAre
  <1>3. \A w \in words : w[1] \in 0..(n - 1) /\ w[2] \in (w[1] + 1)..n /\ w[1] \in Nat /\ w[2] \in Int
    BY <1>1, <1>2 DEF Stretches
  <1>4. ASSUME NEW j \in joins
        PROVE  /\ j[1][1] \in 0..(n - 1) /\ j[2][2] \in (j[1][1] + 1)..n
               /\ Slice(t, j[1][1], j[1][2]) \o Slice(t, j[2][1], j[2][2]) \in Seq(Symbols)
    <2>1. j[1] \in words /\ j[2] \in words /\ j[2][1] - 1 \in {j[1][2] + 1, j[1][2] + 2}
      OBVIOUS
    <2>. HIDE DEF joins, words, n
    <2>2. /\ j[1][1] \in 0..(n - 1) /\ j[1][2] \in (j[1][1] + 1)..n /\ j[1][1] \in Nat /\ j[1][2] \in Int
          /\ j[2][1] \in 0..(n - 1) /\ j[2][2] \in (j[2][1] + 1)..n /\ j[2][1] \in Nat /\ j[2][2] \in Int
      BY <2>1, <1>3
    <2>3. j[2][2] \in (j[1][1] + 1)..n
      <3>. DEFINE a == j[1][1]
                  b == j[1][2]
                  c == j[2][1]
                  d == j[2][2]
      <3>1. /\ a \in 0..(n - 1) /\ b \in (a + 1)..n /\ c \in 0..(n - 1) /\ d \in (c + 1)..n
            /\ c - 1 \in {b + 1, b + 2}
        BY <2>1, <2>2
      <3>. HIDE DEF a, b, c, d
      <3>2. d \in (a + 1)..n
        BY <3>1, <1>1
      <3>. QED
        BY <3>2 DEF a, d
    <2>4. Slice(t, j[1][1], j[1][2]) \in Seq(Symbols) /\ Slice(t, j[2][1], j[2][2]) \in Seq(Symbols)
      BY <2>2, SliceIs
    <2>. QED
      BY <2>2, <2>3, <2>4
  <1>5. Hyphenation(t) = {Artefact(t, m, said(m), "hyphenation") : m \in M}
    BY DEF Hyphenation
  <1>. HIDE DEF joins
  <1>6. Stretches(t, N)
    <2>1. ASSUME NEW m \in N PROVE m \in Int \X Int /\ m[1] \in 0..(n - 1) /\ m[2] \in (m[1] + 1)..n
      <3>1. PICK j \in joins : m = <<j[1][1], j[2][2]>>
        OBVIOUS
      <3>2. m[1] \in 0..(n - 1) /\ m[2] \in (m[1] + 1)..n /\ m = <<m[1], m[2]>>
        BY <3>1, <1>4
      <3>3. m[1] \in Int /\ m[2] \in Int
        BY <3>2, <1>1
      <3>. QED
        BY <3>2, <3>3
    <2>. HIDE DEF N
    <2>. QED
      BY <2>1 DEF Stretches
  <1>7. \A m \in N : \E j \in joins : j[1][1] = m[1]
    OBVIOUS
  <1>. HIDE DEF N
  <1>8. M \subseteq N /\ AreApart(M)
    BY <1>6, ScanApart
  <1>. HIDE DEF M
  <1>9. ASSUME NEW m \in M PROVE said(m) \in Seq(Symbols)
    <2>1. \E j \in joins : j[1][1] = m[1]
      BY <1>7, <1>8
    <2>. DEFINE j == CHOOSE j \in joins : j[1][1] = m[1]
    <2>2. j \in joins
      BY <2>1
    <2>3. said(m) = Slice(t, j[1][1], j[1][2]) \o Slice(t, j[2][1], j[2][2])
      OBVIOUS
    <2>. HIDE DEF j, said
    <2>. QED
      BY <2>2, <2>3, <1>4
  <1>10. Stretches(t, M)
    BY <1>6, <1>8 DEF Stretches
  <1>. HIDE DEF said
  <1>11. new \in [M -> Seq(Symbols)] /\ \A m \in M : new[m] = said(m)
    BY <1>9
  <1>. HIDE DEF new
  <1>12. Rewriting(t, RewritesOf(t, M, new, "hyphenation"))
    BY <1>8, <1>10, <1>11, ArtefactsOf
  <1>13. Hyphenation(t) = RewritesOf(t, M, new, "hyphenation")
    BY <1>5, <1>11 DEF RewritesOf
  <1>. QED
    BY <1>12, <1>13

\* soft hyphens,
LEMMA SoftHyphensIs ==
    ASSUME NEW t \in Seq(Symbols)
    PROVE  Rewriting(t, SoftHyphens(t))
  <1>. DEFINE M == {q \in Runs(t, 0, Len(t), Letters \cup {"shy"}) : "shy" \in ToSet(Slice(t, q[1], q[2]))}
              said(r) == Without(Slice(t, r[1], r[2]), {"shy"})
              new == [r \in M |-> said(r)]
  <1>1. SoftHyphens(t) = {Artefact(t, r, said(r), "soft_hyphen") : r \in M}
    BY DEF SoftHyphens
  <1>2. M \subseteq Runs(t, 0, Len(t), Letters \cup {"shy"})
    OBVIOUS
  <1>. HIDE DEF M
  <1>3. Stretches(t, M) /\ AreApart(M)
    BY <1>2, SomeRuns
  <1>4. ASSUME NEW r \in M PROVE said(r) \in Seq(Symbols)
    <2>1. r[1] \in Nat /\ r[2] \in Int
      <3>1. Len(t) \in Nat
        OBVIOUS
      <3>. QED
        BY <3>1, <1>3 DEF Stretches
    <2>2. Slice(t, r[1], r[2]) \in Seq(Symbols)
      BY <2>1, SliceIs
    <2>. QED
      BY <2>2, WithoutIs
  <1>. HIDE DEF said
  <1>5. new \in [M -> Seq(Symbols)] /\ \A m \in M : new[m] = said(m)
    BY <1>4
  <1>. HIDE DEF new
  <1>6. Rewriting(t, RewritesOf(t, M, new, "soft_hyphen"))
    BY <1>3, <1>5, ArtefactsOf
  <1>7. SoftHyphens(t) = RewritesOf(t, M, new, "soft_hyphen")
    BY <1>1, <1>5 DEF RewritesOf
  <1>. QED
    BY <1>6, <1>7

\* repeated spaces,
LEMMA WhitespaceIs ==
    ASSUME NEW t \in Seq(Symbols)
    PROVE  Rewriting(t, Whitespace(t))
  <1>. DEFINE M == {q \in Runs(t, 0, Len(t), {"sp"}) : q[2] > q[1] + 1}
              new == [r \in M |-> <<"sp">>]
  <1>1. Whitespace(t) = {Artefact(t, r, <<"sp">>, "whitespace") : r \in M}
    BY DEF Whitespace
  <1>2. M \subseteq Runs(t, 0, Len(t), {"sp"})
    OBVIOUS
  <1>. HIDE DEF M
  <1>3. Stretches(t, M) /\ AreApart(M)
    BY <1>2, SomeRuns
  <1>4. <<"sp">> \in Seq(Symbols)
    BY DEF Symbols, Space
  <1>5. new \in [M -> Seq(Symbols)] /\ \A m \in M : new[m] = <<"sp">>
    BY <1>4
  <1>. HIDE DEF new
  <1>6. Rewriting(t, RewritesOf(t, M, new, "whitespace"))
    BY <1>3, <1>5, ArtefactsOf
  <1>7. Whitespace(t) = RewritesOf(t, M, new, "whitespace")
    BY <1>1, <1>5 DEF RewritesOf
  <1>. QED
    BY <1>6, <1>7

\* dashes,
LEMMA DashArtefactsIs ==
    ASSUME NEW t \in Seq(Symbols)
    PROVE  Rewriting(t, DashArtefacts(t))
  <1>. DEFINE at == {j \in 0..(Len(t) - 1) : At(t, j) = "endash"}
              M == {<<i, i + 1>> : i \in at}
              new == [r \in M |-> <<"dash">>]
  <1>0. Len(t) \in Nat
    OBVIOUS
  <1>1. DashArtefacts(t) = {Artefact(t, <<i, i + 1>>, <<"dash">>, "dash") : i \in at}
    BY DEF DashArtefacts
  <1>2. at \subseteq 0..(Len(t) - 1)
    OBVIOUS
  <1>. HIDE DEF at
  <1>3. DashArtefacts(t) = {Artefact(t, r, <<"dash">>, "dash") : r \in M}
    BY <1>1
  <1>4. \A m \in M : \E i \in at : m = <<i, i + 1>> /\ i \in Int
    BY <1>0, <1>2
  <1>. HIDE DEF M
  <1>5. Stretches(t, M) /\ AreApart(M)
    <2>1. \A m \in M : m \in Int \X Int /\ m[2] = m[1] + 1 /\ m[1] \in 0..(Len(t) - 1) /\ m = <<m[1], m[2]>>
      BY <1>2, <1>4
    <2>. QED
      BY <2>1, <1>0 DEF Stretches, AreApart
  <1>6. <<"dash">> \in Seq(Symbols)
    BY DEF Symbols, Dashes
  <1>7. new \in [M -> Seq(Symbols)] /\ \A m \in M : new[m] = <<"dash">>
    BY <1>6
  <1>. HIDE DEF new
  <1>8. Rewriting(t, RewritesOf(t, M, new, "dash"))
    BY <1>5, <1>7, ArtefactsOf
  <1>9. DashArtefacts(t) = RewritesOf(t, M, new, "dash")
    BY <1>3, <1>7 DEF RewritesOf
  <1>. QED
    BY <1>8, <1>9

\* and letters apart from their accents.
LEMMA ComposedIs ==
    ASSUME NEW t \in Seq(Symbols)
    PROVE  Rewriting(t, Composed(t))
  <1>. DEFINE at == {j \in 0..(Len(t) - 2) : At(t, j) = "o" /\ At(t, j + 1) = "comb"}
              M == {<<i, i + 2>> : i \in at}
              new == [r \in M |-> <<"oacute">>]
  <1>0. Len(t) \in Nat
    OBVIOUS
  <1>1. Composed(t) = {Artefact(t, <<i, i + 2>>, <<"oacute">>, "nfc") : i \in at}
    BY DEF Composed
  <1>2. at \subseteq 0..(Len(t) - 2) /\ \A i \in at : i + 1 \notin at
    BY <1>0
  <1>2a. \A i \in at : i \in Int
    BY <1>0
  <1>. HIDE DEF at
  <1>3. Composed(t) = {Artefact(t, r, <<"oacute">>, "nfc") : r \in M}
    BY <1>1
  <1>4. \A m \in M : \E i \in at : m = <<i, i + 2>> /\ i \in Int
    BY <1>2a
  <1>. HIDE DEF M
  <1>5. Stretches(t, M) /\ AreApart(M)
    <2>1. \A m \in M : m \in Int \X Int /\ m[2] = m[1] + 2 /\ m[1] \in 0..(Len(t) - 2) /\ m = <<m[1], m[2]>> /\ m[1] \in at
      BY <1>2, <1>4
    <2>2. Stretches(t, M)
      BY <2>1, <1>0 DEF Stretches
    <2>3. ASSUME NEW m \in M, NEW o \in M, m # o PROVE m[2] <= o[1] \/ o[2] <= m[1]
      <3>1. m[1] \in Int /\ o[1] \in Int /\ m[1] # o[1] /\ m[1] + 1 # o[1] /\ o[1] + 1 # m[1]
        BY <2>1, <2>3, <1>0, <1>2
      <3>. QED
        BY <3>1, <2>1
    <2>. QED
      BY <2>2, <2>3 DEF AreApart
  <1>6. <<"oacute">> \in Seq(Symbols)
    BY DEF Symbols, Alnum, Letters, Lower
  <1>7. new \in [M -> Seq(Symbols)] /\ \A m \in M : new[m] = <<"oacute">>
    BY <1>6
  <1>. HIDE DEF new
  <1>8. Rewriting(t, RewritesOf(t, M, new, "nfc"))
    BY <1>5, <1>7, ArtefactsOf
  <1>9. Composed(t) = RewritesOf(t, M, new, "nfc")
    BY <1>3, <1>7 DEF RewritesOf
  <1>. QED
    BY <1>8, <1>9

\* What they propose together fits the text and does not overlap.
LEMMA ArtefactsAre ==
    ASSUME NEW t \in Seq(Symbols)
    PROVE  Rewriting(t, Artefacts(t))
  <1>. DEFINE S == <<Hyphenation(t), SoftHyphens(t), Whitespace(t), DashArtefacts(t), Composed(t)>>
              C == [k \in 1..Len(S) |-> {g \in S[k] : g.original # g.replacement}]
  <1>1. Len(S) = 5 /\ \A k \in 1..5 : Rewriting(t, S[k])
    BY HyphenationIs, SoftHyphensIs, WhitespaceIs, DashArtefactsIs, ComposedIs
  <1>2. Artefacts(t) = InTurn(C)
    BY DEF Artefacts, Claimed
  <1>. HIDE DEF S
  <1>3. Len(C) = 5 /\ Len(C) \in Nat /\ \A k \in 1..5 : C[k] \subseteq S[k]
    BY <1>1
  <1>. HIDE DEF C
  <1>4. \A k \in 1..Len(C) : NoOverlap(C[k])
    BY <1>1, <1>3 DEF Rewriting, NoOverlap
  <1>5. NoOverlap(InTurn(C))
    BY <1>3, <1>4, InTurnApart
  <1>6. \A g \in InTurn(C) : \E k \in 1..5 : g \in S[k]
    BY <1>3, InTurnFrom
  <1>. QED
    BY <1>1, <1>2, <1>5, <1>6 DEF Rewriting

-----------------------------------------------------------------------------
(* What the pre-pass finds.                                                *)

\* Suggestions that leave a text as it is, and quote it.
Quiet(t, A) == \A g \in A : Lies(t, g) /\ g.kind # "conversion_artifact"

\* A part of a text.
Part(s) == s[1] \in Nat /\ s[2] \in Int /\ s[1] <= s[2]

\* A suggestion has the kind it is made with.
LEMMA SuggestionIs ==
    ASSUME NEW t, NEW kind, NEW s, NEW r, NEW reason
    PROVE  /\ Suggested(Suggestion(t, kind, s, r, reason)) /\ Suggestion(t, kind, s, r, reason).kind = kind
           /\ Part(s) => Lies(t, Suggestion(t, kind, s, r, reason))
  BY DEF Suggested, Suggestion, Lies, Part

\* A stretch is a part of the text.
LEMMA StretchPart == ASSUME NEW t \in Seq(Symbols), NEW M, Stretches(t, M), NEW m \in M PROVE Part(m)
  <1>1. Len(t) \in Nat /\ m[1] \in 0..(Len(t) - 1) /\ m[2] \in (m[1] + 1)..Len(t)
    BY DEF Stretches
  <1>. QED
    BY <1>1 DEF Part

\* A numeral leaves the text as it is.
LEMMA NumeralMarkIs ==
    ASSUME NEW t, NEW kind, kind # "conversion_artifact", NEW s, Part(s), NEW words, NEW reason, NEW form
    PROVE  Quiet(t, {NumeralMark(t, kind, s, words, reason, form)})
  <1>. DEFINE r == Spaced(words)
              g == NumeralMark(t, kind, s, words, reason, form)
  <1>1. g = [Suggestion(t, kind, s, r, reason) EXCEPT !.form = form]
    BY DEF NumeralMark
  <1>. HIDE DEF g, r
  <1>2. Lies(t, g) /\ g.kind = kind
    BY <1>1 DEF Suggested, Suggestion, Lies, Part
  <1>. QED
    BY <1>2 DEF Quiet, g

\* The searches for numerals.
IsNumeral(t, g) == \E kind \in {"ordinal_heading", "numeral"} : \E s, words, reason, form :
                       Part(s) /\ g = NumeralMark(t, kind, s, words, reason, form)

\* A set of numerals does.
LEMMA NumeralQuiet == ASSUME NEW t, NEW A, \A g \in A : IsNumeral(t, g) PROVE Quiet(t, A)
  <1>1. ASSUME NEW g \in A PROVE Lies(t, g) /\ g.kind # "conversion_artifact"
    <2>1. PICK kind \in {"ordinal_heading", "numeral"} : \E s, words, reason, form :
              Part(s) /\ g = NumeralMark(t, kind, s, words, reason, form)
      BY DEF IsNumeral
    <2>2. kind # "conversion_artifact"
      OBVIOUS
    <2>3. PICK s, words, reason, form : Part(s) /\ g = NumeralMark(t, kind, s, words, reason, form)
      BY <2>1
    <2>4. Quiet(t, {g})
      BY <2>2, <2>3, NumeralMarkIs
    <2>. QED
      BY <2>4 DEF Quiet
  <1>. QED
    BY <1>1 DEF Quiet

\* The searches for numerals, one by one: numbered headings,
LEMMA HeadingsQuiet == ASSUME NEW t \in Seq(Symbols), NEW heading PROVE Quiet(t, Headings(t, heading))
  <1>. DEFINE a(i) == FirstNot(t, i + 1, {"sp"})
              e(i) == FirstNot(t, a(i), Alnum)
  <1>0. Len(t) \in Nat
    OBVIOUS
  <1>1a. ASSUME NEW i \in 0..(Len(t) - 1) PROVE Part(<<i, e(i)>>)
    <2>1. i + 1 \in 0..Len(t)
      BY <1>0
    <2>2. a(i) \in (i + 1)..Len(t)
      BY <2>1, FirstNotIs
    <2>3. a(i) \in 0..Len(t)
      BY <2>1, <2>2
    <2>. HIDE DEF a
    <2>4. e(i) \in a(i)..Len(t)
      BY <2>3, FirstNotIs
    <2>. HIDE DEF e
    <2>5. i \in Nat /\ e(i) \in Int /\ i <= e(i)
      BY <1>0, <2>1, <2>2, <2>4
    <2>. QED
      BY <2>5 DEF Part
  <1>1. ASSUME NEW g \in Headings(t, heading)
        PROVE  \E kind \in {"ordinal_heading", "numeral"} : \E i \in 0..(Len(t) - 1) : \E words, form :
                   g = NumeralMark(t, kind, <<i, e(i)>>, words, "heading_ordinal", form)
    BY DEF Headings
  <1>. HIDE DEF e
  <1>3. ASSUME NEW g \in Headings(t, heading)
        PROVE  IsNumeral(t, g)
    <2>. DEFINE I == 0..(Len(t) - 1)
    <2>. HIDE DEF I
    <2>0. \E kind \in {"ordinal_heading", "numeral"} : \E i \in I : \E words, form :
              g = NumeralMark(t, kind, <<i, e(i)>>, words, "heading_ordinal", form)
      BY <1>1 DEF I
    <2>0a. PICK kind \in {"ordinal_heading", "numeral"}, i \in I : \E words, form :
              g = NumeralMark(t, kind, <<i, e(i)>>, words, "heading_ordinal", form)
      BY <2>0
    <2>1. PICK words, form : g = NumeralMark(t, kind, <<i, e(i)>>, words, "heading_ordinal", form)
      BY <2>0a
    <2>. DEFINE s == <<i, e(i)>>
    <2>2. Part(s)
      BY <1>1a DEF I
    <2>. HIDE DEF s
    <2>3. g = NumeralMark(t, kind, s, words, "heading_ordinal", form)
      BY <2>1 DEF s
    <2>. QED
      BY <2>2, <2>3 DEF IsNumeral
  <1>. QED
    BY <1>3, NumeralQuiet

\* Digits lie where they are read.
LEMMA DigitsLie ==
    ASSUME NEW t \in Seq(Symbols), NEW r \in DigitRuns(t)
    PROVE  /\ r[1] \in Nat /\ r[2] \in Int /\ r[1] < r[2] /\ r[2] <= Len(t)
           /\ r[2] < Len(t) => DigitsFrom(t, r[2] + 1)[2] \in Int /\ r[2] < DigitsFrom(t, r[2] + 1)[2]
                               /\ DigitsFrom(t, r[2] + 1)[2] <= Len(t)
  <1>0. Len(t) \in Nat
    OBVIOUS
  <1>1. r \in Runs(t, 0, Len(t), Digits)
    BY DEF DigitRuns
  <1>2. r[1] \in 0..(Len(t) - 1) /\ r[2] \in (r[1] + 1)..Len(t)
    BY <1>1, RunsAre DEF Stretches
  <1>3. r[1] \in Nat /\ r[2] \in Int /\ r[1] < r[2] /\ r[2] <= Len(t)
    BY <1>0, <1>2
  <1>4. ASSUME r[2] < Len(t)
        PROVE  LET f == DigitsFrom(t, r[2] + 1)[2] IN f \in Int /\ r[2] < f /\ f <= Len(t)
    <2>. DEFINE i == r[2] + 1
    <2>1. i \in 0..Len(t)
      BY <1>0, <1>3, <1>4
    <2>2. FirstNot(t, i, Digits) \in i..Len(t)
      BY <2>1, FirstNotIs
    <2>3. DigitsFrom(t, i)[2] = FirstNot(t, i, Digits) \/ DigitsFrom(t, i)[2] = i
      BY DEF DigitsFrom
    <2>. QED
      BY <1>0, <1>3, <1>4, <2>1, <2>2, <2>3
  <1>. QED
    BY <1>3, <1>4

\* times,
LEMMA ClocksQuiet == ASSUME NEW t \in Seq(Symbols) PROVE Quiet(t, Clocks(t))
  <1>. DEFINE e(r) == DigitsFrom(t, r[2] + 1)[2]
  <1>1. ASSUME NEW g \in Clocks(t)
        PROVE  \E r \in DigitRuns(t) : \E words :
                   r[2] < Len(t) /\ g = NumeralMark(t, "numeral", <<r[1], e(r)>>, words, "clock", "loc")
    BY DEF Clocks, Is
  <1>2. ASSUME NEW r \in DigitRuns(t), r[2] < Len(t) PROVE Part(<<r[1], e(r)>>)
    BY <1>2, DigitsLie DEF Part
  <1>. HIDE DEF e
  <1>3. ASSUME NEW g \in Clocks(t)
        PROVE  IsNumeral(t, g)
    <2>0. PICK r \in DigitRuns(t) : \E words : r[2] < Len(t) /\ g = NumeralMark(t, "numeral", <<r[1], e(r)>>, words, "clock", "loc")
      BY <1>1
    <2>1. PICK words : r[2] < Len(t) /\ g = NumeralMark(t, "numeral", <<r[1], e(r)>>, words, "clock", "loc")
      BY <2>0
    <2>. DEFINE s == <<r[1], e(r)>>
    <2>2. Part(s)
      BY <1>2, <2>1
    <2>. HIDE DEF s
    <2>3. g = NumeralMark(t, "numeral", s, words, "clock", "loc")
      BY <2>1 DEF s
    <2>. QED
      BY <2>2, <2>3 DEF IsNumeral
  <1>. QED
    BY <1>3, NumeralQuiet

\* decimals,
LEMMA DecimalsQuiet == ASSUME NEW t \in Seq(Symbols) PROVE Quiet(t, Decimals(t))
  <1>. DEFINE e(r) == DigitsFrom(t, r[2] + 1)[2]
  <1>1. ASSUME NEW g \in Decimals(t)
        PROVE  \E r \in DigitRuns(t) : \E words :
                   r[2] < Len(t) /\ g = NumeralMark(t, "numeral", <<r[1], e(r)>>, words, "decimal", "")
    BY DEF Decimals, Is
  <1>2. ASSUME NEW r \in DigitRuns(t), r[2] < Len(t) PROVE Part(<<r[1], e(r)>>)
    BY <1>2, DigitsLie DEF Part
  <1>. HIDE DEF e
  <1>3. ASSUME NEW g \in Decimals(t)
        PROVE  IsNumeral(t, g)
    <2>0. PICK r \in DigitRuns(t) : \E words : r[2] < Len(t) /\ g = NumeralMark(t, "numeral", <<r[1], e(r)>>, words, "decimal", "")
      BY <1>1
    <2>1. PICK words : r[2] < Len(t) /\ g = NumeralMark(t, "numeral", <<r[1], e(r)>>, words, "decimal", "")
      BY <2>0
    <2>. DEFINE s == <<r[1], e(r)>>
    <2>2. Part(s)
      BY <1>2, <2>1
    <2>. HIDE DEF s
    <2>3. g = NumeralMark(t, "numeral", s, words, "decimal", "")
      BY <2>1 DEF s
    <2>. QED
      BY <2>2, <2>3 DEF IsNumeral
  <1>. QED
    BY <1>3, NumeralQuiet

\* Roman numerals,
LEMMA RomansQuiet == ASSUME NEW t \in Seq(Symbols), NEW heading PROVE Quiet(t, RomanNumerals(t, heading))
  <1>1. ASSUME NEW g \in RomanNumerals(t, heading)
        PROVE  \E kind \in {"ordinal_heading", "numeral"} : \E r \in Runs(t, 0, Len(t), Alnum) : \E words, reason, form :
                   g = NumeralMark(t, kind, r, words, reason, form)
    BY DEF RomanNumerals
  <1>2. ASSUME NEW r \in Runs(t, 0, Len(t), Alnum) PROVE Part(r)
    BY RunsAre, StretchPart
  <1>3. ASSUME NEW g \in RomanNumerals(t, heading)
        PROVE  IsNumeral(t, g)
    BY <1>1, <1>2 DEF IsNumeral
  <1>. QED
    BY <1>3, NumeralQuiet

\* numbers with a dot,
LEMMA DottedQuiet == ASSUME NEW t \in Seq(Symbols), NEW heading PROVE Quiet(t, Dotted(t, heading))
  <1>1. ASSUME NEW g \in Dotted(t, heading)
        PROVE  \E kind \in {"ordinal_heading", "numeral"} : \E r \in DigitRuns(t) : \E words, reason, form :
                   g = NumeralMark(t, kind, <<r[1], r[2] + 1>>, words, reason, form)
    BY DEF Dotted
  <1>2. ASSUME NEW r \in DigitRuns(t) PROVE Part(<<r[1], r[2] + 1>>)
    BY DigitsLie DEF Part
  <1>3. ASSUME NEW g \in Dotted(t, heading)
        PROVE  IsNumeral(t, g)
    <2>0. PICK kind \in {"ordinal_heading", "numeral"}, r \in DigitRuns(t) : \E words, reason, form : g = NumeralMark(t, kind, <<r[1], r[2] + 1>>, words, reason, form)
      BY <1>1
    <2>1. PICK words, reason, form : g = NumeralMark(t, kind, <<r[1], r[2] + 1>>, words, reason, form)
      BY <2>0
    <2>. DEFINE s == <<r[1], r[2] + 1>>
    <2>2. Part(s)
      BY <1>2, <2>1
    <2>. HIDE DEF s
    <2>3. g = NumeralMark(t, kind, s, words, reason, form)
      BY <2>1 DEF s
    <2>. QED
      BY <2>2, <2>3 DEF IsNumeral
  <1>. QED
    BY <1>3, NumeralQuiet

\* Numbers lie where they are read.
LEMMA IntegersLie ==
    ASSUME NEW t \in Seq(Symbols)
    PROVE  Stretches(t, IntegerMatches(t)) /\ AreApart(IntegerMatches(t))
  <1>. DEFINE n == Len(t)
              group(e) == Is(t, e, "sp") /\ \A k \in 1..3 : e + k < Len(t) /\ At(t, e + k) \in Digits
              ends(r) == {e \in r[2]..n : /\ (e - r[2]) % 4 = 0 /\ Over(t, e)
                                          /\ \A k \in 0..((e - r[2]) \div 4 - 1) : group(r[2] + 4 * k)}
              grouped(r) == IF r[2] - r[1] > 3 THEN {} ELSE {e \in ends(r) : e > r[2]}
              plain(r) == IF Over(t, r[2]) /\ r[2] - r[1] <= 12 THEN {r[2]} ELSE {}
              end(r) == grouped(r) \cup plain(r)
              R == {q \in DigitRuns(t) : end(q) # {}}
              M == {<<r[1], Max(end(r))>> : r \in R}
  <1>0. n \in Nat
    OBVIOUS
  <1>1. IntegerMatches(t) = Scan(M)
    BY DEF IntegerMatches
  <1>2. ASSUME NEW r \in R PROVE r \in DigitRuns(t) /\ end(r) # {} /\ end(r) \subseteq r[2]..n
    <2>1. ends(r) \subseteq r[2]..n
      OBVIOUS
    <2>2. r \in DigitRuns(t) /\ r[2] \in Int /\ r[2] <= n
      BY DigitsLie
    <2>3. plain(r) \subseteq r[2]..n
      BY <2>2, <1>0
    <2>. HIDE DEF ends, plain
    <2>. QED
      BY <2>1, <2>2, <2>3
  <1>. HIDE DEF end, R, n
  <1>3. ASSUME NEW r \in R
        PROVE  /\ r[1] \in Int /\ Max(end(r)) \in Int
               /\ r[1] \in 0..(n - 1) /\ Max(end(r)) \in (r[1] + 1)..n
    <2>1. r[1] \in Nat /\ r[2] \in Int /\ r[1] < r[2] /\ r[2] <= n
      BY <1>2, DigitsLie DEF n
    <2>2. end(r) \in SUBSET Int /\ end(r) # {} /\ \A k \in end(r) : k <= n
      BY <1>0, <1>2, <2>1
    <2>3. Max(end(r)) \in end(r)
      <3>. DEFINE T == end(r)
      <3>1. T \in SUBSET Int /\ T # {} /\ (\A k \in T : k <= n) /\ n \in Int
        BY <1>0, <2>2
      <3>. HIDE DEF T
      <3>2. Max(T) \in T
        BY <3>1, GreatestOf
      <3>. QED
        BY <3>2 DEF T
    <2>4. Max(end(r)) \in r[2]..n
      BY <1>2, <2>3
    <2>. QED
      BY <1>0, <2>1, <2>4
  <1>4. Stretches(t, M)
    <2>1. ASSUME NEW o \in M PROVE o \in Int \X Int /\ o[1] \in 0..(n - 1) /\ o[2] \in (o[1] + 1)..n
      <3>1. PICK r \in R : o = <<r[1], Max(end(r))>>
        OBVIOUS
      <3>. QED
        BY <3>1, <1>3
    <2>. HIDE DEF M
    <2>. QED
      BY <2>1 DEF Stretches, n
  <1>. HIDE DEF M
  <1>5. Scan(M) \subseteq M /\ AreApart(Scan(M))
    BY <1>4, ScanApart
  <1>. QED
    BY <1>1, <1>4, <1>5 DEF Stretches

\* and whole numbers.
LEMMA IntegersQuiet == ASSUME NEW t \in Seq(Symbols), NEW heading PROVE Quiet(t, IntegerNumerals(t, heading))
  <1>. DEFINE raw(m) == Slice(t, m[1], m[2])
              value(m) == Number(SelectSeq(raw(m), LAMBDA c : c # "sp"))
              solid(m) == "sp" \notin ToSet(raw(m))
              title(m) == heading /\ Bare(t, raw(m)) /\ solid(m) /\ value(m) <= 999999
              year(m) == solid(m) /\ IsYear(value(m), t, m[2])
              first(m) == Ordinal(value(m))
              many(m) == cardinal[value(m)]
              mark(m) == CASE title(m) -> NumeralMark(t, "ordinal_heading", m, first(m), "heading_ordinal", "m")
                           [] ~title(m) /\ year(m) -> NumeralMark(t, "numeral", m, first(m), "year", "m")
                           [] OTHER -> NumeralMark(t, "numeral", m, many(m), "cardinal", "")
  <1>1. IntegerNumerals(t, heading) = {mark(m) : m \in IntegerMatches(t)}
    BY SMT DEF IntegerNumerals
  <1>. HIDE DEF first, many, title, year
  <1>2. ASSUME NEW m, Part(m)
        PROVE  IsNumeral(t, mark(m))
    <2>1. CASE title(m)
      <3>1. mark(m) = NumeralMark(t, "ordinal_heading", m, first(m), "heading_ordinal", "m")
        BY <2>1
      <3>. QED
        BY <1>2, <3>1 DEF IsNumeral
    <2>2. CASE ~title(m) /\ year(m)
      <3>1. mark(m) = NumeralMark(t, "numeral", m, first(m), "year", "m")
        BY <2>2
      <3>. QED
        BY <1>2, <3>1 DEF IsNumeral
    <2>3. CASE ~title(m) /\ ~year(m)
      <3>1. mark(m) = NumeralMark(t, "numeral", m, many(m), "cardinal", "")
        BY <2>3
      <3>. QED
        BY <1>2, <3>1 DEF IsNumeral
    <2>. QED
      BY <2>1, <2>2, <2>3
  <1>. HIDE DEF mark
  <1>3. \A g \in IntegerNumerals(t, heading) : IsNumeral(t, g)
    <2>1. \A m \in IntegerMatches(t) : Part(m)
      BY IntegersLie, StretchPart
    <2>. QED
      BY <1>1, <1>2, <2>1
  <1>. QED
    BY <1>3, NumeralQuiet

\* What several such searches claim in turn leaves the text as it is.
LEMMA ClaimedQuiet ==
    ASSUME NEW t, NEW S, Len(S) \in Nat, \A k \in 1..Len(S) : Quiet(t, S[k])
    PROVE  Quiet(t, Claimed(S))
  <1>. DEFINE C == [k \in 1..Len(S) |-> {g \in S[k] : g.original # g.replacement}]
  <1>1. Claimed(S) = InTurn(C)
    BY DEF Claimed
  <1>2. Len(C) = Len(S) /\ \A k \in 1..Len(S) : C[k] \subseteq S[k]
    OBVIOUS
  <1>. HIDE DEF C
  <1>3. \A g \in InTurn(C) : \E k \in 1..Len(S) : g \in C[k]
    BY <1>2, InTurnFrom
  <1>. QED
    BY <1>1, <1>2, <1>3 DEF Quiet

\* All numerals together.
LEMMA NumeralsQuiet == ASSUME NEW t \in Seq(Symbols), NEW heading PROVE Quiet(t, NumeralSuggestions(t, heading))
  <1>. DEFINE S == <<Headings(t, heading), Clocks(t), Decimals(t), RomanNumerals(t, heading),
                     Dotted(t, heading), IntegerNumerals(t, heading)>>
  <1>1. Len(S) = 6 /\ \A k \in 1..6 : Quiet(t, S[k])
    BY HeadingsQuiet, ClocksQuiet, DecimalsQuiet, RomansQuiet, DottedQuiet, IntegersQuiet
  <1>2. NumeralSuggestions(t, heading) = Claimed(S)
    BY DEF NumeralSuggestions
  <1>. HIDE DEF S
  <1>. QED
    BY <1>1, <1>2, ClaimedQuiet

-----------------------------------------------------------------------------
(* The searches for words.                                                 *)

\* So are the places where a pattern occurs.
LEMMA OccurrencesLie ==
    ASSUME NEW t \in Seq(Symbols), NEW p, Len(p) \in Nat, Len(p) # 0
    PROVE  Stretches(t, Occurrences(t, p)) /\ Stretches(t, Bounded(t, Occurrences(t, p)))
  <1>. DEFINE n == Len(t)
              k == Len(p)
              at == {j \in 0..(n - k) : Slice(t, j, j + k) = p}
              M == {<<i, i + k>> : i \in at}
  <1>0. n \in Nat /\ k \in Nat /\ k # 0
    OBVIOUS
  <1>1. Occurrences(t, p) = M
    BY DEF Occurrences
  <1>2. at \subseteq 0..(n - k)
    OBVIOUS
  <1>. HIDE DEF at, n, k
  <1>3. ASSUME NEW o \in M PROVE o \in Int \X Int /\ o[1] \in 0..(n - 1) /\ o[2] \in (o[1] + 1)..n
    <2>1. PICK i \in at : o = <<i, i + k>>
      OBVIOUS
    <2>2. i \in 0..(n - k)
      BY <1>2
    <2>. QED
      BY <1>0, <2>1, <2>2
  <1>. HIDE DEF M
  <1>4. Stretches(t, M)
    BY <1>3 DEF Stretches, n
  <1>5. Bounded(t, M) \subseteq M
    BY DEF Bounded
  <1>. QED
    BY <1>1, <1>4, <1>5 DEF Stretches

\* Suggestions of one kind on some stretches.
Marking(t, M, kind, A) == /\ Stretches(t, M) /\ kind # "conversion_artifact"
                          /\ \A g \in A : \E s \in M : \E r, reason : g = Suggestion(t, kind, s, r, reason)

\* They leave the text as it is, and quote it.
LEMMA MarksQuiet ==
    ASSUME NEW t \in Seq(Symbols), NEW M, NEW kind, NEW A, Marking(t, M, kind, A)
    PROVE  Quiet(t, A)
  <1>1. ASSUME NEW g \in A PROVE Lies(t, g) /\ g.kind # "conversion_artifact"
    <2>1. PICK s \in M : \E r, reason : g = Suggestion(t, kind, s, r, reason)
      BY DEF Marking
    <2>2. PICK r, reason : g = Suggestion(t, kind, s, r, reason)
      BY <2>1
    <2>3. Part(s) /\ kind # "conversion_artifact"
      BY StretchPart DEF Marking
    <2>. QED
      BY <2>2, <2>3, SuggestionIs
  <1>. QED
    BY <1>1 DEF Quiet

\* The searches for words, one by one: toponyms,
LEMMA ToponymsQuiet == ASSUME NEW t \in Seq(Symbols) PROVE Quiet(t, ToponymMarks(t))
  <1>. DEFINE of(p) == {Suggestion(t, "toponym", s, p.spoken, "toponym") : s \in Bounded(t, Occurrences(t, p.surface))}
              marks(n) == UNION {of(p) : p \in {q \in Toponyms : Len(q.surface) = n}}
              T == <<marks(4), marks(1)>>
  <1>1. ASSUME NEW p, Len(p.surface) \in Nat, Len(p.surface) # 0 PROVE Quiet(t, of(p))
    <2>. DEFINE M == Bounded(t, Occurrences(t, p.surface))
    <2>1. Stretches(t, M)
      BY <1>1, OccurrencesLie
    <2>2. \A g \in of(p) : \E s \in M : \E r, reason : g = Suggestion(t, "toponym", s, r, reason)
      OBVIOUS
    <2>3. "toponym" # "conversion_artifact"
      OBVIOUS
    <2>. HIDE DEF M, of
    <2>4. Marking(t, M, "toponym", of(p))
      BY <2>1, <2>2, <2>3 DEF Marking
    <2>. QED
      BY <2>4, MarksQuiet
  <1>. HIDE DEF of
  <1>2. ASSUME NEW n \in Nat, n # 0 PROVE Quiet(t, marks(n))
    BY <1>1, <1>2 DEF Quiet
  <1>3. ToponymMarks(t) = Claimed(T)
    BY DEF ToponymMarks, of
  <1>. HIDE DEF marks
  <1>4. Len(T) = 2 /\ \A k \in 1..2 : Quiet(t, T[k])
    BY <1>2
  <1>. HIDE DEF T
  <1>. QED
    BY <1>3, <1>4, ClaimedQuiet

\* acronyms,
LEMMA AcronymsQuiet == ASSUME NEW t \in Seq(Symbols) PROVE Quiet(t, AcronymMarks(t))
  <1>. DEFINE M == Runs(t, 0, Len(t), Letters)
              A == AcronymMarks(t)
  <1>1. \A g \in A : \E s \in M : \E r, reason : g = Suggestion(t, "acronym", s, r, reason)
    BY DEF AcronymMarks
  <1>2. Stretches(t, M)
    BY RunsAre
  <1>3. "acronym" # "conversion_artifact"
    OBVIOUS
  <1>. HIDE DEF M, A
  <1>4. Marking(t, M, "acronym", A)
    BY <1>1, <1>2, <1>3 DEF Marking
  <1>. QED
    BY <1>4, MarksQuiet DEF A

\* Words are stretches of the text.
LEMMA WordsLie ==
    ASSUME NEW t \in Seq(Symbols), NEW w \in ToSet(Words(t, 0, Len(t), WordExtra))
    PROVE  w \in Int \X Int /\ w[1] \in 0..(Len(t) - 1) /\ w[2] \in (w[1] + 1)..Len(t)
  <1>. DEFINE n == Len(t)
              Q == {q \in Runs(t, 0, n, Alnum \cup WordExtra) : \E i \in q[1]..(q[2] - 1) : At(t, i) \in Alnum}
              f(r) == FirstNot(t, r[1], WordExtra)
              W == {<<f(r), r[2]>> : r \in Q}
              L == InOrder(W)
  <1>0. n \in Nat
    OBVIOUS
  <1>1. Words(t, 0, n, WordExtra) = L
    BY DEF Words
  <1>2. ASSUME NEW r \in Q
        PROVE  f(r) \in Int /\ r[2] \in Int /\ f(r) \in 0..(n - 1) /\ r[2] \in (f(r) + 1)..n
    <2>1. r \in Runs(t, 0, n, Alnum \cup WordExtra)
      OBVIOUS
    <2>2. r[1] \in 0..(n - 1) /\ r[2] \in (r[1] + 1)..n
      BY <2>1, RunsAre DEF Stretches
    <2>3. PICK i \in r[1]..(r[2] - 1) : At(t, i) \in Alnum
      OBVIOUS
    <2>4. At(t, i) \notin WordExtra
      BY <2>3, Classes DEF WordExtra, Dashes
    <2>5. r[1] \in 0..n
      BY <1>0, <2>2
    <2>. HIDE DEF Q, n
    <2>6. f(r) \in r[1]..n /\ \A j \in r[1]..(f(r) - 1) : At(t, j) \in WordExtra
      BY <2>5, FirstNotIs DEF n
    <2>. HIDE DEF f
    <2>7. i \notin r[1]..(f(r) - 1)
      BY <2>4, <2>6
    <2>. QED
      BY <1>0, <2>2, <2>3, <2>6, <2>7
  <1>. HIDE DEF f, Q, n
  <1>3. ASSUME NEW o \in W PROVE o \in Int \X Int /\ o[1] \in 0..(n - 1) /\ o[2] \in (o[1] + 1)..n
    <2>1. PICK r \in Q : o = <<f(r), r[2]>>
      OBVIOUS
    <2>. QED
      BY <1>2, <2>1
  <1>. HIDE DEF W
  <1>4. Stretches(t, W)
    BY <1>3 DEF Stretches, n
  <1>5. DOMAIN L = 1..Len(L) /\ \A k \in 1..Len(L) : L[k] \in W
    BY <1>4, OrderListed
  <1>. HIDE DEF L
  <1>6. ToSet(L) \subseteq W
    BY <1>5 DEF ToSet
  <1>. QED
    BY <1>1, <1>3, <1>6 DEF n

\* and foreign words.
LEMMA ForeignQuiet == ASSUME NEW t \in Seq(Symbols) PROVE Quiet(t, ForeignMarks(t))
  <1>. DEFINE W == ToSet(Words(t, 0, Len(t), WordExtra))
              M == {<<r[1], r[2]>> : r \in W}
              A == ForeignMarks(t)
  <1>1. \A g \in A : \E s \in M : \E r, reason : g = Suggestion(t, "foreign_word", s, r, reason)
    BY DEF ForeignMarks
  <1>2. \A w \in W : w \in Int \X Int /\ w[1] \in 0..(Len(t) - 1) /\ w[2] \in (w[1] + 1)..Len(t)
    BY WordsLie
  <1>. HIDE DEF W
  <1>3. Stretches(t, M)
    BY <1>2 DEF Stretches
  <1>4. "foreign_word" # "conversion_artifact"
    OBVIOUS
  <1>. HIDE DEF M, A
  <1>5. Marking(t, M, "foreign_word", A)
    BY <1>1, <1>3, <1>4 DEF Marking
  <1>. QED
    BY <1>5, MarksQuiet DEF A

\* Toponyms, acronyms and foreign words.
LEMMA LexicalQuiet == ASSUME NEW t \in Seq(Symbols) PROVE Quiet(t, LexicalSuggestions(t))
  <1>. DEFINE S == <<ToponymMarks(t), AcronymMarks(t), ForeignMarks(t)>>
  <1>1. LexicalSuggestions(t) = Claimed(S)
    BY DEF LexicalSuggestions
  <1>2. Len(S) = 3 /\ \A k \in 1..3 : Quiet(t, S[k])
    BY ToponymsQuiet, AcronymsQuiet, ForeignQuiet
  <1>. HIDE DEF S
  <1>. QED
    BY <1>1, <1>2, ClaimedQuiet

-----------------------------------------------------------------------------
(* The rules of the lexicon.                                               *)

\* One of three numbers in a row is less, and those before it are the same.
Precedes(a, b) == \E m \in 1..3 : a[m] < b[m] /\ \A l \in 1..(m - 1) : a[l] = b[l]

\* It is a strict order.
LEMMA PrecedesOrders ==
    ASSUME NEW a, a \in Int \X Int \X Int, NEW b, b \in Int \X Int \X Int, NEW c, c \in Int \X Int \X Int
    PROVE  /\ ~Precedes(a, a)
           /\ Precedes(a, b) /\ Precedes(b, c) => Precedes(a, c)
           /\ a # b => Precedes(a, b) \/ Precedes(b, a)
  <1>1. ASSUME NEW x, x \in Int \X Int \X Int, NEW y, y \in Int \X Int \X Int
        PROVE  Precedes(x, y) <=> \/ x[1] < y[1]
                                  \/ x[1] = y[1] /\ x[2] < y[2]
                                  \/ x[1] = y[1] /\ x[2] = y[2] /\ x[3] < y[3]
    <2>1. Precedes(x, y) <=> \/ x[1] < y[1] /\ \A l \in 1..0 : x[l] = y[l]
                             \/ x[2] < y[2] /\ \A l \in 1..1 : x[l] = y[l]
                             \/ x[3] < y[3] /\ \A l \in 1..2 : x[l] = y[l]
      BY DEF Precedes
    <2>2. 1..0 = {} /\ 1..1 = {1} /\ 1..2 = {1, 2}
      OBVIOUS
    <2>. QED
      BY <2>1, <2>2
  <1>2. \A x \in {a, b, c} : x[1] \in Int /\ x[2] \in Int /\ x[3] \in Int /\ x = <<x[1], x[2], x[3]>>
    OBVIOUS
  <1>3. ~Precedes(a, a)
    BY <1>1, <1>2
  <1>4. Precedes(a, b) /\ Precedes(b, c) => Precedes(a, c)
    BY <1>1, <1>2
  <1>5. a # b => Precedes(a, b) \/ Precedes(b, a)
    BY <1>1, <1>2
  <1>. QED
    BY <1>3, <1>4, <1>5

\* Patterns are sequences of symbols, and priorities numbers.
LEMMA LexiconRules ==
    \A i \in 1..Len(Lexicon) : Lexicon[i].priority \in Int /\ Lexicon[i].pattern \in Seq(Symbols)
  <1>. DEFINE Rules == [pattern : Seq(Symbols), spoken : Seq(Symbols), regex : BOOLEAN, project : BOOLEAN, priority : Int]
  <1>1. Lexicon \in Seq(Rules)
    BY LexiconAssumption
  <1>2. \A r \in Rules : r.priority \in Int /\ r.pattern \in Seq(Symbols)
    OBVIOUS
  <1>. HIDE DEF Rules
  <1>3. \A i \in 1..Len(Lexicon) : Lexicon[i] \in Rules
    BY <1>1
  <1>. QED
    BY <1>2, <1>3

\* Rules are put in order, and none is made up.
LEMMA RulesAre ==
    /\ Len(EffectiveRules) \in Nat
    /\ \A k \in 1..Len(EffectiveRules) : \E i \in 1..Len(Lexicon) : EffectiveRules[k] = Lexicon[i]
  <1>. DEFINE N == Len(Lexicon)
              alike(i) == {j \in 1..N : /\ Lexicon[j].pattern = Lexicon[i].pattern
                                        /\ Lexicon[j].regex = Lexicon[i].regex}
              own(i) == {j \in alike(i) : Lexicon[j].project}
              chosen == {i \in 1..N : i = IF own(i) = {} THEN Min(alike(i)) ELSE Min(own(i))}
              key(i) == <<Lexicon[i].priority, -Len(Lexicon[i].pattern), Min(alike(i))>>
              before(i, j) == \E m \in 1..3 : key(i)[m] < key(j)[m] /\ \A l \in 1..(m - 1) : key(i)[l] = key(j)[l]
              n == Cardinality(chosen)
              order == [k \in 1..n |-> CHOOSE x \in chosen : Cardinality({y \in chosen : before(y, x)}) = k - 1]
              R == {p \in chosen \X chosen : Precedes(key(p[1]), key(p[2]))}
  <1>1. N \in Nat
    BY LexiconAssumption
  <1>2. EffectiveRules = [k \in 1..Len(order) |-> Lexicon[order[k]]]
    BY DEF EffectiveRules, Ranked
  <1>3. \A i \in 1..N : Lexicon[i].priority \in Int /\ Len(Lexicon[i].pattern) \in Nat
    <2>1. \A i \in 1..N : Lexicon[i].priority \in Int /\ Lexicon[i].pattern \in Seq(Symbols)
      BY LexiconRules
    <2>. HIDE DEF N
    <2>. QED
      BY <2>1
  <1>4. ASSUME NEW i \in 1..N PROVE Min(alike(i)) \in alike(i) /\ Min(alike(i)) \in 1..N
    <2>. DEFINE T == alike(i)
    <2>1. i \in T /\ T \subseteq 1..N
      OBVIOUS
    <2>. HIDE DEF T
    <2>2. T \in SUBSET Int /\ T # {} /\ \A k \in T : 0 <= k
      BY <2>1, <1>1
    <2>3. Min(T) \in T
      <3>1. 0 \in Int
        OBVIOUS
      <3>. QED
        BY <2>2, <3>1, LeastOf
    <2>. QED
      BY <2>1, <2>3 DEF T
  <1>5. \A i \in 1..N : key(i) \in Int \X Int \X Int
    <2>. HIDE DEF alike
    <2>. QED
      BY <1>1, <1>3, <1>4
  <1>6. \A i, j \in chosen : i # j => key(i) # key(j)
    <2>. SUFFICES ASSUME NEW i \in chosen, NEW j \in chosen, key(i) = key(j) PROVE i = j
      OBVIOUS
    <2>1. Min(alike(i)) = Min(alike(j))
      <3>. HIDE DEF alike, chosen
      <3>. QED
        OBVIOUS
    <2>2. i \in 1..N /\ j \in 1..N
      OBVIOUS
    <2>3. Min(alike(i)) \in alike(i) /\ Min(alike(i)) \in alike(j)
      <3>. HIDE DEF alike, chosen, key
      <3>. QED
        BY <1>4, <2>1, <2>2
    <2>. DEFINE m == Min(alike(i))
    <2>. HIDE DEF m
    <2>4. m \in alike(i) /\ m \in alike(j)
      BY <2>3 DEF m
    <2>5. Lexicon[i].pattern = Lexicon[j].pattern /\ Lexicon[i].regex = Lexicon[j].regex
      BY <2>4
    <2>6. alike(i) = alike(j)
      BY <2>5
    <2>7. own(i) = own(j)
      <3>. HIDE DEF alike
      <3>. QED
        BY <2>6
    <2>8. i = (IF own(i) = {} THEN Min(alike(i)) ELSE Min(own(i))) /\ j = (IF own(j) = {} THEN Min(alike(j)) ELSE Min(own(j)))
      OBVIOUS
    <2>. HIDE DEF own, alike
    <2>. QED
      BY <2>6, <2>7, <2>8
  <1>7. chosen \subseteq 1..N
    OBVIOUS
  <1>8. \A x, y \in chosen : <<x, y>> \in R <=> before(x, y)
    <2>1. \A x, y : before(x, y) <=> Precedes(key(x), key(y))
      BY DEF Precedes
    <2>. HIDE DEF before, key, chosen
    <2>. QED
      BY <2>1
  <1>9. \A x, y \in chosen : <<x, y>> \in R <=> Precedes(key(x), key(y))
    <2>. HIDE DEF key, chosen
    <2>. QED
      OBVIOUS
  <1>. HIDE DEF key, chosen, before, R
  <1>10. Ordering(R, chosen)
    <2>. DEFINE K == Int \X Int \X Int
    <2>1. \A x \in chosen : key(x) \in K
      BY <1>5, <1>7
    <2>2a. ASSUME NEW a \in K PROVE ~Precedes(a, a)
      BY PrecedesOrders
    <2>2b. ASSUME NEW a \in K, NEW b \in K, a # b PROVE Precedes(a, b) \/ Precedes(b, a)
      BY <2>2b, PrecedesOrders
    <2>2c. ASSUME NEW a \in K, NEW b \in K, NEW c \in K, Precedes(a, b), Precedes(b, c) PROVE Precedes(a, c)
      BY <2>2c, PrecedesOrders
    <2>. HIDE DEF K
    <2>3. \A x \in chosen : <<x, x>> \notin R
      BY <1>9, <2>1, <2>2a
    <2>4. \A x, y \in chosen : x # y => <<x, y>> \in R \/ <<y, x>> \in R
      BY <1>6, <1>9, <2>1, <2>2b
    <2>5. \A x, y, z \in chosen : <<x, y>> \in R /\ <<y, z>> \in R => <<x, z>> \in R
      <3>. SUFFICES ASSUME NEW x \in chosen, NEW y \in chosen, NEW z \in chosen, <<x, y>> \in R, <<y, z>> \in R
                    PROVE  <<x, z>> \in R
        OBVIOUS
      <3>1. Precedes(key(x), key(y)) /\ Precedes(key(y), key(z))
        BY <1>9
      <3>2. key(x) \in K /\ key(y) \in K /\ key(z) \in K
        BY <2>1
      <3>3. Precedes(key(x), key(z))
        BY <2>2c, <3>1, <3>2
      <3>. QED
        BY <1>9, <3>3
    <2>. QED
      BY <2>3, <2>4, <2>5 DEF Ordering
  <1>11. \A x \in chosen : Below(R, chosen, x) = {y \in chosen : before(y, x)}
    BY <1>8 DEF Below
  <1>12. IsFiniteSet(chosen)
    <2>1. IsFiniteSet(1..N)
      BY <1>1, FS_Interval
    <2>. QED
      BY <2>1, <1>7, FS_Subset
  <1>13. n \in Nat /\ \A k \in 1..n : \E x \in chosen : Cardinality(Below(R, chosen, x)) = k - 1
    BY <1>10, <1>12, Listed
  <1>14. ASSUME NEW k \in 1..n PROVE order[k] \in chosen
    <2>1. \E x \in chosen : Cardinality({y \in chosen : before(y, x)}) = k - 1
      BY <1>11, <1>13
    <2>. QED
      BY <2>1
  <1>15. Len(order) = n
    BY <1>13
  <1>. HIDE DEF order, n, N
  <1>16. Len(EffectiveRules) = n /\ \A k \in 1..n : EffectiveRules[k] = Lexicon[order[k]]
    BY <1>2, <1>13, <1>15
  <1>. QED
    BY <1>7, <1>13, <1>14, <1>16 DEF N

\* What the lexicon reads lies on its words.
LEMMA LexiconQuiet == ASSUME NEW t \in Seq(Symbols) PROVE Quiet(t, LexiconSuggestions(t))
  <1>. DEFINE found(r) == IF r.regex THEN Occurrences(t, r.pattern) ELSE Bounded(t, Occurrences(t, r.pattern))
              spans(r) == IF r.pattern = <<>> THEN {} ELSE Scan(found(r))
              marks(r) == {Suggestion(t, "dict_hit", s, r.spoken, "lexicon") : s \in spans(r)}
              S == [k \in 1..Len(EffectiveRules) |-> marks(EffectiveRules[k])]
  <1>1. LexiconSuggestions(t) = InTurn(S)
    BY DEF LexiconSuggestions
  <1>2. ASSUME NEW r, r.pattern \in Seq(Symbols) PROVE Quiet(t, marks(r))
    <2>. DEFINE M == spans(r)
                A == marks(r)
    <2>1. CASE r.pattern = <<>>
      <3>1. A = {}
        BY <2>1
      <3>. HIDE DEF A
      <3>. QED
        BY <3>1 DEF Quiet, A
    <2>2. CASE r.pattern # <<>>
      <3>1. Len(r.pattern) \in Nat /\ Len(r.pattern) # 0
        BY <1>2, <2>2
      <3>2. Stretches(t, found(r))
        BY <3>1, OccurrencesLie
      <3>. HIDE DEF found
      <3>3. Scan(found(r)) \subseteq found(r)
        BY <3>2, ScanApart
      <3>4. M = Scan(found(r))
        BY <2>2
      <3>. HIDE DEF spans, M
      <3>5. Stretches(t, M)
        BY <3>2, <3>3, <3>4 DEF Stretches
      <3>6. \A g \in A : \E s \in M : \E q, reason : g = Suggestion(t, "dict_hit", s, q, reason)
        BY DEF M
      <3>7. "dict_hit" # "conversion_artifact"
        OBVIOUS
      <3>. HIDE DEF A
      <3>8. Marking(t, M, "dict_hit", A)
        BY <3>5, <3>6, <3>7 DEF Marking
      <3>. QED
        BY <3>8, MarksQuiet DEF A
    <2>. QED
      BY <2>1, <2>2
  <1>. HIDE DEF marks
  <1>3. \A i \in 1..Len(Lexicon) : Lexicon[i].pattern \in Seq(Symbols)
    BY LexiconRules
  <1>4. Len(S) \in Nat /\ \A k \in 1..Len(S) : Quiet(t, S[k])
    BY <1>2, <1>3, RulesAre
  <1>. HIDE DEF S
  <1>5. \A g \in InTurn(S) : \E k \in 1..Len(S) : g \in S[k]
    BY <1>4, InTurnFrom
  <1>. QED
    BY <1>1, <1>4, <1>5 DEF Quiet

-----------------------------------------------------------------------------
(* The rewrites that are proposed for a block.                             *)

\* Finitely many rewrites, each at a place of its own.
Placed(A) == /\ IsFiniteSet(A)
             /\ \A g \in A : g.start \in Nat /\ g.end \in Nat /\ g.replacement \in Seq(Symbols)
             /\ \A g, h \in A : g # h => g.start # h.start

\* The rewrites among some suggestions, in one block.
RewritesAt(G, b) == {g \in G : g.block = b /\ g.kind = "conversion_artifact"}

\* Rewrites that do not overlap start at different places.
LEMMA RewritingPlaced ==
    ASSUME NEW t \in Seq(Symbols), NEW A, Rewriting(t, A)
    PROVE  Placed(A)
  <1>1. Len(t) \in Nat
    OBVIOUS
  <1>2. ASSUME NEW g \in A
        PROVE  g.start \in 0..Len(t) /\ g.end \in Nat /\ g.start < g.end /\ g.replacement \in Seq(Symbols)
    <2>1. g.start \in 0..(Len(t) - 1) /\ g.end \in (g.start + 1)..Len(t) /\ g.replacement \in Seq(Symbols)
      BY DEF Rewriting
    <2>. QED
      BY <1>1, <2>1
  <1>3. ASSUME NEW g \in A, NEW h \in A, g # h PROVE g.start # h.start
    <2>1. ~Overlap(SpanOf(g), SpanOf(h))
      BY <1>3 DEF Rewriting, NoOverlap
    <2>2. ~(g.start < h.end /\ h.start < g.end)
      BY <2>1 DEF Overlap, SpanOf
    <2>. QED
      BY <2>2, <1>2
  <1>. DEFINE f == [g \in A |-> g.start]
  <1>4. f \in Injection(A, 0..Len(t))
    <2>1. f \in [A -> 0..Len(t)] /\ \A g, h \in A : f[g] = f[h] => g = h
      BY <1>2, <1>3
    <2>. HIDE DEF f
    <2>. QED
      BY <2>1 DEF Injection, IsInjective
  <1>5. IsFiniteSet(A)
    <2>1. IsFiniteSet(0..Len(t))
      BY <1>1, FS_Interval
    <2>. HIDE DEF f
    <2>. QED
      BY <2>1, <1>4, FS_Injection
  <1>. QED
    BY <1>2, <1>3, <1>5 DEF Placed

\* A part of them does, too.
LEMMA PlacedPart == ASSUME NEW A, Placed(A), NEW B, B \subseteq A PROVE Placed(B)
  BY FS_Subset DEF Placed

\* A suggestion in another block.
LEMMA MovedIs ==
    ASSUME NEW g, Suggested(g), NEW b, NEW h, h = [g EXCEPT !.block = b]
    PROVE  /\ Suggested(h) /\ h.block = b /\ h.kind = g.kind /\ h.start = g.start /\ h.end = g.end
           /\ h.replacement = g.replacement /\ h.original = g.original
  BY DEF Suggested

\* Moved to their block they still fit.
LEMMA InBlockRewriting ==
    ASSUME NEW t, NEW A, Rewriting(t, A), NEW b
    PROVE  Rewriting(t, InBlock(b, A))
  <1>. DEFINE B == InBlock(b, A)
  <1>1. \A h \in B : \E g \in A : h = [g EXCEPT !.block = b]
    BY DEF InBlock
  <1>. HIDE DEF B
  <1>2. ASSUME NEW h, NEW g \in A, h = [g EXCEPT !.block = b]
        PROVE  /\ Suggested(h) /\ h.kind = g.kind /\ h.start = g.start /\ h.end = g.end
               /\ h.original = g.original /\ h.replacement = g.replacement
    <2>1. Suggested(g)
      BY DEF Rewriting
    <2>. QED
      BY <1>2, <2>1, MovedIs
  <1>3. ASSUME NEW h \in B
        PROVE  /\ Suggested(h) /\ h.kind = "conversion_artifact"
               /\ h.start \in 0..(Len(t) - 1) /\ h.end \in (h.start + 1)..Len(t)
               /\ h.original = Slice(t, h.start, h.end)
               /\ h.replacement \in Seq(Symbols)
    <2>1. PICK g \in A : h = [g EXCEPT !.block = b]
      BY <1>1
    <2>2. /\ Suggested(h) /\ h.kind = g.kind /\ h.start = g.start /\ h.end = g.end
          /\ h.original = g.original /\ h.replacement = g.replacement
      BY <1>2, <2>1
    <2>. QED
      BY <2>2 DEF Rewriting
  <1>4. ASSUME NEW h \in B, NEW k \in B, h # k PROVE ~Overlap(SpanOf(h), SpanOf(k))
    <2>1. PICK g \in A : h = [g EXCEPT !.block = b]
      BY <1>1
    <2>2. PICK o \in A : k = [o EXCEPT !.block = b]
      BY <1>1
    <2>3. g # o
      BY <2>1, <2>2, <1>4
    <2>4. h.start = g.start /\ h.end = g.end /\ k.start = o.start /\ k.end = o.end
      BY <1>2, <2>1, <2>2
    <2>5. ~Overlap(SpanOf(g), SpanOf(o))
      BY <2>3 DEF Rewriting, NoOverlap
    <2>. QED
      BY <2>4, <2>5 DEF SpanOf
  <1>5. Rewriting(t, B)
    BY <1>3, <1>4 DEF Rewriting, NoOverlap
  <1>. QED
    BY <1>5 DEF B

\* So does a part of them.
LEMMA RewritingPart == ASSUME NEW t, NEW A, Rewriting(t, A), NEW B, B \subseteq A PROVE Rewriting(t, B)
  BY DEF Rewriting, NoOverlap

\* The chapters that are read.
Readable(texts) == Len(texts) \in Nat /\ \A b \in 1..Len(texts) : texts[b] \in Seq(Symbols)

\* A proposed tiling leaves the text as it is.
LEMMA SplitsQuiet == ASSUME NEW t \in Seq(Symbols) PROVE Quiet(t, Splits(t))
  <1>0. Part(<<0, Len(t)>>)
    BY DEF Part
  <1>1. ASSUME NEW g, NEW p, g = SplitSuggestion(t, p) PROVE Lies(t, g) /\ g.kind = "dialogue_split"
    <2>. DEFINE s == <<0, Len(t)>>
                x == Suggestion(t, "dialogue_split", s, <<>>, p.reason)
    <2>1. g = [x EXCEPT !.segments = p.segments]
      BY <1>1 DEF SplitSuggestion
    <2>2. Lies(t, x) /\ x.kind = "dialogue_split"
      BY <1>0, SuggestionIs
    <2>. HIDE DEF x
    <2>. QED
      BY <2>1, <2>2 DEF Suggested, Lies
  <1>2. \A g \in Splits(t) : \E p : g = SplitSuggestion(t, p)
    BY DEF Splits
  <1>. QED
    BY <1>1, <1>2 DEF Quiet

\* So does a speaker.
LEMMA SpeakerMarkIs ==
    ASSUME NEW t, NEW g
    PROVE  SpeakerMark(t, g).kind = "speaker_gender"
  BY DEF SpeakerMark, Suggestion

\* What one block gives: its artefacts, and nothing else that changes the text.
LEMMA BlockGives ==
    ASSUME NEW t \in Seq(Symbols), NEW heading, NEW skipped, NEW g \in BlockSuggestions(t, heading, skipped)
    PROVE  g \in Artefacts(t) \/ (Lies(t, g) /\ g.kind # "conversion_artifact")
  <1>1. g \in Artefacts(t) \/ g \in Splits(t) \/ g \in BesideNumerals(t, NumeralSuggestions(t, heading))
    BY DEF BlockSuggestions
  <1>2. g \in BesideNumerals(t, NumeralSuggestions(t, heading)) =>
            g \in NumeralSuggestions(t, heading) \/ g \in LexicalSuggestions(t)
    BY DEF BesideNumerals, Adding, Apart
  <1>. QED
    BY <1>1, <1>2, SplitsQuiet, NumeralsQuiet, LexicalQuiet DEF Quiet

\* What the pre-pass proposes for a block is one of its artefacts, or lies on its words.
LEMMA PrepassGives ==
    ASSUME NEW texts, Readable(texts), NEW titles, NEW g \in Prepass(texts, titles),
           g.kind = "conversion_artifact" \/ g.kind \in Pronounced
    PROVE  /\ g.block \in 1..Len(texts)
           /\ \/ g \in InBlock(g.block, Artefacts(texts[g.block]))
              \/ g.kind # "conversion_artifact" /\ Lies(texts[g.block], g)
  <1>. DEFINE skips == SkipCandidates(texts)
              M == MarksOf(texts, titles, skips)
              H == Hits(texts, DOMAIN skips)
  <1>1. Prepass(texts, titles) = Settled(M, H)
    BY DEF Prepass, Proposed
  <1>2. g.kind # "skip" /\ g.kind # "speaker_gender"
    BY DEF Pronounced
  <1>3. ASSUME NEW c \in 1..Len(texts), NEW x, g = [x EXCEPT !.block = c],
               x \in Artefacts(texts[c]) \/ (Lies(texts[c], x) /\ x.kind # "conversion_artifact")
        PROVE  /\ g.block \in 1..Len(texts)
               /\ \/ g \in InBlock(g.block, Artefacts(texts[g.block]))
                  \/ g.kind # "conversion_artifact" /\ Lies(texts[g.block], g)
    <2>1. texts[c] \in Seq(Symbols)
      BY DEF Readable
    <2>2. \A y \in Artefacts(texts[c]) : Suggested(y)
      <3>1. Rewriting(texts[c], Artefacts(texts[c]))
        BY <2>1, ArtefactsAre
      <3>. QED
        BY <3>1 DEF Rewriting
    <2>3. Suggested(x)
      BY <1>3, <2>2 DEF Lies
    <2>4. /\ Suggested(g) /\ g.block = c /\ g.kind = x.kind /\ g.start = x.start /\ g.end = x.end
          /\ g.original = x.original
      BY <1>3, <2>3, MovedIs
    <2>5. CASE x \in Artefacts(texts[c])
      <3>1. g \in InBlock(c, Artefacts(texts[c]))
        BY <1>3, <2>5 DEF InBlock
      <3>. QED
        BY <2>4, <3>1
    <2>6. CASE Lies(texts[c], x) /\ x.kind # "conversion_artifact"
      <3>1. Lies(texts[c], g)
        BY <2>4, <2>6 DEF Lies
      <3>. QED
        BY <2>4, <2>6, <3>1
    <2>. QED
      BY <1>3, <2>5, <2>6
  <1>4. CASE g \in M
    <2>. DEFINE block(c) == BlockSuggestions(texts[c], c \in titles, c \in DOMAIN skips)
    <2>1. \/ \E c \in DOMAIN skips : g \in InBlock(c, {Skip(texts[c], skips[c])})
          \/ \E c \in 1..Len(texts) : g \in InBlock(c, block(c))
          \/ \E o \in ToSet(GenderReadings(texts)) : g = SpeakerMark(texts[o.block], o)
      BY <1>4 DEF MarksOf
    <2>. HIDE DEF skips, M
    <2>2. ASSUME NEW c \in DOMAIN skips, g \in InBlock(c, {Skip(texts[c], skips[c])}) PROVE FALSE
      <3>. DEFINE x == Skip(texts[c], skips[c])
      <3>1. g = [x EXCEPT !.block = c]
        BY <2>2 DEF InBlock
      <3>2. Suggested(x) /\ x.kind = "skip"
        BY SuggestionIs DEF Skip
      <3>. HIDE DEF x
      <3>. QED
        BY <3>1, <3>2, <1>2, MovedIs
    <2>3. ASSUME NEW o \in ToSet(GenderReadings(texts)), g = SpeakerMark(texts[o.block], o) PROVE FALSE
      BY <2>3, <1>2, SpeakerMarkIs
    <2>4. ASSUME NEW c \in 1..Len(texts), g \in InBlock(c, block(c))
          PROVE  \E x : /\ g = [x EXCEPT !.block = c]
                        /\ x \in Artefacts(texts[c]) \/ (Lies(texts[c], x) /\ x.kind # "conversion_artifact")
      <3>1. PICK x \in block(c) : g = [x EXCEPT !.block = c]
        BY <2>4 DEF InBlock
      <3>2. texts[c] \in Seq(Symbols)
        BY DEF Readable
      <3>3. x \in Artefacts(texts[c]) \/ (Lies(texts[c], x) /\ x.kind # "conversion_artifact")
        BY <3>2, BlockGives
      <3>. QED
        BY <3>1, <3>3
    <2>. HIDE DEF block
    <2>5. PICK c \in 1..Len(texts) : g \in InBlock(c, block(c))
      BY <2>1, <2>2, <2>3
    <2>6. PICK x : /\ g = [x EXCEPT !.block = c]
                   /\ x \in Artefacts(texts[c]) \/ (Lies(texts[c], x) /\ x.kind # "conversion_artifact")
      BY <2>4, <2>5
    <2>. QED
      BY <1>3, <2>6
  <1>5. CASE g \in H
    <2>1. PICK c \in (1..Len(texts)) \ DOMAIN skips : g \in InBlock(c, LexiconSuggestions(texts[c]))
      BY <1>5 DEF Hits
    <2>2. PICK x \in LexiconSuggestions(texts[c]) : g = [x EXCEPT !.block = c]
      BY <2>1 DEF InBlock
    <2>3. texts[c] \in Seq(Symbols)
      BY DEF Readable
    <2>4. Lies(texts[c], x) /\ x.kind # "conversion_artifact"
      BY <2>3, LexiconQuiet DEF Quiet
    <2>5. c \in 1..Len(texts)
      OBVIOUS
    <2>. QED
      BY <1>3, <2>2, <2>4, <2>5
  <1>. HIDE DEF M, H
  <1>6. g \in M \/ g \in H
    BY <1>1 DEF Settled
  <1>. QED
    BY <1>4, <1>5, <1>6

\* The rewrites it proposes for a block fit its text and are apart from each other.
LEMMA PrepassRewrites ==
    ASSUME NEW texts, Readable(texts), NEW titles, NEW b \in 1..Len(texts)
    PROVE  Rewriting(texts[b], RewritesAt(Prepass(texts, titles), b))
  <1>. DEFINE t == texts[b]
              A == InBlock(b, Artefacts(t))
              B == RewritesAt(Prepass(texts, titles), b)
  <1>1. t \in Seq(Symbols)
    BY DEF Readable
  <1>2. Rewriting(t, Artefacts(t))
    BY <1>1, ArtefactsAre
  <1>3. Rewriting(t, A)
    BY <1>2, InBlockRewriting
  <1>4. B \subseteq A
    BY PrepassGives DEF RewritesAt
  <1>. HIDE DEF t, A, B
  <1>5. Rewriting(t, B)
    BY <1>3, <1>4, RewritingPart
  <1>. QED
    BY <1>5 DEF t, B

\* The rewrites proposed for a block are at places of their own.
LEMMA PrepassPlaced ==
    ASSUME NEW texts, Readable(texts), NEW titles, NEW b
    PROVE  Placed(RewritesAt(Prepass(texts, titles), b))
  <1>1. CASE b \in 1..Len(texts)
    <2>1. texts[b] \in Seq(Symbols)
      BY <1>1 DEF Readable
    <2>. QED
      BY <1>1, <2>1, PrepassRewrites, RewritingPlaced
  <1>2. CASE b \notin 1..Len(texts)
    <2>1. RewritesAt(Prepass(texts, titles), b) = {}
      BY <1>2, PrepassGives DEF RewritesAt
    <2>. QED
      BY <2>1, FS_EmptySet DEF Placed
  <1>. QED
    BY <1>1, <1>2

-----------------------------------------------------------------------------
(* What a batch makes of a text.                                           *)

\* f goes through the rewrites of a list.
Rewrites(f, a, L, n) == f = [k \in 0..n |-> IF k = 0 THEN a ELSE Rewrite(f[k - 1], L[k])]

\* There are such rewrites, up to any of the list.
LEMMA SomeRewrites ==
    ASSUME NEW a, NEW L, NEW n \in Nat
    PROVE  \E f : Rewrites(f, a, L, n)
  <1>. DEFINE Good == {m \in 0..n : \E f : Rewrites(f, a, L, m)}
  <1>1. 0 \in Good
    <2>. DEFINE f == [k \in 0..0 |-> a]
    <2>1. Rewrites(f, a, L, 0)
      BY DEF Rewrites
    <2>. QED
      BY <2>1
  <1>2. ASSUME NEW m \in 1..n, m - 1 \in Good PROVE m \in Good
    <2>1. PICK f : Rewrites(f, a, L, m - 1)
      BY <1>2
    <2>. DEFINE g == [k \in 0..m |-> IF k = m THEN Rewrite(f[m - 1], L[m]) ELSE f[k]]
    <2>2. ASSUME NEW k \in 0..m PROVE g[k] = IF k = 0 THEN a ELSE Rewrite(g[k - 1], L[k])
      <3>1. CASE k = m
        <4>1. k # 0 /\ k - 1 \in 0..m /\ k - 1 # m
          BY <3>1
        <4>. QED
          BY <3>1, <4>1
      <3>2. CASE k # m
        <4>1. k \in 0..(m - 1) /\ (k # 0 => k - 1 \in 0..m /\ k - 1 # m)
          BY <3>2
        <4>2. f[k] = IF k = 0 THEN a ELSE Rewrite(f[k - 1], L[k])
          BY <2>1, <4>1 DEF Rewrites
        <4>. QED
          BY <3>2, <4>1, <4>2
      <3>. QED
        BY <3>1, <3>2
    <2>3. g = [k \in 0..m |-> g[k]]
      OBVIOUS
    <2>. HIDE DEF g
    <2>4. Rewrites(g, a, L, m)
      BY <2>2, <2>3 DEF Rewrites
    <2>. QED
      BY <2>4
  <1>. HIDE DEF Good
  <1>3. n \in Good
    BY <1>1, <1>2, Inductive
  <1>. QED
    BY <1>3 DEF Good

\* A text with a stretch replaced is a text.
LEMMA ReplacedIs ==
    ASSUME NEW t \in Seq(Symbols), NEW s \in Nat, NEW e \in Nat, NEW r \in Seq(Symbols)
    PROVE  Replaced(t, s, e, r) \in Seq(Symbols)
  <1>1. Slice(t, 0, s) \in Seq(Symbols) /\ Slice(t, e, Len(t)) \in Seq(Symbols)
    <2>1. 0 \in Nat /\ Len(t) \in Int /\ s \in Int
      OBVIOUS
    <2>2. Slice(t, 0, s) \in Seq(Symbols)
      BY <2>1, SliceIs
    <2>3. Slice(t, e, Len(t)) \in Seq(Symbols)
      BY <2>1, SliceIs
    <2>. QED
      BY <2>2, <2>3
  <1>. DEFINE x == Slice(t, 0, s)
              y == Slice(t, e, Len(t))
  <1>2. Replaced(t, s, e, r) = x \o r \o y
    BY DEF Replaced
  <1>. HIDE DEF x, y
  <1>3. x \in Seq(Symbols) /\ y \in Seq(Symbols)
    BY <1>1 DEF x, y
  <1>. QED
    BY <1>2, <1>3

\* The rewrites of a batch, listed from the right.
FromTheRight(A) == Ranked(A, LAMBDA a, b : a.start > b.start)

\* They can be listed.
LEMMA RewritesListed ==
    ASSUME NEW A, Placed(A)
    PROVE  /\ Len(FromTheRight(A)) \in Nat
           /\ \A k \in 1..Len(FromTheRight(A)) : FromTheRight(A)[k] \in A
           /\ \A j, k \in 1..Len(FromTheRight(A)) : j < k => FromTheRight(A)[j].start > FromTheRight(A)[k].start
  <1>. DEFINE before(a, b) == a.start > b.start
              R == {p \in A \X A : before(p[1], p[2])}
              n == Cardinality(A)
              L == [k \in 1..n |-> CHOOSE x \in A : Cardinality({y \in A : before(y, x)}) = k - 1]
  <1>1. \A g \in A : g.start \in Nat
    BY DEF Placed
  <1>2. \A x, y \in A : <<x, y>> \in R <=> before(x, y)
    OBVIOUS
  <1>3. \A x \in A : ~before(x, x)
    BY <1>1
  <1>4. \A x, y \in A : x # y => before(x, y) \/ before(y, x)
    BY <1>1 DEF Placed
  <1>5. \A x, y, z \in A : before(x, y) /\ before(y, z) => before(x, z)
    BY <1>1
  <1>6. Ordering(R, A)
    <2>. HIDE DEF R, before
    <2>. QED
      BY <1>2, <1>3, <1>4, <1>5 DEF Ordering
  <1>7. \A x \in A : Below(R, A, x) = {y \in A : before(y, x)}
    <2>. HIDE DEF before
    <2>. QED
      BY DEF Below
  <1>8. FromTheRight(A) = L
    BY DEF FromTheRight, Ranked
  <1>9. IsFiniteSet(A)
    BY DEF Placed
  <1>. HIDE DEF R, before
  <1>10. /\ n \in Nat /\ \A k \in 1..n : \E x \in A : Cardinality(Below(R, A, x)) = k - 1
         /\ \A x, y \in A : Cardinality(Below(R, A, x)) < Cardinality(Below(R, A, y)) => <<x, y>> \in R
    BY <1>6, <1>9, Listed
  <1>11. ASSUME NEW k \in 1..n PROVE L[k] \in A /\ Cardinality(Below(R, A, L[k])) = k - 1
    <2>1. \E x \in A : Cardinality({y \in A : before(y, x)}) = k - 1
      BY <1>7, <1>10
    <2>2. L[k] \in A /\ Cardinality({y \in A : before(y, L[k])}) = k - 1
      BY <2>1
    <2>. HIDE DEF L
    <2>. QED
      BY <2>2, <1>7
  <1>12. Len(L) = n
    BY <1>10
  <1>. HIDE DEF L, n
  <1>13. ASSUME NEW j \in 1..n, NEW k \in 1..n, j < k PROVE L[j].start > L[k].start
    <2>1. Cardinality(Below(R, A, L[j])) < Cardinality(Below(R, A, L[k]))
      BY <1>10, <1>11, <1>13
    <2>2. <<L[j], L[k]>> \in R
      BY <1>10, <1>11, <2>1
    <2>3. before(L[j], L[k])
      BY <1>2, <1>11, <2>2
    <2>. QED
      BY <2>3 DEF before
  <1>. QED
    BY <1>8, <1>10, <1>11, <1>12, <1>13

\* A rewrite that no longer fits leaves the text alone, and one that fits leaves a text.
LEMMA RewriteIs ==
    ASSUME NEW a, a.text \in Seq(Symbols), NEW w,
           w.start \in Nat, w.end \in Nat, w.replacement \in Seq(Symbols),
           a = [text |-> a.text, others |-> a.others, conflicts |-> a.conflicts]
    PROVE  LET r == Rewrite(a, w) IN
           r.text \in Seq(Symbols) /\ r = [text |-> r.text, others |-> r.others, conflicts |-> r.conflicts]
  <1>1. CASE ~Fits(a.text, w)
    <2>. DEFINE x == a.text
                y == a.others
                z == a.conflicts \cup {w}
    <2>1. Rewrite(a, w) = [a EXCEPT !.conflicts = z]
      BY <1>1 DEF Rewrite
    <2>2. x \in Seq(Symbols) /\ a = [text |-> x, others |-> y, conflicts |-> a.conflicts]
      OBVIOUS
    <2>. HIDE DEF x, y, z
    <2>3. Rewrite(a, w) = [text |-> x, others |-> y, conflicts |-> z]
      BY <2>1, <2>2
    <2>. QED
      BY <2>2, <2>3
  <1>2. CASE Fits(a.text, w)
    <2>. DEFINE x == Replaced(a.text, w.start, w.end, w.replacement)
                y == UNION {Shifted(g, w) : g \in a.others}
                z == a.conflicts \cup {g \in a.others : Shifted(g, w) = {}}
                r == [text |-> x, others |-> y, conflicts |-> z]
    <2>1. Rewrite(a, w) = r
      BY <1>2 DEF Rewrite
    <2>2. x \in Seq(Symbols)
      BY ReplacedIs
    <2>. HIDE DEF x, y, z
    <2>3. Rewrite(a, w) = [text |-> x, others |-> y, conflicts |-> z]
      BY <2>1
    <2>. QED
      BY <2>2, <2>3
  <1>. QED
    BY <1>1, <1>2

\* What is committed is a text, whatever the batch.
LEMMA AppliedIs ==
    ASSUME NEW t \in Seq(Symbols), NEW batch, Placed({g \in batch : g.kind = "conversion_artifact"})
    PROVE  Applied(t, batch).text \in Seq(Symbols)
  <1>. DEFINE A == {g \in batch : g.kind = "conversion_artifact"}
              a == [text |-> t, others |-> {g \in batch : g.kind # "conversion_artifact"}, conflicts |-> {}]
              L == FromTheRight(A)
              n == Len(L)
              F == CHOOSE f : f = [k \in 0..n |-> IF k = 0 THEN a ELSE Rewrite(f[k - 1], L[k])]
  <1>1. n \in Nat /\ \A k \in 1..n : L[k] \in A
    BY RewritesListed
  <1>2. \A g \in A : g.start \in Nat /\ g.end \in Nat /\ g.replacement \in Seq(Symbols)
    BY DEF Placed
  <1>3. Rewritten(t, batch) = F[n]
    BY DEF Rewritten, FromTheRight
  <1>4. a.text = t /\ a = [text |-> a.text, others |-> a.others, conflicts |-> a.conflicts]
    OBVIOUS
  <1>. HIDE DEF A, L, n, a
  <1>5. F = [k \in 0..n |-> IF k = 0 THEN a ELSE Rewrite(F[k - 1], L[k])]
    <2>1. \E f : f = [k \in 0..n |-> IF k = 0 THEN a ELSE Rewrite(f[k - 1], L[k])]
      <3>1. \E f : Rewrites(f, a, L, n)
        BY <1>1, SomeRewrites
      <3>. QED
        BY <3>1 DEF Rewrites
    <2>. QED
      BY <2>1
  <1>. HIDE DEF F
  <1>. DEFINE Good == {k \in 0..n : /\ F[k].text \in Seq(Symbols)
                                    /\ F[k] = [text |-> F[k].text, others |-> F[k].others, conflicts |-> F[k].conflicts]}
  <1>6. 0 \in Good
    <2>1. 0 \in 0..n
      BY <1>1
    <2>2. F[0] = a
      BY <2>1, <1>5
    <2>. QED
      BY <2>1, <2>2, <1>4
  <1>7. ASSUME NEW k \in 1..n, k - 1 \in Good PROVE k \in Good
    <2>1. k \in 0..n /\ k # 0
      BY <1>1
    <2>2. F[k] = Rewrite(F[k - 1], L[k])
      BY <2>1, <1>5
    <2>. DEFINE x == F[k - 1]
                w == L[k]
    <2>3. x.text \in Seq(Symbols) /\ x = [text |-> x.text, others |-> x.others, conflicts |-> x.conflicts]
      BY <1>7
    <2>4. w.start \in Nat /\ w.end \in Nat /\ w.replacement \in Seq(Symbols)
      BY <1>1, <1>2
    <2>5. F[k] = Rewrite(x, w)
      BY <2>2
    <2>. HIDE DEF x, w
    <2>6. F[k].text \in Seq(Symbols) /\ F[k] = [text |-> F[k].text, others |-> F[k].others, conflicts |-> F[k].conflicts]
      BY <2>3, <2>4, <2>5, RewriteIs
    <2>. QED
      BY <2>1, <2>6
  <1>. HIDE DEF Good
  <1>8. n \in Good
    <2>1. \A k \in 0..n : k \in Good
      BY <1>1, <1>6, <1>7, Inductive
    <2>. QED
      BY <2>1, <1>1
  <1>9. F[n].text \in Seq(Symbols)
    BY <1>8 DEF Good
  <1>10. Applied(t, batch).text = Rewritten(t, batch).text
    BY DEF Applied, Fitted, Spanned
  <1>. QED
    BY <1>3, <1>9, <1>10

-----------------------------------------------------------------------------
(* The text of a chapter.                                                  *)

\* The chapter and what clients were given are texts, and a batch rewrites each place once.
TextsInv ==
    /\ Len(blocks) \in Nat /\ blocks = [b \in 1..Len(blocks) |-> blocks[b]]
    /\ \A b \in 1..Len(blocks) : /\ blocks[b].text \in Seq(Symbols)
                                 /\ blocks[b] = [text |-> blocks[b].text, spans |-> blocks[b].spans]
    /\ review = [c \in Clients |-> review[c]]
    /\ \A c \in Clients : Readable(review[c].texts) /\ \A b : Placed(RewritesAt(review[c].found, b))

\* It holds of what is imported,
LEMMA TextsStart == Init => TextsInv
  <1>. SUFFICES ASSUME Init
                PROVE  TextsInv
    OBVIOUS
  <1>1. PICK lesson \in Lessons : blocks = [b \in 1..Len(lesson.texts) |-> [text |-> lesson.texts[b], spans |-> {}]]
    BY DEF Init
  <1>. DEFINE texts == lesson.texts
  <1>2. texts \in Seq(Seq(Symbols))
    BY LessonsAssumption
  <1>3. blocks = [b \in 1..Len(texts) |-> [text |-> texts[b], spans |-> {}]]
    BY <1>1
  <1>. HIDE DEF texts
  <1>4. Len(texts) \in Nat /\ \A b \in 1..Len(texts) : texts[b] \in Seq(Symbols)
    BY <1>2
  <1>5. Len(blocks) = Len(texts)
    BY <1>3, <1>4
  <1>6. ASSUME NEW b \in 1..Len(blocks)
        PROVE  blocks[b].text \in Seq(Symbols) /\ blocks[b] = [text |-> blocks[b].text, spans |-> blocks[b].spans]
    <2>1. blocks[b] = [text |-> texts[b], spans |-> {}]
      BY <1>3, <1>5
    <2>. QED
      BY <2>1, <1>4, <1>5
  <1>7. blocks = [b \in 1..Len(blocks) |-> blocks[b]]
    BY <1>3, <1>5
  <1>8. review = [c \in Clients |-> NoReview]
    BY DEF Init
  <1>9. ASSUME NEW c \in Clients
        PROVE  Readable(review[c].texts) /\ \A b : Placed(RewritesAt(review[c].found, b))
    <2>1. review[c].texts = <<>> /\ review[c].found = {}
      BY <1>8 DEF NoReview
    <2>2. \A b : RewritesAt({}, b) = {}
      BY DEF RewritesAt
    <2>3. Placed({})
      BY FS_EmptySet DEF Placed
    <2>4. Readable(<<>>)
      BY DEF Readable
    <2>. QED
      BY <2>1, <2>2, <2>3, <2>4
  <1>10. review = [c \in Clients |-> review[c]]
    BY <1>8
  <1>. QED
    BY <1>4, <1>5, <1>6, <1>7, <1>9, <1>10 DEF TextsInv

\* The chapter can be read.
LEMMA TextsReadable == ASSUME TextsInv PROVE Readable(Texts)
  <1>1. Len(blocks) \in Nat /\ \A b \in 1..Len(blocks) : blocks[b].text \in Seq(Symbols)
    BY DEF TextsInv
  <1>. DEFINE T == [b \in 1..Len(blocks) |-> blocks[b].text]
  <1>2. Len(T) = Len(blocks) /\ \A b \in 1..Len(blocks) : T[b] \in Seq(Symbols)
    BY <1>1
  <1>3. Texts = T
    BY DEF Texts
  <1>. HIDE DEF T
  <1>. QED
    BY <1>1, <1>2, <1>3 DEF Readable

\* after a pre-pass,
LEMMA TextsReview ==
    ASSUME TextsInv, NEW c \in Clients, Review(c)
    PROVE  TextsInv'
  <1>. DEFINE given == [base |-> revision, texts |-> Texts, found |-> Prepass(Texts, headings)]
  <1>1. review' = [review EXCEPT ![c] = given] /\ blocks' = blocks
    BY DEF Review
  <1>2. given.texts = Texts /\ given.found = Prepass(Texts, headings)
    OBVIOUS
  <1>. HIDE DEF given
  <1>3. Readable(Texts)
    BY TextsReadable
  <1>4. \A b : Placed(RewritesAt(Prepass(Texts, headings), b))
    BY <1>3, PrepassPlaced
  <1>5. review' = [d \in Clients |-> IF d = c THEN given ELSE review[d]]
    BY <1>1 DEF TextsInv
  <1>6. \A d \in Clients : review'[d] = IF d = c THEN given ELSE review[d]
    BY <1>5
  <1>7. review' = [d \in Clients |-> review'[d]]
    BY <1>5
  <1>8. ASSUME NEW d \in Clients
        PROVE  Readable(review'[d].texts) /\ \A b : Placed(RewritesAt(review'[d].found, b))
    <2>1. CASE d = c
      BY <1>2, <1>3, <1>4, <1>6, <2>1
    <2>2. CASE d # c
      BY <1>6, <2>2 DEF TextsInv
    <2>. QED
      BY <2>1, <2>2
  <1>. QED
    BY <1>1, <1>7, <1>8 DEF TextsInv

\* after a batch,
LEMMA TextsApply ==
    ASSUME TextsInv, NEW c \in Clients, NEW kinds, ApplyReading(c, kinds)
    PROVE  TextsInv'
  <1>. DEFINE n == Len(blocks)
              new(b) == Applied(blocks[b].text, Accepted(c, kinds, b))
  <1>1. blocks' = [b \in 1..n |-> Kept(new(b))] /\ review' = review
    BY DEF ApplyReading
  <1>2. n \in Nat
    BY DEF TextsInv
  <1>3. ASSUME NEW b \in 1..n PROVE new(b).text \in Seq(Symbols)
    <2>1. blocks[b].text \in Seq(Symbols)
      BY DEF TextsInv
    <2>2. Placed(RewritesAt(review[c].found, b))
      BY DEF TextsInv
    <2>. DEFINE A == {g \in Accepted(c, kinds, b) : g.kind = "conversion_artifact"}
    <2>3. A \subseteq RewritesAt(review[c].found, b)
      BY DEF Accepted, RewritesAt
    <2>4. Placed(A)
      BY <2>2, <2>3, PlacedPart
    <2>. QED
      BY <2>1, <2>4, AppliedIs
  <1>. HIDE DEF new, n
  <1>4. Len(blocks') = n
    BY <1>1, <1>2
  <1>5. ASSUME NEW b \in 1..n
        PROVE  blocks'[b].text \in Seq(Symbols) /\ blocks'[b] = [text |-> blocks'[b].text, spans |-> blocks'[b].spans]
    <2>1. blocks'[b] = [text |-> new(b).text, spans |-> new(b).spans]
      BY <1>1 DEF Kept
    <2>. QED
      BY <2>1, <1>3
  <1>6. blocks' = [b \in 1..n |-> blocks'[b]]
    BY <1>1
  <1>. QED
    BY <1>1, <1>2, <1>4, <1>5, <1>6 DEF TextsInv

\* What a client submits is a text,
LEMMA EditsAre ==
    ASSUME NEW t \in Seq(Symbols), NEW x \in Edits(t)
    PROVE  x \in Seq(Symbols)
  <1>1. Len(t) \in Nat
    OBVIOUS
  <1>2. SubSeq(t, 2, Len(t)) \in Seq(Symbols) /\ SubSeq(t, 1, Len(t) - 1) \in Seq(Symbols)
    BY <1>1
  <1>. QED
    BY <1>2 DEF Edits

\* and so is the chapter after a draft.
LEMMA TextsPut ==
    ASSUME TextsInv, NEW c \in Clients, NEW b \in 1..Len(review[c].texts),
           NEW x \in Edits(review[c].texts[b]), PutText(c, b, x)
    PROVE  TextsInv'
  <1>1. review[c].texts[b] \in Seq(Symbols)
    BY DEF TextsInv, Readable
  <1>2. x \in Seq(Symbols)
    BY <1>1, EditsAre
  <1>3. blocks' = [blocks EXCEPT ![b].text = x] /\ review' = review
    BY DEF PutText
  <1>. DEFINE n == Len(blocks)
  <1>4. n \in Nat /\ blocks = [d \in 1..n |-> blocks[d]]
    BY DEF TextsInv
  <1>5. \A d \in 1..n : blocks[d].text \in Seq(Symbols) /\ blocks[d] = [text |-> blocks[d].text, spans |-> blocks[d].spans]
    BY DEF TextsInv
  <1>. HIDE DEF n
  <1>6. blocks' = [d \in 1..n |-> IF d = b THEN [blocks[b] EXCEPT !.text = x] ELSE blocks[d]]
    BY <1>3, <1>4
  <1>7. Len(blocks') = n /\ blocks' = [d \in 1..n |-> blocks'[d]]
    BY <1>4, <1>6
  <1>8. ASSUME NEW d \in 1..n
        PROVE  blocks'[d].text \in Seq(Symbols) /\ blocks'[d] = [text |-> blocks'[d].text, spans |-> blocks'[d].spans]
    <2>1. CASE d = b
      <3>1. blocks'[d] = [blocks[d] EXCEPT !.text = x]
        BY <1>6, <2>1
      <3>2. blocks'[d] = [text |-> x, spans |-> blocks[d].spans]
        BY <3>1, <1>5
      <3>. QED
        BY <3>2, <1>2
    <2>2. CASE d # b
      <3>1. blocks'[d] = blocks[d]
        BY <1>6, <2>2
      <3>. QED
        BY <3>1, <1>5
    <2>. QED
      BY <2>1, <2>2
  <1>. QED
    BY <1>3, <1>4, <1>7, <1>8 DEF TextsInv

\* So it holds of every chapter and every review.
LEMMA TextsStep == TextsInv /\ [Next]_vars => TextsInv'
  <1>. SUFFICES ASSUME TextsInv, [Next]_vars
                PROVE  TextsInv'
    OBVIOUS
  <1>1. ASSUME NEW c \in Clients, Review(c)
        PROVE  TextsInv'
    BY <1>1, TextsReview
  <1>2. ASSUME NEW c \in Clients, NEW kinds \in Accepts, ApplyReading(c, kinds)
        PROVE  TextsInv'
    BY <1>2, TextsApply
  <1>3. ASSUME NEW c \in Clients, NEW b \in 1..Len(review[c].texts),
               NEW x \in Edits(review[c].texts[b]), PutText(c, b, x)
        PROVE  TextsInv'
    BY <1>3, TextsPut
  <1>4. CASE UNCHANGED vars
    BY <1>4 DEF vars, TextsInv
  <1>. QED
    BY <1>1, <1>2, <1>3, <1>4 DEF Next

\* Whatever the text: the tiles that are proposed for it are in order, hold every word once,
\* and narration stops where dialogue is taken up again.
THEOREM DialogueStaysTiled == Spec => []DialogueIsTiled
  <1>1. TextsInv => DialogueIsTiled
    BY SegmentsTile DEF TextsInv, DialogueIsTiled
  <1>. QED
    BY <1>1, TextsStart, TextsStep, PTL DEF Spec

-----------------------------------------------------------------------------
(* Readings that are moved.                                                *)

\* How much longer a rewrite makes a text.
Growth(s, e, r) == Len(r) - (e - s)

\* A replacement leaves what is before it, and moves what is behind it.
LEMMA ReplacedGives ==
    ASSUME NEW t \in Seq(Symbols), NEW s \in 0..Len(t), NEW e \in s..Len(t), NEW r \in Seq(Symbols)
    PROVE  /\ Len(Replaced(t, s, e, r)) = Len(t) + Growth(s, e, r)
           /\ \A i \in 1..s : Replaced(t, s, e, r)[i] = t[i]
           /\ \A i \in (e + 1)..Len(t) : Replaced(t, s, e, r)[i + Growth(s, e, r)] = t[i]
  <1>. DEFINE x == Slice(t, 0, s)
              y == Slice(t, e, Len(t))
              n == Len(t)
              m == Len(r)
  <1>1. n \in Nat /\ m \in Nat /\ s \in Nat /\ e \in Nat /\ s <= e /\ e <= n
    OBVIOUS
  <1>2. x = SubSeq(t, 1, s) /\ y = SubSeq(t, e + 1, n)
    BY <1>1 DEF Slice
  <1>3. x \in Seq(Symbols) /\ Len(x) = s /\ \A i \in 1..s : x[i] = t[i]
    <2>. HIDE DEF x
    <2>. QED
      BY <1>1, <1>2
  <1>4. y \in Seq(Symbols) /\ Len(y) = n - e /\ \A i \in 1..(n - e) : y[i] = t[e + i]
    <2>. HIDE DEF y
    <2>. QED
      BY <1>1, <1>2
  <1>5. Replaced(t, s, e, r) = (x \o r) \o y
    BY DEF Replaced
  <1>. HIDE DEF x, y
  <1>. DEFINE z == x \o r
  <1>6. z \in Seq(Symbols) /\ Len(z) = s + m /\ \A i \in 1..s : z[i] = t[i]
    BY <1>1, <1>3
  <1>. HIDE DEF z, n, m
  <1>7. Len(z \o y) = s + m + (n - e) /\ \A i \in 1..s : (z \o y)[i] = t[i]
    BY <1>1, <1>4, <1>6
  <1>8. ASSUME NEW i \in (e + 1)..n PROVE (z \o y)[i + (m - (e - s))] = t[i]
    <2>. DEFINE k == i - e
    <2>1. k \in 1..(n - e) /\ i = e + k /\ i + (m - (e - s)) = (s + m) + k
      BY <1>1
    <2>2. y[k] = t[i]
      BY <1>4, <2>1
    <2>. HIDE DEF k
    <2>3. (z \o y)[(s + m) + k] = y[k]
      <3>. DEFINE a == s + m
                  l == Len(y)
      <3>1. a \in Nat /\ k \in 1..l /\ Len(z) = a /\ l \in Nat
        BY <1>1, <1>4, <1>6, <2>1
      <3>. HIDE DEF a
      <3>2. (z \o y)[a + k] = y[k]
        BY <1>4, <1>6, <3>1
      <3>. QED
        BY <3>2 DEF a
    <2>. QED
      BY <2>1, <2>2, <2>3
  <1>9. Replaced(t, s, e, r) = z \o y
    BY <1>5 DEF z
  <1>10. Growth(s, e, r) = m - (e - s) /\ s + m + (n - e) = n + (m - (e - s))
    BY <1>1 DEF Growth, m
  <1>. QED
    BY <1>7, <1>8, <1>9, <1>10 DEF n

\* Two texts that are alike up to e.
Alike(t, u, e) == e \in Nat /\ e <= Len(t) /\ e <= Len(u) /\ \A i \in 1..e : t[i] = u[i]

\* A slice before that place.
LEMMA SliceBefore ==
    ASSUME NEW t \in Seq(Symbols), NEW u \in Seq(Symbols), NEW e, Alike(t, u, e),
           NEW a \in Nat, NEW c \in Int, c <= e
    PROVE  Slice(t, a, c) = Slice(u, a, c)
  <1>. e \in Nat /\ e <= Len(t) /\ e <= Len(u) /\ \A i \in 1..e : t[i] = u[i]
    BY DEF Alike
  <1>1. Slice(t, a, c) = SubSeq(t, a + 1, c) /\ Slice(u, a, c) = SubSeq(u, a + 1, c)
    BY DEF Slice
  <1>2. SubSeq(t, a + 1, c) = SubSeq(u, a + 1, c)
    <2>. DEFINE x == SubSeq(t, a + 1, c)
                y == SubSeq(u, a + 1, c)
                n == IF a < c THEN c - a ELSE 0
    <2>1. x \in Seq(Symbols) /\ y \in Seq(Symbols) /\ Len(x) = n /\ Len(y) = n
      OBVIOUS
    <2>2. \A i \in 1..n : x[i] = t[a + i] /\ y[i] = u[a + i] /\ a + i \in 1..e
      OBVIOUS
    <2>3. \A i \in 1..n : x[i] = y[i]
      BY <2>2
    <2>. HIDE DEF x, y, n
    <2>4. x = [i \in 1..n |-> x[i]] /\ y = [i \in 1..n |-> y[i]]
      BY <2>1
    <2>. QED
      BY <2>3, <2>4 DEF x, y
  <1>. QED
    BY <1>1, <1>2

\* What is behind e in t is d places further on in u.
Pushed(t, u, d, e) == /\ d \in Int /\ e \in Nat /\ e <= Len(t) /\ 0 <= e + d /\ Len(u) = Len(t) + d
                      /\ \A i \in (e + 1)..Len(t) : u[i + d] = t[i]

\* A slice of what is moved.
SameSlice(t, u, d, a, c) == Slice(u, a + d, c + d) = Slice(t, a, c)

\* So it is behind what is replaced.
LEMMA SliceBehind ==
    ASSUME NEW t \in Seq(Symbols), NEW u \in Seq(Symbols), NEW d, NEW e, Pushed(t, u, d, e),
           NEW a \in Int, e <= a, NEW c \in Int
    PROVE  SameSlice(t, u, d, a, c)
  <1>. /\ d \in Int /\ e \in Nat /\ e <= Len(t) /\ 0 <= e + d /\ Len(u) = Len(t) + d
       /\ \A i \in (e + 1)..Len(t) : u[i + d] = t[i]
    BY DEF Pushed
  <1>. DEFINE n == Len(t)
              f == IF c <= n THEN c ELSE n
              x == SubSeq(t, a + 1, f)
              y == SubSeq(u, a + 1 + d, f + d)
              m == IF a < f THEN f - a ELSE 0
  <1>1. n \in Nat /\ Len(u) = n + d /\ f \in Int /\ f <= n
    OBVIOUS
  <1>2. Slice(t, a, c) = x
    BY DEF Slice
  <1>3. Slice(u, a + d, c + d) = y
    <2>1. (IF c + d <= Len(u) THEN c + d ELSE Len(u)) = f + d
      BY <1>1
    <2>2. Slice(u, a + d, c + d) = SubSeq(u, (a + d) + 1, IF c + d <= Len(u) THEN c + d ELSE Len(u))
      BY DEF Slice
    <2>3. (a + d) + 1 = a + 1 + d
      OBVIOUS
    <2>. QED
      BY <2>1, <2>2, <2>3
  <1>. HIDE DEF f, n
  <1>4. x \in Seq(Symbols) /\ Len(x) = m /\ \A i \in 1..m : x[i] = t[a + i]
    BY <1>1 DEF n
  <1>5. y \in Seq(Symbols) /\ Len(y) = m /\ \A i \in 1..m : y[i] = u[a + i + d]
    <2>1. a + 1 + d \in Int /\ a + 1 + d >= 1 /\ f + d <= Len(u) /\ f + d \in Int
      BY <1>1
    <2>2. (f + d) - (a + 1 + d) + 1 = f - a
      BY <1>1
    <2>. DEFINE p == a + 1 + d
                q == f + d
    <2>3. p \in Int /\ q \in Int /\ p >= 1 /\ q <= Len(u) /\ q - p + 1 = f - a
      BY <2>1, <2>2
    <2>. HIDE DEF p, q
    <2>4. SubSeq(u, p, q) \in Seq(Symbols) /\ Len(SubSeq(u, p, q)) = m
          /\ \A i \in 1..m : SubSeq(u, p, q)[i] = u[p + i - 1]
      BY <2>3, <1>1
    <2>5. \A i \in 1..m : p + i - 1 = a + i + d
      BY <1>1 DEF p
    <2>. QED
      BY <2>4, <2>5 DEF p, q
  <1>6. \A i \in 1..m : a + i \in (e + 1)..n
    BY <1>1
  <1>7. \A i \in 1..m : x[i] = y[i]
    BY <1>4, <1>5, <1>6 DEF n
  <1>. HIDE DEF x, y, m
  <1>8. x = [i \in 1..m |-> x[i]] /\ y = [i \in 1..m |-> y[i]]
    BY <1>4, <1>5
  <1>9. x = y
    BY <1>7, <1>8
  <1>. QED
    BY <1>2, <1>3, <1>9 DEF SameSlice

\* What has become of g in a text u that is rewritten from e on.
Carried(u, e, g, h) ==
    /\ Suggested(h) /\ h.kind = g.kind /\ h.replacement = g.replacement /\ h.original = g.original
    /\ h.start \in Nat /\ h.end \in Int /\ h.start <= h.end
    /\ Slice(u, h.start, h.end) = g.original
    /\ (h.start = g.start /\ h.end = g.end) \/ e <= h.start

\* It is slid by a rewrite before it.
LEMMA SlidIs ==
    ASSUME NEW h, Suggested(h), NEW d
    PROVE  /\ Suggested(Slid(h, d)) /\ Slid(h, d).kind = h.kind /\ Slid(h, d).replacement = h.replacement
           /\ Slid(h, d).original = h.original
           /\ Slid(h, d).start = h.start + d /\ Slid(h, d).end = h.end + d
           /\ Slid(h, d).segments = [k \in 1..Len(h.segments) |-> Along(h.segments[k], d)]
  <1>. DEFINE p == h.start + d
              q == h.end + d
              o == Along(h, d)
              x == [k \in 1..Len(o.segments) |-> Along(o.segments[k], d)]
              g == Slid(h, d)
  <1>0. g = [o EXCEPT !.segments = x]
    BY DEF Slid
  <1>1. o = [h EXCEPT !.start = p, !.end = q]
    BY DEF Along
  <1>. HIDE DEF p, q, g, x, o
  <1>2. o = [block |-> h.block, kind |-> h.kind, start |-> p, end |-> q, original |-> h.original,
             replacement |-> h.replacement, reason |-> h.reason, form |-> h.form, segments |-> h.segments,
             speaker |-> h.speaker]
    BY <1>1 DEF Suggested
  <1>3. g = [block |-> h.block, kind |-> h.kind, start |-> p, end |-> q, original |-> h.original,
             replacement |-> h.replacement, reason |-> h.reason, form |-> h.form, segments |-> x, speaker |-> h.speaker]
    BY <1>0, <1>2
  <1>4. x = [k \in 1..Len(h.segments) |-> Along(h.segments[k], d)]
    BY <1>2 DEF x
  <1>5. Suggested(g) /\ g.kind = h.kind /\ g.replacement = h.replacement /\ g.original = h.original
        /\ g.start = p /\ g.end = q /\ g.segments = x
    BY <1>3 DEF Suggested
  <1>. QED
    BY <1>5, <1>4 DEF g, p, q

\* A slice before what is replaced,
LEMMA KeptBefore ==
    ASSUME NEW u \in Seq(Symbols), NEW s \in 0..Len(u), NEW f \in s..Len(u), NEW r \in Seq(Symbols),
           NEW p \in Nat, NEW q \in Int, q <= s
    PROVE  Slice(Replaced(u, s, f, r), p, q) = Slice(u, p, q)
  <1>. DEFINE v == Replaced(u, s, f, r)
              d == Growth(s, f, r)
  <1>1. Len(v) = Len(u) + d /\ \A i \in 1..s : v[i] = u[i]
    BY ReplacedGives
  <1>2. d = Len(r) - (f - s) /\ Len(r) \in Nat /\ Len(u) \in Nat /\ s \in Nat /\ f \in Nat
    BY DEF Growth
  <1>3. v \in Seq(Symbols)
    BY <1>2, ReplacedIs
  <1>. HIDE DEF v, d
  <1>4. Alike(u, v, s)
    BY <1>1, <1>2 DEF Alike
  <1>5. Slice(u, p, q) = Slice(v, p, q)
    BY <1>2, <1>3, <1>4, SliceBefore
  <1>. QED
    BY <1>5 DEF v

\* and one behind it.
LEMMA MovedBehind ==
    ASSUME NEW u \in Seq(Symbols), NEW s \in 0..Len(u), NEW f \in s..Len(u), NEW r \in Seq(Symbols),
           NEW p \in Nat, NEW q \in Int, f <= p, p <= q
    PROVE  /\ Slice(Replaced(u, s, f, r), p + Growth(s, f, r), q + Growth(s, f, r)) = Slice(u, p, q)
           /\ s <= p + Growth(s, f, r) /\ p + Growth(s, f, r) \in Nat
           /\ q + Growth(s, f, r) \in Int /\ p + Growth(s, f, r) <= q + Growth(s, f, r)
  <1>. DEFINE v == Replaced(u, s, f, r)
              d == Growth(s, f, r)
  <1>1. Len(v) = Len(u) + d /\ \A i \in (f + 1)..Len(u) : v[i + d] = u[i]
    BY ReplacedGives
  <1>2. d = Len(r) - (f - s) /\ Len(r) \in Nat /\ Len(u) \in Nat /\ s \in Nat /\ f \in Nat
    BY DEF Growth
  <1>3. v \in Seq(Symbols)
    BY <1>2, ReplacedIs
  <1>. HIDE DEF v, d
  <1>4. s <= p + d /\ p + d \in Nat /\ q + d \in Int /\ p + d <= q + d /\ d \in Int
    BY <1>2
  <1>5. Slice(v, p + d, q + d) = Slice(u, p, q)
    <2>1. p \in Int /\ Pushed(u, v, d, f)
      BY <1>1, <1>2 DEF Pushed
    <2>2. SameSlice(u, v, d, p, q)
      BY <1>2, <1>3, <1>4, <2>1, SliceBehind
    <2>. QED
      BY <2>2 DEF SameSlice
  <1>. QED
    BY <1>4, <1>5 DEF v, d

\* A rewrite to the left of all earlier ones carries the readings it does not overlap.
LEMMA RewriteCarries ==
    ASSUME NEW a, a.text \in Seq(Symbols),
           NEW w, w.start \in Nat, w.end \in Nat, w.start < w.end, w.replacement \in Seq(Symbols), Fits(a.text, w),
           NEW e \in Nat, e <= Len(a.text), w.end <= e,
           NEW g, ~Overlap(SpanOf(g), SpanOf(w)),
           NEW h \in a.others, Carried(a.text, e, g, h)
    PROVE  /\ Rewrite(a, w).text = Replaced(a.text, w.start, w.end, w.replacement)
           /\ \E k \in Rewrite(a, w).others : Carried(Rewrite(a, w).text, w.start, g, k)
  <1>. DEFINE u == a.text
              r == w.replacement
              d == Growth(w.start, w.end, r)
              v == Replaced(u, w.start, w.end, r)
              y == UNION {Shifted(o, w) : o \in a.others}
              z == a.conflicts \cup {o \in a.others : Shifted(o, w) = {}}
  <1>1. Rewrite(a, w) = [text |-> v, others |-> y, conflicts |-> z]
    BY DEF Rewrite
  <1>2. Rewrite(a, w).text = v /\ Rewrite(a, w).others = y
    BY <1>1
  <1>3. u \in Seq(Symbols) /\ r \in Seq(Symbols) /\ Len(u) \in Nat /\ Len(r) \in Nat
    OBVIOUS
  <1>4. /\ w.start \in 0..Len(u) /\ w.end \in w.start..Len(u)
        /\ d = Len(r) - (w.end - w.start)
    BY <1>3 DEF Growth
  <1>5. \A k \in Shifted(h, w) : k \in y
    OBVIOUS
  <1>. HIDE DEF y, z
  <1>6. /\ Suggested(h) /\ h.kind = g.kind /\ h.replacement = g.replacement /\ h.original = g.original
        /\ h.start \in Nat /\ h.end \in Int /\ h.start <= h.end
        /\ Slice(u, h.start, h.end) = g.original
        /\ (h.start = g.start /\ h.end = g.end) \/ e <= h.start
    BY DEF Carried
  <1>. DEFINE s == w.start
              f == w.end
              p == h.start
              q == h.end
  <1>7. \/ p = g.start /\ q = g.end /\ q <= s
        \/ f <= p
    <2>1. ~(g.start < w.end /\ w.start < g.end)
      BY DEF Overlap, SpanOf
    <2>. QED
      BY <2>1, <1>6
  <1>8. /\ s \in 0..Len(u) /\ f \in s..Len(u) /\ p \in Nat /\ q \in Int /\ p <= q
        /\ v = Replaced(u, s, f, r) /\ d = Growth(s, f, r)
    BY <1>4, <1>6
  <1>. HIDE DEF u, r, v, d
  <1>9. CASE p = g.start /\ q = g.end /\ q <= s
    <2>1. Shifted(h, w) = {h}
      BY <1>9 DEF Shifted
    <2>. HIDE DEF s, f, p, q
    <2>2. Slice(Replaced(u, s, f, r), p, q) = Slice(u, p, q)
      BY <1>3, <1>8, <1>9, KeptBefore
    <2>3. Carried(v, w.start, g, h)
      BY <1>6, <1>8, <1>9, <2>2 DEF Carried, s, p, q
    <2>. QED
      BY <1>2, <1>5, <2>1, <2>3 DEF u, r, v
  <1>10. CASE f <= p
    <2>. DEFINE k == Slid(h, d)
    <2>1. ~(h.end <= w.start) /\ h.start >= w.end
      BY <1>6, <1>10
    <2>2. Shifted(h, w) = {k}
      BY <2>1, <1>4 DEF Shifted, r
    <2>3. /\ Suggested(k) /\ k.kind = h.kind /\ k.replacement = h.replacement /\ k.original = h.original
          /\ k.start = p + d /\ k.end = q + d
      BY <1>6, SlidIs
    <2>. HIDE DEF k, s, f, p, q
    <2>4. /\ Slice(v, p + d, q + d) = Slice(u, p, q)
          /\ s <= p + d /\ p + d \in Nat /\ q + d \in Int /\ p + d <= q + d
      <3>1. Slice(Replaced(u, s, f, r), p + Growth(s, f, r), q + Growth(s, f, r)) = Slice(u, p, q)
        BY <1>3, <1>8, <1>10, MovedBehind
      <3>2. /\ s <= p + Growth(s, f, r) /\ p + Growth(s, f, r) \in Nat
            /\ q + Growth(s, f, r) \in Int /\ p + Growth(s, f, r) <= q + Growth(s, f, r)
        BY <1>3, <1>8, <1>10, MovedBehind
      <3>. QED
        BY <3>1, <3>2, <1>8
    <2>5. k.start \in Nat /\ k.end \in Int /\ k.start <= k.end /\ s <= k.start
      BY <2>3, <2>4
    <2>6. Slice(v, k.start, k.end) = g.original
      BY <1>6, <2>3, <2>4 DEF p, q
    <2>7. Carried(v, w.start, g, k)
      BY <1>6, <2>3, <2>5, <2>6 DEF Carried, s
    <2>. QED
      BY <1>2, <1>5, <2>2, <2>7 DEF u, r, v
  <1>. QED
    BY <1>7, <1>9, <1>10

\* The readings of a batch after its rewrites.
LEMMA BatchCarries ==
    ASSUME NEW t \in Seq(Symbols), NEW batch, Rewriting(t, {w \in batch : w.kind = "conversion_artifact"}),
           NEW g \in batch, g.kind # "conversion_artifact", Lies(t, g),
           \A w \in batch : w.kind = "conversion_artifact" => ~Overlap(SpanOf(g), SpanOf(w))
    PROVE  \E h \in Rewritten(t, batch).others : Carried(Rewritten(t, batch).text, 0, g, h) 
  <1>. DEFINE A == {w \in batch : w.kind = "conversion_artifact"}
              others == {o \in batch : o.kind # "conversion_artifact"}
              a == [text |-> t, others |-> others, conflicts |-> {}]
              L == FromTheRight(A)
              n == Len(L)
              F == CHOOSE f : f = [k \in 0..n |-> IF k = 0 THEN a ELSE Rewrite(f[k - 1], L[k])]
              edge(k) == IF k = 0 THEN Len(t) ELSE L[k].start
  <1>1. Placed(A)
    BY RewritingPlaced
  <1>2. n \in Nat /\ \A k \in 1..n : L[k] \in A
    BY <1>1, RewritesListed
  <1>3. \A j, k \in 1..n : j < k => L[j].start > L[k].start
    BY <1>1, RewritesListed
  <1>4. Rewritten(t, batch) = F[n]
    BY DEF Rewritten, FromTheRight
  <1>5. a.text = t /\ a.others = others /\ g \in others
    OBVIOUS
  <1>6. /\ NoOverlap(A)
        /\ \A w \in A : /\ w.start \in Nat /\ w.end \in Nat /\ w.start < w.end /\ w.end <= Len(t)
                        /\ w.original = Slice(t, w.start, w.end) /\ w.replacement \in Seq(Symbols)
                        /\ ~Overlap(SpanOf(g), SpanOf(w))
    BY DEF Rewriting
  <1>. HIDE DEF A, L, n, a, others
  <1>7. F = [k \in 0..n |-> IF k = 0 THEN a ELSE Rewrite(F[k - 1], L[k])]
    <2>1. \E f : f = [k \in 0..n |-> IF k = 0 THEN a ELSE Rewrite(f[k - 1], L[k])]
      <3>1. \E f : Rewrites(f, a, L, n)
        BY <1>2, SomeRewrites
      <3>. QED
        BY <3>1 DEF Rewrites
    <2>. QED
      BY <2>1
  <1>. HIDE DEF F
  <1>8. Len(t) \in Nat
    OBVIOUS
  <1>. DEFINE Good == {k \in 0..n : /\ F[k].text \in Seq(Symbols) /\ Alike(t, F[k].text, edge(k))
                                    /\ \E h \in F[k].others : Carried(F[k].text, edge(k), g, h)}
  <1>9. 0 \in Good
    <2>1. 0 \in 0..n /\ edge(0) = Len(t)
      BY <1>2
    <2>2. F[0] = a
      BY <2>1, <1>7
    <2>3. Alike(t, t, Len(t))
      BY <1>8 DEF Alike
    <2>4. Carried(t, Len(t), g, g)
      BY DEF Carried, Lies
    <2>. QED
      BY <2>1, <2>2, <2>3, <2>4, <1>5
  <1>10. ASSUME NEW k \in 1..n, k - 1 \in Good PROVE k \in Good
    <2>. DEFINE x == F[k - 1]
                w == L[k]
                e == edge(k - 1)
    <2>1. k \in 0..n /\ k # 0 /\ edge(k) = w.start
      BY <1>2
    <2>2. F[k] = Rewrite(x, w)
      BY <2>1, <1>7
    <2>3. x.text \in Seq(Symbols) /\ Alike(t, x.text, e) /\ \E h \in x.others : Carried(x.text, e, g, h)
      BY <1>10
    <2>4. w \in A
      BY <1>2
    <2>5. w.end <= e
      <3>1. CASE k = 1
        BY <3>1, <2>4, <1>6
      <3>2. CASE k # 1
        <4>. DEFINE v == L[k - 1]
        <4>1. k - 1 \in 1..n /\ e = v.start /\ v \in A /\ v.start > w.start
          BY <3>2, <1>2, <1>3
        <4>2. w # v /\ ~Overlap(SpanOf(w), SpanOf(v))
          <5>1. v.start \in Nat /\ w.start \in Nat
            BY <4>1, <2>4, <1>6
          <5>2. w # v
            BY <5>1, <4>1
          <5>. QED
            BY <5>2, <4>1, <2>4, <1>6 DEF NoOverlap
        <4>3. ~(w.start < v.end /\ v.start < w.end)
          BY <4>2 DEF Overlap, SpanOf
        <4>. HIDE DEF v, w, e
        <4>. QED
          BY <4>1, <4>3, <2>4, <1>6
      <3>. QED
        BY <3>1, <3>2
    <2>. HIDE DEF x, w, e, edge, Good
    <2>6. /\ w.start \in Nat /\ w.end \in Nat /\ w.start < w.end /\ w.end <= Len(t)
          /\ w.original = Slice(t, w.start, w.end) /\ w.replacement \in Seq(Symbols)
          /\ ~Overlap(SpanOf(g), SpanOf(w))
      BY <2>4, <1>6
    <2>7. e \in Nat /\ e <= Len(x.text)
      BY <2>3 DEF Alike
    <2>8. Fits(x.text, w)
      <3>1. w.end \in Int
        BY <2>6
      <3>2. Slice(t, w.start, w.end) = Slice(x.text, w.start, w.end)
        BY <3>1, <2>3, <2>5, <2>6, SliceBefore
      <3>. QED
        BY <3>2, <2>6 DEF Fits
    <2>9. PICK h \in x.others : Carried(x.text, e, g, h)
      BY <2>3
    <2>10. /\ Rewrite(x, w).text = Replaced(x.text, w.start, w.end, w.replacement)
           /\ \E m \in Rewrite(x, w).others : Carried(Rewrite(x, w).text, w.start, g, m)
      BY <2>3, <2>5, <2>6, <2>7, <2>8, <2>9, RewriteCarries
    <2>. DEFINE y == Replaced(x.text, w.start, w.end, w.replacement)
                s == w.start
                f == w.end
    <2>11. y \in Seq(Symbols) /\ Alike(t, y, w.start)
      <3>1. s \in 0..Len(x.text) /\ f \in s..Len(x.text)
        BY <2>5, <2>6, <2>7
      <3>2. y \in Seq(Symbols)
        BY <2>3, <2>6, ReplacedIs
      <3>3. Len(y) = Len(x.text) + Growth(s, f, w.replacement) /\ \A i \in 1..s : y[i] = x.text[i]
        BY <2>3, <2>6, <3>1, ReplacedGives
      <3>. HIDE DEF y
      <3>4. s <= Len(y) /\ s <= Len(t) /\ s \in Nat
        <4>1. Len(w.replacement) \in Nat /\ Len(x.text) \in Nat
          BY <2>3, <2>6
        <4>2. Growth(s, f, w.replacement) = Len(w.replacement) - (f - s)
          BY DEF Growth
        <4>. QED
          BY <4>1, <4>2, <3>1, <3>3, <2>6, <1>8
      <3>5. \A i \in 1..s : t[i] = y[i]
        BY <3>1, <3>3, <2>3, <2>5, <2>6, <2>7 DEF Alike
      <3>. QED
        BY <3>2, <3>4, <3>5 DEF Alike
    <2>. QED
      BY <2>1, <2>2, <2>10, <2>11 DEF Good
  <1>. HIDE DEF Good
  <1>11. n \in Good
    <2>1. \A k \in 0..n : k \in Good
      BY <1>2, <1>9, <1>10, Inductive
    <2>. QED
      BY <2>1, <1>2
  <1>12. \E h \in F[n].others : Carried(F[n].text, edge(n), g, h)
    BY <1>11 DEF Good
  <1>13. \A h : Carried(F[n].text, edge(n), g, h) => Carried(F[n].text, 0, g, h)
    BY DEF Carried
  <1>. QED
    BY <1>4, <1>12, <1>13

\* A pronunciation is a span.
LEMMA SpokenSpan ==
    ASSUME NEW h, h.kind \in Pronounced, NEW speakers, NEW length
    PROVE  SpansOf(h, speakers, length) = {Span("pronunciation", <<h.start, h.end>>, h.replacement)}
  <1>. DEFINE y == {Span("pronunciation", <<h.start, h.end>>, h.replacement)}
              v == {Span("skip", <<h.start, h.end>>, <<>>)}
              w == DialogueSpans(h, speakers, length)
              p == h.kind \in Pronounced
              q == h.kind = "skip"
              r == h.kind = "dialogue_split"
  <1>1. SpansOf(h, speakers, length) = CASE p -> y [] q -> v [] r -> w [] OTHER -> {}
    BY SMT DEF SpansOf
  <1>2. p /\ ~q /\ ~r
    BY DEF Pronounced
  <1>. HIDE DEF y, v, w, p, q, r
  <1>3. SpansOf(h, speakers, length) = y
    BY <1>1, <1>2
  <1>. QED
    BY <1>3 DEF y

\* What still fits is committed as it is.
LEMMA AppliedKeeps ==
    ASSUME NEW t, NEW batch, NEW h \in Rewritten(t, batch).others,
           Fits(Rewritten(t, batch).text, h), h.kind \in Pronounced
    PROVE  /\ Applied(t, batch).text = Rewritten(t, batch).text
           /\ Span("pronunciation", <<h.start, h.end>>, h.replacement) \in Applied(t, batch).spans
  <1>. DEFINE done == Rewritten(t, batch)
              fit == {g \in done.others : Fits(done.text, g)}
              speakers == {s \in fit : s.kind = "speaker_gender"}
              here(g) == SpansOf(g, speakers, Len(done.text))
              x == UNION {here(g) : g \in fit}
              z == done.conflicts \cup (done.others \ fit) \cup {g \in fit : g.kind = "dialogue_split" /\ g.segments = <<>>}
  <1>1. Applied(t, batch) = [text |-> done.text, spans |-> x, conflicts |-> z]
    BY DEF Applied, Fitted, Spanned
  <1>2. h \in fit
    OBVIOUS
  <1>3. here(h) = {Span("pronunciation", <<h.start, h.end>>, h.replacement)}
    <2>. HIDE DEF speakers, done
    <2>. QED
      BY SpokenSpan
  <1>. HIDE DEF here, fit
  <1>4. Span("pronunciation", <<h.start, h.end>>, h.replacement) \in x
    BY <1>2, <1>3
  <1>. HIDE DEF x, z
  <1>. QED
    BY <1>1, <1>4

\* A reading that no rewrite cuts lies on its words again.
ReadAgain(done, g) ==
    \E s \in {r \in done.spans : r.kind \notin Structural} :
        s.spoken = g.replacement /\ Slice(done.text, s.start, s.end) = g.original

\* So it is with every reading of a batch that no rewrite of it cuts.
LEMMA ReadingKeepsItsWords ==
    ASSUME NEW t \in Seq(Symbols), NEW batch, Rewriting(t, {w \in batch : w.kind = "conversion_artifact"}),
           NEW g \in batch, g.kind \in Pronounced, Lies(t, g),
           \A w \in batch : w.kind = "conversion_artifact" => ~Overlap(SpanOf(g), SpanOf(w))
    PROVE  ReadAgain(Applied(t, batch), g)
  <1>1. g.kind # "conversion_artifact"
    BY DEF Pronounced
  <1>2. PICK h \in Rewritten(t, batch).others : Carried(Rewritten(t, batch).text, 0, g, h)
    BY <1>1, BatchCarries
  <1>. DEFINE u == Rewritten(t, batch).text
              s == Span("pronunciation", <<h.start, h.end>>, h.replacement)
  <1>3. h.kind = g.kind /\ h.replacement = g.replacement /\ h.original = g.original /\ Slice(u, h.start, h.end) = g.original
    BY <1>2 DEF Carried
  <1>4. Fits(u, h) /\ h.kind \in Pronounced
    BY <1>3 DEF Fits
  <1>5. Applied(t, batch).text = u /\ s \in Applied(t, batch).spans
    BY <1>4, AppliedKeeps
  <1>6. s.kind = "pronunciation" /\ s.start = h.start /\ s.end = h.end /\ s.spoken = h.replacement
    BY DEF Span
  <1>7. s.kind \notin Structural
    BY <1>6 DEF Structural
  <1>. HIDE DEF u, s
  <1>. QED
    BY <1>3, <1>5, <1>6, <1>7 DEF ReadAgain

-----------------------------------------------------------------------------
(* Readings stay on their words.                                           *)

\* What clients were given fits the texts they were given.
GivenInv == \A c \in Clients : \A b \in 1..Len(review[c].texts) :
                /\ Rewriting(review[c].texts[b], RewritesAt(review[c].found, b))
                /\ \A g \in review[c].found : g.block = b /\ g.kind \in Pronounced => Lies(review[c].texts[b], g)

\* It holds of nothing,
LEMMA GivenStart == Init => GivenInv
  <1>1. \A c \in Clients : NoReview.texts = <<>> /\ Len(NoReview.texts) = 0
    BY DEF NoReview
  <1>. QED
    BY <1>1 DEF Init, GivenInv

\* and of every review.
LEMMA GivenStep == TextsInv /\ GivenInv /\ [Next]_vars => GivenInv'
  <1>. SUFFICES ASSUME TextsInv, GivenInv, [Next]_vars
                PROVE  GivenInv'
    OBVIOUS
  <1>1. ASSUME NEW c \in Clients, Review(c)
        PROVE  GivenInv'
    <2>. DEFINE given == [base |-> revision, texts |-> Texts, found |-> Prepass(Texts, headings)]
    <2>1. review' = [review EXCEPT ![c] = given]
      BY <1>1 DEF Review
    <2>2. given.texts = Texts /\ given.found = Prepass(Texts, headings)
      OBVIOUS
    <2>. HIDE DEF given
    <2>3. \A d \in Clients : review'[d] = IF d = c THEN given ELSE review[d]
      BY <2>1 DEF TextsInv
    <2>4. Readable(Texts)
      BY TextsReadable
    <2>5. ASSUME NEW b \in 1..Len(Texts)
          PROVE  /\ Rewriting(Texts[b], RewritesAt(Prepass(Texts, headings), b))
                 /\ \A g \in Prepass(Texts, headings) : g.block = b /\ g.kind \in Pronounced => Lies(Texts[b], g)
      <3>1. Rewriting(Texts[b], RewritesAt(Prepass(Texts, headings), b))
        BY <2>4, PrepassRewrites
      <3>2. ASSUME NEW g \in Prepass(Texts, headings), g.block = b, g.kind \in Pronounced
            PROVE  Lies(Texts[b], g)
        <4>1. g.kind # "conversion_artifact"
          BY <3>2 DEF Pronounced
        <4>2. g \in InBlock(b, Artefacts(Texts[b])) \/ Lies(Texts[b], g)
          BY <2>4, <3>2, PrepassGives
        <4>3. \A h \in InBlock(b, Artefacts(Texts[b])) : h.kind = "conversion_artifact"
          <5>1. Rewriting(Texts[b], Artefacts(Texts[b]))
            BY <2>4, ArtefactsAre DEF Readable
          <5>2. Rewriting(Texts[b], InBlock(b, Artefacts(Texts[b])))
            BY <5>1, InBlockRewriting
          <5>. QED
            BY <5>2 DEF Rewriting
        <4>. QED
          BY <4>1, <4>2, <4>3
      <3>. QED
        BY <3>1, <3>2
    <2>. QED
      BY <2>2, <2>3, <2>5 DEF GivenInv
  <1>2. ASSUME review' = review
        PROVE  GivenInv'
    BY <1>2 DEF GivenInv
  <1>3. \/ \E c \in Clients : Review(c)
        \/ review' = review
    BY DEF Next, ApplyReading, PutText, vars
  <1>. QED
    BY <1>1, <1>2, <1>3

\* A batch keeps the readings on their words,
LEMMA WordsApply ==
    ASSUME TextsInv, DraftInv, GivenInv, NEW c \in Clients, NEW kinds, ApplyReading(c, kinds)
    PROVE  ReadingsKeepTheirWords'
  <1>. DEFINE n == Len(blocks)
              batch(b) == Accepted(c, kinds, b)
              new(b) == Applied(blocks[b].text, batch(b))
  <1>1. /\ blocks' = [b \in 1..n |-> Kept(new(b))]
        /\ commit' = [texts |-> Texts, accepted |-> {g \in review[c].found : g.kind \in kinds}]
        /\ review[c].base = revision
    BY DEF ApplyReading, Stale
  <1>2. n \in Nat
    BY DEF TextsInv
  <1>3. review[c].texts = Texts
    BY <1>1 DEF DraftInv
  <1>4. commit'.accepted = {g \in review[c].found : g.kind \in kinds}
    BY <1>1
  <1>5. ASSUME NEW b \in 1..n
        PROVE  /\ blocks[b].text \in Seq(Symbols)
               /\ Rewriting(blocks[b].text, {w \in batch(b) : w.kind = "conversion_artifact"})
               /\ \A g \in batch(b) : g.kind \in Pronounced => Lies(blocks[b].text, g)
    <2>1. Len(Texts) = n /\ Texts[b] = blocks[b].text
      BY <1>2 DEF Texts
    <2>2. /\ Rewriting(blocks[b].text, RewritesAt(review[c].found, b))
          /\ \A g \in review[c].found : g.block = b /\ g.kind \in Pronounced => Lies(blocks[b].text, g)
      BY <1>3, <2>1 DEF GivenInv
    <2>3. {w \in batch(b) : w.kind = "conversion_artifact"} \subseteq RewritesAt(review[c].found, b)
      BY DEF Accepted, RewritesAt
    <2>4. Rewriting(blocks[b].text, {w \in batch(b) : w.kind = "conversion_artifact"})
      BY <2>2, <2>3, RewritingPart
    <2>5. blocks[b].text \in Seq(Symbols)
      BY DEF TextsInv
    <2>. QED
      BY <2>2, <2>4, <2>5 DEF Accepted
  <1>6. ASSUME NEW b \in 1..n, NEW g \in batch(b), g.kind \in Pronounced,
               \A w \in batch(b) : w.kind = "conversion_artifact" => ~Overlap(SpanOf(g), SpanOf(w))
        PROVE  ReadAgain(new(b), g)
    BY <1>5, <1>6, ReadingKeepsItsWords
  <1>7. ASSUME NEW b \in 1..n PROVE {g \in commit'.accepted : g.block = b} = batch(b)
    BY <1>4 DEF Accepted
  <1>. HIDE DEF batch, new, n
  <1>8. Len(blocks') = n /\ \A b \in 1..n : blocks'[b].text = new(b).text /\ blocks'[b].spans = new(b).spans
    BY <1>1, <1>2 DEF Kept
  <1>9. ASSUME NEW b \in 1..n, NEW g \in commit'.accepted, g.block = b, g.kind \in Pronounced,
               ~OverlapsAny(g, {h \in {o \in commit'.accepted : o.block = b} : h.kind = "conversion_artifact"})
        PROVE  \E s \in {r \in blocks'[b].spans : r.kind \notin Structural} :
                   /\ s.spoken = g.replacement
                   /\ Slice(blocks'[b].text, s.start, s.end) = g.original
    <2>1. g \in batch(b)
      BY <1>7, <1>9
    <2>2. \A w \in batch(b) : w.kind = "conversion_artifact" => ~Overlap(SpanOf(g), SpanOf(w))
      BY <1>7, <1>9 DEF OverlapsAny
    <2>3. ReadAgain(new(b), g)
      BY <1>6, <1>9, <2>1, <2>2
    <2>. QED
      BY <1>8, <2>3 DEF ReadAgain
  <1>. QED
    BY <1>8, <1>9 DEF ReadingsKeepTheirWords, Overlays

\* and a draft takes its block out.
LEMMA WordsPut ==
    ASSUME TextsInv, ReadingsKeepTheirWords, NEW c, NEW b, NEW x, PutText(c, b, x)
    PROVE  ReadingsKeepTheirWords'
  <1>1. blocks' = [blocks EXCEPT ![b].text = x] /\ stale' = stale \cup {b} /\ commit' = commit
    BY DEF PutText
  <1>2. Len(blocks') = Len(blocks) /\ \A d \in 1..Len(blocks) : d # b => blocks'[d] = blocks[d]
    BY <1>1 DEF TextsInv
  <1>. QED
    BY <1>1, <1>2 DEF ReadingsKeepTheirWords, Overlays

\* Whatever is accepted of what the pre-pass proposes: a reading that no accepted rewrite
\* cuts is spoken for the words it was proposed for.
THEOREM ReadingsStayOnTheirWords == Spec => []ReadingsKeepTheirWords
  <1>1. Init => ReadingsKeepTheirWords
    BY DEF Init, NoCommit, ReadingsKeepTheirWords
  <1>2. TextsInv /\ DraftInv /\ GivenInv /\ ReadingsKeepTheirWords /\ [Next]_vars => ReadingsKeepTheirWords'
    <2>. SUFFICES ASSUME TextsInv, DraftInv, GivenInv, ReadingsKeepTheirWords, [Next]_vars
                  PROVE  ReadingsKeepTheirWords'
      OBVIOUS
    <2>1. ASSUME NEW c \in Clients, Review(c)
          PROVE  ReadingsKeepTheirWords'
      BY <2>1 DEF Review, ReadingsKeepTheirWords, Overlays
    <2>2. ASSUME NEW c \in Clients, NEW kinds, ApplyReading(c, kinds)
          PROVE  ReadingsKeepTheirWords'
      BY <2>2, WordsApply
    <2>3. ASSUME NEW c, NEW b, NEW x, PutText(c, b, x)
          PROVE  ReadingsKeepTheirWords'
      BY <2>3, WordsPut
    <2>4. CASE UNCHANGED vars
      BY <2>4 DEF vars, ReadingsKeepTheirWords, Overlays
    <2>. QED
      BY <2>1, <2>2, <2>3, <2>4 DEF Next
  <1>. QED
    BY <1>1, <1>2, TextsStart, TextsStep, DraftStart, DraftStep, GivenStart, GivenStep, PTL DEF Spec

\* The pieces at every dash (dialogue.py, _cut).
LEMMA CutAtRow ==
    ASSUME NEW t \in Seq(Symbols), NEW D, Dashed(t, D)
    PROVE  InRow(CutAt(t, D), 0)
  <1>. DEFINE n == Len(D)
              I == 0..n
              from(k) == IF k = 0 THEN 0 ELSE D[k].start
              upto(k) == IF k = n THEN Len(t) ELSE D[k + 1].start
              F == [k \in I |-> from(k)]
              U == [k \in I |-> upto(k)]
              K == [k \in I |-> IF k % 2 = 0 THEN Narration ELSE Spoken]
              S == {s \in {PieceOf(t, F, U, K, k) : k \in I} : s.start < s.end}
  <1>1. Len(t) \in Nat /\ n \in Nat
    BY DEF Dashed
  <1>2. \A k \in 1..n : D[k].start \in Int /\ 0 <= D[k].start /\ D[k].start < Len(t)
    BY <1>1 DEF Dashed, IsDash
  <1>3. \A j, k \in 1..n : j < k => D[j].start < D[k].start
    BY DEF Dashed
  <1>4. CutAt(t, D) = Laid(S)
    <2>1. {PieceOf(t, F, U, K, k) : k \in I}
             = {Seg(IF k % 2 = 0 THEN Narration ELSE Spoken, Trimmed(t, from(k), upto(k))) : k \in I}
      <3>1. \A k \in I : PieceOf(t, F, U, K, k)
                            = Seg(IF k % 2 = 0 THEN Narration ELSE Spoken, Trimmed(t, from(k), upto(k)))
        BY DEF PieceOf
      <3>. HIDE DEF from, upto, F, U, K, I
      <3>. QED
        BY <3>1
    <2>2. CutAt(t, D) = NonEmpty({Seg(IF k % 2 = 0 THEN Narration ELSE Spoken, Trimmed(t, from(k), upto(k))) : k \in I})
      BY DEF CutAt
    <2>. HIDE DEF from, upto, F, U, K, I
    <2>. QED
      BY <2>1, <2>2 DEF NonEmpty
  <1>5. ASSUME NEW k \in I
        PROVE  /\ F[k] = from(k) /\ U[k] = upto(k) /\ from(k) \in 0..Len(t) /\ upto(k) \in 0..Len(t)
               /\ from(k) <= upto(k)
    <2>1. from(k) \in 0..Len(t)
      <3>1. k # 0 => k \in 1..n
        BY <1>1
      <3>. QED
        BY <3>1, <1>1, <1>2
    <2>2. upto(k) \in 0..Len(t)
      <3>1. k # n => k + 1 \in 1..n
        BY <1>1
      <3>. QED
        BY <3>1, <1>1, <1>2
    <2>3. from(k) <= upto(k)
      <3>1. CASE k = 0 \/ k = n
        <4>. HIDE DEF n
        <4>. QED
          BY <3>1, <2>1, <2>2, <1>1
      <3>2. CASE k # 0 /\ k # n
        <4>1. k \in 1..n /\ k + 1 \in 1..n /\ k < k + 1
          BY <3>2, <1>1
        <4>2. D[k].start < D[k + 1].start /\ D[k].start \in Int /\ D[k + 1].start \in Int
          BY <4>1, <1>2, <1>3
        <4>. QED
          BY <4>2, <3>2
      <3>. QED
        BY <3>1, <3>2
    <2>. QED
      BY <2>1, <2>2, <2>3
  <1>6. ASSUME NEW j \in I, NEW k \in I, j < k PROVE upto(j) <= from(k)
    <2>1. j # n /\ k # 0 /\ j + 1 \in 1..n /\ k \in 1..n /\ (j + 1 = k \/ j + 1 < k)
      BY <1>1, <1>6
    <2>2. D[j + 1].start \in Int /\ D[k].start \in Int
      BY <2>1, <1>2
    <2>3. D[j + 1].start <= D[k].start
      BY <2>1, <2>2, <1>3
    <2>. QED
      BY <2>1, <2>3
  <1>7. K \in [I -> {Narration, Spoken}]
    OBVIOUS
  <1>8. F = [k \in I |-> F[k]] /\ U = [k \in I |-> U[k]]
    OBVIOUS
  <1>. HIDE DEF F, U, K
  <1>9. Cutting(t, I, F, U, K)
    <2>1. IsFiniteSet(I)
      <3>1. 0 \in Int /\ n \in Int
        BY <1>1
      <3>. HIDE DEF n
      <3>. QED
        BY <3>1, FS_Interval
    <2>2. F \in [I -> 0..Len(t)] /\ U \in [I -> 0..Len(t)]
      <3>1. \A k \in I : F[k] \in 0..Len(t) /\ U[k] \in 0..Len(t)
        BY <1>5
      <3>. QED
        BY <3>1, <1>8
    <2>3. \A k \in I : F[k] <= U[k]
      BY <1>5
    <2>4. ASSUME NEW j \in I, NEW k \in I, j # k PROVE U[j] <= F[k] \/ U[k] <= F[j]
      <3>1. j < k \/ k < j
        BY <2>4, <1>1
      <3>2. F[j] = from(j) /\ U[j] = upto(j) /\ F[k] = from(k) /\ U[k] = upto(k)
        BY <1>5
      <3>. HIDE DEF from, upto
      <3>. QED
        BY <3>1, <3>2, <1>6
    <2>. HIDE DEF I
    <2>. QED
      BY <2>1, <2>2, <2>3, <2>4, <1>7 DEF Cutting
  <1>10. ApartPieces(S) /\ FromZero(S)
    <2>1. S \subseteq {PieceOf(t, F, U, K, k) : k \in I} /\ \A s \in S : s.start < s.end
      OBVIOUS
    <2>. HIDE DEF S, I
    <2>. QED
      BY <2>1, <1>9, CutPieces
  <1>. HIDE DEF S
  <1>. QED
    BY <1>4, <1>10, LaidInRow

\* What is proposed for the dialogue of a text: at most one tiling of it.
LEMMA SplitsStand ==
    ASSUME NEW t \in Seq(Symbols)
    PROVE  /\ \A g \in Splits(t) : /\ Suggested(g) /\ g.kind = "dialogue_split" /\ g.start = 0 /\ g.end = Len(t)
                                   /\ InRow(g.segments, 0)
           /\ \A g, h \in Splits(t) : g = h
  <1>. DEFINE D == FindDashes(t)
              Q == FindQuotes(t)
              C == Confirmed(t, D)
              X == Analysis(t)
              P == ProposedSplit(t)
  <1>1. Len(t) \in Nat
    OBVIOUS
  <1>2. Dashed(t, D)
    <2>1. D \in Seq([start : Int, content : {FirstNot(t, i + 1, Space) : i \in Int}, kind : {DashKind(t, i) : i \in Int}])
          /\ (\A k \in 1..Len(D) : IsDash(t, D[k]))
          /\ (\A j, k \in 1..Len(D) : j < k => D[j].start < D[k].start)
      BY DashesInOrder
    <2>. HIDE DEF D
    <2>2. Len(D) \in Nat /\ DOMAIN D = 1..Len(D)
      BY <2>1
    <2>. QED
      BY <2>1, <2>2 DEF Dashed
  <1>3. X = Judged(t, D, C, Q)
    BY DEF Analysis
  <1>. HIDE DEF D, X
  <1>4. PICK a : Choice(t, D, Len(D), a) /\ C = a.chosen
    BY <1>2, ConfirmedChoice
  <1>. HIDE DEF C
  <1>5. Quoting(t, 0, Q.pairs)
    BY QuotesFound DEF Found
  <1>. HIDE DEF Q
  <1>6. C # <<>> => InRow(DashTiling(t, C), 0)
    BY <1>2, <1>4, DashTilingTiles
  <1>7. InRow(CutAt(t, D), 0)
    BY <1>2, CutAtRow
  <1>8. InRow(Whole(t), 0) /\ InRow(QuoteTiling(t, Q.pairs), 0)
    <2>. DEFINE none == <<>>
    <2>1. none = <<>>
      OBVIOUS
    <2>. HIDE DEF none
    <2>2. Tiled(t, Whole(t), none) /\ InRow(Whole(t), 0)
      BY <2>1, WholeTiles
    <2>3. Tiled(t, QuoteTiling(t, Q.pairs), none) /\ InRow(QuoteTiling(t, Q.pairs), 0)
      BY <2>1, <1>5, QuoteTilingTiles
    <2>. QED
      BY <2>2, <2>3
  <1>9. InRow(Loose(t, D, Q), 0)
    BY <1>7, <1>8 DEF Loose
  <1>10. InRow(X.proposed, 0)
    <2>1. CASE C # <<>>
      BY <2>1, <1>3, <1>6 DEF Judged, Sure
    <2>2. CASE C = <<>> /\ (Q.open \/ D # <<>>)
      <3>. DEFINE L == Loose(t, D, Q)
                  reason == CASE Q.open -> "unbalanced_quote"
                              [] ~Q.open /\ Len(D) % 2 = 1 -> "odd_dash"
                              [] OTHER -> "unconfirmed_dash"
      <3>1. X = ToReview(t, reason, L)
        BY <2>2, <1>3 DEF Judged
      <3>. HIDE DEF reason, L
      <3>2. X.proposed = L
        BY <3>1 DEF ToReview
      <3>. QED
        BY <3>2, <1>9 DEF L
    <2>3. CASE C = <<>> /\ ~(Q.open \/ D # <<>>)
      <3>1. \/ X = Sure(Whole(t)) \/ X = Sure(QuoteTiling(t, Q.pairs))
            \/ X = ToReview(t, "quote_without_verb", QuoteTiling(t, Q.pairs))
        BY <2>3, <1>3 DEF Judged
      <3>. QED
        BY <3>1, <1>8 DEF Sure, ToReview
    <2>. QED
      BY <2>1, <2>2, <2>3
  <1>11. P = <<>> \/ P = <<[reason |-> X.reason, segments |-> X.proposed]>>
    BY DEF ProposedSplit, Split, X
  <1>. HIDE DEF P
  <1>12. \A p \in ToSet(P) : p = [reason |-> X.reason, segments |-> X.proposed]
    BY <1>11 DEF ToSet
  <1>13. \A g \in Splits(t) : \E p \in ToSet(P) : g = SplitSuggestion(t, p)
    BY DEF Splits, P
  <1>. DEFINE q == [reason |-> X.reason, segments |-> X.proposed]
              G == SplitSuggestion(t, q)
  <1>14. \A g \in Splits(t) : g = G
    BY <1>12, <1>13
  <1>15. /\ Suggested(G) /\ G.kind = "dialogue_split" /\ G.start = 0 /\ G.end = Len(t)
         /\ G.segments = X.proposed
    <2>. DEFINE s == <<0, Len(t)>>
                x == Suggestion(t, "dialogue_split", s, <<>>, q.reason)
    <2>1. G = [x EXCEPT !.segments = X.proposed]
      BY DEF SplitSuggestion
    <2>2. Suggested(x) /\ x.kind = "dialogue_split"
      BY SuggestionIs
    <2>3. x.start = 0 /\ x.end = Len(t)
      BY DEF Suggestion
    <2>. HIDE DEF x, G
    <2>. QED
      BY <2>1, <2>2, <2>3 DEF Suggested
  <1>. HIDE DEF G
  <1>. QED
    BY <1>10, <1>14, <1>15

-----------------------------------------------------------------------------
(* Readings that do not meet.                                              *)

\* A reading of a part of a text.
ReadsPart(t, K, g) == /\ Suggested(g) /\ g.kind \in K
                      /\ g.start \in 0..(Len(t) - 1) /\ g.end \in (g.start + 1)..Len(t)

\* Readings of some kinds, on parts of a text that do not meet.
Readings(t, K, A) == (\A g \in A : ReadsPart(t, K, g)) /\ NoOverlap(A)

\* One for each of R, on a part of its own.
Spread(t, K, R, F) == /\ \A r \in R : ReadsPart(t, K, F[r])
                      /\ \A r, q \in R : r # q => F[r].end <= F[q].start \/ F[q].end <= F[r].start

\* Such readings do not meet.
LEMMA SpreadReads ==
    ASSUME NEW t \in Seq(Symbols), NEW K, NEW R, NEW F, Spread(t, K, R, F), NEW A, A \subseteq {F[r] : r \in R}
    PROVE  Readings(t, K, A)
  <1>1. Len(t) \in Nat
    OBVIOUS
  <1>2. \A g \in A : ReadsPart(t, K, g)
    BY DEF Spread
  <1>3. ASSUME NEW g \in A, NEW h \in A, g # h PROVE ~Overlap(SpanOf(g), SpanOf(h))
    <2>1. PICK r \in R : g = F[r]
      OBVIOUS
    <2>2. PICK q \in R : h = F[q]
      OBVIOUS
    <2>3. r # q
      BY <2>1, <2>2, <1>3
    <2>4. g.end <= h.start \/ h.end <= g.start
      BY <2>1, <2>2, <2>3 DEF Spread
    <2>5. g.start \in 0..(Len(t) - 1) /\ g.end \in (g.start + 1)..Len(t)
          /\ h.start \in 0..(Len(t) - 1) /\ h.end \in (h.start + 1)..Len(t)
      BY <1>2 DEF ReadsPart
    <2>6. g.start \in Int /\ g.end \in Int /\ h.start \in Int /\ h.end \in Int
      BY <1>1, <2>5
    <2>. QED
      BY <2>4, <2>6 DEF Overlap, SpanOf
  <1>. QED
    BY <1>2, <1>3 DEF Readings, NoOverlap

\* Some of such readings do not meet either.
LEMMA ReadingsPart == ASSUME NEW t, NEW K, NEW A, Readings(t, K, A), NEW B, B \subseteq A PROVE Readings(t, K, B)
  BY DEF Readings, NoOverlap

\* What several such searches find in turn,
LEMMA ReadingsInTurn ==
    ASSUME NEW t, NEW K, NEW S, Len(S) \in Nat, \A k \in 1..Len(S) : Readings(t, K, S[k])
    PROVE  Readings(t, K, InTurn(S))
  <1>1. \A k \in 1..Len(S) : NoOverlap(S[k])
    BY DEF Readings
  <1>2. NoOverlap(InTurn(S))
    BY <1>1, InTurnApart
  <1>3. \A g \in InTurn(S) : \E k \in 1..Len(S) : g \in S[k]
    BY InTurnFrom
  <1>4. \A g \in InTurn(S) : ReadsPart(t, K, g)
    BY <1>3 DEF Readings
  <1>. QED
    BY <1>2, <1>4 DEF Readings

\* what they claim,
LEMMA ReadingsClaimed ==
    ASSUME NEW t, NEW K, NEW S, Len(S) \in Nat, \A k \in 1..Len(S) : Readings(t, K, S[k])
    PROVE  Readings(t, K, Claimed(S))
  <1>. DEFINE C == [k \in 1..Len(S) |-> {g \in S[k] : g.original # g.replacement}]
  <1>1. Claimed(S) = InTurn(C)
    BY DEF Claimed
  <1>2. Len(C) = Len(S) /\ \A k \in 1..Len(S) : C[k] \subseteq S[k]
    OBVIOUS
  <1>. HIDE DEF C
  <1>3. \A k \in 1..Len(C) : Readings(t, K, C[k])
    BY <1>2, ReadingsPart
  <1>. QED
    BY <1>1, <1>2, <1>3, ReadingsInTurn

\* and what is added to it.
LEMMA ReadingsAdded ==
    ASSUME NEW t, NEW K, NEW A, NEW B, Readings(t, K, A), Readings(t, K, B)
    PROVE  Readings(t, K, Adding(A, B))
  <1>1. \A g \in Adding(A, B) : g \in A \/ (g \in B /\ \A o \in A : ~Overlap(SpanOf(g), SpanOf(o)))
    BY DEF Adding, Apart, OverlapsAny
  <1>2. \A g, h : Overlap(SpanOf(g), SpanOf(h)) => Overlap(SpanOf(h), SpanOf(g))
    BY DEF Overlap
  <1>. QED
    BY <1>1, <1>2 DEF Readings, NoOverlap

-----------------------------------------------------------------------------
(* Where the searches find something.                                      *)

\* A run goes on as far as its class of symbols does.
LEMMA RunIs ==
    ASSUME NEW t \in Seq(Symbols), NEW S, NEW r \in Runs(t, 0, Len(t), S)
    PROVE  /\ r[1] \in Nat /\ r[2] \in Nat /\ r[1] < r[2] /\ r[2] <= Len(t) /\ r = <<r[1], r[2]>>
           /\ r[2] = FirstNot(t, r[1], S)
           /\ At(t, r[1]) \in S /\ (r[1] = 0 \/ At(t, r[1] - 1) \notin S)
           /\ \A j \in r[1]..(r[2] - 1) : At(t, j) \in S
  <1>. DEFINE n == Len(t)
              at == {j \in 0..(n - 1) : At(t, j) \in S /\ (j = 0 \/ At(t, j - 1) \notin S)}
              end(i) == Min({n, FirstNot(t, i, S)})
  <1>1. n \in Nat
    OBVIOUS
  <1>2. Runs(t, 0, n, S) = {<<i, end(i)>> : i \in at}
    BY DEF Runs
  <1>3. PICK i \in at : r = <<i, end(i)>>
    BY <1>2
  <1>. DEFINE f == FirstNot(t, i, S)
              T == {n, f}
  <1>4. i \in 0..n /\ i \in 0..(n - 1) /\ At(t, i) \in S /\ (i = 0 \/ At(t, i - 1) \notin S)
    BY <1>1
  <1>5. f \in i..n /\ (\A j \in i..(f - 1) : At(t, j) \in S) /\ (f < n => At(t, f) \notin S)
    BY <1>4, FirstNotIs
  <1>. HIDE DEF f, n, at
  <1>6. T \in SUBSET Int /\ T # {} /\ \A k \in T : f <= k
    BY <1>1, <1>4, <1>5
  <1>7. f \in Int
    BY <1>1, <1>4, <1>5
  <1>. HIDE DEF T
  <1>8. Min(T) \in T /\ \A k \in T : Min(T) <= k
    BY <1>6, <1>7, LeastOf
  <1>9. end(i) = f
    BY <1>6, <1>7, <1>8, <1>1, <1>5 DEF T, f
  <1>10. f # i
    BY <1>4, <1>5, <1>1
  <1>11. r[1] = i /\ r[2] = f /\ r = <<r[1], r[2]>>
    <2>. HIDE DEF end
    <2>. QED
      BY <1>3, <1>9
  <1>12. i \in Nat /\ f \in Nat /\ i < f /\ f <= n
    BY <1>1, <1>4, <1>5, <1>10
  <1>. QED
    BY <1>4, <1>5, <1>11, <1>12 DEF f, n

\* There is something between two runs.
LEMMA RunsInOrder ==
    ASSUME NEW t \in Seq(Symbols), NEW S, NEW r \in Runs(t, 0, Len(t), S), NEW q \in Runs(t, 0, Len(t), S), r # q
    PROVE  r[2] < q[1] \/ q[2] < r[1]
  <1>1. /\ r[1] \in Nat /\ r[2] \in Nat /\ r[1] < r[2] /\ r = <<r[1], r[2]>> /\ r[2] = FirstNot(t, r[1], S)
        /\ (r[1] = 0 \/ At(t, r[1] - 1) \notin S) /\ \A j \in r[1]..(r[2] - 1) : At(t, j) \in S
    BY RunIs
  <1>2. /\ q[1] \in Nat /\ q[2] \in Nat /\ q[1] < q[2] /\ q = <<q[1], q[2]>> /\ q[2] = FirstNot(t, q[1], S)
        /\ (q[1] = 0 \/ At(t, q[1] - 1) \notin S) /\ \A j \in q[1]..(q[2] - 1) : At(t, j) \in S
    BY RunIs
  <1>3. r[1] # q[1]
    BY <1>1, <1>2
  <1>4. CASE r[1] < q[1]
    <2>1. q[1] - 1 \notin r[1]..(r[2] - 1)
      BY <1>1, <1>2, <1>4
    <2>. QED
      BY <1>1, <1>2, <1>4, <2>1
  <1>5. CASE q[1] < r[1]
    <2>1. r[1] - 1 \notin q[1]..(q[2] - 1)
      BY <1>1, <1>2, <1>5
    <2>. QED
      BY <1>1, <1>2, <1>5, <2>1
  <1>. QED
    BY <1>1, <1>2, <1>3, <1>4, <1>5

\* The symbols of a part of a text.
LEMMA SliceHas ==
    ASSUME NEW t \in Seq(Symbols), NEW a \in Nat, NEW b \in Nat, b <= Len(t), NEW j \in a..(b - 1)
    PROVE  At(t, j) \in ToSet(Slice(t, a, b))
  <1>1. Len(t) \in Nat
    OBVIOUS
  <1>. DEFINE s == Slice(t, a, b)
              k == j - a + 1
  <1>2. s = SubSeq(t, a + 1, b)
    BY DEF Slice
  <1>3. a + 1 \in 1..Len(t) /\ b \in 1..Len(t) /\ a + 1 <= b /\ k \in 1..(b - a)
    BY <1>1
  <1>4. Len(s) = b - a /\ s[k] = t[a + k] /\ DOMAIN s = 1..(b - a)
    <2>1. s \in Seq(Symbols)
      BY <1>2, <1>3
    <2>2. Len(s) = b - a
      BY <1>2, <1>3
    <2>3. s[k] = t[(a + 1) + k - 1]
      BY <1>2, <1>3
    <2>. HIDE DEF s
    <2>. QED
      BY <2>1, <2>2, <2>3, <1>3
  <1>5. t[a + k] = At(t, j)
    BY <1>3 DEF At
  <1>. HIDE DEF s, k
  <1>. QED
    BY <1>3, <1>4, <1>5 DEF ToSet, s

\* A numeral lies where it is said to.
LEMMA NumeralAt ==
    ASSUME NEW t, NEW kind, NEW s, NEW words, NEW reason, NEW form
    PROVE  /\ Suggested(NumeralMark(t, kind, s, words, reason, form))
           /\ NumeralMark(t, kind, s, words, reason, form).kind = kind
           /\ NumeralMark(t, kind, s, words, reason, form).start = s[1]
           /\ NumeralMark(t, kind, s, words, reason, form).end = s[2]
  <1>. DEFINE r == Spaced(words)
              g == NumeralMark(t, kind, s, words, reason, form)
  <1>1. g = [Suggestion(t, kind, s, r, reason) EXCEPT !.form = form]
    BY DEF NumeralMark
  <1>. HIDE DEF g, r
  <1>2. Suggested(g) /\ g.kind = kind /\ g.start = s[1] /\ g.end = s[2]
    BY <1>1 DEF Suggested, Suggestion
  <1>. QED
    BY <1>2 DEF g

\* The same of a mark by its name.
LEMMA NumeralIs ==
    ASSUME NEW t, NEW kind, NEW s, NEW words, NEW reason, NEW form,
           NEW g, g = NumeralMark(t, kind, s, words, reason, form)
    PROVE  Suggested(g) /\ g.kind = kind /\ g.start = s[1] /\ g.end = s[2]
  BY NumeralAt

\* So does any suggestion.
LEMMA SuggestionAt ==
    ASSUME NEW t, NEW kind, NEW s, NEW r, NEW reason
    PROVE  /\ Suggested(Suggestion(t, kind, s, r, reason)) /\ Suggestion(t, kind, s, r, reason).kind = kind
           /\ Suggestion(t, kind, s, r, reason).start = s[1] /\ Suggestion(t, kind, s, r, reason).end = s[2]
  BY DEF Suggested, Suggestion

\* Suggestions on stretches that are apart do not meet.
LEMMA StretchesRead ==
    ASSUME NEW t \in Seq(Symbols), NEW K, NEW M, Stretches(t, M), AreApart(M), NEW F,
           \A m \in M : Suggested(F[m]) /\ F[m].kind \in K /\ F[m].start = m[1] /\ F[m].end = m[2],
           NEW A, A \subseteq {F[m] : m \in M}
    PROVE  Readings(t, K, A)
  <1>1. \A m \in M : ReadsPart(t, K, F[m])
    BY DEF Stretches, ReadsPart
  <1>2. \A m, o \in M : m # o => F[m].end <= F[o].start \/ F[o].end <= F[m].start
    BY DEF AreApart
  <1>3. Spread(t, K, M, F)
    BY <1>1, <1>2 DEF Spread
  <1>. QED
    BY <1>3, SpreadReads

-----------------------------------------------------------------------------
(* No search finds readings that meet.                                     *)

\* A word that heads a number is no part of one.
LEMMA HeadingWordsApart ==
    /\ "sp" \notin DOMAIN HeadingWords
    /\ \A c \in Digits : c \notin DOMAIN HeadingWords
    /\ \A c \in Romans : c \notin DOMAIN HeadingWords
  BY DEF HeadingWords, Digits, Romans, RomanValue

\* Numbered headings,
LEMMA HeadingsApart ==
    ASSUME NEW t \in Seq(Symbols), NEW heading
    PROVE  Readings(t, LexiconWins, Headings(t, heading))
  <1>. DEFINE token(i) == LET a == FirstNot(t, i + 1, {"sp"}) IN <<a, FirstNot(t, a, Alnum)>>
              text(i) == Slice(t, token(i)[1], token(i)[2])
              value(i) == IF ToSet(text(i)) \subseteq Digits THEN Number(text(i)) ELSE ParseRoman(text(i))
              at == {i \in 0..(Len(t) - 1) :
                       /\ Clear(t, i) /\ At(t, i) \in DOMAIN HeadingWords
                       /\ Is(t, i + 1, "sp") /\ text(i) # <<>>
                       /\ \/ ToSet(text(i)) \subseteq Digits /\ Len(text(i)) <= 4
                          \/ ToSet(text(i)) \subseteq Romans /\ Len(text(i)) <= 12 /\ value(i) # 0}
              kind(i) == IF heading \/ Blank(Slice(t, 0, i)) THEN "ordinal_heading" ELSE "numeral"
              words(i) == <<At(t, i)>> \o Ordinal(value(i))
              form(i) == HeadingWords[At(t, i)]
              mark(i) == NumeralMark(t, kind(i), <<i, token(i)[2]>>, words(i), "heading_ordinal", form(i))
              F == [i \in at |-> mark(i)]
  <1>0. Len(t) \in Nat
    OBVIOUS
  <1>1. Headings(t, heading) = {mark(i) : i \in at}
    BY DEF Headings
  <1>2. ASSUME NEW i \in at
        PROVE  /\ i \in Nat /\ i < Len(t) /\ At(t, i) \in DOMAIN HeadingWords
               /\ token(i)[2] \in Nat /\ i < token(i)[2] /\ token(i)[2] <= Len(t)
               /\ \A j \in (i + 1)..(token(i)[2] - 1) : At(t, j) \notin DOMAIN HeadingWords
    <2>. DEFINE a == FirstNot(t, i + 1, {"sp"})
                e == FirstNot(t, a, Alnum)
    <2>1. token(i)[1] = a /\ token(i)[2] = e
      OBVIOUS
    <2>2. /\ i \in 0..(Len(t) - 1) /\ At(t, i) \in DOMAIN HeadingWords
          /\ ToSet(text(i)) \subseteq Digits \/ ToSet(text(i)) \subseteq Romans
      OBVIOUS
    <2>3. text(i) = Slice(t, a, e)
      OBVIOUS
    <2>4. i + 1 \in 0..Len(t) /\ i \in Nat /\ i < Len(t)
      BY <1>0, <2>2
    <2>. HIDE DEF at, text
    <2>5. a \in (i + 1)..Len(t) /\ \A j \in (i + 1)..(a - 1) : At(t, j) \in {"sp"}
      BY <2>4, FirstNotIs
    <2>. HIDE DEF a
    <2>6. a \in 0..Len(t) /\ a \in Nat
      BY <2>4, <2>5
    <2>7. e \in a..Len(t)
      BY <2>6, FirstNotIs
    <2>. HIDE DEF e, token
    <2>8. e \in Nat /\ a <= e /\ e <= Len(t)
      BY <1>0, <2>6, <2>7
    <2>9. \A j \in a..(e - 1) : At(t, j) \in ToSet(Slice(t, a, e))
      BY <2>6, <2>8, SliceHas
    <2>10. \A c \in ToSet(text(i)) : c \notin DOMAIN HeadingWords
      BY <2>2, HeadingWordsApart
    <2>11. ASSUME NEW j \in (i + 1)..(e - 1) PROVE At(t, j) \notin DOMAIN HeadingWords
      <3>1. CASE j < a
        <4>1. j \in (i + 1)..(a - 1)
          BY <2>4, <2>6, <2>8, <3>1
        <4>2. At(t, j) = "sp"
          BY <4>1, <2>5
        <4>. QED
          BY <4>2, HeadingWordsApart
      <3>2. CASE ~(j < a)
        <4>1. j \in a..(e - 1)
          BY <2>4, <2>6, <2>8, <3>2
        <4>2. At(t, j) \in ToSet(text(i))
          BY <4>1, <2>9, <2>3
        <4>. QED
          BY <4>2, <2>10
      <3>. QED
        BY <3>1, <3>2
    <2>12. i < e
      BY <2>4, <2>5, <2>6, <2>8
    <2>. QED
      BY <2>1, <2>2, <2>4, <2>8, <2>11, <2>12
  <1>3. ASSUME NEW i
        PROVE  Suggested(mark(i)) /\ mark(i).kind = kind(i) /\ mark(i).start = i /\ mark(i).end = token(i)[2]
    <2>. DEFINE s == <<i, token(i)[2]>>
    <2>1. s[1] = i /\ s[2] = token(i)[2]
      OBVIOUS
    <2>2. mark(i) = NumeralMark(t, kind(i), s, words(i), "heading_ordinal", form(i))
      OBVIOUS
    <2>. HIDE DEF s, kind, token, words, form, mark
    <2>. QED
      BY <2>1, <2>2, NumeralAt
  <1>4. \A i : kind(i) \in LexiconWins
    BY DEF LexiconWins
  <1>. HIDE DEF token, text, at, kind, mark
  <1>5. ASSUME NEW i \in at PROVE ReadsPart(t, LexiconWins, F[i])
    BY <1>0, <1>2, <1>3, <1>4 DEF ReadsPart
  <1>6. ASSUME NEW i \in at, NEW j \in at, i < j PROVE token(i)[2] <= j
    <2>1. j \notin (i + 1)..(token(i)[2] - 1)
      BY <1>2
    <2>. QED
      BY <2>1, <1>2, <1>6
  <1>7. ASSUME NEW i \in at, NEW j \in at, i # j PROVE F[i].end <= F[j].start \/ F[j].end <= F[i].start
    <2>1. i < j \/ j < i
      BY <1>2, <1>7
    <2>. QED
      BY <2>1, <1>3, <1>6
  <1>8. Spread(t, LexiconWins, at, F)
    BY <1>5, <1>7 DEF Spread
  <1>9. Headings(t, heading) \subseteq {F[i] : i \in at}
    BY <1>1
  <1>. HIDE DEF F
  <1>. QED
    BY <1>8, <1>9, SpreadReads

\* times,
LEMMA ClocksApart ==
    ASSUME NEW t \in Seq(Symbols)
    PROVE  Readings(t, LexiconWins, Clocks(t))
  <1>. DEFINE minutes(r) == DigitsFrom(t, r[2] + 1)
              at == {r \in DigitRuns(t) :
                       /\ r[2] - r[1] <= 2 /\ Is(t, r[2], "colon")
                       /\ minutes(r)[2] - minutes(r)[1] = 2
                       /\ Over(t, minutes(r)[2]) /\ ~Is(t, minutes(r)[2], "colon")
                       /\ NumberAt(t, r) <= 23 /\ NumberAt(t, minutes(r)) <= 59}
              words(r) == ClockPhrase(NumberAt(t, r), NumberAt(t, minutes(r)))
              mark(r) == NumeralMark(t, "numeral", <<r[1], minutes(r)[2]>>, words(r), "clock", "loc")
              F == [r \in at |-> mark(r)]
              e(r) == minutes(r)[2]
  <1>0. Len(t) \in Nat
    OBVIOUS
  <1>1. Clocks(t) = {mark(r) : r \in at}
    BY DEF Clocks
  <1>2. ASSUME NEW r
        PROVE  Suggested(mark(r)) /\ mark(r).kind = "numeral" /\ mark(r).start = r[1] /\ mark(r).end = e(r)
    <2>. DEFINE s == <<r[1], e(r)>>
    <2>1. s[1] = r[1] /\ s[2] = e(r)
      OBVIOUS
    <2>2. mark(r) = NumeralMark(t, "numeral", s, words(r), "clock", "loc")
      OBVIOUS
    <2>. HIDE DEF s, e, words, mark
    <2>3. Suggested(mark(r)) /\ mark(r).kind = "numeral" /\ mark(r).start = s[1] /\ mark(r).end = s[2]
      BY <2>2, NumeralIs
    <2>. QED
      BY <2>1, <2>3
  <1>3. ASSUME NEW r \in at
        PROVE  /\ r \in DigitRuns(t) /\ r \in Runs(t, 0, Len(t), Digits) /\ Is(t, r[2], "colon") /\ r[2] < Len(t)
               /\ ~Is(t, e(r), "colon") /\ e(r) - minutes(r)[1] = 2
    BY DEF DigitRuns, Is
  <1>. HIDE DEF at, mark
  <1>4. ASSUME NEW r \in at
        PROVE  /\ r[1] \in Nat /\ r[2] \in Nat /\ r[1] < r[2] /\ r[2] < Len(t)
               /\ e(r) = FirstNot(t, r[2] + 1, Digits) /\ e(r) \in Nat /\ r[2] < e(r) /\ e(r) <= Len(t)
               /\ \A j \in (r[2] + 1)..(e(r) - 1) : At(t, j) \in Digits
    <2>1. r[1] \in Nat /\ r[2] \in Nat /\ r[1] < r[2] /\ r[2] < Len(t)
      BY <1>3, RunIs
    <2>. DEFINE i == r[2] + 1
    <2>2. i \in 0..Len(t) /\ i \in Nat
      BY <1>0, <2>1
    <2>3. e(r) - minutes(r)[1] = 2
      BY <1>3
    <2>4. e(r) = FirstNot(t, i, Digits)
      <3>1. i < Len(t) => DigitsFrom(t, i) = <<i, FirstNot(t, i, Digits)>>
        BY DEF DigitsFrom
      <3>2. ~(i < Len(t)) => DigitsFrom(t, i) = <<i, i>>
        BY DEF DigitsFrom
      <3>3. minutes(r) = DigitsFrom(t, i)
        OBVIOUS
      <3>. HIDE DEF i, minutes
      <3>. QED
        BY <2>2, <2>3, <3>1, <3>2, <3>3
    <2>. HIDE DEF i, e, minutes
    <2>5. e(r) \in i..Len(t) /\ \A j \in i..(e(r) - 1) : At(t, j) \in Digits
      BY <2>2, <2>4, FirstNotIs
    <2>6. e(r) \in Nat /\ i <= e(r) /\ e(r) <= Len(t)
      BY <1>0, <2>2, <2>5
    <2>. QED
      BY <2>1, <2>4, <2>5, <2>6 DEF i
  <1>. HIDE DEF minutes
  <1>5. ASSUME NEW r \in at, NEW q \in at, r[2] < q[1] PROVE e(r) <= q[1]
    <2>. SUFFICES ASSUME q[1] < e(r) PROVE FALSE
      BY <1>4
    <2>1. /\ q[1] \in Nat /\ q[2] = FirstNot(t, q[1], Digits) /\ (q[1] = 0 \/ At(t, q[1] - 1) \notin Digits)
      BY <1>3, RunIs
    <2>2. CASE q[1] = r[2] + 1
      <3>1. q[2] = e(r)
        BY <2>1, <2>2, <1>4
      <3>. QED
        BY <3>1, <1>3
    <2>3. CASE q[1] # r[2] + 1
      <3>1. q[1] - 1 \in (r[2] + 1)..(e(r) - 1) /\ q[1] # 0
        BY <2>1, <2>3, <1>4, <1>5
      <3>. QED
        BY <3>1, <2>1, <1>4
    <2>. QED
      BY <2>2, <2>3
  <1>. HIDE DEF e
  <1>6. ASSUME NEW r \in at PROVE ReadsPart(t, LexiconWins, F[r])
    <2>1. F[r] = mark(r)
      OBVIOUS
    <2>. HIDE DEF F
    <2>. QED
      BY <2>1, <1>0, <1>2, <1>4 DEF ReadsPart, LexiconWins
  <1>7. ASSUME NEW r \in at, NEW q \in at, r # q PROVE F[r].end <= F[q].start \/ F[q].end <= F[r].start
    <2>1. r[2] < q[1] \/ q[2] < r[1]
      BY <1>3, <1>7, RunsInOrder
    <2>. QED
      BY <2>1, <1>2, <1>5
  <1>8. Spread(t, LexiconWins, at, F)
    BY <1>6, <1>7 DEF Spread
  <1>9. Clocks(t) \subseteq {F[r] : r \in at}
    BY <1>1
  <1>. HIDE DEF F
  <1>. QED
    BY <1>8, <1>9, SpreadReads

\* decimals,
LEMMA DecimalsApart ==
    ASSUME NEW t \in Seq(Symbols)
    PROVE  Readings(t, LexiconWins, Decimals(t))
  <1>. DEFINE places(r) == DigitsFrom(t, r[2] + 1)
              at == {r \in DigitRuns(t) : /\ Is(t, r[2], "comma") /\ places(r)[2] > places(r)[1]
                                          /\ Over(t, places(r)[2])}
              M == {<<r[1], places(r)[2]>> : r \in at}
              R == {q \in at : <<q[1], places(q)[2]>> \in Scan(M)}
              words(r) == DecimalPhrase(NumberAt(t, r), Slice(t, places(r)[1], places(r)[2]))
              mark(r) == NumeralMark(t, "numeral", <<r[1], places(r)[2]>>, words(r), "decimal", "")
              F == [r \in R |-> mark(r)]
              e(r) == places(r)[2]
  <1>0. Len(t) \in Nat
    OBVIOUS
  <1>1. Decimals(t) = {mark(r) : r \in R}
    BY DEF Decimals
  <1>2. ASSUME NEW r
        PROVE  Suggested(mark(r)) /\ mark(r).kind = "numeral" /\ mark(r).start = r[1] /\ mark(r).end = e(r)
    <2>. DEFINE s == <<r[1], e(r)>>
    <2>1. s[1] = r[1] /\ s[2] = e(r)
      OBVIOUS
    <2>. DEFINE none == ""
    <2>2. mark(r) = NumeralMark(t, "numeral", s, words(r), "decimal", none)
      OBVIOUS
    <2>. HIDE DEF s, e, words, mark, none
    <2>3. Suggested(mark(r)) /\ mark(r).kind = "numeral" /\ mark(r).start = s[1] /\ mark(r).end = s[2]
      BY <2>2, NumeralIs
    <2>. QED
      BY <2>1, <2>3
  <1>3. ASSUME NEW r \in at
        PROVE  /\ r \in DigitRuns(t) /\ r \in Runs(t, 0, Len(t), Digits) /\ r[2] < Len(t)
    BY DEF DigitRuns, Is
  <1>4. ASSUME NEW r \in at
        PROVE  /\ r[1] \in 0..(Len(t) - 1) /\ e(r) \in (r[1] + 1)..Len(t) /\ r[1] \in Int /\ e(r) \in Int
    <2>1. r[1] \in Nat /\ r[2] \in Int /\ r[1] < r[2] /\ r[2] < Len(t)
          /\ e(r) \in Int /\ r[2] < e(r) /\ e(r) <= Len(t)
      BY <1>3, DigitsLie
    <2>. HIDE DEF e
    <2>. QED
      BY <1>0, <2>1
  <1>5. Stretches(t, M)
    <2>1. M = {<<r[1], e(r)>> : r \in at}
      OBVIOUS
    <2>. HIDE DEF e, at, M
    <2>2. ASSUME NEW m \in M PROVE m \in Int \X Int /\ m[1] \in 0..(Len(t) - 1) /\ m[2] \in (m[1] + 1)..Len(t)
      <3>1. PICK r \in at : m = <<r[1], e(r)>>
        BY <2>1
      <3>. QED
        BY <3>1, <1>4
    <2>. QED
      BY <2>2 DEF Stretches
  <1>6. \A r \in R : r \in at /\ <<r[1], e(r)>> \in Scan(M)
    OBVIOUS
  <1>. HIDE DEF at, mark, e, M, places, R
  <1>7. AreApart(Scan(M))
    BY <1>5, ScanApart
  <1>8. ASSUME NEW r \in R PROVE ReadsPart(t, LexiconWins, F[r])
    <2>1. F[r] = mark(r)
      OBVIOUS
    <2>. HIDE DEF F
    <2>. QED
      BY <2>1, <1>0, <1>2, <1>4, <1>6 DEF ReadsPart, LexiconWins
  <1>9. ASSUME NEW r \in R, NEW q \in R, r # q PROVE F[r].end <= F[q].start \/ F[q].end <= F[r].start
    <2>1. r[1] # q[1]
      <3>1. r[2] < q[1] \/ q[2] < r[1]
        BY <1>3, <1>6, <1>9, RunsInOrder
      <3>2. r[1] \in Nat /\ r[2] \in Nat /\ r[1] < r[2] /\ q[1] \in Nat /\ q[2] \in Nat /\ q[1] < q[2]
        BY <1>3, <1>6, RunIs
      <3>. QED
        BY <3>1, <3>2
    <2>. DEFINE m == <<r[1], e(r)>>
                o == <<q[1], e(q)>>
    <2>2. m # o /\ m \in Scan(M) /\ o \in Scan(M)
      BY <2>1, <1>6
    <2>3. m[1] = r[1] /\ m[2] = e(r) /\ o[1] = q[1] /\ o[2] = e(q)
      OBVIOUS
    <2>. HIDE DEF m, o
    <2>4. m[2] <= o[1] \/ o[2] <= m[1]
      BY <2>2, <1>7 DEF AreApart
    <2>. QED
      BY <2>3, <2>4, <1>2
  <1>10. Spread(t, LexiconWins, R, F)
    BY <1>8, <1>9 DEF Spread
  <1>11. Decimals(t) \subseteq {F[r] : r \in R}
    BY <1>1
  <1>. HIDE DEF F
  <1>. QED
    BY <1>10, <1>11, SpreadReads

\* Roman numerals,
LEMMA RomansApart ==
    ASSUME NEW t \in Seq(Symbols), NEW heading
    PROVE  Readings(t, LexiconWins, RomanNumerals(t, heading))
  <1>. DEFINE text(r) == Slice(t, r[1], r[2])
              runs == {r \in Runs(t, 0, Len(t), Alnum) :
                         /\ ToSet(text(r)) \subseteq Romans /\ Len(text(r)) <= 15 /\ ParseRoman(text(r)) # 0}
              near(r) == IF NounForm(NextWord(t, r[2])) # Nothing THEN NounForm(NextWord(t, r[2]))
                         ELSE NounForm(PreviousWord(t, r[1]))
              leads(r) == Blank(Slice(t, 0, r[1]))
              title(r) == \/ heading /\ (Bare(t, text(r)) \/ leads(r))
                          \/ Bare(t, text(r)) /\ Len(text(r)) >= 2
              read(r) == title(r) \/ near(r) # Nothing \/ Len(text(r)) >= 3
              form(r) == IF near(r) = Nothing THEN "m" ELSE near(r)
              kind(r) == IF title(r) THEN "ordinal_heading" ELSE "numeral"
              reason(r) == IF title(r) THEN "heading_ordinal" ELSE "roman"
              words(r) == Ordinal(ParseRoman(text(r)))
              mark(r) == NumeralMark(t, kind(r), r, words(r), reason(r), form(r))
              M == Runs(t, 0, Len(t), Alnum)
              F == [r \in M |-> mark(r)]
  <1>1. RomanNumerals(t, heading) = {mark(r) : r \in {q \in runs : read(q)}}
    BY DEF RomanNumerals
  <1>2. \A r \in {q \in runs : read(q)} : r \in M
    OBVIOUS
  <1>3. \A r : kind(r) \in LexiconWins
    BY DEF LexiconWins
  <1>. HIDE DEF runs, read, kind, reason, words, form
  <1>4. \A r : Suggested(mark(r)) /\ mark(r).kind = kind(r) /\ mark(r).start = r[1] /\ mark(r).end = r[2]
    BY NumeralAt
  <1>. HIDE DEF mark
  <1>5. Stretches(t, M) /\ AreApart(M)
    BY RunsAre
  <1>. HIDE DEF M
  <1>6. \A m \in M : Suggested(F[m]) /\ F[m].kind \in LexiconWins /\ F[m].start = m[1] /\ F[m].end = m[2]
    BY <1>3, <1>4
  <1>7. RomanNumerals(t, heading) \subseteq {F[m] : m \in M}
    BY <1>1, <1>2
  <1>. HIDE DEF F
  <1>. DEFINE A == RomanNumerals(t, heading)
  <1>8. A \subseteq {F[m] : m \in M}
    BY <1>7
  <1>. HIDE DEF A
  <1>9. Readings(t, LexiconWins, A)
    BY <1>5, <1>6, <1>8, StretchesRead
  <1>. QED
    BY <1>9 DEF A

\* numbers with a dot,
LEMMA DottedApart ==
    ASSUME NEW t \in Seq(Symbols), NEW heading
    PROVE  Readings(t, LexiconWins, Dotted(t, heading))
  <1>. DEFINE at == {r \in DigitRuns(t) : /\ r[2] - r[1] <= 6 /\ Is(t, r[2], "stop")
                                          /\ r[2] + 1 = Len(t) \/ At(t, r[2] + 1) \notin Digits
                                          /\ DottedForm(t, r) # Nothing}
              title(r) == heading /\ Bare(t, Slice(t, r[1], r[2] + 1))
              kind(r) == IF title(r) THEN "ordinal_heading" ELSE "numeral"
              reason(r) == IF title(r) THEN "heading_ordinal" ELSE "ordinal"
              words(r) == Ordinal(NumberAt(t, r))
              form(r) == DottedForm(t, r)
              mark(r) == NumeralMark(t, kind(r), <<r[1], r[2] + 1>>, words(r), reason(r), form(r))
              F == [r \in at |-> mark(r)]
  <1>0. Len(t) \in Nat
    OBVIOUS
  <1>1. Dotted(t, heading) = {mark(r) : r \in at}
    BY DEF Dotted
  <1>2. ASSUME NEW r
        PROVE  Suggested(mark(r)) /\ mark(r).kind = kind(r) /\ mark(r).start = r[1] /\ mark(r).end = r[2] + 1
    <2>. DEFINE s == <<r[1], r[2] + 1>>
    <2>1. s[1] = r[1] /\ s[2] = r[2] + 1
      OBVIOUS
    <2>2. mark(r) = NumeralMark(t, kind(r), s, words(r), reason(r), form(r))
      OBVIOUS
    <2>. HIDE DEF s, kind, words, reason, form, mark
    <2>. QED
      BY <2>1, <2>2, NumeralAt
  <1>3. \A r \in at : r \in Runs(t, 0, Len(t), Digits) /\ r[2] < Len(t)
    BY DEF DigitRuns, Is
  <1>4. \A r : kind(r) \in LexiconWins
    BY DEF LexiconWins
  <1>. HIDE DEF at, mark, kind
  <1>5. ASSUME NEW r \in at
        PROVE  r[1] \in Nat /\ r[2] \in Nat /\ r[1] < r[2] /\ r[2] < Len(t)
    BY <1>3, RunIs
  <1>6. ASSUME NEW r \in at PROVE ReadsPart(t, LexiconWins, F[r])
    <2>1. F[r] = mark(r)
      OBVIOUS
    <2>2. Suggested(F[r]) /\ F[r].kind \in LexiconWins /\ F[r].start = r[1] /\ F[r].end = r[2] + 1
      BY <2>1, <1>2, <1>4
    <2>. DEFINE x == r[1]
                y == r[2] + 1
                n == Len(t)
    <2>3. x \in 0..(n - 1) /\ y \in (x + 1)..n
      BY <1>0, <1>5
    <2>. HIDE DEF F, x, y, n
    <2>. QED
      BY <2>2, <2>3 DEF ReadsPart, x, y, n
  <1>7. ASSUME NEW r \in at, NEW q \in at, r # q PROVE F[r].end <= F[q].start \/ F[q].end <= F[r].start
    <2>1. r[2] < q[1] \/ q[2] < r[1]
      BY <1>3, <1>7, RunsInOrder
    <2>. QED
      BY <2>1, <1>2, <1>5
  <1>8. Spread(t, LexiconWins, at, F)
    BY <1>6, <1>7 DEF Spread
  <1>9. Dotted(t, heading) \subseteq {F[r] : r \in at}
    BY <1>1
  <1>. HIDE DEF F
  <1>. QED
    BY <1>8, <1>9, SpreadReads

\* and whole numbers.
LEMMA IntegersApart ==
    ASSUME NEW t \in Seq(Symbols), NEW heading
    PROVE  Readings(t, LexiconWins, IntegerNumerals(t, heading))
  <1>. DEFINE raw(m) == Slice(t, m[1], m[2])
              value(m) == Number(SelectSeq(raw(m), LAMBDA c : c # "sp"))
              solid(m) == "sp" \notin ToSet(raw(m))
              title(m) == heading /\ Bare(t, raw(m)) /\ solid(m) /\ value(m) <= 999999
              year(m) == solid(m) /\ IsYear(value(m), t, m[2])
              first(m) == Ordinal(value(m))
              many(m) == cardinal[value(m)]
              mark(m) == CASE title(m) -> NumeralMark(t, "ordinal_heading", m, first(m), "heading_ordinal", "m")
                           [] ~title(m) /\ year(m) -> NumeralMark(t, "numeral", m, first(m), "year", "m")
                           [] OTHER -> NumeralMark(t, "numeral", m, many(m), "cardinal", "")
              M == IntegerMatches(t)
              F == [m \in M |-> mark(m)]
  <1>1. IntegerNumerals(t, heading) = {mark(m) : m \in IntegerMatches(t)}
    BY SMT DEF IntegerNumerals
  <1>. HIDE DEF first, many, title, year
  <1>2. ASSUME NEW m
        PROVE  Suggested(mark(m)) /\ mark(m).kind \in LexiconWins /\ mark(m).start = m[1] /\ mark(m).end = m[2]
    <2>0. "ordinal_heading" \in LexiconWins /\ "numeral" \in LexiconWins
      BY DEF LexiconWins
    <2>1. CASE title(m)
      <3>1. mark(m) = NumeralMark(t, "ordinal_heading", m, first(m), "heading_ordinal", "m")
        BY <2>1
      <3>. HIDE DEF mark
      <3>. QED
        BY <2>0, <3>1, NumeralIs
    <2>2. CASE ~title(m) /\ year(m)
      <3>1. mark(m) = NumeralMark(t, "numeral", m, first(m), "year", "m")
        BY <2>2
      <3>. HIDE DEF mark
      <3>. QED
        BY <2>0, <3>1, NumeralIs
    <2>3. CASE ~title(m) /\ ~year(m)
      <3>. DEFINE none == ""
      <3>1. mark(m) = NumeralMark(t, "numeral", m, many(m), "cardinal", none)
        BY <2>3
      <3>. HIDE DEF mark, none
      <3>. QED
        BY <2>0, <3>1, NumeralIs
    <2>. QED
      BY <2>1, <2>2, <2>3
  <1>. HIDE DEF mark
  <1>3. Stretches(t, M) /\ AreApart(M)
    BY IntegersLie
  <1>4. IntegerNumerals(t, heading) \subseteq {F[m] : m \in M}
    BY <1>1
  <1>. HIDE DEF M
  <1>5. \A m \in M : Suggested(F[m]) /\ F[m].kind \in LexiconWins /\ F[m].start = m[1] /\ F[m].end = m[2]
    BY <1>2
  <1>. HIDE DEF F
  <1>. QED
    BY <1>3, <1>4, <1>5, StretchesRead

\* All numerals together.
LEMMA NumeralsApart ==
    ASSUME NEW t \in Seq(Symbols), NEW heading
    PROVE  Readings(t, LexiconWins, NumeralSuggestions(t, heading))
  <1>. DEFINE S == <<Headings(t, heading), Clocks(t), Decimals(t), RomanNumerals(t, heading),
                     Dotted(t, heading), IntegerNumerals(t, heading)>>
  <1>1. Len(S) = 6 /\ \A k \in 1..6 : Readings(t, LexiconWins, S[k])
    BY HeadingsApart, ClocksApart, DecimalsApart, RomansApart, DottedApart, IntegersApart
  <1>2. NumeralSuggestions(t, heading) = Claimed(S)
    BY DEF NumeralSuggestions
  <1>. HIDE DEF S
  <1>. QED
    BY <1>1, <1>2, ReadingsClaimed

\* The places of a pattern whose first symbol does not come again in it do not meet.
LEMMA OccurrencesApart ==
    ASSUME NEW t \in Seq(Symbols), NEW p, Len(p) \in Nat, Len(p) # 0, \A i \in 2..Len(p) : p[i] # p[1]
    PROVE  AreApart(Bounded(t, Occurrences(t, p)))
  <1>. DEFINE n == Len(t)
              k == Len(p)
              at == {j \in 0..(n - k) : Slice(t, j, j + k) = p}
              M == {<<i, i + k>> : i \in at}
  <1>0. n \in Nat /\ k \in Nat /\ k # 0
    OBVIOUS
  <1>1. Occurrences(t, p) = M
    BY DEF Occurrences
  <1>2. ASSUME NEW j \in at, NEW i \in 1..k PROVE t[j + i] = p[i]
    <2>1. j \in 0..(n - k) /\ Slice(t, j, j + k) = p
      OBVIOUS
    <2>. HIDE DEF at
    <2>2. j \in Nat /\ j + k <= n /\ j + 1 \in 1..n /\ j + k \in 1..n
      BY <1>0, <2>1
    <2>3. Slice(t, j, j + k) = SubSeq(t, j + 1, j + k)
      BY <2>2 DEF Slice
    <2>4. i \in 1..(j + k - (j + 1) + 1) /\ (j + 1) + i - 1 = j + i
      BY <1>0, <2>2
    <2>5. SubSeq(t, j + 1, j + k)[i] = t[(j + 1) + i - 1]
      BY <2>2, <2>4
    <2>. QED
      BY <2>1, <2>3, <2>4, <2>5
  <1>3. ASSUME NEW i \in at, NEW j \in at, i < j PROVE i + k <= j
    <2>. SUFFICES ASSUME j < i + k PROVE FALSE
      BY <1>0
    <2>. DEFINE d == j - i + 1
    <2>1. i \in Int /\ j \in Int /\ d \in 1..k /\ d \in 2..k /\ 1 \in 1..k /\ i + d = j + 1
      BY <1>0, <1>3
    <2>. HIDE DEF d, at
    <2>2. t[i + d] = p[d] /\ t[j + 1] = p[1]
      BY <1>2, <2>1
    <2>. QED
      BY <2>1, <2>2
  <1>4. ASSUME NEW m \in M, NEW o \in M, m # o PROVE m[2] <= o[1] \/ o[2] <= m[1]
    <2>1. PICK i \in at : m = <<i, i + k>>
      OBVIOUS
    <2>2. PICK j \in at : o = <<j, j + k>>
      OBVIOUS
    <2>3. i < j \/ j < i
      BY <2>1, <2>2, <1>4, <1>0
    <2>. HIDE DEF at, k
    <2>. QED
      BY <2>1, <2>2, <2>3, <1>3
  <1>. HIDE DEF M
  <1>5. AreApart(M)
    BY <1>4 DEF AreApart
  <1>. QED
    BY <1>1, <1>5 DEF Bounded, AreApart

\* The searches for words: toponyms,
LEMMA ToponymsApart ==
    ASSUME NEW t \in Seq(Symbols)
    PROVE  Readings(t, LexiconWins, ToponymMarks(t))
  <1>. DEFINE of(p) == {Suggestion(t, "toponym", s, p.spoken, "toponym") : s \in Bounded(t, Occurrences(t, p.surface))}
              named(n) == {q \in Toponyms : Len(q.surface) = n}
              marks(n) == UNION {of(p) : p \in named(n)}
              T == <<marks(4), marks(1)>>
  <1>1. ASSUME NEW p, Len(p.surface) \in Nat, Len(p.surface) # 0,
               \A i \in 2..Len(p.surface) : p.surface[i] # p.surface[1]
        PROVE  Readings(t, LexiconWins, of(p))
    <2>. DEFINE M == Bounded(t, Occurrences(t, p.surface))
                F == [m \in M |-> Suggestion(t, "toponym", m, p.spoken, "toponym")]
    <2>1. Stretches(t, M) /\ AreApart(M)
      BY <1>1, OccurrencesLie, OccurrencesApart
    <2>2. of(p) \subseteq {F[m] : m \in M}
      OBVIOUS
    <2>3. "toponym" \in LexiconWins
      BY DEF LexiconWins
    <2>. HIDE DEF M, of
    <2>4. \A m \in M : Suggested(F[m]) /\ F[m].kind \in LexiconWins /\ F[m].start = m[1] /\ F[m].end = m[2]
      BY <2>3, SuggestionAt
    <2>. HIDE DEF F
    <2>. QED
      BY <2>1, <2>2, <2>4, StretchesRead
  <1>2. ToponymMarks(t) = Claimed(T)
    BY DEF ToponymMarks
  <1>. DEFINE long == [surface |-> <<"Washington", "sp", "D", "C">>, spoken |-> <<"loszynkton", "sp", "di", "sp", "si">>]
              short == [surface |-> <<"Washington">>, spoken |-> <<"loszynkton">>]
  <1>3. Toponyms = {long, short}
    BY DEF Toponyms
  <1>4. Len(long.surface) = 4 /\ Len(short.surface) = 1 /\ \A i \in 2..4 : long.surface[i] # long.surface[1]
    OBVIOUS
  <1>. HIDE DEF of, long, short
  <1>5. named(4) = {long} /\ named(1) = {short}
    BY <1>3, <1>4
  <1>. HIDE DEF named
  <1>6. marks(4) = of(long) /\ marks(1) = of(short)
    BY <1>5
  <1>. HIDE DEF marks
  <1>7. Readings(t, LexiconWins, of(long)) /\ Readings(t, LexiconWins, of(short))
    <2>1. \A i \in 2..Len(long.surface) : long.surface[i] # long.surface[1]
      BY <1>4
    <2>2. \A i \in 2..Len(short.surface) : short.surface[i] # short.surface[1]
      BY <1>4
    <2>3. Len(long.surface) \in Nat /\ Len(long.surface) # 0 /\ Len(short.surface) \in Nat /\ Len(short.surface) # 0
      BY <1>4
    <2>4. Readings(t, LexiconWins, of(long))
      BY <2>1, <2>3, <1>1
    <2>5. Readings(t, LexiconWins, of(short))
      BY <2>2, <2>3, <1>1
    <2>. QED
      BY <2>4, <2>5
  <1>8. Len(T) = 2 /\ \A k \in 1..2 : Readings(t, LexiconWins, T[k])
    BY <1>6, <1>7
  <1>. HIDE DEF T
  <1>. QED
    BY <1>2, <1>8, ReadingsClaimed

\* acronyms,
LEMMA AcronymsApart ==
    ASSUME NEW t \in Seq(Symbols)
    PROVE  Readings(t, LexiconWins, AcronymMarks(t))
  <1>. DEFINE text(r) == Slice(t, r[1], r[2])
              M == Runs(t, 0, Len(t), Letters)
              at == {r \in M : /\ ToSet(text(r)) \subseteq Capitals
                               /\ Len(text(r)) \in 2..5 /\ text(r) \notin NotAcronyms}
              spelt(r) == Spaced([k \in 1..Len(text(r)) |-> LetterName[text(r)[k]]])
              F == [r \in M |-> Suggestion(t, "acronym", r, spelt(r), "acronym")]
  <1>1. AcronymMarks(t) = {Suggestion(t, "acronym", r, spelt(r), "acronym") : r \in at}
    BY DEF AcronymMarks
  <1>2. at \subseteq M
    OBVIOUS
  <1>3. Stretches(t, M) /\ AreApart(M)
    BY RunsAre
  <1>4. "acronym" \in LexiconWins
    BY DEF LexiconWins
  <1>. HIDE DEF at, spelt, M
  <1>5. \A m \in M : Suggested(F[m]) /\ F[m].kind \in LexiconWins /\ F[m].start = m[1] /\ F[m].end = m[2]
    BY <1>4, SuggestionAt
  <1>6. AcronymMarks(t) \subseteq {F[m] : m \in M}
    BY <1>1, <1>2
  <1>. HIDE DEF F
  <1>. QED
    BY <1>3, <1>5, <1>6, StretchesRead

\* Words do not meet.
LEMMA WordsApart ==
    ASSUME NEW t \in Seq(Symbols)
    PROVE  AreApart(ToSet(Words(t, 0, Len(t), WordExtra)))
  <1>. DEFINE n == Len(t)
              S == Alnum \cup WordExtra
              Q == {q \in Runs(t, 0, n, S) : \E i \in q[1]..(q[2] - 1) : At(t, i) \in Alnum}
              f(r) == FirstNot(t, r[1], WordExtra)
              W == {<<f(r), r[2]>> : r \in Q}
              L == InOrder(W)
  <1>0. n \in Nat
    OBVIOUS
  <1>1. Words(t, 0, n, WordExtra) = L
    BY DEF Words
  <1>2. \A r \in Q : r \in Runs(t, 0, n, S)
    OBVIOUS
  <1>3. ASSUME NEW r \in Q
        PROVE  f(r) \in Int /\ r[2] \in Int /\ f(r) \in 0..(n - 1) /\ r[2] \in (f(r) + 1)..n /\ r[1] <= f(r)
    <2>1. r[1] \in Nat /\ r[2] \in Nat /\ r[1] < r[2] /\ r[2] <= n
      BY <1>2, RunIs
    <2>3. PICK i \in r[1]..(r[2] - 1) : At(t, i) \in Alnum
      OBVIOUS
    <2>4. At(t, i) \notin WordExtra
      BY <2>3, Classes DEF WordExtra, Dashes
    <2>5. r[1] \in 0..n
      BY <1>0, <2>1
    <2>. HIDE DEF Q, n
    <2>6. f(r) \in r[1]..n /\ \A j \in r[1]..(f(r) - 1) : At(t, j) \in WordExtra
      BY <2>5, FirstNotIs DEF n
    <2>. HIDE DEF f
    <2>7. i \notin r[1]..(f(r) - 1)
      BY <2>4, <2>6
    <2>. QED
      BY <1>0, <2>1, <2>3, <2>6, <2>7
  <1>. HIDE DEF f, Q, n, S
  <1>4. ASSUME NEW o \in W PROVE o \in Int \X Int /\ o[1] \in 0..(n - 1) /\ o[2] \in (o[1] + 1)..n
    <2>1. PICK r \in Q : o = <<f(r), r[2]>>
      OBVIOUS
    <2>. QED
      BY <1>3, <2>1
  <1>5. ASSUME NEW m \in W, NEW o \in W, m # o PROVE m[2] <= o[1] \/ o[2] <= m[1]
    <2>1. PICK r \in Q : m = <<f(r), r[2]>>
      OBVIOUS
    <2>2. PICK q \in Q : o = <<f(q), q[2]>>
      OBVIOUS
    <2>3. r # q
      BY <2>1, <2>2, <1>5
    <2>4. r[2] < q[1] \/ q[2] < r[1]
      BY <2>3, <1>2, RunsInOrder DEF n
    <2>5. r[1] \in Nat /\ r[2] \in Nat /\ q[1] \in Nat /\ q[2] \in Nat
      BY <1>2, RunIs DEF n
    <2>. QED
      BY <2>1, <2>2, <2>4, <2>5, <1>3
  <1>. HIDE DEF W
  <1>6. Stretches(t, W)
    BY <1>4 DEF Stretches, n
  <1>7. DOMAIN L = 1..Len(L) /\ \A k \in 1..Len(L) : L[k] \in W
    BY <1>6, OrderListed
  <1>. HIDE DEF L
  <1>8. ToSet(L) \subseteq W
    BY <1>7 DEF ToSet
  <1>. QED
    BY <1>1, <1>5, <1>8 DEF n, AreApart

\* and foreign words.
LEMMA ForeignApart ==
    ASSUME NEW t \in Seq(Symbols)
    PROVE  Readings(t, LexiconWins, ForeignMarks(t))
  <1>. DEFINE text(r) == Slice(t, r[1], r[2])
              W == ToSet(Words(t, 0, Len(t), WordExtra))
              words == {<<r[1], r[2]>> : r \in W}
              listed(r) == r[2] = r[1] + 1 /\ At(t, r[1]) \in DOMAIN English
              english(r) == ToSet(text(r)) \cap DOMAIN Respelled # {} /\ ToSet(text(r)) \cap PolishWords = {}
              say(c) == IF c \in DOMAIN Respelled THEN Respelled[c] ELSE c
              known(r) == <<English[At(t, r[1])]>>
              spelt(r) == [k \in 1..Len(text(r)) |-> say(text(r)[k])]
              mark(r) == IF listed(r) THEN Suggestion(t, "foreign_word", r, known(r), "english_word")
                         ELSE Suggestion(t, "foreign_word", r, spelt(r), "english_orthography")
              at == {w \in words : listed(w) \/ english(w)}
              F == [r \in W |-> mark(r)]
  <1>1. ForeignMarks(t) = {mark(r) : r \in at}
    BY DEF ForeignMarks
  <1>2. \A w \in W : w \in Int \X Int /\ w[1] \in 0..(Len(t) - 1) /\ w[2] \in (w[1] + 1)..Len(t)
    BY WordsLie
  <1>3. AreApart(W)
    BY WordsApart
  <1>4. at \subseteq words
    OBVIOUS
  <1>. HIDE DEF W, at, listed, english, say, known, spelt
  <1>5. Stretches(t, W)
    BY <1>2 DEF Stretches
  <1>6. words = W
    <2>1. \A w \in W : <<w[1], w[2]>> = w
      BY <1>2
    <2>. QED
      BY <2>1
  <1>7. "foreign_word" \in LexiconWins
    BY DEF LexiconWins
  <1>8. \A m : Suggested(mark(m)) /\ mark(m).kind \in LexiconWins /\ mark(m).start = m[1] /\ mark(m).end = m[2]
    BY <1>7, SuggestionAt
  <1>. HIDE DEF mark, words
  <1>9. \A m \in W : Suggested(F[m]) /\ F[m].kind \in LexiconWins /\ F[m].start = m[1] /\ F[m].end = m[2]
    BY <1>8
  <1>10. ForeignMarks(t) \subseteq {F[m] : m \in W}
    BY <1>1, <1>4, <1>6
  <1>. HIDE DEF F
  <1>. QED
    BY <1>3, <1>5, <1>9, <1>10, StretchesRead

\* Toponyms, acronyms and foreign words.
LEMMA LexicalApart ==
    ASSUME NEW t \in Seq(Symbols)
    PROVE  Readings(t, LexiconWins, LexicalSuggestions(t))
  <1>. DEFINE S == <<ToponymMarks(t), AcronymMarks(t), ForeignMarks(t)>>
  <1>1. LexicalSuggestions(t) = Claimed(S)
    BY DEF LexicalSuggestions
  <1>2. Len(S) = 3 /\ \A k \in 1..3 : Readings(t, LexiconWins, S[k])
    BY ToponymsApart, AcronymsApart, ForeignApart
  <1>. HIDE DEF S
  <1>. QED
    BY <1>1, <1>2, ReadingsClaimed

\* What the detectors read of a block.
LEMMA DetectedApart ==
    ASSUME NEW t \in Seq(Symbols), NEW heading
    PROVE  Readings(t, LexiconWins, BesideNumerals(t, NumeralSuggestions(t, heading)))
  BY NumeralsApart, LexicalApart, ReadingsAdded DEF BesideNumerals

\* What the lexicon reads does not meet either.
LEMMA LexiconApart ==
    ASSUME NEW t \in Seq(Symbols)
    PROVE  Readings(t, {"dict_hit"}, LexiconSuggestions(t))
  <1>. DEFINE found(r) == IF r.regex THEN Occurrences(t, r.pattern) ELSE Bounded(t, Occurrences(t, r.pattern))
              spans(r) == IF r.pattern = <<>> THEN {} ELSE Scan(found(r))
              marks(r) == {Suggestion(t, "dict_hit", s, r.spoken, "lexicon") : s \in spans(r)}
              S == [k \in 1..Len(EffectiveRules) |-> marks(EffectiveRules[k])]
  <1>1. LexiconSuggestions(t) = InTurn(S)
    BY DEF LexiconSuggestions
  <1>2. ASSUME NEW r, r.pattern \in Seq(Symbols) PROVE Readings(t, {"dict_hit"}, marks(r))
    <2>. DEFINE M == spans(r)
                F == [m \in M |-> Suggestion(t, "dict_hit", m, r.spoken, "lexicon")]
    <2>1. Stretches(t, M) /\ AreApart(M)
      <3>1. CASE r.pattern = <<>>
        <4>1. M = {}
          BY <3>1
        <4>. HIDE DEF M
        <4>. QED
          BY <4>1 DEF Stretches, AreApart
      <3>2. CASE r.pattern # <<>>
        <4>1. Len(r.pattern) \in Nat /\ Len(r.pattern) # 0
          BY <1>2, <3>2
        <4>2. Stretches(t, found(r))
          BY <4>1, OccurrencesLie
        <4>3. M = Scan(found(r))
          BY <3>2
        <4>. HIDE DEF found, M
        <4>4. Scan(found(r)) \subseteq found(r) /\ AreApart(Scan(found(r)))
          BY <4>2, ScanApart
        <4>. QED
          BY <4>2, <4>3, <4>4 DEF Stretches
      <3>. QED
        BY <3>1, <3>2
    <2>2. marks(r) \subseteq {F[m] : m \in M}
      OBVIOUS
    <2>. HIDE DEF M, marks
    <2>. DEFINE K == {"dict_hit"}
    <2>3. \A m \in M : Suggested(F[m]) /\ F[m].kind \in K /\ F[m].start = m[1] /\ F[m].end = m[2]
      BY SuggestionAt
    <2>. HIDE DEF F, K
    <2>4. Readings(t, K, marks(r))
      BY <2>1, <2>2, <2>3, StretchesRead
    <2>. QED
      BY <2>4 DEF K
  <1>. HIDE DEF marks
  <1>3. \A i \in 1..Len(Lexicon) : Lexicon[i].pattern \in Seq(Symbols)
    BY LexiconRules
  <1>4. Len(S) \in Nat /\ \A k \in 1..Len(S) : Readings(t, {"dict_hit"}, S[k])
    BY <1>2, <1>3, RulesAre
  <1>. HIDE DEF S
  <1>. QED
    BY <1>1, <1>4, ReadingsInTurn

-----------------------------------------------------------------------------
(* Suggestions that stand beside each other.                               *)

\* What is spoken in place of words, or not spoken at all.
Overlaid == Pronounced \cup {"skip"}

\* A suggestion in a text of n symbols.
Reaches(n, g) == g.start \in Nat /\ g.end \in Int /\ g.start <= g.end /\ g.end <= n

\* It fits: what is laid over the text and the pieces of a split are in it.
Fitting(n, g) ==
    /\ Suggested(g)
    /\ g.kind \in Overlaid \cup {"dialogue_split"} => Reaches(n, g)
    /\ g.kind = "dialogue_split" => InRow(g.segments, g.start)

\* One behind the other.
Beside(g, h) == g.end <= h.start \/ h.end <= g.start

\* All fit, no two are laid over the same words, and the text is split once.
Standing(n, O) ==
    /\ \A g \in O : Fitting(n, g)
    /\ \A g, h \in O : g # h => /\ g.kind \in Overlaid /\ h.kind \in Overlaid => Beside(g, h)
                                /\ ~(g.kind = "dialogue_split" /\ h.kind = "dialogue_split")

\* So it is with some of them.
LEMMA StandingPart == ASSUME NEW n, NEW O, Standing(n, O), NEW R, R \subseteq O PROVE Standing(n, R)
  BY DEF Standing

\* Readings stay apart in their block.
LEMMA ReadingsInBlock ==
    ASSUME NEW t, NEW K, NEW A, Readings(t, K, A), NEW b
    PROVE  Readings(t, K, InBlock(b, A)) /\ \A h \in InBlock(b, A) : h.block = b
  <1>. DEFINE B == InBlock(b, A)
  <1>1. \A h \in B : \E g \in A : h = [g EXCEPT !.block = b]
    BY DEF InBlock
  <1>. HIDE DEF B
  <1>2. ASSUME NEW h, NEW g \in A, h = [g EXCEPT !.block = b]
        PROVE  Suggested(h) /\ h.block = b /\ h.kind = g.kind /\ h.start = g.start /\ h.end = g.end
    <2>1. Suggested(g)
      BY DEF Readings, ReadsPart
    <2>. QED
      BY <1>2, <2>1, MovedIs
  <1>3. ASSUME NEW h \in B PROVE ReadsPart(t, K, h) /\ h.block = b
    <2>1. PICK g \in A : h = [g EXCEPT !.block = b]
      BY <1>1
    <2>2. Suggested(h) /\ h.block = b /\ h.kind = g.kind /\ h.start = g.start /\ h.end = g.end
      BY <1>2, <2>1
    <2>. QED
      BY <2>2 DEF Readings, ReadsPart
  <1>4. ASSUME NEW h \in B, NEW k \in B, h # k PROVE ~Overlap(SpanOf(h), SpanOf(k))
    <2>1. PICK g \in A : h = [g EXCEPT !.block = b]
      BY <1>1
    <2>2. PICK o \in A : k = [o EXCEPT !.block = b]
      BY <1>1
    <2>3. g # o
      BY <2>1, <2>2, <1>4
    <2>4. h.start = g.start /\ h.end = g.end /\ k.start = o.start /\ k.end = o.end
      BY <1>2, <2>1, <2>2
    <2>5. ~Overlap(SpanOf(g), SpanOf(o))
      BY <2>3 DEF Readings, NoOverlap
    <2>. QED
      BY <2>4, <2>5 DEF SpanOf
  <1>5. Readings(t, K, B)
    BY <1>3, <1>4 DEF Readings, NoOverlap
  <1>. QED
    BY <1>3, <1>5 DEF B

\* Readings that do not meet are one behind the other.
LEMMA ReadingsBeside ==
    ASSUME NEW t \in Seq(Symbols), NEW K, NEW J, NEW g, NEW h, ReadsPart(t, K, g), ReadsPart(t, J, h),
           ~Overlap(SpanOf(g), SpanOf(h))
    PROVE  Beside(g, h) /\ Beside(h, g)
  <1>1. Len(t) \in Nat
    OBVIOUS
  <1>2. g.start \in Int /\ g.end \in Int /\ h.start \in Int /\ h.end \in Int
    BY <1>1 DEF ReadsPart
  <1>3. ~(g.start < h.end /\ h.start < g.end)
    BY DEF Overlap, SpanOf
  <1>. QED
    BY <1>2, <1>3 DEF Beside

\* A reading is in the text.
LEMMA ReadsReaches ==
    ASSUME NEW t \in Seq(Symbols), NEW K, NEW g, ReadsPart(t, K, g)
    PROVE  Reaches(Len(t), g)
  <1>1. Len(t) \in Nat
    OBVIOUS
  <1>. QED
    BY <1>1 DEF ReadsPart, Reaches

\* A whole block that is left out.
LeftOut(t, reason, b, g) == g = [Skip(t, reason) EXCEPT !.block = b]

\* It is left out from its start to its end.
LEMMA LeftOutIs ==
    ASSUME NEW t \in Seq(Symbols), NEW reason, NEW b, NEW g, LeftOut(t, reason, b, g)
    PROVE  Suggested(g) /\ g.block = b /\ g.kind = "skip" /\ Reaches(Len(t), g)
  <1>. DEFINE s == <<0, Len(t)>>
              x == Suggestion(t, "skip", s, <<>>, reason)
  <1>0. Len(t) \in Nat /\ s[1] = 0 /\ s[2] = Len(t)
    OBVIOUS
  <1>1. g = [x EXCEPT !.block = b]
    BY DEF LeftOut, Skip
  <1>. HIDE DEF s
  <1>2. Suggested(x) /\ x.kind = "skip" /\ x.start = s[1] /\ x.end = s[2]
    BY SuggestionAt
  <1>. HIDE DEF x
  <1>3. Suggested(g) /\ g.block = b /\ g.kind = x.kind /\ g.start = x.start /\ g.end = x.end
    BY <1>1, <1>2 DEF Suggested
  <1>. QED
    BY <1>0, <1>2, <1>3 DEF Reaches

\* The mark of a speaker is a suggestion.
LEMMA SpeakerSuggested == ASSUME NEW t, NEW g PROVE Suggested(SpeakerMark(t, g))
  <1>. DEFINE x == Suggestion(t, "speaker_gender", <<g.start, g.end>>, <<g.reading.gender>>, g.reading.reason)
              y == g.reading.speaker
              b == g.block
  <1>1. SpeakerMark(t, g) = [x EXCEPT !.block = b, !.speaker = y]
    BY DEF SpeakerMark
  <1>2. Suggested(x)
    BY SuggestionIs
  <1>. HIDE DEF x, y, b
  <1>. QED
    BY <1>1, <1>2 DEF Suggested

\* The detected readings of a block.
DetectorsRead(t, heading) == BesideNumerals(t, NumeralSuggestions(t, heading))

\* What may be proposed for a block beside its rewrites: a speaker, the block left out, or, when
\* it is not, a split, what the detectors read where the lexicon does not, and what that reads.
Sorted(t, heading, skips, b, g) ==
    \/ g.kind = "speaker_gender" /\ Suggested(g)
    \/ b \in DOMAIN skips /\ LeftOut(t, skips[b], b, g)
    \/ b \notin DOMAIN skips /\ g \in InBlock(b, Splits(t))
    \/ /\ b \notin DOMAIN skips /\ g \in InBlock(b, DetectorsRead(t, heading))
       /\ \A h \in InBlock(b, LexiconSuggestions(t)) : ~Overlap(SpanOf(g), SpanOf(h))
    \/ b \notin DOMAIN skips /\ g \in InBlock(b, LexiconSuggestions(t))

\* The split of a block.
LEMMA SplitsInBlock ==
    ASSUME NEW t \in Seq(Symbols), NEW b
    PROVE  /\ \A g \in InBlock(b, Splits(t)) : /\ Suggested(g) /\ g.kind = "dialogue_split" /\ g.block = b
                                               /\ Reaches(Len(t), g) /\ InRow(g.segments, g.start)
           /\ \A g, h \in InBlock(b, Splits(t)) : g = h
  <1>. DEFINE P == Splits(t)
              B == InBlock(b, P)
  <1>0. Len(t) \in Nat
    OBVIOUS
  <1>1. \A h \in B : \E g \in P : h = [g EXCEPT !.block = b]
    BY DEF InBlock
  <1>2. /\ \A g \in P : Suggested(g) /\ g.kind = "dialogue_split" /\ g.start = 0 /\ g.end = Len(t) /\ InRow(g.segments, 0)
        /\ \A g, h \in P : g = h
    BY SplitsStand
  <1>. HIDE DEF P, B
  <1>3. ASSUME NEW h \in B
        PROVE  /\ Suggested(h) /\ h.kind = "dialogue_split" /\ h.block = b
               /\ Reaches(Len(t), h) /\ InRow(h.segments, h.start)
    <2>1. PICK g \in P : h = [g EXCEPT !.block = b]
      BY <1>1
    <2>2. Suggested(g)
      BY <1>2
    <2>3. Suggested(h) /\ h.block = b /\ h.kind = g.kind /\ h.start = g.start /\ h.end = g.end /\ h.segments = g.segments
      BY <2>1, <2>2 DEF Suggested
    <2>. QED
      BY <1>0, <1>2, <2>3 DEF Reaches
  <1>4. \A g, h \in B : g = h
    BY <1>1, <1>2
  <1>. QED
    BY <1>3, <1>4 DEF B, P

\* What a block gives in its place.
LEMMA BlockSorts ==
    ASSUME NEW t \in Seq(Symbols), NEW heading, NEW skips, NEW b,
           NEW g \in InBlock(b, BlockSuggestions(t, heading, b \in DOMAIN skips)), g.kind # "conversion_artifact"
    PROVE  /\ b \notin DOMAIN skips
           /\ g \in InBlock(b, Splits(t)) \/ g \in InBlock(b, DetectorsRead(t, heading))
  <1>1. PICK x \in BlockSuggestions(t, heading, b \in DOMAIN skips) : g = [x EXCEPT !.block = b]
    BY DEF InBlock
  <1>2. ASSUME x \in Artefacts(t) PROVE FALSE
    <2>1. Suggested(x) /\ x.kind = "conversion_artifact"
      BY <1>2, ArtefactsAre DEF Rewriting
    <2>. QED
      BY <1>1, <2>1, MovedIs
  <1>. DEFINE skipped == b \in DOMAIN skips
  <1>3. BlockSuggestions(t, heading, skipped) = Artefacts(t) \cup IF skipped THEN {} ELSE Splits(t) \cup DetectorsRead(t, heading)
    BY DEF BlockSuggestions, DetectorsRead
  <1>4. ~skipped /\ (x \in Splits(t) \/ x \in DetectorsRead(t, heading))
    <2>. HIDE DEF skipped
    <2>1. x \in BlockSuggestions(t, heading, skipped)
      BY DEF skipped
    <2>. QED
      BY <1>2, <1>3, <2>1
  <1>. QED
    BY <1>1, <1>4 DEF InBlock

\* The pre-pass proposes nothing else for a block.
LEMMA PrepassSorts ==
    ASSUME NEW texts, Readable(texts), NEW titles, NEW b \in 1..Len(texts),
           NEW g \in Prepass(texts, titles), g.block = b, g.kind # "conversion_artifact"
    PROVE  Sorted(texts[b], b \in titles, SkipCandidates(texts), b, g)
  <1>. DEFINE skips == SkipCandidates(texts)
              M == MarksOf(texts, titles, skips)
              H == Hits(texts, DOMAIN skips)
              block(c) == BlockSuggestions(texts[c], c \in titles, c \in DOMAIN skips)
              hits(c) == LexiconSuggestions(texts[c])
  <1>0. ASSUME NEW c \in 1..Len(texts) PROVE texts[c] \in Seq(Symbols)
    BY DEF Readable
  <1>1. Prepass(texts, titles) = Settled(M, H)
    BY DEF Prepass, Proposed
  <1>2. ASSUME NEW c \in 1..Len(texts), NEW h \in InBlock(c, hits(c))
        PROVE  h.block = c
    <2>1. Readings(texts[c], {"dict_hit"}, hits(c))
      BY <1>0, LexiconApart
    <2>. HIDE DEF hits
    <2>. QED
      BY <2>1, <1>2, ReadingsInBlock
  <1>3. CASE g \in H
    <2>1. PICK c \in (1..Len(texts)) \ DOMAIN skips : g \in InBlock(c, hits(c))
      BY <1>3 DEF Hits
    <2>. HIDE DEF hits, skips
    <2>2. c = b
      BY <1>2, <2>1
    <2>. QED
      BY <2>1, <2>2 DEF Sorted, hits, skips
  <1>4. CASE g \in M /\ \A h \in H : ~(g.kind \in LexiconWins /\ h.block = g.block /\ Overlap(SpanOf(g), SpanOf(h)))
    <2>1. \/ \E c \in DOMAIN skips : g \in InBlock(c, {Skip(texts[c], skips[c])})
          \/ \E c \in 1..Len(texts) : g \in InBlock(c, block(c))
          \/ \E o \in ToSet(GenderReadings(texts)) : g = SpeakerMark(texts[o.block], o)
      BY <1>4 DEF MarksOf
    <2>. HIDE DEF M
    <2>2. ASSUME NEW c \in DOMAIN skips, g \in InBlock(c, {Skip(texts[c], skips[c])})
          PROVE  Sorted(texts[b], b \in titles, skips, b, g)
      <3>. DEFINE x == Skip(texts[c], skips[c])
      <3>1. g = [x EXCEPT !.block = c]
        BY <2>2 DEF InBlock
      <3>2. Suggested(x)
        BY SuggestionIs DEF Skip
      <3>3. g.block = c
        <4>. HIDE DEF x, skips
        <4>. QED
          BY <3>1, <3>2, MovedIs
      <3>4. b \in DOMAIN skips /\ LeftOut(texts[b], skips[b], b, g)
        BY <3>1, <3>3, <2>2 DEF LeftOut
      <3>. HIDE DEF skips
      <3>. QED
        BY <3>4 DEF Sorted
    <2>3. ASSUME NEW o \in ToSet(GenderReadings(texts)), g = SpeakerMark(texts[o.block], o)
          PROVE  Sorted(texts[b], b \in titles, skips, b, g)
      <3>1. Suggested(g) /\ g.kind = "speaker_gender"
        BY <2>3, SpeakerSuggested, SpeakerMarkIs
      <3>. HIDE DEF skips
      <3>. QED
        BY <3>1 DEF Sorted
    <2>4. ASSUME NEW c \in 1..Len(texts), g \in InBlock(c, block(c))
          PROVE  Sorted(texts[b], b \in titles, skips, b, g)
      <3>. DEFINE t == texts[c]
                  heading == c \in titles
      <3>1. t \in Seq(Symbols)
        BY <1>0
      <3>2. g \in InBlock(c, BlockSuggestions(t, heading, c \in DOMAIN skips))
        BY <2>4
      <3>. HIDE DEF t, heading, skips
      <3>3. /\ c \notin DOMAIN skips
            /\ g \in InBlock(c, Splits(t)) \/ g \in InBlock(c, DetectorsRead(t, heading))
        BY <3>1, <3>2, BlockSorts
      <3>4. CASE g \in InBlock(c, Splits(t))
        <4>1. g.block = c
          BY <3>1, <3>4, SplitsInBlock
        <4>. QED
          BY <3>3, <3>4, <4>1 DEF Sorted, t, heading
      <3>5. CASE g \in InBlock(c, DetectorsRead(t, heading))
        <4>. DEFINE A == DetectorsRead(t, heading)
        <4>1. Readings(t, LexiconWins, A)
          BY <3>1, DetectedApart DEF DetectorsRead
        <4>. HIDE DEF A
        <4>2. Readings(t, LexiconWins, InBlock(c, A)) /\ \A h \in InBlock(c, A) : h.block = c
          BY <4>1, ReadingsInBlock
        <4>3. g.block = c /\ g.kind \in LexiconWins
          BY <3>5, <4>2 DEF A, Readings, ReadsPart
        <4>4. ASSUME NEW h \in InBlock(c, LexiconSuggestions(t)) PROVE ~Overlap(SpanOf(g), SpanOf(h))
          <5>1. h \in InBlock(c, hits(c)) /\ c \in (1..Len(texts)) \ DOMAIN skips
            BY <3>3, <4>4 DEF t
          <5>2. h \in H
            BY <5>1 DEF Hits
          <5>3. h.block = c
            BY <5>1, <1>2
          <5>. QED
            BY <5>2, <5>3, <4>3, <1>4
        <4>. QED
          BY <3>3, <3>5, <4>3, <4>4 DEF Sorted, t, heading
      <3>. QED
        BY <3>3, <3>4, <3>5
    <2>. HIDE DEF block, skips
    <2>. QED
      BY <2>1, <2>2, <2>3, <2>4 DEF skips
  <1>. HIDE DEF M, H
  <1>5. g \in H \/ (g \in M /\ \A h \in H : ~(g.kind \in LexiconWins /\ h.block = g.block /\ Overlap(SpanOf(g), SpanOf(h))))
    BY <1>1 DEF Settled
  <1>. QED
    BY <1>3, <1>4, <1>5

\* What is proposed for a block beside its rewrites.
Proposals(G, b) == {g \in G : g.block = b /\ g.kind # "conversion_artifact"}

\* It stands beside each other.
LEMMA PrepassStands ==
    ASSUME NEW texts, Readable(texts), NEW titles, NEW b \in 1..Len(texts)
    PROVE  Standing(Len(texts[b]), Proposals(Prepass(texts, titles), b))
  <1>. DEFINE t == texts[b]
              heading == b \in titles
              skips == SkipCandidates(texts)
              S == Proposals(Prepass(texts, titles), b)
              P == InBlock(b, Splits(t))
              D == InBlock(b, DetectorsRead(t, heading))
              X == InBlock(b, LexiconSuggestions(t))
              left == b \in DOMAIN skips
  <1>1. t \in Seq(Symbols)
    BY DEF Readable
  <1>2. ASSUME NEW g \in S PROVE Sorted(t, heading, skips, b, g)
    <2>1. g \in Prepass(texts, titles) /\ g.block = b /\ g.kind # "conversion_artifact"
      BY DEF Proposals
    <2>. QED
      BY <2>1, PrepassSorts
  <1>. HIDE DEF t, heading, S
  <1>3. /\ \A g \in P : Suggested(g) /\ g.kind = "dialogue_split" /\ Reaches(Len(t), g) /\ InRow(g.segments, g.start)
        /\ \A g, h \in P : g = h
    BY <1>1, SplitsInBlock
  <1>4. Readings(t, LexiconWins, D)
    BY <1>1, DetectedApart, ReadingsInBlock DEF DetectorsRead
  <1>. DEFINE K == {"dict_hit"}
  <1>5. Readings(t, K, X)
    BY <1>1, LexiconApart, ReadingsInBlock
  <1>6. ASSUME NEW g \in S
        PROVE  \/ g.kind = "speaker_gender" /\ Suggested(g)
               \/ left /\ LeftOut(t, skips[b], b, g)
               \/ ~left /\ g \in P
               \/ ~left /\ g \in D /\ \A h \in X : ~Overlap(SpanOf(g), SpanOf(h))
               \/ ~left /\ g \in X
    BY <1>2 DEF Sorted
  <1>7. \A g : LeftOut(t, skips[b], b, g) => Suggested(g) /\ g.kind = "skip" /\ Reaches(Len(t), g)
    BY <1>1, LeftOutIs
  <1>8. \A g, h : LeftOut(t, skips[b], b, g) /\ LeftOut(t, skips[b], b, h) => g = h
    BY DEF LeftOut
  <1>9. \A k \in LexiconWins \cup K : k \in Overlaid /\ k # "dialogue_split"
    BY DEF LexiconWins, Overlaid, Pronounced
  <1>10. /\ "speaker_gender" \notin Overlaid /\ "dialogue_split" \notin Overlaid
    BY DEF Overlaid, Pronounced
  <1>. HIDE DEF P, D, X, K, left, skips
  <1>11. \A g \in D : ReadsPart(t, LexiconWins, g) /\ Suggested(g) /\ g.kind \in LexiconWins
    BY <1>4 DEF Readings, ReadsPart
  <1>12. \A g \in X : ReadsPart(t, K, g) /\ Suggested(g) /\ g.kind \in K
    BY <1>5 DEF Readings, ReadsPart
  <1>13. \A g \in D \cup X : Reaches(Len(t), g)
    BY <1>1, <1>11, <1>12, ReadsReaches
  <1>14. ASSUME NEW g \in S PROVE Fitting(Len(t), g)
    <2>1. CASE g.kind = "speaker_gender" /\ Suggested(g)
      BY <2>1, <1>10 DEF Fitting
    <2>2. CASE LeftOut(t, skips[b], b, g)
      BY <2>2, <1>7 DEF Fitting
    <2>3. CASE g \in P
      BY <2>3, <1>3 DEF Fitting
    <2>4. CASE g \in D \cup X
      BY <2>4, <1>9, <1>11, <1>12, <1>13 DEF Fitting
    <2>. QED
      BY <1>6, <2>1, <2>2, <2>3, <2>4
  <1>15. ASSUME NEW g \in S, NEW h \in S, g # h, g.kind \in Overlaid, h.kind \in Overlaid
         PROVE  Beside(g, h)
    <2>1. g \notin P /\ h \notin P /\ g.kind # "speaker_gender" /\ h.kind # "speaker_gender"
      BY <1>3, <1>10, <1>15
    <2>2. ~left
      BY <2>1, <1>6, <1>8, <1>15
    <2>3. g \in D \cup X /\ h \in D \cup X
      BY <2>1, <2>2, <1>6
    <2>4. CASE g \in D /\ h \in D
      <3>1. ~Overlap(SpanOf(g), SpanOf(h))
        BY <2>4, <1>4, <1>15 DEF Readings, NoOverlap
      <3>. QED
        BY <3>1, <2>4, <1>1, <1>11, ReadingsBeside
    <2>5. CASE g \in X /\ h \in X
      <3>1. ~Overlap(SpanOf(g), SpanOf(h))
        BY <2>5, <1>5, <1>15 DEF Readings, NoOverlap
      <3>. QED
        BY <3>1, <2>5, <1>1, <1>12, ReadingsBeside
    <2>6. CASE g \notin X /\ h \in X
      <3>1. g \in D /\ ~Overlap(SpanOf(g), SpanOf(h))
        BY <2>1, <2>2, <2>6, <1>6
      <3>. QED
        BY <3>1, <2>6, <1>1, <1>11, <1>12, ReadingsBeside
    <2>7. CASE g \in X /\ h \notin X
      <3>1. h \in D /\ ~Overlap(SpanOf(h), SpanOf(g))
        BY <2>1, <2>2, <2>7, <1>6
      <3>. QED
        BY <3>1, <2>7, <1>1, <1>11, <1>12, ReadingsBeside
    <2>. QED
      BY <2>3, <2>4, <2>5, <2>6, <2>7
  <1>16. ASSUME NEW g \in S, NEW h \in S, g # h, g.kind = "dialogue_split", h.kind = "dialogue_split"
         PROVE  FALSE
    <2>1. g \in P /\ h \in P
      BY <1>6, <1>7, <1>9, <1>11, <1>12, <1>16
    <2>. QED
      BY <2>1, <1>3, <1>16
  <1>17. Standing(Len(t), S)
    BY <1>14, <1>15, <1>16 DEF Standing
  <1>. QED
    BY <1>17 DEF t, S

-----------------------------------------------------------------------------
(* Rewrites leave them beside each other.                                  *)

\* A slice that is as long as its bounds say is inside the text.
LEMMA FitsWithin ==
    ASSUME NEW t \in Seq(Symbols), NEW u \in Seq(Symbols), NEW s \in Nat, NEW e \in Int, s < e, e <= Len(t),
           Slice(u, s, e) = Slice(t, s, e)
    PROVE  e <= Len(u)
  <1>. DEFINE n == Len(u)
              f == IF e <= n THEN e ELSE n
  <1>1. n \in Nat /\ Len(t) \in Nat
    OBVIOUS
  <1>2. Slice(t, s, e) = SubSeq(t, s + 1, e) /\ Slice(u, s, e) = SubSeq(u, s + 1, f)
    BY DEF Slice
  <1>3. Len(SubSeq(t, s + 1, e)) = e - s
    BY <1>1
  <1>4. Len(SubSeq(u, s + 1, f)) = IF s < f THEN f - s ELSE 0
    BY <1>1
  <1>. HIDE DEF n
  <1>5. e - s = IF s < f THEN f - s ELSE 0
    BY <1>2, <1>3, <1>4
  <1>6. e <= n
    BY <1>1, <1>5
  <1>. QED
    BY <1>6 DEF n

\* A piece that is moved is still one.
LEMMA AlongIs ==
    ASSUME NEW m \in Piece, NEW d \in Int
    PROVE  Along(m, d) \in Piece /\ Along(m, d).start = m.start + d /\ Along(m, d).end = m.end + d
  <1>. DEFINE p == m.start + d
              q == m.end + d
              o == Along(m, d)
  <1>1. m.start \in Int /\ m.end \in Int /\ m.kind \in {Narration, Spoken}
        /\ m = [kind |-> m.kind, start |-> m.start, end |-> m.end]
    BY DEF Piece
  <1>2. p \in Int /\ q \in Int
    BY <1>1
  <1>3. o = [m EXCEPT !.start = p, !.end = q]
    BY DEF Along
  <1>. HIDE DEF p, q, o
  <1>4. o = [kind |-> m.kind, start |-> p, end |-> q]
    BY <1>1, <1>3
  <1>5. o \in Piece /\ o.start = p /\ o.end = q
    BY <1>1, <1>2, <1>4 DEF Piece
  <1>. QED
    BY <1>5 DEF p, q, o

\* A piece behind a rewrite moves with the text, one before it stays.
Nudged(w, d, m) == IF m.end <= w.start THEN m ELSE Along(m, d)

\* A piece is still one.
LEMMA NudgedIs ==
    ASSUME NEW m \in Piece, NEW w, NEW d \in Int
    PROVE  /\ Nudged(w, d, m) \in Piece
           /\ Nudged(w, d, m).start = (IF m.end <= w.start THEN m.start ELSE m.start + d)
           /\ Nudged(w, d, m).end = (IF m.end <= w.start THEN m.end ELSE m.end + d)
  BY AlongIs DEF Nudged

\* The pieces of a split, all moved.
LEMMA RowSlid ==
    ASSUME NEW L, NEW a \in Int, InRow(L, a), NEW d \in Int
    PROVE  InRow([k \in 1..Len(L) |-> Along(L[k], d)], a + d)
  <1>. DEFINE n == Len(L)
              X == [k \in 1..n |-> Along(L[k], d)]
  <1>1. /\ L \in Seq(Piece) /\ n \in Nat
        /\ \A k \in 1..n : a <= L[k].start /\ L[k].start < L[k].end
        /\ \A j, k \in 1..n : j < k => L[j].end <= L[k].start
    BY DEF InRow
  <1>2. ASSUME NEW k \in 1..n
        PROVE  /\ X[k] \in Piece /\ X[k].start = L[k].start + d /\ X[k].end = L[k].end + d
               /\ L[k].start \in Int /\ L[k].end \in Int
    <2>1. L[k] \in Piece /\ X[k] = Along(L[k], d)
      BY <1>1
    <2>. QED
      BY <2>1, AlongIs DEF Piece
  <1>3. X \in Seq(Piece) /\ Len(X) = n
    BY <1>1, <1>2
  <1>. HIDE DEF X, n
  <1>4. ASSUME NEW k \in 1..n PROVE a + d <= X[k].start /\ X[k].start < X[k].end
    <2>. DEFINE p == L[k].start
                q == L[k].end
                i == X[k].start
                o == X[k].end
    <2>1. a <= p /\ p < q
      BY <1>1
    <2>2. i = p + d /\ o = q + d /\ p \in Int /\ q \in Int
      BY <1>2
    <2>. HIDE DEF p, q, i, o
    <2>3. a + d <= i /\ i < o
      BY <2>1, <2>2
    <2>. QED
      BY <2>3 DEF i, o
  <1>5. ASSUME NEW j \in 1..n, NEW k \in 1..n, j < k PROVE X[j].end <= X[k].start
    <2>. DEFINE p == L[j].end
                q == L[k].start
                i == X[j].end
                o == X[k].start
    <2>1. p <= q
      BY <1>1, <1>5
    <2>2. i = p + d /\ o = q + d /\ p \in Int /\ q \in Int
      BY <1>2
    <2>. HIDE DEF p, q, i, o
    <2>3. i <= o
      BY <2>1, <2>2
    <2>. QED
      BY <2>3 DEF i, o
  <1>6. InRow(X, a + d)
    BY <1>3, <1>4, <1>5 DEF InRow
  <1>. QED
    BY <1>6 DEF X, n

\* The pieces of a split around a rewrite.
LEMMA RowNudged ==
    ASSUME NEW L, NEW a \in Nat, InRow(L, a), NEW w, w.start \in Nat, w.end \in Nat, w.start < w.end, a <= w.start,
           NEW d \in Int, 0 <= w.end - w.start + d,
           \A k \in 1..Len(L) : ~(L[k].end > w.start /\ L[k].start < w.end)
    PROVE  InRow([k \in 1..Len(L) |-> Nudged(w, d, L[k])], a)
  <1>. DEFINE n == Len(L)
              X == [k \in 1..n |-> Nudged(w, d, L[k])]
  <1>1. /\ L \in Seq(Piece) /\ n \in Nat
        /\ \A k \in 1..n : a <= L[k].start /\ L[k].start < L[k].end
        /\ \A j, k \in 1..n : j < k => L[j].end <= L[k].start
    BY DEF InRow
  <1>2. ASSUME NEW k \in 1..n
        PROVE  /\ X[k] \in Piece
               /\ L[k].start \in Int /\ L[k].end \in Int
               /\ X[k].start = (IF L[k].end <= w.start THEN L[k].start ELSE L[k].start + d)
               /\ X[k].end = (IF L[k].end <= w.start THEN L[k].end ELSE L[k].end + d)
    <2>1. L[k] \in Piece /\ X[k] = Nudged(w, d, L[k])
      BY <1>1
    <2>2. L[k].start \in Int /\ L[k].end \in Int
      BY <2>1 DEF Piece
    <2>. HIDE DEF X
    <2>. QED
      BY <2>1, <2>2, NudgedIs
  <1>3. X \in Seq(Piece) /\ Len(X) = n
    BY <1>1, <1>2
  <1>. HIDE DEF X, n
  <1>4. ASSUME NEW k \in 1..n
        PROVE  /\ L[k].start \in Int /\ L[k].end \in Int /\ L[k].start < L[k].end
               /\ \/ L[k].end <= w.start /\ X[k].start = L[k].start /\ X[k].end = L[k].end
                  \/ L[k].start >= w.end /\ X[k].start = L[k].start + d /\ X[k].end = L[k].end + d
    <2>1. L[k].start \in Int /\ L[k].end \in Int /\ L[k].start < L[k].end
      BY <1>1, <1>2
    <2>2. ~(L[k].end > w.start /\ L[k].start < w.end)
      BY DEF n
    <2>3. CASE L[k].end <= w.start
      BY <2>1, <2>3, <1>2
    <2>4. CASE ~(L[k].end <= w.start)
      <3>1. L[k].start >= w.end
        BY <2>1, <2>2, <2>4
      <3>. QED
        BY <2>1, <2>4, <3>1, <1>2
    <2>. QED
      BY <2>3, <2>4
  <1>. DEFINE s == w.start
              f == w.end
  <1>5. s \in Int /\ f \in Int /\ s < f /\ a <= s /\ s <= f + d
    OBVIOUS
  <1>. HIDE DEF s, f
  <1>6. ASSUME NEW k \in 1..n
        PROVE  /\ L[k].start \in Int /\ L[k].end \in Int /\ L[k].start < L[k].end
               /\ \/ L[k].end <= s /\ X[k].start = L[k].start /\ X[k].end = L[k].end
                  \/ f <= L[k].start /\ X[k].start = L[k].start + d /\ X[k].end = L[k].end + d
    <2>1. w.start \in Int /\ w.end \in Int
      OBVIOUS
    <2>. QED
      BY <1>4, <2>1 DEF s, f
  <1>7. ASSUME NEW k \in 1..n PROVE a <= X[k].start /\ X[k].start < X[k].end
    <2>1. a <= L[k].start
      BY <1>1
    <2>2. CASE L[k].end <= s /\ X[k].start = L[k].start /\ X[k].end = L[k].end
      BY <2>1, <2>2, <1>6
    <2>3. CASE f <= L[k].start /\ X[k].start = L[k].start + d /\ X[k].end = L[k].end + d
      BY <2>3, <1>5, <1>6
    <2>. QED
      BY <2>2, <2>3, <1>6
  <1>8. ASSUME NEW j \in 1..n, NEW k \in 1..n, j < k PROVE X[j].end <= X[k].start
    <2>1. L[j].end <= L[k].start
      BY <1>1, <1>8
    <2>. DEFINE p == L[j].start
                q == L[j].end
                x == L[k].start
                y == L[k].end
    <2>2. /\ p \in Int /\ q \in Int /\ x \in Int /\ y \in Int /\ p < q /\ x < y /\ q <= x
          /\ (q <= s /\ X[j].end = q) \/ (f <= p /\ X[j].end = q + d)
          /\ (y <= s /\ X[k].start = x) \/ (f <= x /\ X[k].start = x + d)
      BY <2>1, <1>6
    <2>. HIDE DEF p, q, x, y
    <2>. QED
      BY <2>2, <1>5
  <1>9. InRow(X, a)
    BY <1>3, <1>7, <1>8 DEF InRow
  <1>. QED
    BY <1>9 DEF X, n

\* The pieces of a split that is slid.
SlidRow(L, d) == [k \in 1..Len(L) |-> Along(L[k], d)]

\* The pieces of a split around a rewrite.
NudgedRow(L, w, d) == [k \in 1..Len(L) |-> Nudged(w, d, L[k])]

\* What a suggestion is after a rewrite: before it, behind it, or around it.
TakenAlong(g, w, d, k) ==
    /\ Suggested(k) /\ k.kind = g.kind
    /\ \/ g.end <= w.start /\ k.start = g.start /\ k.end = g.end /\ k.segments = g.segments
       \/ /\ g.start >= w.end /\ k.start = g.start + d /\ k.end = g.end + d /\ k.segments = SlidRow(g.segments, d)
       \/ /\ g.start <= w.start /\ g.end >= w.end /\ k.start = g.start /\ k.end = g.end + d
          /\ k.segments = NudgedRow(g.segments, w, d)
          /\ \A m \in 1..Len(g.segments) : ~(g.segments[m].end > w.start /\ g.segments[m].start < w.end)

\* It is taken along to one place, or lost.
LEMMA ShiftedTakes ==
    ASSUME NEW g, Suggested(g), NEW w, NEW k \in Shifted(g, w)
    PROVE  /\ TakenAlong(g, w, Growth(w.start, w.end, w.replacement), k)
           /\ \A l \in Shifted(g, w) : l = k
  <1>. DEFINE d == Growth(w.start, w.end, w.replacement)
              A == RewrittenInside(g, w)
  <1>1. Shifted(g, w) = IF g.end <= w.start THEN {g}
                        ELSE IF g.start >= w.end THEN {Slid(g, d)}
                        ELSE IF g.start <= w.start /\ g.end >= w.end THEN A ELSE {}
    BY DEF Shifted, Growth
  <1>2. CASE g.end <= w.start
    BY <1>1, <1>2 DEF TakenAlong
  <1>3. CASE ~(g.end <= w.start) /\ g.start >= w.end
    <2>. DEFINE p == g.start + d
                q == g.end + d
                x == SlidRow(g.segments, d)
    <2>1. Shifted(g, w) = {Slid(g, d)}
      BY <1>1, <1>3
    <2>3. k = Slid(g, d) /\ \A l \in Shifted(g, w) : l = k
      BY <2>1
    <2>4. /\ Suggested(Slid(g, d)) /\ Slid(g, d).kind = g.kind /\ Slid(g, d).start = p /\ Slid(g, d).end = q
          /\ Slid(g, d).segments = x
      BY SlidIs DEF SlidRow
    <2>. HIDE DEF p, q, x, d
    <2>5. Suggested(k) /\ k.kind = g.kind /\ k.start = p /\ k.end = q /\ k.segments = x
      BY <2>3, <2>4
    <2>6. TakenAlong(g, w, d, k)
      BY <2>5, <1>3 DEF TakenAlong, p, q, x
    <2>. QED
      BY <2>3, <2>6 DEF d
  <1>4. CASE ~(g.end <= w.start) /\ ~(g.start >= w.end)
    <2>. DEFINE q == g.end + d
                o == Replaced(g.original, w.start - g.start, w.end - g.start, w.replacement)
                x == NudgedRow(g.segments, w, d)
                hit(m) == m.end > w.start /\ m.start < w.end
    <2>1. k \in A /\ Shifted(g, w) = A /\ g.start <= w.start /\ g.end >= w.end
      <3>. HIDE DEF A, d
      <3>. QED
        BY <1>1, <1>4
    <2>2. A = IF \E m \in 1..Len(g.segments) : hit(g.segments[m]) THEN {}
              ELSE {[g EXCEPT !.end = q, !.original = o, !.segments = x]}
      BY DEF RewrittenInside, NudgedRow, Nudged, Growth
    <2>3. \A m \in 1..Len(g.segments) : ~hit(g.segments[m])
      <3>. HIDE DEF hit, q, o, x, A
      <3>. QED
        BY <2>1, <2>2
    <2>4. k = [g EXCEPT !.end = q, !.original = o, !.segments = x] /\ \A l \in A : l = k
      <3>. HIDE DEF hit, q, o, x, A
      <3>. QED
        BY <2>1, <2>2, <2>3
    <2>. HIDE DEF q, o, x, A, d
    <2>5. k = [block |-> g.block, kind |-> g.kind, start |-> g.start, end |-> q, original |-> o,
               replacement |-> g.replacement, reason |-> g.reason, form |-> g.form, segments |-> x, speaker |-> g.speaker]
      BY <2>4 DEF Suggested
    <2>6. Suggested(k) /\ k.kind = g.kind /\ k.start = g.start /\ k.end = q /\ k.segments = x
      BY <2>5 DEF Suggested
    <2>7. TakenAlong(g, w, d, k)
      BY <2>1, <2>3, <2>6 DEF TakenAlong, q, x
    <2>. QED
      BY <2>1, <2>4, <2>7 DEF d
  <1>. HIDE DEF d, A
  <1>. QED
    BY <1>2, <1>3, <1>4 DEF d

\* A rewrite of a text of n symbols.
Rewriter(n, w, d) == /\ n \in Nat /\ w.start \in Nat /\ w.end \in Nat /\ w.start < w.end /\ w.end <= n
                     /\ d \in Int /\ 0 <= w.end - w.start + d

\* What is taken along fits the text that is rewritten,
LEMMA TakenFits ==
    ASSUME NEW n, NEW w, NEW d, Rewriter(n, w, d), NEW g, Fitting(n, g), NEW k, TakenAlong(g, w, d, k)
    PROVE  Fitting(n + d, k)
  <1>1. /\ n \in Nat /\ w.start \in Nat /\ w.end \in Nat /\ w.start < w.end /\ w.end <= n
        /\ d \in Int /\ 0 <= w.end - w.start + d
    BY DEF Rewriter
  <1>2. Suggested(k) /\ k.kind = g.kind
    BY DEF TakenAlong
  <1>3. ASSUME Reaches(n, g) PROVE Reaches(n + d, k)
    <2>. DEFINE s == w.start
                f == w.end
                p == g.start
                q == g.end
    <2>1. /\ s \in Nat /\ f \in Nat /\ s < f /\ f <= n /\ n \in Nat /\ d \in Int /\ 0 <= f - s + d
          /\ p \in Nat /\ q \in Int /\ p <= q /\ q <= n
      BY <1>1, <1>3 DEF Reaches
    <2>2. \/ q <= s /\ k.start = p /\ k.end = q
          \/ p >= f /\ k.start = p + d /\ k.end = q + d
          \/ p <= s /\ q >= f /\ k.start = p /\ k.end = q + d
      BY DEF TakenAlong
    <2>. HIDE DEF s, f, p, q
    <2>3. k.start \in Nat /\ k.end \in Int /\ k.start <= k.end /\ k.end <= n + d
      BY <2>1, <2>2
    <2>. QED
      BY <2>3 DEF Reaches
  <1>4. ASSUME g.kind = "dialogue_split" PROVE InRow(k.segments, k.start)
    <2>1. InRow(g.segments, g.start) /\ g.start \in Nat
      BY <1>4 DEF Fitting, Reaches
    <2>2. CASE g.end <= w.start /\ k.start = g.start /\ k.segments = g.segments
      BY <2>1, <2>2
    <2>3. CASE k.start = g.start + d /\ k.segments = SlidRow(g.segments, d)
      <3>. DEFINE L == g.segments
                  a == g.start
      <3>1. InRow(L, a) /\ a \in Int /\ d \in Int
        BY <2>1, <1>1
      <3>. HIDE DEF L, a
      <3>2. InRow(SlidRow(L, d), a + d)
        BY <3>1, RowSlid DEF SlidRow
      <3>. QED
        BY <2>3, <3>2 DEF L, a
    <2>4. CASE /\ g.start <= w.start /\ k.start = g.start /\ k.segments = NudgedRow(g.segments, w, d)
               /\ \A m \in 1..Len(g.segments) : ~(g.segments[m].end > w.start /\ g.segments[m].start < w.end)
      <3>. DEFINE L == g.segments
                  a == g.start
      <3>1. /\ InRow(L, a) /\ a \in Nat /\ a <= w.start
            /\ \A m \in 1..Len(L) : ~(L[m].end > w.start /\ L[m].start < w.end)
        BY <2>1, <2>4
      <3>. HIDE DEF L, a
      <3>2. InRow(NudgedRow(L, w, d), a)
        BY <1>1, <3>1, RowNudged DEF NudgedRow
      <3>. QED
        BY <2>4, <3>2 DEF L, a
    <2>. QED
      BY <2>2, <2>3, <2>4 DEF TakenAlong
  <1>. QED
    BY <1>2, <1>3, <1>4 DEF Fitting

\* and stays behind what it was behind.
LEMMA TakenBehind ==
    ASSUME NEW n, NEW w, NEW d, Rewriter(n, w, d), NEW g, NEW h, Reaches(n, g), Reaches(n, h), g.end <= h.start,
           NEW k, TakenAlong(g, w, d, k), NEW l, TakenAlong(h, w, d, l)
    PROVE  k.end <= l.start
  <1>. DEFINE s == w.start
              f == w.end
              p == g.start
              q == g.end
              x == h.start
              y == h.end
  <1>1. /\ s \in Nat /\ f \in Nat /\ s < f /\ f <= n /\ n \in Nat /\ d \in Int /\ 0 <= f - s + d
        /\ p \in Nat /\ q \in Int /\ p <= q /\ q <= n
        /\ x \in Nat /\ y \in Int /\ x <= y /\ y <= n /\ q <= x
    BY DEF Reaches, Rewriter
  <1>2. \/ q <= s /\ k.end = q
        \/ p >= f /\ k.end = q + d
        \/ p <= s /\ q >= f /\ k.end = q + d
    BY DEF TakenAlong
  <1>3. \/ y <= s /\ l.start = x
        \/ x >= f /\ l.start = x + d
        \/ x <= s /\ y >= f /\ l.start = x
    BY DEF TakenAlong
  <1>. HIDE DEF s, f, p, q, x, y
  <1>. QED
    BY <1>1, <1>2, <1>3

\* A rewrite leaves the others beside each other.
LEMMA RewriteStands ==
    ASSUME NEW a, a.text \in Seq(Symbols), a = [text |-> a.text, others |-> a.others, conflicts |-> a.conflicts],
           Standing(Len(a.text), a.others),
           NEW w, w.start \in Nat, w.end \in Nat, w.start < w.end, w.replacement \in Seq(Symbols),
           NEW t \in Seq(Symbols), w.end <= Len(t), w.original = Slice(t, w.start, w.end)
    PROVE  Standing(Len(Rewrite(a, w).text), Rewrite(a, w).others)
  <1>1. CASE ~Fits(a.text, w)
    <2>. DEFINE x == a.text
                y == a.others
                z == a.conflicts \cup {w}
    <2>1. Rewrite(a, w) = [a EXCEPT !.conflicts = z]
      BY <1>1 DEF Rewrite
    <2>2. a = [text |-> x, others |-> y, conflicts |-> a.conflicts] /\ Standing(Len(x), y)
      OBVIOUS
    <2>. HIDE DEF x, y, z
    <2>3. Rewrite(a, w) = [text |-> x, others |-> y, conflicts |-> z]
      BY <2>1, <2>2
    <2>4. Rewrite(a, w).text = x /\ Rewrite(a, w).others = y
      BY <2>3
    <2>. QED
      BY <2>2, <2>4
  <1>2. CASE Fits(a.text, w)
    <2>. DEFINE u == a.text
                n == Len(u)
                O == a.others
                s == w.start
                f == w.end
                r == w.replacement
                d == Growth(s, f, r)
                x == Replaced(u, s, f, r)
                y == UNION {Shifted(g, w) : g \in O}
                z == a.conflicts \cup {g \in a.others : Shifted(g, w) = {}}
    <2>1. Rewrite(a, w) = [text |-> x, others |-> y, conflicts |-> z]
      BY <1>2 DEF Rewrite
    <2>2. Rewrite(a, w).text = x /\ Rewrite(a, w).others = y
      BY <2>1
    <2>3. f <= n
      <3>1. Slice(u, s, f) = Slice(t, s, f) /\ f \in Int
        BY <1>2 DEF Fits
      <3>. HIDE DEF u, s, f
      <3>2. s \in Nat /\ s < f /\ f <= Len(t) /\ u \in Seq(Symbols)
        BY DEF u, s, f
      <3>. QED
        BY <3>1, <3>2, FitsWithin
    <2>4. n \in Nat /\ Len(r) \in Nat /\ s \in Nat /\ f \in Nat /\ s < f /\ r \in Seq(Symbols) /\ u \in Seq(Symbols)
      OBVIOUS
    <2>5. Rewriter(n, w, d)
      <3>1. d = Len(r) - (f - s)
        BY DEF Growth
      <3>2. d \in Int /\ 0 <= f - s + d
        <4>. DEFINE m == Len(r)
        <4>. HIDE DEF n, s, f, d, m
        <4>1. d = m - (f - s) /\ m \in Nat
          BY <2>4, <3>1 DEF m
        <4>. QED
          BY <2>4, <4>1
      <3>. HIDE DEF n, d
      <3>. QED
        BY <2>3, <2>4, <3>2 DEF Rewriter
    <2>6. Len(x) = n + d
      <3>1. s \in 0..n /\ f \in s..n
        BY <2>3, <2>4
      <3>. HIDE DEF s, f, r, u
      <3>. QED
        BY <3>1, <2>4, ReplacedGives
    <2>7. Standing(n, O)
      OBVIOUS
    <2>8. \A k \in y : \E g \in O : k \in Shifted(g, w)
      OBVIOUS
    <2>. HIDE DEF n, O, x, y, z, d
    <2>9. ASSUME NEW g \in O, NEW k \in Shifted(g, w)
          PROVE  TakenAlong(g, w, d, k) /\ \A l \in Shifted(g, w) : l = k
      <3>1. Suggested(g)
        BY <2>7 DEF Standing, Fitting
      <3>. QED
        BY <3>1, ShiftedTakes DEF d
    <2>10. ASSUME NEW k \in y PROVE Fitting(n + d, k)
      <3>1. PICK g \in O : k \in Shifted(g, w)
        BY <2>8
      <3>2. Fitting(n, g) /\ TakenAlong(g, w, d, k)
        BY <3>1, <2>7, <2>9 DEF Standing
      <3>. QED
        BY <3>2, <2>5, TakenFits
    <2>11. ASSUME NEW k \in y, NEW l \in y, k # l
           PROVE  /\ k.kind \in Overlaid /\ l.kind \in Overlaid => Beside(k, l)
                  /\ ~(k.kind = "dialogue_split" /\ l.kind = "dialogue_split")
      <3>1. PICK g \in O : k \in Shifted(g, w)
        BY <2>8
      <3>2. PICK h \in O : l \in Shifted(h, w)
        BY <2>8
      <3>3. g # h
        BY <3>1, <3>2, <2>9, <2>11
      <3>4. TakenAlong(g, w, d, k) /\ TakenAlong(h, w, d, l)
        BY <3>1, <3>2, <2>9
      <3>5. k.kind = g.kind /\ l.kind = h.kind
        BY <3>4 DEF TakenAlong
      <3>6. /\ g.kind \in Overlaid /\ h.kind \in Overlaid => Beside(g, h)
            /\ ~(g.kind = "dialogue_split" /\ h.kind = "dialogue_split")
            /\ Fitting(n, g) /\ Fitting(n, h)
        BY <3>3, <2>7 DEF Standing
      <3>7. ASSUME g.kind \in Overlaid, h.kind \in Overlaid PROVE Beside(k, l)
        <4>1. Reaches(n, g) /\ Reaches(n, h)
          BY <3>6, <3>7 DEF Fitting
        <4>2. CASE g.end <= h.start
          <5>1. k.end <= l.start
            BY <4>1, <4>2, <3>4, <2>5, TakenBehind
          <5>. QED
            BY <5>1 DEF Beside
        <4>3. CASE h.end <= g.start
          <5>1. l.end <= k.start
            BY <4>1, <4>3, <3>4, <2>5, TakenBehind
          <5>. QED
            BY <5>1 DEF Beside
        <4>. QED
          BY <4>2, <4>3, <3>6, <3>7 DEF Beside
      <3>. QED
        BY <3>5, <3>6, <3>7
    <2>12. Standing(n + d, y)
      BY <2>10, <2>11 DEF Standing
    <2>. QED
      BY <2>2, <2>6, <2>12
  <1>. QED
    BY <1>1, <1>2

\* So does a whole batch.
LEMMA BatchStands ==
    ASSUME NEW t \in Seq(Symbols), NEW batch, Rewriting(t, {w \in batch : w.kind = "conversion_artifact"}),
           Standing(Len(t), {o \in batch : o.kind # "conversion_artifact"})
    PROVE  /\ Rewritten(t, batch).text \in Seq(Symbols)
           /\ Standing(Len(Rewritten(t, batch).text), Rewritten(t, batch).others)
  <1>. DEFINE A == {w \in batch : w.kind = "conversion_artifact"}
              others == {o \in batch : o.kind # "conversion_artifact"}
              a == [text |-> t, others |-> others, conflicts |-> {}]
              L == FromTheRight(A)
              n == Len(L)
              F == CHOOSE f : f = [k \in 0..n |-> IF k = 0 THEN a ELSE Rewrite(f[k - 1], L[k])]
  <1>1. Placed(A)
    BY RewritingPlaced
  <1>2. n \in Nat /\ \A k \in 1..n : L[k] \in A
    BY <1>1, RewritesListed
  <1>3. Rewritten(t, batch) = F[n]
    BY DEF Rewritten, FromTheRight
  <1>4. /\ a.text = t /\ a.others = others /\ Standing(Len(t), others)
        /\ a = [text |-> a.text, others |-> a.others, conflicts |-> a.conflicts]
    OBVIOUS
  <1>5. \A w \in A : /\ w.start \in Nat /\ w.end \in Nat /\ w.start < w.end /\ w.end <= Len(t)
                     /\ w.original = Slice(t, w.start, w.end) /\ w.replacement \in Seq(Symbols)
    BY DEF Rewriting
  <1>. HIDE DEF A, L, n, a, others
  <1>6. F = [k \in 0..n |-> IF k = 0 THEN a ELSE Rewrite(F[k - 1], L[k])]
    <2>1. \E f : f = [k \in 0..n |-> IF k = 0 THEN a ELSE Rewrite(f[k - 1], L[k])]
      <3>1. \E f : Rewrites(f, a, L, n)
        BY <1>2, SomeRewrites
      <3>. QED
        BY <3>1 DEF Rewrites
    <2>. QED
      BY <2>1
  <1>. HIDE DEF F
  <1>. DEFINE Good == {k \in 0..n : /\ F[k].text \in Seq(Symbols) /\ Standing(Len(F[k].text), F[k].others)
                                    /\ F[k] = [text |-> F[k].text, others |-> F[k].others, conflicts |-> F[k].conflicts]}
  <1>7. 0 \in Good
    <2>1. 0 \in 0..n
      BY <1>2
    <2>2. F[0] = a
      BY <2>1, <1>6
    <2>. QED
      BY <2>1, <2>2, <1>4
  <1>8. ASSUME NEW k \in 1..n, k - 1 \in Good PROVE k \in Good
    <2>. DEFINE x == F[k - 1]
                w == L[k]
    <2>1. k \in 0..n /\ k # 0
      BY <1>2
    <2>2. F[k] = Rewrite(x, w)
      BY <2>1, <1>6
    <2>3. /\ x.text \in Seq(Symbols) /\ Standing(Len(x.text), x.others)
          /\ x = [text |-> x.text, others |-> x.others, conflicts |-> x.conflicts]
      BY <1>8
    <2>4. w \in A
      BY <1>2
    <2>. HIDE DEF x, w, Good
    <2>5. /\ w.start \in Nat /\ w.end \in Nat /\ w.start < w.end /\ w.end <= Len(t)
          /\ w.original = Slice(t, w.start, w.end) /\ w.replacement \in Seq(Symbols)
      BY <2>4, <1>5
    <2>6. Rewrite(x, w).text \in Seq(Symbols)
          /\ Rewrite(x, w) = [text |-> Rewrite(x, w).text, others |-> Rewrite(x, w).others,
                              conflicts |-> Rewrite(x, w).conflicts]
      BY <2>3, <2>5, RewriteIs
    <2>7. Standing(Len(Rewrite(x, w).text), Rewrite(x, w).others)
      BY <2>3, <2>5, RewriteStands
    <2>. QED
      BY <2>1, <2>2, <2>6, <2>7 DEF Good
  <1>. HIDE DEF Good
  <1>9. n \in Good
    <2>1. \A k \in 0..n : k \in Good
      BY <1>2, <1>7, <1>8, Inductive
    <2>. QED
      BY <2>1, <1>2
  <1>. QED
    BY <1>3, <1>9 DEF Good

-----------------------------------------------------------------------------
(* The spans that are committed.                                           *)

\* What SpansOf makes of each kind.
LEMMA SpansByKind ==
    ASSUME NEW g, NEW speakers, NEW length, NEW s \in SpansOf(g, speakers, length)
    PROVE  \/ g.kind \in Pronounced /\ s = Span("pronunciation", <<g.start, g.end>>, g.replacement)
           \/ g.kind = "skip" /\ s = Span("skip", <<g.start, g.end>>, <<>>)
           \/ g.kind = "dialogue_split" /\ s \in DialogueSpans(g, speakers, length)
  <1>. DEFINE y == {Span("pronunciation", <<g.start, g.end>>, g.replacement)}
              v == {Span("skip", <<g.start, g.end>>, <<>>)}
              w == DialogueSpans(g, speakers, length)
              p == g.kind \in Pronounced
              q == g.kind = "skip"
              r == g.kind = "dialogue_split"
  <1>1. SpansOf(g, speakers, length) = CASE p -> y [] q -> v [] r -> w [] OTHER -> {}
    BY SMT DEF SpansOf
  <1>2. ~(p /\ q) /\ ~(p /\ r) /\ ~(q /\ r)
    BY DEF Pronounced
  <1>3. SpansOf(g, speakers, length) = IF p THEN y ELSE IF q THEN v ELSE IF r THEN w ELSE {}
    <2>. HIDE DEF y, v, w, p, q, r
    <2>. QED
      BY <1>1, <1>2
  <1>4. (p /\ s \in y) \/ (q /\ s \in v) \/ (r /\ s \in w)
    <2>. HIDE DEF y, v, w, p, q, r
    <2>. QED
      BY <1>3
  <1>. QED
    BY <1>4

\* A tile is the piece it is painted from.
LEMMA PaintedIs ==
    ASSUME NEW m, NEW here
    PROVE  /\ Painted(m, here).kind = m.kind /\ Painted(m, here).start = m.start /\ Painted(m, here).end = m.end
  <1>. DEFINE s == CHOOSE s \in here : TRUE
              x == s.replacement[1]
              y == s.speaker
              none == ""
  <1>1. Painted(m, here) = IF m.kind # Spoken \/ here = {} THEN Tile(m) ELSE SpokenBy(m, s)
    BY DEF Painted
  <1>2. SpokenBy(m, s) = [Tile(m) EXCEPT !.gender = x, !.speaker = y]
    BY DEF SpokenBy
  <1>. HIDE DEF s, x, y
  <1>3. Tile(m) = [kind |-> m.kind, start |-> m.start, end |-> m.end, spoken |-> <<>>, gender |-> none, speaker |-> NoOne]
    BY DEF Tile, Span
  <1>. HIDE DEF none
  <1>4. Tile(m).kind = m.kind /\ Tile(m).start = m.start /\ Tile(m).end = m.end
    BY <1>3
  <1>5. SpokenBy(m, s).kind = m.kind /\ SpokenBy(m, s).start = m.start /\ SpokenBy(m, s).end = m.end
    BY <1>2, <1>3
  <1>. QED
    BY <1>1, <1>4, <1>5

\* Spans that are in a text, readings apart and tiles apart.
WellSpanned(t, S) ==
    /\ \A s \in S : InText(t, s)
    /\ Disjoint({s \in S : s.kind \notin Structural})
    /\ Disjoint({s \in S : s.kind \in Structural})

\* What is laid over the text for a suggestion.
LaidOver(g) == IF g.kind \in Pronounced THEN Span("pronunciation", <<g.start, g.end>>, g.replacement)
               ELSE Span("skip", <<g.start, g.end>>, <<>>)

\* It has the bounds of the suggestion.
LEMMA LaidOverIs ==
    ASSUME NEW g
    PROVE  LaidOver(g).start = g.start /\ LaidOver(g).end = g.end /\ LaidOver(g).kind \notin Structural
  BY DEF LaidOver, Span, Structural

\* The spans of suggestions that stand beside each other.
LEMMA SpansStand ==
    ASSUME NEW done, done.text \in Seq(Symbols), Standing(Len(done.text), done.others), ~Refused(done)
    PROVE  WellSpanned(done.text, Fitted(done).spans) /\ Fitted(done).text = done.text
  <1>. DEFINE fit == {g \in done.others : Fits(done.text, g)}
              n == Len(done.text)
              speakers == {s \in fit : s.kind = "speaker_gender"}
              here(m) == {s \in speakers : s.start = m.start /\ s.end = m.end}
              tile(m) == Painted(m, here(m))
              X == UNION {SpansOf(g, speakers, n) : g \in fit}
              z == done.conflicts \cup (done.others \ fit) \cup {g \in fit : g.kind = "dialogue_split" /\ g.segments = <<>>}
  <1>1. Fitted(done) = [text |-> done.text, spans |-> X, conflicts |-> z]
    BY DEF Fitted, Spanned
  <1>2. Fitted(done).text = done.text /\ Fitted(done).spans = X
    BY <1>1
  <1>3. ASSUME NEW g \in fit
        PROVE  /\ Fitting(n, g) /\ ~(g.end <= g.start)
               /\ \A h \in fit : g # h => /\ g.kind \in Overlaid /\ h.kind \in Overlaid => Beside(g, h)
                                         /\ ~(g.kind = "dialogue_split" /\ h.kind = "dialogue_split")
    BY DEF Standing, Refused
  <1>4. n \in Nat
    OBVIOUS
  <1>5. \A s \in X : \E g \in fit : s \in SpansOf(g, speakers, n)
    OBVIOUS
  <1>6. ASSUME NEW g, NEW s \in DialogueSpans(g, speakers, n)
        PROVE  \E m \in ToSet(g.segments) : m.end <= n /\ s = tile(m)
    BY DEF DialogueSpans
  <1>7. ASSUME NEW m PROVE tile(m).kind = m.kind /\ tile(m).start = m.start /\ tile(m).end = m.end
    BY PaintedIs
  <1>. HIDE DEF fit, n, speakers, tile, X, z
  <1>8. ASSUME NEW s \in X
        PROVE  \E g \in fit :
                 \/ g.kind \in Overlaid /\ s = LaidOver(g)
                 \/ g.kind = "dialogue_split" /\ \E m \in ToSet(g.segments) : m.end <= n /\ s = tile(m)
    <2>1. PICK g \in fit : s \in SpansOf(g, speakers, n)
      BY <1>5
    <2>2. \/ g.kind \in Pronounced /\ s = Span("pronunciation", <<g.start, g.end>>, g.replacement)
          \/ g.kind = "skip" /\ s = Span("skip", <<g.start, g.end>>, <<>>)
          \/ g.kind = "dialogue_split" /\ s \in DialogueSpans(g, speakers, n)
      BY <2>1, SpansByKind
    <2>3. CASE g.kind \in Pronounced /\ s = Span("pronunciation", <<g.start, g.end>>, g.replacement)
      BY <2>3 DEF LaidOver, Overlaid
    <2>4. CASE g.kind = "skip" /\ s = Span("skip", <<g.start, g.end>>, <<>>)
      <3>1. g.kind \in Overlaid /\ g.kind \notin Pronounced
        BY <2>4 DEF Overlaid, Pronounced
      <3>. QED
        BY <2>4, <3>1 DEF LaidOver
    <2>5. CASE g.kind = "dialogue_split" /\ s \in DialogueSpans(g, speakers, n)
      BY <2>5, <1>6
    <2>. QED
      BY <2>2, <2>3, <2>4, <2>5
  <1>9. ASSUME NEW g \in fit, g.kind = "dialogue_split", NEW m \in ToSet(g.segments)
        PROVE  /\ m \in Piece /\ 0 <= m.start /\ m.start < m.end
               /\ \A o \in ToSet(g.segments) : o # m => o.end <= m.start \/ m.end <= o.start
    <2>. DEFINE L == g.segments
                a == g.start
    <2>1. InRow(L, a) /\ a \in Nat
      BY <1>3, <1>9 DEF Fitting, Reaches
    <2>2. /\ L \in Seq(Piece)
          /\ \A k \in 1..Len(L) : a <= L[k].start /\ L[k].start < L[k].end
          /\ \A j, k \in 1..Len(L) : j < k => L[j].end <= L[k].start
      BY <2>1 DEF InRow
    <2>3. \A o \in ToSet(L) : \E k \in 1..Len(L) : o = L[k]
      BY DEF ToSet
    <2>4. m \in ToSet(L)
      OBVIOUS
    <2>. HIDE DEF L, a
    <2>5. PICK k \in 1..Len(L) : m = L[k]
      BY <2>3, <2>4
    <2>6. m \in Piece
      BY <2>2, <2>5
    <2>7. 0 <= m.start /\ m.start < m.end
      <3>1. a <= m.start /\ m.start < m.end /\ m.start \in Int
        BY <2>2, <2>5, <2>6 DEF Piece
      <3>. QED
        BY <3>1, <2>1
    <2>8. ASSUME NEW o \in ToSet(L), o # m PROVE o.end <= m.start \/ m.end <= o.start
      <3>1. PICK j \in 1..Len(L) : o = L[j]
        BY <2>3
      <3>2. j # k /\ j \in Int /\ k \in Int
        BY <3>1, <2>5, <2>8
      <3>3. j < k \/ k < j
        BY <3>2
      <3>. QED
        BY <3>1, <3>3, <2>2, <2>5
    <2>. QED
      BY <2>6, <2>7, <2>8 DEF L
  <1>10. \A s : s.kind \in {Narration, Spoken} => s.kind \in Structural
    BY DEF Structural, Narration, Spoken
  <1>11. \A m \in Piece : m.kind \in {Narration, Spoken} /\ m.start \in Int /\ m.end \in Int
    BY DEF Piece
  <1>12. "dialogue_split" \notin Overlaid
    BY DEF Overlaid, Pronounced
  <1>13. ASSUME NEW s \in X PROVE InText(done.text, s)
    <2>1. PICK g \in fit :
             \/ g.kind \in Overlaid /\ s = LaidOver(g)
             \/ g.kind = "dialogue_split" /\ \E m \in ToSet(g.segments) : m.end <= n /\ s = tile(m)
      BY <1>8
    <2>2. CASE g.kind \in Overlaid /\ s = LaidOver(g)
      <3>1. s.start = g.start /\ s.end = g.end
        BY <2>2, LaidOverIs
      <3>2. Reaches(n, g) /\ ~(g.end <= g.start)
        BY <2>2, <1>3 DEF Fitting
      <3>. QED
        BY <3>1, <3>2, <1>4 DEF InText, Reaches, n
    <2>3. CASE g.kind = "dialogue_split" /\ \E m \in ToSet(g.segments) : m.end <= n /\ s = tile(m)
      <3>1. PICK m \in ToSet(g.segments) : m.end <= n /\ s = tile(m)
        BY <2>3
      <3>2. s.start = m.start /\ s.end = m.end
        BY <3>1, <1>7
      <3>3. 0 <= m.start /\ m.start < m.end
        BY <2>3, <3>1, <1>9
      <3>. QED
        BY <3>1, <3>2, <3>3 DEF InText, n
    <2>. QED
      BY <2>1, <2>2, <2>3
  <1>14. ASSUME NEW s \in X, s.kind \notin Structural
         PROVE  \E g \in fit : g.kind \in Overlaid /\ s = LaidOver(g)
    <2>1. PICK g \in fit :
             \/ g.kind \in Overlaid /\ s = LaidOver(g)
             \/ g.kind = "dialogue_split" /\ \E m \in ToSet(g.segments) : m.end <= n /\ s = tile(m)
      BY <1>8
    <2>2. ASSUME g.kind = "dialogue_split", NEW m \in ToSet(g.segments), s = tile(m) PROVE FALSE
      <3>1. s.kind = m.kind /\ m \in Piece
        BY <2>2, <1>7, <1>9
      <3>. QED
        BY <3>1, <1>10, <1>11, <1>14
    <2>. QED
      BY <2>1, <2>2
  <1>15. ASSUME NEW s \in X, s.kind \in Structural
         PROVE  \E g \in fit : g.kind = "dialogue_split" /\ \E m \in ToSet(g.segments) : s = tile(m)
    <2>1. PICK g \in fit :
             \/ g.kind \in Overlaid /\ s = LaidOver(g)
             \/ g.kind = "dialogue_split" /\ \E m \in ToSet(g.segments) : m.end <= n /\ s = tile(m)
      BY <1>8
    <2>. QED
      BY <2>1, <1>15, LaidOverIs
  <1>16. ASSUME NEW s \in X, NEW r \in X, s # r, s.kind \notin Structural, r.kind \notin Structural
         PROVE  ~Overlap(SpanOf(s), SpanOf(r))
    <2>1. PICK g \in fit : g.kind \in Overlaid /\ s = LaidOver(g)
      BY <1>14, <1>16
    <2>2. PICK h \in fit : h.kind \in Overlaid /\ r = LaidOver(h)
      BY <1>14, <1>16
    <2>3. g # h
      BY <2>1, <2>2, <1>16
    <2>4. Beside(g, h) /\ Reaches(n, g) /\ Reaches(n, h)
      BY <2>1, <2>2, <2>3, <1>3 DEF Fitting
    <2>5. s.start = g.start /\ s.end = g.end /\ r.start = h.start /\ r.end = h.end
      BY <2>1, <2>2, LaidOverIs
    <2>6. ~(s.start < r.end /\ r.start < s.end)
      BY <2>4, <2>5 DEF Beside, Reaches
    <2>. QED
      BY <2>6 DEF Overlap, SpanOf
  <1>17. ASSUME NEW s \in X, NEW r \in X, s # r, s.kind \in Structural, r.kind \in Structural
         PROVE  ~Overlap(SpanOf(s), SpanOf(r))
    <2>1. PICK g \in fit : g.kind = "dialogue_split" /\ \E m \in ToSet(g.segments) : s = tile(m)
      BY <1>15, <1>17
    <2>2. PICK h \in fit : h.kind = "dialogue_split" /\ \E m \in ToSet(h.segments) : r = tile(m)
      BY <1>15, <1>17
    <2>3. g = h
      BY <2>1, <2>2, <1>3
    <2>4. PICK m \in ToSet(g.segments) : s = tile(m)
      BY <2>1
    <2>5. PICK o \in ToSet(g.segments) : r = tile(o)
      BY <2>2, <2>3
    <2>6. o # m
      BY <2>4, <2>5, <1>17
    <2>7. /\ m \in Piece /\ o \in Piece
          /\ o.end <= m.start \/ m.end <= o.start
      BY <2>1, <2>6, <1>9
    <2>8. s.start = m.start /\ s.end = m.end /\ r.start = o.start /\ r.end = o.end
      BY <2>4, <2>5, <1>7
    <2>9. m.start \in Int /\ m.end \in Int /\ o.start \in Int /\ o.end \in Int
      BY <2>7, <1>11
    <2>10. ~(s.start < r.end /\ r.start < s.end)
      BY <2>7, <2>8, <2>9
    <2>. QED
      BY <2>10 DEF Overlap, SpanOf
  <1>18. WellSpanned(done.text, X)
    BY <1>13, <1>16, <1>17 DEF WellSpanned, Disjoint
  <1>. QED
    BY <1>2, <1>18

-----------------------------------------------------------------------------
(* Spans stay apart.                                                       *)

\* What clients were given stands beside each other in the texts they were given.
ReviewStands == \A c \in Clients : \A b \in 1..Len(review[c].texts) :
                    Standing(Len(review[c].texts[b]), Proposals(review[c].found, b))

\* It holds of nothing,
LEMMA StandsStart == Init => ReviewStands
  <1>1. \A c \in Clients : NoReview.texts = <<>> /\ Len(NoReview.texts) = 0
    BY DEF NoReview
  <1>. QED
    BY <1>1 DEF Init, ReviewStands

\* and of every review.
LEMMA StandsStep == TextsInv /\ ReviewStands /\ [Next]_vars => ReviewStands'
  <1>. SUFFICES ASSUME TextsInv, ReviewStands, [Next]_vars
                PROVE  ReviewStands'
    OBVIOUS
  <1>1. ASSUME NEW c \in Clients, Review(c)
        PROVE  ReviewStands'
    <2>. DEFINE given == [base |-> revision, texts |-> Texts, found |-> Prepass(Texts, headings)]
    <2>1. review' = [review EXCEPT ![c] = given]
      BY <1>1 DEF Review
    <2>2. given.texts = Texts /\ given.found = Prepass(Texts, headings)
      OBVIOUS
    <2>. HIDE DEF given
    <2>3. \A d \in Clients : review'[d] = IF d = c THEN given ELSE review[d]
      BY <2>1 DEF TextsInv
    <2>4. Readable(Texts)
      BY TextsReadable
    <2>5. ASSUME NEW b \in 1..Len(Texts) PROVE Standing(Len(Texts[b]), Proposals(Prepass(Texts, headings), b))
      BY <2>4, PrepassStands
    <2>. QED
      BY <2>2, <2>3, <2>5 DEF ReviewStands
  <1>2. ASSUME review' = review
        PROVE  ReviewStands'
    BY <1>2 DEF ReviewStands
  <1>3. \/ \E c \in Clients : Review(c)
        \/ review' = review
    BY DEF Next, ApplyReading, PutText, vars
  <1>. QED
    BY <1>1, <1>2, <1>3

\* A batch commits spans that are apart,
LEMMA SpansApply ==
    ASSUME TextsInv, DraftInv, GivenInv, ReviewStands, NEW c \in Clients, NEW kinds, ApplyReading(c, kinds)
    PROVE  SpansAreTheReview'
  <1>. DEFINE n == Len(blocks)
              batch(b) == Accepted(c, kinds, b)
              done(b) == Rewritten(blocks[b].text, batch(b))
              new(b) == Applied(blocks[b].text, batch(b))
  <1>1. /\ blocks' = [b \in 1..n |-> Kept(new(b))] /\ review[c].base = revision
        /\ \A b \in 1..n : ~Refused(done(b))
    BY DEF ApplyReading, Stale, Fails
  <1>2. n \in Nat
    BY DEF TextsInv
  <1>3. review[c].texts = Texts
    BY <1>1 DEF DraftInv
  <1>4. ASSUME NEW b \in 1..n PROVE WellSpanned(new(b).text, new(b).spans)
    <2>. DEFINE t == blocks[b].text
                others == {o \in batch(b) : o.kind # "conversion_artifact"}
    <2>1. Len(Texts) = n /\ Texts[b] = t
      BY <1>2 DEF Texts
    <2>2. Rewriting(t, RewritesAt(review[c].found, b)) /\ Standing(Len(t), Proposals(review[c].found, b))
      BY <1>3, <2>1 DEF GivenInv, ReviewStands
    <2>3. {w \in batch(b) : w.kind = "conversion_artifact"} \subseteq RewritesAt(review[c].found, b)
      BY DEF Accepted, RewritesAt
    <2>4. others \subseteq Proposals(review[c].found, b)
      BY DEF Accepted, Proposals
    <2>5. t \in Seq(Symbols)
      BY DEF TextsInv
    <2>. HIDE DEF t, batch
    <2>6. Rewriting(t, {w \in batch(b) : w.kind = "conversion_artifact"})
      BY <2>2, <2>3, RewritingPart
    <2>7. Standing(Len(t), others)
      <3>. HIDE DEF others
      <3>. QED
        BY <2>2, <2>4, StandingPart
    <2>8. Rewritten(t, batch(b)).text \in Seq(Symbols)
          /\ Standing(Len(Rewritten(t, batch(b)).text), Rewritten(t, batch(b)).others)
      BY <2>5, <2>6, <2>7, BatchStands
    <2>. DEFINE d == Rewritten(t, batch(b))
    <2>9. ~Refused(d)
      BY <1>1 DEF t
    <2>10. d.text \in Seq(Symbols) /\ Standing(Len(d.text), d.others)
      BY <2>8
    <2>11. new(b) = Fitted(d)
      BY DEF Applied, t
    <2>. HIDE DEF d, new
    <2>12. WellSpanned(d.text, Fitted(d).spans) /\ Fitted(d).text = d.text
      BY <2>9, <2>10, SpansStand
    <2>. QED
      BY <2>11, <2>12
  <1>. HIDE DEF new, n
  <1>5. Len(blocks') = n /\ \A b \in 1..n : blocks'[b].text = new(b).text /\ blocks'[b].spans = new(b).spans
    BY <1>1, <1>2 DEF Kept
  <1>6. ASSUME NEW b \in 1..n
        PROVE  /\ \A s \in blocks'[b].spans : InText(blocks'[b].text, s)
               /\ Disjoint({s \in blocks'[b].spans : s.kind \notin Structural})
               /\ Disjoint({s \in blocks'[b].spans : s.kind \in Structural})
    <2>1. WellSpanned(blocks'[b].text, blocks'[b].spans)
      BY <1>4, <1>5
    <2>. QED
      BY <2>1 DEF WellSpanned
  <1>. QED
    BY <1>5, <1>6 DEF SpansAreTheReview, Overlays, Tiles

\* and a draft takes its block out.
LEMMA SpansPut ==
    ASSUME TextsInv, SpansAreTheReview, NEW c, NEW b, NEW x, PutText(c, b, x)
    PROVE  SpansAreTheReview'
  <1>1. blocks' = [blocks EXCEPT ![b].text = x] /\ stale' = stale \cup {b}
    BY DEF PutText
  <1>2. Len(blocks') = Len(blocks) /\ \A d \in 1..Len(blocks) : d # b => blocks'[d] = blocks[d]
    BY <1>1 DEF TextsInv
  <1>. QED
    BY <1>1, <1>2 DEF SpansAreTheReview, Overlays, Tiles

\* Whatever is accepted of what the pre-pass proposes: the spans that are committed lie in the
\* text, no two readings over the same words, and no two tiles of dialogue.
THEOREM SpansStayApart == Spec => []SpansAreTheReview
  <1>1. Init => SpansAreTheReview
    <2>. SUFFICES ASSUME Init
                  PROVE  SpansAreTheReview
      OBVIOUS
    <2>1. PICK lesson \in Lessons : blocks = [b \in 1..Len(lesson.texts) |-> [text |-> lesson.texts[b], spans |-> {}]]
      BY DEF Init
    <2>2. lesson.texts \in Seq(Seq(Symbols))
      BY LessonsAssumption
    <2>3. \A b \in 1..Len(blocks) : blocks[b].spans = {}
      BY <2>1, <2>2
    <2>. QED
      BY <2>3 DEF SpansAreTheReview, Overlays, Tiles, Disjoint
  <1>2. TextsInv /\ DraftInv /\ GivenInv /\ ReviewStands /\ SpansAreTheReview /\ [Next]_vars => SpansAreTheReview'
    <2>. SUFFICES ASSUME TextsInv, DraftInv, GivenInv, ReviewStands, SpansAreTheReview, [Next]_vars
                  PROVE  SpansAreTheReview'
      OBVIOUS
    <2>1. ASSUME NEW c \in Clients, Review(c)
          PROVE  SpansAreTheReview'
      BY <2>1 DEF Review, SpansAreTheReview, Overlays, Tiles
    <2>2. ASSUME NEW c \in Clients, NEW kinds, ApplyReading(c, kinds)
          PROVE  SpansAreTheReview'
      BY <2>2, SpansApply
    <2>3. ASSUME NEW c, NEW b, NEW x, PutText(c, b, x)
          PROVE  SpansAreTheReview'
      BY <2>3, SpansPut
    <2>4. CASE UNCHANGED vars
      BY <2>4 DEF vars, SpansAreTheReview, Overlays, Tiles
    <2>. QED
      BY <2>1, <2>2, <2>3, <2>4 DEF Next
  <1>. QED
    BY <1>1, <1>2, TextsStart, TextsStep, DraftStart, DraftStep, GivenStart, GivenStep, StandsStart, StandsStep,
       PTL DEF Spec
=============================================================================
