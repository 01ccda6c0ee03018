------------------------------- MODULE Ingest -------------------------------
(***************************************************************************)
(* Intake with the books themselves: what the reader says of each is read  *)
(* from the members of its archive (ebook/epub_read.py), and what is told  *)
(* of a book is told of the one in the project, its working copy and the   *)
(* one that is exported.                                                   *)
(***************************************************************************)
EXTENDS Intake, EpubWriter

CONSTANT Overlays      \* spans that may lie on the first block of a book

(* The books, read once and for all.                                       *)

Zips == {b \in DOMAIN Library : Library[b].magic = "zip"}
Fresh(b) == ReadEpub(Library[b].archive)

\* What the reader makes of the working copy.
Reread(book) == ReadEpub(Render(book, Working))

\* What the reader says of a book, or of the copy rendered of it.
CodeOf(book, rendered) == IF rendered /\ book.code = "ok" THEN Reread(book).code ELSE book.code

Init == /\ reader = [c \in [book : Zips, rendered : BOOLEAN] |-> CodeOf(Fresh(c.book), c.rendered)]
        /\ IntakeInit

Spec == Init /\ [][IntakeNext]_intakeVars

-----------------------------------------------------------------------------
(* What is told of a book is told of the ones in the project.              *)

Texts(book) == [c \in DOMAIN book.chapters |->
                   [k \in DOMAIN book.chapters[c].blocks |->
                       LET b == book.chapters[c].blocks[k] IN <<b.kind, b.level, b.text>>]]

\* Where the contents lead: titles, with the text of the chapter.
Leads(book) ==
    LET at(e) == {c \in DOMAIN book.chapters : book.chapters[c].href = e.href}
        entries == SelectSeq(Flat(book.toc.entries), LAMBDA e : at(e) # {} /\ e.title # <<>>)
    IN  [k \in DOMAIN entries |-> <<entries[k].title, Texts(book)[Min(at(entries[k]))]>>]

\* A title that is in the contents or in the chapter, and not only in the name of its file;
\* of a document that is twice in the spine, the contents lead to one chapter.
Titled(book, c) == /\ \A d \in DOMAIN book.chapters : d > c => book.chapters[d].href # book.chapters[c].href
                   /\ \/ Labelled(book.toc, book.chapters[c].href) # <<>>
                      \/ \E b \in ToSet(book.chapters[c].blocks) : b.kind = "heading"
                      \/ Leads(book) = <<>>

\* Nothing happened but requests that were carried out; what a book holds depends on no more.
Quiet == ~disturbed /\ saves = 0 /\ crashes = 0 /\ saved.revision = 0 /\ \A t \in Threads : thread[t].pc = "idle"

SameBook(was, now) ==
    /\ now.code = "ok"
    /\ Texts(now) = Texts(was) /\ now.cover = was.cover /\ now.authors = was.authors
    /\ now.identifier = was.identifier /\ now.description = was.description
    /\ was.title # <<>> => now.title = was.title
    /\ was.language \in Languages => now.language = was.language
    /\ now.toc.title = was.toc.title
    /\ SelectSeq(Leads(now), LAMBDA l : l \in ToSet(Leads(was))) = Leads(was)
    /\ \A c \in DOMAIN was.chapters : /\ now.chapters[c].linear = was.chapters[c].linear
                                      /\ Titled(was, c) => now.chapters[c].title = was.chapters[c].title

Kept(book) == Characters(book.chapters) >= MinText => SameBook(book, Reread(book))

\* The working copy is the book: who reads it again finds the chapters, their text, the
\* contents, the cover and the metadata of the file it was made from, for every book with
\* enough text to be read at all (ebook/epub_write.py against ebook/epub_read.py).
WorkingCopyKeepsTheBook == (Quiet /\ files["working"] # NoFile) => Kept(Fresh(files["working"].book))

\* What is written in a document, outside of what is never narrated.
RECURSIVE Written(_)
Written(n) == n.text \o FlattenSeq([k \in DOMAIN n.kids |->
                  (IF n.kids[k].name \in SkipTrees THEN <<>>
                   ELSE IF n.kids[k].name # "img" THEN Written(n.kids[k])
                   ELSE IF n.kids[k].decorative THEN <<>> ELSE n.kids[k].alt) \o n.kids[k].tail])

\* What stands beside the blocks of an element and belongs to none.
RECURSIVE Beside(_)
Beside(n) ==
    IF n.name \in DOMAIN KindOf /\ \A k \in DOMAIN n.kids : n.kids[k].name \notin DOMAIN KindOf
    THEN FlattenSeq([k \in DOMAIN n.kids |-> n.kids[k].alt])
    ELSE n.text \o FlattenSeq([k \in DOMAIN n.kids |->
             (IF n.kids[k].name \in SkipTrees \cup {"img"} THEN <<>> ELSE Beside(n.kids[k])) \o n.kids[k].tail])

\* The element at a path: of the children of that name, the one of that number.
RECURSIVE Leading(_, _)
Leading(n, path) ==
    LET same == SelectSeq(n.kids, LAMBDA k : k.name = path[1][1])
    IN  IF path = <<>> THEN <<n>> ELSE IF path[1][2] > Len(same) THEN <<>> ELSE Leading(same[path[1][2]], Tail(path))

Narrated(book, c) == FlattenSeq([k \in DOMAIN book.chapters[c].blocks |-> Words(book.chapters[c].blocks[k].text)])

HoldsText(archive, book, c) ==
    LET root == Parsed(Held(archive, book.chapters[c].href).content.root)
        bodies == SelectSeq(root.kids, LAMBDA k : k.name = "body")
        body == IF bodies = <<>> THEN root ELSE bodies[1]
        blocks == book.chapters[c].blocks
        spoken == Narrated(book, c)
        written == Words(Written(body))
    IN  /\ SelectSeq(written, LAMBDA w : w \in ToSet(spoken)) = spoken
        /\ ToSet(written) \ ToSet(spoken) \subseteq ToSet(Beside(body)) \cup {"Cover"}
        /\ \A k \in DOMAIN blocks :
              LET found == Leading(body, blocks[k].path)
              IN  found # <<>> /\ blocks[k].text \in {Trimmed(TextOf(found[1])), Trimmed(found[1].alt)}

TextHeld(archive, book) == \A c \in DOMAIN book.chapters : HoldsText(archive, book, c)

\* Every word of a document is narrated once and in its place, but for what is written beside
\* the blocks, and the source of a block leads back to its words (ebook/blocks.py).
BlocksHoldTheText == (Quiet /\ HasChapters(saved)) => TextHeld(Library[saved.first.book].archive, Fresh(saved.first.book))

\* The marks of a document with the words they are on.
RECURSIVE Marks(_)
Marks(n) == (IF n.mark # <<>> THEN <<[span |-> n.mark[1], words |-> TextOf(n)]>> ELSE <<>>)
            \o FlattenSeq([k \in DOMAIN n.kids |-> Marks(n.kids[k])])

Clear(s, spans) ==
    \A r \in ToSet(spans) \ {s} : r.kind \in Marked =>
        \/ r.end <= s.start \/ s.end <= r.start
        \/ /\ <<s.start, s.end>> # <<r.start, r.end>>
           /\ \/ r.start <= s.start /\ s.end <= r.end
              \/ s.start <= r.start /\ r.end <= s.end

ExportIsTheBook(book, spans) ==
    LET b == book.chapters[1].blocks[1]
        rows == [k \in DOMAIN spans |-> [href |-> b.href, path |-> b.path, span |-> spans[k]]]
        archive == Render(book, [variant |-> "reader", spans |-> rows])
        again == ReadEpub(archive)
        marks == Marks(Parsed(Held(archive, Inside(ChapterFile[1])).content.root))
    IN  /\ again.code = "ok" => Texts(again) = Texts(book)
        /\ \A k \in DOMAIN marks : marks[k].words = IF marks[k].span.kind = "pause" THEN <<>>
                                                    ELSE Part(b.text, marks[k].span.start, marks[k].span.end)
        /\ \A s \in ToSet(spans) : (s.kind \in Marked /\ Clear(s, spans)) => \E k \in DOMAIN marks : marks[k].span = s
        /\ ToSet(Held(archive, Inside("prl-spans.json")).content) = ToSet(rows)

Exported(book) ==
    book.chapters # <<>> =>
        \A spans \in Overlays :
            (\A k \in DOMAIN spans : spans[k].end <= Len(book.chapters[1].blocks[1].text)) => ExportIsTheBook(book, spans)

\* The book that is exported for readers has the printed words whatever spans lie on it, has
\* each mark on the words of its span, leaves out no span that crosses no other, and all of
\* them are in the companion (ebook/reader_export.py).
ExportKeepsTheSpans == (Quiet /\ HasChapters(saved)) => Exported(Fresh(saved.first.book))
=============================================================================
