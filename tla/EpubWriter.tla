----------------------------- MODULE EpubWriter -----------------------------
(***************************************************************************)
(* Writing a book (engine/src/praelector/ebook/epub_write.py), and with it *)
(* the marks of the lector (ebook/reader_export.py).                       *)
(***************************************************************************)
EXTENDS Epub

Languages == {<<"en">>, <<"pl">>}   \* what _LANGUAGE takes for a language

\* _xml_text(), for characters that are allowed in XML.
XmlText(t) == [i \in DOMAIN t |-> IF t[i] = "amp" THEN "&amp;" ELSE IF t[i] = "lt" THEN "&lt;" ELSE t[i]]

Or(t, default) == IfEmpty(Trimmed(t), default)

Part(t, a, b) == SubSeq(t, a + 1, b)

-----------------------------------------------------------------------------
(* Spans of the lector: [start, end, kind, value], with value what the     *)
(* attributes say besides the kind.                                        *)

Marked == {"pronunciation", "dialogue", "skip", "pause"}
KindRank == "dialogue" :> 1 @@ "pause" :> 2 @@ "pronunciation" :> 3 @@ "skip" :> 4

SpanBefore(s, r) == \/ s.start < r.start
                    \/ s.start = r.start /\ s.end > r.end
                    \/ s.start = r.start /\ s.end = r.end /\ KindRank[s.kind] < KindRank[r.kind]

\* Mutant: a span is taken although it begins inside of the one before.
SiblingsOverlapping(spans, a, b, top) ==
    LET fits(s) == /\ s.kind \in Marked /\ a <= s.start /\ s.end <= b
                   /\ top \/ <<s.start, s.end>> # <<a, b>>
                   /\ s.kind = "pause" \/ s.start < s.end
    IN  SortSeq(SelectSeq(spans, fits), SpanBefore)

\* _siblings(): from left to right, the longest first, none that begins inside of another.
Siblings(spans, a, b, top) ==
    LET fits(s) == /\ s.kind \in Marked /\ a <= s.start /\ s.end <= b
                   /\ top \/ <<s.start, s.end>> # <<a, b>>
                   /\ s.kind = "pause" \/ s.start < s.end
        step(c, s) == IF s.start < c.cursor THEN c
                      ELSE [chosen |-> Append(c.chosen, s), cursor |-> IF s.kind = "pause" THEN c.cursor ELSE s.end]
    IN  FoldLeft(step, [chosen |-> <<>>, cursor |-> a], SortSeq(SelectSeq(spans, fits), SpanBefore)).chosen

\* _emit() and _open(): the text up to the first span, and each span with the text behind it.
RECURSIVE Annotated(_, _, _, _, _, _), Emitted(_, _, _, _, _, _)
Opened(text, spans, s) == IF s.kind = "pause" THEN Element("span", <<>>, <<>>)
                          ELSE Annotated("span", text, spans, s.start, s.end, FALSE)
CursorAfter(s) == IF s.kind = "pause" THEN s.start ELSE s.end
Emitted(name, text, spans, a, b, chosen) ==
    Element(name, XmlText(Part(text, a, IF chosen = <<>> THEN b ELSE chosen[1].start)),
            [k \in DOMAIN chosen |->
                [Opened(text, spans, chosen[k]) EXCEPT
                    !.mark = <<chosen[k]>>,
                    !.tail = XmlText(Part(text, CursorAfter(chosen[k]), IF k = Len(chosen) THEN b ELSE chosen[k + 1].start))]])
Annotated(name, text, spans, a, b, top) == Emitted(name, text, spans, a, b, Siblings(spans, a, b, top))

\* What is exported: "none" for the working copy, "clean", or "reader" with its spans.
Working == [variant |-> "none", spans |-> <<>>]
RowsOf(lector, b) == SelectSeq(lector.spans, LAMBDA r : r.href = b.href /\ r.path = b.path)
SpanIn(rows) == [k \in DOMAIN rows |-> rows[k].span]

\* _inner()
Inner(name, b, lector) ==
    Annotated(name, b.text, IF lector.variant = "reader" THEN SpanIn(RowsOf(lector, b)) ELSE <<>>, 0, Len(b.text), TRUE)

\* sidecar_bytes(): every span of the book, in its order.
Sidecar(book, lector) ==
    FlattenSeq([c \in DOMAIN book.chapters |->
        FlattenSeq([k \in DOMAIN book.chapters[c].blocks |-> RowsOf(lector, book.chapters[c].blocks[k])])])

-----------------------------------------------------------------------------
(* Chapters.                                                               *)

Heading == <<"h1", "h2", "h3">>

\* _render_block()
Tag(b) == CASE b.kind = "heading" -> Heading[IF b.level = 0 THEN 1 ELSE b.level]
            [] b.kind = "blockquote" -> "blockquote"
            [] b.kind = "caption" -> "figcaption"
            [] b.kind = "list_item" -> "li"
            [] OTHER -> "p"

\* _body_lines(): blocks as elements, and items that follow each other in one list.
WithLine(body, line) ==
    CASE line.name # "li" -> Append(body, line)
      [] line.name = "li" /\ body # <<>> /\ Last(body).name = "ul" -> Append(Front(body), [Last(body) EXCEPT !.kids = Append(@, line)])
      [] OTHER -> Append(body, Element("ul", <<>>, <<line>>))
Body(blocks, lector) ==
    FoldLeft(WithLine, <<>>, [k \in DOMAIN blocks |-> Inner(Tag(blocks[k]), blocks[k], lector)])

Document(kids) == [broken |-> FALSE, declares |-> FALSE,
                   root |-> Element("html", <<>>, <<Element("head", <<>>, <<>>), Element("body", <<"nl">>, kids)>>)]

-----------------------------------------------------------------------------
(* Contents.                                                               *)

ChapterFile == <<"ch01.xhtml", "ch02.xhtml", "ch03.xhtml", "ch04.xhtml", "ch05.xhtml">>

\* The file that holds what was read from href; the last one if it was in the spine twice.
FileOfLast(here) == IF here = {} THEN Nowhere ELSE <<ChapterFile[Max(here)]>>
FileOf(book, href) == FileOfLast({k \in DOMAIN book.chapters : book.chapters[k].href = href})

\* An entry, with those below it that have a place, and its own place or that of the first of them.
Moved(title, own, children) ==
    [title |-> title, href |-> IF own = Nowhere /\ children # <<>> THEN children[1].href ELSE own, children |-> children]
Placed(entries) == SelectSeq(entries, LAMBDA e : e.href # Nowhere)

\* Mutant: an entry of its own place goes, with all that is below it.
RetargetDropping(book, entries) ==
    Placed([k \in DOMAIN entries |-> Moved(entries[k].title, FileOf(book, entries[k].href), <<>>)])

\* _retarget(): an entry whose document is gone goes too, unless it has some below it.
RECURSIVE Retarget(_, _)
Retarget(book, entries) ==
    Placed([k \in DOMAIN entries |-> Moved(entries[k].title, FileOf(book, entries[k].href), Retarget(book, entries[k].children))])

Here(path) == [rooted |-> FALSE, parts |-> path]

\* _nav_items()
RECURSIVE NavItems(_)
NavItems(entries) ==
    [k \in DOMAIN entries |-> [title |-> XmlText(Or(entries[k].title, entries[k].href)),
                               href |-> <<Here(entries[k].href)>>, list |-> NavItems(entries[k].children)]]

\* _nav(): the contents that are left, or one entry for each chapter.
OwnEntries(chapters) ==
    [k \in DOMAIN chapters |-> [title |-> Or(chapters[k].title, <<ChapterFile[k]>>), href |-> <<ChapterFile[k]>>, children |-> <<>>]]
Nav(book) ==
    [broken |-> FALSE,
     navs |-> <<[toc |-> TRUE, heading |-> XmlText(Or(book.toc.title, NoToc.title)),
                 list |-> NavItems(IfEmpty(Retarget(book, book.toc.entries), OwnEntries(book.chapters)))]>>]

-----------------------------------------------------------------------------
(* The package.                                                            *)

Item(id, path, media, properties) == [id |-> id, href |-> Here(path), media |-> media, properties |-> properties]
Member(path, content) == [path |-> path, size |-> 1, content |-> content]
Inside(name) == <<"OEBPS", name>>

CoverPath == <<"images", "cover">>
CoverPage == Document(<<Element("div", <<>>, <<[Element("img", <<>>, <<>>) EXCEPT !.src = <<Here(CoverPath)>>]>>)>>)

\* _opf()
Opf(book, reader) ==
    LET chapters == [k \in DOMAIN book.chapters |-> Item(ChapterFile[k], <<ChapterFile[k]>>, "xhtml", {})]
        image == IF book.cover = <<>> THEN <<>>
                 ELSE <<Item("cover-image", CoverPath, "image", {"cover-image"}), Item("cover", <<"cover.xhtml">>, "xhtml", {})>>
        front == IF book.cover = <<>> THEN <<>> ELSE <<[id |-> "cover", linear |-> TRUE]>>
        sidecar == IF reader THEN <<Item("prl-spans", <<"prl-spans.json">>, "json", {"prl-sidecar"})>> ELSE <<>>
        escaped(texts) == [k \in DOMAIN texts |-> XmlText(texts[k])]
    IN  [titles |-> <<XmlText(Or(book.title, <<"untitled">>))>>, authors |-> escaped(book.authors),
         languages |-> <<IF book.language \in Languages THEN book.language ELSE <<"und">> >>,
         identifiers |-> <<[id |-> "pub-id", text |-> XmlText(book.identifier)]>>, unique |-> "pub-id",
         descriptions |-> IF book.description = <<>> THEN <<>> ELSE <<XmlText(book.description)>>,
         metaCover |-> "", guide |-> <<>>, toc |-> "",
         items |-> <<Item("nav", <<"nav.xhtml">>, "xhtml", {"nav"})>> \o image \o chapters \o sidecar,
         spine |-> front \o [k \in DOMAIN chapters |-> [id |-> ChapterFile[k], linear |-> book.chapters[k].linear]]]

\* render_epub() and _entries()
CoverMembers(image) == <<Member(Inside("cover.xhtml"), CoverPage), Member(<<"OEBPS">> \o CoverPath, image)>>
Render(book, lector) ==
    <<Member(Meta("container.xml"), <<[package |-> TRUE, href |-> Here(Inside("content.opf"))]>>),
      Member(Inside("content.opf"), Opf(book, lector.variant = "reader")),
      Member(Inside("nav.xhtml"), Nav(book))>>
        \o (IF lector.variant = "reader" THEN <<Member(Inside("prl-spans.json"), Sidecar(book, lector))>> ELSE <<>>)
        \o (IF book.cover = <<>> THEN <<>> ELSE CoverMembers(book.cover[1]))
        \o [k \in DOMAIN book.chapters |-> Member(Inside(ChapterFile[k]), Document(Body(book.chapters[k].blocks, lector)))]
=============================================================================
