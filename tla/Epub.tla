-------------------------------- MODULE Epub --------------------------------
(***************************************************************************)
(* Reading a book (engine/src/praelector/ebook/epub_read.py and drm.py).   *)
(*                                                                         *)
(* An archive is a sequence of members [path, size, content].  What a      *)
(* member holds is what the reader takes from it: rootfiles, the package,  *)
(* a document, a table of contents, the image itself, the encrypted parts. *)
(***************************************************************************)
EXTENDS Markup

CONSTANTS MaxEntry,  \* size of a member that is read
          MaxTotal,  \* size of all that is read
          MinSpine,  \* a spine longer than this must have text
          MinText    \* so many characters

\* The members whose names differ from the names in references by their case.
Folding == "Ch1.xhtml" :> "ch1.xhtml"
Folded(path) == [i \in DOMAIN path |-> IF path[i] \in DOMAIN Folding THEN Folding[path[i]] ELSE path[i]]

Documents == {"cover.xhtml", "nav.xhtml", "ch1.xhtml", "Ch1.xhtml", "ch2.xhtml", "ch3.xhtml", "ch4.xhtml", "ch5.xhtml"}
             \cup {"ch01.xhtml", "ch02.xhtml", "ch03.xhtml", "ch04.xhtml", "ch05.xhtml"}
IsDocument(path) == Last(path) \in Documents
Content(path) == IsDocument(path) \/ Last(path) \in {"content.opf", "toc.ncx"}

-----------------------------------------------------------------------------
(* Members.                                                                *)

\* _member(): the exact name, or else the first that differs in case only.
Members(archive, href) ==
    LET exact == {k \in DOMAIN archive : archive[k].path = href}
    IN  IF exact # {} THEN exact ELSE {k \in DOMAIN archive : Folded(archive[k].path) = Folded(href)}

Held(archive, href) == archive[Min(Members(archive, href))]

\* read(): within the limits, what has been read so far counting in.
Readable(archive, href, spent) ==
    /\ href # Nowhere /\ Members(archive, href) # {}
    /\ Held(archive, href).size <= MaxEntry /\ spent + Held(archive, href).size <= MaxTotal

Spent(archive, href, spent) == IF Readable(archive, href, spent) THEN spent + Held(archive, href).size ELSE spent

-----------------------------------------------------------------------------
(* Locked books.                                                           *)

Meta(name) == <<"META-INF", name>>
FontObfuscation == {"idpf", "adobe"}

\* refuse_drm(): an entry without a reference is a key; fonts may be obfuscated, text may not.
Locks(encryption) ==
    \/ encryption.broken
    \/ \E e \in ToSet(encryption.entries) : e.path # Nowhere /\ (Content(e.path) \/ e.algorithm \notin FontObfuscation)
Locked(archive) ==
    \/ \E name \in {"sinf.xml", "rights.xml"} : Members(archive, Meta(name)) # {}
    \/ /\ Members(archive, Meta("encryption.xml")) # {}
       /\ Locks(Held(archive, Meta("encryption.xml")).content)

-----------------------------------------------------------------------------
(* The package.                                                            *)

\* _opf_href(): the first package among the rootfiles, or the first of any type.
Preferred(files) == SelectSeq(files, LAMBDA f : f.package) \o files
FirstHref(files) == IF files = <<>> THEN Nowhere ELSE ResolveHref(<<>>, files[1].href)
OpfHref(archive) ==
    FirstHref(Preferred(SelectSeq(Held(archive, Meta("container.xml")).content, LAMBDA f : f.href.parts # <<>>)))

\* _manifest()
Items(opf, dir) == [k \in DOMAIN opf.items |-> [opf.items[k] EXCEPT !.href = ResolveHref(dir, @)]]

ManifestIsSound(opf, dir) ==
    /\ \A k, l \in DOMAIN opf.items : k # l => opf.items[k].id # opf.items[l].id
    /\ \A k \in DOMAIN opf.items : Items(opf, dir)[k].href # Nowhere

FirstOf(found) == SubSeq(found, 1, Min({1, Len(found)}))
ById(items, id) == FirstOf(SelectSeq(items, LAMBDA i : i.id = id))

\* _text()
Said(t) == Joined(Resolved(t))
FirstNonempty(texts) == FlattenSeq(FirstOf(SelectSeq(texts, LAMBDA t : t # <<>>)))
FirstFilled(texts) == FirstNonempty([k \in DOMAIN texts |-> Said(texts[k])])

\* _identifier(): the one the package names, if it says anything, or else the first that does.
NamedFirst(identifiers, unique) == SelectSeq(identifiers, LAMBDA i : unique # "" /\ i.id = unique) \o identifiers
TextsOf(identifiers) == [k \in DOMAIN identifiers |-> identifiers[k].text]
Identifier(opf) == FirstFilled(TextsOf(NamedFirst(opf.identifiers, opf.unique)))

\* _is_xhtml()
IsXhtml(item) == item.media = "xhtml" \/ IsDocument(item.href)
IsImage(item) == item.media = "image"

-----------------------------------------------------------------------------
(* The cover.                                                              *)

\* The first image of a document, as the guide means it.
RECURSIVE Images(_)
Images(n) == (IF n.name = "img" /\ n.src # <<>> THEN n.src ELSE <<>>) \o FlattenSeq([k \in DOMAIN n.kids |-> Images(n.kids[k])])

ImagesIn(doc) == IF Parses(doc) THEN Images(doc.root) ELSE <<>>
GuideImages(archive, href, spent) ==
    IF IsDocument(href) /\ Readable(archive, href, spent) THEN ImagesIn(Held(archive, href).content) ELSE <<>>
FirstImage(href, images) == IF images = <<>> THEN Nowhere ELSE ResolveHref(Directory(href), images[1])

\* Neither the reference of the guide nor the one of its image is refused.
GuideIsSound(href, images) == href # Nowhere /\ (images # <<>> => FirstImage(href, images) # Nowhere)

\* _cover_from_guide(), of the one reference of type cover.
ImageAt(items, href) == SelectSeq(items, LAMBDA i : href # Nowhere /\ i.href = href /\ IsImage(i))
FromGuide(items, href, images) == FirstOf(ImageAt(items, href) \o ImageAt(items, FirstImage(href, images)))

\* _cover_item(): by property, by the meta element, by its name.
CoverItem(opf, items) ==
    FirstOf(SelectSeq(items, LAMBDA i : "cover-image" \in i.properties /\ IsImage(i))
            \o FlattenSeq([k \in 1..3 |-> SelectSeq(ById(items, <<opf.metaCover, "cover-image", "cover">>[k]), IsImage)]))

-----------------------------------------------------------------------------
(* The table of contents.                                                  *)

\* _nav_list(): an entry of a link, with the lists below it; empty ones are left out.
RECURSIVE NavList(_, _), Sound(_, _)
NavList(list, dir) ==
    SelectSeq([k \in DOMAIN list |->
                  [title |-> Trimmed(Resolved(list[k].title)),
                   href |-> IF list[k].href = <<>> THEN Nowhere ELSE ResolveHref(dir, list[k].href[1]),
                   children |-> NavList(list[k].list, dir)]],
              LAMBDA e : e.title # <<>> \/ e.children # <<>>)

\* No reference in it is refused, which would make the whole list unreadable.
Sound(list, dir) == \A k \in DOMAIN list : /\ list[k].href # <<>> => ResolveHref(dir, list[k].href[1]) # Nowhere
                                           /\ Sound(list[k].list, dir)

NoToc == [title |-> <<"contents">>, entries |-> <<>>]

IfEmpty(t, default) == IF t = <<>> THEN default ELSE t

\* _nav_toc(): of the navigation of type toc, or the first.
TocOf(navs, dir) ==
    IF navs = <<>> THEN NoToc
    ELSE [title |-> IfEmpty(Trimmed(Resolved(navs[1].heading)), NoToc.title), entries |-> NavList(navs[1].list, dir)]
NavToc(doc, dir) == TocOf(SelectSeq(doc.navs, LAMBDA n : n.toc) \o doc.navs, dir)

NcxItem(opf, items) == FirstOf((IF opf.toc = "" THEN <<>> ELSE ById(items, opf.toc))
                               \o SelectSeq(items, LAMBDA i : i.media = "ncx" \/ Last(i.href) = "toc.ncx"))

\* A list that can be read.
ListIsSound(doc, dir) == ~doc.broken /\ \A k \in DOMAIN doc.navs : Sound(doc.navs[k].list, dir)
Listed(archive, found, spent) ==
    /\ found # <<>> /\ Readable(archive, found[1].href, spent)
    /\ ListIsSound(Held(archive, found[1].href).content, Directory(found[1].href))
TocAt(archive, href) == NavToc(Held(archive, href).content, Directory(href))
SpentOn(archive, found, spent) == IF found = <<>> THEN spent ELSE Spent(archive, found[1].href, spent)

\* _toc(): the navigation, and the ncx when there is none or it cannot be read.
NcxToc(archive, ncx, spent) ==
    [toc |-> IF Listed(archive, ncx, spent) THEN [TocAt(archive, ncx[1].href) EXCEPT !.title = NoToc.title] ELSE NoToc,
     spent |-> SpentOn(archive, ncx, spent)]
TocFrom(archive, nav, ncx, spent) ==
    IF Listed(archive, nav, spent)
    THEN [toc |-> TocAt(archive, nav[1].href), spent |-> SpentOn(archive, nav, spent)]
    ELSE NcxToc(archive, ncx, SpentOn(archive, nav, spent))
Toc(archive, opf, items, spent) ==
    TocFrom(archive, SelectSeq(FirstOf(SelectSeq(items, LAMBDA i : "nav" \in i.properties)), IsXhtml), NcxItem(opf, items), spent)

\* iter_toc(): the entries and those below them, in order.
RECURSIVE Flat(_)
Flat(entries) == FlattenSeq([k \in DOMAIN entries |-> <<entries[k]>> \o Flat(entries[k].children)])

-----------------------------------------------------------------------------
(* Chapters.                                                               *)

\* The title the contents give to a member: that of the last entry that leads to it.
LastTitle(entries) == IF entries = <<>> THEN <<>> ELSE Last(entries).title
Labelled(toc, href) == LastTitle(SelectSeq(Flat(toc.entries), LAMBDA e : e.href = href /\ e.title # <<>>))

\* _chapter_title(): of the contents, the first heading, or the name of the file.
HeadingOr(headings, default) == IF headings = <<>> THEN default ELSE headings[1].text
ChapterTitle(toc, href, blocks) ==
    IfEmpty(Labelled(toc, href), HeadingOr(SelectSeq(blocks, LAMBDA b : b.kind = "heading"), <<Last(href)>>))

\* _chapters(): the documents of the spine in order; those without blocks are left out.
Failed(a) == [a EXCEPT !.ok = FALSE]
WithBlocks(a, toc, href, linear, blocks) ==
    IF blocks = <<>> THEN a
    ELSE [a EXCEPT !.chapters = Append(@, [title |-> ChapterTitle(toc, href, blocks), href |-> href,
                                           blocks |-> blocks, linear |-> linear])]
WithDocument(archive, a, toc, cover, href, linear) ==
    IF ~Readable(archive, href, a.spent) \/ ~Parses(Held(archive, href).content) THEN Failed(a)
    ELSE WithBlocks([a EXCEPT !.spent = Spent(archive, href, @)], toc, href, linear,
                    BlocksOf(Held(archive, href).content, href, cover))
WithItem(archive, a, toc, cover, found, linear) ==
    CASE ~a.ok \/ found = <<>> -> Failed(a)
      [] a.ok /\ found # <<>> /\ ("nav" \in found[1].properties \/ ~IsXhtml(found[1])) -> a
      [] OTHER -> WithDocument(archive, a, toc, cover, found[1].href, linear)
Chapters(archive, opf, items, cover, toc, spent) ==
    FoldLeft(LAMBDA a, ref : WithItem(archive, a, toc, cover, ById(items, ref.id), ref.linear),
             [ok |-> TRUE, spent |-> spent, chapters |-> <<>>], opf.spine)

\* extractable_characters(), of a book.
Characters(chapters) ==
    FoldLeft(LAMBDA n, c : n + FoldLeft(LAMBDA m, b : m + Len(Words(b.text)), 0, c.blocks), 0, chapters)

Refused(code) == [code |-> code]

Unreadable == Refused("ebook.parse_failed")

\* The end of read_epub(): a book, when its documents could be read and have text.
Book(archive, opf, cover, toc, read) ==
    CASE ~read.ok -> Unreadable
      [] read.ok /\ Len(opf.spine) > MinSpine /\ Characters(read.chapters) < MinText -> Refused("ebook.empty_text")
      [] OTHER -> [code |-> "ok", title |-> FirstFilled(opf.titles), language |-> FirstFilled(opf.languages),
                   authors |-> SelectSeq([k \in DOMAIN opf.authors |-> Said(opf.authors[k])], LAMBDA a : a # <<>>),
                   identifier |-> IfEmpty(Identifier(opf), <<"digest">>),
                   description |-> FirstFilled(opf.descriptions),
                   chapters |-> read.chapters, toc |-> toc, spine |-> Len(opf.spine),
                   cover |-> IF cover = <<>> THEN <<>> ELSE <<Held(archive, cover[1].href).content>>]

\* _parse_opf(): the cover, the contents and then the chapters, each within what is left.
WithToc(archive, opf, items, cover, toc) ==
    Book(archive, opf, cover, toc.toc,
         Chapters(archive, opf, items, IF cover = <<>> THEN Nowhere ELSE cover[1].href, toc.toc, toc.spent))
WithShown(archive, opf, items, cover, spent) ==
    WithToc(archive, opf, items, cover, Toc(archive, opf, items, SpentOn(archive, cover, spent)))
WithCover(archive, opf, items, cover, spent) ==
    WithShown(archive, opf, items, SelectSeq(cover, LAMBDA i : Readable(archive, i.href, spent)), spent)
WithGuide(archive, opf, items, chosen, page, images, spent) ==
    CASE chosen # <<>> \/ opf.guide = <<>> -> WithCover(archive, opf, items, chosen, spent)
      [] chosen = <<>> /\ opf.guide # <<>> /\ ~GuideIsSound(page, images) -> Unreadable
      [] OTHER -> WithCover(archive, opf, items, FromGuide(items, page, images),
                            IF IsDocument(page) THEN Spent(archive, page, spent) ELSE spent)
WithPage(archive, opf, items, chosen, page, spent) ==
    WithGuide(archive, opf, items, chosen, page, GuideImages(archive, page, spent), spent)
WithItems(archive, opf, dir, items, spent) ==
    WithPage(archive, opf, items, CoverItem(opf, items),
             IF opf.guide = <<>> THEN Nowhere ELSE ResolveHref(dir, opf.guide[1]), spent)
WithOpf(archive, opf, dir, spent) ==
    IF ManifestIsSound(opf, dir) THEN WithItems(archive, opf, dir, Items(opf, dir), spent) ELSE Unreadable
WithPackage(archive, href, spent) ==
    IF Readable(archive, href, spent)
    THEN WithOpf(archive, Held(archive, href).content, Directory(href), Spent(archive, href, spent)) ELSE Unreadable

\* read_epub()
ReadEpub(archive) ==
    CASE Locked(archive) -> Refused("ebook.drm_detected")
      [] ~Locked(archive) /\ ~Readable(archive, Meta("container.xml"), 0) -> Unreadable
      [] OTHER -> WithPackage(archive, OpfHref(archive), Spent(archive, Meta("container.xml"), 0))
=============================================================================
