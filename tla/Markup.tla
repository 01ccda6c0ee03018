------------------------------- MODULE Markup -------------------------------
(***************************************************************************)
(* XML of a book and the blocks of one document (engine/src/praelector/    *)
(* ebook/markup.py and blocks.py).                                         *)
(*                                                                         *)
(* A text is a sequence of words and characters; "&nbsp;" and the like are *)
(* references as they stand in the file.  An element is a record, with its *)
(* children and the text behind it; a path in the archive is a sequence of *)
(* names, and a reference to one may also hold "..".                       *)
(***************************************************************************)
EXTENDS Integers, Sequences, FiniteSets, SequencesExt, FiniteSetsExt, TLC

White == {"sp", "nl", "nbsp"}

\* text.strip()
Within(t, kept) == IF kept = {} THEN <<>> ELSE SubSeq(t, Min(kept), Max(kept))
Trimmed(t) == Within(t, {i \in DOMAIN t : t[i] \notin White})

Words(t) == SelectSeq(t, LAMBDA c : c \notin White)

\* " ".join(text.split())
Spaced(w) == [k \in 1..(2 * Len(w) - 1) |-> IF k % 2 = 1 THEN w[(k + 1) \div 2] ELSE "sp"]
Joined(t) == Spaced(Words(t))

Element(name, text, kids) ==
    [name |-> name, text |-> text, kids |-> kids, tail |-> <<>>, src |-> <<>>, alt |-> <<>>,
     decorative |-> FALSE, mark |-> <<>>]

-----------------------------------------------------------------------------
(* Parsing.                                                                *)

Builtin == "&amp;" :> "amp" @@ "&lt;" :> "lt"
Named   == "&nbsp;" :> "nbsp"
Unknown == {"&bogus;"}

\* _expand_entities(): HTML names become characters, those of XML stay for the parser.
Expanded(t) == [i \in DOMAIN t |-> IF t[i] \in DOMAIN Named THEN Named[t[i]] ELSE t[i]]

\* What the parser makes of the references that are left.
Decoded(t) == [i \in DOMAIN t |-> IF t[i] \in DOMAIN Builtin THEN Builtin[t[i]] ELSE t[i]]
Resolved(t) == Decoded(Expanded(t))

RECURSIVE Parsed(_), Wellformed(_)
Parsed(n) == [n EXCEPT !.text = Resolved(@), !.tail = Resolved(@), !.alt = Resolved(@),
                       !.kids = [k \in DOMAIN @ |-> Parsed(@[k])]]
Wellformed(n) == /\ (ToSet(n.text) \cup ToSet(n.tail) \cup ToSet(n.alt)) \cap Unknown = {}
                 /\ \A k \in DOMAIN n.kids : Wellformed(n.kids[k])

\* parse_xml() refuses a document that declares entities or is not well formed.
Parses(doc) == ~doc.declares /\ Wellformed(doc.root)

-----------------------------------------------------------------------------
(* References.                                                             *)

Nowhere == <<>>

\* directory_of()
Directory(path) == Front(path)

\* resolve_href(): Nowhere for one that is empty or leaves the archive.
Into(a, part) == CASE ~a.inside \/ part = "." -> a
                   [] a.inside /\ part \notin {".", ".."} -> [a EXCEPT !.path = Append(@, part)]
                   [] OTHER -> IF a.path = <<>> THEN [a EXCEPT !.inside = FALSE] ELSE [a EXCEPT !.path = Front(@)]
Arrived(a) == IF a.inside THEN a.path ELSE Nowhere
ResolveHref(dir, href) ==
    IF href.parts = <<>> THEN Nowhere
    ELSE Arrived(FoldLeft(Into, [inside |-> TRUE, path |-> <<>>], IF href.rooted THEN href.parts ELSE dir \o href.parts))

-----------------------------------------------------------------------------
(* Blocks.                                                                 *)

SkipTrees == {"script", "style", "svg", "math", "template", "nav", "video", "audio", "image"}
HeadingLevel == "h1" :> 1 @@ "h2" :> 2 @@ "h3" :> 3
KindOf == [n \in {"p", "pre", "dt", "dd", "td", "th"} |-> "paragraph"]
          @@ "li" :> "list_item" @@ "blockquote" :> "blockquote"
          @@ [n \in {"figcaption", "caption"} |-> "caption"]
          @@ [n \in DOMAIN HeadingLevel |-> "heading"]

HasBlockChild(n) == \E k \in DOMAIN n.kids : n.kids[k].name \in DOMAIN KindOf

\* _append_text()
RECURSIVE TextOf(_)
TextOf(n) ==
    n.text \o FlattenSeq([k \in DOMAIN n.kids |->
        (CASE n.kids[k].name = "br" -> <<"nl">>
           [] n.kids[k].name \in SkipTrees \cup {"img"} -> <<>>
           [] OTHER -> TextOf(n.kids[k])) \o n.kids[k].tail])

Block(kind, text, href, path, level) ==
    [kind |-> kind, text |-> text, href |-> href, path |-> path, level |-> level]

\* _image_caption(): the alternative text of an image that is neither the cover nor decorative.
BlockUnlessEmpty(block) == IF block.text = <<>> THEN <<>> ELSE <<block>>
ImageCaption(n, path, href, cover) ==
    IF n.decorative \/ (cover # Nowhere /\ n.src # <<>> /\ ResolveHref(Directory(href), n.src[1]) = cover) THEN <<>>
    ELSE BlockUnlessEmpty(Block("caption", Trimmed(n.alt), href, path, 0))

\* Mutant: the number of the step counts children of any name.
StepToAny(n, k) == <<n.kids[k].name, k>>

\* The step of a path to the k-th child: its name, and which one of that name it is.
StepTo(n, k) == <<n.kids[k].name, Cardinality({j \in 1..k : n.kids[j].name = n.kids[k].name})>>

\* The innermost element of a block's kind is the block.
IsBlock(n) == n.name \in DOMAIN KindOf /\ ~HasBlockChild(n)

Forced(kind, force) == IF force = "blockquote" /\ kind = "paragraph" THEN force ELSE kind
LevelOf(n) == IF n.name \in DOMAIN HeadingLevel THEN HeadingLevel[n.name] ELSE 0

\* _walk() and _walk_children()
RECURSIVE Walk(_, _, _, _, _)
WalkChildren(n, path, force, href, cover) ==
    FlattenSeq([k \in DOMAIN n.kids |-> Walk(n.kids[k], Append(path, StepTo(n, k)), force, href, cover)])
Walk(n, path, force, href, cover) ==
    CASE n.name \in SkipTrees -> <<>>
      [] n.name = "img" -> ImageCaption(n, path, href, cover)
      [] IsBlock(n) -> BlockUnlessEmpty(Block(Forced(KindOf[n.name], force), Trimmed(TextOf(n)), href, path, LevelOf(n)))
      [] OTHER -> WalkChildren(n, path, IF n.name = "blockquote" THEN "blockquote" ELSE force, href, cover)

\* blocks_from_xhtml(): the blocks below body, or below the root when there is none.
BodyOr(root, bodies) == IF bodies = <<>> THEN root ELSE bodies[1]
BodyOf(root) == BodyOr(root, SelectSeq(root.kids, LAMBDA k : k.name = "body"))
BlocksOf(doc, href, cover) == WalkChildren(BodyOf(Parsed(doc.root)), <<>>, "", href, cover)
=============================================================================
