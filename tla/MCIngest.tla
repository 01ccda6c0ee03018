------------------------------ MODULE MCIngest ------------------------------
(* Books of every shape the reader tells apart, and two plain ones for requests that race. *)
EXTENDS Ingest

CONSTANTS t1, t2
MCThreads == {t1, t2}
Symmetry == Permutations(MCThreads)
MCSuffix == "upload" :> ".epub" @@ "rival" :> ".epub"

E(name, words) == Element(name, words, <<>>)
In(name, kids) == Element(name, <<>>, kids)
With(e, words) == [e EXCEPT !.tail = words]
Img(parts, words) == [E("img", <<>>) EXCEPT !.src = <<Here(parts)>>, !.alt = words]
Page(kids) == [broken |-> FALSE, declares |-> FALSE, root |-> In("html", <<In("head", <<>>), In("body", kids)>>)]

One == Page(<<E("h1", <<"One">>), Element("p", <<"a", "&nbsp;", "b">>, <<With(E("br", <<>>), <<"c">>), With(E("em", <<"d">>), <<"sp", "&amp;">>)>>)>>)
Two == Page(<<E("p", <<"e", "f">>), E("p", <<"sp">>), E("h2", <<"Two">>), E("p", <<"g">>)>>)
Empty == Page(<<E("p", <<"sp">>), E("script", <<"x">>)>>)
Quote == Page(<<In("blockquote", <<E("p", <<"q", "r">>), E("p", <<"s">>)>>), Element("blockquote", <<"t">>, <<>>), E("p", <<"u">>)>>)
List == Page(<<In("ul", <<E("li", <<"i">>), Element("li", <<"j">>, <<In("ul", <<E("li", <<"k">>)>>)>>), E("li", <<"l">>)>>),
               E("p", <<"m">>), In("ol", <<E("li", <<"n">>)>>)>>)
Loose == Page(<<Element("div", <<"o">>, <<With(E("p", <<"p1">>), <<"w">>), In("div", <<E("p", <<"p2">>)>>), E("p", <<"p3">>)>>)>>)
Table == Page(<<In("table", <<E("caption", <<"v">>), In("tr", <<E("th", <<"x1">>), In("td", <<In("div", <<E("p", <<"x2">>)>>)>>)>>)>>),
                In("dl", <<E("dt", <<"x3">>), E("dd", <<"x4">>)>>)>>)
Pictures == Page(<<Img(<<"images", "front">>, <<"Cover">>), Img(<<"..", "images", "map">>, <<"sp", "Map">>),
                   [Img(<<"x">>, <<"Line">>) EXCEPT !.decorative = TRUE], Element("p", <<"y">>, <<With(Img(<<"x">>, <<"Dot">>), <<"z">>)>>)>>)
CoverDocument == Page(<<In("div", <<Img(<<"images", "front">>, <<"Cover">>)>>)>>)
Bare == [Page(<<>>) EXCEPT !.root = In("html", <<E("p", <<"h", "h2w", "h3w">>)>>)]
Bogus == Page(<<E("p", <<"&bogus;">>)>>)

Li(words, file, list) == [title |-> words, href |-> IF file = "" THEN <<>> ELSE <<Here(<<file>>)>>, list |-> list]
NavOf(list) == [broken |-> FALSE, navs |-> <<[toc |-> FALSE, heading |-> <<>>, list |-> <<>>],
                                             [toc |-> TRUE, heading |-> <<"Inhalt">>, list |-> list]>>]

Opf0 == [titles |-> <<<<>>, <<"Book", "nl", "&amp;">>>>, authors |-> <<<<"Ada">>, <<"sp">>>>, languages |-> <<<<"pl">>>>,
         identifiers |-> <<[id |-> "x", text |-> <<>>], [id |-> "y", text |-> <<"urn">>]>>, unique |-> "x",
         descriptions |-> <<>>, metaCover |-> "", guide |-> <<>>, toc |-> "", items |-> <<>>, spine |-> <<>>]
Doc(file) == Item(file, <<file>>, "xhtml", {})
Ref(id) == [id |-> id, linear |-> TRUE]

\* A book with these pages, and further items and members.
Make(pages, items, members) ==
    LET file == <<"ch1.xhtml", "ch2.xhtml", "ch3.xhtml", "ch4.xhtml", "ch5.xhtml">>
    IN  <<Member(Meta("container.xml"), <<[package |-> FALSE, href |-> Here(<<"other">>)],
                                          [package |-> TRUE, href |-> Here(Inside("content.opf"))]>>),
          Member(Inside("content.opf"), [Opf0 EXCEPT !.items = [k \in DOMAIN pages |-> Doc(file[k])] \o items,
                                                     !.spine = [k \in DOMAIN pages |-> Ref(file[k])]])>>
        \o [k \in DOMAIN pages |-> Member(Inside(file[k]), pages[k])] \o members
Package(archive, opf) == [archive EXCEPT ![2].content = opf]
OpfOf(archive) == archive[2].content

NavItem == Item("nav", <<"nav.xhtml">>, "xhtml", {"nav"})
NcxEntry == Item("ncx", <<"toc.ncx">>, "ncx", {})
WithNav(pages, list) == Make(pages, <<NavItem>>, <<Member(Inside("nav.xhtml"), NavOf(list))>>)
FrontItem == Item("front", <<"images", "front">>, "image", {})
FrontMember == Member(<<"OEBPS", "images", "front">>, "png")
Covered == Make(<<One, Pictures>>, <<FrontItem>>, <<FrontMember>>)
Secret(entries) == Make(<<One, Two>>, <<>>, <<Member(Meta("encryption.xml"), [broken |-> FALSE, entries |-> entries])>>)
Encrypted(algorithm, path) == [algorithm |-> algorithm, path |-> path]

Plain == WithNav(<<One, Two>>, <<Li(<<"First">>, "ch1.xhtml", <<>>), Li(<<"Second">>, "ch2.xhtml", <<>>)>>)
Epub(archive) == [magic |-> "zip", mimetype |-> TRUE, archive |-> archive, pdf |-> <<>>]
Other(magic, pdf) == [magic |-> magic, mimetype |-> FALSE, archive |-> <<>>, pdf |-> pdf]
Pdf(pages) == [broken |-> FALSE, password |-> FALSE, pages |-> pages]

MCLibrary == [
    plain |-> Epub(Plain),
    other |-> Epub(Make(<<Quote, List>>, <<>>, <<>>)),
    loose |-> Epub(Make(<<Loose, Table, Bare>>, <<>>, <<>>)),
    parts |-> Epub(WithNav(<<One, Empty, Two>>, <<Li(<<"Part">>, "ch2.xhtml", <<Li(<<"First">>, "ch1.xhtml", <<>>)>>), Li(<<"Gone">>, "ch2.xhtml", <<>>),
                                                   Li(<<>>, "", <<Li(<<"Second">>, "ch3.xhtml", <<Li(<<"Inner">>, "ch3.xhtml", <<>>)>>)>>)>>)),
    badnav |-> Epub(Make(<<One, Quote>>, <<NavItem, NcxEntry>>,
                 <<Member(Inside("nav.xhtml"), NavOf(<<[Li(<<"Up">>, "ch1.xhtml", <<>>) EXCEPT !.href = <<Here(<<"..", "..", "x">>)>>]>>)),
                   Member(Inside("toc.ncx"), NavOf(<<Li(<<"Ncx">>, "ch2.xhtml", <<>>)>>))>>)),
    front |-> Epub(Package(Covered, [OpfOf(Covered) EXCEPT !.items[3].properties = {"cover-image"}])),
    meta |-> Epub(Package(Covered, [OpfOf(Covered) EXCEPT !.metaCover = "front"])),
    guide |-> Epub(Package(Make(<<CoverDocument, One, Two>>, <<FrontItem>>, <<FrontMember>>),
                           [OpfOf(Make(<<CoverDocument, One, Two>>, <<FrontItem>>, <<FrontMember>>)) EXCEPT !.guide = <<Here(<<"ch1.xhtml">>)>>])),
    nocover |-> Epub(Package(Covered, [OpfOf(Covered) EXCEPT !.metaCover = "ch1.xhtml"])),
    short |-> Epub(Package(Make(<<Two, Empty, Bare>>, <<FrontItem>>, <<FrontMember>>),
                           [OpfOf(Make(<<Page(<<E("p", <<"e">>)>>), Empty, Empty>>, <<FrontItem>>, <<FrontMember>>)) EXCEPT !.metaCover = "front"])),
    empty |-> Epub(Make(<<Empty, Two, Empty, Empty>>, <<>>, <<>>)),
    thin |-> Epub(Make(<<Empty, Page(<<E("p", <<"e">>)>>), Empty, Empty>>, <<>>, <<>>)),
    twice |-> Epub(Package(Plain, [OpfOf(Plain) EXCEPT !.spine = <<Ref("ch2.xhtml"), [Ref("ch1.xhtml") EXCEPT !.linear = FALSE], Ref("nav"), Ref("ch2.xhtml")>>])),
    folded |-> Epub([Plain EXCEPT ![3].path = Inside("Ch1.xhtml")]),
    missing |-> Epub([Plain EXCEPT ![3].path = Inside("gone")]),
    unknown |-> Epub(Package(Plain, [OpfOf(Plain) EXCEPT !.spine = <<Ref("nothing")>>])),
    double |-> Epub(Package(Plain, [OpfOf(Plain) EXCEPT !.items[2].id = "ch1.xhtml"])),
    large |-> Epub([Plain EXCEPT ![3].size = MaxEntry + 1]),
    heavy |-> Epub([Plain EXCEPT ![3].size = MaxEntry, ![4].size = MaxEntry]),
    bogus |-> Epub(Make(<<One, Bogus>>, <<>>, <<>>)),
    nameless |-> Epub(Package(Plain, [OpfOf(Plain) EXCEPT !.titles = <<>>, !.identifiers = <<>>, !.languages = <<<<"??">>>>, !.descriptions = <<<<"About">>>>])),
    fonts |-> Epub(Secret(<<Encrypted("idpf", <<"OEBPS", "font">>), Encrypted("aes", <<>>)>>)),
    locked |-> Epub(Secret(<<Encrypted("idpf", Inside("ch2.xhtml"))>>)),
    rights |-> Epub(Make(<<One, Two>>, <<>>, <<Member(Meta("rights.xml"), "")>>)),
    print |-> Other("pdf", Pdf(<<"bad", "text">>)),
    scan |-> Other("pdf", Pdf(<<"bad", "none", "text">>)),
    sealed |-> Other("pdf", [Pdf(<<"text">>) EXCEPT !.password = TRUE]),
    kindle |-> Other("palm", <<>>)]

\* One book on the desk, or two that are read at the same time.
MCShelf == {"upload" :> b : b \in DOMAIN MCLibrary \ {"plain", "other"}}
           \cup {"upload" :> "plain" @@ "rival" :> "other"}
MCLater == {"other", "thin"}

\* Requests are interleaved, files saved over and the engine killed with the plain books only.
Raced == MCLater \cup {"plain", ""}
RacesAreOfPlainBooks == \/ ~disturbed /\ saves = 0 /\ crashes = 0
                        \/ \A p \in Paths : files[p].book \in Raced

Spans0 == {[start |-> s, end |-> e, kind |-> k] : s \in 0..2, e \in 0..2, k \in Marked \cup {"narration"}}
Spans == {s \in Spans0 : IF s.kind = "pause" THEN s.start = s.end ELSE s.start < s.end}
MCOverlays == {<<a, b>> : a, b \in Spans} \cup {<<a, b, [a EXCEPT !.kind = "skip"]>> : a, b \in {s \in Spans : s.kind \in {"dialogue", "pronunciation"}}}
=============================================================================
