------------------------------- MODULE Reading ------------------------------
(***************************************************************************)
(* A chapter that is reviewed, edited and planned: the pre-pass proposes,  *)
(* apply_reading() commits what was accepted, put_text() an edit, and the  *)
(* plan is made of what is stored (store/chapters.py, from line 381).      *)
(*                                                                         *)
(* The chapter and the revision are the store's; reviews are what clients  *)
(* hold.  Versions of blocks and the transaction are in ChapterStore.      *)
(***************************************************************************)
EXTENDS Plan

CONSTANTS Lessons,     \* the chapters imported: [texts, headings]
          Accepts,     \* sets of kinds a reviewer may accept
          Clients,
          MaxRevision  \* bound: revisions

ASSUME LessonsAssumption == \A lesson \in Lessons : lesson.texts \in Seq(Seq(Symbols))

VARIABLES blocks,    \* the current blocks: [text, spans]
          headings,  \* which of them are headings
          revision,  \* current_revision of the project
          review,    \* per client: what it was given, at a base revision
          stale,     \* blocks edited since their spans were written
          commit     \* the last batch that was committed, for the properties

vars == <<blocks, headings, revision, review, stale, commit>>

None == -1
NoReview == [base |-> None, texts |-> <<>>, found |-> {}]
NoCommit == [texts |-> <<>>, accepted |-> {}]

Texts == [b \in 1..Len(blocks) |-> blocks[b].text]

Init == \E lesson \in Lessons :
          /\ blocks = [b \in 1..Len(lesson.texts) |-> [text |-> lesson.texts[b], spans |-> {}]]
          /\ headings = lesson.headings
          /\ revision = 0
          /\ review = [c \in Clients |-> NoReview]
          /\ stale = {}
          /\ commit = NoCommit

\* A client reads the chapter and runs the pre-pass.
Review(c) == /\ review[c].base # revision
             /\ review' = [review EXCEPT ![c] =
                    [base |-> revision, texts |-> Texts, found |-> Prepass(Texts, headings)]]
             /\ UNCHANGED <<blocks, headings, revision, stale, commit>>

\* Mutant: the base revision is not looked at.
StaleAnyhow(base) == base = None

\* The check of put_text() and apply_reading() that a draft is not behind.
Stale(base) == base # revision

\* The batch a client sends for one block.
Accepted(c, kinds, b) == {g \in review[c].found : g.block = b /\ g.kind \in kinds}

Kept(result) == [text |-> result.text, spans |-> result.spans]

\* A batch that apply_block() fails on for a block.
Fails(c, kinds) == \E b \in 1..Len(blocks) : Refused(Rewritten(blocks[b].text, Accepted(c, kinds, b)))

\* apply_reading(): one new revision for the chapter, and the spans of all its blocks anew;
\* a failure leaves everything as it was.
ApplyReading(c, kinds) ==
    /\ review[c].base # None /\ ~Stale(review[c].base)
    /\ ~Fails(c, kinds)
    /\ revision < MaxRevision
    /\ revision' = revision + 1
    /\ blocks' = [b \in 1..Len(blocks) |-> Kept(Applied(blocks[b].text, Accepted(c, kinds, b)))]
    /\ \E b \in 1..Len(blocks) : blocks'[b].text # blocks[b].text \/ blocks'[b].spans # {}
    /\ stale' = {}
    /\ commit' = [texts |-> Texts, accepted |-> {g \in review[c].found : g.kind \in kinds}]
    /\ UNCHANGED <<headings, review>>

\* put_text() of a draft that changes one block a little: the block keeps its identifier,
\* and its spans are left as they are.
PutText(c, b, text) ==
    /\ review[c].base # None /\ ~Stale(review[c].base)
    /\ revision < MaxRevision
    /\ text # <<>> /\ text # blocks[b].text /\ Stripped(text) = text
    /\ revision' = revision + 1
    /\ blocks' = [blocks EXCEPT ![b].text = text]
    /\ stale' = stale \cup {b}
    /\ UNCHANGED <<headings, review, commit>>

\* What a client may submit for a block: without its first or its last symbol.
Edits(t) == {SubSeq(t, 2, Len(t)), SubSeq(t, 1, Len(t) - 1)}

Next == \E c \in Clients :
          \/ Review(c)
          \/ \E kinds \in Accepts : ApplyReading(c, kinds)
          \/ \E b \in 1..Len(review[c].texts) : \E t \in Edits(review[c].texts[b]) : PutText(c, b, t)

Spec == Init /\ [][Next]_vars

-----------------------------------------------------------------------------
Overlays(b) == {s \in blocks[b].spans : s.kind \notin Structural}
Tiles(b)    == {s \in blocks[b].spans : s.kind \in Structural}

InText(t, s) == 0 <= s.start /\ s.start < s.end /\ s.end <= Len(t)
Disjoint(S) == \A s, r \in S : s # r => ~Overlap(SpanOf(s), SpanOf(r))

\* The committed spans are inside the text, readings apart from each other and tiles apart,
\* whatever rewrites moved them (text/apply.py, _shift_suggestion).
SpansAreTheReview ==
    \A b \in 1..Len(blocks) : b \notin stale =>
        /\ \A s \in blocks[b].spans : InText(blocks[b].text, s)
        /\ Disjoint(Overlays(b)) /\ Disjoint(Tiles(b))

\* Every accepted reading that no accepted rewrite cuts is committed, and lies on the words
\* it quotes, wherever the rewrites moved them (text/apply.py, apply_block).
ReadingsKeepTheirWords ==
    \A b \in 1..Len(blocks) : b \notin stale =>
        LET mine == {g \in commit.accepted : g.block = b}
            rewrites == {g \in mine : g.kind = "conversion_artifact"}
        IN  \A g \in {h \in mine : h.kind \in Pronounced /\ ~OverlapsAny(h, rewrites)} :
               \E s \in Overlays(b) : /\ s.spoken = g.replacement
                                      /\ Slice(blocks[b].text, s.start, s.end) = g.original

\* The words of a sequence with the slot that speaks them.
Voiced(t, slot) == LET w == SelectSeq(t, LAMBDA c : c \in Alnum) IN [k \in 1..Len(w) |-> <<w[k], slot>>]

\* The words of a block as its spans say: a reading for what it covers, the slot of the tile.
VoicedBlock(b) ==
    LET t == blocks[b].text
        tiles == Tiles(b)
        overlays == Overlays(b)
        slot(i) == LET on == {s \in tiles : s.start <= i /\ i < s.end}
                   IN  IF on = {} THEN "narrator" ELSE LET s == CHOOSE s \in on : TRUE IN Slot(s.kind, s.gender)
        on(i) == {s \in overlays : s.start <= i /\ i < s.end}
        said(i) == IF on(i) = {} THEN Voiced(<<At(t, i)>>, slot(i))
                   ELSE LET s == CHOOSE s \in on(i) : TRUE
                        IN  IF s.start = i THEN Voiced(s.spoken, slot(i)) ELSE <<>>
    IN  FlattenSeq([k \in 1..Len(t) |-> said(k - 1)])

\* Readings that lie across the border of a tile are not spoken as they should be.
Torn(b) == \E s \in Overlays(b), r \in Tiles(b) : Overlap(SpanOf(s), SpanOf(r)) /\ ~(r.start <= s.start /\ s.end <= r.end)

Items == PlanItems(SpokenRuns(blocks))

\* Every word is spoken once, in its order and by its voice, through the runs, the sentences
\* and the packing; and an item over the limit has no space left to cut at (jobs/planner.py,
\* jobs/chunker.py).
PlanSpeaksTheText ==
    (stale = {} /\ \A b \in 1..Len(blocks) : ~Torn(b)) =>
        LET items == Items
        IN  /\ FlattenSeq([k \in 1..Len(items) |-> Voiced(items[k].text, items[k].slot)])
                  = FlattenSeq([b \in 1..Len(blocks) |-> VoicedBlock(b)])
            /\ \A k \in 1..Len(items) : /\ items[k].text # <<>>
                                        /\ Len(items[k].text) > Limit => "sp" \notin ToSet(items[k].text)

\* The tiles of a block are in order, hold each word once, and take up dialogue again where
\* the tag of a speaker ends (text/dialogue.py, _confirmed_indexes and _dash_tiling).
Tiled(t, tiles, dashes) ==
    /\ \A k \in 1..(Len(tiles) - 1) : tiles[k].end <= tiles[k + 1].start
    /\ \A i \in 0..(Len(t) - 1) : At(t, i) \in Alnum => \E k \in 1..Len(tiles) : tiles[k].start <= i /\ i < tiles[k].end
    /\ dashes # <<>> /\ dashes[1].kind = "initial" =>
          \A k \in 1..Len(tiles) : tiles[k].kind = Narration =>
              \A d \in 1..Len(dashes) : ~(tiles[k].start <= dashes[d].start /\ dashes[d].start < tiles[k].end)
DialogueIsTiled == \A b \in 1..Len(blocks) : Tiled(blocks[b].text, Segments(blocks[b].text), FindDashes(blocks[b].text))

\* The number a numeral was written as.
Written(g) == Number(SelectSeq(g.original, LAMBDA c : c \in Digits))
Words2(g) == SelectSeq(g.replacement, LAMBDA c : c # "sp")
Before(t, c) == SubSeq(t, 1, SelectInSeq(t, LAMBDA x : x = c) - 1)
After(t, c) == SubSeq(t, SelectInSeq(t, LAMBDA x : x = c) + 1, Len(t))

\* Who hears the reading of a numeral understands the number that was written, to the last
\* digit and the minute (text/numerals_pl.py).
ReadsItsNumber ==
    \A c \in Clients : \A g \in review[c].found :
        LET said == Words2(g)
            roman == ToSet(g.original) \cap Digits = {}
            whole == Number(Before(g.original, "comma"))
            places == After(g.original, "comma")
            hour == Number(Before(g.original, "colon"))
            minute == Number(After(g.original, "colon"))
        IN  CASE g.reason \in {"cardinal", "year", "ordinal"} -> Heard(said) = Written(g)
              [] g.reason = "heading_ordinal" /\ ~roman -> Heard(SelectSeq(said, LAMBDA w : w \notin DOMAIN HeadingWords)) = Written(g)
              [] g.reason = "clock" -> \E k \in 1..Len(said) : /\ Heard(SubSeq(said, 1, k)) = hour
                                                               /\ Heard(SubSeq(said, k + 1, Len(said))) = minute
              [] g.reason = "decimal" /\ Len(places) > 3 ->
                    /\ Heard(Before(said, "przecinek")) = whole
                    /\ After(said, "przecinek") = [k \in 1..Len(places) |-> Units[Digit[places[k]] + 1]]
              [] g.reason = "decimal" /\ Len(places) <= 3 ->
                    /\ Heard(Before(said, "i")) = whole
                    /\ Heard(Front(After(said, "i"))) = Number(places)
                    /\ Last(said) \in ToSet(Fractions[Len(places)])
              [] OTHER -> TRUE

\* A batch or a draft is committed only over the text it was made from, also one that is sent
\* again: the base revision tells apart any two texts of the chapter (store/chapters.py, apply_reading and put_text).
CommittedOnItsText ==
    [][revision' # revision => \E c \in Clients : review[c].texts = Texts]_vars
=============================================================================
