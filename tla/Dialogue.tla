------------------------------ MODULE Dialogue ------------------------------
(***************************************************************************)
(* Dialogue in one block (engine/src/praelector/text/dialogue.py): dashes  *)
(* and quotes, which of them are certain, and the tiling of the block in   *)
(* narration and dialogue.  A dash with words right before it does not     *)
(* count; the code's kind for one at the end of a block ("trailing") is     *)
(* never reached, because a space before the dash makes it "flanked".      *)
(***************************************************************************)
EXTENDS Text

Pronouns  == {"on", "ona"}
WordExtra == {"hyphen"}                   \* goes on a word, as an apostrophe does
Pairs     == [lquote |-> "rquote", rquote |-> "rquote"]
Narration == "narration"
Spoken    == "dialogue"

Seg(kind, s) == [kind |-> kind, start |-> s[1], end |-> s[2]]

\* Pieces as they come in the text, those with nothing in them left out.
Laid(segs) == Ranked(segs, LAMBDA a, b : a.start < b.start)
NonEmpty(segs) == Laid({s \in segs : s.start < s.end})

-----------------------------------------------------------------------------
(* Dashes.                                                                 *)

\* _tokens(): up to three words from offset i, before a dash between words.
BareDashes(t, i, words) ==
    {p \in i..(Len(t) - 1) : At(t, p) \in Dashes /\ \A k \in 1..Len(words) : ~(words[k][1] <= p /\ p < words[k][2])}
UpToBare(t, i, words) == SelectSeq(words, LAMBDA w : \A p \in BareDashes(t, i, words) : w[1] < p)
AtMost(n, words) == SubSeq(words, 1, Min({n, Len(words)}))
WordsFrom(t, i) == AtMost(3, UpToBare(t, i, Words(t, i, Len(t), WordExtra)))

IsVerb(t, w) == w[2] = w[1] + 1 /\ At(t, w[1]) \in Verbs
IsPrefix2(t, w) == (w[2] = w[1] + 1 /\ At(t, w[1]) \in Pronouns) \/ At(t, w[1]) \in Upper

\* _starts_with_speech(): the first verb of saying has only names and pronouns before it.
Says(t, words) == \E k \in 1..Len(words) : /\ IsVerb(t, words[k])
                                           /\ \A j \in 1..(k - 1) : ~IsVerb(t, words[j]) /\ IsPrefix2(t, words[j])
StartsWithSpeech(t, i) == Says(t, WordsFrom(t, i))

ColonBefore(t, i) ==
    LET before == {j \in 0..(i - 1) : At(t, j) \notin Space}
    IN  before # {} /\ At(t, Max(before)) = "colon"

SpaceBefore(t, i) == i > 0 /\ At(t, i - 1) \in Space

\* _dash_kind()
DashKind(t, i) ==
    CASE Blank(Slice(t, 0, i)) -> "initial"
      [] ColonBefore(t, i)     -> "colon"
      [] SpaceBefore(t, i)     -> "flanked"
      [] OTHER                 -> "none"

\* _find_dashes(): a dash counts when a space or the end of the block follows.
FindDashes(t) ==
    LET at == {i \in 0..(Len(t) - 1) : /\ At(t, i) \in Dashes
                                       /\ FirstNot(t, i + 1, Space) = Len(t) \/ At(t, i + 1) \in Space
                                       /\ DashKind(t, i) # "none"}
        dash(i) == [start |-> i, content |-> FirstNot(t, i + 1, Space), kind |-> DashKind(t, i)]
        order == Ranked(at, <)
    IN  [k \in 1..Len(order) |-> dash(order[k])]

Tagged(t, d) == d.kind = "flanked" /\ StartsWithSpeech(t, d.content)

\* Mutant: an ordinary dash within a speech tag does not open dialogue again.
OpensOnce(t, dashes, a, k) == a.state = Narration /\ ~a.tag /\ k < Len(dashes) /\ Tagged(t, dashes[k + 1])

\* An ordinary dash opens dialogue in a narration that is a speech tag or has one behind the dash.
Opens(t, dashes, a, k) == a.state = Narration /\ (a.tag \/ (k < Len(dashes) /\ Tagged(t, dashes[k + 1])))

\* One dash of the loop: what is being read behind it, and the dashes chosen so far.
Passed(t, dashes, a, k) ==
    LET take(state, tag) == [state |-> state, tag |-> tag, chosen |-> Append(a.chosen, dashes[k])]
    IN  CASE dashes[k].kind \in {"initial", "colon"} -> take(Spoken, FALSE)
          [] Tagged(t, dashes[k])                    -> take(Narration, TRUE)
          [] OTHER -> IF Opens(t, dashes, a, k) THEN take(Spoken, FALSE) ELSE a

\* _confirmed_indexes(): the dashes that certainly open or close dialogue.
Confirmed(t, dashes) ==
    LET behind[k \in 0..Len(dashes)] ==
            IF k = 0 THEN [state |-> Narration, tag |-> FALSE, chosen |-> <<>>]
            ELSE Passed(t, dashes, behind[k - 1], k)
    IN  behind[Len(dashes)].chosen

\* _trim(): a piece has no space and no dash at its ends.
Trimmed(t, a, b) == Strip(t, a, b, Space \cup Dashes)

\* _state_after()
StateAfter(t, d) == IF Tagged(t, d) THEN Narration ELSE Spoken

\* _dash_tiling(): the pieces between the dashes that were chosen.
DashTiling(t, chosen) ==
    LET n == Len(chosen)
        from(k) == IF k = 0 THEN 0 ELSE chosen[k].content
        upto(k) == IF k = n THEN Len(t) ELSE chosen[k + 1].start
        kind(k) == IF k = 0 THEN Narration ELSE StateAfter(t, chosen[k])
    IN  NonEmpty({Seg(kind(k), Trimmed(t, from(k), Max({from(k), upto(k)}))) : k \in 0..n})

\* _cut(): pieces at every dash, by turns narration and dialogue.
CutAt(t, dashes) ==
    LET n == Len(dashes)
        from(k) == IF k = 0 THEN 0 ELSE dashes[k].start
        upto(k) == IF k = n THEN Len(t) ELSE dashes[k + 1].start
    IN  NonEmpty({Seg(IF k % 2 = 0 THEN Narration ELSE Spoken, Trimmed(t, from(k), upto(k))) : k \in 0..n})

-----------------------------------------------------------------------------
(* Quotes.                                                                 *)

\* _find_quotes(): pairs of quotes from the left; one that is not closed ends the search.
FindQuotes(t) ==
    LET from[i \in 0..Len(t)] ==
            IF i = Len(t) THEN [pairs |-> <<>>, open |-> FALSE]
            ELSE IF At(t, i) \notin DOMAIN Pairs THEN from[i + 1]
            ELSE LET ends == {j \in (i + 1)..(Len(t) - 1) : At(t, j) = Pairs[At(t, i)]}
                 IN  IF ends = {} THEN [pairs |-> <<>>, open |-> TRUE]
                     ELSE [from[Min(ends) + 1] EXCEPT !.pairs = <<<<i + 1, Min(ends)>>>> \o @]
    IN  from[0]

\* _quote_has_speech(): a verb of saying outside the quote, in its sentence or a neighbour.
Touched(sents, q) == {k \in 1..Len(sents) : sents[k][2] > q[1] /\ sents[k][1] < q[2]}
SpeechNear(t, q, sents) ==
    \E k \in 1..Len(sents) :
        /\ \E i \in IF Touched(sents, q) = {} THEN {1} ELSE Touched(sents, q) : k \in (i - 1)..(i + 1)
        /\ \E w \in ToSet(Words(t, sents[k][1], sents[k][2], WordExtra)) : IsVerb(t, w) /\ ~(q[1] <= w[1] /\ w[1] < q[2])
HasSpeech(t, q) == SpeechNear(t, q, Sentences(t))

Marks == {"stop", "colon", "comma", "rquote"}

\* _quote_tiling(): dialogue inside the quotes, narration around them; pieces that are
\* only punctuation are dropped.
QuoteTiling(t, quotes) ==
    LET n == Len(quotes)
        from(k) == IF k = 0 THEN 0 ELSE quotes[k][2] + 1
        upto(k) == IF k = n THEN Len(t) ELSE quotes[k + 1][1] - 1
        around  == {Seg(Narration, Trimmed(t, from(k), Max({from(k), upto(k)}))) : k \in 0..n}
        inside  == {Seg(Spoken, Trimmed(t, quotes[k][1], quotes[k][2])) : k \in 1..n}
        said(s) == \E i \in s.start..(s.end - 1) : At(t, i) \notin Marks \cup Space
    IN  Laid({s \in around \cup inside : said(s)})

-----------------------------------------------------------------------------
Whole(t) == LET s == Trimmed(t, 0, Len(t)) IN NonEmpty({Seg(Narration, s)})

ToReview(t, reason, tiling) == [tiling |-> Whole(t), reason |-> reason, proposed |-> tiling]
Sure(tiling) == [tiling |-> tiling, reason |-> "dialogue", proposed |-> tiling]

\* _loose_pieces()
Loose(t, dashes, found) == IF found.pairs # <<>> /\ dashes = <<>> THEN QuoteTiling(t, found.pairs) ELSE CutAt(t, dashes)

Judged(t, dashes, chosen, found) ==
    CASE chosen # <<>> -> Sure(DashTiling(t, chosen))
      [] chosen = <<>> /\ (found.open \/ dashes # <<>>) ->
            ToReview(t, CASE found.open -> "unbalanced_quote"
                          [] ~found.open /\ Len(dashes) % 2 = 1 -> "odd_dash"
                          [] OTHER -> "unconfirmed_dash", Loose(t, dashes, found))
      [] OTHER -> CASE found.pairs = <<>> -> Sure(Whole(t))
                    [] \E k \in 1..Len(found.pairs) : HasSpeech(t, found.pairs[k]) -> Sure(QuoteTiling(t, found.pairs))
                    [] OTHER -> ToReview(t, "quote_without_verb", QuoteTiling(t, found.pairs))

\* _analyse(): the tiling, why it is proposed, and whether a reviewer must decide.
Analysis(t) == Judged(t, FindDashes(t), Confirmed(t, FindDashes(t)), FindQuotes(t))

\* segment_block()
Segments(t) == IF Blank(t) THEN <<>> ELSE Analysis(t).tiling

\* dialogue_suggestions(): the tiling to propose, or none.
Split(a) == IF a.reason # "dialogue" \/ \E k \in 1..Len(a.tiling) : a.tiling[k].kind = Spoken
            THEN <<[reason |-> a.reason, segments |-> a.proposed]>> ELSE <<>>
ProposedSplit(t) == IF Blank(t) THEN <<>> ELSE Split(Analysis(t))
=============================================================================
