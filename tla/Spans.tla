------------------------------- MODULE Spans --------------------------------
(***************************************************************************)
(* Accepted suggestions become text and spans (engine/src/praelector/text/ *)
(* apply.py), and spans what is spoken (text/spoken.py).                   *)
(***************************************************************************)
EXTENDS Detectors

Pronounced == {"foreign_word", "acronym", "toponym", "numeral", "ordinal_heading", "dict_hit"}

Span(kind, s, spoken) ==
    [kind |-> kind, start |-> s[1], end |-> s[2], spoken |-> spoken, gender |-> "", speaker |-> NoOne]

Replaced(t, s, e, r) == Slice(t, 0, s) \o r \o Slice(t, e, Len(t))

\* _slide(), of bounds and of a suggestion with its pieces.
Along(m, delta) == [m EXCEPT !.start = @ + delta, !.end = @ + delta]
Slid(g, delta) == [Along(g, delta) EXCEPT !.segments = [k \in 1..Len(@) |-> Along(@[k], delta)]]

\* _rewrite_inside(): a rewrite within the span; none survives in a piece of a split.
RewrittenInside(g, w) ==
    LET delta == Len(w.replacement) - (w.end - w.start)
        move(m) == IF m.end <= w.start THEN m ELSE Along(m, delta)
        hit(m) == m.end > w.start /\ m.start < w.end
    IN  IF \E k \in 1..Len(g.segments) : hit(g.segments[k]) THEN {}
        ELSE {[g EXCEPT !.end = @ + delta,
                        !.original = Replaced(@, w.start - g.start, w.end - g.start, w.replacement),
                        !.segments = [k \in 1..Len(@) |-> move(@[k])]]}

\* Mutant: what comes after a rewrite keeps its place.
ShiftedNot(g, w) ==
    IF g.end <= w.start \/ g.start >= w.end THEN {g}
    ELSE IF g.start <= w.start /\ g.end >= w.end THEN RewrittenInside(g, w) ELSE {}

\* _shift_suggestion(): where a suggestion is after a rewrite; {} when they collide.
Shifted(g, w) ==
    LET delta == Len(w.replacement) - (w.end - w.start)
    IN  IF g.end <= w.start THEN {g}
        ELSE IF g.start >= w.end THEN {Slid(g, delta)}
        ELSE IF g.start <= w.start /\ g.end >= w.end THEN RewrittenInside(g, w) ELSE {}

\* The rewrites of a batch, from the right to the left.
Fits(text, g) == Slice(text, g.start, g.end) = g.original
Rewrite(a, w) ==
    IF ~Fits(a.text, w) THEN [a EXCEPT !.conflicts = @ \cup {w}]
    ELSE [text |-> Replaced(a.text, w.start, w.end, w.replacement),
          others |-> UNION {Shifted(g, w) : g \in a.others},
          conflicts |-> a.conflicts \cup {g \in a.others : Shifted(g, w) = {}}]
Rewritten(t, batch) ==
    LET order == Ranked({g \in batch : g.kind = "conversion_artifact"}, LAMBDA a, b : a.start > b.start)
        after[k \in 0..Len(order)] ==
            IF k = 0 THEN [text |-> t, others |-> {g \in batch : g.kind # "conversion_artifact"}, conflicts |-> {}]
            ELSE Rewrite(after[k - 1], order[k])
    IN  after[Len(order)]

\* Suggestion.__post_init__(): there is no suggestion without a symbol, so apply_block() fails
\* when a rewrite takes all symbols of one.  What the next rewrites do, left of it, would not
\* give it any.
Refused(done) == \E h \in done.others : h.end <= h.start

\* _dialogue_spans(), and _paint_gender(): a piece of dialogue takes the speaker with its bounds.
Tile(m) == Span(m.kind, <<m.start, m.end>>, <<>>)
SpokenBy(m, s) == [Tile(m) EXCEPT !.gender = s.replacement[1], !.speaker = s.speaker]
Painted(m, here) == IF m.kind # Spoken \/ here = {} THEN Tile(m) ELSE SpokenBy(m, CHOOSE s \in here : TRUE)
DialogueSpans(g, speakers, length) ==
    {Painted(m, {s \in speakers : s.start = m.start /\ s.end = m.end}) : m \in {n \in ToSet(g.segments) : n.end <= length}}

\* apply_block(): the text after the rewrites, its spans, and what no longer fits.
SpansOf(g, speakers, length) ==
    CASE g.kind \in Pronounced -> {Span("pronunciation", <<g.start, g.end>>, g.replacement)}
      [] g.kind = "skip" -> {Span("skip", <<g.start, g.end>>, <<>>)}
      [] g.kind = "dialogue_split" -> DialogueSpans(g, speakers, length)
      [] OTHER -> {}
Spanned(done, fit) ==
    [text |-> done.text,
     spans |-> UNION {SpansOf(g, {s \in fit : s.kind = "speaker_gender"}, Len(done.text)) : g \in fit},
     conflicts |-> done.conflicts \cup (done.others \ fit) \cup {g \in fit : g.kind = "dialogue_split" /\ g.segments = <<>>}]
Fitted(done) == Spanned(done, {g \in done.others : Fits(done.text, g)})
Applied(t, batch) == Fitted(Rewritten(t, batch))

\* Mutant: the first edit is made first.
SpokenFormForward(t, spans) ==
    LET edits == Ranked({s \in spans : s.kind \in {"pronunciation", "skip"}}, LAMBDA a, b : a.start < b.start)
    IN  FoldLeft(LAMBDA text, s : IF s.end <= Len(text) THEN Replaced(text, s.start, s.end, s.spoken) ELSE text, t, edits)

\* spoken_form(): from the right; a span past the end is left out.
SpokenForm(t, spans) ==
    LET edits == Ranked({s \in spans : s.kind \in {"pronunciation", "skip"}}, LAMBDA a, b : a.start > b.start)
    IN  FoldLeft(LAMBDA text, s : IF s.end <= Len(text) THEN Replaced(text, s.start, s.end, s.spoken) ELSE text, t, edits)
=============================================================================
