-------------------------------- MODULE Plan --------------------------------
(***************************************************************************)
(* The plan of a recording: blocks and their spans become runs of one      *)
(* voice slot (engine/src/praelector/jobs/planner.py, voices/assignment.py)*)
(* and runs become items no longer than a limit (jobs/chunker.py).         *)
(* Profiles and render keys are left out: they are fixed by the slot and   *)
(* the text.                                                               *)
(***************************************************************************)
EXTENDS Spans

CONSTANTS Mode,    \* "single", "narrator_dialogue" or "gendered"
          Filled,  \* slots with a sample; the narrator is one
          Limit    \* max_input_chars, in symbols

Structural == {"narration", "dialogue", "pause"}

\* _wanted()
Wanted(kind, gender) ==
    IF Mode = "single" \/ kind # Spoken THEN "narrator"
    ELSE IF Mode = "narrator_dialogue" THEN "dialogue"
    ELSE IF gender \in {Male, Female} THEN gender ELSE "narrator"

\* assign_slot(), when the narrator has a sample; else it is an error and there is no plan.
Slot(kind, gender) == IF Wanted(kind, gender) \in Filled THEN Wanted(kind, gender) ELSE "narrator"

\* _cover(): structural spans, narration in the gaps, and what is covered already left out.
Gap(a, end) == IF end > a.cursor THEN <<Span(Narration, <<a.cursor, end>>, <<>>)>> ELSE <<>>
CoverWith(a, s) ==
    IF s.end <= a.cursor THEN [a EXCEPT !.pieces = @ \o Gap(a, s.start)]
    ELSE [pieces |-> a.pieces \o Gap(a, s.start) \o <<[s EXCEPT !.start = Max({@, a.cursor})]>>, cursor |-> s.end]
CoverRest(t, a) == a.pieces \o Gap(a, Len(t))
Cover(t, spans) ==
    CoverRest(t, FoldLeft(CoverWith, [pieces |-> <<>>, cursor |-> 0],
                          Ranked({s \in spans : s.kind \in Structural},
                                 LAMBDA a, b : a.start < b.start \/ (a.start = b.start /\ a.end < b.end))))

\* _speak(): the text of a piece with the overlays that are wholly in it.
Speak(t, spans, a, b) ==
    LET local == {[s EXCEPT !.start = @ - a, !.end = @ - a] :
                    s \in {o \in spans : o.kind \notin Structural /\ o.start >= a /\ o.end <= b}}
    IN  Stripped(SpokenForm(Slice(t, a, Min({b, Len(t)})), local))

Silence == [kind |-> "silence", slot |-> "narrator", text |-> <<>>]

\* Mutant: speech joins the run before it whatever its slot.
PushAny(runs, run) ==
    IF runs # <<>> /\ Last(runs).kind = "tts"
    THEN Append(Front(runs), [Last(runs) EXCEPT !.text = @ \o <<"sp">> \o run.text]) ELSE Append(runs, run)

\* _push_speech(): speech joins the run before it when that has its slot.
Push(runs, run) ==
    IF runs # <<>> /\ Last(runs).kind = "tts" /\ Last(runs).slot = run.slot
    THEN Append(Front(runs), [Last(runs) EXCEPT !.text = @ \o <<"sp">> \o run.text]) ELSE Append(runs, run)

\* spoken_runs()
CoverOf(block, cover) ==
    [k \in 1..Len(cover) |-> [kind |-> cover[k].kind, gender |-> cover[k].gender,
                              text |-> Speak(block.text, block.spans, cover[k].start, cover[k].end)]]
SpokenRuns(blocks) ==
    FoldLeft(LAMBDA runs, p : CASE p.kind = "pause" -> Append(runs, Silence)
                                [] p.kind # "pause" /\ p.text = <<>> -> runs
                                [] OTHER -> Push(runs, [kind |-> "tts", slot |-> Slot(p.kind, p.gender), text |-> p.text]),
             <<>>, FlattenSeq([b \in 1..Len(blocks) |-> CoverOf(blocks[b], Cover(blocks[b].text, blocks[b].spans))]))

-----------------------------------------------------------------------------
(* Items.                                                                  *)

\* text.split(separator), without the parts that are empty or blank.
PartsAt(t, at) ==
    SelectSeq([k \in 1..(Len(at) + 1) |->
                  Stripped(Slice(t, IF k = 1 THEN 0 ELSE at[k - 1][2], IF k > Len(at) THEN Len(t) ELSE at[k][1]))],
              LAMBDA p : p # <<>>)
Parts(t, sep) == PartsAt(t, InOrder(Scan(Occurrences(t, sep))))

Clauses == << <<"comma">>, <<"sp", "dash", "sp">>, <<"sp", "endash", "sp">>, <<"sp", "hyphen", "sp">> >>

\* Where a text without clauses is cut: the last space within the limit, else the first.
Nearest(spaces) == CASE spaces = {} -> 0
                    [] \E i \in spaces : i <= Limit -> Max({i \in spaces : i <= Limit})
                    [] OTHER -> Min(spaces)
CutSpace(t) == Nearest({i \in 1..(Len(t) - 1) : At(t, i) = "sp"})

\* The parts at the first clause mark that parts the text, or the text as one.
AtClause(partings) == IF partings = <<>> THEN <<>> ELSE partings[1]
ClauseParts(t) == AtClause(SelectSeq([k \in 1..Len(Clauses) |-> Parts(t, Clauses[k])], LAMBDA p : Len(p) > 1))

HalvesAt(t, cut) == IF cut = 0 THEN <<t>> ELSE <<Stripped(Slice(t, 0, cut)), Stripped(Slice(t, cut + 1, Len(t)))>>

\* _split_oversized(): at the first clause mark that parts the text, else at a space; the first
\* half is then within the limit, or has no space to cut at.
SplitOversized[t \in Seq(STRING)] ==
    LET parts  == ClauseParts(t)
        halves == HalvesAt(t, CutSpace(t))
    IN  CASE t = <<>> -> <<>>
          [] t # <<>> /\ Len(t) <= Limit -> <<t>>
          [] Len(t) > Limit /\ parts # <<>> ->
                FlattenSeq([k \in 1..Len(parts) |-> SplitOversized[parts[k]]])
          [] OTHER -> IF Len(halves) = 1 THEN halves ELSE <<halves[1]>> \o SplitOversized[halves[2]]

SplitEach(parts) == FlattenSeq([k \in 1..Len(parts) |-> SplitOversized[parts[k]]])

\* Mutant: the space between two pieces is not counted.
PackedTight(pieces) ==
    LET step(a, p) == IF a # <<>> /\ Len(Last(a)) + Len(p) <= Limit
                      THEN Append(Front(a), Last(a) \o <<"sp">> \o p) ELSE Append(a, p)
    IN  FoldLeft(step, <<>>, pieces)

\* Pieces packed up to the limit.
Packed(pieces) ==
    LET step(a, p) == IF a # <<>> /\ Len(Last(a)) + 1 + Len(p) <= Limit
                      THEN Append(Front(a), Last(a) \o <<"sp">> \o p) ELSE Append(a, p)
    IN  FoldLeft(step, <<>>, pieces)

\* _pieces(): whole sentences as far as they go.
SentenceTexts(t, cuts) == IF cuts = <<>> /\ t # <<>> THEN <<t>>
                          ELSE [k \in 1..Len(cuts) |-> Stripped(Slice(t, cuts[k][1], cuts[k][2]))]
PiecesOfText(t) == Packed(SplitEach(SentenceTexts(t, Sentences(t))))
Pieces(text) == PiecesOfText(Stripped(text))

\* plan_runs(): the items in order, numbered from 0.
SpeechItems(slot, texts) == [k \in 1..Len(texts) |-> [kind |-> "tts", slot |-> slot, text |-> texts[k]]]
Numbered(items) == [k \in 1..Len(items) |-> [ordinal |-> k - 1] @@ items[k]]
PlanItems(runs) ==
    Numbered(FlattenSeq([k \in 1..Len(runs) |-> IF runs[k].kind = "silence" THEN <<Silence>>
                                                 ELSE SpeechItems(runs[k].slot, Pieces(runs[k].text))]))
=============================================================================
