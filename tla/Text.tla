-------------------------------- MODULE Text --------------------------------
(***************************************************************************)
(* The text of a block, and its sentences (engine/src/praelector/text/     *)
(* segment.py, RegexSentenceSegmenter).                                    *)
(*                                                                         *)
(* A text is a sequence of symbols.  A symbol is one character, or a word  *)
(* or a part of one that the code never looks into: what matters of it is  *)
(* which of the classes below it is in.  Offsets count from 0 and spans    *)
(* are <<start, end>> with the end excluded, as in the code.               *)
(***************************************************************************)
EXTENDS Integers, Sequences, FiniteSets, SequencesExt, FiniteSetsExt, Numerals

Verbs   == {"rzekl", "rzekla", "mowi"}             \* verbs of saying
Spelled == {"ej", "si", "di", "aj", "vi", "eks"}  \* names of letters
Phrases == {"isbn", "copyright", "tytul", "redakcja", "spis"} \* what front matter is known by
Lower   == {"word", "o", "oacute", "on", "ona", "np", "rozdzial", "scena", "sceny", "zl", "deadline",
            "thing", "dedlajn", "ting", "loszynkton"} \cup Phrases \cup Spelled \cup NumberWords \cup Verbs
Names   == {"Name", "Ewa", "Kuba", "Washington"}   \* more than one letter, the first a capital
Capitals == {"A", "C", "D", "I", "V", "X"}
Upper   == Names \cup Capitals
Digits  == {"0", "1", "2", "3", "5"}
Letters == Lower \cup Upper
Alnum   == Letters \cup Digits
Space   == {"sp", "nl", "ls"}                      \* space, line feed, line separator
Dashes  == {"hyphen", "endash", "dash"}
Stops   == {"stop"}
Closers == {"rquote"}
Openers == {"lquote"}
Symbols == Alnum \cup Space \cup Dashes \cup Stops \cup Closers \cup Openers \cup
           {"colon", "comma", "shy", "comb"}

At(t, i) == t[i + 1]
\* t[a:b], cut off at the end of t.
Slice(t, a, b) == SubSeq(t, a + 1, IF b <= Len(t) THEN b ELSE Len(t))

\* The first offset from i whose symbol is not in S, or the length.
FirstNot(t, i, S) == Min({j \in i..Len(t) : j = Len(t) \/ At(t, j) \notin S} \cup {Len(t)})

\* What is left of [a, b) without the symbols of S at both ends; <<b, b>> if nothing is.
Strip(t, a, b, S) ==
    LET kept == {i \in a..(b - 1) : At(t, i) \notin S}
    IN  IF kept = {} THEN <<b, b>> ELSE <<Min(kept), Max(kept) + 1>>

Blank(t) == \A i \in 1..Len(t) : t[i] \in Space

\* text.strip()
Stripped(t) == LET s == Strip(t, 0, Len(t), Space) IN Slice(t, s[1], s[2])

\* The members of S in a strict order.
Ranked(S, before(_, _)) ==
    [k \in 1..Cardinality(S) |-> CHOOSE x \in S : Cardinality({y \in S : before(y, x)}) = k - 1]

InOrder(S) == Ranked(S, LAMBDA a, b : a[1] < b[1] \/ (a[1] = b[1] /\ a[2] < b[2]))

\* A text without the symbols of S.
Without(t, S) == LET order == Ranked({i \in 1..Len(t) : t[i] \notin S}, <)
                 IN  [k \in 1..Len(order) |-> t[order[k]]]

\* Maximal runs of symbols of S within [a, b).
Runs(t, a, b, S) ==
    LET ends(i) == Min({b, FirstNot(t, i, S)})
    IN  {<<i, ends(i)>> : i \in {j \in a..(b - 1) : /\ At(t, j) \in S
                                                    /\ j = a \/ At(t, j - 1) \notin S}}

\* Words of [a, b): from a letter or digit up to what is neither one nor in extra.
Words(t, a, b, extra) ==
    InOrder({<<FirstNot(t, r[1], extra), r[2]>> :
               r \in {q \in Runs(t, a, b, Alnum \cup extra) : \E i \in q[1]..(q[2] - 1) : At(t, i) \in Alnum}})

Overlap(a, b) == a[1] < b[2] /\ b[1] < a[2]

-----------------------------------------------------------------------------
\* _abbreviation_spans(): "np." is the abbreviation the texts use.
Abbreviations(t) ==
    {<<i, i + 2>> : i \in {j \in 0..(Len(t) - 2) : /\ At(t, j) = "np" /\ At(t, j + 1) = "stop"
                                                   /\ j = 0 \/ At(t, j - 1) \notin Alnum
                                                   /\ j + 2 = Len(t) \/ At(t, j + 2) \notin Alnum}}

\* _next_start(): where the sentence after stops that end at e starts, or -1.
NextStart(t, e) ==
    LET gap     == FirstNot(t, e, Closers)
        content == FirstNot(t, gap, Space)
        head    == FirstNot(t, content, Openers)
    IN  IF /\ gap < Len(t) /\ At(t, gap) \in Space
           /\ head < Len(t) /\ At(t, head) \in Upper \cup Digits \cup Dashes
        THEN content ELSE -1

\* segment(): where sentences start, unless the stops belong to abbreviations.
Starts(t) ==
    LET covered(r) == \A i \in r[1]..(r[2] - 1) : \E a \in Abbreviations(t) : a[1] <= i /\ i < a[2]
    IN  {NextStart(t, r[2]) : r \in {q \in Runs(t, 0, Len(t), Stops) : ~covered(q)}} \ {-1}

\* What is between neighbouring bounds, without spaces at its ends.
Between(t, bounds) ==
    InOrder({p \in {Strip(t, b, Min({c \in bounds : c > b}), Space) : b \in bounds \ {Len(t)}} : p[1] < p[2]})

\* _cuts(): the sentences between those starts.
Cuts(t) == Between(t, {FirstNot(t, 0, Space), Len(t)} \cup {s \in Starts(t) : s > FirstNot(t, 0, Space)})

\* apply_abbreviation_guard(): a cut right after an abbreviation is undone.
Guarded(t, spans) ==
    LET boundary(p, s) == \E a \in Abbreviations(t) : a[1] < p[2] /\ p[2] <= a[2] /\ a[2] <= s[1]
        join(acc, s) == IF acc # <<>> /\ boundary(Last(acc), s)
                        THEN Append(Front(acc), <<Last(acc)[1], s[2]>>) ELSE Append(acc, s)
    IN  FoldLeft(join, <<>>, spans)

\* The sentences of a text.
Sentences(t) == IF Blank(t) THEN <<>> ELSE Guarded(t, Cuts(t))

=============================================================================
