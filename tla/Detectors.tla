----------------------------- MODULE Detectors ------------------------------
(***************************************************************************)
(* What a chapter is proposed to be read like (engine/src/praelector/text/ *)
(* normalize.py, numerals_pl.py from numeral_suggestions on, acronyms.py,  *)
(* lexicon.py and prepass.py, and ebook/frontmatter.py).                   *)
(*                                                                         *)
(* A suggestion quotes the span it is about.  Confidence is left out, and  *)
(* so is the case of letters.  The phrases of the front matter (an ISBN, a *)
(* copyright line) are one symbol each.                                    *)
(***************************************************************************)
EXTENDS Gender

CONSTANTS Lexicon,   \* a sequence of rules: [pattern, spoken, regex, project, priority]
          Titles,    \* titles of chapters
          MaxLine,   \* _MAX_LINE_CHARS, in symbols
          MaxEntry,  \* _MAX_TOC_ENTRY_CHARS, in symbols
          MinToc     \* _MIN_TOC_RUN

ASSUME LexiconAssumption ==
    Lexicon \in Seq([pattern : Seq(Symbols), spoken : Seq(Symbols), regex : BOOLEAN, project : BOOLEAN, priority : Int])

Suggestion(t, kind, s, replacement, reason) ==
    [block |-> 1, kind |-> kind, start |-> s[1], end |-> s[2], original |-> Slice(t, s[1], s[2]),
     replacement |-> replacement, reason |-> reason, form |-> "", segments |-> <<>>, speaker |-> NoOne]

SpanOf(g) == <<g.start, g.end>>
OverlapsAny(g, S) == \E o \in S : Overlap(SpanOf(g), SpanOf(o))

\* finditer(): from the left, each match after the end of the one before.
Matched(found, m) == IF \A n \in found : n[2] <= m[1] THEN found \cup {m} ELSE found
Scan(matches) ==
    LET order == InOrder(matches)
        upto[k \in 0..Len(order)] == IF k = 0 THEN {} ELSE Matched(upto[k - 1], order[k])
    IN  upto[Len(order)]

\* What several searches find, where each leaves what the earlier ones have.
Apart(S, from) == {g \in S : ~OverlapsAny(g, from)}
Adding(found, new) == found \cup Apart(new, found)
InTurn(searches) ==
    LET upto[k \in 0..Len(searches)] == IF k = 0 THEN {} ELSE Adding(upto[k - 1], searches[k])
    IN  upto[Len(searches)]

\* _claim(), _add(): what would not change is left, too.
Claimed(searches) == InTurn([k \in 1..Len(searches) |-> {g \in searches[k] : g.original # g.replacement}])

\* Words with spaces between them.
Spaced(ws) == FlattenSeq([k \in 1..Len(ws) |-> IF k = 1 THEN <<ws[k]>> ELSE <<"sp", ws[k]>>])

-----------------------------------------------------------------------------
(* Conversion artefacts.                                                   *)

Artefact(t, s, replacement, reason) == Suggestion(t, "conversion_artifact", s, replacement, reason)

\* _hyphenation(): a word broken over two lines.
Hyphenation(t) ==
    LET words == Runs(t, 0, Len(t), Letters)
        breaks == {"hyphen", "shy"}
        eol(b) == {e \in {b + 1, b + 2} : /\ e < Len(t) /\ At(t, e) = "nl" /\ At(t, e - 1) \in breaks
                                          /\ e = b + 2 => At(t, b) = "shy"}
        joins == {j \in words \X words : j[2][1] - 1 \in eol(j[1][2])}
    IN  {Artefact(t, m, LET j == CHOOSE j \in joins : j[1][1] = m[1]
                        IN  Slice(t, j[1][1], j[1][2]) \o Slice(t, j[2][1], j[2][2]), "hyphenation") :
           m \in Scan({<<j[1][1], j[2][2]>> : j \in joins})}

\* _soft_hyphens()
SoftHyphens(t) ==
    {Artefact(t, r, Without(Slice(t, r[1], r[2]), {"shy"}), "soft_hyphen") :
       r \in {q \in Runs(t, 0, Len(t), Letters \cup {"shy"}) : "shy" \in ToSet(Slice(t, q[1], q[2]))}}

\* _whitespace()
Whitespace(t) == {Artefact(t, r, <<"sp">>, "whitespace") : r \in {q \in Runs(t, 0, Len(t), {"sp"}) : q[2] > q[1] + 1}}

\* _dashes()
DashArtefacts(t) ==
    {Artefact(t, <<i, i + 1>>, <<"dash">>, "dash") : i \in {j \in 0..(Len(t) - 1) : At(t, j) = "endash"}}

\* _nfc(): a letter and the accent that was left apart from it.
Composed(t) ==
    {Artefact(t, <<i, i + 2>>, <<"oacute">>, "nfc") :
       i \in {j \in 0..(Len(t) - 2) : At(t, j) = "o" /\ At(t, j + 1) = "comb"}}

\* normalization_suggestions()
Artefacts(t) == Claimed(<<Hyphenation(t), SoftHyphens(t), Whitespace(t), DashArtefacts(t), Composed(t)>>)

-----------------------------------------------------------------------------
(* Numerals.                                                               *)

HeadingWords == [rozdzial |-> "m", scena |-> "f"]
NounGender   == HeadingWords @@ [sceny |-> "f"]
Quantities   == {<<"zl">>}
Romans       == DOMAIN RomanValue
Clear(t, i) == i = 0 \/ At(t, i - 1) \notin Alnum     \* (?<!\w)
Over(t, i)  == i = Len(t) \/ At(t, i) \notin Alnum    \* (?!\w)
Is(t, i, c) == i < Len(t) /\ At(t, i) = c

\* The words next to a place, past spaces and some marks: _next_word(), _previous_word().
NextWord(t, e) ==
    LET i == FirstNot(t, e, Space \cup Dashes \cup {"stop", "colon", "comma", "lquote"})
    IN  Slice(t, i, FirstNot(t, i, Letters))
PreviousWord(t, s) ==
    LET end == Strip(t, 0, s, Space \cup Dashes \cup {"stop", "colon", "comma", "rquote"})[2]
        from == {i \in 0..end : \A j \in i..(end - 1) : At(t, j) \in Letters}
    IN  Slice(t, Min(from), end)

\* _gender_of()
NounForm(w) == Gendered(NounGender, w)

\* _bare(): the text is the token, with or without a dot.
Bare(t, token) == Stripped(t) \in {token, Append(token, "stop")}

NumeralMark(t, kind, s, words, reason, form) ==
    [Suggestion(t, kind, s, Spaced(words), reason) EXCEPT !.form = form]

\* _claim_headings()
Headings(t, heading) ==
    LET token(i) == LET a == FirstNot(t, i + 1, {"sp"}) IN <<a, FirstNot(t, a, Alnum)>>
        text(i) == Slice(t, token(i)[1], token(i)[2])
        value(i) == IF ToSet(text(i)) \subseteq Digits THEN Number(text(i)) ELSE ParseRoman(text(i))
        at == {i \in 0..(Len(t) - 1) :
                 /\ Clear(t, i) /\ At(t, i) \in DOMAIN HeadingWords
                 /\ Is(t, i + 1, "sp") /\ text(i) # <<>>
                 /\ \/ ToSet(text(i)) \subseteq Digits /\ Len(text(i)) <= 4
                    \/ ToSet(text(i)) \subseteq Romans /\ Len(text(i)) <= 12 /\ value(i) # 0}
        kind(i) == IF heading \/ Blank(Slice(t, 0, i)) THEN "ordinal_heading" ELSE "numeral"
    IN  {NumeralMark(t, kind(i), <<i, token(i)[2]>>, <<At(t, i)>> \o Ordinal(value(i)), "heading_ordinal",
                     HeadingWords[At(t, i)]) : i \in at}

\* Runs of digits that nothing alphanumeric precedes.
DigitRuns(t) == {r \in Runs(t, 0, Len(t), Digits) : Clear(t, r[1])}
DigitsFrom(t, i) == IF i < Len(t) THEN <<i, FirstNot(t, i, Digits)>> ELSE <<i, i>>
NumberAt(t, r) == Number(Slice(t, r[1], r[2]))

\* _claim_clocks()
Clocks(t) ==
    LET minutes(r) == DigitsFrom(t, r[2] + 1)
        at == {r \in DigitRuns(t) :
                 /\ r[2] - r[1] <= 2 /\ Is(t, r[2], "colon")
                 /\ minutes(r)[2] - minutes(r)[1] = 2
                 /\ Over(t, minutes(r)[2]) /\ ~Is(t, minutes(r)[2], "colon")
                 /\ NumberAt(t, r) <= 23 /\ NumberAt(t, minutes(r)) <= 59}
    IN  {NumeralMark(t, "numeral", <<r[1], minutes(r)[2]>>,
                     ClockPhrase(NumberAt(t, r), NumberAt(t, minutes(r))), "clock", "loc") : r \in at}

\* _claim_decimals()
Decimals(t) ==
    LET places(r) == DigitsFrom(t, r[2] + 1)
        at == {r \in DigitRuns(t) : /\ Is(t, r[2], "comma") /\ places(r)[2] > places(r)[1]
                                    /\ Over(t, places(r)[2])}
        taken == Scan({<<r[1], places(r)[2]>> : r \in at})
    IN  {NumeralMark(t, "numeral", <<r[1], places(r)[2]>>,
                     DecimalPhrase(NumberAt(t, r), Slice(t, places(r)[1], places(r)[2])), "decimal", "") :
           r \in {q \in at : <<q[1], places(q)[2]>> \in taken}}

\* _claim_romans()
RomanNumerals(t, heading) ==
    LET text(r) == Slice(t, r[1], r[2])
        runs == {r \in Runs(t, 0, Len(t), Alnum) :
                   /\ ToSet(text(r)) \subseteq Romans /\ Len(text(r)) <= 15 /\ ParseRoman(text(r)) # 0}
        near(r) == IF NounForm(NextWord(t, r[2])) # Nothing THEN NounForm(NextWord(t, r[2]))
                   ELSE NounForm(PreviousWord(t, r[1]))
        leads(r) == Blank(Slice(t, 0, r[1]))
        title(r) == \/ heading /\ (Bare(t, text(r)) \/ leads(r))
                    \/ Bare(t, text(r)) /\ Len(text(r)) >= 2
        read(r) == title(r) \/ near(r) # Nothing \/ Len(text(r)) >= 3
        form(r) == IF near(r) = Nothing THEN "m" ELSE near(r)
    IN  {NumeralMark(t, IF title(r) THEN "ordinal_heading" ELSE "numeral", r, Ordinal(ParseRoman(text(r))),
                     IF title(r) THEN "heading_ordinal" ELSE "roman", form(r)) : r \in {q \in runs : read(q)}}

\* _dotted_gender(): whether the dot after a number makes it an ordinal, and which.
DottedForm(t, r) ==
    LET rest == Slice(t, r[2] + 1, Len(t))
        word == NextWord(t, r[2] + 1)
    IN  CASE Blank(rest) -> IF Blank(Slice(t, 0, r[1])) THEN "m" ELSE Nothing
          [] ~Blank(rest) /\ word = <<>> -> "m"
          [] OTHER -> CASE NounForm(word) # Nothing -> NounForm(word)
                        [] NounForm(word) = Nothing /\ word[1] \in Upper -> Nothing
                        [] OTHER -> "m"

\* _claim_dotted()
Dotted(t, heading) ==
    LET at == {r \in DigitRuns(t) : /\ r[2] - r[1] <= 6 /\ Is(t, r[2], "stop")
                                    /\ r[2] + 1 = Len(t) \/ At(t, r[2] + 1) \notin Digits
                                    /\ DottedForm(t, r) # Nothing}
        title(r) == heading /\ Bare(t, Slice(t, r[1], r[2] + 1))
    IN  {NumeralMark(t, IF title(r) THEN "ordinal_heading" ELSE "numeral", <<r[1], r[2] + 1>>,
                     Ordinal(NumberAt(t, r)), IF title(r) THEN "heading_ordinal" ELSE "ordinal",
                     DottedForm(t, r)) : r \in at}

\* _is_year()
IsYear(n, t, e) == n \in 1000..2099 /\ NextWord(t, e) \notin Quantities

\* The numbers with spaces before every three digits, and the plain ones.
IntegerMatches(t) ==
    LET group(e) == Is(t, e, "sp") /\ \A k \in 1..3 : e + k < Len(t) /\ At(t, e + k) \in Digits
        ends(r) == {e \in r[2]..Len(t) : /\ (e - r[2]) % 4 = 0 /\ Over(t, e)
                                         /\ \A k \in 0..((e - r[2]) \div 4 - 1) : group(r[2] + 4 * k)}
        grouped(r) == IF r[2] - r[1] > 3 THEN {} ELSE {e \in ends(r) : e > r[2]}
        plain(r) == IF Over(t, r[2]) /\ r[2] - r[1] <= 12 THEN {r[2]} ELSE {}
        end(r) == grouped(r) \cup plain(r)
    IN  Scan({<<r[1], Max(end(r))>> : r \in {q \in DigitRuns(t) : end(q) # {}}})

\* _claim_integers()
IntegerNumerals(t, heading) ==
    LET raw(m) == Slice(t, m[1], m[2])
        value(m) == Number(SelectSeq(raw(m), LAMBDA c : c # "sp"))
        solid(m) == "sp" \notin ToSet(raw(m))
        title(m) == heading /\ Bare(t, raw(m)) /\ solid(m) /\ value(m) <= 999999
        year(m) == solid(m) /\ IsYear(value(m), t, m[2])
        mark(m) == CASE title(m) -> NumeralMark(t, "ordinal_heading", m, Ordinal(value(m)), "heading_ordinal", "m")
                     [] ~title(m) /\ year(m) -> NumeralMark(t, "numeral", m, Ordinal(value(m)), "year", "m")
                     [] OTHER -> NumeralMark(t, "numeral", m, cardinal[value(m)], "cardinal", "")
    IN  {mark(m) : m \in IntegerMatches(t)}

\* numeral_suggestions()
NumeralSuggestions(t, heading) ==
    Claimed(<<Headings(t, heading), Clocks(t), Decimals(t), RomanNumerals(t, heading),
              Dotted(t, heading), IntegerNumerals(t, heading)>>)

-----------------------------------------------------------------------------
(* Toponyms, acronyms and foreign words, and the lexicon.                  *)

LetterName == [A |-> "ej", C |-> "si", D |-> "di", I |-> "aj", V |-> "vi", X |-> "eks"]
Toponyms == { [surface |-> <<"Washington", "sp", "D", "C">>, spoken |-> <<"loszynkton", "sp", "di", "sp", "si">>],
              [surface |-> <<"Washington">>, spoken |-> <<"loszynkton">>] }
NotAcronyms == {FormatRoman(n) : n \in (2..21) \cup {30}}
English == [deadline |-> "dedlajn"]      \* listed words, and what they sound like
Respelled == [thing |-> "ting"]          \* words with English-only spelling
PolishWords == {"rzekl", "rzekla", "oacute"} \* words with Polish letters

Occurrences(t, p) ==
    {<<i, i + Len(p)>> : i \in {j \in 0..(Len(t) - Len(p)) : Slice(t, j, j + Len(p)) = p}}

Bounded(t, S) == {s \in S : Clear(t, s[1]) /\ Over(t, s[2])}

\* The longer surfaces are looked for first.
ToponymMarks(t) ==
    LET marks(n) == UNION {{Suggestion(t, "toponym", s, p.spoken, "toponym") :
                               s \in Bounded(t, Occurrences(t, p.surface))} :
                           p \in {q \in Toponyms : Len(q.surface) = n}}
    IN  Claimed(<<marks(4), marks(1)>>)

\* Two to five capitals that are neither a word nor a Roman numeral; spell_acronym().
AcronymMarks(t) ==
    LET text(r) == Slice(t, r[1], r[2])
        at == {r \in Runs(t, 0, Len(t), Letters) : /\ ToSet(text(r)) \subseteq Capitals
                                                   /\ Len(text(r)) \in 2..5 /\ text(r) \notin NotAcronyms}
    IN  {Suggestion(t, "acronym", r, Spaced([k \in 1..Len(text(r)) |-> LetterName[text(r)[k]]]), "acronym") : r \in at}

\* Listed words and words with English spelling; _spoken_foreign().
ForeignMarks(t) ==
    LET text(r) == Slice(t, r[1], r[2])
        words == {<<r[1], r[2]>> : r \in ToSet(Words(t, 0, Len(t), WordExtra))}
        listed(r) == r[2] = r[1] + 1 /\ At(t, r[1]) \in DOMAIN English
        english(r) == ToSet(text(r)) \cap DOMAIN Respelled # {} /\ ToSet(text(r)) \cap PolishWords = {}
        say(c) == IF c \in DOMAIN Respelled THEN Respelled[c] ELSE c
    IN  {IF listed(r) THEN Suggestion(t, "foreign_word", r, <<English[At(t, r[1])]>>, "english_word")
         ELSE Suggestion(t, "foreign_word", r, [k \in 1..Len(text(r)) |-> say(text(r)[k])], "english_orthography") :
           r \in {w \in words : listed(w) \/ english(w)}}

\* lexical_suggestions()
LexicalSuggestions(t) == Claimed(<<ToponymMarks(t), AcronymMarks(t), ForeignMarks(t)>>)

\* effective_rules(): of the rules with one pattern the first of the project counts, else the
\* first; by priority, longer patterns first, and then in the order the patterns came.
EffectiveRules ==
    LET alike(i) == {j \in 1..Len(Lexicon) : /\ Lexicon[j].pattern = Lexicon[i].pattern
                                             /\ Lexicon[j].regex = Lexicon[i].regex}
        own(i) == {j \in alike(i) : Lexicon[j].project}
        chosen == {i \in 1..Len(Lexicon) : i = IF own(i) = {} THEN Min(alike(i)) ELSE Min(own(i))}
        key(i) == <<Lexicon[i].priority, -Len(Lexicon[i].pattern), Min(alike(i))>>
        order == Ranked(chosen, LAMBDA i, j : \E m \in 1..3 : /\ key(i)[m] < key(j)[m]
                                                              /\ \A l \in 1..(m - 1) : key(i)[l] = key(j)[l])
    IN  [k \in 1..Len(order) |-> Lexicon[order[k]]]

\* lexicon_suggestions(); a regular expression needs no word boundaries, and one that does
\* not compile has the empty pattern here.
LexiconSuggestions(t) ==
    LET spans(r) == IF r.pattern = <<>> THEN {}
                    ELSE Scan(IF r.regex THEN Occurrences(t, r.pattern) ELSE Bounded(t, Occurrences(t, r.pattern)))
        marks(r) == {Suggestion(t, "dict_hit", s, r.spoken, "lexicon") : s \in spans(r)}
    IN  InTurn([k \in 1..Len(EffectiveRules) |-> marks(EffectiveRules[k])])

-----------------------------------------------------------------------------
(* Front matter.                                                           *)

\* _line_reason(), or none.
LineReason(t) ==
    LET s == Stripped(t)
        has(p) == p \in ToSet(s)
        reasons == <<[p |-> "isbn", r |-> "isbn"], [p |-> "copyright", r |-> "copyright"],
                     [p |-> "tytul", r |-> "original_title"], [p |-> "redakcja", r |-> "editorial"]>>
        found == SelectSeq(reasons, LAMBDA q : has(q.p))
    IN  IF s # <<>> /\ ToSet(s) \subseteq Digits /\ Len(s) <= 4 THEN "page_number"
        ELSE IF Len(s) <= MaxLine /\ found # <<>> THEN found[1].r ELSE Nothing

\* _norm()
Norm(t) == LET s == Stripped(t)
           IN  SelectSeq([k \in 1..Len(s) |-> IF s[k] \notin Space THEN s[k]
                                              ELSE IF s[k - 1] \in Space THEN "none" ELSE "sp"],
                         LAMBDA c : c # "none")

\* _toc_entry()
TocEntry(t) == LET n == Norm(t)
               IN  /\ n # <<>> /\ Len(n) <= MaxEntry
                   /\ IF Titles # {} THEN n \in Titles ELSE Last(n) # "stop"

\* _toc_spans(): headings of a table of contents with enough entries behind them.
TocBlocks(texts, claimed) ==
    LET runs(i) == {n \in 0..(Len(texts) - i) : \A k \in (i + 1)..(i + n) : k \notin claimed /\ TocEntry(texts[k])}
        from[i \in 1..(Len(texts) + 1)] ==
            IF i > Len(texts) THEN {}
            ELSE IF i \in claimed \/ Norm(texts[i]) # <<"spis">> THEN from[i + 1]
            ELSE LET n == Max(runs(i)) IN (IF n >= MinToc THEN i..(i + n) ELSE {}) \cup from[i + 1 + n]
    IN  from[1]

\* skip_candidates(): whole blocks, with the reason.
SkipCandidates(texts) ==
    LET lines == {b \in 1..Len(texts) : LineReason(texts[b]) # Nothing}
        toc == TocBlocks(texts, lines)
    IN  [b \in lines \cup toc |-> IF b \in lines THEN LineReason(texts[b]) ELSE "toc"]

-----------------------------------------------------------------------------
(* The pre-pass.                                                           *)

LexiconWins == {"foreign_word", "acronym", "toponym", "numeral", "ordinal_heading"}

InBlock(b, S) == {[g EXCEPT !.block = b] : g \in S}

SplitSuggestion(t, p) ==
    [Suggestion(t, "dialogue_split", <<0, Len(t)>>, <<>>, p.reason) EXCEPT !.segments = p.segments]

\* The suggestions of one block, but for speakers and the lexicon.
Splits(t) == {SplitSuggestion(t, p) : p \in ToSet(ProposedSplit(t))}
BesideNumerals(t, numerals) == Adding(numerals, LexicalSuggestions(t))
BlockSuggestions(t, heading, skipped) ==
    Artefacts(t) \cup IF skipped THEN {} ELSE Splits(t) \cup BesideNumerals(t, NumeralSuggestions(t, heading))

Skip(t, reason) == Suggestion(t, "skip", <<0, Len(t)>>, <<>>, reason)
SpeakerMark(t, g) == [Suggestion(t, "speaker_gender", <<g.start, g.end>>, <<g.reading.gender>>, g.reading.reason)
                        EXCEPT !.block = g.block, !.speaker = g.reading.speaker]

\* Every suggestion but those of the lexicon.
MarksOf(texts, headings, skips) ==
    (UNION {InBlock(b, {Skip(texts[b], skips[b])}) : b \in DOMAIN skips})
    \cup (UNION {InBlock(b, BlockSuggestions(texts[b], b \in headings, b \in DOMAIN skips)) : b \in 1..Len(texts)})
    \cup {SpeakerMark(texts[g.block], g) : g \in ToSet(GenderReadings(texts))}

Hits(texts, skipped) == UNION {InBlock(b, LexiconSuggestions(texts[b])) : b \in (1..Len(texts)) \ skipped}

\* Mutant: a lexicon hit is added beside what it should replace.
SettledKeepingBoth(marks, hits) == marks \cup hits

\* Where the lexicon and a detector both read the same words, the lexicon does.
Settled(marks, hits) ==
    {g \in marks : ~(g.kind \in LexiconWins
                      /\ \E h \in hits : h.block = g.block /\ Overlap(SpanOf(g), SpanOf(h)))} \cup hits

\* prepass()
Proposed(texts, headings, skips) == Settled(MarksOf(texts, headings, skips), Hits(texts, DOMAIN skips))
Prepass(texts, headings) == Proposed(texts, headings, SkipCandidates(texts))
=============================================================================
