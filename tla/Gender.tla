------------------------------- MODULE Gender -------------------------------
(***************************************************************************)
(* Who speaks a piece of dialogue (engine/src/praelector/text/gender.py):  *)
(* the verb of the speech tag, then a given name, then what the block said *)
(* before, then the pronouns around it.                                    *)
(***************************************************************************)
EXTENDS Dialogue

Female == "female"
Male == "male"
Unknown == "unknown"
Nothing == "none"      \* no answer
NoOne == <<>>          \* no speaker

GivenNames == [Ewa |-> Female, Kuba |-> Male]
VerbGender == [rzekl |-> Male, rzekla |-> Female, mowi |-> Nothing]
WordGender == [on |-> Male, ona |-> Female, rzekl |-> Male, rzekla |-> Female]

Certain == {"verb_suffix", "given_name"}  \* the reasons of a reading others may lean on

Reading(gender, reason, speaker) == [gender |-> gender, reason |-> reason, speaker |-> speaker]
Silent == Reading(Nothing, "none", NoOne)
Unresolved == Reading(Unknown, "unresolved", NoOne)

Gendered(names, w) == IF Len(w) = 1 /\ w[1] \in DOMAIN names THEN names[w[1]] ELSE Nothing

\* _tokens()
Texted(t, ws) == [k \in 1..Len(ws) |-> Slice(t, ws[k][1], ws[k][2])]
Tokens(t) == Texted(t, Words(t, 0, Len(t), {}))

FirstOf(ws, hits) == IF hits = {} THEN <<>> ELSE ws[Min(hits)]
OrElse(w, v) == IF w # <<>> THEN w ELSE v

\* _looks_like_name()
LooksLikeName(w) == /\ w # <<>> /\ w[1] \in Upper
                    /\ \E k \in 1..Len(w) : w[k] \in Lower \cup Names

\* _speaker_name()
NameAmong(ws) == FirstOf(ws, {k \in 1..Len(ws) : LooksLikeName(ws[k])})
SpeakerName(t) == NameAmong(Tokens(t))

\* _leading_verb(): among the first three words, behind names and pronouns only.
VerbAmong(ws) ==
    FirstOf(ws, {k \in 1..Min({3, Len(ws)}) :
                   /\ Len(ws[k]) = 1 /\ ws[k][1] \in Verbs
                   /\ \A j \in 1..(k - 1) : ws[j] \in {<<p>> : p \in Pronouns} \/ ws[j][1] \in Upper})
LeadingVerb(t) == VerbAmong(Tokens(t))

\* _neighbor(): the narration next to a piece, or <<>>.
Neighbor(t, segs, k, step) ==
    IF k + step \in 1..Len(segs) /\ segs[k + step].kind = Narration
    THEN Slice(t, segs[k + step].start, segs[k + step].end) ELSE <<>>

EndsIn(t, c) == t # <<>> /\ Last(t) = c

\* _attached_tag()
Tags(n) == n # <<>> /\ (LeadingVerb(n) # <<>> \/ SpeakerName(n) # <<>>)
TagOf(after, before) ==
    IF Tags(after) THEN after ELSE IF Tags(before) \/ EndsIn(Stripped(before), "colon") THEN before ELSE <<>>
AttachedTag(t, segs, k) == TagOf(Neighbor(t, segs, k, 1), Neighbor(t, segs, k, -1))

\* _name_beside(): a name on the other side of the line.
NameOff(n, tag) == IF n = tag THEN <<>> ELSE SpeakerName(n)
NameBeside(t, segs, k, tag) ==
    IF SpeakerName(tag) # <<>> THEN <<>>
    ELSE OrElse(NameOff(Neighbor(t, segs, k, 1), tag), NameOff(Neighbor(t, segs, k, -1), tag))

\* _from_tag()
Weighed(verb, name, speaker) ==
    CASE verb # Nothing -> Reading(verb, IF name \in {verb, Nothing} THEN "verb_suffix" ELSE "contested", speaker)
      [] verb = Nothing /\ name # Nothing -> Reading(name, "given_name", speaker)
      [] OTHER -> IF speaker # <<>> THEN Reading(Unknown, "unresolved", speaker) ELSE Silent
ByVerb(verb, speaker) == Weighed(verb, Gendered(GivenNames, speaker), speaker)
FromTag(tag, beside) == ByVerb(Gendered(VerbGender, LeadingVerb(tag)), OrElse(SpeakerName(tag), beside))

\* _tail_name(): what is left after the last dash, when it is one word.
LastDashEnd(t) ==
    Max({0} \cup {j + 1 : j \in {i \in 0..(Len(t) - 1) : At(t, i) \in {"dash", "endash"}}}
            \cup {j + 2 : j \in {i \in 1..(Len(t) - 2) : SubSeq(t, i, i + 2) = <<"sp", "hyphen", "sp">>}})
OneName(name) == IF LooksLikeName(name) /\ "sp" \notin ToSet(name) THEN name ELSE <<>>
Sliced(t, s) == Slice(t, s[1], s[2])
TailName(t) == OneName(Sliced(t, Strip(t, LastDashEnd(t), Len(t), {"sp", "stop"})))

\* _from_pronouns(): the words of the block and its neighbours agree.
Agreed(genders) == IF Cardinality(genders) = 1 THEN Reading(CHOOSE g \in genders : TRUE, "pronoun", NoOne) ELSE Unresolved
FromPronouns(texts, b) ==
    Agreed(UNION {{Gendered(WordGender, w) : w \in ToSet(Tokens(texts[k]))} :
                    k \in {j \in 1..Len(texts) : j \in (b - 1)..(b + 1)}} \ {Nothing})

\* What the tag says, else the name at the end of the piece.
IfSilent(r, s) == IF r = Silent THEN s ELSE r
FromTagOrTail(t, segs, k, tag, tail) ==
    IfSilent(IF tag = <<>> THEN Silent ELSE FromTag(tag, NameBeside(t, segs, k, tag)),
             IF tail = <<>> THEN Silent ELSE FromTag(tail, <<>>))

\* Else the reading carried on, else pronouns; and a speaker who is known.
Continued(carried) == IF carried = Silent THEN Silent ELSE Reading(carried.gender, "continuation", carried.speaker)
Known(r, speakers) == IF r.reason = "unresolved" /\ r.speaker \in DOMAIN speakers
                      THEN Reading(speakers[r.speaker], "speaker_map", r.speaker) ELSE r

\* One piece of _block_readings(), given the reading carried on and the speakers known.
PieceReading(texts, b, segs, k, carried, speakers) ==
    Known(IfSilent(IfSilent(FromTagOrTail(texts[b], segs, k, AttachedTag(texts[b], segs, k),
                                          TailName(Slice(texts[b], segs[k].start, segs[k].end))),
                            Continued(carried)),
                   FromPronouns(texts, b)), speakers)

\* gender_suggestions(): every piece of dialogue, in reading order, as [block, start, end, reading].
PiecesOf(b, segs) == [j \in 1..Len(segs) |-> [block |-> b, segs |-> segs, k |-> j]]
ReadAs(a, b, s, carried, r) ==
    [block |-> b,
     carried |-> IF r.reason \in Certain THEN r ELSE carried,
     speakers |-> IF r.reason \in Certain /\ r.speaker # NoOne
                  THEN [n \in {r.speaker} |-> r.gender] @@ a.speakers ELSE a.speakers,
     found |-> Append(a.found, [block |-> b, start |-> s.start, end |-> s.end, reading |-> r])]
ReadNext(texts, a, p, carried) ==
    ReadAs(a, p.block, p.segs[p.k], carried, PieceReading(texts, p.block, p.segs, p.k, carried, a.speakers))
GenderReadings(texts) ==
    FoldLeft(LAMBDA a, p : IF p.segs[p.k].kind # Spoken THEN a
                           ELSE ReadNext(texts, a, p, IF a.block = p.block THEN a.carried ELSE Silent),
             [block |-> 0, carried |-> Silent, speakers |-> <<>>, found |-> <<>>],
             FlattenSeq([b \in 1..Len(texts) |-> PiecesOf(b, Segments(texts[b]))])).found
=============================================================================
