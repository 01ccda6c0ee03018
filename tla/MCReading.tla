----------------------------- MODULE MCReading ------------------------------
(* Chapters put together of phrases, a few kinds of them at a time.         *)
EXTENDS Reading

S == "sp"
Speech  == { <<"dash", S, "word">>, <<S, "dash", S, "rzekl", S, "Ewa">>, <<S, "dash", S, "word">>, <<"stop", S, "Name">>,
             <<"colon", S>> }
Quoted  == { <<"lquote", "word">>, <<"stop", "rquote">>, <<S, "rzekla", S, "Kuba">>, <<"stop", S, "A">>,
             <<"para", "ona", S>>, <<"dash", S, "mowi">> }
Amounts == { <<"1">>, <<"2", "1">>, <<"0", "5">>, <<S, "0", "0", "3">>, <<"comma">>, <<"colon">>, <<"stop", S>>, <<S, "zl">> }
Titles_ == { <<"rozdzial", S>>, <<"X", "I">>, <<"V">>, <<"1", "2">>, <<"stop">>, <<S, "sceny">>, <<"para">> }
Broken  == { <<"word", "hyphen", "nl">>, <<"o", "comb">>, <<"shy">>, <<"word">>, <<S, S>>, <<"endash", S>>, <<"2", "1">> }
Strange == { <<"Washington">>, <<S, "D", "C">>, <<"deadline", S>>, <<"Name">>, <<"hyphen", "thing">>, <<"np", "stop", S>> }
Front_  == { <<"spis">>, <<"para", "word">>, <<"para", "isbn">>, <<"para", "1">>, <<S, "word">>, <<"stop">>,
             <<"para", "shy">> }

Plain(ps) == FlattenSeq(ps)
SplitAt(t) == LET n == Len(SelectSeq(t, LAMBDA c : c = "para"))
                  at(k) == IF k = 0 THEN 0 ELSE IF k > n THEN Len(t) + 1
                           ELSE CHOOSE i \in 1..Len(t) : t[i] = "para" /\ Cardinality({j \in 1..i : t[j] = "para"}) = k
              IN  [k \in 1..(n + 1) |-> SubSeq(t, at(k - 1) + 1, at(k) - 1)]
Chapters(phrases, n) ==
    {t \in {SplitAt(Plain(ps)) : ps \in UNION {[1..k -> phrases] : k \in 1..n}} :
        \A b \in 1..Len(t) : t[b] # <<>> /\ Stripped(t[b]) = t[b] /\ Len(SelectSeq(t[b], LAMBDA c : c \in Digits)) < 10}
Lesson(phrases, n, heads) == {[texts |-> t, headings |-> heads] : t \in Chapters(phrases, n)}

\* Numbers at the borders: figures are groups of digits, and each of them is read alone.
Groups   == { <<"0", "0", "0">>, <<"0", "0", "1">>, <<"0", "1", "2">>, <<"0", "2", "0">>,
              <<"1", "0", "0">>, <<"5", "0", "2">>, <<"2", "2", "2">> }
Heads    == { <<"1">>, <<"2">>, <<"5">>, <<"1", "2">>, <<"2", "0">>, <<"1", "0", "0">>, <<"5", "0", "1">> }
Hundreds_ == { <<g>> : g \in Heads \cup {<<"0">>, <<"1", "0">>, <<"2", "2", "2">>, <<"2", "0", "0">>} }
Thousands == Heads \X Groups
Millions  == {<<"1">>, <<"2">>, <<"5">>} \X {<<"0", "0", "0">>, <<"0", "0", "1">>, <<"2", "0", "0">>}
                 \X {<<"0", "0", "0">>, <<"1", "0", "0">>, <<"0", "1", "2">>}
Milliards == {<<"1">>, <<"2">>} \X {<<"0", "0", "0">>, <<"0", "0", "1">>}
                 \X {<<"0", "0", "0">>, <<"0", "0", "2">>} \X {<<"0", "0", "0">>, <<"0", "0", "5">>}
Solid(f)   == FlattenSeq(f)
Grouped(f) == FlattenSeq([i \in 1..Len(f) |-> IF i = 1 THEN f[1] ELSE <<S>> \o f[i]])
Hours   == { <<"0">>, <<"1">>, <<"1", "0">>, <<"2", "0">>, <<"2", "3">> }
Minutes == { <<"0", "0">>, <<"0", "1">>, <<"1", "0">>, <<"2", "0">>, <<"5", "3">> }
Places  == { <<"1">>, <<"5">>, <<"0", "0">>, <<"0", "1">>, <<"1", "2">>, <<"2", "2">>, <<"0", "0", "0">>,
             <<"0", "0", "2">>, <<"1", "0", "0">>, <<"1", "0", "0", "2">> }
Figures == {Solid(f) : f \in Hundreds_ \cup Thousands \cup Millions \cup Milliards}
           \cup {Grouped(f) : f \in Thousands \cup Millions \cup Milliards}
           \cup {Append(Solid(f), "stop") : f \in Hundreds_ \cup Thousands}
           \cup {h \o <<"colon">> \o m : h \in Hours, m \in Minutes}
           \cup {w \o <<"comma">> \o p : w \in {<<"0">>, <<"2", "0">>, <<"1", "0", "0", "0">>}, p \in Places}
MCFigures == {[texts |-> << <<"word", S>> \o f \o <<S, "word">> >>, headings |-> {}] : f \in Figures}
             \cup {[texts |-> << <<"rozdzial", S>> \o Solid(f) >>, headings |-> {}] :
                      f \in {g \in Hundreds_ \cup Thousands : Len(Solid(g)) <= 4}}

MCLessons == MCFigures \cup Lesson(Speech, 5, {}) \cup Lesson(Quoted, 4, {}) \cup Lesson(Amounts, 3, {}) \cup Lesson(Titles_, 3, {1})
             \cup Lesson(Broken, 3, {}) \cup Lesson(Strange, 3, {}) \cup Lesson(Front_, 4, {})
MCLexicon == << [pattern |-> <<"Name">>, spoken |-> <<"ej">>, regex |-> FALSE, project |-> FALSE, priority |-> 100],
               [pattern |-> <<"Name">>, spoken |-> <<"di">>, regex |-> FALSE, project |-> TRUE, priority |-> 100],
               [pattern |-> <<"D", "C">>, spoken |-> <<"si">>, regex |-> TRUE, project |-> FALSE, priority |-> 50],
               [pattern |-> <<>>, spoken |-> <<"si">>, regex |-> TRUE, project |-> TRUE, priority |-> 10] >>
All == Pronounced \cup {"conversion_artifact", "dialogue_split", "speaker_gender", "skip"}
MCChoices == { All, {"dialogue_split", "conversion_artifact"}, Pronounced \cup {"skip"} }
=============================================================================
