------------------------------ MODULE Numerals ------------------------------
(***************************************************************************)
(* Polish number words (engine/src/praelector/text/numerals_pl.py, cardinal *)
(* to _format_roman), as sequences of words.  An ordinal is given by its   *)
(* masculine words and its gender apart; "-tysieczny" is one word here as  *)
(* its stem and the ending, two words.                                     *)
(***************************************************************************)
EXTENDS Integers, Sequences, SequencesExt, FiniteSetsExt

Units == <<"zero", "jeden", "dwa", "trzy", "cztery", "piec", "szesc", "siedem", "osiem", "dziewiec">>
Teens == <<"dziesiec", "jedenascie", "dwanascie", "trzynascie", "czternascie", "pietnascie",
           "szesnascie", "siedemnascie", "osiemnascie", "dziewietnascie">>
Tens  == <<"-", "-", "dwadziescia", "trzydziesci", "czterdziesci", "piecdziesiat",
           "szescdziesiat", "siedemdziesiat", "osiemdziesiat", "dziewiecdziesiat">>
Hundreds == <<"-", "sto", "dwiescie", "trzysta", "czterysta", "piecset", "szescset",
              "siedemset", "osiemset", "dziewiecset">>
OrdinalsLow == <<"zerowy", "pierwszy", "drugi", "trzeci", "czwarty", "piaty", "szosty", "siodmy",
                 "osmy", "dziewiaty", "dziesiaty", "jedenasty", "dwunasty", "trzynasty", "czternasty",
                 "pietnasty", "szesnasty", "siedemnasty", "osiemnasty", "dziewietnasty">>
OrdinalTens == <<"-", "-", "dwudziesty", "trzydziesty", "czterdziesty", "piecdziesiaty",
                 "szescdziesiaty", "siedemdziesiaty", "osiemdziesiaty", "dziewiecdziesiaty">>
OrdinalHundreds == <<"-", "setny", "dwusetny", "trzechsetny", "czterechsetny", "piecsetny",
                     "szescsetny", "siedemsetny", "osiemsetny", "dziewiecsetny">>
UnitStems == <<"-", "jedno", "dwu", "trzy", "cztero", "piecio", "szescio", "siedmio", "osmio", "dziewiecio">>
TeenStems == <<"dziesiecio", "jedenasto", "dwunasto", "trzynasto", "czternasto", "pietnasto",
               "szesnasto", "siedemnasto", "osiemnasto", "dziewietnasto">>
TenStems  == <<"-", "-", "dwudziesto", "trzydziesto", "czterdziesto", "piecdziesiecio",
               "szescdziesiecio", "siedemdziesiecio", "osiemdziesiecio", "dziewiecdziesiecio">>
HundredStems == <<"-", "stu", "dwustu", "trzystu", "czterystu", "piecset", "szescset",
                  "siedemset", "osiemset", "dziewiecset">>
Fractions == << <<"dziesiata", "dziesiate", "dziesiatych">>, <<"setna", "setne", "setnych">>,
                <<"tysieczna", "tysieczne", "tysiecznych">> >>
Scales == << [size |-> 1000,       forms |-> <<"tysiac", "tysiace", "tysiecy">>],
             [size |-> 1000000,    forms |-> <<"milion", "miliony", "milionow">>],
             [size |-> 1000000000, forms |-> <<"miliard", "miliardy", "miliardow">>] >>
RomanValue  == [I |-> 1, V |-> 5, X |-> 10, L |-> 50, C |-> 100, D |-> 500, M |-> 1000]
RomanFormat == << <<1000, <<"M">>>>, <<900, <<"C", "M">>>>, <<500, <<"D">>>>, <<400, <<"C", "D">>>>,
                  <<100, <<"C">>>>, <<90, <<"X", "C">>>>, <<50, <<"L">>>>, <<40, <<"X", "L">>>>,
                  <<10, <<"X">>>>, <<9, <<"I", "X">>>>, <<5, <<"V">>>>, <<4, <<"I", "V">>>>, <<1, <<"I">>>> >>

NumberWords ==
    (UNION {ToSet(s) : s \in {Units, Teens, Tens, Hundreds, OrdinalsLow, OrdinalTens, OrdinalHundreds, UnitStems,
                              TeenStems, TenStems, HundredStems, Fractions[1], Fractions[2], Fractions[3]}})
    \cup (UNION {ToSet(Scales[i].forms) : i \in 1..3})
    \cup {"jedna", "dwie", "przecinek", "i", "tysieczny"}

-----------------------------------------------------------------------------
\* _noun()
Noun(count, forms) ==
    LET last == IF count % 100 \in 10..20 THEN 0 ELSE count % 10
    IN  CASE last = 1 -> forms[1] [] last \in 2..4 -> forms[2] [] OTHER -> forms[3]

\* The largest scale a number of 1000 or more reaches.
ScaleOf(n) == Scales[Max({i \in 1..3 : Scales[i].size <= n})]

\* cardinal() and _scaled()
cardinal[n \in Nat] ==
    LET then(head, rest) == IF rest = 0 THEN head ELSE head \o cardinal[rest]
        s == ScaleOf(n)
        count == n \div s.size
    IN  CASE n < 10   -> <<Units[n + 1]>>
          [] n \in 10..19 -> <<Teens[n - 9]>>
          [] n \in 20..99 -> then(<<Tens[n \div 10 + 1]>>, n % 10)
          [] n \in 100..999 -> then(<<Hundreds[n \div 100 + 1]>>, n % 100)
          [] OTHER -> then(IF count = 1 THEN <<s.forms[1]>>
                           ELSE Append(cardinal[count], Noun(count, s.forms)), n % s.size)

\* cardinal_feminine()
CardinalFeminine(n) ==
    LET w == cardinal[n]
        ends(d) == n % 10 = d /\ n % 100 # 10 + d
    IN  CASE ends(1) /\ Last(w) = "jeden" -> Append(Front(w), "jedna")
          [] ends(2) /\ Last(w) = "dwa"   -> Append(Front(w), "dwie")
          [] OTHER -> w

\* _compound_stem()
stem[n \in 0..999] ==
    CASE n < 10 -> <<UnitStems[n + 1]>>
      [] n \in 10..19 -> <<TeenStems[n - 9]>>
      [] n \in 20..99 -> <<TenStems[n \div 10 + 1]>> \o (IF n % 10 = 0 THEN <<>> ELSE stem[n % 10])
      [] OTHER -> <<HundredStems[n \div 100 + 1]>> \o (IF n % 100 = 0 THEN <<>> ELSE stem[n % 100])

\* Mutant: of hundreds of thousands nothing is said behind the hundreds.
ExactThousandsShort(k) ==
    (CASE k = 1 -> <<>> [] k \in 2..99 -> stem[k] [] OTHER -> <<HundredStems[k \div 100 + 1]>>) \o <<"tysieczny">>

\* _exact_thousands()
ExactThousands(k) == (IF k = 1 THEN <<>> ELSE stem[k]) \o <<"tysieczny">>

\* _thousand_phrase()
ThousandPhrase(k) == IF k = 1 THEN <<"tysiac">> ELSE Append(cardinal[k], Noun(k, Scales[1].forms))

\* Mutant: the hundreds before a remainder are ordinal too, and the remainder is lost.
OrdinalCutShort(n) ==
    IF n \in 100..999 THEN <<OrdinalHundreds[n \div 100 + 1]>>
    ELSE IF n < 20 THEN <<OrdinalsLow[n + 1]>> ELSE <<OrdinalTens[(n % 100) \div 10 + 1]>>

ordinalWords[n \in 0..999999] ==
    CASE n < 20 -> <<OrdinalsLow[n + 1]>>
      [] n \in 20..99 -> <<OrdinalTens[n \div 10 + 1]>> \o (IF n % 10 = 0 THEN <<>> ELSE ordinalWords[n % 10])
      [] n \in 100..999 -> IF n % 100 = 0 THEN <<OrdinalHundreds[n \div 100 + 1]>>
                           ELSE <<Hundreds[n \div 100 + 1]>> \o ordinalWords[n % 100]
      [] OTHER -> IF n % 1000 = 0 THEN ExactThousands(n \div 1000)
                  ELSE ThousandPhrase(n \div 1000) \o ordinalWords[n % 1000]

\* ordinal()
Ordinal(n) == ordinalWords[n]

\* _paucal(): which of three forms goes with a number.
Paucal(n) == CASE n % 10 = 1 /\ n % 100 # 11 -> 1
               [] n % 10 \in 2..4 /\ n % 100 \notin 12..14 -> 2
               [] OTHER -> 3

\* The number a sequence of digits writes.
Digit == [d \in {"0", "1", "2", "3", "5"} |-> CASE d = "0" -> 0 [] d = "1" -> 1 [] d = "2" -> 2 [] d = "3" -> 3 [] OTHER -> 5]
Number(ds) == FoldLeft(LAMBDA n, d : 10 * n + Digit[d], 0, ds)

\* decimal_phrase()
DecimalPhrase(whole, places) ==
    IF Len(places) > 3
    THEN cardinal[whole] \o <<"przecinek">> \o FlattenSeq([i \in 1..Len(places) |-> cardinal[Digit[places[i]]]])
    ELSE cardinal[whole] \o <<"i">> \o CardinalFeminine(Number(places))
             \o <<Fractions[Len(places)][Paucal(Number(places))]>>

\* clock_phrase(): the hour is an ordinal, feminine and locative.
ClockPhrase(hour, minute) == Ordinal(hour) \o (IF minute = 0 THEN <<>> ELSE cardinal[minute])

\* _format_roman()
FormatRoman(n) ==
    LET step(a, f) == LET k == a.left \div f[1]
                      IN [left |-> a.left - k * f[1], text |-> a.text \o FlattenSeq([i \in 1..k |-> f[2]])]
    IN  FoldLeft(step, [left |-> n, text |-> <<>>], RomanFormat).text

\* parse_roman(): the value of a numeral in its canonical form, or 0 for none.  What the
\* loop of the code refuses on the way is not canonical either.
ParseRoman(token) ==
    LET v(i) == RomanValue[token[i]]
        sign(i) == IF i < Len(token) /\ v(i) < v(i + 1) THEN -v(i) ELSE v(i)
        total == FoldLeft(LAMBDA s, i : s + sign(i), 0, [i \in 1..Len(token) |-> i])
    IN  IF total \in 1..3999 /\ FormatRoman(total) = token THEN total ELSE 0

-----------------------------------------------------------------------------
(* What a listener makes of number words: the reference they are checked    *)
(* against.  Words of a group add up, and a scale word multiplies its group.*)

Index(seq, w) == SelectInSeq(seq, LAMBDA x : x = w) - 1
Tables == << <<Units, 1>>, <<Tens, 10>>, <<Hundreds, 100>>, <<OrdinalsLow, 1>>, <<OrdinalTens, 10>>,
             <<OrdinalHundreds, 100>>, <<UnitStems, 1>>, <<TenStems, 10>>, <<HundredStems, 100>> >>

WordValue(w) ==
    CASE w \in ToSet(Teens) -> Index(Teens, w) + 10
      [] w \in ToSet(TeenStems) -> Index(TeenStems, w) + 10
      [] w \in {"jedna", "dwie"} -> IF w = "jedna" THEN 1 ELSE 2
      [] OTHER -> LET t == Tables[Min({i \in 1..Len(Tables) : w \in ToSet(Tables[i][1])})]
                  IN  Index(t[1], w) * t[2]

ScaleValue(w) == IF w = "tysieczny" THEN 1000
                 ELSE Scales[Min({i \in 1..3 : w \in ToSet(Scales[i].forms)})].size
IsScale(w) == w = "tysieczny" \/ \E i \in 1..3 : w \in ToSet(Scales[i].forms)

Heard(words) ==
    LET step(a, w) == IF IsScale(w)
                      THEN [sum |-> a.sum + Max({1, a.group}) * ScaleValue(w), group |-> 0]
                      ELSE [a EXCEPT !.group = @ + WordValue(w)]
        end == FoldLeft(step, [sum |-> 0, group |-> 0], words)
    IN  end.sum + end.group
=============================================================================
