------------------------------- MODULE Numbers -------------------------------
(***************************************************************************)
(* find/search.py: how a number that find looks for is found in a text.    *)
(* The value as typed is read, in each way that it may be meant; its forms *)
(* are matched at every place; and what is next to a match must not show   *)
(* that it is a part of a longer number, or negative.  And what keeps a    *)
(* path that would tell the value out of a report.                         *)
(*                                                                         *)
(* A text is a sequence of characters; a word is one.  The page writes its *)
(* numbers one by one, in some style, so that what they are is known.      *)
(***************************************************************************)
EXTENDS Naturals, Sequences, SequencesExt, FiniteSetsExt

CONSTANTS
  Values,  \* the values to look for: a number, as the user means it, and what is typed around it
  Numerals,\* the numbers a page may write: see IsNumeral
  Glues,   \* what it may write between two, and before the first
  Tails,   \* what it may end with
  MaxNumbers,\* bound
  MaxZeros   \* bound: of the zeros that a form may end with

Digits == {"0", "1", "2", "3", "4", "5", "6", "7", "8", "9"}
Currency == {"$", "kr"}       \* a symbol, a word
Words == {"x", "e", "kg", "kr"}
Spaces == {" "}
Dashes == {"-", "~"}          \* "~": U+2212
Signs == Dashes \cup {"+"}
SpaceJoiners == Spaces \cup {"'"}
Joiners == SpaceJoiners \cup {".", ","}

\* Its digits, with one separator between groups of three, or none, and a decimal one.
IsNumeral(n) ==
  /\ n.sign \in {"", "-", "~"} /\ n.int \in Seq(Digits) /\ n.frac \in Seq(Digits) /\ n.int # <<>>
  /\ n.group \in {"", ",", ".", " ", "'"} /\ n.point \in {".", ","} /\ n.group # n.point

ASSUME NumbersAssumption ==
  /\ \A n \in Numerals \cup {v.n : v \in Values} : IsNumeral(n)
  /\ MaxNumbers \in Nat /\ MaxZeros \in Nat

VARIABLES
  value,    \* what is looked for, of Values
  prepared, \* PreparedValue: it as typed, its forms, whether it has a minus sign and is whole
  text,     \* the page's text
  written,  \* the numbers in it, with what was written before each
  found,    \* what the search said: "unknown", "yes", "no"
  told      \* whether a path with this text would be dropped from a report

numberVars == <<value, prepared, text, written, found, told>>

-----------------------------------------------------------------------------
(* Reading a value.                                                         *)

PartsOf(s, sep) ==
  FoldLeft(LAMBDA parts, c : IF c = sep THEN Append(parts, <<>>)
                             ELSE Append(Front(parts), Append(Last(parts), c)), << <<>> >>, s)
Keeps(s, T) == SelectSeq(s, LAMBDA c : c \in T)
Without(s, T) == SelectSeq(s, LAMBDA c : c \notin T)
StripFront(s, T) == LET some == {i \in DOMAIN s : s[i] \notin T} IN IF some = {} THEN <<>> ELSE SubSeq(s, Min(some), Len(s))
Strip(s, T) == Reverse(StripFront(Reverse(StripFront(s, T)), T))

\* strip_currency: the sign, and the rest without one currency before and one after it.
Signed(s) ==
  IF s # <<>> /\ s[1] \in Signs THEN [sign |-> <<s[1]>>, rest |-> StripFront(Tail(s), Spaces)]
  ELSE [sign |-> <<>>, rest |-> s]
IsAffix(c, next) == c = "$" \/ (c = "kr" /\ next \in Digits \cup Spaces \cup Signs)
WithoutPrefix(c) ==
  LET s == c.rest
  IN  IF ~(Len(s) > 1 /\ IsAffix(s[1], s[2])) THEN c
      ELSE IF c.sign = <<>> THEN Signed(StripFront(Tail(s), Spaces)) ELSE [c EXCEPT !.rest = StripFront(Tail(s), Spaces)]
WithoutSuffix(c) ==
  LET s == c.rest
  IN  IF Len(s) > 1 /\ IsAffix(Last(s), s[Len(s) - 1]) /\ s[Len(s) - 1] \notin Signs THEN [c EXCEPT !.rest = Front(s)] ELSE c
StripCurrency(v) == WithoutSuffix(WithoutPrefix(Signed(Strip(v, Spaces))))

\* The digits of an integer in groups, or <<>>.
Joined(groups) ==
  IF Len(groups[1]) \in 1 .. 3 /\ \A i \in 2 .. Len(groups) : Len(groups[i]) = 3 THEN FlattenSeq(groups) ELSE <<>>
Grouped(s, sep) == Joined(PartsOf(s, sep))

\* A reading is the digits of the integer and of the fraction.
WithFraction(int, parts) == IF Len(parts) = 2 /\ int # <<>> THEN << <<int, parts[2]>> >> ELSE <<>>
Ambiguous(int, frac) ==
  IF ~(Len(frac) = 3 /\ Len(int) \in 1 .. 3) THEN << <<int, frac>> >>
  ELSE IF frac = <<"0", "0", "0">> THEN << <<int \o frac, <<>> >> >> ELSE << <<int \o frac, <<>> >>, <<int, frac>> >>
Integer(int) == IF int = <<>> THEN <<>> ELSE << <<int, <<>> >> >>
Separated(seps, parts) ==
  CASE Cardinality(ToSet(seps)) = 2 -> WithFraction(Grouped(parts[1], IF Last(seps) = "." THEN "," ELSE "."), parts)
    [] Cardinality(ToSet(seps)) = 1 -> IF Len(seps) > 1 THEN Integer(Joined(parts)) ELSE Ambiguous(parts[1], parts[2])
    [] OTHER -> Integer(parts[1])
Ways(s, seps) ==
  IF s = <<>> \/ ToSet(s) \ (Digits \cup {".", ","}) # {} \/ s[1] \notin Digits \/ Last(s) \notin Digits THEN <<>>
  ELSE Separated(seps, IF seps = <<>> THEN <<s>> ELSE PartsOf(s, Last(seps)))

\* _number_readings: the sign and the readings, none if the value is no number.
Readings(s) ==
  LET signed == s # <<>> /\ s[1] \in Signs
      digits == IF signed THEN Tail(s) ELSE s
  IN  [minus |-> signed /\ s[1] \in Dashes, ways |-> Ways(digits, Keeps(digits, {".", ","}))]
AsTyped(core) == Readings(Without(core.sign \o core.rest, SpaceJoiners))
NumberReadings(v) == AsTyped(StripCurrency(v))

-----------------------------------------------------------------------------
(* Its forms.  A form is a sequence of sets of characters.                  *)

Singles(s) == [i \in DOMAIN s |-> {s[i]}]
Zeros(n) == [i \in 1 .. n |-> {"0"}]
StripZeros(frac) == Reverse(StripFront(Reverse(frac), {"0"}))

\* The digits in groups of three, each but the first after one of seps.
InGroups(digits, seps) ==
  FlattenSeq([i \in DOMAIN digits |->
    IF i > 1 /\ (Len(digits) - i + 1) % 3 = 0 THEN <<seps, {digits[i]}>> ELSE << {digits[i]} >>])
\* One separator per number, and another before the fraction.
IntForms(digits) ==
  <<[int |-> Singles(digits), point |-> {".", ","}]>>
    \o IF Len(digits) <= 3 THEN <<>>
       ELSE <<[int |-> InGroups(digits, {","}), point |-> {"."}],
              [int |-> InGroups(digits, {"."}), point |-> {","}],
              [int |-> InGroups(digits, SpaceJoiners), point |-> {".", ","}]>>

\* How many zeros may follow the fraction: never so that it has three digits.
MoreZeros(frac) ==
  CASE frac = <<>> -> {1, 2} \cup 4 .. MaxZeros
    [] Len(frac) = 1 -> {0, 1} \cup 3 .. MaxZeros
    [] Len(frac) = 2 -> {0} \cup 2 .. MaxZeros
    [] OTHER -> 0 .. MaxZeros
\* The forms of one reading, those with most digits first.
FormsOf(form, frac) ==
  LET counts == SelectSeq([i \in 1 .. MaxZeros + 1 |-> MaxZeros + 1 - i], LAMBDA k : k \in MoreZeros(frac))
  IN  [i \in DOMAIN counts |-> form.int \o <<form.point>> \o Singles(frac) \o Zeros(counts[i])]
      \o IF frac = <<>> THEN <<form.int>> ELSE <<>>
Forms(r) ==
  LET Of(way) == LET forms == IntForms(way[1])
                 IN  FlattenSeq([j \in DOMAIN forms |-> FormsOf(forms[j], StripZeros(way[2]))])
      bare == FlattenSeq([i \in DOMAIN r.ways |-> Of(r.ways[i])])
      Behind(prefix) == [i \in DOMAIN bare |-> prefix \o bare[i]]
  IN  IF r.minus THEN Behind(<<Dashes, Spaces>>) \o Behind(<<Dashes>>) ELSE bare
WholeNumber(r) == \A i \in DOMAIN r.ways : StripZeros(r.ways[i][2]) = <<>>

\* The privacy matcher: no sign, no leading zeros, any separators.
LooseInt(digits) == LET d == StripFront(digits, {"0"}) IN IF d = <<>> THEN <<"0">> ELSE d
LooseForms(r) ==
  LET Body(d, mask) == FlattenSeq([i \in DOMAIN d |-> IF i \in mask THEN <<Joiners, {d[i]}>> ELSE << {d[i]} >>])
      Breaks(d) == {i \in 2 .. Len(d) : (Len(d) - i + 1) % 3 = 0}
      Of(d, frac) == UNION {ToSet(FormsOf([int |-> Body(d, mask), point |-> {".", ","}], frac)) : mask \in SUBSET Breaks(d)}
  IN  UNION {Of(LooseInt(r.ways[k][1]), StripZeros(r.ways[k][2])) : k \in DOMAIN r.ways}

\* PreparedValue.of
PreparedOf(typed, r) == [typed |-> typed, minus |-> r.minus, whole |-> WholeNumber(r), forms |-> Forms(r), loose |-> LooseForms(r)]
Prepared(typed) == PreparedOf(typed, NumberReadings(typed))

-----------------------------------------------------------------------------
(* What is next to a match.  A match is a pair of places: it starts at the  *)
(* first and ends before the second.                                        *)

Is(h, i, T) == i \in DOMAIN h /\ h[i] \in T
Fits(form, h, s) == s + Len(form) - 1 <= Len(h) /\ \A i \in DOMAIN form : h[s + i - 1] \in form[i]

\* The digits that end at i, that start at i.
RunBefore(h, i) == Cardinality({j \in 1 .. i : \A k \in j .. i : h[k] \in Digits})
RunAfter(h, i) == Cardinality({j \in i .. Len(h) : \A k \in i .. j : h[k] \in Digits})

\* A group may follow any number of up to three digits (a mutant).
JoinsNumberLoosely(h, i) ==
  LET left == RunBefore(h, i - 1)
      right == RunAfter(h, i + 1)
  IN  h[i] = "." \/ (left <= 3 /\ (right = 3 \/ (h[i] = "," /\ right < 3)))
\* _joins_number: the joiner at i, between two digits, continues one number.
JoinsNumber(h, i) ==
  LET left == RunBefore(h, i - 1)
      right == RunAfter(h, i + 1)
      a == i - left - 1  \* what is before the run on the left, and after the one on the right
      b == i + right + 1
      before == IF a > 1 /\ Is(h, a - 1, Digits) THEN h[a] ELSE "none"
      grouped == before \in {".", ","} \/ (before \in SpaceJoiners /\ left = 3)
      Group == IF grouped THEN left = 3 ELSE left <= 3
  IN  CASE h[i] = "." -> TRUE
        [] h[i] \in SpaceJoiners -> right = 3 /\ Group
        [] h[i] = "," ->
             \/ right = 3 /\ Group
             \/ right < 3 /\ ~(Is(h, b, {".", ","}) /\ Is(h, b + 1, Digits)) /\ (grouped => left = 3 /\ before # ",")

EdgesOk(h, s, e, left, right) ==
  /\ left => ~Is(h, s - 1, Digits)
             /\ ~(h[s] \in Digits /\ Is(h, s - 1, Joiners) /\ Is(h, s - 2, Digits) /\ JoinsNumber(h, s - 1))
  /\ right => ~Is(h, e, Digits)
              /\ ~(Is(h, e, Joiners) /\ Is(h, e + 1, Digits) /\ JoinsNumber(h, e))

\* _LEFT_BOUNDARY, _LEFT_DIGIT, _LEFT_SIGN; _RIGHT_BOUNDARY, _RIGHT_DIGIT: no digit next to
\* the match, nor one beyond a joiner of these.
LeftOf(h, s, joiners) == ~Is(h, s - 1, Digits) /\ ~(Is(h, s - 1, joiners) /\ Is(h, s - 2, Digits))
RightOf(h, e, joiners) == ~Is(h, e, Digits) /\ ~(Is(h, e, joiners) /\ Is(h, e + 1, Digits))

MinusBefore(h, s) ==
  \/ Is(h, s - 1, {"~"})
  \/ Is(h, s - 1, {"-", "+"}) /\ Is(h, s - 2, {"e"}) /\ Is(h, s - 3, Digits)
  \/ Is(h, s - 1, {"-"}) /\ ~Is(h, s - 2, Digits \cup Words)
\* A hyphen after a word or a number is no sign.
SignNotJoined(h, s) == ~(h[s] \in {"-", "+"} /\ Is(h, s - 1, Digits \cup Words))

CurrencyNextTo(h, s, e) ==
  LET before == StripFront(Reverse(SubSeq(h, 1, s - 1)), Spaces)
      after == StripFront(SubSeq(h, e, Len(h)), Spaces)
  IN  \/ before # <<>> /\ before[1] \in Currency
      \/ after # <<>> /\ (after[1] \in Currency \/ (Len(after) > 1 /\ after[1] = "," /\ after[2] = "-"))
\* A single thousands dot is as often a decimal point.
SingleDotGroup(m) ==
  LET n == Without(m, Dashes \cup Spaces)
  IN  Len(n) \in 5 .. 7 /\ Keeps(n, Joiners) = <<".">> /\ n[Len(n) - 3] = "."
DotGroupInContext(h, s, e) == SingleDotGroup(SubSeq(h, s, e - 1)) => CurrencyNextTo(h, s, e)

Accepts(h, s, e) ==
  /\ IF prepared.minus THEN SignNotJoined(h, s) ELSE ~MinusBefore(h, s)
  /\ prepared.whole => DotGroupInContext(h, s, e)

-----------------------------------------------------------------------------
(* The search.                                                              *)

\* The first of the forms that fits at s with these edges: where its match ends, or 0.
MatchAt(h, s, left, right) ==
  LET forms == prepared.forms
      fit == {i \in DOMAIN forms : Fits(forms[i], h, s) /\ LeftOf(h, s, left) /\ RightOf(h, s + Len(forms[i]), right)}
  IN  IF fit = {} THEN 0 ELSE s + Len(forms[Min(fit)])

\* NumberMatcher.search: the quick match, else the edges are looked at.
NumberFound(h) ==
  \E s \in DOMAIN h, quick \in BOOLEAN :
    \E e \in {IF quick THEN MatchAt(h, s, Joiners, Joiners) ELSE MatchAt(h, s, IF prepared.minus THEN {} ELSE {"."}, {"."})} :
      e # 0 /\ (~quick => EdgesOk(h, s, e, TRUE, TRUE)) /\ Accepts(h, s, e)

\* Needle.found: the value as it was typed.
NeedleFound(v, h) ==
  LET left == v[1] \in Digits
      right == Last(v) \in Digits
      signed == Len(v) > 1 /\ v[1] \in {"-", "+"} /\ v[2] \in Digits
  IN  \E s \in DOMAIN h :
        /\ Fits(Singles(v), h, s) /\ EdgesOk(h, s, s + Len(v), left, right)
        /\ left => ~MinusBefore(h, s)
        /\ signed => SignNotJoined(h, s)

Found(h) == NeedleFound(prepared.typed, h) \/ NumberFound(h)

\* _form_leaks: the value as typed, or a loose form with no digit at its edges.
Leaks(h) ==
  \E s \in DOMAIN h :
    \/ Fits(Singles(prepared.typed), h, s)
    \/ \E form \in prepared.loose : Fits(form, h, s) /\ LeftOf(h, s, {}) /\ RightOf(h, s + Len(form), {})

-----------------------------------------------------------------------------
(* The page.                                                                *)

Spell(n) ==
  LET d == n.int
      int == FlattenSeq([i \in DOMAIN d |-> IF n.group # "" /\ i > 1 /\ (Len(d) - i + 1) % 3 = 0 THEN <<n.group, d[i]>> ELSE <<d[i]>>])
  IN  (IF n.sign = "" THEN <<>> ELSE <<n.sign>>) \o int \o (IF n.frac = <<>> THEN <<>> ELSE <<n.point>> \o n.frac)

Typed(v) == v.before \o Spell(v.n) \o v.after

NoValue == [typed |-> <<>>, minus |-> FALSE, whole |-> FALSE, forms |-> <<>>, loose |-> {}]
InitNumbers == prepared = NoValue /\ text = <<>> /\ written = <<>> /\ found = "unknown" /\ told = FALSE

\* Before the page is loaded.
PreparesValue ==
  /\ prepared = NoValue /\ prepared' = Prepared(Typed(value))
  /\ UNCHANGED <<value, text, written, found, told>>

WritesNumber(n, glue) ==
  /\ prepared # NoValue /\ found = "unknown" /\ Len(written) < MaxNumbers /\ (text # <<>> => glue # <<>>)
  /\ text' = text \o glue \o Spell(n)
  /\ written' = Append(written, [n |-> n, at |-> Len(text') - Len(Spell(n)) + IF n.sign = "" THEN 1 ELSE 2, to |-> Len(text')])
  /\ UNCHANGED <<value, prepared, found, told>>
\* The page ends, and is searched; its text as a path goes into the report or not.
Searches(tail) ==
  /\ found = "unknown" /\ written # <<>>
  /\ text' = text \o tail
  /\ found' = IF Found(text') THEN "yes" ELSE "no"
  /\ told' = ~Leaks(text')
  /\ UNCHANGED <<value, prepared, written>>

NextNumbers ==
  \/ PreparesValue
  \/ \E n \in Numerals, glue \in Glues : WritesNumber(n, glue)
  \/ \E tail \in Tails : Searches(tail)

-----------------------------------------------------------------------------
(* Properties.                                                              *)

\* What a number may mean: what it does, and, if it has one separator with three digits
\* behind it, what it would with that separator as the other kind.
Truth(minus, n) == <<minus, n.int, StripZeros(n.frac)>>
Meanings(minus, n) ==
  LET seps == Keeps(Spell(n), {".", ","})
      all == n.int \o n.frac
      head == Len(all) - 3
  IN  {Truth(minus, n)} \cup
      IF Len(seps) # 1 \/ head \notin 1 .. 3 THEN {}
      ELSE IF n.frac = <<>> THEN {<<minus, SubSeq(all, 1, head), StripZeros(SubSeq(all, head + 1, Len(all)))>>}
      ELSE IF Len(n.frac) = 3 THEN {<<minus, all, <<>> >>} ELSE {}

\* On the page a hyphen is a sign unless a word or a number is right before it; what is
\* behind an e is an exponent and no number.
Negative(w) ==
  /\ Is(text, w.at - 1, Dashes)
  /\ text[w.at - 1] = "-" => ~Is(text, w.at - 2, Digits \cup Words)
Exponent(w) == Is(text, w.at - 1, {"-", "+"}) /\ Is(text, w.at - 2, {"e"}) /\ Is(text, w.at - 3, Digits)
Minus(v) == v.n.sign # ""

\* A number can not be taken for one with what follows it, or the start of it: not for
\* one with groups of three, of any separators, nor for one with a fraction, of one or two
\* digits after a comma.  Nor are there commas in a number of a list with commas.
IsInteger(s) ==
  LET even == [i \in DOMAIN s |-> IF s[i] \in Joiners THEN "," ELSE s[i]]
  IN  ToSet(s) \subseteq Digits \cup Joiners /\ (ToSet(s) \subseteq Digits \/ Grouped(even, ",") # <<>>)
LooksLikeOne(s) ==
  \/ IsInteger(s)
  \/ \E i \in 2 .. Len(s) - 1 :
       /\ s[i] \in {".", ","} /\ IsInteger(SubSeq(s, 1, i - 1)) /\ ToSet(SubSeq(s, i + 1, Len(s))) \subseteq Digits
       /\ s[i] = "," => Len(s) - i <= 2
Apart ==
  /\ \A i \in DOMAIN written : Contains(Spell(written[i].n), ",") =>
       ~(Is(text, written[i].to + 1, {","}) /\ Is(text, written[i].to + 2, Digits))
  /\ \A i, j \in DOMAIN written : \A end \in written[j].at .. written[j].to :
       i < j /\ ~Is(text, end + 1, Digits) => ~LooksLikeOne(SubSeq(text, written[i].at, end))

\* Three digits of a fraction that ends in zeros look like thousands; a single thousands
\* dot is a decimal point unless a currency is near or the value may be a fraction too; and
\* a sign right behind a digit takes something away.
IsShown(w) ==
  /\ Negative(w) => ~Is(text, w.at - 2, Digits)
  /\ Len(w.n.frac) = 3 => Last(w.n.frac) # "0"
  /\ w.n.frac = <<>> /\ w.n.group = "." /\ Len(w.n.int) \in 4 .. 6 =>
       CurrencyNextTo(text, w.at, w.to + 1) \/ ~prepared.whole

\* What the search finds is there: the page has a number, not only a part of one, that the
\* value may mean, with its sign.
FoundIsThere ==
  found = "yes" /\ Apart =>
    \E i \in DOMAIN written :
      LET w == written[i]
      IN  ~Exponent(w) /\ Meanings(Negative(w), w.n) \cap Meanings(Minus(value), value.n) # {}
\* And what is there is found, in whatever style it and the value are written.
ThereIsFound ==
  found = "no" /\ Apart /\ (Len(value.n.frac) = 3 => Last(value.n.frac) # "0") =>
    ~\E i \in DOMAIN written :
      LET w == written[i]
      IN  ~Exponent(w) /\ IsShown(w) /\ Truth(Negative(w), w.n) = Truth(Minus(value), value.n)
\* A text in which the value would be found is not told in a report, unless the value
\* has leading zeros.
PathsTellNothing == found = "yes" /\ value.n.int[1] # "0" => ~told

\* What find says of a number.
NumbersAreRead == FoundIsThere /\ ThereIsFound /\ PathsTellNothing
=============================================================================
