----------------------------- MODULE SemverText -----------------------------
(***************************************************************************)
(* The texts of require('semver') (semver.js): the regular expressions of  *)
(* versions and ranges, and the rewriting that turns the text of a range   *)
(* into comparators, strict and loose.  A regular expression is a function *)
(* from a place in the text to the matches that begin there, in the order  *)
(* a backtracking matcher tries them; a match is the place where it ends   *)
(* and its capturing groups, "" for one that took no part.                 *)
(***************************************************************************)
EXTENDS Integers, Sequences, SequencesExt, TLC

S == INSTANCE Semver

Char(s, i) == SubSeq(s, i, i)
Digits == {"0", "1", "2", "3", "4", "5", "6", "7", "8", "9"}
Marks  == {"-", ".", "+", "*", "<", ">", "=", "~", "^", "|", " "}
Letters(s) == {Char(s, i) : i \in 1..Len(s)} \ (Digits \cup Marks)

\* The sequence f: TLC keeps the value of a concatenation, and would apply f anew each time.
Table(f) == f \o << >>

One(s, chars) ==
  Table([i \in 1..(Len(s) + 1) |->
     IF i <= Len(s) /\ Char(s, i) \in chars THEN <<[to |-> i + 1, groups |-> << >>]>> ELSE << >>])
Then(p, q) ==
  LET after(m) == Table([l \in DOMAIN q[m.to] |->
                           [to |-> q[m.to][l].to, groups |-> m.groups \o q[m.to][l].groups]])
  IN Table([i \in DOMAIN p |-> Table(FlattenSeq([k \in DOMAIN p[i] |-> after(p[i][k])]))])
Either(p, q) == Table([i \in DOMAIN p |-> p[i] \o q[i]])
\* p?, where p has n groups.
Optional(p, n) ==
  LET none == Table([k \in 1..n |-> ""])
  IN Table([i \in DOMAIN p |-> Append(p[i], [to |-> i, groups |-> none])])
Many(p) ==
  LET from[i \in DOMAIN p] ==
        FlattenSeq([k \in DOMAIN p[i] |-> from[p[i][k].to]]) \o <<[to |-> i, groups |-> << >>]>>
  IN Table(from)
Group(s, p) ==
  Table([i \in DOMAIN p |-> Table([k \in DOMAIN p[i] |->
     [to |-> p[i][k].to, groups |-> <<SubSeq(s, i, p[i][k].to - 1)>> \o p[i][k].groups]])])

Spaces(s) == Many(One(s, {" "}))

Numeric(s, loose) ==
  LET digits == Many(One(s, Digits))
  IN IF loose THEN Then(One(s, Digits), digits)
     ELSE Either(One(s, {"0"}), Then(One(s, Digits \ {"0"}), digits))
NonNumeric(s) ==
  LET letters == Letters(s) \cup {"-"}
  IN Then(Many(One(s, Digits)), Then(One(s, letters), Many(One(s, letters \cup Digits))))
Dotted(s, p) == Then(p, Many(Then(One(s, {"."}), p)))

\* A prerelease and build metadata, either of which may be missing; loose mode does not
\* ask for the hyphen.
Labels(s, loose) ==
  LET word   == One(s, Digits \cup Letters(s) \cup {"-"})
      hyphen == One(s, {"-"})
      pre    == Group(s, Dotted(s, Either(Numeric(s, loose), NonNumeric(s))))
  IN Then(Optional(Then(IF loose THEN Optional(hyphen, 0) ELSE hyphen, pre), 1),
          Optional(Then(One(s, {"+"}), Group(s, Dotted(s, Then(word, Many(word))))), 1))

\* major, minor, patch, prerelease, build.
Full(s, loose) ==
  LET number == Group(s, Numeric(s, loose))
      point  == One(s, {"."})
  IN Then(IF loose THEN Many(One(s, {"v", "=", " "})) ELSE Optional(One(s, {"v"}), 0),
       Then(number, Then(point, Then(number, Then(point, Then(number, Labels(s, loose)))))))

XRangePlain(s, loose) ==
  LET part  == Group(s, Either(Numeric(s, loose), One(s, {"x", "X", "*"})))
      point == One(s, {"."})
  IN Then(Many(One(s, {"v", "=", " "})),
       Then(part, Optional(Then(point, Then(part,
                    Optional(Then(point, Then(part, Labels(s, loose))), 3))), 4)))

GtLt(s) == Group(s, Then(Optional(One(s, {"<", ">"}), 0), Optional(One(s, {"="}), 0)))
XRange(s, loose) == Then(GtLt(s), Then(Spaces(s), XRangePlain(s, loose)))
Tilde(s) == Then(One(s, {"~"}), Optional(One(s, {">"}), 0))
Caret(s) == One(s, {"^"})
\* The operator, the version and its parts.
ComparatorText(s, loose) == Then(GtLt(s), Then(Spaces(s), Group(s, Full(s, loose))))
ComparatorTrim(s) ==
  Then(Group(s, Spaces(s)), Then(GtLt(s), Then(Spaces(s),
    Group(s, Either(Full(s, TRUE), XRangePlain(s, FALSE))))))
\* Spaces around a tilde or a caret.
Trimmed(s, mark) == Then(Group(s, Spaces(s)), Then(mark, Then(One(s, {" "}), Spaces(s))))
HyphenRange(s, loose) ==
  LET side == Group(s, XRangePlain(s, loose))
      gap  == Then(One(s, {" "}), Spaces(s))
  IN Then(Spaces(s), Then(side, Then(gap, Then(One(s, {"-"}), Then(gap, Then(side, Spaces(s)))))))
Star(s) ==
  Then(Optional(One(s, {"<", ">"}), 0), Then(Optional(One(s, {"="}), 0),
    Then(Spaces(s), One(s, {"*"}))))

\* ^p$ : the groups of the first match of the whole text, << >> if there is none.
Groups(s, p) ==
  LET whole == SelectSeq(p[1], LAMBDA m : m.to = Len(s) + 1)
  IN IF whole = << >> THEN << >> ELSE whole[1].groups
Matches(s, p) == \E k \in DOMAIN p[1] : p[1][k].to = Len(s) + 1

-----------------------------------------------------------------------------
(* String's split, join, trim and replace.                                 *)

Join(texts, separator) ==
  FoldLeftDomain(LAMBDA text, i : text \o (IF i = 1 THEN "" ELSE separator) \o texts[i], "", texts)

RECURSIVE SplitFrom(_, _, _, _)
SplitFrom(s, p, from, i) ==
  IF i > Len(s) THEN <<SubSeq(s, from, Len(s))>>
  ELSE IF p[i] # << >>
       THEN <<SubSeq(s, from, i - 1)>> \o SplitFrom(s, p, p[i][1].to, p[i][1].to)
       ELSE SplitFrom(s, p, from, i + 1)
Split(s, p) == SplitFrom(s, p, 1, 1)
Words(s) == Split(s, Then(One(s, {" "}), Spaces(s)))

Trim(s) ==
  LET kept == {i \in 1..Len(s) : Char(s, i) # " "}
  IN IF kept = {} THEN ""
     ELSE SubSeq(s, CHOOSE i \in kept : \A j \in kept : i <= j, CHOOSE i \in kept : \A j \in kept : j <= i)

\* replace() of every match, or of the first, by its first n groups and a suffix.
RECURSIVE ReplaceFrom(_, _, _, _, _, _)
ReplaceFrom(s, p, n, suffix, all, i) ==
  IF i > Len(s) THEN ""
  ELSE IF p[i] = << >> THEN Char(s, i) \o ReplaceFrom(s, p, n, suffix, all, i + 1)
  ELSE LET m == p[i][1]
       IN Join(SubSeq(m.groups, 1, n), "") \o suffix
          \o (IF all THEN ReplaceFrom(s, p, n, suffix, all, m.to) ELSE SubSeq(s, m.to, Len(s)))
Replace(s, p, n, suffix) == ReplaceFrom(s, p, n, suffix, TRUE, 1)

-----------------------------------------------------------------------------
(* Versions.                                                               *)

Number(text) ==
  FoldLeftDomain(LAMBDA n, i : 10 * n + (CHOOSE d \in 0..9 : ToString(d) = Char(text, i)), 0,
                 [i \in 1..Len(text) |-> Char(text, i)])
IsNumber(text) == \A i \in 1..Len(text) : Char(text, i) \in Digits
Identifier(text) == IF IsNumber(text) THEN ToString(Number(text)) ELSE text

\* SemVer's constructor: major, minor, patch and the identifiers of the prerelease and of
\* the build, or << >> for a TypeError.
Version(text, loose) ==
  LET s == Trim(text)
      m == Groups(s, Full(s, loose))
      parts(t) == IF t = "" THEN << >> ELSE Split(t, One(t, {"."}))
      pre == parts(m[4])
  IN IF m = << >> THEN << >>
     ELSE <<[main |-> [i \in 1..3 |-> Number(m[i])],
             prerelease |-> [i \in DOMAIN pre |-> Identifier(pre[i])], build |-> parts(m[5])]>>
Format(v) ==
  Join([i \in 1..3 |-> ToString(v.main[i])], ".")
  \o (IF v.prerelease = << >> THEN "" ELSE "-" \o Join(v.prerelease, "."))
\* parse(), the base of valid() and prerelease(), does not trim.
Parse(text, loose) == IF Matches(text, Full(text, loose)) THEN Version(text, loose) ELSE << >>
Clean(text, loose) ==
  LET s == Trim(text)
      first == CHOOSE i \in 1..(Len(s) + 1) : /\ i <= Len(s) => Char(s, i) \notin {"=", "v"}
                                             /\ \A j \in 1..(i - 1) : Char(s, j) \in {"=", "v"}
  IN Parse(SubSeq(s, first, Len(s)), loose)

\* Answers about one version; << >> stands for null.
Valid(text, loose) ==
  LET v == Parse(text, loose) IN [i \in DOMAIN v |-> Format(v[i])]
Prerelease(text, loose) ==
  LET v == Parse(text, loose) IN IF v = << >> THEN << >> ELSE v[1].prerelease
\* major(), minor() and patch(), of a version.
Main(text, loose) == Version(text, loose)[1].main

-----------------------------------------------------------------------------
(* Ranges.                                                                 *)

IsX(id) == id \in {"", "x", "X", "*"}
Next1(id) == ToString(Number(id) + 1)
Dots(M, m, p) == M \o "." \o m \o "." \o p
From(low, high) == ">=" \o low \o " <" \o high

\* The prerelease as carets and tildes write it: one that begins with a hyphen gets none.
Hyphened(pre) == IF pre = "" \/ Char(pre, 1) = "-" THEN pre ELSE "-" \o pre

ReplaceCaret(comp, loose) ==
  LET g == Groups(comp, Then(Caret(comp), XRangePlain(comp, loose)))
      low == Dots(g[1], g[2], g[3]) \o Hyphened(g[4])
      major == Dots(Next1(g[1]), "0", "0")
      minor == Dots(g[1], Next1(g[2]), "0")
  IN IF g = << >>      THEN comp
     ELSE IF IsX(g[1]) THEN ""
     ELSE IF IsX(g[2]) THEN From(Dots(g[1], "0", "0"), major)
     ELSE IF IsX(g[3]) THEN From(Dots(g[1], g[2], "0"), IF g[1] = "0" THEN minor ELSE major)
     ELSE From(low, IF g[1] # "0" THEN major ELSE IF g[2] # "0" THEN minor
                    ELSE Dots(g[1], g[2], Next1(g[3])))

ReplaceTilde(comp, loose) ==
  LET g == Groups(comp, Then(Tilde(comp), XRangePlain(comp, loose)))
      minor == Dots(g[1], Next1(g[2]), "0")
  IN IF g = << >>      THEN comp
     ELSE IF IsX(g[1]) THEN ""
     ELSE IF IsX(g[2]) THEN From(Dots(g[1], "0", "0"), Dots(Next1(g[1]), "0", "0"))
     ELSE IF IsX(g[3]) THEN From(Dots(g[1], g[2], "0"), minor)
     ELSE From(Dots(g[1], g[2], g[3]) \o Hyphened(g[4]), minor)

\* gtlt, M, m, p; a complete version stays as it is written.
ReplaceXRange(comp, loose) ==
  LET g  == Groups(comp, XRange(comp, loose))
      xm == IsX(g[3])  xp == xm \/ IsX(g[4])
      op == IF g[1] = "=" THEN "" ELSE g[1]
      m  == IF xm THEN "0" ELSE g[3]
      after == IF xm THEN Dots(Next1(g[2]), "0", "0") ELSE Dots(g[2], Next1(g[3]), "0")
  IN IF g = << >>      THEN comp
     ELSE IF IsX(g[2]) THEN IF op \in {"<", ">"} THEN "<0.0.0" ELSE "*"
     ELSE IF ~xp       THEN comp
     ELSE CASE op = ""   -> From(Dots(g[2], m, "0"), after)
            [] op = ">"  -> ">=" \o after
            [] op = "<=" -> "<" \o after
            [] OTHER     -> op \o Dots(g[2], m, "0")

ReplaceStar(comp) == ReplaceFrom(Trim(comp), Star(Trim(comp)), 0, "", FALSE, 1)

EachWord(comp, Rewritten(_)) ==
  LET words == Words(comp) IN Join([i \in DOMAIN words |-> Rewritten(words[i])], " ")
ParseComparator(comp, loose) ==
  LET caret == EachWord(Trim(comp), LAMBDA w : ReplaceCaret(w, loose))
      tilde == EachWord(Trim(caret), LAMBDA w : ReplaceTilde(w, loose))
  IN ReplaceStar(EachWord(tilde, LAMBDA w : ReplaceXRange(Trim(w), loose)))

HyphenReplace(g) ==
  LET from == IF IsX(g[2]) THEN "" ELSE IF IsX(g[3]) THEN ">=" \o Dots(g[2], "0", "0")
              ELSE IF IsX(g[4]) THEN ">=" \o Dots(g[2], g[3], "0") ELSE ">=" \o g[1]
      to == IF IsX(g[8]) THEN "" ELSE IF IsX(g[9]) THEN "<" \o Dots(Next1(g[8]), "0", "0")
            ELSE IF IsX(g[10]) THEN "<" \o Dots(g[8], Next1(g[9]), "0")
            ELSE IF g[11] # "" THEN "<=" \o Dots(g[8], g[9], g[10]) \o "-" \o g[11]
            ELSE "<=" \o g[7]
  IN Trim(from \o " " \o to)

CaretsTrimmed(s) == Replace(s, Trimmed(s, Caret(s)), 1, "^")

Spaced(range, loose) ==
  LET hyphen == Groups(range, HyphenRange(range, loose))
      compared == IF hyphen = << >> THEN range ELSE HyphenReplace(hyphen)
      close == Replace(compared, ComparatorTrim(compared), 3, "")
      tildes == Replace(close, Trimmed(close, Tilde(close)), 1, "~")
  IN Join(Words(CaretsTrimmed(tildes)), " ")

\* parseRange(), up to the construction of the comparators.
ParseRange(text, loose) ==
  LET s == Spaced(Trim(text), loose)
      comps == Split(s, One(s, {" "}))
      set == Words(Join([i \in DOMAIN comps |-> ParseComparator(comps[i], loose)], " "))
      valid(c) == c = "" \/ Matches(c, ComparatorText(c, TRUE))
  IN IF loose THEN SelectSeq(set, valid) ELSE set

\* Comparator's constructor; << >> for a TypeError, and of the empty text anything.
Comparator(comp, loose) ==
  LET g == Groups(comp, ComparatorText(comp, loose))
  IN IF comp = "" THEN <<[op |-> "", version |-> << >>]>>
     ELSE IF g = << >> THEN << >>
     ELSE <<[op |-> IF g[1] = "=" THEN "" ELSE g[1], version |-> Version(g[2], loose)]>>

\* Range's constructor: alternatives of comparators, << >> for a TypeError.
RangeOf(text, loose) ==
  LET or == Then(Spaces(text), Then(One(text, {"|"}), Then(One(text, {"|"}), Spaces(text))))
      texts == Split(text, or)
      sets == SelectSeq([i \in DOMAIN texts |-> ParseRange(texts[i], loose)], LAMBDA c : c # << >>)
      parsed == [i \in DOMAIN sets |-> FlattenSeq([k \in DOMAIN sets[i] |-> Comparator(sets[i][k], loose)])]
  IN IF \A i \in DOMAIN sets : Len(parsed[i]) = Len(sets[i]) THEN parsed ELSE << >>

ComparatorFormat(c) == IF c.version = << >> THEN "" ELSE c.op \o Format(c.version[1])
RangeFormat(range) ==
  Trim(Join([i \in DOMAIN range |->
     Trim(Join([k \in DOMAIN range[i] |-> ComparatorFormat(range[i][k])], " "))], "||"))

-----------------------------------------------------------------------------
(* What the texts must mean.                                               *)

\* Texts of the versions, partial versions and comparators of Semver; its words are "a",
\* "b", ... by their number, and x is how an X is written, "" to leave it out.
WordTexts == <<"a", "b", "c">>
IdText(id) == IF id[1] = 0 THEN ToString(id[2]) ELSE WordTexts[id[2]]
LabelText(v) ==
  IF v.prerelease = << >> THEN "" ELSE "-" \o Join([i \in DOMAIN v.prerelease |-> IdText(v.prerelease[i])], ".")
VersionText(v) ==
  Dots(ToString(v.major), ToString(v.minor), ToString(v.patch)) \o LabelText(v)
PartialText(p, x) ==
  LET parts == [i \in 1..3 |-> LET n == S!Numbers3(p)[i] IN IF n = S!X THEN x ELSE ToString(n)]
  IN IF x = "" THEN Join(SubSeq(parts, 1, IF S!Given(p) = 0 THEN 1 ELSE S!Given(p)), ".") \o LabelText(p)
     ELSE Join(parts, ".") \o LabelText(p)

Meaning(v) ==
  [major |-> v.main[1], minor |-> v.main[2], patch |-> v.main[3],
   prerelease |-> [i \in DOMAIN v.prerelease |->
      LET id == v.prerelease[i]
      IN IF IsNumber(id) THEN <<0, Number(id)>> ELSE <<1, CHOOSE n \in 1..3 : WordTexts[n] = id>>]]
\* The comparators of a set that say something.
Said(set) == SelectSeq(set, LAMBDA c : c.op # "any")

-----------------------------------------------------------------------------
(* The questions asked of a version and a range, both as texts.  An answer *)
(* is <<answer>>, and << >> when the call throws.                          *)

Comparators(range) ==
  [i \in DOMAIN range |-> [k \in DOMAIN range[i] |->
     IF range[i][k].version = << >> THEN S!AnyVersion
     ELSE S!Comparator(range[i][k].op, Meaning(range[i][k].version[1]))]]

ValidRange(text, loose) ==
  LET range == RangeOf(text, loose)
  IN IF range = << >> THEN << >> ELSE IF RangeFormat(range) = "" THEN <<"*">> ELSE <<RangeFormat(range)>>
ToComparators(text, loose) ==
  LET range == RangeOf(text, loose)
      values(set) == Trim(Join([k \in DOMAIN set |-> ComparatorFormat(set[k])], " "))
  IN [i \in DOMAIN range |-> Split(values(range[i]), One(values(range[i]), {" "}))]

\* A range that is no range allows nothing; what is no version throws.
SatisfiesText(version, text, loose) ==
  LET v == Version(version, loose)  range == RangeOf(text, loose)
  IN IF range = << >> THEN <<FALSE>>
     ELSE [i \in DOMAIN v |-> S!Satisfies(Meaning(v[i]), Comparators(range))]

\* gtr() and ltr().
OutsideText(version, text, hilo, loose) ==
  LET v == Version(version, loose)  range == RangeOf(text, loose)
  IN IF range = << >> THEN << >>
     ELSE [i \in DOMAIN v |-> S!Outside(Meaning(v[i]), Comparators(range), hilo)]
GtrText(version, text, loose) == OutsideText(version, text, ">", loose)
LtrText(version, text, loose) == OutsideText(version, text, "<", loose)

-----------------------------------------------------------------------------
\* A version has one text in strict mode, an optional "v" aside, and loose mode reads that
\* text alike; what it reads of others has a strict text too.
VersionTextLaws(s) ==
  LET strict == Version(s, FALSE)  loose == Version(s, TRUE)
      text(v) == Format(v) \o (IF v.build = << >> THEN "" ELSE "+" \o Join(v.build, "."))
  IN /\ strict # << >> => loose = strict /\ Trim(s) \in {text(strict[1]), "v" \o text(strict[1])}
     /\ loose # << >> => Version(text(loose[1]), FALSE) = loose
     /\ Parse(s, FALSE) # << >> => Parse(s, FALSE) = strict /\ Clean(s, FALSE) = strict
     /\ \A mode \in BOOLEAN : Valid(s, mode) # << >> =>
          LET main == Main(s, mode)  pre == Prerelease(s, mode)
              whole == Dots(ToString(main[1]), ToString(main[2]), ToString(main[3]))
                       \o (IF pre = << >> THEN "" ELSE "-" \o Join(pre, "."))
          IN Valid(s, mode) = <<whole>> /\ Valid(whole, FALSE) = <<whole>>

\* A range that is written as the comparators of set is read as them, in both modes, and
\* as a second alternative.
RangeTextLaws(s, set) ==
  LET reads(r, sets) == [i \in DOMAIN r |-> Said(Comparators(r)[i])] = [i \in DOMAIN sets |-> Said(sets[i])]
      range == RangeOf(s, FALSE)
      first == <<S!Comparator("", S!Release(0, 1, 0))>>
  IN /\ reads(range, <<set>>) /\ RangeOf(s, TRUE) = range
     /\ reads(RangeOf("0.1.0 ||" \o s, FALSE), <<first, set>>)

\* Asked about the version v with their texts, the range answers what its comparators say
\* of it; its normal form and its list of comparators are the same range; and a text that
\* is no version or no range is refused as the call says.
QuestionLaws(s, set, v) ==
  LET text == VersionText(v)
      reads(r) == [i \in DOMAIN r |-> Said(Comparators(r)[i])] = <<Said(set)>>
  IN /\ \A words \in {ToComparators(s, FALSE)[1]} : reads(RangeOf(Join(words, " "), FALSE))
     /\ \A normal \in {ValidRange(s, FALSE)} : normal # << >> /\ reads(RangeOf(normal[1], FALSE))
     /\ SatisfiesText(text, s, FALSE) = <<S!Satisfies(v, <<set>>)>>
     /\ GtrText(text, s, FALSE) = <<S!Outside(v, <<set>>, ">")>>
     /\ LtrText(text, s, FALSE) = <<S!Outside(v, <<set>>, "<")>>
     /\ SatisfiesText("1.x", s, FALSE) = << >> /\ GtrText("1.x", s, FALSE) = << >>
     /\ SatisfiesText(text, s \o " ++", FALSE) = <<FALSE>> /\ LtrText(text, s \o " ++", FALSE) = << >>
     /\ ValidRange(s \o " ++", FALSE) = << >>
VersionReads(v) == LET r == Version(VersionText(v), FALSE) IN r # << >> /\ Meaning(r[1]) = v
=============================================================================
