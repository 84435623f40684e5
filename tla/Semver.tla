------------------------------- MODULE Semver -------------------------------
(***************************************************************************)
(* require('semver') (semver.js): the order of versions, inc(), the        *)
(* comparators that ranges are turned into, and the questions asked of a   *)
(* range.  Versions and ranges are taken as parsed by the regular          *)
(* expressions, in strict mode; an identifier of a prerelease is           *)
(* <<0, n>> for the number n and <<1, w>> for the w-th of the words in the *)
(* order of strings, and the X of a partial version is -1.                 *)
(***************************************************************************)
EXTENDS Integers, Sequences, FiniteSets, TLC

Release(M, m, p) == [major |-> M, minor |-> m, patch |-> p, prerelease |-> << >>]
Zero == <<0, 0>>

Sign(n) == IF n < 0 THEN -1 ELSE IF n > 0 THEN 1 ELSE 0
OrElse(a, b) == IF a # 0 THEN a ELSE b

\* A number comes before a word.
CompareIdentifiers(a, b) == OrElse(Sign(a[1] - b[1]), Sign(a[2] - b[2]))

CompareMain(v, w) ==
  OrElse(Sign(v.major - w.major),
    OrElse(Sign(v.minor - w.minor), Sign(v.patch - w.patch)))

\* No prerelease is more than any; otherwise the first difference decides, then length.
ComparePre(v, w) ==
  LET p == v.prerelease  q == w.prerelease
      differ == {i \in DOMAIN p \cap DOMAIN q : p[i] # q[i]}
  IN IF (p = << >>) # (q = << >>) THEN IF p = << >> THEN 1 ELSE -1
     ELSE IF differ = {} THEN Sign(Len(p) - Len(q))
     ELSE LET i == CHOOSE i \in differ : \A j \in differ : i <= j
          IN CompareIdentifiers(p[i], q[i])

Compare(v, w) == OrElse(CompareMain(v, w), ComparePre(v, w))

Cmp(v, op, w) ==
  LET c == Compare(v, w)
  IN CASE op = "<"  -> c < 0  [] op = "<=" -> c <= 0
       [] op = ">"  -> c > 0  [] op = ">=" -> c >= 0
       [] op = "!=" -> c # 0  [] OTHER     -> c = 0

\* The first component in which two versions differ, with "pre" before it when one of
\* them has a prerelease.
Diff(v, w) ==
  LET pre == v.prerelease # << >> \/ w.prerelease # << >>
  IN CASE Compare(v, w) = 0    -> <<>>
       [] v.major # w.major    -> <<pre, "major">>
       [] v.minor # w.minor    -> <<pre, "minor">>
       [] v.patch # w.patch    -> <<pre, "patch">>
       [] OTHER                -> <<pre, "">>

\* sort() and rsort().
Rcompare(v, w) == Compare(w, v)
Sort(list) == SortSeq(list, LAMBDA v, w : Compare(v, w) < 0)
Rsort(list) == SortSeq(list, LAMBDA v, w : Rcompare(v, w) < 0)

-----------------------------------------------------------------------------
(* inc().                                                                  *)

\* The case "pre": the last number goes up, or 0 is added.
BumpPre(pre) ==
  LET numbers == {i \in DOMAIN pre : pre[i][1] = 0}
  IN IF numbers = {} THEN Append(pre, Zero)
     ELSE LET i == CHOOSE i \in numbers : \A j \in numbers : i >= j
          IN [pre EXCEPT ![i][2] = @ + 1]

IncPre(v, identifier) ==
  LET bumped == BumpPre(v.prerelease)
      keeps  == bumped[1] = identifier /\ Len(bumped) > 1 /\ bumped[2][1] = 0
  IN [v EXCEPT !.prerelease =
        IF identifier = << >> \/ keeps THEN bumped ELSE <<identifier, Zero>>]

IncPatch(v) == Release(v.major, v.minor, IF v.prerelease = << >> THEN v.patch + 1 ELSE v.patch)

IncMinor(v) ==
  Release(v.major, IF v.patch # 0 \/ v.prerelease = << >> THEN v.minor + 1 ELSE v.minor, 0)

IncMajor(v) ==
  Release(IF v.minor # 0 \/ v.patch # 0 \/ v.prerelease = << >> THEN v.major + 1 ELSE v.major, 0, 0)

Inc(v, release, identifier) ==
  CASE release = "premajor"   -> IncPre(Release(v.major + 1, 0, 0), identifier)
    [] release = "preminor"   -> IncPre(Release(v.major, v.minor + 1, 0), identifier)
    [] release = "prepatch"   -> IncPre(Release(v.major, v.minor, v.patch + 1), identifier)
    [] release = "prerelease" ->
         IncPre(IF v.prerelease = << >> THEN IncPatch(v) ELSE v, identifier)
    [] release = "major"      -> IncMajor(v)
    [] release = "minor"      -> IncMinor(v)
    [] release = "patch"      -> IncPatch(v)

-----------------------------------------------------------------------------
(* Ranges: a sequence of alternatives, each a sequence of comparators.     *)

AnyVersion == [op |-> "any", version |-> Release(0, 0, 0)]
Comparator(op, v) == [op |-> op, version |-> v]
AtLeast(v) == Comparator(">=", v)
Below(M, m, p) == Comparator("<", Release(M, m, p))

X == -1
Or0(n) == IF n = X THEN 0 ELSE n
Lowest(p) == [p EXCEPT !.minor = Or0(@), !.patch = IF p.minor = X THEN 0 ELSE Or0(@),
                       !.prerelease = IF p.minor = X \/ p.patch = X THEN << >> ELSE @]

ReplaceTilde(p) ==
  IF p.major = X THEN <<AnyVersion>>
  ELSE <<AtLeast(Lowest(p)),
         IF p.minor = X THEN Below(p.major + 1, 0, 0) ELSE Below(p.major, p.minor + 1, 0)>>

ReplaceCaret(p) ==
  IF p.major = X THEN <<AnyVersion>>
  ELSE <<AtLeast(Lowest(p)),
         IF p.major # 0 \/ p.minor = X THEN Below(p.major + 1, 0, 0)
         ELSE IF p.minor # 0 \/ p.patch = X THEN Below(0, p.minor + 1, 0)
         ELSE Below(0, 0, p.patch + 1)>>

\* The least version above all that a partial version with an X stands for.
After(p) == IF p.minor = X THEN Release(p.major + 1, 0, 0) ELSE Release(p.major, p.minor + 1, 0)

ReplaceXRange(op, p) ==
  LET partial == p.minor = X \/ p.patch = X
  IN IF p.major = X THEN IF op \in {"<", ">"} THEN <<Below(0, 0, 0)>> ELSE <<AnyVersion>>
     ELSE IF ~partial THEN <<Comparator(op, p)>>
     ELSE CASE op = ""   -> <<AtLeast(Lowest(p)), Comparator("<", After(p))>>
            [] op = ">"  -> <<AtLeast(After(p))>>
            [] op = "<=" -> <<Comparator("<", After(p))>>
            [] OTHER     -> <<Comparator(op, Lowest(p))>>

HyphenReplace(from, to) ==
  (IF from.major = X THEN << >> ELSE <<AtLeast(Lowest(from))>>)
  \o (IF to.major = X THEN << >>
      ELSE IF to.minor = X \/ to.patch = X THEN <<Comparator("<", After(to))>>
      ELSE <<Comparator("<=", to)>>)
  \o (IF from.major = X /\ to.major = X THEN <<AnyVersion>> ELSE << >>)

Test(c, v) == c.op = "any" \/ Cmp(v, c.op, c.version)

\* Fault: a prerelease passes like any other version.
TestSetOpen(set, v) == \A i \in DOMAIN set : Test(set[i], v)

\* A prerelease passes only if some comparator has one of the same release.
TestSet(set, v) ==
  /\ \A i \in DOMAIN set : Test(set[i], v)
  /\ v.prerelease # << >> =>
       \E i \in DOMAIN set : /\ set[i].op # "any"
                             /\ set[i].version.prerelease # << >>
                             /\ CompareMain(set[i].version, v) = 0

Satisfies(v, range) == \E i \in DOMAIN range : TestSet(range[i], v)

\* maxSatisfying(): the first of the list that no later one beats.
MaxSatisfying(list, range) ==
  LET better[i \in 0..Len(list)] ==
        IF i = 0 THEN 0
        ELSE LET j == better[i - 1]
             IN IF Satisfies(list[i], range) /\ (j > 0 => Compare(list[j], list[i]) < 0) THEN i ELSE j
  IN better[Len(list)]

MinSatisfying(list, range) ==
  LET better[i \in 0..Len(list)] ==
        IF i = 0 THEN 0
        ELSE LET j == better[i - 1]
             IN IF Satisfies(list[i], range) /\ (j > 0 => Compare(list[j], list[i]) > 0) THEN i ELSE j
  IN better[Len(list)]

-----------------------------------------------------------------------------
(* Ranges among themselves.                                                *)

Up   == {">", ">="}
Down == {"<", "<="}

\* Comparator.intersects(); one that allows anything has neither an operator nor a
\* version, and the call throws unless the other one is a plain version.
IntersectsThrows(c, d) == (c.op = "any" /\ d.op # "") \/ (d.op = "any" /\ c.op # "")

ComparatorsIntersect(c, d) ==
  IF c.op = "" THEN Satisfies(c.version, << <<d>> >>)
  ELSE IF d.op = "" THEN Satisfies(d.version, << <<c>> >>)
  ELSE \/ c.op \in Up /\ d.op \in Up
       \/ c.op \in Down /\ d.op \in Down
       \/ c.version = d.version /\ {c.op, d.op} \subseteq {"<=", ">="}
       \/ Cmp(c.version, "<", d.version) /\ c.op \in Up /\ d.op \in Down
       \/ Cmp(c.version, ">", d.version) /\ c.op \in Down /\ d.op \in Up

Intersects(r, s) ==
  \E i \in DOMAIN r : \A c \in DOMAIN r[i] :
    \E j \in DOMAIN s : \A d \in DOMAIN s[j] : ComparatorsIntersect(r[i][c], s[j][d])

\* The comparator outside() ends with when it looks for the highest or the lowest: the
\* first of those no other one is beyond.
Edge(set, cmp) ==
  LET at(i) == IF set[i].op = "any" THEN AtLeast(Release(0, 0, 0)) ELSE set[i]
      best == {i \in DOMAIN set :
                 /\ \A j \in DOMAIN set : ~Cmp(at(j).version, cmp, at(i).version)
                 /\ \A j \in 1..(i - 1) : Compare(at(j).version, at(i).version) # 0}
  IN at(CHOOSE i \in best : TRUE)

\* outside(): gtr() with hilo ">", ltr() with "<".
Outside(v, range, hilo) ==
  LET lohi == IF hilo = ">" THEN "<" ELSE ">"
      incl(op) == IF op = ">" THEN ">=" ELSE "<="
  IN /\ ~Satisfies(v, range)
     /\ \A i \in DOMAIN range :
          LET high == Edge(range[i], hilo)  low == Edge(range[i], lohi)
          IN /\ high.op \notin {hilo, incl(hilo)}
             /\ low.op \in {"", hilo} => ~Cmp(v, incl(lohi), low.version)
             /\ low.op = incl(hilo) => ~Cmp(v, lohi, low.version)

-----------------------------------------------------------------------------
(* What the answers must be, without the operators above.                  *)

\* compare() is a total order whose ties are the equal versions.
OrderLaws(u, v, w) ==
  /\ Compare(u, v) = -Compare(v, u)
  /\ (Compare(u, v) = 0) = (u = v)
  /\ Compare(u, v) <= 0 /\ Compare(v, w) <= 0 => Compare(u, w) <= 0
  /\ Diff(u, v) # <<>> /\ Diff(v, w) # <<>> /\ Compare(u, v) < 0 /\ Compare(v, w) < 0
       => Diff(u, w) # <<>>

Kind(release, v) ==
  /\ v.prerelease = << >>
  /\ release \in {"minor", "major"} => v.patch = 0
  /\ release = "major" => v.minor = 0

\* inc() makes a later version (but for an identifier, whose order it does not ask), and
\* "patch", "minor" and "major" make the first release of their kind.
IncLaws(v, release, identifier, versions) ==
  LET w == Inc(v, release, identifier)
  IN /\ identifier = << >> => Compare(w, v) > 0
     /\ (w.prerelease # << >>) = (release \in {"premajor", "preminor", "prepatch", "prerelease"})
     /\ identifier # << >> /\ w.prerelease # << >> => w.prerelease[1] = identifier
     /\ release \in {"patch", "minor", "major"} =>
          /\ Kind(release, w)
          /\ \A u \in versions : Kind(release, u) /\ Compare(u, v) > 0 => Compare(w, u) <= 0

Numbers3(v) == <<v.major, v.minor, v.patch>>
\* How many components of a partial version are given.
Given(p) == IF p.major = X THEN 0 ELSE IF p.minor = X THEN 1 ELSE IF p.patch = X THEN 2 ELSE 3
Agree(p, v, n) == \A i \in 1..n : Numbers3(p)[i] = Numbers3(v)[i]
StandsFor(p, v) == IF Given(p) = 3 THEN v = p ELSE v.prerelease = << >> /\ Agree(p, v, Given(p))

\* The components ^p may not change: up to the first that is not 0.
Kept(p) ==
  IF Given(p) = 0 THEN 0
  ELSE CHOOSE n \in 1..Given(p) :
         /\ \A i \in 1..(n - 1) : Numbers3(p)[i] = 0
         /\ n = Given(p) \/ Numbers3(p)[n] # 0

\* What ^p, ~p and op p allow is what the partial version p says, prereleases only next to
\* one that is named.
RangeLaws(op, p, v, versions) ==
  LET named == v.prerelease = << >> \/ (Given(p) = 3 /\ p.prerelease # << >> /\ Agree(p, v, 3))
      least == Given(p) = 0 \/ Compare(Lowest(p), v) <= 0
      some(rel(_, _)) == \E u \in versions : StandsFor(p, u) /\ rel(v, u)
      all(rel(_, _)) == \A u \in versions : StandsFor(p, u) => rel(v, u)
      lt(a, b) == Compare(a, b) < 0  gt(a, b) == Compare(a, b) > 0
      le(a, b) == Compare(a, b) <= 0  ge(a, b) == Compare(a, b) >= 0
      allows(set) == Satisfies(v, <<set>>)
  IN /\ allows(ReplaceCaret(p)) = (named /\ least /\ Agree(p, v, Kept(p)))
     /\ allows(ReplaceTilde(p)) =
          (named /\ least /\ Agree(p, v, IF Given(p) > 1 THEN 2 ELSE Given(p)))
     /\ allows(ReplaceXRange(op, p)) =
          (named /\ CASE op = "" -> StandsFor(p, v)
                      [] op = ">" -> all(gt) /\ Given(p) > 0
                      [] op = "<" -> all(lt) /\ Given(p) > 0
                      [] op = ">=" -> some(ge)
                      [] op = "<=" -> some(le))

\* A hyphen range: nothing below the one side, nothing beyond the other.
HyphenLaws(p, q, v, versions) ==
  v.prerelease = << >> =>
    Satisfies(v, <<HyphenReplace(p, q)>>) =
      /\ Given(p) = 0 \/ Compare(Lowest(p), v) <= 0
      /\ Given(q) = 0 \/ \E u \in versions : StandsFor(q, u) /\ Compare(v, u) <= 0

\* maxSatisfying() and minSatisfying() answer with one of the list that allows no better:
\* the last and the first of the sorted list that the range allows, and rsort() lists them
\* the other way round.
BestLaws(list, range) ==
  LET good == {i \in DOMAIN list : Satisfies(list[i], range)}
      max == MaxSatisfying(list, range)  min == MinSatisfying(list, range)
  IN IF good = {} THEN max = 0 /\ min = 0
     ELSE /\ {max, min} \subseteq good
          /\ \A i \in good : Compare(list[min], list[i]) <= 0 /\ Compare(list[i], list[max]) <= 0
          /\ LET allowed(sorted) == SelectSeq(sorted, LAMBDA v : Satisfies(v, range))
                 up == allowed(Sort(list))  down == allowed(Rsort(list))
             IN /\ up[1] = list[min] /\ up[Len(up)] = list[max]
                /\ Len(up) = Cardinality(good) /\ down = [i \in DOMAIN up |-> up[Len(up) + 1 - i]]

\* intersects() finds every common release, and gtr() and ltr() accept a release only if
\* it is beyond all that the range allows.  (A prerelease below "<2.0.0" is said to be
\* greater than all of the range, as it is not one of its versions.)
SetLaws(r, s, v, versions) ==
  LET throws == \E i \in DOMAIN r, j \in DOMAIN s :
                  \E c \in DOMAIN r[i], d \in DOMAIN s[j] : IntersectsThrows(r[i][c], s[j][d])
      beyond(hilo) == \A u \in versions : Satisfies(u, r) => Cmp(v, hilo, u)
  IN v.prerelease = << >> =>
       /\ ~throws /\ Satisfies(v, r) /\ Satisfies(v, s) => Intersects(r, s)
       /\ Outside(v, r, ">") => beyond(">")
       /\ Outside(v, r, "<") => beyond("<")
=============================================================================
