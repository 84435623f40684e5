-------------------------------- MODULE Texts --------------------------------
(***************************************************************************)
(* The small text algorithms: percent-encoding (internal/url.js),          *)
(* util.format (internal/util.js), the words of a command                  *)
(* (internal/cauldron/command-arg-helper.js), paths (path.js), version      *)
(* numbers (internal/util/version.js) and the numbers and positions of a   *)
(* source map (com.cauldronjs.sourcemap).                                  *)
(***************************************************************************)
EXTENDS Integers, Sequences, SequencesExt

E == INSTANCE Encodings

-----------------------------------------------------------------------------
(* encodeStr(): what the table allows is copied in slices, everything else *)
(* becomes escapes; -1 - x stands for '%' and the two digits of the byte x. *)

Escaped(bytes) == [i \in DOMAIN bytes |-> -1 - bytes[i]]

\* A surrogate takes the next unit with it, whatever that is.
EncodeStr(s, noEscape) ==
  LET enc[i \in 1..(Len(s) + 2), last \in 1..(Len(s) + 2)] ==
        IF i > Len(s) THEN SubSeq(s, last, Len(s))
        ELSE LET u == s[i]
                 pair == u \in 55296..57343
                 low == IF i < Len(s) THEN s[i + 1] % 1024 ELSE 0
                 next == IF pair THEN i + 2 ELSE i + 1
             IN IF u < 128 /\ u \in noEscape THEN enc[i + 1, last]
                ELSE SubSeq(s, last, i - 1)
                     \o Escaped(E!Utf8(IF pair THEN 65536 + (u % 1024) * 1024 + low ELSE u))
                     \o enc[next, next]
  IN enc[1, 1]

-----------------------------------------------------------------------------
(* formatWithOptions(): "%" is 0, the letter of a directive 1, any other   *)
(* character 2 or more; the n-th argument in the answer is <<n>>.          *)

FormatStr(f, n) ==
  LET Rest(last) == [k \in 1..(Len(f) - last) |-> <<"char", f[last + k]>>]
      Cut(from, to) == [k \in 1..(to - from) |-> <<"char", f[from + k]>>]
      scan[i \in 0..(Len(f) + 1), last \in 0..Len(f), a \in 0..n] ==
        IF i >= Len(f) - 1 THEN [text |-> Rest(last), used |-> a]
        ELSE IF f[i + 1] # 0 THEN scan[i + 1, last, a]
        ELSE LET after == scan[i + 2, i + 2, a]
                 taken == scan[i + 2, i + 2, a + 1]
             IN CASE f[i + 2] = 0 -> [after EXCEPT !.text = Cut(last, i + 1) \o @]
                  [] f[i + 2] = 1 /\ a < n ->
                       [taken EXCEPT !.text = Cut(last, i) \o << <<"arg", a + 1>> >> \o @]
                  [] OTHER -> scan[i + 2, last, a]
      done == scan[0, 0, 0]
  IN IF n = 0 THEN Rest(0)
     ELSE done.text \o [k \in 1..(n - done.used) |-> <<"arg", done.used + k>>]

-----------------------------------------------------------------------------
(* parseArgsToCollection(): a space ends a word, a quote begins a string   *)
(* or ends the one it began, a backslash before it hides it.               *)

Space == 32
Quotes == {34, 39}
Backslash == 92

\* Fault: a quote of the other kind ends a string too.
IsQuoteAny(s, i, which) == s[i] \in Quotes /\ (i = 1 \/ s[i - 1] # Backslash)

IsQuote(s, i, which) == s[i] \in which /\ (i = 1 \/ s[i - 1] # Backslash)

ParseArgs(s) ==
  LET push(acc) == [acc EXCEPT !.result = Append(@, acc.line), !.line = << >>, !.quote = {}]
      step(acc, i) ==
        IF acc.quote = {}
        THEN IF IsQuote(s, i, Quotes) THEN [acc EXCEPT !.quote = {s[i]}]
             ELSE IF s[i] = Space THEN push(acc)
             ELSE [acc EXCEPT !.line = Append(@, s[i])]
        ELSE IF IsQuote(s, i, acc.quote) THEN push(acc)
             ELSE [acc EXCEPT !.line = Append(@, s[i])]
  IN FoldLeftDomain(step, [result |-> << >>, line |-> << >>, quote |-> {}], s)

-----------------------------------------------------------------------------
(* path.js: split at the separator, and put together again.                *)

Split(s, sep) ==
  LET step(acc, c) == IF c = sep THEN Append(acc, << >>)
                      ELSE [acc EXCEPT ![Len(acc)] = Append(@, c)]
  IN FoldLeft(step, << << >> >>, s)

Basename(path, sep) == LET parts == Split(path, sep) IN parts[Len(parts)]
Dirname(path, sep) ==
  LET parts == Split(path, sep)
  IN FlattenSeq([i \in 1..(Len(parts) - 1) |-> <<sep>> \o parts[i]])
Extname(path) == LET parts == Split(path, 46) IN parts[Len(parts)]

-----------------------------------------------------------------------------
(* version.js: the first three numbers, one that is missing is 0.          *)

Part(v, i) == IF i <= Len(v) THEN v[i] ELSE 0
Decides(a, b) == {i \in 1..3 : Part(a, i) # Part(b, i)}
Deciding(a, b) == CHOOSE i \in Decides(a, b) : \A j \in Decides(a, b) : i <= j

VersionGt(a, b)  == Decides(a, b) # {} /\ Part(a, Deciding(a, b)) > Part(b, Deciding(a, b))
VersionGte(a, b) == Decides(a, b) = {} \/ VersionGt(a, b)
VersionLt(a, b)  == Decides(a, b) # {} /\ Part(a, Deciding(a, b)) < Part(b, Deciding(a, b))
VersionLte(a, b) == Decides(a, b) = {} \/ VersionLt(a, b)

-----------------------------------------------------------------------------
(* Source maps: digits of base bits with a bit for "more follow", the      *)
(* lowest first.  The lowest bit is not taken for the sign.                *)

DecodeVlq(digits, base) ==
  LET step(acc, d) ==
        LET value == acc.value + (d % base) * acc.mul
        IN IF d >= base THEN [acc EXCEPT !.value = value, !.mul = @ * base]
           ELSE [ints |-> Append(acc.ints, value), value |-> 0, mul |-> 1]
  IN FoldLeft(step, [ints |-> << >>, value |-> 0, mul |-> 1], digits).ints

Null == -1
IfNullThen(x) == IF x < 0 THEN 0 ELSE x

\* parseMappings(): a segment of 1, 4 or 5 numbers adds to what the one before it left;
\* what a segment does not name starts again at 0.
ParseMappings(lines) ==
  LET segment(line, acc, f) ==
        LET has(n) == Len(f) >= n
            entry == [line |-> line, column |-> acc.column + f[1],
                      source |-> IF has(2) THEN IfNullThen(acc.source) + f[2] ELSE Null,
                      oLine |-> IF has(2) THEN IfNullThen(acc.oLine) + f[3] ELSE Null,
                      oColumn |-> IF has(2) THEN IfNullThen(acc.oColumn) + f[4] ELSE Null,
                      name |-> IF has(5) THEN IfNullThen(acc.name) + f[5] ELSE Null]
        IN [column |-> entry.column, source |-> entry.source, oLine |-> entry.oLine,
            oColumn |-> entry.oColumn, name |-> entry.name, entries |-> Append(acc.entries, entry)]
      parse[i \in 0..Len(lines)] ==
        IF i = 0 THEN [column |-> 0, source |-> Null, oLine |-> Null, oColumn |-> Null,
                       name |-> Null, entries |-> << >>]
        ELSE FoldLeft(LAMBDA acc, f : segment(i - 1, acc, f), [parse[i - 1] EXCEPT !.column = 0], lines[i])
  IN parse[Len(lines)].entries

-----------------------------------------------------------------------------
(* What the answers must be.                                               *)

\* Undone, the escapes give the UTF-8 of the text; only what the table allows stands as it
\* is.  (A surrogate without its partner takes the next unit for it.)
EncodeLaws(s, noEscape) ==
  LET out == EncodeStr(s, noEscape)
      undone == [i \in DOMAIN out |-> IF out[i] < 0 THEN -1 - out[i] ELSE out[i]]
  IN /\ E!WellFormed(s) = s => undone = E!Utf8ToBytes(s, 0)
     /\ \A i \in DOMAIN out : out[i] >= 0 => out[i] \in noEscape
     /\ \A i \in DOMAIN out : out[i] < 0 => -1 - out[i] \notin noEscape
     /\ Len(out) >= Len(SelectSeq(s, LAMBDA u : u \notin 55296..57343))

\* Every argument appears once and in order, and of the text only directives that took an
\* argument and the first of two "%" are gone.
FormatLaws(f, n) ==
  LET out == FormatStr(f, n)
      args == SelectSeq(out, LAMBDA x : x[1] = "arg")
      text == SelectSeq(out, LAMBDA x : x[1] = "char")
      other(g) == SelectSeq(g, LAMBDA c : c > 1)
  IN /\ args = [k \in 1..n |-> <<"arg", k>>]
     /\ other([k \in DOMAIN text |-> text[k][2]]) = other(f)
     /\ n = 0 => Len(text) = Len(f)
     /\ \A k \in 1..(Len(f) - 1) :
          f[k] = 0 /\ f[k + 1] = 1 /\ n > 0 /\ (\A j \in 1..(k - 1) : f[j] # 0)
            => Len(out) > k - 1 /\ out[k] = <<"arg", 1>>

\* No character of a command but quotes and spaces is lost or moved; without quotes the
\* words are those between the spaces, the last one still open; a string is one word.
ArgsLaws(s) ==
  LET parsed == ParseArgs(s)
      other(t) == SelectSeq(t, LAMBDA u : u \notin Quotes \cup {Space})
      plain == \A i \in DOMAIN s : s[i] \notin Quotes
  IN /\ other(FlattenSeq(parsed.result) \o parsed.line) = other(s)
     /\ plain => Append(parsed.result, parsed.line) = Split(s, Space)
     /\ \A q \in Quotes :
          (\A i \in DOMAIN s : s[i] = q => i > 1 /\ s[i - 1] = Backslash)
          /\ (s # << >> => s[Len(s)] # Backslash)
            => ParseArgs(<<q>> \o s \o <<q>>).result = <<s>>

\* The directory, the separator and the name are the path, behind one separator more.
PathLaws(path, sep) ==
  LET has == \E i \in DOMAIN path : path[i] = 46
  IN /\ Dirname(path, sep) \o <<sep>> \o Basename(path, sep) = <<sep>> \o path
     /\ \A i \in DOMAIN Basename(path, sep) : Basename(path, sep)[i] # sep
     /\ IF has THEN \E i \in DOMAIN path : path = SubSeq(path, 1, i - 1) \o <<46>> \o Extname(path)
        ELSE Extname(path) = path

\* The four comparisons are one total order, that of the versions filled up with 0.
VersionLaws(a, b, c) ==
  LET same == \A i \in 1..3 : Part(a, i) = Part(b, i)
  IN /\ VersionGt(a, b) = VersionLt(b, a) /\ VersionGte(a, b) = VersionLte(b, a)
     /\ VersionGt(a, b) = ~VersionLte(a, b)
     /\ (VersionGte(a, b) /\ VersionLte(a, b)) = same
     /\ VersionGte(a, b) /\ VersionGte(b, c) => VersionGte(a, c)

EncodeVlq(n, base) ==
  LET enc[m \in 0..n] == IF m < base THEN <<m>> ELSE <<base + (m % base)>> \o enc[m \div base]
  IN enc[n]

\* The numbers of a segment are read back one by one.
VlqLaws(m, n, base) == DecodeVlq(EncodeVlq(m, base) \o EncodeVlq(n, base), base) = <<m, n>>

\* Columns add up along a line; the other positions along the whole map, as long as no
\* segment leaves them out.
MappingLaws(lines) ==
  LET at == FlattenSeq([l \in DOMAIN lines |-> [k \in DOMAIN lines[l] |-> <<l, k>>]])
      field(j, n) == LET f == lines[at[j][1]][at[j][2]] IN IF Len(f) >= n THEN f[n] ELSE 0
      sum(S, n) == FoldLeft(LAMBDA t, j : t + field(j, n), 0, SetToSeq(S))
      out == ParseMappings(lines)
      given(i, n) == LET lacks == {j \in 1..i : Len(lines[at[j][1]][at[j][2]]) < n}
                     IN {j \in 1..i : \A k \in lacks : k < j}
      is(i, value, n) == value = IF i \in given(i, n) THEN sum(given(i, n), n) ELSE Null
  IN /\ Len(out) = Len(at)
     /\ \A i \in DOMAIN out :
          /\ out[i].line = at[i][1] - 1
          /\ out[i].column = sum({j \in 1..i : at[j][1] = at[i][1]}, 1)
          /\ is(i, out[i].source, 2) /\ is(i, out[i].oLine, 3)
          /\ is(i, out[i].oColumn, 4) /\ is(i, out[i].name, 5)
=============================================================================
