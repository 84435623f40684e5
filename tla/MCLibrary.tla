------------------------------ MODULE MCLibrary ------------------------------
(***************************************************************************)
(* The pure algorithms of the library called with every small input: each  *)
(* behaviour is one call, and the properties compare its answer with what  *)
(* the function promises.                                                  *)
(***************************************************************************)
EXTENDS Integers, Sequences, FiniteSets

LOCAL INSTANCE SequencesExt

VARIABLE call
vars == <<call>>

Texts(A, n) == UNION {[1..k -> A] : k \in 0..n}


S == INSTANCE Semver
W == INSTANCE SemverText
B == INSTANCE Buffer
E == INSTANCE Encodings
T == INSTANCE Texts
H == INSTANCE HttpParser
C == INSTANCE CommandPath
R == INSTANCE Resolution
F == INSTANCE Ieee754
Y == INSTANCE Memory
A == INSTANCE Arguments
D == INSTANCE Files
Q == INSTANCE HttpTexts
L == INSTANCE BufferList
G == INSTANCE FileApi

-----------------------------------------------------------------------------
(* semver.                                                                 *)

Ids == {<<0, 0>>, <<0, 1>>, <<1, 1>>}
Pres == {<< >>} \cup {<<a>> : a \in Ids} \cup {<< <<1, 1>>, b >> : b \in {<<0, 1>>, <<1, 2>>}}
Version(M, m, p, pre) == [major |-> M, minor |-> m, patch |-> p, prerelease |-> pre]
Versions == {Version(M, m, p, pre) : M, m, p \in 0..1, pre \in Pres}
Releases == {Version(M, m, p, << >>) : M, m, p \in 0..3}
Partials == {Version(M, m, p, << >>) : M, m, p \in {0, 1, S!X}}
            \cup {Version(M, m, p, <<a>>) : M, m, p \in 0..1, a \in {<<0, 1>>, <<1, 1>>}}
Ops == {"", "<", "<=", ">", ">="}
Ends == {Version(0, 0, 0, << >>), Version(0, 1, 0, << >>), Version(1, 0, 0, << >>),
         Version(1, 0, 0, << <<1, 1>> >>)}
Sets == {<<S!AnyVersion>>} \cup {<<S!Comparator(o, v)>> : o \in Ops, v \in Ends}
        \cup {<<S!Comparator(o, v), S!Comparator("<", w)>> : o \in {">", ">="}, v, w \in Ends}
Ranges == {<<s>> : s \in Sets} \cup {<< <<S!Comparator("", v)>>, s >> : v \in Ends, s \in Sets}

Order == \E u, v, w \in {x \in Versions : x.minor = 0} : call' = <<"order", u, v, w>>
Increase ==
  \E v \in Versions, identifier \in {<< >>} \cup Ids :
    \E release \in {"premajor", "preminor", "prepatch", "prerelease", "major", "minor", "patch"} :
      call' = <<"inc", v, release, identifier>>
Partial == \E op \in Ops, p \in Partials, v \in Versions : call' = <<"partial", op, p, v>>
Hyphen == \E p, q \in Partials, v \in Releases : call' = <<"hyphen", p, q, v>>
Best == \E v, w \in Versions, r \in Ranges :
          v.patch = 0 /\ w.minor = 0 /\ call' = <<"best", <<v, w>>, r>>
Among == \E r \in Ranges, s \in Sets, v \in {x \in Versions : x.patch = 0} :
           call' = <<"among", r, <<s>>, v>>

\* Texts around a version and after it, and the ways to write a range.
Starts == {"", "v", "=", " ", "v=", " v"}
Cores == {"1.0.0", "01.0.0", "1.10.0", "1.0", "1.x.0"}
Written == \E start \in Starts, core \in Cores, tail \in Texts({"0", "1", "a", "-", ".", "+"}, 3) :
             call' = <<"written", start \o core \o W!Join(tail, "")>>
Named == \E v \in Versions : call' = <<"named", v>>

\* Ranges with an X written as x, "" for left out, and with gap after the operators.
RangeText(x, gap) ==
  \E p \in {q \in Partials : x = "" \/ S!Given(q) < 3 \/ q.patch = 1} :
    LET text == W!PartialText(p, x)
        asks(s, set) == (x # "" \/ text # "") /\ call' = <<"range", gap \o s \o gap, set>>
    IN \/ asks("^" \o gap \o text, S!ReplaceCaret(p)) \/ asks("~" \o gap \o text, S!ReplaceTilde(p))
       \/ asks("~>" \o gap \o text, S!ReplaceTilde(p))
       \/ \E op \in Ops \cup {"="} :
            asks(op \o gap \o text, S!ReplaceXRange(IF op = "=" THEN "" ELSE op, p))
       \/ \E q \in {r \in Partials : r.major = 1 /\ r.minor # 0 /\ r.patch # 0} :
            asks(text \o " -" \o gap \o " " \o W!PartialText(q, "x"), S!HyphenReplace(p, q))
       \/ \E v \in {w \in Ends : w.major = 1} : asks(text \o " <" \o gap \o W!VersionText(v), Append(S!ReplaceXRange("", p), S!Comparator("<", v)))

\* A range and a version the questions are about.
Question ==
  \E p \in {Version(0, x[1], x[2], << >>) : x \in {<<S!X, S!X>>, <<0, S!X>>, <<1, 0>>}}
          \cup {Version(1, 0, 0, << <<1, 1>> >>), Version(S!X, S!X, S!X, << >>)} :
    \E v \in {Version(0, 0, 1, << >>), Version(1, 0, 0, << >>), Version(1, 0, 0, << <<1, 2>> >>)} :
      LET text == W!PartialText(p, "x")
          asks(s, set) == call' = <<"question", s, set, v>>
      IN \/ asks("^" \o text, S!ReplaceCaret(p)) \/ asks("~" \o text, S!ReplaceTilde(p))
         \/ \E op \in {"", "<", ">="} : asks(op \o text, S!ReplaceXRange(op, p))

SemverLaws(asked) ==
  CASE asked[1] = "order"   -> S!OrderLaws(asked[2], asked[3], asked[4])
    [] asked[1] = "inc"     -> S!IncLaws(asked[2], asked[3], asked[4], Releases \cup Versions)
    [] asked[1] = "partial" -> S!RangeLaws(asked[2], asked[3], asked[4], Releases \cup Versions)
    [] asked[1] = "hyphen"  -> S!HyphenLaws(asked[2], asked[3], asked[4], Releases \cup Versions)
    [] asked[1] = "best"    -> S!BestLaws(asked[2], asked[3])
    [] asked[1] = "among"   -> S!SetLaws(asked[2], asked[3], asked[4], Releases \cup Versions)
    [] asked[1] = "written" -> W!VersionTextLaws(asked[2])
    [] asked[1] = "named"   -> W!VersionReads(asked[2])
    [] asked[1] = "range"   -> W!RangeTextLaws(asked[2], asked[3])
    [] asked[1] = "question" -> W!QuestionLaws(asked[2], asked[3], asked[4])
    [] OTHER               -> TRUE

\* semver (semver.js): the order, inc(), the ranges and the questions about them answer
\* what the versions themselves say.
SemverAgrees == [][\A asked \in {call'} : SemverLaws(asked)]_vars

-----------------------------------------------------------------------------
(* Buffer.                                                                 *)

Bits == Texts({0, 1}, 4)
Edges(n) == LET top == 256 ^ n
            IN {-(top \div 2) - 1, -(top \div 2), -257, -256, -255, -128, -2, -1, 0, 1, 127, 128,
                255, 256, 257, (top \div 2) - 1, top \div 2, top - 1, top}
              \cup {-(256 ^ i) : i \in 0..(n - 1)} \cup {-(2 * 256 ^ i) + 1 : i \in 0..(n - 1)}
Windows == {<<0, 4>>, <<1, 3>>, <<0, 2>>, <<2, 2>>, <<3, 0>>}

Number == \E n \in 1..3, off \in 0..4, le, signed \in BOOLEAN :
            \E v \in Edges(n) : call' = <<"number", <<1, 2, 3, 4>>, v, off, n, le, signed>>
SwapBytes == \E size \in 0..6, n \in {2, 3} : call' = <<"swap", [i \in 1..size |-> i], n>>
CompareParts == \E a, b, c \in Texts({0, 1}, 2), s, e \in -1..3 : call' = <<"compare", a, b, c, s, e>>
CopyPart == \E this, target \in Windows, tStart, start, end \in -1..5 :
              call' = <<"copy", <<1, 2, 3, 4>>, this, target, tStart, start, end>>
Join == \E a, b, c \in Texts({1, 2}, 2), n \in 0..7 : call' = <<"concat", <<a, b, c>>, n>>
FillPart == \E bytes \in Texts({7, 8}, 3), start, end \in -1..5 :
              Len(bytes) > 0 /\ call' = <<"fill", <<1, 2, 3, 4>>, bytes, start, end>>
Search == \E b \in Texts({0, 1}, 6), val \in Bits, from \in -7..7, step \in {1, 2}, dir \in BOOLEAN :
            call' = <<"index", b, val, from, step, dir>>

-----------------------------------------------------------------------------
(* Encodings.                                                              *)

\* The units and the bytes at the edges of the ranges the code tells apart.
UnitEdges == {65, 127, 128, 2047, 2048, 55295, 55296, 56319, 56320, 57343, 57344, 65535}
ByteEdges == {65, 127, 128, 143, 144, 159, 160, 191, 192, 193, 194, 223, 224, 237, 239, 240, 244, 245, 255}
FewUnits == {65, 97, 103, 233, 8364, 55357, 56832}

ToUtf8 == \E s \in Texts(UnitEdges, 3), units \in 0..7 : call' = <<"utf8", s, units>>
FromUtf8 == \E b \in Texts(ByteEdges, 3) \cup {<<x, y, z, 128>> : x \in {225, 240, 241, 244}, y, z \in ByteEdges} :
              call' = <<"decode", b>>
ToTexts == \E b \in Texts({0, 1, 104, 128, 255}, 5) : call' = <<"bytes", b>>
Base64 == \E b \in Texts({0, 3, 255}, 5), i \in 0..7 : call' = <<"base64", b, i>>
WriteText == \E b \in {[i \in 1..n |-> 7] : n \in 0..5}, offset, length \in 0..6 :
               \E encoding \in {"utf8", "utf16le", "latin1", "base64", "hex"} :
                 \E s \in Texts(IF encoding = "base64" THEN {0, 63, 64, 65} ELSE FewUnits, 3) :
                   call' = <<"write", b, s, offset, length, encoding>>

\* Floating point: the bytes at the edges of the fields, and numbers between two others.
FloatBytes ==
  \/ \E b1 \in 0..255, b2 \in {0, 1, 2, 127, 128, 254, 255} : call' = <<"floatbytes", <<b1, b2>>, 10>>
  \/ \E b1 \in {0, 1, 63, 64, 127, 128, 191, 255}, b2 \in {0, 1, 127, 128, 129, 255}, b3, b4 \in {0, 1, 127, 128, 255} :
       call' = <<"floatbytes", <<b1, b2, b3, b4>>, 23>>
Mantissas == {1, 2, 3, 2 ^ 23 - 1, 2 ^ 23, 2 ^ 23 + 1, 2 ^ 24 - 1, 2 ^ 24, 2 ^ 24 + 1, 2 ^ 24 + 2, 2 ^ 24 + 3,
              2 ^ 25 - 1, 2 ^ 25 - 2, 2 ^ 25 - 3, 2 ^ 26 - 1, 2 ^ 26 - 3}
FloatRound == \E sign \in 0..1, m \in Mantissas, x \in -180..110 : call' = <<"floatround", F!Finite(sign, m, x)>>
FloatPlace ==
  \E size, offset \in 0..6, le, wide \in BOOLEAN, v \in {F!NaN, F!Infinity(1), F!Finite(0, 0, 0), F!Finite(1, 3, -2)} :
    call' = <<"floatplace", [i \in 1..size |-> i], v, offset, le, IF wide THEN <<23, 4>> ELSE <<10, 2>>>>

\* Memory: one of four bytes, and all that can be made a Buffer of.
Views == {[Y!View(1, at, n) EXCEPT !.width = w] : at \in {0, 1, 2}, n \in 0..4, w \in {1, 2}}
InMemory == {v \in Views : v.at % v.width = 0 /\ v.at + v.n * v.width <= 4}
Kinds == InMemory \cup {[kind |-> k] : k \in {"dataview", "holder", "null", "object"}}
         \cup {[kind |-> "memory", mem |-> m] : m \in 1..2}
         \cup {[kind |-> "number", n |-> n] : n \in {Y!NotANumber, -1, 0, 3, Y!KMaxLength}}
         \cup {[kind |-> "list", length |-> l, items |-> <<1, 256, -1>>] : l \in {Y!NotANumber, -1, 0, 2, 5, Y!KMaxLength}}
         \cup {[kind |-> "json", items |-> items] : items \in Texts({1, 300}, 2)}
MadeFrom == \E value \in Kinds, args \in Texts(-1..5, 2), boxes \in 0..2 :
              call' = <<"from", << <<1, 2, 3, 4>>, << >> >>,
                        IF boxes = 0 THEN value ELSE IF boxes = 1 THEN [kind |-> "boxed", inner |-> value]
                        ELSE [kind |-> "boxed", inner |-> [kind |-> "boxed", inner |-> value]], args>>
Shared == \E arr \in InMemory, start, end \in -5..5 : call' = <<"share", << <<1, 2, 3, 4>> >>, arr, start, end>>
Sized == \E size \in {Y!NotANumber} \cup -2..(Y!KMaxLength + 2), fill \in Texts({1, 2}, 3) :
           call' = <<"size", << <<1, 2>> >>, size, fill>>

\* Values at the ends of a word, the names of encodings and some that are none.
Value == \E value \in [is : {"integer", "octal"}, n : -70..70] \cup [is : {"fraction", "text", "nothing"}],
            min \in {A!Int32Min, -1, 0, 1}, max \in {0, 1, A!Int32Max} :
           (value.is = "octal" => value.n >= 0) /\ call' = <<"value", value, min, max>>
EncodingName == \E name \in DOMAIN A!NormalName \cup {"utf", "utf-", "utf16", "ucs", "base", "buffer", "hexx", "latin", "unicode"} :
                  call' = <<"encoding", name>>
Hex == \E code \in 0..255 : call' = <<"hex", code>>
Get == \E target \in UNION {[ps -> BOOLEAN] : ps \in SUBSET {<<"a">>, <<"b">>, <<"a", "a">>, <<"a", "b">>, <<"a", "b", "a">>}},
          path \in Texts({"a", "b"}, 3) :
         path # << >> /\ call' = <<"get", target, path>>
Type == \E words \in Texts({"", "0", "-0", "1", "01", "-1", "+1", "10", "1a", "-", "--1", "true", "True", "null", "NaN"}, 3) :
          call' = <<"type", words>>

ListCalls == \E calls \in Texts({<<"push", 1>>, <<"push", 2>>, <<"unshift", 1>>, <<"unshift", 2>>, <<"shift", 1>>,
                                <<"clear", 0>>, <<"consume", 1>>, <<"consume", 2>>, <<"consume", 3>>}, 5) :
               call' = <<"list", calls>>

BufferLaws(asked) ==
  CASE asked[1] = "number"  -> B!NumberLaws(asked[2], asked[3], asked[4], asked[5], asked[6], asked[7])
    [] asked[1] = "swap"    -> B!SwapLaws(asked[2], asked[3])
    [] asked[1] = "compare" -> B!CompareLaws(asked[2], asked[3], asked[4], asked[5], asked[6])
    [] asked[1] = "copy"    -> B!CopyLaws(asked[2], asked[3], asked[4], asked[5], asked[6], asked[7])
    [] asked[1] = "concat"  -> B!ConcatLaws(asked[2], asked[3])
    [] asked[1] = "fill"    -> B!FillLaws(asked[2], asked[3], asked[4], asked[5])
    [] asked[1] = "index"   -> B!IndexLaws(asked[2], asked[3], asked[4], asked[5], asked[6])
    [] asked[1] = "utf8"    -> E!Utf8Laws(asked[2], asked[3])
    [] asked[1] = "decode"  -> E!DecodeLaws(asked[2])
    [] asked[1] = "bytes"   -> E!BytesLaws(asked[2])
    [] asked[1] = "base64"  -> E!Base64Laws(asked[2], asked[3])
    [] asked[1] = "write"   -> E!WriteLaws(asked[2], asked[3], asked[4], asked[5], asked[6])
    [] asked[1] = "from"    -> Y!FromLaws(asked[2], asked[3], asked[4])
    [] asked[1] = "share"   -> Y!ShareLaws(asked[2], asked[3], asked[4], asked[5])
    [] asked[1] = "size"    -> Y!SizeLaws(asked[2], asked[3], asked[4])
    [] asked[1] = "list"    -> L!ListLaws(asked[2])
    [] asked[1] = "floatbytes" -> F!BytesLaws(asked[2], asked[3])
    [] asked[1] = "floatround" -> F!RoundingLaws(asked[2], 23, 4)
    [] asked[1] = "floatplace" -> F!PlaceLaws(asked[2], asked[3], asked[4], asked[5], asked[6][1], asked[6][2])
    [] OTHER               -> TRUE

\* Buffer (internal/buffer.js, internal/base64.js, BufferList): numbers, copies, comparisons and
\* searches do what they say at every edge of a buffer; what is written in an encoding is
\* what is read, ill-formed text and bytes become U+FFFD and no character is cut; a list
\* of chunks keeps all of them in order.
BufferAgrees == [][\A asked \in {call'} : BufferLaws(asked)]_vars

-----------------------------------------------------------------------------
(* Texts.                                                                  *)

Segments == {<<1>>, <<2, 1, 0, 3>>, <<0, 0, 2, 1, 1>>}

Percent == \E s \in Texts({37, 65, 71, 233, 8364, 55357, 56832}, 4) : call' = <<"percent", s>>
Format == \E f \in Texts({0, 1, 2}, 6), n \in 0..3 : call' = <<"format", f, n>>
Words == \E s \in Texts({32, 34, 39, 92, 97}, 5) : call' = <<"words", s>>
Paths == \E s \in Texts({46, 47, 97}, 5) : call' = <<"path", s>>
VersionOrder == \E a, b, c \in Texts({0, 1}, 3) : call' = <<"version", a, b, c>>
Vlq == \E m, n \in 0..70 : call' = <<"vlq", m, n>>
Mappings == \E lines \in Texts(Texts(Segments, 2), 3) : call' = <<"mappings", lines>>

\* Commands 2 to 4 below command 1, siblings with different names; the second may have
\* an alias.
Word(low, plain) == [low |-> low, plain |-> plain]
CommandNames == {Word("a", TRUE), Word("b", TRUE), Word("b", FALSE)}
Trees == {
  LET up == [k \in 2..4 |-> IF k = 2 THEN 1 ELSE IF k = 3 THEN u ELSE v]
      deep[k \in 1..4] == IF k = 1 THEN 0 ELSE deep[up[k]] + 1
      names == <<Word("top", TRUE), n2, n3, n4>>
      sub(k) == [name |-> names[k], aliases |-> IF k = 2 THEN aliases ELSE {}, command |-> k]
      kids(k) == {j \in 2..4 : up[j] = k}
  IN [k \in 1..4 |-> [depth |-> deep[k], subs |-> LET js == SetToSortSeq(kids(k), <)
                                                 IN [i \in DOMAIN js |-> sub(js[i])]]]
  : u \in 1..2, v \in 1..3, n2, n3, n4 \in CommandNames, aliases \in {{}, {Word("c", TRUE)}} }
Siblings(tree) == \A k \in 1..4 : \A i, j \in DOMAIN tree[k].subs :
                    i # j => tree[k].subs[i].name.low # tree[k].subs[j].name.low
CommandWords == CommandNames \cup {Word("c", TRUE), Word("a", FALSE)}
CommandLine == \E tree \in Trees, args \in Texts(CommandWords, 3) : Siblings(tree) /\ call' = <<"command", tree, args>>
Exact(tree, args) == /\ \A k \in 1..4 : \A i \in DOMAIN tree[k].subs : tree[k].subs[i].aliases = {}
                     /\ \A k \in 1..4 : \A i \in DOMAIN tree[k].subs : tree[k].subs[i].name.plain
                     /\ \A i \in DOMAIN args : args[i].plain

\* Files around two directories of a program and of the library, and what package.json says.
Places == {<<"/", "s", "a">>, <<"/", "s", "a.js">>, <<"/", "s", "a.ts">>, <<"/", "s", "a.d.js">>, <<"/", "s", "a", "index.js">>,
           <<"/", "s", "node_modules", "a", "index.js">>, <<"/", "s", "b", "node_modules", "a.js">>,
           <<"/", "s", "b", "node_modules", "a">>, <<"lib", "a.js">>, <<"src", "node_modules", "a">>, <<"node_modules", "a", "m.js">>}
Above(f) == {SubSeq(f, 1, n) : n \in 1..(Len(f) - 1)}
Disks == {files \in SUBSET Places : Cardinality(files) <= 3 /\ \A f \in files : Above(f) \cap files = {}}
Disk(files, main) ==
  LET dirs == {<< >>} \cup UNION {Above(f) : f \in files}
  IN [files |-> files, dirs |-> dirs, main |-> [d \in {x \in dirs : main # <<"none">>} |-> main]]
Requests == {<<"a">>, <<".", "a">>, <<"..", "a">>, <<"a.js">>, <<".", "a.js">>, <<"/", "s", "a">>, <<"a", "index">>,
             <<".">>, <<"..", "b", ".", "a">>}
Parents == {<<"/", "s", "x.js">>, <<"/", "s", "b", "x.ts">>, <<"src", "x.js">>, <<"lib", "x">>}
File == \E files \in Disks, main \in {<<"none">>, << >>, <<"m">>, <<"index.js">>}, request \in Requests, parent \in Parents :
          (main # <<"none">> => \E f \in files : Len(f) > 2) /\ call' = <<"file", Disk(files, main), request, parent>>
Far == \E n \in 0..9, k \in 0..9, root \in {<< >>, <<"/">>} :
         LET dir(i) == root \o [j \in 1..i |-> "d"]
         IN k <= n /\ call' = <<"file", Disk({dir(k) \o <<"node_modules", "a">>}, <<"none">>), <<"a">>, dir(n) \o <<"x.js">>>>
Paths2 == {p \in Texts({"/", "a", ".", ".."}, 3) : \A i \in 2..Len(p) : p[i] # "/"}
Resolve == \E p, q, r \in Paths2 : call' = <<"resolve", p, q, r>>
Class == \E start \in {"", "@java/", "@lib/", "./", "internal/"}, first \in {"bukkit", "java", "bungee", "constructor", "a"},
            rest \in {"", "/b", ".b", "\\b", "/b.c/D", ".b.c.D"} :
           call' = <<"class", Disk({}, <<"none">>), start \o first \o rest, <<"lib", "x.js">>>>
Strip == \E s \in Texts({"#", "!", "LF", "CR", "BOM", "c"}, 5) : call' = <<"strip", s>>
Natives == \E deps \in [{"p", "q", "r"} -> Texts({"p", "q", "r"}, 2)], broken \in SUBSET {"q", "r"}, first, second \in {"p", "q"} :
             call' = <<"native", deps, broken, first, second>>

\* Two files, one with a resource of its name; calls of two kinds of names.
Filename(root, file) == [root |-> root, file |-> file]
Filenames == {Filename(FALSE, "a"), Filename(TRUE, "a"), Filename(FALSE, "b")}
Contents == {<< >>, <<97>>, <<97, 10>>, <<10, 98>>}
FileCalls == [op : {"write", "append"}, filename : Filenames, content : Contents]
             \cup [op : {"writeAt"}, filename : Filenames, content : Contents, position : -1..1]
InFiles ==
  \E text \in Texts({97, 10}, 3), calls \in Texts(FileCalls, 2), f, g \in Filenames, third \in BOOLEAN :
    /\ Len(calls) = 2 => calls[1].filename = Filename(FALSE, "a") /\ Len(text) = 1
    /\ third => Len(calls) = 2
    /\ call' = <<"files", [x \in {Filename(FALSE, "a")} |-> text],
                IF third THEN Append(calls, [op |-> "append", filename |-> g, content |-> <<97>>]) ELSE calls, f>>

\* A disk with two names at two levels, and a call on a place two levels deep.
DiskPlaces == {<<a>> : a \in {"a", "b"}} \cup {<<a, b>> : a, b \in {"a", "b"}} \cup {<<"a", "a", "b">>}
Tree == {[p \in ps |-> IF p \in files THEN <<"x">> ELSE G!Dir] : ps \in SUBSET DiskPlaces, files \in SUBSET DiskPlaces}
Spellings == {<< >>, <<"a">>, <<"b", "/">>, <<"a", "/", "b">>, <<"\\", "a", "\\", "a">>, <<"a", "\\", "a", "/", "b">>,
              <<"b", "/", "/", "a">>}
DiskCalls == [op : {"exists", "stat", "mkdir", "readdir", "rmdir", "readFile", "unlink"}, path : Spellings]
             \cup [op : {"rename"}, path : Spellings, to : Spellings]
             \cup [op : {"writeFile"}, path : Spellings, text : {<< >>, <<"y">>}]
OnDisk == \E disk \in {d \in Tree : G!WellFormed(d)}, c \in DiskCalls, callback \in {"none", "returns", "throws"} :
            call' = <<"disk", disk, c, callback>>

TextsLaws(asked) ==
  CASE asked[1] = "percent"  -> T!EncodeLaws(asked[2], E!HexDigits)
    [] asked[1] = "format"   -> T!FormatLaws(asked[2], asked[3])
    [] asked[1] = "words"    -> T!ArgsLaws(asked[2])
    [] asked[1] = "path"     -> T!PathLaws(asked[2], 47)
    [] asked[1] = "version"  -> T!VersionLaws(asked[2], asked[3], asked[4])
    [] asked[1] = "vlq"      -> T!VlqLaws(asked[2], asked[3], 4)
    [] asked[1] = "mappings" -> T!MappingLaws(asked[2])
    [] asked[1] = "value"    -> A!NumberLaws(asked[2], asked[3], asked[4])
    [] asked[1] = "encoding" -> A!EncodingLaws(asked[2])
    [] asked[1] = "hex"      -> A!HexLaws(asked[2])
    [] asked[1] = "get"      -> A!GetLaws(asked[2], asked[3])
    [] asked[1] = "type"     -> A!TypedLaws(asked[2])
    [] asked[1] = "file"     -> /\ R!SpellingLaws(asked[2], asked[3], asked[4])
                                /\ R!PackageLaws(asked[2], asked[3], asked[4])
    [] asked[1] = "resolve"  -> R!PathLaws(asked[2], asked[3], asked[4])
    [] asked[1] = "class"    -> R!ClassLaws(asked[2], asked[3], asked[4])
    [] asked[1] = "strip"    -> R!StripLaws(asked[2])
    [] asked[1] = "files"    -> D!FileLaws(asked[2], asked[3], asked[4])
    [] asked[1] = "disk"     -> G!FileApiLaws(asked[2], asked[3], asked[4])
    [] asked[1] = "native"   -> R!NativeLaws(asked[2], asked[3], asked[4], asked[5])
    [] asked[1] = "command"  -> C!PathLaws(asked[2], asked[3], Exact(asked[2], asked[3]))
    [] OTHER                -> TRUE

\* Texts (internal/url.js, internal/util.js, command-arg-helper.js, path.js, version.js,
\* com.cauldronjs.sourcemap, _findSubcommandWithArgs and fromPath of command.js) and what
\* a require() names (internal/modules/loader.js, internal/bootstrap/loader.js), the files of
\* an isolate (IsolateFileSystem.java) and the file functions of scripts (internal/fs/core.js):
\* nothing is lost, moved or taken twice, and every spelling of a name leads to the same place.
TextsAgree == [][\A asked \in {call'} : TextsLaws(asked)]_vars

-----------------------------------------------------------------------------
(* HTTP messages.                                                          *)

StartLine(type) == IF type = "REQUEST" THEN {<<"GET", "1.1">>, <<"CONNECT", "1.0">>}
                   ELSE {<<"1.1", "200">>, <<"1.0", "204">>, <<"1.1", "101">>}
Headers == {<<"transfer-encoding", "chunked">>, <<"content-length", "1">>, <<"content-length", "2">>,
            <<"content-length", "gzip">>, <<"connection", "upgrade">>, <<"connection", "keep-alive">>,
            <<"upgrade", "h">>, <<" ", "1">>, <<"x">>}
Tails == {<< >>, <<"1", "CR", "LF", "b", "CR", "LF", "0", "LF", "x", "2", "LF", "LF">>,
          <<"b", "CR", "LF">>, <<"2", "LF", "b", "LF", "LF", "gzip", "CR", "LF", "CR", "LF">>}
Framings == {"chunked", "sized", "raw"}

Cut == \E type \in {"REQUEST", "RESPONSE"}, headers \in Texts(Headers, 2), rest \in Tails, skip \in 0..2 :
         \E start \in StartLine(type) :
           LET text == H!Line(start) \o H!Line(IF headers = << >> THEN <<"x">> ELSE headers[1])
                       \o (IF Len(headers) < 2 THEN << >> ELSE headers[2] \o <<"LF">>)
                       \o <<"CR", "LF">> \o rest
           IN \E i \in 0..Len(text), n \in 0..1 :
                i + n <= Len(text) /\ call' = <<"cut", type, text, i, i + n, skip>>
Message == \E type \in {"REQUEST", "RESPONSE"}, framing \in Framings,
              headers \in {<< >>, << <<"x", "1">> >>, << <<"connection", "keep-alive">>, <<"x">> >>},
              parts \in Texts(Texts({"b", "CR", "LF"}, 2) \ {<< >>}, 2) :
             LET start == IF type = "REQUEST" THEN <<"GET", "1.1">> ELSE <<"1.1", "200">>
                 text == H!Wire(start, headers, framing, parts)
             IN /\ (framing = "sized" => Len(parts) <= 1) /\ (framing = "raw" => type = "RESPONSE")
                /\ \E i \in 0..Len(text) : call' = <<"message", type, start, headers, framing, parts, i>>

\* The polling server's requests, of header lines and other lines, and its responses.
HeaderLines == {Q!Header("Content-Length", "3"), Q!Header("content-length", "3"), Q!Header("X", "1"), Q!Header("X", "2")}
Request == \E method \in {"GET", "get"}, headers \in Texts(HeaderLines, 2),
              body \in Texts({Q!Empty, Q!Line("b"), Q!Header("X", "3"), Q!Header("Content-Length", "9")}, 4) :
             call' = <<"request", Q!Start(method, "/", "HTTP/1.1"), headers, body>>
Response ==
  \E set \in SUBSET {"Content-Length", "content-length", "X"}, of \in [{"Content-Length", "content-length", "X"} -> {"", "1"}],
     later \in BOOLEAN, parts \in Texts(Texts({"b", "wide"}, 2) \cup {Q!Nothing}, 3) :
    LET first == Q!NewResponse([headers |-> IF later THEN << >> ELSE [n \in set |-> of[n]]])
        headed == IF later /\ "X" \in set THEN Q!setHeader(first, "X", of["X"]) ELSE first
    IN call' = <<"response", FoldLeft(LAMBDA r, part : Q!write(r, part), headed, parts)>>
Bytes(c) == IF c = "wide" THEN 2 ELSE 1

ParserLaws(asked) ==
  CASE asked[1] = "cut"     -> H!CutLaws(asked[2], asked[3], asked[4], asked[5], asked[6])
    [] asked[1] = "request" -> Q!RequestLaws(asked[2], asked[3], asked[4])
    [] asked[1] = "response" -> Q!ResponseLaws(asked[2], Bytes, "content-length")
    [] asked[1] = "message" -> H!MessageLaws(asked[2], asked[3], asked[4], asked[5], asked[6], asked[7])
    [] OTHER               -> TRUE

\* HTTPParser (internal/http_parser.js): the events and the outcome do not depend on how
\* the input is cut into chunks, and a message comes back as it was sent; a request and a
\* response of the polling server (client_request.js, server_response.js) say what was meant.
ParserAgrees == [][\A asked \in {call'} : ParserLaws(asked)]_vars

\* TLC's workers share the functions between them.
Functions == {"range", "spaced range", "star range", "written", "order", "inc", "partial", "hyphen", "best", "among", "named",
              "question", "number", "swap", "list", "compare",
              "copy", "concat", "fill", "index", "utf8", "decode", "bytes", "base64", "write",
              "floatbytes", "floatround", "floatplace",
              "from", "share", "size", "value", "encoding", "hex", "get", "type",
              "percent", "format", "words", "path", "version", "vlq", "mappings", "command",
              "cut", "message", "request", "response", "files", "file", "far", "resolve", "class", "strip", "native",
              "disk"}
Asked(f) == call = <<"ask", f>>
Next ==
  \/ Asked("order") /\ Order
  \/ Asked("inc") /\ Increase
  \/ Asked("partial") /\ Partial
  \/ Asked("hyphen") /\ Hyphen
  \/ Asked("best") /\ Best
  \/ Asked("among") /\ Among
  \/ Asked("written") /\ Written
  \/ Asked("named") /\ Named
  \/ Asked("range") /\ RangeText("", "")
  \/ Asked("spaced range") /\ RangeText("x", " ")
  \/ Asked("star range") /\ RangeText("*", "")
  \/ Asked("question") /\ Question
  \/ Asked("number") /\ Number
  \/ Asked("swap") /\ SwapBytes
  \/ Asked("list") /\ ListCalls
  \/ Asked("compare") /\ CompareParts
  \/ Asked("copy") /\ CopyPart
  \/ Asked("concat") /\ Join
  \/ Asked("fill") /\ FillPart
  \/ Asked("index") /\ Search
  \/ Asked("utf8") /\ ToUtf8
  \/ Asked("decode") /\ FromUtf8
  \/ Asked("bytes") /\ ToTexts
  \/ Asked("base64") /\ Base64
  \/ Asked("write") /\ WriteText
  \/ Asked("floatbytes") /\ FloatBytes
  \/ Asked("floatround") /\ FloatRound
  \/ Asked("floatplace") /\ FloatPlace
  \/ Asked("from") /\ MadeFrom
  \/ Asked("share") /\ Shared
  \/ Asked("size") /\ Sized
  \/ Asked("value") /\ Value
  \/ Asked("encoding") /\ EncodingName
  \/ Asked("hex") /\ Hex
  \/ Asked("get") /\ Get
  \/ Asked("type") /\ Type
  \/ Asked("percent") /\ Percent
  \/ Asked("format") /\ Format
  \/ Asked("words") /\ Words
  \/ Asked("path") /\ Paths
  \/ Asked("version") /\ VersionOrder
  \/ Asked("vlq") /\ Vlq
  \/ Asked("mappings") /\ Mappings
  \/ Asked("command") /\ CommandLine
  \/ Asked("cut") /\ Cut
  \/ Asked("message") /\ Message
  \/ Asked("request") /\ Request
  \/ Asked("response") /\ Response
  \/ Asked("files") /\ InFiles
  \/ Asked("file") /\ File
  \/ Asked("far") /\ Far
  \/ Asked("resolve") /\ Resolve
  \/ Asked("class") /\ Class
  \/ Asked("strip") /\ Strip
  \/ Asked("native") /\ Natives
  \/ Asked("disk") /\ OnDisk
Init == call \in {<<"ask", f>> : f \in Functions}
Spec == Init /\ [][Next]_vars
=============================================================================
