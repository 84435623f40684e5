----------------------------- MODULE Arguments ------------------------------
(***************************************************************************)
(* What functions make of their arguments: the checks of numbers           *)
(* (internal/validators.js), the names of encodings (internal/util.js,     *)
(* internal/buffer.js), the digits of an escape (internal/querystring.js), *)
(* a property by its path and the words of a command that are numbers      *)
(* (get and properlyTypeArray of internal/util.js).                        *)
(***************************************************************************)
EXTENDS Strings, TLC

-----------------------------------------------------------------------------
(* Validators.  A value is an integer [is, n], or of another kind: a       *)
(* fraction (NaN and the infinities are as good), a text of octal digits   *)
(* of the value n, another text, or nothing.  A word has Width bits.       *)

Width == 5       \* bound: stands for 32
SafeInteger == 40 \* bound: stands for 2^53 - 1
Int32Min == -(2 ^ (Width - 1))
Int32Max == 2 ^ (Width - 1) - 1

ToUint32(n) == n % 2 ^ Width
ToInt32(n) == IF ToUint32(n) > Int32Max THEN ToUint32(n) - 2 ^ Width ELSE ToUint32(n)
IsNumber(value) == value.is \in {"integer", "fraction"}
isInt32(value) == value.is = "integer" /\ value.n = ToInt32(value.n)
isUint32(value) == value.is = "integer" /\ value.n = ToUint32(value.n)

OutOfRange == [error |-> "ERR_OUT_OF_RANGE"]
WrongType == [error |-> "ERR_INVALID_ARG_TYPE"]
WrongValue == [error |-> "ERR_INVALID_ARG_VALUE"]

\* def is nothing or the answer for a value of another type.
validateMode(value, def) ==
  IF isUint32(value) THEN value
  ELSE IF IsNumber(value) THEN OutOfRange
  ELSE IF value.is = "octal" THEN [is |-> "integer", n |-> value.n]
  ELSE IF value.is = "text" \/ def.is = "nothing" THEN WrongValue ELSE def

validateInteger(value) ==
  IF ~IsNumber(value) THEN WrongType
  ELSE IF value.is = "fraction" \/ value.n > SafeInteger \/ value.n < -SafeInteger THEN OutOfRange ELSE value
validateInt32(value, min, max) ==
  IF ~IsNumber(value) THEN WrongType
  ELSE IF ~isInt32(value) \/ value.n < min \/ value.n > max THEN OutOfRange ELSE value
validateUint32(value, positive) ==
  IF ~IsNumber(value) THEN WrongType
  ELSE IF ~isUint32(value) \/ (positive /\ value.n = 0) THEN OutOfRange ELSE value
\* These two answer nothing.
validateNumber(value) == IF IsNumber(value) THEN [is |-> "nothing"] ELSE WrongType
validateString(value) == IF value.is \in {"octal", "text"} THEN [is |-> "nothing"] ELSE WrongType

-----------------------------------------------------------------------------
(* Names of encodings, in lower case.                                      *)

NormalName == ("utf8" :> "utf8") @@ ("utf-8" :> "utf8") @@ ("ucs2" :> "utf16le") @@ ("ucs-2" :> "utf16le")
  @@ ("utf16le" :> "utf16le") @@ ("utf-16le" :> "utf16le") @@ ("latin1" :> "latin1") @@ ("binary" :> "latin1")
  @@ ("base64" :> "base64") @@ ("hex" :> "hex") @@ ("ascii" :> "ascii") @@ ("" :> "utf8")
Unknown == "unknown"
normalizeEncoding(enc) == IF enc \in DOMAIN NormalName THEN NormalName[enc] ELSE Unknown
isEncoding(encoding) ==
  encoding \in {"hex", "utf8", "utf-8", "ascii", "latin1", "binary", "base64", "ucs2", "ucs-2", "utf16le", "utf-16le"}

-----------------------------------------------------------------------------
(* The tables of the codes 0 to 255.                                       *)

HexDigit(n) == Char("0123456789ABCDEF", n + 1)
hexTable == [i \in 0..255 |-> "%" \o HexDigit(i \div 16) \o HexDigit(i % 16)]
isHexTable == [i \in 0..255 |-> IF i \in 48..57 \cup 65..70 \cup 97..102 THEN 1 ELSE 0]

-----------------------------------------------------------------------------
(* get(target, 'a.b'): the truth of the value at each path of the target.  *)
(* The answer is the path whose value it is.                               *)

get(target, path) ==
  LET up(i) == SubSeq(path, 1, i)
      stops == {i \in 1..Len(path) : up(i) \notin DOMAIN target \/ ~target[up(i)]}
  IN IF stops = {} THEN path ELSE up(CHOOSE i \in stops : \A j \in stops : i <= j)

-----------------------------------------------------------------------------
(* properlyTypeArray().                                                    *)

Decimals == {"0", "1", "2", "3", "4", "5", "6", "7", "8", "9"}
\* parseInt() of a text without spaces: a sign, and the digits up to another character;
\* 0x begins a hexadecimal number, which is never written the way it is read.
ParseInt(text) ==
  LET negative == StartsWith(text, "-")
      signed == negative \/ StartsWith(text, "+")
      digits == IF signed THEN Tail(Chars(text)) ELSE Chars(text)
      n == CHOOSE n \in 0..Len(digits) : /\ \A i \in 1..n : digits[i] \in Decimals
                                         /\ n < Len(digits) => digits[n + 1] \notin Decimals
      value == FoldLeft(LAMBDA v, c : 10 * v + (CHOOSE d \in 0..9 : ToString(d) = c), 0, SubSeq(digits, 1, n))
  IN IF n = 0 THEN [is |-> "NaN"] ELSE [is |-> "integer", n |-> IF negative THEN -value ELSE value]

Typed(item) ==
  LET n == ParseInt(item)
  IN IF n.is = "integer" /\ ToString(n.n) = item THEN n
     ELSE IF item \in {"true", "false", "null"} THEN [is |-> "word", text |-> item]
     ELSE [is |-> "text", text |-> item]
properlyTypeArray(array) == [i \in DOMAIN array |-> Typed(array[i])]

\* The validators a command may ask of a word; << >> is no word at all.
boolean(words) == words = << >> \/ words[1] \in {"true", "false"}
number(words, from, to) ==
  LET n == ParseInt(words[1]) IN words # << >> /\ n.is = "integer" /\ n.n \in from..to
any(words, options) == words # << >> /\ words[1] \in options

-----------------------------------------------------------------------------
(* What a reader expects.                                                  *)

\* A number is accepted if it is a whole one in its range, and is answered as it came; the
\* two kinds of words meet in the positive integers, and a mode is nothing but a word.
NumberLaws(value, min, max) ==
  LET whole == value.is = "integer"
      int == validateInt32(value, min, max)
      word == validateUint32(value, FALSE)
      mode == validateMode(value, [is |-> "nothing"])
  IN /\ int = value <=> whole /\ value.n \in min..max /\ value.n \in Int32Min..Int32Max
     /\ word = value <=> whole /\ value.n \in 0..(2 ^ Width - 1)
     /\ (int = value /\ min >= 1) => validateUint32(value, TRUE) = value
     /\ (word = value \/ int = value) => validateInteger(value) = value
     /\ IsNumber(value) => mode = word
     /\ validateNumber(value) # WrongType <=> WrongType \notin {int, word, validateInteger(value)}
     /\ validateNumber(value) = WrongType \/ validateString(value) = WrongType

\* Every name that Buffer takes for an encoding has one normal name, which is one of them.
EncodingLaws(name) ==
  /\ name # "" => (isEncoding(name) <=> normalizeEncoding(name) # Unknown)
  /\ isEncoding(name) => /\ isEncoding(normalizeEncoding(name))
                         /\ normalizeEncoding(normalizeEncoding(name)) = normalizeEncoding(name)

\* An escape is read by its digits: both are hexadecimal and name the code.
HexLaws(code) ==
  LET text == hexTable[code]
      codeOf(c) == CHOOSE k \in 48..102 : \/ k < 58 /\ c = ToString(k - 48)
                                          \/ k \in 65..70 /\ c = Char("ABCDEF", k - 64)
      value(c) == IF codeOf(c) < 58 THEN codeOf(c) - 48 ELSE codeOf(c) - 55
  IN /\ Len(text) = 3 /\ isHexTable[codeOf(Char(text, 2))] = 1 /\ isHexTable[codeOf(Char(text, 3))] = 1
     /\ 16 * value(Char(text, 2)) + value(Char(text, 3)) = code

\* get() finds what is there, and else something false: the nearest thing above it.
GetLaws(target, path) ==
  LET answer == get(target, path)
      above == {SubSeq(path, 1, i) : i \in 1..(Len(path) - 1)}
  IN /\ IsPrefix(answer, path)
     /\ (above \subseteq DOMAIN target /\ \A p \in above : target[p]) <=> answer = path
     /\ answer # path => answer \notin DOMAIN target \/ ~target[answer]

\* No word of a command changes: what became a number is written as it was.  A validator
\* accepts what the command then gets as a value of its kind, and a number with more behind.
TypedLaws(array) ==
  LET typed == properlyTypeArray(array)
      back(v) == IF v.is = "integer" THEN ToString(v.n) ELSE v.text
  IN /\ [i \in DOMAIN typed |-> back(typed[i])] = array
     /\ \A i \in DOMAIN array, j \in DOMAIN array : typed[i] = typed[j] <=> array[i] = array[j]
     /\ \A i \in DOMAIN array :
          /\ boolean(<<array[i]>>) <=> typed[i].is = "word" /\ typed[i].text # "null"
          /\ typed[i].is = "integer" => (number(<<array[i]>>, 0, 1) <=> typed[i].n \in 0..1)
          /\ number(<<array[i]>>, -9, 9) => typed[i].is # "word" /\ array[i] \notin {"", "-"}
          /\ any(<<array[i]>>, {"1", "true"}) => boolean(<<array[i]>>) \/ number(<<array[i]>>, 1, 1)
=============================================================================
