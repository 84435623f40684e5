------------------------------ MODULE Encodings ------------------------------
(***************************************************************************)
(* Texts as bytes and back: the encodings of Buffer (internal/buffer.js)   *)
(* and base64 (internal/base64.js).  A text written as hex holds digits     *)
(* and other letters, none of the signs or spaces parseInt would skip.      *)
(* A text is a sequence of UTF-16 code units.                              *)
(***************************************************************************)
EXTENDS Integers, Sequences, SequencesExt

Replacement == 65533      \* U+FFFD
IsLead(u)  == u \in 55296..56319
IsTrail(u) == u \in 56320..57343

\* The UTF-8 bytes of a code point.
Utf8(c) ==
  LET cont(m) == 128 + ((c \div m) % 64)
  IN CASE c < 128   -> <<c>>
       [] c < 2048  -> <<192 + (c \div 64), cont(1)>>
       [] c < 65536 -> <<224 + (c \div 4096), cont(64), cont(1)>>
       [] OTHER     -> <<240 + (c \div 262144), cont(4096), cont(64), cont(1)>>

PairOf(lead, trail) == (lead - 55296) * 1024 + (trail - 56320) + 65536

\* utf8ToBytes(): a lead surrogate waits for the next unit, whatever has no partner becomes
\* U+FFFD, and no character is cut when the units run out; 0 units are taken for no limit.
Utf8ToBytes(s, units) ==
  LET room == IF units = 0 THEN 3 * Len(s) + 3 ELSE units
      take(acc, c) ==
        LET left == acc.left - Len(Utf8(c))
        IN [acc EXCEPT !.left = left, !.bytes = IF left >= 0 THEN @ \o Utf8(c) ELSE @]
      step(acc, i) ==
        LET u == s[i]
            unpaired == take(acc, Replacement)
        IN IF IsLead(u)
           THEN IF acc.lead # 0 THEN [unpaired EXCEPT !.lead = u]
                ELSE IF i = Len(s) THEN unpaired
                ELSE [acc EXCEPT !.lead = u]
           ELSE IF IsTrail(u)
           THEN IF acc.lead = 0 THEN unpaired ELSE [take(acc, PairOf(acc.lead, u)) EXCEPT !.lead = 0]
           ELSE [take(IF acc.lead # 0 THEN unpaired ELSE acc, u) EXCEPT !.lead = 0]
  IN FoldLeftDomain(step, [bytes |-> << >>, lead |-> 0, left |-> room], s).bytes

Follows(b, i, n) == \A k \in 1..n : b[i + k] \div 64 = 2

\* The code point whose n bytes begin at i, or -1.
CodePoint(b, i, n) ==
  LET at(k) == b[i + k] % 64
  IN IF i + n - 1 > Len(b) THEN -1
     ELSE CASE n = 1 -> IF b[i] < 128 THEN b[i] ELSE -1
            [] n = 2 -> LET c == (b[i] % 32) * 64 + at(1)
                        IN IF Follows(b, i, 1) /\ c > 127 THEN c ELSE -1
            [] n = 3 -> LET c == (b[i] % 16) * 4096 + at(1) * 64 + at(2)
                        IN IF Follows(b, i, 2) /\ c > 2047 /\ c \notin 55296..57343 THEN c ELSE -1
            [] n = 4 -> LET c == (b[i] % 16) * 262144 + at(1) * 4096 + at(2) * 64 + at(3)
                        IN IF Follows(b, i, 3) /\ c > 65535 /\ c < 1114112 THEN c ELSE -1

\* utf8Slice(): what is no character is U+FFFD, one for each byte.
Utf8Slice(b) ==
  LET from[i \in 1..(Len(b) + 1)] ==
        IF i > Len(b) THEN << >>
        ELSE LET n == IF b[i] > 239 THEN 4 ELSE IF b[i] > 223 THEN 3 ELSE IF b[i] > 191 THEN 2 ELSE 1
                 c == CodePoint(b, i, n)
             IN IF c = -1 THEN <<Replacement>> \o from[i + 1]
                ELSE IF c > 65535
                THEN <<55296 + ((c - 65536) \div 1024), 56320 + ((c - 65536) % 1024)>> \o from[i + n]
                ELSE <<c>> \o from[i + n]
  IN from[1]

Latin1ToBytes(s) == [i \in DOMAIN s |-> s[i] % 256]

Utf16leToBytes(s, units) ==
  LET n == IF 2 * Len(s) <= units THEN Len(s) ELSE units \div 2
  IN [i \in 1..(2 * n) |-> LET u == s[(i + 1) \div 2] IN IF i % 2 = 1 THEN u % 256 ELSE u \div 256]

\* A last byte without its partner makes NaN, which is the unit 0.
Utf16leSlice(b) ==
  [i \in 1..((Len(b) + 1) \div 2) |-> IF 2 * i > Len(b) THEN 0 ELSE b[2 * i - 1] + 256 * b[2 * i]]

Digits == [i \in 0..15 |-> IF i < 10 THEN 48 + i ELSE 87 + i]
HexDigits == 48..57 \cup 65..70 \cup 97..102
HexValue(u) == IF u < 58 THEN u - 48 ELSE IF u < 71 THEN u - 55 ELSE u - 87

HexSlice(b) ==
  [i \in 1..(2 * Len(b)) |-> LET x == b[(i + 1) \div 2] IN Digits[IF i % 2 = 1 THEN x \div 16 ELSE x % 16]]

\* hexWrite(): pairs of digits up to the first that does not begin with one; a digit alone,
\* at the end or before another character, is a byte.
HexToBytes(s, length) ==
  LET digit(k) == k <= Len(s) /\ s[k] \in HexDigits
      limit == IF 2 * length > Len(s) THEN (Len(s) + 1) \div 2 ELSE length
      n == CHOOSE n \in 0..limit : /\ \A i \in 1..n : digit(2 * i - 1)
                                   /\ n < limit => ~digit(2 * n + 1)
  IN [i \in 1..n |-> IF digit(2 * i) THEN 16 * HexValue(s[2 * i - 1]) + HexValue(s[2 * i])
                     ELSE HexValue(s[2 * i - 1])]

-----------------------------------------------------------------------------
(* base64, with its characters as the numbers 0..63; 64 is '=' and 65 a    *)
(* character that is not of the alphabet.                                  *)

EncodeChunk(b, start, end) ==
  FlattenSeq([k \in 1..((end - start) \div 3) |->
    LET i == start + 3 * (k - 1)
        num == b[i + 1] * 65536 + b[i + 2] * 256 + b[i + 3]
    IN <<num \div 262144, (num \div 4096) % 64, (num \div 64) % 64, num % 64>>])

\* fromByteArray(): whole triples, chunk after chunk, and the one or two bytes left.
FromByteArray(b, maxChunkLength) ==
  LET len2 == 3 * (Len(b) \div 3)
      chunks == (len2 + maxChunkLength - 1) \div maxChunkLength
      end(k) == IF k * maxChunkLength > len2 THEN len2 ELSE k * maxChunkLength
      extra == Len(b) % 3
      x == b[Len(b)]
      y == b[Len(b) - 1] * 256 + x
  IN FlattenSeq([k \in 1..chunks |-> EncodeChunk(b, (k - 1) * maxChunkLength, end(k))])
     \o CASE extra = 0 -> << >>
          [] extra = 1 -> <<x \div 4, (x * 16) % 64, 64, 64>>
          [] extra = 2 -> <<y \div 1024, (y \div 16) % 64, (y * 4) % 64, 64>>

Base64Clean(s) ==
  LET ends == {i \in DOMAIN s : s[i] = 64}
      cut == IF ends = {} THEN s ELSE SubSeq(s, 1, (CHOOSE i \in ends : \A j \in ends : i <= j) - 1)
      str == SelectSeq(cut, LAMBDA c : c < 64)
  IN IF Len(str) < 2 THEN << >> ELSE str \o [i \in 1..((4 - (Len(str) % 4)) % 4) |-> 64]

ToByteArray(s) ==
  LET valid == Len(SelectSeq(s, LAMBDA c : c # 64))
      holders == IF valid = Len(s) THEN 0 ELSE 4 - (valid % 4)
      groups == (IF holders > 0 THEN valid - 4 + 3 ELSE valid) \div 4
      i == 4 * groups
      group(k) == LET t == ((s[k + 1] * 64 + s[k + 2]) * 64 + s[k + 3]) * 64 + s[k + 4]
                  IN <<t \div 65536, (t \div 256) % 256, t % 256>>
      whole == FlattenSeq([k \in 1..groups |-> group(4 * (k - 1))])
      rest == CASE holders = 2 -> <<(s[i + 1] * 4 + (s[i + 2] \div 16)) % 256>>
                [] holders = 1 -> LET t == s[i + 1] * 1024 + s[i + 2] * 16 + (s[i + 3] \div 4)
                                  IN <<(t \div 256) % 256, t % 256>>
                [] OTHER       -> << >>
  IN whole \o rest

-----------------------------------------------------------------------------
(* buf.write() and buf.toString().                                         *)

Base64ToBytes(s) == ToByteArray(Base64Clean(s))
Encoded(s, encoding, room, length) ==
  CASE encoding = "utf8"    -> Utf8ToBytes(s, room)
    [] encoding = "utf16le" -> Utf16leToBytes(s, room)
    [] encoding \in {"latin1", "ascii"} -> Latin1ToBytes(s)
    [] encoding = "base64"  -> Base64ToBytes(s)
    [] encoding = "hex"     -> HexToBytes(s, length)

ByteLength(s, encoding) ==
  CASE encoding = "utf16le" -> 2 * Len(s)
    [] encoding \in {"latin1", "ascii"} -> Len(s)
    [] encoding = "hex"     -> Len(s) \div 2
    [] OTHER                -> Len(Encoded(s, encoding, 0, 0))

\* As many of the bytes as fit and are asked for.
Blit(src, dst, offset, length) ==
  LET n == CHOOSE n \in {length, Len(src), Len(dst) - offset} : n <= length /\ n <= Len(src) /\ n <= Len(dst) - offset
  IN [buffer |-> [j \in DOMAIN dst |-> IF j \in (offset + 1)..(offset + n) THEN src[j - offset] ELSE dst[j]],
      returns |-> n]

\* write(string, offset, length, encoding); hexWrite takes a length of 0 for all there is.
Write(b, s, offset, length, encoding) ==
  LET remaining == Len(b) - offset
      asked == IF length > remaining THEN remaining ELSE length
      room == IF encoding = "hex" /\ asked = 0 THEN remaining ELSE asked
  IN IF offset > Len(b) THEN [buffer |-> b, returns |-> -1]
     ELSE Blit(Encoded(s, encoding, remaining, room), b, offset, room)

FromString(s, encoding) ==
  LET size == ByteLength(s, encoding)
      w == Write([i \in 1..size |-> 0], s, 0, size, encoding)
  IN SubSeq(w.buffer, 1, w.returns)

AsciiSlice(b) == [i \in DOMAIN b |-> b[i] % 128]
Latin1Slice(b) == b
Base64Slice(b) == FromByteArray(b, 3)
ToText(b, encoding) ==
  CASE encoding = "utf8"    -> Utf8Slice(b)
    [] encoding = "utf16le" -> Utf16leSlice(b)
    [] encoding = "latin1"  -> Latin1Slice(b)
    [] encoding = "ascii"   -> AsciiSlice(b)
    [] encoding = "base64"  -> Base64Slice(b)
    [] encoding = "hex"     -> HexSlice(b)

\* toString(encoding, start, end): the part that is in the buffer.
PartText(b, encoding, start, end) ==
  LET s == IF start < 0 THEN 0 ELSE start
      e == IF end > Len(b) THEN Len(b) ELSE end
  IN IF s > Len(b) \/ e <= s THEN << >> ELSE ToText(SubSeq(b, s + 1, e), encoding)

\* What inspect() writes between "<Buffer " and ">": all the bytes, as INSPECT_MAX_BYTES is
\* not a property of the object it is read from; a space is the unit 32.
Inspect(b) ==
  LET hex == HexSlice(b)
  IN [i \in 1..(IF b = << >> THEN 0 ELSE 3 * Len(b) - 1) |->
        IF i % 3 = 0 THEN 32 ELSE hex[2 * (i \div 3) + (i % 3)]]

-----------------------------------------------------------------------------
(* What the answers must be.                                               *)

\* The text with every surrogate that has no partner replaced; the last of two or more
\* leads at the end is lost.
WellFormed(s) ==
  LET paired(i) == \/ IsLead(s[i]) /\ i < Len(s) /\ IsTrail(s[i + 1])
                   \/ IsTrail(s[i]) /\ i > 1 /\ IsLead(s[i - 1])
      lost == Len(s) > 1 /\ IsLead(s[Len(s)]) /\ IsLead(s[Len(s) - 1])
  IN [i \in 1..(IF lost THEN Len(s) - 1 ELSE Len(s)) |->
        IF (IsLead(s[i]) \/ IsTrail(s[i])) /\ ~paired(i) THEN Replacement ELSE s[i]]

\* Text goes to UTF-8 and back; when the units run out whole characters are left out.
Utf8Laws(s, units) ==
  LET all == Utf8ToBytes(s, 0)  some == Utf8ToBytes(s, units)
  IN /\ Utf8Slice(all) = WellFormed(s)
     /\ units > 0 =>
          /\ Len(some) <= units
          /\ \E n \in 0..Len(WellFormed(s)) :
               /\ Utf8Slice(some) = SubSeq(WellFormed(s), 1, n)
               /\ \A m \in (n + 1)..Len(WellFormed(s)) :
                    LET longer == SubSeq(WellFormed(s), 1, m)
                    IN WellFormed(longer) = longer => Len(Utf8ToBytes(longer, 0)) > units

\* The well-formed sequences as the Unicode standard lists them (its table 3-7).
Wellformed(b, i, n) ==
  LET lead == b[i]  second == b[i + 1]
      tail(from) == \A k \in from..(n - 1) : b[i + k] \in 128..191
  IN /\ i + n - 1 <= Len(b)
     /\ \/ n = 1 /\ lead < 128
        \/ n = 2 /\ lead \in 194..223 /\ tail(1)
        \/ n = 3 /\ lead \in 224..239 /\ tail(2)
                 /\ second \in (IF lead = 224 THEN 160 ELSE 128)..(IF lead = 237 THEN 159 ELSE 191)
        \/ n = 4 /\ lead \in 240..244 /\ tail(2)
                 /\ second \in (IF lead = 240 THEN 144 ELSE 128)..(IF lead = 244 THEN 143 ELSE 191)

\* utf8Slice() takes for characters what the standard does, and nothing else.
DecodeLaws(b) ==
  LET from[i \in 1..(Len(b) + 1)] ==
        IF i > Len(b) THEN << >>
        ELSE LET good == {n \in 1..4 : Wellformed(b, i, n)}
             IN IF good = {} THEN <<239, 191, 189>> \o from[i + 1]
                ELSE LET n == CHOOSE n \in good : TRUE
                     IN SubSeq(b, i, i + n - 1) \o from[i + n]
  IN Utf8ToBytes(Utf8Slice(b), 0) = from[1]

\* Bytes go to every text and back; base64 in chunks as in one piece, and two parts of a
\* buffer are the texts of the whole.
BytesLaws(b) ==
  /\ \A encoding \in {"hex", "base64", "latin1"} : FromString(ToText(b, encoding), encoding) = b
  /\ Len(b) % 2 = 0 => FromString(ToText(b, "utf16le"), "utf16le") = b
  /\ FromByteArray(b, 3) = FromByteArray(b, 3 * Len(b) + 3)
  /\ Len(ToText(b, "base64")) = 4 * ((Len(b) + 2) \div 3)
  /\ (\A i \in DOMAIN b : b[i] < 128) => FromString(ToText(b, "ascii"), "ascii") = b
  /\ \A i \in -1..(Len(b) + 1) :
       \A encoding \in {"hex", "latin1", "ascii"} \cup (IF i % 2 = 0 THEN {"utf16le"} ELSE {})
                        \cup (IF i % 3 = 0 THEN {"base64"} ELSE {}) :
         PartText(b, encoding, 0, i) \o PartText(b, encoding, i, Len(b) + 2) = ToText(b, encoding)
  /\ FromString(SelectSeq(Inspect(b), LAMBDA u : u # 32), "hex") = b

\* base64 without its padding, or with other characters in between, is the same.
Base64Laws(b, i) ==
  LET s == FromByteArray(b, 3)
      bare == SelectSeq(s, LAMBDA c : c # 64)
  IN /\ ToByteArray(Base64Clean(bare)) = b
     /\ i <= Len(bare) => ToByteArray(Base64Clean(SubSeq(s, 1, i) \o <<65>> \o SubSeq(s, i + 1, Len(s)))) = b

\* write() changes the bytes it counts and no other, and not more than it was asked to,
\* but for hex, where a length of 0 is no limit; in UTF-8 it cuts no character.
WriteLaws(b, s, offset, length, encoding) ==
  LET w == Write(b, s, offset, length, encoding)
  IN IF offset > Len(b) THEN w.buffer = b
     ELSE /\ w.returns \in 0..(Len(b) - offset)
          /\ w.returns <= length \/ (encoding = "hex" /\ length = 0)
          /\ \A j \in DOMAIN b : j \notin (offset + 1)..(offset + w.returns) => w.buffer[j] = b[j]
          /\ LET all == FromString(s, encoding)
                 done == SubSeq(w.buffer, offset + 1, offset + w.returns)
             IN encoding # "hex" => done = SubSeq(all, 1, w.returns)
=============================================================================
