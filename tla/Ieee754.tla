------------------------------ MODULE Ieee754 ------------------------------
(***************************************************************************)
(* Floating-point numbers in buffers (internal/ieee754.js, writeFloat,     *)
(* writeDouble and their like in internal/buffer.js), for a mantissa of    *)
(* mLen bits in n bytes.  A number is a record: a NaN, an infinity or      *)
(* m * 2^x, each with its sign.  The code knows (23, 4) and (52, 8); here  *)
(* (10, 2) stands for the latter, whose numbers are those of the language  *)
(* and need no rounding.                                                   *)
(***************************************************************************)
EXTENDS Integers, Sequences, SequencesExt

RangeError == [kind |-> "RangeError"]
Thrown == -1     \* the offset after nothing was written
Finite(s, m, x) == [kind |-> "finite", sign |-> s, m |-> m, x |-> x]
Infinity(s) == [kind |-> "infinity", sign |-> s]
NaN == [kind |-> "nan"]

ELen(mLen, n) == n * 8 - mLen - 1
EMax(mLen, n) == 2 ^ ELen(mLen, n) - 1
EBias(mLen, n) == EMax(mLen, n) \div 2

Big(bytes) == FoldLeft(LAMBDA v, byte : v * 256 + byte, 0, bytes)

\* The sign and the exponent are in the first bytes, which may hold a part of the mantissa.
ReadNumber(bytes, isLE, mLen) ==
  LET n == Len(bytes)
      b == IF isLE THEN Reverse(bytes) ELSE bytes
      first == (ELen(mLen, n) + 8) \div 8
      rest == 8 * first - 1 - ELen(mLen, n)
      top == Big(<<b[1] % 128>> \o SubSeq(b, 2, first))
      s == b[1] \div 128
      e == top \div 2 ^ rest
      m == (top % 2 ^ rest) * 256 ^ (n - first) + Big(SubSeq(b, first + 1, n))
      bias == EBias(mLen, n)
  IN IF e = 0 THEN Finite(s, m, 1 - bias - mLen)
     ELSE IF e = EMax(mLen, n) THEN IF m # 0 THEN NaN ELSE Infinity(s)
     ELSE Finite(s, m + 2 ^ mLen, e - bias - mLen)

\* floor(m / 2^k), or floor(m / 2^k + 1/2): for a mantissa of 23 bits the code adds 2^-77
\* less than half a unit, which a double cannot tell from half a unit.
Shifted(m, k, half) ==
  IF k <= 0 THEN m * 2 ^ (-k)
  ELSE IF k > 28 THEN 0
  ELSE IF half THEN (m + 2 ^ (k - 1)) \div 2 ^ k ELSE m \div 2 ^ k

Log2(m) == CHOOSE k \in 0..30 : 2 ^ k <= m /\ m \div 2 < 2 ^ k

\* The exponent field and the mantissa field of a number.
Fields(v, mLen, n) ==
  LET eMax == EMax(mLen, n)  bias == EBias(mLen, n)  half == mLen = 23
      e0 == Log2(v.m) + v.x
      unit == (IF e0 + bias >= 1 THEN e0 ELSE 1 - bias) - mLen
      rounded == IF e0 > bias THEN 0 ELSE Shifted(v.m, unit - v.x, half)
      e == IF rounded = 2 ^ (mLen + 1) \/ (e0 + bias < 1 /\ rounded = 2 ^ mLen) THEN e0 + 1 ELSE e0
  IN IF v.kind = "nan" THEN [e |-> eMax, m |-> 1]
     ELSE IF v.kind = "infinity" THEN [e |-> eMax, m |-> 0]
     ELSE IF v.m = 0 THEN [e |-> 0, m |-> 0]
     ELSE IF e + bias >= eMax THEN [e |-> eMax, m |-> 0]
     ELSE IF rounded >= 2 ^ mLen THEN [e |-> (IF e + bias >= 1 THEN e + bias ELSE 1), m |-> rounded % 2 ^ mLen]
     ELSE [e |-> 0, m |-> rounded]

WriteNumber(v, isLE, mLen, n) ==
  LET f == Fields(v, mLen, n)
      low == mLen \div 8
      high == f.e * 2 ^ (mLen % 8) + f.m \div 256 ^ low
      byte(i) == IF i <= low THEN (f.m \div 256 ^ (i - 1)) % 256 ELSE (high \div 256 ^ (i - low - 1)) % 256
      sign == IF v.kind # "nan" /\ v.sign = 1 THEN 128 ELSE 0
      bytes == [i \in 1..n |-> byte(i) + (IF i = n THEN sign ELSE 0)]
  IN IF isLE THEN bytes ELSE Reverse(bytes)

\* readFloatLE and its like, writeFloat and its like: the value is not compared with what
\* the format can hold.
ReadFloat(b, offset, isLE, mLen, n) ==
  IF offset < 0 \/ offset + n > Len(b) THEN RangeError ELSE ReadNumber(SubSeq(b, offset + 1, offset + n), isLE, mLen)
WriteFloat(b, v, offset, isLE, mLen, n) ==
  IF offset < 0 \/ offset + n > Len(b) THEN [buffer |-> b, returns |-> Thrown]
  ELSE LET bytes == WriteNumber(v, isLE, mLen, n)
       IN [buffer |-> [i \in DOMAIN b |-> IF i > offset /\ i <= offset + n THEN bytes[i - offset] ELSE b[i]],
           returns |-> offset + n]

-----------------------------------------------------------------------------
(* What a reader expects.                                                  *)

\* Every pattern of bytes is written as it was read, in either order, a NaN as a NaN; and
\* the pattern after it is the next number.
BytesLaws(b, mLen) ==
  LET n == Len(b)
      v == ReadNumber(b, FALSE, mLen)
      next == ReadNumber([b EXCEPT ![n] = @ + 1], FALSE, mLen)
  IN /\ IF v.kind = "nan" THEN ReadNumber(WriteNumber(v, FALSE, mLen, n), FALSE, mLen) = v
        ELSE WriteNumber(v, FALSE, mLen, n) = b
     /\ ReadNumber(Reverse(b), TRUE, mLen) = v
     /\ WriteNumber(v, TRUE, mLen, n) = Reverse(WriteNumber(v, FALSE, mLen, n))
     /\ (b[n] < 255 /\ v.kind = "finite") =>
          \/ next.kind = "finite" /\ next.x = v.x /\ next.m = v.m + 1
          \/ next.kind = "finite" /\ next.x = v.x + 1 /\ 2 * next.m = v.m + 1
          \/ next.kind = "infinity" /\ v.m = 2 ^ (mLen + 1) - 1

\* A number that the format cannot hold becomes the nearest one of its sign - away from
\* zero if two are as near - or an infinity beyond the largest.
RoundingLaws(v, mLen, n) ==
  LET r == ReadNumber(WriteNumber(v, TRUE, mLen, n), TRUE, mLen)
      largest == EBias(mLen, n)
      k == r.x - v.x
  IN /\ r.sign = v.sign
     /\ r.kind = "infinity" => Log2(v.m) + v.x >= largest
     /\ r.kind = "finite" =>
          /\ Log2(v.m) + v.x <= largest
          /\ k <= 0 => r.m = v.m * 2 ^ (-k)
          /\ (k > 0 /\ k <= 28) => LET off == r.m * 2 ^ k - v.m IN off <= 2 ^ (k - 1) /\ -off < 2 ^ (k - 1)
          /\ k > 28 => r.m = 0

\* A number touches its own bytes and no others, and does not reach over the end.
PlaceLaws(b, v, offset, isLE, mLen, n) ==
  LET w == WriteFloat(b, v, offset, isLE, mLen, n)
      read == ReadFloat(w.buffer, offset, isLE, mLen, n)
  IN /\ w.returns = Thrown <=> read = RangeError
     /\ w.returns = Thrown <=> offset + n > Len(b)
     /\ w.returns = Thrown => w.buffer = b
     /\ w.returns # Thrown => /\ read = ReadNumber(WriteNumber(v, TRUE, mLen, n), TRUE, mLen)
                              /\ \A i \in DOMAIN b : i <= offset \/ i > offset + n => w.buffer[i] = b[i]
=============================================================================
