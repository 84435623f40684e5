------------------------------- MODULE Buffer -------------------------------
(***************************************************************************)
(* Buffer (internal/buffer.js) as the bytes it holds: numbers in it, swaps, *)
(* comparison, slices, copy, fill, concat and the search for bytes.  A      *)
(* buffer is a sequence of 0..255 whose first byte has the offset 0; the    *)
(* strings written to it and read from it are in module Encodings.  A       *)
(* number has at most 24 bits; calls with noAssert are left out.            *)
(***************************************************************************)
EXTENDS Integers, Sequences, SequencesExt

\* A RangeError, where a number or where a sequence is the answer.
Thrown     == -999999999
RangeError == <<Thrown>>

At(b, i) == b[i + 1]
Size(b)  == Len(b)
Lesser(m, n) == IF m < n THEN m ELSE n
\* The buffer b with f(i) at the offsets i of S.
Written(b, S, f(_)) == [j \in DOMAIN b |-> IF j - 1 \in S THEN f(j - 1) ELSE b[j]]

-----------------------------------------------------------------------------
(* Numbers of n bytes at an offset, the lowest byte first (LE) or last.    *)

\* The place of the i-th byte, counted from the lowest.
Place(off, n, le, i) == off + (IF le THEN i ELSE n - 1 - i)

OffsetFits(b, off, n) == off >= 0 /\ off + n <= Size(b)

Unsigned(b, off, n, le) ==
  FoldLeftDomain(LAMBDA val, i : val * 256 + At(b, Place(off, n, le, n - i)), 0,
                 [i \in 1..n |-> i])

\* readUIntLE and its like.
ReadUInt(b, off, n, le) == IF OffsetFits(b, off, n) THEN Unsigned(b, off, n, le) ELSE Thrown

\* readIntLE and its like: the highest byte counts as negative from 128 on.
ReadInt(b, off, n, le) ==
  IF ~OffsetFits(b, off, n) THEN Thrown
  ELSE LET val == Unsigned(b, off, n, le)
       IN IF val >= 128 * 256 ^ (n - 1) THEN val - 256 ^ n ELSE val

IntFits(b, v, off, n, max, min) == v <= max /\ v >= min /\ off + n <= Size(b)

Result(b, off, n, le, byte(_)) ==
  [buffer |-> Written(b, off..(off + n - 1), LAMBDA i : byte(IF le THEN i - off ELSE n - 1 - (i - off))),
   returns |-> off + n]
Refused(b) == [buffer |-> b, returns |-> Thrown]

WriteUInt(b, v, off, n, le) ==
  IF IntFits(b, v, off, n, 256 ^ n - 1, 0)
  THEN Result(b, off, n, le, LAMBDA i : (v \div 256 ^ i) % 256)
  ELSE Refused(b)

\* value / mul >> 0 rounds towards 0.
Trunc(v, m) == IF v < 0 THEN -((-v) \div m) ELSE v \div m

\* writeIntLE and its like: once a byte of a negative value is not 0, the rounding of the
\* bytes above it is corrected by one.
SignedBytes(v, n) ==
  LET bytes[i \in 0..(n - 1)] ==
        LET sub == IF v < 0 /\ \E j \in 0..(i - 1) : bytes[j] # 0 THEN 1 ELSE 0
        IN (Trunc(v, 256 ^ i) - sub) % 256
  IN bytes

WriteInt(b, v, off, n, le) ==
  LET limit == 128 * 256 ^ (n - 1)  bytes == SignedBytes(v, n)
  IN IF IntFits(b, v, off, n, limit - 1, -limit)
     THEN Result(b, off, n, le, LAMBDA i : bytes[i])
     ELSE Refused(b)

\* writeInt8, writeInt16LE and their like shift the value instead.
WriteIntShifted(b, v, off, n, le) ==
  LET limit == 128 * 256 ^ (n - 1)
  IN IF IntFits(b, v, off, n, limit - 1, -limit)
     THEN Result(b, off, n, le, LAMBDA i : (v \div 256 ^ i) % 256)
     ELSE Refused(b)

\* swap16, swap32 and swap64, with n the bytes of a number.
Swap(b, n) ==
  IF Size(b) % n # 0 THEN RangeError
  ELSE Written(b, 0..(Size(b) - 1), LAMBDA i : At(b, i - (i % n) + (n - 1 - (i % n))))

-----------------------------------------------------------------------------
(* Parts of buffers.                                                       *)

\* slice(): negative offsets count from the end, all are clamped; the bytes are shared.
Clamp(i, size) == IF i < 0 THEN (IF i + size < 0 THEN 0 ELSE i + size) ELSE Lesser(i, size)
Slice(b, start, end) ==
  LET s == Clamp(start, Size(b))  e == Clamp(end, Size(b)) IN SubSeq(b, s + 1, e)

Sign(n) == IF n < 0 THEN -1 ELSE IF n > 0 THEN 1 ELSE 0
Order(a, b) ==
  LET differ == {i \in DOMAIN a \cap DOMAIN b : a[i] # b[i]}
  IN IF differ = {} THEN Sign(Len(a) - Len(b))
     ELSE LET i == CHOOSE i \in differ : \A j \in differ : i <= j IN Sign(a[i] - b[i])

\* buf.compare(target, start, end, thisStart, thisEnd).
Compare(b, target, start, end, thisStart, thisEnd) ==
  IF start < 0 \/ end > Size(target) \/ thisStart < 0 \/ thisEnd > Size(b) THEN Thrown
  ELSE IF thisStart >= thisEnd THEN IF start >= end THEN 0 ELSE -1
  ELSE IF start >= end THEN 1
  ELSE Order(Slice(b, thisStart, thisEnd), Slice(target, start, end))

\* buf.copy(target, targetStart, start, end) of two windows <<offset, size>> of one memory.
\* Both copyWithin and Uint8Array.set act as if through a temporary copy.
Copy(mem, this, target, tStart, start, end) ==
  LET tSize == target[2]  size == this[2]
      at == Lesser(tStart, tSize)
      stop == IF end > 0 /\ end < start THEN start ELSE end
      none == [memory |-> mem, returns |-> 0]
      fail == [memory |-> mem, returns |-> Thrown]
      last == LET e == Lesser(stop, size) IN IF tSize - at < e - start THEN tSize - at + start ELSE e
  IN CASE stop = start \/ tSize = 0 \/ size = 0 -> none
       [] OTHER ->
            IF at < 0 \/ start < 0 \/ start >= size \/ stop < 0 THEN fail
            ELSE [memory |-> Written(mem, (target[1] + at)..(target[1] + at + last - start - 1),
                                     LAMBDA i : At(mem, this[1] + start + i - target[1] - at)),
                  returns |-> last - start]

\* buf.fill(bytes, start, end).
Fill(b, bytes, start, end) ==
  IF start < 0 \/ Size(b) < start \/ Size(b) < end THEN RangeError
  ELSE Written(b, start..(end - 1), LAMBDA i : At(bytes, (i - start) % Size(bytes)))

\* Buffer.concat(list, length): every buffer is copied behind those before it.
Concat(list, length) ==
  LET step(acc, b) ==
        [mem |-> SubSeq(Copy(acc.mem \o b, <<length, Size(b)>>, <<0, length>>, acc.pos, 0, Size(b)).memory,
                        1, length),
         pos |-> acc.pos + Size(b)]
  IN FoldLeft(step, [mem |-> [i \in 1..length |-> 0], pos |-> 0], list).mem

-----------------------------------------------------------------------------
(* indexOf and lastIndexOf.  With a two-byte encoding the search goes two  *)
(* bytes at a time.  The answer <<p, s>> stands for p / s.                 *)

None == <<-1, 1>>

\* Equal units of one or two bytes at the offsets i and j.
SameUnit(b, i, val, j, step) == \A k \in 0..(step - 1) : At(b, i + k) = At(val, j + k)

\* Fault: after a partial match the search goes on behind it.
ForwardAhead(b, val, from, step) ==
  LET scan[i \in 0..(Size(b) + 2), found \in -1..Size(b)] ==
        IF i >= Size(b) THEN None
        ELSE IF i + step > Size(b) THEN RangeError
        ELSE IF SameUnit(b, i, val, IF found = -1 THEN 0 ELSE i - found, step)
             THEN LET start == IF found = -1 THEN i ELSE found
                  IN IF i - start + step = Size(val) THEN <<start, 1>> ELSE scan[i + step, start]
             ELSE scan[i + step, -1]
  IN scan[from, -1]

\* The forward loop: a mismatch goes back to where the match began.
Forward(b, val, from, step) ==
  LET scan[i \in 0..(Size(b) + 2), found \in -1..Size(b)] ==
        IF i >= Size(b) THEN None
        ELSE IF i + step > Size(b) THEN RangeError
        ELSE IF SameUnit(b, i, val, IF found = -1 THEN 0 ELSE i - found, step)
             THEN LET start == IF found = -1 THEN i ELSE found
                  IN IF i - start + step = Size(val) THEN <<start, 1>> ELSE scan[i + step, start]
             ELSE scan[(IF found = -1 THEN i ELSE found) + step, -1]
  IN scan[from, -1]

Units(val, step) == {k \in 0..(Size(val) - 1) : k % step = 0}

\* The backward loop returns its own index, which counts units and not bytes.
Backward(b, val, from, step) ==
  LET start == IF from + Size(val) > Size(b) THEN Size(b) - Size(val) ELSE from
      hits == {i \in 0..start : /\ (start - i) % step = 0
                                /\ \A k \in Units(val, step) : SameUnit(b, i + k, val, k, step)}
  IN IF hits = {} THEN None ELSE <<CHOOSE i \in hits : \A j \in hits : i >= j, step>>

IndexOf(b, val, byteOffset, step, dir) ==
  LET from == IF byteOffset < 0 THEN Size(b) + byteOffset ELSE byteOffset
  IN CASE Size(b) = 0 \/ Size(val) = 0               -> None
       [] from >= Size(b) /\ dir                     -> None
       [] from < 0 /\ ~dir                           -> None
       [] step = 2 /\ (Size(b) < 2 \/ Size(val) < 2) -> None
       [] OTHER ->
            IF dir THEN Forward(b, val, IF from < 0 THEN 0 ELSE from, step)
            ELSE Backward(b, val, Lesser(from, Size(b) - 1), step)

\* includes().
Includes(b, val, byteOffset, step) == IndexOf(b, val, byteOffset, step, TRUE) # None

-----------------------------------------------------------------------------
(* What the answers must be.                                               *)

\* A number written is the number read, no other byte changes, and a number that does not
\* fit, by its value or by its place, changes nothing.
NumberLaws(b, v, off, n, le, signed) ==
  LET fits  == /\ off + n <= Size(b)
               /\ IF signed THEN v \in -(128 * 256 ^ (n - 1))..(128 * 256 ^ (n - 1) - 1)
                  ELSE v \in 0..(256 ^ n - 1)
      writes == IF signed THEN {WriteInt(b, v, off, n, le), WriteIntShifted(b, v, off, n, le)}
                ELSE {WriteUInt(b, v, off, n, le)}
  IN \A w \in writes :
       IF ~fits THEN w = Refused(b)
       ELSE /\ w.returns = off + n
            /\ v = IF signed THEN ReadInt(w.buffer, off, n, le) ELSE ReadUInt(w.buffer, off, n, le)
            /\ \A i \in 0..(Size(b) - 1) : i \notin off..(off + n - 1) => At(w.buffer, i) = At(b, i)

\* Swapping the bytes of numbers turns one byte order into the other.
SwapLaws(b, n) ==
  IF Size(b) % n # 0 THEN Swap(b, n) = RangeError
  ELSE \A off \in {i \in 0..(Size(b) - 1) : i % n = 0} :
         ReadUInt(Swap(b, n), off, n, TRUE) = ReadUInt(b, off, n, FALSE)

\* compare() orders the named parts totally.
CompareLaws(a, b, c, s, e) ==
  LET cmp(x, y) == Compare(x, y, 0, Size(y), 0, Size(x))
  IN /\ cmp(a, b) = -cmp(b, a) /\ (cmp(a, b) = 0) = (a = b)
     /\ cmp(a, b) <= 0 /\ cmp(b, c) <= 0 => cmp(a, c) <= 0
     /\ Compare(a, b, s, e, 0, Size(a)) =
          IF s < 0 \/ e > Size(b) THEN Thrown ELSE cmp(a, IF s >= e THEN << >> ELSE Slice(b, s, e))

\* copy() moves the bytes as they were before the call, also between windows that overlap,
\* stays inside the target, and says how many.  (With end = 0 before start it copies
\* nothing and returns a negative number.)
CopyLaws(mem, this, target, tStart, start, end) ==
  LET r == Copy(mem, this, target, tStart, start, end)
      n == IF r.returns = Thrown \/ end < start THEN 0 ELSE r.returns
      to == target[1] + tStart
  IN /\ n <= target[2]
     /\ n > 0 => tStart + n <= target[2] /\ start + n <= this[2]
     /\ \A i \in 0..(Size(mem) - 1) :
          At(r.memory, i) = IF i \in to..(to + n - 1) THEN At(mem, this[1] + start + i - to) ELSE At(mem, i)
     /\ r.returns # Thrown /\ 0 < end => r.returns >= 0

\* concat() holds the buffers one behind the other, cut or filled up with 0.
ConcatLaws(list, length) ==
  LET all == FlattenSeq(list)
  IN Concat(list, length) = [i \in 1..length |-> IF i <= Len(all) THEN all[i] ELSE 0]

\* fill() with bytes is a copy of them again and again.
FillLaws(b, bytes, start, end) ==
  LET n == Size(bytes)
      full == Concat([i \in 1..(Size(b) + 1) |-> IF i = 1 THEN Slice(b, 0, start) ELSE bytes], Size(b))
  IN /\ (Fill(b, bytes, start, end) = RangeError) = (start \notin 0..Size(b) \/ end > Size(b))
     /\ start \in 0..Size(b) /\ end \in start..Size(b) =>
          Fill(b, bytes, start, end) = SubSeq(full, 1, end) \o SubSeq(b, end + 1, Size(b))

\* indexOf() finds the first occurrence from the offset on, lastIndexOf() the last up to
\* it; in steps of two bytes only whole units count.  includes() says whether there is one.
IndexLaws(b, val, from, step, dir) ==
  LET begin == Clamp(from, Size(b))
      at(i) == i + Size(val) <= Size(b) /\ SubSeq(b, i + 1, i + Size(val)) = val
      good == {i \in 0..(Size(b) - 1) :
                 at(i) /\ IF dir THEN i >= begin /\ (i - begin) % step = 0
                          ELSE i <= IF from < 0 THEN Size(b) + from ELSE from}
      answer == IndexOf(b, val, from, step, dir)
  IN Size(b) % step = 0 /\ from % step = 0 /\ Size(val) > 0 /\ Size(val) % step = 0 =>
       /\ answer # RangeError
       /\ dir => Includes(b, val, from, step) = (good # {})
       /\ answer = None => \A i \in good : step = 2 /\ ~dir /\ i % 2 = 1
       /\ answer # None => /\ answer[1] \in good
                           /\ dir => \A i \in good : answer[1] <= i
                           /\ ~dir => \A i \in good : i % step = 0 => i <= answer[1]
=============================================================================
