------------------------------- MODULE Memory -------------------------------
(***************************************************************************)
(* Where the bytes of a Buffer are (internal/buffer.js: from, alloc and    *)
(* their like; typedarrayToBuffer of internal/util.js): which calls copy   *)
(* and which give a second view of the same memory.  The heap is a         *)
(* sequence of memories, each a sequence of bytes; a view has n elements   *)
(* of a width of 1 or 2 bytes from an offset on, a Buffer being a view of  *)
(* width 1.  Strings are in module Encodings.                              *)
(***************************************************************************)
EXTENDS Integers, Sequences, SequencesExt

B == INSTANCE Buffer

KMaxLength == 8   \* bound: stands for 0x7fffffff
NotANumber == -99 \* a size that is no number

View(mem, at, n) == [kind |-> "view", mem |-> mem, at |-> at, n |-> n, width |-> 1]
Fails(heap, error) == [heap |-> heap, result |-> [kind |-> error]]
BytesOf(heap, v) == SubSeq(heap[v.mem], v.at + 1, v.at + v.n * v.width)
\* The numbers in a view, the lowest byte of each first.
Elements(heap, v) ==
  [i \in 1..v.n |-> LET lowest == heap[v.mem][v.at + (i - 1) * v.width + 1]
                    IN IF v.width = 1 THEN lowest ELSE lowest + 256 * heap[v.mem][v.at + 2 * i]]

New(heap, bytes) == [heap |-> Append(heap, bytes), result |-> View(Len(heap) + 1, 0, Len(bytes))]
createBuffer(heap, n) ==
  IF n > KMaxLength THEN Fails(heap, "RangeError") ELSE New(heap, [i \in 1..n |-> 0])

-----------------------------------------------------------------------------
(* A size.                                                                 *)

assertSize(size) == IF size = NotANumber THEN "TypeError" ELSE IF size < 0 THEN "RangeError" ELSE "fits"

\* alloc(size, fill), with << >> for no fill.
alloc(heap, size, fill) ==
  LET made == createBuffer(heap, size)
  IN IF assertSize(size) # "fits" THEN Fails(heap, assertSize(size))
     ELSE IF size = 0 \/ fill = << >> \/ made.result.kind # "view" THEN made
     ELSE [made EXCEPT !.heap[Len(heap) + 1] = B!Fill(@, fill, 0, size)]

\* The longest buffer alloc() makes is one byte too long for these.
checked(length) == length < KMaxLength
allocUnsafe(heap, size) ==
  IF assertSize(size) # "fits" THEN Fails(heap, assertSize(size))
  ELSE IF ~checked(size) THEN Fails(heap, "RangeError") ELSE createBuffer(heap, size)
SlowBuffer(heap, length) == alloc(heap, IF length = NotANumber THEN 0 ELSE length, << >>)

-----------------------------------------------------------------------------
(* A value: a view or an ArrayBuffer of the heap, an object with a buffer  *)
(* of its own that is none of these, an array or a thing with a length,    *)
(* the JSON of a Buffer, an object that stands for another value, or one   *)
(* that stands for nothing.                                                *)

\* A place past the end of items is undefined and becomes 0.
fromArrayLike(heap, length, items) ==
  LET n == IF length < 0 THEN 0 ELSE length
  IN IF ~checked(n) THEN Fails(heap, "RangeError")
     ELSE New(heap, [i \in 1..n |-> IF i <= Len(items) THEN items[i] % 256 ELSE 0])

\* args are the byteOffset and the length, as many as are given.
fromArrayBuffer(heap, mem, args) ==
  LET size == Len(heap[mem])
      offset == IF args = << >> THEN 0 ELSE args[1]
      length == IF Len(args) = 2 THEN args[2] ELSE size - offset
  IN IF offset < 0 \/ size < offset \/ size < offset + length \/ length < 0 THEN Fails(heap, "RangeError")
     ELSE [heap |-> heap, result |-> View(mem, offset, length)]

fromObject(heap, value) ==
  CASE value.kind = "list" -> IF value.length = NotANumber THEN New(heap, << >>)
                              ELSE fromArrayLike(heap, value.length, value.items)
    [] value.kind = "json" -> fromArrayLike(heap, Len(value.items), value.items)

RECURSIVE from(_, _, _)
from(heap, value, args) ==
  CASE value.kind = "view"     -> fromArrayLike(heap, value.n, Elements(heap, value))
    [] value.kind = "dataview" -> New(heap, << >>)
    [] value.kind = "memory"   -> fromArrayBuffer(heap, value.mem, args)
    [] value.kind = "holder"   -> New(heap, << >>)
    [] value.kind \in {"list", "json"} -> fromObject(heap, value)
    [] value.kind = "boxed"    -> from(heap, value.inner, args)
    [] value.kind \in {"null", "number", "object"} -> Fails(heap, "TypeError")

\* new Buffer(arg, encoding): a number is a size.
NewBuffer(heap, value, args, encoding) ==
  IF value.kind = "number" THEN IF encoding THEN Fails(heap, "TypeError") ELSE allocUnsafe(heap, value.n)
  ELSE from(heap, value, args)

slice(v, start, end) ==
  LET s == B!Clamp(start, v.n)  e == B!Clamp(end, v.n)
  IN View(v.mem, v.at + s, IF e < s THEN 0 ELSE e - s)

toJSON(heap, v) == [kind |-> "json", items |-> BytesOf(heap, v)]
equals(heap, v, w) == v = w \/ B!Order(BytesOf(heap, v), BytesOf(heap, w)) = 0

typedarrayToBuffer(heap, arr) ==
  LET all == from(heap, [kind |-> "memory", mem |-> arr.mem], << >>).result
  IN IF arr.n * arr.width = Len(heap[arr.mem]) THEN all
     ELSE slice(all, arr.at, arr.at + arr.n * arr.width)

-----------------------------------------------------------------------------
(* What a reader expects.                                                  *)

Made(call) == call.result.kind = "view"
RECURSIVE Inner(_)
Inner(value) == IF value.kind = "boxed" THEN Inner(value.inner) ELSE value

\* from() changes nothing that was there; only an ArrayBuffer is shared, everything else is
\* copied, and the copy holds the bytes of what it was made from.
FromLaws(heap, value, args) ==
  LET call == NewBuffer(heap, value, args, FALSE)
      inner == Inner(value)
      shared == call.result.mem \in DOMAIN heap
  IN /\ IsPrefix(heap, call.heap)
     /\ ~Made(call) => call.heap = heap
     /\ Made(call) =>
          /\ shared = (inner.kind = "memory")
          /\ ~shared => Len(call.heap) = Len(heap) + 1
          /\ call.result.at + call.result.n <= Len(call.heap[call.result.mem])
          /\ inner.kind = "view" /\ inner.width = 1 =>
               BytesOf(call.heap, call.result) = BytesOf(heap, inner)
          /\ inner.kind = "memory" =>
               BytesOf(heap, call.result) =
                 IF args = << >> THEN heap[inner.mem]
                 ELSE SubSeq(heap[inner.mem], args[1] + 1, IF Len(args) = 2 THEN args[1] + args[2] ELSE Len(heap[inner.mem]))
          /\ LET again == from(call.heap, toJSON(call.heap, call.result), << >>)
             IN Made(again) => /\ equals(again.heap, again.result, call.result)
                               /\ again.result.mem # call.result.mem

\* A view becomes a Buffer without a copy: its own bytes, all of them and no others, and
\* what is written to a part of it is written to all of them.
ShareLaws(heap, arr, start, end) ==
  LET buf == typedarrayToBuffer(heap, arr)
      part == slice(buf, start, end)
      wrote == [heap EXCEPT ![part.mem] = [i \in DOMAIN @ |-> IF i - 1 \in part.at..(part.at + part.n - 1) THEN 99 ELSE @[i]]]
      s == B!Clamp(start, buf.n)
  IN /\ buf.mem = arr.mem /\ BytesOf(heap, buf) = BytesOf(heap, arr)
     /\ BytesOf(heap, part) = B!Slice(BytesOf(heap, arr), start, end)
     /\ BytesOf(wrote, arr) = [i \in 1..(arr.n * arr.width) |->
                                 IF i > s /\ i <= s + part.n THEN 99 ELSE BytesOf(heap, arr)[i]]

\* A size is a size whichever way it is given, but for the longest; new memory is empty or
\* holds the fill again and again.
SizeLaws(heap, size, fill) ==
  LET safe == alloc(heap, size, fill)
      unsafe == allocUnsafe(heap, size)
      slow == SlowBuffer(heap, size)
  IN /\ size \notin {NotANumber, KMaxLength} => /\ unsafe = alloc(heap, size, << >>) /\ slow = unsafe
     /\ Made(safe) <=> size \in 0..KMaxLength
     /\ Made(safe) => /\ IsPrefix(heap, safe.heap) /\ safe.result.mem \notin DOMAIN heap
                      /\ \A i \in 1..size : BytesOf(safe.heap, safe.result)[i] =
                           IF fill = << >> THEN 0 ELSE fill[((i - 1) % Len(fill)) + 1]
=============================================================================
