--------------------------- MODULE ReadableProofs ---------------------------
(***************************************************************************)
(* The Readable neither loses, doubles nor reorders a byte, whatever the    *)
(* source, the program, its listeners and a pipe do: for any number of      *)
(* bytes, any high-water marks and any sizes of a read.                     *)
(***************************************************************************)
EXTENDS Readable, FiniteSetTheorems, SequenceTheorems, WellFoundedInduction, TLAPS

Chunks == Seq(Nat)
Flags  == {"unset", "on", "off"}
Marks  == Nat \cup {PowerOf2(n) : n \in Nat}

StateType ==
  [highWaterMark : Marks, buffer : Seq(Chunks), flowing : Flags, reading : BOOLEAN,
   sync : BOOLEAN, ended : BOOLEAN, destroyed : BOOLEAN, needReadable : BOOLEAN,
   emittedReadable : BOOLEAN, readableListening : BOOLEAN, awaitDrain : 0..1]

Plain   == {"program", "flow", "emitReadable_", "readable"}
Special == {"data", "read", "_read", "take"}
Frame   == [op : Plain \cup Special, n : Nat, m : 0..MaxBytes, chunk : {c \in Chunks : Len(c) <= MaxBytes}]

Typed ==
  /\ state \in StateType /\ todo \in Seq(Frame)
  /\ \A i \in DOMAIN state.buffer : state.buffer[i] # << >>
  /\ pushed \in 0..MaxBytes /\ seen \in Chunks /\ last \in Chunks /\ lost \subseteq 1..pushed
  /\ needDrain \in BOOLEAN /\ piped \in BOOLEAN /\ meddled \in BOOLEAN
  /\ listeners \subseteq {"program", "pipe"} /\ ("pipe" \in listeners <=> piped)

\* What reads and emits is innermost; take lies under the _read it waits for.
Nested(s) ==
  /\ \A i \in DOMAIN s : s[i].op \in Special =>
       i = 1 \/ (i = 2 /\ s[1].op = "_read" /\ s[2].op = "take")
  /\ s # << >> /\ s[1].op = "_read" => 2 \in DOMAIN s /\ s[2].op = "take"

Shape == Nested(todo) /\ (At("_read") => state.sync)

\* Nothing reads or emits.
Quiet(s) == \A i \in DOMAIN s : s[i].op \in Plain

\* A take whose _read pushed nothing takes what there was.
Measured ==
  \A i \in DOMAIN todo : todo[i].op = "take" /\ state.reading => todo[i].m <= Length(state)

\* All bytes, in the order in which they are or will be handed out.
Handing == IF At("data") THEN todo[1].chunk ELSE << >>
Row     == (seen \o Handing) \o Bytes(state.buffer)
Lined   == Rising(Row) /\ ToSet(Row) = (1..pushed) \ lost

\* What may go back is what came last.
Suffix == Len(last) <= Len(seen) /\ last = SubSeq(seen, Len(seen) - Len(last) + 1, Len(seen))

\* "drain" is awaited of a Writable that will emit it, and not while a chunk is handed out.
Awaiting == state.awaitDrain > 0 => piped /\ needDrain /\ ~At("data")

\* A pipe that waits alone has stopped the stream.
Waiting ==
  listeners = {"pipe"} /\ needDrain /\ ~meddled =>
    state.flowing = "off" /\ (todo # << >> => todo[1].op \in Plain)

IInv == Typed /\ Shape /\ Measured /\ Lined /\ Suffix /\ Awaiting /\ Waiting

-----------------------------------------------------------------------------
(* Sequences of bytes.                                                     *)

\* What holds at 0, and at n + 1 when it does at n, holds at every number.
LEMMA Induction ==
  ASSUME NEW S \in SUBSET Nat, 0 \in S, \A n \in S : n + 1 \in S
  PROVE  S = Nat
<1> SUFFICES ASSUME Nat \ S # {} PROVE FALSE
  OBVIOUS
<1>1. PICK m \in Nat \ S : \A k \in Nat \ S : ~(<<k, m>> \in OpToRel(<, Nat))
  BY WFMin, NatLessThanWellFounded
<1>2. \A k \in Nat \ S : ~(k < m)
  BY <1>1 DEF OpToRel
<1>3. m \in Nat /\ m \notin S /\ m # 0
  OBVIOUS
<1>4. m - 1 \in Nat /\ m - 1 < m /\ (m - 1) + 1 = m
  BY <1>3
<1>5. m - 1 \in S
  BY <1>2, <1>4
<1>6. QED
  BY <1>3, <1>4, <1>5

\* The least number of a set.
LEMMA Least ==
  ASSUME NEW S \in SUBSET Nat, S # {}
  PROVE  \E m \in S : \A k \in Nat : k < m => k \notin S
<1>1. PICK m \in S : \A k \in S : ~(<<k, m>> \in OpToRel(<, Nat))
  BY WFMin, NatLessThanWellFounded
<1>2. QED
  BY <1>1 DEF OpToRel

Before(S, T) == \A i \in S, j \in T : i < j

\* A concatenation rises when its parts do and the first lies before the second.
LEMMA CatFacts ==
  ASSUME NEW s \in Chunks, NEW t \in Chunks
  PROVE  /\ s \o t \in Chunks /\ Len(s \o t) = Len(s) + Len(t)
         /\ ToSet(s \o t) = ToSet(s) \cup ToSet(t)
         /\ Rising(s \o t) <=> Rising(s) /\ Rising(t) /\ Before(ToSet(s), ToSet(t))
<1> DEFINE u == s \o t
<1>0. /\ u \in Seq(Nat) /\ Len(u) = Len(s) + Len(t)
      /\ \A k \in DOMAIN s : k \in DOMAIN u /\ u[k] = s[k]
      /\ \A k \in DOMAIN t : k + Len(s) \in DOMAIN u /\ u[k + Len(s)] = t[k]
      /\ \A k \in DOMAIN u : k \in DOMAIN s \/ (k - Len(s) \in DOMAIN t /\ u[k] = t[k - Len(s)])
      /\ Len(s) \in Nat /\ DOMAIN s = 1..Len(s) /\ Len(t) \in Nat /\ DOMAIN t = 1..Len(t)
      /\ DOMAIN u = 1..(Len(s) + Len(t))
      /\ \A k \in DOMAIN s : s[k] \in Nat
      /\ \A k \in DOMAIN t : t[k] \in Nat
  BY DEF Chunks
<1> HIDE DEF u
<1>1. ToSet(u) = ToSet(s) \cup ToSet(t)
  <2>1. \A k \in DOMAIN u : u[k] \in ToSet(s) \cup ToSet(t)
    BY <1>0 DEF ToSet
  <2>2. \A k \in DOMAIN s : s[k] \in ToSet(u)
    BY <1>0 DEF ToSet
  <2>3. \A k \in DOMAIN t : t[k] \in ToSet(u)
    BY <1>0 DEF ToSet
  <2>4. QED
    BY <2>1, <2>2, <2>3 DEF ToSet
<1>2. ASSUME Rising(u) PROVE Rising(s)
  BY <1>0, <1>2 DEF Rising
<1>3. ASSUME Rising(u) PROVE Rising(t)
  <2>1. ASSUME NEW m \in DOMAIN t, NEW n \in DOMAIN t, m < n PROVE t[m] < t[n]
    <3>1. m + Len(s) < n + Len(s)
      BY <2>1, <1>0
    <3>2. QED
      BY <1>0, <1>3, <3>1 DEF Rising
  <2>2. QED
    BY <2>1 DEF Rising
<1>4. ASSUME Rising(u), NEW j \in DOMAIN s, NEW k \in DOMAIN t PROVE s[j] < t[k]
  <2>1. j < k + Len(s)
    BY <1>0
  <2>2. QED
    BY <1>0, <1>4, <2>1 DEF Rising
<1>5. ASSUME Rising(s), Rising(t), Before(ToSet(s), ToSet(t)) PROVE Rising(u)
  <2>1. \A j \in DOMAIN s, k \in DOMAIN t : s[j] < t[k]
    BY <1>5 DEF ToSet, Before
  <2>2. ASSUME NEW m \in DOMAIN u, NEW n \in DOMAIN u, m < n PROVE u[m] < u[n]
    BY <1>0, <1>5, <2>1, <2>2, SMTT(60) DEF Rising
  <2>3. QED
    BY <2>2 DEF Rising
<1>6. QED
  BY <1>0, <1>1, <1>2, <1>3, <1>4, <1>5 DEF u, ToSet, Before, Chunks

\* A concatenation with nothing, and of three.
LEMMA CatAlgebra ==
  /\ << >> \in Chunks /\ ToSet(<< >>) = {} /\ Rising(<< >>)
  /\ \A s \in Chunks : s \o << >> = s /\ << >> \o s = s
  /\ \A s, t, u \in Chunks : (s \o t) \o u = s \o (t \o u)
  /\ \A s \in Chunks : Len(s) \in Nat /\ DOMAIN s = 1..Len(s) /\ ToSet(s) \subseteq Nat /\ (Len(s) = 0 => s = << >>)
  /\ \A s \in Chunks : s # << >> => Len(s) > 0
<1>1. << >> \in Chunks /\ ToSet(<< >>) = {} /\ Rising(<< >>)
  BY DEF Chunks, ToSet, Rising
<1>2. \A s \in Chunks : s \o << >> = s /\ << >> \o s = s
  BY ConcatEmptySeq DEF Chunks
<1>3. \A s, t, u \in Chunks : (s \o t) \o u = s \o (t \o u)
  BY ConcatAssociative DEF Chunks
<1>4. \A s \in Chunks : Len(s) \in Nat /\ DOMAIN s = 1..Len(s) /\ ToSet(s) \subseteq Nat /\ (Len(s) = 0 => s = << >>)
  BY DEF Chunks, ToSet
<1>5. \A s \in Chunks : s # << >> => Len(s) > 0
  BY DEF Chunks
<1>6. QED
  BY <1>1, <1>2, <1>3, <1>4, <1>5

\* A rising sequence of numbers up to n is no longer than n.
LEMMA RisingIsShort ==
  ASSUME NEW s \in Chunks, NEW n \in Nat, Rising(s), ToSet(s) \subseteq 1..n
  PROVE  Len(s) <= n
<1> DEFINE S == {m \in Nat : m \in DOMAIN s => s[m] >= m}
<1>1. Len(s) \in Nat /\ DOMAIN s = 1..Len(s) /\ \A m \in DOMAIN s : s[m] \in 1..n
  BY CatAlgebra DEF ToSet
<1>2. 0 \in S
  BY <1>1
<1>3. ASSUME NEW m \in S PROVE m + 1 \in S
  <2>1. CASE m = 0
    BY <1>1, <2>1
  <2>2. CASE m # 0 /\ m + 1 \in DOMAIN s
    <3>1. m \in DOMAIN s /\ m < m + 1 /\ m \in Nat
      BY <1>1, <2>2
    <3>2. s[m] >= m /\ s[m] < s[m + 1] /\ s[m] \in Nat /\ s[m + 1] \in Nat
      BY <1>1, <2>2, <3>1 DEF Rising
    <3>3. QED
      BY <3>1, <3>2
  <2>3. QED
    BY <2>1, <2>2
<1> HIDE DEF S
<1>4. S = Nat
  <2>1. S \in SUBSET Nat
    BY DEF S
  <2>2. QED
    BY <1>2, <1>3, <2>1, Induction
<1>5. CASE Len(s) = 0
  BY <1>5
<1>6. CASE Len(s) # 0
  <2>1. Len(s) \in DOMAIN s
    BY <1>1, <1>6
  <2>2. s[Len(s)] >= Len(s) /\ s[Len(s)] \in 1..n
    BY <1>1, <1>4, <2>1 DEF S
  <2>3. QED
    BY <1>1, <2>2
<1>7. QED
  BY <1>5, <1>6

-----------------------------------------------------------------------------
(* The bytes of a buffer.                                                  *)

\* g gives the bytes of the beginnings of a list of chunks.
Flats(g, list) ==
  /\ g \in [0..Len(list) -> Chunks] /\ g[0] = << >>
  /\ \A n \in 1..Len(list) : g[n] = g[n - 1] \o list[n]

\* There is such a g.
LEMMA FlatsExist ==
  ASSUME NEW list \in Seq(Chunks)
  PROVE  \E g : Flats(g, list)
<1> DEFINE S == {m \in Nat : m <= Len(list) =>
                   \E g \in [0..m -> Chunks] : g[0] = << >> /\ \A n \in 1..m : g[n] = g[n - 1] \o list[n]}
<1>1. Len(list) \in Nat /\ DOMAIN list = 1..Len(list) /\ \A n \in 1..Len(list) : list[n] \in Chunks
  OBVIOUS
<1>2. 0 \in S
  <2> DEFINE g == [n \in 0..0 |-> << >>]
  <2>1. g \in [0..0 -> Chunks] /\ g[0] = << >>
    BY CatAlgebra
  <2> HIDE DEF g
  <2>2. ASSUME NEW n \in 1..0 PROVE g[n] = g[n - 1] \o list[n]
    <3>1. n \in Int /\ 1 <= n /\ n <= 0
      OBVIOUS
    <3>2. QED
      BY <3>1
  <2>3. QED
    BY <2>1, <2>2
<1>3. ASSUME NEW m \in S PROVE m + 1 \in S
  <2> DEFINE longer == \E g \in [0..(m + 1) -> Chunks] : g[0] = << >> /\ \A n \in 1..(m + 1) : g[n] = g[n - 1] \o list[n]
  <2> SUFFICES ASSUME m + 1 <= Len(list) PROVE longer
    <3>1. m + 1 \in Nat
      OBVIOUS
    <3> HIDE DEF longer
    <3>2. m + 1 <= Len(list) => longer
      OBVIOUS
    <3>3. QED
      BY <3>1, <3>2 DEF longer
  <2>1. m \in Nat /\ m <= Len(list) /\ m + 1 \in 1..Len(list)
    BY <1>1
  <2>2. PICK g \in [0..m -> Chunks] : g[0] = << >> /\ \A n \in 1..m : g[n] = g[n - 1] \o list[n]
    BY <2>1
  <2> DEFINE more == g[m] \o list[m + 1]
  <2>3. more \in Chunks
    <3>1. g[m] \in Chunks /\ list[m + 1] \in Chunks
      BY <1>1, <2>1
    <3>2. QED
      BY <3>1, CatFacts
  <2> DEFINE h == [n \in 0..(m + 1) |-> IF n <= m THEN g[n] ELSE more]
  <2> HIDE DEF more
  <2>4. h \in [0..(m + 1) -> Chunks]
    BY <2>1, <2>3
  <2>5. /\ \A n \in 0..m : n \in 0..(m + 1) /\ h[n] = g[n]
        /\ h[m + 1] = more /\ 0 \in 0..m
    BY <2>1
  <2> HIDE DEF h
  <2>6. ASSUME NEW n \in 1..(m + 1) PROVE h[n] = h[n - 1] \o list[n]
    <3>1. CASE n <= m
      <4>1. n \in 0..m /\ n - 1 \in 0..m /\ n \in 1..m
        BY <2>1, <3>1
      <4>2. QED
        BY <2>2, <2>5, <4>1
    <3>2. CASE ~(n <= m)
      <4>1. n = m + 1 /\ n - 1 = m /\ m \in 0..m
        BY <2>1, <3>2
      <4>2. QED
        BY <2>5, <4>1 DEF more
    <3>3. QED
      BY <3>1, <3>2
  <2>7. QED
    BY <2>2, <2>4, <2>5, <2>6
<1> HIDE DEF S
<1>4. S \in SUBSET Nat
  BY DEF S
<1>5. S = Nat
  BY <1>2, <1>3, <1>4, Induction
<1>6. Len(list) \in S
  BY <1>1, <1>5
<1>7. \E g \in [0..Len(list) -> Chunks] : g[0] = << >> /\ \A n \in 1..Len(list) : g[n] = g[n - 1] \o list[n]
  BY <1>1, <1>6 DEF S
<1>8. QED
  BY <1>7 DEF Flats

\* It ends with the bytes of the list.
LEMMA BytesAre ==
  ASSUME NEW list \in Seq(Chunks), NEW g, Flats(g, list)
  PROVE  Bytes(list) = g[Len(list)] /\ Bytes(list) \in Chunks
<1>1. Len(list) \in Nat /\ DOMAIN list = 1..Len(list) /\ \A n \in 1..Len(list) : list[n] \in Chunks
  OBVIOUS
<1>2. g[Len(list)] \in Chunks
  BY <1>1 DEF Flats
<1>3. CASE Len(list) = 0
  <2>1. list = << >>
    BY <1>3
  <2>2. QED
    BY <1>2, <1>3, <2>1 DEF Bytes, FlattenSeq, Flats
<1>4. CASE Len(list) # 0
  <2> DEFINE flat(f) == f = [i \in 1..Len(list) |-> IF i = 1 THEN list[i] ELSE f[i - 1] \o list[i]]
             f == CHOOSE f : flat(f)
             h == [i \in 1..Len(list) |-> g[i]]
  <2>1. flat(h)
    <3>1. ASSUME NEW i \in 1..Len(list) PROVE g[i] = IF i = 1 THEN list[i] ELSE h[i - 1] \o list[i]
      <4>1. g[i] = g[i - 1] \o list[i] /\ list[i] \in Chunks
        BY <1>1 DEF Flats
      <4>2. CASE i = 1
        <5>1. i - 1 = 0 /\ g[0] = << >>
          BY <4>2 DEF Flats
        <5>2. g[i] = << >> \o list[i]
          BY <4>1, <5>1
        <5>3. QED
          BY <4>1, <4>2, <5>2, CatAlgebra
      <4>3. CASE i # 1
        <5>1. i - 1 \in 1..Len(list)
          BY <1>1, <4>3
        <5>2. h[i - 1] = g[i - 1]
          BY <5>1
        <5>3. QED
          BY <4>1, <4>3, <5>2
      <4>4. QED
        BY <4>2, <4>3
    <3>2. QED
      BY <3>1
  <2>2. flat(f)
    BY <2>1
  <2>3. Bytes(list) = f[Len(list)]
    BY <1>4 DEF Bytes, FlattenSeq
  <2> HIDE DEF f
  <2> DEFINE S == {m \in Nat : m + 1 <= Len(list) => f[m + 1] = g[m + 1]}
  <2>4. 0 \in S
    <3>1. 1 \in 1..Len(list) /\ 1 - 1 = 0 /\ list[1] \in Chunks
      BY <1>1, <1>4
    <3>2. f[1] = list[1]
      BY <2>2, <3>1
    <3>3. g[1] = << >> \o list[1]
      BY <3>1 DEF Flats
    <3>4. QED
      BY <3>1, <3>2, <3>3, CatAlgebra
  <2>5. ASSUME NEW m \in S PROVE m + 1 \in S
    <3> SUFFICES ASSUME m + 2 <= Len(list) PROVE f[m + 2] = g[m + 2]
      OBVIOUS
    <3>1. m \in Nat /\ m + 1 <= Len(list) /\ m + 2 \in 1..Len(list) /\ m + 2 # 1 /\ (m + 2) - 1 = m + 1
      BY <1>1
    <3>2. f[m + 2] = f[m + 1] \o list[m + 2]
      BY <2>2, <3>1
    <3>3. g[m + 2] = g[m + 1] \o list[m + 2]
      BY <3>1 DEF Flats
    <3>4. QED
      BY <3>1, <3>2, <3>3
  <2> HIDE DEF S
  <2>6. S = Nat
    <3>1. S \in SUBSET Nat
      BY DEF S
    <3>2. QED
      BY <2>4, <2>5, <3>1, Induction
  <2>7. PICK p \in Nat : p + 1 = Len(list)
    <3>1. Len(list) - 1 \in Nat /\ (Len(list) - 1) + 1 = Len(list)
      BY <1>1, <1>4
    <3>2. QED
      BY <3>1
  <2>8. f[Len(list)] = g[Len(list)]
    <3>1. p \in S
      BY <2>6
    <3>2. f[p + 1] = g[p + 1]
      BY <1>1, <2>7, <3>1 DEF S
    <3>3. QED
      BY <2>7, <3>2
  <2>9. QED
    BY <1>2, <2>3, <2>8
<1>5. QED
  BY <1>3, <1>4

\* The bytes of a beginning of a list.
LEMMA BytesUpto ==
  ASSUME NEW list \in Seq(Chunks), NEW g, Flats(g, list), NEW k \in 0..Len(list)
  PROVE  SubSeq(list, 1, k) \in Seq(Chunks) /\ Bytes(SubSeq(list, 1, k)) = g[k] /\ g[k] \in Chunks
<1> DEFINE part == SubSeq(list, 1, k)
           h == [n \in 0..k |-> g[n]]
<1>1. part \in Seq(Chunks) /\ Len(part) = k /\ \A n \in 1..k : part[n] = list[n] /\ n \in 1..Len(list)
  <2>1. k \in Nat /\ Len(list) \in Nat /\ k <= Len(list)
    OBVIOUS
  <2>2. QED
    BY <2>1
<1> HIDE DEF part
<1>2. k \in Nat /\ k \in 0..k
  OBVIOUS
<1>3. Flats(h, part)
  <2>1. h \in [0..k -> Chunks]
    BY <1>2 DEF Flats
  <2>2. h[0] = << >>
    BY <1>2 DEF Flats
  <2>3. ASSUME NEW n \in 1..k PROVE h[n] = h[n - 1] \o part[n]
    <3>1. n - 1 \in 0..k /\ n \in 0..k /\ n \in 1..Len(list)
      BY <1>1, <1>2
    <3>2. h[n] = g[n] /\ h[n - 1] = g[n - 1]
      BY <3>1
    <3>3. g[n] = g[n - 1] \o list[n]
      BY <3>1 DEF Flats
    <3>4. QED
      BY <1>1, <3>2, <3>3
  <2> HIDE DEF h
  <2>4. QED
    BY <1>1, <2>1, <2>2, <2>3 DEF Flats
<1>4. h[k] = g[k]
  BY <1>2
<1> HIDE DEF h
<1>5. Bytes(part) = g[k] /\ Bytes(part) \in Chunks
  BY <1>1, <1>3, <1>4, BytesAre
<1>6. QED
  BY <1>1, <1>5 DEF part

\* The bytes of a concatenation are those of its parts.
LEMMA BytesCat ==
  ASSUME NEW s \in Seq(Chunks), NEW t \in Seq(Chunks)
  PROVE  /\ s \o t \in Seq(Chunks) /\ Bytes(s) \in Chunks /\ Bytes(t) \in Chunks
         /\ Bytes(s \o t) = Bytes(s) \o Bytes(t)
<1>1. PICK g : Flats(g, s)
  BY FlatsExist
<1>2. PICK h : Flats(h, t)
  BY FlatsExist
<1>3. /\ Bytes(s) = g[Len(s)] /\ Bytes(s) \in Chunks
      /\ Bytes(t) = h[Len(t)] /\ Bytes(t) \in Chunks
  BY <1>1, <1>2, BytesAre
<1> DEFINE u == s \o t
           a == g[Len(s)]
           k == [n \in 0..(Len(s) + Len(t)) |-> IF n <= Len(s) THEN g[n] ELSE a \o h[n - Len(s)]]
<1>4. /\ Len(s) \in Nat /\ Len(t) \in Nat
      /\ u \in Seq(Chunks) /\ Len(u) = Len(s) + Len(t)
      /\ \A n \in 1..Len(s) : u[n] = s[n]
      /\ \A n \in 1..Len(t) : u[n + Len(s)] = t[n] /\ t[n] \in Chunks
  OBVIOUS
<1> HIDE DEF u
<1>5. /\ g \in [0..Len(s) -> Chunks] /\ g[0] = << >> /\ \A n \in 1..Len(s) : g[n] = g[n - 1] \o s[n]
      /\ h \in [0..Len(t) -> Chunks] /\ h[0] = << >> /\ \A n \in 1..Len(t) : h[n] = h[n - 1] \o t[n]
      /\ a \in Chunks
  <2>1. Len(s) \in 0..Len(s)
    BY <1>4
  <2>2. QED
    BY <1>1, <1>2, <2>1 DEF Flats
<1> HIDE DEF a
<1>6. \A n \in 0..Len(s) : k[n] = g[n]
  BY <1>4
<1>7. \A n \in 0..Len(t) : k[n + Len(s)] = a \o h[n]
  <2> SUFFICES ASSUME NEW n \in 0..Len(t) PROVE k[n + Len(s)] = a \o h[n]
    OBVIOUS
  <2>1. CASE n = 0
    <3>1. Len(s) \in 0..(Len(s) + Len(t)) /\ n + Len(s) = Len(s) /\ Len(s) <= Len(s)
      BY <1>4, <2>1
    <3>2. k[n + Len(s)] = a
      BY <3>1 DEF a
    <3>3. a \o << >> = a
      BY <1>5, CatAlgebra
    <3>4. QED
      BY <1>5, <2>1, <3>2, <3>3
  <2>2. CASE n # 0
    <3>1. n + Len(s) \in 0..(Len(s) + Len(t)) /\ ~(n + Len(s) <= Len(s)) /\ (n + Len(s)) - Len(s) = n
      BY <1>4, <2>2
    <3> DEFINE p == n + Len(s)
    <3> HIDE DEF p
    <3>2. k[p] = a \o h[p - Len(s)]
      BY <3>1 DEF p
    <3>3. QED
      BY <3>1, <3>2 DEF p
  <2>3. QED
    BY <2>1, <2>2
<1>8. DOMAIN k = 0..(Len(s) + Len(t)) /\ k = [n \in 0..(Len(s) + Len(t)) |-> k[n]]
  OBVIOUS
<1> HIDE DEF k
<1>9. \A n \in 0..(Len(s) + Len(t)) : n \in 0..Len(s) \/ (n - Len(s) \in 1..Len(t) /\ (n - Len(s)) + Len(s) = n)
  BY <1>4
<1>10. \A n \in 0..(Len(s) + Len(t)) : k[n] \in Chunks
  <2>1. \A n \in 0..Len(s) : k[n] \in Chunks
    BY <1>5, <1>6
  <2>2. ASSUME NEW n \in 0..Len(t) PROVE k[n + Len(s)] \in Chunks
    <3>1. h[n] \in Chunks
      BY <1>5
    <3>2. QED
      BY <1>5, <1>7, <3>1, CatFacts
  <2>3. ASSUME NEW n \in 0..(Len(s) + Len(t)), n - Len(s) \in 1..Len(t), (n - Len(s)) + Len(s) = n
        PROVE  k[n] \in Chunks
    <3>1. n - Len(s) \in 0..Len(t)
      BY <1>4, <2>3
    <3>2. k[(n - Len(s)) + Len(s)] \in Chunks
      BY <2>2, <3>1
    <3>3. QED
      BY <2>3, <3>2
  <2>4. QED
    BY <1>9, <2>1, <2>3
<1>11. ASSUME NEW n \in 1..(Len(s) + Len(t)) PROVE k[n] = k[n - 1] \o u[n]
  <2>1. CASE n \in 1..Len(s)
    <3>1. n \in 0..Len(s) /\ n - 1 \in 0..Len(s)
      BY <1>4, <2>1
    <3>2. QED
      BY <1>4, <1>5, <1>6, <2>1, <3>1
  <2>2. CASE n \notin 1..Len(s)
    <3>1. PICK m \in 1..Len(t) : n = m + Len(s) /\ m \in 0..Len(t) /\ m - 1 \in 0..Len(t) /\ n - 1 = (m - 1) + Len(s)
      <4>1. n - Len(s) \in 1..Len(t) /\ n = (n - Len(s)) + Len(s)
        BY <1>4, <2>2
      <4>2. n - Len(s) \in 0..Len(t) /\ (n - Len(s)) - 1 \in 0..Len(t) /\ n - 1 = ((n - Len(s)) - 1) + Len(s)
        BY <1>4, <2>2
      <4>3. QED
        BY <4>1, <4>2
    <3>2. k[n] = a \o h[m] /\ k[n - 1] = a \o h[m - 1] /\ u[n] = t[m] /\ t[m] \in Chunks
      BY <1>4, <1>7, <3>1
    <3>3. h[m] = h[m - 1] \o t[m] /\ h[m - 1] \in Chunks
      BY <1>5, <3>1
    <3>4. a \o (h[m - 1] \o t[m]) = (a \o h[m - 1]) \o t[m]
      BY <1>5, <3>2, <3>3, CatAlgebra
    <3>5. QED
      BY <3>2, <3>3, <3>4
  <2>3. QED
    BY <2>1, <2>2
<1>12. Flats(k, u)
  <2>1. k \in [0..Len(u) -> Chunks]
    BY <1>4, <1>8, <1>10
  <2>2. k[0] = << >>
    <3>1. 0 \in 0..Len(s)
      BY <1>4
    <3>2. QED
      BY <1>5, <1>6, <3>1
  <2>3. QED
    BY <1>4, <1>11, <2>1, <2>2 DEF Flats
<1>13. Bytes(u) = k[Len(u)]
  BY <1>4, <1>12, BytesAre
<1>14. k[Len(t) + Len(s)] = a \o h[Len(t)] /\ Len(u) = Len(t) + Len(s)
  <2>1. Len(t) \in 0..Len(t)
    BY <1>4
  <2>2. QED
    BY <1>4, <1>7, <2>1
<1>15. QED
  BY <1>3, <1>4, <1>13, <1>14 DEF u, a

\* The bytes of no chunk, of one, and of one before and after others.
LEMMA BytesFew ==
  /\ Bytes(<< >>) = << >>
  /\ \A c \in Chunks : Bytes(<<c>>) = c
  /\ \A list \in Seq(Chunks) : Bytes(list) \in Chunks
  /\ \A list \in Seq(Chunks), c \in Chunks : Bytes(Append(list, c)) = Bytes(list) \o c
  /\ \A list \in Seq(Chunks), c \in Chunks : Bytes(<<c>> \o list) = c \o Bytes(list)
<1>1. Bytes(<< >>) = << >>
  BY DEF Bytes, FlattenSeq
<1>2. ASSUME NEW c \in Chunks PROVE Bytes(<<c>>) = c
  <2> DEFINE list == <<c>>
  <2>1. list \in Seq(Chunks) /\ Len(list) = 1 /\ list[1] = c
    OBVIOUS
  <2> HIDE DEF list
  <2>2. PICK g : Flats(g, list)
    BY <2>1, FlatsExist
  <2>3. Bytes(list) = g[1]
    BY <2>1, <2>2, BytesAre
  <2>4. g[1] = g[1 - 1] \o list[1] /\ g[0] = << >> /\ 1 - 1 = 0
    BY <2>1, <2>2 DEF Flats
  <2>5. g[1] = << >> \o c
    BY <2>1, <2>4
  <2>6. QED
    BY <2>3, <2>5, CatAlgebra DEF list
<1>3. ASSUME NEW list \in Seq(Chunks) PROVE Bytes(list) \in Chunks
  BY BytesCat
<1>4. ASSUME NEW list \in Seq(Chunks), NEW c \in Chunks
      PROVE  Bytes(Append(list, c)) = Bytes(list) \o c /\ Bytes(<<c>> \o list) = c \o Bytes(list)
  <2>1. <<c>> \in Seq(Chunks) /\ Append(list, c) = list \o <<c>>
    OBVIOUS
  <2>2. QED
    BY <1>2, <2>1, BytesCat, ZenonT(60)
<1>5. QED
  BY <1>1, <1>2, <1>3, <1>4

\* A beginning of a concatenation, and a sequence cut in two.
LEMMA Cut ==
  /\ \A s, t \in Chunks : SubSeq(s \o t, 1, Len(s)) = s
  /\ \A s \in Chunks : \A n \in 0..Len(s) :
       /\ SubSeq(s, 1, n) \in Chunks /\ Len(SubSeq(s, 1, n)) = n
       /\ SubSeq(s, n + 1, Len(s)) \in Chunks /\ Len(SubSeq(s, n + 1, Len(s))) = Len(s) - n
       /\ s = SubSeq(s, 1, n) \o SubSeq(s, n + 1, Len(s))
<1>1. ASSUME NEW s \in Chunks, NEW t \in Chunks PROVE SubSeq(s \o t, 1, Len(s)) = s
  <2> DEFINE u == s \o t
  <2>1. /\ Len(s) \in Nat /\ Len(t) \in Nat /\ Len(u) = Len(s) + Len(t) /\ u \in Seq(Nat)
        /\ \A i \in 1..Len(s) : u[i] = s[i]
    BY DEF Chunks
  <2> HIDE DEF u
  <2>2. /\ SubSeq(u, 1, Len(s)) \in Seq(Nat) /\ Len(SubSeq(u, 1, Len(s))) = Len(s)
        /\ \A i \in 1..Len(s) : SubSeq(u, 1, Len(s))[i] = s[i]
    BY <2>1
  <2>3. SubSeq(u, 1, Len(s)) = s
    BY <2>1, <2>2, SeqEqual DEF Chunks
  <2>4. QED
    BY <2>3 DEF u
<1>2. ASSUME NEW s \in Chunks, NEW n \in 0..Len(s)
      PROVE  /\ SubSeq(s, 1, n) \in Chunks /\ Len(SubSeq(s, 1, n)) = n
             /\ SubSeq(s, n + 1, Len(s)) \in Chunks /\ Len(SubSeq(s, n + 1, Len(s))) = Len(s) - n
             /\ s = SubSeq(s, 1, n) \o SubSeq(s, n + 1, Len(s))
  <2>1. Len(s) \in Nat /\ n \in Nat /\ n <= Len(s) /\ \A i \in 1..Len(s) : s[i] \in Nat
    BY DEF Chunks
  <2>2. SubSeq(s, 1, n) \in Chunks /\ Len(SubSeq(s, 1, n)) = n
    BY <2>1 DEF Chunks
  <2>3. SubSeq(s, n + 1, Len(s)) \in Chunks
    BY <2>1 DEF Chunks
  <2>4. Len(SubSeq(s, n + 1, Len(s))) = Len(s) - n
    <3>1. CASE n + 1 <= Len(s)
      BY <2>1, <3>1
    <3>2. CASE n = Len(s)
      BY <2>1, <3>2
    <3>3. QED
      BY <2>1, <3>1, <3>2
  <2>5. SubSeq(s, 1, n) \o SubSeq(s, n + 1, Len(s)) = SubSeq(s, 1, Len(s))
    <3>1. s \in Seq(Nat) /\ 1 \in 1..Len(s) + 1 /\ n \in 1 - 1..Len(s) /\ Len(s) \in n..Len(s)
      BY <2>1 DEF Chunks
    <3>2. QED
      BY <3>1, ConcatAdjacentSubSeq
  <2>6. SubSeq(s, 1, Len(s)) = s
    BY SubSeqFull DEF Chunks
  <2>7. QED
    BY <2>2, <2>3, <2>4, <2>5, <2>6
<1>3. QED
  BY <1>1, <1>2

\* A list taken apart at one of its chunks.
LEMMA ListCut ==
  ASSUME NEW list \in Seq(Chunks), NEW k \in DOMAIN list
  PROVE  /\ SubSeq(list, 1, k - 1) \in Seq(Chunks) /\ SubSeq(list, k + 1, Len(list)) \in Seq(Chunks)
         /\ list = SubSeq(list, 1, k) \o SubSeq(list, k + 1, Len(list))
         /\ SubSeq(list, 1, k) = SubSeq(list, 1, k - 1) \o <<list[k]>>
         /\ SubSeq(list, 1, k) \in Seq(Chunks)
         /\ \A i \in DOMAIN SubSeq(list, k + 1, Len(list)) : \E j \in DOMAIN list : SubSeq(list, k + 1, Len(list))[i] = list[j]
<1>1. Len(list) \in Nat /\ k \in 1..Len(list) /\ k \in Nat /\ DOMAIN list = 1..Len(list) /\ \A i \in 1..Len(list) : list[i] \in Chunks
  OBVIOUS
<1>2. SubSeq(list, 1, k - 1) \in Seq(Chunks) /\ SubSeq(list, 1, k) \in Seq(Chunks)
  BY <1>1
<1>3. /\ SubSeq(list, k + 1, Len(list)) \in Seq(Chunks)
      /\ Len(SubSeq(list, k + 1, Len(list))) = IF k + 1 <= Len(list) THEN Len(list) - (k + 1) + 1 ELSE 0
      /\ \A i \in 1..Len(list) - (k + 1) + 1 : SubSeq(list, k + 1, Len(list))[i] = list[(k + 1) + i - 1]
  <2>1. k + 1 \in Int /\ Len(list) \in Int /\ \A i \in k + 1..Len(list) : list[i] \in Chunks
    BY <1>1
  <2>2. QED
    BY <2>1, SubSeqProperties
<1>4. list = SubSeq(list, 1, k) \o SubSeq(list, k + 1, Len(list))
  <2>1. 1 \in 1..Len(list) + 1 /\ k \in 1 - 1..Len(list) /\ Len(list) \in k..Len(list)
    BY <1>1
  <2>2. SubSeq(list, 1, k) \o SubSeq(list, k + 1, Len(list)) = SubSeq(list, 1, Len(list))
    BY <2>1, ConcatAdjacentSubSeq
  <2>3. SubSeq(list, 1, Len(list)) = list
    BY SubSeqFull
  <2>4. QED
    BY <2>2, <2>3
<1>5. SubSeq(list, 1, k) = SubSeq(list, 1, k - 1) \o <<list[k]>>
  <2>1. 1 \in 1..Len(list) /\ k \in 1..Len(list)
    BY <1>1
  <2>2. QED
    BY <2>1, SubSeqRecursiveSecond
<1>6. ASSUME NEW i \in DOMAIN SubSeq(list, k + 1, Len(list))
      PROVE  \E j \in DOMAIN list : SubSeq(list, k + 1, Len(list))[i] = list[j]
  <2> DEFINE b == SubSeq(list, k + 1, Len(list))
  <2>1. b \in Seq(Chunks) /\ i \in 1..Len(b)
    BY <1>3
  <2> HIDE DEF b
  <2>2. Len(b) = IF k + 1 <= Len(list) THEN Len(list) - (k + 1) + 1 ELSE 0
    BY <1>3 DEF b
  <2>3. i \in 1..Len(list) - (k + 1) + 1 /\ (k + 1) + i - 1 \in DOMAIN list
    BY <1>1, <2>1, <2>2
  <2>4. QED
    BY <1>3, <2>3
<1>7. QED
  BY <1>2, <1>3, <1>4, <1>5, <1>6

\* consume() leaves what is behind the bytes it takes, in chunks that are not empty.
LEMMA Consumed ==
  ASSUME NEW list \in Seq(Chunks), \A i \in DOMAIN list : list[i] # << >>, NEW n \in 1..Len(Bytes(list))
  PROVE  /\ Consume(list, n) \in Seq(Chunks)
         /\ \A i \in DOMAIN Consume(list, n) : Consume(list, n)[i] # << >>
         /\ Bytes(list) = SubSeq(Bytes(list), 1, n) \o Bytes(Consume(list, n))
<1> DEFINE row == Bytes(list)
           S   == {k \in Nat : k <= Len(list) /\ Upto(list, k) >= n}
<1>1. /\ row \in Chunks /\ Len(row) \in Nat /\ n \in Nat /\ 1 <= n /\ n <= Len(row)
      /\ Len(list) \in Nat /\ DOMAIN list = 1..Len(list) /\ \A i \in 1..Len(list) : list[i] \in Chunks
  <2>1. row \in Chunks
    BY BytesFew
  <2>2. Len(row) \in Nat
    BY <2>1, CatAlgebra
  <2>3. QED
    BY <2>1, <2>2
<1>2. PICK g : Flats(g, list)
  BY FlatsExist
<1>3. /\ row = g[Len(list)] /\ g[0] = << >>
      /\ \A k \in 0..Len(list) : Bytes(SubSeq(list, 1, k)) = g[k] /\ g[k] \in Chunks /\ Upto(list, k) = Len(g[k]) /\ Len(g[k]) \in Nat
      /\ \A k \in 1..Len(list) : g[k] = g[k - 1] \o list[k]
  <2>1. row = g[Len(list)] /\ g[0] = << >> /\ \A k \in 1..Len(list) : g[k] = g[k - 1] \o list[k]
    BY <1>2, BytesAre DEF Flats
  <2>2. ASSUME NEW k \in 0..Len(list)
        PROVE  Bytes(SubSeq(list, 1, k)) = g[k] /\ g[k] \in Chunks /\ Upto(list, k) = Len(g[k]) /\ Len(g[k]) \in Nat
    <3>1. Bytes(SubSeq(list, 1, k)) = g[k] /\ g[k] \in Chunks
      BY <1>2, BytesUpto
    <3>2. Upto(list, k) = Len(g[k])
      BY <3>1, Zenon DEF Upto
    <3>3. QED
      BY <3>1, <3>2, CatAlgebra
  <2>3. QED
    BY <2>1, <2>2
<1> HIDE DEF row
<1>4. Len(list) \in S
  BY <1>1, <1>3
<1>5. PICK m \in S : \A k \in Nat : k < m => k \notin S
  <2>1. S \in SUBSET Nat /\ S # {}
    BY <1>4
  <2> HIDE DEF S
  <2>2. QED
    BY <2>1, Least
<1>6. m # 0
  BY <1>1, <1>3
<1>7. m \in DOMAIN list /\ Upto(list, m) >= n /\ Upto(list, m - 1) < n
  <2>1. m \in 1..Len(list) /\ m - 1 \in Nat /\ m - 1 < m /\ m - 1 <= Len(list) /\ m - 1 \in 0..Len(list)
    BY <1>1, <1>6
  <2>2. ~(Upto(list, m - 1) >= n) /\ Upto(list, m - 1) \in Nat
    <3>1. m - 1 \notin S
      BY <1>5, <2>1
    <3>2. QED
      BY <1>3, <2>1, <3>1
  <2>3. QED
    BY <1>1, <2>1, <2>2
<1> HIDE DEF S
<1> DEFINE k == CHOOSE i \in DOMAIN list : Upto(list, i) >= n /\ Upto(list, i - 1) < n
           a == SubSeq(list, 1, k - 1)
           b == SubSeq(list, k + 1, Len(list))
           c == list[k]
           p == Len(Bytes(a))
           rest == SubSeq(list[k], n - Upto(list, k - 1) + 1, Len(list[k]))
<1>8. k \in DOMAIN list /\ Upto(list, k) >= n /\ Upto(list, k - 1) < n
  BY <1>7
<1>9. Consume(list, n) = (IF rest = << >> THEN << >> ELSE <<rest>>) \o b
  BY DEF Consume
<1> HIDE DEF k
<1>10. /\ a \in Seq(Chunks) /\ b \in Seq(Chunks) /\ c \in Chunks
       /\ list = SubSeq(list, 1, k) \o b /\ SubSeq(list, 1, k) = a \o <<c>> /\ SubSeq(list, 1, k) \in Seq(Chunks)
       /\ \A i \in DOMAIN b : \E j \in DOMAIN list : b[i] = list[j]
       /\ Upto(list, k - 1) = p
  BY <1>1, <1>8, ListCut DEF Upto
<1>11. rest = SubSeq(c, n - p + 1, Len(c))
  BY <1>10
<1> HIDE DEF a, b, c, rest
<1>12. /\ Bytes(a) \in Chunks /\ Bytes(b) \in Chunks
       /\ row = (Bytes(a) \o c) \o Bytes(b)
       /\ Bytes(SubSeq(list, 1, k)) = Bytes(a) \o c
  <2>1. Append(a, c) = a \o <<c>>
    BY <1>10
  <2>2. Bytes(a \o <<c>>) = Bytes(a) \o c
    BY <1>10, <2>1, BytesFew, ZenonT(60)
  <2>3. Bytes(SubSeq(list, 1, k) \o b) = Bytes(SubSeq(list, 1, k)) \o Bytes(b)
    BY <1>10, BytesCat
  <2>4. Bytes(list) = Bytes(SubSeq(list, 1, k)) \o Bytes(b)
    BY <1>10, <2>3
  <2>5. QED
    BY <1>10, <2>2, <2>4, BytesFew DEF row
<1>13. p \in Nat /\ Len(c) \in Nat /\ p < n /\ n <= p + Len(c)
  <2>1. Len(Bytes(a) \o c) = p + Len(c)
    BY <1>10, <1>12, CatFacts
  <2>2. Upto(list, k) = p + Len(c)
    BY <1>12, <2>1 DEF Upto
  <2>3. p \in Nat /\ Len(c) \in Nat
    BY <1>10, <1>12, CatAlgebra
  <2>4. QED
    BY <1>8, <1>10, <2>2, <2>3
<1> DEFINE q == n - p
           first == SubSeq(c, 1, q)
<1>14. q \in 0..Len(c) /\ p + q = n
  BY <1>1, <1>13
<1>15. /\ first \in Chunks /\ Len(first) = q /\ rest \in Chunks /\ c = first \o rest
  BY <1>10, <1>11, <1>14, Cut
<1> HIDE DEF q, first, p
<1> DEFINE taken == Bytes(a) \o first
           left == rest \o Bytes(b)
<1>16. taken \in Chunks /\ Len(taken) = n /\ left \in Chunks
  BY <1>12, <1>14, <1>15, CatFacts DEF p
<1>17. row = taken \o left
  <2>1. Bytes(a) \o (first \o rest) = taken \o rest
    BY <1>12, <1>15, CatAlgebra
  <2>2. (taken \o rest) \o Bytes(b) = taken \o left
    BY <1>12, <1>15, <1>16, CatAlgebra
  <2>3. QED
    BY <1>12, <1>15, <2>1, <2>2
<1> HIDE DEF taken, left
<1>18. SubSeq(row, 1, n) = taken
  BY <1>16, <1>17, Cut
<1>19. Consume(list, n) \in Seq(Chunks) /\ Bytes(Consume(list, n)) = left /\ \A i \in DOMAIN Consume(list, n) : Consume(list, n)[i] # << >>
  <2>0. \A i \in DOMAIN b : b[i] # << >>
    BY <1>10
  <2>1. CASE rest = << >>
    <3>1. Consume(list, n) = b
      <4>1. Consume(list, n) = << >> \o b
        BY <1>9, <2>1
      <4>2. QED
        BY <1>10, <4>1
    <3>2. left = Bytes(b)
      BY <1>12, <2>1, CatAlgebra DEF left
    <3>3. QED
      BY <1>10, <2>0, <3>1, <3>2
  <2>2. CASE rest # << >>
    <3> DEFINE u == <<rest>> \o b
    <3>1. Consume(list, n) = u
      BY <1>9, <2>2
    <3>2. u \in Seq(Chunks) /\ \A i \in DOMAIN u : i = 1 \/ i - 1 \in DOMAIN b
      BY <1>10, <1>15
    <3>3. u[1] = rest /\ \A i \in DOMAIN u : i - 1 \in DOMAIN b => u[i] = b[i - 1]
      BY <1>10, <1>15
    <3>4. Bytes(u) = left
      BY <1>10, <1>15, BytesFew DEF left
    <3> HIDE DEF u
    <3>5. \A i \in DOMAIN u : u[i] # << >>
      BY <2>0, <2>2, <3>2, <3>3
    <3>6. QED
      BY <3>1, <3>2, <3>4, <3>5
  <2>3. QED
    BY <2>1, <2>2
<1>20. QED
  BY <1>17, <1>18, <1>19 DEF row

-----------------------------------------------------------------------------
(* Calls.                                                                  *)

\* The calls of the model.
LEMMA FrameFacts ==
  /\ \A op \in Plain \cup Special : Do(op) \in Frame /\ Do(op).op = op
  /\ \A n \in Nat : ReadOf(n) \in Frame /\ ReadOf(n).op = "read"
  /\ \A c \in Chunks : Len(c) <= MaxBytes => Data(c) \in Frame /\ Data(c).op = "data" /\ Data(c).chunk = c
<1>1. << >> \in Chunks /\ Len(<< >>) = 0
  BY DEF Chunks
<1>2. QED
  BY <1>1, ReadableAssumption DEF ReadableAssumption, Do, ReadOf, Data, Frame, Special, Plain

\* The innermost call.
LEMMA Top ==
  ASSUME NEW s \in Seq(Frame), s # << >>, Nested(s)
  PROVE  /\ s[1] \in Frame /\ Tail(s) \in Seq(Frame)
         /\ s[1].op # "_read" => Quiet(Tail(s))
         /\ s[1].op \in Plain => Quiet(s)
         /\ s[1].op = "_read" => /\ Tail(s) # << >> /\ Tail(s)[1].op = "take" /\ Quiet(Tail(Tail(s)))
                                 /\ Tail(s)[1] = s[2] /\ Nested(Tail(s))
<1> DEFINE r == Tail(s)
<1>1. /\ s[1] \in Frame /\ r \in Seq(Frame) /\ Len(s) \in Nat /\ Len(r) = Len(s) - 1 /\ 1 \in DOMAIN s
      /\ \A i \in DOMAIN r : i + 1 \in DOMAIN s /\ r[i] = s[i + 1] /\ s[i + 1] \in Frame /\ i \in Nat /\ i # 0
      /\ \A i \in DOMAIN s : s[i] \in Frame /\ i \in Nat /\ i # 0
      /\ DOMAIN r = 1..(Len(s) - 1) /\ DOMAIN s = 1..Len(s)
  OBVIOUS
<1>2. \A f \in Frame : f.op \notin Special => f.op \in Plain
  BY DEF Frame
<1>3. Plain \cap Special = {} /\ "_read" \in Special /\ "_read" \notin Plain
  BY DEF Plain, Special
<1> HIDE DEF r
<1>4. s[1].op # "_read" => Quiet(r)
  BY <1>1, <1>2 DEF Quiet, Nested
<1>5. s[1].op \in Plain => Quiet(s)
  BY <1>1, <1>2, <1>3 DEF Quiet, Nested
<1>6. ASSUME s[1].op = "_read" PROVE r # << >> /\ r[1].op = "take" /\ Quiet(Tail(r)) /\ r[1] = s[2] /\ Nested(r)
  <2>1. 2 \in DOMAIN s /\ s[2].op = "take"
    BY <1>6 DEF Nested
  <2>2. 1 \in DOMAIN r /\ r[1] = s[2] /\ r # << >>
    BY <1>1, <2>1
  <2>3. \A i \in DOMAIN r : i # 1 => r[i].op \in Plain
    BY <1>1, <1>2 DEF Nested
  <2>4. \A i \in DOMAIN Tail(r) : i + 1 \in DOMAIN r /\ Tail(r)[i] = r[i + 1] /\ i + 1 # 1
    BY <1>1, <2>2
  <2>5. Quiet(Tail(r))
    BY <2>3, <2>4 DEF Quiet
  <2>6. Nested(r)
    BY <1>3, <2>1, <2>2, <2>3 DEF Nested
  <2>7. QED
    BY <2>1, <2>2, <2>5, <2>6
<1>7. QED
  BY <1>1, <1>4, <1>5, <1>6 DEF r

\* One call or two from quiet ones.
LEMMA Over ==
  ASSUME NEW r \in Seq(Frame), Quiet(r)
  PROVE  /\ Nested(r) /\ << >> \o r = r
         /\ \A f \in Frame : LET s == <<f>> \o r IN
              /\ s \in Seq(Frame) /\ s # << >> /\ s[1] = f
              /\ \A i \in DOMAIN s : i # 1 => s[i].op \in Plain
              /\ f.op # "_read" => Nested(s)
              /\ f.op \in Plain => Quiet(s)
         /\ \A f, g \in Frame : LET s == <<f, g>> \o r IN
              /\ s \in Seq(Frame) /\ s # << >> /\ s[1] = f /\ 2 \in DOMAIN s /\ s[2] = g
              /\ \A i \in DOMAIN s : i \notin {1, 2} => s[i].op \in Plain
              /\ f.op = "_read" /\ g.op = "take" => Nested(s)
              /\ f.op \in Plain /\ g.op \in Plain => Quiet(s)
<1>1. Plain \cap Special = {} /\ "_read" \in Special
  BY DEF Plain, Special
<1>2. Nested(r)
  <2>1. r # << >> => 1 \in DOMAIN r
    OBVIOUS
  <2>2. QED
    BY <1>1, <2>1 DEF Nested, Quiet
<1>3. << >> \o r = r
  OBVIOUS
<1>4. ASSUME NEW f \in Frame
      PROVE  LET s == <<f>> \o r IN
              /\ s \in Seq(Frame) /\ s # << >> /\ s[1] = f
              /\ \A i \in DOMAIN s : i # 1 => s[i].op \in Plain
              /\ f.op # "_read" => Nested(s)
              /\ f.op \in Plain => Quiet(s)
  <2> DEFINE s == <<f>> \o r
  <2>1. /\ s \in Seq(Frame) /\ s # << >> /\ s[1] = f
        /\ \A i \in DOMAIN s : i # 1 => i - 1 \in DOMAIN r /\ s[i] = r[i - 1]
    OBVIOUS
  <2> HIDE DEF s
  <2>2. \A i \in DOMAIN s : i # 1 => s[i].op \in Plain
    BY <2>1 DEF Quiet
  <2>3. (f.op # "_read" => Nested(s)) /\ (f.op \in Plain => Quiet(s))
    BY <1>1, <2>1, <2>2 DEF Nested, Quiet
  <2>4. QED
    BY <2>1, <2>2, <2>3 DEF s
<1>5. ASSUME NEW f \in Frame, NEW g \in Frame
      PROVE  LET s == <<f, g>> \o r IN
              /\ s \in Seq(Frame) /\ s # << >> /\ s[1] = f /\ 2 \in DOMAIN s /\ s[2] = g
              /\ \A i \in DOMAIN s : i \notin {1, 2} => s[i].op \in Plain
              /\ f.op = "_read" /\ g.op = "take" => Nested(s)
              /\ f.op \in Plain /\ g.op \in Plain => Quiet(s)
  <2> DEFINE s == <<f, g>> \o r
  <2>1. /\ s \in Seq(Frame) /\ s # << >> /\ s[1] = f /\ 2 \in DOMAIN s /\ s[2] = g
        /\ \A i \in DOMAIN s : i \notin {1, 2} => i - 2 \in DOMAIN r /\ s[i] = r[i - 2]
    OBVIOUS
  <2> HIDE DEF s
  <2>2. \A i \in DOMAIN s : i \notin {1, 2} => s[i].op \in Plain
    BY <2>1 DEF Quiet
  <2>3. f.op = "_read" /\ g.op = "take" => Nested(s)
    BY <1>1, <2>1, <2>2 DEF Nested
  <2>4. f.op \in Plain /\ g.op \in Plain => Quiet(s)
    BY <2>1, <2>2 DEF Quiet
  <2>5. QED
    BY <2>1, <2>2, <2>3, <2>4 DEF s
<1>6. QED
  BY <1>2, <1>3, <1>4, <1>5

\* While the program runs nothing reads or emits.
LEMMA InTheProgram ==
  ASSUME Typed, Shape, InProgram
  PROVE  Quiet(todo) /\ ~At("data") /\ Handing = << >>
<1>1. CASE todo = << >>
  BY <1>1 DEF Quiet, At, Handing
<1>2. CASE todo # << >>
  <2>1. todo[1].op = "program"
    BY <1>2 DEF InProgram
  <2>2. Quiet(todo)
    BY <1>2, <2>1, Top DEF Typed, Shape, Plain
  <2>3. QED
    BY <2>1, <2>2 DEF At, Handing
<1>3. QED
  BY <1>1, <1>2

-----------------------------------------------------------------------------
(* What is done to the state.                                              *)

\* It keeps its type, its buffer and what decides where a chunk goes.
Like(s, t) ==
  /\ t \in StateType /\ t.buffer = s.buffer /\ t.awaitDrain = s.awaitDrain /\ t.flowing = s.flowing
  /\ t.reading = s.reading /\ t.sync = s.sync /\ t.ended = s.ended

LEMMA EmitReadableLike == \A s \in StateType : Like(s, EmitReadable(s))
<1> SUFFICES ASSUME NEW s \in StateType PROVE Like(s, EmitReadable(s))
  OBVIOUS
<1> DEFINE t == [s EXCEPT !.needReadable = FALSE]
           u == [t EXCEPT !.emittedReadable = TRUE]
<1>1. Like(s, t)
  BY DEF Like, StateType
<1>2. EmitReadable(s) = u
  BY DEF EmitReadable, StateType
<1> HIDE DEF t
<1>3. Like(t, u)
  BY <1>1 DEF Like, StateType
<1>4. QED
  BY <1>1, <1>2, <1>3 DEF Like

LEMMA RaisedLike == \A s \in StateType, n \in Nat : Like(s, Raised(n, s))
<1> SUFFICES ASSUME NEW s \in StateType, NEW n \in Nat PROVE Like(s, Raised(n, s))
  OBVIOUS
<1> DEFINE hwm  == IF n > s.highWaterMark THEN PowerOf2(n) ELSE s.highWaterMark
           need == s.needReadable \/ (n > Length(s) /\ ~s.ended)
           t == [s EXCEPT !.highWaterMark = hwm]
           u == [t EXCEPT !.needReadable = need]
<1>0. hwm \in Marks /\ need \in BOOLEAN
  BY DEF Marks, StateType
<1>1. [s EXCEPT !.highWaterMark = IF n > @ THEN PowerOf2(n) ELSE @,
                !.needReadable = @ \/ (n > Length(s) /\ ~s.ended)] = u
  BY DEF StateType
<1> HIDE DEF hwm, need
<1>2. Like(s, t)
  BY <1>0 DEF Like, StateType
<1> HIDE DEF t
<1>3. Like(t, u)
  BY <1>0, <1>2 DEF Like, StateType
<1>4. Like(s, s)
  BY DEF Like
<1>5. QED
  BY <1>1, <1>2, <1>3, <1>4, Zenon DEF Like, Raised

\* What can be read is there.
LEMMA HowMuchThere ==
  ASSUME NEW s \in StateType, NEW n \in Nat
  PROVE  HowMuch(n, s) \in 0..Length(s) /\ Length(s) \in Nat
<1>1. s.buffer \in Seq(Chunks)
  BY DEF StateType
<1>2. Length(s) \in Nat
  BY <1>1, BytesFew, CatAlgebra DEF Length
<1>3. ASSUME Length(s) > 0 PROVE Len(s.buffer[1]) \in 0..Length(s)
  <2>1. s.buffer # << >>
    BY <1>3, BytesFew, CatAlgebra DEF Length
  <2>2. s.buffer[1] \in Chunks /\ Tail(s.buffer) \in Seq(Chunks) /\ s.buffer = <<s.buffer[1]>> \o Tail(s.buffer)
    BY <1>1, <2>1
  <2> DEFINE c == s.buffer[1]
             r == Tail(s.buffer)
  <2>3. Bytes(s.buffer) = c \o Bytes(r) /\ Bytes(r) \in Chunks
    BY <2>2, BytesFew, Zenon
  <2> HIDE DEF c, r
  <2>4. c \in Chunks
    BY <2>2 DEF c
  <2>5. Len(c \o Bytes(r)) = Len(c) + Len(Bytes(r)) /\ Len(c) \in Nat /\ Len(Bytes(r)) \in Nat
    BY <2>3, <2>4, CatFacts, CatAlgebra
  <2>6. Length(s) = Len(c) + Len(Bytes(r))
    BY <2>3, <2>5 DEF Length
  <2>7. QED
    BY <2>5, <2>6 DEF c
<1>4. QED
  BY <1>2, <1>3 DEF HowMuch

LEMMA ResumedTyped ==
  \A s \in StateType : /\ Resumed(s) \in StateType /\ Resumed(s).buffer = s.buffer
                       /\ Resumed(s).awaitDrain = s.awaitDrain /\ Resumed(s).reading = s.reading
BY DEF Resumed, StateType, Flags

\* Once the Writable has drained, or the pipe is taken down, nothing is awaited.
LEMMA DrainedTyped ==
  \A who : \A s \in StateType :
    /\ OnDrain(s, who) \in StateType /\ OnDrain(s, who).buffer = s.buffer
    /\ OnDrain(s, who).reading = s.reading /\ OnDrain(s, who).awaitDrain = 0
<1> SUFFICES ASSUME NEW s \in StateType, NEW who
             PROVE  /\ OnDrain(s, who) \in StateType /\ OnDrain(s, who).buffer = s.buffer
                    /\ OnDrain(s, who).reading = s.reading /\ OnDrain(s, who).awaitDrain = 0
  OBVIOUS
<1>1. s.awaitDrain \in {0, 1}
  BY DEF StateType
<1>2. CASE s.awaitDrain <= 1 /\ who # {}
  <2> DEFINE t == [s EXCEPT !.awaitDrain = 0]
             u == [t EXCEPT !.flowing = "on"]
  <2>1. t \in StateType /\ t.buffer = s.buffer /\ t.reading = s.reading /\ t.awaitDrain = 0
    BY DEF StateType
  <2>2. OnDrain(s, who) = u
    BY <1>2 DEF OnDrain, StateType
  <2> HIDE DEF t
  <2>3. u \in StateType /\ u.buffer = t.buffer /\ u.reading = t.reading /\ u.awaitDrain = t.awaitDrain
    BY <2>1 DEF StateType, Flags
  <2>4. QED
    BY <2>1, <2>2, <2>3
<1>3. CASE ~(s.awaitDrain <= 1 /\ who # {})
  <2> DEFINE n == IF s.awaitDrain > 0 THEN s.awaitDrain - 1 ELSE 0
  <2>1. n = 0
    BY <1>1
  <2>2. OnDrain(s, who) = [s EXCEPT !.awaitDrain = n]
    BY <1>3 DEF OnDrain, StateType
  <2> HIDE DEF n
  <2>3. QED
    BY <2>1, <2>2 DEF StateType
<1>4. QED
  BY <1>2, <1>3

-----------------------------------------------------------------------------
(* Steps that leave the bytes where they are.                              *)

LEMMA RowTyped ==
  ASSUME Typed
  PROVE  /\ Handing \in Chunks /\ Bytes(state.buffer) \in Chunks /\ Row \in Chunks
         /\ seen \in Chunks /\ seen \o Handing \in Chunks
         /\ Handing = << >> => Row = seen \o Bytes(state.buffer)
<1>1. Bytes(state.buffer) \in Chunks
  BY BytesFew DEF Typed, StateType
<1>2. Handing \in Chunks
  <2>1. CASE At("data")
    <3>1. todo[1] \in Frame
      BY <2>1 DEF At, Typed
    <3>2. QED
      BY <2>1, <3>1 DEF Handing, Frame
  <2>2. CASE ~At("data")
    BY <2>2, CatAlgebra DEF Handing
  <2>3. QED
    BY <2>1, <2>2
<1>3. seen \in Chunks
  BY DEF Typed
<1>4. seen \o Handing \in Chunks
  BY <1>2, <1>3, CatFacts
<1>5. Row \in Chunks
  BY <1>1, <1>4, CatFacts DEF Row
<1>6. Handing = << >> => Row = seen \o Bytes(state.buffer)
  BY <1>3, CatAlgebra DEF Row
<1>7. QED
  BY <1>1, <1>2, <1>3, <1>4, <1>5, <1>6

Wired ==
  /\ needDrain \in BOOLEAN /\ piped \in BOOLEAN /\ meddled \in BOOLEAN
  /\ listeners \subseteq {"program", "pipe"} /\ ("pipe" \in listeners <=> piped)

LEMMA SameBytes ==
  ASSUME IInv, ~At("data"), ~At("data")', state' \in StateType, state'.buffer = state.buffer,
         UNCHANGED history, todo' \in Seq(Frame), Shape', Measured', Wired', Waiting',
         state'.awaitDrain > 0 => piped' /\ needDrain'
  PROVE  IInv'
<1>1. UNCHANGED <<pushed, seen, lost, last>>
  BY DEF history
<1>2. Typed'
  BY <1>1 DEF IInv, Typed, Wired
<1>3. Handing = << >> /\ Handing' = << >>
  BY DEF Handing
<1>4. Row' = Row
  BY <1>1, <1>3 DEF Row
<1>5. Lined'
  BY <1>1, <1>4 DEF IInv, Lined
<1>6. Suffix'
  BY <1>1 DEF IInv, Suffix
<1>7. Awaiting'
  BY DEF Awaiting
<1>8. QED
  BY <1>2, <1>5, <1>6, <1>7 DEF IInv

\* A stack of calls none of which reads or emits is sound.
LEMMA QuietShape ==
  ASSUME todo' \in Seq(Frame), Quiet(todo')
  PROVE  Shape' /\ Measured' /\ ~At("data")' /\ ~At("read")' /\ (todo' # << >> => todo'[1].op \in Plain)
<1>1. Nested(todo')
  BY Over
<1>2. todo' # << >> => 1 \in DOMAIN todo'
  OBVIOUS
<1>3. "take" \notin Plain /\ "data" \notin Plain /\ "read" \notin Plain /\ "_read" \notin Plain
  BY DEF Plain
<1>4. QED
  BY <1>1, <1>2, <1>3 DEF Shape, Measured, At, Quiet

LEMMA QuietStep ==
  ASSUME IInv, ~At("data"), state' \in StateType, state'.buffer = state.buffer,
         UNCHANGED history, todo' \in Seq(Frame), Quiet(todo'), Wired',
         state'.awaitDrain > 0 => piped' /\ needDrain',
         (listeners = {"pipe"} /\ needDrain /\ ~meddled)' => state'.flowing = "off"
  PROVE  IInv'
<1>1. Shape' /\ Measured' /\ ~At("data")' /\ (todo' # << >> => todo'[1].op \in Plain)
  BY QuietShape
<1>2. Waiting'
  BY <1>1 DEF Waiting
<1>3. QED
  BY <1>1, <1>2, SameBytes

\* The innermost call of a plain kind returns, or is followed by others.
LEMMA Returned ==
  ASSUME Typed, Shape, todo # << >>, todo[1].op # "_read"
  PROVE  /\ todo[1] \in Frame /\ Tail(todo) \in Seq(Frame) /\ Quiet(Tail(todo)) /\ Nested(todo)
         /\ todo[1].n \in Nat /\ todo[1].m \in 0..MaxBytes /\ todo[1].chunk \in Chunks /\ Len(todo[1].chunk) <= MaxBytes
<1>1. todo \in Seq(Frame) /\ Nested(todo)
  BY DEF Typed, Shape
<1>2. todo[1] \in Frame /\ Tail(todo) \in Seq(Frame) /\ Quiet(Tail(todo))
  BY <1>1, Top
<1>3. QED
  BY <1>1, <1>2 DEF Frame

LEMMA ReturnStep == ASSUME IInv, Return PROVE IInv'
<1>1. todo # << >> /\ todo[1].op = "program" /\ todo' = << >> \o Tail(todo)
  BY DEF Return, At, Then
<1>2. UNCHANGED <<state, listeners, piped, needDrain, meddled>> /\ UNCHANGED history
  BY DEF Return, wires
<1>3. Tail(todo) \in Seq(Frame) /\ Quiet(Tail(todo)) /\ todo' = Tail(todo)
  <2>1. Tail(todo) \in Seq(Frame) /\ Quiet(Tail(todo))
    BY <1>1, Returned DEF IInv
  <2>2. QED
    BY <1>1, <2>1, Over
<1>4. state' \in StateType /\ state'.buffer = state.buffer /\ Wired'
  BY <1>2 DEF IInv, Typed, Wired
<1>5. state'.awaitDrain > 0 => piped' /\ needDrain'
  BY <1>2 DEF IInv, Awaiting
<1>6. (listeners = {"pipe"} /\ needDrain /\ ~meddled)' => state'.flowing = "off"
  BY <1>2 DEF IInv, Waiting
<1>7. ~At("data") /\ UNCHANGED history
  BY <1>1, <1>2 DEF At
<1>8. QED
  BY <1>3, <1>4, <1>5, <1>6, <1>7, QuietStep

\* The program, when nothing reads or emits, changes the state but not the buffer.
LEMMA ProgramStep ==
  ASSUME IInv, InProgram, UNCHANGED todo, UNCHANGED history,
         state' \in StateType, state'.buffer = state.buffer, Wired', meddled',
         state'.awaitDrain > 0 => piped' /\ needDrain'
  PROVE  IInv'
<1>1. Quiet(todo) /\ ~At("data") /\ todo \in Seq(Frame)
  BY InTheProgram DEF IInv, Typed
<1>2. Quiet(todo') /\ todo' \in Seq(Frame)
  BY <1>1
<1>3. QED
  BY <1>1, <1>2, QuietStep

LEMMA PauseStep == ASSUME IInv, Pause PROVE IInv'
<1>1. /\ InProgram /\ state' = [state EXCEPT !.flowing = "off"] /\ meddled' = TRUE
      /\ UNCHANGED <<listeners, piped, needDrain>> /\ UNCHANGED todo /\ UNCHANGED history
  BY DEF Pause, wires
<1>2. state' \in StateType /\ state'.buffer = state.buffer /\ state'.awaitDrain = state.awaitDrain
  BY <1>1 DEF IInv, Typed, StateType, Flags
<1>3. Wired'
  BY <1>1 DEF IInv, Typed, Wired
<1>4. state'.awaitDrain > 0 => piped' /\ needDrain'
  BY <1>1, <1>2 DEF IInv, Awaiting
<1>5. QED
  BY <1>1, <1>2, <1>3, <1>4, ProgramStep

LEMMA ResumeStep == ASSUME IInv, Resume PROVE IInv'
<1>1. /\ InProgram /\ state' = Resumed(state) /\ meddled' = TRUE
      /\ UNCHANGED <<listeners, piped, needDrain>> /\ UNCHANGED todo /\ UNCHANGED history
  BY DEF Resume, wires
<1>2. state' \in StateType /\ state'.buffer = state.buffer /\ state'.awaitDrain = state.awaitDrain
  BY <1>1, ResumedTyped DEF IInv, Typed
<1>3. Wired'
  BY <1>1 DEF IInv, Typed, Wired
<1>4. state'.awaitDrain > 0 => piped' /\ needDrain'
  BY <1>1, <1>2 DEF IInv, Awaiting
<1>5. QED
  BY <1>1, <1>2, <1>3, <1>4, ProgramStep

LEMMA DestroyStep == ASSUME IInv, Destroy PROVE IInv'
<1>1. /\ InProgram /\ state' = [state EXCEPT !.destroyed = TRUE] /\ meddled' = TRUE
      /\ UNCHANGED <<listeners, piped, needDrain>> /\ UNCHANGED todo /\ UNCHANGED history
  BY DEF Destroy, wires
<1>2. state' \in StateType /\ state'.buffer = state.buffer /\ state'.awaitDrain = state.awaitDrain
  BY <1>1 DEF IInv, Typed, StateType
<1>3. Wired'
  BY <1>1 DEF IInv, Typed, Wired
<1>4. state'.awaitDrain > 0 => piped' /\ needDrain'
  BY <1>1, <1>2 DEF IInv, Awaiting
<1>5. QED
  BY <1>1, <1>2, <1>3, <1>4, ProgramStep

LEMMA OnDataStep == ASSUME IInv, OnData PROVE IInv'
<1>1. /\ InProgram /\ meddled' = TRUE /\ listeners' = listeners \cup {"program"}
      /\ state' = IF state.flowing = "off" THEN state ELSE Resumed(state)
      /\ UNCHANGED <<piped, needDrain>> /\ UNCHANGED todo /\ UNCHANGED history
  BY DEF OnData
<1>2. state' \in StateType /\ state'.buffer = state.buffer /\ state'.awaitDrain = state.awaitDrain
  BY <1>1, ResumedTyped DEF IInv, Typed
<1>3. Wired'
  BY <1>1 DEF IInv, Typed, Wired
<1>4. state'.awaitDrain > 0 => piped' /\ needDrain'
  BY <1>1, <1>2 DEF IInv, Awaiting
<1>5. QED
  BY <1>1, <1>2, <1>3, <1>4, ProgramStep

LEMMA OffDataStep == ASSUME IInv, OffData PROVE IInv'
<1>1. /\ InProgram /\ meddled' = TRUE /\ listeners' = listeners \ {"program"}
      /\ UNCHANGED <<state, piped, needDrain>> /\ UNCHANGED todo /\ UNCHANGED history
  BY DEF OffData
<1>2. state' \in StateType /\ state'.buffer = state.buffer /\ state'.awaitDrain = state.awaitDrain
  BY <1>1 DEF IInv, Typed
<1>3. Wired'
  BY <1>1 DEF IInv, Typed, Wired
<1>4. state'.awaitDrain > 0 => piped' /\ needDrain'
  BY <1>1, <1>2 DEF IInv, Awaiting
<1>5. QED
  BY <1>1, <1>2, <1>3, <1>4, ProgramStep

LEMMA OnReadableStep == ASSUME IInv, OnReadable PROVE IInv'
<1> DEFINE a == [state EXCEPT !.readableListening = TRUE]
           b == [a EXCEPT !.needReadable = TRUE]
           c == [b EXCEPT !.flowing = "off"]
           s == [c EXCEPT !.emittedReadable = FALSE]
<1>1. /\ InProgram /\ meddled' = TRUE
      /\ state' = LET t == [state EXCEPT !.readableListening = TRUE, !.needReadable = TRUE,
                              !.flowing = "off", !.emittedReadable = FALSE]
                  IN IF Length(t) > 0 THEN EmitReadable(t) ELSE t
      /\ UNCHANGED <<listeners, piped, needDrain>> /\ UNCHANGED todo /\ UNCHANGED history
  BY DEF OnReadable, wires
<1>2. a \in StateType /\ a.buffer = state.buffer /\ a.awaitDrain = state.awaitDrain
  BY DEF IInv, Typed, StateType
<1>3. [state EXCEPT !.readableListening = TRUE, !.needReadable = TRUE,
                    !.flowing = "off", !.emittedReadable = FALSE] = s
  BY DEF IInv, Typed, StateType
<1>4. state' = IF Length(s) > 0 THEN EmitReadable(s) ELSE s
  BY <1>1, <1>3, Zenon
<1> HIDE DEF a
<1>5. b \in StateType /\ b.buffer = a.buffer /\ b.awaitDrain = a.awaitDrain
  BY <1>2 DEF StateType
<1> HIDE DEF b
<1>6. c \in StateType /\ c.buffer = b.buffer /\ c.awaitDrain = b.awaitDrain
  BY <1>5 DEF StateType, Flags
<1> HIDE DEF c
<1>7. s \in StateType /\ s.buffer = c.buffer /\ s.awaitDrain = c.awaitDrain
  BY <1>6 DEF StateType
<1> HIDE DEF s
<1>8. state' \in StateType /\ state'.buffer = state.buffer /\ state'.awaitDrain = state.awaitDrain
  BY <1>2, <1>4, <1>5, <1>6, <1>7, EmitReadableLike DEF Like
<1>9. Wired'
  BY <1>1 DEF IInv, Typed, Wired
<1>10. state'.awaitDrain > 0 => piped' /\ needDrain'
  BY <1>1, <1>8 DEF IInv, Awaiting
<1>11. QED
  BY <1>1, <1>8, <1>9, <1>10, ProgramStep

LEMMA PipeStep == ASSUME IInv, Pipe PROVE IInv'
<1>1. /\ InProgram /\ ~piped /\ piped' = TRUE /\ listeners' = listeners \cup {"pipe"}
      /\ state' = Resumed(state) /\ meddled' = (listeners # {} \/ needDrain)
      /\ UNCHANGED needDrain /\ UNCHANGED todo /\ UNCHANGED history
  BY DEF Pipe
<1>2. state' \in StateType /\ state'.buffer = state.buffer /\ state'.awaitDrain = state.awaitDrain
  BY <1>1, ResumedTyped DEF IInv, Typed
<1>3. Wired'
  <2>1. meddled' \in BOOLEAN
    BY <1>1
  <2>2. QED
    BY <1>1, <2>1 DEF IInv, Typed, Wired
<1>4. state'.awaitDrain > 0 => piped' /\ needDrain'
  BY <1>1, <1>2 DEF IInv, Awaiting
<1>5. ~(needDrain' /\ ~meddled')
  BY <1>1
<1>6. Quiet(todo) /\ ~At("data") /\ todo \in Seq(Frame)
  BY <1>1, InTheProgram DEF IInv, Typed
<1>7. Quiet(todo') /\ todo' \in Seq(Frame)
  BY <1>1, <1>6
<1>8. QED
  BY <1>1, <1>2, <1>3, <1>4, <1>5, <1>6, <1>7, QuietStep

\* A call of a plain kind from those that are quiet.
LEMMA PlainCall ==
  ASSUME NEW r \in Seq(Frame), Quiet(r), NEW op \in Plain
  PROVE  <<Do(op)>> \o r \in Seq(Frame) /\ Quiet(<<Do(op)>> \o r)
<1>1. Do(op) \in Frame /\ Do(op).op = op
  BY FrameFacts
<1> DEFINE f == Do(op)
<1> HIDE DEF f
<1>2. f \in Frame /\ f.op \in Plain
  BY <1>1 DEF f
<1>3. <<f>> \o r \in Seq(Frame) /\ Quiet(<<f>> \o r)
  BY <1>2, Over
<1>4. QED
  BY <1>3 DEF f

LEMMA UnpipeStep == ASSUME IInv, Unpipe PROVE IInv'
<1> DEFINE s == [state EXCEPT !.flowing = "off"]
<1>1. /\ InProgram /\ piped /\ piped' = FALSE /\ listeners' = listeners \ {"pipe"}
      /\ state' = Cleanup(s, listeners') /\ meddled' = TRUE
      /\ todo' = (IF state'.flowing = "on" THEN <<Do("flow")>> \o todo ELSE todo)
      /\ UNCHANGED needDrain /\ UNCHANGED history
  BY DEF Unpipe, Call
<1>2. s \in StateType /\ s.buffer = state.buffer /\ s.awaitDrain = state.awaitDrain
  BY DEF IInv, Typed, StateType, Flags
<1> HIDE DEF s
<1>3. state' \in StateType /\ state'.buffer = state.buffer /\ state'.awaitDrain = 0
  <2>1. CASE s.awaitDrain > 0 /\ needDrain
    BY <1>1, <1>2, <2>1, DrainedTyped DEF Cleanup
  <2>2. CASE ~(s.awaitDrain > 0 /\ needDrain)
    <3>1. s.awaitDrain \in {0, 1} /\ ~(s.awaitDrain > 0)
      BY <1>2, <2>2 DEF IInv, Awaiting, StateType
    <3>2. s.awaitDrain = 0
      BY <3>1
    <3>3. QED
      BY <1>1, <1>2, <2>2, <3>2 DEF Cleanup
  <2>3. QED
    BY <2>1, <2>2
<1>4. Wired'
  BY <1>1 DEF IInv, Typed, Wired
<1>5. Quiet(todo) /\ ~At("data") /\ todo \in Seq(Frame)
  BY <1>1, InTheProgram DEF IInv, Typed
<1>6. Quiet(todo') /\ todo' \in Seq(Frame)
  BY <1>1, <1>5, PlainCall DEF Plain
<1>7. QED
  BY <1>1, <1>3, <1>4, <1>5, <1>6, QuietStep

LEMMA DrainStep == ASSUME IInv, Drain PROVE IInv'
<1>1. /\ todo = << >> /\ needDrain /\ needDrain' = FALSE
      /\ state' = (IF piped THEN OnDrain(state, listeners) ELSE state)
      /\ todo' = (IF piped /\ state'.awaitDrain = 0 /\ listeners # {} THEN <<Do("flow")>> \o todo ELSE todo)
      /\ UNCHANGED <<listeners, piped, meddled>> /\ UNCHANGED history
  BY DEF Drain, Call
<1>2. state \in StateType
  BY DEF IInv, Typed
<1>3. state' \in StateType /\ state'.buffer = state.buffer /\ state'.awaitDrain = 0
  <2>1. CASE piped
    BY <1>1, <1>2, <2>1, DrainedTyped
  <2>2. CASE ~piped
    <3>1. state.awaitDrain \in {0, 1} /\ ~(state.awaitDrain > 0)
      BY <1>2, <2>2 DEF IInv, Awaiting, StateType
    <3>2. state.awaitDrain = 0
      BY <3>1
    <3>3. QED
      BY <1>1, <1>2, <2>2, <3>2
  <2>3. QED
    BY <2>1, <2>2
<1>4. Wired'
  BY <1>1 DEF IInv, Typed, Wired
<1>5. Quiet(todo) /\ ~At("data") /\ todo \in Seq(Frame)
  <2>1. InProgram
    BY <1>1 DEF InProgram
  <2>2. QED
    BY <2>1, InTheProgram DEF IInv, Typed
<1>6. Quiet(todo') /\ todo' \in Seq(Frame)
  BY <1>1, <1>5, PlainCall DEF Plain
<1>7. QED
  BY <1>1, <1>3, <1>4, <1>5, <1>6, QuietStep

\* Two calls, one after the other.
LEMMA Pair ==
  ASSUME NEW f \in Frame, NEW g \in Frame
  PROVE  <<f>> \o <<g>> = <<f, g>>
<1>1. <<f>> \in Seq(Frame)
  OBVIOUS
<1>2. <<f, g>> = Append(<<f>>, g)
  OBVIOUS
<1>3. Append(<<f>>, g) = <<f>> \o <<g>>
  BY <1>1, AppendIsConcat
<1>4. QED
  BY <1>2, <1>3

LEMMA EmitReadableNowStep == ASSUME IInv, EmitReadableNow PROVE IInv'
<1> DEFINE g == [Do("readable") EXCEPT !.n = IF state.destroyed THEN 0 ELSE 1]
           r == Tail(todo)
<1>1. /\ todo # << >> /\ todo[1].op = "emitReadable_"
      /\ todo' = ((IF ~state.destroyed /\ state.readableListening THEN <<Do("program")>> ELSE << >>) \o <<g>>) \o r
      /\ UNCHANGED <<state, listeners, piped, needDrain, meddled>> /\ UNCHANGED history
  BY DEF EmitReadableNow, At, Then, wires
<1>2. r \in Seq(Frame) /\ Quiet(r)
  BY <1>1, Returned DEF IInv
<1>3. g \in Frame /\ g.op = "readable"
  <2>1. Do("readable") \in Frame /\ Do("readable").op = "readable"
    BY FrameFacts DEF Plain
  <2>2. QED
    BY <2>1 DEF Frame
<1> HIDE DEF g, r
<1>4. todo' \in Seq(Frame) /\ Quiet(todo')
  <2>1. CASE ~state.destroyed /\ state.readableListening
    <3> DEFINE f == Do("program")
    <3>1. f \in Frame /\ f.op = "program"
      BY FrameFacts DEF Plain
    <3>2. todo' = (<<f>> \o <<g>>) \o r
      BY <1>1, <2>1
    <3> HIDE DEF f
    <3>3. <<f>> \o <<g>> = <<f, g>>
      BY <1>3, <3>1, Pair
    <3>4. <<f, g>> \o r \in Seq(Frame) /\ Quiet(<<f, g>> \o r)
      BY <1>2, <1>3, <3>1, Over DEF Plain
    <3>5. QED
      BY <3>2, <3>3, <3>4
  <2>2. CASE ~(~state.destroyed /\ state.readableListening)
    <3>1. todo' = (<< >> \o <<g>>) \o r
      BY <1>1, <2>2
    <3>2. << >> \o <<g>> = <<g>>
      BY <1>3
    <3>3. <<g>> \o r \in Seq(Frame) /\ Quiet(<<g>> \o r)
      BY <1>2, <1>3, Over DEF Plain
    <3>4. QED
      BY <3>1, <3>2, <3>3
  <2>3. QED
    BY <2>1, <2>2
<1>5. state' \in StateType /\ state'.buffer = state.buffer /\ Wired'
  BY <1>1 DEF IInv, Typed, Wired
<1>6. state'.awaitDrain > 0 => piped' /\ needDrain'
  BY <1>1 DEF IInv, Awaiting
<1>7. (listeners = {"pipe"} /\ needDrain /\ ~meddled)' => state'.flowing = "off"
  BY <1>1 DEF IInv, Waiting
<1>8. ~At("data")
  BY <1>1 DEF At
<1>9. QED
  BY <1>1, <1>4, <1>5, <1>6, <1>7, <1>8, QuietStep

LEMMA ReadableEmittedStep == ASSUME IInv, ReadableEmitted PROVE IInv'
<1> DEFINE emitted == state.emittedReadable /\ todo[1].n = 0
           need    == state.flowing # "on" /\ ~state.ended /\ Length(state) <= state.highWaterMark
           s == [state EXCEPT !.emittedReadable = emitted]
           t == [s EXCEPT !.needReadable = need]
           r == Tail(todo)
<1>1. /\ todo # << >> /\ todo[1].op = "readable"
      /\ state' = [state EXCEPT !.emittedReadable = @ /\ todo[1].n = 0,
                     !.needReadable = state.flowing # "on" /\ ~state.ended
                                      /\ Length(state) <= state.highWaterMark]
      /\ todo' = <<Do("flow")>> \o r
      /\ UNCHANGED <<listeners, piped, needDrain, meddled>> /\ UNCHANGED history
  BY DEF ReadableEmitted, At, Then, wires
<1>2. state \in StateType /\ emitted \in BOOLEAN /\ need \in BOOLEAN
  BY DEF IInv, Typed
<1>3. state' = t
  BY <1>1, <1>2 DEF StateType
<1> HIDE DEF emitted, need
<1>4. s \in StateType /\ s.buffer = state.buffer /\ s.awaitDrain = state.awaitDrain /\ s.flowing = state.flowing
  BY <1>2 DEF StateType
<1> HIDE DEF s
<1>5. t \in StateType /\ t.buffer = s.buffer /\ t.awaitDrain = s.awaitDrain /\ t.flowing = s.flowing
  BY <1>2, <1>4 DEF StateType
<1>6. todo' \in Seq(Frame) /\ Quiet(todo')
  <2>1. r \in Seq(Frame) /\ Quiet(r)
    BY <1>1, Returned DEF IInv
  <2>2. QED
    BY <1>1, <2>1, PlainCall DEF Plain
<1>7. state' \in StateType /\ state'.buffer = state.buffer /\ Wired'
  BY <1>1, <1>3, <1>4, <1>5 DEF IInv, Typed, Wired
<1>8. state'.awaitDrain > 0 => piped' /\ needDrain'
  BY <1>1, <1>3, <1>4, <1>5 DEF IInv, Awaiting
<1>9. (listeners = {"pipe"} /\ needDrain /\ ~meddled)' => state'.flowing = "off"
  BY <1>1, <1>3, <1>4, <1>5 DEF IInv, Waiting
<1>10. ~At("data")
  BY <1>1 DEF At
<1>11. QED
  BY <1>1, <1>6, <1>7, <1>8, <1>9, <1>10, QuietStep

\* A call that reads, made where the pipe is not waiting alone.
LEMMA ReadingStep ==
  ASSUME IInv, ~At("data"), state' \in StateType, state'.buffer = state.buffer,
         UNCHANGED history, UNCHANGED <<listeners, piped, needDrain>>, meddled' \in BOOLEAN,
         state'.awaitDrain = state.awaitDrain,
         todo' \in Seq(Frame), Shape', Measured', ~At("data")',
         ~(listeners = {"pipe"} /\ needDrain /\ ~meddled)'
  PROVE  IInv'
<1>1. Wired'
  BY DEF IInv, Typed, Wired
<1>2. Waiting'
  BY DEF Waiting
<1>3. state'.awaitDrain > 0 => piped' /\ needDrain'
  BY DEF IInv, Awaiting
<1>4. QED
  BY <1>1, <1>2, <1>3, SameBytes

\* read(n) called from quiet calls.
LEMMA ReadCalled ==
  ASSUME NEW r \in Seq(Frame), Quiet(r), NEW n \in Nat, todo' = <<ReadOf(n)>> \o r
  PROVE  todo' \in Seq(Frame) /\ Shape' /\ Measured' /\ ~At("data")'
<1> DEFINE f == ReadOf(n)
<1>1. f \in Frame /\ f.op = "read"
  BY FrameFacts
<1> HIDE DEF f
<1>2. /\ todo' \in Seq(Frame) /\ todo' # << >> /\ todo'[1] = f /\ Nested(todo')
      /\ \A i \in DOMAIN todo' : i # 1 => todo'[i].op \in Plain
  BY <1>1, Over DEF f
<1>3. \A i \in DOMAIN todo' : todo'[i].op # "take"
  BY <1>1, <1>2 DEF Plain
<1>4. QED
  BY <1>1, <1>2, <1>3 DEF Shape, Measured, At

LEMMA CallReadStep == ASSUME IInv, NEW n \in Nat, CallRead(n) PROVE IInv'
<1>1. /\ InProgram /\ todo' = <<ReadOf(n)>> \o todo /\ meddled' = TRUE
      /\ UNCHANGED <<state, listeners, piped, needDrain>> /\ UNCHANGED history
  BY DEF CallRead, Call, wires
<1>2. Quiet(todo) /\ ~At("data") /\ todo \in Seq(Frame)
  BY <1>1, InTheProgram DEF IInv, Typed
<1>3. todo' \in Seq(Frame) /\ Shape' /\ Measured' /\ ~At("data")'
  BY <1>1, <1>2, ReadCalled
<1>4. state' \in StateType
  BY <1>1 DEF IInv, Typed
<1>5. QED
  BY <1>1, <1>2, <1>3, <1>4, ReadingStep

LEMMA FlowStep == ASSUME IInv, Flow PROVE IInv'
<1>1. /\ todo # << >> /\ todo[1].op = "flow"
      /\ todo' = IF state.flowing = "on" THEN <<ReadOf(All)>> \o todo ELSE << >> \o Tail(todo)
      /\ UNCHANGED <<state, listeners, piped, needDrain, meddled>> /\ UNCHANGED history
  BY DEF Flow, At, Call, Then, wires
<1>2. state' \in StateType /\ state'.buffer = state.buffer /\ Wired' /\ ~At("data")
  BY <1>1 DEF IInv, Typed, Wired, At
<1>3. CASE state.flowing = "on"
  <2>1. todo \in Seq(Frame) /\ Quiet(todo)
    BY <1>1, Top DEF IInv, Typed, Shape, Plain
  <2>2. All \in Nat
    BY ReadableAssumption DEF ReadableAssumption, All
  <2>3. todo' = <<ReadOf(All)>> \o todo
    BY <1>1, <1>3
  <2>4. todo' \in Seq(Frame) /\ Shape' /\ Measured' /\ ~At("data")'
    BY <2>1, <2>2, <2>3, ReadCalled
  <2>5. ~(listeners = {"pipe"} /\ needDrain /\ ~meddled)'
    BY <1>1, <1>3 DEF IInv, Waiting
  <2>6. QED
    BY <1>1, <1>2, <2>4, <2>5, ReadingStep DEF Wired
<1>4. CASE state.flowing # "on"
  <2>1. Tail(todo) \in Seq(Frame) /\ Quiet(Tail(todo))
    BY <1>1, Returned DEF IInv
  <2>2. todo' \in Seq(Frame) /\ Quiet(todo')
    BY <1>1, <1>4, <2>1, Over
  <2>3. state'.awaitDrain > 0 => piped' /\ needDrain'
    BY <1>1 DEF IInv, Awaiting
  <2>4. (listeners = {"pipe"} /\ needDrain /\ ~meddled)' => state'.flowing = "off"
    BY <1>1 DEF IInv, Waiting
  <2>5. QED
    BY <1>1, <1>2, <2>2, <2>3, <2>4, QuietStep
<1>5. QED
  BY <1>3, <1>4

LEMMA ReadReturnsStep == ASSUME IInv, ReadReturns PROVE IInv'
<1> DEFINE r == Tail(todo)
<1>1. /\ todo # << >> /\ todo[1].op = "_read" /\ state' = [state EXCEPT !.sync = FALSE]
      /\ todo' = << >> \o r
      /\ UNCHANGED <<listeners, piped, needDrain, meddled>> /\ UNCHANGED history
  BY DEF ReadReturns, At, Then, wires
<1>2. /\ todo \in Seq(Frame) /\ r \in Seq(Frame) /\ r # << >> /\ r[1].op = "take" /\ Quiet(Tail(r))
      /\ r[1] = todo[2] /\ 2 \in DOMAIN todo /\ Nested(r)
  BY <1>1, Top DEF IInv, Typed, Shape, Nested
<1>3. todo' = r
  BY <1>1, <1>2
<1>4. /\ state' \in StateType /\ state'.buffer = state.buffer /\ state'.awaitDrain = state.awaitDrain
      /\ state'.reading = state.reading
  BY <1>1 DEF IInv, Typed, StateType
<1>5. \A i \in DOMAIN r : i # 1 => r[i].op # "take"
  <2>1. \A i \in DOMAIN r : i # 1 => r[i].op \notin Special \/ (i = 2 /\ r[1].op = "_read")
    BY <1>2 DEF Nested
  <2>2. QED
    BY <1>2, <2>1 DEF Special
<1> HIDE DEF r
<1>6. Measured'
  <2>1. todo[2].op = "take" /\ (state.reading => todo[2].m <= Length(state))
    BY <1>2 DEF IInv, Measured
  <2>2. Length(state') = Length(state)
    BY <1>4 DEF Length
  <2>3. QED
    BY <1>2, <1>3, <1>4, <1>5, <2>1, <2>2 DEF Measured
<1>7. Shape' /\ ~At("data")'
  BY <1>2, <1>3 DEF Shape, At
<1>8. ~(listeners = {"pipe"} /\ needDrain /\ ~meddled)'
  BY <1>1 DEF IInv, Waiting, Plain
<1>9. ~At("data") /\ meddled' \in BOOLEAN
  BY <1>1 DEF At, IInv, Typed
<1>10. QED
  BY <1>1, <1>2, <1>3, <1>4, <1>6, <1>7, <1>8, <1>9, ReadingStep

-----------------------------------------------------------------------------
(* Reading.                                                                *)

\* There are no more bytes in the row, and none of its parts, than were pushed.
LEMMA RowIsShort ==
  ASSUME Typed, Lined
  PROVE  /\ Len(seen) <= MaxBytes /\ Length(state) <= MaxBytes /\ Length(state) \in Nat
         /\ Rising(seen) /\ Rising(Bytes(state.buffer)) /\ Rising(Handing)
         /\ ToSet(seen) \subseteq 1..pushed /\ ToSet(Bytes(state.buffer)) \subseteq 1..pushed
<1> DEFINE b == Bytes(state.buffer)
           sh == seen \o Handing
<1>1. b \in Chunks /\ sh \in Chunks /\ seen \in Chunks /\ Handing \in Chunks /\ Row = sh \o b
  BY RowTyped DEF Row
<1> HIDE DEF b
<1>2. Rising(Row) /\ ToSet(Row) \subseteq 1..pushed /\ pushed \in Nat /\ pushed <= MaxBytes /\ MaxBytes \in Nat
  BY ReadableAssumption DEF Lined, Typed, ReadableAssumption
<1>3. Rising(sh) /\ Rising(b) /\ ToSet(sh) \subseteq 1..pushed /\ ToSet(b) \subseteq 1..pushed
  <2> HIDE DEF sh
  <2>1. QED
    BY <1>1, <1>2, CatFacts
<1>4. Rising(seen) /\ Rising(Handing) /\ ToSet(seen) \subseteq 1..pushed
  BY <1>1, <1>3, CatFacts
<1>5. Len(seen) <= pushed /\ Len(seen) \in Nat
  BY <1>1, <1>2, <1>4, RisingIsShort, CatAlgebra
<1>6. Len(b) <= pushed /\ Len(b) \in Nat
  BY <1>1, <1>2, <1>3, RisingIsShort, CatAlgebra
<1>7. QED
  BY <1>2, <1>3, <1>4, <1>5, <1>6 DEF b, Length

LEMMA NullReturned ==
  ASSUME NEW r \in Seq(Frame), Quiet(r), ReturnNull(r)
  PROVE  todo' \in Seq(Frame) /\ Shape' /\ Measured' /\ ~At("data")'
<1>1. CASE r # << >> /\ r[1].op = "flow"
  <2>1. todo' = Tail(r) /\ todo' \in Seq(Frame)
    BY <1>1 DEF ReturnNull
  <2>2. Quiet(todo')
    <3>1. \A i \in DOMAIN Tail(r) : i + 1 \in DOMAIN r /\ Tail(r)[i] = r[i + 1]
      BY <1>1
    <3>2. QED
      BY <2>1, <3>1 DEF Quiet
  <2>3. QED
    BY <2>1, <2>2, QuietShape
<1>2. CASE ~(r # << >> /\ r[1].op = "flow")
  <2>1. todo' = r
    BY <1>2 DEF ReturnNull
  <2>2. QED
    BY <2>1, QuietShape
<1>3. QED
  BY <1>1, <1>2

\* The rest of read(), and the _read before it, from quiet calls.
LEMMA TakeCalled ==
  ASSUME NEW r \in Seq(Frame), Quiet(r), NEW n \in Nat, NEW m \in 0..MaxBytes,
         state'.buffer \in Seq(Chunks), m <= Length(state'),
         LET take == [Do("take") EXCEPT !.n = n, !.m = m]
         IN todo' = <<take>> \o r \/ (todo' = <<Do("_read"), take>> \o r /\ state'.sync)
  PROVE  todo' \in Seq(Frame) /\ Shape' /\ Measured' /\ ~At("data")'
<1> DEFINE take == [Do("take") EXCEPT !.n = n, !.m = m]
           g == Do("_read")
<1>1. take \in Frame /\ take.op = "take" /\ take.m = m
  <2> DEFINE d == Do("take")
             e == [d EXCEPT !.n = n]
  <2>1. d \in Frame /\ d.op = "take"
    BY FrameFacts DEF Special
  <2>2. take = [e EXCEPT !.m = m]
    BY <2>1 DEF Frame
  <2> HIDE DEF d
  <2>3. e \in Frame /\ e.op = "take"
    BY <2>1 DEF Frame
  <2> HIDE DEF e
  <2>4. QED
    BY <2>2, <2>3 DEF Frame
<1>2. g \in Frame /\ g.op = "_read"
  BY FrameFacts DEF Special
<1>3. todo' = <<take>> \o r \/ (todo' = <<g, take>> \o r /\ state'.sync)
  OBVIOUS
<1> HIDE DEF take, g
<1>4. CASE todo' = <<take>> \o r
  <2>1. /\ todo' \in Seq(Frame) /\ todo' # << >> /\ todo'[1] = take /\ Nested(todo')
        /\ \A i \in DOMAIN todo' : i # 1 => todo'[i].op \in Plain
    BY <1>1, <1>4, Over
  <2>2. \A i \in DOMAIN todo' : todo'[i].op = "take" => todo'[i].m = m
    BY <1>1, <2>1 DEF Plain
  <2>3. QED
    BY <1>1, <2>1, <2>2 DEF Shape, Measured, At
<1>5. CASE todo' = <<g, take>> \o r /\ state'.sync
  <2>1. /\ todo' \in Seq(Frame) /\ todo' # << >> /\ todo'[1] = g /\ todo'[2] = take /\ Nested(todo')
        /\ \A i \in DOMAIN todo' : i \notin {1, 2} => todo'[i].op \in Plain
    BY <1>1, <1>2, <1>5, Over
  <2>2. \A i \in DOMAIN todo' : todo'[i].op = "take" => todo'[i].m = m
    BY <1>1, <1>2, <2>1 DEF Plain
  <2>3. QED
    BY <1>2, <1>5, <2>1, <2>2 DEF Shape, Measured, At
<1>6. QED
  BY <1>3, <1>4, <1>5

LEMMA ReadStep == ASSUME IInv, Read PROVE IInv'
<1> DEFINE n == todo[1].n
           r == Tail(todo)
           s == [state EXCEPT !.emittedReadable = @ /\ n = 0]
           t == Raised(n, s)
           m == HowMuch(n, s)
           full == IF s.highWaterMark # 0 THEN Length(s) >= s.highWaterMark ELSE Length(s) > 0
           doRead == /\ ~t.ended /\ ~t.reading
                     /\ t.needReadable \/ Length(t) = 0 \/ Length(t) - m < t.highWaterMark
           take == [Do("take") EXCEPT !.n = n, !.m = m]
           u == [t EXCEPT !.reading = TRUE, !.sync = TRUE, !.needReadable = @ \/ Length(t) = 0]
<1>1. /\ todo # << >> /\ todo[1].op = "read"
      /\ IF n = 0 /\ s.needReadable /\ (full \/ s.ended)
         THEN state' = (IF Length(s) = 0 THEN s ELSE EmitReadable(s)) /\ ReturnNull(r)
         ELSE IF m = 0 /\ t.ended THEN state' = t /\ ReturnNull(r)
         ELSE IF doRead THEN state' = u /\ todo' = <<Do("_read"), take>> \o r
         ELSE state' = t /\ todo' = <<take>> \o r
  BY DEF Read, At, Then
<1>2. UNCHANGED <<listeners, piped, needDrain, meddled>> /\ UNCHANGED history
  BY DEF Read, wires
<1>3. r \in Seq(Frame) /\ Quiet(r) /\ n \in Nat
  BY <1>1, Returned DEF IInv
<1>4. state \in StateType /\ meddled \in BOOLEAN
  BY DEF IInv, Typed
<1>5. Like(state, s)
  BY <1>4 DEF Like, StateType
<1> HIDE DEF s
<1>6. Like(s, t)
  BY <1>3, <1>5, RaisedLike DEF Like
<1>7. m \in 0..Length(s) /\ Length(s) \in Nat
  BY <1>3, <1>5, HowMuchThere DEF Like
<1>8. Length(s) = Length(state) /\ Length(t) = Length(state) /\ Length(state) <= MaxBytes
  BY <1>5, <1>6, RowIsShort DEF Like, Length, IInv
<1>9. m \in 0..MaxBytes
  BY <1>7, <1>8, ReadableAssumption DEF ReadableAssumption
<1>10. ~(listeners = {"pipe"} /\ needDrain /\ ~meddled)' /\ ~At("data") /\ meddled' \in BOOLEAN
  BY <1>1, <1>2, <1>4 DEF IInv, Waiting, At, Plain
<1> HIDE DEF t, m, full, doRead, r, n
<1>11. CASE n = 0 /\ s.needReadable /\ (full \/ s.ended)
  <2>1. state' = (IF Length(s) = 0 THEN s ELSE EmitReadable(s)) /\ ReturnNull(r)
    BY <1>1, <1>11
  <2>2. todo' \in Seq(Frame) /\ Shape' /\ Measured' /\ ~At("data")'
    BY <1>3, <2>1, NullReturned
  <2>3. state' \in StateType /\ state'.buffer = state.buffer /\ state'.awaitDrain = state.awaitDrain
    BY <1>5, <2>1, EmitReadableLike DEF Like
  <2>4. QED
    BY <1>2, <1>10, <2>2, <2>3, ReadingStep
<1>12. CASE ~(n = 0 /\ s.needReadable /\ (full \/ s.ended))
  <2>0. /\ t \in StateType /\ t.buffer = state.buffer /\ t.awaitDrain = state.awaitDrain
    BY <1>5, <1>6 DEF Like
  <2>1. CASE m = 0 /\ t.ended
    <3>1. state' = t /\ ReturnNull(r)
      BY <1>1, <1>12, <2>1
    <3>2. todo' \in Seq(Frame) /\ Shape' /\ Measured' /\ ~At("data")'
      BY <1>3, <3>1, NullReturned
    <3>3. QED
      BY <1>2, <1>10, <2>0, <3>1, <3>2, ReadingStep
  <2>2. CASE ~(m = 0 /\ t.ended) /\ doRead
    <3> DEFINE need == t.needReadable \/ Length(t) = 0
               a == [t EXCEPT !.reading = TRUE]
               b == [a EXCEPT !.sync = TRUE]
               c == [b EXCEPT !.needReadable = need]
    <3>1. state' = u /\ todo' = <<Do("_read"), take>> \o r
      BY <1>1, <1>12, <2>2
    <3>2. u = c
      BY <2>0 DEF StateType
    <3>3. need \in BOOLEAN
      BY <2>0 DEF StateType
    <3> HIDE DEF need
    <3>4. a \in StateType /\ a.buffer = t.buffer /\ a.awaitDrain = t.awaitDrain
      BY <2>0 DEF StateType
    <3> HIDE DEF a
    <3>5. b \in StateType /\ b.buffer = a.buffer /\ b.awaitDrain = a.awaitDrain /\ b.sync
      BY <3>4 DEF StateType
    <3> HIDE DEF b
    <3>6. c \in StateType /\ c.buffer = b.buffer /\ c.awaitDrain = b.awaitDrain /\ c.sync = b.sync
      BY <3>3, <3>5 DEF StateType
    <3>7. state' \in StateType /\ state'.buffer = state.buffer /\ state'.awaitDrain = state.awaitDrain /\ state'.sync
      BY <2>0, <3>1, <3>2, <3>4, <3>5, <3>6
    <3>8. m <= Length(state') /\ state'.buffer \in Seq(Chunks)
      BY <1>7, <1>8, <3>7 DEF Length, StateType
    <3>9. todo' \in Seq(Frame) /\ Shape' /\ Measured' /\ ~At("data")'
      BY <1>3, <1>9, <3>1, <3>7, <3>8, TakeCalled
    <3>10. QED
      BY <1>2, <1>10, <3>7, <3>9, ReadingStep
  <2>3. CASE ~(m = 0 /\ t.ended) /\ ~doRead
    <3>1. state' = t /\ todo' = <<take>> \o r
      BY <1>1, <1>12, <2>3
    <3>2. m <= Length(state') /\ state'.buffer \in Seq(Chunks)
      BY <1>7, <1>8, <2>0, <3>1 DEF StateType
    <3>3. todo' \in Seq(Frame) /\ Shape' /\ Measured' /\ ~At("data")'
      BY <1>3, <1>9, <3>1, <3>2, TakeCalled
    <3>4. QED
      BY <1>2, <1>10, <2>0, <3>1, <3>3, ReadingStep
  <2>4. QED
    BY <2>1, <2>2, <2>3
<1>13. QED
  BY <1>11, <1>12

\* A chunk is handed out from quiet calls.
LEMMA DataCalled ==
  ASSUME NEW r \in Seq(Frame), Quiet(r), NEW f \in Frame, f.op = "data", todo' = <<f>> \o r
  PROVE  todo' \in Seq(Frame) /\ Shape' /\ Measured' /\ Handing' = f.chunk
<1>1. /\ todo' \in Seq(Frame) /\ todo' # << >> /\ todo'[1] = f /\ Nested(todo')
      /\ \A i \in DOMAIN todo' : i # 1 => todo'[i].op \in Plain
  BY Over
<1>2. \A i \in DOMAIN todo' : todo'[i].op # "take"
  BY <1>1 DEF Plain
<1>3. QED
  BY <1>1, <1>2 DEF Shape, Measured, At, Handing

\* The row is the same when its parts are.
LEMMA SameRow ==
  ASSUME Typed, Handing = << >>, NEW a \in Chunks, NEW b \in Chunks,
         Bytes(state.buffer) = a \o b, Handing' = a, Bytes(state'.buffer) = b, UNCHANGED seen
  PROVE  Row' = Row
<1>1. seen \in Chunks
  BY DEF Typed
<1>2. Row = seen \o (a \o b)
  BY RowTyped
<1>3. Row' = (seen \o a) \o b
  BY DEF Row
<1>4. QED
  BY <1>1, <1>2, <1>3, CatAlgebra

LEMMA TakeStep == ASSUME IInv, Take PROVE IInv'
<1> DEFINE n == todo[1].n
           r == Tail(todo)
           s == IF state.reading THEN state ELSE Raised(n, state)
           m == IF state.reading THEN todo[1].m ELSE HowMuch(n, state)
           chunk == SubSeq(Bytes(s.buffer), 1, m)
           byFlow == r # << >> /\ r[1].op = "flow"
           list == IF m >= Length(s) THEN << >> ELSE Consume(s.buffer, m)
           d == [Data(chunk) EXCEPT !.n = IF byFlow THEN 0 ELSE 1]
<1>1. /\ todo # << >> /\ todo[1].op = "take"
      /\ state' = IF m = 0
                  THEN [s EXCEPT !.needReadable = Length(s) <= s.highWaterMark \/ (Length(s) = 0 /\ ~s.ended)]
                  ELSE [s EXCEPT !.awaitDrain = 0,
                                 !.buffer = IF m >= Length(s) THEN << >> ELSE Consume(@, m),
                                 !.needReadable = @ \/ (m >= Length(s) /\ ~s.ended)]
      /\ IF m = 0 THEN ReturnNull(r) ELSE todo' = <<d>> \o r
  BY DEF Take, At
<1>2. UNCHANGED <<listeners, piped, needDrain, meddled, pushed, seen, lost, last>> /\ UNCHANGED history
  BY DEF Take, wires, history
<1>3. r \in Seq(Frame) /\ Quiet(r) /\ n \in Nat /\ todo[1].m \in Nat
  <2>1. r \in Seq(Frame) /\ Quiet(r) /\ n \in Nat /\ todo[1].m \in 0..MaxBytes
    BY <1>1, Returned DEF IInv
  <2>2. QED
    BY <2>1
<1>4. state \in StateType /\ state.buffer \in Seq(Chunks) /\ Length(state) \in Nat /\ Length(state) <= MaxBytes
  BY RowIsShort DEF IInv, Typed, StateType
<1>5. Like(state, s)
  BY <1>3, <1>4, RaisedLike DEF Like
<1>6. m \in 0..Length(state)
  <2>1. CASE state.reading
    <3>1. 1 \in DOMAIN todo
      BY <1>1 DEF IInv, Typed
    <3>2. todo[1].m <= Length(state)
      BY <1>1, <2>1, <3>1 DEF IInv, Measured
    <3>3. QED
      BY <1>3, <1>4, <2>1, <3>2
  <2>2. CASE ~state.reading
    BY <1>3, <1>4, <2>2, HowMuchThere
  <2>3. QED
    BY <2>1, <2>2
<1>7. ~(listeners = {"pipe"} /\ needDrain /\ ~meddled)' /\ ~At("data") /\ meddled' \in BOOLEAN
  BY <1>1, <1>2 DEF IInv, Typed, Waiting, At, Plain
<1> DEFINE b == Bytes(state.buffer)
<1>8. s \in StateType /\ s.buffer = state.buffer /\ s.awaitDrain = state.awaitDrain
  BY <1>5 DEF Like
<1> HIDE DEF s, m, n, r, byFlow
<1>9. Length(s) = Length(state) /\ chunk = SubSeq(b, 1, m)
  BY <1>8 DEF Length
<1>10. CASE m = 0
  <2> DEFINE need == Length(s) <= s.highWaterMark \/ (Length(s) = 0 /\ ~s.ended)
  <2>1. state' = [s EXCEPT !.needReadable = need] /\ ReturnNull(r) /\ need \in BOOLEAN
    BY <1>1, <1>10
  <2> HIDE DEF need
  <2>2. state' \in StateType /\ state'.buffer = state.buffer /\ state'.awaitDrain = state.awaitDrain
    BY <1>8, <2>1 DEF StateType
  <2>3. todo' \in Seq(Frame) /\ Shape' /\ Measured' /\ ~At("data")'
    BY <1>3, <2>1, NullReturned
  <2>4. QED
    BY <1>2, <1>7, <2>2, <2>3, ReadingStep
<1>11. CASE m # 0
  <2>1. b \in Chunks /\ Length(state) = Len(b)
    BY <1>4, BytesFew DEF Length
  <2> HIDE DEF b
  <2>2. m \in 0..Len(b) /\ m \in 1..Len(b) /\ Len(b) \in Nat
    BY <1>4, <1>6, <1>11, <2>1
  <2>3. chunk \in Chunks /\ Len(chunk) = m
    BY <1>9, <2>1, <2>2, Cut, ZenonT(60)
  <2>4. /\ list \in Seq(Chunks) /\ \A i \in DOMAIN list : list[i] # << >>
        /\ b = chunk \o Bytes(list) /\ Bytes(list) \in Chunks
    <3>1. CASE m >= Length(s)
      <4>1. m = Len(b)
        BY <1>9, <2>1, <2>2, <3>1
      <4>2. chunk = b
        <5>1. SubSeq(b, 1, Len(b)) = b
          BY <2>1, SubSeqFull DEF Chunks
        <5>2. QED
          BY <1>9, <4>1, <5>1
      <4>3. list = << >>
        BY <3>1
      <4>4. << >> \in Seq(Chunks) /\ DOMAIN << >> = {} /\ Bytes(<< >>) = << >> /\ b \o << >> = b /\ << >> \in Chunks
        BY <2>1, BytesFew, CatAlgebra
      <4>5. QED
        BY <4>2, <4>3, <4>4
    <3>2. CASE ~(m >= Length(s))
      <4>1. list = Consume(state.buffer, m)
        BY <1>8, <3>2
      <4>2. \A i \in DOMAIN state.buffer : state.buffer[i] # << >>
        BY DEF IInv, Typed
      <4>3. /\ Consume(state.buffer, m) \in Seq(Chunks)
            /\ \A i \in DOMAIN Consume(state.buffer, m) : Consume(state.buffer, m)[i] # << >>
            /\ b = SubSeq(b, 1, m) \o Bytes(Consume(state.buffer, m))
        BY <1>4, <2>2, <4>2, Consumed DEF b
      <4> HIDE DEF chunk, list
      <4>4. QED
        BY <1>9, <4>1, <4>3, BytesFew
    <3>3. QED
      BY <3>1, <3>2
  <2> DEFINE need == s.needReadable \/ (m >= Length(s) /\ ~s.ended)
             a1 == [s EXCEPT !.awaitDrain = 0]
             a2 == [a1 EXCEPT !.buffer = list]
             a3 == [a2 EXCEPT !.needReadable = need]
  <2>5. need \in BOOLEAN
    BY <1>8 DEF StateType
  <2>6. state' = [s EXCEPT !.awaitDrain = 0, !.buffer = IF m >= Length(s) THEN << >> ELSE Consume(@, m),
                           !.needReadable = @ \/ (m >= Length(s) /\ ~s.ended)]
        /\ todo' = <<d>> \o r
    BY <1>1, <1>11
  <2>7. state' = a3
    BY <1>8, <2>6 DEF StateType
  <2> HIDE DEF need, list
  <2>8. a1 \in StateType /\ a1.awaitDrain = 0
    BY <1>8 DEF StateType
  <2> HIDE DEF a1
  <2>9. a2 \in StateType /\ a2.awaitDrain = 0 /\ a2.buffer = list
    BY <2>4, <2>8 DEF StateType
  <2> HIDE DEF a2
  <2>10. a3 \in StateType /\ a3.awaitDrain = 0 /\ a3.buffer = list
    BY <2>5, <2>9 DEF StateType
  <2> HIDE DEF a3
  <2>11. d \in Frame /\ d.op = "data" /\ d.chunk = chunk
    <3> DEFINE e == Data(chunk)
    <3>1. Len(chunk) <= MaxBytes
      BY <1>4, <2>1, <2>2, <2>3, ReadableAssumption DEF ReadableAssumption
    <3> HIDE DEF chunk
    <3>2. e \in Frame /\ e.op = "data" /\ e.chunk = chunk
      BY <2>3, <3>1, FrameFacts
    <3> HIDE DEF e
    <3>3. d = [e EXCEPT !.n = IF byFlow THEN 0 ELSE 1]
      BY DEF e
    <3>4. QED
      BY <3>2, <3>3 DEF Frame
  <2> HIDE DEF d, chunk
  <2>12. todo' \in Seq(Frame) /\ Shape' /\ Measured' /\ Handing' = chunk
    BY <1>3, <2>6, <2>11, DataCalled
  <2>13. Row' = Row
    <3>1. Handing = << >>
      BY <1>7 DEF Handing
    <3>2. Bytes(state'.buffer) = Bytes(list) /\ Bytes(state.buffer) = chunk \o Bytes(list)
      BY <2>4, <2>7, <2>10 DEF b
    <3>3. QED
      BY <1>2, <2>3, <2>4, <2>12, <3>1, <3>2, SameRow DEF IInv
  <2>14. Typed'
    BY <1>2, <2>4, <2>7, <2>10, <2>12 DEF IInv, Typed
  <2>15. Lined' /\ Suffix'
    BY <1>2, <2>13 DEF IInv, Lined, Suffix
  <2>16. Awaiting' /\ Waiting'
    BY <1>7, <2>7, <2>10 DEF Awaiting, Waiting
  <2>17. QED
    BY <2>12, <2>14, <2>15, <2>16 DEF IInv
<1>12. QED
  BY <1>10, <1>11

-----------------------------------------------------------------------------
(* Pushing.                                                                *)

\* A chunk goes to the listeners, when the buffer is empty, or to an end of the buffer.
LEMMA AddedTo ==
  ASSUME Typed, Shape, Quiet(todo) \/ (At("_read") /\ state.sync),
         NEW s \in StateType, s.buffer = state.buffer, s.awaitDrain = state.awaitDrain, s.sync = state.sync,
         s.flowing = state.flowing,
         NEW c \in Chunks, c # << >>, Len(c) <= MaxBytes, NEW front \in BOOLEAN,
         AddChunk(s, c, front)
  PROVE  /\ state' \in StateType /\ todo' \in Seq(Frame) /\ Nested(todo')
         /\ \A i \in DOMAIN state'.buffer : state'.buffer[i] # << >>
         /\ state'.reading = s.reading /\ state'.sync = s.sync /\ state'.flowing = s.flowing
         /\ Handing' \in Chunks /\ Bytes(state'.buffer) \in Chunks
         /\ \/ UNCHANGED todo /\ state'.awaitDrain = state.awaitDrain
            \/ /\ state'.awaitDrain = 0 /\ state.flowing = "on" /\ Quiet(todo)
               /\ todo' # << >> /\ todo'[1].op = "data" /\ \A i \in DOMAIN todo' : todo'[i].op # "take"
         /\ Handing' \o Bytes(state'.buffer) = IF front THEN c \o Bytes(state.buffer) ELSE Bytes(state.buffer) \o c
<1> DEFINE b == Bytes(state.buffer)
           list == IF front THEN <<c>> \o s.buffer ELSE Append(s.buffer, c)
           t == [s EXCEPT !.buffer = list]
           f == Data(c)
<1>1. /\ state.buffer \in Seq(Chunks) /\ b \in Chunks /\ todo \in Seq(Frame) /\ Nested(todo)
      /\ \A i \in DOMAIN state.buffer : state.buffer[i] # << >>
  BY BytesFew DEF Typed, StateType, Shape
<1>2. f \in Frame /\ f.op = "data" /\ f.chunk = c
  BY FrameFacts
<1>3. CASE Direct(s)
  <2>1. state' = [s EXCEPT !.awaitDrain = 0] /\ todo' = <<f>> \o todo
    BY <1>3 DEF AddChunk, Call
  <2>2. s.flowing = "on" /\ Length(s) = 0 /\ ~s.sync
    BY <1>3 DEF Direct
  <2>3. Quiet(todo)
    BY <2>2
  <2>4. b = << >>
    BY <1>1, <2>2, CatAlgebra DEF Length
  <2>5. /\ state' \in StateType /\ state'.buffer = state.buffer /\ state'.awaitDrain = 0
        /\ state'.reading = s.reading /\ state'.sync = s.sync /\ state'.flowing = s.flowing
    <3> DEFINE a == [s EXCEPT !.awaitDrain = 0]
    <3>1. a \in StateType /\ a.awaitDrain = 0
      BY DEF StateType
    <3>2. a.buffer = s.buffer /\ a.reading = s.reading /\ a.sync = s.sync /\ a.flowing = s.flowing
      BY DEF StateType
    <3> HIDE DEF a
    <3>3. state' = a
      BY <2>1 DEF a
    <3>4. QED
      BY <3>1, <3>2, <3>3
  <2> HIDE DEF f
  <2>6. /\ todo' \in Seq(Frame) /\ todo' # << >> /\ todo'[1] = f /\ Nested(todo')
        /\ \A i \in DOMAIN todo' : i # 1 => todo'[i].op \in Plain
    BY <1>1, <1>2, <2>1, <2>3, Over
  <2>7. Handing' = c
    BY <1>2, <2>6 DEF Handing, At
  <2>8. Handing' \o Bytes(state'.buffer) = c /\ c \o b = c /\ b \o c = c
    BY <2>4, <2>5, <2>7, CatAlgebra
  <2>9. \A i \in DOMAIN todo' : todo'[i].op # "take"
    BY <1>2, <2>6 DEF Plain
  <2>10. QED
    BY <1>1, <1>2, <2>2, <2>3, <2>5, <2>6, <2>7, <2>8, <2>9
<1>4. CASE ~Direct(s)
  <2>1. state' = (IF t.needReadable THEN EmitReadable(t) ELSE t) /\ todo' = todo
    <3>1. [s EXCEPT !.buffer = IF front THEN <<c>> \o @ ELSE Append(@, c)] = t
      BY DEF StateType
    <3>2. LET u == [s EXCEPT !.buffer = IF front THEN <<c>> \o @ ELSE Append(@, c)]
          IN  state' = (IF u.needReadable THEN EmitReadable(u) ELSE u) /\ todo' = todo
      BY <1>4 DEF AddChunk
    <3> HIDE DEF t
    <3>3. QED
      BY <3>1, <3>2, Zenon
  <2>2. list \in Seq(Chunks) /\ \A i \in DOMAIN list : list[i] # << >>
    <3>1. CASE front
      <4>1. /\ <<c>> \o state.buffer \in Seq(Chunks)
            /\ \A i \in DOMAIN (<<c>> \o state.buffer) : (<<c>> \o state.buffer)[i] = c \/
                 (i - 1 \in DOMAIN state.buffer /\ (<<c>> \o state.buffer)[i] = state.buffer[i - 1])
        BY <1>1
      <4>2. list = <<c>> \o state.buffer
        BY <3>1
      <4>3. QED
        BY <1>1, <4>1, <4>2
    <3>2. CASE ~front
      <4>1. /\ Append(state.buffer, c) \in Seq(Chunks)
            /\ \A i \in DOMAIN Append(state.buffer, c) : Append(state.buffer, c)[i] = c \/
                 (i \in DOMAIN state.buffer /\ Append(state.buffer, c)[i] = state.buffer[i])
        BY <1>1
      <4>2. list = Append(state.buffer, c)
        BY <3>2
      <4>3. QED
        BY <1>1, <4>1, <4>2
    <3>3. QED
      BY <3>1, <3>2
  <2>3. Bytes(list) = IF front THEN c \o b ELSE b \o c
    BY <1>1, BytesFew
  <2> HIDE DEF list
  <2>4. /\ t \in StateType /\ t.buffer = list /\ t.awaitDrain = s.awaitDrain
        /\ t.reading = s.reading /\ t.sync = s.sync /\ t.flowing = s.flowing
    BY <2>2 DEF StateType
  <2> HIDE DEF t
  <2>5. /\ state' \in StateType /\ state'.buffer = list /\ state'.awaitDrain = s.awaitDrain
        /\ state'.reading = s.reading /\ state'.sync = s.sync /\ state'.flowing = s.flowing
    BY <2>1, <2>4, EmitReadableLike DEF Like
  <2>6. Handing' = << >>
    <3>1. ~At("data")
      <4>1. CASE Quiet(todo)
        <5>1. todo # << >> => 1 \in DOMAIN todo
          BY <1>1
        <5>2. QED
          BY <4>1, <5>1 DEF Quiet, At, Plain
      <4>2. CASE At("_read")
        BY <4>2 DEF At
      <4>3. QED
        BY <4>1, <4>2
    <3>2. QED
      BY <2>1, <3>1 DEF Handing, At
  <2>7. Bytes(list) \in Chunks /\ << >> \in Chunks /\ << >> \o Bytes(list) = Bytes(list)
    BY <2>2, BytesFew, CatAlgebra
  <2>8. QED
    BY <1>1, <2>1, <2>2, <2>3, <2>5, <2>6, <2>7
<1>5. QED
  BY <1>3, <1>4

\* What a chunk added leaves of the invariant.
LEMMA AddedSound ==
  ASSUME IInv, state' \in StateType, ~At("data"), Nested(todo'), todo' \in Seq(Frame),
         state'.reading => state.reading, Bytes(state'.buffer) \in Chunks, state'.sync = state.sync,
         \A i \in DOMAIN state'.buffer : state'.buffer[i] # << >>,
         Len(Bytes(state'.buffer)) >= Len(Bytes(state.buffer)) \/ ~state'.reading \/ Quiet(todo),
         state'.flowing = state.flowing,
         UNCHANGED <<listeners, piped, needDrain>>,
         meddled' \in BOOLEAN, meddled => meddled',
         \/ UNCHANGED todo /\ state'.awaitDrain = state.awaitDrain
         \/ /\ state'.awaitDrain = 0 /\ state.flowing = "on" /\ Quiet(todo)
            /\ todo' # << >> /\ todo'[1].op = "data" /\ \A i \in DOMAIN todo' : todo'[i].op # "take"
  PROVE  Shape' /\ Measured' /\ Awaiting' /\ Waiting' /\ Wired'
<1>1. Wired'
  BY DEF IInv, Typed, Wired
<1>2. Length(state') \in Nat /\ Length(state) \in Nat
  BY RowIsShort, CatAlgebra DEF IInv, Length
<1>3. CASE UNCHANGED todo /\ state'.awaitDrain = state.awaitDrain
  <2>1. Shape'
    BY <1>3 DEF IInv, Shape, At
  <2>2. Measured'
    <3> SUFFICES ASSUME NEW i \in DOMAIN todo, todo[i].op = "take", state'.reading PROVE todo[i].m <= Length(state')
      BY <1>3 DEF Measured
    <3>1. ~Quiet(todo)
      BY DEF Quiet, Plain
    <3>2. todo[i].m <= Length(state) /\ todo[i].m \in Nat
      <4>1. todo[i] \in Frame /\ todo[i].m <= Length(state)
        BY DEF IInv, Typed, Measured
      <4>2. MaxBytes \in Nat
        BY ReadableAssumption DEF ReadableAssumption
      <4>3. QED
        BY <4>1, <4>2 DEF Frame
    <3>3. Length(state') >= Length(state)
      BY <3>1 DEF Length
    <3>4. QED
      BY <1>2, <3>2, <3>3
  <2>3. Awaiting'
    BY <1>3 DEF IInv, Awaiting, At
  <2>4. Waiting'
    BY <1>3 DEF IInv, Waiting, Typed
  <2>5. QED
    BY <1>1, <2>1, <2>2, <2>3, <2>4
<1>4. CASE /\ state'.awaitDrain = 0 /\ state.flowing = "on" /\ Quiet(todo)
           /\ todo' # << >> /\ todo'[1].op = "data" /\ \A i \in DOMAIN todo' : todo'[i].op # "take"
  <2>1. Shape' /\ Measured'
    BY <1>4 DEF Shape, Measured, At
  <2>2. Awaiting'
    BY <1>4 DEF Awaiting
  <2>3. Waiting'
    BY <1>4 DEF IInv, Waiting, Typed
  <2>4. QED
    BY <1>1, <2>1, <2>2, <2>3
<1>5. QED
  BY <1>3, <1>4

\* The bytes of a push.
LEMMA PushedChunk ==
  ASSUME NEW p \in Nat, NEW k \in Nat, k # 0
  PROVE  LET c == [i \in 1..k |-> p + i]
         IN c \in Chunks /\ c # << >> /\ Len(c) = k /\ Rising(c) /\ ToSet(c) = (p + 1)..(p + k)
<1> DEFINE c == [i \in 1..k |-> p + i]
<1>1. \A i \in 1..k : p + i \in Nat
  OBVIOUS
<1>2. c \in Seq(Nat)
  BY <1>1, IsASeq
<1>3. Len(c) = k /\ DOMAIN c = 1..k /\ \A i \in 1..k : c[i] = p + i
  BY <1>2
<1> HIDE DEF c
<1>4. Rising(c)
  BY <1>3 DEF Rising
<1>5. ToSet(c) = (p + 1)..(p + k)
  <2>1. \A i \in 1..k : c[i] \in (p + 1)..(p + k)
    BY <1>3
  <2>2. \A x \in (p + 1)..(p + k) : x - p \in 1..k /\ c[x - p] = x
    BY <1>3
  <2>3. QED
    BY <1>3, <2>1, <2>2 DEF ToSet
<1>6. c # << >>
  BY <1>3
<1>7. QED
  BY <1>2, <1>3, <1>4, <1>5, <1>6 DEF c, Chunks

\* Where the source may push.
LEMMA WherePushed ==
  ASSUME IInv, InProgram \/ At("_read")
  PROVE  ~At("data") /\ Handing = << >> /\ (Quiet(todo) \/ (At("_read") /\ state.sync))
<1>1. CASE InProgram
  BY <1>1, InTheProgram DEF IInv
<1>2. CASE At("_read")
  BY <1>2 DEF At, Handing, IInv, Shape
<1>3. QED
  BY <1>1, <1>2

LEMMA PushStep == ASSUME IInv, NEW k \in 0..MaxBytes, Push(k) PROVE IInv'
<1> DEFINE s == [state EXCEPT !.reading = FALSE]
           c == [i \in 1..k |-> pushed + i]
           b == Bytes(state.buffer)
<1>1. /\ InProgram \/ At("_read")
      /\ pushed + k <= MaxBytes /\ pushed' = pushed + k
      /\ IF k = 0 THEN state' = s /\ UNCHANGED todo ELSE AddChunk(s, c, FALSE)
      /\ UNCHANGED <<listeners, piped, needDrain, seen, lost, last, meddled>>
  BY DEF Push, wires
<1>2. k \in Nat /\ pushed \in Nat /\ MaxBytes \in Nat /\ pushed + k \in 0..MaxBytes
  BY <1>1, ReadableAssumption DEF ReadableAssumption, IInv, Typed
<1>3. ~At("data") /\ Handing = << >> /\ (Quiet(todo) \/ (At("_read") /\ state.sync))
  BY <1>1, WherePushed
<1>4. state \in StateType /\ b \in Chunks /\ seen \in Chunks /\ meddled \in BOOLEAN
  BY RowTyped DEF IInv, Typed
<1>5. /\ s \in StateType /\ s.buffer = state.buffer /\ s.awaitDrain = state.awaitDrain /\ s.sync = state.sync
      /\ s.flowing = state.flowing /\ s.reading = FALSE
  BY <1>4 DEF StateType
<1> HIDE DEF s
<1>6. CASE k = 0
  <2>1. state' = s /\ UNCHANGED todo /\ UNCHANGED history
    BY <1>1, <1>2, <1>6 DEF history
  <2>2. ~At("data")' /\ Shape' /\ Measured' /\ Wired' /\ Waiting'
    BY <1>1, <1>3, <1>5, <2>1 DEF IInv, Typed, Wired, Shape, Measured, Waiting, At
  <2>3. state'.awaitDrain > 0 => piped' /\ needDrain'
    BY <1>1, <1>5, <2>1 DEF IInv, Awaiting
  <2>4. state' \in StateType /\ state'.buffer = state.buffer /\ todo' \in Seq(Frame)
    BY <1>5, <2>1 DEF IInv, Typed
  <2>5. QED
    BY <1>3, <2>1, <2>2, <2>3, <2>4, SameBytes
<1>7. CASE k # 0
  <2>1. c \in Chunks /\ c # << >> /\ Len(c) = k /\ Rising(c) /\ ToSet(c) = (pushed + 1)..(pushed + k)
    BY <1>2, <1>7, PushedChunk
  <2> HIDE DEF c
  <2>2. AddChunk(s, c, FALSE) /\ Len(c) <= MaxBytes
    <3>1. AddChunk(s, c, FALSE)
      BY <1>1, <1>7
    <3>2. k <= MaxBytes
      BY <1>2
    <3>3. Len(c) <= MaxBytes
      BY <2>1, <3>2
    <3>4. QED
      BY <3>1, <3>3
  <2>3. /\ state' \in StateType /\ todo' \in Seq(Frame) /\ Nested(todo')
        /\ \A i \in DOMAIN state'.buffer : state'.buffer[i] # << >>
        /\ state'.reading = FALSE /\ state'.sync = state.sync /\ state'.flowing = state.flowing
        /\ Handing' \in Chunks /\ Bytes(state'.buffer) \in Chunks
        /\ \/ UNCHANGED todo /\ state'.awaitDrain = state.awaitDrain
           \/ /\ state'.awaitDrain = 0 /\ state.flowing = "on" /\ Quiet(todo)
              /\ todo' # << >> /\ todo'[1].op = "data" /\ \A i \in DOMAIN todo' : todo'[i].op # "take"
        /\ Handing' \o Bytes(state'.buffer) = b \o c
    BY <1>3, <1>5, <2>1, <2>2, AddedTo DEF IInv
  <2>4. Shape' /\ Measured' /\ Awaiting' /\ Waiting' /\ Wired'
    BY <1>1, <1>3, <1>4, <2>3, AddedSound
  <2>5. Row' = Row \o c /\ Row \in Chunks
    <3> HIDE DEF b
    <3>1. Row = seen \o b /\ Row \in Chunks
      BY <1>3, RowTyped DEF IInv, b
    <3>2. Row' = (seen \o Handing') \o Bytes(state'.buffer)
      BY <1>1 DEF Row
    <3>3. Row' = seen \o (b \o c)
      <4>1. PICK h \in Chunks, q \in Chunks : h = Handing' /\ q = Bytes(state'.buffer)
        BY <2>3
      <4>2. (seen \o h) \o q = seen \o (h \o q)
        BY <1>4, CatAlgebra
      <4>3. QED
        BY <2>3, <3>2, <4>1, <4>2
    <3>4. seen \o (b \o c) = (seen \o b) \o c
      BY <1>4, <2>1, CatAlgebra
    <3>5. QED
      BY <3>1, <3>3, <3>4
  <2>6. Lined'
    <3>1. Rising(Row) /\ ToSet(Row) = (1..pushed) \ lost /\ lost \subseteq 1..pushed
      BY DEF IInv, Lined, Typed
    <3>2. Before(ToSet(Row), ToSet(c))
      BY <1>2, <2>1, <3>1 DEF Before
    <3>3. Rising(Row \o c) /\ ToSet(Row \o c) = ToSet(Row) \cup ToSet(c)
      BY <2>1, <2>5, <3>1, <3>2, CatFacts
    <3>4. ((1..pushed) \ lost) \cup ((pushed + 1)..(pushed + k)) = (1..(pushed + k)) \ lost
      BY <1>2, <3>1
    <3>5. QED
      BY <1>1, <2>1, <2>5, <3>1, <3>3, <3>4 DEF Lined
  <2>7. Typed'
    <3>1. lost \subseteq 1..(pushed + k)
      BY <1>2 DEF IInv, Typed
    <3>2. QED
      BY <1>1, <1>2, <2>3, <2>4, <3>1 DEF IInv, Typed, Wired
  <2>8. Suffix'
    BY <1>1 DEF IInv, Suffix
  <2>9. QED
    BY <2>4, <2>6, <2>7, <2>8 DEF IInv
<1>8. QED
  BY <1>6, <1>7

LEMMA PushEofStep == ASSUME IInv, PushEof PROVE IInv'
<1> DEFINE e == EmitReadable(state)
           a == [e EXCEPT !.reading = FALSE]
           s == [a EXCEPT !.ended = TRUE]
<1>1. /\ InProgram \/ At("_read")
      /\ state' = [e EXCEPT !.reading = FALSE, !.ended = TRUE]
      /\ todo' = IF state.sync \/ state.emittedReadable THEN todo ELSE <<Do("emitReadable_")>> \o todo
      /\ UNCHANGED <<listeners, piped, needDrain, meddled>> /\ UNCHANGED history
  BY DEF PushEof, Call, wires
<1>2. ~At("data") /\ Handing = << >> /\ (Quiet(todo) \/ (At("_read") /\ state.sync))
  BY <1>1, WherePushed
<1>3. state \in StateType /\ todo \in Seq(Frame)
  BY DEF IInv, Typed
<1>4. /\ e \in StateType /\ e.buffer = state.buffer /\ e.awaitDrain = state.awaitDrain
      /\ e.flowing = state.flowing /\ e.sync = state.sync
  BY <1>3, EmitReadableLike DEF Like
<1> HIDE DEF e
<1>5. state' = s
  BY <1>1, <1>4 DEF StateType
<1>6. /\ a \in StateType /\ a.buffer = e.buffer /\ a.awaitDrain = e.awaitDrain
      /\ a.flowing = e.flowing /\ a.sync = e.sync /\ a.reading = FALSE
  BY <1>4 DEF StateType
<1> HIDE DEF a
<1>7. /\ s \in StateType /\ s.buffer = a.buffer /\ s.awaitDrain = a.awaitDrain
      /\ s.flowing = a.flowing /\ s.sync = a.sync /\ s.reading = FALSE
  BY <1>6 DEF StateType
<1> HIDE DEF s
<1>8. /\ state' \in StateType /\ state'.buffer = state.buffer /\ state'.awaitDrain = state.awaitDrain
      /\ state'.flowing = state.flowing /\ state'.sync = state.sync /\ state'.reading = FALSE
  BY <1>4, <1>5, <1>6, <1>7
<1>9. Wired' /\ (state'.awaitDrain > 0 => piped' /\ needDrain')
  BY <1>1, <1>8 DEF IInv, Typed, Wired, Awaiting
<1>10. CASE Quiet(todo)
  <2>1. todo' \in Seq(Frame) /\ Quiet(todo')
    BY <1>1, <1>3, <1>10, PlainCall DEF Plain
  <2>2. (listeners = {"pipe"} /\ needDrain /\ ~meddled)' => state'.flowing = "off"
    BY <1>1, <1>8 DEF IInv, Waiting
  <2>3. QED
    BY <1>1, <1>2, <1>8, <1>9, <2>1, <2>2, QuietStep
<1>11. CASE ~Quiet(todo)
  <2>1. todo' = todo /\ todo' \in Seq(Frame)
    BY <1>1, <1>2, <1>3, <1>11
  <2>2. ~At("data")' /\ Shape' /\ Measured' /\ Waiting'
    BY <1>1, <1>2, <1>8, <2>1 DEF IInv, Shape, Measured, Waiting, At
  <2>3. QED
    BY <1>1, <1>2, <1>8, <1>9, <2>1, <2>2, SameBytes
<1>12. QED
  BY <1>10, <1>11

LEMMA UnshiftStep == ASSUME IInv, Unshift PROVE IInv'
<1> DEFINE b == Bytes(state.buffer)
           n == Len(seen) - Len(last)
           first == SubSeq(seen, 1, n)
<1>1. /\ todo = << >> /\ last # << >> /\ AddChunk(state, last, TRUE)
      /\ seen' = first /\ last' = << >> /\ meddled' = TRUE
      /\ UNCHANGED <<listeners, piped, needDrain, pushed, lost>>
  BY DEF Unshift, wires
<1>2. state \in StateType /\ b \in Chunks /\ seen \in Chunks /\ last \in Chunks
  BY RowTyped DEF IInv, Typed
<1>3. Quiet(todo) /\ ~At("data") /\ Handing = << >>
  <2>1. InProgram
    BY <1>1 DEF InProgram
  <2>2. QED
    BY <2>1, InTheProgram DEF IInv
<1>4. n \in 0..Len(seen) /\ Len(last) <= MaxBytes
  <2>1. Len(seen) \in Nat /\ Len(last) \in Nat /\ Len(last) <= Len(seen)
    BY <1>2, CatAlgebra DEF IInv, Suffix
  <2>2. Len(seen) <= MaxBytes /\ MaxBytes \in Nat
    BY RowIsShort, ReadableAssumption DEF IInv, ReadableAssumption
  <2>3. QED
    BY <2>1, <2>2
<1>5. first \in Chunks /\ seen = first \o last
  <2>1. last = SubSeq(seen, n + 1, Len(seen))
    BY DEF IInv, Suffix
  <2>2. QED
    BY <1>2, <1>4, <2>1, Cut, ZenonT(60)
<1> HIDE DEF first, n
<1>6. /\ state' \in StateType /\ todo' \in Seq(Frame) /\ Nested(todo')
      /\ \A i \in DOMAIN state'.buffer : state'.buffer[i] # << >>
      /\ state'.reading = state.reading /\ state'.sync = state.sync /\ state'.flowing = state.flowing
      /\ Handing' \in Chunks /\ Bytes(state'.buffer) \in Chunks
      /\ \/ UNCHANGED todo /\ state'.awaitDrain = state.awaitDrain
         \/ /\ state'.awaitDrain = 0 /\ state.flowing = "on" /\ Quiet(todo)
            /\ todo' # << >> /\ todo'[1].op = "data" /\ \A i \in DOMAIN todo' : todo'[i].op # "take"
      /\ Handing' \o Bytes(state'.buffer) = last \o b
  BY <1>1, <1>2, <1>3, <1>4, AddedTo DEF IInv
<1>7. Shape' /\ Measured' /\ Awaiting' /\ Waiting' /\ Wired'
  BY <1>1, <1>3, <1>6, AddedSound
<1>8. Row' = Row
  <2> HIDE DEF b
  <2>1. Row = seen \o b
    BY <1>3, RowTyped DEF IInv, b
  <2>2. Row' = (first \o Handing') \o Bytes(state'.buffer)
    BY <1>1 DEF Row
  <2>3. Row' = first \o (last \o b)
    <3>1. PICK h \in Chunks, q \in Chunks : h = Handing' /\ q = Bytes(state'.buffer)
      BY <1>6
    <3>2. (first \o h) \o q = first \o (h \o q)
      BY <1>5, CatAlgebra
    <3>3. QED
      BY <1>6, <2>2, <3>1, <3>2
  <2>4. first \o (last \o b) = (first \o last) \o b
    BY <1>2, <1>5, CatAlgebra, SMTT(60)
  <2>5. QED
    BY <1>5, <2>1, <2>3, <2>4
<1>9. Lined'
  BY <1>1, <1>8 DEF IInv, Lined
<1>10. Suffix'
  <2>1. Len(<< >>) = 0 /\ Len(first) \in Nat
    BY <1>5, CatAlgebra
  <2>2. SubSeq(first, Len(first) - 0 + 1, Len(first)) = << >>
    <3>1. Len(first) - 0 + 1 \in Int /\ Len(first) \in Int /\ Len(first) < Len(first) - 0 + 1
      BY <2>1
    <3>2. QED
      BY <3>1, SubSeqEmpty
  <2>3. QED
    BY <1>1, <2>1, <2>2 DEF Suffix
<1>11. Typed'
  BY <1>1, <1>5, <1>6, <1>7, CatAlgebra DEF IInv, Typed, Wired
<1>12. QED
  BY <1>7, <1>9, <1>10, <1>11 DEF IInv

-----------------------------------------------------------------------------
(* Handing out.                                                            *)

\* A row from which a part is taken.
LEMMA WithoutMiddle ==
  ASSUME NEW s \in Chunks, NEW c \in Chunks, NEW b \in Chunks, Rising((s \o c) \o b)
  PROVE  /\ Rising(s \o b)
         /\ ToSet(s \o b) = ToSet((s \o c) \o b) \ ToSet(c)
         /\ ToSet(c) \subseteq ToSet((s \o c) \o b)
<1> DEFINE sc == s \o c
<1>1. sc \in Chunks
  BY CatFacts
<1>2. ToSet(sc) = ToSet(s) \cup ToSet(c) /\ (Rising(sc) <=> Rising(s) /\ Rising(c) /\ Before(ToSet(s), ToSet(c)))
  BY CatFacts
<1>3. Rising(sc \o b)
  OBVIOUS
<1> HIDE DEF sc
<1>4. ToSet(sc \o b) = ToSet(sc) \cup ToSet(b) /\ Rising(sc) /\ Rising(b) /\ Before(ToSet(sc), ToSet(b))
  BY <1>1, <1>3, CatFacts
<1>5. ToSet(s) \subseteq Nat /\ ToSet(c) \subseteq Nat /\ ToSet(b) \subseteq Nat
  BY CatAlgebra
<1>6. Before(ToSet(s), ToSet(b)) /\ ToSet(s) \cap ToSet(c) = {} /\ ToSet(c) \cap ToSet(b) = {}
  BY <1>2, <1>4, <1>5 DEF Before
<1>7. Rising(s \o b) /\ ToSet(s \o b) = ToSet(s) \cup ToSet(b)
  BY <1>2, <1>4, <1>6, CatFacts
<1>8. ToSet(s \o b) = ToSet(sc \o b) \ ToSet(c) /\ ToSet(c) \subseteq ToSet(sc \o b)
  BY <1>2, <1>4, <1>6, <1>7
<1>9. QED
  BY <1>7, <1>8 DEF sc

LEMMA EmitDataStep == ASSUME IInv, EmitData PROVE IInv'
<1> DEFINE c == todo[1].chunk
           r == Tail(todo)
           b == Bytes(state.buffer)
           handed == Cardinality(listeners) = 1 \/ todo[1].n = 1
<1>1. /\ todo # << >> /\ todo[1].op = "data"
      /\ seen' = IF handed THEN seen \o c ELSE seen
      /\ lost' = IF handed THEN lost ELSE lost \cup ToSet(c)
      /\ last' = IF handed /\ (listeners = {"program"} \/ todo[1].n = 1) THEN c ELSE << >>
      /\ todo' = (IF listeners = {"program"} THEN <<Do("program")>> ELSE << >>) \o r
      /\ \/ listeners = {"pipe"} /\ needDrain' = TRUE /\ state' = Pauses(state)
         \/ UNCHANGED <<needDrain, state>>
      /\ UNCHANGED <<listeners, piped, pushed, meddled>>
  BY DEF EmitData, At, Then
<1>2. At("data") /\ Handing = c
  BY <1>1 DEF At, Handing
<1>3. state \in StateType /\ b \in Chunks /\ seen \in Chunks /\ c \in Chunks /\ seen \o c \in Chunks /\ Row = (seen \o c) \o b
  BY <1>2, RowTyped DEF IInv, Typed, Row
<1>4. r \in Seq(Frame) /\ Quiet(r)
  BY <1>1, Returned DEF IInv
<1>5. todo' \in Seq(Frame) /\ Quiet(todo')
  <2>1. CASE listeners = {"program"}
    BY <1>1, <1>4, <2>1, PlainCall DEF Plain
  <2>2. CASE listeners # {"program"}
    BY <1>1, <1>4, <2>2, Over
  <2>3. QED
    BY <2>1, <2>2
<1>6. Shape' /\ Measured' /\ ~At("data")' /\ (todo' # << >> => todo'[1].op \in Plain)
  BY <1>5, QuietShape
<1> HIDE DEF handed, r
<1>7. state.awaitDrain = 0
  <2>1. state.awaitDrain \in {0, 1} /\ ~(state.awaitDrain > 0)
    BY <1>2, <1>3 DEF IInv, Awaiting, StateType
  <2>2. QED
    BY <2>1
<1>8. /\ state' \in StateType /\ state'.buffer = state.buffer
      /\ \/ listeners = {"pipe"} /\ needDrain' = TRUE /\ state'.flowing = "off"
         \/ UNCHANGED <<needDrain, state>>
  <2>1. CASE listeners = {"pipe"} /\ needDrain' = TRUE /\ state' = Pauses(state)
    <3> DEFINE s == [state EXCEPT !.awaitDrain = 1]
               t == [s EXCEPT !.flowing = "off"]
    <3>1. state' = t
      BY <1>3, <1>7, <2>1 DEF Pauses, StateType
    <3>2. s \in StateType /\ s.buffer = state.buffer
      BY <1>3 DEF StateType
    <3> HIDE DEF s
    <3>3. t \in StateType /\ t.buffer = s.buffer /\ t.flowing = "off"
      BY <3>2 DEF StateType, Flags
    <3>4. QED
      BY <2>1, <3>1, <3>2, <3>3
  <2>2. CASE UNCHANGED <<needDrain, state>>
    BY <1>3, <2>2
  <2>3. QED
    BY <1>1, <2>1, <2>2
<1>9. Awaiting' /\ Wired'
  <2>1. piped' = piped /\ listeners' = listeners /\ meddled' = meddled
    BY <1>1
  <2>2. CASE listeners = {"pipe"} /\ needDrain' = TRUE
    <3>1. piped
      BY <2>2 DEF IInv, Typed
    <3>2. QED
      BY <1>6, <2>1, <2>2, <3>1 DEF IInv, Typed, Awaiting, Wired
  <2>3. CASE UNCHANGED <<needDrain, state>>
    <3>1. ~(state'.awaitDrain > 0)
      BY <1>7, <2>3
    <3>2. QED
      BY <2>1, <2>3, <3>1 DEF IInv, Typed, Awaiting, Wired
  <2>4. QED
    BY <1>8, <2>2, <2>3
<1>10. Waiting'
  BY <1>1, <1>6, <1>8 DEF IInv, Waiting, Plain
<1>11. Handing' = << >> /\ Bytes(state'.buffer) = b
  BY <1>6, <1>8 DEF Handing
<1>12. /\ Rising(Row) /\ ToSet(Row) = (1..pushed) \ lost /\ lost \subseteq 1..pushed
  BY DEF IInv, Typed, Lined
<1> HIDE DEF c, b
<1>13. CASE handed
  <2>1. seen' = seen \o c /\ lost' = lost /\ (last' = c \/ last' = << >>)
    BY <1>1, <1>13
  <2>2. Row' = Row
    <3>1. Row' = ((seen \o c) \o Handing') \o Bytes(state'.buffer)
      BY <2>1 DEF Row
    <3>2. (seen \o c) \o << >> = seen \o c
      BY <1>3, CatAlgebra
    <3>3. QED
      BY <1>3, <1>11, <3>1, <3>2
  <2>3. Lined'
    BY <1>1, <1>12, <2>1, <2>2 DEF Lined
  <2>4. Suffix'
    <3> DEFINE u == seen \o c
    <3>1. /\ u \in Chunks /\ Len(u) = Len(seen) + Len(c) /\ Len(u) \in Nat /\ Len(seen) \in Nat /\ Len(c) \in Nat
          /\ SubSeq(u, 1, Len(seen)) = seen
      BY <1>3, CatFacts, CatAlgebra, Cut
    <3>2. u = SubSeq(u, 1, Len(seen)) \o SubSeq(u, Len(seen) + 1, Len(u)) /\ SubSeq(u, Len(seen) + 1, Len(u)) \in Chunks
      <4> HIDE DEF u
      <4>1. Len(seen) \in 0..Len(u)
        BY <3>1
      <4>2. QED
        BY <3>1, <4>1, Cut
    <3>3. seen \o c = seen \o SubSeq(u, Len(seen) + 1, Len(u))
      BY <3>1, <3>2
    <3> HIDE DEF u
    <3>4. c = SubSeq(u, Len(seen) + 1, Len(u))
      <4> DEFINE v == SubSeq(u, Len(seen) + 1, Len(u))
      <4> HIDE DEF v
      <4>1. seen \in Seq(Nat) /\ c \in Seq(Nat) /\ v \in Seq(Nat) /\ seen \o c = seen \o v
        BY <1>3, <3>2, <3>3 DEF v, Chunks
      <4>2. \A k \in 1..Len(c) : c[k] = (seen \o c)[Len(seen) + k]
        BY <4>1
      <4>3. \A k \in 1..Len(v) : v[k] = (seen \o v)[Len(seen) + k]
        BY <4>1
      <4>4. Len(c) = Len(v)
        <5>1. Len(seen \o c) = Len(seen) + Len(c) /\ Len(seen \o v) = Len(seen) + Len(v)
          BY <4>1
        <5>2. Len(c) \in Nat /\ Len(v) \in Nat /\ Len(seen) \in Nat
          BY <4>1
        <5>3. QED
          BY <4>1, <5>1, <5>2
      <4>5. c = v
        BY <4>1, <4>2, <4>3, <4>4, SeqEqual
      <4>6. QED
        BY <4>5 DEF v
    <3>5. Len(u) - Len(c) + 1 = Len(seen) + 1 /\ Len(c) <= Len(u)
      BY <3>1
    <3>6. Len(<< >>) = 0 /\ SubSeq(u, Len(u) - 0 + 1, Len(u)) = << >> /\ 0 <= Len(u)
      <4>1. Len(u) - 0 + 1 \in Int /\ Len(u) \in Int /\ Len(u) < Len(u) - 0 + 1
        BY <3>1
      <4>2. QED
        BY <3>1, <4>1, SubSeqEmpty
    <3>7. seen' = u
      BY <2>1 DEF u
    <3>8. CASE last' = c
      BY <3>4, <3>5, <3>7, <3>8 DEF Suffix
    <3>9. CASE last' = << >>
      BY <3>6, <3>7, <3>9 DEF Suffix
    <3>10. QED
      BY <2>1, <3>8, <3>9
  <2>5. Typed'
    <3>1. last' \in Chunks
      BY <1>3, <2>1, CatAlgebra
    <3>2. QED
      BY <1>1, <1>3, <1>5, <1>8, <1>9, <2>1, <3>1 DEF IInv, Typed, Wired
  <2>6. QED
    BY <1>6, <1>9, <1>10, <2>3, <2>4, <2>5 DEF IInv
<1>14. CASE ~handed
  <2>1. seen' = seen /\ lost' = lost \cup ToSet(c) /\ last' = << >>
    BY <1>1, <1>14 DEF c
  <2>2. Row' = seen \o b
    <3>1. Row' = (seen \o << >>) \o b
      BY <1>11, <2>1 DEF Row
    <3>2. seen \o << >> = seen
      BY <1>3, CatAlgebra
    <3>3. QED
      BY <3>1, <3>2
  <2>3. Rising(seen \o b) /\ ToSet(seen \o b) = ToSet(Row) \ ToSet(c) /\ ToSet(c) \subseteq ToSet(Row)
    BY <1>3, <1>12, WithoutMiddle
  <2>4. Lined'
    BY <1>1, <1>12, <2>1, <2>2, <2>3 DEF Lined
  <2>5. Suffix'
    <3>1. Len(<< >>) = 0 /\ Len(seen) \in Nat
      BY <1>3, CatAlgebra
    <3>2. SubSeq(seen, Len(seen) - 0 + 1, Len(seen)) = << >>
      <4>1. Len(seen) - 0 + 1 \in Int /\ Len(seen) \in Int /\ Len(seen) < Len(seen) - 0 + 1
        BY <3>1
      <4>2. QED
        BY <4>1, SubSeqEmpty
    <3>3. QED
      BY <2>1, <3>1, <3>2 DEF Suffix
  <2>6. Typed'
    <3>1. last' \in Chunks /\ lost' \subseteq 1..pushed
      BY <1>12, <2>1, <2>3, CatAlgebra
    <3>2. QED
      BY <1>1, <1>3, <1>5, <1>8, <1>9, <2>1, <3>1 DEF IInv, Typed, Wired
  <2>7. QED
    BY <1>6, <1>9, <1>10, <2>4, <2>5, <2>6 DEF IInv
<1>15. QED
  BY <1>13, <1>14

-----------------------------------------------------------------------------
(* The invariant holds.                                                    *)

LEMMA InitHolds == ASSUME Init PROVE IInv
<1>1. PICK hwm \in HighWaterMarks :
        state = [highWaterMark |-> hwm, buffer |-> << >>, flowing |-> "unset",
                 reading |-> FALSE, sync |-> TRUE, ended |-> FALSE, destroyed |-> FALSE,
                 needReadable |-> FALSE, emittedReadable |-> FALSE,
                 readableListening |-> FALSE, awaitDrain |-> 0]
  BY DEF Init
<1>2. /\ listeners = {} /\ piped = FALSE /\ needDrain = FALSE /\ todo = << >>
      /\ pushed = 0 /\ seen = << >> /\ lost = {} /\ last = << >> /\ meddled = FALSE
  BY DEF Init
<1>3. MaxBytes \in Nat /\ hwm \in Marks
  BY ReadableAssumption DEF ReadableAssumption, Marks
<1>4. state \in StateType /\ state.buffer = << >> /\ state.awaitDrain = 0
  BY <1>1, <1>3 DEF StateType, Flags
<1>5. Typed
  <2>1. DOMAIN state.buffer = {} /\ todo \in Seq(Frame) /\ pushed \in 0..MaxBytes
    BY <1>2, <1>3, <1>4
  <2>2. seen \in Chunks /\ last \in Chunks
    BY <1>2, CatAlgebra
  <2>3. QED
    BY <1>2, <1>4, <2>1, <2>2 DEF Typed
<1>6. Shape /\ Measured /\ Handing = << >>
  BY <1>2 DEF Shape, Nested, Measured, Handing, At
<1>7. Row = << >>
  BY <1>2, <1>4, <1>6, BytesFew, CatAlgebra DEF Row
<1>8. Lined
  <2>1. 1..0 = {}
    OBVIOUS
  <2>2. QED
    BY <1>2, <1>7, <2>1, CatAlgebra DEF Lined
<1>9. Suffix
  <2>1. Len(<< >>) = 0 /\ SubSeq(<< >>, 0 - 0 + 1, 0) = << >>
    BY SubSeqEmpty
  <2>2. QED
    BY <1>2, <2>1 DEF Suffix
<1>10. Awaiting /\ Waiting
  BY <1>2, <1>4 DEF Awaiting, Waiting
<1>11. QED
  BY <1>5, <1>6, <1>8, <1>9, <1>10 DEF IInv

LEMMA NextHolds == ASSUME IInv, [Next]_vars PROVE IInv'
<1>1. CASE UNCHANGED vars
  BY <1>1 DEF vars, IInv, Typed, Shape, Nested, Measured, Length, Lined, Row, Handing, Suffix, Awaiting, Waiting, At
<1>2. ASSUME NEW k \in 0..MaxBytes, Push(k) PROVE IInv'
  BY <1>2, PushStep
<1>3. ASSUME NEW n \in Sizes \cup {All}, CallRead(n) PROVE IInv'
  <2>1. n \in Nat
    BY ReadableAssumption DEF ReadableAssumption, All
  <2>2. QED
    BY <1>3, <2>1, CallReadStep
<1>4. CASE PushEof \/ ReadReturns
  BY <1>4, PushEofStep, ReadReturnsStep
<1>5. CASE Pause \/ Resume \/ Destroy \/ Unshift \/ OnData \/ OffData \/ OnReadable \/ Pipe \/ Unpipe
  BY <1>5, PauseStep, ResumeStep, DestroyStep, UnshiftStep, OnDataStep, OffDataStep, OnReadableStep, PipeStep, UnpipeStep
<1>6. CASE Library
  BY <1>6, EmitReadableNowStep, ReadableEmittedStep, ReadStep, TakeStep, FlowStep, EmitDataStep DEF Library
<1>7. CASE Return \/ Drain
  BY <1>7, ReturnStep, DrainStep
<1>8. QED
  BY <1>1, <1>2, <1>3, <1>4, <1>5, <1>6, <1>7 DEF Next, Source, Program

\* The invariant from which the properties follow.
THEOREM Inductive == Spec => []IInv
<1>1. Init => IInv
  BY InitHolds
<1>2. IInv /\ [Next]_vars => IInv'
  BY NextHolds
<1>3. QED
  BY <1>1, <1>2, PTL DEF Spec

\* A chunk in the buffer consists of bytes of the buffer.
LEMMA ChunkOfBytes ==
  ASSUME NEW list \in Seq(Chunks), NEW i \in DOMAIN list
  PROVE  list[i] \in Chunks /\ ToSet(list[i]) \subseteq ToSet(Bytes(list))
<1> DEFINE a == SubSeq(list, 1, i - 1)
           b == SubSeq(list, i + 1, Len(list))
           ac == SubSeq(list, 1, i)
           c == list[i]
<1>1. /\ a \in Seq(Chunks) /\ b \in Seq(Chunks) /\ ac \in Seq(Chunks) /\ c \in Chunks
      /\ list = ac \o b /\ ac = a \o <<c>>
  <2>1. c \in Chunks
    OBVIOUS
  <2>2. QED
    BY <2>1, ListCut, Zenon
<1> HIDE DEF a, b, ac, c
<1>2. Append(a, c) = a \o <<c>>
  BY <1>1
<1>3. Bytes(ac) = Bytes(a) \o c /\ Bytes(a) \in Chunks
  BY <1>1, <1>2, BytesFew, ZenonT(60)
<1>4. Bytes(list) = Bytes(ac) \o Bytes(b) /\ Bytes(ac) \in Chunks /\ Bytes(b) \in Chunks
  BY <1>1, BytesCat
<1>5. ToSet(c) \subseteq ToSet(Bytes(ac)) /\ ToSet(Bytes(ac)) \subseteq ToSet(Bytes(list))
  <2>1. ToSet(Bytes(ac)) = ToSet(Bytes(a)) \cup ToSet(c)
    BY <1>1, <1>3, CatFacts
  <2>2. ToSet(Bytes(list)) = ToSet(Bytes(ac)) \cup ToSet(Bytes(b))
    BY <1>4, CatFacts
  <2>3. QED
    BY <2>1, <2>2
<1>6. QED
  BY <1>1, <1>5 DEF c

\* The state keeps its type, the chunks of the buffer are of bytes that were pushed, and one
\* Writable is awaited once at most (_stream_readable.js:88-151).
THEOREM TypesHold == Spec => []TypeOK
<1>1. IInv => TypeOK
  <2> SUFFICES ASSUME IInv PROVE TypeOK
    OBVIOUS
  <2>1. state.flowing \in {"unset", "on", "off"} /\ state.awaitDrain \in 0..1
    BY DEF IInv, Typed, StateType, Flags
  <2>2. ASSUME NEW i \in DOMAIN state.buffer PROVE state.buffer[i] \in Seq(1..pushed) \ {<< >>}
    <3>1. state.buffer \in Seq(Chunks) /\ state.buffer[i] # << >>
      BY DEF IInv, Typed, StateType
    <3>2. state.buffer[i] \in Chunks /\ ToSet(state.buffer[i]) \subseteq 1..pushed
      <4>1. ToSet(Bytes(state.buffer)) \subseteq 1..pushed
        BY RowIsShort DEF IInv
      <4>2. QED
        BY <3>1, <4>1, ChunkOfBytes
    <3>3. state.buffer[i] \in Seq(1..pushed)
      <4> DEFINE c == state.buffer[i]
      <4> HIDE DEF c
      <4>1. c \in Seq(Nat) /\ \A k \in DOMAIN c : c[k] \in 1..pushed
        BY <3>2 DEF c, Chunks, ToSet
      <4>2. c \in Seq(1..pushed)
        <5>1. Len(c) \in Nat /\ DOMAIN c = 1..Len(c) /\ c = [k \in 1..Len(c) |-> c[k]]
          BY <4>1
        <5>2. [k \in 1..Len(c) |-> c[k]] \in Seq(1..pushed)
          BY <4>1, <5>1, IsASeq
        <5>3. QED
          BY <5>1, <5>2
      <4>3. QED
        BY <4>2 DEF c
    <3>4. QED
      BY <3>1, <3>3
  <2>3. \A i \in DOMAIN todo : todo[i].m \in 0..MaxBytes /\ Len(todo[i].chunk) <= MaxBytes
    <3>1. \A i \in DOMAIN todo : todo[i] \in Frame
      BY DEF IInv, Typed
    <3>2. QED
      BY <3>1 DEF Frame
  <2>4. listeners \subseteq {"program", "pipe"} /\ ("pipe" \in listeners <=> piped)
    BY DEF IInv, Typed
  <2>5. QED
    BY <2>1, <2>2, <2>3, <2>4 DEF TypeOK
<1>2. QED
  BY <1>1, Inductive, PTL

\* Every byte is handed out exactly once and in order, or still in the buffer behind those,
\* whatever read(), "data", unshift() and the pipe do with it (_stream_readable.js:228-282,
\* 392-525, buffer_list.js).
THEOREM BytesInOrder == Spec => []InOrderOnce
<1>1. IInv => InOrderOnce
  <2> SUFFICES ASSUME IInv, ~At("data") PROVE Rising(seen \o Bytes(state.buffer)) /\ ToSet(seen \o Bytes(state.buffer)) = (1..pushed) \ lost
    BY DEF InOrderOnce
  <2>1. Handing = << >>
    BY DEF Handing
  <2>2. Row = seen \o Bytes(state.buffer)
    BY <2>1, RowTyped DEF IInv
  <2>3. QED
    BY <2>2 DEF IInv, Lined
<1>2. QED
  BY <1>1, Inductive, PTL

\* The stream never waits for a "drain" that no Writable owes it (_stream_readable.js:571-640).
THEOREM DrainIsOwed == Spec => []AwaitsADrain
<1>1. IInv => AwaitsADrain
  BY DEF IInv, Awaiting, AwaitsADrain
<1>2. QED
  BY <1>1, Inductive, PTL

\* The pipe writes nothing to a full Writable unless the program meddles
\* (_stream_readable.js:587-614).
THEOREM FullIsLeftAlone == Spec => StopsWhenFull
<1>1. IInv /\ [Next]_vars => [At("data") /\ listeners = {"pipe"} /\ needDrain => meddled]_vars
  <2> SUFFICES ASSUME IInv, At("data"), listeners = {"pipe"}, needDrain PROVE meddled
    OBVIOUS
  <2>1. todo # << >> /\ todo[1].op \notin Plain
    BY DEF At, Plain
  <2>2. QED
    BY <2>1 DEF IInv, Waiting, Typed
<1>2. QED
  BY <1>1, Inductive, PTL DEF Spec, StopsWhenFull
=============================================================================
