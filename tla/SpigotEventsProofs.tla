------------------------- MODULE SpigotEventsProofs -------------------------
(***************************************************************************)
(* Who is called for a server event, and that what was cancelled is gone:  *)
(* for any events, functions and generations, and any number of            *)
(* registrations and calls in progress.                                    *)
(***************************************************************************)
EXTENDS SpigotEvents, FiniteSetTheorems, SequenceTheorems, WellFoundedInduction, TLAPS

Listener == [fn : Fns, once : BOOLEAN, id : TokenIds]
Arrays   == [Generations -> [Events -> Seq(Listener)]]
EachFrames == [k : {"each"}, g : Generations, ev : Events, i : Nat, n : Nat,
               start : SUBSET TokenIds, seen : SUBSET TokenIds, cut : Nat]

\* The function's token, if it is this registration's, is its own; and a function that was
\* given to on() once still has the token of that registration.
Fits(e) ==
  /\ \A f \in Fns : tokenOf[f] = e.id => ~e.once /\ e.fn = f
  /\ ~e.once => added[e.fn] >= 1 /\ (added[e.fn] = 1 => tokenOf[e.fn] = e.id)

\* The same after a step.
Fitted(e) ==
  /\ \A f \in Fns : tokenOf'[f] = e.id => ~e.once /\ e.fn = f
  /\ ~e.once => added'[e.fn] >= 1 /\ (added'[e.fn] = 1 => tokenOf'[e.fn] = e.id)

\* Each listener is in the array its token names.
Placed ==
  \A g \in Generations, ev \in Events : \A i \in DOMAIN callbacks[g][ev] :
    /\ callbacks[g][ev][i].id \in Given
    /\ tokens[callbacks[g][ev][i].id] = [g |-> g, ev |-> ev]
    /\ Fits(callbacks[g][ev][i])

\* An array has its listeners in the order they were registered.
Rising(es) == \A i, j \in DOMAIN es : i < j => es[i].id < es[j].id
Ordered == \A g \in Generations, ev \in Events : Rising(callbacks[g][ev])

\* The calls in progress name tokens that were given out.
Known(f) ==
  /\ f.k = "fn" => f.done \in {0} \cup Given
  /\ f.k = "each" => f.start \subseteq Given /\ f.seen \subseteq Given

\* The registrations a loop has still to call if the array stays as it is.
Window(f, es) == {es[p].id : p \in {q \in DOMAIN es : f.i <= q /\ q <= f.n}}

\* A loop calls one registration at each index; every one that left the array hid at most
\* one of those there were, and made room for at most one that came later.
Looping(f, es) ==
  /\ f.i \in 1..(f.n + 1) /\ Cardinality(f.seen) = f.i - 1
  /\ \A p \in f.i..Len(es) : es[p].id \notin f.seen
  /\ Cardinality((f.start \ f.seen) \ Window(f, es)) <= f.cut
  /\ Cardinality((f.seen \cup Window(f, es)) \ f.start) <= f.cut
  /\ Cardinality((f.seen \cup Window(f, es)) \ f.start) + f.n <= f.cut + Len(es)

FrameOK(f) == Known(f) /\ (f.k = "each" => Looping(f, callbacks[f.g][f.ev]))

\* A stack of such frames.
Stacked(s) == s \in Seq(Frames) /\ \A j \in DOMAIN s : FrameOK(s[j])

IInv ==
  /\ TypeOK /\ Len(tokens) <= MaxTokens
  /\ Placed /\ Ordered /\ EndedIsGone
  /\ \A j \in DOMAIN stack : FrameOK(stack[j])

\* A loop over the array a removal is made in has lost one listener.
Cut(f, t) ==
  IF f.k = "each" /\ f.g = tokens[t].g /\ f.ev = tokens[t].ev /\ Carriers(f.g, f.ev, t) # {}
  THEN [f EXCEPT !.cut = @ + 1]
  ELSE f

USE EventsAssumption

-----------------------------------------------------------------------------
(* Numbers, sequences and sets.                                            *)

\* Among some natural numbers there is a least.
LEMMA Least ==
  ASSUME NEW S \in SUBSET Nat, S # {}
  PROVE  \E m \in S : \A k \in S : m <= k
<1>1. PICK m \in S : \A k \in S : ~(<<k, m>> \in OpToRel(<, Nat))
  BY WFMin, NatLessThanWellFounded
<1>2. \A k \in S : ~(k < m)
  BY <1>1 DEF OpToRel
<1>3. QED
  BY <1>2

\* The front of a sequence.
LEMMA FrontFacts ==
  ASSUME NEW S, NEW s \in Seq(S), s # << >>
  PROVE  /\ Front(s) \in Seq(S) /\ Len(s) \in Nat /\ Len(s) >= 1 /\ DOMAIN s = 1..Len(s)
         /\ Len(Front(s)) = Len(s) - 1 /\ DOMAIN Front(s) = 1..(Len(s) - 1)
         /\ \A i \in 1..(Len(s) - 1) : Front(s)[i] = s[i]
<1>1. Len(s) \in Nat /\ Len(s) >= 1 /\ DOMAIN s = 1..Len(s) /\ \A i \in 1..(Len(s) - 1) : s[i] \in S
  OBVIOUS
<1>2. /\ Front(s) \in Seq(S) /\ Len(Front(s)) = IF 1 <= Len(s) - 1 THEN Len(s) - 1 - 1 + 1 ELSE 0
      /\ \A i \in 1..(Len(s) - 1 - 1 + 1) : Front(s)[i] = s[1 + i - 1]
  BY <1>1, SubSeqProperties DEF Front
<1> DEFINE f == Front(s)
<1> HIDE DEF f
<1>3. Len(f) = Len(s) - 1 /\ \A i \in 1..(Len(s) - 1) : f[i] = s[i]
  <2>1. Len(f) = Len(s) - 1
    <3>1. Len(f) = IF 1 <= Len(s) - 1 THEN Len(s) - 1 - 1 + 1 ELSE 0
      BY <1>2 DEF f
    <3>2. CASE Len(s) = 1
      BY <3>1, <3>2
    <3>3. CASE Len(s) # 1
      <4>1. Len(s) \in Nat /\ 1 <= Len(s) - 1
        BY <1>1, <3>3
      <4>2. Len(f) = Len(s) - 1 - 1 + 1
        BY <3>1, <4>1
      <4>3. QED
        BY <4>1, <4>2
    <3>4. QED
      BY <3>2, <3>3
  <2>2. ASSUME NEW i \in 1..(Len(s) - 1) PROVE f[i] = s[i]
    <3>1. i \in 1..(Len(s) - 1 - 1 + 1) /\ 1 + i - 1 = i
      BY <1>1
    <3>2. f[i] = s[1 + i - 1]
      BY <1>2, <3>1 DEF f
    <3>3. QED
      BY <3>1, <3>2
  <2>3. QED
    BY <2>1, <2>2
<1>4. DOMAIN Front(s) = 1..(Len(s) - 1)
  BY <1>2, <1>3 DEF f
<1>5. QED
  BY <1>1, <1>2, <1>3, <1>4 DEF f

\* A sequence one longer.
LEMMA AppendFacts ==
  ASSUME NEW S, NEW s \in Seq(S), NEW x \in S
  PROVE  /\ Append(s, x) \in Seq(S) /\ Len(s) \in Nat /\ DOMAIN s = 1..Len(s)
         /\ Len(Append(s, x)) = Len(s) + 1 /\ DOMAIN Append(s, x) = 1..(Len(s) + 1)
         /\ \A i \in 1..Len(s) : Append(s, x)[i] = s[i]
         /\ Append(s, x)[Len(s) + 1] = x
OBVIOUS

\* What RemoveAt leaves of a list.
LEMMA RemoveAtFacts ==
  ASSUME NEW E, NEW es \in Seq(E), NEW i \in 1..Len(es)
  PROVE  /\ RemoveAt(es, i) \in Seq(E) /\ Len(RemoveAt(es, i)) = Len(es) - 1
         /\ \A j \in 1..(Len(es) - 1) : RemoveAt(es, i)[j] = IF j < i THEN es[j] ELSE es[j + 1]
<1> DEFINE front == SubSeq(es, 1, i - 1)
           back  == SubSeq(es, i + 1, Len(es))
<1>1. Len(es) \in Nat /\ i \in Nat /\ 1 <= i /\ i <= Len(es)
  OBVIOUS
<1>2. front \in Seq(E) /\ Len(front) = i - 1 /\ \A j \in 1..(i - 1) : front[j] = es[j]
  BY <1>1, SubSeqProperties
<1>3. back \in Seq(E) /\ Len(back) = Len(es) - i /\ \A j \in 1..(Len(es) - i) : back[j] = es[i + j]
  BY <1>1, SubSeqProperties
<1>4. RemoveAt(es, i) = front \o back
  BY DEF RemoveAt
<1> HIDE DEF front, back
<1>5. front \o back \in Seq(E) /\ Len(front \o back) = Len(es) - 1
  <2>1. front \o back \in Seq(E) /\ Len(front \o back) = Len(front) + Len(back)
    BY <1>2, <1>3, ConcatProperties
  <2>2. QED
    BY <1>1, <1>2, <1>3, <2>1
<1>6. ASSUME NEW j \in 1..(Len(es) - 1)
      PROVE  (front \o back)[j] = IF j < i THEN es[j] ELSE es[j + 1]
  <2>1. CASE j < i
    BY <1>1, <1>2, <1>3, <2>1
  <2>2. CASE ~(j < i)
    <3>1. (front \o back)[j] = back[j - (i - 1)] /\ j - (i - 1) \in 1..(Len(es) - i)
      BY <1>1, <1>2, <1>3, <2>2
    <3>2. i + (j - (i - 1)) = j + 1
      BY <1>1
    <3>3. QED
      BY <1>3, <2>2, <3>1, <3>2
  <2>3. QED
    BY <2>1, <2>2
<1>7. QED
  BY <1>4, <1>5, <1>6

-----------------------------------------------------------------------------
(* Loops over an array.                                                    *)

\* A set of tokens with at most one more.
LEMMA OneMore ==
  ASSUME NEW A \in SUBSET TokenIds, NEW B \in SUBSET TokenIds
  PROVE  /\ Cardinality(A) \in Nat
         /\ B \subseteq A => Cardinality(B) <= Cardinality(A)
         /\ \A x : B \subseteq A \cup {x} => Cardinality(B) <= Cardinality(A) + 1
<1>1. IsFiniteSet(TokenIds)
  BY FS_Interval DEF TokenIds
<1>2. IsFiniteSet(A) /\ IsFiniteSet(B)
  BY <1>1, FS_Subset
<1>3. Cardinality(A) \in Nat /\ Cardinality(B) \in Nat
  BY <1>2, FS_CardinalityType
<1>4. B \subseteq A => Cardinality(B) <= Cardinality(A)
  BY <1>2, FS_Subset
<1>5. ASSUME NEW x, B \subseteq A \cup {x} PROVE Cardinality(B) <= Cardinality(A) + 1
  <2>1. IsFiniteSet(A \cup {x}) /\ Cardinality(A \cup {x}) \in {Cardinality(A), Cardinality(A) + 1}
    BY <1>2, FS_AddElement
  <2>2. Cardinality(B) <= Cardinality(A \cup {x})
    BY <1>5, <2>1, FS_Subset
  <2>3. QED
    BY <1>3, <2>1, <2>2
<1>6. QED
  BY <1>3, <1>4, <1>5

LEMMA WindowTyped ==
  ASSUME NEW f \in EachFrames, NEW es \in Seq(Listener)
  PROVE  /\ Window(f, es) \subseteq TokenIds
         /\ \A x : x \in Window(f, es) <=> \E p \in 1..Len(es) : f.i <= p /\ p <= f.n /\ x = es[p].id
<1>1. DOMAIN es = 1..Len(es) /\ \A p \in 1..Len(es) : es[p] \in Listener
  OBVIOUS
<1>2. \A p \in 1..Len(es) : es[p].id \in TokenIds
  BY <1>1 DEF Listener
<1>3. QED
  BY <1>1, <1>2 DEF Window

\* One listener leaves the array under a loop.
LEMMA LoopLoses ==
  ASSUME NEW f \in EachFrames, NEW es \in Seq(Listener), NEW q \in 1..Len(es), Looping(f, es)
  PROVE  Looping([f EXCEPT !.cut = @ + 1], RemoveAt(es, q))
<1> DEFINE fs == RemoveAt(es, q)
           h  == [f EXCEPT !.cut = @ + 1]
           W  == Window(f, es)
           V  == Window(h, fs)
<1>1. h \in EachFrames /\ h.i = f.i /\ h.n = f.n /\ h.start = f.start /\ h.seen = f.seen /\ h.cut = f.cut + 1
  BY DEF EachFrames
<1>2. /\ fs \in Seq(Listener) /\ Len(fs) = Len(es) - 1
      /\ \A j \in 1..(Len(es) - 1) : fs[j] = IF j < q THEN es[j] ELSE es[j + 1]
  BY RemoveAtFacts
<1>3. f.i \in Nat /\ f.n \in Nat /\ f.cut \in Nat /\ Len(es) \in Nat /\ q \in Nat /\ q >= 1 /\ q <= Len(es)
  BY DEF EachFrames
<1>4. f.start \subseteq TokenIds /\ f.seen \subseteq TokenIds
  BY DEF EachFrames
<1> HIDE DEF h, fs
<1>5. /\ W \subseteq TokenIds /\ V \subseteq TokenIds
      /\ \A x : x \in W <=> \E p \in 1..Len(es) : f.i <= p /\ p <= f.n /\ x = es[p].id
      /\ \A x : x \in V <=> \E p \in 1..(Len(es) - 1) : f.i <= p /\ p <= f.n /\ x = fs[p].id
  BY <1>1, <1>2, WindowTyped
<1> HIDE DEF W, V
<1> DEFINE m == IF q < f.i THEN f.i ELSE q
<1>6. W \subseteq V \cup {es[m].id}
  <2> SUFFICES ASSUME NEW x \in W, x # es[m].id PROVE x \in V
    OBVIOUS
  <2>1. PICK p \in 1..Len(es) : f.i <= p /\ p <= f.n /\ x = es[p].id
    BY <1>5
  <2>2. p # m
    BY <2>1
  <2>3. CASE p < q
    <3>1. p \in 1..(Len(es) - 1) /\ fs[p] = es[p]
      BY <1>2, <1>3, <2>3, SMTT(60)
    <3>2. QED
      BY <1>5, <2>1, <3>1
  <2>4. CASE p > q
    <3>1. p - 1 \in 1..(Len(es) - 1) /\ ~(p - 1 < q) /\ (p - 1) + 1 = p
      BY <1>3, <2>4
    <3>2. fs[p - 1] = es[p]
      BY <1>2, <3>1
    <3>3. f.i <= p - 1 /\ p - 1 <= f.n
      BY <1>3, <2>1, <2>2, <2>4
    <3>4. QED
      BY <1>5, <2>1, <3>1, <3>2, <3>3
  <2>5. p # q
    BY <1>3, <2>1, <2>2
  <2>6. QED
    BY <1>3, <2>3, <2>4, <2>5
<1>7. ASSUME NEW x \in V PROVE x \in W \/ (x = es[f.n + 1].id /\ f.n + 1 <= Len(es))
  <2>1. PICK p \in 1..(Len(es) - 1) : f.i <= p /\ p <= f.n /\ x = fs[p].id
    BY <1>5
  <2>2. CASE p < q
    <3>1. fs[p] = es[p] /\ p \in 1..Len(es)
      BY <1>2, <1>3, <2>2
    <3>2. QED
      BY <1>5, <2>1, <3>1
  <2>3. CASE ~(p < q)
    <3>1. fs[p] = es[p + 1] /\ p + 1 \in 1..Len(es)
      BY <1>2, <1>3, <2>3
    <3>2. CASE p = f.n
      BY <1>3, <2>1, <3>1, <3>2
    <3>3. CASE p # f.n
      <4>1. f.i <= p + 1 /\ p + 1 <= f.n
        BY <1>3, <2>1, <3>3
      <4>2. QED
        BY <1>5, <2>1, <3>1, <4>1
    <3>4. QED
      BY <3>2, <3>3
  <2>4. QED
    BY <2>2, <2>3
<1> HIDE DEF m
<1> DEFINE U == (f.seen \cup W) \ f.start
           T == (f.seen \cup V) \ f.start
           M == (f.start \ f.seen) \ W
           N == (f.start \ f.seen) \ V
<1>8. /\ f.i \in 1..(f.n + 1) /\ Cardinality(f.seen) = f.i - 1
      /\ \A p \in f.i..Len(es) : es[p].id \notin f.seen
      /\ Cardinality(M) <= f.cut /\ Cardinality(U) <= f.cut /\ Cardinality(U) + f.n <= f.cut + Len(es)
  BY DEF Looping, W
<1>9. U \in SUBSET TokenIds /\ T \in SUBSET TokenIds /\ M \in SUBSET TokenIds /\ N \in SUBSET TokenIds
  BY <1>4, <1>5
<1>10. N \subseteq M \cup {es[m].id} /\ T \subseteq U \cup {es[f.n + 1].id}
  BY <1>6, <1>7
<1>11. Len(es) < f.n + 1 => T \subseteq U
  BY <1>3, <1>7
<1> HIDE DEF U, T, M, N
<1>12. /\ Cardinality(M) \in Nat /\ Cardinality(N) \in Nat /\ Cardinality(U) \in Nat /\ Cardinality(T) \in Nat
       /\ Cardinality(N) <= Cardinality(M) + 1 /\ Cardinality(T) <= Cardinality(U) + 1
       /\ Len(es) < f.n + 1 => Cardinality(T) <= Cardinality(U)
  BY <1>9, <1>10, <1>11, OneMore
<1> DEFINE cT == Cardinality(T)
           cU == Cardinality(U)
           cM == Cardinality(M)
           cN == Cardinality(N)
           len == Len(es)
<1>a. /\ cT \in Nat /\ cU \in Nat /\ cM \in Nat /\ cN \in Nat /\ len \in Nat
      /\ cN <= cM + 1 /\ cT <= cU + 1 /\ (len < f.n + 1 => cT <= cU)
      /\ cM <= f.cut /\ cU <= f.cut /\ cU + f.n <= f.cut + len
  BY <1>3, <1>8, <1>12
<1> HIDE DEF cT, cU, cM, cN, len
<1>b. cT + f.n <= f.cut + len
  BY <1>3, <1>a, SMTT(60)
<1>c. cN <= f.cut + 1 /\ cT <= f.cut + 1 /\ cT + f.n <= (f.cut + 1) + (len - 1)
  <2>1. cN <= f.cut + 1
    BY <1>3, <1>a
  <2>2. cT <= f.cut + 1
    BY <1>3, <1>a
  <2>3. (f.cut + 1) + (len - 1) = f.cut + len
    BY <1>3, <1>a, SMTT(60)
  <2>4. QED
    BY <1>b, <2>1, <2>2, <2>3
<1>13. Cardinality(T) + f.n <= (f.cut + 1) + (Len(es) - 1)
  BY <1>c DEF cT, len
<1>14. Cardinality(N) <= f.cut + 1 /\ Cardinality(T) <= f.cut + 1
  BY <1>c DEF cN, cT
<1>15. ASSUME NEW p \in f.i..Len(fs) PROVE fs[p].id \notin f.seen
  <2>1. p \in Nat /\ p >= 1 /\ p >= f.i /\ p \in 1..(Len(es) - 1)
    BY <1>2, <1>3, <1>8
  <2>2. fs[p] = es[p] \/ fs[p] = es[p + 1]
    BY <1>2, <2>1
  <2>3. p \in f.i..Len(es) /\ p + 1 \in f.i..Len(es)
    BY <1>3, <2>1
  <2>4. QED
    BY <1>8, <2>2, <2>3
<1>16. QED
  BY <1>1, <1>2, <1>8, <1>13, <1>14, <1>15 DEF Looping, T, N, V, h, fs

\* One listener joins the array under a loop.
LEMMA LoopGains ==
  ASSUME NEW f \in EachFrames, NEW es \in Seq(Listener), NEW e \in Listener, e.id \notin f.seen,
         Looping(f, es)
  PROVE  Looping(f, Append(es, e))
<1> DEFINE fs == Append(es, e)
           W  == Window(f, es)
           V  == Window(f, fs)
<1>1. /\ fs \in Seq(Listener) /\ Len(fs) = Len(es) + 1 /\ Len(es) \in Nat
      /\ \A j \in 1..Len(es) : fs[j] = es[j]
      /\ fs[Len(es) + 1] = e
  BY AppendFacts
<1>2. f.i \in Nat /\ f.n \in Nat /\ f.cut \in Nat /\ f.start \subseteq TokenIds /\ f.seen \subseteq TokenIds
  BY DEF EachFrames
<1> HIDE DEF fs
<1>3. /\ W \subseteq TokenIds /\ V \subseteq TokenIds
      /\ \A x : x \in W <=> \E p \in 1..Len(es) : f.i <= p /\ p <= f.n /\ x = es[p].id
      /\ \A x : x \in V <=> \E p \in 1..(Len(es) + 1) : f.i <= p /\ p <= f.n /\ x = fs[p].id
  BY <1>1, WindowTyped
<1> HIDE DEF W, V
<1>4. W \subseteq V
  <2> SUFFICES ASSUME NEW x \in W PROVE x \in V
    OBVIOUS
  <2>1. PICK p \in 1..Len(es) : f.i <= p /\ p <= f.n /\ x = es[p].id
    BY <1>3
  <2>2. p \in 1..(Len(es) + 1) /\ fs[p] = es[p]
    BY <1>1
  <2>3. QED
    BY <1>3, <2>1, <2>2
<1>5. ASSUME NEW x \in V PROVE x \in W \/ (x = e.id /\ Len(es) < f.n)
  <2>1. PICK p \in 1..(Len(es) + 1) : f.i <= p /\ p <= f.n /\ x = fs[p].id
    BY <1>3
  <2>2. CASE p = Len(es) + 1
    BY <1>1, <1>2, <2>1, <2>2
  <2>3. CASE p # Len(es) + 1
    <3>1. p \in 1..Len(es) /\ fs[p] = es[p]
      BY <1>1, <2>3
    <3>2. QED
      BY <1>3, <2>1, <3>1
  <2>4. QED
    BY <2>2, <2>3
<1> DEFINE U == (f.seen \cup W) \ f.start
           T == (f.seen \cup V) \ f.start
           M == (f.start \ f.seen) \ W
           N == (f.start \ f.seen) \ V
<1>6. /\ f.i \in 1..(f.n + 1) /\ Cardinality(f.seen) = f.i - 1
      /\ \A p \in f.i..Len(es) : es[p].id \notin f.seen
      /\ Cardinality(M) <= f.cut /\ Cardinality(U) <= f.cut /\ Cardinality(U) + f.n <= f.cut + Len(es)
  BY DEF Looping, W
<1>7. U \in SUBSET TokenIds /\ T \in SUBSET TokenIds /\ M \in SUBSET TokenIds /\ N \in SUBSET TokenIds
  BY <1>2, <1>3
<1>8. N \subseteq M /\ T \subseteq U \cup {e.id} /\ (~(Len(es) < f.n) => T \subseteq U)
  BY <1>4, <1>5
<1> HIDE DEF U, T, M, N
<1>9. /\ Cardinality(M) \in Nat /\ Cardinality(N) \in Nat /\ Cardinality(U) \in Nat /\ Cardinality(T) \in Nat
      /\ Cardinality(N) <= Cardinality(M) /\ Cardinality(T) <= Cardinality(U) + 1
      /\ ~(Len(es) < f.n) => Cardinality(T) <= Cardinality(U)
  BY <1>7, <1>8, OneMore
<1> DEFINE cT == Cardinality(T)
           cU == Cardinality(U)
           cM == Cardinality(M)
           cN == Cardinality(N)
           len == Len(es)
<1>a. /\ cT \in Nat /\ cU \in Nat /\ cM \in Nat /\ cN \in Nat /\ len \in Nat
      /\ cN <= cM /\ cT <= cU + 1 /\ (~(len < f.n) => cT <= cU)
      /\ cM <= f.cut /\ cU <= f.cut /\ cU + f.n <= f.cut + len
  BY <1>1, <1>2, <1>6, <1>9
<1> HIDE DEF cT, cU, cM, cN, len
<1>b. cN <= f.cut /\ cT + f.n <= f.cut + (len + 1)
  BY <1>2, <1>a, SMTT(60)
<1>c. cT <= f.cut
  BY <1>2, <1>a
<1>10. Cardinality(N) <= f.cut /\ Cardinality(T) <= f.cut /\ Cardinality(T) + f.n <= f.cut + (Len(es) + 1)
  BY <1>b, <1>c DEF cN, cT, len
<1>11. ASSUME NEW p \in f.i..(Len(es) + 1) PROVE fs[p].id \notin f.seen
  <2>1. CASE p = Len(es) + 1
    BY <1>1, <2>1
  <2>2. CASE p # Len(es) + 1
    <3>1. p \in f.i..Len(es) /\ p \in 1..Len(es)
      BY <1>1, <1>2, <1>6, <2>2
    <3>2. QED
      BY <1>1, <1>6, <3>1
  <2>3. QED
    BY <2>1, <2>2
<1>12. QED
  BY <1>1, <1>6, <1>10, <1>11 DEF Looping, T, N, V, fs

\* The frame of a loop that has called one more.
LEMMA FrameMoves ==
  ASSUME NEW f \in EachFrames, NEW x \in TokenIds
  PROVE  LET h == [f EXCEPT !.i = @ + 1, !.seen = @ \cup {x}] IN
         /\ h \in EachFrames /\ h.i = f.i + 1 /\ h.seen = f.seen \cup {x}
         /\ h.k = f.k /\ h.g = f.g /\ h.ev = f.ev /\ h.n = f.n /\ h.start = f.start /\ h.cut = f.cut
<1> DEFINE u == f.seen \cup {x}
           j == [f EXCEPT !.i = f.i + 1]
           h == [j EXCEPT !.seen = u]
<1>1. [f EXCEPT !.i = @ + 1, !.seen = @ \cup {x}] = h
  BY DEF EachFrames
<1>2. f.i + 1 \in Nat /\ u \in SUBSET TokenIds
  BY DEF EachFrames
<1>3. /\ j \in EachFrames /\ j.i = f.i + 1 /\ j.seen = f.seen
      /\ j.k = f.k /\ j.g = f.g /\ j.ev = f.ev /\ j.n = f.n /\ j.start = f.start /\ j.cut = f.cut
  BY <1>2 DEF EachFrames
<1> HIDE DEF u, j
<1>4. /\ h \in EachFrames /\ h.i = j.i /\ h.seen = u
      /\ h.k = j.k /\ h.g = j.g /\ h.ev = j.ev /\ h.n = j.n /\ h.start = j.start /\ h.cut = j.cut
  BY <1>2, <1>3 DEF EachFrames
<1> HIDE DEF h
<1>5. QED
  BY <1>1, <1>3, <1>4 DEF u

\* A loop calls the listener at its index.
LEMMA LoopGoesOn ==
  ASSUME NEW f \in EachFrames, NEW es \in Seq(Listener), Rising(es), Looping(f, es),
         f.i <= f.n, f.i <= Len(es)
  PROVE  Looping([f EXCEPT !.i = @ + 1, !.seen = @ \cup {es[f.i].id}], es)
<1> DEFINE x == es[f.i].id
           h == [f EXCEPT !.i = @ + 1, !.seen = @ \cup {x}]
           W == Window(f, es)
           V == Window(h, es)
<1>1. /\ f.i \in Nat /\ f.n \in Nat /\ f.cut \in Nat /\ f.start \subseteq TokenIds /\ f.seen \subseteq TokenIds
      /\ Len(es) \in Nat /\ DOMAIN es = 1..Len(es)
  BY DEF EachFrames
<1>2. /\ f.i \in 1..(f.n + 1) /\ Cardinality(f.seen) = f.i - 1
      /\ \A p \in f.i..Len(es) : es[p].id \notin f.seen
      /\ Cardinality((f.start \ f.seen) \ W) <= f.cut
      /\ Cardinality((f.seen \cup W) \ f.start) <= f.cut
      /\ Cardinality((f.seen \cup W) \ f.start) + f.n <= f.cut + Len(es)
  BY DEF Looping
<1>3. f.i \in 1..Len(es) /\ es[f.i] \in Listener
  BY <1>1, <1>2
<1>4. x \in TokenIds /\ x \notin f.seen
  BY <1>1, <1>2, <1>3 DEF Listener
<1>5. h \in EachFrames /\ h.i = f.i + 1 /\ h.n = f.n /\ h.start = f.start /\ h.seen = f.seen \cup {x} /\ h.cut = f.cut
  BY <1>1, <1>4, FrameMoves
<1> HIDE DEF h, x
<1>6. /\ W \subseteq TokenIds /\ V \subseteq TokenIds
      /\ \A y : y \in W <=> \E p \in 1..Len(es) : f.i <= p /\ p <= f.n /\ y = es[p].id
      /\ \A y : y \in V <=> \E p \in 1..Len(es) : f.i + 1 <= p /\ p <= f.n /\ y = es[p].id
  BY <1>5, WindowTyped
<1> HIDE DEF W, V
<1>7. x \in W
  BY <1>1, <1>3, <1>6 DEF x
<1>8. V \subseteq W
  <2> SUFFICES ASSUME NEW y \in V PROVE y \in W
    OBVIOUS
  <2>1. PICK p \in 1..Len(es) : f.i + 1 <= p /\ p <= f.n /\ y = es[p].id
    BY <1>6
  <2>2. f.i <= p
    BY <1>1, <2>1
  <2>3. QED
    BY <1>6, <2>1, <2>2
<1>9. ASSUME NEW y \in W, y # x PROVE y \in V
  <2>1. PICK p \in 1..Len(es) : f.i <= p /\ p <= f.n /\ y = es[p].id
    BY <1>6
  <2>2. p # f.i
    BY <1>9, <2>1 DEF x
  <2>3. f.i + 1 <= p
    BY <1>1, <2>1, <2>2
  <2>4. QED
    BY <1>6, <2>1, <2>3
<1>10. (h.start \ h.seen) \ V \subseteq (f.start \ f.seen) \ W /\ h.seen \cup V = f.seen \cup W
  BY <1>5, <1>7, <1>8, <1>9
<1>11. Cardinality((h.start \ h.seen) \ V) \in Nat /\ Cardinality((h.start \ h.seen) \ V) <= Cardinality((f.start \ f.seen) \ W)
       /\ Cardinality((f.start \ f.seen) \ W) \in Nat
  <2>1. (h.start \ h.seen) \ V \in SUBSET TokenIds /\ (f.start \ f.seen) \ W \in SUBSET TokenIds
    BY <1>1, <1>5
  <2>2. QED
    BY <1>10, <2>1, OneMore
<1>12. Cardinality((h.start \ h.seen) \ V) <= f.cut
  BY <1>1, <1>2, <1>11
<1>13. Cardinality(h.seen) = h.i - 1
  <2>1. IsFiniteSet(f.seen)
    <3>1. IsFiniteSet(TokenIds)
      BY FS_Interval DEF TokenIds
    <3>2. QED
      BY <1>1, <3>1, FS_Subset
  <2>2. Cardinality(f.seen \cup {x}) = Cardinality(f.seen) + 1
    BY <1>4, <2>1, FS_AddElement
  <2>3. QED
    BY <1>1, <1>2, <1>5, <2>2
<1>14. ASSUME NEW p \in h.i..Len(es) PROVE es[p].id \notin h.seen
  <2>1. p \in Nat /\ p \in f.i..Len(es) /\ p \in 1..Len(es) /\ f.i < p
    BY <1>1, <1>3, <1>5
  <2>2. x < es[p].id
    BY <1>1, <1>3, <2>1 DEF Rising, x
  <2>3. es[p].id # x
    BY <1>4, <2>2 DEF TokenIds
  <2>4. QED
    BY <1>2, <1>5, <2>1, <2>3
<1>15. h.i \in 1..(h.n + 1)
  BY <1>1, <1>2, <1>5
<1>16. QED
  BY <1>2, <1>5, <1>10, <1>12, <1>13, <1>14, <1>15 DEF Looping, h, x, V

\* A loop that starts has the whole array ahead.
LEMMA LoopStarts ==
  ASSUME NEW es \in Seq(Listener), NEW f \in EachFrames,
         f.i = 1, f.n = Len(es), f.seen = {}, f.cut = 0, f.start = {es[p].id : p \in 1..Len(es)}
  PROVE  Looping(f, es)
<1>1. Len(es) \in Nat
  OBVIOUS
<1>2. Window(f, es) = f.start
  BY <1>1, WindowTyped
<1>3. (f.start \ f.seen) \ Window(f, es) = {} /\ (f.seen \cup Window(f, es)) \ f.start = {}
  BY <1>2
<1>4. Cardinality({}) = 0
  BY FS_EmptySet
<1>5. Cardinality(f.seen) = 0 /\ f.i \in 1..(f.n + 1) /\ \A p \in f.i..Len(es) : es[p].id \notin f.seen
  BY <1>1, <1>4
<1>6. /\ Cardinality((f.start \ f.seen) \ Window(f, es)) = 0
      /\ Cardinality((f.seen \cup Window(f, es)) \ f.start) = 0
  BY <1>3, <1>4
<1>7. Cardinality((f.seen \cup Window(f, es)) \ f.start) + f.n <= f.cut + Len(es)
  BY <1>1, <1>6
<1>8. f.cut = 0 /\ 0 <= 0 /\ 0 = f.i - 1
  OBVIOUS
<1>9. QED
  BY <1>5, <1>6, <1>7, <1>8 DEF Looping

\* What EachIsCalled says of one loop.
LEMMA LoopCalled ==
  ASSUME NEW f \in EachFrames, NEW es \in Seq(Listener), Looping(f, es)
  PROVE  /\ \A p \in f.i..Len(es) : es[p].id \notin f.seen
         /\ Cardinality(f.seen) <= f.n
         /\ Cardinality((f.start \ f.seen) \ Window(f, es)) <= f.cut
         /\ Cardinality(f.seen \ f.start) <= f.cut
<1>1. f.i \in Nat /\ f.n \in Nat /\ f.cut \in Nat /\ f.seen \in SUBSET TokenIds
  BY DEF EachFrames
<1> DEFINE A == (f.seen \cup Window(f, es)) \ f.start
           B == f.seen \ f.start
<1>2. A \in SUBSET TokenIds /\ B \in SUBSET TokenIds /\ B \subseteq A
  BY <1>1, WindowTyped
<1>3. Cardinality(A) <= f.cut /\ f.i \in 1..(f.n + 1) /\ Cardinality(f.seen) = f.i - 1
  BY DEF Looping
<1> HIDE DEF A, B
<1>4. Cardinality(A) \in Nat /\ Cardinality(B) \in Nat /\ Cardinality(B) <= Cardinality(A)
  BY <1>2, OneMore
<1> DEFINE a == Cardinality(A)
           b == Cardinality(B)
<1>5. a \in Nat /\ b \in Nat /\ b <= a /\ a <= f.cut
  BY <1>3, <1>4
<1> HIDE DEF a, b
<1>6. b <= f.cut
  BY <1>1, <1>5
<1>7. Cardinality(f.seen) <= f.n
  BY <1>1, <1>3
<1>8. QED
  BY <1>6, <1>7 DEF Looping, b, B

-----------------------------------------------------------------------------
(* The state.                                                              *)

\* The three kinds of frame.
LEMMA FrameKinds ==
  ASSUME NEW f \in Frames
  PROVE  /\ f.k = "each" <=> f \in EachFrames
         /\ f.k = "fn" <=> f \in [k : {"fn"}, done : {0} \cup TokenIds]
         /\ f.k = "bukkit" <=> f \in [k : {"bukkit"}, ev : BukkitEvents, left : Seq(Generations)]
BY DEF Frames, EachFrames

\* The arrays one by one.
LEMMA ArraysTyped ==
  ASSUME TypeOK
  PROVE  /\ callbacks \in Arrays
         /\ \A g \in Generations, ev \in Events :
              /\ callbacks[g][ev] \in Seq(Listener)
              /\ DOMAIN callbacks[g][ev] = 1..Len(callbacks[g][ev])
              /\ Len(callbacks[g][ev]) \in Nat
              /\ \A i \in DOMAIN callbacks[g][ev] : callbacks[g][ev][i] \in Listener
<1>1. callbacks \in Arrays
  BY DEF TypeOK, Arrays, Listener
<1>2. ASSUME NEW g \in Generations, NEW ev \in Events PROVE callbacks[g][ev] \in Seq(Listener)
  BY <1>1 DEF Arrays
<1>3. \A s \in Seq(Listener) : DOMAIN s = 1..Len(s) /\ Len(s) \in Nat /\ \A i \in DOMAIN s : s[i] \in Listener
  OBVIOUS
<1>4. QED
  BY <1>1, <1>2, <1>3

\* What was given out: the tokens and the array each names.
LEMMA TokensTyped ==
  ASSUME TypeOK, Len(tokens) <= MaxTokens
  PROVE  /\ Given = 1..Len(tokens) /\ Len(tokens) \in Nat /\ Given \subseteq TokenIds
         /\ \A t \in Given : tokens[t].g \in Generations /\ tokens[t].ev \in Events
<1> DEFINE R == [g : Generations, ev : Events]
<1>1. tokens \in Seq(R)
  BY DEF TypeOK
<1>a. \A r \in R : r.g \in Generations /\ r.ev \in Events
  OBVIOUS
<1> HIDE DEF R
<1>2. Given = 1..Len(tokens) /\ Len(tokens) \in Nat /\ \A t \in 1..Len(tokens) : tokens[t] \in R
  BY <1>1 DEF Given
<1>3. Given \subseteq TokenIds
  BY <1>2 DEF TokenIds
<1>4. QED
  BY <1>2, <1>3, <1>a

\* One array replaced.
LEMMA ArrayReplaced ==
  ASSUME NEW a \in Arrays, NEW g \in Generations, NEW ev \in Events, NEW es \in Seq(Listener)
  PROVE  LET b == [a EXCEPT ![g][ev] = es] IN
         /\ b \in Arrays
         /\ \A g2 \in Generations, ev2 \in Events :
              b[g2][ev2] = IF g2 = g /\ ev2 = ev THEN es ELSE a[g2][ev2]
<1>1. a[g] \in [Events -> Seq(Listener)]
  BY DEF Arrays
<1> DEFINE r == [a[g] EXCEPT ![ev] = es]
<1>2. r \in [Events -> Seq(Listener)] /\ \A ev2 \in Events : r[ev2] = IF ev2 = ev THEN es ELSE a[g][ev2]
  BY <1>1
<1>3. [a EXCEPT ![g][ev] = es] = [a EXCEPT ![g] = r]
  BY <1>1 DEF Arrays
<1> HIDE DEF r
<1>4. [a EXCEPT ![g] = r] \in Arrays /\ \A g2 \in Generations : [a EXCEPT ![g] = r][g2] = IF g2 = g THEN r ELSE a[g2]
  BY <1>2 DEF Arrays
<1>5. QED
  BY <1>2, <1>3, <1>4

-----------------------------------------------------------------------------
(* A removal.                                                              *)

\* What is left of an array is in its order.
LEMMA RemoveAtRising ==
  ASSUME NEW es \in Seq(Listener), NEW q \in 1..Len(es), Rising(es)
  PROVE  /\ RemoveAt(es, q) \in Seq(Listener)
         /\ Rising(RemoveAt(es, q))
         /\ \A p \in DOMAIN RemoveAt(es, q) : \E r \in 1..Len(es) : r # q /\ RemoveAt(es, q)[p] = es[r]
<1> DEFINE fs == RemoveAt(es, q)
           at(p) == IF p < q THEN p ELSE p + 1
<1>1. /\ fs \in Seq(Listener) /\ Len(fs) = Len(es) - 1
      /\ \A j \in 1..(Len(es) - 1) : fs[j] = IF j < q THEN es[j] ELSE es[j + 1]
  BY RemoveAtFacts
<1>2. Len(es) \in Nat /\ q \in Nat /\ DOMAIN es = 1..Len(es)
  OBVIOUS
<1> HIDE DEF fs
<1>3. DOMAIN fs = 1..(Len(es) - 1)
  BY <1>1
<1>4. ASSUME NEW p \in 1..(Len(es) - 1) PROVE at(p) \in 1..Len(es) /\ at(p) # q /\ fs[p] = es[at(p)]
  <2>1. fs[p] = IF p < q THEN es[p] ELSE es[p + 1]
    BY <1>1
  <2>2. CASE p < q
    BY <1>2, <2>1, <2>2
  <2>3. CASE ~(p < q)
    BY <1>2, <2>1, <2>3
  <2>4. QED
    BY <2>2, <2>3
<1>5. ASSUME NEW i \in 1..(Len(es) - 1), NEW j \in 1..(Len(es) - 1), i < j PROVE at(i) < at(j)
  BY <1>2, <1>5
<1> HIDE DEF at
<1>6. ASSUME NEW i \in DOMAIN fs, NEW j \in DOMAIN fs, i < j PROVE fs[i].id < fs[j].id
  <2>1. at(i) \in DOMAIN es /\ at(j) \in DOMAIN es /\ at(i) < at(j) /\ fs[i] = es[at(i)] /\ fs[j] = es[at(j)]
    BY <1>2, <1>3, <1>4, <1>5, <1>6
  <2>2. es[at(i)].id < es[at(j)].id
    BY <2>1 DEF Rising
  <2>3. QED
    BY <2>1, <2>2
<1>7. Rising(fs)
  BY <1>6 DEF Rising
<1>8. ASSUME NEW p \in DOMAIN fs PROVE \E r \in 1..Len(es) : r # q /\ fs[p] = es[r]
  BY <1>3, <1>4
<1>9. QED
  BY <1>1, <1>7, <1>8 DEF fs

\* A registration that still has its token is the one its token finds.
LEMMA OwnCarrier ==
  ASSUME IInv, NEW t \in Given, NEW g \in Generations, NEW ev \in Events,
         NEW i \in DOMAIN callbacks[g][ev],
         callbacks[g][ev][i].id = t,
         callbacks[g][ev][i].once \/ ~(added[callbacks[g][ev][i].fn] > 1)
  PROVE  /\ g = tokens[t].g /\ ev = tokens[t].ev
         /\ i \in Carriers(g, ev, t) /\ \A j \in Carriers(g, ev, t) : j = i
<1> DEFINE es == callbacks[g][ev]
           e == es[i]
<1>1. /\ es \in Seq(Listener) /\ DOMAIN es = 1..Len(es) /\ Len(es) \in Nat
      /\ \A j \in DOMAIN es : es[j] \in Listener
  BY ArraysTyped DEF IInv
<1>2. /\ \A j \in DOMAIN es : es[j].id \in Given /\ tokens[es[j].id] = [g |-> g, ev |-> ev] /\ Fits(es[j])
      /\ Rising(es)
  BY DEF IInv, Placed, Ordered
<1>3. g = tokens[t].g /\ ev = tokens[t].ev
  BY <1>2
<1>4. Carriers(g, ev, t) = {j \in DOMAIN es : TokenOn(es[j]) = t}
  BY DEF Carriers
<1>5. added \in [Fns -> Nat] /\ Given \subseteq Nat
  <2>1. added \in [Fns -> Nat]
    BY DEF IInv, TypeOK
  <2>2. Given = 1..Len(tokens)
    BY TokensTyped DEF IInv
  <2>3. QED
    BY <2>1, <2>2
<1>6. e \in Listener /\ e.id = t /\ Fits(e) /\ (e.once \/ ~(added[e.fn] > 1))
  BY <1>1, <1>2
<1>7. \A k, j \in DOMAIN es : es[k].id = t /\ es[j].id = t => k = j
  <2> SUFFICES ASSUME NEW k \in DOMAIN es, NEW j \in DOMAIN es, es[k].id = t, es[j].id = t, k # j PROVE FALSE
    OBVIOUS
  <2>1. k < j \/ j < k
    BY <1>1
  <2>2. t < t
    BY <1>2, <2>1 DEF Rising
  <2>3. QED
    BY <1>5, <2>2
<1> HIDE DEF e
<1>8. ~e.once => added[e.fn] = 1 /\ tokenOf[e.fn] = t
  <2> SUFFICES ASSUME ~e.once PROVE added[e.fn] = 1 /\ tokenOf[e.fn] = t
    OBVIOUS
  <2>1. e.fn \in Fns
    BY <1>6 DEF Listener
  <2>2. added[e.fn] \in Nat /\ added[e.fn] >= 1 /\ ~(added[e.fn] > 1)
    BY <1>5, <1>6, <2>1 DEF Fits
  <2>3. added[e.fn] = 1
    BY <2>2
  <2>4. QED
    BY <1>6, <2>3 DEF Fits
<1>9. TokenOn(e) = t
  BY <1>6, <1>8 DEF TokenOn
<1>10. ASSUME NEW j \in DOMAIN es, TokenOn(es[j]) = t PROVE es[j].id = t
  <2>1. es[j] \in Listener /\ Fits(es[j])
    BY <1>1, <1>2
  <2>2. CASE es[j].once
    BY <1>10, <2>2 DEF TokenOn
  <2>3. CASE ~es[j].once
    <3>1. tokenOf[es[j].fn] = t /\ es[j].fn \in Fns
      BY <1>10, <2>1, <2>3 DEF TokenOn, Listener
    <3>2. ~e.once /\ e.fn = es[j].fn
      BY <1>6, <3>1 DEF Fits
    <3>3. tokenOf[es[j].fn] = es[j].id
      BY <1>8, <2>1, <2>3, <3>2 DEF Fits
    <3>4. QED
      BY <3>1, <3>3
  <2>4. QED
    BY <2>2, <2>3
<1>11. i \in Carriers(g, ev, t)
  BY <1>4, <1>9 DEF e
<1>12. ASSUME NEW j \in Carriers(g, ev, t) PROVE j = i
  BY <1>4, <1>7, <1>10
<1>13. QED
  BY <1>3, <1>11, <1>12

\* The least index.
LEMMA FirstIsLeast ==
  ASSUME NEW S \in SUBSET Nat, S # {}
  PROVE  FirstOf(S) \in S
<1>1. \E i \in S : \A j \in S : i <= j
  BY Least
<1>2. QED
  BY <1>1 DEF FirstOf

\* Who is listed, by array and index.
LEMMA ListedFacts ==
  \A e : e \in Listed <=> \E g \in Generations, ev \in Events : \E i \in DOMAIN callbacks[g][ev] : e = callbacks[g][ev][i]
<1>1. ASSUME NEW e \in Listed
      PROVE  \E g \in Generations, ev \in Events : \E i \in DOMAIN callbacks[g][ev] : e = callbacks[g][ev][i]
  <2>1. PICK A \in {ToSet(callbacks[g][ev]) : g \in Generations, ev \in Events} : e \in A
    BY DEF Listed
  <2>2. PICK g \in Generations, ev \in Events : A = ToSet(callbacks[g][ev])
    BY <2>1
  <2>3. QED
    BY <2>1, <2>2 DEF ToSet
<1>2. ASSUME NEW g \in Generations, NEW ev \in Events, NEW i \in DOMAIN callbacks[g][ev]
      PROVE  callbacks[g][ev][i] \in Listed
  <2>1. callbacks[g][ev][i] \in ToSet(callbacks[g][ev])
    BY DEF ToSet
  <2>2. QED
    BY <2>1 DEF Listed
<1>3. QED
  BY <1>1, <1>2

\* Taking out the registration a token finds leaves the other listeners where they were, takes
\* out the one that was given that token if it still has it, and the loops over the array lose
\* one listener.
LEMMA Removal ==
  ASSUME IInv, NEW t \in Given, callbacks' = Unregistered(t), UNCHANGED <<tokens, tokenOf, added>>
  PROVE  /\ callbacks' \in Arrays /\ Placed' /\ Ordered'
         /\ \A e \in Listed' : e \in Listed /\ (e.id = t => ~e.once /\ added[e.fn] > 1)
         /\ \A f \in Frames : \A h : h = Cut(f, t) /\ FrameOK(f) => h \in Frames /\ FrameOK(h)'
<1> DEFINE tg == tokens[t].g
           te == tokens[t].ev
           es == callbacks[tg][te]
           at == Carriers(tg, te, t)
<1>1. /\ callbacks \in Arrays
      /\ \A g \in Generations, ev \in Events :
           /\ callbacks[g][ev] \in Seq(Listener)
           /\ DOMAIN callbacks[g][ev] = 1..Len(callbacks[g][ev])
           /\ Len(callbacks[g][ev]) \in Nat
  BY ArraysTyped DEF IInv
<1>2. tg \in Generations /\ te \in Events
  BY TokensTyped DEF IInv
<1>3. /\ \A g \in Generations, ev \in Events : \A i \in DOMAIN callbacks[g][ev] :
           /\ callbacks[g][ev][i].id \in Given
           /\ tokens[callbacks[g][ev][i].id] = [g |-> g, ev |-> ev]
           /\ Fits(callbacks[g][ev][i])
      /\ \A g \in Generations, ev \in Events : Rising(callbacks[g][ev])
  BY DEF IInv, Placed, Ordered
<1>4. Given' = Given /\ \A e : Fits(e)' <=> Fits(e)
  BY DEF Given, Fits
<1>5. \A f \in Frames : Known(f)' <=> Known(f)
  BY <1>4 DEF Known
<1>6. CASE at = {}
  <2>1. callbacks' = callbacks
    BY <1>6 DEF Unregistered
  <2>2. Listed' = Listed /\ Placed' /\ Ordered'
    BY <1>3, <1>4, <2>1 DEF Listed, Placed, Ordered
  <2>3. ASSUME NEW e \in Listed, e.id = t PROVE ~e.once /\ added[e.fn] > 1
    <3>1. PICK g \in Generations, ev \in Events : \E i \in DOMAIN callbacks[g][ev] : e = callbacks[g][ev][i]
      BY ListedFacts
    <3>2. PICK i \in DOMAIN callbacks[g][ev] : e = callbacks[g][ev][i]
      BY <3>1
    <3>3. SUFFICES ASSUME e.once \/ ~(added[e.fn] > 1) PROVE FALSE
      OBVIOUS
    <3>4. g = tg /\ ev = te /\ i \in Carriers(g, ev, t)
      BY <2>3, <3>2, <3>3, OwnCarrier
    <3>5. QED
      BY <1>6, <3>4
  <2>4. ASSUME NEW f \in Frames, FrameOK(f) PROVE Cut(f, t) = f /\ FrameOK(f)'
    <3>1. Cut(f, t) = f
      BY <1>6 DEF Cut
    <3>2. QED
      BY <1>5, <2>1, <2>4, <3>1 DEF FrameOK
  <2>5. QED
    BY <1>1, <2>1, <2>2, <2>3, <2>4
<1>7. CASE at # {}
  <2> DEFINE m == FirstOf(at)
             fs == RemoveAt(es, m)
  <2>1. at \subseteq DOMAIN es /\ DOMAIN es = 1..Len(es) /\ Len(es) \in Nat
    BY <1>1, <1>2 DEF Carriers
  <2>2. m \in at /\ m \in 1..Len(es)
    <3>1. at \in SUBSET Nat
      BY <2>1
    <3>2. QED
      BY <1>7, <2>1, <3>1, FirstIsLeast
  <2>3. callbacks' = [callbacks EXCEPT ![tg][te] = fs]
    BY <1>7 DEF Unregistered
  <2>4. es \in Seq(Listener) /\ Rising(es)
    BY <1>1, <1>2, <1>3
  <2>5. /\ fs \in Seq(Listener) /\ Rising(fs)
        /\ \A p \in DOMAIN fs : \E r \in 1..Len(es) : r # m /\ fs[p] = es[r]
    BY <2>2, <2>4, RemoveAtRising
  <2> HIDE DEF m, fs
  <2>6. /\ callbacks' \in Arrays
        /\ \A g \in Generations, ev \in Events :
             callbacks'[g][ev] = IF g = tg /\ ev = te THEN fs ELSE callbacks[g][ev]
    <3> HIDE DEF es, at, tg, te
    <3>1. /\ [callbacks EXCEPT ![tg][te] = fs] \in Arrays
          /\ \A g \in Generations, ev \in Events :
               [callbacks EXCEPT ![tg][te] = fs][g][ev] = IF g = tg /\ ev = te THEN fs ELSE callbacks[g][ev]
      BY <1>1, <1>2, <2>5, ArrayReplaced
    <3>2. QED
      BY <2>3, <3>1
  <2> HIDE DEF at, es, tg, te
  <2>7. ASSUME NEW g \in Generations, NEW ev \in Events, NEW p \in DOMAIN (callbacks'[g][ev])
        PROVE  \E r \in DOMAIN callbacks[g][ev] :
                 callbacks'[g][ev][p] = callbacks[g][ev][r] /\ (g = tg /\ ev = te => r # m)
    <3>1. CASE g = tg /\ ev = te
      <4>1. callbacks'[g][ev] = fs /\ callbacks[g][ev] = es /\ DOMAIN es = 1..Len(es)
        BY <2>1, <2>6, <3>1 DEF es
      <4>2. QED
        BY <2>5, <2>7, <4>1
    <3>2. CASE ~(g = tg /\ ev = te)
      BY <2>6, <2>7, <3>2
    <3>3. QED
      BY <3>1, <3>2
  <2>8. ASSUME NEW g \in Generations, NEW ev \in Events, NEW p \in DOMAIN (callbacks'[g][ev])
        PROVE  /\ callbacks'[g][ev][p].id \in Given
               /\ tokens[callbacks'[g][ev][p].id] = [g |-> g, ev |-> ev]
               /\ Fits(callbacks'[g][ev][p])
    <3>1. PICK r \in DOMAIN callbacks[g][ev] : callbacks'[g][ev][p] = callbacks[g][ev][r]
      BY <2>7, <2>8
    <3>2. QED
      BY <1>3, <3>1
  <2>9. Placed'
    BY <1>4, <2>8 DEF Placed
  <2>10. Ordered'
    BY <1>3, <2>5, <2>6 DEF Ordered
  <2>11. ASSUME NEW e \in Listed' PROVE e \in Listed /\ (e.id = t => ~e.once /\ added[e.fn] > 1)
    <3>1. PICK g \in Generations, ev \in Events : \E p \in DOMAIN (callbacks'[g][ev]) : e = callbacks'[g][ev][p]
      BY <2>11 DEF Listed, ToSet
    <3>2. PICK p \in DOMAIN (callbacks'[g][ev]) : e = callbacks'[g][ev][p]
      BY <3>1
    <3>3. PICK r \in DOMAIN callbacks[g][ev] : e = callbacks[g][ev][r] /\ (g = tg /\ ev = te => r # m)
      BY <2>7, <3>2
    <3>4. e \in Listed
      BY <3>3, ListedFacts
    <3>5. ASSUME e.id = t, e.once \/ ~(added[e.fn] > 1) PROVE FALSE
      <4>1. /\ g = tokens[t].g /\ ev = tokens[t].ev
            /\ \A j \in Carriers(g, ev, t) : j = r
        BY <3>3, <3>5, OwnCarrier
      <4>2. m \in Carriers(g, ev, t) /\ g = tg /\ ev = te
        BY <2>2, <4>1 DEF at, tg, te
      <4>3. QED
        BY <3>3, <4>1, <4>2
    <3>6. QED
      BY <3>4, <3>5
  <2>12. ASSUME NEW f \in Frames, NEW h, h = Cut(f, t), FrameOK(f)
         PROVE  h \in Frames /\ FrameOK(h)'
    <3>1. CASE f.k = "each"
      <4>1. f \in EachFrames /\ f.g \in Generations /\ f.ev \in Events /\ f.cut \in Nat
        BY <3>1, FrameKinds DEF EachFrames
      <4>2. Known(f) /\ Looping(f, callbacks[f.g][f.ev])
        BY <2>12, <3>1 DEF FrameOK
      <4>3. CASE f.g = tg /\ f.ev = te
        <5>1. h = [f EXCEPT !.cut = @ + 1]
          BY <1>7, <2>12, <3>1, <4>3 DEF Cut, tg, te, at
        <5>2. /\ h \in EachFrames /\ h.k = "each" /\ h.g = f.g /\ h.ev = f.ev
              /\ h.start = f.start /\ h.seen = f.seen
          BY <4>1, <5>1 DEF EachFrames
        <5>3. Looping(h, fs)
          BY <2>2, <2>4, <4>1, <4>2, <4>3, <5>1, LoopLoses DEF fs, es
        <5>4. callbacks'[h.g][h.ev] = fs
          BY <1>2, <2>6, <4>3, <5>2
        <5>5. Known(h)'
          BY <1>4, <4>2, <3>1, <5>2 DEF Known
        <5>6. h \in Frames
          BY <5>2 DEF Frames, EachFrames
        <5>7. QED
          BY <5>3, <5>4, <5>5, <5>6 DEF FrameOK
      <4>4. CASE ~(f.g = tg /\ f.ev = te)
        <5>1. h = f
          BY <2>12, <4>4 DEF Cut, tg, te
        <5>2. callbacks'[f.g][f.ev] = callbacks[f.g][f.ev]
          BY <2>6, <4>1, <4>4
        <5>3. Known(f)'
          BY <1>5, <4>2
        <5>4. QED
          BY <4>2, <5>1, <5>2, <5>3 DEF FrameOK
      <4>5. QED
        BY <4>3, <4>4
    <3>2. CASE f.k # "each"
      <4>1. h = f
        BY <2>12, <3>2 DEF Cut
      <4>2. Known(f)'
        BY <1>5, <2>12 DEF FrameOK
      <4>3. QED
        BY <3>2, <4>1, <4>2 DEF FrameOK
    <3>3. QED
      BY <3>1, <3>2
  <2>13. QED
    BY <2>6, <2>9, <2>10, <2>11, <2>12
<1>8. QED
  BY <1>6, <1>7

-----------------------------------------------------------------------------
(* The calls in progress.                                                  *)

LEMMA StackFacts ==
  ASSUME IInv
  PROVE  /\ Stacked(stack)
         /\ stack # << >> => Top \in Frames /\ FrameOK(Top)
<1>1. stack \in Seq(Frames) /\ \A j \in DOMAIN stack : FrameOK(stack[j])
  BY DEF IInv, TypeOK
<1>2. \A s \in Seq(Frames) : s # << >> => Len(s) \in DOMAIN s /\ s[Len(s)] \in Frames
  OBVIOUS
<1>3. QED
  BY <1>1, <1>2 DEF Stacked, Top

\* Leaving calls.
LEMMA StackLeft ==
  ASSUME NEW s, Stacked(s), s # << >>
  PROVE  /\ Stacked(Front(s))
         /\ \A n \in 0..(Len(s) - 1) : Stacked(SubSeq(s, 1, n))
<1>1. s \in Seq(Frames) /\ DOMAIN s = 1..Len(s) /\ Len(s) \in Nat /\ \A j \in DOMAIN s : FrameOK(s[j]) /\ s[j] \in Frames
  <2>1. s \in Seq(Frames) /\ \A j \in DOMAIN s : FrameOK(s[j])
    BY DEF Stacked
  <2>2. \A q \in Seq(Frames) : DOMAIN q = 1..Len(q) /\ Len(q) \in Nat /\ \A j \in DOMAIN q : q[j] \in Frames
    OBVIOUS
  <2>3. QED
    BY <2>1, <2>2
<1>2. Stacked(Front(s))
  <2>1. /\ Front(s) \in Seq(Frames) /\ DOMAIN Front(s) = 1..(Len(s) - 1)
        /\ \A i \in 1..(Len(s) - 1) : Front(s)[i] = s[i]
    BY <1>1, FrontFacts
  <2> DEFINE q == Front(s)
  <2> HIDE DEF q
  <2>2. \A i \in DOMAIN q : q[i] = s[i] /\ i \in DOMAIN s
    BY <1>1, <2>1 DEF q
  <2>3. q \in Seq(Frames) /\ \A i \in DOMAIN q : FrameOK(q[i])
    BY <1>1, <2>1, <2>2 DEF q
  <2>4. QED
    BY <2>3 DEF Stacked, q
<1>3. ASSUME NEW n \in 0..(Len(s) - 1) PROVE Stacked(SubSeq(s, 1, n))
  <2>1. \A i \in 1..n : s[i] \in Frames
    BY <1>1
  <2>2. /\ SubSeq(s, 1, n) \in Seq(Frames)
        /\ Len(SubSeq(s, 1, n)) = IF 1 <= n THEN n - 1 + 1 ELSE 0
        /\ \A i \in 1..(n - 1 + 1) : SubSeq(s, 1, n)[i] = s[1 + i - 1]
    BY <1>1, <2>1, SubSeqProperties
  <2> DEFINE q == SubSeq(s, 1, n)
  <2> HIDE DEF q
  <2>3. Len(q) = n
    <3>1. n \in Nat /\ Len(q) = IF 1 <= n THEN n - 1 + 1 ELSE 0
      BY <1>1, <2>2 DEF q
    <3>2. CASE 1 <= n
      BY <3>1, <3>2
    <3>3. CASE ~(1 <= n)
      BY <3>1, <3>3
    <3>4. QED
      BY <3>2, <3>3
  <2>4. q \in Seq(Frames) /\ DOMAIN q = 1..n
    BY <2>2, <2>3 DEF q
  <2>5. ASSUME NEW i \in 1..n PROVE q[i] = s[i] /\ i \in DOMAIN s
    <3>1. i \in 1..(n - 1 + 1) /\ 1 + i - 1 = i /\ i \in DOMAIN s
      BY <1>1
    <3>2. q[i] = s[1 + i - 1]
      BY <2>2, <3>1 DEF q
    <3>3. QED
      BY <3>1, <3>2
  <2>6. \A i \in DOMAIN q : FrameOK(q[i])
    BY <1>1, <2>4, <2>5
  <2>7. QED
    BY <2>4, <2>6 DEF Stacked, q
<1>4. QED
  BY <1>2, <1>3

\* One call, or two, more.
LEMMA StackGrows ==
  ASSUME NEW s, Stacked(s), NEW f \in Frames, FrameOK(f)
  PROVE  /\ Stacked(Append(s, f))
         /\ \A h \in Frames : FrameOK(h) => Stacked(s \o <<f, h>>)
<1>1. s \in Seq(Frames) /\ \A j \in DOMAIN s : FrameOK(s[j])
  BY DEF Stacked
<1>2. DOMAIN s = 1..Len(s) /\ Len(s) \in Nat
  BY <1>1
<1>3. Stacked(Append(s, f))
  <2>1. /\ Append(s, f) \in Seq(Frames) /\ DOMAIN Append(s, f) = 1..(Len(s) + 1)
        /\ \A i \in 1..Len(s) : Append(s, f)[i] = s[i]
        /\ Append(s, f)[Len(s) + 1] = f
    BY <1>1, AppendFacts
  <2> DEFINE q == Append(s, f)
  <2> HIDE DEF q
  <2>2. ASSUME NEW i \in DOMAIN q PROVE FrameOK(q[i])
    <3>1. CASE i = Len(s) + 1
      BY <2>1, <3>1 DEF q
    <3>2. CASE i # Len(s) + 1
      <4>1. i \in 1..Len(s)
        BY <1>2, <2>1, <3>2 DEF q
      <4>2. q[i] = s[i]
        BY <2>1, <4>1 DEF q
      <4>3. QED
        BY <1>1, <1>2, <4>1, <4>2
    <3>3. QED
      BY <3>1, <3>2
  <2>3. QED
    BY <2>1, <2>2 DEF Stacked, q
<1>4. ASSUME NEW h \in Frames, FrameOK(h) PROVE Stacked(s \o <<f, h>>)
  <2> DEFINE two == <<f, h>>
             q == s \o two
  <2>1. two \in Seq(Frames) /\ Len(two) = 2 /\ two[1] = f /\ two[2] = h
    OBVIOUS
  <2> HIDE DEF two
  <2>2. /\ q \in Seq(Frames) /\ Len(q) = Len(s) + 2
        /\ \A i \in 1..(Len(s) + 2) : q[i] = IF i <= Len(s) THEN s[i] ELSE two[i - Len(s)]
    <3>1. /\ q \in Seq(Frames) /\ Len(q) = Len(s) + Len(two)
          /\ \A i \in 1..Len(s) + Len(two) : q[i] = IF i <= Len(s) THEN s[i] ELSE two[i - Len(s)]
      BY <1>1, <2>1, ConcatProperties
    <3> HIDE DEF q
    <3>2. Len(s) + Len(two) = Len(s) + 2
      BY <2>1
    <3>3. QED
      BY <3>1, <3>2
  <2> HIDE DEF q
  <2>3. DOMAIN q = 1..(Len(s) + 2)
    BY <2>2
  <2>4. ASSUME NEW i \in 1..(Len(s) + 2) PROVE FrameOK(q[i])
    <3>1. CASE i <= Len(s)
      <4>1. q[i] = s[i] /\ i \in DOMAIN s
        BY <1>2, <2>2, <3>1
      <4>2. QED
        BY <1>1, <4>1
    <3>2. CASE ~(i <= Len(s))
      <4>1. i - Len(s) \in {1, 2}
        BY <1>2, <3>2
      <4>2. q[i] = two[i - Len(s)]
        BY <2>2, <3>2
      <4>3. q[i] = f \/ q[i] = h
        BY <2>1, <4>1, <4>2
      <4>4. QED
        BY <1>4, <4>3
    <3>3. QED
      BY <3>1, <3>2
  <2>5. QED
    BY <2>2, <2>3, <2>4 DEF Stacked, q, two
<1>5. QED
  BY <1>3, <1>4

\* invoke() starts a loop with the whole array ahead.
LEMMA InvokeStacked ==
  ASSUME IInv, NEW s, Stacked(s), NEW g \in Generations, NEW ev \in Events
  PROVE  Stacked(Invoked(s, g, ev))
<1> DEFINE es == callbacks[g][ev]
           f == Each(g, ev)
<1>1. /\ es \in Seq(Listener) /\ DOMAIN es = 1..Len(es) /\ Len(es) \in Nat
      /\ \A j \in DOMAIN es : es[j] \in Listener
  BY ArraysTyped DEF IInv
<1>2. \A j \in DOMAIN es : es[j].id \in Given
  BY DEF IInv, Placed
<1>3. Ids(g, ev) = {es[p].id : p \in 1..Len(es)}
  BY <1>1 DEF Ids, ToSet
<1>4. Ids(g, ev) \subseteq Given /\ Ids(g, ev) \subseteq TokenIds
  BY <1>1, <1>2, <1>3, TokensTyped DEF IInv
<1>5. /\ f.k = "each" /\ f.g = g /\ f.ev = ev /\ f.i = 1 /\ f.n = Len(es) /\ f.start = Ids(g, ev)
      /\ f.seen = {} /\ f.cut = 0
  BY DEF Each
<1>6. f \in EachFrames
  BY <1>1, <1>4 DEF Each, EachFrames
<1> HIDE DEF f
<1>7. Looping(f, es)
  BY <1>1, <1>3, <1>5, <1>6, LoopStarts
<1>8. f \in Frames
  BY <1>6 DEF Frames, EachFrames
<1>9. FrameOK(f)
  BY <1>4, <1>5, <1>7 DEF FrameOK, Known
<1>10. QED
  BY <1>8, <1>9, StackGrows DEF Invoked, f

\* A step that leaves the arrays and the tokens alone.
LEMMA StackOnly ==
  ASSUME IInv, UNCHANGED <<callbacks, tokens, tokenOf, cancelled, completed, added>>,
         generation' \in Generations, loaded' \in Seq(Generations), made' \subseteq Generations \X Events,
         Stacked(stack')
  PROVE  IInv'
<1>1. Placed' /\ Ordered'
  BY DEF IInv, Placed, Ordered, Given, Fits
<1>2. EndedIsGone'
  BY DEF IInv, EndedIsGone, Listed
<1>3. TypeOK' /\ (Len(tokens) <= MaxTokens)'
  BY DEF IInv, TypeOK, Given, Stacked
<1>4. ASSUME NEW f PROVE FrameOK(f)' <=> FrameOK(f)
  BY DEF FrameOK, Known, Given
<1>5. \A j \in DOMAIN (stack') : FrameOK(stack'[j])
  BY DEF Stacked
<1>6. (\A j \in DOMAIN stack : FrameOK(stack[j]))'
  BY <1>4, <1>5
<1>7. QED
  BY <1>1, <1>2, <1>3, <1>6 DEF IInv

-----------------------------------------------------------------------------
(* The steps.                                                              *)

\* A registration, of either kind.
LEMMA Registration ==
  ASSUME IInv, NEW g \in Generations, NEW ev \in Events, NEW e \in Listener,
         Len(tokens) < MaxTokens, e.id = Len(tokens) + 1,
         Push(g, ev, e),
         tokenOf' \in [Fns -> {0} \cup Given'], added' \in [Fns -> Nat],
         \A f \in Fns : added'[f] >= added[f],
         Fitted(e), \A x \in Listener : x.id \in Given /\ Fits(x) => Fitted(x),
         UNCHANGED <<generation, loaded, stack, cancelled, completed>>
  PROVE  IInv'
<1>1. /\ callbacks \in Arrays
      /\ \A g2 \in Generations, ev2 \in Events :
           /\ callbacks[g2][ev2] \in Seq(Listener)
           /\ DOMAIN callbacks[g2][ev2] = 1..Len(callbacks[g2][ev2])
           /\ Len(callbacks[g2][ev2]) \in Nat
           /\ \A i \in DOMAIN callbacks[g2][ev2] : callbacks[g2][ev2][i] \in Listener
  BY ArraysTyped DEF IInv
<1>2. Given = 1..Len(tokens) /\ Len(tokens) \in Nat
  BY TokensTyped DEF IInv
<1> DEFINE es == callbacks[g][ev]
           fs == Append(es, e)
           R  == [g : Generations, ev : Events]
<1>3. /\ tokens' = Append(tokens, [g |-> g, ev |-> ev])
      /\ callbacks' = [callbacks EXCEPT ![g][ev] = fs]
      /\ made' = made \cup {<<g, ev>>}
  BY DEF Push
<1>4. tokens \in Seq(R) /\ [g |-> g, ev |-> ev] \in R
  BY DEF IInv, TypeOK
<1> HIDE DEF R
<1>5. /\ tokens' \in Seq(R) /\ Len(tokens') = Len(tokens) + 1 /\ Given' = 1..(Len(tokens) + 1)
      /\ \A t \in 1..Len(tokens) : tokens'[t] = tokens[t]
      /\ tokens'[Len(tokens) + 1] = [g |-> g, ev |-> ev]
  BY <1>3, <1>4, AppendFacts DEF Given
<1>6. Given \subseteq Given' /\ e.id \in Given' /\ e.id \notin Given /\ Len(tokens') <= MaxTokens
  BY <1>2, <1>5
<1>7. /\ fs \in Seq(Listener) /\ DOMAIN fs = 1..(Len(es) + 1)
      /\ \A i \in 1..Len(es) : fs[i] = es[i]
      /\ fs[Len(es) + 1] = e
  BY <1>1, AppendFacts
<1> HIDE DEF fs
<1>8. /\ callbacks' \in Arrays
      /\ \A g2 \in Generations, ev2 \in Events :
           callbacks'[g2][ev2] = IF g2 = g /\ ev2 = ev THEN fs ELSE callbacks[g2][ev2]
  <2> HIDE DEF es
  <2>1. /\ [callbacks EXCEPT ![g][ev] = fs] \in Arrays
        /\ \A g2 \in Generations, ev2 \in Events :
             [callbacks EXCEPT ![g][ev] = fs][g2][ev2] = IF g2 = g /\ ev2 = ev THEN fs ELSE callbacks[g2][ev2]
    BY <1>1, <1>7, ArrayReplaced
  <2>2. QED
    BY <1>3, <2>1
<1>9. \A g2 \in Generations, ev2 \in Events : \A i \in DOMAIN callbacks[g2][ev2] :
        /\ callbacks[g2][ev2][i].id \in Given
        /\ tokens[callbacks[g2][ev2][i].id] = [g |-> g2, ev |-> ev2]
        /\ Fits(callbacks[g2][ev2][i])
  BY DEF IInv, Placed
<1>10. ASSUME NEW g2 \in Generations, NEW ev2 \in Events, NEW i \in DOMAIN callbacks'[g2][ev2]
       PROVE  \/ callbacks'[g2][ev2][i] = e /\ g2 = g /\ ev2 = ev /\ i = Len(es) + 1
              \/ i \in DOMAIN callbacks[g2][ev2] /\ callbacks'[g2][ev2][i] = callbacks[g2][ev2][i]
  <2>1. CASE g2 = g /\ ev2 = ev
    <3>1. callbacks'[g2][ev2] = fs /\ i \in 1..(Len(es) + 1) /\ Len(es) \in Nat /\ DOMAIN es = 1..Len(es)
      BY <1>1, <1>7, <1>8, <1>10, <2>1
    <3>2. i \in 1..Len(es) \/ i = Len(es) + 1
      BY <3>1
    <3>3. QED
      BY <1>7, <2>1, <3>1, <3>2
  <2>2. CASE ~(g2 = g /\ ev2 = ev)
    BY <1>8, <1>10, <2>2
  <2>3. QED
    BY <2>1, <2>2
<1>11. Placed'
  <2> SUFFICES ASSUME NEW g2 \in Generations, NEW ev2 \in Events, NEW i \in DOMAIN callbacks'[g2][ev2]
               PROVE  /\ callbacks'[g2][ev2][i].id \in Given'
                      /\ tokens'[callbacks'[g2][ev2][i].id] = [g |-> g2, ev |-> ev2]
                      /\ Fitted(callbacks'[g2][ev2][i])
    BY DEF Placed, Fits, Fitted
  <2>1. CASE callbacks'[g2][ev2][i] = e /\ g2 = g /\ ev2 = ev
    BY <1>5, <1>6, <2>1
  <2>2. CASE i \in DOMAIN callbacks[g2][ev2] /\ callbacks'[g2][ev2][i] = callbacks[g2][ev2][i]
    <3> DEFINE x == callbacks[g2][ev2][i]
    <3>1. x.id \in Given /\ tokens[x.id] = [g |-> g2, ev |-> ev2] /\ Fits(x) /\ x \in Listener
      BY <1>1, <1>9, <2>2
    <3>2. tokens'[x.id] = tokens[x.id] /\ x.id \in Given'
      BY <1>2, <1>5, <1>6, <3>1
    <3>3. callbacks'[g2][ev2][i] = x
      BY <2>2
    <3> HIDE DEF x
    <3>4. Fitted(x)
      BY <3>1
    <3>5. QED
      BY <3>1, <3>2, <3>3, <3>4
  <2>3. QED
    BY <1>10, <2>1, <2>2
<1>12. Ordered'
  <2> SUFFICES ASSUME NEW g2 \in Generations, NEW ev2 \in Events PROVE Rising(callbacks'[g2][ev2])
    BY DEF Ordered
  <2>1. Rising(callbacks[g2][ev2])
    BY DEF IInv, Ordered
  <2>2. ASSUME NEW i \in DOMAIN callbacks'[g2][ev2], NEW j \in DOMAIN callbacks'[g2][ev2], i < j
        PROVE  callbacks'[g2][ev2][i].id < callbacks'[g2][ev2][j].id
    <3>1. \/ callbacks'[g2][ev2][j] = e /\ g2 = g /\ ev2 = ev /\ j = Len(es) + 1
          \/ j \in DOMAIN callbacks[g2][ev2] /\ callbacks'[g2][ev2][j] = callbacks[g2][ev2][j]
      BY <1>10
    <3>2. \/ callbacks'[g2][ev2][i] = e /\ g2 = g /\ ev2 = ev /\ i = Len(es) + 1
          \/ i \in DOMAIN callbacks[g2][ev2] /\ callbacks'[g2][ev2][i] = callbacks[g2][ev2][i]
      BY <1>10
    <3>3. i \in DOMAIN callbacks[g2][ev2] /\ callbacks'[g2][ev2][i] = callbacks[g2][ev2][i]
      BY <1>1, <2>2, <3>1, <3>2
    <3>4. CASE callbacks'[g2][ev2][j] = e
      <4>1. callbacks[g2][ev2][i].id \in 1..Len(tokens)
        BY <1>2, <1>9, <3>3
      <4>2. callbacks[g2][ev2][i].id < e.id
        BY <1>2, <4>1
      <4>3. QED
        BY <3>3, <3>4, <4>2
    <3>5. CASE j \in DOMAIN callbacks[g2][ev2] /\ callbacks'[g2][ev2][j] = callbacks[g2][ev2][j]
      BY <2>1, <2>2, <3>3, <3>5 DEF Rising
    <3>6. QED
      BY <3>1, <3>4, <3>5
  <2>3. QED
    BY <2>2 DEF Rising
<1>13. EndedIsGone'
  <2> SUFFICES ASSUME NEW x \in Listed'
               PROVE  /\ x.id \in cancelled => ~x.once /\ added'[x.fn] > 1
                      /\ ~(x.once /\ x.id \in completed)
    BY DEF EndedIsGone
  <2>1. PICK g2 \in Generations, ev2 \in Events : \E i \in DOMAIN callbacks'[g2][ev2] : x = callbacks'[g2][ev2][i]
    <3>1. PICK A \in {ToSet(callbacks'[g2][ev2]) : g2 \in Generations, ev2 \in Events} : x \in A
      BY DEF Listed
    <3>2. PICK g2 \in Generations, ev2 \in Events : A = ToSet(callbacks'[g2][ev2])
      BY <3>1
    <3>3. QED
      BY <3>1, <3>2 DEF ToSet
  <2>2. PICK i \in DOMAIN callbacks'[g2][ev2] : x = callbacks'[g2][ev2][i]
    BY <2>1
  <2>3. CASE x = e
    BY <1>6, <2>3 DEF IInv, TypeOK
  <2>4. CASE i \in DOMAIN callbacks[g2][ev2] /\ x = callbacks[g2][ev2][i]
    <3>1. x \in Listed /\ x \in Listener
      BY <1>1, <2>4, ListedFacts
    <3>2. /\ x.id \in cancelled => ~x.once /\ added[x.fn] > 1
          /\ ~(x.once /\ x.id \in completed)
      BY <3>1 DEF IInv, EndedIsGone
    <3>3. added[x.fn] \in Nat /\ added'[x.fn] \in Nat /\ added'[x.fn] >= added[x.fn]
      BY <3>1 DEF IInv, TypeOK, Listener
    <3>4. QED
      BY <3>2, <3>3
  <2>5. QED
    BY <1>10, <2>2, <2>3, <2>4
<1>14. ASSUME NEW f \in Frames, FrameOK(f) PROVE FrameOK(f)'
  <2>1. Known(f) /\ Known(f)'
    BY <1>6, <1>14 DEF FrameOK, Known
  <2>2. CASE f.k = "each"
    <3>1. f \in EachFrames /\ f.g \in Generations /\ f.ev \in Events /\ Looping(f, callbacks[f.g][f.ev])
      BY <1>14, <2>2, FrameKinds DEF FrameOK, EachFrames
    <3>2. e.id \notin f.seen
      BY <1>6, <2>1, <2>2 DEF Known
    <3>3. CASE f.g = g /\ f.ev = ev
      <4>1. es \in Seq(Listener) /\ Looping(f, es)
        BY <1>1, <3>1, <3>3
      <4>2. Looping(f, fs)
        BY <3>1, <3>2, <4>1, LoopGains DEF fs
      <4>3. callbacks'[f.g][f.ev] = fs
        BY <1>8, <3>3
      <4>4. QED
        BY <2>1, <4>2, <4>3 DEF FrameOK
    <3>4. CASE ~(f.g = g /\ f.ev = ev)
      BY <1>8, <2>1, <3>1, <3>4 DEF FrameOK
    <3>5. QED
      BY <3>3, <3>4
  <2>3. CASE f.k # "each"
    BY <2>1, <2>3 DEF FrameOK
  <2>4. QED
    BY <2>2, <2>3
<1>15. (\A j \in DOMAIN stack : FrameOK(stack[j]))'
  <2>1. \A j \in DOMAIN stack : FrameOK(stack[j]) /\ stack[j] \in Frames
    <3>1. stack \in Seq(Frames) /\ \A j \in DOMAIN stack : FrameOK(stack[j])
      BY DEF IInv, TypeOK
    <3>2. QED
      BY <3>1
  <2>2. QED
    BY <1>14, <2>1
<1>16. TypeOK'
  <2>1. made' \subseteq Generations \X Events
    BY <1>3 DEF IInv, TypeOK
  <2>2. cancelled' \subseteq Given' /\ completed' \subseteq Given'
    BY <1>6 DEF IInv, TypeOK
  <2>3. generation' \in Generations /\ loaded' \in Seq(Generations) /\ stack' \in Seq(Frames)
    BY DEF IInv, TypeOK
  <2>4. QED
    BY <1>5, <1>8, <2>1, <2>2, <2>3 DEF TypeOK, Arrays, Listener, R
<1>17. QED
  BY <1>6, <1>11, <1>12, <1>13, <1>15, <1>16 DEF IInv

\* A removal, by cancel() or by the wrapper of once().
LEMMA Removing ==
  ASSUME IInv, NEW t \in Given, NEW s, Stacked(s),
         callbacks' = Unregistered(t), stack' = Noticed(s, t),
         UNCHANGED <<generation, loaded, made, tokens, tokenOf, added>>,
         cancelled' \cup completed' \subseteq cancelled \cup completed \cup {t},
         cancelled' \subseteq cancelled \cup {t}, completed' \subseteq completed \cup {t}
  PROVE  IInv'
<1>1. /\ callbacks' \in Arrays /\ Placed' /\ Ordered'
      /\ \A e \in Listed' : e \in Listed /\ (e.id = t => ~e.once /\ added[e.fn] > 1)
      /\ \A f \in Frames : \A h : h = Cut(f, t) /\ FrameOK(f) => h \in Frames /\ FrameOK(h)'
  BY Removal
<1>2. Given' = Given
  BY DEF Given
<1>3. EndedIsGone'
  <2> SUFFICES ASSUME NEW e \in Listed'
               PROVE  /\ e.id \in cancelled' => ~e.once /\ added[e.fn] > 1
                      /\ ~(e.once /\ e.id \in completed')
    BY DEF EndedIsGone
  <2>1. e \in Listed /\ (e.id = t => ~e.once /\ added[e.fn] > 1)
    BY <1>1
  <2>2. /\ e.id \in cancelled => ~e.once /\ added[e.fn] > 1
        /\ ~(e.once /\ e.id \in completed)
    BY <2>1 DEF IInv, EndedIsGone
  <2>3. QED
    BY <2>1, <2>2
<1>4. s \in Seq(Frames) /\ \A j \in DOMAIN s : FrameOK(s[j]) /\ s[j] \in Frames
  <2>1. s \in Seq(Frames) /\ \A j \in DOMAIN s : FrameOK(s[j])
    BY DEF Stacked
  <2>2. QED
    BY <2>1
<1> DEFINE q == stack'
<1>5. q = [j \in DOMAIN s |-> q[j]] /\ DOMAIN q = DOMAIN s /\ \A j \in DOMAIN s : q[j] = Cut(s[j], t)
  BY DEF Noticed, Cut
<1> HIDE DEF q
<1>6. ASSUME NEW j \in DOMAIN q PROVE q[j] \in Frames /\ \A h : h = q[j] => FrameOK(h)'
  <2>1. q[j] = Cut(s[j], t) /\ s[j] \in Frames /\ FrameOK(s[j])
    BY <1>4, <1>5
  <2>2. QED
    BY <1>1, <2>1
<1>7. q \in Seq(Frames)
  <2>1. DOMAIN q = 1..Len(s) /\ Len(s) \in Nat
    BY <1>4, <1>5
  <2>2. q = [j \in 1..Len(s) |-> q[j]] /\ \A j \in 1..Len(s) : q[j] \in Frames
    BY <1>5, <1>6, <2>1
  <2>3. QED
    BY <2>1, <2>2
<1>8. TypeOK'
  BY <1>1, <1>2, <1>7 DEF IInv, TypeOK, Arrays, Listener, q
<1>9. (\A j \in DOMAIN stack : FrameOK(stack[j]))'
  BY <1>6 DEF q
<1>10. (Len(tokens) <= MaxTokens)'
  BY DEF IInv
<1>11. QED
  BY <1>1, <1>3, <1>8, <1>9, <1>10 DEF IInv

-----------------------------------------------------------------------------
(* The actions.                                                            *)

LEMMA InitSound == Init => IInv
<1> SUFFICES ASSUME Init PROVE IInv
  OBVIOUS
<1>1. /\ callbacks = [g \in Generations |-> [ev \in Events |-> << >>]]
      /\ tokens = << >> /\ stack = << >> /\ loaded = << >> /\ generation = 0 /\ made = {}
      /\ tokenOf = [f \in Fns |-> 0] /\ added = [f \in Fns |-> 0] /\ cancelled = {} /\ completed = {}
  BY DEF Init
<1>2. \A g \in Generations, ev \in Events : callbacks[g][ev] = << >> /\ DOMAIN callbacks[g][ev] = {}
  BY <1>1
<1>3. Placed /\ Ordered
  BY <1>2 DEF Placed, Ordered, Rising
<1>4. Listed = {}
  BY <1>2, ListedFacts
<1>5. EndedIsGone
  BY <1>4 DEF EndedIsGone
<1>6. << >> \in Seq(Listener) /\ << >> \in Seq(Frames) /\ << >> \in Seq(Generations)
      /\ << >> \in Seq([g : Generations, ev : Events])
  OBVIOUS
<1>7. generation \in Generations
  BY <1>1 DEF Generations, EventsAssumption
<1>8. callbacks \in [Generations -> [Events -> Seq(Listener)]]
  BY <1>1, <1>6
<1>9. TypeOK
  BY <1>1, <1>6, <1>7, <1>8 DEF TypeOK, Listener
<1>10. Len(tokens) <= MaxTokens /\ DOMAIN stack = {}
  BY <1>1 DEF EventsAssumption
<1>11. QED
  BY <1>3, <1>5, <1>9, <1>10 DEF IInv

LEMMA LoadLibraryStep ==
  ASSUME IInv, LoadLibrary
  PROVE  IInv'
<1>1. generation \in Generations /\ loaded \in Seq(Generations) /\ made \subseteq Generations \X Events
  BY DEF IInv, TypeOK
<1>2. Append(loaded, generation) \in Seq(Generations)
  BY <1>1
<1>3. Stacked(stack')
  BY StackFacts DEF LoadLibrary
<1>4. QED
  BY <1>1, <1>2, <1>3, StackOnly DEF LoadLibrary

LEMMA ReloadStep ==
  ASSUME IInv, Reload
  PROVE  IInv'
<1>1. generation \in Generations /\ loaded \in Seq(Generations) /\ made \subseteq Generations \X Events
  BY DEF IInv, TypeOK
<1>2. generation' \in Generations
  BY <1>1 DEF Reload, Generations, EventsAssumption
<1>3. Stacked(stack')
  BY StackFacts DEF Reload
<1>4. QED
  BY <1>1, <1>2, <1>3, StackOnly DEF Reload

LEMMA OnStep ==
  ASSUME IInv, NEW g \in Generations, NEW ev \in Events, NEW f \in Fns, On(g, ev, f)
  PROVE  IInv'
<1> DEFINE id == Len(tokens) + 1
           e  == Entry(f, FALSE, id)
<1>1. Given = 1..Len(tokens) /\ Len(tokens) \in Nat
  BY TokensTyped DEF IInv
<1>2. /\ Len(tokens) < MaxTokens /\ Push(g, ev, e)
      /\ tokenOf' = [tokenOf EXCEPT ![f] = Len(tokens')] /\ added' = [added EXCEPT ![f] = @ + 1]
      /\ UNCHANGED <<generation, loaded, stack, cancelled, completed>>
  BY DEF On
<1>3. e.fn = f /\ e.once = FALSE /\ e.id = id /\ e \in Listener
  BY <1>1, <1>2 DEF Entry, Listener, TokenIds, EventsAssumption
<1>4. Len(tokens') = id /\ Given' = 1..id
  <2> DEFINE R == [g : Generations, ev : Events]
  <2>1. tokens \in Seq(R) /\ [g |-> g, ev |-> ev] \in R
    BY DEF IInv, TypeOK
  <2> HIDE DEF R
  <2>2. QED
    BY <1>2, <2>1, AppendFacts DEF Push, Given
<1>5. tokenOf \in [Fns -> {0} \cup Given] /\ added \in [Fns -> Nat]
  BY DEF IInv, TypeOK
<1> HIDE DEF e
<1>6. /\ \A h \in Fns : tokenOf'[h] = IF h = f THEN id ELSE tokenOf[h]
      /\ \A h \in Fns : added'[h] = IF h = f THEN added[f] + 1 ELSE added[h]
  BY <1>2, <1>4, <1>5
<1>7. \A h \in Fns : tokenOf[h] # id /\ tokenOf[h] \in {0} \cup Given /\ added[h] \in Nat
  BY <1>1, <1>5
<1>8. Fitted(e)
  <2>1. \A h \in Fns : tokenOf'[h] = id => h = f
    BY <1>6, <1>7
  <2>2. added'[f] >= 1 /\ tokenOf'[f] = id
    BY <1>6, <1>7
  <2>3. QED
    BY <1>3, <2>1, <2>2 DEF Fitted
<1>9. ASSUME NEW x \in Listener, x.id \in Given, Fits(x) PROVE Fitted(x)
  <2>1. x.id # id /\ x.fn \in Fns
    BY <1>1, <1>9 DEF Listener
  <2>2. \A h \in Fns : tokenOf'[h] = x.id => tokenOf[h] = x.id
    BY <1>6, <2>1
  <2>3. \A h \in Fns : tokenOf'[h] = x.id => ~x.once /\ x.fn = h
    BY <1>9, <2>2 DEF Fits
  <2>4. ASSUME ~x.once PROVE added'[x.fn] >= 1 /\ (added'[x.fn] = 1 => tokenOf'[x.fn] = x.id)
    <3>1. added[x.fn] >= 1 /\ (added[x.fn] = 1 => tokenOf[x.fn] = x.id)
      BY <1>9, <2>4 DEF Fits
    <3>2. CASE x.fn = f
      <4>1. added'[x.fn] = added[x.fn] + 1 /\ added[x.fn] \in Nat
        BY <1>6, <1>7, <2>1, <3>2
      <4>2. added'[x.fn] >= 1 /\ added'[x.fn] # 1
        BY <3>1, <4>1
      <4>3. QED
        BY <4>2
    <3>3. CASE x.fn # f
      BY <1>6, <2>1, <3>1, <3>3
    <3>4. QED
      BY <3>2, <3>3
  <2>5. QED
    BY <2>3, <2>4 DEF Fitted
<1>10. tokenOf' \in [Fns -> {0} \cup Given'] /\ added' \in [Fns -> Nat] /\ \A h \in Fns : added'[h] >= added[h]
  <2>1. Given \subseteq Given' /\ id \in Given'
    BY <1>1, <1>4
  <2>2. tokenOf' \in [Fns -> {0} \cup Given']
    BY <1>2, <1>4, <1>5, <2>1
  <2>3. added' \in [Fns -> Nat]
    BY <1>2, <1>5, <1>7
  <2>4. \A h \in Fns : added'[h] >= added[h]
    BY <1>6, <1>7
  <2>5. QED
    BY <2>2, <2>3, <2>4
<1>11. QED
  BY <1>2, <1>3, <1>8, <1>9, <1>10, Registration

LEMMA OnceStep ==
  ASSUME IInv, NEW g \in Generations, NEW ev \in Events, NEW f \in Fns, Once(g, ev, f)
  PROVE  IInv'
<1> DEFINE id == Len(tokens) + 1
           e  == Entry(f, TRUE, id)
<1>1. Given = 1..Len(tokens) /\ Len(tokens) \in Nat
  BY TokensTyped DEF IInv
<1>2. /\ Len(tokens) < MaxTokens /\ Push(g, ev, e) /\ tokenOf' = tokenOf /\ added' = added
      /\ UNCHANGED <<generation, loaded, stack, cancelled, completed>>
  BY DEF Once
<1>3. e.fn = f /\ e.once = TRUE /\ e.id = id /\ e \in Listener
  BY <1>1, <1>2 DEF Entry, Listener, TokenIds, EventsAssumption
<1>4. Given' = 1..id
  <2> DEFINE R == [g : Generations, ev : Events]
  <2>1. tokens \in Seq(R) /\ [g |-> g, ev |-> ev] \in R
    BY DEF IInv, TypeOK
  <2> HIDE DEF R
  <2>2. QED
    BY <1>2, <2>1, AppendFacts DEF Push, Given
<1>5. tokenOf \in [Fns -> {0} \cup Given] /\ added \in [Fns -> Nat]
  BY DEF IInv, TypeOK
<1> HIDE DEF e
<1>6. Fitted(e)
  BY <1>1, <1>2, <1>3, <1>5 DEF Fitted
<1>7. \A x \in Listener : Fits(x) => Fitted(x)
  BY <1>2 DEF Fits, Fitted
<1>8. tokenOf' \in [Fns -> {0} \cup Given'] /\ added' \in [Fns -> Nat] /\ \A h \in Fns : added'[h] >= added[h]
  <2>1. Given \subseteq Given'
    BY <1>1, <1>4
  <2>2. QED
    BY <1>2, <1>5, <2>1
<1>9. QED
  BY <1>2, <1>3, <1>6, <1>7, <1>8, Registration

LEMMA Unwound ==
  ASSUME IInv, stack # << >>, Unwind
  PROVE  Stacked(stack')
<1>1. PICK n \in 0..(Len(stack) - 1) : stack' = SubSeq(stack, 1, n)
  BY DEF Unwind
<1>2. Stacked(SubSeq(stack, 1, n))
  BY StackFacts, StackLeft
<1>3. QED
  BY <1>1, <1>2

LEMMA OnceFirstStep ==
  ASSUME IInv, NEW g \in Generations, NEW ev \in Events, OnceFirst(g, ev)
  PROVE  IInv'
<1>1. generation \in Generations /\ loaded \in Seq(Generations) /\ made \subseteq Generations \X Events
  BY DEF IInv, TypeOK
<1>2. made' \subseteq Generations \X Events
  BY <1>1 DEF OnceFirst
<1>3. Stacked(stack')
  <2>1. stack' = stack \/ (stack # << >> /\ Unwind)
    BY DEF OnceFirst
  <2>2. QED
    BY <2>1, StackFacts, Unwound
<1>4. QED
  BY <1>1, <1>2, <1>3, StackOnly DEF OnceFirst

LEMMA ThrowStep ==
  ASSUME IInv, Throw
  PROVE  IInv'
<1>1. generation \in Generations /\ loaded \in Seq(Generations) /\ made \subseteq Generations \X Events
  BY DEF IInv, TypeOK
<1>2. Stacked(stack')
  BY Unwound DEF Throw, TopIs
<1>3. QED
  BY <1>1, <1>2, StackOnly DEF Throw

LEMMA EmitStep ==
  ASSUME IInv, NEW g \in Generations, NEW ev \in Events, Emit(g, ev)
  PROVE  IInv'
<1>1. generation \in Generations /\ loaded \in Seq(Generations) /\ made \subseteq Generations \X Events
  BY DEF IInv, TypeOK
<1>2. Stacked(stack')
  BY StackFacts, InvokeStacked DEF Emit
<1>3. QED
  BY <1>1, <1>2, StackOnly DEF Emit

\* A frame that only waits holds nothing to be kept.
LEMMA BukkitFrame ==
  ASSUME NEW ev \in BukkitEvents, NEW gs \in Seq(Generations)
  PROVE  Bukkit(ev, gs) \in Frames /\ FrameOK(Bukkit(ev, gs))
BY DEF Bukkit, Frames, FrameOK, Known

LEMMA FireStep ==
  ASSUME IInv, NEW ev \in BukkitEvents, Fire(ev)
  PROVE  IInv'
<1>1. generation \in Generations /\ loaded \in Seq(Generations) /\ made \subseteq Generations \X Events
  BY DEF IInv, TypeOK
<1>2. Stacked(stack')
  BY <1>1, StackFacts, BukkitFrame, StackGrows DEF Fire
<1>3. QED
  BY <1>1, <1>2, StackOnly DEF Fire

LEMMA StepBukkitStep ==
  ASSUME IInv, StepBukkit
  PROVE  IInv'
<1>1. generation \in Generations /\ loaded \in Seq(Generations) /\ made \subseteq Generations \X Events
  BY DEF IInv, TypeOK
<1>2. stack # << >> /\ Top.k = "bukkit" /\ Stacked(stack) /\ Top \in Frames
  BY StackFacts DEF StepBukkit, TopIs
<1>3. Stacked(Below)
  BY <1>2, StackLeft DEF Below
<1>4. Stacked(stack')
  <2>1. CASE Top.left = << >>
    BY <1>3, <2>1 DEF StepBukkit
  <2>2. CASE Top.left # << >>
    <3> DEFINE f == [Top EXCEPT !.left = Tail(@)]
    <3>1. stack' = Invoked(Append(Below, f), Head(Top.left), Top.ev)
      BY <2>2 DEF StepBukkit
    <3>2. Top \in [k : {"bukkit"}, ev : BukkitEvents, left : Seq(Generations)]
      BY <1>2, FrameKinds
    <3>3. Tail(Top.left) \in Seq(Generations) /\ Head(Top.left) \in Generations /\ Top.ev \in BukkitEvents
      BY <2>2, <3>2
    <3>4. f = Bukkit(Top.ev, Tail(Top.left))
      <4> DEFINE x == Top
      <4> HIDE DEF x
      <4>1. x \in [k : {"bukkit"}, ev : BukkitEvents, left : Seq(Generations)]
        BY <3>2 DEF x
      <4>2. [x EXCEPT !.left = Tail(@)] = [x EXCEPT !.left = Tail(x.left)]
        BY <4>1
      <4> DEFINE y == Tail(x.left)
      <4>3. y \in Seq(Generations)
        BY <3>3 DEF x
      <4> HIDE DEF y
      <4>4. [x EXCEPT !.left = y] = [k |-> "bukkit", ev |-> x.ev, left |-> y]
        BY <4>1, <4>3
      <4>5. QED
        BY <4>2, <4>4 DEF Bukkit, x, y
    <3>5. f \in Frames /\ FrameOK(f)
      BY <3>3, <3>4, BukkitFrame
    <3> HIDE DEF f
    <3>6. Stacked(Append(Below, f))
      BY <1>3, <3>5, StackGrows
    <3>7. Top.ev \in Events
      BY <3>3 DEF EventsAssumption
    <3>8. QED
      BY <3>1, <3>3, <3>6, <3>7, InvokeStacked
  <2>3. QED
    BY <2>1, <2>2
<1>5. QED
  BY <1>1, <1>4, StackOnly DEF StepBukkit

LEMMA StepEachStep ==
  ASSUME IInv, StepEach
  PROVE  IInv'
<1>1. generation \in Generations /\ loaded \in Seq(Generations) /\ made \subseteq Generations \X Events
  BY DEF IInv, TypeOK
<1> DEFINE f  == Top
           es == callbacks[f.g][f.ev]
           e  == es[f.i]
           h  == [f EXCEPT !.i = @ + 1, !.seen = @ \cup {e.id}]
           r  == Run(IF e.once THEN e.id ELSE 0)
<1>2. stack # << >> /\ f.k = "each" /\ Stacked(stack) /\ f \in Frames /\ FrameOK(f)
  BY StackFacts DEF StepEach, TopIs
<1>3. Stacked(Below)
  BY <1>2, StackLeft DEF Below
<1>4. /\ f.i > f.n \/ f.i > Len(es) => stack' = Below
      /\ ~(f.i > f.n \/ f.i > Len(es)) => stack' = Below \o <<h, r>>
  BY DEF StepEach
<1> HIDE DEF f
<1>5. f \in EachFrames /\ f.g \in Generations /\ f.ev \in Events /\ f.i \in Nat /\ f.n \in Nat
  BY <1>2, FrameKinds DEF EachFrames
<1>6. /\ es \in Seq(Listener) /\ DOMAIN es = 1..Len(es) /\ Len(es) \in Nat
      /\ \A j \in DOMAIN es : es[j] \in Listener
      /\ Rising(es) /\ \A j \in DOMAIN es : es[j].id \in Given
  BY <1>5, ArraysTyped DEF IInv, Placed, Ordered
<1>7. Known(f) /\ Looping(f, es)
  BY <1>2 DEF FrameOK
<1>8. Stacked(stack')
  <2>1. CASE f.i > f.n \/ f.i > Len(es)
    BY <1>3, <1>4, <2>1
  <2>2. CASE ~(f.i > f.n \/ f.i > Len(es))
    <3>1. f.i <= f.n /\ f.i <= Len(es) /\ f.i \in DOMAIN es
      BY <1>5, <1>6, <1>7, <2>2 DEF Looping
    <3>2. e \in Listener /\ e.id \in Given /\ e.id \in TokenIds
      BY <1>6, <3>1, TokensTyped DEF IInv
    <3> HIDE DEF es
    <3>3. Looping(h, es)
      BY <1>5, <1>6, <1>7, <3>1, LoopGoesOn
    <3>4. /\ h \in EachFrames /\ h.k = f.k /\ h.g = f.g /\ h.ev = f.ev /\ h.start = f.start
          /\ h.seen = f.seen \cup {e.id}
      BY <1>5, <3>2, FrameMoves
    <3> HIDE DEF e, h
    <3>5. Known(h)
      BY <1>2, <1>7, <3>2, <3>4 DEF Known
    <3>6. h \in Frames /\ FrameOK(h)
      BY <1>2, <3>3, <3>4, <3>5 DEF FrameOK, Frames, EachFrames, es
    <3>7. r \in Frames /\ FrameOK(r)
      BY <3>2 DEF Run, Frames, FrameOK, Known
    <3> HIDE DEF r
    <3>8. Stacked(Below \o <<h, r>>)
      BY <1>3, <3>6, <3>7, StackGrows
    <3>9. stack' = Below \o <<h, r>>
      BY <1>4, <2>2 DEF h, es, e
    <3>10. QED
      BY <3>8, <3>9
  <2>3. QED
    BY <2>1, <2>2
<1>9. QED
  BY <1>1, <1>8, StackOnly DEF StepEach

LEMMA CancelStep ==
  ASSUME IInv, NEW t \in Given, Cancel(t)
  PROVE  IInv'
<1>1. Stacked(stack)
  BY StackFacts
<1>2. QED
  BY <1>1, Removing DEF Cancel

LEMMA ReturnStep ==
  ASSUME IInv, Return
  PROVE  IInv'
<1>1. generation \in Generations /\ loaded \in Seq(Generations) /\ made \subseteq Generations \X Events
  BY DEF IInv, TypeOK
<1>2. stack # << >> /\ Top.k = "fn" /\ Stacked(stack) /\ FrameOK(Top)
  BY StackFacts DEF Return, TopIs
<1>3. Stacked(Below)
  BY <1>2, StackLeft DEF Below
<1>4. Top.done \in {0} \cup Given
  BY <1>2 DEF FrameOK, Known
<1>5. CASE Top.done = 0
  BY <1>1, <1>3, <1>5, StackOnly DEF Return
<1>6. CASE Top.done # 0
  <2>1. Top.done \in Given
    BY <1>4, <1>6
  <2>2. /\ callbacks' = Unregistered(Top.done) /\ stack' = Noticed(Below, Top.done)
        /\ completed' = completed \cup {Top.done}
        /\ UNCHANGED <<generation, loaded, made, tokens, tokenOf, cancelled, added>>
    BY <1>6 DEF Return
  <2> DEFINE t == Top.done
             s == Below
  <2> HIDE DEF t, s
  <2>3. t \in Given /\ Stacked(s) /\ callbacks' = Unregistered(t) /\ stack' = Noticed(s, t)
        /\ completed' \subseteq completed \cup {t} /\ cancelled' = cancelled
    BY <1>3, <2>1, <2>2 DEF t, s
  <2>4. QED
    BY <2>2, <2>3, Removing
<1>7. QED
  BY <1>5, <1>6

LEMMA NextKeeps == IInv /\ [Next]_vars => IInv'
<1> SUFFICES ASSUME IInv, [Next]_vars PROVE IInv'
  OBVIOUS
<1>1. \A g \in ToSet(loaded) : g \in Generations
  BY DEF IInv, TypeOK, ToSet
<1>2. CASE LoadLibrary
  BY <1>2, LoadLibraryStep
<1>3. CASE Reload
  BY <1>3, ReloadStep
<1>4. ASSUME NEW g \in ToSet(loaded), NEW ev \in Events, NEW f \in Fns, On(g, ev, f) \/ Once(g, ev, f)
      PROVE  IInv'
  BY <1>1, <1>4, OnStep, OnceStep
<1>5. ASSUME NEW g \in ToSet(loaded), NEW ev \in Events, OnceFirst(g, ev) \/ Emit(g, ev)
      PROVE  IInv'
  BY <1>1, <1>5, OnceFirstStep, EmitStep
<1>6. ASSUME NEW t \in Given, Cancel(t) PROVE IInv'
  BY <1>6, CancelStep
<1>7. ASSUME NEW ev \in BukkitEvents, Fire(ev) PROVE IInv'
  BY <1>7, FireStep
<1>8. CASE StepBukkit
  BY <1>8, StepBukkitStep
<1>9. CASE StepEach
  BY <1>9, StepEachStep
<1>10. CASE Return
  BY <1>10, ReturnStep
<1>11. CASE Throw
  BY <1>11, ThrowStep
<1>12. CASE UNCHANGED vars
  <2>1. generation \in Generations /\ loaded \in Seq(Generations) /\ made \subseteq Generations \X Events
    BY DEF IInv, TypeOK
  <2>2. QED
    BY <1>12, <2>1, StackFacts, StackOnly DEF vars
<1>13. QED
  BY <1>2, <1>3, <1>4, <1>5, <1>6, <1>7, <1>8, <1>9, <1>10, <1>11, <1>12 DEF Next

-----------------------------------------------------------------------------
(* The theorems.                                                           *)

THEOREM Inductive == Spec => []IInv
<1>1. Init => IInv
  BY InitSound
<1>2. IInv /\ [Next]_vars => IInv'
  BY NextKeeps
<1>3. QED
  BY <1>1, <1>2, PTL DEF Spec

\* The state of the emitters is what events.js keeps in it: callbacks[event] is an array of
\* functions each of which has a token of this context, and the calls in progress are those
\* the emitter and Bukkit make.
THEOREM TypesHold == Spec => []TypeOK
<1>1. IInv => TypeOK
  BY DEF IInv
<1>2. QED
  BY <1>1, Inductive, PTL

\* cancel() and the return of a once() listener take the registration out of its array,
\* whichever loops run over it, unless the function was given to on() more than once
\* (events.js:297-341).
THEOREM EndedRegistrationsAreGone == Spec => []EndedIsGone
<1>1. IInv => EndedIsGone
  BY DEF IInv
<1>2. QED
  BY <1>1, Inductive, PTL

\* invoke() over the live array (events.js:343-351) calls no registration twice, and misses or
\* adds no more of them than were removed while it ran, however many loops run at a time and
\* whatever their listeners do.
THEOREM EveryListenerIsCalled == Spec => []EachIsCalled
<1>1. IInv => EachIsCalled
  <2> SUFFICES ASSUME IInv, NEW f \in Loops
               PROVE  LET es == callbacks[f.g][f.ev]
                          ahead == {es[p].id : p \in {q \in DOMAIN es : f.i <= q /\ q <= f.n}}
                      IN /\ \A p \in f.i..Len(es) : es[p].id \notin f.seen
                         /\ Cardinality(f.seen) <= f.n
                         /\ Cardinality((f.start \ f.seen) \ ahead) <= f.cut
                         /\ Cardinality(f.seen \ f.start) <= f.cut
    BY DEF EachIsCalled
  <2>1. PICK j \in DOMAIN stack : f = stack[j] /\ f.k = "each"
    BY DEF Loops
  <2>2. f \in Frames /\ FrameOK(f)
    <3>1. stack \in Seq(Frames) /\ FrameOK(stack[j])
      BY DEF IInv, TypeOK
    <3>2. QED
      BY <2>1, <3>1
  <2>3. f \in EachFrames /\ f.g \in Generations /\ f.ev \in Events /\ Looping(f, callbacks[f.g][f.ev])
    BY <2>1, <2>2, FrameKinds DEF FrameOK, EachFrames
  <2> DEFINE es == callbacks[f.g][f.ev]
  <2>4. es \in Seq(Listener) /\ Looping(f, es)
    BY <2>3, ArraysTyped DEF IInv
  <2> HIDE DEF es
  <2>5. /\ \A p \in f.i..Len(es) : es[p].id \notin f.seen
        /\ Cardinality(f.seen) <= f.n
        /\ Cardinality((f.start \ f.seen) \ Window(f, es)) <= f.cut
        /\ Cardinality(f.seen \ f.start) <= f.cut
    BY <2>3, <2>4, LoopCalled
  <2>6. QED
    BY <2>5 DEF Window, es
<1>2. QED
  BY <1>1, Inductive, PTL
=============================================================================
