-------------------------- MODULE EventEmitterProofs --------------------------
(***************************************************************************)
(* What every method of EmitterOps preserves, for any set of listeners: an *)
(* array holds at least two of them, and _eventsCount is accounted for.    *)
(* With that, the EventEmitter keeps its table well shaped whatever its    *)
(* listeners do while it is at work, and a handler added with once() runs  *)
(* at most once.                                                           *)
(***************************************************************************)
EXTENDS EventEmitter, FiniteSetTheorems, SequenceTheorems, WellFoundedInduction,
        NaturalsInduction, TLAPS

\* The types with an entry are finitely many, no more than all of them.
LEMMA KeysFinite ==
  ASSUME NEW tbl
  PROVE  /\ IsFiniteSet(Keys(tbl))
         /\ Cardinality(Keys(tbl)) \in Nat
         /\ Cardinality(Types) \in Nat
         /\ Cardinality(Keys(tbl)) <= Cardinality(Types)
<1>1. Keys(tbl) \in SUBSET Types
  BY DEF Keys
<1>2. QED
  BY <1>1, TypesAssumption, FS_Subset, FS_CardinalityType

\* A fresh table and a fresh emitter are empty and balanced.
LEMMA WipedSound ==
  ASSUME NEW E
  PROVE  /\ Wiped \in EmitterType(E) /\ Shaped(Wiped) /\ Accounted(Wiped)
         /\ NewEmitter \in EmitterType(E) /\ Shaped(NewEmitter) /\ Accounted(NewEmitter)
<1>1. Empty \in SlotType(E) /\ Len(Empty.list) = 0 /\ Empty.kind = "none"
  BY EmptySeq DEF Empty, SlotType
<1>2. Keys(Wiped) = {} /\ Keys(NewEmitter) = {}
  BY <1>1 DEF Keys, Has, Wiped, NewEmitter
<1>A. NewEmitter \in EmitterType(E) /\ NewEmitter.count = 0 /\ NewEmitter.drift = 0
  BY <1>1 DEF EmitterType, NewEmitter
<1>B. Wiped \in EmitterType(E) /\ Wiped.count = 0 /\ Wiped.drift = 0
  BY <1>A DEF EmitterType, Wiped
<1>3. Accounted(Wiped) /\ Accounted(NewEmitter)
  <2>1. Cardinality(Keys(Wiped)) = 0 /\ Cardinality(Keys(NewEmitter)) = 0
    BY <1>2, FS_EmptySet
  <2>2. QED
    BY <2>1, <1>A, <1>B DEF Accounted
<1>4. Shaped(Wiped) /\ Shaped(NewEmitter)
  BY <1>1, SMTT(60) DEF Shaped, SlotShaped, Wiped, NewEmitter
<1>5. QED
  BY <1>A, <1>B, <1>3, <1>4

\* Every non-empty set of positions of a sequence has a last one.
LEMMA LastExists ==
  ASSUME NEW n \in Nat, NEW P \in SUBSET (1..n), P # {}
  PROVE  \E i \in P : \A j \in P : j <= i
<1> DEFINE T == {n - i : i \in P}
<1>1. T \subseteq Nat /\ T # {}
  <2>1. \A i \in P : n - i \in Nat
    OBVIOUS
  <2>2. QED
    BY <2>1
<1> DEFINE R == OpToRel(<, Nat)
<1>2. \E x \in T : \A y \in T : ~ (<<y, x>> \in R)
  <2>1. IsWellFoundedOn(R, Nat)
    BY NatLessThanWellFounded
  <2> HIDE DEF T, R
  <2>2. QED
    BY <1>1, <2>1, WFMin
<1>3. PICK i \in P : \A y \in T : ~ (<<y, n - i>> \in R)
  BY <1>2
<1>4. \A j \in P : ~(n - j < n - i)
  BY <1>1, <1>3 DEF OpToRel
<1>5. QED
  BY <1>4

\* The position removeListener picks is one of the list's, when there is one.
LEMMA LastPositionExists ==
  ASSUME NEW E, NEW tbl \in EmitterType(E), NEW t \in Types, NEW l,
         Positions(tbl, t, l) # {}
  PROVE  /\ LastPosition(tbl, t, l) \in Positions(tbl, t, l)
         /\ LastPosition(tbl, t, l) \in 1..Len(tbl.slot[t].list)
<1>1. tbl.slot[t].list \in Seq(E)
  BY DEF EmitterType, SlotType
<1>2. /\ Len(tbl.slot[t].list) \in Nat
      /\ Positions(tbl, t, l) \in SUBSET (1..Len(tbl.slot[t].list))
  BY <1>1, LenProperties DEF Positions
<1>3. \E i \in Positions(tbl, t, l) : \A j \in Positions(tbl, t, l) : j <= i
  BY <1>2, LastExists
<1>4. LastPosition(tbl, t, l) \in Positions(tbl, t, l)
  BY <1>3 DEF LastPosition
<1>5. QED
  BY <1>2, <1>4

\* Two listeners or more make a well-shaped array.
LEMMA ArrSound ==
  ASSUME NEW E, NEW es \in Seq(E), Len(es) \in Nat, Len(es) > 1
  PROVE  Arr(es) \in SlotType(E) /\ SlotShaped(Arr(es)) /\ Arr(es).kind # "none"
<1>1. Arr(es) \in SlotType(E)
  BY DEF Arr, SlotType
<1>2. Arr(es).kind = "list" /\ Arr(es).list = es
  BY DEF Arr
<1>3. Len(Arr(es).list) # 0 /\ Len(Arr(es).list) # 1
  <2> DEFINE n == Len(es)
  <2>1. n # 0 /\ n # 1
    <3>1. n \in Nat /\ n > 1
      OBVIOUS
    <3> HIDE DEF n
    <3>2. QED
      BY <3>1
  <2>2. QED
    BY <1>2, <2>1
<1>4. Arr(es).kind # "none" /\ Arr(es).kind # "fn"
  BY <1>2
<1>5. QED
  BY <1>1, <1>3, <1>4 DEF SlotShaped

\* A list without one of its entries is still one entry as a function or
\* several as an array, if there were several before.
LEMMA WithoutEntrySound ==
  ASSUME NEW E, NEW es \in Seq(E), NEW i \in 1..Len(es), Len(es) >= 2
  PROVE  LET s == WithoutEntry(es, i)
         IN  s \in SlotType(E) /\ SlotShaped(s) /\ s.kind # "none"
<1> DEFINE rest == RemoveAt(es, i)
<1>1. rest \in Seq(E) /\ Len(rest) = Len(es) - 1
  <2> DEFINE front == SubSeq(es, 1, i-1)
             back  == SubSeq(es, i+1, Len(es))
  <2>1. front \in Seq(E) /\ Len(front) = i - 1
    BY LenProperties, SubSeqProperties
  <2>2. back \in Seq(E) /\ Len(back) = Len(es) - i
    BY LenProperties, SubSeqProperties
  <2>3. rest = front \o back
    BY DEF RemoveAt
  <2>4. Len(es) \in Nat /\ i \in Nat
    BY LenProperties
  <2> HIDE DEF front, back, rest
  <2>5. front \o back \in Seq(E) /\ Len(front \o back) = Len(front) + Len(back)
    BY <2>1, <2>2, ConcatProperties
  <2>6. QED
    BY <2>1, <2>2, <2>3, <2>4, <2>5
<1>2. Len(es) \in Nat
  BY LenProperties
<1> HIDE DEF rest
<1>3. CASE Len(rest) = 1
  <2>1. rest[1] \in E
    BY <1>1, <1>3, ElementOfSeq
  <2>2. <<rest[1]>> \in Seq(E) /\ Len(<<rest[1]>>) = 1
    BY <2>1
  <2>3. QED
    BY <1>3, <2>2 DEF WithoutEntry, Fn, SlotType, SlotShaped, rest
<1>4. CASE Len(rest) # 1
  <2>1. WithoutEntry(es, i) = Arr(rest)
    BY <1>4 DEF WithoutEntry, rest
  <2>2. Len(rest) \in Nat /\ Len(rest) > 1
    BY <1>1, <1>2, <1>4
  <2>3. QED
    BY <1>1, <2>1, <2>2, ArrSound
<1>5. QED
  BY <1>3, <1>4

\* A table in which one entry is set and the count adjusted for it.
LEMMA PutSound ==
  ASSUME NEW E, NEW tbl \in EmitterType(E), Shaped(tbl), Accounted(tbl),
         NEW t \in Types, NEW s \in SlotType(E), SlotShaped(s), NEW n \in Int,
         n = tbl.count + (IF s.kind # "none" THEN 1 ELSE 0) - (IF Has(tbl, t) THEN 1 ELSE 0)
  PROVE  LET new == Put(tbl, t, s, n)
         IN  new \in EmitterType(E) /\ Shaped(new) /\ Accounted(new)
<1> DEFINE new == Put(tbl, t, s, n)
<1>1. /\ new.slot = [tbl.slot EXCEPT ![t] = s]
      /\ new.count = n /\ new.drift = tbl.drift /\ new.present = tbl.present
  BY DEF Put, EmitterType
<1>2. new \in EmitterType(E)
  BY DEF Put, EmitterType
<1> HIDE DEF new
<1>3. tbl.slot \in [Types -> SlotType(E)] /\ tbl.count \in Int /\ tbl.drift \in Nat
  BY DEF EmitterType
<1>4. Shaped(new)
  BY <1>1, <1>3 DEF Shaped
<1>5. Keys(new) = IF s.kind # "none" THEN Keys(tbl) \cup {t} ELSE Keys(tbl) \ {t}
  BY <1>1, <1>3 DEF Keys, Has
<1>6. t \in Keys(tbl) <=> Has(tbl, t)
  BY DEF Keys
<1>7. Cardinality(Keys(new)) = Cardinality(Keys(tbl)) + (n - tbl.count)
  <2>1. /\ Cardinality(Keys(tbl) \cup {t}) =
             IF t \in Keys(tbl) THEN Cardinality(Keys(tbl)) ELSE Cardinality(Keys(tbl)) + 1
        /\ Cardinality(Keys(tbl) \ {t}) =
             IF t \in Keys(tbl) THEN Cardinality(Keys(tbl)) - 1 ELSE Cardinality(Keys(tbl))
    BY KeysFinite, FS_AddElement, FS_RemoveElement
  <2>2. Cardinality(Keys(tbl)) \in Nat
    BY KeysFinite
  <2> HIDE DEF Keys
  <2>3. CASE s.kind # "none" /\ t \in Keys(tbl)
    BY <2>1, <2>2, <2>3, <1>3, <1>5, <1>6
  <2>4. CASE s.kind # "none" /\ t \notin Keys(tbl)
    BY <2>1, <2>2, <2>4, <1>3, <1>5, <1>6
  <2>5. CASE s.kind = "none" /\ t \in Keys(tbl)
    BY <2>1, <2>2, <2>5, <1>3, <1>5, <1>6
  <2>6. CASE s.kind = "none" /\ t \notin Keys(tbl)
    BY <2>1, <2>2, <2>6, <1>3, <1>5, <1>6
  <2>7. QED
    BY <2>3, <2>4, <2>5, <2>6
<1>8. Accounted(new)
  BY <1>1, <1>3, <1>7, KeysFinite DEF Accounted
<1>9. QED
  BY <1>2, <1>4, <1>8 DEF new

-----------------------------------------------------------------------------
(* The methods *)

\* _addListener keeps the shape and counts a type when it gets its first
\* listener.
LEMMA AddListenerSound ==
  ASSUME NEW E, NEW tbl \in EmitterType(E), Shaped(tbl), Accounted(tbl),
         NEW t \in Types, NEW e \in E, NEW prepend \in BOOLEAN
  PROVE  LET new == AddListener(tbl, t, e, prepend)
         IN  new \in EmitterType(E) /\ Shaped(new) /\ Accounted(new)
<1> DEFINE base == IF tbl.present THEN tbl ELSE Wiped
           new  == AddListener(tbl, t, e, prepend)
           old  == base.slot[t].list
           more == IF prepend THEN <<e>> \o old ELSE Append(old, e)
<1>1. base \in EmitterType(E) /\ Shaped(base) /\ Accounted(base)
  BY WipedSound
<1>2. old \in Seq(E) /\ Len(old) \in Nat
  BY <1>1 DEF EmitterType, SlotType
<1>3. ASSUME Has(base, t)
      PROVE  Arr(more) \in SlotType(E) /\ SlotShaped(Arr(more)) /\ Arr(more).kind # "none"
  <2>1. Len(old) > 0
    <3>1. SlotShaped(base.slot[t])
      BY <1>1 DEF Shaped
    <3>2. QED
      BY <1>2, <1>3, <3>1 DEF Has, SlotShaped
  <2>2. more \in Seq(E) /\ Len(more) = Len(old) + 1
    BY <1>2, AppendProperties, ConcatProperties
  <2> HIDE DEF old, more
  <2>3. QED
    BY <1>2, <2>1, <2>2, ArrSound
<1>4. Fn(e) \in SlotType(E) /\ SlotShaped(Fn(e)) /\ Fn(e).kind = "fn"
  BY DEF Fn, SlotType, SlotShaped
<1>5. base.count \in Int
  BY <1>1 DEF EmitterType
<1>6. new = IF Has(base, t) THEN Put(base, t, Arr(more), base.count)
                            ELSE Put(base, t, Fn(e), base.count + 1)
  BY DEF AddListener
<1> HIDE DEF base, new, old, more
<1>7. CASE Has(base, t)
  BY <1>1, <1>3, <1>5, <1>6, <1>7, PutSound DEF new
<1>8. CASE ~Has(base, t)
  BY <1>1, <1>4, <1>5, <1>6, <1>8, PutSound DEF new
<1>9. QED
  BY <1>7, <1>8

\* removeListener keeps the shape; it uncounts a type with its last listener.
LEMMA RemoveListenerSound ==
  ASSUME NEW E, NEW tbl \in EmitterType(E), Shaped(tbl), Accounted(tbl),
         NEW t \in Types, NEW l
  PROVE  LET new == RemoveListener(tbl, t, l)
         IN  new \in EmitterType(E) /\ Shaped(new) /\ Accounted(new)
<1> DEFINE new == RemoveListener(tbl, t, l)
           es  == tbl.slot[t].list
           i   == LastPosition(tbl, t, l)
<1>1. CASE ~tbl.present \/ Positions(tbl, t, l) = {}
  BY <1>1 DEF RemoveListener
<1>2. CASE tbl.present /\ Positions(tbl, t, l) # {}
  <2>1. es \in Seq(E) /\ Len(es) \in Nat /\ tbl.count \in Int
    BY DEF EmitterType, SlotType
  <2>2. i \in 1..Len(es)
    BY <1>2, LastPositionExists
  <2>3. Has(tbl, t)
    BY <2>1, <2>2 DEF Shaped, SlotShaped, Has
  <2>4. CASE tbl.slot[t].kind = "fn" /\ tbl.count = 1
    BY <1>2, <2>4, WipedSound DEF RemoveListener
  <2>5. CASE tbl.slot[t].kind = "fn" /\ tbl.count # 1
    <3>1. Empty \in SlotType(E) /\ SlotShaped(Empty) /\ Empty.kind = "none"
      BY EmptySeq DEF Empty, SlotType, SlotShaped
    <3>2. new = Put(tbl, t, Empty, tbl.count - 1)
      BY <1>2, <2>5 DEF RemoveListener
    <3> HIDE DEF new
    <3>3. QED
      BY <2>1, <2>3, <3>1, <3>2, PutSound DEF new
  <2>6. CASE tbl.slot[t].kind # "fn"
    <3>1. Len(es) >= 2
      <4>1. SlotShaped(tbl.slot[t])
        BY DEF Shaped
      <4>2. Len(es) # 0 /\ Len(es) # 1
        BY <2>3, <2>6, <4>1 DEF SlotShaped, Has
      <4> DEFINE n == Len(es)
      <4>3. n \in Nat /\ n # 0 /\ n # 1
        BY <2>1, <4>2
      <4> HIDE DEF n
      <4>4. n >= 2
        BY <4>3
      <4>5. QED
        BY <4>4 DEF n
    <3>2. new = Put(tbl, t, WithoutEntry(es, i), tbl.count)
      BY <1>2, <2>6 DEF RemoveListener
    <3> HIDE DEF new, es, i
    <3>3. LET s == WithoutEntry(es, i)
          IN  s \in SlotType(E) /\ SlotShaped(s) /\ s.kind # "none"
      BY <2>1, <2>2, <3>1, WithoutEntrySound
    <3>4. QED
      BY <2>1, <2>3, <3>2, <3>3, PutSound DEF new
  <2>7. QED
    BY <2>4, <2>5, <2>6
<1>3. QED
  BY <1>1, <1>2

\* removeAllListeners(t) of a type without an entry is what the drift counts.
LEMMA ClearUnwatchedSound ==
  ASSUME NEW E, NEW tbl \in EmitterType(E), Shaped(tbl), Accounted(tbl), NEW t \in Types
  PROVE  LET new == ClearUnwatched(tbl, t)
         IN  new \in EmitterType(E) /\ Shaped(new) /\ Accounted(new)
<1> DEFINE new == [tbl EXCEPT !.count = @ - 1, !.drift = @ + 1]
<1>0. tbl.count \in Int /\ tbl.drift \in Nat
  BY DEF EmitterType
<1>1. /\ new \in EmitterType(E)
      /\ new.slot = tbl.slot /\ new.count = tbl.count - 1 /\ new.drift = tbl.drift + 1
  <2>1. tbl.count - 1 \in Int /\ tbl.drift + 1 \in Nat
    BY <1>0
  <2>2. QED
    BY <1>0, <2>1 DEF EmitterType
<1> HIDE DEF new
<1>2. Shaped(new) /\ Keys(new) = Keys(tbl)
  BY <1>1 DEF Shaped, Keys, Has
<1>3. Accounted(new)
  BY <1>0, <1>1, <1>2, KeysFinite DEF Accounted
<1>4. QED
  BY <1>1, <1>2, <1>3, WipedSound DEF ClearUnwatched, new

-----------------------------------------------------------------------------
(* The emitter. *)

Sound(m) == m \in EmitterType(Entries) /\ Shaped(m) /\ Accounted(m)

HistoryOK ==
  /\ used \in 0..MaxOnce
  /\ fired \subseteq Onces
  /\ runs \in [Onces -> Nat]

IInv == Sound(em) /\ stack \in Seq(Frames) /\ HistoryOK

USE BoundsAssumption

\* The inductive invariant is stronger than what the runs check.
LEMMA IInvImplies == IInv => TypeOK /\ SlotShape /\ CountAccounted
<1> SUFFICES ASSUME IInv PROVE em.count <= Cardinality(Types)
  BY DEF IInv, Sound, HistoryOK, TypeOK, SlotShape, CountAccounted
<1>1. em.count \in Int /\ em.drift \in Nat /\ em.count = Cardinality(Keys(em)) - em.drift
  BY DEF IInv, Sound, EmitterType, Accounted
<1> DEFINE c == Cardinality(Keys(em))
           n == Cardinality(Types)
<1>2. c \in Nat /\ n \in Nat /\ c <= n
  BY KeysFinite
<1>3. em.count = c - em.drift
  BY <1>1
<1> HIDE DEF c, n
<1>4. em.count <= n
  BY <1>1, <1>2, <1>3
<1>5. QED
  BY <1>4 DEF n

\* Every method leaves a sound emitter sound.
LEMMA OpsSound ==
  ASSUME Sound(em), NEW t \in Types
  PROVE  /\ \A e \in Entries, p \in BOOLEAN : Sound(AddListener(em, t, e, p))
         /\ \A l : Sound(RemoveListener(em, t, l))
         /\ Sound(ClearUnwatched(em, t))
         /\ Sound(Wiped)
BY AddListenerSound, RemoveListenerSound, ClearUnwatchedSound, WipedSound DEF Sound

\* Loops that lose their array keep a sequence of listeners.
LEMMA RebindTyped ==
  ASSUME Sound(em), NEW new, Sound(new), NEW frames \in Seq(Frames)
  PROVE  Rebind(frames, new) \in Seq(Frames)
<1> DEFINE g(f) == IF f.k = "clear" /\ f.live /\ new.slot[f.t].kind # "list"
                   THEN [f EXCEPT !.live = FALSE,
                                  !.es = IF Has(new, f.t) THEN new.slot[f.t].list
                                                          ELSE em.slot[f.t].list]
                   ELSE f
<1>1. ASSUME NEW f \in Frames PROVE g(f) \in Frames
  <2>1. CASE f.k = "clear"
    <3>1. f \in [k : {"clear"}, t : Types, i : Nat, live : BOOLEAN, es : Seq(Entries)]
      BY <2>1 DEF Frames
    <3>2. new.slot[f.t].list \in Seq(Entries) /\ em.slot[f.t].list \in Seq(Entries)
      BY <3>1 DEF Sound, EmitterType, SlotType
    <3>3. g(f) \in [k : {"clear"}, t : Types, i : Nat, live : BOOLEAN, es : Seq(Entries)]
      BY <3>1, <3>2
    <3>4. QED
      BY <3>3 DEF Frames
  <2>2. CASE f.k # "clear"
    BY <2>2
  <2>3. QED
    BY <2>1, <2>2
<1>2. Rebind(frames, new) = [j \in 1..Len(frames) |-> g(frames[j])]
  BY DEF Rebind
<1>3. Len(frames) \in Nat /\ \A j \in 1..Len(frames) : frames[j] \in Frames
  BY ElementOfSeq
<1> HIDE DEF g
<1>4. \A j \in 1..Len(frames) : g(frames[j]) \in Frames
  BY <1>1, <1>3
<1>5. QED
  BY <1>2, <1>3, <1>4, IsASeq

\* The frames a removal leaves are frames.
LEMMA AfterRemovalTyped ==
  ASSUME Sound(em), NEW frames \in Seq(Frames), NEW t \in Types, NEW l
  PROVE  AfterRemoval(frames, t, l) \in Seq(Frames)
<1> DEFINE new  == RemoveListener(em, t, l)
           kept == Rebind(frames, new)
           call == Invoke("removeListener", Callee(new, "removeListener"))
<1>1. Sound(new)
  BY OpsSound
<1> HIDE DEF new
<1>2. kept \in Seq(Frames)
  BY <1>1, RebindTyped
<1>3. ASSUME Calls(new, "removeListener") PROVE call \in Frames
  <2> DEFINE s == new.slot["removeListener"]
  <2>1. s \in SlotType(Entries) /\ SlotShaped(s) /\ s.kind = "fn"
    BY <1>1, <1>3, TypesAssumption DEF Sound, EmitterType, Shaped, Calls
  <2>2. s.list \in Seq(Entries) /\ Len(s.list) = 1
    BY <2>1 DEF SlotType, SlotShaped
  <2>3. s.list[1] \in Entries
    BY <2>2, ElementOfSeq
  <2>4. QED
    BY <2>3, TypesAssumption DEF Invoke, Callee, Frames
<1>4. AfterRemoval(frames, t, l) =
        IF AnnouncesRemoval(em, t, l) /\ Calls(new, "removeListener")
        THEN Append(kept, call) ELSE kept
  BY DEF AfterRemoval, new
<1> HIDE DEF kept, call
<1>5. QED
  BY <1>2, <1>3, <1>4, AppendProperties

\* What removeAllListeners(t) does before its loop.
LEMMA StartClearStep ==
  ASSUME Sound(em), NEW frames \in Seq(Frames), NEW t \in Types, StartClear(frames, t)
  PROVE  Sound(em)' /\ stack' \in Seq(Frames)
<1> DEFINE s == em.slot[t]
<1>0. s \in SlotType(Entries) /\ SlotShaped(s)
  BY DEF Sound, EmitterType, Shaped
<1>1. CASE ~Has(em, "removeListener")
  <2>1. em' = ClearUnwatched(em, t) /\ stack' = Rebind(frames, em')
    BY <1>1 DEF StartClear
  <2>2. Sound(ClearUnwatched(em, t))
    BY OpsSound
  <2>3. Rebind(frames, ClearUnwatched(em, t)) \in Seq(Frames)
    BY <2>2, RebindTyped
  <2>4. QED
    BY <2>1, <2>2, <2>3 DEF Sound
<1>2. CASE Has(em, "removeListener") /\ s.kind = "fn"
  <2> DEFINE l == s.list[1]
  <2>1. em' = RemoveListener(em, t, l) /\ stack' = AfterRemoval(frames, t, l)
    BY <1>2 DEF StartClear
  <2>2. QED
    BY <2>1, OpsSound, AfterRemovalTyped DEF Sound
<1>3. CASE Has(em, "removeListener") /\ s.kind = "list"
  <2>1. em' = em /\ stack' = Append(frames, Clear(t, Len(s.list)))
    BY <1>3 DEF StartClear
  <2>2. Len(s.list) \in Nat /\ << >> \in Seq(Entries)
    BY <1>0, EmptySeq DEF SlotType
  <2>3. Clear(t, Len(s.list)) \in Frames
    BY <2>2 DEF Clear, Frames
  <2>4. QED
    BY <2>1, <2>3, AppendProperties DEF Sound
<1>4. CASE Has(em, "removeListener") /\ s.kind = "none"
  BY <1>4 DEF StartClear, Sound
<1>5. QED
  BY <1>0, <1>1, <1>2, <1>3, <1>4 DEF SlotType

\* Unwinding keeps the frames below the point where the exception is caught.
LEMMA UnwindStep ==
  ASSUME stack \in Seq(Frames), Unwind
  PROVE  stack' \in Seq(Frames)
<1>1. PICK n \in 0..(Len(stack) - 1) : stack' = SubSeq(stack, 1, n)
  BY DEF Unwind
<1>2. \A i \in 1..n : stack[i] \in Frames
  BY ElementOfSeq, LenProperties
<1>3. QED
  BY <1>1, <1>2, LenProperties, SubSeqProperties

\* The frames under the innermost one, and the innermost one itself.
LEMMA TopTyped ==
  ASSUME stack \in Seq(Frames), stack # << >>
  PROVE  Top \in Frames /\ Below \in Seq(Frames)
<1>1. Len(stack) \in Nat \ {0} /\ DOMAIN stack = 1..Len(stack)
  BY EmptySeq, LenProperties
<1>2. \A i \in 1..(Len(stack) - 1) : stack[i] \in Frames
  BY <1>1, ElementOfSeq
<1>3. QED
  BY <1>1, <1>2, ElementOfSeq, SubSeqProperties DEF Top, Below, Front

THEOREM InitSound == Init => IInv
<1>1. Sound(NewEmitter)
  BY WipedSound DEF Sound
<1>2. QED
  BY <1>1, EmptySeq DEF Init, IInv, HistoryOK

\* One step per action of the emitter, the listeners and the loops.
THEOREM StepSound == IInv /\ [Next]_vars => IInv'
<1> SUFFICES ASSUME IInv, [Next]_vars PROVE IInv'
  OBVIOUS
<1>0. Sound(em) /\ stack \in Seq(Frames) /\ HistoryOK
  BY DEF IInv
<1>1. ASSUME NEW t \in Types, NEW f \in Handlers, NEW p \in BOOLEAN, On(t, f, p)
      PROVE  IInv'
  <2>1. Plain(f) \in Entries
    BY DEF Plain, Entries
  <2>2. QED
    BY <1>0, <1>1, <2>1, OpsSound DEF On, IInv, Sound, HistoryOK
<1>2. ASSUME NEW t \in Types, NEW f \in Handlers, NEW p \in BOOLEAN, Once(t, f, p)
      PROVE  IInv'
  <2>1. used' \in 0..MaxOnce
    BY <1>0, <1>2 DEF Once, HistoryOK
  <2>2. [fn |-> f, id |-> used'] \in Entries
    BY <2>1 DEF Entries
  <2>3. QED
    BY <1>0, <1>2, <2>1, <2>2, OpsSound DEF Once, IInv, Sound, HistoryOK
<1>3. ASSUME NEW t \in Types, NEW l \in Entries, Off(t, l)
      PROVE  IInv'
  BY <1>0, <1>3, OpsSound, AfterRemovalTyped DEF Off, IInv, Sound, HistoryOK
<1>4. ASSUME NEW t \in Types, Emit(t)
      PROVE  IInv'
  <2> DEFINE s == em.slot[t]
  <2>1. s \in SlotType(Entries) /\ SlotShaped(s) /\ s.kind = "fn"
    BY <1>0, <1>4 DEF Emit, Calls, Sound, EmitterType, Shaped
  <2>2. s.list \in Seq(Entries) /\ Len(s.list) = 1
    BY <2>1 DEF SlotType, SlotShaped
  <2>3. s.list[1] \in Entries
    BY <2>2, ElementOfSeq
  <2>4. Invoke(t, Callee(em, t)) \in Frames
    BY <2>3 DEF Invoke, Callee, Frames
  <2>5. QED
    BY <1>0, <1>4, <2>4, AppendProperties DEF Emit, IInv, Sound, HistoryOK
<1>5. ASSUME NEW t \in Types, RemoveAll(t)
      PROVE  IInv'
  BY <1>0, <1>5, StartClearStep DEF RemoveAll, IInv, HistoryOK
<1>6. CASE RemoveAllTypes
  <2>1. CASE Has(em, "removeListener")
    <3>1. ClearAll(Keys(em) \ {"removeListener"}) \in Frames
      BY DEF ClearAll, Keys, Frames
    <3>2. QED
      BY <1>0, <1>6, <2>1, <3>1, AppendProperties DEF RemoveAllTypes, IInv, Sound, HistoryOK
  <2>2. CASE ~Has(em, "removeListener")
    <3>1. Sound(Wiped)
      BY WipedSound DEF Sound
    <3>2. QED
      BY <1>0, <1>6, <2>2, <3>1, RebindTyped DEF RemoveAllTypes, IInv, Sound, HistoryOK
  <2>3. QED
    BY <2>1, <2>2
<1>7. CASE Return
  BY <1>0, <1>7, TopTyped DEF Return, TopIs, IInv, Sound, HistoryOK
<1>8. CASE Throw
  BY <1>0, <1>8, UnwindStep DEF Throw, IInv, Sound, HistoryOK
<1>9. CASE StepInvoke
  <2> DEFINE e == Top.e
  <2>1. Top \in [k : {"invoke"}, t : Types, e : Entries] /\ Below \in Seq(Frames)
    BY <1>0, <1>9, TopTyped DEF StepInvoke, TopIs, Frames
  <2>2. CASE e.id = 0
    <3>1. Body \in Frames
      BY DEF Body, Frames
    <3>2. Append(Below, Body) \in Seq(Frames)
      BY <2>1, <3>1, AppendProperties
    <3>3. em' = em /\ stack' = Append(Below, Body) /\ UNCHANGED <<used, fired, runs>>
      BY <1>9, <2>2 DEF StepInvoke
    <3>4. QED
      BY <1>0, <3>2, <3>3 DEF IInv, Sound, HistoryOK
  <2>3. CASE e.id # 0 /\ e.id \in fired
    BY <1>0, <1>9, <2>1, <2>3 DEF StepInvoke, IInv, Sound, HistoryOK
  <2>4. CASE e.id # 0 /\ e.id \notin fired
    <3>1. e \in [fn : Handlers, id : Onces]
      BY <2>1, <2>4 DEF Entries, Onces
    <3>2. Fire(e) \in Frames
      BY <3>1 DEF Fire, Frames
    <3>3. Append(Below, Fire(e)) \in Seq(Frames)
      BY <2>1, <3>2, AppendProperties
    <3>4. /\ em' = RemoveListener(em, Top.t, e)
          /\ stack' = AfterRemoval(Append(Below, Fire(e)), Top.t, e)
      BY <1>9, <2>4 DEF StepInvoke
    <3>5. stack' \in Seq(Frames) /\ Sound(em)'
      BY <1>0, <2>1, <3>3, <3>4, OpsSound, AfterRemovalTyped DEF Sound
    <3>6. QED
      BY <1>0, <1>9, <3>5 DEF StepInvoke, IInv, HistoryOK
  <2>5. QED
    BY <2>2, <2>3, <2>4
<1>10. CASE StepFire
  <2>1. Top.e.id \in Onces /\ Below \in Seq(Frames)
    BY <1>0, <1>10, TopTyped DEF StepFire, TopIs, Frames
  <2>2. Body \in Frames
    BY DEF Body, Frames
  <2>3. HistoryOK'
    BY <1>0, <1>10, <2>1 DEF StepFire, HistoryOK
  <2>4. QED
    BY <1>0, <1>10, <2>1, <2>2, <2>3, AppendProperties DEF StepFire, IInv, Sound
<1>11. CASE StepClear
  <2> DEFINE f  == Top
             es == LoopArray(f)
             g  == [f EXCEPT !.i = @ - 1]
  <2>1. /\ f \in [k : {"clear"}, t : Types, i : Nat, live : BOOLEAN, es : Seq(Entries)]
        /\ Below \in Seq(Frames)
    BY <1>0, <1>11, TopTyped DEF StepClear, TopIs, Frames
  <2>2. CASE f.i = 0
    BY <1>0, <1>11, <2>1, <2>2 DEF StepClear, IInv, Sound, HistoryOK
  <2>3. CASE f.i # 0 /\ f.i > Len(es)
    BY <1>0, <1>11, <2>3, UnwindStep DEF StepClear, IInv, Sound, HistoryOK
  <2>4. CASE f.i # 0 /\ ~(f.i > Len(es))
    <3>1. g \in [k : {"clear"}, t : Types, i : Nat, live : BOOLEAN, es : Seq(Entries)]
      BY <2>1, <2>4
    <3>2. Append(Below, g) \in Seq(Frames)
      BY <2>1, <3>1, AppendProperties DEF Frames
    <3>3. /\ em' = RemoveListener(em, f.t, es[f.i])
          /\ stack' = AfterRemoval(Append(Below, g), f.t, es[f.i])
      BY <1>11, <2>4 DEF StepClear
    <3>4. stack' \in Seq(Frames) /\ Sound(em)'
      BY <1>0, <2>1, <3>2, <3>3, OpsSound, AfterRemovalTyped DEF Sound
    <3>5. QED
      BY <1>0, <1>11, <3>4 DEF StepClear, IInv, HistoryOK
  <2>5. QED
    BY <2>2, <2>3, <2>4
<1>12. CASE StepClearAll
  <2>1. Top \in [k : {"clearAll"}, keys : SUBSET Types, last : BOOLEAN] /\ Below \in Seq(Frames)
    BY <1>0, <1>12, TopTyped DEF StepClearAll, TopIs, Frames
  <2>2. CASE Top.last
    <3>1. Sound(Wiped)
      BY WipedSound DEF Sound
    <3>2. QED
      BY <1>0, <1>12, <2>1, <2>2, <3>1, RebindTyped DEF StepClearAll, IInv, Sound, HistoryOK
  <2>3. CASE ~Top.last /\ Top.keys = {}
    <3>1. [Top EXCEPT !.last = TRUE] \in Frames
      BY <2>1 DEF Frames
    <3>2. StartClear(Append(Below, [Top EXCEPT !.last = TRUE]), "removeListener")
      BY <1>12, <2>3 DEF StepClearAll
    <3>3. QED
      BY <1>0, <1>12, <2>1, <3>1, <3>2, StartClearStep, AppendProperties, TypesAssumption
      DEF StepClearAll, IInv, HistoryOK
  <2>4. CASE ~Top.last /\ Top.keys # {}
    <3>1. PICK t \in Top.keys : StartClear(Append(Below, [Top EXCEPT !.keys = @ \ {t}]), t)
      BY <1>12, <2>4 DEF StepClearAll
    <3>2. [Top EXCEPT !.keys = @ \ {t}] \in Frames /\ t \in Types
      BY <2>1 DEF Frames
    <3>3. QED
      BY <1>0, <1>12, <2>1, <3>1, <3>2, StartClearStep, AppendProperties
      DEF StepClearAll, IInv, HistoryOK
  <2>5. QED
    BY <2>2, <2>3, <2>4
<1>13. CASE UNCHANGED vars
  BY <1>0, <1>13 DEF vars, IInv, Sound, HistoryOK
<1>14. QED
  BY <1>1, <1>2, <1>3, <1>4, <1>5, <1>6, <1>7, <1>8, <1>9, <1>10, <1>11, <1>12, <1>13
  DEF Next

\* Type correctness: in particular _eventsCount never exceeds the number of
\* event names, whatever is registered or removed during an emission.
THEOREM TypeCorrect == Spec => []TypeOK
<1>1. QED
  BY InitSound, StepSound, IInvImplies, PTL DEF Spec

\* An array in _events always holds at least two listeners, so emit() may
\* tell one listener from several by typeof.
THEOREM SlotShapeHolds == Spec => []SlotShape
<1>1. QED
  BY InitSound, StepSound, IInvImplies, PTL DEF Spec

\* _eventsCount equals the number of types with a listener less the number of
\* removeAllListeners(t) of types without one since the table was replaced.
THEOREM CountAccountedHolds == Spec => []CountAccounted
<1>1. QED
  BY InitSound, StepSound, IInvImplies, PTL DEF Spec
-----------------------------------------------------------------------------
(* once() runs once.                                                       *)

\* The wrapper with this id lies in a slot.
Held(m, o) == \E t \in Types : \E i \in DOMAIN m.slot[t].list : m.slot[t].list[i].id = o

\* No wrapper lies in two places.
Unique(m) ==
  \A t, u \in Types : \A i \in DOMAIN m.slot[t].list, j \in DOMAIN m.slot[u].list :
    m.slot[t].list[i].id # 0 /\ m.slot[t].list[i].id = m.slot[u].list[j].id => t = u /\ i = j

\* A table that was never made has no listeners.
Made(m) == ~m.present => \A t \in Types : m.slot[t] = Empty

\* The innermost frame alone may be about to call a listener: the lone one of its slot.
Called(s, m) ==
  \A j \in DOMAIN s : s[j].k = "invoke" =>
    j = Len(s) /\ m.slot[s[j].t].kind = "fn" /\ m.slot[s[j].t].list[1] = s[j].e

\* A wrapper that took itself out is in no slot and has one frame, until it sets state.fired.
Firing(s, m, F, u) ==
  \A j \in DOMAIN s : s[j].k = "fire" =>
    /\ s[j].e.id \notin F /\ s[j].e.id <= u /\ ~Held(m, s[j].e.id)
    /\ \A i \in DOMAIN s : s[i].k = "fire" /\ s[i].e.id = s[j].e.id => i = j

\* A wrapper that is held was made and has not fired; one that has fired ran once.
Counted ==
  /\ fired \subseteq 1..used
  /\ \A o \in Onces : Held(em, o) => o <= used /\ o \notin fired
  /\ runs = [o \in Onces |-> IF o \in fired THEN 1 ELSE 0]

OInv == Made(em) /\ Unique(em) /\ Called(stack, em) /\ Firing(stack, em, fired, used) /\ Counted

\* n has the listeners of m, less some.
Thinner(m, n) ==
  \A t \in Types : \E h \in [DOMAIN n.slot[t].list -> DOMAIN m.slot[t].list] :
    \A j \in DOMAIN n.slot[t].list :
      /\ n.slot[t].list[j] = m.slot[t].list[h[j]]
      /\ \A i \in DOMAIN n.slot[t].list : h[i] = h[j] => i = j

\* Where there are fewer listeners, no wrapper is new and none is doubled.
LEMMA ThinnerKeeps ==
  ASSUME NEW m, NEW n, Thinner(m, n), Unique(m)
  PROVE  Unique(n) /\ \A o : Held(n, o) => Held(m, o)
<1>1. ASSUME NEW t \in Types, NEW u \in Types, NEW i \in DOMAIN n.slot[t].list, NEW j \in DOMAIN n.slot[u].list,
             n.slot[t].list[i].id # 0, n.slot[t].list[i].id = n.slot[u].list[j].id
      PROVE  t = u /\ i = j
  <2>1. PICK h \in [DOMAIN n.slot[t].list -> DOMAIN m.slot[t].list] :
          \A k \in DOMAIN n.slot[t].list :
            /\ n.slot[t].list[k] = m.slot[t].list[h[k]]
            /\ \A l \in DOMAIN n.slot[t].list : h[l] = h[k] => l = k
    BY DEF Thinner
  <2>2. PICK g \in [DOMAIN n.slot[u].list -> DOMAIN m.slot[u].list] :
          \A k \in DOMAIN n.slot[u].list :
            /\ n.slot[u].list[k] = m.slot[u].list[g[k]]
            /\ \A l \in DOMAIN n.slot[u].list : g[l] = g[k] => l = k
    BY DEF Thinner
  <2>3. t = u /\ h[i] = g[j]
    <3>1. h[i] \in DOMAIN m.slot[t].list /\ g[j] \in DOMAIN m.slot[u].list
      BY <2>1, <2>2
    <3>2. n.slot[t].list[i] = m.slot[t].list[h[i]] /\ n.slot[u].list[j] = m.slot[u].list[g[j]]
      BY <2>1, <2>2
    <3>3. QED
      BY <1>1, <3>1, <3>2, SMTT(60) DEF Unique
  <2>4. j \in DOMAIN n.slot[t].list /\ h[j] \in DOMAIN m.slot[t].list
        /\ n.slot[t].list[j] = m.slot[t].list[h[j]]
    BY <2>1, <2>3
  <2>5. h[i] = h[j]
    <3>1. h[i] \in DOMAIN m.slot[t].list /\ n.slot[t].list[i] = m.slot[t].list[h[i]]
      BY <2>1
    <3>2. m.slot[t].list[h[i]].id # 0 /\ m.slot[t].list[h[i]].id = m.slot[t].list[h[j]].id
      BY <1>1, <2>3, <2>4, <3>1
    <3>3. QED
      BY <2>4, <3>1, <3>2 DEF Unique
  <2>6. QED
    BY <2>1, <2>3, <2>4, <2>5
<1>2. ASSUME NEW o, Held(n, o) PROVE Held(m, o)
  <2>0. PICK t \in Types : \E i \in DOMAIN n.slot[t].list : n.slot[t].list[i].id = o
    BY <1>2 DEF Held
  <2>1. PICK j \in DOMAIN n.slot[t].list : n.slot[t].list[j].id = o
    BY <2>0
  <2>2. PICK h \in [DOMAIN n.slot[t].list -> DOMAIN m.slot[t].list] :
          \A k \in DOMAIN n.slot[t].list : n.slot[t].list[k] = m.slot[t].list[h[k]]
    BY DEF Thinner
  <2>3. h[j] \in DOMAIN m.slot[t].list /\ m.slot[t].list[h[j]].id = o
    BY <2>1, <2>2
  <2>4. QED
    BY <2>3 DEF Held
<1>3. QED
  BY <1>1, <1>2 DEF Unique

\* The same table, and an empty one.
LEMMA ThinnerSame ==
  ASSUME NEW m, NEW n, \A t \in Types : n.slot[t] = m.slot[t] \/ n.slot[t].list = << >>
  PROVE  Thinner(m, n)
<1>1. ASSUME NEW t \in Types
      PROVE  \E h \in [DOMAIN n.slot[t].list -> DOMAIN m.slot[t].list] :
               \A j \in DOMAIN n.slot[t].list :
                 /\ n.slot[t].list[j] = m.slot[t].list[h[j]]
                 /\ \A i \in DOMAIN n.slot[t].list : h[i] = h[j] => i = j
  <2>1. CASE n.slot[t] = m.slot[t]
    <3> DEFINE h == [j \in DOMAIN n.slot[t].list |-> j]
    <3>1. h \in [DOMAIN n.slot[t].list -> DOMAIN m.slot[t].list]
      BY <2>1
    <3>2. \A j \in DOMAIN n.slot[t].list : h[j] = j
      OBVIOUS
    <3> HIDE DEF h
    <3>3. QED
      BY <2>1, <3>1, <3>2
  <2>2. CASE n.slot[t].list = << >>
    <3> DEFINE h == [j \in {} |-> 0]
    <3>1. DOMAIN n.slot[t].list = {} /\ h \in [{} -> DOMAIN m.slot[t].list]
      BY <2>2
    <3> HIDE DEF h
    <3>2. QED
      BY <3>1
  <2>3. QED
    BY <2>1, <2>2
<1>2. QED
  BY <1>1 DEF Thinner

\* What RemoveAt leaves of a list.
LEMMA RemoveAtFacts ==
  ASSUME NEW E, NEW es \in Seq(E), NEW i \in 1..Len(es)
  PROVE  /\ RemoveAt(es, i) \in Seq(E) /\ Len(RemoveAt(es, i)) = Len(es) - 1
         /\ \A j \in 1..(Len(es) - 1) : RemoveAt(es, i)[j] = IF j < i THEN es[j] ELSE es[j + 1]
<1> DEFINE front == SubSeq(es, 1, i - 1)
           back  == SubSeq(es, i + 1, Len(es))
<1>1. Len(es) \in Nat /\ i \in Nat /\ 1 <= i /\ i <= Len(es)
  OBVIOUS
<1>2. front \in Seq(E) /\ Len(front) = i - 1 /\ \A j \in 1..(i - 1) : front[j] = es[j]
  BY <1>1, SubSeqProperties
<1>3. back \in Seq(E) /\ Len(back) = Len(es) - i /\ \A j \in 1..(Len(es) - i) : back[j] = es[i + j]
  BY <1>1, SubSeqProperties
<1>4. RemoveAt(es, i) = front \o back
  BY DEF RemoveAt
<1> HIDE DEF front, back
<1>5. front \o back \in Seq(E) /\ Len(front \o back) = Len(es) - 1
  <2>1. front \o back \in Seq(E) /\ Len(front \o back) = Len(front) + Len(back)
    BY <1>2, <1>3, ConcatProperties
  <2>2. QED
    BY <1>1, <1>2, <1>3, <2>1
<1>6. ASSUME NEW j \in 1..(Len(es) - 1)
      PROVE  (front \o back)[j] = IF j < i THEN es[j] ELSE es[j + 1]
  <2>1. CASE j < i
    BY <1>1, <1>2, <1>3, <2>1
  <2>2. CASE ~(j < i)
    <3>1. (front \o back)[j] = back[j - (i - 1)] /\ j - (i - 1) \in 1..(Len(es) - i)
      BY <1>1, <1>2, <1>3, <2>2
    <3>2. i + (j - (i - 1)) = j + 1
      BY <1>1
    <3>3. QED
      BY <1>3, <2>2, <3>1, <3>2
  <2>3. QED
    BY <2>1, <2>2
<1>7. QED
  BY <1>4, <1>5, <1>6

\* One listener less is fewer.
LEMMA ThinnerWithout ==
  ASSUME NEW E, NEW m \in EmitterType(E), NEW t \in Types, NEW i \in 1..Len(m.slot[t].list), NEW c \in Int,
         Len(m.slot[t].list) >= 2
  PROVE  Thinner(m, Put(m, t, WithoutEntry(m.slot[t].list, i), c))
<1> DEFINE es == m.slot[t].list
           r  == RemoveAt(es, i)
           s  == WithoutEntry(es, i)
           n  == Put(m, t, s, c)
<1>1. es \in Seq(E) /\ Len(es) \in Nat
  BY DEF EmitterType, SlotType
<1>2. n.slot = [m.slot EXCEPT ![t] = s] /\ m.slot \in [Types -> SlotType(E)]
  BY DEF Put, EmitterType
<1>3. /\ r \in Seq(E) /\ Len(r) = Len(es) - 1
      /\ \A j \in 1..(Len(es) - 1) : r[j] = IF j < i THEN es[j] ELSE es[j + 1]
  BY <1>1, RemoveAtFacts
<1>4. s.list = r
  <2> HIDE DEF r, es
  <2>1. CASE Len(r) = 1
    <3>1. s.list = <<r[1]>>
      BY <2>1 DEF WithoutEntry, Fn, r
    <3>2. r = <<r[1]>>
      BY <1>3, <2>1
    <3>3. QED
      BY <3>1, <3>2
  <2>2. CASE Len(r) # 1
    BY <2>2 DEF WithoutEntry, Arr, r
  <2>3. QED
    BY <2>1, <2>2
<1> HIDE DEF n, s
<1>5. ASSUME NEW u \in Types
      PROVE  \E h \in [DOMAIN n.slot[u].list -> DOMAIN m.slot[u].list] :
               \A j \in DOMAIN n.slot[u].list :
                 /\ n.slot[u].list[j] = m.slot[u].list[h[j]]
                 /\ \A k \in DOMAIN n.slot[u].list : h[k] = h[j] => k = j
  <2>1. CASE u # t
    <3> DEFINE h == [j \in DOMAIN n.slot[u].list |-> j]
    <3>1. n.slot[u] = m.slot[u]
      BY <1>2, <2>1
    <3>2. /\ h \in [DOMAIN n.slot[u].list -> DOMAIN m.slot[u].list]
          /\ \A j \in DOMAIN n.slot[u].list : h[j] = j
      BY <3>1
    <3> HIDE DEF h
    <3>3. QED
      BY <3>1, <3>2
  <2>2. CASE u = t
    <3> HIDE DEF r, es
    <3> DEFINE h == [j \in 1..(Len(es) - 1) |-> IF j < i THEN j ELSE j + 1]
    <3>1. n.slot[u].list = r /\ m.slot[u].list = es /\ DOMAIN r = 1..(Len(es) - 1) /\ DOMAIN es = 1..Len(es)
      BY <1>1, <1>2, <1>3, <1>4, <2>2 DEF es
    <3>2. /\ h \in [1..(Len(es) - 1) -> 1..Len(es)]
          /\ \A j \in 1..(Len(es) - 1) : h[j] = IF j < i THEN j ELSE j + 1
      BY <1>1
    <3> HIDE DEF h
    <3>3. i \in Nat
      BY DEF es
    <3>4. ASSUME NEW j \in 1..(Len(es) - 1)
          PROVE  r[j] = es[h[j]] /\ \A k \in 1..(Len(es) - 1) : h[k] = h[j] => k = j
      <4> DEFINE n1 == Len(es)
      <4>1. n1 \in Nat /\ j \in 1..(n1 - 1) /\ i \in Nat
        BY <1>1, <3>3
      <4>2. r[j] = es[h[j]]
        BY <1>3, <3>2
      <4> HIDE DEF n1
      <4>3. ASSUME NEW k \in 1..(n1 - 1), h[k] = h[j] PROVE k = j
        <5>1. h[k] = (IF k < i THEN k ELSE k + 1) /\ h[j] = (IF j < i THEN j ELSE j + 1)
          BY <3>2, <4>1 DEF n1
        <5>2. k \in Int /\ j \in Int
          BY <4>1
        <5>3. CASE k < i /\ j < i
          BY <4>3, <5>1, <5>3
        <5>4. CASE ~(k < i) /\ ~(j < i)
          <6>1. k + 1 = j + 1
            BY <4>3, <5>1, <5>4
          <6>2. QED
            BY <5>2, <6>1
        <5>5. CASE ~(k < i <=> j < i)
          <6>1. (k < i /\ ~(j < i) /\ k = j + 1) \/ (j < i /\ ~(k < i) /\ j = k + 1)
            BY <4>3, <5>1, <5>5
          <6>2. i \in Int
            BY <4>1
          <6>3. QED
            BY <5>2, <6>1, <6>2
        <5>6. QED
          BY <5>3, <5>4, <5>5
      <4>4. QED
        BY <4>2, <4>3 DEF n1
    <3>5. DOMAIN n.slot[u].list = 1..(Len(es) - 1) /\ DOMAIN m.slot[u].list = 1..Len(es)
      BY <3>1
    <3>6. h \in [DOMAIN n.slot[u].list -> DOMAIN m.slot[u].list]
      BY <3>2, <3>5
    <3>7. ASSUME NEW j \in DOMAIN n.slot[u].list
          PROVE  /\ n.slot[u].list[j] = m.slot[u].list[h[j]]
                 /\ \A k \in DOMAIN n.slot[u].list : h[k] = h[j] => k = j
      BY <3>1, <3>4, <3>5, Zenon
    <3>8. QED
      BY <3>6, <3>7, Zenon
  <2>3. QED
    BY <2>1, <2>2
<1>6. QED
  BY <1>5 DEF Thinner, n, s

\* removeListener adds none, and makes no table.
LEMMA RemoveThinner ==
  ASSUME Sound(em), Made(em), NEW t \in Types, NEW l
  PROVE  Thinner(em, RemoveListener(em, t, l)) /\ Made(RemoveListener(em, t, l))
<1> DEFINE new == RemoveListener(em, t, l)
           es  == em.slot[t].list
           i   == LastPosition(em, t, l)
<1>0. em \in EmitterType(Entries) /\ Shaped(em) /\ em.slot \in [Types -> SlotType(Entries)] /\ em.count \in Int
  BY DEF Sound, EmitterType
<1>1. CASE ~em.present \/ Positions(em, t, l) = {}
  <2>1. new = em
    BY <1>1 DEF RemoveListener
  <2>2. QED
    BY <2>1, ThinnerSame
<1>2. CASE em.present /\ Positions(em, t, l) # {}
  <2>1. i \in 1..Len(es)
    BY <1>0, <1>2, LastPositionExists
  <2>2. CASE em.slot[t].kind = "fn" /\ em.count = 1
    <3>1. new = Wiped
      BY <1>2, <2>2 DEF RemoveListener
    <3>2. \A u \in Types : Wiped.slot[u].list = << >>
      BY DEF Wiped, NewEmitter, Empty
    <3>3. Wiped.present
      BY DEF Wiped, NewEmitter
    <3>4. QED
      BY <3>1, <3>2, <3>3, ThinnerSame DEF Made
  <2>3. CASE em.slot[t].kind = "fn" /\ em.count # 1
    <3>1. new = Put(em, t, Empty, em.count - 1)
      BY <1>2, <2>3 DEF RemoveListener
    <3>2. /\ Put(em, t, Empty, em.count - 1).slot = [em.slot EXCEPT ![t] = Empty]
          /\ Put(em, t, Empty, em.count - 1).present = em.present
      BY <1>0 DEF Put, EmitterType
    <3> HIDE DEF new
    <3>3. \A u \in Types : new.slot[u] = em.slot[u] \/ new.slot[u].list = << >>
      BY <1>0, <3>1, <3>2 DEF Empty
    <3>4. new.present
      BY <1>2, <3>1, <3>2
    <3>5. Thinner(em, new)
      BY <3>3, ThinnerSame
    <3>6. QED
      BY <3>4, <3>5 DEF Made, new
  <2>4. CASE em.slot[t].kind # "fn"
    <3>1. new = Put(em, t, WithoutEntry(es, i), em.count)
      BY <1>2, <2>4 DEF RemoveListener
    <3>2. Len(es) >= 2
      <4>1. SlotShaped(em.slot[t]) /\ es \in Seq(Entries) /\ Len(es) \in Nat /\ Len(es) # 0
        BY <1>0, <2>1 DEF Shaped, SlotType
      <4>2. Len(es) # 1
        BY <2>4, <4>1 DEF SlotShaped
      <4> DEFINE n == Len(es)
      <4>3. n \in Nat /\ n # 0 /\ n # 1
        BY <4>1, <4>2
      <4> HIDE DEF n
      <4>4. n >= 2
        BY <4>3
      <4>5. QED
        BY <4>4 DEF n
    <3>3. Thinner(em, new)
      BY <1>0, <2>1, <3>1, <3>2, ThinnerWithout
    <3>4. new.present
      BY <1>0, <1>2, <3>1 DEF Put, EmitterType
    <3>5. QED
      BY <3>3, <3>4 DEF Made
  <2>5. QED
    BY <2>2, <2>3, <2>4
<1>3. QED
  BY <1>1, <1>2

\* One listener more, at place p of the list of t, is the only one that is new.
LEMMA OneMore ==
  ASSUME NEW m, NEW n, NEW t \in Types, NEW p \in DOMAIN n.slot[t].list, Unique(m),
         \A u \in Types \ {t} : n.slot[u] = m.slot[u],
         NEW h \in [DOMAIN n.slot[t].list \ {p} -> DOMAIN m.slot[t].list],
         \A j \in DOMAIN n.slot[t].list \ {p} :
           /\ n.slot[t].list[j] = m.slot[t].list[h[j]]
           /\ \A i \in DOMAIN n.slot[t].list \ {p} : h[i] = h[j] => i = j,
         n.slot[t].list[p].id = 0 \/ ~Held(m, n.slot[t].list[p].id)
  PROVE  Unique(n) /\ \A o : Held(n, o) => Held(m, o) \/ o = n.slot[t].list[p].id
<1> DEFINE E(u, i) == n.slot[u].list[i].id
           New(u, i) == u = t /\ i = p
<1>1. ASSUME NEW u \in Types, NEW i \in DOMAIN n.slot[u].list, ~New(u, i)
      PROVE  \E k \in DOMAIN m.slot[u].list :
               /\ n.slot[u].list[i] = m.slot[u].list[k]
               /\ u = t => k = h[i] /\ i \in DOMAIN n.slot[t].list \ {p}
               /\ u # t => k = i
  <2>1. CASE u = t
    <3>1. i \in DOMAIN n.slot[t].list \ {p}
      BY <1>1, <2>1
    <3>2. h[i] \in DOMAIN m.slot[u].list /\ n.slot[u].list[i] = m.slot[u].list[h[i]]
      BY <2>1, <3>1
    <3>3. QED
      BY <2>1, <3>1, <3>2
  <2>2. CASE u # t
    BY <2>2
  <2>3. QED
    BY <2>1, <2>2
<1>2. ASSUME NEW u \in Types, NEW i \in DOMAIN n.slot[u].list, ~New(u, i)
      PROVE  Held(m, E(u, i))
  BY <1>1, <1>2 DEF Held
<1>3. ASSUME NEW u \in Types, NEW v \in Types, NEW i \in DOMAIN n.slot[u].list, NEW j \in DOMAIN n.slot[v].list,
             E(u, i) # 0, E(u, i) = E(v, j)
      PROVE  u = v /\ i = j
  <2>1. CASE New(u, i) /\ New(v, j)
    BY <2>1
  <2>2. CASE New(u, i) /\ ~New(v, j)
    <3>1. Held(m, E(v, j))
      BY <1>2, <2>2
    <3>2. E(u, i) = n.slot[t].list[p].id
      BY <2>2
    <3>3. QED
      BY <1>3, <3>1, <3>2
  <2>3. CASE ~New(u, i) /\ New(v, j)
    <3>1. Held(m, E(u, i))
      BY <1>2, <2>3
    <3>2. E(v, j) = n.slot[t].list[p].id
      BY <2>3
    <3>3. QED
      BY <1>3, <3>1, <3>2
  <2>4. CASE ~New(u, i) /\ ~New(v, j)
    <3>1. PICK k \in DOMAIN m.slot[u].list :
            /\ n.slot[u].list[i] = m.slot[u].list[k]
            /\ u = t => k = h[i] /\ i \in DOMAIN n.slot[t].list \ {p}
            /\ u # t => k = i
      BY <1>1, <2>4
    <3>2. PICK l \in DOMAIN m.slot[v].list :
            /\ n.slot[v].list[j] = m.slot[v].list[l]
            /\ v = t => l = h[j] /\ j \in DOMAIN n.slot[t].list \ {p}
            /\ v # t => l = j
      BY <1>1, <2>4
    <3>3. u = v /\ k = l
      BY <1>3, <3>1, <3>2 DEF Unique
    <3>4. QED
      BY <3>1, <3>2, <3>3
  <2>5. QED
    BY <2>1, <2>2, <2>3, <2>4
<1>4. ASSUME NEW o, Held(n, o) PROVE Held(m, o) \/ o = n.slot[t].list[p].id
  <2>1. PICK u \in Types : \E i \in DOMAIN n.slot[u].list : n.slot[u].list[i].id = o
    BY <1>4 DEF Held
  <2>2. PICK i \in DOMAIN n.slot[u].list : n.slot[u].list[i].id = o
    BY <2>1
  <2>3. QED
    BY <1>2, <2>2
<1>5. QED
  BY <1>3, <1>4 DEF Unique

\* l is s and e, at some place.
Lengthens(l, s, e) ==
  \E p \in DOMAIN l : /\ l[p] = e
                      /\ \E h \in [DOMAIN l \ {p} -> DOMAIN s] : \A j \in DOMAIN l \ {p} :
                           l[j] = s[h[j]] /\ \A i \in DOMAIN l \ {p} : h[i] = h[j] => i = j

\* A listener in front of a list, or behind it.
LEMMA Longer ==
  ASSUME NEW E, NEW s \in Seq(E), NEW e \in E, NEW prepend \in BOOLEAN
  PROVE  Lengthens(IF prepend THEN <<e>> \o s ELSE Append(s, e), s, e)
<1> DEFINE l == IF prepend THEN <<e>> \o s ELSE Append(s, e)
<1> SUFFICES Lengthens(l, s, e)
  OBVIOUS
<1>1. Len(s) \in Nat /\ DOMAIN s = 1..Len(s)
  OBVIOUS
<1>2. CASE prepend
  <2> DEFINE h == [j \in 2..(Len(s) + 1) |-> j - 1]
  <2>1. DOMAIN l = 1..(Len(s) + 1) /\ l[1] = e /\ \A j \in 2..(Len(s) + 1) : l[j] = s[j - 1]
    BY <1>1, <1>2
  <2>2. /\ h \in [2..(Len(s) + 1) -> 1..Len(s)]
        /\ \A j \in 2..(Len(s) + 1) : h[j] = j - 1
    BY <1>1
  <2>3. (1..(Len(s) + 1)) \ {1} = 2..(Len(s) + 1) /\ 1 \in 1..(Len(s) + 1)
    BY <1>1
  <2> HIDE DEF h, l
  <2>4. \A i, j \in 2..(Len(s) + 1) : h[i] = h[j] => i = j
    BY <2>2
  <2>5. /\ 1 \in DOMAIN l /\ l[1] = e /\ h \in [DOMAIN l \ {1} -> DOMAIN s]
        /\ \A j \in DOMAIN l \ {1} : l[j] = s[h[j]] /\ \A i \in DOMAIN l \ {1} : h[i] = h[j] => i = j
    BY <1>1, <2>1, <2>2, <2>3, <2>4
  <2>6. QED
    BY <2>5, Zenon DEF Lengthens
<1>3. CASE ~prepend
  <2> DEFINE h == [j \in 1..Len(s) |-> j]
  <2>1. DOMAIN l = 1..(Len(s) + 1) /\ l[Len(s) + 1] = e /\ \A j \in 1..Len(s) : l[j] = s[j]
    BY <1>1, <1>3
  <2>2. h \in [1..Len(s) -> 1..Len(s)] /\ \A j \in 1..Len(s) : h[j] = j
    OBVIOUS
  <2>3. (1..(Len(s) + 1)) \ {Len(s) + 1} = 1..Len(s) /\ Len(s) + 1 \in 1..(Len(s) + 1)
    BY <1>1
  <2> HIDE DEF h, l
  <2>4. \A i, j \in 1..Len(s) : h[i] = h[j] => i = j
    BY <2>2
  <2> DEFINE p == Len(s) + 1
  <2>5. /\ p \in DOMAIN l /\ l[p] = e /\ h \in [DOMAIN l \ {p} -> DOMAIN s]
        /\ \A j \in DOMAIN l \ {p} : l[j] = s[h[j]] /\ \A i \in DOMAIN l \ {p} : h[i] = h[j] => i = j
    BY <1>1, <2>1, <2>2, <2>3, <2>4
  <2> HIDE DEF p
  <2>6. QED
    BY <2>5, Zenon DEF Lengthens
<1>4. QED
  BY <1>2, <1>3

\* _addListener adds the one listener, and has a table.
LEMMA AddOne ==
  ASSUME Sound(em), Made(em), Unique(em), NEW t \in Types, NEW e \in Entries, NEW prepend \in BOOLEAN,
         e.id = 0 \/ ~Held(em, e.id)
  PROVE  LET n == AddListener(em, t, e, prepend)
         IN  Made(n) /\ Unique(n) /\ \A o : Held(n, o) => Held(em, o) \/ o = e.id
<1> DEFINE b == IF em.present THEN em ELSE Wiped
           n == AddListener(em, t, e, prepend)
           s == b.slot[t].list
           l == IF prepend THEN <<e>> \o s ELSE Append(s, e)
<1>1. /\ b \in EmitterType(Entries) /\ Shaped(b) /\ b.slot \in [Types -> SlotType(Entries)]
      /\ b.present /\ \A u \in Types : b.slot[u] = em.slot[u]
  <2>1. CASE em.present
    BY <2>1 DEF Sound, EmitterType
  <2>2. CASE ~em.present
    <3>1. Wiped \in EmitterType(Entries) /\ Shaped(Wiped)
      BY WipedSound
    <3>2. Wiped.present /\ \A u \in Types : Wiped.slot[u] = Empty
      BY DEF Wiped, NewEmitter
    <3>3. \A u \in Types : em.slot[u] = Empty
      BY <2>2 DEF Made
    <3>4. QED
      BY <2>2, <3>1, <3>2, <3>3 DEF EmitterType
  <2>3. QED
    BY <2>1, <2>2
<1>2. s \in Seq(Entries)
  BY <1>1 DEF SlotType
<1>3. n = IF Has(b, t) THEN Put(b, t, Arr(l), b.count) ELSE Put(b, t, Fn(e), b.count + 1)
  BY DEF AddListener
<1> HIDE DEF b, n
<1>4. ~Has(b, t) => s = << >> /\ l = <<e>>
  <2>1. ~Has(b, t) => s = << >>
    BY <1>1, <1>2 DEF Has, Shaped, SlotShaped
  <2>2. s = << >> => l = <<e>>
    OBVIOUS
  <2>3. QED
    BY <2>1, <2>2
<1>5. n.present /\ \E x : x.list = l /\ n.slot = [b.slot EXCEPT ![t] = x]
  <2> HIDE DEF l
  <2>1. CASE Has(b, t)
    <3>1. n = Put(b, t, Arr(l), b.count)
      BY <1>3, <2>1
    <3>2. n.slot = [b.slot EXCEPT ![t] = Arr(l)] /\ n.present = b.present /\ Arr(l).list = l
      BY <1>1, <3>1 DEF Put, EmitterType, Arr
    <3>3. QED
      BY <1>1, <3>2
  <2>2. CASE ~Has(b, t)
    <3>1. n = Put(b, t, Fn(e), b.count + 1)
      BY <1>3, <2>2
    <3>2. n.slot = [b.slot EXCEPT ![t] = Fn(e)] /\ n.present = b.present /\ Fn(e).list = <<e>>
      BY <1>1, <3>1 DEF Put, EmitterType, Fn
    <3>3. QED
      BY <1>1, <1>4, <2>2, <3>2
  <2>3. QED
    BY <2>1, <2>2
<1>6. PICK x : x.list = l /\ n.slot = [b.slot EXCEPT ![t] = x]
  BY <1>5
<1>7. n.slot[t].list = l /\ (\A u \in Types \ {t} : n.slot[u] = em.slot[u]) /\ em.slot[t].list = s
  BY <1>1, <1>6 DEF s
<1>8. PICK p \in DOMAIN l : /\ l[p] = e
                            /\ \E h \in [DOMAIN l \ {p} -> DOMAIN s] : \A j \in DOMAIN l \ {p} :
                                 l[j] = s[h[j]] /\ \A i \in DOMAIN l \ {p} : h[i] = h[j] => i = j
  <2>1. Lengthens(l, s, e)
    BY <1>2, Longer
  <2> HIDE DEF l, s
  <2>2. QED
    BY <2>1 DEF Lengthens
<1> HIDE DEF l, s
<1>9. PICK h \in [DOMAIN l \ {p} -> DOMAIN s] : \A j \in DOMAIN l \ {p} :
        l[j] = s[h[j]] /\ \A i \in DOMAIN l \ {p} : h[i] = h[j] => i = j
  BY <1>8
<1>10. p \in DOMAIN n.slot[t].list /\ n.slot[t].list[p] = e /\ h \in [DOMAIN n.slot[t].list \ {p} -> DOMAIN em.slot[t].list]
  BY <1>7, <1>8, <1>9
<1>11. \A j \in DOMAIN n.slot[t].list \ {p} :
           /\ n.slot[t].list[j] = em.slot[t].list[h[j]]
           /\ \A i \in DOMAIN n.slot[t].list \ {p} : h[i] = h[j] => i = j
  BY <1>7, <1>9
<1>12. Unique(n) /\ \A o : Held(n, o) => Held(em, o) \/ o = n.slot[t].list[p].id
  BY <1>7, <1>10, <1>11, OneMore
<1>13. QED
  BY <1>5, <1>10, <1>12 DEF Made, n

\* The frames of s that wait to set state.fired are those of r.
FiresOf(s, r) == \A j \in DOMAIN s : s[j].k = "fire" => j \in DOMAIN r /\ r[j] = s[j]

\* No frame is about to call a listener.
Calm(s) == \A j \in DOMAIN s : s[j].k # "invoke"

\* Loops that lose their array are the same frames otherwise.
LEMMA RebindKeeps ==
  ASSUME Sound(em), NEW new, NEW frames \in Seq(Frames)
  PROVE  /\ FiresOf(Rebind(frames, new), frames)
         /\ Calm(frames) => Calm(Rebind(frames, new))
<1> DEFINE g(f) == IF f.k = "clear" /\ f.live /\ new.slot[f.t].kind # "list"
                   THEN [f EXCEPT !.live = FALSE,
                                  !.es = IF Has(new, f.t) THEN new.slot[f.t].list
                                                          ELSE em.slot[f.t].list]
                   ELSE f
<1>1. ASSUME NEW f \in Frames PROVE g(f).k = f.k /\ (f.k # "clear" => g(f) = f)
  <2>1. CASE f.k = "clear"
    <3>1. f \in [k : {"clear"}, t : Types, i : Nat, live : BOOLEAN, es : Seq(Entries)]
      BY <2>1 DEF Frames
    <3>2. QED
      BY <2>1, <3>1
  <2>2. CASE f.k # "clear"
    BY <2>2
  <2>3. QED
    BY <2>1, <2>2
<1>2. Rebind(frames, new) = [j \in DOMAIN frames |-> g(frames[j])]
  BY DEF Rebind
<1>3. \A j \in DOMAIN frames : frames[j] \in Frames
  BY ElementOfSeq
<1> HIDE DEF g
<1> DEFINE r == Rebind(frames, new)
<1>4. DOMAIN r = DOMAIN frames /\ \A j \in DOMAIN frames : r[j] = g(frames[j])
  BY <1>2
<1> HIDE DEF r
<1>5. FiresOf(r, frames)
  BY <1>1, <1>3, <1>4 DEF FiresOf
<1>6. Calm(frames) => Calm(r)
  BY <1>1, <1>3, <1>4 DEF Calm
<1>7. QED
  BY <1>5, <1>6 DEF r

\* Fewer frames that wait, and fewer listeners.
LEMMA FiringLess ==
  ASSUME NEW r, NEW s, NEW m, NEW n, NEW F, NEW u, Firing(r, m, F, u), FiresOf(s, r),
         \A o : Held(n, o) => Held(m, o)
  PROVE  Firing(s, n, F, u)
BY DEF Firing, FiresOf

\* A removal calls a lone 'removeListener' handler, as the table is after it.
LEMMA RemovalCalled ==
  ASSUME Sound(em), NEW frames \in Seq(Frames), Calm(frames), NEW t \in Types, NEW l
  PROVE  /\ Called(AfterRemoval(frames, t, l), RemoveListener(em, t, l))
         /\ FiresOf(AfterRemoval(frames, t, l), frames)
<1> DEFINE new  == RemoveListener(em, t, l)
           kept == Rebind(frames, new)
           call == Invoke("removeListener", Callee(new, "removeListener"))
           s    == AfterRemoval(frames, t, l)
<1>1. FiresOf(kept, frames) /\ Calm(kept)
  BY RebindKeeps
<1>2. kept \in Seq(Frames)
  BY OpsSound, RebindTyped
<1>3. s = IF AnnouncesRemoval(em, t, l) /\ Calls(new, "removeListener") THEN Append(kept, call) ELSE kept
  BY DEF AfterRemoval
<1>4. call.k = "invoke" /\ call.t = "removeListener" /\ call.e = new.slot["removeListener"].list[1]
  BY DEF Invoke, Callee
<1> HIDE DEF new, kept, call, s
<1>5. CASE AnnouncesRemoval(em, t, l) /\ Calls(new, "removeListener")
  <2>1. /\ Len(kept) \in Nat /\ DOMAIN kept = 1..Len(kept) /\ s = Append(kept, call)
        /\ Len(s) = Len(kept) + 1 /\ DOMAIN s = 1..(Len(kept) + 1) /\ s[Len(kept) + 1] = call
        /\ \A j \in 1..Len(kept) : s[j] = kept[j]
    BY <1>2, <1>3, <1>5
  <2>2. ASSUME NEW j \in DOMAIN s
        PROVE  (j \in DOMAIN kept /\ s[j] = kept[j]) \/ (j = Len(s) /\ s[j] = call)
    <3>1. CASE j = Len(kept) + 1
      BY <2>1, <3>1
    <3>2. CASE j # Len(kept) + 1
      <4>1. j \in 1..Len(kept)
        BY <2>1, <3>2
      <4>2. QED
        BY <2>1, <4>1
    <3>3. QED
      BY <3>1, <3>2
  <2>3. Called(s, new)
    BY <1>1, <1>4, <1>5, <2>2 DEF Called, Calm, Calls
  <2>4. FiresOf(s, frames)
    BY <1>1, <1>4, <2>2 DEF FiresOf
  <2>5. QED
    BY <2>3, <2>4 DEF s, new
<1>6. CASE ~(AnnouncesRemoval(em, t, l) /\ Calls(new, "removeListener"))
  <2>1. s = kept
    BY <1>3, <1>6
  <2>2. Called(s, new) /\ FiresOf(s, frames)
    BY <1>1, <2>1 DEF Called, Calm
  <2>3. QED
    BY <2>2 DEF s, new
<1>7. QED
  BY <1>5, <1>6

\* A step that makes no wrapper, and after which no frame waits that did not before.
LEMMA LessStep ==
  ASSUME OInv, Made(em'), Thinner(em, em'), Called(stack', em'), FiresOf(stack', stack),
         UNCHANGED <<used, fired, runs>>
  PROVE  OInv'
<1>1. Unique(em') /\ \A o : Held(em', o) => Held(em, o)
  BY ThinnerKeeps DEF OInv
<1>2. Firing(stack', em', fired', used')
  <2>1. Firing(stack', em', fired, used)
    BY <1>1, FiringLess DEF OInv
  <2>2. fired' = fired /\ used' = used
    OBVIOUS
  <2>3. QED
    BY <2>1, <2>2 DEF Firing
<1>3. /\ fired' \subseteq 1..used' /\ \A o \in Onces : Held(em', o) => o <= used' /\ o \notin fired'
      /\ runs' = [o \in Onces |-> IF o \in fired' THEN 1 ELSE 0]
  BY <1>1 DEF OInv, Counted
<1>4. QED
  BY <1>1, <1>2, <1>3 DEF OInv, Counted, Made, Unique, Called, Firing, Held

\* The stack under user code, and under the innermost frame, calls no listener.
LEMMA CalmBelow ==
  ASSUME IInv, OInv
  PROVE  /\ UserCode => Calm(stack)
         /\ stack # << >> =>
              /\ Calm(Below) /\ FiresOf(Below, stack)
              /\ \A f : f.k \notin {"invoke", "fire"} =>
                   Calm(Append(Below, f)) /\ FiresOf(Append(Below, f), stack)
<1>1. stack \in Seq(Frames) /\ Len(stack) \in Nat /\ DOMAIN stack = 1..Len(stack)
  BY DEF IInv
<1>2. \A j \in DOMAIN stack : stack[j].k = "invoke" => j = Len(stack)
  BY DEF OInv, Called
<1>3. UserCode => Calm(stack)
  BY <1>1, <1>2 DEF UserCode, Top, Calm
<1>4. ASSUME stack # << >>
      PROVE  /\ Calm(Below) /\ FiresOf(Below, stack)
             /\ \A f : f.k \notin {"invoke", "fire"} =>
                  Calm(Append(Below, f)) /\ FiresOf(Append(Below, f), stack)
  <2> DEFINE b == Below
  <2>1. Len(stack) >= 1
    BY <1>1, <1>4
  <2>2. b \in Seq(Frames) /\ Len(b) = Len(stack) - 1 /\ DOMAIN b = 1..(Len(stack) - 1)
        /\ \A j \in 1..(Len(stack) - 1) : b[j] = stack[j]
    BY <1>1, <2>1 DEF Below, Front
  <2> HIDE DEF b
  <2>3. \A j \in DOMAIN b : j \in DOMAIN stack /\ b[j] = stack[j] /\ j # Len(stack)
    BY <1>1, <2>1, <2>2
  <2>4. Calm(b) /\ FiresOf(b, stack)
    BY <1>2, <2>3 DEF Calm, FiresOf
  <2>5. ASSUME NEW f, f.k \notin {"invoke", "fire"} PROVE Calm(Append(b, f)) /\ FiresOf(Append(b, f), stack)
    <3> DEFINE s == Append(b, f)
    <3>1. \A j \in DOMAIN s : (j \in DOMAIN b /\ s[j] = b[j]) \/ s[j] = f
      BY <2>2
    <3> HIDE DEF s
    <3>2. Calm(s) /\ FiresOf(s, stack)
      BY <2>4, <2>5, <3>1 DEF Calm, FiresOf
    <3>3. QED
      BY <3>2 DEF s
  <2>6. QED
    BY <2>4, <2>5 DEF b
<1>5. QED
  BY <1>3, <1>4

\* Frames above which nothing calls.
LEMMA CalmCalled == ASSUME NEW s, NEW m, Calm(s) PROVE Called(s, m)
BY DEF Calm, Called

\* Of frames of frames.
LEMMA FiresOfOf ==
  ASSUME NEW q, NEW r, NEW s, FiresOf(s, r), FiresOf(r, q) PROVE FiresOf(s, q)
BY DEF FiresOf

\* What removeAllListeners(t) does before its loop.
LEMMA StartClearLess ==
  ASSUME IInv, OInv, NEW frames \in Seq(Frames), Calm(frames), FiresOf(frames, stack), NEW t \in Types,
         StartClear(frames, t)
  PROVE  Made(em') /\ Thinner(em, em') /\ Called(stack', em') /\ FiresOf(stack', stack)
<1> DEFINE s == em.slot[t]
<1>0. s.kind \in {"none", "fn", "list"} /\ em \in EmitterType(Entries) /\ Made(em) /\ Sound(em)
  BY DEF Sound, EmitterType, SlotType, IInv, OInv
<1>1. CASE ~Has(em, "removeListener")
  <2>1. em' = ClearUnwatched(em, t) /\ stack' = Rebind(frames, em')
    BY <1>1 DEF StartClear
  <2>2. Made(em') /\ Thinner(em, em')
    <3>1. CASE em' = em
      BY <1>0, <3>1, ThinnerSame
    <3>2. CASE em' = Wiped
      <4>1. Wiped.present /\ \A u \in Types : Wiped.slot[u].list = << >>
        BY DEF Wiped, NewEmitter, Empty
      <4>2. QED
        BY <3>2, <4>1, ThinnerSame DEF Made
    <3>3. CASE em' = [em EXCEPT !.count = @ - 1, !.drift = @ + 1]
      <4>1. em'.present = em.present /\ em'.slot = em.slot
        BY <1>0, <3>3 DEF EmitterType
      <4>2. Thinner(em, em')
        BY <4>1, ThinnerSame
      <4>3. QED
        BY <1>0, <4>1, <4>2 DEF Made
    <3>4. QED
      BY <2>1, <3>1, <3>2, <3>3 DEF ClearUnwatched
  <2>3. FiresOf(stack', frames) /\ Calm(stack')
    BY <1>0, <2>1, RebindKeeps
  <2>4. QED
    BY <2>2, <2>3, FiresOfOf, CalmCalled
<1>2. CASE Has(em, "removeListener") /\ s.kind = "fn"
  <2>1. em' = RemoveListener(em, t, s.list[1]) /\ stack' = AfterRemoval(frames, t, s.list[1])
    BY <1>2 DEF StartClear
  <2>2. Made(em') /\ Thinner(em, em')
    BY <1>0, <2>1, RemoveThinner
  <2>3. Called(stack', em') /\ FiresOf(stack', frames)
    BY <1>0, <2>1, RemovalCalled
  <2>4. QED
    BY <2>2, <2>3, FiresOfOf
<1>3. CASE Has(em, "removeListener") /\ s.kind = "list"
  <2> DEFINE f == Clear(t, Len(s.list))
  <2>1. em' = em /\ stack' = Append(frames, f)
    BY <1>3 DEF StartClear
  <2>2. f.k = "clear"
    BY DEF Clear
  <2> HIDE DEF f
  <2>3. \A j \in DOMAIN Append(frames, f) : (j \in DOMAIN frames /\ Append(frames, f)[j] = frames[j]) \/ Append(frames, f)[j] = f
    OBVIOUS
  <2>4. Calm(stack') /\ FiresOf(stack', frames)
    BY <2>1, <2>2, <2>3 DEF Calm, FiresOf
  <2>5. Thinner(em, em')
    BY <2>1, ThinnerSame
  <2>6. QED
    BY <1>0, <2>1, <2>4, <2>5, FiresOfOf, CalmCalled
<1>4. CASE Has(em, "removeListener") /\ s.kind = "none"
  <2>1. em' = em /\ stack' = frames
    BY <1>4 DEF StartClear
  <2>2. Thinner(em, em')
    BY <2>1, ThinnerSame
  <2>3. QED
    BY <1>0, <2>1, <2>2, CalmCalled
<1>5. QED
  BY <1>0, <1>1, <1>2, <1>3, <1>4

\* An exception leaves a beginning of the stack.
LEMMA UnwindLess ==
  ASSUME IInv, OInv, Unwind, em' = em
  PROVE  Made(em') /\ Thinner(em, em') /\ Called(stack', em') /\ FiresOf(stack', stack)
<1>1. PICK n \in 0..(Len(stack) - 1) : stack' = SubSeq(stack, 1, n)
  BY DEF Unwind
<1>2. stack \in Seq(Frames) /\ Len(stack) \in Nat /\ DOMAIN stack = 1..Len(stack)
  BY DEF IInv
<1> DEFINE b == SubSeq(stack, 1, n)
<1>3. DOMAIN b = 1..n /\ \A j \in 1..n : b[j] = stack[j]
  BY <1>2, SubSeqProperties
<1> HIDE DEF b
<1>4. \A j \in DOMAIN b : j \in DOMAIN stack /\ b[j] = stack[j] /\ j # Len(stack)
  BY <1>2, <1>3
<1>5. Calm(b) /\ FiresOf(b, stack)
  BY <1>4 DEF Calm, FiresOf, OInv, Called
<1>6. QED
  BY <1>1, <1>5, CalmCalled, ThinnerSame DEF b, OInv

\* Once it has taken itself out, a wrapper is in no slot.
LEMMA OnceOut ==
  ASSUME IInv, OInv, NEW t \in Types, NEW e \in Entries, e.id # 0,
         em.slot[t].kind = "fn", em.slot[t].list[1] = e
  PROVE  Held(em, e.id) /\ ~Held(RemoveListener(em, t, e), e.id)
<1> DEFINE s == em.slot[t]
           n == RemoveListener(em, t, e)
<1>0. em \in EmitterType(Entries) /\ em.slot \in [Types -> SlotType(Entries)] /\ SlotShaped(s) /\ s.list \in Seq(Entries)
  BY DEF IInv, Sound, EmitterType, Shaped, SlotType
<1>1. Len(s.list) = 1 /\ DOMAIN s.list = {1}
  BY <1>0 DEF SlotShaped
<1>2. Held(em, e.id)
  BY <1>1 DEF Held
<1>3. em.present
  BY DEF OInv, Made, Empty
<1>4. 1 \in Positions(em, t, e)
  BY <1>1 DEF Positions, Matches
<1>5. n = IF em.count = 1 THEN Wiped ELSE Put(em, t, Empty, em.count - 1)
  BY <1>3, <1>4 DEF RemoveListener
<1> HIDE DEF n
<1>6. \A u \in Types : n.slot[u].list = << >> \/ (u # t /\ n.slot[u] = em.slot[u])
  <2>1. CASE n = Wiped
    BY <2>1 DEF Wiped, NewEmitter, Empty
  <2>2. CASE n = Put(em, t, Empty, em.count - 1)
    <3>1. n.slot = [em.slot EXCEPT ![t] = Empty]
      BY <1>0, <2>2 DEF Put, EmitterType
    <3>2. QED
      BY <1>0, <3>1 DEF Empty
  <2>3. QED
    BY <1>5, <2>1, <2>2
<1>7. ASSUME Held(n, e.id) PROVE FALSE
  <2>1. PICK u \in Types : \E i \in DOMAIN n.slot[u].list : n.slot[u].list[i].id = e.id
    BY <1>7 DEF Held
  <2>2. PICK i \in DOMAIN n.slot[u].list : n.slot[u].list[i].id = e.id
    BY <2>1
  <2>3. u # t /\ n.slot[u] = em.slot[u]
    BY <1>6, <2>2
  <2>4. QED
    BY <1>1, <2>2, <2>3 DEF OInv, Unique
<1>8. QED
  BY <1>2, <1>7 DEF n

\* A new listener leaves the wrappers that wait, or have fired, in no slot.
LEMMA AddStep ==
  ASSUME IInv, OInv, UserCode, NEW t \in Types, NEW e \in Entries, NEW p \in BOOLEAN,
         em' = AddListener(em, t, e, p), UNCHANGED <<stack, fired, runs>>,
         \/ e.id = 0 /\ used' = used
         \/ e.id = used + 1 /\ used' = used + 1 /\ used < MaxOnce
  PROVE  OInv'
<1>1. Sound(em) /\ HistoryOK /\ Made(em) /\ Unique(em) /\ Firing(stack, em, fired, used) /\ Counted
  BY DEF IInv, OInv
<1>2. used \in 0..MaxOnce /\ MaxOnce \in Nat /\ used' \in Nat /\ used <= used'
  BY <1>1 DEF HistoryOK
<1>3. e.id = 0 \/ ~Held(em, e.id)
  <2>1. CASE e.id = used + 1 /\ used < MaxOnce
    <3>1. used + 1 \in Onces /\ ~(used + 1 <= used)
      BY <1>2, <2>1 DEF Onces
    <3>2. QED
      BY <1>1, <2>1, <3>1 DEF Counted
  <2>2. QED
    BY <2>1
<1>4. Made(em') /\ Unique(em') /\ \A o : Held(em', o) => Held(em, o) \/ o = e.id
  BY <1>1, <1>3, AddOne
<1>5. Called(stack', em')
  <2>1. Calm(stack)
    BY CalmBelow
  <2>2. QED
    BY <2>1, CalmCalled
<1>6. Firing(stack', em', fired', used')
  <2>1. stack' = stack /\ fired' = fired
    OBVIOUS
  <2>2. ASSUME NEW j \in DOMAIN stack, stack[j].k = "fire"
        PROVE  /\ stack[j].e.id \notin fired /\ stack[j].e.id <= used' /\ ~Held(em', stack[j].e.id)
               /\ \A i \in DOMAIN stack : stack[i].k = "fire" /\ stack[i].e.id = stack[j].e.id => i = j
    <3>1. stack[j] \in Frames
      BY ElementOfSeq DEF IInv
    <3>2. stack[j] \in [k : {"fire"}, e : [fn : Handlers, id : Onces]]
      BY <2>2, <3>1 DEF Frames
    <3>3. stack[j].e.id \in 1..MaxOnce
      BY <3>2 DEF Onces
    <3>4. stack[j].e.id \notin fired /\ stack[j].e.id <= used /\ ~Held(em, stack[j].e.id)
          /\ \A i \in DOMAIN stack : stack[i].k = "fire" /\ stack[i].e.id = stack[j].e.id => i = j
      BY <1>1, <2>2 DEF Firing
    <3>5. stack[j].e.id # e.id
      BY <1>2, <3>3, <3>4
    <3>6. QED
      BY <1>2, <1>4, <3>3, <3>4, <3>5
  <2>3. QED
    BY <2>1, <2>2 DEF Firing
<1>7. /\ fired' \subseteq 1..used' /\ \A o \in Onces : Held(em', o) => o <= used' /\ o \notin fired'
      /\ runs' = [o \in Onces |-> IF o \in fired' THEN 1 ELSE 0]
  <2>1. fired' = fired /\ runs' = runs
    OBVIOUS
  <2>2. fired \subseteq 1..used'
    BY <1>1, <1>2 DEF Counted
  <2>3. ASSUME NEW o \in Onces, Held(em', o) PROVE o <= used' /\ o \notin fired
    <3>1. o \in Nat \ {0}
      BY DEF Onces
    <3>2. CASE Held(em, o)
      BY <1>1, <1>2, <3>1, <3>2 DEF Counted
    <3>3. CASE o = e.id
      BY <1>1, <1>2, <3>1, <3>3 DEF Counted
    <3>4. QED
      BY <1>4, <2>3, <3>2, <3>3
  <2>4. QED
    BY <1>1, <2>1, <2>2, <2>3 DEF Counted
<1>8. QED
  BY <1>4, <1>5, <1>6, <1>7 DEF OInv, Counted, Made, Unique, Called, Firing, Held

\* emit() is about to call the lone listener of its type.
LEMMA EmitStep ==
  ASSUME IInv, OInv, NEW t \in Types, Emit(t)
  PROVE  OInv'
<1> DEFINE f == Invoke(t, Callee(em, t))
           s == Append(stack, f)
<1>1. f.k = "invoke" /\ f.t = t /\ f.e = em.slot[t].list[1] /\ em.slot[t].kind = "fn"
  BY DEF Invoke, Callee, Emit, Calls
<1>2. Calm(stack)
  BY CalmBelow DEF Emit
<1>3. stack \in Seq(Frames)
  BY DEF IInv
<1>4. em' = em /\ stack' = s /\ UNCHANGED <<used, fired, runs>>
  BY DEF Emit
<1> HIDE DEF f
<1>5. /\ Len(stack) \in Nat /\ DOMAIN stack = 1..Len(stack)
      /\ Len(s) = Len(stack) + 1 /\ DOMAIN s = 1..(Len(stack) + 1) /\ s[Len(stack) + 1] = f
      /\ \A j \in 1..Len(stack) : s[j] = stack[j]
  BY <1>3
<1> HIDE DEF s
<1>6. ASSUME NEW j \in DOMAIN s
      PROVE  (j \in DOMAIN stack /\ s[j] = stack[j]) \/ (j = Len(s) /\ s[j] = f)
  <2>1. CASE j = Len(stack) + 1
    BY <1>5, <2>1
  <2>2. CASE j # Len(stack) + 1
    <3>1. j \in 1..Len(stack)
      BY <1>5, <2>2
    <3>2. QED
      BY <1>5, <3>1
  <2>3. QED
    BY <2>1, <2>2
<1>7. Called(s, em)
  BY <1>1, <1>2, <1>6 DEF Called, Calm
<1>8. FiresOf(s, stack)
  BY <1>1, <1>6 DEF FiresOf
<1>9. Thinner(em, em)
  BY ThinnerSame
<1>10. QED
  BY <1>4, <1>7, <1>8, <1>9, LessStep DEF OInv

\* The innermost frame is one of the stack.
LEMMA TopAt ==
  ASSUME IInv, stack # << >>, NEW f
  PROVE  /\ Len(stack) \in DOMAIN stack /\ Top = stack[Len(stack)]
         /\ Len(stack) \in DOMAIN Append(Below, f) /\ Append(Below, f)[Len(stack)] = f
         /\ \A j \in DOMAIN Append(Below, f) \ {Len(stack)} :
              j \in DOMAIN stack /\ Append(Below, f)[j] = stack[j]
<1> DEFINE b == Below
           g == Append(b, f)
           n == Len(stack)
<1>1. stack \in Seq(Frames) /\ n \in Nat /\ DOMAIN stack = 1..n
  BY DEF IInv
<1>2. n >= 1
  BY <1>1
<1>3. Len(b) = n - 1 /\ DOMAIN b = 1..(n - 1) /\ b \in Seq(Frames)
      /\ \A j \in 1..(n - 1) : b[j] = stack[j]
  BY <1>1, <1>2 DEF Below, Front
<1> HIDE DEF b, n
<1>4. Len(g) = n /\ DOMAIN g = 1..n
  BY <1>1, <1>2, <1>3
<1>5. g[n] = f
  BY <1>1, <1>2, <1>3
<1>6. \A j \in 1..(n - 1) : g[j] = b[j]
  BY <1>1, <1>2, <1>3
<1> HIDE DEF g
<1>7. \A j \in DOMAIN g \ {n} : j \in 1..(n - 1)
  BY <1>1, <1>2, <1>4
<1>8. \A j \in DOMAIN g \ {n} : j \in DOMAIN stack /\ g[j] = stack[j]
  <2>1. \A j \in 1..(n - 1) : j \in 1..n
    BY <1>1, <1>2
  <2>2. QED
    BY <1>1, <1>3, <1>6, <1>7, <2>1
<1>9. n \in DOMAIN stack /\ n \in DOMAIN g
  BY <1>1, <1>2, <1>4
<1>10. QED
  BY <1>5, <1>8, <1>9 DEF b, n, g, Top

\* A wrapper takes itself out before it fires; the frame of its firing is the only one.
LEMMA InvokeStep ==
  ASSUME IInv, OInv, StepInvoke
  PROVE  OInv'
<1> DEFINE e == Top.e
           t == Top.t
           g == Append(Below, Fire(e))
<1>0. stack # << >> /\ Top.k = "invoke" /\ UNCHANGED <<used, fired, runs>>
  BY DEF StepInvoke, TopIs
<1>1. Top \in [k : {"invoke"}, t : Types, e : Entries] /\ Below \in Seq(Frames) /\ Sound(em) /\ Made(em)
  BY <1>0, TopTyped DEF IInv, Frames, OInv
<1>2. Calm(Below) /\ FiresOf(Below, stack)
  BY <1>0, CalmBelow
<1>3. CASE e.id = 0
  <2>1. em' = em /\ stack' = Append(Below, Body)
    BY <1>3 DEF StepInvoke
  <2>2. Calm(stack') /\ FiresOf(stack', stack)
    <3>1. Body.k = "body"
      BY DEF Body
    <3>2. QED
      BY <1>0, <2>1, <3>1, CalmBelow
  <2>3. Thinner(em, em')
    BY <2>1, ThinnerSame
  <2>4. QED
    BY <1>0, <1>1, <2>1, <2>2, <2>3, LessStep, CalmCalled
<1>4. CASE e.id # 0 /\ e.id \in fired
  <2>1. em' = em /\ stack' = Below
    BY <1>4 DEF StepInvoke
  <2>2. Thinner(em, em')
    BY <2>1, ThinnerSame
  <2>3. QED
    BY <1>0, <1>1, <1>2, <2>1, <2>2, LessStep, CalmCalled
<1>5. CASE e.id # 0 /\ e.id \notin fired
  <2>1. em' = RemoveListener(em, t, e) /\ stack' = AfterRemoval(g, t, e)
    BY <1>5 DEF StepInvoke
  <2>2. e \in Entries /\ t \in Types /\ e.id \in Onces
    BY <1>1, <1>5 DEF Entries, Onces
  <2>3. Fire(e) \in Frames /\ Fire(e).k = "fire" /\ Fire(e).e = e
    BY <1>1, <2>2 DEF Fire, Frames, Entries
  <2>4. /\ Len(stack) \in DOMAIN g /\ g[Len(stack)] = Fire(e)
        /\ \A j \in DOMAIN g \ {Len(stack)} : j \in DOMAIN stack /\ g[j] = stack[j]
        /\ Len(stack) \in DOMAIN stack /\ Top = stack[Len(stack)]
    BY <1>0, TopAt
  <2>5. g \in Seq(Frames)
    BY <1>1, <2>3, AppendProperties
  <2>6. em.slot[t].kind = "fn" /\ em.slot[t].list[1] = e
    BY <1>0, <2>4 DEF OInv, Called
  <2>7. Held(em, e.id) /\ ~Held(em', e.id)
    BY <1>5, <2>1, <2>2, <2>6, OnceOut
  <2>8. Made(em') /\ Unique(em') /\ \A o : Held(em', o) => Held(em, o)
    BY <1>1, <2>1, <2>2, RemoveThinner, ThinnerKeeps DEF OInv
  <2>9. \A j \in DOMAIN stack : stack[j].k = "invoke" => j = Len(stack)
    BY DEF OInv, Called
  <2> HIDE DEF g
  <2>10. Calm(g)
    BY <2>3, <2>4, <2>9 DEF Calm
  <2>11. Called(stack', em') /\ FiresOf(stack', g)
    BY <1>1, <2>1, <2>2, <2>5, <2>10, RemovalCalled
  <2>12. Firing(g, em', fired, used)
    <3>1. e.id \notin fired /\ e.id <= used
      BY <1>5, <2>2, <2>7 DEF OInv, Counted
    <3>2. \A j \in DOMAIN stack : stack[j].k = "fire" =>
            /\ stack[j].e.id \notin fired /\ stack[j].e.id <= used /\ ~Held(em, stack[j].e.id)
            /\ \A i \in DOMAIN stack : stack[i].k = "fire" /\ stack[i].e.id = stack[j].e.id => i = j
      BY DEF OInv, Firing
    <3>3. ASSUME NEW j \in DOMAIN g, g[j].k = "fire"
          PROVE  /\ g[j].e.id \notin fired /\ g[j].e.id <= used /\ ~Held(em', g[j].e.id)
                 /\ \A i \in DOMAIN g : g[i].k = "fire" /\ g[i].e.id = g[j].e.id => i = j
      <4>1. CASE j = Len(stack)
        BY <2>3, <2>4, <2>7, <3>1, <3>2, <4>1
      <4>2. CASE j # Len(stack)
        BY <2>3, <2>4, <2>7, <2>8, <3>2, <3>3, <4>2
      <4>3. QED
        BY <4>1, <4>2
    <3>4. QED
      BY <3>3 DEF Firing
  <2>13. Firing(stack', em', fired, used)
    BY <2>11, <2>12, FiringLess
  <2>14. fired' = fired /\ used' = used /\ runs' = runs
    BY <1>0
  <2>15. Firing(stack', em', fired', used')
    BY <2>13, <2>14 DEF Firing
  <2>16. /\ fired' \subseteq 1..used'
         /\ \A o \in Onces : Held(em', o) => o <= used' /\ o \notin fired'
         /\ runs' = [o \in Onces |-> IF o \in fired' THEN 1 ELSE 0]
    BY <2>8, <2>14 DEF OInv, Counted
  <2>17. QED
    BY <2>8, <2>11, <2>15, <2>16 DEF OInv, Counted, Made, Unique, Called, Firing, Held
<1>6. QED
  BY <1>3, <1>4, <1>5

\* The wrapper sets state.fired and calls: no other frame is to fire it.
LEMMA FireStep ==
  ASSUME IInv, OInv, StepFire
  PROVE  OInv'
<1> DEFINE e == Top.e
           g == Append(Below, Body)
<1>0. /\ stack # << >> /\ Top.k = "fire" /\ UNCHANGED <<em, used>>
      /\ fired' = fired \cup {e.id} /\ runs' = [runs EXCEPT ![e.id] = @ + 1] /\ stack' = g
  BY DEF StepFire, TopIs
<1>1. Top \in [k : {"fire"}, e : [fn : Handlers, id : Onces]] /\ runs \in [Onces -> Nat]
  BY <1>0, TopTyped DEF IInv, Frames, HistoryOK
<1>2. e.id \in 1..MaxOnce /\ Onces = 1..MaxOnce
  BY <1>1 DEF Onces
<1>3. /\ Len(stack) \in DOMAIN g /\ g[Len(stack)] = Body
      /\ \A j \in DOMAIN g \ {Len(stack)} : j \in DOMAIN stack /\ g[j] = stack[j]
      /\ Len(stack) \in DOMAIN stack /\ Top = stack[Len(stack)]
  BY <1>0, TopAt
<1>4. Body.k = "body"
  BY DEF Body
<1>5. \A j \in DOMAIN stack : stack[j].k = "fire" =>
        /\ stack[j].e.id \notin fired /\ stack[j].e.id <= used /\ ~Held(em, stack[j].e.id)
        /\ \A i \in DOMAIN stack : stack[i].k = "fire" /\ stack[i].e.id = stack[j].e.id => i = j
  BY DEF OInv, Firing
<1>6. e.id \notin fired /\ e.id <= used /\ ~Held(em, e.id)
  BY <1>0, <1>3, <1>5
<1>7. Calm(g)
  BY <1>0, <1>4, CalmBelow
<1> HIDE DEF g
<1>8. Firing(g, em, fired', used)
  <2>1. ASSUME NEW j \in DOMAIN g, g[j].k = "fire"
        PROVE  /\ g[j].e.id \notin fired' /\ g[j].e.id <= used /\ ~Held(em, g[j].e.id)
               /\ \A i \in DOMAIN g : g[i].k = "fire" /\ g[i].e.id = g[j].e.id => i = j
    <3>1. j # Len(stack) /\ j \in DOMAIN stack /\ g[j] = stack[j] /\ stack[j].k = "fire"
      BY <1>3, <1>4, <2>1
    <3>2. g[j].e.id # e.id
      BY <1>0, <1>3, <1>5, <3>1
    <3>3. QED
      BY <1>0, <1>3, <1>4, <1>5, <3>1, <3>2
  <2>2. QED
    BY <2>1 DEF Firing
<1>9. Called(g, em)
  BY <1>7, CalmCalled
<1>10. /\ fired' \subseteq 1..used
       /\ \A o \in Onces : Held(em, o) => o <= used /\ o \notin fired'
       /\ runs' = [o \in Onces |-> IF o \in fired' THEN 1 ELSE 0]
  <2>1. fired \subseteq 1..used /\ \A o \in Onces : Held(em, o) => o <= used /\ o \notin fired
    BY DEF OInv, Counted
  <2>2. runs = [o \in Onces |-> IF o \in fired THEN 1 ELSE 0]
    BY DEF OInv, Counted
  <2>3. used \in Nat
    BY DEF IInv, HistoryOK
  <2>4. fired' \subseteq 1..used
    <3>1. e.id \in 1..used
      BY <1>2, <1>6, <2>3
    <3>2. QED
      BY <1>0, <2>1, <3>1
  <2>5. runs' = [o \in Onces |-> IF o \in fired' THEN 1 ELSE 0]
    <3> DEFINE c == e.id
    <3>1. c \in Onces /\ c \notin fired /\ fired' = fired \cup {c} /\ runs' = [runs EXCEPT ![c] = @ + 1]
      BY <1>0, <1>2, <1>6
    <3> HIDE DEF c
    <3>2. \A o \in Onces : runs'[o] = IF o \in fired' THEN 1 ELSE 0
      BY <2>2, <3>1
    <3>3. runs' = [o \in Onces |-> runs'[o]]
      BY <2>2, <3>1
    <3>4. QED
      BY <3>2, <3>3
  <2>6. QED
    BY <1>0, <1>6, <2>1, <2>4, <2>5
<1>11. em' = em /\ used' = used /\ stack' = g /\ Made(em) /\ Unique(em)
  BY <1>0 DEF g, OInv
<1>12. QED
  BY <1>8, <1>9, <1>10, <1>11 DEF OInv, Counted, Made, Unique, Called, Firing, Held

\* The loop of removeAllListeners(t).
LEMMA ClearStep ==
  ASSUME IInv, OInv, StepClear
  PROVE  OInv'
<1> DEFINE f  == Top
           es == LoopArray(f)
           h  == [f EXCEPT !.i = @ - 1]
           g  == Append(Below, h)
<1>0. stack # << >> /\ f.k = "clear" /\ UNCHANGED <<used, fired, runs>>
  BY DEF StepClear, TopIs
<1>1. /\ f \in [k : {"clear"}, t : Types, i : Nat, live : BOOLEAN, es : Seq(Entries)]
      /\ Below \in Seq(Frames) /\ Sound(em) /\ Made(em)
  BY <1>0, TopTyped DEF IInv, Frames, OInv
<1>2. CASE f.i = 0
  <2>1. em' = em /\ stack' = Below
    BY <1>2 DEF StepClear
  <2>2. Thinner(em, em')
    BY <2>1, ThinnerSame
  <2>3. Calm(Below) /\ FiresOf(Below, stack)
    BY <1>0, CalmBelow
  <2>4. QED
    BY <1>0, <1>1, <2>1, <2>2, <2>3, LessStep, CalmCalled
<1>3. CASE f.i # 0 /\ f.i > Len(es)
  BY <1>0, <1>3, UnwindLess, LessStep DEF StepClear
<1>4. CASE f.i # 0 /\ ~(f.i > Len(es))
  <2>1. em' = RemoveListener(em, f.t, es[f.i]) /\ stack' = AfterRemoval(g, f.t, es[f.i])
    BY <1>4 DEF StepClear
  <2>2. h \in [k : {"clear"}, t : Types, i : Nat, live : BOOLEAN, es : Seq(Entries)]
    BY <1>1, <1>4
  <2>3. h.k = "clear" /\ g \in Seq(Frames)
    BY <1>1, <2>2, AppendProperties DEF Frames
  <2>4. Calm(g) /\ FiresOf(g, stack)
    BY <1>0, <2>3, CalmBelow
  <2> HIDE DEF g, h, es
  <2>5. Called(stack', em') /\ FiresOf(stack', g)
    BY <1>1, <2>1, <2>3, <2>4, RemovalCalled
  <2>6. Made(em') /\ Thinner(em, em')
    BY <1>1, <2>1, RemoveThinner
  <2>7. FiresOf(stack', stack)
    BY <2>4, <2>5, FiresOfOf
  <2>8. QED
    BY <1>0, <2>5, <2>6, <2>7, LessStep
<1>5. QED
  BY <1>2, <1>3, <1>4

\* A table thrown away holds no wrapper, and the loops over it call none.
LEMMA WipedLess ==
  ASSUME IInv, OInv, NEW frames \in Seq(Frames), Calm(frames), FiresOf(frames, stack),
         em' = Wiped, stack' = Rebind(frames, Wiped), UNCHANGED <<used, fired, runs>>
  PROVE  OInv'
<1>1. Wiped.present /\ \A u \in Types : Wiped.slot[u].list = << >>
  BY DEF Wiped, NewEmitter, Empty
<1>2. Made(em') /\ Thinner(em, em')
  BY <1>1, ThinnerSame DEF Made
<1>3. FiresOf(stack', frames) /\ Calm(stack')
  BY RebindKeeps DEF IInv
<1>4. QED
  BY <1>2, <1>3, FiresOfOf, CalmCalled, LessStep

\* The loop of removeAllListeners().
LEMMA ClearAllStep ==
  ASSUME IInv, OInv, StepClearAll
  PROVE  OInv'
<1>0. stack # << >> /\ Top.k = "clearAll" /\ UNCHANGED <<used, fired, runs>>
  BY DEF StepClearAll, TopIs
<1>1. Top \in [k : {"clearAll"}, keys : SUBSET Types, last : BOOLEAN] /\ Below \in Seq(Frames)
  BY <1>0, TopTyped DEF IInv, Frames
<1>2. Calm(Below) /\ FiresOf(Below, stack)
  BY <1>0, CalmBelow
<1>3. CASE Top.last
  BY <1>0, <1>1, <1>2, <1>3, WipedLess DEF StepClearAll
<1>4. ASSUME NEW h \in [k : {"clearAll"}, keys : SUBSET Types, last : BOOLEAN], NEW t \in Types,
             StartClear(Append(Below, h), t)
      PROVE  OInv'
  <2> DEFINE g == Append(Below, h)
  <2>1. g \in Seq(Frames)
    BY <1>1, AppendProperties DEF Frames
  <2>2. Calm(g) /\ FiresOf(g, stack)
    <3>1. h.k = "clearAll"
      OBVIOUS
    <3>2. QED
      BY <1>0, <3>1, CalmBelow
  <2> HIDE DEF g
  <2>3. StartClear(g, t)
    BY <1>4 DEF g
  <2>4. QED
    BY <1>0, <2>1, <2>2, <2>3, StartClearLess, LessStep
<1>5. CASE ~Top.last /\ Top.keys = {}
  <2>1. [Top EXCEPT !.last = TRUE] \in [k : {"clearAll"}, keys : SUBSET Types, last : BOOLEAN]
    BY <1>1
  <2>2. StartClear(Append(Below, [Top EXCEPT !.last = TRUE]), "removeListener")
    BY <1>5 DEF StepClearAll
  <2>3. QED
    BY <1>4, <2>1, <2>2, TypesAssumption
<1>6. CASE ~Top.last /\ Top.keys # {}
  <2>1. PICK t \in Top.keys : StartClear(Append(Below, [Top EXCEPT !.keys = @ \ {t}]), t)
    BY <1>6 DEF StepClearAll
  <2>2. [Top EXCEPT !.keys = @ \ {t}] \in [k : {"clearAll"}, keys : SUBSET Types, last : BOOLEAN]
        /\ t \in Types
    BY <1>1
  <2>3. QED
    BY <1>4, <2>1, <2>2
<1>7. QED
  BY <1>3, <1>5, <1>6

\* The first emitter has no wrappers.
LEMMA OnceInit == Init => OInv
<1> SUFFICES ASSUME Init PROVE OInv
  OBVIOUS
<1>1. em = NewEmitter /\ stack = << >> /\ used = 0 /\ fired = {} /\ runs = [o \in Onces |-> 0]
  BY DEF Init
<1>2. \A t \in Types : em.slot[t] = Empty /\ DOMAIN em.slot[t].list = {}
  BY <1>1 DEF NewEmitter, Empty
<1>3. Made(em) /\ Unique(em) /\ \A o : ~Held(em, o)
  BY <1>2 DEF Made, Unique, Held
<1>4. Called(stack, em) /\ Firing(stack, em, fired, used)
  BY <1>1 DEF Called, Firing
<1>5. Counted
  BY <1>1, <1>3 DEF Counted
<1>6. QED
  BY <1>3, <1>4, <1>5 DEF OInv

\* Every step keeps the wrappers apart from the slots.
LEMMA OnceStep == IInv /\ OInv /\ [Next]_vars => OInv'
<1> SUFFICES ASSUME IInv, OInv, [Next]_vars PROVE OInv'
  OBVIOUS
<1>0. Sound(em) /\ Made(em) /\ stack \in Seq(Frames)
  BY DEF IInv, OInv
<1>1. ASSUME NEW t \in Types, NEW f \in Handlers, NEW p \in BOOLEAN, On(t, f, p)
      PROVE  OInv'
  <2>1. Plain(f) \in Entries /\ Plain(f).id = 0
    BY DEF Plain, Entries
  <2>2. QED
    BY <1>1, <2>1, AddStep DEF On
<1>2. ASSUME NEW t \in Types, NEW f \in Handlers, NEW p \in BOOLEAN, Once(t, f, p)
      PROVE  OInv'
  <2> DEFINE e == [fn |-> f, id |-> used + 1]
  <2>1. used + 1 \in 0..MaxOnce /\ used' = used + 1 /\ used < MaxOnce
    BY <1>2 DEF Once, IInv, HistoryOK
  <2>2. e \in Entries /\ e.id = used + 1
    BY <2>1 DEF Entries
  <2>3. em' = AddListener(em, t, e, p) /\ UserCode /\ UNCHANGED <<stack, fired, runs>>
    BY <1>2, <2>1 DEF Once
  <2> HIDE DEF e
  <2>4. QED
    BY <2>1, <2>2, <2>3, AddStep
<1>3. ASSUME NEW t \in Types, NEW l \in Entries, Off(t, l)
      PROVE  OInv'
  <2>1. em' = RemoveListener(em, t, l) /\ stack' = AfterRemoval(stack, t, l) /\ UNCHANGED <<used, fired, runs>>
    BY <1>3 DEF Off
  <2>2. Calm(stack)
    BY <1>3, CalmBelow DEF Off
  <2>3. Called(stack', em') /\ FiresOf(stack', stack)
    BY <1>0, <2>1, <2>2, RemovalCalled
  <2>4. Made(em') /\ Thinner(em, em')
    BY <1>0, <2>1, RemoveThinner
  <2>5. QED
    BY <2>1, <2>3, <2>4, LessStep
<1>4. ASSUME NEW t \in Types, Emit(t)
      PROVE  OInv'
  BY <1>4, EmitStep
<1>5. ASSUME NEW t \in Types, RemoveAll(t)
      PROVE  OInv'
  <2>1. StartClear(stack, t) /\ UserCode /\ UNCHANGED <<used, fired, runs>>
    BY <1>5 DEF RemoveAll
  <2>2. Calm(stack) /\ FiresOf(stack, stack)
    BY <2>1, CalmBelow DEF FiresOf
  <2>3. QED
    BY <1>0, <2>1, <2>2, StartClearLess, LessStep
<1>6. CASE RemoveAllTypes
  <2>0. Calm(stack) /\ FiresOf(stack, stack) /\ UNCHANGED <<used, fired, runs>>
    BY <1>6, CalmBelow DEF RemoveAllTypes, FiresOf
  <2>1. CASE Has(em, "removeListener")
    <3> DEFINE f == ClearAll(Keys(em) \ {"removeListener"})
               s == Append(stack, f)
    <3>1. em' = em /\ stack' = s
      BY <1>6, <2>1 DEF RemoveAllTypes
    <3>2. f.k = "clearAll"
      BY DEF ClearAll
    <3> HIDE DEF f
    <3>3. \A j \in DOMAIN s : (j \in DOMAIN stack /\ s[j] = stack[j]) \/ s[j] = f
      BY <1>0
    <3> HIDE DEF s
    <3>4. Calm(s) /\ FiresOf(s, stack)
      BY <2>0, <3>2, <3>3 DEF Calm, FiresOf
    <3>5. Thinner(em, em') /\ Made(em')
      BY <1>0, <3>1, ThinnerSame
    <3>6. QED
      BY <2>0, <3>1, <3>4, <3>5, CalmCalled, LessStep
  <2>2. CASE ~Has(em, "removeListener")
    BY <1>0, <1>6, <2>0, <2>2, WipedLess DEF RemoveAllTypes
  <2>3. QED
    BY <2>1, <2>2
<1>7. CASE Return
  <2>1. stack # << >> /\ stack' = Below /\ em' = em /\ UNCHANGED <<used, fired, runs>>
    BY <1>7 DEF Return, TopIs
  <2>2. Calm(Below) /\ FiresOf(Below, stack)
    BY <2>1, CalmBelow
  <2>3. Thinner(em, em')
    BY <2>1, ThinnerSame
  <2>4. QED
    BY <1>0, <2>1, <2>2, <2>3, CalmCalled, LessStep
<1>8. CASE Throw
  BY <1>8, UnwindLess, LessStep DEF Throw
<1>9. CASE StepInvoke
  BY <1>9, InvokeStep
<1>10. CASE StepFire
  BY <1>10, FireStep
<1>11. CASE StepClear
  BY <1>11, ClearStep
<1>12. CASE StepClearAll
  BY <1>12, ClearAllStep
<1>13. CASE UNCHANGED vars
  BY <1>13 DEF vars, OInv, Counted, Made, Unique, Called, Firing, Held
<1>14. QED
  BY <1>1, <1>2, <1>3, <1>4, <1>5, <1>6, <1>7, <1>8, <1>9, <1>10, <1>11, <1>12, <1>13
  DEF Next

\* A wrapper's history and its place in the table.
LEMMA OnceFollows == IInv /\ OInv => OnceIsOnce
<1> SUFFICES ASSUME IInv, OInv PROVE OnceIsOnce
  OBVIOUS
<1>1. \A o \in Onces : runs[o] <= 1
  BY DEF OInv, Counted
<1>2. ASSUME NEW t \in Types, NEW e \in ToSet(em.slot[t].list)
      PROVE  /\ e.id \notin fired
             /\ \A j \in DOMAIN stack : stack[j].k = "fire" => stack[j].e # e
  <2>1. PICK i \in DOMAIN em.slot[t].list : em.slot[t].list[i] = e
    BY DEF ToSet
  <2>2. Held(em, e.id)
    BY <2>1 DEF Held
  <2>3. e.id \notin fired
    <3>1. fired \subseteq Onces
      BY DEF IInv, HistoryOK
    <3>2. QED
      BY <2>2, <3>1 DEF OInv, Counted
  <2>4. QED
    BY <2>2, <2>3 DEF OInv, Firing
<1>3. QED
  BY <1>1, <1>2 DEF OnceIsOnce

\* once(): whatever listeners do while an emission is in progress, the function
\* runs at most once, and a wrapper that fired or is about to is in no slot.
THEOREM OnceIsOnceHolds == Spec => []OnceIsOnce
<1>1. QED
  BY InitSound, StepSound, OnceInit, OnceStep, OnceFollows, PTL DEF Spec
====
