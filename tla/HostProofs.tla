----------------------------- MODULE HostProofs -----------------------------
(***************************************************************************)
(* What the two parts of the runtime that are written in Java promise. An  *)
(* emission of the Java emitter calls its handlers in order, whatever they *)
(* add, remove or emit, and a cleared timer is silent: for any events,     *)
(* timers and delays, and any number of handlers and nested emissions. The *)
(* handlers of a child's output are given a stretch of it, in order, and   *)
(* all of it unless the watcher met a dead process before the two ends:    *)
(* for any length of the output and any capacity of the pipes.             *)
(***************************************************************************)
EXTENDS Runtime, ChildProcess, FiniteSetTheorems, SequenceTheorems, WellFoundedInduction, TLAPS

TaskStates == {"none", "queued", "running", "done", "cancelled"}
Cell == [kind : {"emit", "task"}, id : Timers \cup {0}, list : {0} \cup Lists,
         start : Seq(Frames), called : Seq(Frames), changed : BOOLEAN, running : BOOLEAN]

Typed ==
  /\ handlers \in [Events -> {0} \cup Lists]
  /\ lists \in [Lists -> Seq(Frames)]
  /\ made \in 0..MaxFrames /\ spent \subseteq 1..made
  /\ stack \in Seq(Cell)
  /\ tasks \in [Timers \cup {0} -> [state : TaskStates, left : Nat, period : Nat]]
  /\ ref \in [Timers -> {"null", "ref", "undefined"}] /\ cleared \subseteq Timers

Emits == {i \in DOMAIN stack : stack[i].kind = "emit"}

\* The thread runs at most one task, and emissions above it; an emission that runs a
\* handler has called one.
Nested ==
  /\ Cardinality(Emits) <= MaxDepth
  /\ \A i \in Emits : stack[i].list \in Lists /\ (stack[i].running => stack[i].called # << >>)
  /\ \A i \in DOMAIN stack : i \notin Emits =>
       i = 1 /\ tasks[stack[i].id].state \in {"running", "cancelled"}

\* Ids are given out in turn, and one frame has each, at one place of one list.
OneEach ==
  \A l \in Lists : \A j \in DOMAIN lists[l] :
    /\ lists[l][j].id <= made
    /\ \A k \in Lists : \A m \in DOMAIN lists[k] :
         lists[l][j].id = lists[k][m].id => l = k /\ j = m

\* A frame that an emission called is on the list it walks, or on none.
CalledHere ==
  \A i \in Emits : \A n \in DOMAIN stack[i].called :
    /\ stack[i].called[n].id <= made
    /\ \A l \in Lists : \A j \in DOMAIN lists[l] :
         stack[i].called[n].id = lists[l][j].id => l = stack[i].list /\ stack[i].called[n] = lists[l][j]

\* While nothing changed the list an emission walks, it is the one it began with; what was
\* called is its beginning.
Walking ==
  \A i \in Emits :
    /\ ~stack[i].changed => lists[stack[i].list] = stack[i].start
    /\ Len(stack[i].called) <= Len(stack[i].start)
    /\ \A n \in DOMAIN stack[i].called : stack[i].called[n] = stack[i].start[n]

\* A once frame whose handler returned is on no list.
SpentIsGone == \A l \in Lists : \A j \in DOMAIN lists[l] : lists[l][j].id \notin spent

\* A timer has a reference only after it was set, and a cleared one is over.
Timing ==
  /\ \A t \in Timers : ref[t] # "null" => tasks[t].state # "none"
  /\ \A t \in cleared : tasks[t].state \in {"cancelled", "done"}

IInv == Typed /\ Nested /\ OneEach /\ CalledHere /\ Walking /\ SpentIsGone /\ Timing

-----------------------------------------------------------------------------
(* Numbers, sequences and sets.                                            *)

\* Among some natural numbers there is a least.
LEMMA Least ==
  ASSUME NEW S \in SUBSET Nat, S # {}
  PROVE  \E m \in S : \A k \in S : m <= k
<1>1. PICK m \in S : \A k \in S : ~(<<k, m>> \in OpToRel(<, Nat))
  BY WFMin, NatLessThanWellFounded
<1>2. \A k \in S : ~(k < m)
  BY <1>1 DEF OpToRel
<1>3. QED
  BY <1>2

\* The front of a sequence.
LEMMA FrontFacts ==
  ASSUME NEW S, NEW s \in Seq(S), s # << >>
  PROVE  /\ Front(s) \in Seq(S) /\ Len(s) \in Nat /\ Len(s) >= 1 /\ DOMAIN s = 1..Len(s)
         /\ Len(Front(s)) = Len(s) - 1 /\ DOMAIN Front(s) = 1..(Len(s) - 1)
         /\ \A i \in 1..(Len(s) - 1) : Front(s)[i] = s[i]
<1>1. Len(s) \in Nat /\ Len(s) >= 1 /\ DOMAIN s = 1..Len(s) /\ \A i \in 1..(Len(s) - 1) : s[i] \in S
  OBVIOUS
<1>2. /\ Front(s) \in Seq(S) /\ Len(Front(s)) = IF 1 <= Len(s) - 1 THEN Len(s) - 1 - 1 + 1 ELSE 0
      /\ \A i \in 1..(Len(s) - 1 - 1 + 1) : Front(s)[i] = s[1 + i - 1]
  BY <1>1, SubSeqProperties DEF Front
<1> DEFINE f == Front(s)
<1> HIDE DEF f
<1>3. Len(f) = Len(s) - 1 /\ \A i \in 1..(Len(s) - 1) : f[i] = s[i]
  <2>1. Len(f) = Len(s) - 1
    <3>1. Len(f) = IF 1 <= Len(s) - 1 THEN Len(s) - 1 - 1 + 1 ELSE 0
      BY <1>2 DEF f
    <3>2. CASE Len(s) = 1
      BY <3>1, <3>2
    <3>3. CASE Len(s) # 1
      <4>1. Len(s) \in Nat /\ 1 <= Len(s) - 1
        BY <1>1, <3>3
      <4>2. Len(f) = Len(s) - 1 - 1 + 1
        BY <3>1, <4>1
      <4>3. QED
        BY <4>1, <4>2
    <3>4. QED
      BY <3>2, <3>3
  <2>2. ASSUME NEW i \in 1..(Len(s) - 1) PROVE f[i] = s[i]
    <3>1. i \in 1..(Len(s) - 1 - 1 + 1) /\ 1 + i - 1 = i
      BY <1>1
    <3>2. f[i] = s[1 + i - 1]
      BY <1>2, <3>1 DEF f
    <3>3. QED
      BY <3>1, <3>2
  <2>3. QED
    BY <2>1, <2>2
<1>4. DOMAIN Front(s) = 1..(Len(s) - 1)
  BY <1>2, <1>3 DEF f
<1>5. QED
  BY <1>1, <1>2, <1>3, <1>4 DEF f

\* A sequence one longer.
LEMMA AppendFacts ==
  ASSUME NEW S, NEW s \in Seq(S), NEW x \in S
  PROVE  /\ Append(s, x) \in Seq(S) /\ Len(s) \in Nat /\ DOMAIN s = 1..Len(s)
         /\ Len(Append(s, x)) = Len(s) + 1 /\ DOMAIN Append(s, x) = 1..(Len(s) + 1)
         /\ \A i \in 1..Len(s) : Append(s, x)[i] = s[i]
         /\ Append(s, x)[Len(s) + 1] = x
OBVIOUS

\* Taking the first of an element out of a sequence moves up what is behind it.
LEMMA RemoveFirstFacts ==
  ASSUME NEW S, NEW s \in Seq(S), NEW x, x \in ToSet(s)
  PROVE  /\ RemoveFirst(s, x) \in Seq(S)
         /\ \E p \in DOMAIN s :
              /\ s[p] = x /\ p \in Nat
              /\ \A j \in DOMAIN RemoveFirst(s, x) :
                   /\ j \in Nat
                   /\ j < p => j \in DOMAIN s /\ RemoveFirst(s, x)[j] = s[j]
                   /\ j >= p => j + 1 \in DOMAIN s /\ RemoveFirst(s, x)[j] = s[j + 1]
<1> DEFINE P == {i \in 1..Len(s) : s[i] = x}
<1>1. DOMAIN s = 1..Len(s) /\ Len(s) \in Nat
  OBVIOUS
<1>2. P # {} /\ P \subseteq Nat
  BY <1>1 DEF ToSet
<1>3. \E p \in P : \A k \in P : p <= k
  BY <1>2, Least
<1> DEFINE p == CHOOSE p \in P : \A k \in P : p <= k
<1>4. p \in P
  BY <1>3
<1>5. RemoveFirst(s, x) = SubSeq(s, 1, p - 1) \o SubSeq(s, p + 1, Len(s))
  BY <1>1, <1>2 DEF RemoveFirst, RemoveAt, SelectInSeq, Min
<1> HIDE DEF p
<1>6. p \in 1..Len(s) /\ s[p] = x
  BY <1>4
<1> HIDE DEF P
<1> DEFINE a == SubSeq(s, 1, p - 1)
           b == SubSeq(s, p + 1, Len(s))
<1>7. /\ \A i \in 1..(p - 1) : s[i] \in S
      /\ \A i \in (p + 1)..Len(s) : s[i] \in S
      /\ p - 1 \in Int /\ p + 1 \in Int /\ Len(s) \in Int
  BY <1>1, <1>6
<1>8. /\ a \in Seq(S) /\ Len(a) = IF 1 <= p - 1 THEN p - 1 - 1 + 1 ELSE 0
      /\ \A i \in 1..(p - 1 - 1 + 1) : a[i] = s[1 + i - 1]
  BY <1>7, SubSeqProperties
<1>9. /\ b \in Seq(S) /\ Len(b) = IF p + 1 <= Len(s) THEN Len(s) - (p + 1) + 1 ELSE 0
      /\ \A i \in 1..(Len(s) - (p + 1) + 1) : b[i] = s[(p + 1) + i - 1]
  BY <1>7, SubSeqProperties
<1> HIDE DEF a, b
<1>10. /\ Len(a) = p - 1 /\ \A i \in 1..(p - 1) : a[i] = s[i]
       /\ Len(b) = Len(s) - p /\ \A i \in 1..(Len(s) - p) : b[i] = s[p + i]
  <2>1. Len(a) = p - 1 /\ Len(b) = Len(s) - p
    <3>1. p \in Nat /\ Len(s) \in Nat /\ 1 <= p /\ p <= Len(s)
      BY <1>1, <1>6
    <3>2. CASE p = 1 /\ p = Len(s)
      BY <1>8, <1>9, <3>1, <3>2
    <3>3. CASE p = 1 /\ p < Len(s)
      BY <1>8, <1>9, <3>1, <3>3
    <3>4. CASE 1 < p /\ p = Len(s)
      BY <1>8, <1>9, <3>1, <3>4
    <3>5. CASE 1 < p /\ p < Len(s)
      BY <1>8, <1>9, <3>1, <3>5
    <3>6. QED
      BY <3>1, <3>2, <3>3, <3>4, <3>5
  <2>2. \A i \in 1..(p - 1) : a[i] = s[i]
    BY <1>1, <1>6, <1>8
  <2>3. ASSUME NEW i \in 1..(Len(s) - p) PROVE b[i] = s[p + i]
    <3>1. (p + 1) + i - 1 = p + i /\ i \in 1..(Len(s) - (p + 1) + 1)
      BY <1>1, <1>6
    <3>2. QED
      BY <1>9, <3>1
  <2>4. QED
    BY <2>1, <2>2, <2>3
<1> DEFINE c == a \o b
<1>11. /\ c \in Seq(S) /\ Len(c) = Len(a) + Len(b)
       /\ \A i \in 1..(Len(a) + Len(b)) : c[i] = IF i <= Len(a) THEN a[i] ELSE b[i - Len(a)]
  BY <1>8, <1>9, ConcatProperties
<1> HIDE DEF c
<1>12. DOMAIN c = 1..(Len(s) - 1) /\ Len(c) = Len(s) - 1
  BY <1>1, <1>6, <1>10, <1>11
<1>13. ASSUME NEW j \in 1..(Len(s) - 1) PROVE c[j] = IF j < p THEN s[j] ELSE s[j + 1]
  <2>1. CASE j < p
    <3>1. j \in 1..(p - 1) /\ j <= Len(a) /\ j \in 1..(Len(a) + Len(b))
      BY <1>1, <1>6, <1>10, <2>1
    <3>2. QED
      BY <1>10, <1>11, <2>1, <3>1
  <2>2. CASE ~(j < p)
    <3>1. /\ j - Len(a) \in 1..(Len(s) - p) /\ p + (j - Len(a)) = j + 1
          /\ ~(j <= Len(a)) /\ j \in 1..(Len(a) + Len(b))
      BY <1>1, <1>6, <1>10, <2>2
    <3>2. QED
      BY <1>10, <1>11, <2>2, <3>1
  <2>3. QED
    BY <2>1, <2>2
<1>14. RemoveFirst(s, x) = c
  BY <1>5 DEF a, b, c
<1>15. \A j \in DOMAIN c :
         /\ j \in Nat
         /\ j < p => j \in DOMAIN s /\ c[j] = s[j]
         /\ j >= p => j + 1 \in DOMAIN s /\ c[j] = s[j + 1]
  BY <1>1, <1>6, <1>12, <1>13
<1>16. p \in DOMAIN s /\ s[p] = x /\ p \in Nat
  BY <1>1, <1>6
<1>17. QED
  BY <1>11, <1>14, <1>15, <1>16

-----------------------------------------------------------------------------
(* The stack.                                                              *)

\* What the thread runs is on top.
LEMMA OnTop ==
  ASSUME Typed, stack # << >>
  PROVE  /\ Len(stack) \in Nat /\ Len(stack) >= 1 /\ DOMAIN stack = 1..Len(stack)
         /\ Len(stack) \in DOMAIN stack /\ Top = stack[Len(stack)] /\ Top \in Cell
  BY DEF Typed, Top

\* The emissions of a stack are finitely many, and fewer of less.
LEMMA EmitsFinite ==
  ASSUME Typed
  PROVE  IsFiniteSet(Emits) /\ Cardinality(Emits) \in Nat
<1>1. DOMAIN stack = 1..Len(stack) /\ Len(stack) \in Nat
  BY DEF Typed
<1>2. IsFiniteSet(1..Len(stack))
  BY <1>1, FS_Interval
<1>3. Emits \in SUBSET (1..Len(stack))
  BY <1>1 DEF Emits
<1>4. IsFiniteSet(Emits)
  BY <1>2, <1>3, FS_Subset
<1>5. QED
  BY <1>4, FS_CardinalityType

\* Fewer emissions stay within the bound.
LEMMA FewerEmits ==
  ASSUME Typed, Nested, Emits' \subseteq Emits
  PROVE  Cardinality(Emits') <= MaxDepth
<1>1. IsFiniteSet(Emits) /\ Cardinality(Emits) \in Nat
  BY EmitsFinite
<1>2. IsFiniteSet(Emits') /\ Cardinality(Emits') <= Cardinality(Emits)
  BY <1>1, FS_Subset
<1>3. Cardinality(Emits') \in Nat
  BY <1>2, FS_CardinalityType
<1>4. QED
  BY <1>1, <1>2, <1>3, RuntimeAssumption DEF Nested

-----------------------------------------------------------------------------
(* Steps that let lists and calls go.                                      *)

\* A step that at most empties lists and ends calls, without touching the lists of the
\* emissions that go on, keeps all that is said of frames and emissions.
LetsGo ==
  /\ made' = made /\ spent' = spent
  /\ \A l \in Lists : lists'[l] = lists[l] \/ lists'[l] = << >>
  /\ DOMAIN stack' \subseteq DOMAIN stack
  /\ \A i \in DOMAIN stack' :
       /\ stack'[i].kind = stack[i].kind /\ stack'[i].id = stack[i].id
       /\ stack'[i].list = stack[i].list /\ stack'[i].start = stack[i].start
       /\ stack'[i].called = stack[i].called /\ stack'[i].changed = stack[i].changed
       /\ stack'[i].running => stack[i].running
       /\ stack'[i].kind = "emit" => lists'[stack[i].list] = lists[stack[i].list]

\* What such a step keeps.
LEMMA LetsGoFacts ==
  ASSUME IInv, LetsGo
  PROVE  /\ Emits' \subseteq Emits /\ Cardinality(Emits') <= MaxDepth
         /\ \A i \in Emits' : stack'[i].list \in Lists /\ (stack'[i].running => stack'[i].called # << >>)
         /\ \A i \in DOMAIN stack' : i \notin Emits' => i \notin Emits
         /\ OneEach' /\ CalledHere' /\ Walking' /\ SpentIsGone'
<1> USE DEF IInv, LetsGo
<1>1. Emits' \subseteq Emits /\ \A i \in DOMAIN stack' : i \notin Emits' => i \notin Emits
  BY DEF Emits
<1>2. Cardinality(Emits') <= MaxDepth
  BY <1>1, FewerEmits
<1>3. \A i \in Emits' : stack'[i].list \in Lists /\ (stack'[i].running => stack'[i].called # << >>)
  BY <1>1 DEF Nested, Emits
<1>4. \A l \in Lists : \A j \in DOMAIN lists'[l] : lists'[l] = lists[l]
  OBVIOUS
<1>5. \A i \in Emits' : i \in DOMAIN stack' /\ i \in Emits /\ stack'[i].kind = "emit"
  BY <1>1 DEF Emits
<1>6. OneEach'
  <2> SUFFICES ASSUME NEW l \in Lists, NEW j \in DOMAIN lists'[l]
               PROVE  /\ lists'[l][j].id <= made'
                      /\ \A k \in Lists : \A m \in DOMAIN lists'[k] :
                           lists'[l][j].id = lists'[k][m].id => l = k /\ j = m
    BY DEF OneEach
  <2>1. lists'[l] = lists[l]
    BY <1>4
  <2>2. QED
    BY <1>4, <2>1 DEF OneEach
<1>7. CalledHere'
  <2> SUFFICES ASSUME NEW i \in Emits', NEW n \in DOMAIN stack'[i].called
               PROVE  /\ stack'[i].called[n].id <= made'
                      /\ \A l \in Lists : \A j \in DOMAIN lists'[l] :
                           stack'[i].called[n].id = lists'[l][j].id
                             => l = stack'[i].list /\ stack'[i].called[n] = lists'[l][j]
    BY DEF CalledHere
  <2>1. i \in Emits /\ stack'[i].called = stack[i].called /\ stack'[i].list = stack[i].list
    BY <1>5
  <2>2. QED
    BY <1>4, <2>1 DEF CalledHere
<1>8. Walking'
  <2> SUFFICES ASSUME NEW i \in Emits'
               PROVE  /\ ~stack'[i].changed => lists'[stack'[i].list] = stack'[i].start
                      /\ Len(stack'[i].called) <= Len(stack'[i].start)
                      /\ \A n \in DOMAIN stack'[i].called : stack'[i].called[n] = stack'[i].start[n]
    BY DEF Walking
  <2>1. /\ i \in Emits /\ stack'[i].called = stack[i].called /\ stack'[i].list = stack[i].list
        /\ stack'[i].start = stack[i].start /\ stack'[i].changed = stack[i].changed
        /\ lists'[stack[i].list] = lists[stack[i].list]
    BY <1>5
  <2>2. QED
    BY <2>1 DEF Walking
<1>9. SpentIsGone'
  BY <1>4 DEF SpentIsGone
<1>10. QED
  BY <1>1, <1>2, <1>3, <1>6, <1>7, <1>8, <1>9

\* The cells of a stack without its top.
LEMMA Popped ==
  ASSUME Typed, stack # << >>, stack' = Front(stack)
  PROVE  /\ stack' \in Seq(Cell) /\ DOMAIN stack' \subseteq DOMAIN stack
         /\ DOMAIN stack' = 1..(Len(stack) - 1) /\ Len(stack) \notin DOMAIN stack'
         /\ \A i \in DOMAIN stack' : stack'[i] = stack[i]
<1>1. stack \in Seq(Cell)
  BY DEF Typed
<1>2. QED
  BY <1>1, FrontFacts

\* The lists when the emission on top is over.
LEMMA DroppedFacts ==
  ASSUME Typed, Nested, stack # << >>, Top.kind = "emit", lists' = Dropped(Top.list)
  PROVE  /\ lists' \in [Lists -> Seq(Frames)]
         /\ \A l \in Lists : lists'[l] = lists[l] \/ lists'[l] = << >>
         /\ \A i \in 1..(Len(stack) - 1) : stack[i].kind = "emit" => lists'[stack[i].list] = lists[stack[i].list]
<1>1. lists \in [Lists -> Seq(Frames)]
  BY DEF Typed
<1>2. DOMAIN stack = 1..Len(stack) /\ Len(stack) \in Nat
  BY OnTop
<1>3. \A i \in 1..(Len(stack) - 1) : stack[i].kind = "emit" => stack[i].list \in Lists
  BY <1>2 DEF Nested, Emits
<1>4. << >> \in Seq(Frames)
  OBVIOUS
<1>5. QED
  BY <1>1, <1>3, <1>4 DEF Dropped

\* A stack whose top no longer runs its handler.
LEMMA Quieted ==
  ASSUME NEW s \in Seq(Cell), s # << >>
  PROVE  /\ [s EXCEPT ![Len(s)].running = FALSE] \in Seq(Cell)
         /\ DOMAIN [s EXCEPT ![Len(s)].running = FALSE] = DOMAIN s
         /\ \A i \in DOMAIN s :
              /\ [s EXCEPT ![Len(s)].running = FALSE][i].kind = s[i].kind
              /\ [s EXCEPT ![Len(s)].running = FALSE][i].id = s[i].id
              /\ [s EXCEPT ![Len(s)].running = FALSE][i].list = s[i].list
              /\ [s EXCEPT ![Len(s)].running = FALSE][i].start = s[i].start
              /\ [s EXCEPT ![Len(s)].running = FALSE][i].called = s[i].called
              /\ [s EXCEPT ![Len(s)].running = FALSE][i].changed = s[i].changed
              /\ [s EXCEPT ![Len(s)].running = FALSE][i].running => s[i].running
<1> DEFINE n == Len(s)
           low == [s[n] EXCEPT !.running = FALSE]
           t == [s EXCEPT ![n].running = FALSE]
<1>1. n \in DOMAIN s /\ s[n] \in Cell
  OBVIOUS
<1>2. /\ low \in Cell /\ low.kind = s[n].kind /\ low.id = s[n].id /\ low.list = s[n].list
      /\ low.start = s[n].start /\ low.called = s[n].called /\ low.changed = s[n].changed
      /\ low.running = FALSE
  BY <1>1 DEF Cell
<1>3. t = [s EXCEPT ![n] = low]
  OBVIOUS
<1> HIDE DEF n, low, t
<1>4. t \in Seq(Cell) /\ DOMAIN t = DOMAIN s /\ t[n] = low /\ \A i \in DOMAIN s : i # n => t[i] = s[i]
  BY <1>1, <1>2, <1>3
<1>5. \A i \in DOMAIN s :
        /\ t[i].kind = s[i].kind /\ t[i].id = s[i].id /\ t[i].list = s[i].list /\ t[i].start = s[i].start
        /\ t[i].called = s[i].called /\ t[i].changed = s[i].changed
        /\ t[i].running => s[i].running
  BY <1>2, <1>4
<1>6. QED
  BY <1>4, <1>5 DEF t, n

\* Ending the top emission, silently or with an exception.
LEMMA EmitEndsKeeps ==
  ASSUME IInv, EmitEnds PROVE IInv'
<1> USE DEF IInv
<1>1. /\ stack # << >> /\ Top.kind = "emit" /\ lists' = Dropped(Top.list) /\ stack' = Front(stack)
      /\ UNCHANGED <<handlers, made, spent, tasks, ref, cleared>>
  BY DEF EmitEnds, InEmit, timers
<1>2. /\ stack' \in Seq(Cell) /\ DOMAIN stack' \subseteq DOMAIN stack
      /\ DOMAIN stack' = 1..(Len(stack) - 1) /\ \A i \in DOMAIN stack' : stack'[i] = stack[i]
  BY <1>1, Popped
<1>3. LetsGo
  BY <1>1, <1>2, DroppedFacts DEF LetsGo
<1>4. Typed'
  BY <1>1, <1>2, DroppedFacts DEF Typed
<1>5. Nested'
  BY <1>1, <1>2, <1>3, LetsGoFacts DEF Nested
<1>6. Timing'
  BY <1>1 DEF Timing
<1>7. QED
  BY <1>3, <1>4, <1>5, <1>6, LetsGoFacts

\* The exception of a changed list ends the emission, and perhaps the handler around it.
LEMMA EmitThrowsKeeps ==
  ASSUME IInv, EmitThrows PROVE IInv'
<1> USE DEF IInv
<1> DEFINE outer == Front(stack)
<1>1. /\ stack # << >> /\ Top.kind = "emit" /\ lists' = Dropped(Top.list)
      /\ \/ stack' = outer
         \/ outer # << >> /\ stack' = [outer EXCEPT ![Len(outer)].running = FALSE]
      /\ UNCHANGED <<handlers, made, spent, tasks, ref, cleared>>
  BY DEF EmitThrows, InEmit
<1>2. /\ outer \in Seq(Cell) /\ DOMAIN outer = 1..(Len(stack) - 1) /\ Len(stack) \in Nat
      /\ Len(outer) = Len(stack) - 1 /\ DOMAIN outer \subseteq DOMAIN stack
      /\ \A i \in DOMAIN outer : outer[i] = stack[i] /\ outer[i] \in Cell
  <2>1. stack \in Seq(Cell)
    BY DEF Typed
  <2>2. QED
    BY <1>1, <2>1, FrontFacts
<1> HIDE DEF outer
<1>3. stack' \in Seq(Cell) /\ DOMAIN stack' = DOMAIN outer
  BY <1>1, <1>2, Quieted
<1>4. \A i \in DOMAIN stack' :
        /\ stack'[i].kind = stack[i].kind /\ stack'[i].id = stack[i].id
        /\ stack'[i].list = stack[i].list /\ stack'[i].start = stack[i].start
        /\ stack'[i].called = stack[i].called /\ stack'[i].changed = stack[i].changed
        /\ stack'[i].running => stack[i].running
  <2>1. CASE stack' = outer
    BY <1>2, <2>1
  <2>2. CASE outer # << >> /\ stack' = [outer EXCEPT ![Len(outer)].running = FALSE]
    BY <1>2, <2>2, Quieted
  <2>3. QED
    BY <1>1, <2>1, <2>2
<1>5. LetsGo
  BY <1>1, <1>2, <1>3, <1>4, DroppedFacts DEF LetsGo
<1>6. Typed'
  BY <1>1, <1>3, DroppedFacts DEF Typed
<1>7. Nested'
  BY <1>1, <1>2, <1>3, <1>4, <1>5, LetsGoFacts DEF Nested
<1>8. Timing'
  BY <1>1 DEF Timing
<1>9. QED
  BY <1>5, <1>6, <1>7, <1>8, LetsGoFacts

\* A handler that throws is no longer running; its frame stays.
LEMMA ThrowKeeps ==
  ASSUME IInv, Throw PROVE IInv'
<1> USE DEF IInv
<1>1. /\ stack # << >> /\ Top.kind = "emit" /\ stack' = [stack EXCEPT ![Len(stack)].running = FALSE]
      /\ UNCHANGED <<handlers, lists, made, spent, tasks, ref, cleared>>
  BY DEF Throw, emitter, timers
<1>2. /\ stack \in Seq(Cell) /\ Len(stack) \in DOMAIN stack /\ \A i \in DOMAIN stack : stack[i] \in Cell
  BY <1>1, OnTop DEF Typed
<1>3. stack' \in Seq(Cell) /\ DOMAIN stack' = DOMAIN stack
  BY <1>1, <1>2, Quieted
<1>4. \A i \in DOMAIN stack' :
        /\ stack'[i].kind = stack[i].kind /\ stack'[i].id = stack[i].id
        /\ stack'[i].list = stack[i].list /\ stack'[i].start = stack[i].start
        /\ stack'[i].called = stack[i].called /\ stack'[i].changed = stack[i].changed
        /\ stack'[i].running => stack[i].running
  BY <1>1, <1>2, <1>3, Quieted
<1>5. LetsGo
  BY <1>1, <1>3, <1>4 DEF LetsGo
<1>6. Typed'
  BY <1>1, <1>3 DEF Typed
<1>7. Nested'
  BY <1>1, <1>3, <1>4, <1>5, LetsGoFacts DEF Nested
<1>8. Timing'
  BY <1>1 DEF Timing
<1>9. QED
  BY <1>5, <1>6, <1>7, <1>8, LetsGoFacts

\* Listeners are removed by letting go of their lists; what is walked stays.
LEMMA DetachKeeps ==
  ASSUME IInv, NEW es \in SUBSET Events, Detach(es) PROVE IInv'
<1> USE DEF IInv
<1>1. /\ handlers' = [e \in Events |-> IF e \in es THEN 0 ELSE handlers[e]]
      /\ lists' = [l \in Lists |-> IF Walked(l) \/ \E e \in Events \ es : handlers[e] = l
                                   THEN lists[l] ELSE << >>]
      /\ UNCHANGED <<made, spent, stack, tasks, ref, cleared>>
  BY DEF Detach, timers
<1>2. LetsGo
  <2>1. \A i \in DOMAIN stack : stack[i].kind = "emit" => stack[i].list \in Lists /\ Walked(stack[i].list)
    BY DEF Nested, Emits, Walked
  <2>2. QED
    BY <1>1, <2>1 DEF LetsGo
<1>3. Typed'
  <2>1. << >> \in Seq(Frames)
    OBVIOUS
  <2>2. handlers' \in [Events -> {0} \cup Lists]
    BY <1>1 DEF Typed
  <2>3. lists' \in [Lists -> Seq(Frames)]
    BY <1>1, <2>1 DEF Typed
  <2>4. QED
    BY <1>1, <2>2, <2>3 DEF Typed
<1>4. Nested'
  BY <1>1, <1>2, LetsGoFacts DEF Nested, Emits
<1>5. Timing'
  BY <1>1 DEF Timing
<1>6. QED
  BY <1>2, <1>3, <1>4, <1>5, LetsGoFacts

-----------------------------------------------------------------------------
(* Steps that emit and call.                                               *)

\* An emission begins with the list as it is, and has called nobody.
LEMMA EmissionFacts ==
  ASSUME Typed, NEW e \in Events, handlers[e] # 0
  PROVE  /\ Emission(e) \in Cell /\ Emission(e).kind = "emit" /\ Emission(e).list = handlers[e]
         /\ handlers[e] \in Lists /\ Emission(e).start = lists[handlers[e]]
         /\ Emission(e).called = << >> /\ ~Emission(e).changed /\ ~Emission(e).running
<1>1. handlers[e] \in Lists /\ lists[handlers[e]] \in Seq(Frames)
  BY DEF Typed
<1>2. << >> \in Seq(Frames)
  OBVIOUS
<1>3. Emission(e) \in Cell
  BY <1>1, <1>2 DEF Emission, Cell
<1>4. QED
  BY <1>1, <1>3 DEF Emission

\* An emission that begins has called nobody, and its list is unchanged.
LEMMA EmitKeeps ==
  ASSUME IInv, NEW e \in Events, emit(e) PROVE IInv'
<1> USE DEF IInv
<1> DEFINE c == Emission(e)
<1>1. /\ Depth < MaxDepth /\ handlers[e] # 0 /\ stack' = Append(stack, c)
      /\ UNCHANGED <<handlers, lists, made, spent, tasks, ref, cleared>>
  BY DEF emit, emitter, timers
<1>2. /\ c \in Cell /\ c.kind = "emit" /\ c.list \in Lists /\ c.start = lists[c.list]
      /\ c.called = << >> /\ ~c.changed /\ ~c.running
  BY <1>1, EmissionFacts
<1> HIDE DEF c
<1>3. stack \in Seq(Cell)
  BY DEF Typed
<1>4. /\ stack' \in Seq(Cell) /\ Len(stack) \in Nat /\ DOMAIN stack = 1..Len(stack)
      /\ DOMAIN stack' = 1..(Len(stack) + 1)
      /\ \A i \in 1..Len(stack) : stack'[i] = stack[i]
      /\ stack'[Len(stack) + 1] = c
  BY <1>1, <1>2, <1>3, AppendFacts
<1>5. Emits' = Emits \cup {Len(stack) + 1} /\ Len(stack) + 1 \notin Emits
  BY <1>2, <1>4 DEF Emits
<1>6. Cardinality(Emits') <= MaxDepth
  <2>1. IsFiniteSet(Emits) /\ Cardinality(Emits) \in Nat
    BY EmitsFinite
  <2>2. Cardinality(Emits') = Cardinality(Emits) + 1
    BY <1>5, <2>1, FS_AddElement
  <2>3. Cardinality(Emits) < MaxDepth
    BY <1>1 DEF Depth, Emits
  <2>4. QED
    BY <2>1, <2>2, <2>3, RuntimeAssumption
<1>7. \A i \in Emits' : \/ i \in Emits /\ stack'[i] = stack[i]
                        \/ stack'[i] = c
  BY <1>4, <1>5 DEF Emits
<1>8. Typed'
  BY <1>1, <1>4 DEF Typed
<1>9. Nested'
  <2>1. \A i \in Emits' : stack'[i].list \in Lists /\ (stack'[i].running => stack'[i].called # << >>)
    BY <1>2, <1>7 DEF Nested
  <2>2. \A i \in DOMAIN stack' : i \notin Emits' => i \in DOMAIN stack /\ i \notin Emits /\ stack'[i] = stack[i]
    BY <1>4, <1>5
  <2>3. QED
    BY <1>1, <1>6, <2>1, <2>2 DEF Nested
<1>10. OneEach' /\ CalledHere'
  <2>1. OneEach'
    BY <1>1 DEF OneEach
  <2>2. \A i \in Emits' : \A n \in DOMAIN stack'[i].called : i \in Emits /\ stack'[i] = stack[i]
    BY <1>2, <1>7
  <2>3. CalledHere'
    <3> SUFFICES ASSUME NEW i \in Emits', NEW n \in DOMAIN stack'[i].called
                 PROVE  /\ stack'[i].called[n].id <= made'
                        /\ \A l \in Lists : \A j \in DOMAIN lists'[l] :
                             stack'[i].called[n].id = lists'[l][j].id
                               => l = stack'[i].list /\ stack'[i].called[n] = lists'[l][j]
      BY DEF CalledHere
    <3>1. i \in Emits /\ stack'[i] = stack[i] /\ n \in DOMAIN stack[i].called
      BY <2>2
    <3>2. QED
      BY <1>1, <3>1 DEF CalledHere
  <2>4. QED
    BY <2>1, <2>3
<1>11. Walking'
  <2> SUFFICES ASSUME NEW i \in Emits'
               PROVE  /\ ~stack'[i].changed => lists'[stack'[i].list] = stack'[i].start
                      /\ Len(stack'[i].called) <= Len(stack'[i].start)
                      /\ \A n \in DOMAIN stack'[i].called : stack'[i].called[n] = stack'[i].start[n]
    BY DEF Walking
  <2>1. CASE i \in Emits /\ stack'[i] = stack[i]
    BY <1>1, <2>1 DEF Walking
  <2>2. CASE stack'[i] = c
    <3>1. c.start \in Seq(Frames)
      BY <1>2 DEF Cell
    <3>2. QED
      BY <1>1, <1>2, <2>2, <3>1
  <2>3. QED
    BY <1>7, <2>1, <2>2
<1>12. SpentIsGone' /\ Timing'
  BY <1>1 DEF SpentIsGone, Timing
<1>13. QED
  BY <1>8, <1>9, <1>10, <1>11, <1>12

\* The next handler is called: while the list is unchanged it is the next of the start.
LEMMA CallKeeps ==
  ASSUME IInv, Call PROVE IInv'
<1> USE DEF IInv
<1> DEFINE n == Len(stack)
           top == stack[n]
           next == Len(top.called) + 1
           frame == lists[top.list][next]
           c == [top EXCEPT !.running = TRUE, !.called = Append(top.called, frame)]
<1>1. /\ stack # << >> /\ top.kind = "emit" /\ ~top.changed /\ Len(top.called) # Len(lists[top.list])
      /\ stack' = [stack EXCEPT ![n].running = TRUE, ![n].called = Append(@, frame)]
      /\ UNCHANGED <<handlers, lists, made, spent, tasks, ref, cleared>>
  BY DEF Call, InEmit, MayGoOn, HasNext, Top, emitter, timers
<1>2. n \in DOMAIN stack /\ top \in Cell /\ stack \in Seq(Cell) /\ DOMAIN stack = 1..n
  BY <1>1, OnTop DEF Typed
<1>3. stack' = [stack EXCEPT ![n] = c]
  BY <1>1, <1>2
<1>4. n \in Emits /\ top.list \in Lists /\ lists[top.list] = top.start /\ Len(top.called) <= Len(top.start)
  <2>1. n \in Emits
    BY <1>1, <1>2 DEF Emits
  <2>2. QED
    BY <1>1, <2>1 DEF Nested, Walking
<1>5. top.start \in Seq(Frames) /\ top.called \in Seq(Frames)
  BY <1>2 DEF Cell
<1>6. next \in DOMAIN top.start /\ frame = top.start[next] /\ frame \in Frames /\ next \in Nat
  BY <1>1, <1>4, <1>5
<1> DEFINE called == Append(top.called, frame)
<1>7. /\ called \in Seq(Frames) /\ Len(called) = next /\ DOMAIN called = 1..next
      /\ \A i \in DOMAIN top.called : called[i] = top.called[i]
      /\ DOMAIN top.called = 1..(next - 1) /\ called[next] = frame /\ called # << >>
  <2>1. /\ called \in Seq(Frames) /\ Len(top.called) \in Nat /\ DOMAIN top.called = 1..Len(top.called)
        /\ Len(called) = Len(top.called) + 1 /\ DOMAIN called = 1..(Len(top.called) + 1)
        /\ \A i \in 1..Len(top.called) : called[i] = top.called[i]
        /\ called[Len(top.called) + 1] = frame
    BY <1>5, <1>6, AppendFacts
  <2>2. Len(top.called) = next - 1 /\ Len(top.called) + 1 = next
    BY <2>1
  <2> HIDE DEF called, next, frame, top
  <2>3. called # << >>
    BY <2>1
  <2>4. QED
    BY <2>1, <2>2, <2>3
<1> HIDE DEF called
<1>8. /\ c \in Cell /\ c.kind = "emit" /\ c.list = top.list /\ c.start = top.start /\ c.id = top.id
      /\ c.called = called /\ c.changed = top.changed /\ c.running = TRUE
  <2>1. c = [top EXCEPT !.running = TRUE, !.called = called]
    BY DEF called
  <2> HIDE DEF c
  <2>2. QED
    BY <1>1, <1>2, <1>7, <2>1 DEF Cell
<1> HIDE DEF c
<1>9. /\ stack' \in Seq(Cell) /\ DOMAIN stack' = DOMAIN stack /\ stack'[n] = c
      /\ \A i \in DOMAIN stack : i # n => stack'[i] = stack[i]
  BY <1>2, <1>3, <1>8
<1>10. Emits' = Emits
  BY <1>4, <1>8, <1>9 DEF Emits
<1> HIDE DEF n, top, next, frame
<1>11. Typed'
  BY <1>1, <1>9 DEF Typed
<1>12. Nested'
  BY <1>1, <1>4, <1>7, <1>8, <1>9, <1>10, ZenonT(60) DEF Nested, Emits
<1>13. CalledHere'
  <2> SUFFICES ASSUME NEW i \in Emits, NEW m \in DOMAIN stack'[i].called
               PROVE  /\ stack'[i].called[m].id <= made
                      /\ \A l \in Lists : \A j \in DOMAIN lists[l] :
                           stack'[i].called[m].id = lists[l][j].id
                             => l = stack'[i].list /\ stack'[i].called[m] = lists[l][j]
    <3>1. Emits' = Emits /\ lists' = lists /\ made' = made
      BY <1>1, <1>10
    <3>2. CalledHere' <=> \A i \in Emits : \A m \in DOMAIN stack'[i].called :
                            /\ stack'[i].called[m].id <= made
                            /\ \A l \in Lists : \A j \in DOMAIN lists[l] :
                                 stack'[i].called[m].id = lists[l][j].id
                                   => l = stack'[i].list /\ stack'[i].called[m] = lists[l][j]
      BY <3>1 DEF CalledHere
    <3>3. QED
      BY <3>2
  <2>1. CASE i # n
    BY <1>9, <2>1 DEF CalledHere, Emits
  <2>2. CASE i = n /\ m # next
    <3>1. m \in DOMAIN top.called /\ stack'[i].called[m] = top.called[m] /\ stack'[i].list = top.list
      <4>1. stack'[i] = c /\ m \in DOMAIN called /\ stack'[i].called = called /\ stack'[i].list = top.list
        BY <1>2, <1>8, <1>9, <2>2
      <4>2. m \in DOMAIN top.called
        BY <1>6, <1>7, <2>2, <4>1
      <4>3. QED
        BY <1>7, <4>1, <4>2
    <3>2. top = stack[i]
      BY <2>2 DEF top
    <3>3. QED
      BY <3>1, <3>2 DEF CalledHere
  <2>3. CASE i = n /\ m = next
    <3>1. stack'[i].called[m] = lists[top.list][next] /\ stack'[i].list = top.list
      BY <1>4, <1>6, <1>7, <1>8, <1>9, <2>3
    <3>2. next \in DOMAIN lists[top.list]
      BY <1>4, <1>6
    <3>3. QED
      BY <1>4, <3>1, <3>2 DEF OneEach
  <2>4. QED
    BY <2>1, <2>2, <2>3
<1>14. Walking'
  <2> SUFFICES ASSUME NEW i \in Emits
               PROVE  /\ ~stack'[i].changed => lists[stack'[i].list] = stack'[i].start
                      /\ Len(stack'[i].called) <= Len(stack'[i].start)
                      /\ \A m \in DOMAIN stack'[i].called : stack'[i].called[m] = stack'[i].start[m]
    BY <1>1, <1>10 DEF Walking
  <2>1. CASE i # n
    BY <1>9, <2>1 DEF Walking, Emits
  <2>2. CASE i = n
    <3>1. stack'[i].start = top.start /\ stack'[i].called = called /\ stack'[i].list = top.list
      BY <1>8, <1>9, <1>2, <2>2
    <3>2. next <= Len(top.start)
      BY <1>5, <1>6
    <3>3. \A m \in DOMAIN top.called : top.called[m] = top.start[m]
      BY <1>4 DEF Walking, top, n
    <3>4. \A m \in DOMAIN called : called[m] = top.start[m]
      BY <1>6, <1>7, <3>3
    <3>5. QED
      BY <1>4, <1>7, <3>1, <3>2, <3>4
  <2>3. QED
    BY <2>1, <2>2
<1>15. OneEach' /\ SpentIsGone' /\ Timing'
  BY <1>1 DEF OneEach, SpentIsGone, Timing
<1>16. QED
  BY <1>11, <1>12, <1>13, <1>14, <1>15

-----------------------------------------------------------------------------
(* Steps that change a list.                                               *)

\* The emissions that walk l are told that it changed.
LEMMA ChangedFacts ==
  ASSUME Typed, NEW l
  PROVE  /\ Changed(l) \in Seq(Cell) /\ DOMAIN Changed(l) = DOMAIN stack /\ Len(Changed(l)) = Len(stack)
         /\ \A i \in DOMAIN stack :
              /\ Changed(l)[i].kind = stack[i].kind /\ Changed(l)[i].id = stack[i].id
              /\ Changed(l)[i].list = stack[i].list /\ Changed(l)[i].start = stack[i].start
              /\ Changed(l)[i].called = stack[i].called /\ Changed(l)[i].running = stack[i].running
              /\ stack[i].changed => Changed(l)[i].changed
              /\ (stack[i].kind = "emit" /\ stack[i].list = l) => Changed(l)[i].changed
<1>1. stack \in Seq(Cell) /\ DOMAIN stack = 1..Len(stack) /\ Len(stack) \in Nat
      /\ \A i \in DOMAIN stack : stack[i] \in Cell
  BY DEF Typed
<1> DEFINE mark(i) == [stack[i] EXCEPT !.changed = TRUE]
<1>2. \A i \in DOMAIN stack :
        /\ mark(i) \in Cell /\ mark(i).kind = stack[i].kind /\ mark(i).id = stack[i].id
        /\ mark(i).list = stack[i].list /\ mark(i).start = stack[i].start
        /\ mark(i).called = stack[i].called /\ mark(i).running = stack[i].running /\ mark(i).changed
  BY <1>1 DEF Cell
<1>3. Changed(l) = [i \in 1..Len(stack) |-> IF stack[i].kind = "emit" /\ stack[i].list = l
                                           THEN mark(i) ELSE stack[i]]
  BY <1>1 DEF Changed
<1> HIDE DEF mark
<1>4. Changed(l) \in [1..Len(stack) -> Cell]
  BY <1>1, <1>2, <1>3
<1>5. Changed(l) \in Seq(Cell) /\ DOMAIN Changed(l) = DOMAIN stack /\ Len(Changed(l)) = Len(stack)
  BY <1>1, <1>4
<1>6. QED
  BY <1>1, <1>2, <1>3, <1>5

\* A step that leaves the emissions where they are, and marks those whose list it changes.
SameCalls ==
  /\ DOMAIN stack' = DOMAIN stack
  /\ \A i \in DOMAIN stack :
       /\ stack'[i].kind = stack[i].kind /\ stack'[i].id = stack[i].id
       /\ stack'[i].list = stack[i].list /\ stack'[i].start = stack[i].start
       /\ stack'[i].called = stack[i].called
       /\ stack'[i].running => stack[i].running
       /\ stack[i].changed => stack'[i].changed
       /\ (stack[i].kind = "emit" /\ ~stack'[i].changed) => lists'[stack[i].list] = lists[stack[i].list]

\* What such a step keeps of the emissions.
LEMMA SameCallsFacts ==
  ASSUME IInv, SameCalls
  PROVE  /\ Emits' = Emits
         /\ UNCHANGED tasks => Nested'
         /\ Walking'
<1> USE DEF IInv, SameCalls
<1>1. Emits' = Emits
  BY DEF Emits
<1>2. \A i \in Emits : stack'[i].list \in Lists /\ (stack'[i].running => stack'[i].called # << >>)
  BY DEF Nested, Emits
<1>3. UNCHANGED tasks => Nested'
  BY <1>1, <1>2 DEF Nested
<1>4. Walking'
  <2> SUFFICES ASSUME NEW i \in Emits
               PROVE  /\ ~stack'[i].changed => lists'[stack'[i].list] = stack'[i].start
                      /\ Len(stack'[i].called) <= Len(stack'[i].start)
                      /\ \A n \in DOMAIN stack'[i].called : stack'[i].called[n] = stack'[i].start[n]
    BY <1>1 DEF Walking
  <2>1. i \in DOMAIN stack /\ stack[i].kind = "emit"
    BY DEF Emits
  <2>2. QED
    BY <2>1 DEF Walking
<1>5. QED
  BY <1>1, <1>3, <1>4

\* A handler returns: a once frame is spent, and leaves the only list it can be on.
LEMMA ReturnKeeps ==
  ASSUME IInv, Return PROVE IInv'
<1> USE DEF IInv
<1> DEFINE n == Len(stack)
           L == stack[n].list
           called == stack[n].called
           frame == called[Len(called)]
           removes == frame.once /\ frame \in ToSet(lists[L])
           after == IF removes THEN Changed(L) ELSE stack
           left == RemoveFirst(lists[L], frame)
<1>1. /\ stack # << >> /\ stack[n].kind = "emit" /\ stack[n].running
      /\ lists' = [lists EXCEPT ![L] = IF removes THEN left ELSE lists[L]]
      /\ spent' = IF frame.once THEN spent \cup {frame.id} ELSE spent
      /\ stack' = [after EXCEPT ![n].running = FALSE]
      /\ UNCHANGED <<handlers, made, tasks, ref, cleared>>
  BY DEF Return, Top, timers
<1>2. n \in DOMAIN stack /\ stack[n] \in Cell /\ stack \in Seq(Cell) /\ n \in Emits
  BY <1>1, OnTop DEF Typed, Emits
<1>3. L \in Lists /\ called # << >> /\ called \in Seq(Frames) /\ lists[L] \in Seq(Frames)
  BY <1>1, <1>2 DEF Nested, Cell, Typed
<1>4. Len(called) \in DOMAIN called /\ frame \in Frames
  BY <1>3
<1>5. frame.id <= made /\ frame.id \in 1..made
  BY <1>2, <1>4 DEF CalledHere, Frames, Typed
<1>6. \A l \in Lists : \A j \in DOMAIN lists[l] :
        lists[l][j].id = frame.id => l = L /\ lists[l][j] = frame
  BY <1>2, <1>4 DEF CalledHere
<1>7. after \in Seq(Cell) /\ DOMAIN after = DOMAIN stack /\ Len(after) = n /\ after # << >>
  BY <1>1, <1>2, ChangedFacts
<1>8. \A i \in DOMAIN stack :
        /\ after[i].kind = stack[i].kind /\ after[i].id = stack[i].id
        /\ after[i].list = stack[i].list /\ after[i].start = stack[i].start
        /\ after[i].called = stack[i].called /\ after[i].running = stack[i].running
        /\ stack[i].changed => after[i].changed
        /\ (removes /\ stack[i].kind = "emit" /\ stack[i].list = L) => after[i].changed
  BY ChangedFacts
<1>9. removes => /\ left \in Seq(Frames)
                 /\ \E p \in DOMAIN lists[L] :
                      /\ lists[L][p] = frame /\ p \in Nat
                      /\ \A j \in DOMAIN left :
                           /\ j \in Nat
                           /\ j < p => j \in DOMAIN lists[L] /\ left[j] = lists[L][j]
                           /\ j >= p => j + 1 \in DOMAIN lists[L] /\ left[j] = lists[L][j + 1]
  BY <1>3, RemoveFirstFacts, SMTT(60)
<1> HIDE DEF left, after, removes, frame, called
<1>10. /\ stack' \in Seq(Cell) /\ DOMAIN stack' = DOMAIN stack
       /\ \A i \in DOMAIN stack :
            /\ stack'[i].kind = after[i].kind /\ stack'[i].id = after[i].id
            /\ stack'[i].list = after[i].list /\ stack'[i].start = after[i].start
            /\ stack'[i].called = after[i].called /\ stack'[i].changed = after[i].changed
            /\ stack'[i].running => after[i].running
  <2>1. stack' = [after EXCEPT ![Len(after)].running = FALSE]
    BY <1>1, <1>7
  <2>2. QED
    BY <1>7, <2>1, Quieted
<1>11. SameCalls
  <2>1. \A l \in Lists : l # L \/ ~removes => lists'[l] = lists[l]
    BY <1>1, <1>3 DEF Typed
  <2>2. \A i \in DOMAIN stack : stack[i].kind = "emit" => stack[i].list \in Lists
    BY DEF Nested, Emits
  <2>3. QED
    BY <1>8, <1>10, <2>1, <2>2 DEF SameCalls
<1> HIDE DEF n, L
<1>12. Typed'
  <2>1. lists' \in [Lists -> Seq(Frames)]
    BY <1>1, <1>3, <1>9 DEF Typed
  <2>2. spent' \subseteq 1..made'
    BY <1>1, <1>5 DEF Typed
  <2>3. QED
    BY <1>1, <1>10, <2>1, <2>2 DEF Typed
<1>13. Emits' = Emits /\ Nested' /\ Walking'
  BY <1>1, <1>11, SameCallsFacts
<1>14. \A l \in Lists : l # L \/ ~removes => lists'[l] = lists[l]
  BY <1>1, <1>3 DEF Typed
<1>15. CASE ~removes
  <2>1. lists' = lists
    BY <1>1, <1>3, <1>15 DEF Typed
  <2>2. OneEach'
    BY <1>1, <2>1 DEF OneEach
  <2>3. CalledHere'
    <3> SUFFICES ASSUME NEW i \in Emits, NEW m \in DOMAIN stack'[i].called
                 PROVE  /\ stack'[i].called[m].id <= made'
                        /\ \A l \in Lists : \A j \in DOMAIN lists'[l] :
                             stack'[i].called[m].id = lists'[l][j].id
                               => l = stack'[i].list /\ stack'[i].called[m] = lists'[l][j]
      BY <1>13 DEF CalledHere
    <3>1. stack'[i].called = stack[i].called /\ stack'[i].list = stack[i].list
      BY <1>11 DEF SameCalls, Emits
    <3>2. QED
      BY <1>1, <2>1, <3>1 DEF CalledHere
  <2>4. SpentIsGone'
    <3>1. frame.once => \A l \in Lists : \A j \in DOMAIN lists[l] : lists[l][j].id # frame.id
      <4>1. frame.once => frame \notin ToSet(lists[L])
        BY <1>15 DEF removes
      <4>2. QED
        BY <1>6, <4>1 DEF ToSet
    <3>2. QED
      BY <1>1, <2>1, <3>1 DEF SpentIsGone
  <2>5. Timing'
    BY <1>1 DEF Timing
  <2>6. QED
    BY <1>12, <1>13, <2>2, <2>3, <2>4, <2>5
<1>16. CASE removes
  <2>1. lists'[L] = left /\ frame.once /\ \A l \in Lists : l # L => lists'[l] = lists[l]
    BY <1>1, <1>3, <1>16 DEF Typed, removes
  <2>2. PICK p \in DOMAIN lists[L] :
           /\ lists[L][p] = frame /\ p \in Nat
           /\ \A j \in DOMAIN left :
                /\ j \in Nat
                /\ j < p => j \in DOMAIN lists[L] /\ left[j] = lists[L][j]
                /\ j >= p => j + 1 \in DOMAIN lists[L] /\ left[j] = lists[L][j + 1]
    BY <1>9, <1>16
  <2> DEFINE old(l, j) == IF l = L /\ j >= p THEN j + 1 ELSE j
  <2>3. \A l \in Lists : \A j \in DOMAIN lists'[l] :
          old(l, j) \in DOMAIN lists[l] /\ lists'[l][j] = lists[l][old(l, j)]
    BY <2>1, <2>2
  <2>4. \A l \in Lists : \A j, m \in DOMAIN lists'[l] : old(l, j) = old(l, m) => j = m
    <3>1. \A j, m \in DOMAIN lists'[L] : old(L, j) = old(L, m) => j = m
      BY <2>1, <2>2
    <3>2. \A l \in Lists : l # L => \A j \in DOMAIN lists'[l] : old(l, j) = j
      OBVIOUS
    <3>3. QED
      BY <3>1, <3>2
  <2>5. \A j \in DOMAIN lists'[L] : old(L, j) # p
    BY <2>1, <2>2
  <2> HIDE DEF old
  <2>6. OneEach'
    <3> SUFFICES ASSUME NEW l \in Lists, NEW j \in DOMAIN lists'[l]
                 PROVE  /\ lists'[l][j].id <= made'
                        /\ \A k \in Lists : \A m \in DOMAIN lists'[k] :
                             lists'[l][j].id = lists'[k][m].id => l = k /\ j = m
      BY DEF OneEach
    <3>1. lists'[l][j].id <= made'
      BY <1>1, <2>3 DEF OneEach
    <3>2. ASSUME NEW k \in Lists, NEW m \in DOMAIN lists'[k], lists'[l][j].id = lists'[k][m].id
          PROVE  l = k /\ j = m
      <4>1. l = k /\ old(l, j) = old(k, m)
        BY <2>3, <3>2 DEF OneEach
      <4>2. QED
        BY <2>4, <4>1
    <3>3. QED
      BY <3>1, <3>2
  <2>7. CalledHere'
    <3> SUFFICES ASSUME NEW i \in Emits, NEW m \in DOMAIN stack'[i].called
                 PROVE  /\ stack'[i].called[m].id <= made'
                        /\ \A l \in Lists : \A j \in DOMAIN lists'[l] :
                             stack'[i].called[m].id = lists'[l][j].id
                               => l = stack'[i].list /\ stack'[i].called[m] = lists'[l][j]
      BY <1>13 DEF CalledHere
    <3>1. stack'[i].called = stack[i].called /\ stack'[i].list = stack[i].list
      BY <1>11 DEF SameCalls, Emits
    <3>2. QED
      BY <1>1, <2>3, <3>1 DEF CalledHere
  <2>8. SpentIsGone'
    <3> SUFFICES ASSUME NEW l \in Lists, NEW j \in DOMAIN lists'[l]
                 PROVE  lists'[l][j].id \notin spent'
      BY DEF SpentIsGone
    <3>1. lists'[l][j].id \notin spent
      BY <2>3 DEF SpentIsGone
    <3>2. lists'[l][j].id # frame.id
      <4>1. old(l, j) \in DOMAIN lists[l] /\ lists'[l][j] = lists[l][old(l, j)]
        BY <2>3
      <4>2. ASSUME lists[l][old(l, j)].id = lists[L][p].id PROVE FALSE
        <5>1. l = L /\ old(l, j) = p
          BY <1>3, <2>2, <4>1, <4>2 DEF OneEach
        <5>2. QED
          BY <2>5, <5>1
      <4>3. QED
        BY <2>2, <4>1, <4>2
    <3>3. QED
      BY <1>1, <3>1, <3>2
  <2>9. Timing'
    BY <1>1 DEF Timing
  <2>10. QED
    BY <1>12, <1>13, <2>6, <2>7, <2>8, <2>9
<1>17. QED
  BY <1>15, <1>16

\* The values of a function on a finite set are at most as many.
LEMMA ValuesBound ==
  ASSUME NEW S, IsFiniteSet(S), NEW f, f = [x \in S |-> f[x]]
  PROVE  IsFiniteSet({f[x] : x \in S}) /\ Cardinality({f[x] : x \in S}) <= Cardinality(S)
<1> DEFINE T == {f[x] : x \in S}
<1>1. f \in Surjection(S, T)
  BY DEF Surjection
<1> HIDE DEF T
<1>2. IsFiniteSet(T) /\ Cardinality(T) <= Cardinality(S)
  BY <1>1, FS_Surjection
<1>3. QED
  BY <1>2 DEF T

\* There are more lists than events and emissions can hold: one is free for a new event.
LEMMA SomeFree ==
  ASSUME Typed, Nested, NEW e \in Events, handlers[e] = 0
  PROVE  \E l \in Lists : Free(l)
<1> DEFINE others == Events \ {e}
           held == [x \in others |-> handlers[x]]
           walked == [i \in Emits |-> stack[i].list]
           H == {held[x] : x \in others}
           W == {walked[i] : i \in Emits}
<1>1. /\ IsFiniteSet(Events) /\ Cardinality(Events) \in Nat
      /\ IsFiniteSet(others) /\ Cardinality(others) = Cardinality(Events) - 1
  BY RuntimeAssumption, FS_CardinalityType, FS_RemoveElement
<1>2. IsFiniteSet(Emits) /\ Cardinality(Emits) \in Nat /\ Cardinality(Emits) <= MaxDepth
  BY EmitsFinite DEF Nested
<1>3. IsFiniteSet(H) /\ Cardinality(H) <= Cardinality(others)
  <2>1. held = [x \in others |-> held[x]]
    OBVIOUS
  <2> HIDE DEF held, others
  <2>2. QED
    BY <1>1, <2>1, ValuesBound
<1>4. IsFiniteSet(W) /\ Cardinality(W) <= Cardinality(Emits)
  <2>1. walked = [i \in Emits |-> walked[i]]
    OBVIOUS
  <2> HIDE DEF walked
  <2>2. QED
    BY <1>2, <2>1, ValuesBound
<1>5. \A l \in Lists : l \notin H \cup W => Free(l)
  <2> SUFFICES ASSUME NEW l \in Lists, l \notin H, l \notin W PROVE Free(l)
    OBVIOUS
  <2>1. ~Walked(l)
    BY DEF Walked, Emits
  <2>2. ASSUME NEW x \in Events, handlers[x] = l PROVE FALSE
    <3>1. CASE x = e
      BY <2>2, <3>1, <1>1, RuntimeAssumption DEF Lists
    <3>2. CASE x # e
      BY <2>2, <3>2
    <3>3. QED
      BY <3>1, <3>2
  <2>3. QED
    BY <2>1, <2>2 DEF Free
<1> HIDE DEF H, W, others
<1>6. /\ IsFiniteSet(H \cup W) /\ Cardinality(H \cup W) \in Nat
      /\ Cardinality(H \cup W) <= Cardinality(Events) - 1 + MaxDepth
  <2>1. /\ IsFiniteSet(H \cup W)
        /\ Cardinality(H \cup W) = Cardinality(H) + Cardinality(W) - Cardinality(H \cap W)
    BY <1>3, <1>4, FS_Union
  <2>2. IsFiniteSet(H \cap W)
    BY <1>3, FS_Intersection
  <2>3. /\ Cardinality(H) \in Nat /\ Cardinality(W) \in Nat /\ Cardinality(H \cap W) \in Nat
        /\ Cardinality(H \cup W) \in Nat
    BY <1>3, <1>4, <2>1, <2>2, FS_CardinalityType
  <2>4. QED
    BY <1>1, <1>2, <1>3, <1>4, <2>1, <2>3, RuntimeAssumption
<1>7. Cardinality(Lists) = Cardinality(Events) + MaxDepth
  <2> DEFINE n == Cardinality(Events) + MaxDepth
  <2>1. n \in Nat /\ n >= 1
    BY <1>1, RuntimeAssumption
  <2> HIDE DEF n
  <2>2. Cardinality(1..n) = n
    BY <2>1, FS_Interval
  <2>3. QED
    BY <2>2 DEF Lists, n
<1>8. ~(Lists \subseteq H \cup W)
  <2> SUFFICES ASSUME Lists \in SUBSET (H \cup W) PROVE FALSE
    OBVIOUS
  <2>1. Cardinality(Lists) <= Cardinality(H \cup W)
    BY <1>6, FS_Subset
  <2>2. QED
    BY <1>1, <1>6, <1>7, <2>1, RuntimeAssumption
<1>9. QED
  BY <1>5, <1>8

\* The list for an event without one is free.
LEMMA NewListFacts ==
  ASSUME Typed, Nested, NEW e \in Events, handlers[e] = 0
  PROVE  NewList \in Lists /\ Free(NewList)
<1> DEFINE F == {l \in Lists : Free(l)}
<1>1. F # {}
  BY SomeFree
<1>2. F \in SUBSET Nat
  <2>1. \A l \in Lists : l \in Nat
    BY DEF Lists
  <2>2. QED
    BY <2>1
<1>3. PICK m \in F : \A k \in F : m <= k
  BY <1>1, <1>2, Least
<1>4. m \in Lists /\ Free(m) /\ \A k \in Lists : Free(k) => m <= k
  BY <1>3
<1>5. QED
  BY <1>4 DEF NewList

\* t is s with x put in at p: what was there and behind it has moved up.
Put(t, p, s, x) ==
  /\ p \in DOMAIN t /\ t[p] = x
  /\ p \in Nat /\ \A j \in DOMAIN t : j \in Nat
  /\ \A j \in DOMAIN t : j < p => j \in DOMAIN s /\ t[j] = s[j]
  /\ \A j \in DOMAIN t : j > p => j - 1 \in DOMAIN s /\ t[j] = s[j - 1]

\* A frame put in front.
LEMMA PutInFront ==
  ASSUME NEW S, NEW s \in Seq(S), NEW x \in S
  PROVE  <<x>> \o s \in Seq(S) /\ Put(<<x>> \o s, 1, s, x)
<1> DEFINE t == <<x>> \o s
<1>1. <<x>> \in Seq(S) /\ Len(<<x>>) = 1 /\ <<x>>[1] = x
  OBVIOUS
<1>2. /\ t \in Seq(S) /\ Len(t) = Len(<<x>>) + Len(s)
      /\ \A i \in 1..(Len(<<x>>) + Len(s)) : t[i] = IF i <= Len(<<x>>) THEN <<x>>[i] ELSE s[i - Len(<<x>>)]
  BY <1>1, ConcatProperties
<1> HIDE DEF t
<1>3. /\ Len(s) \in Nat /\ DOMAIN t = 1..(1 + Len(s)) /\ DOMAIN s = 1..Len(s)
      /\ \A i \in 1..(1 + Len(s)) : t[i] = IF i <= 1 THEN x ELSE s[i - 1]
  BY <1>1, <1>2
<1>4. 1 \in DOMAIN t /\ t[1] = x
  BY <1>3
<1>5. \A j \in DOMAIN t : j \in Nat /\ ~(j < 1) /\ (j > 1 => j - 1 \in DOMAIN s /\ t[j] = s[j - 1])
  BY <1>3
<1>6. Put(t, 1, s, x)
  BY <1>4, <1>5 DEF Put
<1>7. QED
  BY <1>2, <1>6 DEF t

\* A frame put at the end.
LEMMA PutAtEnd ==
  ASSUME NEW S, NEW s \in Seq(S), NEW x \in S
  PROVE  Append(s, x) \in Seq(S) /\ Put(Append(s, x), Len(s) + 1, s, x)
<1> DEFINE t == Append(s, x)
<1>1. /\ t \in Seq(S) /\ Len(s) \in Nat /\ DOMAIN s = 1..Len(s)
      /\ DOMAIN t = 1..(Len(s) + 1)
      /\ \A i \in 1..Len(s) : t[i] = s[i]
      /\ t[Len(s) + 1] = x
  BY AppendFacts
<1> HIDE DEF t
<1>2. \A j \in DOMAIN t : j \in Nat /\ ~(j > Len(s) + 1) /\ (j < Len(s) + 1 => j \in DOMAIN s /\ t[j] = s[j])
  BY <1>1
<1>3. Len(s) + 1 \in DOMAIN t /\ Len(s) + 1 \in Nat
  BY <1>1
<1>4. Put(t, Len(s) + 1, s, x)
  BY <1>1, <1>2, <1>3 DEF Put
<1>5. QED
  BY <1>1, <1>4 DEF t

\* A handler is added: the frame is new, and who walks the list is told.
LEMMA AddKeeps ==
  ASSUME IInv, NEW e \in Events, NEW o \in BOOLEAN, NEW first \in BOOLEAN, Add(e, o, first) PROVE IInv'
<1> USE DEF IInv
<1> DEFINE L == IF handlers[e] = 0 THEN NewList ELSE handlers[e]
           frame == [id |-> made + 1, once |-> o]
           old == IF handlers[e] = 0 THEN << >> ELSE lists[L]
           new == IF first THEN <<frame>> \o old ELSE Append(old, frame)
<1>1. /\ made < MaxFrames
      /\ handlers' = [handlers EXCEPT ![e] = L] /\ lists' = [lists EXCEPT ![L] = new]
      /\ made' = made + 1 /\ stack' = Changed(L)
      /\ UNCHANGED <<spent, tasks, ref, cleared>>
  BY DEF Add, timers
<1>2. L \in Lists
  BY NewListFacts DEF Typed
<1>3. old \in Seq(Frames)
  <2>1. lists \in [Lists -> Seq(Frames)] /\ << >> \in Seq(Frames)
    BY DEF Typed
  <2>2. QED
    BY <1>2, <2>1
<1>4. frame \in Frames /\ frame.id = made + 1 /\ made \in Nat
  BY <1>1, RuntimeAssumption DEF Frames, Typed
<1>5. \A j \in DOMAIN old : old = lists[L] /\ j \in DOMAIN lists[L]
  OBVIOUS
<1> HIDE DEF L, frame, old
<1>6. new \in Seq(Frames) /\ \E p : Put(new, p, old, frame)
  BY <1>3, <1>4, PutInFront, PutAtEnd
<1> HIDE DEF new
<1>7. PICK p : Put(new, p, old, frame)
  BY <1>6
<1> DEFINE was(j) == IF j > p THEN j - 1 ELSE j
<1>8. \A j \in DOMAIN new : IF j = p THEN new[j] = frame
                            ELSE was(j) \in DOMAIN old /\ new[j] = old[was(j)]
  BY <1>7 DEF Put
<1>9. \A j, m \in DOMAIN new : was(j) = was(m) /\ j # p /\ m # p => j = m
  BY <1>7 DEF Put
<1> HIDE DEF was
<1>10. lists'[L] = new /\ \A l \in Lists : l # L => lists'[l] = lists[l]
  BY <1>1, <1>2 DEF Typed
<1> DEFINE IsNew(l, j) == l = L /\ j = p
           at(l, j) == IF l = L THEN was(j) ELSE j
<1>11. \A l \in Lists : \A j \in DOMAIN lists'[l] :
         IF IsNew(l, j) THEN lists'[l][j] = frame
         ELSE at(l, j) \in DOMAIN lists[l] /\ lists'[l][j] = lists[l][at(l, j)]
  BY <1>5, <1>8, <1>10
<1>12. \A l \in Lists : \A j, m \in DOMAIN lists'[l] :
         at(l, j) = at(l, m) /\ ~IsNew(l, j) /\ ~IsNew(l, m) => j = m
  BY <1>9, <1>10
<1> HIDE DEF at, IsNew
<1>13. \A l \in Lists : \A j \in DOMAIN lists[l] : lists[l][j].id <= made /\ lists[l][j].id \in Nat
  <2> SUFFICES ASSUME NEW l \in Lists, NEW j \in DOMAIN lists[l]
               PROVE  lists[l][j].id <= made /\ lists[l][j].id \in Nat
    OBVIOUS
  <2>1. lists[l] \in Seq(Frames)
    BY DEF Typed
  <2>2. lists[l][j] \in Frames
    BY <2>1
  <2>3. QED
    BY <2>2 DEF OneEach, Frames
<1>14. /\ stack' \in Seq(Cell) /\ DOMAIN stack' = DOMAIN stack
       /\ \A i \in DOMAIN stack :
            /\ stack'[i].kind = stack[i].kind /\ stack'[i].id = stack[i].id
            /\ stack'[i].list = stack[i].list /\ stack'[i].start = stack[i].start
            /\ stack'[i].called = stack[i].called /\ stack'[i].running = stack[i].running
            /\ stack[i].changed => stack'[i].changed
            /\ (stack[i].kind = "emit" /\ stack[i].list = L) => stack'[i].changed
  <2>1. PICK s : s = Changed(L)
    OBVIOUS
  <2>2. stack' = s
    BY <1>1, <2>1
  <2>3. /\ s \in Seq(Cell) /\ DOMAIN s = DOMAIN stack
        /\ \A i \in DOMAIN stack :
             /\ s[i].kind = stack[i].kind /\ s[i].id = stack[i].id
             /\ s[i].list = stack[i].list /\ s[i].start = stack[i].start
             /\ s[i].called = stack[i].called /\ s[i].running = stack[i].running
             /\ stack[i].changed => s[i].changed
             /\ (stack[i].kind = "emit" /\ stack[i].list = L) => s[i].changed
    BY <2>1, ChangedFacts
  <2>4. QED
    BY <2>2, <2>3, Zenon
<1>15. SameCalls
  <2>1. \A i \in DOMAIN stack : stack[i].kind = "emit" => stack[i].list \in Lists
    BY DEF Nested, Emits
  <2>2. QED
    BY <1>10, <1>14, <2>1 DEF SameCalls
<1>16. Emits' = Emits /\ Nested' /\ Walking'
  BY <1>1, <1>15, SameCallsFacts
<1>17. Typed'
  <2>1. handlers' \in [Events -> {0} \cup Lists]
    BY <1>1, <1>2 DEF Typed
  <2>2. lists' \in [Lists -> Seq(Frames)]
    BY <1>1, <1>2, <1>6 DEF Typed
  <2>3. made' \in 0..MaxFrames /\ spent' \subseteq 1..made'
    BY <1>1, <1>4, RuntimeAssumption DEF Typed
  <2>4. QED
    BY <1>1, <1>14, <2>1, <2>2, <2>3 DEF Typed
<1>18. OneEach'
  <2> SUFFICES ASSUME NEW l \in Lists, NEW j \in DOMAIN lists'[l]
               PROVE  /\ lists'[l][j].id <= made'
                      /\ \A k \in Lists : \A m \in DOMAIN lists'[k] :
                           lists'[l][j].id = lists'[k][m].id => l = k /\ j = m
    BY DEF OneEach
  <2>1. \A k \in Lists : \A m \in DOMAIN lists'[k] :
          /\ lists'[k][m].id <= made + 1
          /\ IsNew(k, m) <=> lists'[k][m].id = made + 1
    BY <1>4, <1>11, <1>13
  <2>2. ASSUME NEW k \in Lists, NEW m \in DOMAIN lists'[k], lists'[l][j].id = lists'[k][m].id
        PROVE  l = k /\ j = m
    <3>1. CASE IsNew(l, j)
      BY <2>1, <2>2, <3>1 DEF IsNew
    <3>2. CASE ~IsNew(l, j)
      <4>1. ~IsNew(k, m)
        BY <2>1, <2>2, <3>2
      <4>2. l = k /\ at(l, j) = at(k, m)
        BY <1>11, <2>2, <3>2, <4>1 DEF OneEach
      <4>3. QED
        BY <1>12, <3>2, <4>1, <4>2
    <3>3. QED
      BY <3>1, <3>2
  <2>3. QED
    BY <1>1, <2>1, <2>2
<1>19. CalledHere'
  <2> SUFFICES ASSUME NEW i \in Emits, NEW n \in DOMAIN stack'[i].called
               PROVE  /\ stack'[i].called[n].id <= made'
                      /\ \A l \in Lists : \A j \in DOMAIN lists'[l] :
                           stack'[i].called[n].id = lists'[l][j].id
                             => l = stack'[i].list /\ stack'[i].called[n] = lists'[l][j]
    BY <1>16 DEF CalledHere
  <2>1. i \in DOMAIN stack /\ stack'[i].called = stack[i].called /\ stack'[i].list = stack[i].list
    BY <1>14 DEF Emits
  <2>2. stack[i].called[n].id <= made /\ stack[i].called[n].id \in Nat
    <3>1. stack[i] \in Cell
      BY <2>1 DEF Typed
    <3>2. stack[i].called \in Seq(Frames) /\ n \in DOMAIN stack[i].called
      BY <2>1, <3>1 DEF Cell
    <3>3. stack[i].called[n] \in Frames
      BY <3>2
    <3>4. QED
      BY <2>1, <3>3 DEF CalledHere, Frames
  <2>3. ASSUME NEW l \in Lists, NEW j \in DOMAIN lists'[l], stack[i].called[n].id = lists'[l][j].id
        PROVE  l = stack[i].list /\ stack[i].called[n] = lists'[l][j]
    <3>1. ~IsNew(l, j)
      BY <1>4, <1>11, <2>2, <2>3
    <3>2. at(l, j) \in DOMAIN lists[l] /\ lists'[l][j] = lists[l][at(l, j)]
      BY <1>11, <3>1
    <3>3. QED
      BY <2>1, <2>3, <3>2 DEF CalledHere
  <2>4. QED
    BY <1>1, <1>4, <2>1, <2>2, <2>3
<1>20. SpentIsGone'
  <2> SUFFICES ASSUME NEW l \in Lists, NEW j \in DOMAIN lists'[l]
               PROVE  lists'[l][j].id \notin spent
    BY <1>1 DEF SpentIsGone
  <2>1. CASE IsNew(l, j)
    <3>1. lists'[l][j].id = made + 1
      BY <1>4, <1>11, <2>1
    <3>2. QED
      BY <1>4, <3>1 DEF Typed
  <2>2. CASE ~IsNew(l, j)
    BY <1>11, <2>2 DEF SpentIsGone
  <2>3. QED
    BY <2>1, <2>2
<1>21. Timing'
  BY <1>1 DEF Timing
<1>22. QED
  BY <1>16, <1>17, <1>18, <1>19, <1>20, <1>21

-----------------------------------------------------------------------------
(* Steps of timers and of the scheduler.                                   *)

\* A step that leaves the emitter and the stack alone.
LEMMA TimersOnly ==
  ASSUME IInv, UNCHANGED <<handlers, lists, made, spent, stack>>,
         /\ tasks' \in [Timers \cup {0} -> [state : TaskStates, left : Nat, period : Nat]]
         /\ ref' \in [Timers -> {"null", "ref", "undefined"}] /\ cleared' \subseteq Timers,
         \A i \in DOMAIN stack : stack[i].kind # "emit" => tasks'[stack[i].id].state \in {"running", "cancelled"},
         Timing'
  PROVE  IInv'
<1> USE DEF IInv
<1>1. Emits' = Emits
  BY DEF Emits
<1>2. Typed'
  BY DEF Typed
<1>3. Nested'
  <2>1. \A i \in DOMAIN stack : i \notin Emits => tasks'[stack[i].id].state \in {"running", "cancelled"}
    BY DEF Emits
  <2>2. QED
    BY <1>1, <2>1 DEF Nested
<1>4. OneEach' /\ SpentIsGone'
  BY DEF OneEach, SpentIsGone
<1>5. CalledHere' /\ Walking'
  BY <1>1 DEF CalledHere, Walking
<1>6. QED
  BY <1>2, <1>3, <1>4, <1>5

\* What a task is, wherever it is.
LEMMA TaskFacts ==
  ASSUME IInv, NEW t \in Timers \cup {0}
  PROVE  /\ tasks[t].state \in TaskStates /\ tasks[t].left \in Nat /\ tasks[t].period \in Nat
         /\ tasks[t] \in [state : TaskStates, left : Nat, period : Nat]
  BY DEF IInv, Typed

\* A stack's tasks are timers or the tick, and run or are cancelled.
LEMMA StackTasks ==
  ASSUME IInv
  PROVE  \A i \in DOMAIN stack : /\ stack[i].id \in Timers \cup {0}
                                 /\ stack[i].kind # "emit" =>
                                      tasks[stack[i].id].state \in {"running", "cancelled"}
<1>1. \A i \in DOMAIN stack : stack[i] \in Cell
  BY DEF IInv, Typed
<1>2. QED
  BY <1>1 DEF IInv, Nested, Emits, Cell

\* A timer that is set has no task yet.
LEMMA ScheduleKeeps ==
  ASSUME IInv, NEW t \in Timers, NEW delay \in Nat, NEW period \in Nat, Schedule(t, delay, period)
  PROVE  IInv'
<1> DEFINE task == [state |-> "queued", left |-> delay, period |-> period]
<1>1. /\ tasks[t].state = "none" /\ tasks' = [tasks EXCEPT ![t] = task]
      /\ UNCHANGED <<handlers, lists, made, spent, stack, ref, cleared>>
  BY DEF Schedule, emitter
<1>2. task \in [state : TaskStates, left : Nat, period : Nat] /\ task.state = "queued"
  BY DEF TaskStates
<1> HIDE DEF task
<1>3. /\ tasks' \in [Timers \cup {0} -> [state : TaskStates, left : Nat, period : Nat]]
      /\ tasks'[t] = task /\ \A u \in Timers \cup {0} : u # t => tasks'[u] = tasks[u]
  BY <1>1, <1>2 DEF IInv, Typed
<1>4. \A i \in DOMAIN stack : stack[i].kind # "emit" => tasks'[stack[i].id].state \in {"running", "cancelled"}
  BY <1>1, <1>3, StackTasks
<1>5. Timing'
  <2>1. \A u \in cleared : u # t /\ u \in Timers
    BY <1>1 DEF IInv, Timing, Typed
  <2>2. \A u \in Timers : ref[u] # "null" => u # t
    BY <1>1 DEF IInv, Timing
  <2>3. QED
    BY <1>1, <1>3, <2>1, <2>2 DEF IInv, Timing
<1>6. QED
  BY <1>1, <1>3, <1>4, <1>5, TimersOnly DEF IInv, Typed

\* A reference is taken of a timer that was set.
LEMMA RefKeeps ==
  ASSUME IInv, NEW t \in Timers, Ref(t) PROVE IInv'
<1>1. /\ tasks[t].state # "none" /\ ref' = [ref EXCEPT ![t] = "ref"]
      /\ UNCHANGED <<handlers, lists, made, spent, stack, tasks, cleared>>
  BY DEF Ref, emitter
<1>2. ref' \in [Timers -> {"null", "ref", "undefined"}] /\ \A u \in Timers : u # t => ref'[u] = ref[u]
  BY <1>1 DEF IInv, Typed
<1>3. Timing'
  BY <1>1, <1>2 DEF IInv, Timing
<1>4. \A i \in DOMAIN stack : stack[i].kind # "emit" => tasks'[stack[i].id].state \in {"running", "cancelled"}
  BY <1>1, StackTasks
<1>5. QED
  BY <1>1, <1>2, <1>3, <1>4, TimersOnly DEF IInv, Typed

\* A clear cancels what is queued or running; what is not was over.
LEMMA UnrefKeeps ==
  ASSUME IInv, NEW t \in Timers, unref(t) PROVE IInv'
<1> DEFINE task == [tasks[t] EXCEPT !.state = "cancelled"]
<1>1. /\ ref[t] = "ref"
      /\ tasks' = IF tasks[t].state \in {"queued", "running"} THEN [tasks EXCEPT ![t] = task] ELSE tasks
      /\ ref' = [ref EXCEPT ![t] = "undefined"] /\ cleared' = cleared \cup {t}
      /\ UNCHANGED <<handlers, lists, made, spent, stack>>
  BY DEF unref, emitter, Cancelled
<1>2. /\ task \in [state : TaskStates, left : Nat, period : Nat] /\ task.state = "cancelled"
      /\ tasks[t].state \in TaskStates /\ tasks[t].state # "none"
  <2>1. tasks[t] \in [state : TaskStates, left : Nat, period : Nat]
    BY TaskFacts
  <2>2. QED
    BY <1>1, <2>1 DEF IInv, Timing, TaskStates
<1> HIDE DEF task
<1>3. /\ tasks' \in [Timers \cup {0} -> [state : TaskStates, left : Nat, period : Nat]]
      /\ tasks'[t].state \in {"cancelled", "done"}
      /\ \A u \in Timers \cup {0} : u # t => tasks'[u] = tasks[u]
      /\ tasks'[t] = tasks[t] \/ tasks'[t].state = "cancelled"
  <2>1. tasks \in [Timers \cup {0} -> [state : TaskStates, left : Nat, period : Nat]]
    BY DEF IInv, Typed
  <2>2. CASE tasks[t].state \in {"queued", "running"}
    BY <1>1, <1>2, <2>1, <2>2
  <2>3. CASE tasks[t].state \notin {"queued", "running"}
    BY <1>1, <1>2, <2>1, <2>3 DEF TaskStates
  <2>4. QED
    BY <2>2, <2>3
<1>4. ref' \in [Timers -> {"null", "ref", "undefined"}] /\ \A u \in Timers : u # t => ref'[u] = ref[u]
  BY <1>1 DEF IInv, Typed
<1>5. cleared' \subseteq Timers
  BY <1>1 DEF IInv, Typed
<1>6. \A i \in DOMAIN stack : stack[i].kind # "emit" => tasks'[stack[i].id].state \in {"running", "cancelled"}
  BY <1>3, StackTasks
<1>7. Timing'
  <2>1. \A u \in cleared : u \in Timers
    BY DEF IInv, Typed
  <2>2. \A u \in cleared' : tasks'[u].state \in {"cancelled", "done"}
    BY <1>1, <1>3, <2>1 DEF IInv, Timing
  <2>3. \A u \in Timers : ref'[u] # "null" => tasks'[u].state # "none"
    BY <1>3, <1>4 DEF IInv, Timing
  <2>4. QED
    BY <2>2, <2>3 DEF Timing
<1>8. QED
  BY <1>1, <1>3, <1>4, <1>5, <1>6, <1>7, TimersOnly

\* A tick of the server: nothing is due, so what is queued has time left.
LEMMA HeartbeatKeeps ==
  ASSUME IInv, Heartbeat PROVE IInv'
<1> DEFINE later(t) == [tasks[t] EXCEPT !.left = @ - 1]
<1>1. /\ stack = << >> /\ Due = {}
      /\ tasks' = [t \in DOMAIN tasks |-> IF tasks[t].state = "queued" THEN later(t) ELSE tasks[t]]
      /\ UNCHANGED <<handlers, lists, made, spent, stack, ref, cleared>>
  BY DEF Heartbeat, emitter
<1>2. DOMAIN tasks = Timers \cup {0}
  BY DEF IInv, Typed
<1>3. \A t \in Timers \cup {0} : tasks[t].state = "queued" =>
        later(t) \in [state : TaskStates, left : Nat, period : Nat] /\ later(t).state = "queued"
  <2> SUFFICES ASSUME NEW t \in Timers \cup {0}, tasks[t].state = "queued"
               PROVE  later(t) \in [state : TaskStates, left : Nat, period : Nat] /\ later(t).state = "queued"
    OBVIOUS
  <2>1. tasks[t] \in [state : TaskStates, left : Nat, period : Nat] /\ tasks[t].left \in Nat
    BY TaskFacts
  <2>2. tasks[t].left # 0
    BY <1>1, <1>2 DEF Due
  <2>3. tasks[t].left - 1 \in Nat
    BY <2>1, <2>2
  <2>4. QED
    BY <2>1, <2>3
<1> HIDE DEF later
<1>4. /\ tasks' \in [Timers \cup {0} -> [state : TaskStates, left : Nat, period : Nat]]
      /\ \A t \in Timers \cup {0} : tasks'[t].state = tasks[t].state
  BY <1>1, <1>2, <1>3, TaskFacts
<1>5. Timing'
  <2>1. \A t \in cleared : t \in Timers
    BY DEF IInv, Typed
  <2>2. QED
    BY <1>1, <1>4, <2>1 DEF IInv, Timing
<1>6. \A i \in DOMAIN stack : stack[i].kind # "emit" => tasks'[stack[i].id].state \in {"running", "cancelled"}
  BY <1>1
<1>7. QED
  BY <1>1, <1>4, <1>5, <1>6, TimersOnly DEF IInv, Typed

\* What is due runs on an empty stack; the tick task emits from there.
LEMMA RunTaskKeeps ==
  ASSUME IInv, RunTask PROVE IInv'
<1> DEFINE t == CHOOSE x \in Due : \A y \in Due : x <= y
           task == [tasks[t] EXCEPT !.state = "running"]
           low == IF t # 0 THEN Running(t) ELSE [Running(0) EXCEPT !.running = FALSE]
<1>1. /\ stack = << >> /\ Due # {} /\ tasks' = [tasks EXCEPT ![t] = task]
      /\ \/ stack' = <<low>>
         \/ handlers[Tick] # 0 /\ stack' = <<low, Emission(Tick)>>
      /\ UNCHANGED <<handlers, lists, made, spent, ref, cleared>>
  <2>1. /\ stack = << >> /\ Due # {} /\ tasks' = [tasks EXCEPT ![t].state = "running"]
        /\ stack' = IF t # 0 THEN <<Running(t)>>
                    ELSE IF handlers[Tick] = 0 THEN <<[Running(0) EXCEPT !.running = FALSE]>>
                    ELSE <<[Running(0) EXCEPT !.running = FALSE], Emission(Tick)>>
        /\ UNCHANGED <<handlers, lists, made, spent, ref, cleared>>
    BY DEF RunTask, emitter
  <2> HIDE DEF t
  <2>2. tasks' = [tasks EXCEPT ![t] = task]
    BY <2>1
  <2>3. CASE t # 0
    <3>1. low = Running(t)
      BY <2>3
    <3>2. QED
      BY <2>1, <2>2, <2>3, <3>1
  <2>4. CASE t = 0
    <3>1. low = [Running(0) EXCEPT !.running = FALSE]
      BY <2>4
    <3>2. stack' = IF handlers[Tick] = 0 THEN <<low>> ELSE <<low, Emission(Tick)>>
      BY <2>1, <2>4, <3>1
    <3> HIDE DEF low, task
    <3>3. QED
      BY <2>1, <2>2, <3>2
  <2>5. QED
    BY <2>3, <2>4
<1>2. Due \in SUBSET Nat /\ Due \subseteq Timers \cup {0}
  <2>1. DOMAIN tasks = Timers \cup {0}
    BY DEF IInv, Typed
  <2>2. Timers \cup {0} \subseteq Nat
    BY RuntimeAssumption
  <2>3. QED
    BY <2>1, <2>2 DEF Due
<1>3. t \in Due
  <2>1. PICK m \in Due : \A k \in Due : m <= k
    BY <1>1, <1>2, Least
  <2>2. QED
    BY <2>1
<1> HIDE DEF t
<1>4. t \in Timers \cup {0} /\ tasks[t].state = "queued"
  BY <1>2, <1>3 DEF Due
<1>5. task \in [state : TaskStates, left : Nat, period : Nat] /\ task.state = "running"
  <2>1. tasks[t] \in [state : TaskStates, left : Nat, period : Nat]
    BY <1>4, TaskFacts
  <2>2. QED
    BY <2>1 DEF TaskStates
<1>6. low \in Cell /\ low.kind = "task" /\ low.id = t
  <2>1. << >> \in Seq(Frames)
    OBVIOUS
  <2>2. QED
    BY <1>4, <2>1 DEF Running, Cell
<1> HIDE DEF task, low
<1>7. /\ tasks' \in [Timers \cup {0} -> [state : TaskStates, left : Nat, period : Nat]]
      /\ tasks'[t] = task /\ \A u \in Timers \cup {0} : u # t => tasks'[u] = tasks[u]
  BY <1>1, <1>4, <1>5 DEF IInv, Typed
<1>8. Timing'
  <2>1. \A u \in cleared : u \in Timers /\ u # t
    BY <1>4 DEF IInv, Typed, Timing
  <2>2. QED
    BY <1>1, <1>5, <1>7, <2>1 DEF IInv, Timing
<1>9. OneEach' /\ SpentIsGone'
  BY <1>1 DEF IInv, OneEach, SpentIsGone
<1>10. CASE stack' = <<low>>
  <2>1. stack' \in Seq(Cell) /\ DOMAIN stack' = {1} /\ stack'[1] = low
    BY <1>6, <1>10
  <2>2. Emits' = {}
    BY <1>6, <2>1 DEF Emits
  <2>3. Nested'
    <3>1. Cardinality({}) <= MaxDepth
      BY FS_EmptySet, RuntimeAssumption
    <3>2. QED
      BY <1>4, <1>5, <1>6, <1>7, <2>1, <2>2, <3>1 DEF Nested
  <2>4. CalledHere' /\ Walking'
    BY <2>2 DEF CalledHere, Walking
  <2>5. Typed'
    BY <1>1, <1>7, <2>1 DEF IInv, Typed
  <2>6. QED
    BY <1>8, <1>9, <2>3, <2>4, <2>5 DEF IInv
<1>11. CASE handlers[Tick] # 0 /\ stack' = <<low, Emission(Tick)>>
  <2>1. PICK c : c = Emission(Tick)
    OBVIOUS
  <2>2. /\ c \in Cell /\ c.kind = "emit" /\ c.list \in Lists /\ c.start = lists[c.list]
        /\ c.called = << >> /\ ~c.changed /\ ~c.running
    BY <1>11, <2>1, EmissionFacts, RuntimeAssumption DEF IInv
  <2>3. stack' = <<low, c>>
    BY <1>11, <2>1
  <2>4. stack' \in Seq(Cell) /\ DOMAIN stack' = {1, 2} /\ stack'[1] = low /\ stack'[2] = c
    BY <1>6, <2>2, <2>3
  <2>5. Emits' = {2}
    BY <1>6, <2>2, <2>4 DEF Emits
  <2>6. Nested'
    <3>1. Cardinality({2}) <= MaxDepth
      <4>1. Cardinality({2}) = 1
        BY FS_Singleton
      <4>2. QED
        BY <4>1, RuntimeAssumption
    <3>2. QED
      BY <1>4, <1>5, <1>6, <1>7, <2>2, <2>4, <2>5, <3>1 DEF Nested
  <2>7. CalledHere'
    BY <2>2, <2>4, <2>5 DEF CalledHere
  <2>8. Walking'
    <3>1. c.start \in Seq(Frames)
      BY <2>2 DEF Cell
    <3>2. QED
      BY <1>1, <2>2, <2>4, <2>5, <3>1 DEF Walking
  <2>9. Typed'
    BY <1>1, <1>7, <2>4 DEF IInv, Typed
  <2>10. QED
    BY <1>8, <1>9, <2>6, <2>7, <2>8, <2>9 DEF IInv
<1>12. QED
  BY <1>1, <1>10, <1>11

\* A task that ends was alone on the stack; one that was cancelled stays so.
LEMMA TaskEndsKeeps ==
  ASSUME IInv, TaskEnds PROVE IInv'
<1> DEFINE t == Top.id
           task == tasks[t]
           after == CASE task.state = "cancelled"                    -> task
                      [] task.state = "running" /\ task.period > 0 -> [task EXCEPT !.state = "queued", !.left = task.period]
                      [] task.state = "running" /\ task.period = 0 -> [task EXCEPT !.state = "done"]
<1>1. /\ stack # << >> /\ Top.kind = "task" /\ tasks' = [tasks EXCEPT ![t] = after] /\ stack' = Front(stack)
      /\ UNCHANGED <<handlers, lists, made, spent, ref, cleared>>
  BY DEF TaskEnds, emitter
<1>2. Len(stack) \in DOMAIN stack /\ Len(stack) \in Nat /\ Top = stack[Len(stack)]
  BY <1>1, OnTop DEF IInv
<1>3. Len(stack) = 1 /\ t \in Timers \cup {0} /\ task.state \in {"running", "cancelled"}
  BY <1>1, <1>2, StackTasks DEF IInv, Nested, Emits
<1>4. task \in [state : TaskStates, left : Nat, period : Nat] /\ task.period \in Nat
  BY <1>3, TaskFacts
<1> HIDE DEF task
<1>5. /\ after \in [state : TaskStates, left : Nat, period : Nat] /\ after.state # "none"
      /\ task.state = "cancelled" => after.state = "cancelled"
  <2>1. CASE task.state = "cancelled"
    BY <1>4, <2>1
  <2>2. CASE task.state = "running" /\ task.period > 0
    <3>1. after = [task EXCEPT !.state = "queued", !.left = task.period]
      BY <2>2
    <3> HIDE DEF after
    <3>2. QED
      BY <1>4, <2>2, <3>1 DEF TaskStates
  <2>3. CASE task.state = "running" /\ task.period = 0
    <3>1. after = [task EXCEPT !.state = "done"]
      BY <2>3
    <3> HIDE DEF after
    <3>2. QED
      BY <1>4, <2>3, <3>1 DEF TaskStates
  <2>4. QED
    BY <1>3, <1>4, <2>1, <2>2, <2>3
<1> HIDE DEF after, t
<1>6. /\ tasks' \in [Timers \cup {0} -> [state : TaskStates, left : Nat, period : Nat]]
      /\ tasks'[t] = after /\ \A u \in Timers \cup {0} : u # t => tasks'[u] = tasks[u]
  BY <1>1, <1>3, <1>5 DEF IInv, Typed
<1>7. stack' \in Seq(Cell) /\ DOMAIN stack' = {}
  <2>1. stack' \in Seq(Cell) /\ DOMAIN stack' = 1..(Len(stack) - 1)
    BY <1>1, Popped DEF IInv
  <2>2. QED
    BY <1>3, <2>1
<1>8. Emits' = {}
  BY <1>7 DEF Emits
<1>9. Nested' /\ CalledHere' /\ Walking'
  <2>1. Cardinality({}) <= MaxDepth
    BY FS_EmptySet, RuntimeAssumption
  <2>2. Nested'
    BY <1>7, <1>8, <2>1 DEF Nested
  <2>3. QED
    BY <1>8, <2>2 DEF CalledHere, Walking
<1>10. OneEach' /\ SpentIsGone'
  BY <1>1 DEF IInv, OneEach, SpentIsGone
<1>11. Timing'
  <2>1. \A u \in cleared : u \in Timers
    BY DEF IInv, Typed
  <2>2. \A u \in cleared : tasks'[u].state \in {"cancelled", "done"}
    <3> SUFFICES ASSUME NEW u \in cleared PROVE tasks'[u].state \in {"cancelled", "done"}
      OBVIOUS
    <3>1. tasks[u].state \in {"cancelled", "done"} /\ u \in Timers
      BY <2>1 DEF IInv, Timing
    <3>2. CASE u = t
      BY <1>3, <1>5, <1>6, <3>1, <3>2 DEF task
    <3>3. CASE u # t
      BY <1>6, <3>1, <3>3
    <3>4. QED
      BY <3>2, <3>3
  <2>3. \A u \in Timers : ref[u] # "null" => tasks'[u].state # "none"
    BY <1>5, <1>6 DEF IInv, Timing
  <2>4. QED
    BY <1>1, <2>2, <2>3 DEF Timing
<1>12. Typed'
  BY <1>1, <1>6, <1>7 DEF IInv, Typed
<1>13. QED
  BY <1>9, <1>10, <1>11, <1>12 DEF IInv

-----------------------------------------------------------------------------
(* Every step.                                                             *)

\* At first there are no handlers and no calls, and the tick task is queued.
LEMMA InitKeeps ==
  ASSUME Init PROVE IInv
<1> USE DEF Init
<1>1. << >> \in Seq(Frames) /\ << >> \in Seq(Cell) /\ DOMAIN << >> = {}
  OBVIOUS
<1>2. tasks \in [Timers \cup {0} -> [state : TaskStates, left : Nat, period : Nat]]
  BY RuntimeAssumption DEF None, TaskStates
<1>3. Emits = {}
  BY DEF Emits
<1>4. Typed
  BY <1>1, <1>2, RuntimeAssumption DEF Typed
<1>5. Nested
  <2>1. Cardinality({}) <= MaxDepth
    BY FS_EmptySet, RuntimeAssumption
  <2>2. QED
    BY <1>3, <2>1 DEF Nested
<1>6. OneEach /\ SpentIsGone
  BY <1>1 DEF OneEach, SpentIsGone
<1>7. CalledHere /\ Walking
  BY <1>3 DEF CalledHere, Walking
<1>8. Timing
  BY DEF Timing
<1>9. QED
  BY <1>4, <1>5, <1>6, <1>7, <1>8 DEF IInv

\* Every step of the thread keeps the invariant.
LEMMA NextKeeps ==
  ASSUME IInv, [Next]_vars PROVE IInv'
<1>1. ASSUME NEW e \in Events, on(e) \/ once(e) \/ prependListener(e) PROVE IInv'
  BY <1>1, AddKeeps DEF on, once, prependListener
<1>2. ASSUME NEW e \in Events, removeAllListeners({e}) PROVE IInv'
  BY <1>2, DetachKeeps DEF removeAllListeners
<1>3. ASSUME NEW e \in Events, emit(e) PROVE IInv'
  BY <1>3, EmitKeeps
<1>4. ASSUME removeAllListeners(Events) PROVE IInv'
  BY <1>4, DetachKeeps DEF removeAllListeners
<1>5. ASSUME NEW t \in Timers, setImmediate(t) PROVE IInv'
  BY <1>5, ScheduleKeeps DEF setImmediate
<1>6. ASSUME NEW t \in Timers, Ref(t) PROVE IInv'
  BY <1>6, RefKeeps
<1>7. ASSUME NEW t \in Timers, unref(t) PROVE IInv'
  BY <1>7, UnrefKeeps
<1>8. ASSUME NEW t \in Timers, NEW d \in Delays, setTimeout(t, d) \/ setInterval(t, d) PROVE IInv'
  <2>1. d \in Nat
    BY RuntimeAssumption
  <2>2. Schedule(t, d, 0) \/ Schedule(t, d, d)
    BY <1>8 DEF setTimeout, setInterval
  <2>3. QED
    BY <2>1, <2>2, ScheduleKeeps
<1>9. ASSUME Emitting PROVE IInv'
  BY <1>9, CallKeeps, EmitEndsKeeps, EmitThrowsKeeps DEF Emitting
<1>10. ASSUME Handler PROVE IInv'
  BY <1>10, ReturnKeeps, ThrowKeeps DEF Handler
<1>11. ASSUME Scheduler PROVE IInv'
  BY <1>11, HeartbeatKeeps, RunTaskKeeps, TaskEndsKeeps DEF Scheduler
<1>12. ASSUME UNCHANGED vars PROVE IInv'
  <2>1. UNCHANGED <<handlers, lists, made, spent, stack, tasks, ref, cleared>>
    BY <1>12 DEF vars, emitter, timers
  <2>2. \A i \in DOMAIN stack : stack[i].kind # "emit" => tasks'[stack[i].id].state \in {"running", "cancelled"}
    BY <2>1, StackTasks
  <2>3. Timing'
    BY <2>1 DEF IInv, Timing
  <2>4. QED
    BY <2>1, <2>2, <2>3, TimersOnly DEF IInv, Typed
<1>13. QED
  BY <1>1, <1>2, <1>3, <1>4, <1>5, <1>6, <1>7, <1>8, <1>9, <1>10, <1>11, <1>12 DEF Next

\* What the proofs below use holds in every state of the runtime.
THEOREM Inductive == Spec => []IInv
<1>1. Init => IInv
  BY InitKeeps
<1>2. IInv /\ [Next]_vars => IInv'
  BY NextKeeps
<1>3. QED
  BY <1>1, <1>2, PTL DEF Spec

\* Lists hold frames that were made, no frame twice; emissions nest to the bound, and only
\* the bottom of the stack is a task; timers are in one of their states.
THEOREM RuntimeTypeOK == Spec => []TypeOK
<1>1. ASSUME IInv PROVE TypeOK
  <2> USE <1>1 DEF IInv
  <2>1. \A l \in Lists : ToSet(lists[l]) \subseteq Frames /\ IsInjective(lists[l])
    <3> SUFFICES ASSUME NEW l \in Lists PROVE ToSet(lists[l]) \subseteq Frames /\ IsInjective(lists[l])
      OBVIOUS
    <3>1. lists[l] \in Seq(Frames)
      BY DEF Typed
    <3>2. ToSet(lists[l]) \subseteq Frames
      BY <3>1 DEF ToSet
    <3>3. \A j, m \in DOMAIN lists[l] : lists[l][j] = lists[l][m] => j = m
      BY DEF OneEach
    <3>4. IsInjective(lists[l])
      BY <3>3 DEF IsInjective
    <3>5. QED
      BY <3>2, <3>4
  <2>2. Depth <= MaxDepth
    BY DEF Depth, Nested, Emits
  <2>3. /\ \A i \in DOMAIN stack : stack[i].kind = "emit" => stack[i].list \in Lists
        /\ \A i \in DOMAIN stack : stack[i].kind = "task" => i = 1
    BY DEF Nested, Emits
  <2>4. DOMAIN tasks = Timers \cup {0}
    BY DEF Typed
  <2>5. \A t \in DOMAIN tasks : tasks[t].state \in TaskStates /\ tasks[t].left \in Nat
    BY <2>4, TaskFacts
  <2>6. /\ \A t \in DOMAIN tasks : tasks[t].state \in {"none", "queued", "running", "done", "cancelled"}
        /\ \A t \in DOMAIN tasks : tasks[t].left \in Int /\ tasks[t].left >= 0
    BY <2>5 DEF TaskStates
  <2>7. QED
    BY <2>1, <2>2, <2>3, <2>6 DEF TypeOK, Typed
<1>2. QED
  BY <1>1, Inductive, PTL

\* An emission has called a prefix of the handlers there were when it began, whatever its
\* handlers did, and a once handler that returned is on no list.
THEOREM CallsAPrefixHolds == Spec => []CallsAPrefix
<1>1. ASSUME IInv PROVE CallsAPrefix
  <2> USE <1>1 DEF IInv
  <2>1. ASSUME NEW i \in DOMAIN stack, stack[i].kind = "emit"
        PROVE  IsPrefix(stack[i].called, stack[i].start)
    <3>1. i \in Emits /\ stack[i] \in Cell
      BY <2>1 DEF Emits, Typed
    <3>2. PICK c, s : c = stack[i].called /\ s = stack[i].start
      OBVIOUS
    <3>3. c \in Seq(Frames) /\ s \in Seq(Frames)
      BY <3>1, <3>2 DEF Cell
    <3>4. Len(c) <= Len(s) /\ \A n \in DOMAIN c : c[n] = s[n]
      BY <3>1, <3>2 DEF Walking
    <3>5. IsPrefix(c, s)
      BY <3>3, <3>4 DEF IsPrefix
    <3>6. QED
      BY <3>2, <3>5
  <2>2. QED
    BY <2>1 DEF CallsAPrefix, SpentIsGone
<1>2. QED
  BY <1>1, Inductive, PTL

\* A timer that was cleared after a ref() is cancelled or done for good.
THEOREM ClearedIsSilentHolds == Spec => []ClearedIsSilent
<1>1. IInv => ClearedIsSilent
  BY DEF IInv, Timing, ClearedIsSilent
<1>2. QED
  BY <1>1, Inductive, PTL

------------------------------------------------------------------------------
(* The process and its watcher *)

\* How many lines of a stream the watcher took from its pipe, and how many of those
\* it has handed over; both only mean something until it closes its readers.
Taken(s) == written[s] - Len(pipe[s])
InHand(s) == watcher = "emit" /\ line.from = s
Handed(s) == Taken(s) - (IF InHand(s) THEN 1 ELSE 0)

\* The watcher met the end of a stream.
AtEnd(s) == s \notin open /\ pipe[s] = << >>

\* Which thread is where: spawn() starts the watcher, spawnSync() has its handlers in
\* place by then, is never killed, and has a result only after the watcher ended.
Calling ==
  /\ caller = "spawn" <=> watcher = "new"
  /\ caller \in {"spawn", "join", "exitValue", "returned", "threw"} => ~killed
  /\ caller \in {"join", "exitValue", "returned", "threw"} => mode = "sync" /\ listening = Streams
  /\ caller \in {"free", "waitFor"} => mode = "async"
  /\ caller \in {"exitValue", "returned", "threw"} => watcher = "ended"
  /\ caller = "returned" => reaped
  /\ reaped => ~alive
  /\ ~alive => open = {}

\* The child writes what it planned, and closes a pipe only then, unless it is killed.
Writing ==
  \A s \in Streams :
    /\ written[s] <= plan[s] /\ plan[s] <= MaxOut + MaxErr
    /\ (s \in piped /\ s \notin open /\ ~killed) => written[s] = plan[s]

\* Until the watcher closes its readers, the lines of a stream are in one row: those the
\* handlers have, the one in the watcher's hand, those in the pipe, up to the last written.
InARow ==
  watcher # "ended" => \A s \in Streams :
    /\ Len(pipe[s]) <= written[s]
    /\ \A i \in DOMAIN pipe[s] : pipe[s][i] = Taken(s) + i
    /\ InHand(s) => line.n = Taken(s) /\ Taken(s) >= 1
    /\ mode = "sync" => Len(got[s]) = Handed(s)
    /\ \A i \in DOMAIN got[s] : got[s][i] = Handed(s) - Len(got[s]) + i

\* Only a handler that is there is given lines, and a stretch of them at that.
Stretch ==
  \A s \in Streams :
    /\ got[s] # << >> => s \in listening
    /\ \A i \in DOMAIN got[s] : got[s][i] = got[s][1] + i - 1
    /\ (mode = "sync" /\ got[s] # << >>) => got[s][1] = 1

\* stderr is read at the end of stdout only, and the loop is left at both ends or because
\* the process is dead.
Ends ==
  /\ (watcher = "readErr" \/ InHand("err") \/ got["err"] # << >>) => AtEnd("out")
  /\ (mode = "sync" /\ got["err"] # << >>) => Len(got["out"]) = written["out"]
  /\ (watcher \in {"close", "ended"} /\ ~sawDead) =>
       \A s \in Streams : AtEnd(s) /\ (mode = "sync" => Len(got[s]) = written[s])

ProcessInv == ProcessTypeOK /\ Calling /\ Writing /\ InARow /\ Stretch /\ Ends

-----------------------------------------------------------------------------
(* The rows of lines.                                                      *)

\* A line written at the end of a row.
LEMMA Written ==
  ASSUME NEW S, NEW q \in Seq(S), NEW n \in S
  PROVE  /\ Append(q, n) \in Seq(S) /\ Len(Append(q, n)) = Len(q) + 1
         /\ Len(q) \in Nat /\ DOMAIN q = 1..Len(q) /\ DOMAIN Append(q, n) = 1..(Len(q) + 1)
         /\ \A i \in 1..Len(q) : Append(q, n)[i] = q[i]
         /\ Append(q, n)[Len(q) + 1] = n
OBVIOUS

\* A line read at its start.
LEMMA Read ==
  ASSUME NEW S, NEW q \in Seq(S), q # << >>
  PROVE  /\ Tail(q) \in Seq(S) /\ Len(q) \in Nat /\ Len(q) >= 1 /\ Len(Tail(q)) = Len(q) - 1
         /\ Head(q) = q[1] /\ q[1] \in S
         /\ DOMAIN q = 1..Len(q) /\ DOMAIN Tail(q) = 1..(Len(q) - 1)
         /\ \A i \in 1..(Len(q) - 1) : Tail(q)[i] = q[i + 1]
OBVIOUS

-----------------------------------------------------------------------------
(* The child.                                                              *)

\* A line written is the last of its row.
LEMMA ChildWriteKeeps ==
  ASSUME ProcessInv, NEW s \in Streams, ChildWrite(s) PROVE ProcessInv'
<1> USE PipeAssumption DEF ProcessInv
<1>0. /\ alive /\ written[s] < plan[s] /\ s \in open
      /\ written' = [written EXCEPT ![s] = @ + 1]
      /\ pipe' = IF watcher = "ended" THEN pipe ELSE [pipe EXCEPT ![s] = Append(@, written'[s])]
      /\ UNCHANGED <<mode, piped, plan, alive, reaped, open, watcher, line, caller,
                     listening, got, sawDead, killed>>
  BY DEF ChildWrite
<1>1. /\ written[s] \in Nat /\ plan[s] \in Nat /\ written'[s] = written[s] + 1
      /\ written'[s] \in Lines
      /\ \A u \in Streams : u # s => written'[u] = written[u]
  BY <1>0 DEF ProcessTypeOK, Writing, Lines
<1>2. pipe[s] \in Seq(Lines) /\ \A u \in Streams : u # s => pipe'[u] = pipe[u]
  BY <1>0 DEF ProcessTypeOK
<1>3. watcher # "ended" => /\ pipe'[s] \in Seq(Lines) /\ Len(pipe'[s]) = Len(pipe[s]) + 1
                           /\ Len(pipe[s]) \in Nat /\ DOMAIN pipe[s] = 1..Len(pipe[s])
                           /\ DOMAIN pipe'[s] = 1..(Len(pipe[s]) + 1)
                           /\ \A i \in 1..Len(pipe[s]) : pipe'[s][i] = pipe[s][i]
                           /\ pipe'[s][Len(pipe[s]) + 1] = written[s] + 1
  <2>1. watcher # "ended" => pipe'[s] = Append(pipe[s], written[s] + 1)
    BY <1>0, <1>1 DEF ProcessTypeOK
  <2>2. pipe[s] \in Seq(Lines) /\ written[s] + 1 \in Lines
    BY <1>1, <1>2
  <2> DEFINE longer == Append(pipe[s], written[s] + 1)
  <2>3. /\ longer \in Seq(Lines) /\ Len(longer) = Len(pipe[s]) + 1
        /\ Len(pipe[s]) \in Nat /\ DOMAIN pipe[s] = 1..Len(pipe[s])
        /\ DOMAIN longer = 1..(Len(pipe[s]) + 1)
        /\ \A i \in 1..Len(pipe[s]) : longer[i] = pipe[s][i]
        /\ longer[Len(pipe[s]) + 1] = written[s] + 1
    BY <2>2, Written
  <2> HIDE DEF longer
  <2>4. watcher # "ended" => pipe'[s] = longer
    BY <2>1 DEF longer
  <2>5. QED
    BY <2>3, <2>4
<1>4. ProcessTypeOK'
  BY <1>0, <1>1, <1>2, <1>3 DEF ProcessTypeOK
<1>5. Calling'
  BY <1>0 DEF Calling
<1>6. Writing'
  BY <1>0, <1>1 DEF Writing, ProcessTypeOK
<1>7. InARow'
  <2> SUFFICES ASSUME watcher # "ended", NEW u \in Streams
               PROVE  /\ Len(pipe'[u]) <= written'[u]
                      /\ \A i \in DOMAIN pipe'[u] : pipe'[u][i] = Taken(u)' + i
                      /\ InHand(u)' => line'.n = Taken(u)' /\ Taken(u)' >= 1
                      /\ mode' = "sync" => Len(got'[u]) = Handed(u)'
                      /\ \A i \in DOMAIN got'[u] : got'[u][i] = Handed(u)' - Len(got'[u]) + i
    BY <1>0 DEF InARow
  <2>1. Taken(u)' = Taken(u) /\ (InHand(u)' <=> InHand(u)) /\ Handed(u)' = Handed(u)
    BY <1>0, <1>1, <1>2, <1>3 DEF Taken, InHand, Handed, ProcessTypeOK
  <2>2. CASE u = s
    BY <1>0, <1>1, <1>3, <2>1, <2>2 DEF InARow, Taken
  <2>3. CASE u # s
    BY <1>0, <1>1, <1>2, <2>1, <2>3 DEF InARow
  <2>4. QED
    BY <2>2, <2>3
<1>8. Stretch'
  BY <1>0 DEF Stretch
<1>9. Ends'
  BY <1>0, <1>1, <1>2 DEF Ends, AtEnd, InHand
<1>10. QED
  BY <1>4, <1>5, <1>6, <1>7, <1>8, <1>9

\* A pipe is closed when all planned lines are written,
LEMMA ChildCloseKeeps ==
  ASSUME ProcessInv, NEW s \in Streams, ChildClose(s) PROVE ProcessInv'
<1> USE DEF ProcessInv
<1>0. /\ alive /\ s \in open /\ written[s] = plan[s] /\ open' = open \ {s}
      /\ UNCHANGED <<mode, piped, plan, alive, reaped, pipe, written, watcher, line, caller,
                     listening, got, sawDead, killed>>
  BY DEF ChildClose, Through
<1>1. ProcessTypeOK' /\ Calling' /\ Writing'
  BY <1>0 DEF ProcessTypeOK, Calling, Writing
<1>2. InARow'
  BY <1>0 DEF InARow, Taken, InHand, Handed
<1>3. Stretch' /\ Ends'
  BY <1>0 DEF Stretch, Ends, AtEnd, InHand
<1>4. QED
  BY <1>1, <1>2, <1>3

\* and so is what the child leaves open when it exits.
LEMMA ChildExitKeeps ==
  ASSUME ProcessInv, ChildExit PROVE ProcessInv'
<1> USE DEF ProcessInv
<1>0. /\ alive /\ (\A s \in Streams : s \notin open \/ written[s] = plan[s]) /\ alive' = FALSE /\ open' = {}
      /\ UNCHANGED <<mode, piped, plan, reaped, pipe, written, watcher, line, caller,
                     listening, got, sawDead, killed>>
  BY DEF ChildExit, Through
<1>1. ProcessTypeOK' /\ Calling' /\ Writing'
  BY <1>0 DEF ProcessTypeOK, Calling, Writing
<1>2. InARow'
  BY <1>0 DEF InARow, Taken, InHand, Handed
<1>3. Stretch' /\ Ends'
  BY <1>0 DEF Stretch, Ends, AtEnd, InHand
<1>4. QED
  BY <1>1, <1>2, <1>3

-----------------------------------------------------------------------------
(* The threads that touch no line.                                         *)

\* The JVM learns that the child exited.
LEMMA ReapKeeps ==
  ASSUME ProcessInv, Reap PROVE ProcessInv'
<1> USE DEF ProcessInv
<1>0. /\ ~alive /\ reaped' = TRUE
      /\ UNCHANGED <<mode, piped, plan, alive, open, pipe, written, watcher, line, caller,
                     listening, got, sawDead, killed>>
  BY DEF Reap, osVars
<1>1. ProcessTypeOK'
  BY <1>0 DEF ProcessTypeOK
<1>2. Calling'
  BY <1>0 DEF Calling, ProcessTypeOK
<1>3. Writing' /\ Stretch'
  BY <1>0 DEF Writing, Stretch, Calling
<1>4. InARow'
  BY <1>0 DEF InARow, Taken, InHand, Handed, Calling
<1>5. Ends'
  BY <1>0 DEF Ends, AtEnd, InHand, Calling
<1>6. QED
  BY <1>1, <1>2, <1>3, <1>4, <1>5

\* isAlive() is asked: only a dead process ends the loop before the two ends.
LEMMA WatcherCheckKeeps ==
  ASSUME ProcessInv, WatcherCheck PROVE ProcessInv'
<1> USE DEF ProcessInv
<1>0. /\ watcher = "check"
      /\ watcher' = IF reaped THEN "close" ELSE "readOut"
      /\ sawDead' = (sawDead \/ reaped)
      /\ UNCHANGED <<mode, piped, plan, alive, reaped, open, pipe, written, line, caller,
                     listening, got, killed>>
  BY DEF WatcherCheck, osVars
<1>1. ProcessTypeOK'
  BY <1>0 DEF ProcessTypeOK
<1>2. Calling'
  BY <1>0 DEF Calling, ProcessTypeOK
<1>3. Writing' /\ Stretch'
  BY <1>0 DEF Writing, Stretch, Calling
<1>4. InARow'
  BY <1>0 DEF InARow, Taken, InHand, Handed, Calling
<1>5. Ends'
  BY <1>0 DEF Ends, AtEnd, InHand, Calling
<1>6. QED
  BY <1>1, <1>2, <1>3, <1>4, <1>5

\* The readers are closed: what is handed over is final.
LEMMA WatcherCloseKeeps ==
  ASSUME ProcessInv, WatcherClose PROVE ProcessInv'
<1> USE DEF ProcessInv
<1>0. /\ watcher = "close" /\ watcher' = "ended"
      /\ UNCHANGED <<mode, piped, plan, alive, reaped, open, pipe, written, line, caller,
                     listening, got, sawDead, killed>>
  BY DEF WatcherClose, osVars
<1>1. ProcessTypeOK'
  BY <1>0 DEF ProcessTypeOK
<1>2. Calling'
  BY <1>0 DEF Calling, ProcessTypeOK
<1>3. Writing' /\ Stretch'
  BY <1>0 DEF Writing, Stretch, Calling
<1>4. InARow'
  BY <1>0 DEF InARow, Taken, InHand, Handed, Calling
<1>5. Ends'
  BY <1>0 DEF Ends, AtEnd, InHand, Calling
<1>6. QED
  BY <1>1, <1>2, <1>3, <1>4, <1>5

\* spawnSync() has its handlers in place when the watcher starts.
LEMMA SpawnKeeps ==
  ASSUME ProcessInv, Spawn PROVE ProcessInv'
<1> USE DEF ProcessInv
<1>0. /\ caller = "spawn" /\ watcher' = "check"
      /\ IF mode = "sync"
         THEN caller' = "join" /\ listening' = Streams
         ELSE caller' = "free" /\ listening' = listening
      /\ UNCHANGED <<mode, piped, plan, alive, reaped, open, pipe, written, line, got, sawDead, killed>>
  BY DEF Spawn, osVars
<1>1. ProcessTypeOK'
  BY <1>0 DEF ProcessTypeOK
<1>2. Calling'
  BY <1>0 DEF Calling, ProcessTypeOK
<1>3. Writing' /\ Stretch'
  BY <1>0 DEF Writing, Stretch, Calling
<1>4. InARow'
  BY <1>0 DEF InARow, Taken, InHand, Handed, Calling
<1>5. Ends'
  BY <1>0 DEF Ends, AtEnd, InHand, Calling
<1>6. QED
  BY <1>1, <1>2, <1>3, <1>4, <1>5

\* A handler that comes later gets what is read from then on.
LEMMA ListenKeeps ==
  ASSUME ProcessInv, NEW s \in Streams, Listen(s) PROVE ProcessInv'
<1> USE DEF ProcessInv
<1>0. /\ caller = "free" /\ listening' = listening \cup {s}
      /\ UNCHANGED <<mode, piped, plan, alive, reaped, open, pipe, written, watcher, line, caller,
                     got, sawDead, killed>>
  BY DEF Listen, osVars
<1>1. ProcessTypeOK'
  BY <1>0 DEF ProcessTypeOK
<1>2. Calling'
  BY <1>0 DEF Calling, ProcessTypeOK
<1>3. Writing' /\ Stretch'
  BY <1>0 DEF Writing, Stretch, Calling
<1>4. InARow'
  BY <1>0 DEF InARow, Taken, InHand, Handed, Calling
<1>5. Ends'
  BY <1>0 DEF Ends, AtEnd, InHand, Calling
<1>6. QED
  BY <1>1, <1>2, <1>3, <1>4, <1>5

\* spawnSync() goes on when the watcher ended,
LEMMA JoinKeeps ==
  ASSUME ProcessInv, Join PROVE ProcessInv'
<1> USE DEF ProcessInv
<1>0. /\ caller = "join" /\ watcher = "ended" /\ caller' = "exitValue"
      /\ UNCHANGED <<mode, piped, plan, alive, reaped, open, pipe, written, watcher, line,
                     listening, got, sawDead, killed>>
  BY DEF Join, osVars
<1>1. ProcessTypeOK'
  BY <1>0 DEF ProcessTypeOK
<1>2. Calling'
  BY <1>0 DEF Calling, ProcessTypeOK
<1>3. Writing' /\ Stretch'
  BY <1>0 DEF Writing, Stretch, Calling
<1>4. InARow'
  BY <1>0 DEF InARow, Taken, InHand, Handed, Calling
<1>5. Ends'
  BY <1>0 DEF Ends, AtEnd, InHand, Calling
<1>6. QED
  BY <1>1, <1>2, <1>3, <1>4, <1>5

\* and returns only when the exit is known.
LEMMA ExitValueKeeps ==
  ASSUME ProcessInv, ExitValue PROVE ProcessInv'
<1> USE DEF ProcessInv
<1>0. /\ caller = "exitValue" /\ caller' = IF reaped THEN "returned" ELSE "threw"
      /\ UNCHANGED <<mode, piped, plan, alive, reaped, open, pipe, written, watcher, line,
                     listening, got, sawDead, killed>>
  BY DEF ExitValue, osVars
<1>1. ProcessTypeOK'
  BY <1>0 DEF ProcessTypeOK
<1>2. Calling'
  BY <1>0 DEF Calling, ProcessTypeOK
<1>3. Writing' /\ Stretch'
  BY <1>0 DEF Writing, Stretch, Calling
<1>4. InARow'
  BY <1>0 DEF InARow, Taken, InHand, Handed, Calling
<1>5. Ends'
  BY <1>0 DEF Ends, AtEnd, InHand, Calling
<1>6. QED
  BY <1>1, <1>2, <1>3, <1>4, <1>5

\* kill() is called by the program of spawn() only.
LEMMA KillKeeps ==
  ASSUME ProcessInv, Kill PROVE ProcessInv'
<1> USE DEF ProcessInv
<1>0. /\ caller = "free" /\ killed' = TRUE /\ alive' = FALSE /\ open' = {} /\ caller' = "waitFor"
      /\ UNCHANGED <<mode, piped, plan, reaped, pipe, written, watcher, line, listening, got,
                     sawDead>>
  BY DEF Kill
<1>1. ProcessTypeOK'
  BY <1>0 DEF ProcessTypeOK
<1>2. Calling'
  BY <1>0 DEF Calling, ProcessTypeOK
<1>3. Writing' /\ Stretch'
  BY <1>0 DEF Writing, Stretch, Calling
<1>4. InARow'
  BY <1>0 DEF InARow, Taken, InHand, Handed, Calling
<1>5. Ends'
  BY <1>0 DEF Ends, AtEnd, InHand, Calling
<1>6. QED
  BY <1>1, <1>2, <1>3, <1>4, <1>5

\* waitFor() comes back.
LEMMA WaitedKeeps ==
  ASSUME ProcessInv, Waited PROVE ProcessInv'
<1> USE DEF ProcessInv
<1>0. /\ caller = "waitFor" /\ caller' = "free"
      /\ UNCHANGED <<mode, piped, plan, alive, reaped, open, pipe, written, watcher, line,
                     listening, got, sawDead, killed>>
  BY DEF Waited, osVars
<1>1. ProcessTypeOK'
  BY <1>0 DEF ProcessTypeOK
<1>2. Calling'
  BY <1>0 DEF Calling, ProcessTypeOK
<1>3. Writing' /\ Stretch'
  BY <1>0 DEF Writing, Stretch, Calling
<1>4. InARow'
  BY <1>0 DEF InARow, Taken, InHand, Handed, Calling
<1>5. Ends'
  BY <1>0 DEF Ends, AtEnd, InHand, Calling
<1>6. QED
  BY <1>1, <1>2, <1>3, <1>4, <1>5

-----------------------------------------------------------------------------
(* The watcher, line by line.                                              *)

\* It takes a line of s and has it in hand.
LEMMA TakesKeeps ==
  ASSUME ProcessInv, NEW s \in Streams, watcher \in {"readOut", "readErr"}, pipe[s] # << >>,
         s = "err" => AtEnd("out"),
         line' = [from |-> s, n |-> Head(pipe[s])], pipe' = [pipe EXCEPT ![s] = Tail(@)],
         watcher' = "emit",
         UNCHANGED <<mode, piped, plan, alive, reaped, open, written, caller, listening, got,
                     sawDead, killed>>
  PROVE  ProcessInv'
<1> USE DEF ProcessInv
<1> DEFINE rest == Tail(pipe[s])
<1>0. pipe \in [Streams -> Seq(Lines)] /\ written \in [Streams -> Nat]
  BY DEF ProcessTypeOK
<1>1. pipe'[s] = rest /\ (\A u \in Streams : u # s => pipe'[u] = pipe[u])
      /\ line'.from = s /\ line'.n = Head(pipe[s]) /\ DOMAIN pipe' = Streams
  BY <1>0
<1>2. pipe[s] \in Seq(Lines)
  BY <1>0
<1>3. /\ rest \in Seq(Lines) /\ Len(pipe[s]) \in Nat /\ Len(pipe[s]) >= 1
      /\ Len(rest) = Len(pipe[s]) - 1
      /\ Head(pipe[s]) = pipe[s][1] /\ pipe[s][1] \in Lines
      /\ DOMAIN pipe[s] = 1..Len(pipe[s]) /\ DOMAIN rest = 1..(Len(pipe[s]) - 1)
      /\ \A i \in 1..(Len(pipe[s]) - 1) : rest[i] = pipe[s][i + 1]
  BY <1>2, Read
<1> HIDE DEF rest
<1>4. ProcessTypeOK'
  <2>1. pipe' \in [Streams -> Seq(Lines)]
    BY <1>0, <1>1, <1>3 DEF rest
  <2>2. line' \in [from : Streams, n : {0} \cup Lines]
    BY <1>3
  <2>3. QED
    BY <2>1, <2>2 DEF ProcessTypeOK, Lines
<1>5. Calling' /\ Writing' /\ Stretch'
  BY DEF Calling, Writing, Stretch
<1>6. InARow'
  <2>1. /\ Taken(s)' = Taken(s) + 1 /\ Taken(s) \in Nat /\ Handed(s)' = Handed(s)
        /\ InHand(s)' /\ Handed(s) = Taken(s)
    BY <1>0, <1>1, <1>3 DEF Taken, Handed, InHand, InARow
  <2>2. \A u \in Streams : u # s => /\ Taken(u)' = Taken(u) /\ ~InHand(u)' /\ ~InHand(u)
                                    /\ Handed(u)' = Handed(u)
    BY <1>0, <1>1 DEF Taken, Handed, InHand
  <2> SUFFICES ASSUME NEW u \in Streams
               PROVE  /\ Len(pipe'[u]) <= written'[u]
                      /\ \A i \in DOMAIN pipe'[u] : pipe'[u][i] = Taken(u)' + i
                      /\ InHand(u)' => line'.n = Taken(u)' /\ Taken(u)' >= 1
                      /\ mode' = "sync" => Len(got'[u]) = Handed(u)'
                      /\ \A i \in DOMAIN got'[u] : got'[u][i] = Handed(u)' - Len(got'[u]) + i
    BY DEF InARow
  <2>3. CASE u = s
    <3>1. Len(rest) <= written[s]
      BY <1>0, <1>3 DEF InARow
    <3>2. \A i \in DOMAIN rest : rest[i] = (Taken(s) + 1) + i
      <4>1. \A i \in DOMAIN pipe[s] : pipe[s][i] = Taken(s) + i
        BY DEF InARow
      <4>2. \A i \in DOMAIN rest : i + 1 \in DOMAIN pipe[s] /\ i \in Nat
        BY <1>3
      <4>3. QED
        BY <1>3, <2>1, <4>1, <4>2
    <3>3. line'.n = Taken(s) + 1
      BY <1>1, <1>3 DEF InARow
    <3>4. /\ mode = "sync" => Len(got[s]) = Handed(s)
          /\ \A i \in DOMAIN got[s] : got[s][i] = Handed(s) - Len(got[s]) + i
      BY DEF InARow
    <3>5. QED
      BY <1>1, <2>1, <2>3, <3>1, <3>2, <3>3, <3>4
  <2>4. CASE u # s
    BY <1>1, <2>2, <2>4 DEF InARow
  <2>5. QED
    BY <2>3, <2>4
<1>7. Ends'
  <2>1. s = "out" => got["err"] = << >>
    BY DEF Ends, AtEnd
  <2>2. s # "out" => s = "err"
    BY DEF Streams
  <2>3. QED
    BY <1>1, <2>1, <2>2 DEF Ends, AtEnd, InHand, Streams
<1>8. QED
  BY <1>4, <1>5, <1>6, <1>7

\* It reads stdout, until that is at its end,
LEMMA WatcherReadOutKeeps ==
  ASSUME ProcessInv, WatcherReadOut PROVE ProcessInv'
<1> USE DEF ProcessInv
<1>1. CASE pipe["out"] # << >>
  BY <1>1, TakesKeeps DEF WatcherReadOut, WatcherRead, Streams
<1>2. CASE pipe["out"] = << >>
  <2>0. /\ watcher = "readOut" /\ watcher' = "readErr" /\ AtEnd("out")
        /\ UNCHANGED <<mode, piped, plan, alive, reaped, open, pipe, written, line, caller, listening,
                       got, sawDead, killed>>
    BY <1>2 DEF WatcherReadOut, WatcherRead, AtEnd
  <2>1. ProcessTypeOK' /\ Calling' /\ Writing' /\ Stretch'
    BY <2>0 DEF ProcessTypeOK, Lines, Calling, Writing, Stretch
  <2>2. InARow'
    BY <2>0 DEF InARow, Taken, InHand, Handed
  <2>3. Ends'
    BY <2>0 DEF Ends, AtEnd, InHand
  <2>4. QED
    BY <2>1, <2>2, <2>3
<1>3. QED
  BY <1>1, <1>2

\* and then stderr.
LEMMA WatcherReadErrKeeps ==
  ASSUME ProcessInv, WatcherReadErr PROVE ProcessInv'
<1> USE DEF ProcessInv
<1>1. CASE pipe["err"] # << >>
  BY <1>1, TakesKeeps DEF WatcherReadErr, WatcherRead, Streams, Ends
<1>2. CASE pipe["err"] = << >>
  <2>0. /\ watcher = "readErr" /\ watcher' = "close" /\ AtEnd("err") /\ AtEnd("out")
        /\ UNCHANGED <<mode, piped, plan, alive, reaped, open, pipe, written, line, caller, listening,
                       got, sawDead, killed>>
    BY <1>2 DEF WatcherReadErr, WatcherRead, AtEnd, Ends
  <2>1. ProcessTypeOK' /\ Calling' /\ Writing' /\ Stretch'
    BY <2>0 DEF ProcessTypeOK, Lines, Calling, Writing, Stretch
  <2>2. InARow'
    BY <2>0 DEF InARow, Taken, InHand, Handed
  <2>3. \A s \in Streams : mode = "sync" => Len(got[s]) = written[s]
    BY <2>0 DEF InARow, Taken, InHand, Handed, AtEnd, Streams, ProcessTypeOK
  <2>4. Ends'
    BY <2>0, <2>3 DEF Ends, AtEnd, InHand, Streams
  <2>5. QED
    BY <2>1, <2>2, <2>4
<1>3. QED
  BY <1>1, <1>2

\* It hands the line over, when there is a handler.
LEMMA WatcherEmitKeeps ==
  ASSUME ProcessInv, WatcherEmit PROVE ProcessInv'
<1> USE PipeAssumption DEF ProcessInv
<1> PICK s \in Streams : s = line.from
  BY DEF ProcessTypeOK
<1>0. /\ watcher = "emit" /\ watcher' = "check" /\ s \in Streams /\ InHand(s)
      /\ got' = IF s \in listening THEN [got EXCEPT ![s] = Append(@, line.n)] ELSE got
      /\ line' = NoLine
      /\ UNCHANGED <<mode, piped, plan, alive, reaped, open, pipe, written, caller, listening,
                     sawDead, killed>>
  BY DEF WatcherEmit, osVars, InHand, ProcessTypeOK
<1>1. line.n \in Lines /\ line.n = Taken(s) /\ Handed(s) = Taken(s) - 1 /\ Taken(s) \in Nat
  BY <1>0 DEF InARow, ProcessTypeOK, Taken, Handed, Lines, Writing
<1>2. /\ Handed(s)' = Handed(s) + 1 /\ Taken(s)' = Taken(s)
      /\ \A u \in Streams : u # s => Handed(u)' = Handed(u) /\ Taken(u)' = Taken(u)
      /\ \A u \in Streams : ~InHand(u)'
  BY <1>0, <1>1 DEF Handed, Taken, InHand, ProcessTypeOK
<1> DEFINE longer == Append(got[s], line.n)
<1>3. got \in [Streams -> Seq(Lines)] /\ got[s] \in Seq(Lines)
  BY <1>0 DEF ProcessTypeOK
<1>4. /\ longer \in Seq(Lines) /\ Len(longer) = Len(got[s]) + 1
      /\ Len(got[s]) \in Nat /\ DOMAIN got[s] = 1..Len(got[s]) /\ DOMAIN longer = 1..(Len(got[s]) + 1)
      /\ \A i \in 1..Len(got[s]) : longer[i] = got[s][i]
      /\ longer[Len(got[s]) + 1] = line.n
  BY <1>1, <1>3, Written
<1>5. s \in listening => got'[s] = longer /\ \A u \in Streams : u # s => got'[u] = got[u]
  BY <1>0, <1>3
<1>6. s \notin listening => got' = got
  BY <1>0
<1> HIDE DEF longer
<1>7. ProcessTypeOK'
  <2>1. got' \in [Streams -> Seq(Lines)]
    BY <1>0, <1>3, <1>4, <1>6 DEF longer
  <2>2. NoLine \in [from : Streams, n : {0} \cup Lines]
    BY DEF NoLine, Streams
  <2>3. QED
    BY <1>0, <2>1, <2>2 DEF ProcessTypeOK, Lines
<1>8. Calling' /\ Writing'
  BY <1>0 DEF Calling, Writing
<1>9. mode = "sync" => s \in listening
  BY <1>0 DEF Calling, ProcessTypeOK
<1>10. \A i \in DOMAIN longer : longer[i] = Handed(s) + 1 - Len(longer) + i
  <2>1. \A i \in DOMAIN got[s] : got[s][i] = Handed(s) - Len(got[s]) + i
    BY <1>0 DEF InARow
  <2>2. Handed(s) \in Int
    BY <1>1
  <2>3. ASSUME NEW i \in 1..Len(got[s]) PROVE longer[i] = Handed(s) + 1 - Len(longer) + i
    <3>1. longer[i] = got[s][i] /\ got[s][i] = Handed(s) - Len(got[s]) + i
      BY <1>4, <2>1
    <3>2. QED
      BY <1>4, <2>2, <3>1
  <2>4. longer[Len(got[s]) + 1] = Handed(s) + 1 - Len(longer) + (Len(got[s]) + 1)
    BY <1>1, <1>4, <2>2
  <2>5. QED
    BY <1>4, <2>3, <2>4
<1>11. mode = "sync" => Len(longer) = Handed(s) + 1
  BY <1>0, <1>4 DEF InARow
<1>12. InARow'
  <2> SUFFICES ASSUME NEW u \in Streams
               PROVE  /\ Len(pipe'[u]) <= written'[u]
                      /\ \A i \in DOMAIN pipe'[u] : pipe'[u][i] = Taken(u)' + i
                      /\ mode' = "sync" => Len(got'[u]) = Handed(u)'
                      /\ \A i \in DOMAIN got'[u] : got'[u][i] = Handed(u)' - Len(got'[u]) + i
    BY <1>2 DEF InARow
  <2>1. Taken(u)' = Taken(u) /\ pipe' = pipe /\ written' = written
    BY <1>0, <1>2
  <2>2. CASE u = s /\ s \in listening
    <3>1. Len(pipe[s]) <= written[s] /\ \A i \in DOMAIN pipe[s] : pipe[s][i] = Taken(s) + i
      BY <1>0 DEF InARow
    <3>2. got'[u] = longer /\ Handed(u)' = Handed(s) + 1
      BY <1>2, <1>5, <2>2
    <3>3. ASSUME NEW i \in DOMAIN got'[u] PROVE got'[u][i] = Handed(u)' - Len(got'[u]) + i
      <4>1. got'[u][i] = Handed(s) + 1 - Len(got'[u]) + i
        BY <1>10, <3>2
      <4>2. QED
        BY <1>1, <1>4, <3>2, <4>1
    <3>4. mode' = "sync" => Len(got'[u]) = Handed(u)'
      BY <1>0, <1>11, <3>2
    <3>5. Len(pipe'[u]) <= written'[u] /\ \A i \in DOMAIN pipe'[u] : pipe'[u][i] = Taken(u)' + i
      BY <2>1, <2>2, <3>1
    <3>6. QED
      BY <3>3, <3>4, <3>5
  <2>3. CASE u = s /\ s \notin listening
    <3>1. got'[u] = << >>
      BY <1>6, <2>3 DEF Stretch
    <3>2. QED
      BY <1>0, <1>9, <2>1, <2>3, <3>1 DEF InARow
  <2>4. CASE u # s
    BY <1>0, <1>2, <1>5, <1>6, <2>1, <2>4 DEF InARow
  <2>5. QED
    BY <2>2, <2>3, <2>4
<1>13. Stretch'
  <2> SUFFICES ASSUME NEW u \in Streams
               PROVE  /\ got'[u] # << >> => u \in listening'
                      /\ \A i \in DOMAIN got'[u] : got'[u][i] = got'[u][1] + i - 1
                      /\ (mode' = "sync" /\ got'[u] # << >>) => got'[u][1] = 1
    BY DEF Stretch
  <2>1. CASE u = s /\ s \in listening
    <3>3. 1 \in DOMAIN longer
      BY <1>4
    <3>4. Handed(s) \in Int /\ Len(longer) \in Nat
      BY <1>1, <1>4
    <3>5. \A i \in DOMAIN longer : longer[i] = longer[1] + i - 1
      BY <1>4, <1>10, <3>3, <3>4
    <3>6. mode = "sync" => longer[1] = 1
      BY <1>10, <1>11, <3>3, <3>4
    <3>7. QED
      BY <1>0, <1>5, <2>1, <3>5, <3>6
  <2>2. CASE ~(u = s /\ s \in listening)
    BY <1>0, <1>5, <1>6, <2>2 DEF Stretch
  <2>3. QED
    BY <2>1, <2>2
<1>14. Ends'
  <2>1. InHand("err") => AtEnd("out")
    BY DEF Ends
  <2>2. got'["err"] # << >> => AtEnd("out")
    BY <1>0, <1>5, <1>6, <2>1 DEF Ends, Streams, InHand
  <2>3. mode = "sync" /\ got'["err"] # << >> => Len(got'["out"]) = written["out"]
    <3>1. ASSUME mode = "sync", got'["err"] # << >> PROVE Len(got'["out"]) = Handed("out")' /\ Handed("out")' = written["out"]
      BY <1>0, <1>2, <1>12, <2>2, <3>1, SMTT(60) DEF InARow, Handed, Taken, InHand, AtEnd, ProcessTypeOK, Streams
    <3>2. QED
      BY <3>1
  <2>4. QED
    BY <1>0, <2>2, <2>3 DEF Ends, AtEnd, InHand
<1>15. QED
  BY <1>7, <1>8, <1>12, <1>13, <1>14

-----------------------------------------------------------------------------
(* The theorems.                                                           *)

\* A process about to be spawned satisfies the invariant.
LEMMA ProcessInitKeeps == ProcessInit => ProcessInv
<1> SUFFICES ASSUME ProcessInit PROVE ProcessInv
  OBVIOUS
<1> USE PipeAssumption
<1>1. ProcessTypeOK
  <2>1. << >> \in Seq(Lines)
    OBVIOUS
  <2>2. pipe \in [Streams -> Seq(Lines)] /\ got \in [Streams -> Seq(Lines)]
    BY <2>1 DEF ProcessInit
  <2>3. plan \in [Streams -> Nat] /\ written \in [Streams -> Nat]
    BY DEF ProcessInit
  <2>4. line \in [from : Streams, n : {0} \cup Lines]
    BY DEF ProcessInit, NoLine, Streams
  <2>5. QED
    BY <2>2, <2>3, <2>4 DEF ProcessInit, ProcessTypeOK
<1>2. Calling /\ Stretch /\ Ends
  BY DEF ProcessInit, Calling, Stretch, Ends, AtEnd, InHand, Streams
<1>3. Writing
  <2>1. plan \in [Streams -> 0..(MaxOut + MaxErr)] /\ written = [s \in Streams |-> 0] /\ open = piped
    BY DEF ProcessInit
  <2>2. QED
    BY <2>1 DEF Writing
<1>4. InARow
  <2>1. \A s \in Streams : pipe[s] = << >> /\ got[s] = << >> /\ written[s] = 0 /\ ~InHand(s)
    BY DEF ProcessInit, InHand
  <2>2. QED
    BY <2>1 DEF InARow, Taken, Handed
<1>5. QED
  BY <1>1, <1>2, <1>3, <1>4 DEF ProcessInv

\* Every step of the child, the JVM, the watcher and the caller keeps it.
LEMMA ProcessNextKeeps == ProcessInv /\ [ProcessNext]_processVars => ProcessInv'
<1> SUFFICES ASSUME ProcessInv, [ProcessNext]_processVars PROVE ProcessInv'
  OBVIOUS
<1>1. ASSUME NEW s \in Streams, ChildWrite(s) \/ ChildClose(s) PROVE ProcessInv'
  BY <1>1, ChildWriteKeeps, ChildCloseKeeps
<1>2. CASE ChildExit
  BY <1>2, ChildExitKeeps
<1>3. CASE Reap
  BY <1>3, ReapKeeps
<1>4. CASE Watcher
  BY <1>4, WatcherCheckKeeps, WatcherReadOutKeeps, WatcherReadErrKeeps, WatcherEmitKeeps,
     WatcherCloseKeeps DEF Watcher
<1>5. CASE Caller
  BY <1>5, SpawnKeeps, JoinKeeps, ExitValueKeeps, WaitedKeeps DEF Caller
<1>6. ASSUME NEW s \in Streams, Listen(s) PROVE ProcessInv'
  BY <1>6, ListenKeeps
<1>7. CASE Kill
  BY <1>7, KillKeeps
<1>8. CASE UNCHANGED processVars
  <2> USE <1>8 DEF processVars, osVars
  <2>1. ProcessTypeOK' /\ Calling' /\ Writing' /\ Stretch'
    BY DEF ProcessInv, ProcessTypeOK, Lines, Calling, Writing, Stretch
  <2>2. InARow' /\ Ends'
    BY DEF ProcessInv, InARow, Ends, AtEnd, Taken, InHand, Handed
  <2>3. QED
    BY <2>1, <2>2 DEF ProcessInv
<1>9. QED
  BY <1>1, <1>2, <1>3, <1>4, <1>5, <1>6, <1>7, <1>8 DEF ProcessNext, Child

\* The inductive invariant: what the child writes, the pipes hold, the watcher has in hand
\* and the handlers have got is one row of lines per stream.
THEOREM ProcessInductive == ProcessSpec => []ProcessInv
BY ProcessInitKeeps, ProcessNextKeeps, PTL DEF ProcessSpec

\* Child, pipes, watcher and caller keep the shape of their state, for any capacity.
THEOREM ChildProcessTypeOK == ProcessSpec => []ProcessTypeOK
<1>1. ProcessInv => ProcessTypeOK
  BY DEF ProcessInv
<1>2. QED
  BY <1>1, ProcessInductive, PTL

\* The handlers get a stretch of the output in order, from its first line on for
\* spawnSync(), stderr after the whole of stdout, and all of it when the watcher met both ends.
THEOREM OutputArrivesHolds == ProcessSpec => []OutputArrives
<1>1. ASSUME ProcessInv PROVE OutputArrives
  <2> USE <1>1 DEF ProcessInv
  <2>1. \A s \in Streams :
          /\ \A i \in DOMAIN got[s] : got[s][i] = got[s][1] + i - 1
          /\ (mode = "sync" /\ got[s] # << >>) => got[s][1] = 1
    BY DEF Stretch
  <2>2. (mode = "sync" /\ got["err"] # << >>) => Len(got["out"]) = written["out"]
    BY DEF Ends
  <2>3. ASSUME caller = "returned", ~sawDead, piped = Streams, NEW s \in Streams
        PROVE  Len(got[s]) = plan[s]
    <3>1. mode = "sync" /\ watcher = "ended" /\ ~killed
      BY <2>3 DEF Calling
    <3>2. s \notin open /\ Len(got[s]) = written[s]
      BY <2>3, <3>1 DEF Ends, AtEnd
    <3>3. QED
      BY <2>3, <3>1, <3>2 DEF Writing
  <2>4. QED
    BY <2>1, <2>2, <2>3 DEF OutputArrives
<1>2. QED
  BY <1>1, ProcessInductive, PTL

\* The result of spawnSync() is built of a process that has exited, and nothing reaches the
\* handlers after it was returned or exitValue() threw.
THEOREM ResultIsFinalHolds == ProcessSpec => ResultIsFinal
<1>1. ASSUME ProcessInv, [ProcessNext]_processVars
      PROVE  [(caller \in {"returned", "threw"}) => ((caller = "returned" => reaped) /\ got' = got)]_processVars
  <2> SUFFICES ASSUME ProcessNext, caller \in {"returned", "threw"}
               PROVE  (caller = "returned" => reaped) /\ got' = got
    BY <1>1
  <2>1. (caller = "returned" => reaped) /\ watcher = "ended"
    BY <1>1 DEF ProcessInv, Calling
  <2>2. ~WatcherEmit
    BY <2>1 DEF WatcherEmit
  <2>3. CASE Child
    BY <2>1, <2>3 DEF Child, ChildWrite, ChildClose, ChildExit
  <2>4. CASE Reap
    BY <2>1, <2>4 DEF Reap
  <2>5. CASE Watcher
    <3>1. ~WatcherReadOut /\ ~WatcherReadErr
      BY <2>1 DEF WatcherReadOut, WatcherReadErr, WatcherRead
    <3>2. QED
      BY <2>1, <2>2, <2>5, <3>1 DEF Watcher, WatcherCheck, WatcherClose
  <2>6. CASE Caller \/ (\E s \in Streams : Listen(s)) \/ Kill
    BY <2>1, <2>6 DEF Caller, Spawn, Join, ExitValue, Waited, Listen, Kill, osVars
  <2>7. QED
    BY <2>1, <2>3, <2>4, <2>5, <2>6 DEF ProcessNext
<1>2. QED
  BY <1>1, ProcessInductive, PTL DEF ProcessSpec, ResultIsFinal

==============================================================================
