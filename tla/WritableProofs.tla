--------------------------- MODULE WritableProofs ---------------------------
(***************************************************************************)
(* The Writable keeps the promise of OrderedWriter, its callbacks come     *)
(* once each and in order, and length counts what is buffered or being     *)
(* written, whatever the program and the sink do.                          *)
(***************************************************************************)
EXTENDS Writable, TLAPS, FiniteSetTheorems, SequenceTheorems, WellFoundedInduction

Cb     == [ids : Seq(Nat), writev : BOOLEAN]
Frame  == [op : Frames, ids : Seq(Nat), writev : BOOLEAN, finished : BOOLEAN]
Fields == {"length", "buffer", "writecb", "writelen", "corked", "bufferProcessing", "pendingcb",
           "needDrain", "ending", "prefinished", "finalCalled", "finished", "destroyed"}
State(s) ==
  /\ DOMAIN s = Fields
  /\ s.length \in Int /\ s.writelen \in Int /\ s.pendingcb \in Int /\ s.corked \in 0..MaxCorks
  /\ s.buffer \in Seq(Nat) /\ s.writecb \in Cb
  /\ s.bufferProcessing \in BOOLEAN /\ s.needDrain \in BOOLEAN /\ s.ending \in BOOLEAN
  /\ s.prefinished \in BOOLEAN /\ s.finalCalled \in BOOLEAN /\ s.finished \in BOOLEAN
  /\ s.destroyed \in BOOLEAN

Typed ==
  /\ options \in Options
  /\ State(state)
  /\ todo \in Seq(Frame) /\ ticks \in Seq(Frame)
  /\ chunks \in Seq(Nat) /\ Len(chunks) <= MaxWrites
  /\ accepted \in Seq(Nat) /\ given \in Seq(Nat) /\ called \in Seq(Nat)
  /\ answered \subseteq Nat
  /\ sink \in [failed : BOOLEAN, sync : BOOLEAN, finishes : Nat]

-----------------------------------------------------------------------------
(* The shape of the running task.                                          *)

Busy  == {"written", "next"}
Owing == {"afterWrite", "callback", "callbacks"}

Has(s, op)  == \E k \in DOMAIN s : s[k].op = op
Clearing(s) == \E k \in DOMAIN s : s[k].op \in Busy

\* What may lie below a call: the innermost call comes first.
Above(f, g) ==
  /\ g.op \notin {"_write", "clearBuffer"}
  /\ ~(f.op \in Busy /\ g.op \in Busy)
  /\ f.op \in Owing => g.op \in {"finishMaybe", "error"}
  /\ f.op \in {"finish", "finishMaybe"} => g.op # "finish"
Over(f, s) == \A k \in DOMAIN s : Above(f, s[k])
Stacked(s) == \A j, k \in DOMAIN s : j < k => Above(s[j], s[k])

\* Until a write fails, only the sink is called from within clearBuffer().
Inner(s)  == \A j, k \in DOMAIN s : j < k /\ s[k].op \in Busy => s[j].op = "_write"
Filled(s) == \A k \in DOMAIN s : s[k].op \in {"afterWrite", "callback"} => s[k].ids # << >>

Shape ==
  /\ Stacked(todo)
  /\ Has(todo, "_write") => Writing(state)
  /\ Has(todo, "clearBuffer") => MustClear(state)
  /\ state.bufferProcessing <=> Clearing(todo)
  /\ Clearing(todo) => state.buffer # << >>
  /\ ~sink.failed => Inner(todo)
  /\ Writing(state) => state.writecb.ids # << >>
  /\ Filled(todo)
  /\ \A k \in DOMAIN ticks : ticks[k].op = "callbacks"
  /\ ~sink.failed /\ ~state.destroyed /\ state.corked = 0 /\ ~Writing(state) /\ state.buffer # << >>
       => Has(todo, "clearBuffer") \/ Clearing(todo)

-----------------------------------------------------------------------------
(* Where a chunk is.                                                       *)

\* The buffer behind the entries that a running clearBuffer() has taken.
Rest == IF Has(todo, "next") THEN Tail(state.buffer)
        ELSE IF Has(todo, "written") THEN << >> ELSE state.buffer

IdsIn(s)    == UNION {Range(s[k].ids) : k \in DOMAIN s}
Distinct(s) ==
  /\ \A k \in DOMAIN s : IsInjective(s[k].ids)
  /\ \A j, k \in DOMAIN s : j # k => Range(s[j].ids) \cap Range(s[k].ids) = {}

Placed ==
  /\ Range(accepted) \subseteq Ids
  /\ Range(state.buffer) \subseteq Range(accepted)
  /\ answered \subseteq Range(accepted)
  /\ Range(Rest) \cap answered = {} /\ IsInjective(Rest)
  /\ Range(state.writecb.ids) \subseteq Range(accepted) \ answered
  /\ IsInjective(state.writecb.ids)
  /\ Range(state.writecb.ids) \cap Range(Rest) = {}
  /\ Range(given) \subseteq Range(accepted) /\ IsInjective(given)
  /\ Range(given) \cap Range(Rest) = {}
  /\ Has(todo, "_write") => Range(state.writecb.ids) \cap Range(given) = {}

\* Which calls bear the callbacks of which chunks: of those in A, the accepted ones, or D,
\* the answered ones.
Bearing == {"nextTick", "callbacks", "afterWrite", "callback"}
Bears(f, A, D) ==
  /\ f.op \notin Bearing => f.ids = << >>
  /\ f.op = "nextTick" => Range(f.ids) \cap A = {}
  /\ f.op \in {"afterWrite", "callback"} \/ f.writev => Range(f.ids) \subseteq D
Bearings(s, A, D) == \A k \in DOMAIN s : Bears(s[k], A, D)

\* A callback is called, or about to be called, or its write is still open.
Owed ==
  /\ IdsIn(todo) \cup IdsIn(ticks) \cup Range(called) \subseteq answered \cup (Ids \ Range(accepted))
  /\ Distinct(todo) /\ Distinct(ticks) /\ IsInjective(called)
  /\ IdsIn(todo) \cap IdsIn(ticks) = {}
  /\ (IdsIn(todo) \cup IdsIn(ticks)) \cap Range(called) = {}
  /\ Bearings(todo, Range(accepted), answered) /\ Bearings(ticks, Range(accepted), answered)

-----------------------------------------------------------------------------
(* Until a write fails.                                                    *)

InHand == IF Has(todo, "_write") THEN state.writecb.ids ELSE << >>

Ordered ==
  ~sink.failed =>
    /\ ~state.destroyed => accepted = given \o (InHand \o Rest)
    /\ Len(given) <= Len(accepted) /\ \A k \in DOMAIN given : given[k] = accepted[k]
    /\ answered \subseteq Range(given)
    /\ Writing(state) /\ ~Has(todo, "_write") => Range(state.writecb.ids) \subseteq Range(given)

Increasing(s) == \A m, n \in DOMAIN s : m < n => s[m] < s[n]
Rising(s)     == \A k \in DOMAIN s : Increasing(s[k].ids)
Before(S, T)  == \A i \in S, j \in T : i < j

CallsOrdered ==
  /\ Increasing(Rest) /\ Increasing(state.writecb.ids)
  /\ ~sink.failed =>
    /\ Before(answered, Range(state.writecb.ids)) /\ Before(answered, Range(Rest))
    /\ ~(Has(todo, "_write") /\ state.destroyed) => Before(Range(state.writecb.ids), Range(Rest))
    /\ Rising(todo) /\ Rising(ticks)
    /\ Before(Range(called) \cap answered, IdsIn(todo) \cap answered)
    /\ IdsIn(ticks) \cap answered = {}
    /\ \A m, n \in DOMAIN called : m < n /\ {called[m], called[n]} \subseteq answered => called[m] < called[n]

-----------------------------------------------------------------------------
(* What pendingcb counts.                                                  *)

SettledIn(s) == {i \in Nat : \E k \in DOMAIN s :
                   s[k].op = "callbacks" /\ ~s[k].writev /\ i \in Range(s[k].ids)}
Batched(s)   == \E k \in DOMAIN s : s[k].op \in {"afterWrite", "callback"} /\ s[k].writev
Uncalled     == Range(accepted) \ (Range(called) \cup SettledIn(todo) \cup SettledIn(ticks))
One(b)       == IF b THEN 1 ELSE 0

Counted ==
  /\ state.pendingcb + One(Has(todo, "written"))
       >= Cardinality(Uncalled) + One(state.writecb.writev) + One(Batched(todo))
  /\ Has(todo, "written") =>
       \E i \in Uncalled : state.writecb.writev \/ i \notin Range(state.writecb.ids)
  /\ state.pendingcb \in Nat

Closed == state.ending /\ state.buffer = << >> /\ ~Writing(state)
Finishing ==
  /\ Has(todo, "finish") => Closed /\ ~state.finished
  /\ state.finished => Closed /\ answered = Range(accepted) /\ Uncalled = {}
  /\ sink.finishes = IF state.finished THEN 1 ELSE 0

IInv == Typed /\ Shape /\ Placed /\ Owed /\ Ordered /\ CallsOrdered /\ Counted /\ Finishing

-----------------------------------------------------------------------------
(* Sequences of ids.                                                       *)

\* What lies in a concatenation lies in one of its parts.
LEMMA CatFacts ==
  ASSUME NEW s \in Seq(Nat), NEW t \in Seq(Nat)
  PROVE  /\ s \o t \in Seq(Nat)
         /\ Range(s \o t) = Range(s) \cup Range(t)
         /\ IsInjective(s \o t) <=> IsInjective(s) /\ IsInjective(t) /\ Range(s) \cap Range(t) = {}
         /\ Increasing(s \o t) <=> Increasing(s) /\ Increasing(t) /\ Before(Range(s), Range(t))
<1> DEFINE u == s \o t
<1>0. /\ \A k \in DOMAIN s : k \in DOMAIN u /\ u[k] = s[k]
      /\ \A k \in DOMAIN t : k + Len(s) \in DOMAIN u /\ u[k + Len(s)] = t[k]
      /\ \A k \in DOMAIN u : k \in DOMAIN s \/ (k - Len(s) \in DOMAIN t /\ u[k] = t[k - Len(s)])
      /\ Len(s) \in Nat /\ DOMAIN s = 1..Len(s) /\ Len(t) \in Nat /\ DOMAIN t = 1..Len(t)
      /\ DOMAIN u = 1..(Len(s) + Len(t))
  OBVIOUS
<1>1. u \in Seq(Nat) /\ Range(u) = Range(s) \cup Range(t)
  BY RangeConcatenation
<1> HIDE DEF u
<1>2. IsInjective(u) <=> IsInjective(s) /\ IsInjective(t) /\ Range(s) \cap Range(t) = {}
  <2>1. ASSUME IsInjective(u) PROVE IsInjective(s)
    BY <1>0, <2>1 DEF IsInjective
  <2>2. ASSUME IsInjective(u) PROVE IsInjective(t)
    BY <1>0, <2>2 DEF IsInjective
  <2>3. ASSUME IsInjective(u), NEW j \in DOMAIN s, NEW k \in DOMAIN t, s[j] = t[k] PROVE FALSE
    BY <1>0, <2>3 DEF IsInjective
  <2>4. ASSUME IsInjective(s), IsInjective(t), Range(s) \cap Range(t) = {} PROVE IsInjective(u)
    <3>1. \A k \in DOMAIN s : s[k] \in Range(s)
      BY DEF Range
    <3>2. \A k \in DOMAIN t : t[k] \in Range(t)
      BY DEF Range
    <3>3. ASSUME NEW j \in DOMAIN u, NEW k \in DOMAIN u, u[j] = u[k] PROVE j = k
      BY <1>0, <2>4, <3>1, <3>2, <3>3 DEF IsInjective
    <3>4. QED
      BY <3>3 DEF IsInjective
  <2>5. QED
    BY <2>1, <2>2, <2>3, <2>4 DEF Range
<1>3. Increasing(u) <=> Increasing(s) /\ Increasing(t) /\ Before(Range(s), Range(t))
  <2>1. ASSUME Increasing(u) PROVE Increasing(s)
    BY <1>0, <2>1 DEF Increasing
  <2>2. ASSUME Increasing(u) PROVE Increasing(t)
    <3>1. ASSUME NEW m \in DOMAIN t, NEW n \in DOMAIN t, m < n PROVE t[m] < t[n]
      <4>1. m + Len(s) < n + Len(s)
        BY <3>1, <1>0
      <4>2. QED
        BY <1>0, <2>2, <4>1 DEF Increasing
    <3>2. QED
      BY <3>1 DEF Increasing
  <2>3. ASSUME Increasing(u), NEW j \in DOMAIN s, NEW k \in DOMAIN t PROVE s[j] < t[k]
    <3>1. j < k + Len(s)
      BY <1>0
    <3>2. QED
      BY <1>0, <2>3, <3>1 DEF Increasing
  <2>4. ASSUME Increasing(s), Increasing(t), Before(Range(s), Range(t)) PROVE Increasing(u)
    <3>1. \A j \in DOMAIN s, k \in DOMAIN t : s[j] < t[k]
      BY <2>4 DEF Range, Before
    <3>2. ASSUME NEW m \in DOMAIN u, NEW n \in DOMAIN u, m < n PROVE u[m] < u[n]
      BY <1>0, <2>4, <3>1, <3>2 DEF Increasing
    <3>3. QED
      BY <3>2 DEF Increasing
  <2>5. QED
    BY <2>1, <2>2, <2>3, <2>4 DEF Range, Before
<1>4. QED
  BY <1>1, <1>2, <1>3 DEF u

\* The empty sequence and sequences of one.
LEMMA SmallFacts ==
  /\ << >> \in Seq(Nat) /\ Range(<< >>) = {} /\ IsInjective(<< >>) /\ Increasing(<< >>)
  /\ \A i \in Nat : <<i>> \in Seq(Nat) /\ Range(<<i>>) = {i} /\ IsInjective(<<i>>) /\ Increasing(<<i>>)
<1>1. Range(<< >>) = {} /\ \A i \in Nat : Range(<<i>>) = {i}
  BY DEF Range
<1>2. QED
  BY <1>1 DEF IsInjective, Increasing

\* Append() as a concatenation, which the lemmas above are about.
LEMMA AppendCat ==
  ASSUME NEW s \in Seq(Nat), NEW i \in Nat
  PROVE  Append(s, i) = s \o <<i>>
OBVIOUS

\* A sequence that is not empty, taken apart.
LEMMA HeadTail ==
  ASSUME NEW s \in Seq(Nat), s # << >>
  PROVE  s = <<Head(s)>> \o Tail(s) /\ Head(s) \in Nat /\ Tail(s) \in Seq(Nat)
OBVIOUS

\* Taking the first element of a concatenation.
LEMMA TailCat ==
  ASSUME NEW s \in Seq(Nat), s # << >>, NEW t \in Seq(Nat)
  PROVE  Tail(s \o t) = Tail(s) \o t
OBVIOUS

\* A sequence that is not empty has an element.
LEMMA NotEmpty ==
  ASSUME NEW s \in Seq(Nat), s # << >>
  PROVE  Range(s) # {}
<1>1. 1 \in DOMAIN s
  OBVIOUS
<1>2. QED
  BY <1>1 DEF Range

-----------------------------------------------------------------------------
(* Sequences of calls.                                                     *)

\* Where the calls of two sequences are in their concatenation.
LEMMA FramesCat ==
  ASSUME NEW s \in Seq(Frame), NEW t \in Seq(Frame)
  PROVE  /\ s \o t \in Seq(Frame)
         /\ \A k \in DOMAIN s : k \in DOMAIN (s \o t) /\ (s \o t)[k] = s[k]
         /\ \A k \in DOMAIN t : k + Len(s) \in DOMAIN (s \o t) /\ (s \o t)[k + Len(s)] = t[k]
         /\ \A k \in DOMAIN (s \o t) : k \in DOMAIN s \/ \E j \in DOMAIN t : k = j + Len(s)
         /\ \A k \in DOMAIN s, j \in DOMAIN t : k < j + Len(s)
         /\ \A k \in DOMAIN s, j \in DOMAIN t : k # j + Len(s)
         /\ Len(s) \in Nat /\ DOMAIN s \subseteq Nat /\ DOMAIN t \subseteq Nat
<1>1. /\ s \o t \in Seq(Frame)
      /\ \A k \in DOMAIN s : k \in DOMAIN (s \o t) /\ (s \o t)[k] = s[k]
      /\ \A k \in DOMAIN t : k + Len(s) \in DOMAIN (s \o t) /\ (s \o t)[k + Len(s)] = t[k]
      /\ \A k \in DOMAIN s, j \in DOMAIN t : k < j + Len(s)
      /\ Len(s) \in Nat /\ DOMAIN s \subseteq Nat /\ DOMAIN t \subseteq Nat
  OBVIOUS
<1>2. ASSUME NEW k \in DOMAIN (s \o t), k \notin DOMAIN s PROVE \E j \in DOMAIN t : k = j + Len(s)
  <2>1. k - Len(s) \in DOMAIN t /\ k = (k - Len(s)) + Len(s)
    BY <1>2
  <2>2. QED
    BY <2>1
<1>3. QED
  BY <1>1, <1>2

\* A concatenation has the calls of both parts,
LEMMA HasCat ==
  ASSUME NEW s \in Seq(Frame), NEW t \in Seq(Frame)
  PROVE  /\ \A op : Has(s \o t, op) <=> Has(s, op) \/ Has(t, op)
         /\ Clearing(s \o t) <=> Clearing(s) \/ Clearing(t)
<1> DEFINE u == s \o t
<1>0. /\ \A k \in DOMAIN s : k \in DOMAIN u /\ u[k] = s[k]
      /\ \A k \in DOMAIN t : k + Len(s) \in DOMAIN u /\ u[k + Len(s)] = t[k]
      /\ \A k \in DOMAIN u : k \in DOMAIN s \/ \E j \in DOMAIN t : k = j + Len(s)
  BY FramesCat, Zenon
<1> HIDE DEF u
<1>1. \A op : Has(u, op) <=> Has(s, op) \/ Has(t, op)
  BY <1>0 DEF Has
<1>2. Clearing(u) <=> Clearing(s) \/ Clearing(t)
  BY <1>0 DEF Clearing
<1>3. QED
  BY <1>1, <1>2 DEF u

\* it is stacked when each part is and the first may be called from the second,
LEMMA StackedCat ==
  ASSUME NEW s \in Seq(Frame), NEW t \in Seq(Frame)
  PROVE  Stacked(s \o t) <=> /\ Stacked(s) /\ Stacked(t)
                             /\ \A j \in DOMAIN s, k \in DOMAIN t : Above(s[j], t[k])
<1> DEFINE u == s \o t
<1>0. /\ \A k \in DOMAIN s : k \in DOMAIN u /\ u[k] = s[k]
      /\ \A k \in DOMAIN t : k + Len(s) \in DOMAIN u /\ u[k + Len(s)] = t[k]
      /\ \A k \in DOMAIN u : k \in DOMAIN s \/ \E j \in DOMAIN t : k = j + Len(s)
      /\ \A k \in DOMAIN s, j \in DOMAIN t : k < j + Len(s)
      /\ Len(s) \in Nat /\ DOMAIN s \subseteq Nat /\ DOMAIN t \subseteq Nat
  BY FramesCat, Zenon
<1>1. \A j, k \in DOMAIN t : j < k <=> j + Len(s) < k + Len(s)
  BY <1>0
<1>2. \A j \in DOMAIN s, k \in DOMAIN t : ~(k + Len(s) < j)
  BY <1>0
<1> HIDE DEF u
<1>3. ASSUME Stacked(u)
      PROVE  Stacked(s) /\ Stacked(t) /\ \A j \in DOMAIN s, k \in DOMAIN t : Above(s[j], t[k])
  BY <1>0, <1>1, <1>3, Zenon DEF Stacked
<1>4. ASSUME Stacked(s), Stacked(t), \A j \in DOMAIN s, k \in DOMAIN t : Above(s[j], t[k]),
             NEW j \in DOMAIN u, NEW k \in DOMAIN u, j < k
      PROVE  Above(u[j], u[k])
  <2>1. CASE j \in DOMAIN s /\ k \in DOMAIN s
    BY <1>0, <1>4, <2>1, Zenon DEF Stacked
  <2>2. CASE j \in DOMAIN s /\ k \notin DOMAIN s
    BY <1>0, <1>4, <2>2, Zenon
  <2>3. CASE j \notin DOMAIN s /\ k \in DOMAIN s
    BY <1>0, <1>2, <1>4, <2>3, Zenon
  <2>4. CASE j \notin DOMAIN s /\ k \notin DOMAIN s
    <3>1. PICK a \in DOMAIN t, b \in DOMAIN t : j = a + Len(s) /\ k = b + Len(s)
      BY <1>0, <2>4, Zenon
    <3>2. QED
      BY <1>0, <1>1, <1>4, <3>1, Zenon DEF Stacked
  <2>5. QED
    BY <2>1, <2>2, <2>3, <2>4, Zenon
<1>5. QED
  BY <1>3, <1>4, Zenon DEF Stacked, u

\* a call made while the buffer is cleared must be _write,
LEMMA InnerCons ==
  ASSUME NEW f \in Frame, NEW s \in Seq(Frame)
  PROVE  Inner(<<f>> \o s) <=> Inner(s) /\ (Clearing(s) => f.op = "_write")
<1> DEFINE u == <<f>> \o s
<1>0. /\ 1 \in DOMAIN u /\ u[1] = f
      /\ \A k \in DOMAIN s : k + 1 \in DOMAIN u /\ u[k + 1] = s[k] /\ 1 < k + 1
      /\ \A k \in DOMAIN u : k = 1 \/ (k - 1 \in DOMAIN s /\ u[k] = s[k - 1])
      /\ DOMAIN s = 1..Len(s) /\ Len(s) \in Nat /\ DOMAIN u = 1..(1 + Len(s))
  OBVIOUS
<1> HIDE DEF u
<1>1. ASSUME Inner(u) PROVE Inner(s)
  <2>1. \A j, k \in DOMAIN s : j < k => j + 1 < k + 1
    BY <1>0
  <2>2. QED
    BY <1>0, <1>1, <2>1, Zenon DEF Inner
<1>2. ASSUME Inner(u), Clearing(s) PROVE f.op = "_write"
  BY <1>0, <1>2, Zenon DEF Inner, Clearing
<1>3. ASSUME Inner(s), Clearing(s) => f.op = "_write",
             NEW j \in DOMAIN u, NEW k \in DOMAIN u, j < k, u[k].op \in Busy
      PROVE  u[j].op = "_write"
  <2>1. k - 1 \in DOMAIN s /\ u[k] = s[k - 1] /\ Clearing(s)
    BY <1>0, <1>3 DEF Clearing
  <2>2. CASE j = 1
    BY <1>0, <1>3, <2>1, <2>2
  <2>3. CASE j # 1
    <3>1. j - 1 \in DOMAIN s /\ u[j] = s[j - 1] /\ j - 1 < k - 1
      BY <1>0, <1>3, <2>3
    <3>2. QED
      BY <1>3, <2>1, <3>1 DEF Inner
  <2>4. QED
    BY <2>2, <2>3
<1>4. QED
  BY <1>1, <1>2, <1>3 DEF Inner, u

\* and what is said of every call is said of both parts:
LEMMA FilledCat ==
  ASSUME NEW s \in Seq(Frame), NEW t \in Seq(Frame)
  PROVE  Filled(s \o t) <=> Filled(s) /\ Filled(t)
<1> DEFINE u == s \o t
<1>0. /\ \A k \in DOMAIN s : k \in DOMAIN u /\ u[k] = s[k]
      /\ \A k \in DOMAIN t : k + Len(s) \in DOMAIN u /\ u[k + Len(s)] = t[k]
      /\ \A k \in DOMAIN u : k \in DOMAIN s \/ \E j \in DOMAIN t : k = j + Len(s)
  BY FramesCat, Zenon
<1> HIDE DEF u
<1>1. Filled(u) => Filled(s) /\ Filled(t)
  BY <1>0 DEF Filled
<1>2. Filled(s) /\ Filled(t) => Filled(u)
  BY <1>0 DEF Filled
<1>3. QED
  BY <1>1, <1>2 DEF u

\* whether one bears the callbacks of a batch,
LEMMA BatchedCat ==
  ASSUME NEW s \in Seq(Frame), NEW t \in Seq(Frame)
  PROVE  Batched(s \o t) <=> Batched(s) \/ Batched(t)
<1> DEFINE u == s \o t
<1>0. /\ \A k \in DOMAIN s : k \in DOMAIN u /\ u[k] = s[k]
      /\ \A k \in DOMAIN t : k + Len(s) \in DOMAIN u /\ u[k + Len(s)] = t[k]
      /\ \A k \in DOMAIN u : k \in DOMAIN s \/ \E j \in DOMAIN t : k = j + Len(s)
  BY FramesCat, Zenon
<1> HIDE DEF u
<1>1. QED
  BY <1>0 DEF Batched, u

\* whether each bears its callbacks in order,
LEMMA RisingCat ==
  ASSUME NEW s \in Seq(Frame), NEW t \in Seq(Frame)
  PROVE  Rising(s \o t) <=> Rising(s) /\ Rising(t)
<1> DEFINE u == s \o t
<1>0. /\ \A k \in DOMAIN s : k \in DOMAIN u /\ u[k] = s[k]
      /\ \A k \in DOMAIN t : k + Len(s) \in DOMAIN u /\ u[k + Len(s)] = t[k]
      /\ \A k \in DOMAIN u : k \in DOMAIN s \/ \E j \in DOMAIN t : k = j + Len(s)
  BY FramesCat, Zenon
<1> HIDE DEF u
<1>1. QED
  BY <1>0 DEF Rising, u

\* whose callbacks they bear,
LEMMA BearingsCat ==
  ASSUME NEW s \in Seq(Frame), NEW t \in Seq(Frame)
  PROVE  \A A, D : Bearings(s \o t, A, D) <=> Bearings(s, A, D) /\ Bearings(t, A, D)
<1> DEFINE u == s \o t
<1>0. /\ \A k \in DOMAIN s : k \in DOMAIN u /\ u[k] = s[k]
      /\ \A k \in DOMAIN t : k + Len(s) \in DOMAIN u /\ u[k + Len(s)] = t[k]
      /\ \A k \in DOMAIN u : k \in DOMAIN s \/ \E j \in DOMAIN t : k = j + Len(s)
  BY FramesCat, Zenon
<1> HIDE DEF u
<1>1. TAKE A, D
<1>2. QED
  BY <1>0 DEF Bearings, u

\* the chunks whose callbacks they bear,
LEMMA IdsInCat ==
  ASSUME NEW s \in Seq(Frame), NEW t \in Seq(Frame)
  PROVE  IdsIn(s \o t) = IdsIn(s) \cup IdsIn(t)
<1> DEFINE u == s \o t
<1>0. /\ \A k \in DOMAIN s : k \in DOMAIN u /\ u[k] = s[k]
      /\ \A k \in DOMAIN t : k + Len(s) \in DOMAIN u /\ u[k + Len(s)] = t[k]
      /\ \A k \in DOMAIN u : k \in DOMAIN s \/ \E j \in DOMAIN t : k = j + Len(s)
  BY FramesCat, Zenon
<1> HIDE DEF u
<1>1. ASSUME NEW i \in IdsIn(u) PROVE i \in IdsIn(s) \cup IdsIn(t)
  BY <1>0 DEF IdsIn
<1>2. ASSUME NEW i \in IdsIn(s) PROVE i \in IdsIn(u)
  BY <1>0 DEF IdsIn
<1>3. ASSUME NEW i \in IdsIn(t) PROVE i \in IdsIn(u)
  BY <1>0 DEF IdsIn
<1>4. QED
  BY <1>1, <1>2, <1>3 DEF u

\* those among them pendingcb no longer counts,
LEMMA SettledInCat ==
  ASSUME NEW s \in Seq(Frame), NEW t \in Seq(Frame)
  PROVE  SettledIn(s \o t) = SettledIn(s) \cup SettledIn(t)
<1> DEFINE u == s \o t
<1>0. /\ \A k \in DOMAIN s : k \in DOMAIN u /\ u[k] = s[k]
      /\ \A k \in DOMAIN t : k + Len(s) \in DOMAIN u /\ u[k + Len(s)] = t[k]
      /\ \A k \in DOMAIN u : k \in DOMAIN s \/ \E j \in DOMAIN t : k = j + Len(s)
  BY FramesCat, Zenon
<1> HIDE DEF u
<1>1. ASSUME NEW i \in SettledIn(u) PROVE i \in SettledIn(s) \cup SettledIn(t)
  BY <1>0, SMTT(60) DEF SettledIn
<1>2. ASSUME NEW i \in SettledIn(s) PROVE i \in SettledIn(u)
  BY <1>0, Zenon DEF SettledIn
<1>3. ASSUME NEW i \in SettledIn(t) PROVE i \in SettledIn(u)
  BY <1>0, Zenon DEF SettledIn
<1>4. QED
  BY <1>1, <1>2, <1>3 DEF u

\* and whether no chunk is borne twice.
LEMMA DistinctCat ==
  ASSUME NEW s \in Seq(Frame), NEW t \in Seq(Frame)
  PROVE  Distinct(s \o t) <=> Distinct(s) /\ Distinct(t) /\ IdsIn(s) \cap IdsIn(t) = {}
<1> DEFINE u == s \o t
<1>0. /\ \A k \in DOMAIN s : k \in DOMAIN u /\ u[k] = s[k]
      /\ \A k \in DOMAIN t : k + Len(s) \in DOMAIN u /\ u[k + Len(s)] = t[k]
      /\ \A k \in DOMAIN u : k \in DOMAIN s \/ \E j \in DOMAIN t : k = j + Len(s)
      /\ \A k \in DOMAIN s, j \in DOMAIN t : k # j + Len(s)
      /\ Len(s) \in Nat /\ DOMAIN s \subseteq Nat /\ DOMAIN t \subseteq Nat
  BY FramesCat, Zenon
<1> HIDE DEF u
<1>1. ASSUME Distinct(u) PROVE Distinct(s)
  BY <1>0, <1>1, Zenon DEF Distinct
<1>2. ASSUME Distinct(u) PROVE Distinct(t)
  <2>1. \A j, k \in DOMAIN t : j # k => j + Len(s) # k + Len(s)
    BY <1>0
  <2>2. QED BY <1>0, <2>1, <1>2, Zenon DEF Distinct
<1>3. ASSUME Distinct(u), NEW i \in IdsIn(s), i \in IdsIn(t) PROVE FALSE
  <2>1. PICK j \in DOMAIN s : i \in Range(s[j].ids)
    BY Zenon DEF IdsIn
  <2>2. PICK k \in DOMAIN t : i \in Range(t[k].ids)
    BY <1>3, Zenon DEF IdsIn
  <2>3. QED BY <2>1, <2>2, <1>3, <1>0 DEF Distinct
<1>4. ASSUME Distinct(s), Distinct(t), IdsIn(s) \cap IdsIn(t) = {} PROVE Distinct(u)
  <2>1. ASSUME NEW k \in DOMAIN u PROVE IsInjective(u[k].ids)
    BY <1>0, <1>4, Zenon DEF Distinct
  <2>2. \A k \in DOMAIN s : Range(s[k].ids) \subseteq IdsIn(s)
    BY Zenon DEF IdsIn
  <2>3. \A k \in DOMAIN t : Range(t[k].ids) \subseteq IdsIn(t)
    BY Zenon DEF IdsIn
  <2>4. ASSUME NEW j \in DOMAIN u, NEW k \in DOMAIN u, j # k
        PROVE Range(u[j].ids) \cap Range(u[k].ids) = {}
    <3>1. CASE j \in DOMAIN s /\ k \in DOMAIN s
      BY <1>0, <1>4, <2>4, <3>1, Zenon DEF Distinct
    <3>2. CASE j \in DOMAIN s /\ k \notin DOMAIN s
      BY <1>0, <1>4, <2>2, <2>3, <3>2
    <3>3. CASE j \notin DOMAIN s /\ k \in DOMAIN s
      BY <1>0, <1>4, <2>2, <2>3, <3>3
    <3>4. CASE j \notin DOMAIN s /\ k \notin DOMAIN s
      <4>1. PICK a \in DOMAIN t, b \in DOMAIN t : j = a + Len(s) /\ k = b + Len(s)
        BY <1>0, <3>4
      <4>2. QED
        BY <1>0, <1>4, <2>4, <4>1 DEF Distinct
    <3>5. QED
      BY <3>1, <3>2, <3>3, <3>4
  <2>5. QED
    BY <2>1, <2>4 DEF Distinct
<1>5. QED
  BY <1>1, <1>2, <1>3, <1>4 DEF u

-----------------------------------------------------------------------------
(* What one call is in a sequence of one.                                  *)

\* All of that, of one call.
LEMMA Single ==
  ASSUME NEW f \in Frame
  PROVE  /\ <<f>> \in Seq(Frame)
         /\ \A op : Has(<<f>>, op) <=> f.op = op
         /\ Clearing(<<f>>) <=> f.op \in Busy
         /\ Stacked(<<f>>)
         /\ Distinct(<<f>>) <=> IsInjective(f.ids)
         /\ IdsIn(<<f>>) = Range(f.ids)
         /\ Rising(<<f>>) <=> Increasing(f.ids)
         /\ Filled(<<f>>) <=> (f.op \in {"afterWrite", "callback"} => f.ids # << >>)
         /\ Batched(<<f>>) <=> f.op \in {"afterWrite", "callback"} /\ f.writev
         /\ SettledIn(<<f>>) = IF f.op = "callbacks" /\ ~f.writev THEN Range(f.ids) ELSE {}
         /\ \A A, D : Bearings(<<f>>, A, D) <=> Bears(f, A, D)
<1> DEFINE s == <<f>>
<1>0. s \in Seq(Frame) /\ DOMAIN s = {1} /\ s[1] = f
  OBVIOUS
<1> HIDE DEF s
<1>1. /\ \A op : Has(s, op) <=> f.op = op
      /\ Clearing(s) <=> f.op \in Busy
      /\ Stacked(s) /\ (Distinct(s) <=> IsInjective(f.ids))
      /\ Rising(s) <=> Increasing(f.ids)
      /\ Filled(s) <=> (f.op \in {"afterWrite", "callback"} => f.ids # << >>)
      /\ Batched(s) <=> f.op \in {"afterWrite", "callback"} /\ f.writev
  BY <1>0 DEF Has, Clearing, Stacked, Distinct, Rising, Filled, Batched
<1>2. IdsIn(s) = Range(f.ids)
  BY <1>0 DEF IdsIn
<1>3. Range(f.ids) \subseteq Nat
  BY DEF Frame, Range
<1>4. SettledIn(s) = IF f.op = "callbacks" /\ ~f.writev THEN Range(f.ids) ELSE {}
  BY <1>0, <1>3 DEF SettledIn
<1>5. \A A, D : Bearings(s, A, D) <=> Bears(f, A, D)
  BY <1>0 DEF Bearings
<1>6. QED
  BY <1>0, <1>1, <1>2, <1>4, <1>5 DEF s

\* All of that, of no call.
LEMMA Nothing ==
  /\ << >> \in Seq(Frame)
  /\ \A op : ~Has(<< >>, op)
  /\ ~Clearing(<< >>) /\ Inner(<< >>)
  /\ Stacked(<< >>) /\ Distinct(<< >>) /\ Rising(<< >>) /\ Filled(<< >>) /\ ~Batched(<< >>)
  /\ IdsIn(<< >>) = {} /\ SettledIn(<< >>) = {}
  /\ \A A, D : Bearings(<< >>, A, D)
BY DEF Has, Clearing, Inner, Stacked, Distinct, Rising, Filled, Batched, IdsIn, SettledIn, Bearings

\* A call that bears no callback is a call, and bears none.
LEMMA DoTyped ==
  \A op \in Frames : Do(op) \in Frame /\ Do(op).op = op /\ Do(op).ids = << >> /\ ~Do(op).writev
BY DEF Do, Frame

\* The call of the callbacks of cb, or of the chunks of a frame.
LEMMA CallsTyped ==
  \A cb \in Cb \cup Frame :
    Calls(cb) \in Frame /\ Calls(cb).op = "callbacks" /\ Calls(cb).ids = cb.ids /\ Calls(cb).writev = cb.writev
BY DEF Do, Frame, Frames, Cb, Calls

\* The call of afterWrite() with the callbacks of cb.
LEMMA AfterWriteTyped ==
  \A cb \in Cb, fin \in BOOLEAN :
    /\ AfterWrite(cb, fin) \in Frame /\ AfterWrite(cb, fin).op = "afterWrite"
    /\ AfterWrite(cb, fin).ids = cb.ids /\ AfterWrite(cb, fin).writev = cb.writev
BY DEF Do, Frame, Frames, Cb, AfterWrite

\* The call of process.nextTick() with callbacks.
LEMMA NextTickTyped ==
  \A ids \in Seq(Nat) :
    LET g == [Do("nextTick") EXCEPT !.ids = ids]
    IN g \in Frame /\ g.op = "nextTick" /\ g.ids = ids /\ g.writev = FALSE
BY DEF Do, Frame, Frames

\* No write in progress: no callback of one.
LEMMA NoneTyped == None \in Cb /\ None.ids = << >> /\ ~None.writev
BY DEF None, Cb

\* The innermost call, and what it was called from.
LEMMA Top ==
  ASSUME todo \in Seq(Frame), todo # << >>
  PROVE  todo = <<todo[1]>> \o Tail(todo) /\ todo[1] \in Frame /\ Tail(todo) \in Seq(Frame)
OBVIOUS

\* A call made from those of s.
LEMMA Cons ==
  ASSUME NEW f \in Frame, NEW s \in Seq(Frame)
  PROVE  /\ <<f>> \o s \in Seq(Frame)
         /\ \A op : Has(<<f>> \o s, op) <=> f.op = op \/ Has(s, op)
         /\ Clearing(<<f>> \o s) <=> f.op \in Busy \/ Clearing(s)
         /\ Stacked(<<f>> \o s) <=> Stacked(s) /\ Over(f, s)
         /\ Inner(<<f>> \o s) <=> Inner(s) /\ (Clearing(s) => f.op = "_write")
         /\ Filled(<<f>> \o s) <=> Filled(s) /\ (f.op \in {"afterWrite", "callback"} => f.ids # << >>)
         /\ IdsIn(<<f>> \o s) = Range(f.ids) \cup IdsIn(s)
         /\ Distinct(<<f>> \o s) <=> IsInjective(f.ids) /\ Distinct(s) /\ Range(f.ids) \cap IdsIn(s) = {}
         /\ Rising(<<f>> \o s) <=> Increasing(f.ids) /\ Rising(s)
         /\ Batched(<<f>> \o s) <=> (f.op \in {"afterWrite", "callback"} /\ f.writev) \/ Batched(s)
         /\ SettledIn(<<f>> \o s) =
              (IF f.op = "callbacks" /\ ~f.writev THEN Range(f.ids) ELSE {}) \cup SettledIn(s)
         /\ \A A, D : Bearings(<<f>> \o s, A, D) <=> Bears(f, A, D) /\ Bearings(s, A, D)
<1>0. <<f>> \in Seq(Frame)
  OBVIOUS
<1>1. /\ <<f>> \o s \in Seq(Frame)
      /\ \A op : Has(<<f>> \o s, op) <=> f.op = op \/ Has(s, op)
      /\ Clearing(<<f>> \o s) <=> f.op \in Busy \/ Clearing(s)
  BY <1>0, Single, HasCat, FramesCat, Zenon
<1>2. Stacked(<<f>> \o s) <=> Stacked(s) /\ Over(f, s)
  <2>1. DOMAIN <<f>> = {1} /\ <<f>>[1] = f
    OBVIOUS
  <2>2. Stacked(<<f>>)
    BY Single
  <2>3. Stacked(<<f>> \o s) <=>
          /\ Stacked(<<f>>) /\ Stacked(s)
          /\ \A j \in DOMAIN <<f>>, k \in DOMAIN s : Above(<<f>>[j], s[k])
    BY <1>0, StackedCat, Zenon
  <2>4. QED
    BY <2>1, <2>2, <2>3 DEF Over
<1>3. Inner(<<f>> \o s) <=> Inner(s) /\ (Clearing(s) => f.op = "_write")
  BY InnerCons, Zenon
<1>4. Filled(<<f>> \o s) <=> Filled(s) /\ (f.op \in {"afterWrite", "callback"} => f.ids # << >>)
  BY <1>0, Single, FilledCat, Zenon
<1>5. IdsIn(<<f>> \o s) = Range(f.ids) \cup IdsIn(s)
  BY <1>0, Single, IdsInCat, Zenon
<1>6. Distinct(<<f>> \o s) <=> IsInjective(f.ids) /\ Distinct(s) /\ Range(f.ids) \cap IdsIn(s) = {}
  BY <1>0, Single, DistinctCat, Zenon
<1>7. Rising(<<f>> \o s) <=> Increasing(f.ids) /\ Rising(s)
  BY <1>0, Single, RisingCat, Zenon
<1>8. Batched(<<f>> \o s) <=> (f.op \in {"afterWrite", "callback"} /\ f.writev) \/ Batched(s)
  BY <1>0, Single, BatchedCat, Zenon
<1>9. SettledIn(<<f>> \o s) =
        (IF f.op = "callbacks" /\ ~f.writev THEN Range(f.ids) ELSE {}) \cup SettledIn(s)
  BY <1>0, Single, SettledInCat, Zenon
<1>10. \A A, D : Bearings(<<f>> \o s, A, D) <=> Bears(f, A, D) /\ Bearings(s, A, D)
  BY <1>0, Single, BearingsCat, Zenon
<1>11. QED
  BY <1>1, <1>2, <1>3, <1>4, <1>5, <1>6, <1>7, <1>8, <1>9, <1>10

\* The same of a call that carries no ids.
LEMMA DoCons ==
  ASSUME NEW op \in Frames, NEW s \in Seq(Frame)
  PROVE  /\ <<Do(op)>> \o s \in Seq(Frame)
         /\ \A o : Has(<<Do(op)>> \o s, o) <=> op = o \/ Has(s, o)
         /\ Clearing(<<Do(op)>> \o s) <=> op \in Busy \/ Clearing(s)
         /\ Stacked(<<Do(op)>> \o s) <=> Stacked(s) /\ Over(Do(op), s)
         /\ Inner(<<Do(op)>> \o s) <=> Inner(s) /\ (Clearing(s) => op = "_write")
         /\ Filled(<<Do(op)>> \o s) <=> Filled(s) /\ op \notin {"afterWrite", "callback"}
         /\ IdsIn(<<Do(op)>> \o s) = IdsIn(s)
         /\ Distinct(<<Do(op)>> \o s) <=> Distinct(s)
         /\ Rising(<<Do(op)>> \o s) <=> Rising(s)
         /\ Batched(<<Do(op)>> \o s) <=> Batched(s)
         /\ SettledIn(<<Do(op)>> \o s) = SettledIn(s)
         /\ \A A, D : Bearings(<<Do(op)>> \o s, A, D) <=> Bearings(s, A, D)
<1> DEFINE f == Do(op)
<1>1. f \in Frame /\ f.op = op /\ f.ids = << >> /\ ~f.writev
  BY DoTyped
<1>2. Range(f.ids) = {} /\ IsInjective(f.ids) /\ Increasing(f.ids)
  BY <1>1, SmallFacts
<1> HIDE DEF f
<1>3. /\ <<f>> \o s \in Seq(Frame)
      /\ \A o : Has(<<f>> \o s, o) <=> op = o \/ Has(s, o)
      /\ Clearing(<<f>> \o s) <=> op \in Busy \/ Clearing(s)
      /\ Stacked(<<f>> \o s) <=> Stacked(s) /\ Over(f, s)
      /\ Inner(<<f>> \o s) <=> Inner(s) /\ (Clearing(s) => op = "_write")
      /\ Filled(<<f>> \o s) <=> Filled(s) /\ op \notin {"afterWrite", "callback"}
      /\ IdsIn(<<f>> \o s) = IdsIn(s)
      /\ Distinct(<<f>> \o s) <=> Distinct(s)
      /\ Rising(<<f>> \o s) <=> Rising(s)
      /\ Batched(<<f>> \o s) <=> Batched(s)
      /\ SettledIn(<<f>> \o s) = SettledIn(s)
      /\ \A A, D : Bearings(<<f>> \o s, A, D) <=> Bearings(s, A, D)
  <2>1. /\ <<f>> \o s \in Seq(Frame)
        /\ \A o : Has(<<f>> \o s, o) <=> op = o \/ Has(s, o)
        /\ Clearing(<<f>> \o s) <=> op \in Busy \/ Clearing(s)
        /\ Stacked(<<f>> \o s) <=> Stacked(s) /\ Over(f, s)
        /\ Inner(<<f>> \o s) <=> Inner(s) /\ (Clearing(s) => op = "_write")
    BY <1>1, Cons
  <2>2. Filled(<<f>> \o s) <=> Filled(s) /\ op \notin {"afterWrite", "callback"}
    BY <1>1, Cons
  <2>3. /\ IdsIn(<<f>> \o s) = IdsIn(s)
        /\ Distinct(<<f>> \o s) <=> Distinct(s)
    <3>1. /\ IdsIn(<<f>> \o s) = Range(f.ids) \cup IdsIn(s)
          /\ Distinct(<<f>> \o s) <=> IsInjective(f.ids) /\ Distinct(s) /\ Range(f.ids) \cap IdsIn(s) = {}
      BY <1>1, Cons, Zenon
    <3>2. QED
      BY <1>2, <3>1
  <2>4. /\ Rising(<<f>> \o s) <=> Rising(s)
        /\ Batched(<<f>> \o s) <=> Batched(s)
    BY <1>1, <1>2, Cons
  <2>5. SettledIn(<<f>> \o s) = SettledIn(s)
    <3>1. SettledIn(<<f>> \o s) =
            (IF f.op = "callbacks" /\ ~f.writev THEN Range(f.ids) ELSE {}) \cup SettledIn(s)
      BY <1>1, Cons, Zenon
    <3>2. QED
      BY <1>2, <3>1
  <2>6. \A A, D : Bearings(<<f>> \o s, A, D) <=> Bearings(s, A, D)
    <3>1. \A A, D : Bears(f, A, D)
      BY <1>1, <1>2 DEF Bears
    <3>2. \A A, D : Bearings(<<f>> \o s, A, D) <=> Bears(f, A, D) /\ Bearings(s, A, D)
      BY <1>1, Cons, Zenon
    <3>3. QED
      BY <3>1, <3>2
  <2>7. QED
    BY <2>1, <2>2, <2>3, <2>4, <2>5, <2>6
<1>4. QED
  BY <1>3 DEF f

\* Calls made one after the other, the innermost first.
LEMMA Several ==
  ASSUME NEW s \in Seq(Frame)
  PROVE  /\ << >> \o s = s
         /\ \A f \in Frame : <<f>> \o << >> = <<f>>
         /\ \A f, g \in Frame : <<f, g>> \o s = <<f>> \o (<<g>> \o s)
         /\ \A f, g, h \in Frame : <<f, g, h>> \o s = <<f>> \o (<<g>> \o (<<h>> \o s))
<1>1. << >> \o s = s /\ \A f \in Frame : <<f>> \o << >> = <<f>> /\ <<f>> \in Seq(Frame)
  OBVIOUS
<1>2. ASSUME NEW f \in Frame, NEW g \in Frame, NEW r \in Seq(Frame)
      PROVE  <<f, g>> \o r = <<f>> \o (<<g>> \o r)
  <2>1. <<f, g>> = Append(<<f>>, g)
    OBVIOUS
  <2>2. Append(<<f>>, g) = <<f>> \o <<g>>
    BY <1>1, AppendIsConcat
  <2>3. QED
    BY <1>1, <2>1, <2>2, ConcatAssociative
<1>3. ASSUME NEW f \in Frame, NEW g \in Frame, NEW h \in Frame
      PROVE  <<f, g, h>> \o s = <<f>> \o (<<g>> \o (<<h>> \o s))
  <2>1. <<f, g>> \in Seq(Frame) /\ <<h>> \in Seq(Frame) /\ <<h>> \o s \in Seq(Frame)
    OBVIOUS
  <2>2. <<f, g, h>> = <<f, g>> \o <<h>>
    OBVIOUS
  <2>3. (<<f, g>> \o <<h>>) \o s = <<f, g>> \o (<<h>> \o s)
    BY <2>1, ConcatAssociative
  <2>4. <<f, g>> \o (<<h>> \o s) = <<f>> \o (<<g>> \o (<<h>> \o s))
    BY <1>2, <2>1
  <2>5. QED
    BY <2>2, <2>3, <2>4
<1>4. QED
  BY <1>1, <1>2, <1>3

\* A call may be made from a sequence when it may be made from each of its calls,
LEMMA OverCons ==
  ASSUME NEW f \in Frame, NEW g \in Frame, NEW s \in Seq(Frame)
  PROVE  Over(f, <<g>> \o s) <=> Above(f, g) /\ Over(f, s)
<1> DEFINE u == <<g>> \o s
<1>1. /\ 1 \in DOMAIN u /\ u[1] = g
      /\ \A k \in DOMAIN s : k + 1 \in DOMAIN u /\ u[k + 1] = s[k]
      /\ \A k \in DOMAIN u : k = 1 \/ (k - 1 \in DOMAIN s /\ u[k] = s[k - 1])
  OBVIOUS
<1> HIDE DEF u
<1>2. QED
  BY <1>1 DEF Over, u

\* A call may be made where another was running that it may stand for.
LEMMA OverInstead ==
  ASSUME NEW f \in Frame, NEW g \in Frame, NEW s \in Seq(Frame), Over(g, s),
         f.op \in Busy => g.op \in Busy \/ ~Clearing(s),
         f.op \in Owing => g.op \in Owing,
         f.op \in {"finish", "finishMaybe"} => g.op \in {"finish", "finishMaybe"} \cup Owing \/ ~Has(s, "finish")
  PROVE  Over(f, s)
<1> SUFFICES ASSUME NEW k \in DOMAIN s PROVE Above(f, s[k])
  BY DEF Over
<1>1. Above(g, s[k])
  BY DEF Over
<1>2. s[k].op \in Busy => Clearing(s)
  BY DEF Clearing
<1>3. s[k].op = "finish" => Has(s, "finish")
  BY DEF Has
<1>4. QED
  BY <1>1, <1>2, <1>3 DEF Above

\* and from an empty one always.
LEMMA OverNothing == \A f : Over(f, << >>)
BY DEF Over

\* What the innermost call tells of those below it.
LEMMA Popped ==
  ASSUME Typed, Shape, Owed, todo # << >>
  PROVE  LET f == todo[1]
             r == Tail(todo)
         IN /\ f \in Frame /\ r \in Seq(Frame) /\ todo = <<f>> \o r
            /\ Stacked(r) /\ Over(f, r) /\ Filled(r)
            /\ ~Has(r, "_write") /\ ~Has(r, "clearBuffer")
            /\ f.op \in Busy => ~Clearing(r)
            /\ ~sink.failed => Inner(r) /\ (Clearing(r) => f.op = "_write")
            /\ \A op : Has(todo, op) <=> f.op = op \/ Has(r, op)
            /\ Clearing(todo) <=> f.op \in Busy \/ Clearing(r)
            /\ f.op \in {"afterWrite", "callback"} => f.ids # << >>
            /\ IdsIn(todo) = Range(f.ids) \cup IdsIn(r)
            /\ IsInjective(f.ids) /\ Distinct(r) /\ Range(f.ids) \cap IdsIn(r) = {}
            /\ Rising(todo) <=> Increasing(f.ids) /\ Rising(r)
            /\ Batched(todo) <=> (f.op \in {"afterWrite", "callback"} /\ f.writev) \/ Batched(r)
            /\ SettledIn(todo) =
                 (IF f.op = "callbacks" /\ ~f.writev THEN Range(f.ids) ELSE {}) \cup SettledIn(r)
            /\ Bears(f, Range(accepted), answered) /\ Bearings(r, Range(accepted), answered)
<1> DEFINE f == todo[1]
           r == Tail(todo)
<1>1. f \in Frame /\ r \in Seq(Frame) /\ todo = <<f>> \o r
  BY Top DEF Typed
<1> HIDE DEF f, r
<1>2. Stacked(r) /\ Over(f, r) /\ Filled(r)
  BY <1>1, Cons DEF Shape
<1>3. ~Has(r, "_write") /\ ~Has(r, "clearBuffer") /\ (f.op \in Busy => ~Clearing(r))
  BY <1>2 DEF Over, Above, Has, Clearing
<1>4. ~sink.failed => Inner(r) /\ (Clearing(r) => f.op = "_write")
  BY <1>1, Cons DEF Shape
<1>5. /\ \A op : Has(todo, op) <=> f.op = op \/ Has(r, op)
      /\ Clearing(todo) <=> f.op \in Busy \/ Clearing(r)
  BY <1>1, Cons
<1>6. f.op \in {"afterWrite", "callback"} => f.ids # << >>
  BY <1>1, Cons DEF Shape
<1>7. IdsIn(todo) = Range(f.ids) \cup IdsIn(r)
  BY <1>1, Cons, Zenon
<1>8. IsInjective(f.ids) /\ Distinct(r) /\ Range(f.ids) \cap IdsIn(r) = {}
  BY <1>1, Cons DEF Owed
<1>9. /\ Rising(todo) <=> Increasing(f.ids) /\ Rising(r)
      /\ Batched(todo) <=> (f.op \in {"afterWrite", "callback"} /\ f.writev) \/ Batched(r)
  BY <1>1, Cons
<1>10. SettledIn(todo) =
         (IF f.op = "callbacks" /\ ~f.writev THEN Range(f.ids) ELSE {}) \cup SettledIn(r)
  BY <1>1, Cons, Zenon
<1>11. Bears(f, Range(accepted), answered) /\ Bearings(r, Range(accepted), answered)
  BY <1>1, Cons, Zenon DEF Owed
<1>12. QED
  BY <1>1, <1>2, <1>3, <1>4, <1>5, <1>6, <1>7, <1>8, <1>9, <1>10, <1>11 DEF f, r

\* The program is called from listeners and callbacks, never from the sink or clearBuffer().
LEMMA InTheProgram ==
  ASSUME Typed, Shape, Owed, InProgram
  PROVE  /\ ~Has(todo, "_write") /\ ~Has(todo, "clearBuffer")
         /\ ~sink.failed => ~Clearing(todo)
         /\ \A f \in Frame : f.op \notin Busy \cup Owing \cup {"finish", "finishMaybe"} => Over(f, todo)
<1>1. CASE todo = << >>
  BY <1>1, Nothing, OverNothing
<1>2. CASE todo # << >>
  <2> DEFINE t == todo[1]
             r == Tail(todo)
  <2>1. t.op = "program"
    BY <1>2 DEF InProgram
  <2>2. /\ t \in Frame /\ r \in Seq(Frame) /\ todo = <<t>> \o r /\ Over(t, r)
        /\ ~Has(r, "_write") /\ ~Has(r, "clearBuffer")
        /\ ~sink.failed => (Clearing(r) => t.op = "_write")
        /\ \A op : Has(todo, op) <=> t.op = op \/ Has(r, op)
        /\ Clearing(todo) <=> t.op \in Busy \/ Clearing(r)
    BY <1>2, Popped
  <2> HIDE DEF t, r
  <2>3. ASSUME NEW f \in Frame, f.op \notin Busy \cup Owing \cup {"finish", "finishMaybe"}
        PROVE  Over(f, todo)
    <3>1. Over(f, r)
      BY <2>2, <2>3, OverInstead
    <3>2. Above(f, t)
      BY <2>1, <2>3 DEF Above, Busy, Owing
    <3>3. QED
      BY <2>2, <3>1, <3>2, OverCons
  <2>4. QED
    BY <2>1, <2>2, <2>3 DEF Busy
<1>3. QED
  BY <1>1, <1>2

-----------------------------------------------------------------------------
(* Steps that move no chunk and no callback.                               *)

Keeps(F) == DOMAIN state' = Fields /\ \A f \in Fields \ F : state'[f] = state[f]

\* The running task calls or returns, but from and to nothing that carries ids or clears
\* the buffer.
Lighter(s, t) ==
  /\ s \in Seq(Frame)
  /\ \A op \in {"_write", "written", "next"} : Has(s, op) <=> Has(t, op)
  /\ Clearing(s) <=> Clearing(t)
  /\ IdsIn(s) \subseteq IdsIn(t)
  /\ Distinct(t) => Distinct(s)
  /\ Rising(t) => Rising(s)
  /\ Batched(s) <=> Batched(t)
  /\ SettledIn(s) = SettledIn(t)
  /\ Bearings(t, Range(accepted), answered) => Bearings(s, Range(accepted), answered)

Quiet ==
  /\ Keeps({"corked", "needDrain", "pendingcb", "ending", "prefinished", "finalCalled", "finished", "destroyed"})
  /\ state'.pendingcb >= state.pendingcb /\ (state.destroyed => state'.destroyed)
  /\ UNCHANGED <<ticks, chunks, accepted, given, answered, called>> /\ sink'.failed = sink.failed
  /\ Lighter(todo', todo)

\* Nothing changes,
LEMMA LighterSame == ASSUME NEW s \in Seq(Frame) PROVE Lighter(s, s)
BY DEF Lighter

\* or two such steps follow each other,
LEMMA LighterTwice == ASSUME NEW s, NEW t, NEW u, Lighter(s, t), Lighter(t, u) PROVE Lighter(s, u)
BY DEF Lighter

\* or a call is made that bears no callback and clears nothing,
LEMMA LighterCall ==
  ASSUME NEW op \in Frames, op \notin {"_write", "written", "next", "afterWrite", "callback", "callbacks"},
         NEW s \in Seq(Frame)
  PROVE  Lighter(<<Do(op)>> \o s, s)
BY DoCons DEF Lighter, Busy

\* or such a call returns.
LEMMA LighterReturn ==
  ASSUME Typed, Shape, Owed, todo # << >>,
         todo[1].op \notin {"_write", "written", "next", "afterWrite", "callback", "callbacks"}
  PROVE  Lighter(Tail(todo), todo)
<1> DEFINE f == todo[1]
           r == Tail(todo)
<1>1. /\ f \in Frame /\ r \in Seq(Frame)
      /\ \A op : Has(todo, op) <=> f.op = op \/ Has(r, op)
      /\ Clearing(todo) <=> f.op \in Busy \/ Clearing(r)
      /\ IdsIn(todo) = Range(f.ids) \cup IdsIn(r)
      /\ Distinct(r)
      /\ Rising(todo) <=> Increasing(f.ids) /\ Rising(r)
      /\ Batched(todo) <=> (f.op \in {"afterWrite", "callback"} /\ f.writev) \/ Batched(r)
      /\ SettledIn(todo) =
           (IF f.op = "callbacks" /\ ~f.writev THEN Range(f.ids) ELSE {}) \cup SettledIn(r)
      /\ Bearings(r, Range(accepted), answered)
  BY Popped
<1>2. f.op \notin {"_write", "written", "next", "afterWrite", "callback", "callbacks"}
  OBVIOUS
<1> HIDE DEF f, r
<1>3. Lighter(r, todo)
  BY <1>1, <1>2 DEF Lighter, Busy
<1>4. QED
  BY <1>3 DEF r

\* A listener or a callback of the program returns.
LEMMA ReturnStep ==
  ASSUME Typed, Shape, Owed, Return
  PROVE  Typed' /\ Shape' /\ Quiet
<1> DEFINE r == Tail(todo)
<1>1. todo # << >> /\ todo[1].op = "program" /\ todo' = << >> \o r
  BY DEF Return, At, Then
<1>2. UNCHANGED <<options, state, ticks, chunks, accepted, given, answered, called, sink>>
  BY DEF Return, history
<1>3. /\ r \in Seq(Frame) /\ Stacked(r) /\ Filled(r) /\ ~Has(r, "_write") /\ ~Has(r, "clearBuffer")
      /\ ~sink.failed => Inner(r) /\ ~Clearing(r)
      /\ Has(todo, "clearBuffer") <=> Has(r, "clearBuffer")
  BY <1>1, Popped
<1>4. todo' = r
  BY <1>1, <1>3, Several
<1>5. Lighter(r, todo)
  BY <1>1, LighterReturn
<1>6. Typed'
  BY <1>2, <1>3, <1>4 DEF Typed
<1>7. Shape'
  BY <1>2, <1>3, <1>4, <1>5 DEF Shape, Lighter
<1>8. Quiet
  BY <1>2, <1>4, <1>5 DEF Quiet, Keeps, Typed, State
<1>9. QED
  BY <1>6, <1>7, <1>8

\* What remains to be shown of a step that moves nothing.
LEMMA QuietIntro ==
  ASSUME State(state), NEW F, Keeps(F), "pendingcb" \notin F,
         F \subseteq {"corked", "needDrain", "ending", "prefinished", "finalCalled", "finished", "destroyed"},
         state.destroyed => state'.destroyed,
         UNCHANGED <<ticks, chunks, accepted, given, answered, called>>, sink'.failed = sink.failed,
         Lighter(todo', todo)
  PROVE  Quiet
<1>1. state'.pendingcb = state.pendingcb /\ state.pendingcb \in Int
  BY DEF Keeps, State, Fields
<1>2. Keeps({"corked", "needDrain", "pendingcb", "ending", "prefinished", "finalCalled", "finished", "destroyed"})
  BY DEF Keeps
<1>3. QED
  BY <1>1, <1>2 DEF Quiet

\* cork() is such a step.
LEMMA CorkStep ==
  ASSUME WritableAssumption, Typed, Shape, Owed, Cork
  PROVE  Typed' /\ Shape' /\ Quiet
<1>1. /\ UNCHANGED <<options, todo, ticks, chunks, accepted, given, answered, called, sink>>
      /\ state' = [state EXCEPT !.corked = state.corked + 1] /\ state.corked < MaxCorks
      /\ InProgram
  BY DEF Cork, history
<1>2. State(state') /\ state'.corked = state.corked + 1 /\ Keeps({"corked"}) /\ state'.destroyed = state.destroyed
  BY <1>1 DEF Typed, State, Fields, Keeps, WritableAssumption
<1>3. state'.corked # 0
  BY <1>1, <1>2 DEF Typed, State
<1>4. ~Has(todo, "clearBuffer")
  BY <1>1, InTheProgram
<1>5. Typed'
  BY <1>1, <1>2 DEF Typed
<1>6. Shape'
  BY <1>1, <1>2, <1>3, <1>4 DEF Shape, Keeps, Fields, Writing
<1>7. Lighter(todo', todo)
  BY <1>1, LighterSame DEF Typed
<1>8. Quiet
  BY <1>1, <1>2, <1>7, QuietIntro DEF Typed
<1>9. QED
  BY <1>5, <1>6, <1>8

\* The stack when the program calls something that carries no ids.
LEMMA ProgramCalls ==
  ASSUME Typed, Shape, Owed, InProgram, NEW op \in Frames,
         op \notin {"written", "next", "afterWrite", "callback", "callbacks", "finish", "finishMaybe"}
  PROVE  LET s == <<Do(op)>> \o todo
         IN /\ s \in Seq(Frame) /\ Stacked(s) /\ Filled(s)
            /\ ~sink.failed => Inner(s)
            /\ \A o : Has(s, o) <=> op = o \/ Has(todo, o)
            /\ Clearing(s) <=> Clearing(todo)
            /\ op # "_write" => Lighter(s, todo)
<1>1. todo \in Seq(Frame) /\ Stacked(todo) /\ Filled(todo) /\ (~sink.failed => Inner(todo) /\ ~Clearing(todo))
  BY InTheProgram DEF Typed, Shape
<1>2. Over(Do(op), todo)
  BY InTheProgram, DoTyped DEF Busy, Owing
<1>3. op # "_write" => Lighter(<<Do(op)>> \o todo, todo)
  BY <1>1, LighterCall
<1>4. QED
  BY <1>1, <1>2, <1>3, DoCons DEF Busy

\* uncork() is one: the buffer is cleared only when it must be.
LEMMA UncorkStep ==
  ASSUME WritableAssumption, Typed, Shape, Owed, Uncork
  PROVE  Typed' /\ Shape' /\ Quiet
<1>1. /\ UNCHANGED <<options, ticks, chunks, accepted, given, answered, called, sink>>
      /\ state' = [state EXCEPT !.corked = state.corked - 1] /\ state.corked > 0
      /\ InProgram
      /\ todo' = IF MustClear(state') THEN <<Do("clearBuffer")>> \o todo ELSE todo
  BY DEF Uncork, history, Call
<1>2. State(state') /\ Keeps({"corked"}) /\ state'.destroyed = state.destroyed
  <2>1. state.corked - 1 \in 0..MaxCorks
    <3>1. state.corked \in 0..MaxCorks /\ state.corked > 0 /\ MaxCorks \in Nat
      BY <1>1 DEF Typed, State, WritableAssumption
    <3>2. QED
      BY <3>1
  <2>2. QED
    BY <1>1, <2>1 DEF Typed, State, Fields, Keeps
<1>3. ~Has(todo, "clearBuffer") /\ ~Has(todo, "_write")
  BY <1>1, InTheProgram
<1>4. CASE MustClear(state')
  <2>1. todo' = <<Do("clearBuffer")>> \o todo
    BY <1>1, <1>4
  <2>2. /\ todo' \in Seq(Frame) /\ Stacked(todo') /\ Filled(todo')
        /\ ~sink.failed => Inner(todo')
        /\ \A o : Has(todo', o) <=> "clearBuffer" = o \/ Has(todo, o)
        /\ Clearing(todo') <=> Clearing(todo)
        /\ Lighter(todo', todo)
    BY <1>1, <2>1, ProgramCalls DEF Frames
  <2>3. Typed'
    BY <1>1, <1>2, <2>2 DEF Typed
  <2>4. Shape'
    BY <1>1, <1>2, <1>3, <1>4, <2>2 DEF Shape, Keeps, Fields, Writing
  <2>5. Quiet
    BY <1>1, <1>2, <2>2, QuietIntro DEF Typed
  <2>6. QED
    BY <2>3, <2>4, <2>5
<1>5. CASE ~MustClear(state')
  <2>1. todo' = todo
    BY <1>1, <1>5
  <2>2. Typed'
    BY <1>1, <1>2, <2>1 DEF Typed
  <2>3. Shape'
    BY <1>1, <1>2, <1>3, <1>5, <2>1 DEF Shape, Keeps, Fields, Writing, MustClear
  <2>4. Lighter(todo', todo)
    BY <2>1, LighterSame DEF Typed
  <2>5. Quiet
    BY <1>1, <1>2, <2>4, QuietIntro DEF Typed
  <2>6. QED
    BY <2>2, <2>3, <2>5
<1>6. QED
  BY <1>4, <1>5

\* destroy() is one.
LEMMA DestroyStep ==
  ASSUME Typed, Shape, Owed, Destroy
  PROVE  Typed' /\ Shape' /\ Quiet
<1>1. /\ UNCHANGED <<options, todo, ticks, chunks, accepted, given, answered, called, sink>>
      /\ state' = [state EXCEPT !.destroyed = TRUE]
  BY DEF Destroy, history
<1>2. State(state') /\ state'.destroyed = TRUE /\ Keeps({"destroyed"})
  BY <1>1 DEF Typed, State, Fields, Keeps
<1>3. Typed'
  BY <1>1, <1>2 DEF Typed
<1>4. Shape'
  BY <1>1, <1>2 DEF Shape, Keeps, Fields, Writing, MustClear
<1>5. Lighter(todo', todo)
  BY <1>1, LighterSame DEF Typed
<1>6. Quiet
  BY <1>1, <1>2, <1>5, QuietIntro DEF Typed
<1>7. QED
  BY <1>3, <1>4, <1>6

\* end() is one: it uncorks all the way.
LEMMA EndStep ==
  ASSUME WritableAssumption, Typed, Shape, Owed, End
  PROVE  Typed' /\ Shape' /\ Quiet
<1> DEFINE clears == state.corked > 0 /\ MustClear(state')
           s == <<Do("endWritable")>> \o todo
<1>1. /\ UNCHANGED <<options, ticks, chunks, accepted, given, answered, called, sink>>
      /\ state' = [state EXCEPT !.corked = 0]
      /\ InProgram
      /\ todo' = ((IF clears THEN <<Do("clearBuffer")>> ELSE << >>) \o <<Do("endWritable")>>) \o todo
  BY DEF End, history, Call
<1>2. State(state') /\ Keeps({"corked"}) /\ state'.corked = 0 /\ state'.destroyed = state.destroyed
  BY <1>1 DEF Typed, State, Fields, Keeps, WritableAssumption
<1>3. ~Has(todo, "clearBuffer") /\ ~Has(todo, "_write")
  BY <1>1, InTheProgram
<1>4. Do("clearBuffer") \in Frame /\ Do("endWritable") \in Frame /\ todo \in Seq(Frame)
      /\ Do("clearBuffer").op = "clearBuffer" /\ Do("endWritable").op = "endWritable"
  BY DoTyped DEF Frames, Typed
<1>5. /\ s \in Seq(Frame) /\ Stacked(s) /\ Filled(s)
      /\ ~sink.failed => Inner(s) /\ ~Clearing(s)
      /\ \A o : Has(s, o) <=> "endWritable" = o \/ Has(todo, o)
      /\ Clearing(s) <=> Clearing(todo)
      /\ Lighter(s, todo)
  BY <1>1, ProgramCalls, InTheProgram DEF Frames
<1> HIDE DEF s, clears
<1>6. CASE clears
  <2>1. todo' = <<Do("clearBuffer")>> \o s
    <3>1. todo' = (<<Do("clearBuffer")>> \o <<Do("endWritable")>>) \o todo
      BY <1>1, <1>6
    <3>2. <<Do("clearBuffer")>> \in Seq(Frame) /\ <<Do("endWritable")>> \in Seq(Frame)
      BY <1>4
    <3>3. QED
      BY <1>4, <3>1, <3>2, ConcatAssociative DEF s
  <2>2. Over(Do("clearBuffer"), s)
    <3>1. Over(Do("clearBuffer"), todo)
      BY <1>1, <1>4, InTheProgram DEF Busy, Owing
    <3>2. Above(Do("clearBuffer"), Do("endWritable"))
      BY <1>4 DEF Above, Busy, Owing
    <3>3. QED
      BY <1>4, <3>1, <3>2, OverCons DEF s
  <2>3. /\ todo' \in Seq(Frame) /\ Stacked(todo') /\ Filled(todo')
        /\ ~sink.failed => Inner(todo')
        /\ \A o : Has(todo', o) <=> "clearBuffer" = o \/ Has(s, o)
        /\ Clearing(todo') <=> Clearing(s)
        /\ Lighter(todo', s)
    BY <1>5, <2>1, <2>2, DoCons, LighterCall DEF Frames, Busy
  <2>4. Lighter(todo', todo)
    BY <1>5, <2>3, LighterTwice
  <2>5. Typed'
    BY <1>1, <1>2, <2>3 DEF Typed
  <2>6. Shape'
    BY <1>1, <1>2, <1>3, <1>5, <1>6, <2>3 DEF Shape, Keeps, Fields, Writing, clears
  <2>7. Quiet
    BY <1>1, <1>2, <2>4, QuietIntro DEF Typed
  <2>8. QED
    BY <2>5, <2>6, <2>7
<1>7. CASE ~clears
  <2>1. todo' = s
    <3>1. todo' = (<< >> \o <<Do("endWritable")>>) \o todo
      BY <1>1, <1>7
    <3>2. << >> \o <<Do("endWritable")>> = <<Do("endWritable")>>
      BY <1>4
    <3>3. QED
      BY <3>1, <3>2 DEF s
  <2>2. Typed'
    BY <1>1, <1>2, <1>5, <2>1 DEF Typed
  <2>3. state.corked = 0 \/ ~MustClear(state')
    BY <1>7 DEF clears, Typed, State
  <2>4. Shape'
    BY <1>1, <1>2, <1>3, <1>5, <2>1, <2>3 DEF Shape, Keeps, Fields, Writing, MustClear
  <2>5. Quiet
    BY <1>1, <1>2, <1>5, <2>1, QuietIntro DEF Typed
  <2>6. QED
    BY <2>2, <2>4, <2>5
<1>8. QED
  BY <1>6, <1>7

Light == Frames \ {"_write", "clearBuffer", "written", "next", "afterWrite", "callback", "callbacks"}
Well(s) ==
  /\ Stacked(s) /\ Filled(s) /\ ~Has(s, "_write") /\ ~Has(s, "clearBuffer")
  /\ ~sink.failed => Inner(s) /\ ~Clearing(s)
  /\ Lighter(s, todo)

\* The stack when such a call returns,
LEMMA WellReturn ==
  ASSUME Typed, Shape, Owed, todo # << >>, todo[1].op \in Light
  PROVE  Well(Tail(todo)) /\ << >> \o Tail(todo) = Tail(todo)
<1>1. todo[1].op \notin {"_write", "clearBuffer", "written", "next", "afterWrite", "callback", "callbacks"}
  BY DEF Light
<1>2. Lighter(Tail(todo), todo)
  BY <1>1, LighterReturn
<1>3. << >> \o Tail(todo) = Tail(todo)
  BY Several, Popped
<1>4. QED
  BY <1>1, <1>2, <1>3, Popped DEF Well

\* when it makes another one in its place,
LEMMA WellInstead ==
  ASSUME Typed, Shape, Owed, todo # << >>, todo[1].op \in Light,
         NEW op \in Light,
         op \in {"finish", "finishMaybe"} => todo[1].op \in {"finish", "finishMaybe"} \/ ~Has(todo, "finish")
  PROVE  /\ Well(<<Do(op)>> \o Tail(todo))
         /\ \A o : Has(<<Do(op)>> \o Tail(todo), o) <=> op = o \/ Has(Tail(todo), o)
<1> DEFINE f == todo[1]
           r == Tail(todo)
           s == <<Do(op)>> \o r
<1>1. Well(r)
  BY WellReturn
<1>2. r \in Seq(Frame) /\ f \in Frame /\ Over(f, r) /\ (Has(r, "finish") => Has(todo, "finish"))
  BY Popped
<1>3. op \in Frames /\ Do(op) \in Frame /\ Do(op).op = op
  BY DoTyped DEF Light
<1>4. Over(Do(op), r)
  BY <1>2, <1>3, OverInstead DEF Light, Busy, Owing
<1> HIDE DEF f, r
<1>5. /\ s \in Seq(Frame) /\ Stacked(s) /\ Filled(s) /\ ~Has(s, "_write") /\ ~Has(s, "clearBuffer")
      /\ ~sink.failed => Inner(s) /\ ~Clearing(s)
      /\ \A o : Has(s, o) <=> op = o \/ Has(r, o)
  BY <1>1, <1>2, <1>3, <1>4, DoCons DEF Well, Light, Busy
<1>6. Lighter(s, r)
  BY <1>2, LighterCall DEF Light
<1>7. Lighter(s, todo)
  BY <1>1, <1>6, LighterTwice DEF Well
<1>8. QED
  BY <1>5, <1>7 DEF Well, r

\* and when a listener is called on top of that.
LEMMA WellListener ==
  ASSUME Typed, Shape, Owed, todo # << >>, todo[1].op \in Light,
         NEW op \in Light,
         op \in {"finish", "finishMaybe"} => todo[1].op \in {"finish", "finishMaybe"} \/ ~Has(todo, "finish")
  PROVE  /\ Well(<<Do("program"), Do(op)>> \o Tail(todo))
         /\ \A o : Has(<<Do("program"), Do(op)>> \o Tail(todo), o) <=> o \in {"program", op} \/ Has(Tail(todo), o)
<1> DEFINE f == todo[1]
           r == Tail(todo)
           s == <<Do(op)>> \o r
           t == <<Do("program")>> \o s
<1>1. Well(s) /\ \A o : Has(s, o) <=> op = o \/ Has(r, o)
  BY WellInstead
<1>2. r \in Seq(Frame) /\ f \in Frame /\ Over(f, r)
  BY Popped
<1>3. /\ op \in Frames /\ Do(op) \in Frame /\ Do(op).op = op
      /\ "program" \in Frames /\ Do("program") \in Frame /\ Do("program").op = "program"
  BY DoTyped DEF Light, Frames
<1>4. Over(Do("program"), s)
  <2>1. Over(Do("program"), r)
    BY <1>2, <1>3, OverInstead DEF Busy, Owing
  <2>2. Above(Do("program"), Do(op))
    BY <1>3 DEF Above, Light, Busy, Owing
  <2>3. QED
    BY <1>2, <1>3, <2>1, <2>2, OverCons
<1> HIDE DEF f, r, s
<1>5. s \in Seq(Frame)
  BY <1>1 DEF Well, Lighter
<1>6. /\ t \in Seq(Frame) /\ Stacked(t) /\ Filled(t) /\ ~Has(t, "_write") /\ ~Has(t, "clearBuffer")
      /\ ~sink.failed => Inner(t) /\ ~Clearing(t)
      /\ \A o : Has(t, o) <=> "program" = o \/ Has(s, o)
  BY <1>1, <1>3, <1>4, <1>5, DoCons DEF Well, Busy
<1>7. Lighter(t, s)
  BY <1>3, <1>5, LighterCall
<1>8. Lighter(t, todo)
  BY <1>1, <1>7, LighterTwice DEF Well
<1>9. t = <<Do("program"), Do(op)>> \o r
  BY <1>2, <1>3, Several DEF s
<1>10. QED
  BY <1>1, <1>6, <1>8, <1>9 DEF Well, r

\* A step with such a stack that corks and clears nothing.
LEMMA WellStep ==
  ASSUME Typed, Shape, Owed, Well(todo'), ~Has(todo, "clearBuffer"), State(state'),
         Keeps({"needDrain", "pendingcb", "ending", "prefinished", "finalCalled", "finished", "destroyed"}),
         state'.pendingcb >= state.pendingcb, state.destroyed => state'.destroyed,
         UNCHANGED <<options, ticks, chunks, accepted, given, answered, called>>,
         sink'.failed = sink.failed, sink' \in [failed : BOOLEAN, sync : BOOLEAN, finishes : Nat]
  PROVE  Typed' /\ Shape' /\ Quiet
<1>1. /\ Lighter(todo', todo) /\ todo' \in Seq(Frame)
      /\ Stacked(todo') /\ Filled(todo') /\ ~Has(todo', "_write") /\ ~Has(todo', "clearBuffer")
      /\ ~sink.failed => Inner(todo') /\ ~Clearing(todo')
      /\ Clearing(todo') <=> Clearing(todo)
  BY DEF Well, Lighter
<1>2. Typed'
  BY <1>1 DEF Typed
<1>3. state'.buffer = state.buffer /\ state'.writecb = state.writecb /\ state'.corked = state.corked
      /\ state'.bufferProcessing = state.bufferProcessing
  BY DEF Keeps, Fields
<1>4. Shape'
  BY <1>1, <1>3 DEF Shape, Writing, Typed, State
<1>5. Keeps({"corked", "needDrain", "pendingcb", "ending", "prefinished", "finalCalled", "finished", "destroyed"})
  BY DEF Keeps
<1>6. Quiet
  BY <1>1, <1>5 DEF Quiet
<1>7. QED
  BY <1>2, <1>4, <1>6

\* clearBuffer() is called by nothing but the innermost call.
LEMMA NothingClears ==
  ASSUME Typed, Shape, Owed, todo # << >>, todo[1].op # "clearBuffer"
  PROVE  ~Has(todo, "clearBuffer")
BY Popped

\* endWritable() is one.
LEMMA EndWritableStep ==
  ASSUME Typed, Shape, Owed, Finishing, EndWritable
  PROVE  Typed' /\ Shape' /\ Quiet
<1>1. /\ todo # << >> /\ todo[1].op = "endWritable"
      /\ UNCHANGED <<options, ticks, chunks, accepted, given, answered, called, sink>>
      /\ state' = [state EXCEPT !.ending = TRUE]
      /\ todo' = IF state.ending THEN << >> \o Tail(todo) ELSE <<Do("finishMaybe")>> \o Tail(todo)
  BY DEF EndWritable, At, Then, history
<1>2. /\ State(state') /\ state'.destroyed = state.destroyed /\ state'.pendingcb >= state.pendingcb
      /\ Keeps({"needDrain", "pendingcb", "ending", "prefinished", "finalCalled", "finished", "destroyed"})
  BY <1>1 DEF Typed, State, Fields, Keeps
<1>3. todo[1].op \in Light
  BY <1>1 DEF Light, Frames
<1>4. Well(todo')
  <2>1. CASE state.ending
    BY <1>1, <1>3, <2>1, WellReturn
  <2>2. CASE ~state.ending
    <3>1. ~Has(todo, "finish")
      BY <2>2 DEF Finishing, Closed
    <3>2. "finishMaybe" \in Light
      BY DEF Light, Frames
    <3>3. Well(<<Do("finishMaybe")>> \o Tail(todo))
      BY <1>1, <1>3, <3>1, <3>2, WellInstead
    <3>4. QED
      BY <1>1, <2>2, <3>3
  <2>3. QED
    BY <2>1, <2>2
<1>5. ~Has(todo, "clearBuffer")
  BY <1>1, NothingClears
<1>6. sink' \in [failed : BOOLEAN, sync : BOOLEAN, finishes : Nat]
  BY <1>1 DEF Typed
<1>7. QED
  BY <1>1, <1>2, <1>4, <1>5, <1>6, WellStep

\* finishMaybe() is one: it may count one callback more.
LEMMA FinishMaybeStep ==
  ASSUME Typed, Shape, Owed, FinishMaybe
  PROVE  Typed' /\ Shape' /\ Quiet
<1> DEFINE needed == NeedFinish(state) /\ ~state.prefinished /\ ~state.finalCalled
           final  == options.final /\ ~state.destroyed
<1>1. /\ todo # << >> /\ todo[1].op = "finishMaybe"
      /\ UNCHANGED <<options, ticks, chunks, accepted, given, answered, called, sink>>
      /\ state' = IF ~needed THEN state
                  ELSE IF final THEN [state EXCEPT !.pendingcb = state.pendingcb + 1, !.finalCalled = TRUE]
                  ELSE [state EXCEPT !.prefinished = TRUE]
      /\ todo' = (IF needed /\ ~final THEN <<Do("program"), Do("finish")>>
                  ELSE IF NeedFinish(state) THEN <<Do("finish")>> ELSE << >>) \o Tail(todo)
  BY DEF FinishMaybe, At, Then, history
<1> HIDE DEF needed, final
<1>2. /\ State(state') /\ state'.destroyed = state.destroyed /\ state'.pendingcb >= state.pendingcb
      /\ Keeps({"needDrain", "pendingcb", "ending", "prefinished", "finalCalled", "finished", "destroyed"})
  <2>1. CASE ~needed
    BY <1>1, <2>1 DEF Typed, State, Fields, Keeps
  <2>2. CASE needed /\ final
    <3>1. /\ state' = [state EXCEPT !.pendingcb = state.pendingcb + 1, !.finalCalled = TRUE]
          /\ state.pendingcb \in Int /\ state.pendingcb + 1 \in Int /\ state.pendingcb + 1 >= state.pendingcb
      BY <1>1, <2>2 DEF Typed, State
    <3>2. State(state') /\ state'.destroyed = state.destroyed /\ state'.pendingcb = state.pendingcb + 1
      BY <3>1 DEF Typed, State, Fields
    <3>3. Keeps({"needDrain", "pendingcb", "ending", "prefinished", "finalCalled", "finished", "destroyed"})
      BY <3>1 DEF Typed, State, Fields, Keeps
    <3>4. QED
      BY <3>1, <3>2, <3>3
  <2>3. CASE needed /\ ~final
    BY <1>1, <2>3 DEF Typed, State, Fields, Keeps
  <2>4. QED
    BY <2>1, <2>2, <2>3
<1>3. todo[1].op \in Light /\ "finish" \in Light
  BY <1>1 DEF Light, Frames
<1>4. Well(todo')
  <2>1. CASE needed /\ ~final
    <3>1. Well(<<Do("program"), Do("finish")>> \o Tail(todo))
      BY <1>1, <1>3, WellListener
    <3>2. QED
      BY <1>1, <2>1, <3>1
  <2>2. CASE ~(needed /\ ~final) /\ NeedFinish(state)
    <3>1. Well(<<Do("finish")>> \o Tail(todo))
      BY <1>1, <1>3, WellInstead
    <3>2. QED
      BY <1>1, <2>2, <3>1
  <2>3. CASE ~(needed /\ ~final) /\ ~NeedFinish(state)
    BY <1>1, <1>3, <2>3, WellReturn
  <2>4. QED
    BY <2>1, <2>2, <2>3
<1>5. ~Has(todo, "clearBuffer")
  BY <1>1, NothingClears
<1>6. sink' \in [failed : BOOLEAN, sync : BOOLEAN, finishes : Nat]
  BY <1>1 DEF Typed
<1>7. QED
  BY <1>1, <1>2, <1>4, <1>5, <1>6, WellStep

\* The end of finishMaybe() is one, whether "finish" is emitted or not.
LEMMA FinishStep ==
  ASSUME Typed, Shape, Owed, Finish
  PROVE  Typed' /\ Shape' /\ Quiet
<1>1. /\ todo # << >> /\ todo[1].op = "finish"
      /\ UNCHANGED <<options, ticks, chunks, accepted, given, answered, called>>
  BY DEF Finish, At
<1>3. todo[1].op \in Light /\ "finished" \in Light
  BY <1>1 DEF Light, Frames
<1>5. ~Has(todo, "clearBuffer")
  BY <1>1, NothingClears
<1>6. CASE FinishReady(state)
  <2>1. /\ state' = [state EXCEPT !.finished = TRUE]
        /\ sink' = [sink EXCEPT !.finishes = sink.finishes + 1]
        /\ todo' = <<Do("program"), Do("finished")>> \o Tail(todo)
    BY <1>6 DEF Finish, Then
  <2>2. /\ State(state') /\ state'.destroyed = state.destroyed /\ state'.pendingcb >= state.pendingcb
        /\ Keeps({"needDrain", "pendingcb", "ending", "prefinished", "finalCalled", "finished", "destroyed"})
    BY <2>1 DEF Typed, State, Fields, Keeps
  <2>3. Well(todo')
    BY <1>1, <1>3, <2>1, WellListener
  <2>4. sink' \in [failed : BOOLEAN, sync : BOOLEAN, finishes : Nat] /\ sink'.failed = sink.failed
    <3>1. sink \in [failed : BOOLEAN, sync : BOOLEAN, finishes : Nat] /\ sink.finishes + 1 \in Nat
      BY DEF Typed
    <3>2. QED
      BY <2>1, <3>1
  <2>5. QED
    BY <1>1, <1>5, <2>2, <2>3, <2>4, WellStep
<1>7. CASE ~FinishReady(state)
  <2>1. UNCHANGED <<state, sink>> /\ todo' = << >> \o Tail(todo)
    BY <1>7 DEF Finish, Then
  <2>2. /\ State(state') /\ state'.destroyed = state.destroyed /\ state'.pendingcb >= state.pendingcb
        /\ Keeps({"needDrain", "pendingcb", "ending", "prefinished", "finalCalled", "finished", "destroyed"})
    BY <2>1 DEF Typed, State, Fields, Keeps
  <2>3. Well(todo')
    BY <1>1, <1>3, <2>1, WellReturn
  <2>4. sink' \in [failed : BOOLEAN, sync : BOOLEAN, finishes : Nat] /\ sink'.failed = sink.failed
    BY <2>1 DEF Typed
  <2>5. QED
    BY <1>1, <1>5, <2>2, <2>3, <2>4, WellStep
<1>8. QED
  BY <1>6, <1>7

\* What follows "finish" is one.
LEMMA FinishedStep ==
  ASSUME WritableAssumption, Typed, Shape, Owed, Finished
  PROVE  Typed' /\ Shape' /\ Quiet
<1>1. /\ todo # << >> /\ todo[1].op = "finished"
      /\ UNCHANGED <<options, ticks, chunks, accepted, given, answered, called, sink>>
      /\ state' = [state EXCEPT !.destroyed = state.destroyed \/ options.autoDestroy]
      /\ todo' = << >> \o Tail(todo)
  BY DEF Finished, At, Then, history
<1>2. /\ State(state') /\ (state.destroyed => state'.destroyed) /\ state'.pendingcb >= state.pendingcb
      /\ Keeps({"needDrain", "pendingcb", "ending", "prefinished", "finalCalled", "finished", "destroyed"})
  <2>1. options.autoDestroy \in BOOLEAN /\ (state.destroyed \/ options.autoDestroy) \in BOOLEAN
    BY DEF Typed, WritableAssumption
  <2>2. QED
    BY <1>1, <2>1 DEF Typed, State, Fields, Keeps
<1>3. todo[1].op \in Light
  BY <1>1 DEF Light, Frames
<1>4. Well(todo')
  BY <1>1, <1>3, WellReturn
<1>5. ~Has(todo, "clearBuffer")
  BY <1>1, NothingClears
<1>6. sink' \in [failed : BOOLEAN, sync : BOOLEAN, finishes : Nat]
  BY <1>1 DEF Typed
<1>7. QED
  BY <1>1, <1>2, <1>4, <1>5, <1>6, WellStep

\* errorOrDestroy() is one.
LEMMA ErrorStep ==
  ASSUME Typed, Shape, Owed, Error
  PROVE  Typed' /\ Shape' /\ Quiet
<1>1. /\ todo # << >> /\ todo[1].op = "error"
      /\ UNCHANGED <<options, ticks, chunks, accepted, given, answered, called, sink>>
      /\ state' = IF options.autoDestroy THEN [state EXCEPT !.destroyed = TRUE] ELSE state
      /\ todo' = IF options.autoDestroy THEN << >> \o Tail(todo) ELSE <<Do("program")>> \o Tail(todo)
  BY DEF Error, At, Then, history
<1>2. /\ State(state') /\ (state.destroyed => state'.destroyed) /\ state'.pendingcb >= state.pendingcb
      /\ Keeps({"needDrain", "pendingcb", "ending", "prefinished", "finalCalled", "finished", "destroyed"})
  <2>1. CASE options.autoDestroy
    BY <1>1, <2>1 DEF Typed, State, Fields, Keeps
  <2>2. CASE ~options.autoDestroy
    BY <1>1, <2>2 DEF Typed, State, Fields, Keeps
  <2>3. QED
    BY <2>1, <2>2
<1>3. todo[1].op \in Light /\ "program" \in Light
  BY <1>1 DEF Light, Frames
<1>4. Well(todo')
  <2>1. Well(<< >> \o Tail(todo))
    BY <1>1, <1>3, WellReturn
  <2>2. Well(<<Do("program")>> \o Tail(todo))
    BY <1>1, <1>3, WellInstead
  <2>3. QED
    BY <1>1, <2>1, <2>2
<1>5. ~Has(todo, "clearBuffer")
  BY <1>1, NothingClears
<1>6. sink' \in [failed : BOOLEAN, sync : BOOLEAN, finishes : Nat]
  BY <1>1 DEF Typed
<1>7. QED
  BY <1>1, <1>2, <1>4, <1>5, <1>6, WellStep

\* afterWrite() goes on to its callbacks, "drain" first or not.
LEMMA AfterDrainStep ==
  ASSUME Typed, Shape, Owed, AfterDrain
  PROVE  Typed' /\ Shape' /\ Quiet
<1> DEFINE f == todo[1]
           g == [f EXCEPT !.op = "callback"]
           r == Tail(todo)
           s == <<g>> \o r
           t == <<Do("program")>> \o s
<1>1. /\ todo # << >> /\ f.op = "afterWrite"
      /\ UNCHANGED <<options, ticks, chunks, accepted, given, answered, called, sink>>
      /\ state' = IF Drains(f) THEN [state EXCEPT !.needDrain = FALSE] ELSE state
      /\ todo' = ((IF Drains(f) THEN <<Do("program")>> ELSE << >>) \o <<g>>) \o r
  BY DEF AfterDrain, At, Then, history
<1>2. /\ State(state') /\ state'.destroyed = state.destroyed /\ state'.pendingcb >= state.pendingcb
      /\ Keeps({"needDrain", "pendingcb", "ending", "prefinished", "finalCalled", "finished", "destroyed"})
  <2>1. CASE Drains(f)
    <3>1. state' = [state EXCEPT !.needDrain = FALSE]
      BY <1>1, <2>1
    <3>2. QED
      BY <3>1 DEF Typed, State, Fields, Keeps
  <2>2. CASE ~Drains(f)
    <3>1. state' = state
      BY <1>1, <2>2
    <3>2. QED
      BY <3>1 DEF Typed, State, Fields, Keeps
  <2>3. QED
    BY <2>1, <2>2
<1>3. /\ f \in Frame /\ r \in Seq(Frame) /\ todo = <<f>> \o r
      /\ Stacked(r) /\ Over(f, r) /\ Filled(r) /\ ~Has(r, "_write") /\ ~Has(r, "clearBuffer")
      /\ ~sink.failed => Inner(r) /\ ~Clearing(r)
      /\ f.ids # << >>
  BY <1>1, Popped
<1>4. g \in Frame /\ g.op = "callback" /\ g.ids = f.ids /\ g.writev = f.writev
  BY <1>3 DEF Frame, Frames
<1>5. Over(g, r)
  BY <1>1, <1>3, <1>4, OverInstead DEF Busy, Owing
<1>6. Do("program") \in Frame /\ Do("program").op = "program" /\ "program" \in Frames
  BY DoTyped DEF Frames
<1> HIDE DEF f, g, r
<1>7. /\ s \in Seq(Frame) /\ Stacked(s) /\ Filled(s) /\ ~Has(s, "_write") /\ ~Has(s, "clearBuffer")
      /\ ~sink.failed => Inner(s) /\ ~Clearing(s)
  BY <1>3, <1>4, <1>5, Cons DEF Busy
<1>8. Lighter(s, todo)
  <2>1. /\ \A op \in {"_write", "written", "next"} : Has(s, op) <=> Has(todo, op)
        /\ Clearing(s) <=> Clearing(todo)
    BY <1>1, <1>3, <1>4, Cons DEF Busy
  <2>2. IdsIn(s) = Range(f.ids) \cup IdsIn(r) /\ IdsIn(todo) = Range(f.ids) \cup IdsIn(r)
    BY <1>3, <1>4, Cons
  <2>3. /\ Distinct(todo) => Distinct(s)
        /\ Rising(todo) => Rising(s)
    BY <1>3, <1>4, Cons
  <2>4. Batched(s) <=> Batched(todo)
    BY <1>1, <1>3, <1>4, Cons
  <2>5. SettledIn(s) = SettledIn(r) /\ SettledIn(todo) = SettledIn(r)
    <3>1. /\ SettledIn(<<f>> \o r) =
               (IF f.op = "callbacks" /\ ~f.writev THEN Range(f.ids) ELSE {}) \cup SettledIn(r)
          /\ SettledIn(<<g>> \o r) =
               (IF g.op = "callbacks" /\ ~g.writev THEN Range(g.ids) ELSE {}) \cup SettledIn(r)
      BY <1>3, <1>4, Cons, Zenon
    <3>2. QED
      BY <1>1, <1>3, <1>4, <3>1
  <2>6. Bearings(todo, Range(accepted), answered) => Bearings(s, Range(accepted), answered)
    <3>1. Bears(f, Range(accepted), answered) => Bears(g, Range(accepted), answered)
      BY <1>1, <1>4 DEF Bears, Bearing
    <3>2. QED
      BY <1>3, <1>4, <3>1, Cons
  <2>7. QED
    BY <1>7, <2>1, <2>2, <2>3, <2>4, <2>5, <2>6 DEF Lighter
<1>9. Well(s)
  BY <1>7, <1>8 DEF Well
<1>10. Well(t)
  <2>1. Over(Do("program"), s)
    <3>1. Over(Do("program"), r)
      BY <1>1, <1>3, <1>6, OverInstead DEF Busy, Owing
    <3>2. Above(Do("program"), g)
      BY <1>4, <1>6 DEF Above, Busy, Owing
    <3>3. QED
      BY <1>3, <1>4, <1>6, <3>1, <3>2, OverCons
  <2> HIDE DEF s
  <2>2. /\ t \in Seq(Frame) /\ Stacked(t) /\ Filled(t) /\ ~Has(t, "_write") /\ ~Has(t, "clearBuffer")
        /\ ~sink.failed => Inner(t) /\ ~Clearing(t)
    BY <1>6, <1>7, <2>1, DoCons DEF Busy
  <2>3. Lighter(t, s)
    BY <1>6, <1>7, LighterCall
  <2>4. Lighter(t, todo)
    BY <1>8, <2>3, LighterTwice
  <2>5. QED
    BY <2>2, <2>4 DEF Well
<1>11. Well(todo')
  <2>1. CASE Drains(f)
    <3>1. todo' = (<<Do("program")>> \o <<g>>) \o r
      BY <1>1, <2>1
    <3>2. <<Do("program")>> \in Seq(Frame) /\ <<g>> \in Seq(Frame)
      BY <1>4, <1>6
    <3>3. todo' = t
      BY <1>3, <3>1, <3>2, ConcatAssociative
    <3>4. QED
      BY <1>10, <3>3
  <2>2. CASE ~Drains(f)
    <3>1. todo' = (<< >> \o <<g>>) \o r
      BY <1>1, <2>2
    <3>2. << >> \o <<g>> = <<g>>
      BY <1>4
    <3>3. QED
      BY <1>9, <3>1, <3>2
  <2>3. QED
    BY <2>1, <2>2
<1>12. ~Has(todo, "clearBuffer")
  BY <1>1, NothingClears DEF f
<1>13. sink' \in [failed : BOOLEAN, sync : BOOLEAN, finishes : Nat]
  BY <1>1 DEF Typed
<1>14. QED
  BY <1>1, <1>2, <1>11, <1>12, <1>13, WellStep

-----------------------------------------------------------------------------
(* They keep what is said of chunks and callbacks.                         *)

\* They leave the buffer and the write in progress alone,
LEMMA QuietFacts ==
  ASSUME Quiet
  PROVE  /\ state'.buffer = state.buffer /\ state'.writecb = state.writecb
         /\ state'.length = state.length /\ Rest' = Rest /\ InHand' = InHand
         /\ Writing(state') <=> Writing(state)
         /\ Has(todo', "_write") <=> Has(todo, "_write")
         /\ Has(todo', "written") <=> Has(todo, "written")
<1>1. /\ state'.buffer = state.buffer /\ state'.writecb = state.writecb /\ state'.length = state.length
      /\ Has(todo', "_write") <=> Has(todo, "_write")
      /\ Has(todo', "written") <=> Has(todo, "written")
      /\ Has(todo', "next") <=> Has(todo, "next")
  BY DEF Quiet, Keeps, Fields, Lighter
<1>2. QED
  BY <1>1 DEF Rest, InHand, Writing

\* and so every chunk where it is,
LEMMA QuietPlaced ==
  ASSUME Quiet, Placed PROVE Placed'
BY QuietFacts DEF Placed, Quiet, Ids

\* every callback borne once,
LEMMA QuietOwed ==
  ASSUME Quiet, Owed PROVE Owed'
<1>1. /\ IdsIn(todo') \subseteq IdsIn(todo) /\ Distinct(todo')
      /\ Bearings(todo', Range(accepted), answered)
  BY DEF Quiet, Lighter, Owed
<1>2. UNCHANGED <<ticks, chunks, accepted, answered, called>>
  BY DEF Quiet
<1>3. QED
  BY <1>1, <1>2 DEF Owed, Ids

\* the chunks in order,
LEMMA QuietOrdered ==
  ASSUME Quiet, Ordered PROVE Ordered'
<1>1. /\ UNCHANGED <<chunks, accepted, given, answered>> /\ sink'.failed = sink.failed
      /\ state.destroyed => state'.destroyed
  BY DEF Quiet
<1>2. QED
  BY <1>1, QuietFacts DEF Ordered

\* the callbacks in order,
LEMMA QuietCallsOrdered ==
  ASSUME Quiet, CallsOrdered PROVE CallsOrdered'
<1>1. /\ UNCHANGED <<ticks, answered, called>> /\ sink'.failed = sink.failed
      /\ state.destroyed => state'.destroyed
      /\ Rising(todo) => Rising(todo')
      /\ IdsIn(todo') \subseteq IdsIn(todo)
  BY DEF Quiet, Lighter
<1>2. Increasing(Rest)' /\ Increasing(state.writecb.ids)'
  BY QuietFacts DEF CallsOrdered
<1>3. ASSUME ~sink.failed
      PROVE  /\ Before(answered, Range(state.writecb.ids))' /\ Before(answered, Range(Rest))'
             /\ (~(Has(todo, "_write") /\ state.destroyed) => Before(Range(state.writecb.ids), Range(Rest)))'
             /\ Rising(todo)' /\ Rising(ticks)'
             /\ (IdsIn(ticks) \cap answered = {})'
             /\ (\A m, n \in DOMAIN called : m < n /\ {called[m], called[n]} \subseteq answered => called[m] < called[n])'
  BY <1>1, <1>3, QuietFacts DEF CallsOrdered
<1>4. ASSUME ~sink.failed
      PROVE  Before(Range(called) \cap answered, IdsIn(todo) \cap answered)'
  BY <1>1, <1>4 DEF CallsOrdered, Before
<1>5. QED
  BY <1>1, <1>2, <1>3, <1>4 DEF CallsOrdered

\* There are finitely many open writes.
LEMMA UncalledFinite ==
  ASSUME Typed, Placed
  PROVE  IsFiniteSet(Uncalled) /\ Cardinality(Uncalled) \in Nat
<1>1. IsFiniteSet(Ids)
  <2>1. Len(chunks) \in Int
    BY DEF Typed
  <2>2. QED
    BY <2>1, FS_Interval DEF Ids
<1>2. Uncalled \subseteq Ids
  BY DEF Uncalled, Placed
<1>3. QED
  BY <1>1, <1>2, FS_Subset, FS_CardinalityType

\* and the count of callbacks at least what is owed.
LEMMA QuietCounted ==
  ASSUME Typed, Typed', Placed, Quiet, Counted PROVE Counted'
<1>1. /\ Uncalled' = Uncalled /\ (Batched(todo') <=> Batched(todo))
      /\ state'.pendingcb >= state.pendingcb
      /\ state'.pendingcb \in Int /\ state.pendingcb \in Int
  BY DEF Quiet, Lighter, Uncalled, Typed, State
<1>2. /\ One(Has(todo', "written")) = One(Has(todo, "written"))
      /\ One(state'.writecb.writev) = One(state.writecb.writev)
      /\ One(Batched(todo')) = One(Batched(todo))
  BY <1>1, QuietFacts DEF One
<1>3. One(Has(todo, "written")) \in Nat /\ One(state.writecb.writev) \in Nat /\ One(Batched(todo)) \in Nat
  BY DEF One
<1>4. (state.pendingcb \in Nat)'
  BY <1>1 DEF Counted
<1>5. (state.pendingcb + One(Has(todo, "written"))
         >= Cardinality(Uncalled) + One(state.writecb.writev) + One(Batched(todo)))'
  <2> DEFINE x == Cardinality(Uncalled) + One(state.writecb.writev) + One(Batched(todo))
  <2>2. x' = x
    BY <1>1, <1>2
  <2>3. state.pendingcb + One(Has(todo, "written")) >= x
    BY DEF Counted
  <2>4. x \in Int
    BY <1>3, UncalledFinite
  <2> HIDE DEF x
  <2>5. (state.pendingcb + One(Has(todo, "written")))' >= x'
    BY <1>1, <1>2, <1>3, <2>2, <2>3, <2>4
  <2>6. QED
    BY <2>5 DEF x
<1>6. (Has(todo, "written") => \E i \in Uncalled : state.writecb.writev \/ i \notin Range(state.writecb.ids))'
  BY <1>1, QuietFacts DEF Counted
<1>7. QED
  BY <1>4, <1>5, <1>6 DEF Counted

-----------------------------------------------------------------------------
(* Steps that move chunks or callbacks.                                    *)

\* What waits behind the entries in hand.
LEMMA RestFacts ==
  ASSUME Typed, Shape
  PROVE  /\ Rest \in Seq(Nat) /\ Range(Rest) \subseteq Range(state.buffer)
         /\ state.buffer \in Seq(Nat)
<1>1. state.buffer \in Seq(Nat)
  BY DEF Typed, State
<1>2. CASE Has(todo, "next")
  <2>1. state.buffer # << >>
    BY <1>2 DEF Shape, Has, Clearing, Busy
  <2>2. state.buffer = <<Head(state.buffer)>> \o Tail(state.buffer) /\ Tail(state.buffer) \in Seq(Nat)
        /\ <<Head(state.buffer)>> \in Seq(Nat)
    BY <1>1, <2>1, HeadTail, SmallFacts
  <2>3. Range(state.buffer) = Range(<<Head(state.buffer)>>) \cup Range(Tail(state.buffer))
    BY <2>2, CatFacts
  <2>4. QED
    BY <1>1, <1>2, <2>2, <2>3 DEF Rest
<1>3. CASE ~Has(todo, "next")
  BY <1>1, <1>3, SmallFacts DEF Rest
<1>4. QED
  BY <1>1, <1>2, <1>3

\* A callback that a call will call is borne by it.
LEMMA SettledIdsIn ==
  ASSUME NEW s \in Seq(Frame)
  PROVE  SettledIn(s) \subseteq IdsIn(s)
BY DEF SettledIn, IdsIn

\* A write that is open bears its callback neither on the stack nor in a tick.
LEMMA OpenFacts ==
  ASSUME Typed, Placed, Owed, NEW i \in Range(accepted) \ answered
  PROVE  i \notin IdsIn(todo) /\ i \notin IdsIn(ticks) /\ i \notin Range(called) /\ i \in Uncalled
<1>1. SettledIn(todo) \subseteq IdsIn(todo) /\ SettledIn(ticks) \subseteq IdsIn(ticks)
  BY SettledIdsIn DEF Typed
<1>2. i \notin IdsIn(todo) /\ i \notin IdsIn(ticks) /\ i \notin Range(called)
  BY DEF Owed
<1>3. QED
  BY <1>1, <1>2 DEF Uncalled

\* A new id.
LEMMA FreshFacts ==
  ASSUME Typed, Placed, Owed, NEW len \in Nat, chunks' = Append(chunks, len), Len(chunks) < MaxWrites,
         WritableAssumption
  PROVE  LET id == Len(chunks) + 1
         IN /\ id \in Nat /\ Ids' = Ids \cup {id} /\ id \notin Ids /\ \A i \in Ids : i < id
            /\ chunks' \in Seq(Nat) /\ Len(chunks') <= MaxWrites
            /\ id \notin Range(accepted) /\ id \notin answered
            /\ id \notin IdsIn(todo) /\ id \notin IdsIn(ticks) /\ id \notin Range(called)
<1>1. chunks \in Seq(Nat) /\ Len(chunks) \in Nat /\ MaxWrites \in Nat
  BY DEF Typed, WritableAssumption
<1>2. /\ Ids' = Ids \cup {Len(chunks) + 1} /\ Len(chunks) + 1 \notin Ids
      /\ \A i \in Ids : i < Len(chunks) + 1
      /\ chunks' \in Seq(Nat) /\ Len(chunks') <= MaxWrites /\ Len(chunks) + 1 \in Nat
  BY <1>1 DEF Ids
<1>3. Range(accepted) \subseteq Ids /\ answered \subseteq Range(accepted)
  BY DEF Placed
<1>4. IdsIn(todo) \cup IdsIn(ticks) \cup Range(called) \subseteq answered \cup (Ids \ Range(accepted))
  BY DEF Owed
<1>5. QED
  BY <1>2, <1>3, <1>4

\* onwriteStateUpdate() clears the write in progress and its length, and nothing else.
LEMMA StateUpdateFacts ==
  ASSUME NEW s, State(s), NEW d, d = StateUpdate(s)
  PROVE  /\ State(d) /\ \A f \in Fields \ {"writecb", "writelen", "length"} : d[f] = s[f]
         /\ d.writecb = None /\ ~Writing(d) /\ d.writecb.ids = << >> /\ ~d.writecb.writev
<1>1. d = [s EXCEPT !.writecb = None, !.length = s.length - s.writelen, !.writelen = 0]
  BY DEF StateUpdate
<1>2. s.length - s.writelen \in Int /\ None \in Cb
  BY NoneTyped DEF State
<1>3. State(d) /\ d.writecb = None
  BY <1>1, <1>2 DEF State, Fields
<1>4. \A f \in Fields \ {"writecb", "writelen", "length"} : d[f] = s[f]
  BY <1>1 DEF State, Fields
<1>5. QED
  BY <1>3, <1>4, NoneTyped DEF Writing

\* What an accepted write changes, buffered or not.
LEMMA AcceptFacts ==
  ASSUME WritableAssumption, Typed, Shape, Placed, Owed, NEW len \in Lens, Write(len)
  PROVE  LET id == Len(chunks) + 1
         IN /\ id \in Nat /\ Ids' = Ids \cup {id} /\ id \notin Ids /\ \A i \in Ids : i < id
            /\ chunks' \in Seq(Nat) /\ Len(chunks') <= MaxWrites
            /\ id \notin Range(accepted) /\ id \notin answered
            /\ id \notin IdsIn(todo) /\ id \notin IdsIn(ticks) /\ id \notin Range(called)
            /\ accepted' = accepted \o <<id>> /\ accepted' \in Seq(Nat)
            /\ Range(accepted') = Range(accepted) \cup {id}
            /\ len \in Nat /\ InProgram /\ ~state.ending
            /\ UNCHANGED <<options, ticks, given, answered, called, sink>>
<1>1. /\ chunks' = Append(chunks, len) /\ Len(chunks) < MaxWrites /\ len \in Nat
      /\ accepted' = Append(accepted, Len(chunks) + 1)
      /\ UNCHANGED <<options, ticks, given, answered, called, sink>>
      /\ InProgram /\ ~state.ending
  BY DEF Write, WritableAssumption
<1> DEFINE id == Len(chunks) + 1
<1>2. /\ id \in Nat /\ Ids' = Ids \cup {id} /\ id \notin Ids /\ \A i \in Ids : i < id
      /\ chunks' \in Seq(Nat) /\ Len(chunks') <= MaxWrites
      /\ id \notin Range(accepted) /\ id \notin answered
      /\ id \notin IdsIn(todo) /\ id \notin IdsIn(ticks) /\ id \notin Range(called)
  BY <1>1, FreshFacts
<1>3. accepted' = Append(accepted, id) /\ accepted \in Seq(Nat)
  BY <1>1 DEF Typed
<1> HIDE DEF id
<1>4. accepted' = accepted \o <<id>> /\ <<id>> \in Seq(Nat) /\ Range(<<id>>) = {id}
  BY <1>2, <1>3, AppendCat, SmallFacts
<1>5. accepted' \in Seq(Nat) /\ Range(accepted') = Range(accepted) \cup {id}
  <2>1. /\ accepted \o <<id>> \in Seq(Nat)
        /\ Range(accepted \o <<id>>) = Range(accepted) \cup Range(<<id>>)
    BY <1>3, <1>4, CatFacts, Zenon
  <2>2. QED
    BY <1>4, <2>1
<1>6. QED
  BY <1>1, <1>2, <1>4, <1>5 DEF id

\* What write() does to the state when it queues the chunk,
LEMMA WriteBuffers ==
  ASSUME WritableAssumption, Typed, Shape, Placed, Owed, NEW len \in Lens, Write(len), MustBuffer(state)
  PROVE  LET id == Len(chunks) + 1
         IN /\ Typed' /\ Shape' /\ todo' = todo
            /\ Rest' \in {Rest, Rest \o <<id>>}
            /\ ~Has(todo, "written") => Rest' = Rest \o <<id>>
            /\ Range(state'.buffer) = Range(state.buffer) \cup {id}
            /\ state'.pendingcb = state.pendingcb + 1
            /\ \A f \in Fields \ {"length", "pendingcb", "needDrain", "buffer"} : state'[f] = state[f]
<1> DEFINE id == Len(chunks) + 1
<1>1. /\ id \in Nat /\ chunks' \in Seq(Nat) /\ Len(chunks') <= MaxWrites
      /\ accepted' \in Seq(Nat) /\ len \in Nat /\ InProgram
      /\ UNCHANGED <<options, ticks, given, answered, called, sink>>
  BY AcceptFacts
<1>2. /\ state' = [state EXCEPT !.length = state.length + len, !.pendingcb = state.pendingcb + 1,
                     !.needDrain = state.needDrain \/ state.length + len >= options.highWaterMark,
                     !.buffer = Append(state.buffer, id)]
      /\ todo' = todo
  BY DEF Write
<1> HIDE DEF id
<1>3. State(state') /\ state'.buffer = Append(state.buffer, id) /\ state'.pendingcb = state.pendingcb + 1
  <2>1. state.length + len \in Int /\ state.pendingcb + 1 \in Int
    BY <1>1, SMTT(60) DEF Typed, State
  <2>2. Append(state.buffer, id) \in Seq(Nat)
    BY <1>1 DEF Typed, State
  <2>3. (state.needDrain \/ state.length + len >= options.highWaterMark) \in BOOLEAN
    OBVIOUS
  <2> DEFINE a == state.length + len
             b == state.pendingcb + 1
             c == Append(state.buffer, id)
             e == state.needDrain \/ state.length + len >= options.highWaterMark
  <2> HIDE DEF a, b, c, e
  <2>4. state' = [state EXCEPT !.length = a, !.pendingcb = b, !.needDrain = e, !.buffer = c]
    BY <1>2 DEF a, b, c, e
  <2>5. a \in Int /\ b \in Int /\ c \in Seq(Nat) /\ e \in BOOLEAN
    BY <2>1, <2>2, <2>3 DEF a, b, c, e
  <2>6. State(state') /\ state'.buffer = c /\ state'.pendingcb = b
    BY <2>4, <2>5 DEF Typed, State, Fields
  <2>7. QED
    BY <2>6 DEF b, c
<1>4. \A f \in Fields \ {"length", "pendingcb", "needDrain", "buffer"} : state'[f] = state[f]
  BY <1>2 DEF Typed, State, Fields
<1>5. Typed'
  BY <1>1, <1>2, <1>3 DEF Typed
<1>6. state.buffer \in Seq(Nat) /\ state'.buffer = state.buffer \o <<id>> /\ <<id>> \in Seq(Nat) /\ Range(<<id>>) = {id}
  BY <1>1, <1>3, RestFacts, AppendCat, SmallFacts
<1>7. Range(state'.buffer) = Range(state.buffer) \cup {id} /\ state'.buffer # << >>
  <2>1. Range(state'.buffer) = Range(state.buffer) \cup {id}
    BY <1>6, CatFacts
  <2>2. QED
    BY <2>1, SmallFacts
<1>8. Shape'
  <2>1. /\ state'.writecb = state.writecb /\ state'.corked = state.corked /\ state'.destroyed = state.destroyed
        /\ state'.bufferProcessing = state.bufferProcessing /\ sink' = sink /\ ticks' = ticks /\ todo' = todo
    BY <1>1, <1>2, <1>4 DEF Fields
  <2>2. Writing(state') <=> Writing(state)
    BY <2>1 DEF Writing
  <2>3. Writing(state) \/ state.corked # 0
    <3>1. state.corked \in 0..MaxCorks
      BY DEF Typed, State
    <3>2. QED
      BY <3>1 DEF MustBuffer
  <2>4. ~Has(todo, "clearBuffer")
    BY <2>3 DEF Shape, MustClear
  <2>5. Stacked(todo) /\ (Has(todo, "_write") => Writing(state)) /\ (state.bufferProcessing <=> Clearing(todo))
    BY DEF Shape
  <2>6. (~sink.failed => Inner(todo)) /\ (Writing(state) => state.writecb.ids # << >>) /\ Filled(todo)
    BY DEF Shape
  <2>7. \A k \in DOMAIN ticks : ticks[k].op = "callbacks"
    BY DEF Shape
  <2>8. /\ Stacked(todo') /\ (Has(todo', "_write") => Writing(state')) /\ (Has(todo', "clearBuffer") => MustClear(state'))
        /\ (state'.bufferProcessing <=> Clearing(todo')) /\ (Clearing(todo') => state'.buffer # << >>)
    BY <1>7, <2>1, <2>2, <2>4, <2>5
  <2>9. /\ (~sink'.failed => Inner(todo')) /\ (Writing(state') => state'.writecb.ids # << >>) /\ Filled(todo')
        /\ \A k \in DOMAIN ticks' : ticks'[k].op = "callbacks"
    BY <2>1, <2>2, <2>6, <2>7
  <2>10. ~sink'.failed /\ ~state'.destroyed /\ state'.corked = 0 /\ ~Writing(state') /\ state'.buffer # << >>
           => Has(todo', "clearBuffer") \/ Clearing(todo')
    BY <2>1, <2>2, <2>3
  <2>11. QED
    BY <2>8, <2>9, <2>10 DEF Shape, Stacked, Has, Clearing, Inner, Filled, Writing, MustClear
<1>9. Rest' \in {Rest, Rest \o <<id>>} /\ (~Has(todo, "written") => Rest' = Rest \o <<id>>)
  <2>1. CASE Has(todo, "next")
    <3>1. state.buffer # << >>
      BY <2>1 DEF Shape, Has, Clearing, Busy
    <3>2. Tail(state'.buffer) = Tail(state.buffer) \o <<id>>
      BY <1>6, <3>1, TailCat
    <3>3. QED
      BY <1>2, <2>1, <3>2 DEF Rest
  <2>2. CASE ~Has(todo, "next")
    BY <1>2, <1>6, <2>2 DEF Rest
  <2>3. QED
    BY <2>1, <2>2
<1>10. QED
  BY <1>2, <1>3, <1>4, <1>5, <1>7, <1>8, <1>9 DEF id

\* and when it hands the chunk to the sink.
LEMMA WriteNow ==
  ASSUME WritableAssumption, Typed, Shape, Placed, Owed, NEW len \in Lens, Write(len), ~MustBuffer(state)
  PROVE  LET id == Len(chunks) + 1
         IN /\ Typed' /\ Shape' /\ Rest' = Rest
            /\ ~sink.failed /\ ~state.destroyed => state.buffer = << >> /\ Rest = << >>
            /\ ~Writing(state) /\ ~Has(todo, "_write")
            /\ state'.writecb.ids = <<id>> /\ ~state'.writecb.writev /\ Writing(state')
            /\ state'.pendingcb = state.pendingcb + 1
            /\ \A f \in Fields \ {"length", "pendingcb", "needDrain", "writecb", "writelen"} : state'[f] = state[f]
            /\ \A op : Has(todo', op) <=> op = "_write" \/ Has(todo, op)
            /\ IdsIn(todo') = IdsIn(todo) /\ Distinct(todo') /\ (Rising(todo) => Rising(todo'))
            /\ Batched(todo') <=> Batched(todo)
            /\ SettledIn(todo') = SettledIn(todo)
            /\ \A A, D : Bearings(todo', A, D) <=> Bearings(todo, A, D)
<1> DEFINE id == Len(chunks) + 1
           s  == [state EXCEPT !.length = state.length + len, !.pendingcb = state.pendingcb + 1,
                     !.needDrain = state.needDrain \/ state.length + len >= options.highWaterMark]
<1>1. /\ id \in Nat /\ chunks' \in Seq(Nat) /\ Len(chunks') <= MaxWrites
      /\ accepted' \in Seq(Nat) /\ len \in Nat /\ InProgram
      /\ UNCHANGED <<options, ticks, given, answered, called, sink>>
  BY AcceptFacts
<1>2. /\ state' = DoWrite(s, <<id>>, FALSE, len)
      /\ todo' = <<Do("_write")>> \o todo
  BY DEF Write, Call
<1>3. /\ State(s) /\ s.pendingcb = state.pendingcb + 1
      /\ \A f \in Fields \ {"length", "pendingcb", "needDrain"} : s[f] = state[f]
  <2>1. state.length + len \in Int /\ state.pendingcb + 1 \in Int
    BY <1>1, SMTT(60) DEF Typed, State
  <2> DEFINE a == state.length + len
             b == state.pendingcb + 1
             e == state.needDrain \/ state.length + len >= options.highWaterMark
  <2>2. a \in Int /\ b \in Int /\ e \in BOOLEAN
    BY <2>1
  <2> HIDE DEF a, b, e
  <2>3. s = [state EXCEPT !.length = a, !.pendingcb = b, !.needDrain = e]
    BY DEF a, b, e
  <2>4. State(s) /\ s.pendingcb = b
    BY <2>2, <2>3 DEF Typed, State, Fields
  <2>5. \A f \in Fields \ {"length", "pendingcb", "needDrain"} : s[f] = state[f]
    BY <2>3 DEF Typed, State, Fields
  <2>6. QED
    BY <2>4, <2>5 DEF b
<1> HIDE DEF s
<1>4. <<id>> \in Seq(Nat) /\ <<id>> # << >> /\ len \in Int
  BY <1>1
<1>5. /\ State(state') /\ \A f \in Fields \ {"writecb", "writelen"} : state'[f] = s[f]
      /\ state'.writecb.ids = <<id>> /\ state'.writecb.writev = FALSE /\ Writing(state')
  <2>1. state' = [s EXCEPT !.writecb = [ids |-> <<id>>, writev |-> FALSE], !.writelen = len]
    BY <1>2 DEF DoWrite
  <2>2. [ids |-> <<id>>, writev |-> FALSE] \in Cb
    BY <1>4 DEF Cb
  <2>3. State(state') /\ state'.writecb = [ids |-> <<id>>, writev |-> FALSE]
    BY <1>3, <1>4, <2>1, <2>2 DEF State, Fields
  <2>4. \A f \in Fields \ {"writecb", "writelen"} : state'[f] = s[f]
    BY <1>3, <2>1 DEF State, Fields
  <2>5. Writing(state')
    <3>1. state'.writecb.ids = <<id>>
      BY <2>3
    <3>2. QED
      BY <1>4, <3>1, NoneTyped, Zenon DEF Writing
  <2>6. QED
    BY <2>3, <2>4, <2>5
<1>6. /\ \A f \in Fields \ {"length", "pendingcb", "needDrain", "writecb", "writelen"} : state'[f] = state[f]
      /\ state'.pendingcb = state.pendingcb + 1
  BY <1>3, <1>5 DEF Fields
<1>7. ~Writing(state) /\ state.corked = 0
  BY DEF MustBuffer, Typed, State
<1>8. ~Has(todo, "_write") /\ ~Has(todo, "clearBuffer") /\ (~sink.failed => ~Clearing(todo))
  BY <1>1, InTheProgram
<1>9. todo \in Seq(Frame) /\ "_write" \in Frames
  BY DEF Typed, Frames
<1>10. /\ todo' \in Seq(Frame) /\ Stacked(todo') /\ Filled(todo')
       /\ ~sink.failed => Inner(todo')
       /\ \A op : Has(todo', op) <=> "_write" = op \/ Has(todo, op)
       /\ Clearing(todo') <=> Clearing(todo)
  BY <1>1, <1>2, <1>9, ProgramCalls
<1>11. Typed'
  BY <1>1, <1>5, <1>10 DEF Typed
<1>12. state'.buffer = state.buffer /\ state'.bufferProcessing = state.bufferProcessing
  BY <1>6 DEF Fields
<1>13. Shape'
  BY <1>1, <1>4, <1>5, <1>8, <1>10, <1>12 DEF Shape
<1>14. ~sink.failed /\ ~state.destroyed => state.buffer = << >> /\ Rest = << >>
  BY <1>7, <1>8 DEF Shape, Rest, Has, Clearing, Busy
<1>15. Rest' = Rest
  BY <1>10, <1>12 DEF Rest
<1>16. /\ IdsIn(todo') = IdsIn(todo) /\ (Distinct(todo') <=> Distinct(todo))
       /\ (Rising(todo) <=> Rising(todo'))
       /\ Batched(todo') <=> Batched(todo)
       /\ SettledIn(todo') = SettledIn(todo)
       /\ \A A, D : Bearings(todo', A, D) <=> Bearings(todo, A, D)
  BY <1>2, <1>9, DoCons
<1>17. Distinct(todo')
  BY <1>16 DEF Owed
<1>18. QED
  BY <1>5, <1>6, <1>7, <1>8, <1>10, <1>11, <1>13, <1>14, <1>15, <1>16, <1>17 DEF id

\* Who bears callbacks does so when more writes are accepted or answered.
LEMMA BearingsMono ==
  ASSUME NEW s \in Seq(Frame), NEW A, NEW D, NEW B, NEW E, Bearings(s, A, D),
         IdsIn(s) \cap B \subseteq A, D \subseteq E
  PROVE  Bearings(s, B, E)
<1> SUFFICES ASSUME NEW k \in DOMAIN s PROVE Bears(s[k], B, E)
  BY DEF Bearings
<1>1. Bears(s[k], A, D) /\ Range(s[k].ids) \subseteq IdsIn(s)
  BY DEF Bearings, IdsIn
<1>2. QED
  BY <1>1 DEF Bears

\* Before the end nothing has finished.
LEMMA NotFinished ==
  ASSUME Finishing, ~Closed
  PROVE  ~state.finished /\ ~Has(todo, "finish") /\ sink.finishes = 0
BY DEF Finishing

\* The chunks in the hand of _write and with the sink are a sequence of ids.
LEMMA InHandTyped ==
  ASSUME Typed PROVE InHand \in Seq(Nat) /\ state.writecb.ids \in Seq(Nat)
BY SmallFacts DEF InHand, Typed, State, Cb

\* A write more is open.
LEMMA UncalledMore ==
  ASSUME Typed, Placed, Owed, Counted, NEW id, id \notin Ids, Range(accepted') = Range(accepted) \cup {id},
         called' = called, SettledIn(todo') = SettledIn(todo), ticks' = ticks,
         state'.pendingcb = state.pendingcb + 1, state.pendingcb \in Int,
         Has(todo', "written") <=> Has(todo, "written"), Batched(todo') <=> Batched(todo),
         state'.writecb.writev => state.writecb.writev,
         state'.writecb.ids = state.writecb.ids \/ Range(state'.writecb.ids) = {id},
         state'.writecb.writev = state.writecb.writev \/ state.writecb = None
  PROVE  Counted'
<1>1. SettledIn(todo) \subseteq IdsIn(todo) /\ SettledIn(ticks) \subseteq IdsIn(ticks)
  BY SettledIdsIn DEF Typed
<1>2. id \notin IdsIn(todo) /\ id \notin IdsIn(ticks) /\ id \notin Range(called) /\ id \notin Range(accepted)
  BY DEF Owed, Placed
<1>3. Uncalled' = Uncalled \cup {id} /\ id \notin Uncalled
  BY <1>1, <1>2 DEF Uncalled
<1>4. Cardinality(Uncalled') = Cardinality(Uncalled) + 1 /\ Cardinality(Uncalled) \in Nat
  BY <1>3, UncalledFinite, FS_AddElement
<1>5. state.pendingcb + One(Has(todo, "written"))
        >= Cardinality(Uncalled) + One(state.writecb.writev) + One(Batched(todo))
  BY DEF Counted
<1>6. (state.pendingcb + One(Has(todo, "written"))
        >= Cardinality(Uncalled) + One(state.writecb.writev) + One(Batched(todo)))'
  BY <1>4, <1>5 DEF One
<1>7. (Has(todo, "written") =>
         \E i \in Uncalled : state.writecb.writev \/ i \notin Range(state.writecb.ids))'
  <2> SUFFICES ASSUME Has(todo, "written")
               PROVE  \E i \in Uncalled' : state'.writecb.writev \/ i \notin Range(state'.writecb.ids)
    OBVIOUS
  <2>1. PICK i \in Uncalled : state.writecb.writev \/ i \notin Range(state.writecb.ids)
    BY DEF Counted
  <2>2. i # id /\ i \in Uncalled'
    BY <1>3, <2>1
  <2>3. Range(state.writecb.ids) = {} \/ state.writecb # None
    BY NoneTyped, SmallFacts
  <2>4. ~None.writev
    BY NoneTyped
  <2>5. QED
    BY <2>1, <2>2, <2>3, <2>4
<1>8. (state.pendingcb \in Nat)'
  BY DEF Counted
<1>9. QED
  BY <1>6, <1>7, <1>8 DEF Counted

\* write() keeps the invariant when it queues the chunk,
LEMMA WriteBuffersKeeps ==
  ASSUME WritableAssumption, IInv, NEW len \in Lens, Write(len), MustBuffer(state)
  PROVE  IInv'
<1> USE DEF IInv
<1> DEFINE id == Len(chunks) + 1
<1>1. /\ id \in Nat /\ Ids' = Ids \cup {id} /\ id \notin Ids /\ \A i \in Ids : i < id
      /\ id \notin Range(accepted) /\ id \notin answered
      /\ id \notin IdsIn(todo) /\ id \notin IdsIn(ticks) /\ id \notin Range(called)
      /\ accepted' = accepted \o <<id>> /\ accepted' \in Seq(Nat)
      /\ Range(accepted') = Range(accepted) \cup {id}
      /\ InProgram /\ ~state.ending
      /\ UNCHANGED <<options, ticks, given, answered, called, sink>>
  BY AcceptFacts
<1>2. /\ Typed' /\ Shape' /\ todo' = todo
      /\ Rest' \in {Rest, Rest \o <<id>>}
      /\ ~Has(todo, "written") => Rest' = Rest \o <<id>>
      /\ Range(state'.buffer) = Range(state.buffer) \cup {id}
      /\ state'.pendingcb = state.pendingcb + 1
      /\ \A f \in Fields \ {"length", "pendingcb", "needDrain", "buffer"} : state'[f] = state[f]
  BY WriteBuffers
<1> HIDE DEF id
<1>3. /\ state'.writecb = state.writecb /\ state'.destroyed = state.destroyed
      /\ state'.ending = state.ending /\ state'.finished = state.finished
  BY <1>2 DEF Fields
<1>4. Rest \in Seq(Nat) /\ Range(Rest) \subseteq Range(accepted) /\ id \notin Range(Rest)
  BY <1>1, RestFacts DEF Placed
<1>5. <<id>> \in Seq(Nat) /\ Range(<<id>>) = {id} /\ IsInjective(<<id>>) /\ Increasing(<<id>>)
  BY <1>1, SmallFacts
<1>6. /\ Rest' \in Seq(Nat) /\ Range(Rest') \subseteq Range(Rest) \cup {id}
      /\ IsInjective(Rest) => IsInjective(Rest')
      /\ Increasing(Rest) => Increasing(Rest')
  <2>0. /\ Rest \o <<id>> \in Seq(Nat)
        /\ Range(Rest \o <<id>>) = Range(Rest) \cup Range(<<id>>)
        /\ IsInjective(Rest \o <<id>>) <=>
             IsInjective(Rest) /\ IsInjective(<<id>>) /\ Range(Rest) \cap Range(<<id>>) = {}
        /\ Increasing(Rest \o <<id>>) <=>
             Increasing(Rest) /\ Increasing(<<id>>) /\ Before(Range(Rest), Range(<<id>>))
    BY <1>4, <1>5, CatFacts, Zenon
  <2>1. /\ Range(Rest \o <<id>>) = Range(Rest) \cup {id}
        /\ Rest \o <<id>> \in Seq(Nat)
        /\ IsInjective(Rest) => IsInjective(Rest \o <<id>>)
    BY <1>4, <1>5, <2>0
  <2>2. Before(Range(Rest), {id})
    BY <1>1, <1>4 DEF Before, Placed
  <2>3. Increasing(Rest) => Increasing(Rest \o <<id>>)
    BY <1>5, <2>0, <2>2
  <2>4. QED
    BY <1>2, <1>4, <2>1, <2>3
<1>7. Placed'
  BY <1>1, <1>2, <1>3, <1>4, <1>6 DEF Placed
<1>8. Owed'
  <2>1. Bearings(todo, Range(accepted'), answered) /\ Bearings(ticks, Range(accepted'), answered)
    BY <1>1, BearingsMono, ZenonT(60) DEF Owed, Typed
  <2>2. IdsIn(todo) \cup IdsIn(ticks) \cup Range(called) \subseteq answered \cup (Ids' \ Range(accepted'))
    BY <1>1 DEF Owed
  <2>3. QED
    BY <1>1, <1>2, <2>1, <2>2 DEF Owed
<1>9. Ordered'
  <2> SUFFICES ASSUME ~sink.failed
               PROVE  /\ ~state.destroyed => accepted' = given \o (InHand' \o Rest')
                      /\ Len(given) <= Len(accepted') /\ \A k \in DOMAIN given : given[k] = accepted'[k]
                      /\ answered \subseteq Range(given)
                      /\ Writing(state) /\ ~Has(todo, "_write") => Range(state.writecb.ids) \subseteq Range(given)
    BY <1>1, <1>2, <1>3 DEF Ordered, Writing
  <2>1. InHand' = InHand /\ InHand \in Seq(Nat)
    BY <1>2, <1>3, InHandTyped DEF InHand
  <2>2. Rest' = Rest \o <<id>>
    BY <1>1, <1>2, InTheProgram DEF Has, Clearing, Busy
  <2>3. ASSUME ~state.destroyed PROVE accepted' = given \o (InHand' \o Rest')
    <3>1. accepted = given \o (InHand \o Rest) /\ given \in Seq(Nat)
      BY <2>3 DEF Ordered, Typed
    <3>2. InHand \o Rest \in Seq(Nat)
      BY <1>4, <2>1
    <3>3. (given \o (InHand \o Rest)) \o <<id>> = given \o ((InHand \o Rest) \o <<id>>)
      BY <1>5, <3>1, <3>2, ConcatAssociative
    <3>4. (InHand \o Rest) \o <<id>> = InHand \o (Rest \o <<id>>)
      BY <1>4, <1>5, <2>1, ConcatAssociative
    <3>5. QED
      BY <1>1, <2>1, <2>2, <3>1, <3>3, <3>4
  <2>4. /\ Len(given) <= Len(accepted) /\ \A k \in DOMAIN given : given[k] = accepted[k]
        /\ accepted \in Seq(Nat) /\ given \in Seq(Nat)
    BY DEF Ordered, Typed
  <2>5. Len(given) <= Len(accepted') /\ \A k \in DOMAIN given : given[k] = accepted'[k]
    BY <1>1, <2>4
  <2>6. QED
    BY <2>3, <2>5 DEF Ordered
<1>10. CallsOrdered'
  <2>1. Increasing(Rest') /\ Increasing(state'.writecb.ids)
    BY <1>3, <1>6 DEF CallsOrdered
  <2>2. ASSUME ~sink.failed
        PROVE  /\ Before(answered, Range(state.writecb.ids)) /\ Before(answered, Range(Rest'))
               /\ ~(Has(todo, "_write") /\ state.destroyed) => Before(Range(state.writecb.ids), Range(Rest'))
    <3>1. answered \subseteq Ids /\ Range(state.writecb.ids) \subseteq Ids
      BY DEF Placed
    <3>2. QED
      BY <1>1, <1>6, <2>2, <3>1 DEF CallsOrdered, Before
  <2>3. QED
    BY <1>1, <1>2, <1>3, <2>1, <2>2 DEF CallsOrdered
<1>11. Counted'
  <2>1. state.pendingcb \in Int
    BY DEF Typed, State
  <2>2. QED
    BY <1>1, <1>2, <1>3, <2>1, UncalledMore
<1>12. Finishing'
  <2>1. ~state.finished /\ ~Has(todo, "finish") /\ sink.finishes = 0
    BY <1>1, NotFinished DEF Closed
  <2>2. QED
    BY <1>1, <1>2, <1>3, <2>1 DEF Finishing
<1>13. QED
  BY <1>2, <1>7, <1>8, <1>9, <1>10, <1>11, <1>12

\* when it hands it to the sink,
LEMMA WriteNowKeeps ==
  ASSUME WritableAssumption, IInv, NEW len \in Lens, Write(len), ~MustBuffer(state)
  PROVE  IInv'
<1> USE DEF IInv
<1> DEFINE id == Len(chunks) + 1
<1>1. /\ id \in Nat /\ Ids' = Ids \cup {id} /\ id \notin Ids /\ \A i \in Ids : i < id
      /\ id \notin Range(accepted) /\ id \notin answered
      /\ id \notin IdsIn(todo) /\ id \notin IdsIn(ticks) /\ id \notin Range(called)
      /\ accepted' = accepted \o <<id>> /\ accepted' \in Seq(Nat)
      /\ Range(accepted') = Range(accepted) \cup {id}
      /\ InProgram /\ ~state.ending
      /\ UNCHANGED <<options, ticks, given, answered, called, sink>>
  BY AcceptFacts
<1>2. /\ Typed' /\ Shape' /\ Rest' = Rest
      /\ ~sink.failed /\ ~state.destroyed => state.buffer = << >> /\ Rest = << >>
      /\ ~Writing(state) /\ ~Has(todo, "_write")
      /\ state'.writecb.ids = <<id>> /\ ~state'.writecb.writev /\ Writing(state')
      /\ state'.pendingcb = state.pendingcb + 1
      /\ \A f \in Fields \ {"length", "pendingcb", "needDrain", "writecb", "writelen"} : state'[f] = state[f]
      /\ \A op : Has(todo', op) <=> op = "_write" \/ Has(todo, op)
      /\ IdsIn(todo') = IdsIn(todo) /\ Distinct(todo') /\ (Rising(todo) => Rising(todo'))
      /\ Batched(todo') <=> Batched(todo)
      /\ SettledIn(todo') = SettledIn(todo)
      /\ \A A, D : Bearings(todo', A, D) <=> Bearings(todo, A, D)
  BY WriteNow
<1> HIDE DEF id
<1>3. /\ state'.buffer = state.buffer /\ state'.destroyed = state.destroyed
      /\ state'.ending = state.ending /\ state'.finished = state.finished
      /\ Has(todo', "_write") /\ (Has(todo', "written") <=> Has(todo, "written"))
      /\ Has(todo', "finish") <=> Has(todo, "finish")
  BY <1>2 DEF Fields
<1>4. Rest \in Seq(Nat) /\ Range(Rest) \subseteq Range(accepted) /\ id \notin Range(Rest)
  BY <1>1, RestFacts DEF Placed
<1>5. <<id>> \in Seq(Nat) /\ Range(<<id>>) = {id} /\ IsInjective(<<id>>) /\ Increasing(<<id>>)
  BY <1>1, SmallFacts
<1>7. Placed'
  BY <1>1, <1>2, <1>3, <1>4, <1>5 DEF Placed
<1>8. Owed'
  <2>1. Bearings(todo, Range(accepted'), answered) /\ Bearings(ticks, Range(accepted'), answered)
    BY <1>1, BearingsMono, ZenonT(60) DEF Owed, Typed
  <2>2. IdsIn(todo) \cup IdsIn(ticks) \cup Range(called) \subseteq answered \cup (Ids' \ Range(accepted'))
    BY <1>1 DEF Owed
  <2>3. QED
    BY <1>1, <1>2, <2>1, <2>2 DEF Owed
<1>9. Ordered'
  <2> SUFFICES ASSUME ~sink.failed
               PROVE  /\ ~state.destroyed => accepted' = given \o (InHand' \o Rest')
                      /\ Len(given) <= Len(accepted') /\ \A k \in DOMAIN given : given[k] = accepted'[k]
                      /\ answered \subseteq Range(given)
    BY <1>1, <1>2, <1>3 DEF Ordered, Writing
  <2>1. InHand' = <<id>> /\ InHand = << >>
    BY <1>2, <1>3 DEF InHand
  <2>3. ASSUME ~state.destroyed PROVE accepted' = given \o (InHand' \o Rest')
    <3>1. accepted = given \o (InHand \o Rest) /\ given \in Seq(Nat)
      BY <2>3 DEF Ordered, Typed
    <3>2. Rest = << >>
      BY <1>2, <2>3
    <3>3. accepted = given
      BY <2>1, <3>1, <3>2
    <3>4. <<id>> \o << >> = <<id>>
      BY <1>5
    <3>5. QED
      BY <1>1, <1>2, <2>1, <3>2, <3>3, <3>4
  <2>4. /\ Len(given) <= Len(accepted) /\ \A k \in DOMAIN given : given[k] = accepted[k]
        /\ accepted \in Seq(Nat) /\ given \in Seq(Nat)
    BY DEF Ordered, Typed
  <2>5. Len(given) <= Len(accepted') /\ \A k \in DOMAIN given : given[k] = accepted'[k]
    BY <1>1, <2>4
  <2>6. QED
    BY <2>3, <2>5 DEF Ordered
<1>10. CallsOrdered'
  <2>1. Increasing(Rest') /\ Increasing(state'.writecb.ids)
    BY <1>2, <1>5 DEF CallsOrdered
  <2>2. ASSUME ~sink.failed
        PROVE  /\ Before(answered, Range(state'.writecb.ids)) /\ Before(answered, Range(Rest'))
               /\ ~(Has(todo', "_write") /\ state.destroyed) => Before(Range(state'.writecb.ids), Range(Rest'))
    <3>1. answered \subseteq Ids
      BY DEF Placed
    <3>2. ~state.destroyed => Range(Rest') = {}
      BY <1>2, <2>2, SmallFacts
    <3>3. QED
      BY <1>1, <1>2, <1>3, <1>5, <2>2, <3>1, <3>2 DEF CallsOrdered, Before
  <2>3. QED
    BY <1>1, <1>2, <1>3, <2>1, <2>2 DEF CallsOrdered
<1>11. Counted'
  <2>1. state.pendingcb \in Int /\ state.writecb = None
    BY <1>2 DEF Typed, State, Writing
  <2>2. Range(state'.writecb.ids) = {id}
    BY <1>2, <1>5
  <2>3. QED
    BY <1>1, <1>2, <1>3, <2>1, <2>2, UncalledMore
<1>12. Finishing'
  <2>1. ~state.finished /\ ~Has(todo, "finish") /\ sink.finishes = 0
    BY <1>1, NotFinished DEF Closed
  <2>2. QED
    BY <1>1, <1>2, <1>3, <2>1 DEF Finishing
<1>13. QED
  BY <1>2, <1>7, <1>8, <1>9, <1>10, <1>11, <1>12

\* and when it refuses it.
LEMMA WriteRefusedKeeps ==
  ASSUME WritableAssumption, IInv, WriteRefused
  PROVE  IInv'
<1> USE DEF IInv
<1> DEFINE id == Len(chunks) + 1
           g == [Do("nextTick") EXCEPT !.ids = <<id>>]
           s == <<g>> \o todo
<1>1. /\ InProgram /\ chunks' = Append(chunks, 0) /\ Len(chunks) < MaxWrites
      /\ todo' = <<Do("error"), g>> \o todo
      /\ UNCHANGED <<options, state, ticks, accepted, given, answered, called, sink>>
  BY DEF WriteRefused, Call
<1>2. /\ id \in Nat /\ Ids' = Ids \cup {id} /\ id \notin Ids /\ \A i \in Ids : i < id
      /\ chunks' \in Seq(Nat) /\ Len(chunks') <= MaxWrites
      /\ id \notin Range(accepted) /\ id \notin answered
      /\ id \notin IdsIn(todo) /\ id \notin IdsIn(ticks) /\ id \notin Range(called)
  BY <1>1, FreshFacts
<1> HIDE DEF id
<1>3. <<id>> \in Seq(Nat) /\ Range(<<id>>) = {id} /\ IsInjective(<<id>>) /\ Increasing(<<id>>)
  BY <1>2, SmallFacts
<1>4. /\ g \in Frame /\ g.op = "nextTick" /\ g.ids = <<id>> /\ ~g.writev
      /\ "error" \in Frames /\ Do("error") \in Frame /\ Do("error").op = "error"
  <2>2. g \in Frame /\ g.op = "nextTick" /\ g.ids = <<id>> /\ g.writev = FALSE
    BY <1>3, NextTickTyped
  <2>3. "error" \in Frames /\ Do("error") \in Frame /\ Do("error").op = "error"
    BY DoTyped DEF Frames
  <2>4. QED
    BY <2>2, <2>3
<1>5. todo \in Seq(Frame) /\ ~Has(todo, "_write") /\ ~Has(todo, "clearBuffer") /\ (~sink.failed => ~Clearing(todo))
  BY <1>1, InTheProgram DEF Typed
<1>6. Over(g, todo) /\ Over(Do("error"), todo)
  BY <1>1, <1>4, InTheProgram DEF Busy, Owing
<1>7. Above(Do("error"), g)
  BY <1>4 DEF Above, Busy, Owing
<1> HIDE DEF g
<1>8. /\ s \in Seq(Frame) /\ Stacked(s) /\ Filled(s) /\ (~sink.failed => Inner(s))
      /\ \A op : Has(s, op) <=> op = "nextTick" \/ Has(todo, op)
      /\ Clearing(s) <=> Clearing(todo)
  BY <1>4, <1>5, <1>6, Cons DEF Shape, Busy
<1>9. /\ IdsIn(s) = {id} \cup IdsIn(todo)
      /\ Distinct(s) /\ (Rising(s) <=> Rising(todo)) /\ (Batched(s) <=> Batched(todo))
      /\ SettledIn(s) = SettledIn(todo)
      /\ Bearings(s, Range(accepted), answered)
  <2>1. /\ IdsIn(s) = Range(g.ids) \cup IdsIn(todo)
        /\ Distinct(s) <=> IsInjective(g.ids) /\ Distinct(todo) /\ Range(g.ids) \cap IdsIn(todo) = {}
        /\ Rising(s) <=> Increasing(g.ids) /\ Rising(todo)
        /\ Batched(s) <=> (g.op \in {"afterWrite", "callback"} /\ g.writev) \/ Batched(todo)
        /\ SettledIn(s) =
             (IF g.op = "callbacks" /\ ~g.writev THEN Range(g.ids) ELSE {}) \cup SettledIn(todo)
        /\ \A A, D : Bearings(s, A, D) <=> Bears(g, A, D) /\ Bearings(todo, A, D)
    BY <1>4, <1>5, Cons, Zenon
  <2>2. Bears(g, Range(accepted), answered)
    BY <1>2, <1>3, <1>4 DEF Bears, Bearing
  <2>3. IdsIn(s) = {id} \cup IdsIn(todo) /\ Distinct(s)
    BY <1>2, <1>3, <1>4, <2>1 DEF Owed
  <2>4. SettledIn(s) = SettledIn(todo)
    BY <1>4, <2>1
  <2>5. (Rising(s) <=> Rising(todo)) /\ (Batched(s) <=> Batched(todo))
    BY <1>3, <1>4, <2>1
  <2>6. Bearings(s, Range(accepted), answered)
    BY <2>1, <2>2 DEF Owed
  <2>7. QED
    BY <2>3, <2>4, <2>5, <2>6
<1>10. Over(Do("error"), s)
  BY <1>4, <1>5, <1>6, <1>7, OverCons
<1>11. todo' = <<Do("error")>> \o s
  BY <1>1, <1>4, <1>5, Several
<1> HIDE DEF s
<1>12. /\ todo' \in Seq(Frame) /\ Stacked(todo') /\ Filled(todo') /\ (~sink.failed => Inner(todo'))
       /\ \A op : Has(todo', op) <=> op \in {"error", "nextTick"} \/ Has(todo, op)
       /\ Clearing(todo') <=> Clearing(todo)
  BY <1>4, <1>5, <1>8, <1>10, <1>11, DoCons DEF Busy
<1>13. /\ IdsIn(todo') = {id} \cup IdsIn(todo) /\ Distinct(todo') /\ (Rising(todo') <=> Rising(todo))
       /\ Batched(todo') <=> Batched(todo)
       /\ SettledIn(todo') = SettledIn(todo)
       /\ Bearings(todo', Range(accepted), answered)
  <2>1. /\ IdsIn(todo') = IdsIn(s) /\ (Distinct(todo') <=> Distinct(s)) /\ (Rising(todo') <=> Rising(s))
        /\ Batched(todo') <=> Batched(s)
        /\ SettledIn(todo') = SettledIn(s)
        /\ \A A, D : Bearings(todo', A, D) <=> Bearings(s, A, D)
    BY <1>4, <1>8, <1>11, DoCons
  <2>2. QED
    BY <1>9, <2>1
<1>14. /\ Has(todo', "_write") <=> Has(todo, "_write")
       /\ Has(todo', "written") <=> Has(todo, "written")
       /\ Has(todo', "next") <=> Has(todo, "next")
       /\ Has(todo', "clearBuffer") <=> Has(todo, "clearBuffer")
       /\ Has(todo', "finish") <=> Has(todo, "finish")
  BY <1>12
<1>15. Typed'
  BY <1>1, <1>2, <1>12 DEF Typed
<1>16. Shape'
  BY <1>1, <1>12, <1>14 DEF Shape
<1>17. Rest' = Rest /\ InHand' = InHand
  BY <1>1, <1>14 DEF Rest, InHand
<1>18. Placed'
  BY <1>1, <1>2, <1>14, <1>17 DEF Placed
<1>19. Owed'
  <2>1. IdsIn(todo') \cup IdsIn(ticks) \cup Range(called) \subseteq answered \cup (Ids' \ Range(accepted))
    BY <1>2, <1>13 DEF Owed
  <2>2. QED
    BY <1>1, <1>2, <1>13, <2>1 DEF Owed
<1>20. Ordered'
  BY <1>1, <1>14, <1>17 DEF Ordered
<1>21. CallsOrdered'
  <2>1. IdsIn(todo') \cap answered = IdsIn(todo) \cap answered
    BY <1>2, <1>13
  <2>2. QED
    BY <1>1, <1>13, <1>14, <1>17, <2>1 DEF CallsOrdered
<1>22. Counted'
  <2>1. Uncalled' = Uncalled
    BY <1>1, <1>13 DEF Uncalled
  <2>2. QED
    BY <1>1, <1>13, <1>14, <2>1 DEF Counted, One
<1>23. Finishing'
  <2>1. Uncalled' = Uncalled
    BY <1>1, <1>13 DEF Uncalled
  <2>2. QED
    BY <1>1, <1>14, <2>1 DEF Finishing, Closed
<1>24. QED
  BY <1>15, <1>16, <1>18, <1>19, <1>20, <1>21, <1>22, <1>23

\* A call put off to a tick.
LEMMA TickAdded ==
  ASSUME NEW s \in Seq(Frame), NEW c \in Frame, c.op = "callbacks",
         \A k \in DOMAIN s : s[k].op = "callbacks"
  PROVE  /\ Append(s, c) \in Seq(Frame)
         /\ \A k \in DOMAIN Append(s, c) : Append(s, c)[k].op = "callbacks"
         /\ IdsIn(Append(s, c)) = IdsIn(s) \cup Range(c.ids)
         /\ Distinct(Append(s, c)) <=> Distinct(s) /\ IsInjective(c.ids) /\ IdsIn(s) \cap Range(c.ids) = {}
         /\ Rising(Append(s, c)) <=> Rising(s) /\ Increasing(c.ids)
         /\ SettledIn(Append(s, c)) = SettledIn(s) \cup (IF ~c.writev THEN Range(c.ids) ELSE {})
         /\ \A A, D : Bearings(Append(s, c), A, D) <=> Bearings(s, A, D) /\ Bears(c, A, D)
<1>1. Append(s, c) = s \o <<c>> /\ <<c>> \in Seq(Frame)
  BY AppendIsConcat
<1>2. /\ Append(s, c) \in Seq(Frame)
      /\ \A k \in DOMAIN Append(s, c) : Append(s, c)[k].op = "callbacks"
  OBVIOUS
<1>3. IdsIn(s \o <<c>>) = IdsIn(s) \cup Range(c.ids)
  <2>1. IdsIn(s \o <<c>>) = IdsIn(s) \cup IdsIn(<<c>>)
    BY <1>1, IdsInCat
  <2>2. IdsIn(<<c>>) = Range(c.ids)
    BY Single
  <2>3. QED
    BY <2>1, <2>2
<1>4. Distinct(s \o <<c>>) <=> Distinct(s) /\ IsInjective(c.ids) /\ IdsIn(s) \cap Range(c.ids) = {}
  BY <1>1, DistinctCat, Single, Zenon
<1>5. Rising(s \o <<c>>) <=> Rising(s) /\ Increasing(c.ids)
  BY <1>1, RisingCat, Single, Zenon
<1>6. SettledIn(s \o <<c>>) = SettledIn(s) \cup (IF ~c.writev THEN Range(c.ids) ELSE {})
  <2>1. SettledIn(s \o <<c>>) = SettledIn(s) \cup SettledIn(<<c>>)
    BY <1>1, SettledInCat
  <2>2. SettledIn(<<c>>) = IF c.op = "callbacks" /\ ~c.writev THEN Range(c.ids) ELSE {}
    BY Single
  <2>3. QED
    BY <2>1, <2>2
<1>7. \A A, D : Bearings(s \o <<c>>, A, D) <=> Bearings(s, A, D) /\ Bears(c, A, D)
  BY <1>1, BearingsCat, Single, Zenon
<1>8. QED
  BY <1>1, <1>2, <1>3, <1>4, <1>5, <1>6, <1>7

\* A callback put off moves from the task to the ticks,
LEMMA NextTickKeeps ==
  ASSUME IInv, NextTick
  PROVE  IInv'
<1> USE DEF IInv
<1> DEFINE f == todo[1]
           c == Calls(f)
           r == Tail(todo)
<1>1. /\ todo # << >> /\ f.op = "nextTick" /\ ticks' = Append(ticks, c) /\ todo' = << >> \o r
      /\ UNCHANGED <<options, state, chunks, accepted, given, answered, called, sink>>
  BY DEF NextTick, At, Then, history
<1>2. /\ f \in Frame /\ r \in Seq(Frame) /\ Stacked(r) /\ Filled(r)
      /\ ~Has(r, "_write") /\ ~Has(r, "clearBuffer")
      /\ ~sink.failed => Inner(r)
      /\ \A op : Has(todo, op) <=> f.op = op \/ Has(r, op)
      /\ Clearing(todo) <=> f.op \in Busy \/ Clearing(r)
      /\ IdsIn(todo) = Range(f.ids) \cup IdsIn(r)
      /\ IsInjective(f.ids) /\ Distinct(r) /\ Range(f.ids) \cap IdsIn(r) = {}
      /\ Rising(todo) <=> Increasing(f.ids) /\ Rising(r)
      /\ Batched(todo) <=> (f.op \in {"afterWrite", "callback"} /\ f.writev) \/ Batched(r)
      /\ SettledIn(todo) =
           (IF f.op = "callbacks" /\ ~f.writev THEN Range(f.ids) ELSE {}) \cup SettledIn(r)
      /\ Bears(f, Range(accepted), answered) /\ Bearings(r, Range(accepted), answered)
  BY <1>1, Popped
<1>3. c \in Frame /\ c.op = "callbacks" /\ c.ids = f.ids /\ c.writev = f.writev
  BY <1>2, CallsTyped
<1> HIDE DEF f, c, r
<1>4. todo' = r
  BY <1>1, <1>2, Several
<1>5. ticks \in Seq(Frame) /\ \A k \in DOMAIN ticks : ticks[k].op = "callbacks"
  BY DEF Typed, Shape
<1>6. /\ ticks' \in Seq(Frame) /\ \A k \in DOMAIN ticks' : ticks'[k].op = "callbacks"
      /\ IdsIn(ticks') = IdsIn(ticks) \cup Range(f.ids)
      /\ Distinct(ticks') <=> Distinct(ticks) /\ IsInjective(f.ids) /\ IdsIn(ticks) \cap Range(f.ids) = {}
      /\ Rising(ticks') <=> Rising(ticks) /\ Increasing(f.ids)
      /\ SettledIn(ticks') = SettledIn(ticks) \cup (IF ~f.writev THEN Range(f.ids) ELSE {})
      /\ \A A, D : Bearings(ticks', A, D) <=> Bearings(ticks, A, D) /\ Bears(c, A, D)
  BY <1>1, <1>3, <1>5, TickAdded
<1>7. Range(f.ids) \cap Range(accepted) = {} /\ Bears(c, Range(accepted), answered)
  BY <1>1, <1>2, <1>3 DEF Bears, Bearing
<1>8. /\ \A op \in {"_write", "clearBuffer", "written", "next", "finish"} : Has(todo', op) <=> Has(todo, op)
      /\ Clearing(todo') <=> Clearing(todo)
      /\ Batched(todo') <=> Batched(todo)
      /\ SettledIn(todo') = SettledIn(todo)
  BY <1>1, <1>2, <1>4 DEF Busy
<1>9. Uncalled' = Uncalled
  BY <1>1, <1>6, <1>7, <1>8 DEF Uncalled
<1>10. Rest' = Rest /\ InHand' = InHand
  BY <1>1, <1>8 DEF Rest, InHand
<1>11. Typed'
  BY <1>1, <1>2, <1>4, <1>6 DEF Typed
<1>12. Shape'
  BY <1>1, <1>2, <1>4, <1>6, <1>8 DEF Shape
<1>13. Placed'
  BY <1>1, <1>8, <1>10 DEF Placed, Ids
<1>14. Owed'
  <2>1. IdsIn(todo') \cup IdsIn(ticks') = IdsIn(todo) \cup IdsIn(ticks)
    BY <1>2, <1>4, <1>6
  <2>2. Distinct(todo') /\ Distinct(ticks') /\ IdsIn(todo') \cap IdsIn(ticks') = {}
    BY <1>2, <1>4, <1>6 DEF Owed
  <2>3. Bearings(todo', Range(accepted), answered) /\ Bearings(ticks', Range(accepted), answered)
    BY <1>2, <1>4, <1>6, <1>7 DEF Owed
  <2>4. QED
    BY <1>1, <2>1, <2>2, <2>3 DEF Owed, Ids
<1>15. Ordered'
  BY <1>1, <1>8, <1>10 DEF Ordered
<1>16. CallsOrdered'
  <2>1. Increasing(Rest') /\ Increasing(state'.writecb.ids)
    BY <1>1, <1>10 DEF CallsOrdered
  <2>2. ASSUME ~sink.failed
        PROVE  /\ Rising(todo') /\ Rising(ticks') /\ IdsIn(ticks') \cap answered = {}
               /\ Before(Range(called) \cap answered, IdsIn(todo') \cap answered)
    <3>1. answered \subseteq Range(accepted)
      BY DEF Placed
    <3>2. Rising(todo') /\ Rising(ticks') /\ IdsIn(ticks') \cap answered = {}
      BY <1>2, <1>4, <1>6, <1>7, <2>2, <3>1 DEF CallsOrdered
    <3>3. Before(Range(called) \cap answered, IdsIn(todo') \cap answered)
      BY <1>2, <1>4, <2>2 DEF CallsOrdered, Before
    <3>4. QED
      BY <3>2, <3>3
  <2>3. QED
    BY <1>1, <1>8, <1>10, <2>1, <2>2 DEF CallsOrdered
<1>17. Counted'
  BY <1>1, <1>8, <1>9 DEF Counted, One
<1>18. Finishing'
  BY <1>1, <1>8, <1>9 DEF Finishing, Closed
<1>19. QED
  BY <1>11, <1>12, <1>13, <1>14, <1>15, <1>16, <1>17, <1>18

\* and from the ticks to a task of its own.
LEMMA TickKeeps ==
  ASSUME IInv, Tick
  PROVE  IInv'
<1> USE DEF IInv
<1> DEFINE c == Head(ticks)
           t == Tail(ticks)
<1>1. /\ todo = << >> /\ ticks # << >> /\ todo' = <<c>> /\ ticks' = t
      /\ UNCHANGED <<options, state, chunks, accepted, given, answered, called, sink>>
  BY DEF Tick, history
<1>2. /\ ticks \in Seq(Frame) /\ ticks = <<c>> \o t /\ c \in Frame /\ t \in Seq(Frame)
      /\ c.op = "callbacks" /\ \A k \in DOMAIN t : t[k].op = "callbacks"
  <2>1. ticks \in Seq(Frame) /\ \A k \in DOMAIN ticks : ticks[k].op = "callbacks"
    BY DEF Typed, Shape
  <2>2. ticks = <<c>> \o t /\ c \in Frame /\ t \in Seq(Frame)
    BY <1>1, <2>1
  <2>3. c = ticks[1] /\ 1 \in DOMAIN ticks /\ \A k \in DOMAIN t : k + 1 \in DOMAIN ticks /\ t[k] = ticks[k + 1]
    BY <1>1, <2>1
  <2>4. QED
    BY <2>1, <2>2, <2>3
<1> HIDE DEF c, t
<1>3. /\ IdsIn(ticks) = Range(c.ids) \cup IdsIn(t)
      /\ Distinct(ticks) <=> IsInjective(c.ids) /\ Distinct(t) /\ Range(c.ids) \cap IdsIn(t) = {}
      /\ Rising(ticks) <=> Increasing(c.ids) /\ Rising(t)
      /\ SettledIn(ticks) = (IF c.op = "callbacks" /\ ~c.writev THEN Range(c.ids) ELSE {}) \cup SettledIn(t)
      /\ \A A, D : Bearings(ticks, A, D) <=> Bears(c, A, D) /\ Bearings(t, A, D)
  BY <1>2, Cons, Zenon
<1>4. /\ todo' \in Seq(Frame)
      /\ \A op : Has(todo', op) <=> c.op = op
      /\ Clearing(todo') <=> c.op \in Busy
      /\ Stacked(todo')
      /\ Distinct(todo') <=> IsInjective(c.ids)
      /\ IdsIn(todo') = Range(c.ids)
      /\ Rising(todo') <=> Increasing(c.ids)
      /\ Filled(todo') <=> (c.op \in {"afterWrite", "callback"} => c.ids # << >>)
      /\ Batched(todo') <=> c.op \in {"afterWrite", "callback"} /\ c.writev
      /\ SettledIn(todo') = (IF c.op = "callbacks" /\ ~c.writev THEN Range(c.ids) ELSE {})
      /\ \A A, D : Bearings(todo', A, D) <=> Bears(c, A, D)
  BY <1>1, <1>2, Single, Zenon
<1>5. Inner(todo')
  <2>1. DOMAIN <<c>> = {1} /\ ~(1 < 1)
    OBVIOUS
  <2>2. QED
    BY <1>1, <2>1 DEF Inner
<1>6. /\ IdsIn(todo) = {} /\ SettledIn(todo) = {} /\ ~Batched(todo) /\ ~Clearing(todo)
      /\ \A op : ~Has(todo, op)
  BY <1>1, Nothing
<1>7. /\ \A op \in {"_write", "clearBuffer", "written", "next", "finish"} : ~Has(todo', op)
      /\ ~Clearing(todo') /\ ~Batched(todo') /\ Filled(todo')
  BY <1>2, <1>4 DEF Busy
<1>8. Uncalled' = Uncalled
  BY <1>1, <1>3, <1>4, <1>6 DEF Uncalled
<1>10. Rest' = Rest /\ InHand' = InHand
  BY <1>1, <1>6, <1>7 DEF Rest, InHand
<1>11. Typed'
  BY <1>1, <1>2, <1>4 DEF Typed
<1>12. Shape'
  BY <1>1, <1>2, <1>4, <1>5, <1>6, <1>7 DEF Shape
<1>13. Placed'
  BY <1>1, <1>6, <1>7, <1>10 DEF Placed, Ids
<1>14. Owed'
  <2>1. IdsIn(todo') \cup IdsIn(ticks') = IdsIn(todo) \cup IdsIn(ticks)
    BY <1>1, <1>3, <1>4, <1>6
  <2>2. Distinct(todo') /\ Distinct(ticks') /\ IdsIn(todo') \cap IdsIn(ticks') = {}
    BY <1>1, <1>3, <1>4 DEF Owed
  <2>3. Bearings(todo', Range(accepted), answered) /\ Bearings(ticks', Range(accepted), answered)
    BY <1>1, <1>3, <1>4 DEF Owed
  <2>4. QED
    BY <1>1, <2>1, <2>2, <2>3 DEF Owed, Ids
<1>15. Ordered'
  BY <1>1, <1>6, <1>7, <1>10 DEF Ordered
<1>16. CallsOrdered'
  <2>1. Increasing(Rest') /\ Increasing(state'.writecb.ids)
    BY <1>1, <1>10 DEF CallsOrdered
  <2>2. ASSUME ~sink.failed
        PROVE  /\ Rising(todo') /\ Rising(ticks') /\ IdsIn(ticks') \cap answered = {}
               /\ Before(Range(called) \cap answered, IdsIn(todo') \cap answered)
    <3>1. Rising(todo') /\ Rising(ticks') /\ IdsIn(ticks') \cap answered = {} /\ IdsIn(todo') \cap answered = {}
      BY <1>1, <1>3, <1>4, <2>2 DEF CallsOrdered
    <3>2. QED
      BY <3>1 DEF Before
  <2>3. QED
    BY <1>1, <1>6, <1>7, <1>10, <2>1, <2>2 DEF CallsOrdered
<1>17. Counted'
  BY <1>1, <1>6, <1>7, <1>8 DEF Counted, One
<1>18. Finishing'
  BY <1>1, <1>6, <1>7, <1>8 DEF Finishing, Closed
<1>19. QED
  BY <1>11, <1>12, <1>13, <1>14, <1>15, <1>16, <1>17, <1>18

\* The stack when clearBuffer() calls the sink,
LEMMA Hands ==
  ASSUME Typed, Shape, Owed, todo # << >>, todo[1].op \in {"clearBuffer", "next"},
         ~Clearing(Tail(todo)), NEW w \in Busy
  PROVE  LET t == <<Do("_write"), Do(w)>> \o Tail(todo)
         IN /\ t \in Seq(Frame) /\ Stacked(t) /\ Filled(t) /\ (~sink.failed => Inner(t)) /\ Clearing(t)
            /\ ~Has(todo, "_write") /\ ~Has(Tail(todo), "_write") /\ ~Has(Tail(todo), "clearBuffer")
            /\ ~Has(Tail(todo), "written") /\ ~Has(Tail(todo), "next")
            /\ \A op : Has(t, op) <=> op \in {"_write", w} \/ Has(Tail(todo), op)
            /\ IdsIn(t) = IdsIn(todo) /\ Distinct(t) /\ (Rising(todo) => Rising(t))
            /\ Batched(t) <=> Batched(todo)
            /\ SettledIn(t) = SettledIn(todo)
            /\ Bearings(t, Range(accepted), answered)
<1> DEFINE f == todo[1]
           r == Tail(todo)
           s == <<Do(w)>> \o r
           t == <<Do("_write")>> \o s
<1>1. /\ f \in Frame /\ r \in Seq(Frame) /\ Over(f, r) /\ Stacked(r) /\ Filled(r)
      /\ ~Has(r, "_write") /\ ~Has(r, "clearBuffer") /\ (~sink.failed => Inner(r))
      /\ \A op : Has(todo, op) <=> f.op = op \/ Has(r, op)
      /\ IdsIn(todo) = Range(f.ids) \cup IdsIn(r)
      /\ Distinct(r)
      /\ Rising(todo) <=> Increasing(f.ids) /\ Rising(r)
      /\ Batched(todo) <=> (f.op \in {"afterWrite", "callback"} /\ f.writev) \/ Batched(r)
      /\ SettledIn(todo) =
           (IF f.op = "callbacks" /\ ~f.writev THEN Range(f.ids) ELSE {}) \cup SettledIn(r)
      /\ Bears(f, Range(accepted), answered) /\ Bearings(r, Range(accepted), answered)
  BY Popped
<1>2. f.op \in {"clearBuffer", "next"} /\ ~Clearing(r)
  OBVIOUS
<1>3. /\ w \in Frames /\ Do(w) \in Frame /\ Do(w).op = w
      /\ "_write" \in Frames /\ Do("_write") \in Frame /\ Do("_write").op = "_write"
  BY DoTyped DEF Busy, Frames
<1> HIDE DEF f, r
<1>4. Over(Do(w), r) /\ Over(Do("_write"), r)
  BY <1>1, <1>2, <1>3, OverInstead DEF Busy, Owing
<1>5. Over(Do("_write"), s)
  <2>1. Above(Do("_write"), Do(w))
    BY <1>3 DEF Above, Busy, Owing
  <2>2. QED
    BY <1>1, <1>3, <1>4, <2>1, OverCons
<1>6. /\ s \in Seq(Frame) /\ Stacked(s) /\ Filled(s) /\ (~sink.failed => Inner(s)) /\ Clearing(s)
      /\ \A op : Has(s, op) <=> w = op \/ Has(r, op)
  BY <1>1, <1>2, <1>3, <1>4, DoCons DEF Busy
<1>7. /\ IdsIn(s) = IdsIn(r) /\ (Distinct(s) <=> Distinct(r)) /\ (Rising(s) <=> Rising(r))
      /\ Batched(s) <=> Batched(r)
      /\ SettledIn(s) = SettledIn(r)
      /\ \A A, D : Bearings(s, A, D) <=> Bearings(r, A, D)
  BY <1>1, <1>3, DoCons
<1> HIDE DEF s
<1>8. /\ t \in Seq(Frame) /\ Stacked(t) /\ Filled(t) /\ (~sink.failed => Inner(t)) /\ Clearing(t)
      /\ \A op : Has(t, op) <=> "_write" = op \/ Has(s, op)
  BY <1>3, <1>5, <1>6, DoCons DEF Busy
<1>9. /\ IdsIn(t) = IdsIn(s) /\ (Distinct(t) <=> Distinct(s)) /\ (Rising(t) <=> Rising(s))
      /\ Batched(t) <=> Batched(s)
      /\ SettledIn(t) = SettledIn(s)
      /\ \A A, D : Bearings(t, A, D) <=> Bearings(s, A, D)
  BY <1>3, <1>6, DoCons
<1>10. t = <<Do("_write"), Do(w)>> \o r
  BY <1>1, <1>3, Several DEF s
<1> HIDE DEF t
<1>11. Range(f.ids) = {}
  BY <1>1, <1>2, SmallFacts DEF Bears, Bearing
<1>12. ~Has(r, "written") /\ ~Has(r, "next") /\ ~Has(todo, "_write")
  BY <1>1, <1>2 DEF Has, Clearing, Busy
<1>13. IdsIn(t) = IdsIn(todo) /\ Distinct(t) /\ (Rising(todo) => Rising(t)) /\ (Batched(t) <=> Batched(todo))
  BY <1>1, <1>2, <1>7, <1>9, <1>11
<1>14. SettledIn(t) = SettledIn(todo)
  BY <1>1, <1>2, <1>7, <1>9
<1>15. Bearings(t, Range(accepted), answered)
  BY <1>1, <1>7, <1>9
<1>16. \A op : Has(t, op) <=> op \in {"_write", w} \/ Has(r, op)
  BY <1>6, <1>8
<1>17. QED
  BY <1>1, <1>8, <1>10, <1>12, <1>13, <1>14, <1>15, <1>16 DEF r

\* and what that keeps: the ids in hand are the first of those that waited.
LEMMA HandKeeps ==
  ASSUME IInv, NEW ids \in Seq(Nat), ids # << >>, Rest' \in Seq(Nat), Rest = ids \o Rest',
         ~Writing(state), state'.writecb.ids = ids, state'.writecb.writev \in BOOLEAN,
         state'.writecb.writev <=> Has(todo', "written"),
         ~Has(todo, "written"), ~Has(todo, "_write"), Has(todo', "_write"),
         Range(state'.buffer) \subseteq Range(state.buffer),
         state'.pendingcb = state.pendingcb, state'.destroyed = state.destroyed,
         state'.ending = state.ending, state'.finished = state.finished,
         UNCHANGED <<options, ticks, chunks, accepted, given, answered, called, sink>>,
         Has(todo', "finish") => Has(todo, "finish"),
         IdsIn(todo') = IdsIn(todo), Distinct(todo'), Rising(todo) => Rising(todo'),
         Batched(todo') <=> Batched(todo), SettledIn(todo') = SettledIn(todo),
         Bearings(todo', Range(accepted), answered)
  PROVE  Placed' /\ Owed' /\ Ordered' /\ CallsOrdered' /\ Counted' /\ Finishing'
<1> USE DEF IInv
<1>1. /\ Range(Rest) = Range(ids) \cup Range(Rest')
      /\ IsInjective(Rest) <=> IsInjective(ids) /\ IsInjective(Rest') /\ Range(ids) \cap Range(Rest') = {}
      /\ Increasing(Rest) <=> Increasing(ids) /\ Increasing(Rest') /\ Before(Range(ids), Range(Rest'))
  <2>1. /\ Range(ids \o Rest') = Range(ids) \cup Range(Rest')
        /\ IsInjective(ids \o Rest') <=> IsInjective(ids) /\ IsInjective(Rest') /\ Range(ids) \cap Range(Rest') = {}
        /\ Increasing(ids \o Rest') <=> Increasing(ids) /\ Increasing(Rest') /\ Before(Range(ids), Range(Rest'))
    BY CatFacts, Zenon
  <2>2. QED
    BY <2>1
<1>2. Range(Rest) \subseteq Range(accepted) \ answered
  BY RestFacts DEF Placed
<1>3. Range(ids) # {}
  BY NotEmpty
<1>4. Placed'
  BY <1>1, <1>2 DEF Placed, Ids
<1>5. Owed'
  BY DEF Owed, Ids
<1>6. Ordered'
  <2> SUFFICES ASSUME ~sink.failed
               PROVE  /\ ~state.destroyed => accepted = given \o (InHand' \o Rest')
                      /\ Len(given) <= Len(accepted) /\ \A k \in DOMAIN given : given[k] = accepted[k]
                      /\ answered \subseteq Range(given)
    BY DEF Ordered, Writing
  <2>1. InHand' = ids /\ InHand = << >>
    BY DEF InHand
  <2>2. Rest = << >> \o Rest
    BY RestFacts
  <2>3. QED
    BY <2>1, <2>2 DEF Ordered
<1>7. CallsOrdered'
  <2>1. Increasing(Rest') /\ Increasing(state'.writecb.ids)
    BY <1>1 DEF CallsOrdered
  <2>2. ASSUME ~sink.failed
        PROVE  /\ Before(answered, Range(state'.writecb.ids)) /\ Before(answered, Range(Rest'))
               /\ Before(Range(state'.writecb.ids), Range(Rest'))
    BY <1>1, <2>2 DEF CallsOrdered, Before
  <2>3. QED
    BY <2>1, <2>2 DEF CallsOrdered
<1>8. Counted'
  <2>1. Uncalled' = Uncalled
    BY DEF Uncalled
  <2>2. PICK i \in Range(ids) : TRUE
    BY <1>3
  <2>3. i \in Uncalled
    BY <1>1, <1>2, OpenFacts
  <2>4. ~state.writecb.writev
    BY NoneTyped DEF Writing
  <2>5. Cardinality(Uncalled) \in Nat /\ state.pendingcb \in Nat
    BY UncalledFinite DEF Counted
  <2>6. state.pendingcb >= Cardinality(Uncalled) + One(Batched(todo))
    BY <2>4, <2>5 DEF Counted, One
  <2>7. (state.pendingcb + One(Has(todo, "written"))
           >= Cardinality(Uncalled) + One(state.writecb.writev) + One(Batched(todo)))'
    BY <2>1, <2>5, <2>6 DEF One
  <2>8. QED
    BY <2>1, <2>3, <2>5, <2>7 DEF Counted
<1>9. Finishing'
  <2>1. state.buffer # << >>
    BY <1>1, <1>3, RestFacts, SmallFacts
  <2>2. ~state.finished /\ ~Has(todo, "finish") /\ sink.finishes = 0
    BY <2>1, NotFinished DEF Closed
  <2>3. QED
    BY <2>2 DEF Finishing
<1>10. QED
  BY <1>4, <1>5, <1>6, <1>7, <1>8, <1>9

\* clearBuffer() keeps the invariant: it hands the first chunk on, or all of them,
LEMMA ClearBufferKeeps ==
  ASSUME WritableAssumption, IInv, ClearBuffer
  PROVE  IInv'
<1> USE DEF IInv
<1> DEFINE all == options.writev /\ Len(state.buffer) > 1
           ids == IF all THEN state.buffer ELSE <<Head(state.buffer)>>
           rest == IF all THEN << >> ELSE Tail(state.buffer)
           len == IF all THEN state.length ELSE chunks[ids[1]]
           w   == IF all THEN "written" ELSE "next"
           r   == Tail(todo)
<1>1. /\ todo # << >> /\ todo[1].op = "clearBuffer"
      /\ UNCHANGED <<options, ticks, chunks, accepted, given, answered, called, sink>>
      /\ state' = [DoWrite(state, ids, all, len) EXCEPT !.bufferProcessing = TRUE]
      /\ todo' = <<Do("_write"), Do(w)>> \o r
  BY DEF ClearBuffer, At, Then, history
<1>2. MustClear(state) /\ ~Clearing(todo) /\ ~Clearing(r)
  <2>1. Has(todo, "clearBuffer")
    BY <1>1, Popped
  <2>2. MustClear(state) /\ ~Clearing(todo)
    BY <2>1 DEF Shape, MustClear
  <2>3. QED
    BY <1>1, <2>2, Popped
<1>3. state.buffer \in Seq(Nat) /\ state.buffer # << >> /\ ~Writing(state)
  BY <1>2 DEF MustClear, Typed, State
<1>4. Head(state.buffer) \in Nat /\ Tail(state.buffer) \in Seq(Nat)
      /\ state.buffer = <<Head(state.buffer)>> \o Tail(state.buffer)
  BY <1>3, HeadTail
<1>5. ids \in Seq(Nat) /\ ids # << >> /\ rest \in Seq(Nat) /\ state.buffer = ids \o rest
  BY <1>3, <1>4
<1>6. len \in Int
  <2>1. CASE all
    BY <2>1 DEF Typed, State
  <2>2. CASE ~all
    <3>1. ids[1] = Head(state.buffer) /\ Head(state.buffer) \in Range(state.buffer)
      BY <1>3, <2>2 DEF Range
    <3>2. ids[1] \in DOMAIN chunks /\ chunks \in Seq(Nat)
      BY <3>1 DEF Placed, Ids, Typed
    <3>3. QED
      BY <2>2, <3>2
  <2>3. QED
    BY <2>1, <2>2
<1>7. w \in Busy /\ all \in BOOLEAN
  BY DEF Busy
<1> HIDE DEF ids, len, w, r, rest, all
<1>8. /\ State(state') /\ \A g \in Fields \ {"writecb", "writelen", "bufferProcessing"} : state'[g] = state[g]
      /\ state'.writecb = [ids |-> ids, writev |-> all] /\ state'.bufferProcessing = TRUE
  <2>1. state' = [state EXCEPT !.writecb = [ids |-> ids, writev |-> all], !.writelen = len,
                               !.bufferProcessing = TRUE]
    BY <1>1 DEF DoWrite, Typed, State, Fields
  <2>2. [ids |-> ids, writev |-> all] \in Cb
    BY <1>5, <1>7 DEF Cb
  <2> DEFINE cb == [ids |-> ids, writev |-> all]
  <2> HIDE DEF cb
  <2>3. state' = [state EXCEPT !.writecb = cb, !.writelen = len, !.bufferProcessing = TRUE] /\ cb \in Cb
    BY <2>1, <2>2 DEF cb
  <2>4. State(state') /\ state'.writecb = cb /\ state'.bufferProcessing = TRUE
    BY <1>6, <2>3 DEF Typed, State, Fields
  <2>5. \A g \in Fields \ {"writecb", "writelen", "bufferProcessing"} : state'[g] = state[g]
    BY <2>3 DEF Typed, State, Fields
  <2>6. QED
    BY <2>4, <2>5 DEF cb
<1>9. state'.writecb.ids = ids /\ state'.writecb.writev = all
  BY <1>8
<1>10. /\ state'.buffer = state.buffer /\ state'.pendingcb = state.pendingcb /\ state'.destroyed = state.destroyed
       /\ state'.ending = state.ending /\ state'.finished = state.finished
  BY <1>8 DEF Fields
<1>11. /\ todo' \in Seq(Frame) /\ Stacked(todo') /\ Filled(todo') /\ (~sink.failed => Inner(todo')) /\ Clearing(todo')
       /\ ~Has(todo, "_write") /\ ~Has(r, "_write") /\ ~Has(r, "clearBuffer")
       /\ ~Has(r, "written") /\ ~Has(r, "next")
       /\ \A op : Has(todo', op) <=> op \in {"_write", w} \/ Has(r, op)
       /\ IdsIn(todo') = IdsIn(todo) /\ Distinct(todo') /\ (Rising(todo) => Rising(todo'))
       /\ Batched(todo') <=> Batched(todo)
       /\ SettledIn(todo') = SettledIn(todo)
       /\ Bearings(todo', Range(accepted), answered)
  BY <1>1, <1>2, <1>7, Hands DEF r
<1>12. /\ Has(todo', "_write") /\ (Has(todo', "written") <=> all) /\ (Has(todo', "next") <=> ~all)
       /\ ~Has(todo', "clearBuffer")
       /\ Has(todo', "finish") => Has(todo, "finish")
  <2>1. Has(r, "finish") => Has(todo, "finish")
    BY <1>1, Popped DEF r
  <2>2. QED
    BY <1>11, <2>1 DEF w
<1>13. Writing(state')
  BY <1>5, <1>9, NoneTyped DEF Writing
<1>14. Typed'
  BY <1>1, <1>8, <1>11 DEF Typed
<1>15. Shape'
  BY <1>1, <1>3, <1>5, <1>8, <1>9, <1>10, <1>11, <1>12, <1>13 DEF Shape
<1>16. ~Has(todo, "written") /\ ~Has(todo, "next")
  BY <1>2 DEF Has, Clearing, Busy
<1>17. Rest = state.buffer /\ Rest' = rest
  BY <1>10, <1>12, <1>16 DEF Rest, rest
<1>18. Placed' /\ Owed' /\ Ordered' /\ CallsOrdered' /\ Counted' /\ Finishing'
  BY <1>1, <1>3, <1>5, <1>7, <1>9, <1>10, <1>11, <1>12, <1>16, <1>17, HandKeeps
<1>19. QED
  BY <1>14, <1>15, <1>18

\* The stack when a call returns that bears no callback.
LEMMA PopPlain ==
  ASSUME Typed, Shape, Owed, todo # << >>, todo[1].op \notin Bearing
  PROVE  LET r == Tail(todo)
         IN /\ << >> \o r = r
            /\ IdsIn(r) = IdsIn(todo) /\ Distinct(r) /\ (Rising(todo) => Rising(r))
            /\ Batched(r) <=> Batched(todo)
            /\ SettledIn(r) = SettledIn(todo)
            /\ Bearings(r, Range(accepted), answered)
<1> DEFINE f == todo[1]
           r == Tail(todo)
<1>1. /\ r \in Seq(Frame)
      /\ IdsIn(todo) = Range(f.ids) \cup IdsIn(r) /\ Distinct(r)
      /\ Rising(todo) <=> Increasing(f.ids) /\ Rising(r)
      /\ Batched(todo) <=> (f.op \in {"afterWrite", "callback"} /\ f.writev) \/ Batched(r)
      /\ SettledIn(todo) =
           (IF f.op = "callbacks" /\ ~f.writev THEN Range(f.ids) ELSE {}) \cup SettledIn(r)
      /\ Bears(f, Range(accepted), answered) /\ Bearings(r, Range(accepted), answered)
  BY Popped
<1>2. f.op \notin Bearing
  OBVIOUS
<1> HIDE DEF f, r
<1>3. Range(f.ids) = {} /\ f.op \notin {"afterWrite", "callback", "callbacks"}
  BY <1>1, <1>2, SmallFacts DEF Bears, Bearing
<1>4. << >> \o r = r
  BY <1>1, Several
<1>5. SettledIn(r) = SettledIn(todo)
  BY <1>1, <1>3
<1>6. QED
  BY <1>1, <1>3, <1>4, <1>5 DEF r

\* What clearBuffer() keeps when it ends: nothing waits that did not.
LEMMA ClearedKeeps ==
  ASSUME IInv, Rest' = Rest, InHand' = InHand,
         Has(todo', "_write") <=> Has(todo, "_write"), Has(todo', "finish") => Has(todo, "finish"),
         state'.writecb = state.writecb, state'.destroyed = state.destroyed,
         state'.ending = state.ending, state'.finished = state.finished,
         Range(state'.buffer) \subseteq Range(state.buffer), state.buffer # << >>,
         ~Has(todo', "written"), state'.pendingcb = state.pendingcb + One(Has(todo, "written")),
         UNCHANGED <<options, ticks, chunks, accepted, given, answered, called, sink>>,
         IdsIn(todo') = IdsIn(todo), Distinct(todo'), Rising(todo) => Rising(todo'),
         Batched(todo') <=> Batched(todo), SettledIn(todo') = SettledIn(todo),
         Bearings(todo', Range(accepted), answered)
  PROVE  Placed' /\ Owed' /\ Ordered' /\ CallsOrdered' /\ Counted' /\ Finishing'
<1> USE DEF IInv
<1>1. Placed'
  BY DEF Placed, Ids
<1>2. Owed'
  BY DEF Owed, Ids
<1>3. Ordered'
  BY DEF Ordered, Writing
<1>4. CallsOrdered'
  BY DEF CallsOrdered
<1>5. Uncalled' = Uncalled
  BY DEF Uncalled
<1>6. Counted'
  <2>1. Cardinality(Uncalled) \in Nat /\ state.pendingcb \in Nat
    BY UncalledFinite DEF Counted
  <2>2. state.pendingcb + One(Has(todo, "written"))
          >= Cardinality(Uncalled) + One(state.writecb.writev) + One(Batched(todo))
    BY DEF Counted
  <2>3. state'.pendingcb \in Nat
    BY <2>1 DEF One
  <2>4. (state.pendingcb + One(Has(todo, "written"))
           >= Cardinality(Uncalled) + One(state.writecb.writev) + One(Batched(todo)))'
    BY <1>5, <2>1, <2>2 DEF One
  <2>5. QED
    BY <2>3, <2>4 DEF Counted
<1>7. Finishing'
  <2>1. ~state.finished /\ ~Has(todo, "finish") /\ sink.finishes = 0
    BY NotFinished DEF Closed
  <2>2. QED
    BY <2>1 DEF Finishing
<1>8. QED
  BY <1>1, <1>2, <1>3, <1>4, <1>6, <1>7

\* drops the queue after _writev,
LEMMA WrittenKeeps ==
  ASSUME IInv, Written
  PROVE  IInv'
<1> USE DEF IInv
<1> DEFINE r == Tail(todo)
<1>1. /\ todo # << >> /\ todo[1].op = "written" /\ todo' = << >> \o r
      /\ state' = [state EXCEPT !.pendingcb = state.pendingcb + 1, !.buffer = << >>, !.bufferProcessing = FALSE]
      /\ UNCHANGED <<options, ticks, chunks, accepted, given, answered, called, sink>>
  BY DEF Written, QueueDropped, At, Then, history
<1>2. /\ r \in Seq(Frame) /\ Stacked(r) /\ Filled(r)
      /\ ~Has(r, "_write") /\ ~Has(r, "clearBuffer") /\ ~Clearing(r)
      /\ ~sink.failed => Inner(r)
      /\ \A op : Has(todo, op) <=> "written" = op \/ Has(r, op)
      /\ Clearing(todo)
  BY <1>1, Popped DEF Busy
<1>3. /\ todo' = r
      /\ IdsIn(todo') = IdsIn(todo) /\ Distinct(todo') /\ (Rising(todo) => Rising(todo'))
      /\ Batched(todo') <=> Batched(todo)
      /\ SettledIn(todo') = SettledIn(todo)
      /\ Bearings(todo', Range(accepted), answered)
  BY <1>1, PopPlain DEF Bearing
<1> HIDE DEF r
<1>4. /\ State(state') /\ state'.pendingcb = state.pendingcb + 1 /\ state'.buffer = << >>
      /\ state'.bufferProcessing = FALSE
      /\ \A g \in Fields \ {"pendingcb", "buffer", "bufferProcessing"} : state'[g] = state[g]
  <2>1. state.pendingcb + 1 \in Int /\ << >> \in Seq(Nat)
    BY DEF Typed, State
  <2> DEFINE a == state.pendingcb + 1
  <2>2. a \in Int
    BY <2>1
  <2> HIDE DEF a
  <2>3. state' = [state EXCEPT !.pendingcb = a, !.buffer = << >>, !.bufferProcessing = FALSE]
    BY <1>1 DEF a
  <2>4. State(state') /\ state'.pendingcb = a /\ state'.buffer = << >> /\ state'.bufferProcessing = FALSE
    BY <2>1, <2>2, <2>3 DEF Typed, State, Fields
  <2>5. \A g \in Fields \ {"pendingcb", "buffer", "bufferProcessing"} : state'[g] = state[g]
    BY <2>3 DEF Typed, State, Fields
  <2>6. QED
    BY <2>4, <2>5 DEF a
<1>5. /\ state'.writecb = state.writecb /\ state'.destroyed = state.destroyed /\ state'.corked = state.corked
      /\ state'.ending = state.ending /\ state'.finished = state.finished
  BY <1>4 DEF Fields
<1>6. /\ ~Has(todo, "_write") /\ Has(todo, "written") /\ ~Has(todo, "next")
      /\ ~Has(r, "written") /\ ~Has(r, "next")
      /\ Has(r, "finish") => Has(todo, "finish")
  BY <1>2 DEF Has, Clearing, Busy
<1>7. Rest' = << >> /\ Rest = << >> /\ InHand' = InHand
  BY <1>2, <1>3, <1>4, <1>6 DEF Rest, InHand
<1>8. Typed'
  BY <1>1, <1>2, <1>3, <1>4 DEF Typed
<1>9. Shape'
  BY <1>1, <1>2, <1>3, <1>4, <1>5 DEF Shape, Writing
<1>10. state.buffer # << >>
  BY <1>2 DEF Shape
<1>11. Range(state'.buffer) \subseteq Range(state.buffer)
  BY <1>4, SmallFacts
<1>12. state'.pendingcb = state.pendingcb + One(Has(todo, "written"))
  BY <1>4, <1>6 DEF One
<1>13. Placed' /\ Owed' /\ Ordered' /\ CallsOrdered' /\ Counted' /\ Finishing'
  BY <1>1, <1>2, <1>3, <1>5, <1>6, <1>7, <1>10, <1>11, <1>12, ClearedKeeps
<1>14. QED
  BY <1>8, <1>9, <1>13

\* and goes on with the next chunk.
LEMMA NextEntryKeeps ==
  ASSUME IInv, NextEntry
  PROVE  IInv'
<1> USE DEF IInv
<1> DEFINE rest == Tail(state.buffer)
           r    == Tail(todo)
<1>1. /\ todo # << >> /\ todo[1].op = "next"
      /\ UNCHANGED <<options, ticks, chunks, accepted, given, answered, called, sink>>
      /\ IF rest # << >> /\ ~Writing(state)
         THEN /\ state' = DoWrite([state EXCEPT !.buffer = rest], <<Head(rest)>>, FALSE, chunks[Head(rest)])
              /\ todo' = <<Do("_write"), Do("next")>> \o r
         ELSE /\ state' = [state EXCEPT !.buffer = rest, !.bufferProcessing = FALSE]
              /\ todo' = << >> \o r
  <2>1. todo # << >> /\ todo[1].op = "next"
    BY DEF NextEntry, At
  <2>2. UNCHANGED <<options, ticks, chunks, accepted, given, answered, called, sink>>
    BY DEF NextEntry, history
  <2>3. IF rest # << >> /\ ~Writing(state)
        THEN /\ state' = DoWrite([state EXCEPT !.buffer = rest], <<Head(rest)>>, FALSE, chunks[Head(rest)])
             /\ todo' = <<Do("_write"), Do("next")>> \o r
        ELSE /\ state' = [state EXCEPT !.buffer = rest, !.bufferProcessing = FALSE]
             /\ todo' = << >> \o r
    BY DEF NextEntry, Then, Typed, State, Fields
  <2>4. QED
    BY <2>1, <2>2, <2>3
<1>2. /\ r \in Seq(Frame) /\ Stacked(r) /\ Filled(r)
      /\ ~Has(r, "_write") /\ ~Has(r, "clearBuffer") /\ ~Clearing(r)
      /\ ~sink.failed => Inner(r)
      /\ \A op : Has(todo, op) <=> "next" = op \/ Has(r, op)
      /\ Clearing(todo)
  BY <1>1, Popped DEF Busy
<1>3. /\ ~Has(todo, "_write") /\ ~Has(todo, "written") /\ Has(todo, "next")
      /\ ~Has(r, "written") /\ ~Has(r, "next")
      /\ Has(r, "finish") => Has(todo, "finish")
  BY <1>2 DEF Has, Clearing, Busy
<1>4. state.buffer # << >> /\ state.buffer \in Seq(Nat) /\ state.bufferProcessing = TRUE
  BY <1>2 DEF Shape, Typed, State
<1>5. /\ state.buffer = <<Head(state.buffer)>> \o rest /\ rest \in Seq(Nat) /\ <<Head(state.buffer)>> \in Seq(Nat)
      /\ Range(rest) \subseteq Range(state.buffer)
  <2>1. state.buffer = <<Head(state.buffer)>> \o rest /\ rest \in Seq(Nat) /\ <<Head(state.buffer)>> \in Seq(Nat)
    BY <1>4, HeadTail, SmallFacts
  <2> DEFINE h == <<Head(state.buffer)>>
  <2> HIDE DEF h, rest
  <2>2. Range(h \o rest) = Range(h) \cup Range(rest)
    BY <2>1, CatFacts, Zenon DEF h
  <2>3. QED
    BY <2>1, <2>2 DEF h
<1>6. Rest = rest
  BY <1>3 DEF Rest
<1> HIDE DEF r, rest
<1>7. CASE rest # << >> /\ ~Writing(state)
  <2> DEFINE ids == <<Head(rest)>>
             len == chunks[Head(rest)]
  <2>1. /\ state' = DoWrite([state EXCEPT !.buffer = rest], ids, FALSE, len)
        /\ todo' = <<Do("_write"), Do("next")>> \o r
    BY <1>1, <1>7
  <2>2. ids \in Seq(Nat) /\ ids # << >> /\ Tail(rest) \in Seq(Nat) /\ rest = ids \o Tail(rest)
    BY <1>5, <1>7, HeadTail, SmallFacts
  <2>3. len \in Int
    <3>1. Head(rest) \in Range(rest)
      BY <1>5, <1>7 DEF Range
    <3>2. Head(rest) \in DOMAIN chunks /\ chunks \in Seq(Nat)
      BY <1>5, <3>1 DEF Placed, Ids, Typed
    <3>3. QED
      BY <3>2
  <2> HIDE DEF ids, len
  <2>4. /\ State(state') /\ \A g \in Fields \ {"writecb", "writelen", "buffer"} : state'[g] = state[g]
        /\ state'.writecb = [ids |-> ids, writev |-> FALSE] /\ state'.buffer = rest
    <3> DEFINE cb == [ids |-> ids, writev |-> FALSE]
    <3>1. cb \in Cb
      BY <2>2 DEF Cb
    <3>2. state' = [state EXCEPT !.buffer = rest, !.writecb = cb, !.writelen = len]
      BY <2>1 DEF DoWrite, Typed, State, Fields
    <3> HIDE DEF cb
    <3>3. State(state') /\ state'.writecb = cb /\ state'.buffer = rest
      BY <1>5, <2>3, <3>1, <3>2 DEF Typed, State, Fields
    <3>4. \A g \in Fields \ {"writecb", "writelen", "buffer"} : state'[g] = state[g]
      BY <3>2 DEF Typed, State, Fields
    <3>5. QED
      BY <3>3, <3>4 DEF cb
  <2>5. state'.writecb.ids = ids /\ state'.writecb.writev = FALSE
    BY <2>4
  <2>6. /\ state'.pendingcb = state.pendingcb /\ state'.destroyed = state.destroyed
        /\ state'.ending = state.ending /\ state'.finished = state.finished
        /\ state'.bufferProcessing = state.bufferProcessing
    BY <2>4 DEF Fields
  <2>7. /\ todo' \in Seq(Frame) /\ Stacked(todo') /\ Filled(todo') /\ (~sink.failed => Inner(todo')) /\ Clearing(todo')
        /\ \A op : Has(todo', op) <=> op \in {"_write", "next"} \/ Has(r, op)
        /\ IdsIn(todo') = IdsIn(todo) /\ Distinct(todo') /\ (Rising(todo) => Rising(todo'))
        /\ Batched(todo') <=> Batched(todo)
        /\ SettledIn(todo') = SettledIn(todo)
        /\ Bearings(todo', Range(accepted), answered)
    <3>1. "next" \in Busy
      BY DEF Busy
    <3>2. QED
      BY <1>1, <1>2, <2>1, <3>1, Hands DEF r
  <2>8. /\ Has(todo', "_write") /\ ~Has(todo', "written") /\ Has(todo', "next")
        /\ ~Has(todo', "clearBuffer")
        /\ Has(todo', "finish") => Has(todo, "finish")
    BY <1>2, <1>3, <2>7
  <2>9. Writing(state')
    BY <2>2, <2>5, NoneTyped DEF Writing
  <2>10. Typed'
    BY <1>1, <2>4, <2>7 DEF Typed
  <2>11. Shape'
    BY <1>1, <1>4, <1>7, <2>2, <2>4, <2>5, <2>6, <2>7, <2>8, <2>9 DEF Shape
  <2>12. Rest' = Tail(rest)
    BY <2>4, <2>8 DEF Rest
  <2>13. Placed' /\ Owed' /\ Ordered' /\ CallsOrdered' /\ Counted' /\ Finishing'
    BY <1>1, <1>3, <1>5, <1>6, <1>7, <2>2, <2>4, <2>5, <2>6, <2>7, <2>8, <2>12, HandKeeps
  <2>14. QED
    BY <2>10, <2>11, <2>13
<1>8. CASE ~(rest # << >> /\ ~Writing(state))
  <2>1. /\ state' = [state EXCEPT !.buffer = rest, !.bufferProcessing = FALSE]
        /\ todo' = << >> \o r
    BY <1>1, <1>8
  <2>2. /\ State(state') /\ state'.buffer = rest /\ state'.bufferProcessing = FALSE
        /\ \A g \in Fields \ {"buffer", "bufferProcessing"} : state'[g] = state[g]
    <3>1. State(state') /\ state'.buffer = rest /\ state'.bufferProcessing = FALSE
      BY <1>5, <2>1 DEF Typed, State, Fields
    <3>2. \A g \in Fields \ {"buffer", "bufferProcessing"} : state'[g] = state[g]
      BY <2>1 DEF Typed, State, Fields
    <3>3. QED
      BY <3>1, <3>2
  <2>3. /\ state'.writecb = state.writecb /\ state'.destroyed = state.destroyed /\ state'.corked = state.corked
        /\ state'.ending = state.ending /\ state'.finished = state.finished /\ state'.pendingcb = state.pendingcb
    BY <2>2 DEF Fields
  <2>4. /\ todo' = r
        /\ IdsIn(todo') = IdsIn(todo) /\ Distinct(todo') /\ (Rising(todo) => Rising(todo'))
        /\ Batched(todo') <=> Batched(todo)
        /\ SettledIn(todo') = SettledIn(todo)
        /\ Bearings(todo', Range(accepted), answered)
    BY <1>1, <2>1, PopPlain DEF Bearing, r
  <2>5. Rest' = rest /\ InHand' = InHand
    BY <1>2, <1>3, <2>2, <2>4 DEF Rest, InHand
  <2>6. Typed'
    BY <1>1, <1>2, <2>2, <2>4 DEF Typed
  <2>7. Shape'
    BY <1>1, <1>2, <1>8, <2>2, <2>3, <2>4 DEF Shape, Writing
  <2>8. state'.pendingcb = state.pendingcb + One(Has(todo, "written"))
    BY <1>3, <2>3 DEF One, Typed, State
  <2>9. Placed' /\ Owed' /\ Ordered' /\ CallsOrdered' /\ Counted' /\ Finishing'
    BY <1>1, <1>2, <1>3, <1>4, <1>5, <1>6, <2>2, <2>3, <2>4, <2>5, <2>8, ClearedKeeps
  <2>10. QED
    BY <2>6, <2>7, <2>9
<1>9. QED
  BY <1>7, <1>8

-----------------------------------------------------------------------------
(* The sink's answers.                                                     *)

\* The stack when the sink returns,
LEMMA SinkReturns ==
  ASSUME Typed, Shape, Owed, todo # << >>, todo[1].op = "_write"
  PROVE  LET r == Tail(todo)
         IN /\ r \in Seq(Frame) /\ Stacked(r) /\ Filled(r) /\ (~sink.failed => Inner(r)) /\ << >> \o r = r
            /\ \A op : Has(todo, op) <=> "_write" = op \/ Has(r, op)
            /\ ~Has(r, "_write") /\ ~Has(r, "clearBuffer")
            /\ Clearing(r) <=> Clearing(todo)
            /\ IdsIn(r) = IdsIn(todo) /\ Distinct(r) /\ (Rising(todo) => Rising(r))
            /\ Batched(r) <=> Batched(todo)
            /\ SettledIn(r) = SettledIn(todo)
            /\ Bearings(r, Range(accepted), answered)
<1> DEFINE r == Tail(todo)
<1>1. /\ r \in Seq(Frame) /\ Stacked(r) /\ Filled(r) /\ (~sink.failed => Inner(r))
      /\ \A op : Has(todo, op) <=> "_write" = op \/ Has(r, op)
      /\ ~Has(r, "_write") /\ ~Has(r, "clearBuffer")
      /\ Clearing(r) <=> Clearing(todo)
  BY Popped DEF Busy
<1>2. /\ << >> \o r = r
      /\ IdsIn(r) = IdsIn(todo) /\ Distinct(r) /\ (Rising(todo) => Rising(r))
      /\ Batched(r) <=> Batched(todo)
      /\ SettledIn(r) = SettledIn(todo)
      /\ Bearings(r, Range(accepted), answered)
  BY PopPlain DEF Bearing
<1>3. QED
  BY <1>1, <1>2

\* and when the buffer is to be cleared then, or an error to be told.
LEMMA SinkReturnsTo ==
  ASSUME Typed, Shape, Owed, todo # << >>, todo[1].op = "_write", NEW o \in {"clearBuffer", "error"}
  PROVE  LET r == Tail(todo)
             t == <<Do(o)>> \o r
         IN /\ t \in Seq(Frame) /\ Stacked(t) /\ Filled(t)
            /\ ~sink.failed /\ ~Clearing(todo) => Inner(t)
            /\ \A op : Has(t, op) <=> o = op \/ Has(r, op)
            /\ Clearing(t) <=> Clearing(todo)
            /\ IdsIn(t) = IdsIn(todo) /\ Distinct(t) /\ (Rising(todo) => Rising(t))
            /\ Batched(t) <=> Batched(todo)
            /\ SettledIn(t) = SettledIn(todo)
            /\ Bearings(t, Range(accepted), answered)
<1> DEFINE f == todo[1]
           r == Tail(todo)
           t == <<Do(o)>> \o r
<1>1. /\ r \in Seq(Frame) /\ Stacked(r) /\ Filled(r) /\ (~sink.failed => Inner(r))
      /\ Clearing(r) <=> Clearing(todo)
      /\ IdsIn(r) = IdsIn(todo) /\ Distinct(r) /\ (Rising(todo) => Rising(r))
      /\ Batched(r) <=> Batched(todo)
      /\ SettledIn(r) = SettledIn(todo)
      /\ Bearings(r, Range(accepted), answered)
  BY SinkReturns
<1>2. f \in Frame /\ Over(f, r) /\ f.op = "_write"
  BY Popped
<1>3. o \in Frames /\ Do(o) \in Frame /\ Do(o).op = o
  BY DoTyped DEF Frames
<1> HIDE DEF f, r
<1>4. Over(Do(o), r)
  BY <1>1, <1>2, <1>3, OverInstead DEF Busy, Owing
<1>5. /\ t \in Seq(Frame) /\ Stacked(t) /\ Filled(t)
      /\ ~sink.failed /\ ~Clearing(todo) => Inner(t)
      /\ \A op : Has(t, op) <=> o = op \/ Has(r, op)
      /\ Clearing(t) <=> Clearing(todo)
  BY <1>1, <1>3, <1>4, DoCons DEF Busy
<1>6. /\ IdsIn(t) = IdsIn(r) /\ (Distinct(t) <=> Distinct(r)) /\ (Rising(t) <=> Rising(r))
      /\ Batched(t) <=> Batched(r)
      /\ SettledIn(t) = SettledIn(r)
      /\ \A A, D : Bearings(t, A, D) <=> Bearings(r, A, D)
  BY <1>1, <1>3, DoCons
<1>7. QED
  BY <1>1, <1>5, <1>6 DEF r

\* What the sink has been given when the chunks in hand are handed to it.
LEMMA Handing ==
  ASSUME IInv, Has(todo, "_write"), ~state.destroyed, given' = given \o state.writecb.ids
  PROVE  /\ given' \in Seq(Nat) /\ Range(given') = Range(given) \cup Range(state.writecb.ids)
         /\ IsInjective(given') /\ Range(given') \cap Range(Rest) = {}
         /\ Range(given') \subseteq Range(accepted)
         /\ ~sink.failed => /\ accepted = given' \o Rest /\ Len(given') <= Len(accepted)
                            /\ \A k \in DOMAIN given' : given'[k] = accepted[k]
<1> USE DEF IInv
<1> DEFINE w == state.writecb.ids
<1>1. w \in Seq(Nat) /\ given \in Seq(Nat) /\ Rest \in Seq(Nat)
  BY InHandTyped, RestFacts DEF Typed
<1> HIDE DEF w
<1>2. /\ given \o w \in Seq(Nat)
      /\ Range(given \o w) = Range(given) \cup Range(w)
      /\ IsInjective(given \o w) <=> IsInjective(given) /\ IsInjective(w) /\ Range(given) \cap Range(w) = {}
  BY <1>1, CatFacts, Zenon
<1>3. given' = given \o w
  BY DEF w
<1>4. /\ IsInjective(w) /\ IsInjective(given) /\ Range(given) \cap Range(w) = {}
      /\ Range(w) \subseteq Range(accepted) /\ Range(given) \subseteq Range(accepted)
      /\ Range(given) \cap Range(Rest) = {} /\ Range(w) \cap Range(Rest) = {}
  BY DEF Placed, w
<1>5. ASSUME ~sink.failed
      PROVE  /\ accepted = given' \o Rest /\ Len(given') <= Len(accepted)
             /\ \A k \in DOMAIN given' : given'[k] = accepted[k]
  <2>1. accepted = given \o (w \o Rest)
    BY <1>5 DEF Ordered, InHand, w
  <2>2. accepted = given' \o Rest
    <3>1. (given \o w) \o Rest = given \o (w \o Rest)
      BY <1>1, ConcatAssociative
    <3>2. QED
      BY <1>3, <2>1, <3>1
  <2>3. given' \in Seq(Nat)
    BY <1>2, <1>3
  <2>4. QED
    BY <1>1, <2>2, <2>3
<1>6. QED
  BY <1>2, <1>3, <1>4, <1>5 DEF w

\* The sink takes the chunks and will answer later.
LEMMA SinkTakesKeeps ==
  ASSUME IInv, SinkTakes
  PROVE  IInv'
<1> USE DEF IInv
<1> DEFINE r == Tail(todo)
           w == state.writecb.ids
<1>1. /\ todo # << >> /\ todo[1].op = "_write" /\ ~state.destroyed /\ todo' = << >> \o r
      /\ given' = given \o w
      /\ UNCHANGED <<options, state, ticks, chunks, accepted, answered, called, sink>>
  BY DEF SinkTakes, Handed, At, Then
<1>2. /\ r \in Seq(Frame) /\ Stacked(r) /\ Filled(r) /\ (~sink.failed => Inner(r)) /\ << >> \o r = r
      /\ \A op : Has(todo, op) <=> "_write" = op \/ Has(r, op)
      /\ ~Has(r, "_write") /\ ~Has(r, "clearBuffer")
      /\ Clearing(r) <=> Clearing(todo)
      /\ IdsIn(r) = IdsIn(todo) /\ Distinct(r) /\ (Rising(todo) => Rising(r))
      /\ Batched(r) <=> Batched(todo)
      /\ SettledIn(r) = SettledIn(todo)
      /\ Bearings(r, Range(accepted), answered)
  BY <1>1, SinkReturns
<1>3. todo' = r
  BY <1>1, <1>2
<1> HIDE DEF r, w
<1>4. /\ Has(todo, "_write") /\ ~Has(todo', "_write") /\ ~Has(todo', "clearBuffer") /\ ~Has(todo, "clearBuffer")
      /\ \A op \in {"written", "next", "finish"} : Has(todo', op) <=> Has(todo, op)
  BY <1>2, <1>3
<1>5. /\ given' \in Seq(Nat) /\ Range(given') = Range(given) \cup Range(w)
      /\ IsInjective(given') /\ Range(given') \cap Range(Rest) = {}
      /\ Range(given') \subseteq Range(accepted)
      /\ ~sink.failed => /\ accepted = given' \o Rest /\ Len(given') <= Len(accepted)
                         /\ \A k \in DOMAIN given' : given'[k] = accepted[k]
  BY <1>1, <1>4, Handing DEF w
<1>6. Rest' = Rest /\ InHand' = << >>
  BY <1>1, <1>4 DEF Rest, InHand
<1>7. Typed'
  BY <1>1, <1>2, <1>3, <1>5 DEF Typed
<1>8. Shape'
  BY <1>1, <1>2, <1>3, <1>4 DEF Shape
<1>9. Placed'
  BY <1>1, <1>4, <1>5, <1>6 DEF Placed, Ids
<1>10. Owed'
  BY <1>1, <1>2, <1>3 DEF Owed, Ids
<1>11. Ordered'
  <2>1. << >> \o Rest = Rest
    BY RestFacts
  <2>2. QED
    BY <1>1, <1>4, <1>5, <1>6, <2>1 DEF Ordered, w
<1>12. CallsOrdered'
  BY <1>1, <1>2, <1>3, <1>4, <1>6 DEF CallsOrdered
<1>13. Uncalled' = Uncalled
  BY <1>1, <1>2, <1>3 DEF Uncalled
<1>14. Counted'
  BY <1>1, <1>2, <1>3, <1>4, <1>13 DEF Counted, One
<1>15. Finishing'
  BY <1>1, <1>4, <1>13 DEF Finishing, Closed
<1>16. QED
  BY <1>7, <1>8, <1>9, <1>10, <1>11, <1>12, <1>14, <1>15

\* What the sink answers for: chunks whose callbacks nothing bears yet.
LEMMA Answering ==
  ASSUME IInv, Writing(state), answered' = answered \cup Range(state.writecb.ids)
  PROVE  /\ state.writecb.ids \in Seq(Nat) /\ Range(state.writecb.ids) # {}
         /\ IsInjective(state.writecb.ids) /\ Increasing(state.writecb.ids)
         /\ Range(state.writecb.ids) \subseteq Range(accepted) \ answered
         /\ Range(state.writecb.ids) \subseteq Uncalled
         /\ answered' \subseteq Range(accepted) /\ answered' \subseteq Nat
         /\ Range(state.writecb.ids) \cap Range(Rest) = {}
         /\ Range(state.writecb.ids) \cap (IdsIn(todo) \cup IdsIn(ticks) \cup Range(called)) = {}
         /\ ~state.finished /\ ~Has(todo, "finish") /\ sink.finishes = 0
         /\ state.writecb.writev \in BOOLEAN
<1> USE DEF IInv
<1> DEFINE w == state.writecb.ids
<1>1. w \in Seq(Nat) /\ w # << >> /\ state.writecb.writev \in BOOLEAN /\ accepted \in Seq(Nat)
  BY DEF Typed, State, Cb, Shape
<1>2. Range(w) # {} /\ Range(accepted) \subseteq Nat
  <2>1. Range(w) # {}
    BY <1>1, NotEmpty
  <2>2. Range(accepted) \subseteq Nat
    BY <1>1 DEF Range
  <2>3. QED
    BY <2>1, <2>2
<1>3. IsInjective(w) /\ Increasing(w) /\ Range(w) \subseteq Range(accepted) \ answered
      /\ Range(w) \cap Range(Rest) = {} /\ answered \subseteq Range(accepted)
  BY DEF Placed, CallsOrdered
<1>4. Range(w) \subseteq Uncalled /\ Range(w) \cap (IdsIn(todo) \cup IdsIn(ticks) \cup Range(called)) = {}
  BY <1>3, OpenFacts
<1>5. ~state.finished /\ ~Has(todo, "finish") /\ sink.finishes = 0
  BY NotFinished DEF Closed
<1>6. QED
  BY <1>1, <1>2, <1>3, <1>4, <1>5

\* It answers before _write returns.
LEMMA SinkAnswersAtOnceKeeps ==
  ASSUME IInv, SinkAnswersAtOnce
  PROVE  IInv'
<1> USE DEF IInv
<1> DEFINE r == Tail(todo)
           w == state.writecb.ids
           clears == ~NeedFinish(state') /\ MustClear(state')
<1>1. /\ todo # << >> /\ todo[1].op = "_write" /\ ~state.destroyed
      /\ state' = StateUpdate(state)
      /\ given' = given \o w /\ answered' = answered \cup Range(w)
      /\ sink' = [sink EXCEPT !.sync = TRUE]
      /\ todo' = (IF clears THEN <<Do("clearBuffer")>> ELSE << >>) \o r
      /\ UNCHANGED <<options, ticks, chunks, accepted, called>>
  BY DEF SinkAnswersAtOnce, Handed, At, Then
<1>2. /\ State(state') /\ \A g \in Fields \ {"writecb", "writelen", "length"} : state'[g] = state[g]
      /\ state'.writecb = None /\ ~Writing(state') /\ state'.writecb.ids = << >> /\ ~state'.writecb.writev
  BY <1>1, StateUpdateFacts DEF Typed
<1>3. /\ state'.buffer = state.buffer /\ state'.pendingcb = state.pendingcb /\ state'.destroyed = state.destroyed
      /\ state'.ending = state.ending /\ state'.finished = state.finished
      /\ state'.bufferProcessing = state.bufferProcessing /\ state'.corked = state.corked
  BY <1>2 DEF Fields
<1>4. sink' \in [failed : BOOLEAN, sync : BOOLEAN, finishes : Nat] /\ sink'.failed = sink.failed
      /\ sink'.finishes = sink.finishes
  BY <1>1 DEF Typed
<1> HIDE DEF clears
<1>5. /\ todo' \in Seq(Frame) /\ Stacked(todo') /\ Filled(todo') /\ (~sink.failed => Inner(todo'))
      /\ \A op : Has(todo', op) <=> (clears /\ op = "clearBuffer") \/ Has(r, op)
      /\ Clearing(todo') <=> Clearing(todo)
      /\ IdsIn(todo') = IdsIn(todo) /\ Distinct(todo') /\ (Rising(todo) => Rising(todo'))
      /\ Batched(todo') <=> Batched(todo)
      /\ SettledIn(todo') = SettledIn(todo)
      /\ Bearings(todo', Range(accepted), answered)
  <2>1. CASE clears
    <3>1. todo' = <<Do("clearBuffer")>> \o r
      BY <1>1, <2>1
    <3>2. ~Clearing(todo)
      BY <1>3, <2>1 DEF clears, MustClear, Shape
    <3>3. QED
      BY <1>1, <2>1, <3>1, <3>2, SinkReturnsTo
  <2>2. CASE ~clears
    <3>1. todo' = << >> \o r
      BY <1>1, <2>2
    <3>2. QED
      BY <1>1, <2>2, <3>1, SinkReturns
  <2>3. QED
    BY <2>1, <2>2
<1>6. /\ \A op : Has(todo, op) <=> "_write" = op \/ Has(r, op)
      /\ ~Has(r, "_write") /\ ~Has(r, "clearBuffer")
  BY <1>1, SinkReturns
<1>7. /\ Has(todo, "_write") /\ ~Has(todo', "_write")
      /\ Has(todo', "clearBuffer") <=> clears
      /\ \A op \in {"written", "next", "finish"} : Has(todo', op) <=> Has(todo, op)
  BY <1>5, <1>6
<1>8. Writing(state)
  BY <1>7 DEF Shape
<1>9. /\ w \in Seq(Nat) /\ Range(w) # {}
      /\ Range(w) \subseteq Range(accepted) \ answered
      /\ answered' \subseteq Range(accepted) /\ answered' \subseteq Nat
      /\ Range(w) \cap Range(Rest) = {}
      /\ Range(w) \cap (IdsIn(todo) \cup IdsIn(ticks) \cup Range(called)) = {}
      /\ ~state.finished /\ ~Has(todo, "finish") /\ sink.finishes = 0
  BY <1>1, <1>8, Answering
<1>10. /\ given' \in Seq(Nat) /\ Range(given') = Range(given) \cup Range(w)
       /\ IsInjective(given') /\ Range(given') \cap Range(Rest) = {}
       /\ Range(given') \subseteq Range(accepted)
       /\ ~sink.failed => /\ accepted = given' \o Rest /\ Len(given') <= Len(accepted)
                          /\ \A k \in DOMAIN given' : given'[k] = accepted[k]
  BY <1>1, <1>7, Handing
<1> HIDE DEF r, w
<1>11. Rest' = Rest /\ InHand' = << >>
  BY <1>3, <1>7 DEF Rest, InHand
<1>12. Typed'
  BY <1>1, <1>2, <1>4, <1>5, <1>9, <1>10 DEF Typed
<1>13. Shape'
  <2>1. ~sink.failed /\ ~state'.destroyed /\ state'.corked = 0 /\ ~Writing(state') /\ state'.buffer # << >>
          => Has(todo', "clearBuffer") \/ Clearing(todo')
    <3>1. ~Clearing(todo) => ~state.bufferProcessing
      BY DEF Shape
    <3>2. QED
      BY <1>3, <1>5, <1>7, <3>1 DEF clears, MustClear, NeedFinish
  <2>2. Has(todo', "clearBuffer") => MustClear(state')
    BY <1>7 DEF clears
  <2>3. QED
    BY <1>1, <1>2, <1>3, <1>4, <1>5, <1>7, <2>1, <2>2 DEF Shape
<1>14. Range(<< >>) = {} /\ IsInjective(<< >>) /\ Increasing(<< >>)
  BY SmallFacts
<1>15. Placed'
  BY <1>1, <1>2, <1>3, <1>7, <1>9, <1>10, <1>11, <1>14 DEF Placed, Ids
<1>16. Bearings(todo', Range(accepted), answered') /\ Bearings(ticks, Range(accepted), answered')
  BY <1>1, <1>5, BearingsMono DEF Owed, Typed
<1>17. Owed'
  BY <1>1, <1>5, <1>16 DEF Owed, Ids
<1>18. Ordered'
  <2>1. << >> \o Rest = Rest
    BY RestFacts
  <2>2. ~sink.failed => answered' \subseteq Range(given')
    BY <1>1, <1>10 DEF Ordered
  <2>3. QED
    BY <1>1, <1>2, <1>4, <1>10, <1>11, <2>1, <2>2 DEF Ordered
<1>19. CallsOrdered'
  <2>1. IdsIn(todo') \cap answered' = IdsIn(todo) \cap answered
    BY <1>1, <1>5, <1>9
  <2>2. IdsIn(ticks) \cap answered' = IdsIn(ticks) \cap answered
    BY <1>1, <1>9
  <2>3. Range(called) \cap answered' = Range(called) \cap answered
    BY <1>1, <1>9
  <2>4. ASSUME ~sink.failed
        PROVE  /\ Before(answered', Range(Rest))
               /\ Rising(todo') /\ Rising(ticks)
               /\ Before(Range(called) \cap answered', IdsIn(todo') \cap answered')
               /\ IdsIn(ticks) \cap answered' = {}
    <3>1. Before(answered, Range(Rest)) /\ Before(Range(w), Range(Rest))
      BY <1>1, <2>4 DEF CallsOrdered, w
    <3>2. Before(answered', Range(Rest))
      BY <1>1, <3>1 DEF Before
    <3>3. QED
      BY <1>5, <2>1, <2>2, <2>3, <2>4, <3>2 DEF CallsOrdered
  <2>5. ASSUME ~sink.failed, NEW m \in DOMAIN called, NEW n \in DOMAIN called, m < n,
               {called[m], called[n]} \subseteq answered'
        PROVE  called[m] < called[n]
    <3>1. called[m] \in Range(called) /\ called[n] \in Range(called)
      BY DEF Range
    <3>2. {called[m], called[n]} \subseteq answered
      BY <2>3, <2>5, <3>1
    <3>3. QED
      BY <2>5, <3>2 DEF CallsOrdered
  <2>6. Before(answered', {}) /\ Before({}, Range(Rest))
    BY DEF Before
  <2>7. Increasing(Rest)
    BY DEF CallsOrdered
  <2>8. QED
    BY <1>1, <1>2, <1>3, <1>4, <1>7, <1>11, <1>14, <2>4, <2>5, <2>6, <2>7 DEF CallsOrdered
<1>20. Uncalled' = Uncalled
  BY <1>1, <1>5 DEF Uncalled
<1>21. Counted'
  <2>1. Cardinality(Uncalled) \in Nat /\ state.pendingcb \in Nat
    BY UncalledFinite DEF Counted
  <2>2. state.pendingcb + One(Has(todo, "written"))
          >= Cardinality(Uncalled) + One(state.writecb.writev) + One(Batched(todo))
    BY DEF Counted
  <2>3. (state.pendingcb + One(Has(todo, "written"))
           >= Cardinality(Uncalled) + One(state.writecb.writev) + One(Batched(todo)))'
    BY <1>2, <1>3, <1>5, <1>7, <1>20, <2>1, <2>2 DEF One
  <2>4. (Has(todo, "written") => \E i \in Uncalled : state.writecb.writev \/ i \notin Range(state.writecb.ids))'
    BY <1>2, <1>7, <1>14, <1>20 DEF Counted
  <2>5. QED
    BY <1>3, <2>1, <2>3, <2>4 DEF Counted
<1>22. Finishing'
  BY <1>3, <1>4, <1>7, <1>9 DEF Finishing
<1>23. QED
  BY <1>12, <1>13, <1>15, <1>17, <1>18, <1>19, <1>21, <1>22

\* The sink answers in a task of its own: afterWrite() follows.
LEMMA SinkAnswersKeeps ==
  ASSUME IInv, SinkAnswers
  PROVE  IInv'
<1> USE DEF IInv
<1> DEFINE w == state.writecb.ids
           finished == NeedFinish(state') \/ state.destroyed
           clears == ~finished /\ MustClear(state')
           g == AfterWrite(state.writecb, finished)
           s == <<g>>
<1>1. /\ todo = << >> /\ Writing(state)
      /\ state' = StateUpdate(state)
      /\ answered' = answered \cup Range(w)
      /\ todo' = IF clears THEN <<Do("clearBuffer")>> \o s ELSE s
      /\ UNCHANGED <<options, ticks, chunks, accepted, given, called, sink>>
  BY DEF SinkAnswers
<1>2. /\ State(state') /\ \A f \in Fields \ {"writecb", "writelen", "length"} : state'[f] = state[f]
      /\ state'.writecb = None /\ ~Writing(state') /\ state'.writecb.ids = << >> /\ ~state'.writecb.writev
  BY <1>1, StateUpdateFacts DEF Typed
<1>3. /\ state'.buffer = state.buffer /\ state'.pendingcb = state.pendingcb /\ state'.destroyed = state.destroyed
      /\ state'.ending = state.ending /\ state'.finished = state.finished
      /\ state'.bufferProcessing = state.bufferProcessing /\ state'.corked = state.corked
  BY <1>2 DEF Fields
<1>4. /\ IdsIn(todo) = {} /\ SettledIn(todo) = {} /\ ~Batched(todo) /\ ~Clearing(todo)
      /\ \A op : ~Has(todo, op)
  BY <1>1, Nothing
<1>5. g \in Frame /\ g.op = "afterWrite" /\ g.ids = w /\ g.writev = state.writecb.writev
  <2>1. state.writecb \in Cb /\ finished \in BOOLEAN
    BY DEF Typed, State
  <2>2. QED
    BY <2>1, AfterWriteTyped
<1>6. /\ w \in Seq(Nat) /\ Range(w) # {} /\ w # << >>
      /\ IsInjective(w) /\ Increasing(w)
      /\ Range(w) \subseteq Range(accepted) \ answered
      /\ answered' \subseteq Range(accepted) /\ answered' \subseteq Nat
      /\ Range(w) \cap Range(Rest) = {}
      /\ Range(w) \cap (IdsIn(todo) \cup IdsIn(ticks) \cup Range(called)) = {}
      /\ ~state.finished /\ ~Has(todo, "finish") /\ sink.finishes = 0
  BY <1>1, Answering, SmallFacts
<1> HIDE DEF g, clears, finished
<1>7. /\ s \in Seq(Frame) /\ Stacked(s) /\ Filled(s) /\ ~Clearing(s)
      /\ \A op : Has(s, op) <=> g.op = op
      /\ Distinct(s) /\ Rising(s) /\ IdsIn(s) = Range(w)
      /\ Batched(s) <=> state.writecb.writev
      /\ SettledIn(s) = {}
  <2>1. /\ s \in Seq(Frame)
        /\ \A op : Has(s, op) <=> g.op = op
        /\ Clearing(s) <=> g.op \in Busy
        /\ Stacked(s)
        /\ Distinct(s) <=> IsInjective(g.ids)
        /\ IdsIn(s) = Range(g.ids)
        /\ Rising(s) <=> Increasing(g.ids)
        /\ Filled(s) <=> (g.op \in {"afterWrite", "callback"} => g.ids # << >>)
        /\ Batched(s) <=> g.op \in {"afterWrite", "callback"} /\ g.writev
        /\ SettledIn(s) = IF g.op = "callbacks" /\ ~g.writev THEN Range(g.ids) ELSE {}
    BY <1>5, Single
  <2>2. QED
    BY <1>5, <1>6, <2>1 DEF Busy
<1>8. Bearings(s, Range(accepted), answered')
  <2>1. Bears(g, Range(accepted), answered')
    BY <1>1, <1>5 DEF Bears, Bearing
  <2>2. QED
    BY <1>5, <2>1, Single
<1>9. Inner(s) /\ \A f : Above(f, g) => Over(f, s)
  <2>1. DOMAIN s = {1} /\ s[1] = g /\ ~(1 < 1)
    OBVIOUS
  <2>2. QED
    BY <2>1 DEF Inner, Over
<1> HIDE DEF s
<1>10. /\ todo' \in Seq(Frame) /\ Stacked(todo') /\ Filled(todo') /\ Inner(todo')
       /\ \A op : Has(todo', op) <=> (clears /\ op = "clearBuffer") \/ op = "afterWrite"
       /\ ~Clearing(todo')
       /\ IdsIn(todo') = Range(w) /\ Distinct(todo') /\ Rising(todo')
       /\ Batched(todo') <=> state.writecb.writev
       /\ SettledIn(todo') = {}
       /\ Bearings(todo', Range(accepted), answered')
  <2>1. CASE clears
    <3>1. todo' = <<Do("clearBuffer")>> \o s
      BY <1>1, <2>1
    <3>2. "clearBuffer" \in Frames /\ Do("clearBuffer") \in Frame /\ Do("clearBuffer").op = "clearBuffer"
      BY DoTyped DEF Frames
    <3>3. Over(Do("clearBuffer"), s)
      <4>1. Above(Do("clearBuffer"), g)
        BY <1>5, <3>2 DEF Above, Busy, Owing
      <4>2. QED
        BY <1>9, <4>1
    <3>4. /\ todo' \in Seq(Frame) /\ Stacked(todo') /\ Filled(todo') /\ Inner(todo')
          /\ \A op : Has(todo', op) <=> "clearBuffer" = op \/ Has(s, op)
          /\ ~Clearing(todo')
      BY <1>7, <1>9, <3>1, <3>2, <3>3, DoCons DEF Busy
    <3>5. /\ IdsIn(todo') = IdsIn(s) /\ (Distinct(todo') <=> Distinct(s)) /\ (Rising(todo') <=> Rising(s))
          /\ Batched(todo') <=> Batched(s)
          /\ SettledIn(todo') = SettledIn(s)
          /\ \A A, D : Bearings(todo', A, D) <=> Bearings(s, A, D)
      BY <1>7, <3>1, <3>2, DoCons
    <3>6. QED
      BY <1>5, <1>7, <1>8, <2>1, <3>4, <3>5
  <2>2. CASE ~clears
    <3>1. todo' = s
      BY <1>1, <2>2
    <3>2. QED
      BY <1>5, <1>7, <1>8, <1>9, <2>2, <3>1
  <2>3. QED
    BY <2>1, <2>2
<1>11. /\ \A op \in {"_write", "written", "next", "finish"} : ~Has(todo', op)
       /\ Has(todo', "clearBuffer") <=> clears
  BY <1>10
<1> HIDE DEF w
<1>12. Rest' = Rest /\ InHand' = InHand
  BY <1>3, <1>4, <1>11 DEF Rest, InHand
<1>13. Typed'
  BY <1>1, <1>2, <1>6, <1>10 DEF Typed
<1>14. Shape'
  <2>1. ~sink.failed /\ ~state'.destroyed /\ state'.corked = 0 /\ ~Writing(state') /\ state'.buffer # << >>
          => Has(todo', "clearBuffer") \/ Clearing(todo')
    <3>1. ~state.bufferProcessing
      BY <1>4 DEF Shape
    <3>2. QED
      BY <1>3, <1>11, <3>1 DEF clears, finished, MustClear, NeedFinish
  <2>2. Has(todo', "clearBuffer") => MustClear(state')
    BY <1>11 DEF clears
  <2>3. QED
    BY <1>1, <1>2, <1>3, <1>4, <1>10, <1>11, <2>1, <2>2 DEF Shape
<1>15. Range(<< >>) = {} /\ IsInjective(<< >>) /\ Increasing(<< >>)
  BY SmallFacts
<1>16. Placed'
  BY <1>1, <1>2, <1>3, <1>6, <1>11, <1>12, <1>15 DEF Placed, Ids
<1>17. Bearings(ticks, Range(accepted), answered')
  BY <1>1, BearingsMono DEF Owed, Typed
<1>18. Owed'
  BY <1>1, <1>4, <1>6, <1>10, <1>17 DEF Owed, Ids
<1>19. Ordered'
  <2>1. ~sink.failed => answered' \subseteq Range(given)
    BY <1>1, <1>4 DEF Ordered, w
  <2>2. QED
    BY <1>1, <1>2, <1>3, <1>12, <2>1 DEF Ordered
<1>20. CallsOrdered'
  <2>1. IdsIn(todo') \cap answered' = Range(w)
    BY <1>1, <1>10
  <2>2. IdsIn(ticks) \cap answered' = IdsIn(ticks) \cap answered
    BY <1>1, <1>6
  <2>3. Range(called) \cap answered' = Range(called) \cap answered
    BY <1>1, <1>6
  <2>4. ASSUME ~sink.failed
        PROVE  /\ Before(answered', Range(Rest))
               /\ Rising(todo') /\ Rising(ticks)
               /\ Before(Range(called) \cap answered', IdsIn(todo') \cap answered')
               /\ IdsIn(ticks) \cap answered' = {}
    <3>1. Before(answered, Range(Rest)) /\ Before(Range(w), Range(Rest)) /\ Before(answered, Range(w))
      BY <1>4, <2>4 DEF CallsOrdered, w
    <3>2. Before(answered', Range(Rest))
      BY <1>1, <3>1 DEF Before
    <3>3. Before(Range(called) \cap answered, Range(w))
      BY <3>1 DEF Before
    <3>4. QED
      BY <1>10, <2>1, <2>2, <2>3, <2>4, <3>2, <3>3 DEF CallsOrdered
  <2>5. ASSUME ~sink.failed, NEW m \in DOMAIN called, NEW n \in DOMAIN called, m < n,
               {called[m], called[n]} \subseteq answered'
        PROVE  called[m] < called[n]
    <3>1. called[m] \in Range(called) /\ called[n] \in Range(called)
      BY DEF Range
    <3>2. {called[m], called[n]} \subseteq answered
      BY <2>3, <2>5, <3>1
    <3>3. QED
      BY <2>5, <3>2 DEF CallsOrdered
  <2>6. Before(answered', {}) /\ Before({}, Range(Rest))
    BY DEF Before
  <2>7. Increasing(Rest)
    BY DEF CallsOrdered
  <2>8. QED
    BY <1>1, <1>2, <1>3, <1>12, <1>15, <2>4, <2>5, <2>6, <2>7 DEF CallsOrdered
<1>21. Uncalled' = Uncalled
  BY <1>1, <1>4, <1>10 DEF Uncalled
<1>22. Counted'
  <2>1. Cardinality(Uncalled) \in Nat /\ state.pendingcb \in Nat
    BY UncalledFinite DEF Counted
  <2>2. state.pendingcb + One(Has(todo, "written"))
          >= Cardinality(Uncalled) + One(state.writecb.writev) + One(Batched(todo))
    BY DEF Counted
  <2>3. (state.pendingcb + One(Has(todo, "written"))
           >= Cardinality(Uncalled) + One(state.writecb.writev) + One(Batched(todo)))'
    BY <1>2, <1>3, <1>4, <1>10, <1>11, <1>21, <2>1, <2>2 DEF One
  <2>4. QED
    BY <1>3, <1>11, <2>1, <2>3 DEF Counted
<1>23. Finishing'
  BY <1>1, <1>3, <1>6, <1>11 DEF Finishing
<1>24. QED
  BY <1>13, <1>14, <1>16, <1>18, <1>19, <1>20, <1>22, <1>23

\* A failed write is settled: one callback less is counted, and one at least is scheduled.
LEMMA FailCounted ==
  ASSUME IInv, Writing(state), UNCHANGED <<accepted, called>>,
         answered' = answered \cup Range(state.writecb.ids),
         state'.pendingcb = state.pendingcb - 1,
         state'.writecb.ids = << >>, ~state'.writecb.writev,
         Has(todo', "written") <=> Has(todo, "written"), Batched(todo') <=> Batched(todo),
         SettledIn(todo') \cup SettledIn(ticks') =
           SettledIn(todo) \cup SettledIn(ticks)
             \cup (IF state.writecb.writev THEN {} ELSE Range(state.writecb.ids))
  PROVE  Counted'
<1> USE DEF IInv
<1> DEFINE w == Range(state.writecb.ids)
<1>1. w # {} /\ w \subseteq Uncalled
  BY Answering
<1>2. Cardinality(Uncalled) \in Nat /\ IsFiniteSet(Uncalled) /\ state.pendingcb \in Nat
  BY UncalledFinite DEF Counted
<1>3. state.pendingcb + One(Has(todo, "written"))
        >= Cardinality(Uncalled) + One(state.writecb.writev) + One(Batched(todo))
  BY DEF Counted
<1>4. Uncalled' = Uncalled \ (IF state.writecb.writev THEN {} ELSE w)
  BY DEF Uncalled
<1>5. Range(state'.writecb.ids) = {}
  BY SmallFacts
<1> HIDE DEF w
<1>6. CASE state.writecb.writev
  <2>1. Uncalled' = Uncalled /\ Cardinality(Uncalled) # 0
    <3>1. Uncalled' = Uncalled
      BY <1>4, <1>6
    <3>2. Uncalled # {}
      BY <1>1
    <3>3. QED
      BY <1>2, <3>1, <3>2, FS_EmptySet
  <2>2. One(state.writecb.writev) = 1
    BY <1>6 DEF One
  <2>3. (state.pendingcb + One(Has(todo, "written"))
           >= Cardinality(Uncalled) + One(state.writecb.writev) + One(Batched(todo)))'
    BY <1>2, <1>3, <2>1, <2>2 DEF One
  <2>4. (state.pendingcb \in Nat)'
    BY <1>2, <1>3, <2>1, <2>2 DEF One
  <2>5. (Has(todo, "written") => \E i \in Uncalled : state.writecb.writev \/ i \notin Range(state.writecb.ids))'
    BY <1>1, <1>5, <2>1
  <2>6. QED
    BY <2>3, <2>4, <2>5 DEF Counted
<1>7. CASE ~state.writecb.writev
  <2>1. PICK i \in w : TRUE
    BY <1>1
  <2>2. Uncalled' \subseteq Uncalled \ {i} /\ Uncalled' = Uncalled \ w
    BY <1>4, <1>7, <2>1
  <2>3. Cardinality(Uncalled \ {i}) = Cardinality(Uncalled) - 1 /\ IsFiniteSet(Uncalled \ {i})
    BY <1>1, <1>2, <2>1, FS_RemoveElement
  <2>4. /\ Cardinality(Uncalled') <= Cardinality(Uncalled) - 1
        /\ IsFiniteSet(Uncalled') /\ Cardinality(Uncalled') \in Nat
    BY <2>2, <2>3, FS_Subset, FS_CardinalityType
  <2>5. Has(todo, "written") => Uncalled' # {}
    <3>1. Has(todo, "written") => \E j \in Uncalled : j \notin w
      BY <1>7 DEF Counted, w
    <3>2. QED
      BY <2>2, <3>1
  <2>6. Has(todo, "written") => Cardinality(Uncalled') # 0
    BY <2>4, <2>5, FS_EmptySet
  <2>7. One(state.writecb.writev) = 0
    BY <1>7 DEF One
  <2>8. (state.pendingcb + One(Has(todo, "written"))
           >= Cardinality(Uncalled) + One(state.writecb.writev) + One(Batched(todo)))'
    BY <1>2, <1>3, <2>4, <2>7 DEF One
  <2>9. (state.pendingcb \in Nat)'
    BY <1>2, <1>3, <2>4, <2>6, <2>7 DEF One
  <2>10. (Has(todo, "written") => \E j \in Uncalled : state.writecb.writev \/ j \notin Range(state.writecb.ids))'
    BY <1>5, <2>5
  <2>11. QED
    BY <2>8, <2>9, <2>10 DEF Counted
<1>8. QED
  BY <1>6, <1>7

\* The failed write's fields of the state.
LEMMA FailFacts ==
  ASSUME NEW s, State(s), NEW d, d = [StateUpdate(s) EXCEPT !.pendingcb = s.pendingcb - 1]
  PROVE  /\ State(d) /\ \A f \in Fields \ {"writecb", "writelen", "length", "pendingcb"} : d[f] = s[f]
         /\ d.writecb = None /\ ~Writing(d) /\ d.writecb.ids = << >> /\ ~d.writecb.writev
         /\ d.pendingcb = s.pendingcb - 1
<1> DEFINE a == s.pendingcb - 1
           l == s.length - s.writelen
<1>1. a \in Int /\ l \in Int /\ None \in Cb
  BY NoneTyped DEF State
<1> HIDE DEF a, l
<1>2. d = [s EXCEPT !.writecb = None, !.length = l, !.writelen = 0, !.pendingcb = a]
  BY DEF StateUpdate, State, Fields, a, l
<1> DEFINE cb == None
<1>3. cb \in Cb /\ d = [s EXCEPT !.writecb = cb, !.length = l, !.writelen = 0, !.pendingcb = a]
  BY <1>1, <1>2
<1> HIDE DEF cb
<1>6. DOMAIN d = Fields
  BY <1>3 DEF State, Fields
<1>7. /\ d.length \in Int /\ d.writelen \in Int /\ d.pendingcb \in Int /\ d.corked \in 0..MaxCorks
      /\ d.buffer \in Seq(Nat) /\ d.writecb \in Cb
  <2>1. d.length = l /\ d.writelen = 0 /\ d.pendingcb = a /\ d.writecb = cb
    BY <1>3 DEF State, Fields
  <2>2. d.corked = s.corked /\ d.buffer = s.buffer
    BY <1>3 DEF State, Fields
  <2>3. s.corked \in 0..MaxCorks /\ s.buffer \in Seq(Nat)
    BY DEF State
  <2>4. QED
    BY <1>1, <1>3, <2>1, <2>2, <2>3
<1>8. /\ d.bufferProcessing \in BOOLEAN /\ d.needDrain \in BOOLEAN /\ d.ending \in BOOLEAN
      /\ d.prefinished \in BOOLEAN /\ d.finalCalled \in BOOLEAN /\ d.finished \in BOOLEAN
      /\ d.destroyed \in BOOLEAN
  BY <1>3 DEF State, Fields
<1>9. d.writecb = None /\ d.pendingcb = a
  BY <1>3 DEF State, Fields, cb
<1>4. \A f \in Fields \ {"writecb", "writelen", "length", "pendingcb"} : d[f] = s[f]
  BY <1>3 DEF State, Fields
<1>5. State(d)
  BY <1>6, <1>7, <1>8 DEF State
<1>10. QED
  BY <1>4, <1>5, <1>9, NoneTyped DEF Writing, a

\* It fails before _write returns: the callbacks are put off to a tick.
LEMMA SinkFailsAtOnceKeeps ==
  ASSUME IInv, SinkFailsAtOnce
  PROVE  IInv'
<1> USE DEF IInv
<1> DEFINE r == Tail(todo)
           w == state.writecb.ids
           c == Calls(state.writecb)
<1>1. /\ todo # << >> /\ todo[1].op = "_write"
      /\ state' = [StateUpdate(state) EXCEPT !.pendingcb = state.pendingcb - 1]
      /\ given' = (IF state.destroyed THEN given ELSE given \o w)
      /\ answered' = answered \cup Range(w)
      /\ sink' = [sink EXCEPT !.failed = TRUE]
      /\ ticks' = Append(ticks, c)
      /\ todo' = <<Do("error")>> \o r
      /\ UNCHANGED <<options, chunks, accepted, called>>
  <2>1. state' = [StateUpdate(state) EXCEPT !.pendingcb = state.pendingcb - 1]
    BY DEF SinkFailsAtOnce, StateUpdate, Typed, State, Fields
  <2>2. QED
    BY <2>1 DEF SinkFailsAtOnce, Handed, At, Then
<1>2. /\ State(state') /\ \A f \in Fields \ {"writecb", "writelen", "length", "pendingcb"} : state'[f] = state[f]
      /\ state'.writecb = None /\ ~Writing(state') /\ state'.writecb.ids = << >> /\ ~state'.writecb.writev
      /\ state'.pendingcb = state.pendingcb - 1
  <2>1. State(state)
    BY DEF Typed
  <2>2. QED
    BY <1>1, <2>1, FailFacts, ZenonT(60)
<1>3. /\ state'.buffer = state.buffer /\ state'.destroyed = state.destroyed
      /\ state'.ending = state.ending /\ state'.finished = state.finished
      /\ state'.bufferProcessing = state.bufferProcessing /\ state'.corked = state.corked
  BY <1>2 DEF Fields
<1>4. sink' \in [failed : BOOLEAN, sync : BOOLEAN, finishes : Nat] /\ sink'.failed = TRUE
      /\ sink'.finishes = sink.finishes
  BY <1>1 DEF Typed
<1>5. /\ todo' \in Seq(Frame) /\ Stacked(todo') /\ Filled(todo')
      /\ \A op : Has(todo', op) <=> "error" = op \/ Has(r, op)
      /\ Clearing(todo') <=> Clearing(todo)
      /\ IdsIn(todo') = IdsIn(todo) /\ Distinct(todo')
      /\ Batched(todo') <=> Batched(todo)
      /\ SettledIn(todo') = SettledIn(todo)
      /\ Bearings(todo', Range(accepted), answered)
  BY <1>1, SinkReturnsTo
<1>6. /\ \A op : Has(todo, op) <=> "_write" = op \/ Has(r, op)
      /\ ~Has(r, "_write") /\ ~Has(r, "clearBuffer")
  BY <1>1, SinkReturns
<1>7. /\ Has(todo, "_write") /\ ~Has(todo', "_write") /\ ~Has(todo', "clearBuffer")
      /\ \A op \in {"written", "next", "finish"} : Has(todo', op) <=> Has(todo, op)
  BY <1>5, <1>6
<1>8. Writing(state)
  BY <1>7 DEF Shape
<1>9. /\ w \in Seq(Nat) /\ Range(w) # {} /\ IsInjective(w)
      /\ Range(w) \subseteq Range(accepted) \ answered
      /\ answered' \subseteq Range(accepted) /\ answered' \subseteq Nat
      /\ Range(w) \cap Range(Rest) = {}
      /\ Range(w) \cap (IdsIn(todo) \cup IdsIn(ticks) \cup Range(called)) = {}
      /\ ~state.finished /\ ~Has(todo, "finish") /\ sink.finishes = 0
      /\ state.writecb.writev \in BOOLEAN
  BY <1>1, <1>8, Answering
<1>10. c \in Frame /\ c.op = "callbacks" /\ c.ids = w /\ c.writev = state.writecb.writev
  <2>1. state.writecb \in Cb
    BY DEF Typed, State
  <2>2. QED
    BY <2>1, CallsTyped
<1>11. /\ given' \in Seq(Nat) /\ IsInjective(given') /\ Range(given') \cap Range(Rest) = {}
       /\ Range(given') \subseteq Range(accepted)
  <2>1. CASE state.destroyed
    BY <1>1, <2>1 DEF Typed, Placed
  <2>2. CASE ~state.destroyed
    BY <1>1, <1>7, <2>2, Handing
  <2>3. QED
    BY <2>1, <2>2
<1> HIDE DEF r, w, c
<1>12. /\ ticks' \in Seq(Frame) /\ \A k \in DOMAIN ticks' : ticks'[k].op = "callbacks"
       /\ IdsIn(ticks') = IdsIn(ticks) \cup Range(w)
       /\ Distinct(ticks')
       /\ SettledIn(ticks') = SettledIn(ticks) \cup (IF ~c.writev THEN Range(w) ELSE {})
       /\ \A A, D : Bearings(ticks', A, D) <=> Bearings(ticks, A, D) /\ Bears(c, A, D)
  <2>1. ticks \in Seq(Frame) /\ \A k \in DOMAIN ticks : ticks[k].op = "callbacks"
    BY DEF Typed, Shape
  <2>2. /\ ticks' \in Seq(Frame) /\ \A k \in DOMAIN ticks' : ticks'[k].op = "callbacks"
        /\ IdsIn(ticks') = IdsIn(ticks) \cup Range(c.ids)
        /\ Distinct(ticks') <=> Distinct(ticks) /\ IsInjective(c.ids) /\ IdsIn(ticks) \cap Range(c.ids) = {}
        /\ SettledIn(ticks') = SettledIn(ticks) \cup (IF ~c.writev THEN Range(c.ids) ELSE {})
        /\ \A A, D : Bearings(ticks', A, D) <=> Bearings(ticks, A, D) /\ Bears(c, A, D)
    BY <1>1, <1>10, <2>1, TickAdded
  <2>3. Distinct(ticks')
    BY <1>9, <1>10, <2>2 DEF Owed
  <2>4. QED
    BY <1>10, <2>2, <2>3
<1>13. Rest' = Rest
  BY <1>3, <1>7 DEF Rest
<1>14. Typed'
  BY <1>1, <1>2, <1>4, <1>5, <1>9, <1>11, <1>12 DEF Typed
<1>15. Shape'
  BY <1>1, <1>2, <1>3, <1>4, <1>5, <1>7, <1>12 DEF Shape
<1>16. Range(<< >>) = {} /\ IsInjective(<< >>) /\ Increasing(<< >>)
  BY SmallFacts
<1>17. Placed'
  BY <1>1, <1>2, <1>3, <1>7, <1>9, <1>11, <1>13, <1>16 DEF Placed, Ids
<1>18. Owed'
  <2>1. Bearings(todo', Range(accepted), answered')
    BY <1>1, <1>5, BearingsMono DEF Owed, Typed
  <2>2. Bearings(ticks', Range(accepted), answered')
    <3>1. Bearings(ticks, Range(accepted), answered')
      BY <1>1, BearingsMono DEF Owed, Typed
    <3>2. Bears(c, Range(accepted), answered')
      BY <1>1, <1>10 DEF Bears, Bearing
    <3>3. QED
      BY <1>12, <3>1, <3>2
  <2>3. IdsIn(todo') \cup IdsIn(ticks') \cup Range(called) \subseteq answered' \cup (Ids \ Range(accepted))
    BY <1>1, <1>5, <1>12 DEF Owed
  <2>4. /\ IdsIn(todo') \cap IdsIn(ticks') = {}
        /\ (IdsIn(todo') \cup IdsIn(ticks')) \cap Range(called) = {}
    BY <1>5, <1>9, <1>12 DEF Owed
  <2>5. QED
    BY <1>1, <1>5, <1>12, <2>1, <2>2, <2>3, <2>4 DEF Owed, Ids
<1>19. Ordered'
  BY <1>4 DEF Ordered
<1>20. CallsOrdered'
  BY <1>2, <1>4, <1>13, <1>16 DEF CallsOrdered
<1>21. Counted'
  <2>1. SettledIn(todo') \cup SettledIn(ticks') =
          SettledIn(todo) \cup SettledIn(ticks)
            \cup (IF state.writecb.writev THEN {} ELSE Range(state.writecb.ids))
    BY <1>5, <1>10, <1>12 DEF w
  <2>2. QED
    BY <1>1, <1>2, <1>5, <1>7, <1>8, <2>1, FailCounted DEF w
<1>22. Finishing'
  BY <1>3, <1>4, <1>7, <1>9 DEF Finishing
<1>23. QED
  BY <1>14, <1>15, <1>17, <1>18, <1>19, <1>20, <1>21, <1>22

\* It fails in a task of its own: the callbacks come first.
LEMMA SinkFailsKeeps ==
  ASSUME IInv, SinkFails
  PROVE  IInv'
<1> USE DEF IInv
<1> DEFINE w == state.writecb.ids
           c == Calls(state.writecb)
           s == <<Do("finishMaybe")>>
           t == <<Do("error")>> \o s
<1>1. /\ todo = << >> /\ Writing(state)
      /\ state' = [StateUpdate(state) EXCEPT !.pendingcb = state.pendingcb - 1]
      /\ answered' = answered \cup Range(w)
      /\ sink' = [sink EXCEPT !.failed = TRUE]
      /\ todo' = <<c, Do("error"), Do("finishMaybe")>>
      /\ UNCHANGED <<options, ticks, chunks, accepted, given, called>>
  <2>1. state' = [StateUpdate(state) EXCEPT !.pendingcb = state.pendingcb - 1]
    BY DEF SinkFails, StateUpdate, Typed, State, Fields
  <2>2. QED
    BY <2>1 DEF SinkFails
<1>2. /\ State(state') /\ \A f \in Fields \ {"writecb", "writelen", "length", "pendingcb"} : state'[f] = state[f]
      /\ state'.writecb = None /\ ~Writing(state') /\ state'.writecb.ids = << >> /\ ~state'.writecb.writev
      /\ state'.pendingcb = state.pendingcb - 1
  <2>1. State(state)
    BY DEF Typed
  <2>2. QED
    BY <1>1, <2>1, FailFacts, ZenonT(60)
<1>3. /\ state'.buffer = state.buffer /\ state'.destroyed = state.destroyed
      /\ state'.ending = state.ending /\ state'.finished = state.finished
      /\ state'.bufferProcessing = state.bufferProcessing /\ state'.corked = state.corked
  BY <1>2 DEF Fields
<1>4. sink' \in [failed : BOOLEAN, sync : BOOLEAN, finishes : Nat] /\ sink'.failed = TRUE
      /\ sink'.finishes = sink.finishes
  BY <1>1 DEF Typed
<1>5. /\ IdsIn(todo) = {} /\ SettledIn(todo) = {} /\ ~Batched(todo) /\ ~Clearing(todo)
      /\ \A op : ~Has(todo, op)
  BY <1>1, Nothing
<1>6. /\ w \in Seq(Nat) /\ Range(w) # {} /\ IsInjective(w)
      /\ Range(w) \subseteq Range(accepted) \ answered
      /\ answered' \subseteq Range(accepted) /\ answered' \subseteq Nat
      /\ Range(w) \cap Range(Rest) = {}
      /\ Range(w) \cap (IdsIn(todo) \cup IdsIn(ticks) \cup Range(called)) = {}
      /\ ~state.finished /\ ~Has(todo, "finish") /\ sink.finishes = 0
      /\ state.writecb.writev \in BOOLEAN
  BY <1>1, Answering
<1>7. c \in Frame /\ c.op = "callbacks" /\ c.ids = w /\ c.writev = state.writecb.writev
  <2>1. state.writecb \in Cb
    BY DEF Typed, State
  <2>2. QED
    BY <2>1, CallsTyped
<1>8. /\ "error" \in Frames /\ Do("error") \in Frame /\ Do("error").op = "error"
      /\ "finishMaybe" \in Frames /\ Do("finishMaybe") \in Frame /\ Do("finishMaybe").op = "finishMaybe"
  BY DoTyped DEF Frames
<1> HIDE DEF c, w
<1>9. << >> \in Seq(Frame) /\ ~Do("finishMaybe").writev /\ Do("finishMaybe").ids = << >>
  BY DoTyped DEF Frames
<1>10. /\ s \in Seq(Frame) /\ Stacked(s) /\ Filled(s) /\ ~Clearing(s)
       /\ \A op : Has(s, op) <=> "finishMaybe" = op
       /\ IdsIn(s) = {} /\ Distinct(s) /\ ~Batched(s) /\ SettledIn(s) = {}
       /\ \A A, D : Bearings(s, A, D)
  <2> DEFINE g == Do("finishMaybe")
  <2>1. g \in Frame /\ g.op = "finishMaybe" /\ Range(g.ids) = {} /\ IsInjective(g.ids) /\ ~g.writev /\ g.ids = << >>
    BY <1>8, <1>9, SmallFacts
  <2>2. \A A, D : Bears(g, A, D)
    BY <2>1 DEF Bears
  <2> HIDE DEF g
  <2>3. s = <<g>>
    BY DEF g
  <2>4. /\ <<g>> \in Seq(Frame)
        /\ \A op : Has(<<g>>, op) <=> g.op = op
        /\ Clearing(<<g>>) <=> g.op \in Busy
        /\ Stacked(<<g>>)
        /\ Distinct(<<g>>) <=> IsInjective(g.ids)
        /\ IdsIn(<<g>>) = Range(g.ids)
        /\ Filled(<<g>>) <=> (g.op \in {"afterWrite", "callback"} => g.ids # << >>)
        /\ Batched(<<g>>) <=> g.op \in {"afterWrite", "callback"} /\ g.writev
        /\ SettledIn(<<g>>) = IF g.op = "callbacks" /\ ~g.writev THEN Range(g.ids) ELSE {}
        /\ \A A, D : Bearings(<<g>>, A, D) <=> Bears(g, A, D)
    BY <2>1, Single, Zenon
  <2>5. QED
    BY <2>1, <2>2, <2>3, <2>4 DEF Busy
<1>11. \A f \in {Do("error"), c} : Over(f, s)
  <2>1. Above(Do("error"), Do("finishMaybe")) /\ Above(c, Do("finishMaybe"))
    BY <1>7, <1>8 DEF Above, Busy, Owing
  <2>2. DOMAIN s = {1} /\ s[1] = Do("finishMaybe")
    OBVIOUS
  <2>3. QED
    BY <2>1, <2>2 DEF Over
<1> HIDE DEF s
<1>12. /\ t \in Seq(Frame) /\ Stacked(t) /\ Filled(t) /\ ~Clearing(t)
       /\ \A op : Has(t, op) <=> op \in {"error", "finishMaybe"}
       /\ IdsIn(t) = {} /\ Distinct(t) /\ ~Batched(t) /\ SettledIn(t) = {}
       /\ \A A, D : Bearings(t, A, D)
  <2>1. /\ t \in Seq(Frame) /\ Stacked(t) /\ Filled(t) /\ ~Clearing(t)
        /\ \A op : Has(t, op) <=> "error" = op \/ Has(s, op)
    BY <1>8, <1>10, <1>11, DoCons DEF Busy
  <2>2. /\ IdsIn(t) = {} /\ Distinct(t) /\ ~Batched(t) /\ SettledIn(t) = {}
        /\ \A A, D : Bearings(t, A, D)
    BY <1>8, <1>10, DoCons
  <2>3. QED
    BY <1>10, <2>1, <2>2
<1>13. Over(c, t)
  <2>1. Above(c, Do("error"))
    BY <1>7, <1>8 DEF Above, Busy, Owing
  <2>2. QED
    BY <1>7, <1>8, <1>10, <1>11, <2>1, OverCons
<1>14. todo' = <<c>> \o t
  <2>1. <<c, Do("error"), Do("finishMaybe")>> \o << >> = <<c>> \o (<<Do("error")>> \o (<<Do("finishMaybe")>> \o << >>))
    BY <1>7, <1>8, <1>9, Several
  <2>2. <<c, Do("error"), Do("finishMaybe")>> \o << >> = <<c, Do("error"), Do("finishMaybe")>>
    BY <1>7, <1>8
  <2>3. QED
    BY <1>1, <2>1, <2>2, Several, <1>8 DEF s
<1> HIDE DEF t
<1>15. /\ todo' \in Seq(Frame) /\ Stacked(todo') /\ Filled(todo') /\ ~Clearing(todo')
       /\ \A op : Has(todo', op) <=> op \in {"callbacks", "error", "finishMaybe"}
       /\ IdsIn(todo') = Range(w) /\ Distinct(todo') /\ ~Batched(todo')
       /\ SettledIn(todo') = (IF ~c.writev THEN Range(w) ELSE {})
       /\ Bearings(todo', Range(accepted), answered')
  <2>1. /\ todo' \in Seq(Frame)
        /\ \A op : Has(todo', op) <=> c.op = op \/ Has(t, op)
        /\ Clearing(todo') <=> c.op \in Busy \/ Clearing(t)
        /\ Stacked(todo') <=> Stacked(t) /\ Over(c, t)
        /\ Filled(todo') <=> Filled(t) /\ (c.op \in {"afterWrite", "callback"} => c.ids # << >>)
        /\ IdsIn(todo') = Range(c.ids) \cup IdsIn(t)
        /\ Distinct(todo') <=> IsInjective(c.ids) /\ Distinct(t) /\ Range(c.ids) \cap IdsIn(t) = {}
        /\ Batched(todo') <=> (c.op \in {"afterWrite", "callback"} /\ c.writev) \/ Batched(t)
        /\ SettledIn(todo') = (IF c.op = "callbacks" /\ ~c.writev THEN Range(c.ids) ELSE {}) \cup SettledIn(t)
        /\ \A A, D : Bearings(todo', A, D) <=> Bears(c, A, D) /\ Bearings(t, A, D)
    BY <1>7, <1>12, <1>14, Cons, Zenon
  <2>2. Bears(c, Range(accepted), answered')
    BY <1>1, <1>7 DEF Bears, Bearing
  <2>3. SettledIn(todo') = (IF ~c.writev THEN Range(w) ELSE {})
    BY <1>7, <1>12, <2>1
  <2>4. IdsIn(todo') = Range(w) /\ Distinct(todo')
    BY <1>6, <1>7, <1>12, <2>1
  <2>5. /\ todo' \in Seq(Frame) /\ Stacked(todo') /\ Filled(todo') /\ ~Clearing(todo')
        /\ \A op : Has(todo', op) <=> op \in {"callbacks", "error", "finishMaybe"}
    BY <1>7, <1>12, <1>13, <2>1 DEF Busy
  <2>6. ~Batched(todo') /\ Bearings(todo', Range(accepted), answered')
    BY <1>7, <1>12, <2>1, <2>2
  <2>7. QED
    BY <2>3, <2>4, <2>5, <2>6
<1>16. \A op \in {"_write", "clearBuffer", "written", "next", "finish"} : ~Has(todo', op)
  BY <1>15
<1>17. Rest' = Rest
  BY <1>3, <1>5, <1>16 DEF Rest
<1>18. Typed'
  BY <1>1, <1>2, <1>4, <1>6, <1>15 DEF Typed
<1>19. Shape'
  BY <1>1, <1>2, <1>3, <1>4, <1>5, <1>15, <1>16 DEF Shape
<1>20. Range(<< >>) = {} /\ IsInjective(<< >>) /\ Increasing(<< >>)
  BY SmallFacts
<1>21. Placed'
  BY <1>1, <1>2, <1>3, <1>6, <1>16, <1>17, <1>20 DEF Placed, Ids
<1>22. Owed'
  <2>1. Bearings(ticks, Range(accepted), answered')
    BY <1>1, BearingsMono DEF Owed, Typed
  <2>2. IdsIn(todo') \cup IdsIn(ticks) \cup Range(called) \subseteq answered' \cup (Ids \ Range(accepted))
    BY <1>1, <1>15 DEF Owed
  <2>3. /\ IdsIn(todo') \cap IdsIn(ticks) = {}
        /\ (IdsIn(todo') \cup IdsIn(ticks)) \cap Range(called) = {}
    BY <1>6, <1>15 DEF Owed
  <2>4. QED
    BY <1>1, <1>15, <2>1, <2>2, <2>3 DEF Owed, Ids
<1>23. Ordered'
  BY <1>4 DEF Ordered
<1>24. CallsOrdered'
  BY <1>2, <1>4, <1>17, <1>20 DEF CallsOrdered
<1>25. Counted'
  <2>1. SettledIn(todo') \cup SettledIn(ticks') =
          SettledIn(todo) \cup SettledIn(ticks)
            \cup (IF state.writecb.writev THEN {} ELSE Range(state.writecb.ids))
    BY <1>1, <1>5, <1>7, <1>15 DEF w
  <2>2. QED
    BY <1>1, <1>2, <1>5, <1>15, <1>16, <2>1, FailCounted DEF w
<1>26. Finishing'
  BY <1>3, <1>4, <1>6, <1>16 DEF Finishing
<1>27. QED
  BY <1>18, <1>19, <1>21, <1>22, <1>23, <1>24, <1>25, <1>26

\* Below a call that bears callbacks nothing bears any: it came from a task of its own, or
\* failed in one.
LEMMA OwingBelow ==
  ASSUME IInv, todo # << >>, todo[1].op \in Owing
  PROVE  LET f == todo[1]
             r == Tail(todo)
         IN /\ f \in Frame /\ r \in Seq(Frame) /\ todo = <<f>> \o r
            /\ Stacked(r) /\ Over(f, r) /\ Filled(r) /\ Inner(r) /\ ~Clearing(r) /\ ~Clearing(todo)
            /\ \A op : op \notin {"finishMaybe", "error"} => ~Has(r, op)
            /\ IdsIn(r) = {} /\ IdsIn(todo) = Range(f.ids) /\ IsInjective(f.ids)
            /\ Distinct(r) /\ Rising(r) /\ ~Batched(r) /\ SettledIn(r) = {}
            /\ Rising(todo) => Increasing(f.ids)
            /\ Batched(todo) <=> f.op \in {"afterWrite", "callback"} /\ f.writev
            /\ SettledIn(todo) = IF f.op = "callbacks" /\ ~f.writev THEN Range(f.ids) ELSE {}
            /\ f.op \in {"afterWrite", "callback"} => f.ids # << >>
            /\ Bears(f, Range(accepted), answered)
            /\ \A A, D : Bearings(r, A, D)
<1> USE DEF IInv
<1> DEFINE f == todo[1]
           r == Tail(todo)
<1>1. /\ f \in Frame /\ r \in Seq(Frame) /\ todo = <<f>> \o r
      /\ Stacked(r) /\ Over(f, r) /\ Filled(r)
      /\ f.op \in {"afterWrite", "callback"} => f.ids # << >>
  BY Popped
<1>2. /\ Clearing(todo) <=> f.op \in Busy \/ Clearing(r)
      /\ IdsIn(todo) = Range(f.ids) \cup IdsIn(r)
      /\ IsInjective(f.ids) /\ Distinct(r)
      /\ Rising(todo) <=> Increasing(f.ids) /\ Rising(r)
      /\ Batched(todo) <=> (f.op \in {"afterWrite", "callback"} /\ f.writev) \/ Batched(r)
      /\ SettledIn(todo) =
           (IF f.op = "callbacks" /\ ~f.writev THEN Range(f.ids) ELSE {}) \cup SettledIn(r)
      /\ Bears(f, Range(accepted), answered) /\ Bearings(r, Range(accepted), answered)
  BY Popped
<1>3. f.op \in Owing
  OBVIOUS
<1> HIDE DEF f, r
<1>4. \A k \in DOMAIN r : r[k].op \in {"finishMaybe", "error"}
  BY <1>1, <1>3 DEF Over, Above
<1>5. \A k \in DOMAIN r : r[k].ids = << >>
  BY <1>2, <1>4 DEF Bearings, Bears, Bearing
<1>6. Range(<< >>) = {} /\ IsInjective(<< >>) /\ Increasing(<< >>)
  BY SmallFacts
<1>7. IdsIn(r) = {} /\ Rising(r)
  BY <1>5, <1>6 DEF IdsIn, Rising
<1>8. ~Batched(r) /\ SettledIn(r) = {} /\ ~Clearing(r) /\ Inner(r)
  BY <1>4 DEF Batched, SettledIn, Clearing, Busy, Inner
<1>9. \A op : op \notin {"finishMaybe", "error"} => ~Has(r, op)
  BY <1>4 DEF Has
<1>10. \A A, D : Bearings(r, A, D)
  <2>1. \A k \in DOMAIN r : ~r[k].writev \/ Range(r[k].ids) = {}
    BY <1>5, <1>6
  <2>2. QED
    BY <1>4, <1>5, <1>6 DEF Bearings, Bears
<1>11. f.op \notin Busy
  BY <1>3 DEF Owing, Busy
<1>12. QED
  BY <1>1, <1>2, <1>7, <1>8, <1>9, <1>10, <1>11 DEF f, r

\* A callback less is counted where one batch, or one open write at least, is done with.
LEMMA DoneCounted ==
  ASSUME IInv, ~Has(todo, "written"), ~Has(todo', "written"),
         state'.pendingcb = state.pendingcb - 1,
         state'.writecb = state.writecb, ~Batched(todo'),
         Uncalled' \subseteq Uncalled, Batched(todo) \/ Uncalled' # Uncalled
  PROVE  Counted'
<1> USE DEF IInv
<1>1. Cardinality(Uncalled) \in Nat /\ IsFiniteSet(Uncalled) /\ state.pendingcb \in Nat
  BY UncalledFinite DEF Counted
<1>2. state.pendingcb >= Cardinality(Uncalled) + One(state.writecb.writev) + One(Batched(todo))
  BY <1>1 DEF Counted, One
<1>3. /\ Cardinality(Uncalled') <= Cardinality(Uncalled) /\ Cardinality(Uncalled') \in Nat
      /\ Uncalled' # Uncalled => Cardinality(Uncalled') < Cardinality(Uncalled)
  BY <1>1, FS_Subset, FS_CardinalityType
<1>4. Cardinality(Uncalled') <= Cardinality(Uncalled) - 1 + One(Batched(todo))
  BY <1>1, <1>3 DEF One
<1>5. One(state.writecb.writev) \in Nat /\ One(Batched(todo)) \in Nat /\ One(Batched(todo')) = 0
  BY DEF One
<1>6. state'.pendingcb \in Nat /\ state'.pendingcb >= Cardinality(Uncalled') + One(state.writecb.writev)
  BY <1>1, <1>2, <1>3, <1>4, <1>5
<1>7. QED
  BY <1>3, <1>5, <1>6 DEF Counted, One

\* What is said of chunks and callbacks when a callback is counted or called.
LEMMA DoneKeeps ==
  ASSUME IInv, todo # << >>, todo[1].op \in Owing, State(state'),
         todo' \in Seq(Frame), Stacked(todo'), Inner(todo'), Filled(todo'), ~Clearing(todo'),
         ~Has(todo', "_write"), ~Has(todo', "clearBuffer"), ~Has(todo', "finish"),
         \A f \in Fields \ {"pendingcb"} : state'[f] = state[f],
         UNCHANGED <<options, ticks, chunks, accepted, given, answered, sink>>,
         called' \in Seq(Nat), Uncalled' \subseteq Uncalled
  PROVE  Typed' /\ Shape' /\ Placed' /\ Ordered' /\ Finishing'
<1> USE DEF IInv
<1>1. /\ state'.buffer = state.buffer /\ state'.writecb = state.writecb /\ state'.destroyed = state.destroyed
      /\ state'.ending = state.ending /\ state'.finished = state.finished
      /\ state'.bufferProcessing = state.bufferProcessing /\ state'.corked = state.corked
  BY DEF Fields
<1>2. /\ ~Clearing(todo) /\ ~Has(todo, "_write") /\ ~Has(todo, "clearBuffer")
  <2>1. /\ ~Clearing(todo) /\ \A op : op \notin {"finishMaybe", "error"} => ~Has(Tail(todo), op)
        /\ todo[1] \in Frame /\ Tail(todo) \in Seq(Frame) /\ todo = <<todo[1]>> \o Tail(todo)
    BY OwingBelow
  <2>2. \A op : Has(todo, op) <=> todo[1].op = op \/ Has(Tail(todo), op)
    BY Popped
  <2>3. QED
    BY <2>1, <2>2 DEF Owing
<1>3. ~Has(todo, "written") /\ ~Has(todo, "next") /\ ~Has(todo', "written") /\ ~Has(todo', "next")
  BY <1>2 DEF Clearing, Busy, Has
<1>4. Rest' = Rest /\ InHand' = InHand
  BY <1>1, <1>2, <1>3 DEF Rest, InHand
<1>5. Typed'
  BY DEF Typed
<1>6. Shape'
  BY <1>1, <1>2 DEF Shape, Writing
<1>7. Placed'
  BY <1>1, <1>4 DEF Placed, Ids
<1>8. Ordered'
  BY <1>1, <1>2, <1>4 DEF Ordered, Writing
<1>9. Finishing'
  <2>1. state.finished => Uncalled' = {}
    BY DEF Finishing
  <2>2. Closed' <=> Closed
    BY <1>1 DEF Closed, Writing
  <2>3. QED
    BY <1>1, <2>1, <2>2 DEF Finishing
<1>10. QED
  BY <1>5, <1>6, <1>7, <1>8, <1>9

\* afterWrite() counts its callbacks, then calls them.
LEMMA AfterCallbackKeeps ==
  ASSUME IInv, AfterCallback
  PROVE  IInv'
<1> USE DEF IInv
<1> DEFINE f == todo[1]
           r == Tail(todo)
           c == Calls(f)
           s == <<Do("finishMaybe")>> \o r
<1>1. /\ todo # << >> /\ f.op = "callback"
      /\ state' = [state EXCEPT !.pendingcb = state.pendingcb - 1]
      /\ todo' = <<c, Do("finishMaybe")>> \o r
      /\ UNCHANGED <<options, ticks, chunks, accepted, given, answered, called, sink>>
  <2>1. state' = [state EXCEPT !.pendingcb = state.pendingcb - 1]
    BY DEF AfterCallback, Typed, State, Fields
  <2>2. QED
    BY <2>1 DEF AfterCallback, At, Then, history
<1>2. f.op \in Owing
  BY <1>1 DEF Owing
<1>3. /\ f \in Frame /\ r \in Seq(Frame)
      /\ Stacked(r) /\ Over(f, r) /\ Filled(r) /\ Inner(r) /\ ~Clearing(r) /\ ~Clearing(todo)
      /\ \A op : op \notin {"finishMaybe", "error"} => ~Has(r, op)
  BY <1>1, <1>2, OwingBelow
<1>4. /\ IdsIn(r) = {} /\ IdsIn(todo) = Range(f.ids) /\ IsInjective(f.ids)
      /\ Distinct(r) /\ Rising(r) /\ ~Batched(r) /\ SettledIn(r) = {}
      /\ Rising(todo) => Increasing(f.ids)
      /\ Batched(todo) <=> f.writev
      /\ SettledIn(todo) = {}
      /\ f.ids # << >>
      /\ Range(f.ids) \subseteq answered
      /\ \A A, D : Bearings(r, A, D)
  <2>1. /\ IdsIn(r) = {} /\ IdsIn(todo) = Range(f.ids) /\ IsInjective(f.ids)
        /\ Distinct(r) /\ Rising(r) /\ ~Batched(r) /\ SettledIn(r) = {}
        /\ Rising(todo) => Increasing(f.ids)
        /\ Batched(todo) <=> f.op \in {"afterWrite", "callback"} /\ f.writev
        /\ SettledIn(todo) = IF f.op = "callbacks" /\ ~f.writev THEN Range(f.ids) ELSE {}
        /\ f.op \in {"afterWrite", "callback"} => f.ids # << >>
        /\ Bears(f, Range(accepted), answered)
        /\ \A A, D : Bearings(r, A, D)
    BY <1>1, <1>2, OwingBelow, Zenon
  <2>2. QED
    BY <1>1, <2>1 DEF Bears
<1>5. c \in Frame /\ c.op = "callbacks" /\ c.ids = f.ids /\ c.writev = f.writev
  BY <1>3, CallsTyped
<1>6. "finishMaybe" \in Frames /\ Do("finishMaybe") \in Frame /\ Do("finishMaybe").op = "finishMaybe"
  BY DoTyped DEF Frames
<1>7. State(state') /\ \A a \in Fields \ {"pendingcb"} : state'[a] = state[a]
  <2>1. state.pendingcb - 1 \in Int
    BY DEF Typed, State
  <2>2. QED
    BY <1>1, <2>1 DEF Typed, State, Fields
<1>8. state'.pendingcb = state.pendingcb - 1 /\ state'.writecb = state.writecb
  BY <1>1, <1>7 DEF Typed, State, Fields
<1> HIDE DEF f, r, c
<1>9. todo' = <<c>> \o s
  BY <1>1, <1>3, <1>5, <1>6, Several, SMTT(60)
<1>10. /\ Over(Do("finishMaybe"), r) /\ Over(c, s)
  <2>1. Over(Do("finishMaybe"), r) /\ Over(c, r)
    BY <1>2, <1>3, <1>5, <1>6, OverInstead DEF Busy, Owing
  <2>2. Above(c, Do("finishMaybe"))
    BY <1>5, <1>6 DEF Above, Busy, Owing
  <2>3. QED
    BY <1>3, <1>5, <1>6, <2>1, <2>2, OverCons
<1>11. /\ s \in Seq(Frame) /\ Stacked(s) /\ Filled(s) /\ Inner(s) /\ ~Clearing(s)
       /\ \A op : Has(s, op) <=> "finishMaybe" = op \/ Has(r, op)
       /\ IdsIn(s) = {} /\ Distinct(s) /\ Rising(s) /\ ~Batched(s) /\ SettledIn(s) = {}
       /\ \A A, D : Bearings(s, A, D)
  <2>1. /\ s \in Seq(Frame) /\ Stacked(s) /\ Filled(s) /\ Inner(s) /\ ~Clearing(s)
        /\ \A op : Has(s, op) <=> "finishMaybe" = op \/ Has(r, op)
    BY <1>3, <1>6, <1>10, DoCons DEF Busy
  <2>2. /\ IdsIn(s) = {} /\ Distinct(s) /\ Rising(s) /\ ~Batched(s) /\ SettledIn(s) = {}
        /\ \A A, D : Bearings(s, A, D)
    BY <1>3, <1>4, <1>6, DoCons
  <2>3. QED
    BY <2>1, <2>2
<1> HIDE DEF s
<1>12. /\ todo' \in Seq(Frame) /\ Stacked(todo') /\ Filled(todo') /\ Inner(todo') /\ ~Clearing(todo')
       /\ \A op : Has(todo', op) <=> op = "callbacks" \/ Has(s, op)
       /\ IdsIn(todo') = Range(f.ids) /\ Distinct(todo') /\ ~Batched(todo')
       /\ Rising(todo') <=> Increasing(f.ids)
       /\ SettledIn(todo') = IF ~f.writev THEN Range(f.ids) ELSE {}
       /\ Bearings(todo', Range(accepted), answered)
  <2>1. /\ todo' \in Seq(Frame)
        /\ \A op : Has(todo', op) <=> c.op = op \/ Has(s, op)
        /\ Clearing(todo') <=> c.op \in Busy \/ Clearing(s)
        /\ Stacked(todo') <=> Stacked(s) /\ Over(c, s)
        /\ Inner(todo') <=> Inner(s) /\ (Clearing(s) => c.op = "_write")
        /\ Filled(todo') <=> Filled(s) /\ (c.op \in {"afterWrite", "callback"} => c.ids # << >>)
        /\ IdsIn(todo') = Range(c.ids) \cup IdsIn(s)
        /\ Distinct(todo') <=> IsInjective(c.ids) /\ Distinct(s) /\ Range(c.ids) \cap IdsIn(s) = {}
        /\ Rising(todo') <=> Increasing(c.ids) /\ Rising(s)
        /\ Batched(todo') <=> (c.op \in {"afterWrite", "callback"} /\ c.writev) \/ Batched(s)
        /\ SettledIn(todo') = (IF c.op = "callbacks" /\ ~c.writev THEN Range(c.ids) ELSE {}) \cup SettledIn(s)
        /\ \A A, D : Bearings(todo', A, D) <=> Bears(c, A, D) /\ Bearings(s, A, D)
    BY <1>5, <1>9, <1>11, Cons, Zenon
  <2>2. Bears(c, Range(accepted), answered)
    BY <1>4, <1>5 DEF Bears, Bearing
  <2>3. SettledIn(todo') = IF ~f.writev THEN Range(f.ids) ELSE {}
    BY <1>5, <1>11, <2>1
  <2>4. /\ IdsIn(todo') = Range(f.ids) /\ Distinct(todo') /\ ~Batched(todo')
        /\ Rising(todo') <=> Increasing(f.ids)
    BY <1>4, <1>5, <1>11, <2>1
  <2>5. Bearings(todo', Range(accepted), answered)
    BY <1>11, <2>1, <2>2
  <2>6. QED
    BY <1>5, <1>10, <1>11, <2>1, <2>3, <2>4, <2>5 DEF Busy
<1>13. \A op \in {"_write", "clearBuffer", "finish", "written"} : ~Has(todo', op)
  BY <1>3, <1>11, <1>12
<1>14. ~Has(todo, "written")
  BY <1>3 DEF Has, Clearing, Busy
<1>15. IdsIn(todo') = IdsIn(todo)
  BY <1>4, <1>12
<1>16. Uncalled' \subseteq Uncalled /\ (Batched(todo) \/ Uncalled' # Uncalled)
  <2>1. Uncalled' \subseteq Uncalled
    BY <1>1, <1>4 DEF Uncalled
  <2>2. ASSUME ~f.writev PROVE Uncalled' # Uncalled
    <3>1. PICK i \in Range(f.ids) : TRUE
      BY <1>3, <1>4, NotEmpty DEF Frame
    <3>2. i \in answered /\ i \in IdsIn(todo) /\ i \in Range(accepted)
      BY <1>4, <3>1 DEF Placed
    <3>3. i \notin Range(called) /\ i \notin IdsIn(ticks)
      BY <3>2 DEF Owed
    <3>4. SettledIn(ticks) \subseteq IdsIn(ticks)
      BY DEF SettledIn, IdsIn
    <3>5. i \in Uncalled
      BY <1>4, <3>2, <3>3, <3>4 DEF Uncalled
    <3>6. i \notin Uncalled'
      BY <1>12, <2>2, <3>1 DEF Uncalled
    <3>7. QED
      BY <3>5, <3>6
  <2>3. QED
    BY <1>4, <2>1, <2>2
<1>17. Typed' /\ Shape' /\ Placed' /\ Ordered' /\ Finishing'
  <2>1. called' \in Seq(Nat)
    BY <1>1 DEF Typed
  <2>2. QED
    BY <1>1, <1>2, <1>7, <1>12, <1>13, <1>16, <2>1, DoneKeeps DEF f
<1>18. Owed'
  BY <1>1, <1>12, <1>15 DEF Owed, Ids
<1>19. CallsOrdered'
  <2>1. Rest' = Rest /\ (Has(todo', "_write") => Has(todo, "_write")) /\ state'.destroyed = state.destroyed
    <3>1. state'.buffer = state.buffer /\ state'.destroyed = state.destroyed
      BY <1>7 DEF Fields
    <3>2. ~Has(todo, "next") /\ ~Has(todo', "next")
      BY <1>3, <1>12 DEF Has, Clearing, Busy
    <3>3. QED
      BY <1>13, <1>14, <3>1, <3>2 DEF Rest
  <2>2. ~sink.failed => Rising(todo')
    BY <1>4, <1>12 DEF CallsOrdered
  <2>3. ~Has(todo, "_write")
    <3>1. \A op : Has(todo, op) <=> f.op = op \/ Has(r, op)
      BY <1>1, Popped DEF f, r
    <3>2. QED
      BY <1>1, <1>3, <3>1
  <2>4. QED
    BY <1>1, <1>8, <1>13, <1>15, <2>1, <2>2, <2>3 DEF CallsOrdered
<1>20. Counted'
  BY <1>8, <1>12, <1>13, <1>14, <1>16, DoneCounted
<1>21. QED
  BY <1>17, <1>18, <1>19, <1>20

\* The last callback of a call was called.
LEMMA CallNextReturns ==
  ASSUME IInv, CallNext, todo[1].ids = << >>
  PROVE  IInv'
<1> USE DEF IInv
<1> DEFINE f == todo[1]
           r == Tail(todo)
<1>1. /\ todo # << >> /\ f.op = "callbacks" /\ f.ids = << >>
      /\ todo' = << >> \o r
      /\ UNCHANGED <<options, state, ticks, chunks, accepted, given, answered, called, sink>>
  BY DEF CallNext, At, Then
<1>2. f.op \in Owing
  BY <1>1 DEF Owing
<1>3. /\ f \in Frame /\ r \in Seq(Frame)
      /\ Stacked(r) /\ Filled(r) /\ Inner(r) /\ ~Clearing(r) /\ ~Clearing(todo)
      /\ \A op : op \notin {"finishMaybe", "error"} => ~Has(r, op)
      /\ IdsIn(r) = {} /\ IdsIn(todo) = Range(f.ids)
      /\ Distinct(r) /\ Rising(r) /\ ~Batched(r) /\ SettledIn(r) = {}
      /\ Batched(todo) <=> f.op \in {"afterWrite", "callback"} /\ f.writev
      /\ \A A, D : Bearings(r, A, D)
  BY <1>1, <1>2, OwingBelow
<1>4. SettledIn(todo) = IF f.op = "callbacks" /\ ~f.writev THEN Range(f.ids) ELSE {}
  BY <1>1, <1>2, OwingBelow
<1>5. \A op : Has(todo, op) <=> f.op = op \/ Has(r, op)
  BY <1>1, Popped
<1> HIDE DEF f, r
<1>6. todo' = r
  BY <1>1, <1>3, Several
<1>7. IdsIn(todo') = IdsIn(todo) /\ SettledIn(todo') = SettledIn(todo) /\ ~Batched(todo)
  <2>1. Range(f.ids) = {}
    BY <1>1, SmallFacts
  <2>2. QED
    BY <1>1, <1>3, <1>4, <1>6, <2>1
<1>8. \A op \in {"_write", "clearBuffer", "finish", "written", "next"} : ~Has(todo', op) /\ ~Has(todo, op)
  BY <1>1, <1>3, <1>5, <1>6
<1>9. Uncalled' = Uncalled
  BY <1>1, <1>7 DEF Uncalled
<1>10. Rest' = Rest
  BY <1>1, <1>8 DEF Rest
<1>11. Typed' /\ Shape' /\ Placed' /\ Ordered' /\ Finishing'
  <2>1. State(state') /\ called' \in Seq(Nat) /\ \A a \in Fields \ {"pendingcb"} : state'[a] = state[a]
    BY <1>1 DEF Typed
  <2>2. QED
    BY <1>1, <1>2, <1>3, <1>6, <1>8, <1>9, <2>1, DoneKeeps DEF f
<1>12. Owed'
  BY <1>1, <1>3, <1>6, <1>7 DEF Owed, Ids
<1>13. CallsOrdered'
  BY <1>1, <1>3, <1>6, <1>7, <1>8, <1>10 DEF CallsOrdered
<1>14. Counted'
  BY <1>1, <1>3, <1>6, <1>7, <1>8, <1>9 DEF Counted, One
<1>15. QED
  BY <1>11, <1>12, <1>13, <1>14

\* The next callback is called, and the program runs.
LEMMA CallNextCalls ==
  ASSUME IInv, CallNext, todo[1].ids # << >>
  PROVE  IInv'
<1> USE DEF IInv
<1> DEFINE f == todo[1]
           r == Tail(todo)
           h == Head(f.ids)
           l == Tail(f.ids)
           g == [f EXCEPT !.ids = l]
           s == <<g>> \o r
<1>1. /\ todo # << >> /\ f.op = "callbacks" /\ f.ids # << >>
      /\ called' = Append(called, h)
      /\ state' = IF f.writev THEN [state EXCEPT !.pendingcb = state.pendingcb - 1] ELSE state
      /\ todo' = <<Do("program"), g>> \o r
      /\ UNCHANGED <<options, ticks, chunks, accepted, given, answered, sink>>
  <2>1. /\ [state EXCEPT !.pendingcb = @ - 1] = [state EXCEPT !.pendingcb = state.pendingcb - 1]
        /\ [f EXCEPT !.ids = Tail(@)] = g
    OBVIOUS
  <2>2. QED
    BY <2>1 DEF CallNext, At, Then
<1>2. f.op \in Owing
  BY <1>1 DEF Owing
<1>3. /\ f \in Frame /\ r \in Seq(Frame)
      /\ Stacked(r) /\ Over(f, r) /\ Filled(r) /\ Inner(r) /\ ~Clearing(r) /\ ~Clearing(todo)
      /\ \A op : op \notin {"finishMaybe", "error"} => ~Has(r, op)
      /\ IdsIn(r) = {} /\ IdsIn(todo) = Range(f.ids) /\ IsInjective(f.ids)
      /\ Distinct(r) /\ Rising(r) /\ ~Batched(r) /\ SettledIn(r) = {}
  BY <1>1, <1>2, OwingBelow
<1>4. /\ Rising(todo) => Increasing(f.ids)
      /\ SettledIn(todo) = IF ~f.writev THEN Range(f.ids) ELSE {}
      /\ f.writev => Range(f.ids) \subseteq answered
      /\ \A A, D : Bearings(r, A, D)
      /\ ~Batched(todo)
  <2>1. /\ Rising(todo) => Increasing(f.ids)
        /\ SettledIn(todo) = IF f.op = "callbacks" /\ ~f.writev THEN Range(f.ids) ELSE {}
        /\ Bears(f, Range(accepted), answered)
        /\ \A A, D : Bearings(r, A, D)
        /\ Batched(todo) <=> f.op \in {"afterWrite", "callback"} /\ f.writev
    BY <1>1, <1>2, OwingBelow, Zenon
  <2>2. QED
    BY <1>1, <2>1 DEF Bears
<1>5. \A op : Has(todo, op) <=> f.op = op \/ Has(r, op)
  BY <1>1, Popped
<1>6. /\ f.ids \in Seq(Nat) /\ f.ids = <<h>> \o l /\ h \in Nat /\ l \in Seq(Nat) /\ f.writev \in BOOLEAN
  <2>1. f.ids \in Seq(Nat) /\ f.writev \in BOOLEAN
    BY <1>3 DEF Frame
  <2>2. QED
    BY <1>1, <2>1, HeadTail
<1>7. g \in Frame /\ g.op = "callbacks" /\ g.ids = l /\ g.writev = f.writev
  BY <1>1, <1>3, <1>6 DEF Frame
<1>8. "program" \in Frames /\ Do("program") \in Frame /\ Do("program").op = "program"
  BY DoTyped DEF Frames
<1>9. /\ State(state') /\ \A a \in Fields \ {"pendingcb"} : state'[a] = state[a]
      /\ state'.pendingcb = IF f.writev THEN state.pendingcb - 1 ELSE state.pendingcb
      /\ state'.writecb = state.writecb
  <2>1. CASE f.writev
    <3>1. state.pendingcb - 1 \in Int /\ state' = [state EXCEPT !.pendingcb = state.pendingcb - 1]
      BY <1>1, <2>1 DEF Typed, State
    <3>2. QED
      BY <2>1, <3>1 DEF Typed, State, Fields
  <2>2. CASE ~f.writev
    BY <1>1, <2>2 DEF Typed
  <2>3. QED
    BY <2>1, <2>2
<1> HIDE DEF f, r, h, l, g
<1>10. /\ Range(f.ids) = {h} \cup Range(l) /\ h \notin Range(l) /\ IsInjective(l)
       /\ Increasing(f.ids) => Increasing(l) /\ Before({h}, Range(l))
  <2>1. <<h>> \in Seq(Nat) /\ Range(<<h>>) = {h}
    BY <1>6, SmallFacts
  <2>2. /\ Range(<<h>> \o l) = Range(<<h>>) \cup Range(l)
        /\ IsInjective(<<h>> \o l) <=> IsInjective(<<h>>) /\ IsInjective(l) /\ Range(<<h>>) \cap Range(l) = {}
        /\ Increasing(<<h>> \o l) <=> Increasing(<<h>>) /\ Increasing(l) /\ Before(Range(<<h>>), Range(l))
    BY <1>6, <2>1, CatFacts, Zenon
  <2>3. QED
    BY <1>3, <1>6, <2>1, <2>2
<1>11. todo' = <<Do("program")>> \o s
  BY <1>1, <1>3, <1>7, <1>8, Several, SMTT(60)
<1>12. Over(g, r)
  BY <1>2, <1>3, <1>7, OverInstead DEF Busy, Owing
<1>13. Over(Do("program"), s)
  <2>1. Over(Do("program"), r)
    BY <1>2, <1>3, <1>8, OverInstead DEF Busy, Owing
  <2>2. Above(Do("program"), g)
    BY <1>7, <1>8 DEF Above, Busy, Owing
  <2>3. QED
    BY <1>3, <1>7, <1>8, <2>1, <2>2, OverCons
<1>14. /\ s \in Seq(Frame) /\ Stacked(s) /\ Filled(s) /\ Inner(s) /\ ~Clearing(s)
       /\ \A op : Has(s, op) <=> "callbacks" = op \/ Has(r, op)
       /\ IdsIn(s) = Range(l) /\ Distinct(s) /\ ~Batched(s)
       /\ Rising(s) <=> Increasing(l)
       /\ SettledIn(s) = IF ~f.writev THEN Range(l) ELSE {}
       /\ Bearings(s, Range(accepted), answered)
  <2>1. /\ s \in Seq(Frame)
        /\ \A op : Has(s, op) <=> g.op = op \/ Has(r, op)
        /\ Clearing(s) <=> g.op \in Busy \/ Clearing(r)
        /\ Stacked(s) <=> Stacked(r) /\ Over(g, r)
        /\ Inner(s) <=> Inner(r) /\ (Clearing(r) => g.op = "_write")
        /\ Filled(s) <=> Filled(r) /\ (g.op \in {"afterWrite", "callback"} => g.ids # << >>)
        /\ IdsIn(s) = Range(g.ids) \cup IdsIn(r)
        /\ Distinct(s) <=> IsInjective(g.ids) /\ Distinct(r) /\ Range(g.ids) \cap IdsIn(r) = {}
        /\ Rising(s) <=> Increasing(g.ids) /\ Rising(r)
        /\ Batched(s) <=> (g.op \in {"afterWrite", "callback"} /\ g.writev) \/ Batched(r)
        /\ SettledIn(s) = (IF g.op = "callbacks" /\ ~g.writev THEN Range(g.ids) ELSE {}) \cup SettledIn(r)
        /\ \A A, D : Bearings(s, A, D) <=> Bears(g, A, D) /\ Bearings(r, A, D)
    BY <1>3, <1>7, Cons, Zenon
  <2>2. Bears(g, Range(accepted), answered)
    BY <1>4, <1>7, <1>10 DEF Bears, Bearing
  <2>3. SettledIn(s) = IF ~f.writev THEN Range(l) ELSE {}
    BY <1>3, <1>7, <2>1
  <2>4. /\ IdsIn(s) = Range(l) /\ Distinct(s) /\ ~Batched(s)
        /\ Rising(s) <=> Increasing(l)
    BY <1>3, <1>7, <1>10, <2>1
  <2>5. Bearings(s, Range(accepted), answered)
    BY <1>4, <2>1, <2>2
  <2>6. QED
    BY <1>3, <1>7, <1>12, <2>1, <2>3, <2>4, <2>5 DEF Busy
<1> HIDE DEF s
<1>15. /\ todo' \in Seq(Frame) /\ Stacked(todo') /\ Filled(todo') /\ Inner(todo') /\ ~Clearing(todo')
       /\ \A op : Has(todo', op) <=> "program" = op \/ Has(s, op)
       /\ IdsIn(todo') = Range(l) /\ Distinct(todo') /\ ~Batched(todo')
       /\ Rising(todo') <=> Increasing(l)
       /\ SettledIn(todo') = IF ~f.writev THEN Range(l) ELSE {}
       /\ Bearings(todo', Range(accepted), answered)
  <2>1. /\ todo' \in Seq(Frame) /\ Stacked(todo') /\ Filled(todo') /\ Inner(todo') /\ ~Clearing(todo')
        /\ \A op : Has(todo', op) <=> "program" = op \/ Has(s, op)
    BY <1>8, <1>11, <1>13, <1>14, DoCons DEF Busy
  <2>2. /\ IdsIn(todo') = IdsIn(s) /\ (Distinct(todo') <=> Distinct(s)) /\ (Batched(todo') <=> Batched(s))
        /\ Rising(todo') <=> Rising(s)
        /\ SettledIn(todo') = SettledIn(s)
        /\ \A A, D : Bearings(todo', A, D) <=> Bearings(s, A, D)
    BY <1>8, <1>11, <1>14, DoCons
  <2>3. QED
    BY <1>14, <2>1, <2>2
<1>16. \A op \in {"_write", "clearBuffer", "finish", "written", "next"} : ~Has(todo', op) /\ ~Has(todo, op)
  BY <1>1, <1>3, <1>5, <1>14, <1>15
<1>17. /\ called' \in Seq(Nat) /\ Range(called') = Range(called) \cup {h} /\ IsInjective(called')
       /\ h \notin Range(called) /\ h \in IdsIn(todo) /\ h \notin IdsIn(ticks)
  <2>1. h \in IdsIn(todo) /\ called \in Seq(Nat) /\ IsInjective(called)
    BY <1>3, <1>10 DEF Typed, Owed
  <2>2. h \notin Range(called) /\ h \notin IdsIn(ticks)
    BY <2>1 DEF Owed
  <2>3. called' = called \o <<h>>
    BY <1>1, <1>6, <2>1, AppendCat
  <2>4. <<h>> \in Seq(Nat) /\ Range(<<h>>) = {h} /\ IsInjective(<<h>>)
    BY <1>6, SmallFacts
  <2>5. /\ called \o <<h>> \in Seq(Nat)
        /\ Range(called \o <<h>>) = Range(called) \cup Range(<<h>>)
        /\ IsInjective(called \o <<h>>) <=>
             IsInjective(called) /\ IsInjective(<<h>>) /\ Range(called) \cap Range(<<h>>) = {}
    BY <2>1, <2>4, CatFacts, Zenon
  <2>6. QED
    BY <2>1, <2>2, <2>3, <2>4, <2>5
<1>18. /\ Uncalled' \subseteq Uncalled
       /\ ~f.writev => Uncalled' = Uncalled
       /\ f.writev => Uncalled' # Uncalled
  <2>1. CASE ~f.writev
    BY <1>1, <1>4, <1>10, <1>15, <1>17, <2>1, ZenonT(60) DEF Uncalled
  <2>2. CASE f.writev
    <3>1. SettledIn(ticks) \subseteq IdsIn(ticks)
      BY DEF SettledIn, IdsIn
    <3>2. h \in Range(accepted)
      BY <1>4, <1>10, <2>2 DEF Placed
    <3>3. h \in Uncalled
      BY <1>4, <1>17, <2>2, <3>1, <3>2 DEF Uncalled
    <3>4. Uncalled' = Uncalled \ {h}
      BY <1>1, <1>4, <1>15, <1>17, <2>2 DEF Uncalled
    <3>5. QED
      BY <2>2, <3>3, <3>4
  <2>3. QED
    BY <2>1, <2>2
<1>19. Typed' /\ Shape' /\ Placed' /\ Ordered' /\ Finishing'
  BY <1>1, <1>2, <1>9, <1>15, <1>16, <1>17, <1>18, DoneKeeps DEF f
<1>20. Owed'
  <2>1. IdsIn(todo') \subseteq IdsIn(todo) /\ h \notin IdsIn(todo')
    BY <1>3, <1>10, <1>15
  <2>2. QED
    BY <1>1, <1>15, <1>17, <2>1 DEF Owed, Ids
<1>21. CallsOrdered'
  <2>1. Rest' = Rest
    BY <1>9, <1>16 DEF Rest, Fields
  <2>2. ASSUME ~sink.failed
        PROVE  /\ Rising(todo')
               /\ Before(Range(called') \cap answered, IdsIn(todo') \cap answered)
    <3>1. Increasing(l) /\ Before({h}, Range(l))
      BY <1>4, <1>10, <2>2 DEF CallsOrdered
    <3>2. Before(Range(called) \cap answered, IdsIn(todo) \cap answered)
      BY <2>2 DEF CallsOrdered
    <3>3. Before(Range(called') \cap answered, IdsIn(todo') \cap answered)
      BY <1>3, <1>10, <1>15, <1>17, <3>1, <3>2 DEF Before
    <3>4. QED
      BY <1>15, <3>1, <3>3
  <2>3. ASSUME ~sink.failed, NEW m \in DOMAIN called', NEW n \in DOMAIN called', m < n,
               {called'[m], called'[n]} \subseteq answered
        PROVE  called'[m] < called'[n]
    <3>1. /\ called \in Seq(Nat) /\ m \in DOMAIN called /\ called'[m] = called[m]
          /\ n \in DOMAIN called => called'[n] = called[n]
          /\ n \notin DOMAIN called => called'[n] = h
      <4>1. called \in Seq(Nat)
        BY DEF Typed
      <4>2. QED
        BY <1>1, <1>6, <2>3, <4>1
    <3>2. CASE n \in DOMAIN called
      BY <2>3, <3>1, <3>2 DEF CallsOrdered
    <3>3. CASE n \notin DOMAIN called
      <4>1. called[m] \in Range(called) \cap answered /\ h \in IdsIn(todo) \cap answered
        BY <1>17, <2>3, <3>1, <3>3 DEF Range
      <4>2. Before(Range(called) \cap answered, IdsIn(todo) \cap answered)
        BY <2>3 DEF CallsOrdered
      <4>3. QED
        BY <3>1, <3>3, <4>1, <4>2 DEF Before
    <3>4. QED
      BY <3>2, <3>3
  <2>4. QED
    BY <1>1, <1>9, <1>16, <2>1, <2>2, <2>3 DEF CallsOrdered
<1>22. Counted'
  <2>1. CASE f.writev
    BY <1>9, <1>15, <1>16, <1>18, <2>1, DoneCounted
  <2>2. CASE ~f.writev
    <3>1. Uncalled' = Uncalled /\ state'.pendingcb = state.pendingcb /\ state'.writecb = state.writecb
      BY <1>9, <1>18, <2>2
    <3>2. QED
      BY <1>4, <1>15, <1>16, <3>1 DEF Counted, One
  <2>3. QED
    BY <2>1, <2>2, <1>6
<1>23. QED
  BY <1>19, <1>20, <1>21, <1>22

\* Quiet steps bring the end no sooner than it is due.
LEMMA QuietUncalled ==
  ASSUME Quiet PROVE Uncalled' = Uncalled
BY DEF Quiet, Lighter, Uncalled

\* What was read off the innermost call is still so below it.
LEMMA FinishBelow ==
  ASSUME Typed, Shape, Owed, todo # << >>, todo' = Tail(todo) \/ todo' = << >> \o Tail(todo)
  PROVE  Has(todo', "finish") => Has(todo, "finish")
<1>1. Tail(todo) \in Seq(Frame) /\ (Has(Tail(todo), "finish") => Has(todo, "finish"))
  BY Popped
<1>2. << >> \o Tail(todo) = Tail(todo)
  BY <1>1, Several
<1>3. QED
  BY <1>1, <1>2

\* A quiet step that neither ends nor finishes the stream.
LEMMA QuietKeeps ==
  ASSUME IInv, Typed', Shape', Quiet, Finishing'
  PROVE  IInv'
BY QuietPlaced, QuietOwed, QuietOrdered, QuietCallsOrdered, QuietCounted DEF IInv

\* Such a step as long as no "finish" is more due than before.
LEMMA QuietFinishing ==
  ASSUME Finishing, Quiet, Has(todo', "finish") => Has(todo, "finish"),
         state.ending => state'.ending, state'.finished = state.finished, sink' = sink
  PROVE  Finishing'
<1>1. Closed => Closed'
  BY QuietFacts DEF Closed
<1>2. Uncalled' = Uncalled /\ UNCHANGED <<answered, accepted>>
  BY QuietUncalled DEF Quiet
<1>3. QED
  BY <1>1, <1>2 DEF Finishing

\* The program returns.
LEMMA ReturnKeeps ==
  ASSUME IInv, Return PROVE IInv'
<1> USE DEF IInv
<1>1. Typed' /\ Shape' /\ Quiet
  BY ReturnStep
<1>2. /\ todo # << >> /\ todo' = << >> \o Tail(todo) /\ UNCHANGED <<state, sink>>
  BY DEF Return, At, Then, history
<1>3. Finishing'
  BY <1>1, <1>2, FinishBelow, QuietFinishing
<1>4. QED
  BY <1>1, <1>3, QuietKeeps

\* cork() keeps the invariant,
LEMMA CorkKeeps ==
  ASSUME WritableAssumption, IInv, Cork PROVE IInv'
<1> USE DEF IInv
<1>1. Typed' /\ Shape' /\ Quiet
  BY CorkStep
<1>2. state'.ending = state.ending /\ state'.finished = state.finished /\ UNCHANGED <<todo, sink>>
  BY DEF Cork, history, Typed, State, Fields
<1>3. Finishing'
  BY <1>1, <1>2, QuietFinishing
<1>4. QED
  BY <1>1, <1>3, QuietKeeps

\* destroy() does,
LEMMA DestroyKeeps ==
  ASSUME IInv, Destroy PROVE IInv'
<1> USE DEF IInv
<1>1. Typed' /\ Shape' /\ Quiet
  BY DestroyStep
<1>2. state'.ending = state.ending /\ state'.finished = state.finished /\ UNCHANGED <<todo, sink>>
  BY DEF Destroy, history, Typed, State, Fields
<1>3. Finishing'
  BY <1>1, <1>2, QuietFinishing
<1>4. QED
  BY <1>1, <1>3, QuietKeeps

\* uncork() does,
LEMMA UncorkKeeps ==
  ASSUME WritableAssumption, IInv, Uncork PROVE IInv'
<1> USE DEF IInv
<1>1. Typed' /\ Shape' /\ Quiet
  BY UncorkStep
<1>2. /\ state'.ending = state.ending /\ state'.finished = state.finished /\ UNCHANGED sink
      /\ InProgram
      /\ todo' \in {<<Do("clearBuffer")>> \o todo, todo}
  BY DEF Uncork, Call, history, Typed, State, Fields
<1>3. \A o : Has(<<Do("clearBuffer")>> \o todo, o) <=> "clearBuffer" = o \/ Has(todo, o)
  <2>1. "clearBuffer" \in Frames /\ todo \in Seq(Frame)
    BY DEF Frames, Typed
  <2>2. QED
    BY <2>1, DoCons
<1>4. Finishing'
  BY <1>1, <1>2, <1>3, QuietFinishing
<1>5. QED
  BY <1>1, <1>4, QuietKeeps

\* end() does,
LEMMA EndKeeps ==
  ASSUME WritableAssumption, IInv, End PROVE IInv'
<1> USE DEF IInv
<1>1. Typed' /\ Shape' /\ Quiet
  BY EndStep
<1>2. state'.ending = state.ending /\ state'.finished = state.finished /\ UNCHANGED sink
  BY DEF End, history, Typed, State, Fields
<1>3. \E s \in {<<Do("clearBuffer")>> \o <<Do("endWritable")>>, << >> \o <<Do("endWritable")>>} : todo' = s \o todo
  BY DEF End, Call
<1>4. /\ "clearBuffer" \in Frames /\ "endWritable" \in Frames /\ todo \in Seq(Frame)
      /\ Do("endWritable") \in Frame /\ Do("clearBuffer") \in Frame
      /\ Do("endWritable").op = "endWritable" /\ Do("clearBuffer").op = "clearBuffer"
  BY DoTyped DEF Frames, Typed
<1>5. \A s \in {<<Do("clearBuffer")>> \o <<Do("endWritable")>>, << >> \o <<Do("endWritable")>>} :
        s \in Seq(Frame) /\ ~Has(s, "finish")
  <2>1. /\ <<Do("endWritable")>> \in Seq(Frame)
        /\ \A op : Has(<<Do("endWritable")>>, op) <=> "endWritable" = op
    BY <1>4, Single
  <2>2. /\ <<Do("clearBuffer")>> \o <<Do("endWritable")>> \in Seq(Frame)
        /\ ~Has(<<Do("clearBuffer")>> \o <<Do("endWritable")>>, "finish")
    BY <1>4, <2>1, DoCons
  <2>3. << >> \o <<Do("endWritable")>> = <<Do("endWritable")>>
    BY <1>4
  <2>4. QED
    BY <2>1, <2>2, <2>3
<1>6. Has(todo', "finish") => Has(todo, "finish")
  BY <1>3, <1>4, <1>5, HasCat, ZenonT(60)
<1>7. Finishing'
  BY <1>1, <1>2, <1>6, QuietFinishing
<1>8. QED
  BY <1>1, <1>7, QuietKeeps

\* endWritable() does: the stream is ending, and may be closed,
LEMMA EndWritableKeeps ==
  ASSUME IInv, EndWritable PROVE IInv'
<1> USE DEF IInv
<1>1. Typed' /\ Shape' /\ Quiet
  BY EndWritableStep
<1>2. /\ todo # << >> /\ todo[1].op = "endWritable"
      /\ state'.ending /\ state'.finished = state.finished /\ UNCHANGED sink
      /\ todo' = IF state.ending THEN << >> \o Tail(todo) ELSE <<Do("finishMaybe")>> \o Tail(todo)
  BY DEF EndWritable, At, Then, history, Typed, State, Fields
<1>3. Has(todo', "finish") => Has(todo, "finish")
  <2>1. CASE state.ending
    BY <1>2, <2>1, FinishBelow
  <2>2. CASE ~state.ending
    <3>1. Tail(todo) \in Seq(Frame) /\ (Has(Tail(todo), "finish") => Has(todo, "finish"))
      BY <1>2, Popped
    <3>2. "finishMaybe" \in Frames
      BY DEF Frames
    <3>3. QED
      BY <1>2, <2>2, <3>1, <3>2, DoCons
  <2>3. QED
    BY <2>1, <2>2
<1>4. Finishing'
  BY <1>1, <1>2, <1>3, QuietFinishing
<1>5. QED
  BY <1>1, <1>4, QuietKeeps

\* what follows "finish" does,
LEMMA FinishedKeeps ==
  ASSUME WritableAssumption, IInv, Finished PROVE IInv'
<1> USE DEF IInv
<1>1. Typed' /\ Shape' /\ Quiet
  BY FinishedStep
<1>2. /\ todo # << >> /\ todo' = << >> \o Tail(todo) /\ UNCHANGED sink
      /\ state'.ending = state.ending /\ state'.finished = state.finished
  BY DEF Finished, At, Then, history, Typed, State, Fields
<1>3. Finishing'
  BY <1>1, <1>2, FinishBelow, QuietFinishing
<1>4. QED
  BY <1>1, <1>3, QuietKeeps

\* errorOrDestroy() does,
LEMMA ErrorKeeps ==
  ASSUME IInv, Error PROVE IInv'
<1> USE DEF IInv
<1>1. Typed' /\ Shape' /\ Quiet
  BY ErrorStep
<1>2. /\ todo # << >> /\ UNCHANGED sink
      /\ state'.ending = state.ending /\ state'.finished = state.finished
      /\ todo' \in {<< >> \o Tail(todo), <<Do("program")>> \o Tail(todo)}
  BY DEF Error, At, Then, history, Typed, State, Fields
<1>3. Tail(todo) \in Seq(Frame) /\ (Has(Tail(todo), "finish") => Has(todo, "finish"))
  BY <1>2, Popped
<1>4. "program" \in Frames
  BY DEF Frames
<1>5. Has(todo', "finish") => Has(todo, "finish")
  <2>1. << >> \o Tail(todo) = Tail(todo)
    BY <1>3, Several
  <2>2. \A o : Has(<<Do("program")>> \o Tail(todo), o) <=> "program" = o \/ Has(Tail(todo), o)
    BY <1>3, <1>4, DoCons
  <2>3. QED
    BY <1>2, <1>3, <2>1, <2>2
<1>6. Finishing'
  BY <1>1, <1>2, <1>5, QuietFinishing
<1>7. QED
  BY <1>1, <1>6, QuietKeeps

\* and afterWrite() does when it emits "drain" or not.
LEMMA AfterDrainKeeps ==
  ASSUME IInv, AfterDrain PROVE IInv'
<1> USE DEF IInv
<1> DEFINE f == todo[1]
           r == Tail(todo)
           g == [f EXCEPT !.op = "callback"]
<1>1. Typed' /\ Shape' /\ Quiet
  BY AfterDrainStep
<1>2. /\ todo # << >> /\ f.op = "afterWrite" /\ UNCHANGED sink
      /\ state'.ending = state.ending /\ state'.finished = state.finished
      /\ \E s \in {<<Do("program")>> \o <<g>>, << >> \o <<g>>} : todo' = s \o r
  BY DEF AfterDrain, At, Then, history, Typed, State, Fields
<1>3. f \in Frame /\ r \in Seq(Frame) /\ (Has(r, "finish") => Has(todo, "finish"))
  BY <1>2, Popped
<1>4. g \in Frame /\ g.op = "callback" /\ "program" \in Frames /\ Do("program") \in Frame
  BY <1>3, DoTyped DEF Frame, Frames
<1> HIDE DEF f, g, r
<1>5. \A s \in {<<Do("program")>> \o <<g>>, << >> \o <<g>>} : s \in Seq(Frame) /\ ~Has(s, "finish")
  <2>1. <<g>> \in Seq(Frame) /\ \A op : Has(<<g>>, op) <=> g.op = op
    BY <1>4, Single
  <2>2. <<Do("program")>> \o <<g>> \in Seq(Frame) /\ ~Has(<<Do("program")>> \o <<g>>, "finish")
    BY <1>4, <2>1, DoCons
  <2>3. << >> \o <<g>> = <<g>>
    BY <1>4
  <2>4. QED
    BY <1>4, <2>1, <2>2, <2>3
<1>6. Has(todo', "finish") => Has(todo, "finish")
  <2>1. PICK s \in {<<Do("program")>> \o <<g>>, << >> \o <<g>>} : todo' = s \o r
    BY <1>2
  <2>2. s \in Seq(Frame) /\ ~Has(s, "finish")
    BY <1>5
  <2>3. Has(s \o r, "finish") <=> Has(s, "finish") \/ Has(r, "finish")
    BY <1>3, <2>2, HasCat, Zenon
  <2>4. QED
    BY <1>3, <2>1, <2>2, <2>3
<1>7. Finishing'
  BY <1>1, <1>2, <1>6, QuietFinishing
<1>8. QED
  BY <1>1, <1>7, QuietKeeps

\* "finish" becomes due only when the stream is closed and has not finished.
LEMMA FinishMaybeKeeps ==
  ASSUME IInv, FinishMaybe PROVE IInv'
<1> USE DEF IInv
<1>1. Typed' /\ Shape' /\ Quiet
  BY FinishMaybeStep
<1>2. /\ todo # << >> /\ UNCHANGED sink
      /\ state'.ending = state.ending /\ state'.finished = state.finished
  BY DEF FinishMaybe, At, history, Typed, State, Fields
<1>3. CASE NeedFinish(state)
  <2>1. Closed /\ ~state.finished
    BY <1>3 DEF NeedFinish, Closed
  <2>2. Closed' /\ ~state'.finished
    BY <1>1, <1>2, <2>1, QuietFacts DEF Closed
  <2>3. QED
    BY <1>1, <1>2, <2>1, <2>2, QuietKeeps DEF Finishing
<1>4. CASE ~NeedFinish(state)
  <2>1. todo' = << >> \o Tail(todo)
    BY <1>4 DEF FinishMaybe, Then
  <2>2. Finishing'
    BY <1>1, <1>2, <2>1, FinishBelow, QuietFinishing
  <2>3. QED
    BY <1>1, <2>2, QuietKeeps
<1>5. QED
  BY <1>3, <1>4

\* At "finish" no callback is counted, and so none is owed.
LEMMA NoneOwed ==
  ASSUME IInv, Has(todo, "finish"), FinishReady(state)
  PROVE  Closed /\ ~state.finished /\ sink.finishes = 0 /\ Uncalled = {} /\ answered = Range(accepted)
<1> USE DEF IInv
<1>1. Closed /\ ~state.finished /\ sink.finishes = 0
  BY DEF Finishing
<1>2. ~Has(todo, "written")
  <2>1. ~Clearing(todo)
    BY <1>1 DEF Closed, Shape
  <2>2. QED
    BY <2>1 DEF Clearing, Busy, Has
<1>3. IsFiniteSet(Uncalled) /\ Cardinality(Uncalled) \in Nat
  BY UncalledFinite
<1>4. state.pendingcb = 0
  BY DEF FinishReady
<1>5. Cardinality(Uncalled) = 0
  BY <1>2, <1>3, <1>4 DEF Counted, One
<1>6. Uncalled = {}
  BY <1>3, <1>5, FS_EmptySet
<1>7. SettledIn(todo) \subseteq IdsIn(todo) /\ SettledIn(ticks) \subseteq IdsIn(ticks)
  BY DEF SettledIn, IdsIn
<1>8. answered = Range(accepted)
  BY <1>6, <1>7 DEF Uncalled, Owed, Placed
<1>9. QED
  BY <1>1, <1>6, <1>8

\* "finish" is emitted when no callback is owed, and then never again.
LEMMA FinishKeeps ==
  ASSUME IInv, Finish PROVE IInv'
<1> USE DEF IInv
<1>1. Typed' /\ Shape' /\ Quiet
  BY FinishStep
<1>2. todo # << >> /\ todo[1].op = "finish"
  BY DEF Finish, At
<1>3. CASE FinishReady(state)
  <2>1. /\ state'.finished = TRUE /\ state'.ending = state.ending
        /\ sink'.finishes = sink.finishes + 1
        /\ todo' = <<Do("program"), Do("finished")>> \o Tail(todo)
    BY <1>3 DEF Finish, Then, Typed, State, Fields
  <2>2. Has(todo, "finish")
    BY <1>2 DEF Typed, Has
  <2>3. Closed /\ sink.finishes = 0 /\ Uncalled = {} /\ answered = Range(accepted)
    BY <1>3, <2>2, NoneOwed
  <2>4. ~Has(todo', "finish")
    <3>1. ~Has(Tail(todo), "finish")
      BY <1>2, Popped DEF Over, Above, Has
    <3>2. todo[1].op \in Light /\ "finished" \in Light
      BY <1>2 DEF Light, Frames
    <3>3. \A o : Has(todo', o) <=> o \in {"program", "finished"} \/ Has(Tail(todo), o)
      BY <1>2, <2>1, <3>2, WellListener
    <3>4. QED
      BY <3>1, <3>3
  <2>5. Closed' /\ Uncalled' = {} /\ answered' = Range(accepted)'
    BY <1>1, <2>1, <2>3, QuietFacts, QuietUncalled DEF Closed, Quiet
  <2>6. Finishing'
    BY <2>1, <2>3, <2>4, <2>5 DEF Finishing
  <2>7. QED
    BY <1>1, <2>6, QuietKeeps
<1>4. CASE ~FinishReady(state)
  <2>1. todo' = << >> \o Tail(todo) /\ UNCHANGED <<state, sink>>
    BY <1>4 DEF Finish, Then
  <2>2. Finishing'
    BY <1>1, <1>2, <2>1, FinishBelow, QuietFinishing
  <2>3. QED
    BY <1>1, <2>2, QuietKeeps
<1>5. QED
  BY <1>3, <1>4

-----------------------------------------------------------------------------
(* The inductive invariant.                                                *)

\* A new Writable satisfies the invariant.
LEMMA InitKeeps ==
  ASSUME WritableAssumption, Init
  PROVE  IInv
<1>1. /\ Range(<< >>) = {} /\ IsInjective(<< >>) /\ Increasing(<< >>) /\ << >> \in Seq(Nat)
  BY SmallFacts
<1>2. State(state)
  <2>1. None \in Cb
    BY NoneTyped
  <2>2. DOMAIN state = Fields
    BY DEF Init, Fields
  <2>3. state.corked \in 0..MaxCorks /\ state.buffer \in Seq(Nat) /\ state.writecb \in Cb
    BY <1>1, <2>1 DEF Init, WritableAssumption
  <2>4. QED
    BY <2>2, <2>3 DEF State, Init
<1>3. /\ state.buffer = << >> /\ state.writecb = None /\ ~Writing(state) /\ state.pendingcb = 0
      /\ ~state.bufferProcessing /\ ~state.finished /\ ~state.ending /\ ~state.destroyed
  BY DEF Init, Writing
<1>4. /\ todo = << >> /\ ticks = << >> /\ chunks = << >> /\ accepted = << >> /\ given = << >>
      /\ answered = {} /\ called = << >>
      /\ options \in Options /\ sink = [failed |-> FALSE, sync |-> FALSE, finishes |-> 0]
  BY DEF Init
<1>5. Typed
  <2>1. << >> \in Seq(Frame) /\ Len(chunks) = 0 /\ chunks \in Seq(Nat)
    BY <1>4
  <2>2. QED
    BY <1>1, <1>2, <1>4, <2>1 DEF Typed, WritableAssumption
<1>6. /\ Stacked(todo) /\ Distinct(todo) /\ Rising(todo) /\ Filled(todo) /\ ~Batched(todo) /\ Inner(todo)
      /\ IdsIn(todo) = {} /\ SettledIn(todo) = {} /\ ~Clearing(todo)
      /\ \A op : ~Has(todo, op)
      /\ \A A, D : Bearings(todo, A, D)
  BY <1>4, Nothing
<1>7. /\ Distinct(ticks) /\ Rising(ticks) /\ IdsIn(ticks) = {} /\ SettledIn(ticks) = {}
      /\ \A A, D : Bearings(ticks, A, D)
  BY <1>4, Nothing
<1>8. Rest = << >> /\ InHand = << >> /\ state.writecb.ids = << >> /\ ~state.writecb.writev
  BY <1>3, <1>6, NoneTyped DEF Rest, InHand
<1>9. Shape
  BY <1>3, <1>4, <1>6 DEF Shape
<1>10. Placed
  BY <1>1, <1>3, <1>4, <1>8 DEF Placed
<1>11. Owed
  BY <1>1, <1>4, <1>6, <1>7 DEF Owed
<1>12. Ordered
  <2>1. << >> = << >> \o (<< >> \o << >>)
    OBVIOUS
  <2>2. QED
    BY <1>3, <1>4, <1>8, <2>1 DEF Ordered
<1>13. CallsOrdered
  BY <1>1, <1>4, <1>6, <1>7, <1>8 DEF CallsOrdered, Before
<1>14. Uncalled = {}
  BY <1>1, <1>4 DEF Uncalled
<1>15. Counted
  <2>1. Cardinality({}) = 0
    BY FS_EmptySet
  <2>2. QED
    BY <1>3, <1>6, <1>8, <1>14, <2>1 DEF Counted, One
<1>16. Finishing
  BY <1>3, <1>4, <1>6 DEF Finishing
<1>17. QED
  BY <1>5, <1>9, <1>10, <1>11, <1>12, <1>13, <1>15, <1>16 DEF IInv

\* Nothing changes.
LEMMA StutterKeeps ==
  ASSUME IInv, UNCHANGED vars
  PROVE  IInv'
<1>1. UNCHANGED <<options, state, todo, ticks, chunks, accepted, given, answered, called, sink>>
  BY DEF vars
<1>2. Rest' = Rest /\ InHand' = InHand /\ Uncalled' = Uncalled /\ Closed' = Closed
  BY <1>1 DEF Rest, InHand, Uncalled, Closed
<1>3. Typed' /\ Shape' /\ Finishing'
  BY <1>1, <1>2 DEF IInv, Typed, Shape, Finishing
<1>4. Placed' /\ Owed' /\ Ids' = Ids
  BY <1>1, <1>2 DEF IInv, Placed, Owed, Ids
<1>5. Ordered' /\ CallsOrdered' /\ Counted'
  BY <1>1, <1>2 DEF IInv, Ordered, CallsOrdered, Counted
<1>6. QED
  BY <1>3, <1>4, <1>5 DEF IInv

\* Every step keeps the invariant.
LEMMA NextKeeps ==
  ASSUME WritableAssumption, IInv, [Next]_vars
  PROVE  IInv'
<1>1. CASE Program
  <2>1. ASSUME NEW len \in Lens, Write(len) PROVE IInv'
    BY <2>1, WriteBuffersKeeps, WriteNowKeeps
  <2>2. QED
    BY <1>1, <2>1, WriteRefusedKeeps, CorkKeeps, UncorkKeeps, EndKeeps, DestroyKeeps DEF Program
<1>2. CASE Return
  BY <1>2, ReturnKeeps
<1>3. CASE Library
  BY <1>3, NextTickKeeps, ClearBufferKeeps, WrittenKeeps, NextEntryKeeps, AfterDrainKeeps,
     AfterCallbackKeeps, CallNextReturns, CallNextCalls, EndWritableKeeps, FinishMaybeKeeps,
     FinishKeeps, FinishedKeeps, ErrorKeeps DEF Library
<1>4. CASE Sink
  BY <1>4, SinkTakesKeeps, SinkAnswersAtOnceKeeps, SinkFailsAtOnceKeeps, SinkAnswersKeeps,
     SinkFailsKeeps DEF Sink
<1>5. CASE Tick
  BY <1>5, TickKeeps
<1>6. CASE UNCHANGED vars
  BY <1>6, StutterKeeps
<1>7. QED
  BY <1>1, <1>2, <1>3, <1>4, <1>5, <1>6 DEF Next

\* Whatever the program and the sink do, IInv holds.
THEOREM Inductive == Spec => []IInv
<1>1. Init => IInv
  BY InitKeeps, WritableAssumption
<1>2. IInv /\ [Next]_vars => IInv'
  BY NextKeeps, WritableAssumption
<1>3. QED
  BY <1>1, <1>2, PTL DEF Spec

-----------------------------------------------------------------------------
(* What follows from it.                                                   *)

\* A sequence over the set its elements are in.
LEMMA SeqOver ==
  ASSUME NEW s \in Seq(Nat), NEW S, Range(s) \subseteq S
  PROVE  s \in Seq(S)
<1>1. \A k \in DOMAIN s : s[k] \in S
  BY DEF Range
<1>2. QED
  BY <1>1

\* The state of the stream has its type; no cork and no callback is uncounted that was
\* not counted.
THEOREM WritableTypeOK == Spec => []TypeOK
<1>1. ASSUME IInv PROVE TypeOK
  <2> USE <1>1 DEF IInv
  <2>1. options \in Options /\ state.pendingcb \in Nat /\ state.corked \in 0..MaxCorks
    BY DEF Typed, State, Counted
  <2>2. /\ state.buffer \in Seq(Nat) /\ state.writecb.ids \in Seq(Nat) /\ accepted \in Seq(Nat)
        /\ todo \in Seq(Frame) /\ ticks \in Seq(Frame)
    BY DEF Typed, State, Cb
  <2>3. state.buffer \in Seq(Ids) /\ state.writecb.ids \in Seq(Ids) /\ accepted \in Seq(Ids)
    <3>1. /\ Range(state.buffer) \subseteq Ids /\ Range(state.writecb.ids) \subseteq Ids
          /\ Range(accepted) \subseteq Ids
      BY DEF Placed
    <3>2. QED
      BY <2>2, <3>1, SeqOver
  <2>4. IdsIn(todo) \subseteq Ids /\ IdsIn(ticks) \subseteq Ids
    BY DEF Owed, Placed
  <2>5. ASSUME NEW i \in DOMAIN todo PROVE todo[i].op \in Frames /\ todo[i].ids \in Seq(Ids)
    <3>1. todo[i] \in Frame
      BY <2>2
    <3>2. Range(todo[i].ids) \subseteq Ids
      BY <2>4 DEF IdsIn
    <3>3. QED
      BY <3>1, <3>2, SeqOver DEF Frame
  <2>6. ASSUME NEW i \in DOMAIN ticks PROVE ticks[i].ids \in Seq(Ids)
    <3>1. ticks[i] \in Frame
      BY <2>2
    <3>2. Range(ticks[i].ids) \subseteq Ids
      BY <2>4 DEF IdsIn
    <3>3. QED
      BY <3>1, <3>2, SeqOver DEF Frame
  <2>7. Range(given) \subseteq Range(accepted)
    BY DEF Placed
  <2>8. QED
    BY <2>1, <2>3, <2>5, <2>6, <2>7 DEF TypeOK
<1>2. QED
  BY <1>1, Inductive, PTL

\* No callback is called twice, and those of accepted writes are called in the order of
\* the writes until one fails.
THEOREM WritableCallbacksInOrder == Spec => []CallbacksInOrder
<1>1. ASSUME IInv PROVE CallbacksInOrder
  <2> USE <1>1 DEF IInv
  <2>1. IsInjective(called)
    BY DEF Owed
  <2>2. ASSUME ~sink.failed, NEW m \in DOMAIN called, NEW n \in DOMAIN called, m < n,
               {called[m], called[n]} \subseteq Range(accepted)
        PROVE  called[m] < called[n]
    <3>1. called[m] \in Range(called) /\ called[n] \in Range(called)
      BY DEF Range
    <3>2. {called[m], called[n]} \subseteq answered
      BY <2>2, <3>1 DEF Owed
    <3>3. QED
      BY <2>2, <3>2 DEF CallsOrdered
  <2>3. QED
    BY <2>1, <2>2 DEF CallbacksInOrder
<1>2. QED
  BY <1>1, Inductive, PTL

\* "finish" comes once at most, and after the callbacks.
THEOREM WritableFinishAfterCallbacks == Spec => []FinishAfterCallbacks
<1>1. ASSUME IInv PROVE FinishAfterCallbacks
  <2> USE <1>1 DEF IInv
  <2>1. sink.finishes <= 1
    BY DEF Finishing
  <2>2. ASSUME state.finished, NEW i \in Range(accepted)
        PROVE  \/ i \in Range(called)
               \/ \E k \in DOMAIN ticks : i \in Range(ticks[k].ids)
               \/ \E k \in DOMAIN todo : i \in Range(todo[k].ids)
    <3>1. i \in Range(called) \cup SettledIn(todo) \cup SettledIn(ticks)
      BY <2>2 DEF Finishing, Uncalled
    <3>2. QED
      BY <3>1 DEF SettledIn
  <2>3. QED
    BY <2>1, <2>2 DEF FinishAfterCallbacks
<1>2. QED
  BY <1>1, Inductive, PTL

-----------------------------------------------------------------------------
(* The promise, step by step.                                              *)

ow == <<accepted, given, answered, sink.failed, state.ending, state.finished>>

\* OrderedWriter speaks of sequences as Writable does.
LEMMA SameWords ==
  ASSUME NEW f PROVE OW!Range(f) = Range(f) /\ (OW!IsInjective(f) <=> IsInjective(f))
BY DEF OW!Range, Range, OW!IsInjective, IsInjective

\* A sequence that agrees with the start of another is a prefix of it,
LEMMA PrefixOf ==
  ASSUME NEW s \in Seq(Nat), NEW t \in Seq(Nat), Len(s) <= Len(t),
         \A k \in DOMAIN s : s[k] = t[k]
  PROVE  SubSeq(t, 1, Len(s)) = s
<1>1. SubSeq(t, 1, Len(s)) \in Seq(Nat) /\ Len(SubSeq(t, 1, Len(s))) = Len(s)
  OBVIOUS
<1>2. \A k \in 1..Len(s) : SubSeq(t, 1, Len(s))[k] = s[k]
  OBVIOUS
<1>3. QED
  BY <1>1, <1>2, SeqEqual

\* and so is the first part of a concatenation.
LEMMA PrefixOfCat ==
  ASSUME NEW s \in Seq(Nat), NEW t \in Seq(Nat)
  PROVE  Len(s \o t) >= Len(s) /\ SubSeq(s \o t, 1, Len(s)) = s
<1>1. s \o t \in Seq(Nat) /\ Len(s \o t) >= Len(s) /\ \A k \in DOMAIN s : s[k] = (s \o t)[k]
  OBVIOUS
<1>2. QED
  BY <1>1, PrefixOf

\* An answer of the sink is progress.
LEMMA Progresses ==
  ASSUME IInv, IInv', Writing(state),
         given' = given \/ (Has(todo, "_write") /\ ~state.destroyed /\ given' = given \o state.writecb.ids),
         answered' = answered \/ answered' = answered \cup Range(state.writecb.ids),
         sink.failed => sink'.failed,
         state'.ending = state.ending, state'.finished = state.finished, accepted' = accepted
  PROVE  OW!Progress
<1> USE DEF IInv
<1>1. given \in Seq(Nat) /\ accepted \in Seq(Nat) /\ state.writecb.ids \in Seq(Nat)
  BY DEF Typed, State, Cb
<1>2. ~state.finished
  BY NotFinished DEF Closed
<1>3. Len(given') >= Len(given) /\ SubSeq(given', 1, Len(given)) = given
  <2>1. CASE given' = given
    BY <1>1, <2>1, PrefixOf
  <2>2. CASE given' = given \o state.writecb.ids
    BY <1>1, <2>2, PrefixOfCat
  <2>3. QED
    BY <2>1, <2>2
<1>4. Range(given') \subseteq Range(accepted) /\ IsInjective(given') /\ given' \in Seq(Nat)
  BY DEF Placed, Typed
<1>5. ~sink.failed => given' = SubSeq(accepted, 1, Len(given'))
  <2>1. ASSUME ~sink.failed
        PROVE  Len(given') <= Len(accepted) /\ \A k \in DOMAIN given' : given'[k] = accepted[k]
    <3>1. CASE given' = given
      BY <2>1, <3>1 DEF Ordered
    <3>2. CASE given' # given
      BY <2>1, <3>2, Handing
    <3>3. QED
      BY <3>1, <3>2
  <2>2. QED
    BY <1>1, <1>4, <2>1, PrefixOf
<1>6. answered \subseteq answered' /\ answered' \subseteq Range(accepted)
  BY DEF Placed
<1>7. ~sink'.failed => answered' \subseteq Range(given')
  BY DEF Ordered
<1>8. QED
  BY <1>2, <1>3, <1>4, <1>5, <1>6, <1>7, SameWords DEF OW!Progress

\* Every step of the stream is one of OrderedWriter, or none.
LEMMA PromiseStep ==
  ASSUME WritableAssumption, IInv, IInv', [Next]_vars
  PROVE  [OW!Next]_ow
<1> USE DEF IInv
<1>1. DOMAIN state = Fields
  BY DEF Typed, State
<1>2. ASSUME NEW len \in Lens, Write(len) PROVE OW!Next
  <2>1. /\ ~state.ending /\ Len(chunks) < MaxWrites
        /\ accepted' = Append(accepted, Len(chunks) + 1)
        /\ UNCHANGED <<given, answered, sink>>
    BY <1>2 DEF Write
  <2>2. state'.ending = state.ending /\ state'.finished = state.finished
    BY <1>2, <1>1 DEF Write, DoWrite, Fields
  <2>3. Len(chunks) + 1 \notin Range(accepted) /\ Len(chunks) + 1 \in 1..MaxWrites
    BY <2>1 DEF Typed, Placed, Ids, WritableAssumption
  <2>4. OW!Accept(Len(chunks) + 1)
    BY <2>1, <2>2, <2>3, SameWords DEF OW!Accept
  <2>5. QED
    BY <2>3, <2>4 DEF OW!Next
<1>3. ASSUME SinkTakes \/ SinkAnswersAtOnce \/ SinkFailsAtOnce \/ SinkAnswers \/ SinkFails
      PROVE  OW!Next
  <2>1. Writing(state)
    <3>1. At("_write") => Has(todo, "_write")
      BY DEF At, Has, Typed
    <3>2. QED
      BY <1>3, <3>1 DEF Shape, SinkTakes, SinkAnswersAtOnce, SinkFailsAtOnce, SinkAnswers, SinkFails
  <2>2. given' = given \/ (Has(todo, "_write") /\ ~state.destroyed /\ given' = given \o state.writecb.ids)
    <3>1. At("_write") => Has(todo, "_write")
      BY DEF At, Has, Typed
    <3>2. QED
      BY <1>3, <3>1 DEF Handed, SinkTakes, SinkAnswersAtOnce, SinkFailsAtOnce, SinkAnswers, SinkFails
  <2>3. /\ answered' = answered \/ answered' = answered \cup Range(state.writecb.ids)
        /\ accepted' = accepted
    BY <1>3 DEF SinkTakes, SinkAnswersAtOnce, SinkFailsAtOnce, SinkAnswers, SinkFails
  <2>4. sink.failed => sink'.failed
    BY <1>3 DEF SinkTakes, SinkAnswersAtOnce, SinkFailsAtOnce, SinkAnswers, SinkFails, Typed
  <2>5. state'.ending = state.ending /\ state'.finished = state.finished
    BY <1>1, <1>3 DEF SinkTakes, SinkAnswersAtOnce, SinkFailsAtOnce, SinkAnswers, SinkFails, StateUpdate, Fields
  <2>6. QED
    BY <2>1, <2>2, <2>3, <2>4, <2>5, Progresses DEF OW!Next
<1>4. ASSUME EndWritable PROVE OW!Next
  <2>1. /\ state'.ending = TRUE /\ state'.finished = state.finished
        /\ UNCHANGED <<accepted, given, answered, sink>>
    BY <1>1, <1>4 DEF EndWritable, history, Fields
  <2>2. QED
    BY <2>1 DEF OW!Next, OW!End
<1>5. ASSUME Finish PROVE OW!Next \/ UNCHANGED ow
  <2>1. UNCHANGED <<accepted, given, answered>> /\ Has(todo, "finish")
    BY <1>5 DEF Finish, At, Has, Typed
  <2>2. CASE FinishReady(state)
    <3>1. state'.ending = state.ending /\ state'.finished = TRUE /\ sink'.failed = sink.failed
      BY <1>1, <1>5, <2>2 DEF Finish, Fields, Typed
    <3>2. state.ending /\ ~state.finished /\ answered = Range(accepted)
      BY <2>1, <2>2, NoneOwed DEF Closed
    <3>3. QED
      BY <2>1, <3>1, <3>2, SameWords DEF OW!Next, OW!Finish
  <2>3. CASE ~FinishReady(state)
    BY <1>5, <2>1, <2>3 DEF Finish, ow
  <2>4. QED
    BY <2>2, <2>3
<1>6. ASSUME \/ WriteRefused \/ Cork \/ Uncork \/ End \/ Destroy \/ Return \/ NextTick \/ ClearBuffer
             \/ Written \/ NextEntry \/ AfterDrain \/ AfterCallback \/ CallNext \/ FinishMaybe
             \/ Finished \/ Error \/ Tick \/ UNCHANGED vars
      PROVE  UNCHANGED ow
  <2>1. UNCHANGED <<accepted, given, answered, sink>>
    BY <1>6 DEF WriteRefused, Cork, Uncork, End, Destroy, Return, NextTick, ClearBuffer, Written, NextEntry,
                AfterDrain, AfterCallback, CallNext, FinishMaybe, Finished, Error, Tick, vars, history
  <2>2. state'.ending = state.ending /\ state'.finished = state.finished
    <3>1. CASE WriteRefused \/ Return \/ NextTick \/ Tick \/ UNCHANGED vars
      BY <3>1 DEF WriteRefused, Return, NextTick, Tick, vars
    <3>2. CASE Cork \/ Uncork \/ End \/ Destroy
      BY <1>1, <3>2 DEF Cork, Uncork, End, Destroy, Fields
    <3>3. CASE ClearBuffer
      BY <1>1, <3>3 DEF ClearBuffer, DoWrite, Fields
    <3>4. CASE Written
      BY <1>1, <3>4 DEF Written, QueueDropped, Fields
    <3>5. CASE NextEntry
      BY <1>1, <3>5 DEF NextEntry, DoWrite, Fields
    <3>6. CASE AfterDrain \/ AfterCallback \/ CallNext \/ Finished \/ Error
      BY <1>1, <3>6 DEF AfterDrain, AfterCallback, CallNext, Finished, Error, Fields
    <3>7. CASE FinishMaybe
      BY <1>1, <3>7 DEF FinishMaybe, Fields
    <3>8. QED
      BY <1>6, <3>1, <3>2, <3>3, <3>4, <3>5, <3>6, <3>7
  <2>3. QED
    BY <2>1, <2>2 DEF ow
<1>7. QED
  BY <1>2, <1>3, <1>4, <1>5, <1>6 DEF Next, Program, Library, Sink

\* The buffer, the corks and the callbacks keep the promise of OrderedWriter.
THEOREM WritablePromise == Spec => Promise
<1>1. Init => OW!Init
  BY DEF Init, OW!Init
<1>2. IInv /\ IInv' /\ [Next]_vars => [OW!Next]_OW!vars
  BY PromiseStep, WritableAssumption DEF ow, OW!vars
<1>3. QED
  BY <1>1, <1>2, Inductive, PTL DEF Spec, Promise, OW!Spec
-----------------------------------------------------------------------------
(* Lengths.                                                                *)

\* What holds at 0, and at n + 1 when it does at n, holds at every number.
LEMMA Induction ==
  ASSUME NEW S \in SUBSET Nat, 0 \in S, \A n \in S : n + 1 \in S
  PROVE  S = Nat
<1> SUFFICES ASSUME Nat \ S # {} PROVE FALSE
  OBVIOUS
<1>1. PICK m \in Nat \ S : \A k \in Nat \ S : ~(<<k, m>> \in OpToRel(<, Nat))
  BY WFMin, NatLessThanWellFounded
<1>2. \A k \in Nat \ S : ~(k < m)
  BY <1>1 DEF OpToRel
<1>3. m \in Nat /\ m \notin S /\ m # 0
  OBVIOUS
<1>4. m - 1 \in Nat /\ m - 1 < m /\ (m - 1) + 1 = m
  BY <1>3
<1>5. m - 1 \in S
  BY <1>2, <1>4
<1>6. QED
  BY <1>3, <1>4, <1>5

\* g gives the lengths of the beginnings of ids.
Sums(g, lens, ids) ==
  /\ g \in [0..Len(ids) -> Nat] /\ g[0] = 0
  /\ \A n \in 1..Len(ids) : g[n] = g[n - 1] + lens[ids[n]]

\* These are ids of chunks.
Lengths(lens, ids) == lens \in Seq(Nat) /\ ids \in Seq(Nat) /\ Range(ids) \subseteq DOMAIN lens

\* There is such a g.
LEMMA SumsExist ==
  ASSUME NEW lens, NEW ids, Lengths(lens, ids)
  PROVE  \E g : Sums(g, lens, ids)
<1> DEFINE S == {m \in Nat : m <= Len(ids) =>
                   \E g \in [0..m -> Nat] : g[0] = 0 /\ \A n \in 1..m : g[n] = g[n - 1] + lens[ids[n]]}
<1>1. Len(ids) \in Nat /\ DOMAIN ids = 1..Len(ids) /\ \A n \in 1..Len(ids) : lens[ids[n]] \in Nat
  BY DEF Lengths, Range
<1>2. 0 \in S
  <2> DEFINE g == [n \in 0..0 |-> 0]
  <2>1. g \in [0..0 -> Nat] /\ g[0] = 0
    OBVIOUS
  <2> HIDE DEF g
  <2>2. ASSUME NEW n \in 1..0 PROVE g[n] = g[n - 1] + lens[ids[n]]
    <3>1. n \in Int /\ 1 <= n /\ n <= 0
      OBVIOUS
    <3>2. QED
      BY <3>1
  <2>3. QED
    BY <2>1, <2>2
<1>3. ASSUME NEW m \in S PROVE m + 1 \in S
  <2> DEFINE longer == \E g \in [0..(m + 1) -> Nat] : g[0] = 0 /\ \A n \in 1..(m + 1) : g[n] = g[n - 1] + lens[ids[n]]
  <2> SUFFICES ASSUME m + 1 <= Len(ids) PROVE longer
    <3>1. m + 1 \in Nat
      OBVIOUS
    <3> HIDE DEF longer
    <3>2. m + 1 <= Len(ids) => longer
      OBVIOUS
    <3>3. QED
      BY <3>1, <3>2 DEF longer
  <2>1. m \in Nat /\ m <= Len(ids) /\ m + 1 \in 1..Len(ids)
    BY <1>1
  <2>2. PICK g \in [0..m -> Nat] : g[0] = 0 /\ \A n \in 1..m : g[n] = g[n - 1] + lens[ids[n]]
    BY <2>1
  <2> DEFINE h == [n \in 0..(m + 1) |-> IF n <= m THEN g[n] ELSE g[m] + lens[ids[m + 1]]]
  <2>3. \A n \in 0..(m + 1) : h[n] \in Nat
    BY <1>1, <2>1, <2>2
  <2>4. h \in [0..(m + 1) -> Nat] /\ h[0] = 0
    BY <2>1, <2>2, <2>3
  <2>5. ASSUME NEW n \in 1..(m + 1) PROVE h[n] = h[n - 1] + lens[ids[n]]
    <3>1. CASE n <= m
      BY <2>1, <2>2, <3>1
    <3>2. CASE ~(n <= m)
      <4>1. n = m + 1 /\ n - 1 = m /\ m \in 0..(m + 1) /\ m <= m
        BY <2>1, <3>2
      <4>2. QED
        BY <2>1, <4>1
    <3>3. QED
      BY <3>1, <3>2
  <2>6. QED
    BY <2>4, <2>5
<1> HIDE DEF S
<1>4. S \in SUBSET Nat
  BY DEF S
<1>5. S = Nat
  BY <1>2, <1>3, <1>4, Induction
<1>6. Len(ids) \in S
  BY <1>1, <1>5
<1>7. \E g \in [0..Len(ids) -> Nat] : g[0] = 0 /\ \A n \in 1..Len(ids) : g[n] = g[n - 1] + lens[ids[n]]
  BY <1>1, <1>6 DEF S
<1>8. QED
  BY <1>7 DEF Sums

\* It ends with the length of ids.
LEMMA TotalIs ==
  ASSUME NEW lens, NEW ids, Lengths(lens, ids), NEW g, Sums(g, lens, ids)
  PROVE  TotalLen(lens, ids) = g[Len(ids)] /\ TotalLen(lens, ids) \in Nat
<1> DEFINE sums(f) == f = [n \in 0..Len(ids) |-> IF n = 0 THEN 0 ELSE f[n - 1] + lens[ids[n]]]
           f == CHOOSE f : sums(f)
<1>1. Len(ids) \in Nat
  BY DEF Lengths
<1>2. sums(g)
  BY <1>1 DEF Sums
<1>3. sums(f)
  BY <1>2
<1>4. TotalLen(lens, ids) = f[Len(ids)]
  BY DEF TotalLen
<1> HIDE DEF f
<1> DEFINE S == {m \in Nat : m <= Len(ids) => f[m] = g[m]}
<1>5. 0 \in S
  BY <1>1, <1>3 DEF Sums
<1>6. ASSUME NEW m \in S PROVE m + 1 \in S
  <2> SUFFICES ASSUME m + 1 <= Len(ids) PROVE f[m + 1] = g[m + 1]
    OBVIOUS
  <2>1. m \in Nat /\ m <= Len(ids) /\ m + 1 \in 1..Len(ids) /\ m + 1 \in 0..Len(ids) /\ m + 1 # 0 /\ (m + 1) - 1 = m
    BY <1>1
  <2>2. f[m + 1] = f[m] + lens[ids[m + 1]]
    BY <1>3, <2>1
  <2>3. g[m + 1] = g[m] + lens[ids[m + 1]]
    BY <2>1 DEF Sums
  <2>4. QED
    BY <2>1, <2>2, <2>3
<1> HIDE DEF S
<1>7. S \in SUBSET Nat
  BY DEF S
<1>8. S = Nat
  BY <1>5, <1>6, <1>7, Induction
<1>9. f[Len(ids)] = g[Len(ids)] /\ g[Len(ids)] \in Nat
  BY <1>1, <1>8 DEF S, Sums
<1>10. QED
  BY <1>4, <1>9

\* Lengths of concatenations, of beginnings, and under more chunks.
LEMMA TotalCat ==
  ASSUME NEW lens, NEW s, NEW t, Lengths(lens, s), Lengths(lens, t)
  PROVE  Lengths(lens, s \o t) /\ TotalLen(lens, s \o t) = TotalLen(lens, s) + TotalLen(lens, t)
<1>1. PICK g : Sums(g, lens, s)
  BY SumsExist
<1>2. PICK h : Sums(h, lens, t)
  BY SumsExist
<1>3. /\ s \in Seq(Nat) /\ t \in Seq(Nat) /\ Len(s) \in Nat /\ Len(t) \in Nat
      /\ DOMAIN s = 1..Len(s) /\ DOMAIN t = 1..Len(t)
  BY DEF Lengths
<1> DEFINE u == s \o t
<1>4. /\ u \in Seq(Nat) /\ Len(u) = Len(s) + Len(t) /\ DOMAIN u = 1..(Len(s) + Len(t))
      /\ \A n \in 1..Len(s) : u[n] = s[n]
      /\ \A n \in 1..(Len(s) + Len(t)) : ~(n <= Len(s)) => u[n] = t[n - Len(s)]
  BY <1>3
<1> HIDE DEF u
<1>5. Lengths(lens, u)
  <2>1. \A n \in DOMAIN u : u[n] \in DOMAIN lens
    <3> SUFFICES ASSUME NEW n \in DOMAIN u PROVE u[n] \in DOMAIN lens
      OBVIOUS
    <3>1. CASE n <= Len(s)
      <4>1. n \in DOMAIN s /\ u[n] = s[n]
        BY <1>3, <1>4, <3>1
      <4>2. QED
        BY <4>1 DEF Lengths, Range
    <3>2. CASE ~(n <= Len(s))
      <4>1. n - Len(s) \in DOMAIN t /\ u[n] = t[n - Len(s)]
        BY <1>3, <1>4, <3>2
      <4>2. QED
        BY <4>1 DEF Lengths, Range
    <3>3. QED
      BY <3>1, <3>2
  <2>2. QED
    BY <1>4, <2>1 DEF Lengths, Range
<1> DEFINE k == [n \in 0..(Len(s) + Len(t)) |-> IF n <= Len(s) THEN g[n] ELSE g[Len(s)] + h[n - Len(s)]]
<1>6. \A n \in 0..(Len(s) + Len(t)) : k[n] \in Nat
  <2> SUFFICES ASSUME NEW n \in 0..(Len(s) + Len(t)) PROVE k[n] \in Nat
    OBVIOUS
  <2>1. g[Len(s)] \in Nat
    <3>1. Len(s) \in 0..Len(s) /\ g \in [0..Len(s) -> Nat]
      BY <1>1, <1>3 DEF Sums
    <3>2. QED
      BY <3>1
  <2>2. CASE n <= Len(s)
    <3>1. n \in 0..Len(s)
      BY <1>3, <2>2
    <3>2. g[n] \in Nat
      BY <1>1, <3>1 DEF Sums
    <3>3. QED
      BY <2>2, <3>2
  <2>3. CASE ~(n <= Len(s))
    <3>1. n - Len(s) \in 0..Len(t)
      BY <1>3, <2>3
    <3>2. h[n - Len(s)] \in Nat
      BY <1>2, <3>1 DEF Sums
    <3>3. QED
      BY <2>1, <2>3, <3>2
  <2>4. QED
    BY <2>2, <2>3
<1>7. k[0] = 0
  BY <1>1, <1>3 DEF Sums
<1>8. ASSUME NEW n \in 1..(Len(s) + Len(t)) PROVE k[n] = k[n - 1] + lens[u[n]]
  <2>1. CASE n <= Len(s)
    <3>1. n \in 1..Len(s) /\ n - 1 <= Len(s) /\ n - 1 \in 0..(Len(s) + Len(t)) /\ n \in 0..(Len(s) + Len(t))
      BY <1>3, <2>1
    <3>2. k[n] = g[n] /\ k[n - 1] = g[n - 1] /\ u[n] = s[n]
      BY <1>4, <2>1, <3>1
    <3>3. QED
      BY <1>1, <3>1, <3>2 DEF Sums
  <2>2. CASE ~(n <= Len(s))
    <3> DEFINE m == n - Len(s)
    <3>1. m \in 1..Len(t) /\ n - 1 \in 0..(Len(s) + Len(t)) /\ n \in 0..(Len(s) + Len(t)) /\ (n - 1) - Len(s) = m - 1
      BY <1>3, <2>2
    <3>2. k[n] = g[Len(s)] + h[m] /\ u[n] = t[m]
      BY <1>4, <2>2, <3>1
    <3>3. h[m] = h[m - 1] + lens[t[m]] /\ h[m - 1] \in Nat /\ lens[t[m]] \in Nat
      <4>1. lens[t[m]] \in Nat
        <5>1. t[m] \in DOMAIN lens
          BY <1>3, <3>1 DEF Lengths, Range
        <5>2. QED
          BY <5>1 DEF Lengths
      <4>2. m - 1 \in 0..Len(t)
        BY <1>3, <3>1
      <4>3. QED
        BY <1>2, <3>1, <4>1, <4>2 DEF Sums
    <3>4. g[Len(s)] \in Nat
      BY <1>1, <1>3 DEF Sums
    <3>5. k[n - 1] = g[Len(s)] + h[m - 1]
      <4>1. CASE n - 1 <= Len(s)
        <5>1. n - 1 = Len(s) /\ m - 1 = 0 /\ k[n - 1] = g[n - 1]
          BY <1>3, <2>2, <3>1, <4>1
        <5>2. h[0] = 0
          BY <1>2 DEF Sums
        <5>3. QED
          BY <3>4, <5>1, <5>2
      <4>2. CASE ~(n - 1 <= Len(s))
        BY <3>1, <4>2
      <4>3. QED
        BY <4>1, <4>2
    <3> HIDE DEF k, m
    <3>6. QED
      BY <3>2, <3>3, <3>4, <3>5
  <2>3. QED
    BY <2>1, <2>2
<1>9. Sums(k, lens, u)
  BY <1>4, <1>6, <1>7, <1>8 DEF Sums
<1>10. k[Len(u)] = g[Len(s)] + h[Len(t)]
  <2>1. g[Len(s)] \in Nat
    <3>1. Len(s) \in 0..Len(s)
      BY <1>3
    <3>2. QED
      BY <1>1, <3>1 DEF Sums
  <2>0. h[0] = 0
    BY <1>2 DEF Sums
  <2>2. CASE Len(t) = 0
    <3>1. Len(u) = Len(s) /\ Len(s) \in 0..(Len(s) + Len(t))
      BY <1>3, <1>4, <2>2
    <3>2. QED
      BY <1>3, <2>0, <2>1, <2>2, <3>1
  <2>3. CASE Len(t) # 0
    <3>1. /\ ~(Len(u) <= Len(s)) /\ Len(u) - Len(s) = Len(t)
          /\ Len(u) \in 0..(Len(s) + Len(t))
      BY <1>3, <1>4, <2>3
    <3>2. QED
      BY <3>1
  <2>4. QED
    BY <2>2, <2>3
<1> HIDE DEF k
<1>11. TotalLen(lens, s) = g[Len(s)] /\ TotalLen(lens, t) = h[Len(t)]
  BY <1>1, <1>2, TotalIs
<1>12. TotalLen(lens, u) = k[Len(u)]
  BY <1>5, <1>9, TotalIs
<1>13. QED
  BY <1>5, <1>10, <1>11, <1>12 DEF u

\* The length of one chunk is its own.
LEMMA TotalOne ==
  ASSUME NEW lens \in Seq(Nat), NEW i \in DOMAIN lens
  PROVE  Lengths(lens, <<i>>) /\ TotalLen(lens, <<i>>) = lens[i] /\ lens[i] \in Nat
<1>1. <<i>> \in Seq(Nat) /\ Len(<<i>>) = 1 /\ <<i>>[1] = i /\ DOMAIN <<i>> = {1} /\ lens[i] \in Nat
  OBVIOUS
<1>2. Lengths(lens, <<i>>)
  BY <1>1 DEF Lengths, Range
<1> DEFINE g == [n \in 0..1 |-> IF n = 0 THEN 0 ELSE lens[i]]
<1>3. g \in [0..1 -> Nat] /\ g[0] = 0 /\ g[1] = lens[i]
  BY <1>1
<1> HIDE DEF g
<1>4. \A n \in 1..1 : g[n] = g[n - 1] + lens[<<i>>[n]]
  BY <1>1, <1>3
<1>5. Sums(g, lens, <<i>>)
  BY <1>1, <1>3, <1>4 DEF Sums
<1>6. TotalLen(lens, <<i>>) = g[Len(<<i>>)]
  BY <1>2, <1>5, TotalIs
<1>7. QED
  BY <1>1, <1>2, <1>3, <1>6

\* No chunk has no length.
LEMMA TotalNone ==
  ASSUME NEW lens \in Seq(Nat)
  PROVE  Lengths(lens, << >>) /\ TotalLen(lens, << >>) = 0
<1>1. Lengths(lens, << >>) /\ Len(<< >>) = 0
  BY DEF Lengths, Range
<1>2. PICK g : Sums(g, lens, << >>)
  BY <1>1, SumsExist
<1>3. TotalLen(lens, << >>) = g[0]
  BY <1>1, <1>2, TotalIs
<1>4. QED
  BY <1>1, <1>2, <1>3 DEF Sums

\* One more write does not change the lengths of the earlier ones.
LEMMA TotalMore ==
  ASSUME NEW lens, NEW ids, Lengths(lens, ids), NEW more, more \in Seq(Nat),
         DOMAIN lens \subseteq DOMAIN more, \A i \in DOMAIN lens : more[i] = lens[i]
  PROVE  Lengths(more, ids) /\ TotalLen(more, ids) = TotalLen(lens, ids)
<1>1. PICK g : Sums(g, lens, ids)
  BY SumsExist
<1>2. Lengths(more, ids)
  BY DEF Lengths
<1>3. \A n \in 1..Len(ids) : more[ids[n]] = lens[ids[n]]
  BY DEF Lengths, Range
<1>4. Sums(g, more, ids)
  BY <1>1, <1>3 DEF Sums
<1>5. QED
  BY <1>1, <1>2, <1>4, TotalIs

-----------------------------------------------------------------------------
(* What length counts.                                                     *)

\* length counts the write in progress and the buffer behind it; nothing else, until a
\* write fails.
Measured ==
  /\ state.writelen \in Nat /\ (~Writing(state) => state.writelen = 0)
  /\ state.length >= state.writelen + TotalLen(chunks, Rest)
  /\ ~sink.failed => /\ state.length = state.writelen + TotalLen(chunks, Rest)
                     /\ state.writelen = TotalLen(chunks, state.writecb.ids)

\* The buffer and the write in progress are of chunks that were written.
LEMMA LengthsFacts ==
  ASSUME IInv
  PROVE  /\ Lengths(chunks, Rest) /\ Lengths(chunks, state.buffer) /\ Lengths(chunks, state.writecb.ids)
         /\ chunks \in Seq(Nat) /\ DOMAIN chunks = Ids /\ Len(chunks) \in Nat
         /\ ~Writing(state) => state.writecb.ids = << >>
<1>1. chunks \in Seq(Nat) /\ DOMAIN chunks = Ids /\ Len(chunks) \in Nat
  BY DEF IInv, Typed, Ids
<1>2. /\ Rest \in Seq(Nat) /\ state.buffer \in Seq(Nat) /\ state.writecb.ids \in Seq(Nat)
      /\ Range(Rest) \subseteq Range(state.buffer)
  BY RestFacts DEF IInv, Typed, State, Cb
<1>3. /\ Range(state.buffer) \subseteq Ids /\ Range(state.writecb.ids) \subseteq Ids
  BY DEF IInv, Placed
<1>4. ~Writing(state) => state.writecb.ids = << >>
  BY DEF Writing, None
<1>5. QED
  BY <1>1, <1>2, <1>3, <1>4 DEF Lengths

\* The length of a beginning and what is behind it.
LEMMA TotalHead ==
  ASSUME NEW lens, NEW s, Lengths(lens, s), s # << >>
  PROVE  /\ Head(s) \in DOMAIN lens /\ lens[Head(s)] \in Nat
         /\ Lengths(lens, Tail(s)) /\ TotalLen(lens, Tail(s)) \in Nat
         /\ TotalLen(lens, s) = lens[Head(s)] + TotalLen(lens, Tail(s))
<1>1. s \in Seq(Nat) /\ lens \in Seq(Nat)
  BY DEF Lengths
<1>2. /\ Head(s) \in Range(s) /\ Tail(s) \in Seq(Nat) /\ s = <<Head(s)>> \o Tail(s)
      /\ \A k \in DOMAIN Tail(s) : Tail(s)[k] \in Range(s)
  <2>1. /\ Len(s) \in Nat /\ Len(s) >= 1 /\ DOMAIN s = 1..Len(s) /\ Head(s) = s[1] /\ Tail(s) \in Seq(Nat)
        /\ DOMAIN Tail(s) = 1..(Len(s) - 1) /\ \A k \in 1..(Len(s) - 1) : Tail(s)[k] = s[k + 1]
    BY <1>1
  <2>2. s = <<Head(s)>> \o Tail(s)
    BY <1>1, HeadTail
  <2>3. QED
    BY <2>1, <2>2 DEF Range
<1>3. Head(s) \in DOMAIN lens /\ Lengths(lens, Tail(s))
  BY <1>1, <1>2 DEF Lengths, Range
<1>4. Lengths(lens, <<Head(s)>>) /\ TotalLen(lens, <<Head(s)>>) = lens[Head(s)] /\ lens[Head(s)] \in Nat
  BY <1>1, <1>3, TotalOne
<1>5. TotalLen(lens, <<Head(s)>> \o Tail(s)) = TotalLen(lens, <<Head(s)>>) + TotalLen(lens, Tail(s))
  BY <1>3, <1>4, TotalCat
<1>6. PICK g : Sums(g, lens, Tail(s))
  BY <1>3, SumsExist
<1>7. TotalLen(lens, Tail(s)) \in Nat
  BY <1>3, <1>6, TotalIs
<1>8. QED
  BY <1>2, <1>3, <1>4, <1>5, <1>7

\* A total is a number.
LEMMA TotalNat ==
  ASSUME NEW lens, NEW s, Lengths(lens, s)
  PROVE  TotalLen(lens, s) \in Nat
<1>1. PICK g : Sums(g, lens, s)
  BY SumsExist
<1>2. QED
  BY <1>1, TotalIs

\* A step that leaves the lengths and the loop over the buffer alone.
SameLoop ==
  /\ UNCHANGED chunks /\ (sink.failed => sink'.failed)
  /\ state'.buffer = state.buffer
  /\ Has(todo', "next") <=> Has(todo, "next")
  /\ Has(todo', "written") <=> Has(todo, "written")

\* What the loop has not touched still has to be written.
LEMMA SameLoopRest == ASSUME SameLoop PROVE Rest' = Rest
  BY DEF SameLoop, Rest

\* A step that touches neither the lengths nor the loop counts the same.
LEMMA SameMeasured ==
  ASSUME Measured, SameLoop, state'.length = state.length, state'.writelen = state.writelen,
         state'.writecb = state.writecb
  PROVE  Measured'
<1>1. Rest' = Rest /\ chunks' = chunks /\ (sink.failed => sink'.failed)
  BY SameLoopRest DEF SameLoop
<1>2. Writing(state') <=> Writing(state)
  BY DEF Writing
<1>3. QED
  BY <1>1, <1>2 DEF Measured

\* The sink answered: the write in progress is subtracted.
LEMMA AnswerMeasured ==
  ASSUME IInv, Measured, SameLoop,
         state'.length = state.length - state.writelen, state'.writelen = 0, state'.writecb = None
  PROVE  Measured'
<1>1. Rest' = Rest /\ chunks' = chunks /\ (sink.failed => sink'.failed)
  BY SameLoopRest DEF SameLoop
<1>2. ~Writing(state') /\ state'.writecb.ids = << >>
  BY DEF Writing, None
<1>3. TotalLen(chunks, << >>) = 0 /\ TotalLen(chunks, Rest) \in Nat
  BY LengthsFacts, TotalNone, TotalNat
<1>4. state.length \in Int
  BY DEF IInv, Typed, State
<1>5. QED
  BY <1>1, <1>2, <1>3, <1>4 DEF Measured

\* A write() adds its chunk to the buffer, or passes it on, and counts it once.
LEMMA WriteMeasured ==
  ASSUME IInv, Measured, NEW len \in Lens, Write(len) PROVE Measured'
<1> USE DEF IInv
<1> DEFINE id == Len(chunks) + 1
<1>1. /\ chunks \in Seq(Nat) /\ Len(chunks) \in Nat /\ len \in Nat /\ sink' = sink /\ InProgram
      /\ chunks' = Append(chunks, len)
  <2>1. len \in Nat
    BY WritableAssumption DEF WritableAssumption
  <2>2. InProgram /\ sink' = sink /\ chunks' = Append(chunks, len)
    BY DEF Write
  <2>3. QED
    BY <2>1, <2>2 DEF Typed
<1>2. /\ chunks' \in Seq(Nat) /\ DOMAIN chunks \subseteq DOMAIN chunks' /\ id \in DOMAIN chunks'
      /\ (\A i \in DOMAIN chunks : chunks'[i] = chunks[i]) /\ chunks'[id] = len
  BY <1>1
<1>3. PICK more : more = chunks'
  OBVIOUS
<1>4. /\ Lengths(more, Rest) /\ TotalLen(more, Rest) = TotalLen(chunks, Rest)
      /\ Lengths(more, state.writecb.ids) /\ TotalLen(more, state.writecb.ids) = TotalLen(chunks, state.writecb.ids)
      /\ TotalLen(chunks, Rest) \in Nat
  BY <1>2, <1>3, LengthsFacts, TotalMore, TotalNat
<1>5. Lengths(more, <<id>>) /\ TotalLen(more, <<id>>) = len
  BY <1>2, <1>3, TotalOne
<1>6. state.length \in Int /\ DOMAIN state = Fields
  BY DEF Typed, State
<1>7. state'.length = state.length + len
  BY <1>6 DEF Write, DoWrite, Fields
<1>8. CASE MustBuffer(state)
  <2>1. /\ Rest' \in {Rest, Rest \o <<id>>}
        /\ ~Has(todo, "written") => Rest' = Rest \o <<id>>
        /\ \A f \in Fields \ {"length", "pendingcb", "needDrain", "buffer"} : state'[f] = state[f]
    BY <1>8, WritableAssumption, WriteBuffers
  <2>2. state'.writelen = state.writelen /\ state'.writecb = state.writecb
    BY <2>1 DEF Fields
  <2>3. TotalLen(more, Rest \o <<id>>) = TotalLen(chunks, Rest) + len
    BY <1>4, <1>5, TotalCat
  <2>4. ~sink.failed => ~Has(todo, "written")
    BY <1>1, InTheProgram DEF Clearing, Has, Busy
  <2> DEFINE r == Rest'
  <2>5. /\ TotalLen(more, r) = TotalLen(chunks, Rest) \/ TotalLen(more, r) = TotalLen(chunks, Rest) + len
        /\ ~sink.failed => TotalLen(more, r) = TotalLen(chunks, Rest) + len
    BY <1>4, <2>1, <2>3, <2>4
  <2> HIDE DEF r
  <2>6. Writing(state') <=> Writing(state)
    BY <2>2 DEF Writing
  <2>7. /\ state'.writelen \in Nat /\ (~Writing(state') => state'.writelen = 0)
        /\ state'.length >= state'.writelen + TotalLen(more, r)
        /\ ~sink.failed => /\ state'.length = state'.writelen + TotalLen(more, r)
                           /\ state'.writelen = TotalLen(more, state'.writecb.ids)
    BY <1>1, <1>4, <1>6, <1>7, <2>2, <2>5, <2>6 DEF Measured
  <2>8. QED
    BY <1>1, <1>3, <2>7 DEF Measured, r
<1>9. CASE ~MustBuffer(state)
  <2>1. /\ Rest' = Rest /\ ~Writing(state) /\ state'.writecb.ids = <<id>> /\ Writing(state')
    BY <1>9, WritableAssumption, WriteNow
  <2>2. state'.writelen = len
    BY <1>6, <1>9 DEF Write, DoWrite, Fields
  <2>3. state.writelen = 0
    BY <2>1 DEF Measured
  <2>4. /\ state'.writelen \in Nat /\ (~Writing(state') => state'.writelen = 0)
        /\ state'.length >= state'.writelen + TotalLen(more, Rest)
        /\ ~sink.failed => /\ state'.length = state'.writelen + TotalLen(more, Rest)
                           /\ state'.writelen = TotalLen(more, state'.writecb.ids)
    BY <1>1, <1>4, <1>5, <1>6, <1>7, <2>1, <2>2, <2>3 DEF Measured
  <2>5. QED
    BY <1>1, <1>3, <2>1, <2>4 DEF Measured
<1>10. QED
  BY <1>8, <1>9

\* The whole queue, or its first chunk, is handed to the sink.
LEMMA ClearBufferMeasured ==
  ASSUME IInv, Measured, ClearBuffer PROVE Measured'
<1> USE DEF IInv
<1> DEFINE all == options.writev /\ Len(state.buffer) > 1
           ids == IF all THEN state.buffer ELSE <<Head(state.buffer)>>
           len == IF all THEN state.length ELSE chunks[ids[1]]
           w   == IF all THEN "written" ELSE "next"
           r   == Tail(todo)
           t   == <<Do("_write"), Do(w)>> \o r
<1>1. /\ todo # << >> /\ todo[1].op = "clearBuffer"
      /\ state' = [DoWrite(state, ids, all, len) EXCEPT !.bufferProcessing = TRUE]
      /\ todo' = t /\ UNCHANGED <<chunks, sink>>
  BY DEF ClearBuffer, At, Then, history
<1>2. MustClear(state) /\ ~Clearing(todo) /\ ~Clearing(r)
  <2>1. Has(todo, "clearBuffer")
    BY <1>1 DEF Has, Typed
  <2>2. MustClear(state) /\ ~Clearing(todo)
    BY <2>1 DEF Shape, MustClear
  <2>3. QED
    BY <1>1, <2>2, Popped
<1>3. /\ ~Writing(state) /\ state.buffer # << >> /\ Rest = state.buffer /\ state.writelen = 0
  BY <1>2 DEF MustClear, Clearing, Has, Busy, Rest, Measured
<1>4. /\ ~Has(r, "written") /\ ~Has(r, "next")
      /\ \A op : Has(t, op) <=> op \in {"_write", w} \/ Has(r, op)
  <2>1. w \in Busy
    BY DEF Busy
  <2> HIDE DEF w, r
  <2>2. QED
    BY <1>1, <1>2, <2>1, Hands DEF r
<1> HIDE DEF w, r, t
<1>5. /\ DOMAIN state = Fields /\ state.length \in Int
  BY DEF Typed, State
<1>6. /\ state'.buffer = state.buffer /\ state'.length = state.length /\ state'.writelen = len
      /\ state'.writecb.ids = ids
  BY <1>1, <1>5 DEF DoWrite, Fields
<1>7. /\ Lengths(chunks, state.buffer) /\ chunks \in Seq(Nat)
      /\ TotalLen(chunks, state.buffer) \in Nat
  BY LengthsFacts, TotalNat
<1>8. /\ state.length >= TotalLen(chunks, state.buffer)
      /\ ~sink.failed => state.length = TotalLen(chunks, state.buffer)
  BY <1>3, <1>5, <1>7 DEF Measured
<1>9. Writing(state')
  <2>1. state'.writecb = [ids |-> ids, writev |-> all]
    BY <1>1, <1>5 DEF DoWrite, Fields
  <2>2. ids # << >>
    BY <1>3
  <2>3. state'.writecb.ids # None.ids
    BY <1>6, <2>2, NoneTyped
  <2>4. QED
    BY <2>3 DEF Writing
<1>10. CASE all
  <2>1. Rest' = << >>
    BY <1>1, <1>4, <1>10 DEF Rest, w
  <2>2. TotalLen(chunks, << >>) = 0
    BY <1>7, TotalNone
  <2>3. len = state.length /\ ids = state.buffer
    BY <1>10
  <2>4. chunks' = chunks /\ sink' = sink
    BY <1>1
  <2>5. TotalLen(chunks', Rest') = 0 /\ TotalLen(chunks', state'.writecb.ids) = TotalLen(chunks, state.buffer)
    BY <1>6, <2>1, <2>2, <2>3, <2>4
  <2>6. state'.writelen = state.length /\ state'.length = state.length
    BY <1>6, <2>3
  <2>7. state.length \in Nat
    BY <1>5, <1>7, <1>8
  <2>8. /\ state'.writelen \in Nat
        /\ state'.length >= state'.writelen + TotalLen(chunks', Rest')
        /\ ~sink'.failed => /\ state'.length = state'.writelen + TotalLen(chunks', Rest')
                            /\ state'.writelen = TotalLen(chunks', state'.writecb.ids)
    BY <1>8, <2>4, <2>5, <2>6, <2>7
  <2>9. QED
    BY <1>9, <2>8 DEF Measured
<1>11. CASE ~all
  <2>1. Rest' = Tail(state.buffer)
    BY <1>1, <1>4, <1>6, <1>11 DEF Rest, w
  <2>2. len = chunks[Head(state.buffer)] /\ ids = <<Head(state.buffer)>>
    BY <1>11
  <2>3. /\ Head(state.buffer) \in DOMAIN chunks /\ chunks[Head(state.buffer)] \in Nat
        /\ TotalLen(chunks, Tail(state.buffer)) \in Nat
        /\ TotalLen(chunks, state.buffer) = chunks[Head(state.buffer)] + TotalLen(chunks, Tail(state.buffer))
    BY <1>3, <1>7, TotalHead
  <2>4. TotalLen(chunks, <<Head(state.buffer)>>) = chunks[Head(state.buffer)]
    BY <1>7, <2>3, TotalOne
  <2> HIDE DEF len, ids, all
  <2>5. QED
    BY <1>1, <1>5, <1>6, <1>8, <1>9, <2>1, <2>2, <2>3, <2>4 DEF Measured
<1>12. QED
  BY <1>10, <1>11

\* The queue is dropped: of what it measured nothing is left.
LEMMA WrittenMeasured ==
  ASSUME IInv, Measured, Written PROVE Measured'
<1> USE DEF IInv
<1>1. /\ todo # << >> /\ todo[1].op = "written" /\ todo' = << >> \o Tail(todo)
      /\ state' = [state EXCEPT !.pendingcb = @ + 1, !.buffer = << >>, !.bufferProcessing = FALSE]
      /\ UNCHANGED <<chunks, sink>>
  BY DEF Written, QueueDropped, At, Then, history
<1>2. /\ ~Clearing(Tail(todo)) /\ Tail(todo) \in Seq(Frame)
      /\ \A op : Has(todo, op) <=> op = "written" \/ Has(Tail(todo), op)
  BY <1>1, Popped DEF Busy
<1>3. todo' = Tail(todo)
  BY <1>1, <1>2
<1>4. ~Has(Tail(todo), "next") /\ ~Has(Tail(todo), "written")
  BY <1>2 DEF Clearing, Has, Busy
<1>5. Rest = << >>
  BY <1>2, <1>4 DEF Rest
<1>6. state'.buffer = << >> /\ state'.length = state.length /\ state'.writelen = state.writelen
      /\ state'.writecb = state.writecb
  BY <1>1 DEF Typed, State, Fields
<1>7. Rest' = << >>
  BY <1>3, <1>4, <1>6 DEF Rest
<1>8. Writing(state') <=> Writing(state)
  BY <1>6 DEF Writing
<1>9. QED
  BY <1>1, <1>5, <1>6, <1>7, <1>8 DEF Measured

\* The loop goes on to the next chunk, or ends.
LEMMA NextEntryMeasured ==
  ASSUME IInv, Measured, NextEntry PROVE Measured'
<1> USE DEF IInv
<1> DEFINE rest == Tail(state.buffer)
           s == [state EXCEPT !.buffer = rest]
           goes == rest # << >> /\ ~Writing(state)
           r == Tail(todo)
           t == <<Do("_write"), Do("next")>> \o r
<1>1. /\ todo # << >> /\ todo[1].op = "next" /\ UNCHANGED <<chunks, sink>>
      /\ IF goes
         THEN /\ state' = DoWrite(s, <<Head(rest)>>, FALSE, chunks[Head(rest)])
              /\ todo' = t
         ELSE state' = [s EXCEPT !.bufferProcessing = FALSE] /\ todo' = << >> \o r
  BY DEF NextEntry, At, Then, history
<1>2. /\ ~Clearing(r) /\ r \in Seq(Frame)
      /\ \A op : Has(todo, op) <=> op = "next" \/ Has(r, op)
  BY <1>1, Popped DEF Busy
<1>3. ~Has(r, "next") /\ ~Has(r, "written")
  BY <1>2 DEF Clearing, Has, Busy
<1>4. Rest = rest
  BY <1>2 DEF Rest
<1>5. /\ DOMAIN state = Fields /\ state.length \in Int
  BY DEF Typed, State
<1>6. \A op : Has(t, op) <=> op \in {"_write", "next"} \/ Has(r, op)
  <2>1. "next" \in Busy
    BY DEF Busy
  <2>2. QED
    BY <1>1, <1>2, <2>1, Hands
<1>7. Lengths(chunks, Rest) /\ chunks \in Seq(Nat) /\ TotalLen(chunks, Rest) \in Nat
  BY LengthsFacts, TotalNat
<1> HIDE DEF t, r
<1>8. CASE goes
  <2>1. /\ state'.buffer = rest /\ state'.length = state.length /\ state'.writelen = chunks[Head(rest)]
        /\ state'.writecb = [ids |-> <<Head(rest)>>, writev |-> FALSE]
    BY <1>1, <1>5, <1>8 DEF DoWrite, Fields
  <2>2. Rest' = Tail(rest)
    BY <1>1, <1>3, <1>6, <1>8, <2>1 DEF Rest
  <2>3. Writing(state') /\ state'.writecb.ids = <<Head(rest)>>
    <3> HIDE DEF rest
    <3>1. state'.writecb.ids = <<Head(rest)>>
      BY <2>1
    <3>2. \A x : <<x>> # << >>
      OBVIOUS
    <3>3. QED
      BY <3>1, <3>2, NoneTyped DEF Writing
  <2>4. /\ Head(rest) \in DOMAIN chunks /\ chunks[Head(rest)] \in Nat
        /\ TotalLen(chunks, Tail(rest)) \in Nat
        /\ TotalLen(chunks, rest) = chunks[Head(rest)] + TotalLen(chunks, Tail(rest))
    BY <1>4, <1>7, <1>8, TotalHead
  <2>5. TotalLen(chunks, <<Head(rest)>>) = chunks[Head(rest)]
    BY <1>7, <2>4, TotalOne
  <2>6. state.writelen = 0
    BY <1>8 DEF Measured
  <2> HIDE DEF rest
  <2>7. QED
    BY <1>1, <1>4, <1>5, <2>1, <2>2, <2>3, <2>4, <2>5, <2>6 DEF Measured
<1>9. CASE ~goes
  <2>1. /\ state'.buffer = rest /\ state'.length = state.length /\ state'.writelen = state.writelen
        /\ state'.writecb = state.writecb
    BY <1>1, <1>5, <1>9 DEF Fields
  <2>2. todo' = r
    <3>1. << >> \o r = r
      BY <1>2, Several
    <3>2. QED
      BY <1>1, <1>9, <3>1
  <2>3. Rest' = rest
    BY <1>3, <2>1, <2>2 DEF Rest
  <2>4. Writing(state') <=> Writing(state)
    BY <2>1 DEF Writing
  <2>5. QED
    BY <1>1, <1>4, <2>1, <2>3, <2>4 DEF Measured
<1>10. QED
  BY <1>8, <1>9

\* Under a step that is told by its first call: what lies below is the same.
LEMMA BelowSame ==
  ASSUME IInv, todo # << >>, todo[1].op \notin Busy,
         NEW s \in Seq(Frame), todo' = s \o Tail(todo), \A op \in Busy : ~Has(s, op)
  PROVE  /\ Has(todo', "next") <=> Has(todo, "next")
         /\ Has(todo', "written") <=> Has(todo, "written")
<1> USE DEF IInv
<1>1. Tail(todo) \in Seq(Frame) /\ \A op : Has(todo, op) <=> todo[1].op = op \/ Has(Tail(todo), op)
  BY Popped
<1>2. \A op : Has(s \o Tail(todo), op) <=> Has(s, op) \/ Has(Tail(todo), op)
  BY <1>1, HasCat
<1>3. todo[1].op # "next" /\ todo[1].op # "written" /\ ~Has(s, "next") /\ ~Has(s, "written")
  BY DEF Busy
<1>4. QED
  BY <1>1, <1>2, <1>3

\* Steps of the sink.
LEMMA SinkMeasured ==
  ASSUME IInv, Measured, Sink PROVE Measured'
<1> USE DEF IInv
<1>1. ASSUME SinkTakes \/ SinkAnswersAtOnce \/ SinkFailsAtOnce
      PROVE  SameLoop
  <2>1. /\ todo # << >> /\ todo[1].op = "_write" /\ UNCHANGED chunks /\ (sink.failed => sink'.failed)
        /\ todo' \in {<< >> \o Tail(todo), <<Do("clearBuffer")>> \o Tail(todo), <<Do("error")>> \o Tail(todo)}
    BY <1>1 DEF SinkTakes, SinkAnswersAtOnce, SinkFailsAtOnce, At, Then, Typed
  <2>2. state'.buffer = state.buffer
    BY <1>1 DEF SinkTakes, SinkAnswersAtOnce, SinkFailsAtOnce, StateUpdate, Typed, State, Fields
  <2>3. PICK s \in {<< >>, <<Do("clearBuffer")>>, <<Do("error")>>} : todo' = s \o Tail(todo)
    BY <2>1
  <2>4. s \in Seq(Frame) /\ \A op \in Busy : ~Has(s, op)
    <3>1. /\ Do("clearBuffer") \in Frame /\ Do("clearBuffer").op = "clearBuffer"
          /\ Do("error") \in Frame /\ Do("error").op = "error"
      BY DoTyped DEF Frames
    <3>2. CASE s = << >>
      BY <3>2 DEF Has
    <3>3. CASE s = <<Do("clearBuffer")>>
      BY <3>1, <3>3, Single DEF Busy
    <3>4. CASE s = <<Do("error")>>
      BY <3>1, <3>4, Single DEF Busy
    <3>5. QED
      BY <3>2, <3>3, <3>4
  <2>5. /\ Has(todo', "next") <=> Has(todo, "next")
        /\ Has(todo', "written") <=> Has(todo, "written")
    BY <2>1, <2>3, <2>4, BelowSame DEF Busy
  <2>6. QED
    BY <2>1, <2>2, <2>5 DEF SameLoop
<1>2. ASSUME SinkTakes PROVE Measured'
  BY <1>1, <1>2, SameMeasured DEF SinkTakes
<1>3. ASSUME SinkAnswersAtOnce \/ SinkFailsAtOnce PROVE Measured'
  <2>1. state'.length = state.length - state.writelen /\ state'.writelen = 0 /\ state'.writecb = None
    BY <1>3 DEF SinkAnswersAtOnce, SinkFailsAtOnce, StateUpdate, Typed, State, Fields
  <2>2. QED
    BY <1>1, <1>3, <2>1, AnswerMeasured
<1>4. ASSUME SinkAnswers \/ SinkFails PROVE Measured'
  <2>1. state'.length = state.length - state.writelen /\ state'.writelen = 0 /\ state'.writecb = None
    BY <1>4 DEF SinkAnswers, SinkFails, StateUpdate, Typed, State, Fields
  <2>2. /\ todo = << >> /\ UNCHANGED chunks /\ (sink.failed => sink'.failed)
        /\ state'.buffer = state.buffer
    BY <1>4 DEF SinkAnswers, SinkFails, StateUpdate, Typed, State, Fields
  <2>3. \A op \in Busy : ~Has(todo', op)
    <3> DEFINE a == AfterWrite(state.writecb, FALSE)
               b == AfterWrite(state.writecb, TRUE)
               c == Calls(state.writecb)
    <3>1. \/ todo' \in {<<a>>, <<b>>, <<Do("clearBuffer")>> \o <<a>>, <<Do("clearBuffer")>> \o <<b>>}
          \/ todo' = <<c, Do("error"), Do("finishMaybe")>>
      BY <1>4 DEF SinkAnswers, SinkFails
    <3>2. a.op = "afterWrite" /\ b.op = "afterWrite" /\ c.op = "callbacks"
          /\ Do("clearBuffer").op = "clearBuffer" /\ Do("error").op = "error" /\ Do("finishMaybe").op = "finishMaybe"
      BY DEF AfterWrite, Calls, Do
    <3> HIDE DEF a, b, c
    <3>3. \A k \in DOMAIN todo' : todo'[k].op \in {"afterWrite", "callbacks", "clearBuffer", "error", "finishMaybe"}
      <4>1. CASE todo' \in {<<a>>, <<b>>}
        BY <3>2, <4>1
      <4>2. CASE todo' \in {<<Do("clearBuffer")>> \o <<a>>, <<Do("clearBuffer")>> \o <<b>>}
        <5>1. todo' \in {<<Do("clearBuffer"), a>>, <<Do("clearBuffer"), b>>}
          BY <4>2
        <5>2. QED
          BY <3>2, <5>1
      <4>3. CASE todo' = <<c, Do("error"), Do("finishMaybe")>>
        BY <3>2, <4>3
      <4>4. QED
        BY <3>1, <4>1, <4>2, <4>3
    <3>4. QED
      BY <3>3 DEF Has, Busy
  <2>4. SameLoop
    BY <2>2, <2>3 DEF SameLoop, Has, Busy
  <2>5. QED
    BY <2>1, <2>4, AnswerMeasured
<1>5. QED
  BY <1>2, <1>3, <1>4 DEF Sink

\* Every other step leaves the buffer, the write in progress and the loop alone.
LEMMA QuietMeasured ==
  ASSUME Measured, Quiet PROVE Measured'
<1>1. /\ UNCHANGED chunks /\ sink'.failed = sink.failed
      /\ state'.length = state.length /\ state'.writelen = state.writelen /\ state'.writecb = state.writecb
  BY DEF Quiet, Keeps, Fields
<1>2. Rest' = Rest /\ (Writing(state') <=> Writing(state))
  BY QuietFacts
<1>3. QED
  BY <1>1, <1>2 DEF Measured

\* A callback is called: the frames of it are on the stack, and no loop.
LEMMA CallMeasured ==
  ASSUME IInv, Measured, NextTick \/ AfterCallback \/ CallNext PROVE Measured'
<1> USE DEF IInv
<1> DEFINE f == todo[1]
           l == Tail(f.ids)
           g == [f EXCEPT !.ids = l]
           c == Calls(f)
<1>1. /\ todo # << >> /\ f.op \in {"nextTick", "callback", "callbacks"}
      /\ UNCHANGED <<chunks, sink>>
      /\ \/ todo' = << >> \o Tail(todo)
         \/ todo' = <<c, Do("finishMaybe")>> \o Tail(todo)
         \/ f.ids # << >> /\ todo' = <<Do("program"), g>> \o Tail(todo)
  <2>1. CASE NextTick
    BY <2>1 DEF NextTick, At, Then, history
  <2>2. CASE AfterCallback
    BY <2>2 DEF AfterCallback, At, Then, history
  <2>3. CASE CallNext
    <3>1. [f EXCEPT !.ids = Tail(@)] = g
      OBVIOUS
    <3>2. QED
      BY <2>3, <3>1 DEF CallNext, At, Then
  <2>4. QED
    BY <2>1, <2>2, <2>3
<1>2. /\ state'.buffer = state.buffer /\ state'.length = state.length /\ state'.writelen = state.writelen
      /\ state'.writecb = state.writecb
  <2>1. CASE NextTick
    BY <2>1 DEF NextTick
  <2>2. CASE AfterCallback
    BY <2>2 DEF AfterCallback, Typed, State, Fields
  <2>3. CASE CallNext
    BY <2>3 DEF CallNext, Typed, State, Fields
  <2>4. QED
    BY <2>1, <2>2, <2>3
<1>3. f \in Frame /\ f.ids \in Seq(Nat)
  <2>1. f \in Frame
    BY <1>1 DEF Typed, Frames
  <2> HIDE DEF f
  <2>2. QED
    BY <2>1 DEF Frame
<1>4. f.ids # << >> => g \in Frame /\ g.op = f.op
  <2>1. f.ids # << >> => l \in Seq(Nat)
    BY <1>3
  <2> HIDE DEF l
  <2>2. QED
    BY <1>3, <2>1 DEF Frame
<1>5. /\ c \in Frame /\ c.op = "callbacks"
      /\ Do("finishMaybe") \in Frame /\ Do("finishMaybe").op = "finishMaybe"
      /\ Do("program") \in Frame /\ Do("program").op = "program"
  BY <1>3, CallsTyped, DoTyped DEF Frames
<1> HIDE DEF f, g, c
<1>6. PICK s \in Seq(Frame) : todo' = s \o Tail(todo) /\ \A k \in DOMAIN s : s[k].op \notin Busy
  <2>1. CASE todo' = << >> \o Tail(todo)
    <3>1. << >> \in Seq(Frame) /\ DOMAIN << >> = {}
      OBVIOUS
    <3>2. QED
      BY <2>1, <3>1
  <2>2. CASE todo' = <<c, Do("finishMaybe")>> \o Tail(todo)
    <3>1. /\ <<c, Do("finishMaybe")>> \in Seq(Frame)
          /\ \A k \in DOMAIN <<c, Do("finishMaybe")>> : <<c, Do("finishMaybe")>>[k].op \notin Busy
      BY <1>5 DEF Busy
    <3>2. QED
      BY <2>2, <3>1
  <2>3. CASE f.ids # << >> /\ todo' = <<Do("program"), g>> \o Tail(todo)
    <3>1. /\ <<Do("program"), g>> \in Seq(Frame)
          /\ \A k \in DOMAIN <<Do("program"), g>> : <<Do("program"), g>>[k].op \notin Busy
      BY <1>1, <1>4, <1>5, <2>3 DEF Busy
    <3>2. QED
      BY <2>3, <3>1
  <2>4. QED
    BY <1>1, <2>1, <2>2, <2>3
<1>7. \A op \in Busy : ~Has(s, op)
  BY <1>6 DEF Has
<1>8. SameLoop
  <2>1. /\ Has(todo', "next") <=> Has(todo, "next")
        /\ Has(todo', "written") <=> Has(todo, "written")
    BY <1>1, <1>6, <1>7, BelowSame DEF Busy, f
  <2>2. QED
    BY <1>1, <1>2, <2>1 DEF SameLoop
<1>9. QED
  BY <1>2, <1>8, SameMeasured

\* A refused write measures nothing.
LEMMA RefusedMeasured ==
  ASSUME IInv, Measured, WriteRefused PROVE Measured'
<1> USE DEF IInv
<1> DEFINE g == [Do("nextTick") EXCEPT !.ids = <<Len(chunks) + 1>>]
           s == <<Do("error"), g>>
<1>1. chunks' = Append(chunks, 0) /\ todo' = s \o todo /\ UNCHANGED <<state, sink>>
  BY DEF WriteRefused, Call
<1>2. s \in Seq(Frame) /\ \A op \in Busy : ~Has(s, op)
  <2>1. /\ Do("error") \in Frame /\ Do("error").op = "error"
        /\ <<Len(chunks) + 1>> \in Seq(Nat)
    BY DoTyped DEF Frames, Typed
  <2>2. g \in Frame /\ g.op = "nextTick"
    BY <2>1, NextTickTyped
  <2> HIDE DEF g
  <2>3. s \in Seq(Frame) /\ \A k \in DOMAIN s : s[k].op \notin Busy
    BY <2>1, <2>2 DEF Busy
  <2>4. QED
    BY <2>3 DEF Has
<1> HIDE DEF s
<1>3. \A op : Has(s \o todo, op) <=> Has(s, op) \/ Has(todo, op)
  BY <1>2, HasCat DEF Typed
<1>4. Rest' = Rest
  BY <1>1, <1>2, <1>3 DEF Rest, Busy
<1>5. PICK more : more = chunks'
  OBVIOUS
<1>6. more \in Seq(Nat) /\ DOMAIN chunks \subseteq DOMAIN more /\ \A i \in DOMAIN chunks : more[i] = chunks[i]
  <2>1. chunks \in Seq(Nat) /\ more = Append(chunks, 0)
    BY <1>1, <1>5 DEF Typed
  <2>2. QED
    BY <2>1
<1>7. /\ TotalLen(more, Rest) = TotalLen(chunks, Rest)
      /\ TotalLen(more, state.writecb.ids) = TotalLen(chunks, state.writecb.ids)
  BY <1>6, LengthsFacts, TotalMore
<1>8. Writing(state') <=> Writing(state)
  BY <1>1
<1>9. QED
  BY <1>1, <1>4, <1>5, <1>7, <1>8 DEF Measured

\* A task is begun: it calls callbacks.
LEMMA TickMeasured ==
  ASSUME IInv, Measured, Tick PROVE Measured'
<1> USE DEF IInv
<1>1. /\ todo = << >> /\ ticks # << >> /\ todo' = <<Head(ticks)>> /\ UNCHANGED <<state, chunks, sink>>
  BY DEF Tick, history
<1>2. Head(ticks).op = "callbacks"
  BY <1>1 DEF Shape, Typed
<1>3. SameLoop
  BY <1>1, <1>2 DEF SameLoop, Has
<1>4. QED
  BY <1>1, <1>3, SameMeasured

\* At first nothing is written.
LEMMA InitMeasured ==
  ASSUME Init PROVE Measured
<1>1. /\ chunks = << >> /\ todo = << >> /\ state.length = 0 /\ state.buffer = << >> /\ state.writelen = 0
      /\ state.writecb.ids = << >>
  BY DEF Init, None
<1>2. Rest = << >>
  BY <1>1 DEF Rest, Has
<1>3. TotalLen(<< >>, << >>) = 0
  <2>1. << >> \in Seq(Nat)
    OBVIOUS
  <2>2. QED
    BY <2>1, TotalNone
<1>4. QED
  BY <1>1, <1>2, <1>3 DEF Measured

\* Every step counts right.
LEMMA StepMeasured ==
  ASSUME IInv, Measured, [Next]_vars PROVE Measured'
<1> USE WritableAssumption DEF IInv
<1>1. CASE Program
  <2>1. ASSUME NEW len \in Lens, Write(len) PROVE Measured'
    BY <2>1, WriteMeasured
  <2>2. CASE WriteRefused
    BY <2>2, RefusedMeasured
  <2>3. CASE Cork \/ Uncork \/ End \/ Destroy
    BY <2>3, CorkStep, UncorkStep, EndStep, DestroyStep, QuietMeasured
  <2>4. QED
    BY <1>1, <2>1, <2>2, <2>3 DEF Program
<1>2. CASE Return
  BY <1>2, ReturnStep, QuietMeasured
<1>3. CASE Library
  <2>1. CASE ClearBuffer
    BY <2>1, ClearBufferMeasured
  <2>2. CASE Written
    BY <2>2, WrittenMeasured
  <2>3. CASE NextEntry
    BY <2>3, NextEntryMeasured
  <2>4. CASE NextTick \/ AfterCallback \/ CallNext
    BY <2>4, CallMeasured
  <2>5. CASE AfterDrain \/ EndWritable \/ FinishMaybe \/ Finish \/ Finished \/ Error
    BY <2>5, AfterDrainStep, EndWritableStep, FinishMaybeStep, FinishStep, FinishedStep, ErrorStep, QuietMeasured
  <2>6. QED
    BY <1>3, <2>1, <2>2, <2>3, <2>4, <2>5 DEF Library
<1>4. CASE Sink
  BY <1>4, SinkMeasured
<1>5. CASE Tick
  BY <1>5, TickMeasured
<1>6. CASE UNCHANGED vars
  <2>1. SameLoop /\ state' = state
    BY <1>6 DEF SameLoop, vars
  <2>2. QED
    BY <2>1, SameMeasured
<1>7. QED
  BY <1>1, <1>2, <1>3, <1>4, <1>5, <1>6 DEF Next

\* length is never below zero, and until a write fails it counts what lies in the buffer or
\* with the sink; callbacks come once, in order, and all before "finish".
THEOREM WritableWritesAccounted == Spec => []WritesAccounted
<1>1. Init => Measured
  BY InitMeasured
<1>2. IInv /\ Measured /\ [Next]_vars => Measured'
  BY StepMeasured
<1>3. ASSUME IInv, Measured PROVE LengthAccounted
  <2>1. /\ Lengths(chunks, Rest) /\ Lengths(chunks, state.buffer) /\ Lengths(chunks, state.writecb.ids)
        /\ TotalLen(chunks, Rest) \in Nat
    BY <1>3, LengthsFacts, TotalNat
  <2>2. state.length \in Int
    BY <1>3 DEF IInv, Typed, State
  <2>3. state.length \in Nat
    BY <1>3, <2>1, <2>2 DEF Measured
  <2>4. ASSUME ~sink.failed, ~(\E i \in DOMAIN todo : todo[i].op \in {"written", "next"})
        PROVE  state.length = TotalLen(chunks, state.buffer \o state.writecb.ids)
    <3>1. Rest = state.buffer
      BY <2>4 DEF Rest, Has
    <3>2. TotalLen(chunks, state.buffer \o state.writecb.ids)
            = TotalLen(chunks, state.buffer) + TotalLen(chunks, state.writecb.ids)
      BY <2>1, TotalCat
    <3>3. TotalLen(chunks, state.buffer) \in Nat /\ TotalLen(chunks, state.writecb.ids) \in Nat
      BY <2>1, TotalNat
    <3>4. QED
      BY <1>3, <2>4, <3>1, <3>2, <3>3 DEF Measured
  <2>5. QED
    BY <2>3, <2>4 DEF LengthAccounted
<1>4. QED
  BY <1>1, <1>2, <1>3, Inductive, WritableCallbacksInOrder, WritableFinishAfterCallbacks, PTL
     DEF Spec, WritesAccounted
=============================================================================
