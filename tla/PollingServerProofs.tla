-------------------------- MODULE PollingServerProofs --------------------------
(***************************************************************************)
(* Whatever clients send, listeners throw and sockets fail, a request is   *)
(* answered at most once, is accounted for, and is handled in the order of *)
(* its arrival.                                                            *)
(***************************************************************************)
EXTENDS PollingServer, TLAPS

\* The watcher has a request in hand exactly while it serves it: for the first time, or
\* once more after its commit.
InHand ==
  /\ loop.cur # 0 <=> loop.at \in {"listener", "commit"}
  /\ loop.cur # 0 => reqs[loop.cur].turns = IF reqs[loop.cur].committed THEN 2 ELSE 1

\* A request goes round the queue before its first turn and after its commit only,
\* and it is the commit that answers it.
Rounds ==
  \A r \in Pushed :
    /\ r \in Range(queue) => reqs[r].turns = IF reqs[r].committed THEN 1 ELSE 0
    /\ reqs[r].answers <= 1
    /\ ~reqs[r].committed => reqs[r].answers = 0

\* Of two requests that wait for their first turn, the older one is processed first,
\* and is ahead of the other while both are, or neither is.
FirstRound ==
  \A i \in DOMAIN queue, j \in DOMAIN queue :
    /\ queue[i] < queue[j]
    /\ reqs[queue[i]].turns = 0 /\ reqs[queue[j]].turns = 0
    => /\ reqs[queue[j]].response => reqs[queue[i]].response
       /\ reqs[queue[j]].response = reqs[queue[i]].response => i < j

QInv == InHand /\ Rounds /\ Accounted /\ FirstRound /\ HandledInOrder

IInv == TypeOK /\ QInv

-----------------------------------------------------------------------------
(* The queue *)

LEMMA RangeIff ==
  ASSUME NEW q, NEW x
  PROVE  x \in Range(q) <=> \E i \in DOMAIN q : q[i] = x
BY DEF Range

\* What pop() takes and leaves.
LEMMA Popped ==
  ASSUME NEW S, NEW q \in Seq(S), q # << >>
  PROVE  /\ Head(q) = q[1] /\ q[1] \in S /\ 1 \in DOMAIN q
         /\ Tail(q) \in Seq(S)
         /\ \A i \in DOMAIN Tail(q) :
              i \in Nat /\ i + 1 \in DOMAIN q /\ Tail(q)[i] = q[i + 1]
         /\ \A j \in DOMAIN q : j = 1 \/ (j - 1 \in DOMAIN Tail(q) /\ Tail(q)[j - 1] = q[j])
<1>1. Len(q) \in Nat /\ Len(q) > 0 /\ DOMAIN q = 1..Len(q)
  OBVIOUS
<1>2. Tail(q) \in Seq(S) /\ Len(Tail(q)) = Len(q) - 1
  BY <1>1
<1>3. DOMAIN Tail(q) = 1..(Len(q) - 1)
  BY <1>2
<1>4. \A i \in 1..(Len(q) - 1) : Tail(q)[i] = q[i + 1]
  BY <1>1
<1>5. QED
  BY <1>1, <1>2, <1>3, <1>4

LEMMA PoppedRange ==
  ASSUME NEW S, NEW q \in Seq(S), q # << >>, IsInjective(q)
  PROVE  Range(Tail(q)) = Range(q) \ {q[1]} /\ IsInjective(Tail(q))
<1>1. \A x : x \in Range(Tail(q)) <=> x \in Range(q) /\ x # q[1]
  <2> TAKE x
  <2>1. ASSUME x \in Range(Tail(q)) PROVE x \in Range(q) /\ x # q[1]
    <3>1. PICK i \in DOMAIN Tail(q) : Tail(q)[i] = x
      BY <2>1, RangeIff
    <3>2. i \in Nat /\ i + 1 \in DOMAIN q /\ q[i + 1] = x /\ 1 \in DOMAIN q
      BY <3>1, Popped
    <3>3. 1 \in Nat /\ i + 1 # 1
      BY <3>1
    <3>4. QED
      BY <3>2, <3>3, RangeIff DEF IsInjective
  <2>2. ASSUME x \in Range(q), x # q[1] PROVE x \in Range(Tail(q))
    <3>1. PICK j \in DOMAIN q : q[j] = x
      BY <2>2, RangeIff
    <3>2. j - 1 \in DOMAIN Tail(q) /\ Tail(q)[j - 1] = x
      BY <2>2, <3>1, Popped
    <3>3. QED
      BY <3>2, RangeIff
  <2>3. QED
    BY <2>1, <2>2
<1>2. IsInjective(Tail(q))
  BY Popped DEF IsInjective
<1>3. QED
  BY <1>1, <1>2

\* What push() makes.
LEMMA Appended ==
  ASSUME NEW S, NEW q \in Seq(S), NEW x \in S
  PROVE  /\ Append(q, x) \in Seq(S)
         /\ Len(q) \in Nat /\ DOMAIN q = 1..Len(q)
         /\ DOMAIN Append(q, x) = 1..(Len(q) + 1)
         /\ Append(q, x)[Len(q) + 1] = x
         /\ \A i \in DOMAIN q : Append(q, x)[i] = q[i]
OBVIOUS

LEMMA AppendedRange ==
  ASSUME NEW S, NEW q \in Seq(S), NEW x \in S
  PROVE  /\ Range(Append(q, x)) = Range(q) \cup {x}
         /\ IsInjective(q) /\ x \notin Range(q) => IsInjective(Append(q, x))
<1>1. \A i \in DOMAIN Append(q, x) : i \in DOMAIN q \/ i = Len(q) + 1
  BY Appended
<1>2. Range(Append(q, x)) = Range(q) \cup {x}
  BY <1>1, Appended DEF Range
<1>3. IsInjective(q) /\ x \notin Range(q) => IsInjective(Append(q, x))
  BY <1>1, Appended, RangeIff DEF IsInjective
<1>4. QED
  BY <1>2, <1>3

-----------------------------------------------------------------------------
(* Types *)

LEMMA InitType == Init => TypeOK
<1> SUFFICES ASSUME Init PROVE TypeOK
  OBVIOUS
<1>1. heard \in [Events -> 0..2]
  BY DEF Init, Events
<1>2. << >> \in Seq(Request) /\ << >> \in Seq(Pushed) /\ << >> \in Seq(0..MaxBytes)
  OBVIOUS
<1>3. Idle \in [at : {"idle", "loop", "listener", "commit"}, i : 0..TickRequests,
                cur : Pushed \cup {0}]
  BY PollingAssumption DEF PollingAssumption, Idle
<1>4. /\ listening \in BOOLEAN /\ ticking \in BOOLEAN
      /\ accepted \subseteq Sockets /\ wired \subseteq accepted
      /\ active \subseteq wired /\ open \subseteq accepted
  BY DEF Init
<1>5. sent \in 0..MaxSent /\ avail \in [Sockets -> 0..sent]
  BY PollingAssumption DEF Init, PollingAssumption
<1>6. streams \in [Sockets -> Seq(0..MaxBytes)]
  BY <1>2 DEF Init
<1>7. reqs \in Seq(Request) /\ queue \in Seq(Pushed)
  BY <1>2 DEF Init
<1>8. QED
  BY <1>1, <1>3, <1>4, <1>5, <1>6, <1>7 DEF Init, TypeOK

\* Any field of a request can be replaced by a value of its type.
LEMMA RequestKept ==
  ASSUME NEW r \in Request
  PROVE  /\ [r EXCEPT !.response = TRUE] \in Request
         /\ [r EXCEPT !.ended = TRUE] \in Request
         /\ [r EXCEPT !.fate = "dropped"] \in Request
         /\ [r EXCEPT !.committed = TRUE, !.fate = "dropped"] \in Request
         /\ r.turns \in 0..1 => [r EXCEPT !.turns = @ + 1] \in Request
         /\ r.answers = 0 =>
              /\ [r EXCEPT !.committed = TRUE, !.answers = @ + 1] \in Request
              /\ [[r EXCEPT !.committed = TRUE, !.answers = @ + 1] EXCEPT !.fate = "closed"]
                   \in Request
<1>1. /\ [r EXCEPT !.response = TRUE] \in Request
      /\ [r EXCEPT !.ended = TRUE] \in Request
      /\ [r EXCEPT !.fate = "dropped"] \in Request
  BY DEF Request
<1>2. [r EXCEPT !.committed = TRUE, !.fate = "dropped"] \in Request
  BY DEF Request
<1>3. r.turns \in 0..1 => [r EXCEPT !.turns = @ + 1] \in Request
  BY DEF Request
<1>4. ASSUME r.answers = 0
      PROVE  LET w == [r EXCEPT !.committed = TRUE, !.answers = @ + 1]
             IN  w \in Request /\ [w EXCEPT !.fate = "closed"] \in Request
  <2> DEFINE w == [r EXCEPT !.committed = TRUE, !.answers = @ + 1]
  <2>1. w = [r EXCEPT !.committed = TRUE, !.answers = 1]
    BY <1>4
  <2>2. [r EXCEPT !.committed = TRUE, !.answers = 1] \in Request
    <3>1. [r EXCEPT !.answers = 1] \in Request
      BY DEF Request
    <3>2. [[r EXCEPT !.answers = 1] EXCEPT !.committed = TRUE] \in Request
      BY <3>1 DEF Request
    <3>3. QED
      BY <3>2 DEF Request
  <2> HIDE DEF w
  <2>3. w \in Request
    BY <2>1, <2>2
  <2>4. [w EXCEPT !.fate = "closed"] \in Request
    BY <2>3 DEF Request
  <2>5. QED
    BY <2>3, <2>4 DEF w
<1>5. QED
  BY <1>1, <1>2, <1>3, <1>4

\* A step that changes the entry of one request, and no other variable reqs depends on.
LEMMA EntryChanged ==
  ASSUME TypeOK, NEW r \in Pushed, NEW e \in Request, reqs' = [reqs EXCEPT ![r] = e]
  PROVE  /\ reqs' \in Seq(Request)
         /\ Pushed' = Pushed
         /\ reqs'[r] = e
         /\ \A q \in Pushed : q # r => reqs'[q] = reqs[q]
         /\ \A q \in Pushed : reqs[q] \in Request
BY DEF TypeOK, Pushed

\* The request in front, and the one in hand.
LEMMA Front ==
  ASSUME IInv, queue # << >>
  PROVE  /\ QueuePop(queue).record = queue[1] /\ QueuePop(queue).rest = Tail(queue)
         /\ queue[1] \in Pushed /\ reqs[queue[1]] \in Request
         /\ queue[1] \in Range(queue)
         /\ reqs[queue[1]].turns = (IF reqs[queue[1]].committed THEN 1 ELSE 0)
         /\ Tail(queue) \in Seq(Pushed)
<1>1. queue \in Seq(Pushed)
  BY DEF IInv, TypeOK
<1>2. /\ Head(queue) = queue[1] /\ queue[1] \in Pushed /\ 1 \in DOMAIN queue
      /\ Tail(queue) \in Seq(Pushed)
  BY <1>1, Popped
<1>3. queue[1] \in Range(queue)
  BY <1>2, RangeIff
<1>4. reqs[queue[1]] \in Request
  BY <1>2 DEF IInv, TypeOK, Pushed
<1>5. reqs[queue[1]].turns = (IF reqs[queue[1]].committed THEN 1 ELSE 0)
  BY <1>2, <1>3 DEF IInv, QInv, Rounds
<1>6. QED
  BY <1>2, <1>3, <1>4, <1>5 DEF QueuePop

LEMMA Hand ==
  ASSUME IInv, loop.at \in {"listener", "commit"}
  PROVE  /\ loop.cur \in Pushed /\ reqs[loop.cur] \in Request
         /\ loop.cur \notin Range(queue)
<1>1. loop.cur \in Pushed
  BY DEF IInv, QInv, InHand, TypeOK
<1>2. QED
  BY <1>1 DEF IInv, QInv, Accounted, TypeOK, Pushed

-----------------------------------------------------------------------------
(* A step that takes or keeps request r out of the queue, and may push it. *)

Without(q0, r) ==
  \/ q0 = queue /\ r \notin Range(queue)
  \/ queue # << >> /\ q0 = Tail(queue) /\ r = queue[1]

LEMMA WithoutFacts ==
  ASSUME IInv, NEW q0, NEW r \in Pushed, Without(q0, r)
  PROVE  /\ q0 \in Seq(Pushed) /\ IsInjective(q0)
         /\ Range(q0) = Range(queue) \ {r}
         /\ \E d \in {0, 1} : \A i \in DOMAIN q0 :
              i \in Nat /\ i + d \in DOMAIN queue /\ q0[i] = queue[i + d]
<1>1. queue \in Seq(Pushed) /\ IsInjective(queue)
  BY DEF IInv, TypeOK, QInv, Accounted
<1>2. CASE q0 = queue /\ r \notin Range(queue)
  <2>1. \A i \in DOMAIN queue : i \in Nat /\ i + 0 = i
    BY <1>1
  <2>2. QED
    BY <1>1, <1>2, <2>1
<1>3. CASE queue # << >> /\ q0 = Tail(queue) /\ r = queue[1]
  <2>1. Tail(queue) \in Seq(Pushed)
        /\ \A i \in DOMAIN Tail(queue) :
             i \in Nat /\ i + 1 \in DOMAIN queue /\ Tail(queue)[i] = queue[i + 1]
    BY <1>1, <1>3, Popped
  <2>2. Range(Tail(queue)) = Range(queue) \ {queue[1]} /\ IsInjective(Tail(queue))
    BY <1>1, <1>3, PoppedRange
  <2>3. QED
    BY <1>3, <2>1, <2>2
<1>4. QED
  BY <1>2, <1>3 DEF Without

\* What such a step has to leave in the entry of r.
Consistent(r, e) ==
  /\ e.answers <= 1 /\ (~e.committed => e.answers = 0)
  /\ e.fate = "alive" <=> r \in Range(queue') \cup {loop'.cur}
  /\ r \in Range(queue') =>
       e.turns = (IF e.committed THEN 1 ELSE 0) /\ ~e.ended /\ loop'.cur # r

LEMMA TurnAccounted ==
  ASSUME IInv, NEW r \in Pushed, NEW e \in Request, reqs' = [reqs EXCEPT ![r] = e],
         NEW q0, Without(q0, r), queue' = q0 \/ queue' = Append(q0, r),
         loop'.cur \in Pushed \cup {0},
         \A q \in Pushed : q # r => (q = loop.cur <=> q = loop'.cur),
         Consistent(r, e)
  PROVE  Rounds' /\ Accounted'
<1>1. /\ Pushed' = Pushed /\ reqs'[r] = e
      /\ \A q \in Pushed : q # r => reqs'[q] = reqs[q]
  BY EntryChanged DEF IInv
<1>2. q0 \in Seq(Pushed) /\ IsInjective(q0) /\ Range(q0) = Range(queue) \ {r}
  BY WithoutFacts
<1>3. /\ Range(queue') \ {r} = Range(queue) \ {r}
      /\ Range(queue') \subseteq Pushed
      /\ IsInjective(queue')
  <2>1. CASE queue' = q0
    <3>1. Range(q0) \subseteq Pushed
      BY <1>2 DEF Range
    <3>2. QED
      BY <1>2, <2>1, <3>1
  <2>2. CASE queue' = Append(q0, r)
    <3>1. Range(queue') = Range(q0) \cup {r} /\ IsInjective(queue')
      BY <1>2, <2>2, AppendedRange
    <3>2. Range(q0) \subseteq Pushed
      BY <1>2 DEF Range
    <3>3. QED
      BY <1>2, <3>1, <3>2
  <2>3. QED
    BY <2>1, <2>2
<1>4. Rounds'
  <2> SUFFICES ASSUME NEW q \in Pushed
               PROVE  /\ q \in Range(queue') =>
                           reqs'[q].turns = IF reqs'[q].committed THEN 1 ELSE 0
                      /\ reqs'[q].answers <= 1
                      /\ ~reqs'[q].committed => reqs'[q].answers = 0
    BY <1>1 DEF Rounds
  <2>1. CASE q = r
    BY <1>1, <2>1 DEF Consistent
  <2>2. CASE q # r
    BY <1>1, <1>3, <2>2 DEF IInv, QInv, Rounds
  <2>3. QED
    BY <2>1, <2>2
<1>5. \A q \in Pushed : reqs'[q].fate = "alive" <=> q \in Range(queue') \cup {loop'.cur}
  <2> TAKE q \in Pushed
  <2>1. CASE q = r
    BY <1>1, <2>1 DEF Consistent
  <2>2. CASE q # r
    BY <1>1, <1>3, <2>2 DEF IInv, QInv, Accounted
  <2>3. QED
    BY <2>1, <2>2
<1>6. \A q \in Range(queue') : ~reqs'[q].ended
  <2> TAKE q \in Range(queue')
  <2>1. CASE q = r
    BY <1>1, <2>1 DEF Consistent
  <2>2. CASE q # r
    BY <1>1, <1>3, <2>2 DEF IInv, QInv, Accounted
  <2>3. QED
    BY <2>1, <2>2
<1>7. loop'.cur \notin Range(queue')
  <2>1. CASE loop'.cur = r
    BY <2>1 DEF Consistent
  <2>2. CASE loop'.cur # r /\ loop'.cur \in Pushed
    BY <1>3, <2>2 DEF IInv, QInv, Accounted
  <2>3. CASE loop'.cur = 0
    BY <1>3, <2>3 DEF Pushed
  <2>4. QED
    BY <2>1, <2>2, <2>3
<1>8. QED
  BY <1>1, <1>3, <1>4, <1>5, <1>6, <1>7 DEF Accounted

\* Unless r comes to wait for its first turn, the order of those that do is what it was;
\* and r gets its first turn only when no older request waits.
LEMMA TurnInOrder ==
  ASSUME IInv, NEW r \in Pushed, NEW e \in Request, reqs' = [reqs EXCEPT ![r] = e],
         NEW q0, Without(q0, r),
         queue' = q0 \/ (queue' = Append(q0, r) /\ e.turns > 0),
         \/ e.turns = reqs[r].turns
         \/ \A q \in Range(queue) : reqs[q].turns = 0 => ~(q < r)
  PROVE  FirstRound' /\ HandledInOrder'
<1>1. /\ Pushed' = Pushed /\ reqs'[r] = e
      /\ \A q \in Pushed : q # r => reqs'[q] = reqs[q]
  BY EntryChanged DEF IInv
<1>2. PICK d \in {0, 1} :
        /\ q0 \in Seq(Pushed) /\ Range(q0) = Range(queue) \ {r}
        /\ \A i \in DOMAIN q0 : i \in Nat /\ i + d \in DOMAIN queue /\ q0[i] = queue[i + d]
  BY WithoutFacts
<1>3. \A i \in DOMAIN queue' : reqs'[queue'[i]].turns = 0 =>
        /\ i \in DOMAIN q0 /\ queue'[i] = q0[i] /\ q0[i] # r /\ q0[i] \in Pushed
  <2> TAKE i \in DOMAIN queue'
  <2> HAVE reqs'[queue'[i]].turns = 0
  <2>1. CASE queue' = q0
    <3>1. q0[i] \in Range(q0) /\ q0[i] \in Pushed
      BY <1>2, <2>1, RangeIff
    <3>2. QED
      BY <1>2, <2>1, <3>1
  <2>2. CASE queue' = Append(q0, r) /\ e.turns > 0
    <3>1. queue'[i] # r
      BY <1>1, <2>2
    <3>2. i \in DOMAIN q0 /\ queue'[i] = q0[i]
      BY <1>2, <2>2, <3>1, Appended
    <3>3. QED
      BY <1>2, <3>1, <3>2
  <2>3. QED
    BY <2>1, <2>2
<1>4. FirstRound'
  <2> SUFFICES ASSUME NEW i \in DOMAIN queue', NEW j \in DOMAIN queue',
                      queue'[i] < queue'[j],
                      reqs'[queue'[i]].turns = 0, reqs'[queue'[j]].turns = 0
               PROVE  /\ reqs'[queue'[j]].response => reqs'[queue'[i]].response
                      /\ reqs'[queue'[j]].response = reqs'[queue'[i]].response => i < j
    BY DEF FirstRound
  <2>1. /\ i \in DOMAIN q0 /\ queue'[i] = q0[i] /\ q0[i] # r /\ q0[i] \in Pushed
        /\ j \in DOMAIN q0 /\ queue'[j] = q0[j] /\ q0[j] # r /\ q0[j] \in Pushed
    BY <1>3
  <2>2. /\ i \in Nat /\ i + d \in DOMAIN queue /\ queue'[i] = queue[i + d]
        /\ j \in Nat /\ j + d \in DOMAIN queue /\ queue'[j] = queue[j + d]
    BY <1>2, <2>1
  <2>3. reqs'[queue'[i]] = reqs[queue[i + d]] /\ reqs'[queue'[j]] = reqs[queue[j + d]]
    BY <1>1, <2>1, <2>2
  <2>4. /\ reqs[queue[j + d]].response => reqs[queue[i + d]].response
        /\ reqs[queue[j + d]].response = reqs[queue[i + d]].response => i + d < j + d
    BY <2>2, <2>3 DEF IInv, QInv, FirstRound
  <2>5. i + d < j + d => i < j
    BY <1>2, <2>2
  <2>6. QED
    BY <2>3, <2>4, <2>5
<1>5. HandledInOrder'
  <2> SUFFICES ASSUME NEW p \in Pushed, NEW q \in Pushed, p < q, reqs'[q].turns > 0,
                      p \in Range(queue'), reqs'[p].turns = 0
               PROVE  FALSE
    BY <1>1 DEF HandledInOrder
  <2>1. p # r /\ p \in Range(queue) /\ reqs[p].turns = 0
    <3>1. PICK i \in DOMAIN queue' : queue'[i] = p
      BY RangeIff
    <3>2. i \in DOMAIN q0 /\ q0[i] = p /\ p # r
      BY <1>3, <3>1
    <3>3. p \in Range(q0)
      BY <3>2, RangeIff
    <3>4. QED
      BY <1>1, <1>2, <3>2, <3>3
  <2>2. CASE q = r
    <3>1. reqs[r].turns = e.turns
      BY <2>1, <2>2
    <3>2. QED
      BY <1>1, <2>1, <2>2, <3>1 DEF IInv, QInv, HandledInOrder
  <2>3. CASE q # r
    BY <1>1, <2>1, <2>3 DEF IInv, QInv, HandledInOrder
  <2>4. QED
    BY <2>2, <2>3
<1>6. QED
  BY <1>4, <1>5

-----------------------------------------------------------------------------
(* Steps *)

\* Steps that leave requests and queue alone.
LEMMA QueueUntouched ==
  ASSUME IInv, UNCHANGED <<reqs, queue>>, loop'.cur = loop.cur, InHand'
  PROVE  QInv'
<1>1. Rounds' /\ Accounted'
  BY DEF IInv, QInv, Rounds, Accounted, Pushed
<1>2. FirstRound' /\ HandledInOrder'
  BY DEF IInv, QInv, FirstRound, HandledInOrder, Pushed
<1>3. QED
  BY <1>1, <1>2 DEF QInv

\* The positions of the watcher.
LEMMA LoopTypes ==
  ASSUME IInv
  PROVE  /\ loop.at \in {"idle", "loop", "listener", "commit"}
         /\ loop.i \in 0..TickRequests /\ loop.cur \in Pushed \cup {0}
         /\ TickRequests \in Nat \ {0}
         /\ Idle = [at |-> "idle", i |-> 0, cur |-> 0]
         /\ loop = [at |-> loop.at, i |-> loop.i, cur |-> loop.cur]
         /\ loop.at \in {"idle", "loop"} => loop.cur = 0
BY PollingAssumption DEF IInv, TypeOK, QInv, InHand, Idle, PollingAssumption

\* A state of the right type, from its parts.
LEMMA Typed ==
  ASSUME TypeOK, UNCHANGED sockVars, UNCHANGED serverVars,
         reqs' \in Seq(Request), queue' \in Seq(Pushed'),
         loop' \in [at : {"idle", "loop", "listener", "commit"}, i : 0..TickRequests,
                    cur : Pushed' \cup {0}]
  PROVE  TypeOK'
BY DEF TypeOK, sockVars, serverVars

LEMMA LoopMoves ==
  ASSUME IInv, Tick \/ LoopEnds \/ ListenerReturns
  PROVE  IInv'
<1>1. UNCHANGED <<serverVars, sockVars, reqs, queue>>
  BY DEF Tick, LoopEnds, ListenerReturns
<1>2. /\ loop'.at \in {"idle", "loop", "listener", "commit"}
      /\ loop' = [at |-> loop'.at, i |-> loop'.i, cur |-> loop'.cur]
      /\ loop'.i \in 0..TickRequests /\ loop'.cur = loop.cur
      /\ loop'.at \in {"listener", "commit"} <=> loop.at \in {"listener", "commit"}
  BY LoopTypes DEF Tick, LoopEnds, ListenerReturns
<1>3. TypeOK'
  <2>1. loop' \in [at : {"idle", "loop", "listener", "commit"}, i : 0..TickRequests,
                   cur : Pushed' \cup {0}]
    BY <1>1, <1>2, LoopTypes DEF Pushed
  <2>2. reqs' \in Seq(Request) /\ queue' \in Seq(Pushed')
    BY <1>1 DEF IInv, TypeOK, Pushed
  <2>3. QED
    BY <1>1, <2>1, <2>2, Typed DEF IInv
<1>4. InHand'
  BY <1>1, <1>2 DEF IInv, QInv, InHand
<1>5. QED
  BY <1>1, <1>2, <1>3, <1>4, QueueUntouched DEF IInv

\* A request that is dropped: taken from the front of the queue, or in hand.
LEMMA DropStep ==
  ASSUME IInv, UNCHANGED <<serverVars, sockVars>>,
         NEW r \in Pushed, NEW e \in Request, reqs' = [reqs EXCEPT ![r] = e],
         NEW q0, Without(q0, r), queue' = q0, loop' = Idle, loop.cur \in {0, r},
         e.fate = "dropped", e.answers <= 1, ~e.committed => e.answers = 0,
         e.turns = reqs[r].turns
  PROVE  IInv'
<1>1. reqs' \in Seq(Request) /\ Pushed' = Pushed
  BY EntryChanged DEF IInv
<1>2. q0 \in Seq(Pushed) /\ Range(q0) = Range(queue) \ {r}
  BY WithoutFacts
<1>3. loop' \in [at : {"idle", "loop", "listener", "commit"}, i : 0..TickRequests,
                 cur : Pushed' \cup {0}] /\ loop'.cur = 0 /\ loop'.at = "idle"
  BY LoopTypes
<1>4. TypeOK'
  BY <1>1, <1>2, <1>3, Typed DEF IInv
<1>5. InHand'
  BY <1>3 DEF InHand
<1>6. Rounds' /\ Accounted'
  <2>1. 0 \notin Pushed
    BY DEF Pushed
  <2>2. Consistent(r, e)
    BY <1>2, <1>3, <2>1 DEF Consistent
  <2>3. \A q \in Pushed : q # r => (q = loop.cur <=> q = loop'.cur)
    BY <1>3, <2>1
  <2>4. QED
    BY <1>3, <2>2, <2>3, TurnAccounted
<1>7. FirstRound' /\ HandledInOrder'
  BY TurnInOrder
<1>8. QED
  BY <1>4, <1>5, <1>6, <1>7 DEF IInv, QInv

LEMMA HandDropped ==
  ASSUME IInv, ListenerThrows \/ CommitThrows \/ WriteThrows
  PROVE  IInv'
<1> DEFINE r == loop.cur
<1>1. r \in Pushed /\ reqs[r] \in Request /\ r \notin Range(queue)
  BY Hand DEF ListenerThrows, CommitThrows, WriteThrows
<1>2. reqs[r].answers <= 1 /\ (~reqs[r].committed => reqs[r].answers = 0)
  BY <1>1 DEF IInv, QInv, Rounds
<1>3. UNCHANGED <<serverVars, sockVars, queue>> /\ loop' = Idle
  BY DEF ListenerThrows, CommitThrows, WriteThrows, Drops
<1>4. \/ reqs' = [reqs EXCEPT ![r] = [reqs[r] EXCEPT !.fate = "dropped"]]
      \/ reqs' = [reqs EXCEPT ![r] = [reqs[r] EXCEPT !.committed = TRUE, !.fate = "dropped"]]
  BY DEF ListenerThrows, CommitThrows, WriteThrows, Drops
<1>5. PICK e \in {[reqs[r] EXCEPT !.fate = "dropped"],
                  [reqs[r] EXCEPT !.committed = TRUE, !.fate = "dropped"]} :
        reqs' = [reqs EXCEPT ![r] = e]
  BY <1>4
<1>6. e \in Request
  BY <1>1, RequestKept
<1>7. /\ e.fate = "dropped" /\ e.answers = reqs[r].answers /\ e.turns = reqs[r].turns
      /\ ~e.committed => ~reqs[r].committed
  BY <1>1 DEF Request
<1>8. Without(queue, r)
  BY <1>1 DEF Without
<1>9. QED
  BY <1>1, <1>2, <1>3, <1>5, <1>6, <1>7, <1>8, DropStep

\* A good request goes round with a response: behind every older one, because none of
\* those is still without.
LEMMA ProcessGood ==
  ASSUME IInv, ProcessRequest, reqs[QueuePop(queue).record].kind = "good"
  PROVE  IInv'
<1> DEFINE r == queue[1]
           e == [reqs[r] EXCEPT !.response = TRUE]
<1>1. /\ loop.at = "loop" /\ loop.i < TickRequests /\ queue # << >>
      /\ UNCHANGED <<serverVars, sockVars>>
  BY DEF ProcessRequest
<1>2. /\ r \in Pushed /\ reqs[r] \in Request /\ r \in Range(queue)
      /\ QueuePop(queue).record = r /\ QueuePop(queue).rest = Tail(queue)
  BY <1>1, Front
<1>3. /\ ~reqs[r].response /\ reqs' = [reqs EXCEPT ![r] = e]
      /\ queue' = Append(Tail(queue), r) /\ loop' = [loop EXCEPT !.i = @ + 1]
  BY <1>2 DEF ProcessRequest
<1>4. /\ e \in Request /\ e.turns = reqs[r].turns /\ e.answers = reqs[r].answers
      /\ e.committed = reqs[r].committed /\ e.ended = reqs[r].ended
      /\ e.fate = reqs[r].fate /\ e.response
  BY <1>2, RequestKept, ZenonT(60) DEF Request
<1> HIDE DEF e
<1>5. /\ Pushed' = Pushed /\ reqs' \in Seq(Request) /\ reqs'[r] = e
      /\ \A q \in Pushed : q # r => reqs'[q] = reqs[q]
  BY <1>2, <1>3, <1>4, EntryChanged DEF IInv
<1>6. Without(Tail(queue), r)
  BY <1>1 DEF Without
<1>7. Tail(queue) \in Seq(Pushed) /\ Range(Tail(queue)) = Range(queue) \ {r}
  BY <1>2, <1>6, WithoutFacts
<1>8. queue' \in Seq(Pushed') /\ Range(queue') = Range(queue)
  <2>1. Range(Append(Tail(queue), r)) = Range(Tail(queue)) \cup {r}
    <3> DEFINE q0 == Tail(queue)
    <3>1. q0 \in Seq(Pushed) /\ r \in Pushed
      BY <1>2, <1>7
    <3> HIDE DEF q0, r
    <3>2. Range(Append(q0, r)) = Range(q0) \cup {r}
      BY <3>1, AppendedRange
    <3>3. QED
      BY <3>2 DEF q0, r
  <2>2. Append(Tail(queue), r) \in Seq(Pushed)
    BY <1>2, <1>7, Appended
  <2>3. QED
    BY <1>2, <1>3, <1>5, <1>7, <2>1, <2>2
<1>9. /\ loop'.cur = loop.cur /\ loop'.at = loop.at /\ loop.cur = 0
      /\ loop' \in [at : {"idle", "loop", "listener", "commit"}, i : 0..TickRequests,
                    cur : Pushed \cup {0}]
  BY <1>1, <1>3, LoopTypes
<1>10. TypeOK'
  BY <1>1, <1>5, <1>8, <1>9, Typed DEF IInv
<1>11. InHand'
  BY <1>9 DEF IInv, QInv, InHand
<1>12. Rounds' /\ Accounted'
  <2>1. r # 0
    BY <1>2 DEF Pushed
  <2>2. /\ e.answers <= 1 /\ (~e.committed => e.answers = 0) /\ e.fate = "alive"
        /\ e.turns = (IF e.committed THEN 1 ELSE 0) /\ ~e.ended
    BY <1>2, <1>4 DEF IInv, QInv, Rounds, Accounted
  <2>3. Consistent(r, e)
    BY <1>2, <1>8, <1>9, <2>1, <2>2 DEF Consistent
  <2>4. QED
    BY <1>2, <1>3, <1>4, <1>6, <1>9, <2>3, TurnAccounted
<1>13. HandledInOrder'
  BY <1>2, <1>4, <1>5, <1>8 DEF IInv, QInv, HandledInOrder
<1>14. Len(Tail(queue)) \in Nat /\ DOMAIN Tail(queue) = 1..Len(Tail(queue))
       /\ \A i \in DOMAIN queue' : \/ i \in DOMAIN Tail(queue) /\ queue'[i] = Tail(queue)[i]
                                   \/ i = Len(Tail(queue)) + 1 /\ queue'[i] = r
  BY <1>2, <1>3, <1>7, Appended
<1>15. \A i \in DOMAIN Tail(queue) :
         /\ i \in Nat /\ i + 1 \in DOMAIN queue /\ Tail(queue)[i] = queue[i + 1]
         /\ Tail(queue)[i] \in Pushed /\ Tail(queue)[i] # r
  <2> TAKE i \in DOMAIN Tail(queue)
  <2>1. queue \in Seq(Pushed)
    BY DEF IInv, TypeOK
  <2>2. i \in Nat /\ i + 1 \in DOMAIN queue /\ Tail(queue)[i] = queue[i + 1]
    BY <1>1, <2>1, Popped
  <2>3. Tail(queue)[i] \in Range(Tail(queue))
    BY RangeIff
  <2>4. Tail(queue)[i] \in Pushed
    BY <1>7
  <2>5. QED
    BY <1>7, <2>2, <2>3, <2>4
<1>16. FirstRound'
  <2> SUFFICES ASSUME NEW i \in DOMAIN queue', NEW j \in DOMAIN queue',
                      queue'[i] < queue'[j],
                      reqs'[queue'[i]].turns = 0, reqs'[queue'[j]].turns = 0
               PROVE  /\ reqs'[queue'[j]].response => reqs'[queue'[i]].response
                      /\ reqs'[queue'[j]].response = reqs'[queue'[i]].response => i < j
    BY DEF FirstRound
  <2>1. queue[1] = r /\ 1 \in DOMAIN queue
    BY <1>1, Popped DEF IInv, TypeOK
  <2>2. CASE i \in DOMAIN Tail(queue) /\ j \in DOMAIN Tail(queue)
    <3>1. /\ reqs'[queue'[i]] = reqs[queue[i + 1]] /\ queue'[i] = queue[i + 1]
          /\ reqs'[queue'[j]] = reqs[queue[j + 1]] /\ queue'[j] = queue[j + 1]
      BY <1>5, <1>14, <1>15, <2>2
    <3>2. /\ reqs[queue[j + 1]].response => reqs[queue[i + 1]].response
          /\ reqs[queue[j + 1]].response = reqs[queue[i + 1]].response => i + 1 < j + 1
      BY <1>15, <2>2, <3>1 DEF IInv, QInv, FirstRound
    <3>3. i + 1 < j + 1 => i < j
      BY <1>15, <2>2
    <3>4. QED
      BY <3>1, <3>2, <3>3
  <2>3. CASE i \in DOMAIN Tail(queue) /\ j = Len(Tail(queue)) + 1
    <3>1. /\ reqs'[queue'[i]] = reqs[queue[i + 1]] /\ queue'[i] = queue[i + 1]
          /\ reqs'[queue'[j]] = e /\ queue'[j] = queue[1] /\ i + 1 \in DOMAIN queue
          /\ i < j
      BY <1>5, <1>14, <1>15, <2>3
    <3>2. reqs[queue[i + 1]].response = reqs[queue[1]].response => i + 1 < 1
      BY <1>4, <2>1, <3>1 DEF IInv, QInv, FirstRound
    <3>3. ~(i + 1 < 1)
      BY <1>15, <2>3
    <3>4. reqs[queue[i + 1]] \in Request /\ reqs[r] \in Request
      BY <1>2, <1>15, <2>3 DEF IInv, TypeOK, Pushed
    <3>5. reqs[queue[i + 1]].response \in BOOLEAN /\ reqs[r].response \in BOOLEAN
      BY <3>4 DEF Request
    <3>6. QED
      BY <1>3, <3>1, <3>2, <3>3, <3>5
  <2>4. CASE i = Len(Tail(queue)) + 1 /\ j \in DOMAIN Tail(queue)
    <3>1. /\ reqs'[queue'[j]] = reqs[queue[j + 1]] /\ queue'[j] = queue[j + 1]
          /\ reqs'[queue'[i]] = e /\ queue'[i] = queue[1] /\ j + 1 \in DOMAIN queue
      BY <1>5, <1>14, <1>15, <2>4
    <3>2. reqs[queue[j + 1]].response => reqs[queue[1]].response
      BY <1>4, <2>1, <3>1 DEF IInv, QInv, FirstRound
    <3>3. ~reqs[queue[j + 1]].response
      BY <1>3, <3>2
    <3>4. QED
      BY <1>4, <3>1, <3>3
  <2>5. CASE i = Len(Tail(queue)) + 1 /\ j = Len(Tail(queue)) + 1
    <3>1. r < r /\ r \in Nat
      BY <1>2, <1>14, <2>5 DEF Pushed
    <3>2. QED
      BY <3>1
  <2>6. QED
    BY <1>14, <2>2, <2>3, <2>4, <2>5
<1>17. QED
  BY <1>10, <1>11, <1>12, <1>13, <1>16 DEF IInv, QInv

LEMMA ProcessStep == ASSUME IInv, ProcessRequest PROVE IInv'
<1> DEFINE r == queue[1]
           e == [reqs[r] EXCEPT !.fate = "dropped"]
<1>1. /\ loop.at = "loop" /\ queue # << >> /\ UNCHANGED <<serverVars, sockVars>>
  BY DEF ProcessRequest
<1>2. /\ r \in Pushed /\ reqs[r] \in Request /\ r \in Range(queue)
      /\ QueuePop(queue).record = r /\ QueuePop(queue).rest = Tail(queue)
  BY <1>1, Front
<1>3. CASE reqs[r].kind # "good"
  <2>1. queue' = Tail(queue) /\ reqs' = [reqs EXCEPT ![r] = e] /\ loop' = Idle
    BY <1>2, <1>3 DEF ProcessRequest, Drops
  <2>2. /\ e \in Request /\ e.fate = "dropped" /\ e.turns = reqs[r].turns
        /\ e.answers = reqs[r].answers /\ e.committed = reqs[r].committed
    BY <1>2, RequestKept DEF Request
  <2>3. e.answers <= 1 /\ (~e.committed => e.answers = 0)
    BY <1>2, <2>2 DEF IInv, QInv, Rounds
  <2>4. Without(Tail(queue), r) /\ loop.cur \in {0, r}
    BY <1>1, LoopTypes DEF Without
  <2> HIDE DEF e
  <2>5. QED
    BY <1>1, <1>2, <2>1, <2>2, <2>3, <2>4, DropStep
<1>4. CASE reqs[r].kind = "good"
  BY <1>2, <1>4, ProcessGood
<1>5. QED
  BY <1>3, <1>4

\* No older request waits when "connect" is emitted with the one in front.
LEMMA ConnectStep == ASSUME IInv, EmitConnect PROVE IInv'
<1> DEFINE r == queue[1]
           e == [reqs[r] EXCEPT !.turns = @ + 1]
<1>1. /\ loop.at = "loop" /\ loop.i < TickRequests /\ queue # << >>
      /\ UNCHANGED <<serverVars, sockVars>>
  BY DEF EmitConnect
<1>2. /\ r \in Pushed /\ reqs[r] \in Request /\ r \in Range(queue)
      /\ QueuePop(queue).record = r /\ QueuePop(queue).rest = Tail(queue)
      /\ reqs[r].turns = (IF reqs[r].committed THEN 1 ELSE 0)
  BY <1>1, Front
<1>3. /\ reqs[r].response /\ reqs' = [reqs EXCEPT ![r] = e] /\ queue' = Tail(queue)
      /\ loop'.at \in {"listener", "commit"} /\ loop'.cur = r /\ loop'.i = loop.i + 1
      /\ loop' = [at |-> loop'.at, i |-> loop'.i, cur |-> loop'.cur]
  BY <1>2 DEF EmitConnect
<1>4. /\ e \in Request /\ e.answers = reqs[r].answers
      /\ e.committed = reqs[r].committed /\ e.fate = reqs[r].fate
      /\ e.turns = IF e.committed THEN 2 ELSE 1
  <2>1. reqs[r].turns \in 0..1
    BY <1>2
  <2>2. e \in Request
    BY <1>2, <2>1, RequestKept
  <2>3. QED
    BY <1>2, <2>1, <2>2 DEF Request
<1> HIDE DEF e
<1>5. Without(Tail(queue), r)
  BY <1>1 DEF Without
<1>6. Tail(queue) \in Seq(Pushed) /\ Range(Tail(queue)) = Range(queue) \ {r}
  BY <1>2, <1>5, WithoutFacts
<1>7. Pushed' = Pushed /\ reqs' \in Seq(Request)
  BY <1>2, <1>3, <1>4, EntryChanged DEF IInv
<1>8. TypeOK'
  <2>1. loop' \in [at : {"idle", "loop", "listener", "commit"}, i : 0..TickRequests,
                   cur : Pushed' \cup {0}]
    BY <1>1, <1>2, <1>3, <1>7, LoopTypes
  <2>2. QED
    BY <1>1, <1>3, <1>6, <1>7, <2>1, Typed DEF IInv
<1>9. InHand'
  <2>1. reqs'[r] = e /\ r # 0
    BY <1>2, <1>3, <1>4, EntryChanged DEF IInv, Pushed
  <2>2. QED
    BY <1>3, <1>4, <2>1 DEF InHand
<1>10. Rounds' /\ Accounted'
  <2>1. loop.cur = 0 /\ 0 \notin Pushed
    BY <1>1, LoopTypes DEF Pushed
  <2>2. /\ e.answers <= 1 /\ (~e.committed => e.answers = 0) /\ e.fate = "alive"
    BY <1>2, <1>4 DEF IInv, QInv, Rounds, Accounted
  <2>3. Consistent(r, e)
    BY <1>3, <1>6, <2>2 DEF Consistent
  <2>4. QED
    BY <1>2, <1>3, <1>4, <1>5, <2>1, <2>3, TurnAccounted
<1>11. FirstRound' /\ HandledInOrder'
  <2>1. CASE reqs[r].turns > 0
    <3>1. \A q \in Range(queue) : reqs[q].turns = 0 => ~(q < r)
      <4>1. Range(queue) \subseteq Pushed
        BY DEF IInv, TypeOK, Range
      <4>2. QED
        BY <1>2, <2>1, <4>1 DEF IInv, QInv, HandledInOrder
    <3>2. QED
      BY <1>2, <1>3, <1>4, <1>5, <3>1, TurnInOrder
  <2>2. CASE reqs[r].turns = 0
    <3>1. ASSUME NEW q \in Range(queue), reqs[q].turns = 0, q < r
          PROVE  FALSE
      <4>1. PICK i \in DOMAIN queue : queue[i] = q
        BY <3>1, RangeIff
      <4>2. i \in Nat /\ i >= 1 /\ 1 \in DOMAIN queue
        BY <1>1, Popped DEF IInv, TypeOK
      <4>3. /\ reqs[r].response => reqs[q].response
            /\ reqs[r].response = reqs[q].response => i < 1
        BY <2>2, <3>1, <4>1, <4>2 DEF IInv, QInv, FirstRound
      <4>4. reqs[q] \in Request
        BY <4>1 DEF IInv, TypeOK, Pushed
      <4>5. reqs[q].response \in BOOLEAN /\ reqs[r].response \in BOOLEAN
        BY <1>2, <4>4 DEF Request
      <4>6. reqs[r].response = reqs[q].response
        BY <1>3, <4>3, <4>5
      <4>7. QED
        BY <4>2, <4>3, <4>6
    <3>2. QED
      BY <1>2, <1>3, <1>4, <1>5, <3>1, TurnInOrder
  <2>3. QED
    BY <1>2, <2>1, <2>2
<1>12. QED
  BY <1>8, <1>9, <1>10, <1>11 DEF IInv, QInv

\* The request in hand gets its answer, and leaves or goes round once more.
LEMMA CommitStep == ASSUME IInv, Commit PROVE IInv'
<1> DEFINE r == loop.cur
           w == [reqs[r] EXCEPT !.committed = TRUE, !.answers = @ + 1]
           c == [w EXCEPT !.fate = "closed"]
<1>1. /\ loop.at = "commit" /\ ~reqs[r].committed /\ UNCHANGED serverVars
      /\ loop' = [loop EXCEPT !.at = "loop", !.cur = 0]
  BY DEF Commit
<1>2. /\ r \in Pushed /\ reqs[r] \in Request /\ r \notin Range(queue)
  BY <1>1, Hand
<1>3. reqs[r].answers = 0 /\ reqs[r].fate = "alive" /\ 0 \notin Pushed
  BY <1>1, <1>2 DEF IInv, QInv, Rounds, Accounted, Pushed
<1>4. w \in Request /\ c \in Request
  BY <1>2, <1>3, RequestKept
<1>5. /\ w.committed /\ w.answers = 1 /\ w.turns = reqs[r].turns
      /\ w.ended = reqs[r].ended /\ w.fate = "alive"
      /\ c.committed /\ c.answers = 1 /\ c.turns = reqs[r].turns /\ c.fate = "closed"
  BY <1>2, <1>3 DEF Request
<1>6. \/ reqs[r].ended /\ reqs' = [reqs EXCEPT ![r] = c] /\ queue' = queue
      \/ ~reqs[r].ended /\ reqs' = [reqs EXCEPT ![r] = w] /\ queue' = Append(queue, r)
  BY DEF Commit
<1>7. /\ UNCHANGED <<accepted, wired, sent, avail, streams>>
      /\ open' \subseteq open /\ active' \subseteq active
  BY DEF Commit, Closes, sockVars
<1> HIDE DEF w, c
<1>8. reqs[r].turns = 1
  BY <1>1, <1>2 DEF IInv, QInv, InHand
<1>9. /\ loop'.at = "loop" /\ loop'.cur = 0
      /\ loop' \in [at : {"idle", "loop", "listener", "commit"}, i : 0..TickRequests,
                    cur : Pushed \cup {0}]
  BY <1>1, LoopTypes
<1>10. Without(queue, r) /\ queue \in Seq(Pushed)
  BY <1>2 DEF Without, IInv, TypeOK
<1>11. PICK e \in {c, w} :
         /\ reqs' = [reqs EXCEPT ![r] = e]
         /\ \/ e = c /\ queue' = queue
            \/ e = w /\ ~reqs[r].ended /\ queue' = Append(queue, r)
  BY <1>6
<1>12. /\ e \in Request /\ e.turns = 1 /\ e.committed /\ e.answers = 1
  BY <1>4, <1>5, <1>8
<1>13. /\ reqs' \in Seq(Request) /\ Pushed' = Pushed /\ queue' \in Seq(Pushed')
  <2>1. reqs' \in Seq(Request) /\ Pushed' = Pushed
    BY <1>2, <1>11, <1>12, EntryChanged DEF IInv
  <2>2. Append(queue, r) \in Seq(Pushed)
    BY <1>2, <1>10
  <2>3. queue' \in Seq(Pushed)
    BY <1>10, <1>11, <2>2
  <2>4. QED
    BY <2>1, <2>3
<1>14. TypeOK'
  BY <1>1, <1>7, <1>9, <1>13 DEF IInv, TypeOK, serverVars
<1>15. InHand'
  BY <1>9 DEF InHand
<1>16. Rounds' /\ Accounted'
  <2>1. Consistent(r, e)
    <3>1. CASE e = c /\ queue' = queue
      BY <1>2, <1>3, <1>5, <1>9, <1>12, <3>1 DEF Consistent
    <3>2. CASE e = w /\ ~reqs[r].ended /\ queue' = Append(queue, r)
      <4>1. r \in Range(queue')
        BY <1>2, <1>10, <3>2, AppendedRange
      <4>2. QED
        BY <1>2, <1>3, <1>5, <1>9, <1>12, <3>2, <4>1 DEF Consistent
    <3>3. QED
      BY <1>11, <3>1, <3>2
  <2>2. \A q \in Pushed : q # r => (q = loop.cur <=> q = loop'.cur)
    BY <1>3, <1>9
  <2>3. QED
    BY <1>2, <1>9, <1>10, <1>11, <1>12, <2>1, <2>2, TurnAccounted
<1>17. FirstRound' /\ HandledInOrder'
  <2>1. queue' = queue \/ (queue' = Append(queue, r) /\ e.turns > 0)
    BY <1>11, <1>12
  <2>2. e.turns = reqs[r].turns
    BY <1>8, <1>12
  <2> HIDE DEF r
  <2>3. QED
    BY <1>2, <1>10, <1>11, <1>12, <2>1, <2>2, TurnInOrder
<1>18. QED
  BY <1>14, <1>15, <1>16, <1>17 DEF IInv, QInv

\* A response that is ended is not in the queue: one of a request with a first turn
\* behind it has been committed, and takes no end.
LEMMA EndStep == ASSUME IInv, NEW r \in Pushed, End(r) PROVE IInv'
<1> DEFINE e == [reqs[r] EXCEPT !.ended = TRUE]
<1>1. /\ reqs[r].turns > 0 /\ ~reqs[r].committed /\ reqs' = [reqs EXCEPT ![r] = e]
      /\ UNCHANGED <<serverVars, sockVars, queue, loop>>
  BY DEF End, Known
<1>2. reqs[r] \in Request
  BY DEF IInv, TypeOK, Pushed
<1>3. /\ e \in Request /\ e.turns = reqs[r].turns /\ e.answers = reqs[r].answers
      /\ e.committed = reqs[r].committed /\ e.fate = reqs[r].fate
  BY <1>2, RequestKept DEF Request
<1> HIDE DEF e
<1>4. /\ reqs' \in Seq(Request) /\ Pushed' = Pushed /\ reqs'[r] = e
      /\ \A q \in Pushed : q # r => reqs'[q] = reqs[q]
  BY <1>1, <1>3, EntryChanged DEF IInv
<1>5. r \notin Range(queue)
  BY <1>1 DEF IInv, QInv, Rounds
<1>6. Without(queue, r)
  BY <1>5 DEF Without
<1>7. TypeOK'
  <2>1. queue' \in Seq(Pushed')
    BY <1>1, <1>4 DEF IInv, TypeOK
  <2>2. loop' \in [at : {"idle", "loop", "listener", "commit"}, i : 0..TickRequests,
                   cur : Pushed' \cup {0}]
    BY <1>1, <1>4 DEF IInv, TypeOK
  <2>3. QED
    BY <1>1, <1>4, <2>1, <2>2, Typed DEF IInv
<1>8. loop.cur \in Pushed \cup {0}
  BY LoopTypes
<1>9. InHand'
  <2>1. loop.cur # 0 =>
          /\ reqs'[loop.cur].turns = reqs[loop.cur].turns
          /\ reqs'[loop.cur].committed = reqs[loop.cur].committed
    BY <1>3, <1>4, <1>8
  <2>2. QED
    BY <1>1, <2>1 DEF IInv, QInv, InHand
<1>10. Rounds' /\ Accounted'
  <2>1. Consistent(r, e)
    <3>1. e.answers <= 1 /\ (~e.committed => e.answers = 0)
      BY <1>3 DEF IInv, QInv, Rounds
    <3>2. e.fate = "alive" <=> r \in Range(queue) \cup {loop.cur}
      BY <1>3 DEF IInv, QInv, Accounted
    <3>3. QED
      BY <1>1, <1>5, <3>1, <3>2 DEF Consistent
  <2>2. QED
    BY <1>1, <1>3, <1>6, <1>8, <2>1, TurnAccounted
<1>11. FirstRound' /\ HandledInOrder'
  BY <1>1, <1>3, <1>6, TurnInOrder
<1>12. QED
  BY <1>7, <1>9, <1>10, <1>11 DEF IInv, QInv

\* The newest request waits behind all others.
LEMMA Arrival ==
  ASSUME IInv, NEW e \in Request, reqs' = Append(reqs, e), queue' = Append(queue, Len(reqs) + 1),
         loop' = loop, ~e.response, ~e.committed, ~e.ended, e.turns = 0, e.answers = 0,
         e.fate = "alive"
  PROVE  QInv' /\ reqs' \in Seq(Request) /\ queue' \in Seq(Pushed') /\ Pushed \subseteq Pushed'
<1> DEFINE n == Len(reqs) + 1
<1>1. reqs \in Seq(Request) /\ queue \in Seq(Pushed) /\ Len(reqs) \in Nat
  BY DEF IInv, TypeOK
<1>2. /\ reqs' \in Seq(Request) /\ Pushed' = Pushed \cup {n} /\ n \notin Pushed /\ n \in Nat
      /\ reqs'[n] = e /\ \A q \in Pushed : q # n /\ q < n /\ q \in Nat /\ reqs'[q] = reqs[q]
  BY <1>1 DEF Pushed
<1>3. queue' = Append(queue, n)
  OBVIOUS
<1> HIDE DEF n
<1>4. queue \in Seq(Pushed') /\ n \in Pushed'
  BY <1>1, <1>2
<1>5. queue' \in Seq(Pushed') /\ Range(queue') = Range(queue) \cup {n}
  <2>1. Append(queue, n) \in Seq(Pushed') /\ Range(Append(queue, n)) = Range(queue) \cup {n}
    BY <1>4, AppendedRange, Appended
  <2>2. QED
    BY <1>3, <2>1
<1>6. Range(queue) \subseteq Pushed
  BY <1>1 DEF Range
<1>7. IsInjective(queue')
  BY <1>2, <1>3, <1>4, <1>6, AppendedRange DEF IInv, QInv, Accounted
<1>8. loop.cur \in Pushed \cup {0} /\ loop.cur # n /\ n # 0
  <2>1. loop.cur \in Pushed \cup {0}
    BY LoopTypes
  <2>2. n # 0
    BY <1>1 DEF n
  <2>3. QED
    BY <1>2, <2>1, <2>2
<1>9. InHand'
  BY <1>2, <1>8 DEF IInv, QInv, InHand
<1>10. Rounds'
  <2> SUFFICES ASSUME NEW q \in Pushed'
               PROVE  /\ q \in Range(queue') =>
                           reqs'[q].turns = IF reqs'[q].committed THEN 1 ELSE 0
                      /\ reqs'[q].answers <= 1
                      /\ ~reqs'[q].committed => reqs'[q].answers = 0
    BY DEF Rounds
  <2>1. CASE q = n
    <3>1. e.answers <= 1
      OBVIOUS
    <3>2. QED
      BY <1>2, <2>1, <3>1
  <2>2. CASE q \in Pushed
    BY <1>2, <1>5, <2>2 DEF IInv, QInv, Rounds
  <2>3. QED
    BY <1>2, <2>1, <2>2
<1>11. Accounted'
  <2>1. \A r \in Pushed' : reqs'[r].fate = "alive" <=> r \in Range(queue') \cup {loop'.cur}
    BY <1>2, <1>5, <1>8 DEF IInv, QInv, Accounted
  <2>2. \A r \in Range(queue') : ~reqs'[r].ended
    BY <1>2, <1>5, <1>6 DEF IInv, QInv, Accounted
  <2>3. loop'.cur \notin Range(queue')
    BY <1>5, <1>8 DEF IInv, QInv, Accounted
  <2>4. QED
    BY <1>7, <2>1, <2>2, <2>3 DEF Accounted
<1>12. HandledInOrder'
  <2> SUFFICES ASSUME NEW p \in Pushed', NEW q \in Pushed', p < q, reqs'[q].turns > 0,
                      p \in Range(queue'), reqs'[p].turns = 0
               PROVE  FALSE
    BY DEF HandledInOrder
  <2>1. q \in Pushed
    <3>1. ~(e.turns > 0)
      OBVIOUS
    <3>2. q # n
      BY <1>2, <3>1
    <3>3. QED
      BY <1>2, <3>2
  <2>2. p \in Pushed
    BY <1>2, <2>1
  <2>3. QED
    BY <1>2, <1>5, <2>1, <2>2 DEF IInv, QInv, HandledInOrder
<1>13. \A i \in DOMAIN queue' :
         \/ i \in DOMAIN queue /\ queue'[i] = queue[i] /\ queue[i] \in Pushed
         \/ i = Len(queue) + 1 /\ queue'[i] = n
  BY <1>1, <1>3, <1>4, Appended
<1>14. Len(queue) \in Nat /\ \A i \in DOMAIN queue : i \in Nat /\ i < Len(queue) + 1
  BY <1>1
<1>15. FirstRound'
  <2> SUFFICES ASSUME NEW i \in DOMAIN queue', NEW j \in DOMAIN queue',
                      queue'[i] < queue'[j],
                      reqs'[queue'[i]].turns = 0, reqs'[queue'[j]].turns = 0
               PROVE  /\ reqs'[queue'[j]].response => reqs'[queue'[i]].response
                      /\ reqs'[queue'[j]].response = reqs'[queue'[i]].response => i < j
    BY DEF FirstRound
  <2>1. CASE j = Len(queue) + 1 /\ queue'[j] = n
    <3>1. i \in DOMAIN queue
      BY <1>2, <1>13, <2>1
    <3>2. QED
      BY <1>2, <1>14, <2>1, <3>1
  <2>2. CASE j \in DOMAIN queue /\ queue'[j] = queue[j] /\ queue[j] \in Pushed
    <3>1. i \in DOMAIN queue /\ queue'[i] = queue[i] /\ queue[i] \in Pushed
      <4>1. queue[j] < n /\ queue[j] \in Nat /\ n \in Nat
        BY <1>2, <2>2
      <4>2. queue'[i] # n
        BY <2>2, <4>1
      <4>3. QED
        BY <1>13, <4>2
    <3>2. reqs'[queue'[i]] = reqs[queue[i]] /\ reqs'[queue'[j]] = reqs[queue[j]]
      BY <1>2, <2>2, <3>1
    <3>3. QED
      BY <2>2, <3>1, <3>2, ZenonT(60) DEF IInv, QInv, FirstRound
  <2>3. QED
    BY <1>13, <2>1, <2>2
<1>16. QED
  BY <1>2, <1>5, <1>9, <1>10, <1>11, <1>12, <1>15 DEF QInv

LEMMA PollStep ==
  ASSUME IInv, NEW s \in Sockets, NEW late \in 0..MaxSent, NEW kind \in {"good", "bad"},
         NEW k \in DOMAIN streams[s], Poll(s, k, late, kind)
  PROVE  IInv'
<1> DEFINE e == NewRequest(s, kind)
<1>1. /\ MaxBytes \in Nat \ {0} /\ MaxSent \in Nat /\ sent \in 0..MaxSent /\ late \in Nat
      /\ avail \in [Sockets -> 0..sent] /\ streams \in [Sockets -> Seq(0..MaxBytes)]
  BY PollingAssumption DEF IInv, TypeOK, PollingAssumption
<1>2. /\ UNCHANGED <<serverVars, accepted, wired, active, open, loop>>
      /\ sent' = sent + late /\ sent + late <= MaxSent
      /\ avail' = [avail EXCEPT ![s] = @ - BytesToProcess(s) + late]
      /\ streams' = [streams EXCEPT ![s][k] = BytesToProcess(s)]
      /\ \/ reqs' = Append(reqs, e) /\ queue' = Append(queue, Len(reqs) + 1)
         \/ UNCHANGED <<reqs, queue>>
  BY DEF Poll
<1>3. BytesToProcess(s) \in 0..MaxBytes /\ BytesToProcess(s) <= avail[s] /\ avail[s] \in 0..sent
  BY <1>1 DEF BytesToProcess
<1>4. sent' \in 0..MaxSent /\ avail' \in [Sockets -> 0..sent']
  <2>1. sent' \in 0..MaxSent /\ sent <= sent'
    BY <1>1, <1>2
  <2>2. avail[s] - BytesToProcess(s) + late \in 0..sent'
    BY <1>1, <1>2, <1>3
  <2>3. \A t \in Sockets : avail[t] \in 0..sent'
    BY <1>1, <2>1
  <2>4. QED
    BY <1>1, <1>2, <2>1, <2>2, <2>3
<1>5. streams' \in [Sockets -> Seq(0..MaxBytes)]
  <2>1. streams[s] \in Seq(0..MaxBytes)
    BY <1>1
  <2>2. [streams[s] EXCEPT ![k] = BytesToProcess(s)] \in Seq(0..MaxBytes)
    BY <1>3, <2>1
  <2>3. streams' = [streams EXCEPT ![s] = [streams[s] EXCEPT ![k] = BytesToProcess(s)]]
    BY <1>2
  <2>4. QED
    BY <1>1, <2>2, <2>3
<1>6. CASE reqs' = Append(reqs, e) /\ queue' = Append(queue, Len(reqs) + 1)
  <2>1. /\ e \in Request /\ ~e.response /\ ~e.committed /\ ~e.ended /\ e.turns = 0
        /\ e.answers = 0 /\ e.fate = "alive"
    BY DEF NewRequest, Request
  <2> HIDE DEF e
  <2>2. loop' = loop
    BY <1>2
  <2>3. QInv' /\ reqs' \in Seq(Request) /\ queue' \in Seq(Pushed') /\ Pushed \subseteq Pushed'
    BY <1>6, <2>1, <2>2, Arrival
  <2>4. TypeOK'
    BY <1>2, <1>4, <1>5, <2>3 DEF IInv, TypeOK, serverVars
  <2>5. QED
    BY <2>3, <2>4 DEF IInv
<1>7. CASE UNCHANGED <<reqs, queue>>
  <2>1. TypeOK'
    BY <1>2, <1>4, <1>5, <1>7 DEF IInv, TypeOK, serverVars, Pushed
  <2>2. InHand'
    BY <1>2, <1>7 DEF IInv, QInv, InHand
  <2>3. QED
    BY <1>2, <1>7, <2>1, <2>2, QueueUntouched DEF IInv
<1>8. QED
  BY <1>2, <1>6, <1>7

\* Steps of clients, sockets and program that touch neither requests, queue nor watcher.
LEMMA OutsideType ==
  ASSUME TypeOK,
         \/ Listen \/ CloseServer
         \/ \E s \in Sockets : Accept(s) \/ CloseSocket(s) \/ Resume(s)
         \/ \E s \in Sockets, n \in 1..MaxSent : Send(s, n)
         \/ \E ev \in Events : Hear(ev) \/ Unhear(ev)
  PROVE  TypeOK' /\ UNCHANGED <<reqs, queue, loop>>
<1>1. MaxBytes \in Nat /\ MaxSent \in Nat
  BY PollingAssumption DEF PollingAssumption
<1>2. CASE Listen
  BY <1>2 DEF Listen, TypeOK, sockVars, Pushed
<1>3. CASE CloseServer
  BY <1>3 DEF CloseServer, TypeOK, sockVars, Pushed
<1>4. ASSUME NEW s \in Sockets, Accept(s) PROVE TypeOK' /\ UNCHANGED <<reqs, queue, loop>>
  <2>1. /\ UNCHANGED <<serverVars, sent, avail, reqs, queue, loop>>
        /\ accepted' = accepted \cup {s} /\ open' = open \cup {s}
        /\ wired' \in {wired, wired \cup {s}} /\ active' \in {active, active \cup {s}}
        /\ active' = active \/ wired' = wired \cup {s}
        /\ streams' = [streams EXCEPT ![s] = <<0>>]
    BY <1>4 DEF Accept
  <2>2. <<0>> \in Seq(0..MaxBytes)
    BY <1>1
  <2>3. streams' \in [Sockets -> Seq(0..MaxBytes)]
    BY <2>1, <2>2 DEF TypeOK
  <2>4. /\ accepted' \subseteq Sockets /\ wired' \subseteq accepted'
        /\ active' \subseteq wired' /\ open' \subseteq accepted'
    BY <2>1 DEF TypeOK
  <2>5. QED
    BY <2>1, <2>3, <2>4 DEF TypeOK, serverVars, Pushed
<1>5. ASSUME NEW s \in Sockets, CloseSocket(s) PROVE TypeOK' /\ UNCHANGED <<reqs, queue, loop>>
  <2>1. /\ UNCHANGED <<serverVars, accepted, wired, sent, avail, streams, reqs, queue, loop>>
        /\ open' \subseteq open /\ active' \subseteq active
    BY <1>5 DEF CloseSocket, Closes
  <2>2. QED
    BY <2>1 DEF TypeOK, serverVars, Pushed
<1>6. ASSUME NEW s \in Sockets, Resume(s) PROVE TypeOK' /\ UNCHANGED <<reqs, queue, loop>>
  <2>1. /\ UNCHANGED <<serverVars, accepted, wired, active, open, sent, avail, reqs, queue, loop>>
        /\ streams' = [streams EXCEPT ![s] = Append(streams[s], 0)]
    BY <1>6 DEF Resume
  <2>2. streams \in [Sockets -> Seq(0..MaxBytes)] /\ 0 \in 0..MaxBytes
    BY <1>1 DEF TypeOK
  <2>3. Append(streams[s], 0) \in Seq(0..MaxBytes)
    BY <2>2
  <2>4. streams' \in [Sockets -> Seq(0..MaxBytes)]
    BY <2>1, <2>2, <2>3
  <2>5. QED
    BY <2>1, <2>4 DEF TypeOK, serverVars, Pushed
<1>7. ASSUME NEW s \in Sockets, NEW n \in 1..MaxSent, Send(s, n)
      PROVE  TypeOK' /\ UNCHANGED <<reqs, queue, loop>>
  <2>1. /\ UNCHANGED <<serverVars, accepted, wired, active, open, streams, reqs, queue, loop>>
        /\ sent' = sent + n /\ sent + n <= MaxSent
        /\ avail' = [avail EXCEPT ![s] = avail[s] + n]
    BY <1>7 DEF Send
  <2>2. sent \in 0..MaxSent /\ avail \in [Sockets -> 0..sent] /\ n \in Nat
    BY DEF TypeOK
  <2>3. sent' \in 0..MaxSent /\ \A t \in Sockets : avail[t] \in 0..sent' /\ avail[t] + n \in 0..sent'
    BY <1>1, <2>1, <2>2
  <2>4. avail' \in [Sockets -> 0..sent']
    BY <2>1, <2>2, <2>3
  <2>5. QED
    BY <2>1, <2>3, <2>4 DEF TypeOK, serverVars, Pushed
<1>8. ASSUME NEW ev \in Events, Hear(ev) \/ Unhear(ev)
      PROVE  TypeOK' /\ UNCHANGED <<reqs, queue, loop>>
  <2>1. heard \in [Events -> 0..2] /\ Own(ev) \in 0..1
    BY DEF TypeOK, Own
  <2>2. heard[ev] + 1 \in 0..2 \/ ~Hear(ev)
    BY <2>1 DEF Hear
  <2>3. heard[ev] - 1 \in 0..2 \/ ~Unhear(ev)
    BY <2>1 DEF Unhear
  <2>4. heard' \in [Events -> 0..2]
    BY <1>8, <2>1, <2>2, <2>3 DEF Hear, Unhear
  <2>5. UNCHANGED <<listening, ticking, sockVars, reqs, queue, loop>>
    BY <1>8 DEF Hear, Unhear
  <2>6. QED
    BY <2>4, <2>5 DEF TypeOK, sockVars, Pushed
<1>9. QED
  BY <1>2, <1>3, <1>4, <1>5, <1>6, <1>7, <1>8

-----------------------------------------------------------------------------
(* Theorems *)

LEMMA InitInvariant == Init => IInv
<1> SUFFICES ASSUME Init PROVE IInv
  OBVIOUS
<1>1. reqs = << >> /\ queue = << >> /\ loop.at = "idle" /\ loop.cur = 0
  BY DEF Init, Idle
<1>2. Pushed = {} /\ Range(queue) = {} /\ DOMAIN queue = {}
  BY <1>1 DEF Pushed, Range
<1>3. QInv
  BY <1>1, <1>2 DEF QInv, InHand, Rounds, Accounted, FirstRound, HandledInOrder, IsInjective
<1>4. QED
  BY <1>3, InitType DEF IInv

LEMMA StepInvariant == IInv /\ [Next]_vars => IInv'
<1> SUFFICES ASSUME IInv, [Next]_vars PROVE IInv'
  OBVIOUS
<1>1. CASE Watcher
  BY <1>1, LoopMoves, ProcessStep, ConnectStep, HandDropped, CommitStep DEF Watcher
<1>2. ASSUME NEW r \in Pushed, End(r) PROVE IInv'
  BY <1>2, EndStep
<1>3. ASSUME NEW s \in Sockets, NEW late \in 0..MaxSent, NEW kind \in {"good", "bad"},
             NEW k \in DOMAIN streams[s], Poll(s, k, late, kind)
      PROVE  IInv'
  BY <1>3, PollStep
<1>4. CASE \/ Listen \/ CloseServer
           \/ \E s \in Sockets : Accept(s) \/ CloseSocket(s) \/ Resume(s)
           \/ \E s \in Sockets, n \in 1..MaxSent : Send(s, n)
           \/ \E ev \in Events : Hear(ev) \/ Unhear(ev)
  <2>1. TypeOK' /\ UNCHANGED <<reqs, queue, loop>>
    BY <1>4, OutsideType DEF IInv
  <2>2. InHand'
    BY <2>1 DEF IInv, QInv, InHand
  <2>3. QED
    BY <2>1, <2>2, QueueUntouched DEF IInv
<1>5. CASE UNCHANGED vars
  <2>1. TypeOK' /\ InHand' /\ UNCHANGED <<reqs, queue, loop>>
    BY <1>5 DEF IInv, QInv, InHand, TypeOK, vars, Pushed
  <2>2. QED
    BY <2>1, QueueUntouched DEF IInv
<1>6. QED
  BY <1>1, <1>2, <1>3, <1>4, <1>5 DEF Next, Program, Network

\* The inductive invariant holds in every reachable state.
THEOREM Invariance == Spec => []IInv
<1>1. Init => IInv
  BY InitInvariant
<1>2. IInv /\ [Next]_vars => IInv'
  BY StepInvariant
<1>3. QED
  BY <1>1, <1>2, PTL DEF Spec

\* The state of server, sockets and watcher keeps its shape.
THEOREM PollingServerTyped == Spec => []TypeOK
<1>1. IInv => TypeOK
  BY DEF IInv
<1>2. QED
  BY <1>1, Invariance, PTL

\* http/server.js:50-66: no request is written to its socket twice, although one that
\* was not ended is served again.
THEOREM RequestsAnsweredOnce == Spec => []AnsweredOnce
<1>1. IInv => AnsweredOnce
  BY DEF IInv, QInv, Rounds, AnsweredOnce
<1>2. QED
  BY <1>1, Invariance, PTL

\* http/server.js:36-67: whatever is thrown, each request is in the queue once, in hand,
\* closed or dropped, and no ended response waits for another turn.
THEOREM RequestsAccounted == Spec => []Accounted
<1>1. IInv => Accounted
  BY DEF IInv, QInv
<1>2. QED
  BY <1>1, Invariance, PTL

\* http/server.js:40-47: the program gets the requests in the order of their arrival.
THEOREM RequestsHandledInOrder == Spec => []HandledInOrder
<1>1. IInv => HandledInOrder
  BY DEF IInv, QInv
<1>2. QED
  BY <1>1, Invariance, PTL
================================================================================
