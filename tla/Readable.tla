------------------------------ MODULE Readable ------------------------------
(***************************************************************************)
(* The Readable of require('stream') (_stream_readable.js on               *)
(* internal/streams/buffer_list.js), the source that pushes into it, the   *)
(* program that reads it, and pipe() to one Writable, of which Writable    *)
(* shows that a write() that said false is followed by "drain".            *)
(*                                                                         *)
(* As in Writable, "todo" is what the running task has still to do, and    *)
(* what is put off with process.nextTick() is lost, for it is called with  *)
(* one array: resume_(), emitReadable_() from emitReadable(), the          *)
(* functions that read more, and endReadableNT(), so "end" is never        *)
(* emitted.  A flow begins where flow() is called directly, or with a push *)
(* into an empty buffer.  Bytes are numbered in the order they are pushed; *)
(* a chunk is a sequence of them.  The only listener on the Writable is    *)
(* pipe()'s own, and emit() calls a listener only if it is alone.          *)
(***************************************************************************)
EXTENDS Naturals, Sequences, SequencesExt, FiniteSets

CONSTANTS MaxBytes,       \* bound: bytes the source pushes
          HighWaterMarks, \* values of the option
          Sizes           \* arguments of read(n) besides none at all

VARIABLES
  state,     \* _readableState
  listeners, \* who listens to "data": the program, the pipe
  piped,     \* the Writable is the destination of a pipe
  needDrain, \* it said false and has not emitted "drain"
  todo,      \* what is left of the running task, the innermost call first
  pushed,    \* history: bytes pushed
  seen,      \* history: bytes handed to somebody, in order
  lost,      \* history: bytes emitted to nobody
  last,      \* history: the latest chunk handed to the program, which may go back
  meddled    \* history: the program called the stream since pipe()

vars == <<state, listeners, piped, needDrain, todo, pushed, seen, lost, last, meddled>>
history == <<pushed, seen, lost, last>>
wires   == <<listeners, piped, needDrain>>

ReadableAssumption ==
  MaxBytes \in Nat /\ HighWaterMarks \subseteq Nat /\ Sizes \subseteq Nat
ASSUME ReadableAssumption

All == MaxBytes + 1 \* the n of read(): not a number

Init ==
  /\ \E hwm \in HighWaterMarks :
       state = [highWaterMark |-> hwm, buffer |-> << >>, flowing |-> "unset",
                reading |-> FALSE, sync |-> TRUE, ended |-> FALSE, destroyed |-> FALSE,
                needReadable |-> FALSE, emittedReadable |-> FALSE,
                readableListening |-> FALSE, awaitDrain |-> 0]
  /\ listeners = {} /\ piped = FALSE /\ needDrain = FALSE /\ todo = << >>
  /\ pushed = 0 /\ seen = << >> /\ lost = {} /\ last = << >> /\ meddled = FALSE

Do(op)    == [op |-> op, n |-> 0, m |-> 0, chunk |-> << >>]
ReadOf(n) == [Do("read") EXCEPT !.n = n]
Data(c)   == [Do("data") EXCEPT !.chunk = c]

InProgram == todo # << >> => todo[1].op = "program"
At(op)    == todo # << >> /\ todo[1].op = op
Then(ops) == todo' = ops \o Tail(todo)
Call(ops) == todo' = ops \o todo

\* A listener of the program returns.
Return == At("program") /\ Then(<< >>) /\ UNCHANGED <<state, wires, history, meddled>>

-----------------------------------------------------------------------------
(* BufferList.                                                             *)

Bytes(list)  == FlattenSeq(list)
Length(s)    == Len(Bytes(s.buffer))
Upto(list, k) == Len(Bytes(SubSeq(list, 1, k)))

\* What consume(n) leaves: the chunk n ends in is cut, the ones before it are gone.
Consume(list, n) ==
  LET k == CHOOSE i \in DOMAIN list : Upto(list, i) >= n /\ Upto(list, i - 1) < n
      rest == SubSeq(list[k], n - Upto(list, k - 1) + 1, Len(list[k]))
  IN (IF rest = << >> THEN << >> ELSE <<rest>>) \o SubSeq(list, k + 1, Len(list))

-----------------------------------------------------------------------------
(* Pushing.                                                                *)

\* emitReadable(): the event is put off and lost, the flags are not.
EmitReadable(s) == [s EXCEPT !.needReadable = FALSE, !.emittedReadable = TRUE]

\* Fault: a chunk goes to the listeners past what is in the buffer.
DirectWhenFlowing(s) == s.flowing = "on" /\ ~s.sync

Direct(s) == s.flowing = "on" /\ Length(s) = 0 /\ ~s.sync

\* addChunk(): to the listeners at once, or into the buffer.
AddChunk(s, chunk, front) ==
  IF Direct(s)
  THEN state' = [s EXCEPT !.awaitDrain = 0] /\ Call(<<Data(chunk)>>)
  ELSE LET t == [s EXCEPT !.buffer = IF front THEN <<chunk>> \o @ ELSE Append(@, chunk)]
       IN state' = (IF t.needReadable THEN EmitReadable(t) ELSE t) /\ UNCHANGED todo

\* push() by the source, from a task or before _read returns; a destroyed stream, or one
\* that has ended, takes nothing.
Push(k) ==
  /\ InProgram \/ At("_read")
  /\ ~state.ended /\ ~state.destroyed /\ pushed + k <= MaxBytes
  /\ LET s == [state EXCEPT !.reading = FALSE]
     IN IF k = 0 THEN state' = s /\ UNCHANGED todo
                 ELSE AddChunk(s, [i \in 1..k |-> pushed + i], FALSE)
  /\ pushed' = pushed + k
  /\ UNCHANGED <<wires, seen, lost, last, meddled>>

\* push(null); outside _read the stream flows at once.
PushEof ==
  /\ InProgram \/ At("_read")
  /\ ~state.ended
  /\ state' = [EmitReadable(state) EXCEPT !.reading = FALSE, !.ended = TRUE]
  /\ IF state.sync \/ state.emittedReadable THEN UNCHANGED todo ELSE Call(<<Do("emitReadable_")>>)
  /\ UNCHANGED <<wires, history, meddled>>

\* unshift() of what was read last, from a task of the program.
Unshift ==
  /\ todo = << >> /\ last # << >>
  /\ AddChunk(state, last, TRUE)
  /\ seen' = SubSeq(seen, 1, Len(seen) - Len(last))
  /\ last' = << >> /\ meddled' = TRUE
  /\ UNCHANGED <<wires, pushed, lost>>

\* emitReadable_(), called directly: "readable", then flow().
EmitReadableNow ==
  /\ At("emitReadable_")
  /\ Then((IF ~state.destroyed /\ state.readableListening THEN <<Do("program")>> ELSE << >>)
          \o <<[Do("readable") EXCEPT !.n = IF state.destroyed THEN 0 ELSE 1]>>)
  /\ UNCHANGED <<state, wires, history, meddled>>

ReadableEmitted ==
  /\ At("readable")
  /\ state' = [state EXCEPT !.emittedReadable = @ /\ todo[1].n = 0,
                 !.needReadable = state.flowing # "on" /\ ~state.ended
                                  /\ Length(state) <= state.highWaterMark]
  /\ Then(<<Do("flow")>>)
  /\ UNCHANGED <<wires, history, meddled>>

-----------------------------------------------------------------------------
(* Reading.                                                                *)

PowerOf2(n) == CHOOSE p \in {2 ^ e : e \in 0..n} : p >= n /\ \A e \in 0..n : 2 ^ e >= n => p <= 2 ^ e

\* howMuchToRead(), and what it does to the state.
HowMuch(n, s) ==
  CASE n = 0 \/ (Length(s) = 0 /\ s.ended) -> 0
    [] n = All -> IF s.flowing = "on" /\ Length(s) > 0 THEN Len(s.buffer[1]) ELSE Length(s)
    [] n <= Length(s) -> n
    [] OTHER -> IF s.ended THEN Length(s) ELSE 0

Raised(n, s) ==
  IF n \in {0, All} \/ (Length(s) = 0 /\ s.ended) THEN s
  ELSE [s EXCEPT !.highWaterMark = IF n > @ THEN PowerOf2(n) ELSE @,
                 !.needReadable = @ \/ (n > Length(s) /\ ~s.ended)]

\* read() returns null: flow(), when it is the caller, stops.
ReturnNull(frames) ==
  todo' = IF frames # << >> /\ frames[1].op = "flow" THEN Tail(frames) ELSE frames

\* read(n) up to the call of _read.
Read ==
  /\ At("read")
  /\ LET n == todo[1].n
         s == [state EXCEPT !.emittedReadable = @ /\ n = 0]
         t == Raised(n, s)
         m == HowMuch(n, s)
         full == IF s.highWaterMark # 0 THEN Length(s) >= s.highWaterMark ELSE Length(s) > 0
         doRead == /\ ~t.ended /\ ~t.reading
                   /\ t.needReadable \/ Length(t) = 0 \/ Length(t) - m < t.highWaterMark
         take == [Do("take") EXCEPT !.n = n, !.m = m]
     IN IF n = 0 /\ s.needReadable /\ (full \/ s.ended)
        THEN /\ state' = IF Length(s) = 0 THEN s ELSE EmitReadable(s)
             /\ ReturnNull(Tail(todo))
        ELSE IF m = 0 /\ t.ended THEN state' = t /\ ReturnNull(Tail(todo))
        ELSE IF doRead
             THEN /\ state' = [t EXCEPT !.reading = TRUE, !.sync = TRUE,
                                 !.needReadable = @ \/ Length(t) = 0]
                  /\ Then(<<Do("_read"), take>>)
             ELSE state' = t /\ Then(<<take>>)
  /\ UNCHANGED <<wires, history, meddled>>

\* _read returns, having pushed or not.
ReadReturns ==
  /\ At("_read")
  /\ state' = [state EXCEPT !.sync = FALSE]
  /\ Then(<< >>)
  /\ UNCHANGED <<wires, history, meddled>>

\* read(n) from there: what _read pushed counts. The chunk goes to the listeners, and to
\* the program if it is the caller.
Take ==
  /\ At("take")
  /\ LET n == todo[1].n
         s == IF state.reading THEN state ELSE Raised(n, state)
         m == IF state.reading THEN todo[1].m ELSE HowMuch(n, state)
         chunk == SubSeq(Bytes(s.buffer), 1, m)
         rest == Tail(todo)
         byFlow == rest # << >> /\ rest[1].op = "flow"
         t == IF m = 0
              THEN [s EXCEPT !.needReadable = Length(s) <= s.highWaterMark \/ (Length(s) = 0 /\ ~s.ended)]
              ELSE [s EXCEPT !.awaitDrain = 0,
                             !.buffer = IF m >= Length(s) THEN << >> ELSE Consume(@, m),
                             !.needReadable = @ \/ (m >= Length(s) /\ ~s.ended)]
     IN /\ state' = t
        /\ IF m = 0 THEN ReturnNull(rest)
           ELSE todo' = <<[Data(chunk) EXCEPT !.n = IF byFlow THEN 0 ELSE 1]>> \o rest
  /\ UNCHANGED <<wires, history, meddled>>

Flow ==
  /\ At("flow")
  /\ IF state.flowing = "on" THEN Call(<<ReadOf(All)>>) ELSE Then(<< >>)
  /\ UNCHANGED <<state, wires, history, meddled>>

-----------------------------------------------------------------------------
(* Events and pipes.                                                       *)

\* Fault: the pipe waits for "drain" and goes on writing.
GoesOn(s) == [s EXCEPT !.awaitDrain = @ + 1]

\* Fault: full, the pipe is told again and again to wait.
WaitsTwice(s) == [s EXCEPT !.awaitDrain = @ + 2, !.flowing = "off"]

\* ondata(), when write() says false.
Pauses(s) == [s EXCEPT !.awaitDrain = @ + 1, !.flowing = "off"]

\* emit("data"): a lone listener is called, several are not; n = 1 says that the program
\* gets the chunk from read() as well.
EmitData ==
  /\ At("data")
  /\ LET chunk == todo[1].chunk
         handed == Cardinality(listeners) = 1 \/ todo[1].n = 1
     IN /\ seen' = IF handed THEN seen \o chunk ELSE seen
        /\ lost' = IF handed THEN lost ELSE lost \cup ToSet(chunk)
        /\ last' = IF handed /\ (listeners = {"program"} \/ todo[1].n = 1) THEN chunk ELSE << >>
  /\ Then(IF listeners = {"program"} THEN <<Do("program")>> ELSE << >>)
  /\ \E full \in BOOLEAN :
       IF full /\ listeners = {"pipe"}
       THEN needDrain' = TRUE /\ state' = Pauses(state)
       ELSE UNCHANGED <<needDrain, state>>
  /\ UNCHANGED <<listeners, piped, pushed, meddled>>

Resumed(s) == [s EXCEPT !.flowing = IF @ = "on" THEN @ ELSE IF s.readableListening THEN "off" ELSE "on"]

\* The program calls read(n), pause(), resume() or destroy().
CallRead(n) ==
  /\ InProgram /\ Call(<<ReadOf(n)>>) /\ meddled' = TRUE
  /\ UNCHANGED <<state, wires, history>>

Pause ==
  /\ InProgram /\ state' = [state EXCEPT !.flowing = "off"] /\ meddled' = TRUE
  /\ UNCHANGED <<wires, todo, history>>

Resume ==
  /\ InProgram /\ state' = Resumed(state) /\ meddled' = TRUE
  /\ UNCHANGED <<wires, todo, history>>

Destroy ==
  /\ InProgram /\ state' = [state EXCEPT !.destroyed = TRUE] /\ meddled' = TRUE
  /\ UNCHANGED <<wires, todo, history>>

\* on("data") resumes a stream that nobody paused; off() leaves it flowing.
OnData ==
  /\ InProgram /\ "program" \notin listeners
  /\ listeners' = listeners \cup {"program"} /\ meddled' = TRUE
  /\ state' = IF state.flowing = "off" THEN state ELSE Resumed(state)
  /\ UNCHANGED <<piped, needDrain, todo, history>>

OffData ==
  /\ InProgram /\ "program" \in listeners
  /\ listeners' = listeners \ {"program"} /\ meddled' = TRUE
  /\ UNCHANGED <<state, piped, needDrain, todo, history>>

\* on("readable") stops the flow for good: what would clear the flag is lost.
OnReadable ==
  /\ InProgram /\ ~state.readableListening
  /\ LET s == [state EXCEPT !.readableListening = TRUE, !.needReadable = TRUE,
                 !.flowing = "off", !.emittedReadable = FALSE]
     IN state' = IF Length(s) > 0 THEN EmitReadable(s) ELSE s
  /\ meddled' = TRUE
  /\ UNCHANGED <<wires, todo, history>>

Pipe ==
  /\ InProgram /\ ~piped
  /\ piped' = TRUE /\ listeners' = listeners \cup {"pipe"}
  /\ state' = Resumed(state)
  /\ meddled' = (listeners # {} \/ needDrain)
  /\ UNCHANGED <<needDrain, todo, history>>

\* ondrain(): flow() again if anybody listens.
OnDrain(s, who) == IF s.awaitDrain <= 1 /\ who # {} THEN [s EXCEPT !.awaitDrain = 0, !.flowing = "on"]
                   ELSE [s EXCEPT !.awaitDrain = IF @ > 0 THEN @ - 1 ELSE 0]

\* cleanup() of the pipe's listeners does not leave the stream waiting for "drain".
Cleanup(s, who) == IF s.awaitDrain > 0 /\ needDrain THEN OnDrain(s, who) ELSE s

\* unpipe(), by the program or because the Writable finished or failed.
Unpipe ==
  /\ InProgram /\ piped
  /\ piped' = FALSE /\ listeners' = listeners \ {"pipe"}
  /\ state' = Cleanup([state EXCEPT !.flowing = "off"], listeners')
  /\ IF state'.flowing = "on" THEN Call(<<Do("flow")>>) ELSE UNCHANGED todo
  /\ meddled' = TRUE
  /\ UNCHANGED <<needDrain, history>>

\* External: the Writable emits "drain".
Drain ==
  /\ todo = << >> /\ needDrain
  /\ needDrain' = FALSE
  /\ state' = IF piped THEN OnDrain(state, listeners) ELSE state
  /\ IF piped /\ state'.awaitDrain = 0 /\ listeners # {} THEN Call(<<Do("flow")>>) ELSE UNCHANGED todo
  /\ UNCHANGED <<listeners, piped, history, meddled>>

Source  == (\E k \in 0..MaxBytes : Push(k)) \/ PushEof \/ ReadReturns
Program == \/ \E n \in Sizes \cup {All} : CallRead(n)
           \/ Pause \/ Resume \/ Destroy \/ Unshift \/ OnData \/ OffData \/ OnReadable \/ Pipe \/ Unpipe
Library == EmitReadableNow \/ ReadableEmitted \/ Read \/ Take \/ Flow \/ EmitData

Next == Source \/ Program \/ Library \/ Return \/ Drain

\* _read and listeners return, and a Writable that was full drains (Writable!Completes).
Fairness == WF_vars(Library) /\ SF_vars(Return \/ ReadReturns) /\ SF_vars(Drain)

Spec == Init /\ [][Next]_vars /\ Fairness

-----------------------------------------------------------------------------
(* Properties.                                                             *)

\* The state has its type, and one Writable is awaited once at most.
TypeOK ==
  /\ state.flowing \in {"unset", "on", "off"} /\ state.awaitDrain \in 0..1
  /\ \A i \in DOMAIN state.buffer : state.buffer[i] \in Seq(1..pushed) \ {<< >>}
  /\ \A i \in DOMAIN todo : todo[i].m \in 0..MaxBytes /\ Len(todo[i].chunk) <= MaxBytes
  /\ listeners \subseteq {"program", "pipe"} /\ ("pipe" \in listeners <=> piped)

Rising(s) == \A i, j \in DOMAIN s : i < j => s[i] < s[j]

\* Every byte pushed is handed to somebody exactly once and in order, or is in the buffer
\* behind those, whether it came through read(), "data", unshift() or a pipe; the exception
\* is what was emitted while nobody, or more than one, listened.
InOrderOnce ==
  LET row == seen \o Bytes(state.buffer)
  IN ~At("data") => Rising(row) /\ ToSet(row) = (1..pushed) \ lost

\* The stream awaits "drain" only of a Writable it is piped to and that will emit it.
AwaitsADrain == state.awaitDrain > 0 => piped /\ needDrain

\* Nothing is written to a Writable that said false before it drains, unless the program
\* reads, resumes or re-pipes the stream meanwhile.
StopsWhenFull == [][At("data") /\ listeners = {"pipe"} /\ needDrain => meddled]_vars

\* pipe() (_stream_readable.js:288-368, 832): so it is, and once the Writable has drained
\* the pipe goes on with what is in the buffer.
Piping ==
  /\ []AwaitsADrain
  /\ StopsWhenFull
  /\ (state.awaitDrain > 0) ~> (state.buffer = << >> \/ meddled)
=============================================================================
