------------------------------ MODULE Writable ------------------------------
(***************************************************************************)
(* The Writable of require('stream') (_stream_writable.js on               *)
(* internal/streams/destroy.js), with the program that writes to it and    *)
(* the sink its _write or _writev is: the sink answers before it returns   *)
(* or in a later task, well or with an error.                              *)
(*                                                                         *)
(* JavaScript runs one task at a time, but a task enters the program's     *)
(* code wherever the stream emits an event or calls a callback, and that   *)
(* code may call the stream again: "todo" holds what the running task has  *)
(* still to do, the innermost call first.  The program listens to "error", *)
(* and to each event with one listener: emit() calls no others.            *)
(*                                                                         *)
(* process.nextTick(f, ...args) calls f with one array (process/core.js).  *)
(* A deferred callback of a write bears that; afterWrite, finishMaybe,     *)
(* callFinal and the functions that emit after destroy() throw on it       *)
(* before they change anything, so they leave no trace here.  end(chunk)   *)
(* is write(chunk), then end().                                            *)
(***************************************************************************)
EXTENDS Naturals, Sequences, FiniteSets, Functions

CONSTANTS MaxWrites, \* bound: calls of write()
          Lens,      \* lengths of chunks
          MaxCorks,  \* bound: nested cork()s
          Options    \* options a Writable is constructed with

VARIABLES
  options,  \* highWaterMark, autoDestroy, and whether it has _writev and _final
  state,    \* _writableState
  todo,     \* what is left of the running task, the innermost call first
  ticks,    \* the calls of callbacks process.nextTick() has scheduled
  chunks,   \* history: the length of every chunk written
  accepted, \* history: the chunks write() accepted, in order
  given,    \* history: the chunks handed to the sink, in order
  answered, \* history: the chunks it answered for or a failure settled
  called,   \* history: the chunks whose callback was called, in order
  sink      \* history: it failed, it answered at once, "finish" events

vars == <<options, state, todo, ticks, chunks, accepted, given, answered, called, sink>>

WritableAssumption ==
  /\ MaxWrites \in Nat /\ Lens \subseteq Nat /\ MaxCorks \in Nat
  /\ Options \subseteq [highWaterMark : Nat, autoDestroy : BOOLEAN,
                        writev : BOOLEAN, final : BOOLEAN]
ASSUME WritableAssumption

Ids == 1..Len(chunks)

\* The callback of the write in progress: of one chunk, or of all that _writev got.
None == [ids |-> << >>, writev |-> FALSE]

Init ==
  /\ options \in Options
  /\ state = [length |-> 0, buffer |-> << >>, writecb |-> None, writelen |-> 0,
              corked |-> 0, bufferProcessing |-> FALSE, pendingcb |-> 0,
              needDrain |-> FALSE, ending |-> FALSE, prefinished |-> FALSE,
              finalCalled |-> FALSE, finished |-> FALSE, destroyed |-> FALSE]
  /\ todo = << >> /\ ticks = << >>
  /\ chunks = << >> /\ accepted = << >> /\ given = << >> /\ answered = {} /\ called = << >>
  /\ sink = [failed |-> FALSE, sync |-> FALSE, finishes |-> 0]

history == <<chunks, accepted, given, answered, called, sink>>

-----------------------------------------------------------------------------
(* The running task.                                                       *)

Do(op)         == [op |-> op, ids |-> << >>, writev |-> FALSE, finished |-> FALSE]
Calls(cb)      == [Do("callbacks") EXCEPT !.ids = cb.ids, !.writev = cb.writev]
AfterWrite(cb, fin) == [Do("afterWrite") EXCEPT !.ids = cb.ids, !.writev = cb.writev, !.finished = fin]

InProgram == todo # << >> => todo[1].op = "program"
At(op)    == todo # << >> /\ todo[1].op = op
Then(ops) == todo' = ops \o Tail(todo)
Call(ops) == todo' = ops \o todo

\* A listener or a callback of the program returns.
Return == At("program") /\ Then(<< >>) /\ UNCHANGED <<options, state, ticks, history>>

-----------------------------------------------------------------------------
(* Writing.                                                                *)

Writing(s)  == s.writecb # None
DoWrite(s, ids, writev, len) ==
  [s EXCEPT !.writecb = [ids |-> ids, writev |-> writev], !.writelen = len]

\* Fault: nothing is taken from the buffer after end().
ClearBeforeEnd(s) == ~Writing(s) /\ s.corked = 0 /\ ~s.bufferProcessing /\ s.buffer # << >> /\ ~s.ending

\* The condition of uncork() and of onwrite() for calling clearBuffer().
MustClear(s) == ~Writing(s) /\ s.corked = 0 /\ ~s.bufferProcessing /\ s.buffer # << >>

\* Fault: cork() does not hold back a chunk.
BufferUncorked(s) == Writing(s)

\* writeOrBuffer() queues a chunk behind the write in progress, or while corked.
MustBuffer(s) == Writing(s) \/ s.corked > 0

Write(len) ==
  /\ InProgram /\ Len(chunks) < MaxWrites /\ ~state.ending
  /\ LET id == Len(chunks) + 1
         s  == [state EXCEPT !.length = @ + len, !.pendingcb = @ + 1,
                  !.needDrain = @ \/ state.length + len >= options.highWaterMark]
     IN IF MustBuffer(state)
        THEN state' = [s EXCEPT !.buffer = Append(@, id)] /\ UNCHANGED todo
        ELSE state' = DoWrite(s, <<id>>, FALSE, len) /\ Call(<<Do("_write")>>)
  /\ chunks' = Append(chunks, len)
  /\ accepted' = Append(accepted, Len(chunks) + 1)
  /\ UNCHANGED <<options, ticks, given, answered, called, sink>>

\* write() after end(), or of an invalid chunk: an error now, the callback in a tick.
WriteRefused ==
  /\ InProgram /\ Len(chunks) < MaxWrites
  /\ chunks' = Append(chunks, 0)
  /\ Call(<<Do("error"), [Do("nextTick") EXCEPT !.ids = <<Len(chunks) + 1>>]>>)
  /\ UNCHANGED <<options, state, ticks, accepted, given, answered, called, sink>>

NextTick ==
  /\ At("nextTick")
  /\ ticks' = Append(ticks, Calls(todo[1]))
  /\ Then(<< >>)
  /\ UNCHANGED <<options, state, history>>

Cork ==
  /\ InProgram /\ state.corked < MaxCorks
  /\ state' = [state EXCEPT !.corked = @ + 1]
  /\ UNCHANGED <<options, todo, ticks, history>>

Uncork ==
  /\ InProgram /\ state.corked > 0
  /\ state' = [state EXCEPT !.corked = @ - 1]
  /\ IF MustClear(state') THEN Call(<<Do("clearBuffer")>>) ELSE UNCHANGED todo
  /\ UNCHANGED <<options, ticks, history>>

\* clearBuffer(): everything at once with _writev, or the next chunk of the loop.
ClearBuffer ==
  /\ At("clearBuffer")
  /\ LET all == options.writev /\ Len(state.buffer) > 1
         ids == IF all THEN state.buffer ELSE <<Head(state.buffer)>>
         len == IF all THEN state.length ELSE chunks[ids[1]]
     IN /\ state' = [DoWrite(state, ids, all, len) EXCEPT !.bufferProcessing = TRUE]
        /\ Then(<<Do("_write"), Do(IF all THEN "written" ELSE "next")>>)
  /\ UNCHANGED <<options, ticks, history>>

\* Fault: afterWrite() is not counted, and uncounts all the same.
Uncounted(s) == [s EXCEPT !.buffer = << >>, !.bufferProcessing = FALSE]

\* After _writev: the whole queue is dropped, what was added meanwhile with it.
QueueDropped(s) == [s EXCEPT !.pendingcb = @ + 1, !.buffer = << >>, !.bufferProcessing = FALSE]

Written ==
  /\ At("written")
  /\ state' = QueueDropped(state)
  /\ Then(<< >>)
  /\ UNCHANGED <<options, ticks, history>>

\* The loop goes on while the sink answers at once.
NextEntry ==
  /\ At("next")
  /\ LET rest == Tail(state.buffer)
         s    == [state EXCEPT !.buffer = rest]
     IN IF rest # << >> /\ ~Writing(state)
        THEN /\ state' = DoWrite(s, <<Head(rest)>>, FALSE, chunks[Head(rest)])
             /\ Then(<<Do("_write"), Do("next")>>)
        ELSE state' = [s EXCEPT !.bufferProcessing = FALSE] /\ Then(<< >>)
  /\ UNCHANGED <<options, ticks, history>>

-----------------------------------------------------------------------------
(* The sink's answers.                                                     *)

NeedFinish(s) == s.ending /\ s.length = 0 /\ s.buffer = << >> /\ ~s.finished /\ ~Writing(s)

StateUpdate(s) == [s EXCEPT !.writecb = None, !.length = @ - s.writelen, !.writelen = 0]

\* Nothing is handed to the sink of a destroyed stream: the write fails.
Handed == IF state.destroyed THEN given ELSE given \o state.writecb.ids

\* _write returns and will answer later.
SinkTakes ==
  /\ At("_write") /\ ~state.destroyed
  /\ given' = Handed
  /\ Then(<< >>)
  /\ UNCHANGED <<options, state, ticks, chunks, accepted, answered, called, sink>>

\* The callback comes before _write returns: afterWrite is put off to a tick and lost.
SinkAnswersAtOnce ==
  /\ At("_write") /\ ~state.destroyed
  /\ state' = StateUpdate(state)
  /\ given' = Handed
  /\ answered' = answered \cup Range(state.writecb.ids)
  /\ sink' = [sink EXCEPT !.sync = TRUE]
  /\ Then(IF ~NeedFinish(state') /\ MustClear(state') THEN <<Do("clearBuffer")>> ELSE << >>)
  /\ UNCHANGED <<options, ticks, chunks, accepted, called>>

SinkFailsAtOnce ==
  /\ At("_write")
  /\ state' = [StateUpdate(state) EXCEPT !.pendingcb = @ - 1]
  /\ given' = Handed
  /\ answered' = answered \cup Range(state.writecb.ids)
  /\ sink' = [sink EXCEPT !.failed = TRUE]
  /\ ticks' = Append(ticks, Calls(state.writecb))
  /\ Then(<<Do("error")>>)
  /\ UNCHANGED <<options, chunks, accepted, called>>

\* onwrite() in a task of its own; "finished" is computed before the buffer is cleared.
SinkAnswers ==
  /\ todo = << >> /\ Writing(state)
  /\ state' = StateUpdate(state)
  /\ answered' = answered \cup Range(state.writecb.ids)
  /\ LET finished == NeedFinish(state') \/ state.destroyed
         after    == <<AfterWrite(state.writecb, finished)>>
     IN todo' = IF ~finished /\ MustClear(state') THEN <<Do("clearBuffer")>> \o after ELSE after
  /\ UNCHANGED <<options, ticks, chunks, accepted, given, called, sink>>

\* The buffer is not cleared after an error.
SinkFails ==
  /\ todo = << >> /\ Writing(state)
  /\ state' = [StateUpdate(state) EXCEPT !.pendingcb = @ - 1]
  /\ answered' = answered \cup Range(state.writecb.ids)
  /\ sink' = [sink EXCEPT !.failed = TRUE]
  /\ todo' = <<Calls(state.writecb), Do("error"), Do("finishMaybe")>>
  /\ UNCHANGED <<options, ticks, chunks, accepted, given, called>>

\* afterWrite(): "drain" if all is written and write() said false, then the callback.
Drains(frame) == ~frame.finished /\ state.length = 0 /\ state.needDrain

AfterDrain ==
  /\ At("afterWrite")
  /\ state' = IF Drains(todo[1]) THEN [state EXCEPT !.needDrain = FALSE] ELSE state
  /\ Then((IF Drains(todo[1]) THEN <<Do("program")>> ELSE << >>)
          \o <<[todo[1] EXCEPT !.op = "callback"]>>)
  /\ UNCHANGED <<options, ticks, history>>

AfterCallback ==
  /\ At("callback")
  /\ state' = [state EXCEPT !.pendingcb = @ - 1]
  /\ Then(<<Calls(todo[1]), Do("finishMaybe")>>)
  /\ UNCHANGED <<options, ticks, history>>

\* cb(), or onCorkedFinish(), which counts and calls one callback after the other.
CallNext ==
  /\ At("callbacks")
  /\ IF todo[1].ids = << >>
     THEN Then(<< >>) /\ UNCHANGED <<state, called>>
     ELSE /\ called' = Append(called, Head(todo[1].ids))
          /\ state' = IF todo[1].writev THEN [state EXCEPT !.pendingcb = @ - 1] ELSE state
          /\ Then(<<Do("program"), [todo[1] EXCEPT !.ids = Tail(@)]>>)
  /\ UNCHANGED <<options, ticks, chunks, accepted, given, answered, sink>>

\* A task of process.nextTick(): callback([er]).
Tick ==
  /\ todo = << >> /\ ticks # << >>
  /\ todo' = <<Head(ticks)>>
  /\ ticks' = Tail(ticks)
  /\ UNCHANGED <<options, state, history>>

-----------------------------------------------------------------------------
(* End, errors and destruction.                                            *)

\* end() uncorks all the way first.
End ==
  /\ InProgram
  /\ state' = [state EXCEPT !.corked = 0]
  /\ Call((IF state.corked > 0 /\ MustClear(state') THEN <<Do("clearBuffer")>> ELSE << >>)
          \o <<Do("endWritable")>>)
  /\ UNCHANGED <<options, ticks, history>>

EndWritable ==
  /\ At("endWritable")
  /\ state' = [state EXCEPT !.ending = TRUE]
  /\ Then(IF state.ending THEN << >> ELSE <<Do("finishMaybe")>>)
  /\ UNCHANGED <<options, ticks, history>>

\* prefinish(): _final is put off to a tick, and lost; without it, "prefinish".
FinishMaybe ==
  /\ At("finishMaybe")
  /\ LET needed == NeedFinish(state) /\ ~state.prefinished /\ ~state.finalCalled
         final  == options.final /\ ~state.destroyed
     IN /\ state' = IF ~needed THEN state
                    ELSE IF final THEN [state EXCEPT !.pendingcb = @ + 1, !.finalCalled = TRUE]
                    ELSE [state EXCEPT !.prefinished = TRUE]
        /\ Then(IF needed /\ ~final THEN <<Do("program"), Do("finish")>>
                ELSE IF NeedFinish(state) THEN <<Do("finish")>> ELSE << >>)
  /\ UNCHANGED <<options, ticks, history>>

\* Fault: the callbacks still to come do not hold "finish" back.
FinishAtOnce(s) == s.prefinished

FinishReady(s) == s.pendingcb = 0

Finish ==
  /\ At("finish")
  /\ IF FinishReady(state)
     THEN /\ state' = [state EXCEPT !.finished = TRUE]
          /\ sink' = [sink EXCEPT !.finishes = @ + 1]
          /\ Then(<<Do("program"), Do("finished")>>)
     ELSE Then(<< >>) /\ UNCHANGED <<state, sink>>
  /\ UNCHANGED <<options, ticks, chunks, accepted, given, answered, called>>

Finished ==
  /\ At("finished")
  /\ state' = [state EXCEPT !.destroyed = @ \/ options.autoDestroy]
  /\ Then(<< >>)
  /\ UNCHANGED <<options, ticks, history>>

\* errorOrDestroy(): destroy() tells nobody, its events are put off and lost.
Error ==
  /\ At("error")
  /\ IF options.autoDestroy
     THEN state' = [state EXCEPT !.destroyed = TRUE] /\ Then(<< >>)
     ELSE UNCHANGED state /\ Then(<<Do("program")>>)
  /\ UNCHANGED <<options, ticks, history>>

Destroy ==
  /\ InProgram
  /\ state' = [state EXCEPT !.destroyed = TRUE]
  /\ UNCHANGED <<options, todo, ticks, history>>

Program == (\E len \in Lens : Write(len)) \/ WriteRefused \/ Cork \/ Uncork \/ End \/ Destroy
Library == \/ NextTick \/ ClearBuffer \/ Written \/ NextEntry \/ AfterDrain \/ AfterCallback \/ CallNext
           \/ EndWritable \/ FinishMaybe \/ Finish \/ Finished \/ Error
Sink    == SinkTakes \/ SinkAnswersAtOnce \/ SinkFailsAtOnce \/ SinkAnswers \/ SinkFails

Next == Program \/ Return \/ Library \/ Sink \/ Tick

\* The sink answers every write, listeners return, and scheduled tasks are run: the
\* program cannot keep the server's thread from its other tasks for ever.
Fairness ==
  /\ WF_vars(Library) /\ SF_vars(Return) /\ SF_vars(Tick)
  /\ WF_vars(SinkTakes \/ SinkAnswersAtOnce \/ SinkFailsAtOnce)
  /\ SF_vars(SinkAnswers \/ SinkFails)

Spec == Init /\ [][Next]_vars /\ Fairness

-----------------------------------------------------------------------------
(* Properties.                                                             *)

Frames == {"program", "_write", "written", "next", "clearBuffer", "afterWrite", "callback",
           "callbacks", "nextTick", "endWritable", "finishMaybe", "finish", "finished", "error"}

\* The state has its type: counters of corks and callbacks never drop below zero.
TypeOK ==
  /\ options \in Options
  /\ state.pendingcb \in Nat /\ state.corked \in 0..MaxCorks
  /\ state.buffer \in Seq(Ids) /\ state.writecb.ids \in Seq(Ids)
  /\ \A i \in DOMAIN todo : todo[i].op \in Frames /\ todo[i].ids \in Seq(Ids)
  /\ \A i \in DOMAIN ticks : ticks[i].ids \in Seq(Ids)
  /\ accepted \in Seq(Ids) /\ Range(given) \subseteq Range(accepted)

\* The length of the chunks with these ids.
TotalLen(lens, ids) ==
  LET sum[n \in 0..Len(ids)] == IF n = 0 THEN 0 ELSE sum[n - 1] + lens[ids[n]]
  IN sum[Len(ids)]

\* Until a write fails, length counts what lies in the buffer or with the sink, so that
\* write() and "drain" tell the program the truth about highWaterMark; it never
\* drops below zero.
LengthAccounted ==
  /\ state.length \in Nat
  /\ ~sink.failed /\ ~(\E i \in DOMAIN todo : todo[i].op \in {"written", "next"})
    => state.length = TotalLen(chunks, state.buffer \o state.writecb.ids)

\* No callback is ever called twice, and until a write fails the callbacks of accepted
\* writes come in the order of the writes.
CallbacksInOrder ==
  /\ IsInjective(called)
  /\ ~sink.failed => \A m, n \in DOMAIN called :
        m < n /\ {called[m], called[n]} \subseteq Range(accepted) => called[m] < called[n]

\* "finish" comes once, when every accepted write's callback was called or, as its write
\* failed at once, is scheduled.
FinishAfterCallbacks ==
  /\ sink.finishes <= 1
  /\ state.finished => \A i \in Range(accepted) :
        \/ i \in Range(called)
        \/ \E k \in DOMAIN ticks : i \in Range(ticks[k].ids)
        \/ \E k \in DOMAIN todo : i \in Range(todo[k].ids)

\* onwriteStateUpdate and needFinish (_stream_writable.js:390, 525): the length and the
\* callbacks tell the truth about the writes.
WritesAccounted == LengthAccounted /\ CallbacksInOrder /\ FinishAfterCallbacks

\* The buffer, the corks and the callbacks keep the promise of OrderedWriter.
OW == INSTANCE OrderedWriter WITH Ids <- 1..MaxWrites,
        failed <- sink.failed, ended <- state.ending, finished <- state.finished
Promise == OW!Spec

\* A sink that answers every write in a later task, and well, gets everything: "drain"
\* follows a write() that said false, and "finish" follows end(), unless the program
\* destroys the stream, leaves it corked, or gave it a _final.
Orderly   == ~sink.sync /\ ~sink.failed /\ (~state.destroyed \/ state.finished)
Completes == [](Orderly /\ ~options.final) /\ []<>(state.corked = 0) =>
  /\ state.needDrain ~> (~state.needDrain \/ state.ending)
  /\ state.ending ~> state.finished
=============================================================================
