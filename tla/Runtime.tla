------------------------------- MODULE Runtime --------------------------------
(***************************************************************************)
(* The server's main thread as the runtime uses it: the Java emitter       *)
(* (EventEmitter.java), the isolate's task that emits "tick" every period  *)
(* (CauldronIsolate.initialize) and the timers of scripts (timers.js),     *)
(* which are the server's tasks. A stack holds what the thread is doing; a *)
(* handler, a timer's callback or, when it is empty, any other code may    *)
(* call the emitter and the timers.                                        *)
(***************************************************************************)
EXTENDS Integers, Sequences, FiniteSets, SequencesExt

CONSTANTS Events, Tick,     \* event names; the one the task of the isolate emits
          Timers,           \* the timers a script can set, in this order
          Delays, Period,   \* their delays; the period of the tick task
          MaxFrames,        \* bound: handlers registered
          MaxDepth          \* bound: nested emissions

ASSUME RuntimeAssumption ==
  /\ Tick \in Events /\ IsFiniteSet(Events) /\ Timers \subseteq Nat \ {0} /\ IsFiniteSet(Timers)
  /\ Delays \subseteq Nat /\ Period \in Nat \ {0} /\ MaxFrames \in Nat /\ MaxDepth \in Nat \ {0}

VARIABLES handlers,   \* handlers: event -> the list it has, 0 for none
          lists,      \* the lists: attached or still walked by an emission
          made,       \* how many frames were made
          spent,      \* once frames whose handler returned
          stack,      \* what the thread runs, innermost last
          tasks,      \* the server's tasks: 0 is the tick task
          ref,        \* _ref of a timer: "null", "ref", or "undefined" once deleted
          cleared     \* timers whose clear cancelled the task

emitter == <<handlers, lists, made, spent>>
timers == <<tasks, ref, cleared>>
vars == <<emitter, stack, timers>>

Lists == 1..(Cardinality(Events) + MaxDepth)
None == [state |-> "none", left |-> 0, period |-> 0]

Init ==
  /\ handlers = [e \in Events |-> 0]
  /\ lists = [l \in Lists |-> << >>]
  /\ made = 0 /\ spent = {}
  /\ stack = << >>
  /\ tasks = [t \in Timers \cup {0} |->
                IF t = 0 THEN [state |-> "queued", left |-> Period, period |-> Period] ELSE None]
  /\ ref = [t \in Timers |-> "null"] /\ cleared = {}

\* The thread is in a handler or in a callback, or runs other code of the server.
Top == stack[Len(stack)]
InCode == stack = << >> \/ (stack # << >> /\ Top.running)
Depth == Cardinality({i \in DOMAIN stack : stack[i].kind = "emit"})

-----------------------------------------------------------------------------
(* EventEmitter.java.                                                      *)

\* A list that changes fails the iterators which walk it.
Changed(l) == [i \in DOMAIN stack |-> IF stack[i].kind = "emit" /\ stack[i].list = l
                                      THEN [stack[i] EXCEPT !.changed = TRUE] ELSE stack[i]]
Walked(l) == \E i \in DOMAIN stack : stack[i].kind = "emit" /\ stack[i].list = l
Free(l) == ~Walked(l) /\ \A e \in Events : handlers[e] # l
NewList == CHOOSE l \in Lists : Free(l) /\ \A k \in Lists : Free(k) => l <= k

\* Put a frame into the event's list, which is made when there is none.
Add(e, once, first) ==
  LET l == IF handlers[e] = 0 THEN NewList ELSE handlers[e]
      frame == [id |-> made + 1, once |-> once]
      old == IF handlers[e] = 0 THEN << >> ELSE lists[l]
  IN /\ InCode /\ made < MaxFrames
     /\ handlers' = [handlers EXCEPT ![e] = l]
     /\ lists' = [lists EXCEPT ![l] = IF first THEN <<frame>> \o old ELSE Append(old, frame)]
     /\ made' = made + 1
     /\ stack' = Changed(l)
     /\ UNCHANGED <<spent, timers>>
on(e) == Add(e, FALSE, FALSE)
once(e) == Add(e, TRUE, FALSE)
prependListener(e) == Add(e, FALSE, TRUE)

\* The lists are let go, not emptied: an emission goes on with the one it walks.
Detach(es) ==
  /\ InCode /\ \E e \in es : handlers[e] # 0
  /\ handlers' = [e \in Events |-> IF e \in es THEN 0 ELSE handlers[e]]
  /\ lists' = [l \in Lists |-> IF Walked(l) \/ \E e \in Events \ es : handlers[e] = l
                               THEN lists[l] ELSE << >>]
  /\ UNCHANGED <<made, spent, stack, timers>>
removeAllListeners(es) == Detach(es)

\* emit starts: an iterator over the event's list.
Emission(e) == [kind |-> "emit", id |-> 0, list |-> handlers[e], start |-> lists[handlers[e]],
                called |-> << >>, changed |-> FALSE, running |-> FALSE]
emit(e) ==
  /\ InCode /\ Depth < MaxDepth /\ handlers[e] # 0
  /\ stack' = Append(stack, Emission(e))
  /\ UNCHANGED <<emitter, timers>>

\* hasNext compares the cursor with the size; next throws when the list has changed.
HasNextButLast(m) == Len(m.called) + 1 < Len(lists[m.list])
HasNext(m) == Len(m.called) # Len(lists[m.list])
MayGoOnUnchecked(m) == Len(m.called) < Len(lists[m.list])
MayGoOn(m) == HasNext(m) /\ ~m.changed
InEmit == stack # << >> /\ Top.kind = "emit" /\ ~Top.running
Call ==
  /\ InEmit /\ MayGoOn(Top)
  /\ stack' = [stack EXCEPT ![Len(stack)].running = TRUE,
                            ![Len(stack)].called = Append(@, lists[Top.list][Len(@) + 1])]
  /\ UNCHANGED <<emitter, timers>>

\* The emission is over: its list is let go when nothing else holds it.
Dropped(l) == [lists EXCEPT ![l] = IF (\E e \in Events : handlers[e] = l)
                                      \/ (\E i \in 1..(Len(stack) - 1) : stack[i].kind = "emit" /\ stack[i].list = l)
                                   THEN @ ELSE << >>]
EmitEnds ==
  /\ InEmit /\ ~HasNext(Top)
  /\ lists' = Dropped(Top.list)
  /\ stack' = Front(stack)
  /\ UNCHANGED <<handlers, made, spent, timers>>

\* ConcurrentModificationException leaves emit; the handler around it catches it, or
\* passes it on to the emission or to the task that called it, which catch everything.
EmitThrows ==
  LET outer == Front(stack)
  IN /\ InEmit /\ HasNext(Top) /\ Top.changed
     /\ lists' = Dropped(Top.list)
     /\ \/ stack' = outer /\ UNCHANGED tasks
        \/ /\ outer # << >> /\ outer[Len(outer)].kind = "emit"
           /\ stack' = [outer EXCEPT ![Len(outer)].running = FALSE] /\ UNCHANGED tasks
     /\ UNCHANGED <<handlers, made, spent, ref, cleared>>

\* The handler returns: a once frame leaves the list it was found on.
Return ==
  LET frame == Top.called[Len(Top.called)]
      removes == frame.once /\ frame \in ToSet(lists[Top.list])
      after == IF removes THEN Changed(Top.list) ELSE stack
  IN /\ stack # << >> /\ Top.kind = "emit" /\ Top.running
     /\ lists' = [lists EXCEPT ![Top.list] = IF removes THEN RemoveFirst(@, frame) ELSE @]
     /\ spent' = IF frame.once THEN spent \cup {frame.id} ELSE spent
     /\ stack' = [after EXCEPT ![Len(stack)].running = FALSE]
     /\ UNCHANGED <<handlers, made, timers>>

\* The handler throws: the exception is dropped, and a once frame stays.
Throw ==
  /\ stack # << >> /\ Top.kind = "emit" /\ Top.running
  /\ stack' = [stack EXCEPT ![Len(stack)].running = FALSE]
  /\ UNCHANGED <<emitter, timers>>

-----------------------------------------------------------------------------
(* timers.js, and the server's scheduler as PaperCauldron calls it.        *)

\* scheduleTask and scheduleRepeatingTask: the timer's arguments are not passed on.
Schedule(t, delay, period) ==
  /\ InCode /\ tasks[t].state = "none" /\ (\A u \in Timers : u < t => tasks[u].state # "none")
  /\ tasks' = [tasks EXCEPT ![t] = [state |-> "queued", left |-> delay, period |-> period]]
  /\ UNCHANGED <<emitter, stack, ref, cleared>>
setImmediate(t) == Schedule(t, 0, 0)
setTimeout(t, delay) == delay > 0 /\ Schedule(t, delay, 0)
setInterval(t, delay) == delay > 0 /\ Schedule(t, delay, delay)

Ref(t) ==
  /\ InCode /\ tasks[t].state # "none" /\ ref[t] # "ref"
  /\ ref' = [ref EXCEPT ![t] = "ref"]
  /\ UNCHANGED <<emitter, stack, tasks, cleared>>

\* clearTimeout, clearInterval, clearImmediate: nothing happens without a ref().
NotCancelled(t) == [tasks EXCEPT ![t].state = IF @ = "running" THEN @ ELSE "cancelled"]
Cancelled(t) == [tasks EXCEPT ![t].state = "cancelled"]
unref(t) ==
  /\ InCode /\ ref[t] = "ref"
  /\ tasks' = IF tasks[t].state \in {"queued", "running"} THEN Cancelled(t) ELSE tasks
  /\ ref' = [ref EXCEPT ![t] = "undefined"]
  /\ cleared' = cleared \cup {t}
  /\ UNCHANGED <<emitter, stack>>

\* The scheduler runs what is due in the order of the tasks, then waits for a tick.
DueLate == {t \in DOMAIN tasks : tasks[t].state = "queued" /\ tasks[t].left < 0}
Due == {t \in DOMAIN tasks : tasks[t].state = "queued" /\ tasks[t].left = 0}
Heartbeat ==
  /\ stack = << >> /\ Due = {}
  /\ \E t \in DOMAIN tasks : tasks[t].state = "queued"
  /\ tasks' = [t \in DOMAIN tasks |-> IF tasks[t].state = "queued"
                                      THEN [tasks[t] EXCEPT !.left = @ - 1] ELSE tasks[t]]
  /\ UNCHANGED <<emitter, stack, ref, cleared>>

\* The tick task emits; a timer's task calls its callback.
Running(t) == [kind |-> "task", id |-> t, list |-> 0, start |-> << >>, called |-> << >>,
               changed |-> FALSE, running |-> TRUE]
RunTask ==
  LET t == CHOOSE x \in Due : \A y \in Due : x <= y
  IN /\ stack = << >> /\ Due # {}
     /\ tasks' = [tasks EXCEPT ![t].state = "running"]
     /\ stack' = IF t # 0 THEN <<Running(t)>>
                 ELSE IF handlers[Tick] = 0 THEN <<[Running(0) EXCEPT !.running = FALSE]>>
                 ELSE <<[Running(0) EXCEPT !.running = FALSE], Emission(Tick)>>
     /\ UNCHANGED <<emitter, ref, cleared>>

\* The callback returns or throws; the server logs what it threw.
TaskEnds ==
  LET task == tasks[Top.id]
  IN /\ stack # << >> /\ Top.kind = "task"
     /\ tasks' = [tasks EXCEPT ![Top.id] =
                    CASE task.state = "cancelled"                    -> task
                      [] task.state = "running" /\ task.period > 0 -> [task EXCEPT !.state = "queued", !.left = task.period]
                      [] task.state = "running" /\ task.period = 0 -> [task EXCEPT !.state = "done"]]
     /\ stack' = Front(stack)
     /\ UNCHANGED <<emitter, ref, cleared>>

-----------------------------------------------------------------------------
Emitting == Call \/ EmitEnds \/ EmitThrows
Handler == Return \/ Throw
Scheduler == Heartbeat \/ RunTask \/ TaskEnds
Next ==
  \/ \E e \in Events : on(e) \/ once(e) \/ prependListener(e) \/ removeAllListeners({e}) \/ emit(e)
  \/ removeAllListeners(Events)
  \/ \E t \in Timers : \/ setImmediate(t) \/ Ref(t) \/ unref(t)
                       \/ \E d \in Delays : setTimeout(t, d) \/ setInterval(t, d)
  \/ Emitting \/ Handler \/ Scheduler

\* Every handler, every callback and what else runs on the thread ends, and the server ticks.
Fairness == WF_vars(Emitting) /\ (\A d \in 1..(MaxDepth + 1) : SF_vars(Len(stack) = d /\ Handler))
            /\ SF_vars(Heartbeat \/ RunTask) /\ SF_vars(TaskEnds)
Spec == Init /\ [][Next]_vars /\ Fairness

-----------------------------------------------------------------------------
Frames == [id : 1..MaxFrames, once : BOOLEAN]
TypeOK ==
  /\ handlers \in [Events -> {0} \cup Lists]
  /\ \A l \in Lists : ToSet(lists[l]) \subseteq Frames /\ IsInjective(lists[l])
  /\ made \in 0..MaxFrames /\ spent \subseteq 1..made
  /\ Depth <= MaxDepth
  /\ \A i \in DOMAIN stack : stack[i].kind = "emit" => stack[i].list \in Lists
  /\ \A i \in DOMAIN stack : stack[i].kind = "task" => i = 1
  /\ \A t \in DOMAIN tasks : tasks[t].state \in {"none", "queued", "running", "done", "cancelled"}
  /\ \A t \in DOMAIN tasks : tasks[t].left \in Int /\ tasks[t].left >= 0
  /\ ref \in [Timers -> {"null", "ref", "undefined"}] /\ cleared \subseteq Timers

\* emit (EventEmitter.java:80): whatever handlers add, remove or emit meanwhile, an emission
\* has called a prefix of the handlers there were when it began, none of them twice and
\* none that came later; and a once handler that returned is on no list any more.
CallsAPrefix ==
  /\ \A i \in DOMAIN stack : stack[i].kind = "emit" => IsPrefix(stack[i].called, stack[i].start)
  /\ \A l \in Lists : \A i \in DOMAIN lists[l] : lists[l][i].id \notin spent

\* unref (timers.js:31): a timer cleared after a ref() never calls its callback again, the
\* clear made by its own callback included.
ClearedIsSilent == \A t \in cleared : tasks[t].state \in {"cancelled", "done"}

\* The scheduler (PaperCauldron.java:80, CauldronIsolate.java:114): a timer that is set
\* runs or is cleared, and a handler of "tick" is called again or its list removed: an
\* emission that a change of the list cuts short is made up for by a later tick.
Registered(n) == handlers[Tick] # 0 /\ \E i \in DOMAIN lists[handlers[Tick]] : lists[handlers[Tick]][i].id = n
BeingCalled(n) == stack # << >> /\ Top.kind = "emit" /\ Top.running /\ Top.called[Len(Top.called)].id = n
TickReachesAll ==
  /\ \A n \in 1..MaxFrames : Registered(n) ~> (BeingCalled(n) \/ ~Registered(n))
  /\ \A t \in Timers : (tasks[t].state = "queued") ~> (tasks[t].state # "queued")
=============================================================================
