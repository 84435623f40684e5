---------------------------- MODULE EventEmitter ----------------------------
(***************************************************************************)
(* One EventEmitter (lib/internal/events.js) and the JavaScript that uses  *)
(* it.  Everything runs on one thread, but a listener runs in the middle   *)
(* of the operation that called it and may itself use the emitter, so the  *)
(* operations in progress form a stack of frames:                          *)
(*   invoke    - Reflect.apply is about to call listener e for type t      *)
(*   fire      - onceWrapper has removed itself and not yet called on      *)
(*   body      - the registered function is running                        *)
(*   clear     - removeAllListeners(t) walks the array it found, downwards *)
(*   clearAll  - removeAllListeners() walks the keys it found              *)
(* The program (empty stack) or the running function may start any         *)
(* operation; an unfinished frame of the other kinds takes its next step.  *)
(***************************************************************************)
EXTENDS EmitterOps

CONSTANTS MaxOnce,   \* bound: how many times once() is called
          MaxSlot,   \* bound: listeners per type
          MaxDepth,  \* bound: frames in progress
          MaxDrift   \* bound: decrements for absent types

ASSUME BoundsAssumption == {MaxOnce, MaxSlot, MaxDepth, MaxDrift} \subseteq Nat

VARIABLES em,     \* the emitter
          stack,  \* the frames in progress, the innermost last
          used,   \* history: once() wrappers made so far
          fired,  \* the wrappers whose state.fired is set
          runs    \* history: how often each wrapper called its function

vars == <<em, stack, used, fired, runs>>

Onces   == 1..MaxOnce
Entries == [fn : Handlers, id : 0..MaxOnce]

Body         == [k |-> "body"]
Invoke(t, e) == [k |-> "invoke", t |-> t, e |-> e]
Fire(e)      == [k |-> "fire", e |-> e]
\* live: the array is still the one in the table, es holds it otherwise
Clear(t, i)  == [k |-> "clear", t |-> t, i |-> i, live |-> TRUE, es |-> << >>]
ClearAll(ks) == [k |-> "clearAll", keys |-> ks, last |-> FALSE]

Top       == stack[Len(stack)]
Below     == Front(stack)
TopIs(k)  == stack # << >> /\ Top.k = k
UserCode  == stack # << >> => Top.k = "body"
CanPush   == Len(stack) + 2 <= MaxDepth

Init ==
  /\ em = NewEmitter
  /\ stack = << >>
  /\ used = 0
  /\ fired = {}
  /\ runs = [o \in Onces |-> 0]

-----------------------------------------------------------------------------
(* Frames *)

\* An array that leaves the table keeps what was in it for the loops over it.
Rebind(frames, new) ==
  [j \in DOMAIN frames |->
     LET f == frames[j] IN
     IF f.k = "clear" /\ f.live /\ new.slot[f.t].kind # "list"
     THEN [f EXCEPT !.live = FALSE,
                    !.es = IF Has(new, f.t) THEN new.slot[f.t].list ELSE em.slot[f.t].list]
     ELSE f]

\* The frames after a removal: a lone 'removeListener' handler is called next.
AfterRemoval(frames, t, l) ==
  LET new  == RemoveListener(em, t, l)
      kept == Rebind(frames, new)
  IN
  IF AnnouncesRemoval(em, t, l) /\ Calls(new, "removeListener")
  THEN Append(kept, Invoke("removeListener", Callee(new, "removeListener")))
  ELSE kept

-----------------------------------------------------------------------------
(* Operations of the program, or of a running listener *)

On(t, f, prepend) ==
  /\ UserCode
  /\ Len(em.slot[t].list) < MaxSlot
  /\ em' = AddListener(em, t, Plain(f), prepend)
  /\ UNCHANGED <<stack, used, fired, runs>>

Once(t, f, prepend) ==
  /\ UserCode
  /\ used < MaxOnce
  /\ Len(em.slot[t].list) < MaxSlot
  /\ used' = used + 1
  /\ em' = AddListener(em, t, [fn |-> f, id |-> used'], prepend)
  /\ UNCHANGED <<stack, fired, runs>>

\* removeListener with the function, or with a wrapper rawListeners() gave out
Off(t, l) ==
  /\ UserCode
  /\ CanPush
  /\ em' = RemoveListener(em, t, l)
  /\ stack' = AfterRemoval(stack, t, l)
  /\ UNCHANGED <<used, fired, runs>>

Emit(t) ==
  /\ UserCode
  /\ CanPush
  /\ Calls(em, t)
  /\ stack' = Append(stack, Invoke(t, Callee(em, t)))
  /\ UNCHANGED <<em, used, fired, runs>>

\* The part of removeAllListeners(t) up to its loop, on top of the given frames.
StartClear(frames, t) ==
  LET slot == em.slot[t] IN
  \/ /\ ~Has(em, "removeListener")
     /\ em' = ClearUnwatched(em, t)
     /\ stack' = Rebind(frames, em')
  \/ /\ Has(em, "removeListener") /\ slot.kind = "fn"
     /\ em' = RemoveListener(em, t, slot.list[1])
     /\ stack' = AfterRemoval(frames, t, slot.list[1])
  \/ /\ Has(em, "removeListener") /\ slot.kind = "list"
     /\ em' = em
     /\ stack' = Append(frames, Clear(t, Len(slot.list)))
  \/ /\ Has(em, "removeListener") /\ slot.kind = "none"
     /\ em' = em
     /\ stack' = frames

RemoveAll(t) ==
  /\ UserCode
  /\ CanPush
  /\ em.present
  /\ em.drift < MaxDrift
  /\ StartClear(stack, t)
  /\ UNCHANGED <<used, fired, runs>>

RemoveAllTypes ==
  /\ UserCode
  /\ CanPush
  /\ em.present
  /\ IF Has(em, "removeListener")
     THEN /\ stack' = Append(stack, ClearAll(Keys(em) \ {"removeListener"}))
          /\ em' = em
     ELSE /\ em' = Wiped
          /\ stack' = Rebind(stack, Wiped)
  /\ UNCHANGED <<used, fired, runs>>

Return ==
  /\ TopIs("body")
  /\ stack' = Below
  /\ UNCHANGED <<em, used, fired, runs>>

\* An exception reaches the program or a running function that catches it.
Unwind ==
  \E n \in 0..(Len(stack) - 1) :
    /\ n # 0 => stack[n].k = "body"
    /\ stack' = SubSeq(stack, 1, n)

Throw ==
  /\ TopIs("body")
  /\ Unwind
  /\ UNCHANGED <<em, used, fired, runs>>

-----------------------------------------------------------------------------
(* Steps of the unfinished operations *)

\* Fault: the wrapper neither takes itself out nor asks whether it has fired.
StepInvokeStaying ==
  /\ TopIs("invoke")
  /\ em' = em
  /\ stack' = Append(Below, IF Top.e.id = 0 THEN Body ELSE Fire(Top.e))
  /\ UNCHANGED <<used, fired, runs>>

\* A function is entered at once; a wrapper takes itself out first, and that
\* may run a 'removeListener' handler before state.fired is set.
StepInvoke ==
  /\ TopIs("invoke")
  /\ LET e == Top.e IN
     IF e.id = 0
     THEN em' = em /\ stack' = Append(Below, Body)
     ELSE IF e.id \in fired
     THEN em' = em /\ stack' = Below
     ELSE /\ em' = RemoveListener(em, Top.t, e)
          /\ stack' = AfterRemoval(Append(Below, Fire(e)), Top.t, e)
  /\ UNCHANGED <<used, fired, runs>>

StepFire ==
  /\ TopIs("fire")
  /\ fired' = fired \cup {Top.e.id}
  /\ runs' = [runs EXCEPT ![Top.e.id] = @ + 1]
  /\ stack' = Append(Below, Body)
  /\ UNCHANGED <<em, used>>

\* The array the loop of a clear frame reads: it may have shrunk meanwhile.
LoopArray(f) == IF f.live THEN em.slot[f.t].list ELSE f.es

\* Reading past the end yields undefined, which removeListener refuses.
StepClear ==
  /\ TopIs("clear")
  /\ LET f == Top
         es == LoopArray(f)
     IN  IF f.i = 0
         THEN em' = em /\ stack' = Below
         ELSE IF f.i > Len(es)
         THEN em' = em /\ Unwind
         ELSE /\ em' = RemoveListener(em, f.t, es[f.i])
              /\ stack' = AfterRemoval(Append(Below, [f EXCEPT !.i = @ - 1]), f.t, es[f.i])
  /\ UNCHANGED <<used, fired, runs>>

StepClearAll ==
  /\ TopIs("clearAll")
  /\ IF Top.last
     THEN em' = Wiped /\ stack' = Rebind(Below, Wiped)
     ELSE IF Top.keys = {}
     THEN StartClear(Append(Below, [Top EXCEPT !.last = TRUE]), "removeListener")
     ELSE \E t \in Top.keys :
            StartClear(Append(Below, [Top EXCEPT !.keys = @ \ {t}]), t)
  /\ UNCHANGED <<used, fired, runs>>

Next ==
  \/ \E t \in Types, f \in Handlers, prepend \in BOOLEAN : On(t, f, prepend)
  \/ \E t \in Types, f \in Handlers, prepend \in BOOLEAN : Once(t, f, prepend)
  \/ \E t \in Types, l \in Entries : Off(t, l)
  \/ \E t \in Types : Emit(t)
  \/ \E t \in Types : RemoveAll(t)
  \/ RemoveAllTypes
  \/ Return
  \/ Throw
  \/ StepInvoke
  \/ StepFire
  \/ StepClear
  \/ StepClearAll

Spec == Init /\ [][Next]_vars

-----------------------------------------------------------------------------
(* Properties *)

Frames ==
  [k : {"body"}]
    \cup [k : {"invoke"}, t : Types, e : Entries]
    \cup [k : {"fire"}, e : [fn : Handlers, id : Onces]]
    \cup [k : {"clear"}, t : Types, i : Nat, live : BOOLEAN, es : Seq(Entries)]
    \cup [k : {"clearAll"}, keys : SUBSET Types, last : BOOLEAN]

\* The emitter, the frames and the histories have their types, and
\* _eventsCount never counts more types than there are.
TypeOK ==
  /\ em \in EmitterType(Entries)
  /\ em.count <= Cardinality(Types)
  /\ stack \in Seq(Frames)
  /\ used \in 0..MaxOnce
  /\ fired \subseteq Onces
  /\ runs \in [Onces -> Nat]

\* emit() tells one listener from several by typeof, so an array in _events
\* always holds at least two listeners and a function stands for exactly one.
SlotShape == Shaped(em)

\* _eventsCount, which decides when the whole table is thrown away, is the
\* number of types with an entry, less one for every removeAllListeners(t) of
\* a type without one: whatever listeners do while the emitter is at work.
CountAccounted == Accounted(em)

\* once(): the function runs at most once, although the wrapper marks itself fired only
\* after a 'removeListener' handler may have run and emitted again; and a wrapper that has
\* fired, or is about to, is in no slot, so no later emit can reach it.
OnceIsOnce ==
  /\ \A o \in Onces : runs[o] <= 1
  /\ \A t \in Types : \A e \in ToSet(em.slot[t].list) :
       /\ e.id \notin fired
       /\ \A j \in DOMAIN stack : stack[j].k = "fire" => stack[j].e # e
=============================================================================
