---------------------------- MODULE SpigotEvents ----------------------------
(***************************************************************************)
(* The server events of a script context                                   *)
(* (lib/internal/cauldron/platform/spigot/events.js): the SpigotEmitter of *)
(* every generation of the library, the Bukkit handlers each generation    *)
(* registers when it is loaded and no reload takes back, and the functions *)
(* scripts register.                                                       *)
(*                                                                         *)
(* All of it runs on the server thread, but a listener may use the emitter *)
(* that is calling it, so the calls in progress form a stack of frames:    *)
(*   bukkit - Bukkit hands one event to the handlers it has registered     *)
(*   each   - invoke()'s forEach over the live array of listeners          *)
(*   fn     - a listener is running; done is the token its once() wrapper  *)
(*            unregisters afterwards, 0 for a listener added with on()     *)
(***************************************************************************)
EXTENDS Integers, Sequences, FiniteSets, SequencesExt

CONSTANTS Events,          \* event names, lower-cased
          BukkitEvents,    \* those of registerEventType
          Fns,             \* the functions scripts register
          MaxTokens,       \* bound: registrations
          MaxDepth,        \* bound: frames in progress
          MaxGeneration    \* bound: reloads

ASSUME EventsAssumption ==
  /\ BukkitEvents \subseteq Events
  /\ {MaxTokens, MaxDepth, MaxGeneration} \subseteq Nat

VARIABLES generation, \* of the native modules; a reload starts the next one
          loaded,     \* the generations whose handlers Bukkit has, in order
          made,       \* where callbacks[event] is an array
          callbacks,  \* the arrays, per generation and event
          tokens,     \* the CancelTokens given out
          tokenOf,    \* the cancelToken property of each function, 0 for none
          stack,      \* the calls in progress, the innermost last
          cancelled,  \* history: tokens cancel() was called on
          completed,  \* history: tokens of once() listeners that returned
          added       \* history: how often on() was given each function

vars == <<generation, loaded, made, callbacks, tokens, tokenOf, stack,
          cancelled, completed, added>>

Generations == 0..MaxGeneration
TokenIds    == 1..MaxTokens
Given       == DOMAIN tokens

\* Fault: the listener carries the number of the next token.
EntryAhead(f, o, t) == [fn |-> f, once |-> o, id |-> t + 1]

\* An element of an array: the function itself or, once = TRUE, a wrapper of
\* it.  id is the token of this registration.
Entry(f, o, t) == [fn |-> f, once |-> o, id |-> t]

\* Fault: the token is looked up on the function that was wrapped.
TokenOnFunction(e) == tokenOf[e.fn]

\* The cancelToken property: a function has only its latest token, however
\* often it was registered; a wrapper is made anew and keeps its own.
TokenOn(e) == IF e.once THEN e.id ELSE tokenOf[e.fn]

Ids(g, ev) == {e.id : e \in ToSet(callbacks[g][ev])}

Bukkit(ev, gs) == [k |-> "bukkit", ev |-> ev, left |-> gs]
Run(t)         == [k |-> "fn", done |-> t]
\* n: the length at the start; start: the registrations then; seen: those
\* called; cut: how many elements left the array meanwhile
Each(g, ev)    == [k |-> "each", g |-> g, ev |-> ev, i |-> 1,
                   n |-> Len(callbacks[g][ev]), start |-> Ids(g, ev), seen |-> {}, cut |-> 0]

Top      == stack[Len(stack)]
Below    == Front(stack)
TopIs(k) == stack # << >> /\ Top.k = k
UserCode == stack # << >> => Top.k = "fn"
CanPush  == Len(stack) + 2 <= MaxDepth

Init ==
  /\ generation = 0
  /\ loaded = << >>
  /\ made = {}
  /\ callbacks = [g \in Generations |-> [ev \in Events |-> << >>]]
  /\ tokens = << >>
  /\ tokenOf = [f \in Fns |-> 0]
  /\ stack = << >>
  /\ cancelled = {}
  /\ completed = {}
  /\ added = [f \in Fns |-> 0]

-----------------------------------------------------------------------------
(* What scripts do *)

\* The first require of the API in a generation registers one handler with
\* Bukkit per event type.
LoadLibrary ==
  /\ UserCode
  /\ generation \notin ToSet(loaded)
  /\ loaded' = Append(loaded, generation)
  /\ UNCHANGED <<generation, made, callbacks, tokens, tokenOf, stack,
                 cancelled, completed, added>>

\* Cauldron.reload, for the emitter: the native cache is emptied, the handlers
\* of this generation stay with Bukkit.
Reload ==
  /\ UserCode
  /\ generation \in ToSet(loaded) /\ generation < MaxGeneration
  /\ generation' = generation + 1
  /\ UNCHANGED <<loaded, made, callbacks, tokens, tokenOf, stack, cancelled, completed, added>>

Push(g, ev, e) ==
  /\ tokens' = Append(tokens, [g |-> g, ev |-> ev])
  /\ callbacks' = [callbacks EXCEPT ![g][ev] = Append(@, e)]
  /\ made' = made \cup {<<g, ev>>}

On(g, ev, f) ==
  /\ UserCode
  /\ Len(tokens) < MaxTokens
  /\ Push(g, ev, Entry(f, FALSE, Len(tokens) + 1))
  /\ tokenOf' = [tokenOf EXCEPT ![f] = Len(tokens')]
  /\ added' = [added EXCEPT ![f] = @ + 1]
  /\ UNCHANGED <<generation, loaded, stack, cancelled, completed>>

Once(g, ev, f) ==
  /\ UserCode
  /\ <<g, ev>> \in made
  /\ Len(tokens) < MaxTokens
  /\ Push(g, ev, Entry(f, TRUE, Len(tokens) + 1))
  /\ UNCHANGED <<generation, loaded, tokenOf, stack, cancelled, completed, added>>

\* The calls an exception leaves: a running listener may catch it, the handler
\* registered with Bukkit always does, with the next handler still to come.
Unwind ==
  \E n \in 0..(Len(stack) - 1) :
    /\ n # 0 => stack[n].k \in {"fn", "bukkit"}
    /\ \A j \in (n + 1)..(Len(stack) - 1) : stack[j].k # "bukkit"
    /\ stack' = SubSeq(stack, 1, n)

\* The first once() of an event makes the array, then hands registerEvent a
\* name where it expects a class, and throws: nothing is registered.
OnceFirst(g, ev) ==
  /\ UserCode
  /\ <<g, ev>> \notin made
  /\ made' = made \cup {<<g, ev>>}
  /\ IF stack = << >> THEN stack' = stack ELSE Unwind \/ stack' = stack
  /\ UNCHANGED <<generation, loaded, callbacks, tokens, tokenOf, cancelled, completed, added>>

\* The array without the element that carries token t, the first if several do.
Carriers(g, ev, t) == {i \in DOMAIN callbacks[g][ev] : TokenOn(callbacks[g][ev][i]) = t}
FirstOf(S) == CHOOSE i \in S : \A j \in S : i <= j

Unregistered(t) ==
  LET g == tokens[t].g
      ev == tokens[t].ev
      at == Carriers(g, ev, t)
  IN  IF at = {} THEN callbacks
      ELSE [callbacks EXCEPT ![g][ev] = RemoveAt(@, FirstOf(at))]

\* The loops over that array notice the removal (history only).
Noticed(frames, t) ==
  [j \in DOMAIN frames |->
     LET f == frames[j] IN
     IF f.k = "each" /\ f.g = tokens[t].g /\ f.ev = tokens[t].ev
        /\ Carriers(f.g, f.ev, t) # {}
     THEN [f EXCEPT !.cut = @ + 1]
     ELSE f]

Cancel(t) ==
  /\ UserCode
  /\ callbacks' = Unregistered(t)
  /\ stack' = Noticed(stack, t)
  /\ cancelled' = cancelled \cup {t}
  /\ UNCHANGED <<generation, loaded, made, tokens, tokenOf, completed, added>>

\* invoke() on top of the given frames; no listeners, no loop.
Invoked(frames, g, ev) ==
  IF callbacks[g][ev] = << >> THEN frames ELSE Append(frames, Each(g, ev))

Emit(g, ev) ==
  /\ UserCode
  /\ CanPush
  /\ stack' = Invoked(stack, g, ev)
  /\ UNCHANGED <<generation, loaded, made, callbacks, tokens, tokenOf,
                 cancelled, completed, added>>

\* The server fires an event, perhaps because of what a listener did.
Fire(ev) ==
  /\ UserCode
  /\ CanPush
  /\ stack' = Append(stack, Bukkit(ev, loaded))
  /\ UNCHANGED <<generation, loaded, made, callbacks, tokens, tokenOf,
                 cancelled, completed, added>>

-----------------------------------------------------------------------------
(* What the calls in progress do *)

StepBukkit ==
  /\ TopIs("bukkit")
  /\ IF Top.left = << >>
     THEN stack' = Below
     ELSE stack' = Invoked(Append(Below, [Top EXCEPT !.left = Tail(@)]), Head(Top.left), Top.ev)
  /\ UNCHANGED <<generation, loaded, made, callbacks, tokens, tokenOf,
                 cancelled, completed, added>>

\* Fault: the loop asks for the length anew each time.
StepEachLive ==
  /\ TopIs("each")
  /\ LET es == callbacks[Top.g][Top.ev] IN
     IF Top.i > Len(es)
     THEN stack' = Below
     ELSE LET e == es[Top.i] IN
          stack' = Below \o <<[Top EXCEPT !.i = @ + 1, !.seen = @ \cup {e.id}],
                              Run(IF e.once THEN e.id ELSE 0)>>
  /\ UNCHANGED <<generation, loaded, made, callbacks, tokens, tokenOf,
                 cancelled, completed, added>>

\* forEach calls the element that is at its index now, up to the length at the
\* start or the length the array has left.
StepEach ==
  /\ TopIs("each")
  /\ LET es == callbacks[Top.g][Top.ev] IN
     IF Top.i > Top.n \/ Top.i > Len(es)
     THEN stack' = Below
     ELSE LET e == es[Top.i] IN
          stack' = Below \o <<[Top EXCEPT !.i = @ + 1, !.seen = @ \cup {e.id}],
                              Run(IF e.once THEN e.id ELSE 0)>>
  /\ UNCHANGED <<generation, loaded, made, callbacks, tokens, tokenOf,
                 cancelled, completed, added>>

\* A listener returns; the wrapper of once() then unregisters itself.
Return ==
  /\ TopIs("fn")
  /\ IF Top.done = 0
     THEN stack' = Below /\ UNCHANGED <<callbacks, completed>>
     ELSE /\ callbacks' = Unregistered(Top.done)
          /\ stack' = Noticed(Below, Top.done)
          /\ completed' = completed \cup {Top.done}
  /\ UNCHANGED <<generation, loaded, made, tokens, tokenOf, cancelled, added>>

Throw ==
  /\ TopIs("fn")
  /\ Unwind
  /\ UNCHANGED <<generation, loaded, made, callbacks, tokens, tokenOf,
                 cancelled, completed, added>>

Next ==
  \/ LoadLibrary
  \/ Reload
  \/ \E g \in ToSet(loaded), ev \in Events, f \in Fns : On(g, ev, f) \/ Once(g, ev, f)
  \/ \E g \in ToSet(loaded), ev \in Events : OnceFirst(g, ev) \/ Emit(g, ev)
  \/ \E t \in Given : Cancel(t)
  \/ \E ev \in BukkitEvents : Fire(ev)
  \/ StepBukkit
  \/ StepEach
  \/ Return
  \/ Throw

Spec == Init /\ [][Next]_vars

-----------------------------------------------------------------------------
(* Properties *)

Frames ==
  [k : {"bukkit"}, ev : BukkitEvents, left : Seq(Generations)]
    \cup [k : {"fn"}, done : {0} \cup TokenIds]
    \cup [k : {"each"}, g : Generations, ev : Events, i : Nat, n : Nat,
          start : SUBSET TokenIds, seen : SUBSET TokenIds, cut : Nat]

TypeOK ==
  /\ generation \in Generations
  /\ loaded \in Seq(Generations)
  /\ made \subseteq Generations \X Events
  /\ callbacks \in [Generations -> [Events -> Seq([fn : Fns, once : BOOLEAN, id : TokenIds])]]
  /\ tokens \in Seq([g : Generations, ev : Events])
  /\ tokenOf \in [Fns -> {0} \cup Given]
  /\ stack \in Seq(Frames)
  /\ cancelled \subseteq Given /\ completed \subseteq Given
  /\ added \in [Fns -> Nat]

Listed == UNION {ToSet(callbacks[g][ev]) : g \in Generations, ev \in Events}

\* A registration whose token was cancelled is gone, whatever was being called at the time,
\* for a function that was given to on() once: a second on() takes the function's token away,
\* and the first token cancels nothing.  A once() listener that returned is gone as well.
EndedIsGone ==
  \A e \in Listed : /\ e.id \in cancelled => ~e.once /\ added[e.fn] > 1
                    /\ ~(e.once /\ e.id \in completed)

Loops == {stack[j] : j \in {l \in DOMAIN stack : stack[l].k = "each"}}

\* invoke (events.js:343): a loop over the live array calls no registration twice, and no
\* more of them than there were when the event came; one that was there is missed only
\* because another left the array meanwhile, each removal hiding one at most; and one that
\* came later is called only in the place of one that left.
EachIsCalled ==
  \A f \in Loops :
    LET es == callbacks[f.g][f.ev]
        ahead == {es[p].id : p \in {q \in DOMAIN es : f.i <= q /\ q <= f.n}}
    IN /\ \A p \in f.i..Len(es) : es[p].id \notin f.seen
       /\ Cardinality(f.seen) <= f.n
       /\ Cardinality((f.start \ f.seen) \ ahead) <= f.cut
       /\ Cardinality(f.seen \ f.start) <= f.cut
=============================================================================
