----------------------------- MODULE EmitterOps -----------------------------
(***************************************************************************)
(* The data structure behind lib/internal/events.js: the table _events of  *)
(* an EventEmitter and the pure part of the methods that change it.  An    *)
(* emitter is a record                                                     *)
(*   present  - whether _events is an object yet (the constructor leaves   *)
(*              it undefined)                                              *)
(*   slot     - _events: per type nothing, one function, or an array       *)
(*   count    - _eventsCount                                               *)
(*   drift    - history: how often removeAllListeners(t) has decremented   *)
(*              _eventsCount for a type that had no entry, since the table *)
(*              was last replaced                                          *)
(* A listener is [fn, id]: id = 0 for the function itself, id > 0 for the  *)
(* wrapper that once() makes around it (wrapper.listener = fn).            *)
(***************************************************************************)
EXTENDS Integers, Sequences, FiniteSets, SequencesExt

CONSTANTS Types,      \* the event names in use, "removeListener" among them
          Handlers  \* the functions the program registers

ASSUME TypesAssumption == IsFiniteSet(Types) /\ "removeListener" \in Types

Plain(f) == [fn |-> f, id |-> 0]

Empty   == [kind |-> "none", list |-> << >>]
Fn(e)   == [kind |-> "fn",   list |-> <<e>>]
Arr(es) == [kind |-> "list", list |-> es]

Has(em, t) == em.slot[t].kind # "none"
Keys(em)   == {t \in Types : Has(em, t)}

\* new EventEmitter(): init() makes a table, the constructor drops it again.
NewEmitter ==
  [present |-> FALSE, slot |-> [t \in Types |-> Empty], count |-> 0, drift |-> 0]

\* _events = Object.create(null) with _eventsCount = 0
Wiped == [NewEmitter EXCEPT !.present = TRUE]

\* events[t] = s, with _eventsCount then n
Put(em, t, s, n) == [em EXCEPT !.slot[t] = s, !.count = n]

\* Fault: every listener counts, not every type.
AddListenerCountsAll(em, t, e, prepend) ==
  LET base == IF em.present THEN em ELSE Wiped
      old  == base.slot[t].list
  IN  IF Has(base, t)
      THEN Put(base, t, Arr(IF prepend THEN <<e>> \o old ELSE Append(old, e)), base.count + 1)
      ELSE Put(base, t, Fn(e), base.count + 1)

(***************************************************************************)
(* _addListener.  'newListener' is only emitted while nobody listens to    *)
(* it, so the emission never reaches a function.                           *)
(***************************************************************************)
AddListener(em, t, e, prepend) ==
  LET base == IF em.present THEN em ELSE Wiped
      old  == base.slot[t].list
  IN  IF Has(base, t)
      THEN Put(base, t, Arr(IF prepend THEN <<e>> \o old ELSE Append(old, e)), base.count)
      ELSE Put(base, t, Fn(e), base.count + 1)

\* list[i] === listener || list[i].listener === listener
Matches(e, l) == e = l \/ (l.id = 0 /\ e.fn = l.fn)

Positions(em, t, l) == {i \in DOMAIN em.slot[t].list : Matches(em.slot[t].list[i], l)}

\* The last entry is the one removeListener takes.
LastPosition(em, t, l) ==
  CHOOSE i \in Positions(em, t, l) : \A j \in Positions(em, t, l) : j <= i

\* Fault: an array of one stays an array.
WithoutEntryArray(es, i) == Arr(RemoveAt(es, i))

\* The list without its i-th entry; an array of one becomes the function itself.
WithoutEntry(es, i) ==
  LET rest == RemoveAt(es, i) IN IF Len(rest) = 1 THEN Fn(rest[1]) ELSE Arr(rest)

\* Fault: the last listener of a type leaves without being counted.
RemoveListenerUncounted(em, t, l) ==
  IF ~em.present \/ Positions(em, t, l) = {} THEN em
  ELSE IF em.slot[t].kind = "fn"
       THEN IF em.count = 1 THEN Wiped ELSE Put(em, t, Empty, em.count)
       ELSE Put(em, t, WithoutEntry(em.slot[t].list, LastPosition(em, t, l)), em.count)

RemoveListener(em, t, l) ==
  IF ~em.present \/ Positions(em, t, l) = {} THEN em
  ELSE IF em.slot[t].kind = "fn"
       THEN IF em.count = 1 THEN Wiped
            ELSE Put(em, t, Empty, em.count - 1)
       ELSE Put(em, t, WithoutEntry(em.slot[t].list, LastPosition(em, t, l)), em.count)

\* Whether that call goes on to emit 'removeListener': something was removed
\* and the table was not replaced.
AnnouncesRemoval(em, t, l) ==
  /\ em.present
  /\ Positions(em, t, l) # {}
  /\ em.slot[t].kind = "fn" => em.count # 1
  /\ Has(RemoveListener(em, t, l), "removeListener")

\* emit() applies a lone function; it never looks inside an array.
Calls(em, t)  == em.slot[t].kind = "fn"
Callee(em, t) == em.slot[t].list[1]

(***************************************************************************)
(* removeAllListeners(t) when nobody listens to 'removeListener': the test *)
(* !events[type] lets exactly the types without an entry through.          *)
(***************************************************************************)
ClearUnwatched(em, t) ==
  IF Has(em, t) THEN em
  ELSE IF em.count = 1 THEN Wiped
       ELSE [em EXCEPT !.count = @ - 1, !.drift = @ + 1]

-----------------------------------------------------------------------------
(* What the methods keep of an emitter whose listeners are taken from E *)

SlotType(E)    == [kind : {"none", "fn", "list"}, list : Seq(E)]
EmitterType(E) ==
  [present : BOOLEAN, slot : [Types -> SlotType(E)], count : Int, drift : Nat]

\* typeof tells one listener from several: an array holds at least two.
SlotShaped(s) ==
  /\ s.kind = "none" <=> Len(s.list) = 0
  /\ s.kind = "fn" <=> Len(s.list) = 1

Shaped(em) == \A t \in Types : SlotShaped(em.slot[t])

\* _eventsCount against the types that have an entry.
Accounted(em) == em.count = Cardinality(Keys(em)) - em.drift
=============================================================================
