----------------------------- MODULE LegacyPipe -----------------------------
(***************************************************************************)
(* Stream.prototype.pipe of lib/internal/streams/legacy.js on top of two   *)
(* emitters of lib/internal/events.js: the source's and the destination's. *)
(* The six functions pipe() registers are the handlers; what emit() really *)
(* calls is decided by EmitterOps.                                         *)
(***************************************************************************)
EXTENDS EmitterOps

\* Types holds the events below, Handlers the six functions and Others.
CONSTANT Others  \* functions the program registers on the source itself

VARIABLES src,        \* the source's emitter
          dst,        \* the destination's emitter
          piped,      \* "no", "end" (option end not false) or "noend"
          didOnEnd,   \* the closure variable of the pipe
          ends,       \* history: calls of dest.end()
          destroys,   \* history: calls of dest.destroy()
          happened    \* history: the events the source has emitted since pipe()

vars == <<src, dst, piped, didOnEnd, ends, destroys, happened>>

PipeHandlers == {"ondata", "ondrain", "onend", "onclose", "onerror", "cleanup"}
SourceEvents == {"data", "end", "close", "error"}
DestEvents   == {"drain", "close", "error"}

Listen(em, t, f) == AddListener(em, t, Plain(f), FALSE)

Init ==
  /\ src = NewEmitter
  /\ dst = NewEmitter
  /\ piped = "no"
  /\ didOnEnd = FALSE
  /\ ends = 0
  /\ destroys = 0
  /\ happened = {}

\* The program listens on the source, before or after the pipe is made.
Subscribe(t, f) ==
  /\ ~Has(src, t)
  /\ src' = Listen(src, t, f)
  /\ UNCHANGED <<dst, piped, didOnEnd, ends, destroys, happened>>

\* pipe(): its registrations, in the order of the code.
Pipe(end) ==
  /\ piped = "no"
  /\ LET data == Listen(src, "data", "ondata")
         closing == IF end THEN Listen(Listen(data, "end", "onend"), "close", "onclose")
                    ELSE data
     IN  src' = Listen(Listen(Listen(closing, "error", "onerror"), "end", "cleanup"),
                       "close", "cleanup")
  /\ dst' = Listen(Listen(Listen(dst, "drain", "ondrain"), "error", "onerror"),
                   "close", "cleanup")
  /\ piped' = IF end THEN "end" ELSE "noend"
  /\ UNCHANGED <<didOnEnd, ends, destroys, happened>>

\* What cleanup() takes off the emitter it is called on, then off dest.
CleanThis(em) ==
  LET off(m, t, f) == RemoveListener(m, t, Plain(f))
      a == off(off(off(em, "data", "ondata"), "end", "onend"), "close", "onclose")
  IN  off(off(off(a, "error", "onerror"), "end", "cleanup"), "close", "cleanup")

CleanDest(em) ==
  LET off(m, t, f) == RemoveListener(m, t, Plain(f))
  IN  off(off(off(em, "drain", "ondrain"), "error", "onerror"), "close", "cleanup")

\* A handler of the pipe runs with `this` being the emitter that emitted.
\* onerror calls cleanup() without one and throws before it removes anything;
\* ondata and ondrain write and resume, which no listener table shows.
RunOnSource(f) ==
  CASE f = "onend"   -> /\ didOnEnd' = TRUE
                        /\ ends' = ends + (IF didOnEnd THEN 0 ELSE 1)
                        /\ UNCHANGED <<src, dst, destroys>>
    [] f = "onclose" -> /\ didOnEnd' = TRUE
                        /\ destroys' = destroys + (IF didOnEnd THEN 0 ELSE 1)
                        /\ UNCHANGED <<src, dst, ends>>
    [] f = "cleanup" -> /\ src' = CleanThis(src)
                        /\ dst' = CleanDest(dst)
                        /\ UNCHANGED <<didOnEnd, ends, destroys>>
    [] OTHER         -> UNCHANGED <<src, dst, didOnEnd, ends, destroys>>

SourceEmits(t) ==
  /\ happened' = IF piped = "no" THEN happened ELSE happened \cup {t}
  /\ IF Calls(src, t)
     THEN RunOnSource(Callee(src, t).fn)
     ELSE UNCHANGED <<src, dst, didOnEnd, ends, destroys>>
  /\ UNCHANGED piped

\* On the destination's 'close' both halves of cleanup() act on dest.
DestEmits(t) ==
  /\ dst' = IF Calls(dst, t) /\ Callee(dst, t).fn = "cleanup"
            THEN CleanDest(CleanThis(dst))
            ELSE dst
  /\ UNCHANGED <<src, piped, didOnEnd, ends, destroys, happened>>

Next ==
  \/ \E t \in SourceEvents, f \in Others : Subscribe(t, f)
  \/ \E end \in BOOLEAN : Pipe(end)
  \/ \E t \in SourceEvents : SourceEmits(t)
  \/ \E t \in DestEvents : DestEmits(t)

Spec == Init /\ [][Next]_vars

-----------------------------------------------------------------------------
\* legacy.js:24: "If the 'end' option is not supplied, dest.end() will be
\* called when this gets the 'end' or 'close' events.  Only dest.end() once."
\* Once the source has emitted 'end' on such a pipe, and neither 'close' nor
\* 'error' (which take other paths), end() was called once.
DestEndedWithSource ==
  (piped = "end" /\ "end" \in happened /\ happened \cap {"close", "error"} = {})
    => ends = 1
=============================================================================
