--------------------------- MODULE OrderedWriter ---------------------------
(***************************************************************************)
(* What a Writable promises whoever writes to it, without its buffer, its  *)
(* corks and its callbacks: chunks reach the sink once each, in the order  *)
(* they were accepted until the sink first fails, and "finish" is emitted  *)
(* only after the end, when the sink has answered for every one of them.   *)
(***************************************************************************)
EXTENDS Naturals, Sequences, Functions

CONSTANT Ids \* names of chunks

VARIABLES accepted, \* the chunks write() accepted, in order
          given,    \* the chunks the sink was handed, in order
          answered, \* the chunks it answered for, or that a failure settled
          failed,   \* a write has failed
          ended,    \* end() was called
          finished  \* "finish" was emitted

vars == <<accepted, given, answered, failed, ended, finished>>

Init ==
  /\ accepted = << >> /\ given = << >> /\ answered = {}
  /\ failed = FALSE /\ ended = FALSE /\ finished = FALSE

Accept(id) ==
  /\ ~ended /\ id \notin Range(accepted)
  /\ accepted' = Append(accepted, id)
  /\ UNCHANGED <<given, answered, failed, ended, finished>>

\* The sink is handed chunks, answers for chunks, or both at once.
Progress ==
  /\ ~finished
  /\ Len(given') >= Len(given) /\ SubSeq(given', 1, Len(given)) = given
  /\ Range(given') \subseteq Range(accepted) /\ IsInjective(given')
  /\ ~failed => given' = SubSeq(accepted, 1, Len(given'))
  /\ answered \subseteq answered' /\ answered' \subseteq Range(accepted)
  /\ failed => failed'
  /\ ~failed' => answered' \subseteq Range(given')
  /\ UNCHANGED <<accepted, ended, finished>>

End ==
  /\ ended' = TRUE
  /\ UNCHANGED <<accepted, given, answered, failed, finished>>

Finish ==
  /\ ended /\ ~finished /\ answered = Range(accepted)
  /\ finished' = TRUE
  /\ UNCHANGED <<accepted, given, answered, failed, ended>>

Next == (\E id \in Ids : Accept(id)) \/ Progress \/ End \/ Finish

Spec == Init /\ [][Next]_vars
=============================================================================
