--------------------------- MODULE MCEventEmitter ---------------------------
(* One program event next to the 'removeListener' event the emitter itself *)
(* emits, and a second program event for the table to lose.                *)
EXTENDS EventEmitter

MCTypes == {"removeListener", "data", "end"}
=============================================================================
