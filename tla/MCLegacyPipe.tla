---------------------------- MODULE MCLegacyPipe ----------------------------
(* The six functions of pipe() and one listener of the program.            *)
EXTENDS LegacyPipe

MCTypes    == {"removeListener"} \cup SourceEvents \cup DestEvents
MCOthers   == {"other"}
MCHandlers == PipeHandlers \cup MCOthers
=============================================================================
