--------------------------- MODULE MCModuleLoader ---------------------------
(* A main file, the index of one package, and a file its package.json may   *)
(* name instead.                                                            *)
EXTENDS ModuleLoader

MCFiles   == {"main", "index", "dist"}
MCIndexOf == [p \in {"pkg"} |-> "index"]
=============================================================================
