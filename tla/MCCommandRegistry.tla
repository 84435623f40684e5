-------------------------- MODULE MCCommandRegistry --------------------------
(* Three commands over two labels: one name for all, and a name that is     *)
(* another one's alias.                                                     *)
EXTENDS CommandRegistry

Named(n, as) == [name |-> n, aliases |-> as]

MCLabels  == {"time", "t"}
MCNamings ==
  {<<Named("time", {}), Named("time", {}), Named("time", {})>>,
   <<Named("time", {"t"}), Named("t", {}), Named("time", {})>>,
   <<Named("time", {}), Named("t", {"time"}), Named("t", {})>>}
=============================================================================
