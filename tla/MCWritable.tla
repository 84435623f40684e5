----------------------------- MODULE MCWritable -----------------------------
(* Writables with and without _writev, one that destroys itself, one with a _final. *)
EXTENDS Writable

Plain == [highWaterMark |-> 2, autoDestroy |-> FALSE, writev |-> FALSE, final |-> FALSE]

SmallOptions == {[Plain EXCEPT !.highWaterMark = 1], [Plain EXCEPT !.writev = TRUE],
                 [Plain EXCEPT !.autoDestroy = TRUE], [Plain EXCEPT !.final = TRUE]}
=============================================================================
