------------------------------ MODULE Strings ------------------------------
(* Texts as TLA+ strings: the operations of String that the library uses.   *)
EXTENDS Integers, Sequences, SequencesExt

Char(s, i) == SubSeq(s, i, i)
Chars(s) == [i \in 1..Len(s) |-> Char(s, i)]

Join(texts, separator) ==
  FoldLeftDomain(LAMBDA text, i : text \o (IF i = 1 THEN "" ELSE separator) \o texts[i], "", texts)

\* split() at each of some characters.
SplitAt(s, chars) ==
  FoldLeft(LAMBDA parts, c : IF c \in chars THEN Append(parts, "")
                             ELSE [parts EXCEPT ![Len(parts)] = @ \o c], <<"">>, Chars(s))

StartsWith(s, start) == Len(start) <= Len(s) /\ SubSeq(s, 1, Len(start)) = start
EndsWith(s, end)     == Len(end) <= Len(s) /\ SubSeq(s, Len(s) - Len(end) + 1, Len(s)) = end
Has(s, char) == \E i \in 1..Len(s) : Char(s, i) = char
=============================================================================
