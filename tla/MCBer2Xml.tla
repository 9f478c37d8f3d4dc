----------------------------- MODULE MCBer2Xml -----------------------------
(***************************************************************************)
(* Instances of Ber2Xml for TLC: paths and ranges that select none, some   *)
(* or all of the tags, also with a gap between ranges.                     *)
(***************************************************************************)
EXTENDS Ber2Xml

From(a, b) == [from |-> a, to |-> b]

MCRanges == { << >>, <<From(0, 1)>>, <<From(1, 3)>>, <<From(0, 1), From(2, 3)>> }
=============================================================================
