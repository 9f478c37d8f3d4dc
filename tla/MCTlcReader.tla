----------------------------- MODULE MCTlcReader -----------------------------
(***************************************************************************)
(* Instances of TlcReader for TLC.  The last two units claim lengths at    *)
(* the limit of size_t: with Word = 16, tl + length is 15 or overflows,    *)
(* and the rounding of 15 - 3 wanted bytes to blocks of 5 overflows.       *)
(***************************************************************************)
EXTENDS TlcReader

Unit(tl, length, constructed) ==
  [tl |-> tl, length |-> length, constructed |-> constructed]

MCShapes ==
  {Unit(2, 5, TRUE), Unit(2, 0, FALSE), Unit(2, 1, FALSE),
   Unit(3, 6, FALSE), Unit(3, 12, FALSE), Unit(3, 13, FALSE)}
=============================================================================
