------------------------------ MODULE MCBer2Ber ------------------------------
(***************************************************************************)
(* Instances of Ber2Ber for TLC: every forest of up to MaxNodes nodes.     *)
(* Contents of 0 and 3 octets and Short = 4 make lengths on both sides of  *)
(* the limit where a header gets longer.                                   *)
(***************************************************************************)
EXTENDS Ber2Ber

ASSUME BoundAssumption == \E n \in Contents : MinimalTl(n + 2) > MinimalTl(n)
=============================================================================
