--------------------------- MODULE MCSimpleReader ---------------------------
(***************************************************************************)
(* Instances of SimpleReader for TLC, with all backends.                   *)
(***************************************************************************)
EXTENDS SimpleReader

(* Requests below, of, and above a block; inputs of several blocks *)
ASSUME BoundAssumption == MaxWant > Inc /\ MaxSize > 2 * Inc
=============================================================================
