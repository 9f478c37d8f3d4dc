----------------------------- MODULE UnitStream -----------------------------
(***************************************************************************)
(* What a loop over read_next() promises, whatever is buffered below it:   *)
(* the units of the input come out one by one in their order, the loop     *)
(* ends when all of them are out and nothing else is left, and it fails    *)
(* only on an input that is not a sequence of complete units.              *)
(***************************************************************************)
EXTENDS Naturals

VARIABLES
  complete,     \* number of units that are complete in the input
  clean,        \* TRUE: the input ends with the last of them
  delivered,    \* number of units the loop has got
  status        \* "running", "done" or "failed"

vars == <<complete, clean, delivered, status>>

Init ==
  /\ complete \in Nat
  /\ clean \in BOOLEAN
  /\ delivered = 0
  /\ status = "running"

Deliver ==
  /\ status = "running"
  /\ delivered < complete
  /\ delivered' = delivered + 1
  /\ UNCHANGED <<complete, clean, status>>

End(how) ==
  /\ status = "running"
  /\ delivered = complete
  /\ status' = how
  /\ UNCHANGED <<complete, clean, delivered>>

Next ==
  \/ Deliver
  \/ clean /\ End("done")
  \/ ~clean /\ End("failed")

Spec == Init /\ [][Next]_vars
=============================================================================
