------------------------------ MODULE ByteSink ------------------------------
(***************************************************************************)
(* What a writer promises its client, whatever it buffers: the bytes that  *)
(* have reached the other side are always the first ones accepted, in      *)
(* their order, each once; none is missing when the writer is gone, and it *)
(* goes.  An I/O error cuts the bytes off at some point; what a writer     *)
(* does to the other side after an error, nobody promises.  A writer may   *)
(* break as well: bytes overtake others, and from then on nothing is       *)
(* promised but that it goes.                                              *)
(***************************************************************************)
EXTENDS Integers, Sequences

CONSTANT
  Clearable     \* TRUE: what has been accepted can be taken back, all of it

VARIABLES
  accepted,     \* number of bytes the client has written
  delivered,    \* the bytes on the other side, by their position
  failed,       \* an I/O error has occurred
  broken,       \* bytes have overtaken others
  closed

vars == <<accepted, delivered, failed, broken, closed>>

FirstBytes(n) == [i \in 1 .. n |-> i]

Init ==
  /\ accepted = 0
  /\ delivered = << >>
  /\ failed = FALSE
  /\ broken = FALSE
  /\ closed = FALSE

Working == ~failed /\ ~broken /\ ~closed

Grows == accepted' \in Nat /\ accepted' >= accepted

(* Any number of bytes is accepted; a buffer may pass on some of those it  *)
(* holds.                                                                  *)
Accept ==
  /\ Working
  /\ Grows
  /\ \E n \in Len(delivered) .. accepted' : delivered' = FirstBytes(n)
  /\ UNCHANGED <<failed, broken, closed>>

Close ==
  /\ Working
  /\ closed' = TRUE
  /\ delivered' = FirstBytes(accepted)
  /\ UNCHANGED <<accepted, failed, broken>>

(* A sink that is a buffer starts again. *)
Discard ==
  /\ Working /\ Clearable
  /\ accepted' = 0
  /\ delivered' = << >>
  /\ UNCHANGED <<failed, broken, closed>>

(* The call that fails may have passed on a part of what it was given. *)
Fail ==
  /\ Working
  /\ failed' = TRUE
  /\ Grows
  /\ Len(delivered') >= Len(delivered)
  /\ delivered' = FirstBytes(Len(delivered'))
  /\ UNCHANGED <<broken, closed>>

(* Bytes are accepted, and overtake others that wait. *)
Break ==
  /\ Working
  /\ broken' = TRUE
  /\ Grows
  /\ UNCHANGED closed

Abandon ==
  /\ failed \/ broken
  /\ ~closed
  /\ Grows
  /\ failed => UNCHANGED <<accepted, failed>>
  /\ UNCHANGED broken

Next == Accept \/ Discard \/ Close \/ Fail \/ Break \/ Abandon

Safety == Init /\ [][Next]_vars

Spec == Safety /\ <>closed
=============================================================================
