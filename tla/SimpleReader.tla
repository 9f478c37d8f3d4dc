---------------------------- MODULE SimpleReader ----------------------------
(***************************************************************************)
(* class Simple_Reader of xfsx/scratchpad.{hh,cc} under any client: calls  *)
(* of next(), forget(), check_available() and set_pos() in any order, on   *)
(* an input of any size up to MaxSize.  One call is one step.              *)
(***************************************************************************)
EXTENDS Reader

CONSTANTS
  MaxSize,      \* bound on the size of the input
  MaxWant,      \* bound on the argument of next()
  MaxForget,    \* bound on the argument of forget() and check_available()
  MaxPos        \* bound on the argument of set_pos()

(* All of these are arguments of the type size_t. *)
ASSUME SimpleReaderAssumption ==
  {MaxSize, MaxWant, MaxForget, MaxPos} \subseteq 0 .. (Word - 1)

VARIABLES
  r,            \* the reader
  origin,       \* history: what pos() is ahead of the bytes consumed
  phase         \* "open", or "thrown" when an exception has left a method

vars == <<r, origin, phase>>

Init ==
  /\ \E b \in Backends, n \in 0 .. MaxSize : r = NewReader(b, n)
  /\ origin = 0
  /\ phase = "open"

NextCall(want) ==
  /\ phase = "open"
  /\ r' = Next(r, want)
  /\ UNCHANGED <<origin, phase>>

(* read(2) fails, or there is no memory for the pad: p_ keeps its old      *)
(* value although the pad has been moved already.                          *)
NextThrows(want) ==
  /\ phase = "open"
  /\ r.backend = "file"
  /\ Reads(r, want)
  /\ r' = [r EXCEPT !.pad = RemoveHead(@, r.local)]
  /\ phase' = "thrown"
  /\ UNCHANGED origin

ForgetCall(k) ==
  /\ phase = "open"
  /\ r' = Forget(r, k)
  /\ UNCHANGED <<origin, phase>>

CheckAvailable(k) ==
  /\ phase = "open"
  /\ phase' = IF Available(r, k) THEN phase ELSE "thrown"
  /\ UNCHANGED <<r, origin>>

SetPos(pos) ==
  /\ phase = "open"
  /\ r' = [r EXCEPT !.global = pos]
  /\ origin' = pos - (r.global - origin)
  /\ UNCHANGED phase

(* The move constructor takes over everything but eof_. *)
Move ==
  /\ phase = "open"
  /\ r' = [r EXCEPT !.eof = FALSE]
  /\ UNCHANGED <<origin, phase>>

Destroyed == phase = "thrown" /\ UNCHANGED vars

NextStep ==
  \/ \E want \in 0 .. MaxWant : NextCall(want) \/ NextThrows(want)
  \/ \E k \in 0 .. MaxForget : ForgetCall(k) \/ CheckAvailable(k)
  \/ \E pos \in 0 .. MaxPos : SetPos(pos)
  \/ Move
  \/ Destroyed

Spec == Init /\ [][NextStep]_vars

(***************************************************************************)
(* Properties                                                              *)
(***************************************************************************)
Consumed == r.global - origin

TypeOK ==
  /\ r \in ReaderType
  /\ r.size <= MaxSize
  /\ origin \in Int
  /\ phase \in {"open", "thrown"}

(* Whatever was forgotten, asked for and moved, the window shows the input *)
(* from the position of the client on, without a gap and without the       *)
(* uninitialised tail of the pad; all that read(2) returned is in it or    *)
(* was consumed.                                                           *)
WindowIntact == phase = "open" => InStep(r, Consumed)

(* The pad holds what was asked for and less than a block more, however    *)
(* long the input is.                                                      *)
PadBounded ==
  r.backend = "file" /\ phase = "open" => Size(r.pad) < MaxWant + Inc

Inv == TypeOK /\ WindowIntact /\ PadBounded

(* The inductive invariant: what the window shows is right because the pad *)
(* is.  After an exception, nothing but the types is left.                 *)
IInv == Inv /\ (phase = "open" => Consumed \in Nat /\ Sound(r, Consumed))

(* "2nd argument specifies minimum read-size - which is respected by the   *)
(* function unless it encounters EOF before": if the next call yields      *)
(* fewer bytes than asked for, its window shows the end of the input and   *)
(* eof() says so.                                                          *)
NextDelivers ==
  phase = "open" =>
    \A want \in 0 .. MaxWant :
      LET q == Next(r, want)
      IN  \/ Avail(q) >= want
          \/ Consumed + Avail(q) = r.size /\ AtEof(q)

(* The next call says "no more" only at the end of the input, and says     *)
(* that the old pointers are still valid only if they are: the bytes       *)
(* behind them are the same.                                               *)
ResultTrue ==
  phase = "open" =>
    \A want \in 1 .. MaxWant :
      LET q == Next(r, want)
      IN  /\ NextResult(r, want) = 0 <=> Consumed = r.size
          /\ NextResult(r, want) = 1 =>
               Bytes(q, r.first, Avail(r)) = Bytes(r, r.first, Avail(r))

(* What Window promises: whatever backend is behind it, and whatever the   *)
(* pad goes through, a client sees a window that moves over the input, is  *)
(* extended by whole blocks, and shrinks by what is forgotten.             *)
Abstract == INSTANCE Window WITH
  w <- [backend |-> r.backend, at |-> Consumed, avail |-> Avail(r),
        size |-> r.size, eof |-> AtEof(r)]

ImplementsWindow == Abstract!WindowSpec
=============================================================================
