------------------------------- MODULE Window -------------------------------
(***************************************************************************)
(* What a Simple_Reader promises its client (xfsx/scratchpad.hh): a window *)
(* of the input that starts at the client's position, gets longer with     *)
(* next() and shorter with forget(), and shows the input as it is.  The    *)
(* buffers are gone; what remains of the backend is how much of the input  *)
(* it brings, and when eof() turns true.                                   *)
(***************************************************************************)
EXTENDS Integers

CONSTANTS
  Backends,     \* as in Reader
  Inc,
  Word

VARIABLE w      \* backend: its type, at: bytes consumed, avail: size of the window,
                \* size: bytes of the input, eof: eof()

New(backend, n) ==
  [backend |-> backend, at |-> 0, avail |-> IF backend = "none" THEN n ELSE 0,
   size |-> n, eof |-> FALSE]

Rest(q) == q.size - q.at - q.avail

(* A file brings whole blocks and is at its end when one is not full; a    *)
(* backend in memory brings everything.                                    *)
Extend(q, want) ==
  LET room == (((want - q.avail + Inc - 1) % Word) \div Inc) * Inc
  IN  IF q.backend # "file"
      THEN [q EXCEPT !.avail = q.size - q.at, !.eof = TRUE]
      ELSE IF room <= Rest(q)
      THEN [q EXCEPT !.avail = @ + room]
      ELSE [q EXCEPT !.avail = q.size - q.at, !.eof = TRUE]

(* next(want) *)
More(q, want) ==
  IF q.backend = "none" THEN [q EXCEPT !.eof = TRUE]
  ELSE IF q.avail < want /\ ~q.eof THEN Extend(q, want)
  ELSE q

(* forget(k) *)
Drop(q, k) ==
  LET n == IF k <= q.avail THEN k ELSE q.avail
  IN  [q EXCEPT !.at = @ + n, !.avail = @ - n]

(* The arguments of calls: size_t *)
Count == 0 .. (Word - 1)

WindowInit == w.size \in Count /\ w \in {New(b, w.size) : b \in Backends}

WindowNext ==
  \/ \E want \in Count : w' = More(w, want)
  \/ \E k \in Count : w' = Drop(w, k)
  \/ w.backend = "none" /\ w' = [w EXCEPT !.eof = FALSE]  \* moved elsewhere

WindowSpec == WindowInit /\ [][WindowNext]_w
=============================================================================
