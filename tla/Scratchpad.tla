----------------------------- MODULE Scratchpad -----------------------------
(***************************************************************************)
(* The buffer of xfsx/scratchpad.{hh,cc}: class Scratchpad, a raw vector   *)
(* v_ with an offset off_ into it:                                         *)
(*                                                                         *)
(*       +----------+-----------------+                                    *)
(*       | 1 .. off |  off+1 .. Len v |                                    *)
(*       +----------+-----------------+                                    *)
(*        prelude    begin             end                                 *)
(*                                                                         *)
(* A byte is abstracted to its position in the byte stream it belongs to:  *)
(* the n-th byte a client writes (or the n-th byte of the input file) is   *)
(* the number n.  A byte lost, duplicated or moved is a wrong number.      *)
(* Raw_Vector leaves new cells uninitialised: they hold Garbage, which is  *)
(* the number of no byte of any stream.                                    *)
(*                                                                         *)
(* The methods are operators from a pad to the changed pad; the modules    *)
(* with state (SimpleWriter, SimpleReader) hold the pads.                  *)
(***************************************************************************)
EXTENDS Integers, Sequences

Garbage == 0

(* What a cell of v_ may hold. *)
Cell == Nat

PadType == [v : Seq(Cell), off : Nat]

EmptyPad == [v |-> << >>, off |-> 0]

(* The first n bytes of a stream, the content every buffer and file is     *)
(* compared with.                                                          *)
Stream(n) == [i \in 1 .. n |-> i]

(* The first n entries of f are the stream bytes behind position `from'.   *)
Counts(f, n, from) == \A i \in 1 .. n : f[i] = from + i

(* v_.size() *)
Size(pad) == Len(pad.v)

(* The cell of v_ at a position; reading outside v_ yields no stream byte. *)
CellAt(pad, i) == IF i \in 1 .. Len(pad.v) THEN pad.v[i] ELSE Garbage

(* assert(off_ <= v_.size()) of increment_head *)
HeadInPad(pad) == pad.off <= Size(pad)

IncrementHead(pad, k) == [pad EXCEPT !.off = @ + k]

(* memmove + resize: the first k cells disappear *)
ForgetPrelude(pad, k) ==
  [v   |-> [i \in 1 .. (Len(pad.v) - k) |-> pad.v[i + k]],
   off |-> pad.off - k]

RemoveHead(pad, k) ==
  LET moved == IncrementHead(pad, k)
  IN  ForgetPrelude(moved, moved.off)

AddTail(pad, k) ==
  [v   |-> [i \in 1 .. (Len(pad.v) + k) |->
              IF i <= Len(pad.v) THEN pad.v[i] ELSE Garbage],
   off |-> pad.off]

RemoveTail(pad, k) ==
  [v |-> [i \in 1 .. (Len(pad.v) - k) |-> pad.v[i]], off |-> pad.off]

(* std::copy (or read(2)) of the n stream bytes after position `from' into *)
(* the cells after position `at'.                                          *)
CopyIn(pad, at, from, n) ==
  [v   |-> [i \in 1 .. Len(pad.v) |->
              IF i \in (at + 1) .. (at + n) THEN from + (i - at)
                                            ELSE pad.v[i]],
   off |-> pad.off]

(* write(2) of the first n cells to the end of a file.                      *)
AppendCells(file, pad, n) ==
  [i \in 1 .. (Len(file) + n) |->
     IF i <= Len(file) THEN file[i] ELSE CellAt(pad, i - Len(file))]

(* write(2) of n stream bytes that come straight from the client's buffer. *)
AppendStream(file, from, n) ==
  [i \in 1 .. (Len(file) + n) |->
     IF i <= Len(file) THEN file[i] ELSE from + (i - Len(file))]
=============================================================================
