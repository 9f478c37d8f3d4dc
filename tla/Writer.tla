------------------------------- MODULE Writer -------------------------------
(***************************************************************************)
(* The output backends of xfsx/scratchpad.{hh,cc}: class Writer and the    *)
(* classes that implement it,                                              *)
(*                                                                         *)
(*   "file"        File_Writer / Sink_File: a pad in front of a file that  *)
(*                 is written in whole blocks of Inc bytes                 *)
(*   "scratchpad"  Scratchpad_Writer: a pad that only grows                *)
(*   "memory"      Memory_Writer: a fixed range (here: a pad whose v_ has  *)
(*                 the size of the range and whose off_ is begin_)         *)
(*                                                                         *)
(* A backend is a record of its pad and the content of its file.  The      *)
(* virtual methods are operators from a backend to the changed backend,    *)
(* the dispatch is a case distinction on Kind.  A method that may throw    *)
(* has a second operator, for the state in which the exception leaves the  *)
(* backend.  write(2) fails for reasons of its own (a full disk, a broken  *)
(* pipe), after any number of bytes: that is the argument d.               *)
(***************************************************************************)
EXTENDS Scratchpad

CONSTANTS
  Kind,         \* the dynamic type of the backend
  Inc,          \* inc_, the block size
  Capacity      \* size of the range of a "memory" backend

Kinds == {"file", "scratchpad", "memory"}

ASSUME WriterAssumption ==
  /\ Kind \in Kinds
  /\ Inc \in Nat \ {0}
  /\ Capacity \in Nat

BackendType == [pad : PadType, file : Seq(Cell)]

NewBackend ==
  [pad  |-> IF Kind = "memory" THEN AddTail(EmptyPad, Capacity) ELSE EmptyPad,
   file |-> << >>]

(* n / inc_ * inc_ *)
WholeBlocks(n) == (n \div Inc) * Inc

(* (n + inc_ - 1) / inc_ * inc_ *)
RoundUp(n) == WholeBlocks(n + Inc - 1)

Smaller(m, n) == IF m <= n THEN m ELSE n

(* begin() and end() of the pad, as positions in v_ *)
PadBegin(b) == b.pad.off

PadEnd(b) == Size(b.pad)

Spare(b) == PadEnd(b) - PadBegin(b)

(* The size of the file so far *)
Written(b) == Len(b.file)

(* Everything handed over so far, in order: what was written to the file   *)
(* and what waits in the pad in front of position n of v_.                 *)
Content(b, n) == AppendCells(b.file, b.pad, n)

(* The file holds the first bytes of the stream and the first n cells of   *)
(* the pad the next ones, pos bytes in all.                                *)
Holds(b, n, pos) ==
  /\ n \in 0 .. PadEnd(b)
  /\ Written(b) + n = pos
  /\ Counts(b.file, Written(b), 0)
  /\ Counts(b.pad.v, n, Written(b))

WithPad(b, pad) == [pad |-> pad, file |-> b.file]

(* std::copy of n stream bytes into the pad, behind its first `at' cells    *)
Store(b, at, from, n) == WithPad(b, CopyIn(b.pad, at, from, n))

PrepareWrite(b, forget, want) ==
  LET moved == IncrementHead(b.pad, forget)
  IN  WithPad(b, IF Kind = "memory" THEN moved
                                    ELSE AddTail(moved, RoundUp(want)))

(* A fault: the blocks that were written stay in the pad. *)
WriteSomeKeepsBlocks(b, forget) ==
  LET moved == IncrementHead(b.pad, forget)
  IN  IF Kind = "file"
      THEN [pad  |-> moved,
            file |-> AppendCells(b.file, moved, WholeBlocks(moved.off))]
      ELSE WithPad(b, moved)

(* A fault: one block at most is written in a call. *)
WriteSomeOneBlock(b, forget) ==
  LET moved == IncrementHead(b.pad, forget)
      one   == Smaller(Inc, WholeBlocks(moved.off))
  IN  IF Kind = "file"
      THEN [pad  |-> ForgetPrelude(moved, one),
            file |-> AppendCells(b.file, moved, one)]
      ELSE WithPad(b, moved)

WriteSome(b, forget) ==
  LET moved == IncrementHead(b.pad, forget)
      full  == WholeBlocks(moved.off)
  IN  IF Kind = "file"
      THEN [pad  |-> ForgetPrelude(moved, full),
            file |-> AppendCells(b.file, moved, full)]
      ELSE WithPad(b, moved)

(* The bytes WriteSome tries to write; it may throw before the last one.   *)
WriteSomeBytes(b, forget) ==
  IF Kind = "file" THEN WholeBlocks(PadBegin(b) + forget) ELSE 0

WriteSomeThrows(b, forget, d) ==
  LET moved == IncrementHead(b.pad, forget)
  IN  [pad |-> moved, file |-> AppendCells(b.file, moved, d)]

(* The first half of Sink_File::write: it completes a block the pad holds  *)
(* a part of.  The bytes come from position `from' of the client's stream. *)
Missing(b, n) ==
  IF PadBegin(b) % Inc = 0 THEN 0 ELSE Smaller(Inc - (PadBegin(b) % Inc), n)

Completed(b, from, k) ==
  Store(WithPad(b, AddTail(b.pad, k)), PadBegin(b), from, k)

CompleteBlock(b, forget, from, n) ==
  LET k == Missing(b, n)
  IN  IF PadBegin(b) % Inc = 0 THEN b
                             ELSE WriteSome(Completed(b, from, k), forget + k)

(* The second half: whole blocks straight to the file, the rest to the pad *)
ThroughBlocks(b, from, n) ==
  LET full == WholeBlocks(n)
      rest == n - full
      room == [pad  |-> AddTail(b.pad, rest),
               file |-> AppendStream(b.file, from, full)]
      kept == Store(room, PadBegin(b), from + full, rest)
  IN  WithPad(kept, IncrementHead(kept.pad, rest))

SinkWrite(b, forget, from, n) ==
  LET k == Missing(b, n)
  IN  ThroughBlocks(CompleteBlock(b, forget, from, n), from + k, n - k)

(* Writer::write, which only File_Writer overrides *)
DefaultWrite(b, forget, from, n) ==
  LET room == PrepareWrite(b, forget, n)
  IN  WriteSome(Store(room, PadBegin(room), from, n), n)

WriteThrough(b, forget, from, n) ==
  IF Kind = "file" THEN SinkWrite(b, forget, from, n)
                   ELSE DefaultWrite(b, forget, from, n)

(* assert((n && (pad_.begin() - pad_.prelude()) == 0) || !n) of            *)
(* Sink_File::write, evaluated between its halves                          *)
BlockComplete(b, forget, from, n) ==
  Kind = "file" /\ n > Missing(b, n) =>
    PadBegin(CompleteBlock(b, forget, from, n)) = 0

(* A fault: what was flushed stays in the pad. *)
FlushBackendKeepsPad(b) ==
  IF Kind = "file"
  THEN [pad |-> b.pad, file |-> AppendCells(b.file, b.pad, PadBegin(b))]
  ELSE b

FlushBackend(b) ==
  IF Kind = "file"
  THEN [pad |-> EmptyPad, file |-> AppendCells(b.file, b.pad, PadBegin(b))]
  ELSE b

FlushBytes(b) == IF Kind = "file" THEN PadBegin(b) ELSE 0

FlushThrows(b, d) == [pad |-> b.pad, file |-> AppendCells(b.file, b.pad, d)]

ClearBackend(b) == IF Kind = "scratchpad" THEN WithPad(b, EmptyPad) ELSE b
=============================================================================
