------------------------------- MODULE Reader -------------------------------
(***************************************************************************)
(* The input side of xfsx/scratchpad.{hh,cc}: class Simple_Reader on top   *)
(* of its backends,                                                        *)
(*                                                                         *)
(*   "file"    File_Reader / Source_File: a pad that is refilled from the  *)
(*             file in blocks of Inc bytes                                 *)
(*   "memory"  Memory_Reader and Mapped_Reader: the whole input is there   *)
(*             (here: a pad that holds it, whose off_ is begin_)           *)
(*   "none"    no backend: the window is the whole input                   *)
(*                                                                         *)
(* A reader is a record.  The methods are operators from a reader to the   *)
(* changed reader; a call that may throw has a predicate for it.  size_t   *)
(* has the range 0 .. Word - 1.                                            *)
(***************************************************************************)
EXTENDS Scratchpad

CONSTANTS
  Backends,     \* the dynamic types that *backend_ may have
  Inc,          \* inc_ of Source_File, the block size
  Word          \* 2^64, scaled down

ASSUME ReaderAssumption ==
  /\ Backends \subseteq {"file", "memory", "none"}
  /\ Inc \in Nat \ {0}
  /\ Word \in Nat /\ Word > Inc

ReaderType ==
  [backend : Backends,  \* the dynamic type of *backend_
   pad     : PadType,
   taken   : Nat,        \* bytes the backend has handed out so far
   size    : Nat,        \* bytes of the input
   hitEnd  : BOOLEAN,    \* eof_ of the backend
   first   : Nat,        \* p_, as positions in the pad; nullptr is 0
   second  : Nat,
   local   : Nat,        \* local_pos_
   global  : Nat,        \* global_pos_
   eof     : BOOLEAN]    \* eof_, which counts without a backend only

(* A reader of the first n bytes of the stream *)
NewReader(backend, n) ==
  [backend |-> backend,
   pad     |-> IF backend = "file" THEN EmptyPad
                                   ELSE [v |-> Stream(n), off |-> 0],
   taken   |-> IF backend = "none" THEN n ELSE 0,
   size    |-> n,
   hitEnd  |-> FALSE,
   first   |-> 0,
   second  |-> IF backend = "none" THEN n ELSE 0,
   local   |-> 0,
   global  |-> 0,
   eof     |-> FALSE]

Avail(r) == r.second - r.first

AtEof(r) == IF r.backend = "none" THEN r.eof ELSE r.hitEnd

(* A fault: the request is rounded down to whole blocks. *)
BlocksRoundedDown(want) == want \div Inc

(* (want_cnt + inc_ - 1) / inc_, in the width of size_t *)
Blocks(want) == ((want + Inc - 1) % Word) \div Inc

(* A fault: the room that the file could not fill stays in the pad. *)
RefillKeepsRoom(r, forget, want) ==
  LET room == Blocks(want) * Inc
      left == r.size - r.taken
      got  == IF room <= left THEN room ELSE left
      kept == RemoveHead(r.pad, forget)
  IN  [r EXCEPT !.pad    = CopyIn(AddTail(kept, room), Size(kept), r.taken, got),
                !.taken  = @ + got,
                !.hitEnd = @ \/ got < room]

(* The backend's read_more(): what it does to its pad *)
Refill(r, forget, want) ==
  LET room == Blocks(want) * Inc
      left == r.size - r.taken
      got  == IF room <= left THEN room ELSE left
      kept == RemoveHead(r.pad, forget)
      full == CopyIn(AddTail(kept, room), Size(kept), r.taken, got)
  IN  [r EXCEPT !.pad    = RemoveTail(full, room - got),
                !.taken  = @ + got,
                !.hitEnd = @ \/ got < room]

(* A fault: a backend in memory does not say that it has nothing more. *)
ReadMoreNeverEnds(r, forget, want) ==
  IF r.backend = "file" THEN Refill(r, forget, want)
  ELSE [r EXCEPT !.pad = IncrementHead(@, forget), !.taken = r.size]

ReadMore(r, forget, want) ==
  IF r.backend = "file" THEN Refill(r, forget, want)
  ELSE [r EXCEPT !.pad = IncrementHead(@, forget), !.taken = r.size,
                 !.hitEnd = TRUE]

(* next(): does it ask the backend? *)
Reads(r, want) == r.backend # "none" /\ Avail(r) < want /\ ~r.hitEnd

Next(r, want) ==
  LET more == ReadMore(r, r.local, want - Avail(r))
  IN  IF Reads(r, want)
      THEN [more EXCEPT !.first = more.pad.off, !.second = Size(more.pad),
                        !.local = 0]
      ELSE [r EXCEPT !.eof = @ \/ r.backend = "none"]

(* A fault: the pointers are said to be valid after a read, too. *)
NextResultSaysValid(r, want) == IF Avail(Next(r, want)) = 0 THEN 0 ELSE 1

(* The return value of next(): "0: no more, 1: next one, old pointers      *)
(* still valid, 2: next one, old window pointers are invalidated"          *)
NextResult(r, want) ==
  IF Avail(Next(r, want)) = 0 THEN 0 ELSE IF Reads(r, want) THEN 2 ELSE 1

(* forget() goes no further than the window. *)
Forget(r, kk) ==
  LET k == IF kk <= Avail(r) THEN kk ELSE Avail(r)
  IN  [r EXCEPT !.local = @ + k, !.global = @ + k, !.first = @ + k]

(* check_available() throws a range_error otherwise. *)
Available(r, k) == Avail(r) >= k

(* What a client sees through a pointer: n bytes from a position on *)
Bytes(r, at, n) == [i \in 1 .. n |-> CellAt(r.pad, at + i)]

(* The window shows what the backend has handed out and the client has     *)
(* not consumed.                                                           *)
InStep(r, consumed) ==
  /\ r.first <= r.second
  /\ consumed + Avail(r) = r.taken
  /\ \A i \in 1 .. Avail(r) : CellAt(r.pad, r.first + i) = consumed + i

(* What the methods rely on between two calls of them: the pad was cut off *)
(* at local_pos_ when p_ was set, so that offsets into it and into the     *)
(* window are the same; each of its bytes is in its place, those that were *)
(* forgotten included.  Only a file hands out its input piece by piece.    *)
Sound(r, consumed) ==
  /\ InStep(r, consumed)
  /\ r.pad.off = 0 /\ r.local = r.first
  /\ r.first <= consumed /\ r.taken <= r.size
  /\ r.hitEnd => r.taken = r.size
  /\ \A i \in 1 .. Size(r.pad) : r.pad.v[i] = consumed - r.first + i
  /\ r.second = IF r.backend # "file" /\ r.taken = 0 THEN 0 ELSE Size(r.pad)
  /\ r.backend # "file" => /\ Size(r.pad) = r.size /\ consumed = r.first
                           /\ r.taken = 0 \/ r.taken = r.size
  /\ r.backend = "memory" /\ r.taken > 0 => r.hitEnd
  /\ r.backend = "none" => r.taken = r.size
=============================================================================
