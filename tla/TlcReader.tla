------------------------------ MODULE TlcReader ------------------------------
(***************************************************************************)
(* read_next(Simple_Reader &, TLC &) of xfsx/tlc_reader.cc, in the loop    *)
(* every converter from BER runs it in: while (read_next(r, tlc)) ...      *)
(*                                                                         *)
(* The input is a sequence of units, cut off anywhere.  A unit is its tag  *)
(* and length octets (tl of them) and, if it is primitive, its content.    *)
(* The bytes of the input are their positions, so that decoding a header   *)
(* means to look up the unit that starts at the position.                  *)
(***************************************************************************)
EXTENDS Reader, FiniteSets

CONSTANTS
  Shapes,       \* units there are: [tl, length, constructed]
  MaxUnits,     \* bound on the number of units of an input
  Peek          \* the bytes that are enough for any header: 20 in the code

ASSUME TlcReaderAssumption ==
  /\ \A u \in Shapes :
       /\ u.tl \in 1 .. Peek /\ u.constructed \in BOOLEAN
       /\ u.length \in 0 .. (Word - 1)
  /\ MaxUnits \in Nat
  /\ Peek \in Nat \ {0} /\ Peek + Inc <= Word

VARIABLES
  units,        \* the units of the input
  rd,           \* the reader
  tlc,          \* the number of the unit tlc was loaded from, and tlc.begin
  given,        \* the number of the unit read_next() returned true for
  pc,           \* the step of read_next(): "next" (the call), "load", "content"
  status        \* "running", "done", or "failed" by an exception

loopVars == <<units, rd, tlc, given, pc, status>>

(* Bytes of a unit: without the content of a constructed one, which are    *)
(* units of their own                                                      *)
Span(u) == u.tl + IF u.constructed THEN 0 ELSE u.length

(* The bytes of the first n units, by unit and place in it *)
FirstBytes(n) == UNION {{i} \X (1 .. Span(units[i])) : i \in 1 .. n}

(* Where unit n + 1 starts *)
StartOf == [n \in 0 .. Len(units) |-> Cardinality(FirstBytes(n))]

(* The unit that is decoded at the start of the window *)
AtUnit(n) ==
  /\ CellAt(rd.pad, rd.first + 1) = StartOf[n - 1] + 1
  /\ Avail(rd) >= units[n].tl

LoopInit ==
  /\ units \in UNION {[1 .. n -> Shapes] : n \in 0 .. MaxUnits}
  /\ \E b \in Backends, n \in 0 .. StartOf[Len(units)] :
       n + Inc <= Word /\ rd = NewReader(b, n)
  /\ tlc = [unit |-> 0, begin |-> 0]
  /\ given = 0
  /\ pc = "next"
  /\ status = "running"

At(step) == status = "running" /\ pc = step

(* An exception leaves read_next() and ends the loop. *)
Fail == status' = "failed" /\ UNCHANGED <<units, given, pc>>

(* read_next() gets as far as `step'; its return is "next". *)
Goto(step) == pc' = step /\ UNCHANGED <<units, status>>

(* r.next(20), and the end of the loop if there is no more *)
PeekHeader ==
  /\ At("next")
  /\ rd' = Next(rd, Peek)
  /\ IF NextResult(rd, Peek) = 0
     THEN status' = "done" /\ UNCHANGED <<units, pc>>
     ELSE Goto("load")
  /\ UNCHANGED <<tlc, given>>

(* tlc.load() throws: the header is cut off. *)
LoadFails ==
  /\ At("load")
  /\ ~ \E n \in 1 .. Len(units) : AtUnit(n)
  /\ tlc' = [tlc EXCEPT !.begin = rd.first]
  /\ Fail
  /\ UNCHANGED rd

(* tlc.load() of the n-th unit *)
Load(n) ==
  /\ At("load")
  /\ AtUnit(n)
  /\ tlc' = [unit |-> n, begin |-> rd.first]

(* A fault: the header is not forgotten. *)
LoadConstructedForgetsNothing(n) ==
  /\ Load(n)
  /\ units[n].constructed
  /\ given' = n
  /\ Goto("next")
  /\ UNCHANGED rd

LoadConstructed(n) ==
  /\ Load(n)
  /\ units[n].constructed
  /\ given' = n
  /\ rd' = Forget(rd, units[n].tl)
  /\ Goto("next")

LoadPrimitive(n) ==
  /\ Load(n)
  /\ ~units[n].constructed
  /\ IF Span(units[n]) < Word
     THEN Goto("content") /\ UNCHANGED given
     ELSE Fail                  \* range_error("length overflows 64 bit")
  /\ UNCHANGED rd

(* A fault: the pointer is not read again. *)
ReadContentKeepsBegin ==
  LET k    == Span(units[tlc.unit])
      more == Next(rd, k)
  IN  /\ At("content")
      /\ IF Available(more, k)
         THEN /\ given' = tlc.unit
              /\ rd' = Forget(more, k)
              /\ Goto("next")
         ELSE Fail /\ rd' = more
      /\ UNCHANGED tlc

(* A fault: check_available() is not called. *)
ReadContentUnchecked ==
  LET k    == Span(units[tlc.unit])
      more == Next(rd, k)
  IN  /\ At("content")
      /\ tlc' = IF NextResult(rd, k) = 2
                THEN [tlc EXCEPT !.begin = more.first] ELSE tlc
      /\ given' = tlc.unit
      /\ rd' = Forget(more, k)
      /\ Goto("next")

(* The pointer into the window is read again if next() has moved it.       *)
ReadContent ==
  LET k    == Span(units[tlc.unit])
      more == Next(rd, k)
  IN  /\ At("content")
      /\ IF Available(more, k)
         THEN /\ tlc' = IF NextResult(rd, k) = 2
                        THEN [tlc EXCEPT !.begin = more.first] ELSE tlc
              /\ given' = tlc.unit
              /\ rd' = Forget(more, k)
              /\ Goto("next")
         ELSE Fail /\ rd' = more /\ UNCHANGED tlc

Ended == status # "running" /\ UNCHANGED loopVars

ReadNext ==
  \/ PeekHeader
  \/ LoadFails
  \/ \E n \in 1 .. Len(units) : LoadConstructed(n) \/ LoadPrimitive(n)
  \/ ReadContent

LoopStep == ReadNext \/ Ended

(* The loop calls read_next() until it returns false or throws. *)
Fairness == WF_loopVars(ReadNext)

LoopSpec == LoopInit /\ [][LoopStep]_loopVars /\ Fairness

(***************************************************************************)
(* Properties                                                              *)
(***************************************************************************)
LoopTypeOK ==
  /\ units \in Seq(Shapes) /\ Len(units) <= MaxUnits
  /\ rd \in ReaderType
  /\ tlc \in [unit : 0 .. Len(units), begin : Nat]
  /\ given \in 0 .. Len(units)
  /\ pc \in {"next", "load", "content"}
  /\ status \in {"running", "done", "failed"}

(* tlc.begin is good until the next call: from there on the buffer shows   *)
(* all bytes of the unit, although the read of its content may have moved  *)
(* the buffer after the header was decoded.                                *)
BeginValid ==
  At("next") /\ tlc.unit # 0 =>
    Bytes(rd, tlc.begin, Span(units[tlc.unit]))
      = [i \in 1 .. Span(units[tlc.unit]) |-> StartOf[tlc.unit - 1] + i]

LoopInv == LoopTypeOK /\ BeginValid

(* Between two steps, the reader is at the start of a unit: the one behind *)
(* those that were given.  load() gets a header's worth of bytes, or all   *)
(* that is left.  tlc.begin is as far behind the window as the unit is     *)
(* long once it was forgotten, and its start before that.                  *)
Placed ==
  /\ Sound(rd, rd.global)
  /\ rd.global = StartOf[given] /\ rd.size <= StartOf[Len(units)]
  /\ rd.size + Inc <= Word
  /\ pc = "next" =>
       /\ tlc.unit = given
       /\ given # 0 => tlc.begin + Span(units[given]) = rd.first
  /\ pc = "load" =>
       /\ tlc.unit = given
       /\ Avail(rd) > 0
       /\ Avail(rd) >= Peek \/ rd.global + Avail(rd) = rd.size
  /\ pc = "content" =>
       /\ tlc.unit = given + 1 /\ ~units[given + 1].constructed
       /\ Avail(rd) > 0 /\ tlc.begin = rd.first

(* The inductive invariant *)
LoopIInv == LoopInv /\ (status = "running" => Placed)

(* The loop ends, whatever lengths the input claims.                       *)
Terminates == <>(status # "running")

(* The number of units that are complete in the input *)
Complete ==
  CHOOSE n \in 0 .. Len(units) :
    /\ StartOf[n] <= rd.size
    /\ n < Len(units) => StartOf[n + 1] > rd.size

Stream_ == INSTANCE UnitStream WITH
  complete <- Complete,
  clean <- StartOf[Complete] = rd.size,
  delivered <- given,
  status <- status

ImplementsUnitStream == Stream_!Spec
=============================================================================
