------------------------- MODULE SimpleWriterProofs -------------------------
(***************************************************************************)
(* The safety of Simple_Writer, for every backend, block size, client and  *)
(* number of bytes: what the backends do to the bytes they hold; that      *)
(* every step keeps Sound, and a step that bypasses no byte Intact as      *)
(* well; and what follows from that.                                       *)
(***************************************************************************)
EXTENDS SimpleWriter, TLAPS

(***************************************************************************)
(* Block arithmetic                                                        *)
(***************************************************************************)

(* inc_ is positive. *)
LEMMA IncNat == Inc \in Nat /\ Inc > 0
BY WriterAssumption

(* n / inc_ * inc_ is at most n, by less than a block. *)
LEMMA WholeBlocksBounds ==
  ASSUME NEW n \in Nat
  PROVE  /\ WholeBlocks(n) \in Nat /\ WholeBlocks(n) <= n
         /\ n - WholeBlocks(n) < Inc
BY WriterAssumption, SMT DEF WholeBlocks

(* Less than a block is no block. *)
LEMMA WholeBlocksSmall ==
  ASSUME NEW n \in Nat, n < Inc
  PROVE  WholeBlocks(n) = 0 /\ n % Inc = n
BY WriterAssumption, SMT DEF WholeBlocks

(* A block is a whole block. *)
LEMMA WholeBlocksOne == WholeBlocks(Inc) = Inc
BY WriterAssumption, SMT DEF WholeBlocks

(* prepare_write() makes the room it was asked for, and less than a block more. *)
LEMMA RoundUpBounds ==
  ASSUME NEW n \in Nat
  PROVE  RoundUp(n) \in Nat /\ n <= RoundUp(n) /\ RoundUp(n) < n + Inc
<1>1. n + Inc - 1 \in Nat
  BY IncNat
<1>2. QED
  BY <1>1, WholeBlocksBounds, IncNat DEF RoundUp

(***************************************************************************)
(* The operators on pads: what they make of the cells                      *)
(***************************************************************************)

(* A function on 1 .. n is a sequence of n elements. *)
LEMMA SeqOfFunction ==
  ASSUME NEW S, NEW n \in Nat, NEW f \in [1 .. n -> S]
  PROVE  f \in Seq(S) /\ Len(f) = n
BY SMT

(* The parts of a pad. *)
LEMMA PadFields ==
  ASSUME NEW pad \in PadType
  PROVE  /\ pad.v \in Seq(Nat) /\ Len(pad.v) = Size(pad)
         /\ Size(pad) \in Nat /\ pad.off \in Nat
BY DEF PadType, Cell, Size

(* A pad made of its parts. *)
LEMMA PadOf ==
  ASSUME NEW v \in Seq(Nat), NEW off \in Nat,
         NEW pad, pad = [v |-> v, off |-> off]
  PROVE  /\ pad \in PadType /\ pad.v = v /\ pad.off = off
         /\ Size(pad) = Len(v)
BY DEF PadType, Cell, Size

(* increment_head() moves off_ and no byte. *)
LEMMA IncrementHeadCells ==
  ASSUME NEW pad \in PadType, NEW k \in Nat,
         NEW c, c = IncrementHead(pad, k)
  PROVE  /\ c \in PadType /\ c.v = pad.v /\ c.off = pad.off + k
         /\ Size(c) = Size(pad)
<1>1. pad = [v |-> pad.v, off |-> pad.off]
  BY DEF PadType
<1>2. c = [v |-> pad.v, off |-> pad.off + k]
  BY <1>1 DEF IncrementHead
<1>3. pad.v \in Seq(Nat) /\ pad.off + k \in Nat
  BY PadFields
<1>4. QED
  BY <1>2, <1>3, PadOf DEF Size

(* forget_prelude(k) removes the first k bytes: the others move down by k. *)
LEMMA ForgetPreludeCells ==
  ASSUME NEW pad \in PadType, NEW k \in Nat, k <= pad.off,
         pad.off <= Size(pad),
         NEW c, c = ForgetPrelude(pad, k)
  PROVE  /\ c \in PadType /\ c.off = pad.off - k /\ Size(c) = Size(pad) - k
         /\ \A n \in Nat, from \in Nat :
              k <= n /\ n <= Size(pad) /\ Counts(pad.v, n, from) =>
                Counts(c.v, n - k, from + k)
<1> DEFINE w == [i \in 1 .. (Len(pad.v) - k) |-> pad.v[i + k]]
<1>1. /\ pad.v \in Seq(Nat) /\ Len(pad.v) = Size(pad) /\ Size(pad) \in Nat
      /\ pad.off \in Nat
  BY PadFields
<1>2. Len(pad.v) - k \in Nat /\ pad.off - k \in Nat
  <2>1. k <= Size(pad) /\ pad.off - k \in Nat
    BY <1>1
  <2>2. QED
    BY <1>1, <2>1
<1>3. ASSUME NEW i \in 1 .. (Len(pad.v) - k)
      PROVE  pad.v[i + k] \in Nat
  <2>1. i + k \in 1 .. Len(pad.v)
    BY <1>1
  <2>2. QED
    BY <1>1, <2>1
<1>4. w \in [1 .. (Len(pad.v) - k) -> Nat]
  BY <1>3
<1>5. c = [v |-> w, off |-> pad.off - k]
  BY DEF ForgetPrelude
<1>6. \A i \in 1 .. (Len(pad.v) - k) : w[i] = pad.v[i + k]
  OBVIOUS
<1> HIDE DEF w
<1>7. w \in Seq(Nat) /\ Len(w) = Len(pad.v) - k
  BY <1>2, <1>4, SeqOfFunction
<1>8. /\ c \in PadType /\ c.v = w /\ c.off = pad.off - k
      /\ Size(c) = Len(w)
  <2> DEFINE off == pad.off - k
  <2>1. off \in Nat /\ c = [v |-> w, off |-> off]
    BY <1>2, <1>5
  <2> HIDE DEF off
  <2>2. c \in PadType /\ c.v = w /\ c.off = off /\ Size(c) = Len(w)
    BY <1>7, <2>1, PadOf
  <2>3. QED
    BY <2>2 DEF off
<1>9. ASSUME NEW n \in Nat, NEW from \in Nat,
             k <= n, n <= Size(pad), Counts(pad.v, n, from)
      PROVE  Counts(w, n - k, from + k)
  <2>1. ASSUME NEW i \in 1 .. (n - k)
        PROVE  w[i] = (from + k) + i
    <3>1. i \in 1 .. (Len(pad.v) - k) /\ i + k \in 1 .. n
      BY <1>1, <1>9
    <3>2. pad.v[i + k] = from + (i + k)
      BY <1>9, <3>1 DEF Counts
    <3>3. w[i] = from + (i + k)
      BY <1>6, <3>1, <3>2
    <3>4. QED
      BY <3>3
  <2>2. QED
    BY <2>1 DEF Counts
<1>10. QED
  BY <1>1, <1>7, <1>8, <1>9

(* add_tail() keeps the bytes that were there. *)
LEMMA AddTailCells ==
  ASSUME NEW pad \in PadType, NEW k \in Nat, NEW c, c = AddTail(pad, k)
  PROVE  /\ c \in PadType /\ c.off = pad.off /\ Size(c) = Size(pad) + k
         /\ \A n \in Nat, from \in Nat :
              n <= Size(pad) /\ Counts(pad.v, n, from) => Counts(c.v, n, from)
<1> DEFINE w == [i \in 1 .. (Len(pad.v) + k) |->
                   IF i <= Len(pad.v) THEN pad.v[i] ELSE Garbage]
<1>1. /\ pad.v \in Seq(Nat) /\ Len(pad.v) = Size(pad) /\ Size(pad) \in Nat
      /\ pad.off \in Nat
  BY PadFields
<1>2. w \in [1 .. (Len(pad.v) + k) -> Nat]
  BY <1>1 DEF Garbage
<1>3. c = [v |-> w, off |-> pad.off]
  BY DEF AddTail
<1>4. \A i \in 1 .. Len(pad.v) : w[i] = pad.v[i]
  BY <1>1
<1>5. Len(pad.v) + k \in Nat
  BY <1>1
<1> HIDE DEF w
<1>6. w \in Seq(Nat) /\ Len(w) = Len(pad.v) + k
  BY <1>2, <1>5, SeqOfFunction
<1>7. /\ c \in PadType /\ c.v = w /\ c.off = pad.off
      /\ Size(c) = Len(w)
  BY <1>1, <1>3, <1>6, PadOf
<1>8. ASSUME NEW n \in Nat, NEW from \in Nat,
             n <= Size(pad), Counts(pad.v, n, from)
      PROVE  Counts(w, n, from)
  <2>1. ASSUME NEW i \in 1 .. n
        PROVE  w[i] = from + i
    <3>1. i \in 1 .. Len(pad.v)
      BY <1>1, <1>8
    <3>2. QED
      BY <1>4, <1>8, <3>1 DEF Counts
  <2>2. QED
    BY <2>1 DEF Counts
<1>9. QED
  BY <1>1, <1>6, <1>7, <1>8

(* A copy behind n bytes of the stream makes them n + k bytes of it. *)
LEMMA CopyInCells ==
  ASSUME NEW pad \in PadType, NEW at \in Nat, NEW pos \in Nat, NEW n \in Nat,
         NEW c, c = CopyIn(pad, at, pos, n)
  PROVE  /\ c \in PadType /\ c.off = pad.off /\ Size(c) = Size(pad)
         /\ \A from \in Nat :
              /\ at + n <= Size(pad)
              /\ from + at = pos
              /\ Counts(pad.v, at, from)
              => Counts(c.v, at + n, from)
<1> DEFINE w == [i \in 1 .. Len(pad.v) |->
                   IF i \in (at + 1) .. (at + n) THEN pos + (i - at)
                                                 ELSE pad.v[i]]
<1>1. /\ pad.v \in Seq(Nat) /\ Len(pad.v) = Size(pad) /\ Size(pad) \in Nat
      /\ pad.off \in Nat
  BY PadFields
<1>2. ASSUME NEW i \in 1 .. Len(pad.v)
      PROVE  (IF i \in (at + 1) .. (at + n) THEN pos + (i - at)
                                            ELSE pad.v[i]) \in Nat
  <2>1. pad.v[i] \in Nat
    BY <1>1
  <2>2. i \in (at + 1) .. (at + n) => pos + (i - at) \in Nat
    OBVIOUS
  <2>3. QED
    BY <2>1, <2>2
<1>3. w \in [1 .. Len(pad.v) -> Nat]
  BY <1>2
<1>4. c = [v |-> w, off |-> pad.off]
  BY DEF CopyIn
<1>5. \A i \in 1 .. Len(pad.v) :
        w[i] = IF i \in (at + 1) .. (at + n) THEN pos + (i - at)
                                             ELSE pad.v[i]
  OBVIOUS
<1> HIDE DEF w
<1>6. w \in Seq(Nat) /\ Len(w) = Len(pad.v)
  BY <1>1, <1>3, SeqOfFunction
<1>7. /\ c \in PadType /\ c.v = w /\ c.off = pad.off
      /\ Size(c) = Len(w)
  BY <1>1, <1>4, <1>6, PadOf
<1>8. ASSUME NEW from \in Nat, at + n <= Size(pad), from + at = pos,
             Counts(pad.v, at, from)
      PROVE  Counts(w, at + n, from)
  <2>1. ASSUME NEW i \in 1 .. (at + n)
        PROVE  w[i] = from + i
    <3>1. i \in 1 .. Len(pad.v)
      BY <1>1, <1>8
    <3>2. CASE i \in (at + 1) .. (at + n)
      <4>1. w[i] = pos + (i - at)
        BY <1>5, <3>1, <3>2
      <4>2. pos + (i - at) = from + i
        BY <1>8
      <4>3. QED
        BY <4>1, <4>2
    <3>3. CASE i \notin (at + 1) .. (at + n)
      <4>1. w[i] = pad.v[i]
        BY <1>5, <3>1, <3>3
      <4>2. i \in 1 .. at
        BY <3>3
      <4>3. pad.v[i] = from + i
        BY <1>8, <4>2 DEF Counts
      <4>4. QED
        BY <4>1, <4>3
    <3>4. QED
      BY <3>2, <3>3
  <2>2. QED
    BY <2>1 DEF Counts
<1>9. QED
  BY <1>1, <1>6, <1>7, <1>8

(* The cells a write(2) appends to a file, whatever they are               *)
LEMMA AppendCellsType ==
  ASSUME NEW file \in Seq(Cell), NEW pad \in PadType, NEW n \in Nat,
         NEW w, w = AppendCells(file, pad, n)
  PROVE  /\ w \in Seq(Cell) /\ Len(w) = Len(file) + n
         /\ \A i \in 1 .. (Len(file) + n) :
              w[i] = IF i <= Len(file) THEN file[i]
                                       ELSE CellAt(pad, i - Len(file))
<1>1. /\ pad.v \in Seq(Nat) /\ file \in Seq(Nat) /\ Len(file) \in Nat
      /\ Len(file) + n \in Nat
  BY PadFields DEF Cell
<1>2. ASSUME NEW j \in Nat
      PROVE  CellAt(pad, j) \in Nat
  BY <1>1 DEF CellAt, Garbage
<1>3. ASSUME NEW i \in 1 .. (Len(file) + n)
      PROVE  (IF i <= Len(file) THEN file[i]
                                ELSE CellAt(pad, i - Len(file))) \in Nat
  <2>1. CASE i <= Len(file)
    <3>1. i \in 1 .. Len(file)
      BY <1>1, <2>1
    <3>2. QED
      BY <1>1, <2>1, <3>1
  <2>2. CASE ~(i <= Len(file))
    <3>1. i - Len(file) \in Nat
      BY <1>1, <2>2
    <3>2. QED
      BY <1>2, <2>2, <3>1
  <2>3. QED
    BY <2>1, <2>2
<1>4. w \in [1 .. (Len(file) + n) -> Nat]
  BY <1>3 DEF AppendCells
<1>5. \A i \in 1 .. (Len(file) + n) :
        w[i] = IF i <= Len(file) THEN file[i] ELSE CellAt(pad, i - Len(file))
  BY DEF AppendCells
<1>6. w \in Seq(Nat) /\ Len(w) = Len(file) + n
  BY <1>1, <1>4, SeqOfFunction
<1>7. QED
  BY <1>5, <1>6 DEF Cell

(* A file that is continued with the first n of the k cells that hold the  *)
(* bytes behind it                                                         *)
LEMMA AppendCellsCounts ==
  ASSUME NEW file \in Seq(Cell), NEW pad \in PadType, NEW k \in Nat,
         k <= Size(pad), NEW n \in Nat, n <= k,
         Counts(file, Len(file), 0), Counts(pad.v, k, Len(file)),
         NEW w, w = AppendCells(file, pad, n)
  PROVE  Counts(w, Len(file) + n, 0)
<1>1. /\ Len(file) \in Nat /\ Len(pad.v) = Size(pad) /\ Size(pad) \in Nat
  BY PadFields DEF Cell
<1>2. \A i \in 1 .. (Len(file) + n) :
        w[i] = IF i <= Len(file) THEN file[i] ELSE CellAt(pad, i - Len(file))
  BY DEF AppendCells
<1>3. ASSUME NEW i \in 1 .. (Len(file) + n)
      PROVE  w[i] = 0 + i
  <2>1. CASE i <= Len(file)
    <3>1. i \in 1 .. Len(file)
      BY <1>1, <2>1
    <3>2. file[i] = 0 + i
      BY <3>1 DEF Counts
    <3>3. w[i] = file[i]
      BY <1>2, <2>1
    <3>4. QED
      BY <3>2, <3>3
  <2>2. CASE ~(i <= Len(file))
    <3> DEFINE j == i - Len(file)
    <3>1. j \in 1 .. k /\ j \in 1 .. Len(pad.v) /\ Len(file) + j = i
      BY <1>1, <2>2
    <3>2. w[i] = CellAt(pad, j)
      BY <1>2, <2>2
    <3> HIDE DEF j
    <3>3. CellAt(pad, j) = pad.v[j]
      BY <3>1 DEF CellAt
    <3>4. pad.v[j] = Len(file) + j
      BY <3>1 DEF Counts
    <3>5. QED
      BY <3>1, <3>2, <3>3, <3>4
  <2>3. QED
    BY <2>1, <2>2
<1>4. QED
  BY <1>3 DEF Counts

(* A file that holds the first bytes, continued with the client's next     *)
LEMMA AppendStreamCounts ==
  ASSUME NEW file \in Seq(Cell), NEW n \in Nat, Counts(file, Len(file), 0),
         NEW w, w = AppendStream(file, Len(file), n)
  PROVE  /\ w \in Seq(Cell) /\ Len(w) = Len(file) + n
         /\ Counts(w, Len(file) + n, 0)
<1>1. Len(file) \in Nat /\ Len(file) + n \in Nat /\ file \in Seq(Nat)
  BY DEF Cell
<1>2. ASSUME NEW i \in 1 .. (Len(file) + n)
      PROVE  (IF i <= Len(file) THEN file[i]
                                ELSE Len(file) + (i - Len(file))) = i
  <2>1. CASE i <= Len(file)
    <3>1. i \in 1 .. Len(file)
      BY <1>1, <2>1
    <3>2. file[i] = 0 + i
      BY <3>1 DEF Counts
    <3>3. QED
      BY <2>1, <3>2
  <2>2. CASE ~(i <= Len(file))
    BY <1>1, <2>2
  <2>3. QED
    BY <2>1, <2>2
<1>3. \A i \in 1 .. (Len(file) + n) :
        w[i] = IF i <= Len(file) THEN file[i] ELSE Len(file) + (i - Len(file))
  BY DEF AppendStream
<1>4. \A i \in 1 .. (Len(file) + n) : w[i] = i
  BY <1>2, <1>3
<1>5. w \in [1 .. (Len(file) + n) -> Nat]
  BY <1>2 DEF AppendStream
<1>6. w \in Seq(Nat) /\ Len(w) = Len(file) + n
  BY <1>1, <1>5, SeqOfFunction
<1>7. QED
  BY <1>4, <1>6 DEF Counts, Cell

(***************************************************************************)
(* Backends: records of a pad and a file                                   *)
(***************************************************************************)

(* The parts of a backend. *)
LEMMA BackendFields ==
  ASSUME NEW pad \in PadType, NEW file \in Seq(Cell),
         NEW b, b = [pad |-> pad, file |-> file]
  PROVE  /\ b \in BackendType /\ b.pad = pad /\ b.file = file
         /\ PadBegin(b) = pad.off /\ PadEnd(b) = Size(pad)
         /\ Written(b) = Len(file)
BY DEF BackendType, PadBegin, PadEnd, Written

(* What the accessors of a backend return. *)
LEMMA BackendParts ==
  ASSUME NEW b \in BackendType
  PROVE  /\ b.pad \in PadType /\ b.file \in Seq(Cell)
         /\ PadBegin(b) = b.pad.off /\ PadEnd(b) = Size(b.pad)
         /\ Written(b) = Len(b.file)
         /\ PadBegin(b) \in Nat /\ PadEnd(b) \in Nat /\ Written(b) \in Nat
<1>1. b.pad \in PadType /\ b.file \in Seq(Cell)
  BY DEF BackendType
<1>2. PadBegin(b) = b.pad.off /\ PadEnd(b) = Size(b.pad)
  BY DEF PadBegin, PadEnd
<1>3. Written(b) = Len(b.file) /\ Written(b) \in Nat
  BY <1>1 DEF Written
<1>4. QED
  BY <1>1, <1>2, <1>3, PadFields

(* A backend of which only the head has moved                              *)
LEMMA MovedHolds ==
  ASSUME NEW b \in BackendType, NEW forget \in Nat,
         NEW m, m = WithPad(b, IncrementHead(b.pad, forget))
  PROVE  /\ m \in BackendType
         /\ m.pad = IncrementHead(b.pad, forget) /\ m.pad \in PadType
         /\ m.file = b.file
         /\ PadBegin(m) = PadBegin(b) + forget /\ PadEnd(m) = PadEnd(b)
         /\ Written(m) = Written(b)
         /\ \A n, pos : Holds(b, n, pos) => Holds(m, n, pos)
<1> DEFINE p == IncrementHead(b.pad, forget)
<1>1. /\ b.pad \in PadType /\ b.file \in Seq(Cell)
      /\ PadBegin(b) = b.pad.off /\ PadEnd(b) = Size(b.pad)
      /\ Written(b) = Len(b.file)
  BY BackendParts
<1>2. /\ p \in PadType /\ p.v = b.pad.v /\ p.off = b.pad.off + forget
      /\ Size(p) = Size(b.pad)
  BY <1>1, IncrementHeadCells
<1>3. m = [pad |-> p, file |-> b.file]
  BY DEF WithPad
<1> HIDE DEF p
<1>4. /\ m \in BackendType /\ m.pad = p /\ m.file = b.file
      /\ PadBegin(m) = p.off /\ PadEnd(m) = Size(p)
      /\ Written(m) = Len(b.file)
  BY <1>1, <1>2, <1>3, BackendFields
<1>5. PadBegin(m) = PadBegin(b) + forget /\ PadEnd(m) = PadEnd(b)
  BY <1>1, <1>2, <1>4
<1>6. Written(m) = Written(b) /\ m.pad.v = b.pad.v
  BY <1>1, <1>2, <1>4
<1>7. \A n, pos : Holds(b, n, pos) => Holds(m, n, pos)
  BY <1>4, <1>5, <1>6 DEF Holds
<1>8. QED
  BY <1>2, <1>4, <1>5, <1>6, <1>7 DEF p

(* A backend of which the pad has grown                                    *)
LEMMA GrownHolds ==
  ASSUME NEW b \in BackendType, NEW k \in Nat,
         NEW m, m = WithPad(b, AddTail(b.pad, k))
  PROVE  /\ m \in BackendType /\ m.file = b.file
         /\ PadBegin(m) = PadBegin(b) /\ PadEnd(m) = PadEnd(b) + k
         /\ Written(m) = Written(b)
         /\ \A n, pos : Holds(b, n, pos) => Holds(m, n, pos)
<1> DEFINE p == AddTail(b.pad, k)
<1>1. /\ b.pad \in PadType /\ b.file \in Seq(Cell)
      /\ PadBegin(b) = b.pad.off /\ PadEnd(b) = Size(b.pad)
      /\ Written(b) = Len(b.file) /\ PadEnd(b) \in Nat /\ Written(b) \in Nat
  BY BackendParts
<1>2. /\ p \in PadType /\ p.off = b.pad.off /\ Size(p) = Size(b.pad) + k
      /\ \A n \in Nat, from \in Nat :
           n <= Size(b.pad) /\ Counts(b.pad.v, n, from) => Counts(p.v, n, from)
  BY <1>1, AddTailCells
<1>3. m = [pad |-> p, file |-> b.file]
  BY DEF WithPad
<1> HIDE DEF p
<1>4. /\ m \in BackendType /\ m.pad = p /\ m.file = b.file
      /\ PadBegin(m) = p.off /\ PadEnd(m) = Size(p)
      /\ Written(m) = Len(b.file)
  BY <1>1, <1>2, <1>3, BackendFields
<1>5. PadBegin(m) = PadBegin(b) /\ PadEnd(m) = PadEnd(b) + k
  BY <1>1, <1>2, <1>4
<1>6. Written(m) = Written(b)
  BY <1>1, <1>4
<1>7. ASSUME NEW n, NEW pos, Holds(b, n, pos)
      PROVE  Holds(m, n, pos)
  <2>1. /\ n \in 0 .. PadEnd(b) /\ Written(b) + n = pos
        /\ Counts(b.file, Written(b), 0) /\ Counts(b.pad.v, n, Written(b))
    BY <1>7 DEF Holds
  <2>2. n \in Nat /\ n <= Size(b.pad) /\ n \in 0 .. PadEnd(m)
    BY <1>1, <1>5, <2>1
  <2>3. Counts(m.pad.v, n, Written(b))
    BY <1>1, <1>2, <1>4, <2>1, <2>2
  <2>4. QED
    BY <1>4, <1>6, <2>1, <2>2, <2>3 DEF Holds
<1>8. QED
  BY <1>4, <1>5, <1>6, <1>7

(* prepare_write() keeps every byte, those behind the old begin_ included, *)
(* and makes the room it is asked for.                                     *)
LEMMA PrepareWriteHolds ==
  ASSUME NEW b \in BackendType, NEW forget \in Nat, NEW want \in Nat,
         NEW pos \in Nat, Holds(b, PadBegin(b) + forget, pos),
         NEW c, c = PrepareWrite(b, forget, want)
  PROVE  /\ c \in BackendType
         /\ PadBegin(c) = PadBegin(b) + forget
         /\ Kind = "memory" => PadEnd(c) = PadEnd(b)
         /\ Kind # "memory" => PadEnd(c) = PadEnd(b) + RoundUp(want)
         /\ c.file = b.file
         /\ Holds(c, PadBegin(c), pos)
<1> DEFINE m == WithPad(b, IncrementHead(b.pad, forget))
<1>1. /\ m \in BackendType
      /\ m.pad = IncrementHead(b.pad, forget)
      /\ m.file = b.file
      /\ PadBegin(m) = PadBegin(b) + forget /\ PadEnd(m) = PadEnd(b)
      /\ Holds(m, PadBegin(m), pos)
  BY MovedHolds
<1>2. c = IF Kind = "memory" THEN m ELSE WithPad(m, AddTail(m.pad, RoundUp(want)))
  BY <1>1 DEF PrepareWrite, WithPad
<1> HIDE DEF m
<1>3. CASE Kind = "memory"
  BY <1>1, <1>2, <1>3
<1>4. CASE Kind # "memory"
  <2>1. PICK k \in Nat : k = RoundUp(want)
    BY RoundUpBounds
  <2>2. c = WithPad(m, AddTail(m.pad, k))
    BY <1>2, <1>4, <2>1
  <2>3. /\ c \in BackendType /\ c.file = m.file
        /\ PadBegin(c) = PadBegin(m)
        /\ PadEnd(c) = PadEnd(m) + k
        /\ Holds(m, PadBegin(m), pos) => Holds(c, PadBegin(m), pos)
    BY <1>1, <2>2, GrownHolds
  <2>4. QED
    BY <1>1, <1>4, <2>1, <2>3
<1>5. QED
  BY <1>3, <1>4

(* A copy behind the last byte held appends the client's next bytes.       *)
LEMMA StoreHolds ==
  ASSUME NEW b \in BackendType, NEW at \in Nat, NEW n \in Nat,
         NEW pos \in Nat, Holds(b, at, pos), at + n <= PadEnd(b),
         NEW c, c = Store(b, at, pos, n)
  PROVE  /\ c \in BackendType
         /\ PadBegin(c) = PadBegin(b)
         /\ PadEnd(c) = PadEnd(b)
         /\ c.file = b.file
         /\ Holds(c, at + n, pos + n)
<1> DEFINE p == CopyIn(b.pad, at, pos, n)
<1>1. /\ b.pad \in PadType /\ b.file \in Seq(Cell)
      /\ PadBegin(b) = b.pad.off /\ PadEnd(b) = Size(b.pad)
      /\ Written(b) = Len(b.file) /\ PadEnd(b) \in Nat /\ Written(b) \in Nat
  BY BackendParts
<1>2. /\ Written(b) + at = pos
      /\ Counts(b.file, Written(b), 0) /\ Counts(b.pad.v, at, Written(b))
  BY DEF Holds
<1>3. /\ p \in PadType /\ p.off = b.pad.off /\ Size(p) = Size(b.pad)
      /\ \A from \in Nat :
           /\ at + n <= Size(b.pad)
           /\ from + at = pos
           /\ Counts(b.pad.v, at, from)
           => Counts(p.v, at + n, from)
  BY <1>1, CopyInCells
<1>4. c = [pad |-> p, file |-> b.file]
  BY DEF Store, WithPad
<1> HIDE DEF p
<1>5. /\ c \in BackendType /\ c.pad = p /\ c.file = b.file
      /\ PadBegin(c) = p.off /\ PadEnd(c) = Size(p)
      /\ Written(c) = Len(b.file)
  BY <1>1, <1>3, <1>4, BackendFields
<1>6. Counts(c.pad.v, at + n, Written(b))
  BY <1>1, <1>2, <1>3, <1>5
<1>7. /\ at + n \in 0 .. PadEnd(b) /\ Written(b) + (at + n) = pos + n
  <2>1. PadEnd(b) \in Nat /\ Written(b) \in Nat /\ Written(b) + at = pos
    BY <1>1, <1>2
  <2>2. QED
    BY <2>1
<1>A. PadEnd(c) = PadEnd(b)
  BY <1>1, <1>3, <1>5
<1>8. PadEnd(c) = PadEnd(b) /\ Written(c) = Written(b)
  BY <1>1, <1>5, <1>A
<1>9. Holds(c, at + n, pos + n)
  BY <1>2, <1>5, <1>6, <1>7, <1>8 DEF Holds
<1>10. QED
  BY <1>1, <1>3, <1>5, <1>9

(* Writing the first n cells of the pad to the file continues the stream.  *)
LEMMA AppendCellsHolds ==
  ASSUME NEW b \in BackendType, NEW k \in Nat, NEW pos \in Nat,
         Holds(b, k, pos), NEW n \in Nat, n <= k,
         NEW file, file = AppendCells(b.file, b.pad, n)
  PROVE  /\ file \in Seq(Cell)
         /\ Len(file) = Written(b) + n
         /\ Counts(file, Len(file), 0)
<1>1. /\ b.pad \in PadType /\ b.file \in Seq(Cell)
      /\ PadEnd(b) = Size(b.pad) /\ Written(b) = Len(b.file)
      /\ PadEnd(b) \in Nat
  BY BackendParts
<1>2. /\ k \in 0 .. PadEnd(b)
      /\ Counts(b.file, Len(b.file), 0) /\ Counts(b.pad.v, k, Len(b.file))
  BY <1>1 DEF Holds
<1>3. k <= Size(b.pad)
  BY <1>1, <1>2
<1>4. PICK f : f = b.file
  OBVIOUS
<1>5. /\ f \in Seq(Cell) /\ file = AppendCells(f, b.pad, n)
      /\ Counts(f, Len(f), 0) /\ Counts(b.pad.v, k, Len(f))
      /\ Written(b) = Len(f)
  BY <1>1, <1>2, <1>4
<1>6. file \in Seq(Cell) /\ Len(file) = Len(f) + n
  BY <1>1, <1>5, AppendCellsType
<1>7. Counts(file, Len(f) + n, 0)
  BY <1>1, <1>3, <1>5, AppendCellsCounts
<1>8. QED
  BY <1>5, <1>6, <1>7

(* write_some() moves whole blocks from the pad to the file: nothing is    *)
(* lost or repeated, and less than a block stays in front of begin_.       *)
LEMMA WriteSomeFile ==
  ASSUME NEW b \in BackendType, NEW forget \in Nat, NEW pos \in Nat,
         Kind = "file",
         NEW head \in Nat, head = PadBegin(b) + forget, Holds(b, head, pos),
         NEW full, full = WholeBlocks(head),
         NEW c, c = WriteSome(b, forget)
  PROVE  /\ c \in BackendType
         /\ Holds(c, PadBegin(c), pos)
         /\ PadEnd(c) = PadEnd(b) - full
         /\ PadBegin(c) = head - full
<1>1. PadBegin(b) \in Nat /\ PadEnd(b) \in Nat /\ Written(b) \in Nat
  BY BackendParts
<1>3. head <= PadEnd(b) /\ Written(b) + head = pos
  BY DEF Holds
<1>4. full \in Nat /\ full <= head
  BY WholeBlocksBounds
<1>5. PICK m : m = WithPad(b, IncrementHead(b.pad, forget))
  OBVIOUS
<1>6. /\ m \in BackendType
      /\ m.pad = IncrementHead(b.pad, forget) /\ m.pad \in PadType
      /\ m.file = b.file
      /\ PadBegin(m) = head /\ PadEnd(m) = PadEnd(b)
      /\ Written(m) = Written(b)
      /\ Holds(m, head, pos)
  <2>1. /\ m \in BackendType
        /\ m.pad = IncrementHead(b.pad, forget) /\ m.pad \in PadType
        /\ m.file = b.file
        /\ PadBegin(m) = PadBegin(b) + forget /\ PadEnd(m) = PadEnd(b)
        /\ Written(m) = Written(b)
    BY <1>5, MovedHolds
  <2>2. Holds(m, head, pos)
    BY <1>5, MovedHolds
  <2>3. QED
    BY <2>1, <2>2
<1>7. m.pad.off = head
  BY <1>6, BackendParts
<1>8. PICK rest : rest = ForgetPrelude(m.pad, full)
  OBVIOUS
<1>9. PICK file : file = AppendCells(m.file, m.pad, full)
  OBVIOUS
<1>10. c = [pad |-> rest, file |-> file]
  BY <1>6, <1>7, <1>8, <1>9 DEF WriteSome
<1>11. Size(m.pad) = PadEnd(b)
  BY <1>6, BackendParts
<1>12. /\ rest \in PadType /\ rest.off = head - full
       /\ Size(rest) = PadEnd(b) - full
       /\ \A n \in Nat, from \in Nat :
            full <= n /\ n <= PadEnd(b) /\ Counts(m.pad.v, n, from) =>
              Counts(rest.v, n - full, from + full)
  BY <1>3, <1>4, <1>6, <1>7, <1>8, <1>11, ForgetPreludeCells
<1>13. /\ file \in Seq(Cell) /\ Len(file) = Written(b) + full
       /\ Counts(file, Len(file), 0)
  BY <1>4, <1>6, <1>9, AppendCellsHolds
<1>14. /\ c \in BackendType /\ c.pad = rest /\ c.file = file
       /\ PadBegin(c) = rest.off /\ PadEnd(c) = Size(rest)
       /\ Written(c) = Len(file)
  BY <1>10, <1>12, <1>13, BackendFields
<1>15. Counts(m.pad.v, head, Written(b))
  BY <1>6 DEF Holds
<1>16. Counts(rest.v, head - full, Written(b) + full)
  BY <1>1, <1>3, <1>4, <1>12, <1>15
<1>17. PadBegin(c) = head - full /\ PadEnd(c) = PadEnd(b) - full
  BY <1>12, <1>14
<1>18. Written(c) = Written(b) + full
  BY <1>13, <1>14
<1>19. PadBegin(c) \in 0 .. PadEnd(c)
  BY <1>1, <1>3, <1>4, <1>17
<1>20. Written(c) + PadBegin(c) = pos
  BY <1>1, <1>3, <1>4, <1>17, <1>18
<1>21. Counts(c.pad.v, PadBegin(c), Written(c))
  BY <1>14, <1>16, <1>17, <1>18
<1>22. Counts(c.file, Written(c), 0)
  BY <1>13, <1>14
<1>23. Holds(c, PadBegin(c), pos)
  BY <1>19, <1>20, <1>21, <1>22 DEF Holds
<1>24. QED
  BY <1>14, <1>17, <1>23

(* write_some() passes whole blocks on and loses nothing. *)
LEMMA WriteSomeHolds ==
  ASSUME NEW b \in BackendType, NEW forget \in Nat, NEW pos \in Nat,
         Holds(b, PadBegin(b) + forget, pos),
         NEW c, c = WriteSome(b, forget)
  PROVE  /\ c \in BackendType
         /\ Holds(c, PadBegin(c), pos)
         /\ Spare(c) = PadEnd(b) - (PadBegin(b) + forget)
         /\ Kind = "file" =>
              /\ PadBegin(c) < Inc
              /\ PadBegin(b) + forget < Inc =>
                   PadBegin(c) = PadBegin(b) + forget
              /\ PadBegin(b) + forget = Inc => PadBegin(c) = 0
<1>1. PadBegin(b) \in Nat /\ PadEnd(b) \in Nat /\ Written(b) \in Nat
  BY BackendParts
<1>A. PICK head \in Nat : head = PadBegin(b) + forget
  BY <1>1
<1>2. head = PadBegin(b) + forget /\ Holds(b, head, pos)
  BY <1>A
<1>3. CASE Kind # "file"
  <2>1. c = WithPad(b, IncrementHead(b.pad, forget))
    BY <1>3 DEF WriteSome
  <2>2. /\ c \in BackendType /\ PadBegin(c) = head /\ PadEnd(c) = PadEnd(b)
        /\ Holds(c, head, pos)
    BY <1>2, <2>1, MovedHolds
  <2>3. Spare(c) = PadEnd(b) - head
    BY <2>2 DEF Spare
  <2>4. QED
    BY <1>2, <1>3, <2>2, <2>3
<1>4. CASE Kind = "file"
  <2>1. PICK full : full = WholeBlocks(head)
    OBVIOUS
  <2>2. /\ full \in Nat /\ full <= head /\ head - full < Inc
        /\ head < Inc => full = 0
        /\ head = Inc => full = Inc
    BY <2>1, WholeBlocksBounds, WholeBlocksSmall, WholeBlocksOne
  <2>3. /\ c \in BackendType
        /\ Holds(c, PadBegin(c), pos)
        /\ PadEnd(c) = PadEnd(b) - full
        /\ PadBegin(c) = head - full
    BY <1>2, <1>4, <2>1, WriteSomeFile
  <2>4. Spare(c) = PadEnd(b) - head
    BY <1>1, <2>2, <2>3 DEF Spare
  <2>5. /\ PadBegin(c) < Inc
        /\ head < Inc => PadBegin(c) = head
        /\ head = Inc => PadBegin(c) = 0
    BY <2>2, <2>3, IncNat
  <2>6. QED
    BY <1>2, <2>3, <2>4, <2>5
<1>5. QED
  BY <1>3, <1>4

(* When write_some() throws, the file has got a prefix of the blocks.      *)
LEMMA WriteSomeThrowsPrefix ==
  ASSUME NEW b \in BackendType, NEW forget \in Nat, NEW pos \in Nat,
         Holds(b, PadBegin(b) + forget, pos),
         NEW d \in 0 .. (WriteSomeBytes(b, forget) - 1),
         NEW c, c = WriteSomeThrows(b, forget, d)
  PROVE  c \in BackendType /\ Counts(c.file, Written(c), 0)
<1>1. PadBegin(b) \in Nat
  BY BackendParts
<1>2. PICK head \in Nat : head = PadBegin(b) + forget
  BY <1>1
<1>3. d \in Nat /\ d <= head
  <2>1. PICK full \in Nat : full = WholeBlocks(head) /\ full <= head
    BY WholeBlocksBounds
  <2>2. PICK bytes : bytes = WriteSomeBytes(b, forget)
    OBVIOUS
  <2>3. bytes \in {0, full}
    BY <1>2, <2>1, <2>2 DEF WriteSomeBytes
  <2>4. d \in 0 .. (bytes - 1)
    BY <2>2
  <2>5. QED
    BY <2>1, <2>3, <2>4
<1>4. PICK m : m = WithPad(b, IncrementHead(b.pad, forget))
  OBVIOUS
<1>5. /\ m \in BackendType /\ m.pad = IncrementHead(b.pad, forget)
      /\ m.pad \in PadType /\ m.file = b.file
      /\ Holds(m, head, pos)
  BY <1>2, <1>4, MovedHolds, ZenonT(60)
<1>6. PICK file : file = AppendCells(m.file, m.pad, d)
  OBVIOUS
<1>7. file \in Seq(Cell) /\ Counts(file, Len(file), 0)
  BY <1>3, <1>5, <1>6, AppendCellsHolds
<1>8. c = [pad |-> m.pad, file |-> file]
  BY <1>5, <1>6 DEF WriteSomeThrows
<1>9. c \in BackendType /\ c.file = file /\ Written(c) = Len(file)
  BY <1>5, <1>7, <1>8, BackendFields
<1>10. QED
  BY <1>7, <1>9

(* Writer::write(), as the backends without a write-through use it         *)
LEMMA DefaultWriteHolds ==
  ASSUME NEW b \in BackendType, NEW forget \in Nat, NEW pos \in Nat,
         NEW n \in Nat, Holds(b, PadBegin(b) + forget, pos),
         Kind = "scratchpad", NEW c, c = DefaultWrite(b, forget, pos, n)
  PROVE  c \in BackendType /\ Holds(c, PadBegin(c), pos + n)
<1>1. PadBegin(b) \in Nat /\ PadEnd(b) \in Nat
  BY BackendParts
<1>2. PadBegin(b) + forget <= PadEnd(b)
  BY DEF Holds
<1>3. PICK k \in Nat : k = RoundUp(n) /\ n <= k
  BY RoundUpBounds
<1>4. PICK room : room = PrepareWrite(b, forget, n)
  OBVIOUS
<1>5. /\ room \in BackendType
      /\ PadBegin(room) = PadBegin(b) + forget
      /\ PadEnd(room) = PadEnd(b) + k
      /\ Holds(room, PadBegin(room), pos)
  BY <1>3, <1>4, PrepareWriteHolds
<1>6. PadBegin(room) \in Nat /\ PadBegin(room) + n <= PadEnd(room)
  BY <1>1, <1>2, <1>3, <1>5
<1>7. PICK kept : kept = Store(room, PadBegin(room), pos, n)
  OBVIOUS
<1>8. /\ kept \in BackendType
      /\ PadBegin(kept) = PadBegin(room)
      /\ Holds(kept, PadBegin(room) + n, pos + n)
  BY <1>5, <1>6, <1>7, StoreHolds
<1>9. Holds(kept, PadBegin(kept) + n, pos + n) /\ pos + n \in Nat
  BY <1>8
<1>10. c = WriteSome(kept, n)
  BY <1>4, <1>7 DEF DefaultWrite
<1>11. QED
  BY <1>8, <1>9, <1>10, WriteSomeHolds

(* Growing the pad by k cells and filling them keeps what is in front.     *)
LEMMA CompletedHolds ==
  ASSUME NEW b \in BackendType, NEW pos \in Nat, NEW k \in Nat,
         Holds(b, PadBegin(b), pos),
         NEW c, c = Completed(b, pos, k)
  PROVE  /\ c \in BackendType
         /\ PadBegin(c) = PadBegin(b)
         /\ PadEnd(c) = PadEnd(b) + k
         /\ Holds(c, PadBegin(b) + k, pos + k)
<1>1. PadBegin(b) \in Nat /\ PadEnd(b) \in Nat
  BY BackendParts
<1>2. PICK at \in Nat : at = PadBegin(b)
  BY <1>1
<1>3. at <= PadEnd(b) /\ Holds(b, at, pos)
  BY <1>2 DEF Holds
<1>4. PICK room : room = WithPad(b, AddTail(b.pad, k))
  OBVIOUS
<1>5. /\ room \in BackendType
      /\ PadBegin(room) = at /\ PadEnd(room) = PadEnd(b) + k
      /\ Holds(room, at, pos)
  BY <1>2, <1>3, <1>4, GrownHolds
<1>6. c = Store(room, at, pos, k)
  BY <1>2, <1>4 DEF Completed
<1>7. at + k <= PadEnd(room)
  BY <1>1, <1>3, <1>5
<1>8. /\ c \in BackendType
      /\ PadBegin(c) = PadBegin(room)
      /\ PadEnd(c) = PadEnd(room)
      /\ Holds(c, at + k, pos + k)
  BY <1>5, <1>6, <1>7, StoreHolds
<1>9. QED
  BY <1>2, <1>5, <1>8

(* Sink_File::write(), first half: without unreported bytes in front of    *)
(* begin_, the block the pad holds a part of is completed and written.     *)
LEMMA CompleteBlockHolds ==
  ASSUME NEW b \in BackendType, NEW pos \in Nat, NEW n \in Nat,
         Kind = "file", Holds(b, PadBegin(b), pos), PadBegin(b) < Inc, n >= Inc,
         NEW c, c = CompleteBlock(b, 0, pos, n),
         NEW k, k = Missing(b, n)
  PROVE  /\ k \in Nat /\ k <= n
         /\ c \in BackendType
         /\ PadBegin(c) = 0
         /\ Spare(c) = Spare(b)
         /\ Holds(c, 0, pos + k)
<1>1. PadBegin(b) \in Nat /\ PadEnd(b) \in Nat
  BY BackendParts
<1>2. PICK at \in Nat : at = PadBegin(b)
  BY <1>1
<1>3. at < Inc /\ Holds(b, at, pos)
  BY <1>2
<1>4. PadBegin(b) % Inc = at
  BY <1>2, <1>3, WholeBlocksSmall
<1>5. CASE at = 0
  <2>1. k = 0 /\ c = b
    <3>1. PadBegin(b) % Inc = 0
      BY <1>4, <1>5
    <3>2. QED
      BY <3>1, Zenon DEF Missing, CompleteBlock
  <2>2. PadBegin(b) = 0 /\ Holds(b, 0, pos)
    BY <1>2, <1>3, <1>5
  <2>3. pos + 0 = pos /\ 0 <= n /\ 0 \in Nat
    OBVIOUS
  <2>4. QED
    BY <2>1, <2>2, <2>3, Zenon
<1>6. CASE at # 0
  <2>1. k = Inc - at
    BY <1>3, <1>4, <1>6, IncNat DEF Missing, Smaller
  <2>2. k \in Nat /\ k <= n /\ at + k = Inc
    BY <1>3, <2>1, IncNat
  <2>3. PICK full : full = Completed(b, pos, k)
    OBVIOUS
  <2>4. c = WriteSome(full, k)
    BY <1>4, <1>6, <2>2, <2>3 DEF CompleteBlock
  <2>5. /\ full \in BackendType
        /\ PadBegin(full) = PadBegin(b)
        /\ PadEnd(full) = PadEnd(b) + k
        /\ Holds(full, PadBegin(b) + k, pos + k)
    BY <2>2, <2>3, CompletedHolds
  <2>6. PadBegin(full) + k = Inc /\ pos + k \in Nat
    BY <1>2, <2>2, <2>5
  <2>7. Holds(full, PadBegin(full) + k, pos + k)
    BY <2>5
  <2>8. /\ c \in BackendType
        /\ Holds(c, PadBegin(c), pos + k)
        /\ Spare(c) = PadEnd(full) - (PadBegin(full) + k)
        /\ PadBegin(c) = 0
    BY <2>2, <2>4, <2>5, <2>6, <2>7, WriteSomeHolds
  <2>9. Spare(c) = Spare(b)
    <3>1. Spare(c) = (PadEnd(b) + k) - (PadBegin(b) + k)
      BY <2>5, <2>8
    <3>2. QED
      BY <1>1, <2>2, <3>1 DEF Spare
  <2>10. QED
    BY <2>2, <2>8, <2>9
<1>7. QED
  BY <1>5, <1>6

(* Sink_File::write(), second half                                         *)
LEMMA ThroughBlocksHolds ==
  ASSUME NEW b \in BackendType, NEW pos \in Nat, NEW n \in Nat,
         PadBegin(b) = 0, Holds(b, 0, pos),
         NEW c, c = ThroughBlocks(b, pos, n)
  PROVE  /\ c \in BackendType
         /\ Holds(c, PadBegin(c), pos + n)
         /\ PadBegin(c) < Inc
         /\ Spare(c) = Spare(b)
<1>1. /\ b.pad \in PadType /\ b.file \in Seq(Cell)
      /\ PadBegin(b) = b.pad.off /\ PadEnd(b) = Size(b.pad)
      /\ Written(b) = Len(b.file) /\ PadEnd(b) \in Nat
  BY BackendParts
<1>2. PICK full \in Nat : full = WholeBlocks(n) /\ full <= n /\ n - full < Inc
  BY WholeBlocksBounds
<1>3. PICK rest \in Nat : rest = n - full
  BY <1>2
<1>4. rest < Inc /\ pos + full + rest = pos + n
  BY <1>2, <1>3
<1>5. Written(b) = pos /\ Counts(b.file, Written(b), 0)
  BY <1>1 DEF Holds
<1>6. PICK f : f = b.file
  OBVIOUS
<1>7. f \in Seq(Cell) /\ Len(f) = pos /\ Counts(f, Len(f), 0)
  BY <1>1, <1>5, <1>6
<1>8. PICK file : file = AppendStream(f, Len(f), full)
  OBVIOUS
<1>9. /\ file \in Seq(Cell) /\ Len(file) = Len(f) + full
      /\ Counts(file, Len(f) + full, 0)
  BY <1>7, <1>8, AppendStreamCounts
<1>10. PICK pad : pad = AddTail(b.pad, rest)
  OBVIOUS
<1>11. pad \in PadType /\ pad.off = 0 /\ Size(pad) = PadEnd(b) + rest
  <2>1. PICK p \in PadType : p = b.pad /\ p.off = 0 /\ Size(p) = PadEnd(b)
    BY <1>1
  <2>2. pad = AddTail(p, rest)
    BY <1>10, <2>1
  <2>3. pad \in PadType /\ pad.off = p.off /\ Size(pad) = Size(p) + rest
    BY <2>2, AddTailCells
  <2>4. QED
    BY <2>1, <2>3
<1>12. PICK room : room = [pad |-> pad, file |-> file]
  OBVIOUS
<1>13. /\ room \in BackendType /\ room.file = file
       /\ PadBegin(room) = 0 /\ PadEnd(room) = PadEnd(b) + rest
       /\ Written(room) = pos + full
  <2>1. /\ room \in BackendType /\ room.pad = pad /\ room.file = file
        /\ PadBegin(room) = pad.off /\ PadEnd(room) = Size(pad)
        /\ Written(room) = Len(file)
    BY <1>9, <1>11, <1>12, BackendFields
  <2>2. Len(file) = pos + full
    BY <1>7, <1>9
  <2>3. QED
    BY <1>11, <2>1, <2>2
<1>14. Holds(room, 0, pos + full)
  <2>1. Counts(file, pos + full, 0)
    BY <1>7, <1>9
  <2>2. Counts(room.pad.v, 0, Written(room))
    BY DEF Counts
  <2>3. 0 \in 0 .. PadEnd(room) /\ Written(room) + 0 = pos + full
    BY <1>1, <1>13
  <2>4. QED
    BY <1>13, <2>1, <2>2, <2>3 DEF Holds
<1>15. PICK kept : kept = Store(room, 0, pos + full, rest)
  OBVIOUS
<1>16. /\ kept \in BackendType
       /\ PadBegin(kept) = 0 /\ PadEnd(kept) = PadEnd(b) + rest
       /\ Holds(kept, rest, pos + n)
  <2>1. 0 + rest <= PadEnd(room) /\ 0 + rest = rest
    BY <1>1, <1>13
  <2>2. PICK q \in Nat : q = pos + full
    OBVIOUS
  <2>3. Holds(room, 0, q) /\ kept = Store(room, 0, q, rest)
    BY <1>14, <1>15, <2>2
  <2>4. /\ kept \in BackendType
        /\ PadBegin(kept) = PadBegin(room) /\ PadEnd(kept) = PadEnd(room)
        /\ Holds(kept, 0 + rest, q + rest)
    BY <1>13, <2>1, <2>3, StoreHolds
  <2>5. q + rest = pos + n
    BY <1>4, <2>2
  <2>6. QED
    BY <1>13, <2>1, <2>4, <2>5
<1>17. c = WithPad(kept, IncrementHead(kept.pad, rest))
  <2>1. PadBegin(b) = 0
    OBVIOUS
  <2>2. room = [pad |-> AddTail(b.pad, rest),
                file |-> AppendStream(b.file, pos, full)]
    BY <1>6, <1>7, <1>8, <1>10, <1>12
  <2>3. QED
    BY <1>2, <1>3, <1>15, <2>1, <2>2 DEF ThroughBlocks
<1>18. /\ c \in BackendType
       /\ PadBegin(c) = 0 + rest /\ PadEnd(c) = PadEnd(b) + rest
       /\ Holds(c, rest, pos + n)
  BY <1>16, <1>17, MovedHolds
<1>19. PadBegin(c) = rest
  BY <1>18
<1>20. Spare(c) = Spare(b)
  BY <1>1, <1>18, <1>19 DEF Spare
<1>21. QED
  BY <1>4, <1>18, <1>19, <1>20

(* Sink_File::write() with nothing unreported loses nothing. *)
LEMMA SinkWriteHolds ==
  ASSUME NEW b \in BackendType, NEW pos \in Nat, NEW n \in Nat,
         Kind = "file", Holds(b, PadBegin(b), pos), PadBegin(b) < Inc, n >= Inc,
         NEW c, c = SinkWrite(b, 0, pos, n)
  PROVE  /\ c \in BackendType
         /\ Holds(c, PadBegin(c), pos + n)
         /\ PadBegin(c) < Inc
         /\ Spare(c) = Spare(b)
         /\ BlockComplete(b, 0, pos, n)
<1>1. PICK k : k = Missing(b, n)
  OBVIOUS
<1>2. PICK done : done = CompleteBlock(b, 0, pos, n)
  OBVIOUS
<1>3. /\ k \in Nat /\ k <= n
      /\ done \in BackendType
      /\ PadBegin(done) = 0
      /\ Spare(done) = Spare(b)
      /\ Holds(done, 0, pos + k)
  BY <1>1, <1>2, CompleteBlockHolds
<1>4. PICK m \in Nat, q \in Nat : m = n - k /\ q = pos + k /\ q + m = pos + n
  BY <1>3
<1>5. c = ThroughBlocks(done, q, m)
  BY <1>1, <1>2, <1>4 DEF SinkWrite
<1>6. /\ c \in BackendType
      /\ Holds(c, PadBegin(c), q + m)
      /\ PadBegin(c) < Inc
      /\ Spare(c) = Spare(done)
  <2>1. Holds(done, 0, q)
    BY <1>3, <1>4
  <2>2. QED
    BY <1>3, <1>5, <2>1, ThroughBlocksHolds
<1>7. BlockComplete(b, 0, pos, n)
  BY <1>2, <1>3 DEF BlockComplete
<1>8. QED
  BY <1>3, <1>4, <1>6, <1>7

(* The blocks a throwing Sink_File::write() has written through            *)
LEMMA ThroughThrowsPrefix ==
  ASSUME NEW b \in BackendType, NEW pos \in Nat, NEW d \in Nat,
         Holds(b, 0, pos),
         NEW c, c = [pad |-> b.pad, file |-> AppendStream(b.file, pos, d)]
  PROVE  c \in BackendType /\ Counts(c.file, Written(c), 0)
<1>1. /\ b.pad \in PadType /\ b.file \in Seq(Cell)
      /\ Written(b) = Len(b.file) /\ Written(b) \in Nat
  BY BackendParts
<1>2. Written(b) = pos /\ Counts(b.file, Written(b), 0)
  BY <1>1 DEF Holds
<1>3. PICK f : f = b.file
  OBVIOUS
<1>4. f \in Seq(Cell) /\ Len(f) = pos /\ Counts(f, Len(f), 0)
  BY <1>1, <1>2, <1>3
<1>5. PICK w : w = AppendStream(f, Len(f), d)
  OBVIOUS
<1>6. w \in Seq(Cell) /\ Len(w) = Len(f) + d /\ Counts(w, Len(f) + d, 0)
  BY <1>4, <1>5, AppendStreamCounts
<1>7. Counts(w, Len(w), 0)
  BY <1>6
<1>8. c = [pad |-> b.pad, file |-> w]
  BY <1>3, <1>4, <1>5
<1>9. c \in BackendType /\ c.file = w /\ Written(c) = Len(w)
  BY <1>1, <1>6, <1>8, BackendFields
<1>10. QED
  BY <1>7, <1>9

(* flush() empties the pad of a file, behind what the file has got.        *)
LEMMA FlushBackendHolds ==
  ASSUME NEW b \in BackendType, NEW pos \in Nat, Holds(b, PadBegin(b), pos),
         NEW c, c = FlushBackend(b)
  PROVE  /\ c \in BackendType
         /\ Holds(c, PadBegin(c), pos)
         /\ Kind = "file" => PadBegin(c) = 0 /\ PadEnd(c) = 0
         /\ Kind # "file" => c = b
<1>1. PadBegin(b) \in Nat /\ Written(b) \in Nat
  BY BackendParts
<1>2. CASE Kind # "file"
  <2>1. c = b
    BY <1>2 DEF FlushBackend
  <2>2. QED
    BY <1>2, <2>1
<1>3. CASE Kind = "file"
  <2>1. PICK at \in Nat : at = PadBegin(b)
    BY <1>1
  <2>2. Holds(b, at, pos) /\ Written(b) + at = pos
    BY <2>1 DEF Holds
  <2>3. PICK file : file = AppendCells(b.file, b.pad, at)
    OBVIOUS
  <2>4. /\ file \in Seq(Cell) /\ Len(file) = Written(b) + at
        /\ Counts(file, Len(file), 0)
    BY <2>2, <2>3, AppendCellsHolds
  <2>5. PICK pad : pad = [v |-> << >>, off |-> 0]
    OBVIOUS
  <2>6. pad \in PadType /\ pad.off = 0 /\ Size(pad) = 0
    <3>1. << >> \in Seq(Nat) /\ Len(<< >>) = 0 /\ 0 \in Nat
      OBVIOUS
    <3>2. QED
      BY <2>5, <3>1, PadOf
  <2>7. c = [pad |-> pad, file |-> file]
    BY <1>3, <2>1, <2>3, <2>5 DEF FlushBackend, EmptyPad
  <2>8. /\ c \in BackendType /\ c.file = file
        /\ PadBegin(c) = pad.off /\ PadEnd(c) = Size(pad)
        /\ Written(c) = Len(file)
    BY <2>4, <2>6, <2>7, BackendFields
  <2>9. PadBegin(c) = 0 /\ PadEnd(c) = 0 /\ Written(c) = pos
    BY <2>2, <2>4, <2>6, <2>8
  <2>10. Counts(c.pad.v, 0, pos)
    BY DEF Counts
  <2>11. Counts(c.file, Written(c), 0)
    BY <2>4, <2>8
  <2>12. Holds(c, PadBegin(c), pos)
    BY <2>9, <2>10, <2>11 DEF Holds
  <2>13. QED
    BY <1>3, <2>8, <2>9, <2>12
<1>4. QED
  BY <1>2, <1>3

(* The backend's flush() fails: a prefix of the stream is in the file       *)
LEMMA FlushThrowsPrefix ==
  ASSUME NEW b \in BackendType, NEW pos \in Nat, Holds(b, PadBegin(b), pos),
         NEW d \in 0 .. (FlushBytes(b) - 1), NEW c, c = FlushThrows(b, d)
  PROVE  c \in BackendType /\ Counts(c.file, Written(c), 0)
<1>1. b.pad \in PadType /\ PadBegin(b) \in Nat
  BY BackendParts
<1>2. d \in Nat /\ d <= PadBegin(b)
  BY <1>1 DEF FlushBytes
<1>3. PICK file : file = AppendCells(b.file, b.pad, d)
  OBVIOUS
<1>4. file \in Seq(Cell) /\ Counts(file, Len(file), 0)
  BY <1>1, <1>2, <1>3, AppendCellsHolds
<1>5. c = [pad |-> b.pad, file |-> file]
  BY <1>3 DEF FlushThrows
<1>6. c \in BackendType /\ c.file = file /\ Written(c) = Len(file)
  BY <1>1, <1>4, <1>5, BackendFields
<1>7. QED
  BY <1>4, <1>6

(* A sequence whose entries count from 1 is the stream. *)
LEMMA StreamOf ==
  ASSUME NEW file \in Seq(Cell), NEW n \in Nat, Len(file) = n,
         Counts(file, n, 0)
  PROVE  file = Stream(n)
<1>1. file = [i \in 1 .. n |-> file[i]]
  BY DEF Cell
<1>2. ASSUME NEW i \in 1 .. n
      PROVE  file[i] = i
  <2>1. file[i] = 0 + i
    BY DEF Counts
  <2>2. QED
    BY <2>1
<1>3. QED
  BY <1>1, <1>2 DEF Stream

(* What Holds() means for the content as a whole                           *)
LEMMA HoldsContent ==
  ASSUME NEW b \in BackendType, NEW n \in Nat, NEW pos \in Nat,
         Holds(b, n, pos)
  PROVE  Content(b, n) = Stream(pos)
<1>1. PICK file : file = AppendCells(b.file, b.pad, n)
  OBVIOUS
<1>2. file \in Seq(Cell) /\ Len(file) = Written(b) + n /\ Counts(file, Len(file), 0)
  BY <1>1, AppendCellsHolds
<1>3. Len(file) = pos
  BY <1>2 DEF Holds
<1>4. file = Stream(pos)
  BY <1>2, <1>3, StreamOf
<1>5. QED
  BY <1>1, <1>4 DEF Content

(* A store of no bytes                                                     *)
LEMMA StoreNothing ==
  ASSUME NEW b \in BackendType, NEW at \in Nat, NEW pos \in Nat
  PROVE  Store(b, at, pos, 0) = b
<1>1. PICK v, off : b.pad = [v |-> v, off |-> off] /\ v \in Seq(Nat)
  BY DEF BackendType, PadType, Cell
<1>2. b.pad.v = v /\ b.pad.off = off
  BY <1>1
<1>3. PICK w : w = [i \in 1 .. Len(v) |->
                      IF i \in (at + 1) .. (at + 0) THEN pos + (i - at)
                                                    ELSE v[i]]
  OBVIOUS
<1>4. (at + 1) .. (at + 0) = {}
  OBVIOUS
<1>5. w = [i \in 1 .. Len(v) |-> v[i]]
  BY <1>3, <1>4, Zenon
<1>6. v = [i \in 1 .. Len(v) |-> v[i]]
  BY <1>1
<1>7. CopyIn(b.pad, at, pos, 0) = [v |-> w, off |-> off]
  BY <1>2, <1>3 DEF CopyIn
<1>8. CopyIn(b.pad, at, pos, 0) = b.pad
  BY <1>1, <1>5, <1>6, <1>7
<1>9. b = [pad |-> b.pad, file |-> b.file]
  BY DEF BackendType
<1>10. QED
  BY <1>8, <1>9 DEF Store, WithPad

(***************************************************************************)
(* Types alone, for the states behind an I/O error, of which Holds() says  *)
(* nothing                                                                 *)
(***************************************************************************)

(* forget_prelude, even of more cells than there are                       *)
LEMMA ForgetPreludeType ==
  ASSUME NEW pad \in PadType, NEW k \in Nat, k <= pad.off,
         NEW c, c = ForgetPrelude(pad, k)
  PROVE  c \in PadType
<1> DEFINE w == [i \in 1 .. (Len(pad.v) - k) |-> pad.v[i + k]]
<1>1. /\ pad.v \in Seq(Nat) /\ Len(pad.v) = Size(pad) /\ Size(pad) \in Nat
      /\ pad.off \in Nat
  BY PadFields
<1>2. w \in Seq(Nat)
  <2>1. CASE k <= Size(pad)
    <3>1. Len(pad.v) - k \in Nat
      BY <1>1, <2>1
    <3>2. ASSUME NEW i \in 1 .. (Len(pad.v) - k)
          PROVE  pad.v[i + k] \in Nat
      <4>1. i + k \in 1 .. Len(pad.v)
        BY <1>1, <2>1
      <4>2. QED
        BY <1>1, <4>1
    <3>3. w \in [1 .. (Len(pad.v) - k) -> Nat]
      BY <3>2
    <3> HIDE DEF w
    <3>4. QED
      BY <3>1, <3>3, SeqOfFunction
  <2>2. CASE ~(k <= Size(pad))
    <3>1. 1 .. (Len(pad.v) - k) = 1 .. 0
      BY <1>1, <2>2
    <3>2. w \in [1 .. 0 -> Nat] /\ 0 \in Nat
      BY <3>1
    <3> HIDE DEF w
    <3>3. QED
      BY <3>2, SeqOfFunction
  <2>3. QED
    BY <2>1, <2>2
<1>3. PICK off \in Nat : off = pad.off - k
  BY <1>1
<1>4. c = [v |-> w, off |-> off]
  BY <1>3 DEF ForgetPrelude
<1> HIDE DEF w
<1>5. QED
  BY <1>2, <1>4, PadOf

(* write_some() returns a backend. *)
LEMMA WriteSomeType ==
  ASSUME NEW b \in BackendType, NEW forget \in Nat,
         NEW c, c = WriteSome(b, forget)
  PROVE  c \in BackendType
<1>1. PICK m : m = WithPad(b, IncrementHead(b.pad, forget))
  OBVIOUS
<1>2. /\ m \in BackendType /\ m.pad = IncrementHead(b.pad, forget)
      /\ m.pad \in PadType /\ m.file = b.file
  BY <1>1, MovedHolds
<1>3. m.pad.off \in Nat /\ m.file \in Seq(Cell)
  BY <1>2, BackendParts
<1>4. PICK head \in Nat : head = m.pad.off
  BY <1>3
<1>5. PICK full \in Nat : full = WholeBlocks(head) /\ full <= head
  BY WholeBlocksBounds
<1>6. PICK rest : rest = ForgetPrelude(m.pad, full)
  OBVIOUS
<1>7. rest \in PadType
  BY <1>2, <1>4, <1>5, <1>6, ForgetPreludeType
<1>8. PICK file : file = AppendCells(m.file, m.pad, full)
  OBVIOUS
<1>9. file \in Seq(Cell)
  BY <1>2, <1>3, <1>8, AppendCellsType
<1>10. c = IF Kind = "file" THEN [pad |-> rest, file |-> file] ELSE m
  BY <1>1, <1>2, <1>4, <1>5, <1>6, <1>8 DEF WriteSome, WithPad
<1>11. [pad |-> rest, file |-> file] \in BackendType
  BY <1>7, <1>9, BackendFields
<1>12. QED
  BY <1>2, <1>10, <1>11

(* write_some() that throws leaves a backend behind. *)
LEMMA WriteSomeThrowsType ==
  ASSUME NEW b \in BackendType, NEW forget \in Nat, NEW d \in Nat,
         NEW c, c = WriteSomeThrows(b, forget, d)
  PROVE  c \in BackendType
<1>1. PICK m : m = WithPad(b, IncrementHead(b.pad, forget))
  OBVIOUS
<1>2. /\ m.pad = IncrementHead(b.pad, forget) /\ m.pad \in PadType
      /\ m.file = b.file /\ m.file \in Seq(Cell)
  BY <1>1, MovedHolds, BackendParts
<1>3. PICK file : file = AppendCells(m.file, m.pad, d)
  OBVIOUS
<1>4. file \in Seq(Cell)
  BY <1>2, <1>3, AppendCellsType
<1>5. c = [pad |-> m.pad, file |-> file]
  BY <1>2, <1>3 DEF WriteSomeThrows
<1>6. QED
  BY <1>2, <1>4, <1>5, BackendFields

(* flush() leaves a backend behind, whether it throws or not. *)
LEMMA FlushType ==
  ASSUME NEW b \in BackendType
  PROVE  /\ FlushBackend(b) \in BackendType
         /\ \A d \in Nat : FlushThrows(b, d) \in BackendType
<1>1. b.pad \in PadType /\ b.file \in Seq(Cell) /\ PadBegin(b) \in Nat
  BY BackendParts
<1>2. ASSUME NEW d \in Nat
      PROVE  AppendCells(b.file, b.pad, d) \in Seq(Cell)
  BY <1>1, AppendCellsType
<1>3. [v |-> << >>, off |-> 0] \in PadType
  <2>1. << >> \in Seq(Nat) /\ 0 \in Nat
    OBVIOUS
  <2>2. QED
    BY <2>1, PadOf
<1>4. FlushBackend(b) \in BackendType
  <2>1. [pad |-> [v |-> << >>, off |-> 0],
         file |-> AppendCells(b.file, b.pad, PadBegin(b))] \in BackendType
    BY <1>1, <1>2, <1>3, BackendFields
  <2>2. QED
    BY <2>1 DEF FlushBackend, EmptyPad
<1>5. \A d \in Nat : FlushThrows(b, d) \in BackendType
  BY <1>1, <1>2, BackendFields DEF FlushThrows
<1>6. QED
  BY <1>4, <1>5

(***************************************************************************)
(* A writer of which no byte has been bypassed                             *)
(***************************************************************************)

Whole == Sound /\ Intact

(* What the invariant says of a writer that can be called. *)
LEMMA OpenFacts ==
  ASSUME Whole, phase = "open"
  PROVE  /\ TypeOK
         /\ ~ioError
         /\ failedAsserts = {}
         /\ backend \in BackendType
         /\ localPos \in Nat
         /\ globalPos \in Nat
         /\ PadBegin(backend) \in Nat
         /\ PadEnd(backend) \in Nat
         /\ Holds(backend, PadBegin(backend) + localPos, globalPos)
         /\ PadBegin(backend) + localPos <= PadEnd(backend)
         /\ Attached \/ Detached
         /\ Kind = "file" => Attached
         /\ Kind = "file" => FilePadOpen
         /\ Room \in Nat
         /\ Room <= PadEnd(backend) - (PadBegin(backend) + localPos)
         /\ Attached =>
              Room = PadEnd(backend) - (PadBegin(backend) + localPos)
         /\ reserved <= Room
         /\ reserved # NoReserve => globalPos + reserved <= MaxBytes
<1>1. TypeOK /\ ~ioError /\ Placed /\ Healthy
  BY DEF Whole, Sound, Intact
<1>2. /\ backend \in BackendType /\ localPos \in Nat /\ globalPos \in Nat
  BY <1>1, SimpleWriterAssumption DEF TypeOK
<1>3. PadBegin(backend) \in Nat /\ PadEnd(backend) \in Nat
  BY <1>2, BackendParts
<1>4. /\ Holds(backend, PadBegin(backend) + localPos, globalPos)
      /\ Attached \/ Detached
      /\ Kind = "file" => Attached
      /\ Kind = "file" => FilePadOpen
      /\ failedAsserts = {}
      /\ reserved <= Room
  BY <1>1 DEF Placed, Healthy
<1>5. PadBegin(backend) + localPos <= PadEnd(backend)
  BY <1>4 DEF Holds
<1>6. /\ Room \in Nat
      /\ Room <= PadEnd(backend) - (PadBegin(backend) + localPos)
      /\ Attached =>
           Room = PadEnd(backend) - (PadBegin(backend) + localPos)
  BY <1>2, <1>3, <1>4, <1>5 DEF Attached, Detached, Room
<1>7. QED
  BY <1>1, <1>2, <1>3, <1>4, <1>5, <1>6 DEF Whole, Sound, Intact

(* The parts of it a step of an open writer has to establish again         *)
LEMMA OpenAgain ==
  ASSUME Whole, phase = "open", bypassed' \in BOOLEAN,
         phase' = "open", ioError' = ioError,
         failedAsserts' = failedAsserts,
         backend' \in BackendType,
         localPos' \in Nat, globalPos' \in 0 .. MaxBytes,
         doWrite' \in BOOLEAN, reserved' \in {NoReserve} \cup 0 .. MaxReserve,
         Holds(backend', PadBegin(backend') + localPos', globalPos'),
         Attached' \/ Detached',
         Kind = "file" => Attached',
         Kind = "file" => FilePadOpen',
         reserved' <= Room',
         reserved' # NoReserve => globalPos' + reserved' <= MaxBytes
  PROVE  Whole'
<1>1. ~ioError /\ ioError \in BOOLEAN /\ failedAsserts = {}
  BY OpenFacts DEF TypeOK
<1>2. /\ PadBegin(backend') \in Nat /\ PadEnd(backend') \in Nat
  BY BackendParts
<1>3. begin' \in Nat /\ end' \in Nat
  BY <1>2 DEF Attached, Detached
<1>4. TypeOK'
  BY <1>1, <1>3 DEF TypeOK, Phases
<1>5. Placed' /\ Healthy'
  <2>1. PadBegin(backend') + localPos' <= PadEnd(backend')
    BY DEF Holds
  <2>2. QED
    BY <1>1, <2>1 DEF Placed, Healthy, HeadAssertion
<1>6. TornPrefix'
  BY DEF TornPrefix
<1>7. QED
  BY <1>1, <1>4, <1>5, <1>6 DEF Whole, Sound, Intact

(* assert(off_ <= v_.size()) when the head moves within the pad            *)
LEMMA HeadFacts ==
  ASSUME NEW b \in BackendType, NEW forget \in Nat,
         PadBegin(b) + forget <= PadEnd(b)
  PROVE  HeadHolds(b, forget)
<1>1. PICK p : p = IncrementHead(b.pad, forget)
  OBVIOUS
<1>2. b.pad \in PadType /\ PadBegin(b) = b.pad.off /\ PadEnd(b) = Size(b.pad)
  BY BackendParts
<1>3. p.off = b.pad.off + forget /\ Size(p) = Size(b.pad)
  BY <1>1, <1>2, IncrementHeadCells
<1>4. p.off <= Size(p)
  BY <1>2, <1>3
<1>5. QED
  BY <1>1, <1>4 DEF HeadHolds, HeadInPad

(* prepare_write() makes the room it is asked for, and the assertion of    *)
(* increment_head holds.                                                   *)
LEMMA PreparedFacts ==
  ASSUME Whole, phase = "open", NEW n \in Nat, Room < n,
         NEW c, c = Prepared(n)
  PROVE  /\ c \in BackendType
         /\ PadBegin(c) = PadBegin(backend) + localPos
         /\ PadBegin(c) \in Nat /\ PadEnd(c) \in Nat
         /\ Holds(c, PadBegin(c), globalPos)
         /\ Kind # "memory" => Spare(c) >= n
         /\ Kind = "file" => Spare(c) < n + Inc
         /\ Spare(c) \in Nat
         /\ HeadHolds(backend, localPos)
<1> DEFINE want == n - Room
<1>1. want \in Nat
  BY OpenFacts
<1>2. /\ backend \in BackendType /\ localPos \in Nat /\ globalPos \in Nat
      /\ PadBegin(backend) \in Nat /\ PadEnd(backend) \in Nat
      /\ Holds(backend, PadBegin(backend) + localPos, globalPos)
      /\ PadBegin(backend) + localPos <= PadEnd(backend)
      /\ Room \in Nat
      /\ Room <= PadEnd(backend) - (PadBegin(backend) + localPos)
      /\ Attached =>
           Room = PadEnd(backend) - (PadBegin(backend) + localPos)
      /\ Kind = "file" => Attached
  BY OpenFacts
<1>3. c = PrepareWrite(backend, localPos, want)
  BY DEF Prepared
<1>4. /\ RoundUp(want) \in Nat /\ want <= RoundUp(want)
      /\ RoundUp(want) < want + Inc
  <2> HIDE DEF want
  <2>1. QED
    BY <1>1, RoundUpBounds
<1>5. want + Room = n
  BY <1>2
<1> HIDE DEF want
<1>6. /\ c \in BackendType
      /\ PadBegin(c) = PadBegin(backend) + localPos
      /\ Kind = "memory" => PadEnd(c) = PadEnd(backend)
      /\ Kind # "memory" =>
           PadEnd(c) = PadEnd(backend) + RoundUp(want)
      /\ Holds(c, PadBegin(c), globalPos)
  BY <1>1, <1>2, <1>3, PrepareWriteHolds
<1>7. PadBegin(c) \in Nat /\ PadEnd(c) \in Nat
  BY <1>6, BackendParts
<1>8. Inc \in Nat
  BY WriterAssumption
<1>9. Spare(c) \in Nat
  BY <1>6, <1>7 DEF Spare, Holds
<1>10. ASSUME Kind # "memory"
       PROVE  Spare(c) >= n
  <2> DEFINE free == PadEnd(backend) - (PadBegin(backend) + localPos)
  <2>1. free \in Nat /\ Room \in Nat /\ Room <= free
    BY <1>2
  <2>2. /\ PadEnd(c) = PadEnd(backend) + RoundUp(want)
        /\ PadBegin(c) = PadBegin(backend) + localPos
    BY <1>6, <1>10
  <2>3. Spare(c) = PadEnd(c) - PadBegin(c)
    BY DEF Spare
  <2>4. Spare(c) = free + RoundUp(want)
    BY <1>2, <1>4, <2>2, <2>3
  <2> HIDE DEF free
  <2>5. QED
    BY <1>1, <1>4, <1>5, <2>1, <2>4
<1>11. ASSUME Kind = "file"
       PROVE  Spare(c) < n + Inc
  <2>1. Room = PadEnd(backend) - (PadBegin(backend) + localPos)
    BY <1>2, <1>11
  <2>2. Spare(c) = Room + RoundUp(want)
    BY <1>2, <1>4, <1>6, <1>11, <2>1 DEF Spare
  <2>3. QED
    BY <1>1, <1>2, <1>4, <1>5, <1>8, <2>2
<1>12. HeadHolds(backend, localPos)
  BY <1>2, HeadFacts
<1>13. QED
  BY <1>6, <1>7, <1>9, <1>10, <1>11, <1>12

(* A client stores at begin_ no more than there is room for.               *)
LEMMA StoredFacts ==
  ASSUME Whole, phase = "open", NEW n \in Nat, n <= Room,
         NEW c, c = Store(backend, begin, globalPos, n)
  PROVE  /\ c \in BackendType
         /\ PadBegin(c) = PadBegin(backend)
         /\ PadEnd(c) = PadEnd(backend)
         /\ Holds(c, PadBegin(c) + (localPos + n), globalPos + n)
         /\ Attached \/ (Detached /\ n = 0)
<1>1. /\ backend \in BackendType /\ localPos \in Nat /\ globalPos \in Nat
      /\ PadBegin(backend) \in Nat /\ PadEnd(backend) \in Nat
      /\ Holds(backend, PadBegin(backend) + localPos, globalPos)
      /\ Attached \/ Detached
      /\ Room \in Nat
      /\ Room <= PadEnd(backend) - (PadBegin(backend) + localPos)
  BY OpenFacts
<1>2. CASE Attached
  <2>1. begin = PadBegin(backend) + localPos /\ begin \in Nat
    BY <1>1, <1>2 DEF Attached
  <2>2. Room = PadEnd(backend) - begin
    BY <1>2 DEF Attached, Room
  <2>3. begin + n <= PadEnd(backend)
    <3>1. PadEnd(backend) \in Nat
      BY <1>1
    <3>2. QED
      BY <2>1, <2>2, <3>1
  <2>4. Holds(backend, begin, globalPos)
    BY <1>1, <2>1
  <2>5. backend \in BackendType /\ globalPos \in Nat
    BY <1>1
  <2>6. /\ c \in BackendType
        /\ PadBegin(c) = PadBegin(backend)
        /\ PadEnd(c) = PadEnd(backend)
        /\ Holds(c, begin + n, globalPos + n)
    BY <2>1, <2>3, <2>4, <2>5, StoreHolds
  <2>7. begin + n = PadBegin(c) + (localPos + n)
    BY <1>1, <2>1, <2>6
  <2>8. QED
    BY <1>2, <2>6, <2>7
<1>3. CASE Detached
  <2>1. n = 0 /\ begin \in Nat
    BY <1>1, <1>3 DEF Detached, Room
  <2>2. c = backend
    BY <1>1, <2>1, StoreNothing
  <2>3. localPos + n = localPos /\ globalPos + n = globalPos
    BY <1>1, <2>1
  <2>4. QED
    BY <1>1, <1>3, <2>1, <2>2, <2>3
<1>4. QED
  BY <1>1, <1>2, <1>3

(* What is reported with write_some() is in the file, or in the prelude;   *)
(* the window is set to the rest.                                          *)
LEMMA ReportedFacts ==
  ASSUME NEW b \in BackendType, NEW forget \in Nat, NEW pos \in Nat,
         Holds(b, PadBegin(b) + forget, pos),
         NEW c, c = WriteSome(b, forget)
  PROVE  /\ c \in BackendType
         /\ PadBegin(c) \in Nat /\ PadEnd(c) \in Nat
         /\ Holds(c, PadBegin(c), pos)
         /\ Spare(c) = Spare(b) - forget
         /\ Kind = "file" => PadBegin(c) < Inc
         /\ HeadHolds(b, forget)
<1>1. /\ b.pad \in PadType /\ PadBegin(b) \in Nat /\ PadEnd(b) \in Nat
  BY BackendParts
<1>2. /\ c \in BackendType /\ Holds(c, PadBegin(c), pos)
      /\ Spare(c) = PadEnd(b) - (PadBegin(b) + forget)
      /\ Kind = "file" => PadBegin(c) < Inc
  BY WriteSomeHolds
<1>3. PadBegin(c) \in Nat /\ PadEnd(c) \in Nat
  BY <1>2, BackendParts
<1>4. Spare(c) = Spare(b) - forget
  BY <1>1, <1>2 DEF Spare
<1>5. PadBegin(b) + forget <= PadEnd(b)
  BY DEF Holds
<1>6. HeadHolds(b, forget)
  BY <1>1, <1>5, HeadFacts
<1>7. QED
  BY <1>2, <1>3, <1>4, <1>6

(* The parts of it a step that throws has to establish                     *)
LEMMA ThrownFacts ==
  ASSUME Whole, phase = "open", phase' = "thrown", ioError' = TRUE,
         bypassed' \in BOOLEAN,
         backend' \in BackendType,
         Counts(backend'.file, Written(backend'), 0),
         localPos' \in Nat, globalPos' \in 0 .. MaxBytes,
         begin' \in Nat, end' \in Nat, doWrite' \in BOOLEAN,
         reserved' = NoReserve,
         failedAsserts' \subseteq {"increment_head", "write"}
  PROVE  Whole'
<1>1. TypeOK'
  BY DEF TypeOK, Phases
<1>2. TornPrefix'
  <2>1. /\ backend'.file \in Seq(Cell) /\ Written(backend') \in Nat
        /\ Written(backend') = Len(backend'.file)
    BY BackendParts
  <2>2. backend'.file = Stream(Written(backend'))
    BY <2>1, StreamOf
  <2>3. QED
    BY <2>2 DEF TornPrefix
<1>3. QED
  BY <1>1, <1>2 DEF Whole, Sound, Intact

(***************************************************************************)
(* Each action preserves Whole, if it bypasses no byte                     *)
(***************************************************************************)

(* write() into the window preserves the invariant. *)
LEMMA WriteFitsPreserves ==
  ASSUME Whole, bypassed' \in BOOLEAN, NEW n \in Nat, WriteFits(n)
  PROVE  Whole'
<1>1. /\ phase = "open" /\ reserved = NoReserve /\ n <= Room
      /\ globalPos + n <= MaxBytes
      /\ backend' = Store(backend, begin, globalPos, n)
      /\ begin' = begin + n /\ end' = end
      /\ localPos' = localPos + n /\ globalPos' = globalPos + n
      /\ phase' = phase /\ ioError' = ioError /\ doWrite' = doWrite
      /\ reserved' = reserved /\ failedAsserts' = failedAsserts
  BY DEF WriteFits, Idle, MayAccept, NoThrow
<1>2. /\ localPos \in Nat /\ globalPos \in Nat /\ doWrite \in BOOLEAN
      /\ PadBegin(backend) \in Nat /\ PadEnd(backend) \in Nat
      /\ Room \in Nat /\ begin \in Nat /\ end \in Nat
      /\ Kind = "file" => Attached /\ FilePadOpen
  BY <1>1, OpenFacts DEF TypeOK
<1>3. /\ backend' \in BackendType
      /\ PadBegin(backend') = PadBegin(backend)
      /\ PadEnd(backend') = PadEnd(backend)
      /\ Holds(backend', PadBegin(backend') + localPos', globalPos')
      /\ Attached \/ (Detached /\ n = 0)
  BY <1>1, StoredFacts
<1>4. Attached => Attached'
  BY <1>1, <1>2, <1>3 DEF Attached
<1>5. Detached /\ n = 0 => Detached'
  BY <1>1 DEF Detached
<1>6. Kind = "file" => FilePadOpen'
  BY <1>1, <1>2, <1>3 DEF FilePadOpen, Spare
<1>7. NoReserve <= Room'
  BY <1>1, <1>2 DEF Room, NoReserve
<1>8. globalPos' \in 0 .. MaxBytes /\ localPos' \in Nat
  BY <1>1, <1>2, SimpleWriterAssumption
<1>9. QED
  BY <1>1, <1>2, <1>3, <1>4, <1>5, <1>6, <1>7, <1>8, OpenAgain

(* write() across the end of the window preserves it. *)
LEMMA WriteGrowsPreserves ==
  ASSUME Whole, bypassed' \in BOOLEAN, NEW n \in Nat, WriteGrows(n)
  PROVE  Whole'
<1> DEFINE room == Prepared(n)
           full == Store(room, PadBegin(room), globalPos, n)
<1>1. /\ phase = "open" /\ reserved = NoReserve /\ Room < n
      /\ globalPos + n <= MaxBytes
      /\ Spare(room) >= n
      /\ backend' = WriteSome(full, n)
      /\ begin' = PadBegin(backend') /\ end' = PadEnd(backend')
      /\ localPos' = 0 /\ globalPos' = globalPos + n
      /\ failedAsserts' = failedAsserts \cup
           (IF HeadHolds(full, n) THEN {} ELSE {"increment_head"})
      /\ phase' = phase /\ ioError' = ioError /\ doWrite' = doWrite
      /\ reserved' = reserved
  BY DEF WriteGrows, Idle, MayAccept, NoThrow, Rewindow, Filled, Evaluate
<1>2. /\ globalPos \in Nat /\ doWrite \in BOOLEAN
      /\ Kind = "file" => FilePadOpen
  BY <1>1, OpenFacts DEF TypeOK
<1>3. /\ room \in BackendType
      /\ PadBegin(room) \in Nat /\ PadEnd(room) \in Nat
      /\ Holds(room, PadBegin(room), globalPos)
      /\ Kind = "file" => Spare(room) < n + Inc
      /\ Spare(room) \in Nat
  BY <1>1, PreparedFacts
<1> HIDE DEF room
<1>4. PadBegin(room) + n <= PadEnd(room)
  BY <1>1, <1>3 DEF Spare
<1> HIDE DEF full
<1>5. /\ full \in BackendType
      /\ PadBegin(full) = PadBegin(room)
      /\ PadEnd(full) = PadEnd(room)
      /\ Holds(full, PadBegin(full) + n, globalPos + n)
  <2>1. full = Store(room, PadBegin(room), globalPos, n)
    BY DEF full
  <2>2. QED
    BY <1>2, <1>3, <1>4, <2>1, StoreHolds
<1>6. /\ backend' \in BackendType
      /\ PadBegin(backend') \in Nat /\ PadEnd(backend') \in Nat
      /\ Holds(backend', PadBegin(backend'), globalPos + n)
      /\ Spare(backend') = Spare(full) - n
      /\ Kind = "file" => PadBegin(backend') < Inc
      /\ HeadHolds(full, n)
  BY <1>1, <1>2, <1>5, ReportedFacts
<1>7. Kind = "file" => Spare(backend') < Inc
  <2>1. Spare(full) = Spare(room)
    BY <1>5 DEF Spare
  <2>2. QED
    BY <1>3, <1>6, <2>1, WriterAssumption
<1>8. Holds(backend', PadBegin(backend') + localPos', globalPos')
  BY <1>1, <1>6
<1>9. Attached'
  BY <1>1, <1>6 DEF Attached
<1>10. Kind = "file" => FilePadOpen'
  <2>1. Kind = "file" => Spare(backend') < Inc + MaxReserve
    <3>1. Kind = "file" => Spare(backend') \in Int
      BY <1>6 DEF Spare
    <3>2. QED
      BY <1>7, <3>1, SimpleWriterAssumption, WriterAssumption
  <2>2. QED
    BY <1>1, <1>2, <1>6, <2>1 DEF FilePadOpen
<1>11. NoReserve <= Room'
  BY <1>1, <1>6, <1>8 DEF Room, NoReserve, Holds
<1>12. failedAsserts' = failedAsserts
  BY <1>1, <1>6
<1>13. globalPos' \in 0 .. MaxBytes
  BY <1>1, <1>2, SimpleWriterAssumption
<1>14. QED
  BY <1>1, <1>2, <1>6, <1>8, <1>9, <1>10, <1>11, <1>12, <1>13, OpenAgain

(* So does one whose write_some() throws. *)
LEMMA WriteGrowsThrowsPreserves ==
  ASSUME Whole, bypassed' \in BOOLEAN, NEW n \in Nat, WriteGrowsThrows(n)
  PROVE  Whole'
<1> DEFINE room == Prepared(n)
           full == Store(room, PadBegin(room), globalPos, n)
<1>1. /\ phase = "open" /\ reserved = NoReserve /\ Room < n
      /\ globalPos + n <= MaxBytes
      /\ Spare(room) >= n
      /\ begin' = PadBegin(room) + n /\ end' = PadEnd(room)
      /\ localPos' = n /\ globalPos' = globalPos + n
      /\ failedAsserts' = failedAsserts \cup
           (IF HeadHolds(full, n) THEN {} ELSE {"increment_head"})
      /\ phase' = "thrown" /\ ioError' = TRUE /\ doWrite' = doWrite
      /\ reserved' = reserved
  BY DEF WriteGrowsThrows, Idle, MayAccept, Throw, Filled, Evaluate
<1>2. PICK d \in 0 .. (WriteSomeBytes(full, n) - 1) :
        backend' = WriteSomeThrows(full, n, d)
  BY DEF WriteGrowsThrows, Filled
<1>3. /\ globalPos \in Nat /\ doWrite \in BOOLEAN /\ failedAsserts = {}
  BY <1>1, OpenFacts DEF TypeOK
<1>4. /\ room \in BackendType
      /\ PadBegin(room) \in Nat /\ PadEnd(room) \in Nat
      /\ Holds(room, PadBegin(room), globalPos)
  BY <1>1, PreparedFacts
<1> HIDE DEF room
<1>5. PadBegin(room) + n <= PadEnd(room)
  BY <1>1, <1>4 DEF Spare
<1> HIDE DEF full
<1>6. /\ full \in BackendType
      /\ Holds(full, PadBegin(full) + n, globalPos + n)
  <2>1. full = Store(room, PadBegin(room), globalPos, n)
    BY DEF full
  <2>2. /\ full \in BackendType
        /\ PadBegin(full) = PadBegin(room)
        /\ PadEnd(full) = PadEnd(room)
        /\ Holds(full, PadBegin(room) + n, globalPos + n)
    BY <1>3, <1>4, <1>5, <2>1, StoreHolds
  <2>3. QED
    BY <2>2
<1>7. /\ backend' \in BackendType
      /\ Counts(backend'.file, Written(backend'), 0)
  BY <1>2, <1>3, <1>6, WriteSomeThrowsPrefix
<1>8. globalPos' \in 0 .. MaxBytes
  BY <1>1, <1>3, SimpleWriterAssumption
<1>9. begin' \in Nat /\ end' \in Nat
  BY <1>1, <1>4
<1>10. failedAsserts' \subseteq {"increment_head", "write"}
  BY <1>1, <1>3
<1>11. QED
  BY <1>1, <1>3, <1>7, <1>8, <1>9, <1>10, ThrownFacts

(* Only a memory range refuses: a file or scratchpad pad has grown.        *)
LEMMA RefuseFacts ==
  ASSUME Whole, phase = "open", reserved = NoReserve, NEW n \in Nat,
         bypassed' \in BOOLEAN, Refuse(n), phase' = "open", ioError' = ioError,
         globalPos' = globalPos, doWrite' \in BOOLEAN, reserved' = reserved,
         failedAsserts' = failedAsserts
  PROVE  Whole'
<1>1. /\ Room < n /\ Spare(Prepared(n)) < n
      /\ backend' = Prepared(n) /\ begin' = PadBegin(backend')
      /\ end' = PadEnd(backend') /\ localPos' = 0
  BY DEF Refuse, Rewindow
<1>2. /\ globalPos \in 0 .. MaxBytes
  BY OpenFacts DEF TypeOK
<1>3. /\ backend' \in BackendType
      /\ PadBegin(backend') \in Nat /\ PadEnd(backend') \in Nat
      /\ Holds(backend', PadBegin(backend'), globalPos)
      /\ Kind # "memory" => Spare(backend') >= n
      /\ Spare(backend') \in Nat
  BY <1>1, PreparedFacts
<1>4. Kind = "memory"
  BY <1>1, <1>3
<1>5. Attached'
  BY <1>1, <1>3 DEF Attached
<1>6. Holds(backend', PadBegin(backend') + localPos', globalPos')
  BY <1>1, <1>3
<1>7. reserved' <= Room'
  BY <1>1, <1>3 DEF Room, NoReserve, Spare
<1>8. QED
  BY <1>1, <1>2, <1>3, <1>4, <1>5, <1>6, <1>7, OpenAgain

(* A range_error for lack of room preserves it. *)
LEMMA RefusedPreserves ==
  ASSUME Whole, bypassed' \in BOOLEAN, NEW n \in Nat,
         WriteRefused(n) \/ BeginWriteRefused(n)
  PROVE  Whole'
<1>1. phase = "open" => doWrite \in BOOLEAN
  BY OpenFacts DEF TypeOK
<1>2. CASE WriteRefused(n)
  BY <1>1, <1>2, RefuseFacts DEF WriteRefused, Idle, NoThrow
<1>3. CASE BeginWriteRefused(n)
  BY <1>1, <1>3, RefuseFacts DEF BeginWriteRefused, Idle, NoThrow
<1>4. QED
  BY <1>2, <1>3

(* A write-through preserves it. *)
LEMMA WriteLargePreserves ==
  ASSUME Whole, bypassed' \in BOOLEAN, NEW n \in LargeSizes, WriteLarge(n),
         Kind = "file" => localPos = 0
  PROVE  Whole'
<1>1. /\ phase = "open" /\ reserved = NoReserve
      /\ globalPos + n <= MaxBytes
      /\ backend' = WriteThrough(backend, localPos, globalPos, n)
      /\ begin' = PadBegin(backend') /\ end' = PadEnd(backend')
      /\ localPos' = 0 /\ globalPos' = globalPos + n
      /\ failedAsserts' = failedAsserts \cup
           (IF BlockComplete(backend, localPos, globalPos, n)
            THEN {} ELSE {"write"})
      /\ phase' = phase /\ ioError' = ioError /\ doWrite' = doWrite
      /\ reserved' = reserved
  BY DEF WriteLarge, Idle, MayAccept, NoThrow, Rewindow, Evaluate
<1>2. /\ backend \in BackendType /\ localPos \in Nat /\ globalPos \in Nat
      /\ doWrite \in BOOLEAN
      /\ PadBegin(backend) \in Nat
      /\ Holds(backend, PadBegin(backend) + localPos, globalPos)
      /\ Kind = "file" => FilePadOpen
  BY <1>1, OpenFacts DEF TypeOK
<1>3. /\ n \in Nat /\ n >= ThroughInc /\ n <= MaxWrite
      /\ Kind \in {"file", "scratchpad"}
  BY SimpleWriterAssumption, WriterAssumption DEF LargeSizes, Kinds
<1>4. ASSUME Kind = "file"
      PROVE  /\ backend' \in BackendType
             /\ Holds(backend', PadBegin(backend'), globalPos + n)
             /\ failedAsserts' = failedAsserts
             /\ Kind = "file" => FilePadOpen'
  <2>1. localPos = 0 /\ ~doWrite /\ PadBegin(backend) < Inc
    BY <1>1, <1>2, <1>4 DEF FilePadOpen
  <2>2. Holds(backend, PadBegin(backend), globalPos)
    BY <1>2, <2>1
  <2>3. n >= Inc
    BY <1>3, <1>4, SimpleWriterAssumption
  <2>4. backend' = SinkWrite(backend, 0, globalPos, n)
    BY <1>1, <1>4, <2>1 DEF WriteThrough
  <2>5. /\ backend' \in BackendType
        /\ Holds(backend', PadBegin(backend'), globalPos + n)
        /\ PadBegin(backend') < Inc
        /\ Spare(backend') = Spare(backend)
        /\ BlockComplete(backend, 0, globalPos, n)
    BY <1>2, <1>3, <1>4, <2>1, <2>2, <2>3, <2>4, SinkWriteHolds
  <2>6. FilePadOpen'
    BY <1>1, <1>2, <1>4, <2>1, <2>5 DEF FilePadOpen
  <2>7. failedAsserts' = failedAsserts
    BY <1>1, <2>1, <2>5
  <2>8. QED
    BY <2>5, <2>6, <2>7
<1>5. ASSUME Kind = "scratchpad"
      PROVE  /\ backend' \in BackendType
             /\ Holds(backend', PadBegin(backend'), globalPos + n)
             /\ failedAsserts' = failedAsserts
             /\ Kind = "file" => FilePadOpen'
  <2>1. backend' = DefaultWrite(backend, localPos, globalPos, n)
    BY <1>1, <1>5 DEF WriteThrough
  <2>2. /\ backend' \in BackendType
        /\ Holds(backend', PadBegin(backend'), globalPos + n)
    BY <1>2, <1>3, <1>5, <2>1, DefaultWriteHolds
  <2>3. failedAsserts' = failedAsserts
    BY <1>1, <1>5 DEF BlockComplete
  <2>4. QED
    BY <1>5, <2>2, <2>3
<1>6. /\ backend' \in BackendType
      /\ Holds(backend', PadBegin(backend'), globalPos + n)
      /\ failedAsserts' = failedAsserts
      /\ Kind = "file" => FilePadOpen'
  BY <1>3, <1>4, <1>5
<1>7. PadBegin(backend') \in Nat /\ PadEnd(backend') \in Nat
  BY <1>6, BackendParts
<1>8. Attached' /\ Holds(backend', PadBegin(backend') + localPos', globalPos')
  BY <1>1, <1>6, <1>7 DEF Attached
<1>9. NoReserve <= Room'
  BY <1>1, <1>6, <1>7 DEF Room, NoReserve, Holds
<1>10. globalPos' \in 0 .. MaxBytes
  BY <1>1, <1>2, <1>3, SimpleWriterAssumption
<1>11. QED
  BY <1>1, <1>2, <1>6, <1>8, <1>9, <1>10, OpenAgain

(* So does a write-through that throws half-way. *)
LEMMA WriteLargeThrowsPreserves ==
  ASSUME Whole, bypassed' \in BOOLEAN, NEW n \in LargeSizes,
         WriteLargeThrows(n), localPos = 0
  PROVE  Whole'
<1>1. PICK k, full, done :
        /\ k = Missing(backend, n)
        /\ full = Completed(backend, globalPos, k)
        /\ done = CompleteBlock(backend, localPos, globalPos, n)
  OBVIOUS
<1>2. /\ Kind = "file" /\ phase = "open" /\ reserved = NoReserve
      /\ phase' = "thrown" /\ ioError' = TRUE
      /\ localPos' = localPos /\ globalPos' = globalPos /\ begin' = begin
      /\ end' = end /\ doWrite' = doWrite /\ reserved' = reserved
  BY DEF WriteLargeThrows, Idle, Throw
<1>3. \/ \E d \in 0 .. (WriteSomeBytes(full, localPos + k) - 1) :
            backend' = WriteSomeThrows(full, localPos + k, d)
      \/ \E d \in 0 .. (WholeBlocks(n - k) - 1) :
            backend' = [pad  |-> done.pad,
                        file |-> AppendStream(done.file, globalPos + k, d)]
  BY <1>1 DEF WriteLargeThrows
<1>4. failedAsserts' = failedAsserts \/ Evaluate("write",
        BlockComplete(backend, localPos, globalPos, n))
  BY DEF WriteLargeThrows
<1>5. /\ backend \in BackendType /\ globalPos \in 0 .. MaxBytes
      /\ globalPos \in Nat /\ begin \in Nat /\ end \in Nat
      /\ doWrite \in BOOLEAN
      /\ PadBegin(backend) \in Nat /\ failedAsserts = {}
      /\ Holds(backend, PadBegin(backend) + localPos, globalPos)
      /\ FilePadOpen
  BY <1>2, OpenFacts DEF TypeOK
<1>6. localPos = 0 /\ PadBegin(backend) < Inc
  BY <1>2, <1>5 DEF FilePadOpen
<1>7. Holds(backend, PadBegin(backend), globalPos)
  BY <1>5, <1>6
<1>8. n \in Nat /\ n >= Inc
  BY <1>2, SimpleWriterAssumption, WriterAssumption DEF LargeSizes
<1>9. /\ k \in Nat /\ k <= n /\ done \in BackendType
      /\ Holds(done, 0, globalPos + k)
  BY <1>1, <1>2, <1>5, <1>6, <1>7, <1>8, CompleteBlockHolds
<1>10. backend' \in BackendType /\ Counts(backend'.file, Written(backend'), 0)
  <2>1. CASE \E d \in 0 .. (WriteSomeBytes(full, localPos + k) - 1) :
               backend' = WriteSomeThrows(full, localPos + k, d)
    <3>1. PICK d \in 0 .. (WriteSomeBytes(full, k) - 1) :
            backend' = WriteSomeThrows(full, k, d)
      BY <1>6, <1>9, <2>1
    <3>2. /\ full \in BackendType /\ PadBegin(full) = PadBegin(backend)
          /\ Holds(full, PadBegin(backend) + k, globalPos + k)
      BY <1>1, <1>5, <1>7, <1>9, CompletedHolds
    <3>3. Holds(full, PadBegin(full) + k, globalPos + k)
      BY <3>2
    <3>4. globalPos + k \in Nat
      BY <1>5, <1>9
    <3>5. QED
      BY <1>9, <3>1, <3>2, <3>3, <3>4, WriteSomeThrowsPrefix
  <2>2. CASE \E d \in 0 .. (WholeBlocks(n - k) - 1) :
               backend' = [pad  |-> done.pad,
                           file |-> AppendStream(done.file, globalPos + k, d)]
    <3>1. PICK d \in 0 .. (WholeBlocks(n - k) - 1) :
            backend' = [pad  |-> done.pad,
                        file |-> AppendStream(done.file, globalPos + k, d)]
      BY <2>2
    <3>2. d \in Nat /\ globalPos + k \in Nat
      BY <1>5, <1>9
    <3>3. QED
      BY <1>9, <3>1, <3>2, ThroughThrowsPrefix
  <2>3. QED
    BY <1>3, <2>1, <2>2
<1>11. failedAsserts' \subseteq {"increment_head", "write"}
  BY <1>4, <1>5 DEF Evaluate
<1>12. QED
  BY <1>2, <1>5, <1>6, <1>10, <1>11, ThrownFacts

(* begin_write() inside of the window preserves it. *)
LEMMA BeginWriteFitsPreserves ==
  ASSUME Whole, bypassed' \in BOOLEAN, NEW n \in 0 .. MaxReserve, BeginWriteFits(n)
  PROVE  Whole'
<1>1. /\ phase = "open" /\ reserved = NoReserve /\ Room >= n
      /\ globalPos + n <= MaxBytes /\ reserved' = n
      /\ phase' = phase /\ ioError' = ioError
      /\ backend' = backend /\ localPos' = localPos /\ globalPos' = globalPos
      /\ begin' = begin /\ end' = end /\ doWrite' = doWrite
      /\ failedAsserts' = failedAsserts
  BY DEF BeginWriteFits, Idle, MayAccept, NoThrow
<1>2. /\ TypeOK /\ backend \in BackendType
      /\ Holds(backend, PadBegin(backend) + localPos, globalPos)
      /\ Attached \/ Detached
      /\ Kind = "file" => Attached
      /\ Kind = "file" => FilePadOpen
  BY <1>1, OpenFacts
<1>3. Attached' = Attached /\ Detached' = Detached /\ Room' = Room
  BY <1>1 DEF Attached, Detached, Room
<1>4. Kind = "file" => FilePadOpen'
  BY <1>1, <1>2, SimpleWriterAssumption DEF FilePadOpen, NoReserve
<1>5. Holds(backend', PadBegin(backend') + localPos', globalPos')
  BY <1>1, <1>2
<1>6. /\ localPos' \in Nat /\ globalPos' \in 0 .. MaxBytes
      /\ doWrite' \in BOOLEAN /\ reserved' \in {NoReserve} \cup 0 .. MaxReserve
      /\ reserved' <= Room'
      /\ backend' \in BackendType
      /\ globalPos' + reserved' <= MaxBytes
  BY <1>1, <1>2, <1>3 DEF TypeOK
<1>7. QED
  BY <1>1, <1>2, <1>3, <1>4, <1>5, <1>6, OpenAgain

(* begin_write() that makes room preserves it. *)
LEMMA BeginWriteGrowsPreserves ==
  ASSUME Whole, bypassed' \in BOOLEAN, NEW n \in 0 .. MaxReserve, BeginWriteGrows(n)
  PROVE  Whole'
<1>1. /\ phase = "open" /\ reserved = NoReserve /\ Room < n
      /\ Spare(Prepared(n)) >= n
      /\ globalPos + n <= MaxBytes
      /\ backend' = Prepared(n) /\ begin' = PadBegin(backend')
      /\ end' = PadEnd(backend') /\ localPos' = 0 /\ doWrite' = TRUE
      /\ reserved' = n /\ globalPos' = globalPos
      /\ failedAsserts' = failedAsserts \cup
           (IF HeadHolds(backend, localPos) THEN {} ELSE {"increment_head"})
      /\ phase' = phase /\ ioError' = ioError
  BY DEF BeginWriteGrows, Idle, MayAccept, NoThrow, Rewindow, Evaluate
<1>2. globalPos \in 0 .. MaxBytes
  BY <1>1, OpenFacts DEF TypeOK
<1>3. n \in Nat /\ n <= MaxReserve
  BY SimpleWriterAssumption
<1>4. /\ backend' \in BackendType
      /\ PadBegin(backend') \in Nat /\ PadEnd(backend') \in Nat
      /\ Holds(backend', PadBegin(backend'), globalPos)
      /\ Kind = "file" => Spare(backend') < n + Inc
      /\ Spare(backend') \in Nat
      /\ HeadHolds(backend, localPos)
  BY <1>1, <1>3, PreparedFacts
<1>5. failedAsserts' = failedAsserts
  BY <1>1, <1>4
<1>6. Attached'
  BY <1>1, <1>4 DEF Attached
<1>7. Kind = "file" => Spare(backend') < Inc + MaxReserve
  BY <1>3, <1>4, SimpleWriterAssumption, WriterAssumption
<1>8. Kind = "file" => FilePadOpen'
  BY <1>1, <1>3, <1>7 DEF FilePadOpen, NoReserve
<1>9. reserved' <= Room'
  BY <1>1, <1>4 DEF Room, Spare
<1>10. Holds(backend', PadBegin(backend') + localPos', globalPos')
  BY <1>1, <1>4
<1>11. /\ reserved' \in {NoReserve} \cup 0 .. MaxReserve
       /\ doWrite' \in BOOLEAN
       /\ localPos' \in Nat /\ globalPos' \in 0 .. MaxBytes
       /\ globalPos' + reserved' <= MaxBytes
  BY <1>1, <1>2
<1>12. QED
  BY <1>1, <1>4, <1>5, <1>6, <1>8, <1>9, <1>10, <1>11, OpenAgain

(* commit_write() without a backend call preserves it. *)
LEMMA CommitWriteKeepsPreserves ==
  ASSUME Whole, bypassed' \in BOOLEAN, NEW n \in 0 .. reserved, CommitWriteKeeps(n)
  PROVE  Whole'
<1>1. /\ phase = "open" /\ ~doWrite
      /\ backend' = Store(backend, begin, globalPos, n)
      /\ begin' = begin + n /\ end' = end
      /\ localPos' = localPos + n /\ globalPos' = globalPos + n
      /\ phase' = phase /\ ioError' = ioError /\ doWrite' = doWrite
      /\ reserved' = NoReserve /\ failedAsserts' = failedAsserts
  BY DEF CommitWriteKeeps, NoThrow, Stored
<1>2. /\ localPos \in Nat /\ globalPos \in Nat /\ doWrite \in BOOLEAN
      /\ PadBegin(backend) \in Nat /\ PadEnd(backend) \in Nat
      /\ Room \in Nat /\ begin \in Nat /\ end \in Nat
      /\ Kind = "file" => Attached /\ FilePadOpen
      /\ reserved \in {NoReserve} \cup 0 .. MaxReserve
      /\ reserved <= Room
      /\ reserved # NoReserve => globalPos + reserved <= MaxBytes
  BY <1>1, OpenFacts DEF TypeOK
<1>3. n \in Nat /\ n <= Room /\ globalPos + n <= MaxBytes
  BY <1>2, SimpleWriterAssumption DEF NoReserve
<1>4. /\ backend' \in BackendType
      /\ PadBegin(backend') = PadBegin(backend)
      /\ PadEnd(backend') = PadEnd(backend)
      /\ Holds(backend', PadBegin(backend') + localPos', globalPos')
      /\ Attached \/ (Detached /\ n = 0)
  BY <1>1, <1>3, StoredFacts
<1>5. Attached => Attached'
  BY <1>1, <1>2, <1>3, <1>4 DEF Attached
<1>6. Detached /\ n = 0 => Detached'
  BY <1>1 DEF Detached
<1>7. Kind = "file" => FilePadOpen'
  BY <1>1, <1>2, <1>4 DEF FilePadOpen, Spare
<1>8. NoReserve <= Room'
  BY <1>1, <1>2, <1>3 DEF Room, NoReserve
<1>9. globalPos' \in 0 .. MaxBytes /\ localPos' \in Nat
  BY <1>1, <1>2, <1>3, SimpleWriterAssumption
<1>10. QED
  BY <1>1, <1>2, <1>4, <1>5, <1>6, <1>7, <1>8, <1>9, OpenAgain

(* commit_write() that writes preserves it. *)
LEMMA CommitWriteWritesPreserves ==
  ASSUME Whole, bypassed' \in BOOLEAN, NEW n \in 0 .. reserved, CommitWriteWrites(n)
  PROVE  Whole'
<1>1. PICK full : full = Store(backend, begin, globalPos, n)
  OBVIOUS
<1>2. /\ phase = "open" /\ backend' = WriteSome(full, localPos + n)
      /\ begin' = PadBegin(backend') /\ end' = PadEnd(backend')
      /\ localPos' = 0 /\ globalPos' = globalPos + n /\ doWrite' = FALSE
      /\ reserved' = NoReserve
      /\ failedAsserts' = failedAsserts \cup
           (IF HeadHolds(full, localPos + n) THEN {} ELSE {"increment_head"})
      /\ phase' = phase /\ ioError' = ioError
  BY <1>1 DEF CommitWriteWrites, NoThrow, Stored, Rewindow, Evaluate
<1>3. /\ localPos \in Nat /\ globalPos \in Nat
      /\ PadBegin(backend) \in Nat /\ PadEnd(backend) \in Nat
      /\ Room \in Nat
      /\ Kind = "file" => FilePadOpen
      /\ reserved \in {NoReserve} \cup 0 .. MaxReserve
      /\ reserved <= Room
      /\ reserved # NoReserve => globalPos + reserved <= MaxBytes
  BY <1>2, OpenFacts DEF TypeOK
<1>4. n \in Nat /\ n <= Room /\ globalPos + n <= MaxBytes
  BY <1>3, SimpleWriterAssumption DEF NoReserve
<1>5. /\ full \in BackendType
      /\ PadBegin(full) = PadBegin(backend)
      /\ PadEnd(full) = PadEnd(backend)
      /\ Holds(full, PadBegin(full) + (localPos + n), globalPos + n)
  BY <1>1, <1>2, <1>4, StoredFacts
<1>6. PICK forget \in Nat, pos \in Nat : forget = localPos + n /\ pos = globalPos + n
  BY <1>3, <1>4
<1>7. /\ backend' \in BackendType
      /\ PadBegin(backend') \in Nat /\ PadEnd(backend') \in Nat
      /\ Holds(backend', PadBegin(backend'), pos)
      /\ Spare(backend') = Spare(full) - forget
      /\ Kind = "file" => PadBegin(backend') < Inc
      /\ HeadHolds(full, forget)
  BY <1>2, <1>5, <1>6, ReportedFacts
<1>8. Spare(backend') <= Spare(backend) /\ Spare(backend') \in Int
      /\ Spare(backend) \in Int
  BY <1>3, <1>5, <1>6, <1>7 DEF Spare
<1>9. Kind = "file" => FilePadOpen'
  <2>1. Kind = "file" =>
          Spare(backend') < 2 * Inc \/ Spare(backend') < Inc + MaxReserve
    <3>1. Kind = "file" =>
            Spare(backend) < 2 * Inc \/ Spare(backend) < Inc + MaxReserve
      BY <1>3 DEF FilePadOpen
    <3>2. QED
      BY <1>8, <3>1, SimpleWriterAssumption, WriterAssumption
  <2>2. QED
    BY <1>2, <1>7, <2>1 DEF FilePadOpen
<1>10. Attached'
  BY <1>2, <1>7 DEF Attached
<1>11. Holds(backend', PadBegin(backend') + localPos', globalPos')
  BY <1>2, <1>6, <1>7
<1>12. NoReserve <= Room'
  BY <1>2, <1>7 DEF Room, NoReserve, Holds
<1>13. failedAsserts' = failedAsserts
  BY <1>2, <1>6, <1>7
<1>14. globalPos' \in 0 .. MaxBytes
  BY <1>2, <1>3, <1>4, SimpleWriterAssumption
<1>15. QED
  BY <1>2, <1>7, <1>9, <1>10, <1>11, <1>12, <1>13, <1>14, OpenAgain

(* commit_write() that throws preserves it. *)
LEMMA CommitWriteThrowsPreserves ==
  ASSUME Whole, bypassed' \in BOOLEAN, NEW n \in 0 .. reserved, CommitWriteThrows(n)
  PROVE  Whole'
<1>1. PICK full : full = Store(backend, begin, globalPos, n)
  OBVIOUS
<1>2. /\ phase = "open"
      /\ begin' = begin + n /\ end' = end /\ localPos' = localPos + n
      /\ globalPos' = globalPos + n /\ doWrite' = doWrite
      /\ reserved' = NoReserve
      /\ failedAsserts' = failedAsserts \cup
           (IF HeadHolds(full, localPos + n) THEN {} ELSE {"increment_head"})
      /\ phase' = "thrown" /\ ioError' = TRUE
  BY <1>1 DEF CommitWriteThrows, Throw, Stored, Evaluate
<1>3. PICK d \in 0 .. (WriteSomeBytes(full, localPos + n) - 1) :
        backend' = WriteSomeThrows(full, localPos + n, d)
  BY <1>1 DEF CommitWriteThrows, Stored
<1>4. /\ localPos \in Nat /\ globalPos \in Nat /\ Room \in Nat
      /\ begin \in Nat /\ end \in Nat /\ doWrite \in BOOLEAN
      /\ failedAsserts = {}
      /\ reserved \in {NoReserve} \cup 0 .. MaxReserve
      /\ reserved <= Room
      /\ reserved # NoReserve => globalPos + reserved <= MaxBytes
  BY <1>2, OpenFacts DEF TypeOK
<1>5. n \in Nat /\ n <= Room /\ globalPos + n <= MaxBytes
  BY <1>4, SimpleWriterAssumption DEF NoReserve
<1>6. /\ full \in BackendType
      /\ Holds(full, PadBegin(full) + (localPos + n), globalPos + n)
  BY <1>1, <1>2, <1>5, StoredFacts
<1>7. PICK forget \in Nat, pos \in Nat : forget = localPos + n /\ pos = globalPos + n
  BY <1>4, <1>5
<1>8. backend' \in BackendType /\ Counts(backend'.file, Written(backend'), 0)
  BY <1>3, <1>6, <1>7, WriteSomeThrowsPrefix
<1>9. /\ globalPos' \in 0 .. MaxBytes /\ localPos' \in Nat /\ begin' \in Nat
      /\ failedAsserts' \subseteq {"increment_head", "write"}
  BY <1>2, <1>4, <1>5, SimpleWriterAssumption
<1>10. QED
  BY <1>2, <1>4, <1>8, <1>9, ThrownFacts

(* What a flush() that returns makes of an open writer                     *)
LEMMA FlushedFacts ==
  ASSUME Whole, phase = "open", FlushReturns
  PROVE  /\ backend' \in BackendType
         /\ localPos' = 0 /\ begin' = 0 /\ end' = 0
         /\ globalPos' = globalPos /\ doWrite' = doWrite
         /\ reserved' = reserved /\ ioError' = ioError
         /\ failedAsserts' = failedAsserts
         /\ Holds(backend', PadBegin(backend') + localPos', globalPos')
         /\ Detached'
         /\ Kind = "file" => Attached'
         /\ Kind = "file" => PadBegin(backend') = 0 /\ PadEnd(backend') = 0
<1>1. PICK told : told = WriteSome(backend, localPos)
  OBVIOUS
<1>2. /\ backend' = FlushBackend(told)
      /\ localPos' = 0 /\ begin' = 0 /\ end' = 0
      /\ failedAsserts' = failedAsserts \cup
           (IF HeadHolds(backend, localPos) THEN {} ELSE {"increment_head"})
      /\ globalPos' = globalPos /\ doWrite' = doWrite
      /\ reserved' = reserved /\ ioError' = ioError
  BY <1>1 DEF FlushReturns, NullWindow, Evaluate
<1>3. /\ backend \in BackendType /\ localPos \in Nat /\ globalPos \in Nat
      /\ Holds(backend, PadBegin(backend) + localPos, globalPos)
  BY OpenFacts
<1>4. /\ told \in BackendType /\ Holds(told, PadBegin(told), globalPos)
      /\ HeadHolds(backend, localPos)
  BY <1>1, <1>3, ReportedFacts
<1>5. /\ backend' \in BackendType
      /\ Holds(backend', PadBegin(backend'), globalPos)
      /\ Kind = "file" => PadBegin(backend') = 0 /\ PadEnd(backend') = 0
  BY <1>2, <1>3, <1>4, FlushBackendHolds
<1>6. PadBegin(backend') \in Nat
  BY <1>5, BackendParts
<1>7. Holds(backend', PadBegin(backend') + localPos', globalPos')
  BY <1>2, <1>5, <1>6
<1>8. Detached' /\ (Kind = "file" => Attached')
  BY <1>2, <1>5 DEF Detached, Attached
<1>9. failedAsserts' = failedAsserts
  BY <1>2, <1>4
<1>10. QED
  BY <1>2, <1>5, <1>7, <1>8, <1>9

(* flush() preserves it. *)
LEMMA FlushPreserves ==
  ASSUME Whole, bypassed' \in BOOLEAN, Flush
  PROVE  Whole'
<1>1. phase = "open" /\ reserved = NoReserve /\ FlushReturns /\ phase' = phase
  BY DEF Flush, Idle
<1>2. /\ globalPos \in 0 .. MaxBytes /\ doWrite \in BOOLEAN
      /\ Kind = "file" => FilePadOpen
  BY <1>1, OpenFacts DEF TypeOK
<1>3. /\ backend' \in BackendType
      /\ localPos' = 0 /\ begin' = 0 /\ end' = 0
      /\ globalPos' = globalPos /\ doWrite' = doWrite
      /\ reserved' = reserved /\ ioError' = ioError
      /\ failedAsserts' = failedAsserts
      /\ Holds(backend', PadBegin(backend') + localPos', globalPos')
      /\ Detached'
      /\ Kind = "file" => Attached'
      /\ Kind = "file" => PadBegin(backend') = 0 /\ PadEnd(backend') = 0
  BY <1>1, FlushedFacts
<1>4. Kind = "file" => Spare(backend') = 0
  BY <1>3 DEF Spare
<1>5. Kind = "file" => FilePadOpen'
  BY <1>1, <1>2, <1>3, <1>4, SimpleWriterAssumption, WriterAssumption
  DEF FilePadOpen
<1>6. NoReserve <= Room'
  BY <1>3 DEF Room, NoReserve
<1>7. QED
  BY <1>1, <1>2, <1>3, <1>5, <1>6, OpenAgain

(* flush() that throws preserves it. *)
LEMMA FlushThrowsOutPreserves ==
  ASSUME Whole, bypassed' \in BOOLEAN, FlushThrowsOut
  PROVE  Whole'
<1>1. PICK told : told = WriteSome(backend, localPos)
  OBVIOUS
<1>2. /\ phase = "open" /\ reserved = NoReserve
      /\ failedAsserts' = failedAsserts \cup
           (IF HeadHolds(backend, localPos) THEN {} ELSE {"increment_head"})
      /\ phase' = "thrown" /\ ioError' = TRUE
      /\ globalPos' = globalPos /\ begin' = begin /\ end' = end
      /\ doWrite' = doWrite /\ reserved' = reserved
  BY DEF FlushThrowsOut, FlushFails, Idle, Evaluate
<1>3. \/ /\ \E d \in 0 .. (WriteSomeBytes(backend, localPos) - 1) :
               backend' = WriteSomeThrows(backend, localPos, d)
         /\ localPos' = localPos
      \/ /\ \E d \in 0 .. (FlushBytes(told) - 1) : backend' = FlushThrows(told, d)
         /\ localPos' = 0
  BY <1>1 DEF FlushThrowsOut, FlushFails
<1>4. /\ backend \in BackendType /\ localPos \in Nat /\ globalPos \in Nat
      /\ globalPos \in 0 .. MaxBytes /\ begin \in Nat /\ end \in Nat
      /\ doWrite \in BOOLEAN /\ failedAsserts = {}
      /\ Holds(backend, PadBegin(backend) + localPos, globalPos)
  BY <1>2, OpenFacts DEF TypeOK
<1>5. told \in BackendType /\ Holds(told, PadBegin(told), globalPos)
  BY <1>1, <1>4, ReportedFacts
<1>6. backend' \in BackendType /\ Counts(backend'.file, Written(backend'), 0)
  <2>1. CASE \E d \in 0 .. (WriteSomeBytes(backend, localPos) - 1) :
               backend' = WriteSomeThrows(backend, localPos, d)
    BY <1>4, <2>1, WriteSomeThrowsPrefix
  <2>2. CASE \E d \in 0 .. (FlushBytes(told) - 1) : backend' = FlushThrows(told, d)
    BY <1>4, <1>5, <2>2, FlushThrowsPrefix
  <2>3. QED
    BY <1>3, <2>1, <2>2
<1>7. localPos' \in Nat /\ failedAsserts' \subseteq {"increment_head", "write"}
  BY <1>2, <1>3, <1>4
<1>8. QED
  BY <1>2, <1>4, <1>6, <1>7, ThrownFacts

(* clear() preserves it. *)
LEMMA ClearPreserves ==
  ASSUME Whole, bypassed' \in BOOLEAN, FileUnused, Clear
  PROVE  Whole'
<1>1. /\ phase = "open" /\ reserved = NoReserve /\ Kind = "scratchpad"
      /\ backend' = [pad |-> [v |-> << >>, off |-> 0], file |-> backend.file]
      /\ localPos' = 0 /\ globalPos' = 0 /\ begin' = 0 /\ end' = 0
      /\ phase' = phase /\ ioError' = ioError /\ doWrite' = doWrite
      /\ reserved' = reserved /\ failedAsserts' = failedAsserts
  BY DEF Clear, Idle, NoThrow, NullWindow, ClearBackend, WithPad, EmptyPad
<1>2. doWrite \in BOOLEAN
  BY <1>1, OpenFacts DEF TypeOK
<1>3. backend.file = << >>
  BY <1>1 DEF FileUnused
<1>4. << >> \in Seq(Nat) /\ << >> \in Seq(Cell) /\ Len(<< >>) = 0 /\ 0 \in Nat
  BY DEF Cell
<1>5. PICK pad \in PadType :
        /\ pad = [v |-> << >>, off |-> 0]
        /\ pad.v = << >> /\ pad.off = 0 /\ Size(pad) = 0
  BY <1>4, PadOf
<1>6. /\ backend' \in BackendType
      /\ PadBegin(backend') = 0 /\ PadEnd(backend') = 0 /\ Written(backend') = 0
  <2>1. PICK file : file = << >>
    OBVIOUS
  <2>2. file \in Seq(Cell) /\ Len(file) = 0
    BY <1>4, <2>1
  <2>3. PICK b : b = [pad |-> pad, file |-> file]
    OBVIOUS
  <2>4. /\ b \in BackendType /\ PadBegin(b) = 0 /\ PadEnd(b) = 0
        /\ Written(b) = 0
    <3>1. pad \in PadType /\ pad.off = 0 /\ Size(pad) = 0
      BY <1>5
    <3>2. QED
      BY <2>2, <2>3, <3>1, BackendFields, ZenonT(40)
  <2>5. backend' = b
    <3>1. backend' = [pad |-> [v |-> << >>, off |-> 0], file |-> backend.file]
      BY <1>1
    <3>2. backend' = [pad |-> pad, file |-> backend.file]
      <4>1. pad = [v |-> << >>, off |-> 0]
        BY <1>5
      <4>2. QED
        BY <3>1, <4>1, Zenon
    <3>3. QED
      BY <1>3, <2>1, <2>3, <3>2, Zenon
  <2>6. QED
    BY <2>4, <2>5
<1>7. Holds(backend', PadBegin(backend') + localPos', globalPos')
  <2>1. \A f, from : Counts(f, 0, from)
    BY DEF Counts
  <2>2. Holds(backend', 0, 0)
    BY <1>6, <2>1 DEF Holds
  <2>3. PadBegin(backend') + localPos' = 0
    BY <1>1, <1>6
  <2>4. QED
    BY <1>1, <2>2, <2>3
<1>8. Detached'
  BY <1>1 DEF Detached
<1>9. NoReserve <= Room'
  BY <1>1 DEF Room, NoReserve
<1>10. globalPos' \in 0 .. MaxBytes
  BY <1>1, SimpleWriterAssumption
<1>11. QED
  BY <1>1, <1>2, <1>6, <1>7, <1>8, <1>9, <1>10, OpenAgain

(* What still holds of a writer that nobody calls any more                 *)
LEMMA FailedFacts ==
  ASSUME Whole, bypassed' \in BOOLEAN,
         backend' \in BackendType, localPos' \in Nat,
         globalPos' = globalPos, reserved' = reserved, doWrite' = doWrite,
         begin' \in Nat, end' \in Nat,
         failedAsserts' \subseteq {"increment_head", "write"},
         phase' \in {"unwound", "closed"}, ioError' = TRUE
  PROVE  Whole'
<1>1. TypeOK'
  BY DEF Whole, Sound, Intact, TypeOK, Phases
<1>2. TornPrefix'
  BY DEF TornPrefix
<1>3. QED
  BY <1>1, <1>2 DEF Whole, Sound, Intact

(* The types alone that a flush() leaves behind, whatever came before      *)
LEMMA FlushTypes ==
  ASSUME TypeOK, FlushReturns \/ FlushFails
  PROVE  /\ backend' \in BackendType /\ localPos' \in Nat
         /\ begin' \in Nat /\ end' \in Nat
         /\ failedAsserts' \subseteq {"increment_head", "write"}
         /\ globalPos' = globalPos /\ reserved' = reserved /\ doWrite' = doWrite
<1>1. PICK told : told = WriteSome(backend, localPos)
  OBVIOUS
<1>2. /\ backend \in BackendType /\ localPos \in Nat /\ begin \in Nat
      /\ end \in Nat /\ failedAsserts \subseteq {"increment_head", "write"}
  BY DEF TypeOK
<1>3. told \in BackendType
  BY <1>1, <1>2, WriteSomeType
<1>4. CASE FlushReturns
  <2>1. /\ backend' = FlushBackend(told) /\ localPos' = 0 /\ begin' = 0
        /\ end' = 0 /\ globalPos' = globalPos /\ reserved' = reserved
        /\ doWrite' = doWrite
        /\ failedAsserts' = failedAsserts \cup
             (IF HeadHolds(backend, localPos) THEN {} ELSE {"increment_head"})
    BY <1>1, <1>4 DEF FlushReturns, NullWindow, Evaluate
  <2>2. backend' \in BackendType
    BY <1>3, <2>1, FlushType
  <2>3. QED
    BY <1>2, <2>1, <2>2
<1>5. CASE FlushFails
  <2>1. /\ begin' = begin /\ end' = end
        /\ globalPos' = globalPos /\ reserved' = reserved
        /\ doWrite' = doWrite
        /\ failedAsserts' = failedAsserts \cup
             (IF HeadHolds(backend, localPos) THEN {} ELSE {"increment_head"})
    BY <1>5 DEF FlushFails, Evaluate
  <2>2. \/ /\ \E d \in Nat : backend' = WriteSomeThrows(backend, localPos, d)
           /\ localPos' = localPos
        \/ /\ \E d \in Nat : backend' = FlushThrows(told, d)
           /\ localPos' = 0
    BY <1>1, <1>5 DEF FlushFails
  <2>3. backend' \in BackendType
    BY <1>2, <1>3, <2>2, WriteSomeThrowsType, FlushType
  <2>4. QED
    BY <1>2, <2>1, <2>2, <2>3
<1>6. QED
  BY <1>4, <1>5

(* The destructor of the writer preserves it. *)
LEMMA DestroyPreserves ==
  ASSUME Whole, bypassed' \in BOOLEAN, Destroy
  PROVE  Whole'
<1>1. /\ phase \in {"open", "thrown"} /\ phase' = "unwound"
      /\ FlushReturns \/ FlushFails
  BY DEF Destroy
<1>2. TypeOK
  BY DEF Whole, Sound, Intact
<1>3. /\ backend' \in BackendType /\ localPos' \in Nat
      /\ begin' \in Nat /\ end' \in Nat
      /\ failedAsserts' \subseteq {"increment_head", "write"}
      /\ globalPos' = globalPos /\ reserved' = reserved /\ doWrite' = doWrite
  BY <1>1, <1>2, FlushTypes
<1>4. CASE ioError'
  <2>1. ioError' = TRUE
    BY <1>1, <1>2, <1>4 DEF FlushReturns, FlushFails, TypeOK
  <2>2. QED
    BY <1>1, <1>3, <2>1, FailedFacts
<1>5. CASE ~ioError'
  <2>1. FlushReturns /\ ~ioError
    BY <1>1, <1>5 DEF FlushReturns, FlushFails
  <2>2. phase = "open"
    BY <1>1, <2>1 DEF Whole, Sound, Placed, Intact, Healthy
  <2>3. /\ localPos' = 0 /\ begin' = 0 /\ end' = 0
        /\ ioError' = ioError
        /\ failedAsserts' = failedAsserts
        /\ Holds(backend', PadBegin(backend') + localPos', globalPos')
        /\ Detached'
        /\ Kind = "file" => Attached'
        /\ Kind = "file" => PadBegin(backend') = 0 /\ PadEnd(backend') = 0
    BY <2>1, <2>2, FlushedFacts
  <2>4. failedAsserts = {}
    BY <2>2, OpenFacts
  <2>5. Placed' /\ Healthy'
    <3>1. PadBegin(backend') + localPos' <= PadEnd(backend')
      BY <2>3 DEF Holds
    <3>2. QED
      BY <1>1, <2>3, <2>4, <3>1 DEF Placed, Healthy, HeadAssertion
  <2>6. TypeOK'
    BY <1>1, <1>2, <1>3, <1>5, <2>1, <2>3 DEF TypeOK, Phases
  <2>7. TornPrefix'
    BY <1>1 DEF TornPrefix
  <2>8. QED
    BY <1>1, <1>3, <1>5, <2>5, <2>6, <2>7 DEF Whole, Sound, Intact
<1>6. QED
  BY <1>4, <1>5

(* The destructor of its backend preserves it. *)
LEMMA DestroyBackendPreserves ==
  ASSUME Whole, bypassed' \in BOOLEAN, DestroyBackend
  PROVE  Whole'
<1>1. /\ phase = "unwound" /\ phase' = "closed"
      /\ localPos' = localPos /\ globalPos' = globalPos /\ begin' = begin
      /\ end' = end /\ doWrite' = doWrite /\ reserved' = reserved
      /\ failedAsserts' = failedAsserts
      /\ \/ backend' = FlushBackend(backend) /\ ioError' = ioError
         \/ /\ \E d \in Nat : backend' = FlushThrows(backend, d)
            /\ ioError' = TRUE
  BY DEF DestroyBackend
<1>2. TypeOK
  BY DEF Whole, Sound, Intact
<1>3. /\ backend \in BackendType /\ localPos \in Nat /\ begin \in Nat
      /\ globalPos \in Nat
      /\ end \in Nat /\ failedAsserts \subseteq {"increment_head", "write"}
      /\ ioError \in BOOLEAN
  BY <1>2, SimpleWriterAssumption DEF TypeOK
<1>4. backend' \in BackendType
  BY <1>1, <1>3, FlushType
<1>5. CASE ioError'
  <2>1. ioError' = TRUE
    BY <1>1, <1>3, <1>5
  <2>2. QED
    BY <1>1, <1>3, <1>4, <2>1, FailedFacts
<1>6. CASE ~ioError'
  <2>1. backend' = FlushBackend(backend) /\ ~ioError
    BY <1>1, <1>6
  <2>2. /\ Holds(backend, PadBegin(backend) + localPos, globalPos)
        /\ localPos = 0 /\ failedAsserts = {}
        /\ Attached \/ Detached
        /\ Kind = "file" => Attached
    BY <1>1, <2>1 DEF Whole, Sound, Placed, Intact, Healthy
  <2>3. PadBegin(backend) \in Nat
    BY <1>3, BackendParts
  <2>4. Holds(backend, PadBegin(backend), globalPos)
    BY <2>2, <2>3
  <2>5. /\ Holds(backend', PadBegin(backend'), globalPos)
        /\ Kind = "file" => PadBegin(backend') = 0 /\ PadEnd(backend') = 0
        /\ Kind # "file" => backend' = backend
    BY <1>3, <2>1, <2>4, FlushBackendHolds
  <2>6. PadBegin(backend') \in Nat
    BY <1>4, BackendParts
  <2>7. Holds(backend', PadBegin(backend') + localPos', globalPos')
    BY <1>1, <2>2, <2>5, <2>6
  <2>8. /\ Kind = "file" => Attached'
        /\ Attached' \/ Detached'
    <3>1. CASE Kind = "file"
      <4>1. PadBegin(backend) = 0
        BY <1>1, <2>1, <3>1 DEF Whole, Sound, Placed, Intact, Healthy
      <4>2. begin = 0 /\ end = PadEnd(backend)
        BY <2>2, <3>1, <4>1 DEF Attached
      <4>3. PadEnd(backend) = 0
        BY <1>1, <2>1, <3>1 DEF Whole, Sound, Placed, Intact, Healthy
      <4>4. QED
        BY <1>1, <2>2, <2>5, <3>1, <4>2, <4>3 DEF Attached
    <3>2. CASE Kind # "file"
      BY <1>1, <2>2, <2>5, <3>2 DEF Attached, Detached
    <3>3. QED
      BY <3>1, <3>2
  <2>9. Placed' /\ Healthy'
    <3>1. PadBegin(backend') + localPos' <= PadEnd(backend')
      BY <2>7 DEF Holds
    <3>2. QED
      BY <1>1, <2>2, <2>5, <2>7, <2>8, <3>1
      DEF Placed, Healthy, HeadAssertion
  <2>10. TypeOK'
    BY <1>1, <1>2, <1>4, <1>6, <2>1 DEF TypeOK, Phases
  <2>11. TornPrefix'
    BY <1>1 DEF TornPrefix
  <2>12. QED
    BY <1>1, <1>6, <2>9, <2>10, <2>11 DEF Whole, Sound, Intact
<1>7. QED
  BY <1>5, <1>6

(***************************************************************************)
(* What no write-through changes: types, and a window inside of the pad    *)
(***************************************************************************)

(* write_some() returns a pad whose head is in it, and its assertion holds. *)
LEMMA WriteSomeSizes ==
  ASSUME NEW b \in BackendType, NEW forget \in Nat,
         PadBegin(b) + forget <= PadEnd(b),
         NEW c, c = WriteSome(b, forget)
  PROVE  /\ c \in BackendType
         /\ PadBegin(c) \in Nat /\ PadEnd(c) \in Nat
         /\ PadBegin(c) <= PadEnd(c)
         /\ HeadHolds(b, forget)
<1>1. PICK m : m = WithPad(b, IncrementHead(b.pad, forget))
  OBVIOUS
<1>2. /\ m \in BackendType /\ m.pad = IncrementHead(b.pad, forget)
      /\ m.pad \in PadType /\ m.file = b.file
      /\ PadBegin(m) = PadBegin(b) + forget /\ PadEnd(m) = PadEnd(b)
  BY <1>1, MovedHolds
<1>3. /\ m.pad.off \in Nat /\ m.file \in Seq(Cell)
      /\ PadBegin(m) = m.pad.off /\ PadEnd(m) = Size(m.pad)
      /\ PadEnd(m) \in Nat
  BY <1>2, BackendParts
<1>4. PICK full \in Nat : full = WholeBlocks(m.pad.off) /\ full <= m.pad.off
  BY <1>3, WholeBlocksBounds
<1>5. PICK rest : rest = ForgetPrelude(m.pad, full)
  OBVIOUS
<1>6. m.pad.off <= Size(m.pad)
  BY <1>2, <1>3
<1>7. /\ rest \in PadType /\ rest.off = m.pad.off - full
      /\ Size(rest) = Size(m.pad) - full
  BY <1>2, <1>4, <1>5, <1>6, ForgetPreludeCells
<1>8. PICK file : file = AppendCells(m.file, m.pad, full)
  OBVIOUS
<1>9. file \in Seq(Cell)
  BY <1>2, <1>3, <1>8, AppendCellsType
<1>10. PICK d : d = [pad |-> rest, file |-> file]
  OBVIOUS
<1>11. d \in BackendType /\ PadBegin(d) = rest.off /\ PadEnd(d) = Size(rest)
  BY <1>7, <1>9, <1>10, BackendFields
<1>12. c = IF Kind = "file" THEN d ELSE m
  BY <1>1, <1>2, <1>4, <1>5, <1>8, <1>10 DEF WriteSome, WithPad
<1>13. c \in BackendType /\ PadBegin(c) <= PadEnd(c)
  <2>1. PadBegin(d) <= PadEnd(d)
    BY <1>3, <1>4, <1>6, <1>7, <1>11
  <2>2. PadBegin(m) <= PadEnd(m)
    BY <1>3, <1>6
  <2>3. QED
    BY <1>2, <1>11, <1>12, <2>1, <2>2
<1>14. HeadHolds(b, forget)
  BY HeadFacts
<1>15. QED
  BY <1>13, <1>14, BackendParts

(* prepare_write() moves the head over what it is told of.                 *)
LEMMA PrepareSizes ==
  ASSUME NEW b \in BackendType, NEW forget \in Nat, NEW want \in Nat,
         NEW c, c = PrepareWrite(b, forget, want)
  PROVE  /\ c \in BackendType
         /\ PadBegin(c) = PadBegin(b) + forget
         /\ PadEnd(c) >= PadEnd(b)
         /\ PadBegin(c) \in Nat /\ PadEnd(c) \in Nat
<1>1. PICK m : m = WithPad(b, IncrementHead(b.pad, forget))
  OBVIOUS
<1>2. /\ m \in BackendType /\ m.pad = IncrementHead(b.pad, forget)
      /\ PadBegin(m) = PadBegin(b) + forget /\ PadEnd(m) = PadEnd(b)
      /\ PadEnd(m) \in Nat
  BY <1>1, MovedHolds, BackendParts
<1>3. PICK k \in Nat : k = RoundUp(want)
  BY RoundUpBounds
<1>4. PICK g : g = WithPad(m, AddTail(m.pad, k))
  OBVIOUS
<1>5. /\ g \in BackendType /\ PadBegin(g) = PadBegin(m)
      /\ PadEnd(g) = PadEnd(m) + k
  BY <1>2, <1>4, GrownHolds
<1>6. c = IF Kind = "memory" THEN m ELSE g
  BY <1>1, <1>2, <1>3, <1>4 DEF PrepareWrite, WithPad
<1>7. c \in BackendType
  BY <1>2, <1>5, <1>6
<1>8. PadBegin(c) = PadBegin(b) + forget /\ PadEnd(c) >= PadEnd(b)
  BY <1>2, <1>5, <1>6
<1>9. QED
  BY <1>7, <1>8, BackendParts

(* A copy into the pad does not move or resize it. *)
LEMMA StoreSizes ==
  ASSUME NEW b \in BackendType, NEW at \in Nat, NEW n \in Nat, NEW pos \in Nat,
         NEW c, c = Store(b, at, pos, n)
  PROVE  /\ c \in BackendType
         /\ PadBegin(c) = PadBegin(b) /\ PadEnd(c) = PadEnd(b)
<1> DEFINE p == CopyIn(b.pad, at, pos, n)
<1>1. /\ b.pad \in PadType /\ b.file \in Seq(Cell)
      /\ PadBegin(b) = b.pad.off /\ PadEnd(b) = Size(b.pad)
  BY BackendParts
<1>2. /\ p \in PadType /\ p.off = b.pad.off /\ Size(p) = Size(b.pad)
      /\ \A from \in Nat :
           /\ at + n <= Size(b.pad)
           /\ from + at = pos
           /\ Counts(b.pad.v, at, from)
           => Counts(p.v, at + n, from)
  BY <1>1, CopyInCells
<1>3. c = [pad |-> p, file |-> b.file]
  BY DEF Store, WithPad
<1> HIDE DEF p
<1>4. QED
  BY <1>1, <1>2, <1>3, BackendFields

(* Bytes of the client at the end of a file *)
LEMMA AppendStreamType ==
  ASSUME NEW file \in Seq(Cell), NEW pos \in Nat, NEW n \in Nat,
         NEW w, w = AppendStream(file, pos, n)
  PROVE  w \in Seq(Cell)
<1>1. PICK l \in Nat : l = Len(file) /\ file \in [1 .. l -> Nat]
  BY DEF Cell
<1>2. ASSUME NEW i \in 1 .. (l + n)
      PROVE  (IF i <= l THEN file[i] ELSE pos + (i - l)) \in Nat
  <2>1. CASE i <= l
    <3>1. i \in 1 .. l
      BY <2>1
    <3>2. QED
      BY <1>1, <2>1, <3>1
  <2>2. CASE ~(i <= l)
    BY <2>2
  <2>3. QED
    BY <2>1, <2>2
<1>3. w = [i \in 1 .. (l + n) |-> IF i <= l THEN file[i] ELSE pos + (i - l)]
  BY <1>1 DEF AppendStream
<1>4. w \in [1 .. (l + n) -> Nat]
  BY <1>2, <1>3
<1>5. l + n \in Nat
  OBVIOUS
<1>6. QED
  BY <1>4, <1>5, SeqOfFunction DEF Cell

(* The number of bytes that are missing for a whole block *)
LEMMA MissingType ==
  ASSUME NEW b \in BackendType, NEW n \in Nat
  PROVE  Missing(b, n) \in Nat /\ Missing(b, n) <= n
<1>1. PICK at \in Nat : at = PadBegin(b)
  BY BackendParts
<1>2. PICK rest \in Nat : rest = at % Inc /\ rest < Inc
  BY IncNat
<1>3. Missing(b, n) = IF rest = 0 THEN 0 ELSE Smaller(Inc - rest, n)
  BY <1>1, <1>2 DEF Missing
<1>4. QED
  BY <1>2, <1>3, IncNat DEF Smaller

(* What Sink_File::write makes of the pad, in its first half               *)
LEMMA CompleteSizes ==
  ASSUME NEW b \in BackendType, NEW forget \in Nat, NEW pos \in Nat,
         NEW n \in Nat, PadBegin(b) + forget <= PadEnd(b),
         NEW k, k = Missing(b, n),
         NEW c, c = CompleteBlock(b, forget, pos, n)
  PROVE  /\ Completed(b, pos, k) \in BackendType
         /\ c \in BackendType
         /\ PadBegin(c) \in Nat /\ PadEnd(c) \in Nat
         /\ PadBegin(c) <= PadEnd(c)
<1>1. PadBegin(b) \in Nat /\ PadEnd(b) \in Nat
  BY BackendParts
<1>2. k \in Nat
  BY MissingType
<1>3. PICK room : room = WithPad(b, AddTail(b.pad, k))
  OBVIOUS
<1>4. /\ room \in BackendType /\ PadBegin(room) = PadBegin(b)
      /\ PadEnd(room) = PadEnd(b) + k
  BY <1>2, <1>3, GrownHolds
<1>5. PICK full : full = Completed(b, pos, k)
  OBVIOUS
<1>6. full = Store(room, PadBegin(b), pos, k)
  BY <1>3, <1>5 DEF Completed
<1>7. /\ full \in BackendType
      /\ PadBegin(full) = PadBegin(b) /\ PadEnd(full) = PadEnd(b) + k
  BY <1>1, <1>2, <1>4, <1>6, StoreSizes
<1>8. PICK told \in Nat : told = forget + k
  BY <1>2
<1>9. PadBegin(full) + told <= PadEnd(full)
  BY <1>1, <1>2, <1>7, <1>8
<1>10. PICK d : d = WriteSome(full, told)
  OBVIOUS
<1>11. d \in BackendType /\ PadBegin(d) <= PadEnd(d)
  BY <1>7, <1>9, <1>10, WriteSomeSizes
<1>12. c = IF PadBegin(b) % Inc = 0 THEN b ELSE d
  BY <1>5, <1>8, <1>10 DEF CompleteBlock
<1>13. c \in BackendType /\ PadBegin(c) <= PadEnd(c)
  BY <1>1, <1>11, <1>12
<1>14. QED
  BY <1>5, <1>7, <1>13, BackendParts

(* ... and in both halves *)
LEMMA SinkWriteSizes ==
  ASSUME NEW b \in BackendType, NEW forget \in Nat, NEW pos \in Nat,
         NEW n \in Nat, PadBegin(b) + forget <= PadEnd(b),
         NEW c, c = SinkWrite(b, forget, pos, n)
  PROVE  /\ c \in BackendType
         /\ PadBegin(c) \in Nat /\ PadEnd(c) \in Nat
         /\ PadBegin(c) <= PadEnd(c)
<1>1. PICK k \in Nat : k = Missing(b, n) /\ k <= n
  BY MissingType
<1>2. PICK done : done = CompleteBlock(b, forget, pos, n)
  OBVIOUS
<1>3. /\ done \in BackendType /\ PadBegin(done) \in Nat
      /\ PadEnd(done) \in Nat /\ PadBegin(done) <= PadEnd(done)
  BY <1>1, <1>2, CompleteSizes
<1>4. PICK m \in Nat, from \in Nat : m = n - k /\ from = pos + k
  BY <1>1
<1>5. PICK full \in Nat : full = WholeBlocks(m) /\ full <= m
  BY WholeBlocksBounds
<1>6. PICK rest \in Nat : rest = m - full
  BY <1>5
<1>7. PICK pad \in PadType :
        /\ pad = done.pad
        /\ PadBegin(done) = pad.off /\ PadEnd(done) = Size(pad)
  BY <1>3, BackendParts
<1>8. PICK tail : tail = AddTail(pad, rest)
  OBVIOUS
<1>9. /\ tail \in PadType /\ tail.off = PadBegin(done)
      /\ Size(tail) = PadEnd(done) + rest
  <2>1. /\ tail \in PadType /\ tail.off = pad.off
        /\ Size(tail) = Size(pad) + rest
    BY <1>8, AddTailCells
  <2>2. QED
    BY <1>7, <2>1
<1>10. PICK file : file = AppendStream(done.file, from, full)
  OBVIOUS
<1>11. file \in Seq(Cell)
  BY <1>3, <1>10, AppendStreamType, BackendParts
<1>12. PICK room : room = [pad |-> tail, file |-> file]
  OBVIOUS
<1>13. /\ room \in BackendType /\ PadBegin(room) = PadBegin(done)
       /\ PadEnd(room) = PadEnd(done) + rest
  BY <1>9, <1>11, <1>12, BackendFields
<1>14. PICK at \in Nat, pos2 \in Nat : at = PadBegin(done) /\ pos2 = from + full
  BY <1>3
<1>15. PICK kept : kept = Store(room, at, pos2, rest)
  OBVIOUS
<1>16. /\ kept \in BackendType /\ PadBegin(kept) = PadBegin(done)
       /\ PadEnd(kept) = PadEnd(done) + rest
  BY <1>13, <1>15, StoreSizes
<1>17. c = WithPad(kept, IncrementHead(kept.pad, rest))
  BY <1>1, <1>2, <1>4, <1>5, <1>6, <1>7, <1>8, <1>10, <1>12, <1>14, <1>15
  DEF SinkWrite, ThroughBlocks
<1>18. /\ c \in BackendType /\ PadBegin(c) = PadBegin(kept) + rest
       /\ PadEnd(c) = PadEnd(kept)
  BY <1>16, <1>17, MovedHolds
<1>19. PadBegin(c) <= PadEnd(c)
  BY <1>3, <1>16, <1>18
<1>20. QED
  BY <1>18, <1>19, BackendParts

(* What is known of an open file writer, whatever it has written through   *)
LEMMA SoundFacts ==
  ASSUME Sound, Kind = "file", phase = "open"
  PROVE  /\ TypeOK /\ ~ioError
         /\ backend \in BackendType
         /\ localPos \in Nat /\ globalPos \in Nat
         /\ PadBegin(backend) \in Nat /\ PadEnd(backend) \in Nat
         /\ PadBegin(backend) + localPos <= PadEnd(backend)
         /\ begin = PadBegin(backend) + localPos /\ end = PadEnd(backend)
         /\ Room = PadEnd(backend) - (PadBegin(backend) + localPos)
         /\ Room \in Nat
         /\ reserved <= Room
         /\ reserved \in {NoReserve} \cup 0 .. MaxReserve
         /\ reserved # NoReserve => globalPos + reserved <= MaxBytes
         /\ failedAsserts \subseteq {"increment_head", "write"}
         /\ "increment_head" \notin failedAsserts
         /\ doWrite \in BOOLEAN
<1>1. TypeOK /\ ~ioError /\ Placed
  BY DEF Sound
<1>2. /\ backend \in BackendType /\ localPos \in Nat /\ globalPos \in Nat
      /\ failedAsserts \subseteq {"increment_head", "write"}
      /\ reserved \in {NoReserve} \cup 0 .. MaxReserve
      /\ doWrite \in BOOLEAN
  BY <1>1, SimpleWriterAssumption DEF TypeOK
<1>3. PadBegin(backend) \in Nat /\ PadEnd(backend) \in Nat
  BY <1>2, BackendParts
<1>4. /\ PadBegin(backend) + localPos <= PadEnd(backend)
      /\ begin = PadBegin(backend) + localPos /\ end = PadEnd(backend)
      /\ reserved <= Room
      /\ "increment_head" \notin failedAsserts
  BY <1>1 DEF Placed, Attached, HeadAssertion
<1>5. /\ Room = PadEnd(backend) - (PadBegin(backend) + localPos)
      /\ Room \in Nat
  BY <1>2, <1>3, <1>4 DEF Room
<1>6. reserved # NoReserve => globalPos + reserved <= MaxBytes
  BY DEF Sound
<1>7. QED
  BY <1>1, <1>2, <1>3, <1>4, <1>5, <1>6

(* What a step of such a writer has to establish again                     *)
LEMMA SoundAgain ==
  ASSUME Sound, Kind = "file", phase = "open",
         phase' = "open", ioError' = ioError, bypassed' \in BOOLEAN,
         failedAsserts' \subseteq {"increment_head", "write"},
         "increment_head" \notin failedAsserts',
         backend' \in BackendType,
         localPos' \in Nat, globalPos' \in 0 .. MaxBytes,
         doWrite' \in BOOLEAN, reserved' \in {NoReserve} \cup 0 .. MaxReserve,
         PadBegin(backend') + localPos' <= PadEnd(backend'),
         begin' = PadBegin(backend') + localPos', end' = PadEnd(backend'),
         reserved' <= PadEnd(backend') - (PadBegin(backend') + localPos'),
         reserved' # NoReserve => globalPos' + reserved' <= MaxBytes
  PROVE  Sound'
<1>1. ~ioError /\ ioError \in BOOLEAN
  BY SoundFacts DEF TypeOK
<1>2. PadBegin(backend') \in Nat /\ PadEnd(backend') \in Nat
  BY BackendParts
<1>3. begin' \in Nat /\ end' \in Nat
  BY <1>2
<1>4. TypeOK'
  BY <1>1, <1>3 DEF TypeOK, Phases
<1>5. Attached' /\ HeadAssertion' /\ reserved' <= Room'
  BY DEF Attached, HeadAssertion, Room
<1>6. Placed'
  BY <1>5 DEF Placed
<1>7. QED
  BY <1>1, <1>4, <1>6 DEF Sound

(* What a step that fails has to establish                                 *)
LEMMA SoundFails ==
  ASSUME TypeOK, reserved' # NoReserve => globalPos' + reserved' <= MaxBytes,
         phase' \in Phases, phase' # "open", ioError' = TRUE,
         bypassed' \in BOOLEAN,
         backend' \in BackendType,
         localPos' \in Nat, globalPos' \in 0 .. MaxBytes,
         begin' \in Nat, end' \in Nat, doWrite' \in BOOLEAN,
         reserved' = reserved \/ reserved' = NoReserve,
         failedAsserts' \subseteq {"increment_head", "write"}
  PROVE  Sound'
<1>1. reserved' \in {NoReserve} \cup 0 .. MaxReserve
  BY DEF TypeOK
<1>2. TypeOK'
  BY <1>1 DEF TypeOK
<1>3. QED
  BY <1>2 DEF Sound

(* A refusal has moved the head, and grown the pad.                        *)
LEMMA RefusedSound ==
  ASSUME Sound, Kind = "file", phase = "open", NEW n \in Nat, Room < n,
         bypassed' \in BOOLEAN, doWrite' \in BOOLEAN, reserved = NoReserve,
         backend' = Prepared(n),
         begin' = PadBegin(backend'), end' = PadEnd(backend'),
         localPos' = 0, globalPos' = globalPos,
         phase' = phase, ioError' = ioError,
         reserved' = reserved, failedAsserts' = failedAsserts
  PROVE  Sound'
<1>1. /\ TypeOK /\ backend \in BackendType
      /\ localPos \in Nat /\ globalPos \in 0 .. MaxBytes
      /\ PadBegin(backend) \in Nat /\ PadEnd(backend) \in Nat
      /\ PadBegin(backend) + localPos <= PadEnd(backend)
      /\ Room \in Nat
      /\ failedAsserts \subseteq {"increment_head", "write"}
      /\ "increment_head" \notin failedAsserts
  BY SoundFacts DEF TypeOK
<1>2. PICK want \in Nat : want = n - Room
  BY <1>1
<1>3. /\ backend' \in BackendType
      /\ PadBegin(backend') = PadBegin(backend) + localPos
      /\ PadEnd(backend') >= PadEnd(backend)
      /\ PadBegin(backend') \in Nat /\ PadEnd(backend') \in Nat
  BY <1>1, <1>2, PrepareSizes DEF Prepared
<1>4. /\ PadBegin(backend') + localPos' <= PadEnd(backend')
      /\ begin' = PadBegin(backend') + localPos'
      /\ NoReserve <= PadEnd(backend') - (PadBegin(backend') + localPos')
  BY <1>1, <1>3 DEF NoReserve
<1>5. QED
  BY <1>1, <1>3, <1>4, SoundAgain

(* Sink_File::flush() clears the pad.                                      *)
LEMMA FlushedSize ==
  ASSUME Kind = "file", NEW b \in BackendType, NEW c, c = FlushBackend(b)
  PROVE  /\ c \in BackendType
         /\ PadBegin(c) = 0 /\ PadEnd(c) = 0
<1>1. c \in BackendType
  BY FlushType
<1>2. c.pad = [v |-> << >>, off |-> 0]
  BY DEF FlushBackend, EmptyPad
<1>3. QED
  BY <1>1, <1>2 DEF PadBegin, PadEnd, Size

(* What a step to a writer that is gone has to establish                   *)
LEMMA SoundGone ==
  ASSUME TypeOK, reserved # NoReserve => globalPos + reserved <= MaxBytes,
         phase' \in Phases, phase' # "open", phase' # "thrown",
         ioError' \in BOOLEAN, ~ioError', bypassed' \in BOOLEAN,
         backend' \in BackendType,
         PadBegin(backend') = 0, PadEnd(backend') = 0,
         localPos' = 0, begin' = 0, end' = 0,
         globalPos' = globalPos, reserved' = reserved, doWrite' = doWrite,
         failedAsserts' \subseteq {"increment_head", "write"},
         "increment_head" \notin failedAsserts'
  PROVE  Sound'
<1>1. TypeOK'
  BY DEF TypeOK
<1>2. Attached' /\ HeadAssertion'
  BY DEF Attached, HeadAssertion
<1>3. Placed'
  BY <1>2 DEF Placed
<1>4. QED
  BY <1>1, <1>3 DEF Sound

(* What has been bypassed stays it, and it is always a file that is.       *)
LEMMA BypassedSteps ==
  ASSUME bypassed \in BOOLEAN, [Next]_vars
  PROVE  /\ bypassed' \in BOOLEAN
         /\ bypassed => bypassed'
         /\ bypassed' => bypassed \/ Kind = "file"
         /\ WriteThroughput /\ ~bypassed' /\ Kind = "file" => ~(localPos > 0)
<1>1. CASE WriteThroughput
  <2>1. bypassed' = (bypassed \/ (Kind = "file" /\ localPos > 0))
    BY <1>1 DEF WriteThroughput
  <2>2. QED
    BY <2>1, Zenon
<1>2. CASE ~WriteThroughput
  <2>1. bypassed' = bypassed
    BY <1>2 DEF Next, Write, BeginWrite, CommitWrite, Flush, FlushThrowsOut,
       Clear, Destroy, DestroyBackend, Gone, vars
  <2>2. QED
    BY <1>2, <2>1
<1>3. QED
  BY <1>1, <1>2

(* write() keeps Sound.                                                    *)
LEMMA WriteSound ==
  ASSUME Sound, Kind = "file", bypassed' \in BOOLEAN, Write
  PROVE  Sound'
<1>1. PICK n \in Nat :
        WriteFits(n) \/ WriteGrows(n) \/ WriteGrowsThrows(n) \/ WriteRefused(n)
  BY SimpleWriterAssumption DEF Write, SmallSizes
<1>2. phase = "open" /\ reserved = NoReserve /\ globalPos + n <= MaxBytes
  BY <1>1 DEF WriteFits, WriteGrows, WriteGrowsThrows, WriteRefused, Idle,
     MayAccept
<1>3. /\ TypeOK /\ backend \in BackendType
      /\ localPos \in Nat /\ globalPos \in Nat /\ doWrite \in BOOLEAN
      /\ PadBegin(backend) \in Nat /\ PadEnd(backend) \in Nat
      /\ PadBegin(backend) + localPos <= PadEnd(backend)
      /\ begin = PadBegin(backend) + localPos /\ end = PadEnd(backend)
      /\ Room = PadEnd(backend) - (PadBegin(backend) + localPos)
      /\ Room \in Nat
      /\ failedAsserts \subseteq {"increment_head", "write"}
      /\ "increment_head" \notin failedAsserts
  BY <1>2, SoundFacts
<1>4. globalPos + n \in 0 .. MaxBytes /\ globalPos \in 0 .. MaxBytes
  BY <1>1, <1>2, <1>3, SimpleWriterAssumption
<1>5. CASE WriteFits(n)
  <2>1. /\ n <= Room
        /\ backend' = Store(backend, begin, globalPos, n)
        /\ begin' = begin + n /\ end' = end
        /\ localPos' = localPos + n /\ globalPos' = globalPos + n
        /\ phase' = phase /\ ioError' = ioError /\ doWrite' = doWrite
        /\ reserved' = reserved /\ failedAsserts' = failedAsserts
    BY <1>5 DEF WriteFits, NoThrow
  <2>2. begin \in Nat
    BY <1>3
  <2>3. /\ backend' \in BackendType
        /\ PadBegin(backend') = PadBegin(backend)
        /\ PadEnd(backend') = PadEnd(backend)
    BY <1>1, <1>3, <2>1, <2>2, StoreSizes
  <2>4. /\ PadBegin(backend') + localPos' <= PadEnd(backend')
        /\ begin' = PadBegin(backend') + localPos'
        /\ end' = PadEnd(backend')
        /\ NoReserve <= PadEnd(backend') - (PadBegin(backend') + localPos')
        /\ localPos' \in Nat
    BY <1>1, <1>3, <2>1, <2>3 DEF NoReserve
  <2>5. QED
    BY <1>2, <1>3, <1>4, <2>1, <2>3, <2>4, SoundAgain
<1>6. ASSUME Room < n, Spare(Prepared(n)) >= n
      PROVE  /\ Prepared(n) \in BackendType
             /\ PadBegin(Prepared(n)) \in Nat /\ PadEnd(Prepared(n)) \in Nat
             /\ Filled(n) \in BackendType
             /\ PadBegin(Filled(n)) + n <= PadEnd(Filled(n))
             /\ HeadHolds(Filled(n), n)
  <2>1. PICK want \in Nat : want = n - Room
    BY <1>1, <1>3, <1>6
  <2>2. /\ Prepared(n) \in BackendType
        /\ PadBegin(Prepared(n)) \in Nat /\ PadEnd(Prepared(n)) \in Nat
    BY <1>3, <2>1, PrepareSizes DEF Prepared
  <2>3. /\ Filled(n) \in BackendType
        /\ PadBegin(Filled(n)) = PadBegin(Prepared(n))
        /\ PadEnd(Filled(n)) = PadEnd(Prepared(n))
    <3>1. PICK b \in BackendType, at \in Nat :
            b = Prepared(n) /\ at = PadBegin(Prepared(n))
      BY <2>2
    <3>2. Filled(n) = Store(b, at, globalPos, n)
      BY <3>1 DEF Filled
    <3>3. QED
      BY <1>1, <1>3, <3>1, <3>2, StoreSizes
  <2>4. PadBegin(Filled(n)) + n <= PadEnd(Filled(n))
    BY <1>1, <1>6, <2>2, <2>3 DEF Spare
  <2>5. QED
    BY <1>1, <2>2, <2>3, <2>4, HeadFacts
<1>7. CASE WriteGrows(n)
  <2>1. /\ Room < n /\ Spare(Prepared(n)) >= n
        /\ backend' = WriteSome(Filled(n), n)
        /\ begin' = PadBegin(backend') /\ end' = PadEnd(backend')
        /\ localPos' = 0 /\ globalPos' = globalPos + n
        /\ failedAsserts' = failedAsserts \cup
             (IF HeadHolds(Filled(n), n) THEN {} ELSE {"increment_head"})
        /\ phase' = phase /\ ioError' = ioError /\ doWrite' = doWrite
        /\ reserved' = reserved
    BY <1>7 DEF WriteGrows, NoThrow, Rewindow, Evaluate
  <2>2. /\ backend' \in BackendType
        /\ PadBegin(backend') \in Nat /\ PadEnd(backend') \in Nat
        /\ PadBegin(backend') <= PadEnd(backend')
    BY <1>1, <1>6, <2>1, WriteSomeSizes
  <2>3. failedAsserts' = failedAsserts
    BY <1>6, <2>1
  <2>4. /\ PadBegin(backend') + localPos' <= PadEnd(backend')
        /\ begin' = PadBegin(backend') + localPos'
        /\ NoReserve <= PadEnd(backend') - (PadBegin(backend') + localPos')
    BY <2>1, <2>2 DEF NoReserve
  <2>5. QED
    BY <1>2, <1>3, <1>4, <2>1, <2>2, <2>3, <2>4, SoundAgain
<1>8. CASE WriteGrowsThrows(n)
  <2>1. /\ Room < n /\ Spare(Prepared(n)) >= n
        /\ \E d \in Nat : backend' = WriteSomeThrows(Filled(n), n, d)
        /\ begin' = PadBegin(Prepared(n)) + n
        /\ end' = PadEnd(Prepared(n))
        /\ localPos' = n /\ globalPos' = globalPos + n
        /\ failedAsserts' = failedAsserts \cup
             (IF HeadHolds(Filled(n), n) THEN {} ELSE {"increment_head"})
        /\ phase' = "thrown" /\ ioError' = TRUE /\ doWrite' = doWrite
        /\ reserved' = reserved
    BY <1>8 DEF WriteGrowsThrows, Throw, Evaluate
  <2>2. backend' \in BackendType
    BY <1>1, <1>6, <2>1, WriteSomeThrowsType
  <2>3. /\ failedAsserts' \subseteq {"increment_head", "write"}
        /\ begin' \in Nat /\ end' \in Nat
    BY <1>1, <1>3, <1>6, <2>1
  <2>4. QED
    BY <1>1, <1>2, <1>3, <1>4, <2>1, <2>2, <2>3, SoundFails DEF Phases
<1>9. CASE WriteRefused(n)
  <2>1. /\ Room < n
        /\ backend' = Prepared(n)
        /\ begin' = PadBegin(backend') /\ end' = PadEnd(backend')
        /\ localPos' = 0 /\ globalPos' = globalPos
        /\ phase' = phase /\ ioError' = ioError /\ doWrite' = doWrite
        /\ reserved' = reserved /\ failedAsserts' = failedAsserts
    BY <1>9 DEF WriteRefused, Refuse, NoThrow, Rewindow
  <2>2. QED
    BY <1>1, <1>2, <1>3, <1>4, <2>1, RefusedSound
<1>10. QED
  BY <1>1, <1>5, <1>7, <1>8, <1>9

(* A write-through keeps Sound, whatever waits in front of it.             *)
LEMMA WriteThroughputSound ==
  ASSUME Sound, Kind = "file", bypassed' \in BOOLEAN, WriteThroughput
  PROVE  Sound'
<1>1. PICK n \in LargeSizes : WriteLarge(n) \/ WriteLargeThrows(n)
  BY DEF WriteThroughput
<1>2. phase = "open" /\ reserved = NoReserve /\ globalPos + n <= MaxBytes
  BY <1>1 DEF WriteLarge, WriteLargeThrows, Idle, MayAccept
<1>3. n \in Nat
  BY SimpleWriterAssumption DEF LargeSizes
<1>4. /\ TypeOK /\ backend \in BackendType
      /\ localPos \in Nat /\ globalPos \in Nat /\ doWrite \in BOOLEAN
      /\ PadBegin(backend) \in Nat /\ PadEnd(backend) \in Nat
      /\ PadBegin(backend) + localPos <= PadEnd(backend)
      /\ begin = PadBegin(backend) + localPos /\ end = PadEnd(backend)
      /\ failedAsserts \subseteq {"increment_head", "write"}
      /\ "increment_head" \notin failedAsserts
  BY <1>2, SoundFacts
<1>5. globalPos + n \in 0 .. MaxBytes /\ globalPos \in 0 .. MaxBytes
  BY <1>2, <1>3, <1>4, SimpleWriterAssumption
<1>6. CASE WriteLarge(n)
  <2>1. /\ backend' = WriteThrough(backend, localPos, globalPos, n)
        /\ begin' = PadBegin(backend') /\ end' = PadEnd(backend')
        /\ localPos' = 0 /\ globalPos' = globalPos + n
        /\ \/ failedAsserts' = failedAsserts
           \/ failedAsserts' = failedAsserts \cup {"write"}
        /\ phase' = phase /\ ioError' = ioError /\ doWrite' = doWrite
        /\ reserved' = reserved
    BY <1>6 DEF WriteLarge, NoThrow, Rewindow, Evaluate
  <2>2. backend' = SinkWrite(backend, localPos, globalPos, n)
    BY <2>1 DEF WriteThrough
  <2>3. /\ backend' \in BackendType
        /\ PadBegin(backend') \in Nat /\ PadEnd(backend') \in Nat
        /\ PadBegin(backend') <= PadEnd(backend')
    BY <1>3, <1>4, <2>2, SinkWriteSizes
  <2>4. /\ PadBegin(backend') + localPos' <= PadEnd(backend')
        /\ begin' = PadBegin(backend') + localPos'
        /\ NoReserve <= PadEnd(backend') - (PadBegin(backend') + localPos')
    BY <2>1, <2>3 DEF NoReserve
  <2>5. /\ failedAsserts' \subseteq {"increment_head", "write"}
        /\ "increment_head" \notin failedAsserts'
    BY <1>4, <2>1
  <2>6. QED
    BY <1>2, <1>4, <1>5, <2>1, <2>3, <2>4, <2>5, SoundAgain
<1>7. CASE WriteLargeThrows(n)
  <2>1. PICK k, full, done :
          /\ k = Missing(backend, n)
          /\ full = Completed(backend, globalPos, k)
          /\ done = CompleteBlock(backend, localPos, globalPos, n)
    OBVIOUS
  <2>2. /\ \/ \E d \in Nat : backend' = WriteSomeThrows(full, localPos + k, d)
           \/ \E d \in Nat :
                backend' = [pad  |-> done.pad,
                            file |-> AppendStream(done.file, globalPos + k, d)]
        /\ \/ failedAsserts' = failedAsserts
           \/ failedAsserts' = failedAsserts \cup {"write"}
        /\ localPos' = localPos /\ globalPos' = globalPos /\ begin' = begin
        /\ end' = end /\ doWrite' = doWrite /\ reserved' = reserved
        /\ phase' = "thrown" /\ ioError' = TRUE
    BY <1>7, <2>1 DEF WriteLargeThrows, Throw, Evaluate
  <2>3. k \in Nat
    BY <1>3, <1>4, <2>1, MissingType
  <2>4. full \in BackendType /\ done \in BackendType
    BY <1>3, <1>4, <2>1, CompleteSizes
  <2>5. localPos + k \in Nat /\ globalPos + k \in Nat
    BY <1>4, <2>3
  <2>6. ASSUME NEW d \in Nat,
               backend' = [pad  |-> done.pad,
                           file |-> AppendStream(done.file, globalPos + k, d)]
        PROVE  backend' \in BackendType
    <3>1. done.pad \in PadType /\ done.file \in Seq(Cell)
      BY <2>4, BackendParts
    <3>2. AppendStream(done.file, globalPos + k, d) \in Seq(Cell)
      BY <2>5, <3>1, AppendStreamType
    <3>3. QED
      BY <2>6, <3>1, <3>2, BackendFields
  <2>7. backend' \in BackendType
    BY <2>2, <2>4, <2>5, <2>6, WriteSomeThrowsType
  <2>8. /\ failedAsserts' \subseteq {"increment_head", "write"}
        /\ begin' \in Nat /\ end' \in Nat
    <3>1. failedAsserts' \subseteq {"increment_head", "write"}
      BY <1>4, <2>2
    <3>2. begin' \in Nat /\ end' \in Nat
      <4>1. begin' = begin /\ end' = end
        BY <2>2
      <4>2. QED
        BY <1>4, <4>1
    <3>3. QED
      BY <3>1, <3>2
  <2>9. QED
    BY <1>2, <1>4, <1>5, <2>2, <2>7, <2>8, SoundFails DEF Phases
<1>8. QED
  BY <1>1, <1>6, <1>7

(* begin_write() keeps Sound.                                              *)
LEMMA BeginWriteSound ==
  ASSUME Sound, Kind = "file", bypassed' \in BOOLEAN, BeginWrite
  PROVE  Sound'
<1>1. PICK n \in 0 .. MaxReserve :
        BeginWriteFits(n) \/ BeginWriteGrows(n) \/ BeginWriteRefused(n)
  BY DEF BeginWrite
<1>2. phase = "open" /\ reserved = NoReserve /\ globalPos + n <= MaxBytes
  BY <1>1 DEF BeginWriteFits, BeginWriteGrows, BeginWriteRefused, Idle,
     MayAccept
<1>3. n \in Nat /\ n \in {NoReserve} \cup 0 .. MaxReserve
  BY SimpleWriterAssumption
<1>4. /\ TypeOK /\ backend \in BackendType
      /\ localPos \in Nat /\ globalPos \in Nat /\ doWrite \in BOOLEAN
      /\ PadBegin(backend) \in Nat /\ PadEnd(backend) \in Nat
      /\ PadBegin(backend) + localPos <= PadEnd(backend)
      /\ begin = PadBegin(backend) + localPos /\ end = PadEnd(backend)
      /\ Room = PadEnd(backend) - (PadBegin(backend) + localPos)
      /\ Room \in Nat
      /\ failedAsserts \subseteq {"increment_head", "write"}
      /\ "increment_head" \notin failedAsserts
  BY <1>2, SoundFacts
<1>5. globalPos \in 0 .. MaxBytes
  BY <1>4 DEF TypeOK
<1>6. CASE BeginWriteFits(n)
  <2>1. /\ Room >= n /\ backend' = backend /\ localPos' = localPos
        /\ globalPos' = globalPos /\ begin' = begin /\ end' = end
        /\ doWrite' = doWrite /\ failedAsserts' = failedAsserts
        /\ phase' = phase /\ ioError' = ioError /\ reserved' = n
    BY <1>6 DEF BeginWriteFits, NoThrow
  <2>2. reserved' <= PadEnd(backend') - (PadBegin(backend') + localPos')
    BY <1>4, <2>1
  <2>3. QED
    BY <1>2, <1>3, <1>4, <1>5, <2>1, <2>2, SoundAgain
<1>7. CASE BeginWriteGrows(n)
  <2>1. /\ Room < n /\ Spare(Prepared(n)) >= n
        /\ backend' = Prepared(n)
        /\ begin' = PadBegin(backend') /\ end' = PadEnd(backend')
        /\ localPos' = 0 /\ globalPos' = globalPos /\ doWrite' = TRUE
        /\ failedAsserts' = failedAsserts \cup
             (IF HeadHolds(backend, localPos) THEN {} ELSE {"increment_head"})
        /\ phase' = phase /\ ioError' = ioError /\ reserved' = n
    BY <1>7 DEF BeginWriteGrows, NoThrow, Rewindow, Evaluate
  <2>2. PICK want \in Nat : want = n - Room
    BY <1>3, <1>4, <2>1
  <2>3. /\ backend' \in BackendType
        /\ PadBegin(backend') \in Nat /\ PadEnd(backend') \in Nat
    BY <1>4, <2>1, <2>2, PrepareSizes DEF Prepared
  <2>4. /\ PadBegin(backend') + localPos' <= PadEnd(backend')
        /\ begin' = PadBegin(backend') + localPos'
        /\ reserved' <= PadEnd(backend') - (PadBegin(backend') + localPos')
    BY <1>3, <2>1, <2>3 DEF Spare
  <2>5. failedAsserts' = failedAsserts
    BY <1>4, <2>1, HeadFacts
  <2>6. QED
    BY <1>2, <1>3, <1>4, <1>5, <2>1, <2>3, <2>4, <2>5, SoundAgain
<1>8. CASE BeginWriteRefused(n)
  <2>1. /\ Room < n
        /\ backend' = Prepared(n)
        /\ begin' = PadBegin(backend') /\ end' = PadEnd(backend')
        /\ localPos' = 0 /\ globalPos' = globalPos
        /\ phase' = phase /\ ioError' = ioError /\ doWrite' = TRUE
        /\ reserved' = reserved /\ failedAsserts' = failedAsserts
    BY <1>8 DEF BeginWriteRefused, Refuse, NoThrow, Rewindow
  <2>2. QED
    BY <1>2, <1>3, <2>1, RefusedSound
<1>9. QED
  BY <1>1, <1>6, <1>7, <1>8

(* commit_write() keeps Sound: what is committed was reserved.             *)
LEMMA CommitWriteSound ==
  ASSUME Sound, Kind = "file", bypassed' \in BOOLEAN, CommitWrite
  PROVE  Sound'
<1>1. PICK n \in 0 .. reserved :
        CommitWriteKeeps(n) \/ CommitWriteWrites(n) \/ CommitWriteThrows(n)
  BY DEF CommitWrite
<1>2. phase = "open"
  BY <1>1 DEF CommitWriteKeeps, CommitWriteWrites, CommitWriteThrows
<1>3. /\ TypeOK /\ backend \in BackendType
      /\ localPos \in Nat /\ globalPos \in Nat /\ doWrite \in BOOLEAN
      /\ PadBegin(backend) \in Nat /\ PadEnd(backend) \in Nat
      /\ PadBegin(backend) + localPos <= PadEnd(backend)
      /\ begin = PadBegin(backend) + localPos /\ end = PadEnd(backend)
      /\ Room = PadEnd(backend) - (PadBegin(backend) + localPos)
      /\ reserved <= Room
      /\ reserved \in {NoReserve} \cup 0 .. MaxReserve
      /\ reserved # NoReserve => globalPos + reserved <= MaxBytes
      /\ failedAsserts \subseteq {"increment_head", "write"}
      /\ "increment_head" \notin failedAsserts
  BY <1>2, SoundFacts
<1>4. n \in Nat /\ reserved \in Nat /\ n <= reserved /\ reserved # NoReserve
  BY <1>3, SimpleWriterAssumption DEF NoReserve
<1>5. /\ globalPos + n \in 0 .. MaxBytes
      /\ PadBegin(backend) + (localPos + n) <= PadEnd(backend)
      /\ localPos + n \in Nat /\ begin \in Nat /\ end \in Nat
  BY <1>3, <1>4, SimpleWriterAssumption
<1>6. /\ Stored(n) \in BackendType
      /\ PadBegin(Stored(n)) = PadBegin(backend)
      /\ PadEnd(Stored(n)) = PadEnd(backend)
  <2>1. Stored(n) = Store(backend, begin, globalPos, n)
    BY DEF Stored
  <2>2. QED
    BY <1>3, <1>4, <1>5, <2>1, StoreSizes
<1>7. PadBegin(Stored(n)) + (localPos + n) <= PadEnd(Stored(n))
  BY <1>5, <1>6
<1>8. HeadHolds(Stored(n), localPos + n)
  BY <1>5, <1>6, <1>7, HeadFacts
<1>9. CASE CommitWriteKeeps(n)
  <2>1. /\ backend' = Stored(n) /\ begin' = begin + n /\ end' = end
        /\ localPos' = localPos + n /\ globalPos' = globalPos + n
        /\ reserved' = NoReserve /\ doWrite' = doWrite
        /\ phase' = phase /\ ioError' = ioError
        /\ failedAsserts' = failedAsserts
    BY <1>9 DEF CommitWriteKeeps, NoThrow
  <2>2. /\ PadBegin(backend') + localPos' <= PadEnd(backend')
        /\ begin' = PadBegin(backend') + localPos' /\ end' = PadEnd(backend')
        /\ NoReserve <= PadEnd(backend') - (PadBegin(backend') + localPos')
    BY <1>3, <1>4, <1>5, <1>6, <2>1 DEF NoReserve
  <2>3. QED
    BY <1>2, <1>3, <1>5, <1>6, <2>1, <2>2, SoundAgain
<1>10. CASE CommitWriteWrites(n)
  <2>1. /\ backend' = WriteSome(Stored(n), localPos + n)
        /\ begin' = PadBegin(backend') /\ end' = PadEnd(backend')
        /\ localPos' = 0 /\ globalPos' = globalPos + n
        /\ reserved' = NoReserve /\ doWrite' = FALSE
        /\ phase' = phase /\ ioError' = ioError
        /\ failedAsserts' = failedAsserts \cup
             (IF HeadHolds(Stored(n), localPos + n) THEN {}
                                                   ELSE {"increment_head"})
    BY <1>10 DEF CommitWriteWrites, NoThrow, Rewindow, Evaluate
  <2>2. /\ backend' \in BackendType
        /\ PadBegin(backend') \in Nat /\ PadEnd(backend') \in Nat
        /\ PadBegin(backend') <= PadEnd(backend')
    BY <1>5, <1>6, <1>7, <2>1, WriteSomeSizes
  <2>3. /\ PadBegin(backend') + localPos' <= PadEnd(backend')
        /\ begin' = PadBegin(backend') + localPos'
        /\ NoReserve <= PadEnd(backend') - (PadBegin(backend') + localPos')
    BY <2>1, <2>2 DEF NoReserve
  <2>4. failedAsserts' = failedAsserts
    BY <1>8, <2>1
  <2>5. QED
    BY <1>2, <1>3, <1>5, <2>1, <2>2, <2>3, <2>4, SoundAgain
<1>11. CASE CommitWriteThrows(n)
  <2>1. /\ \E d \in Nat : backend' = WriteSomeThrows(Stored(n), localPos + n, d)
        /\ begin' = begin + n /\ end' = end
        /\ localPos' = localPos + n /\ globalPos' = globalPos + n
        /\ reserved' = NoReserve /\ doWrite' = doWrite
        /\ phase' = "thrown" /\ ioError' = TRUE
        /\ failedAsserts' = failedAsserts \cup
             (IF HeadHolds(Stored(n), localPos + n) THEN {}
                                                   ELSE {"increment_head"})
    BY <1>11 DEF CommitWriteThrows, Throw, Evaluate
  <2>2. backend' \in BackendType
    BY <1>5, <1>6, <2>1, WriteSomeThrowsType
  <2>3. /\ failedAsserts' \subseteq {"increment_head", "write"}
        /\ begin' \in Nat
    BY <1>3, <1>4, <1>5, <2>1
  <2>4. QED
    BY <1>3, <1>5, <2>1, <2>2, <2>3, SoundFails DEF Phases
<1>12. QED
  BY <1>1, <1>9, <1>10, <1>11

(* A flush() that returns leaves an empty pad and no window behind.        *)
LEMMA FlushedSizes ==
  ASSUME Sound, Kind = "file", phase = "open", FlushReturns
  PROVE  /\ backend' \in BackendType
         /\ PadBegin(backend') = 0 /\ PadEnd(backend') = 0
         /\ localPos' = 0 /\ begin' = 0 /\ end' = 0
         /\ globalPos' = globalPos /\ doWrite' = doWrite
         /\ reserved' = reserved /\ ioError' = ioError
         /\ failedAsserts' = failedAsserts
<1>1. PICK told : told = WriteSome(backend, localPos)
  OBVIOUS
<1>2. /\ backend' = FlushBackend(told)
      /\ localPos' = 0 /\ begin' = 0 /\ end' = 0
      /\ failedAsserts' = failedAsserts \cup
           (IF HeadHolds(backend, localPos) THEN {} ELSE {"increment_head"})
      /\ globalPos' = globalPos /\ doWrite' = doWrite
      /\ reserved' = reserved /\ ioError' = ioError
  BY <1>1 DEF FlushReturns, NullWindow, Evaluate
<1>3. /\ backend \in BackendType /\ localPos \in Nat
      /\ PadBegin(backend) + localPos <= PadEnd(backend)
  BY SoundFacts
<1>4. told \in BackendType /\ HeadHolds(backend, localPos)
  BY <1>1, <1>3, WriteSomeSizes
<1>5. /\ backend' \in BackendType
      /\ PadBegin(backend') = 0 /\ PadEnd(backend') = 0
  BY <1>2, <1>4, FlushedSize
<1>6. QED
  BY <1>2, <1>4, <1>5

(* flush() keeps Sound, whether it returns or throws.                      *)
LEMMA FlushSound ==
  ASSUME Sound, Kind = "file", bypassed' \in BOOLEAN, Flush \/ FlushThrowsOut
  PROVE  Sound'
<1>1. phase = "open" /\ reserved = NoReserve
  BY DEF Flush, FlushThrowsOut, Idle
<1>2. /\ TypeOK /\ globalPos \in 0 .. MaxBytes /\ doWrite \in BOOLEAN
      /\ failedAsserts \subseteq {"increment_head", "write"}
      /\ "increment_head" \notin failedAsserts
  BY <1>1, SoundFacts DEF TypeOK
<1>3. CASE Flush
  <2>1. FlushReturns /\ phase' = phase
    BY <1>3 DEF Flush
  <2>2. /\ backend' \in BackendType
        /\ PadBegin(backend') = 0 /\ PadEnd(backend') = 0
        /\ localPos' = 0 /\ begin' = 0 /\ end' = 0
        /\ globalPos' = globalPos /\ doWrite' = doWrite
        /\ reserved' = reserved /\ ioError' = ioError
        /\ failedAsserts' = failedAsserts
    BY <1>1, <2>1, FlushedSizes
  <2>3. /\ PadBegin(backend') + localPos' <= PadEnd(backend')
        /\ begin' = PadBegin(backend') + localPos' /\ end' = PadEnd(backend')
        /\ NoReserve <= PadEnd(backend') - (PadBegin(backend') + localPos')
        /\ localPos' \in Nat
    BY <2>2 DEF NoReserve
  <2>4. QED
    BY <1>1, <1>2, <2>1, <2>2, <2>3, SoundAgain
<1>4. CASE FlushThrowsOut
  <2>1. FlushFails /\ phase' = "thrown" /\ ioError' = TRUE
    BY <1>4 DEF FlushThrowsOut, FlushFails
  <2>2. /\ backend' \in BackendType /\ localPos' \in Nat
        /\ begin' \in Nat /\ end' \in Nat
        /\ failedAsserts' \subseteq {"increment_head", "write"}
        /\ globalPos' = globalPos /\ reserved' = reserved
        /\ doWrite' = doWrite
    BY <1>2, <2>1, FlushTypes
  <2>3. QED
    BY <1>1, <1>2, <2>1, <2>2, SoundFails DEF Phases
<1>5. QED
  BY <1>3, <1>4

(* The destructors of the writer and of its backend keep Sound.            *)
LEMMA DestroySound ==
  ASSUME Sound, Kind = "file", bypassed' \in BOOLEAN, Destroy \/ DestroyBackend
  PROVE  Sound'
<1>1. /\ TypeOK /\ ioError \in BOOLEAN
      /\ globalPos \in 0 .. MaxBytes /\ doWrite \in BOOLEAN
      /\ failedAsserts \subseteq {"increment_head", "write"}
      /\ reserved # NoReserve => globalPos + reserved <= MaxBytes
  BY DEF Sound, TypeOK
<1>2. CASE Destroy
  <2>1. /\ phase \in {"open", "thrown"} /\ phase' = "unwound"
        /\ FlushReturns \/ FlushFails
    BY <1>2 DEF Destroy
  <2>2. /\ backend' \in BackendType /\ localPos' \in Nat
        /\ begin' \in Nat /\ end' \in Nat
        /\ failedAsserts' \subseteq {"increment_head", "write"}
        /\ globalPos' = globalPos /\ reserved' = reserved
        /\ doWrite' = doWrite
    BY <1>1, <2>1, FlushTypes
  <2>3. ioError' \in BOOLEAN /\ (FlushReturns => ioError' = ioError)
    BY <1>1, <2>1 DEF FlushReturns, FlushFails
  <2>4. CASE ioError'
    <3>1. ioError' = TRUE
      BY <2>3, <2>4
    <3>2. QED
      BY <1>1, <2>1, <2>2, <3>1, SoundFails DEF Phases
  <2>5. CASE ~ioError'
    <3>1. FlushReturns /\ ~ioError /\ phase = "open"
      BY <2>1, <2>3, <2>5 DEF FlushFails, Sound, Placed
    <3>2. /\ PadBegin(backend') = 0 /\ PadEnd(backend') = 0
          /\ localPos' = 0 /\ begin' = 0 /\ end' = 0
          /\ failedAsserts' = failedAsserts
      BY <3>1, FlushedSizes
    <3>3. "increment_head" \notin failedAsserts'
      BY <3>1, <3>2, SoundFacts
    <3>4. QED
      BY <1>1, <2>1, <2>2, <2>3, <2>5, <3>2, <3>3, SoundGone DEF Phases
  <2>6. QED
    BY <2>4, <2>5
<1>3. CASE DestroyBackend
  <2>1. /\ phase = "unwound" /\ phase' = "closed"
        /\ localPos' = localPos /\ globalPos' = globalPos /\ begin' = begin
        /\ end' = end /\ doWrite' = doWrite /\ reserved' = reserved
        /\ failedAsserts' = failedAsserts
        /\ \/ backend' = FlushBackend(backend) /\ ioError' = ioError
           \/ /\ \E d \in Nat : backend' = FlushThrows(backend, d)
              /\ ioError' = TRUE
    BY <1>3 DEF DestroyBackend
  <2>2. /\ backend \in BackendType /\ localPos \in Nat /\ begin \in Nat
        /\ end \in Nat
    BY <1>1 DEF TypeOK
  <2>3. backend' \in BackendType /\ ioError' \in BOOLEAN
    BY <1>1, <2>1, <2>2, FlushType
  <2>4. CASE ioError'
    <3>1. ioError' = TRUE
      BY <2>3, <2>4
    <3>2. QED
      BY <1>1, <2>1, <2>2, <2>3, <3>1, SoundFails DEF Phases
  <2>5. CASE ~ioError'
    <3>1. backend' = FlushBackend(backend) /\ ~ioError
      BY <2>1, <2>5
    <3>2. PadBegin(backend') = 0 /\ PadEnd(backend') = 0
      BY <2>2, <3>1, FlushedSize
    <3>3. /\ localPos = 0 /\ PadBegin(backend) = 0 /\ PadEnd(backend) = 0
          /\ Attached /\ "increment_head" \notin failedAsserts
      BY <2>1, <3>1 DEF Sound, Placed, HeadAssertion
    <3>4. begin' = 0 /\ end' = 0 /\ localPos' = 0
      BY <2>1, <3>3 DEF Attached
    <3>5. QED
      BY <1>1, <2>1, <2>3, <2>5, <3>2, <3>3, <3>4, SoundGone DEF Phases
  <2>6. QED
    BY <2>4, <2>5
<1>4. QED
  BY <1>2, <1>3

(* Every step of a file writer keeps Sound, those that bypass bytes as     *)
(* well.                                                                   *)
LEMMA SoundStep ==
  ASSUME Sound, Kind = "file", [Next]_vars
  PROVE  Sound'
<1>1. bypassed' \in BOOLEAN
  BY BypassedSteps DEF Sound, TypeOK
<1>2. CASE Gone \/ UNCHANGED vars
  <2>1. /\ backend' = backend /\ localPos' = localPos /\ globalPos' = globalPos
        /\ begin' = begin /\ end' = end /\ doWrite' = doWrite
        /\ reserved' = reserved /\ phase' = phase /\ ioError' = ioError
        /\ failedAsserts' = failedAsserts /\ bypassed' = bypassed
    BY <1>2 DEF Gone, vars
  <2>2. /\ Attached' = Attached /\ Detached' = Detached /\ Room' = Room
        /\ TypeOK' = TypeOK
    BY <2>1 DEF Attached, Detached, Room, TypeOK
  <2>3. Placed' = Placed
    BY <2>1, <2>2 DEF Placed, HeadAssertion
  <2>4. QED
    BY <2>1, <2>2, <2>3 DEF Sound
<1>3. CASE Clear
  BY <1>3 DEF Clear
<1>4. QED
  BY <1>1, <1>2, <1>3, WriteSound, WriteThroughputSound, BeginWriteSound,
     CommitWriteSound, FlushSound, DestroySound DEF Next

(***************************************************************************)
(* Only a file writer has a file                                           *)
(***************************************************************************)

(* No operation of a backend without a file makes one. *)
LEMMA FileKept ==
  ASSUME Kind # "file", NEW b
  PROVE  /\ \A forget, want : PrepareWrite(b, forget, want).file = b.file
         /\ \A at, pos, n : Store(b, at, pos, n).file = b.file
         /\ \A forget : WriteSome(b, forget).file = b.file
         /\ \A forget : WriteSomeBytes(b, forget) = 0
         /\ FlushBackend(b) = b /\ FlushBytes(b) = 0
         /\ ClearBackend(b) = b \/ ClearBackend(b).file = b.file
<1>1. \A pad : WithPad(b, pad).file = b.file
  BY DEF WithPad
<1>2. \A forget, want : PrepareWrite(b, forget, want).file = b.file
  BY <1>1 DEF PrepareWrite
<1>3. \A at, pos, n : Store(b, at, pos, n).file = b.file
  BY <1>1 DEF Store
<1>4. \A forget : WriteSome(b, forget).file = b.file
  BY <1>1 DEF WriteSome
<1>5. ClearBackend(b) = b \/ ClearBackend(b).file = b.file
  BY <1>1 DEF ClearBackend
<1>6. QED
  BY <1>2, <1>3, <1>4, <1>5 DEF WriteSomeBytes, FlushBackend, FlushBytes

(* No step of a writer without a file writes one. *)
LEMMA FileUnusedPreserved ==
  ASSUME FileUnused, bypassed \in BOOLEAN, [Next]_vars
  PROVE  FileUnused'
<1> SUFFICES ASSUME Kind # "file"
             PROVE  backend'.file = backend.file
  BY BypassedSteps DEF FileUnused
<1>1. ASSUME NEW n, NEW b, NEW forget, NEW want, NEW at, NEW pos, NEW told,
             backend' = Store(backend, at, pos, n)
             \/ backend' = PrepareWrite(backend, forget, want)
             \/ backend' = WriteSome(Store(backend, at, pos, n), told)
             \/ /\ b = PrepareWrite(backend, forget, want)
                /\ backend' = WriteSome(Store(b, at, pos, n), told)
      PROVE  backend'.file = backend.file
  <2>1. \A c : Store(c, at, pos, n).file = c.file
    BY FileKept
  <2>2. \A c : WriteSome(c, told).file = c.file
    BY FileKept
  <2>3. PrepareWrite(backend, forget, want).file = backend.file
    BY FileKept
  <2>4. QED
    BY <1>1, <2>1, <2>2, <2>3, Zenon
<1>2. ASSUME NEW n \in SmallSizes,
             WriteFits(n) \/ WriteGrows(n) \/ WriteGrowsThrows(n) \/ WriteRefused(n)
      PROVE  backend'.file = backend.file
  <2>1. CASE WriteFits(n)
    <3>1. backend' = Store(backend, begin, globalPos, n)
      BY <2>1 DEF WriteFits
    <3>2. QED
      BY <1>1, <3>1, Zenon
  <2>2. CASE WriteGrows(n)
    <3>1. PICK b : b = PrepareWrite(backend, localPos, n - Room)
      OBVIOUS
    <3>2. backend' = WriteSome(Store(b, PadBegin(b), globalPos, n), n)
      BY <2>2, <3>1 DEF WriteGrows, Rewindow, Filled, Prepared
    <3>3. QED
      BY <1>1, <3>1, <3>2, Zenon
  <2>3. CASE WriteGrowsThrows(n)
    BY <2>3, FileKept DEF WriteGrowsThrows
  <2>4. CASE WriteRefused(n)
    BY <2>4, FileKept DEF WriteRefused, Refuse, Rewindow, Prepared
  <2>5. QED
    BY <1>2, <2>1, <2>2, <2>3, <2>4
<1>3. ASSUME NEW n \in LargeSizes, WriteLarge(n) \/ WriteLargeThrows(n)
      PROVE  backend'.file = backend.file
  <2>1. PICK b : b = PrepareWrite(backend, localPos, n)
    OBVIOUS
  <2>2. backend' = WriteSome(Store(b, PadBegin(b), globalPos, n), n)
    <3>1. backend' = WriteThrough(backend, localPos, globalPos, n)
      <4>1. ~WriteLargeThrows(n)
        BY DEF WriteLargeThrows
      <4>2. QED
        BY <1>3, <4>1 DEF WriteLarge, Rewindow
    <3>2. backend' = DefaultWrite(backend, localPos, globalPos, n)
      BY <3>1 DEF WriteThrough
    <3>3. QED
      BY <2>1, <3>2 DEF DefaultWrite
  <2>3. QED
    BY <1>1, <2>1, <2>2, Zenon
<1>4. ASSUME NEW n \in 0 .. MaxReserve,
             BeginWriteFits(n) \/ BeginWriteGrows(n) \/ BeginWriteRefused(n)
      PROVE  backend'.file = backend.file
  BY <1>4, FileKept
  DEF BeginWriteFits, BeginWriteGrows, BeginWriteRefused, Refuse, Rewindow,
      Prepared
<1>5. ASSUME NEW n \in 0 .. reserved,
             CommitWriteKeeps(n) \/ CommitWriteWrites(n) \/ CommitWriteThrows(n)
      PROVE  backend'.file = backend.file
  <2>1. CASE CommitWriteKeeps(n)
    <3>1. backend' = Store(backend, begin, globalPos, n)
      BY <2>1 DEF CommitWriteKeeps, Stored
    <3>2. QED
      BY <1>1, <3>1, Zenon
  <2>2. CASE CommitWriteWrites(n)
    <3>1. backend' = WriteSome(Store(backend, begin, globalPos, n), localPos + n)
      BY <2>2 DEF CommitWriteWrites, Stored, Rewindow
    <3>2. QED
      BY <1>1, <3>1, Zenon
  <2>3. CASE CommitWriteThrows(n)
    <3>1. \A b, forget : WriteSomeBytes(b, forget) = 0
      BY DEF WriteSomeBytes
    <3>2. PICK d \in 0 .. (WriteSomeBytes(Stored(n), localPos + n) - 1) : TRUE
      BY <2>3 DEF CommitWriteThrows
    <3>3. WriteSomeBytes(Stored(n), localPos + n) = 0
      BY <3>1, Zenon
    <3>4. QED
      BY <3>2, <3>3
  <2>4. QED
    BY <1>5, <2>1, <2>2, <2>3
<1>6. ASSUME FlushReturns
      PROVE  backend'.file = backend.file
  BY <1>6, FileKept DEF FlushReturns
<1>7. ~FlushFails
  BY FileKept DEF FlushFails
<1>8. CASE Clear
  BY <1>8, FileKept DEF Clear
<1>9. CASE DestroyBackend
  BY <1>9, FileKept DEF DestroyBackend
<1>10. CASE Gone \/ UNCHANGED vars
  BY <1>10 DEF Gone, vars
<1>11. QED
  BY <1>2, <1>3, <1>4, <1>5, <1>6, <1>7, <1>8, <1>9, <1>10
  DEF Next, Write, WriteThroughput, BeginWrite, CommitWrite, Flush,
      FlushThrowsOut, Destroy

(***************************************************************************)
(* The invariant                                                           *)
(***************************************************************************)

(* A new writer satisfies the invariant. *)
LEMMA InitHolds ==
  ASSUME Init
  PROVE  Whole /\ FileUnused
<1>1. << >> \in Seq(Nat) /\ << >> \in Seq(Cell) /\ Len(<< >>) = 0 /\ 0 \in Nat
  BY DEF Cell
<1>2. PICK empty : empty = << >>
  OBVIOUS
<1>3. empty \in Seq(Nat) /\ empty \in Seq(Cell) /\ Len(empty) = 0
  BY <1>1, <1>2
<1>4. PICK pad : pad = [v |-> empty, off |-> 0]
  OBVIOUS
<1>5. pad \in PadType /\ pad.off = 0 /\ Size(pad) = 0
  BY <1>1, <1>3, <1>4, PadOf
<1>6. PICK range : range = AddTail(pad, Capacity)
  OBVIOUS
<1>7. range \in PadType /\ range.off = 0
  BY <1>5, <1>6, AddTailCells, WriterAssumption
<1>8. PICK first : first = IF Kind = "memory" THEN range ELSE pad
  OBVIOUS
<1>9. first \in PadType /\ first.off = 0 /\ (Kind = "file" => Size(first) = 0)
  BY <1>5, <1>7, <1>8
<1>10. PICK b : b = [pad |-> first, file |-> empty]
  OBVIOUS
<1>11. /\ b \in BackendType /\ PadBegin(b) = 0 /\ PadEnd(b) \in Nat
       /\ Kind = "file" => PadEnd(b) = 0
       /\ Written(b) = 0
  BY <1>3, <1>9, <1>10, BackendFields, BackendParts
<1>12. backend = b /\ backend.file = << >>
  BY <1>2, <1>4, <1>6, <1>8, <1>10, Zenon DEF Init, NewBackend, EmptyPad
<1>13. backend = NewBackend
  BY DEF Init
<1>14. /\ localPos = 0 /\ globalPos = 0 /\ doWrite = FALSE
       /\ reserved = NoReserve /\ phase = "open" /\ ioError = FALSE
       /\ failedAsserts = {} /\ bypassed = FALSE
       /\ begin = PadBegin(backend) /\ end = PadEnd(backend)
  BY <1>13 DEF Init
<1>15. PadBegin(backend) = 0 /\ PadEnd(backend) \in Nat /\ backend \in BackendType
  BY <1>11, <1>12
<1>16. TypeOK
  <2>1. globalPos \in 0 .. MaxBytes /\ localPos \in Nat
    BY <1>14, SimpleWriterAssumption
  <2>2. begin \in Nat /\ end \in Nat
    BY <1>14, <1>15
  <2>3. /\ reserved \in {NoReserve} \cup 0 .. MaxReserve /\ phase \in Phases
        /\ doWrite \in BOOLEAN /\ ioError \in BOOLEAN
    BY <1>14 DEF Phases
  <2>4. failedAsserts \subseteq {"increment_head", "write"}
    BY <1>14
  <2>5. QED
    BY <1>14, <1>15, <2>1, <2>2, <2>3, <2>4 DEF TypeOK
<1>17. Holds(backend, PadBegin(backend) + localPos, globalPos)
  <2>1. \A f, from : Counts(f, 0, from)
    BY DEF Counts
  <2>2. Holds(backend, 0, 0)
    BY <1>11, <1>12, <2>1 DEF Holds
  <2>3. QED
    BY <1>14, <1>15, <2>2
<1>18. Attached
  BY <1>14, <1>15 DEF Attached
<1>19. reserved <= Room
  BY <1>14, <1>15 DEF Room, NoReserve
<1>20. Kind = "file" => FilePadOpen
  <2>1. Kind = "file" => Spare(backend) = 0
    BY <1>11, <1>12 DEF Spare
  <2>2. QED
    BY <1>14, <1>15, <2>1, WriterAssumption DEF FilePadOpen
<1>21. Placed /\ Healthy
  <2>1. PadBegin(backend) + localPos <= PadEnd(backend)
    BY <1>17 DEF Holds
  <2>2. QED
    BY <1>14, <1>17, <1>18, <1>19, <1>20, <2>1
    DEF Placed, Healthy, HeadAssertion
<1>22. TornPrefix
  BY <1>14 DEF TornPrefix
<1>23. QED
  BY <1>12, <1>14, <1>16, <1>21, <1>22 DEF Whole, Sound, Intact, FileUnused

(* Every step that bypasses no byte preserves it. *)
LEMMA NextPreserves ==
  ASSUME Whole, ~bypassed', FileUnused, [Next]_vars
  PROVE  Whole'
<1> bypassed' \in BOOLEAN
  BY BypassedSteps DEF Whole, Sound, TypeOK
<1>1. CASE Write
  <2>1. PICK n \in SmallSizes :
          WriteFits(n) \/ WriteGrows(n) \/ WriteGrowsThrows(n) \/ WriteRefused(n)
    BY <1>1 DEF Write
  <2>2. n \in Nat
    BY SimpleWriterAssumption DEF SmallSizes
  <2>3. QED
    BY <2>1, <2>2, WriteFitsPreserves, WriteGrowsPreserves,
       WriteGrowsThrowsPreserves, RefusedPreserves
<1>2. CASE WriteThroughput
  <2>1. PICK n \in LargeSizes : WriteLarge(n) \/ WriteLargeThrows(n)
    BY <1>2 DEF WriteThroughput
  <2>2. localPos \in Nat
    BY DEF Whole, Sound, TypeOK
  <2>3. Kind = "file" => localPos = 0
    BY <1>2, <2>2, BypassedSteps DEF Whole, Sound, TypeOK
  <2>4. WriteLargeThrows(n) => Kind = "file"
    BY DEF WriteLargeThrows
  <2>5. QED
    BY <2>1, <2>3, <2>4, WriteLargePreserves, WriteLargeThrowsPreserves
<1>3. CASE BeginWrite
  <2>1. PICK n \in 0 .. MaxReserve :
          BeginWriteFits(n) \/ BeginWriteGrows(n) \/ BeginWriteRefused(n)
    BY <1>3 DEF BeginWrite
  <2>2. n \in Nat
    BY SimpleWriterAssumption
  <2>3. QED
    BY <2>1, <2>2, BeginWriteFitsPreserves, BeginWriteGrowsPreserves,
       RefusedPreserves
<1>4. CASE CommitWrite
  BY <1>4, CommitWriteKeepsPreserves, CommitWriteWritesPreserves,
     CommitWriteThrowsPreserves DEF CommitWrite
<1>5. CASE Flush
  BY <1>5, FlushPreserves
<1>6. CASE FlushThrowsOut
  BY <1>6, FlushThrowsOutPreserves
<1>7. CASE Clear
  BY <1>7, ClearPreserves
<1>8. CASE Destroy
  BY <1>8, DestroyPreserves
<1>9. CASE DestroyBackend
  BY <1>9, DestroyBackendPreserves
<1>10. CASE Gone \/ UNCHANGED vars
  <2>1. /\ backend' = backend /\ localPos' = localPos /\ globalPos' = globalPos
        /\ begin' = begin /\ end' = end /\ doWrite' = doWrite
        /\ reserved' = reserved /\ phase' = phase /\ ioError' = ioError
        /\ failedAsserts' = failedAsserts /\ bypassed' = bypassed
    BY <1>10 DEF Gone, vars
  <2>2. /\ Attached' = Attached /\ Detached' = Detached /\ Room' = Room
        /\ FilePadOpen' = FilePadOpen /\ TornPrefix' = TornPrefix
        /\ TypeOK' = TypeOK
    BY <2>1 DEF Attached, Detached, Room, FilePadOpen, TornPrefix, TypeOK
  <2>3. Placed' = Placed /\ Healthy' = Healthy
    BY <2>1, <2>2 DEF Placed, Healthy, HeadAssertion
  <2>4. QED
    BY <2>1, <2>2, <2>3 DEF Whole, Sound, Intact
<1>11. QED
  BY <1>1, <1>2, <1>3, <1>4, <1>5, <1>6, <1>7, <1>8, <1>9, <1>10 DEF Next

(* Every step preserves the invariant. *)
LEMMA InvariantStep ==
  ASSUME IInv, FileUnused, [Next]_vars
  PROVE  IInv' /\ FileUnused'
<1>1. bypassed \in BOOLEAN
  BY DEF IInv, Sound, TypeOK
<1>2. FileUnused'
  BY <1>1, FileUnusedPreserved
<1>3. CASE bypassed'
  <2>1. Kind = "file"
    BY <1>2, <1>3 DEF FileUnused
  <2>2. Sound'
    BY <2>1, SoundStep DEF IInv
  <2>3. QED
    BY <1>2, <1>3, <2>2 DEF IInv
<1>4. CASE ~bypassed'
  <2>1. ~bypassed
    BY <1>1, <1>4, BypassedSteps
  <2>2. Whole
    BY <2>1 DEF IInv, Whole
  <2>3. Whole'
    BY <1>4, <2>2, NextPreserves
  <2>4. QED
    BY <1>2, <2>3 DEF IInv, Whole
<1>5. QED
  BY <1>3, <1>4

(* IInv is an invariant of every writer, whatever its client calls.        *)
THEOREM Invariant == Spec => [](IInv /\ FileUnused)
<1>1. Init => IInv /\ FileUnused
  BY InitHolds DEF IInv, Whole
<1>2. IInv /\ FileUnused /\ [Next]_vars => (IInv /\ FileUnused)'
  BY InvariantStep
<1>3. QED
  BY <1>1, <1>2, PTL DEF Spec

(***************************************************************************)
(* What follows from it                                                    *)
(***************************************************************************)

(* With nothing left in front of it, the other side has the whole stream.  *)
LEMMA DeliveredAll ==
  ASSUME NEW b \in BackendType, NEW pos \in Nat, Holds(b, PadBegin(b), pos),
         Kind = "file" => PadBegin(b) = 0,
         Kind # "file" => b.file = << >>
  PROVE  Delivered(b) = Stream(pos)
<1>1. /\ PadBegin(b) \in Nat /\ Written(b) \in Nat /\ b.file \in Seq(Cell)
      /\ Written(b) = Len(b.file) /\ PadEnd(b) = Len(b.pad.v)
  BY BackendParts DEF Size
<1>2. /\ PadBegin(b) <= PadEnd(b) /\ Written(b) + PadBegin(b) = pos
      /\ Counts(b.file, Written(b), 0)
      /\ Counts(b.pad.v, PadBegin(b), Written(b))
  BY DEF Holds
<1>3. CASE Kind = "file"
  <2>1. Written(b) = pos
    BY <1>1, <1>2, <1>3
  <2>2. b.file = Stream(pos)
    BY <1>1, <1>2, <2>1, StreamOf
  <2>3. QED
    BY <1>3, <2>2 DEF Delivered
<1>4. CASE Kind # "file"
  <2>1. Written(b) = 0
    BY <1>1, <1>4
  <2>2. PadBegin(b) = pos
    BY <1>1, <1>2, <2>1
  <2>3. Counts(b.pad.v, pos, 0)
    BY <1>2, <2>1, <2>2
  <2>4. PICK top : top = Len(b.pad.v) /\ pos <= top /\ top \in Nat
    BY <1>1, <1>2, <2>2, BackendParts
  <2>5. ASSUME NEW i \in 1 .. pos
        PROVE  CellAt(b.pad, i) = i
    <3>1. b.pad.v[i] = 0 + i
      BY <2>3 DEF Counts
    <3>2. i \in 1 .. top
      BY <2>4
    <3>3. CellAt(b.pad, i) = b.pad.v[i]
      BY <2>4, <3>2 DEF CellAt
    <3>4. QED
      BY <3>1, <3>3
  <2>6. [i \in 1 .. pos |-> CellAt(b.pad, i)] = [i \in 1 .. pos |-> i]
    BY <2>5
  <2>7. QED
    BY <1>4, <2>2, <2>6, Zenon DEF Delivered, Stream
<1>5. QED
  BY <1>3, <1>4

(* The invariant implies the properties the runs check. *)
LEMMA InvariantImplies ==
  ASSUME IInv, FileUnused
  PROVE  /\ TypeOK /\ TornPrefix
         /\ StreamIntact /\ WindowValid /\ BufferBounded
         /\ ~ioError => HeadAssertion /\ WriteAssertion
         /\ DestructorDelivers
<1>1. /\ TypeOK
      /\ ~ioError => Placed
      /\ ~bypassed => Whole /\ TornPrefix
      /\ ~ioError /\ ~bypassed => Healthy
  BY DEF IInv, Whole, Sound, Intact
<1>2. /\ backend \in BackendType /\ localPos \in Nat /\ globalPos \in Nat
      /\ PadBegin(backend) \in Nat
  BY <1>1, SimpleWriterAssumption, BackendParts DEF TypeOK
<1>3. StreamIntact
  <2>1. ASSUME ~ioError, ~bypassed
        PROVE  Content(backend, PadBegin(backend) + localPos) = Stream(globalPos)
    <3>1. Holds(backend, PadBegin(backend) + localPos, globalPos)
      BY <1>1, <2>1 DEF Healthy
    <3>2. PadBegin(backend) + localPos \in Nat
      BY <1>2
    <3>3. QED
      BY <1>2, <3>1, <3>2, HoldsContent
  <2>2. QED
    BY <2>1 DEF StreamIntact
<1>4. WindowValid
  <2>1. ASSUME phase = "open"
        PROVE  (Attached \/ Detached) /\ reserved <= Room
    <3>1. ~ioError
      BY <2>1 DEF IInv, Sound
    <3>2. QED
      BY <1>1, <2>1, <3>1 DEF Placed
  <2>2. QED
    BY <2>1 DEF WindowValid, Attached, Detached
<1>5. BufferBounded
  <2>1. ASSUME Kind = "file", Idle, ~bypassed
        PROVE  PadBegin(backend) < Inc /\
               (Spare(backend) < 2 * Inc \/ Spare(backend) < Inc + MaxReserve)
    <3>1. FilePadOpen
      BY <1>1, <2>1, OpenFacts DEF Idle
    <3>2. doWrite \in BOOLEAN /\ ~(doWrite /\ reserved = NoReserve)
      BY <1>1, <2>1, <3>1 DEF TypeOK, FilePadOpen
    <3>3. QED
      BY <2>1, <3>1, <3>2 DEF FilePadOpen, Idle
  <2>2. QED
    BY <2>1 DEF BufferBounded
<1>6. ~ioError => HeadAssertion /\ WriteAssertion
  BY <1>1 DEF Placed, Healthy, WriteAssertion
<1>7. DestructorDelivers
  <2>1. ASSUME phase = "closed", ~ioError, ~bypassed
        PROVE  Delivered(backend) = Stream(globalPos)
    <3>1. /\ Holds(backend, PadBegin(backend) + localPos, globalPos)
          /\ localPos = 0
          /\ Kind = "file" => PadBegin(backend) = 0
      BY <1>1, <2>1 DEF Placed, Healthy
    <3>2. Holds(backend, PadBegin(backend), globalPos)
      BY <1>2, <3>1
    <3>3. QED
      BY <1>2, <3>1, <3>2, DeliveredAll DEF FileUnused
  <2>2. QED
    BY <2>1 DEF DestructorDelivers
<1>8. TornPrefix
  BY <1>1 DEF TornPrefix
<1>9. QED
  BY <1>1, <1>3, <1>4, <1>5, <1>6, <1>7, <1>8

(* The members of a writer keep their types, after errors as well.         *)
THEOREM TypeCorrect == Spec => []TypeOK
<1>1. IInv /\ FileUnused => TypeOK
  BY InvariantImplies
<1>2. QED
  BY <1>1, Invariant, PTL

(* No byte is lost, repeated or moved between a client and its file, for   *)
(* every backend, block size and order of calls - until a range is written *)
(* through to a file while bytes in front of it are not reported.          *)
THEOREM StreamSafe == Spec => []StreamIntact
<1>1. IInv /\ FileUnused => StreamIntact
  BY InvariantImplies
<1>2. QED
  BY <1>1, Invariant, PTL

(* begin_ and end_ never go stale, and the room begin_write() promised is  *)
(* there until commit_write(): whatever has been written through.          *)
THEOREM WindowSafe == Spec => []WindowValid
<1>1. IInv /\ FileUnused => WindowValid
  BY InvariantImplies
<1>2. QED
  BY <1>1, Invariant, PTL

(* Less than a block waits in a file pad between two calls, as long as no  *)
(* byte has been bypassed.                                                 *)
THEOREM BufferSafe == Spec => []BufferBounded
<1>1. IInv /\ FileUnused => BufferBounded
  BY InvariantImplies
<1>2. QED
  BY <1>1, Invariant, PTL

(* Until a write fails, the assertion of increment_head() never does, and  *)
(* that of Sink_File::write does not before a byte is bypassed.            *)
THEOREM AssertionsHold == Spec => [](~ioError => HeadAssertion /\ WriteAssertion)
<1>1. IInv /\ FileUnused => (~ioError => HeadAssertion /\ WriteAssertion)
  BY InvariantImplies
<1>2. QED
  BY <1>1, Invariant, PTL

(* A write that fails half-way leaves a prefix of the stream in the file,  *)
(* if none of its bytes has been bypassed.                                 *)
THEOREM TornSafe == Spec => []TornPrefix
<1>1. IInv /\ FileUnused => TornPrefix
  BY InvariantImplies
<1>2. QED
  BY <1>1, Invariant, PTL

(* A destroyed writer has delivered everything, if none of it has been     *)
(* bypassed.                                                               *)
THEOREM DestructorSafe == Spec => []DestructorDelivers
<1>1. IInv /\ FileUnused => DestructorDelivers
  BY InvariantImplies
<1>2. QED
  BY <1>1, Invariant, PTL

(* flush() returns only after everything accepted has left the buffer, in  *)
(* its order, if none of it has been bypassed.                             *)
THEOREM FlushSafe == Spec => FlushDelivers
<1>1. ASSUME IInv, FileUnused, FileUnused', Flush, ~bypassed
      PROVE  Delivered(backend') = Stream(globalPos)
  <2>1. phase = "open" /\ FlushReturns
    BY <1>1 DEF Flush, Idle
  <2>2. Whole
    BY <1>1 DEF IInv, Whole
  <2>3. /\ backend' \in BackendType /\ localPos' = 0 /\ globalPos' = globalPos
        /\ Holds(backend', PadBegin(backend') + localPos', globalPos')
        /\ Kind = "file" => PadBegin(backend') = 0
    BY <2>1, <2>2, FlushedFacts
  <2>4. PadBegin(backend') \in Nat /\ globalPos \in Nat
    BY <2>1, <2>3, <2>2, BackendParts, OpenFacts
  <2>5. Holds(backend', PadBegin(backend'), globalPos)
    BY <2>3, <2>4
  <2>6. Kind # "file" => backend'.file = << >>
    BY <1>1 DEF FileUnused
  <2>7. QED
    BY <2>3, <2>4, <2>5, <2>6, DeliveredAll
<1>2. (IInv /\ FileUnused) /\ (IInv /\ FileUnused)' /\ [Next]_vars
        => [Flush /\ ~bypassed => Delivered(backend') = Stream(globalPos)]_vars
  BY <1>1
<1>3. QED
  BY <1>2, Invariant, PTL DEF Spec, FlushDelivers

(***************************************************************************)
(* A writer implements ByteSink                                            *)
(***************************************************************************)

(* What a backend of any kind does to its file, and how many bytes get there *)
LEMMA FileGrows ==
  ASSUME NEW b \in BackendType
  PROVE  /\ \A forget, want : Written(PrepareWrite(b, forget, want)) = Written(b)
         /\ \A at, pos, n : Written(Store(b, at, pos, n)) = Written(b)
         /\ \A forget \in Nat : Written(b) <= Written(WriteSome(b, forget))
         /\ Written(b) <= Written(FlushBackend(b))
         /\ \A forget \in Nat, d \in Nat :
              Written(b) <= Written(WriteSomeThrows(b, forget, d))
         /\ \A d \in Nat : Written(b) <= Written(FlushThrows(b, d))
<1>1. /\ b.pad \in PadType /\ b.file \in Seq(Cell) /\ PadBegin(b) \in Nat
      /\ Written(b) = Len(b.file) /\ Written(b) \in Nat
  BY BackendParts
<1>2. \A forget, want : Written(PrepareWrite(b, forget, want)) = Written(b)
  BY DEF PrepareWrite, WithPad, Written
<1>3. \A at, pos, n : Written(Store(b, at, pos, n)) = Written(b)
  BY DEF Store, WithPad, Written
<1>4. ASSUME NEW pad \in PadType, NEW n \in Nat, NEW c,
             c.file = AppendCells(b.file, pad, n)
      PROVE  Written(b) <= Written(c)
  <2>1. PICK w : w = AppendCells(b.file, pad, n)
    OBVIOUS
  <2>2. PICK file \in Seq(Cell) : file = b.file
    BY <1>1
  <2>3. w = AppendCells(file, pad, n)
    BY <2>1, <2>2
  <2>4. Len(w) = Len(file) + n
    BY <2>3, AppendCellsType
  <2>5. Written(c) = Len(w)
    BY <1>4, <2>1 DEF Written
  <2> QED
    BY <1>1, <2>2, <2>4, <2>5
<1>5. ASSUME NEW forget \in Nat
      PROVE  /\ Written(b) <= Written(WriteSome(b, forget))
             /\ \A d \in Nat : Written(b) <= Written(WriteSomeThrows(b, forget, d))
  <2>1. PICK m : m = IncrementHead(b.pad, forget)
    OBVIOUS
  <2>2. m \in PadType /\ m.off \in Nat
    BY <1>1, <2>1, IncrementHeadCells, PadFields
  <2>3. \A d \in Nat : Written(b) <= Written(WriteSomeThrows(b, forget, d))
    <3>1. \A d : WriteSomeThrows(b, forget, d).file = AppendCells(b.file, m, d)
      BY <2>1 DEF WriteSomeThrows
    <3> QED
      BY <1>4, <2>2, <3>1
  <2>4. PICK full \in Nat : full = WholeBlocks(m.off)
    BY <2>2, WholeBlocksBounds
  <2>5. CASE Kind = "file"
    <3>1. WriteSome(b, forget).file = AppendCells(b.file, m, full)
      BY <2>1, <2>4, <2>5 DEF WriteSome
    <3> QED
      BY <1>4, <2>2, <2>3, <3>1
  <2>6. CASE Kind # "file"
    <3>1. Written(WriteSome(b, forget)) = Written(b)
      BY <2>6 DEF WriteSome, WithPad, Written
    <3> QED
      BY <1>1, <2>3, <3>1
  <2> QED
    BY <2>5, <2>6
<1>6. \A d \in Nat : Written(b) <= Written(FlushThrows(b, d))
  <2>1. \A d : FlushThrows(b, d).file = AppendCells(b.file, b.pad, d)
    BY DEF FlushThrows
  <2> QED
    BY <1>1, <1>4, <2>1
<1>7. Written(b) <= Written(FlushBackend(b))
  <2>1. CASE Kind = "file"
    <3>1. FlushBackend(b).file = AppendCells(b.file, b.pad, PadBegin(b))
      BY <2>1 DEF FlushBackend
    <3> QED
      BY <1>1, <1>4, <3>1
  <2>2. CASE Kind # "file"
    BY <1>1, <2>2 DEF FlushBackend
  <2> QED
    BY <2>1, <2>2
<1> QED
  BY <1>2, <1>3, <1>5, <1>6, <1>7

(* What write() of a file adds to it, in both halves *)
LEMMA ThroughGrows ==
  ASSUME NEW b \in BackendType, NEW forget \in Nat, NEW from \in Nat,
         NEW n \in Nat, Holds(b, PadBegin(b) + forget, from)
  PROVE  /\ Missing(b, n) \in Nat /\ Missing(b, n) <= n
         /\ Completed(b, from, Missing(b, n)) \in BackendType
         /\ Written(Completed(b, from, Missing(b, n))) = Written(b)
         /\ Written(b) <= Written(CompleteBlock(b, forget, from, n))
         /\ \A d \in Nat :
              Written(b) <= Len(AppendStream(
                CompleteBlock(b, forget, from, n).file,
                from + Missing(b, n), d))
         /\ Written(b) <= Written(SinkWrite(b, forget, from, n))
<1>1. /\ b.pad \in PadType /\ b.file \in Seq(Cell) /\ PadBegin(b) \in Nat
      /\ PadBegin(b) = b.pad.off
      /\ Written(b) = Len(b.file) /\ Written(b) \in Nat
  BY BackendParts
<1>2. PICK k : k = Missing(b, n)
  OBVIOUS
<1>3. k \in Nat /\ k <= n
  <2>1. PICK at \in Nat : at = PadBegin(b)
    BY <1>1
  <2>2. at % Inc \in Nat /\ at % Inc < Inc
    BY IncNat
  <2>3. k = IF at % Inc = 0 THEN 0 ELSE Smaller(Inc - (at % Inc), n)
    BY <1>2, <2>1 DEF Missing
  <2>4. PICK rest \in Nat : rest = at % Inc /\ rest < Inc
    BY <2>2
  <2> QED
    BY <2>3, <2>4, IncNat DEF Smaller
<1>4. PICK full : full = Completed(b, from, k)
  OBVIOUS
<1>5. full \in BackendType /\ Written(full) = Written(b)
  <2>1. PICK room : room = WithPad(b, AddTail(b.pad, k))
    OBVIOUS
  <2>2. room \in BackendType /\ Written(room) = Written(b)
    BY <1>3, <2>1, GrownHolds
  <2>3. full = Store(room, PadBegin(b), from, k)
    BY <1>4, <2>1 DEF Completed
  <2>4. PICK pad : pad = CopyIn(room.pad, PadBegin(b), from, k)
    OBVIOUS
  <2>5. pad \in PadType
    <3>1. room.pad \in PadType
      BY <2>2, BackendParts
    <3> QED
      BY <1>1, <1>3, <2>4, <3>1, CopyInCells
  <2>6. room.file \in Seq(Cell) /\ Written(room) = Len(room.file)
    BY <2>2, BackendParts
  <2>7. full = [pad |-> pad, file |-> room.file]
    BY <2>3, <2>4 DEF Store, WithPad
  <2> QED
    BY <2>2, <2>5, <2>6, <2>7, BackendFields
<1>6. PICK done : done = CompleteBlock(b, forget, from, n)
  OBVIOUS
<1>7. done \in BackendType /\ Written(b) <= Written(done)
  <2>1. done = b \/ done = WriteSome(full, forget + k)
    BY <1>2, <1>4, <1>6 DEF CompleteBlock
  <2>2. forget + k \in Nat
    BY <1>3
  <2>3. CASE done = b
    BY <1>1, <2>3
  <2>4. CASE done = WriteSome(full, forget + k)
    BY <1>5, <2>2, <2>4, FileGrows, WriteSomeType
  <2> QED
    BY <2>1, <2>3, <2>4
<1>8. done.file \in Seq(Cell) /\ Written(done) = Len(done.file)
  BY <1>7, BackendParts
<1>9. ASSUME NEW d \in Nat, NEW pos
      PROVE  Written(b) <= Len(AppendStream(done.file, pos, d))
  <2>1. PICK l \in Nat : l = Len(done.file) /\ Written(b) <= l
    BY <1>7, <1>8
  <2>2. PICK w : w = AppendStream(done.file, pos, d)
    OBVIOUS
  <2>3. DOMAIN w = 1 .. (l + d)
    BY <2>1, <2>2 DEF AppendStream
  <2>4. Len(w) = l + d
    <3>1. w = [i \in 1 .. (l + d) |-> w[i]]
      BY <2>1, <2>2 DEF AppendStream
    <3>2. w \in [1 .. (l + d) -> {w[i] : i \in 1 .. (l + d)}]
      BY <3>1
    <3>3. l + d \in Nat
      OBVIOUS
    <3> QED
      BY <3>2, <3>3, SeqOfFunction
  <2> QED
    BY <1>1, <2>1, <2>2, <2>4
<1>10. Written(b) <= Written(SinkWrite(b, forget, from, n))
  <2>1. PICK m \in Nat : m = n - k
    BY <1>3
  <2>2. PICK blocks \in Nat : blocks = WholeBlocks(m)
    BY WholeBlocksBounds
  <2>3. SinkWrite(b, forget, from, n) = ThroughBlocks(done, from + k, m)
    BY <1>2, <1>6, <2>1 DEF SinkWrite
  <2>4. ThroughBlocks(done, from + k, m).file
          = AppendStream(done.file, from + k, blocks)
    BY <2>2 DEF ThroughBlocks, Store, WithPad
  <2> QED
    BY <1>9, <2>3, <2>4 DEF Written
<1> QED
  BY <1>2, <1>3, <1>4, <1>5, <1>6, <1>7, <1>9, <1>10

(* No step takes anything away from the file of a file writer. *)
LEMMA WrittenGrows ==
  ASSUME Whole, Kind = "file", [Next]_vars
  PROVE  Written(backend) <= Written(backend')
<1>1. /\ backend \in BackendType /\ localPos \in Nat /\ globalPos \in Nat
      /\ Written(backend) \in Nat
  BY SimpleWriterAssumption, BackendParts DEF Whole, Sound, Intact, TypeOK
<1>2. ASSUME NEW at, NEW n, NEW told \in Nat,
             Store(backend, at, globalPos, n) \in BackendType
      PROVE  /\ Written(backend)
                  <= Written(WriteSome(Store(backend, at, globalPos, n), told))
             /\ \A d \in Nat :
                  Written(backend) <= Written(WriteSomeThrows(
                    Store(backend, at, globalPos, n), told, d))
  BY <1>1, <1>2, FileGrows
<1>3. CASE Write
  <2>1. PICK n \in SmallSizes :
          WriteFits(n) \/ WriteGrows(n) \/ WriteGrowsThrows(n) \/ WriteRefused(n)
    BY <1>3 DEF Write
  <2>2. n \in Nat /\ phase = "open"
    BY <2>1, SimpleWriterAssumption
    DEF SmallSizes, WriteFits, WriteGrows, WriteGrowsThrows, WriteRefused, Idle
  <2>3. CASE WriteFits(n)
    BY <1>1, <2>3, FileGrows DEF WriteFits
  <2>4. CASE WriteRefused(n)
    BY <1>1, <2>4, FileGrows DEF WriteRefused, Refuse, Rewindow, Prepared
  <2>5. CASE WriteGrows(n) \/ WriteGrowsThrows(n)
    <3>1. PICK c : c = Prepared(n)
      OBVIOUS
    <3>2. Room < n /\ Spare(c) >= n
      BY <2>5, <3>1 DEF WriteGrows, WriteGrowsThrows
    <3>3. /\ c \in BackendType /\ PadBegin(c) \in Nat /\ PadEnd(c) \in Nat
          /\ Holds(c, PadBegin(c), globalPos)
      BY <2>2, <3>1, <3>2, PreparedFacts
    <3>4. Written(c) = Written(backend)
      BY <1>1, <3>1, FileGrows DEF Prepared
    <3>5. PICK full : full = Filled(n)
      OBVIOUS
    <3>6. full \in BackendType /\ Written(full) = Written(backend)
      <4>1. full = Store(c, PadBegin(c), globalPos, n)
        BY <3>1, <3>5 DEF Filled
      <4>2. PadBegin(c) + n <= PadEnd(c)
        BY <2>2, <3>2, <3>3 DEF Spare
      <4>3. full \in BackendType
        BY <1>1, <2>2, <3>3, <4>1, <4>2, StoreHolds
      <4> QED
        BY <3>3, <3>4, <4>1, <4>3, FileGrows
    <3>7. CASE WriteGrows(n)
      <4>1. backend' = WriteSome(full, n)
        BY <3>5, <3>7 DEF WriteGrows, Rewindow
      <4> QED
        BY <2>2, <3>6, <4>1, FileGrows
    <3>8. CASE WriteGrowsThrows(n)
      <4>1. \E d \in Nat : backend' = WriteSomeThrows(full, n, d)
        BY <3>5, <3>8 DEF WriteGrowsThrows
      <4> QED
        BY <2>2, <3>6, <4>1, FileGrows
    <3> QED
      BY <2>5, <3>7, <3>8
  <2> QED
    BY <2>1, <2>3, <2>4, <2>5
<1>4. CASE WriteThroughput
  <2>1. PICK n \in LargeSizes : WriteLarge(n) \/ WriteLargeThrows(n)
    BY <1>4 DEF WriteThroughput
  <2>2. n \in Nat /\ phase = "open"
    BY <2>1, SimpleWriterAssumption
    DEF LargeSizes, WriteLarge, WriteLargeThrows, Idle
  <2>3. Holds(backend, PadBegin(backend) + localPos, globalPos)
    BY <2>2, OpenFacts
  <2>4. CASE WriteLarge(n)
    <3>1. backend' = SinkWrite(backend, localPos, globalPos, n)
      BY <2>4 DEF WriteLarge, Rewindow, WriteThrough
    <3> QED
      BY <1>1, <2>2, <2>3, <3>1, ThroughGrows
  <2>5. CASE WriteLargeThrows(n)
    <3> DEFINE k    == Missing(backend, n)
               full == Completed(backend, globalPos, k)
               done == CompleteBlock(backend, localPos, globalPos, n)
    <3>1. /\ k \in Nat /\ full \in BackendType
          /\ Written(full) = Written(backend)
          /\ \A d \in Nat : Written(backend)
               <= Len(AppendStream(done.file, globalPos + k, d))
      BY <1>1, <2>2, <2>3, ThroughGrows
    <3>2. \/ \E d \in Nat : backend' = WriteSomeThrows(full, localPos + k, d)
          \/ \E d \in Nat :
               backend'.file = AppendStream(done.file, globalPos + k, d)
      BY <2>5 DEF WriteLargeThrows
    <3> HIDE DEF k, full, done
    <3>3. localPos + k \in Nat
      BY <1>1, <3>1
    <3>4. CASE \E d \in Nat : backend' = WriteSomeThrows(full, localPos + k, d)
      BY <3>1, <3>3, <3>4, FileGrows
    <3>5. CASE \E d \in Nat :
                 backend'.file = AppendStream(done.file, globalPos + k, d)
      BY <3>1, <3>5 DEF Written
    <3> QED
      BY <3>2, <3>4, <3>5
  <2> QED
    BY <2>1, <2>4, <2>5
<1>5. CASE BeginWrite
  BY <1>1, <1>5, FileGrows
  DEF BeginWrite, BeginWriteFits, BeginWriteGrows, BeginWriteRefused, Refuse,
      Rewindow, Prepared
<1>6. CASE CommitWrite
  <2>1. PICK n \in 0 .. reserved :
          CommitWriteKeeps(n) \/ CommitWriteWrites(n) \/ CommitWriteThrows(n)
    BY <1>6 DEF CommitWrite
  <2>2. phase = "open"
    BY <2>1 DEF CommitWriteKeeps, CommitWriteWrites, CommitWriteThrows
  <2>3. n \in Nat /\ n <= Room
    <3>1. reserved \in Int /\ reserved <= Room /\ Room \in Nat
      BY <2>2, OpenFacts, SimpleWriterAssumption DEF TypeOK, NoReserve
    <3> QED
      BY <2>1, <3>1
  <2>4. Stored(n) \in BackendType
    BY <2>2, <2>3, StoredFacts DEF Stored
  <2>5. PICK told \in Nat : told = localPos + n
    BY <1>1, <2>3
  <2>6. \/ backend' = Store(backend, begin, globalPos, n)
        \/ backend' = WriteSome(Store(backend, begin, globalPos, n), told)
        \/ \E d \in Nat :
             backend' = WriteSomeThrows(Store(backend, begin, globalPos, n), told, d)
    BY <2>1, <2>5
    DEF CommitWriteKeeps, CommitWriteWrites, CommitWriteThrows, Stored, Rewindow
  <2>7. CASE backend' = Store(backend, begin, globalPos, n)
    BY <1>1, <2>7, FileGrows
  <2>8. CASE backend' # Store(backend, begin, globalPos, n)
    BY <1>2, <2>4, <2>6, <2>8 DEF Stored
  <2> QED
    BY <2>7, <2>8
<1>7. CASE FlushReturns \/ FlushFails
  <2>1. PICK told : told = WriteSome(backend, localPos)
    OBVIOUS
  <2>2. told \in BackendType /\ Written(backend) <= Written(told)
    BY <1>1, <2>1, WriteSomeType, FileGrows
  <2>3. \/ backend' = FlushBackend(told)
        \/ \E d \in Nat : backend' = WriteSomeThrows(backend, localPos, d)
        \/ \E d \in Nat : backend' = FlushThrows(told, d)
    BY <1>7, <2>1 DEF FlushReturns, FlushFails
  <2>4. CASE \E d \in Nat : backend' = WriteSomeThrows(backend, localPos, d)
    BY <1>1, <2>4, FileGrows
  <2>5. CASE \/ backend' = FlushBackend(told)
             \/ \E d \in Nat : backend' = FlushThrows(told, d)
    <3>1. Written(told) <= Written(backend')
      BY <2>2, <2>5, FileGrows
    <3>2. backend' \in BackendType
      BY <2>2, <2>5, FlushType
    <3>3. Written(told) \in Nat /\ Written(backend') \in Nat
      BY <2>2, <3>2, BackendParts
    <3> QED
      BY <1>1, <2>2, <3>1, <3>3
  <2> QED
    BY <2>3, <2>4, <2>5
<1>8. CASE DestroyBackend
  BY <1>1, <1>8, FileGrows DEF DestroyBackend
<1>9. CASE Gone \/ UNCHANGED vars
  BY <1>1, <1>9 DEF Gone, vars
<1>10. ~Clear
  BY DEF Clear
<1> QED
  BY <1>3, <1>4, <1>5, <1>6, <1>7, <1>8, <1>9, <1>10
  DEF Next, Flush, FlushThrowsOut, Destroy

(* What has reached the other side, in bytes *)
Reached(b) == IF Kind = "file" THEN Written(b) ELSE PadBegin(b)

(* The other side has the first bytes, and it lacks those that wait. *)
LEMMA DeliveredFirst ==
  ASSUME NEW b \in BackendType, NEW wait \in Nat, NEW pos \in Nat,
         Holds(b, PadBegin(b) + wait, pos),
         Kind # "file" => b.file = << >>
  PROVE  /\ Delivered(b) = Stream(Reached(b))
         /\ Reached(b) \in Nat /\ Reached(b) <= pos
         /\ Kind # "file" => Reached(b) = pos - wait
<1>1. /\ PadBegin(b) \in Nat /\ Written(b) \in Nat /\ b.file \in Seq(Cell)
      /\ Written(b) = Len(b.file) /\ PadEnd(b) \in Nat
  BY BackendParts
<1>2. /\ PadBegin(b) + wait <= PadEnd(b)
      /\ Written(b) + (PadBegin(b) + wait) = pos
      /\ Counts(b.file, Written(b), 0)
      /\ Counts(b.pad.v, PadBegin(b) + wait, Written(b))
  BY DEF Holds
<1>3. CASE Kind = "file"
  <2>1. b.file = Stream(Written(b))
    BY <1>1, <1>2, StreamOf
  <2>2. Delivered(b) = Stream(Reached(b)) /\ Reached(b) = Written(b)
    BY <1>3, <2>1 DEF Delivered, Reached
  <2> QED
    BY <1>1, <1>2, <1>3, <2>2
<1>4. CASE Kind # "file"
  <2>1. Written(b) = 0 /\ Reached(b) = PadBegin(b)
    BY <1>1, <1>4 DEF Reached
  <2>2. Holds(b, PadBegin(b), PadBegin(b))
    <3>1. Counts(b.pad.v, PadBegin(b), 0)
      BY <1>1, <1>2, <2>1 DEF Counts
    <3>2. PadBegin(b) \in 0 .. PadEnd(b)
      BY <1>1, <1>2
    <3> QED
      BY <1>1, <1>2, <2>1, <3>1, <3>2 DEF Holds
  <2>3. Delivered(b) = Stream(PadBegin(b))
    BY <1>1, <1>4, <2>2, DeliveredAll
  <2> QED
    BY <1>1, <1>2, <2>1, <2>3
<1> QED
  BY <1>3, <1>4

(* Bytes wait only after they have been accepted, and clear() alone takes  *)
(* back what has been.                                                     *)
LEMMA Accepts ==
  ASSUME Sound, ~ioError, [Next]_vars, ~Clear
  PROVE  /\ globalPos <= globalPos'
         /\ ~ioError' => globalPos - localPos <= globalPos' - localPos'
<1>1. /\ localPos \in Nat /\ globalPos \in Nat
  BY SimpleWriterAssumption DEF Sound, TypeOK
<1>2. \/ UNCHANGED <<globalPos, localPos>>
      \/ \E n \in Nat : /\ globalPos' = globalPos + n
                        /\ localPos' \in {0, localPos + n} \/ ioError'
  <2>1. CASE Write
    <3>1. PICK n \in SmallSizes : WriteFits(n) \/ WriteGrows(n)
                                  \/ WriteGrowsThrows(n) \/ WriteRefused(n)
      BY <2>1 DEF Write
    <3>2. n \in Nat
      BY SimpleWriterAssumption DEF SmallSizes
    <3>3. CASE WriteFits(n) \/ WriteGrows(n)
      BY <3>2, <3>3 DEF WriteFits, WriteGrows
    <3>4. CASE WriteGrowsThrows(n)
      BY <3>2, <3>4 DEF WriteGrowsThrows, Throw
    <3>5. CASE WriteRefused(n)
      <4>1. globalPos' = globalPos + 0 /\ localPos' = 0
        BY <1>1, <3>5 DEF WriteRefused, Refuse
      <4> QED
        BY <4>1
    <3> QED
      BY <3>1, <3>3, <3>4, <3>5
  <2>2. CASE WriteThroughput
    BY <2>2, SimpleWriterAssumption
    DEF WriteThroughput, LargeSizes, WriteLarge, WriteLargeThrows, Throw
  <2>3. CASE BeginWrite
    BY <1>1, <2>3
    DEF BeginWrite, BeginWriteFits, BeginWriteGrows, BeginWriteRefused, Refuse
  <2>4. CASE CommitWrite
    BY <2>4, SimpleWriterAssumption
    DEF CommitWrite, CommitWriteKeeps, CommitWriteWrites, CommitWriteThrows,
        Throw, Sound, TypeOK, NoReserve
  <2>5. CASE FlushReturns \/ FlushFails
    BY <1>1, <2>5 DEF FlushReturns, FlushFails
  <2>6. CASE DestroyBackend \/ Gone \/ UNCHANGED vars
    BY <2>6 DEF DestroyBackend, Gone, vars
  <2> QED
    BY <2>1, <2>2, <2>3, <2>4, <2>5, <2>6
    DEF Next, Flush, FlushThrowsOut, Destroy
<1> QED
  BY <1>1, <1>2

(* A file that is left behind by a flush() that throws *)
LEMMA FlushFailsPrefix ==
  ASSUME Whole, phase = "open", FlushFails
  PROVE  Counts(backend'.file, Written(backend'), 0)
<1>1. PICK told : told = WriteSome(backend, localPos)
  OBVIOUS
<1>2. \/ \E d \in 0 .. (WriteSomeBytes(backend, localPos) - 1) :
           backend' = WriteSomeThrows(backend, localPos, d)
      \/ \E d \in 0 .. (FlushBytes(told) - 1) : backend' = FlushThrows(told, d)
  BY <1>1 DEF FlushFails
<1>3. /\ backend \in BackendType /\ localPos \in Nat /\ globalPos \in Nat
      /\ Holds(backend, PadBegin(backend) + localPos, globalPos)
  BY OpenFacts
<1>4. told \in BackendType /\ Holds(told, PadBegin(told), globalPos)
  BY <1>1, <1>3, ReportedFacts
<1> QED
  BY <1>2, <1>3, <1>4, WriteSomeThrowsPrefix, FlushThrowsPrefix

(* Only a call of a file writer fails, and what it leaves behind is a      *)
(* prefix of what the client has written.                                  *)
LEMMA FailsTorn ==
  ASSUME Whole, Whole', ~bypassed', ~ioError, ioError', [Next]_vars
  PROVE  /\ Kind = "file" /\ phase' # "closed"
         /\ backend'.file = Stream(Written(backend'))
<1>1. ioError \in BOOLEAN /\ backend' \in BackendType
  BY DEF Whole, Sound, Intact, TypeOK
<1>2. \A b, forget : Kind # "file" => WriteSomeBytes(b, forget) = 0 /\ FlushBytes(b) = 0
  BY DEF WriteSomeBytes, FlushBytes
<1>3. CASE \/ \E n \in SmallSizes : WriteGrowsThrows(n)
           \/ \E n \in LargeSizes : WriteLargeThrows(n)
           \/ \E n \in 0 .. reserved : CommitWriteThrows(n)
           \/ FlushThrowsOut
  <2>1. Kind = "file"
    <3>1. \A d : d \notin 0 .. (0 - 1)
      OBVIOUS
    <3>2. CASE \E n \in SmallSizes : WriteGrowsThrows(n)
      BY <1>2, <3>1, <3>2 DEF WriteGrowsThrows
    <3>3. CASE \E n \in LargeSizes : WriteLargeThrows(n)
      BY <3>3 DEF WriteLargeThrows
    <3>4. CASE \E n \in 0 .. reserved : CommitWriteThrows(n)
      BY <1>2, <3>1, <3>4 DEF CommitWriteThrows
    <3>5. CASE FlushThrowsOut
      BY <1>2, <3>1, <3>5 DEF FlushThrowsOut, FlushFails
    <3> QED
      BY <1>3, <3>2, <3>3, <3>4, <3>5
  <2>2. phase' = "thrown"
    BY <1>3 DEF WriteGrowsThrows, WriteLargeThrows, CommitWriteThrows,
                FlushThrowsOut, Throw
  <2>3. TornPrefix'
    BY DEF Whole, Sound, Intact
  <2> QED
    BY <2>1, <2>2, <2>3 DEF TornPrefix
<1>4. CASE Destroy
  <2>1. FlushFails /\ phase' = "unwound"
    BY <1>1, <1>4 DEF Destroy, FlushReturns
  <2>2. phase = "open"
    BY <1>4 DEF Destroy, Whole, Sound, Placed
  <2>3. Kind = "file"
    BY <1>2, <2>1 DEF FlushFails
  <2>4. Counts(backend'.file, Written(backend'), 0)
    BY <2>1, <2>2, FlushFailsPrefix
  <2>5. /\ backend'.file \in Seq(Cell) /\ Written(backend') \in Nat
        /\ Written(backend') = Len(backend'.file)
    BY <1>1, BackendParts
  <2> QED
    BY <2>1, <2>3, <2>4, <2>5, StreamOf
<1>5. ~DestroyBackend
  <2> SUFFICES ASSUME DestroyBackend PROVE FALSE
    OBVIOUS
  <2>1. phase = "unwound"
    BY DEF DestroyBackend
  <2>2. Kind = "file" => PadBegin(backend) = 0
    BY <2>1 DEF Whole, Sound, Placed, Intact, Healthy
  <2>3. FlushBytes(backend) = 0
    BY <2>2 DEF FlushBytes
  <2>4. PICK d : d \in 0 .. (FlushBytes(backend) - 1)
    BY <1>1 DEF DestroyBackend
  <2> QED
    BY <2>3, <2>4
<1>6. ~(ioError' = ioError)
  OBVIOUS
<1> QED
  BY <1>3, <1>4, <1>5, <1>6
  DEF Next, Write, WriteThroughput, BeginWrite, CommitWrite, Flush, Clear,
      WriteFits, WriteGrows, WriteRefused, WriteLarge, BeginWriteFits,
      BeginWriteGrows, BeginWriteRefused, CommitWriteKeeps, CommitWriteWrites,
      FlushReturns, NoThrow, Gone, vars

(* A new writer is a new sink. *)
LEMMA SinkInit ==
  ASSUME Init, IInv, FileUnused
  PROVE  Sink!Init
<1>1. /\ globalPos = 0 /\ localPos = 0 /\ ioError = FALSE /\ phase = "open"
      /\ bypassed = FALSE
  BY DEF Init
<1>2. /\ backend \in BackendType /\ Healthy
  BY <1>1 DEF IInv, Sound, Intact, TypeOK
<1>3. Holds(backend, PadBegin(backend) + localPos, globalPos)
  BY <1>2 DEF Healthy
<1>4. /\ Delivered(backend) = Stream(Reached(backend))
      /\ Reached(backend) \in Nat /\ Reached(backend) <= 0
  BY <1>1, <1>2, <1>3, DeliveredFirst DEF FileUnused
<1>5. Reached(backend) = 0
  BY <1>4
<1>6. Delivered(backend) = << >>
  BY <1>4, <1>5 DEF Stream
<1> QED
  BY <1>1, <1>6 DEF Sink!Init

(* The bytes of a sink are those of a stream. *)
LEMMA FirstBytesOf ==
  ASSUME NEW n \in Nat
  PROVE  Sink!FirstBytes(n) = Stream(n) /\ Len(Stream(n)) = n
<1>1. Stream(n) \in [1 .. n -> Nat]
  BY DEF Stream
<1> QED
  BY <1>1, SeqOfFunction DEF Sink!FirstBytes, Stream

(* A writer that is gone takes no step. *)
LEMMA NotClosed ==
  ASSUME [Next]_vars, ~(Gone \/ UNCHANGED vars)
  PROVE  phase # "closed"
BY DEF Next, Write, WriteThroughput, BeginWrite, CommitWrite, Flush, Clear,
       FlushThrowsOut, WriteFits, WriteGrows, WriteGrowsThrows, WriteRefused,
       WriteLarge, WriteLargeThrows, BeginWriteFits, BeginWriteGrows,
       BeginWriteRefused, CommitWriteKeeps, CommitWriteWrites,
       CommitWriteThrows, Idle, Destroy, DestroyBackend

(* A step of a writer that has not failed, and of which no byte has been   *)
(* bypassed, is one of a sink that works.                                  *)
LEMMA WorkingStep ==
  ASSUME Whole, Whole', FileUnused, FileUnused', DestructorDelivers',
         ~ioError, ~bypassed, ~bypassed',
         [Next]_vars, ~(Gone \/ UNCHANGED vars)
  PROVE  Sink!Next
<1>1. /\ backend \in BackendType /\ backend' \in BackendType
      /\ localPos \in Nat /\ localPos' \in Nat
      /\ globalPos \in Nat /\ globalPos' \in Nat
      /\ ioError \in BOOLEAN /\ ioError' \in BOOLEAN
      /\ bypassed' = bypassed
      /\ phase \in Phases /\ phase' \in Phases
  BY SimpleWriterAssumption DEF Whole, Sound, Intact, TypeOK
<1>2. ASSUME NEW n \in Nat
      PROVE  Sink!FirstBytes(n) = Stream(n) /\ Len(Stream(n)) = n
  BY FirstBytesOf
<1>3. Holds(backend, PadBegin(backend) + localPos, globalPos)
  BY DEF Whole, Sound, Placed, Intact, Healthy
<1>4. PICK n \in Nat : /\ n = Reached(backend)
                       /\ Delivered(backend) = Stream(n) /\ n <= globalPos
                       /\ Kind # "file" => n = globalPos - localPos
  BY <1>1, <1>3, DeliveredFirst DEF FileUnused
<1>5. Len(Delivered(backend)) = n
  BY <1>2, <1>4
<1>6. phase # "closed"
  BY NotClosed
<1>7. Sink!Working
  BY <1>6 DEF Sink!Working
<1>8. CASE Clear
  <2>1. /\ globalPos' = 0 /\ localPos' = 0 /\ Kind = "scratchpad"
        /\ ioError' = ioError /\ phase' = phase
    BY <1>8 DEF Clear, NoThrow
  <2>2. Holds(backend', PadBegin(backend') + localPos', globalPos')
    BY <2>1 DEF Whole, Sound, Placed, Intact, Healthy
  <2>3. /\ Delivered(backend') = Stream(Reached(backend'))
        /\ Reached(backend') \in Nat /\ Reached(backend') <= 0
    BY <1>1, <2>1, <2>2, DeliveredFirst DEF FileUnused
  <2>4. Reached(backend') = 0
    BY <2>3
  <2>5. Delivered(backend') = << >>
    BY <2>3, <2>4 DEF Stream
  <2> QED
    BY <1>1, <1>7, <2>1, <2>5 DEF Sink!Next, Sink!Discard
<1>9. CASE ioError' /\ ~Clear
  <2>1. /\ Kind = "file" /\ phase' # "closed"
        /\ backend'.file = Stream(Written(backend'))
    BY <1>9, FailsTorn
  <2>2. PICK m \in Nat : m = Written(backend')
    BY <1>1, BackendParts
  <2>3. n <= m
    BY <1>4, <2>1, <2>2, WrittenGrows DEF Reached
  <2>4. Delivered(backend') = Stream(m)
    BY <2>1, <2>2 DEF Delivered
  <2>5. Len(Delivered(backend')) = m /\ Stream(m) = Sink!FirstBytes(m)
    BY <1>2, <2>4
  <2>6. globalPos <= globalPos'
    BY <1>9, Accepts DEF Whole
  <2> QED
    BY <1>1, <1>5, <1>6, <1>7, <1>9, <2>1, <2>3, <2>4, <2>5, <2>6
    DEF Sink!Next, Sink!Fail, Sink!Grows
<1>10. CASE ~ioError' /\ ~Clear
  <2>1. Holds(backend', PadBegin(backend') + localPos', globalPos')
    BY <1>10 DEF Whole, Sound, Placed, Intact, Healthy
  <2>2. PICK m \in Nat : /\ m = Reached(backend')
                         /\ Delivered(backend') = Stream(m) /\ m <= globalPos'
                         /\ Kind # "file" => m = globalPos' - localPos'
    BY <1>1, <2>1, DeliveredFirst DEF FileUnused
  <2>3. /\ globalPos <= globalPos'
        /\ globalPos - localPos <= globalPos' - localPos'
    BY <1>10, Accepts DEF Whole
  <2>4. n <= m
    <3>1. CASE Kind = "file"
      BY <1>4, <2>2, <3>1, WrittenGrows DEF Reached
    <3>2. CASE Kind # "file"
      BY <1>4, <2>2, <2>3, <3>2
    <3> QED
      BY <3>1, <3>2
  <2>5. ioError' = ioError
    BY <1>1, <1>10
  <2>6. CASE phase' = "closed"
    <3>1. globalPos' = globalPos
      BY <1>1, <1>6, <1>10, <2>6
      DEF Next, Write, WriteThroughput, BeginWrite, CommitWrite, Flush,
          FlushThrowsOut, WriteFits, WriteGrows, WriteGrowsThrows,
          WriteRefused, WriteLarge, WriteLargeThrows, BeginWriteFits,
          BeginWriteGrows, BeginWriteRefused, CommitWriteKeeps,
          CommitWriteWrites, CommitWriteThrows, Destroy, DestroyBackend,
          NoThrow, Throw
    <3>2. Delivered(backend') = Sink!FirstBytes(globalPos)
      BY <1>1, <1>2, <1>10, <2>6, <3>1 DEF DestructorDelivers
    <3> QED
      BY <1>1, <1>6, <1>7, <2>5, <2>6, <3>1, <3>2 DEF Sink!Next, Sink!Close
  <2>7. CASE phase' # "closed"
    <3>1. m \in Len(Delivered(backend)) .. globalPos'
      BY <1>1, <1>5, <2>2, <2>4
    <3>2. Delivered(backend') = Sink!FirstBytes(m)
      BY <1>2, <2>2
    <3> QED
      BY <1>1, <1>6, <1>7, <2>3, <2>5, <2>7, <3>1, <3>2
      DEF Sink!Next, Sink!Accept, Sink!Grows
  <2> QED
    BY <2>6, <2>7
<1> QED
  BY <1>8, <1>9, <1>10

(* A step of a writer is a step of the sink, or none. *)
LEMMA SinkStep ==
  ASSUME IInv, IInv', FileUnused, FileUnused', DestructorDelivers', [Next]_vars
  PROVE  [Sink!Next]_(Sink!vars)
<1>1. /\ globalPos \in Nat /\ globalPos' \in Nat
      /\ ioError \in BOOLEAN /\ ioError' \in BOOLEAN
      /\ bypassed \in BOOLEAN /\ bypassed' \in BOOLEAN
      /\ phase \in Phases /\ phase' \in Phases
  BY SimpleWriterAssumption DEF IInv, Sound, TypeOK
<1>2. CASE Gone \/ UNCHANGED vars
  BY <1>2 DEF Gone, vars, Sink!vars
<1>3. CASE ioError /\ ~(Gone \/ UNCHANGED vars)
  <2>1. phase # "open"
    BY <1>3 DEF IInv, Sound
  <2>2. Destroy \/ DestroyBackend
    BY <1>3, <2>1
    DEF Next, Write, WriteThroughput, BeginWrite, CommitWrite, Flush, Clear,
        FlushThrowsOut, WriteFits, WriteGrows, WriteGrowsThrows, WriteRefused,
        WriteLarge, WriteLargeThrows, BeginWriteFits, BeginWriteGrows,
        BeginWriteRefused, CommitWriteKeeps, CommitWriteWrites,
        CommitWriteThrows, Idle
  <2>3. /\ globalPos' = globalPos /\ ioError' = ioError
        /\ bypassed' = bypassed
    BY <1>1, <1>3, <2>2 DEF Destroy, DestroyBackend, FlushReturns, FlushFails
  <2>4. Sink!Grows
    BY <1>1, <2>3 DEF Sink!Grows
  <2> QED
    BY <1>3, <2>3, <2>4, NotClosed DEF Sink!Next, Sink!Abandon
<1>4. CASE ~ioError /\ bypassed /\ ~(Gone \/ UNCHANGED vars)
  <2>1. ~Clear
    BY <1>4 DEF Clear, FileUnused
  <2>2. globalPos <= globalPos'
    BY <1>4, <2>1, Accepts DEF IInv
  <2>3. Sink!Grows
    BY <1>1, <2>2 DEF Sink!Grows
  <2>4. bypassed' = bypassed
    BY <1>1, <1>4, BypassedSteps
  <2> QED
    BY <1>4, <2>3, <2>4, NotClosed DEF Sink!Next, Sink!Abandon
<1>5. CASE ~ioError /\ ~bypassed /\ bypassed'
  <2>1. WriteThroughput
    BY <1>5 DEF Next, Write, BeginWrite, CommitWrite, Flush, FlushThrowsOut,
       Clear, Destroy, DestroyBackend, Gone, vars
  <2>2. phase = "open" /\ phase' # "closed"
    BY <2>1 DEF WriteThroughput, WriteLarge, WriteLargeThrows, Idle, NoThrow,
       Throw
  <2>3. globalPos <= globalPos'
    BY <1>5, <2>2, Accepts DEF IInv, Clear, FileUnused
  <2>4. Sink!Grows
    BY <1>1, <2>3 DEF Sink!Grows
  <2>5. Sink!Working
    BY <1>5, <2>2 DEF Sink!Working
  <2>6. bypassed' = TRUE
    BY <1>1, <1>5
  <2> QED
    BY <2>2, <2>4, <2>5, <2>6 DEF Sink!Next, Sink!Break
<1>6. CASE ~ioError /\ ~bypassed /\ ~bypassed' /\ ~(Gone \/ UNCHANGED vars)
  <2>1. Whole /\ Whole'
    BY <1>6 DEF IInv, Whole
  <2> QED
    BY <1>6, <2>1, WorkingStep
<1> QED
  BY <1>2, <1>3, <1>4, <1>5, <1>6

(* A writer is a ByteSink, as far as safety goes: whatever it buffers,     *)
(* whenever it writes and whether a write fails, the other side has the    *)
(* first bytes its client has written - or a write-through has bypassed    *)
(* some of them, and a sink that breaks is all it is.                      *)
THEOREM WriterIsSink == Spec => Sink!Safety
<1> DEFINE All == IInv /\ FileUnused /\ DestructorDelivers
<1>1. IInv /\ FileUnused => DestructorDelivers
  BY InvariantImplies
<1>2. Init /\ All => Sink!Init
  BY SinkInit
<1>3. All /\ All' /\ [Next]_vars => [Sink!Next]_(Sink!vars)
  BY SinkStep
<1> QED
  BY <1>1, <1>2, <1>3, Invariant, PTL DEF Spec, Sink!Safety
=============================================================================
