---------------------------- MODULE ReaderProofs ----------------------------
(***************************************************************************)
(* What the methods of a Simple_Reader do to its window, for every block   *)
(* size, every input and every backend.                                    *)
(***************************************************************************)
EXTENDS Reader, TLAPS

(***************************************************************************)
(* Blocks of the file                                                      *)
(***************************************************************************)

(* A file is asked for no more than what is wanted and a part of a block.  *)
LEMMA BlocksBounds ==
  ASSUME NEW want \in Nat
  PROVE  /\ Blocks(want) \in Nat /\ Blocks(want) * Inc \in Nat
         /\ Blocks(want) * Inc <= want + Inc - 1
         /\ want + Inc <= Word => Blocks(want) * Inc >= want
<1> DEFINE n == want + Inc - 1
           m == n % Word
<1>1. n \in Nat /\ Inc \in Nat /\ Inc > 0 /\ Word \in Nat /\ Word > 0
  BY ReaderAssumption
<1>2. m \in Nat /\ m <= n /\ (n < Word => m = n)
  BY <1>1, SMT
<1> HIDE DEF m
<1>3. /\ m \div Inc \in Nat /\ (m \div Inc) * Inc \in Nat
      /\ (m \div Inc) * Inc <= m /\ m - (m \div Inc) * Inc < Inc
  BY <1>1, <1>2, SMT
<1>4. Blocks(want) = m \div Inc
  BY DEF Blocks, m
<1> DEFINE b == (m \div Inc) * Inc
<1>5. b \in Nat /\ b <= m /\ m - b < Inc
  BY <1>3
<1>6. Blocks(want) * Inc = b
  BY <1>4
<1> HIDE DEF b
<1>7. b <= n /\ (n < Word => b >= want)
  BY <1>1, <1>2, <1>5
<1> QED
  BY <1>1, <1>3, <1>4, <1>5, <1>6, <1>7

(***************************************************************************)
(* Pads and readers by their parts                                         *)
(***************************************************************************)

(* A function on 1 .. n is a sequence of n elements. *)
LEMMA CellsOfFunction ==
  ASSUME NEW n \in Nat, NEW f \in [1 .. n -> Nat]
  PROVE  f \in Seq(Nat) /\ Len(f) = n
BY SMT

(* The parts of a reader. *)
LEMMA ReaderParts ==
  ASSUME NEW r \in ReaderType
  PROVE  /\ r.backend \in Backends /\ r.pad \in PadType
         /\ r.pad.v \in Seq(Nat) /\ r.pad.off \in Nat
         /\ Size(r.pad) = Len(r.pad.v) /\ Size(r.pad) \in Nat
         /\ r.taken \in Nat /\ r.size \in Nat /\ r.hitEnd \in BOOLEAN
         /\ r.first \in Nat /\ r.second \in Nat /\ r.local \in Nat
         /\ r.global \in Nat /\ r.eof \in BOOLEAN
BY DEF ReaderType, PadType, Cell, Size

(* A cell of the pad *)
LEMMA CellInPad ==
  ASSUME NEW pad \in PadType, NEW i \in 1 .. Size(pad)
  PROVE  CellAt(pad, i) = pad.v[i]
BY DEF CellAt, Size

(* remove_head(): the first k bytes disappear, the others move down.       *)
MovesDown(kept, pad, k) ==
  /\ kept \in PadType /\ kept.off = 0
  /\ Size(kept) = Size(pad) - k
  /\ \A i \in 1 .. Size(kept) : kept.v[i] = pad.v[i + k]

(* remove_head() moves the cells behind the head to the front. *)
LEMMA RemoveHeadCells ==
  ASSUME NEW pad \in PadType, pad.off = 0, NEW k \in 0 .. Size(pad)
  PROVE  MovesDown(RemoveHead(pad, k), pad, k)
<1> DEFINE kept == RemoveHead(pad, k)
           v == [i \in 1 .. (Len(pad.v) - k) |-> pad.v[i + k]]
<1>1. pad.v \in Seq(Nat) /\ Len(pad.v) = Size(pad) /\ Size(pad) \in Nat
  BY DEF PadType, Cell, Size
<1>2. IncrementHead(pad, k).v = pad.v /\ IncrementHead(pad, k).off = k
  BY DEF IncrementHead, PadType
<1>3. kept = [v |-> v, off |-> 0]
  BY <1>2 DEF RemoveHead, ForgetPrelude
<1>4. v \in [1 .. (Len(pad.v) - k) -> Nat] /\ Len(pad.v) - k \in Nat
  BY <1>1, SMTT(40)
<1>5. v \in Seq(Nat) /\ Len(v) = Len(pad.v) - k
  BY <1>4, CellsOfFunction
<1>6. \A i \in 1 .. (Len(pad.v) - k) : v[i] = pad.v[i + k]
  OBVIOUS
<1> HIDE DEF v
<1> QED
  BY <1>1, <1>3, <1>5, <1>6 DEF MovesDown, PadType, Cell, Size

(* Room at the end of the pad, and what read(2) puts there: the first got  *)
(* of the new cells hold the next bytes of the file, the rest is cut off.  *)
Filled(pad, room, from, got) ==
  RemoveTail(CopyIn(AddTail(pad, room), Size(pad), from, got), room - got)

FillsUp(next, pad, from, got) ==
  /\ next \in PadType /\ next.off = 0
  /\ Size(next) = Size(pad) + got
  /\ \A i \in 1 .. Size(pad) : next.v[i] = pad.v[i]
  /\ \A i \in (Size(pad) + 1) .. (Size(pad) + got) :
       next.v[i] = from + (i - Size(pad))

(* A pad that was made larger, read into and cut off again has what was read *)
(* behind what it had.                                                     *)
LEMMA FilledCells ==
  ASSUME NEW pad \in PadType, pad.off = 0, NEW room \in Nat,
         NEW got \in 0 .. room, NEW from \in Nat
  PROVE  FillsUp(Filled(pad, room, from, got), pad, from, got)
<1> DEFINE n == Len(pad.v)
           more == [i \in 1 .. (n + room) |->
                      IF i <= n THEN pad.v[i] ELSE Garbage]
           full == [i \in 1 .. (n + room) |->
                      IF i \in (n + 1) .. (n + got) THEN from + (i - n)
                                                    ELSE more[i]]
           cut  == [i \in 1 .. (n + got) |-> full[i]]
<1>1. pad.v \in Seq(Nat) /\ n \in Nat /\ Size(pad) = n
  BY DEF PadType, Cell, Size
<1>2. \A i \in 1 .. n : pad.v[i] \in Nat
  BY <1>1
<1>3. more \in [1 .. (n + room) -> Nat]
  BY <1>1, <1>2 DEF Garbage
<1>4. Len(more) = n + room
  BY <1>1, <1>3, CellsOfFunction
<1>5. \A i \in 1 .. n : more[i] = pad.v[i]
  BY <1>1
<1>6. AddTail(pad, room) = [v |-> more, off |-> 0]
  BY DEF AddTail
<1> HIDE DEF more
<1>7. CopyIn(AddTail(pad, room), n, from, got) = [v |-> full, off |-> 0]
  <2>1. AddTail(pad, room).v = more /\ AddTail(pad, room).off = 0
    BY <1>6
  <2> QED
    BY <1>4, <2>1, Zenon DEF CopyIn
<1>8. full \in [1 .. (n + room) -> Nat]
  BY <1>1, <1>3
<1>9. Len(full) = n + room
  BY <1>1, <1>8, CellsOfFunction
<1>10. ASSUME NEW i \in 1 .. n PROVE full[i] = pad.v[i]
  <2>1. i \in 1 .. (n + room) /\ i \notin (n + 1) .. (n + got)
    BY <1>1
  <2> QED
    BY <1>5, <2>1, Zenon
<1>11. ASSUME NEW i \in (n + 1) .. (n + got) PROVE full[i] = from + (i - n)
  <2>1. i \in 1 .. (n + room)
    BY <1>1
  <2> QED
    BY <2>1, Zenon
<1> HIDE DEF full
<1>12. (n + room) - (room - got) = n + got
  BY <1>1
<1>13. RemoveTail([v |-> full, off |-> 0], room - got) = [v |-> cut, off |-> 0]
  BY <1>9, <1>12 DEF RemoveTail
<1>14. cut \in [1 .. (n + got) -> Nat] /\ n + got \in Nat
  BY <1>1, <1>8
<1>15. cut \in Seq(Nat) /\ Len(cut) = n + got
  BY <1>14, CellsOfFunction
<1>16. \A i \in 1 .. n : cut[i] = pad.v[i]
  BY <1>1, <1>10
<1>17. ASSUME NEW i \in (n + 1) .. (n + got) PROVE cut[i] = from + (i - n)
  <2>1. i \in 1 .. (n + got)
    BY <1>1
  <2> QED
    BY <1>11, <2>1, Zenon
<1> HIDE DEF cut
<1> DEFINE next == Filled(pad, room, from, got)
<1>18. next = [v |-> cut, off |-> 0]
  BY <1>1, <1>7, <1>13 DEF Filled
<1> HIDE DEF next
<1>19. next \in PadType /\ next.off = 0 /\ Size(next) = n + got /\ next.v = cut
  BY <1>15, <1>18 DEF PadType, Cell, Size
<1> QED
  BY <1>1, <1>16, <1>17, <1>19 DEF next, FillsUp

(***************************************************************************)
(* next()                                                                  *)
(***************************************************************************)

(* What a sound reader shows of its pad, in numbers *)
LEMMA SoundParts ==
  ASSUME NEW r \in ReaderType, NEW c \in Nat, Sound(r, c)
  PROVE  /\ r.first <= r.second /\ c + (r.second - r.first) = r.taken
         /\ r.second \in 0 .. Size(r.pad) /\ r.first <= c
         /\ r.local = r.first /\ r.pad.off = 0 /\ r.taken <= r.size
         /\ Avail(r) \in Nat /\ Avail(r) = r.second - r.first
         /\ c + Avail(r) = r.taken
         /\ \A i \in 1 .. Size(r.pad) : r.pad.v[i] = c - r.first + i
<1>1. /\ r.first <= r.second /\ c + (r.second - r.first) = r.taken
      /\ r.local = r.first /\ r.pad.off = 0 /\ r.taken <= r.size
      /\ \A i \in 1 .. Size(r.pad) : r.pad.v[i] = c - r.first + i
  BY DEF Sound, InStep, Avail
<1>2. r.second = IF r.backend # "file" /\ r.taken = 0 THEN 0 ELSE Size(r.pad)
  BY DEF Sound
<1>3. r.second \in 0 .. Size(r.pad)
  BY <1>2, ReaderParts
<1>4. r.first <= c
  BY DEF Sound
<1> QED
  BY <1>1, <1>3, <1>4, ReaderParts DEF Avail

(* read_more() of a file: what was forgotten is gone, and what read(2) has *)
(* returned follows what was there.                                        *)
Refilled(q, r, c, room, got) ==
  /\ q.pad \in PadType /\ q.pad.off = 0
  /\ got \in Nat /\ got <= room /\ r.taken + got <= r.size
  /\ got < room => r.taken + got = r.size
  /\ Size(q.pad) = Avail(r) + got
  /\ \A i \in 1 .. Size(q.pad) : q.pad.v[i] = c + i
  /\ q = [r EXCEPT !.pad = q.pad, !.taken = r.taken + got,
                   !.hitEnd = r.hitEnd \/ got < room]

(* What read(2) returns for a request of room bytes *)
Got(r, room) == IF room <= r.size - r.taken THEN room ELSE r.size - r.taken

(* read_more() of a file drops what was forgotten and appends the next bytes. *)
LEMMA RefillFacts ==
  ASSUME NEW r \in ReaderType, NEW c \in Nat, Sound(r, c),
         r.backend = "file", NEW want \in Nat
  PROVE  Refilled(Refill(r, r.local, want), r, c, Blocks(want) * Inc,
                  Got(r, Blocks(want) * Inc))
<1> DEFINE room == Blocks(want) * Inc
           left == r.size - r.taken
           got  == IF room <= left THEN room ELSE left
           kept == RemoveHead(r.pad, r.local)
           next == Filled(kept, room, r.taken, got)
           q    == Refill(r, r.local, want)
<1>1. /\ r.pad \in PadType /\ Size(r.pad) \in Nat /\ r.taken \in Nat
      /\ r.size \in Nat /\ r.first \in Nat /\ r.second \in Nat
  BY ReaderParts
<1>2. /\ r.pad.off = 0 /\ r.local = r.first /\ r.local \in 0 .. Size(r.pad)
      /\ r.taken <= r.size /\ c + Avail(r) = r.taken
      /\ Avail(r) = r.second - r.first /\ r.first <= r.second
      /\ r.second = Size(r.pad)
      /\ \A i \in 1 .. Size(r.pad) : r.pad.v[i] = c - r.first + i
  BY <1>1, SoundParts DEF Sound
<1>3. /\ room \in Nat /\ got \in 0 .. room /\ r.taken + got <= r.size
      /\ got < room => r.taken + got = r.size
  <2>1. room \in Nat
    BY BlocksBounds
  <2> HIDE DEF room
  <2> QED
    BY <1>1, <1>2, <2>1
<1>4. /\ kept \in PadType /\ kept.off = 0
      /\ Size(kept) = Size(r.pad) - r.first
      /\ \A i \in 1 .. Size(kept) : kept.v[i] = r.pad.v[i + r.first]
  <2>1. MovesDown(kept, r.pad, r.first)
    BY <1>1, <1>2, RemoveHeadCells
  <2> QED
    BY <2>1 DEF MovesDown
<1> HIDE DEF kept, room, got
<1>5. FillsUp(next, kept, r.taken, got)
  <2>1. /\ kept \in PadType /\ kept.off = 0 /\ room \in Nat
        /\ got \in 0 .. room /\ r.taken \in Nat
    BY <1>1, <1>3, <1>4
  <2> HIDE DEF left, q
  <2> QED
    BY <2>1, FilledCells, Zenon
<1> HIDE DEF next
<1>6. ASSUME NEW i \in 1 .. Size(next)
      PROVE  next.v[i] = c + i
  <2>1. CASE i <= Size(kept)
    <3>1. i \in 1 .. Size(kept) /\ i + r.first \in 1 .. Size(r.pad)
      BY <1>1, <1>2, <1>3, <1>4, <1>5, <2>1 DEF FillsUp
    <3>2. next.v[i] = r.pad.v[i + r.first]
      BY <1>4, <1>5, <3>1 DEF FillsUp
    <3>3. r.pad.v[i + r.first] = c - r.first + (i + r.first)
      BY <1>2, <3>1
    <3> QED
      BY <1>1, <3>2, <3>3
  <2>2. CASE i > Size(kept)
    <3>1. next.v[i] = r.taken + (i - Size(kept))
      BY <1>1, <1>2, <1>3, <1>4, <1>5, <2>2 DEF FillsUp
    <3> QED
      BY <1>1, <1>2, <1>4, <3>1
  <2> QED
    BY <1>1, <1>2, <1>3, <1>4, <1>5, <2>1, <2>2 DEF FillsUp
<1>7. q = [r EXCEPT !.pad = next, !.taken = r.taken + got,
                   !.hitEnd = r.hitEnd \/ got < room]
  BY Zenon DEF Refill, Filled, next, kept, room, got
<1>8. q.pad = next
  BY <1>7 DEF ReaderType
<1> HIDE DEF q
<1>9. /\ q.pad \in PadType /\ q.pad.off = 0
      /\ Size(q.pad) = Avail(r) + got
      /\ \A i \in 1 .. Size(q.pad) : q.pad.v[i] = c + i
      /\ q = [r EXCEPT !.pad = q.pad, !.taken = r.taken + got,
                       !.hitEnd = r.hitEnd \/ got < room]
  BY <1>1, <1>2, <1>4, <1>5, <1>6, <1>7, <1>8 DEF FillsUp
<1> QED
  BY <1>3, <1>9 DEF Refilled, Got, q, room, got

(* A reader whose backend was asked for more: its window is the pad. *)
IsRead(q, r, pad, taken, hitEnd) ==
  /\ q \in ReaderType
  /\ q.backend = r.backend /\ q.size = r.size
  /\ q.global = r.global /\ q.eof = r.eof
  /\ q.pad = pad /\ q.taken = taken /\ q.hitEnd = hitEnd
  /\ q.first = pad.off /\ q.second = Size(pad) /\ q.local = 0

HandedOut(r, pad, taken, hitEnd) ==
  [r EXCEPT !.pad = pad, !.taken = taken, !.hitEnd = hitEnd]

Shown(more) ==
  [more EXCEPT !.first = more.pad.off, !.second = Size(more.pad), !.local = 0]

(* next() shows all of the pad after it has asked the backend. *)
LEMMA ReadParts ==
  ASSUME NEW r \in ReaderType, NEW pad \in PadType, NEW taken \in Nat,
         NEW hitEnd \in BOOLEAN
  PROVE  IsRead(Shown(HandedOut(r, pad, taken, hitEnd)), r, pad, taken, hitEnd)
<1> DEFINE more == HandedOut(r, pad, taken, hitEnd)
           q    == Shown(more)
<1>1. /\ more \in ReaderType
      /\ more.pad = pad /\ more.taken = taken /\ more.hitEnd = hitEnd
      /\ more.backend = r.backend /\ more.size = r.size
      /\ more.global = r.global /\ more.eof = r.eof
  BY DEF ReaderType, HandedOut
<1> HIDE DEF more
<1>2. pad.off \in Nat /\ Size(pad) \in Nat
  BY DEF PadType, Size
<1>3. q \in ReaderType
  BY <1>1, <1>2 DEF ReaderType, Shown
<1>4. /\ q.backend = r.backend /\ q.size = r.size
      /\ q.global = r.global /\ q.eof = r.eof
  BY <1>1 DEF ReaderType, Shown
<1>5. q.pad = pad /\ q.taken = taken /\ q.hitEnd = hitEnd
  BY <1>1 DEF ReaderType, Shown
<1>6. q.first = pad.off /\ q.second = Size(pad) /\ q.local = 0
  BY <1>1 DEF ReaderType, Shown
<1> QED
  BY <1>3, <1>4, <1>5, <1>6 DEF IsRead, q, more

(* What next() does to the window of a client that has consumed c bytes    *)
MovesOn(q, r, c, want, room) ==
  /\ q.backend = r.backend /\ q.size = r.size /\ q.global = r.global
  /\ ~Reads(r, want) => /\ q.first = r.first /\ q.second = r.second
                        /\ q.pad = r.pad /\ q.hitEnd = r.hitEnd
                        /\ q.eof <=> r.eof \/ r.backend = "none"
  /\ Reads(r, want) => /\ q.eof = r.eof
                       /\ IF r.backend = "file" /\ room <= r.size - r.taken
                          THEN ~q.hitEnd /\ Avail(q) = Avail(r) + room
                          ELSE q.hitEnd /\ Avail(q) = r.size - c
  /\ r.backend = "file" /\ Reads(r, want) => Size(q.pad) <= Avail(r) + room

(* A file: the window is what was not forgotten and what read(2) returned. *)
LEMMA NextOfFile ==
  ASSUME NEW r \in ReaderType, NEW c \in Nat, Sound(r, c),
         NEW want \in Nat, Reads(r, want), r.backend = "file"
  PROVE  /\ Next(r, want) \in ReaderType
         /\ Sound(Next(r, want), c)
         /\ MovesOn(Next(r, want), r, c, want, Blocks(want - Avail(r)) * Inc)
<1> DEFINE n    == want - Avail(r)
           room == Blocks(n) * Inc
           got  == Got(r, room)
           more == Refill(r, r.local, n)
           q    == Next(r, want)
<1>1. /\ Avail(r) \in Nat /\ Avail(r) < want /\ ~r.hitEnd /\ n \in Nat
      /\ c + Avail(r) = r.taken /\ r.taken <= r.size
  BY SoundParts DEF Reads
<1>2. room \in Nat /\ r.taken \in Nat /\ r.size \in Nat
  BY <1>1, BlocksBounds, ReaderParts
<1>3. more = ReadMore(r, r.local, n)
  BY DEF ReadMore
<1>4. q = Shown(more)
  BY <1>3, Zenon DEF Next, Shown
<1> HIDE DEF n, q
<1>5. Refilled(more, r, c, room, got)
  BY <1>1, RefillFacts, Zenon
<1> HIDE DEF more, room, got
<1>6. /\ more.pad \in PadType /\ more.pad.off = 0
      /\ got \in Nat /\ got <= room /\ r.taken + got <= r.size
      /\ got < room => r.taken + got = r.size
      /\ Size(more.pad) = Avail(r) + got
      /\ \A i \in 1 .. Size(more.pad) : more.pad.v[i] = c + i
      /\ more = [r EXCEPT !.pad = more.pad, !.taken = r.taken + got,
                          !.hitEnd = r.hitEnd \/ got < room]
  BY <1>5, Zenon DEF Refilled
<1> DEFINE end == r.hitEnd \/ got < room
<1>7. end \in BOOLEAN /\ (end <=> got < room)
  BY <1>1, Zenon
<1>8. more = HandedOut(r, more.pad, r.taken + got, end)
  BY <1>6, Zenon DEF HandedOut
<1> HIDE DEF end
<1>9. r.taken + got \in Nat
  BY <1>2, <1>6
<1>10. IsRead(q, r, more.pad, r.taken + got, end)
  <2>1. IsRead(Shown(HandedOut(r, more.pad, r.taken + got, end)),
               r, more.pad, r.taken + got, end)
    BY <1>6, <1>7, <1>9, ReadParts
  <2> QED
    BY <1>4, <1>8, <2>1, Zenon
<1>11. /\ q \in ReaderType /\ q.backend = "file" /\ q.size = r.size
       /\ q.global = r.global /\ q.eof = r.eof
       /\ q.pad = more.pad /\ q.taken = r.taken + got
       /\ (q.hitEnd <=> got < room)
       /\ q.first = 0 /\ q.second = Size(more.pad) /\ q.local = 0
  BY <1>6, <1>7, <1>10, Zenon DEF IsRead
<1>12. /\ q.second = Avail(r) + got /\ Avail(q) = Avail(r) + got
  BY <1>1, <1>6, <1>11 DEF Avail
<1>13. \A i \in 1 .. Avail(q) : CellAt(q.pad, q.first + i) = c + i
  <2> TAKE i \in 1 .. Avail(q)
  <2>1. i \in 1 .. Size(more.pad)
    BY <1>6, <1>12
  <2>2. q.first + i = i
    BY <1>6, <1>11, <1>12
  <2> QED
    BY <1>6, <1>11, <2>1, <2>2, CellInPad
<1>14. InStep(q, c)
  BY <1>1, <1>2, <1>6, <1>11, <1>12, <1>13 DEF InStep
<1>15. Sound(q, c)
  <2>1. /\ q.pad.off = 0 /\ q.local = q.first
        /\ q.first <= c /\ q.taken <= q.size
        /\ q.hitEnd => q.taken = q.size
    BY <1>6, <1>11
  <2>2. \A i \in 1 .. Size(q.pad) : q.pad.v[i] = c - q.first + i
    BY <1>6, <1>11
  <2>3. q.backend = "file" /\ q.second = Size(q.pad)
    BY <1>11
  <2> QED
    BY <1>14, <2>1, <2>2, <2>3 DEF Sound
<1>16. IF room <= r.size - r.taken
       THEN ~q.hitEnd /\ Avail(q) = Avail(r) + room
       ELSE q.hitEnd /\ Avail(q) = r.size - c
  BY <1>1, <1>2, <1>11, <1>12 DEF got, Got
<1>17. Size(q.pad) <= Avail(r) + room
  BY <1>1, <1>2, <1>6, <1>11
<1>18. MovesOn(q, r, c, want, room)
  BY <1>11, <1>16, <1>17 DEF MovesOn
<1> QED
  BY <1>11, <1>15, <1>18 DEF q, room, n

(* A backend in memory: the first call makes all of the input the window. *)
LEMMA NextOfMemory ==
  ASSUME NEW r \in ReaderType, NEW c \in Nat, Sound(r, c),
         NEW want \in Nat, Reads(r, want), r.backend # "file"
  PROVE  /\ Next(r, want) \in ReaderType
         /\ Sound(Next(r, want), c)
         /\ MovesOn(Next(r, want), r, c, want, Blocks(want - Avail(r)) * Inc)
<1> DEFINE room == Blocks(want - Avail(r)) * Inc
           more == [r EXCEPT !.pad = IncrementHead(@, r.local),
                             !.taken = r.size, !.hitEnd = TRUE]
           pad  == IncrementHead(r.pad, r.local)
           q    == Next(r, want)
<1>1. r.backend = "memory" /\ ~r.hitEnd
  BY ReaderParts, ReaderAssumption DEF Reads
<1>2. /\ r.taken = 0 /\ r.second = 0 /\ r.first = 0 /\ r.local = 0 /\ c = 0
      /\ r.pad.off = 0 /\ Size(r.pad) = r.size
      /\ \A i \in 1 .. Size(r.pad) : r.pad.v[i] = i
  <2>1. r.taken = 0 /\ r.second = 0
    BY <1>1, ReaderParts DEF Sound
  <2>2. r.first = 0
    BY <2>1, SoundParts, ReaderParts
  <2>3. r.local = 0 /\ c = 0 /\ r.pad.off = 0 /\ Size(r.pad) = r.size
    BY <1>1, <2>2 DEF Sound
  <2>4. \A i \in 1 .. Size(r.pad) : r.pad.v[i] = c - r.first + i
    BY DEF Sound
  <2>5. Size(r.pad) \in Nat
    BY ReaderParts
  <2> QED
    BY <2>1, <2>2, <2>3, <2>4, <2>5
<1>3. pad = r.pad
  BY <1>2, ReaderParts DEF IncrementHead, PadType
<1>4. more = HandedOut(r, r.pad, r.size, TRUE)
  BY <1>3, Zenon DEF HandedOut
<1>5. q = Shown(more)
  BY <1>1, Zenon DEF Next, ReadMore, Shown
<1> HIDE DEF more, q, pad, room
<1>6. IsRead(q, r, r.pad, r.size, TRUE)
  <2>1. IsRead(Shown(HandedOut(r, r.pad, r.size, TRUE)),
               r, r.pad, r.size, TRUE)
    BY ReadParts, ReaderParts
  <2> QED
    BY <1>4, <1>5, <2>1, Zenon
<1>7. /\ q \in ReaderType /\ q.backend = "memory" /\ q.size = r.size
      /\ q.global = r.global /\ q.eof = r.eof
      /\ q.pad = r.pad /\ q.taken = r.size /\ q.hitEnd
      /\ q.first = 0 /\ q.second = r.size /\ q.local = 0
  BY <1>1, <1>2, <1>6, Zenon DEF IsRead
<1>8. r.size \in Nat /\ Avail(q) = r.size
  BY <1>7, ReaderParts DEF Avail
<1>9. \A i \in 1 .. Avail(q) : CellAt(q.pad, q.first + i) = c + i
  <2> TAKE i \in 1 .. Avail(q)
  <2>1. i \in 1 .. Size(r.pad) /\ i \in Nat
    BY <1>2, <1>8
  <2>2. q.first + i = i /\ c + i = i
    BY <1>2, <1>7, <2>1
  <2> QED
    BY <1>2, <1>7, <2>1, <2>2, CellInPad, ReaderParts
<1>10. InStep(q, c)
  BY <1>2, <1>7, <1>8, <1>9 DEF InStep
<1>11. Sound(q, c)
  <2>1. \A i \in 1 .. Size(q.pad) : q.pad.v[i] = c - q.first + i
    BY <1>2, <1>7, <1>8
  <2> QED
    BY <1>2, <1>7, <1>8, <1>10, <2>1 DEF Sound
<1>12. MovesOn(q, r, c, want, room)
  <2>1. q.backend = r.backend /\ r.backend # "file" /\ Avail(q) = r.size - c
    BY <1>1, <1>2, <1>7, <1>8
  <2> QED
    BY <1>7, <2>1, Zenon DEF MovesOn
<1> QED
  BY <1>7, <1>11, <1>12 DEF q, room

(* A request that is there already, and a reader without a backend *)
LEMMA NextWithoutRead ==
  ASSUME NEW r \in ReaderType, NEW c \in Nat, Sound(r, c),
         NEW want \in Nat, ~Reads(r, want)
  PROVE  /\ Next(r, want) \in ReaderType
         /\ Sound(Next(r, want), c)
         /\ MovesOn(Next(r, want), r, c, want, Blocks(want - Avail(r)) * Inc)
<1> DEFINE room == Blocks(want - Avail(r)) * Inc
           end  == r.eof \/ r.backend = "none"
           q    == Next(r, want)
<1>1. q = [r EXCEPT !.eof = end]
  BY Zenon DEF Next
<1>2. end \in BOOLEAN /\ (end <=> r.eof \/ r.backend = "none")
  BY Zenon
<1> HIDE DEF q, end, room
<1>3. q \in ReaderType
  BY <1>1, <1>2 DEF ReaderType
<1>4. /\ q.backend = r.backend /\ q.size = r.size /\ q.pad = r.pad
      /\ q.taken = r.taken /\ q.hitEnd = r.hitEnd /\ q.first = r.first
      /\ q.second = r.second /\ q.local = r.local /\ q.global = r.global
      /\ q.eof = end
  BY <1>1 DEF ReaderType
<1>5. Avail(q) = Avail(r)
  BY <1>4 DEF Avail
<1>6. InStep(q, c)
  BY <1>4, <1>5, Zenon DEF InStep, Sound
<1>7. Sound(q, c)
  BY <1>4, <1>6, Zenon DEF Sound
<1>8. MovesOn(q, r, c, want, room)
  BY <1>2, <1>4, Zenon DEF MovesOn
<1> QED
  BY <1>3, <1>7, <1>8 DEF q, room

(* next() on any backend *)
THEOREM NextSound ==
  ASSUME NEW r \in ReaderType, NEW c \in Nat, Sound(r, c), NEW want \in Nat
  PROVE  /\ Next(r, want) \in ReaderType
         /\ Sound(Next(r, want), c)
         /\ MovesOn(Next(r, want), r, c, want, Blocks(want - Avail(r)) * Inc)
BY NextOfFile, NextOfMemory, NextWithoutRead, Zenon

(* next() falls short of a request only at the end of the input, as long   *)
(* as the request can be rounded up to blocks in the range of size_t.      *)
LEMMA DeliversEnough ==
  ASSUME NEW p \in ReaderType, NEW c \in Nat, Sound(p, c),
         NEW want \in Nat, want + Inc <= Word
  PROVE  /\ \/ Avail(Next(p, want)) >= want
            \/ c + Avail(Next(p, want)) = p.size /\ AtEof(Next(p, want))
         /\ want > 0 => (Avail(Next(p, want)) = 0 <=> c = p.size)
<1> DEFINE q    == Next(p, want)
           need == want - Avail(p)
           room == Blocks(need) * Inc
<1>1. /\ Avail(p) \in Nat /\ c + Avail(p) = p.taken /\ p.taken <= p.size
      /\ p.size \in Nat /\ p.taken \in Nat /\ p.backend \in Backends
  BY SoundParts, ReaderParts
<1>2. q \in ReaderType /\ Sound(q, c) /\ MovesOn(q, p, c, want, room)
  BY NextSound
<1>3. Avail(q) \in Nat
  BY <1>2, SoundParts
<1>4. p.hitEnd \/ p.backend = "none" => c + Avail(p) = p.size
  BY <1>1 DEF Sound
<1> HIDE DEF q
<1>5. CASE ~Reads(p, want)
  <2>1. Avail(q) = Avail(p) /\ q.backend = p.backend /\ q.hitEnd = p.hitEnd
        /\ (q.eof <=> p.eof \/ p.backend = "none")
    BY <1>2, <1>5, Zenon DEF MovesOn, Avail
  <2>2. CASE Avail(p) >= want
    BY <1>1, <2>1, <2>2 DEF q
  <2>3. CASE p.hitEnd \/ p.backend = "none"
    <3>1. AtEof(q)
      BY <2>1, <2>3 DEF AtEof
    <3> QED
      BY <1>1, <1>4, <2>1, <2>3, <3>1 DEF q
  <2> QED
    BY <1>1, <1>5, <2>2, <2>3 DEF Reads
<1>6. CASE Reads(p, want)
  <2>1. need \in Nat /\ need > 0 /\ need + Inc <= Word /\ p.backend # "none"
        /\ q.backend = p.backend
    BY <1>1, <1>2, <1>6, ReaderAssumption DEF Reads, MovesOn
  <2>2. room \in Nat /\ room >= need
    BY <2>1, BlocksBounds
  <2>3. \/ p.backend = "file" /\ room <= p.size - p.taken
           /\ Avail(q) = Avail(p) + room
        \/ q.hitEnd /\ Avail(q) = p.size - c
    BY <1>2, <1>6, Zenon DEF MovesOn
  <2> HIDE DEF room
  <2>4. CASE /\ p.backend = "file" /\ room <= p.size - p.taken
             /\ Avail(q) = Avail(p) + room
    BY <1>1, <2>1, <2>2, <2>4 DEF q
  <2>5. CASE q.hitEnd /\ Avail(q) = p.size - c
    BY <1>1, <2>1, <2>5 DEF AtEof, q
  <2> QED
    BY <2>3, <2>4, <2>5
<1> QED
  BY <1>5, <1>6

(***************************************************************************)
(* forget(), and a new reader                                              *)
(***************************************************************************)

(* forget() moves the client over bytes of the window. *)
Drops(q, r, n) ==
  /\ q.backend = r.backend /\ q.size = r.size /\ q.pad = r.pad
  /\ q.hitEnd = r.hitEnd /\ q.eof = r.eof
  /\ n \in 0 .. Avail(r)
  /\ q.global = r.global + n /\ q.first = r.first + n
  /\ Avail(q) = Avail(r) - n

Least(k, n) == IF k <= n THEN k ELSE n

(* forget() keeps the reader sound and consumes what it can of the window. *)
THEOREM ForgetSound ==
  ASSUME NEW r \in ReaderType, NEW c \in Nat, Sound(r, c), NEW k \in Nat
  PROVE  /\ Forget(r, k) \in ReaderType
         /\ Sound(Forget(r, k), c + Least(k, Avail(r)))
         /\ Drops(Forget(r, k), r, Least(k, Avail(r)))
<1> DEFINE n == Least(k, Avail(r))
           q == Forget(r, k)
<1>1. /\ Avail(r) \in Nat /\ Avail(r) = r.second - r.first
      /\ r.first <= r.second /\ r.second \in 0 .. Size(r.pad)
      /\ r.first <= c /\ r.local = r.first
      /\ r.first \in Nat /\ r.second \in Nat /\ r.global \in Nat
      /\ r.taken \in Nat /\ r.size \in Nat /\ Size(r.pad) \in Nat
      /\ c + Avail(r) = r.taken /\ r.taken <= r.size
  BY SoundParts, ReaderParts
<1>2. n \in 0 .. Avail(r)
  BY <1>1 DEF Least
<1>3. q = [r EXCEPT !.local = r.local + n, !.global = r.global + n,
                    !.first = r.first + n]
  BY Zenon DEF Forget, Least
<1> HIDE DEF q, n
<1>4. q \in ReaderType
  <2>1. r.local + n \in Nat /\ r.global + n \in Nat /\ r.first + n \in Nat
    BY <1>1, <1>2
  <2> QED
    BY <1>3, <2>1 DEF ReaderType
<1>5. /\ q.backend = r.backend /\ q.size = r.size /\ q.pad = r.pad
      /\ q.taken = r.taken /\ q.hitEnd = r.hitEnd /\ q.eof = r.eof
      /\ q.second = r.second
  BY <1>3 DEF ReaderType
<1>6. /\ q.first = r.first + n /\ q.local = r.local + n
      /\ q.global = r.global + n
  BY <1>3 DEF ReaderType
<1>7. Avail(q) = Avail(r) - n
  BY <1>1, <1>2, <1>5, <1>6 DEF Avail
<1>8. \A i \in 1 .. Size(q.pad) : q.pad.v[i] = (c + n) - q.first + i
  <2> TAKE i \in 1 .. Size(q.pad)
  <2>1. i \in 1 .. Size(r.pad)
    BY <1>5
  <2>2. r.pad.v[i] = c - r.first + i
    BY <2>1, SoundParts
  <2>3. c - r.first + i = (c + n) - (r.first + n) + i
    BY <1>1, <1>2, <2>1
  <2> QED
    BY <1>5, <1>6, <2>2, <2>3, Zenon
<1>9. InStep(q, c + n)
  <2>1. q.first <= q.second /\ (c + n) + Avail(q) = q.taken
    BY <1>1, <1>2, <1>5, <1>6, <1>7
  <2>2. ASSUME NEW i \in 1 .. Avail(q)
        PROVE  CellAt(q.pad, q.first + i) = (c + n) + i
    <3>1. q.first + i \in 1 .. Size(q.pad)
      BY <1>1, <1>2, <1>5, <1>6, <1>7
    <3>2. CellAt(q.pad, q.first + i) = q.pad.v[q.first + i]
      BY <1>4, <3>1, CellInPad, ReaderParts
    <3>3. q.pad.v[q.first + i] = (c + n) - q.first + (q.first + i)
      BY <1>8, <3>1
    <3>4. (c + n) - q.first + (q.first + i) = (c + n) + i
      BY <1>1, <1>2, <1>5, <1>6, <1>7
    <3> QED
      BY <3>2, <3>3, <3>4
  <2> QED
    BY <2>1, <2>2, Zenon DEF InStep
<1>10. Sound(q, c + n)
  <2>1. q.pad.off = 0 /\ q.local = q.first /\ q.first <= c + n
    BY <1>1, <1>2, <1>5, <1>6, SoundParts
  <2>2. q.taken <= q.size /\ (q.hitEnd => q.taken = q.size)
    BY <1>1, <1>5 DEF Sound
  <2>3. q.second = IF q.backend # "file" /\ q.taken = 0 THEN 0
                                                       ELSE Size(q.pad)
    BY <1>5 DEF Sound
  <2>4. q.backend # "file" => /\ Size(q.pad) = q.size /\ c + n = q.first
                              /\ q.taken = 0 \/ q.taken = q.size
    BY <1>5, <1>6 DEF Sound
  <2>5. /\ q.backend = "memory" /\ q.taken > 0 => q.hitEnd
        /\ q.backend = "none" => q.taken = q.size
    BY <1>5 DEF Sound
  <2> QED
    BY <1>8, <1>9, <2>1, <2>2, <2>3, <2>4, <2>5, Zenon DEF Sound
<1>11. Drops(q, r, n)
  BY <1>2, <1>5, <1>6, <1>7 DEF Drops
<1> QED
  BY <1>4, <1>10, <1>11 DEF q, n

(* A reader before its first call *)
THEOREM NewSound ==
  ASSUME NEW b \in Backends, NEW n \in Nat
  PROVE  NewReader(b, n) \in ReaderType /\ Sound(NewReader(b, n), 0)
<1> DEFINE q   == NewReader(b, n)
           pad == IF b = "file" THEN EmptyPad ELSE [v |-> Stream(n), off |-> 0]
           m   == IF b = "none" THEN n ELSE 0
<1>1. /\ b \in {"file", "memory", "none"} /\ m \in Nat /\ m <= n
      /\ b = "none" => m = n
      /\ b # "none" => m = 0
  BY ReaderAssumption
<1>2. /\ pad \in PadType /\ pad.off = 0
      /\ b = "file" => Size(pad) = 0
      /\ b # "file" => Size(pad) = n
      /\ \A i \in 1 .. Size(pad) : pad.v[i] = i
  <2>1. Stream(n) \in [1 .. n -> Nat]
    BY DEF Stream
  <2>2. Stream(n) \in Seq(Nat) /\ Len(Stream(n)) = n
    BY <2>1, CellsOfFunction
  <2>3. \A i \in 1 .. n : Stream(n)[i] = i
    BY DEF Stream
  <2>4. CASE b = "file"
    BY <2>4 DEF EmptyPad, PadType, Cell, Size
  <2>5. CASE b # "file"
    BY <2>2, <2>3, <2>5 DEF PadType, Cell, Size
  <2> QED
    BY <2>4, <2>5
<1>3. q = [backend |-> b, pad |-> pad, taken |-> m, size |-> n,
           hitEnd |-> FALSE, first |-> 0, second |-> m, local |-> 0,
           global |-> 0, eof |-> FALSE]
  BY Zenon DEF NewReader
<1> HIDE DEF q, pad, m
<1>4. q \in ReaderType
  BY <1>1, <1>2, <1>3 DEF ReaderType
<1>5. /\ q.backend = b /\ q.pad = pad /\ q.taken = m /\ q.size = n
      /\ q.hitEnd = FALSE /\ q.first = 0 /\ q.second = m /\ q.local = 0
  BY <1>3
<1>6. Avail(q) = m /\ Size(pad) \in Nat
  BY <1>1, <1>2, <1>5 DEF Avail, Size, PadType
<1>7. InStep(q, 0)
  <2>1. ASSUME NEW i \in 1 .. Avail(q) PROVE CellAt(q.pad, q.first + i) = 0 + i
    <3>1. i \in 1 .. Size(pad) /\ 0 + i = i
      BY <1>1, <1>2, <1>6
    <3> QED
      BY <1>2, <1>5, <3>1, CellInPad
  <2> QED
    BY <1>1, <1>5, <1>6, <2>1 DEF InStep
<1>8. Sound(q, 0)
  <2>1. \A i \in 1 .. Size(q.pad) : q.pad.v[i] = 0 - q.first + i
    BY <1>2, <1>5, <1>6
  <2>2. q.second = IF q.backend # "file" /\ q.taken = 0 THEN 0
                                                       ELSE Size(q.pad)
    BY <1>1, <1>2, <1>5, <1>6
  <2>3. q.backend # "file" => /\ Size(q.pad) = q.size /\ 0 = q.first
                              /\ q.taken = 0 \/ q.taken = q.size
    BY <1>1, <1>2, <1>5
  <2> QED
    BY <1>1, <1>2, <1>5, <1>7, <2>1, <2>2, <2>3 DEF Sound
<1> QED
  BY <1>4, <1>8 DEF q
=============================================================================
