------------------------- MODULE SimpleReaderProofs -------------------------
(***************************************************************************)
(* Simple_Reader under any client, for every block size, every size of the *)
(* input and every bound on the arguments: the window shows the input,     *)
(* next() brings what it was asked for, and the reader implements Window.  *)
(*                                                                         *)
(* read_next() in the loop of the converters, for every sequence of units  *)
(* and every place where the input may be cut off: the loop shows the      *)
(* units one after the other, and implements UnitStream.                   *)
(***************************************************************************)
EXTENDS SimpleReader, TlcReader, ReaderProofs, WellFoundedInduction,
        FiniteSetTheorems

(* The bounds are numbers of the type size_t. *)
LEMMA Bounds ==
  /\ MaxSize \in Nat /\ MaxWant \in Nat /\ MaxForget \in Nat /\ MaxPos \in Nat
  /\ MaxSize < Word /\ MaxWant < Word /\ MaxForget < Word
  /\ Inc \in Nat /\ Inc > 0 /\ Word \in Nat
BY SimpleReaderAssumption, ReaderAssumption

(* What counts for the window is the pad and the pointers into it, not     *)
(* where the client counts from.                                           *)
LEMMA SameWindow ==
  ASSUME NEW q, NEW p, NEW c, Sound(p, c),
         q.backend = p.backend, q.pad = p.pad, q.taken = p.taken,
         q.size = p.size, q.hitEnd = p.hitEnd, q.first = p.first,
         q.second = p.second, q.local = p.local
  PROVE  Sound(q, c)
<1>1. Avail(q) = Avail(p)
  BY Zenon DEF Avail
<1>2. InStep(q, c)
  BY <1>1, Zenon DEF InStep, Sound
<1> QED
  BY <1>2, Zenon DEF Sound

(* The invariant of an open reader, by its parts *)
LEMMA OpenParts ==
  ASSUME IInv, phase = "open"
  PROVE  /\ r \in ReaderType /\ r.size <= MaxSize /\ origin \in Int
         /\ Consumed \in Nat /\ Sound(r, Consumed)
         /\ r.global \in Nat
         /\ r.backend = "file" => Size(r.pad) < MaxWant + Inc
BY ReaderParts DEF IInv, Inv, TypeOK, PadBounded

(* To step to an open reader it is enough that the pad is sound. *)
LEMMA StaysOpen ==
  ASSUME r' \in ReaderType, (r.size)' <= MaxSize, origin' \in Int,
         phase' = "open", Consumed' \in Nat, Sound(r', Consumed'),
         (r.backend)' = "file" => Size((r.pad)') < MaxWant + Inc
  PROVE  IInv'
<1>1. InStep(r', Consumed')
  BY DEF Sound
<1> QED
  BY <1>1 DEF IInv, Inv, TypeOK, WindowIntact, PadBounded

(* The first state *)
LEMMA InitSound == Init => IInv
<1> SUFFICES ASSUME Init PROVE IInv
  OBVIOUS
<1>1. PICK b \in Backends, n \in 0 .. MaxSize : r = NewReader(b, n)
  BY DEF Init
<1>2. n \in Nat /\ n <= MaxSize
  BY Bounds
<1>3. r \in ReaderType /\ Sound(r, 0) /\ r.size = n /\ r.global = 0
  BY <1>1, <1>2, NewSound DEF NewReader
<1>4. Consumed = 0
  BY <1>3 DEF Consumed, Init
<1>5. r.backend = "file" => Size(r.pad) < MaxWant + Inc
  BY <1>1, Bounds DEF NewReader, EmptyPad, Size
<1>6. InStep(r, 0)
  BY <1>3 DEF Sound
<1> QED
  BY <1>2, <1>3, <1>4, <1>5, <1>6
     DEF Init, IInv, Inv, TypeOK, WindowIntact, PadBounded

(***************************************************************************)
(* One lemma per step                                                      *)
(***************************************************************************)

(* next() returns *)
LEMMA NextCallSound ==
  ASSUME IInv, NEW want \in 0 .. MaxWant, NextCall(want)
  PROVE  IInv'
<1> DEFINE c    == Consumed
           need == want - Avail(r)
           room == Blocks(need) * Inc
<1>1. /\ r \in ReaderType /\ r.size <= MaxSize /\ origin \in Int
      /\ c \in Nat /\ Sound(r, c) /\ r.global \in Nat
      /\ r.backend = "file" => Size(r.pad) < MaxWant + Inc
      /\ want \in Nat /\ want <= MaxWant
  BY OpenParts, Bounds DEF NextCall
<1>2. r' = Next(r, want) /\ origin' = origin /\ phase' = "open"
  BY DEF NextCall
<1> HIDE DEF c
<1>3. /\ r' \in ReaderType /\ Sound(r', c)
      /\ MovesOn(r', r, c, want, room)
  BY <1>1, <1>2, NextSound
<1>4. /\ (r.size)' = r.size /\ (r.backend)' = r.backend
      /\ (r.global)' = r.global
  BY <1>3 DEF MovesOn
<1>5. Consumed' = c
  BY <1>2, <1>4 DEF c, Consumed
<1>6. (r.backend)' = "file" => Size((r.pad)') < MaxWant + Inc
  <2> SUFFICES ASSUME r.backend = "file" PROVE Size((r.pad)') < MaxWant + Inc
    BY <1>4
  <2>1. CASE Reads(r, want)
    <3>1. Size((r.pad)') <= Avail(r) + room
      BY <1>3, <2>1 DEF MovesOn
    <3>2. Avail(r) \in Nat /\ need \in Nat
      BY <1>1, <2>1, SoundParts DEF Reads
    <3>3. room \in Nat /\ room <= need + Inc - 1
      BY <3>2, BlocksBounds
    <3>4. Size((r.pad)') \in Nat
      BY <1>3, ReaderParts
    <3> HIDE DEF room
    <3> QED
      BY <1>1, <3>1, <3>2, <3>3, <3>4, Bounds
  <2>2. CASE ~Reads(r, want)
    BY <1>1, <1>3, <2>2 DEF MovesOn
  <2> QED
    BY <2>1, <2>2
<1> QED
  BY <1>1, <1>2, <1>3, <1>4, <1>5, <1>6, StaysOpen

(* next() throws *)
LEMMA NextThrowsSound ==
  ASSUME IInv, NEW want \in 0 .. MaxWant, NextThrows(want)
  PROVE  IInv'
<1>1. r \in ReaderType /\ Sound(r, Consumed) /\ Consumed \in Nat
      /\ r.size <= MaxSize /\ origin \in Int
  BY OpenParts DEF NextThrows
<1>2. r.pad \in PadType /\ r.pad.off = 0 /\ r.local \in 0 .. Size(r.pad)
  <2>1. /\ r.pad \in PadType /\ r.first \in Nat /\ r.second \in Nat
        /\ Size(r.pad) \in Nat
    BY <1>1, ReaderParts
  <2>2. /\ r.pad.off = 0 /\ r.local = r.first /\ r.first <= r.second
        /\ r.second \in 0 .. Size(r.pad)
    BY <1>1, SoundParts
  <2> QED
    BY <2>1, <2>2
<1>3. RemoveHead(r.pad, r.local) \in PadType
  <2>1. MovesDown(RemoveHead(r.pad, r.local), r.pad, r.local)
    BY <1>2, RemoveHeadCells
  <2> QED
    BY <2>1 DEF MovesDown
<1>4. r' = [r EXCEPT !.pad = RemoveHead(r.pad, r.local)]
  BY Zenon DEF NextThrows
<1> DEFINE kept == RemoveHead(r.pad, r.local)
<1> HIDE DEF kept
<1>5. r' \in ReaderType /\ (r.size)' = r.size
  <2>1. kept \in PadType /\ r' = [r EXCEPT !.pad = kept]
    BY <1>3, <1>4 DEF kept
  <2> QED
    BY <1>1, <2>1 DEF ReaderType
<1> QED
  BY <1>1, <1>5
     DEF NextThrows, IInv, Inv, TypeOK, WindowIntact, PadBounded

(* forget() *)
LEMMA ForgetCallSound ==
  ASSUME IInv, NEW k \in 0 .. MaxForget, ForgetCall(k)
  PROVE  IInv'
<1> DEFINE c == Consumed
           n == Least(k, Avail(r))
<1>1. /\ r \in ReaderType /\ r.size <= MaxSize /\ origin \in Int
      /\ c \in Nat /\ Sound(r, c) /\ r.global \in Nat
      /\ r.backend = "file" => Size(r.pad) < MaxWant + Inc
      /\ k \in Nat
  BY OpenParts, Bounds DEF ForgetCall
<1>2. r' = Forget(r, k) /\ origin' = origin /\ phase' = "open"
  BY DEF ForgetCall
<1> HIDE DEF c
<1>3. r' \in ReaderType /\ Sound(r', c + n) /\ Drops(r', r, n)
  BY <1>1, <1>2, ForgetSound
<1>4. /\ (r.size)' = r.size /\ (r.backend)' = r.backend
      /\ (r.pad)' = r.pad /\ (r.global)' = r.global + n /\ n \in Nat
  BY <1>1, <1>3, SoundParts DEF Drops
<1> HIDE DEF n
<1>5. Consumed' = c + n
  BY <1>1, <1>2, <1>4 DEF c, Consumed
<1> QED
  BY <1>1, <1>2, <1>3, <1>4, <1>5, StaysOpen

(* set_pos() and the move constructor: the window is not touched. *)
LEMMA CountersOnlySound ==
  ASSUME IInv, phase = "open", phase' = "open", origin' \in Int,
         r' \in ReaderType,
         (r.backend)' = r.backend, (r.pad)' = r.pad, (r.taken)' = r.taken,
         (r.size)' = r.size, (r.hitEnd)' = r.hitEnd, (r.first)' = r.first,
         (r.second)' = r.second, (r.local)' = r.local,
         Consumed' = Consumed
  PROVE  IInv'
<1>1. /\ r.size <= MaxSize /\ Consumed \in Nat /\ Sound(r, Consumed)
      /\ r.backend = "file" => Size(r.pad) < MaxWant + Inc
  BY OpenParts
<1>2. Sound(r', Consumed)
  BY <1>1, SameWindow
<1> QED
  BY <1>1, <1>2, StaysOpen

(* Every step keeps the pad sound. *)
LEMMA StepSound == IInv /\ [NextStep]_vars => IInv'
<1> SUFFICES ASSUME IInv, [NextStep]_vars PROVE IInv'
  OBVIOUS
<1>1. CASE \E want \in 0 .. MaxWant : NextCall(want)
  BY <1>1, NextCallSound
<1>2. CASE \E want \in 0 .. MaxWant : NextThrows(want)
  BY <1>2, NextThrowsSound
<1>3. CASE \E k \in 0 .. MaxForget : ForgetCall(k)
  BY <1>3, ForgetCallSound
<1>4. CASE \E k \in 0 .. MaxForget : CheckAvailable(k)
  BY <1>4 DEF CheckAvailable, IInv, Inv, TypeOK, WindowIntact, PadBounded,
              Consumed
<1>5. CASE \E pos \in 0 .. MaxPos : SetPos(pos)
  <2>1. PICK pos \in 0 .. MaxPos : SetPos(pos)
    BY <1>5
  <2>2. r \in ReaderType /\ r.global \in Nat /\ origin \in Int /\ pos \in Nat
    BY <2>1, OpenParts, Bounds DEF SetPos
  <2>3. /\ r' \in ReaderType /\ (r.global)' = pos
        /\ (r.backend)' = r.backend /\ (r.pad)' = r.pad
        /\ (r.taken)' = r.taken /\ (r.size)' = r.size
        /\ (r.hitEnd)' = r.hitEnd /\ (r.first)' = r.first
        /\ (r.second)' = r.second /\ (r.local)' = r.local
    BY <2>1, <2>2 DEF SetPos, ReaderType
  <2>4. origin' \in Int /\ Consumed' = Consumed
    BY <2>1, <2>2, <2>3 DEF SetPos, Consumed
  <2> QED
    BY <2>1, <2>3, <2>4, CountersOnlySound DEF SetPos
<1>6. CASE Move
  <2>1. r \in ReaderType /\ r.global \in Nat /\ origin \in Int
    BY <1>6, OpenParts DEF Move
  <2>2. /\ r' \in ReaderType /\ (r.global)' = r.global
        /\ (r.backend)' = r.backend /\ (r.pad)' = r.pad
        /\ (r.taken)' = r.taken /\ (r.size)' = r.size
        /\ (r.hitEnd)' = r.hitEnd /\ (r.first)' = r.first
        /\ (r.second)' = r.second /\ (r.local)' = r.local
    BY <1>6, <2>1 DEF Move, ReaderType
  <2>3. origin' \in Int /\ Consumed' = Consumed
    BY <1>6, <2>1, <2>2 DEF Move, Consumed
  <2> QED
    BY <1>6, <2>2, <2>3, CountersOnlySound DEF Move
<1>7. CASE Destroyed \/ UNCHANGED vars
  BY <1>7 DEF Destroyed, vars, IInv, Inv, TypeOK, WindowIntact, PadBounded,
              Consumed
<1> QED
  BY <1>1, <1>2, <1>3, <1>4, <1>5, <1>6, <1>7 DEF NextStep

(* Whatever a client calls, the window of a reader shows the input from    *)
(* the client's position on, and the pad of a file holds less than a block *)
(* more than what was asked for.                                           *)
THEOREM ReaderSound == Spec => []IInv
BY InitSound, StepSound, PTL DEF Spec

(***************************************************************************)
(* What next() promises                                                    *)
(***************************************************************************)

(* "2nd argument specifies minimum read-size": next() brings what it was   *)
(* asked for or is at the end of the input, unless the request is within a *)
(* block of the end of the range of size_t.                                *)
THEOREM ReaderDelivers ==
  ASSUME MaxWant + Inc <= Word
  PROVE  Spec => []NextDelivers
<1>1. IInv => NextDelivers
  <2> SUFFICES ASSUME IInv, phase = "open", NEW want \in 0 .. MaxWant
               PROVE  \/ Avail(Next(r, want)) >= want
                      \/ /\ Consumed + Avail(Next(r, want)) = r.size
                         /\ AtEof(Next(r, want))
    BY Zenon DEF NextDelivers
  <2>1. want \in Nat /\ want + Inc <= Word
    BY Bounds
  <2> QED
    BY <2>1, OpenParts, DeliversEnough
<1> QED
  BY <1>1, ReaderSound, PTL

(* The result of next() is true: 0 only at the end of the input, and 1     *)
(* only if the bytes behind the old pointers are still there.              *)
THEOREM ReaderResultTrue ==
  ASSUME MaxWant + Inc <= Word
  PROVE  Spec => []ResultTrue
<1>1. IInv => ResultTrue
  <2> SUFFICES ASSUME IInv, phase = "open", NEW want \in 1 .. MaxWant
               PROVE  /\ NextResult(r, want) = 0 <=> Consumed = r.size
                      /\ NextResult(r, want) = 1 =>
                           Bytes(Next(r, want), r.first, Avail(r))
                             = Bytes(r, r.first, Avail(r))
    BY Zenon DEF ResultTrue
  <2>1. want \in Nat /\ want > 0 /\ want + Inc <= Word
    BY Bounds
  <2>2. Avail(Next(r, want)) = 0 <=> Consumed = r.size
    BY <2>1, OpenParts, DeliversEnough
  <2>3. NextResult(r, want) = 0 <=> Consumed = r.size
    BY <2>2 DEF NextResult
  <2>4. ASSUME NextResult(r, want) = 1
        PROVE  Bytes(Next(r, want), r.first, Avail(r)) = Bytes(r, r.first, Avail(r))
    <3>1. ~Reads(r, want)
      BY <2>4 DEF NextResult
    <3>2. Next(r, want).pad = r.pad
      BY <2>1, <3>1, OpenParts, NextSound DEF MovesOn
    <3> QED
      BY <3>2, Zenon DEF Bytes
  <2> QED
    BY <2>3, <2>4
<1> QED
  BY <1>1, ReaderSound, PTL

(***************************************************************************)
(* The reader implements Window                                            *)
(***************************************************************************)

(* A window, and the changes that the steps of Window make to it *)
Win(b, at, n, s, e) ==
  [backend |-> b, at |-> at, avail |-> n, size |-> s, eof |-> e]

SetEof(w, e)        == [w EXCEPT !.eof = e]
SetAvail(w, n)      == [w EXCEPT !.avail = n]
SetAvailEof(w, n, e) == [w EXCEPT !.avail = n, !.eof = e]
SetAtAvail(w, at, n) == [w EXCEPT !.at = at, !.avail = n]

(* Each of the changes sets the fields it names. *)
LEMMA WinChanges ==
  ASSUME NEW b, NEW at, NEW n, NEW s, NEW e, NEW at2, NEW n2, NEW e2
  PROVE  /\ SetEof(Win(b, at, n, s, e), e2) = Win(b, at, n, s, e2)
         /\ SetAvail(Win(b, at, n, s, e), n2) = Win(b, at, n2, s, e)
         /\ SetAvailEof(Win(b, at, n, s, e), n2, e2) = Win(b, at, n2, s, e2)
         /\ SetAtAvail(Win(b, at, n, s, e), at2, n2) = Win(b, at2, n2, s, e)
<1> DEFINE w == Win(b, at, n, s, e)
<1>1. [w EXCEPT !.eof = e2] = Win(b, at, n, s, e2)
  BY SMT DEF Win
<1>2. [w EXCEPT !.avail = n2] = Win(b, at, n2, s, e)
  BY SMT DEF Win
<1>3. [w EXCEPT !.at = at2] = Win(b, at2, n, s, e)
  BY SMT DEF Win
<1>4. [Win(b, at, n2, s, e) EXCEPT !.eof = e2] = Win(b, at, n2, s, e2)
  BY SMT DEF Win
<1>5. [Win(b, at2, n, s, e) EXCEPT !.avail = n2] = Win(b, at2, n2, s, e)
  BY SMT DEF Win
<1>6. [w EXCEPT !.avail = n2, !.eof = e2] = Win(b, at, n2, s, e2)
  BY <1>2, <1>4, Zenon
<1>7. [w EXCEPT !.at = at2, !.avail = n2] = Win(b, at2, n2, s, e)
  BY <1>3, <1>5, Zenon
<1> QED
  BY <1>1, <1>2, <1>6, <1>7, Zenon DEF SetEof, SetAvail, SetAvailEof, SetAtAvail

(* What a client that has consumed c bytes knows of a reader *)
View(p, c) == Win(p.backend, c, Avail(p), p.size, AtEof(p))

(* The same for the view of a client. *)
LEMMA ViewEof ==
  ASSUME NEW p, NEW c, NEW n2
  PROVE  \A e2 : /\ SetEof(View(p, c), e2)
                     = Win(p.backend, c, Avail(p), p.size, e2)
                 /\ SetAvailEof(View(p, c), n2, e2)
                     = Win(p.backend, c, n2, p.size, e2)
BY WinChanges DEF View

(* next() is More of Window. *)
LEMMA NextIsMore ==
  ASSUME NEW p \in ReaderType, NEW c \in Nat, Sound(p, c), NEW want \in Nat
  PROVE  View(Next(p, want), c) = Abstract!More(View(p, c), want)
<1> DEFINE q    == Next(p, want)
           v    == View(p, c)
           room == Blocks(want - Avail(p)) * Inc
<1>1. /\ Avail(p) \in Nat /\ c + Avail(p) = p.taken /\ p.taken <= p.size
      /\ p.size \in Nat /\ p.taken \in Nat
  BY SoundParts, ReaderParts
<1>2. q \in ReaderType /\ Sound(q, c) /\ MovesOn(q, p, c, want, room)
  BY NextSound
<1>3. q.backend = p.backend /\ q.size = p.size
  BY <1>2 DEF MovesOn
<1>4. /\ v.backend = p.backend /\ v.at = c /\ v.avail = Avail(p)
      /\ v.size = p.size /\ v.eof = AtEof(p)
  BY Zenon DEF View, Win
<1>5. (((want - v.avail + Inc - 1) % Word) \div Inc) * Inc = room
  BY <1>4, Zenon DEF Blocks
<1> HIDE DEF q, room
<1>6. /\ AtEof(p) \in BOOLEAN /\ AtEof(q) \in BOOLEAN
  BY <1>2, ReaderParts, Zenon DEF AtEof
<1>7. CASE p.backend = "none"
  <2>1. ~Reads(p, want)
    BY <1>7 DEF Reads
  <2>2. Avail(q) = Avail(p) /\ q.eof
    BY <1>2, <1>7, <2>1, Zenon DEF MovesOn, Avail
  <2>3. AtEof(q) = TRUE
    BY <1>3, <1>6, <1>7, <2>2, Zenon DEF AtEof
  <2>4. Abstract!More(v, want) = SetEof(v, TRUE)
    BY <1>4, <1>7, Zenon DEF Abstract!More, SetEof
  <2>5. View(q, c) = Win(p.backend, c, Avail(p), p.size, TRUE)
    BY <1>3, <2>2, <2>3, Zenon DEF View
  <2>6. SetEof(v, TRUE) = Win(p.backend, c, Avail(p), p.size, TRUE)
    BY ViewEof, Zenon
  <2> QED
    BY <2>4, <2>5, <2>6, Zenon DEF q
<1>8. CASE p.backend # "none" /\ ~Reads(p, want)
  <2>1. Avail(q) = Avail(p) /\ q.hitEnd = p.hitEnd
    BY <1>2, <1>8, Zenon DEF MovesOn, Avail
  <2>2. AtEof(q) = AtEof(p)
    BY <1>3, <1>8, <2>1, Zenon DEF AtEof
  <2>3. ~(v.avail < want /\ ~v.eof)
    BY <1>4, <1>8, Zenon DEF Reads, AtEof
  <2>4. Abstract!More(v, want) = v
    BY <1>4, <1>8, <2>3, Zenon DEF Abstract!More
  <2>5. View(q, c) = v
    BY <1>3, <2>1, <2>2, Zenon DEF View
  <2> QED
    BY <2>4, <2>5 DEF q
<1>9. CASE Reads(p, want)
  <2>1. p.backend # "none" /\ Avail(p) < want /\ ~p.hitEnd
    BY <1>9 DEF Reads
  <2>2. Abstract!More(v, want) = Abstract!Extend(v, want)
    BY <1>4, <2>1, Zenon DEF Abstract!More, AtEof
  <2>3. Abstract!Rest(v) = p.size - p.taken
    BY <1>1, <1>4 DEF Abstract!Rest
  <2>4. AtEof(q) = q.hitEnd /\ AtEof(p) = p.hitEnd
    BY <1>3, <2>1, Zenon DEF AtEof
  <2>5. CASE p.backend = "file" /\ room <= p.size - p.taken
    <3>1. q.hitEnd = p.hitEnd /\ Avail(q) = Avail(p) + room
      <4>1. ~q.hitEnd /\ Avail(q) = Avail(p) + room
        BY <1>2, <1>9, <2>5, Zenon DEF MovesOn
      <4> QED
        BY <1>2, <2>1, <4>1, ReaderParts, Zenon
    <3>2. Abstract!Extend(v, want) = SetAvail(v, Avail(p) + room)
      BY <1>4, <1>5, <2>3, <2>5, Zenon DEF Abstract!Extend, SetAvail
    <3>3. View(q, c) = Win(p.backend, c, Avail(p) + room, p.size, AtEof(p))
      BY <1>3, <2>4, <3>1, Zenon DEF View
    <3>4. SetAvail(v, Avail(p) + room)
            = Win(p.backend, c, Avail(p) + room, p.size, AtEof(p))
      BY WinChanges DEF View
    <3> QED
      BY <2>2, <3>2, <3>3, <3>4, Zenon DEF q
  <2>6. CASE ~(p.backend = "file" /\ room <= p.size - p.taken)
    <3>1. q.hitEnd = TRUE /\ Avail(q) = p.size - c
      <4>1. q.hitEnd /\ Avail(q) = p.size - c
        BY <1>2, <1>9, <2>6, Zenon DEF MovesOn
      <4> QED
        BY <1>2, <4>1, ReaderParts, Zenon
    <3>2. Abstract!Extend(v, want) = SetAvailEof(v, p.size - c, TRUE)
      BY <1>4, <1>5, <2>3, <2>6, Zenon DEF Abstract!Extend, SetAvailEof
    <3>3. View(q, c) = Win(p.backend, c, p.size - c, p.size, TRUE)
      BY <1>3, <2>4, <3>1, Zenon DEF View
    <3>4. SetAvailEof(v, p.size - c, TRUE)
            = Win(p.backend, c, p.size - c, p.size, TRUE)
      BY ViewEof, Zenon
    <3> QED
      BY <2>2, <3>2, <3>3, <3>4, Zenon DEF q
  <2> QED
    BY <2>5, <2>6
<1> QED
  BY <1>7, <1>8, <1>9

(* forget() is Drop of Window. *)
LEMMA ForgetIsDrop ==
  ASSUME NEW p \in ReaderType, NEW c \in Nat, Sound(p, c), NEW k \in Nat
  PROVE  View(Forget(p, k), c + Least(k, Avail(p)))
           = Abstract!Drop(View(p, c), k)
<1> DEFINE q == Forget(p, k)
           v == View(p, c)
           n == Least(k, Avail(p))
<1>1. Drops(q, p, n)
  BY ForgetSound
<1>2. q.backend = p.backend /\ q.size = p.size /\ Avail(q) = Avail(p) - n
      /\ q.hitEnd = p.hitEnd /\ q.eof = p.eof
  BY <1>1 DEF Drops
<1>3. AtEof(q) = AtEof(p)
  BY <1>2, Zenon DEF AtEof
<1>4. v.at = c /\ v.avail = Avail(p)
  BY Zenon DEF View, Win
<1>5. Abstract!Drop(v, k) = SetAtAvail(v, c + n, Avail(p) - n)
  BY <1>4, Zenon DEF Abstract!Drop, Least, SetAtAvail
<1> HIDE DEF n, q
<1>6. View(q, c + n) = Win(p.backend, c + n, Avail(p) - n, p.size, AtEof(p))
  BY <1>2, <1>3, Zenon DEF View
<1>7. SetAtAvail(v, c + n, Avail(p) - n)
        = Win(p.backend, c + n, Avail(p) - n, p.size, AtEof(p))
  BY WinChanges DEF View
<1> QED
  BY <1>5, <1>6, <1>7, Zenon DEF n, q

(* A new reader shows the window that Window begins with. *)
LEMMA InitRefines == Init => Abstract!WindowInit
<1> SUFFICES ASSUME Init PROVE Abstract!WindowInit
  OBVIOUS
<1> DEFINE v == [backend |-> r.backend, at |-> Consumed, avail |-> Avail(r),
                 size |-> r.size, eof |-> AtEof(r)]
<1>1. PICK b \in Backends, n \in 0 .. MaxSize : r = NewReader(b, n)
  BY DEF Init
<1>2. n \in Nat /\ n \in 0 .. (Word - 1)
  BY Bounds
<1>3. /\ r.backend = b /\ r.size = n /\ r.global = 0 /\ r.first = 0
      /\ r.second = IF b = "none" THEN n ELSE 0
      /\ r.hitEnd = FALSE /\ r.eof = FALSE
  BY <1>1, Zenon DEF NewReader
<1>4. Consumed = 0 /\ AtEof(r) = FALSE
  BY <1>3 DEF Consumed, AtEof, Init
<1>5. Avail(r) = IF b = "none" THEN n ELSE 0
  BY <1>2, <1>3 DEF Avail
<1>6. v = Abstract!New(b, n)
  BY <1>3, <1>4, <1>5, Zenon DEF Abstract!New
<1>7. v.size = n
  BY <1>3
<1> QED
  BY <1>2, <1>6, <1>7 DEF Abstract!WindowInit, Abstract!Count

(* Every step of the reader is a step of the window, or is not seen. *)
LEMMA StepRefines ==
  IInv /\ [NextStep]_vars
    => [Abstract!WindowNext]_[backend |-> r.backend, at |-> Consumed,
                              avail |-> Avail(r), size |-> r.size,
                              eof |-> AtEof(r)]
<1> SUFFICES ASSUME IInv, [NextStep]_vars
             PROVE  [Abstract!WindowNext]_[backend |-> r.backend,
                      at |-> Consumed, avail |-> Avail(r), size |-> r.size,
                      eof |-> AtEof(r)]
  OBVIOUS
<1> DEFINE v == [backend |-> r.backend, at |-> Consumed, avail |-> Avail(r),
                 size |-> r.size, eof |-> AtEof(r)]
<1> SUFFICES Abstract!WindowNext \/ v' = v
  OBVIOUS
<1>1. v = View(r, Consumed) /\ v' = View(r', Consumed')
  BY Zenon DEF View, Win
<1> HIDE DEF v
<1>2. CASE \E want \in 0 .. MaxWant : NextCall(want)
  <2>1. PICK want \in 0 .. MaxWant : NextCall(want)
    BY <1>2
  <2>2. /\ r \in ReaderType /\ Sound(r, Consumed) /\ Consumed \in Nat
        /\ want \in Nat /\ want \in 0 .. (Word - 1)
    BY <2>1, OpenParts, Bounds DEF NextCall
  <2>3. r' = Next(r, want) /\ origin' = origin
    BY <2>1 DEF NextCall
  <2>4. (r.global)' = r.global
    BY <2>2, <2>3, NextSound DEF MovesOn
  <2>5. Consumed' = Consumed
    BY <2>3, <2>4 DEF Consumed
  <2>6. v' = Abstract!More(v, want)
    BY <1>1, <2>2, <2>3, <2>5, NextIsMore
  <2> QED
    BY <2>2, <2>6 DEF Abstract!WindowNext, Abstract!Count, v
<1>3. CASE \E want \in 0 .. MaxWant : NextThrows(want)
  <2>1. PICK want \in 0 .. MaxWant : NextThrows(want)
    BY <1>3
  <2> DEFINE kept == RemoveHead(r.pad, r.local)
  <2>2. r' = [r EXCEPT !.pad = kept] /\ origin' = origin
    BY <2>1, Zenon DEF NextThrows
  <2>3. r \in ReaderType
    BY <2>1, OpenParts DEF NextThrows
  <2> HIDE DEF kept
  <2>4. /\ (r.backend)' = r.backend /\ (r.size)' = r.size
        /\ (r.first)' = r.first /\ (r.second)' = r.second
        /\ (r.eof)' = r.eof /\ (r.hitEnd)' = r.hitEnd
        /\ (r.global)' = r.global
    BY <2>2, <2>3 DEF ReaderType
  <2> QED
    BY <2>2, <2>4, Zenon DEF v, Avail, AtEof, Consumed
<1>4. CASE \E k \in 0 .. MaxForget : ForgetCall(k)
  <2>1. PICK k \in 0 .. MaxForget : ForgetCall(k)
    BY <1>4
  <2> DEFINE n == Least(k, Avail(r))
  <2>2. /\ r \in ReaderType /\ Sound(r, Consumed) /\ Consumed \in Nat
        /\ k \in Nat /\ k \in 0 .. (Word - 1)
        /\ r.global \in Nat /\ origin \in Int
    BY <2>1, OpenParts, Bounds DEF ForgetCall
  <2>3. r' = Forget(r, k) /\ origin' = origin
    BY <2>1 DEF ForgetCall
  <2>4. (r.global)' = r.global + n /\ n \in 0 .. Avail(r) /\ Avail(r) \in Nat
    BY <2>2, <2>3, ForgetSound, SoundParts DEF Drops
  <2> HIDE DEF n
  <2>5. Consumed' = Consumed + n
    BY <2>2, <2>3, <2>4 DEF Consumed
  <2>6. v' = Abstract!Drop(v, k)
    BY <1>1, <2>2, <2>3, <2>5, ForgetIsDrop DEF n
  <2> QED
    BY <2>2, <2>6 DEF Abstract!WindowNext, Abstract!Count, v
<1>5. CASE \E k \in 0 .. MaxForget : CheckAvailable(k)
  BY <1>5, Zenon DEF CheckAvailable, v, Consumed
<1>6. CASE \E pos \in 0 .. MaxPos : SetPos(pos)
  <2>1. PICK pos \in 0 .. MaxPos : SetPos(pos)
    BY <1>6
  <2>2. r \in ReaderType /\ r.global \in Nat /\ origin \in Int /\ pos \in Nat
    BY <2>1, OpenParts, Bounds DEF SetPos
  <2>3. /\ (r.global)' = pos
        /\ (r.backend)' = r.backend /\ (r.size)' = r.size
        /\ (r.first)' = r.first /\ (r.second)' = r.second
        /\ (r.eof)' = r.eof /\ (r.hitEnd)' = r.hitEnd
    BY <2>1, <2>2 DEF SetPos, ReaderType
  <2>4. Consumed' = Consumed
    BY <2>1, <2>2, <2>3 DEF SetPos, Consumed
  <2> QED
    BY <2>3, <2>4, Zenon DEF v, Avail, AtEof
<1>7. CASE Move
  <2>1. r \in ReaderType
    BY <1>7, OpenParts DEF Move
  <2>2. /\ (r.global)' = r.global /\ origin' = origin
        /\ (r.backend)' = r.backend /\ (r.size)' = r.size
        /\ (r.first)' = r.first /\ (r.second)' = r.second
        /\ (r.eof)' = FALSE /\ (r.hitEnd)' = r.hitEnd
    BY <1>7, <2>1 DEF Move, ReaderType
  <2>3. Consumed' = Consumed /\ Avail(r') = Avail(r)
    BY <2>2, Zenon DEF Consumed, Avail
  <2>4. CASE r.backend = "none"
    <3>1. AtEof(r') = FALSE
      BY <2>2, <2>4, Zenon DEF AtEof
    <3>2. v' = Win(r.backend, Consumed, Avail(r), r.size, FALSE)
      BY <1>1, <2>2, <2>3, <3>1, Zenon DEF View
    <3>3. SetEof(v, FALSE) = Win(r.backend, Consumed, Avail(r), r.size, FALSE)
      BY <1>1, ViewEof, Zenon
    <3>4. v' = [v EXCEPT !.eof = FALSE]
      BY <3>2, <3>3, Zenon DEF SetEof
    <3>5. v.backend = "none"
      BY <2>4, Zenon DEF v
    <3> QED
      BY <3>4, <3>5, Zenon DEF Abstract!WindowNext, v
  <2>5. CASE r.backend # "none"
    <3>1. AtEof(r') = AtEof(r)
      BY <2>2, <2>5, Zenon DEF AtEof
    <3> QED
      BY <2>2, <2>3, <3>1, Zenon DEF v
  <2> QED
    BY <2>4, <2>5
<1>8. CASE Destroyed \/ UNCHANGED vars
  BY <1>8, Zenon DEF Destroyed, vars, v, Consumed
<1> QED
  BY <1>2, <1>3, <1>4, <1>5, <1>6, <1>7, <1>8, Zenon DEF NextStep, v

(* A Simple_Reader implements a window that moves over the input: a client *)
(* cannot tell which backend is behind it, or what happens to its pad.     *)
THEOREM ReaderImplementsWindow == Spec => ImplementsWindow
BY InitRefines, StepRefines, ReaderSound, PTL
   DEF Spec, ImplementsWindow, Abstract!WindowSpec

(***************************************************************************)
(* Where units start                                                       *)
(***************************************************************************)

(* Sizes of units are numbers. *)
LEMMA ShapeParts ==
  ASSUME NEW u \in Shapes
  PROVE  /\ u.tl \in Nat /\ u.tl > 0 /\ u.tl <= Peek /\ u.constructed \in BOOLEAN
         /\ u.length \in Nat /\ Span(u) \in Nat /\ u.tl <= Span(u)
         /\ u.constructed => Span(u) = u.tl
<1>1. /\ u.tl \in 1 .. Peek /\ u.constructed \in BOOLEAN
      /\ u.length \in 0 .. (Word - 1) /\ Peek \in Nat
  BY TlcReaderAssumption
<1>2. Word \in Nat
  BY ReaderAssumption
<1> QED
  BY <1>1, <1>2 DEF Span

(* The bytes of one unit more *)
LEMMA FirstBytesGrow ==
  ASSUME units \in Seq(Shapes), NEW n \in 1 .. Len(units)
  PROVE  /\ IsFiniteSet(FirstBytes(n - 1))
         /\ Cardinality(FirstBytes(n)) =
              Cardinality(FirstBytes(n - 1)) + Span(units[n])
<1> DEFINE BytesOf(i) == {i} \X (1 .. Span(units[i]))
           A == FirstBytes(n - 1)
           B == BytesOf(n)
<1>1. ASSUME NEW i \in 1 .. Len(units)
      PROVE  /\ Span(units[i]) \in Nat
             /\ IsFiniteSet(BytesOf(i)) /\ Cardinality(BytesOf(i)) = Span(units[i])
  <2> DEFINE k == Span(units[i])
  <2>1. k \in Nat
    BY ShapeParts
  <2> HIDE DEF k
  <2>2. IsFiniteSet(1 .. k) /\ Cardinality(1 .. k) = k
    BY <2>1, FS_Interval
  <2>3. IsFiniteSet({i}) /\ Cardinality({i}) = 1
    BY FS_Singleton
  <2>4. IsFiniteSet({i} \X (1 .. k)) /\ Cardinality({i} \X (1 .. k)) = 1 * k
    BY <2>2, <2>3, FS_Product, ZenonT(60)
  <2> QED
    BY <2>1, <2>4 DEF k
<1>2. IsFiniteSet(A)
  <2> DEFINE S == {BytesOf(i) : i \in 1 .. n - 1}
  <2>1. IsFiniteSet(1 .. n - 1)
    BY FS_Interval
  <2>2. IsFiniteSet(S)
    <3>1. [i \in 1 .. n - 1 |-> BytesOf(i)] \in Surjection(1 .. n - 1, S)
      BY DEF Surjection
    <3> QED
      BY <2>1, <3>1, FS_Surjection
  <2>3. \A T \in S : IsFiniteSet(T)
    <3> SUFFICES ASSUME NEW i \in 1 .. n - 1 PROVE IsFiniteSet(BytesOf(i))
      OBVIOUS
    <3>1. i \in 1 .. Len(units)
      OBVIOUS
    <3> QED
      BY <1>1, <3>1
  <2> QED
    BY <2>2, <2>3, FS_UNION DEF FirstBytes
<1>3. FirstBytes(n) = A \cup B
  <2>1. 1 .. n = (1 .. n - 1) \cup {n}
    OBVIOUS
  <2> QED
    BY <2>1, Zenon DEF FirstBytes
<1>4. A \cap B = {}
  BY DEF FirstBytes
<1> HIDE DEF A, B
<1>5. IsFiniteSet(B) /\ Cardinality(B) = Span(units[n]) /\ Span(units[n]) \in Nat
  BY <1>1 DEF B
<1>6. Cardinality(A \cup B) = Cardinality(A) + Cardinality(B) - Cardinality({})
  BY <1>2, <1>4, <1>5, FS_Union
<1>7. Cardinality({}) = 0 /\ Cardinality(A) \in Nat
  BY <1>2, FS_EmptySet, FS_CardinalityType
<1> QED
  BY <1>2, <1>3, <1>5, <1>6, <1>7 DEF A

(* A unit starts where the one before ends. *)
LEMMA StartOfUnfolds ==
  ASSUME units \in Seq(Shapes)
  PROVE  /\ StartOf \in [0 .. Len(units) -> Nat]
         /\ StartOf[0] = 0
         /\ \A n \in 1 .. Len(units) :
              StartOf[n] = StartOf[n - 1] + Span(units[n])
<1> DEFINE N == Len(units)
<1>1. N \in Nat
  OBVIOUS
<1>2. FirstBytes(0) = {} /\ Cardinality(FirstBytes(0)) = 0
  <2>1. FirstBytes(0) = {}
    BY DEF FirstBytes
  <2> QED
    BY <2>1, FS_EmptySet, Zenon
<1>3. ASSUME NEW n \in 0 .. N PROVE Cardinality(FirstBytes(n)) \in Nat
  <2>1. CASE n = 0
    BY <1>2, <2>1
  <2>2. CASE n # 0
    <3>1. n \in 1 .. N /\ Span(units[n]) \in Nat
      BY <1>1, <2>2, ShapeParts
    <3>2. Cardinality(FirstBytes(n - 1)) \in Nat
      BY <3>1, FirstBytesGrow, FS_CardinalityType
    <3> QED
      BY <3>1, <3>2, FirstBytesGrow
  <2> QED
    BY <2>1, <2>2
<1>4. \A n \in 0 .. N : StartOf[n] = Cardinality(FirstBytes(n))
  BY DEF StartOf
<1>5. StartOf \in [0 .. N -> Nat]
  BY <1>3 DEF StartOf
<1>6. StartOf[0] = 0
  BY <1>1, <1>2, <1>4
<1>7. ASSUME NEW n \in 1 .. N PROVE StartOf[n] = StartOf[n - 1] + Span(units[n])
  <2>1. n \in 0 .. N /\ n - 1 \in 0 .. N
    BY <1>1
  <2> QED
    BY <1>4, <2>1, FirstBytesGrow
<1> QED
  BY <1>5, <1>6, <1>7

(* Units follow each other. *)
LEMMA StartOfGrows ==
  ASSUME units \in Seq(Shapes), NEW a \in 0 .. Len(units),
         NEW b \in 0 .. Len(units), a <= b
  PROVE  /\ StartOf[a] \in Nat /\ StartOf[b] \in Nat
         /\ StartOf[a] <= StartOf[b]
         /\ a < b => StartOf[a] < StartOf[b]
<1> DEFINE N == Len(units)
<1>1. /\ N \in Nat /\ (\A n \in 0 .. N : StartOf[n] \in Nat)
      /\ \A n \in 1 .. N : StartOf[n] = StartOf[n - 1] + Span(units[n])
  <2>1. /\ StartOf \in [0 .. N -> Nat]
        /\ \A n \in 1 .. N : StartOf[n] = StartOf[n - 1] + Span(units[n])
    BY StartOfUnfolds, Zenon
  <2>2. N \in Nat
    OBVIOUS
  <2> HIDE DEF N
  <2> QED
    BY <2>1, <2>2
<1> HIDE DEF N
<1>2. a \in 0 .. N /\ b \in 0 .. N
  BY DEF N
<1>3. ASSUME NEW c \in 0 .. N, c < b PROVE StartOf[c] <= StartOf[b - 1]
  <2>1. b \in 1 .. N /\ b - 1 \in 0 .. N
    BY <1>1, <1>2, <1>3
  <2>2. FirstBytes(c) \in SUBSET FirstBytes(b - 1)
    BY <1>2, <1>3 DEF FirstBytes
  <2>3. IsFiniteSet(FirstBytes(b - 1))
    BY <2>1, FirstBytesGrow DEF N
  <2>4. Cardinality(FirstBytes(c)) <= Cardinality(FirstBytes(b - 1))
    BY <2>2, <2>3, FS_Subset
  <2> QED
    BY <2>1, <2>4 DEF StartOf, N
<1>4. CASE a < b
  <2>1. b \in 1 .. N /\ b - 1 \in 0 .. N
    BY <1>1, <1>2, <1>4
  <2>2. units[b] \in Shapes
    BY <2>1 DEF N
  <2>3. Span(units[b]) \in Nat /\ Span(units[b]) > 0
    <3> DEFINE u == units[b]
    <3>1. u.tl \in Nat /\ u.tl > 0 /\ Span(u) \in Nat /\ u.tl <= Span(u)
      BY <2>2, ShapeParts
    <3> QED
      BY <3>1
  <2>4. StartOf[b] = StartOf[b - 1] + Span(units[b]) /\ StartOf[a] <= StartOf[b - 1]
    BY <1>1, <1>2, <1>3, <1>4, <2>1
  <2>5. StartOf[b - 1] \in Nat /\ StartOf[a] \in Nat /\ StartOf[b] \in Nat
    BY <1>1, <1>2, <2>1
  <2> QED
    BY <2>3, <2>4, <2>5
<1>5. CASE a = b
  BY <1>1, <1>2, <1>5
<1> QED
  BY <1>2, <1>4, <1>5

(* Every input of units is complete up to one of them. *)
IsComplete(n) ==
  /\ StartOf[n] <= rd.size
  /\ n < Len(units) => StartOf[n + 1] > rd.size

(* An input is complete up to no more than one unit. *)
LEMMA OneComplete ==
  ASSUME units \in Seq(Shapes), rd.size \in Nat,
         NEW a \in 0 .. Len(units), IsComplete(a)
  PROVE  Complete = a
<1> DEFINE N == Len(units)
<1>1. N \in Nat /\ \A n \in 0 .. N : StartOf[n] \in Nat
  BY StartOfUnfolds, SMTT(40)
<1>2. Complete = CHOOSE n \in 0 .. N : IsComplete(n)
  BY Zenon DEF Complete, IsComplete
<1> HIDE DEF N
<1>3. ASSUME NEW b \in 0 .. N, IsComplete(b), NEW d \in 0 .. N, IsComplete(d),
             b < d
      PROVE  FALSE
  <2>1. b + 1 \in 0 .. N /\ b + 1 <= d /\ b < N
    BY <1>1, <1>3
  <2>2. StartOf[b + 1] <= StartOf[d]
    BY <2>1, StartOfGrows DEF N
  <2>3. StartOf[b + 1] > rd.size /\ StartOf[d] <= rd.size
    BY <1>3, <2>1 DEF IsComplete, N
  <2> QED
    BY <1>1, <2>1, <2>2, <2>3
<1>4. PICK c \in 0 .. N : c = Complete /\ IsComplete(c)
  BY <1>2, Zenon DEF N
<1>5. a \in 0 .. N
  BY DEF N
<1> HIDE DEF IsComplete
<1>6. ~(a < c) /\ ~(c < a)
  BY <1>3, <1>4, <1>5
<1> QED
  BY <1>1, <1>4, <1>5, <1>6

(* A set of naturals that is not empty and has a bound has a greatest      *)
(* element: it leaves the fewest numbers up to the bound.                  *)
LEMMA Greatest ==
  ASSUME NEW N \in Nat, NEW T \in SUBSET (0 .. N), T # {}
  PROVE  \E m \in T : \A n \in T : n <= m
<1> DEFINE R == StrictSubsetOrdering(Nat)
           F == FiniteSubsetsOf(Nat)
           U == {n .. N : n \in T}
<1>1. U \subseteq F /\ U # {}
  <2>1. \A n \in T : IsFiniteSet(n .. N) /\ n .. N \subseteq Nat
    BY FS_Interval
  <2> QED
    BY <2>1 DEF FiniteSubsetsOf
<1>2. IsWellFoundedOn(R, F)
  BY FS_StrictSubsetOrderingWellFounded
<1>3. PICK u \in U : \A v \in U : ~(<<v, u>> \in R)
  <2> HIDE DEF R, U, F
  <2> QED
    BY <1>1, <1>2, WFMin
<1>4. PICK m \in T : u = m .. N
  OBVIOUS
<1>5. ASSUME NEW n \in T, m < n PROVE FALSE
  <2>1. n .. N \subseteq m .. N /\ m \in m .. N /\ m \notin n .. N
    BY <1>5
  <2>2. <<n .. N, m .. N>> \in R
    BY <2>1 DEF StrictSubsetOrdering
  <2> QED
    BY <1>3, <1>4, <2>2
<1> QED
  BY <1>5

(* An input is complete up to some unit. *)
LEMMA CompleteExists ==
  ASSUME units \in Seq(Shapes), rd.size \in Nat
  PROVE  Complete \in 0 .. Len(units) /\ IsComplete(Complete)
<1> DEFINE N == Len(units)
           T == {n \in 0 .. N : StartOf[n] <= rd.size}
<1>1. N \in Nat /\ StartOf[0] = 0 /\ \A n \in 0 .. N : StartOf[n] \in Nat
  BY StartOfUnfolds, SMTT(40)
<1> HIDE DEF N
<1>2. 0 \in T /\ T \in SUBSET (0 .. N)
  BY <1>1
<1>3. PICK m \in T : \A n \in T : n <= m
  <2> HIDE DEF T
  <2> QED
    BY <1>1, <1>2, Greatest
<1>4. m < N => StartOf[m + 1] > rd.size
  <2> SUFFICES ASSUME m < N, ~(StartOf[m + 1] > rd.size) PROVE FALSE
    OBVIOUS
  <2>1. m + 1 \in 0 .. N /\ m + 1 > m
    BY <1>1, <1>3
  <2>2. m + 1 \in T
    BY <1>1, <2>1
  <2> QED
    BY <1>3, <2>1, <2>2
<1>5. m \in 0 .. N /\ IsComplete(m)
  BY <1>1, <1>3, <1>4 DEF IsComplete, N
<1>6. Complete = m
  BY <1>5, OneComplete DEF N
<1> QED
  BY <1>5, <1>6 DEF N

(***************************************************************************)
(* The header at the start of the window                                   *)
(***************************************************************************)

(* What the invariant says, in numbers *)
LEMMA RunningParts ==
  ASSUME LoopIInv, status = "running"
  PROVE  /\ units \in Seq(Shapes) /\ Len(units) \in Nat
         /\ rd \in ReaderType /\ Sound(rd, rd.global) /\ rd.global \in Nat
         /\ given \in 0 .. Len(units) /\ rd.global = StartOf[given]
         /\ rd.size \in Nat /\ rd.size <= StartOf[Len(units)]
         /\ rd.size + Inc <= Word
         /\ Avail(rd) \in Nat /\ rd.global + Avail(rd) <= rd.size
         /\ rd.first \in Nat
         /\ tlc \in [unit : 0 .. Len(units), begin : Nat]
<1>1. /\ units \in Seq(Shapes) /\ rd \in ReaderType /\ Sound(rd, rd.global)
      /\ given \in 0 .. Len(units) /\ rd.global = StartOf[given]
      /\ rd.size <= StartOf[Len(units)] /\ rd.size + Inc <= Word
      /\ tlc \in [unit : 0 .. Len(units), begin : Nat]
  BY DEF LoopIInv, LoopInv, LoopTypeOK, Placed
<1>2. rd.global \in Nat /\ rd.size \in Nat /\ rd.first \in Nat
  BY <1>1, ReaderParts
<1>3. Avail(rd) \in Nat /\ rd.global + Avail(rd) = rd.taken /\ rd.taken <= rd.size
  BY <1>1, <1>2, SoundParts
<1> QED
  BY <1>1, <1>2, <1>3

(* Only the header of the next unit is decoded at the start of the window. *)
LEMMA OnlyNextUnit ==
  ASSUME LoopIInv, status = "running", Avail(rd) > 0, NEW n \in 1 .. Len(units)
  PROVE  AtUnit(n) <=> n = given + 1 /\ Avail(rd) >= units[n].tl
<1>1. /\ units \in Seq(Shapes) /\ Len(units) \in Nat /\ rd \in ReaderType
      /\ Sound(rd, rd.global) /\ rd.global \in Nat /\ rd.global = StartOf[given]
      /\ given \in 0 .. Len(units) /\ Avail(rd) \in Nat
  BY RunningParts
<1>2. CellAt(rd.pad, rd.first + 1) = rd.global + 1
  <2>1. \A i \in 1 .. Avail(rd) : CellAt(rd.pad, rd.first + i) = rd.global + i
    BY <1>1 DEF Sound, InStep
  <2>2. 1 \in 1 .. Avail(rd)
    BY <1>1
  <2> QED
    BY <2>1, <2>2
<1>3. n - 1 \in 0 .. Len(units) /\ StartOf[n - 1] \in Nat
  BY <1>1, StartOfUnfolds, SMTT(40)
<1>4. StartOf[n - 1] = StartOf[given] <=> n - 1 = given
  <2>1. n - 1 < given => StartOf[n - 1] < StartOf[given]
    BY <1>1, <1>3, StartOfGrows
  <2>2. given < n - 1 => StartOf[given] < StartOf[n - 1]
    BY <1>1, <1>3, StartOfGrows
  <2> QED
    BY <1>1, <1>3, <2>1, <2>2
<1> QED
  BY <1>1, <1>2, <1>3, <1>4 DEF AtUnit

(***************************************************************************)
(* The steps of read_next()                                                *)
(***************************************************************************)

(* The part of IInv that the steps preserve; the rest follows from it. *)
Core == LoopTypeOK /\ (status = "running" => Placed)

(* Once a unit was forgotten, the pad still holds it behind the window.    *)
LEMMA CoreShows == Core => LoopIInv
<1> SUFFICES ASSUME Core PROVE BeginValid
  BY DEF Core, LoopIInv, LoopInv
<1> SUFFICES ASSUME status = "running", pc = "next", tlc.unit # 0
             PROVE  Bytes(rd, tlc.begin, Span(units[tlc.unit]))
                      = [i \in 1 .. Span(units[tlc.unit]) |->
                           StartOf[tlc.unit - 1] + i]
  BY Zenon DEF BeginValid, At
<1> DEFINE u == tlc.unit
           k == Span(units[u])
<1>1. /\ units \in Seq(Shapes) /\ rd \in ReaderType /\ Sound(rd, rd.global)
      /\ rd.global = StartOf[u] /\ u \in 1 .. Len(units)
      /\ tlc.begin \in Nat /\ tlc.begin + k = rd.first
  BY DEF Core, LoopTypeOK, Placed
<1>2. /\ rd.global \in Nat /\ rd.first \in Nat /\ Size(rd.pad) \in Nat
      /\ rd.pad \in PadType /\ rd.second \in Nat
  BY <1>1, ReaderParts
<1>3. /\ rd.first <= rd.second /\ rd.second <= Size(rd.pad)
      /\ \A i \in 1 .. Size(rd.pad) : rd.pad.v[i] = rd.global - rd.first + i
  <2>1. /\ rd.first <= rd.second /\ rd.second \in 0 .. Size(rd.pad)
        /\ \A i \in 1 .. Size(rd.pad) : rd.pad.v[i] = rd.global - rd.first + i
    BY <1>1, <1>2, SoundParts, Zenon
  <2>2. rd.second <= Size(rd.pad)
    BY <1>2, <2>1
  <2> QED
    BY <2>1, <2>2, Zenon
<1>4. /\ k \in Nat
      /\ StartOf[u] = StartOf[u - 1] + k
      /\ StartOf[u - 1] \in Nat
  BY <1>1, ShapeParts, StartOfUnfolds
<1> DEFINE b == tlc.begin
           f == rd.first
           g == rd.global
           s == StartOf[u - 1]
<1> HIDE DEF k, u, b, f, g, s
<1>5. /\ b \in Nat /\ f \in Nat /\ g \in Nat /\ s \in Nat /\ k \in Nat
      /\ b + k = f /\ f <= Size(rd.pad) /\ g = s + k /\ Size(rd.pad) \in Nat
  BY <1>1, <1>2, <1>3, <1>4 DEF b, f, g, s
<1>6. ASSUME NEW i \in 1 .. k
      PROVE  CellAt(rd.pad, tlc.begin + i) = StartOf[u - 1] + i
  <2>1. b + i \in 1 .. Size(rd.pad)
    BY <1>5
  <2>2. rd.pad.v[b + i] = g - f + (b + i)
    BY <1>3, <2>1 DEF g, f
  <2>3. g - f + (b + i) = s + i
    BY <1>5
  <2>4. CellAt(rd.pad, b + i) = s + i
    BY <1>2, <2>1, <2>2, <2>3, CellInPad
  <2> QED
    BY <2>4 DEF b, s
<1> QED
  BY <1>6, Zenon DEF Bytes, k, u

(* The first state *)
LEMMA LoopInitSound == LoopInit => Core
<1> SUFFICES ASSUME LoopInit PROVE Core
  OBVIOUS
<1>1. PICK m \in 0 .. MaxUnits : units \in [1 .. m -> Shapes]
  BY DEF LoopInit
<1>2. m \in Nat /\ m <= MaxUnits
  BY <1>1, TlcReaderAssumption
<1>3. units \in Seq(Shapes) /\ Len(units) = m
  BY <1>1, <1>2
<1>4. PICK b \in Backends, n \in 0 .. StartOf[Len(units)] :
        n + Inc <= Word /\ rd = NewReader(b, n)
  BY DEF LoopInit
<1>5. StartOf[0] = 0 /\ StartOf[Len(units)] \in Nat
  BY <1>2, <1>3, StartOfUnfolds
<1>6. n \in Nat /\ n <= StartOf[Len(units)]
  BY <1>4, <1>5
<1>7. rd \in ReaderType /\ Sound(rd, 0) /\ rd.size = n /\ rd.global = 0
  BY <1>4, <1>6, NewSound DEF NewReader
<1>8. /\ given = 0 /\ pc = "next" /\ status = "running"
      /\ tlc = [unit |-> 0, begin |-> 0]
  BY DEF LoopInit
<1>9. LoopTypeOK
  BY <1>2, <1>3, <1>7, <1>8 DEF LoopTypeOK
<1>10. Placed
  BY <1>4, <1>5, <1>6, <1>7, <1>8 DEF Placed
<1> QED
  BY <1>9, <1>10 DEF Core

(* No step changes the input. *)
SameInput == units' = units /\ (rd.size)' = rd.size

(* r.next(20) *)
LEMMA PeekSound ==
  ASSUME Core, PeekHeader
  PROVE  /\ Core' /\ SameInput /\ given' = given
         /\ \/ status' = "running"
            \/ status' = "done" /\ rd.global = rd.size
<1>1. LoopIInv /\ status = "running" /\ pc = "next"
  BY CoreShows DEF PeekHeader, At
<1>2. /\ rd \in ReaderType /\ Sound(rd, rd.global) /\ rd.global \in Nat
      /\ given \in 0 .. Len(units) /\ units \in Seq(Shapes)
  BY <1>1, RunningParts
<1>3. Peek \in Nat /\ Peek > 0 /\ Peek + Inc <= Word
  BY TlcReaderAssumption
<1>4. /\ rd' = Next(rd, Peek) /\ units' = units /\ tlc' = tlc /\ given' = given
      /\ \/ NextResult(rd, Peek) = 0 /\ status' = "done" /\ pc' = pc
         \/ NextResult(rd, Peek) # 0 /\ status' = "running" /\ pc' = "load"
  BY <1>1 DEF PeekHeader, Goto, At
<1>5. /\ rd' \in ReaderType /\ Sound(rd', rd.global)
      /\ (rd.size)' = rd.size /\ (rd.global)' = rd.global
  BY <1>2, <1>3, <1>4, NextSound DEF MovesOn
<1>6. /\ Avail(rd') >= Peek \/ rd.global + Avail(rd') = rd.size
      /\ Avail(rd') = 0 <=> rd.global = rd.size
      /\ Avail(rd') \in Nat
  BY <1>2, <1>3, <1>4, <1>5, DeliversEnough, SoundParts
<1>7. NextResult(rd, Peek) = 0 <=> Avail(rd') = 0
  BY <1>4 DEF NextResult
<1>8. LoopTypeOK'
  BY <1>1, <1>4, <1>5 DEF Core, LoopTypeOK
<1>9. StartOf' = StartOf
  BY <1>4, Zenon DEF StartOf, FirstBytes
<1>10. CASE NextResult(rd, Peek) = 0
  BY <1>4, <1>5, <1>6, <1>7, <1>8, <1>10 DEF Core, SameInput
<1>11. CASE NextResult(rd, Peek) # 0
  <2>1. status' = "running" /\ pc' = "load" /\ Avail(rd') > 0
    BY <1>4, <1>6, <1>7, <1>11
  <2>2. Placed'
    BY <1>1, <1>4, <1>5, <1>6, <1>9, <2>1 DEF Core, Placed
  <2> QED
    BY <1>4, <1>5, <1>8, <2>1, <2>2 DEF Core, SameInput
<1> QED
  BY <1>10, <1>11

(* An exception ends the loop; only the types are left to show. *)
LEMMA EndIsTyped ==
  ASSUME LoopTypeOK, UNCHANGED <<units, given, pc>>, status' = "failed",
         rd' \in ReaderType, tlc' \in [unit : 0 .. Len(units), begin : Nat]
  PROVE  Core'
BY DEF Core, LoopTypeOK

(* The input ends within the next unit, or behind the last one. *)
CutOff ==
  /\ rd.global < rd.size
  /\ given < Len(units) => StartOf[given + 1] > rd.size

(* tlc.load() throws: less than a header was left. *)
LEMMA LoadFailsSound ==
  ASSUME Core, LoadFails
  PROVE  Core' /\ SameInput /\ given' = given /\ status' = "failed" /\ CutOff
<1>1. LoopIInv /\ LoopTypeOK /\ status = "running" /\ pc = "load" /\ Placed
  BY CoreShows DEF LoadFails, At, Core
<1>2. /\ units \in Seq(Shapes) /\ Len(units) \in Nat /\ rd \in ReaderType
      /\ rd.global \in Nat /\ rd.size \in Nat /\ rd.first \in Nat
      /\ given \in 0 .. Len(units) /\ rd.global = StartOf[given]
      /\ rd.size <= StartOf[Len(units)]
      /\ Avail(rd) \in Nat /\ rd.global + Avail(rd) <= rd.size
      /\ tlc \in [unit : 0 .. Len(units), begin : Nat]
  BY <1>1, RunningParts
<1>3. /\ Avail(rd) > 0
      /\ Avail(rd) >= Peek \/ rd.global + Avail(rd) = rd.size
  BY <1>1 DEF Placed
<1>4. rd.global < rd.size
  BY <1>2, <1>3
<1>5. ASSUME given < Len(units) PROVE StartOf[given + 1] > rd.size
  <2>1. given + 1 \in 1 .. Len(units) /\ (given + 1) - 1 = given
    BY <1>2, <1>5
  <2> DEFINE u == units[given + 1]
  <2>2. u \in Shapes
    BY <1>2, <2>1
  <2> HIDE DEF u
  <2>3. /\ u.tl \in Nat /\ u.tl <= Peek /\ Span(u) \in Nat /\ u.tl <= Span(u)
        /\ Peek \in Nat
    BY <2>2, ShapeParts, TlcReaderAssumption
  <2>4. ~AtUnit(given + 1)
    BY <2>1 DEF LoadFails
  <2>5. ~(Avail(rd) >= u.tl)
    BY <1>1, <1>3, <2>1, <2>4, OnlyNextUnit DEF u
  <2>6. rd.global + Avail(rd) = rd.size
    BY <1>2, <1>3, <2>3, <2>5
  <2>7. StartOf[given + 1] = StartOf[given] + Span(u)
    BY <1>2, <2>1, StartOfUnfolds DEF u
  <2> QED
    BY <1>2, <2>3, <2>5, <2>6, <2>7
<1>6. tlc' \in [unit : 0 .. Len(units), begin : Nat]
  BY <1>2 DEF LoadFails
<1>7. Core'
  BY <1>1, <1>2, <1>6, EndIsTyped DEF LoadFails, Fail
<1> QED
  BY <1>4, <1>5, <1>7 DEF CutOff, LoadFails, Fail, SameInput

(* tlc.load() returns: it has decoded the next unit. *)
LEMMA LoadParts ==
  ASSUME Core, NEW n \in 1 .. Len(units), Load(n)
  PROVE  /\ LoopIInv /\ LoopTypeOK /\ Placed /\ status = "running" /\ pc = "load"
         /\ n = given + 1 /\ given < Len(units)
         /\ Avail(rd) > 0 /\ Avail(rd) >= units[n].tl
         /\ units[n] \in Shapes
         /\ StartOf[n] = rd.global + Span(units[n])
         /\ tlc' = [unit |-> n, begin |-> rd.first]
         /\ tlc' \in [unit : 0 .. Len(units), begin : Nat]
<1>1. LoopIInv /\ LoopTypeOK /\ Placed /\ status = "running" /\ pc = "load"
  BY CoreShows DEF Load, At, Core
<1>2. Avail(rd) > 0
  BY <1>1 DEF Placed
<1>3. n = given + 1 /\ Avail(rd) >= units[n].tl
  BY <1>1, <1>2, OnlyNextUnit DEF Load
<1>4. /\ units \in Seq(Shapes) /\ Len(units) \in Nat /\ rd.first \in Nat
      /\ rd.global = StartOf[given] /\ given \in 0 .. Len(units)
  BY <1>1, RunningParts
<1>5. units[n] \in Shapes
  BY <1>4
<1>6. n - 1 = given /\ StartOf[n] = StartOf[n - 1] + Span(units[n])
  BY <1>3, <1>4, StartOfUnfolds
<1>7. /\ tlc' = [unit |-> n, begin |-> rd.first]
      /\ tlc' \in [unit : 0 .. Len(units), begin : Nat]
  BY <1>4 DEF Load
<1> QED
  BY <1>1, <1>2, <1>3, <1>4, <1>5, <1>6, <1>7

(* The header of a constructed unit is forgotten. *)
LEMMA LoadConstructedSound ==
  ASSUME Core, NEW n \in 1 .. Len(units), LoadConstructed(n)
  PROVE  /\ Core' /\ SameInput
         /\ status' = "running" /\ given' = given + 1
<1>1. Load(n)
  BY DEF LoadConstructed
<1>2. /\ LoopIInv /\ LoopTypeOK /\ Placed /\ status = "running"
      /\ n = given + 1 /\ Avail(rd) >= units[n].tl /\ units[n] \in Shapes
      /\ StartOf[n] = rd.global + Span(units[n])
      /\ tlc' = [unit |-> n, begin |-> rd.first]
      /\ tlc' \in [unit : 0 .. Len(units), begin : Nat]
  BY <1>1, LoadParts
<1> DEFINE k == units[n].tl
<1>3. k \in Nat /\ Span(units[n]) = k
  BY <1>2, ShapeParts DEF LoadConstructed
<1>4. /\ rd \in ReaderType /\ Sound(rd, rd.global) /\ rd.global \in Nat
      /\ Avail(rd) \in Nat /\ rd.first \in Nat
  BY <1>2, RunningParts
<1>5. /\ units' = units /\ given' = n /\ status' = "running" /\ pc' = "next"
      /\ rd' = Forget(rd, k)
  BY <1>2 DEF LoadConstructed, Goto
<1> HIDE DEF k
<1>6. Least(k, Avail(rd)) = k
  BY <1>2, <1>3, <1>4 DEF Least, k
<1>7. /\ rd' \in ReaderType /\ Sound(rd', rd.global + k)
      /\ Drops(rd', rd, k)
  BY <1>3, <1>4, <1>5, <1>6, ForgetSound
<1>8. /\ (rd.size)' = rd.size /\ (rd.global)' = rd.global + k
      /\ (rd.first)' = rd.first + k
  BY <1>7 DEF Drops
<1>9. LoopTypeOK'
  BY <1>2, <1>5, <1>7 DEF LoopTypeOK
<1>10. StartOf' = StartOf
  BY <1>5, Zenon DEF StartOf, FirstBytes
<1>11. Placed'
  <2>1. (tlc.unit)' = n /\ (tlc.begin)' = rd.first
    BY <1>2
  <2>2. Sound(rd', (rd.global)') /\ (rd.global)' = StartOf'[given']
    BY <1>2, <1>3, <1>5, <1>7, <1>8, <1>10
  <2>3. (rd.size)' <= StartOf'[Len(units')] /\ (rd.size)' + Inc <= Word
    BY <1>2, <1>5, <1>8, <1>10 DEF Placed
  <2>4. (tlc.begin)' + Span(units'[given']) = (rd.first)'
    BY <1>3, <1>5, <1>8, <2>1
  <2> QED
    BY <1>5, <2>1, <2>2, <2>3, <2>4 DEF Placed
<1> QED
  BY <1>2, <1>5, <1>8, <1>9, <1>11 DEF Core, SameInput

(* A primitive unit: its content is next, or is too long for size_t.       *)
LEMMA LoadPrimitiveSound ==
  ASSUME Core, NEW n \in 1 .. Len(units), LoadPrimitive(n)
  PROVE  /\ Core' /\ SameInput /\ given' = given
         /\ \/ status' = "running"
            \/ status' = "failed" /\ CutOff
<1>1. Load(n)
  BY DEF LoadPrimitive
<1>2. /\ LoopIInv /\ LoopTypeOK /\ Placed /\ status = "running"
      /\ n = given + 1 /\ Avail(rd) > 0 /\ units[n] \in Shapes
      /\ StartOf[n] = rd.global + Span(units[n])
      /\ tlc' = [unit |-> n, begin |-> rd.first]
      /\ tlc' \in [unit : 0 .. Len(units), begin : Nat]
  BY <1>1, LoadParts
<1>3. /\ rd \in ReaderType /\ rd.global \in Nat /\ Avail(rd) \in Nat
      /\ rd.size \in Nat /\ rd.size + Inc <= Word
      /\ rd.global + Avail(rd) <= rd.size
  BY <1>2, RunningParts
<1>4. rd' = rd
  BY DEF LoadPrimitive
<1>5. CASE Span(units[n]) < Word
  <2>1. /\ units' = units /\ given' = given /\ status' = "running"
        /\ pc' = "content"
    BY <1>2, <1>5 DEF LoadPrimitive, Goto
  <2>2. LoopTypeOK'
    BY <1>2, <1>4, <2>1 DEF LoopTypeOK
  <2>3. StartOf' = StartOf
    BY <2>1, Zenon DEF StartOf, FirstBytes
  <2>4. (tlc.unit)' = n /\ (tlc.begin)' = rd.first /\ ~units[n].constructed
    BY <1>2 DEF LoadPrimitive
  <2>5. Placed'
    BY <1>2, <1>4, <2>1, <2>3, <2>4 DEF Placed
  <2> QED
    BY <1>4, <2>1, <2>2, <2>5 DEF Core, SameInput
<1>6. CASE ~(Span(units[n]) < Word)
  <2>1. UNCHANGED <<units, given, pc>> /\ status' = "failed"
    BY <1>6 DEF LoadPrimitive, Fail
  <2>2. Core'
    BY <1>2, <1>3, <1>4, <2>1, EndIsTyped
  <2>3. Span(units[n]) \in Nat
    BY <1>2, ShapeParts
  <2>4. CutOff
    BY <1>2, <1>3, <1>6, <2>3, ReaderAssumption DEF CutOff
  <2> QED
    BY <1>4, <2>1, <2>2, <2>4 DEF SameInput
<1> QED
  BY <1>5, <1>6

(* The content of a primitive unit: all of it, or an exception. *)
LEMMA ReadContentSound ==
  ASSUME Core, ReadContent
  PROVE  /\ Core' /\ SameInput
         /\ \/ status' = "running" /\ given' = given + 1
            \/ status' = "failed" /\ given' = given /\ CutOff
<1> DEFINE n    == given + 1
           k    == Span(units[n])
           more == Next(rd, k)
<1>1. LoopIInv /\ LoopTypeOK /\ Placed /\ status = "running" /\ pc = "content"
  BY CoreShows DEF ReadContent, At, Core
<1>2. /\ units \in Seq(Shapes) /\ Len(units) \in Nat /\ rd \in ReaderType
      /\ Sound(rd, rd.global) /\ rd.global \in Nat /\ rd.size \in Nat
      /\ rd.first \in Nat
      /\ given \in 0 .. Len(units) /\ rd.global = StartOf[given]
      /\ Avail(rd) \in Nat /\ rd.global + Avail(rd) <= rd.size
      /\ rd.size + Inc <= Word
      /\ tlc \in [unit : 0 .. Len(units), begin : Nat]
  BY <1>1, RunningParts
<1>3. /\ tlc.unit = n /\ Avail(rd) > 0 /\ tlc.begin = rd.first
  BY <1>1 DEF Placed
<1>4. n \in 1 .. Len(units) /\ n - 1 = given /\ units[n] \in Shapes
  BY <1>2, <1>3
<1>5. k \in Nat /\ k > 0
  BY <1>4, ShapeParts
<1>6. StartOf[n] = rd.global + k
  BY <1>2, <1>4, StartOfUnfolds
<1>7. /\ more \in ReaderType /\ Sound(more, rd.global)
      /\ more.size = rd.size /\ more.global = rd.global
      /\ ~Reads(rd, k) => more.first = rd.first
  <2> HIDE DEF k
  <2>1. MovesOn(more, rd, rd.global, k, Blocks(k - Avail(rd)) * Inc)
        /\ more \in ReaderType /\ Sound(more, rd.global)
    BY <1>2, <1>5, NextSound, Zenon DEF more
  <2> QED
    BY <2>1, Zenon DEF MovesOn
<1>8. Avail(more) \in Nat /\ more.first \in Nat
  BY <1>2, <1>7, SoundParts, ReaderParts
<1> HIDE DEF k, more
<1>9. CASE Available(more, k)
  <2>1. /\ units' = units /\ given' = n /\ status' = "running" /\ pc' = "next"
        /\ rd' = Forget(more, k)
        /\ tlc' = IF NextResult(rd, k) = 2
                  THEN [tlc EXCEPT !.begin = more.first] ELSE tlc
    BY <1>1, <1>3, <1>9, Zenon DEF ReadContent, Goto, At, k, more, n
  <2>2. Avail(more) >= k /\ Least(k, Avail(more)) = k
    BY <1>5, <1>8, <1>9 DEF Available, Least
  <2>3. /\ rd' \in ReaderType /\ Sound(rd', rd.global + k)
        /\ Drops(rd', more, k)
    BY <1>2, <1>5, <1>7, <2>1, <2>2, ForgetSound
  <2>4. /\ (rd.size)' = rd.size /\ (rd.global)' = rd.global + k
        /\ (rd.first)' = more.first + k
    BY <1>7, <2>3 DEF Drops
  <2>5. /\ tlc' \in [unit : 0 .. Len(units), begin : Nat]
        /\ (tlc.unit)' = n /\ (tlc.begin)' = more.first
    <3>1. CASE NextResult(rd, k) = 2
      BY <1>2, <1>3, <1>8, <2>1, <3>1
    <3>2. CASE NextResult(rd, k) # 2
      <4>1. Avail(more) # 0
        BY <1>5, <1>8, <2>2
      <4>2. ~Reads(rd, k)
        BY <3>2, <4>1, Zenon DEF NextResult, more
      <4> QED
        BY <1>2, <1>3, <1>7, <2>1, <3>2, <4>2
    <3> QED
      BY <3>1, <3>2
  <2>6. LoopTypeOK'
    BY <1>1, <1>4, <2>1, <2>3, <2>5 DEF LoopTypeOK
  <2>7. StartOf' = StartOf
    BY <2>1, Zenon DEF StartOf, FirstBytes
  <2>8. Placed'
    <3>1. Sound(rd', (rd.global)') /\ (rd.global)' = StartOf'[given']
      BY <1>6, <2>1, <2>3, <2>4, <2>7
    <3>2. (rd.size)' <= StartOf'[Len(units')] /\ (rd.size)' + Inc <= Word
      BY <1>1, <2>1, <2>4, <2>7 DEF Placed
    <3>3. (tlc.begin)' + Span(units'[given']) = (rd.first)'
      BY <2>1, <2>4, <2>5 DEF k
    <3> QED
      BY <2>1, <2>5, <3>1, <3>2, <3>3 DEF Placed
  <2> QED
    BY <2>1, <2>4, <2>6, <2>8 DEF Core, SameInput
<1>10. CASE ~Available(more, k)
  <2>1. /\ UNCHANGED <<units, given, pc>> /\ status' = "failed"
        /\ rd' = more /\ tlc' = tlc
    BY <1>3, <1>10, Zenon DEF ReadContent, Fail, k, more, n
  <2>2. Core'
    BY <1>1, <1>2, <1>7, <2>1, EndIsTyped
  <2>3. Avail(more) < k
    BY <1>5, <1>8, <1>10 DEF Available
  <2>4. rd.global + k > rd.size
    <3>1. CASE k + Inc <= Word
      <4>1. rd.global + Avail(more) = rd.size
        <5>1. \/ Avail(Next(rd, k)) >= k
              \/ rd.global + Avail(Next(rd, k)) = rd.size
          BY <1>2, <1>5, <3>1, DeliversEnough
        <5> QED
          BY <1>5, <1>8, <2>3, <5>1 DEF more
      <4> QED
        BY <1>2, <1>5, <1>8, <2>3, <4>1
    <3>2. CASE ~(k + Inc <= Word)
      BY <1>2, <1>5, <3>2, ReaderAssumption
    <3> QED
      BY <3>1, <3>2
  <2>5. CutOff
    BY <1>2, <1>3, <1>6, <2>4 DEF CutOff
  <2> QED
    BY <1>7, <2>1, <2>2, <2>5 DEF SameInput
<1> QED
  BY <1>9, <1>10

(* The loop over read_next() *)
LEMMA LoopStepSound == Core /\ [LoopStep]_loopVars => Core'
<1> SUFFICES ASSUME Core, [LoopStep]_loopVars PROVE Core'
  OBVIOUS
<1>1. CASE PeekHeader
  BY <1>1, PeekSound
<1>2. CASE LoadFails
  BY <1>2, LoadFailsSound
<1>3. CASE \E n \in 1 .. Len(units) : LoadConstructed(n)
  BY <1>3, LoadConstructedSound
<1>4. CASE \E n \in 1 .. Len(units) : LoadPrimitive(n)
  BY <1>4, LoadPrimitiveSound
<1>5. CASE ReadContent
  BY <1>5, ReadContentSound
<1>6. CASE Ended \/ UNCHANGED loopVars
  <2>1. UNCHANGED loopVars
    BY <1>6 DEF Ended
  <2>2. StartOf' = StartOf
    BY <2>1, Zenon DEF StartOf, FirstBytes, loopVars
  <2> QED
    BY <2>1, <2>2 DEF loopVars, Core, LoopTypeOK, Placed
<1> QED
  BY <1>1, <1>2, <1>3, <1>4, <1>5, <1>6 DEF LoopStep, ReadNext

(* Whatever the backend and the block size are, and whatever lengths the   *)
(* units claim: tlc.begin shows the unit that read_next() has returned,    *)
(* until the next call, and the reader stands behind it.                   *)
THEOREM UnitsShown == LoopSpec => []LoopIInv
BY LoopInitSound, LoopStepSound, CoreShows, PTL DEF LoopSpec

(***************************************************************************)
(* The stream of units                                                     *)
(***************************************************************************)

(* When the loop ends, the units that are complete have been given. *)
LEMMA EndAtLast ==
  ASSUME Core, status = "running", CutOff \/ rd.global = rd.size
  PROVE  given = Complete /\ (StartOf[Complete] = rd.size <=> rd.global = rd.size)
<1>1. LoopIInv
  BY CoreShows
<1>2. /\ units \in Seq(Shapes) /\ Len(units) \in Nat /\ rd.size \in Nat
      /\ rd.global \in Nat
      /\ given \in 0 .. Len(units) /\ rd.global = StartOf[given]
      /\ Avail(rd) \in Nat /\ rd.global + Avail(rd) <= rd.size
  BY <1>1, RunningParts
<1>3. ASSUME given < Len(units) PROVE StartOf[given + 1] > rd.size
  <2>1. CASE CutOff
    BY <1>3, <2>1 DEF CutOff
  <2>2. CASE rd.global = rd.size
    <3>1. given + 1 \in 0 .. Len(units) /\ given <= given + 1 /\ given < given + 1
      BY <1>2, <1>3
    <3>2. StartOf[given] < StartOf[given + 1] /\ StartOf[given + 1] \in Nat
      BY <1>2, <3>1, StartOfGrows
    <3> QED
      BY <1>2, <2>2, <3>2
  <2> QED
    BY <2>1, <2>2
<1>4. StartOf[given] <= rd.size
  BY <1>2
<1>5. IsComplete(given)
  BY <1>3, <1>4 DEF IsComplete
<1>6. Complete = given
  BY <1>2, <1>5, OneComplete
<1> QED
  BY <1>2, <1>6

(* A unit that was given is complete. *)
LEMMA GivenIsComplete ==
  ASSUME Core, Core', status = "running", status' = "running",
         given' = given + 1, SameInput
  PROVE  given < Complete
<1>1. LoopIInv /\ LoopIInv'
  BY CoreShows, PTL
<1>2. /\ units \in Seq(Shapes) /\ Len(units) \in Nat /\ rd.size \in Nat
      /\ given \in 0 .. Len(units)
  BY <1>1, RunningParts
<1>3. StartOf' = StartOf
  BY Zenon DEF StartOf, FirstBytes, SameInput
<1>4. given + 1 \in 0 .. Len(units) /\ (rd.global)' = StartOf[given + 1]
  BY <1>3 DEF Core, LoopTypeOK, Placed, SameInput
<1>5. /\ (rd.global)' \in Nat /\ (rd.global)' <= rd.size
  <2>1. rd' \in ReaderType /\ Sound(rd', (rd.global)')
    BY DEF Core, LoopTypeOK, Placed
  <2>2. (rd.global)' \in Nat
    BY <2>1, ReaderParts
  <2>3. /\ Avail(rd') \in Nat /\ (rd.global)' + Avail(rd') = (rd.taken)'
        /\ (rd.taken)' <= (rd.size)'
    BY <2>1, <2>2, SoundParts
  <2> QED
    BY <1>2, <2>2, <2>3 DEF SameInput
<1>6. Complete \in 0 .. Len(units) /\ IsComplete(Complete)
  BY <1>2, CompleteExists
<1> DEFINE c == Complete
<1> HIDE DEF c
<1>7. ASSUME c <= given PROVE FALSE
  <2>1. /\ c \in 0 .. Len(units) /\ c < Len(units) /\ c + 1 <= given + 1
        /\ c + 1 \in 0 .. Len(units)
    BY <1>2, <1>4, <1>6, <1>7 DEF c
  <2>2. StartOf[c + 1] <= StartOf[given + 1] /\ StartOf[c + 1] \in Nat
    BY <1>2, <1>4, <2>1, StartOfGrows
  <2>3. StartOf[c + 1] > rd.size
    BY <1>6, <2>1 DEF c, IsComplete
  <2> QED
    BY <1>2, <1>4, <1>5, <2>2, <2>3
<1> QED
  BY <1>2, <1>6, <1>7 DEF c

(* The first state of the stream *)
LEMMA LoopInitRefines == LoopInit => Stream_!Init
<1> SUFFICES ASSUME LoopInit PROVE Stream_!Init
  OBVIOUS
<1>1. Core
  BY LoopInitSound
<1>2. units \in Seq(Shapes) /\ rd.size \in Nat
  BY <1>1, ReaderParts DEF Core, LoopTypeOK
<1>3. Complete \in Nat
  BY <1>2, CompleteExists
<1> QED
  BY <1>3 DEF LoopInit, Stream_!Init

(* Every step of the loop is a step of the stream, or is not seen. *)
LEMMA LoopStepRefines ==
  Core /\ [LoopStep]_loopVars => [Stream_!Next]_(Stream_!vars)
<1> SUFFICES ASSUME Core, [LoopStep]_loopVars
             PROVE  Stream_!Next \/ UNCHANGED Stream_!vars
  OBVIOUS
<1>1. Core'
  BY LoopStepSound
<1>2. ASSUME SameInput
      PROVE  /\ Complete' = Complete
             /\ (StartOf[Complete] = rd.size)' <=> StartOf[Complete] = rd.size
  <2>1. StartOf' = StartOf
    BY <1>2, Zenon DEF StartOf, FirstBytes, SameInput
  <2>2. Complete' = Complete
    BY <1>2, <2>1, Zenon DEF Complete, SameInput
  <2> QED
    BY <1>2, <2>1, <2>2, Zenon DEF SameInput
<1>3. ASSUME SameInput, status = "running", status' = "running", given' = given + 1
      PROVE  Stream_!Next
  <2>1. given < Complete
    BY <1>1, <1>3, GivenIsComplete
  <2> QED
    BY <1>2, <1>3, <2>1 DEF Stream_!Next, Stream_!Deliver
<1>4. ASSUME SameInput, status = "running", given' = given,
             \/ status' = "done" /\ rd.global = rd.size
             \/ status' = "failed" /\ CutOff
      PROVE  Stream_!Next
  <2>1. given = Complete /\ (StartOf[Complete] = rd.size <=> rd.global = rd.size)
    BY <1>4, EndAtLast
  <2>2. CASE status' = "done" /\ rd.global = rd.size
    BY <1>2, <1>4, <2>1, <2>2 DEF Stream_!Next, Stream_!End
  <2>3. CASE status' = "failed" /\ CutOff
    <3>1. rd.global # rd.size
      BY <1>4, <2>3, CoreShows, RunningParts DEF CutOff
    <3> QED
      BY <1>2, <1>4, <2>1, <2>3, <3>1 DEF Stream_!Next, Stream_!End
  <2> QED
    BY <1>4, <2>2, <2>3
<1>5. ASSUME SameInput, status' = status, given' = given
      PROVE  UNCHANGED Stream_!vars
  BY <1>2, <1>5 DEF Stream_!vars
<1>6. CASE PeekHeader
  BY <1>4, <1>5, <1>6, PeekSound DEF PeekHeader, At
<1>7. CASE LoadFails
  BY <1>4, <1>7, LoadFailsSound DEF LoadFails, At
<1>8. CASE \E n \in 1 .. Len(units) : LoadConstructed(n)
  <2>1. PICK n \in 1 .. Len(units) : LoadConstructed(n)
    BY <1>8
  <2> QED
    BY <1>3, <2>1, LoadConstructedSound DEF LoadConstructed, Load, At
<1>9. CASE \E n \in 1 .. Len(units) : LoadPrimitive(n)
  <2>1. PICK n \in 1 .. Len(units) : LoadPrimitive(n)
    BY <1>9
  <2> QED
    BY <1>4, <1>5, <2>1, LoadPrimitiveSound DEF LoadPrimitive, Load, At
<1>10. CASE ReadContent
  BY <1>3, <1>4, <1>10, ReadContentSound DEF ReadContent, At
<1>11. CASE Ended \/ UNCHANGED loopVars
  BY <1>5, <1>11 DEF Ended, loopVars, SameInput
<1> QED
  BY <1>6, <1>7, <1>8, <1>9, <1>10, <1>11 DEF LoopStep, ReadNext

(* The loop over read_next() gets the complete units of the input one by   *)
(* one and in their order, ends when there are no more of them and nothing *)
(* is left, and fails only if something is left.                           *)
THEOREM UnitsStreamed == LoopSpec => ImplementsUnitStream
BY LoopInitRefines, LoopInitSound, LoopStepSound, LoopStepRefines, PTL
   DEF LoopSpec, ImplementsUnitStream, Stream_!Spec
=============================================================================
