---------------------------- MODULE Ber2BerProofs ----------------------------
(***************************************************************************)
(* The converters of xfsx/ber2ber.cc, for every forest.                    *)
(*                                                                         *)
(* ConvertersSound: whatever is missing from the input or too much in it,  *)
(* the catch-all root of the counters is not popped, and each open tag has *)
(* a writer whose position is what was written to it.                      *)
(*                                                                         *)
(* FormsSame: an input that is as encoded, or the beginning of it, becomes *)
(* the same forest in the other form, or the beginning of that.  Reading   *)
(* is a walk through the forest (see LevelsProofs).  The converters do not *)
(* see it: they have counters of octets and a stack of tags, and the proof *)
(* is that these are always the ones of the place the walk is at.          *)
(*                                                                         *)
(* UnbalancedRefused: Ber2Def accepts the first trees of a forest and      *)
(* nothing else.  It refuses an input that ends early because the walk is  *)
(* then inside of a tag, and one with a length that is too short because   *)
(* there is no place of the walk where that tag counted that much: it and  *)
(* the tags around it stay open until the end.                             *)
(***************************************************************************)
EXTENDS Ber2Ber, LevelsProofs

(***************************************************************************)
(* Inputs                                                                  *)
(***************************************************************************)
(* An input is a sequence of units with headers. *)
LEMMA InputTyped ==
  ASSUME NEW f \in AllForests, NEW us \in Inputs(f)
  PROVE  us \in Seq(EncodedUnit)
<1> DEFINE all == Units(f)
<1>1. all \in Seq(EncodedUnit)
  BY UnitsTyped
<1>2. \/ us \in {SubSeq(all, 1, n) : n \in 0 .. Len(all)}
      \/ us \in WithStray(all)
      \/ us \in WithShortLength(all)
  BY Zenon DEF Inputs
<1> HIDE DEF all
<1>3. CASE us \in {SubSeq(all, 1, n) : n \in 0 .. Len(all)}
  BY <1>1, <1>3
<1>4. CASE us \in WithStray(all)
  BY <1>1, <1>4, StrayTyped DEF WithStray
<1>5. CASE us \in WithShortLength(all)
  <2>1. PICK n \in DOMAIN all :
          all[n].length > 0 /\ us = [all EXCEPT ![n].length = @ - 1]
    BY <1>5, Zenon DEF WithShortLength
  <2> DEFINE u == all[n]
             m == u.length - 1
             v == SetLength(u, m)
  <2>2. n \in 1 .. Len(all) /\ u \in EncodedUnit
    BY <1>1
  <2>3. us = [all EXCEPT ![n] = v]
    BY <2>1, Zenon DEF SetLength
  <2> HIDE DEF u
  <2>4. u \in Unit /\ m \in Nat /\ u.tl > 0
    BY <2>1, <2>2, EncodedParts DEF u
  <2> HIDE DEF m
  <2>5. v \in Unit /\ v.tl = u.tl
    BY <2>4, HeaderChanges
  <2>6. v \in EncodedUnit
    BY <2>4, <2>5 DEF EncodedUnit
  <2> HIDE DEF v
  <2> QED
    BY <1>1, <2>3, <2>6
<1> QED
  BY <1>2, <1>3, <1>4, <1>5

(***************************************************************************)
(* Counters                                                                *)
(***************************************************************************)
CounterFacts ==
  /\ Rooted(lengthStack, writtenStack)
  /\ read = 0 => Len(lengthStack) = 1 /\ pc # "close"
  /\ read > 0 /\ target # "identity" => writtenStack[1] > 0
  /\ pc = "close" => target # "identity"

InputFacts ==
  /\ units \in Seq(EncodedUnit) /\ read \in 0 .. Len(units)
  /\ target \in Targets
  /\ pc \in {"read", "close", "done", "failed", "undefined"}

(* What the invariant says of the counters *)
LEMMA CountersAre ==
  ASSUME InputFacts
  PROVE  CounterFacts <=> /\ lengthStack \in Seq(Nat) /\ writtenStack \in Seq(Nat)
                          /\ RootKept /\ NotTheRoot
<1>1. ASSUME CounterFacts PROVE RootKept
  BY <1>1 DEF CounterFacts, RootKept, Rooted
<1>2. ASSUME CounterFacts PROVE NotTheRoot
  <2> SUFFICES ASSUME pc = "close", Len(lengthStack) = 1 PROVE ~Complete
    <3>1. Len(lengthStack) \in Nat /\ Len(lengthStack) >= 1
      BY <1>2 DEF CounterFacts, Rooted
    <3>2. Len(lengthStack) = 1 \/ Len(lengthStack) > 1
      BY <3>1
    <3> QED
      BY <3>2, Zenon DEF NotTheRoot
  <2>1. read > 0 /\ target # "identity"
    BY <1>2 DEF InputFacts, CounterFacts
  <2>2. writtenStack[1] > 0 /\ lengthStack[1] = 0 /\ Len(writtenStack) = 1
    BY <1>2, <2>1 DEF CounterFacts, Rooted
  <2>3. Last(lengthStack) = lengthStack[1] /\ Last(writtenStack) = writtenStack[1]
    BY <2>2 DEF Last
  <2> QED
    BY <2>2, <2>3 DEF Complete
<1>3. ASSUME lengthStack \in Seq(Nat), writtenStack \in Seq(Nat), RootKept
      PROVE  CounterFacts
  <2>1. Len(lengthStack) >= 1
    BY <1>3 DEF RootKept
  <2> QED
    BY <1>3, <2>1 DEF CounterFacts, RootKept, Rooted
<1>4. CounterFacts => lengthStack \in Seq(Nat) /\ writtenStack \in Seq(Nat)
  BY DEF CounterFacts, Rooted
<1> QED
  BY <1>1, <1>2, <1>3, <1>4

(* The unit that is read next *)
LEMMA NextFacts ==
  ASSUME InputFacts, NEW t, NEW u, Next(t, u)
  PROVE  /\ target = t /\ target' = target /\ units' = units /\ pc = "read"
         /\ read \in Nat /\ read' = read + 1 /\ read' \in 0 .. Len(units)
         /\ read' # 0 /\ u \in EncodedUnit
<1>1. /\ target = t /\ target' = target /\ units' = units /\ pc = "read"
      /\ read' = read + 1 /\ read < Len(units) /\ u = units[read + 1]
  BY DEF Next, input
<1>2. read \in Nat /\ read + 1 \in 1 .. Len(units) /\ Len(units) \in Nat
      /\ units \in Seq(EncodedUnit)
  BY <1>1 DEF InputFacts
<1> QED
  BY <1>1, <1>2

(* A unit is read, and its octets are counted. *)
LEMMA UnitCounted ==
  ASSUME InputFacts, CounterFacts, NEW t, NEW u, Next(t, u), t # "identity",
         NEW n \in Nat, n > 0, pc' \in {"close", "undefined"},
         \/ /\ writtenStack' = AddToTop(writtenStack, n)
            /\ lengthStack' = lengthStack
         \/ /\ writtenStack' = Append(AddToTop(writtenStack, n), 0)
            /\ lengthStack' = Append(lengthStack, u.length)
  PROVE  CounterFacts'
<1> DEFINE ws == AddToTop(writtenStack, n)
<1>1. /\ target = t /\ target' = target /\ read \in Nat /\ read' # 0
      /\ u.length \in Nat
  BY NextFacts, EncodedParts
<1>2. /\ Rooted(lengthStack, ws)
      /\ writtenStack[1] \in Nat /\ ws[1] \in Nat /\ ws[1] >= writtenStack[1]
      /\ Len(lengthStack) = 1 => ws[1] = writtenStack[1] + n
  BY AddKeeps DEF CounterFacts
<1>3. ws[1] > 0
  <2>1. CASE read = 0
    BY <2>1, <1>2 DEF CounterFacts
  <2>2. CASE read > 0
    BY <2>2, <1>1, <1>2 DEF CounterFacts
  <2> QED
    BY <1>1, <2>1, <2>2
<1> HIDE DEF ws
<1>4. CASE writtenStack' = ws /\ lengthStack' = lengthStack
  BY <1>1, <1>2, <1>3, <1>4 DEF CounterFacts, Rooted
<1>5. CASE writtenStack' = Append(ws, 0) /\ lengthStack' = Append(lengthStack, u.length)
  <2>1. Rooted(lengthStack', writtenStack') /\ writtenStack'[1] = ws[1]
    BY <1>1, <1>2, <1>5, PushKeeps
  <2> QED
    BY <1>1, <1>3, <2>1 DEF CounterFacts, Rooted
<1> QED
  BY <1>4, <1>5 DEF ws

(* The innermost definite tag is complete: it is not the root. *)
LEMMA EndCounted ==
  ASSUME InputFacts, CounterFacts, pc = "close", Complete, PopCounters,
         UNCHANGED <<target, read, pc>>
  PROVE  CounterFacts'
<1> DEFINE ls == Front(lengthStack)
           ws == Front(writtenStack)
           n  == Last(lengthStack)
<1>1. Len(lengthStack) > 1 /\ Rooted(lengthStack, writtenStack)
  BY CountersAre DEF NotTheRoot, CounterFacts
<1>2. Rooted(ls, ws) /\ ws[1] = writtenStack[1] /\ n \in Nat
  BY <1>1, PopKeeps
<1>3. lengthStack' = ls /\ writtenStack' = AddToTop(ws, n)
  BY Zenon DEF PopCounters
<1> HIDE DEF ls, ws, n
<1>4. /\ Rooted(lengthStack', writtenStack')
      /\ writtenStack[1] \in Nat /\ writtenStack'[1] \in Nat
      /\ writtenStack'[1] >= writtenStack[1]
  BY <1>2, <1>3, AddKeeps
<1>5. read # 0 /\ read \in Nat /\ target # "identity" /\ writtenStack[1] > 0
  BY DEF CounterFacts, InputFacts
<1> QED
  BY <1>4, <1>5 DEF CounterFacts, Rooted

(* The counters stay, and a unit was read before. *)
LEMMA CountersStay ==
  ASSUME InputFacts, CounterFacts, UNCHANGED <<target, counters>>,
         \/ UNCHANGED read /\ (pc' # "close" \/ pc = "close")
         \/ target = "identity" /\ read' # 0 /\ pc' # "close"
  PROVE  CounterFacts'
BY DEF CounterFacts, counters, Rooted

(***************************************************************************)
(* Levels                                                                  *)
(***************************************************************************)
LevelFacts ==
  /\ consStack \in Seq(Unit) /\ consTop \in 0 .. Len(consStack)
  /\ writerTop = consTop + 1 /\ InUse(writers, writerTop)

(* What the invariant says of the writers *)
LEMMA LevelsAre ==
  ASSUME LevelFacts
  PROVE  /\ writers \in Seq(Writer) /\ writerTop \in 1 .. Len(writers)
         /\ consStack \in Seq(Unit) /\ consTop \in 0 .. Len(consStack)
         /\ LevelsMatch
<1>1. /\ writers \in Seq(Writer) /\ writerTop \in 1 .. Len(writers)
      /\ EmptyAbove(writers, writerTop) /\ Counted(writers)
  BY InUseIs DEF LevelFacts
<1> QED
  BY <1>1 DEF LevelFacts, LevelsMatch

(* init_length() and init_indefinite() *)
LEMMA HeadersTyped ==
  ASSUME NEW u \in Unit, NEW n \in Nat
  PROVE  InitLength(u, n) \in Unit /\ InitIndefinite(u) \in Unit
<1>1. ASSUME NEW e \in BOOLEAN PROVE [u EXCEPT !.indefinite = e] \in Unit
  BY DEF Unit
<1>2. TRUE \in BOOLEAN /\ FALSE \in BOOLEAN /\ 0 \in Nat
  OBVIOUS
<1>3. InitLength(u, n) \in Unit
  <2> DEFINE o == [u EXCEPT !.indefinite = FALSE]
             p == SetLength(o, n)
  <2>1. InitLength(u, n) = SetTl(p, MinimalTl(n))
    BY Zenon DEF InitLength, SetLength, SetTl
  <2>2. o \in Unit
    BY <1>1, <1>2, Zenon
  <2> HIDE DEF o
  <2>3. p \in Unit
    BY <2>2, HeaderChanges
  <2> HIDE DEF p
  <2> QED
    BY <2>1, <2>3, MinimalTlNat, HeaderChanges
<1>4. InitIndefinite(u) \in Unit
  <2> DEFINE o == [u EXCEPT !.indefinite = TRUE]
             p == SetTl(o, MinimalTl(0))
  <2>1. InitIndefinite(u) = SetLength(p, 0)
    BY Zenon DEF InitIndefinite, SetLength, SetTl
  <2>2. o \in Unit
    BY <1>1, <1>2, Zenon
  <2> HIDE DEF o
  <2>3. p \in Unit
    BY <1>2, <2>2, MinimalTlNat, HeaderChanges
  <2> HIDE DEF p
  <2> QED
    BY <1>2, <2>1, <2>3, HeaderChanges
<1> QED
  BY <1>3, <1>4

(* A unit is written to the output or to the innermost level. *)
LEMMA UnitWritten ==
  ASSUME LevelFacts, NEW i \in {1, writerTop}, NEW u \in Unit,
         writers' = WriteTo(writers, i, u), UNCHANGED levels
  PROVE  LevelFacts'
<1>1. writerTop \in 1 .. writerTop /\ 1 \in 1 .. writerTop /\ InUse(writers, writerTop)
  BY DEF LevelFacts
<1>2. InUse(writers', writerTop)
  BY <1>1, WriteToKeeps
<1> QED
  BY <1>2 DEF LevelFacts, levels

(* The innermost constructed tag is written, and its level is left. *)
LEMMA LevelLeft ==
  ASSUME LevelFacts, consTop > 0, PopConstructed
  PROVE  LevelFacts'
<1> DEFINE n      == writers[writerTop].pos
           header == InitLength(consStack[consTop], n)
<1>1. /\ consTop \in 1 .. Len(consStack) /\ consTop \in Nat
      /\ writerTop = consTop + 1 /\ InUse(writers, writerTop)
      /\ consStack \in Seq(Unit) /\ Len(consStack) \in Nat
  BY DEF LevelFacts
<1>2. n \in Nat
  <2>1. Right(writers[writerTop])
    BY <1>1 DEF InUse
  <2> QED
    BY <2>1, RightParts
<1>3. consStack[consTop] \in Unit
  BY <1>1
<1>4. /\ writers' = Pour(writers, writerTop, header)
      /\ writerTop' = writerTop - 1 /\ consTop' = consTop - 1
      /\ consStack' = [consStack EXCEPT ![consTop] = header]
  BY Zenon DEF PopConstructed
<1> HIDE DEF n
<1>5. header \in Unit
  BY <1>2, <1>3, HeadersTyped
<1> HIDE DEF header
<1>6. InUse(writers', writerTop')
  BY <1>1, <1>4, <1>5, PourKeeps
<1>7. consStack' \in Seq(Unit) /\ Len(consStack') = Len(consStack)
  BY <1>1, <1>4, <1>5
<1>8. consTop' \in 0 .. Len(consStack') /\ writerTop' = consTop' + 1
  BY <1>1, <1>4, <1>7
<1> QED
  BY <1>6, <1>7, <1>8 DEF LevelFacts

(* A constructed tag gets a level of its own. *)
LEMMA LevelEntered ==
  ASSUME LevelFacts, NEW u \in Unit, consStack' = PutAt(consStack, consTop + 1, u),
         consTop' = consTop + 1, writers' = WithLevel(writers, writerTop),
         writerTop' = writerTop + 1
  PROVE  LevelFacts'
<1>1. /\ consTop \in 0 .. Len(consStack) /\ writerTop = consTop + 1
      /\ InUse(writers, writerTop) /\ consStack \in Seq(Unit)
  BY DEF LevelFacts
<1>2. InUse(writers', writerTop')
  BY <1>1, WithLevelKeeps
<1>3. consStack' \in Seq(Unit) /\ consTop' \in 0 .. Len(consStack')
  <2>1. CASE consTop + 1 > Len(consStack)
    BY <1>1, <2>1 DEF PutAt
  <2>2. CASE ~(consTop + 1 > Len(consStack))
    BY <1>1, <2>2 DEF PutAt
  <2> QED
    BY <2>1, <2>2
<1> QED
  BY <1>1, <1>2, <1>3 DEF LevelFacts

(* Nothing is written. *)
LEMMA LevelsStay ==
  ASSUME LevelFacts, UNCHANGED <<levels, writers>>
  PROVE  LevelFacts'
BY DEF LevelFacts, levels, InUse

(***************************************************************************)
(* The theorem                                                             *)
(***************************************************************************)
Facts == InputFacts /\ CounterFacts /\ LevelFacts

(* Reading goes on with inputs as they are. *)
LEMMA InputStays ==
  ASSUME InputFacts,
         \/ \E t, u : Next(t, u)
         \/ UNCHANGED <<input, read>>,
         pc' \in {"read", "close", "done", "failed", "undefined"}
  PROVE  InputFacts'
<1>1. CASE \E t, u : Next(t, u)
  <2>1. PICK t, u : Next(t, u)
    BY <1>1
  <2> QED
    BY <2>1, NextFacts DEF InputFacts
<1>2. CASE UNCHANGED <<input, read>>
  BY <1>2 DEF InputFacts, input
<1> QED
  BY <1>1, <1>2

(* write_identity() and write_indefinite() keep the counters and the writer. *)
LEMMA CopiesKeep ==
  ASSUME Facts, NEW u,
         Copy(u) \/ CopyPrimitive(u) \/ CopyIndefinite(u) \/ OpenDefinite(u)
  PROVE  Facts'
<1>1. PICK t : Next(t, u)
  BY Zenon DEF Copy, CopyPrimitive, CopyIndefinite, OpenDefinite
<1>2. u \in EncodedUnit /\ u \in Unit /\ read' # 0 /\ pc = "read" /\ target' = target
  BY <1>1, NextFacts, EncodedParts DEF Facts
<1>3. pc' \in {"read", "close"}
  BY <1>2 DEF Copy, CopyPrimitive, CopyIndefinite, OpenDefinite
<1>4. InputFacts'
  BY <1>1, <1>3, InputStays DEF Facts
<1>5. LevelFacts'
  <2>1. InitIndefinite(u) \in Unit
    <3>1. 0 \in Nat
      OBVIOUS
    <3> QED
      BY <1>2, <3>1, HeadersTyped
  <2>2. /\ UNCHANGED levels
        /\ \E v \in Unit : writers' = WriteTo(writers, 1, v)
    BY <1>2, <2>1, Zenon
       DEF Copy, CopyPrimitive, CopyIndefinite, OpenDefinite
  <2>3. 1 \in {1, writerTop}
    OBVIOUS
  <2> QED
    BY <2>2, <2>3, UnitWritten, Zenon DEF Facts
<1>6. CounterFacts'
  <2>1. CASE Copy(u)
    <3>1. target = "identity" /\ UNCHANGED <<counters, pc>>
      BY <2>1 DEF Copy, Next
    <3> QED
      BY <1>2, <3>1, CountersStay DEF Facts
  <2>2. CASE CopyPrimitive(u)
    <3>1. /\ Next("indefinite", u) /\ pc' = "close" /\ lengthStack' = lengthStack
          /\ writtenStack' = AddToTop(writtenStack, u.tl + u.length)
      BY <2>2 DEF CopyPrimitive
    <3> QED
      BY <1>2, <3>1, OctetsOf, UnitCounted DEF Facts
  <2>3. CASE CopyIndefinite(u)
    <3>1. /\ Next("indefinite", u) /\ pc' = "close" /\ lengthStack' = lengthStack
          /\ writtenStack' = AddToTop(writtenStack, u.tl)
      BY <2>3 DEF CopyIndefinite
    <3> QED
      BY <1>2, <3>1, OctetsOf, UnitCounted DEF Facts
  <2>4. CASE OpenDefinite(u)
    <3>1. /\ Next("indefinite", u) /\ pc' = "close"
          /\ lengthStack' = Append(lengthStack, u.length)
          /\ writtenStack' = Append(AddToTop(writtenStack, u.tl), 0)
      BY <2>4 DEF OpenDefinite
    <3> QED
      BY <1>2, <3>1, OctetsOf, UnitCounted DEF Facts
  <2> QED
    BY <2>1, <2>2, <2>3, <2>4
<1> QED
  BY <1>4, <1>5, <1>6 DEF Facts

(* Ber2Def keeps the counters and the levels when it reads a unit. *)
LEMMA UnitsKeep ==
  ASSUME Facts, NEW u, WritePrimitive(u) \/ WriteEoc(u) \/ WriteConstructed(u)
  PROVE  Facts'
<1>1. Next("definite", u)
  BY Zenon DEF WritePrimitive, WriteEoc, WriteConstructed
<1>2. u \in EncodedUnit /\ u \in Unit /\ read' # 0 /\ target' = target
  BY <1>1, NextFacts, EncodedParts DEF Facts
<1>3. pc' \in {"close", "undefined"}
  BY DEF WritePrimitive, WriteEoc, WriteConstructed, NoTagToPop
<1>4. InputFacts'
  BY <1>1, <1>3, InputStays DEF Facts
<1>5. LevelFacts'
  <2>1. CASE WritePrimitive(u)
    <3>1. writers' = WriteTo(writers, writerTop, u) /\ UNCHANGED levels
      BY <2>1 DEF WritePrimitive
    <3> QED
      BY <1>2, <3>1, UnitWritten DEF Facts
  <2>2. CASE WriteEoc(u)
    <3>1. (consTop > 0 /\ PopConstructed) \/ UNCHANGED <<levels, writers>>
      BY <2>2, Zenon DEF WriteEoc, NoTagToPop
    <3> QED
      BY <3>1, LevelLeft, LevelsStay DEF Facts
  <2>3. CASE WriteConstructed(u)
    <3>1. /\ consStack' = PutAt(consStack, consTop + 1, u) /\ consTop' = consTop + 1
          /\ writers' = WithLevel(writers, writerTop) /\ writerTop' = writerTop + 1
      BY <2>3, Zenon DEF WriteConstructed
    <3> QED
      BY <1>2, <3>1, LevelEntered DEF Facts
  <2> QED
    BY <2>1, <2>2, <2>3
<1>6. CounterFacts'
  <2>1. CASE WritePrimitive(u) \/ WriteEoc(u)
    <3>1. /\ lengthStack' = lengthStack
          /\ writtenStack' = AddToTop(writtenStack, u.tl + u.length)
      BY <2>1, Zenon DEF WritePrimitive, WriteEoc
    <3> QED
      BY <1>1, <1>2, <1>3, <3>1, OctetsOf, UnitCounted DEF Facts
  <2>2. CASE WriteConstructed(u)
    <3>1. \/ /\ lengthStack' = lengthStack
             /\ writtenStack' = AddToTop(writtenStack, u.tl)
          \/ /\ lengthStack' = Append(lengthStack, u.length)
             /\ writtenStack' = Append(AddToTop(writtenStack, u.tl), 0)
      BY <2>2, Zenon DEF WriteConstructed, CountHeader
    <3> QED
      BY <1>1, <1>2, <1>3, <3>1, OctetsOf, UnitCounted DEF Facts
  <2> QED
    BY <2>1, <2>2
<1> QED
  BY <1>4, <1>5, <1>6 DEF Facts

(* So do the ends of definite tags, and the end of the input. *)
LEMMA EndsKeep ==
  ASSUME Facts, CloseAsIndefinite \/ CloseAsDefinite \/ NothingToClose \/ End
  PROVE  Facts'
<1>1. /\ UNCHANGED <<input, read>> /\ UNCHANGED target
      /\ pc' \in {"read", "close", "done", "failed", "undefined"}
  BY DEF CloseAsIndefinite, CloseAsDefinite, NothingToClose, End, NoTagToPop,
         input, Facts, InputFacts
<1>2. InputFacts'
  BY <1>1, InputStays DEF Facts
<1>3. CASE CloseAsIndefinite
  <2>1. /\ pc = "close" /\ Complete /\ PopCounters /\ UNCHANGED <<levels, pc>>
        /\ writers' = WriteTo(writers, 1, Eoc)
    BY <1>3, Zenon DEF CloseAsIndefinite
  <2>2. CounterFacts'
    BY <1>1, <2>1, EndCounted DEF Facts
  <2>3. LevelFacts'
    BY <2>1, EocTyped, UnitWritten DEF Facts
  <2> QED
    BY <1>2, <2>2, <2>3 DEF Facts
<1>4. CASE CloseAsDefinite
  <2>1. CASE consTop > 0 /\ PopConstructed /\ PopCounters /\ UNCHANGED pc
    <3>1. pc = "close" /\ Complete
      BY <1>4, Zenon DEF CloseAsDefinite
    <3>2. CounterFacts'
      BY <1>1, <2>1, <3>1, EndCounted DEF Facts
    <3>3. LevelFacts'
      BY <2>1, LevelLeft DEF Facts
    <3> QED
      BY <1>2, <3>2, <3>3 DEF Facts
  <2>2. CASE NoTagToPop /\ UNCHANGED counters
    <3>1. pc' = "undefined" /\ UNCHANGED <<levels, writers>>
      BY <2>2, Zenon DEF NoTagToPop
    <3>2. CounterFacts'
      BY <1>1, <2>2, <3>1, CountersStay DEF Facts
    <3>3. LevelFacts'
      BY <3>1, LevelsStay DEF Facts
    <3> QED
      BY <1>2, <3>2, <3>3 DEF Facts
  <2> QED
    BY <1>4, <2>1, <2>2, Zenon DEF CloseAsDefinite
<1>5. CASE NothingToClose \/ End
  <2>1. UNCHANGED <<counters, levels, writers>> /\ pc' # "close"
    BY <1>5 DEF NothingToClose, End
  <2>2. CounterFacts'
    BY <1>1, <2>1, CountersStay DEF Facts
  <2>3. LevelFacts'
    BY <2>1, LevelsStay DEF Facts
  <2> QED
    BY <1>2, <2>2, <2>3 DEF Facts
<1> QED
  BY <1>3, <1>4, <1>5

(* Whatever is stuttered over *)
LEMMA NothingKeeps ==
  ASSUME Facts, UNCHANGED vars
  PROVE  Facts'
<1>1. /\ UNCHANGED <<input, read>> /\ UNCHANGED <<counters, levels, writers>>
      /\ UNCHANGED target /\ UNCHANGED pc
  BY Zenon DEF vars, input
<1>2. InputFacts'
  BY <1>1 DEF Facts, InputFacts, input
<1>3. CounterFacts'
  BY <1>1, CountersStay DEF Facts
<1>4. LevelFacts'
  BY <1>1, LevelsStay DEF Facts
<1> QED
  BY <1>2, <1>3, <1>4 DEF Facts

(* No counter is there before a unit is read, and one writer. *)
LEMMA InitFacts ==
  ASSUME Init
  PROVE  Facts
<1>1. units \in Seq(EncodedUnit)
  BY InputForest, InputTyped, Zenon DEF Init
<1>2. /\ target \in Targets /\ read = 0 /\ lengthStack = <<0>>
      /\ writtenStack = <<0>> /\ consStack = << >> /\ consTop = 0
      /\ writers = <<EmptyWriter>> /\ writerTop = 1 /\ pc = "read"
  BY DEF Init
<1>3. InputFacts
  BY <1>1, <1>2 DEF InputFacts
<1>4. CounterFacts
  <2>1. Rooted(<<0>>, <<0>>)
    BY DEF Rooted
  <2>2. Len(lengthStack) = 1
    BY <1>2
  <2> QED
    BY <1>2, <2>1, <2>2 DEF CounterFacts
<1>5. LevelFacts
  <2>1. InUse(<<EmptyWriter>>, 1)
    <3>1. Right(EmptyWriter) /\ EmptyWriter \in Writer
      BY WritersRight, RightParts
    <3> QED
      BY <3>1 DEF InUse
  <2>2. << >> \in Seq(Unit) /\ 0 \in 0 .. Len(<< >>) /\ 1 = 0 + 1
    OBVIOUS
  <2> QED
    BY <1>2, <2>1, <2>2 DEF LevelFacts
<1> QED
  BY <1>3, <1>4, <1>5 DEF Facts

(* The catch-all root is never popped - assert(length_stack.size() > 1)    *)
(* holds - and each open tag has a writer that is counted right, in every  *)
(* state, for every forest and every one of its encodings that is cut off, *)
(* has an end-of-content unit too many or a length that is too short       *)
(* (ber2ber.cc:40-290).                                                    *)
THEOREM ConvertersSound == Spec => []IInv
<1>1. Init => Facts
  BY InitFacts
<1>2. Facts /\ [Step \/ (Ended /\ UNCHANGED vars)]_vars => Facts'
  <2> SUFFICES ASSUME Facts, [Step \/ (Ended /\ UNCHANGED vars)]_vars
               PROVE  Facts'
    OBVIOUS
  <2>1. ASSUME NEW u,
               Copy(u) \/ CopyPrimitive(u) \/ CopyIndefinite(u) \/ OpenDefinite(u)
        PROVE  Facts'
    BY <2>1, CopiesKeep
  <2>2. ASSUME NEW u, WritePrimitive(u) \/ WriteEoc(u) \/ WriteConstructed(u)
        PROVE  Facts'
    BY <2>2, UnitsKeep
  <2>3. CASE CloseAsIndefinite \/ CloseAsDefinite \/ NothingToClose \/ End
    BY <2>3, EndsKeep
  <2>4. CASE UNCHANGED vars
    BY <2>4, NothingKeeps
  <2> QED
    BY <2>1, <2>2, <2>3, <2>4 DEF Step
<1>3. Facts => IInv
  <2> SUFFICES ASSUME Facts PROVE IInv
    OBVIOUS
  <2>1. units \in Seq(Unit)
    <3>1. EncodedUnit \subseteq Unit
      BY DEF EncodedUnit
    <3> QED
      BY <3>1 DEF Facts, InputFacts
  <2>2. /\ lengthStack \in Seq(Nat) /\ writtenStack \in Seq(Nat)
        /\ RootKept /\ NotTheRoot
    BY CountersAre DEF Facts
  <2>3. /\ writers \in Seq(Writer) /\ writerTop \in 1 .. Len(writers)
        /\ consStack \in Seq(Unit) /\ consTop \in 0 .. Len(consStack)
        /\ LevelsMatch
    BY LevelsAre DEF Facts
  <2> QED
    BY <2>1, <2>2, <2>3, Zenon DEF IInv, TypeOK, Facts, InputFacts
<1> QED
  BY <1>1, <1>2, <1>3, PTL DEF Spec

(***************************************************************************)
(* Headers of the other forms                                              *)
(***************************************************************************)
(* What init_length() and init_indefinite() make of a header *)
LEMMA RecordChanges ==
  ASSUME NEW s, NEW c, NEW e, NEW t, NEW l, NEW u, u = Record(s, c, e, t, l)
  PROVE  /\ \A n : InitLength(u, n) = Record(s, c, No, MinimalTl(n), n)
         /\ InitIndefinite(u) = Record(s, c, Yes, MinimalTl(0), 0)
<1>1. ASSUME NEW n, NEW m, NEW d
      PROVE  /\ SetTl(SetLength(SetForm(u, d), n), m) = Record(s, c, d, m, n)
             /\ SetLength(SetTl(SetForm(u, d), m), n) = Record(s, c, d, m, n)
  <2> DEFINE v == SetForm(u, d)
             w == SetLength(v, n)
             x == SetTl(v, m)
  <2>1. v = Record(s, c, d, t, l)
    BY RecordParts
  <2> HIDE DEF v
  <2>2. w = Record(s, c, d, t, n) /\ x = Record(s, c, d, m, l)
    BY <2>1, RecordParts
  <2> HIDE DEF w, x
  <2>3. SetTl(w, m) = Record(s, c, d, m, n) /\ SetLength(x, n) = Record(s, c, d, m, n)
    BY <2>2, RecordParts
  <2> QED
    BY <2>3 DEF v, w, x
<1>3. ASSUME NEW n PROVE InitLength(u, n) = Record(s, c, No, MinimalTl(n), n)
  <2>1. InitLength(u, n) = SetTl(SetLength(SetForm(u, No), n), MinimalTl(n))
    BY Zenon DEF InitLength, SetForm, SetLength, SetTl, No
  <2> QED
    BY <2>1, <1>1, Zenon
<1>4. InitIndefinite(u) = Record(s, c, Yes, MinimalTl(0), 0)
  <2>1. InitIndefinite(u) = SetLength(SetTl(SetForm(u, Yes), MinimalTl(0)), 0)
    BY Zenon DEF InitIndefinite, SetForm, SetLength, SetTl, Yes
  <2> QED
    BY <2>1, <1>1, Zenon
<1> QED
  BY <1>3, <1>4, Zenon

(* The headers of the same forest in another form are those that the       *)
(* converters make of the ones they read.                                  *)
LEMMA NewHeads ==
  ASSUME NEW f \in AllForests, NEW i \in 1 .. Len(f)
  PROVE  LET g == AsIndefinite(f)
             h == AsDefinite(f)
         IN  /\ i \in 1 .. Len(g) /\ i \in 1 .. Len(h)
             /\ f[i].form # "definite" => HeadOf(g, i) = HeadOf(f, i)
             /\ f[i].form = "definite" => HeadOf(g, i) = InitIndefinite(HeadOf(f, i))
             /\ f[i].form = "primitive" => HeadOf(h, i) = HeadOf(f, i)
             /\ f[i].form # "primitive" =>
                  HeadOf(h, i) = InitLength(HeadOf(f, i), Inner(h)[i])
<1> DEFINE g == AsIndefinite(f)
           h == AsDefinite(f)
<1>1. /\ g \in AllForests /\ Reencodes(f, g, "indefinite")
      /\ h \in AllForests /\ Reencodes(f, h, "definite")
  BY Reencoded
<1> HIDE DEF g, h
<1>2. i \in 1 .. Len(g) /\ i \in 1 .. Len(h)
  BY <1>1 DEF Reencodes
<1>3. f[i].form \in {"primitive", "definite", "indefinite"}
  BY HeadIs
<1>4. CASE f[i].form = "primitive"
  <2>1. g[i] = f[i] /\ h[i] = f[i]
    BY <1>1, <1>4 DEF Reencodes
  <2> QED
    BY <1>1, <1>2, <1>4, <2>1, HeadIs DEF g, h
<1>5. CASE f[i].form # "primitive"
  <2>1. g[i].form = "indefinite" /\ g[i].extra = 0 /\ h[i].form = "definite" /\ h[i].extra = 0
    BY <1>1, <1>5 DEF Reencodes
  <2>2. /\ HeadOf(g, i) = Record("constructed", No, Yes, MinimalTl(0) + 0, 0)
        /\ HeadOf(h, i) = Record("constructed", No, No, MinimalTl(Inner(h)[i]) + 0,
                                 Inner(h)[i])
    BY <1>1, <1>2, <2>1, HeadIs
  <2>3. Inner(h)[i] \in Nat /\ 0 \in Nat
    BY <1>1, <1>2, HeadTyped
  <2>4. MinimalTl(0) + 0 = MinimalTl(0) /\ MinimalTl(Inner(h)[i]) + 0 = MinimalTl(Inner(h)[i])
    <3>1. MinimalTl(0) \in Nat /\ MinimalTl(Inner(h)[i]) \in Nat
      BY <2>3, MinimalTlNat
    <3> HIDE DEF h
    <3> QED
      BY <3>1
  <2>5. CASE f[i].form = "definite"
    <3> DEFINE u == HeadOf(f, i)
               n == Inner(h)[i]
    <3>1. u = Record("constructed", No, No, MinimalTl(Inner(f)[i]) + f[i].extra, Inner(f)[i])
      BY <2>5, HeadIs
    <3> HIDE DEF u
    <3>2. /\ InitIndefinite(u) = Record("constructed", No, Yes, MinimalTl(0), 0)
          /\ InitLength(u, n) = Record("constructed", No, No, MinimalTl(n), n)
      BY <3>1, RecordChanges
    <3> QED
      BY <1>2, <2>2, <2>4, <2>5, <3>2 DEF g, h, u
  <2>6. CASE f[i].form = "indefinite"
    <3> DEFINE u == HeadOf(f, i)
               n == Inner(h)[i]
    <3>1. u = Record("constructed", No, Yes, MinimalTl(0) + 0, 0)
      BY <2>6, HeadIs, NoExtra
    <3> HIDE DEF u
    <3>2. InitLength(u, n) = Record("constructed", No, No, MinimalTl(n), n)
      BY <3>1, RecordChanges
    <3> QED
      BY <1>2, <2>2, <2>4, <2>6, <3>1, <3>2 DEF g, h, u
  <2> QED
    BY <1>3, <1>5, <2>5, <2>6
<1> QED
  BY <1>4, <1>5

(***************************************************************************)
(* Levels of a walk                                                        *)
(***************************************************************************)
(* The units of the forest with definite lengths *)
NewUnits(f) == Units(AsDefinite(f))

(* There is one for each node: its header, with the length of what follows *)
(* up to the last node inside of it.                                       *)
LEMMA NewUnitsAre ==
  ASSUME NEW f \in AllForests
  PROVE  LET H == NewUnits(f)
         IN  /\ H \in Seq(EncodedUnit) /\ H \in Seq(Unit) /\ Len(H) = Len(f)
             /\ \A i \in 1 .. Len(f) :
                  /\ f[i].form = "primitive" => H[i] = HeadOf(f, i)
                  /\ f[i].form # "primitive" =>
                       H[i] = InitLength(HeadOf(f, i),
                                         SpanOf(SubSeq(H, i + 1, LastOf(f, i))))
<1> DEFINE g == AsDefinite(f)
           H == Units(g)
<1>1. g \in AllForests /\ Reencodes(f, g, "definite")
  BY Reencoded
<1>2. \A i \in 1 .. Len(f) : HeadOf(g, i) = HeadOf(g, i) /\ LastOf(g, i) = LastOf(f, i)
  BY <1>1, SameWalk
<1>3. \A i \in 1 .. Len(f) :
        /\ f[i].form = "primitive" => HeadOf(g, i) = HeadOf(f, i)
        /\ f[i].form # "primitive" => HeadOf(g, i) = InitLength(HeadOf(f, i), Inner(g)[i])
  BY NewHeads
<1> HIDE DEF g
<1>4. Len(g) = Len(f) /\ \A i \in 1 .. Len(g) : g[i].form # "indefinite"
  <2>1. Len(g) = Len(f)
    BY <1>1 DEF Reencodes
  <2>2. ASSUME NEW i \in 1 .. Len(f) PROVE g[i].form # "indefinite"
    <3>1. CASE f[i].form = "primitive"
      BY <1>1, <3>1 DEF Reencodes
    <3>2. CASE f[i].form # "primitive"
      BY <1>1, <3>2 DEF Reencodes
    <3> QED
      BY <3>1, <3>2
  <2> QED
    BY <2>1, <2>2
<1>5. /\ H \in Seq(EncodedUnit) /\ H \in Seq(Unit) /\ Len(H) = Len(f)
      /\ \A i \in 1 .. Len(f) : H[i] = HeadOf(g, i)
  BY <1>1, <1>4, DefiniteUnits
<1>6. ASSUME NEW i \in 1 .. Len(f), f[i].form # "primitive"
      PROVE  H[i] = InitLength(HeadOf(f, i), SpanOf(SubSeq(H, i + 1, LastOf(f, i))))
  <2>1. g[i].form # "primitive" /\ i \in 1 .. Len(g)
    BY <1>1, <1>4, <1>6 DEF Reencodes
  <2>2. SpanOf(SubSeq(H, i + 1, LastOf(g, i))) = Inner(g)[i]
    BY <1>1, <1>4, <2>1, DefiniteInside
  <2> HIDE DEF H
  <2> QED
    BY <1>2, <1>3, <1>5, <1>6, <2>2
<1> HIDE DEF H
<1>7. \A i \in 1 .. Len(f) : f[i].form = "primitive" => H[i] = HeadOf(f, i)
  BY <1>3, <1>5
<1>8. NewUnits(f) = H
  BY DEF NewUnits, H, g
<1> QED
  BY <1>5, <1>6, <1>7, <1>8

(* The open tags o are on the stack, and each level holds the units of the *)
(* new form behind the header of its tag: up to the next open tag, or up   *)
(* to node i.                                                              *)
Layered(f, i, o, cs, top, ws) ==
  /\ top = Len(o)
  /\ \A n \in 1 .. Len(o) : cs[n] = HeadOf(f, o[n])
  /\ \A n \in 1 .. Len(o) : ws[n].items = SubSeq(NewUnits(f), From(o, n) + 1, o[n] - 1)
  /\ ws[Len(o) + 1].items = SubSeq(NewUnits(f), From(o, Len(o) + 1) + 1, i)

(* A primitive unit is written to the innermost level. *)
LEMMA LayerWrite ==
  ASSUME NEW f \in AllForests, NEW i, NEW b, NEW o, NEW d, Place(f, i, b, o, d),
         i < Len(f), f[i + 1].form = "primitive",
         NEW cs, NEW top, NEW ws, Layered(f, i, o, cs, top, ws), InUse(ws, top + 1)
  PROVE  Layered(f, i + 1, o, cs, top, WriteTo(ws, top + 1, HeadOf(f, i + 1)))
<1> DEFINE H  == NewUnits(f)
           k  == i + 1
           u  == HeadOf(f, k)
           m  == Len(o)
           vs == WriteTo(ws, m + 1, u)
           a  == From(o, m + 1)
<1>1. /\ top = m /\ m \in Nat /\ i \in Nat /\ k \in 1 .. Len(f) /\ Len(f) \in Nat
      /\ \A n \in 1 .. m : cs[n] = HeadOf(f, o[n])
      /\ \A n \in 1 .. m : ws[n].items = SubSeq(H, From(o, n) + 1, o[n] - 1)
      /\ ws[m + 1].items = SubSeq(H, a + 1, i)
  BY PlaceTyped, NodesTyped DEF Layered
<1>2. m + 1 \in 1 .. (m + 1) /\ \A n \in 1 .. m : n \in 1 .. (m + 1) /\ n # m + 1
  BY <1>1
<1>3. /\ vs[m + 1].items = Append(ws[m + 1].items, u)
      /\ \A n \in 1 .. m : vs[n] = ws[n]
  <2> DEFINE t == m + 1
  <2>1. InUse(ws, t) /\ t - 1 = m
    BY <1>1
  <2> HIDE DEF t, u
  <2>2. /\ WriteTo(ws, t, u)[t].items = Append(ws[t].items, u)
        /\ \A n \in 1 .. (t - 1) : WriteTo(ws, t, u)[n] = ws[n]
    BY <2>1, ItemsWritten
  <2> QED
    BY <2>1, <2>2 DEF t
<1>4. a \in Nat /\ a <= i
  BY <1>2, FromTyped
<1>5. H \in Seq(Unit) /\ Len(H) = Len(f) /\ H[k] = u
  BY <1>1, NewUnitsAre
<1> HIDE DEF H, u, a, vs, m
<1>6. Append(SubSeq(H, a + 1, i), u) = SubSeq(H, a + 1, k)
  <2>1. 1 <= a + 1 /\ a + 1 <= i + 1 /\ i + 1 <= Len(H) /\ a + 1 \in Nat
    BY <1>1, <1>4, <1>5
  <2> QED
    BY <1>1, <1>5, <2>1, SubSeqAppend
<1>7. vs[m + 1].items = SubSeq(H, a + 1, k)
  BY <1>1, <1>3, <1>6
<1>8. \A n \in 1 .. m : vs[n].items = SubSeq(H, From(o, n) + 1, o[n] - 1)
  BY <1>1, <1>3
<1>9. Layered(f, k, o, cs, top, vs)
  BY <1>1, <1>7, <1>8 DEF Layered, H, m, a
<1> QED
  BY <1>1, <1>9 DEF vs, u

(* A constructed tag is put on the stack, and gets a level. *)
LEMMA LayerEnter ==
  ASSUME NEW f \in AllForests, NEW i, NEW b, NEW o, NEW d, Place(f, i, b, o, d),
         i < Len(f), f[i + 1].form # "primitive",
         NEW cs \in Seq(Unit), NEW top \in 0 .. Len(cs), NEW ws,
         Layered(f, i, o, cs, top, ws), InUse(ws, top + 1)
  PROVE  Layered(f, i + 1, Append(o, i + 1), PutAt(cs, top + 1, HeadOf(f, i + 1)),
                 top + 1, WithLevel(ws, top + 1))
<1> DEFINE H  == NewUnits(f)
           k  == i + 1
           u  == HeadOf(f, k)
           m  == Len(o)
           e  == Append(o, k)
           vs == WithLevel(ws, m + 1)
           ds == PutAt(cs, m + 1, u)
<1>1. /\ top = m /\ m \in Nat /\ i \in Nat /\ k \in 1 .. Len(f) /\ Len(f) \in Nat
      /\ o \in Seq(Nat)
      /\ \A n \in 1 .. m : cs[n] = HeadOf(f, o[n])
      /\ \A n \in 1 .. m : ws[n].items = SubSeq(H, From(o, n) + 1, o[n] - 1)
      /\ ws[m + 1].items = SubSeq(H, From(o, m + 1) + 1, i)
  BY PlaceTyped, NodesTyped DEF Layered
<1>2. e \in Seq(Nat) /\ Len(e) = m + 1 /\ e[m + 1] = k /\ \A n \in 1 .. m : e[n] = o[n]
  BY <1>1
<1>3. vs[m + 2].items = << >> /\ \A n \in 1 .. (m + 1) : vs[n] = ws[n]
  <2> DEFINE t == m + 1
  <2>1. InUse(ws, t) /\ t + 1 = m + 2
    BY <1>1
  <2> HIDE DEF t
  <2>2. /\ WithLevel(ws, t)[t + 1].items = << >>
        /\ \A n \in 1 .. t : WithLevel(ws, t)[n] = ws[n]
    BY <2>1, ItemsEntered
  <2> QED
    BY <2>1, <2>2 DEF t
<1>4. ds[m + 1] = u /\ \A n \in 1 .. m : ds[n] = cs[n]
  <2>1. CASE m + 1 > Len(cs)
    <3>1. m = Len(cs) /\ ds = Append(cs, u)
      BY <1>1, <2>1 DEF PutAt
    <3> HIDE DEF u
    <3> QED
      BY <3>1
  <2>2. CASE ~(m + 1 > Len(cs))
    <3>1. ds = [cs EXCEPT ![m + 1] = u] /\ m + 1 \in DOMAIN cs
      BY <1>1, <2>2 DEF PutAt
    <3>2. \A n \in 1 .. m : n # m + 1 /\ n \in DOMAIN cs
      BY <1>1, <2>2
    <3> HIDE DEF ds, u
    <3> QED
      BY <3>1, <3>2
  <2> QED
    BY <2>1, <2>2
<1>5. H \in Seq(Unit) /\ Len(H) = Len(f)
  BY NewUnitsAre
<1> HIDE DEF H, u, vs, m, e, ds
<1>6. \A n \in 1 .. (m + 1) : From(e, n) = From(o, n)
  <2>1. \A n \in 1 .. (m + 1) : n = 1 \/ n - 1 \in 1 .. m
    BY <1>1
  <2> QED
    BY <1>2, <2>1 DEF From
<1>7. From(e, m + 2) = k
  <2> DEFINE t == m + 2
  <2>1. t # 1 /\ t - 1 = m + 1
    BY <1>1
  <2> HIDE DEF t
  <2>2. From(e, t) = e[m + 1]
    BY <2>1 DEF From
  <2> QED
    BY <1>2, <2>2 DEF t
<1>8. SubSeq(H, k + 1, k) = << >>
  BY <1>1, <1>5
<1>9. ASSUME NEW n \in 1 .. (m + 1)
      PROVE  /\ ds[n] = HeadOf(f, e[n])
             /\ vs[n].items = SubSeq(H, From(e, n) + 1, e[n] - 1)
  <2>1. CASE n \in 1 .. m
    BY <1>1, <1>2, <1>3, <1>4, <1>6, <2>1
  <2>2. CASE n = m + 1
    <3>1. k - 1 = i
      BY <1>1
    <3> QED
      BY <1>1, <1>2, <1>3, <1>4, <1>6, <2>2, <3>1 DEF u
  <2> QED
    BY <1>1, <2>1, <2>2
<1>10. Layered(f, k, e, ds, m + 1, vs)
  <2>1. (m + 1) + 1 = m + 2
    BY <1>1
  <2> QED
    BY <1>2, <1>3, <1>7, <1>8, <1>9, <2>1 DEF Layered, H
<1> QED
  BY <1>1, <1>10 DEF e, ds, vs, u

(* A level is left: its header gets the octets of the units in it.         *)
LEMMA LayerLeave ==
  ASSUME NEW f \in AllForests, NEW i, NEW b, NEW o, NEW d, Place(f, i, b, o, d),
         o # << >>, LastOf(f, Last(o)) = i,
         NEW cs \in Seq(Unit), NEW top \in 0 .. Len(cs), NEW ws,
         Layered(f, i, o, cs, top, ws), InUse(ws, top + 1)
  PROVE  LET header == InitLength(cs[top], ws[top + 1].pos)
         IN  /\ top > 0
             /\ Layered(f, i, Front(o), [cs EXCEPT ![top] = header], top - 1,
                        Pour(ws, top + 1, header))
<1> DEFINE H  == NewUnits(f)
           m  == Len(o)
           k  == Last(o)
           e  == Front(o)
           h  == InitLength(cs[m], ws[m + 1].pos)
           vs == Pour(ws, m + 1, h)
           ds == [cs EXCEPT ![m] = h]
           a  == From(o, m)
<1>1. /\ top = m /\ m \in Nat /\ i \in Nat /\ Len(f) \in Nat /\ i <= Len(f)
      /\ o \in Seq(Nat)
      /\ \A n \in 1 .. m : cs[n] = HeadOf(f, o[n])
      /\ \A n \in 1 .. m : ws[n].items = SubSeq(H, From(o, n) + 1, o[n] - 1)
      /\ ws[m + 1].items = SubSeq(H, From(o, m + 1) + 1, i)
  BY PlaceTyped, NodesTyped DEF Layered
<1>2. /\ m >= 1 /\ m \in 1 .. m /\ k = o[m]
      /\ Len(e) = m - 1 /\ \A n \in 1 .. (m - 1) : e[n] = o[n]
  <2>1. Ascending(o, Open(f, i, b))
    BY DEF Place, WalkAt
  <2>2. /\ m >= 1 /\ k = o[Len(o)] /\ Len(e) = Len(o) - 1
        /\ \A n \in 1 .. (Len(o) - 1) : e[n] = o[n]
    BY <2>1, AscendingPop, ZenonT(60)
  <2>3. m >= 1 => m \in 1 .. m
    BY <1>1
  <2> QED
    BY <2>2, <2>3
<1>3. k \in 1 .. i /\ k \in 1 .. Len(f) /\ f[k].form # "primitive"
  <2>1. \A n \in 1 .. m : /\ o[n] \in 1 .. i /\ o[n] \in 1 .. Len(f)
                           /\ f[o[n]].form # "primitive"
    BY PlaceTyped, SMTT(40)
  <2> HIDE DEF m, k
  <2> QED
    BY <1>2, <2>1
<1>4. a \in Nat /\ a < k /\ From(o, m + 1) = k
  BY <1>1, <1>2, FromTyped, SMTT(40)
<1>5. H \in Seq(Unit) /\ Len(H) = Len(f)
  BY NewUnitsAre
<1>6. H[k] = h
  <2>1. H[k] = InitLength(HeadOf(f, k), SpanOf(SubSeq(H, k + 1, i)))
    BY <1>3, NewUnitsAre
  <2>2. m + 1 \in 1 .. (m + 1)
    BY <1>1
  <2>3. ws[m + 1].pos = SpanOf(ws[m + 1].items)
    BY <1>1, <2>2, UsedWriters
  <2> QED
    BY <1>1, <1>2, <1>4, <2>1, <2>3
<1>7. /\ vs[m].items = (Append(ws[m].items, h) \o ws[m + 1].items)
      /\ \A n \in 1 .. (m - 1) : vs[n] = ws[n]
  <2> DEFINE t == m + 1
  <2>1. InUse(ws, t) /\ t > 1 /\ t - 1 = m /\ t - 2 = m - 1
    BY <1>1, <1>2
  <2> HIDE DEF t, h
  <2>2. Pour(ws, t, h)[t - 1].items = (Append(ws[t - 1].items, h) \o ws[t].items)
    BY <2>1, ItemsPoured
  <2>3. ASSUME NEW n \in 1 .. (t - 2) PROVE Pour(ws, t, h)[n] = ws[n]
    BY <2>1, ItemsBelow
  <2> QED
    BY <2>1, <2>2, <2>3 DEF t
<1>8. \A n \in 1 .. (m - 1) : ds[n] = cs[n]
  <2>1. \A n \in 1 .. (m - 1) : n # m /\ n \in DOMAIN cs
    BY <1>1
  <2> HIDE DEF h
  <2> QED
    BY <2>1
<1> HIDE DEF H, h, vs, m, e, ds, k, a
<1>9. /\ ws[m].items = SubSeq(H, a + 1, k - 1) /\ ws[m + 1].items = SubSeq(H, k + 1, i)
  BY <1>1, <1>2, <1>4 DEF a
<1>10. vs[m].items = SubSeq(H, a + 1, i)
  <2> DEFINE j == k - 1
             c == a + 1
  <2>1. /\ j \in Nat /\ c \in Nat /\ 1 <= c /\ c <= j + 1 /\ j + 1 <= Len(H) /\ j + 1 = k
        /\ k \in Nat /\ c <= k + 1 /\ k <= i /\ i <= Len(H)
    BY <1>1, <1>3, <1>4, <1>5
  <2>2. Append(SubSeq(H, c, j), H[j + 1]) = SubSeq(H, c, j + 1)
    <3> HIDE DEF j, c
    <3> QED
      BY <1>5, <2>1, SubSeqAppend
  <2>3. SubSeq(H, c, k) \o SubSeq(H, k + 1, i) = SubSeq(H, c, i)
    <3> HIDE DEF j, c
    <3> QED
      BY <1>1, <1>5, <2>1, SubSeqJoined
  <2> QED
    BY <1>6, <1>7, <1>9, <2>1, <2>2, <2>3
<1>11. ASSUME NEW n \in 1 .. m PROVE From(e, n) = From(o, n)
  <2>1. n = 1 \/ n - 1 \in 1 .. (m - 1)
    BY <1>1
  <2> QED
    BY <1>2, <2>1 DEF From
<1>12. ASSUME NEW n \in 1 .. (m - 1)
       PROVE  /\ ds[n] = HeadOf(f, e[n])
              /\ vs[n].items = SubSeq(H, From(e, n) + 1, e[n] - 1)
  <2>1. n \in 1 .. m
    BY <1>1
  <2> QED
    BY <1>1, <1>2, <1>7, <1>8, <1>11, <2>1
<1>13. vs[(m - 1) + 1].items = SubSeq(H, From(e, (m - 1) + 1) + 1, i)
  <2>1. (m - 1) + 1 = m
    BY <1>1
  <2>2. From(e, m) = a
    BY <1>2, <1>11 DEF a
  <2> QED
    BY <1>10, <2>1, <2>2
<1>14. Layered(f, i, e, ds, m - 1, vs)
  BY <1>2, <1>12, <1>13 DEF Layered, H
<1>15. top > 0
  BY <1>1, <1>2
<1> QED
  BY <1>1, <1>14, <1>15 DEF e, ds, vs, h

(***************************************************************************)
(* The output with indefinite lengths                                      *)
(***************************************************************************)
(* The units of the forest with indefinite lengths, up to the same place   *)
NewUpto(f, i, b) == Walked(AsIndefinite(f), i, b)

(* A node begins: its tag is written with an indefinite length. *)
LEMMA NewUptoOpens ==
  ASSUME NEW f \in AllForests, NEW i, NEW b, NEW o, NEW d, Place(f, i, b, o, d),
         NoneEnds(f, i, o), i < Len(f)
  PROVE  LET k == i + 1
             h == HeadOf(f, k)
         IN  /\ f[k].form = "definite" =>
                  NewUpto(f, k, k + 1) = Append(NewUpto(f, i, b), InitIndefinite(h))
             /\ f[k].form # "definite" =>
                  NewUpto(f, k, k + 1) = Append(NewUpto(f, i, b), h)
<1> DEFINE k == i + 1
           g == AsIndefinite(f)
<1>1. g \in AllForests /\ Reencodes(f, g, "indefinite") /\ "indefinite" # "primitive"
  BY Reencoded
<1>2. i \in Nat /\ i + 2 = k + 1 /\ k \in 1 .. Len(f) /\ WalkAt(f, i, b, o)
  BY PlaceTyped, PlaceOpens
<1>3. /\ f[k].form # "definite" => HeadOf(g, k) = HeadOf(f, k)
      /\ f[k].form = "definite" => HeadOf(g, k) = InitIndefinite(HeadOf(f, k))
  BY <1>2, NewHeads
<1> HIDE DEF g
<1>4. WalkAt(g, i, b, o) /\ NoneEnds(g, i, o) /\ i < Len(g)
  <2>1. Len(g) = Len(f)
    BY <1>1 DEF Reencodes
  <2>2. /\ WalkAt(f, i, b, o) => WalkAt(g, i, b, o)
        /\ WalkAt(f, i, b, o) => (NoneEnds(f, i, o) <=> NoneEnds(g, i, o))
    BY <1>1, SameWalk, Zenon
  <2>3. WalkAt(g, i, b, o) /\ NoneEnds(g, i, o)
    BY <1>2, <2>2, Zenon
  <2> QED
    BY <2>1, <2>3
<1>5. Walked(g, i + 1, i + 2) = Append(Walked(g, i, b), HeadOf(g, i + 1))
  BY <1>1, <1>4, WalkOpens
<1>6. Walked(g, k, k + 1) = Append(Walked(g, i, b), HeadOf(g, k))
  BY <1>2, <1>5
<1> QED
  BY <1>3, <1>6 DEF NewUpto, g

(* A node ends: an end-of-content unit is written. *)
LEMMA NewUptoCloses ==
  ASSUME NEW f \in AllForests, NEW i, NEW b, NEW o, NEW d, Place(f, i, b, o, d),
         ~NoneEnds(f, i, o)
  PROVE  NewUpto(f, i, Last(o)) = Append(NewUpto(f, i, b), Eoc)
<1> DEFINE g == AsIndefinite(f)
           k == Last(o)
<1>1. g \in AllForests /\ Reencodes(f, g, "indefinite") /\ "indefinite" # "primitive"
  BY Reencoded
<1>2. WalkAt(f, i, b, o) /\ k \in 1 .. Len(f) /\ f[k].form # "primitive"
  BY PlaceTyped, PlaceCloses
<1> HIDE DEF g
<1>3. WalkAt(g, i, b, o) /\ ~NoneEnds(g, i, o)
  <2>1. /\ WalkAt(f, i, b, o) => WalkAt(g, i, b, o)
        /\ WalkAt(f, i, b, o) => (NoneEnds(f, i, o) <=> NoneEnds(g, i, o))
    BY <1>1, SameWalk, Zenon
  <2> QED
    BY <1>2, <2>1, Zenon
<1>4. g[k].form = "indefinite"
  BY <1>1, <1>2 DEF Reencodes
<1>5. Walked(g, i, k) = Append(Walked(g, i, b), Eoc)
  BY <1>1, <1>3, <1>4, WalkCloses
<1> QED
  BY <1>5 DEF NewUpto, g

(***************************************************************************)
(* The converters on a walk                                                *)
(***************************************************************************)
(* The units that were read are those of a walk that is inside of the      *)
(* nodes o, the definite ones of which are d; the counters and the levels  *)
(* are those of this place.                                                *)
Walking(f, i, b, o, d) ==
  /\ Place(f, i, b, o, d)
  /\ SubSeq(units, 1, read) = Walked(f, i, b)
  /\ Counting(f, d, lengthStack, writtenStack, At(f, i, b))
  /\ target = "indefinite" => writers[1].items = NewUpto(f, i, b)
  /\ target = "definite" => Layered(f, i, o, consStack, consTop, writers)

(* What is in the output after write_tag() to it *)
LEMMA OutputWritten ==
  ASSUME Facts, NEW u
  PROVE  WriteTo(writers, 1, u)[1].items = Append(writers[1].items, u)
<1> DEFINE o == WriteItem(writers[1], u)
<1>1. 1 \in DOMAIN writers
  <2>1. InUse(writers, writerTop)
    BY DEF Facts, LevelFacts
  <2>2. writerTop \in 1 .. Len(writers) /\ writers \in Seq(Writer)
    BY <2>1, UsedWriters
  <2> QED
    BY <2>2
<1>2. WriteTo(writers, 1, u) = [writers EXCEPT ![1] = o]
  BY Zenon DEF WriteTo
<1>3. o.items = Append(writers[1].items, u)
  BY PairItems, Zenon DEF WriteItem, Pair
<1> HIDE DEF o
<1> QED
  BY <1>1, <1>2, <1>3

(* The unit that is read, and what stays *)
LEMMA NextUnit ==
  ASSUME Facts, NEW t, NEW u, Next(t, u)
  PROVE  /\ forest' = forest /\ units' = units /\ target = t /\ target' = t
         /\ read \in Nat /\ read < Len(units) /\ read' = read + 1
         /\ u = units[read + 1] /\ units \in Seq(EncodedUnit)
<1>1. /\ forest' = forest /\ units' = units /\ target' = target
      /\ target = t /\ read < Len(units) /\ read' = read + 1 /\ u = units[read + 1]
  BY DEF Next, input
<1> QED
  BY <1>1 DEF Facts, InputFacts

(* write_indefinite() reads a unit: the walk goes on.                      *)
LEMMA IndefiniteReads ==
  ASSUME Facts, NEW f \in AllForests, IsPrefix(units, Units(f)), NEW i, NEW b, NEW o, NEW d,
         Walking(f, i, b, o, d), Settled(f, i, o),
         NEW u, CopyPrimitive(u) \/ CopyIndefinite(u) \/ OpenDefinite(u)
  PROVE  \E j, c, p, e : Walking(f, j, c, p, e)'
<1> DEFINE k == i + 1
           ls == lengthStack
           ws == writtenStack
<1>1. Next("indefinite", u)
  BY Zenon DEF CopyPrimitive, CopyIndefinite, OpenDefinite
<1>2. /\ units' = units /\ target = "indefinite"
      /\ target' = "indefinite" /\ read \in Nat /\ read < Len(units)
      /\ read' = read + 1 /\ u = units[read + 1] /\ units \in Seq(EncodedUnit)
  BY <1>1, NextUnit
<1>3. /\ u.shape = "primitive" =>
           /\ lengthStack' = ls /\ writtenStack' = AddToTop(ws, u.tl + u.length)
           /\ writers' = WriteTo(writers, 1, u)
      /\ u.shape = "constructed" /\ u.indefinite =>
           /\ lengthStack' = ls /\ writtenStack' = AddToTop(ws, u.tl)
           /\ writers' = WriteTo(writers, 1, u)
      /\ u.shape = "constructed" /\ ~u.indefinite =>
           /\ lengthStack' = Append(ls, u.length)
           /\ writtenStack' = Append(AddToTop(ws, u.tl), 0)
           /\ writers' = WriteTo(writers, 1, InitIndefinite(u))
  <2>1. "primitive" # "constructed"
    OBVIOUS
  <2> QED
    BY <2>1, Zenon DEF CopyPrimitive, CopyIndefinite, OpenDefinite
<1>4. /\ Place(f, i, b, o, d) /\ SubSeq(units, 1, read) = Walked(f, i, b)
      /\ Counting(f, d, ls, ws, At(f, i, b)) /\ writers[1].items = NewUpto(f, i, b)
  BY <1>2, Zenon DEF Walking
<1>5. IsPrefix(units, Units(f))
  OBVIOUS
<1>6. ASSUME NEW j, NEW c, NEW p, NEW e, Place(f, j, c, p, e),
             SubSeq(units, 1, read + 1) = Walked(f, j, c),
             Counting(f, e, lengthStack', writtenStack', At(f, j, c)),
             writers'[1].items = NewUpto(f, j, c)
      PROVE  \E j1, c1, p1, e1 : Walking(f, j1, c1, p1, e1)'
  <2>1. "indefinite" # "definite"
    OBVIOUS
  <2>2. Walking(f, j, c, p, e)'
    BY <1>2, <1>6, <2>1, Zenon DEF Walking
  <2> QED
    BY <2>2
<1>7. \A w : writers' = WriteTo(writers, 1, w) =>
               writers'[1].items = Append(NewUpto(f, i, b), w)
  BY <1>4, OutputWritten, Zenon
<1> HIDE DEF ls, ws
<1>8. CASE /\ NoneEnds(f, i, o) /\ i < Len(f)
           /\ u = HeadOf(f, k)
           /\ SubSeq(units, 1, read + 1) = Walked(f, k, k + 1)
           /\ f[k].form \in {"primitive", "definite", "indefinite"}
           /\ f[k].form = "primitive" =>
                /\ u.shape = "primitive" /\ Place(f, k, k + 1, o, d)
                /\ Counting(f, d, ls, AddToTop(ws, u.tl + u.length), At(f, k, k + 1))
           /\ f[k].form = "indefinite" =>
                /\ u.shape = "constructed" /\ u.indefinite
                /\ Place(f, k, k + 1, Append(o, k), d)
                /\ Counting(f, d, ls, AddToTop(ws, u.tl), At(f, k, k + 1))
           /\ f[k].form = "definite" =>
                /\ u.shape = "constructed" /\ ~u.indefinite
                /\ Place(f, k, k + 1, Append(o, k), Append(d, k))
                /\ Counting(f, Append(d, k), Append(ls, u.length),
                            Append(AddToTop(ws, u.tl), 0), At(f, k, k + 1))
  <2>1. /\ f[k].form = "definite" =>
             NewUpto(f, k, k + 1) = Append(NewUpto(f, i, b), InitIndefinite(u))
        /\ f[k].form # "definite" =>
             NewUpto(f, k, k + 1) = Append(NewUpto(f, i, b), u)
    <3>1. f \in AllForests
      OBVIOUS
    <3> QED
      BY <1>4, <1>8, <3>1, NewUptoOpens
  <2> HIDE DEF k
  <2>2. CASE f[k].form = "primitive"
    <3>1. f[k].form # "definite"
      BY <2>2
    <3> QED
      BY <1>3, <1>6, <1>7, <1>8, <2>1, <2>2, <3>1, Zenon
  <2>3. CASE f[k].form = "indefinite"
    <3>1. f[k].form # "definite"
      BY <2>3
    <3> QED
      BY <1>3, <1>6, <1>7, <1>8, <2>1, <2>3, <3>1, Zenon
  <2>4. CASE f[k].form = "definite"
    BY <1>3, <1>6, <1>7, <1>8, <2>1, <2>4, Zenon
  <2> QED
    BY <1>8, <2>2, <2>3, <2>4
<1>9. CASE /\ ~NoneEnds(f, i, o) /\ u = Eoc /\ u.shape = "primitive"
           /\ SubSeq(units, 1, read + 1) = Walked(f, i, Last(o))
           /\ Place(f, i, Last(o), Front(o), d)
           /\ Counting(f, d, ls, AddToTop(ws, u.tl + u.length), At(f, i, Last(o)))
  <2>1. NewUpto(f, i, Last(o)) = Append(NewUpto(f, i, b), Eoc)
    BY <1>4, <1>9, NewUptoCloses
  <2> QED
    BY <1>3, <1>6, <1>7, <1>9, <2>1, Zenon
<1>10. CASE WalksInto(f, i, o, d, ls, ws, units, read, u)
  BY <1>8, <1>10, Zenon DEF WalksInto, k
<1>11. CASE WalksOut(f, i, o, d, ls, ws, units, read, u)
  BY <1>9, <1>11, Zenon DEF WalksOut
<1> QED
  <2>1. f \in AllForests /\ Settled(f, i, o)
    OBVIOUS
  <2> HIDE DEF k
  <2> QED
    BY <1>2, <1>4, <1>5, <1>10, <1>11, <2>1, ReadPlaces

(* Ber2Def reads a unit: the walk goes on, and an end-of-content unit has  *)
(* a tag to pop.                                                           *)
LEMMA DefiniteReads ==
  ASSUME Facts, NEW f \in AllForests, IsPrefix(units, Units(f)), NEW i, NEW b, NEW o, NEW d,
         Walking(f, i, b, o, d), Settled(f, i, o),
         NEW u, WritePrimitive(u) \/ WriteEoc(u) \/ WriteConstructed(u)
  PROVE  pc' = "close" /\ \E j, c, p, e : Walking(f, j, c, p, e)'
<1> DEFINE k == i + 1
           ls == lengthStack
           ws == writtenStack
<1>1. Next("definite", u)
  BY Zenon DEF WritePrimitive, WriteEoc, WriteConstructed
<1>2. /\ units' = units /\ target = "definite"
      /\ target' = "definite" /\ read \in Nat /\ read < Len(units)
      /\ read' = read + 1 /\ u = units[read + 1] /\ units \in Seq(EncodedUnit)
  BY <1>1, NextUnit
<1>3. /\ u.shape = "primitive" /\ ~u.eoc => WritePrimitive(u)
      /\ u.shape = "primitive" /\ u.eoc => WriteEoc(u)
      /\ u.shape = "constructed" => WriteConstructed(u)
  <2>1. "primitive" # "constructed"
    OBVIOUS
  <2> QED
    BY <2>1, Zenon DEF WritePrimitive, WriteEoc, WriteConstructed
<1>4. /\ Place(f, i, b, o, d) /\ SubSeq(units, 1, read) = Walked(f, i, b)
      /\ Counting(f, d, ls, ws, At(f, i, b))
      /\ Layered(f, i, o, consStack, consTop, writers)
  BY <1>2, Zenon DEF Walking
<1>5. IsPrefix(units, Units(f)) /\ f \in AllForests
  OBVIOUS
<1>6. ASSUME NEW j, NEW c, NEW p, NEW e, Place(f, j, c, p, e),
             SubSeq(units, 1, read + 1) = Walked(f, j, c),
             Counting(f, e, lengthStack', writtenStack', At(f, j, c)),
             Layered(f, j, p, consStack', consTop', writers')
      PROVE  \E j1, c1, p1, e1 : Walking(f, j1, c1, p1, e1)'
  <2>1. "indefinite" # "definite"
    OBVIOUS
  <2>2. Walking(f, j, c, p, e)'
    BY <1>2, <1>6, <2>1, Zenon DEF Walking
  <2> QED
    BY <2>2
<1>7. /\ consStack \in Seq(Unit) /\ consTop \in 0 .. Len(consStack)
      /\ writerTop = consTop + 1 /\ InUse(writers, consTop + 1)
  BY DEF Facts, LevelFacts
<1> HIDE DEF ls, ws
<1>8. CASE /\ NoneEnds(f, i, o) /\ i < Len(f)
           /\ u = HeadOf(f, k) /\ ~u.eoc
           /\ SubSeq(units, 1, read + 1) = Walked(f, k, k + 1)
           /\ f[k].form \in {"primitive", "definite", "indefinite"}
           /\ f[k].form = "primitive" =>
                /\ u.shape = "primitive" /\ Place(f, k, k + 1, o, d)
                /\ Counting(f, d, ls, AddToTop(ws, u.tl + u.length), At(f, k, k + 1))
           /\ f[k].form = "indefinite" =>
                /\ u.shape = "constructed" /\ u.indefinite
                /\ Place(f, k, k + 1, Append(o, k), d)
                /\ Counting(f, d, ls, AddToTop(ws, u.tl), At(f, k, k + 1))
           /\ f[k].form = "definite" =>
                /\ u.shape = "constructed" /\ ~u.indefinite
                /\ Place(f, k, k + 1, Append(o, k), Append(d, k))
                /\ Counting(f, Append(d, k), Append(ls, u.length),
                            Append(AddToTop(ws, u.tl), 0), At(f, k, k + 1))
  <2>1. CASE f[k].form = "primitive"
    <3>1. /\ lengthStack' = ls /\ writtenStack' = AddToTop(ws, u.tl + u.length)
          /\ writers' = WriteTo(writers, writerTop, u) /\ pc' = "close"
          /\ consStack' = consStack /\ consTop' = consTop
      BY <1>3, <1>8, <2>1 DEF WritePrimitive, levels, ls, ws
    <3>2. Layered(f, i + 1, o, consStack, consTop,
                  WriteTo(writers, consTop + 1, HeadOf(f, i + 1)))
      BY <1>4, <1>5, <1>7, <1>8, <2>1, LayerWrite
    <3>3. Layered(f, k, o, consStack', consTop', writers')
      BY <1>7, <1>8, <3>1, <3>2
    <3> HIDE DEF k
    <3> QED
      BY <1>6, <1>8, <2>1, <3>1, <3>3, Zenon
  <2>2. CASE f[k].form # "primitive"
    <3>1. u.shape = "constructed"
      BY <1>8, <2>2
    <3>2. /\ CountHeader(u) /\ consStack' = PutAt(consStack, consTop + 1, u)
          /\ consTop' = consTop + 1 /\ writers' = WithLevel(writers, writerTop)
          /\ pc' = "close"
      BY <1>3, <3>1, Zenon DEF WriteConstructed
    <3>3. Layered(f, i + 1, Append(o, i + 1), PutAt(consStack, consTop + 1, HeadOf(f, i + 1)),
                  consTop + 1, WithLevel(writers, consTop + 1))
      BY <1>4, <1>5, <1>7, <1>8, <2>2, LayerEnter
    <3>4. Layered(f, k, Append(o, k), consStack', consTop', writers')
      BY <1>7, <1>8, <3>2, <3>3
    <3>5. /\ u.indefinite => /\ writtenStack' = AddToTop(ws, u.tl)
                             /\ lengthStack' = ls
          /\ ~u.indefinite => /\ writtenStack' = Append(AddToTop(ws, u.tl), 0)
                              /\ lengthStack' = Append(ls, u.length)
      BY <3>2, Zenon DEF CountHeader, ls, ws
    <3> HIDE DEF k
    <3>6. CASE f[k].form = "indefinite"
      BY <1>6, <1>8, <3>2, <3>4, <3>5, <3>6, Zenon
    <3>7. CASE f[k].form = "definite"
      BY <1>6, <1>8, <3>2, <3>4, <3>5, <3>7, Zenon
    <3> QED
      BY <1>8, <2>2, <3>6, <3>7
  <2> QED
    BY <2>1, <2>2, Zenon
<1>9. CASE /\ ~NoneEnds(f, i, o) /\ u = Eoc /\ u.shape = "primitive" /\ u.eoc
           /\ SubSeq(units, 1, read + 1) = Walked(f, i, Last(o))
           /\ Place(f, i, Last(o), Front(o), d)
           /\ Counting(f, d, ls, AddToTop(ws, u.tl + u.length), At(f, i, Last(o)))
  <2>1. WriteEoc(u)
    BY <1>3, <1>9, Zenon
  <2>2. o # << >> /\ LastOf(f, Last(o)) = i
    BY <1>4, <1>5, <1>9, PlaceCloses
  <2> DEFINE header == InitLength(consStack[consTop], writers[writerTop].pos)
  <2>3. /\ consTop > 0
        /\ Layered(f, i, Front(o), [consStack EXCEPT ![consTop] = header], consTop - 1,
                   Pour(writers, writerTop, header))
    BY <1>4, <1>5, <1>7, <2>2, LayerLeave
  <2>4. consTop # 0
    BY <1>7, <2>3
  <2>5. /\ PopConstructed /\ pc' = "close" /\ lengthStack' = ls
        /\ writtenStack' = AddToTop(ws, u.tl + u.length)
    BY <2>1, <2>4, Zenon DEF WriteEoc, NoTagToPop, ls, ws
  <2>6. /\ writers' = Pour(writers, writerTop, header) /\ consTop' = consTop - 1
        /\ consStack' = [consStack EXCEPT ![consTop] = header]
    BY <2>5, Zenon DEF PopConstructed
  <2> HIDE DEF header
  <2>7. Layered(f, i, Front(o), consStack', consTop', writers')
    BY <2>3, <2>6, Zenon
  <2> QED
    BY <1>6, <1>9, <2>5, <2>7, Zenon
<1>10. CASE WalksInto(f, i, o, d, ls, ws, units, read, u)
  BY <1>8, <1>10, Zenon DEF WalksInto, k
<1>11. CASE WalksOut(f, i, o, d, ls, ws, units, read, u)
  BY <1>9, <1>11, Zenon DEF WalksOut
<1> QED
  <2>1. f \in AllForests /\ Settled(f, i, o)
    OBVIOUS
  <2> HIDE DEF k
  <2> QED
    BY <1>2, <1>4, <1>5, <1>10, <1>11, <2>1, ReadPlaces

(* A definite tag is complete: both converters close the innermost node.   *)
LEMMA FormCloses ==
  ASSUME Facts, NEW f \in AllForests, IsPrefix(units, Units(f)), NEW i, NEW b, NEW o, NEW d,
         Walking(f, i, b, o, d), CloseAsIndefinite \/ CloseAsDefinite
  PROVE  pc' = "close" /\ \E j, c, p, e : Walking(f, j, c, p, e)'
<1> DEFINE k == Last(o)
           ls == lengthStack
           ws == writtenStack
<1>1. /\ pc = "close" /\ Complete
      /\ units' = units /\ target' = target /\ read' = read
  BY DEF CloseAsIndefinite, CloseAsDefinite, input
<1>2. Len(ls) > 1 /\ Last(ls) = Last(ws)
  <2>1. NotTheRoot
    BY CountersAre DEF Facts
  <2> QED
    BY <1>1, <2>1, Zenon DEF NotTheRoot, Complete
<1>3. /\ Place(f, i, b, o, d) /\ SubSeq(units, 1, read) = Walked(f, i, b)
      /\ Counting(f, d, ls, ws, At(f, i, b))
      /\ target = "indefinite" => writers[1].items = NewUpto(f, i, b)
      /\ target = "definite" => Layered(f, i, o, consStack, consTop, writers)
      /\ f \in AllForests
  BY Zenon DEF Walking
<1> HIDE DEF ls, ws
<1>4. /\ ~NoneEnds(f, i, o) /\ o # << >> /\ LastOf(f, k) = i
      /\ Place(f, i, k, Front(o), Front(d)) /\ Walked(f, i, k) = Walked(f, i, b)
      /\ Counting(f, Front(d), Front(ls), AddToTop(Front(ws), Last(ls)), At(f, i, k))
  BY <1>2, <1>3, EndPlaces
<1>5. ASSUME PopCounters, target = "indefinite" => writers'[1].items = NewUpto(f, i, k),
             target = "definite" => Layered(f, i, Front(o), consStack', consTop', writers')
      PROVE  \E j, c, p, e : Walking(f, j, c, p, e)'
  <2>1. lengthStack' = Front(ls) /\ writtenStack' = AddToTop(Front(ws), Last(ls))
    BY <1>5, Zenon DEF PopCounters, ls, ws
  <2> HIDE DEF k
  <2>2. Walking(f, i, k, Front(o), Front(d))'
    BY <1>1, <1>3, <1>4, <1>5, <2>1, Zenon DEF Walking
  <2> QED
    BY <2>2
<1>6. CASE CloseAsIndefinite
  <2>1. /\ target = "indefinite" /\ target # "definite" /\ PopCounters /\ pc' = pc
        /\ writers' = WriteTo(writers, 1, Eoc)
    BY <1>6 DEF CloseAsIndefinite
  <2>2. writers'[1].items = Append(NewUpto(f, i, b), Eoc)
    BY <1>3, <2>1, OutputWritten, Zenon
  <2>3. NewUpto(f, i, k) = Append(NewUpto(f, i, b), Eoc)
    BY <1>3, <1>4, NewUptoCloses
  <2> QED
    BY <1>1, <1>5, <2>1, <2>2, <2>3, Zenon
<1>7. CASE CloseAsDefinite
  <2>1. target = "definite" /\ target # "indefinite"
    BY <1>7 DEF CloseAsDefinite
  <2>2. /\ consStack \in Seq(Unit) /\ consTop \in 0 .. Len(consStack)
        /\ writerTop = consTop + 1 /\ InUse(writers, consTop + 1)
    BY DEF Facts, LevelFacts
  <2> DEFINE header == InitLength(consStack[consTop], writers[writerTop].pos)
  <2>3. /\ consTop > 0
        /\ Layered(f, i, Front(o), [consStack EXCEPT ![consTop] = header], consTop - 1,
                   Pour(writers, writerTop, header))
    BY <1>3, <1>4, <2>1, <2>2, LayerLeave
  <2>4. consTop # 0
    BY <2>2, <2>3
  <2>5. PopConstructed /\ PopCounters /\ pc' = pc
    BY <1>7, <2>4, Zenon DEF CloseAsDefinite, NoTagToPop
  <2>6. /\ writers' = Pour(writers, writerTop, header) /\ consTop' = consTop - 1
        /\ consStack' = [consStack EXCEPT ![consTop] = header]
    BY <2>5, Zenon DEF PopConstructed
  <2> HIDE DEF header
  <2>7. Layered(f, i, Front(o), consStack', consTop', writers')
    BY <2>3, <2>6, Zenon
  <2> QED
    BY <1>1, <1>5, <2>1, <2>5, <2>7, Zenon
<1> QED
  BY <1>6, <1>7


(***************************************************************************)
(* Open tags                                                               *)
(***************************************************************************)
(* The definite tags that n units are inside of *)
InsideOf(us, n) ==
  {x \in 1 .. n : /\ us[x].shape = "constructed" /\ ~us[x].indefinite
                  /\ SpanOf(SubSeq(us, x + 1, n)) < us[x].length}

(* They are the first units of the open definite nodes. *)
LEMMA OpenTagsAre ==
  ASSUME NEW f \in AllForests, NEW i, NEW b, NEW o, NEW d, Place(f, i, b, o, d),
         Settled(f, i, o), i # 0
  PROVE  LET w == Walked(f, i, b)
         IN  /\ \A m \in 1 .. Len(d) : Begin(f, d[m]) \in InsideOf(w, Len(w))
             /\ \A m \in 1 .. Len(d), l \in 1 .. Len(d) :
                  Begin(f, d[m]) = Begin(f, d[l]) => m = l
             /\ \A x \in InsideOf(w, Len(w)) :
                  \E m \in 1 .. Len(d) : Begin(f, d[m]) = x
<1> DEFINE w == Walked(f, i, b)
           N == Len(w)
<1>1. /\ WalkAt(f, i, b, o) /\ i \in 0 .. Len(f) /\ i \in 1 .. Len(f)
      /\ b \in Nat /\ b >= 1 /\ Len(f) \in Nat
      /\ d \in Seq(Nat) /\ Len(d) \in Nat
  BY PlaceTyped, NodesTyped
<1>2. \A m \in 1 .. Len(d) : /\ d[m] \in 1 .. i /\ d[m] \in 1 .. Len(f)
                             /\ f[d[m]].form = "definite"
  BY PlaceTyped, SMTT(40)
<1>3. \A m \in 1 .. Len(d) : At(f, i, b) < At(f, d[m], d[m] + 1) + Inner(f)[d[m]]
  BY PlaceEnds
<1>4. w \in Seq(EncodedUnit) /\ N \in Nat /\ At(f, i, b) \in Nat
  BY <1>1, WalkedTyped
<1>5. ASSUME NEW k \in 1 .. i
      PROVE  /\ k \in 1 .. Len(f) /\ Begin(f, k) \in 1 .. N /\ w[Begin(f, k)] = HeadOf(f, k)
             /\ SpanOf(SubSeq(w, Begin(f, k) + 1, N)) \in Nat
             /\ At(f, i, b) = At(f, k, k + 1) + SpanOf(SubSeq(w, Begin(f, k) + 1, N))
             /\ At(f, k, k + 1) \in Nat /\ Inner(f)[k] \in Nat
  <2>1. k \in 1 .. Len(f) /\ Begin(f, k) \in 1 .. N
    BY <1>1, BeginsGrow
  <2>2. /\ w[Begin(f, k)] = HeadOf(f, k)
        /\ SpanOf(SubSeq(w, Begin(f, k) + 1, N)) \in Nat
        /\ At(f, i, b) = At(f, k, k + 1) + SpanOf(SubSeq(w, Begin(f, k) + 1, N))
    BY <1>1, ReadInside
  <2>3. At(f, k, k + 1) \in Nat
    <3>1. k \in 0 .. Len(f) /\ k + 1 \in Nat
      BY <2>1
    <3> QED
      BY <3>1, WalkedTyped
  <2>4. Inner(f)[k] \in Nat
    BY <2>1, HeadParts
  <2> QED
    BY <2>1, <2>2, <2>3, <2>4
<1> HIDE DEF w, N
<1>6. ASSUME NEW m \in 1 .. Len(d) PROVE Begin(f, d[m]) \in InsideOf(w, N)
  <2> DEFINE k == d[m]
             x == Begin(f, k)
             h == HeadOf(f, k)
  <2>1. /\ k \in 1 .. Len(f) /\ x \in 1 .. N /\ w[x] = h
        /\ SpanOf(SubSeq(w, x + 1, N)) \in Nat
        /\ At(f, i, b) = At(f, k, k + 1) + SpanOf(SubSeq(w, x + 1, N))
        /\ At(f, k, k + 1) \in Nat /\ Inner(f)[k] \in Nat
    BY <1>2, <1>5
  <2>2. h.shape = "constructed" /\ ~h.indefinite /\ h.length = Inner(f)[k]
    <3>1. f[k].form = "definite" /\ f[k].form # "primitive" /\ f[k].form # "indefinite"
      BY <1>2
    <3> HIDE DEF k
    <3>2. /\ h.shape = "constructed" /\ (h.indefinite <=> f[k].form = "indefinite")
          /\ h.length = Inner(f)[k]
      BY <2>1, <3>1, HeadParts
    <3> QED
      BY <3>1, <3>2, Zenon
  <2>3. At(f, i, b) < At(f, k, k + 1) + Inner(f)[k]
    BY <1>3
  <2> HIDE DEF k, x, h
  <2>4. SpanOf(SubSeq(w, x + 1, N)) < Inner(f)[k]
    BY <2>1, <2>3
  <2>5. x \in InsideOf(w, N)
    BY <2>1, <2>2, <2>4, Zenon DEF InsideOf
  <2> QED
    BY <2>5 DEF x, k
<1>7. ASSUME NEW m \in 1 .. Len(d), NEW l \in 1 .. Len(d), m < l
      PROVE  Begin(f, d[m]) < Begin(f, d[l])
  <2>1. d[m] < d[l] /\ d[m] \in Nat /\ d[l] \in 1 .. Len(f) /\ d[m] >= 1
    <3>1. Ascending(d, OpenDefinites(f, i, b))
      BY DEF Place
    <3> QED
      BY <1>2, <1>7, <3>1 DEF Ascending
  <2>2. d[m] \in 1 .. d[l] /\ 1 \in Nat
    BY <2>1
  <2> QED
    BY <2>1, <2>2, BeginsGrow
<1>8. ASSUME NEW m \in 1 .. Len(d), NEW l \in 1 .. Len(d), Begin(f, d[m]) = Begin(f, d[l])
      PROVE  m = l
  <2>1. Begin(f, d[m]) \in 1 .. N
    BY <1>2, <1>5
  <2>2. m \in Nat /\ l \in Nat
    BY <1>1
  <2>3. ~(m < l)
    <3> SUFFICES ASSUME m < l PROVE FALSE
      OBVIOUS
    <3>1. Begin(f, d[m]) < Begin(f, d[l])
      BY <1>7
    <3> QED
      BY <1>8, <2>1, <3>1
  <2>4. ~(l < m)
    <3> SUFFICES ASSUME l < m PROVE FALSE
      OBVIOUS
    <3>1. Begin(f, d[l]) < Begin(f, d[m])
      BY <1>7
    <3> QED
      BY <1>8, <2>1, <3>1
  <2> QED
    BY <2>2, <2>3, <2>4
<1>9. ASSUME NEW x \in InsideOf(w, N)
      PROVE  \E m \in 1 .. Len(d) : Begin(f, d[m]) = x
  <2>1. /\ x \in 1 .. N /\ w[x].shape = "constructed" /\ ~w[x].indefinite
        /\ SpanOf(SubSeq(w, x + 1, N)) < w[x].length
    BY DEF InsideOf
  <2>2. PICK k \in 1 .. i : x = Begin(f, k)
    BY <1>1, <2>1, HeadsFound DEF w, N
  <2> DEFINE h == HeadOf(f, k)
             L == LastOf(f, k)
  <2>3. /\ k \in 1 .. Len(f) /\ w[x] = h
        /\ SpanOf(SubSeq(w, x + 1, N)) \in Nat
        /\ At(f, i, b) = At(f, k, k + 1) + SpanOf(SubSeq(w, x + 1, N))
        /\ At(f, k, k + 1) \in Nat /\ Inner(f)[k] \in Nat
    BY <1>5, <2>2
  <2>4. f[k].form = "definite" /\ h.length = Inner(f)[k] /\ f[k].form # "primitive"
    <3>1. h.shape = "constructed" /\ ~h.indefinite
      BY <2>1, <2>3, Zenon
    <3>2. f[k].form = "primitive" => h.shape = "primitive"
      BY <2>3, HeadParts
    <3>3. f[k].form # "primitive" => (h.indefinite <=> f[k].form = "indefinite")
      BY <2>3, HeadParts
    <3>4. f[k].form = "definite" => h.length = Inner(f)[k]
      BY <2>3, HeadParts
    <3>5. f[k].form \in {"primitive", "definite", "indefinite"}
      BY <2>3, HeadIs
    <3> HIDE DEF h
    <3>6. f[k].form # "primitive"
      BY <3>1, <3>2
    <3>7. f[k].form # "indefinite"
      BY <3>1, <3>3, <3>6, Zenon
    <3> QED
      BY <3>4, <3>5, <3>6, <3>7
  <2> HIDE DEF h
  <2>5. At(f, i, b) < At(f, k, k + 1) + Inner(f)[k]
    BY <2>1, <2>3, <2>4
  <2>6. At(f, L, k) = At(f, k, k + 1) + Inner(f)[k]
    BY <2>3, <2>4, OctetsInside DEF Inside
  <2>7. L \in Nat /\ L \in k .. Len(f) /\ k \in Nat /\ k > 0
    BY <2>3, LastIs, NodesTyped DEF IsLast
  <2> HIDE DEF L
  <2>8. ~(L < i)
    <3> SUFFICES ASSUME L < i PROVE FALSE
      OBVIOUS
    <3>1. L \in 0 .. Len(f) /\ i \in (L + 1) .. Len(f)
      BY <1>1, <2>7
    <3>2. At(f, L, k) + 2 <= At(f, i, b)
      BY <1>1, <2>7, <3>1, AtGrows
    <3> QED
      BY <1>4, <2>3, <2>5, <2>6, <3>2
  <2>9. ~(L = i /\ k >= b)
    <3> SUFFICES ASSUME L = i, k >= b PROVE FALSE
      OBVIOUS
    <3>1. b <= k
      BY <1>1, <2>7
    <3>2. At(f, i, k) = At(f, i, b) \/ At(f, i, k) + 2 <= At(f, i, b)
      BY <1>1, <2>7, <3>1, AtGrows
    <3> QED
      BY <1>4, <2>3, <2>5, <2>6, <3>2
  <2>10. k \in Open(f, i, b)
    <3>1. L > i \/ (L = i /\ k < b)
      BY <1>1, <2>7, <2>8, <2>9
    <3> QED
      BY <2>4, <3>1, Zenon DEF Open, L
  <2>11. \E m \in 1 .. Len(d) : d[m] = k
    BY <2>4, <2>10, PlaceTyped
  <2> QED
    BY <2>2, <2>11
<1> QED
  BY <1>6, <1>8, <1>9 DEF w, N

(* There are as many as there are open definite nodes. *)
LEMMA OpenTagsCounted ==
  ASSUME NEW f \in AllForests, NEW i, NEW b, NEW o, NEW d, Place(f, i, b, o, d),
         Settled(f, i, o)
  PROVE  LET w == Walked(f, i, b)
         IN  Cardinality(InsideOf(w, Len(w))) = Len(d)
<1> DEFINE w == Walked(f, i, b)
           S == InsideOf(w, Len(w))
           M == Len(d)
<1>1. M \in Nat /\ i \in Nat /\ \A m \in 1 .. M : d[m] \in 1 .. i
  BY PlaceTyped
<1>2. CASE i = 0
  <2>1. M = 0
    BY <1>1, <1>2
  <2>2. w = << >>
    BY <1>2 DEF Walked
  <2>3. S = {}
    <3>1. Len(w) = 0
      BY <2>2
    <3> HIDE DEF w
    <3>2. 1 .. Len(w) = {}
      BY <3>1
    <3> QED
      BY <3>2, Zenon DEF InsideOf
  <2> HIDE DEF S
  <2> QED
    BY <2>1, <2>3, FS_EmptySet DEF S
<1>3. CASE i # 0
  <2> DEFINE g == [m \in 1 .. M |-> Begin(f, d[m])]
  <2>1. /\ \A m \in 1 .. M : Begin(f, d[m]) \in S
        /\ \A m \in 1 .. M, l \in 1 .. M : Begin(f, d[m]) = Begin(f, d[l]) => m = l
        /\ \A x \in S : \E m \in 1 .. M : Begin(f, d[m]) = x
    BY <1>3, OpenTagsAre
  <2> HIDE DEF S, M
  <2>2. g \in [1 .. M -> S] /\ \A m \in 1 .. M : g[m] = Begin(f, d[m])
    BY <2>1
  <2>3. DOMAIN g = 1 .. M
    OBVIOUS
  <2> HIDE DEF g
  <2>4. g \in Injection(1 .. M, S)
    BY <2>1, <2>2, <2>3, Zenon DEF Injection, IsInjective
  <2>5. g \in Surjection(1 .. M, S)
    BY <2>1, <2>2, Zenon DEF Surjection
  <2>6. ExistsBijection(1 .. M, S)
    BY <2>4, <2>5 DEF ExistsBijection, Bijection
  <2> QED
    BY <1>1, <2>6, FS_CountingElements DEF S, M, w
<1> QED
  BY <1>2, <1>3

(* What is open is a matter of the units that were read. *)
LEMMA OpenTagsRead ==
  ASSUME NEW us \in Seq(EncodedUnit), NEW n \in 0 .. Len(us)
  PROVE  LET w == SubSeq(us, 1, n)
         IN  Len(w) = n /\ InsideOf(w, Len(w)) = InsideOf(us, n)
<1> DEFINE w == SubSeq(us, 1, n)
           T == EncodedUnit
<1>1. /\ n \in Nat /\ Len(us) \in Nat /\ n <= Len(us) /\ 1 \in Nat /\ 1 <= 1 /\ 1 <= n + 1
      /\ n - 1 + 1 = n /\ \A x \in 1 .. n : 1 + x - 1 = x
  OBVIOUS
<1>2. w \in Seq(T) /\ Len(w) = n /\ \A x \in 1 .. n : w[x] = us[x]
  <2>1. /\ w \in Seq(T) /\ Len(w) = n - 1 + 1
        /\ \A x \in 1 .. (n - 1 + 1) : w[x] = us[1 + x - 1]
    BY <1>1, SubSeqElements
  <2> HIDE DEF w
  <2> QED
    BY <1>1, <2>1
<1> HIDE DEF w
<1>3. ASSUME NEW x \in 1 .. n PROVE SubSeq(w, x + 1, n) = SubSeq(us, x + 1, n)
  <2> DEFINE a == x + 1
             p == SubSeq(w, a, n)
             q == SubSeq(us, a, n)
             l == n - a + 1
  <2>1. a \in Nat /\ 1 <= a /\ a <= n + 1 /\ l \in Nat /\ n <= Len(w)
    BY <1>1, <1>2
  <2>2. \A m \in 1 .. l : a + m - 1 \in 1 .. n
    BY <1>1
  <2> HIDE DEF a
  <2>3. p \in Seq(T) /\ Len(p) = l /\ \A m \in 1 .. l : p[m] = w[a + m - 1]
    BY <1>1, <1>2, <2>1, SubSeqElements
  <2>4. q \in Seq(T) /\ Len(q) = l /\ \A m \in 1 .. l : q[m] = us[a + m - 1]
    BY <1>1, <2>1, SubSeqElements
  <2> HIDE DEF p, q, l
  <2>5. \A m \in 1 .. Len(p) : p[m] = q[m]
    BY <1>2, <2>2, <2>3, <2>4
  <2>6. p = q
    BY <2>3, <2>4, <2>5, SameElements
  <2> QED
    BY <2>6 DEF p, q, a
<1>4. InsideOf(w, n) = InsideOf(us, n)
  BY <1>2, <1>3, Zenon DEF InsideOf
<1> QED
  BY <1>2, <1>4 DEF w

(***************************************************************************)
(* What the output is                                                      *)
(***************************************************************************)
(* With indefinite lengths *)
LEMMA IndefiniteOutput ==
  ASSUME NEW f \in AllForests, NEW i, NEW b, NEW o, NEW d, Place(f, i, b, o, d)
  PROVE  /\ IsPrefix(NewUpto(f, i, b), Units(AsIndefinite(f)))
         /\ i = Len(f) /\ o = << >> => NewUpto(f, i, b) = Units(AsIndefinite(f))
<1> DEFINE g == AsIndefinite(f)
<1>1. g \in AllForests /\ Reencodes(f, g, "indefinite") /\ "indefinite" # "primitive"
  BY Reencoded
<1>2. WalkAt(f, i, b, o) /\ i \in 0 .. Len(f) /\ b \in Nat /\ b >= 1
  BY PlaceTyped
<1> HIDE DEF g
<1>3. Len(g) = Len(f)
  BY <1>1 DEF Reencodes
<1>4. WalkAt(g, i, b, o)
  BY <1>1, <1>2, SameWalk
<1>5. IsPrefix(Walked(g, i, b), Units(g))
  BY <1>1, <1>2, <1>3, WalkedPrefix
<1>6. ASSUME i = Len(f), o = << >> PROVE Walked(g, i, b) = Units(g)
  <2>1. NoneEnds(g, i, o)
    BY <1>6 DEF NoneEnds
  <2> QED
    BY <1>1, <1>3, <1>4, <1>6, <2>1, WalkRest
<1> QED
  BY <1>5, <1>6 DEF NewUpto, g

(* With definite lengths *)
LEMMA DefiniteOutput ==
  ASSUME NEW f \in AllForests, NEW i, NEW b, NEW o, NEW d, Place(f, i, b, o, d),
         NEW cs, NEW top, NEW ws, Layered(f, i, o, cs, top, ws)
  PROVE  /\ IsPrefix(ws[1].items, NewUnits(f))
         /\ i = Len(f) /\ o = << >> => ws[1].items = NewUnits(f)
<1> DEFINE H == NewUnits(f)
           m == Len(o)
<1>1. H \in Seq(Unit) /\ Len(H) = Len(f)
  BY NewUnitsAre
<1>2. /\ m \in Nat /\ i \in Nat /\ i <= Len(f) /\ Len(f) \in Nat /\ o \in Seq(Nat)
      /\ \A n \in 1 .. m : o[n] \in 1 .. Len(f)
  BY PlaceTyped, NodesTyped
<1>3. /\ \A n \in 1 .. m : ws[n].items = SubSeq(H, From(o, n) + 1, o[n] - 1)
      /\ ws[m + 1].items = SubSeq(H, From(o, m + 1) + 1, i)
  BY DEF Layered
<1>4. From(o, 1) + 1 = 1
  BY DEF From
<1> HIDE DEF H
<1>5. CASE m = 0
  <2>1. ws[1].items = SubSeq(H, 1, i)
    <3>1. m + 1 = 1
      BY <1>5
    <3> QED
      BY <1>3, <1>4, <3>1
  <2>2. IsPrefix(SubSeq(H, 1, i), H) /\ (i = Len(H) => SubSeq(H, 1, i) = H)
    BY <1>1, <1>2, FirstPart
  <2> QED
    BY <1>1, <2>1, <2>2 DEF H
<1>6. CASE m # 0
  <2>1. 1 \in 1 .. m
    BY <1>2, <1>6
  <2> DEFINE n == o[1] - 1
  <2>2. n \in Nat /\ n <= Len(H)
    BY <1>1, <1>2, <2>1
  <2>3. ws[1].items = SubSeq(H, 1, n)
    BY <1>3, <1>4, <2>1
  <2> HIDE DEF n
  <2>4. IsPrefix(SubSeq(H, 1, n), H)
    BY <1>1, <2>2, FirstPart
  <2>5. o # << >>
    BY <1>6
  <2> QED
    BY <2>3, <2>4, <2>5 DEF H
<1> QED
  BY <1>5, <1>6

(***************************************************************************)
(* The same forest                                                         *)
(***************************************************************************)
(* A forest f that the input is the encoding of, or the beginning of that, *)
(* is walked, and no end of a definite tag is passed over.                 *)
Follows(f) ==
  /\ pc # "undefined"
  /\ \E i, b, o, d : Walking(f, i, b, o, d) /\ (pc # "close" => Settled(f, i, o))

(* The copy is as far as what was read.                                    *)
FormFacts ==
  /\ forest \in AllForests /\ units \in Inputs(forest)
  /\ pc = "done" => read = Len(units) /\ (target = "definite" => consTop = 0)
  /\ pc = "failed" => target = "definite" /\ read = Len(units) /\ consTop # 0
  /\ pc = "undefined" => target = "definite"
  /\ target = "identity" => writers[1].items = SubSeq(units, 1, read)
  /\ target # "identity" => \A f \in AllForests : IsPrefix(units, Units(f)) => Follows(f)

(* There is one entry for each open definite tag. *)
LEMMA EndsAre ==
  ASSUME Facts, FormFacts
  PROVE  EndsFound
<1> SUFFICES ASSUME target # "identity", pc = "read", Encoded
             PROVE  Len(lengthStack) = Cardinality(OpenTags(read)) + 1
  BY Zenon DEF EndsFound
<1>1. PICK i, b, o, d : Walking(forest, i, b, o, d) /\ Settled(forest, i, o)
  BY DEF FormFacts, Follows, Encoded
<1>2. /\ Place(forest, i, b, o, d) /\ Settled(forest, i, o) /\ forest \in AllForests
      /\ SubSeq(units, 1, read) = Walked(forest, i, b)
      /\ Counting(forest, d, lengthStack, writtenStack, At(forest, i, b))
  BY <1>1 DEF Walking, FormFacts
<1>3. units \in Seq(EncodedUnit) /\ read \in 0 .. Len(units)
  BY DEF Facts, InputFacts
<1> DEFINE w == Walked(forest, i, b)
<1>4. Cardinality(InsideOf(w, Len(w))) = Len(d)
  BY <1>2, OpenTagsCounted
<1>5. InsideOf(w, Len(w)) = InsideOf(units, read)
  BY <1>2, <1>3, OpenTagsRead
<1>6. OpenTags(read) = InsideOf(units, read)
  BY Zenon DEF OpenTags, InsideOf
<1>7. Len(lengthStack) = Len(d) + 1
  BY <1>2 DEF Counting, CountingOf
<1> QED
  BY <1>4, <1>5, <1>6, <1>7

(* What reaches the output *)
LEMMA FormsAre ==
  ASSUME Facts, FormFacts
  PROVE  SameForest
<1>1. units \in Seq(EncodedUnit) /\ read \in 0 .. Len(units) /\ target \in Targets
  BY DEF Facts, InputFacts
<1>2. ASSUME Ended, target = "identity" \/ Encoded
      PROVE  /\ IsPrefix(writers[1].items, Expected)
             /\ pc = "done" /\ units = Units(forest) => writers[1].items = Expected
  <2>1. CASE target = "identity"
    <3>1. Expected = units /\ writers[1].items = SubSeq(units, 1, read)
      BY <2>1 DEF Expected, FormFacts
    <3>2. /\ IsPrefix(SubSeq(units, 1, read), units)
          /\ read = Len(units) => SubSeq(units, 1, read) = units
      <4>1. read \in Nat /\ read <= Len(units)
        BY <1>1
      <4> QED
        BY <1>1, <4>1, FirstPart
    <3>3. pc = "done" => read = Len(units)
      BY DEF FormFacts
    <3> QED
      BY <3>1, <3>2, <3>3
  <2>2. CASE target # "identity"
    <3>1. Encoded /\ pc # "close"
      BY <1>2, <2>2 DEF Ended
    <3>2. PICK i, b, o, d : Walking(forest, i, b, o, d) /\ Settled(forest, i, o)
      BY <2>2, <3>1, Zenon DEF FormFacts, Follows, Encoded
    <3>3. /\ Place(forest, i, b, o, d) /\ Settled(forest, i, o) /\ forest \in AllForests
          /\ SubSeq(units, 1, read) = Walked(forest, i, b)
          /\ target = "indefinite" => writers[1].items = NewUpto(forest, i, b)
          /\ target = "definite" => Layered(forest, i, o, consStack, consTop, writers)
      BY <3>2, Zenon DEF Walking, FormFacts
    <3>4. pc = "done" /\ units = Units(forest) => i = Len(forest) /\ o = << >>
      <4> SUFFICES ASSUME pc = "done", units = Units(forest)
                   PROVE  i = Len(forest) /\ o = << >>
        OBVIOUS
      <4>1. read = Len(units) /\ read \in Nat /\ read <= Len(units)
        BY <1>1 DEF FormFacts
      <4>2. SubSeq(units, 1, read) = units
        BY <1>1, <4>1, FirstPart
      <4>3. Walked(forest, i, b) = Units(forest)
        BY <3>3, <4>2
      <4> QED
        BY <3>3, <4>3, AllRead
    <3>5. target \in {"indefinite", "definite"}
      BY <1>1, <2>2, Ber2BerAssumption
    <3>6. CASE target = "indefinite"
      <4>1. Expected = Units(AsIndefinite(forest))
        BY <3>6 DEF Expected
      <4>2. /\ IsPrefix(NewUpto(forest, i, b), Units(AsIndefinite(forest)))
            /\ i = Len(forest) /\ o = << >> =>
                 NewUpto(forest, i, b) = Units(AsIndefinite(forest))
        BY <3>3, IndefiniteOutput
      <4> QED
        BY <3>3, <3>4, <3>6, <4>1, <4>2, Zenon
    <3>7. CASE target = "definite"
      <4>1. Expected = NewUnits(forest)
        BY <3>7 DEF Expected, NewUnits
      <4>2. /\ IsPrefix(writers[1].items, NewUnits(forest))
            /\ i = Len(forest) /\ o = << >> => writers[1].items = NewUnits(forest)
        BY <3>3, <3>7, DefiniteOutput
      <4> QED
        BY <3>4, <4>1, <4>2, Zenon
    <3> QED
      BY <3>5, <3>6, <3>7
  <2> QED
    BY <2>1, <2>2
<1> QED
  BY <1>2, EndsAre, Zenon DEF SameForest

(* No unit is read before the first place. *)
LEMMA FormInit ==
  ASSUME Init
  PROVE  FormFacts
<1>1. /\ forest \in AllForests /\ units \in Inputs(forest) /\ read = 0 /\ pc = "read"
      /\ writers = <<EmptyWriter>> /\ lengthStack = <<0>> /\ writtenStack = <<0>>
      /\ consTop = 0 /\ consStack = << >>
  BY InputForest DEF Init
<1>2. units \in Seq(EncodedUnit)
  BY <1>1, InputTyped, Zenon
<1>3. SubSeq(units, 1, 0) = << >> /\ writers[1].items = << >>
  BY <1>1, <1>2 DEF EmptyWriter
<1>4. ASSUME NEW f \in AllForests PROVE Follows(f)
  <2>1. Place(f, 0, 1, << >>, << >>)
    BY PlaceBegins
  <2>2. \A g : Walked(g, 0, 1) = << >>
    BY DEF Walked
  <2>3. At(f, 0, 1) = 0
    <3>1. SpanOf(<< >>) = 0
      BY SpanOfNothing
    <3> QED
      BY <2>2, <3>1 DEF At
  <2>4. Counting(f, << >>, <<0>>, <<0>>, 0)
    BY DEF Counting, CountingOf, ContentFrom
  <2>5. Layered(f, 0, << >>, consStack, consTop, writers)
    <3>1. SubSeq(NewUnits(f), 1, 0) = << >>
      BY NewUnitsAre
    <3>2. From(<< >>, 0 + 1) + 1 = 1
      BY DEF From
    <3>3. writers[0 + 1].items = SubSeq(NewUnits(f), From(<< >>, 0 + 1) + 1, 0)
      <4>1. writers[0 + 1] = writers[1]
        OBVIOUS
      <4> QED
        BY <1>3, <3>1, <3>2, <4>1
    <3>4. \A x : Len(<< >>) = 0 /\ ~(x \in 1 .. 0)
      OBVIOUS
    <3> QED
      BY <1>1, <3>3, <3>4 DEF Layered
  <2>6. Walking(f, 0, 1, << >>, << >>) /\ Settled(f, 0, << >>)
    BY <1>1, <1>3, <2>1, <2>2, <2>3, <2>4, <2>5 DEF Walking, NewUpto, Settled
  <2>7. \E i, b, o, d : Walking(f, i, b, o, d) /\ (pc # "close" => Settled(f, i, o))
    BY <2>6, Zenon
  <2> QED
    BY <1>1, <2>7 DEF Follows
<1> QED
  BY <1>1, <1>3, <1>4 DEF FormFacts

(* Reading a unit goes on with the walk. *)
LEMMA FormReads ==
  ASSUME Facts, FormFacts, NEW u,
         \/ Copy(u)
         \/ CopyPrimitive(u) \/ CopyIndefinite(u) \/ OpenDefinite(u)
         \/ WritePrimitive(u) \/ WriteEoc(u) \/ WriteConstructed(u)
  PROVE  FormFacts'
<1>1. PICK t : Next(t, u)
  BY Zenon DEF Copy, CopyPrimitive, CopyIndefinite, OpenDefinite,
               WritePrimitive, WriteEoc, WriteConstructed
<1>2. /\ forest' = forest /\ units' = units /\ target' = target
      /\ read \in Nat /\ read < Len(units) /\ read' = read + 1
      /\ u = units[read + 1] /\ units \in Seq(EncodedUnit)
  BY <1>1, NextUnit
<1>3. pc = "read" /\ forest' \in AllForests /\ units' \in Inputs(forest')
  BY <1>1, <1>2 DEF Next, FormFacts
<1>4. CASE Copy(u)
  <2>1. target = "identity" /\ pc' = pc /\ writers' = WriteTo(writers, 1, u)
    BY <1>4 DEF Copy, Next
  <2>2. writers'[1].items = Append(SubSeq(units, 1, read), u)
    BY <2>1, OutputWritten DEF FormFacts
  <2>3. Append(SubSeq(units, 1, read), u) = SubSeq(units, 1, read + 1)
    <3>1. 1 \in Nat /\ 1 <= 1 /\ 1 <= read + 1 /\ read + 1 <= Len(units)
      BY <1>2
    <3> QED
      BY <1>2, <3>1, SubSeqAppend
  <2> QED
    BY <1>2, <1>3, <2>1, <2>2, <2>3 DEF FormFacts
<1>5. CASE ~Copy(u)
  <2>1. /\ target # "identity" /\ pc' \in {"close", "undefined"}
        /\ pc' = "undefined" => target = "definite"
    BY <1>5 DEF CopyPrimitive, CopyIndefinite, OpenDefinite,
                WritePrimitive, WriteEoc, WriteConstructed, NoTagToPop, Next
  <2>2. ASSUME NEW f \in AllForests, IsPrefix(units, Units(f))
        PROVE  Follows(f)'
    <3>1. PICK i, b, o, d : Walking(f, i, b, o, d) /\ Settled(f, i, o)
      BY <1>3, <2>1, <2>2 DEF FormFacts, Follows
    <3>2. pc' = "close" /\ \E j, c, p, e : Walking(f, j, c, p, e)'
      <4>1. CASE CopyPrimitive(u) \/ CopyIndefinite(u) \/ OpenDefinite(u)
        <5>1. pc' = "close"
          BY <4>1 DEF CopyPrimitive, CopyIndefinite, OpenDefinite
        <5> QED
          BY <2>2, <3>1, <4>1, <5>1, IndefiniteReads
      <4>2. CASE WritePrimitive(u) \/ WriteEoc(u) \/ WriteConstructed(u)
        BY <2>2, <3>1, <4>2, DefiniteReads
      <4> QED
        BY <1>5, <4>1, <4>2
    <3> QED
      BY <3>2 DEF Follows
  <2>3. \A f \in AllForests : IsPrefix(units', Units(f)) => Follows(f)'
    BY <1>2, <2>2
  <2> QED
    BY <1>2, <1>3, <2>1, <2>3 DEF FormFacts
<1> QED
  BY <1>4, <1>5

(* So does the end of a definite tag. *)
LEMMA FormEnds ==
  ASSUME Facts, FormFacts, CloseAsIndefinite \/ CloseAsDefinite
  PROVE  FormFacts'
<1>1. /\ pc = "close" /\ forest' = forest /\ units' = units /\ target' = target
      /\ read' = read /\ target # "identity" /\ pc' \in {"close", "undefined"}
      /\ pc' = "undefined" => target = "definite"
      /\ forest' \in AllForests /\ units' \in Inputs(forest')
  BY DEF CloseAsIndefinite, CloseAsDefinite, NoTagToPop, input, FormFacts
<1>2. ASSUME NEW f \in AllForests, IsPrefix(units, Units(f))
      PROVE  Follows(f)'
  <2>1. PICK i, b, o, d : Walking(f, i, b, o, d)
    BY <1>1, <1>2 DEF FormFacts, Follows
  <2>2. pc' = "close" /\ \E j, c, p, e : Walking(f, j, c, p, e)'
    BY <1>2, <2>1, FormCloses
  <2> QED
    BY <2>2 DEF Follows
<1>3. \A f \in AllForests : IsPrefix(units', Units(f)) => Follows(f)'
  BY <1>1, <1>2
<1> QED
  BY <1>1, <1>3 DEF FormFacts

(* Nothing is written: where no definite tag is complete, the next unit is *)
(* read, or the end is reached.                                            *)
LEMMA FormRests ==
  ASSUME Facts, FormFacts, NothingToClose \/ End \/ UNCHANGED vars
  PROVE  FormFacts'
<1>1. /\ forest' = forest /\ units' = units /\ target' = target /\ read' = read
      /\ lengthStack' = lengthStack /\ writtenStack' = writtenStack
      /\ consStack' = consStack /\ consTop' = consTop /\ writers' = writers
      /\ forest' \in AllForests /\ units' \in Inputs(forest')
  BY DEF NothingToClose, End, vars, input, counters, levels, FormFacts
<1>2. /\ pc' = "done" => read' = Len(units') /\ (target' = "definite" => consTop' = 0)
      /\ pc' = "failed" => target' = "definite" /\ read' = Len(units') /\ consTop' # 0
      /\ pc' = "undefined" => pc = "undefined" /\ target' = "definite"
  <2>1. CASE NothingToClose
    BY <2>1 DEF NothingToClose
  <2>2. CASE End
    <3>1. writerTop = consTop + 1 /\ consTop \in Nat
      BY DEF Facts, LevelFacts
    <3> QED
      BY <1>1, <2>2, <3>1 DEF End
  <2>3. CASE UNCHANGED vars
    BY <1>1, <2>3 DEF vars, FormFacts
  <2> QED
    BY <2>1, <2>2, <2>3
<1>3. ASSUME target # "identity", NEW f \in AllForests, IsPrefix(units, Units(f))
      PROVE  Follows(f)'
  <2>1. PICK i, b, o, d : Walking(f, i, b, o, d) /\ (pc # "close" => Settled(f, i, o))
    BY <1>3 DEF FormFacts, Follows
  <2>2. Walking(f, i, b, o, d)'
    BY <1>1, <2>1, ZenonT(60) DEF Walking
  <2>3. pc' # "undefined"
    BY <1>2, <1>3 DEF FormFacts, Follows
  <2>4. pc' # "close" => Settled(f, i, o)
    <3>1. CASE NothingToClose
      <4>1. ~Complete
        <5>1. lengthStack # << >>
          BY DEF Facts, CounterFacts, Rooted
        <5> QED
          BY <3>1, <5>1 DEF NothingToClose
      <4>2. /\ Place(f, i, b, o, d)
            /\ Counting(f, d, lengthStack, writtenStack, At(f, i, b))
            /\ Last(lengthStack) # Last(writtenStack)
        BY <2>1, <4>1, Zenon DEF Walking, Complete
      <4> QED
        BY <4>2, NoneComplete
    <3>2. CASE End
      BY <2>1, <3>2 DEF End
    <3>3. CASE UNCHANGED vars
      BY <2>1, <3>3 DEF vars
    <3> QED
      BY <3>1, <3>2, <3>3
  <2> QED
    BY <2>2, <2>3, <2>4 DEF Follows
<1>4. target' # "identity" => \A f \in AllForests : IsPrefix(units', Units(f)) => Follows(f)'
  BY <1>1, <1>3
<1>5. target' = "identity" => writers'[1].items = SubSeq(units', 1, read')
  BY <1>1 DEF FormFacts
<1> QED
  BY <1>1, <1>2, <1>4, <1>5 DEF FormFacts

(* Every step keeps both. *)
LEMMA FormsKeep ==
  ASSUME Facts, FormFacts, [Step \/ (Ended /\ UNCHANGED vars)]_vars
  PROVE  Facts' /\ FormFacts'
<1>1. ASSUME NEW u, \/ Copy(u)
                    \/ CopyPrimitive(u) \/ CopyIndefinite(u) \/ OpenDefinite(u)
                    \/ WritePrimitive(u) \/ WriteEoc(u) \/ WriteConstructed(u)
      PROVE  Facts' /\ FormFacts'
  BY <1>1, CopiesKeep, UnitsKeep, FormReads
<1>2. CASE CloseAsIndefinite \/ CloseAsDefinite
  BY <1>2, EndsKeep, FormEnds
<1>3. CASE NothingToClose \/ End
  BY <1>3, EndsKeep, FormRests
<1>4. CASE UNCHANGED vars
  BY <1>4, NothingKeeps, FormRests
<1> QED
  BY <1>1, <1>2, <1>3, <1>4 DEF Step

(* For every forest, whatever its nodes and depth, and whatever unit its   *)
(* encoding ends after: each of the three converters writes that forest in *)
(* the other form, or the beginning of it, and all of it if the input is   *)
(* complete; the counters find the end of each definite tag where it is    *)
(* (ber2ber.cc:29-290).                                                    *)
THEOREM FormsSame == Spec => []SameForest
<1>1. Init => Facts /\ FormFacts
  BY InitFacts, FormInit
<1>2. Facts /\ FormFacts /\ [Step \/ (Ended /\ UNCHANGED vars)]_vars =>
        Facts' /\ FormFacts'
  BY FormsKeep
<1>3. Facts /\ FormFacts => SameForest
  BY FormsAre
<1> QED
  BY <1>1, <1>2, <1>3, PTL DEF Spec

(***************************************************************************)
(* Unbalanced tags                                                         *)
(***************************************************************************)
(* Behind all units of a forest lies its last node. *)
LEMMA AllWalked ==
  ASSUME NEW f \in AllForests, NEW i \in 0 .. Len(f), NEW b \in Nat, b >= 1,
         Walked(f, i, b) = Units(f)
  PROVE  i = Len(f)
<1> DEFINE N == Len(f)
           p == At(f, i, b)
           q == At(f, N, 1)
<1>1. i \in Nat /\ N \in Nat /\ i <= N
  BY NodesTyped
<1>2. p = q /\ p \in Nat
  BY WalkedAll, WalkedTyped DEF At
<1> HIDE DEF p, q
<1> SUFFICES ASSUME i # N PROVE FALSE
  OBVIOUS
<1>3. N \in (i + 1) .. N /\ 1 \in Nat /\ b > 0
  BY <1>1
<1>4. p + 2 <= q
  BY <1>1, <1>3, AtGrows DEF p, q, N
<1> QED
  BY <1>2, <1>4

(* Ber2Def does not refuse a complete forest. *)
LEMMA AcceptsBalanced ==
  ASSUME Facts, FormFacts, target = "definite", Ended,
         NEW f \in AllForests, units = Units(f)
  PROVE  pc = "done"
<1>1. units \in Seq(EncodedUnit) /\ Len(units) \in Nat
  BY DEF Facts, InputFacts
<1>2. IsPrefix(units, Units(f))
  BY <1>1, PrefixIs
<1>3. pc \in {"done", "failed", "undefined"} /\ Follows(f)
  BY <1>2 DEF Ended, FormFacts
<1>4. PICK i, b, o, d : Walking(f, i, b, o, d) /\ (pc # "close" => Settled(f, i, o))
  BY <1>3 DEF Follows
<1> SUFFICES ASSUME pc = "failed" PROVE FALSE
  BY <1>3 DEF Follows
<1>5. /\ read = Len(units) /\ consTop # 0
  BY DEF FormFacts
<1>6. /\ Place(f, i, b, o, d) /\ Settled(f, i, o)
      /\ SubSeq(units, 1, read) = Walked(f, i, b)
      /\ Layered(f, i, o, consStack, consTop, writers)
  BY <1>4 DEF Walking
<1>7. SubSeq(units, 1, read) = units
  <2>1. Len(units) <= Len(units)
    BY <1>1
  <2> QED
    BY <1>1, <1>5, <2>1, FirstPart
<1>8. o = << >>
  <2>1. Walked(f, i, b) = Units(f)
    BY <1>6, <1>7
  <2> QED
    BY <1>6, <2>1, AllRead
<1> QED
  BY <1>5, <1>6, <1>8 DEF Layered

(* What it does not refuse of a forest are its first trees. *)
LEMMA DoneBalanced ==
  ASSUME Facts, FormFacts, target = "definite", pc = "done", Encoded
  PROVE  \E n \in 0 .. Len(forest) : units = Units(SubSeq(forest, 1, n))
<1> DEFINE f == forest
<1>1. /\ units \in Seq(EncodedUnit) /\ Len(units) \in Nat /\ f \in AllForests
      /\ read = Len(units) /\ consTop = 0 /\ Follows(f)
  BY DEF Facts, InputFacts, FormFacts, Encoded
<1> HIDE DEF f
<1>2. PICK i, b, o, d : Walking(f, i, b, o, d)
  BY <1>1 DEF Follows
<1>3. /\ Place(f, i, b, o, d)
      /\ SubSeq(units, 1, read) = Walked(f, i, b)
      /\ Layered(f, i, o, consStack, consTop, writers)
  BY <1>2 DEF Walking
<1>4. units = Walked(f, i, b)
  <2>1. Len(units) <= Len(units)
    BY <1>1
  <2> QED
    BY <1>1, <1>3, <2>1, FirstPart
<1>5. WalkAt(f, i, b, o) /\ i \in 0 .. Len(f) /\ o \in Seq(Nat) /\ i \in Nat /\ Len(f) \in Nat
  BY <1>1, <1>3, PlaceTyped, NodesTyped
<1>6. o = << >> /\ Open(f, i, b) = {}
  <2>1. Len(o) = 0
    BY <1>1, <1>3 DEF Layered
  <2>2. o = << >>
    BY <1>5, <2>1
  <2> QED
    BY <1>5, <2>2, AscendingNone DEF WalkAt
<1>7. AllEnd(f, i)
  <2>1. ASSUME NEW k \in 1 .. i PROVE LastOf(f, k) <= i
    <3>1. k \in 1 .. Len(f) /\ LastOf(f, k) \in Nat
      <4>1. k \in 1 .. Len(f)
        BY <1>5
      <4> QED
        BY <1>1, <1>5, <4>1, LastIs DEF IsLast
    <3>2. CASE f[k].form = "primitive"
      BY <1>1, <3>1, <3>2, PrimitiveLast
    <3>3. CASE f[k].form # "primitive"
      <4>1. ~(LastOf(f, k) > i)
        BY <1>6, <3>3 DEF Open
      <4> QED
        BY <1>5, <3>1, <4>1
    <3> QED
      BY <3>2, <3>3
  <2> QED
    BY <1>5, <2>1 DEF AllEnd
<1>8. Walked(f, i, b) = Walked(f, i, 1)
  BY <1>1, <1>5, <1>6, WalkRest DEF NoneEnds
<1>9. Units(SubSeq(f, 1, i)) = Walked(f, i, 1)
  BY <1>1, <1>7, FirstTrees
<1> QED
  BY <1>4, <1>5, <1>8, <1>9 DEF f

(***************************************************************************)
(* A length that is too short                                              *)
(***************************************************************************)
(* us is the encoding of f, but the length of node n is one octet less     *)
(* than what is inside of it.                                              *)
Shortened(f, n, us) ==
  /\ n \in 1 .. Len(f) /\ f[n].form = "definite" /\ Inner(f)[n] > 0
  /\ us \in Seq(EncodedUnit) /\ Len(us) = Len(Units(f))
  /\ us[Begin(f, n)] = SetLength(HeadOf(f, n), Inner(f)[n] - 1)
  /\ \A x \in 1 .. Len(us) : x # Begin(f, n) => us[x] = Units(f)[x]

(* The units of a forest *)
LEMMA AllUnits ==
  ASSUME NEW f \in AllForests, NEW n \in 1 .. Len(f)
  PROVE  /\ Units(f) \in Seq(EncodedUnit) /\ Len(Units(f)) \in Nat
         /\ Begin(f, n) \in 1 .. Len(Units(f)) /\ Units(f)[Begin(f, n)] = HeadOf(f, n)
<1> DEFINE N == Len(f)
<1>1. N \in 1 .. Len(f) /\ 1 \in Nat /\ 1 >= 1 /\ n \in 1 .. N /\ N \in 0 .. Len(f)
  BY NodesTyped
<1>2. Walked(f, N, 1) = Units(f)
  BY WalkedAll
<1> HIDE DEF N
<1>3. /\ Begin(f, n) \in 1 .. Len(Walked(f, N, 1))
      /\ Walked(f, N, 1)[Begin(f, n)] = HeadOf(f, n)
  BY <1>1, BeginsGrow, ReadInside
<1>4. Units(f) \in Seq(EncodedUnit)
  BY UnitsTyped
<1> HIDE DEF N
<1> QED
  BY <1>2, <1>3, <1>4

(* An input with a short length is one of these. *)
LEMMA ShortIs ==
  ASSUME NEW f \in AllForests, NEW us \in WithShortLength(Units(f)),
         us \in Seq(EncodedUnit)
  PROVE  \E n : Shortened(f, n, us)
<1> DEFINE all == Units(f)
<1>1. all \in Seq(EncodedUnit) /\ all = Walked(f, Len(f), 1) /\ Len(f) \in 0 .. Len(f)
  BY UnitsTyped, WalkedAll, NodesTyped
<1>2. PICK x \in DOMAIN all :
        /\ all[x].shape = "constructed" /\ all[x].length > 0
        /\ us = [all EXCEPT ![x].length = @ - 1]
  BY Zenon DEF WithShortLength
<1>3. us = [all EXCEPT ![x] = SetLength(all[x], all[x].length - 1)]
  BY <1>2, Zenon DEF SetLength
<1> HIDE DEF all
<1>4. x \in 1 .. Len(all)
  BY <1>1
<1>5. PICK n \in 1 .. Len(f) : x = Begin(f, n)
  <2>1. 1 \in Nat
    OBVIOUS
  <2> QED
    BY <1>1, <1>2, <1>4, <2>1, HeadsFound
<1> DEFINE h == HeadOf(f, n)
<1>6. all[x] = h
  BY <1>5, AllUnits DEF all
<1>7. f[n].form = "definite" /\ h.length = Inner(f)[n]
  <2>1. f[n].form \in {"primitive", "definite", "indefinite"}
    BY HeadIs
  <2>2. f[n].form # "primitive"
    <3>1. f[n].form = "primitive" => h.shape = "primitive"
      BY HeadParts
    <3> QED
      BY <1>2, <1>6, <3>1
  <2>3. f[n].form # "indefinite"
    <3>1. f[n].form = "indefinite" => h.length = 0
      BY HeadIs DEF Record
    <3> QED
      BY <1>2, <1>6, <3>1
  <2>4. f[n].form = "definite" => h.length = Inner(f)[n]
    BY HeadParts
  <2> QED
    BY <2>1, <2>2, <2>3, <2>4
<1>8. us = [all EXCEPT ![x] = SetLength(h, Inner(f)[n] - 1)]
  BY <1>3, <1>6, <1>7
<1> DEFINE v == SetLength(h, Inner(f)[n] - 1)
<1>9. Inner(f)[n] > 0
  BY <1>2, <1>6, <1>7
<1> HIDE DEF h, v
<1>10. /\ Len(us) = Len(all) /\ us[x] = v
       /\ \A y \in 1 .. Len(us) : y # x => us[y] = all[y]
  <2>1. us = [all EXCEPT ![x] = v]
    BY <1>8 DEF v
  <2> QED
    BY <1>1, <1>4, <2>1
<1> QED
  BY <1>5, <1>7, <1>9, <1>10 DEF Shortened, all, v, h

(* The lengths of the definite tags that are in the input *)
GivenInner(f, n) == [Inner(f) EXCEPT ![n] = @ - 1]

(* Only that of node n is another one. *)
LEMMA GivenIs ==
  ASSUME NEW f \in AllForests, NEW n \in 1 .. Len(f), Inner(f)[n] > 0
  PROVE  /\ GivenInner(f, n) \in [1 .. Len(f) -> Nat]
         /\ GivenInner(f, n)[n] = Inner(f)[n] - 1 /\ Inner(f)[n] \in Nat
         /\ \A k \in 1 .. Len(f) : k # n => GivenInner(f, n)[k] = Inner(f)[k]
<1>1. Inner(f) \in [1 .. Len(f) -> Nat]
  BY InnerTyped
<1> DEFINE I == Inner(f)
<1> HIDE DEF I
<1>2. I \in [1 .. Len(f) -> Nat] /\ I[n] > 0
  BY <1>1 DEF I
<1>3. GivenInner(f, n) = [I EXCEPT ![n] = @ - 1]
  BY DEF GivenInner, I
<1>4. I[n] \in Nat /\ I[n] - 1 \in Nat
  BY <1>2
<1>5. /\ GivenInner(f, n) \in [1 .. Len(f) -> Nat]
      /\ GivenInner(f, n)[n] = I[n] - 1
      /\ \A k \in 1 .. Len(f) : k # n => GivenInner(f, n)[k] = I[k]
  BY <1>2, <1>3, <1>4
<1> QED
  BY <1>4, <1>5 DEF I

(* An end-of-content unit of node k is read behind node i. *)
Ending(f, i, k) == f[k].form = "indefinite" /\ LastOf(f, k) = i

(* The next unit, whatever the converter holds open: the header of the     *)
(* next node, or the EOC of the innermost indefinite one that ends here.   *)
LEMMA NextAt ==
  ASSUME NEW f \in AllForests, NEW i \in 0 .. Len(f), NEW b \in 1 .. (i + 1),
         Len(Walked(f, i, b)) < Len(Units(f))
  PROVE  LET r == Len(Walked(f, i, b))
             u == Units(f)[r + 1]
         IN  \/ /\ i < Len(f) /\ \A j \in 1 .. (b - 1) : ~Ending(f, i, j)
                /\ u = HeadOf(f, i + 1) /\ Begin(f, i + 1) = r + 1
                /\ At(f, i + 1, i + 2) = At(f, i, b) + Span(HeadOf(f, i + 1))
             \/ \E k \in 1 .. (b - 1) :
                  /\ Ending(f, i, k) /\ \A j \in (k + 1) .. (b - 1) : ~Ending(f, i, j)
                  /\ u = Eoc /\ Len(Walked(f, i, k)) = r + 1
                  /\ At(f, i, k) = At(f, i, b) + 2
<1> DEFINE all == Units(f)
           w == Walked(f, i, b)
           r == Len(w)
<1>1. i \in Nat /\ Len(f) \in Nat /\ b \in Nat /\ b >= 1 /\ 1 \in Nat /\ b - 1 <= i
  BY NodesTyped
<1>2. all \in Seq(EncodedUnit) /\ w \in Seq(EncodedUnit) /\ r \in Nat
  <2>1. w \in Seq(EncodedUnit)
    BY <1>1, WalkedTyped
  <2> QED
    BY <2>1, UnitsTyped
<1>3. ASSUME NEW j \in 0 .. Len(f), NEW c \in Nat, c >= 1, NEW x \in EncodedUnit,
             Walked(f, j, c) = Append(w, x)
      PROVE  all[r + 1] = x /\ Len(Walked(f, j, c)) = r + 1
  <2>1. IsPrefix(Append(w, x), all)
    BY <1>3, WalkedPrefix
  <2> HIDE DEF all, w
  <2> DEFINE v == Append(w, x)
  <2>2. v \in Seq(EncodedUnit) /\ Len(v) = r + 1 /\ v[r + 1] = x
    BY <1>2
  <2>3. Walked(f, j, c) = v /\ IsPrefix(v, all)
    BY <1>3, <2>1
  <2> HIDE DEF v
  <2>4. \A m \in 1 .. Len(v) : v[m] = all[m]
    BY <1>2, <2>2, <2>3, PrefixIs
  <2>5. r + 1 \in 1 .. Len(v)
    BY <1>2, <2>2
  <2> QED
    BY <2>2, <2>3, <2>4, <2>5
<1>4. CASE \A j \in 1 .. (b - 1) : ~Ending(f, i, j)
  <2>1. w = Walked(f, i, 1) /\ At(f, i, b) = At(f, i, 1)
    BY <1>1, <1>4, WalkedSame DEF Ending
  <2>2. i < Len(f)
    <3> SUFFICES ASSUME i = Len(f) PROVE FALSE
      BY <1>1
    <3>1. w = all
      BY <2>1, WalkedAll
    <3> QED
      BY <1>2, <3>1
  <2> DEFINE k == i + 1
             h == HeadOf(f, k)
  <2>3. k \in 1 .. Len(f) /\ k \in 0 .. Len(f) /\ k - 1 = i /\ k + 1 = i + 2
        /\ k + 1 \in Nat /\ k + 1 >= 1
    BY <1>1, <2>2
  <2>4. h \in EncodedUnit
    BY <2>3, HeadTyped
  <2>5. Walked(f, k, k + 1) = Append(Walked(f, k - 1, 1), h)
        /\ At(f, k, k + 1) = At(f, k - 1, 1) + Span(h)
    BY <2>3, WalkedHead
  <2> HIDE DEF h
  <2>6. Walked(f, k, k + 1) = Append(w, h)
    BY <2>1, <2>3, <2>5
  <2>7. all[r + 1] = h /\ Len(Walked(f, k, k + 1)) = r + 1
    <3> HIDE DEF k, all, w
    <3> QED
      BY <1>3, <2>3, <2>4, <2>6
  <2>8. Begin(f, k) = r + 1
    BY <2>7 DEF Begin
  <2> QED
    BY <1>4, <2>1, <2>2, <2>3, <2>5, <2>7, <2>8 DEF h
<1>5. CASE \E j \in 1 .. (b - 1) : Ending(f, i, j)
  <2> DEFINE S == {c \in 1 .. (b - 1) : Ending(f, i, b - c)}
  <2>1. S \subseteq Nat /\ S # {}
    <3>1. PICK j \in 1 .. (b - 1) : Ending(f, i, j)
      BY <1>5
    <3>2. b - j \in 1 .. (b - 1) /\ b - (b - j) = j
      BY <1>1
    <3>3. b - j \in S
      BY <3>1, <3>2
    <3>4. S \subseteq Nat
      OBVIOUS
    <3> HIDE DEF S
    <3> QED
      BY <3>3, <3>4
  <2>2. PICK c \in S : \A e \in S : c <= e
    <3> HIDE DEF S
    <3> QED
      BY <2>1, Smallest
  <2> DEFINE k == b - c
  <2>3. /\ k \in 1 .. (b - 1) /\ k \in 1 .. i /\ i \in 1 .. Len(f) /\ k \in Nat /\ k >= 1
        /\ k + 1 \in Nat /\ k + 1 <= b
    BY <1>1
  <2>4. Ending(f, i, k)
    BY DEF S
  <2>5. ASSUME NEW j \in (k + 1) .. (b - 1) PROVE ~Ending(f, i, j)
    <3> DEFINE e == b - j
    <3>1. e \in 1 .. (b - 1) /\ b - e = j /\ e < c /\ e \in Nat
      BY <1>1, <2>3
    <3>2. Ending(f, i, j) => e \in S
      BY <3>1
    <3>3. c \in Nat
      OBVIOUS
    <3> HIDE DEF S, e
    <3> QED
      BY <2>2, <3>1, <3>2, <3>3
  <2> HIDE DEF k, S
  <2>6. w = Walked(f, i, k + 1) /\ At(f, i, b) = At(f, i, k + 1)
    BY <1>1, <2>3, <2>5, WalkedSame DEF Ending
  <2>7. Walked(f, i, k) = Append(w, Eoc) /\ At(f, i, k) = At(f, i, b) + 2
    BY <2>3, <2>4, <2>6, WalkedEoc DEF Ending
  <2>8. all[r + 1] = Eoc /\ Len(Walked(f, i, k)) = r + 1
    <3> HIDE DEF all, w
    <3> QED
      BY <1>3, <2>3, <2>7, EocTyped
  <2> QED
    BY <2>3, <2>4, <2>5, <2>7, <2>8
<1> QED
  BY <1>4, <1>5

(* The definite tags D on the stack have not ended, or node n is one of    *)
(* them, and those around it wait for it.                                  *)
Stuck(f, n, i, b, D) ==
  /\ D \subseteq {k \in 1 .. i : f[k].form = "definite"}
  /\ \A k \in D : k \in Open(f, i, b) \/ (n <= i /\ k <= n)
  /\ n <= i => n \in D

(* None of them is complete, other than those.                             *)
Quiet(f, n, i, b, D) ==
  \A k \in D :
    /\ k \in Open(f, i, b) /\ LastOf(f, k) = i
    /\ \A j \in k .. (b - 1) : ~Ending(f, i, j)
    => n <= i /\ k <= n

(* The indefinite tags that wait for an end-of-content unit *)
Waiting(f, i, b) == {k \in Open(f, i, b) : f[k].form = "indefinite"}

(* The next node begins: the nodes around it. *)
LEMMA NextOpen ==
  ASSUME NEW f \in AllForests, NEW i \in 0 .. Len(f), NEW b \in 1 .. (i + 1), i < Len(f),
         NEW k, k = i + 1
  PROVE  /\ \A j \in 1 .. k :
              /\ LastOf(f, j) \in Nat /\ LastOf(f, j) >= j
              /\ f[j].form # "primitive" /\ LastOf(f, j) >= k => j \in Open(f, k, k + 1)
              /\ j \in Open(f, k, k + 1) => f[j].form # "primitive" /\ LastOf(f, j) >= k
         /\ \A j \in Open(f, i, b) :
              /\ j \in 1 .. i /\ j \in 1 .. k /\ f[j].form # "primitive"
              /\ LastOf(f, j) >= k \/ (LastOf(f, j) = i /\ j < b)
<1>1. /\ i \in Nat /\ Len(f) \in Nat /\ k \in 1 .. Len(f) /\ b \in Nat
      /\ i <= Len(f) /\ b - 1 <= i
  BY NodesTyped
<1>2. ASSUME NEW j \in 1 .. k
      PROVE  /\ LastOf(f, j) \in Nat /\ LastOf(f, j) >= j
             /\ f[j].form # "primitive" /\ LastOf(f, j) >= k => j \in Open(f, k, k + 1)
             /\ j \in Open(f, k, k + 1) => f[j].form # "primitive" /\ LastOf(f, j) >= k
  <2>1. j \in 1 .. Len(f) /\ j < k + 1
    BY <1>1
  <2>2. LastOf(f, j) \in Nat /\ LastOf(f, j) >= j
    BY <1>1, <2>1, LastIs DEF IsLast
  <2> DEFINE l == LastOf(f, j)
  <2> HIDE DEF l
  <2>3. f[j].form # "primitive" /\ l >= k => j \in Open(f, k, k + 1)
    BY <1>1, <2>1, <2>2 DEF Open, l
  <2>4. j \in Open(f, k, k + 1) => f[j].form # "primitive" /\ l >= k
    BY <1>1, <2>1, <2>2 DEF Open, l
  <2> QED
    BY <2>2, <2>3, <2>4 DEF l
<1>3. ASSUME NEW j \in Open(f, i, b)
      PROVE  /\ j \in 1 .. i /\ j \in 1 .. k /\ f[j].form # "primitive"
             /\ LastOf(f, j) >= k \/ (LastOf(f, j) = i /\ j < b)
  <2>1. /\ j \in 1 .. i /\ f[j].form # "primitive"
        /\ LastOf(f, j) > i \/ (LastOf(f, j) = i /\ j < b)
    BY DEF Open
  <2>2. j \in 1 .. k
    BY <1>1, <2>1
  <2> QED
    BY <1>1, <1>2, <2>1, <2>2
<1> QED
  BY <1>2, <1>3

(* The definite tags on the stack; *)
LEMMA StuckOpens ==
  ASSUME NEW f \in AllForests, NEW n \in 1 .. Len(f), f[n].form = "definite",
         NEW i \in 0 .. Len(f), NEW b \in 1 .. (i + 1), NEW D, Stuck(f, n, i, b, D),
         Quiet(f, n, i, b, D), i < Len(f), \A j \in 1 .. (b - 1) : ~Ending(f, i, j),
         NEW k, k = i + 1
  PROVE  /\ f[k].form = "definite" => Stuck(f, n, k, k + 1, D \cup {k})
         /\ f[k].form # "definite" => Stuck(f, n, k, k + 1, D)
<1> DEFINE E == IF f[k].form = "definite" THEN D \cup {k} ELSE D
<1>1. /\ i \in Nat /\ n \in Nat /\ Len(f) \in Nat /\ k \in 1 .. Len(f) /\ b \in Nat
      /\ i <= Len(f) /\ b - 1 <= i
  BY NodesTyped
<1>2. \A j \in 1 .. k :
        /\ LastOf(f, j) \in Nat /\ LastOf(f, j) >= j
        /\ f[j].form # "primitive" /\ LastOf(f, j) >= k => j \in Open(f, k, k + 1)
  BY NextOpen
<1>3. \A j \in Open(f, i, b) :
        /\ j \in 1 .. i /\ j \in 1 .. k /\ f[j].form # "primitive"
        /\ LastOf(f, j) >= k \/ (LastOf(f, j) = i /\ j < b)
  BY NextOpen
<1>4. Stuck(f, n, k, k + 1, E)
  <2>1. E \subseteq {j \in 1 .. k : f[j].form = "definite"}
    BY <1>1 DEF Stuck
  <2>2. ASSUME NEW j \in E PROVE j \in Open(f, k, k + 1) \/ (n <= k /\ j <= n)
    <3>1. CASE j \in D
      <4>1. j \in Open(f, i, b) \/ (n <= i /\ j <= n)
        BY <3>1 DEF Stuck
      <4>2. CASE n <= i /\ j <= n
        BY <1>1, <4>2
      <4>3. CASE j \in Open(f, i, b) /\ LastOf(f, j) >= k
        BY <1>2, <1>3, <4>3
      <4>4. CASE j \in Open(f, i, b) /\ LastOf(f, j) = i
        <5>1. \A m \in j .. (b - 1) : ~Ending(f, i, m)
          BY <1>3, <4>4
        <5>2. n <= i /\ j <= n
          BY <3>1, <4>4, <5>1 DEF Quiet
        <5> QED
          BY <1>1, <5>2
      <4> QED
        BY <1>3, <4>1, <4>2, <4>3, <4>4
    <3>2. CASE j = k /\ f[k].form = "definite"
      <4>1. j \in 1 .. k /\ f[j].form # "primitive"
        BY <1>1, <3>2
      <4> QED
        BY <1>2, <3>2, <4>1
    <3> QED
      BY <3>1, <3>2
  <2>3. n <= k => n \in E
    <3>1. CASE n <= i
      BY <3>1 DEF Stuck
    <3>2. CASE n = k
      BY <3>2
    <3> QED
      BY <1>1, <3>1, <3>2
  <2> HIDE DEF E
  <2> QED
    BY <2>1, <2>2, <2>3 DEF Stuck
<1>5. /\ f[k].form = "definite" => Stuck(f, n, k, k + 1, D \cup {k})
      /\ f[k].form # "definite" => Stuck(f, n, k, k + 1, D)
  BY <1>4
<1> QED
  BY <1>5

(* and the indefinite ones. *)
LEMMA WaitingOpens ==
  ASSUME NEW f \in AllForests, NEW i \in 0 .. Len(f), NEW b \in 1 .. (i + 1), i < Len(f),
         \A j \in 1 .. (b - 1) : ~Ending(f, i, j), NEW k, k = i + 1
  PROVE  /\ f[k].form = "indefinite" =>
              /\ Waiting(f, k, k + 1) = Waiting(f, i, b) \cup {k}
              /\ k \notin Waiting(f, i, b)
         /\ f[k].form # "indefinite" => Waiting(f, k, k + 1) = Waiting(f, i, b)
<1>1. /\ i \in Nat /\ Len(f) \in Nat /\ k \in 1 .. Len(f) /\ b \in Nat
      /\ i <= Len(f) /\ b - 1 <= i
  BY NodesTyped
<1>2. \A j \in 1 .. k :
        /\ LastOf(f, j) \in Nat /\ LastOf(f, j) >= j
        /\ f[j].form # "primitive" /\ LastOf(f, j) >= k => j \in Open(f, k, k + 1)
        /\ j \in Open(f, k, k + 1) => f[j].form # "primitive" /\ LastOf(f, j) >= k
  BY NextOpen
<1>3. \A j \in Open(f, i, b) :
        /\ j \in 1 .. i /\ j \in 1 .. k /\ f[j].form # "primitive"
        /\ LastOf(f, j) >= k \/ (LastOf(f, j) = i /\ j < b)
  BY NextOpen
<1>5. ASSUME NEW j \in Waiting(f, i, b) PROVE j \in Waiting(f, k, k + 1) /\ j # k
  <2>1. j \in Open(f, i, b) /\ f[j].form = "indefinite"
    BY DEF Waiting
  <2>2. ~(LastOf(f, j) = i /\ j < b)
    <3> SUFFICES ASSUME LastOf(f, j) = i, j < b PROVE FALSE
      OBVIOUS
    <3>1. j \in 1 .. (b - 1)
      BY <1>1, <1>3, <2>1
    <3> QED
      BY <2>1, <3>1 DEF Ending
  <2>3. j \in Open(f, k, k + 1)
    BY <1>2, <1>3, <2>1, <2>2
  <2> QED
    BY <1>1, <1>3, <2>1, <2>3 DEF Waiting
<1>6. ASSUME NEW j \in Waiting(f, k, k + 1)
      PROVE  j \in Waiting(f, i, b) \/ (j = k /\ f[k].form = "indefinite")
  <2>1. j \in Open(f, k, k + 1) /\ f[j].form = "indefinite" /\ j \in 1 .. k
    BY DEF Waiting, Open
  <2>2. LastOf(f, j) >= k /\ LastOf(f, j) \in Nat
    BY <1>2, <2>1
  <2>3. CASE j = k
    BY <2>1, <2>3
  <2>4. CASE j # k
    <3>1. j \in 1 .. i /\ LastOf(f, j) > i /\ f[j].form # "primitive"
      BY <1>1, <2>1, <2>2, <2>4
    <3>2. j \in Open(f, i, b)
      BY <3>1 DEF Open
    <3> QED
      BY <2>1, <3>2 DEF Waiting
  <2> QED
    BY <2>3, <2>4
<1>7. f[k].form = "indefinite" => k \in Waiting(f, k, k + 1)
  <2> SUFFICES ASSUME f[k].form = "indefinite" PROVE k \in Waiting(f, k, k + 1)
    OBVIOUS
  <2>1. k \in 1 .. k /\ f[k].form # "primitive"
    BY <1>1
  <2>2. k \in Open(f, k, k + 1)
    BY <1>2, <2>1
  <2> QED
    BY <2>2 DEF Waiting
<1> QED
  BY <1>5, <1>6, <1>7

(* An indefinite node ends. *)
LEMMA StuckCloses ==
  ASSUME NEW f \in AllForests, NEW n \in 1 .. Len(f), NEW i \in 0 .. Len(f),
         NEW b \in 1 .. (i + 1), NEW D, Stuck(f, n, i, b, D), Quiet(f, n, i, b, D),
         NEW k \in 1 .. (b - 1), Ending(f, i, k),
         \A j \in (k + 1) .. (b - 1) : ~Ending(f, i, j)
  PROVE  /\ k \in 1 .. (i + 1) /\ Stuck(f, n, i, k, D)
         /\ k \in Waiting(f, i, b) /\ Waiting(f, i, k) = Waiting(f, i, b) \ {k}
<1>1. /\ i \in Nat /\ n \in Nat /\ Len(f) \in Nat /\ b \in Nat /\ i <= Len(f)
      /\ b - 1 <= i /\ k \in 1 .. i /\ k \in Nat /\ k < b
  BY NodesTyped
<1>2. ASSUME NEW j \in Open(f, i, b), j \notin Open(f, i, k)
      PROVE  LastOf(f, j) = i /\ j \in k .. (b - 1)
  <2>1. /\ j \in 1 .. i /\ f[j].form # "primitive"
        /\ LastOf(f, j) > i \/ (LastOf(f, j) = i /\ j < b)
    BY DEF Open
  <2>2. ~(LastOf(f, j) > i) /\ ~(LastOf(f, j) = i /\ j < k)
    BY <1>2, <2>1 DEF Open
  <2> QED
    BY <1>1, <2>1, <2>2
<1>3. ASSUME NEW j \in Open(f, i, k)
      PROVE  j \in Open(f, i, b) /\ j # k
  <2>1. /\ j \in 1 .. i /\ f[j].form # "primitive"
        /\ LastOf(f, j) > i \/ (LastOf(f, j) = i /\ j < k)
    BY DEF Open
  <2>2. LastOf(f, j) > i \/ (LastOf(f, j) = i /\ j < b)
    BY <1>1, <2>1
  <2>3. j # k
    BY <1>1, <2>1 DEF Ending
  <2> QED
    BY <2>1, <2>2, <2>3 DEF Open
<1>4. Stuck(f, n, i, k, D)
  <2>1. ASSUME NEW j \in D PROVE j \in Open(f, i, k) \/ (n <= i /\ j <= n)
    <3> SUFFICES ASSUME j \in Open(f, i, b), j \notin Open(f, i, k)
                 PROVE  n <= i /\ j <= n
      BY DEF Stuck
    <3>1. LastOf(f, j) = i /\ j \in k .. (b - 1)
      BY <1>2
    <3>2. f[j].form = "definite"
      BY DEF Stuck
    <3>3. j # k
      BY <3>2 DEF Ending
    <3>4. \A m \in j .. (b - 1) : ~Ending(f, i, m)
      BY <1>1, <3>1, <3>3
    <3> QED
      BY <3>1, <3>4 DEF Quiet
  <2> QED
    BY <2>1 DEF Stuck
<1>5. k \in Waiting(f, i, b)
  BY <1>1 DEF Ending, Open, Waiting
<1>6. Waiting(f, i, k) \subseteq Waiting(f, i, b) \ {k}
  BY <1>3 DEF Waiting
<1>7. ASSUME NEW j \in Waiting(f, i, b), j # k PROVE j \in Waiting(f, i, k)
  <2>1. j \in Open(f, i, b) /\ f[j].form = "indefinite"
    BY DEF Waiting
  <2>2. j \in Open(f, i, k)
    <3> SUFFICES ASSUME j \notin Open(f, i, k) PROVE FALSE
      OBVIOUS
    <3>1. LastOf(f, j) = i /\ j \in k .. (b - 1)
      BY <1>2, <2>1
    <3>2. j \in (k + 1) .. (b - 1)
      BY <1>1, <1>7, <3>1
    <3> QED
      BY <2>1, <3>1, <3>2 DEF Ending
  <2> QED
    BY <2>1, <2>2 DEF Waiting
<1>8. Waiting(f, i, k) = Waiting(f, i, b) \ {k}
  BY <1>6, <1>7
<1>9. k \in 1 .. (i + 1)
  BY <1>1
<1> QED
  BY <1>4, <1>5, <1>8, <1>9

(* Nowhere is node n one octet from its end. *)
LEMMA NeverThere ==
  ASSUME NEW f \in AllForests, NEW n \in 1 .. Len(f), f[n].form = "definite",
         NEW i \in 0 .. Len(f), NEW b \in 1 .. (i + 1), n <= i
  PROVE  At(f, i, b) # At(f, n, n + 1) + (Inner(f)[n] - 1)
<1> DEFINE l == LastOf(f, n)
           p == At(f, i, b)
           q == At(f, l, n)
           a == At(f, n, n + 1)
           m == Inner(f)[n]
<1>1. /\ i \in Nat /\ b \in Nat /\ b > 0 /\ n \in Nat /\ n > 0 /\ Len(f) \in Nat
      /\ i <= Len(f) /\ n \in 0 .. Len(f) /\ n + 1 \in Nat
  BY NodesTyped
<1>2. l \in 0 .. Len(f) /\ l \in Nat
  BY <1>1, LastIs DEF IsLast
<1>3. q = a + m /\ m \in Nat
  BY OctetsInside, HeadTyped DEF Inside
<1>4. p \in Nat /\ q \in Nat /\ a \in Nat
  BY <1>1, <1>2, WalkedTyped
<1>5. CASE i < l
  <2>1. l \in (i + 1) .. Len(f)
    BY <1>1, <1>2, <1>5
  <2>2. p + 2 <= q
    BY <1>1, <2>1, AtGrows
  <2> HIDE DEF p, q, a, m
  <2>3. p # a + (m - 1)
    BY <1>3, <1>4, <2>2
  <2> QED
    BY <2>3 DEF p, a, m
<1>6. CASE l < i
  <2>1. i \in (l + 1) .. Len(f)
    BY <1>1, <1>2, <1>6
  <2>2. q + 2 <= p
    BY <1>1, <1>2, <2>1, AtGrows
  <2> HIDE DEF p, q, a, m
  <2>3. p # a + (m - 1)
    BY <1>3, <1>4, <2>2
  <2> QED
    BY <2>3 DEF p, a, m
<1>7. CASE l = i
  <2>1. p = q \/ p + 2 <= q \/ q + 2 <= p
    <3>1. CASE b <= n
      BY <1>1, <1>7, <3>1, AtGrows
    <3>2. CASE n <= b
      BY <1>1, <1>7, <3>2, AtGrows
    <3> QED
      BY <1>1, <3>1, <3>2
  <2> HIDE DEF p, q, a, m
  <2>2. p # a + (m - 1)
    BY <1>3, <1>4, <2>1
  <2> QED
    BY <2>2 DEF p, a, m
<1> QED
  BY <1>1, <1>2, <1>5, <1>6, <1>7

(* The innermost tag on the stack is complete: it is not node n.           *)
LEMMA StuckPops ==
  ASSUME NEW f \in AllForests, NEW n \in 1 .. Len(f), f[n].form = "definite",
         Inner(f)[n] > 0, NEW i \in 0 .. Len(f), NEW b \in 1 .. (i + 1),
         NEW D, Stuck(f, n, i, b, D), NEW d, Ascending(d, D), NEW ls, NEW ws,
         CountingOf(f, GivenInner(f, n), d, ls, ws, At(f, i, b)),
         Last(ls) = Last(ws), Len(ls) > 1
  PROVE  /\ Len(d) \in Nat /\ Len(d) >= 1 /\ Len(Front(d)) = Len(d) - 1
         /\ Stuck(f, n, i, b, D \ {Last(d)}) /\ Ascending(Front(d), D \ {Last(d)})
         /\ CountingOf(f, GivenInner(f, n), Front(d), Front(ls),
                       AddToTop(Front(ws), Last(ls)), At(f, i, b))
<1> DEFINE G == GivenInner(f, n)
           t == Last(d)
           p == At(f, i, b)
<1>1. G \in [1 .. Len(f) -> Nat] /\ G[n] = Inner(f)[n] - 1
  BY GivenIs
<1>2. d # << >>
  <2>1. Len(ls) = Len(d) + 1
    BY DEF CountingOf
  <2>2. Len(d) # 0
    BY <2>1
  <2> QED
    BY <2>2
<1>3. /\ t \in D /\ Ascending(Front(d), D \ {t})
      /\ Len(d) \in Nat /\ Len(d) >= 1 /\ Len(Front(d)) = Len(d) - 1
  BY <1>2, AscendingPop
<1> HIDE DEF G, t, p
<1>4. p = At(f, t, t + 1) + G[t]
  BY <1>1, <1>2, CountEnds DEF G, t, p
<1>5. CountingOf(f, G, Front(d), Front(ls), AddToTop(Front(ws), Last(ls)), p)
  BY <1>1, <1>2, CountPop DEF G, p
<1>6. t # n
  <2> SUFFICES ASSUME t = n PROVE FALSE
    OBVIOUS
  <2>1. n \in 1 .. i
    BY <1>3 DEF Stuck
  <2>2. n <= i
    BY <2>1
  <2> QED
    BY <1>1, <1>4, <2>2, NeverThere DEF p
<1>7. Stuck(f, n, i, b, D \ {t})
  BY <1>6 DEF Stuck
<1> QED
  BY <1>3, <1>5, <1>7 DEF G, t, p

(* It is not complete: none of them is, other than node n and those around *)
(* it.                                                                     *)
LEMMA StuckRests ==
  ASSUME NEW f \in AllForests, NEW n \in 1 .. Len(f), f[n].form = "definite",
         Inner(f)[n] > 0, NEW i \in 0 .. Len(f), NEW b \in 1 .. (i + 1),
         NEW D, Stuck(f, n, i, b, D), NEW d, Ascending(d, D), NEW ls, NEW ws,
         CountingOf(f, GivenInner(f, n), d, ls, ws, At(f, i, b)), Last(ls) # Last(ws)
  PROVE  Quiet(f, n, i, b, D)
<1> SUFFICES ASSUME NEW k \in D, k \in Open(f, i, b), LastOf(f, k) = i,
                    \A j \in k .. (b - 1) : ~Ending(f, i, j), ~(n <= i /\ k <= n)
             PROVE  FALSE
  BY DEF Quiet
<1> DEFINE G == GivenInner(f, n)
           t == Last(d)
           p == At(f, i, b)
<1>1. /\ G \in [1 .. Len(f) -> Nat]
      /\ \A j \in 1 .. Len(f) : j # n => G[j] = Inner(f)[j]
  BY GivenIs
<1>2. /\ i \in Nat /\ n \in Nat /\ Len(f) \in Nat /\ b \in Nat /\ i <= Len(f)
      /\ b - 1 <= i
  BY NodesTyped
<1>3. d # << >>
  BY AscendingNone
<1>4. t \in D /\ t \in Nat /\ k \in Nat /\ k <= t
  BY <1>3, AscendingPop
<1> HIDE DEF G, t, p
<1>5. t \in 1 .. i /\ k \in 1 .. i /\ t \in 1 .. Len(f) /\ k \in 1 .. Len(f)
  <2>1. t \in 1 .. i /\ k \in 1 .. i
    BY <1>4 DEF Stuck
  <2> QED
    BY <1>2, <2>1
<1>6. t \in Open(f, i, b) /\ t # n
  BY <1>2, <1>4, <1>5 DEF Stuck
<1>7. LastOf(f, t) = i
  <2>1. LastOf(f, t) <= i
    BY <1>4, <1>5, Nested
  <2>2. LastOf(f, t) > i \/ LastOf(f, t) = i
    BY <1>6 DEF Open
  <2>3. LastOf(f, t) \in Nat
    BY <1>2, <1>5, LastIs DEF IsLast
  <2> QED
    BY <1>2, <2>1, <2>2, <2>3
<1>8. \A j \in t .. (b - 1) : ~(f[j].form = "indefinite" /\ LastOf(f, j) = i)
  BY <1>2, <1>4 DEF Ending
<1>9. p = At(f, t, t + 1) + Inner(f)[t]
  BY <1>6, <1>7, <1>8, OpenInside DEF p
<1>10. p = At(f, t, t + 1) + G[t]
  BY <1>1, <1>5, <1>6, <1>9
<1> QED
  BY <1>1, <1>3, <1>10, CountEnds DEF G, t, p

(* The two units that the walk can meet behind a place of it, with the       *)
(* places behind them and what the counters are there: the first one of the  *)
(* next node, and the end-of-content unit of the innermost tag that ends.    *)
NodeBegins(f, n, i, b, d, D, ls, ws, r, u) ==
  LET k == i + 1
      G == GivenInner(f, n)
  IN  /\ k \in 0 .. Len(f) /\ k + 1 \in 1 .. (k + 1) /\ ~u.eoc
      /\ Len(Walked(f, k, k + 1)) = r + 1
      /\ f[k].form \in {"primitive", "definite", "indefinite"}
      /\ f[k].form = "primitive" =>
           /\ u.shape = "primitive" /\ Stuck(f, n, k, k + 1, D)
           /\ Waiting(f, k, k + 1) = Waiting(f, i, b)
           /\ CountingOf(f, G, d, ls, AddToTop(ws, u.tl + u.length), At(f, k, k + 1))
      /\ f[k].form = "indefinite" =>
           /\ u.shape = "constructed" /\ u.indefinite /\ Stuck(f, n, k, k + 1, D)
           /\ Waiting(f, k, k + 1) = Waiting(f, i, b) \cup {k} /\ k \notin Waiting(f, i, b)
           /\ CountingOf(f, G, d, ls, AddToTop(ws, u.tl), At(f, k, k + 1))
      /\ f[k].form = "definite" =>
           /\ u.shape = "constructed" /\ ~u.indefinite
           /\ Stuck(f, n, k, k + 1, D \cup {k}) /\ Ascending(Append(d, k), D \cup {k})
           /\ Waiting(f, k, k + 1) = Waiting(f, i, b)
           /\ CountingOf(f, G, Append(d, k), Append(ls, u.length),
                         Append(AddToTop(ws, u.tl), 0), At(f, k, k + 1))

TagEnds(f, n, i, b, d, D, ls, ws, r, u) ==
  \E j \in 1 .. (i + 1) :
    /\ u = Eoc /\ Len(Walked(f, i, j)) = r + 1 /\ Stuck(f, n, i, j, D)
    /\ j \in Waiting(f, i, b) /\ Waiting(f, i, j) = Waiting(f, i, b) \ {j}
    /\ CountingOf(f, GivenInner(f, n), d, ls, AddToTop(ws, u.tl + u.length), At(f, i, j))

(* The next unit is read. *)
LEMMA StuckReads ==
  ASSUME NEW f \in AllForests, NEW n, NEW us, Shortened(f, n, us),
         NEW i \in 0 .. Len(f), NEW b \in 1 .. (i + 1),
         NEW D, Stuck(f, n, i, b, D), Quiet(f, n, i, b, D), NEW d, Ascending(d, D),
         NEW ls, NEW ws, CountingOf(f, GivenInner(f, n), d, ls, ws, At(f, i, b)),
         NEW r, r = Len(Walked(f, i, b)), r < Len(us), NEW u, u = us[r + 1]
  PROVE  \/ NodeBegins(f, n, i, b, d, D, ls, ws, r, u)
         \/ TagEnds(f, n, i, b, d, D, ls, ws, r, u)
<1> DEFINE all == Units(f)
           k == i + 1
           x == Begin(f, n)
           G == GivenInner(f, n)
           p == At(f, i, b)
           h == HeadOf(f, k)
<1>1. /\ n \in 1 .. Len(f) /\ f[n].form = "definite" /\ Inner(f)[n] > 0
      /\ us \in Seq(EncodedUnit) /\ Len(us) = Len(all)
      /\ us[x] = SetLength(HeadOf(f, n), Inner(f)[n] - 1)
      /\ \A y \in 1 .. Len(us) : y # x => us[y] = all[y]
  BY DEF Shortened
<1>2. /\ G \in [1 .. Len(f) -> Nat] /\ G[n] = Inner(f)[n] - 1
      /\ \A j \in 1 .. Len(f) : j # n => G[j] = Inner(f)[j]
  BY <1>1, GivenIs
<1>3. /\ i \in Nat /\ Len(f) \in Nat /\ b \in Nat /\ p \in Nat /\ k + 1 = i + 2 /\ k \in Nat
  <2>1. i \in Nat /\ Len(f) \in Nat /\ b \in Nat
    BY NodesTyped
  <2>2. p \in Nat
    BY <2>1, WalkedTyped
  <2> HIDE DEF p
  <2> QED
    BY <2>1, <2>2
<1>4. r \in Nat /\ r + 1 \in 1 .. Len(us)
  <2>1. Walked(f, i, b) \in Seq(EncodedUnit)
    BY <1>3, WalkedTyped
  <2>2. r \in Nat
    BY <2>1
  <2> QED
    BY <1>1, <2>2
<1>5. x \in 1 .. Len(all) /\ all[x] = HeadOf(f, n)
  BY <1>1, AllUnits
<1> HIDE DEF all, x, G, p, h, k
<1>6. CASE /\ i < Len(f) /\ \A j \in 1 .. (b - 1) : ~Ending(f, i, j)
           /\ all[r + 1] = h /\ Begin(f, k) = r + 1
           /\ At(f, k, k + 1) = p + Span(h)
  <2>1. k \in 1 .. Len(f) /\ k \in 0 .. Len(f) /\ k + 1 \in 1 .. (k + 1)
    BY <1>3, <1>6 DEF k
  <2>2. /\ f[k].form = "definite" => Stuck(f, n, k, k + 1, D \cup {k})
        /\ f[k].form # "definite" => Stuck(f, n, k, k + 1, D)
        /\ f[k].form = "indefinite" =>
             /\ Waiting(f, k, k + 1) = Waiting(f, i, b) \cup {k} /\ k \notin Waiting(f, i, b)
        /\ f[k].form # "indefinite" => Waiting(f, k, k + 1) = Waiting(f, i, b)
    <3>1. \A j \in 1 .. (b - 1) : ~Ending(f, i, j)
      BY <1>6
    <3>2. n \in 1 .. Len(f) /\ f[n].form = "definite" /\ i < Len(f)
      BY <1>1, <1>6
    <3>3. k = i + 1
      BY DEF k
    <3>4. /\ f[k].form = "definite" => Stuck(f, n, k, k + 1, D \cup {k})
          /\ f[k].form # "definite" => Stuck(f, n, k, k + 1, D)
      BY <3>1, <3>2, <3>3, StuckOpens
    <3>5. /\ f[k].form = "indefinite" =>
               /\ Waiting(f, k, k + 1) = Waiting(f, i, b) \cup {k}
               /\ k \notin Waiting(f, i, b)
          /\ f[k].form # "indefinite" => Waiting(f, k, k + 1) = Waiting(f, i, b)
      BY <3>1, <3>2, <3>3, WaitingOpens, SMTT(40)
    <3> QED
      BY <3>4, <3>5
  <2>3. /\ ~h.eoc /\ h.tl \in Nat /\ h.length \in Nat
        /\ f[k].form = "primitive" => h.shape = "primitive" /\ Span(h) = h.tl + h.length
        /\ f[k].form # "primitive" => h.shape = "constructed" /\ Span(h) = h.tl
        /\ f[k].form # "primitive" => (h.indefinite <=> f[k].form = "indefinite")
        /\ f[k].form = "definite" => h.length = Inner(f)[k]
    BY <2>1, HeadParts DEF h
  <2>4. f[k].form \in {"primitive", "definite", "indefinite"}
    BY <2>1, HeadIs
  <2>5. k # n => u = h
    <3> SUFFICES ASSUME k # n PROVE u = h
      OBVIOUS
    <3>1. Begin(f, k) # Begin(f, n)
      <4>1. 1 \in Nat /\ n \in Nat /\ k >= 1
        BY <1>1, <2>1
      <4>2. CASE n < k
        <5>1. n \in 1 .. k
          BY <1>1, <1>3, <4>2
        <5>2. Begin(f, n) < Begin(f, k)
          BY <2>1, <4>1, <4>2, <5>1, BeginsGrow
        <5> QED
          BY <1>4, <1>6, <5>2
      <4>3. CASE k < n
        <5>1. k \in 1 .. n
          BY <1>1, <1>3, <4>1, <4>3
        <5>2. Begin(f, k) < Begin(f, n)
          BY <1>1, <4>1, <4>3, <5>1, BeginsGrow
        <5> QED
          BY <1>4, <1>6, <5>2
      <4> QED
        BY <1>3, <4>1, <4>2, <4>3
    <3>2. us[r + 1] = all[r + 1]
      BY <1>1, <1>4, <1>6, <3>1 DEF x
    <3> QED
      BY <1>6, <3>2
  <2>6. k = n => u = SetLength(h, G[k])
    BY <1>1, <1>2, <1>6 DEF x, h
  <2>7. /\ ~u.eoc /\ u.shape = h.shape /\ u.tl = h.tl
        /\ u.indefinite = h.indefinite
        /\ f[k].form # "definite" => u.length = h.length
        /\ f[k].form = "definite" => u.length = G[k]
    <3>1. CASE k # n
      <4>1. G[k] = Inner(f)[k]
        BY <1>2, <2>1, <3>1
      <4> QED
        BY <2>3, <2>5, <3>1, <4>1
    <3>2. CASE k = n
      <4>1. f[k].form = "definite" /\ f[k].form # "primitive" /\ f[k].form # "indefinite"
        BY <1>1, <3>2
      <4>2. h = Record("constructed", No, No, MinimalTl(Inner(f)[k]) + f[k].extra, Inner(f)[k])
        BY <2>1, <4>1, HeadIs DEF h
      <4>3. u = Record("constructed", No, No, MinimalTl(Inner(f)[k]) + f[k].extra, G[k])
        BY <2>6, <3>2, <4>2, RecordParts
      <4>4. /\ h.shape = "constructed" /\ h.eoc = No /\ h.indefinite = No
            /\ h.tl = MinimalTl(Inner(f)[k]) + f[k].extra
        BY <4>2, RecordParts
      <4>5. /\ u.shape = "constructed" /\ u.eoc = No /\ u.indefinite = No
            /\ u.tl = MinimalTl(Inner(f)[k]) + f[k].extra /\ u.length = G[k]
        BY <4>3, RecordParts
      <4> QED
        BY <4>1, <4>4, <4>5 DEF No
    <3> QED
      BY <3>1, <3>2
  <2>8. CountingOf(f, G, d, ls, ws, p)
    BY DEF G, p
  <2>9. f[k].form = "primitive" =>
          CountingOf(f, G, d, ls, AddToTop(ws, u.tl + u.length), At(f, k, k + 1))
    <3> SUFFICES ASSUME f[k].form = "primitive"
                 PROVE  CountingOf(f, G, d, ls, AddToTop(ws, u.tl + u.length), At(f, k, k + 1))
      OBVIOUS
    <3>1. h.tl + h.length \in Nat
      BY <2>3
    <3>2. CountingOf(f, G, d, ls, AddToTop(ws, h.tl + h.length), p + (h.tl + h.length))
      BY <1>2, <2>8, <3>1, CountMore
    <3>3. u.tl + u.length = h.tl + h.length /\ At(f, k, k + 1) = p + (h.tl + h.length)
      BY <1>6, <2>3, <2>7
    <3> QED
      BY <3>2, <3>3
  <2>10. f[k].form # "primitive" =>
           CountingOf(f, G, d, ls, AddToTop(ws, u.tl), At(f, k, k + 1))
    <3> SUFFICES ASSUME f[k].form # "primitive"
                 PROVE  CountingOf(f, G, d, ls, AddToTop(ws, u.tl), At(f, k, k + 1))
      OBVIOUS
    <3>1. CountingOf(f, G, d, ls, AddToTop(ws, h.tl), p + h.tl)
      BY <1>2, <2>3, <2>8, CountMore
    <3>2. u.tl = h.tl /\ At(f, k, k + 1) = p + h.tl
      BY <1>6, <2>3, <2>7
    <3> QED
      BY <3>1, <3>2
  <2>11. f[k].form = "definite" =>
           /\ CountingOf(f, G, Append(d, k), Append(ls, u.length),
                         Append(AddToTop(ws, u.tl), 0), At(f, k, k + 1))
           /\ Ascending(Append(d, k), D \cup {k})
    <3> SUFFICES ASSUME f[k].form = "definite"
                 PROVE  /\ CountingOf(f, G, Append(d, k), Append(ls, u.length),
                                      Append(AddToTop(ws, u.tl), 0), At(f, k, k + 1))
                        /\ Ascending(Append(d, k), D \cup {k})
      OBVIOUS
    <3>1. CountingOf(f, G, d, ls, AddToTop(ws, u.tl), At(f, k, k + 1)) /\ u.length = G[k]
      BY <2>7, <2>10
    <3>2. CountingOf(f, G, Append(d, k), Append(ls, G[k]),
                     Append(AddToTop(ws, u.tl), 0), At(f, k, k + 1))
      BY <1>2, <2>1, <3>1, CountPush
    <3>3. \A j \in D : j < k
      BY <1>3 DEF Stuck, k
    <3>4. Ascending(Append(d, k), D \cup {k})
      BY <1>3, <3>3, AscendingPush
    <3> QED
      BY <3>1, <3>2, <3>4
  <2>12. Len(Walked(f, k, k + 1)) = r + 1
    BY <1>6 DEF Begin
  <2>13. /\ k \in 0 .. Len(f) /\ k + 1 \in 1 .. (k + 1) /\ ~u.eoc
         /\ Len(Walked(f, k, k + 1)) = r + 1
         /\ f[k].form \in {"primitive", "definite", "indefinite"}
    BY <2>1, <2>4, <2>7, <2>12
  <2>14. f[k].form = "primitive" =>
           /\ u.shape = "primitive" /\ Stuck(f, n, k, k + 1, D)
           /\ Waiting(f, k, k + 1) = Waiting(f, i, b)
           /\ CountingOf(f, G, d, ls, AddToTop(ws, u.tl + u.length), At(f, k, k + 1))
    BY <2>2, <2>3, <2>7, <2>9
  <2>15. f[k].form = "indefinite" =>
           /\ u.shape = "constructed" /\ u.indefinite /\ Stuck(f, n, k, k + 1, D)
           /\ Waiting(f, k, k + 1) = Waiting(f, i, b) \cup {k} /\ k \notin Waiting(f, i, b)
           /\ CountingOf(f, G, d, ls, AddToTop(ws, u.tl), At(f, k, k + 1))
    BY <2>2, <2>3, <2>7, <2>10
  <2>16. f[k].form = "definite" =>
           /\ u.shape = "constructed" /\ ~u.indefinite
           /\ Stuck(f, n, k, k + 1, D \cup {k}) /\ Ascending(Append(d, k), D \cup {k})
           /\ Waiting(f, k, k + 1) = Waiting(f, i, b)
           /\ CountingOf(f, G, Append(d, k), Append(ls, u.length),
                         Append(AddToTop(ws, u.tl), 0), At(f, k, k + 1))
    BY <2>2, <2>3, <2>7, <2>11
  <2> QED
    BY <2>13, <2>14, <2>15, <2>16, Zenon DEF NodeBegins, k, G
<1>7. ASSUME NEW j \in 1 .. (b - 1),
             Ending(f, i, j), \A m \in (j + 1) .. (b - 1) : ~Ending(f, i, m),
             all[r + 1] = Eoc, Len(Walked(f, i, j)) = r + 1, At(f, i, j) = p + 2
      PROVE  /\ j \in 1 .. (i + 1)
             /\ u = Eoc /\ Len(Walked(f, i, j)) = r + 1 /\ Stuck(f, n, i, j, D)
             /\ j \in Waiting(f, i, b) /\ Waiting(f, i, j) = Waiting(f, i, b) \ {j}
             /\ CountingOf(f, G, d, ls, AddToTop(ws, u.tl + u.length), At(f, i, j))
  <2>1. /\ j \in 1 .. (i + 1) /\ Stuck(f, n, i, j, D)
        /\ j \in Waiting(f, i, b) /\ Waiting(f, i, j) = Waiting(f, i, b) \ {j}
    <3>1. /\ f \in AllForests /\ i \in 0 .. Len(f) /\ b \in 1 .. (i + 1)
          /\ Stuck(f, n, i, b, D) /\ Quiet(f, n, i, b, D)
      OBVIOUS
    <3>2. n \in 1 .. Len(f)
      BY <1>1
    <3> QED
      BY <1>7, <3>1, <3>2, StuckCloses, ZenonT(60)
  <2>2. r + 1 # x
    <3>1. ~HeadOf(f, n).eoc
      BY <1>1, HeadParts
    <3>2. HeadOf(f, n) # Eoc
      BY <3>1, EocParts
    <3> QED
      BY <1>5, <1>7, <3>2
  <2>3. u = Eoc
    BY <1>1, <1>4, <1>7, <2>2
  <2>4. CountingOf(f, G, d, ls, AddToTop(ws, u.tl + u.length), At(f, i, j))
    <3>1. u.tl + u.length = 2 /\ 2 \in Nat
      BY <2>3, EocParts
    <3>2. CountingOf(f, G, d, ls, AddToTop(ws, 2), p + 2)
      BY <1>2, <3>1, CountMore DEF G, p
    <3> QED
      BY <1>7, <3>1, <3>2
  <2> QED
    BY <1>7, <2>1, <2>3, <2>4
<1>8. \/ /\ i < Len(f) /\ \A j \in 1 .. (b - 1) : ~Ending(f, i, j)
         /\ all[r + 1] = h /\ Begin(f, k) = r + 1 /\ At(f, k, k + 1) = p + Span(h)
      \/ \E j \in 1 .. (b - 1) :
           /\ Ending(f, i, j) /\ \A m \in (j + 1) .. (b - 1) : ~Ending(f, i, m)
           /\ all[r + 1] = Eoc /\ Len(Walked(f, i, j)) = r + 1 /\ At(f, i, j) = p + 2
  <2>1. Len(Walked(f, i, b)) < Len(Units(f))
    BY <1>1 DEF all
  <2> QED
    BY <1>3, <2>1, NextAt DEF all, h, k, p
<1>9. CASE \E j \in 1 .. (b - 1) :
             /\ Ending(f, i, j) /\ \A m \in (j + 1) .. (b - 1) : ~Ending(f, i, m)
             /\ all[r + 1] = Eoc /\ Len(Walked(f, i, j)) = r + 1 /\ At(f, i, j) = p + 2
  BY <1>7, <1>9, Zenon DEF TagEnds, G
<1> QED
  BY <1>6, <1>8, <1>9

(* Waiting tags are counted. *)
LEMMA WaitingCounted ==
  ASSUME NEW f, NEW i \in Nat, NEW b
  PROVE  LET w == Waiting(f, i, b)
         IN  /\ IsFiniteSet(w) /\ Cardinality(w) \in Nat
             /\ \A j : j \notin w => Cardinality(w \cup {j}) = Cardinality(w) + 1
             /\ \A j \in w : /\ Cardinality(w) >= 1
                            /\ Cardinality(w \ {j}) = Cardinality(w) - 1
<1> DEFINE w == Waiting(f, i, b)
<1>1. w \subseteq 1 .. i
  BY DEF Waiting, Open
<1>2. IsFiniteSet(1 .. i)
  BY FS_Interval
<1> HIDE DEF w
<1>3. IsFiniteSet(w)
  BY <1>1, <1>2, FS_Subset
<1>4. Cardinality(w) \in Nat
  BY <1>3, FS_CardinalityType
<1>5. ASSUME NEW j, j \notin w PROVE Cardinality(w \cup {j}) = Cardinality(w) + 1
  BY <1>3, <1>5, FS_AddElement
<1>6. ASSUME NEW j \in w
      PROVE  Cardinality(w) >= 1 /\ Cardinality(w \ {j}) = Cardinality(w) - 1
  <2>1. Cardinality(w \ {j}) = Cardinality(w) - 1
    BY <1>3, FS_RemoveElement
  <2>2. Cardinality(w \ {j}) \in Nat
    <3>1. IsFiniteSet(w \ {j})
      BY <1>3, FS_Subset
    <3> QED
      BY <3>1, FS_CardinalityType
  <2> QED
    BY <1>4, <2>1, <2>2
<1> QED
  BY <1>3, <1>4, <1>5, <1>6 DEF w

(* Ber2Def is at a place of the walk that its input is one of, but for the *)
(* length of node n: the definite tags D are still on the stacks, with the *)
(* lengths that were read, and each of them and each tag that waits for an *)
(* end-of-content unit has a level.                                        *)
Stalled(f, n, i, b, d, D) ==
  /\ i \in 0 .. Len(f) /\ b \in 1 .. (i + 1)
  /\ Stuck(f, n, i, b, D) /\ Ascending(d, D)
  /\ read = Len(Walked(f, i, b))
  /\ CountingOf(f, GivenInner(f, n), d, lengthStack, writtenStack, At(f, i, b))
  /\ consTop = Cardinality(Waiting(f, i, b)) + Len(d)

Stalls(f, n) ==
  /\ pc # "undefined" /\ pc # "done"
  /\ \E i, b, d, D :
       Stalled(f, n, i, b, d, D) /\ (pc # "close" => Quiet(f, n, i, b, D))

ShortFacts ==
  target = "definite" => \A n : Shortened(forest, n, units) => Stalls(forest, n)

(* Nothing is read. *)
LEMMA ShortInit ==
  ASSUME Init
  PROVE  ShortFacts
<1>1. /\ forest \in AllForests /\ read = 0 /\ pc = "read"
      /\ lengthStack = <<0>> /\ writtenStack = <<0>> /\ consTop = 0
  BY InputForest DEF Init
<1>2. ASSUME NEW n, Shortened(forest, n, units) PROVE Stalls(forest, n)
  <2> DEFINE f == forest
  <2>1. 0 \in 0 .. Len(f) /\ 1 \in 1 .. (0 + 1) /\ n \in 1 .. Len(f)
    BY <1>1, <1>2, NodesTyped DEF Shortened
  <2>2. Stuck(f, n, 0, 1, {}) /\ Quiet(f, n, 0, 1, {})
    BY <2>1 DEF Stuck, Quiet
  <2>3. Ascending(<< >>, {})
    BY AscendingNone
  <2>4. Walked(f, 0, 1) = << >>
    BY DEF Walked
  <2>5. At(f, 0, 1) = 0
    BY <2>4, SpanOfNothing DEF At
  <2>6. CountingOf(f, GivenInner(f, n), << >>, <<0>>, <<0>>, 0)
    BY DEF CountingOf, ContentFrom
  <2>7. Cardinality(Waiting(f, 0, 1)) = 0
    <3>1. Waiting(f, 0, 1) = {}
      BY DEF Waiting, Open
    <3> QED
      BY <3>1, FS_EmptySet
  <2>8. Len(<< >>) = 0
    OBVIOUS
  <2> HIDE DEF f
  <2>9. Stalled(f, n, 0, 1, << >>, {})
    BY <1>1, <2>1, <2>2, <2>3, <2>4, <2>5, <2>6, <2>7, <2>8 DEF Stalled
  <2>10. \E i, b, d, D : Stalled(f, n, i, b, d, D) /\ (pc # "close" => Quiet(f, n, i, b, D))
    BY <2>2, <2>9, Zenon
  <2>11. pc # "undefined" /\ pc # "done"
    BY <1>1
  <2> QED
    BY <2>10, <2>11 DEF Stalls, f
<1> QED
  BY <1>2 DEF ShortFacts

(* Ber2Def reads a unit. *)
LEMMA ShortReads ==
  ASSUME Facts, FormFacts, ShortFacts, NEW u,
         WritePrimitive(u) \/ WriteEoc(u) \/ WriteConstructed(u),
         NEW n, Shortened(forest, n, units)
  PROVE  Stalls(forest, n)'
<1> DEFINE f == forest
           ls == lengthStack
           ws == writtenStack
           G == GivenInner(f, n)
<1>1. Next("definite", u)
  BY Zenon DEF WritePrimitive, WriteEoc, WriteConstructed
<1>2. /\ forest' = forest /\ units' = units /\ target = "definite"
      /\ read \in Nat /\ read < Len(units) /\ read' = read + 1
      /\ u = units[read + 1] /\ f \in AllForests /\ consTop \in Nat
  BY <1>1, NextUnit DEF FormFacts, Facts, LevelFacts
<1>3. PICK i, b, d, D : Stalled(f, n, i, b, d, D) /\ (pc # "close" => Quiet(f, n, i, b, D))
  BY <1>2 DEF ShortFacts, Stalls
<1>4. /\ i \in 0 .. Len(f) /\ b \in 1 .. (i + 1) /\ i \in Nat
      /\ Stuck(f, n, i, b, D) /\ Ascending(d, D) /\ Quiet(f, n, i, b, D)
      /\ read = Len(Walked(f, i, b))
      /\ CountingOf(f, G, d, ls, ws, At(f, i, b))
      /\ consTop = Cardinality(Waiting(f, i, b)) + Len(d)
      /\ Len(d) \in Nat
  <2>1. pc # "close"
    BY <1>1 DEF Next
  <2>2. Len(d) \in Nat /\ i \in Nat
    BY <1>3 DEF Stalled, CountingOf
  <2> QED
    BY <1>3, <2>1, <2>2 DEF Stalled
<1> DEFINE k == i + 1
           W == Waiting(f, i, b)
<1>5. /\ Cardinality(W) \in Nat
      /\ \A j : j \notin W => Cardinality(W \cup {j}) = Cardinality(W) + 1
      /\ \A j \in W : Cardinality(W) >= 1 /\ Cardinality(W \ {j}) = Cardinality(W) - 1
  BY <1>4, WaitingCounted
<1>6. \/ NodeBegins(f, n, i, b, d, D, ls, ws, read, u)
      \/ TagEnds(f, n, i, b, d, D, ls, ws, read, u)
  <2>1. Shortened(f, n, units)
    BY DEF f
  <2> HIDE DEF f, ls, ws
  <2> QED
    BY <1>2, <1>4, <2>1, StuckReads
<1>7. ASSUME NEW j, NEW c, NEW e, NEW E, Stalled(f, n, j, c, e, E)', pc' = "close"
      PROVE  Stalls(forest, n)'
  BY <1>7, Zenon DEF Stalls
<1> HIDE DEF f, ls, ws, G, k, W
<1>8. f' = f /\ read' = read + 1
  BY <1>2 DEF f
<1>9. ASSUME NEW j, NEW c, NEW e, NEW E,
             /\ j \in 0 .. Len(f) /\ c \in 1 .. (j + 1) /\ Stuck(f, n, j, c, E)
             /\ Ascending(e, E) /\ Len(Walked(f, j, c)) = read + 1
             /\ CountingOf(f, G, e, lengthStack', writtenStack', At(f, j, c))
             /\ consTop' = Cardinality(Waiting(f, j, c)) + Len(e),
             pc' = "close"
      PROVE  Stalls(forest, n)'
  <2>1. Stalled(f, n, j, c, e, E)'
    BY <1>2, <1>9 DEF Stalled, f, G
  <2> QED
    BY <1>7, <1>9, <2>1
<1>10. CASE /\ k \in 0 .. Len(f) /\ k + 1 \in 1 .. (k + 1) /\ ~u.eoc
            /\ Len(Walked(f, k, k + 1)) = read + 1
            /\ f[k].form = "primitive" /\ u.shape = "primitive" /\ Stuck(f, n, k, k + 1, D)
            /\ Waiting(f, k, k + 1) = W
            /\ CountingOf(f, G, d, ls, AddToTop(ws, u.tl + u.length), At(f, k, k + 1))
  <2>1. /\ writtenStack' = AddToTop(ws, u.tl + u.length) /\ lengthStack' = ls
        /\ consTop' = consTop /\ pc' = "close"
    BY <1>10 DEF WritePrimitive, WriteEoc, WriteConstructed, levels, ls, ws
  <2> QED
    BY <1>4, <1>9, <1>10, <2>1 DEF W
<1>11. CASE /\ k \in 0 .. Len(f) /\ k + 1 \in 1 .. (k + 1)
            /\ Len(Walked(f, k, k + 1)) = read + 1
            /\ u.shape = "constructed" /\ u.indefinite /\ Stuck(f, n, k, k + 1, D)
            /\ Waiting(f, k, k + 1) = W \cup {k} /\ k \notin W
            /\ CountingOf(f, G, d, ls, AddToTop(ws, u.tl), At(f, k, k + 1))
  <2>1. WriteConstructed(u)
    BY <1>11 DEF WritePrimitive, WriteEoc
  <2>2. /\ writtenStack' = AddToTop(ws, u.tl) /\ lengthStack' = ls
        /\ consTop' = consTop + 1 /\ pc' = "close"
    BY <1>11, <2>1, Zenon DEF WriteConstructed, CountHeader, ls, ws
  <2>3. consTop' = Cardinality(W \cup {k}) + Len(d)
    BY <1>4, <1>5, <1>11, <2>2 DEF W
  <2>4. consTop' = Cardinality(Waiting(f, k, k + 1)) + Len(d)
    BY <1>11, <2>3
  <2> QED
    BY <1>4, <1>9, <1>11, <2>2, <2>4
<1>12. CASE /\ k \in 0 .. Len(f) /\ k + 1 \in 1 .. (k + 1)
            /\ Len(Walked(f, k, k + 1)) = read + 1
            /\ u.shape = "constructed" /\ ~u.indefinite
            /\ Stuck(f, n, k, k + 1, D \cup {k}) /\ Ascending(Append(d, k), D \cup {k})
            /\ Waiting(f, k, k + 1) = W
            /\ CountingOf(f, G, Append(d, k), Append(ls, u.length),
                          Append(AddToTop(ws, u.tl), 0), At(f, k, k + 1))
  <2>1. WriteConstructed(u)
    BY <1>12 DEF WritePrimitive, WriteEoc
  <2>2. /\ writtenStack' = Append(AddToTop(ws, u.tl), 0)
        /\ lengthStack' = Append(ls, u.length)
        /\ consTop' = consTop + 1 /\ pc' = "close"
    BY <1>12, <2>1, Zenon DEF WriteConstructed, CountHeader, ls, ws
  <2>3. Len(Append(d, k)) = Len(d) + 1
    <3>1. d \in Seq(Nat)
      BY <1>4 DEF Ascending
    <3> QED
      BY <3>1
  <2>4. consTop' = Cardinality(Waiting(f, k, k + 1)) + Len(Append(d, k))
    <3>1. Cardinality(W) \in Nat /\ Len(d) \in Nat /\ consTop = Cardinality(W) + Len(d)
      BY <1>4, <1>5, Zenon DEF W
    <3>2. Waiting(f, k, k + 1) = W /\ consTop' = consTop + 1
      BY <1>12, <2>2, Zenon
    <3> QED
      BY <2>3, <3>1, <3>2
  <2> QED
    BY <1>9, <1>12, <2>2, <2>4
<1>13. ASSUME NEW j \in 1 .. (i + 1),
              /\ u = Eoc /\ Len(Walked(f, i, j)) = read + 1 /\ Stuck(f, n, i, j, D)
              /\ j \in W /\ Waiting(f, i, j) = W \ {j}
              /\ CountingOf(f, G, d, ls, AddToTop(ws, u.tl + u.length), At(f, i, j))
       PROVE  Stalls(forest, n)'
  <2>1. Cardinality(W) >= 1 /\ Cardinality(W \ {j}) = Cardinality(W) - 1
    BY <1>5, <1>13
  <2>2. consTop > 0 /\ consTop # 0
    BY <1>4, <1>5, <2>1 DEF W
  <2>3. WriteEoc(u)
    BY <1>13, EocParts DEF WritePrimitive, WriteConstructed
  <2>4. /\ PopConstructed /\ pc' = "close" /\ lengthStack' = ls
        /\ writtenStack' = AddToTop(ws, u.tl + u.length)
    BY <2>2, <2>3, Zenon DEF WriteEoc, NoTagToPop, ls, ws
  <2>5. consTop' = consTop - 1
    BY <2>4 DEF PopConstructed
  <2>6. consTop' = Cardinality(Waiting(f, i, j)) + Len(d)
    BY <1>4, <1>5, <1>13, <2>1, <2>5 DEF W
  <2> QED
    BY <1>4, <1>9, <1>13, <2>4, <2>6
<1>14. CASE \E j \in 1 .. (i + 1) :
              /\ u = Eoc /\ Len(Walked(f, i, j)) = read + 1 /\ Stuck(f, n, i, j, D)
              /\ j \in W /\ Waiting(f, i, j) = W \ {j}
              /\ CountingOf(f, G, d, ls, AddToTop(ws, u.tl + u.length), At(f, i, j))
  BY <1>13, <1>14, Zenon
<1>15. CASE NodeBegins(f, n, i, b, d, D, ls, ws, read, u)
  BY <1>10, <1>11, <1>12, <1>15, Zenon DEF NodeBegins, G, k, W
<1>16. CASE TagEnds(f, n, i, b, d, D, ls, ws, read, u)
  BY <1>14, <1>16, Zenon DEF TagEnds, G, W
<1> QED
  BY <1>6, <1>15, <1>16

(* A definite tag is complete; it has a level. *)
LEMMA ShortCloses ==
  ASSUME Facts, FormFacts, ShortFacts, CloseAsDefinite,
         NEW n, Shortened(forest, n, units)
  PROVE  Stalls(forest, n)'
<1> DEFINE f == forest
           ls == lengthStack
           ws == writtenStack
<1>1. /\ target = "definite" /\ pc = "close" /\ Complete /\ f \in AllForests
      /\ UNCHANGED <<input, read>> /\ consTop \in Nat
  BY DEF CloseAsDefinite, FormFacts, Facts, LevelFacts
<1>2. f' = f /\ read' = read
  BY <1>1 DEF input
<1>3. PICK i, b, d, D : Stalled(f, n, i, b, d, D)
  BY <1>1 DEF ShortFacts, Stalls
<1>4. /\ i \in 0 .. Len(f) /\ b \in 1 .. (i + 1) /\ i \in Nat
      /\ Stuck(f, n, i, b, D) /\ Ascending(d, D)
      /\ read = Len(Walked(f, i, b))
      /\ CountingOf(f, GivenInner(f, n), d, ls, ws, At(f, i, b))
      /\ consTop = Cardinality(Waiting(f, i, b)) + Len(d)
      /\ n \in 1 .. Len(f) /\ f[n].form = "definite" /\ Inner(f)[n] > 0
  BY <1>3 DEF Stalled, Shortened
<1>5. Last(ls) = Last(ws) /\ Len(ls) > 1
  <2>1. NotTheRoot
    BY CountersAre DEF Facts
  <2> QED
    BY <1>1, <2>1, Zenon DEF NotTheRoot, Complete
<1> DEFINE E == D \ {Last(d)}
<1>6. /\ Len(d) \in Nat /\ Len(d) >= 1 /\ Len(Front(d)) = Len(d) - 1
      /\ Stuck(f, n, i, b, E) /\ Ascending(Front(d), E)
      /\ CountingOf(f, GivenInner(f, n), Front(d), Front(ls),
                    AddToTop(Front(ws), Last(ls)), At(f, i, b))
  <2> HIDE DEF f, ls, ws
  <2> QED
    BY <1>1, <1>4, <1>5, StuckPops
<1>7. Cardinality(Waiting(f, i, b)) \in Nat
  BY <1>4, WaitingCounted
<1> HIDE DEF E
<1>8. consTop # 0
  BY <1>4, <1>6, <1>7
<1>9. PopConstructed /\ PopCounters /\ pc' = pc
  BY <1>8, Zenon DEF CloseAsDefinite, NoTagToPop
<1>10. /\ lengthStack' = Front(ls) /\ writtenStack' = AddToTop(Front(ws), Last(ls))
       /\ consTop' = consTop - 1
  BY <1>9 DEF PopCounters, PopConstructed
<1>11. consTop' = Cardinality(Waiting(f, i, b)) + Len(Front(d))
  BY <1>4, <1>6, <1>7, <1>10
<1>12. Stalled(f, n, i, b, Front(d), E)'
  <2> HIDE DEF ls, ws
  <2> QED
    BY <1>2, <1>4, <1>6, <1>10, <1>11 DEF Stalled
<1>13. pc' = "close"
  BY <1>1, <1>9
<1> QED
  BY <1>2, <1>12, <1>13, Zenon DEF Stalls, f

(* No tag is complete: the next unit is read, or it is refused at the end: *)
(* node n has begun, and has a level.                                      *)
LEMMA ShortRests ==
  ASSUME Facts, FormFacts, ShortFacts, target = "definite",
         NothingToClose \/ End \/ UNCHANGED vars,
         NEW n, Shortened(forest, n, units)
  PROVE  Stalls(forest, n)'
<1> DEFINE f == forest
<1>1. /\ forest' = forest /\ read' = read /\ lengthStack' = lengthStack
      /\ writtenStack' = writtenStack /\ consTop' = consTop
  BY DEF NothingToClose, End, vars, input, counters, levels
<1>2. pc # "undefined" /\ pc # "done" /\ f \in AllForests
  BY DEF ShortFacts, Stalls, FormFacts
<1>3. PICK i, b, d, D : Stalled(f, n, i, b, d, D) /\ (pc # "close" => Quiet(f, n, i, b, D))
  BY DEF ShortFacts, Stalls
<1>4. /\ i \in 0 .. Len(f) /\ b \in 1 .. (i + 1) /\ i \in Nat /\ b \in Nat /\ b >= 1
      /\ Stuck(f, n, i, b, D) /\ Ascending(d, D)
      /\ read = Len(Walked(f, i, b))
      /\ CountingOf(f, GivenInner(f, n), d, lengthStack, writtenStack, At(f, i, b))
      /\ consTop = Cardinality(Waiting(f, i, b)) + Len(d)
      /\ n \in 1 .. Len(f) /\ f[n].form = "definite" /\ Inner(f)[n] > 0
  BY <1>3 DEF Stalled, Shortened
<1>5. Stalled(f, n, i, b, d, D)'
  BY <1>1, <1>3 DEF Stalled
<1> HIDE DEF f
<1>6. /\ pc' # "undefined" /\ pc' # "done"
      /\ pc' # "close" => Quiet(f, n, i, b, D)
  <2>1. CASE NothingToClose
    <3>1. ~Complete
      <4>1. lengthStack # << >>
        BY DEF Facts, CounterFacts, Rooted
      <4> QED
        BY <2>1, <4>1 DEF NothingToClose
    <3>2. Last(lengthStack) # Last(writtenStack)
      BY <3>1 DEF Complete
    <3>3. Quiet(f, n, i, b, D)
      BY <1>2, <1>4, <3>2, StuckRests
    <3> QED
      BY <2>1, <3>3 DEF NothingToClose
  <2>2. CASE End
    <3>1. pc = "read" /\ read = Len(units) /\ pc' \in {"failed", "done"}
      BY <2>2 DEF End
    <3>2. Len(units) = Len(Units(f))
      BY DEF Shortened, f
    <3> DEFINE w == Walked(f, i, b)
    <3>3. w \in Seq(EncodedUnit) /\ Units(f) \in Seq(EncodedUnit) /\ IsPrefix(w, Units(f))
      BY <1>2, <1>4, WalkedTyped, WalkedPrefix
    <3>4. w = Units(f)
      <4>1. Len(w) = Len(Units(f))
        BY <1>4, <3>1, <3>2
      <4> HIDE DEF w
      <4>2. \A m \in 1 .. Len(w) : w[m] = Units(f)[m]
        BY <3>3, PrefixIs
      <4> QED
        BY <3>3, <4>1, <4>2, SameElements
    <3>5. i = Len(f)
      BY <1>2, <1>4, <3>4, AllWalked
    <3>6. n \in D
      BY <1>4, <3>5 DEF Stuck
    <3>7. Len(d) \in Nat /\ Len(d) # 0
      BY <1>4, <3>6 DEF Ascending
    <3>8. Cardinality(Waiting(f, i, b)) \in Nat
      BY <1>4, WaitingCounted
    <3>9. consTop # 0
      BY <1>4, <3>7, <3>8
    <3>10. pc' = "failed"
      BY <2>2, <3>9 DEF End
    <3> QED
      BY <1>3, <3>1, <3>10
  <2>3. CASE UNCHANGED vars
    <3>1. pc' = pc
      BY <2>3 DEF vars
    <3> QED
      BY <1>2, <1>3, <3>1
  <2> QED
    BY <2>1, <2>2, <2>3
<1>7. Quiet(f, n, i, b, D)' <=> Quiet(f, n, i, b, D)
  BY <1>1 DEF Quiet, f
<1>8. \E j, c, e, E : (Stalled(f, n, j, c, e, E) /\ (pc # "close" => Quiet(f, n, j, c, E)))'
  BY <1>5, <1>6, <1>7, Zenon
<1> QED
  BY <1>6, <1>8 DEF Stalls, f

(* Every step of Ber2Def keeps what is said of a short length. *)
LEMMA ShortKeeps ==
  ASSUME Facts, FormFacts, ShortFacts, [Step \/ (Ended /\ UNCHANGED vars)]_vars
  PROVE  ShortFacts'
<1>1. ASSUME forest' = forest, units' = units, target' = target,
             NEW n, target = "definite" /\ Shortened(forest, n, units) => Stalls(forest, n)'
      PROVE  (target = "definite" /\ Shortened(forest, n, units) => Stalls(forest, n))'
  BY <1>1 DEF Shortened
<1>2. ASSUME forest' = forest, units' = units, target' = target,
             \A n : target = "definite" /\ Shortened(forest, n, units) => Stalls(forest, n)'
      PROVE  ShortFacts'
  BY <1>1, <1>2, Zenon DEF ShortFacts
<1>3. ASSUME NEW u, Copy(u) \/ CopyPrimitive(u) \/ CopyIndefinite(u) \/ OpenDefinite(u)
      PROVE  ShortFacts'
  <2>1. target' = target /\ target # "definite"
    BY <1>3 DEF Copy, CopyPrimitive, CopyIndefinite, OpenDefinite, Next, input
  <2> QED
    BY <2>1 DEF ShortFacts
<1>4. ASSUME NEW u, WritePrimitive(u) \/ WriteEoc(u) \/ WriteConstructed(u)
      PROVE  ShortFacts'
  <2>1. Next("definite", u)
    BY <1>4, Zenon DEF WritePrimitive, WriteEoc, WriteConstructed
  <2>2. forest' = forest /\ units' = units /\ target' = target
    BY <2>1 DEF Next, input
  <2> QED
    BY <1>2, <1>4, <2>2, ShortReads
<1>5. CASE CloseAsIndefinite \/ CloseAsDefinite
  <2>1. forest' = forest /\ units' = units /\ target' = target
    BY <1>5 DEF CloseAsIndefinite, CloseAsDefinite, input
  <2>2. CASE CloseAsIndefinite
    <3>1. target # "definite"
      BY <2>2 DEF CloseAsIndefinite
    <3> QED
      BY <2>1, <3>1 DEF ShortFacts
  <2>3. CASE CloseAsDefinite
    BY <1>2, <2>1, <2>3, ShortCloses
  <2> QED
    BY <1>5, <2>2, <2>3
<1>6. CASE NothingToClose \/ End \/ UNCHANGED vars
  <2>1. forest' = forest /\ units' = units /\ target' = target
    BY <1>6 DEF NothingToClose, End, vars, input
  <2> QED
    BY <1>2, <1>6, <2>1, ShortRests
<1> QED
  BY <1>3, <1>4, <1>5, <1>6 DEF Step

(* An input is the beginning of the encoding of its forest, or has one     *)
(* end-of-content unit more, or a length that is too short.                *)
LEMMA InputIs ==
  ASSUME Facts, FormFacts
  PROVE  \/ IsPrefix(units, Units(forest))
         \/ units \in WithStray(Units(forest))
         \/ \E n : Shortened(forest, n, units)
<1> DEFINE all == Units(forest)
<1>1. all \in Seq(EncodedUnit) /\ forest \in AllForests /\ units \in Seq(EncodedUnit)
  BY UnitsTyped DEF FormFacts, Facts, InputFacts
<1>2. \/ units \in {SubSeq(all, 1, n) : n \in 0 .. Len(all)}
      \/ units \in WithStray(all)
      \/ units \in WithShortLength(all)
  BY Zenon DEF FormFacts, Inputs
<1>3. CASE units \in WithShortLength(all)
  BY <1>1, <1>3, ShortIs
<1> HIDE DEF all
<1>4. CASE units \in {SubSeq(all, 1, n) : n \in 0 .. Len(all)}
  <2>1. PICK n \in 0 .. Len(all) : units = SubSeq(all, 1, n)
    BY <1>4
  <2>2. n \in Nat /\ n <= Len(all)
    BY <1>1, <2>1
  <2>3. IsPrefix(SubSeq(all, 1, n), all)
    BY <1>1, <2>2, FirstPart
  <2> QED
    BY <2>1, <2>3 DEF all
<1> QED
  BY <1>2, <1>3, <1>4 DEF all

(* What the invariant says of the inputs that are refused *)
LEMMA UnbalancedAre ==
  ASSUME Facts, FormFacts, ShortFacts
  PROVE  RefusesUnbalanced
<1>1. forest \in AllForests /\ Len(forest) \in Nat
  <2>1. forest \in AllForests
    BY DEF FormFacts
  <2> QED
    BY <2>1, NodesTyped
<1>2. TagToPop
  <2> SUFFICES ASSUME pc = "undefined" PROVE units \in WithStray(Units(forest))
    BY DEF TagToPop
  <2>1. target = "definite"
    BY DEF FormFacts
  <2>2. ~IsPrefix(units, Units(forest))
    <3> SUFFICES ASSUME IsPrefix(units, Units(forest)) PROVE FALSE
      OBVIOUS
    <3>1. Follows(forest)
      BY <1>1, <2>1 DEF FormFacts
    <3> QED
      BY <3>1 DEF Follows
  <2>3. \A n : ~Shortened(forest, n, units)
    BY <2>1 DEF ShortFacts, Stalls
  <2> QED
    BY <2>2, <2>3, InputIs
<1>3. ASSUME target = "definite", Ended, NEW n \in 0 .. Len(forest),
             units = Units(SubSeq(forest, 1, n))
      PROVE  pc = "done"
  <2>1. SubSeq(forest, 1, n) \in AllForests
    BY <1>1, FirstNodes
  <2> QED
    BY <1>3, <2>1, AcceptsBalanced
<1>4. ASSUME target = "definite", pc = "done", units \notin WithStray(Units(forest))
      PROVE  \E n \in 0 .. Len(forest) : units = Units(SubSeq(forest, 1, n))
  <2>1. \A n : ~Shortened(forest, n, units)
    BY <1>4 DEF ShortFacts, Stalls
  <2>2. Encoded
    BY <1>4, <2>1, InputIs DEF Encoded
  <2> QED
    BY <1>4, <2>2, DoneBalanced
<1> QED
  BY <1>2, <1>3, <1>4, Zenon DEF RefusesUnbalanced

(* For every forest, whatever its nodes and depth: Ber2Def accepts an      *)
(* input that is the encoding of its first trees, and refuses one that     *)
(* ends while a tag is open, and one with a tag whose children are longer  *)
(* than its length says, wherever in the forest it is; it never pops a     *)
(* level that it has not pushed, but for an end-of-content unit that ends  *)
(* no tag (ber2ber.cc:155-290).                                            *)
THEOREM UnbalancedRefused == Spec => []RefusesUnbalanced
<1>1. Init => Facts /\ FormFacts /\ ShortFacts
  BY InitFacts, FormInit, ShortInit
<1>2. Facts /\ FormFacts /\ ShortFacts /\ [Step \/ (Ended /\ UNCHANGED vars)]_vars =>
        Facts' /\ FormFacts' /\ ShortFacts'
  <2> SUFFICES ASSUME Facts, FormFacts, ShortFacts,
                      [Step \/ (Ended /\ UNCHANGED vars)]_vars
               PROVE  Facts' /\ FormFacts' /\ ShortFacts'
    OBVIOUS
  <2>1. Facts' /\ FormFacts'
    BY FormsKeep
  <2>2. ShortFacts'
    BY ShortKeeps
  <2> QED
    BY <2>1, <2>2
<1>3. Facts /\ FormFacts /\ ShortFacts => RefusesUnbalanced
  BY UnbalancedAre
<1> QED
  BY <1>1, <1>2, <1>3, PTL DEF Spec
=============================================================================
