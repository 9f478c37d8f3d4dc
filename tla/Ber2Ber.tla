------------------------------- MODULE Ber2Ber -------------------------------
(***************************************************************************)
(* The converters of xfsx/ber2ber.cc: each copies BER data in a loop over  *)
(* read_next(), to                                                         *)
(*                                                                         *)
(*   "identity"    write_identity(): the same form                         *)
(*   "indefinite"  write_indefinite(): every constructed tag gets an       *)
(*                 indefinite length                                       *)
(*   "definite"    class Ber2Def, behind write_definite(): every           *)
(*                 constructed tag gets a definite length of minimal size  *)
(*                                                                         *)
(* The end of a definite tag is nowhere in the input: the last two find it *)
(* with two stacks of counters.  A definite length in the output is known  *)
(* at the end of its tag only: until then the content goes to a writer of  *)
(* its own.                                                                *)
(*                                                                         *)
(* The input is the encoding of any forest, cut off after any unit, with   *)
(* one end-of-content unit too many anywhere, or with a definite length    *)
(* that is smaller than what is inside.                                    *)
(***************************************************************************)
EXTENDS Levels

CONSTANT
  Targets       \* the forms to convert to

ASSUME Ber2BerAssumption == Targets \subseteq {"identity", "indefinite", "definite"}

VARIABLES
  forest,       \* what the input encodes
  target,       \* the form to convert to
  units,        \* the units of the input
  read,         \* how many of them have been read
  lengthStack,  \* length_stack: the lengths of the open definite tags
  writtenStack, \* written_stack: the octets read of each of them
  consStack,    \* cons_stack_: the constructed tags, open ones first
  consTop,      \* cons_stack_top_: the number of open ones
  writers,      \* the output and, if definite, one writer for each level
  writerTop,    \* writer_stack_top_: the number of writers in use
  pc            \* "read", "close" (the inner loop), "done", "failed" by an
                \* exception, or "undefined" behaviour

input == <<forest, target, units>>
counters == <<lengthStack, writtenStack>>
levels == <<consStack, consTop, writerTop>>
vars == <<input, read, counters, levels, writers, pc>>

WithStray(us) == {InsertAt(us, n, Eoc) : n \in 1 .. Len(us) + 1}

WithShortLength(us) ==
  {[us EXCEPT ![n].length = @ - 1] :
     n \in {i \in DOMAIN us : us[i].shape = "constructed" /\ us[i].length > 0}}

(* The broken ones come from forests of less than MaxNodes nodes.          *)
Inputs(f) ==
  LET us == Units(f)
  IN  {SubSeq(us, 1, n) : n \in 0 .. Len(us)}
        \cup IF Len(f) < MaxNodes THEN WithStray(us) \cup WithShortLength(us) ELSE {}

Init ==
  /\ forest \in Forests
  /\ target \in Targets
  /\ units \in Inputs(forest)
  /\ read = 0
  /\ lengthStack = <<0>>        \* a catch-all root
  /\ writtenStack = <<0>>
  /\ consStack = << >>
  /\ consTop = 0
  /\ writers = <<EmptyWriter>>
  /\ writerTop = 1
  /\ pc = "read"

(* read_next() returns the next unit u, in the loop of converter t. *)
Next(t, u) ==
  /\ target = t
  /\ pc = "read"
  /\ read < Len(units)
  /\ u = units[read + 1]
  /\ read' = read + 1
  /\ UNCHANGED input

(***************************************************************************)
(* write_identity() and write_indefinite()                                 *)
(***************************************************************************)
Copy(u) ==
  /\ Next("identity", u)
  /\ writers' = WriteTo(writers, 1, u)
  /\ UNCHANGED <<counters, levels, pc>>

CopyPrimitive(u) ==
  /\ Next("indefinite", u)
  /\ u.shape = "primitive"
  /\ writers' = WriteTo(writers, 1, u)
  /\ writtenStack' = AddToTop(writtenStack, u.tl + u.length)
  /\ pc' = "close"
  /\ UNCHANGED <<lengthStack, levels>>

CopyIndefinite(u) ==
  /\ Next("indefinite", u)
  /\ u.shape = "constructed" /\ u.indefinite
  /\ writers' = WriteTo(writers, 1, u)
  /\ writtenStack' = AddToTop(writtenStack, u.tl)
  /\ pc' = "close"
  /\ UNCHANGED <<lengthStack, levels>>

(* init_indefinite() *)
InitIndefinite(u) ==
  [u EXCEPT !.indefinite = TRUE, !.tl = MinimalTl(0), !.length = 0]

OpenDefinite(u) ==
  /\ Next("indefinite", u)
  /\ u.shape = "constructed" /\ ~u.indefinite
  /\ writers' = WriteTo(writers, 1, InitIndefinite(u))
  /\ lengthStack' = Append(lengthStack, u.length)
  /\ writtenStack' = Append(AddToTop(writtenStack, u.tl), 0)
  /\ pc' = "close"
  /\ UNCHANGED levels

(* length_stack.back() == written_stack.back() *)
Complete == Last(lengthStack) = Last(writtenStack)

(* A fault: the octets of a closed tag are not counted for its parent. *)
PopCountersUncounted ==
  /\ lengthStack' = Front(lengthStack)
  /\ writtenStack' = Front(writtenStack)

(* What was read of the closed tag was read of the one around it, too.     *)
PopCounters ==
  /\ lengthStack' = Front(lengthStack)
  /\ writtenStack' = AddToTop(Front(writtenStack), Last(lengthStack))

(* An EOC is written for the end of a definite tag. *)
CloseAsIndefinite ==
  /\ target = "indefinite" /\ pc = "close"
  /\ lengthStack # << >> /\ Complete
  /\ writers' = WriteTo(writers, 1, Eoc)
  /\ PopCounters
  /\ UNCHANGED <<input, read, levels, pc>>

(***************************************************************************)
(* Ber2Def                                                                 *)
(***************************************************************************)
(* init_length() *)
InitLength(u, length) ==
  [u EXCEPT !.indefinite = FALSE, !.length = length, !.tl = MinimalTl(length)]

(* A fault: the length is the one of the tag in the input. *)
PopConstructedKeepsLength ==
  LET header == InitLength(consStack[consTop], consStack[consTop].length)
  IN  /\ writers' = Pour(writers, writerTop, header)
      /\ writerTop' = writerTop - 1
      /\ consStack' = [consStack EXCEPT ![consTop] = header]
      /\ consTop' = consTop - 1

(* pop_constructed(): the header and the content of the innermost open tag *)
(* go to the writer of the level below.                                    *)
PopConstructed ==
  LET header == InitLength(consStack[consTop], writers[writerTop].pos)
  IN  /\ writers' = Pour(writers, writerTop, header)
      /\ writerTop' = writerTop - 1
      /\ consStack' = [consStack EXCEPT ![consTop] = header]
      /\ consTop' = consTop - 1

(* With no tag open, cons_stack_[cons_stack_top_-1] is undefined.          *)
NoTagToPop == consTop = 0 /\ pc' = "undefined" /\ UNCHANGED <<levels, writers>>

WritePrimitive(u) ==
  /\ Next("definite", u)
  /\ u.shape = "primitive" /\ ~u.eoc
  /\ writtenStack' = AddToTop(writtenStack, u.tl + u.length)
  /\ writers' = WriteTo(writers, writerTop, u)
  /\ pc' = "close"
  /\ UNCHANGED <<lengthStack, levels>>

WriteEoc(u) ==
  /\ Next("definite", u)
  /\ u.shape = "primitive" /\ u.eoc
  /\ writtenStack' = AddToTop(writtenStack, u.tl + u.length)
  /\ \/ consTop > 0 /\ PopConstructed /\ pc' = "close"
     \/ NoTagToPop
  /\ UNCHANGED lengthStack

(* The octets of a header are counted for the tag around it. *)
CountHeader(u) ==
  IF u.indefinite
  THEN writtenStack' = AddToTop(writtenStack, u.tl) /\ UNCHANGED lengthStack
  ELSE /\ writtenStack' = Append(AddToTop(writtenStack, u.tl), 0)
       /\ lengthStack' = Append(lengthStack, u.length)

WriteConstructed(u) ==
  /\ Next("definite", u)
  /\ u.shape = "constructed"
  /\ CountHeader(u)
  /\ consStack' = PutAt(consStack, consTop + 1, u)
  /\ consTop' = consTop + 1
  /\ writers' = WithLevel(writers, writerTop)
  /\ writerTop' = writerTop + 1
  /\ pc' = "close"

CloseAsDefinite ==
  /\ target = "definite" /\ pc = "close"
  /\ lengthStack # << >> /\ Complete
  /\ \/ consTop > 0 /\ PopConstructed /\ PopCounters /\ UNCHANGED pc
     \/ NoTagToPop /\ UNCHANGED counters
  /\ UNCHANGED <<input, read>>

(***************************************************************************)
(* Both                                                                    *)
(***************************************************************************)
NothingToClose ==
  /\ pc = "close"
  /\ lengthStack = << >> \/ ~Complete
  /\ pc' = "read"
  /\ UNCHANGED <<input, read, counters, levels, writers>>

(* A fault: the stacks are not looked at. *)
EndUnchecked ==
  /\ pc = "read"
  /\ read = Len(units)
  /\ pc' = "done"
  /\ UNCHANGED <<input, read, counters, levels, writers>>

(* read_next() returns false.  The end of process() looks at the stacks,   *)
(* which the other converters do not have.                                 *)
End ==
  /\ pc = "read"
  /\ read = Len(units)
  /\ pc' = IF target = "definite" /\ (writerTop # 1 \/ consTop # 0)
           THEN "failed" ELSE "done"
  /\ UNCHANGED <<input, read, counters, levels, writers>>

Ended == pc \in {"done", "failed", "undefined"}

Step ==
  \/ \E u \in {units[i] : i \in 1 .. Len(units)} :
       \/ Copy(u)
       \/ CopyPrimitive(u) \/ CopyIndefinite(u) \/ OpenDefinite(u)
       \/ WritePrimitive(u) \/ WriteEoc(u) \/ WriteConstructed(u)
  \/ CloseAsIndefinite
  \/ CloseAsDefinite
  \/ NothingToClose
  \/ End

Spec == Init /\ [][Step \/ (Ended /\ UNCHANGED vars)]_vars

(***************************************************************************)
(* Properties                                                              *)
(***************************************************************************)
TypeOK ==
  /\ units \in Seq(Unit)
  /\ target \in Targets
  /\ read \in 0 .. Len(units)
  /\ lengthStack \in Seq(Nat)
  /\ writtenStack \in Seq(Nat)
  /\ consStack \in Seq(Unit)
  /\ consTop \in 0 .. Len(consStack)
  /\ writers \in Seq(Writer)
  /\ writerTop \in 1 .. Len(writers)
  /\ pc \in {"read", "close", "done", "failed", "undefined"}

(* The definite tags that the input is inside of after n of its units:     *)
(* their content began, and is not complete.                               *)
OpenTags(n) ==
  {i \in 1 .. n :
     /\ units[i].shape = "constructed" /\ ~units[i].indefinite
     /\ SpanOf(SubSeq(units, i + 1, n)) < units[i].length}

Encoded == IsPrefix(units, Units(forest))

(* Below the entries of the open tags is the catch-all root: its length is *)
(* 0, and what was read of it is not, so that it is not popped.            *)
RootKept ==
  /\ Len(lengthStack) = Len(writtenStack)
  /\ lengthStack # << >> /\ lengthStack[1] = 0
  /\ read = 0 => Len(lengthStack) = 1 /\ pc # "close"
  /\ read > 0 /\ target # "identity" => writtenStack[1] > 0
  /\ pc = "close" => target # "identity"

(* assert(length_stack.size() > 1) and assert(written_stack.size() > 1)    *)
NotTheRoot == pc = "close" /\ Complete => Len(lengthStack) > 1

(* There is one entry for each open definite tag. *)
EndsFound ==
  target # "identity" /\ pc = "read" /\ Encoded =>
    Len(lengthStack) = Cardinality(OpenTags(read)) + 1

(* Each open tag has a writer, those above are empty, and their positions  *)
(* are the octets in them.                                                 *)
LevelsMatch ==
  /\ writerTop = consTop + 1
  /\ EmptyAbove(writers, writerTop)
  /\ Counted(writers)

(* assert(writer_stack_top_ > 1) and assert(cons_stack_top_) in            *)
(* pop_constructed(): there is a tag to pop, if the input has no           *)
(* end-of-content unit too many.                                           *)
TagToPop == pc = "undefined" => units \in WithStray(Units(forest))

(* The inductive invariant *)
IInv == TypeOK /\ RootKept /\ NotTheRoot /\ LevelsMatch

Expected ==
  CASE target = "identity"   -> units
    [] target = "indefinite" -> Units(AsIndefinite(forest))
    [] target = "definite"   -> Units(AsDefinite(forest))

(* What reaches the output is the same forest in the other form, or the    *)
(* beginning of it, and all of it if the input is complete: every end of a *)
(* definite tag is found where it is, also when several of them end        *)
(* together or inside of an indefinite tag; each length counts the octets  *)
(* that follow it, the ones of headers that changed their size included.   *)
SameForest ==
  /\ EndsFound
  /\ Ended /\ (target = "identity" \/ Encoded) =>
       /\ IsPrefix(writers[1].items, Expected)
       /\ pc = "done" /\ units = Units(forest) => writers[1].items = Expected

(* Ber2Def refuses an input that ends while a tag is open, or with a child *)
(* that is longer than the tag around it, and no other: "unexpected writer *)
(* stack - unbalanced tags?"                                               *)
RefusesUnbalanced ==
  /\ TagToPop
  /\ target = "definite" /\ Ended /\ units \notin WithStray(Units(forest)) =>
       (pc = "done" <=> \E n \in 0 .. Len(forest) : units = Units(SubSeq(forest, 1, n)))
=============================================================================
