------------------------------- MODULE Xml2Ber -------------------------------
(***************************************************************************)
(* class Xml2Ber of xfsx/xml2ber.cc, behind xml::write_ber(), on top of    *)
(* the xml::Reader it owns: XML elements become BER tags.  A definite tag  *)
(* is written at the end of its element, because of its length; until then *)
(* its content goes to a writer of its own.  An indefinite one is written  *)
(* as it comes.                                                            *)
(*                                                                         *)
(* The input is a document of any forest, in one of two styles, cut off    *)
(* behind or inside of any tag, or with an end tag too many.               *)
(***************************************************************************)
EXTENDS Levels, XmlReader, XmlDocument

VARIABLES
  forest,       \* what the document stands for
  doc,          \* the document: its tags, and the length of the text before each
  x             \* the converter: tlvs, the tags of the open elements in
                \* tlv_stack_; writers and top, its writer_stack_

vars == <<readerVars, forest, doc, x>>

(***************************************************************************)
(* Documents in a file                                                     *)
(***************************************************************************)
TagsOf(d) ==
  LET close[n \in 0 .. Len(d)] ==
        IF n = 0 THEN -1 ELSE close[n - 1] + d[n].text + d[n].width + 2
  IN  [n \in 1 .. Len(d) |->
         [open |-> close[n] - d[n].width - 1, close |-> close[n]]]

(* The input ends in the last tag, or behind it and the text that follows  *)
Cuts(ts, gap) == {0} \cup {t.close + i : t \in ToSet(ts), i \in {0, 1 + gap}}

WithStray(d) == {InsertAt(d, n, Token("end", 0, 2)) : n \in 1 .. Len(d) + 1}

(* The input has n characters.  Files are read with every forest, the other *)
(* backends with the ones below MaxNodes nodes, a bound.                   *)
SourceIs(n) ==
  \E b \in Backends : (b = "file" \/ Len(forest) < MaxNodes) /\ w = New(b, n)

Init ==
  /\ forest \in Forests
  /\ \E busy \in BOOLEAN : \E d \in {Document(forest, busy)} :
       \/ doc = d /\ tags = TagsOf(d) /\ \E n \in Cuts(tags, Gap(busy)) : SourceIs(n)
       \/ doc \in WithStray(d) /\ tags = TagsOf(doc) /\ SourceIs(Last(tags).close + 1)
  /\ x = NewWriters
  /\ ReaderInit

(***************************************************************************)
(* The converter                                                           *)
(***************************************************************************)
(* read_tag(), read_attributes(), init_indefinite() and init_l_size(): an  *)
(* l_size makes the tag definite.                                          *)
TlvOf(t) ==
  [shape |-> t.shape, eoc |-> FALSE, indefinite |-> t.indefinite /\ t.lsize = 0,
   tl |-> IF t.lsize > 0 THEN 2 + t.lsize ELSE IF t.indefinite THEN 2 ELSE 0,
   length |-> 0]

(* write_start() of the tag tlv, now the innermost one *)
WriteStart(q, tlv) ==
  IF tlv.shape = "constructed" THEN OpenTag(q, tlv)
                               ELSE [q EXCEPT !.tlvs = Append(@, tlv)]

(* write_end() of the innermost tag, with n characters of text in front of *)
(* its end                                                                 *)
WriteEnd(q, n) ==
  LET tlv == [Last(q.tlvs) EXCEPT !.tl = MinimalTl(n), !.length = n]
  IN  IF tlv.shape = "constructed" THEN CloseTag(q)
      ELSE [q EXCEPT !.tlvs = Front(@), !.writers = WriteTo(@, q.top, tlv)]

(* The next tag is t. *)
Got(t) == pc = "tag" /\ t = doc[nth]

Continue == pc' = "open" /\ UNCHANGED <<w, tags, marks, k, old, nth, forest, doc>>

Throw == pc' = "failed" /\ UNCHANGED <<w, tags, marks, k, old, nth, forest, doc, x>>

(* process() skips a declaration in front of everything else. *)
Declaration(t) ==
  /\ Got(t)
  /\ t.kind = "decl"
  /\ IF nth = 1 THEN Continue /\ UNCHANGED x ELSE Throw

Comment(t) ==
  /\ Got(t)
  /\ t.kind = "comment"
  /\ Continue
  /\ UNCHANGED x

StartTag(t) ==
  /\ Got(t)
  /\ t.kind \in {"start", "empty"}
  /\ LET start == WriteStart(x, TlvOf(t))
     IN  x' = IF t.kind = "empty" THEN WriteEnd(start, 0) ELSE start
  /\ Continue

(* underflow_error("tlv stack underflow - unbalanced tags?") *)
EndTag(t) ==
  /\ Got(t)
  /\ t.kind = "end"
  /\ IF x.tlvs = << >> THEN Throw
     ELSE x' = WriteEnd(x, Value[2] - Value[1]) /\ Continue

(* A fault: only the writers are looked at. *)
FinishIgnoresTlvs ==
  /\ pc = "none"
  /\ pc' = IF x.top # 1 THEN "failed" ELSE "done"
  /\ UNCHANGED <<w, tags, marks, k, old, nth, forest, doc, x>>

(* The end of process() *)
Finish ==
  /\ pc = "none"
  /\ pc' = IF x.top # 1 \/ x.tlvs # << >> THEN "failed" ELSE "done"
  /\ UNCHANGED <<w, tags, marks, k, old, nth, forest, doc, x>>

Ended == pc \in {"done", "failed"}

Step ==
  \/ ReaderNext /\ UNCHANGED <<forest, doc, x>>
  \/ \E t \in {doc[n] : n \in 1 .. Len(doc)} :
       Declaration(t) \/ Comment(t) \/ StartTag(t) \/ EndTag(t)
  \/ Finish

Spec == Init /\ [][Step \/ (Ended /\ UNCHANGED vars)]_vars /\ WF_vars(Step)

(***************************************************************************)
(* Properties                                                              *)
(***************************************************************************)
TypeOK ==
  /\ k \in [first : Nat, second : Nat, low : Nat]
  /\ old \in Nat
  /\ nth \in 0 .. Len(tags)
  /\ pc \in {"open", "close", "tag", "none", "failed", "done"}
  /\ x \in WritersType

Inv == TypeOK /\ WritersMatch(x)

(* The inductive invariant *)
IInv == Inv /\ Tracked

(* The output is the forest of the document - in the same form, definite,  *)
(* indefinite or with superfluous length octets, and with the texts of its *)
(* primitive elements - or the beginning of it if the document is cut off. *)
SameForest ==
  Ended /\ doc \in {Document(forest, busy) : busy \in BOOLEAN} =>
    /\ IsPrefix(x.writers[1].items, Units(forest))
    /\ pc = "done" /\ w.size >= TextFrom(Len(tags)) =>
         x.writers[1].items = Units(forest)

(* Elements that are open after n tags *)
OpenAfter(n) ==
  Cardinality({m \in 1 .. n : doc[m].kind = "start"})
    - Cardinality({m \in 1 .. n : doc[m].kind = "end"})

(* Start and end tags are balanced, and nothing ends inside of a tag. *)
WellNested ==
  LET read == Cardinality({n \in 1 .. Len(tags) : tags[n].close < w.size})
  IN  /\ \A n \in 0 .. read : OpenAfter(n) >= 0
      /\ OpenAfter(read) = 0
      /\ \A n \in 1 .. Len(tags) : ~(tags[n].open < w.size /\ w.size <= tags[n].close)
      /\ \A n \in 2 .. read : doc[n].kind # "decl"

(* A document is refused if and only if it is not balanced. *)
RefusesUnbalanced == Ended => (pc = "done" <=> WellNested)

(* A document of any size is read to its end, from any source, if its tags *)
(* and texts are short enough for the window of the Reader.                *)
Terminates == TagsFit => <>Ended
=============================================================================
