------------------------------- MODULE Levels -------------------------------
(***************************************************************************)
(* What the converters to BER with definite lengths have in common: the    *)
(* writer_stack_ of xfsx/ber2ber.cc, xml2ber.cc and lxml2ber.cc, and the   *)
(* tlv_stack_ of the last two.  The first writer is the output, and there  *)
(* is one for each open tag whose length is not known yet.  A writer is    *)
(* the sequence of the units written to it and its pos() (see              *)
(* SimpleWriter); it is kept and used again.                               *)
(***************************************************************************)
EXTENDS Forest

EmptyWriter == [items |-> << >>, pos |-> 0]

WriteItem(w, u) == [items |-> Append(w.items, u), pos |-> w.pos + Span(u)]

(* write_tag() to the writer on top *)
WriteTo(ws, top, u) == [ws EXCEPT ![top] = WriteItem(@, u)]

(* There is a writer above the top, used for the first time or again. *)
WithLevel(ws, top) == IF top >= Len(ws) THEN Append(ws, EmptyWriter) ELSE ws

(* A fault: the writer on top is not cleared. *)
PourWithoutClear(ws, top, header) ==
  LET inner == ws[top]
      outer == WriteItem(ws[top - 1], header)
  IN  [ws EXCEPT ![top - 1] = [items |-> outer.items \o inner.items,
                               pos   |-> outer.pos + inner.pos]]

(* The header and then the writer on top go to the one below; the writer   *)
(* on top is cleared.                                                      *)
Pour(ws, top, header) ==
  LET inner == ws[top]
      outer == WriteItem(ws[top - 1], header)
  IN  [ws EXCEPT ![top - 1] = [items |-> outer.items \o inner.items,
                               pos   |-> outer.pos + inner.pos],
                 ![top] = EmptyWriter]

(* s with e as its n-th element: deques here keep what was popped, and     *)
(* grow when their end is reached.                                         *)
PutAt(s, n, e) == IF n > Len(s) THEN Append(s, e) ELSE [s EXCEPT ![n] = e]

(***************************************************************************)
(* Writing tags as elements open and close.  tlvs are the open tags, the   *)
(* innermost one last; top is the number of writers in use.                *)
(***************************************************************************)
NewWriters == [tlvs |-> << >>, writers |-> <<EmptyWriter>>, top |-> 1]

(* A constructed tag opens: an indefinite one is written, a definite one   *)
(* gets a writer.                                                          *)
OpenTag(q, tlv) ==
  IF tlv.indefinite
  THEN [q EXCEPT !.tlvs = Append(@, tlv), !.writers = WriteTo(@, q.top, tlv)]
  ELSE [q EXCEPT !.tlvs = Append(@, tlv), !.writers = WithLevel(@, q.top),
                 !.top = @ + 1]

(* A fault: an l_size does not outlive init_length(). *)
HeaderOfMinimal(tlv, n) == [tlv EXCEPT !.length = n, !.tl = MinimalTl(n)]

(* The header of a tag with n octets: minimal, or what l_size asked for    *)
HeaderOf(tlv, n) ==
  [tlv EXCEPT !.length = n,
              !.tl = IF @ > MinimalTl(n) THEN @ ELSE MinimalTl(n)]

(* The innermost constructed tag ends. *)
CloseTag(q) ==
  LET tlv == Last(q.tlvs)
      n   == q.writers[q.top].pos
  IN  IF tlv.indefinite
      THEN [q EXCEPT !.tlvs = Front(@), !.writers = WriteTo(@, q.top, Eoc)]
      ELSE [q EXCEPT !.tlvs = Front(@), !.top = @ - 1,
                     !.writers = Pour(@, q.top, HeaderOf(tlv, n))]

(***************************************************************************)
(* Properties                                                              *)
(***************************************************************************)
Unit ==
  [shape : {"primitive", "constructed"}, eoc : BOOLEAN, indefinite : BOOLEAN,
   tl : Nat, length : Nat]

(* A unit that is read has a header. *)
EncodedUnit == {u \in Unit : u.tl > 0}

Writer == [items : Seq(Unit), pos : Nat]

WritersType == [tlvs : Seq(Unit), writers : Seq(Writer), top : Nat]

(* A writer that is used again starts empty: no octet and no count of the  *)
(* tag it was used for last gets into the next one of that level.          *)
EmptyAbove(ws, top) == \A i \in (top + 1) .. Len(ws) : ws[i] = EmptyWriter

(* The lengths are taken from pos(), which counts what is in the writers.  *)
Counted(ws) == \A i \in 1 .. Len(ws) : ws[i].pos = SpanOf(ws[i].items)

(* The open tags whose length is not known yet *)
Definite(tlvs) ==
  {i \in 1 .. Len(tlvs) : tlvs[i].shape = "constructed" /\ ~tlvs[i].indefinite}

(* There is a writer for the output and one for each open definite tag,    *)
(* those above are empty, and their positions are the octets in them.      *)
WritersMatch(q) ==
  /\ q.top = 1 + Cardinality(Definite(q.tlvs))
  /\ q.top <= Len(q.writers)
  /\ EmptyAbove(q.writers, q.top)
  /\ Counted(q.writers)
=============================================================================
