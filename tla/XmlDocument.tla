---------------------------- MODULE XmlDocument ----------------------------
(***************************************************************************)
(* XML documents that stand for BER data, as the converters from XML       *)
(* accept them: sequences of tokens, which are the tags of the document    *)
(* with the length of the text in front of each.                           *)
(***************************************************************************)
EXTENDS Forest

Token(kind, text, width) ==
  [kind |-> kind, text |-> text, width |-> width,
   shape |-> "primitive", indefinite |-> FALSE, lsize |-> 0]

(* The start of node v; inner: the octets of its children.  A busy style   *)
(* has a declaration, comments, elements without end tags, and white space *)
(* around all of them; l_size tells a length that is not minimal.          *)
StartOf(v, inner, kind, gap) ==
  LET u == UnitOf(v, inner)
  IN  [Token(kind, gap, IF kind = "empty" THEN 2 ELSE 1)
        EXCEPT !.shape = u.shape, !.indefinite = u.indefinite,
               !.lsize = IF v.extra > 0 THEN u.tl - 2 ELSE 0]

EndOf(v, gap) ==
  Token("end", IF v.form = "primitive" THEN v.length ELSE gap, 2)

TokenKinds == {"decl", "comment", "start", "empty", "end"}

(* What is between '<' and '>' has at least one character. *)
TokenType ==
  [kind : TokenKinds, text : Nat, width : Nat \ {0},
   shape : {"primitive", "constructed"}, indefinite : BOOLEAN, lsize : Nat]

Gap(busy) == IF busy THEN 1 ELSE 0

Document(f, busy) ==
  LET gap   == Gap(busy)
      inner == Inner(f)
      NoEnd(i) == busy /\ Below(f, i) = {} /\ f[i].length = 0
      ends(i) == FlattenSeq([n \in 1 .. i |->
                   LET k == i + 1 - n      \* the inner ones first
                   IN  IF LastOf(f, k) = i /\ ~NoEnd(k) THEN <<EndOf(f[k], gap)>>
                                                        ELSE << >>])
      node(i) == <<StartOf(f[i], inner[i], IF NoEnd(i) THEN "empty" ELSE "start", gap)>>
                   \o ends(i)
      comment == IF busy THEN <<Token("comment", gap, 3)>> ELSE << >>
      decl    == IF busy THEN <<Token("decl", 0, 3)>> ELSE << >>
  IN  decl \o FlattenSeq([i \in 1 .. Len(f) |-> comment \o node(i)])
=============================================================================
