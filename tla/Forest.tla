------------------------------- MODULE Forest -------------------------------
(***************************************************************************)
(* BER data as the converters of the library see it: a forest of tagged    *)
(* nodes, and its encoding as the sequence of units that read_next()       *)
(* returns (class Unit of xfsx/xfsx.{hh,cc}).                              *)
(*                                                                         *)
(* A forest is the sequence of its nodes in document order, each with its  *)
(* depth.  A primitive node has a content; a constructed one has its       *)
(* children, and is encoded with a definite length - the octets of its     *)
(* children - or with an indefinite one and an end-of-content unit (EOC)   *)
(* behind them.  A tag is one octet, its value is left out: nothing here   *)
(* depends on it but the one of the EOC.                                   *)
(***************************************************************************)
EXTENDS Integers, Sequences, FiniteSetsExt, SequencesExt

CONSTANTS
  MaxNodes,     \* bound on the number of nodes
  MaxDepth,     \* bound on their depth
  Contents,     \* lengths of primitive contents
  Short,        \* lengths below it are encoded in a single octet: 128
  Octet         \* the values of an octet: 256

ASSUME ForestAssumption ==
  /\ MaxNodes \in Nat
  /\ MaxDepth \in Nat
  /\ Contents \subseteq Nat
  /\ Short \in Nat \ {0}
  /\ Octet \in Nat /\ Octet > 1

Forms == {"primitive", "definite", "indefinite"}

(* extra: octets of a length that is not encoded minimally *)
Node ==
  [depth : 0 .. MaxDepth, form : {"primitive"}, extra : {0}, length : Contents]
    \cup
  [depth : 0 .. MaxDepth, form : {"definite"}, extra : {0, 1}, length : {0}]
    \cup
  [depth : 0 .. MaxDepth, form : {"indefinite"}, extra : {0}, length : {0}]

(* A node is a root, a child of the node in front of it if that is         *)
(* constructed, or a sibling of that node or of one it is inside of.       *)
IsForest(f) ==
  \A i \in 1 .. Len(f) :
    f[i].depth <= IF i = 1 THEN 0
                  ELSE IF f[i - 1].form = "primitive" THEN f[i - 1].depth
                                                      ELSE f[i - 1].depth + 1

Forests == {f \in UNION {[1 .. n -> Node] : n \in 0 .. MaxNodes} : IsForest(f)}

(* The nodes below node i *)
Below(f, i) ==
  {j \in (i + 1) .. Len(f) : \A k \in (i + 1) .. j : f[k].depth > f[i].depth}

(* The last node inside of node i, or node i *)
LastOf(f, i) == i + Cardinality(Below(f, i))

(* minimally_encoded_length(): of the 8 octets of a size, the first is left *)
(* out only if n does not need it                                          *)
Octets(n) == 1 + Cardinality({m \in 1 .. 7 : Octet ^ m <= n})

(* tl_size of init_length(): a tag, a length octet, and more of them for a *)
(* long length                                                             *)
MinimalTl(length) == 2 + IF length < Short THEN 0 ELSE Octets(length)

Eoc == [shape |-> "primitive", eoc |-> TRUE, indefinite |-> FALSE, tl |-> 2,
        length |-> 0]

(* The unit that node v starts with, given the octets of its children. A   *)
(* length with superfluous octets takes the long form.                     *)
UnitOf(v, inner) ==
  LET length == CASE v.form = "primitive"  -> v.length
                  [] v.form = "definite"   -> inner
                  [] v.form = "indefinite" -> 0
  IN  [shape      |-> IF v.form = "primitive" THEN v.form ELSE "constructed",
       eoc        |-> FALSE,
       indefinite |-> v.form = "indefinite",
       tl         |-> MinimalTl(length) + v.extra,
       length     |-> length]

(* The octets of node i without its own header; rest: the octets of each    *)
(* node behind it and of the siblings behind that                          *)
InnerOf(f, rest, i) ==
  (IF Below(f, i) = {} THEN 0 ELSE rest[i + 1])
    + IF f[i].form = "indefinite" THEN Eoc.tl ELSE 0

(* The octets of node i and of the siblings behind it *)
WithSiblings(f, rest, i) ==
  LET u    == UnitOf(f[i], InnerOf(f, rest, i))
      next == LastOf(f, i) + 1
  IN  u.tl + (IF f[i].form = "primitive" THEN u.length ELSE InnerOf(f, rest, i))
        + IF next <= Len(f) /\ f[next].depth = f[i].depth THEN rest[next] ELSE 0

Inner(f) ==
  LET rest[i \in 1 .. Len(f)] == WithSiblings(f, rest, i)
  IN  [i \in 1 .. Len(f) |-> InnerOf(f, rest, i)]

(* An EOC ends every indefinite node whose last node is i. *)
Eocs(f, i) ==
  LET ends == {k \in 1 .. i : f[k].form = "indefinite" /\ LastOf(f, k) = i}
  IN  [n \in 1 .. Cardinality(ends) |-> Eoc]

Units(f) ==
  LET inner == Inner(f)
  IN  FlattenSeq([i \in 1 .. Len(f) |-> <<UnitOf(f[i], inner[i])>> \o Eocs(f, i)])

(* The same forest with another encoding of its constructed nodes *)
AsIndefinite(f) ==
  [i \in 1 .. Len(f) |-> IF f[i].form = "primitive" THEN f[i]
                         ELSE [f[i] EXCEPT !.form = "indefinite", !.extra = 0]]

AsDefinite(f) ==
  [i \in 1 .. Len(f) |-> IF f[i].form = "primitive" THEN f[i]
                         ELSE [f[i] EXCEPT !.form = "definite", !.extra = 0]]

(* The octets of a unit that belong to the stream by itself *)
Span(u) == u.tl + IF u.shape = "primitive" THEN u.length ELSE 0

SpanOf(units) ==
  LET sum[n \in 0 .. Len(units)] ==
        IF n = 0 THEN 0 ELSE sum[n - 1] + Span(units[n])
  IN  sum[Len(units)]

(* The converters from BER count octets to find the ends of definite tags: *)
(* written_stack_ has an entry for each open one, and stack.back() += n.   *)
AddToTop(stack, n) == [stack EXCEPT ![Len(stack)] = @ + n]
=============================================================================
