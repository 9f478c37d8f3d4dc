------------------------------ MODULE XmlReader ------------------------------
(***************************************************************************)
(* class xml::Reader of xfsx/xml.{hh,cc}: it finds the tags of an XML file *)
(* in the window of a Simple_Reader and hands them out one by one, with    *)
(* the text in front of them.  It keeps offsets into the window only, and  *)
(* corrects them when it lets the window go on.                            *)
(*                                                                         *)
(* The text of the file is abstracted to the positions of its '<' and '>'. *)
(* A character is its position, so that looking at a tag means to look up  *)
(* the one that begins there.  XML allows '>' outside of tags: each        *)
(* character between two tags is one here.                                 *)
(***************************************************************************)
EXTENDS Window, Sequences, FiniteSetsExt, SequencesExt

CONSTANT
  ReaderInc     \* inc_ of the Reader: what it asks its source for

ASSUME XmlReaderAssumption ==
  {ReaderInc, Inc, Word} \subseteq Nat \ {0}

VARIABLES
  tags,         \* the tags of the file: [open, close], where '<' and '>' are
  marks,        \* the positions of all of them: [lefts, rights]
  k,            \* k_ and low_: offsets into the window
  old,          \* old_k_second, a local variable of next()
  nth,          \* history: how many tags next() has returned
  pc            \* "open" and "close", the loops of next(); "tag", it has
                \* returned true; "none", false; "failed", it has thrown

readerVars == <<w, tags, marks, k, old, nth, pc>>

(* Where the text behind the n-th tag begins *)
TextFrom(n) == IF n = 0 THEN 0 ELSE tags[n].close + 1

(* The source may end anywhere, w.size characters are there. *)
ReaderInit ==
  /\ marks = [lefts  |-> {t.open : t \in ToSet(tags)},
             rights |-> {t.close : t \in ToSet(tags)}
                          \cup TextFrom(Len(tags)) .. w.size
                          \cup UNION {TextFrom(n) .. (tags[n + 1].open - 1) :
                                        n \in 0 .. Len(tags) - 1}]
  /\ k = [first |-> 0, second |-> 0, low |-> 0]
  /\ old = 0
  /\ nth = 0
  /\ pc = "open"

InWindow(from) == (w.at + from) .. (w.at + w.avail - 1)

Lefts == marks.lefts \cap InWindow(k.second)
Rights == marks.rights \cap InWindow(k.second)

(* A fault: the text in front of the tag is forgotten, too. *)
RefillForgetsText(from) ==
  /\ ~w.eof
  /\ w' = More(Drop(w, k.second), ReaderInc)
  /\ k' = [first |-> k.first - k.second, second |-> 0, low |-> 0]
  /\ old' = from - k.second
  /\ UNCHANGED <<tags, marks, nth, pc>>

(* A fault: nothing is forgotten. *)
RefillForgetsNothing(from) ==
  /\ ~w.eof
  /\ w' = More(w, ReaderInc)
  /\ UNCHANGED <<tags, marks, k, old, nth, pc>>

(* forget(low_) and next(inc_): the window begins where low_ was. *)
Refill(from) ==
  /\ ~w.eof
  /\ w' = More(Drop(w, k.low), ReaderInc)
  /\ k' = [first |-> k.first - k.low, second |-> k.second - k.low, low |-> 0]
  /\ old' = from - k.low
  /\ UNCHANGED <<tags, marks, nth, pc>>

OpenFound ==
  /\ pc = "open"
  /\ Lefts # {}
  /\ LET first == Min(Lefts) - w.at + 1
     IN  k' = [k EXCEPT !.first = first, !.second = first + 1]
  /\ old' = k.second
  /\ pc' = "close"
  /\ UNCHANGED <<w, tags, marks, nth>>

(* old has no meaning here, and is reset. *)
OpenRefill == pc = "open" /\ Lefts = {} /\ Refill(k.low)

OpenEnd ==
  /\ pc = "open" /\ Lefts = {}
  /\ w.eof
  /\ pc' = "none"
  /\ UNCHANGED <<w, tags, marks, k, old, nth>>

CloseFound ==
  /\ pc = "close"
  /\ Rights # {}
  /\ k' = [k EXCEPT !.low = old, !.second = Min(Rights) - w.at + 1]
  /\ nth' = nth + 1
  /\ pc' = "tag"
  /\ UNCHANGED <<w, tags, marks, old>>

CloseRefill == pc = "close" /\ Rights = {} /\ Refill(old)

(* range_error("file ends within a tag") *)
CloseEnd ==
  /\ pc = "close" /\ Rights = {}
  /\ w.eof
  /\ pc' = "failed"
  /\ UNCHANGED <<w, tags, marks, k, old, nth>>

ReaderNext ==
  \/ OpenFound \/ OpenRefill \/ OpenEnd
  \/ CloseFound \/ CloseRefill \/ CloseEnd

(* tag() and value() as ranges of the file: the first character, and the   *)
(* one behind the last                                                     *)
Tag == <<w.at + k.first, w.at + k.second - 1>>
Value == <<w.at + k.low, w.at + k.first - 1>>

(***************************************************************************)
(* Properties                                                              *)
(***************************************************************************)
(* The tags come out one by one, none is missed, each with the text that   *)
(* is between it and the one before; and all of that is still in the       *)
(* window, however often it went on between '<' and '>'.                   *)
TagTrue ==
  pc = "tag" =>
    /\ Tag = <<tags[nth].open + 1, tags[nth].close>>
    /\ Value = <<TextFrom(nth - 1), tags[nth].open>>
    /\ k.low <= k.first - 1 /\ k.second <= w.avail

(* What next() relies on, in each of its loops and between two calls: the  *)
(* offsets are behind the last tag or around the next one, and no part of  *)
(* the file that is still to be handed out has left the window.            *)
Tracked ==
  /\ w.at + w.avail <= w.size
  /\ pc = "open" =>
       /\ w.at + k.second = TextFrom(nth)
       /\ k.low <= k.first /\ k.low <= k.second /\ k.second <= w.avail
  /\ pc = "close" =>
       /\ nth < Len(tags)
       /\ w.at + old = TextFrom(nth)
       /\ w.at + k.first = tags[nth + 1].open + 1 /\ k.second = k.first + 1
       /\ k.low <= old /\ old < k.first /\ old <= w.avail
  /\ pc = "tag" => nth > 0 /\ TagTrue

(* All that the Reader must have in its window at once is no longer than   *)
(* what it asks its source for: two successive tags with the texts in      *)
(* front of them, and the last tag with what is behind it.                 *)
TagsFit ==
  LET from(n) == TextFrom(Max({n - 2, 0}))
  IN  /\ \A n \in 1 .. Len(tags) : tags[n].close + 1 - from(n) <= ReaderInc
      /\ w.size - from(Len(tags) + 1) < ReaderInc
=============================================================================
