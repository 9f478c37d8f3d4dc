------------------------------ MODULE Ber2Xml ------------------------------
(***************************************************************************)
(* xfsx/ber2xml.cc, as two loops over read_next():                         *)
(*                                                                         *)
(*   "xml"    class Ber2Xml and its Tag_Matcher, behind pretty_write():    *)
(*            each tag becomes an XML element, or only those at a path     *)
(*   "unber"  write_indent_unber_tl(): each tag becomes a line             *)
(*                                                                         *)
(* The end of a definite tag is nowhere in the input, so it is found with  *)
(* two stacks of counters, as in Ber2Ber.  An element is printed while the *)
(* path is matched, and indented by how many printed ones are open: what   *)
(* its start and its end see of the matcher has to be the same.            *)
(*                                                                         *)
(* The input is the encoding of a forest in memory: cut off after any      *)
(* unit, with an end-of-content unit too many, with zeros behind its roots *)
(* or its roots in blocks of their own.  Values, names and attributes are  *)
(* left out, but for the offset of a tag.                                  *)
(***************************************************************************)
EXTENDS XmlDocument

CONSTANTS
  Tags,         \* the tags to search for
  MaxPath,      \* bound on the length of a path
  Ranges,       \* search_ranges: sequences of [from, to), in ascending order
  Block         \* block_size

Wildcard == "*"         \* 0 in a path

ASSUME Ber2XmlAssumption ==
  /\ MaxPath \in Nat
  /\ Block \in Nat \ {0}
  /\ Wildcard \notin Tags
  /\ \A r \in Ranges : \A i \in DOMAIN r : r[i].from < r[i].to

VARIABLES
  job,          \* the loop, and its Pretty_Writer_Arguments
  tree,         \* what the input encodes: nodes with a tag
  units,        \* the units of the input, each with its node or 0
  c,            \* the object of the loop
  pc            \* "read", "close" (the inner loop), "block" (process_blocks()),
                \* "end", "done", "failed" by an exception, or "derailed":
                \* it goes on to read inside of a tag

inputs == <<job, tree, units>>
vars == <<inputs, c, pc>>

Job(kind) ==
  [kind |-> kind, path |-> << >>, everywhere |-> FALSE, ranges |-> << >>,
   count |-> 0, stopAfterFirst |-> FALSE, skipZero |-> FALSE, block |-> 0]

(* r.pos(), cons_stack_ up to cons_stack_top_, length_stack_ and           *)
(* written_stack_, off_ and indent_level_; searcher_ with its match_pos_,  *)
(* pos_ and match_off_, match_cnt_ and search_ranges_pos_; i of process(), *)
(* and where the block begins; the elements or lines written so far        *)
NewConverter ==
  [at |-> 0, cons |-> << >>, lengths |-> <<0>>, written |-> <<0>>, off |-> 0,
   level |-> 0, matched |-> 0, pos |-> 0, matchOff |-> 0, found |-> 0, range |-> 0,
   number |-> 0, block |-> 0, out |-> << >>]

(***************************************************************************)
(* Inputs                                                                  *)
(***************************************************************************)
Numbered(f) ==
  LET us == Units(f)
  IN  [n \in DOMAIN us |->
         us[n] @@ [node |-> IF us[n].eoc THEN 0
                            ELSE Cardinality({k \in 1 .. n : ~us[k].eoc})]]

Stray == Eoc @@ [node |-> 0]

(* n zeros: the last of an odd number belongs to no pair *)
Zeros(n) ==
  [i \in 1 .. (n \div 2) |-> Stray]
  \o IF n % 2 = 1 THEN <<[Stray EXCEPT !.tl = 1]>> ELSE << >>

(* The units of a forest with gap(position) zeros behind each root *)
PadRoots(f, gap(_)) ==
  LET us == Numbered(f)
      isEnd(n) == n < Len(us) => us[n + 1].node # 0 /\ f[us[n + 1].node].depth = 0
      pad[n \in 0 .. Len(us)] ==
        IF n = 0 THEN << >>
        ELSE LET so == Append(pad[n - 1], us[n])
             IN  IF isEnd(n) THEN so \o Zeros(gap(SpanOf(so))) ELSE so
  IN  pad[Len(us)]

ToBlock(n) == Block - (n % Block)

TagAs(f, tags) == [i \in DOMAIN f |-> f[i] @@ [tag |-> tags[i]]]

Untagged == {TagAs(f, [i \in DOMAIN f |-> "a"]) : f \in Forests}

Inputs(f) ==
  LET us == Numbered(f)
  IN  {SubSeq(us, 1, n) : n \in 0 .. Len(us)}
        \cup {InsertAt(us, n, Stray) : n \in 1 .. Len(us) + 1}

InitPlain ==
  /\ tree \in Untagged
  /\ units \in Inputs(tree)
  /\ \/ job \in {Job("xml"), Job("unber")}
     \/ job = [Job("xml") EXCEPT !.stopAfterFirst = TRUE]
     \/ /\ units = Numbered(tree)
        /\ \E n \in 1 .. Len(units) : job = [Job("xml") EXCEPT !.count = n]

Paths == UNION {[1 .. n -> Tags \cup {Wildcard}] : n \in 1 .. MaxPath}

(* All roots but the first one are primitive. *)
InitSearch ==
  \E f \in Forests :
    /\ \A i \in DOMAIN f : f[i].extra = 0
    /\ \A i \in DOMAIN f \ {1} : f[i].depth = 0 => f[i].form = "primitive"
    /\ \E tags \in [DOMAIN f -> Tags] : tree = TagAs(f, tags)
    /\ units = Numbered(tree)
    /\ \E path \in Paths, everywhere, first \in BOOLEAN, r \in Ranges :
         /\ first => \E i \in DOMAIN f \ {1} : f[i].depth = 0
         /\ job = [Job("xml") EXCEPT !.path = path, !.everywhere = everywhere,
                                     !.ranges = r, !.stopAfterFirst = first]

(* Each root is shorter than a block. *)
InitPadded ==
  /\ tree \in Untagged
  /\ \/ /\ job = [Job("xml") EXCEPT !.skipZero = TRUE]
        /\ \E n \in {2, 3} : units = PadRoots(tree, LAMBDA p : n)
     \/ /\ job = [Job("xml") EXCEPT !.block = Block]
        /\ units = PadRoots(tree, ToBlock)
        /\ \A n \in DOMAIN units :
             units[n].tl = 1 => n > 1 /\ units[n - 1] = Stray
        /\ SpanOf(units)
             = Block * Cardinality({i \in DOMAIN tree : tree[i].depth = 0})

Init ==
  /\ InitPlain \/ InitSearch \/ InitPadded
  /\ c = NewConverter
  /\ pc = IF job.block > 0 THEN "block" ELSE "read"

(***************************************************************************)
(* Tag_Matcher                                                             *)
(***************************************************************************)
Matches(x) == x.matched = Len(job.path)

Skippable(x) == ~Matches(x) /\ x.matched # x.pos

FitsNext(x, tag) ==
  x.matched < Len(job.path) /\ job.path[x.matched + 1] \in {tag, Wildcard}

(* push(), and match_cnt_ *)
PushMatcher(x, tag) ==
  LET fits   == FitsNext(x, tag) /\ (job.everywhere \/ x.matched = x.pos)
      pushed == [x EXCEPT !.pos = @ + 1,
                          !.matched = IF fits THEN @ + 1 ELSE @,
                          !.matchOff = IF fits /\ job.everywhere /\ x.matched = 0
                                       THEN x.pos ELSE @]
  IN  IF job.path = << >> THEN x
      ELSE IF ~Matches(x) /\ Matches(pushed) THEN [pushed EXCEPT !.found = @ + 1]
                                             ELSE pushed

(* A fault: a tag that was not matched ends the match, too. *)
PopMatcherAlways(x) ==
  IF job.path = << >> THEN x
  ELSE [x EXCEPT !.pos = @ - 1, !.matched = IF @ > 0 THEN @ - 1 ELSE @]

PopMatcher(x) ==
  IF job.path = << >> THEN x
  ELSE [x EXCEPT !.pos = @ - 1,
                 !.matched = IF @ > 0 /\ x.matchOff + @ = x.pos THEN @ - 1 ELSE @]

(* The ranges that end in front of the current match are left.             *)
RangeOf(x) ==
  LET ahead == {n \in x.range .. (Len(job.ranges) - 1) : x.found <= job.ranges[n + 1].to}
  IN  IF job.ranges = << >> \/ ~Matches(x) \/ x.found = 0 THEN x.range
      ELSE Min(ahead \cup {Len(job.ranges)})

(* searcher_matches(), with the range it leaves behind: x.range *)
Look(x) == [x EXCEPT !.range = RangeOf(x)]

IsShown(x) ==
  \/ job.path = << >>
  \/ /\ Matches(x)
     /\ \/ job.ranges = << >>
        \/ /\ x.found > 0
           /\ x.range < Len(job.ranges)
           /\ job.ranges[x.range + 1].from < x.found

(***************************************************************************)
(* Elements                                                                *)
(***************************************************************************)
Put(x, kind, node) ==
  [x EXCEPT !.out = Append(@, [kind |-> kind, node |-> node, level |-> x.level,
                               off |-> IF kind = "end" THEN 0 ELSE x.off])]

(* print_primitive(): the end tag comes on the same line. *)
PrintPrimitive(x, u) ==
  LET y == Look(x)
  IN  PopMatcher(IF ~IsShown(y) THEN y
                 ELSE IF u.length = 0 THEN Put(y, "empty", u.node)
                 ELSE Put(Put(y, "start", u.node), "end", u.node))

IsEmpty(u) == ~u.indefinite /\ u.length = 0

PrintConstructed(x, u) ==
  LET y == Look(x)
  IN  IF IsShown(y)
      THEN [Put(y, IF IsEmpty(u) THEN "empty" ELSE "start", u.node)
              EXCEPT !.level = @ + 1]
      ELSE y

(* cons_stack_, and length_stack_ with written_stack_ if it is definite *)
PushConstructed(x, u) ==
  [x EXCEPT !.cons = Append(@, u),
            !.lengths = IF u.indefinite THEN @ ELSE Append(@, u.length),
            !.written = IF u.indefinite THEN @ ELSE Append(@, 0)]

(* An end of this form has no tag it could end: Unexpected_EOC or          *)
(* TL_Too_Small                                                            *)
EndsNothing(x, indefinite) ==
  IF x.cons = << >> THEN TRUE ELSE Last(x.cons).indefinite # indefinite

(* A fault: the level is not left. *)
PopConstructedKeepsLevel(x) ==
  LET u == Last(x.cons)
      y == Look(x)
      shown == IF ~IsShown(y) \/ IsEmpty(u) THEN y ELSE Put(y, "end", u.node)
  IN  PopMatcher([shown EXCEPT !.cons = Front(@)])

(* The rest of pop_constructed(): the element of a tag without content was *)
(* closed at its start.                                                    *)
PopConstructed(x) ==
  LET u == Last(x.cons)
      y == Look(x)
      lower == [y EXCEPT !.level = @ - 1]
      shown == IF ~IsShown(y) THEN y
               ELSE IF IsEmpty(u) THEN lower ELSE Put(lower, "end", u.node)
  IN  PopMatcher([shown EXCEPT !.cons = Front(@)])

(* --indent_level_ of 0 wraps around: there is no memory for that much     *)
(* indentation.                                                            *)
Overflows(x) == \E i \in DOMAIN x.out : x.out[i].level < 0

(***************************************************************************)
(* process()                                                               *)
(***************************************************************************)
(* The unit that begins at an offset of the input, if one does             *)
StartingAt(p) == {n \in DOMAIN units : SpanOf(SubSeq(units, 1, n - 1)) = p}

Size == SpanOf(units)

(* read_next() returns the unit; it is the next one of process() unless    *)
(* that has read as many as it should.                                     *)
Reads(kind) == job.kind = kind /\ UNCHANGED inputs

CountReached == job.count > 0 /\ c.number >= job.count

(* After a unit, of which so many octets are counted *)
Got(x, u, octets) ==
  [x EXCEPT !.at = @ + octets, !.written = AddToTop(@, octets), !.number = @ + 1]

Take(u) == Got(c, u, Span(u))

(* process() is left by a Parse_Error, which process_blocks() ignores. *)
ParseError == pc' = IF job.block > 0 THEN "block" ELSE "failed"

Leave == pc' = IF job.block > 0 THEN "block" ELSE "end"

Proceed == pc' = IF Overflows(c') THEN "failed" ELSE "close"

(* A definite tag that cannot lead to the path                             *)
Skips(u) ==
  /\ ~u.eoc /\ ~u.indefinite
  /\ job.path # << >> /\ ~job.everywhere
  /\ Skippable(PushMatcher(c, tree[u.node].tag))

(* Its content is skipped - for a primitive, behind the content that was   *)
(* read with its header.                                                   *)
Skip(u) ==
  /\ Reads("xml") /\ ~CountReached
  /\ Skips(u)
  /\ LET got == Got(PushMatcher(c, tree[u.node].tag), u, u.tl + u.length)
     IN  c' = PopMatcher([got EXCEPT !.at = Min({Size, c.at + Span(u) + u.length})])
  /\ Proceed

Primitive(u) ==
  /\ Reads("xml") /\ ~CountReached
  /\ u.shape = "primitive" /\ ~u.eoc /\ ~Skips(u)
  /\ c' = PrintPrimitive(PushMatcher(Take(u), tree[u.node].tag), u)
  /\ Proceed

Constructed(u) ==
  /\ Reads("xml") /\ ~CountReached
  /\ u.shape = "constructed" /\ ~Skips(u)
  /\ LET x == PushMatcher(Take(u), tree[u.node].tag)
     IN  c' = PushConstructed(PrintConstructed(x, u), u)
  /\ Proceed

EndOfContent(u) ==
  /\ Reads("xml") /\ ~CountReached
  /\ u.eoc
  /\ ~EndsNothing(c, TRUE)
  /\ c' = PopConstructed(Take(u))
  /\ IF job.stopAfterFirst /\ c'.cons = << >> /\ ~Overflows(c') THEN Leave ELSE Proceed

(* The next octet of the window that is not zero; the window is all the    *)
(* rest of the input.                                                      *)
NonZero(p) ==
  Min({Size} \cup UNION {{q \in p .. Size : n \in StartingAt(q)} :
                           n \in {n \in DOMAIN units : ~units[n].eoc}})

(* Unexpected_EOC with skip_zero, if no tag is open *)
SkipZeros(u) ==
  /\ Reads("xml") /\ ~CountReached
  /\ u.eoc
  /\ c.cons = << >> /\ job.skipZero
  /\ c' = [Take(u) EXCEPT !.at = NonZero(@)]
  /\ Proceed

(* Otherwise, and TL_Too_Small; with skip_zero, the latter only *)
UnexpectedEoc(u) ==
  /\ Reads("xml") /\ ~CountReached
  /\ u.eoc
  /\ EndsNothing(c, TRUE)
  /\ ~(c.cons = << >> /\ job.skipZero)
  /\ c' = Take(u)
  /\ ParseError

(* All open elements are closed. *)
StopAtCount(u) ==
  /\ Reads("xml") /\ CountReached
  /\ LET close[n \in 0 .. Len(c.cons)] ==
           IF n = 0 THEN [c EXCEPT !.at = @ + Span(u)] ELSE PopConstructed(close[n - 1])
     IN  c' = close[Len(c.cons)]
  /\ IF Overflows(c') THEN pc' = "failed" ELSE Leave

(***************************************************************************)
(* write_indent_unber_tl()                                                 *)
(***************************************************************************)
(* A fault: an EOC is on the level of the content it ends. *)
LineInside(u) ==
  /\ Reads("unber")
  /\ LET line == [Put(Take(u), "start", u.node) EXCEPT !.off = c.at + Span(u)]
     IN  c' = IF u.shape = "constructed"
              THEN [PushConstructed(line, u) EXCEPT !.level = @ + 1, !.cons = << >>]
              ELSE line
  /\ ~(u.eoc /\ c.level = 0)
  /\ pc' = "close"

(* An EOC is on the level of the tag it ends. *)
Line(u) ==
  /\ Reads("unber")
  /\ LET lower == IF u.eoc THEN [Take(u) EXCEPT !.level = @ - 1] ELSE Take(u)
         line  == [Put(lower, "start", u.node) EXCEPT !.off = c.at + Span(u)]
     IN  c' = IF u.shape = "constructed"
              THEN [PushConstructed(line, u) EXCEPT !.level = @ + 1, !.cons = << >>]
              ELSE line
  /\ ~(u.eoc /\ c.level = 0)
  /\ pc' = "close"

(* underflow_error("superfluous EOC?") *)
SuperfluousEoc(u) ==
  /\ Reads("unber")
  /\ u.eoc /\ c.level = 0
  /\ pc' = "failed"
  /\ UNCHANGED c

(***************************************************************************)
(* The ends of definite tags                                               *)
(***************************************************************************)
Complete == Last(c.lengths) = Last(c.written)

(* What was read of the tag was read of the one around it, too. *)
PopCounters(x) ==
  [x EXCEPT !.lengths = Front(@), !.written = AddToTop(Front(@), Last(x.lengths))]

CloseDefinite ==
  /\ job.kind = "xml" /\ pc = "close"
  /\ Complete
  /\ IF EndsNothing(c, FALSE) THEN ParseError /\ UNCHANGED c
     ELSE c' = PopCounters(PopConstructed(c)) /\ Proceed
  /\ UNCHANGED inputs

(* underflow_error("indent underflow during def ending") *)
CloseLine ==
  /\ job.kind = "unber" /\ pc = "close"
  /\ Complete
  /\ IF c.level = 0 THEN pc' = "failed" /\ UNCHANGED c
     ELSE c' = [PopCounters(c) EXCEPT !.level = @ - 1] /\ UNCHANGED pc
  /\ UNCHANGED inputs

(* All ranges are behind the current match. *)
Exhausted == job.ranges # << >> /\ c.range = Len(job.ranges)

(* The end of the loop's body *)
NothingToClose ==
  /\ pc = "close"
  /\ ~Complete
  /\ LET first == job.stopAfterFirst /\ c.cons = << >>
     IN  CASE first                  -> Leave /\ UNCHANGED c
           [] ~first /\ Exhausted    -> Leave /\ c' = [c EXCEPT !.cons = << >>]
           [] ~first /\ ~Exhausted   -> pc' = "read" /\ c' = [c EXCEPT !.off = c.at]
  /\ UNCHANGED inputs

(* read_next() returns false; or what it reads is no tag. *)
EndOfInput ==
  /\ pc = "read"
  /\ StartingAt(c.at) = {}
  /\ IF c.at = Size THEN Leave ELSE pc' = "derailed"
  /\ UNCHANGED <<inputs, c>>

(***************************************************************************)
(* process_blocks() and the end of pretty_write()                          *)
(***************************************************************************)
(* A fault: the next block begins where the last one was left. *)
NextBlockUnaligned ==
  /\ pc = "block" /\ c.block < Size
  /\ c' = [c EXCEPT !.off = c.at, !.number = 0, !.block = @ + job.block]
  /\ pc' = "read"
  /\ UNCHANGED inputs

(* A reader of its own for the rest of the input *)
NextBlock ==
  /\ pc = "block" /\ c.block < Size
  /\ c' = [c EXCEPT !.at = c.block, !.off = c.block, !.number = 0,
                    !.block = @ + job.block]
  /\ pc' = "read"
  /\ UNCHANGED inputs

LastBlock ==
  /\ pc = "block" /\ c.block >= Size
  /\ pc' = "end"
  /\ UNCHANGED <<inputs, c>>

(* A fault: open tags are not looked at. *)
EndUnchecked ==
  /\ pc = "end"
  /\ pc' = "done"
  /\ UNCHANGED <<inputs, c>>

(* overflow_error("some tags are still open") *)
End ==
  /\ pc = "end"
  /\ pc' = IF job.kind = "xml" /\ c.cons # << >> /\ job.count = 0
           THEN "failed" ELSE "done"
  /\ UNCHANGED <<inputs, c>>

Ended == pc \in {"done", "failed", "derailed"} /\ UNCHANGED vars

ReadUnit(u) ==
  \/ Skip(u) \/ Primitive(u) \/ Constructed(u)
  \/ EndOfContent(u) \/ SkipZeros(u) \/ UnexpectedEoc(u)
  \/ StopAtCount(u)
  \/ Line(u) \/ SuperfluousEoc(u)

Step ==
  \/ pc = "read" /\ \E n \in StartingAt(c.at) : ReadUnit(units[n])
  \/ CloseDefinite \/ CloseLine \/ NothingToClose
  \/ EndOfInput
  \/ NextBlock \/ LastBlock
  \/ End

Spec == Init /\ [][Step \/ Ended]_vars

(***************************************************************************)
(* Properties                                                              *)
(***************************************************************************)
TypeOK ==
  /\ c.at \in 0 .. Size
  /\ c.off \in 0 .. Size
  /\ c.range \in 0 .. Len(job.ranges)
  /\ c.pos >= c.matched /\ c.matched <= Len(job.path)
  /\ pc \in {"read", "close", "block", "end", "done", "failed", "derailed"}

Is(kind, out) == SelectSeq(out, LAMBDA e : e.kind = kind)

OpenAfter(n) ==
  LET out == SubSeq(c.out, 1, n)
  IN  Len(Is("start", out)) - Len(Is("end", out))

(* Every element is indented by the number of elements it is inside of,    *)
(* and its offset is the one of its tag; but not if a path may begin       *)
(* anywhere and has more than one tag.                                     *)
ElementsTrue ==
  /\ job.kind = "xml"
  /\ job.everywhere => Len(job.path) = 1
  => \A n \in DOMAIN c.out :
       LET e == c.out[n]
       IN  /\ e.level = OpenAfter(IF e.kind = "end" THEN n ELSE n - 1)
           /\ e.kind # "end" =>
                \E i \in StartingAt(e.off) : units[i].node = e.node

(* The counters have one entry for each open definite tag, and one for the *)
(* root, which is never popped.                                            *)
StacksMatch ==
  /\ Len(c.lengths) = Len(c.written)
  /\ Len(c.lengths) >= 1 /\ c.lengths[1] = 0
  /\ job.kind = "xml" /\ ~Exhausted /\ pc = "read" =>
       Len(c.lengths) = 1 + Len(SelectSeq(c.cons, LAMBDA u : ~u.indefinite))

Inv == TypeOK /\ StacksMatch /\ ElementsTrue

(* What is written as tokens of a document, without the white space        *)
AsToken(e) ==
  LET v == tree[e.node]
  IN  [kind |-> e.kind, shape |-> IF v.form = "primitive" THEN v.form
                                  ELSE "constructed",
       indefinite |-> v.form = "indefinite",
       text |-> IF v.form = "primitive" THEN v.length ELSE 0]

Tokens ==
  LET split(e) == IF e.kind = "empty"
                  THEN <<[e EXCEPT !.kind = "start"], [e EXCEPT !.kind = "end"]>>
                  ELSE <<e>>
      out == FlattenSeq([n \in DOMAIN c.out |-> split(c.out[n])])
  IN  [n \in DOMAIN out |-> AsToken(out[n])]

(* The tokens that Document() has for nodes i .. j: end tags of primitives *)
(* have a text in front of them, and ends have no shape.                   *)
Expected(i, j) ==
  LET part == [n \in 1 .. (j - i + 1) |->
                 [tree[n + i - 1] EXCEPT !.depth = @ - tree[i].depth, !.extra = 0]]
  IN  IF j < i THEN << >> ELSE Document(part, FALSE)

Agree(tokens, document) ==
  /\ Len(tokens) = Len(document)
  /\ \A n \in DOMAIN tokens :
       /\ tokens[n].kind = document[n].kind
       /\ tokens[n].kind = "start" =>
            /\ tokens[n].shape = document[n].shape
            /\ tokens[n].indefinite = document[n].indefinite
       /\ tokens[n].kind = "end" => tokens[n].text = document[n].text

Begins(tokens, document) ==
  /\ Len(tokens) <= Len(document)
  /\ Agree(tokens, SubSeq(document, 1, Len(tokens)))

(* The last node to write *)
LastWanted ==
  IF job.count > 0
  THEN Cardinality({n \in 1 .. Min({job.count, Len(units)}) : units[n].node > 0})
  ELSE IF job.stopAfterFirst /\ units # << >> THEN LastOf(tree, 1)
  ELSE Cardinality({n \in DOMAIN units : units[n].node > 0})

(* Without a path, the result is the document that stands for the forest,  *)
(* which the converters from XML accept (SameForest of Xml2Ber): also with *)
(* zeros between the tags, in blocks, and with all elements closed if only *)
(* so many tags are wanted.                                                *)
DocumentTrue ==
  /\ job.kind = "xml" /\ job.path = << >>
  /\ pc \in {"done", "failed"}
  /\ job.skipZero \/ job.block > 0 \/ IsPrefix(units, Numbered(tree))
  => /\ Begins(Tokens, Expected(1, LastWanted))
     /\ pc = "done" => Agree(Tokens, Expected(1, LastWanted))

(* pretty_write() throws if and only if tags are open at the end or an     *)
(* end-of-content unit ends nothing.                                       *)
RefusesUnbalanced ==
  /\ job.kind = "xml" /\ job.path = << >> /\ job.count = 0
  /\ ~job.stopAfterFirst /\ ~job.skipZero /\ job.block = 0
  /\ pc \in {"done", "failed"}
  => /\ pc = "done" =>
          \E n \in 0 .. Len(tree) : units = Numbered(SubSeq(tree, 1, n))
     /\ pc = "failed" =>
          ~\E n \in 0 .. Len(tree) : units = Numbered(SubSeq(tree, 1, n))

(* The tags from the root down to node i fit a path of the same length. *)
TagPath(i) ==
  [d \in 1 .. (tree[i].depth + 1) |->
     tree[Max({n \in 1 .. i : tree[n].depth = d - 1})].tag]

Fit(path, tags) ==
  \A n \in 1 .. Min({Len(path), Len(tags)}) : path[n] \in {Wildcard, tags[n]}

AtPath(i) ==
  IF job.everywhere THEN Fit(job.path, <<tree[i].tag>>)
  ELSE tree[i].depth + 1 = Len(job.path) /\ Fit(job.path, TagPath(i))

(* The nodes to write, with all that is below them: those at the path that *)
(* are below no other, the ones in the ranges if there are ranges          *)
Wanted ==
  LET roots  == {i \in DOMAIN tree : job.stopAfterFirst => i = 1 \/ i \in Below(tree, 1)}
      at     == {i \in roots : AtPath(i)}
      top    == {i \in at : \A k \in at : i \notin Below(tree, k)}
      nth(i) == Cardinality({k \in top : k < i})
  IN  {i \in top : job.ranges = << >> \/
                   \E r \in Range(job.ranges) : r.from <= nth(i) /\ nth(i) < r.to}

(* A search writes the documents of the tags at the path, in their order.  *)
(* But not if it leaves out a primitive tag with content: then it skips    *)
(* what is behind that tag; and not if the path begins anywhere and has    *)
(* more than one tag.                                                      *)
SearchTrue ==
  /\ job.path # << >> /\ pc \in {"done", "failed", "derailed"}
  /\ job.everywhere => Len(job.path) = 1
  /\ \A i \in DOMAIN tree :
       tree[i].form = "primitive" /\ tree[i].length > 0 /\ ~job.everywhere
         => Fit(job.path, TagPath(i))
  => LET order == SelectSeq([i \in DOMAIN tree |-> i], LAMBDA i : i \in Wanted)
     IN  /\ pc = "done"
         /\ Agree(Tokens, FlattenSeq([n \in DOMAIN order |->
                                        Expected(order[n], LastOf(tree, order[n]))]))

(* The lines are indented by the depth of their tags; an end-of-content    *)
(* unit by that of the tag it ends.                                        *)
LinesTrue ==
  job.kind = "unber" /\ IsPrefix(units, Numbered(tree)) =>
    /\ pc # "failed"
    /\ \A n \in DOMAIN c.out :
         c.out[n].node > 0 => c.out[n].level = tree[c.out[n].node].depth

(* A search for a path that begins anywhere writes elements that are       *)
(* balanced.                                                               *)
NoUnderflow == c.level >= 0
=============================================================================
