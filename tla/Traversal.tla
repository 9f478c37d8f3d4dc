----------------------------- MODULE Traversal -----------------------------
(***************************************************************************)
(* The loops that walk over the tags of a BER file in memory:              *)
(*                                                                         *)
(*   "iterate"      over a Vertical_Reader or, without the EOCs, over a    *)
(*                  Skip_EOC_Reader (xfsx/xfsx.{hh,cc})                    *)
(*   "search"       search() of xfsx/search.cc                             *)
(*   "matches"      advance_first_match() and advance_next_match() of      *)
(*                  xfsx/traverser/matcher.hh                              *)
(*   "count"        Traverse or Simple_Traverse of                         *)
(*                  xfsx/traverser/traverser.hh with a CDR_Count           *)
(*   "compute_aci"  the same with an Audit_Control_Info, as in             *)
(*                  bed/command/compute_aci.cc                             *)
(*   "write_aci"    bed/command/write_aci.cc                               *)
(*                                                                         *)
(* The input is any small forest for the first three of them, for          *)
(* "iterate" also one that is cut off, that has zeros between its roots,   *)
(* an end-of-content unit too many, or a definite length that is one octet *)
(* too small or next to the largest size_t; it is a TAP file for the       *)
(* others.                                                                 *)
(***************************************************************************)
EXTENDS Aci

CONSTANTS
  Tags,         \* the tags to search for
  MaxPath,      \* bound on the length of a path
  Records,      \* the call event details a TAP file may have
  MaxRecords,   \* bound on their number
  Offsets       \* the UTC offsets of a TAP file

ASSUME TraversalAssumption ==
  MaxPath \in Nat /\ MaxRecords \in Nat /\ Wildcard \notin Tags /\ EocTag \notin Tags

VARIABLES
  job,          \* what to do
  in,           \* the input
  records,      \* the records of a TAP file
  it,           \* the iterator of "iterate"
  p,            \* the proxy of the others
  m,            \* the Basic_Matcher
  f,            \* the functors of an Audit_Control_Info
  found,        \* the units the loop was given or has matched, in order
  out,          \* the units written by "write_aci"
  status        \* "opened", "running", "traversed", "done", or "failed" by an
                \* exception

inputs == <<job, in, records>>
vars == <<inputs, it, p, m, f, found, out, status>>

Job(kind) ==
  [kind |-> kind, skipZero |-> 0, eocs |-> TRUE, clean |-> TRUE, path |-> << >>,
   anywhere |-> FALSE, simple |-> FALSE]

(***************************************************************************)
(* Inputs                                                                  *)
(***************************************************************************)
Plain == {g \in Forests : \A i \in DOMAIN g : g[i].extra = 0}

TagAs(g, tags) == [i \in DOMAIN g |-> g[i] @@ [tag |-> tags[i], value |-> 0]]

Stray == Eoc @@ [tag |-> EocTag, value |-> 0, depth |-> -1]

(* n zeros: the last of an odd number belongs to no pair *)
Zeros(n) ==
  [i \in 1 .. (n \div 2) |-> Stray]
  \o IF n % 2 = 1 THEN <<[Stray EXCEPT !.tl = 1]>> ELSE << >>

(* The units with gap(position) zeros behind each root *)
PadRoots(us, gap(_)) ==
  LET ends == {n \in 1 .. Len(us) :
                 n < Len(us) => us[n + 1].depth = 0 /\ us[n + 1].tag # EocTag}
      pad[n \in 0 .. Len(us)] ==
        IF n = 0 THEN << >>
        ELSE LET so == Append(pad[n - 1], us[n])
             IN  IF n \in ends THEN so \o Zeros(gap(SpanOf(so))) ELSE so
  IN  pad[Len(us)]

(* tl_size of a tag whose length is next to the largest size_t *)
LongTl == MinimalTl(Word - 1)

(* The units of a forest whose definite node i has the length that is      *)
(* given, next to the largest size_t                                       *)
WithLong(g, i, length) ==
  LET long == [g EXCEPT ![i].extra = LongTl - MinimalTl(Inner(g)[i])]
      tags == [k \in DOMAIN g |-> IF k = i THEN "long" ELSE "a"]
      us   == TaggedUnits(TagAs(long, tags))
  IN  [n \in DOMAIN us |-> IF us[n].tag = "long"
                           THEN [us[n] EXCEPT !.length = length] ELSE us[n]]

ToBlock(n) == (Block - (n % Block)) % Block

InitIterate ==
  \E g \in Plain : \E us \in {TaggedUnits(TagAs(g, [i \in DOMAIN g |-> "a"]))} :
  \E eocs \in BOOLEAN :
    LET is(units, size, skipZero, clean) ==
          /\ job = [Job("iterate") EXCEPT !.eocs = eocs, !.skipZero = skipZero,
                                          !.clean = clean]
          /\ in = Cut(units, size)
    IN  \/ \E size \in 0 .. SpanOf(us) : is(us, size, 0, TRUE)
        \/ \E n \in 1 .. Len(us) + 1 :
             LET stray == InsertAt(us, n, Stray)
             IN  is(stray, SpanOf(stray), 0, FALSE)
        \/ \E n \in DOMAIN us :
             /\ us[n].shape = "constructed" /\ us[n].length > 0
             /\ is([us EXCEPT ![n].length = @ - 1], SpanOf(us), 0, FALSE)
        \/ \E i \in DOMAIN g, c \in {1, LongTl, LongTl + 1} :
             LET long == WithLong(g, i, Word - c)
             IN  g[i].form = "definite" /\ is(long, SpanOf(long), 0, FALSE)
        \/ \E n \in {2, 3} :
             LET padded == PadRoots(us, LAMBDA x : n)
             IN  ~eocs /\ is(padded, SpanOf(padded), 1, TRUE)
        \/ LET padded == PadRoots(us, ToBlock)
           IN  /\ ~eocs
               /\ \A n \in DOMAIN padded :
                    padded[n].tl = 1 => padded[n - 1] = Stray
               /\ is(padded, SpanOf(padded), Block, TRUE)

Paths == UNION {[1 .. n -> Tags \cup {Wildcard}] : n \in 0 .. MaxPath}

(* All tags of a forest are definite, or all are indefinite; the largest   *)
(* ones have a single root, and one more tag behind it.                    *)
Searched ==
  {g \in Plain : /\ g = AsDefinite(g) \/ g = AsIndefinite(g)
                 /\ Len(g) = MaxNodes => \A i \in 2 .. Len(g) : g[i].depth > 0}

InitSearch ==
  \E g \in Searched : \E tags \in [DOMAIN g -> Tags] :
  \E input \in {InputOf(TaggedUnits(
                  TagAs(g, tags) \o IF Len(g) = MaxNodes THEN <<Leaf(0, "last", 0)>>
                                    ELSE << >>))} :
  \E path \in Paths, anywhere \in BOOLEAN, kind \in {"search", "matches"} :
    /\ job = [Job(kind) EXCEPT !.path = path, !.anywhere = anywhere]
    /\ in = input

InitTap ==
  \E rs \in UNION {[1 .. n -> Records] : n \in 0 .. MaxRecords},
     rootForm \in {"definite", "indefinite"}, withAci \in BOOLEAN,
     root \in {"TRANSFER_BATCH", "NOTIFICATION"} :
  \E input \in {InputOf(TaggedUnits(File(root, rootForm, Offsets, rs, withAci)))} :
  \E kind \in {"count", "compute_aci", "write_aci"}, simple \in BOOLEAN :
    /\ simple => kind = "count"
    /\ root = "NOTIFICATION" => kind = "write_aci" /\ rs = << >>
    /\ records = rs
    /\ job = [Job(kind) EXCEPT !.simple = simple]
    /\ in = input

Init ==
  /\ \/ (InitIterate \/ InitSearch) /\ records = << >>
     \/ InitTap
  /\ it = IF job.kind = "iterate" THEN NewIterator(in, job.skipZero)
                                  ELSE NewIterator(InputOf(<< >>), 0)
  /\ p = NewProxy(IF job.kind = "iterate" THEN InputOf(<< >>) ELSE in)
  /\ m = NewMatcher
  /\ f = NewAci
  /\ found = << >>
  /\ out = << >>
  /\ status = IF job.kind = "write_aci" THEN "opened" ELSE "running"

Running(kinds) == status = "running" /\ job.kind \in kinds

Stop(how) == status' = how

(***************************************************************************)
(* for (auto &tlc : reader)                                                *)
(***************************************************************************)
IterateStep ==
  /\ Running({"iterate"})
  /\ it.tlc.error = NoError
  /\ ~AtEnd(it, in)
  /\ found' = Append(found, [unit |-> it.tlc.index, height |-> it.tlc.height])
  /\ it' = IF job.eocs THEN Increment(it, in) ELSE IncrementPastEoc(it, in)
  /\ UNCHANGED <<inputs, p, m, f, out, status>>

IterateEnds ==
  /\ Running({"iterate"})
  /\ it.tlc.error # NoError \/ AtEnd(it, in)
  /\ Stop(IF it.tlc.error # NoError THEN "failed" ELSE "done")
  /\ UNCHANGED <<inputs, it, p, m, f, found, out>>

(***************************************************************************)
(* search(), advance_first_match() and advance_next_match()                *)
(***************************************************************************)
Matched == Match(m, job.path, job.anywhere, Tag(p), Height(p))

Here == [unit |-> p.tlc.index, height |-> Height(p)]

AtTag(kinds) == Running(kinds) /\ p.tlc.error = NoError /\ ~Eot(p)

SearchStep ==
  /\ AtTag({"search", "matches"})
  /\ m' = Matched
  /\ m'.result # "init"
  /\ p' = IF m'.hint = "skip" /\ found = << >> THEN SkipTo(p, in)
                                                ELSE Advance(p, in)
  /\ UNCHANGED <<inputs, it, f, found, out, status>>

(* search() returns; the others go on, with the hint of the first match.   *)
SearchFinds ==
  /\ AtTag({"search", "matches"})
  /\ m' = Matched
  /\ m'.result = "init"
  /\ found' = Append(found, Here)
  /\ IF job.kind = "search" THEN Stop("done") /\ UNCHANGED p
                            ELSE p' = Advance(p, in) /\ UNCHANGED status
  /\ UNCHANGED <<inputs, it, f, out>>

(***************************************************************************)
(* The begin of "write_aci": the first tag is TRANSFER_BATCH, and read.    *)
(***************************************************************************)
CheckFormat ==
  /\ status = "opened"
  /\ IF Tag(p) # "TRANSFER_BATCH"
     THEN Stop("failed") /\ UNCHANGED p
     ELSE Stop("running") /\ p' = Advance(p, in)
  /\ UNCHANGED <<inputs, it, m, f, found, out>>

(***************************************************************************)
(* Traverse and Simple_Traverse                                            *)
(***************************************************************************)
Fed == AciStep(f, Tag(p), Height(p), p.tlc.unit.value)

HintsOf(g) ==
  IF job.kind = "count" THEN {g.count.hint}
  ELSE {g[x].hint : x \in DOMAIN g}

(* Descends if one of the functors asks for it. *)
Moved(g) ==
  IF job.simple \/ "descend" \in HintsOf(g) THEN Advance(p, in) ELSE SkipTo(p, in)

TraverseStep ==
  /\ AtTag({"count", "compute_aci", "write_aci"})
  /\ f' = Fed
  /\ HintsOf(f') # {"stop"}
  /\ p' = Moved(f')
  /\ UNCHANGED <<inputs, it, m, found, out, status>>

TraverseStops ==
  /\ AtTag({"count", "compute_aci", "write_aci"})
  /\ f' = Fed
  /\ HintsOf(f') = {"stop"}
  /\ Stop(IF job.kind = "write_aci" THEN "traversed" ELSE "done")
  /\ UNCHANGED <<inputs, it, p, m, found, out>>

LoopEnds ==
  /\ status = "running" /\ job.kind # "iterate"
  /\ p.tlc.error # NoError \/ Eot(p)
  /\ Stop(CASE p.tlc.error # NoError      -> "failed"
            [] job.kind = "write_aci"     -> "traversed"
            [] OTHER                      -> "done")
  /\ UNCHANGED <<inputs, it, p, m, f, found, out>>

(***************************************************************************)
(* The end of "write_aci": the input from the first tag of TRANSFER_BATCH  *)
(* up to its ACI, or up to its end, between a new TRANSFER_BATCH with a    *)
(* new ACI and an EOC.                                                     *)
(***************************************************************************)
NewAciUnit == "new ACI"

NewBatch == "new TRANSFER_BATCH"

(* A fault: the ACI that is in the input is kept. *)
WrittenKeepsAci == <<NewBatch>> \o Tail(in.units) \o <<NewAciUnit, Eoc>>

Written ==
  LET last == IF Tag(p) = "AUDIT_CONTROL_INFO" THEN p.tlc.index - 1
                                               ELSE Len(in.units)
  IN  <<NewBatch>> \o SubSeq(in.units, 2, last) \o <<NewAciUnit, Eoc>>

FinalizeAll ==
  [f EXCEPT !.first = Finalize(@, "less"), !.last = Finalize(@, "greater")]

WriteAci ==
  /\ status = "traversed"
  /\ f' = FinalizeAll
  /\ IF f'.first.error \/ f'.last.error
     THEN Stop("failed") /\ UNCHANGED out
     ELSE Stop("done") /\ out' = Written
  /\ UNCHANGED <<inputs, it, p, m, found>>

Ended == status \in {"done", "failed"} /\ UNCHANGED vars

Walk ==
  \/ IterateStep \/ IterateEnds
  \/ SearchStep \/ SearchFinds
  \/ CheckFormat \/ TraverseStep \/ TraverseStops
  \/ LoopEnds
  \/ WriteAci

NextStep == Walk \/ Ended

Spec == Init /\ [][NextStep]_vars

(***************************************************************************)
(* Properties                                                              *)
(***************************************************************************)
TypeOK ==
  /\ in.size \in 0 .. SpanOf(in.units) /\ in.size < Word
  /\ status \in {"opened", "running", "traversed", "done", "failed"}
  /\ p.first \in 0 .. in.size \cup {Null}
  /\ it.begin >= it.current
  /\ \A i \in DOMAIN found : found[i].unit \in DOMAIN in.units
  /\ f.first.hint \in Hints

InOrder(ns) == SelectSeq([n \in DOMAIN in.units |-> n], LAMBDA n : n \in ns)

(* The tags that a loop over the input is to be given                      *)
Wanted(n) ==
  /\ in.units[n].depth >= 0
  /\ in.units[n].tag = EocTag => job.eocs

Whole(n) ==
  StartOf(in, n) + in.units[n].tl + in.units[n].length <= in.size

(* A loop over the iterators is given every tag in its order, zeros        *)
(* between them or not, and at the height it has in the tree: that of an   *)
(* EOC is the height of the tag it ends.                                   *)
IterateTrue ==
  job.kind = "iterate" /\ job.clean =>
    LET wanted == {n \in DOMAIN in.units : Wanted(n) /\ StartOf(in, n) < in.size}
    IN  /\ IsPrefix([i \in DOMAIN found |-> found[i].unit], InOrder(wanted))
        /\ \A i \in DOMAIN found : found[i].height = in.units[found[i].unit].depth
        /\ status = "done" => Len(found) = Cardinality(wanted)

Inv == TypeOK /\ IterateTrue

Started(n) == StartOf(in, n) < in.size

(* tl_size + length does not fit a size_t. *)
Wraps(n) == in.units[n].tl + in.units[n].length >= Word

(* An input is refused if and only if a tag in it is cut off, if it has an *)
(* end-of-content unit too many, or a definite tag that ends inside of a   *)
(* tag.  A tag whose size does not fit a size_t may pass, whatever there   *)
(* is of its content; every other that is cut off is refused even then.    *)
RefusesBroken ==
  job.kind = "iterate" =>
    /\ status = "done" =>
         /\ job.clean \/ \E n \in DOMAIN in.units : Wraps(n)
         /\ \A n \in DOMAIN in.units : Started(n) => Whole(n) \/ Wraps(n)
    /\ status = "failed" =>
         ~job.clean \/ \E n \in DOMAIN in.units : Started(n) /\ ~Whole(n)

(* The tags from the root down to unit n *)
PathOf(n) ==
  LET d == in.units[n].depth
      at(h) == IF h = d THEN n
               ELSE Max({k \in 1 .. n : in.units[k].depth = h /\ ~in.units[k].eoc})
  IN  [h \in 1 .. (d + 1) |-> in.units[at(h - 1)].tag]

Matches(n) ==
  LET tags == PathOf(n)
      skip == Len(tags) - Len(job.path)
  IN  /\ job.path # << >>
      /\ skip >= 0 /\ (~job.anywhere => skip = 0)
      /\ \A i \in DOMAIN job.path : job.path[i] \in {Wildcard, tags[skip + i]}

(* Every tag that search() returns or the matcher reports is at the path,  *)
(* wherever in the file it is.  A path from the root is matched by the     *)
(* first tag at it, and the loop over the matches gets all the others: but *)
(* not if the first one is the last tag of the input.                      *)
MatchesTrue ==
  job.kind \in {"search", "matches"} =>
    LET all == {n \in DOMAIN in.units : Matches(n)}
        is  == {found[i].unit : i \in DOMAIN found}
    IN  /\ is \subseteq all
        /\ status = "done" /\ ~job.anywhere /\ all # {} /\ Min(all) < Len(in.units)
             => is = IF job.kind = "search" THEN {Min(all)} ELSE all

TotalsTrue ==
  status = "done" =>
    /\ job.kind = "count" /\ (\A i \in DOMAIN records :
                                records[i][1].form # "indefinite")
       => f.count.counter = Len(records)
    /\ job.kind \in {"compute_aci", "write_aci"} =>
         /\ f.sum.sum = Sum_(ChargesOf, records)
         /\ f.tax.sum = Sum_(TaxesOf, records)

Times == UNION {TimesOf(records[i]) : i \in DOMAIN records}

EndsWithService(record) ==
  \E i \in Tagged(record, {"CONTENT_SERVICE_USED"}) : LastOf(record, i) = Len(record)

TimesBest ==
  LET best(stamps, order) ==
        IF Times = {} THEN stamps.result.time = None
        ELSE \E t \in Times : /\ stamps.result = [time |-> t.time,
                                                  offset |-> Offsets[t.code]]
                              /\ IsBest(order, Times, Offsets, t)
  IN  best(f.first, "less") /\ best(f.last, "greater")

TimesTrue ==
  /\ job.kind \in {"compute_aci", "write_aci"} /\ status = "done"
  /\ job.kind = "compute_aci" =>
       \E n \in DOMAIN in.units : in.units[n].tag = "AUDIT_CONTROL_INFO"
  /\ records # << >> => ~EndsWithService(Last(records))
  => TimesBest

(* Every record of a file is counted once, whatever the walk makes of the  *)
(* hints, if it does not end with an EOC.  The sums are those of the       *)
(* records: a charge type or a refund is forgotten at the next one, and    *)
(* the walk leaves out no charge.  The first and the last time stamp are   *)
(* those of the records, compared across their time zones; but not if the  *)
(* last record ends with a content service.                                *)
AciTrue == TotalsTrue /\ TimesTrue

(* write_aci replaces the ACI of a file, or adds it, and leaves the rest   *)
(* as it is: the result is one TRANSFER_BATCH. But not if an indefinite    *)
(* one has no ACI yet.                                                     *)
AciReplaced ==
  /\ job.kind = "write_aci" /\ status = "done"
  /\ in.units[1].indefinite =>
       \E n \in DOMAIN in.units : in.units[n].tag = "AUDIT_CONTROL_INFO"
  => LET kept == {n \in DOMAIN in.units : /\ n > 1
                    /\ in.units[n].depth > 0
                    /\ \A k \in 1 .. n : in.units[k].tag # "AUDIT_CONTROL_INFO"}
         order == InOrder(kept)
     IN  out = <<NewBatch>> \o [i \in DOMAIN order |-> in.units[order[i]]]
               \o <<NewAciUnit, Eoc>>
=============================================================================
