---------------------------- MODULE VerticalTlc -----------------------------
(***************************************************************************)
(* class Vertical_TLC of xfsx/xfsx.{hh,cc}: reads the units of a buffer    *)
(* one by one and computes the height of each.                             *)
(*                                                                         *)
(* A Vertical_TLC is a record of                                           *)
(*   stack    stack_[0 .. depth_]: for each open constructed tag the       *)
(*            octets read of it, those expected, and whether its length    *)
(*            is indefinite; the frame of depth 0 is nobody's              *)
(*   height   of the unit read last                                        *)
(*   unit     the unit read last                                           *)
(*   index    its place in the input, and begin: its address               *)
(*   error    "none", or the exception that left the last call             *)
(*                                                                         *)
(* An input is a record of its units, where they start, and its size in    *)
(* octets, which may be less than they have; pointers into it are offsets. *)
(*                                                                         *)
(* The iterators of Vertical_Reader and Skip_EOC_Reader in                 *)
(* xfsx/xfsx.{hh,cc}: Basic_Reader<Vertical_TLC>::iterator, which reads    *)
(* one unit ahead and, if asked to, skips blocks of zeros between tags.    *)
(*                                                                         *)
(* An iterator is a record of its Vertical_TLC, the pointers current_ and  *)
(* begin_ (first_ is 0, end_ the size of the input) and skip_zero_, which  *)
(* is 0, 1 (up to the next octet that is not zero), or more (up to the     *)
(* next multiple of Block).                                                *)
(***************************************************************************)
EXTENDS Forest

CONSTANTS
  Block,        \* 1024 in the code
  Word          \* the values of a size_t: 2^64

ASSUME BlockAssumption == Block \in Nat \ {0}

ASSUME SizeAssumption == Word \in Nat \ {0}

NoError == "none"

(* The sum of two sizes, as a size_t.  A pointer is moved without wrapping: *)
(* no primitive unit is so long that it would.                             *)
Plus(a, b) == (a + b) % Word

(* op of the value of x; op applied n times to x *)
Apply(op(_), x) == CHOOSE y \in {op(z) : z \in {x}} : TRUE

Iterate(op(_), n, x) ==
  LET step[k \in 0 .. n] == IF k = 0 THEN x ELSE Apply(op, step[k - 1])
  IN  step[n]

StartsOf(units) ==
  LET start[n \in 1 .. Len(units)] ==
        IF n = 1 THEN 0 ELSE start[n - 1] + Span(units[n - 1])
  IN  [n \in 1 .. Len(units) |-> start[n]]

StartOf(in, n) == in.starts[n]

UnitAt(in, p) == CHOOSE n \in 1 .. Len(in.units) : StartOf(in, n) = p

NewTlc ==
  [stack |-> <<[length |-> 0, expected |-> 0, indefinite |-> FALSE]>>,
   height |-> 0, unit |-> Eoc, index |-> 0, begin |-> 0, error |-> NoError]

Depth(v) == Len(v.stack) - 1

Push(v, u) ==
  [v EXCEPT !.stack = Append(@, [length |-> 0, expected |-> u.length,
                                 indefinite |-> u.indefinite])]

Pop(v) ==
  LET last == Len(v.stack)
  IN  IF Depth(v) = 0 THEN [v EXCEPT !.error = "underflow"]
      ELSE [v EXCEPT !.stack =
              [Front(@) EXCEPT ![last - 1].length = Plus(@, v.stack[last].length)]]

(* Pops while the top is a definite tag that is complete. *)
ConditionalPop(v) ==
  LET once(w) ==
        LET top == Last(w.stack)
        IN  IF \/ w.error # NoError
               \/ top.indefinite
               \/ top.length < top.expected
               \/ top.length > top.expected /\ Depth(w) = 0
            THEN w
            ELSE IF top.length > top.expected
                 THEN [w EXCEPT !.error = "definite length cuts tag"]
                 ELSE Pop(w)
  IN  Iterate(once, Len(v.stack), v)

Count(v, n) == [v EXCEPT !.stack[Len(v.stack)].length = Plus(@, n)]

(* TLC::read(): the header at p must be there, the content need not be. *)
Load(v, in, p) ==
  LET n == UnitAt(in, p)
      loaded == [v EXCEPT !.height = Depth(v), !.begin = p, !.error = NoError]
  IN  IF in.size - p < 2 THEN [loaded EXCEPT !.error = "too small"]
      ELSE IF in.size - p < in.units[n].tl THEN [loaded EXCEPT !.error = "header"]
      ELSE [loaded EXCEPT !.unit = in.units[n], !.index = n]

(* A fault: an EOC gets the height of the unit in front of it. *)
CloseKeepsHeight(v) ==
  IF ~Last(v.stack).indefinite THEN [v EXCEPT !.error = "unexpected EOC"]
  ELSE Pop(v)

(* An EOC has the height of the tag it closes. *)
Close(v) ==
  IF ~Last(v.stack).indefinite THEN [v EXCEPT !.error = "unexpected EOC"]
  ELSE LET popped == Pop(v)
       IN  [popped EXCEPT !.height = Depth(popped)]

(* The new Vertical_TLC; Behind is the pointer read() returns. *)
Read(v, in, p) ==
  LET primitive(w) ==
        IF w.error # NoError THEN w
        ELSE ConditionalPop(Count(w, w.unit.tl + w.unit.length))
      constructed(w) ==
        IF w.unit.indefinite \/ w.unit.length > 0
        THEN Push(Count(w, w.unit.tl), w.unit)
        ELSE ConditionalPop(Count(w, w.unit.tl))
      read(w) ==
        IF w.error # NoError THEN w
        ELSE IF w.unit.shape = "constructed" THEN constructed(w)
        ELSE IF w.unit.eoc THEN Apply(primitive, Close(w)) ELSE primitive(w)
  IN  Apply(read, Load(v, in, p))

(* The pointer behind the unit that was read *)
Behind(v) == v.begin + Span(v.unit)

(* A fault: the octets jumped over are not counted. *)
SkipUncounted(v) == v

(* skip(): jumps over the content of the definite tag that was just read.  *)
Skip(v) ==
  IF v.unit.shape = "constructed" /\ v.unit.length > 0
  THEN ConditionalPop([v EXCEPT !.stack[Len(v.stack)].length = v.unit.length])
  ELSE v

SkipLength(u) == IF u.shape = "constructed" THEN u.length ELSE 0

(* skip_children(): reads on to the next unit that is not below the one    *)
(* just read, jumping over definite tags.  A result is the Vertical_TLC    *)
(* and the returned pointer.                                               *)
SkipChildren(v, in, p) ==
  LET more(x) == x.tlc.error = NoError /\ x.next < in.size
      read(x) == LET w == Read(x.tlc, in, x.next)
                 IN  Apply(LAMBDA y : [tlc |-> y, next |-> Behind(y)], w)
      once(x) == Apply(LAMBDA y : IF more(y) THEN read(y) ELSE y,
                       [tlc  |-> Skip(x.tlc),
                        next |-> x.next + SkipLength(x.tlc.unit)])
      again(x) == IF more(x) /\ x.tlc.height > v.height THEN once(x) ELSE x
  IN  IF p >= in.size
      THEN [tlc |-> [v EXCEPT !.error = "not enough space"], next |-> p]
      ELSE Iterate(again, Len(in.units), once([tlc |-> v, next |-> p]))

(* A fault: whether the content is there is not checked. *)
ReadUnchecked(tlc, in, p) == Read(tlc, in, p)

(* size_t(end - begin) < tl_size + length: throws if the content is cut,   *)
(* of a constructed tag as well, but not if the sum wraps                  *)
ReadChecked(tlc, in, p) ==
  Apply(LAMBDA v : IF /\ v.error = NoError
                      /\ in.size - p < Plus(v.unit.tl, v.unit.length)
                   THEN [v EXCEPT !.error = "content overflows"] ELSE v,
        Read(tlc, in, p))

NewIterator(in, skipZero) ==
  LET v == ReadChecked(NewTlc, in, 0)
  IN  IF in.size = 0
      THEN [tlc |-> NewTlc, current |-> 0, begin |-> 0, skipZero |-> skipZero]
      ELSE [tlc |-> v, current |-> 0, begin |-> Behind(v), skipZero |-> skipZero]

(* The first octet from p on that is not zero; the units other than EOCs   *)
(* start with one.                                                         *)
NonZero(in, p) ==
  Min({in.size} \cup {StartOf(in, n) :
        n \in {m \in 1 .. Len(in.units) : ~in.units[m].eoc /\ StartOf(in, m) >= p}})

(* Where to read on after an unexpected EOC *)
SkipZero(it, in) ==
  IF it.skipZero = 1 THEN NonZero(in, it.begin)
  ELSE Min({in.size, ((it.begin + Block) \div Block) * Block})

(* operator++ of Vertical_Reader::iterator: reads again behind the zeros   *)
(* after an unexpected EOC, and takes an end of the input that is too      *)
(* small for a header for more of them.                                    *)
Increment(it, in) ==
  LET next(i, v) ==
        CASE v.error = "unexpected EOC" /\ it.skipZero > 0 ->
               [i EXCEPT !.tlc = v, !.begin = SkipZero(i, in)]
          [] v.error = "too small" /\ it.skipZero > 0 ->
               [i EXCEPT !.tlc = [v EXCEPT !.error = NoError], !.begin = in.size]
          [] OTHER -> [i EXCEPT !.tlc = v, !.begin = Behind(v)]
      try(i) == Apply(LAMBDA v : next(i, v), ReadChecked(i.tlc, in, i.begin))
      again(i) == IF i.tlc.error = "unexpected EOC" /\ it.skipZero > 0
                  THEN try(i) ELSE i
      moved == [it EXCEPT !.current = it.begin]
  IN  IF it.begin < in.size THEN Iterate(again, Len(in.units), try(moved))
                            ELSE moved

AtEnd(it, in) == it.current = in.size

(* operator++ of Skip_EOC_Reader::iterator *)
IncrementPastEoc(it, in) ==
  LET again(i) == IF i.tlc.error = NoError /\ i.current < in.size /\ i.tlc.unit.eoc
                  THEN Increment(i, in) ELSE i
  IN  Iterate(again, Len(in.units), Increment(it, in))
=============================================================================
