-------------------------------- MODULE Path --------------------------------
(***************************************************************************)
(* xfsx/path.cc: the argument of a search is cut into the tags of a path   *)
(* and the ranges of a predicate.                                          *)
(*                                                                         *)
(* A part of the path is a record of its kind - "star", "empty", "number", *)
(* "name" or "unknown", a name the grammar does not have - and its tag.  A *)
(* part of the predicate is a record of the numbers left and right of the  *)
(* dots; no number is read as 0.  brackets: there is a predicate, it may   *)
(* have no parts.                                                          *)
(***************************************************************************)
EXTENDS IntegerCodec

CONSTANT Infinite                   \* the largest number of a size_t

ASSUME InfiniteAssumption == Infinite \in Nat

(* ------------------------------ Predicate -------------------------------- *)

\* A fault: the last position is counted from zero as well.
IntervalShort(part) ==
    LET first == IF part.left = 0 THEN 0 ELSE part.left - 1
    IN  <<first, CASE ~part.dots -> first + 1
                   [] part.dots /\ part.right = 0 -> Infinite
                   [] OTHER -> part.right - 1>>

\* A closed range of positions that count from one becomes a right open
\* interval of positions that count from zero; nothing behind the dots means
\* no limit.
Interval(part) ==
    LET first == IF part.left = 0 THEN 0 ELSE part.left - 1
    IN  <<first, CASE ~part.dots -> first + 1
                   [] part.dots /\ part.right = 0 -> Infinite
                   [] OTHER -> part.right>>

\* interval_set::insert: what touches the new interval is joined with it, and
\* an empty interval is dropped.
Insert(set, new) ==
    IF new[1] >= new[2] THEN set
    ELSE LET near == {i \in set : i[1] <= new[2] /\ new[1] <= i[2]} \cup {new}
             low == CHOOSE i \in near : \A j \in near : i[1] <= j[1]
             high == CHOOSE i \in near : \A j \in near : i[2] >= j[2]
         IN  (set \ near) \cup {<<low[1], high[2]>>}

Ranges(set) == SetToSortSeq(set, LAMBDA i, j : i[1] < j[1])

\* Nothing between the brackets is an error.
EmptyPredicate(search) == search.brackets /\ search.predicate = << >>

\* Without a predicate the first match is meant.
DefaultRanges == << <<0, 1>> >>

(* --------------------------------- Path ---------------------------------- *)

\* Without a grammar the argument has to consist of digits, stars and slashes.
ParsesAsNumbers(search) ==
    /\ ~search.brackets
    /\ \A i \in DOMAIN search.parts :
         search.parts[i].kind \in {"star", "empty", "number"}

\* A star is the tag 0, and so is what has no digits.
TagOfPart(part) == IF part.kind \in {"star", "empty"} THEN 0 ELSE part.tag

\* An argument of no characters is not for a search everywhere.
foreach_part(search) ==
    [path |-> [i \in DOMAIN search.parts |-> TagOfPart(search.parts[i])],
     everywhere |-> /\ ~search.absolute
                    /\ search.parts # << >> \/ search.brackets]

parse(search, grammar) ==
    CASE ~grammar /\ ParsesAsNumbers(search) -> foreach_part(search)
      [] ~grammar /\ ~ParsesAsNumbers(search) ->
            [path |-> << >>, everywhere |-> FALSE]
      [] \E i \in DOMAIN search.parts : search.parts[i].kind = "unknown" ->
            Failed
      [] OTHER -> foreach_part(search)
=============================================================================
