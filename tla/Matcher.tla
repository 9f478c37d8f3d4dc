------------------------------ MODULE Matcher ------------------------------
(***************************************************************************)
(* Vertical_TLC_Proxy of xfsx/traverser/tlc.hh, which walks over the tags  *)
(* of a buffer, and Basic_Matcher of xfsx/traverser/matcher.hh, which      *)
(* looks for a path of tags among those it is shown.                       *)
(*                                                                         *)
(* A proxy is a record of its pointer first (or Null) and the Vertical_TLC *)
(* it works on.  The units of an input have a tag here.                    *)
(***************************************************************************)
EXTENDS VerticalTlc

Null == -1

Wildcard == "*"         \* 0 in a path_
EocTag == "EOC"

Advance(p, in) ==
  LET to(v) == IF v.error # NoError THEN [p EXCEPT !.tlc = v]
               ELSE [first |-> Behind(v), tlc |-> v]
  IN  IF p.first = Null \/ p.first = in.size THEN [p EXCEPT !.first = Null]
      ELSE Apply(to, Read(p.tlc, in, p.first))

NewProxy(in) == Advance([first |-> 0, tlc |-> NewTlc], in)

(* skip_children() of the proxy: ends if the pointer reaches the end, even *)
(* if a unit was read on the way there.                                    *)
SkipTo(p, in) ==
  LET to(x) == IF x.tlc.error # NoError THEN [p EXCEPT !.tlc = x.tlc]
               ELSE [first |-> IF x.next = in.size THEN Null ELSE x.next,
                     tlc   |-> x.tlc]
  IN  IF p.first = Null \/ p.first = in.size THEN [p EXCEPT !.first = Null]
      ELSE Apply(to, SkipChildren(p.tlc, in, p.first))

Eot(p) == p.first = Null

Tag(p) == p.tlc.unit.tag

Height(p) == p.tlc.height

(***************************************************************************)
(* Basic_Matcher                                                           *)
(***************************************************************************)
NewMatcher ==
  [state |-> "initial", off |-> 0, mis |-> 0, mat |-> 0, result |-> "none",
   hint |-> "descend"]

Resume(m, h) ==
  LET fresh   == [m EXCEPT !.result = "none", !.hint = "descend"]
      started == m.state # "initial"
      retry   == IF started /\ h <= m.mis
                 THEN [fresh EXCEPT !.state = "matching", !.mis = 0] ELSE fresh
      left    == IF started /\ h <= m.mat
                 THEN [retry EXCEPT !.state = "matching", !.mat = 0,
                                    !.result = "finalize"] ELSE retry
  IN  IF h <= m.off THEN [left EXCEPT !.state = "initial", !.off = 0] ELSE left

Found(m, h) == [m EXCEPT !.state = "inside", !.mat = h, !.result = "init"]

Starts(path, anywhere, h) == path # << >> /\ (h = 0 \/ anywhere)

(* operator()(): a unit with that tag at height h *)
Match(m, path, anywhere, tag, h) ==
  LET now      == Resume(m, h)
      fits(k)  == path[k] \in {Wildcard, tag}
      k        == h - now.off + 1
      start    == [now EXCEPT !.off = h, !.state = "matching"]
  IN  CASE now.state = "initial" ->
             IF ~(Starts(path, anywhere, h) /\ fits(1)) THEN now
             ELSE IF Len(path) = 1 THEN Found(start, h) ELSE start
        [] now.state = "matching" ->
             IF ~fits(k)
             THEN [now EXCEPT !.state = "suspended", !.mis = h, !.hint = "skip"]
             ELSE IF Len(path) = k THEN Found(now, h) ELSE now
        [] now.state = "inside" -> [now EXCEPT !.result = "apply"]
        [] now.state = "suspended" -> [now EXCEPT !.hint = "skip"]
=============================================================================
