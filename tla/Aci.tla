-------------------------------- MODULE Aci ---------------------------------
(***************************************************************************)
(* The functors of xfsx/tap/traverser.hh that compute the audit control    *)
(* information of a TAP file: each is shown its tags, with their height    *)
(* and value, and answers with a hint how to go on.                        *)
(*                                                                         *)
(* A local time is a number of hours (in the code, a string of digits that *)
(* compares the same way; None is the empty string), a UTC offset one that *)
(* is added to it.  A functor returns itself with its hint.                *)
(*                                                                         *)
(* TAP files as tagged forests, and what their audit control information   *)
(* should be: the number of call event details (the records), the sum of   *)
(* their standard charges and of their taxes, the earliest and the latest  *)
(* of the times they are charged at (GSMA TD.57, as the comments of        *)
(* xfsx/tap/traverser.hh refer to it).                                     *)
(***************************************************************************)
EXTENDS Matcher, Functions

None == -100            \* below every local time

Hints == {"descend", "skip", "stop"}

Answer(f, hint) == [f EXCEPT !.hint = hint]

(***************************************************************************)
(* CDR_Count                                                               *)
(***************************************************************************)
NewCount == [counter |-> 0, inside |-> FALSE, hint |-> "descend"]

CountStep(f, tag, h, value) ==
  IF tag = "AUDIT_CONTROL_INFO"
  THEN Answer([f EXCEPT !.inside = FALSE], "stop")
  ELSE IF h = 0 THEN Answer(f, "descend")
  ELSE IF tag = "CALL_EVENT_DETAIL_LIST"
  THEN Answer([f EXCEPT !.inside = TRUE], "descend")
  ELSE Answer(IF h = 2 /\ f.inside THEN [f EXCEPT !.counter = @ + 1] ELSE f,
              "skip")

(***************************************************************************)
(* Sum<Charge_Tag> and Sum<Tax_Tag>                                        *)
(***************************************************************************)
Standard == "00"        \* the charge type that is the total

NewSum == [sum |-> 0, type |-> Standard, refund |-> FALSE, inside |-> FALSE,
           hint |-> "descend"]

Summed(kind) ==
  IF kind = "charge" THEN {"CHARGE", "CAMEL_INVOCATION_FEE"} ELSE {"TAX_VALUE"}

(* A fault: the charge type and the refund of the record before are kept. *)
SumDetailNeverResets(f, kind, tag, h, value) ==
  CASE tag = "CHARGE_TYPE" -> [f EXCEPT !.type = value]
    [] tag = "CHARGE_REFUND_INDICATOR" -> [f EXCEPT !.refund = TRUE]
    [] tag \in Summed(kind) ->
         IF ~f.refund /\ (f.type = Standard \/ kind = "tax")
         THEN [f EXCEPT !.sum = @ + value] ELSE f
    [] OTHER -> f

(* A tag inside of the records *)
SumDetail(f, kind, tag, h, value) ==
  IF h = 2 THEN [f EXCEPT !.type = Standard, !.refund = FALSE]
  ELSE CASE tag = "CHARGE_TYPE" -> [f EXCEPT !.type = value]
         [] tag = "CHARGE_REFUND_INDICATOR" -> [f EXCEPT !.refund = TRUE]
         [] tag \in Summed(kind) ->
              IF ~f.refund /\ (f.type = Standard \/ kind = "tax")
              THEN [f EXCEPT !.sum = @ + value] ELSE f
         [] OTHER -> f

SumStep(f, kind, tag, h, value) ==
  IF h = 0 THEN Answer(f, "descend")
  ELSE CASE tag = "AUDIT_CONTROL_INFO" -> Answer([f EXCEPT !.inside = FALSE], "stop")
         [] tag = "CALL_EVENT_DETAIL_LIST" ->
              Answer([f EXCEPT !.inside = TRUE], "descend")
         [] OTHER -> IF f.inside
                     THEN Answer(SumDetail(f, kind, tag, h, value), "descend")
                     ELSE Answer(f, "skip")

(***************************************************************************)
(* Timestamp<Less_Tag> and Timestamp<Greater_Tag>                          *)
(***************************************************************************)
ContentSlots == <<"order", "requested", "actual">>

Slots == {"charging", "deposit", "completion"} \cup Range(ContentSlots)

(* The tags that hold a time stamp, and where it is put *)
SlotOf ==
  [CHARGING_TIME_STAMP           |-> "charging",
   CALL_EVENT_START_TIME_STAMP   |-> "charging",
   SERVICE_START_TIME_STAMP      |-> "charging",
   DEPOSIT_TIME_STAMP            |-> "deposit",
   COMPLETION_TIME_STAMP         |-> "completion",
   ORDER_PLACED_TIME_STAMP       |-> "order",
   REQUESTED_DELIVERY_TIME_STAMP |-> "requested",
   ACTUAL_DELIVERY_TIME_STAMP    |-> "actual"]

EmptyStamp == [time |-> None, code |-> 0]

(* offsets is off_map_, best timestamps_: the best time of each code       *)
NewTimestamp ==
  [state |-> "outside", offsets |-> << >>, best |-> << >>, code |-> 0,
   stamps |-> [s \in Slots |-> EmptyStamp], point |-> 0, height |-> 0,
   result |-> [time |-> None, offset |-> 0], error |-> FALSE, hint |-> "descend"]

Better(order, a, b) == IF order = "less" THEN a < b ELSE a > b

Put(f, x, y) == [z \in DOMAIN f \cup {x} |-> IF z = x THEN y ELSE f[z]]

(* push() *)
PushStamp(f, order, stamp) ==
  IF /\ stamp.code \in DOMAIN f.best
     /\ ~Better(order, stamp.time, f.best[stamp.code])
  THEN f ELSE [f EXCEPT !.best = Put(@, stamp.code, stamp.time)]

Utc(f, code) == f.best[code] - f.offsets[code]

(* finalize(): the best of all codes, compared as UTC; of two equal ones,  *)
(* the later code overwrites the earlier one in the map.                   *)
Finalize(f, order) ==
  LET codes == DOMAIN f.best
      last(c) == \A d \in codes :
        /\ ~Better(order, Utc(f, d), Utc(f, c))
        /\ Utc(f, d) = Utc(f, c) => d <= c
      c == CHOOSE x \in codes : last(x)
  IN  IF codes = {} THEN f
      ELSE IF \E x \in codes : f.best[x] = None \/ x \notin DOMAIN f.offsets
      THEN [f EXCEPT !.error = TRUE]
      ELSE [f EXCEPT !.result = [time |-> f.best[c], offset |-> f.offsets[c]]]

Outside(f, order, tag, h) ==
  CASE tag = "AUDIT_CONTROL_INFO" -> Answer(Finalize(f, order), "stop")
    [] tag = "CALL_EVENT_DETAIL_LIST" ->
         Answer([f EXCEPT !.state = "records"], "descend")
    [] tag = "NETWORK_INFO" -> Answer([f EXCEPT !.state = "network"], "descend")
    [] OTHER -> Answer(f, IF h > 0 THEN "skip" ELSE "descend")

InNetworkInfo(f, tag, value) ==
  CASE tag = "UTC_TIME_OFFSET_CODE" -> [f EXCEPT !.code = value]
    [] tag = "UTC_TIME_OFFSET" -> [f EXCEPT !.offsets = Put(@, f.code, value)]
    [] OTHER -> f

(* CHARGING_POINT of a service centre usage: 'C' or 'D' *)
ChargingPoint(f, order, point) ==
  LET chosen == CASE point = "C" -> PushStamp(f, order, f.stamps["completion"])
                  [] point = "D" -> PushStamp(f, order, f.stamps["deposit"])
                  [] OTHER       -> f
  IN  [chosen EXCEPT !.stamps["completion"] = EmptyStamp,
                     !.stamps["deposit"] = EmptyStamp]

InRecords(f, order, tag, h, value) ==
  CASE tag \in DOMAIN SlotOf ->
         [f EXCEPT !.state = SlotOf[tag],
                   !.point = IF \E i \in 1 .. 3 : ContentSlots[i] = SlotOf[tag]
                             THEN CHOOSE i \in 1 .. 3 : ContentSlots[i] = SlotOf[tag]
                             ELSE @]
    [] tag = "CHARGING_POINT" -> ChargingPoint(f, order, value)
    [] tag = "CONTENT_TRANSACTION_BASIC_INFO" ->
         [f EXCEPT !.point = 0,
                   !.stamps = [s \in Slots |-> IF s \in Range(ContentSlots)
                                               THEN EmptyStamp ELSE @[s]]]
    [] tag = "CONTENT_SERVICE_USED" ->
         [f EXCEPT !.state = "service", !.height = h]
    [] OTHER -> f

(* Inside of a time stamp: its offset code ends it.                        *)
InStamp(f, order, tag, value) ==
  LET done == [f EXCEPT !.stamps[f.state].code = value, !.state = "records"]
  IN  CASE tag = "LOCAL_TIME_STAMP" -> [f EXCEPT !.stamps[f.state].time = value]
        [] tag = "UTC_TIME_OFFSET_CODE" ->
             IF f.state = "charging"
             THEN PushStamp(done, order, done.stamps["charging"]) ELSE done
        [] OTHER -> f

(* Inside of CONTENT_SERVICE_USED: the tag behind it takes the time stamp  *)
(* the charging point names.                                               *)
InService(f, order, tag, h, value) ==
  LET chosen == IF f.point \in 1 .. 3
                THEN PushStamp(f, order, f.stamps[ContentSlots[f.point]]) ELSE f
  IN  CASE h <= f.height -> [chosen EXCEPT !.state = "records"]
        [] h > f.height /\ tag = "CONTENT_CHARGING_POINT" ->
             [f EXCEPT !.point = value]
        [] OTHER -> f

TimestampStep(f, order, tag, h, value) ==
  LET now == IF h < 2 THEN [f EXCEPT !.state = "outside"] ELSE f
      next == CASE now.state = "network" -> InNetworkInfo(now, tag, value)
                [] now.state = "records" -> InRecords(now, order, tag, h, value)
                [] now.state = "service" -> InService(now, order, tag, h, value)
                [] OTHER                 -> InStamp(now, order, tag, value)
  IN  IF now.state = "outside" THEN Outside(now, order, tag, h)
      ELSE Answer(next, "descend")

(***************************************************************************)
(* Audit_Control_Info: all of them over the same tags                      *)
(***************************************************************************)
NewAci ==
  [count |-> NewCount, sum |-> NewSum, tax |-> NewSum, first |-> NewTimestamp,
   last |-> NewTimestamp]

AciStep(f, tag, h, value) ==
  [count |-> CountStep(f.count, tag, h, value),
   sum   |-> SumStep(f.sum, "charge", tag, h, value),
   tax   |-> SumStep(f.tax, "tax", tag, h, value),
   first |-> TimestampStep(f.first, "less", tag, h, value),
   last  |-> TimestampStep(f.last, "greater", tag, h, value)]

TagNode(depth, form, tag, value) ==
  [depth |-> depth, form |-> form, extra |-> 0,
   length |-> IF form = "primitive" THEN 1 ELSE 0, tag |-> tag, value |-> value]

Leaf(depth, tag, value) == TagNode(depth, "primitive", tag, value)

Group(depth, tag) == TagNode(depth, "definite", tag, 0)

(* The units of a tagged forest, each with its tag, its value, and its     *)
(* depth: an EOC has that of the node it ends, the innermost comes first.  *)
TaggedUnits(f) ==
  LET us       == Units(f)
      node(n)  == Cardinality({k \in 1 .. n : ~us[k].eoc})
      nth(n)   == Cardinality({k \in 1 .. n : us[k].eoc /\ node(k) = node(n)})
      ends(n)  == {j \in 1 .. node(n) : /\ f[j].form = "indefinite"
                                        /\ LastOf(f, j) = node(n)}
      ended(n) == CHOOSE j \in ends(n) :
                    Cardinality({k \in ends(n) : k >= j}) = nth(n)
  IN  [n \in 1 .. Len(us) |->
         us[n] @@
         IF us[n].eoc
         THEN [tag |-> EocTag, value |-> 0, depth |-> f[ended(n)].depth]
         ELSE [tag |-> f[node(n)].tag, value |-> f[node(n)].value,
               depth |-> f[node(n)].depth]]

Cut(units, size) == [units |-> units, starts |-> StartsOf(units), size |-> size]

InputOf(units) == Cut(units, SpanOf(units))

(***************************************************************************)
(* Parts of records                                                        *)
(***************************************************************************)
Stamp(depth, tag, time, code) ==
  <<Group(depth, tag), Leaf(depth + 1, "LOCAL_TIME_STAMP", time),
    Leaf(depth + 1, "UTC_TIME_OFFSET_CODE", code)>>

ChargeDetail(depth, type, charge, tax) ==
  <<Group(depth, "CHARGE_DETAIL"), Leaf(depth + 1, "CHARGE_TYPE", type),
    Leaf(depth + 1, "CHARGE", charge), Leaf(depth + 1, "TAX_VALUE", tax)>>

(* A file: its first tag, the offsets of the codes from 1 on, the records,  *)
(* each with the form of its first tag, and an ACI if wanted               *)
File(root, rootForm, offsets, records, withAci) ==
  <<TagNode(0, rootForm, root, 0), Group(1, "NETWORK_INFO")>>
  \o FlattenSeq([c \in 1 .. Len(offsets) |->
       <<Leaf(2, "UTC_TIME_OFFSET_CODE", c), Leaf(2, "UTC_TIME_OFFSET", offsets[c])>>])
  \o <<Group(1, "CALL_EVENT_DETAIL_LIST")>>
  \o FlattenSeq(records)
  \o IF withAci THEN <<Group(1, "AUDIT_CONTROL_INFO"), Leaf(2, "TOTAL_CHARGE", 0)>>
     ELSE << >>

(***************************************************************************)
(* The reference: what the records of a file say                           *)
(***************************************************************************)
Tagged(record, tags) == {i \in 1 .. Len(record) : record[i].tag \in tags}

(* The value of a tag below node i, or a default *)
ValueBelow(record, i, tag, default) ==
  LET below == {j \in Below(record, i) : record[j].tag = tag}
  IN  IF below = {} THEN default ELSE record[Min(below)].value

(* A charge counts if no refund is indicated in front of it, and its       *)
(* charge detail is of the standard type.                                  *)
ChargesOf(record) ==
  LET counts(i) ==
        LET types == {j \in Tagged(record, {"CHARGE_TYPE"}) : j < i}
        IN  /\ \A j \in Tagged(record, {"CHARGE_REFUND_INDICATOR"}) : j > i
            /\ types # {} => record[Max(types)].value = Standard
  IN  MapThenSumSet(LAMBDA i : record[i].value,
                    {i \in Tagged(record, Summed("charge")) : counts(i)})

TaxesOf(record) ==
  MapThenSumSet(LAMBDA i : record[i].value,
    {i \in Tagged(record, {"TAX_VALUE"}) :
       \A j \in Tagged(record, {"CHARGE_REFUND_INDICATOR"}) : j > i})

(* The [time, code] of the last time stamp of a slot in front of node i *)
StampBefore(record, i, slot) ==
  LET s == Max({j \in Tagged(record, {t \in DOMAIN SlotOf : SlotOf[t] = slot}) : j < i})
  IN  [time |-> ValueBelow(record, s, "LOCAL_TIME_STAMP", None),
       code |-> ValueBelow(record, s, "UTC_TIME_OFFSET_CODE", 0)]

(* A content service is charged at its charging point, or at the last of   *)
(* the times of its transaction.                                           *)
ServiceSlot(record, i) ==
  LET present == {k \in 1 .. 3 : \E j \in DOMAIN record :
                    record[j].tag \in DOMAIN SlotOf
                    /\ SlotOf[record[j].tag] = ContentSlots[k]}
  IN  ContentSlots[ValueBelow(record, i, "CONTENT_CHARGING_POINT", Max(present))]

TimesOf(record) ==
  {[time |-> ValueBelow(record, i, "LOCAL_TIME_STAMP", None),
    code |-> ValueBelow(record, i, "UTC_TIME_OFFSET_CODE", 0)] :
     i \in Tagged(record, {t \in DOMAIN SlotOf : SlotOf[t] = "charging"})}
  \cup {StampBefore(record, i, IF record[i].value = "C" THEN "completion" ELSE "deposit") :
          i \in Tagged(record, {"CHARGING_POINT"})}
  \cup {StampBefore(record, i, ServiceSlot(record, i)) :
          i \in Tagged(record, {"CONTENT_SERVICE_USED"})}

Sum_(op(_), records) == FoldSeq(LAMBDA r, sum : sum + op(r), 0, records)

(* The earliest of a set of times of one file is the one with the least    *)
(* UTC.                                                                    *)
IsBest(order, times, offsets, stamp) ==
  /\ stamp \in times
  /\ \A other \in times : ~Better(order, other.time - offsets[other.code],
                                         stamp.time - offsets[stamp.code])
=============================================================================
