---------------------------- MODULE MCTraversal ----------------------------
(***************************************************************************)
(* Instances of Traversal for TLC: call event details of every kind that   *)
(* has times or charges of its own.                                        *)
(***************************************************************************)
EXTENDS Traversal

Call(form, stamp, time, code, charges) ==
  <<TagNode(2, form, "CALL", 0)>> \o Stamp(3, stamp, time, code) \o charges

MCRecords == {
  Call("definite", "CALL_EVENT_START_TIME_STAMP", 10, 1,
       ChargeDetail(3, "00", 5, 1) \o ChargeDetail(3, "01", 7, 1)),
  Call("definite", "CHARGING_TIME_STAMP", 11, 2,
       ChargeDetail(3, "01", 3, 2) \o <<Leaf(3, "CAMEL_INVOCATION_FEE", 2)>>),
  Call("indefinite", "SERVICE_START_TIME_STAMP", 9, 1,
       <<Leaf(3, "CHARGE_REFUND_INDICATOR", 1)>> \o ChargeDetail(3, "00", 4, 1)),
  <<Group(2, "SERVICE_CENTRE_USAGE")>> \o Stamp(3, "DEPOSIT_TIME_STAMP", 8, 2)
    \o Stamp(3, "COMPLETION_TIME_STAMP", 13, 1)
    \o <<Leaf(3, "CHARGING_POINT", "C")>>,
  <<Group(2, "SERVICE_CENTRE_USAGE")>> \o Stamp(3, "DEPOSIT_TIME_STAMP", 9, 2)
    \o <<Leaf(3, "CHARGING_POINT", "D")>>,
  <<Group(2, "CONTENT_TRANSACTION"), Group(3, "CONTENT_TRANSACTION_BASIC_INFO")>>
    \o Stamp(4, "ORDER_PLACED_TIME_STAMP", 7, 1)
    \o Stamp(4, "ACTUAL_DELIVERY_TIME_STAMP", 14, 2)
    \o <<Group(3, "CONTENT_SERVICE_USED_LIST"), Group(4, "CONTENT_SERVICE_USED"),
         Leaf(5, "CONTENT_CHARGING_POINT", 1)>>,
  <<Group(2, "CONTENT_TRANSACTION"), Group(3, "CONTENT_TRANSACTION_BASIC_INFO")>>
    \o Stamp(4, "REQUESTED_DELIVERY_TIME_STAMP", 12, 2)
    \o <<Group(3, "CONTENT_SERVICE_USED")>> \o ChargeDetail(4, "00", 2, 0)
    \o <<Leaf(3, "OPERATOR_SPEC_INFORMATION", 0)>> }

MCOffsets == <<0, 3>>
=============================================================================
