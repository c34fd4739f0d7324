----------------------------- MODULE MCOrderSaga -----------------------------
(***************************************************************************)
(* OrderSaga for TLC, and a statement of the documentation that the code   *)
(* does not keep.                                                          *)
(***************************************************************************)
EXTENDS OrderSaga

(* docs/events/threat-model.md:18: "Lost or duplicated side effects" are     *)
(* controlled by "Transactional outbox, inbox uniqueness, retry/DLQ          *)
(* routing": an accepted order does not stay where it was accepted.          *)
AcceptedOrdersAdvance ==
    \A o \in Orders :
        orders[o].status = "pending_fulfillment"
           ~> orders[o].status # "pending_fulfillment"
=============================================================================
