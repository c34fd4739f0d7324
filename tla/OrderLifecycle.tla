--------------------------- MODULE OrderLifecycle ---------------------------
(***************************************************************************)
(* What the platform promises about the status of an order, whatever the   *)
(* workers, the broker and the database do underneath: an order is         *)
(* accepted once, and from then on its status only follows the table of    *)
(* internal/commerce/state_machine.go.                                     *)
(***************************************************************************)

CONSTANT Orders        \* the order identifiers

VARIABLE status        \* status[o]: orders.status, or "absent" before InsertOrder

ValidOrderStatuses ==
    {"pending_fulfillment", "inventory_reserved", "payment_authorized",
     "shipment_created", "cancellation_pending", "manual_review",
     "cancelled", "completed", "failed"}

(* A status may always be written over itself; the other moves are listed. *)
CanTransitionOrderStatus(from, to) ==
    \/ from = to /\ to \in ValidOrderStatuses
    \/ from = "pending_fulfillment"
       /\ to \in {"inventory_reserved", "cancellation_pending", "failed"}
    \/ from = "inventory_reserved"
       /\ to \in {"payment_authorized", "cancellation_pending", "cancelled"}
    \/ from = "payment_authorized"
       /\ to \in {"shipment_created", "cancellation_pending"}
    \/ from = "shipment_created"
       /\ to \in {"completed", "cancellation_pending"}
    \/ from = "cancellation_pending"
       /\ to \in {"cancelled", "manual_review"}

(* The statuses the table gives no way out of. *)
TerminalStatuses == {"manual_review", "cancelled", "completed", "failed"}

-----------------------------------------------------------------------------

Init == status = [o \in Orders |-> "absent"]

Accept(o) ==
    /\ status[o] = "absent"
    /\ status' = [status EXCEPT ![o] = "pending_fulfillment"]

Move(o, to) ==
    /\ CanTransitionOrderStatus(status[o], to)
    /\ status' = [status EXCEPT ![o] = to]

Next == \E o \in Orders : Accept(o) \/ \E to \in ValidOrderStatuses : Move(o, to)

Spec == Init /\ [][Next]_status
=============================================================================
