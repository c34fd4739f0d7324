----------------------------- MODULE MemoryStore -----------------------------
(***************************************************************************)
(* The in-memory store (internal/commerce/store.go), with which the unit    *)
(* tests run the service and the handlers and which the API serves from     *)
(* when no database is configured.  Every operation is one step under the   *)
(* mutex: it checks the status where it moves it, changes the order and      *)
(* appends one outbox event.  Audit rows are left out, so                    *)
(* RecordNotificationQueued, which writes nothing else, is no action.        *)
(***************************************************************************)
EXTENDS Sequences

CONSTANT Orders     \* the order identifiers

VARIABLES
    orders,         \* MemoryStore.orders; status "absent": not in the map
    outbox          \* MemoryStore.outbox: type and order of each event

vars == <<orders, outbox>>

Lifecycle == INSTANCE OrderLifecycle
             WITH status <- [o \in Orders |-> orders[o].status]

NewOrder ==
    [status |-> "pending_fulfillment", items |-> "pending",
     payment |-> "pending_authorization", shipment |-> "none"]

Init ==
    /\ orders = [o \in Orders |-> [NewOrder EXCEPT !.status = "absent"]]
    /\ outbox = <<>>

Known(o) == orders[o].status # "absent"

ValidateOrderTransition(o, to) ==
    Lifecycle!CanTransitionOrderStatus(orders[o].status, to)

(* The order is replaced and the event appended. *)
Store(o, order, type) ==
    /\ orders' = [orders EXCEPT ![o] = order]
    /\ outbox' = Append(outbox, [type |-> type, order |-> o])

ReleaseItems(order) ==
    [order EXCEPT !.items = IF @ = "reserved" THEN "released" ELSE @]

VoidPayment(order) ==
    [order EXCEPT !.payment = IF @ = "authorized" THEN "voided" ELSE @]

-----------------------------------------------------------------------------

InsertOrder(o) == ~Known(o) /\ Store(o, NewOrder, "order.created")

(* The three events the service and the handlers update a status with. *)
UpdateOrderStatus(o, to, type) ==
    /\ <<to, type>> \in {<<"cancellation_pending", "order.cancel_requested">>,
                         <<"completed", "order.completed">>,
                         <<"manual_review", "order.manual_review_required">>}
    /\ ValidateOrderTransition(o, to)
    /\ Store(o, [orders[o] EXCEPT !.status = to], type)

RecordInventoryReserved(o) ==
    /\ ValidateOrderTransition(o, "inventory_reserved")
    /\ Store(o, [orders[o] EXCEPT !.status = "inventory_reserved",
                                  !.items = "reserved"], "inventory.reserved")

RecordInventoryRejected(o) ==
    /\ Known(o)
    /\ Store(o, [orders[o] EXCEPT !.items = "rejected"], "inventory.rejected")

RecordPaymentAuthorized(o) ==
    /\ ValidateOrderTransition(o, "payment_authorized")
    /\ Store(o, [orders[o] EXCEPT !.status = "payment_authorized",
                                  !.payment = "authorized"], "payment.authorized")

RecordPaymentFailed(o) ==
    /\ Known(o)
    /\ Store(o, [orders[o] EXCEPT !.payment = "failed"], "payment.failed")

RecordShipmentCreated(o) ==
    /\ ValidateOrderTransition(o, "shipment_created")
    /\ Store(o, [orders[o] EXCEPT !.status = "shipment_created",
                                  !.shipment = "created"], "shipment.created")

(* A shipment that is already there is replaced by the failed one. *)
RecordShipmentFailed(o) ==
    /\ Known(o)
    /\ Store(o, [orders[o] EXCEPT !.shipment = "failed"], "shipment.failed")

RecordOrderCancelled(o) ==
    /\ ValidateOrderTransition(o, "cancelled")
    /\ Store(o, VoidPayment(ReleaseItems([orders[o] EXCEPT !.status = "cancelled"])),
             "order.cancelled")

(* The status is the one the compensation handler chose for the source event. *)
RecordCompensation(o, source, to) ==
    /\ <<source, to>> \in {<<"inventory.rejected", "failed">>,
                           <<"payment.failed", "cancelled">>,
                           <<"shipment.failed", "cancellation_pending">>}
    /\ ValidateOrderTransition(o, to)
    /\ LET moved == [orders[o] EXCEPT !.status = to]
           freed == IF source = "inventory.rejected" THEN moved ELSE ReleaseItems(moved)
       IN  orders' = [orders EXCEPT ![o] =
                         IF source = "shipment.failed" THEN VoidPayment(freed) ELSE freed]
    /\ UNCHANGED outbox

-----------------------------------------------------------------------------

Record(o) ==
    \/ RecordInventoryReserved(o) \/ RecordInventoryRejected(o)
    \/ RecordPaymentAuthorized(o) \/ RecordPaymentFailed(o)
    \/ RecordShipmentCreated(o) \/ RecordShipmentFailed(o)
    \/ RecordOrderCancelled(o)

Next ==
    \E o \in Orders :
        \/ InsertOrder(o)
        \/ Record(o)
        \/ \E to \in Lifecycle!ValidOrderStatuses :
              \/ \E type \in {"order.cancel_requested", "order.completed",
                              "order.manual_review_required"} :
                    UpdateOrderStatus(o, to, type)
              \/ \E source \in {"inventory.rejected", "payment.failed",
                                "shipment.failed"} :
                    RecordCompensation(o, source, to)

Spec == Init /\ [][Next]_vars
=============================================================================
