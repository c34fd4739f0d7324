------------------------------ MODULE OrderSaga ------------------------------
(***************************************************************************)
(* The order-fulfilment saga: the API accepts and cancels orders, every    *)
(* state change commits together with one outbox event, and the workers of *)
(* the seven queues turn each event into the next step.                    *)
(*                                                                         *)
(* A worker handles a message in the steps the code takes: it records the  *)
(* message in the inbox (its own commit), then reads the order without a   *)
(* lock or calls a provider, then runs one database transaction.  Other    *)
(* workers and the API move in between.  The state is the Postgres store's *)
(* (internal/postgres/store.go); audit rows are left out.                  *)
(*                                                                         *)
(* The relay and the broker are abstracted to what they promise a worker:  *)
(* a committed event can be delivered to every queue bound to its type, at *)
(* any time, in any order, and again after a failure.                      *)
(***************************************************************************)
EXTENDS Naturals, Sequences, FiniteSets

CONSTANTS
    Orders,             \* the order identifiers
    MaxRetries,         \* ConsumerRunner.MaxRetries (3 in production)
    MaxCancelRequests,  \* bound: cancel calls the API serves per order
    FaultKinds,         \* which of AllFaultKinds may happen
    MaxFaults           \* bound: how many of them happen

AllFaultKinds == {"crash", "db_error", "lost_commit", "replay"}

ASSUME SagaConstants ==
    /\ MaxRetries \in Nat
    /\ MaxCancelRequests \in Nat
    /\ MaxFaults \in Nat
    /\ FaultKinds \subseteq AllFaultKinds

VARIABLES
    orders,         \* orders[o]: the order row with its projection rows
    outbox,         \* outbox_events in commit order; a message id is an index
    inbox,          \* inbox_messages: pairs <<queue, message id>>
    runs,           \* the handler runs in progress
    attempts,       \* failed attempts of each delivery that failed
    compensations,  \* compensation_events, by source message id
    notifications,  \* notification_events, by source message id
    booked,         \* orders the carrier has booked a shipment for (external)
    faults          \* faults so far

vars == <<orders, outbox, inbox, runs, attempts, compensations,
          notifications, booked, faults>>

-----------------------------------------------------------------------------
(* Messages and queues: internal/messaging/topology.go                     *)

(* Mutant: notifications.email is not bound to order.cancelled. *)
RoutingKeysNoCancelled(q) ==
    CASE q = "inventory.reserve"   -> {"order.created"}
      [] q = "payments.authorize"  -> {"inventory.reserved"}
      [] q = "shipments.create"    -> {"payment.authorized"}
      [] q = "orders.finalize"     -> {"shipment.created"}
      [] q = "orders.cancel"       -> {"order.cancel_requested"}
      [] q = "orders.compensate"   -> {"inventory.rejected", "payment.failed",
                                       "shipment.failed"}
      [] q = "notifications.email" -> {"order.completed", "inventory.rejected",
                                       "payment.failed", "shipment.failed"}

RoutingKeys(q) ==
    CASE q = "inventory.reserve"   -> {"order.created"}
      [] q = "payments.authorize"  -> {"inventory.reserved"}
      [] q = "shipments.create"    -> {"payment.authorized"}
      [] q = "orders.finalize"     -> {"shipment.created"}
      [] q = "orders.cancel"       -> {"order.cancel_requested"}
      [] q = "orders.compensate"   -> {"inventory.rejected", "payment.failed",
                                       "shipment.failed"}
      [] q = "notifications.email" -> {"order.completed", "order.cancelled",
                                       "order.manual_review_required",
                                       "inventory.rejected", "payment.failed",
                                       "shipment.failed"}

Queues == {"inventory.reserve", "payments.authorize", "shipments.create",
           "orders.finalize", "orders.cancel", "orders.compensate",
           "notifications.email"}

EventTypes == {"order.created", "order.cancel_requested",
               "inventory.reserved", "inventory.rejected",
               "payment.authorized", "payment.failed",
               "shipment.created", "shipment.failed",
               "order.completed", "order.cancelled",
               "order.manual_review_required"}

OutboxEvent == [type : EventTypes, order : Orders, cause : Nat]

(* The step HandlerForQueue starts a message of each queue with. *)
FirstStep(q) ==
    CASE q = "inventory.reserve"   -> "reserve"
      [] q = "payments.authorize"  -> "authorize"
      [] q = "shipments.create"    -> "book"
      [] q = "orders.finalize"     -> "inspect_shipped"
      [] q = "orders.cancel"       -> "inspect_cancelling"
      [] q = "orders.compensate"   -> "compensate"
      [] q = "notifications.email" -> "notify"

Steps == {"reserve", "reject", "authorize", "authorized", "declined",
          "book", "shipped", "unshipped", "inspect_shipped", "complete",
          "inspect_cancelling", "cancel", "review", "compensate", "notify"}

Run == [queue : Queues, msg : Nat \ {0}, step : Steps]

-----------------------------------------------------------------------------
(* The order row and its projections: internal/commerce/model.go           *)

Statuses == {"absent", "pending_fulfillment", "inventory_reserved",
             "payment_authorized", "shipment_created", "cancellation_pending",
             "manual_review", "cancelled", "completed", "failed"}

Lifecycle == INSTANCE OrderLifecycle
             WITH status <- [o \in Orders |-> orders[o].status]

CanTransition(from, to) == Lifecycle!CanTransitionOrderStatus(from, to)

(* items: order_items.reservation_status; reservation: stock_reservations; *)
(* payment: orders.payment_status; authorization: payment_authorizations;  *)
(* shipment: shipments.  "none" where there is no row.                     *)
OrderRow ==
    [status        : Statuses,
     items         : {"pending", "reserved", "rejected", "released"},
     reservation   : {"none", "reserved", "released"},
     payment       : {"pending_authorization", "authorized", "failed", "voided"},
     authorization : {"none", "authorized", "voided"},
     shipment      : {"none", "created"}]

NoOrder == [status |-> "absent", items |-> "pending", reservation |-> "none",
            payment |-> "pending_authorization", authorization |-> "none",
            shipment |-> "none"]

WithStatus(row, to) == [row EXCEPT !.status = to]

Reserved(row) ==
    [row EXCEPT !.status = "inventory_reserved", !.items = "reserved",
                !.reservation = "reserved"]

Rejected(row) == [row EXCEPT !.items = "rejected"]

Authorized(row) ==
    [row EXCEPT !.status = "payment_authorized", !.payment = "authorized",
                !.authorization = "authorized"]

PaymentFailed(row) == [row EXCEPT !.payment = "failed"]

Shipped(row) ==
    [row EXCEPT !.status = "shipment_created", !.shipment = "created"]

(* Mutant: only order_items is updated, stock_reservations is forgotten. *)
ReleaseItemsOnly(row) ==
    [row EXCEPT !.items = IF @ = "reserved" THEN "released" ELSE @]

ReleaseReservedStock(row) ==
    [row EXCEPT !.reservation = IF @ = "reserved" THEN "released" ELSE @,
                !.items = IF @ = "reserved" THEN "released" ELSE @]

(* Mutant: only payment_authorizations is updated. *)
VoidAuthorizationOnly(row) ==
    [row EXCEPT !.authorization = IF @ = "authorized" THEN "voided" ELSE @]

VoidAuthorizedPayment(row) ==
    [row EXCEPT !.authorization = IF @ = "authorized" THEN "voided" ELSE @,
                !.payment = IF @ = "authorized" THEN "voided" ELSE @]

Cancelled(row) ==
    VoidAuthorizedPayment(ReleaseReservedStock(WithStatus(row, "cancelled")))

CompensationTarget(type) ==
    CASE type = "inventory.rejected" -> "failed"
      [] type = "payment.failed"     -> "cancelled"
      [] type = "shipment.failed"    -> "cancellation_pending"

(* Mutant: the effects are applied, the status is not moved. *)
CompensatedInPlace(row, type) ==
    CASE type = "inventory.rejected" -> row
      [] type = "payment.failed"     -> ReleaseReservedStock(row)
      [] type = "shipment.failed"    ->
             VoidAuthorizedPayment(ReleaseReservedStock(row))

(* Mutant: a shipment failure does not void the payment. *)
CompensatedWithoutVoid(row, type) ==
    LET moved == WithStatus(row, CompensationTarget(type))
    IN  IF type = "inventory.rejected" THEN moved ELSE ReleaseReservedStock(moved)

Compensated(row, type) ==
    LET moved == WithStatus(row, CompensationTarget(type))
    IN  CASE type = "inventory.rejected" -> moved
          [] type = "payment.failed"     -> ReleaseReservedStock(moved)
          [] type = "shipment.failed"    ->
                 VoidAuthorizedPayment(ReleaseReservedStock(moved))

(* Mutants: a paid order counts as shipped; only completed orders do. *)
ReviewsPaidOrders(row) == row.authorization = "authorized"

ReviewsCompletedOnly(row) == row.status = "completed"

RequiresManualReview(row) == row.status = "completed" \/ row.shipment = "created"

-----------------------------------------------------------------------------
(* Init and the building blocks of the actions                             *)

Init ==
    /\ orders = [o \in Orders |-> NoOrder]
    /\ outbox = <<>>
    /\ inbox = {}
    /\ runs = {}
    /\ attempts = [d \in {} |-> 0]
    /\ compensations = {}
    /\ notifications = {}
    /\ booked = {}
    /\ faults = 0

OrderOf(r) == outbox[r.msg].order

RowOf(r) == orders[OrderOf(r)]

Emit(type, o, cause) ==
    outbox' = Append(outbox, [type |-> type, order |-> o, cause |-> cause])

(* A fault of this kind happens, within the bound. *)
Fault(kind) ==
    /\ kind \in FaultKinds
    /\ faults < MaxFaults
    /\ faults' = faults + 1

Attempts(d) == IF d \in DOMAIN attempts THEN attempts[d] ELSE 0

(* Mutant: the inbox row is deleted after success too. *)
ReturnsAndReleases(r) ==
    /\ runs' = runs \ {r}
    /\ inbox' = inbox \ {<<r.queue, r.msg>>}
    /\ UNCHANGED attempts

(* The handler returned nil: the delivery is acked and its inbox row stays. *)
HandlerReturns(r) ==
    /\ runs' = runs \ {r}
    /\ UNCHANGED <<inbox, attempts>>

(* Mutant: releaseInbox is not called, so the retry is a duplicate. *)
FailsKeepingInbox(r) ==
    LET d == <<r.queue, r.msg>>
    IN  /\ runs' = runs \ {r}
        /\ attempts' = [x \in DOMAIN attempts \cup {d} |->
                           IF x = d /\ Attempts(d) <= MaxRetries
                           THEN Attempts(d) + 1
                           ELSE attempts[x]]
        /\ UNCHANGED inbox

(* The handler returned an error: the inbox row is deleted, and the message *)
(* goes to the retry queue, or to the dead-letter queue after MaxRetries.   *)
HandlerFails(r) ==
    LET d == <<r.queue, r.msg>>
    IN  /\ runs' = runs \ {r}
        /\ inbox' = inbox \ {d}
        /\ attempts' = [x \in DOMAIN attempts \cup {d} |->
                           IF x = d /\ Attempts(d) <= MaxRetries
                           THEN Attempts(d) + 1
                           ELSE attempts[x]]

(* The handler's transaction committed.  The commit may be reported to the  *)
(* worker as an error although the server applied it ("lost_commit").       *)
TransactionEnds(r) ==
    \/ HandlerReturns(r) /\ UNCHANGED faults
    \/ HandlerFails(r) /\ Fault("lost_commit")

(* The handler goes on to its next step, outside any transaction. *)
Continue(r, step) ==
    /\ runs' = (runs \ {r}) \cup {[r EXCEPT !.step = step]}
    /\ UNCHANGED <<inbox, attempts>>

(* One committed transaction of run r: the order row and the next event. *)
CommitOrder(r, row, type) ==
    /\ orders' = [orders EXCEPT ![OrderOf(r)] = row]
    /\ Emit(type, OrderOf(r), r.msg)
    /\ TransactionEnds(r)
    /\ UNCHANGED <<compensations, notifications, booked>>

-----------------------------------------------------------------------------
(* The API: internal/commerce/service.go                                   *)

CreateOrder(o) ==
    /\ orders[o].status = "absent"
    /\ orders' = [orders EXCEPT ![o] = WithStatus(NoOrder, "pending_fulfillment")]
    /\ Emit("order.created", o, 0)
    /\ UNCHANGED <<inbox, runs, attempts, compensations, notifications,
                   booked, faults>>

CancelRequests(o) ==
    {m \in DOMAIN outbox :
        outbox[m].type = "order.cancel_requested" /\ outbox[m].order = o}

(* Mutant: only the early returns of CancelOrderContext guard the write. *)
CancelUnvalidated(o) ==
    /\ orders[o].status \notin {"absent", "completed", "cancelled"}
    /\ Cardinality(CancelRequests(o)) < MaxCancelRequests
    /\ orders' = [orders EXCEPT ![o] = WithStatus(@, "cancellation_pending")]
    /\ Emit("order.cancel_requested", o, 0)
    /\ UNCHANGED <<inbox, runs, attempts, compensations, notifications,
                   booked, faults>>

(* CancelOrderContext reads the order, checks the transition, and           *)
(* UpdateOrderStatus checks it again under the row lock.  The statuses the  *)
(* first check refuses have no way out, so the locked check decides.        *)
CancelOrder(o) ==
    /\ CanTransition(orders[o].status, "cancellation_pending")
    /\ Cardinality(CancelRequests(o)) < MaxCancelRequests
    /\ orders' = [orders EXCEPT ![o] = WithStatus(@, "cancellation_pending")]
    /\ Emit("order.cancel_requested", o, 0)
    /\ UNCHANGED <<inbox, runs, attempts, compensations, notifications,
                   booked, faults>>

-----------------------------------------------------------------------------
(* Delivery: internal/messaging/consumer.go                                *)

(* A worker of q takes message m and inserts its inbox row.  When the row   *)
(* is already there the delivery is acked and nothing changes.              *)
StartRun(q, m) ==
    /\ outbox[m].type \in RoutingKeys(q)
    /\ <<q, m>> \notin inbox
    /\ inbox' = inbox \cup {<<q, m>>}
    /\ runs' = runs \cup {[queue |-> q, msg |-> m, step |-> FirstStep(q)]}
    /\ UNCHANGED <<orders, outbox, attempts, compensations, notifications, booked>>

Deliver(q, m) ==
    /\ Attempts(<<q, m>>) <= MaxRetries
    /\ StartRun(q, m)
    /\ UNCHANGED faults

(* An operator replays a dead-lettered message: ReplayDLQ. *)
Replay(q, m) ==
    /\ Attempts(<<q, m>>) = MaxRetries + 1
    /\ StartRun(q, m)
    /\ Fault("replay")

(* The worker process stops in the middle of a run, or the handler and then *)
(* releaseInbox both fail because shutdown cancelled their context.  The    *)
(* inbox row stays, so the redelivered or replayed message is acked as a    *)
(* duplicate.                                                               *)
Crash(r) ==
    /\ runs' = runs \ {r}
    /\ Fault("crash")
    /\ UNCHANGED <<orders, outbox, inbox, attempts, compensations,
                   notifications, booked>>

(* A database call of the handler fails and its transaction rolls back.     *)
DatabaseError(r) ==
    /\ HandlerFails(r)
    /\ Fault("db_error")
    /\ UNCHANGED <<orders, outbox, compensations, notifications, booked>>

-----------------------------------------------------------------------------
(* The handlers: internal/fulfillment/handlers.go                          *)

(* The status a step's transaction writes, checked under the row lock; the  *)
(* other steps write whatever the status is.                                *)
TargetStatus(r) ==
    CASE r.step = "reserve"    -> "inventory_reserved"
      [] r.step = "authorized" -> "payment_authorized"
      [] r.step = "shipped"    -> "shipment_created"
      [] r.step = "complete"   -> "completed"
      [] r.step = "cancel"     -> "cancelled"
      [] r.step = "review"     -> "manual_review"
      [] r.step = "compensate" -> CompensationTarget(outbox[r.msg].type)

ValidatedSteps == {"reserve", "authorized", "shipped", "complete", "cancel",
                   "review", "compensate"}

(* Mutant: the status is not validated under the lock. *)
TransitionUnchecked(r) == TRUE

TransitionAllowed(r) == CanTransition(RowOf(r).status, TargetStatus(r))

(* Mutant: an invalid transition counts as already handled. *)
TransitionRefusedAcks(r) ==
    /\ r.step \in ValidatedSteps
    /\ ~TransitionAllowed(r)
    /\ HandlerReturns(r)
    /\ UNCHANGED <<orders, outbox, compensations, notifications, booked, faults>>

(* lockOrderStatusForUpdate finds a status the target cannot follow. *)
TransitionRefused(r) ==
    /\ r.step \in ValidatedSteps
    /\ ~TransitionAllowed(r)
    /\ HandlerFails(r)
    /\ UNCHANGED <<orders, outbox, compensations, notifications, booked, faults>>

RecordInventoryReserved(r) ==
    /\ r.step = "reserve"
    /\ TransitionAllowed(r)
    /\ CommitOrder(r, Reserved(RowOf(r)), "inventory.reserved")

(* ErrInsufficientStock: the transaction rolls back and the rejection is a  *)
(* second one.  Stock the order already holds is never asked for again.     *)
InsufficientStock(r) ==
    /\ r.step = "reserve"
    /\ TransitionAllowed(r)
    /\ RowOf(r).reservation # "reserved"
    /\ Continue(r, "reject")
    /\ UNCHANGED <<orders, outbox, compensations, notifications, booked, faults>>

RecordInventoryRejected(r) ==
    /\ r.step = "reject"
    /\ CommitOrder(r, Rejected(RowOf(r)), "inventory.rejected")

(* The payment provider answers, or any error stands for a decline. *)
AuthorizePayment(r) ==
    /\ r.step = "authorize"
    /\ \/ Continue(r, "authorized")
       \/ Continue(r, "declined")
    /\ UNCHANGED <<orders, outbox, compensations, notifications, booked, faults>>

RecordPaymentAuthorized(r) ==
    /\ r.step = "authorized"
    /\ TransitionAllowed(r)
    /\ CommitOrder(r, Authorized(RowOf(r)), "payment.authorized")

RecordPaymentFailed(r) ==
    /\ r.step = "declined"
    /\ CommitOrder(r, PaymentFailed(RowOf(r)), "payment.failed")

CreateShipment(r) ==
    /\ r.step = "book"
    /\ \/ Continue(r, "shipped") /\ booked' = booked \cup {OrderOf(r)}
       \/ Continue(r, "unshipped") /\ UNCHANGED booked
    /\ UNCHANGED <<orders, outbox, compensations, notifications, faults>>

RecordShipmentCreated(r) ==
    /\ r.step = "shipped"
    /\ TransitionAllowed(r)
    /\ CommitOrder(r, Shipped(RowOf(r)), "shipment.created")

RecordShipmentFailed(r) ==
    /\ r.step = "unshipped"
    /\ CommitOrder(r, RowOf(r), "shipment.failed")

(* completeOrder's unlocked read of the order.  shipment.created is only     *)
(* emitted with status shipment_created, so the last branch is never taken.  *)
InspectShippedOrder(r) ==
    /\ r.step = "inspect_shipped"
    /\ CASE RowOf(r).status = "shipment_created" -> Continue(r, "complete")
         [] RowOf(r).status \in {"completed", "cancellation_pending",
                                 "manual_review", "cancelled"} -> HandlerReturns(r)
         [] OTHER -> HandlerFails(r)
    /\ UNCHANGED <<orders, outbox, compensations, notifications, booked, faults>>

(* Mutant: the event is written outside the transaction of the status. *)
CompleteOrderEventFirst(r) ==
    /\ r.step = "complete"
    /\ IF TransitionAllowed(r)
       THEN CommitOrder(r, WithStatus(RowOf(r), "completed"), "order.completed")
       ELSE CommitOrder(r, RowOf(r), "order.completed")

CompleteOrder(r) ==
    /\ r.step = "complete"
    /\ TransitionAllowed(r)
    /\ CommitOrder(r, WithStatus(RowOf(r), "completed"), "order.completed")

(* Mutant: cancellation_pending counts as already handled. *)
InspectIgnoresPending(r) ==
    /\ r.step = "inspect_cancelling"
    /\ HandlerReturns(r)
    /\ UNCHANGED <<orders, outbox, compensations, notifications, booked, faults>>

(* cancelOrder's unlocked read of the order. *)
InspectCancellingOrder(r) ==
    /\ r.step = "inspect_cancelling"
    /\ IF RowOf(r).status \in {"cancelled", "manual_review"}
       THEN HandlerReturns(r)
       ELSE Continue(r, IF RequiresManualReview(RowOf(r)) THEN "review" ELSE "cancel")
    /\ UNCHANGED <<orders, outbox, compensations, notifications, booked, faults>>

RequireManualReview(r) ==
    /\ r.step = "review"
    /\ TransitionAllowed(r)
    /\ CommitOrder(r, WithStatus(RowOf(r), "manual_review"),
                   "order.manual_review_required")

RecordOrderCancelled(r) ==
    /\ r.step = "cancel"
    /\ TransitionAllowed(r)
    /\ CommitOrder(r, Cancelled(RowOf(r)), "order.cancelled")

(* The compensation writes no outbox event. *)
RecordCompensation(r) ==
    /\ r.step = "compensate"
    /\ TransitionAllowed(r)
    /\ orders' = [orders EXCEPT ![OrderOf(r)] =
                     Compensated(RowOf(r), outbox[r.msg].type)]
    /\ compensations' = compensations \cup {r.msg}
    /\ TransactionEnds(r)
    /\ UNCHANGED <<outbox, notifications, booked>>

RecordNotificationQueued(r) ==
    /\ r.step = "notify"
    /\ notifications' = notifications \cup {r.msg}
    /\ TransactionEnds(r)
    /\ UNCHANGED <<orders, outbox, compensations, booked>>

-----------------------------------------------------------------------------

HandlerStep(r) ==
    \/ TransitionRefused(r)
    \/ RecordInventoryReserved(r) \/ InsufficientStock(r) \/ RecordInventoryRejected(r)
    \/ AuthorizePayment(r) \/ RecordPaymentAuthorized(r) \/ RecordPaymentFailed(r)
    \/ CreateShipment(r) \/ RecordShipmentCreated(r) \/ RecordShipmentFailed(r)
    \/ InspectShippedOrder(r) \/ CompleteOrder(r)
    \/ InspectCancellingOrder(r) \/ RequireManualReview(r) \/ RecordOrderCancelled(r)
    \/ RecordCompensation(r) \/ RecordNotificationQueued(r)

Next ==
    \/ \E o \in Orders : CreateOrder(o) \/ CancelOrder(o)
    \/ \E q \in Queues : \E m \in DOMAIN outbox : Deliver(q, m) \/ Replay(q, m)
    \/ \E r \in runs : HandlerStep(r) \/ Crash(r) \/ DatabaseError(r)

Spec == Init /\ [][Next]_vars

(* Every queue has its own deployment of worker processes, which loops over  *)
(* Consume and ProcessDelivery; the relay loops until the outbox is drained. *)
Fairness ==
    \A q \in Queues :
        /\ WF_vars(\E m \in DOMAIN outbox : Deliver(q, m))
        /\ WF_vars(\E r \in runs : r.queue = q /\ HandlerStep(r))

FairSpec == Spec /\ Fairness

-----------------------------------------------------------------------------
(* Invariants that survive every fault                                     *)

(* The tables hold what the schema's CHECK constraints allow, and a run is  *)
(* about a message that is in the outbox and in the inbox.                  *)
TypeOK ==
    /\ orders \in [Orders -> OrderRow]
    /\ outbox \in Seq(OutboxEvent)
    /\ runs \subseteq Run
    /\ \A r \in runs : r.msg \in DOMAIN outbox /\ <<r.queue, r.msg>> \in inbox
    /\ inbox \subseteq Queues \X DOMAIN outbox
    /\ DOMAIN attempts \subseteq Queues \X DOMAIN outbox
    /\ \A d \in DOMAIN attempts : attempts[d] \in 1..(MaxRetries + 1)
    /\ compensations \subseteq DOMAIN outbox
    /\ notifications \subseteq DOMAIN outbox
    /\ booked \subseteq Orders
    /\ faults \in 0..MaxFaults

(* The inbox row is a lock: no two workers of a queue, and no redelivery,   *)
(* run the handler of one message at the same time.                         *)
RunsAreExclusive ==
    \A r1, r2 \in runs : r1.queue = r2.queue /\ r1.msg = r2.msg => r1 = r2

StockConsistent(row) ==
    /\ row.status \in {"absent", "pending_fulfillment", "failed"}
           => row.reservation = "none"
    /\ row.status \in {"inventory_reserved", "payment_authorized",
                       "shipment_created", "completed"}
           => row.reservation = "reserved"
    /\ row.status = "cancelled" => row.reservation # "reserved"

(* Stock is held exactly while it is owed: an order that is being fulfilled *)
(* or is completed holds its reservation, one that was cancelled or failed  *)
(* holds none, whatever late or repeated message reached the workers.       *)
StockFollowsStatus == \A o \in Orders : StockConsistent(orders[o])

AuthorizationConsistent(row) ==
    /\ row.status \in {"absent", "pending_fulfillment", "failed",
                       "inventory_reserved"} => row.authorization = "none"
    /\ row.status \in {"payment_authorized", "shipment_created", "completed"}
           => row.authorization = "authorized"
    /\ row.authorization # "none" => row.reservation # "none"

(* An order past payment has a live authorization, one before payment has   *)
(* none, and nothing is authorized for an order that never had stock.       *)
AuthorizationFollowsStatus == \A o \in Orders : AuthorizationConsistent(orders[o])

ShipmentConsistent(row) ==
    /\ row.status \in {"absent", "pending_fulfillment", "failed",
                       "inventory_reserved", "payment_authorized"}
           => row.shipment = "none"
    /\ row.status \in {"shipment_created", "completed", "manual_review"}
           => row.shipment = "created"
    /\ row.shipment = "created" => row.authorization # "none"

(* A shipment exists only after payment, no order completes without one,    *)
(* and only an order with a shipment goes to manual review, although        *)
(* cancelOrder reads the shipment without a lock.                           *)
ShipmentFollowsStatus == \A o \in Orders : ShipmentConsistent(orders[o])

Emitted(o, type) ==
    \E m \in DOMAIN outbox : outbox[m].type = type /\ outbox[m].order = o

(* The outbox and the tables tell the same story, although three of the     *)
(* Record operations write without checking the status: an event was        *)
(* emitted if and only if its state change was committed.                   *)
OutboxMatchesOrders ==
    \A o \in Orders : LET row == orders[o] IN
        /\ Emitted(o, "order.created") <=> row.status # "absent"
        /\ Emitted(o, "inventory.reserved") <=> row.reservation # "none"
        /\ Emitted(o, "payment.authorized") <=> row.authorization # "none"
        /\ Emitted(o, "shipment.created") <=> row.shipment = "created"
        /\ Emitted(o, "order.completed") <=> row.status = "completed"
        /\ Emitted(o, "order.manual_review_required") <=> row.status = "manual_review"
        /\ Emitted(o, "order.cancelled") => row.status = "cancelled"

(* What a compensation undid stays undone: no message that was still on its *)
(* way reserves the stock or authorizes the payment again.                  *)
CompensationsStick ==
    \A m \in compensations : LET row == orders[outbox[m].order] IN
        /\ row.reservation # "reserved"
        /\ outbox[m].type = "shipment.failed" => row.authorization # "authorized"

(* A terminal order is frozen: no later step changes its status, its stock  *)
(* or its shipment.                                                         *)
SettledOrdersAreFrozen ==
    [][\A o \in Orders :
          orders[o].status \in Lifecycle!TerminalStatuses
             => /\ orders'[o].status = orders[o].status
                /\ orders'[o].reservation = orders[o].reservation
                /\ orders'[o].shipment = orders[o].shipment]_vars

(* The saga implements the status machine: ValidateOrderTransition guards    *)
(* every write of orders.status.                                            *)
ImplementsLifecycle == Lifecycle!Spec

-----------------------------------------------------------------------------
(* Invariants that need every commit to be reported (no "lost_commit")     *)

(* Cancellation before shipment leaves nothing behind: no stock, no         *)
(* authorized payment and no shipment.                                      *)
CancelledLeavesNothing ==
    \A o \in Orders : orders[o].status = "cancelled" =>
        /\ orders[o].shipment = "none"
        /\ orders[o].authorization # "authorized"
        /\ orders[o].payment # "authorized"

(* The inbox makes each handler take effect once: no step of the saga both  *)
(* succeeds and fails, and no success is announced twice.                   *)
OneOutcomePerStep ==
    /\ \A o \in Orders :
          /\ ~(Emitted(o, "inventory.reserved") /\ Emitted(o, "inventory.rejected"))
          /\ ~(Emitted(o, "payment.authorized") /\ Emitted(o, "payment.failed"))
          /\ ~(Emitted(o, "shipment.created") /\ Emitted(o, "shipment.failed"))
    /\ \A m, n \in DOMAIN outbox :
          /\ outbox[m].order = outbox[n].order
          /\ outbox[m].type = outbox[n].type
          /\ outbox[m].type \in {"inventory.reserved", "payment.authorized",
                                 "shipment.created", "order.completed"}
          => m = n

(* orders.payment_status, which the API shows, agrees with the              *)
(* payment_authorizations row, although RecordPaymentFailed only writes the *)
(* first of the two.                                                        *)
PaymentStatusAgrees ==
    \A o \in Orders : LET row == orders[o] IN
        /\ row.authorization = "none" <=> row.payment \in {"pending_authorization", "failed"}
        /\ row.authorization # "none" => row.payment = row.authorization

(* The Postgres store as the in-memory one would show it: without the         *)
(* reservation and authorization rows, and with a failed shipment, which has  *)
(* no row, where the event says so.                                           *)
Memory == INSTANCE MemoryStore WITH
    orders <- [o \in Orders |->
        [status   |-> orders[o].status,
         items    |-> orders[o].items,
         payment  |-> orders[o].payment,
         shipment |-> IF orders[o].shipment = "created" THEN "created"
                      ELSE IF Emitted(o, "shipment.failed") THEN "failed" ELSE "none"]],
    outbox <- [m \in DOMAIN outbox |->
        [type |-> outbox[m].type, order |-> outbox[m].order]]

(* The unit tests' store stands for the real one: every transaction of a     *)
(* handler on Postgres, concurrent runs and retries included, is one          *)
(* operation of the MemoryStore on the status, the items, the payment, the    *)
(* shipment and the outbox.                                                   *)
AgreesWithMemoryStore == Memory!Spec

(* A carrier booking is never lost silently: it has its shipment row, or its  *)
(* handler is about to write it, or the delivery failed after the booking, as *)
(* when a cancel request overtook it, and shows in the retry and dead-letter  *)
(* queues.                                                                    *)
BookingsLeaveATrace ==
    \A o \in booked :
        \/ orders[o].shipment = "created"
        \/ \E r \in runs : OrderOf(r) = o /\ r.step = "shipped"
        \/ \E m \in DOMAIN outbox :
              outbox[m].order = o /\ <<"shipments.create", m>> \in DOMAIN attempts

-----------------------------------------------------------------------------
(* Liveness, under FairSpec                                                *)

(* A shipment.failed compensation parks the order in cancellation_pending.  *)
Parked(o) ==
    /\ orders[o].status = "cancellation_pending"
    /\ \E m \in compensations :
          outbox[m].order = o /\ outbox[m].type = "shipment.failed"

(* Every accepted order ends, or is parked after a carrier failure.         *)
OrdersSettle ==
    \A o \in Orders :
        orders[o].status = "pending_fulfillment"
           ~> (orders[o].status \in Lifecycle!TerminalStatuses \/ Parked(o))

(* Every cancel request the API accepted is answered.                       *)
CancelRequestsAreAnswered ==
    \A o \in Orders :
        Emitted(o, "order.cancel_requested")
           ~> orders[o].status \in {"cancelled", "manual_review"}

(* Every order that ends in a way the merchant has to hear of has a         *)
(* notification: each is queued from an event of that order.                *)
MerchantIsNotified ==
    \A o \in Orders :
        orders[o].status \in Lifecycle!TerminalStatuses
           ~> \E m \in notifications : outbox[m].order = o
=============================================================================
