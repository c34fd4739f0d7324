--------------------------- MODULE OrderSagaProofs ---------------------------
(***************************************************************************)
(* Proofs about OrderSaga, for every set of orders, every number of        *)
(* retries and every pattern of faults but the ones a theorem excludes.    *)
(*                                                                         *)
(* IInv, first.  The rows half (RowMove) says that no step moves an order's*)
(* row in a way the invariants do not survive; it needs of the runs only   *)
(* that a "review" run has seen a shipment and that a "compensate" run is  *)
(* about a failure event.  The runs half says that the inbox, the runs and *)
(* the outbox stay in step.                                                *)
(*                                                                         *)
(* StoryInv: what the outbox tells is what happened to the rows, and what a*)
(* compensation undid stays undone.  EffectsInv: a message takes effect at *)
(* most once, which a commit reported as an error ("lost_commit") refutes. *)
(* Last, every step is one of MemoryStore, or a stutter.                   *)
(***************************************************************************)
EXTENDS OrderSaga, SequenceTheorems, TLAPS

RowConsistent(row) ==
    /\ StockConsistent(row)
    /\ AuthorizationConsistent(row)
    /\ ShipmentConsistent(row)

(* What a step of the saga may do to a row. *)
RowMove(old, new) ==
    /\ new \in OrderRow
    /\ RowConsistent(new)
    /\ old.status = new.status \/ CanTransition(old.status, new.status)
    /\ old.status \in Lifecycle!TerminalStatuses
          => /\ new.status = old.status
             /\ new.reservation = old.reservation
             /\ new.shipment = old.shipment
    /\ old.shipment = "created" => new.shipment = "created"
    /\ new.reservation = "reserved"
          => old.reservation = "reserved" \/ new.status = "inventory_reserved"
    /\ new.authorization = "authorized"
          => old.authorization = "authorized" \/ new.status = "payment_authorized"
    /\ new.shipment = "created"
          => old.shipment = "created" \/ new.status = "shipment_created"

(* The queue whose handler has the step. *)
StepQueue(step) ==
    CASE step \in {"reserve", "reject"} -> "inventory.reserve"
      [] step \in {"authorize", "authorized", "declined"} -> "payments.authorize"
      [] step \in {"book", "shipped", "unshipped"} -> "shipments.create"
      [] step \in {"inspect_shipped", "complete"} -> "orders.finalize"
      [] step \in {"inspect_cancelling", "cancel", "review"} -> "orders.cancel"
      [] step = "compensate" -> "orders.compensate"
      [] step = "notify" -> "notifications.email"

(* The run's step is one its queue's handler has, for a message the queue    *)
(* is bound to, and a run that decided on manual review has seen a shipment. *)
RunConsistent(r) ==
    /\ outbox[r.msg].type \in RoutingKeys(r.queue)
    /\ r.queue = StepQueue(r.step)
    /\ r.step = "review" => RowOf(r).shipment = "created"

RowsInv == \A o \in Orders : RowConsistent(orders[o])

RunsInv == RunsAreExclusive /\ \A r \in runs : RunConsistent(r)

(* The inductive invariant. *)
IInv == TypeOK /\ RowsInv /\ RunsInv

-----------------------------------------------------------------------------
(* The rows half                                                           *)

USE DEF CanTransition, Lifecycle!CanTransitionOrderStatus,
        Lifecycle!ValidOrderStatuses, Lifecycle!TerminalStatuses

(* A row that is left alone has made a legal move. *)
LEMMA SameRowMove ==
    ASSUME NEW row \in OrderRow, RowConsistent(row)
    PROVE  RowMove(row, row)
  BY DEF RowMove

(* RecordInventoryReserved, once the transition was validated. *)
LEMMA ReservedMove ==
    ASSUME NEW row \in OrderRow, RowConsistent(row),
           CanTransition(row.status, "inventory_reserved")
    PROVE  RowMove(row, Reserved(row))
  BY Zenon DEF RowMove, Reserved, OrderRow, Statuses, RowConsistent, StockConsistent,
         AuthorizationConsistent, ShipmentConsistent

(* RecordInventoryRejected and RecordPaymentFailed write without validating. *)
LEMMA FailureMoves ==
    ASSUME NEW row \in OrderRow, RowConsistent(row)
    PROVE  RowMove(row, Rejected(row)) /\ RowMove(row, PaymentFailed(row))
  BY DEF RowMove, Rejected, PaymentFailed, OrderRow, Statuses, RowConsistent,
         StockConsistent, AuthorizationConsistent, ShipmentConsistent

(* RecordPaymentAuthorized, once the transition was validated. *)
LEMMA AuthorizedMove ==
    ASSUME NEW row \in OrderRow, RowConsistent(row),
           CanTransition(row.status, "payment_authorized")
    PROVE  RowMove(row, Authorized(row))
  BY Zenon DEF RowMove, Authorized, OrderRow, Statuses, RowConsistent, StockConsistent,
         AuthorizationConsistent, ShipmentConsistent

(* RecordShipmentCreated, once the transition was validated. *)
LEMMA ShippedMove ==
    ASSUME NEW row \in OrderRow, RowConsistent(row),
           CanTransition(row.status, "shipment_created")
    PROVE  RowMove(row, Shipped(row))
  BY Zenon DEF RowMove, Shipped, OrderRow, Statuses, RowConsistent, StockConsistent,
         AuthorizationConsistent, ShipmentConsistent

(* UpdateOrderStatus: completion, the API's cancel, and manual review of an  *)
(* order that has a shipment.                                               *)
LEMMA StatusMoves ==
    ASSUME NEW row \in OrderRow, RowConsistent(row),
           NEW to \in {"completed", "cancellation_pending", "manual_review"},
           CanTransition(row.status, to),
           to = "manual_review" => row.shipment = "created"
    PROVE  RowMove(row, WithStatus(row, to))
  BY DEF RowMove, WithStatus, OrderRow, Statuses, RowConsistent, StockConsistent,
         AuthorizationConsistent, ShipmentConsistent

(* What the three building blocks of a cancellation do to a row. *)
LEMMA StatusEffect ==
    ASSUME NEW row \in OrderRow, NEW to \in Statuses
    PROVE  LET new == WithStatus(row, to)
           IN  /\ new \in OrderRow
               /\ new.status = to
               /\ new.items = row.items
               /\ new.reservation = row.reservation
               /\ new.payment = row.payment
               /\ new.authorization = row.authorization
               /\ new.shipment = row.shipment
  BY DEF WithStatus, OrderRow

(* releaseReservedStock ends a reservation and touches nothing else. *)
LEMMA ReleaseEffect ==
    ASSUME NEW row \in OrderRow
    PROVE  LET new == ReleaseReservedStock(row)
           IN  /\ new \in OrderRow
               /\ new.status = row.status
               /\ row.reservation = "reserved" => new.reservation = "released"
               /\ row.reservation # "reserved" => new.reservation = row.reservation
               /\ row.items = "reserved" => new.items = "released"
               /\ row.items # "reserved" => new.items = row.items
               /\ new.payment = row.payment
               /\ new.authorization = row.authorization
               /\ new.shipment = row.shipment
  BY Zenon DEF ReleaseReservedStock, OrderRow

(* voidAuthorizedPayment ends an authorization and touches nothing else. *)
LEMMA VoidEffect ==
    ASSUME NEW row \in OrderRow
    PROVE  LET new == VoidAuthorizedPayment(row)
           IN  /\ new \in OrderRow
               /\ new.status = row.status
               /\ new.items = row.items
               /\ new.reservation = row.reservation
               /\ row.payment = "authorized" => new.payment = "voided"
               /\ row.payment # "authorized" => new.payment = row.payment
               /\ row.authorization = "authorized" => new.authorization = "voided"
               /\ row.authorization # "authorized" => new.authorization = row.authorization
               /\ new.shipment = row.shipment
  BY Zenon DEF VoidAuthorizedPayment, OrderRow

(* RecordOrderCancelled, once the transition was validated. *)
LEMMA CancelledMove ==
    ASSUME NEW row \in OrderRow, RowConsistent(row),
           CanTransition(row.status, "cancelled")
    PROVE  RowMove(row, Cancelled(row))
  <1> DEFINE moved == WithStatus(row, "cancelled")
             released == ReleaseReservedStock(moved)
             new == VoidAuthorizedPayment(released)
  <1>1. /\ moved \in OrderRow
        /\ moved.status = "cancelled"
        /\ moved.reservation = row.reservation
        /\ moved.authorization = row.authorization
        /\ moved.shipment = row.shipment
    BY StatusEffect DEF Statuses
  <1> HIDE DEF moved
  <1>2. /\ released \in OrderRow
        /\ released.status = "cancelled"
        /\ row.reservation = "reserved" => released.reservation = "released"
        /\ row.reservation # "reserved" => released.reservation = row.reservation
        /\ released.authorization = row.authorization
        /\ released.shipment = row.shipment
    BY <1>1, ReleaseEffect
  <1> HIDE DEF released
  <1>3. /\ new \in OrderRow
        /\ new.status = "cancelled"
        /\ row.reservation = "reserved" => new.reservation = "released"
        /\ row.reservation # "reserved" => new.reservation = row.reservation
        /\ row.authorization = "authorized" => new.authorization = "voided"
        /\ row.authorization # "authorized" => new.authorization = row.authorization
        /\ new.shipment = row.shipment
    BY <1>2, VoidEffect
  <1> HIDE DEF new
  <1>4. RowMove(row, new)
    BY <1>3 DEF RowMove, OrderRow, RowConsistent, StockConsistent,
                AuthorizationConsistent, ShipmentConsistent
  <1> QED BY <1>4 DEF Cancelled, new, released, moved

(* RecordCompensation with its effects, once the transition was validated. *)
LEMMA CompensatedMove ==
    ASSUME NEW row \in OrderRow, RowConsistent(row),
           NEW type \in RoutingKeys("orders.compensate"),
           CanTransition(row.status, CompensationTarget(type))
    PROVE  RowMove(row, Compensated(row, type))
  <1>0. type \in {"inventory.rejected", "payment.failed", "shipment.failed"}
    BY DEF RoutingKeys
  <1> DEFINE moved == WithStatus(row, CompensationTarget(type))
             released == ReleaseReservedStock(moved)
             voided == VoidAuthorizedPayment(released)
  <1>1. /\ moved \in OrderRow
        /\ moved.status = CompensationTarget(type)
        /\ moved.reservation = row.reservation
        /\ moved.authorization = row.authorization
        /\ moved.shipment = row.shipment
    BY <1>0, StatusEffect DEF Statuses, CompensationTarget
  <1> HIDE DEF moved
  <1>2. /\ released \in OrderRow
        /\ released.status = CompensationTarget(type)
        /\ row.reservation = "reserved" => released.reservation = "released"
        /\ row.reservation # "reserved" => released.reservation = row.reservation
        /\ released.authorization = row.authorization
        /\ released.shipment = row.shipment
    BY <1>1, ReleaseEffect
  <1> HIDE DEF released
  <1>3. /\ voided \in OrderRow
        /\ voided.status = CompensationTarget(type)
        /\ row.reservation = "reserved" => voided.reservation = "released"
        /\ row.reservation # "reserved" => voided.reservation = row.reservation
        /\ row.authorization = "authorized" => voided.authorization = "voided"
        /\ row.authorization # "authorized" => voided.authorization = row.authorization
        /\ voided.shipment = row.shipment
    BY <1>2, VoidEffect
  <1> HIDE DEF voided
  <1>4. CASE type = "inventory.rejected"
    <2>1. RowMove(row, moved)
      BY <1>1, <1>4 DEF RowMove, CompensationTarget, OrderRow, RowConsistent,
         StockConsistent, AuthorizationConsistent, ShipmentConsistent
    <2> QED BY <2>1, <1>4 DEF Compensated, moved
  <1>5. CASE type = "payment.failed"
    <2>1. RowMove(row, released)
      BY <1>2, <1>5 DEF RowMove, CompensationTarget, OrderRow, RowConsistent,
         StockConsistent, AuthorizationConsistent, ShipmentConsistent
    <2> QED BY <2>1, <1>5 DEF Compensated, released, moved
  <1>6. CASE type = "shipment.failed"
    <2>1. RowMove(row, voided)
      BY <1>3, <1>6 DEF RowMove, CompensationTarget, OrderRow, RowConsistent,
         StockConsistent, AuthorizationConsistent, ShipmentConsistent
    <2> QED BY <2>1, <1>6 DEF Compensated, voided, released, moved
  <1> QED BY <1>0, <1>4, <1>5, <1>6

(* The row a run is about. *)
LEMMA RunRow ==
    ASSUME IInv, NEW r \in runs
    PROVE  /\ r \in Run
           /\ r.msg \in DOMAIN outbox
           /\ OrderOf(r) \in Orders
           /\ RowOf(r) \in OrderRow
           /\ RowConsistent(RowOf(r))
           /\ RunConsistent(r)
  <1>1. r \in Run /\ r.msg \in DOMAIN outbox
    BY Zenon DEF IInv, TypeOK
  <1>2. outbox[r.msg] \in OutboxEvent
    BY <1>1 DEF IInv, TypeOK
  <1>3. OrderOf(r) \in Orders
    BY <1>2 DEF OrderOf, OutboxEvent
  <1>4. RowOf(r) \in OrderRow
    BY <1>3 DEF RowOf, IInv, TypeOK
  <1>5. RowConsistent(RowOf(r))
    BY <1>3 DEF RowOf, IInv, RowsInv
  <1> QED BY <1>1, <1>3, <1>4, <1>5 DEF IInv, RunsInv

(* The API accepted order o in this step. *)
Accepted(o) ==
    /\ orders[o].status = "absent"
    /\ orders'[o] = WithStatus(NoOrder, "pending_fulfillment")

RowsMove ==
    /\ orders' \in [Orders -> OrderRow]
    /\ \A o \in Orders : RowMove(orders[o], orders'[o]) \/ Accepted(o)
    /\ \A o, p \in Orders :
          orders'[o] # orders[o] /\ orders'[p] # orders[p] => o = p

(* A transaction that makes a legal move of one row. *)
LEMMA OneRowMoves ==
    ASSUME IInv, NEW o \in Orders, NEW row, RowMove(orders[o], row),
           orders' = [orders EXCEPT ![o] = row]
    PROVE  RowsMove
  <1>1. orders \in [Orders -> OrderRow]
    BY DEF IInv, TypeOK
  <1>2. row \in OrderRow
    BY DEF RowMove
  <1>3. ASSUME NEW p \in Orders
        PROVE  RowMove(orders[p], orders'[p])
    <2>1. CASE p = o
      BY <2>1, <1>1
    <2>2. CASE p # o
      <3>1. orders'[p] = orders[p] /\ orders[p] \in OrderRow /\ RowConsistent(orders[p])
        BY <2>2, <1>1 DEF IInv, RowsInv
      <3> QED BY <3>1, SameRowMove
    <2> QED BY <2>1, <2>2
  <1>4. \A p \in Orders : orders'[p] # orders[p] => p = o
    BY <1>1
  <1> QED BY <1>1, <1>2, <1>3, <1>4 DEF RowsMove

(* A step that writes no row moves no row. *)
LEMMA NoRowMoves ==
    ASSUME IInv, orders' = orders
    PROVE  RowsMove
  BY SameRowMove DEF IInv, TypeOK, RowsInv, RowsMove

(* Every step of a handler makes a legal move of its order's row. *)
LEMMA HandlerMovesRows ==
    ASSUME IInv, NEW r \in runs, HandlerStep(r)
    PROVE  RowsMove
  <1> DEFINE o == OrderOf(r)
             row == RowOf(r)
  <1>0. /\ r \in Run
        /\ o \in Orders
        /\ row \in OrderRow
        /\ RowConsistent(row)
        /\ RunConsistent(r)
        /\ row = orders[o]
    BY RunRow DEF RowOf
  <1>1. CASE \/ TransitionRefused(r) \/ InsufficientStock(r) \/ AuthorizePayment(r)
             \/ CreateShipment(r) \/ InspectShippedOrder(r)
             \/ InspectCancellingOrder(r) \/ RecordNotificationQueued(r)
    <2>1. orders' = orders
      BY <1>1 DEF TransitionRefused, InsufficientStock, AuthorizePayment,
                  CreateShipment, InspectShippedOrder, InspectCancellingOrder,
                  RecordNotificationQueued
    <2> QED BY <2>1, NoRowMoves
  <1>2. CASE RecordInventoryReserved(r)
    <2>1. /\ CanTransition(row.status, "inventory_reserved")
          /\ orders' = [orders EXCEPT ![o] = Reserved(row)]
      BY <1>2 DEF RecordInventoryReserved, TransitionAllowed, TargetStatus, CommitOrder
    <2> QED BY <1>0, <2>1, ReservedMove, OneRowMoves, Zenon
  <1>3. CASE RecordInventoryRejected(r)
    <2>1. orders' = [orders EXCEPT ![o] = Rejected(row)]
      BY <1>3 DEF RecordInventoryRejected, CommitOrder
    <2> QED BY <1>0, <2>1, FailureMoves, OneRowMoves, Zenon
  <1>4. CASE RecordPaymentAuthorized(r)
    <2>1. /\ CanTransition(row.status, "payment_authorized")
          /\ orders' = [orders EXCEPT ![o] = Authorized(row)]
      BY <1>4 DEF RecordPaymentAuthorized, TransitionAllowed, TargetStatus, CommitOrder
    <2> QED BY <1>0, <2>1, AuthorizedMove, OneRowMoves, Zenon
  <1>5. CASE RecordPaymentFailed(r)
    <2>1. orders' = [orders EXCEPT ![o] = PaymentFailed(row)]
      BY <1>5 DEF RecordPaymentFailed, CommitOrder
    <2> QED BY <1>0, <2>1, FailureMoves, OneRowMoves, Zenon
  <1>6. CASE RecordShipmentCreated(r)
    <2>1. /\ CanTransition(row.status, "shipment_created")
          /\ orders' = [orders EXCEPT ![o] = Shipped(row)]
      BY <1>6 DEF RecordShipmentCreated, TransitionAllowed, TargetStatus, CommitOrder
    <2> QED BY <1>0, <2>1, ShippedMove, OneRowMoves, Zenon
  <1>7. CASE RecordShipmentFailed(r)
    <2>1. orders' = [orders EXCEPT ![o] = row]
      BY <1>7 DEF RecordShipmentFailed, CommitOrder
    <2> QED BY <1>0, <2>1, SameRowMove, OneRowMoves, Zenon
  <1>8. CASE CompleteOrder(r)
    <2>1. /\ CanTransition(row.status, "completed")
          /\ orders' = [orders EXCEPT ![o] = WithStatus(row, "completed")]
      BY <1>8 DEF CompleteOrder, TransitionAllowed, TargetStatus, CommitOrder
    <2>2. RowMove(row, WithStatus(row, "completed"))
      BY <1>0, <2>1, StatusMoves
    <2> QED BY <1>0, <2>1, <2>2, OneRowMoves, Zenon
  <1>9. CASE RequireManualReview(r)
    <2>1. /\ CanTransition(row.status, "manual_review")
          /\ orders' = [orders EXCEPT ![o] = WithStatus(row, "manual_review")]
      BY <1>9 DEF RequireManualReview, TransitionAllowed, TargetStatus, CommitOrder
    <2>2. row.shipment = "created"
      BY <1>0, <1>9 DEF RequireManualReview, RunConsistent
    <2>3. RowMove(row, WithStatus(row, "manual_review"))
      BY <1>0, <2>1, <2>2, StatusMoves
    <2> QED BY <1>0, <2>1, <2>3, OneRowMoves, Zenon
  <1>10. CASE RecordOrderCancelled(r)
    <2>1. /\ CanTransition(row.status, "cancelled")
          /\ orders' = [orders EXCEPT ![o] = Cancelled(row)]
      BY <1>10 DEF RecordOrderCancelled, TransitionAllowed, TargetStatus, CommitOrder
    <2> QED BY <1>0, <2>1, CancelledMove, OneRowMoves, Zenon
  <1>11. CASE RecordCompensation(r)
    <2> DEFINE type == outbox[r.msg].type
    <2>1. /\ CanTransition(row.status, CompensationTarget(type))
          /\ orders' = [orders EXCEPT ![o] = Compensated(row, type)]
      BY <1>11 DEF RecordCompensation, TransitionAllowed, TargetStatus
    <2>2. type \in RoutingKeys("orders.compensate")
      BY <1>0, <1>11, SMTT(30) DEF RecordCompensation, RunConsistent, StepQueue
    <2>3. RowMove(row, Compensated(row, type))
      BY <1>0, <2>1, <2>2, CompensatedMove
    <2> QED BY <1>0, <2>1, <2>3, OneRowMoves, Zenon
  <1> QED BY <1>1, <1>2, <1>3, <1>4, <1>5, <1>6, <1>7, <1>8, <1>9, <1>10, <1>11
          DEF HandlerStep

(* Every step of the system makes legal moves of the rows. *)
LEMMA StepMovesRows ==
    ASSUME IInv, [Next]_vars
    PROVE  RowsMove
  <1>1. CASE UNCHANGED vars
    BY <1>1, NoRowMoves DEF vars
  <1>2. ASSUME NEW o \in Orders, CreateOrder(o)
        PROVE  RowsMove
    <2>1. /\ orders \in [Orders -> OrderRow]
          /\ orders[o].status = "absent"
          /\ orders' = [orders EXCEPT ![o] = WithStatus(NoOrder, "pending_fulfillment")]
      BY <1>2 DEF CreateOrder, IInv, TypeOK
    <2>2. WithStatus(NoOrder, "pending_fulfillment") \in OrderRow
      BY DEF WithStatus, NoOrder, OrderRow, Statuses
    <2>3. ASSUME NEW p \in Orders
          PROVE  RowMove(orders[p], orders'[p]) \/ Accepted(p)
      <3>1. CASE p = o
        BY <3>1, <2>1 DEF Accepted
      <3>2. CASE p # o
        <4>1. orders'[p] = orders[p] /\ orders[p] \in OrderRow /\ RowConsistent(orders[p])
          BY <3>2, <2>1 DEF IInv, RowsInv
        <4> QED BY <4>1, SameRowMove
      <3> QED BY <3>1, <3>2
    <2>4. \A p \in Orders : orders'[p] # orders[p] => p = o
      BY <2>1
    <2> QED BY <2>1, <2>2, <2>3, <2>4 DEF RowsMove
  <1>3. ASSUME NEW o \in Orders, CancelOrder(o)
        PROVE  RowsMove
    <2> DEFINE row == orders[o]
    <2>1. /\ row \in OrderRow
          /\ RowConsistent(row)
          /\ CanTransition(row.status, "cancellation_pending")
          /\ orders' = [orders EXCEPT ![o] = WithStatus(row, "cancellation_pending")]
      BY <1>3 DEF CancelOrder, IInv, TypeOK, RowsInv
    <2>2. RowMove(row, WithStatus(row, "cancellation_pending"))
      BY <2>1, StatusMoves
    <2> QED BY <2>1, <2>2, OneRowMoves, Zenon
  <1>4. ASSUME NEW q \in Queues, NEW m \in DOMAIN outbox, Deliver(q, m) \/ Replay(q, m)
        PROVE  RowsMove
    BY <1>4, NoRowMoves DEF Deliver, Replay, StartRun
  <1>5. ASSUME NEW r \in runs, Crash(r) \/ DatabaseError(r)
        PROVE  RowsMove
    BY <1>5, NoRowMoves DEF Crash, DatabaseError
  <1> QED BY <1>1, <1>2, <1>3, <1>4, <1>5, HandlerMovesRows DEF Next

-----------------------------------------------------------------------------
(* The runs half                                                           *)

(* Events are only ever added to the outbox. *)
OutboxMoves ==
    /\ outbox' \in Seq(OutboxEvent)
    /\ DOMAIN outbox \subseteq DOMAIN outbox'
    /\ \A m \in DOMAIN outbox : outbox'[m] = outbox[m]

(* insertOutboxEvent keeps the events that are there. *)
LEMMA EmitMovesOutbox ==
    ASSUME outbox \in Seq(OutboxEvent), NEW type \in EventTypes,
           NEW o \in Orders, NEW cause \in Nat, Emit(type, o, cause)
    PROVE  OutboxMoves
  <1>1. [type |-> type, order |-> o, cause |-> cause] \in OutboxEvent
    BY DEF OutboxEvent
  <1> QED BY <1>1 DEF Emit, OutboxMoves

(* Every step keeps the events that are there. *)
LEMMA StepMovesOutbox ==
    ASSUME IInv, [Next]_vars
    PROVE  OutboxMoves
  <1>0. outbox \in Seq(OutboxEvent)
    BY DEF IInv, TypeOK
  <1>1. ASSUME outbox' = outbox
        PROVE  OutboxMoves
    BY <1>0, <1>1 DEF OutboxMoves
  <1>2. ASSUME NEW r \in runs, NEW row, NEW type \in EventTypes, CommitOrder(r, row, type)
        PROVE  OutboxMoves
    <2>1. r.msg \in Nat /\ OrderOf(r) \in Orders
      BY RunRow DEF Run
    <2> QED BY <1>0, <1>2, <2>1, EmitMovesOutbox DEF CommitOrder
  <1>3. ASSUME NEW o \in Orders, CreateOrder(o) \/ CancelOrder(o)
        PROVE  OutboxMoves
    BY <1>0, <1>3, EmitMovesOutbox DEF CreateOrder, CancelOrder, EventTypes
  <1>4. ASSUME NEW r \in runs, HandlerStep(r)
        PROVE  OutboxMoves
    <2>1. CASE \E row : \E type \in EventTypes : CommitOrder(r, row, type)
      BY <2>1, <1>2
    <2>2. CASE outbox' = outbox
      BY <2>2, <1>1
    <2>3. \/ \E row : \E type \in EventTypes : CommitOrder(r, row, type)
          \/ outbox' = outbox
      BY <1>4 DEF HandlerStep, TransitionRefused, RecordInventoryReserved,
         InsufficientStock, RecordInventoryRejected, AuthorizePayment,
         RecordPaymentAuthorized, RecordPaymentFailed, CreateShipment,
         RecordShipmentCreated, RecordShipmentFailed, InspectShippedOrder,
         CompleteOrder, InspectCancellingOrder, RequireManualReview,
         RecordOrderCancelled, RecordCompensation, RecordNotificationQueued,
         EventTypes
    <2> QED BY <2>1, <2>2, <2>3
  <1>5. ASSUME NEW q \in Queues, NEW m \in DOMAIN outbox, Deliver(q, m) \/ Replay(q, m)
        PROVE  OutboxMoves
    BY <1>1, <1>5 DEF Deliver, Replay, StartRun
  <1>6. ASSUME NEW r \in runs, Crash(r) \/ DatabaseError(r)
        PROVE  OutboxMoves
    BY <1>1, <1>6 DEF Crash, DatabaseError
  <1>7. CASE UNCHANGED vars
    BY <1>1, <1>7 DEF vars
  <1> QED BY <1>3, <1>4, <1>5, <1>6, <1>7 DEF Next

(* The ways the runs, the inbox and the attempts change together. *)
RunsMove ==
    \/ UNCHANGED <<runs, inbox, attempts>>
    \/ \E r \in runs : HandlerReturns(r)
    \/ \E r \in runs : HandlerFails(r)
    \/ \E r \in runs : \E step \in Steps :
          /\ Continue(r, step)
          /\ StepQueue(step) = StepQueue(r.step)
          /\ step = "review" => RowOf(r).shipment = "created"
          /\ step = "cancel" => RowOf(r).shipment # "created"
    \/ \E q \in Queues : \E m \in DOMAIN outbox : StartRun(q, m)

(* Every step changes runs, inbox and attempts in one of these ways. *)
LEMMA StepMovesRuns ==
    ASSUME IInv, [Next]_vars
    PROVE  RunsMove
  <1>1. CASE UNCHANGED vars
    BY <1>1 DEF vars, RunsMove
  <1>2. ASSUME NEW o \in Orders, CreateOrder(o) \/ CancelOrder(o)
        PROVE  RunsMove
    BY <1>2 DEF CreateOrder, CancelOrder, RunsMove
  <1>3. ASSUME NEW q \in Queues, NEW m \in DOMAIN outbox, Deliver(q, m) \/ Replay(q, m)
        PROVE  RunsMove
    BY <1>3 DEF Deliver, Replay, RunsMove
  <1>4. ASSUME NEW r \in runs, Crash(r) \/ DatabaseError(r)
        PROVE  RunsMove
    BY <1>4 DEF Crash, DatabaseError, HandlerReturns, RunsMove
  <1>5. ASSUME NEW r \in runs, HandlerStep(r)
        PROVE  RunsMove
    <2>1. CASE InspectCancellingOrder(r)
      <3>1. RequiresManualReview(RowOf(r)) <=> RowOf(r).shipment = "created"
        BY RunRow DEF RequiresManualReview, RowConsistent, ShipmentConsistent
      <3> QED BY <2>1, <3>1 DEF InspectCancellingOrder, RunsMove, Steps, StepQueue
    <2>2. CASE InsufficientStock(r) \/ AuthorizePayment(r) \/ CreateShipment(r)
      BY <2>2 DEF InsufficientStock, AuthorizePayment, CreateShipment, RunsMove, Steps, StepQueue
    <2>3. CASE InspectShippedOrder(r)
      BY <2>3 DEF InspectShippedOrder, RunsMove, Steps, StepQueue
    <2>4. CASE TransitionRefused(r)
      BY <2>4 DEF TransitionRefused, RunsMove
    <2>5. CASE TransactionEnds(r)
      BY <2>5, SMTT(30) DEF TransactionEnds, RunsMove
    <2>6. \/ InspectCancellingOrder(r) \/ InsufficientStock(r) \/ AuthorizePayment(r)
          \/ CreateShipment(r) \/ InspectShippedOrder(r) \/ TransitionRefused(r)
          \/ TransactionEnds(r)
      BY <1>5 DEF HandlerStep, RecordInventoryReserved, RecordInventoryRejected,
         RecordPaymentAuthorized, RecordPaymentFailed, RecordShipmentCreated,
         RecordShipmentFailed, CompleteOrder, RequireManualReview,
         RecordOrderCancelled, RecordCompensation, RecordNotificationQueued,
         CommitOrder
    <2> QED BY <2>1, <2>2, <2>3, <2>4, <2>5, <2>6
  <1> QED BY <1>1, <1>2, <1>3, <1>4, <1>5 DEF Next

(* What RunsInv and the delivery part of TypeOK say of one run and of the    *)
(* inbox and the attempts.                                                  *)
RunOK(r) ==
    /\ r \in Run
    /\ r.msg \in DOMAIN outbox
    /\ <<r.queue, r.msg>> \in inbox
    /\ RunConsistent(r)

DeliveryInv ==
    /\ \A r \in runs : RunOK(r)
    /\ RunsAreExclusive
    /\ inbox \subseteq Queues \X DOMAIN outbox
    /\ DOMAIN attempts \subseteq Queues \X DOMAIN outbox
    /\ \A d \in DOMAIN attempts : attempts[d] \in 1..(MaxRetries + 1)

(* DeliveryInv is a part of the inductive invariant. *)
LEMMA IInvDelivery ==
    ASSUME IInv
    PROVE  DeliveryInv
  BY DEF IInv, TypeOK, RunsInv, DeliveryInv, RunOK

(* A run that is still there, and still in the inbox, stays well formed. *)
LEMMA RunStaysOK ==
    ASSUME IInv, RowsMove, OutboxMoves,
           NEW r \in runs, <<r.queue, r.msg>> \in inbox'
    PROVE  RunOK(r)'
  <1>1. /\ r \in Run
        /\ r.msg \in DOMAIN outbox
        /\ OrderOf(r) \in Orders
        /\ RunConsistent(r)
    BY RunRow
  <1>2. r.msg \in DOMAIN outbox' /\ outbox'[r.msg] = outbox[r.msg]
    BY <1>1, SMTT(30) DEF OutboxMoves
  <1>3. RowOf(r).shipment = "created" => RowOf(r)'.shipment = "created"
    <2>1. OrderOf(r)' = OrderOf(r)
      BY <1>2 DEF OrderOf
    <2>2. \/ RowMove(orders[OrderOf(r)], orders'[OrderOf(r)])
          \/ orders[OrderOf(r)].status = "absent"
      BY <1>1 DEF RowsMove, Accepted
    <2>3. orders[OrderOf(r)].status = "absent" => orders[OrderOf(r)].shipment = "none"
      BY <1>1 DEF IInv, RowsInv, RowConsistent, ShipmentConsistent
    <2> QED BY <2>1, <2>2, <2>3 DEF RowOf, RowMove
  <1>4. RunConsistent(r)'
    BY <1>1, <1>2, <1>3 DEF RunConsistent
  <1> QED BY <1>1, <1>2, <1>4 DEF RunOK

(* A step of these three kinds keeps runs, inbox and attempts in step. *)
LEMMA StepKeepsDelivery ==
    ASSUME IInv, RowsMove, OutboxMoves, RunsMove
    PROVE  DeliveryInv'
  <1>0. DeliveryInv /\ MaxRetries \in Nat
    BY IInvDelivery, SagaConstants
  <1>a. Queues \X DOMAIN outbox \subseteq Queues \X DOMAIN outbox'
    BY DEF OutboxMoves
  <1>1. CASE UNCHANGED <<runs, inbox, attempts>>
    <2>1. \A r \in runs' : RunOK(r)'
      BY <1>0, <1>1, RunStaysOK, Zenon DEF DeliveryInv, RunOK
    <2> QED BY <1>0, <1>a, <1>1, <2>1 DEF DeliveryInv, RunsAreExclusive
  <1>2. ASSUME NEW r \in runs, HandlerReturns(r)
        PROVE  DeliveryInv'
    <2>1. \A x \in runs' : RunOK(x)'
      BY <1>0, <1>2, RunStaysOK, Zenon DEF DeliveryInv, RunOK, HandlerReturns
    <2> QED BY <1>0, <1>a, <1>2, <2>1 DEF DeliveryInv, RunsAreExclusive, HandlerReturns
  <1>3. ASSUME NEW r \in runs, HandlerFails(r)
        PROVE  DeliveryInv'
    <2> DEFINE d == <<r.queue, r.msg>>
    <2>1. /\ runs' = runs \ {r}
          /\ inbox' = inbox \ {d}
          /\ attempts' = [x \in DOMAIN attempts \cup {d} |->
                            IF x = d /\ Attempts(d) <= MaxRetries
                            THEN Attempts(d) + 1 ELSE attempts[x]]
      BY <1>3 DEF HandlerFails
    <2>2. d \in Queues \X DOMAIN outbox
      BY <1>0 DEF DeliveryInv, RunOK, Run
    <2>3. ASSUME NEW x \in runs'
          PROVE  RunOK(x)'
      <3>1. x \in runs /\ x # r /\ <<x.queue, x.msg>> \in inbox
        BY <1>0, <2>1 DEF DeliveryInv, RunOK
      <3>2. <<x.queue, x.msg>> # d
        BY <1>0, <3>1 DEF DeliveryInv, RunsAreExclusive
      <3> QED BY <2>1, <3>1, <3>2, RunStaysOK
    <2>4. DOMAIN attempts' \subseteq Queues \X DOMAIN outbox'
      BY <1>0, <1>a, <2>1, <2>2 DEF DeliveryInv
    <2>5. \A x \in DOMAIN attempts' : attempts'[x] \in 1..(MaxRetries + 1)
      <3>1. ASSUME NEW x \in DOMAIN attempts'
            PROVE  attempts'[x] \in 1..(MaxRetries + 1)
        <4>1. Attempts(d) \in 0..(MaxRetries + 1)
          BY <1>0 DEF Attempts, DeliveryInv
        <4>2. CASE x = d /\ Attempts(d) <= MaxRetries
          BY <1>0, <2>1, <4>1, <4>2
        <4>3. CASE ~(x = d /\ Attempts(d) <= MaxRetries)
          <5>1. x \in DOMAIN attempts
            BY <1>0, <2>1, <4>3 DEF Attempts
          <5> QED BY <1>0, <2>1, <4>3, <5>1 DEF DeliveryInv
        <4> QED BY <4>2, <4>3
      <3> QED BY <3>1
    <2>6. RunsAreExclusive'
      BY <1>0, <2>1 DEF DeliveryInv, RunsAreExclusive
    <2>7. inbox' \subseteq Queues \X DOMAIN outbox'
      BY <1>0, <1>a, <2>1 DEF DeliveryInv
    <2> QED BY <2>3, <2>4, <2>5, <2>6, <2>7 DEF DeliveryInv
  <1>4. ASSUME NEW r \in runs, NEW step \in Steps, Continue(r, step),
               StepQueue(step) = StepQueue(r.step),
               step = "review" => RowOf(r).shipment = "created"
        PROVE  DeliveryInv'
    <2> DEFINE s == [r EXCEPT !.step = step]
    <2>1. runs' = (runs \ {r}) \cup {s} /\ inbox' = inbox /\ attempts' = attempts
      BY <1>4 DEF Continue
    <2>2. RunOK(r)' /\ OrderOf(r) \in Orders
      BY <1>0, <2>1, RunStaysOK, RunRow DEF DeliveryInv, RunOK
    <2>3. s \in Run /\ s.queue = r.queue /\ s.msg = r.msg /\ s.step = step
      BY <1>0, Zenon DEF DeliveryInv, RunOK, Run
    <2>4. step = "review" => RowOf(s)'.shipment = "created"
      <3>1. OrderOf(s)' = OrderOf(r)
        BY <1>0, <2>3, Zenon DEF OrderOf, DeliveryInv, RunOK, OutboxMoves
      <3>2. \/ RowMove(orders[OrderOf(r)], orders'[OrderOf(r)])
            \/ orders[OrderOf(r)].status = "absent"
        BY <2>2 DEF RowsMove, Accepted
      <3>3. orders[OrderOf(r)].status = "absent" => orders[OrderOf(r)].shipment = "none"
        BY <2>2 DEF IInv, RowsInv, RowConsistent, ShipmentConsistent
      <3> QED BY <1>4, <3>1, <3>2, <3>3 DEF RowOf, RowMove
    <2>5. RunOK(s)'
      BY <1>4, <2>2, <2>3, <2>4 DEF RunOK, RunConsistent
    <2>6. ASSUME NEW x \in runs'
          PROVE  RunOK(x)'
      <3>1. CASE x = s
        BY <2>5, <3>1
      <3>2. CASE x # s
        BY <1>0, <2>1, <3>2, RunStaysOK DEF DeliveryInv, RunOK
      <3> QED BY <3>1, <3>2
    <2>7. RunsAreExclusive'
      <3> HIDE DEF s
      <3>1. \A x \in runs' : x = s \/ x \in runs \ {r}
        BY <2>1
      <3>2. \A x \in runs \ {r} : ~(x.queue = s.queue /\ x.msg = s.msg)
        BY <1>0, <2>3, SMTT(30) DEF DeliveryInv, RunsAreExclusive
      <3> QED BY <1>0, <3>1, <3>2 DEF DeliveryInv, RunsAreExclusive
    <2> QED BY <1>0, <1>a, <2>1, <2>6, <2>7 DEF DeliveryInv
  <1>5. ASSUME NEW q \in Queues, NEW m \in DOMAIN outbox, StartRun(q, m)
        PROVE  DeliveryInv'
    <2> DEFINE s == [queue |-> q, msg |-> m, step |-> FirstStep(q)]
    <2>1. /\ runs' = runs \cup {s}
          /\ inbox' = inbox \cup {<<q, m>>}
          /\ attempts' = attempts
          /\ <<q, m>> \notin inbox
          /\ outbox[m].type \in RoutingKeys(q)
      BY <1>5 DEF StartRun
    <2>2. FirstStep(q) \in Steps \ {"review"}
      BY DEF FirstStep, Steps, Queues
    <2>2a. StepQueue(FirstStep(q)) = q
      BY DEF FirstStep, StepQueue, Queues
    <2>3. s \in Run /\ s.queue = q /\ s.msg = m /\ s.step = FirstStep(q)
      <3>1. m \in Nat \ {0}
        BY DEF IInv, TypeOK
      <3> QED BY <2>2, <3>1 DEF Run
    <2>4. RunOK(s)'
      BY <2>1, <2>2, <2>2a, <2>3 DEF RunOK, RunConsistent, OutboxMoves
    <2>5. ASSUME NEW x \in runs'
          PROVE  RunOK(x)'
      <3>1. CASE x = s
        BY <2>4, <3>1
      <3>2. CASE x # s
        BY <1>0, <2>1, <3>2, RunStaysOK DEF DeliveryInv, RunOK
      <3> QED BY <3>1, <3>2
    <2>6. \A x \in runs : ~(x.queue = q /\ x.msg = m)
      BY <1>0, <2>1 DEF DeliveryInv, RunOK
    <2>7. RunsAreExclusive'
      BY <1>0, <2>1, <2>3, <2>6 DEF DeliveryInv, RunsAreExclusive
    <2>8. inbox' \subseteq Queues \X DOMAIN outbox'
      BY <1>0, <1>a, <2>1 DEF DeliveryInv
    <2> QED BY <1>0, <1>a, <2>1, <2>5, <2>7, <2>8 DEF DeliveryInv
  <1> QED BY <1>1, <1>2, <1>3, <1>4, <1>5 DEF RunsMove

-----------------------------------------------------------------------------
(* The theorems                                                            *)

(* The system starts with empty tables. *)
LEMMA InitIInv ==
    ASSUME Init
    PROVE  IInv
  <1>1. NoOrder \in OrderRow /\ RowConsistent(NoOrder)
    BY DEF NoOrder, OrderRow, Statuses, RowConsistent, StockConsistent,
           AuthorizationConsistent, ShipmentConsistent
  <1>2. TypeOK
    BY <1>1, SagaConstants DEF Init, TypeOK
  <1>3. RowsInv /\ RunsInv
    BY <1>1 DEF Init, RowsInv, RunsInv, RunsAreExclusive
  <1> QED BY <1>2, <1>3 DEF IInv

(* The counters and the projections keyed by message. *)
LEMMA StepKeepsTables ==
    ASSUME IInv, [Next]_vars
    PROVE  /\ compensations' \subseteq DOMAIN outbox'
           /\ notifications' \subseteq DOMAIN outbox'
           /\ booked' \subseteq Orders
           /\ faults' \in 0..MaxFaults
  <1>0. /\ DOMAIN outbox \subseteq DOMAIN outbox'
        /\ MaxFaults \in Nat
        /\ compensations \subseteq DOMAIN outbox
        /\ notifications \subseteq DOMAIN outbox
        /\ booked \subseteq Orders
        /\ faults \in 0..MaxFaults
    BY StepMovesOutbox, SagaConstants, SMTT(30) DEF OutboxMoves, IInv, TypeOK
  <1>1. faults' = faults \/ (faults < MaxFaults /\ faults' = faults + 1)
    BY ZenonT(40) DEF Next, vars, CreateOrder, CancelOrder, Deliver, Replay, Crash,
       DatabaseError, Fault, HandlerStep, TransitionRefused,
       RecordInventoryReserved, InsufficientStock, RecordInventoryRejected,
       AuthorizePayment, RecordPaymentAuthorized, RecordPaymentFailed,
       CreateShipment, RecordShipmentCreated, RecordShipmentFailed,
       InspectShippedOrder, CompleteOrder, InspectCancellingOrder,
       RequireManualReview, RecordOrderCancelled, RecordCompensation,
       RecordNotificationQueued, CommitOrder, TransactionEnds
  <1>2. /\ compensations' = compensations \/ \E r \in runs : compensations' = compensations \cup {r.msg}
        /\ notifications' = notifications \/ \E r \in runs : notifications' = notifications \cup {r.msg}
        /\ booked' = booked \/ \E r \in runs : booked' = booked \cup {OrderOf(r)}
    BY Zenon DEF Next, vars, CreateOrder, CancelOrder, Deliver, Replay, StartRun, Crash,
       DatabaseError, HandlerStep, TransitionRefused,
       RecordInventoryReserved, InsufficientStock, RecordInventoryRejected,
       AuthorizePayment, RecordPaymentAuthorized, RecordPaymentFailed,
       CreateShipment, RecordShipmentCreated, RecordShipmentFailed,
       InspectShippedOrder, CompleteOrder, InspectCancellingOrder,
       RequireManualReview, RecordOrderCancelled, RecordCompensation,
       RecordNotificationQueued, CommitOrder
  <1> QED BY <1>0, <1>1, <1>2, RunRow

(* Every step keeps the inductive invariant. *)
LEMMA StepKeepsIInv ==
    ASSUME IInv, [Next]_vars
    PROVE  IInv'
  <1>1. RowsMove /\ OutboxMoves /\ DeliveryInv'
    BY StepMovesRows, StepMovesOutbox, StepMovesRuns, StepKeepsDelivery
  <1>2. RowsInv'
    <2>1. RowConsistent(WithStatus(NoOrder, "pending_fulfillment"))
      BY DEF WithStatus, NoOrder, RowConsistent, StockConsistent,
             AuthorizationConsistent, ShipmentConsistent
    <2>2. ASSUME NEW o \in Orders
          PROVE  RowConsistent(orders'[o])
      <3>1. CASE RowMove(orders[o], orders'[o])
        BY <3>1 DEF RowMove
      <3>2. CASE Accepted(o)
        BY <3>2, <2>1 DEF Accepted
      <3> QED BY <1>1, <3>1, <3>2 DEF RowsMove
    <2> QED BY <2>2 DEF RowsInv, RowConsistent, StockConsistent,
                        AuthorizationConsistent, ShipmentConsistent
  <1>3. RunsInv'
    BY <1>1, Zenon DEF DeliveryInv, RunOK, RunsInv
  <1>4. TypeOK'
    BY <1>1, StepKeepsTables, Zenon DEF RowsMove, OutboxMoves, DeliveryInv, RunOK, TypeOK
  <1> QED BY <1>2, <1>3, <1>4 DEF IInv

(* The inductive invariant holds in every reachable state. *)
THEOREM InductiveInvariant == Spec => []IInv
  <1>1. Init => IInv
    BY InitIInv
  <1>2. IInv /\ [Next]_vars => IInv'
    BY StepKeepsIInv
  <1> QED BY <1>1, <1>2, PTL DEF Spec

(* The tables and the worker state are always well typed. *)
THEOREM TypeCorrect == Spec => []TypeOK
  <1>1. IInv => TypeOK
    BY DEF IInv
  <1> QED BY <1>1, InductiveInvariant, PTL

(* The inbox row is a lock on the message: at most one run per delivery. *)
THEOREM ExclusiveRuns == Spec => []RunsAreExclusive
  <1>1. IInv => RunsAreExclusive
    BY DEF IInv, RunsInv
  <1> QED BY <1>1, InductiveInvariant, PTL

(* Stock is held exactly while the order's status owes it, through every     *)
(* interleaving, duplicate, crash and lost commit.                           *)
THEOREM StockIsHeldWhileOwed == Spec => []StockFollowsStatus
  <1>1. IInv => StockFollowsStatus
    BY DEF IInv, RowsInv, RowConsistent, StockFollowsStatus
  <1> QED BY <1>1, InductiveInvariant, PTL

(* An order past payment has a live authorization, one before it has none. *)
THEOREM AuthorizationIsHeldWhileOwed == Spec => []AuthorizationFollowsStatus
  <1>1. IInv => AuthorizationFollowsStatus
    BY DEF IInv, RowsInv, RowConsistent, AuthorizationFollowsStatus
  <1> QED BY <1>1, InductiveInvariant, PTL

(* A shipment exists only after payment, and completion and manual review    *)
(* only with a shipment, although cancelOrder reads without a lock.          *)
THEOREM ShipmentIsRecordedInOrder == Spec => []ShipmentFollowsStatus
  <1>1. IInv => ShipmentFollowsStatus
    BY DEF IInv, RowsInv, RowConsistent, ShipmentFollowsStatus
  <1> QED BY <1>1, InductiveInvariant, PTL

(* No step changes the status, the stock or the shipment of an order that    *)
(* has ended.                                                                *)
THEOREM SettledOrdersStayFrozen == Spec => SettledOrdersAreFrozen
  <1> DEFINE Frozen ==
        \A o \in Orders :
          orders[o].status \in Lifecycle!TerminalStatuses
             => /\ orders'[o].status = orders[o].status
                /\ orders'[o].reservation = orders[o].reservation
                /\ orders'[o].shipment = orders[o].shipment
  <1>1. IInv /\ [Next]_vars => [Frozen]_vars
    <2> SUFFICES ASSUME IInv, [Next]_vars
                 PROVE  Frozen
      OBVIOUS
    <2>1. RowsMove
      BY StepMovesRows
    <2> QED BY <2>1 DEF RowsMove, RowMove, Accepted
  <1> QED BY <1>1, InductiveInvariant, PTL DEF Spec, SettledOrdersAreFrozen

(* Refinement: the saga, with its workers, faults and retries, implements    *)
(* the order status machine.                                                *)
THEOREM SagaImplementsLifecycle == Spec => ImplementsLifecycle
  <1> DEFINE st == [o \in Orders |-> orders[o].status]
  <1>1. Init => Lifecycle!Init
    BY DEF Init, Lifecycle!Init, NoOrder
  <1>2. IInv /\ [Next]_vars => [Lifecycle!Next]_st
    <2> SUFFICES ASSUME IInv, [Next]_vars, st' # st
                 PROVE  Lifecycle!Next
      OBVIOUS
    <2>1. RowsMove
      BY StepMovesRows
    <2>2. PICK o \in Orders : orders'[o].status # orders[o].status
      OBVIOUS
    <2>3. \A p \in Orders \ {o} : orders'[p].status = orders[p].status
      BY <2>1, <2>2 DEF RowsMove
    <2>4. st' = [st EXCEPT ![o] = orders'[o].status]
      <3>1. st' = [p \in Orders |-> orders'[p].status]
        OBVIOUS
      <3>2. [st EXCEPT ![o] = orders'[o].status]
               = [p \in Orders |-> IF p = o THEN orders'[o].status ELSE orders[p].status]
        BY Zenon
      <3>3. \A p \in Orders :
               orders'[p].status = IF p = o THEN orders'[o].status ELSE orders[p].status
        BY <2>3
      <3> HIDE DEF st
      <3> QED BY <3>1, <3>2, <3>3
    <2>5. CASE Accepted(o)
      <3>1. orders'[o].status = "pending_fulfillment"
        BY <2>5 DEF Accepted, WithStatus, NoOrder
      <3>2. Lifecycle!Accept(o)
        BY <2>4, <2>5, <3>1, Zenon DEF Accepted, Lifecycle!Accept
      <3> QED BY <3>2 DEF Lifecycle!Next
    <2>6. CASE RowMove(orders[o], orders'[o])
      <3>1. CanTransition(orders[o].status, orders'[o].status)
        BY <2>2, <2>6 DEF RowMove
      <3>2. orders'[o].status \in Lifecycle!ValidOrderStatuses
        BY <3>1
      <3>3. PICK to \in Lifecycle!ValidOrderStatuses : to = orders'[o].status
        BY <3>2, SMTT(30)
      <3>4. Lifecycle!Move(o, to)
        BY <2>4, <3>1, <3>3 DEF Lifecycle!Move
      <3> QED BY <3>3, <3>4, SMTT(30) DEF Lifecycle!Next
    <2> QED BY <2>1, <2>5, <2>6 DEF RowsMove
  <1> QED BY <1>1, <1>2, InductiveInvariant, PTL
          DEF Spec, ImplementsLifecycle, Lifecycle!Spec

-----------------------------------------------------------------------------
(* The outbox and the tables                                               *)

CancelStatuses == {"cancellation_pending", "cancelled", "manual_review"}

(* What the status of an order says about a compensation that was recorded. *)
CompensationHolds(m) ==
    LET row == orders[outbox[m].order]
        type == outbox[m].type
    IN  /\ type \in RoutingKeys("orders.compensate")
        /\ row.reservation # "reserved"
        /\ type = "inventory.rejected" => row.status = "failed"
        /\ type = "payment.failed" => row.status = "cancelled"
        /\ type = "shipment.failed" => /\ row.status \in CancelStatuses
                                       /\ row.authorization # "authorized"

(* Once a cancel request was accepted the order leaves fulfilment for good,  *)
(* so what a "cancel" run has read, that there is no shipment, stays true.   *)
CancelInv ==
    /\ \A o \in Orders : Emitted(o, "order.cancel_requested")
                            => orders[o].status \in CancelStatuses
    /\ \A r \in runs : r.step = "cancel" => RowOf(r).shipment = "none"

(* The handlers' events, each with the queue of the handler that emits it. *)
HandlerEvents == EventTypes \ {"order.created", "order.cancel_requested"}

EmittingQueue(type) ==
    CASE type \in {"inventory.reserved", "inventory.rejected"} -> "inventory.reserve"
      [] type \in {"payment.authorized", "payment.failed"} -> "payments.authorize"
      [] type \in {"shipment.created", "shipment.failed"} -> "shipments.create"
      [] type = "order.completed" -> "orders.finalize"
      [] type \in {"order.cancelled", "order.manual_review_required"} -> "orders.cancel"

(* A handler's event is about the order of the message it handled, and that  *)
(* message is one its queue is bound to.                                     *)
Caused(n) ==
    LET m == outbox[n].cause
    IN  /\ m \in DOMAIN outbox
        /\ outbox[m].order = outbox[n].order
        /\ outbox[m].type \in RoutingKeys(EmittingQueue(outbox[n].type))

CauseInv ==
    /\ \A n \in DOMAIN outbox : outbox[n].type \in HandlerEvents => Caused(n)
    /\ \A m, n \in DOMAIN outbox :
          /\ outbox[m].type = "order.created"
          /\ outbox[n].type = "order.created"
          /\ outbox[m].order = outbox[n].order
          => m = n

StoryInv ==
    /\ OutboxMatchesOrders
    /\ \A m \in compensations : CompensationHolds(m)
    /\ CancelInv
    /\ CauseInv

(* The delivery is over: its inbox row is there and no run is left. *)
Closed(q, m) ==
    /\ <<q, m>> \in inbox
    /\ \A r \in runs : ~(r.queue = q /\ r.msg = m)

OnceInv ==
    /\ \A n \in DOMAIN outbox :
          outbox[n].type \in HandlerEvents
             => Closed(EmittingQueue(outbox[n].type), outbox[n].cause)
    /\ \A m, n \in DOMAIN outbox :
          /\ outbox[m].type \in HandlerEvents
          /\ outbox[n].type \in HandlerEvents
          /\ outbox[m].cause = outbox[n].cause
          => m = n

(* What the transaction that emits an event does to the row. *)
Effect(type, row, new) ==
    \/ /\ type = "inventory.reserved"
       /\ CanTransition(row.status, "inventory_reserved")
       /\ new = Reserved(row)
    \/ type = "inventory.rejected" /\ new = Rejected(row)
    \/ /\ type = "payment.authorized"
       /\ CanTransition(row.status, "payment_authorized")
       /\ new = Authorized(row)
    \/ type = "payment.failed" /\ new = PaymentFailed(row)
    \/ /\ type = "shipment.created"
       /\ CanTransition(row.status, "shipment_created")
       /\ new = Shipped(row)
    \/ type = "shipment.failed" /\ new = row
    \/ /\ type = "order.completed"
       /\ CanTransition(row.status, "completed")
       /\ new = WithStatus(row, "completed")
    \/ /\ type = "order.cancelled"
       /\ CanTransition(row.status, "cancelled")
       /\ new = Cancelled(row)
    \/ /\ type = "order.manual_review_required"
       /\ CanTransition(row.status, "manual_review")
       /\ new = WithStatus(row, "manual_review")

(* The transactions that set the status check the transition first. *)
LEMMA EffectIsLegal ==
    ASSUME NEW type, NEW row, NEW new, Effect(type, row, new)
    PROVE  /\ type = "inventory.reserved" => CanTransition(row.status, "inventory_reserved")
           /\ type = "payment.authorized" => CanTransition(row.status, "payment_authorized")
           /\ type = "shipment.created" => CanTransition(row.status, "shipment_created")
           /\ type = "order.completed" => CanTransition(row.status, "completed")
           /\ type = "order.cancelled" => CanTransition(row.status, "cancelled")
           /\ type = "order.manual_review_required" => CanTransition(row.status, "manual_review")
  BY Zenon DEF Effect

(* The step whose transaction emits the event. *)
EmittingStep(type) ==
    CASE type = "inventory.reserved" -> "reserve"
      [] type = "inventory.rejected" -> "reject"
      [] type = "payment.authorized" -> "authorized"
      [] type = "payment.failed" -> "declined"
      [] type = "shipment.created" -> "shipped"
      [] type = "shipment.failed" -> "unshipped"
      [] type = "order.completed" -> "complete"
      [] type = "order.cancelled" -> "cancel"
      [] type = "order.manual_review_required" -> "review"

(* Run r commits the transaction that emits an event of this type. *)
Commits(r, type) ==
    /\ r.step = EmittingStep(type)
    /\ \E new : Effect(type, RowOf(r), new) /\ CommitOrder(r, new, type)

(* A step either leaves orders, outbox and compensations alone or is one of   *)
(* the API's two, a commit with its event, or a compensation.                 *)
LEMMA StepKinds ==
    ASSUME [Next]_vars
    PROVE  \/ UNCHANGED <<orders, outbox, compensations>>
           \/ \E o \in Orders : CreateOrder(o) \/ CancelOrder(o)
           \/ \E r \in runs : \E type \in HandlerEvents : Commits(r, type)
           \/ \E r \in runs : RecordCompensation(r)
  <1> DEFINE Goal == \/ UNCHANGED <<orders, outbox, compensations>>
                     \/ \E r \in runs : \E type \in HandlerEvents : Commits(r, type)
                     \/ \E r \in runs : RecordCompensation(r)
  <1>1. ASSUME NEW r \in runs, HandlerStep(r)
        PROVE  Goal
    <2>1. CASE \/ TransitionRefused(r) \/ InsufficientStock(r) \/ AuthorizePayment(r)
               \/ CreateShipment(r) \/ InspectShippedOrder(r)
               \/ InspectCancellingOrder(r) \/ RecordNotificationQueued(r)
      BY <2>1 DEF TransitionRefused, InsufficientStock, AuthorizePayment,
                  CreateShipment, InspectShippedOrder, InspectCancellingOrder,
                  RecordNotificationQueued
    <2>2. ASSUME NEW type \in HandlerEvents, NEW new, Effect(type, RowOf(r), new),
                 r.step = EmittingStep(type), CommitOrder(r, new, type)
          PROVE  Goal
      BY <2>2, Zenon DEF Commits
    <2>3. CASE RecordInventoryReserved(r)
      <3>1. Effect("inventory.reserved", RowOf(r), Reserved(RowOf(r)))
        BY <2>3 DEF RecordInventoryReserved, TransitionAllowed, TargetStatus, Effect
      <3> QED BY <2>2, <2>3, <3>1 DEF RecordInventoryReserved, EmittingStep,
                                      HandlerEvents, EventTypes
    <2>4. CASE RecordInventoryRejected(r)
      <3>1. Effect("inventory.rejected", RowOf(r), Rejected(RowOf(r)))
        BY DEF Effect
      <3> QED BY <2>2, <2>4, <3>1 DEF RecordInventoryRejected, EmittingStep,
                                      HandlerEvents, EventTypes
    <2>5. CASE RecordPaymentAuthorized(r)
      <3>1. Effect("payment.authorized", RowOf(r), Authorized(RowOf(r)))
        BY <2>5 DEF RecordPaymentAuthorized, TransitionAllowed, TargetStatus, Effect
      <3> QED BY <2>2, <2>5, <3>1 DEF RecordPaymentAuthorized, EmittingStep,
                                      HandlerEvents, EventTypes
    <2>6. CASE RecordPaymentFailed(r)
      <3>1. Effect("payment.failed", RowOf(r), PaymentFailed(RowOf(r)))
        BY DEF Effect
      <3> QED BY <2>2, <2>6, <3>1 DEF RecordPaymentFailed, EmittingStep,
                                      HandlerEvents, EventTypes
    <2>7. CASE RecordShipmentCreated(r)
      <3>1. Effect("shipment.created", RowOf(r), Shipped(RowOf(r)))
        BY <2>7 DEF RecordShipmentCreated, TransitionAllowed, TargetStatus, Effect
      <3> QED BY <2>2, <2>7, <3>1 DEF RecordShipmentCreated, EmittingStep,
                                      HandlerEvents, EventTypes
    <2>8. CASE RecordShipmentFailed(r)
      <3>1. Effect("shipment.failed", RowOf(r), RowOf(r))
        BY DEF Effect
      <3> QED BY <2>2, <2>8, <3>1 DEF RecordShipmentFailed, EmittingStep,
                                      HandlerEvents, EventTypes
    <2>9. CASE CompleteOrder(r)
      <3>1. Effect("order.completed", RowOf(r), WithStatus(RowOf(r), "completed"))
        BY <2>9 DEF CompleteOrder, TransitionAllowed, TargetStatus, Effect
      <3> QED BY <2>2, <2>9, <3>1 DEF CompleteOrder, EmittingStep,
                                      HandlerEvents, EventTypes
    <2>10. CASE RequireManualReview(r)
      <3>1. Effect("order.manual_review_required", RowOf(r),
                   WithStatus(RowOf(r), "manual_review"))
        BY <2>10 DEF RequireManualReview, TransitionAllowed, TargetStatus, Effect
      <3> QED BY <2>2, <2>10, <3>1 DEF RequireManualReview, EmittingStep,
                                       HandlerEvents, EventTypes
    <2>11. CASE RecordOrderCancelled(r)
      <3>1. Effect("order.cancelled", RowOf(r), Cancelled(RowOf(r)))
        BY <2>11 DEF RecordOrderCancelled, TransitionAllowed, TargetStatus, Effect
      <3> QED BY <2>2, <2>11, <3>1 DEF RecordOrderCancelled, EmittingStep,
                                       HandlerEvents, EventTypes
    <2> QED BY <1>1, <2>1, <2>3, <2>4, <2>5, <2>6, <2>7, <2>8, <2>9, <2>10, <2>11
            DEF HandlerStep
  <1>2. CASE UNCHANGED vars
    BY <1>2 DEF vars
  <1>3. ASSUME NEW q \in Queues, NEW m \in DOMAIN outbox, Deliver(q, m) \/ Replay(q, m)
        PROVE  Goal
    BY <1>3 DEF Deliver, Replay, StartRun
  <1>4. ASSUME NEW r \in runs, Crash(r) \/ DatabaseError(r)
        PROVE  Goal
    BY <1>4 DEF Crash, DatabaseError
  <1> QED BY <1>1, <1>2, <1>3, <1>4 DEF Next

(* The fields of the row that RecordOrderCancelled writes. *)
LEMMA CancelledFields ==
    ASSUME NEW row \in OrderRow
    PROVE  LET new == Cancelled(row)
           IN  /\ new \in OrderRow
               /\ new.status = "cancelled"
               /\ row.items = "reserved" => new.items = "released"
               /\ row.items # "reserved" => new.items = row.items
               /\ row.reservation = "reserved" => new.reservation = "released"
               /\ row.reservation # "reserved" => new.reservation = row.reservation
               /\ row.payment = "authorized" => new.payment = "voided"
               /\ row.payment # "authorized" => new.payment = row.payment
               /\ row.authorization = "authorized" => new.authorization = "voided"
               /\ row.authorization # "authorized" => new.authorization = row.authorization
               /\ new.shipment = row.shipment
  <1> DEFINE moved == WithStatus(row, "cancelled")
             released == ReleaseReservedStock(moved)
  <1>1. /\ moved \in OrderRow
        /\ moved.status = "cancelled"
        /\ moved.items = row.items
        /\ moved.reservation = row.reservation
        /\ moved.payment = row.payment
        /\ moved.authorization = row.authorization
        /\ moved.shipment = row.shipment
    BY StatusEffect DEF Statuses
  <1> HIDE DEF moved
  <1>2. /\ released \in OrderRow
        /\ released.status = "cancelled"
        /\ row.items = "reserved" => released.items = "released"
        /\ row.items # "reserved" => released.items = row.items
        /\ row.reservation = "reserved" => released.reservation = "released"
        /\ row.reservation # "reserved" => released.reservation = row.reservation
        /\ released.payment = row.payment
        /\ released.authorization = row.authorization
        /\ released.shipment = row.shipment
    BY <1>1, ReleaseEffect
  <1> HIDE DEF released
  <1>3. Cancelled(row) = VoidAuthorizedPayment(released)
    BY DEF Cancelled, released, moved
  <1> QED BY <1>2, <1>3, VoidEffect

(* The row that RecordCompensation writes. *)
CompensationWrites(type, row, new) ==
    /\ new \in OrderRow
    /\ new.status = CompensationTarget(type)
    /\ type # "inventory.rejected" /\ row.items = "reserved" => new.items = "released"
    /\ type = "inventory.rejected" \/ row.items # "reserved" => new.items = row.items
    /\ type # "inventory.rejected" /\ row.reservation = "reserved"
          => new.reservation = "released"
    /\ type = "inventory.rejected" \/ row.reservation # "reserved"
          => new.reservation = row.reservation
    /\ type = "shipment.failed" /\ row.payment = "authorized" => new.payment = "voided"
    /\ type # "shipment.failed" \/ row.payment # "authorized" => new.payment = row.payment
    /\ type = "shipment.failed" /\ row.authorization = "authorized"
          => new.authorization = "voided"
    /\ type # "shipment.failed" \/ row.authorization # "authorized"
          => new.authorization = row.authorization
    /\ new.shipment = row.shipment

(* RecordCompensation frees what the failure leaves behind, and no more. *)
LEMMA CompensatedFields ==
    ASSUME NEW row \in OrderRow, NEW type \in RoutingKeys("orders.compensate")
    PROVE  CompensationWrites(type, row, Compensated(row, type))
  <1>0. type \in {"inventory.rejected", "payment.failed", "shipment.failed"}
    BY DEF RoutingKeys
  <1> DEFINE moved == WithStatus(row, CompensationTarget(type))
             released == ReleaseReservedStock(moved)
             voided == VoidAuthorizedPayment(released)
  <1>1. /\ moved \in OrderRow
        /\ moved.status = CompensationTarget(type)
        /\ moved.items = row.items
        /\ moved.reservation = row.reservation
        /\ moved.payment = row.payment
        /\ moved.authorization = row.authorization
        /\ moved.shipment = row.shipment
    BY <1>0, StatusEffect DEF Statuses, CompensationTarget
  <1> HIDE DEF moved
  <1>2. /\ released \in OrderRow
        /\ released.status = CompensationTarget(type)
        /\ row.items = "reserved" => released.items = "released"
        /\ row.items # "reserved" => released.items = row.items
        /\ row.reservation = "reserved" => released.reservation = "released"
        /\ row.reservation # "reserved" => released.reservation = row.reservation
        /\ released.payment = row.payment
        /\ released.authorization = row.authorization
        /\ released.shipment = row.shipment
    BY <1>1, ReleaseEffect
  <1> HIDE DEF released
  <1>3. /\ voided \in OrderRow
        /\ voided.status = CompensationTarget(type)
        /\ voided.items = released.items
        /\ voided.reservation = released.reservation
        /\ row.payment = "authorized" => voided.payment = "voided"
        /\ row.payment # "authorized" => voided.payment = row.payment
        /\ row.authorization = "authorized" => voided.authorization = "voided"
        /\ row.authorization # "authorized" => voided.authorization = row.authorization
        /\ voided.shipment = row.shipment
    BY <1>2, VoidEffect
  <1> HIDE DEF voided
  <1>4. /\ type = "inventory.rejected" => Compensated(row, type) = moved
        /\ type = "payment.failed" => Compensated(row, type) = released
        /\ type = "shipment.failed" => Compensated(row, type) = voided
    BY DEF Compensated, voided, released, moved
  <1>5. CASE type = "inventory.rejected"
    BY <1>1, <1>4, <1>5 DEF CompensationWrites
  <1>6. CASE type = "payment.failed"
    BY <1>2, <1>4, <1>6 DEF CompensationWrites
  <1>7. CASE type = "shipment.failed"
    BY <1>2, <1>3, <1>4, <1>7 DEF CompensationWrites
  <1> QED BY <1>0, <1>5, <1>6, <1>7

(* The row that the transaction of an event writes. *)
EffectWrites(type, row, new) ==
    /\ type \in HandlerEvents
    /\ new \in OrderRow
    /\ \/ /\ type \in {"inventory.rejected", "payment.failed", "shipment.failed"}
          /\ new.status = row.status
       \/ /\ CanTransition(row.status, new.status)
          /\ \/ type = "inventory.reserved" /\ new.status = "inventory_reserved"
             \/ type = "payment.authorized" /\ new.status = "payment_authorized"
             \/ type = "shipment.created" /\ new.status = "shipment_created"
             \/ type = "order.completed" /\ new.status = "completed"
             \/ type = "order.cancelled" /\ new.status = "cancelled"
             \/ type = "order.manual_review_required" /\ new.status = "manual_review"
    /\ CASE type = "inventory.reserved" -> new.items = "reserved"
         [] type = "inventory.rejected" -> new.items = "rejected"
         [] type = "order.cancelled" /\ row.items = "reserved" -> new.items = "released"
         [] OTHER -> new.items = row.items
    /\ CASE type = "inventory.reserved" -> new.reservation = "reserved"
         [] type = "order.cancelled" /\ row.reservation = "reserved"
               -> new.reservation = "released"
         [] OTHER -> new.reservation = row.reservation
    /\ CASE type = "payment.authorized" -> new.payment = "authorized"
         [] type = "payment.failed" -> new.payment = "failed"
         [] type = "order.cancelled" /\ row.payment = "authorized" -> new.payment = "voided"
         [] OTHER -> new.payment = row.payment
    /\ CASE type = "payment.authorized" -> new.authorization = "authorized"
         [] type = "order.cancelled" /\ row.authorization = "authorized"
               -> new.authorization = "voided"
         [] OTHER -> new.authorization = row.authorization
    /\ IF type = "shipment.created" THEN new.shipment = "created"
                                    ELSE new.shipment = row.shipment

(* The effect of a transaction, field by field. *)
LEMMA EffectFields ==
    ASSUME NEW row \in OrderRow, NEW type, NEW new, Effect(type, row, new)
    PROVE  EffectWrites(type, row, new)
  <1>1. CASE type = "inventory.reserved"
    <2>1. /\ CanTransition(row.status, "inventory_reserved")
          /\ new = Reserved(row)
      BY <1>1 DEF Effect
    <2>2. /\ new \in OrderRow
          /\ new.status = "inventory_reserved"
          /\ new.items = "reserved"
          /\ new.reservation = "reserved"
          /\ new.payment = row.payment
          /\ new.authorization = row.authorization
          /\ new.shipment = row.shipment
      BY <2>1, Zenon DEF Reserved, OrderRow, Statuses
    <2> QED BY <1>1, <2>1, <2>2 DEF EffectWrites, HandlerEvents, EventTypes
  <1>2. CASE type = "inventory.rejected"
    <2>1. new = Rejected(row)
      BY <1>2 DEF Effect
    <2>2. /\ new \in OrderRow
          /\ new.status = row.status
          /\ new.items = "rejected"
          /\ new.reservation = row.reservation
          /\ new.payment = row.payment
          /\ new.authorization = row.authorization
          /\ new.shipment = row.shipment
      BY <2>1, Zenon DEF Rejected, OrderRow
    <2> QED BY <1>2, <2>2 DEF EffectWrites, HandlerEvents, EventTypes
  <1>3. CASE type = "payment.authorized"
    <2>1. /\ CanTransition(row.status, "payment_authorized")
          /\ new = Authorized(row)
      BY <1>3 DEF Effect
    <2>2. /\ new \in OrderRow
          /\ new.status = "payment_authorized"
          /\ new.items = row.items
          /\ new.reservation = row.reservation
          /\ new.payment = "authorized"
          /\ new.authorization = "authorized"
          /\ new.shipment = row.shipment
      BY <2>1, Zenon DEF Authorized, OrderRow, Statuses
    <2> QED BY <1>3, <2>1, <2>2 DEF EffectWrites, HandlerEvents, EventTypes
  <1>4. CASE type = "payment.failed"
    <2>1. new = PaymentFailed(row)
      BY <1>4 DEF Effect
    <2>2. /\ new \in OrderRow
          /\ new.status = row.status
          /\ new.items = row.items
          /\ new.reservation = row.reservation
          /\ new.payment = "failed"
          /\ new.authorization = row.authorization
          /\ new.shipment = row.shipment
      BY <2>1, Zenon DEF PaymentFailed, OrderRow
    <2> QED BY <1>4, <2>2 DEF EffectWrites, HandlerEvents, EventTypes
  <1>5. CASE type = "shipment.created"
    <2>1. /\ CanTransition(row.status, "shipment_created")
          /\ new = Shipped(row)
      BY <1>5 DEF Effect
    <2>2. /\ new \in OrderRow
          /\ new.status = "shipment_created"
          /\ new.items = row.items
          /\ new.reservation = row.reservation
          /\ new.payment = row.payment
          /\ new.authorization = row.authorization
          /\ new.shipment = "created"
      BY <2>1, Zenon DEF Shipped, OrderRow, Statuses
    <2> QED BY <1>5, <2>1, <2>2 DEF EffectWrites, HandlerEvents, EventTypes
  <1>6. CASE type = "shipment.failed"
    <2>1. new = row
      BY <1>6 DEF Effect
    <2> QED BY <1>6, <2>1 DEF EffectWrites, HandlerEvents, EventTypes
  <1>7. CASE type = "order.completed"
    <2>1. /\ CanTransition(row.status, "completed")
          /\ new = WithStatus(row, "completed")
      BY <1>7 DEF Effect
    <2> QED BY <1>7, <2>1, StatusEffect
            DEF EffectWrites, HandlerEvents, EventTypes, Statuses
  <1>8. CASE type = "order.cancelled"
    <2>1. /\ CanTransition(row.status, "cancelled")
          /\ new = Cancelled(row)
      BY <1>8 DEF Effect
    <2> QED BY <1>8, <2>1, CancelledFields DEF EffectWrites, HandlerEvents, EventTypes
  <1>9. CASE type = "order.manual_review_required"
    <2>1. /\ CanTransition(row.status, "manual_review")
          /\ new = WithStatus(row, "manual_review")
      BY <1>9 DEF Effect
    <2> QED BY <1>9, <2>1, StatusEffect
            DEF EffectWrites, HandlerEvents, EventTypes, Statuses
  <1> QED BY <1>1, <1>2, <1>3, <1>4, <1>5, <1>6, <1>7, <1>8, <1>9 DEF Effect

(* The event types emitted for an order, and the part of the row they tell. *)
Told(o) == {type \in EventTypes : Emitted(o, type)}

RowTold(row, told) ==
    /\ "order.created" \in told <=> row.status # "absent"
    /\ "inventory.reserved" \in told <=> row.reservation # "none"
    /\ "payment.authorized" \in told <=> row.authorization # "none"
    /\ "shipment.created" \in told <=> row.shipment = "created"
    /\ "order.completed" \in told <=> row.status = "completed"
    /\ "order.manual_review_required" \in told <=> row.status = "manual_review"
    /\ "order.cancelled" \in told => row.status = "cancelled"
    /\ "order.cancel_requested" \in told => row.status \in CancelStatuses

(* OutboxMatchesOrders, and CancelInv of the orders, row by row. *)
LEMMA RowsAreTold ==
    (\A o \in Orders : RowTold(orders[o], Told(o)))
       <=> /\ OutboxMatchesOrders
           /\ \A o \in Orders : Emitted(o, "order.cancel_requested")
                                  => orders[o].status \in CancelStatuses
  <1>1. ASSUME NEW o \in Orders
        PROVE  RowTold(orders[o], Told(o))
                 <=> LET row == orders[o] IN
                     /\ Emitted(o, "order.created") <=> row.status # "absent"
                     /\ Emitted(o, "inventory.reserved") <=> row.reservation # "none"
                     /\ Emitted(o, "payment.authorized") <=> row.authorization # "none"
                     /\ Emitted(o, "shipment.created") <=> row.shipment = "created"
                     /\ Emitted(o, "order.completed") <=> row.status = "completed"
                     /\ Emitted(o, "order.manual_review_required")
                           <=> row.status = "manual_review"
                     /\ Emitted(o, "order.cancelled") => row.status = "cancelled"
                     /\ Emitted(o, "order.cancel_requested")
                           => row.status \in CancelStatuses
    BY DEF RowTold, Told, EventTypes
  <1> QED BY <1>1, Zenon DEF OutboxMatchesOrders

(* insertOutboxEvent appends one event. *)
LEMMA EmitAppends ==
    ASSUME outbox \in Seq(OutboxEvent), NEW type, NEW o, NEW cause, Emit(type, o, cause)
    PROVE  LET n == Len(outbox) + 1
           IN  /\ n \notin DOMAIN outbox
               /\ DOMAIN outbox' = DOMAIN outbox \cup {n}
               /\ \A m \in DOMAIN outbox : outbox'[m] = outbox[m]
               /\ outbox'[n].type = type
               /\ outbox'[n].order = o
               /\ outbox'[n].cause = cause
  <1> DEFINE e == [type |-> type, order |-> o, cause |-> cause]
  <1>1. outbox' = Append(outbox, e)
    BY DEF Emit
  <1>2. e.type = type /\ e.order = o /\ e.cause = cause
    OBVIOUS
  <1> HIDE DEF e
  <1> QED BY <1>1, <1>2

(* It tells its type of its order, and nothing else. *)
LEMMA EmitTells ==
    ASSUME outbox \in Seq(OutboxEvent), NEW type \in EventTypes, NEW o, NEW cause,
           Emit(type, o, cause), NEW p
    PROVE  Told(p)' = IF p = o THEN Told(p) \cup {type} ELSE Told(p)
  <1> DEFINE n == Len(outbox) + 1
  <1>1. /\ n \notin DOMAIN outbox
        /\ DOMAIN outbox' = DOMAIN outbox \cup {n}
        /\ \A m \in DOMAIN outbox : outbox'[m] = outbox[m]
        /\ outbox'[n].type = type
        /\ outbox'[n].order = o
    BY EmitAppends, Zenon
  <1> HIDE DEF n
  <1>2. \A t : Emitted(p, t)' <=> Emitted(p, t) \/ (p = o /\ t = type)
    BY <1>1, Zenon DEF Emitted
  <1> QED BY <1>2 DEF Told

(* A transaction and its event keep the row and its events in agreement. *)
LEMMA EffectIsTold ==
    ASSUME NEW row \in OrderRow, RowConsistent(row), NEW told, RowTold(row, told),
           NEW type, NEW new, Effect(type, row, new)
    PROVE  RowTold(new, told \cup {type})
  <1>1. EffectWrites(type, row, new)
    BY EffectFields
  <1>2. new.status = row.status \/ CanTransition(row.status, new.status)
    BY <1>1 DEF EffectWrites
  <1>3. /\ "order.created" \in told \cup {type} <=> new.status # "absent"
        /\ "order.completed" \in told \cup {type} <=> new.status = "completed"
        /\ "order.manual_review_required" \in told \cup {type}
              <=> new.status = "manual_review"
        /\ "order.cancelled" \in told \cup {type} => new.status = "cancelled"
        /\ "order.cancel_requested" \in told \cup {type}
              => new.status \in CancelStatuses
    BY <1>1 DEF EffectWrites, RowTold, CancelStatuses, HandlerEvents, EventTypes
  <1>4. "inventory.reserved" \in told \cup {type} <=> new.reservation # "none"
    BY <1>1 DEF EffectWrites, RowTold
  <1>5. "payment.authorized" \in told \cup {type} <=> new.authorization # "none"
    BY <1>1 DEF EffectWrites, RowTold
  <1>6. "shipment.created" \in told \cup {type} <=> new.shipment = "created"
    BY <1>1 DEF EffectWrites, RowTold
  <1> QED BY <1>3, <1>4, <1>5, <1>6 DEF RowTold

(* A compensation emits nothing and changes nothing an event has told. *)
LEMMA CompensationIsTold ==
    ASSUME NEW row \in OrderRow, RowConsistent(row), NEW told, RowTold(row, told),
           NEW type \in RoutingKeys("orders.compensate"),
           CanTransition(row.status, CompensationTarget(type))
    PROVE  RowTold(Compensated(row, type), told)
  <1> DEFINE new == Compensated(row, type)
  <1>1. CompensationWrites(type, row, new)
    BY CompensatedFields
  <1> HIDE DEF new
  <1>2. /\ new.status = row.status \/ CanTransition(row.status, new.status)
        /\ new.status \in {"failed", "cancelled", "cancellation_pending"}
    BY <1>1 DEF CompensationWrites, CompensationTarget, RoutingKeys
  <1>3. /\ new.reservation # "none" <=> row.reservation # "none"
        /\ new.authorization # "none" <=> row.authorization # "none"
        /\ new.shipment = row.shipment
    BY <1>1 DEF CompensationWrites
  <1>4. RowTold(new, told)
    BY <1>2, <1>3 DEF RowTold, CancelStatuses
  <1> QED BY <1>4 DEF new

(* What a commit does to the outbox and to the rows. *)
LEMMA CommitEffect ==
    ASSUME IInv, NEW r \in runs, NEW type \in HandlerEvents, Commits(r, type)
    PROVE  /\ OrderOf(r) \in Orders
           /\ type \in EventTypes
           /\ Emit(type, OrderOf(r), r.msg)
           /\ Effect(type, RowOf(r), orders'[OrderOf(r)])
           /\ \A p \in Orders \ {OrderOf(r)} : orders'[p] = orders[p]
           /\ TransactionEnds(r)
           /\ compensations' = compensations
           /\ r.step = EmittingStep(type)
  <1>1. PICK new : Effect(type, RowOf(r), new) /\ CommitOrder(r, new, type)
    BY Zenon DEF Commits
  <1>2. OrderOf(r) \in Orders /\ orders \in [Orders -> OrderRow]
    BY RunRow DEF IInv, TypeOK
  <1>3. orders' = [orders EXCEPT ![OrderOf(r)] = new]
    BY <1>1 DEF CommitOrder
  <1>4. /\ orders'[OrderOf(r)] = new
        /\ \A p \in Orders \ {OrderOf(r)} : orders'[p] = orders[p]
    BY <1>2, <1>3
  <1>5. /\ Emit(type, OrderOf(r), r.msg)
        /\ TransactionEnds(r)
        /\ compensations' = compensations
    BY <1>1, Zenon DEF CommitOrder
  <1>6. r.step = EmittingStep(type)
    BY Zenon DEF Commits
  <1> QED BY <1>1, <1>2, <1>4, <1>5, <1>6, Zenon DEF HandlerEvents

(* What a compensation does to the rows. *)
LEMMA CompensationEffect ==
    ASSUME IInv, NEW r \in runs, RecordCompensation(r)
    PROVE  LET type == outbox[r.msg].type
           IN  /\ OrderOf(r) \in Orders
               /\ type \in RoutingKeys("orders.compensate")
               /\ CanTransition(RowOf(r).status, CompensationTarget(type))
               /\ orders'[OrderOf(r)] = Compensated(RowOf(r), type)
               /\ \A p \in Orders \ {OrderOf(r)} : orders'[p] = orders[p]
               /\ compensations' = compensations \cup {r.msg}
               /\ TransactionEnds(r)
               /\ outbox' = outbox
  <1>1. /\ OrderOf(r) \in Orders
        /\ orders \in [Orders -> OrderRow]
        /\ RunConsistent(r)
    BY RunRow DEF IInv, TypeOK
  <1>2. /\ r.step = "compensate"
        /\ CanTransition(RowOf(r).status, CompensationTarget(outbox[r.msg].type))
        /\ orders' = [orders EXCEPT ![OrderOf(r)] = Compensated(RowOf(r), outbox[r.msg].type)]
        /\ compensations' = compensations \cup {r.msg}
        /\ TransactionEnds(r)
        /\ outbox' = outbox
    BY DEF RecordCompensation, TransitionAllowed, TargetStatus
  <1>3. outbox[r.msg].type \in RoutingKeys("orders.compensate")
    BY <1>1, <1>2, SMTT(30) DEF RunConsistent, StepQueue
  <1> QED BY <1>1, <1>2, <1>3

(* What the API's two operations do to the rows and the outbox. *)
LEMMA ApiEffect ==
    ASSUME IInv, NEW o \in Orders, CreateOrder(o) \/ CancelOrder(o)
    PROVE  /\ \/ /\ Accepted(o)
                 /\ Emit("order.created", o, 0)
              \/ /\ CanTransition(orders[o].status, "cancellation_pending")
                 /\ orders'[o] = WithStatus(orders[o], "cancellation_pending")
                 /\ Emit("order.cancel_requested", o, 0)
           /\ \A p \in Orders \ {o} : orders'[p] = orders[p]
           /\ UNCHANGED <<runs, inbox, attempts, compensations, booked, faults>>
  <1>1. orders \in [Orders -> OrderRow]
    BY DEF IInv, TypeOK
  <1> QED BY <1>1 DEF CreateOrder, CancelOrder, Accepted

RowsTold == \A o \in Orders : RowTold(orders[o], Told(o))

(* Every step keeps the rows and the outbox telling the same story. *)
LEMMA StepKeepsRowsTold ==
    ASSUME IInv, [Next]_vars, RowsTold
    PROVE  RowsTold'
  <1>0. /\ outbox \in Seq(OutboxEvent)
        /\ \A o \in Orders : orders[o] \in OrderRow /\ RowConsistent(orders[o])
    BY DEF IInv, TypeOK, RowsInv
  <1>1. CASE UNCHANGED <<orders, outbox, compensations>>
    BY <1>1 DEF RowsTold, Told, Emitted, RowTold
  <1>2. ASSUME NEW o \in Orders, CreateOrder(o) \/ CancelOrder(o)
        PROVE  RowsTold'
    <2>1. ASSUME NEW p \in Orders \ {o}
          PROVE  RowTold(orders'[p], Told(p)')
      <3>1. orders'[p] = orders[p]
        BY <1>2, ApiEffect
      <3>2. Told(p)' = Told(p)
        BY <1>0, <1>2, <2>1, ApiEffect, EmitTells, SMTT(30) DEF EventTypes
      <3> QED BY <3>1, <3>2 DEF RowsTold
    <2>2. CASE Accepted(o) /\ Emit("order.created", o, 0)
      <3>1. Told(o)' = Told(o) \cup {"order.created"}
        BY <1>0, <2>2, EmitTells DEF EventTypes
      <3>2. orders'[o].status = "pending_fulfillment" /\ orders'[o].reservation = "none"
            /\ orders'[o].authorization = "none" /\ orders'[o].shipment = "none"
        BY <2>2 DEF Accepted, WithStatus, NoOrder
      <3>3. /\ orders[o].status = "absent"
            /\ orders[o].reservation = "none"
            /\ orders[o].authorization = "none"
            /\ orders[o].shipment = "none"
        BY <1>0, <2>2 DEF Accepted, RowConsistent, StockConsistent,
           AuthorizationConsistent, ShipmentConsistent
      <3>4. RowTold(orders[o], Told(o))
        BY DEF RowsTold
      <3>5. RowTold(orders'[o], Told(o)')
        BY <3>1, <3>2, <3>3, <3>4 DEF RowTold, CancelStatuses
      <3> QED BY <2>1, <3>5 DEF RowsTold
    <2>3. CASE /\ CanTransition(orders[o].status, "cancellation_pending")
               /\ orders'[o] = WithStatus(orders[o], "cancellation_pending")
               /\ Emit("order.cancel_requested", o, 0)
      <3>1. Told(o)' = Told(o) \cup {"order.cancel_requested"}
        BY <1>0, <2>3, EmitTells DEF EventTypes
      <3>2. /\ orders'[o].status = "cancellation_pending"
            /\ orders'[o].reservation = orders[o].reservation
            /\ orders'[o].authorization = orders[o].authorization
            /\ orders'[o].shipment = orders[o].shipment
        BY <1>0, <2>3, StatusEffect DEF Statuses
      <3>3. RowTold(orders[o], Told(o))
        BY DEF RowsTold
      <3>4. RowTold(orders'[o], Told(o)')
        BY <2>3, <3>1, <3>2, <3>3 DEF RowTold, CancelStatuses
      <3> QED BY <2>1, <3>4 DEF RowsTold
    <2> QED BY <1>2, <2>2, <2>3, ApiEffect
  <1>3. ASSUME NEW r \in runs, NEW type \in HandlerEvents, Commits(r, type)
        PROVE  RowsTold'
    <2>1. /\ OrderOf(r) \in Orders
          /\ type \in EventTypes
          /\ Emit(type, OrderOf(r), r.msg)
          /\ Effect(type, orders[OrderOf(r)], orders'[OrderOf(r)])
          /\ \A p \in Orders \ {OrderOf(r)} : orders'[p] = orders[p]
      BY <1>3, CommitEffect DEF RowOf
    <2>2. \A p \in Orders :
             Told(p)' = IF p = OrderOf(r) THEN Told(p) \cup {type} ELSE Told(p)
      BY <1>0, <2>1, EmitTells
    <2>3. RowTold(orders'[OrderOf(r)], Told(OrderOf(r)) \cup {type})
      BY <1>0, <2>1, EffectIsTold DEF RowsTold
    <2> QED BY <2>1, <2>2, <2>3 DEF RowsTold
  <1>4. ASSUME NEW r \in runs, RecordCompensation(r)
        PROVE  RowsTold'
    <2> DEFINE type == outbox[r.msg].type
    <2>1. /\ OrderOf(r) \in Orders
          /\ type \in RoutingKeys("orders.compensate")
          /\ CanTransition(orders[OrderOf(r)].status, CompensationTarget(type))
          /\ orders'[OrderOf(r)] = Compensated(orders[OrderOf(r)], type)
          /\ \A p \in Orders \ {OrderOf(r)} : orders'[p] = orders[p]
          /\ outbox' = outbox
      BY <1>4, CompensationEffect DEF RowOf
    <2>2. \A p \in Orders : Told(p)' = Told(p)
      BY <2>1 DEF Told, Emitted
    <2>3. RowTold(orders'[OrderOf(r)], Told(OrderOf(r)))
      <3>1. /\ orders[OrderOf(r)] \in OrderRow /\ RowConsistent(orders[OrderOf(r)])
            /\ RowTold(orders[OrderOf(r)], Told(OrderOf(r)))
        BY <1>0, <2>1, Zenon DEF RowsTold, IInv, TypeOK, RowsInv
      <3> HIDE DEF type
      <3>2. RowTold(Compensated(orders[OrderOf(r)], type), Told(OrderOf(r)))
        BY <2>1, <3>1, CompensationIsTold, SMTT(30)
      <3> QED BY <2>1, <3>2, Zenon
    <2> QED BY <2>1, <2>2, <2>3 DEF RowsTold
  <1> QED BY <1>1, <1>2, <1>3, <1>4, StepKinds

(* A row move out of a cancelled or failed order's status, and the rows that  *)
(* a step leaves to such an order.                                           *)
LEMMA EndedRowMoves ==
    ASSUME IInv, RowsMove, NEW o \in Orders,
           orders[o].status \in CancelStatuses \cup {"failed"}
    PROVE  /\ orders[o].status = "failed" => orders'[o].status = "failed"
           /\ orders[o].status = "cancelled" => orders'[o].status = "cancelled"
           /\ orders[o].status \in CancelStatuses => orders'[o].status \in CancelStatuses
           /\ orders[o].reservation # "reserved" => orders'[o].reservation # "reserved"
           /\ orders[o].authorization # "authorized"
                 => orders'[o].authorization # "authorized"
           /\ orders[o].shipment # "created" => orders'[o].shipment # "created"
  <1>1. RowMove(orders[o], orders'[o])
    BY DEF RowsMove, Accepted, CancelStatuses
  <1>2. /\ orders[o].status = "failed" => orders'[o].status = "failed"
        /\ orders[o].status = "cancelled" => orders'[o].status = "cancelled"
        /\ orders[o].status \in CancelStatuses => orders'[o].status \in CancelStatuses
    BY <1>1 DEF RowMove, CancelStatuses
  <1> QED BY <1>1, <1>2 DEF RowMove, CancelStatuses

(* Every step keeps what the compensations say. *)
LEMMA StepKeepsCompensations ==
    ASSUME IInv, [Next]_vars, \A m \in compensations : CompensationHolds(m)
    PROVE  \A m \in compensations' : CompensationHolds(m)'
  <1>0. RowsMove /\ OutboxMoves
    BY StepMovesRows, StepMovesOutbox
  <1>1. ASSUME NEW m \in compensations
        PROVE  CompensationHolds(m)'
    <2> DEFINE o == outbox[m].order
    <2>1. m \in DOMAIN outbox /\ outbox[m] \in OutboxEvent
      BY DEF IInv, TypeOK
    <2>2. o \in Orders /\ outbox'[m] = outbox[m]
      BY <1>0, <2>1 DEF OutboxMoves, OutboxEvent
    <2>3. CompensationHolds(m)
      OBVIOUS
    <2>4. outbox[m].type \in {"inventory.rejected", "payment.failed", "shipment.failed"}
      BY <2>3 DEF CompensationHolds, RoutingKeys
    <2>5. orders[o].status \in CancelStatuses \cup {"failed"}
      BY <2>3, <2>4 DEF CompensationHolds, CancelStatuses
    <2>6. /\ orders[o].status = "failed" => orders'[o].status = "failed"
          /\ orders[o].status = "cancelled" => orders'[o].status = "cancelled"
          /\ orders[o].status \in CancelStatuses => orders'[o].status \in CancelStatuses
          /\ orders[o].reservation # "reserved" => orders'[o].reservation # "reserved"
          /\ orders[o].authorization # "authorized"
                => orders'[o].authorization # "authorized"
      BY <1>0, <2>2, <2>5, EndedRowMoves
    <2> QED BY <2>2, <2>3, <2>6 DEF CompensationHolds
  <1>2. CASE compensations' = compensations
    BY <1>1, <1>2
  <1>3. ASSUME NEW r \in runs, RecordCompensation(r)
        PROVE  \A m \in compensations' : CompensationHolds(m)'
    <2> DEFINE type == outbox[r.msg].type
               o == OrderOf(r)
    <2>1. /\ o \in Orders
          /\ type \in RoutingKeys("orders.compensate")
          /\ orders'[o] = Compensated(RowOf(r), type)
          /\ compensations' = compensations \cup {r.msg}
          /\ outbox' = outbox
      BY <1>3, CompensationEffect
    <2>2. CompensationWrites(type, RowOf(r), orders'[o])
      BY <2>1, RunRow, CompensatedFields
    <2>3. type \in {"inventory.rejected", "payment.failed", "shipment.failed"}
      BY <2>1 DEF RoutingKeys
    <2>4. RowConsistent(orders'[o])
      <3>1. RowsMove /\ orders'[o].status # "absent"
        BY <1>0, <2>2, <2>3 DEF CompensationWrites, CompensationTarget
      <3>2. RowMove(orders[o], orders'[o]) \/ orders'[o].status = "pending_fulfillment"
        BY <2>1, <3>1 DEF RowsMove, Accepted, WithStatus, NoOrder
      <3>3. orders'[o].status # "pending_fulfillment"
        BY <2>2, <2>3 DEF CompensationWrites, CompensationTarget
      <3> QED BY <3>2, <3>3 DEF RowMove
    <2>5. orders'[o].reservation # "reserved"
      BY <2>2, <2>3, <2>4 DEF CompensationWrites, CompensationTarget, RowConsistent,
         StockConsistent
    <2>6. /\ type = "inventory.rejected" => orders'[o].status = "failed"
          /\ type = "payment.failed" => orders'[o].status = "cancelled"
          /\ type = "shipment.failed" => /\ orders'[o].status \in CancelStatuses
                                         /\ orders'[o].authorization # "authorized"
      BY <2>2 DEF CompensationWrites, CompensationTarget, CancelStatuses
    <2>7. CompensationHolds(r.msg)'
      BY <2>1, <2>5, <2>6 DEF CompensationHolds, OrderOf
    <2> QED BY <1>1, <2>1, <2>7
  <1>4. ASSUME NEW r \in runs, NEW type \in HandlerEvents, Commits(r, type)
        PROVE  compensations' = compensations
    BY <1>4, CommitEffect
  <1>5. ASSUME NEW o \in Orders, CreateOrder(o) \/ CancelOrder(o)
        PROVE  compensations' = compensations
    BY <1>5 DEF CreateOrder, CancelOrder
  <1> QED BY <1>2, <1>3, <1>4, <1>5, StepKinds, Zenon

(* What a "cancel" run has read stays true. *)
LEMMA StepKeepsCancelRuns ==
    ASSUME IInv, [Next]_vars, CancelInv
    PROVE  \A r \in runs' : r.step = "cancel" => RowOf(r)'.shipment = "none"
  <1>0. RowsMove /\ OutboxMoves /\ RunsMove
    BY StepMovesRows, StepMovesOutbox, StepMovesRuns
  <1>1. ASSUME NEW r \in runs, StepQueue(r.step) = "orders.cancel",
               RowOf(r).shipment # "created"
        PROVE  orders'[OrderOf(r)].shipment = "none" /\ OrderOf(r)' = OrderOf(r)
    <2>1. /\ r.msg \in DOMAIN outbox
          /\ OrderOf(r) \in Orders
          /\ r.queue = "orders.cancel"
          /\ outbox[r.msg].type \in RoutingKeys(r.queue)
      BY <1>1, RunRow DEF RunConsistent
    <2>2. Emitted(OrderOf(r), "order.cancel_requested")
      BY <2>1 DEF Emitted, OrderOf, RoutingKeys
    <2>3. orders[OrderOf(r)].status \in CancelStatuses
      BY <2>1, <2>2 DEF CancelInv
    <2>4. orders'[OrderOf(r)].shipment # "created"
      BY <1>0, <1>1, <2>1, <2>3, EndedRowMoves DEF RowOf
    <2>5. orders'[OrderOf(r)] \in OrderRow
      BY <1>0, <2>1 DEF RowsMove
    <2>6. OrderOf(r)' = OrderOf(r)
      BY <1>0, <2>1 DEF OrderOf, OutboxMoves
    <2> QED BY <2>4, <2>5, <2>6 DEF OrderRow
  <1>2. ASSUME NEW r \in runs, r.step = "cancel"
        PROVE  RowOf(r)'.shipment = "none"
    <2>1. RowOf(r).shipment = "none"
      BY <1>2 DEF CancelInv
    <2> QED BY <1>1, <1>2, <2>1 DEF RowOf, StepQueue
  <1>3. CASE runs' \subseteq runs
    BY <1>2, <1>3
  <1>4. ASSUME NEW r \in runs, NEW step \in Steps, Continue(r, step),
               StepQueue(step) = StepQueue(r.step),
               step = "cancel" => RowOf(r).shipment # "created"
        PROVE  \A x \in runs' : x.step = "cancel" => RowOf(x)'.shipment = "none"
    <2> DEFINE s == [r EXCEPT !.step = step]
    <2>1. runs' = (runs \ {r}) \cup {s}
      BY <1>4 DEF Continue
    <2>2. s.msg = r.msg /\ s.step = step
      BY RunRow, Zenon DEF Run
    <2> HIDE DEF s
    <2>3. s.step = "cancel" => RowOf(s)'.shipment = "none"
      <3>1. ASSUME step = "cancel"
            PROVE  orders'[OrderOf(r)].shipment = "none" /\ OrderOf(r)' = OrderOf(r)
        BY <1>1, <1>4, <3>1, Zenon DEF StepQueue
      <3> QED BY <2>2, <3>1 DEF RowOf, OrderOf
    <2> QED BY <1>2, <2>1, <2>3
  <1>5. ASSUME NEW q \in Queues, NEW m \in DOMAIN outbox, StartRun(q, m)
        PROVE  \A x \in runs' : x.step = "cancel" => RowOf(x)'.shipment = "none"
    <2>1. runs' = runs \cup {[queue |-> q, msg |-> m, step |-> FirstStep(q)]}
      BY <1>5 DEF StartRun
    <2>2. FirstStep(q) # "cancel"
      BY DEF FirstStep, Queues
    <2> QED BY <1>2, <2>1, <2>2
  <1>6. ASSUME NEW r \in runs, HandlerReturns(r) \/ HandlerFails(r)
        PROVE  runs' \subseteq runs
    BY <1>6 DEF HandlerReturns, HandlerFails
  <1> QED BY <1>0, <1>3, <1>4, <1>5, <1>6, Zenon DEF RunsMove

(* The handler's queue of an event is the queue of the step that emits it. *)
LEMMA EventQueue ==
    ASSUME NEW type \in HandlerEvents
    PROVE  StepQueue(EmittingStep(type)) = EmittingQueue(type)
  BY Zenon DEF HandlerEvents, EventTypes, StepQueue, EmittingStep, EmittingQueue

(* An event that is already there keeps its cause. *)
LEMMA CausedStays ==
    ASSUME OutboxMoves, NEW n \in DOMAIN outbox, Caused(n)
    PROVE  Caused(n)'
  BY DEF OutboxMoves, Caused

(* Every step keeps the chain of causes, and accepts an order once. *)
LEMMA StepKeepsCauses ==
    ASSUME IInv, [Next]_vars, RowsTold, CauseInv
    PROVE  CauseInv'
  <1>0. outbox \in Seq(OutboxEvent) /\ OutboxMoves
    BY StepMovesOutbox DEF IInv, TypeOK
  <1>1. CASE outbox' = outbox
    BY <1>1 DEF CauseInv, Caused
  <1>2. ASSUME NEW type, NEW o, NEW cause, Emit(type, o, cause),
               type \in HandlerEvents
                  => /\ cause \in DOMAIN outbox
                     /\ outbox[cause].order = o
                     /\ outbox[cause].type \in RoutingKeys(EmittingQueue(type)),
               type = "order.created" => ~Emitted(o, "order.created")
        PROVE  CauseInv'
    <2> DEFINE k == Len(outbox) + 1
    <2>1. /\ k \notin DOMAIN outbox
          /\ DOMAIN outbox' = DOMAIN outbox \cup {k}
          /\ \A m \in DOMAIN outbox : outbox'[m] = outbox[m]
          /\ outbox'[k].type = type
          /\ outbox'[k].order = o
          /\ outbox'[k].cause = cause
      BY <1>0, <1>2, EmitAppends, Zenon
    <2> HIDE DEF k
    <2>2. ASSUME NEW n \in DOMAIN outbox', outbox'[n].type \in HandlerEvents
          PROVE  Caused(n)'
      <3>1. CASE n \in DOMAIN outbox
        BY <1>0, <2>1, <2>2, <3>1, CausedStays DEF CauseInv
      <3>2. CASE n = k
        BY <1>2, <2>1, <2>2, <3>2 DEF Caused
      <3> QED BY <2>1, <3>1, <3>2
    <2>3. ASSUME NEW m \in DOMAIN outbox', NEW n \in DOMAIN outbox',
                 outbox'[m].type = "order.created", outbox'[n].type = "order.created",
                 outbox'[m].order = outbox'[n].order
          PROVE  m = n
      BY <1>2, <2>1, <2>3, Zenon DEF CauseInv, Emitted
    <2> QED BY <2>2, <2>3 DEF CauseInv
  <1>3. ASSUME NEW o \in Orders, CreateOrder(o) \/ CancelOrder(o)
        PROVE  CauseInv'
    <2>1. CASE CreateOrder(o)
      <3>1. ~Emitted(o, "order.created")
        BY <2>1 DEF RowsTold, RowTold, Told, CreateOrder, EventTypes
      <3> QED BY <1>2, <2>1, <3>1 DEF CreateOrder, HandlerEvents
    <2>2. CASE CancelOrder(o)
      BY <1>2, <2>2 DEF CancelOrder, HandlerEvents
    <2> QED BY <1>3, <2>1, <2>2
  <1>4. ASSUME NEW r \in runs, NEW type \in HandlerEvents, Commits(r, type)
        PROVE  CauseInv'
    <2>1. Emit(type, OrderOf(r), r.msg) /\ r.step = EmittingStep(type)
      BY <1>4, CommitEffect
    <2>2. /\ r.msg \in DOMAIN outbox
          /\ outbox[r.msg].type \in RoutingKeys(r.queue)
          /\ r.queue = StepQueue(r.step)
      BY RunRow DEF RunConsistent
    <2>3. outbox[r.msg].type \in RoutingKeys(EmittingQueue(type))
      BY <2>1, <2>2, EventQueue
    <2>4. outbox[r.msg].order = OrderOf(r)
      BY DEF OrderOf
    <2> QED BY <1>2, <2>1, <2>2, <2>3, <2>4 DEF HandlerEvents
  <1>5. ASSUME NEW r \in runs, RecordCompensation(r)
        PROVE  CauseInv'
    BY <1>1, <1>5 DEF RecordCompensation
  <1> QED BY <1>1, <1>3, <1>4, <1>5, StepKinds

(* Nothing has been told in the empty tables. *)
LEMMA InitStory ==
    ASSUME Init
    PROVE  StoryInv
  <1>1. /\ DOMAIN outbox = {}
        /\ compensations = {}
        /\ runs = {}
        /\ \A o \in Orders : orders[o] = NoOrder
    BY DEF Init
  <1>2. \A o, type : ~Emitted(o, type)
    BY <1>1 DEF Emitted
  <1>3. OutboxMatchesOrders
    BY <1>1, <1>2 DEF OutboxMatchesOrders, NoOrder
  <1> QED BY <1>1, <1>2, <1>3 DEF StoryInv, CancelInv, CauseInv

(* Every step keeps the story. *)
LEMMA StepKeepsStory ==
    ASSUME IInv, StoryInv, [Next]_vars
    PROVE  StoryInv'
  <1>1. RowsTold
    BY RowsAreTold DEF RowsTold, StoryInv, CancelInv
  <1>2. RowsTold'
    BY <1>1, StepKeepsRowsTold
  <1>3. /\ OutboxMatchesOrders'
        /\ \A o \in Orders : Emitted(o, "order.cancel_requested")'
                               => orders'[o].status \in CancelStatuses
    <2>1. (RowsTold <=> /\ OutboxMatchesOrders
                        /\ \A o \in Orders : Emitted(o, "order.cancel_requested")
                               => orders[o].status \in CancelStatuses)'
      BY RowsAreTold, PTL DEF RowsTold
    <2> QED BY <1>2, <2>1
  <1>4. CancelInv'
    BY <1>3, StepKeepsCancelRuns DEF StoryInv, CancelInv
  <1>5. CauseInv' /\ \A m \in compensations' : CompensationHolds(m)'
    BY <1>1, StepKeepsCauses, StepKeepsCompensations DEF StoryInv
  <1> QED BY <1>3, <1>4, <1>5 DEF StoryInv

(* The story holds in every reachable state, whatever faults there are. *)
THEOREM StoryInvariant == Spec => []StoryInv
  <1>1. Init => StoryInv
    BY InitStory
  <1>2. IInv /\ StoryInv /\ [Next]_vars => StoryInv'
    BY StepKeepsStory
  <1> QED BY <1>1, <1>2, InductiveInvariant, PTL DEF Spec

(* An event was emitted if and only if its state change was committed,       *)
(* although three of the Record operations write without checking the status. *)
THEOREM OutboxTellsTheOrders == Spec => []OutboxMatchesOrders
  <1>1. StoryInv => OutboxMatchesOrders
    BY DEF StoryInv
  <1> QED BY <1>1, StoryInvariant, PTL

(* What a compensation undid stays undone: no message still on its way       *)
(* reserves the stock or authorizes the payment again.                       *)
THEOREM CompensationsAreFinal == Spec => []CompensationsStick
  <1>1. StoryInv => CompensationsStick
    BY DEF StoryInv, CompensationsStick, CompensationHolds
  <1> QED BY <1>1, StoryInvariant, PTL

-----------------------------------------------------------------------------
(* Every message takes effect once, when every commit is reported          *)

ClosedNext(q, m) ==
    /\ <<q, m>> \in inbox'
    /\ \A r \in runs' : ~(r.queue = q /\ r.msg = m)

(* A delivery that is over stays over. *)
LEMMA ClosedStays ==
    ASSUME IInv, [Next]_vars, NEW q, NEW m, Closed(q, m)
    PROVE  ClosedNext(q, m)
  <1>0. RunsMove
    BY StepMovesRuns
  <1>1. CASE UNCHANGED <<runs, inbox, attempts>>
    BY <1>1 DEF Closed, ClosedNext
  <1>2. ASSUME NEW r \in runs, HandlerReturns(r)
        PROVE  ClosedNext(q, m)
    BY <1>2 DEF Closed, ClosedNext, HandlerReturns
  <1>3. ASSUME NEW r \in runs, HandlerFails(r)
        PROVE  ClosedNext(q, m)
    <2>1. runs' = runs \ {r} /\ inbox' = inbox \ {<<r.queue, r.msg>>}
      BY <1>3 DEF HandlerFails
    <2> QED BY <2>1 DEF Closed, ClosedNext
  <1>4. ASSUME NEW r \in runs, NEW step \in Steps, Continue(r, step)
        PROVE  ClosedNext(q, m)
    <2> DEFINE s == [r EXCEPT !.step = step]
    <2>1. runs' = (runs \ {r}) \cup {s} /\ inbox' = inbox
      BY <1>4 DEF Continue
    <2>2. s.queue = r.queue /\ s.msg = r.msg
      BY RunRow, Zenon DEF Run
    <2> HIDE DEF s
    <2> QED BY <2>1, <2>2 DEF Closed, ClosedNext
  <1>5. ASSUME NEW p \in Queues, NEW n \in DOMAIN outbox, StartRun(p, n)
        PROVE  ClosedNext(q, m)
    <2> DEFINE s == [queue |-> p, msg |-> n, step |-> FirstStep(p)]
    <2>1. /\ runs' = runs \cup {s}
          /\ inbox' = inbox \cup {<<p, n>>}
          /\ <<p, n>> \notin inbox
      BY <1>5 DEF StartRun
    <2>2. s.queue = p /\ s.msg = n
      OBVIOUS
    <2> HIDE DEF s
    <2> QED BY <2>1, <2>2 DEF Closed, ClosedNext
  <1> QED BY <1>0, <1>1, <1>2, <1>3, <1>4, <1>5 DEF RunsMove

(* The queues whose handlers emit events are bound to different types. *)
LEMMA KeysAreDisjoint ==
    ASSUME NEW s \in HandlerEvents, NEW t \in HandlerEvents, NEW key,
           key \in RoutingKeys(EmittingQueue(s)), key \in RoutingKeys(EmittingQueue(t))
    PROVE  EmittingQueue(s) = EmittingQueue(t)
  <1>1. \A u \in HandlerEvents :
           EmittingQueue(u) \in {"inventory.reserve", "payments.authorize",
                                 "shipments.create", "orders.finalize", "orders.cancel"}
    BY DEF HandlerEvents, EventTypes, EmittingQueue
  <1> QED BY <1>1 DEF RoutingKeys

(* A run whose message has an effect already would be a run of a delivery    *)
(* that is over.                                                            *)
LEMMA FirstEffect ==
    ASSUME IInv, CauseInv, OnceInv, NEW r \in runs, NEW type \in HandlerEvents,
           r.queue = EmittingQueue(type),
           NEW n \in DOMAIN outbox, outbox[n].type \in HandlerEvents,
           outbox[n].cause = r.msg
    PROVE  FALSE
  <1>1. Caused(n) /\ Closed(EmittingQueue(outbox[n].type), r.msg)
    BY DEF CauseInv, OnceInv
  <1>2. outbox[r.msg].type \in RoutingKeys(EmittingQueue(outbox[n].type))
    BY <1>1 DEF Caused
  <1>3. outbox[r.msg].type \in RoutingKeys(EmittingQueue(type))
    BY RunRow DEF RunConsistent
  <1>4. EmittingQueue(outbox[n].type) = EmittingQueue(type)
    BY <1>2, <1>3, KeysAreDisjoint
  <1> QED BY <1>1, <1>4 DEF Closed

(* Every step keeps the effects single. *)
LEMMA StepKeepsOnce ==
    ASSUME "lost_commit" \notin FaultKinds, IInv, CauseInv, OnceInv, [Next]_vars
    PROVE  OnceInv'
  <1>0. outbox \in Seq(OutboxEvent) /\ OutboxMoves
    BY StepMovesOutbox DEF IInv, TypeOK
  <1>1. ASSUME NEW n \in DOMAIN outbox, outbox[n].type \in HandlerEvents
        PROVE  ClosedNext(EmittingQueue(outbox'[n].type), outbox'[n].cause)
    <2>1. outbox'[n] = outbox[n]
      BY <1>0 DEF OutboxMoves
    <2> QED BY <1>1, <2>1, ClosedStays DEF OnceInv
  <1>2. ASSUME DOMAIN outbox' \ DOMAIN outbox \subseteq {n \in DOMAIN outbox' :
                                             outbox'[n].type \notin HandlerEvents}
        PROVE  OnceInv'
    <2>1. ASSUME NEW n \in DOMAIN outbox', outbox'[n].type \in HandlerEvents
          PROVE  n \in DOMAIN outbox /\ outbox'[n] = outbox[n]
      BY <1>0, <1>2, <2>1 DEF OutboxMoves
    <2>2. ASSUME NEW n \in DOMAIN outbox', outbox'[n].type \in HandlerEvents
          PROVE  ClosedNext(EmittingQueue(outbox'[n].type), outbox'[n].cause)
      BY <1>1, <2>1, <2>2
    <2>3. ASSUME NEW m \in DOMAIN outbox', NEW n \in DOMAIN outbox',
                 outbox'[m].type \in HandlerEvents, outbox'[n].type \in HandlerEvents,
                 outbox'[m].cause = outbox'[n].cause
          PROVE  m = n
      BY <2>1, <2>3 DEF OnceInv
    <2> QED BY <2>2, <2>3 DEF OnceInv, Closed, ClosedNext
  <1>3. CASE outbox' = outbox
    BY <1>2, <1>3
  <1>4. ASSUME NEW o \in Orders, CreateOrder(o) \/ CancelOrder(o)
        PROVE  OnceInv'
    <2>1. PICK type \in {"order.created", "order.cancel_requested"} : Emit(type, o, 0)
      BY <1>4 DEF CreateOrder, CancelOrder
    <2> DEFINE k == Len(outbox) + 1
    <2>2. /\ DOMAIN outbox' = DOMAIN outbox \cup {k}
          /\ outbox'[k].type = type
      BY <1>0, <2>1, EmitAppends, Zenon
    <2> HIDE DEF k
    <2> QED BY <1>2, <2>2 DEF HandlerEvents
  <1>5. ASSUME NEW r \in runs, NEW type \in HandlerEvents, Commits(r, type)
        PROVE  OnceInv'
    <2> DEFINE k == Len(outbox) + 1
    <2>1. /\ Emit(type, OrderOf(r), r.msg)
          /\ r.step = EmittingStep(type)
          /\ TransactionEnds(r)
      BY <1>5, CommitEffect
    <2>2. /\ k \notin DOMAIN outbox
          /\ DOMAIN outbox' = DOMAIN outbox \cup {k}
          /\ \A m \in DOMAIN outbox : outbox'[m] = outbox[m]
          /\ outbox'[k].type = type
          /\ outbox'[k].cause = r.msg
      BY <1>0, <2>1, EmitAppends, Zenon
    <2> HIDE DEF k
    <2>3. HandlerReturns(r)
      BY <2>1 DEF TransactionEnds, Fault
    <2>4. r.queue = EmittingQueue(type) /\ <<r.queue, r.msg>> \in inbox
      BY <2>1, RunRow, EventQueue DEF RunConsistent, IInv, TypeOK
    <2>5. ClosedNext(r.queue, r.msg)
      <3>1. runs' = runs \ {r} /\ inbox' = inbox
        BY <2>3 DEF HandlerReturns
      <3>2. \A x \in runs : x.queue = r.queue /\ x.msg = r.msg => x = r
        BY DEF IInv, RunsInv, RunsAreExclusive
      <3> QED BY <2>4, <3>1, <3>2 DEF ClosedNext
    <2>6. ASSUME NEW n \in DOMAIN outbox', outbox'[n].type \in HandlerEvents
          PROVE  ClosedNext(EmittingQueue(outbox'[n].type), outbox'[n].cause)
      <3>1. CASE n \in DOMAIN outbox
        BY <1>1, <2>2, <2>6, <3>1
      <3>2. CASE n = k
        BY <2>2, <2>4, <2>5, <3>2
      <3> QED BY <2>2, <3>1, <3>2
    <2>7. \A n \in DOMAIN outbox :
             outbox[n].type \in HandlerEvents => outbox[n].cause # r.msg
      BY <2>4, FirstEffect
    <2>8. ASSUME NEW m \in DOMAIN outbox', NEW n \in DOMAIN outbox',
                 outbox'[m].type \in HandlerEvents, outbox'[n].type \in HandlerEvents,
                 outbox'[m].cause = outbox'[n].cause
          PROVE  m = n
      <3>1. CASE m \in DOMAIN outbox /\ n \in DOMAIN outbox
        BY <2>2, <2>8, <3>1 DEF OnceInv
      <3>2. CASE m = k \/ n = k
        BY <2>2, <2>7, <2>8, <3>2
      <3> QED BY <2>2, <3>1, <3>2
    <2> QED BY <2>6, <2>8 DEF OnceInv, Closed, ClosedNext
  <1>6. ASSUME NEW r \in runs, RecordCompensation(r)
        PROVE  OnceInv'
    BY <1>3, <1>6 DEF RecordCompensation
  <1> QED BY <1>3, <1>4, <1>5, <1>6, StepKinds

(* In a saga whose messages took effect once, a step of an order has one      *)
(* outcome: the events of its handler all have the same cause.                *)
LEMMA SameCauseSameEvent ==
    ASSUME CauseInv, OnceInv,
           NEW m \in DOMAIN outbox, NEW n \in DOMAIN outbox,
           outbox[m].order = outbox[n].order
    PROVE  /\ /\ outbox[m].type \in {"inventory.reserved", "inventory.rejected"}
              /\ outbox[n].type \in {"inventory.reserved", "inventory.rejected"}
              => m = n
           /\ /\ outbox[m].type \in {"payment.authorized", "payment.failed"}
              /\ outbox[n].type \in {"payment.authorized", "payment.failed"}
              => m = n
           /\ /\ outbox[m].type \in {"shipment.created", "shipment.failed"}
              /\ outbox[n].type \in {"shipment.created", "shipment.failed"}
              => m = n
           /\ /\ outbox[m].type = "order.completed"
              /\ outbox[n].type = "order.completed"
              => m = n
  <1>1. \A i \in DOMAIN outbox :
           outbox[i].type \in {"inventory.reserved", "inventory.rejected"}
              => /\ outbox[i].cause \in DOMAIN outbox
                 /\ outbox[outbox[i].cause].order = outbox[i].order
                 /\ outbox[outbox[i].cause].type = "order.created"
    BY DEF CauseInv, Caused, HandlerEvents, EventTypes, EmittingQueue, RoutingKeys
  <1>2. \A i \in DOMAIN outbox :
           outbox[i].type \in {"payment.authorized", "payment.failed"}
              => /\ outbox[i].cause \in DOMAIN outbox
                 /\ outbox[outbox[i].cause].order = outbox[i].order
                 /\ outbox[outbox[i].cause].type = "inventory.reserved"
    BY DEF CauseInv, Caused, HandlerEvents, EventTypes, EmittingQueue, RoutingKeys
  <1>3. \A i \in DOMAIN outbox :
           outbox[i].type \in {"shipment.created", "shipment.failed"}
              => /\ outbox[i].cause \in DOMAIN outbox
                 /\ outbox[outbox[i].cause].order = outbox[i].order
                 /\ outbox[outbox[i].cause].type = "payment.authorized"
    BY DEF CauseInv, Caused, HandlerEvents, EventTypes, EmittingQueue, RoutingKeys
  <1>4. \A i \in DOMAIN outbox :
           outbox[i].type = "order.completed"
              => /\ outbox[i].cause \in DOMAIN outbox
                 /\ outbox[outbox[i].cause].order = outbox[i].order
                 /\ outbox[outbox[i].cause].type = "shipment.created"
    BY DEF CauseInv, Caused, HandlerEvents, EventTypes, EmittingQueue, RoutingKeys
  <1>5. \A i, j \in DOMAIN outbox :
           /\ outbox[i].type \in HandlerEvents
           /\ outbox[j].type \in HandlerEvents
           /\ outbox[i].cause = outbox[j].cause
           => i = j
    BY Zenon DEF OnceInv
  <1>6. \A i, j \in DOMAIN outbox :
           /\ outbox[i].order = outbox[j].order
           /\ outbox[i].type \in {"inventory.reserved", "inventory.rejected"}
           /\ outbox[j].type \in {"inventory.reserved", "inventory.rejected"}
           => i = j
    BY <1>1, <1>5 DEF CauseInv, HandlerEvents, EventTypes
  <1>7. \A i, j \in DOMAIN outbox :
           /\ outbox[i].order = outbox[j].order
           /\ outbox[i].type \in {"payment.authorized", "payment.failed"}
           /\ outbox[j].type \in {"payment.authorized", "payment.failed"}
           => i = j
    BY <1>2, <1>5, <1>6 DEF HandlerEvents, EventTypes
  <1>8. \A i, j \in DOMAIN outbox :
           /\ outbox[i].order = outbox[j].order
           /\ outbox[i].type \in {"shipment.created", "shipment.failed"}
           /\ outbox[j].type \in {"shipment.created", "shipment.failed"}
           => i = j
    BY <1>3, <1>5, <1>7 DEF HandlerEvents, EventTypes
  <1>9. \A i, j \in DOMAIN outbox :
           /\ outbox[i].order = outbox[j].order
           /\ outbox[i].type = "order.completed"
           /\ outbox[j].type = "order.completed"
           => i = j
    BY <1>4, <1>5, <1>8 DEF HandlerEvents, EventTypes
  <1> QED BY <1>6, <1>7, <1>8, <1>9, Zenon

(* While the handler of a payment, or of a shipment, is about to record a     *)
(* failure there is no success of that step, and a payment whose failure is   *)
(* being compensated was not authorized.                                      *)
LEMMA NoSuccessYet ==
    ASSUME IInv, StoryInv, OnceInv, NEW r \in runs
    PROVE  /\ r.step = "declined" => RowOf(r).authorization = "none"
           /\ r.step = "unshipped" => RowOf(r).shipment # "created"
           /\ outbox[r.msg].type = "payment.failed" => RowOf(r).authorization = "none"
  <1> DEFINE o == OrderOf(r)
  <1>0. /\ r.msg \in DOMAIN outbox
        /\ o \in Orders
        /\ outbox[r.msg].order = o
        /\ outbox[r.msg].type \in RoutingKeys(r.queue)
        /\ r.queue = StepQueue(r.step)
        /\ CauseInv
    BY RunRow DEF RunConsistent, StoryInv, OrderOf
  <1>1. /\ RowOf(r).authorization # "none" => Emitted(o, "payment.authorized")
        /\ RowOf(r).shipment = "created" => Emitted(o, "shipment.created")
    BY <1>0 DEF StoryInv, OutboxMatchesOrders, RowOf
  <1>2. ASSUME r.step = "declined", RowOf(r).authorization # "none"
        PROVE  FALSE
    <2>1. PICK n \in DOMAIN outbox :
             outbox[n].type = "payment.authorized" /\ outbox[n].order = o
      BY <1>1, <1>2 DEF Emitted
    <2>2. /\ outbox[n].cause \in DOMAIN outbox
          /\ outbox[outbox[n].cause].order = o
          /\ outbox[outbox[n].cause].type = "inventory.reserved"
      BY <1>0, <2>1 DEF CauseInv, Caused, HandlerEvents, EventTypes, EmittingQueue,
         RoutingKeys
    <2>3. r.queue = "payments.authorize" /\ outbox[r.msg].type = "inventory.reserved"
      BY <1>0, <1>2 DEF StepQueue, RoutingKeys
    <2>4. outbox[n].cause = r.msg
      BY <1>0, <2>2, <2>3, SameCauseSameEvent
    <2> QED BY <1>0, <2>1, <2>3, <2>4, FirstEffect
            DEF HandlerEvents, EventTypes, EmittingQueue
  <1>3. ASSUME r.step = "unshipped", RowOf(r).shipment = "created"
        PROVE  FALSE
    <2>1. PICK n \in DOMAIN outbox :
             outbox[n].type = "shipment.created" /\ outbox[n].order = o
      BY <1>1, <1>3 DEF Emitted
    <2>2. /\ outbox[n].cause \in DOMAIN outbox
          /\ outbox[outbox[n].cause].order = o
          /\ outbox[outbox[n].cause].type = "payment.authorized"
      BY <1>0, <2>1 DEF CauseInv, Caused, HandlerEvents, EventTypes, EmittingQueue,
         RoutingKeys
    <2>3. r.queue = "shipments.create" /\ outbox[r.msg].type = "payment.authorized"
      BY <1>0, <1>3 DEF StepQueue, RoutingKeys
    <2>4. outbox[n].cause = r.msg
      BY <1>0, <2>2, <2>3, SameCauseSameEvent
    <2> QED BY <1>0, <2>1, <2>3, <2>4, FirstEffect
            DEF HandlerEvents, EventTypes, EmittingQueue
  <1>4. ASSUME outbox[r.msg].type = "payment.failed", RowOf(r).authorization # "none"
        PROVE  FALSE
    <2>1. PICK n \in DOMAIN outbox :
             outbox[n].type = "payment.authorized" /\ outbox[n].order = o
      BY <1>1, <1>4 DEF Emitted
    <2>2. n = r.msg
      BY <1>0, <1>4, <2>1, SameCauseSameEvent
    <2> QED BY <1>4, <2>1, <2>2
  <1> QED BY <1>2, <1>3, <1>4

(* What a row says about the money and the goods of its order. *)
RowSettled(row) ==
    /\ row.authorization = "none" <=> row.payment \in {"pending_authorization", "failed"}
    /\ row.authorization # "none" => row.payment = row.authorization
    /\ row.status = "cancelled" => /\ row.shipment = "none"
                                   /\ row.authorization # "authorized"
                                   /\ row.payment # "authorized"

RowsSettled == \A o \in Orders : RowSettled(orders[o])

(* A transaction keeps the payment and its authorization in agreement, and    *)
(* a cancellation that saw no shipment leaves nothing behind.                 *)
LEMMA EffectSettles ==
    ASSUME NEW row \in OrderRow, RowSettled(row), NEW type, NEW new,
           Effect(type, row, new),
           type = "payment.failed" => row.authorization = "none",
           type = "order.cancelled" => row.shipment = "none"
    PROVE  RowSettled(new)
  <1>1. EffectWrites(type, row, new)
    BY EffectFields
  <1>2. /\ new.authorization = "none" <=> new.payment \in {"pending_authorization", "failed"}
        /\ new.authorization # "none" => new.payment = new.authorization
    BY <1>1 DEF EffectWrites, RowSettled
  <1>3. new.status = "cancelled" => row.status = "cancelled" \/ type = "order.cancelled"
    BY <1>1 DEF EffectWrites
  <1>4. new.status = "cancelled" => new.shipment = "none"
    BY <1>1, <1>3 DEF EffectWrites, RowSettled
  <1>5. new.status = "cancelled" => new.authorization # "authorized"
    BY <1>1, <1>3 DEF EffectWrites, RowSettled
  <1> QED BY <1>2, <1>4, <1>5 DEF RowSettled

(* So does a compensation. *)
LEMMA CompensationSettles ==
    ASSUME NEW row \in OrderRow, RowConsistent(row), RowSettled(row),
           NEW type \in RoutingKeys("orders.compensate"),
           type = "payment.failed" => row.authorization = "none"
    PROVE  RowSettled(Compensated(row, type))
  <1> DEFINE new == Compensated(row, type)
  <1>1. CompensationWrites(type, row, new)
    BY CompensatedFields
  <1> HIDE DEF new
  <1>2. /\ new.authorization = "none" <=> new.payment \in {"pending_authorization", "failed"}
        /\ new.authorization # "none" => new.payment = new.authorization
    BY <1>1 DEF CompensationWrites, RowSettled
  <1>3. new.status = "cancelled" => type = "payment.failed"
    BY <1>1 DEF CompensationWrites, CompensationTarget, RoutingKeys
  <1>4. new.status = "cancelled" => /\ new.shipment = "none"
                                    /\ new.authorization = "none"
    <2>1. row.authorization = "none" => row.shipment = "none"
      BY DEF RowConsistent, ShipmentConsistent, OrderRow
    <2> QED BY <1>1, <1>3, <2>1 DEF CompensationWrites
  <1>5. RowSettled(new)
    BY <1>2, <1>4 DEF RowSettled
  <1> QED BY <1>5 DEF new

(* Every step keeps the rows settled. *)
LEMMA StepKeepsSettled ==
    ASSUME IInv, StoryInv, OnceInv, RowsSettled, [Next]_vars
    PROVE  RowsSettled'
  <1>0. \A o \in Orders : /\ orders[o] \in OrderRow
                          /\ RowConsistent(orders[o])
                          /\ RowSettled(orders[o])
    BY DEF IInv, TypeOK, RowsInv, RowsSettled
  <1>1. CASE orders' = orders
    BY <1>1 DEF RowsSettled, RowSettled
  <1>2. ASSUME NEW o \in Orders, CreateOrder(o) \/ CancelOrder(o)
        PROVE  RowsSettled'
    <2>1. \A p \in Orders \ {o} : orders'[p] = orders[p]
      BY <1>2, ApiEffect
    <2>2. CASE Accepted(o)
      <3>1. RowSettled(orders'[o])
        BY <2>2 DEF Accepted, WithStatus, NoOrder, RowSettled
      <3> QED BY <1>0, <2>1, <3>1 DEF RowsSettled
    <2>3. CASE orders'[o] = WithStatus(orders[o], "cancellation_pending")
      <3>1. /\ orders'[o].status = "cancellation_pending"
            /\ orders'[o].payment = orders[o].payment
            /\ orders'[o].authorization = orders[o].authorization
        BY <1>0, <2>3, StatusEffect DEF Statuses
      <3>2. RowSettled(orders'[o])
        BY <1>0, <3>1 DEF RowSettled
      <3> QED BY <1>0, <2>1, <3>2 DEF RowsSettled
    <2> QED BY <1>2, <2>2, <2>3, ApiEffect
  <1>3. ASSUME NEW r \in runs, NEW type \in HandlerEvents, Commits(r, type)
        PROVE  RowsSettled'
    <2>1. /\ OrderOf(r) \in Orders
          /\ Effect(type, orders[OrderOf(r)], orders'[OrderOf(r)])
          /\ \A p \in Orders \ {OrderOf(r)} : orders'[p] = orders[p]
          /\ r.step = EmittingStep(type)
      BY <1>3, CommitEffect DEF RowOf
    <2>2. type = "payment.failed" => orders[OrderOf(r)].authorization = "none"
      BY <2>1, NoSuccessYet DEF EmittingStep, RowOf
    <2>3. type = "order.cancelled" => orders[OrderOf(r)].shipment = "none"
      BY <2>1 DEF EmittingStep, RowOf, StoryInv, CancelInv
    <2>4. RowSettled(orders'[OrderOf(r)])
      BY <1>0, <2>1, <2>2, <2>3, EffectSettles
    <2> QED BY <1>0, <2>1, <2>4 DEF RowsSettled
  <1>4. ASSUME NEW r \in runs, RecordCompensation(r)
        PROVE  RowsSettled'
    <2> DEFINE type == outbox[r.msg].type
    <2>1. /\ OrderOf(r) \in Orders
          /\ type \in RoutingKeys("orders.compensate")
          /\ orders'[OrderOf(r)] = Compensated(orders[OrderOf(r)], type)
          /\ \A p \in Orders \ {OrderOf(r)} : orders'[p] = orders[p]
      BY <1>4, CompensationEffect DEF RowOf
    <2>2. type = "payment.failed" => orders[OrderOf(r)].authorization = "none"
      BY NoSuccessYet DEF RowOf
    <2>3. RowSettled(orders'[OrderOf(r)])
      BY <1>0, <2>1, <2>2, CompensationSettles
    <2> QED BY <1>0, <2>1, <2>3 DEF RowsSettled
  <1> QED BY <1>1, <1>2, <1>3, <1>4, StepKinds

(* The invariants that need every commit to be reported. *)
EffectsInv == OnceInv /\ RowsSettled

(* Commits that are reported as errors aside, they hold in every reachable    *)
(* state: the inbox row, which stays once its handler has succeeded, makes    *)
(* every message take effect at most once.                                    *)
THEOREM EffectsInvariant ==
    ASSUME "lost_commit" \notin FaultKinds
    PROVE  Spec => []EffectsInv
  <1>1. Init => EffectsInv
    BY DEF Init, EffectsInv, OnceInv, RowsSettled, RowSettled, NoOrder
  <1>2. IInv /\ StoryInv /\ EffectsInv /\ [Next]_vars => EffectsInv'
    BY StepKeepsOnce, StepKeepsSettled DEF EffectsInv, StoryInv
  <1> QED BY <1>1, <1>2, InductiveInvariant, StoryInvariant, PTL DEF Spec

(* No step of the saga both succeeds and fails, and no success is announced   *)
(* twice, whatever is redelivered, retried or replayed.                       *)
THEOREM StepsHaveOneOutcome ==
    ASSUME "lost_commit" \notin FaultKinds
    PROVE  Spec => []OneOutcomePerStep
  <1>1. StoryInv /\ EffectsInv => OneOutcomePerStep
    <2> SUFFICES ASSUME CauseInv, OnceInv
                 PROVE  OneOutcomePerStep
      BY DEF StoryInv, EffectsInv
    <2>1. ASSUME NEW o \in Orders
          PROVE  /\ ~(Emitted(o, "inventory.reserved") /\ Emitted(o, "inventory.rejected"))
                 /\ ~(Emitted(o, "payment.authorized") /\ Emitted(o, "payment.failed"))
                 /\ ~(Emitted(o, "shipment.created") /\ Emitted(o, "shipment.failed"))
      BY SameCauseSameEvent DEF Emitted
    <2>2. ASSUME NEW m \in DOMAIN outbox, NEW n \in DOMAIN outbox,
                 outbox[m].order = outbox[n].order, outbox[m].type = outbox[n].type,
                 outbox[m].type \in {"inventory.reserved", "payment.authorized",
                                     "shipment.created", "order.completed"}
          PROVE  m = n
      BY <2>2, SameCauseSameEvent
    <2> QED BY <2>1, <2>2 DEF OneOutcomePerStep
  <1> QED BY <1>1, StoryInvariant, EffectsInvariant, PTL

(* orders.payment_status agrees with the payment_authorizations row, although *)
(* RecordPaymentFailed writes only the first and checks no status.            *)
THEOREM PaymentStatusIsTrue ==
    ASSUME "lost_commit" \notin FaultKinds
    PROVE  Spec => []PaymentStatusAgrees
  <1>1. EffectsInv => PaymentStatusAgrees
    BY DEF EffectsInv, RowsSettled, RowSettled, PaymentStatusAgrees
  <1> QED BY <1>1, EffectsInvariant, PTL

(* A cancelled order has no shipment and no authorized payment, although the  *)
(* handler looks for the shipment without a lock.                             *)
THEOREM CancellationIsClean ==
    ASSUME "lost_commit" \notin FaultKinds
    PROVE  Spec => []CancelledLeavesNothing
  <1>1. EffectsInv => CancelledLeavesNothing
    BY DEF EffectsInv, RowsSettled, RowSettled, CancelledLeavesNothing
  <1> QED BY <1>1, EffectsInvariant, PTL

-----------------------------------------------------------------------------
(* Carrier bookings, when no worker is killed                              *)

(* A step takes no run away but its own. *)
LEMMA OthersStay ==
    ASSUME NEW x \in runs, HandlerStep(x) \/ DatabaseError(x)
    PROVE  runs \ {x} \subseteq runs'
  <1>1. \/ HandlerReturns(x) \/ HandlerFails(x)
        \/ \E step : Continue(x, step)
    BY Zenon DEF HandlerStep, DatabaseError, TransitionRefused, RecordInventoryReserved,
       InsufficientStock, RecordInventoryRejected, AuthorizePayment,
       RecordPaymentAuthorized, RecordPaymentFailed, CreateShipment,
       RecordShipmentCreated, RecordShipmentFailed, InspectShippedOrder,
       CompleteOrder, InspectCancellingOrder, RequireManualReview,
       RecordOrderCancelled, RecordCompensation, RecordNotificationQueued,
       CommitOrder, TransactionEnds
  <1> QED BY <1>1 DEF HandlerReturns, HandlerFails, Continue

(* A handler that has its booking can only record the shipment, or fail. *)
LEMMA BookedRunSteps ==
    ASSUME NEW r \in runs, HandlerStep(r), r.step = "shipped"
    PROVE  TransitionRefused(r) \/ RecordShipmentCreated(r)
  BY DEF HandlerStep, RecordInventoryReserved, InsufficientStock,
     RecordInventoryRejected, AuthorizePayment, RecordPaymentAuthorized,
     RecordPaymentFailed, CreateShipment, RecordShipmentFailed, InspectShippedOrder,
     CompleteOrder, InspectCancellingOrder, RequireManualReview,
     RecordOrderCancelled, RecordCompensation, RecordNotificationQueued

(* A run with a booking that ends leaves a shipment or a failed attempt. *)
LEMMA BookedRunEnds ==
    ASSUME "crash" \notin FaultKinds, IInv, [Next]_vars,
           NEW r \in runs, r.step = "shipped", r \notin runs'
    PROVE  \/ orders'[OrderOf(r)].shipment = "created"
           \/ <<"shipments.create", r.msg>> \in DOMAIN attempts'
  <1>0. /\ r.queue = "shipments.create"
        /\ OrderOf(r) \in Orders
        /\ RowOf(r) \in OrderRow
        /\ orders \in [Orders -> OrderRow]
    BY RunRow DEF RunConsistent, StepQueue, IInv, TypeOK
  <1>1. HandlerStep(r) \/ DatabaseError(r)
    <2>1. ASSUME NEW x \in runs, HandlerStep(x) \/ DatabaseError(x)
          PROVE  x = r
      BY <2>1, OthersStay
    <2>2. ASSUME runs \subseteq runs'
          PROVE  FALSE
      BY <2>2
    <2>3. ~(UNCHANGED vars)
      BY <2>2 DEF vars
    <2>4. ASSUME NEW o \in Orders, CreateOrder(o) \/ CancelOrder(o)
          PROVE  FALSE
      BY <2>2, <2>4 DEF CreateOrder, CancelOrder
    <2>5. ASSUME NEW q \in Queues, NEW m \in DOMAIN outbox, Deliver(q, m) \/ Replay(q, m)
          PROVE  FALSE
      BY <2>2, <2>5 DEF Deliver, Replay, StartRun
    <2>6. ASSUME NEW x \in runs, Crash(x)
          PROVE  FALSE
      BY <2>6 DEF Crash, Fault
    <2> QED BY <2>1, <2>3, <2>4, <2>5, <2>6 DEF Next
  <1>2. CASE HandlerFails(r)
    <2>1. DOMAIN attempts' = DOMAIN attempts \cup {<<r.queue, r.msg>>}
      BY <1>2 DEF HandlerFails
    <2> QED BY <1>0, <2>1
  <1>3. CASE RecordShipmentCreated(r)
    <2>1. orders' = [orders EXCEPT ![OrderOf(r)] = Shipped(RowOf(r))]
      BY <1>3 DEF RecordShipmentCreated, CommitOrder
    <2>2. Shipped(RowOf(r)).shipment = "created"
      BY <1>0, Zenon DEF Shipped, OrderRow
    <2> QED BY <1>0, <2>1, <2>2
  <1> QED BY <1>1, <1>2, <1>3, BookedRunSteps DEF DatabaseError, TransitionRefused

(* Failed attempts are never forgotten. *)
LEMMA AttemptsStay ==
    ASSUME IInv, [Next]_vars
    PROVE  DOMAIN attempts \subseteq DOMAIN attempts'
  <1>1. ASSUME NEW r \in runs, HandlerFails(r)
        PROVE  DOMAIN attempts \subseteq DOMAIN attempts'
    BY <1>1 DEF HandlerFails
  <1>2. attempts' = attempts \/ \E r \in runs : HandlerFails(r)
    BY StepMovesRuns, Zenon DEF RunsMove, HandlerReturns, Continue, StartRun
  <1> QED BY <1>1, <1>2

(* A booking that is new is held by the run that made it. *)
LEMMA NewBookings ==
    ASSUME IInv, [Next]_vars, NEW o \in booked', o \notin booked
    PROVE  \E r \in runs' : OrderOf(r)' = o /\ r.step = "shipped"
  <1>1. PICK r \in runs : CreateShipment(r)
    BY Zenon DEF Next, vars, CreateOrder, CancelOrder, Deliver, Replay, StartRun, Crash,
       DatabaseError, HandlerStep, TransitionRefused,
       RecordInventoryReserved, InsufficientStock, RecordInventoryRejected,
       AuthorizePayment, RecordPaymentAuthorized, RecordPaymentFailed,
       RecordShipmentCreated, RecordShipmentFailed,
       InspectShippedOrder, CompleteOrder, InspectCancellingOrder,
       RequireManualReview, RecordOrderCancelled, RecordCompensation,
       RecordNotificationQueued, CommitOrder
  <1> DEFINE s == [r EXCEPT !.step = "shipped"]
  <1>2. /\ runs' = (runs \ {r}) \cup {s}
        /\ booked' = booked \cup {OrderOf(r)}
        /\ outbox' = outbox
    BY <1>1 DEF CreateShipment, Continue
  <1>3. s.msg = r.msg /\ s.step = "shipped"
    BY RunRow, Zenon DEF Run
  <1> HIDE DEF s
  <1> QED BY <1>2, <1>3 DEF OrderOf

(* Every step keeps the trace of every booking. *)
LEMMA StepKeepsBookings ==
    ASSUME "crash" \notin FaultKinds, IInv, BookingsLeaveATrace, [Next]_vars
    PROVE  BookingsLeaveATrace'
  <1>0. RowsMove /\ OutboxMoves /\ DOMAIN attempts \subseteq DOMAIN attempts'
    BY StepMovesRows, StepMovesOutbox, AttemptsStay
  <1> DEFINE Trace(o) ==
        \/ orders'[o].shipment = "created"
        \/ \E r \in runs' : OrderOf(r)' = o /\ r.step = "shipped"
        \/ \E m \in DOMAIN outbox' :
              outbox'[m].order = o /\ <<"shipments.create", m>> \in DOMAIN attempts'
  <1>1. ASSUME NEW o \in booked
        PROVE  Trace(o)
    <2>0. o \in Orders
      BY DEF IInv, TypeOK
    <2>1. CASE orders[o].shipment = "created"
      <3>1. \/ RowMove(orders[o], orders'[o])
            \/ orders[o].status = "absent"
        BY <1>0, <2>0 DEF RowsMove, Accepted
      <3>2. orders[o].status = "absent" => orders[o].shipment = "none"
        BY <2>0 DEF IInv, RowsInv, RowConsistent, ShipmentConsistent
      <3> QED BY <2>1, <3>1, <3>2 DEF RowMove
    <2>2. ASSUME NEW r \in runs, OrderOf(r) = o, r.step = "shipped"
          PROVE  Trace(o)
      <3>1. r.msg \in DOMAIN outbox' /\ outbox'[r.msg] = outbox[r.msg] /\ OrderOf(r)' = o
        BY <1>0, <2>2, RunRow DEF OutboxMoves, OrderOf
      <3>2. CASE r \in runs'
        BY <2>2, <3>1, <3>2
      <3>3. CASE r \notin runs'
        <4>1. \/ orders'[o].shipment = "created"
              \/ <<"shipments.create", r.msg>> \in DOMAIN attempts'
          BY <2>2, <3>3, BookedRunEnds
        <4>2. outbox'[r.msg].order = o
          BY <3>1 DEF OrderOf
        <4> QED BY <3>1, <4>1, <4>2
      <3> QED BY <3>2, <3>3
    <2>3. ASSUME NEW m \in DOMAIN outbox, outbox[m].order = o,
                 <<"shipments.create", m>> \in DOMAIN attempts
          PROVE  Trace(o)
      BY <1>0, <2>3, Zenon DEF OutboxMoves
    <2> HIDE DEF Trace
    <2> QED BY <2>1, <2>2, <2>3, Zenon DEF BookingsLeaveATrace
  <1>2. ASSUME NEW o \in booked'
        PROVE  Trace(o)
    <2>1. CASE o \in booked
      BY <1>1, <2>1
    <2>2. CASE o \notin booked
      BY <2>2, NewBookings
    <2> QED BY <2>1, <2>2
  <1> QED BY <1>2 DEF BookingsLeaveATrace

(* As long as no worker is killed between the carrier's answer and the commit *)
(* a booking has its shipment row, or a run about to write it, or a failed    *)
(* attempt of its delivery to show for it.                                    *)
THEOREM BookingsAreTraced ==
    ASSUME "crash" \notin FaultKinds
    PROVE  Spec => []BookingsLeaveATrace
  <1>1. Init => BookingsLeaveATrace
    BY DEF Init, BookingsLeaveATrace
  <1>2. IInv /\ BookingsLeaveATrace /\ [Next]_vars => BookingsLeaveATrace'
    BY StepKeepsBookings
  <1> QED BY <1>1, <1>2, InductiveInvariant, PTL DEF Spec

-----------------------------------------------------------------------------
(* The Postgres store behind the workers behaves like the in-memory one    *)

StoreRows ==
    [status   : Statuses,
     items    : {"pending", "reserved", "rejected", "released"},
     payment  : {"pending_authorization", "authorized", "failed", "voided"},
     shipment : {"none", "created", "failed"}]

(* A row as the in-memory store shows it, given the events of its order. *)
StoreRow(row, told) ==
    [status   |-> row.status,
     items    |-> row.items,
     payment  |-> row.payment,
     shipment |-> IF row.shipment = "created" THEN "created"
                  ELSE IF "shipment.failed" \in told THEN "failed" ELSE "none"]

(* Rows are equal when their fields are. *)
LEMMA StoreRowsAgree ==
    ASSUME NEW a \in StoreRows, NEW b \in StoreRows,
           a.status = b.status, a.items = b.items,
           a.payment = b.payment, a.shipment = b.shipment
    PROVE  a = b
  BY DEF StoreRows

(* The fields of a row of the in-memory store. *)
LEMMA StoreRowFields ==
    ASSUME NEW row \in OrderRow, NEW told
    PROVE  LET s == StoreRow(row, told)
           IN  /\ s \in StoreRows
               /\ s.status = row.status
               /\ s.items = row.items
               /\ s.payment = row.payment
               /\ s.shipment = IF row.shipment = "created" THEN "created"
                               ELSE IF "shipment.failed" \in told THEN "failed" ELSE "none"
  BY DEF StoreRow, StoreRows, OrderRow

(* What the in-memory store's assignments do to a row. *)
LEMMA StoreStatusUpdate ==
    ASSUME NEW row \in StoreRows, NEW to \in Statuses
    PROVE  LET new == [row EXCEPT !.status = to]
           IN  /\ new \in StoreRows
               /\ new.status = to /\ new.items = row.items
               /\ new.payment = row.payment /\ new.shipment = row.shipment
  BY Zenon DEF StoreRows

(* What the helpers of MemoryStore write, field by field. *)
LEMMA StoreUpdates ==
    ASSUME NEW row \in StoreRows
    PROVE  /\ LET new == [row EXCEPT !.status = "inventory_reserved", !.items = "reserved"]
              IN  /\ new \in StoreRows
                  /\ new.status = "inventory_reserved" /\ new.items = "reserved"
                  /\ new.payment = row.payment /\ new.shipment = row.shipment
           /\ LET new == [row EXCEPT !.items = "rejected"]
              IN  /\ new \in StoreRows
                  /\ new.status = row.status /\ new.items = "rejected"
                  /\ new.payment = row.payment /\ new.shipment = row.shipment
           /\ LET new == [row EXCEPT !.status = "payment_authorized",
                                     !.payment = "authorized"]
              IN  /\ new \in StoreRows
                  /\ new.status = "payment_authorized" /\ new.items = row.items
                  /\ new.payment = "authorized" /\ new.shipment = row.shipment
           /\ LET new == [row EXCEPT !.payment = "failed"]
              IN  /\ new \in StoreRows
                  /\ new.status = row.status /\ new.items = row.items
                  /\ new.payment = "failed" /\ new.shipment = row.shipment
           /\ LET new == [row EXCEPT !.status = "shipment_created", !.shipment = "created"]
              IN  /\ new \in StoreRows
                  /\ new.status = "shipment_created" /\ new.items = row.items
                  /\ new.payment = row.payment /\ new.shipment = "created"
           /\ LET new == [row EXCEPT !.shipment = "failed"]
              IN  /\ new \in StoreRows
                  /\ new.status = row.status /\ new.items = row.items
                  /\ new.payment = row.payment /\ new.shipment = "failed"
  BY ZenonT(40) DEF StoreRows, Statuses

(* And its two helpers. *)
LEMMA StoreHelpers ==
    ASSUME NEW row \in StoreRows
    PROVE  /\ LET new == Memory!ReleaseItems(row)
              IN  /\ new \in StoreRows
                  /\ new.status = row.status
                  /\ row.items = "reserved" => new.items = "released"
                  /\ row.items # "reserved" => new.items = row.items
                  /\ new.payment = row.payment /\ new.shipment = row.shipment
           /\ LET new == Memory!VoidPayment(row)
              IN  /\ new \in StoreRows
                  /\ new.status = row.status /\ new.items = row.items
                  /\ row.payment = "authorized" => new.payment = "voided"
                  /\ row.payment # "authorized" => new.payment = row.payment
                  /\ new.shipment = row.shipment
  BY ZenonT(40) DEF StoreRows, Memory!ReleaseItems, Memory!VoidPayment

(* The in-memory operation that stands for the transaction of an event. *)
StoreEffect(type, row) ==
    CASE type = "inventory.reserved" ->
            [row EXCEPT !.status = "inventory_reserved", !.items = "reserved"]
      [] type = "inventory.rejected" -> [row EXCEPT !.items = "rejected"]
      [] type = "payment.authorized" ->
            [row EXCEPT !.status = "payment_authorized", !.payment = "authorized"]
      [] type = "payment.failed" -> [row EXCEPT !.payment = "failed"]
      [] type = "shipment.created" ->
            [row EXCEPT !.status = "shipment_created", !.shipment = "created"]
      [] type = "shipment.failed" -> [row EXCEPT !.shipment = "failed"]
      [] type = "order.completed" -> [row EXCEPT !.status = "completed"]
      [] type = "order.cancelled" ->
            Memory!VoidPayment(Memory!ReleaseItems([row EXCEPT !.status = "cancelled"]))
      [] type = "order.manual_review_required" -> [row EXCEPT !.status = "manual_review"]

(* Both stores write the same fields for an event. *)
LEMMA StoresWriteAlike ==
    ASSUME NEW row \in OrderRow, NEW told, NEW type, NEW new, Effect(type, row, new),
           type = "shipment.failed" => row.shipment # "created"
    PROVE  StoreRow(new, told \cup {type}) = StoreEffect(type, StoreRow(row, told))
  <1> DEFINE old == StoreRow(row, told)
             upd == StoreRow(new, told \cup {type})
             mem == StoreEffect(type, StoreRow(row, told))
             cancelling == [old EXCEPT !.status = "cancelled"]
             freed == Memory!ReleaseItems(cancelling)
  <1>1. /\ EffectWrites(type, row, new)
        /\ type \in HandlerEvents
        /\ new \in OrderRow
    BY EffectFields DEF EffectWrites
  <1>2. /\ old \in StoreRows
        /\ old.status = row.status
        /\ old.items = row.items
        /\ old.payment = row.payment
        /\ old.shipment = IF row.shipment = "created" THEN "created"
                          ELSE IF "shipment.failed" \in told THEN "failed" ELSE "none"
    BY StoreRowFields, Zenon
  <1>3. /\ upd \in StoreRows
        /\ upd.status = new.status
        /\ upd.items = new.items
        /\ upd.payment = new.payment
        /\ upd.shipment = IF new.shipment = "created" THEN "created"
                          ELSE IF "shipment.failed" \in told \cup {type}
                               THEN "failed" ELSE "none"
    BY <1>1, StoreRowFields, ZenonT(40)
  <1>4. /\ mem \in StoreRows
        /\ mem.status = new.status
        /\ mem.items = new.items
        /\ mem.payment = new.payment
        /\ mem.shipment = upd.shipment
    <2>1. CASE type = "inventory.reserved"
      <3>1. /\ mem \in StoreRows
            /\ mem.status = "inventory_reserved" /\ mem.items = "reserved"
            /\ mem.payment = old.payment /\ mem.shipment = old.shipment
        BY <1>2, <2>1, StoreUpdates, ZenonT(40) DEF StoreEffect
      <3> HIDE DEF old, upd, mem
      <3> QED BY <1>1, <1>2, <1>3, <2>1, <3>1, SMTT(30) DEF EffectWrites
    <2>2. CASE type = "inventory.rejected"
      <3>1. /\ mem \in StoreRows
            /\ mem.status = old.status /\ mem.items = "rejected"
            /\ mem.payment = old.payment /\ mem.shipment = old.shipment
        BY <1>2, <2>2, StoreUpdates, ZenonT(40) DEF StoreEffect
      <3> HIDE DEF old, upd, mem
      <3> QED BY <1>1, <1>2, <1>3, <2>2, <3>1, SMTT(30) DEF EffectWrites
    <2>3. CASE type = "payment.authorized"
      <3>1. /\ mem \in StoreRows
            /\ mem.status = "payment_authorized" /\ mem.items = old.items
            /\ mem.payment = "authorized" /\ mem.shipment = old.shipment
        BY <1>2, <2>3, StoreUpdates, ZenonT(40) DEF StoreEffect
      <3> HIDE DEF old, upd, mem
      <3> QED BY <1>1, <1>2, <1>3, <2>3, <3>1, SMTT(30) DEF EffectWrites
    <2>4. CASE type = "payment.failed"
      <3>1. /\ mem \in StoreRows
            /\ mem.status = old.status /\ mem.items = old.items
            /\ mem.payment = "failed" /\ mem.shipment = old.shipment
        BY <1>2, <2>4, StoreUpdates, ZenonT(40) DEF StoreEffect
      <3> HIDE DEF old, upd, mem
      <3> QED BY <1>1, <1>2, <1>3, <2>4, <3>1, SMTT(30) DEF EffectWrites
    <2>5. CASE type = "shipment.created"
      <3>1. /\ mem \in StoreRows
            /\ mem.status = "shipment_created" /\ mem.items = old.items
            /\ mem.payment = old.payment /\ mem.shipment = "created"
        BY <1>2, <2>5, StoreUpdates, ZenonT(40) DEF StoreEffect
      <3> HIDE DEF old, upd, mem
      <3> QED BY <1>1, <1>2, <1>3, <2>5, <3>1, SMTT(30) DEF EffectWrites
    <2>6. CASE type = "shipment.failed"
      <3>1. /\ mem \in StoreRows
            /\ mem.status = old.status /\ mem.items = old.items
            /\ mem.payment = old.payment /\ mem.shipment = "failed"
        BY <1>2, <2>6, StoreUpdates, ZenonT(40) DEF StoreEffect
      <3> HIDE DEF old, upd, mem
      <3> QED BY <1>1, <1>2, <1>3, <2>6, <3>1, SMTT(30) DEF EffectWrites
    <2>7. CASE type \in {"order.completed", "order.manual_review_required"}
      <3>1. PICK to \in Statuses : /\ type = "order.completed" => to = "completed"
                                   /\ type = "order.manual_review_required"
                                         => to = "manual_review"
        BY <2>7 DEF Statuses
      <3>2. mem = [old EXCEPT !.status = to]
        BY <2>7, <3>1, Zenon DEF StoreEffect
      <3> HIDE DEF old, upd, mem
      <3>3. /\ mem \in StoreRows
            /\ mem.status = to /\ mem.items = old.items
            /\ mem.payment = old.payment /\ mem.shipment = old.shipment
        BY <1>2, <3>2, StoreStatusUpdate, ZenonT(40)
      <3> QED BY <1>1, <1>2, <1>3, <2>7, <3>1, <3>3, SMTT(30) DEF EffectWrites
    <2>8. CASE type = "order.cancelled"
      <3>1. /\ cancelling \in StoreRows
            /\ cancelling.status = "cancelled" /\ cancelling.items = old.items
            /\ cancelling.payment = old.payment /\ cancelling.shipment = old.shipment
        <4>1. "cancelled" \in Statuses
          BY DEF Statuses
        <4> QED BY <1>2, <4>1, StoreStatusUpdate, Zenon
      <3>2. mem = Memory!VoidPayment(freed)
        BY <2>8, ZenonT(40) DEF StoreEffect
      <3> HIDE DEF cancelling
      <3>3. /\ freed \in StoreRows
            /\ freed.status = cancelling.status
            /\ cancelling.items = "reserved" => freed.items = "released"
            /\ cancelling.items # "reserved" => freed.items = cancelling.items
            /\ freed.payment = cancelling.payment /\ freed.shipment = cancelling.shipment
        BY <3>1, StoreHelpers, ZenonT(40)
      <3> HIDE DEF old, upd, mem, freed
      <3>4. /\ mem \in StoreRows
            /\ mem.status = freed.status /\ mem.items = freed.items
            /\ freed.payment = "authorized" => mem.payment = "voided"
            /\ freed.payment # "authorized" => mem.payment = freed.payment
            /\ mem.shipment = freed.shipment
        BY <3>2, <3>3, StoreHelpers, ZenonT(40)
      <3> QED BY <1>1, <1>2, <1>3, <2>8, <3>1, <3>3, <3>4, SMTT(30) DEF EffectWrites
    <2> QED BY <1>1, <2>1, <2>2, <2>3, <2>4, <2>5, <2>6, <2>7, <2>8, ZenonT(40)
            DEF HandlerEvents, EventTypes
  <1> HIDE DEF old, upd, mem
  <1>5. upd = mem
    BY <1>3, <1>4, StoreRowsAgree, SMTT(30)
  <1> QED BY <1>5 DEF upd, mem

(* The in-memory operation that stands for a compensation. *)
StoreCompensation(type, row) ==
    LET moved == [row EXCEPT !.status = CompensationTarget(type)]
        freed == IF type = "inventory.rejected" THEN moved ELSE Memory!ReleaseItems(moved)
    IN  IF type = "shipment.failed" THEN Memory!VoidPayment(freed) ELSE freed

(* Both stores compensate alike. *)
LEMMA StoresCompensateAlike ==
    ASSUME NEW row \in OrderRow, NEW told, NEW type \in RoutingKeys("orders.compensate")
    PROVE  StoreRow(Compensated(row, type), told)
              = StoreCompensation(type, StoreRow(row, told))
  <1> DEFINE old == StoreRow(row, told)
             new == Compensated(row, type)
             upd == StoreRow(new, told)
             moved == [old EXCEPT !.status = CompensationTarget(type)]
             freed == IF type = "inventory.rejected" THEN moved
                                                     ELSE Memory!ReleaseItems(moved)
             mem == IF type = "shipment.failed" THEN Memory!VoidPayment(freed) ELSE freed
  <1>1. /\ CompensationWrites(type, row, new)
        /\ new \in OrderRow
        /\ type \in {"inventory.rejected", "payment.failed", "shipment.failed"}
        /\ CompensationTarget(type) \in Statuses
    <2>1. CompensationWrites(type, row, new)
      BY CompensatedFields
    <2>2. type \in {"inventory.rejected", "payment.failed", "shipment.failed"}
      BY DEF RoutingKeys
    <2>3. CompensationTarget(type) \in Statuses
      BY <2>2, SMTT(30) DEF CompensationTarget, Statuses
    <2> QED BY <2>1, <2>2, <2>3, SMTT(30) DEF CompensationWrites
  <1>2. /\ old \in StoreRows
        /\ old.status = row.status
        /\ old.items = row.items
        /\ old.payment = row.payment
        /\ old.shipment = IF row.shipment = "created" THEN "created"
                          ELSE IF "shipment.failed" \in told THEN "failed" ELSE "none"
    BY StoreRowFields, Zenon
  <1> HIDE DEF new
  <1>3. /\ upd \in StoreRows
        /\ upd.status = new.status
        /\ upd.items = new.items
        /\ upd.payment = new.payment
        /\ upd.shipment = IF new.shipment = "created" THEN "created"
                          ELSE IF "shipment.failed" \in told THEN "failed" ELSE "none"
    BY <1>1, StoreRowFields, ZenonT(40)
  <1> HIDE DEF old, upd
  <1>4. /\ moved \in StoreRows
        /\ moved.status = CompensationTarget(type) /\ moved.items = old.items
        /\ moved.payment = old.payment /\ moved.shipment = old.shipment
    BY <1>1, <1>2, StoreStatusUpdate, ZenonT(40)
  <1> HIDE DEF moved
  <1>5. /\ freed \in StoreRows
        /\ freed.status = moved.status
        /\ type # "inventory.rejected" /\ moved.items = "reserved"
              => freed.items = "released"
        /\ type = "inventory.rejected" \/ moved.items # "reserved"
              => freed.items = moved.items
        /\ freed.payment = moved.payment /\ freed.shipment = moved.shipment
    BY <1>4, StoreHelpers, ZenonT(40)
  <1> HIDE DEF freed
  <1>6. /\ mem \in StoreRows
        /\ mem.status = freed.status /\ mem.items = freed.items
        /\ type = "shipment.failed" /\ freed.payment = "authorized"
              => mem.payment = "voided"
        /\ type # "shipment.failed" \/ freed.payment # "authorized"
              => mem.payment = freed.payment
        /\ mem.shipment = freed.shipment
    BY <1>5, StoreHelpers, ZenonT(40)
  <1> HIDE DEF mem
  <1>7. upd = mem
    <2>1. /\ upd.status = mem.status /\ upd.items = mem.items
          /\ upd.payment = mem.payment /\ upd.shipment = mem.shipment
      BY <1>1, <1>2, <1>3, <1>4, <1>5, <1>6, SMTT(30) DEF CompensationWrites
    <2> QED BY <1>3, <1>6, <2>1, StoreRowsAgree, SMTT(30)
  <1> QED BY <1>7, Zenon DEF upd, mem, freed, moved, old, new, StoreCompensation

(* Both stores show a new order, and an accepted cancel request, alike. *)
LEMMA StoresAcceptAlike ==
    ASSUME NEW told
    PROVE  /\ "shipment.failed" \notin told =>
                 /\ StoreRow(NoOrder, told) = [Memory!NewOrder EXCEPT !.status = "absent"]
                 /\ StoreRow(WithStatus(NoOrder, "pending_fulfillment"),
                             told \cup {"order.created"}) = Memory!NewOrder
           /\ \A row \in OrderRow :
                 StoreRow(WithStatus(row, "cancellation_pending"),
                          told \cup {"order.cancel_requested"})
                    = [StoreRow(row, told) EXCEPT !.status = "cancellation_pending"]
  <1> DEFINE first == Memory!NewOrder
             absent == [first EXCEPT !.status = "absent"]
             accepted == WithStatus(NoOrder, "pending_fulfillment")
  <1>0. {"absent", "pending_fulfillment", "cancellation_pending"} \subseteq Statuses
    BY DEF Statuses
  <1>1. /\ first \in StoreRows
        /\ first.status = "pending_fulfillment" /\ first.items = "pending"
        /\ first.payment = "pending_authorization" /\ first.shipment = "none"
    BY DEF StoreRows, Statuses, Memory!NewOrder
  <1>2. /\ NoOrder \in OrderRow
        /\ NoOrder.status = "absent" /\ NoOrder.items = "pending"
        /\ NoOrder.payment = "pending_authorization" /\ NoOrder.shipment = "none"
    BY DEF NoOrder, OrderRow, Statuses
  <1>3. /\ accepted \in OrderRow
        /\ accepted.status = "pending_fulfillment" /\ accepted.items = "pending"
        /\ accepted.payment = "pending_authorization" /\ accepted.shipment = "none"
    BY <1>0, <1>2, StatusEffect, Zenon
  <1> HIDE DEF first, accepted
  <1>4. /\ absent \in StoreRows
        /\ absent.status = "absent" /\ absent.items = "pending"
        /\ absent.payment = "pending_authorization" /\ absent.shipment = "none"
    BY <1>0, <1>1, StoreStatusUpdate, ZenonT(40)
  <1> HIDE DEF absent
  <1>5. ASSUME "shipment.failed" \notin told
        PROVE  /\ StoreRow(NoOrder, told) = absent
               /\ StoreRow(accepted, told \cup {"order.created"}) = first
    <2> DEFINE a == StoreRow(NoOrder, told)
               b == StoreRow(accepted, told \cup {"order.created"})
    <2>1. /\ a \in StoreRows /\ a.status = "absent" /\ a.items = "pending"
          /\ a.payment = "pending_authorization" /\ a.shipment = "none"
      BY <1>2, <1>5, StoreRowFields, ZenonT(40)
    <2>2. /\ b \in StoreRows /\ b.status = "pending_fulfillment" /\ b.items = "pending"
          /\ b.payment = "pending_authorization" /\ b.shipment = "none"
      <3>1. "shipment.failed" \notin told \cup {"order.created"}
        BY <1>5
      <3> QED BY <1>3, <3>1, StoreRowFields, ZenonT(40)
    <2> HIDE DEF a, b
    <2>3. a = absent /\ b = first
      BY <1>1, <1>4, <2>1, <2>2, StoreRowsAgree, SMTT(30)
    <2> QED BY <2>3 DEF a, b
  <1>6. ASSUME NEW row \in OrderRow
        PROVE  StoreRow(WithStatus(row, "cancellation_pending"),
                        told \cup {"order.cancel_requested"})
                  = [StoreRow(row, told) EXCEPT !.status = "cancellation_pending"]
    <2> DEFINE old == StoreRow(row, told)
               new == WithStatus(row, "cancellation_pending")
               a == StoreRow(new, told \cup {"order.cancel_requested"})
               b == [old EXCEPT !.status = "cancellation_pending"]
    <2>1. /\ new \in OrderRow
          /\ new.status = "cancellation_pending" /\ new.items = row.items
          /\ new.payment = row.payment /\ new.shipment = row.shipment
      BY <1>0, StatusEffect, Zenon
    <2>2. /\ old \in StoreRows
          /\ old.status = row.status
          /\ old.items = row.items
          /\ old.payment = row.payment
          /\ old.shipment = IF row.shipment = "created" THEN "created"
                            ELSE IF "shipment.failed" \in told THEN "failed" ELSE "none"
      BY StoreRowFields, Zenon
    <2> HIDE DEF new
    <2>3. /\ a \in StoreRows
          /\ a.status = new.status
          /\ a.items = new.items
          /\ a.payment = new.payment
          /\ a.shipment = IF new.shipment = "created" THEN "created"
                          ELSE IF "shipment.failed" \in told \cup {"order.cancel_requested"}
                               THEN "failed" ELSE "none"
      BY <2>1, StoreRowFields, ZenonT(40)
    <2> HIDE DEF old
    <2>4. /\ b \in StoreRows
          /\ b.status = "cancellation_pending" /\ b.items = old.items
          /\ b.payment = old.payment /\ b.shipment = old.shipment
      BY <1>0, <2>2, StoreStatusUpdate, ZenonT(40)
    <2> HIDE DEF a, b
    <2>5. a = b
      BY <2>1, <2>2, <2>3, <2>4, StoreRowsAgree, SMTT(30)
    <2> QED BY <2>5 DEF a, b, old, new
  <1> QED BY <1>5, <1>6 DEF absent, first, accepted

(* The tables as the in-memory store shows them. *)
MemoryOrders ==
    [o \in Orders |->
        [status   |-> orders[o].status,
         items    |-> orders[o].items,
         payment  |-> orders[o].payment,
         shipment |-> IF orders[o].shipment = "created" THEN "created"
                      ELSE IF Emitted(o, "shipment.failed") THEN "failed" ELSE "none"]]

MemoryOutbox ==
    [m \in DOMAIN outbox |-> [type |-> outbox[m].type, order |-> outbox[m].order]]

(* The in-memory store's row of an order. *)
LEMMA MemoryView ==
    /\ MemoryOrders = [o \in Orders |-> StoreRow(orders[o], Told(o))]
    /\ MemoryOrders' = [o \in Orders |-> StoreRow(orders'[o], Told(o)')]
  <1>1. \A o : /\ "shipment.failed" \in Told(o) <=> Emitted(o, "shipment.failed")
               /\ "shipment.failed" \in Told(o)' <=> Emitted(o, "shipment.failed")'
    BY DEF Told, EventTypes
  <1> QED BY <1>1, Zenon DEF MemoryOrders, StoreRow

(* A step about one order changes one order of the in-memory store. *)
LEMMA MemoryOrdersMove ==
    ASSUME NEW o \in Orders,
           \A p \in Orders \ {o} : orders'[p] = orders[p] /\ Told(p)' = Told(p)
    PROVE  MemoryOrders' = [MemoryOrders EXCEPT ![o] = StoreRow(orders'[o], Told(o)')]
  <1> DEFINE f == [p \in Orders |-> StoreRow(orders[p], Told(p))]
             g == [p \in Orders |-> StoreRow(orders'[p], Told(p)')]
             new == StoreRow(orders'[o], Told(o)')
  <1>1. \A p \in Orders :
           StoreRow(orders'[p], Told(p)') = IF p = o THEN new ELSE f[p]
    OBVIOUS
  <1>2. [f EXCEPT ![o] = new] = [p \in Orders |-> IF p = o THEN new ELSE f[p]]
    BY Zenon
  <1>3. g = [p \in Orders |-> IF p = o THEN new ELSE f[p]]
    BY <1>1, Zenon
  <1> HIDE DEF f, g
  <1> QED BY <1>2, <1>3, MemoryView, SMTT(30) DEF f, g

(* A sequence that is one element longer. *)
LEMMA AppendIs ==
    ASSUME NEW S, NEW n \in Nat, NEW f \in [1..n -> S], NEW g \in [1..(n + 1) -> S],
           \A m \in 1..n : g[m] = f[m]
    PROVE  g = Append(f, g[n + 1])
  <1> DEFINE e == g[n + 1]
  <1>1. f \in Seq(S) /\ Len(f) = n /\ g \in Seq(S) /\ Len(g) = n + 1 /\ e \in S
    BY SeqDef
  <1>2. /\ Append(f, e) \in Seq(S)
        /\ Len(Append(f, e)) = n + 1
        /\ \A m \in 1..n : Append(f, e)[m] = f[m]
        /\ Append(f, e)[n + 1] = e
    BY <1>1, AppendProperties, SMTT(30)
  <1>3. \A m \in 1..(n + 1) : m \in 1..n \/ m = n + 1
    OBVIOUS
  <1>4. \A m \in 1..(n + 1) : g[m] = Append(f, e)[m]
    BY <1>2, <1>3, Zenon
  <1> HIDE DEF e
  <1>5. g = Append(f, e)
    BY <1>1, <1>2, <1>4, SeqEqual, SMTT(30)
  <1> QED BY <1>5 DEF e

(* insertOutboxEvent appends one event to the in-memory outbox. *)
LEMMA MemoryOutboxAppends ==
    ASSUME outbox \in Seq(OutboxEvent), NEW type \in EventTypes, NEW o \in Orders,
           NEW cause, Emit(type, o, cause)
    PROVE  MemoryOutbox' = Append(MemoryOutbox, [type |-> type, order |-> o])
  <1> DEFINE n == Len(outbox)
             e == [type |-> type, order |-> o]
             S == [type : EventTypes, order : Orders]
  <1>1. n \in Nat /\ DOMAIN outbox = 1..n
    OBVIOUS
  <1>2. /\ DOMAIN outbox' = DOMAIN outbox \cup {n + 1}
        /\ \A m \in DOMAIN outbox : outbox'[m] = outbox[m]
        /\ outbox'[n + 1].type = type
        /\ outbox'[n + 1].order = o
    BY EmitAppends, Zenon
  <1>3. \A m \in 1..n : outbox[m].type \in EventTypes /\ outbox[m].order \in Orders
    <2>1. \A m \in 1..n : outbox[m] \in OutboxEvent
      BY ElementOfSeq, ZenonT(40)
    <2> QED BY <2>1, Zenon DEF OutboxEvent
  <1> HIDE DEF n
  <1>4. DOMAIN outbox' = 1..(n + 1)
    BY <1>1, <1>2
  <1>5. \A m \in 1..(n + 1) : m \in 1..n \/ m = n + 1
    BY <1>1
  <1>6. MemoryOutbox \in [1..n -> S]
    BY <1>1, <1>3, Zenon DEF MemoryOutbox
  <1>7. \A m \in 1..(n + 1) : outbox'[m].type \in EventTypes /\ outbox'[m].order \in Orders
    BY <1>1, <1>2, <1>3, <1>5, Zenon
  <1>8. MemoryOutbox' \in [1..(n + 1) -> S]
    BY <1>4, <1>7, Zenon DEF MemoryOutbox
  <1>9. \A m \in 1..n : MemoryOutbox'[m] = MemoryOutbox[m]
    <2>1. \A m \in 1..n : m \in 1..(n + 1)
      BY <1>1
    <2> QED BY <1>1, <1>2, <1>4, <2>1, Zenon DEF MemoryOutbox
  <1>10. MemoryOutbox'[n + 1] = e
    <2>1. n + 1 \in 1..(n + 1)
      BY <1>1
    <2> QED BY <1>2, <1>4, <2>1, Zenon DEF MemoryOutbox
  <1> HIDE DEF S, e
  <1>11. MemoryOutbox' = Append(MemoryOutbox, MemoryOutbox'[n + 1])
    BY <1>1, <1>6, <1>8, <1>9, AppendIs, ZenonT(40)
  <1> QED BY <1>10, <1>11, SMTT(30) DEF e

(* lockOrderStatusForUpdate and ValidateOrderTransition ask the same. *)
LEMMA SameValidation ==
    ASSUME NEW o \in Orders, NEW to, CanTransition(orders[o].status, to)
    PROVE  Memory!ValidateOrderTransition(o, to)
  BY ZenonT(40) DEF Memory!ValidateOrderTransition, Memory!Lifecycle!CanTransitionOrderStatus,
         Memory!Lifecycle!ValidOrderStatuses, CanTransition,
         Lifecycle!CanTransitionOrderStatus, Lifecycle!ValidOrderStatuses

(* An order that has a message has been accepted. *)
LEMMA RunsAreOfKnownOrders ==
    ASSUME IInv, RowsTold, NEW r \in runs, r.step \in {"reject", "declined", "unshipped"}
    PROVE  RowOf(r).status # "absent"
  <1>1. /\ RunConsistent(r) /\ RowConsistent(RowOf(r)) /\ OrderOf(r) \in Orders
        /\ r.msg \in DOMAIN outbox
    BY RunRow
  <1>2. r.queue \in {"inventory.reserve", "payments.authorize", "shipments.create"}
    BY <1>1 DEF RunConsistent, StepQueue
  <1>3. outbox[r.msg].type \in {"order.created", "inventory.reserved", "payment.authorized"}
    BY <1>1, <1>2, SMTT(30) DEF RunConsistent, RoutingKeys
  <1>4. Emitted(OrderOf(r), outbox[r.msg].type)
    BY <1>1 DEF Emitted, OrderOf
  <1>5. outbox[r.msg].type \in Told(OrderOf(r))
    BY <1>3, <1>4, SMTT(30) DEF Told, EventTypes
  <1>6. RowTold(RowOf(r), Told(OrderOf(r)))
    BY <1>1 DEF RowsTold, RowOf
  <1> QED BY <1>1, <1>3, <1>5, <1>6, ZenonT(40)
          DEF RowTold, RowConsistent, StockConsistent, AuthorizationConsistent

(* No shipment failed for an order that does not exist. *)
LEMMA AbsentOrdersHaveNoFailure ==
    ASSUME IInv, RowsTold, CauseInv, NEW o \in Orders, orders[o].status = "absent"
    PROVE  "shipment.failed" \notin Told(o)
  <1> SUFFICES ASSUME NEW n \in DOMAIN outbox,
                      outbox[n].type = "shipment.failed", outbox[n].order = o
               PROVE  FALSE
    BY DEF Told, Emitted
  <1>1. Caused(n)
    BY DEF CauseInv, HandlerEvents, EventTypes
  <1>2. Emitted(o, "payment.authorized")
    BY <1>1 DEF Caused, Emitted, EmittingQueue, RoutingKeys
  <1>3. "payment.authorized" \in Told(o)
    BY <1>2 DEF Told, EventTypes
  <1>4. RowTold(orders[o], Told(o)) /\ RowConsistent(orders[o])
    BY DEF RowsTold, IInv, RowsInv
  <1> QED BY <1>3, <1>4 DEF RowTold, RowConsistent, AuthorizationConsistent

(* The transaction of a handler is the Record operation of the same name. *)
LEMMA CommitIsMemoryStep ==
    ASSUME IInv, StoryInv, RowsTold, OnceInv,
           NEW r \in runs, NEW type \in HandlerEvents, Commits(r, type)
    PROVE  Memory!Next
  <1>1. /\ OrderOf(r) \in Orders
        /\ type \in EventTypes
        /\ Emit(type, OrderOf(r), r.msg)
        /\ Effect(type, RowOf(r), orders'[OrderOf(r)])
        /\ \A p \in Orders \ {OrderOf(r)} : orders'[p] = orders[p]
        /\ r.step = EmittingStep(type)
    BY CommitEffect, Zenon
  <1>2. PICK o \in Orders : o = OrderOf(r)
    BY <1>1
  <1>3. /\ outbox \in Seq(OutboxEvent) /\ orders[o] \in OrderRow
        /\ RowOf(r) = orders[o]
    BY <1>2, Zenon DEF IInv, TypeOK, RowOf
  <1>4. /\ Emit(type, o, r.msg)
        /\ Effect(type, orders[o], orders'[o])
        /\ \A p \in Orders \ {o} : orders'[p] = orders[p]
    BY <1>1, <1>2, <1>3, Zenon
  <1>5. /\ Told(o)' = Told(o) \cup {type}
        /\ \A p \in Orders \ {o} : Told(p)' = Told(p)
    BY <1>1, <1>3, <1>4, EmitTells, ZenonT(40)
  <1>6. type = "shipment.failed" => orders[o].shipment # "created"
    BY <1>1, <1>3, NoSuccessYet, ZenonT(40) DEF EmittingStep
  <1>7. MemoryOrders[o] = StoreRow(orders[o], Told(o))
    BY MemoryView, Zenon
  <1>8. MemoryOrders' = [MemoryOrders EXCEPT ![o] = StoreEffect(type, MemoryOrders[o])]
    <2>1. StoreRow(orders'[o], Told(o) \cup {type})
             = StoreEffect(type, StoreRow(orders[o], Told(o)))
      BY <1>3, <1>4, <1>6, StoresWriteAlike, ZenonT(40)
    <2>2. MemoryOrders' = [MemoryOrders EXCEPT ![o] = StoreRow(orders'[o], Told(o)')]
      BY <1>4, <1>5, MemoryOrdersMove, Zenon
    <2> QED BY <1>5, <1>7, <2>1, <2>2, ZenonT(40)
  <1>9. MemoryOutbox' = Append(MemoryOutbox, [type |-> type, order |-> o])
    BY <1>1, <1>3, <1>4, MemoryOutboxAppends, Zenon
  <1>10. type \in {"inventory.rejected", "payment.failed", "shipment.failed"}
            => Memory!Known(o)
    <2>1. ASSUME type \in {"inventory.rejected", "payment.failed", "shipment.failed"}
          PROVE  r.step \in {"reject", "declined", "unshipped"}
      BY <1>1, <2>1, SMTT(30) DEF EmittingStep
    <2> QED BY <1>3, <2>1, RunsAreOfKnownOrders, Zenon DEF Memory!Known
  <1>11. CASE type = "inventory.reserved"
    <2>1. CanTransition(orders[o].status, "inventory_reserved")
      BY <1>4, <1>11, EffectIsLegal, ZenonT(40)
    <2>2. Memory!RecordInventoryReserved(o)
      BY <1>8, <1>9, <1>11, <2>1, SameValidation, ZenonT(40)
         DEF Memory!RecordInventoryReserved, Memory!Store, StoreEffect,
             MemoryOrders, MemoryOutbox
    <2> QED BY <2>2, SMTT(30) DEF Memory!Next, Memory!Record
  <1>12. CASE type = "inventory.rejected"
    <2>1. Memory!RecordInventoryRejected(o)
      BY <1>8, <1>9, <1>10, <1>12, ZenonT(40)
         DEF Memory!RecordInventoryRejected, Memory!Store, StoreEffect,
             MemoryOrders, MemoryOutbox
    <2> QED BY <2>1 DEF Memory!Next, Memory!Record
  <1>13. CASE type = "payment.authorized"
    <2>1. CanTransition(orders[o].status, "payment_authorized")
      BY <1>4, <1>13, EffectIsLegal, ZenonT(40)
    <2>2. Memory!RecordPaymentAuthorized(o)
      BY <1>8, <1>9, <1>13, <2>1, SameValidation, ZenonT(40)
         DEF Memory!RecordPaymentAuthorized, Memory!Store, StoreEffect,
             MemoryOrders, MemoryOutbox
    <2> QED BY <2>2, SMTT(30) DEF Memory!Next, Memory!Record
  <1>14. CASE type = "payment.failed"
    <2>1. Memory!RecordPaymentFailed(o)
      BY <1>8, <1>9, <1>10, <1>14, ZenonT(40)
         DEF Memory!RecordPaymentFailed, Memory!Store, StoreEffect,
             MemoryOrders, MemoryOutbox
    <2> QED BY <2>1 DEF Memory!Next, Memory!Record
  <1>15. CASE type = "shipment.created"
    <2>1. CanTransition(orders[o].status, "shipment_created")
      BY <1>4, <1>15, EffectIsLegal, ZenonT(40)
    <2>2. Memory!RecordShipmentCreated(o)
      BY <1>8, <1>9, <1>15, <2>1, SameValidation, ZenonT(40)
         DEF Memory!RecordShipmentCreated, Memory!Store, StoreEffect,
             MemoryOrders, MemoryOutbox
    <2> QED BY <2>2, SMTT(30) DEF Memory!Next, Memory!Record
  <1>16. CASE type = "shipment.failed"
    <2>1. Memory!RecordShipmentFailed(o)
      BY <1>8, <1>9, <1>10, <1>16, ZenonT(40)
         DEF Memory!RecordShipmentFailed, Memory!Store, StoreEffect,
             MemoryOrders, MemoryOutbox
    <2> QED BY <2>1 DEF Memory!Next, Memory!Record
  <1>17. CASE type = "order.completed"
    <2>1. CanTransition(orders[o].status, "completed")
      BY <1>4, <1>17, EffectIsLegal, ZenonT(40)
    <2>2. Memory!UpdateOrderStatus(o, "completed", "order.completed")
      BY <1>8, <1>9, <1>17, <2>1, SameValidation, ZenonT(40)
         DEF Memory!UpdateOrderStatus, Memory!Store, StoreEffect,
             MemoryOrders, MemoryOutbox
    <2> QED BY <2>2, ZenonT(40) DEF Memory!Next, Memory!Lifecycle!ValidOrderStatuses
  <1>18. CASE type = "order.cancelled"
    <2>1. CanTransition(orders[o].status, "cancelled")
      BY <1>4, <1>18, EffectIsLegal, ZenonT(40)
    <2>2. Memory!RecordOrderCancelled(o)
      BY <1>8, <1>9, <1>18, <2>1, SameValidation, ZenonT(40)
         DEF Memory!RecordOrderCancelled, Memory!Store, StoreEffect,
             MemoryOrders, MemoryOutbox
    <2> QED BY <2>2, SMTT(30) DEF Memory!Next, Memory!Record
  <1>19. CASE type = "order.manual_review_required"
    <2>1. CanTransition(orders[o].status, "manual_review")
      BY <1>4, <1>19, EffectIsLegal, ZenonT(40)
    <2>2. Memory!UpdateOrderStatus(o, "manual_review", "order.manual_review_required")
      BY <1>8, <1>9, <1>19, <2>1, SameValidation, ZenonT(40)
         DEF Memory!UpdateOrderStatus, Memory!Store, StoreEffect,
             MemoryOrders, MemoryOutbox
    <2> QED BY <2>2, ZenonT(40) DEF Memory!Next, Memory!Lifecycle!ValidOrderStatuses
  <1> QED BY <1>11, <1>12, <1>13, <1>14, <1>15, <1>16, <1>17, <1>18, <1>19, SMTT(30)
          DEF HandlerEvents, EventTypes

(* A compensation is one in memory too; it appends no event. *)
LEMMA CompensationIsMemoryStep ==
    ASSUME IInv, NEW r \in runs, RecordCompensation(r)
    PROVE  Memory!Next
  <1> DEFINE type == outbox[r.msg].type
  <1>1. /\ OrderOf(r) \in Orders
        /\ type \in RoutingKeys("orders.compensate")
        /\ CanTransition(RowOf(r).status, CompensationTarget(type))
        /\ orders'[OrderOf(r)] = Compensated(RowOf(r), type)
        /\ \A p \in Orders \ {OrderOf(r)} : orders'[p] = orders[p]
        /\ outbox' = outbox
    BY CompensationEffect, Zenon
  <1>2. PICK o \in Orders : o = OrderOf(r)
    BY <1>1, ZenonT(40)
  <1>3. PICK source \in RoutingKeys("orders.compensate") : source = type
    BY <1>1
  <1> HIDE DEF type
  <1>4. orders[o] \in OrderRow /\ RowOf(r) = orders[o]
    BY <1>2, Zenon DEF IInv, TypeOK, RowOf
  <1> DEFINE to == CompensationTarget(source)
  <1>5. /\ CanTransition(orders[o].status, to)
        /\ orders'[o] = Compensated(orders[o], source)
        /\ \A p \in Orders \ {o} : orders'[p] = orders[p]
        /\ \A p : Told(p)' = Told(p)
    BY <1>1, <1>2, <1>3, <1>4, Zenon DEF Told, Emitted
  <1>6. MemoryOrders' = [MemoryOrders EXCEPT ![o] = StoreCompensation(source, MemoryOrders[o])]
    <2>1. MemoryOrders[o] = StoreRow(orders[o], Told(o))
      BY MemoryView, Zenon
    <2>2. StoreRow(Compensated(orders[o], source), Told(o))
             = StoreCompensation(source, StoreRow(orders[o], Told(o)))
      BY <1>4, StoresCompensateAlike, ZenonT(40)
    <2>3. MemoryOrders' = [MemoryOrders EXCEPT ![o] = StoreRow(orders'[o], Told(o)')]
      BY <1>5, MemoryOrdersMove, Zenon
    <2> QED BY <1>5, <2>1, <2>2, <2>3, ZenonT(40)
  <1>7. MemoryOutbox' = MemoryOutbox
    BY <1>1, Zenon DEF MemoryOutbox
  <1>8. /\ <<source, to>> \in {<<"inventory.rejected", "failed">>,
                               <<"payment.failed", "cancelled">>,
                               <<"shipment.failed", "cancellation_pending">>}
        /\ source \in {"inventory.rejected", "payment.failed", "shipment.failed"}
        /\ to \in Memory!Lifecycle!ValidOrderStatuses
    BY SMTT(30) DEF RoutingKeys, CompensationTarget, Memory!Lifecycle!ValidOrderStatuses
  <1>9. Memory!ValidateOrderTransition(o, to)
    BY <1>5, SameValidation, Zenon
  <1>10. Memory!RecordCompensation(o, source, to)
    BY <1>6, <1>7, <1>8, <1>9, ZenonT(40)
       DEF Memory!RecordCompensation, StoreCompensation, MemoryOrders, MemoryOutbox
  <1> QED BY <1>8, <1>10, ZenonT(40) DEF Memory!Next

(* The API's operations are InsertOrder and UpdateOrderStatus. *)
LEMMA ApiIsMemoryStep ==
    ASSUME IInv, RowsTold, CauseInv, NEW o \in Orders, CreateOrder(o) \/ CancelOrder(o)
    PROVE  Memory!Next
  <1>1. \A p \in Orders \ {o} : orders'[p] = orders[p]
    BY ApiEffect, Zenon
  <1>2. outbox \in Seq(OutboxEvent) /\ orders[o] \in OrderRow
    BY Zenon DEF IInv, TypeOK
  <1>3. {"order.created", "order.cancel_requested"} \subseteq EventTypes
    BY DEF EventTypes
  <1>4. MemoryOrders[o] = StoreRow(orders[o], Told(o))
    BY MemoryView, Zenon
  <1>5. CASE Accepted(o) /\ Emit("order.created", o, 0)
    <2>1. /\ Told(o)' = Told(o) \cup {"order.created"}
          /\ \A p \in Orders \ {o} : Told(p)' = Told(p)
      BY <1>2, <1>3, <1>5, EmitTells, ZenonT(40)
    <2>2. "shipment.failed" \notin Told(o)
      BY <1>5, AbsentOrdersHaveNoFailure DEF Accepted
    <2>3. StoreRow(orders'[o], Told(o)') = Memory!NewOrder
      BY <1>5, <2>1, <2>2, StoresAcceptAlike, ZenonT(40) DEF Accepted
    <2>4. MemoryOrders' = [MemoryOrders EXCEPT ![o] = Memory!NewOrder]
      BY <1>1, <2>1, <2>3, MemoryOrdersMove, ZenonT(40)
    <2>5. MemoryOutbox' = Append(MemoryOutbox, [type |-> "order.created", order |-> o])
      BY <1>2, <1>3, <1>5, MemoryOutboxAppends, ZenonT(40)
    <2>6. ~Memory!Known(o)
      BY <1>5, Zenon DEF Accepted, Memory!Known
    <2>7. Memory!InsertOrder(o)
      BY <2>4, <2>5, <2>6, ZenonT(40)
         DEF Memory!InsertOrder, Memory!Store, MemoryOrders, MemoryOutbox
    <2> QED BY <2>7, ZenonT(40) DEF Memory!Next
  <1>6. CASE /\ CanTransition(orders[o].status, "cancellation_pending")
             /\ orders'[o] = WithStatus(orders[o], "cancellation_pending")
             /\ Emit("order.cancel_requested", o, 0)
    <2>1. /\ Told(o)' = Told(o) \cup {"order.cancel_requested"}
          /\ \A p \in Orders \ {o} : Told(p)' = Told(p)
      BY <1>2, <1>3, <1>6, EmitTells, ZenonT(40)
    <2>2. StoreRow(orders'[o], Told(o)')
             = [MemoryOrders[o] EXCEPT !.status = "cancellation_pending"]
      <3>1. StoreRow(WithStatus(orders[o], "cancellation_pending"),
                     Told(o) \cup {"order.cancel_requested"})
               = [StoreRow(orders[o], Told(o)) EXCEPT !.status = "cancellation_pending"]
        BY <1>2, StoresAcceptAlike, ZenonT(40)
      <3> QED BY <1>4, <1>6, <2>1, <3>1, ZenonT(40)
    <2>3. MemoryOrders' = [MemoryOrders EXCEPT ![o] =
                              [MemoryOrders[o] EXCEPT !.status = "cancellation_pending"]]
      BY <1>1, <2>1, <2>2, MemoryOrdersMove, ZenonT(40)
    <2>4. MemoryOutbox' = Append(MemoryOutbox,
                                 [type |-> "order.cancel_requested", order |-> o])
      BY <1>2, <1>3, <1>6, MemoryOutboxAppends, ZenonT(40)
    <2>5. Memory!ValidateOrderTransition(o, "cancellation_pending")
      BY <1>6, SameValidation, ZenonT(40)
    <2>6. Memory!UpdateOrderStatus(o, "cancellation_pending", "order.cancel_requested")
      BY <2>3, <2>4, <2>5, ZenonT(40)
         DEF Memory!UpdateOrderStatus, Memory!Store, MemoryOrders, MemoryOutbox
    <2> QED BY <2>6, ZenonT(40) DEF Memory!Next, Memory!Lifecycle!ValidOrderStatuses
  <1> QED BY <1>5, <1>6, ApiEffect, Zenon

(* Refinement: what the workers do to the Postgres store, concurrently and   *)
(* with retries, is a sequence of operations of the in-memory store.  A       *)
(* commit that is reported as an error is applied twice, so there are none.   *)
THEOREM SagaImplementsMemoryStore ==
    ASSUME "lost_commit" \notin FaultKinds
    PROVE  Spec => AgreesWithMemoryStore
  <1>1. Init => Memory!Init
    <2> SUFFICES ASSUME Init PROVE Memory!Init
      OBVIOUS
    <2>1. \A o \in Orders : orders[o] = NoOrder /\ "shipment.failed" \notin Told(o)
      BY DEF Init, Told, Emitted
    <2>2. \A o \in Orders : StoreRow(orders[o], Told(o))
                               = [Memory!NewOrder EXCEPT !.status = "absent"]
      BY <2>1, StoresAcceptAlike, Zenon
    <2>3. MemoryOrders = [o \in Orders |-> [Memory!NewOrder EXCEPT !.status = "absent"]]
      BY <2>2, MemoryView, Zenon
    <2>4. MemoryOutbox = <<>>
      BY DEF Init, MemoryOutbox
    <2> QED BY <2>3, <2>4, Zenon DEF Memory!Init, MemoryOrders, MemoryOutbox
  <1>2. IInv /\ StoryInv /\ EffectsInv /\ [Next]_vars
           => [Memory!Next]_<<MemoryOrders, MemoryOutbox>>
    <2> SUFFICES ASSUME IInv, StoryInv, EffectsInv, [Next]_vars
                 PROVE  Memory!Next \/ UNCHANGED <<MemoryOrders, MemoryOutbox>>
      OBVIOUS
    <2>1. RowsTold /\ CauseInv /\ OnceInv
      BY RowsAreTold DEF RowsTold, StoryInv, CancelInv, EffectsInv
    <2>2. CASE UNCHANGED <<orders, outbox, compensations>>
      BY <2>2, Zenon DEF MemoryOrders, MemoryOutbox, Emitted
    <2>3. CASE \E o \in Orders : CreateOrder(o) \/ CancelOrder(o)
      BY <2>1, <2>3, ApiIsMemoryStep, SMTT(30)
    <2>4. CASE \E r \in runs : \E type \in HandlerEvents : Commits(r, type)
      BY <2>1, <2>4, CommitIsMemoryStep, SMTT(30)
    <2>5. CASE \E r \in runs : RecordCompensation(r)
      BY <2>5, CompensationIsMemoryStep
    <2> QED BY <2>2, <2>3, <2>4, <2>5, StepKinds, SMTT(30)
  <1>3. AgreesWithMemoryStore
           <=> Memory!Init /\ [][Memory!Next]_<<MemoryOrders, MemoryOutbox>>
    BY DEF AgreesWithMemoryStore, Memory!Spec, Memory!vars, MemoryOrders, MemoryOutbox
  <1> QED BY <1>1, <1>2, <1>3, InductiveInvariant, StoryInvariant, EffectsInvariant, PTL
          DEF Spec
=============================================================================
