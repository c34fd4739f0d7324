------------------------------ MODULE Inventory ------------------------------
(***************************************************************************)
(* Stock: inventory_items and stock_reservations under the row locks of    *)
(* RecordInventoryReserved and releaseReservedStock                        *)
(* (internal/postgres/store.go).  Transactions of different orders         *)
(* interleave at every statement: each UPDATE locks the rows it writes     *)
(* until its transaction ends, a statement sees the committed rows of its  *)
(* start (READ COMMITTED) and checks a row again after waiting for it, and *)
(* the database aborts one transaction of a cycle of waits.                *)
(*                                                                         *)
(* The order row is locked first, so an order has one transaction at a     *)
(* time; stage[o] is what OrderSaga says of it as far as stock goes.       *)
(***************************************************************************)
EXTENDS Integers, FiniteSets, Sequences, FiniteSetsExt

CONSTANTS
    Orders,
    Warehouses,     \* the merchant's active warehouses, numbered by row id
    Skus,
    Items,          \* Items[o]: the sequence of [sku, quantity] of order o
    Stock,          \* Stock[<<w, s>>]: units available at the start
    MaxRetries      \* retries of a message before its dead-letter queue

Rows == Warehouses \X Skus

ASSUME InventoryConstants ==
    /\ Warehouses \subseteq Nat
    /\ Stock \in [Rows -> Nat]
    /\ MaxRetries \in Nat
    /\ \A o \in Orders :
          /\ Items[o] \in Seq([sku : Skus, quantity : Nat \ {0}])
          /\ \A i, j \in DOMAIN Items[o] :
                Items[o][i].sku = Items[o][j].sku => i = j

VARIABLES
    available,      \* inventory_items.available_quantity, committed
    reserved,       \* inventory_items.reserved_quantity, committed
    held,           \* held[o]: rows of o's 'reserved' stock_reservations
    stage,          \* stage[o]
    tx,             \* tx[o]: the transaction in progress for o
    aborts          \* aborts[o][kind]: failed attempts of o's two messages

vars == <<available, reserved, held, stage, tx, aborts>>

Stages == {"pending", "reserved", "rejected", "released"}

Kinds == {"reserve", "release"}

MayTry(o, kind) == aborts[o][kind] <= MaxRetries

(* next: the item a reserving transaction is at; candidates: the warehouses  *)
(* its current statement has still to try, when it is "selecting", with the  *)
(* quantities that order them; rows: the rows it has locked and written.     *)
NoTx == [kind |-> "none", next |-> 0, selecting |-> FALSE, candidates |-> <<>>,
         rows |-> {}]

Quantity(o, s) ==
    LET i == CHOOSE i \in DOMAIN Items[o] : Items[o][i].sku = s
    IN  Items[o][i].quantity

LockedByOther(o, row) == \E p \in Orders \ {o} : row \in tx[p].rows

Init ==
    /\ available = Stock
    /\ reserved = [row \in Rows |-> 0]
    /\ held = [o \in Orders |-> {}]
    /\ stage = [o \in Orders |-> "pending"]
    /\ tx = [o \in Orders |-> NoTx]
    /\ aborts = [o \in Orders |-> [kind \in Kinds |-> 0]]

-----------------------------------------------------------------------------
(* RecordInventoryReserved                                                 *)

(* A second reservation of a reserved order (a retry after a commit that    *)
(* was reported as an error) is a legal transition to the same status.      *)
BeginReserve(o) ==
    /\ tx[o] = NoTx
    /\ MayTry(o, "reserve")
    /\ stage[o] \in {"pending", "reserved"}
    /\ tx' = [tx EXCEPT ![o] = [NoTx EXCEPT !.kind = "reserve", !.next = 1]]
    /\ UNCHANGED <<available, reserved, held, stage, aborts>>

Reserving(o) == tx[o].kind = "reserve" /\ tx[o].next <= Len(Items[o])

Item(o) == Items[o][tx[o].next]

(* An item that is already reserved keeps its warehouse. *)
KeepReservation(o) ==
    /\ Reserving(o) /\ ~tx[o].selecting
    /\ \E w \in Warehouses : <<w, Item(o).sku>> \in held[o]
    /\ tx' = [tx EXCEPT ![o].next = @ + 1]
    /\ UNCHANGED <<available, reserved, held, stage, aborts>>

(* The candidate query starts: warehouses with enough stock. *)
SelectCandidates(o) ==
    LET s == Item(o).sku
        enough == {w \in Warehouses : available[<<w, s>>] >= Item(o).quantity}
    IN  /\ Reserving(o) /\ ~tx[o].selecting
        /\ \A w \in Warehouses : <<w, s>> \notin held[o]
        /\ tx' = [tx EXCEPT ![o].selecting = TRUE,
                            ![o].candidates = [w \in enough |-> available[<<w, s>>]]]
        /\ UNCHANGED <<available, reserved, held, stage, aborts>>

(* The next candidate: the fullest warehouse first, then by id. *)
IsFirst(w, candidates) ==
    /\ w \in DOMAIN candidates
    /\ \A v \in DOMAIN candidates \ {w} :
          \/ candidates[w] > candidates[v]
          \/ candidates[w] = candidates[v] /\ w < v

(* FOR UPDATE gets the first candidate's row and checks it again; the row   *)
(* is written, or the next candidate is tried.                              *)
LockCandidate(o) ==
    \E w \in Warehouses :
        LET row == <<w, Item(o).sku>>
        IN  /\ Reserving(o) /\ tx[o].selecting /\ IsFirst(w, tx[o].candidates)
            /\ ~LockedByOther(o, row)
            /\ IF available[row] >= Item(o).quantity
               THEN tx' = [tx EXCEPT ![o].rows = @ \cup {row}, ![o].next = @ + 1,
                                     ![o].selecting = FALSE, ![o].candidates = <<>>]
               ELSE tx' = [tx EXCEPT ![o].candidates = Restrict(@, DOMAIN @ \ {w})]
            /\ UNCHANGED <<available, reserved, held, stage, aborts>>

(* Mutant: the items reserved so far are committed. *)
InsufficientStockCommits(o) ==
    /\ Reserving(o) /\ tx[o].selecting /\ tx[o].candidates = <<>>
    /\ tx' = [tx EXCEPT ![o] = NoTx]
    /\ held' = [held EXCEPT ![o] = @ \cup tx[o].rows]
    /\ stage' = [stage EXCEPT ![o] = "rejected"]
    /\ UNCHANGED <<available, reserved, aborts>>

(* No candidate is left: ErrInsufficientStock rolls everything back.        *)
InsufficientStock(o) ==
    /\ Reserving(o) /\ tx[o].selecting /\ tx[o].candidates = <<>>
    /\ tx' = [tx EXCEPT ![o] = NoTx]
    /\ stage' = [stage EXCEPT ![o] = "rejected"]
    /\ UNCHANGED <<available, reserved, held, aborts>>

CommitReserve(o) ==
    /\ tx[o].kind = "reserve" /\ tx[o].next > Len(Items[o])
    /\ available' = [row \in Rows |-> IF row \in tx[o].rows
                        THEN available[row] - Quantity(o, row[2]) ELSE available[row]]
    /\ reserved' = [row \in Rows |-> IF row \in tx[o].rows
                        THEN reserved[row] + Quantity(o, row[2]) ELSE reserved[row]]
    /\ held' = [held EXCEPT ![o] = @ \cup tx[o].rows]
    /\ stage' = [stage EXCEPT ![o] = "reserved"]
    /\ tx' = [tx EXCEPT ![o] = NoTx]
    /\ UNCHANGED aborts

-----------------------------------------------------------------------------
(* releaseReservedStock, in a cancellation or a compensation               *)

(* A release may come at any stage, and more than once. *)
BeginRelease(o) ==
    /\ tx[o] = NoTx
    /\ MayTry(o, "release")
    /\ tx' = [tx EXCEPT ![o] = [NoTx EXCEPT !.kind = "release"]]
    /\ UNCHANGED <<available, reserved, held, stage, aborts>>

(* One UPDATE writes the rows of all reservations, in no particular order. *)
LockHeldRow(o, row) ==
    /\ tx[o].kind = "release"
    /\ row \in held[o] \ tx[o].rows
    /\ ~LockedByOther(o, row)
    /\ tx' = [tx EXCEPT ![o].rows = @ \cup {row}]
    /\ UNCHANGED <<available, reserved, held, stage, aborts>>

(* Mutant: the reservations stay 'reserved', so a second release counts too. *)
CommitReleaseKeepsReservations(o) ==
    LET Greatest(x, y) == IF x > y THEN x ELSE y
    IN  /\ tx[o].kind = "release" /\ tx[o].rows = held[o]
        /\ available' = [row \in Rows |-> IF row \in tx[o].rows
                THEN available[row] + Quantity(o, row[2]) ELSE available[row]]
        /\ reserved' = [row \in Rows |-> IF row \in tx[o].rows
                THEN Greatest(reserved[row] - Quantity(o, row[2]), 0) ELSE reserved[row]]
        /\ stage' = [stage EXCEPT ![o] = "released"]
        /\ tx' = [tx EXCEPT ![o] = NoTx]
        /\ UNCHANGED <<held, aborts>>

CommitRelease(o) ==
    LET Greatest(x, y) == IF x > y THEN x ELSE y
    IN  /\ tx[o].kind = "release" /\ tx[o].rows = held[o]
        /\ available' = [row \in Rows |-> IF row \in tx[o].rows
                THEN available[row] + Quantity(o, row[2]) ELSE available[row]]
        /\ reserved' = [row \in Rows |-> IF row \in tx[o].rows
                THEN Greatest(reserved[row] - Quantity(o, row[2]), 0) ELSE reserved[row]]
        /\ held' = [held EXCEPT ![o] = {}]
        /\ stage' = [stage EXCEPT ![o] = "released"]
        /\ tx' = [tx EXCEPT ![o] = NoTx]
        /\ UNCHANGED aborts

-----------------------------------------------------------------------------
(* The database                                                            *)

(* The rows o's current statement is waiting for, or could be. *)
Wanted(o) ==
    IF tx[o].kind = "release" THEN held[o] \ tx[o].rows
    ELSE {<<w, Item(o).sku>> : w \in {w \in Warehouses : IsFirst(w, tx[o].candidates)}}

WaitsFor(o, p) == p # o /\ Wanted(o) \cap tx[p].rows # {}

Blocked(o) == Wanted(o) # {} /\ \A row \in Wanted(o) : LockedByOther(o, row)

(* Mutant: waits have no way out. *)
DeadlockUndetected(o) == FALSE /\ UNCHANGED vars

(* Deadlock detection aborts a transaction of a cycle; the handler returns  *)
(* the error and the message is retried.                                    *)
DeadlockDetected(o) ==
    /\ \E S \in SUBSET Orders :
          /\ o \in S
          /\ \A p \in S : Blocked(p) /\ \E q \in S : WaitsFor(p, q)
    /\ tx' = [tx EXCEPT ![o] = NoTx]
    /\ aborts' = [aborts EXCEPT ![o][tx[o].kind] = @ + 1]
    /\ UNCHANGED <<available, reserved, held, stage>>

-----------------------------------------------------------------------------
Reserve(o) ==
    \/ BeginReserve(o)
    \/ KeepReservation(o)
    \/ SelectCandidates(o)
    \/ LockCandidate(o)
    \/ InsufficientStock(o)
    \/ CommitReserve(o)

Next ==
    \E o \in Orders :
        \/ Reserve(o)
        \/ BeginRelease(o)
        \/ \E row \in Rows : LockHeldRow(o, row)
        \/ CommitRelease(o)
        \/ DeadlockDetected(o)

Spec == Init /\ [][Next]_vars

(* A worker that has a message keeps executing its statements.  A statement  *)
(* that waits for a row gets it in the order of the row's lock queue, so it  *)
(* is not overtaken for ever (SF).                                          *)
Fairness ==
    \A o \in Orders :
        /\ WF_vars(BeginReserve(o) /\ stage[o] = "pending")
        /\ WF_vars(KeepReservation(o))
        /\ WF_vars(SelectCandidates(o))
        /\ SF_vars(LockCandidate(o))
        /\ WF_vars(InsufficientStock(o))
        /\ WF_vars(CommitReserve(o))
        /\ SF_vars(\E row \in Rows : LockHeldRow(o, row))
        /\ WF_vars(CommitRelease(o))
        /\ WF_vars(DeadlockDetected(o))

FairSpec == Spec /\ Fairness

-----------------------------------------------------------------------------
(* Properties                                                              *)

Holders(row) == {o \in Orders : row \in held[o]}

(* reserved_quantity is what the 'reserved' stock_reservations of the row    *)
(* add up to and available_quantity is the rest: reserving, releasing twice  *)
(* and rolling back create and lose no unit, the GREATEST of                 *)
(* releaseInventoryItems never hides an underflow, and no warehouse promises *)
(* a unit it does not have, whatever transactions run side by side.          *)
StockIsConserved ==
    \A row \in Rows :
        /\ available[row] >= 0
        /\ available[row] + reserved[row] = Stock[row]
        /\ reserved[row] =
              SumFunctionOnSet([o \in Holders(row) |-> Quantity(o, row[2])], Holders(row))

(* An order holds every one of its items in one warehouse each, from the     *)
(* commit of its reservation to its release, and nothing at any other time:  *)
(* ErrInsufficientStock on a later item gives the earlier ones back.         *)
AllOrNothing ==
    \A o \in Orders :
        IF stage[o] = "reserved"
        THEN \A i \in DOMAIN Items[o] :
                Cardinality({w \in Warehouses : <<w, Items[o][i].sku>> \in held[o]}) = 1
        ELSE held[o] = {}

(* No order waits for stock for ever, although orders lock rows in the order *)
(* of their own items and so in opposite orders: it is reserved, refused,    *)
(* released, or its message reaches the dead-letter queue.                   *)
EveryOrderIsAnswered ==
    \A o \in Orders :
        <>[](stage[o] # "pending" \/ ~MayTry(o, "reserve"))
=============================================================================
