--------------------------- MODULE InventoryProofs ---------------------------
(***************************************************************************)
(* Proofs about Inventory for any orders, items, warehouses, stock and      *)
(* number of retries: an order holds all of its items or none, and what a   *)
(* warehouse has and what the orders hold of it add up to its stock.        *)
(*                                                                         *)
(* The inductive invariant says what the transaction of an order knows at   *)
(* each item (Progress), that the rows it has written still have the stock  *)
(* it found there (Covered), and that no two transactions wrote one row.    *)
(***************************************************************************)
EXTENDS Inventory, Sums, FiniteSetTheorems, TLAPS

Candidates == UNION {[W -> Nat] : W \in SUBSET Warehouses}

Transactions ==
    [kind : Kinds \cup {"none"}, next : Nat, selecting : BOOLEAN,
     candidates : Candidates, rows : SUBSET Rows]

Types ==
    /\ available \in [Rows -> Nat]
    /\ held \in [Orders -> SUBSET Rows]
    /\ stage \in [Orders -> Stages]
    /\ tx \in [Orders -> Transactions]

Sku(o, i) == Items[o][i].sku

(* The rows S have exactly one warehouse for the sku. *)
OneWarehouse(S, s) ==
    \E w \in Warehouses : \A v \in Warehouses : <<v, s>> \in S <=> v = w

NoWarehouse(S, s) == \A v \in Warehouses : <<v, s>> \notin S

OfItems(o, S) == \A row \in S : \E i \in DOMAIN Items[o] : row[2] = Sku(o, i)

(* What is committed for an order: one warehouse for each item, or nothing.  *)
Whole(o) ==
    /\ OfItems(o, held[o])
    /\ IF stage[o] = "reserved"
       THEN \A i \in DOMAIN Items[o] : OneWarehouse(held[o], Sku(o, i))
       ELSE held[o] = {}

(* What a reserving transaction has done: one warehouse for each item before  *)
(* the one it is at, and nothing for the others.                             *)
Progress(o) ==
    /\ OfItems(o, tx[o].rows)
    /\ tx[o].kind = "reserve" =>
          /\ tx[o].next \in 1..(Len(Items[o]) + 1)
          /\ \A i \in DOMAIN Items[o] :
                IF i < tx[o].next
                THEN OneWarehouse(held[o] \cup tx[o].rows, Sku(o, i))
                ELSE NoWarehouse(tx[o].rows, Sku(o, i))
          /\ tx[o].selecting =>
                /\ tx[o].next <= Len(Items[o])
                /\ NoWarehouse(held[o], Sku(o, tx[o].next))

(* The rows a reserving transaction has written had enough stock.            *)
Covered(o) ==
    tx[o].kind = "reserve" =>
        \A row \in tx[o].rows : available[row] >= Quantity(o, row[2])

Exclusive == \A o, p \in Orders : o # p => tx[o].rows \cap tx[p].rows = {}

IInv ==
    /\ Types
    /\ Exclusive
    /\ \A o \in Orders : Whole(o) /\ Progress(o) /\ Covered(o)

-----------------------------------------------------------------------------
(* Items and candidates                                                    *)

(* The items of an order are numbered from one. *)
LEMMA ItemsDomain ==
    ASSUME NEW o \in Orders
    PROVE  Len(Items[o]) \in Nat /\ DOMAIN Items[o] = 1..Len(Items[o])
<1>1. Items[o] \in Seq([sku : Skus, quantity : Nat \ {0}])
  BY InventoryConstants, Zenon
<1> QED BY <1>1

(* validateItems refuses an order that names a sku twice, so the quantity of *)
(* a sku is that of its item.                                                *)
LEMMA QuantityOfItem ==
    ASSUME NEW o \in Orders, NEW i \in DOMAIN Items[o]
    PROVE  /\ Quantity(o, Sku(o, i)) = Items[o][i].quantity
           /\ Items[o][i].quantity \in Nat
           /\ Sku(o, i) \in Skus
<1>1. /\ Items[o] \in Seq([sku : Skus, quantity : Nat \ {0}])
      /\ \A j, k \in DOMAIN Items[o] : Items[o][j].sku = Items[o][k].sku => j = k
  BY InventoryConstants, Zenon
<1>2. Items[o][i] \in [sku : Skus, quantity : Nat \ {0}]
  <2> DEFINE Entries == [sku : Skus, quantity : Nat \ {0}]
  <2>1. Items[o] \in Seq(Entries)
    BY <1>1
  <2> HIDE DEF Entries
  <2>2. Items[o][i] \in Entries
    BY <2>1
  <2> QED BY <2>2 DEF Entries
<1>3. (CHOOSE j \in DOMAIN Items[o] : Items[o][j].sku = Sku(o, i)) = i
  BY <1>1 DEF Sku
<1> QED BY <1>2, <1>3, Zenon DEF Quantity, Sku

(* The quantity of every row that belongs to an item is a number. *)
LEMMA QuantityType ==
    ASSUME NEW o \in Orders, NEW S, OfItems(o, S), NEW row \in S
    PROVE  Quantity(o, row[2]) \in Nat
<1>1. PICK i \in DOMAIN Items[o] : row[2] = Sku(o, i)
  BY DEF OfItems
<1> QED BY <1>1, QuantityOfItem

(* The candidates of a statement are warehouses of the merchant. *)
LEMMA CandidatesTypes ==
    /\ <<>> \in Candidates
    /\ \A W \in SUBSET Warehouses : \A f \in [W -> Nat] : f \in Candidates
    /\ \A f \in Candidates : \A w : Restrict(f, DOMAIN f \ {w}) \in Candidates
<1>1. \A W \in SUBSET Warehouses : \A f \in [W -> Nat] : f \in Candidates
  BY DEF Candidates
<1>2. <<>> \in [{} -> Nat]
  OBVIOUS
<1>3. ASSUME NEW f \in Candidates, NEW w PROVE Restrict(f, DOMAIN f \ {w}) \in Candidates
  <2>1. PICK W \in SUBSET Warehouses : f \in [W -> Nat]
    BY DEF Candidates
  <2>2. Restrict(f, DOMAIN f \ {w}) \in [W \ {w} -> Nat]
    BY <2>1 DEF Restrict
  <2> QED BY <1>1, <2>2, SMTT(30)
<1> QED BY <1>1, <1>2, <1>3, Zenon

(* The idle transaction is a transaction. *)
LEMMA NoTxType == NoTx \in Transactions
  BY CandidatesTypes DEF NoTx, Transactions

(* Adding to the rows of an order, sku by sku. *)
LEMMA WarehouseSets ==
    /\ \A S, T, s : OneWarehouse(S, s) /\ NoWarehouse(T, s) => OneWarehouse(S \cup T, s)
    /\ \A S, s : \A w \in Warehouses : NoWarehouse(S, s) => OneWarehouse(S \cup {<<w, s>>}, s)
    /\ \A S, s, r : \A w \in Warehouses :
          r # s /\ OneWarehouse(S, r) => OneWarehouse(S \cup {<<w, s>>}, r)
    /\ \A S, s, r : \A w \in Warehouses :
          r # s /\ NoWarehouse(S, r) => NoWarehouse(S \cup {<<w, s>>}, r)
    /\ \A S, s : ~(OneWarehouse(S, s) /\ NoWarehouse(S, s))
    /\ \A S, T, s : NoWarehouse(S, s) /\ NoWarehouse(T, s) => NoWarehouse(S \cup T, s)
  BY Zenon DEF OneWarehouse, NoWarehouse

(* What Progress says of the item a reserving transaction is at. *)
LEMMA ProgressFacts ==
    ASSUME IInv, NEW o \in Orders, tx[o].kind = "reserve"
    PROVE  /\ tx[o].next \in 1..(Len(Items[o]) + 1)
           /\ \A i \in DOMAIN Items[o] :
                 /\ i < tx[o].next => OneWarehouse(held[o] \cup tx[o].rows, Sku(o, i))
                 /\ ~(i < tx[o].next) => NoWarehouse(tx[o].rows, Sku(o, i))
           /\ tx[o].next <= Len(Items[o]) =>
                 /\ tx[o].next \in DOMAIN Items[o]
                 /\ NoWarehouse(tx[o].rows, Sku(o, tx[o].next))
           /\ tx[o].selecting => NoWarehouse(held[o], Sku(o, tx[o].next))
<1>1. Progress(o)
  BY DEF IInv
<1>2. tx[o].next \in 1..(Len(Items[o]) + 1)
  BY <1>1 DEF Progress
<1>3. ASSUME NEW i \in DOMAIN Items[o]
      PROVE  /\ i < tx[o].next => OneWarehouse(held[o] \cup tx[o].rows, Sku(o, i))
             /\ ~(i < tx[o].next) => NoWarehouse(tx[o].rows, Sku(o, i))
  BY <1>1, Zenon DEF Progress
<1>4. tx[o].next <= Len(Items[o]) => tx[o].next \in DOMAIN Items[o] /\ ~(tx[o].next < tx[o].next)
  BY <1>2, ItemsDomain
<1>5. tx[o].selecting => NoWarehouse(held[o], Sku(o, tx[o].next))
  BY <1>1, Zenon DEF Progress
<1> QED BY <1>2, <1>3, <1>4, <1>5, Zenon

-----------------------------------------------------------------------------
(* Steps                                                                   *)

(* The rows and the transaction of an order are its own: what another order  *)
(* does to the stock matters only to the rows it has written.                *)
LEMMA OthersStep ==
    ASSUME NEW p \in Orders,
           Whole(p), Progress(p), Covered(p),
           held'[p] = held[p], stage'[p] = stage[p], tx'[p] = tx[p],
           \A row \in tx[p].rows : available'[row] >= available[row],
           tx[p].rows \subseteq Rows,
           available \in [Rows -> Nat], available' \in [Rows -> Nat]
    PROVE  Whole(p)' /\ Progress(p)' /\ Covered(p)'
<1>1. Whole(p)' /\ Progress(p)'
  BY Zenon DEF Whole, Progress
<1>2. ASSUME tx[p].kind = "reserve", NEW row \in tx[p].rows
      PROVE  available'[row] >= Quantity(p, row[2])
  <2>1. Quantity(p, row[2]) \in Nat
    BY QuantityType DEF Progress
  <2>2. available[row] >= Quantity(p, row[2]) /\ available'[row] >= available[row]
    BY <1>2 DEF Covered
  <2>3. available[row] \in Nat /\ available'[row] \in Nat
    OBVIOUS
  <2> QED BY <2>1, <2>2, <2>3
<1>3. Covered(p)'
  BY <1>2 DEF Covered
<1> QED BY <1>1, <1>3

(* A step that only moves the transaction of one order has to care for that  *)
(* order, and for rows it takes from others.                                 *)
LEMMA TxStep ==
    ASSUME IInv, NEW o \in Orders, NEW t \in Transactions,
           tx' = [tx EXCEPT ![o] = t],
           UNCHANGED <<available, held>>,
           stage' \in [Orders -> Stages],
           \A p \in Orders \ {o} : stage'[p] = stage[p],
           \A p \in Orders \ {o} : t.rows \cap tx[p].rows = {},
           Whole(o)', Progress(o)', Covered(o)'
    PROVE  IInv'
<1>1. Types'
  BY Zenon DEF IInv, Types
<1>2. /\ tx'[o] = t
      /\ \A p \in Orders \ {o} : tx'[p] = tx[p]
  BY DEF IInv, Types
<1>3. Exclusive'
  BY <1>2 DEF IInv, Exclusive
<1>4. ASSUME NEW p \in Orders \ {o} PROVE Whole(p)' /\ Progress(p)' /\ Covered(p)'
  <2>1. \A row \in tx[p].rows : available'[row] >= available[row]
    BY DEF IInv, Types, Transactions
  <2>2. tx[p].rows \subseteq Rows
    BY DEF IInv, Types, Transactions
  <2> QED BY <1>2, <2>1, <2>2, OthersStep DEF IInv, Types
<1> QED BY <1>1, <1>3, <1>4 DEF IInv

(* A transaction that ends without effect, or has not begun its statements,  *)
(* relies on nothing.                                                        *)
LEMMA EmptyTx ==
    ASSUME NEW o \in Orders, tx'[o].rows = {}, ~tx'[o].selecting,
           tx'[o].kind = "reserve" => tx'[o].next = 1
    PROVE  Progress(o)' /\ Covered(o)'
<1> QED BY ItemsDomain DEF Progress, Covered, OfItems, NoWarehouse

(* A reserving transaction begins, and relies on nothing yet. *)
LEMMA BeginReserveStep ==
    ASSUME IInv, NEW o \in Orders, BeginReserve(o) PROVE IInv'
<1> DEFINE t == [NoTx EXCEPT !.kind = "reserve", !.next = 1]
<1>1. t \in Transactions /\ t.rows = {} /\ ~t.selecting /\ t.next = 1
  BY NoTxType, Zenon DEF NoTx, Transactions, Kinds
<1>2. tx' = [tx EXCEPT ![o] = t] /\ UNCHANGED <<available, held, stage>>
  BY DEF BeginReserve
<1> HIDE DEF t
<1>3. tx'[o] = t
  BY <1>2 DEF IInv, Types
<1>4. Progress(o)' /\ Covered(o)'
  BY <1>1, <1>3, EmptyTx
<1>5. Whole(o)'
  BY <1>2 DEF IInv, Whole
<1> QED BY <1>1, <1>2, <1>4, <1>5, TxStep, Zenon DEF IInv, Types

(* A release begins. *)
LEMMA BeginReleaseStep ==
    ASSUME IInv, NEW o \in Orders, BeginRelease(o) PROVE IInv'
<1> DEFINE t == [NoTx EXCEPT !.kind = "release"]
<1>1. t \in Transactions /\ t.rows = {} /\ ~t.selecting /\ t.kind # "reserve"
  BY NoTxType, Zenon DEF NoTx, Transactions, Kinds
<1>2. tx' = [tx EXCEPT ![o] = t] /\ UNCHANGED <<available, held, stage>>
  BY DEF BeginRelease
<1> HIDE DEF t
<1>3. tx'[o] = t
  BY <1>2 DEF IInv, Types
<1>4. Progress(o)' /\ Covered(o)'
  BY <1>1, <1>3, EmptyTx
<1>5. Whole(o)'
  BY <1>2 DEF IInv, Whole
<1> QED BY <1>1, <1>2, <1>4, <1>5, TxStep, Zenon DEF IInv, Types

(* A victim of the deadlock detector is rolled back. *)
LEMMA DeadlockStep ==
    ASSUME IInv, NEW o \in Orders, DeadlockDetected(o) PROVE IInv'
<1>1. NoTx \in Transactions /\ NoTx.rows = {} /\ ~NoTx.selecting /\ NoTx.kind # "reserve"
  BY NoTxType DEF NoTx
<1>2. tx' = [tx EXCEPT ![o] = NoTx] /\ UNCHANGED <<available, held, stage>>
  BY DEF DeadlockDetected
<1>3. tx'[o] = NoTx
  BY <1>2 DEF IInv, Types
<1>4. Progress(o)' /\ Covered(o)'
  BY <1>1, <1>3, EmptyTx
<1>5. Whole(o)'
  BY <1>2 DEF IInv, Whole
<1> QED BY <1>1, <1>2, <1>4, <1>5, TxStep, Zenon DEF IInv, Types

(* An order that finds no stock for an item has none of its items committed: *)
(* the item it is at would be.                                               *)
LEMMA InsufficientStockStep ==
    ASSUME IInv, NEW o \in Orders, InsufficientStock(o) PROVE IInv'
<1>1. NoTx \in Transactions /\ NoTx.rows = {} /\ ~NoTx.selecting /\ NoTx.kind # "reserve"
  BY NoTxType DEF NoTx
<1>2. /\ tx' = [tx EXCEPT ![o] = NoTx]
      /\ stage' = [stage EXCEPT ![o] = "rejected"]
      /\ UNCHANGED <<available, held>>
  BY DEF InsufficientStock
<1>3. tx'[o] = NoTx /\ stage'[o] = "rejected"
  BY <1>2 DEF IInv, Types
<1>4. Progress(o)' /\ Covered(o)'
  BY <1>1, <1>3, EmptyTx
<1>5. held[o] = {}
  <2>1. tx[o].kind = "reserve" /\ tx[o].next <= Len(Items[o]) /\ tx[o].selecting
    BY DEF InsufficientStock, Reserving
  <2>2. /\ NoWarehouse(held[o], Sku(o, tx[o].next))
        /\ tx[o].next \in DOMAIN Items[o]
    BY <2>1, ProgressFacts, Zenon
  <2> QED BY <2>2, WarehouseSets DEF IInv, Whole
<1>6. Whole(o)'
  BY <1>2, <1>3, <1>5, SMTT(30) DEF IInv, Whole
<1>7. /\ stage' \in [Orders -> Stages]
      /\ \A p \in Orders \ {o} : stage'[p] = stage[p]
  BY <1>2 DEF IInv, Types, Stages
<1> QED BY <1>1, <1>2, <1>4, <1>6, <1>7, TxStep, ZenonT(40)

(* An item that is reserved already has its warehouse. *)
LEMMA KeepReservationStep ==
    ASSUME IInv, NEW o \in Orders, KeepReservation(o) PROVE IInv'
<1>0. /\ tx[o].kind = "reserve" /\ tx[o].next <= Len(Items[o]) /\ ~tx[o].selecting
      /\ \E w \in Warehouses : <<w, Item(o).sku>> \in held[o]
  BY Zenon DEF KeepReservation, Reserving
<1> DEFINE t == [tx[o] EXCEPT !.next = @ + 1]
<1>1. /\ t \in Transactions
      /\ t.rows = tx[o].rows /\ t.selecting = tx[o].selecting /\ t.kind = "reserve"
      /\ t.next = tx[o].next + 1
  <2>1. tx[o] \in Transactions
    BY DEF IInv, Types
  <2> QED BY <1>0, <2>1 DEF Transactions
<1>2. tx' = [tx EXCEPT ![o] = t] /\ UNCHANGED <<available, held, stage>>
  BY Zenon DEF KeepReservation
<1> HIDE DEF t
<1>3. tx'[o] = t
  BY <1>2 DEF IInv, Types
<1>4. tx[o].next \in DOMAIN Items[o] /\ tx[o].next \in 1..Len(Items[o])
  BY <1>0, ItemsDomain, ProgressFacts, Zenon
<1>5. OneWarehouse(held[o] \cup tx[o].rows, Sku(o, tx[o].next))
  <2>1. NoWarehouse(tx[o].rows, Sku(o, tx[o].next))
    BY <1>0, ProgressFacts, Zenon
  <2>2. held[o] # {}
    BY <1>0
  <2>3. OneWarehouse(held[o], Sku(o, tx[o].next))
    BY <1>4, <2>2 DEF IInv, Whole
  <2> QED BY <2>1, <2>3, WarehouseSets
<1>6. Progress(o)'
  <2>1. tx[o].kind = "reserve" /\ Progress(o)
    BY <1>0 DEF IInv
  <2>2. ASSUME NEW i \in DOMAIN Items[o]
        PROVE  IF i < tx[o].next + 1
               THEN OneWarehouse(held[o] \cup tx[o].rows, Sku(o, i))
               ELSE NoWarehouse(tx[o].rows, Sku(o, i))
    <3>1. i < tx[o].next + 1 <=> i < tx[o].next \/ i = tx[o].next
      BY <1>4, ItemsDomain
    <3> QED BY <1>0, <1>5, <3>1, ProgressFacts, Zenon
  <2>3. t.next \in 1..(Len(Items[o]) + 1)
    BY <1>1, <1>4, SMTT(30)
  <2> QED BY <1>0, <1>1, <1>2, <1>3, <2>1, <2>2, <2>3, Zenon DEF Progress
<1>7. Covered(o)'
  BY <1>0, <1>1, <1>2, <1>3 DEF IInv, Covered
<1>8. Whole(o)'
  BY <1>2 DEF IInv, Whole
<1>9. \A p \in Orders \ {o} : t.rows \cap tx[p].rows = {}
  BY <1>1, SMTT(30) DEF IInv, Exclusive
<1> QED BY <1>1, <1>2, <1>6, <1>7, <1>8, <1>9, TxStep, Zenon DEF IInv, Types

(* The candidate query is for an item that is not reserved yet. *)
LEMMA SelectCandidatesStep ==
    ASSUME IInv, NEW o \in Orders, SelectCandidates(o) PROVE IInv'
<1> DEFINE enough == {w \in Warehouses : available[<<w, Item(o).sku>>] >= Item(o).quantity}
           c == [w \in enough |-> available[<<w, Item(o).sku>>]]
           t == [tx[o] EXCEPT !.selecting = TRUE, !.candidates = c]
<1>0. /\ tx[o].kind = "reserve" /\ tx[o].next <= Len(Items[o])
      /\ \A w \in Warehouses : <<w, Item(o).sku>> \notin held[o]
      /\ UNCHANGED <<available, held, stage>>
  BY Zenon DEF SelectCandidates, Reserving
<1>1. tx[o].next \in DOMAIN Items[o]
  BY <1>0, ProgressFacts, Zenon
<1>2. c \in Candidates
  <2>1. Item(o).sku \in Skus
    BY <1>1, QuantityOfItem DEF Item, Sku
  <2>2. \A w \in Warehouses : available[<<w, Item(o).sku>>] \in Nat
    BY <2>1 DEF IInv, Types, Rows
  <2>3. c \in [enough -> Nat]
    BY <2>2
  <2> QED BY <2>3, CandidatesTypes, Zenon
<1>3. tx[o] \in Transactions
  BY DEF IInv, Types
<1>4. tx' = [tx EXCEPT ![o] = t]
  BY <1>3, Zenon DEF SelectCandidates, IInv, Types
<1> HIDE DEF c, enough
<1>5. /\ t \in Transactions
      /\ t.rows = tx[o].rows /\ t.kind = "reserve" /\ t.next = tx[o].next
  BY <1>0, <1>2, <1>3, Zenon DEF Transactions
<1> HIDE DEF t
<1>6. tx'[o] = t
  BY <1>4 DEF IInv, Types
<1>7. Progress(o)'
  <2>1. Progress(o) /\ NoWarehouse(held[o], Sku(o, tx[o].next))
    BY <1>0 DEF IInv, NoWarehouse, Item, Sku
  <2> QED BY <1>0, <1>5, <1>6, <2>1, Zenon DEF Progress
<1>8. Covered(o)'
  BY <1>0, <1>5, <1>6 DEF IInv, Covered
<1>9. Whole(o)'
  BY <1>0 DEF IInv, Whole
<1>10. \A p \in Orders \ {o} : t.rows \cap tx[p].rows = {}
  BY <1>5 DEF IInv, Exclusive
<1> QED BY <1>0, <1>4, <1>5, <1>7, <1>8, <1>9, <1>10, TxStep, Zenon DEF IInv, Types

(* A candidate that has lost its stock while the statement waited is left.   *)
LEMMA SkipCandidateStep ==
    ASSUME IInv, NEW o \in Orders, NEW c \in Candidates,
           tx' = [tx EXCEPT ![o].candidates = c],
           UNCHANGED <<available, held, stage>>
    PROVE  IInv'
<1> DEFINE t == [tx[o] EXCEPT !.candidates = c]
<1>1. tx[o] \in Transactions
  BY DEF IInv, Types
<1>2. tx' = [tx EXCEPT ![o] = t]
  BY Zenon
<1>3. /\ t \in Transactions
      /\ t.rows = tx[o].rows /\ t.kind = tx[o].kind /\ t.next = tx[o].next
      /\ t.selecting = tx[o].selecting
  BY <1>1 DEF Transactions
<1> HIDE DEF t
<1>4. tx'[o] = t
  BY <1>2 DEF IInv, Types
<1>5. Whole(o)' /\ Progress(o)' /\ Covered(o)'
  BY <1>3, <1>4, Zenon DEF IInv, Whole, Progress, Covered
<1>6. \A p \in Orders \ {o} : t.rows \cap tx[p].rows = {}
  BY <1>3 DEF IInv, Exclusive
<1> QED BY <1>2, <1>3, <1>5, <1>6, TxStep, Zenon DEF IInv, Types

(* A candidate that still has the stock gives the item its one warehouse.    *)
LEMMA TakeCandidateStep ==
    ASSUME IInv, NEW o \in Orders, NEW w \in Warehouses,
           tx[o].kind = "reserve", tx[o].next <= Len(Items[o]), tx[o].selecting,
           ~LockedByOther(o, <<w, Item(o).sku>>),
           available[<<w, Item(o).sku>>] >= Item(o).quantity,
           tx' = [tx EXCEPT ![o].rows = @ \cup {<<w, Item(o).sku>>}, ![o].next = @ + 1,
                            ![o].selecting = FALSE, ![o].candidates = <<>>],
           UNCHANGED <<available, held, stage>>
    PROVE  IInv'
<1> DEFINE n == tx[o].next
           row == <<w, Sku(o, n)>>
           t == [tx[o] EXCEPT !.rows = @ \cup {row}, !.next = @ + 1,
                              !.selecting = FALSE, !.candidates = <<>>]
<1>0. n \in DOMAIN Items[o] /\ n \in 1..Len(Items[o])
  BY ProgressFacts, ItemsDomain, Zenon
<1>1. tx[o] \in Transactions /\ row \in Rows
  BY <1>0, QuantityOfItem DEF IInv, Types, Rows
<1>2. tx' = [tx EXCEPT ![o] = t]
  BY <1>1, Zenon DEF Item, Sku, IInv, Types
<1>3. /\ t \in Transactions
      /\ t.rows = tx[o].rows \cup {row} /\ t.kind = "reserve" /\ t.next = n + 1
      /\ t.selecting = FALSE
  <2> HIDE DEF row
  <2>1. tx[o].rows \cup {row} \in SUBSET Rows /\ n + 1 \in Nat
    BY <1>0, <1>1 DEF Transactions
  <2> DEFINE none == <<>>
  <2>2. none \in Candidates
    BY CandidatesTypes
  <2> HIDE DEF none
  <2>3. \A R \in SUBSET Rows, m \in Nat :
          LET u == [tx[o] EXCEPT !.rows = R, !.next = m, !.selecting = FALSE, !.candidates = none]
          IN  /\ u \in Transactions
              /\ u.rows = R /\ u.kind = tx[o].kind /\ u.next = m /\ u.selecting = FALSE
    BY <1>1, <2>2, ZenonT(40) DEF Transactions
  <2> QED BY <2>1, <2>3, ZenonT(40) DEF none
<1>4. available[row] >= Quantity(o, row[2])
  BY <1>0, QuantityOfItem, Zenon DEF Item, Sku
<1>5. \A p \in Orders \ {o} : row \notin tx[p].rows
  BY Zenon DEF LockedByOther, Item, Sku
<1> HIDE DEF t
<1>6. tx'[o] = t
  BY <1>2, Zenon DEF IInv, Types
<1>7. ASSUME NEW i \in DOMAIN Items[o]
      PROVE  IF i < n + 1
             THEN OneWarehouse(held[o] \cup (tx[o].rows \cup {row}), Sku(o, i))
             ELSE NoWarehouse(tx[o].rows \cup {row}, Sku(o, i))
  <2>1. i < n + 1 <=> i < n \/ i = n
    BY <1>0, ItemsDomain
  <2>2. i # n => Sku(o, i) # Sku(o, n)
    BY <1>0, InventoryConstants, SMTT(30) DEF Sku
  <2>3. held[o] \cup (tx[o].rows \cup {row}) = (held[o] \cup tx[o].rows) \cup {row}
    OBVIOUS
  <2>4. ~(n < n)
    BY <1>0
  <2>5. CASE i = n
    <3>1. NoWarehouse(held[o] \cup tx[o].rows, Sku(o, n))
      BY ProgressFacts, WarehouseSets, Zenon
    <3> QED BY <2>1, <2>3, <2>5, <3>1, WarehouseSets
  <2>6. CASE i # n /\ i < n
    <3>1. OneWarehouse(held[o] \cup tx[o].rows, Sku(o, i))
      BY <2>6, ProgressFacts
    <3>2. OneWarehouse((held[o] \cup tx[o].rows) \cup {row}, Sku(o, i))
      BY <2>2, <2>6, <3>1, WarehouseSets, Zenon
    <3> QED BY <2>1, <2>3, <2>6, <3>2, Zenon
  <2>7. CASE i # n /\ ~(i < n)
    <3>1. NoWarehouse(tx[o].rows, Sku(o, i))
      BY <2>7, ProgressFacts, Zenon
    <3>2. NoWarehouse(tx[o].rows \cup {row}, Sku(o, i))
      BY <2>2, <2>7, <3>1 DEF NoWarehouse
    <3> QED BY <2>1, <2>7, <3>2
  <2> QED BY <2>5, <2>6, <2>7
<1>8. Progress(o)'
  <2>1. OfItems(o, tx[o].rows \cup {row})
    <3>1. OfItems(o, tx[o].rows)
      BY Zenon DEF IInv, Progress
    <3>2. row[2] = Sku(o, n)
      OBVIOUS
    <3> HIDE DEF row, n
    <3> QED BY <1>0, <3>1, <3>2 DEF OfItems
  <2>2. n + 1 \in 1..(Len(Items[o]) + 1)
    BY <1>0, SMTT(30)
  <2> HIDE DEF row, n
  <2> QED BY <1>3, <1>6, <1>7, <2>1, <2>2, Zenon DEF Progress
<1>9. Covered(o)'
  BY <1>3, <1>4, <1>6, Zenon DEF IInv, Covered
<1>10. Whole(o)'
  BY DEF IInv, Whole
<1>11. \A p \in Orders \ {o} : t.rows \cap tx[p].rows = {}
  BY <1>3, <1>5 DEF IInv, Exclusive
<1> QED BY <1>2, <1>3, <1>8, <1>9, <1>10, <1>11, TxStep, ZenonT(40) DEF IInv, Types

(* A statement that gets its candidate row takes or leaves it. *)
LEMMA LockCandidateStep ==
    ASSUME IInv, NEW o \in Orders, LockCandidate(o) PROVE IInv'
<1> DEFINE row(w) == <<w, Item(o).sku>>
<1>1. PICK w \in Warehouses :
        /\ Reserving(o) /\ tx[o].selecting
        /\ ~LockedByOther(o, row(w))
        /\ IF available[row(w)] >= Item(o).quantity
           THEN tx' = [tx EXCEPT ![o].rows = @ \cup {row(w)}, ![o].next = @ + 1,
                                 ![o].selecting = FALSE, ![o].candidates = <<>>]
           ELSE tx' = [tx EXCEPT ![o].candidates = Restrict(@, DOMAIN @ \ {w})]
        /\ UNCHANGED <<available, reserved, held, stage, aborts>>
  BY Zenon DEF LockCandidate
<1>2. tx[o].kind = "reserve" /\ tx[o].next <= Len(Items[o])
  BY <1>1, Zenon DEF Reserving
<1>3. UNCHANGED <<available, held, stage>>
  BY <1>1, Zenon
<1>4. CASE available[row(w)] >= Item(o).quantity
  BY <1>1, <1>2, <1>3, <1>4, TakeCandidateStep, Zenon
<1>5. CASE ~(available[row(w)] >= Item(o).quantity)
  <2> DEFINE c == Restrict(tx[o].candidates, DOMAIN tx[o].candidates \ {w})
  <2>1. tx[o].candidates \in Candidates
    BY DEF IInv, Types, Transactions
  <2>2. c \in Candidates
    BY <2>1, CandidatesTypes, Zenon
  <2>3. tx' = [tx EXCEPT ![o].candidates = c]
    BY <1>1, <1>5, Zenon
  <2> HIDE DEF c
  <2> QED BY <1>3, <2>2, <2>3, SkipCandidateStep, Zenon
<1> QED BY <1>4, <1>5

(* A release locks another row that the order holds. *)
LEMMA LockHeldRowStep ==
    ASSUME IInv, NEW o \in Orders, NEW row \in Rows, LockHeldRow(o, row) PROVE IInv'
<1> DEFINE t == [tx[o] EXCEPT !.rows = @ \cup {row}]
<1>1. /\ tx[o].kind = "release" /\ row \in held[o]
      /\ \A p \in Orders \ {o} : row \notin tx[p].rows
      /\ tx' = [tx EXCEPT ![o] = t]
      /\ UNCHANGED <<available, held, stage>>
  BY Zenon DEF LockHeldRow, LockedByOther
<1>2. tx[o] \in Transactions
  BY DEF IInv, Types
<1>3. t \in Transactions /\ t.rows = tx[o].rows \cup {row} /\ t.kind = "release"
  BY <1>1, <1>2 DEF Transactions
<1> HIDE DEF t
<1>4. tx'[o] = t
  BY <1>1 DEF IInv, Types
<1>5. OfItems(o, t.rows)
  <2>1. OfItems(o, tx[o].rows) /\ OfItems(o, held[o])
    BY Zenon DEF IInv, Whole, Progress
  <2> QED BY <1>1, <1>3, <2>1 DEF OfItems
<1>6. Whole(o)' /\ Progress(o)' /\ Covered(o)'
  BY <1>1, <1>3, <1>4, <1>5, Zenon DEF IInv, Whole, Progress, Covered
<1>7. \A p \in Orders \ {o} : t.rows \cap tx[p].rows = {}
  BY <1>1, <1>3 DEF IInv, Exclusive
<1> QED BY <1>1, <1>3, <1>6, <1>7, TxStep, Zenon DEF IInv, Types

(* A commit changes the stock of the rows its transaction has written, which *)
(* no other transaction has.                                                 *)
LEMMA CommitStep ==
    ASSUME IInv, NEW o \in Orders, NEW H \in SUBSET Rows, NEW st \in Stages,
           tx' = [tx EXCEPT ![o] = NoTx],
           held' = [held EXCEPT ![o] = H],
           stage' = [stage EXCEPT ![o] = st],
           available' \in [Rows -> Nat],
           \A row \in Rows \ tx[o].rows : available'[row] = available[row],
           Whole(o)'
    PROVE  IInv'
<1>1. /\ tx'[o] = NoTx
      /\ \A p \in Orders \ {o} :
            tx'[p] = tx[p] /\ held'[p] = held[p] /\ stage'[p] = stage[p]
  BY DEF IInv, Types
<1>2. NoTx.rows = {} /\ ~NoTx.selecting /\ NoTx.kind # "reserve"
  BY DEF NoTx
<1>3. Types'
  BY NoTxType DEF IInv, Types
<1>4. Exclusive'
  BY <1>1, <1>2 DEF IInv, Exclusive
<1>5. Progress(o)' /\ Covered(o)'
  BY <1>1, <1>2, EmptyTx
<1>6. ASSUME NEW p \in Orders \ {o} PROVE Whole(p)' /\ Progress(p)' /\ Covered(p)'
  <2>1. tx[p].rows \subseteq Rows /\ tx[p].rows \cap tx[o].rows = {}
    BY DEF IInv, Types, Transactions, Exclusive
  <2>2. \A row \in tx[p].rows : available'[row] >= available[row]
    BY <2>1 DEF IInv, Types
  <2> QED BY <1>1, <2>1, <2>2, OthersStep DEF IInv, Types
<1> QED BY <1>3, <1>4, <1>5, <1>6 DEF IInv

(* The commit of a reservation takes the stock it has found in the rows it   *)
(* has locked.                                                               *)
LEMMA CommitReserveStep ==
    ASSUME IInv, NEW o \in Orders, CommitReserve(o) PROVE IInv'
<1>1. /\ tx[o].kind = "reserve" /\ tx[o].next > Len(Items[o])
      /\ available' = [row \in Rows |-> IF row \in tx[o].rows
                          THEN available[row] - Quantity(o, row[2]) ELSE available[row]]
      /\ held' = [held EXCEPT ![o] = held[o] \cup tx[o].rows]
      /\ stage' = [stage EXCEPT ![o] = "reserved"]
      /\ tx' = [tx EXCEPT ![o] = NoTx]
  BY Zenon DEF CommitReserve
<1>2. held[o] \cup tx[o].rows \in SUBSET Rows /\ "reserved" \in Stages
  BY DEF IInv, Types, Transactions, Stages
<1>3. ASSUME NEW row \in Rows PROVE available'[row] \in Nat
  <2>1. available[row] \in Nat
    BY DEF IInv, Types
  <2>2. CASE row \in tx[o].rows
    <3>1. Quantity(o, row[2]) \in Nat
      BY <2>2, QuantityType, Zenon DEF IInv, Progress
    <3>2. available[row] >= Quantity(o, row[2])
      BY <1>1, <2>2 DEF IInv, Covered
    <3>3. available'[row] = available[row] - Quantity(o, row[2])
      BY <1>1, <2>2
    <3> HIDE DEF Quantity
    <3> QED BY <2>1, <3>1, <3>2, <3>3
  <2> QED BY <1>1, <2>1, <2>2
<1>4. available' \in [Rows -> Nat]
  BY <1>1, <1>3
<1>5. Whole(o)'
  <2>1. held'[o] = held[o] \cup tx[o].rows /\ stage'[o] = "reserved"
    BY <1>1 DEF IInv, Types
  <2>2. OfItems(o, held[o] \cup tx[o].rows)
    BY Zenon DEF IInv, Whole, Progress, OfItems
  <2>3. ASSUME NEW i \in DOMAIN Items[o]
        PROVE  OneWarehouse(held[o] \cup tx[o].rows, Sku(o, i))
    <3>1. i < tx[o].next
      <4>1. tx[o].next \in Int
        BY DEF IInv, Types, Transactions
      <4> QED BY <1>1, <4>1, ItemsDomain
    <3> QED BY <1>1, <3>1, ProgressFacts
  <2> QED BY <2>1, <2>2, <2>3 DEF Whole
<1>6. \A row \in Rows \ tx[o].rows : available'[row] = available[row]
  BY <1>1
<1> QED BY <1>1, <1>2, <1>4, <1>5, <1>6, CommitStep, Zenon

(* The commit of a release gives the stock of all rows back. *)
LEMMA CommitReleaseStep ==
    ASSUME IInv, NEW o \in Orders, CommitRelease(o) PROVE IInv'
<1>1. /\ available' = [row \in Rows |-> IF row \in tx[o].rows
                          THEN available[row] + Quantity(o, row[2]) ELSE available[row]]
      /\ held' = [held EXCEPT ![o] = {}]
      /\ stage' = [stage EXCEPT ![o] = "released"]
      /\ tx' = [tx EXCEPT ![o] = NoTx]
  BY Zenon DEF CommitRelease
<1>2. {} \in SUBSET Rows /\ "released" \in Stages
  BY DEF Stages
<1>3. ASSUME NEW row \in Rows PROVE available'[row] \in Nat
  <2>1. available[row] \in Nat
    BY DEF IInv, Types
  <2>2. row \in tx[o].rows => Quantity(o, row[2]) \in Nat
    BY QuantityType, Zenon DEF IInv, Progress
  <2> QED BY <1>1, <2>1, <2>2
<1>4. available' \in [Rows -> Nat]
  BY <1>1, <1>3
<1>5. Whole(o)'
  BY <1>1 DEF IInv, Types, Whole, OfItems
<1>6. \A row \in Rows \ tx[o].rows : available'[row] = available[row]
  BY <1>1
<1> QED BY <1>1, <1>2, <1>4, <1>5, <1>6, CommitStep, Zenon

-----------------------------------------------------------------------------
(* The invariant and what follows                                          *)

(* At first nothing is reserved and no transaction runs. *)
LEMMA InitIInv == Init => IInv
<1> SUFFICES ASSUME Init PROVE IInv
  OBVIOUS
<1>1. NoTx.rows = {} /\ NoTx.kind # "reserve"
  BY DEF NoTx
<1>2. Types
  BY InventoryConstants, NoTxType DEF Init, Types, Stages
<1>3. Exclusive
  BY <1>1, SMTT(30) DEF Init, Exclusive
<1>4. ASSUME NEW o \in Orders PROVE Whole(o) /\ Progress(o) /\ Covered(o)
  <2>1. tx[o] = NoTx /\ held[o] = {} /\ stage[o] = "pending"
    BY DEF Init
  <2> QED BY <1>1, <2>1 DEF Whole, Progress, Covered, OfItems
<1> QED BY <1>2, <1>3, <1>4 DEF IInv

(* Every statement, commit and abort keeps the invariant. *)
LEMMA NextIInv == IInv /\ [Next]_vars => IInv'
<1>1. ASSUME IInv, UNCHANGED vars PROVE IInv'
  <2>1. UNCHANGED <<available, held, stage, tx>>
    BY <1>1 DEF vars
  <2>2. Types' /\ Exclusive'
    BY <1>1, <2>1, SMTT(30) DEF IInv, Types, Exclusive
  <2>3. ASSUME NEW o \in Orders PROVE Whole(o)' /\ Progress(o)' /\ Covered(o)'
    BY <1>1, <2>1, Zenon DEF IInv, Whole, Progress, Covered
  <2> QED BY <2>2, <2>3 DEF IInv
<1>2. ASSUME IInv, NEW o \in Orders, Reserve(o) PROVE IInv'
  BY <1>2, BeginReserveStep, KeepReservationStep, SelectCandidatesStep, LockCandidateStep,
     InsufficientStockStep, CommitReserveStep DEF Reserve
<1>3. ASSUME IInv, Next PROVE IInv'
  BY <1>2, <1>3, BeginReleaseStep, LockHeldRowStep, CommitReleaseStep, DeadlockStep DEF Next
<1> QED BY <1>1, <1>3

(* The invariant holds in every reachable state. *)
LEMMA IInvHolds == Spec => []IInv
  BY InitIInv, NextIInv, PTL DEF Spec

(* One warehouse, counted. *)
LEMMA IInvWhole == IInv => AllOrNothing
<1> SUFFICES ASSUME IInv, NEW o \in Orders
             PROVE  IF stage[o] = "reserved"
                    THEN \A i \in DOMAIN Items[o] :
                       Cardinality({w \in Warehouses : <<w, Items[o][i].sku>> \in held[o]}) = 1
                    ELSE held[o] = {}
  BY DEF AllOrNothing
<1>1. ASSUME stage[o] = "reserved", NEW i \in DOMAIN Items[o]
      PROVE  Cardinality({w \in Warehouses : <<w, Items[o][i].sku>> \in held[o]}) = 1
  <2>1. OneWarehouse(held[o], Sku(o, i))
    BY <1>1 DEF IInv, Whole
  <2>2. PICK w \in Warehouses : \A v \in Warehouses : <<v, Sku(o, i)>> \in held[o] <=> v = w
    BY <2>1 DEF OneWarehouse
  <2>3. {v \in Warehouses : <<v, Items[o][i].sku>> \in held[o]} = {w}
    BY <2>2 DEF Sku
  <2> QED BY <2>3, FS_Singleton, Zenon
<1>2. stage[o] # "reserved" => held[o] = {}
  BY DEF IInv, Whole
<1> QED BY <1>1, <1>2

(* An order holds every one of its items in one warehouse each from the      *)
(* commit of RecordInventoryReserved to its release, and nothing otherwise,  *)
(* however transactions interleave, wait and are aborted.                    *)
THEOREM ReservationsAreWhole == Spec => []AllOrNothing
  BY IInvHolds, IInvWhole, PTL

-----------------------------------------------------------------------------
(* The books of a row                                                      *)

(* A reserving transaction writes rows its order does not hold yet. *)
Fresh == \A o \in Orders : tx[o].kind = "reserve" => tx[o].rows \cap held[o] = {}

Promised(row) == SumFunctionOnSet([o \in Holders(row) |-> Quantity(o, row[2])], Holders(row))

Balanced(row) ==
    /\ IsFiniteSet(Holders(row))
    /\ reserved[row] = Promised(row)
    /\ available[row] + reserved[row] = Stock[row]

Books == IInv /\ Fresh /\ \A row \in Rows : Balanced(row)

(* A step that leaves the reservations of the others alone, and starts no     *)
(* statement on a row that its own order holds, keeps the rows fresh.         *)
LEMMA FreshStep ==
    ASSUME IInv, Fresh, NEW o \in Orders,
           \A p \in Orders \ {o} : tx'[p] = tx[p] /\ held'[p] = held[p],
           tx'[o].kind = "reserve" => tx'[o].rows \cap held'[o] = {}
    PROVE  Fresh'
  BY DEF Fresh

(* A candidate is locked for an item that the order does not hold. *)
LEMMA LockCandidateFresh ==
    ASSUME IInv, Fresh, NEW o \in Orders, LockCandidate(o) PROVE Fresh'
<1>1. PICK w \in Warehouses :
        /\ Reserving(o) /\ tx[o].selecting
        /\ held' = held
        /\ \/ tx' = [tx EXCEPT ![o].rows = @ \cup {<<w, Item(o).sku>>}, ![o].next = @ + 1,
                               ![o].selecting = FALSE, ![o].candidates = <<>>]
           \/ tx' = [tx EXCEPT ![o].candidates = Restrict(@, DOMAIN @ \ {w})]
  BY Zenon DEF LockCandidate
<1>2. tx \in [Orders -> Transactions]
  BY DEF IInv, Types
<1>3. \A p \in Orders \ {o} : tx'[p] = tx[p]
  BY <1>1, <1>2, Zenon
<1>4. tx'[o].rows \in {tx[o].rows, tx[o].rows \cup {<<w, Item(o).sku>>}}
  <2> DEFINE row == <<w, Item(o).sku>>
             none == <<>>
             c == Restrict(tx[o].candidates, DOMAIN tx[o].candidates \ {w})
  <2>1. \/ tx'[o] = [tx[o] EXCEPT !.rows = @ \cup {row}, !.next = @ + 1,
                                  !.selecting = FALSE, !.candidates = none]
        \/ tx'[o] = [tx[o] EXCEPT !.candidates = c]
    BY <1>1, <1>2, Zenon
  <2>2. tx[o] \in Transactions
    BY <1>2
  <2> HIDE DEF row, none, c
  <2>3. tx'[o].rows = tx[o].rows \/ tx'[o].rows = tx[o].rows \cup {row}
    <3>1. CASE tx'[o] = [tx[o] EXCEPT !.candidates = c]
      BY <2>2, <3>1, ZenonT(40) DEF Transactions
    <3>2. CASE tx'[o] = [tx[o] EXCEPT !.rows = @ \cup {row}, !.next = @ + 1,
                                      !.selecting = FALSE, !.candidates = none]
      BY <2>2, <3>2, ZenonT(40) DEF Transactions
    <3> QED BY <2>1, <3>1, <3>2
  <2> QED BY <2>3 DEF row
<1>5. <<w, Item(o).sku>> \notin held[o] /\ tx[o].rows \cap held[o] = {}
  <2>1. tx[o].kind = "reserve"
    BY <1>1 DEF Reserving
  <2>2. NoWarehouse(held[o], Sku(o, tx[o].next))
    BY <1>1, <2>1, ProgressFacts, Zenon
  <2> QED BY <2>1, <2>2 DEF NoWarehouse, Sku, Item, Fresh
<1> QED BY <1>1, <1>3, <1>4, <1>5, FreshStep

(* Every statement, commit and abort keeps the rows fresh. *)
LEMMA NextFresh ==
    ASSUME IInv, Fresh, Next PROVE Fresh'
<1>1. PICK o \in Orders :
        \/ Reserve(o)
        \/ BeginRelease(o)
        \/ \E row \in Rows : LockHeldRow(o, row)
        \/ CommitRelease(o)
        \/ DeadlockDetected(o)
  BY DEF Next
<1>2. tx \in [Orders -> Transactions] /\ held \in [Orders -> SUBSET Rows]
  BY DEF IInv, Types
<1>3. NoTx.kind = "none"
  BY DEF NoTx
<1>4. ASSUME NEW t, t.kind = "reserve" => t.rows = {},
             tx' = [tx EXCEPT ![o] = t],
             \A p \in Orders \ {o} : held'[p] = held[p]
      PROVE  Fresh'
  BY <1>2, <1>4, FreshStep
<1>5. CASE BeginReserve(o) \/ BeginRelease(o)
  <2> DEFINE u == [NoTx EXCEPT !.kind = "reserve", !.next = 1]
             v == [NoTx EXCEPT !.kind = "release"]
  <2>1. u.rows = {} /\ v.rows = {}
    BY Zenon DEF NoTx
  <2> HIDE DEF u, v
  <2> QED BY <1>4, <1>5, <2>1, Zenon DEF BeginReserve, BeginRelease, u, v
<1>6. CASE InsufficientStock(o) \/ DeadlockDetected(o)
  BY <1>3, <1>4, <1>6, Zenon DEF InsufficientStock, DeadlockDetected
<1>7. CASE CommitReserve(o) \/ CommitRelease(o)
  <2>1. tx' = [tx EXCEPT ![o] = NoTx] /\ \A p \in Orders \ {o} : held'[p] = held[p]
    BY <1>2, <1>7, Zenon DEF CommitReserve, CommitRelease
  <2> QED BY <1>3, <1>4, <2>1, Zenon
<1>8. CASE KeepReservation(o) \/ SelectCandidates(o)
  <2>1. held' = held /\ tx'[o].rows = tx[o].rows /\ tx'[o].kind = tx[o].kind
    <3> DEFINE c == [w \in {w \in Warehouses : available[<<w, Item(o).sku>>] >= Item(o).quantity}
                       |-> available[<<w, Item(o).sku>>]]
    <3>1. \/ tx'[o] = [tx[o] EXCEPT !.next = @ + 1]
          \/ tx'[o] = [tx[o] EXCEPT !.selecting = TRUE, !.candidates = c]
      BY <1>2, <1>8, Zenon DEF KeepReservation, SelectCandidates
    <3>2. tx[o] \in Transactions /\ held' = held
      BY <1>2, <1>8, Zenon DEF KeepReservation, SelectCandidates
    <3> HIDE DEF c
    <3> QED BY <3>1, <3>2, Zenon DEF Transactions
  <2>2. \A p \in Orders \ {o} : tx'[p] = tx[p]
    BY <1>2, <1>8, Zenon DEF KeepReservation, SelectCandidates
  <2> QED BY <2>1, <2>2, FreshStep DEF Fresh
<1>9. ASSUME NEW row \in Rows, LockHeldRow(o, row) PROVE Fresh'
  <2>1. held' = held /\ tx'[o].kind = "release" /\ \A p \in Orders \ {o} : tx'[p] = tx[p]
    BY <1>2, <1>9, Zenon DEF LockHeldRow, Transactions
  <2> QED BY <2>1, FreshStep
<1> QED BY <1>1, <1>5, <1>6, <1>7, <1>8, <1>9, LockCandidateFresh DEF Reserve

(* The sum over the holders of a row, taken over one function for all orders. *)
LEMMA SumOverHolders ==
    ASSUME NEW H \in SUBSET Orders, IsFiniteSet(H), NEW s
    PROVE  SumFunctionOnSet([o \in H |-> Quantity(o, s)], H)
             = SumFunctionOnSet([o \in Orders |-> Quantity(o, s)], H)
<1> DEFINE v == [o \in H |-> Quantity(o, s)]
           w == [o \in Orders |-> Quantity(o, s)]
<1>1. \A o \in H : v[o] = w[o]
  OBVIOUS
<1> HIDE DEF v, w
<1>2. SumFunctionOnSet(v, H) = SumFunctionOnSet(w, H)
  BY <1>1, SumAgrees
<1> QED BY <1>2 DEF v, w

(* The quantity of every holder of a row is a number. *)
LEMMA HoldersQuantities ==
    ASSUME IInv, NEW row \in Rows, NEW o \in Holders(row)
    PROVE  o \in Orders /\ Quantity(o, row[2]) \in Nat
<1>1. o \in Orders /\ row \in held[o] /\ OfItems(o, held[o])
  BY DEF Holders, IInv, Whole
<1> QED BY <1>1, QuantityType

(* What is promised of a row is a number. *)
LEMMA PromisedType ==
    ASSUME IInv, NEW row \in Rows, IsFiniteSet(Holders(row))
    PROVE  Promised(row) \in Nat
<1> DEFINE v == [o \in Holders(row) |-> Quantity(o, row[2])]
<1>1. \A o \in Holders(row) : v[o] \in Nat
  BY HoldersQuantities
<1> HIDE DEF v
<1>2. SumFunctionOnSet(v, Holders(row)) \in Nat
  BY <1>1, SumNat, SMTT(30)
<1> QED BY <1>2 DEF v, Promised

(* A row whose quantities and reservations a step leaves alone stays balanced. *)
LEMMA QuietRow ==
    ASSUME NEW row \in Rows, Balanced(row),
           available'[row] = available[row], reserved'[row] = reserved[row],
           \A o \in Orders : row \in held'[o] <=> row \in held[o]
    PROVE  Balanced(row)'
<1>1. Holders(row)' = Holders(row)
  BY DEF Holders
<1>2. Promised(row)' = Promised(row)
  BY <1>1 DEF Promised
<1> QED BY <1>1, <1>2 DEF Balanced

(* A new holder adds its quantity to what is promised of a row. *)
LEMMA HolderAdded ==
    ASSUME NEW H \in SUBSET Orders, IsFiniteSet(H), NEW o \in Orders \ H, NEW s,
           \A p \in H \cup {o} : Quantity(p, s) \in Nat
    PROVE  /\ IsFiniteSet(H \cup {o})
           /\ SumFunctionOnSet([p \in H \cup {o} |-> Quantity(p, s)], H \cup {o})
                = Quantity(o, s) + SumFunctionOnSet([p \in H |-> Quantity(p, s)], H)
<1> DEFINE w == [p \in Orders |-> Quantity(p, s)]
           G == H \cup {o}
<1>1. (\A p \in G : w[p] \in Nat) /\ w[o] = Quantity(o, s) /\ G \in SUBSET Orders
  OBVIOUS
<1>2. IsFiniteSet(G)
  BY FS_AddElement
<1>3. /\ SumFunctionOnSet([p \in G |-> Quantity(p, s)], G) = SumFunctionOnSet(w, G)
      /\ SumFunctionOnSet([p \in H |-> Quantity(p, s)], H) = SumFunctionOnSet(w, H)
  <2> HIDE DEF G
  <2> QED BY <1>1, <1>2, SumOverHolders
<1> HIDE DEF w
<1>4. SumFunctionOnSet(w, G) = w[o] + SumFunctionOnSet(w, H)
  BY <1>1, SumAdd
<1> QED BY <1>1, <1>2, <1>3, <1>4, Zenon

(* A holder that leaves takes its quantity with it, and no more than was      *)
(* promised.                                                                  *)
LEMMA HolderRemoved ==
    ASSUME NEW H \in SUBSET Orders, IsFiniteSet(H), NEW o \in H, NEW s,
           \A p \in H : Quantity(p, s) \in Nat
    PROVE  /\ IsFiniteSet(H \ {o})
           /\ SumFunctionOnSet([p \in H \ {o} |-> Quantity(p, s)], H \ {o}) \in Nat
           /\ SumFunctionOnSet([p \in H |-> Quantity(p, s)], H)
                = Quantity(o, s) + SumFunctionOnSet([p \in H \ {o} |-> Quantity(p, s)], H \ {o})
<1> DEFINE w == [p \in Orders |-> Quantity(p, s)]
           G == H \ {o}
<1>1. (\A p \in H : w[p] \in Nat) /\ w[o] = Quantity(o, s) /\ G \in SUBSET Orders
  OBVIOUS
<1>2. IsFiniteSet(G)
  BY FS_Subset
<1>3. /\ SumFunctionOnSet([p \in G |-> Quantity(p, s)], G) = SumFunctionOnSet(w, G)
      /\ SumFunctionOnSet([p \in H |-> Quantity(p, s)], H) = SumFunctionOnSet(w, H)
  <2> HIDE DEF G
  <2> QED BY <1>1, <1>2, SumOverHolders
<1> HIDE DEF w
<1>4. SumFunctionOnSet(w, H) = w[o] + SumFunctionOnSet(w, G)
  BY <1>1, SumRemove
<1>5. SumFunctionOnSet(w, G) \in Nat
  BY <1>1, <1>2, SumNat
<1> QED BY <1>1, <1>2, <1>3, <1>4, <1>5, Zenon

(* The commit of a reservation moves units from available to reserved, and    *)
(* makes its order a holder of the rows.                                      *)
LEMMA CommitReserveBalances ==
    ASSUME Books, NEW o \in Orders, CommitReserve(o), NEW row \in Rows
    PROVE  Balanced(row)'
<1>1. /\ tx[o].kind = "reserve"
      /\ available' = [r \in Rows |-> IF r \in tx[o].rows
                          THEN available[r] - Quantity(o, r[2]) ELSE available[r]]
      /\ reserved' = [r \in Rows |-> IF r \in tx[o].rows
                          THEN reserved[r] + Quantity(o, r[2]) ELSE reserved[r]]
      /\ held' = [held EXCEPT ![o] = held[o] \cup tx[o].rows]
  BY Zenon DEF CommitReserve
<1>2. \A p \in Orders : row \in held'[p] <=> row \in held[p] \/ (p = o /\ row \in tx[o].rows)
  BY <1>1 DEF Books, IInv, Types
<1>3. CASE row \notin tx[o].rows
  <2>1. available'[row] = available[row] /\ reserved'[row] = reserved[row]
    BY <1>1, <1>3
  <2> QED BY <1>2, <1>3, <2>1, QuietRow DEF Books
<1>4. CASE row \in tx[o].rows
  <2> DEFINE Q == Quantity(o, row[2])
  <2>1. /\ available'[row] = available[row] - Q
        /\ reserved'[row] = reserved[row] + Q
    BY <1>1, <1>4
  <2>2. row \notin held[o] /\ o \notin Holders(row)
    BY <1>1, <1>4 DEF Books, Fresh, Holders
  <2>3. Holders(row)' = Holders(row) \cup {o} /\ Holders(row) \in SUBSET Orders
    BY <1>2, <1>4 DEF Holders
  <2>4. Q \in Nat /\ \A p \in Holders(row) : Quantity(p, row[2]) \in Nat
    <3>1. OfItems(o, tx[o].rows)
      BY Zenon DEF Books, IInv, Progress
    <3> QED BY <1>4, <3>1, QuantityType, HoldersQuantities DEF Books
  <2>5. PICK H \in SUBSET Orders : H = Holders(row) /\ IsFiniteSet(H)
    BY <2>3 DEF Books, Balanced
  <2>6. /\ IsFiniteSet(H \cup {o})
        /\ SumFunctionOnSet([p \in H \cup {o} |-> Quantity(p, row[2])], H \cup {o})
                = Q + SumFunctionOnSet([p \in H |-> Quantity(p, row[2])], H)
    <3>1. o \in Orders \ H /\ \A p \in H \cup {o} : Quantity(p, row[2]) \in Nat
      BY <2>2, <2>4, <2>5
    <3> QED BY <2>5, <3>1, HolderAdded, ZenonT(40)
  <2>7. IsFiniteSet(Holders(row)') /\ Promised(row)' = Q + Promised(row)
    BY <2>3, <2>5, <2>6 DEF Promised
  <2>8. /\ reserved[row] = Promised(row) /\ available[row] + reserved[row] = Stock[row]
        /\ available[row] \in Nat /\ Stock[row] \in Nat
    BY InventoryConstants DEF Books, Balanced, IInv, Types
  <2>9. reserved[row] \in Nat
    BY <2>5, <2>8, PromisedType DEF Books
  <2> HIDE DEF Q
  <2> QED BY <2>1, <2>4, <2>7, <2>8, <2>9, SMTT(30) DEF Balanced
<1> QED BY <1>3, <1>4

(* The commit of a release moves the units back, GREATEST or not, and the     *)
(* order holds nothing any more.                                              *)
LEMMA CommitReleaseBalances ==
    ASSUME Books, NEW o \in Orders, CommitRelease(o), NEW row \in Rows
    PROVE  Balanced(row)'
<1>1. /\ tx[o].rows = held[o]
      /\ available' = [r \in Rows |-> IF r \in tx[o].rows
                          THEN available[r] + Quantity(o, r[2]) ELSE available[r]]
      /\ reserved' = [r \in Rows |-> IF r \in tx[o].rows
                          THEN IF reserved[r] - Quantity(o, r[2]) > 0
                               THEN reserved[r] - Quantity(o, r[2]) ELSE 0
                          ELSE reserved[r]]
      /\ held' = [held EXCEPT ![o] = {}]
  BY Zenon DEF CommitRelease
<1>2. \A p \in Orders : row \in held'[p] <=> row \in held[p] /\ p # o
  BY <1>1 DEF Books, IInv, Types
<1>3. CASE row \notin held[o]
  <2>1. available'[row] = available[row] /\ reserved'[row] = reserved[row]
    BY <1>1, <1>3
  <2> QED BY <1>2, <1>3, <2>1, QuietRow DEF Books
<1>4. CASE row \in held[o]
  <2> DEFINE Q == Quantity(o, row[2])
  <2>1. /\ available'[row] = available[row] + Q
        /\ reserved'[row] = IF reserved[row] - Q > 0 THEN reserved[row] - Q ELSE 0
    BY <1>1, <1>4
  <2>2. o \in Holders(row)
    BY <1>4 DEF Holders
  <2>3. Holders(row)' = Holders(row) \ {o} /\ Holders(row) \in SUBSET Orders
    BY <1>2, <1>4 DEF Holders
  <2>4. Q \in Nat /\ \A p \in Holders(row) : Quantity(p, row[2]) \in Nat
    BY <2>2, HoldersQuantities DEF Books
  <2>5. PICK H \in SUBSET Orders : H = Holders(row) /\ IsFiniteSet(H)
    BY <2>3 DEF Books, Balanced
  <2>6. /\ IsFiniteSet(H \ {o})
        /\ SumFunctionOnSet([p \in H \ {o} |-> Quantity(p, row[2])], H \ {o}) \in Nat
        /\ SumFunctionOnSet([p \in H |-> Quantity(p, row[2])], H)
             = Q + SumFunctionOnSet([p \in H \ {o} |-> Quantity(p, row[2])], H \ {o})
    <3>1. o \in H /\ \A p \in H : Quantity(p, row[2]) \in Nat
      BY <2>2, <2>4, <2>5
    <3> QED BY <2>5, <3>1, HolderRemoved, ZenonT(90)
  <2>7. /\ IsFiniteSet(Holders(row)')
        /\ Promised(row)' \in Nat
        /\ Promised(row) = Q + Promised(row)'
    BY <2>3, <2>5, <2>6 DEF Promised
  <2>8. /\ reserved[row] = Promised(row) /\ available[row] + reserved[row] = Stock[row]
        /\ available[row] \in Nat /\ Stock[row] \in Nat
    BY InventoryConstants DEF Books, Balanced, IInv, Types
  <2> HIDE DEF Q
  <2>9. reserved'[row] = Promised(row)' /\ available'[row] + reserved'[row] = Stock[row]
    BY <2>1, <2>4, <2>7, <2>8
  <2> QED BY <2>7, <2>9 DEF Balanced
<1> QED BY <1>3, <1>4

(* Only the two commits write quantities and reservations. *)
LEMMA NextBooks == Books /\ [Next]_vars => Books'
<1> SUFFICES ASSUME Books, [Next]_vars PROVE Books'
  OBVIOUS
<1>1. IInv'
  BY NextIInv DEF Books
<1>2. Fresh'
  <2>1. CASE UNCHANGED vars
    BY <2>1 DEF vars, Books, Fresh
  <2> QED BY <2>1, NextFresh DEF Books
<1>3. ASSUME NEW row \in Rows PROVE Balanced(row)'
  <2>1. CASE UNCHANGED <<available, reserved, held>>
    BY <2>1, QuietRow DEF Books
  <2>2. \/ UNCHANGED <<available, reserved, held>>
        \/ \E o \in Orders : CommitReserve(o) \/ CommitRelease(o)
    BY ZenonT(90) DEF Next, Reserve, vars, BeginReserve, KeepReservation, SelectCandidates,
       LockCandidate, InsufficientStock, BeginRelease, LockHeldRow, DeadlockDetected
  <2> QED BY <2>1, <2>2, CommitReserveBalances, CommitReleaseBalances
<1> QED BY <1>1, <1>2, <1>3 DEF Books

(* At first every row has its stock and no holder. *)
LEMMA InitBooks == Init => Books
<1> SUFFICES ASSUME Init PROVE Books
  OBVIOUS
<1>1. IInv
  BY InitIInv
<1>2. Fresh
  BY DEF Init, Fresh
<1>3. ASSUME NEW row \in Rows PROVE Balanced(row)
  <2>1. Holders(row) = {} /\ reserved[row] = 0 /\ available[row] = Stock[row]
    BY DEF Init, Holders
  <2>2. IsFiniteSet({}) /\ Stock[row] \in Nat
    BY FS_EmptySet, InventoryConstants
  <2>3. Promised(row) = 0
    BY <2>1, SumEmpty DEF Promised
  <2> QED BY <2>1, <2>2, <2>3 DEF Balanced
<1> QED BY <1>1, <1>2, <1>3 DEF Books

(* For any orders, items, warehouses and stock: reserved_quantity is what the *)
(* 'reserved' stock_reservations of the row add up to, available_quantity is  *)
(* the rest of its stock and is never negative.  Transactions that interleave,*)
(* wait, deadlock, and release twice create and lose no unit.                 *)
THEOREM StockIsKept == Spec => []StockIsConserved
<1>1. Books => StockIsConserved
  BY DEF Books, IInv, Types, Balanced, Promised, StockIsConserved
<1> QED BY <1>1, InitBooks, NextBooks, PTL DEF Spec
=============================================================================
