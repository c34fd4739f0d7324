----------------------------- MODULE MCInventory -----------------------------
(***************************************************************************)
(* Two orders name the same two skus in opposite orders, a third competes  *)
(* for the scarce one; two warehouses hold different amounts.              *)
(***************************************************************************)
EXTENDS Inventory, TLC

CONSTANTS o1, o2, o3, s1, s2

MCItems ==
    (o1 :> <<[sku |-> s1, quantity |-> 1], [sku |-> s2, quantity |-> 1]>>) @@
    (o2 :> <<[sku |-> s2, quantity |-> 1], [sku |-> s1, quantity |-> 2]>>) @@
    (o3 :> <<[sku |-> s1, quantity |-> 1]>>)

MCStock ==
    (<<1, s1>> :> 2) @@ (<<2, s1>> :> 1) @@ (<<1, s2>> :> 1) @@ (<<2, s2>> :> 0)
=============================================================================
