----------------------------- MODULE MCDelivery -----------------------------
(* Delivery for TLC: a failure event is bound to orders.compensate and to     *)
(* notifications.email.                                                       *)
EXTENDS Delivery, TLC

CONSTANTS compensate, notifications

(* The queues of one event type play the same part. *)
Symmetry == Permutations(Queues)
=============================================================================
