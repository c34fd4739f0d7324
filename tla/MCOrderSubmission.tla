-------------------------- MODULE MCOrderSubmission --------------------------
(***************************************************************************)
(* A submission and two repetitions of it, one that reuses the key for     *)
(* another external id, and one that reuses the external id with another   *)
(* key.                                                                    *)
(***************************************************************************)
EXTENDS OrderSubmission, TLC

CONSTANTS r1, r2, r3, r4, r5, k1, k2, e1, e2

MCKeyOf == (r1 :> k1) @@ (r2 :> k1) @@ (r3 :> k1) @@ (r4 :> k1) @@ (r5 :> k2)

MCExternalOf == (r1 :> e1) @@ (r2 :> e1) @@ (r3 :> e1) @@ (r4 :> e2) @@ (r5 :> e1)
=============================================================================
