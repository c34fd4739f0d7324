----------------------------- MODULE AtLeastOnce -----------------------------
(***************************************************************************)
(* What the outbox and its relays promise together: an event that was      *)
(* accepted may be delivered any number of times, and the platform only    *)
(* forgets about it after it was delivered.                                *)
(***************************************************************************)

CONSTANT Events        \* the outbox events

VARIABLES
    accepted,          \* committed in the outbox
    delivered,         \* routed to the queues at least once
    settled            \* nobody will try to deliver them any more

Init == accepted = {} /\ delivered = {} /\ settled = {}

Accept(e) ==
    /\ accepted' = accepted \cup {e}
    /\ UNCHANGED <<delivered, settled>>

Deliver(e) ==
    /\ e \in accepted
    /\ delivered' = delivered \cup {e}
    /\ UNCHANGED <<accepted, settled>>

Settle(e) ==
    /\ e \in delivered
    /\ settled' = settled \cup {e}
    /\ UNCHANGED <<accepted, delivered>>

Next == \E e \in Events : Accept(e) \/ Deliver(e) \/ Settle(e)

Spec == Init /\ [][Next]_<<accepted, delivered, settled>>
=============================================================================
