----------------------------- MODULE OutboxRelay -----------------------------
(***************************************************************************)
(* The relay processes that move committed outbox events to RabbitMQ       *)
(* (internal/messaging/relay.go, cmd/fulfillhub-outbox-relay, and the      *)
(* outbox queries of internal/postgres/store.go).  Several relays run at   *)
(* the same time; a row is claimed by a lease of 30 seconds that nobody    *)
(* owns: whoever publishes the event may mark it.                          *)
(*                                                                         *)
(* Time is abstracted to the expiry of a lease, which can come while the   *)
(* relay that holds the row is still working ("slow").                     *)
(***************************************************************************)
EXTENDS Naturals, FiniteSets

CONSTANTS
    NumEvents,      \* events are numbered by occurred_at
    Relays,         \* the relay processes
    BatchSize,      \* OUTBOX_RELAY_BATCH_SIZE
    FaultKinds,     \* which of AllFaultKinds may happen
    MaxFaults       \* bound: how many of them happen

AllFaultKinds == {"nack", "unconfirmed", "db_error", "crash", "slow", "disconnect"}

ASSUME RelayConstants ==
    /\ NumEvents \in Nat
    /\ BatchSize \in Nat \ {0}
    /\ MaxFaults \in Nat
    /\ FaultKinds \subseteq AllFaultKinds

VARIABLES
    committed,      \* rows of outbox_events
    published,      \* rows whose published_at is set
    leased,         \* rows whose claimed_until is in the future
    batch,          \* batch[r]: claimed events relay r has still to finish
    marking,        \* marking[r]: the confirmed event r is about to mark, or 0
    connected,      \* relays whose AMQP channel is open
    copies,         \* copies[e]: copies of e the broker has routed
    expiries,       \* expiries[e]: how often the lease of e ran out, counted
                    \* up to MaxFaults (history)
    faults

vars == <<committed, published, leased, batch, marking, connected, copies,
          expiries, faults>>

Events == 1..NumEvents

Init ==
    /\ committed = {}
    /\ published = {}
    /\ leased = {}
    /\ batch = [r \in Relays |-> {}]
    /\ marking = [r \in Relays |-> 0]
    /\ connected = Relays
    /\ copies = [e \in Events |-> 0]
    /\ expiries = [e \in Events |-> 0]
    /\ faults = 0

Fault(kind) ==
    /\ kind \in FaultKinds
    /\ faults < MaxFaults
    /\ faults' = faults + 1

(* A transaction of the API or of a worker commits event e. *)
Commit(e) ==
    /\ e \notin committed
    /\ committed' = committed \cup {e}
    /\ UNCHANGED <<published, leased, batch, marking, connected, copies,
                   expiries, faults>>

-----------------------------------------------------------------------------
(* RunOnce                                                                 *)

(* The first n events of S by occurred_at. *)
Oldest(S, n) == {e \in S : Cardinality({f \in S : f < e}) < n}

(* Mutant: the claim ignores claimed_until. *)
ClaimableIgnoringLeases == committed \ published

Claimable == committed \ (published \cup leased)

(* PendingOutboxEvents: one UPDATE claims the batch; RETURNING gives it back *)
(* in no particular order.                                                  *)
PendingOutboxEvents(r) ==
    /\ batch[r] = {}
    /\ Claimable # {}
    /\ batch' = [batch EXCEPT ![r] = Oldest(Claimable, BatchSize)]
    /\ leased' = leased \cup Oldest(Claimable, BatchSize)
    /\ UNCHANGED <<committed, published, marking, connected, copies, expiries,
                   faults>>

(* RunOnce returns an error: the rest of the batch stays leased. *)
Abort(r) ==
    /\ batch' = [batch EXCEPT ![r] = {}]
    /\ marking' = [marking EXCEPT ![r] = 0]

(* The broker routed the event and its confirmation arrived. *)
PublishConfirmed(r, e) ==
    /\ e \in batch[r] /\ marking[r] = 0 /\ r \in connected
    /\ copies' = [copies EXCEPT ![e] = @ + 1]
    /\ marking' = [marking EXCEPT ![r] = e]
    /\ UNCHANGED <<committed, published, leased, batch, connected, expiries,
                   faults>>

(* The broker took the event, the confirmation did not arrive. *)
PublishUnconfirmed(r, e) ==
    /\ e \in batch[r] /\ marking[r] = 0 /\ r \in connected
    /\ copies' = [copies EXCEPT ![e] = @ + 1]
    /\ Abort(r)
    /\ Fault("unconfirmed")
    /\ UNCHANGED <<committed, published, leased, connected, expiries>>

(* Mutant: the error of Publish is logged and the event marked anyway. *)
PublishFailedStillMarks(r, e) ==
    /\ e \in batch[r] /\ marking[r] = 0
    /\ marking' = [marking EXCEPT ![r] = e]
    /\ IF r \in connected THEN Fault("nack") ELSE UNCHANGED faults
    /\ UNCHANGED <<committed, published, leased, batch, connected, copies, expiries>>

(* The broker refused the event, or the channel is closed. *)
PublishFailed(r, e) ==
    /\ e \in batch[r] /\ marking[r] = 0
    /\ Abort(r)
    /\ IF r \in connected THEN Fault("nack") ELSE UNCHANGED faults
    /\ UNCHANGED <<committed, published, leased, connected, copies, expiries>>

(* Mutant: the whole batch is marked after its first publication. *)
MarkWholeBatch(r) ==
    /\ marking[r] # 0
    /\ published' = published \cup batch[r]
    /\ leased' = leased \ batch[r]
    /\ Abort(r)
    /\ UNCHANGED <<committed, connected, copies, expiries, faults>>

(* MarkOutboxPublished: a row another relay has marked is ErrNotFound, which *)
(* aborts the batch.                                                        *)
MarkOutboxPublished(r) ==
    LET e == marking[r]
    IN  /\ e # 0
        /\ IF e \in published
           THEN Abort(r) /\ UNCHANGED <<published, leased>>
           ELSE /\ published' = published \cup {e}
                /\ leased' = leased \ {e}
                /\ batch' = [batch EXCEPT ![r] = @ \ {e}]
                /\ marking' = [marking EXCEPT ![r] = 0]
        /\ UNCHANGED <<committed, connected, copies, expiries, faults>>

(* The mark fails in the database. *)
MarkFails(r) ==
    /\ marking[r] # 0
    /\ Abort(r)
    /\ Fault("db_error")
    /\ UNCHANGED <<committed, published, leased, connected, copies, expiries>>

-----------------------------------------------------------------------------
(* The environment                                                         *)

(* The relay process dies and is started again with a new connection. *)
Restart(r) ==
    /\ Abort(r)
    /\ connected' = connected \cup {r}
    /\ Fault("crash")
    /\ UNCHANGED <<committed, published, leased, copies, expiries>>

(* The AMQP channel closes.  The process goes on with the closed channel:   *)
(* the publisher is opened once, before the loop.                           *)
Disconnect(r) ==
    /\ r \in connected
    /\ connected' = connected \ {r}
    /\ Fault("disconnect")
    /\ UNCHANGED <<committed, published, leased, batch, marking, copies, expiries>>

(* Mutant: the query forgets "OR claimed_until <= now()". *)
LeaseNeverExpires(e) == FALSE /\ e \in leased /\ UNCHANGED vars

(* claimed_until passes. *)
LeaseExpires(e) ==
    /\ e \in leased
    /\ IF \E r \in Relays : e \in batch[r] THEN Fault("slow") ELSE UNCHANGED faults
    /\ leased' = leased \ {e}
    /\ expiries' = [expiries EXCEPT ![e] = IF @ < MaxFaults THEN @ + 1 ELSE @]
    /\ UNCHANGED <<committed, published, batch, marking, connected, copies>>

-----------------------------------------------------------------------------

RelayStep(r) ==
    \/ PendingOutboxEvents(r)
    \/ MarkOutboxPublished(r)
    \/ MarkFails(r)
    \/ \E e \in Events :
          PublishConfirmed(r, e) \/ PublishUnconfirmed(r, e) \/ PublishFailed(r, e)

Next ==
    \/ \E e \in Events : Commit(e) \/ LeaseExpires(e)
    \/ \E r \in Relays : RelayStep(r) \/ Restart(r) \/ Disconnect(r)

Spec == Init /\ [][Next]_vars

(* Each relay process loops over RunOnce, and time passes. *)
FairSpec ==
    /\ Spec
    /\ \A r \in Relays : WF_vars(RelayStep(r))
    /\ \A e \in Events : WF_vars(LeaseExpires(e))

-----------------------------------------------------------------------------

(* A published row was committed, a lease is on an unpublished row, and a   *)
(* relay marks only what it claimed.                                        *)
TypeOK ==
    /\ committed \subseteq Events
    /\ published \subseteq committed
    /\ leased \subseteq committed \ published
    /\ batch \in [Relays -> SUBSET committed]
    /\ marking \in [Relays -> Events \cup {0}]
    /\ \A r \in Relays : marking[r] # 0 => marking[r] \in batch[r]
    /\ connected \subseteq Relays
    /\ copies \in [Events -> Nat]
    /\ expiries \in [Events -> 0..MaxFaults]
    /\ faults \in 0..MaxFaults

(* Nothing is lost: a row is marked published only after the broker has it, *)
(* whichever relay published it and whichever relay marked it.              *)
PublishedWasRouted == \A e \in published : copies[e] > 0

(* The leases keep the relays apart: every extra copy of an event costs an  *)
(* expired lease, whatever crashed or failed.                               *)
DuplicatesNeedExpiry == \A e \in Events : copies[e] <= 1 + expiries[e]

Guarantee == INSTANCE AtLeastOnce
             WITH accepted  <- committed,
                  delivered <- {e \in Events : copies[e] > 0},
                  settled   <- published

(* The relays implement at-least-once delivery of what was committed.       *)
ImplementsAtLeastOnce == Guarantee!Spec

(* Every committed event is eventually marked published, although an error   *)
(* drops the rest of a batch and leaves it leased, unless a relay has lost   *)
(* its channel: such a relay can claim the event again and again.            *)
EveryEventIsPublished ==
    \A e \in Events :
        e \in committed ~> (e \in published \/ connected # Relays)
=============================================================================
