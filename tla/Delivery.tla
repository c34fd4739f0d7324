------------------------------- MODULE Delivery -------------------------------
(***************************************************************************)
(* One event on its way through RabbitMQ: the queues bound to its routing   *)
(* key, their retry queues and their dead-letter queues                     *)
(* (internal/messaging/rabbitmq.go), the consumers with their inbox         *)
(* (internal/messaging/consumer.go) and the replay command                  *)
(* (internal/messaging/dlq.go).                                             *)
(*                                                                         *)
(* All three exchanges route by the event type, which two queues can share: *)
(* a copy published to the retry or the dead-letter exchange by the         *)
(* consumer of one queue reaches the retry or dead-letter queue of every    *)
(* queue bound to the type, and so does a copy that leaves a retry queue.   *)
(***************************************************************************)
EXTENDS Naturals, FiniteSets

CONSTANTS
    Queues,         \* the queues bound to the event's routing key
    MaxRetries,     \* Consumer.maxRetries (3 in production)
    FaultKinds,     \* which of AllFaultKinds may happen
    MaxFaults,      \* bound: how many of them happen, each once
    MaxReplays      \* bound: how many messages the operator replays

AllFaultKinds == {"record", "record_lost", "release", "crash", "refused",
                  "unconfirmed", "replay_unconfirmed"}

(* The faults that leave an inbox row of a message nobody has handled. *)
InboxFaults == {"record_lost", "release", "crash"}

ASSUME DeliveryConstants ==
    /\ IsFiniteSet(Queues)
    /\ MaxRetries \in Nat
    /\ MaxFaults \in Nat
    /\ MaxReplays \in Nat
    /\ FaultKinds \subseteq AllFaultKinds

Attempts == 0..MaxRetries           \* values of the fulfillhub_retry_attempt header

Idle == MaxRetries + 1              \* run[q] when no handler runs

(* Where a copy of the message is: in the queue, taken from it by a consumer *)
(* whose handler has failed, in the retry queue, in the dead-letter queue.   *)
Places == {"ready", "failed", "retry", "dead"}

VARIABLES
    copies,         \* copies[<<place, q, a>>]: number of copies with header a
    inbox,          \* queues whose consumer has an inbox row for the message
    run,            \* run[q]: the header of the copy q's handler works on
    done,           \* queues whose handler has returned nil
    replays,        \* replays so far
    faults          \* the kinds of faults so far

vars == <<copies, inbox, run, done, replays, faults>>

FanOut(place, a) == {<<place, p, a>> : p \in Queues}

(* One copy leaves the places gone and one arrives at the places added. *)
Shift(gone, added) ==
    copies' = [x \in DOMAIN copies |->
                  copies[x] + (IF x \in added THEN 1 ELSE 0) - (IF x \in gone THEN 1 ELSE 0)]

Fault(kind) ==
    /\ kind \in FaultKinds
    /\ kind \notin faults
    /\ Cardinality(faults) < MaxFaults
    /\ faults' = faults \cup {kind}

(* The relay has published the event once. *)
Init ==
    /\ copies = [x \in Places \X Queues \X Attempts |->
                    IF x \in FanOut("ready", 0) THEN 1 ELSE 0]
    /\ inbox = {}
    /\ run = [q \in Queues |-> Idle]
    /\ done = {}
    /\ replays = 0
    /\ faults = {}

-----------------------------------------------------------------------------
(* ProcessDelivery                                                         *)

(* Inbox.Record finds the row: the delivery is acked. *)
AckDuplicate(q, a) ==
    /\ copies[<<"ready", q, a>>] > 0
    /\ q \in inbox
    /\ Shift({<<"ready", q, a>>}, {})
    /\ UNCHANGED <<inbox, run, done, replays, faults>>

(* Inbox.Record inserts the row and the handler starts. *)
Start(q, a) ==
    /\ copies[<<"ready", q, a>>] > 0
    /\ q \notin inbox
    /\ Shift({<<"ready", q, a>>}, {})
    /\ inbox' = inbox \cup {q}
    /\ run' = [run EXCEPT ![q] = a]
    /\ UNCHANGED <<done, replays, faults>>

(* nackDelivery: the queue's dead-letter exchange routes the copy. *)
DeadLetter(a, from) == Shift({from}, FanOut("dead", a))

(* Inbox.Record returns an error, with or without having inserted the row. *)
RecordFails(q, a) ==
    /\ copies[<<"ready", q, a>>] > 0
    /\ q \notin inbox
    /\ DeadLetter(a, <<"ready", q, a>>)
    /\ \/ Fault("record") /\ UNCHANGED inbox
       \/ Fault("record_lost") /\ inbox' = inbox \cup {q}
    /\ UNCHANGED <<run, done, replays>>

(* Mutant: the inbox row is deleted with the ack. *)
HandlerSucceedsReleasing(q) ==
    /\ run[q] # Idle
    /\ inbox' = inbox \ {q}
    /\ run' = [run EXCEPT ![q] = Idle]
    /\ done' = done \cup {q}
    /\ UNCHANGED <<copies, replays, faults>>

HandlerSucceeds(q) ==
    /\ run[q] # Idle
    /\ run' = [run EXCEPT ![q] = Idle]
    /\ done' = done \cup {q}
    /\ UNCHANGED <<copies, inbox, replays, faults>>

(* Mutant: the inbox row is not deleted before the retry. *)
HandlerFailsKeepingInbox(q) ==
    /\ run[q] # Idle
    /\ run' = [run EXCEPT ![q] = Idle]
    /\ copies' = [copies EXCEPT ![<<"failed", q, run[q]>>] = @ + 1]
    /\ UNCHANGED <<inbox, done, replays, faults>>

(* The handler returns an error and releaseInbox deletes the row. *)
HandlerFails(q) ==
    /\ run[q] # Idle
    /\ inbox' = inbox \ {q}
    /\ run' = [run EXCEPT ![q] = Idle]
    /\ copies' = [copies EXCEPT ![<<"failed", q, run[q]>>] = @ + 1]
    /\ UNCHANGED <<done, replays, faults>>

(* The handler fails and so does releaseInbox, as when shutdown has          *)
(* cancelled the context of both: the copy is nacked and the row stays.      *)
ReleaseFails(q) ==
    /\ run[q] # Idle
    /\ run' = [run EXCEPT ![q] = Idle]
    /\ Shift({}, FanOut("dead", run[q]))
    /\ Fault("release")
    /\ UNCHANGED <<inbox, done, replays>>

(* The worker dies while the handler runs, or after its transaction and      *)
(* before the ack: the broker requeues the copy.                             *)
Crash(q) ==
    /\ run[q] # Idle
    /\ run' = [run EXCEPT ![q] = Idle]
    /\ copies' = [copies EXCEPT ![<<"ready", q, run[q]>>] = @ + 1]
    /\ done' \in {done, done \cup {q}}
    /\ Fault("crash")
    /\ UNCHANGED <<inbox, replays>>

(* The worker dies after releaseInbox, before or after PublishRetry: the     *)
(* copy it has not acked is requeued with the header it came with.           *)
CrashUnacked(q, a) ==
    /\ copies[<<"failed", q, a>>] > 0
    /\ \/ Shift({<<"failed", q, a>>}, {<<"ready", q, a>>})
       \/ /\ a < MaxRetries
          /\ Shift({<<"failed", q, a>>}, {<<"ready", q, a>>} \cup FanOut("retry", a + 1))
    /\ Fault("crash")
    /\ UNCHANGED <<inbox, run, done, replays>>

(* Mutant: the retry keeps the header it came with. *)
PublishRetrySameHeader(q, a) ==
    /\ copies[<<"failed", q, a>>] > 0
    /\ a < MaxRetries
    /\ Shift({<<"failed", q, a>>}, FanOut("retry", a))
    /\ UNCHANGED <<inbox, run, done, replays, faults>>

(* shouldRetry: PublishRetry is confirmed and the original acked. *)
PublishRetry(q, a) ==
    /\ copies[<<"failed", q, a>>] > 0
    /\ a < MaxRetries
    /\ Shift({<<"failed", q, a>>}, FanOut("retry", a + 1))
    /\ UNCHANGED <<inbox, run, done, replays, faults>>

(* PublishRetry returns an error, whether or not the broker has the copy:    *)
(* the original is nacked.                                                  *)
PublishRetryFails(q, a) ==
    /\ copies[<<"failed", q, a>>] > 0
    /\ a < MaxRetries
    /\ \/ Shift({<<"failed", q, a>>}, FanOut("dead", a)) /\ Fault("refused")
       \/ /\ Shift({<<"failed", q, a>>}, FanOut("dead", a) \cup FanOut("retry", a + 1))
          /\ Fault("unconfirmed")
    /\ UNCHANGED <<inbox, run, done, replays>>

(* Mutant: the exhausted message is acked. *)
ExhaustAcks(q) ==
    /\ copies[<<"failed", q, MaxRetries>>] > 0
    /\ Shift({<<"failed", q, MaxRetries>>}, {})
    /\ UNCHANGED <<inbox, run, done, replays, faults>>

(* The retries are used up. *)
Exhaust(q) ==
    /\ copies[<<"failed", q, MaxRetries>>] > 0
    /\ DeadLetter(MaxRetries, <<"failed", q, MaxRetries>>)
    /\ UNCHANGED <<inbox, run, done, replays, faults>>

-----------------------------------------------------------------------------
(* The broker and the operator                                             *)

(* The retry queue's TTL passes: the copy goes back to the domain exchange. *)
RetryExpires(q, a) ==
    /\ copies[<<"retry", q, a>>] > 0
    /\ Shift({<<"retry", q, a>>}, FanOut("ready", a))
    /\ UNCHANGED <<inbox, run, done, replays, faults>>

(* ReplayDLQ republishes with the headers of the dead copy and acks it, or,  *)
(* when the confirmation is missing, puts it back.                           *)
ReplayDLQ(q, a) ==
    /\ copies[<<"dead", q, a>>] > 0
    /\ replays < MaxReplays
    /\ replays' = replays + 1
    /\ \/ Shift({<<"dead", q, a>>}, FanOut("ready", a)) /\ UNCHANGED faults
       \/ Shift({}, FanOut("ready", a)) /\ Fault("replay_unconfirmed")
    /\ UNCHANGED <<inbox, run, done>>

-----------------------------------------------------------------------------

Consume(q) ==
    \/ HandlerSucceeds(q) \/ HandlerFails(q) \/ Exhaust(q)
    \/ \E a \in Attempts : AckDuplicate(q, a) \/ Start(q, a) \/ PublishRetry(q, a)

Next ==
    \E q \in Queues :
        \/ Consume(q)
        \/ ReleaseFails(q) \/ Crash(q)
        \/ \E a \in Attempts :
              RecordFails(q, a) \/ PublishRetryFails(q, a) \/ CrashUnacked(q, a)
                \/ RetryExpires(q, a) \/ ReplayDLQ(q, a)

Spec == Init /\ [][Next]_vars

(* Each queue has consumers that loop over ProcessDelivery, and TTLs pass. *)
FairSpec ==
    /\ Spec
    /\ \A q \in Queues : WF_vars(Consume(q))
    /\ \A q \in Queues : WF_vars(\E a \in Attempts : RetryExpires(q, a))

-----------------------------------------------------------------------------
(* Properties                                                              *)

(* Some copy is, or will come, where q's consumer or an operator finds it. *)
Reachable(q) ==
    \/ run[q] # Idle
    \/ \E a \in Attempts :
          \/ copies[<<"ready", q, a>>] > 0
          \/ copies[<<"failed", q, a>>] > 0
          \/ copies[<<"dead", q, a>>] > 0
          \/ \E p \in Queues : copies[<<"retry", p, a>>] > 0

(* A consumer that has not handled the message still has a copy to handle,   *)
(* in its queue, in a retry queue or in its own dead-letter queue, although  *)
(* it acks every copy that arrives while another one is being handled.  This *)
(* needs that no fault left an inbox row behind.                             *)
NothingVanishes ==
    faults \cap InboxFaults = {} => \A q \in Queues : q \in done \/ Reachable(q)

(* An inbox row stands for a message that is being handled or was handled,   *)
(* as long as no fault left one behind.                                      *)
InboxIsTruthful ==
    faults \cap InboxFaults = {} =>
        \A q \in Queues : q \in inbox <=> (q \in done \/ run[q] # Idle)

(* No consumer handles the message again after its handler has succeeded,    *)
(* whichever copies a crash, a retry or a replay brings back to its queue.   *)
HandledAtMostOnce ==
    \A q \in done : q \in inbox /\ run[q] = Idle

(* Each failure sends the message to all bound queues twice, to their retry  *)
(* queues and from there to the queues, so that a step of the header         *)
(* multiplies its copies by the square of their number.                      *)
Spread[a \in Attempts] ==
    IF a = 0 THEN 1 ELSE Cardinality(Queues) * Cardinality(Queues) * Spread[a - 1]

(* The retries of one event bound the copies of it: no queue has more copies *)
(* with a header than the failures of all queues bring there, and each crash *)
(* or lost confirmation adds no more than that again (while nothing is       *)
(* replayed).                                                                *)
CopiesAreBounded ==
    replays = 0 =>
        \A q \in Queues, a \in Attempts :
            copies[<<"ready", q, a>>] <= (1 + Cardinality(faults)) * Spread[a]

(* The traffic of an event ends, whatever its handlers answer, and then each *)
(* queue has handled it or has it in its dead-letter queue, unless a fault   *)
(* left an inbox row of a message nobody handled.                            *)
DeliveryEnds ==
    \A q \in Queues :
        <>[](/\ \A a \in Attempts : copies[<<"ready", q, a>>] = 0
             /\ \/ q \in done
                \/ \E a \in Attempts : copies[<<"dead", q, a>>] > 0
                \/ faults \cap InboxFaults # {})
=============================================================================
