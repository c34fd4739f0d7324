--------------------------- MODULE PublishConfirm ---------------------------
(***************************************************************************)
(* One confirm-mode AMQP channel and the publications made on it           *)
(* (internal/messaging/rabbitmq.go): the relay's RabbitPublisher, the       *)
(* worker's PublishRetry and ReplayDLQ all end in                           *)
(* waitForAMQPPublishOutcome, which waits for a return or a confirmation.   *)
(*                                                                         *)
(* The broker numbers the publications of a channel: a publication is its   *)
(* delivery tag, an index into log.  For an unroutable mandatory message it *)
(* sends basic.return and then basic.ack.  The client library reads the     *)
(* frames in order and puts them into the Go channels returns and confirms, *)
(* which hold one element each; the reader waits while one is full.         *)
(* waitForAMQPPublishOutcome compares the message id of a return but not    *)
(* the tag of a confirmation.                                               *)
(***************************************************************************)
EXTENDS Naturals, Sequences, FiniteSets

CONSTANTS
    Messages,           \* message ids; a retry publishes the same id again
    MaxPublications,    \* bound: publications on the channel
    MaxFaults           \* bound: publications the broker returns or refuses

ASSUME PublishConstants ==
    /\ Messages # {}
    /\ MaxPublications \in Nat
    /\ MaxFaults \in Nat

VARIABLES
    log,        \* log[k]: message of publication k and what Publish answered
    fate,       \* fate[k]: what the broker did with publication k
    read,       \* the reader has delivered the confirmations 1..read
    returnRead, \* the last publication whose return the reader delivered
    returns,    \* the publication whose return is in the channel; 0: empty
    confirms,   \* the publication whose confirmation is there; 0: empty
    channel     \* "open" or "closed"

vars == <<log, fate, read, returnRead, returns, confirms, channel>>

Fates == {"routed", "unroutable", "refused"}

Outcomes == {"waiting", "ok", "returned", "refused", "closed", "cancelled"}

Last == Len(log)

(* Publish holds the mutex until it has its answer. *)
Waiting == log # <<>> /\ log[Last].answer = "waiting"

Answer(outcome) == log' = [log EXCEPT ![Last].answer = outcome]

Init ==
    /\ log = <<>>
    /\ fate = <<>>
    /\ read = 0
    /\ returnRead = 0
    /\ returns = 0
    /\ confirms = 0
    /\ channel = "open"

Publish(m) ==
    /\ channel = "open"
    /\ ~Waiting
    /\ Last < MaxPublications
    /\ log' = Append(log, [msg |-> m, answer |-> "waiting"])
    /\ UNCHANGED <<fate, read, returnRead, returns, confirms, channel>>

-----------------------------------------------------------------------------
(* The broker takes the publications in order and confirms each of them.   *)

Faults == Cardinality({k \in DOMAIN fate : fate[k] # "routed"})

BrokerHandles(outcome) ==
    /\ channel = "open"
    /\ Len(fate) < Last
    /\ outcome # "routed" => Faults < MaxFaults
    /\ fate' = Append(fate, outcome)
    /\ UNCHANGED <<log, read, returnRead, returns, confirms, channel>>

-----------------------------------------------------------------------------
(* The reader goroutine of the client library.                             *)

ReadReturn ==
    /\ channel = "open"
    /\ read < Len(fate)
    /\ fate[read + 1] = "unroutable"
    /\ returnRead <= read
    /\ returns = 0
    /\ returns' = read + 1
    /\ returnRead' = read + 1
    /\ UNCHANGED <<log, fate, read, confirms, channel>>

ReadConfirmation ==
    /\ channel = "open"
    /\ read < Len(fate)
    /\ fate[read + 1] = "unroutable" => returnRead = read + 1
    /\ confirms = 0
    /\ confirms' = read + 1
    /\ read' = read + 1
    /\ UNCHANGED <<log, fate, returnRead, returns, channel>>

(* The connection is lost: Go closes both channels behind what they hold. *)
CloseChannel ==
    /\ channel = "open"
    /\ channel' = "closed"
    /\ UNCHANGED <<log, fate, read, returnRead, returns, confirms>>

-----------------------------------------------------------------------------
(* waitForAMQPPublishOutcome: select takes any case that is ready.         *)

(* Mutant: the wait has no case for returns. *)
TakeReturnNever ==
    /\ FALSE
    /\ UNCHANGED vars

(* A return of another message is dropped and the wait goes on. *)
TakeReturn ==
    /\ Waiting
    /\ returns # 0
    /\ IF log[returns].msg = log[Last].msg
       THEN Answer("returned")
       ELSE UNCHANGED log
    /\ returns' = 0
    /\ UNCHANGED <<fate, read, returnRead, confirms, channel>>

(* Mutant: confirmation.Ack is not looked at. *)
TakeConfirmationAsAck ==
    /\ Waiting
    /\ confirms # 0
    /\ Answer("ok")
    /\ confirms' = 0
    /\ UNCHANGED <<fate, read, returnRead, returns, channel>>

(* Any confirmation answers the publication that waits. *)
TakeConfirmation ==
    /\ Waiting
    /\ confirms # 0
    /\ Answer(IF fate[confirms] = "refused" THEN "refused" ELSE "ok")
    /\ confirms' = 0
    /\ UNCHANGED <<fate, read, returnRead, returns, channel>>

(* A closed channel is ready once it is drained. *)
FindClosed ==
    /\ Waiting
    /\ channel = "closed"
    /\ returns = 0 \/ confirms = 0
    /\ Answer("closed")
    /\ UNCHANGED <<fate, read, returnRead, returns, confirms, channel>>

(* ctx.Done(): only shutdown cancels the context, and the process then       *)
(* closes the channel.                                                      *)
Cancel ==
    /\ Waiting
    /\ Answer("cancelled")
    /\ channel' = "closed"
    /\ UNCHANGED <<fate, read, returnRead, returns, confirms>>

-----------------------------------------------------------------------------

Broker == \E outcome \in Fates : BrokerHandles(outcome)

Reader == ReadReturn \/ ReadConfirmation

Wait == TakeReturn \/ TakeConfirmation \/ FindClosed

Next ==
    \/ \E m \in Messages : Publish(m)
    \/ Broker \/ Reader \/ Wait
    \/ CloseChannel \/ Cancel

Spec == Init /\ [][Next]_vars

(* The broker confirms every publication of an open channel, the library's   *)
(* reader and the goroutine that publishes keep running.                     *)
FairSpec == Spec /\ WF_vars(Broker) /\ WF_vars(Reader) /\ WF_vars(Wait)

-----------------------------------------------------------------------------

(* The reader is behind the broker and the broker behind the publisher, only *)
(* the last publication can be unanswered, and the channels hold what was    *)
(* read.                                                                     *)
TypeOK ==
    /\ log \in Seq([msg : Messages, answer : Outcomes])
    /\ fate \in Seq(Fates)
    /\ Len(fate) <= Last
    /\ read \in 0..Len(fate)
    /\ returnRead \in 0..Len(fate)
    /\ returns \in 0..Len(fate)
    /\ confirms \in 0..read
    /\ channel \in {"open", "closed"}
    /\ \A k \in 1..Last : log[k].answer = "waiting" => k = Last

ReturnedUpTo(k) == \E j \in 1..Len(fate) : j <= k /\ fate[j] = "unroutable"

(* A nil error of Publish means that the broker has routed this very          *)
(* publication, although confirmations are not matched by their tag, as long  *)
(* as nothing was returned on the channel up to then.  After a return it does *)
(* not: the confirmation that follows a return answers the next publication.  *)
SuccessMeansRouted ==
    \A k \in 1..Last :
        log[k].answer = "ok" /\ ~ReturnedUpTo(k)
           => k <= Len(fate) /\ fate[k] = "routed"

(* Publish always comes back: the reader that waits for room in one channel   *)
(* and the publisher that waits for the other never block each other,         *)
(* however many surplus returns and confirmations have piled up.              *)
EveryPublishReturns == []<>~Waiting
=============================================================================
