---------------------------- MODULE WebhookReplay ----------------------------
(***************************************************************************)
(* Provider webhooks (internal/providers/webhook.go): WebhookVerifier.Verify *)
(* checks the signed timestamp against the clock and then asks the replay    *)
(* store whether the event was accepted before.                              *)
(*                                                                         *)
(* A webhook is an event id and the timestamp it was signed with; deliveries *)
(* of it are duplicated and delayed at will, and a provider may sign an      *)
(* event again with another timestamp.  The clock is read once, before the   *)
(* signature check: RecordWebhook works with that reading, which other       *)
(* requests may have overtaken.  Requests without a valid signature change   *)
(* nothing and are left out.                                                 *)
(***************************************************************************)
EXTENDS Integers, Sequences

CONSTANTS
    Requests,   \* concurrent calls of Verify
    Events,     \* event ids of one provider
    Tolerance,  \* WebhookVerifier.Tolerance
    ReplayTTL,  \* WebhookVerifier.ReplayTTL
    MaxStall,   \* bound: time between the clock reading and RecordWebhook
    MaxTime,    \* bound: the clock
    MaxRestarts \* bound: restarts of the process

(* The code has five minutes and 24 hours: the replay memory outlives the    *)
(* timestamp window and any stall.                                           *)
ASSUME WebhookConstants ==
    /\ Tolerance \in Nat
    /\ ReplayTTL \in Nat
    /\ MaxStall \in Nat
    /\ MaxTime \in Nat
    /\ MaxRestarts \in Nat
    /\ ReplayTTL > 2 * Tolerance + MaxStall

VARIABLES
    now,        \* the clock
    calls,      \* calls[r]: what request r has read; NoCall: no call
    seen,       \* MemoryWebhookReplayStore.seen: expiry by event; 0: no entry
    accepted,   \* the webhooks accepted since the process started
    restarts

webhookVars == <<now, calls, seen, accepted, restarts>>

NoCall == [event |-> "none", timestamp |-> 0, receivedAt |-> 0]

Webhook == [event : Events, timestamp : Int, receivedAt : Nat]

WebhookInit ==
    /\ now = 0
    /\ calls = [r \in Requests |-> NoCall]
    /\ seen = [e \in Events |-> 0]
    /\ accepted = <<>>
    /\ restarts = 0

(* Mutant: timestamps in the future are not refused. *)
InWindowPast(timestamp) == timestamp >= now - Tolerance

(* timestamp.Before(now - tolerance) and timestamp.After(now + tolerance) *)
(* are refused: both ends belong to the window.                           *)
InWindow(timestamp) == timestamp \in (now - Tolerance)..(now + Tolerance)

(* Verify up to the signature: the clock is read and the window checked. *)
CheckWindow(r, event, timestamp) ==
    /\ calls[r] = NoCall
    /\ InWindow(timestamp)
    /\ calls' = [calls EXCEPT ![r] =
          [event |-> event, timestamp |-> timestamp, receivedAt |-> now]]
    /\ UNCHANGED <<now, seen, accepted, restarts>>

(* Mutant: an event is forgotten a lifetime after it was sent. *)
ReplayExpiresBySendTime(call) == call.timestamp + ReplayTTL

ReplayExpiresAt(call) == call.receivedAt + ReplayTTL

(* RecordWebhook first drops every entry that has expired at receivedAt. *)
Purged(receivedAt) ==
    [e \in Events |-> IF seen[e] > receivedAt THEN seen[e] ELSE 0]

RecordWebhook(r) ==
    LET call == calls[r]
        kept == Purged(call.receivedAt)
    IN  /\ call # NoCall
        /\ calls' = [calls EXCEPT ![r] = NoCall]
        /\ IF kept[call.event] # 0
           THEN seen' = kept /\ UNCHANGED accepted
           ELSE /\ seen' = [kept EXCEPT ![call.event] = ReplayExpiresAt(call)]
                /\ accepted' = Append(accepted, call)
        /\ UNCHANGED <<now, restarts>>

(* The replay memory is in the process: a restart empties it. *)
Restart ==
    /\ restarts < MaxRestarts
    /\ restarts' = restarts + 1
    /\ calls' = [r \in Requests |-> NoCall]
    /\ seen' = [e \in Events |-> 0]
    /\ accepted' = <<>>
    /\ UNCHANGED now

ClockTick ==
    /\ now < MaxTime
    /\ \A r \in Requests : calls[r] # NoCall => now < calls[r].receivedAt + MaxStall
    /\ now' = now + 1
    /\ UNCHANGED <<calls, seen, accepted, restarts>>

WebhookNext ==
    \/ \E r \in Requests, e \in Events :
          \E t \in (0 - MaxTime)..(2 * MaxTime) : CheckWindow(r, e, t)
    \/ \E r \in Requests : RecordWebhook(r)
    \/ Restart
    \/ ClockTick

WebhookSpec == WebhookInit /\ [][WebhookNext]_webhookVars

-----------------------------------------------------------------------------

(* A call that is in progress has read the clock at most MaxStall ago. *)
WebhookTypeOK ==
    /\ now \in Nat
    /\ calls \in [Requests -> Webhook \cup {NoCall}]
    /\ \A r \in Requests :
          calls[r] # NoCall => calls[r].receivedAt \in (now - MaxStall)..now
    /\ seen \in [Events -> Nat]
    /\ accepted \in Seq(Webhook)
    /\ restarts \in Nat

(* While the process runs, an event is accepted again only a replay lifetime *)
(* after it was accepted last, less the stall of a call: a call that has      *)
(* read the clock early cannot use what a later call has purged.              *)
RepeatsAreSpaced ==
    \A i, j \in 1..Len(accepted) :
        i < j /\ accepted[i].event = accepted[j].event
           => accepted[j].receivedAt >= accepted[i].receivedAt + ReplayTTL - MaxStall

(* No signed webhook is accepted twice while the process runs, however often *)
(* and however late it is delivered: its timestamp has left the window when   *)
(* its event leaves the replay memory.                                        *)
SignedOnce ==
    \A i, j \in 1..Len(accepted) :
        /\ accepted[i].event = accepted[j].event
        /\ accepted[i].timestamp = accepted[j].timestamp
        => i = j
=============================================================================
