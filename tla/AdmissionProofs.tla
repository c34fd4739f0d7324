--------------------------- MODULE AdmissionProofs ---------------------------
(***************************************************************************)
(* Proofs about the three parts that decide whether a request is let in:    *)
(* OrderSubmission, WebhookReplay and RateLimit, each for every value of    *)
(* its constants.                                                           *)
(*                                                                         *)
(* Orders: no order is accepted twice and what clients are told stays true, *)
(* for any number of submissions, keys and external ids, however they share *)
(* them.  The inductive invariant adds what a transaction in flight knows   *)
(* since its inserts: nobody else has, or is about to commit, its external  *)
(* id or its key.                                                           *)
(*                                                                         *)
(* Webhooks: within the life of one process an accepted event is remembered *)
(* until its lifetime is over, so it is accepted again only a replay        *)
(* lifetime less a stall later, and no signed webhook is accepted twice.    *)
(*                                                                         *)
(* Limiter: how much of one merchant's requests gets through in an interval *)
(* as long as a window, and that a rejection is earned.  The inductive      *)
(* invariant follows the sum of the last ticks for every number of ticks,   *)
(* because a tick turns each of those sums into the next one.               *)
(***************************************************************************)
EXTENDS OrderSubmission, WebhookReplay, RateLimit, Sums, TLAPS

Types ==
    /\ orders \subseteq Submissions
    /\ keys \in [Keys -> Submissions \cup {NoOrder}]
    /\ pc \in [Submissions -> Statements]
    /\ answer \in [Submissions -> Answers]
    /\ returned \in [Submissions -> Submissions \cup {NoOrder}]

(* An order and its idempotency_keys row are committed together. *)
KeysLeadToOrders ==
    /\ \A q \in orders : keys[KeyOf[q]] = q
    /\ \A k \in Keys : keys[k] # NoOrder => keys[k] \in orders

(* The orders row of a transaction in flight is the only one of its external *)
(* id.                                                                       *)
OrderRowIsAlone ==
    \A r \in Submissions : pc[r] \in {"key", "commit"} =>
        /\ \A q \in orders : ExternalOf[q] # ExternalOf[r]
        /\ \A q \in Submissions \ {r} :
              pc[q] \in {"key", "commit"} => ExternalOf[q] # ExternalOf[r]

(* Its idempotency_keys row is the only one of its key. *)
KeyRowIsAlone ==
    \A r \in Submissions : pc[r] = "commit" =>
        /\ keys[KeyOf[r]] = NoOrder
        /\ \A q \in Submissions \ {r} : pc[q] = "commit" => KeyOf[q] # KeyOf[r]

OneOrderPerExternalId ==
    \A q, r \in orders : ExternalOf[q] = ExternalOf[r] => q = r

IInv ==
    /\ Types
    /\ KeysLeadToOrders
    /\ OrderRowIsAlone
    /\ KeyRowIsAlone
    /\ OneOrderPerExternalId
    /\ AnswersAgree

USE SubmissionConstants

-----------------------------------------------------------------------------

(* At first there are no rows and no answers. *)
LEMMA InitIInv == Init => IInv
BY DEF Init, IInv, Types, Statements, Answers, KeysLeadToOrders, OrderRowIsAlone,
       KeyRowIsAlone, OneOrderPerExternalId, AnswersAgree

(* What Respond and Advance leave behind. *)
LEMMA RespondStep ==
  ASSUME Types, NEW r \in Submissions, NEW what \in Answers,
         NEW order \in Submissions \cup {NoOrder}, Respond(r, what, order)
  PROVE  /\ pc' \in [Submissions -> Statements] /\ pc'[r] = "done"
         /\ answer' \in [Submissions -> Answers] /\ answer'[r] = what
         /\ returned' \in [Submissions -> Submissions \cup {NoOrder}]
         /\ returned'[r] = order
         /\ \A q \in Submissions \ {r} :
               pc'[q] = pc[q] /\ answer'[q] = answer[q] /\ returned'[q] = returned[q]
BY DEF Types, Respond, Statements

(* A request that only moves on to its next statement changes no row. *)
LEMMA AdvanceStep ==
  ASSUME Types, NEW r \in Submissions, NEW statement \in Statements,
         Advance(r, statement)
  PROVE  /\ pc' \in [Submissions -> Statements] /\ pc'[r] = statement
         /\ \A q \in Submissions \ {r} : pc'[q] = pc[q]
         /\ UNCHANGED <<answer, returned>>
BY DEF Types, Advance

(* A transaction that ends without a commit, with an answer that is true. *)
LEMMA AnswerStep ==
  ASSUME IInv, NEW r \in Submissions, NEW what \in Answers,
         NEW order \in Submissions \cup {NoOrder}, Respond(r, what, order),
         UNCHANGED <<orders, keys>>,
         what \in {"accepted", "replayed"} => order \in orders /\ order = keys[KeyOf[r]],
         what = "duplicate_order" =>
            \E k \in Keys : keys[k] \in orders /\ ExternalOf[keys[k]] = ExternalOf[r]
  PROVE  IInv'
<1> USE DEF IInv
<1>1. Types'
  BY RespondStep DEF Types
<1>2. KeysLeadToOrders' /\ OneOrderPerExternalId'
  BY DEF KeysLeadToOrders, OneOrderPerExternalId
<1>3. OrderRowIsAlone'
  BY RespondStep, SMTT(30) DEF OrderRowIsAlone
<1>4. KeyRowIsAlone'
  BY RespondStep DEF KeyRowIsAlone
<1>5. AnswersAgree'
  BY RespondStep DEF AnswersAgree
<1> QED BY <1>1, <1>2, <1>3, <1>4, <1>5

(* orderByIdempotency answers with the order of a committed key. *)
LEMMA LookupStep ==
  ASSUME IInv, NEW r \in Submissions, OrderByIdempotency(r) PROVE IInv'
<1> USE DEF IInv
<1>1. CASE keys[KeyOf[r]] # NoOrder
  <2>1. Respond(r, "replayed", keys[KeyOf[r]]) /\ UNCHANGED <<orders, keys>>
    BY <1>1 DEF OrderByIdempotency
  <2>2. keys[KeyOf[r]] \in orders /\ keys[KeyOf[r]] \in Submissions
    BY <1>1 DEF KeysLeadToOrders, Types
  <2> QED BY <2>1, <2>2, AnswerStep DEF Answers
<1>2. CASE keys[KeyOf[r]] = NoOrder
  <2>1. Advance(r, "order") /\ UNCHANGED <<orders, keys>>
    BY <1>2 DEF OrderByIdempotency
  <2>2. "order" \in Statements
    BY DEF Statements
  <2>3. Types' /\ KeysLeadToOrders' /\ OneOrderPerExternalId' /\ AnswersAgree'
    BY <2>1, <2>2, AdvanceStep DEF Types, KeysLeadToOrders, OneOrderPerExternalId, AnswersAgree
  <2>4. OrderRowIsAlone'
    BY <2>1, <2>2, AdvanceStep DEF OrderRowIsAlone
  <2>5. KeyRowIsAlone'
    BY <2>1, <2>2, AdvanceStep DEF KeyRowIsAlone
  <2> QED BY <2>3, <2>4, <2>5
<1> QED BY <1>1, <1>2

(* The insert of the order row waits for, or fails on, its external id. *)
LEMMA InsertOrderRowStep ==
  ASSUME IInv, NEW r \in Submissions, InsertOrderRow(r) PROVE IInv'
<1> USE DEF IInv
<1>1. CASE \E q \in orders : ExternalOf[q] = ExternalOf[r]
  <2>1. Respond(r, "duplicate_order", NoOrder) /\ UNCHANGED <<orders, keys>>
    BY <1>1 DEF InsertOrderRow
  <2>2. PICK q \in orders : ExternalOf[q] = ExternalOf[r]
    BY <1>1
  <2>3. KeyOf[q] \in Keys /\ keys[KeyOf[q]] = q
    BY DEF KeysLeadToOrders, Types
  <2> QED BY <2>1, <2>2, <2>3, AnswerStep DEF Answers
<1>2. CASE ~\E q \in orders : ExternalOf[q] = ExternalOf[r]
  <2>1. Advance(r, "key") /\ UNCHANGED <<orders, keys>> /\ ~OrderInFlight(r)
    BY <1>2 DEF InsertOrderRow
  <2>2. "key" \in Statements
    BY DEF Statements
  <2>3. Types' /\ KeysLeadToOrders' /\ OneOrderPerExternalId' /\ AnswersAgree'
    BY <2>1, <2>2, AdvanceStep DEF Types, KeysLeadToOrders, OneOrderPerExternalId, AnswersAgree
  <2>4. OrderRowIsAlone'
    BY <1>2, <2>1, <2>2, AdvanceStep DEF OrderRowIsAlone, OrderInFlight
  <2>5. KeyRowIsAlone'
    BY <2>1, <2>2, AdvanceStep DEF KeyRowIsAlone
  <2> QED BY <2>3, <2>4, <2>5
<1> QED BY <1>1, <1>2

(* The insert of the key waits for another insert of it, or fails on it. *)
LEMMA InsertKeyStep ==
  ASSUME IInv, NEW r \in Submissions, InsertKey(r) PROVE IInv'
<1> USE DEF IInv
<1>1. CASE keys[KeyOf[r]] # NoOrder
  <2>1. Respond(r, "internal_error", NoOrder) /\ UNCHANGED <<orders, keys>>
    BY <1>1 DEF InsertKey
  <2> QED BY <2>1, AnswerStep DEF Answers
<1>2. CASE keys[KeyOf[r]] = NoOrder
  <2>1. Advance(r, "commit") /\ UNCHANGED <<orders, keys>> /\ ~KeyInFlight(r) /\ pc[r] = "key"
    BY <1>2 DEF InsertKey
  <2>2. "commit" \in Statements
    BY DEF Statements
  <2>3. Types' /\ KeysLeadToOrders' /\ OneOrderPerExternalId' /\ AnswersAgree'
    BY <2>1, <2>2, AdvanceStep DEF Types, KeysLeadToOrders, OneOrderPerExternalId, AnswersAgree
  <2>4. OrderRowIsAlone'
    BY <2>1, <2>2, AdvanceStep DEF OrderRowIsAlone
  <2>5. KeyRowIsAlone'
    BY <1>2, <2>1, <2>2, AdvanceStep DEF KeyRowIsAlone, KeyInFlight
  <2> QED BY <2>3, <2>4, <2>5
<1> QED BY <1>1, <1>2

(* Order and key become visible together. *)
LEMMA CommitStep ==
  ASSUME IInv, NEW r \in Submissions, Commit(r) PROVE IInv'
<1> USE DEF IInv
<1>1. /\ pc[r] = "commit" /\ orders' = orders \cup {r}
      /\ keys' = [keys EXCEPT ![KeyOf[r]] = r]
  BY DEF Commit
<1>2. PICK what \in {"accepted", "internal_error"} :
         Respond(r, what, IF what = "accepted" THEN r ELSE NoOrder)
  BY DEF Commit
<1> DEFINE order == IF what = "accepted" THEN r ELSE NoOrder
<1>3. what \in Answers /\ order \in Submissions \cup {NoOrder} /\ Respond(r, what, order)
  BY <1>2 DEF Answers
<1> HIDE DEF order
<1>4. /\ pc' \in [Submissions -> Statements] /\ pc'[r] = "done"
      /\ answer' \in [Submissions -> Answers] /\ answer'[r] = what
      /\ returned' \in [Submissions -> Submissions \cup {NoOrder}]
      /\ returned'[r] = order
      /\ \A q \in Submissions \ {r} :
            pc'[q] = pc[q] /\ answer'[q] = answer[q] /\ returned'[q] = returned[q]
  BY <1>3, RespondStep
<1>5. keys[KeyOf[r]] = NoOrder /\ KeyOf[r] \in Keys
  BY <1>1 DEF KeyRowIsAlone
<1>6. /\ keys' \in [Keys -> Submissions \cup {NoOrder}] /\ keys'[KeyOf[r]] = r
      /\ \A k \in Keys : k # KeyOf[r] => keys'[k] = keys[k]
  BY <1>1, <1>5 DEF Types
<1>7. Types'
  BY <1>1, <1>4, <1>6 DEF Types
<1>8. KeysLeadToOrders'
  <2>1. ASSUME NEW q \in orders PROVE KeyOf[q] # KeyOf[r] /\ KeyOf[q] \in Keys
    BY <1>5 DEF KeysLeadToOrders, Types
  <2> QED BY <2>1, <1>1, <1>5, <1>6 DEF KeysLeadToOrders
<1>9. OrderRowIsAlone'
  BY <1>1, <1>4 DEF OrderRowIsAlone
<1>10. KeyRowIsAlone'
  BY <1>1, <1>4, <1>6 DEF KeyRowIsAlone
<1>11. OneOrderPerExternalId'
  BY <1>1 DEF OneOrderPerExternalId, OrderRowIsAlone
<1>12. AnswersAgree'
  <2> SUFFICES ASSUME NEW q \in Submissions
               PROVE  /\ answer'[q] \in {"accepted", "replayed"} =>
                            returned'[q] \in orders' /\ returned'[q] = keys'[KeyOf[q]]
                      /\ answer'[q] = "duplicate_order" =>
                            \E k \in Keys : keys'[k] \in orders' /\ ExternalOf[keys'[k]] = ExternalOf[q]
    BY DEF AnswersAgree
  <2>1. CASE q = r
    BY <2>1, <1>1, <1>4, <1>6 DEF order
  <2>2. CASE q # r
    <3>1. answer'[q] = answer[q] /\ returned'[q] = returned[q] /\ KeyOf[q] \in Keys
      BY <2>2, <1>4
    <3>2. ASSUME NEW k \in Keys, keys[k] \in orders
          PROVE  keys'[k] = keys[k] /\ keys'[k] \in orders'
      BY <3>2, <1>1, <1>5, <1>6 DEF Types
    <3>3. ASSUME answer[q] \in {"accepted", "replayed"}
          PROVE  returned[q] \in orders' /\ returned[q] = keys'[KeyOf[q]]
      BY <3>1, <3>2, <3>3 DEF AnswersAgree
    <3>4. ASSUME answer[q] = "duplicate_order"
          PROVE  \E k \in Keys : keys'[k] \in orders' /\ ExternalOf[keys'[k]] = ExternalOf[q]
      BY <3>2, <3>4 DEF AnswersAgree
    <3> QED BY <3>1, <3>3, <3>4
  <2> QED BY <2>1, <2>2
<1> QED BY <1>7, <1>8, <1>9, <1>10, <1>11, <1>12

(* Every step of a submission keeps the invariant. *)
LEMMA IInvStep == IInv /\ [Next]_vars => IInv'
<1> SUFFICES ASSUME IInv, [Next]_vars PROVE IInv'
  OBVIOUS
<1>1. CASE UNCHANGED vars
  BY <1>1 DEF vars, IInv, Types, KeysLeadToOrders, OrderRowIsAlone, KeyRowIsAlone,
              OneOrderPerExternalId, AnswersAgree
<1>2. ASSUME NEW r \in Submissions, InsertOrder(r) PROVE IInv'
  BY <1>2, LookupStep, InsertOrderRowStep, InsertKeyStep, CommitStep DEF InsertOrder
<1>3. ASSUME NEW r \in Submissions, Rollback(r) PROVE IInv'
  BY <1>3, AnswerStep DEF Rollback, Answers
<1> QED BY <1>1, <1>2, <1>3 DEF Next

(* The invariant holds in every reachable state. *)
LEMMA Invariance == Spec => []IInv
<1>1. Init => IInv
  BY InitIInv
<1>2. IInv /\ [Next]_vars => IInv'
  BY IInvStep
<1> QED BY <1>1, <1>2, PTL DEF Spec

-----------------------------------------------------------------------------

(* However many submissions race through InsertOrder, and wherever they fail, *)
(* no external id and no idempotency key has two orders.                      *)
THEOREM OrdersAreUnique == Spec => []NoDuplicateOrders
<1>1. IInv => NoDuplicateOrders
  BY DEF IInv, Types, KeysLeadToOrders, OneOrderPerExternalId, NoDuplicateOrders
<1> QED BY <1>1, Invariance, PTL

(* What createOrder answers is true of the committed rows and stays true. *)
THEOREM AnswersAreKept == Spec => []AnswersAgree
<1>1. IInv => AnswersAgree
  BY DEF IInv
<1> QED BY <1>1, Invariance, PTL

HIDE SubmissionConstants

-----------------------------------------------------------------------------

(* Webhooks: WebhookVerifier.Verify and its replay store. *)

(* An accepted event is still remembered, or its lifetime is over: a stale   *)
(* clock reading purges too little, never too much.                          *)
Remembered ==
    \A i \in 1..Len(accepted) :
        \/ seen[accepted[i].event] >= accepted[i].receivedAt + ReplayTTL
        \/ now >= accepted[i].receivedAt + ReplayTTL

TimestampChecked(call) ==
    call.timestamp \in (call.receivedAt - Tolerance)..(call.receivedAt + Tolerance)

(* What was accepted, and what is about to be, had its timestamp in the      *)
(* window when the clock was read.                                           *)
WindowsChecked ==
    /\ \A i \in 1..Len(accepted) : TimestampChecked(accepted[i])
    /\ \A r \in Requests : calls[r] # NoCall => TimestampChecked(calls[r])

(* The strengthening of RepeatsAreSpaced that every step preserves. *)
WebhookInv ==
    WebhookTypeOK /\ Remembered /\ WindowsChecked /\ RepeatsAreSpaced

(* A process starts with an empty memory and no calls. *)
LEMMA WebhookInvInit ==
    ASSUME WebhookInit PROVE WebhookInv
<1>1. Len(accepted) = 0 /\ accepted \in Seq(Webhook)
  BY DEF WebhookInit
<1>2. WebhookTypeOK
  BY <1>1, WebhookConstants DEF WebhookInit, WebhookTypeOK
<1> QED
  BY <1>1, <1>2 DEF WebhookInit, WebhookInv, Remembered, WindowsChecked,
                    RepeatsAreSpaced

(* The parts of a call that is in progress. *)
LEMMA CallFields ==
    ASSUME WebhookTypeOK, NEW r \in Requests, calls[r] # NoCall
    PROVE  /\ calls[r] \in Webhook
           /\ calls[r].event \in Events
           /\ calls[r].timestamp \in Int
           /\ calls[r].receivedAt \in Nat
           /\ calls[r].receivedAt <= now
           /\ now <= calls[r].receivedAt + MaxStall
BY WebhookConstants DEF WebhookTypeOK, Webhook

(* The fields of what was accepted have their types. *)
LEMMA AcceptedFields ==
    ASSUME WebhookTypeOK
    PROVE  /\ Len(accepted) \in Nat
           /\ \A i \in 1..Len(accepted) :
                 /\ accepted[i] \in Webhook
                 /\ accepted[i].event \in Events
                 /\ accepted[i].timestamp \in Int
                 /\ accepted[i].receivedAt \in Nat
<1>1. Len(accepted) \in Nat /\ \A i \in 1..Len(accepted) : accepted[i] \in Webhook
  BY DEF WebhookTypeOK
<1> QED
  BY <1>1 DEF Webhook

(* Purging drops only entries that have expired by the clock as well. *)
LEMMA PurgeKeepsLiveEntries ==
    ASSUME WebhookTypeOK, NEW t \in Nat, t <= now, NEW e \in Events
    PROVE  /\ Purged(t)[e] \in Nat
           /\ Purged(t)[e] = seen[e] \/ (Purged(t)[e] = 0 /\ seen[e] <= t)
BY DEF WebhookTypeOK, Purged

(* CheckWindow starts a call whose timestamp is in the window now. *)
LEMMA CheckWindowStep ==
    ASSUME WebhookInv, NEW r \in Requests, NEW e \in Events, NEW t \in Int,
           CheckWindow(r, e, t)
    PROVE  WebhookInv'
<1> DEFINE call == [event |-> e, timestamp |-> t, receivedAt |-> now]
<1>1. now \in Nat /\ Tolerance \in Nat /\ MaxStall \in Nat
  BY WebhookConstants DEF WebhookInv, WebhookTypeOK
<1>2. /\ call \in Webhook /\ call.receivedAt = now /\ call.timestamp = t
      /\ TimestampChecked(call)
  BY <1>1 DEF Webhook, CheckWindow, InWindow, TimestampChecked
<1>3. calls' = [calls EXCEPT ![r] = call] /\ UNCHANGED <<now, seen, accepted, restarts>>
  BY DEF CheckWindow
<1> HIDE DEF call
<1>4. /\ calls' \in [Requests -> Webhook \cup {NoCall}]
      /\ \A q \in Requests : calls'[q] = IF q = r THEN call ELSE calls[q]
  BY <1>2, <1>3 DEF WebhookInv, WebhookTypeOK
<1>5. WebhookTypeOK'
  BY <1>1, <1>2, <1>3, <1>4 DEF WebhookInv, WebhookTypeOK
<1>6. WindowsChecked'
  BY <1>2, <1>3, <1>4 DEF WebhookInv, WindowsChecked
<1> QED
  BY <1>3, <1>5, <1>6 DEF WebhookInv, Remembered, RepeatsAreSpaced

(* RecordWebhook accepts only what is not remembered. *)
LEMMA RecordWebhookStep ==
    ASSUME WebhookInv, NEW r \in Requests, RecordWebhook(r)
    PROVE  WebhookInv'
<1> DEFINE call == calls[r]
           kept == Purged(call.receivedAt)
<1>1. /\ call \in Webhook /\ call.event \in Events /\ call.receivedAt \in Nat
      /\ call.receivedAt <= now /\ now <= call.receivedAt + MaxStall
      /\ TimestampChecked(call)
  BY CallFields DEF WebhookInv, RecordWebhook, WindowsChecked
<1>2. /\ now \in Nat /\ MaxStall \in Nat /\ ReplayTTL \in Nat
      /\ UNCHANGED <<now, restarts>>
      /\ calls' = [calls EXCEPT ![r] = NoCall]
  BY WebhookConstants DEF WebhookInv, WebhookTypeOK, RecordWebhook
<1>3. /\ kept \in [Events -> Nat]
      /\ \A e \in Events : kept[e] = seen[e] \/ (kept[e] = 0 /\ seen[e] <= call.receivedAt)
  BY <1>1, PurgeKeepsLiveEntries DEF WebhookInv, Purged
<1>4. /\ calls' \in [Requests -> Webhook \cup {NoCall}]
      /\ \A q \in Requests : calls'[q] # NoCall => calls'[q] = calls[q]
  BY <1>2 DEF WebhookInv, WebhookTypeOK
<1>5. \A i \in 1..Len(accepted) :
         \/ kept[accepted[i].event] >= accepted[i].receivedAt + ReplayTTL
         \/ now >= accepted[i].receivedAt + ReplayTTL
  <2> SUFFICES ASSUME NEW i \in 1..Len(accepted)
               PROVE  \/ kept[accepted[i].event] >= accepted[i].receivedAt + ReplayTTL
                      \/ now >= accepted[i].receivedAt + ReplayTTL
    OBVIOUS
  <2>1. accepted[i].event \in Events /\ accepted[i].receivedAt \in Nat
    BY AcceptedFields DEF WebhookInv
  <2>2. seen[accepted[i].event] \in Nat
    BY <2>1 DEF WebhookInv, WebhookTypeOK
  <2>3. \/ seen[accepted[i].event] >= accepted[i].receivedAt + ReplayTTL
        \/ now >= accepted[i].receivedAt + ReplayTTL
    BY DEF WebhookInv, Remembered
  <2>4. \/ kept[accepted[i].event] = seen[accepted[i].event]
        \/ seen[accepted[i].event] <= call.receivedAt
    BY <1>3, <2>1
  <2> HIDE DEF call, kept
  <2> QED
    BY <1>1, <1>2, <2>1, <2>2, <2>3, <2>4, SMTT(30)
<1>6. CASE kept[call.event] # 0
  <2>1. seen' = kept /\ UNCHANGED accepted
    BY <1>6 DEF RecordWebhook
  <2>2. WebhookTypeOK'
    BY <1>2, <1>3, <1>4, <2>1 DEF WebhookInv, WebhookTypeOK
  <2>3. Remembered'
    BY <1>2, <1>5, <2>1 DEF Remembered
  <2>4. WindowsChecked'
    BY <1>4, <2>1 DEF WebhookInv, WindowsChecked
  <2> QED
    BY <2>1, <2>2, <2>3, <2>4 DEF WebhookInv, RepeatsAreSpaced
<1>7. CASE kept[call.event] = 0
  <2>1. /\ seen' = [kept EXCEPT ![call.event] = call.receivedAt + ReplayTTL]
        /\ accepted' = Append(accepted, call)
    BY <1>7 DEF RecordWebhook, ReplayExpiresAt
  <2> HIDE DEF call, kept
  <2>2. /\ accepted \in Seq(Webhook) /\ Len(accepted) \in Nat
        /\ accepted' \in Seq(Webhook)
        /\ Len(accepted') = Len(accepted) + 1
        /\ accepted'[Len(accepted) + 1] = call
        /\ \A i \in 1..Len(accepted) : accepted'[i] = accepted[i]
    BY <1>1, <2>1 DEF WebhookInv, WebhookTypeOK
  <2>3. /\ seen' \in [Events -> Nat]
        /\ seen'[call.event] = call.receivedAt + ReplayTTL
        /\ \A e \in Events : e # call.event => seen'[e] = kept[e]
    BY <1>1, <1>2, <1>3, <2>1
  <2>4. WebhookTypeOK'
    BY <1>2, <1>4, <2>2, <2>3 DEF WebhookInv, WebhookTypeOK
  <2>5. \A i \in 1..Len(accepted) :
           accepted[i].event = call.event
              => now >= accepted[i].receivedAt + ReplayTTL
    BY <1>2, <1>5, <1>7, AcceptedFields DEF WebhookInv
  <2>6. Remembered'
    <3> SUFFICES ASSUME NEW i \in 1..(Len(accepted) + 1)
                 PROVE  \/ seen'[accepted'[i].event] >= accepted'[i].receivedAt + ReplayTTL
                        \/ now >= accepted'[i].receivedAt + ReplayTTL
      BY <1>2, <2>2 DEF Remembered
    <3>1. CASE i = Len(accepted) + 1
      BY <1>1, <1>2, <2>2, <2>3, <3>1
    <3>2. CASE i \in 1..Len(accepted) /\ accepted[i].event = call.event
      BY <2>2, <2>5, <3>2
    <3>3. CASE i \in 1..Len(accepted) /\ accepted[i].event # call.event
      BY <1>5, <2>2, <2>3, <3>3, AcceptedFields, SMTT(30) DEF WebhookInv
    <3> QED
      BY <2>2, <3>1, <3>2, <3>3
  <2>7. WindowsChecked'
    BY <1>1, <1>4, <2>2 DEF WebhookInv, WindowsChecked
  <2>8. RepeatsAreSpaced'
    <3> SUFFICES ASSUME NEW i \in 1..(Len(accepted) + 1), NEW j \in 1..(Len(accepted) + 1),
                        i < j, accepted'[i].event = accepted'[j].event
                 PROVE  accepted'[j].receivedAt
                           >= accepted'[i].receivedAt + ReplayTTL - MaxStall
      BY <2>2 DEF RepeatsAreSpaced
    <3>1. i \in 1..Len(accepted)
      BY <2>2
    <3>2. CASE j \in 1..Len(accepted)
      BY <2>2, <3>1, <3>2 DEF WebhookInv, RepeatsAreSpaced
    <3>3. CASE j = Len(accepted) + 1
      <4>1. now >= accepted[i].receivedAt + ReplayTTL /\ accepted[i].receivedAt \in Nat
        BY <2>2, <2>5, <3>1, <3>3, AcceptedFields DEF WebhookInv
      <4> QED
        BY <1>1, <1>2, <2>2, <3>1, <3>3, <4>1, SMTT(30)
    <3> QED
      BY <2>2, <3>2, <3>3
  <2> QED
    BY <2>4, <2>6, <2>7, <2>8 DEF WebhookInv
<1> QED
  BY <1>6, <1>7

(* Time passes and the process restarts without accepting anything. *)
LEMMA WebhookOtherSteps ==
    ASSUME WebhookInv,
           Restart \/ ClockTick \/ UNCHANGED webhookVars
    PROVE  WebhookInv'
<1>1. CASE Restart
  <2>1. Len(accepted') = 0 /\ accepted' \in Seq(Webhook)
    BY <1>1 DEF Restart
  <2>2. WebhookTypeOK'
    BY <1>1, <2>1, WebhookConstants DEF WebhookInv, WebhookTypeOK, Restart
  <2> QED
    BY <1>1, <2>1, <2>2
       DEF WebhookInv, Remembered, WindowsChecked, RepeatsAreSpaced, Restart
<1>2. CASE ClockTick
  <2>1. /\ now \in Nat /\ now' = now + 1 /\ ReplayTTL \in Nat /\ MaxStall \in Nat
        /\ UNCHANGED <<calls, seen, accepted, restarts>>
    BY <1>2, WebhookConstants DEF WebhookInv, WebhookTypeOK, ClockTick
  <2>2. \A r \in Requests :
           calls[r] # NoCall => calls[r].receivedAt \in (now' - MaxStall)..now'
    <3> SUFFICES ASSUME NEW r \in Requests, calls[r] # NoCall
                 PROVE  calls[r].receivedAt \in (now' - MaxStall)..now'
      OBVIOUS
    <3>1. now < calls[r].receivedAt + MaxStall
      BY <1>2 DEF ClockTick
    <3> QED
      BY <2>1, <3>1, CallFields DEF WebhookInv
  <2>3. WebhookTypeOK'
    BY <2>1, <2>2 DEF WebhookInv, WebhookTypeOK
  <2>4. Remembered'
    BY <2>1, AcceptedFields, SMTT(30) DEF WebhookInv, Remembered
  <2> QED
    BY <2>1, <2>3, <2>4 DEF WebhookInv, WindowsChecked, RepeatsAreSpaced
<1>3. CASE UNCHANGED webhookVars
  BY <1>3 DEF WebhookInv, WebhookTypeOK, Remembered, WindowsChecked,
              RepeatsAreSpaced, webhookVars
<1> QED
  BY <1>1, <1>2, <1>3

(* Every step of the verifier preserves the invariant. *)
LEMMA WebhookStep ==
    ASSUME WebhookInv, [WebhookNext]_webhookVars
    PROVE  WebhookInv'
<1>1. ASSUME NEW r \in Requests, NEW e \in Events,
             NEW t \in (0 - MaxTime)..(2 * MaxTime), CheckWindow(r, e, t)
      PROVE  WebhookInv'
  BY <1>1, CheckWindowStep, WebhookConstants
<1> QED
  BY <1>1, RecordWebhookStep, WebhookOtherSteps DEF WebhookNext

(* The invariant holds in every reachable state. *)
LEMMA WebhookInvariance == WebhookSpec => []WebhookInv
<1>1. WebhookInit => WebhookInv
  BY WebhookInvInit
<1>2. WebhookInv /\ [WebhookNext]_webhookVars => WebhookInv'
  BY WebhookStep
<1> QED
  BY <1>1, <1>2, PTL DEF WebhookSpec

(* An event that is accepted again was accepted a replay lifetime earlier,   *)
(* less the stall.                                                           *)
THEOREM EventsRepeatLate == WebhookSpec => []RepeatsAreSpaced
<1>1. WebhookInv => RepeatsAreSpaced
  BY DEF WebhookInv
<1> QED
  BY <1>1, WebhookInvariance, PTL

(* A signed webhook is accepted at most once by a running process, because   *)
(* the replay lifetime exceeds the timestamp window and the stall.           *)
THEOREM WebhooksAreAcceptedOnce == WebhookSpec => []SignedOnce
<1>1. WebhookInv => SignedOnce
  <2> SUFFICES ASSUME WebhookInv, NEW i \in 1..Len(accepted), NEW j \in 1..Len(accepted),
                      accepted[i].event = accepted[j].event,
                      accepted[i].timestamp = accepted[j].timestamp,
                      i < j
               PROVE  FALSE
    BY AcceptedFields DEF WebhookInv, SignedOnce
  <2>1. /\ accepted[i].receivedAt \in Nat /\ accepted[j].receivedAt \in Nat
        /\ accepted[i].timestamp \in Int
        /\ TimestampChecked(accepted[i]) /\ TimestampChecked(accepted[j])
    BY AcceptedFields DEF WebhookInv, WindowsChecked
  <2>2. accepted[j].receivedAt >= accepted[i].receivedAt + ReplayTTL - MaxStall
    BY DEF WebhookInv, RepeatsAreSpaced
  <2>3. /\ accepted[i].timestamp <= accepted[i].receivedAt + Tolerance
        /\ accepted[i].timestamp >= accepted[i].receivedAt - Tolerance
        /\ accepted[i].timestamp <= accepted[j].receivedAt + Tolerance
        /\ accepted[i].timestamp >= accepted[j].receivedAt - Tolerance
    BY <2>1, WebhookConstants DEF TimestampChecked
  <2>4. /\ Tolerance \in Nat /\ ReplayTTL \in Nat /\ MaxStall \in Nat
        /\ ReplayTTL > 2 * Tolerance + MaxStall
    BY WebhookConstants
  <2>5. \A a, b \in Nat, t \in Int :
          ~(/\ t <= a + Tolerance /\ t >= b - Tolerance
            /\ b >= a + ReplayTTL - MaxStall)
    BY <2>4
  <2> QED
    BY <2>1, <2>2, <2>3, <2>5
<1> QED
  BY <1>1, WebhookInvariance, PTL

-----------------------------------------------------------------------------

(* The limiter of the API's requests. *)

History == [0..Window -> Nat]

(* What happened at most m ticks ago. *)
Recent(history, m) == SumFunctionOnSet(history, 0..m)

(* What the counter can have let through. *)
Passed == IF count <= Limit THEN count ELSE Limit

LimiterTypes ==
    /\ limiter \in {"memory", "redis"}
    /\ count \in 0..(Limit + 1)
    /\ left \in Int /\ left <= Window
    /\ admitted \in History
    /\ counted \in History
    /\ losses \in Nat

(* What was let through after the window began came past its counter. *)
OneWindow ==
    count > 0 => \A m \in 0..(Window - 1) : m < Window - left => Recent(admitted, m) <= Passed

(* An interval as long as a window meets the current one and no more than one *)
(* before it, and one more for every counter that was lost.                   *)
TwoWindows == Recent(admitted, Window - 1) <= (1 + losses) * Limit + Passed

(* All that the counter has counted was counted since its window began. *)
CountedInWindow == count > 0 /\ left >= 0 => count <= Recent(counted, Window - left)

Earned == verdict = "rate_limited" => Recent(counted, Window) > Limit

LimiterInv ==
    LimiterTypes /\ OneWindow /\ TwoWindows /\ CountedInWindow /\ Earned

(* The history of a window is a number. *)
LEMMA RecentNat ==
    ASSUME Window \in Nat, NEW f \in History, NEW m \in Int, m <= Window
    PROVE  Recent(f, m) \in Nat
<1>1. IsFiniteSet(0..m)
  BY FS_Interval
<1>2. \A x \in 0..m : f[x] \in Nat
  BY DEF History
<1> QED BY <1>1, <1>2, SumNat, Zenon DEF Recent

(* A request of this tick is in every history. *)
LEMMA RecentChange ==
    ASSUME NEW m \in Int, NEW f, NEW g, Change(f, g, 0..m, 0)
    PROVE  Recent(g, m) + f[0] = Recent(f, m) + g[0]
<1>1. IsFiniteSet(0..m)
  BY FS_Interval
<1> QED BY <1>1, SumChange DEF Recent

(* Nothing older than m was in the last m ticks before this one. *)
LEMMA RecentShift ==
    ASSUME Window \in Nat, NEW f, NEW g, ShiftUp(f, g, Window), NEW m \in 0..Window
    PROVE  Recent(g, m) = Recent(f, m - 1)
  BY SumShift DEF Recent

(* A tick. *)
LEMMA RecentAged ==
    ASSUME Window \in Nat, NEW f \in History
    PROVE  Aged(f) \in History /\ ShiftUp(f, Aged(f), Window)
<1>1. Aged(f) = [x \in 0..Window |-> IF x = 0 THEN 0 ELSE f[x - 1]]
  BY DEF Aged, Ages
<1> QED BY <1>1 DEF History, ShiftUp

Raise(f, v) == [f EXCEPT ![0] = v]

(* The requests of this tick have another number. *)
LEMMA RecentRaised ==
    ASSUME Window \in Nat, NEW f \in History, NEW v \in Nat
    PROVE  /\ Raise(f, v) \in History
           /\ Raise(f, v)[0] = v
           /\ \A m \in 0..Window : Change(f, Raise(f, v), 0..m, 0)
  BY SMTT(30) DEF History, Change, Raise

(* A longer history holds no less. *)
LEMMA RecentGrows ==
    ASSUME Window \in Nat, NEW f \in History,
           NEW m \in Int, NEW n \in Int, m <= n, n <= Window
    PROVE  Recent(f, m) <= Recent(f, n)
<1>1. IsFiniteSet(0..n)
  BY FS_Interval
<1>2. 0..m \in SUBSET (0..n) /\ \A x \in 0..n : f[x] \in Nat
  BY DEF History
<1> QED BY <1>1, <1>2, SumPart, Zenon DEF Recent

(* What happened in this tick is part of every history. *)
LEMMA RecentFirst ==
    ASSUME Window \in Nat, NEW f \in History, NEW m \in 0..Window
    PROVE  f[0] \in Nat /\ f[0] <= Recent(f, m)
<1>1. IsFiniteSet(0..m)
  BY FS_Interval
<1>2. 0 \in 0..m /\ 0 \in 0..Window /\ \A x \in 0..m : f[x] \in Nat
  BY DEF History
<1> QED BY <1>1, <1>2, SumTerm, Zenon DEF Recent

(* At first nothing was counted. *)
LEMMA LimiterInvInit ==
    ASSUME LimiterInit PROVE LimiterInv
<1>1. Limit \in Nat /\ Limit > 0 /\ Window \in Nat /\ Window > 0
  BY RateLimitConstants
<1>2. /\ count = 0 /\ left = 0 /\ losses = 0 /\ verdict = "none"
      /\ admitted = [a \in 0..Window |-> 0] /\ counted = [a \in 0..Window |-> 0]
  BY DEF LimiterInit, Ages
<1>3. LimiterTypes
  <2>1. admitted \in History /\ counted \in History
    BY <1>2 DEF History
  <2>2. limiter \in {"memory", "redis"}
    BY DEF LimiterInit
  <2>3. count \in 0..(Limit + 1) /\ left \in Int /\ left <= Window /\ losses \in Nat
    BY <1>1, <1>2
  <2> QED BY <2>1, <2>2, <2>3, Zenon DEF LimiterTypes
<1>4. Recent(admitted, Window - 1) = 0
  <2>1. IsFiniteSet(0..(Window - 1)) /\ Cardinality(0..(Window - 1)) \in Nat
    BY <1>1, FS_Interval, FS_CardinalityType
  <2>2. \A a \in 0..(Window - 1) : admitted[a] = 0
    BY <1>1, <1>2
  <2>3. SumFunctionOnSet(admitted, 0..(Window - 1)) = Cardinality(0..(Window - 1)) * 0
    BY <2>1, <2>2, SumConstant, Zenon
  <2> QED BY <2>1, <2>3 DEF Recent
<1>5. (1 + losses) * Limit = Limit
  BY <1>1, <1>2
<1>6. OneWindow /\ CountedInWindow /\ Earned
  BY <1>2 DEF OneWindow, CountedInWindow, Earned
<1>7. TwoWindows
  BY <1>1, <1>2, <1>4, <1>5 DEF TwoWindows, Passed
<1> QED BY <1>3, <1>6, <1>7 DEF LimiterInv

(* A bucket is replaced, or a key begins, when its window is over or it was    *)
(* lost: then one window before it is all that the last interval has met.      *)
LEMMA IncrementCases ==
    ASSUME LimiterInv, Increment
    PROVE  \/ /\ count' = 1 /\ left' = Window
              /\ Recent(admitted, Window - 1) <= (1 + losses) * Limit
           \/ /\ count > 0 /\ left >= 0 /\ left' = left
              /\ count' = IF count + 1 > Limit THEN Limit + 1 ELSE count + 1
<1>1. /\ Limit \in Nat /\ Limit > 0 /\ Window \in Nat /\ Window > 0
      /\ count \in 0..(Limit + 1) /\ left \in Int /\ losses \in Nat
  BY RateLimitConstants DEF LimiterInv, LimiterTypes
<1>2. CASE ~Reset
  <2>1. limiter \in {"memory", "redis"}
    BY DEF LimiterInv, LimiterTypes
  <2>2. count > 0 /\ left >= 0
    BY <1>1, <1>2, <2>1 DEF Reset
  <2> QED BY <1>2, <2>2 DEF Increment, Capped
<1>3. CASE Reset
  <2>1. count' = 1 /\ left' = Window
    BY <1>3 DEF Increment
  <2>2. PICK b \in Nat : b = (1 + losses) * Limit /\ Limit <= b
    <3>1. \A l \in Nat : (1 + l) * Limit = Limit + l * Limit /\ l * Limit \in Nat
      BY <1>1
    <3> QED BY <1>1, <3>1
  <2>3. CASE count = 0
    BY <1>1, <2>1, <2>3 DEF LimiterInv, TwoWindows, Passed
  <2>4. CASE count > 0 /\ left <= 0
    <3>1. Window - 1 \in 0..(Window - 1) /\ Window - 1 < Window - left
      BY <1>1, <2>4
    <3>2. Recent(admitted, Window - 1) <= Passed
      BY <2>4, <3>1 DEF LimiterInv, OneWindow
    <3>3. Recent(admitted, Window - 1) \in Nat
      BY <1>1, RecentNat DEF LimiterInv, LimiterTypes
    <3>4. Passed \in Nat /\ Passed <= Limit
      BY <1>1 DEF Passed
    <3>5. Recent(admitted, Window - 1) <= b
      BY <1>1, <2>2, <3>2, <3>3, <3>4
    <3> QED BY <2>1, <2>2, <3>5
  <2>5. count = 0 \/ (count > 0 /\ left <= 0)
    BY <1>1, <1>3 DEF Reset
  <2> QED BY <2>3, <2>4, <2>5
<1> QED BY <1>2, <1>3

(* One request more was counted, up to the cap. *)
LEMMA CountedOnce ==
    ASSUME Limit \in Nat, Window \in Nat, NEW f \in History, NEW g,
           g = Raise(f, Capped(f[0] + 1))
    PROVE  /\ g \in History
           /\ \A m \in 0..Window :
                 /\ Recent(f, m) \in Nat /\ Recent(g, m) \in Nat /\ Recent(g, m) >= 1
                 /\ Recent(g, m) > Recent(f, m) \/ Recent(g, m) > Limit
<1>1. PICK c \in Nat, v \in Nat :
         /\ c = f[0] /\ v = Capped(f[0] + 1)
         /\ v = IF c + 1 > Limit THEN Limit + 1 ELSE c + 1
  <2>1. f[0] \in Nat
    BY DEF History
  <2> QED BY <2>1 DEF Capped
<1>2. /\ g \in History /\ g[0] = v
      /\ \A m \in 0..Window : Change(f, g, 0..m, 0)
  <2>1. g = Raise(f, v)
    BY <1>1
  <2> QED BY <2>1, RecentRaised, Zenon
<1>3. ASSUME NEW m \in 0..Window
      PROVE  /\ Recent(f, m) \in Nat /\ Recent(g, m) \in Nat /\ Recent(g, m) >= 1
             /\ Recent(g, m) > Recent(f, m) \/ Recent(g, m) > Limit
  <2>1. m \in Int /\ m <= Window
    OBVIOUS
  <2>2. PICK r \in Nat, s \in Nat : r = Recent(f, m) /\ s = Recent(g, m)
    BY <1>2, <2>1, RecentNat
  <2>3. s + f[0] = r + g[0]
    <3>1. Change(f, g, 0..m, 0)
      BY <1>2, Zenon
    <3>2. Recent(g, m) + f[0] = Recent(f, m) + g[0]
      BY <2>1, <3>1, RecentChange, ZenonT(40)
    <3> QED BY <2>2, <3>2, Zenon
  <2>4. f[0] <= r
    BY <2>2, RecentFirst
  <2>5. s >= 1 /\ (s > r \/ s > Limit)
    BY <1>1, <1>2, <2>3, <2>4
  <2> QED BY <2>2, <2>5
<1> QED BY <1>2, <1>3

(* One request more was let through. *)
LEMMA AdmittedOnce ==
    ASSUME Window \in Nat, NEW f \in History, NEW g, g = Raise(f, f[0] + 1)
    PROVE  g \in History /\ \A m \in 0..Window : Recent(g, m) = Recent(f, m) + 1
<1>1. PICK c \in Nat, v \in Nat : c = f[0] /\ v = c + 1
  BY DEF History
<1>2. /\ g \in History /\ g[0] = v
      /\ \A m \in 0..Window : Change(f, g, 0..m, 0)
  <2>1. g = Raise(f, v)
    BY <1>1
  <2> QED BY <2>1, RecentRaised, Zenon
<1>3. ASSUME NEW m \in 0..Window PROVE Recent(g, m) = Recent(f, m) + 1
  <2>1. m \in Int /\ m <= Window
    OBVIOUS
  <2>2. PICK r \in Nat, s \in Nat : r = Recent(f, m) /\ s = Recent(g, m)
    BY <1>2, <2>1, RecentNat
  <2>3. s + f[0] = r + g[0]
    <3>1. Change(f, g, 0..m, 0)
      BY <1>2, Zenon
    <3>2. Recent(g, m) + f[0] = Recent(f, m) + g[0]
      BY <2>1, <3>1, RecentChange, ZenonT(40)
    <3> QED BY <2>2, <3>2, Zenon
  <2>4. s = r + 1
    BY <1>1, <1>2, <2>3, SMTT(30)
  <2> QED BY <2>2, <2>4
<1> QED BY <1>2, <1>3

LimiterConstants == Limit \in Nat /\ Limit > 0 /\ Window \in Nat /\ Window > 0

Counts == counted' = Raise(counted, Capped(counted[0] + 1))

Admits == admitted' = Raise(admitted, admitted[0] + 1)

(* What the invariant says of the counter. *)
LEMMA LimiterFacts ==
    ASSUME LimiterInv
    PROVE  /\ LimiterConstants
           /\ count \in 0..(Limit + 1) /\ left \in Int /\ left <= Window
           /\ admitted \in History /\ counted \in History /\ losses \in Nat
  BY RateLimitConstants DEF LimiterInv, LimiterTypes, LimiterConstants

(* The history of what was counted keeps up with the counter. *)
LEMMA CountedStep ==
    ASSUME LimiterInv, Increment, Counts
    PROVE  /\ counted' \in History
           /\ CountedInWindow'
           /\ count' > Limit => Recent(counted', Window) > Limit
<1>0. LimiterConstants /\ counted \in History
  BY LimiterFacts
<1>1. PICK f, g : /\ f \in History /\ f = counted /\ g = counted'
                  /\ g = Raise(f, Capped(f[0] + 1))
  BY <1>0, Zenon DEF Counts
<1>2. /\ g \in History
      /\ \A m \in 0..Window :
            /\ Recent(f, m) \in Nat /\ Recent(g, m) \in Nat /\ Recent(g, m) >= 1
            /\ Recent(g, m) > Recent(f, m) \/ Recent(g, m) > Limit
  <2>1. Limit \in Nat /\ Window \in Nat
    BY <1>0 DEF LimiterConstants
  <2> QED BY <1>1, <2>1, CountedOnce, Zenon
<1>3. PICK k \in Nat, l \in Int : k = count' /\ l = left' /\ l <= Window /\ l >= 0
  BY LimiterFacts, IncrementCases DEF LimiterConstants
<1>4. /\ Window - l \in 0..Window /\ Window \in 0..Window /\ Window \in Nat /\ Limit \in Nat
      /\ Window - l \in Int /\ Window \in Int /\ Window - l <= Window /\ Window <= Window
  <2>1. Window \in Nat /\ Limit \in Nat /\ l \in Int /\ l <= Window /\ l >= 0
    BY <1>0, <1>3, Zenon DEF LimiterConstants
  <2>2. \A w \in Nat, i \in Int :
           i <= w /\ i >= 0 => /\ w - i \in 0..w /\ w \in 0..w /\ w \in Int
                              /\ w - i \in Int /\ w - i <= w /\ w <= w
    OBVIOUS
  <2> QED BY <2>1, <2>2, Zenon
<1>5. k <= Recent(g, Window - l)
  <2>1. CASE count' = 1 /\ left' = Window
    BY <1>2, <1>3, <1>4, <2>1
  <2>2. CASE /\ count > 0 /\ left >= 0 /\ left' = left
             /\ count' = IF count + 1 > Limit THEN Limit + 1 ELSE count + 1
    <3>1. count <= Recent(f, Window - l)
      BY <1>1, <1>3, <2>2 DEF LimiterInv, CountedInWindow
    <3>2. PICK r \in Nat, s \in Nat :
             /\ r = Recent(f, Window - l) /\ s = Recent(g, Window - l)
             /\ s > r \/ s > Limit
      BY <1>2, <1>4, Zenon
    <3>3. count \in Nat
      BY <1>4, LimiterFacts
    <3>4. k <= s
      BY <1>3, <1>4, <2>2, <3>1, <3>2, <3>3
    <3> QED BY <3>2, <3>4
  <2> QED BY <2>1, <2>2, IncrementCases, Zenon
<1>6. Recent(g, Window - l) <= Recent(g, Window)
  BY <1>2, <1>4, RecentGrows, Zenon
<1>7. PICK r \in Nat, s \in Nat : r = Recent(g, Window - l) /\ s = Recent(g, Window)
  BY <1>2, <1>4, Zenon
<1>8. k > Limit => Recent(g, Window) > Limit
  BY <1>3, <1>4, <1>5, <1>6, <1>7, SMTT(30)
<1> QED BY <1>1, <1>2, <1>3, <1>5, <1>8, Zenon DEF CountedInWindow

(* What a step lets through is at most one request, past a counter that is    *)
(* within the limit.                                                         *)
LEMMA AdmittedStep ==
    ASSUME LimiterInv, Increment, losses' = losses,
           admitted' = admitted \/ (count' <= Limit /\ Admits)
    PROVE  admitted' \in History /\ OneWindow' /\ TwoWindows'
<1>0. /\ LimiterConstants /\ admitted \in History /\ losses \in Nat
      /\ count \in 0..(Limit + 1) /\ left \in Int /\ left <= Window
  BY LimiterFacts
<1>1. Limit \in Nat /\ Limit > 0 /\ Window \in Nat /\ Window > 0
  BY <1>0 DEF LimiterConstants
<1>2. PICK f \in History, g \in History, d \in {0, 1} :
         /\ f = admitted /\ g = admitted'
         /\ \A m \in 0..Window : Recent(g, m) = Recent(f, m) + d
         /\ d = 1 => count' <= Limit
  <2>1. CASE admitted' = admitted
    <3>1. \A m \in 0..Window : m \in Int /\ m <= Window
      BY <1>1
    <3>2. \A m \in 0..Window : Recent(admitted, m) \in Nat
      BY <1>0, <1>1, <3>1, RecentNat, Zenon
    <3>3. \A n \in Nat : n + 0 = n
      OBVIOUS
    <3>4. \A m \in 0..Window : Recent(admitted, m) = Recent(admitted, m) + 0
      BY <3>2, <3>3, Zenon
    <3>5. 0 \in {0, 1} /\ 0 # 1
      OBVIOUS
    <3> QED BY <1>0, <2>1, <3>4, <3>5, Zenon
  <2>2. CASE count' <= Limit /\ Admits
    <3>1. PICK f, g : f \in History /\ f = admitted /\ g = admitted' /\ g = Raise(f, f[0] + 1)
      BY <1>0, <2>2, Zenon DEF Admits
    <3>2. g \in History /\ \A m \in 0..Window : Recent(g, m) = Recent(f, m) + 1
      BY <1>1, <3>1, AdmittedOnce, ZenonT(40)
    <3> QED BY <2>2, <3>1, <3>2, Zenon
  <2> QED BY <2>1, <2>2
<1>3. \A m \in 0..Window : Recent(f, m) \in Nat /\ Recent(g, m) \in Nat
  <2>1. \A m \in 0..Window : m \in Int /\ m <= Window
    BY <1>1
  <2> QED BY <1>1, <2>1, RecentNat, Zenon
<1>4. PICK b \in Nat : b = (1 + losses) * Limit
  <2>1. \A l \in Nat : (1 + l) * Limit \in Nat
    BY <1>1
  <2> QED BY <1>0, <2>1
<1>5. Window - 1 \in 0..Window
  BY <1>1
<1>6. CASE /\ count' = 1 /\ left' = Window
           /\ Recent(admitted, Window - 1) <= (1 + losses) * Limit
  <2>1. OneWindow'
    BY <1>1, <1>6 DEF OneWindow
  <2>2. Recent(g, Window - 1) <= b + 1
    BY <1>2, <1>3, <1>4, <1>5, <1>6
  <2>3. Passed' = 1
    BY <1>1, <1>6 DEF Passed
  <2> QED BY <1>2, <1>4, <2>1, <2>2, <2>3 DEF TwoWindows
<1>7. CASE /\ count > 0 /\ left >= 0 /\ left' = left
           /\ count' = IF count + 1 > Limit THEN Limit + 1 ELSE count + 1
  <2>1. Passed \in Nat /\ Passed' \in Nat /\ Passed' >= Passed + d
    BY <1>0, <1>1, <1>2, <1>7 DEF Passed
  <2>2. OneWindow'
    <3> SUFFICES ASSUME NEW m \in 0..(Window - 1), m < Window - left
                 PROVE  Recent(g, m) <= Passed'
      BY <1>2, <1>7 DEF OneWindow
    <3>1. Recent(f, m) <= Passed
      BY <1>2, <1>7 DEF LimiterInv, OneWindow
    <3>2. m \in 0..Window
      BY <1>1
    <3> QED BY <1>2, <1>3, <2>1, <3>1, <3>2
  <2>3. Recent(g, Window - 1) <= b + Passed'
    <3>1. Recent(f, Window - 1) <= b + Passed
      BY <1>2, <1>4 DEF LimiterInv, TwoWindows
    <3> QED BY <1>2, <1>3, <1>5, <2>1, <3>1
  <2> QED BY <1>2, <1>4, <2>2, <2>3 DEF TwoWindows
<1> QED BY <1>2, <1>6, <1>7, IncrementCases, Zenon

(* allowWrite on either limiter, and a reply of Redis that is lost. *)
LEMMA RequestStep ==
    ASSUME LimiterInv, AllowWrite \/ Unavailable
    PROVE  LimiterInv'
<1>0. limiter' = limiter /\ losses' = losses
  BY DEF AllowWrite, Unavailable
<1>1. Limit \in Nat /\ Limit > 0 /\ Window \in Nat
  BY LimiterFacts DEF LimiterConstants
<1>2. CASE /\ Increment /\ Counts
           /\ admitted' = admitted \/ (count' <= Limit /\ Admits)
           /\ verdict' = "rate_limited" => count' > Limit
  <2>1. /\ counted' \in History /\ CountedInWindow'
        /\ count' > Limit => Recent(counted', Window) > Limit
    BY <1>2, CountedStep, Zenon
  <2>2. admitted' \in History /\ OneWindow' /\ TwoWindows'
    BY <1>0, <1>2, AdmittedStep, Zenon
  <2>3. count' \in 0..(Limit + 1) /\ left' \in Int /\ left' <= Window
    BY <1>1, <1>2, IncrementCases, LimiterFacts
  <2>4. LimiterTypes'
    BY <1>0, <2>1, <2>2, <2>3, Zenon DEF LimiterInv, LimiterTypes, History
  <2>5. Earned'
    BY <1>2, <2>1, Zenon DEF Earned
  <2> QED BY <1>0, <2>1, <2>2, <2>4, <2>5, Zenon DEF LimiterInv
<1>3. CASE UNCHANGED <<count, left, counted, admitted>> /\ verdict' # "rate_limited"
  <2>1. count' = count /\ left' = left /\ counted' = counted /\ admitted' = admitted
    BY <1>3
  <2> QED BY <1>0, <1>3, <2>1 DEF LimiterInv, LimiterTypes, OneWindow, TwoWindows,
                                  CountedInWindow, Earned, Passed
<1>4. counted \in History /\ admitted \in History
  BY LimiterFacts
<1>5. /\ counted' = [counted EXCEPT ![0] = Capped(@ + 1)] => Counts
      /\ admitted' = [admitted EXCEPT ![0] = @ + 1] => Admits
  BY <1>4 DEF Counts, Admits, Raise, History
<1>6. CASE AllowWrite
  <2>1. /\ Increment /\ Counts
        /\ admitted' = admitted \/ (count' <= Limit /\ Admits)
    BY <1>5, <1>6, Zenon DEF AllowWrite
  <2>2. count' \in Int
    BY <1>1, <2>1, IncrementCases, LimiterFacts
  <2>3. verdict' = "rate_limited" => ~(count' <= Limit)
    BY <1>6 DEF AllowWrite
  <2>4. verdict' = "rate_limited" => count' > Limit
    BY <1>1, <2>2, <2>3
  <2> QED BY <1>2, <2>1, <2>4, Zenon
<1>7. CASE Unavailable
  <2>1. /\ admitted' = admitted /\ verdict' # "rate_limited"
        /\ \/ Increment /\ Counts
           \/ UNCHANGED <<count, left, counted>>
    BY <1>5, <1>7 DEF Unavailable
  <2>2. CASE Increment /\ Counts
    BY <1>2, <2>1, <2>2, Zenon
  <2>3. CASE UNCHANGED <<count, left, counted>>
    BY <1>3, <2>1, <2>3
  <2> QED BY <2>1, <2>2, <2>3
<1> QED BY <1>6, <1>7

(* A counter that is lost lets another window begin. *)
LEMMA LoseCounterStep ==
    ASSUME LimiterInv, LoseCounter PROVE LimiterInv'
<1>1. /\ Limit \in Nat /\ Limit > 0 /\ Window \in Nat /\ admitted \in History
      /\ count \in 0..(Limit + 1) /\ losses \in Nat
  BY LimiterFacts DEF LimiterConstants
<1>2. /\ count' = 0 /\ left' = 0 /\ losses' = losses + 1 /\ limiter' = limiter
      /\ admitted' = admitted /\ counted' = counted /\ verdict' = verdict
  BY DEF LoseCounter
<1>3. LimiterTypes'
  <2>1. 0 \in 0..(Limit + 1) /\ 0 \in Int /\ 0 <= Window /\ losses + 1 \in Nat
    BY <1>1
  <2> QED BY <1>2, <2>1, Zenon DEF LimiterInv, LimiterTypes, History
<1>4. OneWindow' /\ CountedInWindow' /\ Earned'
  <2>1. ~(count' > 0)
    BY <1>2
  <2> QED BY <1>2, <2>1 DEF LimiterInv, OneWindow, CountedInWindow, Earned
<1>5. TwoWindows'
  <2>1. PICK b \in Nat, c \in Nat :
           b = (1 + losses) * Limit /\ c = (1 + losses') * Limit /\ c = b + Limit
    <3>1. \A l \in Nat : /\ (1 + l) * Limit \in Nat /\ (1 + (l + 1)) * Limit \in Nat
                         /\ (1 + (l + 1)) * Limit = (1 + l) * Limit + Limit
      BY <1>1
    <3> QED BY <1>1, <1>2, <3>1
  <2>2. PICK r \in Nat, s \in Nat :
           r = Recent(admitted, Window - 1) /\ s = Passed /\ s <= Limit /\ Passed' = 0
    <3>1. Window - 1 \in Int /\ Window - 1 <= Window
      BY <1>1
    <3>2. Recent(admitted, Window - 1) \in Nat
      BY <1>1, <3>1, RecentNat, Zenon
    <3>3. Passed \in Nat /\ Passed <= Limit /\ Passed' = 0
      BY <1>1, <1>2 DEF Passed
    <3> QED BY <3>2, <3>3
  <2>3. r <= b + s
    BY <2>1, <2>2 DEF LimiterInv, TwoWindows
  <2>4. r <= c + 0
    BY <1>1, <2>1, <2>2, <2>3
  <2> QED BY <1>2, <2>1, <2>2, <2>4 DEF TwoWindows
<1> QED BY <1>3, <1>4, <1>5 DEF LimiterInv

(* Time passes: the window and the histories age together. *)
LEMMA LimiterTickStep ==
    ASSUME LimiterInv, Tick PROVE LimiterInv'
<1>1. /\ Limit \in Nat /\ Limit > 0 /\ Window \in Nat /\ Window > 0
      /\ count \in 0..(Limit + 1) /\ left \in Int /\ left <= Window
      /\ admitted \in History /\ counted \in History /\ losses \in Nat
  BY LimiterFacts DEF LimiterConstants
<1>2. /\ count' = count /\ left' = (IF left < 0 THEN left ELSE left - 1) /\ losses' = losses
      /\ limiter' = limiter /\ verdict' = "none"
      /\ admitted' = Aged(admitted) /\ counted' = Aged(counted)
  BY DEF Tick
<1>3. ASSUME NEW f \in History
      PROVE  /\ Aged(f) \in History
             /\ \A m \in 0..Window : Recent(Aged(f), m) = Recent(f, m - 1)
  BY <1>1, RecentAged, RecentShift, Zenon
<1>4. PICK f \in History, g \in History :
         /\ f = admitted /\ g = admitted'
         /\ \A m \in 0..Window : Recent(g, m) = Recent(f, m - 1)
  BY <1>1, <1>2, <1>3, Zenon
<1>5. PICK h \in History, k \in History :
         /\ h = counted /\ k = counted'
         /\ \A m \in 0..Window : Recent(k, m) = Recent(h, m - 1)
  BY <1>1, <1>2, <1>3, Zenon
<1>6. LimiterTypes'
  <2>1. left' \in Int /\ left' <= Window
    BY <1>1, <1>2
  <2> QED BY <1>2, <1>4, <1>5, <2>1, Zenon DEF LimiterInv, LimiterTypes, History
<1>7. Passed' = Passed /\ Passed \in Nat
  BY <1>1, <1>2 DEF Passed
<1>8. OneWindow'
  <2> SUFFICES ASSUME count > 0, NEW m \in 0..(Window - 1), m < Window - left'
               PROVE  Recent(g, m) <= Passed
    BY <1>2, <1>4, <1>7 DEF OneWindow
  <2>1. m \in 0..Window /\ m \in Nat
    BY <1>1
  <2>2. Recent(g, m) = Recent(f, m - 1)
    BY <1>4, <2>1, Zenon
  <2>3. CASE m = 0
    <3>1. 0..(m - 1) = {}
      BY <2>3
    <3>2. Recent(f, m - 1) = 0
      BY <3>1, SumEmpty, Zenon DEF Recent
    <3> QED BY <1>7, <2>2, <3>2
  <2>4. CASE m # 0
    <3>1. m - 1 \in 0..(Window - 1) /\ m - 1 < Window - left
      BY <1>1, <1>2, <2>1, <2>4
    <3>2. Recent(f, m - 1) <= Passed
      BY <1>4, <3>1 DEF LimiterInv, OneWindow
    <3> QED BY <2>2, <3>2
  <2> QED BY <2>3, <2>4
<1>9. TwoWindows'
  <2>1. /\ Window - 1 \in 0..Window /\ Window - 1 \in Int /\ Window - 1 <= Window
        /\ Window - 1 - 1 \in Int /\ Window - 1 - 1 <= Window - 1 /\ Window - 1 - 1 <= Window
    BY <1>1
  <2>2. Recent(g, Window - 1) = Recent(f, Window - 1 - 1)
    BY <1>4, <2>1, Zenon
  <2>3. Recent(f, Window - 1 - 1) <= Recent(f, Window - 1)
    BY <1>1, <2>1, RecentGrows, Zenon
  <2>4. PICK r \in Nat, s \in Nat : r = Recent(f, Window - 1 - 1) /\ s = Recent(f, Window - 1)
    BY <1>1, <2>1, RecentNat, Zenon
  <2>5. PICK b \in Nat : b = (1 + losses) * Limit
    <3>1. \A l \in Nat : (1 + l) * Limit \in Nat
      BY <1>1
    <3> QED BY <1>1, <3>1
  <2>6. s <= b + Passed
    BY <1>4, <2>4, <2>5 DEF LimiterInv, TwoWindows
  <2>7. r <= b + Passed
    BY <1>7, <2>3, <2>4, <2>5, <2>6
  <2> QED BY <1>2, <1>4, <1>7, <2>2, <2>4, <2>5, <2>7 DEF TwoWindows
<1>10. CountedInWindow'
  <2> SUFFICES ASSUME count > 0, left' >= 0
               PROVE  count <= Recent(k, Window - left')
    BY <1>2, <1>5 DEF CountedInWindow
  <2>1. left >= 0 /\ Window - left' \in 0..Window /\ (Window - left') - 1 = Window - left
    BY <1>1, <1>2
  <2>2. Recent(k, Window - left') = Recent(h, Window - left)
    BY <1>5, <2>1
  <2>3. count <= Recent(h, Window - left)
    BY <1>5, <2>1 DEF LimiterInv, CountedInWindow
  <2> QED BY <2>2, <2>3
<1>11. Earned'
  BY <1>2 DEF Earned
<1> QED BY <1>6, <1>8, <1>9, <1>10, <1>11 DEF LimiterInv

(* Every step of the limiter keeps the invariant. *)
LEMMA LimiterStep == LimiterInv /\ [LimiterNext]_limiterVars => LimiterInv'
<1> SUFFICES ASSUME LimiterInv, [LimiterNext]_limiterVars PROVE LimiterInv'
  OBVIOUS
<1>1. CASE UNCHANGED limiterVars
  <2>1. /\ count' = count /\ left' = left /\ counted' = counted /\ admitted' = admitted
        /\ limiter' = limiter /\ losses' = losses /\ verdict' = verdict
    BY <1>1 DEF limiterVars
  <2> QED BY <2>1 DEF LimiterInv, LimiterTypes, OneWindow, TwoWindows, CountedInWindow,
                      Earned, Passed
<1> QED BY <1>1, RequestStep, LoseCounterStep, LimiterTickStep DEF LimiterNext

(* The invariant holds in every reachable state. *)
LEMMA LimiterInvariance == LimiterSpec => []LimiterInv
<1>1. LimiterInit => LimiterInv
  BY LimiterInvInit
<1>2. LimiterInv /\ [LimiterNext]_limiterVars => LimiterInv'
  BY LimiterStep
<1> QED BY <1>1, <1>2, PTL DEF LimiterSpec

(* For any limit and window: allowWrite lets through at most two windows'      *)
(* worth of one merchant's requests in an interval as long as a window, and    *)
(* one more for every counter that Redis or the process has lost.              *)
THEOREM BurstsAreBounded == LimiterSpec => []BurstIsBounded
<1>1. LimiterInv => BurstIsBounded
  <2> SUFFICES ASSUME LimiterInv PROVE BurstIsBounded
    OBVIOUS
  <2>1. /\ Limit \in Nat /\ Window \in Nat /\ admitted \in History
        /\ count \in 0..(Limit + 1) /\ losses \in Nat
    BY LimiterFacts DEF LimiterConstants
  <2>2. PICK b \in Nat, c \in Nat :
           b = (1 + losses) * Limit /\ c = (2 + losses) * Limit /\ c = b + Limit
    <3>1. \A l \in Nat : /\ (1 + l) * Limit \in Nat /\ (2 + l) * Limit \in Nat
                         /\ (2 + l) * Limit = (1 + l) * Limit + Limit
      BY <2>1
    <3> QED BY <2>1, <3>1
  <2>3. PICK r \in Nat, s \in Nat :
           r = Recent(admitted, Window - 1) /\ s = Passed /\ s <= Limit
    <3>1. Window - 1 \in Int /\ Window - 1 <= Window
      BY <2>1
    <3>2. Recent(admitted, Window - 1) \in Nat
      BY <2>1, <3>1, RecentNat, Zenon
    <3>3. Passed \in Nat /\ Passed <= Limit
      BY <2>1 DEF Passed
    <3> QED BY <3>2, <3>3
  <2>4. r <= b + s
    BY <2>2, <2>3 DEF LimiterInv, TwoWindows
  <2>5. r <= c
    BY <2>1, <2>2, <2>3, <2>4
  <2>6. Total(admitted, 0..(Window - 1)) = r
    BY <2>3 DEF Recent, Total
  <2> QED BY <2>2, <2>5, <2>6 DEF BurstIsBounded
<1> QED BY <1>1, LimiterInvariance, PTL

(* For any limit and window: a merchant that allowWrite turns away with        *)
(* rate_limited has sent more than the limit within the last window.           *)
THEOREM RejectionsAreEarned == LimiterSpec => []RejectionIsEarned
<1>1. LimiterInv => RejectionIsEarned
  <2>1. Total(counted, Ages) = Recent(counted, Window)
    BY DEF Recent, Total, Ages
  <2> QED BY <2>1 DEF LimiterInv, Earned, RejectionIsEarned
<1> QED BY <1>1, LimiterInvariance, PTL
=============================================================================
