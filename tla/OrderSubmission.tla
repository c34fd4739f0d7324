--------------------------- MODULE OrderSubmission ---------------------------
(***************************************************************************)
(* POST /api/v1/orders: concurrent and repeated submissions of one merchant *)
(* (internal/api/server.go, internal/commerce/service.go) and the           *)
(* statements of InsertOrder (internal/postgres/store.go).  A submission    *)
(* carries an idempotency key and an external order id; a client that       *)
(* retries makes another submission with the same two.                      *)
(*                                                                         *)
(* Both are unique in the database.  An INSERT that meets the uncommitted   *)
(* row of another transaction waits for that transaction to end.  The order *)
(* a submission creates is named after the submission.                      *)
(***************************************************************************)
EXTENDS Naturals

CONSTANTS
    Submissions,
    Keys,
    ExternalIds,
    KeyOf,          \* KeyOf[r]: the Idempotency-Key header of r
    ExternalOf,     \* ExternalOf[r]: the external_order_id of r
    NoOrder,        \* a value that is no submission
    MaxFaults       \* bound: database errors and lost commit reports

ASSUME SubmissionConstants ==
    /\ KeyOf \in [Submissions -> Keys]
    /\ ExternalOf \in [Submissions -> ExternalIds]
    /\ NoOrder \notin Submissions
    /\ MaxFaults \in Nat

VARIABLES
    orders,         \* committed orders
    keys,           \* keys[k]: the order of the committed idempotency_keys row
    pc,             \* pc[r]: the statement InsertOrder is at
    answer,         \* answer[r]: what the client was told
    returned,       \* returned[r]: the order id in that answer
    faults

vars == <<orders, keys, pc, answer, returned, faults>>

(* "order" and "key": about to insert that row; "commit": both inserted. *)
Statements == {"lookup", "order", "key", "commit", "done"}

Answers == {"none", "accepted", "replayed", "duplicate_order", "internal_error"}

Init ==
    /\ orders = {}
    /\ keys = [k \in Keys |-> NoOrder]
    /\ pc = [r \in Submissions |-> "lookup"]
    /\ answer = [r \in Submissions |-> "none"]
    /\ returned = [r \in Submissions |-> NoOrder]
    /\ faults = 0

(* createOrder and handleCommerceError answer the client. *)
Respond(r, what, order) ==
    /\ pc' = [pc EXCEPT ![r] = "done"]
    /\ answer' = [answer EXCEPT ![r] = what]
    /\ returned' = [returned EXCEPT ![r] = order]

Advance(r, statement) ==
    /\ pc' = [pc EXCEPT ![r] = statement]
    /\ UNCHANGED <<answer, returned>>

(* Transactions that hold an uncommitted row with r's external id, r's key. *)
OrderInFlight(r) ==
    \E q \in Submissions \ {r} :
        pc[q] \in {"key", "commit"} /\ ExternalOf[q] = ExternalOf[r]

KeyInFlight(r) ==
    \E q \in Submissions \ {r} : pc[q] = "commit" /\ KeyOf[q] = KeyOf[r]

(* orderByIdempotency: a committed key answers with its order. *)
OrderByIdempotency(r) ==
    /\ pc[r] = "lookup"
    /\ IF keys[KeyOf[r]] # NoOrder
       THEN Respond(r, "replayed", keys[KeyOf[r]])
       ELSE Advance(r, "order")
    /\ UNCHANGED <<orders, keys, faults>>

(* Mutant: UNIQUE (merchant_id, external_order_id) is missing. *)
InsertOrderRowAnyway(r) ==
    /\ pc[r] = "order"
    /\ Advance(r, "key")
    /\ UNCHANGED <<orders, keys, faults>>

(* Mutant: the lookup takes a shared lock the insert has to upgrade. *)
InsertOrderRowUpgrading(r) ==
    /\ pc[r] = "order"
    /\ ~OrderInFlight(r)
    /\ \A q \in Submissions \ {r} : pc[q] = "order" => ExternalOf[q] # ExternalOf[r]
    /\ IF \E q \in orders : ExternalOf[q] = ExternalOf[r]
       THEN Respond(r, "duplicate_order", NoOrder)
       ELSE Advance(r, "key")
    /\ UNCHANGED <<orders, keys, faults>>

(* INSERT INTO orders: a unique violation is ErrDuplicateOrder. *)
InsertOrderRow(r) ==
    /\ pc[r] = "order"
    /\ ~OrderInFlight(r)
    /\ IF \E q \in orders : ExternalOf[q] = ExternalOf[r]
       THEN Respond(r, "duplicate_order", NoOrder)
       ELSE Advance(r, "key")
    /\ UNCHANGED <<orders, keys, faults>>

(* Mutant: ON CONFLICT DO UPDATE takes the key over. *)
InsertKeyOverwrites(r) ==
    /\ pc[r] = "key"
    /\ ~KeyInFlight(r)
    /\ Advance(r, "commit")
    /\ UNCHANGED <<orders, keys, faults>>

(* INSERT INTO idempotency_keys: a unique violation is not translated. *)
InsertKey(r) ==
    /\ pc[r] = "key"
    /\ ~KeyInFlight(r)
    /\ IF keys[KeyOf[r]] # NoOrder
       THEN Respond(r, "internal_error", NoOrder)
       ELSE Advance(r, "commit")
    /\ UNCHANGED <<orders, keys, faults>>

(* The commit, with the outbox event and the audit row; its report may be   *)
(* lost on the way to the API.                                              *)
Commit(r) ==
    /\ pc[r] = "commit"
    /\ orders' = orders \cup {r}
    /\ keys' = [keys EXCEPT ![KeyOf[r]] = r]
    /\ \/ Respond(r, "accepted", r) /\ UNCHANGED faults
       \/ /\ Respond(r, "internal_error", NoOrder)
          /\ faults < MaxFaults /\ faults' = faults + 1

(* A statement fails, or the client goes away: the transaction rolls back. *)
Rollback(r) ==
    /\ pc[r] # "done"
    /\ faults < MaxFaults
    /\ faults' = faults + 1
    /\ Respond(r, "internal_error", NoOrder)
    /\ UNCHANGED <<orders, keys>>

-----------------------------------------------------------------------------

InsertOrder(r) ==
    OrderByIdempotency(r) \/ InsertOrderRow(r) \/ InsertKey(r) \/ Commit(r)

Next == \E r \in Submissions : InsertOrder(r) \/ Rollback(r)

Spec == Init /\ [][Next]_vars

(* net/http runs every request in its own goroutine. *)
FairSpec == Spec /\ \A r \in Submissions : WF_vars(InsertOrder(r))

-----------------------------------------------------------------------------

(* However submissions interleave, a merchant never has two orders with one  *)
(* external id, nor two that came with one idempotency key.                  *)
NoDuplicateOrders ==
    \A q, r \in orders :
        ExternalOf[q] = ExternalOf[r] \/ KeyOf[q] = KeyOf[r] => q = r

(* What clients are told stays true of the database: whatever was answered   *)
(* under one key names one committed order, the one the key keeps, also when *)
(* the first answer was lost; and when a client is told duplicate_order, an  *)
(* order with its external id is committed and a key leads to it.            *)
AnswersAgree ==
    \A r \in Submissions :
        /\ answer[r] \in {"accepted", "replayed"} =>
              returned[r] \in orders /\ returned[r] = keys[KeyOf[r]]
        /\ answer[r] = "duplicate_order" =>
              \E k \in Keys : keys[k] \in orders /\ ExternalOf[keys[k]] = ExternalOf[r]

(* No submission waits for ever for the row of another one. *)
EverySubmissionIsAnswered == \A r \in Submissions : <>(answer[r] # "none")
=============================================================================
