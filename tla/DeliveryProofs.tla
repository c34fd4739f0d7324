--------------------------- MODULE DeliveryProofs ---------------------------
(***************************************************************************)
(* Proofs about Delivery for any set of bound queues, any number of retries, *)
(* replays and faults: a handler that succeeded is not run again, no         *)
(* consumer's message vanishes, and retries multiply a message by no more    *)
(* than the fan-out of the exchange.                                         *)
(*                                                                         *)
(* The inductive invariant adds to the two statements that the inbox is      *)
(* truthful: without that, AckDuplicate could take the last copy of a        *)
(* message that nobody handles.  For the bound on copies it counts, with     *)
(* each copy, the copies that can still come of it: that number no retry     *)
(* raises (Bounded).                                                         *)
(***************************************************************************)
EXTENDS Delivery, Sums, TLAPS

Slots == Places \X Queues \X Attempts

Types ==
    /\ copies \in [Slots -> Nat]
    /\ inbox \subseteq Queues
    /\ run \in [Queues -> Attempts \cup {Idle}]
    /\ done \subseteq Queues

(* A handler runs under its inbox row. *)
RunsHoldTheirRow == \A q \in Queues : run[q] # Idle => q \in inbox

IInv ==
    /\ Types
    /\ RunsHoldTheirRow
    /\ HandledAtMostOnce
    /\ InboxIsTruthful
    /\ NothingVanishes

USE DeliveryConstants DEF Attempts, Idle, Slots

-----------------------------------------------------------------------------

(* The copies stay natural numbers, those that are added are there, and       *)
(* nothing but what is gone gets less.                                        *)
LEMMA ShiftCopies ==
  ASSUME copies \in [Slots -> Nat], NEW gone, NEW added,
         \A x \in gone : x \in Slots => copies[x] > 0,
         Shift(gone, added)
  PROVE  /\ copies' \in [Slots -> Nat]
         /\ \A x \in Slots : x \in added /\ x \notin gone => copies'[x] > 0
         /\ \A x \in Slots : x \notin gone => copies'[x] >= copies[x]
<1>1. copies' = [x \in Slots |->
          copies[x] + (IF x \in added THEN 1 ELSE 0) - (IF x \in gone THEN 1 ELSE 0)]
  BY DEF Shift
<1>2. ASSUME NEW x \in Slots
      PROVE  /\ copies'[x] \in Nat
             /\ x \in added /\ x \notin gone => copies'[x] > 0
             /\ x \notin gone => copies'[x] >= copies[x]
  <2>1. copies'[x] = copies[x] + (IF x \in added THEN 1 ELSE 0) - (IF x \in gone THEN 1 ELSE 0)
    BY <1>1
  <2>2. copies[x] \in Nat /\ (x \in gone => copies[x] > 0)
    OBVIOUS
  <2> QED BY <2>1, <2>2
<1> QED BY <1>1, <1>2

(* A copy published to every queue, every retry queue or every dead-letter     *)
(* queue can be reached by every consumer.                                    *)
LEMMA FanOutReaches ==
  ASSUME copies \in [Slots -> Nat], NEW gone, NEW added,
         \A x \in gone : x \in Slots => copies[x] > 0,
         Shift(gone, added),
         NEW place \in {"ready", "retry", "dead"}, NEW a \in Attempts,
         FanOut(place, a) \subseteq added,
         \A q \in Queues : <<place, q, a>> \notin gone
  PROVE  \A q \in Queues : Reachable(q)'
<1> SUFFICES ASSUME NEW q \in Queues PROVE Reachable(q)'
  OBVIOUS
<1>1. <<place, q, a>> \in Slots /\ <<place, q, a>> \in added
  BY DEF FanOut, Places
<1>2. copies'[<<place, q, a>>] > 0
  BY <1>1, ShiftCopies
<1> QED BY <1>2, Zenon DEF Reachable

(* At first every bound queue has its copy and nobody has started. *)
LEMMA InitIInv == Init => IInv
<1> SUFFICES ASSUME Init PROVE IInv
  OBVIOUS
<1> USE DEF Init
<1>1. Types
  <2>1. copies \in [Slots -> Nat]
    OBVIOUS
  <2> QED BY <2>1 DEF Types
<1>2. RunsHoldTheirRow /\ HandledAtMostOnce /\ InboxIsTruthful
  BY DEF RunsHoldTheirRow, HandledAtMostOnce, InboxIsTruthful
<1>3. NothingVanishes
  <2>1. 0 \in Attempts
    OBVIOUS
  <2>2. ASSUME NEW x \in FanOut("ready", 0) PROVE copies[x] > 0
    <3>1. x \in Slots
      BY <2>1 DEF FanOut, Places
    <3> QED BY <3>1
  <2>3. \A q \in Queues : Reachable(q)
    BY <2>1, <2>2, Zenon DEF FanOut, Reachable
  <2> QED BY <2>3 DEF NothingVanishes
<1> QED BY <1>1, <1>2, <1>3 DEF IInv

-----------------------------------------------------------------------------
(* One lemma for each kind of step.                                        *)

(* What a step does to inbox, run, done and faults decides everything but     *)
(* the copies.                                                               *)
LEMMA SameBooks ==
  ASSUME IInv, copies' \in [Slots -> Nat], UNCHANGED <<inbox, run, done>>,
         faults \subseteq faults', \A q \in Queues : Reachable(q)'
  PROVE  IInv'
BY DEF IInv, Types, RunsHoldTheirRow, HandledAtMostOnce, InboxIsTruthful,
       NothingVanishes

(* A duplicate is acked without handling: its inbox row stands for another copy. *)
LEMMA AckDuplicateStep ==
  ASSUME IInv, NEW q \in Queues, NEW a \in Attempts, AckDuplicate(q, a)
  PROVE  IInv'
<1> USE DEF IInv
<1>1. <<"ready", q, a>> \in Slots
  BY DEF Places
<1>2. /\ copies' \in [Slots -> Nat]
      /\ \A x \in Slots : x # <<"ready", q, a>> => copies'[x] >= copies[x]
  BY <1>1, ShiftCopies DEF AckDuplicate, Types
<1>3. ASSUME NEW p \in Queues, p # q, Reachable(p) PROVE Reachable(p)'
  <2>1. ASSUME NEW x \in Slots, x # <<"ready", q, a>>, copies[x] > 0
        PROVE  copies'[x] > 0
    BY <2>1, <1>2 DEF Types
  <2>2. run' = run
    BY DEF AckDuplicate
  <2>3. CASE run[p] # Idle
    BY <2>2, <2>3 DEF Reachable
  <2>4. ASSUME NEW b \in Attempts, copies[<<"ready", p, b>>] > 0 PROVE Reachable(p)'
    BY <2>1, <2>4, <1>3, Zenon DEF Reachable, Places
  <2>5. ASSUME NEW b \in Attempts, NEW place \in {"failed", "dead"},
               copies[<<place, p, b>>] > 0
        PROVE  Reachable(p)'
    BY <2>1, <2>5, Zenon DEF Reachable, Places
  <2>6. ASSUME NEW b \in Attempts, NEW r \in Queues, copies[<<"retry", r, b>>] > 0
        PROVE  Reachable(p)'
    BY <2>1, <2>6, Zenon DEF Reachable, Places
  <2> QED BY <1>3, <2>3, <2>4, <2>5, <2>6, Zenon DEF Reachable
<1>4. UNCHANGED <<inbox, run, done, faults>>
  BY DEF AckDuplicate
<1>5. NothingVanishes'
  <2>1. faults \cap InboxFaults = {} => (q \in done \/ run[q] # Idle)
    BY DEF AckDuplicate, InboxIsTruthful
  <2>2. run[q] # Idle => Reachable(q)'
    BY <1>4 DEF Reachable
  <2> QED BY <2>1, <2>2, <1>3, <1>4 DEF NothingVanishes
<1> QED BY <1>2, <1>4, <1>5 DEF Types, RunsHoldTheirRow, HandledAtMostOnce,
                                InboxIsTruthful

(* A copy that leaves a queue for no other place leaves the others' alone. *)
LEMMA StartStep ==
  ASSUME IInv, NEW q \in Queues, NEW a \in Attempts, Start(q, a)
  PROVE  IInv'
<1> USE DEF IInv
<1>1. <<"ready", q, a>> \in Slots
  BY DEF Places
<1>2. /\ copies' \in [Slots -> Nat]
      /\ \A x \in Slots : x # <<"ready", q, a>> => copies'[x] >= copies[x]
  BY <1>1, ShiftCopies DEF Start, Types
<1>3. /\ q \notin inbox /\ inbox' = inbox \cup {q}
      /\ run' = [run EXCEPT ![q] = a] /\ UNCHANGED <<done, faults>>
  BY DEF Start
<1>4. run'[q] = a /\ a # Idle /\ \A p \in Queues : p # q => run'[p] = run[p]
  BY <1>3 DEF Types
<1>5. ASSUME NEW p \in Queues, p # q, Reachable(p) PROVE Reachable(p)'
  <2>1. ASSUME NEW x \in Slots, x # <<"ready", q, a>>, copies[x] > 0
        PROVE  copies'[x] > 0
    BY <2>1, <1>2 DEF Types
  <2>3. CASE run[p] # Idle
    BY <1>4, <1>5, <2>3 DEF Reachable
  <2>4. ASSUME NEW b \in Attempts, copies[<<"ready", p, b>>] > 0 PROVE Reachable(p)'
    BY <2>1, <2>4, <1>5, Zenon DEF Reachable, Places
  <2>5. ASSUME NEW b \in Attempts, NEW place \in {"failed", "dead"},
               copies[<<place, p, b>>] > 0
        PROVE  Reachable(p)'
    BY <2>1, <2>5, Zenon DEF Reachable, Places
  <2>6. ASSUME NEW b \in Attempts, NEW r \in Queues, copies[<<"retry", r, b>>] > 0
        PROVE  Reachable(p)'
    BY <2>1, <2>6, Zenon DEF Reachable, Places
  <2> QED BY <1>5, <2>3, <2>4, <2>5, <2>6, Zenon DEF Reachable
<1>6. NothingVanishes'
  <2>1. Reachable(q)'
    BY <1>4 DEF Reachable
  <2> QED BY <2>1, <1>3, <1>5 DEF NothingVanishes
<1>7. q \notin done
  BY <1>3 DEF HandledAtMostOnce
<1>8. HandledAtMostOnce'
  BY <1>3, <1>4, <1>7 DEF HandledAtMostOnce, Types
<1>9. Types'
  BY <1>2, <1>3 DEF Types
<1>10. RunsHoldTheirRow'
  BY <1>3, <1>4 DEF RunsHoldTheirRow
<1>11. InboxIsTruthful'
  <2> SUFFICES ASSUME faults' \cap InboxFaults = {}, NEW p \in Queues
               PROVE  p \in inbox' <=> (p \in done' \/ run'[p] # Idle)
    BY DEF InboxIsTruthful
  <2>1. CASE p = q
    BY <2>1, <1>3, <1>4
  <2>2. CASE p # q
    BY <2>2, <1>3, <1>4 DEF InboxIsTruthful
  <2> QED BY <2>1, <2>2
<1> QED BY <1>6, <1>8, <1>9, <1>10, <1>11

(* An inbox insert that fails sends the copy to the dead-letter queues. *)
LEMMA RecordFailsStep ==
  ASSUME IInv, NEW q \in Queues, NEW a \in Attempts, RecordFails(q, a)
  PROVE  IInv'
<1> USE DEF IInv
<1>1. /\ Shift({<<"ready", q, a>>}, FanOut("dead", a)) /\ copies[<<"ready", q, a>>] > 0
      /\ q \notin inbox /\ UNCHANGED <<run, done>>
  BY DEF RecordFails, DeadLetter
<1>2. copies' \in [Slots -> Nat]
  BY <1>1, ShiftCopies DEF Types
<1>3. \A p \in Queues : Reachable(p)'
  <2>1. \A p \in Queues : <<"dead", p, a>> \notin {<<"ready", q, a>>}
    OBVIOUS
  <2> HIDE DEF Attempts, Idle, Slots
  <2> QED BY <2>1, <1>1, FanOutReaches DEF Types
<1>4. \/ inbox' = inbox /\ faults \subseteq faults'
      \/ inbox' = inbox \cup {q} /\ "record_lost" \in faults'
  BY DEF RecordFails, Fault
<1>5. CASE inbox' = inbox /\ faults \subseteq faults'
  BY <1>1, <1>2, <1>3, <1>5, SameBooks
<1>6. CASE inbox' = inbox \cup {q} /\ "record_lost" \in faults'
  <2>1. faults' \cap InboxFaults # {}
    BY <1>6 DEF InboxFaults
  <2> QED BY <2>1, <1>1, <1>2, <1>6 DEF Types, RunsHoldTheirRow,
             HandledAtMostOnce, InboxIsTruthful, NothingVanishes
<1> QED BY <1>4, <1>5, <1>6

(* A handler that succeeds owned the inbox row. *)
LEMMA HandlerSucceedsStep ==
  ASSUME IInv, NEW q \in Queues, HandlerSucceeds(q) PROVE IInv'
<1> USE DEF IInv
<1>1. /\ run[q] # Idle /\ run' = [run EXCEPT ![q] = Idle]
      /\ done' = done \cup {q} /\ UNCHANGED <<copies, inbox, faults>>
  BY DEF HandlerSucceeds
<1>2. run'[q] = Idle /\ \A p \in Queues : p # q => run'[p] = run[p]
  BY <1>1 DEF Types
<1>3. q \in inbox
  BY <1>1 DEF RunsHoldTheirRow
<1>4. \A p \in Queues : p # q /\ Reachable(p) => Reachable(p)'
  BY <1>1, <1>2, Zenon DEF Reachable
<1>5. NothingVanishes'
  BY <1>1, <1>4 DEF NothingVanishes
<1>6. Types'
  BY <1>1 DEF Types
<1> QED BY <1>1, <1>2, <1>3, <1>5, <1>6 DEF RunsHoldTheirRow,
           HandledAtMostOnce, InboxIsTruthful, Types

(* A failed handler gives its inbox row back with the copy in hand. *)
LEMMA HandlerFailsStep ==
  ASSUME IInv, NEW q \in Queues, HandlerFails(q) PROVE IInv'
<1> USE DEF IInv
<1>1. /\ run[q] # Idle /\ run' = [run EXCEPT ![q] = Idle]
      /\ inbox' = inbox \ {q} /\ UNCHANGED <<done, faults>>
      /\ copies' = [copies EXCEPT ![<<"failed", q, run[q]>>] = @ + 1]
  BY DEF HandlerFails
<1>2. run'[q] = Idle /\ \A p \in Queues : p # q => run'[p] = run[p]
  BY <1>1 DEF Types
<1>3. q \notin done
  BY <1>1 DEF HandledAtMostOnce
<1>4. run[q] \in Attempts
  BY <1>1 DEF Types
<1>5. <<"failed", q, run[q]>> \in Slots
  BY <1>4 DEF Places
<1>6. /\ copies' \in [Slots -> Nat]
      /\ copies'[<<"failed", q, run[q]>>] > 0
      /\ \A x \in Slots : copies'[x] >= copies[x]
  BY <1>1, <1>5 DEF Types
<1>7. Reachable(q)'
  BY <1>4, <1>6, Zenon DEF Reachable
<1>8. ASSUME NEW p \in Queues, p # q, Reachable(p) PROVE Reachable(p)'
  <2>1. \A x \in Slots : copies[x] > 0 => copies'[x] > 0
    BY <1>6 DEF Types
  <2>2. \A place \in Places, r \in Queues, b \in Attempts : <<place, r, b>> \in Slots
    OBVIOUS
  <2> QED BY <2>1, <2>2, <1>2, <1>8, Zenon DEF Reachable, Places
<1>9. NothingVanishes'
  BY <1>1, <1>7, <1>8 DEF NothingVanishes
<1>10. Types'
  BY <1>1, <1>6 DEF Types
<1> QED BY <1>1, <1>2, <1>3, <1>9, <1>10 DEF RunsHoldTheirRow,
           HandledAtMostOnce, InboxIsTruthful, Types

(* After a fault that may leave an inbox row, only the row and the run count. *)
LEMMA LossyStep ==
  ASSUME IInv, copies' \in [Slots -> Nat], inbox' = inbox,
         NEW k \in InboxFaults, k \in faults',
         NEW q \in Queues,
         \/ run' = run /\ done' = done
         \/ q \in inbox /\ run' = [run EXCEPT ![q] = Idle] /\ done' \in {done, done \cup {q}}
  PROVE  IInv'
<1> USE DEF IInv
<1>1. faults' \cap InboxFaults # {}
  OBVIOUS
<1>2. Types'
  BY DEF Types
<1>3. RunsHoldTheirRow' /\ HandledAtMostOnce'
  BY DEF RunsHoldTheirRow, HandledAtMostOnce, Types
<1> QED BY <1>1, <1>2, <1>3 DEF InboxIsTruthful, NothingVanishes

-----------------------------------------------------------------------------

(* A crash or a failed release leaves an inbox row that nobody works on. *)
LEMMA CrashStep ==
  ASSUME IInv, NEW q \in Queues, ReleaseFails(q) \/ Crash(q) PROVE IInv'
<1> USE DEF IInv
<1>1. /\ run[q] # Idle /\ run' = [run EXCEPT ![q] = Idle] /\ inbox' = inbox
      /\ done' \in {done, done \cup {q}}
  BY DEF ReleaseFails, Crash
<1>2. q \in inbox /\ run[q] \in Attempts
  BY <1>1 DEF RunsHoldTheirRow, Types
<1>3. CASE ReleaseFails(q)
  <2>1. copies' \in [Slots -> Nat]
    BY <1>3, ShiftCopies DEF ReleaseFails, Types
  <2>2. "release" \in faults' /\ "release" \in InboxFaults
    BY <1>3 DEF ReleaseFails, Fault, InboxFaults
  <2> QED BY <2>1, <2>2, <1>1, <1>2, LossyStep, Zenon
<1>4. CASE Crash(q)
  <2>1. <<"ready", q, run[q]>> \in Slots
    BY <1>2 DEF Places
  <2>2. copies' \in [Slots -> Nat]
    BY <2>1, <1>4 DEF Crash, Types
  <2>3. "crash" \in faults' /\ "crash" \in InboxFaults
    BY <1>4 DEF Crash, Fault, InboxFaults
  <2> QED BY <2>2, <2>3, <1>1, <1>2, LossyStep, Zenon
<1> QED BY <1>3, <1>4

(* A crash before the ack of a failed copy has that copy delivered again. *)
LEMMA CrashUnackedStep ==
  ASSUME IInv, NEW q \in Queues, NEW a \in Attempts, CrashUnacked(q, a) PROVE IInv'
<1> USE DEF IInv
<1>1. copies' \in [Slots -> Nat]
  <2>1. PICK added : Shift({<<"failed", q, a>>}, added)
    BY DEF CrashUnacked
  <2>2. copies[<<"failed", q, a>>] > 0
    BY DEF CrashUnacked
  <2> QED BY <2>1, <2>2, ShiftCopies DEF Types
<1>2. "crash" \in faults' /\ "crash" \in InboxFaults
  BY DEF CrashUnacked, Fault, InboxFaults
<1>3. UNCHANGED <<inbox, run, done>>
  BY DEF CrashUnacked
<1> QED BY <1>1, <1>2, <1>3, LossyStep

(* The steps that publish a copy for every bound queue. *)
LEMMA PublishingStep ==
  ASSUME IInv, UNCHANGED <<inbox, run, done>>, faults \subseteq faults',
         NEW gone, NEW added,
         \A x \in gone : x \in Slots => copies[x] > 0,
         Shift(gone, added),
         NEW place \in {"ready", "retry", "dead"}, NEW a \in Attempts,
         FanOut(place, a) \subseteq added,
         \A q \in Queues : <<place, q, a>> \notin gone
  PROVE  IInv'
<1>1. copies' \in [Slots -> Nat]
  BY ShiftCopies DEF IInv, Types
<1>2. \A q \in Queues : Reachable(q)'
  BY FanOutReaches DEF IInv, Types
<1> QED BY <1>1, <1>2, SameBooks

(* Retries, dead letters, expiries and replays move copies only. *)
LEMMA RetryStep ==
  ASSUME IInv, NEW q \in Queues, NEW a \in Attempts,
         PublishRetry(q, a) \/ PublishRetryFails(q, a) \/ Exhaust(q)
            \/ RetryExpires(q, a) \/ ReplayDLQ(q, a)
  PROVE  IInv'
<1>1. UNCHANGED <<inbox, run, done>> /\ faults \subseteq faults'
  BY DEF PublishRetry, PublishRetryFails, Exhaust, RetryExpires, ReplayDLQ, Fault
<1>2. CASE PublishRetry(q, a)
  <2>1. a + 1 \in Attempts /\ copies[<<"failed", q, a>>] > 0
    BY <1>2 DEF PublishRetry
  <2>2. Shift({<<"failed", q, a>>}, FanOut("retry", a + 1))
    BY <1>2 DEF PublishRetry
  <2> QED BY <2>1, <2>2, <1>1, PublishingStep
<1>3. CASE PublishRetryFails(q, a)
  <2>1. PICK added : Shift({<<"failed", q, a>>}, added) /\ FanOut("dead", a) \subseteq added
    BY <1>3 DEF PublishRetryFails
  <2>2. copies[<<"failed", q, a>>] > 0
    BY <1>3 DEF PublishRetryFails
  <2> QED BY <2>1, <2>2, <1>1, PublishingStep
<1>4. CASE Exhaust(q)
  <2>1. /\ Shift({<<"failed", q, MaxRetries>>}, FanOut("dead", MaxRetries))
        /\ copies[<<"failed", q, MaxRetries>>] > 0 /\ MaxRetries \in Attempts
    BY <1>4 DEF Exhaust, DeadLetter
  <2> QED BY <2>1, <1>1, PublishingStep
<1>5. CASE RetryExpires(q, a)
  <2>1. /\ Shift({<<"retry", q, a>>}, FanOut("ready", a))
        /\ copies[<<"retry", q, a>>] > 0
    BY <1>5 DEF RetryExpires
  <2> QED BY <2>1, <1>1, PublishingStep
<1>6. CASE ReplayDLQ(q, a)
  <2>1. /\ \/ Shift({<<"dead", q, a>>}, FanOut("ready", a))
           \/ Shift({}, FanOut("ready", a))
        /\ copies[<<"dead", q, a>>] > 0
    BY <1>6 DEF ReplayDLQ
  <2> QED BY <2>1, <1>1, PublishingStep
<1> QED BY <1>2, <1>3, <1>4, <1>5, <1>6

(* Every step of consumers, broker and replay keeps the invariant. *)
LEMMA IInvStep == IInv /\ [Next]_vars => IInv'
<1> SUFFICES ASSUME IInv, [Next]_vars PROVE IInv'
  OBVIOUS
<1>1. CASE UNCHANGED vars
  BY <1>1, Zenon DEF vars, IInv, Types, RunsHoldTheirRow, HandledAtMostOnce,
              InboxIsTruthful, NothingVanishes, Reachable
<1>2. ASSUME NEW q \in Queues, Consume(q) PROVE IInv'
  <2>1. 0 \in Attempts
    OBVIOUS
  <2> QED BY <2>1, <1>2, HandlerSucceedsStep, HandlerFailsStep, RetryStep,
             AckDuplicateStep, StartStep DEF Consume
<1>3. ASSUME NEW q \in Queues, ReleaseFails(q) \/ Crash(q) PROVE IInv'
  BY <1>3, CrashStep
<1>4. ASSUME NEW q \in Queues, NEW a \in Attempts,
             RecordFails(q, a) \/ PublishRetryFails(q, a) \/ CrashUnacked(q, a)
                \/ RetryExpires(q, a) \/ ReplayDLQ(q, a)
      PROVE  IInv'
  BY <1>4, RecordFailsStep, RetryStep, CrashUnackedStep
<1> QED BY <1>1, <1>2, <1>3, <1>4 DEF Next

(* The invariant holds in every reachable state. *)
LEMMA Invariance == Spec => []IInv
<1>1. Init => IInv
  BY InitIInv
<1>2. IInv /\ [Next]_vars => IInv'
  BY IInvStep
<1> QED BY <1>1, <1>2, PTL DEF Spec

-----------------------------------------------------------------------------

(* ProcessDelivery runs no handler again after it has succeeded, for any      *)
(* number of queues, retries, replays and faults.                             *)
THEOREM SuccessIsFinal == Spec => []HandledAtMostOnce
<1>1. IInv => HandledAtMostOnce
  BY DEF IInv
<1> QED BY <1>1, Invariance, PTL

(* Until a fault leaves an inbox row behind, every consumer that has not       *)
(* handled the message has a copy to come: retry, dead-letter queue and replay *)
(* lose none, although each of them routes by type and every duplicate is      *)
(* acked.                                                                     *)
THEOREM NoMessageVanishes == Spec => []NothingVanishes
<1>1. IInv => NothingVanishes
  BY DEF IInv
<1> QED BY <1>1, Invariance, PTL

-----------------------------------------------------------------------------
(* The copies that can come of a copy. *)

HIDE DEF Attempts, Idle, Slots

(* Where a copy is, with the handlers that work on one. *)
Cells == (Places \cup {"run"}) \X Queues \X Attempts

Held ==
    [x \in Cells |-> IF x[1] = "run" THEN (IF run[x[2]] = x[3] THEN 1 ELSE 0) ELSE copies[x]]

(* How many copies with header a can come to the queue q of one copy at x:    *)
(* one in a retry queue is sent to all queues, one that fails to all retry     *)
(* queues with the next header.                                                *)
Weight(q, a) ==
    [x \in Cells |->
        IF x[1] = "dead" \/ x[3] > a THEN 0
        ELSE IF x[1] = "retry" THEN Spread[a - x[3]]
        ELSE IF x[3] < a THEN Cardinality(Queues) * Spread[a - x[3] - 1]
        ELSE IF x[2] = q THEN 1 ELSE 0]

(* All that can come to q with header a of the copies there are now. *)
Potential(q, a) == SumFunctionOnSet([x \in Cells |-> Held[x] * Weight(q, a)[x]], Cells)

(* Without an operator's replay that is no more than what the published      *)
(* message can come to, once more for each fault.                            *)
Bounded ==
    /\ replays \in Nat
    /\ IsFiniteSet(faults)
    /\ replays = 0 =>
          \A q \in Queues, a \in Attempts :
              Potential(q, a) <= (1 + Cardinality(faults)) * Spread[a]

Grows(f, n) ==
    f = [a \in 0..n |->
            IF a = 0 THEN 1 ELSE Cardinality(Queues) * Cardinality(Queues) * f[a - 1]]

(* The recursive function exists, on every interval. *)
LEMMA GrowthExists == \A n \in Nat : \E f : Grows(f, n)
<1> DEFINE bad == {n \in Nat : ~\E f : Grows(f, n)}
<1> SUFFICES ASSUME bad # {} PROVE FALSE
  OBVIOUS
<1>1. PICK n \in bad : \A m \in bad : n <= m
  BY LeastNumber, Zenon
<1>2. CASE n = 0
  <2>1. Grows([a \in 0..0 |-> 1], 0)
    BY DEF Grows
  <2> QED BY <1>1, <1>2, <2>1
<1>3. CASE n # 0
  <2>1. n - 1 \in Nat /\ n - 1 \notin bad
    BY <1>1, <1>3
  <2>2. PICK f : Grows(f, n - 1)
    BY <2>1
  <2> DEFINE g == [a \in 0..n |->
                IF a = 0 THEN 1 ELSE Cardinality(Queues) * Cardinality(Queues) * f[a - 1]]
  <2>3. \A a \in 0..(n - 1) : g[a] = f[a]
    BY <2>1, <2>2 DEF Grows
  <2>4. \A a \in 0..n : a # 0 => a - 1 \in 0..(n - 1)
    BY <2>1
  <2>5. Grows(g, n)
    BY <2>3, <2>4, Zenon DEF Grows
  <2> QED BY <1>1, <2>5
<1> QED BY <1>2, <1>3

(* What Spread is: one at first, and a factor more for each step. *)
LEMMA SpreadUnfolds ==
    /\ Spread[0] = 1
    /\ \A a \in Attempts : a # 0 =>
          a - 1 \in Attempts /\ Spread[a] = Cardinality(Queues) * Cardinality(Queues) * Spread[a - 1]
<1>1. \E f : Grows(f, MaxRetries)
  BY GrowthExists
<1>2. Grows(Spread, MaxRetries)
  BY <1>1, Zenon DEF Spread, Grows, Attempts
<1>3. \A a \in 0..MaxRetries : Spread[a] =
          IF a = 0 THEN 1 ELSE Cardinality(Queues) * Cardinality(Queues) * Spread[a - 1]
  BY <1>2, Zenon DEF Grows
<1>4. 0 \in Attempts /\ \A a \in Attempts : a # 0 => a - 1 \in Attempts
  BY DEF Attempts
<1> QED BY <1>3, <1>4, Zenon DEF Attempts

(* Spread is a number. *)
LEMMA SpreadType ==
    /\ Cardinality(Queues) \in Nat
    /\ \A a \in Attempts : Spread[a] \in Nat
<1>1. Cardinality(Queues) \in Nat
  BY FS_CardinalityType
<1> DEFINE bad == {a \in Attempts : Spread[a] \notin Nat}
<1> SUFFICES ASSUME bad # {} PROVE FALSE
  BY <1>1
<1>2. PICK a \in bad : \A b \in bad : a <= b
  <2>1. bad \in SUBSET Nat
    BY DEF Attempts
  <2> HIDE DEF bad
  <2> QED BY <2>1, LeastNumber
<1>3. a # 0
  BY <1>2, SpreadUnfolds
<1>4. a - 1 \in Attempts /\ a - 1 \notin bad
  BY <1>2, <1>3, SpreadUnfolds DEF Attempts
<1>5. \A n, m \in Nat : n * n * m \in Nat
  OBVIOUS
<1> QED BY <1>1, <1>2, <1>3, <1>4, <1>5, SpreadUnfolds

(* A longer way leads to more copies. *)
LEMMA SpreadGrows ==
    ASSUME NEW q \in Queues, NEW b \in Attempts, NEW a \in Attempts, b < a
    PROVE  Cardinality(Queues) * Spread[a - b - 1] <= Spread[a]
<1> DEFINE n == Cardinality(Queues)
<1>1. n \in Nat /\ n >= 1
  BY SpreadType, FS_EmptySet
<1>2. \A k \in Nat, m \in Nat : m >= 1 => k <= m * k
  OBVIOUS
<1>3. \A c \in Attempts : c # 0 => c - 1 \in Attempts /\ n * Spread[c - 1] <= Spread[c]
                                    /\ Spread[c - 1] <= Spread[c]
  <2> SUFFICES ASSUME NEW c \in Attempts, c # 0
               PROVE  c - 1 \in Attempts /\ n * Spread[c - 1] <= Spread[c] /\ Spread[c - 1] <= Spread[c]
    OBVIOUS
  <2>1. c - 1 \in Attempts /\ Spread[c] = n * n * Spread[c - 1] /\ Spread[c - 1] \in Nat
    BY SpreadUnfolds, SpreadType
  <2> HIDE DEF n
  <2>2. PICK k \in Nat : k = n * Spread[c - 1] /\ Spread[c - 1] <= k
    BY <1>1, <1>2, <2>1
  <2>3. Spread[c] = n * k /\ k <= n * k /\ n * k \in Nat
    BY <1>1, <1>2, <2>1, <2>2
  <2> QED BY <2>1, <2>2, <2>3
<1> DEFINE bad == {c \in Attempts : a - b <= c /\ ~(n * Spread[a - b - 1] <= Spread[c])}
<1>4. bad = {}
  <2> SUFFICES ASSUME bad # {} PROVE FALSE
    OBVIOUS
  <2>1. PICK c \in bad : \A d \in bad : c <= d
    <3>1. bad \in SUBSET Nat
      BY DEF Attempts
    <3> HIDE DEF bad
    <3> QED BY <3>1, LeastNumber
  <2>2. c \in Attempts /\ a - b <= c /\ c # 0 /\ a - b - 1 \in Attempts
    BY <2>1 DEF Attempts
  <2>3. c # a - b
    BY <1>3, <2>1, <2>2
  <2>4. c - 1 \in Attempts /\ c - 1 \notin bad /\ a - b <= c - 1
    BY <2>1, <2>2, <2>3 DEF Attempts
  <2>5. n * Spread[a - b - 1] <= Spread[c - 1] /\ Spread[c - 1] <= Spread[c]
    BY <1>3, <2>2, <2>4
  <2>6. n * Spread[a - b - 1] \in Nat /\ Spread[c - 1] \in Nat /\ Spread[c] \in Nat
    BY <1>1, <2>2, <2>4, SpreadType
  <2>7. ~(n * Spread[a - b - 1] <= Spread[c])
    BY <2>1
  <2> QED BY <2>5, <2>6, <2>7
<1>5. a \notin bad
  BY <1>4
<1> QED BY <1>5 DEF Attempts

(* A set of triples over finite sets is finite. *)
LEMMA FiniteTriples ==
    ASSUME NEW A, IsFiniteSet(A), NEW B, IsFiniteSet(B), NEW C, IsFiniteSet(C)
    PROVE  IsFiniteSet(A \X B \X C)
<1> DEFINE S == (A \X B) \X C
           T == A \X B \X C
           f == [x \in S |-> <<x[1][1], x[1][2], x[2]>>]
<1>1. IsFiniteSet(S)
  BY FS_Product, Zenon
<1>2. f \in [S -> T]
  OBVIOUS
<1>3. ASSUME NEW t \in T PROVE \E s \in S : f[s] = t
  <2>1. PICK a \in A, b \in B, c \in C : t = <<a, b, c>>
    OBVIOUS
  <2>2. <<<<a, b>>, c>> \in S /\ f[<<<<a, b>>, c>>] = t
    BY <2>1
  <2> QED BY <2>2
<1>4. f \in Surjection(S, T)
  BY <1>2, <1>3, Zenon DEF Surjection
<1>5. IsFiniteSet(T)
  <2> HIDE DEF f, S, T
  <2> QED BY <1>1, <1>4, FS_Surjection
<1> QED BY <1>5

(* There are finitely many cells. *)
LEMMA FiniteCells == IsFiniteSet(Cells)
<1>1. IsFiniteSet({"ready"} \cup {"failed"} \cup {"retry"} \cup {"dead"} \cup {"run"})
  BY FS_Singleton, FS_Union, Zenon
<1>2. Places \cup {"run"} = {"ready"} \cup {"failed"} \cup {"retry"} \cup {"dead"} \cup {"run"}
  BY DEF Places
<1>3. IsFiniteSet(Attempts)
  BY FS_Interval DEF Attempts
<1> QED BY <1>1, <1>2, <1>3, FiniteTriples DEF Cells

(* A fan-out reaches each bound queue once. *)
LEMMA FanOutSize ==
    ASSUME NEW place, NEW b
    PROVE  /\ IsFiniteSet(FanOut(place, b))
           /\ Cardinality(FanOut(place, b)) = Cardinality(Queues)
<1> DEFINE f == [p \in Queues |-> <<place, p, b>>]
           T == FanOut(place, b)
<1>1. f \in [Queues -> T] /\ \A t \in T : \E p \in Queues : f[p] = t
  BY DEF FanOut
<1>2. \A p, r \in Queues : f[p] = f[r] => p = r
  OBVIOUS
<1>3. f \in Bijection(Queues, T)
  BY <1>1, <1>2, Zenon DEF Bijection, Injection, IsInjective, Surjection
<1> QED BY <1>3, FS_Bijection DEF ExistsBijection

(* The cells and their weights. *)
LEMMA Weights ==
    ASSUME NEW q \in Queues, NEW a \in Attempts
    PROVE  /\ Weight(q, a) \in [Cells -> Nat]
           /\ \A p \in Queues, b \in Attempts :
                 /\ Weight(q, a)[<<"dead", p, b>>] = 0
                 /\ Weight(q, a)[<<"retry", p, b>>] = IF b > a THEN 0 ELSE Spread[a - b]
                 /\ \A place \in {"ready", "failed", "run"} :
                       Weight(q, a)[<<place, p, b>>] =
                          IF b > a THEN 0
                          ELSE IF b < a THEN Cardinality(Queues) * Spread[a - b - 1]
                          ELSE IF p = q THEN 1 ELSE 0
<1> DEFINE w(x) ==
        IF x[1] = "dead" \/ x[3] > a THEN 0
        ELSE IF x[1] = "retry" THEN Spread[a - x[3]]
        ELSE IF x[3] < a THEN Cardinality(Queues) * Spread[a - x[3] - 1]
        ELSE IF x[2] = q THEN 1 ELSE 0
<1>1. ASSUME NEW x \in Cells PROVE w(x) \in Nat
  <2>1. PICK b \in Attempts : b = x[3]
    BY DEF Cells
  <2>2. b <= a => a - b \in Attempts /\ (b < a => a - b - 1 \in Attempts)
    BY DEF Attempts
  <2>3. ~(b > a) => b <= a
    BY DEF Attempts
  <2>4. b < a => b <= a
    BY DEF Attempts
  <2>5. \A m, n \in Nat : m * n \in Nat
    OBVIOUS
  <2>6. b <= a => Spread[a - b] \in Nat
    BY <2>2, SpreadType
  <2>7. b < a => Cardinality(Queues) * Spread[a - b - 1] \in Nat
    BY <2>2, <2>4, <2>5, SpreadType
  <2> QED BY <2>1, <2>3, <2>6, <2>7
<1>2. Weight(q, a) = [x \in Cells |-> w(x)]
  BY DEF Weight
<1>3. Weight(q, a) \in [Cells -> Nat]
  BY <1>1, <1>2
<1>4. ASSUME NEW p \in Queues, NEW b \in Attempts, NEW place \in Places \cup {"run"}
      PROVE  Weight(q, a)[<<place, p, b>>] = w(<<place, p, b>>)
  BY <1>2 DEF Cells
<1>5. ASSUME NEW p \in Queues, NEW b \in Attempts
      PROVE  /\ Weight(q, a)[<<"dead", p, b>>] = 0
             /\ Weight(q, a)[<<"retry", p, b>>] = IF b > a THEN 0 ELSE Spread[a - b]
             /\ \A place \in {"ready", "failed", "run"} :
                   Weight(q, a)[<<place, p, b>>] =
                      IF b > a THEN 0
                      ELSE IF b < a THEN Cardinality(Queues) * Spread[a - b - 1]
                      ELSE IF p = q THEN 1 ELSE 0
  BY <1>4 DEF Places
<1> QED BY <1>3, <1>5, SMTT(30)

(* The same, cell by cell: nothing comes of a dead letter, and the copies in  *)
(* a queue, in a handler and behind a failed one can become the same.         *)
LEMMA EqualWeights ==
    ASSUME NEW q \in Queues, NEW a \in Attempts, NEW p \in Queues, NEW b \in Attempts
    PROVE  /\ Weight(q, a)[<<"dead", p, b>>] = 0
           /\ Weight(q, a)[<<"failed", p, b>>] = Weight(q, a)[<<"ready", p, b>>]
           /\ Weight(q, a)[<<"run", p, b>>] = Weight(q, a)[<<"ready", p, b>>]
<1>1. \A place \in Places \cup {"run"} : <<place, p, b>> \in Cells
  BY DEF Cells
<1> QED BY <1>1 DEF Weight, Places

(* What a fan-out can become is no more than what its copy could: nothing     *)
(* comes of dead letters, a retry goes to every queue, a failure to every     *)
(* retry queue.                                                               *)
LEMMA FanOutWeights ==
    ASSUME NEW q \in Queues, NEW a \in Attempts, NEW p \in Queues, NEW b \in Attempts
    PROVE  LET W == Weight(q, a)
           IN  /\ SumFunctionOnSet(W, FanOut("dead", b)) = 0
               /\ SumFunctionOnSet(W, FanOut("ready", b)) <= W[<<"retry", p, b>>]
               /\ b < MaxRetries =>
                     /\ SumFunctionOnSet(W, FanOut("retry", b + 1)) <= W[<<"failed", p, b>>]
                     /\ SumFunctionOnSet(W, FanOut("retry", b + 1)) <= Spread[a]
<1> DEFINE W == Weight(q, a)
           n == Cardinality(Queues)
<1>0. n \in Nat /\ n * 0 = 0
  BY SpreadType
<1>w. /\ W \in [Cells -> Nat]
      /\ \A r \in Queues, c \in Attempts :
             /\ W[<<"dead", r, c>>] = 0
             /\ W[<<"retry", r, c>>] = IF c > a THEN 0 ELSE Spread[a - c]
             /\ \A place \in {"ready", "failed", "run"} :
                   W[<<place, r, c>>] =
                      IF c > a THEN 0
                      ELSE IF c < a THEN n * Spread[a - c - 1]
                      ELSE IF r = q THEN 1 ELSE 0
  BY Weights, Zenon
<1> HIDE DEF W
<1>1. SumFunctionOnSet(W, FanOut("dead", b)) = 0
  <2>1. \A x \in FanOut("dead", b) : W[x] = 0
    <3>1. \A r \in Queues : W[<<"dead", r, b>>] = 0
      BY <1>w, Zenon
    <3> QED BY <3>1 DEF FanOut
  <2>2. SumFunctionOnSet(W, FanOut("dead", b)) = Cardinality(FanOut("dead", b)) * 0
    BY <2>1, FanOutSize, SumConstant
  <2> QED BY <1>0, <2>2, FanOutSize
<1>2. SumFunctionOnSet(W, FanOut("ready", b)) <= W[<<"retry", p, b>>]
  <2>1. W[<<"retry", p, b>>] = IF b > a THEN 0 ELSE Spread[a - b]
    BY <1>w, Zenon
  <2>2. \A r \in Queues : W[<<"ready", r, b>>] = IF b > a THEN 0
                      ELSE IF b < a THEN n * Spread[a - b - 1]
                      ELSE IF r = q THEN 1 ELSE 0
    BY <1>w, Zenon
  <2>3. CASE b > a
    <3>1. \A x \in FanOut("ready", b) : W[x] = 0
      BY <2>2, <2>3 DEF FanOut
    <3>2. SumFunctionOnSet(W, FanOut("ready", b)) = n * 0
      BY <3>1, FanOutSize, SumConstant
    <3> QED BY <1>0, <2>1, <2>3, <3>2
  <2>4. CASE b < a
    <3> DEFINE k == n * Spread[a - b - 1]
    <3>1. a - b \in Attempts /\ a - b # 0 /\ ~(b > a) /\ a - b - 1 \in Attempts
      BY <2>4 DEF Attempts
    <3>2. k \in Nat /\ Spread[a - b] = n * n * Spread[a - b - 1] /\ Spread[a - b - 1] \in Nat
      BY <1>0, <3>1, SpreadType, SpreadUnfolds
    <3>3. Spread[a - b] = n * k
      BY <1>0, <3>2
    <3>4. \A x \in FanOut("ready", b) : W[x] = k
      BY <2>2, <2>4, <3>1 DEF FanOut
    <3> HIDE DEF k
    <3>5. SumFunctionOnSet(W, FanOut("ready", b)) = n * k
      BY <3>2, <3>4, FanOutSize, SumConstant
    <3>6. n * k \in Nat
      BY <1>0, <3>2
    <3> QED BY <2>1, <3>1, <3>3, <3>5, <3>6
  <2>5. CASE b = a
    <3>1. a - b = 0 /\ ~(b > a) /\ ~(b < a)
      BY <2>5 DEF Attempts
    <3>2. W[<<"retry", p, b>>] = 1
      BY <2>1, <3>1, SpreadUnfolds
    <3> DEFINE x == <<"ready", q, b>>
               F == FanOut("ready", b)
    <3>3. x \in F /\ W[x] = 1 /\ \A y \in F \ {x} : W[y] = 0
      BY <2>2, <3>1 DEF FanOut
    <3>4. IsFiniteSet(F)
      BY FanOutSize
    <3> HIDE DEF x, F
    <3>5. SumFunctionOnSet(W, F) = W[x] + SumFunctionOnSet(W, F \ {x})
      <4>1. \A y \in F : W[y] \in Nat
        BY <3>3
      <4> QED BY <3>3, <3>4, <4>1, SumRemove
    <3>6. SumFunctionOnSet(W, F \ {x}) = Cardinality(F \ {x}) * 0 /\ Cardinality(F \ {x}) \in Nat
      <4>1. IsFiniteSet(F \ {x})
        BY <3>4, FS_Subset
      <4> QED BY <3>3, <4>1, SumConstant, FS_CardinalityType
    <3>7. SumFunctionOnSet(W, F) = 1
      BY <3>3, <3>5, <3>6
    <3> QED BY <3>2, <3>7 DEF F
  <2>6. b > a \/ b < a \/ b = a
    BY DEF Attempts
  <2> QED BY <2>3, <2>4, <2>5, <2>6
<1>3. ASSUME b < MaxRetries
      PROVE  /\ SumFunctionOnSet(W, FanOut("retry", b + 1)) <= W[<<"failed", p, b>>]
             /\ SumFunctionOnSet(W, FanOut("retry", b + 1)) <= Spread[a]
  <2>1. b + 1 \in Attempts
    BY <1>3 DEF Attempts
  <2>2. \A r \in Queues : W[<<"retry", r, b + 1>>] = IF b + 1 > a THEN 0 ELSE Spread[a - (b + 1)]
    BY <1>w, <2>1, Zenon
  <2>3. /\ b < a => W[<<"failed", p, b>>] = n * Spread[a - b - 1]
        /\ W[<<"failed", p, b>>] \in Nat
    <3>1. b < a => ~(b > a)
      BY DEF Attempts
    <3>2. <<"failed", p, b>> \in Cells
      BY DEF Cells, Places
    <3> QED BY <1>w, <3>1, <3>2, ZenonT(40)
  <2>4. CASE b < a
    <3>1. ~(b + 1 > a) /\ a - (b + 1) = a - b - 1 /\ a - b - 1 \in Attempts
      BY <2>4 DEF Attempts
    <3>2. \A x \in FanOut("retry", b + 1) : W[x] = Spread[a - b - 1]
      BY <2>2, <3>1 DEF FanOut
    <3>3. SumFunctionOnSet(W, FanOut("retry", b + 1)) = n * Spread[a - b - 1]
      BY <3>1, <3>2, SpreadType, FanOutSize, SumConstant
    <3>4. n * Spread[a - b - 1] \in Nat
      BY <1>0, <3>1, SpreadType
    <3>5. n * Spread[a - b - 1] <= Spread[a]
      BY <2>4, SpreadGrows
    <3> QED BY <2>3, <2>4, <3>3, <3>4, <3>5
  <2>5. CASE ~(b < a)
    <3>1. b + 1 > a
      BY <2>5 DEF Attempts
    <3>2. \A x \in FanOut("retry", b + 1) : W[x] = 0
      BY <2>2, <3>1 DEF FanOut
    <3>3. SumFunctionOnSet(W, FanOut("retry", b + 1)) = n * 0
      BY <3>2, FanOutSize, SumConstant
    <3> QED BY <1>0, <2>3, <3>3, SpreadType
  <2> QED BY <2>4, <2>5
<1> QED BY <1>1, <1>2, <1>3 DEF W

Ind(x, S) == IF x \in S THEN 1 ELSE 0

(* One copy at each cell of gone moves to the cells of added: the potential    *)
(* changes by their weights.                                                  *)
LEMMA PotentialShift ==
    ASSUME NEW h \in [Cells -> Nat], NEW k \in [Cells -> Nat], NEW W \in [Cells -> Nat],
           NEW gone \in SUBSET Cells, NEW added \in SUBSET Cells,
           \A x \in Cells : k[x] + Ind(x, gone) = h[x] + Ind(x, added)
    PROVE  SumFunctionOnSet([x \in Cells |-> k[x] * W[x]], Cells) + SumFunctionOnSet(W, gone)
             = SumFunctionOnSet([x \in Cells |-> h[x] * W[x]], Cells) + SumFunctionOnSet(W, added)
<1> DEFINE kW == [x \in Cells |-> k[x] * W[x]]
           hW == [x \in Cells |-> h[x] * W[x]]
           part(S) == [x \in Cells |-> IF x \in S THEN W[x] ELSE 0]
           total == [x \in Cells |-> k[x] * W[x] + part(gone)[x]]
<1>0. IsFiniteSet(Cells)
  BY FiniteCells
<1>1. ASSUME NEW S \in SUBSET Cells
      PROVE  SumFunctionOnSet(part(S), Cells) = SumFunctionOnSet(W, S)
  <2> DEFINE v == part(S)
  <2>1. /\ \A x \in Cells : v[x] \in Nat
        /\ \A x \in Cells \ S : v[x] = 0
        /\ \A x \in S : v[x] = W[x]
    OBVIOUS
  <2>2. IsFiniteSet(S)
    BY <1>0, FS_Subset
  <2> HIDE DEF v
  <2>3. SumFunctionOnSet(v, Cells) = SumFunctionOnSet(v, S)
    BY <1>0, <2>1, SumOfPart
  <2>4. SumFunctionOnSet(v, S) = SumFunctionOnSet(W, S)
    BY <2>1, <2>2, SumAgrees, SMTT(30)
  <2> QED BY <2>3, <2>4 DEF v
<1>2. ASSUME NEW x \in Cells
      PROVE  /\ kW[x] \in Nat /\ hW[x] \in Nat
             /\ part(gone)[x] \in Nat /\ part(added)[x] \in Nat
             /\ total[x] = kW[x] + part(gone)[x]
             /\ total[x] = hW[x] + part(added)[x]
  <2>1. PICK m \in Nat, n \in Nat, w \in Nat : m = k[x] /\ n = h[x] /\ w = W[x]
    OBVIOUS
  <2>2. m * w \in Nat /\ n * w \in Nat /\ (m + 1) * w = m * w + w /\ (n + 1) * w = n * w + w
    OBVIOUS
  <2>3. m + Ind(x, gone) = n + Ind(x, added)
    BY <2>1
  <2>4. /\ kW[x] = m * w /\ hW[x] = n * w
        /\ part(gone)[x] = IF x \in gone THEN w ELSE 0
        /\ part(added)[x] = IF x \in added THEN w ELSE 0
        /\ total[x] = kW[x] + part(gone)[x]
    BY <2>1
  <2> HIDE DEF kW, hW, part, total
  <2>5. CASE x \in gone /\ x \in added
    <3>1. m = n
      BY <2>3, <2>5 DEF Ind
    <3> QED BY <2>2, <2>4, <2>5, <3>1
  <2>6. CASE x \in gone /\ x \notin added
    <3>1. n = m + 1
      BY <2>3, <2>6 DEF Ind
    <3> QED BY <2>2, <2>4, <2>6, <3>1
  <2>7. CASE x \notin gone /\ x \in added
    <3>1. m = n + 1
      BY <2>3, <2>7 DEF Ind
    <3> QED BY <2>2, <2>4, <2>7, <3>1
  <2>8. CASE x \notin gone /\ x \notin added
    <3>1. m = n
      BY <2>3, <2>8 DEF Ind
    <3> QED BY <2>2, <2>4, <2>8, <3>1
  <2> QED BY <2>5, <2>6, <2>7, <2>8
<1>3. /\ SumFunctionOnSet(part(gone), Cells) = SumFunctionOnSet(W, gone)
      /\ SumFunctionOnSet(part(added), Cells) = SumFunctionOnSet(W, added)
  BY <1>1, Zenon
<1> DEFINE pG == part(gone)
           pA == part(added)
<1>4. \A x \in Cells :
        /\ kW[x] \in Nat /\ hW[x] \in Nat /\ pG[x] \in Nat /\ pA[x] \in Nat
        /\ total[x] = kW[x] + pG[x] /\ total[x] = hW[x] + pA[x]
  BY <1>2, Zenon
<1>5. SumFunctionOnSet(pG, Cells) = SumFunctionOnSet(W, gone)
  BY <1>3
<1>6. SumFunctionOnSet(pA, Cells) = SumFunctionOnSet(W, added)
  BY <1>3
<1> HIDE DEF kW, hW, pG, pA, total
<1>7. SumFunctionOnSet(total, Cells) = SumFunctionOnSet(kW, Cells) + SumFunctionOnSet(pG, Cells)
  BY <1>0, <1>4, SumPlus
<1>8. SumFunctionOnSet(total, Cells) = SumFunctionOnSet(hW, Cells) + SumFunctionOnSet(pA, Cells)
  BY <1>0, <1>4, SumPlus
<1>9. SumFunctionOnSet(kW, Cells) + SumFunctionOnSet(W, gone)
        = SumFunctionOnSet(hW, Cells) + SumFunctionOnSet(W, added)
  BY <1>5, <1>6, <1>7, <1>8, ZenonT(40)
<1> QED BY <1>9 DEF kW, hW

RunAt(p, b) == IF run[p] = b THEN 1 ELSE 0

(* The cells gone lose a copy and the cells added get one. *)
Moved(gone, added) ==
    /\ \A x \in Slots : copies'[x] + Ind(x, gone) = copies[x] + Ind(x, added)
    /\ \A p \in Queues, b \in Attempts :
          RunAt(p, b)' + Ind(<<"run", p, b>>, gone) = RunAt(p, b) + Ind(<<"run", p, b>>, added)

(* What a move does to the potential. *)
LEMMA PotentialMoves ==
    ASSUME Types, Types', NEW gone \in SUBSET Cells, NEW added \in SUBSET Cells,
           Moved(gone, added), NEW q \in Queues, NEW a \in Attempts
    PROVE  /\ Potential(q, a) \in Nat /\ Potential(q, a)' \in Nat
           /\ SumFunctionOnSet(Weight(q, a), gone) \in Nat
           /\ SumFunctionOnSet(Weight(q, a), added) \in Nat
           /\ Potential(q, a)' + SumFunctionOnSet(Weight(q, a), gone)
                = Potential(q, a) + SumFunctionOnSet(Weight(q, a), added)
<1>1. PICK h \in [Cells -> Nat], k \in [Cells -> Nat] : h = Held /\ k = Held'
  <2>1. Held \in [Cells -> Nat] /\ Held' \in [Cells -> Nat]
    BY DEF Types, Held, Cells, Slots
  <2> QED BY <2>1
<1>2. ASSUME NEW x \in Cells PROVE k[x] + Ind(x, gone) = h[x] + Ind(x, added)
  <2>1. PICK place \in Places \cup {"run"}, p \in Queues, b \in Attempts : x = <<place, p, b>>
    BY DEF Cells
  <2>2. CASE place = "run"
    <3>1. h[x] = RunAt(p, b) /\ k[x] = RunAt(p, b)'
      BY <1>1, <2>1, <2>2 DEF Held, RunAt
    <3> QED BY <2>1, <2>2, <3>1 DEF Moved
  <2>3. CASE place # "run"
    <3>1. x \in Slots /\ h[x] = copies[x] /\ k[x] = copies'[x]
      BY <1>1, <2>1, <2>3 DEF Held, Slots
    <3> QED BY <3>1 DEF Moved
  <2> QED BY <2>2, <2>3
<1>3. PICK W \in [Cells -> Nat] : W = Weight(q, a)
  BY Weights
<1>4. /\ Potential(q, a) = SumFunctionOnSet([x \in Cells |-> h[x] * W[x]], Cells)
      /\ Potential(q, a)' = SumFunctionOnSet([x \in Cells |-> k[x] * W[x]], Cells)
  BY <1>1, <1>3 DEF Potential
<1>5. Potential(q, a)' + SumFunctionOnSet(W, gone) = Potential(q, a) + SumFunctionOnSet(W, added)
  BY <1>2, <1>4, PotentialShift
<1>6. ASSUME NEW f \in [Cells -> Nat]
      PROVE  SumFunctionOnSet([x \in Cells |-> f[x] * W[x]], Cells) \in Nat
  <2> DEFINE fW == [x \in Cells |-> f[x] * W[x]]
  <2>1. \A m, n \in Nat : m * n \in Nat
    OBVIOUS
  <2>2. \A x \in Cells : fW[x] \in Nat
    BY <2>1
  <2> HIDE DEF fW
  <2>3. SumFunctionOnSet(fW, Cells) \in Nat
    BY <2>2, FiniteCells, SumNat
  <2> QED BY <2>3 DEF fW
<1>7. ASSUME NEW S \in SUBSET Cells PROVE SumFunctionOnSet(W, S) \in Nat
  <2>1. IsFiniteSet(S) /\ \A x \in S : W[x] \in Nat
    BY FiniteCells, FS_Subset
  <2> QED BY <2>1, SumNat
<1> QED BY <1>3, <1>4, <1>5, <1>6, <1>7

(* The cells added can become no more than those gone, or with one event more. *)
Lighter(added, gone) ==
    \A q \in Queues, a \in Attempts :
        SumFunctionOnSet(Weight(q, a), added) <= SumFunctionOnSet(Weight(q, a), gone)

OnceMore(added, gone) ==
    \A q \in Queues, a \in Attempts :
        SumFunctionOnSet(Weight(q, a), added) <= SumFunctionOnSet(Weight(q, a), gone) + Spread[a]

(* A step may add to what can come of its copies once for each fault. *)
LEMMA BoundedStep ==
    ASSUME Types, Types', Bounded, replays' = replays,
           NEW gone \in SUBSET Cells, NEW added \in SUBSET Cells, Moved(gone, added),
           \/ /\ faults' = faults
              /\ Lighter(added, gone)
           \/ /\ \E kind : kind \notin faults /\ faults' = faults \cup {kind}
              /\ OnceMore(added, gone)
    PROVE  Bounded'
<1>1. /\ IsFiniteSet(faults') /\ Cardinality(faults) \in Nat /\ Cardinality(faults') \in Nat
      /\ \/ faults' = faults
         \/ Cardinality(faults') = Cardinality(faults) + 1
  BY FS_AddElement, FS_CardinalityType DEF Bounded
<1>2. ASSUME replays' = 0, NEW q \in Queues, NEW a \in Attempts
      PROVE  Potential(q, a)' <= (1 + Cardinality(faults')) * Spread[a]
  <2>1. PICK P \in Nat, R \in Nat, G \in Nat, A \in Nat, c \in Nat, s \in Nat :
           /\ P = Potential(q, a) /\ R = Potential(q, a)'
           /\ G = SumFunctionOnSet(Weight(q, a), gone)
           /\ A = SumFunctionOnSet(Weight(q, a), added)
           /\ c = Cardinality(faults) /\ s = Spread[a]
    <3>1. /\ Potential(q, a) \in Nat /\ Potential(q, a)' \in Nat
          /\ SumFunctionOnSet(Weight(q, a), gone) \in Nat
          /\ SumFunctionOnSet(Weight(q, a), added) \in Nat
      BY PotentialMoves, Zenon
    <3> QED BY <1>1, <3>1, SpreadType, Zenon
  <2>2. R + G = P + A
    BY <2>1, PotentialMoves
  <2>3. P <= (1 + c) * s
    BY <1>2, <2>1 DEF Bounded
  <2>4. (1 + (c + 1)) * s = (1 + c) * s + s /\ (1 + c) * s \in Nat
    OBVIOUS
  <2>5. CASE faults' = faults /\ A <= G
    BY <2>1, <2>2, <2>3, <2>4, <2>5, SMTT(30)
  <2>6. CASE Cardinality(faults') = c + 1 /\ A <= G + s
    BY <2>1, <2>2, <2>3, <2>4, <2>6, SMTT(30)
  <2>7. \/ faults' = faults /\ A <= G
        \/ Cardinality(faults') = c + 1 /\ A <= G + s
    BY <2>1, FS_AddElement DEF Bounded, Lighter, OnceMore
  <2> QED BY <2>5, <2>6, <2>7
<1> QED BY <1>1, <1>2 DEF Bounded

(* No step but a crash after PublishRetry makes more of a copy than could come *)
(* of it before.                                                              *)
LEMMA MoveWeights ==
    ASSUME NEW p \in Queues, NEW b \in Attempts
    PROVE  /\ Lighter({}, {<<"ready", p, b>>})
           /\ Lighter({}, {<<"run", p, b>>})
           /\ Lighter({<<"run", p, b>>}, {<<"ready", p, b>>})
           /\ Lighter({<<"failed", p, b>>}, {<<"run", p, b>>})
           /\ Lighter(FanOut("dead", b), {<<"failed", p, b>>})
           /\ Lighter(FanOut("ready", b), {<<"retry", p, b>>})
           /\ OnceMore(FanOut("dead", b), {<<"ready", p, b>>})
           /\ OnceMore(FanOut("dead", b), {<<"run", p, b>>})
           /\ OnceMore(FanOut("dead", b), {<<"failed", p, b>>})
           /\ OnceMore({<<"ready", p, b>>}, {<<"run", p, b>>})
           /\ OnceMore({<<"ready", p, b>>}, {<<"failed", p, b>>})
           /\ b < MaxRetries =>
                 /\ Lighter(FanOut("retry", b + 1), {<<"failed", p, b>>})
                 /\ OnceMore(FanOut("dead", b) \cup FanOut("retry", b + 1), {<<"failed", p, b>>})
                 /\ OnceMore({<<"ready", p, b>>} \cup FanOut("retry", b + 1), {<<"failed", p, b>>})
<1> DEFINE S(q, a, T) == SumFunctionOnSet(Weight(q, a), T)
           again == FanOut("retry", b + 1)
<1>1. ASSUME NEW q \in Queues, NEW a \in Attempts
      PROVE  /\ Spread[a] \in Nat
             /\ S(q, a, {}) = 0
             /\ S(q, a, {<<"ready", p, b>>}) \in Nat
             /\ S(q, a, {<<"failed", p, b>>}) = S(q, a, {<<"ready", p, b>>})
             /\ S(q, a, {<<"run", p, b>>}) = S(q, a, {<<"ready", p, b>>})
             /\ S(q, a, FanOut("dead", b)) = 0
             /\ S(q, a, FanOut("ready", b)) <= S(q, a, {<<"retry", p, b>>})
             /\ b < MaxRetries =>
                   /\ S(q, a, again) \in Nat
                   /\ S(q, a, again) <= S(q, a, {<<"failed", p, b>>})
                   /\ S(q, a, again) <= Spread[a]
                   /\ S(q, a, FanOut("dead", b) \cup again) = S(q, a, again)
                   /\ S(q, a, {<<"ready", p, b>>} \cup again)
                        = S(q, a, {<<"ready", p, b>>}) + S(q, a, again)
  <2>0. /\ \A r \in Queues : Weight(q, a)[<<"dead", r, b>>] = 0
        /\ Weight(q, a)[<<"failed", p, b>>] = Weight(q, a)[<<"ready", p, b>>]
        /\ Weight(q, a)[<<"run", p, b>>] = Weight(q, a)[<<"ready", p, b>>]
    <3>1. ASSUME NEW r \in Queues PROVE Weight(q, a)[<<"dead", r, b>>] = 0
      BY EqualWeights, Zenon
    <3>2. /\ Weight(q, a)[<<"failed", p, b>>] = Weight(q, a)[<<"ready", p, b>>]
          /\ Weight(q, a)[<<"run", p, b>>] = Weight(q, a)[<<"ready", p, b>>]
      BY EqualWeights, ZenonT(40)
    <3> QED BY <3>1, <3>2
  <2>1. PICK W \in [Cells -> Nat] : W = Weight(q, a)
    BY Weights
  <2>2. \A place \in Places \cup {"run"} : <<place, p, b>> \in Cells
    BY DEF Cells
  <2>3. ASSUME NEW x \in Cells PROVE S(q, a, {x}) = W[x] /\ W[x] \in Nat
    BY <2>1, SumSingleton
  <2>4. S(q, a, {}) = 0
    BY SumEmpty
  <2>5. \A place \in {"ready", "failed", "run", "retry"} :
            S(q, a, {<<place, p, b>>}) = W[<<place, p, b>>] /\ W[<<place, p, b>>] \in Nat
    BY <2>2, <2>3 DEF Places
  <2>6. /\ W[<<"failed", p, b>>] = W[<<"ready", p, b>>]
        /\ W[<<"run", p, b>>] = W[<<"ready", p, b>>]
    BY <2>0, <2>1
  <2>7. /\ S(q, a, FanOut("dead", b)) = 0
        /\ S(q, a, FanOut("ready", b)) <= W[<<"retry", p, b>>]
        /\ b < MaxRetries => /\ S(q, a, FanOut("retry", b + 1)) <= W[<<"failed", p, b>>]
                             /\ S(q, a, FanOut("retry", b + 1)) <= Spread[a]
    BY <2>1, FanOutWeights, Zenon
  <2>8. ASSUME b < MaxRetries
        PROVE  /\ S(q, a, FanOut("retry", b + 1)) \in Nat
               /\ S(q, a, FanOut("dead", b) \cup FanOut("retry", b + 1))
                    = S(q, a, FanOut("retry", b + 1))
               /\ S(q, a, {<<"ready", p, b>>} \cup FanOut("retry", b + 1))
                    = W[<<"ready", p, b>>] + S(q, a, FanOut("retry", b + 1))
    <3> DEFINE retries == FanOut("retry", b + 1)
               dead == FanOut("dead", b)
               x == <<"ready", p, b>>
    <3>1. retries \in SUBSET Cells /\ dead \in SUBSET Cells /\ x \in Cells /\ x \notin retries
      BY <2>8 DEF FanOut, Cells, Places, Attempts
    <3>2. \A y \in dead : W[y] = 0
      <4>1. \A r \in Queues : W[<<"dead", r, b>>] = 0
        BY <2>0, <2>1
      <4> QED BY <4>1 DEF FanOut
    <3>3. IsFiniteSet(retries) /\ IsFiniteSet(dead \cup retries)
      BY <3>1, FiniteCells, FS_Subset, FS_Union
    <3> HIDE DEF retries, dead, x
    <3>4. SumFunctionOnSet(W, retries) \in Nat
      BY <3>1, <3>3, SumNat
    <3>5. SumFunctionOnSet(W, dead \cup retries) = SumFunctionOnSet(W, retries)
      BY <3>1, <3>2, <3>3, SumOfPart
    <3>6. SumFunctionOnSet(W, retries \cup {x}) = W[x] + SumFunctionOnSet(W, retries)
      BY <3>1, <3>3, SumAdd
    <3>7. {x} \cup retries = retries \cup {x}
      OBVIOUS
    <3> QED BY <2>1, <3>4, <3>5, <3>6, <3>7, Zenon DEF retries, dead, x
  <2>9. Spread[a] \in Nat
    BY SpreadType
  <2> QED BY <2>4, <2>5, <2>6, <2>7, <2>8, <2>9, SMTT(30)
<1> HIDE DEF S
<1>2. ASSUME NEW q \in Queues, NEW a \in Attempts
      PROVE  /\ S(q, a, {}) <= S(q, a, {<<"ready", p, b>>})
             /\ S(q, a, {}) <= S(q, a, {<<"run", p, b>>})
             /\ S(q, a, {<<"run", p, b>>}) <= S(q, a, {<<"ready", p, b>>})
             /\ S(q, a, {<<"failed", p, b>>}) <= S(q, a, {<<"run", p, b>>})
             /\ S(q, a, FanOut("dead", b)) <= S(q, a, {<<"failed", p, b>>})
             /\ S(q, a, FanOut("ready", b)) <= S(q, a, {<<"retry", p, b>>})
             /\ S(q, a, FanOut("dead", b)) <= S(q, a, {<<"ready", p, b>>}) + Spread[a]
             /\ S(q, a, FanOut("dead", b)) <= S(q, a, {<<"run", p, b>>}) + Spread[a]
             /\ S(q, a, FanOut("dead", b)) <= S(q, a, {<<"failed", p, b>>}) + Spread[a]
             /\ S(q, a, {<<"ready", p, b>>}) <= S(q, a, {<<"run", p, b>>}) + Spread[a]
             /\ S(q, a, {<<"ready", p, b>>}) <= S(q, a, {<<"failed", p, b>>}) + Spread[a]
  <2> DEFINE none == S(q, a, {})
             ready == S(q, a, {<<"ready", p, b>>})
             failed == S(q, a, {<<"failed", p, b>>})
             runs == S(q, a, {<<"run", p, b>>})
             dead == S(q, a, FanOut("dead", b))
  <2>1. /\ Spread[a] \in Nat /\ none = 0 /\ ready \in Nat /\ failed = ready /\ runs = ready
        /\ dead = 0
    BY <1>1, Zenon
  <2>2. S(q, a, FanOut("ready", b)) <= S(q, a, {<<"retry", p, b>>})
    BY <1>1, Zenon
  <2> HIDE DEF none, ready, failed, runs, dead
  <2>3. /\ none <= ready /\ none <= runs /\ runs <= ready /\ failed <= runs /\ dead <= failed
        /\ dead <= ready + Spread[a] /\ dead <= runs + Spread[a] /\ dead <= failed + Spread[a]
        /\ ready <= runs + Spread[a] /\ ready <= failed + Spread[a]
    BY <2>1
  <2> QED BY <2>2, <2>3, Zenon DEF none, ready, failed, runs, dead
<1>3. ASSUME b < MaxRetries, NEW q \in Queues, NEW a \in Attempts
      PROVE  /\ S(q, a, again) <= S(q, a, {<<"failed", p, b>>})
             /\ S(q, a, FanOut("dead", b) \cup again) <= S(q, a, {<<"failed", p, b>>}) + Spread[a]
             /\ S(q, a, {<<"ready", p, b>>} \cup again)
                  <= S(q, a, {<<"failed", p, b>>}) + Spread[a]
  <2> DEFINE ready == S(q, a, {<<"ready", p, b>>})
             failed == S(q, a, {<<"failed", p, b>>})
             more == S(q, a, again)
             deadAgain == S(q, a, FanOut("dead", b) \cup again)
             readyAgain == S(q, a, {<<"ready", p, b>>} \cup again)
  <2>1. /\ Spread[a] \in Nat /\ ready \in Nat /\ failed = ready /\ more \in Nat
        /\ more <= failed /\ more <= Spread[a] /\ deadAgain = more /\ readyAgain = ready + more
    BY <1>1, <1>3, Zenon
  <2> HIDE DEF ready, failed, more, deadAgain, readyAgain
  <2>2. more <= failed /\ deadAgain <= failed + Spread[a] /\ readyAgain <= failed + Spread[a]
    BY <2>1
  <2> QED BY <2>2, Zenon DEF failed, more, deadAgain, readyAgain
<1> QED BY <1>2, <1>3, ZenonT(40) DEF Lighter, OnceMore, S

(* A step that publishes or acks and runs no handler. *)
LEMMA ShiftMoves ==
    ASSUME Types, Types', run' = run, NEW gone \in SUBSET Slots, NEW added \in SUBSET Slots,
           Shift(gone, added)
    PROVE  gone \in SUBSET Cells /\ added \in SUBSET Cells /\ Moved(gone, added)
<1>1. Slots \subseteq Cells /\ \A p, b : <<"run", p, b>> \notin Slots
  BY DEF Slots, Cells, Places
<1>2. ASSUME NEW x \in Slots PROVE copies'[x] + Ind(x, gone) = copies[x] + Ind(x, added)
  <2>1. copies[x] \in Nat /\ copies'[x] \in Nat /\ DOMAIN copies = Slots
    BY DEF Types
  <2>2. copies'[x] = copies[x] + (IF x \in added THEN 1 ELSE 0) - (IF x \in gone THEN 1 ELSE 0)
    BY <2>1 DEF Shift
  <2> QED BY <2>1, <2>2 DEF Ind
<1>3. ASSUME NEW p \in Queues, NEW b \in Attempts
      PROVE  RunAt(p, b)' + Ind(<<"run", p, b>>, gone) = RunAt(p, b) + Ind(<<"run", p, b>>, added)
  <2>1. Ind(<<"run", p, b>>, gone) = 0 /\ Ind(<<"run", p, b>>, added) = 0
    BY <1>1 DEF Ind
  <2> QED BY <2>1 DEF RunAt
<1> QED BY <1>1, <1>2, <1>3 DEF Moved

(* The steps that move copies between the queues. *)
LEMMA ShiftStep ==
    ASSUME IInv, IInv', Bounded, NEW q \in Queues, NEW a \in Attempts,
           AckDuplicate(q, a) \/ RecordFails(q, a) \/ PublishRetry(q, a)
              \/ PublishRetryFails(q, a) \/ CrashUnacked(q, a) \/ RetryExpires(q, a)
    PROVE  Bounded'
<1>1. Types /\ Types' /\ run' = run /\ replays' = replays
  BY SMTT(30) DEF IInv, AckDuplicate, RecordFails, PublishRetry, PublishRetryFails, CrashUnacked,
         RetryExpires
<1>2. /\ \A place \in Places : {<<place, q, a>>} \in SUBSET Slots
      /\ \A place \in Places, b \in Attempts : FanOut(place, b) \in SUBSET Slots
      /\ {} \in SUBSET Slots
  BY DEF Slots, FanOut
<1>3. "ready" \in Places /\ "failed" \in Places /\ "retry" \in Places /\ "dead" \in Places
  BY DEF Places
<1>4. a < MaxRetries => a + 1 \in Attempts
  BY DEF Attempts
<1>5. ASSUME NEW kind, Fault(kind)
      PROVE  \E k : k \notin faults /\ faults' = faults \cup {k}
  BY <1>5 DEF Fault
<1>6. ASSUME NEW gone \in SUBSET Slots, NEW added \in SUBSET Slots, Shift(gone, added),
             \/ faults' = faults /\ Lighter(added, gone)
             \/ /\ \E k : k \notin faults /\ faults' = faults \cup {k}
                /\ OnceMore(added, gone)
      PROVE  Bounded'
  BY <1>1, <1>6, ShiftMoves, BoundedStep, Zenon
<1>8. CASE AckDuplicate(q, a)
  BY <1>2, <1>3, <1>6, MoveWeights, <1>8, ZenonT(40) DEF AckDuplicate
<1>9. CASE RecordFails(q, a)
  <2>1. /\ Shift({<<"ready", q, a>>}, FanOut("dead", a))
        /\ \E k : k \notin faults /\ faults' = faults \cup {k}
    BY <1>5, <1>9, Zenon DEF RecordFails, DeadLetter
  <2> QED BY <1>2, <1>3, <1>6, MoveWeights, <2>1, ZenonT(40)
<1>10. CASE PublishRetry(q, a)
  BY <1>2, <1>3, <1>4, <1>6, MoveWeights, <1>10, ZenonT(40) DEF PublishRetry
<1>11. CASE PublishRetryFails(q, a)
  <2>1. /\ a < MaxRetries
        /\ \E k : k \notin faults /\ faults' = faults \cup {k}
        /\ \/ Shift({<<"failed", q, a>>}, FanOut("dead", a))
           \/ Shift({<<"failed", q, a>>}, FanOut("dead", a) \cup FanOut("retry", a + 1))
    BY <1>5, <1>11, ZenonT(40) DEF PublishRetryFails
  <2>2. FanOut("dead", a) \cup FanOut("retry", a + 1) \in SUBSET Slots
    BY <1>2, <1>3, <1>4, <2>1
  <2> QED BY <1>2, <1>3, <1>6, MoveWeights, <2>1, <2>2, ZenonT(40)
<1>12. CASE CrashUnacked(q, a)
  <2>1. /\ \E k : k \notin faults /\ faults' = faults \cup {k}
        /\ \/ Shift({<<"failed", q, a>>}, {<<"ready", q, a>>})
           \/ /\ a < MaxRetries
              /\ Shift({<<"failed", q, a>>}, {<<"ready", q, a>>} \cup FanOut("retry", a + 1))
    BY <1>5, <1>12, ZenonT(40) DEF CrashUnacked
  <2>2. a < MaxRetries => {<<"ready", q, a>>} \cup FanOut("retry", a + 1) \in SUBSET Slots
    BY <1>2, <1>3, <1>4
  <2> QED BY <1>2, <1>3, <1>6, MoveWeights, <2>1, <2>2, ZenonT(40)
<1>13. CASE RetryExpires(q, a)
  BY <1>2, <1>3, <1>6, MoveWeights, <1>13, ZenonT(40) DEF RetryExpires
<1> QED BY <1>8, <1>9, <1>10, <1>11, <1>12, <1>13, SMTT(30)

(* A handler starts with a copy of its queue. *)
LEMMA RunBegins ==
    ASSUME Types, Types', NEW q \in Queues, NEW a \in Attempts, run[q] = Idle,
           run' = [run EXCEPT ![q] = a], Shift({<<"ready", q, a>>}, {})
    PROVE  /\ {<<"ready", q, a>>} \in SUBSET Cells /\ {<<"run", q, a>>} \in SUBSET Cells
           /\ Moved({<<"ready", q, a>>}, {<<"run", q, a>>})
<1>1. /\ <<"ready", q, a>> \in Cells /\ <<"run", q, a>> \in Cells
      /\ \A p, b : <<"run", p, b>> \notin Slots
  BY DEF Slots, Cells, Places
<1>2. ASSUME NEW x \in Slots
      PROVE  copies'[x] + Ind(x, {<<"ready", q, a>>}) = copies[x] + Ind(x, {<<"run", q, a>>})
  <2>1. copies[x] \in Nat /\ copies'[x] \in Nat /\ DOMAIN copies = Slots
    BY DEF Types
  <2>2. copies'[x] = copies[x] + 0 - (IF x \in {<<"ready", q, a>>} THEN 1 ELSE 0)
    BY <2>1 DEF Shift
  <2>3. Ind(x, {<<"run", q, a>>}) = 0
    BY <1>1 DEF Ind
  <2> QED BY <2>1, <2>2, <2>3 DEF Ind
<1>3. ASSUME NEW p \in Queues, NEW b \in Attempts
      PROVE  RunAt(p, b)' + Ind(<<"run", p, b>>, {<<"ready", q, a>>})
               = RunAt(p, b) + Ind(<<"run", p, b>>, {<<"run", q, a>>})
  <2>1. Ind(<<"run", p, b>>, {<<"ready", q, a>>}) = 0
    BY DEF Ind
  <2>2. run'[p] = IF p = q THEN a ELSE run[p]
    BY DEF Types
  <2>3. Idle \notin Attempts
    BY SMTT(30) DEF Idle, Attempts
  <2> QED BY <2>1, <2>2, <2>3 DEF RunAt, Ind
<1> QED BY <1>1, <1>2, <1>3, Zenon DEF Moved

(* A handler ends and the copies added are published or requeued. *)
LEMMA RunEnds ==
    ASSUME Types, Types', NEW q \in Queues, NEW a \in Attempts, run[q] = a,
           run' = [run EXCEPT ![q] = Idle], NEW added \in SUBSET Slots,
           \A x \in Slots : copies'[x] = copies[x] + Ind(x, added)
    PROVE  /\ {<<"run", q, a>>} \in SUBSET Cells /\ added \in SUBSET Cells
           /\ Moved({<<"run", q, a>>}, added)
<1>1. /\ <<"run", q, a>> \in Cells /\ Slots \subseteq Cells
      /\ \A p, b : <<"run", p, b>> \notin Slots
  BY DEF Slots, Cells, Places
<1>2. ASSUME NEW x \in Slots
      PROVE  copies'[x] + Ind(x, {<<"run", q, a>>}) = copies[x] + Ind(x, added)
  <2>1. copies[x] \in Nat /\ copies'[x] \in Nat
    BY DEF Types
  <2>2. Ind(x, {<<"run", q, a>>}) = 0
    BY <1>1 DEF Ind
  <2> QED BY <2>1, <2>2
<1>3. ASSUME NEW p \in Queues, NEW b \in Attempts
      PROVE  RunAt(p, b)' + Ind(<<"run", p, b>>, {<<"run", q, a>>})
               = RunAt(p, b) + Ind(<<"run", p, b>>, added)
  <2>1. Ind(<<"run", p, b>>, added) = 0
    BY <1>1 DEF Ind
  <2>2. run'[p] = IF p = q THEN Idle ELSE run[p]
    BY DEF Types
  <2>3. Idle \notin Attempts
    BY DEF Idle, Attempts
  <2> QED BY <2>1, <2>2, <2>3 DEF RunAt, Ind
<1> QED BY <1>1, <1>2, <1>3, Zenon DEF Moved

(* The steps of a handler. *)
LEMMA RunStep ==
    ASSUME IInv, IInv', Bounded, NEW q \in Queues,
           HandlerSucceeds(q) \/ HandlerFails(q) \/ ReleaseFails(q) \/ Crash(q)
    PROVE  Bounded'
<1>1. /\ Types /\ Types' /\ replays' = replays /\ run[q] # Idle
      /\ run' = [run EXCEPT ![q] = Idle]
  BY DEF IInv, HandlerSucceeds, HandlerFails, ReleaseFails, Crash
<1>2. PICK a \in Attempts : run[q] = a
  BY <1>1 DEF Types
<1>3. /\ \A place \in Places : {<<place, q, a>>} \in SUBSET Slots
      /\ \A place \in Places : FanOut(place, a) \in SUBSET Slots
      /\ {} \in SUBSET Slots
      /\ "ready" \in Places /\ "failed" \in Places /\ "dead" \in Places
  BY DEF Slots, FanOut, Places
<1>4. ASSUME NEW kind, Fault(kind)
      PROVE  \E k : k \notin faults /\ faults' = faults \cup {k}
  BY <1>4 DEF Fault
<1>5. ASSUME NEW added \in SUBSET Slots, \A x \in Slots : copies'[x] = copies[x] + Ind(x, added),
             \/ faults' = faults /\ Lighter(added, {<<"run", q, a>>})
             \/ /\ \E k : k \notin faults /\ faults' = faults \cup {k}
                /\ OnceMore(added, {<<"run", q, a>>})
      PROVE  Bounded'
  BY <1>1, <1>2, <1>5, RunEnds, BoundedStep, ZenonT(40)
<1>6. ASSUME NEW x \in Slots, copies' = [copies EXCEPT ![x] = @ + 1]
      PROVE  \A y \in Slots : copies'[y] = copies[y] + Ind(y, {x})
  <2>1. \A y \in Slots : copies[y] \in Nat
    BY <1>1 DEF Types
  <2> QED BY <1>1, <1>6, <2>1, SMTT(30) DEF Types, Ind
<1>7. CASE HandlerSucceeds(q)
  <2>1. \A x \in Slots : copies'[x] = copies[x] + Ind(x, {})
    BY <1>1, <1>7 DEF HandlerSucceeds, Types, Ind
  <2>2. faults' = faults
    BY <1>7 DEF HandlerSucceeds
  <2> QED BY <1>3, <1>5, <2>1, <2>2, MoveWeights, ZenonT(40)
<1>8. CASE HandlerFails(q)
  <2>1. \A x \in Slots : copies'[x] = copies[x] + Ind(x, {<<"failed", q, a>>})
    BY <1>2, <1>3, <1>6, <1>8, Zenon DEF HandlerFails
  <2>2. faults' = faults
    BY <1>8 DEF HandlerFails
  <2> QED BY <1>3, <1>5, <2>1, <2>2, MoveWeights, ZenonT(40)
<1>9. CASE ReleaseFails(q)
  <2>1. Shift({}, FanOut("dead", a))
    BY <1>2, <1>9 DEF ReleaseFails
  <2>2. \A x \in Slots : copies'[x] = copies[x] + Ind(x, FanOut("dead", a))
    BY <1>1, <2>1 DEF Shift, Types, Ind
  <2>3. \E k : k \notin faults /\ faults' = faults \cup {k}
    BY <1>4, <1>9, Zenon DEF ReleaseFails
  <2> QED BY <1>3, <1>5, <2>2, <2>3, MoveWeights, Zenon
<1>10. CASE Crash(q)
  <2>1. \A x \in Slots : copies'[x] = copies[x] + Ind(x, {<<"ready", q, a>>})
    BY <1>2, <1>3, <1>6, <1>10, ZenonT(40) DEF Crash
  <2>2. \E k : k \notin faults /\ faults' = faults \cup {k}
    BY <1>4, <1>10, Zenon DEF Crash
  <2> QED BY <1>3, <1>5, <2>1, <2>2, MoveWeights, ZenonT(40)
<1> QED BY <1>7, <1>8, <1>9, <1>10, SMTT(30)

(* A handler starts, a message whose retries are used up is dead-lettered, or *)
(* the operator replays one.                                                  *)
LEMMA OtherStep ==
    ASSUME IInv, IInv', Bounded, NEW q \in Queues, NEW a \in Attempts,
           Start(q, a) \/ Exhaust(q) \/ ReplayDLQ(q, a)
    PROVE  Bounded'
<1>1. Types /\ Types'
  BY DEF IInv
<1>2. CASE Start(q, a)
  <2>1. /\ run[q] = Idle /\ run' = [run EXCEPT ![q] = a] /\ replays' = replays
        /\ faults' = faults /\ Shift({<<"ready", q, a>>}, {})
    BY <1>2 DEF Start, IInv, RunsHoldTheirRow
  <2>2. /\ {<<"ready", q, a>>} \in SUBSET Cells /\ {<<"run", q, a>>} \in SUBSET Cells
        /\ Moved({<<"ready", q, a>>}, {<<"run", q, a>>})
    BY <1>1, <2>1, RunBegins, Zenon
  <2>3. Lighter({<<"run", q, a>>}, {<<"ready", q, a>>})
    BY MoveWeights, Zenon
  <2> QED BY <1>1, <2>1, <2>2, <2>3, BoundedStep, Zenon
<1>3. CASE Exhaust(q)
  <2>1. PICK b \in Attempts : b = MaxRetries
    BY SMTT(30) DEF Attempts
  <2>2. /\ Shift({<<"failed", q, b>>}, FanOut("dead", b)) /\ run' = run /\ replays' = replays
        /\ faults' = faults
    BY <1>3, <2>1 DEF Exhaust, DeadLetter
  <2>3. {<<"failed", q, b>>} \in SUBSET Slots /\ FanOut("dead", b) \in SUBSET Slots
    BY DEF Slots, FanOut, Places
  <2>4. /\ {<<"failed", q, b>>} \in SUBSET Cells /\ FanOut("dead", b) \in SUBSET Cells
        /\ Moved({<<"failed", q, b>>}, FanOut("dead", b))
    BY <1>1, <2>2, <2>3, ShiftMoves, Zenon
  <2>5. Lighter(FanOut("dead", b), {<<"failed", q, b>>})
    BY MoveWeights, Zenon
  <2> QED BY <1>1, <2>2, <2>4, <2>5, BoundedStep, ZenonT(40)
<1>4. CASE ReplayDLQ(q, a)
  <2>1. replays' = replays + 1
    BY <1>4, Zenon DEF ReplayDLQ
  <2>2. faults' = faults \/ \E k : faults' = faults \cup {k}
    BY <1>4, Zenon DEF ReplayDLQ, Fault
  <2>3. IsFiniteSet(faults')
    BY <2>2, FS_AddElement DEF Bounded
  <2>4. replays' \in Nat /\ replays' # 0
    BY <2>1 DEF Bounded
  <2> QED BY <2>3, <2>4, SMTT(30) DEF Bounded
<1> QED BY <1>2, <1>3, <1>4

(* Every step keeps the bound. *)
LEMMA BoundedNext == IInv /\ IInv' /\ Bounded /\ [Next]_vars => Bounded'
<1> SUFFICES ASSUME IInv, IInv', Bounded, [Next]_vars PROVE Bounded'
  OBVIOUS
<1>0. CASE UNCHANGED vars
  <2>1. copies' = copies /\ run' = run /\ replays' = replays /\ faults' = faults
    BY <1>0, SMTT(30) DEF vars
  <2>2. ASSUME NEW q \in Queues, NEW a \in Attempts PROVE Potential(q, a)' = Potential(q, a)
    BY <2>1 DEF Potential, Held, Weight
  <2> QED BY <2>1, <2>2 DEF Bounded
<1>1. PICK z \in Attempts : z = 0
  BY DEF Attempts
<1>2. ASSUME NEW q \in Queues, Consume(q) PROVE Bounded'
  <2>1. CASE \E a \in Attempts : AckDuplicate(q, a) \/ Start(q, a) \/ PublishRetry(q, a)
    BY <2>1, ShiftStep, OtherStep, Zenon
  <2>2. CASE HandlerSucceeds(q) \/ HandlerFails(q)
    BY <2>2, RunStep, Zenon
  <2>3. CASE Exhaust(q)
    BY <1>1, <2>3, OtherStep, Zenon
  <2> QED BY <1>2, <2>1, <2>2, <2>3, Zenon DEF Consume
<1>3. ASSUME NEW q \in Queues, ReleaseFails(q) \/ Crash(q) PROVE Bounded'
  BY <1>3, RunStep, Zenon
<1>4. ASSUME NEW q \in Queues, NEW a \in Attempts,
             RecordFails(q, a) \/ PublishRetryFails(q, a) \/ CrashUnacked(q, a)
                \/ RetryExpires(q, a) \/ ReplayDLQ(q, a)
      PROVE  Bounded'
  BY <1>4, ShiftStep, OtherStep, ZenonT(40)
<1> QED BY <1>0, <1>2, <1>3, <1>4, ZenonT(40) DEF Next

(* The relay publishes one copy to each queue: what can come of them is what   *)
(* can come of one copy in a retry queue with header 0.                        *)
LEMMA InitBounded == Init => Bounded
<1> SUFFICES ASSUME Init PROVE Bounded
  OBVIOUS
<1>1. /\ replays = 0 /\ faults = {} /\ IsFiniteSet({}) /\ Cardinality({}) = 0
  BY FS_EmptySet, SMTT(30) DEF Init
<1>2. ASSUME NEW q \in Queues, NEW a \in Attempts PROVE Potential(q, a) <= Spread[a]
  <2>1. Held \in [Cells -> Nat] /\ 0 \in Attempts /\ Types
    <3>1. Types /\ 0 \in Attempts
      BY InitIInv DEF IInv, Attempts
    <3> QED BY <3>1 DEF Types, Held, Cells, Slots
  <2>2. PICK W \in [Cells -> Nat] : W = Weight(q, a)
    BY Weights
  <2>3. PICK k \in [Cells -> Nat], z \in Attempts : k = Held /\ z = 0
    BY <2>1
  <2> DEFINE fan == FanOut("ready", z)
             none == [x \in Cells |-> 0]
             kW == [x \in Cells |-> k[x] * W[x]]
             noneW == [x \in Cells |-> none[x] * W[x]]
  <2>4. fan \in SUBSET Cells /\ none \in [Cells -> Nat]
    BY DEF FanOut, Cells, Places
  <2>5. ASSUME NEW x \in Cells PROVE k[x] + Ind(x, {}) = none[x] + Ind(x, fan)
    <3>1. PICK place \in Places \cup {"run"}, p \in Queues, b \in Attempts : x = <<place, p, b>>
      BY DEF Cells
    <3>2. none[x] = 0 /\ Ind(x, {}) = 0
      BY DEF Ind
    <3>3. CASE place = "run"
      <4>1. run[p] = Idle /\ Idle \notin Attempts
        BY DEF Init, Idle, Attempts
      <4>2. k[x] = 0
        BY <2>3, <3>1, <3>3, <4>1, SMTT(30) DEF Held
      <4>3. x \notin fan
        BY <3>1, <3>3, SMTT(30) DEF FanOut
      <4> QED BY <3>2, <4>2, <4>3, SMTT(30) DEF Ind
    <3>4. CASE place # "run"
      <4>1. k[x] = copies[x] /\ x \in Places \X Queues \X Attempts
        BY <2>3, <3>1, <3>4, SMTT(30) DEF Held
      <4>2. copies[x] = IF x \in fan THEN 1 ELSE 0
        BY <2>3, <4>1 DEF Init
      <4> QED BY <3>2, <4>1, <4>2, SMTT(30) DEF Ind
    <3> QED BY <3>3, <3>4
  <2>6. \A x \in Cells : noneW[x] = 0
    <3>1. \A n \in Nat : 0 * n = 0
      OBVIOUS
    <3> QED BY <3>1
  <2>7. Potential(q, a) = SumFunctionOnSet(kW, Cells)
    BY <2>2, <2>3 DEF Potential
  <2> HIDE DEF fan, none
  <2>8. SumFunctionOnSet(kW, Cells) + SumFunctionOnSet(W, {})
          = SumFunctionOnSet(noneW, Cells) + SumFunctionOnSet(W, fan)
    <3>1. {} \in SUBSET Cells
      OBVIOUS
    <3>2. PICK h \in [Cells -> Nat] : h = none
      BY <2>4, SMTT(30)
    <3>3. SumFunctionOnSet([x \in Cells |-> k[x] * W[x]], Cells) + SumFunctionOnSet(W, {})
            = SumFunctionOnSet([x \in Cells |-> h[x] * W[x]], Cells) + SumFunctionOnSet(W, fan)
      BY <2>4, <2>5, <3>1, <3>2, PotentialShift, SMTT(30)
    <3> QED BY <3>2, <3>3
  <2> HIDE DEF kW, noneW
  <2>9. SumFunctionOnSet(W, {}) = 0
    BY SumEmpty
  <2>10. SumFunctionOnSet(noneW, Cells) = 0
    <3>1. SumFunctionOnSet(noneW, Cells) = Cardinality(Cells) * 0 /\ Cardinality(Cells) \in Nat
      BY <2>6, FiniteCells, SumConstant, FS_CardinalityType
    <3> QED BY <3>1
  <2>11. SumFunctionOnSet(W, fan) <= W[<<"retry", q, z>>]
    BY <2>2, FanOutWeights, Zenon DEF fan
  <2>12. W[<<"retry", q, z>>] = Spread[a]
    <3>1. W[<<"retry", q, z>>] = IF z > a THEN 0 ELSE Spread[a - z]
      BY <2>2, Weights, ZenonT(40)
    <3>2. a \in Nat /\ z = 0
      BY <2>3 DEF Attempts
    <3>3. ~(z > a) /\ a - z = a
      BY <3>2
    <3> QED BY <3>1, <3>3, Zenon
  <2>13. SumFunctionOnSet(W, fan) \in Nat /\ SumFunctionOnSet(kW, Cells) \in Nat
    <3>1. IsFiniteSet(fan) /\ \A x \in fan : W[x] \in Nat
      BY <2>4, FiniteCells, FS_Subset, SMTT(30)
    <3>2. \A x \in Cells : kW[x] \in Nat
      <4>1. \A m, n \in Nat : m * n \in Nat
        BY SMTT(30)
      <4> QED BY <4>1 DEF kW
    <3> QED BY <3>1, <3>2, FiniteCells, SumNat, SMTT(30)
  <2> QED BY <2>7, <2>8, <2>9, <2>10, <2>11, <2>12, <2>13, SMTT(30)
<1>3. ASSUME NEW q \in Queues, NEW a \in Attempts
      PROVE  Potential(q, a) <= (1 + Cardinality(faults)) * Spread[a]
  <2>1. PICK s \in Nat : s = Spread[a]
    BY SpreadType
  <2>2. (1 + 0) * s = s
    BY SMTT(30)
  <2> QED BY <1>1, <1>2, <2>1, <2>2, SMTT(30)
<1> QED BY <1>1, <1>3 DEF Bounded

(* A copy in a queue is one that can come to it. *)
LEMMA BoundedCopies == IInv /\ Bounded => CopiesAreBounded
<1> SUFFICES ASSUME IInv, Bounded, replays = 0, NEW q \in Queues, NEW a \in Attempts
             PROVE  copies[<<"ready", q, a>>] <= (1 + Cardinality(faults)) * Spread[a]
  BY Zenon DEF CopiesAreBounded
<1>1. PICK k \in [Cells -> Nat], W \in [Cells -> Nat] : k = Held /\ W = Weight(q, a)
  <2>1. Held \in [Cells -> Nat]
    BY DEF IInv, Types, Held, Cells, Slots
  <2> QED BY <2>1, Weights
<1> DEFINE x == <<"ready", q, a>>
           kW == [y \in Cells |-> k[y] * W[y]]
<1>2. x \in Cells /\ k[x] = copies[x] /\ k[x] \in Nat
  <2>1. x \in Cells
    BY DEF Cells, Places
  <2> QED BY <1>1, <2>1 DEF Held
<1>3. W[x] = 1
  <2>1. W[x] = IF a > a THEN 0
               ELSE IF a < a THEN Cardinality(Queues) * Spread[a - a - 1]
               ELSE IF q = q THEN 1 ELSE 0
    BY <1>1, Weights, Zenon
  <2>2. ~(a > a) /\ ~(a < a)
    BY DEF Attempts
  <2> QED BY <2>1, <2>2, Zenon
<1>4. \A y \in Cells : kW[y] \in Nat
  <2>1. \A m, n \in Nat : m * n \in Nat
    OBVIOUS
  <2> QED BY <2>1
<1>5. kW[x] = copies[x]
  BY <1>2, <1>3
<1>6. Potential(q, a) = SumFunctionOnSet(kW, Cells)
  BY <1>1, SMTT(30) DEF Potential
<1> HIDE DEF x, kW
<1>7. kW[x] <= SumFunctionOnSet(kW, Cells) /\ SumFunctionOnSet(kW, Cells) \in Nat
  BY <1>2, <1>4, FiniteCells, SumTerm, SumNat, SMTT(30)
<1>8. Potential(q, a) <= (1 + Cardinality(faults)) * Spread[a]
  BY DEF Bounded
<1>9. (1 + Cardinality(faults)) * Spread[a] \in Nat
  <2>1. \A m, n \in Nat : (1 + m) * n \in Nat
    BY SMTT(30)
  <2> QED BY <2>1, SpreadType, FS_CardinalityType DEF Bounded
<1>10. copies[x] <= (1 + Cardinality(faults)) * Spread[a]
  <2>1. PICK m \in Nat : m = (1 + Cardinality(faults)) * Spread[a]
    BY <1>9
  <2> QED BY <1>2, <1>5, <1>6, <1>7, <1>8, <2>1, SMTT(30)
<1> QED BY <1>10 DEF x

(* Until something is replayed, the retries of one event put no more copies    *)
(* into a queue than its failures bring there, once more for every fault: for  *)
(* any number of queues and retries, although PublishRetry and the retry       *)
(* queues send each copy to all queues of its type.                            *)
THEOREM RetriesAreBounded == Spec => []CopiesAreBounded
<1>1. Init => Bounded
  BY InitBounded
<1>2. IInv /\ IInv' /\ Bounded /\ [Next]_vars => Bounded'
  BY BoundedNext
<1>3. IInv /\ Bounded => CopiesAreBounded
  BY BoundedCopies
<1> QED BY <1>1, <1>2, <1>3, Invariance, PTL DEF Spec
=============================================================================
