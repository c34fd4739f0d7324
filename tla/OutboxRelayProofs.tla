-------------------------- MODULE OutboxRelayProofs --------------------------
(***************************************************************************)
(* Proofs about OutboxRelay for any number of relays and events, any batch *)
(* size and any faults: no event is lost, the relays implement AtLeastOnce,*)
(* and every copy of an event beyond the first is paid for by the expiry of*)
(* a lease.                                                                *)
(***************************************************************************)
EXTENDS OutboxRelay, FiniteSetTheorems, TLAPS

(* A relay is about to mark only what the broker has confirmed. *)
MarkingWasRouted == \A r \in Relays : marking[r] # 0 => copies[marking[r]] > 0

(* The inductive invariant: PublishedWasRouted alone does not survive       *)
(* MarkOutboxPublished.                                                    *)
IInv == TypeOK /\ PublishedWasRouted /\ MarkingWasRouted

(* The relays start with empty tables. *)
LEMMA InitIInv ==
    ASSUME Init
    PROVE  IInv
  BY RelayConstants DEF Init, IInv, TypeOK, PublishedWasRouted, MarkingWasRouted, Events

(* A fault stays within its bound. *)
LEMMA FaultBounded ==
    ASSUME NEW kind, faults \in 0..MaxFaults, Fault(kind)
    PROVE  faults' \in 0..MaxFaults
  BY RelayConstants DEF Fault

(* Dropping a batch keeps the claims well formed. *)
LEMMA AbortKeepsClaims ==
    ASSUME IInv, NEW r \in Relays, Abort(r), committed' = committed
    PROVE  /\ batch' \in [Relays -> SUBSET committed']
           /\ marking' \in [Relays -> Events \cup {0}]
           /\ \A x \in Relays : marking'[x] # 0 =>
                 /\ marking'[x] \in batch'[x]
                 /\ marking'[x] = marking[x]
  BY DEF IInv, TypeOK, Abort

(* Every step of a relay, of its environment and of time keeps IInv. *)
LEMMA StepKeepsIInv ==
    ASSUME IInv, [Next]_vars
    PROVE  IInv'
  <1> USE DEF IInv
  <1>0. /\ TypeOK /\ PublishedWasRouted /\ MarkingWasRouted
        /\ faults \in 0..MaxFaults
    BY DEF TypeOK
  <1>1. ASSUME NEW e \in Events, Commit(e)
        PROVE  IInv'
    BY <1>1 DEF Commit, TypeOK, PublishedWasRouted, MarkingWasRouted
  <1>2. ASSUME NEW e \in Events, LeaseExpires(e)
        PROVE  IInv'
    <2>1. faults' \in 0..MaxFaults
      BY <1>0, <1>2, FaultBounded DEF LeaseExpires
    <2>2. expiries' \in [Events -> 0..MaxFaults]
      BY <1>2, RelayConstants DEF LeaseExpires, TypeOK
    <2>3. leased' \subseteq leased
      BY <1>2 DEF LeaseExpires
    <2> QED BY <1>2, <2>1, <2>2, <2>3 DEF LeaseExpires, TypeOK, PublishedWasRouted,
                                          MarkingWasRouted
  <1>3. ASSUME NEW r \in Relays, PendingOutboxEvents(r)
        PROVE  IInv'
    <2>1. Oldest(Claimable, BatchSize) \subseteq committed \ published
      BY DEF Oldest, Claimable
    <2>2. marking[r] = 0
      BY <1>3 DEF PendingOutboxEvents, TypeOK
    <2> QED BY <1>3, <2>1, <2>2
            DEF PendingOutboxEvents, TypeOK, PublishedWasRouted, MarkingWasRouted
  <1>4. ASSUME NEW r \in Relays, NEW e \in Events, PublishConfirmed(r, e)
        PROVE  IInv'
    <2>1. /\ copies' \in [Events -> Nat]
          /\ copies'[e] > 0
          /\ \A f \in Events : copies[f] > 0 => copies'[f] > 0
      BY <1>4 DEF PublishConfirmed, TypeOK
    <2>2. /\ marking' = [marking EXCEPT ![r] = e]
          /\ UNCHANGED <<committed, published, leased, batch, connected, expiries, faults>>
          /\ e \in batch[r]
      BY <1>4 DEF PublishConfirmed
    <2>3. TypeOK'
      BY <2>1, <2>2 DEF TypeOK
    <2>4. PublishedWasRouted'
      BY <2>1, <2>2 DEF TypeOK, PublishedWasRouted
    <2>5. MarkingWasRouted'
      BY <2>1, <2>2 DEF TypeOK, MarkingWasRouted
    <2> QED BY <2>3, <2>4, <2>5
  <1>5. ASSUME NEW r \in Relays, Abort(r), UNCHANGED <<committed, published, leased, expiries>>,
               faults' \in 0..MaxFaults, connected' \subseteq Relays,
               copies' \in [Events -> Nat],
               \A f \in Events : copies[f] > 0 => copies'[f] > 0
        PROVE  IInv'
    <2>1. TypeOK'
      BY <1>5, AbortKeepsClaims DEF TypeOK
    <2>2. PublishedWasRouted'
      BY <1>5 DEF TypeOK, PublishedWasRouted
    <2>3. MarkingWasRouted'
      BY <1>5, AbortKeepsClaims DEF TypeOK, MarkingWasRouted
    <2> QED BY <2>1, <2>2, <2>3
  <1>6. ASSUME NEW r \in Relays, NEW e \in Events, PublishUnconfirmed(r, e)
        PROVE  IInv'
    <2>1. /\ copies' \in [Events -> Nat]
          /\ \A f \in Events : copies[f] > 0 => copies'[f] > 0
          /\ connected' \subseteq Relays
      BY <1>6 DEF PublishUnconfirmed, TypeOK
    <2>2. faults' \in 0..MaxFaults
      BY <1>0, <1>6, FaultBounded DEF PublishUnconfirmed
    <2> QED BY <1>5, <1>6, <2>1, <2>2 DEF PublishUnconfirmed
  <1>7. ASSUME NEW r \in Relays,
               MarkFails(r) \/ Restart(r) \/ \E e \in Events : PublishFailed(r, e)
        PROVE  IInv'
    <2>1. faults' \in 0..MaxFaults
      BY <1>0, <1>7, FaultBounded DEF MarkFails, Restart, PublishFailed
    <2>2. /\ copies' = copies
          /\ connected' \subseteq Relays
      BY <1>7 DEF MarkFails, Restart, PublishFailed, TypeOK
    <2>3. copies \in [Events -> Nat]
      BY DEF TypeOK
    <2> QED BY <1>5, <1>7, <2>1, <2>2, <2>3 DEF MarkFails, Restart, PublishFailed
  <1>8. ASSUME NEW r \in Relays, MarkOutboxPublished(r)
        PROVE  IInv'
    <2>1. CASE marking[r] \in published
      <3>1. connected \subseteq Relays /\ copies \in [Events -> Nat]
        BY DEF TypeOK
      <3> QED BY <1>0, <1>5, <1>8, <2>1, <3>1 DEF MarkOutboxPublished
    <2>2. CASE marking[r] \notin published
      <3> DEFINE e == marking[r]
      <3>1. e \in committed /\ copies[e] > 0
        BY <1>8 DEF MarkOutboxPublished, TypeOK, MarkingWasRouted
      <3>2. /\ published' = published \cup {e}
            /\ leased' = leased \ {e}
            /\ batch' = [batch EXCEPT ![r] = @ \ {e}]
            /\ marking' = [marking EXCEPT ![r] = 0]
            /\ UNCHANGED <<committed, connected, copies, expiries, faults>>
        BY <1>8, <2>2 DEF MarkOutboxPublished
      <3> HIDE DEF e
      <3>3. /\ batch' \in [Relays -> SUBSET committed]
            /\ marking' \in [Relays -> Events \cup {0}]
            /\ \A x \in Relays : marking'[x] # 0 =>
                  marking'[x] = marking[x] /\ marking'[x] \in batch'[x]
        BY <3>2 DEF TypeOK
      <3>4. TypeOK'
        BY <3>1, <3>2, <3>3 DEF TypeOK
      <3>5. PublishedWasRouted'
        BY <3>1, <3>2 DEF PublishedWasRouted
      <3>6. MarkingWasRouted'
        BY <3>2, <3>3 DEF MarkingWasRouted
      <3> QED BY <3>4, <3>5, <3>6
    <2> QED BY <2>1, <2>2
  <1>9. ASSUME NEW r \in Relays, Disconnect(r)
        PROVE  IInv'
    <2>1. faults' \in 0..MaxFaults
      BY <1>0, <1>9, FaultBounded DEF Disconnect
    <2> QED BY <1>9, <2>1 DEF Disconnect, TypeOK, PublishedWasRouted, MarkingWasRouted
  <1>10. CASE UNCHANGED vars
    BY <1>10 DEF vars, TypeOK, PublishedWasRouted, MarkingWasRouted
  <1> QED BY <1>1, <1>2, <1>3, <1>4, <1>6, <1>7, <1>8, <1>9, <1>10
          DEF Next, RelayStep

(* The inductive invariant holds in every reachable state. *)
THEOREM InductiveInvariant == Spec => []IInv
  BY InitIInv, StepKeepsIInv, PTL DEF Spec

(* The rows, leases and batches are always well typed. *)
THEOREM TypeCorrect == Spec => []TypeOK
  <1>1. IInv => TypeOK
    BY DEF IInv
  <1> QED BY <1>1, InductiveInvariant, PTL

(* No committed event is ever dropped: a row is marked published only after  *)
(* the broker has routed it, with any number of relays, crashes and slow     *)
(* leases.                                                                  *)
THEOREM NothingIsLost == Spec => []PublishedWasRouted
  <1>1. IInv => PublishedWasRouted
    BY DEF IInv
  <1> QED BY <1>1, InductiveInvariant, PTL

(* Refinement: claiming, publishing and marking, with all their failures,    *)
(* implement at-least-once delivery.                                        *)
THEOREM RelaysImplementAtLeastOnce == Spec => ImplementsAtLeastOnce
  <1> DEFINE routed == {e \in Events : copies[e] > 0}
             abstract == <<committed, routed, published>>
  <1>1. Init => Guarantee!Init
    BY DEF Init, Guarantee!Init
  <1>2. IInv /\ [Next]_vars => [Guarantee!Next]_abstract
    <2> SUFFICES ASSUME IInv, [Next]_vars
                 PROVE  Guarantee!Next \/ UNCHANGED abstract
      OBVIOUS
    <2>0. /\ copies \in [Events -> Nat]
          /\ \A r \in Relays : batch[r] \subseteq committed
          /\ marking \in [Relays -> Events \cup {0}]
          /\ MarkingWasRouted
      BY DEF IInv, TypeOK
    <2>1. ASSUME UNCHANGED <<committed, copies, published>>
          PROVE  UNCHANGED abstract
      BY <2>1
    <2>2. ASSUME NEW e \in Events, Commit(e)
          PROVE  Guarantee!Next
      <3>1. Guarantee!Accept(e)
        BY <2>2 DEF Commit, Guarantee!Accept
      <3> QED BY <3>1 DEF Guarantee!Next
    <2>3. ASSUME NEW r \in Relays, NEW e \in Events,
                 PublishConfirmed(r, e) \/ PublishUnconfirmed(r, e)
          PROVE  Guarantee!Next
      <3>1. /\ e \in committed
            /\ copies' = [copies EXCEPT ![e] = @ + 1]
            /\ UNCHANGED <<committed, published>>
        BY <2>0, <2>3 DEF PublishConfirmed, PublishUnconfirmed
      <3>2. routed' = routed \cup {e}
        BY <2>0, <3>1
      <3>3. Guarantee!Deliver(e)
        BY <3>1, <3>2 DEF Guarantee!Deliver
      <3> QED BY <3>3 DEF Guarantee!Next
    <2>4. ASSUME NEW r \in Relays, MarkOutboxPublished(r)
          PROVE  Guarantee!Next \/ UNCHANGED abstract
      <3>1. CASE marking[r] \in published
        BY <2>1, <2>4, <3>1 DEF MarkOutboxPublished
      <3>2. CASE marking[r] \notin published
        <4>1. PICK e \in Events : e = marking[r]
          BY <2>0, <2>4 DEF MarkOutboxPublished
        <4>2. /\ e \in routed
              /\ published' = published \cup {e}
              /\ UNCHANGED <<committed, copies>>
          BY <2>0, <2>4, <3>2, <4>1 DEF MarkOutboxPublished, MarkingWasRouted
        <4>3. routed' = routed
          BY <4>2
        <4>4. Guarantee!Settle(e)
          BY <4>2, <4>3 DEF Guarantee!Settle
        <4> QED BY <4>4 DEF Guarantee!Next
      <3> QED BY <3>1, <3>2
    <2>5. ASSUME NEW r \in Relays,
                 \/ PendingOutboxEvents(r) \/ MarkFails(r)
                 \/ Restart(r) \/ Disconnect(r)
                 \/ \E e \in Events : PublishFailed(r, e)
          PROVE  UNCHANGED abstract
      BY <2>1, <2>5 DEF PendingOutboxEvents, MarkFails, Restart, Disconnect, PublishFailed
    <2>6. ASSUME NEW e \in Events, LeaseExpires(e)
          PROVE  UNCHANGED abstract
      BY <2>1, <2>6 DEF LeaseExpires
    <2>7. CASE UNCHANGED vars
      BY <2>1, <2>7 DEF vars
    <2> QED BY <2>2, <2>3, <2>4, <2>5, <2>6, <2>7 DEF Next, RelayStep
  <1> QED BY <1>1, <1>2, InductiveInvariant, PTL
          DEF Spec, ImplementsAtLeastOnce, Guarantee!Spec

-----------------------------------------------------------------------------
(* Duplicates                                                              *)

(* The relays that hold event e and have not published it yet. *)
Pending(e) == {r \in Relays : e \in batch[r] /\ marking[r] # e}

Held(e) == \E r \in Relays : e \in batch[r]

(* 0 while e may be claimed, 1 once it is claimed or published. *)
Taken(e) == IF e \in leased \cup published THEN 1 ELSE 0

(* The copies of e there are, and those that will come without a new claim. *)
Budget(e) == copies[e] + Cardinality(Pending(e))

(* A claim is paid for by the lease it takes, and a lease is given back only  *)
(* by an expiry.  An expiry costs a fault as well, unless the relay that held *)
(* the event dropped it, which it does unpublished or with a fault.  The      *)
(* second count is needed because expiries stops at MaxFaults.                *)
Paid(e) ==
    /\ IsFiniteSet(Pending(e))
    /\ expiries[e] < MaxFaults => Budget(e) <= expiries[e] + Taken(e)
    /\ Budget(e) <= faults + Taken(e)
    /\ e \in leased /\ ~Held(e) => copies[e] <= faults

PaidInv == \A e \in Events : Paid(e)

(* Numbers of copies and of relays. *)
LEMMA PaidNumbers ==
    ASSUME IInv, NEW e \in Events, Paid(e)
    PROVE  /\ copies[e] \in Nat /\ faults \in Nat /\ MaxFaults \in Nat
           /\ expiries[e] \in Nat /\ expiries[e] <= MaxFaults /\ faults <= MaxFaults
           /\ Cardinality(Pending(e)) \in Nat
           /\ Taken(e) \in {0, 1}
           /\ Pending(e) # {} => Cardinality(Pending(e)) >= 1
           /\ copies[e] <= faults + 1
           /\ Pending(e) # {} => copies[e] <= faults
  <1>1. /\ copies[e] \in Nat /\ faults \in Nat /\ MaxFaults \in Nat
        /\ expiries[e] \in Nat /\ expiries[e] <= MaxFaults /\ faults <= MaxFaults
    BY RelayConstants DEF IInv, TypeOK
  <1>2. /\ IsFiniteSet(Pending(e))
        /\ Budget(e) <= faults + Taken(e)
    BY DEF Paid
  <1>3. Cardinality(Pending(e)) \in Nat
    BY <1>2, FS_CardinalityType
  <1>4. Pending(e) # {} => Cardinality(Pending(e)) # 0
    BY <1>2, FS_EmptySet
  <1>5. Taken(e) \in {0, 1}
    BY DEF Taken
  <1> QED BY <1>1, <1>2, <1>3, <1>4, <1>5 DEF Budget

(* A set that loses elements has no more of them. *)
LEMMA Fewer ==
    ASSUME NEW S, IsFiniteSet(S), NEW T, T \subseteq S
    PROVE  /\ IsFiniteSet(T)
           /\ Cardinality(T) \in Nat
           /\ Cardinality(T) <= Cardinality(S)
           /\ \A x \in S \ T : Cardinality(T) + 1 <= Cardinality(S)
  <1>1. IsFiniteSet(T) /\ Cardinality(T) <= Cardinality(S)
    BY FS_Subset
  <1>2. Cardinality(T) \in Nat
    BY <1>1, FS_CardinalityType
  <1>3. ASSUME NEW x \in S \ T
        PROVE  Cardinality(T) + 1 <= Cardinality(S)
    <2>1. IsFiniteSet(T \cup {x}) /\ Cardinality(T \cup {x}) = Cardinality(T) + 1
      BY <1>1, FS_AddElement
    <2>2. T \cup {x} \in SUBSET S
      OBVIOUS
    <2>3. Cardinality(T \cup {x}) <= Cardinality(S)
      BY <2>2, FS_Subset
    <2> QED BY <2>1, <2>3
  <1> QED BY <1>1, <1>2, <1>3

(* A step that does not claim e, nor end its lease, keeps its account: a      *)
(* publication is one of those that were to come.                             *)
LEMMA KeepsAccount ==
    ASSUME IInv, IInv', NEW e \in Events, Paid(e), Pending(e)' \subseteq Pending(e),
           \/ copies'[e] = copies[e]
           \/ /\ copies'[e] = copies[e] + 1
              /\ \E r \in Pending(e) : r \notin Pending(e)',
           Taken(e)' >= Taken(e), expiries'[e] = expiries[e], faults' >= faults,
           e \in leased' /\ ~Held(e)' => copies'[e] <= faults'
    PROVE  Paid(e)'
  <1>1. /\ IsFiniteSet(Pending(e)')
        /\ Cardinality(Pending(e)') \in Nat
        /\ Cardinality(Pending(e)') <= Cardinality(Pending(e))
        /\ \A r \in Pending(e) : r \notin Pending(e)'
              => Cardinality(Pending(e)') + 1 <= Cardinality(Pending(e))
    BY Fewer DEF Paid
  <1>2. /\ copies[e] \in Nat /\ faults \in Nat /\ expiries[e] \in Nat
        /\ Cardinality(Pending(e)) \in Nat /\ Taken(e) \in {0, 1}
    BY PaidNumbers
  <1>3. faults' \in Nat /\ Taken(e)' \in {0, 1}
    BY DEF IInv, TypeOK, Taken
  <1>4. /\ expiries[e] < MaxFaults => Budget(e) <= expiries[e] + Taken(e)
        /\ Budget(e) <= faults + Taken(e)
    BY DEF Paid
  <1>5. Budget(e)' <= Budget(e) /\ Budget(e)' \in Nat /\ Budget(e) \in Nat
    BY <1>1, <1>2 DEF Budget
  <1> QED BY <1>1, <1>2, <1>3, <1>4, <1>5 DEF Paid

(* A relay that drops its batch drops e unpublished, or there was a fault. *)
LEMMA AbortKeepsAccount ==
    ASSUME IInv, IInv', NEW r \in Relays, Abort(r), NEW e \in Events, Paid(e),
           UNCHANGED <<copies, leased, published, expiries>>, faults' >= faults,
           e \in leased => faults' = faults + 1 \/ marking[r] # e
    PROVE  Paid(e)'
  <1>1. /\ batch' = [batch EXCEPT ![r] = {}]
        /\ marking' = [marking EXCEPT ![r] = 0]
        /\ DOMAIN batch = Relays /\ DOMAIN marking = Relays
    BY DEF Abort, IInv, TypeOK
  <1>2. Pending(e)' \subseteq Pending(e)
    BY <1>1 DEF Pending
  <1>3. Taken(e)' = Taken(e) /\ Taken(e) \in {0, 1}
    BY DEF Taken
  <1>4. /\ copies[e] \in Nat /\ faults \in Nat /\ faults' \in Nat
        /\ copies[e] <= faults + 1
        /\ Pending(e) # {} => copies[e] <= faults
    BY PaidNumbers DEF IInv, TypeOK
  <1>5. ASSUME e \in leased', ~Held(e)'
        PROVE  copies'[e] <= faults'
    <2>1. CASE ~Held(e)
      <3>1. copies[e] <= faults
        BY <1>5, <2>1 DEF Paid
      <3> QED BY <1>4, <3>1
    <2>2. CASE Held(e)
      <3>1. e \in batch[r]
        BY <1>1, <1>5, <2>2 DEF Held
      <3>2. marking[r] # e => Pending(e) # {}
        BY <3>1 DEF Pending
      <3> QED BY <1>4, <1>5, <3>2
    <2> QED BY <2>1, <2>2
  <1> QED BY <1>2, <1>3, <1>5, KeepsAccount

(* PendingOutboxEvents: every claim takes a lease. *)
LEMMA ClaimIsPaid ==
    ASSUME IInv, IInv', NEW r \in Relays, PendingOutboxEvents(r),
           NEW e \in Events, Paid(e)
    PROVE  Paid(e)'
  <1> DEFINE S == Oldest(Claimable, BatchSize)
  <1>1. /\ batch[r] = {}
        /\ batch' = [batch EXCEPT ![r] = S]
        /\ leased' = leased \cup S
        /\ UNCHANGED <<published, marking, copies, expiries, faults>>
        /\ S \subseteq committed \ (published \cup leased)
        /\ DOMAIN batch = Relays
    BY DEF PendingOutboxEvents, Oldest, Claimable, IInv, TypeOK
  <1>2. marking[r] = 0 /\ e # 0
    BY <1>1, RelayConstants DEF IInv, TypeOK, Events
  <1> HIDE DEF S
  <1>3. faults \in Nat
    BY DEF IInv, TypeOK
  <1>4. CASE e \notin S
    <2>1. Pending(e)' \subseteq Pending(e)
      BY <1>1, <1>4 DEF Pending
    <2>2. Taken(e)' = Taken(e) /\ Taken(e) \in {0, 1}
      BY <1>1, <1>4 DEF Taken
    <2>3. e \in leased' /\ ~Held(e)' => copies'[e] <= faults'
      <3>1. Held(e) => Held(e)'
        BY <1>1 DEF Held
      <3> QED BY <1>1, <1>4, <3>1 DEF Paid
    <2> QED BY <1>1, <1>3, <2>1, <2>2, <2>3, KeepsAccount
  <1>5. CASE e \in S
    <2>1. Pending(e)' = Pending(e) \cup {r}
      BY <1>1, <1>2, <1>5 DEF Pending
    <2>2. Taken(e) = 0 /\ Taken(e)' = 1
      BY <1>1, <1>5 DEF Taken
    <2>3. Held(e)'
      BY <1>1, <1>5 DEF Held
    <2>4. /\ IsFiniteSet(Pending(e)')
          /\ Cardinality(Pending(e)') \in Nat
          /\ Cardinality(Pending(e)') <= Cardinality(Pending(e)) + 1
      <3>1. IsFiniteSet(Pending(e)) /\ Cardinality(Pending(e)) \in Nat
        BY PaidNumbers DEF Paid
      <3>2. /\ IsFiniteSet(Pending(e) \cup {r})
            /\ Cardinality(Pending(e) \cup {r})
                  = IF r \in Pending(e) THEN Cardinality(Pending(e))
                                        ELSE Cardinality(Pending(e)) + 1
        BY <3>1, FS_AddElement, ZenonT(40)
      <3> QED BY <2>1, <3>1, <3>2
    <2>5. /\ copies[e] \in Nat /\ expiries[e] \in Nat
          /\ Cardinality(Pending(e)) \in Nat
      BY PaidNumbers
    <2>6. /\ expiries[e] < MaxFaults => Budget(e) <= expiries[e]
          /\ Budget(e) <= faults
      BY <1>3, <2>2, <2>5 DEF Paid, Budget
    <2>7. /\ expiries[e] < MaxFaults => Budget(e)' <= expiries[e] + 1
          /\ Budget(e)' <= faults + 1
      BY <1>1, <1>3, <2>4, <2>5, <2>6 DEF Budget
    <2> QED BY <1>1, <2>2, <2>3, <2>4, <2>7 DEF Paid
  <1> QED BY <1>4, <1>5

(* The lease of e passes to nobody: its expiry is counted, and so is a fault  *)
(* if a relay was still working on e.                                         *)
LEMMA ExpiryIsPaid ==
    ASSUME IInv, IInv', NEW e \in Events, LeaseExpires(e), Paid(e)
    PROVE  Paid(e)'
  <1>1. /\ e \in leased /\ e \notin published
        /\ leased' = leased \ {e}
        /\ expiries'[e] = IF expiries[e] < MaxFaults THEN expiries[e] + 1 ELSE expiries[e]
        /\ UNCHANGED <<published, batch, marking, copies>>
    BY DEF LeaseExpires, IInv, TypeOK
  <1>2. faults' = IF Held(e) THEN faults + 1 ELSE faults
    BY DEF LeaseExpires, Fault, Held
  <1>3. Pending(e)' = Pending(e)
    BY <1>1 DEF Pending
  <1>4. Taken(e) = 1 /\ Taken(e)' = 0 /\ e \notin leased'
    BY <1>1 DEF Taken
  <1>5. /\ copies[e] \in Nat /\ faults \in Nat /\ MaxFaults \in Nat
        /\ expiries[e] \in Nat /\ expiries[e] <= MaxFaults
        /\ Cardinality(Pending(e)) \in Nat
    BY PaidNumbers
  <1>6. Budget(e)' = Budget(e) /\ Budget(e) \in Nat
    BY <1>1, <1>3, <1>5 DEF Budget
  <1>7. /\ IsFiniteSet(Pending(e))
        /\ expiries[e] < MaxFaults => Budget(e) <= expiries[e] + 1
        /\ Budget(e) <= faults + 1
        /\ ~Held(e) => copies[e] <= faults
    BY <1>1, <1>4 DEF Paid
  <1>8. ~Held(e) => Budget(e) <= faults
    <2>1. ~Held(e) => Pending(e) = {}
      BY DEF Held, Pending
    <2> QED BY <1>5, <1>7, <2>1, FS_EmptySet DEF Budget
  <1>9. expiries'[e] < MaxFaults => Budget(e)' <= expiries'[e] + Taken(e)'
    BY <1>1, <1>4, <1>5, <1>6, <1>7
  <1>10. Budget(e)' <= faults' + Taken(e)'
    BY <1>2, <1>4, <1>5, <1>6, <1>7, <1>8
  <1> QED BY <1>3, <1>4, <1>7, <1>9, <1>10 DEF Paid

(* A publication of e is one of those that were to come. *)
LEMMA PublicationIsPaid ==
    ASSUME IInv, IInv', NEW r \in Relays, NEW f \in Events,
           PublishConfirmed(r, f) \/ PublishUnconfirmed(r, f),
           NEW e \in Events, Paid(e)
    PROVE  Paid(e)'
  <1>1. /\ f \in batch[r] /\ marking[r] = 0 /\ f # 0 /\ e # 0
        /\ copies' = [copies EXCEPT ![f] = @ + 1]
        /\ UNCHANGED <<leased, published, expiries>>
        /\ DOMAIN copies = Events /\ DOMAIN batch = Relays /\ DOMAIN marking = Relays
        /\ copies[e] \in Nat /\ faults \in Nat
    <2>1. f # 0 /\ e # 0
      BY RelayConstants DEF Events
    <2>2. /\ DOMAIN copies = Events /\ DOMAIN batch = Relays /\ DOMAIN marking = Relays
          /\ copies[e] \in Nat /\ faults \in Nat
      BY SMTT(30) DEF IInv, TypeOK
    <2> QED BY <2>1, <2>2, Zenon DEF PublishConfirmed, PublishUnconfirmed
  <1>2. \/ /\ marking' = [marking EXCEPT ![r] = f]
           /\ UNCHANGED <<batch, faults>>
        \/ Abort(r) /\ faults' = faults + 1
    BY DEF PublishConfirmed, PublishUnconfirmed, Fault
  <1>3. Taken(e)' = Taken(e) /\ Taken(e) \in {0, 1}
    BY <1>1 DEF Taken
  <1>4. Pending(e)' \subseteq Pending(e)
    BY <1>1, <1>2 DEF Pending, Abort
  <1>5. CASE e = f
    <2>1. /\ copies'[e] = copies[e] + 1
          /\ r \in Pending(e) /\ r \notin Pending(e)'
      BY <1>1, <1>2, <1>5 DEF Pending, Abort
    <2>2. copies[e] <= faults
      BY <2>1, PaidNumbers
    <2>3. e \in leased' /\ ~Held(e)' => copies'[e] <= faults'
      BY <1>1, <1>2, <1>5, <2>1, <2>2 DEF Held
    <2>4. faults' >= faults
      BY <1>1, <1>2
    <2> QED BY <1>1, <1>3, <1>4, <2>1, <2>3, <2>4, KeepsAccount
  <1>6. CASE e # f
    <2>1. copies'[e] = copies[e]
      BY <1>1, <1>6
    <2>2. faults' >= faults
      BY <1>1, <1>2
    <2>3. e \in leased' /\ ~Held(e)' => copies'[e] <= faults'
      <3>1. copies[e] <= faults + 1 /\ (e \in leased /\ ~Held(e) => copies[e] <= faults)
        BY PaidNumbers DEF Paid
      <3>2. CASE batch' = batch
        BY <1>1, <2>1, <2>2, <3>1, <3>2 DEF Held, IInv, TypeOK
      <3>3. CASE faults' = faults + 1
        BY <2>1, <3>1, <3>3
      <3> QED BY <1>2, <3>2, <3>3
    <2> QED BY <1>1, <1>3, <1>4, <2>1, <2>2, <2>3, KeepsAccount
  <1> QED BY <1>5, <1>6

(* MarkOutboxPublished drops nothing but what it marks, or a batch whose      *)
(* other events are unpublished.                                              *)
LEMMA MarkIsPaid ==
    ASSUME IInv, IInv', NEW r \in Relays, MarkOutboxPublished(r),
           NEW e \in Events, Paid(e)
    PROVE  Paid(e)'
  <1>1. faults' = faults /\ faults \in Nat /\ UNCHANGED <<copies, expiries>>
    BY DEF MarkOutboxPublished, IInv, TypeOK
  <1>2. CASE marking[r] \in published
    <2>1. Abort(r) /\ UNCHANGED <<published, leased>>
      BY <1>2 DEF MarkOutboxPublished
    <2>2. e \in leased => marking[r] # e
      BY <1>2 DEF IInv, TypeOK
    <2> QED BY <1>1, <2>1, <2>2, AbortKeepsAccount
  <1>3. CASE marking[r] \notin published
    <2> DEFINE f == marking[r]
    <2>1. /\ published' = published \cup {f}
          /\ leased' = leased \ {f}
          /\ batch' = [batch EXCEPT ![r] = @ \ {f}]
          /\ marking' = [marking EXCEPT ![r] = 0]
          /\ DOMAIN batch = Relays /\ DOMAIN marking = Relays
      BY <1>3 DEF MarkOutboxPublished, IInv, TypeOK
    <2> HIDE DEF f
    <2>2. Pending(e)' \subseteq Pending(e)
      <3>1. marking[r] = f
        BY DEF f
      <3> QED BY <2>1, <3>1 DEF Pending
    <2>3. Taken(e)' >= Taken(e)
      BY <2>1 DEF Taken
    <2>4. e \in leased' /\ ~Held(e)' => e \in leased /\ ~Held(e)
      BY <2>1 DEF Held
    <2>5. e \in leased' /\ ~Held(e)' => copies'[e] <= faults'
      BY <1>1, <2>4 DEF Paid
    <2> QED BY <1>1, <2>2, <2>3, <2>5, KeepsAccount
  <1> QED BY <1>2, <1>3

(* Every step keeps every account. *)
LEMMA StepKeepsPaid ==
    ASSUME IInv, PaidInv, [Next]_vars
    PROVE  PaidInv'
  <1>0. IInv' /\ faults \in Nat
    BY StepKeepsIInv DEF IInv, TypeOK
  <1> SUFFICES ASSUME NEW e \in Events
               PROVE  Paid(e)'
    BY DEF PaidInv
  <1>1. Paid(e)
    BY DEF PaidInv
  <1>2. ASSUME UNCHANGED <<published, leased, batch, marking, copies>>,
               expiries'[e] = expiries[e], faults' >= faults
        PROVE  Paid(e)'
    <2>1. /\ Pending(e)' \subseteq Pending(e)
          /\ Taken(e)' = Taken(e) /\ Taken(e) \in {0, 1}
          /\ Held(e)' <=> Held(e)
      BY <1>2 DEF Pending, Taken, Held
    <2>2. e \in leased /\ ~Held(e) => copies[e] <= faults'
      <3>1. e \in leased /\ ~Held(e) => copies[e] <= faults
        BY <1>1 DEF Paid
      <3>2. copies[e] \in Nat /\ faults' \in Nat
        BY <1>0 DEF IInv, TypeOK
      <3> QED BY <1>0, <1>2, <3>1, <3>2
    <2> QED BY <1>0, <1>1, <1>2, <2>1, <2>2, KeepsAccount
  <1>3. CASE UNCHANGED vars
    BY <1>0, <1>2, <1>3 DEF vars
  <1>4. ASSUME NEW f \in Events, Commit(f)
        PROVE  Paid(e)'
    BY <1>0, <1>2, <1>4 DEF Commit
  <1>5. ASSUME NEW r \in Relays, Disconnect(r)
        PROVE  Paid(e)'
    BY <1>0, <1>2, <1>5 DEF Disconnect, Fault
  <1>6. ASSUME NEW f \in Events, LeaseExpires(f)
        PROVE  Paid(e)'
    <2>1. CASE e = f
      BY <1>0, <1>1, <1>6, <2>1, ExpiryIsPaid
    <2>2. CASE e # f
      <3>1. /\ UNCHANGED <<published, batch, marking, copies>>
            /\ leased' = leased \ {f} /\ expiries'[e] = expiries[e] /\ faults' >= faults
        BY <1>0, <1>6, <2>2 DEF LeaseExpires, Fault, IInv, TypeOK
      <3>2. /\ Pending(e)' \subseteq Pending(e)
            /\ Taken(e)' = Taken(e) /\ Taken(e) \in {0, 1}
            /\ Held(e)' <=> Held(e)
            /\ e \in leased' => e \in leased
        BY <2>2, <3>1 DEF Pending, Taken, Held
      <3>3. e \in leased' /\ ~Held(e)' => copies'[e] <= faults'
        <4>1. e \in leased /\ ~Held(e) => copies[e] <= faults
          BY <1>1 DEF Paid
        <4>2. copies[e] \in Nat /\ faults' \in Nat
          BY <1>0 DEF IInv, TypeOK
        <4> QED BY <1>0, <3>1, <3>2, <4>1, <4>2
      <3> QED BY <1>0, <1>1, <3>1, <3>2, <3>3, KeepsAccount
    <2> QED BY <2>1, <2>2
  <1>7. ASSUME NEW r \in Relays, PendingOutboxEvents(r)
        PROVE  Paid(e)'
    BY <1>0, <1>1, <1>7, ClaimIsPaid
  <1>8. ASSUME NEW r \in Relays, MarkOutboxPublished(r)
        PROVE  Paid(e)'
    BY <1>0, <1>1, <1>8, MarkIsPaid
  <1>9. ASSUME NEW r \in Relays, NEW f \in Events,
               PublishConfirmed(r, f) \/ PublishUnconfirmed(r, f)
        PROVE  Paid(e)'
    BY <1>0, <1>1, <1>9, PublicationIsPaid
  <1>10. ASSUME NEW r \in Relays,
                MarkFails(r) \/ Restart(r) \/ \E f \in Events : PublishFailed(r, f)
         PROVE  Paid(e)'
    <2>1. /\ Abort(r)
          /\ UNCHANGED <<copies, leased, published, expiries>>
          /\ faults' >= faults
          /\ faults' = faults + 1 \/ marking[r] = 0
      BY <1>0, <1>10 DEF MarkFails, Restart, PublishFailed, Fault
    <2>2. e # 0
      BY RelayConstants DEF Events
    <2> QED BY <1>0, <1>1, <2>1, <2>2, AbortKeepsAccount
  <1> QED BY <1>3, <1>4, <1>5, <1>6, <1>7, <1>8, <1>9, <1>10 DEF Next, RelayStep

(* Nothing is owed at the start. *)
LEMMA InitPaid ==
    ASSUME Init
    PROVE  PaidInv
  <1> SUFFICES ASSUME NEW e \in Events
               PROVE  Paid(e)
    BY DEF PaidInv
  <1>1. Pending(e) = {} /\ copies[e] = 0 /\ expiries[e] = 0 /\ faults = 0
        /\ Taken(e) = 0 /\ e \notin leased
    BY DEF Init, Pending, Taken
  <1>2. IsFiniteSet(Pending(e)) /\ Cardinality(Pending(e)) = 0
    BY <1>1, FS_EmptySet
  <1> QED BY <1>1, <1>2 DEF Paid, Budget

(* Every extra copy of an event costs an expired lease, for any number of     *)
(* relays, batches and faults.                                                *)
THEOREM DuplicatesArePaid == Spec => []DuplicatesNeedExpiry
  <1>1. IInv /\ PaidInv => DuplicatesNeedExpiry
    <2> SUFFICES ASSUME IInv, PaidInv, NEW e \in Events
                 PROVE  copies[e] <= 1 + expiries[e]
      BY DEF DuplicatesNeedExpiry
    <2>1. Paid(e)
      BY DEF PaidInv
    <2>2. /\ copies[e] \in Nat /\ faults \in Nat /\ MaxFaults \in Nat
          /\ expiries[e] \in Nat /\ expiries[e] <= MaxFaults /\ faults <= MaxFaults
          /\ Cardinality(Pending(e)) \in Nat /\ Taken(e) \in {0, 1}
      BY <2>1, PaidNumbers
    <2>3. /\ expiries[e] < MaxFaults => Budget(e) <= expiries[e] + Taken(e)
          /\ Budget(e) <= faults + Taken(e)
      BY <2>1 DEF Paid
    <2> QED BY <2>2, <2>3 DEF Budget
  <1> QED BY <1>1, InitPaid, StepKeepsPaid, InductiveInvariant, PTL DEF Spec
=============================================================================
