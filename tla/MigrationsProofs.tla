-------------------------- MODULE MigrationsProofs --------------------------
(***************************************************************************)
(* Proofs about Migrations for any processes, releases and number of exits: *)
(* the schema grows in version order, repetitions follow breaks, and a       *)
(* process that serves has its schema.                                       *)
(*                                                                         *)
(* The inductive invariant says, next to TypeOK, what the one session that   *)
(* holds the lock knows about the tables: every version before its own is     *)
(* recorded, the one it is about to apply is not, and the one it is about to   *)
(* record is the newest body.                                                 *)
(***************************************************************************)
EXTENDS Migrations, TLAPS

Schema ==
    /\ SchemaInOrder
    /\ \A v \in 1..Top : \E i \in 1..Len(ran) : ran[i] = v

(* What a session at place c of version v relies on. *)
Knows(c, v) ==
    /\ 1 <= v
    /\ 1..(v - 1) \subseteq recorded
    /\ c = "apply" => v \notin recorded
    /\ c = "record" => v = Top /\ v \notin recorded

Sessions ==
    /\ \A p \in Processes : lock = p => Knows(pc[p], version[p])
    /\ lock = Orphan => Knows(orphan.pc, orphan.version)

Done ==
    \A p \in Processes :
        /\ pc[p] = "unlock" => Release[p] < version[p]
        /\ pc[p] = "serving" => 1..Release[p] \subseteq recorded

AtRecord ==
    \/ \E p \in Processes : pc[p] = "record"
    \/ orphan.pc = "record"

(* An unrecorded body that no session is about to record has paid ahead. *)
Breaks ==
    /\ Len(ran) <= Top + broken
    /\ Top > 0 /\ Top \notin recorded /\ ~AtRecord => Len(ran) < Top + broken

IInv == TypeOK /\ Schema /\ Sessions /\ Done /\ Breaks

-----------------------------------------------------------------------------

(* An empty schema, and nobody has the lock. *)
LEMMA InitIInv == Init => IInv
<1> SUFFICES ASSUME Init PROVE IInv
  OBVIOUS
<1> USE DEF Init
<1>1. ran = <<>> /\ Len(ran) = 0 /\ Top = 0 /\ recorded = {}
  BY DEF Top
<1>2. 1..0 = {} /\ 1..(0 - 1) = {}
  OBVIOUS
<1>3. TypeOK
  <2>1. ran \in Seq(Nat)
    OBVIOUS
  <2> QED BY <2>1, MigrationConstants DEF TypeOK, Places, Idle
<1>4. Schema
  BY <1>1, <1>2 DEF Schema, SchemaInOrder
<1>5. Sessions
  BY MigrationConstants DEF Sessions
<1>6. Done
  BY Zenon DEF Done
<1>7. Breaks
  BY <1>1 DEF Breaks
<1> QED BY <1>3, <1>4, <1>5, <1>6, <1>7 DEF IInv

(* Top is a version. *)
LEMMA TopIsNat == ASSUME ran \in Seq(Nat) PROVE Top \in Nat
<1>1. CASE ran = <<>>
  BY <1>1 DEF Top
<1>2. CASE ran # <<>>
  BY <1>2 DEF Top
<1> QED BY <1>1, <1>2

(* A body that its session knows to be next takes effect. *)
LEMMA BodyTakesEffect ==
  ASSUME TypeOK, Schema, NEW v \in Nat, Knows("apply", v),
         ran' = Append(ran, v), recorded' = recorded
  PROVE  /\ Schema'
         /\ ran' \in Seq(Nat)
         /\ Top' = v /\ Len(ran') = Len(ran) + 1
         /\ Top \in {v - 1, v}
<1>1. ran \in Seq(Nat) /\ Len(ran) \in Nat /\ Top \in Nat /\ recorded \subseteq Nat
  BY TopIsNat DEF TypeOK
<1>2. /\ ran' \in Seq(Nat)
      /\ Len(ran') = Len(ran) + 1
      /\ ran'[Len(ran) + 1] = v
      /\ \A i \in 1..Len(ran) : ran'[i] = ran[i]
  BY <1>1
<1>3. Top' = v
  BY <1>1, <1>2 DEF Top
<1>4. v \in Nat /\ 1 <= v /\ 1..(v - 1) \subseteq recorded /\ v \notin recorded
  BY DEF Knows
<1>5. recorded \in {1..Top, 1..(Top - 1)}
  BY DEF Schema, SchemaInOrder
<1>6. recorded = 1..(v - 1) /\ Top \in {v - 1, v}
  <2>1. ASSUME NEW n \in Int, recorded = 1..n, -1 <= n PROVE 1..n = 1..(v - 1) /\ (n = v - 1 \/ (n < 1 /\ v = 1))
    <3>1. v > n
      BY <1>4, <2>1
    <3>2. CASE v = 1
      BY <3>1, <3>2
    <3>3. CASE v > 1
      <4>1. v - 1 \in 1..(v - 1)
        BY <1>4, <3>3
      <4>2. v - 1 <= n
        BY <4>1, <1>4, <2>1
      <4> QED BY <4>2, <3>1, <1>4
    <3> QED BY <3>2, <3>3, <1>4
  <2>2. CASE recorded = 1..Top
    BY <2>1, <2>2, <1>1, <1>4
  <2>3. CASE recorded = 1..(Top - 1)
    BY <2>1, <2>3, <1>1, <1>4, SMTT(30)
  <2> QED BY <2>2, <2>3, <1>5
<1>7. SchemaInOrder'
  <2>1. recorded' \in {1..Top', 1..(Top' - 1)}
    BY <1>3, <1>6
  <2>2. ASSUME NEW i \in 1..Len(ran')
        PROVE IF i = 1 THEN ran'[i] = 1 ELSE ran'[i] \in {ran'[i-1], ran'[i-1] + 1}
    <3>1. CASE i \in 1..Len(ran)
      <4>1. i = 1 => ran[i] = 1
        BY <3>1 DEF Schema, SchemaInOrder
      <4>2. i # 1 => ran[i] \in {ran[i-1], ran[i-1] + 1} /\ i - 1 \in 1..Len(ran)
        BY <3>1, <1>1 DEF Schema, SchemaInOrder
      <4> QED BY <4>1, <4>2, <3>1, <1>2
    <3>2. CASE i = Len(ran) + 1
      <4>1. CASE ran = <<>>
        <5>1. Top = 0 /\ Len(ran) = 0
          BY <4>1 DEF Top
        <5> QED BY <5>1, <3>2, <1>2, <1>4, <1>6
      <4>2. CASE ran # <<>>
        <5>1. Len(ran) \in 1..Len(ran) /\ Top = ran[Len(ran)] /\ i # 1
          BY <4>2, <3>2, <1>1 DEF Top
        <5>2. ran'[i - 1] = Top /\ ran'[i] = v
          BY <5>1, <3>2, <1>1, <1>2
        <5> QED BY <5>1, <5>2, <1>6, <1>1, SMTT(30)
      <4> QED BY <4>1, <4>2
    <3> QED BY <3>1, <3>2, <1>1, <1>2
  <2> QED BY <2>1, <2>2 DEF SchemaInOrder
<1>8. ASSUME NEW w \in 1..Top' PROVE \E i \in 1..Len(ran') : ran'[i] = w
  <2>1. CASE w = v
    BY <2>1, <1>1, <1>2
  <2>2. CASE w # v
    <3>1. w \in 1..Top
      BY <2>2, <1>3, <1>6, <1>1, <1>4
    <3>2. PICK i \in 1..Len(ran) : ran[i] = w
      BY <3>1 DEF Schema
    <3> QED BY <3>2, <1>1, <1>2
  <2> QED BY <2>1, <2>2
<1> QED BY <1>2, <1>3, <1>6, <1>7, <1>8, Zenon DEF Schema

(* A version that its session knows to be the newest body is recorded. *)
LEMMA RowIsWritten ==
  ASSUME TypeOK, Schema, NEW v \in Nat, Knows("record", v),
         ran' = ran, recorded' = recorded \cup {v}
  PROVE  Schema' /\ Top' = Top /\ recorded' = 1..v /\ v = Top
<1>1. Top' = Top
  BY DEF Top
<1>2. Top \in Nat
  BY TopIsNat DEF TypeOK
<1>3. v = Top /\ 1 <= v /\ v \notin recorded
  BY DEF Knows
<1>4. recorded = 1..(Top - 1)
  BY <1>2, <1>3 DEF Schema, SchemaInOrder
<1>5. recorded' = 1..Top
  BY <1>2, <1>3, <1>4
<1> QED BY <1>1, <1>3, <1>5 DEF Schema, SchemaInOrder

-----------------------------------------------------------------------------

(* A session that gets the lock starts at the first version. *)
LEMMA LockStep ==
  ASSUME IInv, NEW p \in Processes, Lock(p) PROVE IInv'
<1> USE DEF IInv
<1>1. Top' = Top /\ ran' = ran /\ recorded' = recorded /\ broken' = broken
  BY DEF Lock, Top
<1>2. TypeOK'
  BY MigrationConstants DEF TypeOK, Lock, Goto, Places
<1>3. Schema'
  BY <1>1 DEF Schema, SchemaInOrder
<1>4. Sessions'
  <2>1. 1..(1 - 1) = {}
    OBVIOUS
  <2>2. lock' = p /\ p # Orphan /\ pc'[p] = "check" /\ version'[p] = 1
    BY MigrationConstants DEF TypeOK, Lock, Goto
  <2>3. Knows("check", 1)'
    BY <2>1 DEF Knows
  <2> QED BY <2>2, <2>3 DEF Sessions, Knows
<1>5. Done'
  BY <1>1 DEF Done, Lock, Goto, TypeOK
<1>6. AtRecord' <=> AtRecord
  BY DEF AtRecord, Lock, Goto, TypeOK
<1> QED BY <1>1, <1>2, <1>3, <1>4, <1>5, <1>6 DEF Breaks

(* A recorded version is skipped, the first other one is applied. *)
LEMMA CheckStep ==
  ASSUME IInv, NEW p \in Processes, Check(p) PROVE IInv'
<1> USE DEF IInv
<1>1. /\ Top' = Top /\ ran' = ran /\ recorded' = recorded /\ broken' = broken
      /\ lock' = lock /\ orphan' = orphan /\ exits' = exits
  BY DEF Check, Top
<1>2. lock = p /\ p # Orphan /\ version[p] \in Nat /\ Release[p] \in Nat
  BY MigrationConstants DEF TypeOK, Check
<1>3. /\ pc' = [pc EXCEPT ![p] = pc'[p]]
      /\ version' = [version EXCEPT ![p] = version'[p]]
      /\ \/ pc'[p] = "unlock" /\ version'[p] = version[p] /\ Release[p] < version[p]
         \/ pc'[p] = "check" /\ version'[p] = version[p] + 1 /\ version[p] \in recorded
         \/ pc'[p] = "apply" /\ version'[p] = version[p] /\ version[p] \notin recorded
  BY <1>2 DEF TypeOK, Check, Goto, MigrationApplied
<1>4. TypeOK'
  <2>1. pc' \in [Processes -> Places] /\ version' \in [Processes -> Nat]
    <3>1. pc'[p] \in Places /\ version'[p] \in Nat
      BY <1>2, <1>3 DEF Places
    <3>2. pc \in [Processes -> Places] /\ version \in [Processes -> Nat]
      BY DEF TypeOK
    <3>3. pc' \in [Processes -> Places]
      BY <3>1, <3>2, <1>3
    <3>4. version' \in [Processes -> Nat]
      BY <3>1, <3>2, <1>3
    <3> QED BY <3>3, <3>4
  <2>2. \A q \in Processes :
          pc'[q] \in {"check", "apply", "record", "unlock"} <=> lock' = q
    BY <1>1, <1>2, <1>3 DEF TypeOK
  <2> QED BY <1>1, <2>1, <2>2 DEF TypeOK
<1>5. Schema'
  BY <1>1 DEF Schema, SchemaInOrder
<1>6. Sessions'
  <2>1. Knows(pc[p], version[p])
    BY <1>2 DEF Sessions
  <2>2. 1 <= version'[p] /\ 1..(version'[p] - 1) \subseteq recorded
    BY <2>1, <1>2, <1>3 DEF Knows
  <2>3. Knows(pc[p], version[p])'
    BY <2>2, <1>1, <1>3 DEF Knows
  <2> QED BY <2>3, <1>1, <1>2 DEF Sessions
<1>7. Done'
  BY <1>1, <1>3, SMTT(30) DEF Done, TypeOK
<1>8. AtRecord' <=> AtRecord
  BY <1>1, <1>3 DEF AtRecord, TypeOK, Check
<1> QED BY <1>1, <1>4, <1>5, <1>6, <1>7, <1>8 DEF Breaks

(* The holder of the lock executes the body of its version. *)
LEMMA ApplyStep ==
  ASSUME IInv, NEW p \in Processes, Apply(p) PROVE IInv'
<1> USE DEF IInv
<1>1. /\ recorded' = recorded /\ broken' = broken /\ version' = version
      /\ lock' = lock /\ orphan' = orphan /\ exits' = exits
      /\ ran' = Append(ran, version[p])
      /\ pc' = [pc EXCEPT ![p] = "record"] /\ pc[p] = "apply"
  BY DEF Apply, Goto
<1>2. lock = p /\ p # Orphan /\ version[p] \in Nat /\ Knows("apply", version[p])
  BY <1>1, MigrationConstants DEF TypeOK, Sessions
<1>3. /\ Schema' /\ ran' \in Seq(Nat) /\ Top' = version[p]
      /\ Len(ran') = Len(ran) + 1 /\ Top \in {version[p] - 1, version[p]}
  BY <1>1, <1>2, BodyTakesEffect
<1>4. TypeOK'
  BY <1>1, <1>2, <1>3 DEF TypeOK, Places
<1>5. pc'[p] = "record" /\ \A q \in Processes : q # p => pc'[q] = pc[q]
  BY <1>1 DEF TypeOK
<1>6. Sessions'
  BY <1>1, <1>2, <1>3, <1>5 DEF Sessions, Knows
<1>7. Done'
  BY <1>1, <1>5 DEF Done
<1>8. Breaks'
  <2>1. AtRecord'
    BY <1>5 DEF AtRecord
  <2>2. ~AtRecord
    BY <1>1, <1>2, MigrationConstants DEF AtRecord, TypeOK, Idle
  <2>3. Len(ran) \in Nat /\ Top \in Nat /\ broken \in Nat
    BY TopIsNat DEF TypeOK
  <2>4. CASE Top = version[p]
    <3>1. Len(ran) < Top + broken
      BY <2>2, <2>4, <1>2 DEF Breaks, Knows
    <3> QED BY <3>1, <2>1, <2>3, <2>4, <1>1, <1>3 DEF Breaks
  <2>5. CASE Top = version[p] - 1
    <3>1. Len(ran) <= Top + broken
      BY DEF Breaks
    <3> QED BY <3>1, <2>1, <2>3, <2>5, <1>1, <1>2, <1>3 DEF Breaks
  <2> QED BY <2>4, <2>5, <1>3
<1> QED BY <1>3, <1>4, <1>6, <1>7, <1>8

(* The holder of the lock records the version it has executed. *)
LEMMA RecordStep ==
  ASSUME IInv, NEW p \in Processes, Record(p) PROVE IInv'
<1> USE DEF IInv
<1>1. /\ broken' = broken /\ ran' = ran
      /\ lock' = lock /\ orphan' = orphan /\ exits' = exits
      /\ recorded' = recorded \cup {version[p]}
      /\ pc' = [pc EXCEPT ![p] = "check"] /\ pc[p] = "record"
      /\ version' = [version EXCEPT ![p] = version[p] + 1]
  BY DEF Record, Goto
<1>2. lock = p /\ p # Orphan /\ version[p] \in Nat /\ Knows("record", version[p])
  BY <1>1, MigrationConstants DEF TypeOK, Sessions
<1>3. Schema' /\ Top' = Top /\ recorded' = 1..version[p] /\ version[p] = Top
  BY <1>1, <1>2, RowIsWritten
<1>4. pc'[p] = "check" /\ version'[p] = version[p] + 1
      /\ \A q \in Processes : q # p => pc'[q] = pc[q] /\ version'[q] = version[q]
  BY <1>1 DEF TypeOK
<1>5. TypeOK'
  <2>1. pc' \in [Processes -> Places] /\ version' \in [Processes -> Nat]
    BY <1>1, <1>2 DEF TypeOK, Places
  <2>2. \A q \in Processes :
          pc'[q] \in {"check", "apply", "record", "unlock"} <=> lock' = q
    BY <1>1, <1>2, <1>4 DEF TypeOK
  <2> QED BY <2>1, <2>2, <1>1, <1>2, Zenon DEF TypeOK
<1>6. Sessions'
  <2>1. Knows(pc[p], version[p])'
    BY <1>2, <1>3, <1>4 DEF Knows
  <2> QED BY <2>1, <1>1, <1>2 DEF Sessions
<1>7. Done'
  BY <1>1, <1>4 DEF Done
<1>8. Breaks'
  <2>1. Top \in recorded'
    BY <1>1, <1>3
  <2> QED BY <2>1, <1>1, <1>3 DEF Breaks
<1> QED BY <1>3, <1>5, <1>6, <1>7, <1>8

(* A process unlocks and serves when its last version is recorded. *)
LEMMA UnlockStep ==
  ASSUME IInv, NEW p \in Processes, Unlock(p) PROVE IInv'
<1> USE DEF IInv
<1>1. /\ broken' = broken /\ ran' = ran /\ recorded' = recorded
      /\ version' = version /\ orphan' = orphan /\ exits' = exits
      /\ lock' = Free /\ Top' = Top
      /\ pc' = [pc EXCEPT ![p] = "serving"] /\ pc[p] = "unlock"
  BY DEF Unlock, Goto, Top
<1>2. lock = p /\ Knows("unlock", version[p]) /\ Release[p] < version[p]
  BY <1>1 DEF TypeOK, Sessions, Done
<1>3. pc'[p] = "serving" /\ \A q \in Processes : q # p => pc'[q] = pc[q]
  BY <1>1 DEF TypeOK
<1>4. TypeOK'
  BY <1>1, <1>2, <1>3, MigrationConstants DEF TypeOK, Places
<1>5. Schema' /\ Sessions'
  BY <1>1, MigrationConstants DEF Schema, SchemaInOrder, Sessions
<1>6. Done'
  <2>1. Release[p] \in Nat /\ version[p] \in Nat
    BY MigrationConstants DEF TypeOK
  <2>2. 1..Release[p] \subseteq 1..(version[p] - 1)
    BY <2>1, <1>2
  <2>3. 1..Release[p] \subseteq recorded
    BY <2>2, <1>2 DEF Knows
  <2> QED BY <2>3, <1>1, <1>3 DEF Done
<1>7. AtRecord' <=> AtRecord
  BY <1>1, <1>3 DEF AtRecord
<1> QED BY <1>1, <1>4, <1>5, <1>6, <1>7 DEF Breaks

(* A process that ends leaves its session behind. *)
LEMMA ExitStep ==
  ASSUME IInv, NEW p \in Processes, Exit(p) PROVE IInv'
<1> USE DEF IInv
<1>1. /\ broken' = broken /\ ran' = ran /\ recorded' = recorded
      /\ version' = version /\ Top' = Top /\ exits' = exits + 1
      /\ pc' = [pc EXCEPT ![p] = "exited"]
  BY DEF Exit, Goto, Top
<1>2. pc'[p] = "exited" /\ \A q \in Processes : q # p => pc'[q] = pc[q]
  BY <1>1 DEF TypeOK
<1>3. \/ /\ lock = p /\ lock' = Orphan /\ p # Orphan
         /\ orphan' = [pc |-> pc[p], version |-> version[p]]
      \/ lock # p /\ lock' = lock /\ orphan' = orphan
  BY MigrationConstants DEF Exit
<1>4. TypeOK'
  <2>1. pc' \in [Processes -> Places] /\ exits' \in Nat
    BY <1>1 DEF TypeOK, Places
  <2>2. orphan' \in [pc : Places, version : Nat]
    BY <1>3 DEF TypeOK
  <2>3. lock' \in Processes \cup {Free, Orphan} /\ (lock' # Orphan => orphan' = Idle)
    BY <1>3 DEF TypeOK
  <2>4. \A q \in Processes :
          pc'[q] \in {"check", "apply", "record", "unlock"} <=> lock' = q
    BY <1>2, <1>3, MigrationConstants, SMTT(30) DEF TypeOK
  <2> QED BY <1>1, <2>1, <2>2, <2>3, <2>4 DEF TypeOK, Idle
<1>5. Schema'
  BY <1>1 DEF Schema, SchemaInOrder
<1>6. Sessions'
  BY <1>1, <1>2, <1>3, MigrationConstants DEF Sessions, Knows, TypeOK
<1>7. Done'
  BY <1>1, <1>2 DEF Done
<1>8. AtRecord => AtRecord'
  <2> SUFFICES ASSUME AtRecord PROVE AtRecord'
    OBVIOUS
  <2>1. CASE pc[p] = "record"
    <3>1. orphan'.pc = "record"
      BY <2>1, <1>3 DEF TypeOK
    <3> QED BY <3>1 DEF AtRecord
  <2>2. CASE orphan.pc = "record"
    <3>1. lock = Orphan /\ p # Orphan
      BY <2>2, MigrationConstants DEF TypeOK, Idle
    <3> QED BY <3>1, <2>2, <1>3 DEF AtRecord
  <2>3. CASE \E q \in Processes : q # p /\ pc[q] = "record"
    BY <2>3, <1>2 DEF AtRecord
  <2> QED BY <2>1, <2>2, <2>3 DEF AtRecord
<1> QED BY <1>1, <1>4, <1>5, <1>6, <1>7, <1>8 DEF Breaks

(* A process that starts again knows nothing. *)
LEMMA StartStep ==
  ASSUME IInv, NEW p \in Processes, Start(p) PROVE IInv'
<1> USE DEF IInv
<1>1. /\ broken' = broken /\ ran' = ran /\ recorded' = recorded
      /\ version' = version /\ Top' = Top /\ exits' = exits
      /\ lock' = lock /\ orphan' = orphan
      /\ pc' = [pc EXCEPT ![p] = "connect"] /\ pc[p] = "exited"
  BY DEF Start, Goto, Top
<1>2. pc'[p] = "connect" /\ \A q \in Processes : q # p => pc'[q] = pc[q]
  BY <1>1 DEF TypeOK
<1>3. TypeOK'
  BY <1>1, <1>2 DEF TypeOK, Places
<1>4. Schema' /\ Done'
  BY <1>1, <1>2 DEF Schema, SchemaInOrder, Done
<1>5. Sessions'
  BY <1>1, <1>2 DEF Sessions, Knows, TypeOK
<1>6. AtRecord' <=> AtRecord
  BY <1>1, <1>2 DEF AtRecord
<1> QED BY <1>1, <1>3, <1>4, <1>5, <1>6 DEF Breaks

(* An orphaned session is the only one, so no process is at work. *)
LEMMA OrphanIsAlone ==
  ASSUME TypeOK, lock = Orphan
  PROVE  \A p \in Processes : pc[p] \notin {"check", "apply", "record", "unlock"}
BY MigrationConstants, Zenon DEF TypeOK

(* An orphaned session finishes its statement, or not, and ends. *)
LEMMA SessionStep ==
  ASSUME IInv, SessionEnds PROVE IInv'
<1> USE DEF IInv
<1>1. lock = Orphan
  BY DEF SessionEnds, SessionDropped, SessionApplies, SessionRecords, TypeOK, Idle
<1>2. /\ pc' = pc /\ version' = version /\ exits' = exits
      /\ lock' = Free /\ orphan' = Idle
  BY <1>1 DEF SessionEnds, SessionDropped, SessionApplies, SessionRecords, EndSession
<1>3. \A p \in Processes : pc[p] \notin {"check", "apply", "record", "unlock"}
  BY <1>1, OrphanIsAlone, Zenon
<1>4. Sessions'
  BY <1>2, MigrationConstants DEF Sessions
<1>5. Knows(orphan.pc, orphan.version) /\ orphan.version \in Nat /\ ~AtRecord'
  BY <1>1, <1>2, <1>3 DEF Sessions, TypeOK, AtRecord, Idle
<1>6. Len(ran) \in Nat /\ Top \in Nat /\ broken \in Nat
  BY TopIsNat DEF TypeOK
<1>7. Idle \in [pc : Places, version : Nat] /\ Free \notin Processes
  BY MigrationConstants DEF Idle, Places
<1>8. CASE SessionDropped
  <2>1. /\ ran' = ran /\ recorded' = recorded /\ Top' = Top
        /\ broken' = IF orphan.pc = "record" THEN broken + 1 ELSE broken
    BY <1>8 DEF SessionDropped, Top
  <2>2. TypeOK'
    BY <2>1, <1>2, <1>3, <1>7 DEF TypeOK
  <2>3. Schema' /\ Done'
    BY <2>1, <1>2 DEF Schema, SchemaInOrder, Done
  <2>4. CASE orphan.pc = "record"
    <3>1. Breaks'
      BY <2>1, <2>4, <1>6 DEF Breaks
    <3> QED BY <3>1, <2>2, <2>3, <1>4
  <2>5. CASE orphan.pc # "record"
    <3>1. ~AtRecord
      BY <2>5, <1>3 DEF AtRecord
    <3>2. Breaks'
      BY <3>1, <2>1, <2>5 DEF Breaks
    <3> QED BY <3>2, <2>2, <2>3, <1>4
  <2> QED BY <2>4, <2>5
<1>9. CASE SessionApplies
  <2>1. /\ ran' = Append(ran, orphan.version) /\ recorded' = recorded
        /\ broken' = broken + 1 /\ orphan.pc = "apply"
    BY <1>9 DEF SessionApplies
  <2>2. /\ Schema' /\ ran' \in Seq(Nat) /\ Top' = orphan.version
        /\ Len(ran') = Len(ran) + 1
        /\ Top \in {orphan.version - 1, orphan.version}
    BY <2>1, <1>5, BodyTakesEffect
  <2>3. TypeOK'
    BY <2>1, <2>2, <1>2, <1>3, <1>7 DEF TypeOK
  <2>4. Done'
    BY <2>1, <1>2 DEF Done
  <2>5. ~AtRecord
    BY <2>1, <1>3 DEF AtRecord
  <2>6. Breaks'
    <3>1. CASE Top = orphan.version
      <4>1. Len(ran) < Top + broken
        BY <3>1, <2>1, <2>5, <1>5 DEF Breaks, Knows
      <4> QED BY <4>1, <3>1, <2>1, <2>2, <1>6 DEF Breaks
    <3>2. CASE Top = orphan.version - 1
      <4>1. Len(ran) <= Top + broken
        BY DEF Breaks
      <4> QED BY <4>1, <3>2, <2>1, <2>2, <1>5, <1>6, SMTT(30) DEF Breaks
    <3> QED BY <3>1, <3>2, <2>2
  <2> QED BY <2>2, <2>3, <2>4, <2>6, <1>4
<1>10. CASE SessionRecords
  <2>1. /\ ran' = ran /\ recorded' = recorded \cup {orphan.version}
        /\ broken' = broken /\ orphan.pc = "record"
    BY <1>10 DEF SessionRecords
  <2>2. /\ Schema' /\ Top' = Top
        /\ recorded' = 1..orphan.version /\ orphan.version = Top
    BY <2>1, <1>5, RowIsWritten
  <2>3. TypeOK'
    BY <2>1, <1>2, <1>3, <1>5, <1>7, Zenon DEF TypeOK
  <2>4. Done'
    BY <2>1, <1>2 DEF Done
  <2>5. Breaks'
    BY <2>1, <2>2 DEF Breaks
  <2> QED BY <2>2, <2>3, <2>4, <2>5, <1>4
<1> QED BY <1>8, <1>9, <1>10 DEF SessionEnds

(* Every step of a process or session keeps the invariant. *)
LEMMA IInvStep == IInv /\ [Next]_vars => IInv'
<1> SUFFICES ASSUME IInv, [Next]_vars PROVE IInv'
  OBVIOUS
<1>1. ASSUME NEW p \in Processes, Lock(p) \/ Migrate(p) \/ Exit(p) \/ Start(p)
      PROVE IInv'
  BY <1>1, LockStep, CheckStep, ApplyStep, RecordStep, UnlockStep, ExitStep,
     StartStep DEF Migrate
<1>2. CASE SessionEnds
  BY <1>2, SessionStep
<1>3. CASE UNCHANGED vars
  BY <1>3 DEF vars, IInv, TypeOK, Schema, SchemaInOrder, Top, Sessions, Knows,
              Done, Breaks, AtRecord
<1> QED BY <1>1, <1>2, <1>3 DEF Next

(* The invariant holds in every reachable state. *)
LEMMA Invariance == Spec => []IInv
<1>1. Init => IInv
  BY InitIInv
<1>2. IInv /\ [Next]_vars => IInv'
  BY IInvStep
<1> QED BY <1>1, <1>2, PTL DEF Spec

-----------------------------------------------------------------------------

(* RunMigrations keeps the schema in version order and the rows in step with  *)
(* it, for any number of processes, releases and exits.                       *)
THEOREM SchemaStaysInOrder == Spec => []SchemaInOrder
<1>1. IInv => SchemaInOrder
  BY DEF IInv, Schema
<1> QED BY <1>1, Invariance, PTL

(* Every repetition of a body is paid for by a session that ended between the *)
(* body and its row.                                                          *)
THEOREM RepeatsAreBroken == Spec => []RepeatsFollowABreak
<1>1. IInv => RepeatsFollowABreak
  BY DEF IInv, Breaks, RepeatsFollowABreak
<1> QED BY <1>1, Invariance, PTL

(* A process that RunMigrations has let through finds the bodies of all its   *)
(* versions in effect.                                                        *)
THEOREM ServersHaveTheirSchema == Spec => []ServingHasItsSchema
<1>1. IInv => ServingHasItsSchema
  <2> SUFFICES ASSUME IInv, NEW p \in Processes, pc[p] = "serving",
                      NEW v \in 1..Release[p]
               PROVE  \E i \in 1..Len(ran) : ran[i] = v
    BY DEF ServingHasItsSchema
  <2>1. v \in recorded
    BY DEF IInv, Done
  <2>2. Top \in Nat /\ recorded \in {1..Top, 1..(Top - 1)}
    BY TopIsNat DEF IInv, TypeOK, Schema, SchemaInOrder
  <2>3. v \in 1..Top
    BY <2>1, <2>2
  <2> QED BY <2>3 DEF IInv, Schema
<1> QED BY <1>1, Invariance, PTL
=============================================================================
