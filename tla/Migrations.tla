----------------------------- MODULE Migrations -----------------------------
(***************************************************************************)
(* Schema migrations at start-up (internal/postgres/migrations.go): every   *)
(* binary calls RunMigrations before it serves, and ends on its error.      *)
(*                                                                         *)
(* One pinned connection takes pg_advisory_lock, applies the embedded        *)
(* versions it finds no row for, one autocommitted statement for the body    *)
(* and one for the row, and unlocks.  The lock belongs to the session: when   *)
(* a process ends, PostgreSQL first finishes the statement it is executing    *)
(* for it and then ends the session, lock included.  The processes may be of  *)
(* different releases, as in a rolling deployment or a rollback.              *)
(***************************************************************************)
EXTENDS Integers, Sequences

CONSTANTS
    Processes,  \* the processes that start on one database
    Release,    \* Release[p]: the versions 1..Release[p] are embedded in p
    MaxExits,   \* bound: processes that end, for whatever reason
    Free,       \* the lock: held by no session
    Orphan      \* the lock: held by the session of a process that has ended

(* A later release only adds versions behind those of an earlier one. *)
ASSUME MigrationConstants ==
    /\ Release \in [Processes -> Nat]
    /\ MaxExits \in Nat
    /\ Free \notin Processes
    /\ Orphan \notin Processes
    /\ Free # Orphan

VARIABLES
    pc,         \* where each process is
    version,    \* the version its loop is at
    lock,       \* holder of the advisory lock
    orphan,     \* what the orphaned session was executing: pc and version
    ran,        \* the bodies that took effect, in that order
    recorded,   \* the rows of schema_migrations
    exits,
    broken      \* sessions that ended between a body and its row

vars == <<pc, version, lock, orphan, ran, recorded, exits, broken>>

Places == {"connect", "check", "apply", "record", "unlock", "serving", "exited"}

Idle == [pc |-> "check", version |-> 1]

Init ==
    /\ pc = [p \in Processes |-> "connect"]
    /\ version = [p \in Processes |-> 1]
    /\ lock = Free
    /\ orphan = Idle
    /\ ran = <<>>
    /\ recorded = {}
    /\ exits = 0
    /\ broken = 0

Goto(p, place) == pc' = [pc EXCEPT ![p] = place]

(* pg_advisory_lock waits; the loop then starts at the first version. *)
Lock(p) ==
    /\ pc[p] = "connect"
    /\ lock = Free
    /\ lock' = p
    /\ Goto(p, "check")
    /\ version' = [version EXCEPT ![p] = 1]
    /\ UNCHANGED <<orphan, ran, recorded, exits, broken>>

(* Mutant: the recorded versions are not looked at. *)
MigrationAppliedNever(v) == FALSE

MigrationApplied(v) == v \in recorded

Check(p) ==
    /\ pc[p] = "check"
    /\ \/ /\ version[p] > Release[p]
          /\ Goto(p, "unlock")
          /\ UNCHANGED version
       \/ /\ version[p] <= Release[p]
          /\ MigrationApplied(version[p])
          /\ version' = [version EXCEPT ![p] = @ + 1]
          /\ UNCHANGED pc
       \/ /\ version[p] <= Release[p]
          /\ ~MigrationApplied(version[p])
          /\ Goto(p, "apply")
          /\ UNCHANGED version
    /\ UNCHANGED <<lock, orphan, ran, recorded, exits, broken>>

(* Mutant: the row is written and the body left to a later start. *)
ApplyRecordsFirst(p) ==
    /\ pc[p] = "apply"
    /\ recorded' = recorded \cup {version[p]}
    /\ Goto(p, "check")
    /\ UNCHANGED <<version, lock, orphan, ran, exits, broken>>

Apply(p) ==
    /\ pc[p] = "apply"
    /\ ran' = Append(ran, version[p])
    /\ Goto(p, "record")
    /\ UNCHANGED <<version, lock, orphan, recorded, exits, broken>>

Record(p) ==
    /\ pc[p] = "record"
    /\ recorded' = recorded \cup {version[p]}
    /\ Goto(p, "check")
    /\ version' = [version EXCEPT ![p] = @ + 1]
    /\ UNCHANGED <<lock, orphan, ran, exits, broken>>

(* Mutant: an unlock that fails is not an error. *)
UnlockMayFail(p) ==
    /\ pc[p] = "unlock"
    /\ lock' \in {lock, Free}
    /\ Goto(p, "serving")
    /\ UNCHANGED <<version, orphan, ran, recorded, exits, broken>>

Unlock(p) ==
    /\ pc[p] = "unlock"
    /\ lock' = Free
    /\ Goto(p, "serving")
    /\ UNCHANGED <<version, orphan, ran, recorded, exits, broken>>

-----------------------------------------------------------------------------
(* Every error of RunMigrations, a failed unlock and an expired context       *)
(* included, ends the process, and so does a crash.  An error after the        *)
(* statement took effect is Apply or Record followed by Exit.                  *)

(* Mutant: the statements run on other connections than the lock. *)
ExitUnlocks(p) ==
    /\ pc[p] # "exited"
    /\ exits < MaxExits
    /\ exits' = exits + 1
    /\ Goto(p, "exited")
    /\ lock' = IF lock = p THEN Free ELSE lock
    /\ orphan' = IF lock = p THEN [pc |-> pc[p], version |-> version[p]] ELSE orphan
    /\ UNCHANGED <<version, ran, recorded, broken>>

Exit(p) ==
    /\ pc[p] # "exited"
    /\ exits < MaxExits
    /\ exits' = exits + 1
    /\ Goto(p, "exited")
    /\ IF lock = p
       THEN /\ lock' = Orphan
            /\ orphan' = [pc |-> pc[p], version |-> version[p]]
       ELSE UNCHANGED <<lock, orphan>>
    /\ UNCHANGED <<version, ran, recorded, broken>>

(* PostgreSQL ends the orphaned session, and with it the lock it holds. *)
EndSession ==
    /\ lock' = IF lock = Orphan THEN Free ELSE lock
    /\ orphan' = Idle

(* The statement that was executing did not reach the server, or failed. *)
SessionDropped ==
    /\ lock = Orphan
    /\ EndSession
    /\ broken' = IF orphan.pc = "record" THEN broken + 1 ELSE broken
    /\ UNCHANGED <<pc, version, ran, recorded, exits>>

SessionApplies ==
    /\ orphan.pc = "apply"
    /\ EndSession
    /\ ran' = Append(ran, orphan.version)
    /\ broken' = broken + 1
    /\ UNCHANGED <<pc, version, recorded, exits>>

SessionRecords ==
    /\ orphan.pc = "record"
    /\ EndSession
    /\ recorded' = recorded \cup {orphan.version}
    /\ UNCHANGED <<pc, version, ran, exits, broken>>

(* The orchestrator starts an ended process again. *)
Start(p) ==
    /\ pc[p] = "exited"
    /\ Goto(p, "connect")
    /\ UNCHANGED <<version, lock, orphan, ran, recorded, exits, broken>>

-----------------------------------------------------------------------------

Migrate(p) == Check(p) \/ Apply(p) \/ Record(p) \/ Unlock(p)

SessionEnds == SessionDropped \/ SessionApplies \/ SessionRecords

Next ==
    \/ \E p \in Processes : Lock(p) \/ Migrate(p) \/ Exit(p) \/ Start(p)
    \/ SessionEnds

Spec == Init /\ [][Next]_vars

(* Statements come back, PostgreSQL notices a connection that is gone, and    *)
(* its lock queue leaves no waiter behind.                                    *)
FairSpec ==
    /\ Spec
    /\ \A p \in Processes : WF_vars(Migrate(p)) /\ SF_vars(Lock(p))
    /\ WF_vars(SessionEnds)

-----------------------------------------------------------------------------

(* At most one session is at work, and it holds the lock. *)
TypeOK ==
    /\ pc \in [Processes -> Places]
    /\ version \in [Processes -> Nat]
    /\ lock \in Processes \cup {Free, Orphan}
    /\ orphan \in [pc : Places, version : Nat]
    /\ ran \in Seq(Nat)
    /\ recorded \subseteq Nat
    /\ exits \in Nat
    /\ broken \in Nat
    /\ \A p \in Processes :
          pc[p] \in {"check", "apply", "record", "unlock"} <=> lock = p
    /\ lock # Orphan => orphan = Idle

(* The version of the newest body in effect. *)
Top == IF ran = <<>> THEN 0 ELSE ran[Len(ran)]

(* Whatever processes and releases start together and wherever they end, the  *)
(* bodies take effect in version order, one of them again only directly after *)
(* itself, and the recorded versions are those in effect, less at most the    *)
(* newest.                                                                    *)
SchemaInOrder ==
    /\ \A i \in 1..Len(ran) :
          IF i = 1 THEN ran[i] = 1 ELSE ran[i] \in {ran[i-1], ran[i-1] + 1}
    /\ recorded \in {1..Top, 1..(Top - 1)}

(* A body takes effect again only when a session has ended between the body   *)
(* and its row: each repetition costs one such end.                           *)
RepeatsFollowABreak == Len(ran) <= Top + broken

(* A process that serves finds every version of its release in effect.        *)
ServingHasItsSchema ==
    \A p \in Processes :
        pc[p] = "serving" =>
            \A v \in 1..Release[p] : \E i \in 1..Len(ran) : ran[i] = v

(* Every process that starts comes to serve or ends: no start waits for ever  *)
(* for a lock that nobody gives back.                                         *)
EveryStartEnds ==
    \A p \in Processes : pc[p] = "connect" ~> pc[p] \in {"serving", "exited"}
=============================================================================
