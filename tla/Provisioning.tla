---------------------------- MODULE Provisioning ----------------------------
(***************************************************************************)
(* One project's role, database and password, in PostgreSQL and in the     *)
(* metadata: provisioning by the provisioner's loop and by a restore job,  *)
(* password rotation and its completion by the loop, and deletion.  They   *)
(* run in different goroutines under one lock per project (RotationLock),  *)
(* except for what they write before taking it and after giving it back.   *)
(*                                                                         *)
(* Abstractions.  Projects do not share any of this state, so there is one *)
(* project.  Passwords are numbered in the order they are generated; 0 is  *)
(* none.  A call to PostgreSQL that fails, after its retries, may have     *)
(* taken effect.  The access policy is in AccessPolicy.                    *)
(***************************************************************************)
EXTENDS Integers, FiniteSets

CONSTANTS
    Requests,      \* rotate requests
    MaxFaults      \* bound: crashes and failed calls

ASSUME RequestsAssumption ==
    /\ MaxFaults \in Nat
    /\ {"loop", "worker", "free"} \cap Requests = {}

VARIABLES
    row, failed,            \* projects.stage ("absent": no row) and projects.failed
    active, pending,        \* project_secrets: the sealed and the pending password
    role, built,            \* PostgreSQL: the role's password (0: no role); Parts that are there
    sessions,               \* the passwords that live sessions logged in with
    lock,                   \* the project's RotationLock: its holder or "free"
    pc, target, mine,       \* each goroutine: its place, the stage it works on, its password
    used, faults

metadata == <<row, failed, active, pending>>
postgres == <<role, built, sessions>>
vars == <<row, failed, active, pending, role, built, sessions, lock, pc, target, mine, used, faults>>

\* Besides the role itself: that it may log in, its guardrails and its database.
Parts == {"login", "guardrails", "database"}
Provisioners == {"loop", "worker"}
Actors == Provisioners \cup Requests
Incomplete == {"identity_persisted", "role_created", "database_created"}
StageAfter == [identity_persisted |-> "role_created", role_created |-> "database_created",
               database_created |-> "ready"]

Init ==
    /\ row = "absent" /\ failed = FALSE /\ active = 0 /\ pending = 0
    /\ role = 0 /\ built = {} /\ sessions = {}
    /\ lock = "free"
    /\ \E job \in {"restore", "idle"} :    \* the project may be made for a restore job
         pc = [a \in Actors |-> IF a \in Requests THEN "new" ELSE IF a = "worker" THEN job ELSE "idle"]
    /\ target = [a \in Actors |-> "ready"] /\ mine = [a \in Actors |-> 0]
    /\ used = 0 /\ faults = 0

Fault == faults < MaxFaults /\ faults' = faults + 1
Go(a, step) == pc' = [pc EXCEPT ![a] = step]
\* Where a goroutine is once its work under the lock is over.
Rest(a) == IF a \in Requests THEN "done" ELSE "idle"
\* A deferred unlock on the way out.
Leave(a, step) == lock' = "free" /\ Go(a, step)

(***************************************************************************)
(* Requests that are one transaction.                                      *)
(***************************************************************************)
CreateProject ==
    /\ used = 0
    /\ row' = "identity_persisted" /\ active' = 1 /\ used' = 1
    /\ UNCHANGED <<failed, pending, postgres, lock, pc, target, mine, faults>>

RetryProject ==
    /\ failed /\ failed' = FALSE
    /\ UNCHANGED <<row, active, pending, postgres, lock, pc, target, mine, used, faults>>

\* A deletion is refused while a job of the project runs; a queued one is cancelled.
BeginProjectDeletion ==
    /\ row = "ready" \/ (failed /\ row \in Incomplete)
    /\ pc["worker"] \in {"idle", "restore"}
    /\ row' = "deleting" /\ failed' = FALSE /\ Go("worker", "idle")
    /\ UNCHANGED <<active, pending, postgres, lock, target, mine, used, faults>>

(***************************************************************************)
(* Provisioning: the loop's pass, and ProvisionNow in a restore job.       *)
(***************************************************************************)
\* pass: first PendingRotations ...
PendingRotations ==
    /\ pc["loop"] = "idle"
    /\ Go("loop", IF pending # 0 /\ row # "deleting" THEN "finish" ELSE "list")
    /\ UNCHANGED <<metadata, postgres, lock, target, mine, used, faults>>

\* ... then IncompleteProjects.
IncompleteProjects ==
    /\ pc["loop"] = "list"
    /\ Go("loop", IF row \in Incomplete /\ ~failed THEN "provision" ELSE "idle")
    /\ UNCHANGED <<metadata, postgres, lock, target, mine, used, faults>>

ProvisionNow ==
    /\ pc["worker"] = "restore" /\ row # "absent"
    /\ Go("worker", IF row = "ready" \/ failed THEN "idle" ELSE "provision")
    /\ UNCHANGED <<metadata, postgres, lock, target, mine, used, faults>>

\* provision takes the lock and reads the project again.
Provision(a) ==
    /\ pc[a] = "provision" /\ lock = "free"
    /\ IF row \in Incomplete /\ ~failed
         THEN /\ lock' = a /\ Go(a, "run")
              /\ target' = [target EXCEPT ![a] = StageAfter[row]]
              /\ mine' = [mine EXCEPT ![a] = active]
         ELSE Go(a, "idle") /\ UNCHANGED <<lock, target, mine>>
    /\ UNCHANGED <<metadata, postgres, used, faults>>

EnsureRole(a) ==
    /\ target[a] = "role_created"
    /\ role' = mine[a] /\ built' = built \cup {"login"}

EnsureDatabase(a) ==
    /\ target[a] = "database_created"
    /\ built' = built \cup {"database"} /\ UNCHANGED role

ApplyLimits(a) ==
    /\ target[a] = "ready"
    /\ built' = built \cup {"guardrails"} /\ UNCHANGED role

\* One stage, retried; when it fails it may be done all the same.
RunStage(a) ==
    /\ pc[a] = "run"
    /\ \/ /\ EnsureRole(a) \/ EnsureDatabase(a) \/ ApplyLimits(a)
          /\ Go(a, "save") /\ UNCHANGED <<lock, faults>>
       \/ /\ \/ EnsureRole(a) \/ EnsureDatabase(a) \/ ApplyLimits(a)
             \/ UNCHANGED <<role, built>>
          /\ Fault /\ Leave(a, "fail")
    /\ UNCHANGED <<metadata, sessions, target, mine, used>>

\* SetProjectStage never overwrites the tombstone.
SetProjectStage(a) ==
    /\ pc[a] = "save"
    /\ \/ /\ row' = IF row = "deleting" THEN row ELSE target[a]
          /\ IF target[a] = "ready"
               THEN Leave(a, "idle") /\ UNCHANGED target
               ELSE /\ Go(a, "run") /\ UNCHANGED lock
                    /\ target' = [target EXCEPT ![a] = StageAfter[target[a]]]
          /\ UNCHANGED faults
       \/ Fault /\ Leave(a, "fail") /\ UNCHANGED <<row, target>>
    /\ UNCHANGED <<failed, active, pending, postgres, mine, used>>

\* FailProject comes after the lock was given back; its own failure is ignored.
FailProject(a) ==
    /\ pc[a] = "fail"
    /\ \/ failed' = (failed \/ row \notin {"deleting", "absent"}) /\ UNCHANGED faults
       \/ Fault /\ UNCHANGED failed
    /\ Go(a, "idle")
    /\ UNCHANGED <<row, active, pending, postgres, lock, target, mine, used>>

(***************************************************************************)
(* Rotation, by a request or finished by the loop.                         *)
(***************************************************************************)
RotateRequest(r) ==
    /\ pc[r] = "new" /\ row = "ready" /\ ~failed
    /\ Go(r, "rotate")
    /\ UNCHANGED <<metadata, postgres, lock, target, mine, used, faults>>

\* Rotate takes the lock; BeginRotation records the new password for a ready project.
BeginRotation(r) ==
    /\ pc[r] = "rotate" /\ lock = "free"
    /\ IF row = "ready"
         THEN /\ lock' = r /\ Go(r, "set_password")
              /\ used' = used + 1 /\ pending' = used + 1 /\ mine' = [mine EXCEPT ![r] = used + 1]
         ELSE Go(r, "done") /\ UNCHANGED <<lock, used, pending, mine>>
    /\ UNCHANGED <<row, failed, active, postgres, target, faults>>

\* Mutant of FinishRotations: the lock is not tried.
FinishUnlocked ==
    /\ pc["loop"] = "finish"
    /\ IF pending # 0
         THEN lock' = "loop" /\ mine' = [mine EXCEPT !["loop"] = pending] /\ Go("loop", "set_password")
         ELSE Go("loop", "list") /\ UNCHANGED <<lock, mine>>
    /\ UNCHANGED <<metadata, postgres, target, used, faults>>

\* FinishRotations leaves a held lock alone, and reads the password under it.
FinishRotations ==
    /\ pc["loop"] = "finish"
    /\ IF lock = "free" /\ pending # 0
         THEN lock' = "loop" /\ mine' = [mine EXCEPT !["loop"] = pending] /\ Go("loop", "set_password")
         ELSE Go("loop", "list") /\ UNCHANGED <<lock, mine>>
    /\ UNCHANGED <<metadata, postgres, target, used, faults>>

AfterRotation(a) == IF a = "loop" THEN "list" ELSE "done"

SetPassword(a) ==
    /\ pc[a] = "set_password"
    /\ \/ /\ role # 0 /\ role' = mine[a]
          /\ Go(a, "terminate") /\ UNCHANGED <<lock, faults>>
       \/ /\ role # 0 /\ role' \in {role, mine[a]}
          /\ Fault /\ Leave(a, AfterRotation(a))
       \/ /\ role = 0 /\ UNCHANGED <<role, faults>>
          /\ Leave(a, AfterRotation(a))
    /\ UNCHANGED <<metadata, built, sessions, target, mine, used>>

TerminateSessions(a) ==
    /\ pc[a] = "terminate"
    /\ \/ sessions' = {} /\ Go(a, "complete") /\ UNCHANGED <<lock, faults>>
       \/ sessions' \in {sessions, {}} /\ Fault /\ Leave(a, AfterRotation(a))
    /\ UNCHANGED <<metadata, role, built, target, mine, used>>

\* CompleteRotation compares and swaps.
CompleteRotation(a) ==
    /\ pc[a] = "complete"
    /\ \/ /\ IF pending = mine[a] THEN active' = mine[a] /\ pending' = 0
                                    ELSE UNCHANGED <<active, pending>>
          /\ UNCHANGED faults
       \/ Fault /\ UNCHANGED <<active, pending>>
    /\ Leave(a, AfterRotation(a))
    /\ UNCHANGED <<row, failed, postgres, target, mine, used>>

(***************************************************************************)
(* runDelete, and DropProject statement by statement.                      *)
(***************************************************************************)
\* Mutant of RunDelete: the lock is not taken.
RunDeleteUnlocked ==
    /\ pc["worker"] = "idle" /\ row = "deleting"
    /\ Go("worker", "disable_login")
    /\ UNCHANGED <<metadata, postgres, lock, target, mine, used, faults>>

RunDelete ==
    /\ pc["worker"] = "idle" /\ row = "deleting" /\ lock = "free"
    /\ lock' = "worker" /\ Go("worker", "disable_login")
    /\ UNCHANGED <<metadata, postgres, target, mine, used, faults>>

\* Mutant of DeleteStep: a failed deletion is not tried again.
DeleteStepOnce(step, next, effect) ==
    /\ pc["worker"] = step
    /\ \/ effect /\ Go("worker", next) /\ UNCHANGED <<lock, faults>>
       \/ (effect \/ UNCHANGED postgres) /\ Fault /\ Leave("worker", "stopped")
    /\ UNCHANGED <<metadata, target, mine, used>>

\* The next step of a deletion, or its failure, which leaves the tombstone.
DeleteStep(step, next, effect) ==
    /\ pc["worker"] = step
    /\ \/ effect /\ Go("worker", next) /\ UNCHANGED <<lock, faults>>
       \/ (effect \/ UNCHANGED postgres) /\ Fault /\ Leave("worker", "idle")
    /\ UNCHANGED <<metadata, target, mine, used>>

DisableLogin ==
    DeleteStep("disable_login", "end_sessions",
               built' = built \ {"login"} /\ UNCHANGED <<role, sessions>>)

EndSessions ==
    DeleteStep("end_sessions", "drop_database",
               sessions' = {} /\ UNCHANGED <<role, built>>)

DropDatabase ==
    DeleteStep("drop_database", "drop_role",
               built' = built \ {"database"} /\ sessions' = {} /\ UNCHANGED role)

DropRole ==
    DeleteStep("drop_role", "access_policy",
               role' = 0 /\ built' = built \ {"login", "guardrails"} /\ UNCHANGED sessions)

SyncPolicy == DeleteStep("access_policy", "remove_records", UNCHANGED postgres)

CompleteProjectDeletion ==
    /\ pc["worker"] = "remove_records"
    /\ \/ row' = "absent" /\ active' = 0 /\ pending' = 0 /\ UNCHANGED faults
       \/ Fault /\ UNCHANGED <<row, active, pending>>
    /\ Leave("worker", "idle")
    /\ UNCHANGED <<failed, postgres, target, mine, used>>

(***************************************************************************)
(* The environment.                                                        *)
(***************************************************************************)
\* An application logs in with the role's current password.
Connect ==
    /\ role # 0 /\ {"login", "database"} \subseteq built
    /\ sessions' = sessions \cup {role}
    /\ UNCHANGED <<metadata, role, built, lock, pc, target, mine, used, faults>>

\* The process stops; the next one starts with an idle loop and a free lock.
Crash ==
    /\ Fault
    /\ lock' = "free"
    /\ pc' = [a \in Actors |-> IF pc[a] \in {"new", "restore"} THEN pc[a] ELSE Rest(a)]
    /\ UNCHANGED <<metadata, postgres, target, mine, used>>

LoopStep ==
    \/ PendingRotations \/ FinishRotations \/ IncompleteProjects \/ Provision("loop")
    \/ RunStage("loop") \/ SetProjectStage("loop") \/ FailProject("loop")

WorkerStep ==
    \/ ProvisionNow \/ Provision("worker") \/ RunStage("worker") \/ SetProjectStage("worker")
    \/ FailProject("worker")
    \/ RunDelete \/ DisableLogin \/ EndSessions \/ DropDatabase \/ DropRole \/ SyncPolicy
    \/ CompleteProjectDeletion

RotationStep(a) == SetPassword(a) \/ TerminateSessions(a) \/ CompleteRotation(a)

Next ==
    \/ CreateProject \/ RetryProject \/ BeginProjectDeletion
    \/ LoopStep \/ WorkerStep
    \/ \E r \in Requests : RotateRequest(r) \/ BeginRotation(r)
    \/ \E a \in Requests \cup {"loop"} : RotationStep(a)
    \/ Connect \/ Crash

Spec == Init /\ [][Next]_vars

(***************************************************************************)
(* Properties.                                                             *)
(***************************************************************************)
TypeOK ==
    /\ row \in {"absent", "ready", "deleting"} \cup Incomplete
    /\ failed \in BOOLEAN /\ built \subseteq Parts
    /\ used \in Nat /\ active \in 0..used /\ pending \in 0..used /\ role \in 0..used
    /\ sessions \subseteq 1..used
    /\ lock \in {"free"} \cup Actors
    /\ target \in [Actors -> {"role_created", "database_created", "ready"}]
    /\ mine \in [Actors -> 0..used] /\ faults \in Nat

\* Whatever is in PostgreSQL belongs to a project the metadata still knows: a
\* deletion leaves nothing behind, although a provisioning that read the
\* project before the deletion began may still be creating things.
NoOrphan == role # 0 \/ built # {} => row # "absent"

\* A ready project has its role, its database and its guardrails ("a project
\* never serves without its guardrails").
ReadyIsComplete == row = "ready" => role # 0 /\ built = Parts

\* Unless a rotation is pending, the password the dashboard shows is the one
\* PostgreSQL accepts, and no session is left that logged in with another.
CredentialsWork == row = "ready" /\ pending = 0 => role = active /\ sessions \subseteq {active}

\* "A project that ... was marked for deletion meanwhile is never created
\* again": no role or database appears after the tombstone.
NeverCreatedAgain ==
    [][row = "deleting" /\ row' = "deleting" => (role' # 0 => role # 0) /\ built' \subseteq built]_vars

\* The goroutines run; a goroutine that waits for the lock gets it once it is
\* free often enough (a Go mutex does not starve a waiter).
Fairness ==
    /\ SF_vars(LoopStep) /\ SF_vars(WorkerStep)
    /\ WF_vars(RotationStep("loop"))
    /\ \A r \in Requests : SF_vars(BeginRotation(r)) /\ WF_vars(RotationStep(r))

FairSpec == Spec /\ Fairness

\* A password recorded and not yet in force, a project being set up, a deletion
\* that has begun.
HalfDone == pending # 0 \/ (row \in Incomplete /\ ~failed) \/ row = "deleting"

\* Whatever an interruption left half-way is taken up until nothing is: a new
\* password becomes the active one or goes with its project, a project becomes
\* ready or fails visibly, and a deletion ends with the record gone (and, by
\* NoOrphan, the role and the database).
NothingStaysHalfDone == HalfDone ~> ~HalfDone
=============================================================================
