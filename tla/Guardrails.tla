----------------------------- MODULE Guardrails -----------------------------
(***************************************************************************)
(* The guardrails of one project's role (timeouts, temporary files,        *)
(* connections): recorded as revisions by putLimits, set on the role by    *)
(* provisioning and by SyncLimits, which requests call once and the        *)
(* provisioner's loop calls in every pass.  The project's own sessions may *)
(* change what is set on the role, or override it for the database.        *)
(*                                                                         *)
(* Abstractions.  A set of limits is one value; 0 on the role is anything  *)
(* else.  The locals of SyncLimits belong to the holder of its mutex.      *)
(***************************************************************************)
EXTENDS Integers

CONSTANTS
    Values,        \* valid sets of limits
    Requests,      \* putLimits requests
    MaxRevision,   \* bound: revisions
    MaxDrift,      \* bound: changes made by the project's own sessions
    MaxFailures    \* bound: failed calls, which may have taken effect, and crashes

ASSUME LimitsAssumption ==
    /\ Values # {} /\ 0 \notin Values /\ {"loop", "provision", "free"} \cap Requests = {}
    /\ MaxRevision \in Nat /\ MaxDrift \in Nat /\ MaxFailures \in Nat

VARIABLES
    stage,                               \* projects: "ready", or in "setup", or "failed" there
    limits, revision, applied, error,    \* project_limits; whether last_error is set
    role, override,                      \* PostgreSQL: the role's settings; a setting for the database wins
    doing, asked,                        \* each goroutine: its place; a request's stage and revision
    holder, step, want, found,           \* SyncLimits: its mutex, place, the limits and the role as read
    drifts, failures

table == <<limits, revision, applied, error>>
postgres == <<role, override>>
sync == <<holder, step, want, found>>
limitsVars == <<stage, table, postgres, doing, asked, sync, drifts, failures>>

Syncers == {"loop"} \cup Requests
Actors == {"provision"} \cup Syncers
Nothing == [value |-> 0, revision |-> 0, applied |-> 0]

LimitsInit ==
    /\ stage = "setup"
    /\ limits \in Values /\ revision = 1 /\ applied = 0 /\ error = FALSE
    /\ role = 0 /\ override = FALSE
    /\ doing = [a \in Actors |-> "idle"] /\ asked = [a \in Actors |-> Nothing]
    /\ holder = "free" /\ step = "none" /\ want = Nothing /\ found = 0
    /\ drifts = 0 /\ failures = 0

Failure == failures < MaxFailures /\ failures' = failures + 1
Go(a, place) == doing' = [doing EXCEPT ![a] = place]
Recorded == [value |-> limits, revision |-> revision, applied |-> applied]

\* Mutant of MarkLimitsApplied: whatever was applied last counts as the current revision.
MarkCurrent(r) == applied' = revision /\ error' = FALSE

MarkLimitsApplied(r) ==
    IF revision = r THEN applied' = r /\ error' = FALSE ELSE UNCHANGED <<applied, error>>

(***************************************************************************)
(* Provisioning reads the limits first and sets them last, before "ready". *)
(* Setting and marking them is one stage, attempted again with what was    *)
(* read when either fails.  When provisioning gives up it marks the        *)
(* project failed, and nothing runs for it until an operator retries.      *)
(***************************************************************************)
ReadLimits ==
    /\ doing["provision"] = "idle" /\ stage = "setup"
    /\ \/ /\ asked' = [asked EXCEPT !["provision"] = Recorded] /\ Go("provision", "apply")
          /\ UNCHANGED failures
       \/ Failure /\ Go("provision", "fail") /\ UNCHANGED asked
    /\ UNCHANGED <<stage, table, postgres, sync, drifts>>

\* retry: another attempt, or the last one has failed.
AttemptFails == Failure /\ (Go("provision", "apply") \/ Go("provision", "fail"))

ProvisionLimits ==
    /\ doing["provision"] = "apply"
    /\ \/ role' = asked["provision"].value /\ Go("provision", "mark") /\ UNCHANGED failures
       \/ role' \in {role, asked["provision"].value} /\ AttemptFails
    /\ UNCHANGED <<stage, table, override, asked, sync, drifts>>

MarkProvisioned ==
    /\ doing["provision"] = "mark"
    /\ \/ MarkLimitsApplied(asked["provision"].revision) /\ Go("provision", "ready") /\ UNCHANGED failures
       \/ AttemptFails /\ UNCHANGED <<applied, error>>
    /\ UNCHANGED <<stage, limits, revision, postgres, asked, sync, drifts>>

SetReady ==
    /\ doing["provision"] = "ready"
    /\ \/ stage' = "ready" /\ Go("provision", "idle") /\ UNCHANGED failures
       \/ Failure /\ Go("provision", "fail") /\ UNCHANGED stage
    /\ asked' = [asked EXCEPT !["provision"] = Nothing]
    /\ UNCHANGED <<table, postgres, sync, drifts>>

\* Its own failure is ignored: the next pass provisions again.
FailProject ==
    /\ doing["provision"] = "fail" /\ Go("provision", "idle")
    /\ \/ stage' = "failed" /\ UNCHANGED failures
       \/ Failure /\ UNCHANGED stage
    /\ asked' = [asked EXCEPT !["provision"] = Nothing]
    /\ UNCHANGED <<table, postgres, sync, drifts>>

\* The operator's: provisioning resumes.
RetryProject ==
    /\ stage = "failed" /\ stage' = "setup"
    /\ UNCHANGED <<table, postgres, doing, asked, sync, drifts, failures>>

(***************************************************************************)
(* putLimits: read the project, then record under the revision the client  *)
(* saw, then sync if the project was ready when read.                      *)
(***************************************************************************)
PutLimits(r) ==
    /\ doing[r] = "idle"
    /\ \E seen \in 1..MaxRevision - 1, v \in Values :
         seen <= revision /\ asked' = [asked EXCEPT ![r] = [value |-> v, revision |-> seen, applied |-> 0]]
    /\ Go(r, IF stage = "ready" THEN "set_and_sync" ELSE "set")
    /\ UNCHANGED <<stage, table, postgres, sync, drifts, failures>>

SetProjectLimits(r) ==
    /\ doing[r] \in {"set", "set_and_sync"}
    /\ IF revision = asked[r].revision
         THEN /\ limits' = asked[r].value /\ revision' = revision + 1
              /\ Go(r, IF doing[r] = "set" THEN "idle" ELSE "sync")
         ELSE Go(r, "idle") /\ UNCHANGED <<limits, revision>>
    /\ asked' = [asked EXCEPT ![r] = Nothing]
    /\ UNCHANGED <<stage, applied, error, postgres, sync, drifts, failures>>

(***************************************************************************)
(* SyncLimits, under its mutex.                                            *)
(***************************************************************************)
LoopPass ==
    /\ doing["loop"] = "idle" /\ Go("loop", "sync")
    /\ UNCHANGED <<stage, table, postgres, asked, sync, drifts, failures>>

Holding(a, place) == holder = a /\ step = place
Return(a) ==
    /\ holder' = "free" /\ step' = "none" /\ want' = Nothing /\ found' = 0
    /\ Go(a, "idle")

ReadyProjectLimits(a) ==
    /\ doing[a] = "sync" /\ holder = "free"
    /\ \/ /\ stage = "ready" /\ holder' = a /\ step' = "role" /\ want' = Recorded /\ Go(a, "syncing")
          /\ UNCHANGED <<found, failures>>
       \/ stage # "ready" /\ Return(a) /\ UNCHANGED failures
       \/ Failure /\ Return(a)
    /\ UNCHANGED <<stage, table, postgres, asked, drifts>>

\* What the role has, and whether something overrides it.
RoleStates(a) ==
    /\ Holding(a, "role")
    /\ \/ /\ found' = role /\ step' = IF override THEN "reset" ELSE "compare"
          /\ UNCHANGED <<holder, want, doing, failures>>
       \/ Failure /\ Return(a)
    /\ UNCHANGED <<stage, table, postgres, asked, drifts>>

\* Its failure is only logged.
ResetDatabaseLimits(a) ==
    /\ Holding(a, "reset") /\ step' = "compare"
    /\ \/ override' = FALSE /\ UNCHANGED failures
       \/ Failure /\ UNCHANGED override
    /\ UNCHANGED <<stage, table, role, doing, asked, holder, want, found, drifts>>

\* Mutant of CompareLimits: revisions are compared, and drift is not seen.
CompareRevisions(a) ==
    /\ Holding(a, "compare")
    /\ IF want.applied = want.revision
         THEN Return(a) /\ UNCHANGED <<applied, error, failures>>
         ELSE step' = "apply" /\ UNCHANGED <<applied, error, doing, holder, want, found, failures>>
    /\ UNCHANGED <<stage, limits, revision, postgres, asked, drifts>>

\* As wanted: mark it if that was not known yet.  Otherwise set it.
CompareLimits(a) ==
    /\ Holding(a, "compare")
    /\ IF found = want.value
         THEN /\ \/ want.applied < want.revision /\ MarkLimitsApplied(want.revision) /\ UNCHANGED failures
                 \/ want.applied < want.revision /\ Failure /\ UNCHANGED <<applied, error>>
                 \/ want.applied >= want.revision /\ UNCHANGED <<applied, error, failures>>
              /\ Return(a)
         ELSE step' = "apply" /\ UNCHANGED <<applied, error, doing, holder, want, found, failures>>
    /\ UNCHANGED <<stage, limits, revision, postgres, asked, drifts>>

\* One transaction in PostgreSQL.
ApplyLimits(a) ==
    /\ Holding(a, "apply")
    /\ \/ role' = want.value /\ step' = "mark" /\ UNCHANGED failures
       \/ role' \in {role, want.value} /\ step' = "failed" /\ Failure
    /\ UNCHANGED <<stage, table, override, doing, asked, holder, want, found, drifts>>

MarkApplied(a) ==
    /\ Holding(a, "mark")
    /\ \/ MarkLimitsApplied(want.revision) /\ Return(a) /\ UNCHANGED failures
       \/ Failure /\ step' = "failed" /\ UNCHANGED <<applied, error, doing, holder, want, found>>
    /\ UNCHANGED <<stage, limits, revision, postgres, asked, drifts>>

\* LimitsFailed does not compare revisions.
LimitsFailed(a) ==
    /\ Holding(a, "failed")
    /\ \/ error' = TRUE /\ UNCHANGED failures
       \/ Failure /\ UNCHANGED error
    /\ Return(a)
    /\ UNCHANGED <<stage, limits, revision, applied, postgres, asked, drifts>>

(***************************************************************************)
(* The environment.                                                        *)
(***************************************************************************)
\* A session of the project changes its role's settings, or those for its database.
Drift ==
    /\ stage = "ready" /\ drifts < MaxDrift /\ drifts' = drifts + 1
    /\ \/ role' = 0 /\ UNCHANGED override
       \/ override' = TRUE /\ UNCHANGED role
    /\ UNCHANGED <<stage, table, doing, asked, sync, failures>>

ProcessDies ==
    /\ Failure
    /\ doing' = [a \in Actors |-> "idle"] /\ asked' = [a \in Actors |-> Nothing]
    /\ holder' = "free" /\ step' = "none" /\ want' = Nothing /\ found' = 0
    /\ UNCHANGED <<stage, table, postgres, drifts>>

Provisioning == ReadLimits \/ ProvisionLimits \/ MarkProvisioned \/ SetReady \/ FailProject

SyncLimits(a) ==
    \/ ReadyProjectLimits(a) \/ RoleStates(a) \/ ResetDatabaseLimits(a) \/ CompareLimits(a)
    \/ ApplyLimits(a) \/ MarkApplied(a) \/ LimitsFailed(a)

LimitsNext ==
    \/ Provisioning \/ RetryProject \/ LoopPass
    \/ \E r \in Requests : PutLimits(r) \/ SetProjectLimits(r)
    \/ \E a \in Syncers : SyncLimits(a)
    \/ Drift \/ ProcessDies

LimitsSpec == LimitsInit /\ [][LimitsNext]_limitsVars

(***************************************************************************)
(* Properties.                                                             *)
(***************************************************************************)
LimitsTypeOK ==
    /\ stage \in {"setup", "failed", "ready"} /\ limits \in Values
    /\ revision \in 1..MaxRevision /\ applied \in 0..revision /\ {error, override} \subseteq BOOLEAN
    /\ role \in Values \cup {0} /\ holder \in Syncers \cup {"free"}
    /\ drifts \in 0..MaxDrift /\ failures \in 0..MaxFailures

\* When the dashboard shows the current revision as applied, the role has those
\* limits, unless the project changed them itself: a result that arrives after
\* another revision was recorded is never taken for the newer one.
ShownIsSet == applied = revision /\ drifts = 0 => role = limits

\* The goroutines run; the loop wakes up at least every 30 seconds.  An operator
\* need not retry.
Fairness ==
    /\ WF_limitsVars(Provisioning) /\ WF_limitsVars(LoopPass)
    /\ \A r \in Requests : WF_limitsVars(SetProjectLimits(r))
    /\ \A a \in Syncers : SF_limitsVars(SyncLimits(a))

FairSpec == LimitsSpec /\ Fairness

\* "Brings every ready role's guardrails to what the operator set", and
\* "repairs drift": once changes and failures stop, the role has the recorded
\* limits, nothing overrides them and the dashboard says so, unless the
\* project's provisioning has failed and waits for the operator to retry it.
Converges == <>[](stage = "failed" \/ (role = limits /\ ~override /\ applied = revision))
=============================================================================
