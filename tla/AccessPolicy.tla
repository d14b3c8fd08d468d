---------------------------- MODULE AccessPolicy ----------------------------
(***************************************************************************)
(* Which addresses may reach a project's database: revisions recorded in   *)
(* the metadata, rendered by SyncPolicy into one rule file for all ready   *)
(* projects, loaded by PostgreSQL on reload, acknowledged per project.     *)
(* SyncPolicy is called by requests, by the provisioner's loop at startup  *)
(* and after provisioning, and by the deletion job; a mutex serialises it. *)
(*                                                                         *)
(* Abstractions.  A rule file maps each project to the revision it admits, *)
(* 0 for no rule; the addresses of a revision do not matter.  The locals   *)
(* of SyncPolicy belong to the holder of the mutex.  Provisioning is the   *)
(* two steps that touch the policy.  PostgreSQL handles a reload signal    *)
(* some time after it was sent.                                            *)
(***************************************************************************)
EXTENDS Integers, FiniteSets

CONSTANTS
    Projects,
    Requests,        \* access updates
    MaxRevision,     \* bound: revisions of one project
    MaxFaults,       \* bound: crashes, failed or unconfirmed calls to PostgreSQL or the disk
    MaxDbErrors,     \* bound: failed metadata calls, among them those of a request whose client left
    EarlyRequests    \* whether requests may address a project that is still set up

ASSUME PolicyAssumption ==
    /\ MaxRevision \in Nat /\ MaxFaults \in Nat /\ MaxDbErrors \in Nat /\ EarlyRequests \in BOOLEAN
    /\ {"loop", "worker", "free"} \cap Requests = {}

VARIABLES
    stage,                     \* projects.stage
    current, applied, state,   \* policy_state
    file, loaded,              \* projects.conf, and the rules PostgreSQL enforces
    signal, fresh,             \* a reload was asked for; one was done since Reload read the load time
    pc, asked,                 \* each goroutine: its place; its project, with the stage and revision it saw
    holder, step,              \* SyncPolicy's mutex and the place of its holder
    todo, rules, live, previous,   \* its locals: projects left to visit, rules, revisions already live, old file
    faults, dbErrors

metadata == <<stage, current, applied, state>>
postgres == <<file, loaded, signal, fresh>>
locals == <<todo, rules, live, previous>>
vars == <<metadata, postgres, pc, asked, holder, step, locals, faults, dbErrors>>

Actors == {"loop", "worker"} \cup Requests
NoRules == [p \in Projects |-> 0]
NotAsked == [project |-> "none", stage |-> "none", revision |-> 0]

Init ==
    /\ stage = [p \in Projects |-> "setup"]
    /\ current = NoRules /\ applied = NoRules /\ state = [p \in Projects |-> "idle"]
    /\ file = NoRules /\ loaded = NoRules /\ signal = FALSE /\ fresh = FALSE
    /\ pc = [a \in Actors |-> IF a = "loop" THEN "sync" ELSE "idle"]    \* Run syncs at startup
    /\ asked = [a \in Actors |-> NotAsked]
    /\ holder = "free" /\ step = "none"
    /\ todo = {} /\ rules = NoRules /\ live = {} /\ previous = NoRules
    /\ faults = 0 /\ dbErrors = 0

Fault == faults < MaxFaults /\ faults' = faults + 1
DbError == dbErrors < MaxDbErrors /\ dbErrors' = dbErrors + 1
Go(a, place) == pc' = [pc EXCEPT ![a] = place]

(***************************************************************************)
(* Callers of SyncPolicy.                                                  *)
(***************************************************************************)
\* The first half of updateAccess: it reads the project, and refuses one that is deleted.
UpdateAccess(r) ==
    /\ pc[r] = "idle"
    /\ \E p \in Projects, revision \in 0..MaxRevision - 1 :
         /\ stage[p] = "ready" \/ (EarlyRequests /\ stage[p] = "setup")
         /\ revision <= current[p]
         /\ asked' = [asked EXCEPT ![r] = [project |-> p, stage |-> stage[p], revision |-> revision]]
    /\ Go(r, "record")
    /\ UNCHANGED <<metadata, postgres, holder, step, locals, faults, dbErrors>>

NewRevision(p) ==
    /\ current' = [current EXCEPT ![p] = @ + 1]
    /\ state' = [state EXCEPT ![p] = "pending"]

\* The second half: optimistic on the revision; it syncs if the project was ready when read.
RecordPolicyRevision(r) ==
    /\ pc[r] = "record"
    /\ LET q == asked[r] IN
       IF stage[q.project] # "gone" /\ current[q.project] = q.revision
         THEN NewRevision(q.project) /\ Go(r, IF q.stage = "ready" THEN "sync" ELSE "idle")
         ELSE Go(r, "idle") /\ UNCHANGED <<current, state>>
    /\ asked' = [asked EXCEPT ![r] = NotAsked]
    /\ UNCHANGED <<stage, applied, postgres, holder, step, locals, faults, dbErrors>>

\* The last stage of provisioning gives the project the default rules ...
DefaultPolicy(p) ==
    /\ pc["loop"] \in {"idle", "changed"} /\ stage[p] = "setup" /\ current[p] = 0
    /\ NewRevision(p)
    /\ UNCHANGED <<stage, applied, postgres, pc, asked, holder, step, locals, faults, dbErrors>>

\* ... then makes it ready; the pass syncs after its last project.
SetReady(p) ==
    /\ pc["loop"] \in {"idle", "changed"} /\ stage[p] = "setup" /\ current[p] > 0
    /\ stage' = [stage EXCEPT ![p] = "ready"] /\ Go("loop", "changed")
    /\ UNCHANGED <<current, applied, state, postgres, asked, holder, step, locals, faults, dbErrors>>

PassDone ==
    /\ pc["loop"] = "changed" /\ Go("loop", "sync")
    /\ UNCHANGED <<metadata, postgres, asked, holder, step, locals, faults, dbErrors>>

BeginProjectDeletion(p) ==
    /\ stage[p] = "ready" /\ stage' = [stage EXCEPT ![p] = "deleting"]
    /\ UNCHANGED <<current, applied, state, postgres, pc, asked, holder, step, locals, faults, dbErrors>>

\* runDelete, once the database is dropped; the job runs again until it succeeds.
RunDelete(p) ==
    /\ pc["worker"] = "idle" /\ stage[p] = "deleting"
    /\ asked' = [asked EXCEPT !["worker"].project = p] /\ Go("worker", "sync")
    /\ UNCHANGED <<metadata, postgres, holder, step, locals, faults, dbErrors>>

CompleteProjectDeletion ==
    /\ pc["worker"] = "remove_records"
    /\ \/ LET p == asked["worker"].project IN
          /\ stage' = [stage EXCEPT ![p] = "gone"] /\ state' = [state EXCEPT ![p] = "idle"]
          /\ current' = [current EXCEPT ![p] = 0] /\ applied' = [applied EXCEPT ![p] = 0]
          /\ UNCHANGED dbErrors
       \/ DbError /\ UNCHANGED metadata
    /\ asked' = [asked EXCEPT !["worker"] = NotAsked] /\ Go("worker", "idle")
    /\ UNCHANGED <<postgres, holder, step, locals, faults>>

(***************************************************************************)
(* SyncPolicy.                                                             *)
(***************************************************************************)
Holding(a, place) == holder = a /\ step = place
\* Mutant of Return: a deletion goes on although the rules were not applied.
ReturnRegardless(a, ok) ==
    /\ holder' = "free" /\ step' = "none"
    /\ todo' = {} /\ rules' = NoRules /\ live' = {} /\ previous' = NoRules
    /\ Go(a, IF a = "worker" THEN "remove_records" ELSE "idle")

\* Back to the caller, which goes on only if it deletes a project.
Return(a, ok) ==
    /\ holder' = "free" /\ step' = "none"
    /\ todo' = {} /\ rules' = NoRules /\ live' = {} /\ previous' = NoRules
    /\ Go(a, IF a = "worker" /\ ok THEN "remove_records" ELSE "idle")

ListProjects(a) ==
    /\ pc[a] = "sync" /\ holder = "free"
    /\ \/ /\ holder' = a /\ step' = "read" /\ Go(a, "syncing")
          /\ todo' = {p \in Projects : stage[p] = "ready"} /\ rules' = NoRules
          /\ UNCHANGED <<live, previous, dbErrors>>
       \/ DbError /\ Return(a, FALSE)
    /\ UNCHANGED <<metadata, postgres, asked, faults>>

\* One PolicyState per query, each of its own moment.
ReadPolicyState(a) ==
    /\ Holding(a, "read")
    /\ \/ /\ \E p \in todo :
               /\ todo' = todo \ {p} /\ rules' = [rules EXCEPT ![p] = current[p]]
               /\ live' = IF applied[p] = current[p] THEN live \cup {p} ELSE live
          /\ UNCHANGED <<holder, step, pc, previous, dbErrors>>
       \/ todo # {} /\ DbError /\ Return(a, FALSE)
    /\ UNCHANGED <<metadata, postgres, asked, faults>>

Rendered == {p \in Projects : rules[p] # 0}

\* The outcome of Apply; the projects whose outcome is to be recorded.
Outcome(result) ==
    /\ step' = result /\ todo' = (IF result = "applied" THEN Rendered ELSE Rendered \ live)
    /\ live' = {} /\ previous' = NoRules /\ fresh' = FALSE

\* Apply: keep the old file, write the new one.
WriteFile(a) ==
    /\ Holding(a, "read") /\ todo = {}
    /\ \/ file' = rules /\ previous' = file /\ step' = "validate" /\ UNCHANGED <<todo, live, fresh, faults>>
       \/ Fault /\ Outcome("failed") /\ UNCHANGED file
    /\ UNCHANGED <<metadata, loaded, signal, pc, asked, holder, rules, dbErrors>>

\* Any error puts the old file back, or tries to.
Restore == Fault /\ file' \in {previous, file} /\ Outcome("failed")

HBAFileErrors(a) ==
    /\ Holding(a, "validate")
    /\ \/ step' = "load_time" /\ UNCHANGED <<file, todo, live, previous, fresh, faults>>
       \/ Restore
    /\ UNCHANGED <<metadata, loaded, signal, pc, asked, holder, rules, dbErrors>>

\* Reload: read the load time, ask for a reload, wait for a later load time.
ReadLoadTime(a) ==
    /\ Holding(a, "load_time")
    /\ \/ fresh' = FALSE /\ step' = "reload" /\ UNCHANGED <<file, todo, live, previous, faults>>
       \/ Restore
    /\ UNCHANGED <<metadata, loaded, signal, pc, asked, holder, rules, dbErrors>>

Reload(a) ==
    /\ Holding(a, "reload")
    /\ \/ signal' = TRUE /\ step' = "wait" /\ UNCHANGED <<file, todo, live, previous, fresh, faults>>
       \/ signal' \in {signal, TRUE} /\ Restore
    /\ UNCHANGED <<metadata, loaded, pc, asked, holder, rules, dbErrors>>

AwaitReload(a) ==
    /\ Holding(a, "wait")
    /\ \/ fresh /\ Outcome("applied") /\ UNCHANGED <<file, faults>>
       \/ Restore
    /\ UNCHANGED <<metadata, loaded, signal, pc, asked, holder, rules, dbErrors>>

\* Mutant of ApplyPolicyResult: the result is recorded for whatever revision is current.
ResultForAnyRevision(a) ==
    /\ holder = a /\ step \in {"applied", "failed"}
    /\ \E p \in todo :
         /\ todo' = todo \ {p}
         /\ state' = [state EXCEPT ![p] = step]
         /\ applied' = IF step = "applied" THEN [applied EXCEPT ![p] = rules[p]] ELSE applied
    /\ UNCHANGED <<stage, current, postgres, pc, asked, holder, step, rules, live, previous, faults, dbErrors>>

\* A compare-and-swap on the revision; an error is ignored.
ApplyPolicyResult(a) ==
    /\ holder = a /\ step \in {"applied", "failed"}
    /\ \E p \in todo :
         /\ todo' = todo \ {p}
         /\ \/ /\ IF current[p] = rules[p]
                    THEN /\ state' = [state EXCEPT ![p] = step]
                         /\ applied' = IF step = "applied" THEN [applied EXCEPT ![p] = rules[p]] ELSE applied
                    ELSE UNCHANGED <<state, applied>>
               /\ UNCHANGED dbErrors
            \/ DbError /\ UNCHANGED <<state, applied>>
    /\ UNCHANGED <<stage, current, postgres, pc, asked, holder, step, rules, live, previous, faults>>

SyncDone(a) ==
    /\ holder = a /\ step \in {"applied", "failed"} /\ todo = {}
    /\ Return(a, step = "applied")
    /\ UNCHANGED <<metadata, postgres, asked, faults, dbErrors>>

(***************************************************************************)
(* The environment.                                                        *)
(***************************************************************************)
\* PostgreSQL handles the signal, or restarts.
LoadConf ==
    /\ \/ signal /\ UNCHANGED faults
       \/ ~signal /\ Fault
    /\ loaded' = file /\ signal' = FALSE /\ fresh' = (step \in {"reload", "wait"})
    /\ UNCHANGED <<metadata, file, pc, asked, holder, step, locals, dbErrors>>

\* Pgfy stops at any point and starts again.
Crash ==
    /\ Fault
    /\ pc' = [a \in Actors |-> IF a = "loop" THEN "sync" ELSE "idle"]
    /\ asked' = [a \in Actors |-> NotAsked]
    /\ holder' = "free" /\ step' = "none"
    /\ todo' = {} /\ rules' = NoRules /\ live' = {} /\ previous' = NoRules /\ fresh' = FALSE
    /\ UNCHANGED <<metadata, file, loaded, signal, dbErrors>>

SyncPolicy(a) ==
    \/ ListProjects(a) \/ ReadPolicyState(a) \/ WriteFile(a) \/ HBAFileErrors(a) \/ ReadLoadTime(a)
    \/ Reload(a) \/ AwaitReload(a) \/ ApplyPolicyResult(a) \/ SyncDone(a)

Next ==
    \/ \E r \in Requests : UpdateAccess(r) \/ RecordPolicyRevision(r)
    \/ \E p \in Projects : DefaultPolicy(p) \/ SetReady(p) \/ BeginProjectDeletion(p) \/ RunDelete(p)
    \/ PassDone \/ CompleteProjectDeletion
    \/ \E a \in Actors : SyncPolicy(a)
    \/ LoadConf \/ Crash

Spec == Init /\ [][Next]_vars

(***************************************************************************)
(* Properties.                                                             *)
(***************************************************************************)
TypeOK ==
    /\ stage \in [Projects -> {"setup", "ready", "deleting", "gone"}]
    /\ state \in [Projects -> {"idle", "pending", "applied", "failed"}]
    /\ {current, applied, file, loaded, rules, previous} \subseteq [Projects -> 0..MaxRevision]
    /\ {signal, fresh} \subseteq BOOLEAN
    /\ holder \in Actors \cup {"free"} /\ todo \subseteq Projects /\ live \subseteq Projects

\* "policy.state is applied only after PostgreSQL ... reported a newer
\* pg_conf_load_time()": while the dashboard says a revision is active,
\* PostgreSQL enforces exactly that revision, and goes on doing so if it
\* restarts, however other projects' updates, failures and reloads interleave.
AppliedIsEnforced ==
    \A p \in Projects : stage[p] = "ready" /\ state[p] = "applied" =>
        loaded[p] = current[p] /\ file[p] = current[p]

\* No rule for a deleted project is left, in the file or in force, and none
\* comes back with a restored file or a late reload.
DeletedIsClosed == \A p \in Projects : stage[p] = "gone" => file[p] = 0 /\ loaded[p] = 0

\* The scheduler runs every goroutine; PostgreSQL handles its signals.
Fairness ==
    /\ \A a \in Actors : SF_vars(SyncPolicy(a))
    /\ \A r \in Requests : WF_vars(RecordPolicyRevision(r))
    /\ WF_vars(PassDone) /\ WF_vars(CompleteProjectDeletion) /\ WF_vars(LoadConf)
    /\ \A p \in Projects : WF_vars(DefaultPolicy(p) \/ SetReady(p)) /\ SF_vars(RunDelete(p))

FairSpec == Spec /\ Fairness

\* A recorded change of a ready project's rules is applied or reported as
\* failed ("and applies it; returns the policy state"); it is not left pending.
PolicySettles == \A p \in Projects : stage[p] = "ready" /\ state[p] = "pending" ~> state[p] # "pending" \/ stage[p] # "ready"
=============================================================================
