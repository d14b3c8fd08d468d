----------------------------- MODULE JobQueue -----------------------------
(***************************************************************************)
(* The job queue of Pgfy: the `jobs` table and the `projects.stage`        *)
(* tombstone in SQLite, the HTTP handlers that enqueue work, the single    *)
(* jobs.Worker goroutine that claims and executes it, and the process      *)
(* crashing and restarting in between.  SQLite is opened with one          *)
(* connection, so every store function is one atomic action.               *)
(*                                                                         *)
(* Abstractions.  The three stages before "ready" are one value, "setup";  *)
(* a row that was never inserted has state "none"; job ids are tokens, so  *)
(* the order `created_at, id` is the order of `created` with ties broken   *)
(* arbitrarily.  Dumping, uploading, restoring and dropping are one step   *)
(* that succeeds or fails.  Requests pass the maintenance gate of the HTTP *)
(* server before their handler runs, so only checks made in a transaction  *)
(* guard an action here.                                                   *)
(***************************************************************************)
EXTENDS Naturals, FiniteSets

CONSTANTS
    Projects,      \* project ids; each is created at most once
    JobIds,        \* ids the queue may use
    None,          \* SQL NULL
    MaxNow,        \* bound: seconds on the clock
    MaxFaults,     \* bound: crashes, failed deletions and updates
    MaxDbErrors    \* bound: metadata writes that fail

ASSUME NoneAssumption == None \notin Projects /\ None \notin JobIds
ASSUME BoundsAssumption == MaxNow \in Nat /\ MaxFaults \in Nat /\ MaxDbErrors \in Nat

VARIABLES
    jobs,      \* the jobs table
    stage,     \* projects.stage; "absent" before and "removed" after the row exists
    failed,    \* projects.failed
    told,      \* delete_failed alert events recorded per project
    maint,     \* the maintenance flag
    now,       \* the clock, in seconds
    pc,        \* where the worker goroutine is
    cur,       \* the job it executes
    outcome,   \* the state execute will record for it
    faults, dbErrors

table == <<jobs, stage, failed, told>>
worker == <<pc, cur, outcome>>
env == <<maint, now>>
budget == <<faults, dbErrors>>
vars == <<jobs, stage, failed, told, maint, now, pc, cur, outcome, faults, dbErrors>>

Kinds == {"backup", "restore", "delete"}
States == {"none", "queued", "running", "succeeded", "failed", "interrupted"}
Stages == {"absent", "setup", "ready", "deleting", "removed"}
\* The worker: not running; in Run's start-up and ticker branches; in drain;
\* in the select; and inside execute, before and after the job's own checks.
Steps == {"down", "resume", "schedule", "drain", "wait", "prepare", "work", "commit", "record"}

Row == [state : States, kind : Kinds, project : Projects \cup {None},
        subject : Projects \cup {None}, created : Nat]
NoRow == [state |-> "none", kind |-> "backup", project |-> None,
          subject |-> None, created |-> 0]

Active(j) == jobs[j].state \in {"queued", "running"}
HasRow(p) == stage[p] \in {"setup", "ready", "deleting"}
FreeIds == {j \in JobIds : jobs[j].state = "none"}
\* An id never used before; which one carries no meaning.
NewId == CHOOSE j \in JobIds : jobs[j].state = "none"
\* Bound: requests leave ids for the retries that faults may still cause.
Room == Cardinality(FreeIds) > MaxFaults + MaxDbErrors

(***************************************************************************)
(* Inserting rows.                                                         *)
(***************************************************************************)
NewRow(kind, p) == [state |-> "queued", kind |-> kind, project |-> p,
                    subject |-> p, created |-> now]

\* enqueue: refused during maintenance and while anything is queued or running.
Enqueue(kind, p) ==
    /\ ~maint
    /\ \A j \in JobIds : ~Active(j)
    /\ Room
    /\ jobs' = [jobs EXCEPT ![NewId] = NewRow(kind, p)]

Init ==
    /\ jobs = [j \in JobIds |-> NoRow]
    /\ stage = [p \in Projects |-> "absent"]
    /\ failed = [p \in Projects |-> FALSE]
    /\ told = [p \in Projects |-> 0]
    /\ maint = FALSE /\ now = 0
    /\ pc = "down" /\ cur = None /\ outcome = "failed"
    /\ faults = 0 /\ dbErrors = 0

(***************************************************************************)
(* HTTP handlers.                                                          *)
(***************************************************************************)
CreateProject(p) ==
    /\ stage[p] = "absent"
    /\ stage' = [stage EXCEPT ![p] = "setup"]
    /\ UNCHANGED <<jobs, failed, told, worker, env, budget>>

RetryProject(p) ==
    /\ HasRow(p) /\ failed[p]
    /\ failed' = [failed EXCEPT ![p] = FALSE]
    /\ UNCHANGED <<jobs, stage, told, worker, env, budget>>

\* startBackup: the project was ready when the handler looked; by the time of
\* the insert it may be marked for deletion, but its row must still exist.
StartBackup(p) ==
    /\ stage[p] \in {"ready", "deleting"}
    /\ Enqueue("backup", p)
    /\ UNCHANGED <<stage, failed, told, worker, env, budget>>

\* startRestore, first submission: the new project and its restore job are two
\* transactions; when the queue is busy the project stays behind without a job.
StartRestore(p) ==
    /\ stage[p] = "absent"
    /\ stage' = [stage EXCEPT ![p] = "setup"]
    /\ \/ Enqueue("restore", p)
       \/ UNCHANGED jobs
    /\ UNCHANGED <<failed, told, worker, env, budget>>

\* ProjectJobs(p, 1): no row of p is newer; ties on the second are arbitrary.
Newest(j, p) ==
    /\ jobs[j].project = p
    /\ \A k \in JobIds : jobs[k].project = p => jobs[k].created <= jobs[j].created

\* startRestore, the same submission again: answered with the project's newest
\* job if that is a restore, otherwise a restore is enqueued.
ReplayRestore(p) ==
    /\ HasRow(p)
    /\ \/ \A j \in JobIds : jobs[j].project # p
       \/ \E j \in JobIds : Newest(j, p) /\ jobs[j].kind # "restore"
    /\ Enqueue("restore", p)
    /\ UNCHANGED <<stage, failed, told, worker, env, budget>>

ActiveDelete(p) == \E j \in JobIds : Active(j) /\ jobs[j].kind = "delete" /\ jobs[j].project = p

\* Mutant of BeginDeletion: no check for a job running against the project.
BeginDeletionWhileRunning(p) ==
    /\ ~maint
    /\ stage[p] = "ready" \/ (stage[p] = "setup" /\ failed[p])
    /\ Room
    /\ jobs' = [jobs EXCEPT ![NewId] = NewRow("delete", p)]
    /\ stage' = [stage EXCEPT ![p] = "deleting"]
    /\ failed' = [failed EXCEPT ![p] = FALSE]
    /\ UNCHANGED <<told, worker, env, budget>>

\* BeginProjectDeletion on a project not yet marked: the tombstone, cancelling
\* its queued jobs and queueing the delete job are one transaction.
BeginDeletion(p) ==
    /\ ~maint
    /\ stage[p] = "ready" \/ (stage[p] = "setup" /\ failed[p])
    /\ \A j \in JobIds : ~(jobs[j].project = p /\ jobs[j].state = "running")
    /\ Room
    /\ jobs' = [j \in JobIds |->
                  IF j = NewId THEN NewRow("delete", p)
                  ELSE IF jobs[j].project = p /\ jobs[j].state = "queued" /\ jobs[j].kind # "delete"
                       THEN [jobs[j] EXCEPT !.state = "failed"]
                       ELSE jobs[j]]
    /\ stage' = [stage EXCEPT ![p] = "deleting"]
    /\ failed' = [failed EXCEPT ![p] = FALSE]
    /\ UNCHANGED <<told, worker, env, budget>>

\* BeginProjectDeletion on a marked project: retries only a stopped deletion.
RetryDeletion(p) ==
    /\ ~maint
    /\ stage[p] = "deleting"
    /\ ~ActiveDelete(p)
    /\ FreeIds # {}
    /\ jobs' = [jobs EXCEPT ![NewId] = NewRow("delete", p)]
    /\ UNCHANGED <<stage, failed, told, worker, env, budget>>

(***************************************************************************)
(* The provisioner loop, reduced to what it does to the projects row.  A   *)
(* failure is written after the project's lock is released, so it may land *)
(* while another attempt goes on, or after that attempt made it ready.     *)
(***************************************************************************)
\* Mutant of ProvisionProject: SetProjectStage without its stage<>'deleting'.
ProvisionAnyProject(p) ==
    /\ stage[p] \in {"setup", "deleting"}
    /\ stage' = [stage EXCEPT ![p] = "ready"]
    /\ UNCHANGED <<jobs, failed, told, worker, env, budget>>

ProvisionProject(p) ==
    /\ stage[p] = "setup"
    /\ stage' = [stage EXCEPT ![p] = "ready"]
    /\ UNCHANGED <<jobs, failed, told, worker, env, budget>>

FailProject(p) ==
    /\ stage[p] \in {"setup", "ready"} /\ ~failed[p]
    /\ failed' = [failed EXCEPT ![p] = TRUE]
    /\ UNCHANGED <<jobs, stage, told, worker, env, budget>>

(***************************************************************************)
(* The worker goroutine.                                                   *)
(***************************************************************************)
Fault == faults < MaxFaults /\ faults' = faults + 1
DbError == dbErrors < MaxDbErrors /\ dbErrors' = dbErrors + 1

SetState(j, s) == [jobs EXCEPT ![j].state = s]
GoTo(step) == pc' = step /\ UNCHANGED <<cur, outcome>>
\* execute returns to drain.
Return == pc' = "drain" /\ cur' = None /\ outcome' = "failed"

\* Run's first step, InterruptRunningJobs, on a fresh process.
Start ==
    /\ pc = "down"
    /\ jobs' = [j \in JobIds |->
                  IF jobs[j].state = "running" THEN [jobs[j] EXCEPT !.state = "interrupted"] ELSE jobs[j]]
    /\ GoTo("resume")
    /\ UNCHANGED <<stage, failed, told, env, budget>>

\* The same step failing: it is logged and the worker carries on.
StartWithoutInterrupt ==
    /\ pc = "down"
    /\ DbError
    /\ GoTo("resume")
    /\ UNCHANGED <<table, env, faults>>

\* ResumeDeletions, at start-up and on the 15 minute ticker.
ResumeDeletions ==
    /\ pc = "resume"
    /\ GoTo("schedule")
    /\ LET pending == {p \in Projects : stage[p] = "deleting" /\ ~ActiveDelete(p)} IN
       IF maint \/ pending = {}
         THEN UNCHANGED jobs
         ELSE \E f \in [pending -> FreeIds] :
                /\ \A p, q \in pending : f[p] = f[q] => p = q
                /\ jobs' = [j \in JobIds |->
                              IF \E p \in pending : f[p] = j
                                THEN NewRow("delete", CHOOSE p \in pending : f[p] = j)
                                ELSE jobs[j]]
    /\ UNCHANGED <<stage, failed, told, env, budget>>

\* scheduleBackups: at most one overdue project is enqueued; which projects are
\* overdue is the concern of module BackupSchedule.
ScheduleBackups ==
    /\ pc = "schedule"
    /\ GoTo("drain")
    /\ \/ UNCHANGED jobs
       \/ \E p \in Projects : stage[p] = "ready" /\ ~failed[p] /\ Enqueue("backup", p)
    /\ UNCHANGED <<stage, failed, told, env, budget>>

\* ClaimJob: the oldest queued job, unless maintenance holds the queue.
ClaimJob ==
    /\ pc = "drain"
    /\ ~maint
    /\ \E j \in JobIds :
         /\ jobs[j].state = "queued"
         /\ \A k \in JobIds : jobs[k].state = "queued" => jobs[j].created <= jobs[k].created
         /\ jobs' = SetState(j, "running")
         /\ cur' = j
    /\ pc' = "prepare" /\ outcome' = "failed"
    /\ UNCHANGED <<stage, failed, told, env, budget>>

\* ClaimJob returned nil: drain ends and Run waits in its select.
QueueEmpty ==
    /\ pc = "drain"
    /\ maint \/ \A j \in JobIds : jobs[j].state # "queued"
    /\ GoTo("wait")
    /\ UNCHANGED <<table, env, budget>>

\* Mutant of Wake: the ticker reconciles but no longer resumes deletions.
WakeWithoutResume ==
    /\ pc = "wait"
    /\ \E step \in {"schedule", "drain"} : GoTo(step)
    /\ UNCHANGED <<table, env, budget>>

\* A kick or a ticker: which branch of the select runs decides what follows.
Wake ==
    /\ pc = "wait"
    /\ \E step \in {"resume", "schedule", "drain"} : GoTo(step)
    /\ UNCHANGED <<table, env, budget>>

Running(kind) == cur # None /\ jobs[cur].kind = kind

\* runBackup up to its check of the project; any later failure is in Work.
PrepareBackup ==
    /\ pc = "prepare" /\ Running("backup")
    /\ LET p == jobs[cur].project IN
       IF p # None /\ stage[p] = "ready" /\ ~failed[p] THEN GoTo("work") ELSE GoTo("record")
    /\ UNCHANGED <<table, env, budget>>

\* runRestore up to pg_restore: the download may fail, ProvisionNow refuses a
\* failed project, finishes one in setup (or fails it), and the project must
\* then be ready.
PrepareRestore ==
    /\ pc = "prepare" /\ Running("restore")
    /\ LET p == jobs[cur].subject IN
       \/ GoTo("record") /\ UNCHANGED <<stage, failed>>
       \/ /\ stage[p] = "ready" /\ ~failed[p]
          /\ GoTo("work") /\ UNCHANGED <<stage, failed>>
       \/ /\ stage[p] = "setup" /\ ~failed[p]
          /\ \/ /\ stage' = [stage EXCEPT ![p] = "ready"]
                /\ GoTo("work") /\ UNCHANGED failed
             \/ /\ failed' = [failed EXCEPT ![p] = TRUE]
                /\ GoTo("record") /\ UNCHANGED stage
    /\ UNCHANGED <<jobs, told, env, budget>>

\* runDelete reads the project under its lock; only a marked one is removed.
PrepareDelete ==
    /\ pc = "prepare" /\ Running("delete")
    /\ IF stage[jobs[cur].subject] = "deleting" THEN GoTo("work") ELSE GoTo("record")
    /\ UNCHANGED <<table, env, budget>>

\* The dump and upload, or the restore, ends one way or the other.
Work ==
    /\ pc = "work" /\ ~Running("delete")
    /\ pc' = "record" /\ outcome' \in {"succeeded", "failed"} /\ UNCHANGED cur
    /\ UNCHANGED <<table, env, budget>>

\* DropProject and SyncPolicy.
WorkDelete ==
    /\ pc = "work" /\ Running("delete")
    /\ \/ GoTo("commit") /\ UNCHANGED faults
       \/ GoTo("record") /\ Fault
    /\ UNCHANGED <<table, env, dbErrors>>

\* CompleteProjectDeletion: removing the project, unlinking its history and
\* finishing the job are one transaction.
CompleteProjectDeletion ==
    /\ pc = "commit"
    /\ LET p == jobs[cur].subject IN
       /\ stage[p] = "deleting"
       /\ stage' = [stage EXCEPT ![p] = "removed"]
       /\ jobs' = [j \in JobIds |->
                     [jobs[j] EXCEPT !.project = IF @ = p THEN None ELSE @,
                                     !.state = IF j = cur THEN "succeeded" ELSE @]]
    /\ Return
    /\ UNCHANGED <<failed, told, env, budget>>

CompleteProjectDeletionFails ==
    /\ pc = "commit"
    /\ IF stage[jobs[cur].subject] # "deleting" THEN UNCHANGED dbErrors ELSE DbError
    /\ GoTo("record")
    /\ UNCHANGED <<table, env, faults>>

\* FinishJob for a restore, CompleteBackupJob for a backup.
RecordResult ==
    /\ pc = "record" /\ ~Running("delete")
    /\ jobs' = SetState(cur, outcome)
    /\ Return
    /\ UNCHANGED <<stage, failed, told, env, budget>>

\* Mutant of EarlierFailure: an interruption counts as a failure already told.
EarlierAttempt(p) ==
    \E j \in JobIds \ {cur} : jobs[j].kind = "delete" /\ jobs[j].project = p
                               /\ jobs[j].state \in {"failed", "interrupted"}

EarlierFailure(p) ==
    \E j \in JobIds \ {cur} : jobs[j].kind = "delete" /\ jobs[j].project = p /\ jobs[j].state = "failed"

FailDeleteJob ==
    /\ pc = "record" /\ Running("delete")
    /\ LET p == jobs[cur].subject IN
       told' = IF EarlierFailure(p) THEN told ELSE [told EXCEPT ![p] = @ + 1]
    /\ jobs' = SetState(cur, "failed")
    /\ Return
    /\ UNCHANGED <<stage, failed, env, budget>>

\* Recording the result fails: it is logged, the row stays running, and the
\* worker goes on with the next job.
RecordFails ==
    /\ pc = "record"
    /\ DbError
    /\ Return
    /\ UNCHANGED <<table, env, faults>>

\* The process dies, or is stopped: execute leaves the row running.
Crash ==
    /\ pc # "down"
    /\ Fault
    /\ pc' = "down" /\ cur' = None /\ outcome' = "failed"
    /\ UNCHANGED <<table, env, dbErrors>>

\* pgfy maintenance on|off, run on the host by an update.
MaintenanceOn ==
    /\ ~maint
    /\ Fault
    /\ maint' = TRUE
    /\ UNCHANGED <<table, worker, now, dbErrors>>

MaintenanceOff ==
    /\ maint
    /\ maint' = FALSE
    /\ UNCHANGED <<table, worker, now, budget>>

Tick ==
    /\ now < MaxNow
    /\ now' = now + 1
    /\ UNCHANGED <<table, worker, maint, budget>>

Requests(p) ==
    \/ CreateProject(p) \/ RetryProject(p) \/ StartBackup(p) \/ StartRestore(p)
    \/ ReplayRestore(p) \/ BeginDeletion(p) \/ RetryDeletion(p)

Provisioner(p) == ProvisionProject(p) \/ FailProject(p)

WorkerStep ==
    \/ Start \/ StartWithoutInterrupt \/ ResumeDeletions \/ ScheduleBackups \/ ClaimJob
    \/ QueueEmpty \/ Wake \/ PrepareBackup \/ PrepareRestore \/ PrepareDelete \/ Work
    \/ WorkDelete \/ CompleteProjectDeletion \/ CompleteProjectDeletionFails
    \/ RecordResult \/ FailDeleteJob \/ RecordFails

Next ==
    \/ \E p \in Projects : Requests(p) \/ Provisioner(p)
    \/ WorkerStep
    \/ Crash \/ MaintenanceOn \/ MaintenanceOff \/ Tick

Spec == Init /\ [][Next]_vars

(***************************************************************************)
(* Properties.                                                             *)
(***************************************************************************)
TypeOK ==
    /\ jobs \in [JobIds -> Row]
    /\ stage \in [Projects -> Stages]
    /\ failed \in [Projects -> BOOLEAN]
    /\ told \in [Projects -> Nat]
    /\ maint \in BOOLEAN /\ now \in Nat
    /\ pc \in Steps /\ cur \in JobIds \cup {None} /\ outcome \in {"succeeded", "failed"}
    /\ faults \in Nat /\ dbErrors \in Nat

\* Only one backup or restore is queued or running at a time, whatever deletions
\* queue behind it, across crashes and failed writes (EnqueueJob's comment).
OneHeavyJob ==
    \A j, k \in JobIds : /\ Active(j) /\ jobs[j].kind # "delete"
                          /\ Active(k) /\ jobs[k].kind # "delete"
                          => j = k

\* The deletion request, its retry and the start-up and ticker resumption never
\* leave a project with two delete jobs waiting or running, and a delete job is
\* only ever active for a project that carries the tombstone.
DeleteJobsMatchTombstones ==
    \A j \in JobIds :
        Active(j) /\ jobs[j].kind = "delete" =>
            /\ jobs[j].project = jobs[j].subject
            /\ jobs[j].subject # None /\ stage[jobs[j].subject] = "deleting"
            /\ \A k \in JobIds : Active(k) /\ jobs[k].kind = "delete"
                                   /\ jobs[k].project = jobs[j].project => k = j

\* No dump, upload or restore is under way for a project that is being deleted
\* or is gone: deleting it underneath would make the job's result a lie.
NoWorkOnDeleting ==
    pc = "work" /\ cur # None /\ jobs[cur].kind # "delete" => stage[jobs[cur].subject] = "ready"

\* A restore targets a brand-new project, and repeating the request never
\* restores into that project again (startRestore's comments).
AtMostOneRestore ==
    \A j, k \in JobIds : /\ jobs[j].state # "none" /\ jobs[j].kind = "restore"
                          /\ jobs[k].state # "none" /\ jobs[k].kind = "restore"
                          /\ jobs[j].subject = jobs[k].subject
                          => j = k

\* The administrator is told about a failing deletion once, on its first
\* failure, however often it is interrupted, retried or resumed.
ToldOnFirstFailure ==
    \A p \in Projects :
        told[p] = IF \E j \in JobIds : jobs[j].kind = "delete" /\ jobs[j].subject = p
                                         /\ jobs[j].state = "failed" THEN 1 ELSE 0

\* What the properties above rest on: a row that exists names its project, by
\* project_id until the deletion clears the reference, and the foreign key holds;
\* the worker executes exactly the row it claimed, which stays running.
RowLinks ==
    \A j \in JobIds :
        IF jobs[j].state = "none"
          THEN jobs[j].project = None /\ jobs[j].subject = None
          ELSE /\ jobs[j].subject \in Projects
               /\ \/ jobs[j].project = jobs[j].subject /\ HasRow(jobs[j].subject)
                  \/ jobs[j].project = None /\ stage[jobs[j].subject] = "removed"

WorkerOwnsRow ==
    /\ pc \in {"prepare", "work", "commit", "record"} <=> cur # None
    /\ cur # None => jobs[cur].state = "running"
    /\ pc = "commit" => jobs[cur].kind = "delete"

\* The inductive invariant: it holds initially and every action preserves it.
QueueInvariant ==
    /\ TypeOK /\ RowLinks /\ WorkerOwnsRow
    /\ OneHeavyJob /\ DeleteJobsMatchTombstones /\ NoWorkOnDeleting

\* A project marked for deletion is never anything else again until its row is
\* gone, whatever a provisioning attempt or a late failure writes.
TombstoneIsFinal ==
    [][\A p \in Projects : stage[p] = "deleting" => stage'[p] \in {"deleting", "removed"}]_vars

\* What the table shows a client of the queue, in the terms of QueueContract.
HeavyJobs == {j \in JobIds : Active(j) /\ jobs[j].kind # "delete"}
DeleteJobs(p) == {j \in JobIds : Active(j) /\ jobs[j].kind = "delete" /\ jobs[j].subject = p}
Life(p) == IF stage[p] \in {"deleting", "removed"} THEN stage[p] ELSE "open"
Result(j) == IF Active(j) THEN "open" ELSE jobs[j].state

Contract == INSTANCE QueueContract WITH
    heavy <- HeavyJobs,
    deleters <- [p \in Projects |-> DeleteJobs(p)],
    life <- [p \in Projects |-> Life(p)],
    result <- [j \in JobIds |-> Result(j)]

\* The table, the worker and the handlers, with crashes, failed writes and
\* maintenance, implement the contract: a backup or restore is only accepted by
\* an idle queue, a recorded result is final, and a project marked for deletion
\* is never anything but marked until its own delete job succeeds.
KeepsContract == Contract!Spec

\* The worker goroutine always runs; its select has tickers on every branch, so
\* the 15 minute one is taken again and again; an update ends maintenance.
Fairness ==
    /\ WF_vars(WorkerStep)
    /\ SF_vars(pc = "wait" /\ Wake /\ pc' = "resume")
    /\ WF_vars(MaintenanceOff)

FairSpec == Spec /\ Fairness

\* A deletion that was accepted is carried out, through failed attempts, crashes
\* and updates: it is retried automatically until the project is gone.
DeletionCompletes == \A p \in Projects : stage[p] = "deleting" ~> stage[p] = "removed"

\* The same, unless a metadata write failed on the way.
DeletionsFinish == \A p \in Projects : stage[p] = "deleting" ~> stage[p] = "removed" \/ dbErrors > 0
=============================================================================
