--------------------------- MODULE BackupSchedule ---------------------------
(***************************************************************************)
(* When a project is backed up: the policy's due times, the backoff of     *)
(* failing projects, the order in which overdue projects get the single    *)
(* job slot, and the time the dashboard announces.  The worker's passes,   *)
(* manual backups, policy changes, restarts and the passage of time        *)
(* interleave.                                                             *)
(*                                                                         *)
(* Abstractions.  Time is counted in ticks, fine enough that an attempt    *)
(* starts in a later tick than the one before it ended; the clock never    *)
(* runs backwards.  Projects are numbered in the order of created_at, id.  *)
(* A bucket is the time of the newest recoverable backup it holds of each  *)
(* project, 0 when there is none.  The store is the one active store.      *)
(***************************************************************************)
EXTENDS Integers, FiniteSets

CONSTANTS
    Projects,                                \* in the order of their creation
    FifteenMinutes, OneHour, FourHours, Day, \* in ticks
    Policies,                                \* the policies an operator may set
    MaxNow,                                  \* bound: the last tick
    MaxFaults                                \* bound: crashes, failures, removals

ASSUME ScheduleAssumption ==
    /\ Projects \subseteq Nat \ {0}
    /\ FifteenMinutes \in Nat \ {0} /\ OneHour \in Nat \ {0} /\ FourHours \in Nat \ {0}
    /\ Day \in Nat \ {0} /\ MaxNow \in Nat /\ MaxFaults \in Nat
    /\ Policies \subseteq [interval : Nat \ {0}, hour : Int]
    /\ \A p \in Policies : p.hour \in -1 .. Day - 1 /\ p.interval <= Day

VARIABLES
    now, policy,
    ready,          \* projects with stage ready and not failed
    sched,          \* backup_schedule; a missing row reads as zeros
    bucket,         \* newest recoverable backup in the bucket
    newest,         \* the same in the reconciled view
    known,          \* the store has been reconciled completely once
    job,            \* the backup that is queued or running
    pc,             \* the worker goroutine
    passed,         \* for a waiting project, those started since it waits
    streak,         \* scheduled attempts in a row that did not succeed
    notBefore,      \* what the documented backoff allows
    faults

records == <<sched, newest, known, policy>>
history == <<passed, streak, notBefore>>
vars == <<now, policy, ready, sched, bucket, newest, known, job, pc, passed, streak, notBefore,
          faults>>

NoJob == [project |-> 0, scheduled |-> FALSE, state |-> "none", taken |-> 0]
Jobs == [project : Projects, scheduled : BOOLEAN, state : {"queued", "running", "upload"}, taken : Nat]

TypeOK ==
    /\ now \in Nat /\ policy \in Policies /\ ready \subseteq Projects
    /\ sched \in [Projects -> [last : Nat, failures : Nat, next : Nat]]
    /\ bucket \in [Projects -> Nat] /\ newest \in [Projects -> Nat] /\ known \in BOOLEAN
    /\ job \in Jobs \cup {NoJob}
    /\ pc \in {"down", "start", "schedule", "reconcile", "idle", "backup"}
    /\ passed \in [Projects -> SUBSET Projects]
    /\ streak \in [Projects -> Nat] /\ notBefore \in [Projects -> Nat] /\ faults \in Nat

Init ==
    /\ now = Day /\ policy \in Policies /\ ready \in SUBSET Projects
    /\ sched = [p \in Projects |-> [last |-> 0, failures |-> 0, next |-> 0]]
    /\ bucket = [p \in Projects |-> 0] /\ newest = bucket /\ known = FALSE
    /\ job = NoJob /\ pc = "down"
    /\ passed = [p \in Projects |-> {}] /\ streak = [p \in Projects |-> 0]
    /\ notBefore = streak /\ faults = 0

Fault == faults < MaxFaults /\ faults' = faults + 1

(***************************************************************************)
(* The policy.                                                             *)
(***************************************************************************)
hourly(p) == p.hour >= 0 /\ p.interval = Day

\* The preferred hour on the day of t.
HourOf(p, t) == t - (t % Day) + p.hour

DueBefore(p, t) ==
    LET window == HourOf(p, t)
    IN  IF ~hourly(p) THEN t - p.interval
        ELSE IF window > t THEN window - Day - 1 ELSE window - 1

\* Mutant of NextAfter: the preferred hour itself counts as not yet past.
NextAfterWindow(p, t) ==
    LET next == HourOf(p, t)
    IN  IF ~hourly(p) THEN t + p.interval ELSE IF next < t THEN next + Day ELSE next

NextAfter(p, t) ==
    LET next == HourOf(p, t)
    IN  IF ~hourly(p) THEN t + p.interval ELSE IF next <= t THEN next + Day ELSE next

backoff(failures, interval) ==
    CASE failures <= 1 -> FifteenMinutes
      [] failures = 2  -> OneHour
      [] failures = 3  -> FourHours
      [] OTHER         -> interval

\* next_scheduled_at as listBackups answers it; 0 is "as soon as possible".
NextScheduledAt(p) ==
    LET due == IF newest[p] > 0 THEN NextAfter(policy, newest[p]) ELSE 0
    IN  IF sched[p].next > due THEN sched[p].next ELSE due

(***************************************************************************)
(* Starting a backup.                                                      *)
(***************************************************************************)
BackupCandidates ==
    {p \in ready : sched[p].next <= now /\ newest[p] <= DueBefore(policy, now)}

\* Mutant of LeastRecentlyAttempted: the order of creation alone.
OldestFirst(p, q) == p <= q

\* ORDER BY last_attempt_at, created_at, id.
LeastRecentlyAttempted(p, q) ==
    sched[p].last < sched[q].last \/ (sched[p].last = sched[q].last /\ p <= q)

EnqueueBackupJob(p, scheduled) ==
    /\ \A q \in Projects : sched[q].last < now
    /\ job' = [NoJob EXCEPT !.project = p, !.scheduled = scheduled, !.state = "queued"]
    /\ sched' = [sched EXCEPT ![p].last = now]

\* scheduleBackups.  Where it returns without a job the pass has no effect.
Schedulable == known /\ job = NoJob /\ BackupCandidates # {}
scheduleBackups ==
    IF Schedulable
      THEN LET C == BackupCandidates
               p == CHOOSE c \in C : \A q \in C : LeastRecentlyAttempted(c, q)
           IN  /\ EnqueueBackupJob(p, TRUE)
               /\ passed' = [q \in Projects |-> IF q \in C \ {p} THEN passed[q] \cup {p} ELSE {}]
      ELSE UNCHANGED <<job, sched, passed>>

Pass ==
    /\ pc = "schedule" \/ (pc = "idle" /\ Schedulable)
    /\ scheduleBackups /\ pc' = "idle"
    /\ UNCHANGED <<now, policy, ready, bucket, newest, known, streak, notBefore, faults>>

startBackup(p) ==
    /\ p \in ready /\ job = NoJob
    /\ EnqueueBackupJob(p, FALSE)
    /\ passed' = [passed EXCEPT ![p] = {}]
    /\ UNCHANGED <<now, policy, ready, bucket, newest, known, pc, streak, notBefore, faults>>

(***************************************************************************)
(* Running it.                                                             *)
(***************************************************************************)
Claim ==
    /\ pc = "idle" /\ job.state = "queued"
    /\ job' = [job EXCEPT !.state = "running"] /\ pc' = "backup"
    /\ UNCHANGED <<now, records, ready, bucket, history, faults>>

\* The dump is done; its time is the backup's time.
Dump ==
    /\ pc = "backup" /\ job.state = "running"
    /\ job' = [job EXCEPT !.state = "upload", !.taken = now]
    /\ UNCHANGED <<now, records, ready, bucket, history, pc, faults>>

recordOutcome(p, succeeded) ==
    LET n == sched[p].failures + 1
    IN  sched' = [sched EXCEPT ![p] =
          IF succeeded THEN [last |-> now, failures |-> 0, next |-> 0]
          ELSE [last |-> now, failures |-> n, next |-> now + backoff(n, policy.interval)]]

\* The delay documented after the n-th attempt in a row that failed.
Delay(n) == IF n <= 3 THEN <<FifteenMinutes, OneHour, FourHours>>[n] ELSE policy.interval
Remember(p, succeeded, scheduled) ==
    /\ streak' = IF succeeded THEN [streak EXCEPT ![p] = 0]
                 ELSE IF scheduled THEN [streak EXCEPT ![p] = @ + 1] ELSE streak
    /\ notBefore' = IF succeeded THEN [notBefore EXCEPT ![p] = 0]
                    ELSE IF scheduled THEN [notBefore EXCEPT ![p] = now + Delay(streak[p] + 1)]
                    ELSE notBefore

OutcomeOf(succeeded) ==
    IF succeeded \/ job.scheduled THEN recordOutcome(job.project, succeeded) ELSE UNCHANGED sched

\* An upload that does not end well may have published the backup all the same.
MaybePublished ==
    bucket' \in {bucket} \cup
        {[bucket EXCEPT ![p] = job.taken] : p \in {q \in Projects : job.project = q /\ job.state = "upload"}}

BackupSucceeds ==
    /\ pc = "backup" /\ job.state = "upload"
    /\ bucket' = [bucket EXCEPT ![job.project] = job.taken]
    /\ OutcomeOf(TRUE) /\ Remember(job.project, TRUE, job.scheduled)
    /\ job' = NoJob /\ pc' = "reconcile"
    /\ UNCHANGED <<now, policy, ready, newest, known, passed, faults>>

BackupFails ==
    /\ pc = "backup" /\ Fault
    /\ MaybePublished
    /\ OutcomeOf(FALSE) /\ Remember(job.project, FALSE, job.scheduled)
    /\ job' = NoJob /\ pc' = "idle"
    /\ UNCHANGED <<now, policy, ready, newest, known, passed>>

\* The transaction that records the result fails: the row stays running.
ResultUnrecorded ==
    /\ pc = "backup" /\ Fault
    /\ MaybePublished
    /\ job' = [job EXCEPT !.state = "running"] /\ pc' = "idle"
    /\ UNCHANGED <<now, records, ready, history>>

\* The view follows the bucket, or the pass fails and leaves it as it was.
Reconcile ==
    /\ pc \in {"start", "reconcile"}
    /\ \/ newest' = bucket /\ known' = TRUE /\ UNCHANGED faults
       \/ Fault /\ UNCHANGED <<newest, known>>
    /\ pc' = IF pc = "start" THEN "schedule" ELSE "idle"
    /\ UNCHANGED <<now, policy, ready, sched, bucket, job, history>>

\* The 15 minute branch; and reconcileIfUnknown, which schedules only when the
\* view has become known.
ReconcileTick ==
    /\ pc = "idle" /\ job.state # "queued" /\ newest # bucket /\ known
    /\ pc' = "start"
    /\ UNCHANGED <<now, records, ready, bucket, job, history, faults>>

reconcileIfUnknown ==
    /\ pc = "idle" /\ job.state # "queued" /\ ~known
    /\ newest' = bucket /\ known' = TRUE /\ pc' = "schedule"
    /\ UNCHANGED <<now, policy, ready, sched, bucket, job, history, faults>>

(***************************************************************************)
(* Restarts, the operator, time.                                           *)
(***************************************************************************)
Crash ==
    /\ pc # "down" /\ Fault
    /\ pc' = "down"
    /\ MaybePublished
    /\ job' = IF job.state = "upload" THEN [job EXCEPT !.state = "running"] ELSE job
    /\ UNCHANGED <<now, records, ready, history>>

\* Mutant of InterruptRunningJobs: the interrupted attempt is not counted.
InterruptQuietly == job' = NoJob /\ UNCHANGED sched

InterruptRunningJobs ==
    /\ job' = NoJob
    /\ IF job.scheduled THEN recordOutcome(job.project, FALSE) ELSE UNCHANGED sched

Start ==
    /\ pc = "down" /\ pc' = "start"
    /\ IF job.state = "running"
         THEN InterruptRunningJobs /\ Remember(job.project, FALSE, job.scheduled)
         ELSE UNCHANGED <<job, sched, streak, notBefore>>
    /\ UNCHANGED <<now, policy, ready, bucket, newest, known, passed, faults>>

SetBackupPolicy(p) ==
    /\ policy # p /\ policy' = p
    /\ UNCHANGED <<now, ready, sched, bucket, newest, known, job, pc, history, faults>>

BecomeReady(p) ==
    /\ p \notin ready /\ ready' = ready \cup {p}
    /\ UNCHANGED <<now, records, bucket, job, pc, history, faults>>

\* The operator removes a project's backups from the bucket.
RemoveBackups(p) ==
    /\ bucket[p] > 0 /\ Fault /\ bucket' = [bucket EXCEPT ![p] = 0]
    /\ UNCHANGED <<now, records, ready, job, pc, history>>

Advance ==
    /\ now < MaxNow /\ now' = now + 1
    /\ UNCHANGED <<records, ready, bucket, job, pc, history, faults>>

Next ==
    \/ Pass \/ Claim \/ Dump \/ BackupSucceeds \/ BackupFails \/ ResultUnrecorded
    \/ Reconcile \/ ReconcileTick \/ reconcileIfUnknown \/ Crash \/ Start \/ Advance
    \/ \E p \in Projects : startBackup(p) \/ BecomeReady(p) \/ RemoveBackups(p)
    \/ \E p \in Policies : SetBackupPolicy(p)

Spec == Init /\ [][Next]_vars

(***************************************************************************)
(* Properties.                                                             *)
(***************************************************************************)
\* A pass starts a backup of p in this step.
PassStarts(p) == job = NoJob /\ job'.project = p /\ job'.scheduled

\* "A failing database can never block the ones behind it": while a project
\* waits, overdue and past its backoff at every pass, no other project is
\* started twice, however often attempts fail, are interrupted, are made by
\* hand or leave the view of the bucket stale.
NoOvertaking ==
    [][\A p, q \in Projects : PassStarts(p) /\ q \in BackupCandidates => p \notin passed[q]]_vars

\* "A crash loop backs off instead of restarting immediately", and no longer
\* than that: an overdue project is a candidate exactly from the end of the
\* delay its n-th scheduled attempt in a row that failed, was interrupted or
\* ended unrecorded has earned.  Manual backups that fail neither add to the
\* delay nor end it.
BacksOff ==
    \A p \in ready : newest[p] <= DueBefore(policy, now) => (p \in BackupCandidates <=> now >= notBefore[p])

\* The announced time and the scheduler agree to the tick, whatever the policy
\* and wherever the newest backup lies around the preferred hour: a ready project
\* is a candidate exactly from its next_scheduled_at on.
AnnouncedIsDue ==
    \A p \in ready : p \in BackupCandidates <=> NextScheduledAt(p) <= now
=============================================================================
