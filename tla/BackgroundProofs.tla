-------------------------- MODULE BackgroundProofs -------------------------
(***************************************************************************)
(* The workers that run beside the requests: BackupSchedule, for any       *)
(* projects, delays and policies; and Guardrails, for any limits and       *)
(* requests.                                                               *)
(***************************************************************************)
EXTENDS BackupSchedule, Guardrails, WellFoundedInduction, TLAPS

\* Leaves that need arithmetic, records or many cases cite SMT.
USE Zenon

(***************************************************************************)
(* The calendar.                                                           *)
(***************************************************************************)
\* Midnight before t.
Midnight(t) == t - (t % Day)

LEMMA DayIsLong == Day \in Nat \ {0}
  BY ScheduleAssumption

\* Where a time lies in its day; midnights are whole days from the start.
LEMMA Midnights ==
    ASSUME NEW t \in Nat
    PROVE  /\ Midnight(t) \in Nat /\ Midnight(t) <= t /\ t < Midnight(t) + Day
           /\ \E k \in Nat : Midnight(t) = Day * k
  <1>1. t % Day \in 0 .. Day - 1 /\ t \div Day \in Nat /\ t = Day * (t \div Day) + (t % Day)
    BY DayIsLong, SMT
  <1> QED
    BY <1>1, DayIsLong, SMT DEF Midnight

\* Two times lie on the same day, on consecutive days or further apart.
LEMMA DaysApart ==
    ASSUME NEW t \in Nat, NEW u \in Nat, t <= u
    PROVE  \/ Midnight(u) = Midnight(t) \/ Midnight(u) = Midnight(t) + Day
           \/ Midnight(u) >= Midnight(t) + 2 * Day
  <1>1. PICK k \in Nat : Midnight(t) = Day * k
    BY Midnights
  <1>2. PICK m \in Nat : Midnight(u) = Day * m
    BY Midnights
  <1>3. /\ Day * (m + 1) = Day * m + Day /\ Day * (k + 1) = Day * k + Day
        /\ Day * (k + 2) = Day * k + 2 * Day
    BY DayIsLong, SMT
  <1>4. Midnight(t) <= t /\ u < Midnight(u) + Day /\ Midnight(t) \in Nat /\ Midnight(u) \in Nat
    BY Midnights
  <1>5. k <= m
    <2>1. ASSUME m + 1 <= k PROVE FALSE
      <3>1. Day * (m + 1) <= Day * k
        BY <2>1, DayIsLong, SMT
      <3> QED
        BY <1>1, <1>2, <1>3, <1>4, <3>1, DayIsLong, SMT
    <2> QED
      BY <2>1, SMT
  <1>6. CASE k + 2 <= m
    <2>1. Day * (k + 2) <= Day * m
      BY <1>6, DayIsLong, SMT
    <2> QED
      BY <1>1, <1>2, <1>3, <1>4, <2>1, DayIsLong
  <1>7. CASE m = k \/ m = k + 1
    BY <1>1, <1>2, <1>3, <1>7
  <1> QED
    BY <1>5, <1>6, <1>7, SMT

\* The scheduler's question and the dashboard's answer agree on every pair of
\* times: a backup taken at n is too old at t exactly when the time after n has
\* come.
LEMMA DueIsNext ==
    ASSUME NEW p \in Policies, NEW n \in Nat, NEW t \in Nat
    PROVE  n <= DueBefore(p, t) <=> NextAfter(p, n) <= t
  <1>0. p.interval \in Nat \ {0} /\ p.hour \in -1 .. Day - 1
    BY ScheduleAssumption
  <1>1. CASE ~hourly(p)
    BY <1>0, <1>1, SMT DEF DueBefore, NextAfter
  <1>2. CASE hourly(p)
    <2>1. p.hour \in 0 .. Day - 1
      BY <1>0, <1>2, DayIsLong, SMT DEF hourly
    <2>2. HourOf(p, n) = Midnight(n) + p.hour /\ HourOf(p, t) = Midnight(t) + p.hour
      BY DEF HourOf, Midnight
    <2>3. /\ Midnight(n) \in Nat /\ Midnight(n) <= n /\ n < Midnight(n) + Day
          /\ Midnight(t) \in Nat /\ Midnight(t) <= t /\ t < Midnight(t) + Day
      BY Midnights
    <2>4. DueBefore(p, t) = IF Midnight(t) + p.hour > t THEN Midnight(t) + p.hour - Day - 1 ELSE Midnight(t) + p.hour - 1
      BY <1>2, <2>1, <2>2, <2>3, DayIsLong, SMT DEF DueBefore
    <2>5. NextAfter(p, n) = IF Midnight(n) + p.hour <= n THEN Midnight(n) + p.hour + Day ELSE Midnight(n) + p.hour
      BY <1>2, <2>1, <2>2, <2>3, DayIsLong DEF NextAfter
    <2>6. CASE n <= t
      <3>1. \/ Midnight(t) = Midnight(n) \/ Midnight(t) = Midnight(n) + Day
            \/ Midnight(t) >= Midnight(n) + 2 * Day
        BY <2>6, DaysApart
      <3>2. CASE Midnight(n) = Midnight(t)
        BY <2>1, <2>3, <2>4, <2>5, <2>6, <3>2, DayIsLong, SMT
      <3>3. CASE Midnight(t) = Midnight(n) + Day
        BY <2>1, <2>3, <2>4, <2>5, <2>6, <3>3, DayIsLong, SMT
      <3>4. CASE Midnight(t) >= Midnight(n) + 2 * Day
        BY <2>1, <2>3, <2>4, <2>5, <2>6, <3>4, DayIsLong, SMT
      <3> QED
        BY <3>1, <3>2, <3>3, <3>4
    <2>7. CASE t < n
      BY <2>1, <2>3, <2>4, <2>5, <2>7, DayIsLong, SMT
    <2> QED
      BY <2>6, <2>7, SMT
  <1> QED
    BY <1>1, <1>2

\* After the first day every project without a backup is due.
LEMMA NothingIsDue ==
    ASSUME NEW p \in Policies, NEW t \in Nat, Day <= t
    PROVE  0 <= DueBefore(p, t)
  <1>0. p.interval \in 1 .. Day /\ p.hour \in -1 .. Day - 1
    BY ScheduleAssumption, SMT
  <1>1. CASE ~hourly(p)
    BY <1>0, <1>1, DayIsLong, SMT DEF DueBefore
  <1>2. CASE hourly(p)
    <2>1. p.hour \in 0 .. Day - 1
      BY <1>0, <1>2, DayIsLong, SMT DEF hourly
    <2>2. HourOf(p, t) = Midnight(t) + p.hour
      BY DEF HourOf, Midnight
    <2>3. Midnight(t) \in Nat /\ Midnight(t) <= t /\ t < Midnight(t) + Day
      BY Midnights
    <2>4. Midnight(Day) = Day
      BY DayIsLong, SMT DEF Midnight
    <2>5. Day <= Midnight(t)
      BY <2>3, <2>4, DaysApart, DayIsLong, SMT
    <2> QED
      BY <1>2, <2>1, <2>2, <2>3, <2>5, DayIsLong, SMT DEF DueBefore
  <1> QED
    BY <1>1, <1>2

(***************************************************************************)
(* The inductive invariant.                                                *)
(***************************************************************************)
Schedule == [last : Nat, failures : Nat, next : Nat]

\* The worker backs up only a job it claimed, and only the worker uploads.
WorkerHasJob ==
    /\ pc = "backup" => job.state \in {"running", "upload"}
    /\ job.state = "upload" => pc = "backup"

\* The stored failures and next time are what the attempts in a row have earned.
BackoffIsEarned == \A p \in Projects : sched[p].next = notBefore[p] /\ sched[p].failures = streak[p]

\* Who has passed a waiting project was tried after it, and nobody has passed the
\* one whose turn it is.
TurnsInOrder ==
    /\ \A p \in Projects : sched[p].last <= now
    /\ \A p \in Projects : p = job.project => passed[p] = {}
    /\ \A q \in Projects : \A p \in passed[q] : sched[q].last < sched[p].last

ScheduleInvariant ==
    TypeOK /\ Day <= now /\ WorkerHasJob /\ BackoffIsEarned /\ TurnsInOrder

LEMMA NoJobFields == NoJob.project = 0 /\ NoJob.state = "none" /\ ~NoJob.scheduled /\ NoJob.taken = 0
  BY DEF NoJob

LEMMA JobFields ==
    ASSUME TypeOK, job.state # "none"
    PROVE  /\ job \in Jobs /\ job.project \in Projects /\ job.taken \in Nat
           /\ job.state \in {"queued", "running", "upload"} /\ job.scheduled \in BOOLEAN
  BY NoJobFields DEF TypeOK, Jobs

LEMMA NobodyIsZero == 0 \notin Projects
  BY ScheduleAssumption

\* A job row in another state, or with another time.
LEMMA JobMoves ==
    ASSUME NEW j \in Jobs, NEW s \in {"queued", "running", "upload"}
    PROVE  /\ [j EXCEPT !.state = s] \in Jobs
           /\ [j EXCEPT !.state = s].project = j.project /\ [j EXCEPT !.state = s].state = s
           /\ \A t \in Nat : /\ [j EXCEPT !.state = s, !.taken = t] \in Jobs
                             /\ [j EXCEPT !.state = s, !.taken = t].project = j.project
                             /\ [j EXCEPT !.state = s, !.taken = t].state = s
  BY DEF Jobs

LEMMA ScheduleInit == Init => ScheduleInvariant
  <1> SUFFICES ASSUME Init PROVE ScheduleInvariant
    OBVIOUS
  <1> USE DEF Init
  <1>1. known \in BOOLEAN
    OBVIOUS
  <1>2. TypeOK
    BY <1>1, ScheduleAssumption DEF TypeOK
  <1>3. WorkerHasJob /\ BackoffIsEarned
    BY NoJobFields DEF WorkerHasJob, BackoffIsEarned
  <1>4. TurnsInOrder
    BY ScheduleAssumption, SMT DEF TurnsInOrder
  <1> QED
    BY <1>2, <1>3, <1>4, ScheduleAssumption, SMT DEF ScheduleInvariant

(***************************************************************************)
(* Whose turn it is.                                                       *)
(***************************************************************************)
\* A set of natural numbers has a least one.
LEMMA LeastNumber ==
    ASSUME NEW T, T \subseteq Nat, T # {}
    PROVE  \E x \in T : \A y \in T : x <= y
  <1> DEFINE R == OpToRel(<, Nat)
  <1>1. PICK x \in T : \A y \in T : ~ (<<y, x>> \in R)
    <2>1. IsWellFoundedOn(R, Nat)
      BY NatLessThanWellFounded
    <2> HIDE DEF R
    <2> QED
      BY <2>1, WFMin
  <1>2. \A y \in T : ~ (y < x)
    BY <1>1 DEF OpToRel
  <1> QED
    BY <1>2, SMT

\* ORDER BY last_attempt_at, created_at, id LIMIT 1 has an answer.
LEMMA SomebodyIsFirst ==
    ASSUME TypeOK, NEW C, C \subseteq Projects, C # {}
    PROVE  \E c \in C : \A q \in C : LeastRecentlyAttempted(c, q)
  <1>0. \A c \in C : sched[c].last \in Nat /\ c \in Nat
    BY ScheduleAssumption DEF TypeOK
  <1> DEFINE L == {sched[c].last : c \in C}
  <1>1. PICK l \in L : \A k \in L : l <= k
    BY <1>0, LeastNumber
  <1> DEFINE D == {c \in C : sched[c].last = l}
  <1>2. PICK d \in D : \A e \in D : d <= e
    BY <1>0, <1>1, LeastNumber
  <1>3. ASSUME NEW q \in C PROVE LeastRecentlyAttempted(d, q)
    <2>1. d \in C /\ sched[d].last = l /\ l <= sched[q].last
      BY <1>1, <1>2
    <2>2. sched[q].last = l => d <= q
      BY <1>2
    <2> HIDE DEF D, L
    <2>3. sched[d].last \in Nat /\ sched[q].last \in Nat
      BY <1>0, <2>1
    <2> QED
      BY <2>1, <2>2, <2>3, SMT DEF LeastRecentlyAttempted
  <1> QED
    BY <1>2, <1>3

(***************************************************************************)
(* Outcomes.                                                               *)
(***************************************************************************)
\* What recordOutcome stores after the n-th failure is what is documented.
LEMMA BackoffIsDelay ==
    ASSUME TypeOK, NEW n \in Nat \ {0}
    PROVE  backoff(n, policy.interval) = Delay(n) /\ Delay(n) \in Nat
  <1>1. policy.interval \in Nat
    BY ScheduleAssumption DEF TypeOK
  <1>2. FifteenMinutes \in Nat /\ OneHour \in Nat /\ FourHours \in Nat
    BY ScheduleAssumption
  <1>3. CASE n \in {1, 2, 3}
    BY <1>2, <1>3, SMT DEF backoff, Delay
  <1>4. CASE n > 3
    BY <1>1, <1>4, SMT DEF backoff, Delay
  <1> QED
    BY <1>3, <1>4, SMT

\* The end of an attempt, however it ends.
LEMMA OutcomeKeeps ==
    ASSUME ScheduleInvariant, job.state # "none", NEW succeeded \in BOOLEAN,
           OutcomeOf(succeeded), Remember(job.project, succeeded, job.scheduled),
           UNCHANGED <<now, passed>>
    PROVE  /\ sched' \in [Projects -> Schedule] /\ streak' \in [Projects -> Nat] /\ notBefore' \in [Projects -> Nat]
           /\ BackoffIsEarned'
           /\ \A p \in Projects : sched'[p].last <= now'
           /\ \A q \in Projects : \A p \in passed'[q] : sched'[q].last < sched'[p].last
  <1> DEFINE p == job.project
  <1>1. p \in Projects /\ job.scheduled \in BOOLEAN
    BY JobFields DEF ScheduleInvariant
  <1>2. /\ sched \in [Projects -> Schedule] /\ streak \in [Projects -> Nat] /\ notBefore \in [Projects -> Nat]
        /\ now \in Nat /\ passed \in [Projects -> SUBSET Projects]
    BY DEF ScheduleInvariant, TypeOK, Schedule
  <1>3. \A r \in Projects : /\ sched[r].last \in Nat /\ sched[r].failures \in Nat /\ sched[r].next \in Nat
                            /\ sched[r].next = notBefore[r] /\ sched[r].failures = streak[r] /\ sched[r].last <= now
    BY <1>2 DEF ScheduleInvariant, BackoffIsEarned, TurnsInOrder, Schedule
  <1>4. CASE succeeded
    <2>1. sched' = [sched EXCEPT ![p] = [last |-> now, failures |-> 0, next |-> 0]]
      BY <1>4 DEF OutcomeOf, recordOutcome
    <2>2. streak' = [streak EXCEPT ![p] = 0] /\ notBefore' = [notBefore EXCEPT ![p] = 0]
      BY <1>4 DEF Remember
    <2>3. [last |-> now, failures |-> 0, next |-> 0] \in Schedule
      BY <1>2 DEF Schedule
    <2> QED
      BY <1>1, <1>2, <1>3, <2>1, <2>2, <2>3, SMT DEF ScheduleInvariant, BackoffIsEarned, TurnsInOrder
  <1>5. CASE ~succeeded /\ job.scheduled
    <2> DEFINE n == sched[p].failures + 1
               d == Delay(streak[p] + 1)
    <2>1. n = streak[p] + 1 /\ n \in Nat \ {0}
      BY <1>1, <1>3, SMT
    <2>2. d = backoff(n, policy.interval) /\ d \in Nat
      BY <2>1, BackoffIsDelay DEF ScheduleInvariant
    <2>3. sched' = [sched EXCEPT ![p] = [last |-> now, failures |-> n, next |-> now + d]]
      BY <1>5, <2>2 DEF OutcomeOf, recordOutcome
    <2>4. streak' = [streak EXCEPT ![p] = n] /\ notBefore' = [notBefore EXCEPT ![p] = now + d]
      BY <1>5, <2>1 DEF Remember
    <2> HIDE DEF n, d
    <2>5. [last |-> now, failures |-> n, next |-> now + d] \in Schedule
      BY <1>2, <2>1, <2>2, SMT DEF Schedule
    <2> QED
      BY <1>1, <1>2, <1>3, <2>1, <2>2, <2>3, <2>4, <2>5, SMT DEF ScheduleInvariant, BackoffIsEarned, TurnsInOrder
  <1>6. CASE ~succeeded /\ ~job.scheduled
    <2>1. UNCHANGED <<sched, streak, notBefore>>
      BY <1>6 DEF OutcomeOf, Remember
    <2> QED
      BY <1>2, <2>1 DEF ScheduleInvariant, BackoffIsEarned, TurnsInOrder
  <1> QED
    BY <1>1, <1>4, <1>5, <1>6

\* Where an upload may leave the bucket.
LEMMA PublishKeeps ==
    ASSUME TypeOK, MaybePublished
    PROVE  bucket' \in [Projects -> Nat]
  <1>1. CASE bucket' = bucket
    BY <1>1 DEF TypeOK
  <1>2. CASE \E p \in Projects : job.state = "upload" /\ bucket' = [bucket EXCEPT ![p] = job.taken]
    BY <1>2, JobFields DEF TypeOK
  <1> QED
    BY <1>1, <1>2 DEF MaybePublished

(***************************************************************************)
(* Every step keeps the invariant.                                         *)
(***************************************************************************)
\* A backup is queued, by a pass or by hand.
LEMMA EnqueueKeeps ==
    ASSUME ScheduleInvariant, NEW p \in Projects, NEW scheduled \in BOOLEAN, job = NoJob,
           EnqueueBackupJob(p, scheduled), pc' \in {"idle", pc}, pc # "backup",
           passed' \in [Projects -> SUBSET Projects], passed'[p] = {},
           \A q \in Projects : passed'[q] \subseteq passed[q] \cup {p},
           UNCHANGED <<now, policy, ready, bucket, newest, known, streak, notBefore, faults>>
    PROVE  ScheduleInvariant'
  <1>1. /\ job' \in Jobs /\ job'.project = p /\ job'.state = "queued"
    <2>1. job' = [project |-> p, scheduled |-> scheduled, state |-> "queued", taken |-> 0]
      BY DEF EnqueueBackupJob, NoJob
    <2> QED
      BY <2>1 DEF Jobs
  <1>2. /\ sched \in [Projects -> Schedule] /\ now \in Nat /\ passed \in [Projects -> SUBSET Projects]
        /\ sched' = [sched EXCEPT ![p].last = now] /\ \A q \in Projects : sched[q].last < now
    BY DEF ScheduleInvariant, TypeOK, Schedule, EnqueueBackupJob
  <1>3. /\ sched' \in [Projects -> Schedule] /\ sched'[p].last = now
        /\ \A q \in Projects : /\ sched'[q].next = sched[q].next /\ sched'[q].failures = sched[q].failures
                               /\ q # p => sched'[q] = sched[q]
    BY <1>2, SMT DEF Schedule
  <1>4. TypeOK' /\ Day <= now'
    BY <1>1, <1>3 DEF ScheduleInvariant, TypeOK, Schedule
  <1>5. WorkerHasJob'
    BY <1>1 DEF ScheduleInvariant, WorkerHasJob
  <1>6. BackoffIsEarned'
    BY <1>3 DEF ScheduleInvariant, BackoffIsEarned
  <1>7. \A q \in Projects : sched'[q].last <= now'
    BY <1>2, <1>3, SMT DEF Schedule
  <1>8. ASSUME NEW q \in Projects, NEW r \in passed'[q] PROVE sched'[q].last < sched'[r].last
    <2>1. q # p /\ r \in Projects
      BY <1>8
    <2>2. CASE r = p
      BY <1>2, <1>3, <2>1, <2>2, SMT
    <2>3. CASE r # p
      BY <1>3, <2>1, <2>3 DEF ScheduleInvariant, TurnsInOrder
    <2> QED
      BY <2>2, <2>3
  <1>9. TurnsInOrder'
    BY <1>1, <1>7, <1>8 DEF TurnsInOrder
  <1> QED
    BY <1>4, <1>5, <1>6, <1>9 DEF ScheduleInvariant

\* A pass takes the first of those whose turn it is, if it takes anybody.
LEMMA PassChooses ==
    ASSUME ScheduleInvariant, Pass, Schedulable
    PROVE  \E p \in BackupCandidates :
             /\ p \in Projects /\ EnqueueBackupJob(p, TRUE)
             /\ \A q \in BackupCandidates : LeastRecentlyAttempted(p, q)
             /\ passed' = [q \in Projects |-> IF q \in BackupCandidates \ {p} THEN passed[q] \cup {p} ELSE {}]
  <1> DEFINE C == BackupCandidates
             p == CHOOSE c \in C : \A q \in C : LeastRecentlyAttempted(c, q)
  <1>1. C \subseteq Projects /\ C # {}
    BY DEF Schedulable, BackupCandidates, ScheduleInvariant, TypeOK
  <1>2. \E c \in C : \A q \in C : LeastRecentlyAttempted(c, q)
    BY <1>1, SomebodyIsFirst DEF ScheduleInvariant
  <1>3. p \in C /\ \A q \in C : LeastRecentlyAttempted(p, q)
    BY <1>2
  <1>4. /\ EnqueueBackupJob(p, TRUE)
        /\ passed' = [q \in Projects |-> IF q \in C \ {p} THEN passed[q] \cup {p} ELSE {}]
    BY DEF Pass, scheduleBackups
  <1> HIDE DEF p
  <1> QED
    BY <1>1, <1>3, <1>4

LEMMA PassKeeps ==
    ASSUME ScheduleInvariant, Pass
    PROVE  ScheduleInvariant'
  <1>1. CASE ~Schedulable
    BY <1>1 DEF Pass, scheduleBackups, ScheduleInvariant, TypeOK, WorkerHasJob, BackoffIsEarned, TurnsInOrder
  <1>2. CASE Schedulable
    <2>1. PICK p \in BackupCandidates :
             /\ p \in Projects /\ EnqueueBackupJob(p, TRUE)
             /\ passed' = [q \in Projects |-> IF q \in BackupCandidates \ {p} THEN passed[q] \cup {p} ELSE {}]
      BY <1>2, PassChooses
    <2>2. /\ passed' \in [Projects -> SUBSET Projects] /\ passed'[p] = {}
          /\ \A q \in Projects : passed'[q] \subseteq passed[q] \cup {p}
      BY <2>1 DEF ScheduleInvariant, TypeOK
    <2>3. /\ job = NoJob /\ pc' \in {"idle", pc} /\ pc # "backup"
          /\ UNCHANGED <<now, policy, ready, bucket, newest, known, streak, notBefore, faults>>
      BY <1>2 DEF Pass, Schedulable
    <2>4. TRUE \in BOOLEAN
      OBVIOUS
    <2> QED
      BY <2>1, <2>2, <2>3, <2>4, EnqueueKeeps
  <1> QED
    BY <1>1, <1>2

LEMMA ManualKeeps ==
    ASSUME ScheduleInvariant, NEW p \in Projects, startBackup(p)
    PROVE  ScheduleInvariant'
  <1>1. /\ job = NoJob /\ EnqueueBackupJob(p, FALSE) /\ pc' \in {"idle", pc} /\ FALSE \in BOOLEAN
        /\ UNCHANGED <<now, policy, ready, bucket, newest, known, streak, notBefore, faults>>
    BY DEF startBackup
  <1>2. pc # "backup"
    BY <1>1, NoJobFields DEF ScheduleInvariant, WorkerHasJob
  <1>3. /\ passed' \in [Projects -> SUBSET Projects] /\ passed'[p] = {}
        /\ \A q \in Projects : passed'[q] \subseteq passed[q] \cup {p}
    BY DEF startBackup, ScheduleInvariant, TypeOK
  <1> QED
    BY <1>1, <1>2, <1>3, EnqueueKeeps

\* The worker ends an attempt, or the start of the program does.
LEMMA EndingKeeps ==
    ASSUME ScheduleInvariant, job.state # "none", NEW succeeded \in BOOLEAN,
           OutcomeOf(succeeded), Remember(job.project, succeeded, job.scheduled),
           bucket' \in [Projects -> Nat], job' = NoJob, pc' \in {"start", "reconcile", "idle"},
           faults' \in Nat, UNCHANGED <<now, policy, ready, newest, known, passed>>
    PROVE  ScheduleInvariant'
  <1>1. /\ sched' \in [Projects -> Schedule] /\ streak' \in [Projects -> Nat] /\ notBefore' \in [Projects -> Nat]
        /\ BackoffIsEarned'
        /\ \A p \in Projects : sched'[p].last <= now'
        /\ \A q \in Projects : \A p \in passed'[q] : sched'[q].last < sched'[p].last
    BY OutcomeKeeps
  <1>2. TypeOK' /\ Day <= now'
    BY <1>1 DEF ScheduleInvariant, TypeOK, Schedule
  <1>3. WorkerHasJob'
    BY NoJobFields DEF WorkerHasJob
  <1>4. \A p \in Projects : p # job'.project
    BY NoJobFields, NobodyIsZero
  <1>5. TurnsInOrder'
    BY <1>1, <1>4 DEF TurnsInOrder
  <1> QED
    BY <1>1, <1>2, <1>3, <1>5 DEF ScheduleInvariant

\* Steps that leave the schedule and its history alone.
LEMMA QuietKeeps ==
    ASSUME ScheduleInvariant, now' \in Nat, now <= now', policy' \in Policies, ready' \subseteq Projects,
           bucket' \in [Projects -> Nat], newest' \in [Projects -> Nat], known' \in BOOLEAN,
           job' \in Jobs \cup {NoJob}, job'.project = job.project, WorkerHasJob',
           pc' \in {"down", "start", "schedule", "reconcile", "idle", "backup"}, faults' \in Nat,
           UNCHANGED <<sched, passed, streak, notBefore>>
    PROVE  ScheduleInvariant'
  <1>1. TypeOK' /\ Day <= now'
    BY ScheduleAssumption, SMT DEF ScheduleInvariant, TypeOK
  <1>2. BackoffIsEarned'
    BY DEF ScheduleInvariant, BackoffIsEarned
  <1>3. now \in Nat /\ \A p \in Projects : sched[p].last \in Nat /\ sched[p].last <= now
    BY DEF ScheduleInvariant, TypeOK, TurnsInOrder
  <1>4. TurnsInOrder'
    BY <1>3, SMT DEF ScheduleInvariant, TurnsInOrder
  <1> QED
    BY <1>1, <1>2, <1>4 DEF ScheduleInvariant

\* A failure is counted.
LEMMA FaultCounts ==
    ASSUME TypeOK, Fault
    PROVE  faults' \in Nat
  BY SMT DEF TypeOK, Fault

\* No step of the worker, of the operator or of the clock, and no crash, breaks
\* the invariant.
THEOREM ScheduleStep == ScheduleInvariant /\ [Next]_vars => ScheduleInvariant'
  <1> SUFFICES ASSUME ScheduleInvariant, [Next]_vars
               PROVE  ScheduleInvariant'
    OBVIOUS
  <1>0. /\ TypeOK /\ WorkerHasJob
        /\ now \in Nat /\ now <= now /\ policy \in Policies /\ ready \subseteq Projects
        /\ bucket \in [Projects -> Nat] /\ newest \in [Projects -> Nat] /\ known \in BOOLEAN
        /\ job \in Jobs \cup {NoJob} /\ faults \in Nat
        /\ pc \in {"down", "start", "schedule", "reconcile", "idle", "backup"}
    BY SMT DEF ScheduleInvariant, TypeOK
  <1>1. CASE Pass
    BY <1>1, PassKeeps
  <1>2. CASE \E p \in Projects : startBackup(p)
    BY <1>2, ManualKeeps
  <1>3. CASE Claim
    <2>1. job' \in Jobs /\ job'.project = job.project /\ job'.state = "running"
      BY <1>0, <1>3, JobFields, JobMoves DEF Claim
    <2>2. WorkerHasJob'
      BY <1>3, <2>1 DEF WorkerHasJob, Claim
    <2> QED
      BY <1>0, <1>3, <2>1, <2>2, QuietKeeps DEF Claim, records, history
  <1>4. CASE Dump
    <2>1. job' \in Jobs /\ job'.project = job.project /\ job'.state = "upload"
      <3>1. job \in Jobs /\ job' = [job EXCEPT !.state = "upload", !.taken = now]
        BY <1>0, <1>4, JobFields DEF Dump
      <3>2. "upload" \in {"queued", "running", "upload"} /\ now \in Nat
        BY <1>0
      <3> QED
        BY <3>1, <3>2 DEF Jobs
    <2>2. WorkerHasJob'
      BY <1>4, <2>1 DEF WorkerHasJob, Dump
    <2> QED
      BY <1>0, <1>4, <2>1, <2>2, QuietKeeps DEF Dump, records, history
  <1>5. CASE BackupSucceeds
    <2>1. job.state # "none" /\ bucket' \in [Projects -> Nat]
      BY <1>0, <1>5, JobFields DEF BackupSucceeds
    <2>2. TRUE \in BOOLEAN /\ OutcomeOf(TRUE) /\ Remember(job.project, TRUE, job.scheduled)
      BY <1>5 DEF BackupSucceeds
    <2> QED
      BY <1>0, <1>5, <2>1, <2>2, EndingKeeps DEF BackupSucceeds
  <1>6. CASE BackupFails
    <2>1. job.state # "none" /\ bucket' \in [Projects -> Nat] /\ faults' \in Nat
      BY <1>0, <1>6, PublishKeeps, FaultCounts DEF BackupFails, WorkerHasJob
    <2>2. FALSE \in BOOLEAN /\ OutcomeOf(FALSE) /\ Remember(job.project, FALSE, job.scheduled)
      BY <1>6 DEF BackupFails
    <2> QED
      BY <1>6, <2>1, <2>2, EndingKeeps DEF BackupFails
  <1>7. CASE ResultUnrecorded
    <2>1. job.state # "none" /\ bucket' \in [Projects -> Nat] /\ faults' \in Nat
      BY <1>0, <1>7, PublishKeeps, FaultCounts DEF ResultUnrecorded, WorkerHasJob
    <2>2. job' \in Jobs /\ job'.project = job.project /\ job'.state = "running"
      BY <1>0, <1>7, <2>1, JobFields, JobMoves DEF ResultUnrecorded
    <2>3. WorkerHasJob'
      BY <1>7, <2>2 DEF WorkerHasJob, ResultUnrecorded
    <2> QED
      BY <1>0, <1>7, <2>1, <2>2, <2>3, QuietKeeps DEF ResultUnrecorded, records, history
  <1>8. CASE Reconcile
    <2>1. newest' \in [Projects -> Nat] /\ known' \in BOOLEAN /\ faults' \in Nat
      BY <1>0, <1>8, FaultCounts DEF Reconcile
    <2>2. WorkerHasJob'
      BY <1>0, <1>8 DEF WorkerHasJob, Reconcile
    <2> QED
      BY <1>0, <1>8, <2>1, <2>2, QuietKeeps DEF Reconcile, history
  <1>9. CASE ReconcileTick
    <2>1. WorkerHasJob'
      BY <1>0, <1>9 DEF WorkerHasJob, ReconcileTick
    <2> QED
      BY <1>0, <1>9, <2>1, QuietKeeps DEF ReconcileTick, records, history
  <1>10. CASE reconcileIfUnknown
    <2>1. WorkerHasJob' /\ known' \in BOOLEAN
      BY <1>0, <1>10 DEF WorkerHasJob, reconcileIfUnknown
    <2> QED
      BY <1>0, <1>10, <2>1, QuietKeeps DEF reconcileIfUnknown, history
  <1>11. CASE Crash
    <2>1. bucket' \in [Projects -> Nat] /\ faults' \in Nat
      BY <1>0, <1>11, PublishKeeps, FaultCounts DEF Crash
    <2>2. /\ job' \in Jobs \cup {NoJob} /\ job'.project = job.project /\ job'.state # "upload"
      BY <1>0, <1>11, JobFields, JobMoves DEF Crash
    <2>3. WorkerHasJob'
      BY <1>11, <2>2 DEF WorkerHasJob, Crash
    <2> QED
      BY <1>0, <1>11, <2>1, <2>2, <2>3, QuietKeeps DEF Crash, records, history
  <1>12. CASE Start
    <2>1. CASE job.state = "running"
      <3>1. FALSE \in BOOLEAN /\ OutcomeOf(FALSE) /\ Remember(job.project, FALSE, job.scheduled) /\ job' = NoJob
        BY <1>12, <2>1 DEF Start, InterruptRunningJobs, OutcomeOf
      <3> QED
        BY <1>0, <1>12, <2>1, <3>1, EndingKeeps DEF Start
    <2>2. CASE job.state # "running"
      <3>1. WorkerHasJob'
        BY <1>0, <1>12, <2>2 DEF WorkerHasJob, Start
      <3> QED
        BY <1>0, <1>12, <2>2, <3>1, QuietKeeps DEF Start
    <2> QED
      BY <2>1, <2>2
  <1>13. CASE Advance
    <2>1. WorkerHasJob' /\ now' \in Nat /\ now <= now'
      BY <1>0, <1>13, SMT DEF WorkerHasJob, Advance
    <2> QED
      BY <1>0, <1>13, <2>1, QuietKeeps DEF Advance, records, history
  <1>14. CASE \E p \in Projects : BecomeReady(p)
    <2>1. WorkerHasJob' /\ ready' \subseteq Projects
      BY <1>0, <1>14 DEF WorkerHasJob, BecomeReady
    <2> QED
      BY <1>0, <1>14, <2>1, QuietKeeps DEF BecomeReady, records, history
  <1>15. CASE \E p \in Projects : RemoveBackups(p)
    <2>1. WorkerHasJob' /\ bucket' \in [Projects -> Nat] /\ faults' \in Nat
      BY <1>0, <1>15, FaultCounts, SMT DEF WorkerHasJob, RemoveBackups
    <2> QED
      BY <1>0, <1>15, <2>1, QuietKeeps DEF RemoveBackups, records, history
  <1>16. CASE \E p \in Policies : SetBackupPolicy(p)
    <2>1. WorkerHasJob' /\ policy' \in Policies
      BY <1>0, <1>16 DEF WorkerHasJob, SetBackupPolicy
    <2> QED
      BY <1>0, <1>16, <2>1, QuietKeeps DEF SetBackupPolicy, history
  <1>17. CASE UNCHANGED vars
    <2>1. WorkerHasJob'
      BY <1>0, <1>17 DEF WorkerHasJob, vars
    <2> QED
      BY <1>0, <1>17, <2>1, QuietKeeps DEF vars
  <1> QED
    BY <1>1, <1>2, <1>3, <1>4, <1>5, <1>6, <1>7, <1>8, <1>9, <1>10, <1>11, <1>12, <1>13, <1>14,
       <1>15, <1>16, <1>17 DEF Next

\* However the policy, the clock, the newest backup and the failures stand, the
\* time the dashboard announces is the time from which a pass takes the project.
THEOREM AnnouncedTimeIsDue == Spec => []AnnouncedIsDue
  <1>1. ScheduleInvariant => AnnouncedIsDue
    <2> SUFFICES ASSUME ScheduleInvariant, NEW p \in ready
                 PROVE  p \in BackupCandidates <=> NextScheduledAt(p) <= now
      BY DEF AnnouncedIsDue
    <2>1. p \in Projects /\ policy \in Policies /\ now \in Nat /\ Day <= now /\ newest[p] \in Nat /\ sched[p].next \in Nat
      BY DEF ScheduleInvariant, TypeOK
    <2>2. p \in BackupCandidates <=> sched[p].next <= now /\ newest[p] <= DueBefore(policy, now)
      BY DEF BackupCandidates
    <2>3. NextAfter(policy, newest[p]) \in Int
      BY <2>1, DayIsLong, ScheduleAssumption, SMT DEF NextAfter, HourOf
    <2>4. CASE newest[p] > 0
      BY <2>1, <2>2, <2>3, <2>4, DueIsNext, SMT DEF NextScheduledAt
    <2>5. CASE newest[p] = 0
      BY <2>1, <2>2, <2>5, NothingIsDue, SMT DEF NextScheduledAt
    <2> QED
      BY <2>1, <2>4, <2>5, SMT
  <1> QED
    BY <1>1, ScheduleInit, ScheduleStep, PTL DEF Spec

\* A project waits exactly as long as its failed attempts in a row have earned,
\* however attempts, crashes, restarts and manual backups interleave.
THEOREM DelaysAreServed == Spec => []BacksOff
  <1>1. ScheduleInvariant => BacksOff
    BY DEF ScheduleInvariant, TypeOK, BackoffIsEarned, BacksOff, BackupCandidates
  <1> QED
    BY <1>1, ScheduleInit, ScheduleStep, PTL DEF Spec

\* No pass starts a project twice while another waits, for any number of projects.
THEOREM NobodyOvertakes == Spec => NoOvertaking
  <1> DEFINE Fair == \A p, q \in Projects : PassStarts(p) /\ q \in BackupCandidates => p \notin passed[q]
  <1>1. ScheduleInvariant /\ [Next]_vars => [Fair]_vars
    <2> SUFFICES ASSUME ScheduleInvariant, Next, NEW p \in Projects, NEW q \in Projects,
                        PassStarts(p), q \in BackupCandidates, p \in passed[q]
                 PROVE  FALSE
      BY DEF Fair
    <2>1. job = NoJob /\ job.state = "none" /\ job' # NoJob /\ job'.scheduled
      BY NoJobFields, NobodyIsZero DEF PassStarts
    <2>2. Pass /\ Schedulable
      <3>1. ~(\E r \in Projects : startBackup(r))
        BY <2>1 DEF startBackup, EnqueueBackupJob, NoJob
      <3>2. ~Claim /\ ~Dump /\ ~BackupSucceeds /\ ~BackupFails /\ ~Start
        BY <2>1 DEF Claim, Dump, BackupSucceeds, BackupFails, Start, InterruptRunningJobs
      <3>3. ~ResultUnrecorded
        BY <2>1 DEF ResultUnrecorded, ScheduleInvariant, WorkerHasJob
      <3>4. job' = job => FALSE
        BY <2>1
      <3>5. Pass
        BY <2>1, <3>1, <3>2, <3>3, <3>4
           DEF Next, Reconcile, ReconcileTick, reconcileIfUnknown, Crash, Advance, BecomeReady, RemoveBackups,
               SetBackupPolicy
      <3> QED
        BY <3>4, <3>5 DEF Pass, scheduleBackups
    <2>3. PICK c \in BackupCandidates : /\ c \in Projects /\ EnqueueBackupJob(c, TRUE)
                                        /\ \A r \in BackupCandidates : LeastRecentlyAttempted(c, r)
      BY <2>2, PassChooses
    <2>4. c = p
      BY <2>3 DEF PassStarts, EnqueueBackupJob, NoJob
    <2>5. sched[p].last <= sched[q].last
      BY <2>3, <2>4, SMT DEF LeastRecentlyAttempted, ScheduleInvariant, TypeOK
    <2>6. sched[q].last < sched[p].last
      BY DEF ScheduleInvariant, TurnsInOrder
    <2> QED
      BY <2>5, <2>6, SMT DEF ScheduleInvariant, TypeOK
  <1> QED
    BY <1>1, ScheduleInit, ScheduleStep, PTL DEF Spec, NoOvertaking

(***************************************************************************)
(* Guardrails: for any limits, requests, revisions and failures.           *)
(***************************************************************************)
LimitsPlaces == {"idle", "fail", "apply", "mark", "ready", "set", "set_and_sync", "sync", "syncing"}
USE DEF LimitsPlaces

LimitsRead == [value : Values \cup {0}, revision : Nat, applied : Nat]

LimitsTypes ==
    /\ stage \in {"setup", "failed", "ready"} /\ limits \in Values \cup {0} /\ revision \in Nat /\ applied \in 0 .. revision
    /\ doing \in [Actors -> LimitsPlaces] /\ asked \in [Actors -> LimitsRead] /\ want \in LimitsRead
    /\ holder \in Syncers \cup {"free"} /\ drifts \in Nat

\* What was read of a revision is what that revision says, as nobody changes the
\* limits without a new one; and nothing newer counts as applied.
Faithful(w) == applied <= w.revision /\ w.revision <= revision /\ (w.revision = revision => w.value = limits)

\* Provisioning and SyncLimits never work at the same time.
ByProvisioning ==
    /\ doing["provision"] \in {"apply", "mark", "ready", "fail"} => stage = "setup"
    /\ doing["provision"] \in {"apply", "mark"} => Faithful(asked["provision"])
    /\ doing["provision"] = "mark" => role = asked["provision"].value
BySync ==
    step # "none" =>
        /\ stage = "ready" /\ Faithful(want)
        /\ step \in {"reset", "compare"} /\ drifts = 0 => found = role
        /\ step = "mark" /\ drifts = 0 => role = want.value

LimitsInv == LimitsTypes /\ ByProvisioning /\ BySync /\ ShownIsSet

LEMMA LimitsBegin == LimitsInit => LimitsInv
  <1> SUFFICES ASSUME LimitsInit PROVE LimitsInv
    OBVIOUS
  <1>1. Nothing \in LimitsRead
    BY DEF Nothing, LimitsRead
  <1>2. LimitsTypes
    BY <1>1, SMT DEF LimitsInit, LimitsTypes, Syncers
  <1>3. doing["provision"] = "idle"
    BY DEF LimitsInit, Actors
  <1> QED
    BY <1>2, <1>3, SMT DEF LimitsInit, LimitsInv, ByProvisioning, BySync, ShownIsSet

\* Reading the record gives what it says.
LEMMA ReadsFaithfully ==
    ASSUME LimitsTypes PROVE Recorded \in LimitsRead /\ Faithful(Recorded)
  BY SMT DEF LimitsTypes, LimitsRead, Recorded, Faithful

LEMMA ProvisionKeeps == LimitsInv /\ Provisioning => LimitsInv'
  <1> SUFFICES ASSUME LimitsInv, Provisioning PROVE LimitsInv'
    OBVIOUS
  <1>0. "provision" \in Actors /\ Nothing \in LimitsRead
    BY DEF Actors, Nothing, LimitsRead
  <1>1. LimitsTypes /\ ByProvisioning /\ BySync /\ ShownIsSet
    BY DEF LimitsInv
  <1>2. CASE ReadLimits
    <2>1. LimitsTypes' /\ (doing'["provision"] = "fail" \/ (doing'["provision"] = "apply" /\ asked'["provision"] = Recorded))
      BY <1>0, <1>1, <1>2, ReadsFaithfully DEF ReadLimits, Go, LimitsTypes, table, sync
    <2> QED
      BY <1>1, <1>2, <2>1, ReadsFaithfully
      DEF ReadLimits, Go, table, postgres, sync, LimitsInv, ByProvisioning, BySync, ShownIsSet, Faithful
  <1>3. CASE ProvisionLimits
    <2>1. LimitsTypes' /\ doing'["provision"] \in {"mark", "apply", "fail"} /\ step = "none"
      BY <1>0, <1>1, <1>3 DEF ProvisionLimits, AttemptFails, Go, LimitsTypes, table, sync, ByProvisioning, BySync
    <2>2. doing'["provision"] = "mark" => role' = asked["provision"].value
      BY <1>0, <1>1, <1>3 DEF ProvisionLimits, AttemptFails, Go, LimitsTypes
    <2>3. applied = revision /\ drifts = 0 => asked["provision"].value = limits
      BY <1>0, <1>1, <1>3, SMT DEF ProvisionLimits, ByProvisioning, Faithful, LimitsTypes, LimitsRead
    <2> QED
      BY <1>1, <1>3, <2>1, <2>2, <2>3
      DEF ProvisionLimits, table, sync, LimitsInv, ByProvisioning, BySync, ShownIsSet, Faithful
  <1>4. CASE MarkProvisioned
    <2>1. LimitsTypes' /\ doing'["provision"] \in {"ready", "apply", "fail"} /\ step = "none"
      BY <1>0, <1>1, <1>4, SMT
      DEF MarkProvisioned, MarkLimitsApplied, AttemptFails, Go, LimitsTypes, LimitsRead, sync, ByProvisioning, BySync, Faithful
    <2>2. applied' = revision => applied = revision \/ (asked["provision"].revision = revision)
      BY <1>4 DEF MarkProvisioned, MarkLimitsApplied
    <2>3. doing'["provision"] = "apply" => UNCHANGED applied
      BY <1>0, <1>1, <1>4 DEF MarkProvisioned, AttemptFails, Go, LimitsTypes
    <2> QED
      BY <1>1, <1>4, <2>1, <2>2, <2>3
      DEF MarkProvisioned, postgres, sync, LimitsInv, ByProvisioning, BySync, ShownIsSet, Faithful
  <1>5. CASE SetReady
    <2>1. LimitsTypes' /\ doing'["provision"] \in {"idle", "fail"}
      BY <1>0, <1>1, <1>5 DEF SetReady, Go, LimitsTypes, table, sync
    <2>2. step = "none" /\ (doing'["provision"] = "fail" => stage' = "setup")
      BY <1>0, <1>1, <1>5 DEF SetReady, Go, LimitsTypes, ByProvisioning, BySync
    <2> QED
      BY <1>1, <1>5, <2>1, <2>2
      DEF SetReady, table, postgres, sync, LimitsInv, ByProvisioning, BySync, ShownIsSet, Faithful
  <1>6. CASE FailProject
    <2>1. LimitsTypes' /\ doing'["provision"] = "idle" /\ step = "none"
      BY <1>0, <1>1, <1>6 DEF FailProject, Go, LimitsTypes, table, sync, ByProvisioning, BySync
    <2> QED
      BY <1>1, <1>6, <2>1
      DEF FailProject, table, postgres, sync, LimitsInv, ByProvisioning, BySync, ShownIsSet
  <1> QED
    BY <1>2, <1>3, <1>4, <1>5, <1>6 DEF Provisioning

\* A retry finds neither provisioning nor SyncLimits at work.
LEMMA RetryKeeps == LimitsInv /\ RetryProject => LimitsInv'
  <1> SUFFICES ASSUME LimitsInv, RetryProject PROVE LimitsInv'
    OBVIOUS
  <1>1. LimitsTypes /\ ByProvisioning /\ BySync /\ ShownIsSet
    BY DEF LimitsInv
  <1>2. step = "none" /\ doing["provision"] \notin {"apply", "mark"}
    BY <1>1 DEF RetryProject, ByProvisioning, BySync
  <1> QED
    BY <1>1, <1>2
    DEF RetryProject, table, postgres, sync, LimitsInv, LimitsTypes, ByProvisioning, BySync, ShownIsSet

\* Requests record revisions; they never touch the place of provisioning.
LEMMA RequestKeeps ==
    ASSUME LimitsInv, LoopPass \/ \E r \in Requests : PutLimits(r) \/ SetProjectLimits(r)
    PROVE  LimitsInv'
  <1>0. "provision" \in Actors /\ "loop" \in Actors /\ Requests \subseteq Actors /\ "provision" \notin Requests /\ Nothing \in LimitsRead
    BY LimitsAssumption DEF Actors, Syncers, Nothing, LimitsRead
  <1>1. LimitsTypes /\ ByProvisioning /\ BySync /\ ShownIsSet
    BY DEF LimitsInv
  <1>2. CASE LoopPass
    BY <1>0, <1>1, <1>2
    DEF LoopPass, Go, table, postgres, sync, LimitsTypes, LimitsInv, ByProvisioning, BySync, ShownIsSet, Faithful
  <1>3. ASSUME NEW r \in Requests, PutLimits(r) PROVE LimitsInv'
    <2>1. PICK seen \in 1 .. MaxRevision - 1, v \in Values :
            asked' = [asked EXCEPT ![r] = [value |-> v, revision |-> seen, applied |-> 0]]
      BY <1>3 DEF PutLimits
    <2>2. [value |-> v, revision |-> seen, applied |-> 0] \in LimitsRead
      BY LimitsAssumption, SMT DEF LimitsRead
    <2>3. LimitsTypes' /\ asked'["provision"] = asked["provision"] /\ doing'["provision"] = doing["provision"]
      BY <1>0, <1>1, <1>3, <2>1, <2>2 DEF PutLimits, Go, LimitsTypes, table, sync
    <2> QED
      BY <1>1, <1>3, <2>3
      DEF PutLimits, table, postgres, sync, LimitsInv, ByProvisioning, BySync, ShownIsSet, Faithful
  <1>4. ASSUME NEW r \in Requests, SetProjectLimits(r) PROVE LimitsInv'
    <2>1. asked'["provision"] = asked["provision"] /\ doing'["provision"] = doing["provision"]
          /\ asked' \in [Actors -> LimitsRead] /\ doing' \in [Actors -> LimitsPlaces]
      BY <1>0, <1>1, <1>4, SMT DEF SetProjectLimits, Go, LimitsTypes
    <2>2. CASE UNCHANGED <<limits, revision>>
      BY <1>1, <1>4, <2>1, <2>2
      DEF SetProjectLimits, postgres, sync, LimitsTypes, LimitsInv, ByProvisioning, BySync, ShownIsSet, Faithful
    <2>3. CASE limits' = asked[r].value /\ revision' = revision + 1 /\ revision = asked[r].revision
      <3>1. UNCHANGED <<stage, applied, role, holder, step, want, found, drifts>>
        BY <1>4 DEF SetProjectLimits, postgres, sync
      <3>2. revision \in Nat /\ applied \in Nat /\ applied <= revision /\ want.revision \in Nat
            /\ asked["provision"].revision \in Nat /\ limits' \in Values \cup {0}
        BY <1>0, <1>1, <2>3, SMT DEF LimitsTypes, LimitsRead
      <3>3. LimitsTypes' /\ ShownIsSet'
        BY <1>1, <2>1, <2>3, <3>1, <3>2, SMT DEF LimitsTypes, ShownIsSet
      <3>4. ByProvisioning'
        BY <1>1, <2>1, <2>3, <3>1, <3>2, SMT DEF ByProvisioning, Faithful
      <3>5. BySync'
        BY <1>1, <2>3, <3>1, <3>2, SMT DEF BySync, Faithful
      <3> QED
        BY <3>3, <3>4, <3>5 DEF LimitsInv
    <2> QED
      BY <1>4, <2>2, <2>3 DEF SetProjectLimits
  <1> QED
    BY <1>2, <1>3, <1>4

\* SyncLimits works on the record it read, for a project that is ready.
LEMMA SyncKeeps ==
    ASSUME LimitsInv, NEW a \in Syncers, SyncLimits(a)
    PROVE  LimitsInv'
  <1>0. a \in Actors /\ a # "provision" /\ a # "free" /\ "provision" \in Actors /\ Nothing \in LimitsRead
    BY LimitsAssumption DEF Actors, Syncers, Nothing, LimitsRead
  <1>1. LimitsTypes /\ ByProvisioning /\ BySync /\ ShownIsSet
    BY DEF LimitsInv
  \* What every step of SyncLimits leaves alone.
  <1>2. /\ UNCHANGED <<stage, limits, revision, asked, drifts>> /\ doing' \in [Actors -> LimitsPlaces]
        /\ doing'["provision"] = doing["provision"] /\ want' \in LimitsRead /\ holder' \in Syncers \cup {"free"}
    <2>1. UNCHANGED <<stage, limits, revision, asked, drifts>>
      BY DEF SyncLimits, ReadyProjectLimits, RoleStates, ResetDatabaseLimits, CompareLimits, ApplyLimits, MarkApplied,
             LimitsFailed, MarkLimitsApplied, table
    <2>2. UNCHANGED doing \/ (\E place \in LimitsPlaces : doing' = [doing EXCEPT ![a] = place])
      BY DEF SyncLimits, ReadyProjectLimits, RoleStates, ResetDatabaseLimits, CompareLimits, ApplyLimits, MarkApplied,
             LimitsFailed, Return, Go
    <2>3. want' \in {want, Nothing, Recorded} /\ holder' \in {holder, a, "free"}
      BY DEF SyncLimits, ReadyProjectLimits, RoleStates, ResetDatabaseLimits, CompareLimits, ApplyLimits, MarkApplied,
             LimitsFailed, Return
    <2>4. doing' \in [Actors -> LimitsPlaces] /\ doing'["provision"] = doing["provision"]
      BY <1>0, <1>1, <2>2 DEF LimitsTypes
    <2>5. want' \in LimitsRead /\ holder' \in Syncers \cup {"free"}
      BY <1>0, <1>1, <2>3, ReadsFaithfully DEF LimitsTypes
    <2> QED
      BY <2>1, <2>4, <2>5
  <1>3. ASSUME UNCHANGED <<applied, role>>, BySync' PROVE LimitsInv'
    BY <1>1, <1>2, <1>3 DEF LimitsInv, LimitsTypes, ByProvisioning, ShownIsSet, Faithful
  <1>4. CASE ReadyProjectLimits(a)
    <2>1. UNCHANGED <<applied, role, stage, limits, revision>>
      BY <1>4 DEF ReadyProjectLimits, table, postgres
    <2>2. step' = "none" \/ (step' = "role" /\ stage = "ready" /\ want' = Recorded)
      BY <1>4 DEF ReadyProjectLimits, Return
    <2> QED
      BY <1>1, <1>3, <2>1, <2>2, ReadsFaithfully DEF BySync, Faithful
  <1>5. CASE RoleStates(a)
    <2>1. UNCHANGED <<applied, role>>
      BY <1>5 DEF RoleStates, table, postgres
    <2>2. BySync'
      BY <1>1, <1>2, <1>5, <2>1 DEF RoleStates, Holding, Return, BySync, Faithful
    <2> QED
      BY <1>3, <2>1, <2>2
  <1>6. CASE ResetDatabaseLimits(a)
    <2>1. UNCHANGED <<applied, role>>
      BY <1>6 DEF ResetDatabaseLimits, table
    <2>2. BySync'
      BY <1>1, <1>2, <1>6, <2>1 DEF ResetDatabaseLimits, Holding, BySync, Faithful
    <2> QED
      BY <1>3, <2>1, <2>2
  <1>7. CASE CompareLimits(a) \/ MarkApplied(a)
    \* Either nothing is marked, or the role has what was read.
    <2>1. UNCHANGED role /\ Faithful(want) /\ stage = "ready" /\ step # "none"
      BY <1>1, <1>7 DEF CompareLimits, MarkApplied, Holding, postgres, BySync
    <2>2. applied' = applied \/ (want.revision = revision /\ applied' = want.revision /\ (drifts = 0 => role = want.value))
      BY <1>1, <1>7 DEF CompareLimits, MarkApplied, MarkLimitsApplied, Holding, BySync
    <2>3. step' \in {"none", "apply", "failed"} /\ (step' # "none" => UNCHANGED <<applied, want>>)
      BY <1>7 DEF CompareLimits, MarkApplied, Return
    <2>4. doing["provision"] \notin {"apply", "mark"}
      BY <1>1, <2>1 DEF ByProvisioning
    <2>5. BySync'
      BY <1>2, <2>1, <2>3 DEF BySync, Faithful
    <2>6. ShownIsSet' /\ ByProvisioning'
      BY <1>1, <1>2, <2>1, <2>2, <2>4 DEF ShownIsSet, ByProvisioning, Faithful
    <2>7. LimitsTypes'
      BY <1>1, <1>2, <2>1, <2>2, SMT DEF LimitsTypes, LimitsRead
    <2> QED
      BY <2>5, <2>6, <2>7 DEF LimitsInv
  <1>8. CASE ApplyLimits(a)
    <2>1. UNCHANGED <<applied, want>> /\ Faithful(want) /\ stage = "ready" /\ step' \in {"mark", "failed"}
      BY <1>1, <1>8 DEF ApplyLimits, Holding, table, BySync
    <2>2. role' \in {role, want.value} /\ (step' = "mark" => role' = want.value)
      BY <1>8 DEF ApplyLimits
    <2>3. doing["provision"] \notin {"apply", "mark"}
      BY <1>1, <2>1 DEF ByProvisioning
    <2>4. BySync' /\ ByProvisioning'
      BY <1>1, <1>2, <2>1, <2>2, <2>3 DEF BySync, ByProvisioning, Faithful
    <2>5. ShownIsSet'
      <3>1. want.revision \in Nat /\ revision \in Nat /\ applied \in Nat
        BY <1>1, SMT DEF LimitsTypes, LimitsRead
      <3>2. applied = revision => want.value = limits
        BY <2>1, <3>1, SMT DEF Faithful
      <3> QED
        BY <1>1, <1>2, <2>1, <2>2, <3>2, SMT DEF ShownIsSet
    <2> QED
      BY <1>1, <1>2, <2>1, <2>4, <2>5 DEF LimitsInv, LimitsTypes
  <1>9. CASE LimitsFailed(a)
    BY <1>3, <1>9 DEF LimitsFailed, Return, postgres, BySync
  <1> QED
    BY <1>4, <1>5, <1>6, <1>7, <1>8, <1>9 DEF SyncLimits

LEMMA AroundKeeps == LimitsInv /\ (Drift \/ ProcessDies) => LimitsInv'
  <1> SUFFICES ASSUME LimitsInv, Drift \/ ProcessDies PROVE LimitsInv'
    OBVIOUS
  <1>0. "provision" \in Actors /\ Nothing \in LimitsRead
    BY DEF Actors, Nothing, LimitsRead
  <1>1. LimitsTypes /\ ByProvisioning /\ BySync /\ ShownIsSet
    BY DEF LimitsInv
  <1>2. CASE Drift
    <2>1. drifts' # 0 /\ drifts' \in Nat /\ stage = "ready"
          /\ UNCHANGED <<stage, limits, revision, applied, doing, asked, holder, step, want, found>>
      BY <1>1, <1>2, SMT DEF Drift, LimitsTypes, table, sync
    <2>2. doing["provision"] \notin {"apply", "mark"}
      BY <1>1, <2>1 DEF ByProvisioning
    <2> QED
      BY <1>1, <2>1, <2>2 DEF LimitsInv, LimitsTypes, ByProvisioning, BySync, ShownIsSet, Faithful
  <1>3. CASE ProcessDies
    <2>1. UNCHANGED <<stage, limits, revision, applied, drifts>> /\ step' = "none" /\ want' = Nothing /\ holder' = "free"
          /\ doing' = [b \in Actors |-> "idle"] /\ asked' = [b \in Actors |-> Nothing]
      BY <1>3 DEF ProcessDies, table
    <2>2. doing' \in [Actors -> LimitsPlaces] /\ doing'["provision"] = "idle" /\ asked' \in [Actors -> LimitsRead]
      BY <1>0, <2>1
    <2>3. LimitsTypes'
      BY <1>0, <1>1, <2>1, <2>2 DEF LimitsTypes
    <2> QED
      BY <1>1, <1>3, <2>1, <2>2, <2>3 DEF ProcessDies, table, postgres, LimitsInv, ByProvisioning, BySync, ShownIsSet
  <1> QED
    BY <1>2, <1>3

\* Every step of requests, provisioning, SyncLimits and the project's sessions
\* keeps the invariant.
THEOREM LimitsStep == LimitsInv /\ [LimitsNext]_limitsVars => LimitsInv'
  <1> SUFFICES ASSUME LimitsInv, [LimitsNext]_limitsVars PROVE LimitsInv'
    OBVIOUS
  <1>1. CASE UNCHANGED limitsVars
    BY <1>1
    DEF limitsVars, table, postgres, sync, LimitsInv, LimitsTypes, ByProvisioning, BySync, ShownIsSet, Faithful
  <1>2. CASE LimitsNext
    BY <1>2, ProvisionKeeps, RetryKeeps, RequestKeeps, SyncKeeps, AroundKeeps DEF LimitsNext
  <1> QED
    BY <1>1, <1>2

\* However revisions, provisioning, repairs and failures interleave, a revision
\* that is shown as applied is the one the role has (MarkLimitsApplied).
THEOREM ShownLimitsAreSet == LimitsSpec => []ShownIsSet
  <1>1. LimitsInv => ShownIsSet
    BY DEF LimitsInv
  <1>2. LimitsInv /\ [LimitsNext]_limitsVars => LimitsInv'
    BY LimitsStep
  <1> QED
    BY <1>1, <1>2, LimitsBegin, PTL DEF LimitsSpec
=============================================================================
