-------------------------- MODULE JobQueueProofs --------------------------
(***************************************************************************)
(* Proofs about JobQueue, for any sets of projects and job ids and any     *)
(* bounds.                                                                 *)
(***************************************************************************)
EXTENDS JobQueue, FiniteSetTheorems, TLAPS

\* Leaves that need arithmetic, records or many cases cite SMT.
USE Zenon

(***************************************************************************)
(* Type correctness.                                                       *)
(***************************************************************************)
\* The id an insert uses is one no row has yet (the random job_ token of the
\* enqueueing handlers never meets an existing primary key).
LEMMA NewIdIsFree ==
    ASSUME FreeIds # {}
    PROVE  NewId \in JobIds /\ jobs[NewId].state = "none"
  BY DEF FreeIds, NewId

\* The bound on requests leaves an id to use.
LEMMA RoomHasId == ASSUME Room PROVE FreeIds # {}
  <1>1. SUFFICES ASSUME FreeIds = {} PROVE FALSE
    OBVIOUS
  <1>2. Cardinality({}) = 0
    BY FS_EmptySet
  <1> QED
    BY <1>1, <1>2, BoundsAssumption, SMT DEF Room

\* What enqueue promises its callers: it inserted one queued row under a new id,
\* and nothing was queued or running before.
LEMMA EnqueueEffect ==
    ASSUME NEW kind, NEW p, Enqueue(kind, p)
    PROVE  /\ NewId \in JobIds /\ jobs[NewId].state = "none"
           /\ \A j \in JobIds : ~Active(j)
           /\ jobs' = [jobs EXCEPT ![NewId] = NewRow(kind, p)]
  BY NewIdIsFree, RoomHasId DEF Enqueue

\* ResumeDeletions leaves a row alone or makes an unused one a queued delete job
\* of a marked project that had none active, and never two for one project.
ResumedRow(j) ==
    /\ jobs[j].state = "none"
    /\ jobs'[j].state = "queued" /\ jobs'[j].kind = "delete"
    /\ jobs'[j].project = jobs'[j].subject
    /\ jobs'[j].project \in Projects /\ stage[jobs'[j].project] = "deleting"
    /\ ~ActiveDelete(jobs'[j].project)

\* ResumeDeletions changes no existing row, and every row it adds is such a job,
\* at most one for a project.
LEMMA ResumeEffect ==
    ASSUME TypeOK, ResumeDeletions
    PROVE  /\ jobs' \in [JobIds -> Row]
           /\ \A j \in JobIds : jobs'[j] = jobs[j] \/ ResumedRow(j)
           /\ \A j, k \in JobIds : ResumedRow(j) /\ ResumedRow(k)
                                    /\ jobs'[j].project = jobs'[k].project => j = k
  <1> DEFINE pending == {p \in Projects : stage[p] = "deleting" /\ ~ActiveDelete(p)}
  <1>1. CASE UNCHANGED jobs
    BY <1>1 DEF TypeOK, ResumedRow
  <1>2. ASSUME NEW f \in [pending -> FreeIds],
               \A p, q \in pending : f[p] = f[q] => p = q,
               jobs' = [j \in JobIds |->
                          IF \E p \in pending : f[p] = j
                            THEN NewRow("delete", CHOOSE p \in pending : f[p] = j)
                            ELSE jobs[j]]
        PROVE  /\ jobs' \in [JobIds -> Row]
               /\ \A j \in JobIds : jobs'[j] = jobs[j] \/ ResumedRow(j)
               /\ \A j, k \in JobIds : ResumedRow(j) /\ ResumedRow(k)
                                        /\ jobs'[j].project = jobs'[k].project => j = k
    <2>1. ASSUME NEW p \in pending
          PROVE  /\ f[p] \in JobIds /\ jobs[f[p]].state = "none"
                 /\ jobs'[f[p]] = NewRow("delete", p)
                 /\ p \in Projects /\ stage[p] = "deleting" /\ ~ActiveDelete(p)
      BY <1>2, <2>1 DEF FreeIds
    <2>2. ASSUME NEW j \in JobIds, ~ \E p \in pending : f[p] = j
          PROVE  jobs'[j] = jobs[j]
      BY <1>2, <2>2
    <2> HIDE DEF pending
    <2>3. ASSUME NEW j \in JobIds
          PROVE  /\ jobs'[j] \in Row
                 /\ \/ jobs'[j] = jobs[j] /\ ~ResumedRow(j)
                    \/ ResumedRow(j) /\ jobs'[j].project \in pending /\ f[jobs'[j].project] = j
      <3>1. CASE \E p \in pending : f[p] = j
        <4>1. PICK p \in pending : f[p] = j
          BY <3>1
        <4>2. jobs'[j] = NewRow("delete", p) /\ jobs[j].state = "none"
          BY <2>1, <4>1
        <4> QED
          BY <2>1, <4>1, <4>2, SMT DEF NewRow, ResumedRow, Row, States, Kinds, TypeOK
      <3>2. CASE ~ \E p \in pending : f[p] = j
        BY <2>2, <3>2 DEF ResumedRow, TypeOK
      <3> QED
        BY <3>1, <3>2
    <2>4. jobs' \in [JobIds -> Row]
      BY <1>2, <2>3
    <2> QED
      BY <2>3, <2>4
  <1> QED
    BY <1>1, <1>2 DEF ResumeDeletions

\* An empty database and a process that has not started satisfy the invariant.
LEMMA InitInvariant == Init => QueueInvariant
  <1> SUFFICES ASSUME Init PROVE QueueInvariant
    OBVIOUS
  <1> USE DEF Init
  <1>1. maint \in BOOLEAN /\ failed \in [Projects -> BOOLEAN]
    OBVIOUS
  <1>2. TypeOK
    BY <1>1, NoneAssumption DEF TypeOK, Row, NoRow, States, Kinds, Stages, Steps
  <1>3. RowLinks /\ OneHeavyJob /\ DeleteJobsMatchTombstones
    BY DEF RowLinks, OneHeavyJob, DeleteJobsMatchTombstones, NoRow, Active
  <1>4. WorkerOwnsRow /\ NoWorkOnDeleting
    BY DEF WorkerOwnsRow, NoWorkOnDeleting
  <1> QED
    BY <1>2, <1>3, <1>4 DEF QueueInvariant

\* The invariant is inductive: every handler, provisioner and worker step, a
\* crash and maintenance included, preserves it.
THEOREM QueueStep == QueueInvariant /\ [Next]_vars => QueueInvariant'
  <1> SUFFICES ASSUME QueueInvariant, [Next]_vars PROVE QueueInvariant'
    OBVIOUS
  <1> USE NoneAssumption DEF QueueInvariant, TypeOK, RowLinks, WorkerOwnsRow, OneHeavyJob,
        DeleteJobsMatchTombstones, NoWorkOnDeleting, Row, States, Kinds, Stages, Steps,
        Active, HasRow, NewRow, table, worker, env, budget, GoTo, Return, Fault, DbError, SetState, Running
  <1>1. ASSUME NEW p \in Projects, CreateProject(p) PROVE QueueInvariant'
    BY <1>1, NewIdIsFree, RoomHasId, EnqueueEffect, SMT DEF CreateProject
  <1>2. ASSUME NEW p \in Projects, RetryProject(p) PROVE QueueInvariant'
    BY <1>2, NewIdIsFree, RoomHasId, EnqueueEffect, SMT DEF RetryProject
  <1>3. ASSUME NEW p \in Projects, StartBackup(p) PROVE QueueInvariant'
    BY <1>3, NewIdIsFree, RoomHasId, EnqueueEffect, SMT DEF StartBackup
  <1>4. ASSUME NEW p \in Projects, StartRestore(p) PROVE QueueInvariant'
    BY <1>4, NewIdIsFree, RoomHasId, EnqueueEffect, SMT DEF StartRestore
  <1>5. ASSUME NEW p \in Projects, ReplayRestore(p) PROVE QueueInvariant'
    BY <1>5, NewIdIsFree, RoomHasId, EnqueueEffect, SMT DEF ReplayRestore
  <1>6. ASSUME NEW p \in Projects, BeginDeletion(p) PROVE QueueInvariant'
    <2>1. NewId \in JobIds /\ jobs[NewId].state = "none"
      BY <1>6, NewIdIsFree, RoomHasId DEF BeginDeletion
    <2>2. TypeOK'
      BY <1>6, <2>1, SMT DEF BeginDeletion
    <2>3. RowLinks' /\ OneHeavyJob'
      BY <1>6, <2>1, SMT DEF BeginDeletion
    <2>4. DeleteJobsMatchTombstones'
      BY <1>6, <2>1, SMT DEF BeginDeletion
    <2>5. WorkerOwnsRow'
      BY <1>6, <2>1 DEF BeginDeletion
    <2>6. NoWorkOnDeleting'
      BY <1>6, <2>1 DEF BeginDeletion
    <2> HIDE DEF TypeOK, RowLinks, WorkerOwnsRow, OneHeavyJob, DeleteJobsMatchTombstones, NoWorkOnDeleting
    <2> QED
      BY <2>2, <2>3, <2>4, <2>5, <2>6
  <1>7. ASSUME NEW p \in Projects, RetryDeletion(p) PROVE QueueInvariant'
    BY <1>7, NewIdIsFree, SMT DEF RetryDeletion, ActiveDelete
  <1>8. ASSUME NEW p \in Projects, ProvisionProject(p) PROVE QueueInvariant'
    BY <1>8, NewIdIsFree, RoomHasId, EnqueueEffect, SMT DEF ProvisionProject
  <1>9. ASSUME NEW p \in Projects, FailProject(p) PROVE QueueInvariant'
    BY <1>9, NewIdIsFree, RoomHasId, EnqueueEffect, SMT DEF FailProject
  <1>10. CASE Start
    BY <1>10, EnqueueEffect, SMT DEF Start
  <1>11. CASE StartWithoutInterrupt
    BY <1>11, EnqueueEffect, SMT DEF StartWithoutInterrupt
  <1>12. CASE ResumeDeletions
    <2>1. /\ pc = "resume" /\ pc' = "schedule"
          /\ UNCHANGED <<cur, outcome, stage, failed, told, maint, now, faults, dbErrors>>
      BY <1>12 DEF ResumeDeletions
    <2>2. TypeOK' /\ WorkerOwnsRow' /\ NoWorkOnDeleting'
      BY <1>12, <2>1, ResumeEffect
    <2> HIDE DEF QueueInvariant, TypeOK, RowLinks, WorkerOwnsRow, OneHeavyJob, DeleteJobsMatchTombstones
    <2>3. RowLinks'
      BY <1>12, <2>1, ResumeEffect, SMT DEF QueueInvariant, RowLinks, ResumedRow
    <2>4. OneHeavyJob'
      BY <1>12, <2>1, ResumeEffect DEF QueueInvariant, OneHeavyJob, ResumedRow
    <2>5. DeleteJobsMatchTombstones'
      BY <1>12, <2>1, ResumeEffect, SMT DEF QueueInvariant, DeleteJobsMatchTombstones, ActiveDelete, ResumedRow
    <2> QED
      BY <2>2, <2>3, <2>4, <2>5 DEF QueueInvariant
  <1>13. CASE ScheduleBackups
    BY <1>13, EnqueueEffect, SMT DEF ScheduleBackups
  <1>14. CASE ClaimJob
    BY <1>14, EnqueueEffect, SMT DEF ClaimJob
  <1>15. CASE QueueEmpty
    BY <1>15, EnqueueEffect, SMT DEF QueueEmpty
  <1>16. CASE Wake
    BY <1>16, EnqueueEffect, SMT DEF Wake
  <1>17. CASE PrepareBackup
    BY <1>17, EnqueueEffect, SMT DEF PrepareBackup
  <1>18. CASE PrepareRestore
    <2> DEFINE p == jobs[cur].subject
    <2>1. cur \in JobIds /\ p \in Projects
      BY <1>18 DEF PrepareRestore
    <2>2. failed' \in [Projects -> BOOLEAN]
      BY <1>18, <2>1 DEF PrepareRestore
    <2> QED
      BY <1>18, <2>1, <2>2, SMT DEF PrepareRestore
  <1>19. CASE PrepareDelete
    BY <1>19, EnqueueEffect, SMT DEF PrepareDelete
  <1>20. CASE Work
    BY <1>20, EnqueueEffect, SMT DEF Work
  <1>21. CASE WorkDelete
    BY <1>21, EnqueueEffect, SMT DEF WorkDelete
  <1>22. CASE CompleteProjectDeletion
    <2> DEFINE p == jobs[cur].subject
    <2>1. cur \in JobIds /\ p \in Projects /\ jobs[cur].project = p
      BY <1>22 DEF CompleteProjectDeletion
    <2>a. jobs' = [j \in JobIds |->
                     [jobs[j] EXCEPT !.project = IF @ = p THEN None ELSE @,
                                     !.state = IF j = cur THEN "succeeded" ELSE @]]
      BY <1>22 DEF CompleteProjectDeletion
    <2> HIDE DEF p
    <2>2. ASSUME NEW j \in JobIds
          PROVE /\ jobs'[j].kind = jobs[j].kind
                /\ jobs'[j].subject = jobs[j].subject
                /\ jobs'[j].project = IF jobs[j].project = p THEN None ELSE jobs[j].project
                /\ jobs'[j].state = IF j = cur THEN "succeeded" ELSE jobs[j].state
                /\ jobs'[j] \in Row
      <3>1. jobs[j] \in Row
        OBVIOUS
      <3> QED
        BY <2>a, <3>1
    <2>3. jobs' \in [JobIds -> Row]
      BY <2>a, <2>2, ZenonT(60)
    <2>4. /\ stage' = [stage EXCEPT ![p] = "removed"] /\ stage[p] = "deleting"
          /\ pc' = "drain" /\ cur' = None /\ outcome' = "failed"
          /\ UNCHANGED <<failed, told, maint, now, faults, dbErrors>>
      BY <1>22 DEF CompleteProjectDeletion, p
    <2>5. TypeOK' /\ WorkerOwnsRow' /\ NoWorkOnDeleting'
      BY <2>1, <2>3, <2>4
    <2>6. RowLinks'
      BY <2>1, <2>2, <2>4, SMT
    <2>7. OneHeavyJob'
      BY <2>1, <2>2, <2>4, SMT
    <2>8. DeleteJobsMatchTombstones'
      <3>1. Active(cur) /\ jobs[cur].kind = "delete"
        BY <1>22 DEF CompleteProjectDeletion
      <3> HIDE DEF QueueInvariant, TypeOK, RowLinks, WorkerOwnsRow, OneHeavyJob, NoWorkOnDeleting
      <3> SUFFICES ASSUME NEW j \in JobIds, NEW k \in JobIds,
                          Active(j)', jobs'[j].kind = "delete"
                   PROVE  /\ jobs'[j].project = jobs'[j].subject
                          /\ jobs'[j].subject # None /\ stage'[jobs'[j].subject] = "deleting"
                          /\ Active(k)' /\ jobs'[k].kind = "delete" /\ jobs'[k].project = jobs'[j].project => k = j
        OBVIOUS
      <3>2. j # cur /\ Active(j) /\ jobs[j].kind = "delete" /\ jobs[j].project # p
        BY <2>1, <2>2, <3>1, SMT DEF QueueInvariant
      <3>3. stage' \in [Projects -> Stages] /\ stage \in [Projects -> Stages]
        BY <2>4 DEF QueueInvariant, TypeOK
      <3>4. jobs[j].subject \in Projects
        BY <3>2 DEF QueueInvariant, RowLinks
      <3> QED
        BY <2>1, <2>2, <2>4, <3>2, <3>3, <3>4, SMT DEF QueueInvariant
    <2> QED
      BY <2>5, <2>6, <2>7, <2>8
  <1>23. CASE CompleteProjectDeletionFails
    BY <1>23, EnqueueEffect, SMT DEF CompleteProjectDeletionFails
  <1>24. CASE RecordResult
    BY <1>24, EnqueueEffect, SMT DEF RecordResult
  <1>25. CASE FailDeleteJob
    BY <1>25, EnqueueEffect, SMT DEF FailDeleteJob
  <1>26. CASE RecordFails
    BY <1>26, EnqueueEffect, SMT DEF RecordFails
  <1>27. CASE Crash
    BY <1>27, EnqueueEffect, SMT DEF Crash
  <1>28. CASE MaintenanceOn
    BY <1>28, EnqueueEffect, SMT DEF MaintenanceOn
  <1>29. CASE MaintenanceOff
    BY <1>29, EnqueueEffect, ZenonT(60) DEF MaintenanceOff
  <1>30. CASE Tick
    BY <1>30, EnqueueEffect, SMT DEF Tick
  <1>31. CASE UNCHANGED vars
    BY <1>31, SMT DEF vars
  <1> QED
    BY <1>1, <1>2, <1>3, <1>4, <1>5, <1>6, <1>7, <1>8, <1>9, <1>10, <1>11, <1>12, <1>13, <1>14, <1>15, <1>16, <1>17, <1>18, <1>19, <1>20, <1>21, <1>22, <1>23, <1>24, <1>25, <1>26, <1>27, <1>28, <1>29, <1>30, <1>31 DEF Next, Requests, Provisioner, WorkerStep

(***************************************************************************)
(* The delete_failed alert.  Only FailDeleteJob makes a delete job fail.   *)
(***************************************************************************)
FailedDelete(j, p) == jobs[j].kind = "delete" /\ jobs[j].subject = p /\ jobs[j].state = "failed"

SameFailedDeletes ==
    \A j \in JobIds, p \in Projects : FailedDelete(j, p)' <=> FailedDelete(j, p)

\* FailDeleteJob alone records delete_failed events and turns a delete job into
\* a failed one: cancelling queued work never touches one.
LEMMA OtherStepsFailNoDelete ==
    ASSUME QueueInvariant, [Next]_vars, ~FailDeleteJob
    PROVE  /\ told' = told
           /\ SameFailedDeletes
  <1> USE NoneAssumption DEF QueueInvariant, TypeOK, WorkerOwnsRow, Row, States, Kinds, FailedDelete, SameFailedDeletes,
        NewRow, table, worker, env, budget, GoTo, Return, SetState, Running
  <1>1. ASSUME NEW p \in Projects, CreateProject(p) PROVE told' = told /\ SameFailedDeletes
    BY <1>1, NewIdIsFree, RoomHasId, EnqueueEffect DEF CreateProject
  <1>2. ASSUME NEW p \in Projects, RetryProject(p) PROVE told' = told /\ SameFailedDeletes
    BY <1>2, NewIdIsFree, RoomHasId, EnqueueEffect DEF RetryProject
  <1>3. ASSUME NEW p \in Projects, StartBackup(p) PROVE told' = told /\ SameFailedDeletes
    BY <1>3, NewIdIsFree, RoomHasId, EnqueueEffect, SMT DEF StartBackup
  <1>4. ASSUME NEW p \in Projects, StartRestore(p) PROVE told' = told /\ SameFailedDeletes
    BY <1>4, NewIdIsFree, RoomHasId, EnqueueEffect, SMT DEF StartRestore
  <1>5. ASSUME NEW p \in Projects, ReplayRestore(p) PROVE told' = told /\ SameFailedDeletes
    BY <1>5, NewIdIsFree, RoomHasId, EnqueueEffect, SMT DEF ReplayRestore
  <1>6. ASSUME NEW p \in Projects, BeginDeletion(p) PROVE told' = told /\ SameFailedDeletes
    BY <1>6, NewIdIsFree, RoomHasId, EnqueueEffect, SMT DEF BeginDeletion
  <1>7. ASSUME NEW p \in Projects, RetryDeletion(p) PROVE told' = told /\ SameFailedDeletes
    BY <1>7, NewIdIsFree, RoomHasId, EnqueueEffect DEF RetryDeletion
  <1>8. ASSUME NEW p \in Projects, ProvisionProject(p) PROVE told' = told /\ SameFailedDeletes
    BY <1>8, NewIdIsFree, RoomHasId, EnqueueEffect DEF ProvisionProject
  <1>9. ASSUME NEW p \in Projects, FailProject(p) PROVE told' = told /\ SameFailedDeletes
    BY <1>9, NewIdIsFree, RoomHasId, EnqueueEffect DEF FailProject
  <1>10. CASE Start
    BY <1>10, EnqueueEffect DEF Start
  <1>11. CASE StartWithoutInterrupt
    BY <1>11, EnqueueEffect DEF StartWithoutInterrupt
  <1>12. CASE ResumeDeletions
    BY <1>12, ResumeEffect DEF ResumeDeletions, ResumedRow
  <1>13. CASE ScheduleBackups
    BY <1>13, EnqueueEffect, SMT DEF ScheduleBackups
  <1>14. CASE ClaimJob
    BY <1>14, EnqueueEffect DEF ClaimJob
  <1>15. CASE QueueEmpty
    BY <1>15, EnqueueEffect DEF QueueEmpty
  <1>16. CASE Wake
    BY <1>16, EnqueueEffect DEF Wake
  <1>17. CASE PrepareBackup
    BY <1>17, EnqueueEffect DEF PrepareBackup
  <1>18. CASE PrepareRestore
    BY <1>18, EnqueueEffect DEF PrepareRestore
  <1>19. CASE PrepareDelete
    BY <1>19, EnqueueEffect DEF PrepareDelete
  <1>20. CASE Work
    BY <1>20, EnqueueEffect DEF Work
  <1>21. CASE WorkDelete
    BY <1>21, EnqueueEffect DEF WorkDelete
  <1>22. CASE CompleteProjectDeletion
    BY <1>22, EnqueueEffect, ZenonT(60) DEF CompleteProjectDeletion
  <1>23. CASE CompleteProjectDeletionFails
    BY <1>23, EnqueueEffect DEF CompleteProjectDeletionFails
  <1>24. CASE RecordResult
    BY <1>24, EnqueueEffect DEF RecordResult
  <1>25. CASE RecordFails
    BY <1>25, EnqueueEffect DEF RecordFails
  <1>26. CASE Crash
    BY <1>26, EnqueueEffect DEF Crash
  <1>27. CASE MaintenanceOn
    BY <1>27, EnqueueEffect DEF MaintenanceOn
  <1>28. CASE MaintenanceOff
    BY <1>28, EnqueueEffect DEF MaintenanceOff
  <1>29. CASE Tick
    BY <1>29, EnqueueEffect DEF Tick
  <1>30. CASE UNCHANGED vars
    BY <1>30 DEF vars
  <1> QED
    BY <1>1, <1>2, <1>3, <1>4, <1>5, <1>6, <1>7, <1>8, <1>9, <1>10, <1>11, <1>12, <1>13, <1>14, <1>15, <1>16, <1>17, <1>18, <1>19, <1>20, <1>21, <1>22, <1>23, <1>24, <1>25, <1>26, <1>27, <1>28, <1>29, <1>30 DEF Next, Requests, Provisioner, WorkerStep

\* Counting told-once is preserved by every step.
LEMMA ToldStep ==
    ASSUME QueueInvariant, ToldOnFirstFailure, [Next]_vars
    PROVE  ToldOnFirstFailure'
  <1>1. CASE ~FailDeleteJob
    BY <1>1, OtherStepsFailNoDelete DEF ToldOnFirstFailure, FailedDelete, SameFailedDeletes
  <1>2. CASE FailDeleteJob
    <2> DEFINE p == jobs[cur].subject
    <2>1. cur \in JobIds /\ jobs[cur].kind = "delete" /\ jobs[cur].state = "running"
      BY <1>2 DEF FailDeleteJob, Running, QueueInvariant, TypeOK, WorkerOwnsRow
    <2>2. p \in Projects /\ stage[p] = "deleting"
      BY <2>1 DEF QueueInvariant, RowLinks, DeleteJobsMatchTombstones, Active
    <2> HIDE DEF p
    <2>3. EarlierFailure(p) <=> \E j \in JobIds : FailedDelete(j, p)
      BY <2>1, <2>2, NoneAssumption DEF EarlierFailure, FailedDelete, QueueInvariant, RowLinks, HasRow
    <2>4. jobs' = [jobs EXCEPT ![cur].state = "failed"]
      BY <1>2 DEF FailDeleteJob, SetState
    <2>5. ASSUME NEW j \in JobIds
          PROVE  /\ jobs'[j].kind = jobs[j].kind /\ jobs'[j].subject = jobs[j].subject
                 /\ jobs'[j].state = IF j = cur THEN "failed" ELSE jobs[j].state
      BY <2>1, <2>4 DEF QueueInvariant, TypeOK, Row
    <2>6. told' = IF EarlierFailure(p) THEN told ELSE [told EXCEPT ![p] = @ + 1]
      BY <1>2 DEF FailDeleteJob, p
    <2>7. told \in [Projects -> Nat]
      BY DEF QueueInvariant, TypeOK
    <2>8. told'[p] = 1
      BY <2>2, <2>3, <2>6, <2>7, SMT DEF ToldOnFirstFailure, FailedDelete
    <2>9. ASSUME NEW q \in Projects, q # p PROVE told'[q] = told[q]
      BY <2>6, <2>7, <2>9
    <2>10. jobs'[cur].kind = "delete" /\ jobs'[cur].subject = p /\ jobs'[cur].state = "failed"
      BY <2>1, <2>5 DEF p
    <2>11. ASSUME NEW q \in Projects, q # p, NEW j \in JobIds
          PROVE  FailedDelete(j, q)' <=> FailedDelete(j, q)
      BY <2>1, <2>5, <2>11 DEF FailedDelete, p
    <2>12. ASSUME NEW q \in Projects
          PROVE  told'[q] = IF \E j \in JobIds : FailedDelete(j, q)' THEN 1 ELSE 0
      BY <2>1, <2>8, <2>9, <2>10, <2>11, SMT DEF ToldOnFirstFailure, FailedDelete
    <2> QED
      BY <2>12 DEF ToldOnFirstFailure, FailedDelete
  <1> QED
    BY <1>1, <1>2

(***************************************************************************)
(* The theorems.                                                           *)
(***************************************************************************)
\* In every reachable state the table and the worker are well-typed, at most
\* one backup or restore is active, delete jobs and tombstones match, and no
\* job works on a project that is being deleted.
THEOREM QueueIsSafe == Spec => [](TypeOK /\ OneHeavyJob /\ DeleteJobsMatchTombstones /\ NoWorkOnDeleting)
  <1>1. Init => QueueInvariant
    BY InitInvariant
  <1>2. QueueInvariant /\ [Next]_vars => QueueInvariant'
    BY QueueStep
  <1>3. QueueInvariant => TypeOK /\ OneHeavyJob /\ DeleteJobsMatchTombstones /\ NoWorkOnDeleting
    BY DEF QueueInvariant
  <1> QED
    BY <1>1, <1>2, <1>3, PTL DEF Spec

\* A failing deletion is reported exactly once, on its first failure, whatever
\* crashes, interruptions and retries surround it (FailDeleteJob).
THEOREM FailureToldOnce == Spec => []ToldOnFirstFailure
  <1>1. Init => QueueInvariant /\ ToldOnFirstFailure
    BY InitInvariant, SMT DEF Init, ToldOnFirstFailure, NoRow
  <1>2. QueueInvariant /\ ToldOnFirstFailure /\ [Next]_vars => QueueInvariant' /\ ToldOnFirstFailure'
    BY QueueStep, ToldStep
  <1> QED
    BY <1>1, <1>2, PTL DEF Spec

\* No step of any handler, of the provisioner or of the worker turns a project
\* marked for deletion into anything but a removed one (SetProjectStage and
\* FailProject, BeginProjectDeletion, CompleteProjectDeletion).
THEOREM TombstoneHolds == Spec => TombstoneIsFinal
  <1>1. QueueInvariant /\ [Next]_vars => (\A p \in Projects : stage[p] = "deleting" => stage'[p] \in {"deleting", "removed"})
    <2> SUFFICES ASSUME QueueInvariant, [Next]_vars,
                        NEW q \in Projects, stage[q] = "deleting"
                 PROVE  stage'[q] \in {"deleting", "removed"}
      OBVIOUS
    <2> USE DEF QueueInvariant, TypeOK, RowLinks, WorkerOwnsRow, Stages, Steps, table, worker, env, budget
    <2>1. ASSUME NEW p \in Projects, Requests(p) PROVE stage'[q] \in {"deleting", "removed"}
      BY <2>1 DEF Requests, CreateProject, RetryProject, StartBackup, StartRestore, ReplayRestore,
         BeginDeletion, RetryDeletion
    <2>2. ASSUME NEW p \in Projects, Provisioner(p) PROVE stage'[q] \in {"deleting", "removed"}
      BY <2>2 DEF Provisioner, ProvisionProject, FailProject
    <2>3. CASE PrepareRestore
      BY <2>3 DEF PrepareRestore
    <2>4. CASE CompleteProjectDeletion
      BY <2>4 DEF CompleteProjectDeletion
    <2>5. CASE WorkerStep /\ ~PrepareRestore /\ ~CompleteProjectDeletion
      BY <2>5 DEF WorkerStep, Start, StartWithoutInterrupt, ResumeDeletions, ScheduleBackups, ClaimJob,
         QueueEmpty, Wake, PrepareBackup, PrepareDelete, Work, WorkDelete,
         CompleteProjectDeletionFails, RecordResult, FailDeleteJob, RecordFails
    <2>6. CASE Crash \/ MaintenanceOn \/ MaintenanceOff \/ Tick \/ UNCHANGED vars
      BY <2>6 DEF Crash, MaintenanceOn, MaintenanceOff, Tick, vars
    <2> QED
      BY <2>1, <2>2, <2>3, <2>4, <2>5, <2>6 DEF Next
  <1> QED
    BY <1>1, InitInvariant, QueueStep, PTL DEF Spec, TombstoneIsFinal

(***************************************************************************)
(* The contract: JobQueue implements QueueContract, for any sets of        *)
(* projects and job ids and any bounds.  The four views of the table:      *)
(***************************************************************************)
Deleters == [p \in Projects |-> DeleteJobs(p)]
Lives == [p \in Projects |-> Life(p)]
Results == [j \in JobIds |-> Result(j)]

\* A step that leaves every row's state, kind and subject alone, except that a
\* claimed row turns from queued to running, shows the client no change.
LEMMA QuietRows ==
    ASSUME \A j \in JobIds : Result(j)' = Result(j) /\ (Active(j)' <=> Active(j)),
           \A j \in JobIds : Active(j) => jobs'[j].kind = jobs[j].kind /\ jobs'[j].subject = jobs[j].subject
    PROVE  HeavyJobs' = HeavyJobs /\ Deleters' = Deleters /\ Results' = Results
  <1>1. HeavyJobs' = HeavyJobs
    BY DEF HeavyJobs
  <1>2. \A p \in Projects : DeleteJobs(p)' = DeleteJobs(p)
    BY DEF DeleteJobs
  <1>3. Deleters' = Deleters
    BY <1>2 DEF Deleters
  <1>4. Results' = Results
    BY DEF Results
  <1> QED
    BY <1>1, <1>3, <1>4

\* A stage that changes between "absent", "setup" and "ready" leaves the
\* project open.
LEMMA QuietStages ==
    ASSUME \A p \in Projects : Life(p)' = Life(p)
    PROVE  Lives' = Lives
  BY DEF Lives

\* A fresh row as its readers see it.
LEMMA NewRowFields ==
    ASSUME NEW kind, NEW p
    PROVE  /\ NewRow(kind, p).state = "queued" /\ NewRow(kind, p).kind = kind
           /\ NewRow(kind, p).subject = p /\ NewRow(kind, p).project = p
  BY DEF NewRow

\* One job's result changes.
LEMMA OneResult ==
    ASSUME NEW n \in JobIds, NEW v, \A j \in JobIds : Result(j)' = IF j = n THEN v ELSE Result(j)
    PROVE  Results' = [Results EXCEPT ![n] = v]
  BY DEF Results

\* enqueue is the contract's Accept.
LEMMA EnqueueAccepts ==
    ASSUME QueueInvariant, NEW kind \in {"backup", "restore"}, NEW p \in Projects, Enqueue(kind, p),
           Lives' = Lives
    PROVE  Contract!Next
  <1> DEFINE n == NewId
  <1>1. /\ n \in JobIds /\ jobs[n].state = "none"
        /\ \A j \in JobIds : ~Active(j)
        /\ jobs' = [jobs EXCEPT ![n] = NewRow(kind, p)]
    BY EnqueueEffect
  <1> HIDE DEF n
  <1>2. \A j \in JobIds : jobs'[j] = IF j = n THEN NewRow(kind, p) ELSE jobs[j]
    BY <1>1 DEF QueueInvariant, TypeOK
  <1>3. HeavyJobs = {} /\ HeavyJobs' = {n}
    BY <1>1, <1>2, SMT DEF HeavyJobs, Active, NewRow
  <1>4. \A q \in Projects : DeleteJobs(q) = {} /\ DeleteJobs(q)' = {}
    BY <1>1, <1>2, SMT DEF DeleteJobs, Active, NewRow
  <1>5. Deleters' = Deleters /\ \A q \in Projects : Deleters[q] = {}
    BY <1>4 DEF Deleters
  <1>6. Results[n] = "none" /\ Results' = [Results EXCEPT ![n] = "open"]
    <2>1. \A j \in JobIds : Result(j)' = IF j = n THEN "open" ELSE Result(j)
      BY <1>1, <1>2, SMT DEF Result, Active, NewRow
    <2> QED
      BY <1>1, <2>1, OneResult DEF Results, Result, Active
  <1>7. Contract!Accept(n)
    BY <1>3, <1>5, <1>6 DEF Contract!Accept, Deleters, Lives, Results
  <1> QED
    BY <1>1, <1>7 DEF Contract!Next

\* BeginProjectDeletion is the contract's Mark: what it cancels was waiting.
LEMMA BeginDeletionMarks ==
    ASSUME QueueInvariant, NEW p \in Projects, BeginDeletion(p)
    PROVE  Contract!Next
  <1> DEFINE n == NewId
             cancelled == {j \in JobIds : jobs[j].project = p /\ jobs[j].state = "queued" /\ jobs[j].kind # "delete"}
  <1>1. n \in JobIds /\ jobs[n].state = "none" /\ n \notin cancelled
    BY NewIdIsFree, RoomHasId DEF BeginDeletion
  <1>2. \A j \in JobIds : jobs'[j] = IF j = n THEN NewRow("delete", p)
                                     ELSE IF j \in cancelled THEN [jobs[j] EXCEPT !.state = "failed"]
                                     ELSE jobs[j]
    BY DEF BeginDeletion
  <1>3. stage' = [stage EXCEPT ![p] = "deleting"] /\ stage[p] \in {"ready", "setup"}
    BY DEF BeginDeletion
  <1>4. cancelled \subseteq HeavyJobs
    BY DEF HeavyJobs, Active
  <1>5. \A j \in cancelled : jobs[j].state = "queued" /\ jobs[j].kind # "delete" /\ j \in JobIds
    OBVIOUS
  <1> HIDE DEF n, cancelled
  <1>6. ASSUME NEW j \in JobIds
        PROVE  /\ jobs'[j].kind = IF j = n THEN "delete" ELSE jobs[j].kind
               /\ jobs'[j].subject = IF j = n THEN p ELSE jobs[j].subject
               /\ jobs'[j].state = IF j = n THEN "queued" ELSE IF j \in cancelled THEN "failed" ELSE jobs[j].state
    <2>1. jobs[j] \in Row
      BY DEF QueueInvariant, TypeOK
    <2>2. CASE j = n
      <3>1. jobs'[j] = NewRow("delete", p)
        BY <1>2, <2>2
      <3> QED
        BY <2>2, <3>1, NewRowFields, SMT
    <2>3. CASE j # n /\ j \in cancelled
      BY <1>2, <2>1, <2>3 DEF Row
    <2>4. CASE j # n /\ j \notin cancelled
      BY <1>2, <2>4
    <2> QED
      BY <2>2, <2>3, <2>4
  <1>7. HeavyJobs' = HeavyJobs \ cancelled
    BY <1>1, <1>5, <1>6 DEF HeavyJobs, Active
  <1>8. DeleteJobs(p) = {} /\ DeleteJobs(p)' = {n}
    BY <1>1, <1>3, <1>5, <1>6, SMT DEF DeleteJobs, Active, QueueInvariant, DeleteJobsMatchTombstones
  <1>9. \A q \in Projects \ {p} : DeleteJobs(q)' = DeleteJobs(q)
    BY <1>1, <1>5, <1>6 DEF DeleteJobs, Active
  <1>10. Deleters' = [Deleters EXCEPT ![p] = {n}] /\ Deleters[p] = {}
    BY <1>8, <1>9 DEF Deleters
  <1>11. \A q \in Projects : Life(q)' = IF q = p THEN "deleting" ELSE Life(q)
    BY <1>3 DEF Life, QueueInvariant, TypeOK
  <1>12. Lives' = [Lives EXCEPT ![p] = "deleting"] /\ Lives[p] = "open"
    BY <1>3, <1>11 DEF Lives, Life
  <1>13. \A j \in JobIds : Result(j)' = IF j = n THEN "open" ELSE IF j \in cancelled THEN "failed" ELSE Result(j)
    BY <1>1, <1>6 DEF Result, Active
  <1>14. /\ Results' = [j \in JobIds |-> IF j = n THEN "open" ELSE IF j \in cancelled THEN "failed" ELSE Results[j]]
         /\ Results[n] = "none"
    BY <1>1, <1>13 DEF Results, Result, Active
  <1>15. Contract!Mark(p, n, cancelled)
    BY <1>4, <1>7, <1>10, <1>12, <1>14 DEF Contract!Mark, Deleters, Lives, Results
  <1> QED
    BY <1>1, <1>4, <1>15 DEF Contract!Next

\* New delete jobs for marked projects that have none are the contract's Retry.
LEMMA NewDeletersRetry ==
    ASSUME QueueInvariant, NEW some \in SUBSET Projects, NEW jobOf \in [some -> JobIds],
           \A p \in some : stage[p] = "deleting" /\ ~ActiveDelete(p) /\ jobs[jobOf[p]].state = "none",
           \A p, q \in some : jobOf[p] = jobOf[q] => p = q,
           \A p \in some : jobs'[jobOf[p]] = NewRow("delete", p),
           \A j \in JobIds : (~ \E p \in some : jobOf[p] = j) => jobs'[j] = jobs[j],
           stage' = stage
    PROVE  Contract!Next
  <1>a. ASSUME NEW p \in some
        PROVE  /\ jobs'[jobOf[p]].state = "queued" /\ jobs'[jobOf[p]].kind = "delete"
               /\ jobs'[jobOf[p]].subject = p
               /\ jobOf[p] \in JobIds /\ jobs[jobOf[p]].state = "none"
    BY <1>a, NewRowFields, SMT
  <1>b. ASSUME NEW j \in JobIds
        PROVE  \/ jobs'[j] = jobs[j] /\ ~ \E p \in some : jobOf[p] = j
               \/ \E p \in some : /\ jobOf[p] = j /\ jobs[j].state = "none" /\ jobs'[j].state = "queued"
                                  /\ jobs'[j].kind = "delete" /\ jobs'[j].subject = p
    BY <1>a, SMT
  <1>1. HeavyJobs' = HeavyJobs
    BY <1>b, SMT DEF HeavyJobs, Active
  <1>2. ASSUME NEW p \in some PROVE DeleteJobs(p) = {} /\ DeleteJobs(p)' = {jobOf[p]}
    <2>1. DeleteJobs(p) = {}
      BY SMT DEF DeleteJobs, ActiveDelete, Active, QueueInvariant, DeleteJobsMatchTombstones
    <2>2. ASSUME NEW j \in JobIds PROVE j \in DeleteJobs(p)' <=> j = jobOf[p]
      BY <1>a, <1>b, <2>1, SMT DEF DeleteJobs, Active
    <2> QED
      BY <1>a, <2>1, <2>2, SMT DEF DeleteJobs
  <1>3. ASSUME NEW p \in Projects, p \notin some PROVE DeleteJobs(p)' = DeleteJobs(p)
    <2>1. ASSUME NEW j \in JobIds PROVE j \in DeleteJobs(p)' <=> j \in DeleteJobs(p)
      BY <1>3, <1>b, SMT DEF DeleteJobs, Active
    <2> QED
      BY <2>1 DEF DeleteJobs
  <1>4. Deleters' = [p \in Projects |-> IF p \in some THEN {jobOf[p]} ELSE Deleters[p]]
    BY <1>2, <1>3 DEF Deleters
  <1>5. \A j \in JobIds : Result(j)' = IF \E p \in some : jobOf[p] = j THEN "open" ELSE Result(j)
    BY <1>b, SMT DEF Result, Active
  <1>6. Results' = [j \in JobIds |-> IF \E p \in some : jobOf[p] = j THEN "open" ELSE Results[j]]
    BY <1>5, SMT DEF Results
  <1>7. Lives' = Lives
    BY DEF Lives, Life
  <1>8. \A p \in some : Lives[p] = "deleting" /\ Deleters[p] = {} /\ Results[jobOf[p]] = "none"
    BY <1>2 DEF Lives, Life, Deleters, Results, Result, Active
  <1>9. DOMAIN jobOf = some
    OBVIOUS
  <1>10. Contract!Retry(jobOf)
    BY <1>1, <1>4, <1>6, <1>7, <1>8, <1>9, ZenonT(60) DEF Contract!Retry, Deleters, Lives, Results
  <1> QED
    BY <1>10 DEF Contract!Next

\* The worker ending a backup or restore is the contract's Finish, failing a
\* delete job its DeleteFails.
LEMMA EndsJob ==
    ASSUME QueueInvariant, NEW how \in {"succeeded", "failed"},
           cur \in JobIds, jobs[cur].state = "running",
           jobs[cur].kind = "delete" => how = "failed",
           jobs' = SetState(cur, how), stage' = stage
    PROVE  Contract!Next
  <1>1. \A j \in JobIds : jobs[j] \in Row
    BY DEF QueueInvariant, TypeOK
  <1>2. ASSUME NEW j \in JobIds
        PROVE  /\ jobs'[j].kind = jobs[j].kind /\ jobs'[j].subject = jobs[j].subject
               /\ jobs'[j].state = IF j = cur THEN how ELSE jobs[j].state
    BY <1>1 DEF SetState, Row, QueueInvariant, TypeOK
  <1>3. \A j \in JobIds : Result(j)' = IF j = cur THEN how ELSE Result(j)
    BY <1>2 DEF Result, Active
  <1>4. Results' = [Results EXCEPT ![cur] = how]
    BY <1>3, OneResult
  <1>5. Lives' = Lives
    BY DEF Lives, Life
  <1>6. HeavyJobs' = HeavyJobs \ {cur}
    BY <1>2 DEF HeavyJobs, Active
  <1>7. \A p \in Projects : DeleteJobs(p)' = DeleteJobs(p) \ {cur}
    BY <1>2 DEF DeleteJobs, Active
  <1>8. CASE jobs[cur].kind # "delete"
    <2>1. cur \in HeavyJobs /\ \A p \in Projects : DeleteJobs(p)' = DeleteJobs(p)
      BY <1>7, <1>8 DEF HeavyJobs, DeleteJobs, Active
    <2>2. Deleters' = Deleters
      BY <2>1 DEF Deleters
    <2>3. Contract!Finish(cur, how)
      BY <1>4, <1>5, <1>6, <2>1, <2>2 DEF Contract!Finish, Deleters, Lives, Results
    <2> QED
      BY <2>3 DEF Contract!Next
  <1>9. CASE jobs[cur].kind = "delete"
    <2> DEFINE p == jobs[cur].subject
    <2>1. p \in Projects /\ cur \in DeleteJobs(p) /\ HeavyJobs' = HeavyJobs
      BY <1>6, <1>9 DEF DeleteJobs, HeavyJobs, Active, QueueInvariant, RowLinks
    <2>2. \A q \in Projects \ {p} : DeleteJobs(q)' = DeleteJobs(q)
      BY <1>7 DEF DeleteJobs
    <2> HIDE DEF p
    <2>3. Deleters' = [Deleters EXCEPT ![p] = @ \ {cur}] /\ cur \in Deleters[p]
      BY <1>7, <2>1, <2>2 DEF Deleters
    <2>4. Contract!DeleteFails(p, cur)
      BY <1>4, <1>5, <1>9, <2>1, <2>3 DEF Contract!DeleteFails, Deleters, Lives, Results
    <2> QED
      BY <2>1, <2>4 DEF Contract!Next
  <1> QED
    BY <1>8, <1>9

\* CompleteProjectDeletion is the contract's Remove.
LEMMA CompletionRemoves ==
    ASSUME QueueInvariant, CompleteProjectDeletion
    PROVE  Contract!Next
  <1> DEFINE p == jobs[cur].subject
  <1>1. /\ cur \in JobIds /\ jobs[cur].state = "running" /\ jobs[cur].kind = "delete"
        /\ p \in Projects /\ stage[p] = "deleting"
    BY DEF CompleteProjectDeletion, QueueInvariant, WorkerOwnsRow, RowLinks, TypeOK
  <1>2. /\ jobs' = [j \in JobIds |->
                     [jobs[j] EXCEPT !.project = IF @ = p THEN None ELSE @,
                                     !.state = IF j = cur THEN "succeeded" ELSE @]]
        /\ stage' = [stage EXCEPT ![p] = "removed"]
    BY DEF CompleteProjectDeletion
  <1>3. cur \in DeleteJobs(p)
    BY <1>1 DEF DeleteJobs, Active
  <1>a. \A q \in Projects \ {p} : cur \notin DeleteJobs(q)
    BY DEF DeleteJobs
  <1> HIDE DEF p
  <1>4. \A j \in JobIds : jobs[j] \in Row
    BY DEF QueueInvariant, TypeOK
  <1>5. ASSUME NEW j \in JobIds
        PROVE  /\ jobs'[j].kind = jobs[j].kind /\ jobs'[j].subject = jobs[j].subject
               /\ jobs'[j].state = IF j = cur THEN "succeeded" ELSE jobs[j].state
    BY <1>2, <1>4 DEF Row
  <1>6. \A j \in JobIds : Result(j)' = IF j = cur THEN "succeeded" ELSE Result(j)
    BY <1>5 DEF Result, Active
  <1>7. Results' = [Results EXCEPT ![cur] = "succeeded"]
    BY <1>1, <1>6, OneResult
  <1>8. HeavyJobs' = HeavyJobs
    BY <1>1, <1>5 DEF HeavyJobs, Active
  <1>9. \A q \in Projects : DeleteJobs(q)' = DeleteJobs(q) \ {cur}
    BY <1>5 DEF DeleteJobs, Active
  <1>10. \A q \in Projects \ {p} : DeleteJobs(q)' = DeleteJobs(q)
    BY <1>9, <1>a
  <1>11. Deleters' = [Deleters EXCEPT ![p] = @ \ {cur}] /\ cur \in Deleters[p]
    BY <1>1, <1>3, <1>9, <1>10 DEF Deleters
  <1>12. \A q \in Projects : Life(q)' = IF q = p THEN "removed" ELSE Life(q)
    BY <1>1, <1>2 DEF Life, QueueInvariant, TypeOK
  <1>13. Lives' = [Lives EXCEPT ![p] = "removed"] /\ Lives[p] = "deleting"
    BY <1>1, <1>12 DEF Lives, Life
  <1>14. Contract!Remove(p, cur)
    BY <1>7, <1>8, <1>11, <1>13 DEF Contract!Remove, Deleters, Lives, Results
  <1> QED
    BY <1>1, <1>14 DEF Contract!Next

\* InterruptRunningJobs is the contract's Interrupt.
LEMMA StartInterrupts ==
    ASSUME QueueInvariant, Start
    PROVE  Contract!Next
  <1> DEFINE given == {j \in JobIds : jobs[j].state = "running"}
  <1>1. \A j \in JobIds : jobs[j] \in Row
    BY DEF QueueInvariant, TypeOK
  <1>2. ASSUME NEW j \in JobIds
        PROVE  /\ jobs'[j].kind = jobs[j].kind /\ jobs'[j].subject = jobs[j].subject
               /\ jobs'[j].state = IF j \in given THEN "interrupted" ELSE jobs[j].state
    BY <1>1 DEF Start, Row
  <1>3. \A j \in given : j \in JobIds /\ jobs[j].state = "running"
    OBVIOUS
  <1> HIDE DEF given
  <1>4. HeavyJobs' = HeavyJobs \ given
    BY <1>2, <1>3 DEF HeavyJobs, Active
  <1>5. \A p \in Projects : DeleteJobs(p)' = DeleteJobs(p) \ given
    BY <1>2, <1>3 DEF DeleteJobs, Active
  <1>6. Deleters' = [p \in Projects |-> Deleters[p] \ given]
    BY <1>5 DEF Deleters
  <1>7. \A j \in JobIds : Result(j)' = IF j \in given THEN "interrupted" ELSE Result(j)
    BY <1>2 DEF Result, Active
  <1>8. Results' = [j \in JobIds |-> IF j \in given THEN "interrupted" ELSE Results[j]]
    BY <1>7 DEF Results
  <1>9. Lives' = Lives
    BY DEF Start, Lives, Life
  <1>10. \A j \in given : Results[j] = "open"
    BY <1>3 DEF Results, Result, Active
  <1>11. Contract!Interrupt(given)
    BY <1>4, <1>6, <1>8, <1>9, <1>10 DEF Contract!Interrupt, Deleters, Lives, Results
  <1>12. given \in SUBSET JobIds
    BY <1>3
  <1> QED
    BY <1>11, <1>12 DEF Contract!Next

\* Steps that touch no row, and move no project to or from the marked stages,
\* are invisible.
LEMMA SameRowsInvisible ==
    ASSUME jobs' = jobs, \A p \in Projects : Life(p)' = Life(p)
    PROVE  UNCHANGED Contract!contract
  <1>1. \A j \in JobIds : Result(j)' = Result(j) /\ (Active(j)' <=> Active(j))
    BY DEF Result, Active
  <1>2. HeavyJobs' = HeavyJobs /\ Deleters' = Deleters /\ Results' = Results
    BY <1>1, QuietRows
  <1> QED
    BY <1>2, QuietStages DEF Contract!contract, Deleters, Lives, Results

\* Claiming a job is invisible: it stays open.
LEMMA ClaimInvisible ==
    ASSUME QueueInvariant, ClaimJob
    PROVE  UNCHANGED Contract!contract
  <1>1. PICK j \in JobIds : jobs[j].state = "queued" /\ jobs' = SetState(j, "running")
    BY DEF ClaimJob
  <1>2. \A k \in JobIds : jobs[k] \in Row
    BY DEF QueueInvariant, TypeOK
  <1>3. ASSUME NEW k \in JobIds
        PROVE  /\ jobs'[k].kind = jobs[k].kind /\ jobs'[k].subject = jobs[k].subject
               /\ jobs'[k].state = IF k = j THEN "running" ELSE jobs[k].state
    BY <1>1, <1>2 DEF SetState, Row, QueueInvariant, TypeOK
  <1>4. \A k \in JobIds : Result(k)' = Result(k) /\ (Active(k)' <=> Active(k))
    BY <1>1, <1>3 DEF Result, Active
  <1>5. HeavyJobs' = HeavyJobs /\ Deleters' = Deleters /\ Results' = Results
    BY <1>3, <1>4, QuietRows
  <1>6. Lives' = Lives
    BY DEF ClaimJob, Lives, Life
  <1> QED
    BY <1>5, <1>6 DEF Contract!contract, Deleters, Lives, Results

\* The restart and ticker resumption of deletions is the contract's Retry.
LEMMA ResumeRetries ==
    ASSUME QueueInvariant, ResumeDeletions
    PROVE  Contract!Next \/ UNCHANGED Contract!contract
  <1> DEFINE pending == {p \in Projects : stage[p] = "deleting" /\ ~ActiveDelete(p)}
  <1>1. stage' = stage
    BY DEF ResumeDeletions
  <1>2. CASE jobs' = jobs
    BY <1>1, <1>2, SameRowsInvisible DEF Life
  <1>3. ASSUME NEW f \in [pending -> FreeIds],
               \A p, q \in pending : f[p] = f[q] => p = q,
               jobs' = [j \in JobIds |->
                          IF \E p \in pending : f[p] = j
                            THEN NewRow("delete", CHOOSE p \in pending : f[p] = j)
                            ELSE jobs[j]]
        PROVE  Contract!Next
    <2>1. ASSUME NEW p \in pending
          PROVE  /\ p \in Projects /\ stage[p] = "deleting" /\ ~ActiveDelete(p)
                 /\ f[p] \in JobIds /\ jobs[f[p]].state = "none"
                 /\ jobs'[f[p]] = NewRow("delete", p)
      BY <1>3, <2>1 DEF FreeIds
    <2>2. \A j \in JobIds : (~ \E p \in pending : f[p] = j) => jobs'[j] = jobs[j]
      BY <1>3
    <2>3. f \in [pending -> JobIds] /\ pending \in SUBSET Projects
      BY DEF FreeIds
    <2>4. \A p, q \in pending : f[p] = f[q] => p = q
      BY <1>3
    <2> HIDE DEF pending
    <2>5. /\ \A p \in pending : stage[p] = "deleting" /\ ~ActiveDelete(p) /\ jobs[f[p]].state = "none"
          /\ \A p \in pending : jobs'[f[p]] = NewRow("delete", p)
      BY <2>1
    <2> QED
      BY <1>1, <2>2, <2>3, <2>4, <2>5, NewDeletersRetry
  <1> QED
    BY <1>2, <1>3 DEF ResumeDeletions

\* Every step of the queue is a step of the contract or invisible.
THEOREM ContractStep == QueueInvariant /\ [Next]_vars => [Contract!Next]_(Contract!contract)
  <1> SUFFICES ASSUME QueueInvariant, [Next]_vars
               PROVE  Contract!Next \/ UNCHANGED Contract!contract
    OBVIOUS
  <1> USE DEF table, worker, env, budget
  <1>1. ASSUME NEW p \in Projects, CreateProject(p) \/ RetryProject(p) \/ ProvisionProject(p) \/ FailProject(p)
        PROVE  UNCHANGED Contract!contract
    <2>1. jobs' = jobs /\ \A q \in Projects : Life(q)' = Life(q)
      BY <1>1 DEF CreateProject, RetryProject, ProvisionProject, FailProject, Life, QueueInvariant, TypeOK
    <2> QED
      BY <2>1, SameRowsInvisible
  <1>2. ASSUME NEW p \in Projects, StartBackup(p) \/ ReplayRestore(p)
        PROVE  Contract!Next
    <2>1. Lives' = Lives /\ (Enqueue("backup", p) \/ Enqueue("restore", p))
      BY <1>2 DEF StartBackup, ReplayRestore, Lives, Life
    <2> QED
      BY <2>1, EnqueueAccepts
  <1>3. ASSUME NEW p \in Projects, StartRestore(p)
        PROVE  Contract!Next \/ UNCHANGED Contract!contract
    <2>1. \A q \in Projects : Life(q)' = Life(q)
      BY <1>3 DEF StartRestore, Life, QueueInvariant, TypeOK
    <2>2. CASE Enqueue("restore", p)
      BY <2>1, <2>2, QuietStages, EnqueueAccepts
    <2>3. CASE jobs' = jobs
      BY <2>1, <2>3, SameRowsInvisible
    <2> QED
      BY <1>3, <2>2, <2>3 DEF StartRestore
  <1>4. ASSUME NEW p \in Projects, BeginDeletion(p) PROVE Contract!Next
    BY <1>4, BeginDeletionMarks
  <1>5. ASSUME NEW p \in Projects, RetryDeletion(p) PROVE Contract!Next
    <2> DEFINE n == NewId
               jobOf == [q \in {p} |-> n]
    <2>1. n \in JobIds /\ jobs[n].state = "none"
      BY <1>5, NewIdIsFree DEF RetryDeletion
    <2>2. /\ stage[p] = "deleting" /\ ~ActiveDelete(p) /\ stage' = stage
          /\ jobs' = [jobs EXCEPT ![n] = NewRow("delete", p)]
      BY <1>5 DEF RetryDeletion
    <2> HIDE DEF n
    <2>3. jobs'[n] = NewRow("delete", p) /\ \A j \in JobIds : j # n => jobs'[j] = jobs[j]
      BY <2>1, <2>2 DEF QueueInvariant, TypeOK
    <2>4. jobOf \in [{p} -> JobIds] /\ jobOf[p] = n
      BY <2>1
    <2> HIDE DEF jobOf
    <2>5. \A q \in {p} : stage[q] = "deleting" /\ ~ActiveDelete(q) /\ jobs[jobOf[q]].state = "none"
      BY <2>1, <2>2, <2>4
    <2>6. \A q \in {p} : jobs'[jobOf[q]] = NewRow("delete", q)
      BY <2>3, <2>4
    <2>7. \A j \in JobIds : (~ \E q \in {p} : jobOf[q] = j) => jobs'[j] = jobs[j]
      BY <2>3, <2>4
    <2>8. {p} \in SUBSET Projects /\ \A q, r \in {p} : jobOf[q] = jobOf[r] => q = r
      OBVIOUS
    <2> QED
      BY <2>2, <2>4, <2>5, <2>6, <2>7, <2>8, NewDeletersRetry
  <1>6. CASE Start
    BY <1>6, StartInterrupts
  <1>7. CASE ResumeDeletions
    BY <1>7, ResumeRetries
  <1>8. CASE ScheduleBackups
    <2>1. stage' = stage
      BY <1>8 DEF ScheduleBackups
    <2>2. CASE jobs' = jobs
      BY <2>1, <2>2, SameRowsInvisible DEF Life
    <2>3. ASSUME NEW p \in Projects, Enqueue("backup", p) PROVE Contract!Next
      BY <2>1, <2>3, EnqueueAccepts DEF Lives, Life
    <2> QED
      BY <1>8, <2>2, <2>3 DEF ScheduleBackups
  <1>9. CASE ClaimJob
    BY <1>9, ClaimInvisible
  <1>10. CASE PrepareRestore
    <2>1. jobs' = jobs /\ \A q \in Projects : Life(q)' = Life(q)
      BY <1>10 DEF PrepareRestore, Life, QueueInvariant, TypeOK
    <2> QED
      BY <2>1, SameRowsInvisible
  <1>11. CASE CompleteProjectDeletion
    BY <1>11, CompletionRemoves
  <1>12. CASE RecordResult
    <2>1. /\ cur \in JobIds /\ jobs[cur].state = "running" /\ outcome \in {"succeeded", "failed"}
          /\ jobs[cur].kind # "delete" /\ jobs' = SetState(cur, outcome) /\ stage' = stage
      BY <1>12 DEF RecordResult, Running, QueueInvariant, WorkerOwnsRow, TypeOK
    <2> QED
      BY <2>1, EndsJob
  <1>13. CASE FailDeleteJob
    <2>1. /\ cur \in JobIds /\ jobs[cur].state = "running"
          /\ jobs' = SetState(cur, "failed") /\ stage' = stage
      BY <1>13 DEF FailDeleteJob, QueueInvariant, WorkerOwnsRow, TypeOK
    <2> QED
      BY <2>1, EndsJob
  <1>14. CASE \/ StartWithoutInterrupt \/ QueueEmpty \/ Wake \/ PrepareBackup \/ PrepareDelete \/ Work
              \/ WorkDelete \/ CompleteProjectDeletionFails \/ RecordFails
              \/ Crash \/ MaintenanceOn \/ MaintenanceOff \/ Tick \/ UNCHANGED vars
    <2>1. jobs' = jobs /\ stage' = stage
      BY <1>14 DEF StartWithoutInterrupt, QueueEmpty, Wake, PrepareBackup, PrepareDelete, Work, WorkDelete,
         CompleteProjectDeletionFails, RecordFails, Crash, MaintenanceOn, MaintenanceOff, Tick, vars
    <2> QED
      BY <2>1, SameRowsInvisible DEF Life
  <1> QED
    BY <1>1, <1>2, <1>3, <1>4, <1>5, <1>6, <1>7, <1>8, <1>9, <1>10, <1>11, <1>12, <1>13, <1>14
       DEF Next, Requests, Provisioner, WorkerStep

\* The queue, with its table, worker, crashes and failed writes, implements the
\* contract its clients rely on.
THEOREM QueueKeepsContract == Spec => KeepsContract
  <1>1. Init => Contract!Init
    <2> SUFFICES ASSUME Init PROVE Contract!Init
      OBVIOUS
    <2>1. \A j \in JobIds : jobs[j].state = "none"
      BY DEF Init, NoRow
    <2>2. HeavyJobs = {} /\ \A p \in Projects : DeleteJobs(p) = {}
      BY <2>1 DEF HeavyJobs, DeleteJobs, Active
    <2>3. \A j \in JobIds : Result(j) = "none"
      BY <2>1 DEF Result, Active
    <2>4. \A p \in Projects : Life(p) = "open"
      BY DEF Init, Life
    <2> QED
      BY <2>2, <2>3, <2>4 DEF Contract!Init
  <1> QED
    BY <1>1, InitInvariant, QueueStep, ContractStep, PTL DEF Spec, KeepsContract, Contract!Spec
=============================================================================
