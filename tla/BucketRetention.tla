-------------------------- MODULE BucketRetention --------------------------
(***************************************************************************)
(* The bucket, what Pgfy believes about it, and what Pgfy removes from it: *)
(* publishing a backup, the reconciliation pass, retention, cleaning up    *)
(* abandoned uploads and pruning job history.  All of it runs in the one   *)
(* worker goroutine; what interferes is the process dying, object-store    *)
(* calls that fail or whose answer is lost, another installation using the *)
(* same folder, an operator removing or overwriting objects, storage       *)
(* settings pointed at another store, and an update.                       *)
(*                                                                         *)
(* Abstractions.  One database folder; its directories are named by their  *)
(* second, here the hour at which the backup was keyed, so a directory is  *)
(* an element of Times.  A manifest is its owner: "ours" names this        *)
(* installation and project.  A damaged entry is one whose manifest could  *)
(* not be read.  Hours are counted from a Monday at midnight UTC.          *)
(***************************************************************************)
EXTENDS RetentionPolicy

CONSTANTS
    Times,            \* the hours at which something may happen
    Stores,           \* storage targets the settings may name
    ForeignTimes,     \* hours at which another installation may back up here
    Budgets           \* bounds, one of which holds: faults (crashes, failed calls,
                      \* lost answers, updates), changes of the settings, removals
                      \* by an operator, steps of another installation
CONSTANTS
    Hours, Tried      \* backups and policies for which selectExpired is examined

ASSUME TimesAssumption ==
    /\ Times \subseteq Nat \ {0} /\ Times # {}
    /\ ForeignTimes \subseteq Times /\ Stores # {}
    /\ Budgets \subseteq Nat \X Nat \X Nat \X Nat
    /\ Hours \subseteq Nat /\ \A p \in Tried : Validate(p)

VARIABLES
    now,
    archive, manifest,      \* the objects of each directory, by owner
    home,                   \* the store a directory lives in
    view,                   \* bucket_backups
    history,                \* directories with a row in backups
    job,                    \* the backup job claiming a directory
    reconciledAt,           \* bucket_targets.reconciled_at
    active,                 \* the store the settings name
    maint, protected,       \* the maintenance flag; bucket versioning
    trial,                  \* the process started during the present update
    pc, phase, store, dir, listing, plan, todo,   \* the worker
    faults, switches, removals, intrusions        \* what is left of the budget

bucket == <<archive, manifest, home>>
records == <<view, history, job, reconciledAt>>
worker == <<pc, phase, store, dir, listing, plan, todo>>
settings == <<active, maint, protected, trial>>
budget == <<faults, switches, removals, intrusions>>
vars == <<now, archive, manifest, home, view, history, job, reconciledAt, active, maint,
          protected, trial, pc, phase, store, dir, listing, plan, todo, faults, switches,
          removals, intrusions>>

Owners == {"none", "ours", "foreign"}
EntryStates == {"absent", "complete", "manifest_only", "archive_only", "damaged"}
RowType == [state : EntryStates, owner : Owners, deleting : BOOLEAN]
NoRow == [state |-> "absent", owner |-> "none", deleting |-> FALSE]
JobRow == [state : {"none", "running", "failed", "succeeded"}, finished : Nat]
NoJob == [state |-> "none", finished |-> 0]
NoListing == [t \in Times |-> "absent"]
NoPlan == [t \in Times |-> NoRow]
NoDir == CHOOSE t \in Times : TRUE

Init ==
    /\ now \in Times /\ \A t \in Times : now <= t
    /\ archive = [t \in Times |-> "none"] /\ manifest = [t \in Times |-> "none"]
    /\ active = (CHOOSE s \in Stores : TRUE) /\ home = [t \in Times |-> active]
    /\ view = [t \in Times |-> NoRow] /\ history = {}
    /\ job = [t \in Times |-> NoJob] /\ reconciledAt = [s \in Stores |-> 0]
    /\ maint = FALSE /\ protected = TRUE /\ trial = FALSE
    /\ pc = "down" /\ phase = "finish" /\ store = active /\ dir = NoDir
    /\ listing = NoListing /\ plan = NoPlan /\ todo = {}
    /\ \E b \in Budgets : faults = b[1] /\ switches = b[2] /\ removals = b[3] /\ intrusions = b[4]

Fault == faults > 0 /\ faults' = faults - 1
\* The worker moves on; between two pieces of work its locals are gone.
GoTo(step) ==
    /\ pc' = step
    /\ IF step \in {"idle", "down", "list"}
         THEN /\ phase' = "finish" /\ dir' = NoDir /\ listing' = NoListing
              /\ plan' = NoPlan /\ todo' = {} /\ store' = active
         ELSE UNCHANGED <<phase, store, dir, listing, plan, todo>>

(***************************************************************************)
(* Publishing: runBackup from SetJobTarget on, and CompleteBackupJob.      *)
(***************************************************************************)
StartUpload ==
    /\ pc = "idle" /\ ~maint
    /\ archive[now] = "none" /\ manifest[now] = "none" /\ job[now] = NoJob
    /\ job' = [job EXCEPT ![now].state = "running"]
    /\ home' = [home EXCEPT ![now] = active]
    /\ pc' = "upload" /\ dir' = now /\ store' = active
    /\ UNCHANGED <<now, archive, manifest, view, history, reconciledAt, phase, listing, plan,
                   todo, settings, budget>>

\* A call to the object store: done and acknowledged, or failed, in which case
\* it may have taken effect all the same.
Call(object, value, then, otherwise) ==
    \/ object' = [object EXCEPT ![dir] = value] /\ GoTo(then) /\ UNCHANGED faults
    \/ object' = [object EXCEPT ![dir] = value] /\ GoTo(otherwise) /\ Fault
    \/ UNCHANGED object /\ GoTo(otherwise) /\ Fault

UploadArchive ==
    /\ pc = "upload"
    /\ Call(archive, "ours", "publish", "fail")
    /\ UNCHANGED <<now, manifest, home, records, settings, switches, removals, intrusions>>

UploadManifest ==
    /\ pc = "publish"
    /\ Call(manifest, "ours", "complete", "fail")
    /\ UNCHANGED <<now, archive, home, records, settings, switches, removals, intrusions>>

CompleteBackupJob ==
    /\ pc = "complete"
    /\ job' = [job EXCEPT ![dir] = [state |-> "succeeded", finished |-> now]]
    /\ history' = history \cup {dir}
    /\ GoTo("list")
    /\ UNCHANGED <<now, bucket, view, reconciledAt, settings, budget>>

FailBackupJob ==
    /\ pc = "fail"
    /\ job' = [job EXCEPT ![dir] = [state |-> "failed", finished |-> now]]
    /\ GoTo("idle")
    /\ UNCHANGED <<now, bucket, view, history, reconciledAt, settings, budget>>

(***************************************************************************)
(* The reconciliation pass.                                                *)
(***************************************************************************)
\* EntriesFrom: what one complete listing of the folder shows for a directory.
EntryState(t, s) ==
    CASE home[t] # s                                       -> "absent"
      [] archive[t] # "none" /\ manifest[t] # "none"       -> "complete"
      [] archive[t] # "none"                               -> "archive_only"
      [] manifest[t] # "none"                              -> "manifest_only"
      [] OTHER                                             -> "absent"

\* Reconcile reads the settings once; the whole pass is about that store.
Reconcile ==
    /\ pc = "idle"
    /\ GoTo("list")
    /\ UNCHANGED <<now, bucket, records, settings, budget>>

ListBackups ==
    /\ pc = "list"
    /\ \/ /\ listing' = [t \in Times |-> EntryState(t, active)] /\ store' = active
          /\ pc' = "record" /\ UNCHANGED <<phase, dir, plan, todo, faults>>
       \/ Fault /\ GoTo("idle")
    /\ UNCHANGED <<now, bucket, records, settings, switches, removals, intrusions>>

\* Mutant of Recorded: the delete mark of a row does not survive a pass.
RecordedAfresh(t, unreadable) ==
    CASE listing[t] = "archive_only" -> [NoRow EXCEPT !.state = "archive_only"]
      [] listing[t] \in {"complete", "manifest_only"} ->
           [state |-> listing[t], owner |-> manifest[t], deleting |-> FALSE]
      [] OTHER -> NoRow

\* Ownership is cached with the row; only an entry not recorded yet, or damaged
\* so far, has its manifest read, and one that cannot be read is damaged.
Recorded(t, unreadable) ==
    CASE listing[t] = "archive_only" ->
           [state |-> "archive_only", owner |-> "none", deleting |-> view[t].deleting]
      [] listing[t] \in {"complete", "manifest_only"} /\ view[t].owner # "none" ->
           [state |-> listing[t], owner |-> view[t].owner, deleting |-> FALSE]
      [] listing[t] \in {"complete", "manifest_only"} /\ view[t].owner = "none" ->
           IF manifest[t] # "none" /\ t \notin unreadable
             THEN [state |-> listing[t], owner |-> manifest[t], deleting |-> FALSE]
             ELSE [NoRow EXCEPT !.state = "damaged"]
      [] OTHER -> NoRow

\* reconcilePrefix with ReplacePrefix, and TombstonePrefixes for an empty folder:
\* the rows of this store become exactly what the listing found.
ReplacePrefix ==
    /\ pc = "record"
    /\ \E unreadable \in SUBSET {t \in Times : listing[t] # "absent" /\ view[t].owner = "none"} :
         /\ view' = [t \in Times |-> IF home[t] = store THEN Recorded(t, unreadable) ELSE view[t]]
         /\ IF unreadable = {} THEN UNCHANGED faults ELSE Fault
    /\ pc' = "settle" /\ listing' = NoListing
    /\ UNCHANGED <<now, bucket, history, job, reconciledAt, phase, store, dir, plan, todo, settings,
                   switches, removals, intrusions>>

\* SetTargetReconciled, ForgetLostLocalBackups and the check of the update flag.
Settle ==
    /\ pc = "settle"
    /\ reconciledAt' = [reconciledAt EXCEPT ![store] = now]
    /\ history' = {t \in history : home[t] = store => view[t].state = "complete"}
    /\ GoTo(IF maint THEN "idle" ELSE "retain")
    /\ UNCHANGED <<now, bucket, view, job, settings, budget>>

(***************************************************************************)
(* Retention.                                                              *)
(***************************************************************************)
\* blockedByForeignContent
Blocked(rows) ==
    \E t \in Times : \/ rows[t].state = "damaged"
                     \/ rows[t].state = "complete" /\ rows[t].owner # "ours"

\* The rows of the store the pass is about.
Rows == [t \in Times |-> IF home[t] = store THEN view[t] ELSE NoRow]

\* Mutant of AbandonedUploadKey: only a job that still runs claims its folder.
RunningUploadKey(t, before) == job[t].state = "running" /\ job[t].finished < before

AbandonedUploadKey(t, before) ==
    job[t].state = "failed" /\ job[t].finished < before

\* retain reads the folder's rows once and works from them.
Retain ==
    /\ pc = "retain"
    /\ IF protected
         THEN /\ plan' = Rows /\ phase' = "finish" /\ pc' = "next"
              /\ todo' = {t \in Times : Rows[t].state = "archive_only" /\ Rows[t].deleting}
         ELSE pc' = "prune" /\ UNCHANGED <<plan, phase, todo>>
    /\ UNCHANGED <<now, bucket, records, store, dir, listing, settings, budget>>

NextPhase ==
    /\ pc = "next" /\ todo = {}
    /\ \/ /\ phase = "finish" /\ Blocked(plan)
          /\ pc' = "prune" /\ UNCHANGED <<phase, todo>>
       \/ /\ phase = "finish" /\ ~Blocked(plan)
          /\ phase' = "expire" /\ UNCHANGED pc
          /\ todo' = SelectExpired({t \in Times : plan[t].state = "complete"}, Policy, now)
       \/ /\ phase = "expire"
          /\ phase' = "clean" /\ UNCHANGED pc
          /\ todo' = {t \in Times : /\ plan[t].state = "archive_only" /\ ~plan[t].deleting
                                     /\ t <= now - Day /\ AbandonedUploadKey(t, now - Day)}
       \/ /\ phase = "clean"
          /\ pc' = "prune" /\ UNCHANGED <<phase, todo>>
    /\ UNCHANGED <<now, bucket, records, store, dir, listing, plan, settings, budget>>

NextItem ==
    /\ pc = "next"
    /\ \E latest \in todo :
          /\ \A t \in todo : t <= latest
          /\ dir' = latest /\ todo' = todo \ {latest}
    /\ pc' = IF phase = "expire" THEN "check" ELSE "remove_archive"
    /\ UNCHANGED <<now, bucket, records, phase, store, listing, plan, settings, budget>>

\* Mutant of CheckManifest: the cached owner is trusted.
TrustCachedOwner ==
    /\ pc = "check"
    /\ view' = [view EXCEPT ![dir].deleting = TRUE]
    /\ GoTo("remove_manifest")
    /\ UNCHANGED <<now, bucket, history, job, reconciledAt, settings, budget>>

\* The first half of deleteBackup: the manifest is read again before anything is
\* removed; if it changed hands the row is dropped and the folder left alone.
CheckManifest ==
    /\ pc = "check"
    /\ \/ /\ manifest[dir] = "ours"
          /\ view' = [view EXCEPT ![dir].deleting = TRUE]
          /\ GoTo("remove_manifest") /\ UNCHANGED faults
       \/ /\ manifest[dir] = "foreign"
          /\ view' = [view EXCEPT ![dir] = NoRow]
          /\ GoTo("prune") /\ UNCHANGED faults
       \/ /\ GoTo("prune") /\ UNCHANGED view
          /\ IF manifest[dir] = "none" THEN UNCHANGED faults ELSE Fault
    /\ UNCHANGED <<now, bucket, history, job, reconciledAt, settings, switches, removals, intrusions>>

RemoveManifest ==
    /\ pc = "remove_manifest"
    /\ Call(manifest, "none", "mark", "prune")
    /\ UNCHANGED <<now, archive, home, records, settings, switches, removals, intrusions>>

MarkBackupArchiveOnly ==
    /\ pc = "mark"
    /\ view' = [view EXCEPT ![dir].state = "archive_only"]
    /\ GoTo("remove_archive")
    /\ UNCHANGED <<now, bucket, history, job, reconciledAt, settings, budget>>

RemoveArchive ==
    /\ pc = "remove_archive"
    /\ Call(archive, "none", "forget", "prune")
    /\ UNCHANGED <<now, manifest, home, records, settings, switches, removals, intrusions>>

ForgetBucketBackup ==
    /\ pc = "forget"
    /\ view' = [view EXCEPT ![dir] = NoRow]
    /\ GoTo(IF phase = "clean" THEN "next" ELSE "unlist")
    /\ UNCHANGED <<now, bucket, history, job, reconciledAt, settings, budget>>

DeleteLocalBackupRow ==
    /\ pc = "unlist"
    /\ history' = history \ {dir}
    /\ GoTo("next")
    /\ UNCHANGED <<now, bucket, view, job, reconciledAt, settings, budget>>

\* Mutant of Prunable: age alone decides.
PrunableByAge(t) == job[t].finished > 0 /\ job[t].finished < now - 90 * Day

\* PruneJobs: a row that may still prove where an archive came from stays.
Prunable(t) ==
    /\ job[t].finished > 0 /\ job[t].finished < now - 90 * Day
    /\ view[t].state # "archive_only"
    /\ reconciledAt[home[t]] > job[t].finished

PruneJobs ==
    /\ pc = "prune"
    /\ job' = [t \in Times |-> IF Prunable(t) THEN NoJob ELSE job[t]]
    /\ GoTo("idle")
    /\ UNCHANGED <<now, bucket, view, history, reconciledAt, settings, budget>>

(***************************************************************************)
(* The process, and everything around it.                                  *)
(***************************************************************************)
\* Run: InterruptRunningJobs, then the first reconciliation.
Start ==
    /\ pc = "down"
    /\ job' = [t \in Times |-> IF job[t].state = "running"
                                  THEN [state |-> "failed", finished |-> now] ELSE job[t]]
    /\ trial' = maint
    /\ GoTo("list")
    /\ UNCHANGED <<now, bucket, view, history, reconciledAt, active, maint, protected, budget>>

Crash ==
    /\ pc # "down"
    /\ Fault
    /\ GoTo("down")
    /\ UNCHANGED <<now, bucket, records, settings, switches, removals, intrusions>>

Tick ==
    /\ \E next \in Times :
          /\ next > now /\ \A t \in Times : t > now => next <= t
          /\ now' = next
    /\ UNCHANGED <<bucket, records, worker, settings, budget>>

MaintenanceOn ==
    /\ ~maint /\ Fault /\ maint' = TRUE
    /\ UNCHANGED <<now, bucket, records, worker, active, protected, trial, switches, removals, intrusions>>

MaintenanceOff ==
    /\ maint /\ maint' = FALSE /\ trial' = FALSE
    /\ UNCHANGED <<now, bucket, records, worker, active, protected, budget>>

\* The bucket owner turns versioning off and on again.
Unprotect ==
    /\ protected /\ Fault /\ protected' = FALSE
    /\ UNCHANGED <<now, bucket, records, worker, active, maint, trial, switches, removals, intrusions>>

Protect ==
    /\ ~protected /\ protected' = TRUE
    /\ UNCHANGED <<now, bucket, records, worker, active, maint, trial, budget>>

\* putStorage saves settings for another store; a pass under way keeps its own.
PutStorage ==
    /\ switches > 0 /\ switches' = switches - 1
    /\ \E s \in Stores \ {active} : active' = s
    /\ UNCHANGED <<now, bucket, records, worker, maint, protected, trial, faults, removals, intrusions>>

\* Another installation publishes into the same folder, archive first.
ForeignArchive ==
    /\ intrusions > 0 /\ intrusions' = intrusions - 1
    /\ now \in ForeignTimes /\ archive[now] = "none" /\ manifest[now] = "none" /\ job[now] = NoJob
    /\ archive' = [archive EXCEPT ![now] = "foreign"]
    /\ home' = [home EXCEPT ![now] = active]
    /\ UNCHANGED <<now, manifest, records, worker, settings, faults, switches, removals>>

ForeignManifest ==
    /\ \E t \in ForeignTimes : /\ archive[t] = "foreign" /\ manifest[t] = "none"
                               /\ manifest' = [manifest EXCEPT ![t] = "foreign"]
    /\ UNCHANGED <<now, archive, home, records, worker, settings, budget>>

\* Another installation overwrites a backup of ours at the same key.  The store
\* offers no conditional delete, so the instant between reading the manifest
\* again and removing it is left out.
Overwrite ==
    /\ intrusions > 0 /\ intrusions' = intrusions - 1
    /\ \E t \in Times :
         /\ archive[t] = "ours" /\ manifest[t] = "ours" /\ ~(pc = "remove_manifest" /\ dir = t)
         /\ archive' = [archive EXCEPT ![t] = "foreign"]
         /\ manifest' = [manifest EXCEPT ![t] = "foreign"]
    /\ UNCHANGED <<now, home, records, worker, settings, faults, switches, removals>>

\* An operator removes a whole backup of ours from the bucket.
RemoveByHand ==
    /\ removals > 0 /\ removals' = removals - 1
    /\ \E t \in Times :
         /\ archive[t] = "ours" /\ manifest[t] = "ours"
         /\ archive' = [archive EXCEPT ![t] = "none"]
         /\ manifest' = [manifest EXCEPT ![t] = "none"]
    /\ UNCHANGED <<now, home, records, worker, settings, faults, switches, intrusions>>

PassStep ==
    \/ Reconcile \/ ListBackups \/ ReplacePrefix \/ Settle \/ Retain \/ NextPhase \/ NextItem
    \/ CheckManifest \/ RemoveManifest \/ MarkBackupArchiveOnly \/ RemoveArchive
    \/ ForgetBucketBackup \/ DeleteLocalBackupRow \/ PruneJobs

BackupStep == UploadArchive \/ UploadManifest \/ CompleteBackupJob \/ FailBackupJob

Others == ForeignArchive \/ ForeignManifest \/ Overwrite \/ RemoveByHand \/ PutStorage

Next ==
    \/ StartUpload \/ BackupStep \/ PassStep \/ Start \/ Crash \/ Tick
    \/ MaintenanceOn \/ MaintenanceOff \/ Unprotect \/ Protect \/ Others

Spec == Init /\ [][Next]_vars

(***************************************************************************)
(* Properties.                                                             *)
(***************************************************************************)
TypeOK ==
    /\ now \in Times
    /\ archive \in [Times -> Owners] /\ manifest \in [Times -> Owners]
    /\ home \in [Times -> Stores] /\ view \in [Times -> RowType] /\ history \subseteq Times
    /\ job \in [Times -> JobRow] /\ reconciledAt \in [Stores -> Nat]
    /\ active \in Stores /\ store \in Stores /\ dir \in Times
    /\ maint \in BOOLEAN /\ protected \in BOOLEAN /\ trial \in BOOLEAN
    /\ phase \in {"finish", "expire", "clean"}
    /\ listing \in [Times -> EntryStates] /\ plan \in [Times -> RowType] /\ todo \subseteq Times

Restorable(t) == archive[t] = "ours" /\ manifest[t] = "ours"

\* No step removes an object another installation wrote: neither a foreign
\* upload in progress, which looks like an abandoned one, nor an overwritten
\* backup whose cached row still calls it ours.
ForeignUntouched ==
    [][\A t \in Times : /\ archive[t] = "foreign" => archive'[t] = "foreign"
                        /\ manifest[t] = "foreign" => manifest'[t] = "foreign"]_vars

\* Somebody else removed or overwrote a backup that is recorded as ours, and no
\* pass has looked since (ownership is cached with the row).
Unnoticed(t) == view[t].owner = "ours" /\ ~view[t].deleting /\ manifest[t] # "ours"

\* "Keep the newest backup always": when Pgfy gives up a restorable backup, a
\* newer restorable one is in the same store, or one that it cannot know is gone.
NewestKept ==
    [][\A t \in Times : Restorable(t) /\ manifest'[t] = "none" =>
          \/ Others
          \/ \E u \in Times : u > t /\ home[u] = home[t] /\ (Restorable(u) \/ Unnoticed(u))]_vars

\* Every archive of ours that has no manifest can still be proved ours, by the
\* job that claimed its directory or by a recorded intent to delete it, however
\* old it is and whichever store was configured since (PruneJobs).
ProvenanceKept ==
    \A t \in Times : archive[t] = "ours" /\ manifest[t] = "none" =>
        job[t].state \in {"running", "failed"} \/ view[t].deleting

\* The worker goroutine runs and its tickers fire; time passes; versioning and
\* maintenance do not stay as an interruption left them.
Fairness ==
    /\ WF_vars(BackupStep \/ PassStep \/ Start) /\ WF_vars(Tick)
    /\ WF_vars(Protect) /\ WF_vars(MaintenanceOff)

FairSpec == Spec /\ Fairness

\* Directories with a later hour left for what is to happen to them.
Earlier == Times \ {Max(Times)}

\* A deletion that was begun is finished: once its manifest is gone, the archive
\* goes too, through failed calls, lost answers and crashes, as long as its store
\* is the configured one.
HalfDeletesFinish ==
    \A t \in Earlier : view[t].deleting /\ manifest[t] = "none" ~> archive[t] = "none" \/ home[t] # active

\* The archive of a failed or interrupted backup does not stay for ever: once
\* the job has been over for a day it is removed, unless another installation
\* shares the folder.
AbandonedUploadsCleaned ==
    \A t \in Earlier :
        /\ archive[t] = "ours" /\ manifest[t] = "none"
        /\ job[t].state = "failed" /\ job[t].finished + Day < Max(Times)
        ~> archive[t] = "none" \/ home[t] # active \/ \E u \in Times : manifest[u] = "foreign"

\* The next two examine selectExpired itself, for the policies of Tried and every
\* set of backups taken at some of Hours; they say nothing of the bucket, so the
\* initial states are where they are evaluated.

Histories == SUBSET Hours \ {{}}

\* selectExpired expires exactly what is neither in the last day, nor the newest
\* of one of the most recent days, nor the newest of one of the most recent weeks
\* among the rest, also when it runs a day after the newest backup.
ExpiresTheRest ==
    Init => \A p \in Tried, S \in Histories, late \in {0, Day} :
        SelectExpired(S, p, Max(S) + late) = S \ Kept(S, p, Max(S) + late)

\* Deciding again and again from what earlier passes left loses no period: each
\* of the most recent days keeps its last backup, and each of the most recent
\* weeks in which a backup was taken keeps one.
PeriodsSurvive ==
    Init => \A p \in Tried, taken \in Histories :
        LET complete == Thinned(taken, p) IN
        /\ DailySeries(taken, p) \subseteq complete
        /\ \A w \in Weeks(taken) : Later(Weeks(taken), w) < p.weekly => w \in Weeks(complete)
============================================================================
