------------------------------- MODULE Update -------------------------------
(***************************************************************************)
(* pgfyctl update and rollback-update: the installation is paused, its     *)
(* management storage and files are saved, the new release is tried, and   *)
(* either committed or rolled back.  The installer may fail at any step,   *)
(* or die with the host and be run again by the operator; the application  *)
(* accepts changes and runs jobs whenever it is up and not paused.         *)
(*                                                                         *)
(* Abstractions.  Releases are numbers, 0 for a stopped application.  The  *)
(* database is its schema, the pause flag and the number of changes it     *)
(* holds; sign-ins, which go on during an update and are documented to be  *)
(* undone by a rollback, are not counted.  Bundle checks, images and the   *)
(* access generation are left out.  A call that fails after taking effect  *)
(* is one that succeeds before the next step fails.  The installation      *)
(* lock lets one command run at a time.                                    *)
(***************************************************************************)
EXTENDS Integers, Sequences

CONSTANTS
    Files,            \* the files an update rewrites, in order
    LateFaults,       \* whether a rollback may be cut short after it resumed work
    MaxRelease,       \* bound: the newest release
    MaxAccepted,      \* bound: changes accepted
    MaxFaults         \* bound: failures and crashes

ASSUME UpdateAssumption ==
    /\ Files \in Seq(STRING) /\ Len(Files) > 0 /\ LateFaults \in BOOLEAN
    /\ MaxRelease \in Nat \ {0} /\ MaxAccepted \in Nat /\ MaxFaults \in Nat

VARIABLES
    step, pos,        \* the installer's step; the next file it writes
    file,             \* the release each file belongs to
    dir, meta,        \* update-rollback/ exists; meta.json: the release to return to, 0 for none
    snap,             \* the storage snapshot, or None
    db, app, job,     \* management storage, the application, a heavy job
    crashed, warned,  \* what the operator knows: the host went down; backups are paused
    accepted,         \* changes accepted in all
    faults

updateVars == <<step, pos, file, dir, meta, snap, db, app, job, crashed, warned, accepted, faults>>

NoSnapshot == [schema |-> 0, paused |-> FALSE, changes |-> 0]
Releases == 0 .. MaxRelease
Index == 1 .. Len(Files)
Databases == [schema : Releases, paused : BOOLEAN, changes : 0 .. MaxAccepted]

Updating == {"pause", "jobs", "stop", "mkdir", "snapshot", "meta"}
Trying == {"switch", "up", "verify", "commit"}
Finishing == {"off", "discard", "rmdir"}
Undoing == {"undo", "undiscard", "unq_up", "unq_off", "unq_rmdir"}
Restoring == {"rb_begin", "rb_stop", "rb_files", "rb_stopped", "rb_restore", "rb_up", "rb_verify", "rb_off"}
Closing == {"rb_discard", "rb_rmdir"}

UpdateTypeOK ==
    /\ step \in {"idle"} \cup Updating \cup Trying \cup Finishing \cup Undoing \cup Restoring \cup Closing
    /\ pos \in Index /\ file \in [Index -> Releases \ {0}]
    /\ dir \in BOOLEAN /\ meta \in Releases /\ (meta # 0 => dir)
    /\ snap \in Databases /\ db \in Databases /\ app \in Releases /\ job \in BOOLEAN
    /\ crashed \in BOOLEAN /\ warned \in BOOLEAN /\ accepted \in 0 .. MaxAccepted /\ faults \in 0 .. MaxFaults

UpdateInit ==
    /\ step = "idle" /\ pos = 1 /\ file = [i \in Index |-> 1]
    /\ dir = FALSE /\ meta = 0 /\ snap = NoSnapshot
    /\ db = [schema |-> 1, paused |-> FALSE, changes |-> 0] /\ app \in {0, 1} /\ job = FALSE
    /\ crashed = FALSE /\ warned = FALSE /\ accepted = 0 /\ faults = 0

Fault == faults < MaxFaults /\ faults' = faults + 1
Proceed(from, to) == step = from /\ step' = to

(***************************************************************************)
(* The application.                                                        *)
(***************************************************************************)
\* It migrates the database as it starts; on a newer schema it does not serve.
Started(r) == app' = r /\ db' = [db EXCEPT !.schema = IF @ < r THEN r ELSE @]
Serves == app # 0 /\ app = db.schema

\* The flag is read when a request comes in; one let in before the pause may
\* finish until the application stops.
Change ==
    /\ Serves /\ (~db.paused \/ step \in {"jobs", "stop"}) /\ accepted < MaxAccepted
    /\ db' = [db EXCEPT !.changes = @ + 1] /\ accepted' = accepted + 1
    /\ UNCHANGED <<step, pos, file, dir, meta, snap, app, job, crashed, warned, faults>>

StartJob ==
    /\ Serves /\ ~db.paused /\ ~job /\ job' = TRUE
    /\ UNCHANGED <<step, pos, file, dir, meta, snap, db, app, crashed, warned, accepted, faults>>

EndJob ==
    /\ job /\ job' = FALSE
    /\ UNCHANGED <<step, pos, file, dir, meta, snap, db, app, crashed, warned, accepted, faults>>

(***************************************************************************)
(* update: pausing and saving.                                             *)
(***************************************************************************)
\* A stopped application is stopped for certain before the flag is set.
Begin ==
    /\ step = "idle" /\ ~dir /\ ~crashed /\ file[1] < MaxRelease
    /\ step' = "pause" /\ warned' = FALSE
    /\ UNCHANGED <<pos, file, dir, meta, snap, db, app, job, crashed, accepted, faults>>

\* Mutant of Paused: the application is not told to pause.
PausedNot == db

Paused == [db EXCEPT !.paused = TRUE]

Pause ==
    /\ Proceed("pause", IF app = 0 THEN "mkdir" ELSE "jobs") /\ db' = Paused
    /\ UNCHANGED <<pos, file, dir, meta, snap, app, job, crashed, warned, accepted, faults>>

\* A running job ends the update, unless --drain makes it wait.
CheckJobs ==
    /\ ~job /\ Proceed("jobs", "stop")
    /\ UNCHANGED <<pos, file, dir, meta, snap, db, app, job, crashed, warned, accepted, faults>>

RefuseJobs ==
    /\ job /\ Proceed("jobs", "undo")
    /\ UNCHANGED <<pos, file, dir, meta, snap, db, app, job, crashed, warned, accepted, faults>>

StopApplication ==
    /\ Proceed("stop", "mkdir") /\ app' = 0 /\ job' = FALSE
    /\ UNCHANGED <<pos, file, dir, meta, snap, db, crashed, warned, accepted, faults>>

MakeDir ==
    /\ Proceed("mkdir", "snapshot") /\ dir' = TRUE
    /\ UNCHANGED <<pos, file, meta, snap, db, app, job, crashed, warned, accepted, faults>>

Snapshot ==
    /\ Proceed("snapshot", "meta") /\ snap' = db
    /\ UNCHANGED <<pos, file, dir, meta, db, app, job, crashed, warned, accepted, faults>>

WriteMeta ==
    /\ Proceed("meta", "switch") /\ meta' = file[1] /\ pos' = 1
    /\ UNCHANGED <<file, dir, snap, db, app, job, crashed, warned, accepted, faults>>

(***************************************************************************)
(* update: trying the new release.                                         *)
(***************************************************************************)
Last == pos = Len(Files)

Switch ==
    /\ step = "switch" /\ file' = [file EXCEPT ![pos] = meta + 1]
    /\ IF Last THEN step' = "up" /\ pos' = 1 ELSE step' = "switch" /\ pos' = pos + 1
    /\ UNCHANGED <<dir, meta, snap, db, app, job, crashed, warned, accepted, faults>>

Up ==
    /\ Proceed("up", "verify") /\ Started(file[1])
    /\ UNCHANGED <<pos, file, dir, meta, snap, job, crashed, warned, accepted, faults>>

\* Mutant of Verified: maintenance ends as soon as the new release answers.
VerifiedResumes == "off"

Verified == "commit"

Verify ==
    /\ Serves /\ Proceed("verify", Verified)
    /\ UNCHANGED <<pos, file, dir, meta, snap, db, app, job, crashed, warned, accepted, faults>>

\* The commit point.
Commit ==
    /\ Proceed("commit", "off") /\ meta' = 0
    /\ UNCHANGED <<pos, file, dir, snap, db, app, job, crashed, warned, accepted, faults>>

(***************************************************************************)
(* update: finishing.  A step that fails is reported and passed over.      *)
(***************************************************************************)
Resume ==
    /\ Proceed("off", "discard") /\ db' = [db EXCEPT !.paused = FALSE]
    /\ UNCHANGED <<pos, file, dir, meta, snap, app, job, crashed, warned, accepted, faults>>

Discard ==
    /\ Proceed("discard", "rmdir") /\ snap' = NoSnapshot
    /\ UNCHANGED <<pos, file, dir, meta, db, app, job, crashed, warned, accepted, faults>>

RemoveDir ==
    /\ Proceed("rmdir", "idle") /\ dir' = FALSE /\ meta' = 0
    /\ UNCHANGED <<pos, file, snap, db, app, job, crashed, warned, accepted, faults>>

PassOver ==
    /\ Fault /\ warned' = TRUE
    /\ Proceed("off", "discard") \/ Proceed("discard", "rmdir") \/ Proceed("rmdir", "idle")
    /\ UNCHANGED <<pos, file, dir, meta, snap, db, app, job, crashed, accepted>>

(***************************************************************************)
(* Undoing an update that saved nothing yet: unquiesce.                    *)
(***************************************************************************)
Undo ==
    /\ Proceed("undo", "undiscard") /\ dir' = FALSE
    /\ UNCHANGED <<pos, file, meta, snap, db, app, job, crashed, warned, accepted, faults>>

Undiscard ==
    /\ Proceed("undiscard", "unq_up")
    /\ \/ snap' = NoSnapshot /\ UNCHANGED faults
       \/ Fault /\ UNCHANGED snap
    /\ UNCHANGED <<pos, file, dir, meta, db, app, job, crashed, warned, accepted>>

UnquiesceUp ==
    /\ Proceed("unq_up", "unq_off")
    /\ \/ Started(file[1]) /\ UNCHANGED faults
       \/ Fault /\ UNCHANGED <<app, db>>
    /\ UNCHANGED <<pos, file, dir, meta, snap, job, crashed, warned, accepted>>

\* The flag is cleared in the running application.
UnquiesceOff ==
    /\ Proceed("unq_off", "unq_rmdir")
    /\ \/ app # 0 /\ db' = [db EXCEPT !.paused = FALSE] /\ UNCHANGED <<warned, faults>>
       \/ app = 0 /\ warned' = TRUE /\ UNCHANGED <<db, faults>>
       \/ Fault /\ warned' = TRUE /\ UNCHANGED db
    /\ UNCHANGED <<pos, file, dir, meta, snap, app, job, crashed, accepted>>

UnquiesceDone ==
    /\ Proceed("unq_rmdir", "idle") /\ dir' = FALSE /\ crashed' = FALSE
    /\ UNCHANGED <<pos, file, meta, snap, db, app, job, warned, accepted, faults>>

(***************************************************************************)
(* rollback_update, for a failed update or run by the operator.            *)
(***************************************************************************)
RollbackUpdate ==
    /\ step = "idle" /\ (dir \/ crashed) /\ step' = "rb_begin"
    /\ UNCHANGED <<pos, file, dir, meta, snap, db, app, job, crashed, warned, accepted, faults>>

\* Without meta.json only unquiesce; without a sound snapshot nothing.
RollbackBegins ==
    /\ step = "rb_begin"
    /\ step' = IF meta = 0 THEN "unq_up" ELSE IF snap = NoSnapshot THEN "idle" ELSE "rb_stop"
    /\ UNCHANGED <<pos, file, dir, meta, snap, db, app, job, crashed, warned, accepted, faults>>

\* The first attempt to stop it may fail unnoticed.
RollbackStop ==
    /\ Proceed("rb_stop", "rb_files") /\ pos' = 1
    /\ \/ app' = 0 /\ job' = FALSE /\ UNCHANGED faults
       \/ Fault /\ UNCHANGED <<app, job>>
    /\ UNCHANGED <<file, dir, meta, snap, db, crashed, warned, accepted>>

\* Mutant of Restored: the last file is not put back.
RestoredKept == [file EXCEPT ![pos] = IF Last THEN @ ELSE meta]

Restored == [file EXCEPT ![pos] = meta]

RollbackFiles ==
    /\ step = "rb_files" /\ file' = Restored
    /\ IF Last THEN step' = "rb_stopped" /\ pos' = 1 ELSE step' = "rb_files" /\ pos' = pos + 1
    /\ UNCHANGED <<dir, meta, snap, db, app, job, crashed, warned, accepted, faults>>

RollbackStopped ==
    /\ Proceed("rb_stopped", "rb_restore") /\ app' = 0 /\ job' = FALSE
    /\ UNCHANGED <<pos, file, dir, meta, snap, db, crashed, warned, accepted, faults>>

\* Mutant of SnapshotKept: restoring uses the snapshot up.
SnapshotMoved == NoSnapshot

\* The snapshot is kept so that a failed rollback can be retried.
SnapshotKept == snap

Restore ==
    /\ Proceed("rb_restore", "rb_up") /\ db' = snap /\ snap' = SnapshotKept
    /\ UNCHANGED <<pos, file, dir, meta, app, job, crashed, warned, accepted, faults>>

RollbackUp ==
    /\ Proceed("rb_up", "rb_verify") /\ Started(file[1])
    /\ UNCHANGED <<pos, file, dir, meta, snap, job, crashed, warned, accepted, faults>>

RollbackVerify ==
    /\ Serves /\ Proceed("rb_verify", "rb_off")
    /\ UNCHANGED <<pos, file, dir, meta, snap, db, app, job, crashed, warned, accepted, faults>>

RollbackOff ==
    /\ Proceed("rb_off", "rb_discard")
    /\ \/ db' = [db EXCEPT !.paused = FALSE] /\ UNCHANGED <<warned, faults>>
       \/ Fault /\ warned' = TRUE /\ UNCHANGED db
    /\ UNCHANGED <<pos, file, dir, meta, snap, app, job, crashed, accepted>>

RollbackDiscard ==
    /\ Proceed("rb_discard", "rb_rmdir") /\ snap' = NoSnapshot
    /\ UNCHANGED <<pos, file, dir, meta, db, app, job, crashed, warned, accepted, faults>>

RollbackDone ==
    /\ Proceed("rb_rmdir", "idle") /\ dir' = FALSE /\ meta' = 0 /\ crashed' = FALSE
    /\ UNCHANGED <<pos, file, snap, db, app, job, warned, accepted, faults>>

(***************************************************************************)
(* Failures, the host going down, and the operator.                        *)
(***************************************************************************)
\* An exception or a signal: before meta.json exists the update is undone, from
\* then on it is rolled back.  A rollback that fails is left to be retried.
Fail ==
    /\ Fault /\ pos' = 1
    /\ \/ step \in Updating /\ step' = "undo"
       \/ step \in Trying /\ step' = "rb_begin"
       \/ step \in Restoring \ {"rb_off"} /\ step' = "idle"
       \/ LateFaults /\ step \in Closing /\ step' = "idle"
    /\ UNCHANGED <<file, dir, meta, snap, db, app, job, crashed, warned, accepted>>

\* The installer is gone, alone or with the host and the jobs on it; the
\* application's containers come back as they were.
HostDown ==
    /\ Fault /\ step # "idle" /\ (LateFaults \/ step \notin Closing)
    /\ step' = "idle" /\ pos' = 1 /\ crashed' = TRUE /\ job' \in {job, FALSE}
    /\ UNCHANGED <<file, dir, meta, snap, db, app, warned, accepted>>

\* pgfyctl maintenance off, when the installer said so.
MaintenanceOff ==
    /\ step = "idle" /\ warned /\ ~crashed
    /\ warned' = FALSE /\ db' = [db EXCEPT !.paused = FALSE]
    /\ UNCHANGED <<step, pos, file, dir, meta, snap, app, job, crashed, accepted, faults>>

Installer ==
    \/ Pause \/ CheckJobs \/ RefuseJobs \/ StopApplication \/ MakeDir \/ Snapshot \/ WriteMeta
    \/ Switch \/ Up \/ Verify \/ Commit \/ Resume \/ Discard \/ RemoveDir
    \/ Undo \/ Undiscard \/ UnquiesceUp \/ UnquiesceOff \/ UnquiesceDone
    \/ RollbackBegins \/ RollbackStop \/ RollbackFiles \/ RollbackStopped \/ Restore
    \/ RollbackUp \/ RollbackVerify \/ RollbackOff \/ RollbackDiscard \/ RollbackDone

UpdateNext ==
    \/ Installer \/ Begin \/ RollbackUpdate \/ MaintenanceOff
    \/ Change \/ StartJob \/ EndJob \/ PassOver \/ Fail \/ HostDown

\* Steps end; jobs end; an operator does what the installer or the
\* documentation tells them to.
UpdateFairness ==
    /\ WF_updateVars(Installer) /\ WF_updateVars(EndJob)
    /\ WF_updateVars(RollbackUpdate) /\ WF_updateVars(MaintenanceOff)

UpdateSpec == UpdateInit /\ [][UpdateNext]_updateVars /\ UpdateFairness

(***************************************************************************)
(* Properties.                                                             *)
(***************************************************************************)
\* "Nothing may be written that a rollback would have to undo": the database
\* always holds every change the application ever accepted.
NothingLost == db.changes = accepted

\* The release in the files, the schema and the application belong together
\* whenever no rollback is outstanding, whatever failed on the way; and a
\* release never runs on the storage of a newer one.
OneRelease ==
    /\ app # 0 => db.schema <= app
    /\ step = "idle" /\ meta = 0 => \A i \in Index : file[i] = db.schema /\ app \in {0, file[i]}

\* An update waits for a running backup or restore, or gives up; it never cuts
\* one off, at no step and in no order of failures; only the host may.
JobsFinish == [][job /\ ~job' => EndJob \/ HostDown]_updateVars

\* "If the host itself went down mid-update, run pgfyctl rollback-update": an
\* operator who does ends with nothing outstanding and backups resumed.
Recovers == (dir \/ db.paused) ~> (~dir /\ ~db.paused)

\* rollback_update without meta.json: "the update stopped before its snapshot
\* was complete: nothing else changed".
NoMetaMeansUnchanged ==
    [][RollbackBegins /\ meta = 0 /\ snap # NoSnapshot => \A i \in Index : file[i] = snap.schema]_updateVars
=============================================================================
