# Pgfy in TLA+

A verification development for Pgfy, the self-hosted PostgreSQL manager in
`src/`. TLA+ modules model the parts of the program whose correctness depends on
the order of events; TLC checks them on small instances; TLAPS proves the main
results for instances of any size. `PROJECT.json` is the index: components, runs,
mutants, the line map from definitions to source, hazards, findings, theorems.

## The system

Pgfy is one Go process (`cmd/pgfy`) beside PostgreSQL, Caddy and an S3 bucket.

| Part | Code | State | Operations |
|---|---|---|---|
| Metadata store | `internal/store` | SQLite, one connection, so each transaction is atomic and serial | every store function |
| Job queue | `store/jobs.go`, `store/deletion.go`, `jobs/jobs.go`, `jobs/delete.go` | `jobs`, `projects.stage`, the worker goroutine | enqueue, claim, execute, record, interrupt at start, delete a project, resume deletions |
| Bucket view and retention | `jobs/retention.go`, `store/backups.go`, `storage/layout.go` | objects in the bucket, `bucket_backups`, `bucket_targets`, job provenance | publish, list, reconcile, expire, delete, clean abandoned uploads |
| Backup and restore contents | `jobs/jobs.go`, `storage/storage.go` | the database, its snapshot, archive, manifest, the new database | snapshot, count, dump, upload, download, restore, verify |
| Backup schedule | `store/backups.go`, `store/jobs.go`, `jobs/jobs.go` | `backup_schedule`, policy | due times, backoff, candidate order |
| Provisioning, rotation | `provision/provision.go`, `store/projects.go`, `store/access.go`, `postgres/management.go` | role, database and password in PostgreSQL; stage and sealed passwords in SQLite; a lock per project | provision, retry, rotate, finish rotations, drop |
| Access policy | `hba/hba.go`, `provision.SyncPolicy`, `store/projects.go` | `pg_hba.conf`, the loaded rules, policy revisions | record a revision, render, write, reload, acknowledge |
| Guardrails, write freeze | `provision.SyncLimits`, `store/access.go`, `httpapi/projects.go` | role settings, limit revisions, `frozen` | set, apply, detect drift, freeze, resume |
| Alerts | `alerts/alerts.go`, `store/alerts.go` | `alert_conditions`, `alert_events`, the receiver | evaluate, reconcile, send, change receiver |
| Authentication | `store/auth.go`, `httpapi/auth.go`, `httpapi/server.go` | tokens, enrolments, factors, sessions | set up, enrol, log in, reset, rate limits |
| Update and rollback | `deploy/installer.py`, `store/maintenance.go` | maintenance flag, snapshot, running release | quiesce, snapshot, converge, roll back |
| Installer | `deploy/installer.py` | files of the installation, secrets, containers, timers, certificate | install, rerun, hostname, tunnel, rollback-hostname, sync-db-cert |
| Dashboard | `web/` | none of its own | reads the API |

What makes it hard: HTTP handlers, the job worker, the provisioner loop and the
alert loop interleave at every SQLite transaction; the process may die between
any two steps, with half of a change in PostgreSQL or the bucket and half in
SQLite; an object-store or database call may fail after taking effect; a
maintenance flag may be raised while any of them is under way.

## Modules

| Module | Models | Properties by |
|---|---|---|
| `JobQueue` | the job queue, project deletion, the worker and its crashes | run `job_queue`; proofs in `JobQueueProofs` |
| `QueueContract` | what the queue promises, without its table, worker or clock | implemented by `JobQueue` (`KeepsContract` in `job_queue`); proof in `JobQueueProofs` |
| `RetentionPolicy` | `selectExpired`, a pure function, with its reference definition | extended by the next |
| `BucketRetention` | publishing, listing, expiring and cleaning up in the bucket | `bucket_retention`, through `MCBucketRetention`; proofs in `BucketProofs` |
| `Provisioning` | role, database, password: creation, rotation, deletion | `provisioning`; proofs in `ProvisioningProofs` |
| `AccessPolicy` | policy revisions, the rule file, PostgreSQL's reload | `access_policy`, through `MCAccessPolicy`; proofs in `AccessPolicyProofs` |
| `Guardrails` | limit revisions and the settings of the role | `guardrails`; proof in `BackgroundProofs` |
| `WriteFreeze` | freezing and resuming writes | `write_freeze_race` |
| `BackupSchedule` | due times, backoff, who gets the job slot | `backup_schedule`, through `MCBackupSchedule`; proofs in `BackgroundProofs` |
| `Alerts` | the alert loop, its tables and its receiver | `alerts`, through `MCAlerts`; proofs in `ServiceProofs` |
| `Auth` | setup, sign-in, codes, enrolments, resets, sessions | `auth`, through `MCAuth`; proofs in `ServiceProofs` |
| `Update` | `pgfyctl update` and `rollback-update` | `update`, through `MCUpdate`; proofs in `HostProofs` |
| `Restore` | what a backup holds and what a restore says about it | `restore`; proofs in `RestoreProofs` |
| `HostState` | files, containers and timers the installer's commands share | extended by the next three |
| `HostInstall`, `HostAccess`, `HostCertificate` | the commands, step by step | composed by the next |
| `Host` | the commands, one at a time, on a host that may stop them | `host`; proofs in `HostProofs` |

The modules meet where one component's promise is another's assumption. The job
queue runs at most one heavy job (`OneHeavyJob`, and `Accept` of `QueueContract`)
and starts none under maintenance (the guards of `Enqueue` and `ClaimJob`):
`BackupSchedule` and `Restore` assume the first, `Update` the second. A project is
dropped only by a deletion job: `JobQueue` says when it runs, `Provisioning` and
`AccessPolicy` what it removes. `Host` takes a committed update as one step, whose
inside is `Update`. Every transaction on SQLite is one action everywhere, because
the store holds a single connection.

In every run a bound in a guard (`Max...`) limits faults, retries or time; it is
named in the module and the theorems hold for all its values. `CHECK_DEADLOCK
FALSE` is given where the program may stop, because nobody asks anything more of
it or the modelled time is over. Each property has a mutant: a definition changed
as a plausible bug would change it, under which TLC finds the property violated.
`TypeOK` of each module documents its variables; it is proved for `JobQueue` and
`Provisioning`, and holds in the others' configurations, where it can be added as
one more `INVARIANT`. The proofs about `AccessPolicy`, `Guardrails`, `Update` and
`Restore` carry a type invariant of their own (`Types`), in which the bounds are
replaced by `Nat`, because they hold for counters of any size.

### JobQueue

`jobs`, `stage`, `failed`, `told` are the tables; `pc`, `cur`, `outcome` the
worker goroutine; `maint` and `now` its environment. Every store function is one
action. A request handler that makes two transactions (a restore creates a
project, then enqueues) may stop between them. `Crash` can happen at any point of
the worker and leaves the row `running`, as `execute` does on shutdown. `DbError`
actions are the writes whose failure the code only logs.

*Bounds.* `MaxNow` lets two jobs share a second or not; `MaxFaults` counts
crashes, failed deletions and updates; `MaxDbErrors` counts failed metadata
writes. Requests keep enough unused ids for the retries those faults may cause.

*Fairness.* The worker goroutine is never blocked for ever (weak fairness on its
steps); its `select` waits on tickers, so the 15 minute branch is taken again and
again (strong fairness on that branch); an update clears the flag it set.

*Run.* `job_queue` (two projects, four jobs, one fault, one failed write) checks
that no job works on a project being deleted (`NoWorkOnDeleting`), a single notice
of failure (`ToldOnFirstFailure`), the contract (`KeepsContract`) and that deletions
end (`DeletionsFinish`). The last excepts behaviours in which a metadata write
failed: one lost result is enough to stop it until the process restarts (see the
disagreements below). One heavy job at a time, delete jobs that agree with their
tombstones and the finality of a tombstone are proved and not checked again.

*Contract.* `QueueContract` says what others may rely on: a backup or restore is
accepted only by an idle queue; a result is given once; a deletion is pursued by one
job at a time and only its success removes the project. The refinement mapping reads
the abstract state off the table: the active heavy rows, the active delete rows of
each project, its stage, and the state of each row. Most steps of the worker and of
maintenance are stuttering. Claiming, executing and crashing change nothing the
contract speaks of; the restart that interrupts rows is its `Interrupt`.

*Proofs.* `QueueInvariant` strengthens the safety properties by two facts:
`RowLinks` (a row names its project until the deletion clears the reference; the
foreign key holds) and `WorkerOwnsRow` (the worker executes exactly the row it
claimed, which stays running). Without the first, removing a project could not be
shown to leave the other rows' tombstones alone; without the second, recording a
result could touch a row that is not running. `QueueStep` proves the invariant
inductive action by action; `QueueIsSafe`, `FailureToldOnce` and `TombstoneHolds`
follow for every set of projects and ids. Its second half shows that every step
maps to a step of the contract or to a stutter (`ContractStep`), using the same
invariant: that `Remove` is the success of the project's own job is `RowLinks`, and
that nothing ends twice is `WorkerOwnsRow`. Liveness is model-checked only.

### RetentionPolicy and BucketRetention

`RetentionPolicy` translates `selectExpired`: a backup is the hour it was taken,
days and ISO weeks are quotients. `ExpiresTheRest` compares the loop with a
definition that says which backups the policy keeps. `PeriodsSurvive` applies the
policy after every backup of a history (`Thinned`), as the worker does, and says
that a day or week that still has to be represented was not emptied by an earlier
decision, which a test of one call does not see. Both range over every set of
backups at eleven instants of three weeks and a day, several on one day and on both
sides of Mondays, and over four policies. They are about the function alone, so TLC
evaluates them in the initial states.

`BucketRetention` has the bucket (`archive`, `manifest` by hour), what Pgfy
believes (`view`, the `bucket_backups` rows), job provenance, and the worker's
steps between two object-store calls. A call may fail, or succeed without an
answer; the process may die at any step; an operator or another installation may
change the bucket; the settings may name another store; versioning may be off.

*Bounds.* The hours 1, 14, 240 and 2500 are two backups of one day, one of another
week and one past the 90 days after which job rows are pruned. `Budgets` says what
interferes: two faults; a fault and a change of the settings; an operator's
removal; or another installation, which publishes into the folder or overwrites a
backup of ours.

*Fairness.* The worker's steps end, the quarter-hour pass recurs, time passes,
versioning is turned on again and an update ends.

*Run.* `bucket_retention`: an archive without manifest stays provably ours
(`ProvenanceKept`), the newest backup that can be restored is kept (`NewestKept`),
another installation's objects are not touched (`ForeignUntouched`), and what was
begun is finished (`HalfDeletesFinish`, `AbandonedUploadsCleaned`). `NewestKept` has
an exception, `Unnoticed`: ownership is cached when a key is first seen, so a backup
of ours that was overwritten at its key still counts as our newest.

*Proofs.* `BucketInvariant` holds for any hours, stores, policy and budgets, so with
all kinds of interference at once. A row of the view may be stale in most respects;
the invariant says in which it is not. `DirectoryInOrder`: nobody publishes into an
hour that is over or claimed (`Past`), so what is known of such a directory can only
become less. `RowInOrder`: where retention acts on a row that shows an archive alone,
removing the archive removes nothing foreign, now or later (`Safe`), and an archive
of ours without a manifest is backed by a job that runs or failed, or by a row marked
as being deleted. `UploadInOrder`, `ListingInOrder` and `RetentionInOrder` carry this
through the worker's steps: what was listed before another party's step, and what was
planned before a crash, is still true where it is used. `ArchivesKeepProvenance` and
`ForeignObjectsStay` follow.

`NewestInvariant` is a second layer, for `NewestKept`. The objects of the newest backup
may go at any time by somebody else's hand, so it follows the row instead: while
half-done deletions are finished the complete rows stay as they were read
(`PlannedInOrder`), and while backups are expired there is one that is newer than all
that are still to go, whose row calls it ours and carries no delete mark (`Outlasts`).
The hours of recorded backups are bounded by the present one, so a newest exists for
any set of hours, and `selectExpired` keeps it whatever its loop does. A manifest of
ours never stands without its archive (`ObjectsInOrder`), so that backup is restorable
or was changed unnoticed: `NewestBackupStays`.

### Provisioning

One project, because projects share none of this state. `row` is the stage in
SQLite, `active` and `pending` the sealed passwords, `role`, `built` and
`sessions` what PostgreSQL has, `lock` the per-project mutex, `pc`, `mine` and
`target` the goroutines: the provisioner's loop, the job worker and rotate
requests. What the code does before taking the lock and after giving it back is
outside it here too.

*Bounds.* Four faults are enough for a rotation that fails after taking effect, a
crash in its completion, and two more during deletion. Two requests contend.

*Fairness.* Strong for the steps that wait for the lock (the code's mutexes do not
starve), weak for the rest; the loop and the worker come round again.

*Run.* `provisioning`: nothing is orphaned in PostgreSQL (`NoOrphan`), the stored
password works unless a rotation is pending (`CredentialsWork`), and rotations,
provisioning and deletions finish (`NothingStaysHalfDone`). That ready means
complete (`ReadyIsComplete`) is proved.

*Proofs.* `RoleInvariant` is the conjunction of `LockHeld` (who is in a step that
needs the lock has it), `Provisioned`, `Rotated` and `Removed` (what each holder's
earlier steps have achieved) and `Truthful` (what is recorded is true). The
properties alone are not inductive: that recording `ready` is right depends on
what the holder did three steps before, and that nobody undid it depends on the
lock. The argument goes type, then lock, then role, one step per action.

### AccessPolicy

`current`, `applied` and `state` are the metadata, `file` the rule file, `loaded`
what PostgreSQL enforces, one map for all projects. `SyncPolicy` holds a mutex and
reads, renders, writes, reloads and acknowledges in separate steps; PostgreSQL
loads the file some time after the signal. Requests, the provisioner's loop and
the deletion job call it.

*Bounds.* Two projects, because the file is shared; one fault and one failed
metadata call; two revisions, three in `AccessPolicyPending.cfg`.

*Fairness.* Strong for a caller of `SyncPolicy` (it may wait for the mutex), weak
for the rest; PostgreSQL handles a signal it received.

*Run.* `access_policy` checks `AppliedIsEnforced` and `DeletedIsClosed`.
`AccessPolicyPending.cfg` refutes `PolicySettles` without any fault: a request that
read the project during its setup (`EarlyRequests`) records a revision nobody
applies. With `EarlyRequests = FALSE` the property holds.

*Proofs.* Both properties follow from `PolicyInv`. Neither is inductive alone,
because a sync under way may put another file in force. `Enforcement` therefore says
of a revision shown as applied that it is also in the rules being rendered, unless
the project is still to be read, and in the old file a failing sync puts back
(`InForce`). `Written` ties the file and the loaded rules to what the holder of the
mutex rendered. `Deletion` says that a sync the deletion job began leaves its project
out (`LeftOut`), as it was no longer ready when the projects were listed; so does
every later sync, and so no old file of a later sync holds a rule of it. `OnceReady`
keeps a project in setup from ever being reported as applied.

### Guardrails and WriteFreeze

`Guardrails`: `limits` and `revision` are recorded by a request, `applied` by
whoever set them on the `role`; the project's own sessions may change the role or
override it for the database. Two editors, the loop and provisioning interleave
under two failed calls and a drift. Provisioning tries a stage up to three times
(`AttemptFails`); what still fails marks the project as failed, and from there it is
only the operator who may retry it (`RetryProject`). `ShownIsSet` says that a revision
shown as applied is the role's; `Converges` that the role ends with the recorded
limits, unless the project stays failed: nothing retries it on its own, so no fairness
is assumed of `RetryProject`. It needs strong fairness for the callers of
`SyncLimits`, which wait for a mutex, and a loop that keeps passing. Two failures are
enough to fail a second attempt, or the first one and the record of its failure.

*Proof.* `ShownIsSet` is proved from `LimitsInv`. What a caller read before it waited
is compared with what holds when it marks: `Faithful` says that a revision which was
read still says what was read, and that nothing newer counts as applied. With it
`ByProvisioning` and `BySync` carry "the role has what I read" from the step that
sets the role to the one that marks the revision.

`WriteFreeze` takes no lock in the code and none here. With one request at a time
and failing metadata writes the reversal keeps `ShownIsEnforced`; two overlapping
requests do not (`write_freeze_race`).

### BackupSchedule

Time is in ticks fine enough that an attempt starts in a later tick than the one
before it ended, and never runs backwards: with a clock set back the order is
distorted until it has caught up, which is not checked.
`DueBefore`, `NextAfter` and the backoff are translated as functions of the recorded
attempts. Two projects share the slot under an interval or a preferred hour, over
two days of four ticks, so that every phase of a day is met. Intervals and backoffs
are scaled and keep their order (15 minutes < 1 hour < 4 hours < a day). Properties:
`NoOvertaking`, `AnnouncedIsDue` (the dashboard's time is when the scheduler finds
the project due), `BacksOff` (a project is taken up again exactly when the backoff of
its failures in a row has passed, restarts included).

*Proofs.* All three hold for any number of projects, any day, intervals no longer than
a day and any delays. `AnnouncedIsDue` is a fact about the calendar
(`DueIsNext`: a backup is too old at a time exactly when the time announced after it has
come) together with the fact that the delay recorded is the one shown.
`BackoffIsEarned` says that the recorded failures and the end of the delay are what the
history of attempts earns; a crash needs `WorkerHasJob`, which says which row
the interrupted attempt had. `TurnsInOrder` orders the last attempts of whoever passed a
waiting project, so that `NoOvertaking` follows from the scheduler's choice of the least
recently attempted.

### Alerts

A pass is the code's `Tick`: read the flag, observe, reconcile in one transaction,
deliver message by message. The clock moves between passes or while the process is
down. `PostgresGrace`, the clear, repeat and forget times are scaled and keep their
order. A pass may end early: the flag cannot be read (`TickFails`), the settings or
the messages cannot be read (`SendUnread`), or the time a pass has for its messages is
over with some of them left (`SendBudgetSpent`, which may happen at any time, as a
receiver may be as slow as it likes). `ReceiverIsCurrent` says what the receiver has
been told once a pass ended that sent all it had to and in which nothing failed or was
changed; `ResolvedWasWatched` says that "resolved" follows a wait in which every pass
looked, as long as no update or outage fell into it.
No liveness is checked: whether a message ever arrives is up to the receiver.

*Proofs.* Both properties follow from `AlertInvariant`. For `ReceiverIsCurrent`,
`Delivering` says that in a clean pass whatever the receiver does not know is among the
messages left; it needs `Sending` (the messages left still belong to the rows they were
read from and go to the configured webhook, which is where `sendMu` matters) and
`Remembered` (what is owed to a new receiver has no time of a message, and the receiver
heard no earlier than the row says). For `ResolvedWasWatched`, `Watched` says that a
condition which waits was clear from the minute after its wait began or that the
wait began with the last look; `EveryMinute` says that without updates and outages no
minute passed without one.

### Auth

Each store function is one action; a sign-in is three transactions with a password
hash in between, and everything else may happen between them. A password or factor
is the number of the token that brought it, so that a session can be compared with
the credentials it stands on. Tokens, sessions and lockouts may expire at any time,
which covers every real expiry. Two sign-ins are symmetric. Two wrong codes lock
here instead of five; five tokens are enough for a setup, an upgrade and two resets.
The mode goes from tunnel to HTTPS. Properties: `SessionsAreCurrent`,
`OnlyNewestResetApplies`, `WrongCodesLock`.

*Proofs.* All three hold for any number of tokens, sign-ins and modes and any lockout
limit. `AuthInvariant` adds to `SessionsAreCurrent` that no session is ahead of the
present scope and that an enrolment which brings a first factor was begun in an HTTPS
scope; to `OnlyNewestResetApplies` that the last reset issued is the newest in the
table, spent or not; and to `WrongCodesLock` that the failure counter, which wraps after
two lockouts, has seen every wrong code since the last one (`SinceLock`).

### Update

`step` is the installer's, `file` the release of each rewritten file, `dir`,
`meta` and `snap` the rollback record, `db` the management storage (schema, pause
flag, number of changes), `app` the running release. The installer may fail at
every step (`Fail`) or be gone with the host (`HostDown`); the operator then runs
`rollback-update` or `maintenance off` as they are told. A request let in before
the pause may still write until the application stops.

*Bounds.* Two files, so that releases could be mixed; three releases, so that a
second update follows; five faults, more than one attempt can use.

*Fairness.* Installer steps and jobs end; an operator does what the installer or
`docs/installation.md` tells them after an interruption.

*Run.* `update` holds for faults at every step up to the one that resumes work in
a rollback: `NothingLost`, `OneRelease`, `JobsFinish`, `Recovers`. `LateFaults`
allows them in the two clean-up steps after it; then `UpdateLost.cfg` shows a
rollback that is repeated and undoes what was accepted in between.

*Proofs.* `OneRelease` speaks only of times at which no rollback is outstanding, so
`VersionInv` says how far the files are in each step (`Rewritten` up to the position,
`Uniform` after it) and that the snapshot is of the release `meta.json` names; it
holds with late faults too. `WorkInv` adds, without late faults, that from
`meta.json` until work is resumed the storage is paused, no job runs and the snapshot
holds every accepted change; `NothingLost` and `JobsFinish` follow from it.

### Restore

One worker runs backups and restores in turn, as the queue guarantees. `source` is
the project's database, which clients change at any time; `work` is what the job
holds: the exported snapshot, the counts, the archive. `bucket` has one directory for
each second. A restore reads the manifest, compares the checksum, fills a new database
table by table, counts again and says "verified", "partial" or "failed".

A database is row counts, a number of counted objects and a version for everything
no count shows. Whether `pg_restore` loses such a value without reporting it cannot
be seen by the program, so in the model the version changes only with a complaint.
Tables that were counted stay locked until the snapshot ends; others may be dropped
(the job stops) or truncated (the older snapshot finds them empty). The credentials
of the new project work during the restore: what a client does there is excepted by
`touched`.

*Bounds.* Two tables and room for one in a manifest, archives of at most two units,
so that lists are cut and archives refused; two seconds, two backups, one write, two
troubles, which is one lost item and one failed check, or an overwritten archive and
a crash.

*Run.* `restore`: `VerifiedIsWhole`, `CleanRestoreVerifies`, `OnlyThatBackup`. Nothing
is promised of a restore that is stopped, so there is no liveness.
`RestoreSameSecond.cfg` shows a limit of the layout: two backups completed within one
second share a directory, and the first row of the history then names the second
archive.

*Proofs.* All three hold for any tables, limits, writes and faults. `Describes` ties a
manifest to the archive its checksum names, which is why it matters that counts and
dump share a snapshot (`BackingUp`). `Filling` and `Comparing` say how much of the
archive has arrived and which counts were found equal. That equal counts mean an equal
database needs that the list of tables was not cut (lemma `WholeList`).

### Host

`HostState` declares what the commands of `installer.py` share; `HostInstall`,
`HostAccess` and `HostCertificate` model them with one step for every file written,
container recreated or timer set; `Host` lets one run at a time, under the
installation lock, and kills it or the host between any two steps. PostgreSQL
initialises its volume in the background, Caddy obtains and renews certificates, an
update commits, and a secret, the volume or the metadata may be lost.

`converge_host` ignores the exit of `systemctl`, so a certificate timer may stay as it
was and nobody hears of it (`broken = "unheard"`), unlike a unit that cannot be
written, of which `refresh_timers` warns (`broken = "timers"`).

*Bounds.* Two hostnames and the tunnel; up to two changes of access or updates, two
interruptions or failures, one loss and one renewal, any three of these in one
behaviour (`MaxEvents`). Two hostnames distinguish the old, the new and the recorded
access; one update is enough for a record of an earlier release; with two failures a
rollback may be interrupted too. With four events all seven properties hold as well
(1.2 million states, six minutes).

*Fairness.* A command goes on until it ends; Docker, PostgreSQL and Caddy do their
part; the daily timer fires where it is set (strong, as it waits for the lock); the
operator runs `rollback-hostname` or the installer again when told to (strong), and
does nothing about what nobody told them. `ByHand` lists the states that another run
of the installer does not lead out of; `InstallFinishes` ends there too. One of them
takes four events and is not named in the code: after a failed installation and a
change of hostname, a second change is killed between writing the new key and the new
certificate, and `rollback-hostname` returns to the first hostname, whose certificate
is still the one in the file. Every later delivery compares the certificate alone
(`installer.py:716`), says that it is already served and leaves the other hostname's
key in place, with which PostgreSQL cannot start.

*Run.* `host`: files and containers are of one access, and so is the certificate timer
unless setting it failed (`OneAccess`); the record of an interrupted change holds the
last verified access (`UndoIsVerified`); no change or rollback brings back an earlier
release (`ReleaseStays`); secrets in use are not replaced (`SecretsHold`); an
interrupted change, installation or delivery is put right (`ChangesRecover`,
`InstallFinishes`, `CertificateArrives`). `Obedient` means that an interrupted change
is rolled back before another change or an update is begun; without it
`UndoIsVerified` fails (see below). `CertificateArrives` follows the current access
through changes between hostnames. It excepts a delivery that was cut between its
files and the reload (`cut`, see below) and a timer that `systemctl` did not start
(`unheard`); so "switching to tunnel mode stops the certificate timer"
(`installer.py:753`, `docs/installation.md:106`) holds only if `systemctl` did as
asked.

*Proofs.* `ReleaseStays` needs no more than the shape of the configuration.
`SecretsInv` adds that a rerun which found the volume empty still faces an empty one
while it draws secrets. `AccessInv` follows a command through its steps: `Settled`,
`Installing`, `Changing` and `Undoing` say which files are already of the new access
and which still of the old, so that the last step ends with one.

## Where the code and its words disagree

Each row is a configuration in which TLC finds the sentence violated.
`WriteFreezeRace` is a run of `PROJECT.json` with a finding; the others are kept
beside the runs and are checked with `tlc -config <name>.cfg <module>`.

| Configuration | Sentence | What happens |
|---|---|---|
| `AccessPolicyPending` | `docs/api.md:26`: the request "replaces the allowlist ... and applies it" | a request that read the project during setup records a revision nobody applies |
| `WriteFreezeRace` | `httpapi/projects.go:338`: "if recording it fails, it is reverted so the dashboard never shows a state PostgreSQL does not enforce" | a second freeze, begun before the first was recorded, falls between the two writes of a resume: the role is frozen and the record says resumed. A resume between the two writes of a freeze ends the other way round |
| `UpdateLost` | `store/maintenance.go:14`: nothing is written "that a rollback would have to undo" | a rollback resumes the application before it removes its record, and may be repeated |
| `WriteFreezeUnreverted` | the same as `WriteFreezeRace` | ending the sessions fails after the role was changed; nothing is put back |
| `JobQueueReplay` | `httpapi/backups.go:476`: "A replay never restores into the project again" | only the newest job is looked at, and a backup may be newer than the restore |
| `JobQueueRecordLost` | `store/deletion.go:214`: "It is retried automatically every 15 minutes" | a result that could not be written leaves an active row, and nothing is queued beside it until a restart |
| `ProvisioningRace` | `provision/provision.go:119`: a project marked for deletion "is never created again" | a failure recorded after the lock was given back makes a project deletable while it is being created; the deletion still removes it (`NoOrphan`) |
| `AlertsUnwatched` | `store/alerts.go:74`: "an unchecked pass restarts the wait" | passes skipped during an update do not |
| `AlertsUpdate` | `alerts/alerts.go:116`: "Nothing is recorded or sent while an update holds the installation quiet" | the flag is read once, at the beginning of a pass |
| `AuthSetup` | `store/auth.go:169`: "from here no competing enrolment can start" | a second setup token may be issued once the first is spent |
| `UpdateStuck` | `docs/installation.md:188`: after the host went down "run `pgfyctl rollback-update`" | between removing the snapshot and its record, neither command goes on |
| `UpdateNoMeta` | `deploy/installer.py:1051`: "nothing else changed" | a missing `meta.json` also means a committed update |
| `HostCertificate` | `deploy/installer.py:717`: "PostgreSQL already serves the current certificate." | a delivery cut between its files and the reload is taken for served by the next one |
| `HostUndo` | `deploy/installer.py:634`: "rollback also works after process loss" | a second change over an interrupted one replaces the record by an access that was never verified |

## What is proved and what is model-checked

| Theorem | Says, for all constants |
|---|---|
| `QueueStep` | the queue's invariant is inductive |
| `QueueIsSafe` | types, one heavy job, delete jobs match tombstones, no work on a project being deleted |
| `FailureToldOnce`, `TombstoneHolds` | a failing deletion is told once; only its completion ends a tombstone |
| `RolesAreSafe`, `CredentialsStayUsable` | no orphan in PostgreSQL, ready is complete, the stored credentials work |
| `LockSerialises` | types, and the lock is held by exactly the goroutine that needs it |
| `ContractStep`, `QueueKeepsContract` | the queue implements `QueueContract` |
| `PolicyStep`, `ShownAccessIsEnforced`, `DeletedProjectsAreClosed` | a revision shown as applied is in force; no rule of a deleted project stays or returns |
| `LimitsStep`, `ShownLimitsAreSet` | limits shown as applied are the role's |
| `ScheduleStep`, `AnnouncedTimeIsDue`, `DelaysAreServed`, `NobodyOvertakes` | the scheduler takes up a project exactly when announced, after exactly its delay, and nobody twice while another waits |
| `BucketStep`, `ArchivesKeepProvenance`, `ForeignObjectsStay` | an archive alone stays provably ours; no object of another installation is removed or replaced |
| `NewestStep`, `NewestBackupStays` | a restorable backup is given up only while a newer one is in place |
| `AlertStep`, `ReceiverStaysCurrent`, `ResolvedAreWatched` | after a pass that sent all it had to, and in which nothing failed, the receiver is up to date; without updates and outages a resolved condition was watched for the whole wait |
| `AuthStep`, `SessionsStayCurrent`, `CodesLock`, `NewestResetOnly` | no session of replaced credentials; wrong codes lock; only the newest reset applies |
| `ReleaseStep`, `ReleasesMatch` | files, schema and application are of one release, late faults included |
| `UpdatesLoseNothing`, `UpdatesWaitForJobs` | no accepted change is lost, no job cut off; assumes `~LateFaults` |
| `RestoreStepKeeps`, `VerifiedMeansWhole`, `CleanIsVerified`, `NothingElseIsRestored` | "verified" is said of the whole snapshot, and of every clean restore; nothing of another archive is restored |
| `ReleaseIsKept`, `SecretsAreKept` | no earlier release comes back; secrets in use are not replaced |
| `AccessIsOne`, `UndoReturnsToVerified` | files and containers of one access, and the timer unless setting it failed; the record is the verified access; assume `Obedient` |

Beside the two conditions in the table the theorems assume the named `ASSUME`s of the
modules they are about: sets are disjoint from the names of goroutines and from
`None`, finite where they are counted, bounds are natural numbers, hours exist and are
positive (`BucketRetention`), and a backup interval is at most a day
(`BackupSchedule`; `BackupPolicy.Validate` admits no longer one). TLC evaluates them
in the runs. `HostProofs`, `BackgroundProofs` and `ServiceProofs` hold the proofs of two
components each; `Update`, `Guardrails` and `Alerts` name their specifications
`UpdateSpec`, `LimitsSpec` and `AlertsSpec` so that one module can extend both.

Only model-checked are liveness, which needs fairness and `ENABLED`, and the agreement
of `selectExpired` with its reference (`ExpiresTheRest`, `PeriodsSurvive`), which needs
induction over the data; the proofs use nothing of its loop but that what the loop
keeps comes on top of the newest.

## Not modelled

- Metadata store: single statements and transactions; its atomicity is what every
  module assumes. Migrations, snapshot and restore are one step each in `Update`.
- Connection checks: created, completed or expired by one guarded statement each, on
  a row of their own. The connection budget is a sum read in one statement; `Alerts`
  has it as a source.
- Request rate limits: counters under one mutex, on which nothing else relies.
- Host status and health, encodings, hashing, the S3 client's wire format: reads or
  conversions without state of their own.
- The rest of the installer: the bootstrap script, preflight checks, diagnostics, host
  status and the recovery kit only read, or run once before anything exists.
- Of modelled components: the listing page by page and the S3 protocol
  (`BucketRetention`), cookies, the CSRF check and the two hashing slots (`Auth`), the
  text of rules and the normalisation of addresses (`AccessPolicy`), test messages
  and address checks of the webhook (`Alerts`).
- Dashboard: it renders what the API returns.
