------------------------------ MODULE Restore ------------------------------
(***************************************************************************)
(* What a backup holds and what a restore may say about it: runBackup up   *)
(* to the record of the backup, runRestore and verifyRestore, while        *)
(* clients use the databases.  Backups and restores exclude each other     *)
(* (module JobQueue), so one worker runs them in turn.                     *)
(*                                                                         *)
(* Abstractions.  A database is its tables, which are numbers in the order *)
(* of their names, with their row counts, the number of its other objects  *)
(* for the five kinds that are counted alike, and a version for the values *)
(* the counts do not show.  An archive is the database it was dumped from, *)
(* its checksum that value itself and its size what it holds.  A directory *)
(* of the bucket is the second it is named by.  pg_dump and pg_restore     *)
(* finish, are stopped, or lose an item and report it or do not.           *)
(***************************************************************************)
EXTENDS Naturals, FiniteSets, FiniteSetsExt

CONSTANTS
    Tables,           \* the tables a database may have
    MaxTables,        \* MaxTables: tables whose rows a manifest records
    MaxArchive,       \* MaxArchiveBytes
    MaxCount,         \* bound: rows of a table, objects of a database
    Seconds,          \* bound: the seconds that pass
    MaxBackups,       \* bound: backups that are started
    MaxWrites,        \* bound: writes by clients
    MaxTrouble        \* bound: calls that fail, items lost, objects overwritten, crashes

ASSUME RestoreAssumption ==
    /\ Tables \subseteq Nat /\ IsFiniteSet(Tables) /\ Seconds \subseteq Nat /\ IsFiniteSet(Seconds)
    /\ {MaxTables, MaxArchive, MaxCount, MaxBackups, MaxWrites, MaxTrouble} \subseteq Nat

VARIABLES
    clock,
    source,           \* the project's database
    bucket,           \* the archive and the manifest of each directory
    history,          \* the rows of backups: directory and what was backed up
    pc, work,         \* the step of the running job, and what it holds in memory
    manifest,         \* the manifest the present or last restore works from
    target, touched,  \* the new project's database; whether a client wrote to it
    flawed,           \* pg_restore or a check went wrong in it
    result,           \* what it says
    left              \* what remains of each bound

restore == <<manifest, target, touched, flawed, result>>
vars == <<clock, source, bucket, history, pc, work, restore, left>>

(***************************************************************************)
(* Databases, archives and manifests.                                      *)
(***************************************************************************)
Counts == 0 .. MaxCount
Empty(v) == [rows |-> [t \in {} |-> 0], objects |-> 0, version |-> v]
Size(d) == MapThenSumSet(LAMBDA t : d.rows[t], DOMAIN d.rows) + d.objects

WithTable(d, t, n) == [d EXCEPT !.rows = [u \in DOMAIN d.rows \cup {t} |-> IF u = t THEN n ELSE d.rows[u]]]
WithoutTable(d, t) == [d EXCEPT !.rows = [u \in DOMAIN d.rows \ {t} |-> d.rows[u]]]

\* One write of a client: to rows, to a table, to another object, or to values.
Changed(d) ==
    ({WithTable(d, t, 0) : t \in Tables \ DOMAIN d.rows}
      \cup {WithoutTable(d, t) : t \in DOMAIN d.rows}
      \cup {WithTable(d, t, n) : t \in DOMAIN d.rows, n \in Counts}
      \cup {[d EXCEPT !.objects = n] : n \in Counts}
      \cup {[d EXCEPT !.version = @ + 1]}) \ {d}

\* countTables: the tables come in the order of their names, one more than the
\* limit is asked for, and a longer list is cut to it.
FirstTables(rows) ==
    [t \in {t \in DOMAIN rows : Cardinality({u \in DOMAIN rows : u < t}) < MaxTables} |-> rows[t]]

\* Mutant of Truncated: only as many tables as the limit are asked for.
NeverTruncated(rows) == FALSE

Truncated(rows) == Cardinality(DOMAIN rows) > MaxTables

ManifestOf(w) ==
    [tables |-> w.tables, truncated |-> w.truncated, objects |-> {w.objects}, sum |-> w.archive, same |-> TRUE]

Blank == [snap |-> Empty(0), tables |-> [t \in {} |-> 0], truncated |-> FALSE, objects |-> 0, archive |-> Empty(0),
          key |-> 0, todo |-> {}, errors |-> 0, exit |-> 0, ok |-> TRUE, full |-> TRUE]

Dirs == {0} \cup Seconds

\* The bucket holds one backup of an earlier release or of another server.
Init ==
    /\ clock \in Seconds
    /\ \E S \in SUBSET Tables :
          source = [rows |-> [t \in S |-> 1], objects |-> 1, version |-> 0]
    /\ \E objects \in {{}, {source.objects}}, same \in BOOLEAN :
          LET m == [tables |-> FirstTables(source.rows), truncated |-> Truncated(source.rows),
                    objects |-> objects, sum |-> source, same |-> same] IN
          /\ bucket = [d \in Dirs |-> IF d = 0 THEN [archive |-> {source}, manifest |-> {m}]
                                               ELSE [archive |-> {}, manifest |-> {}]]
          /\ manifest = m
    /\ history = {[dir |-> 0, of |-> source]}
    /\ pc = "idle" /\ work = Blank
    /\ target = Empty(0) /\ touched = FALSE /\ flawed = FALSE /\ result = "none"
    /\ left = [backups |-> MaxBackups, writes |-> MaxWrites, trouble |-> MaxTrouble]

Spend(what) == left[what] > 0 /\ left' = [left EXCEPT ![what] = @ - 1]
Go(step) == pc' = step /\ UNCHANGED work
Stop == pc' = "idle" /\ work' = Blank

(***************************************************************************)
(* runBackup.                                                              *)
(***************************************************************************)
\* The project is ready, the disk has room; one transaction sees the database
\* as it is now, and exports that view.
RunBackup ==
    /\ pc = "idle" /\ Spend("backups")
    /\ pc' = "tables" /\ work' = [Blank EXCEPT !.snap = source]
    /\ UNCHANGED <<clock, source, bucket, history, restore>>

\* A table that was dropped since can neither be counted nor dumped.
Gone == ~(DOMAIN work.snap.rows \subseteq DOMAIN source.rows)

\* Mutant of Counted: the counts are read outside the transaction.
CountedNow == source

\* Row counts come from the same snapshot pg_dump reads.
Counted == work.snap

CountTables ==
    /\ pc = "tables"
    /\ IF Gone THEN Stop
       ELSE /\ pc' = "objects"
            /\ work' = [work EXCEPT !.tables = FirstTables(Counted.rows), !.truncated = Truncated(Counted.rows)]
    /\ UNCHANGED <<clock, source, bucket, history, restore, left>>

CountObjects ==
    /\ pc = "objects"
    /\ pc' = "dump" /\ work' = [work EXCEPT !.objects = Counted.objects]
    /\ UNCHANGED <<clock, source, bucket, history, restore, left>>

Dump ==
    /\ pc = "dump"
    /\ IF Gone THEN Stop ELSE pc' = "checksum" /\ work' = [work EXCEPT !.archive = work.snap]
    /\ UNCHANGED <<clock, source, bucket, history, restore, left>>

\* The directory is named when the archive is ready, by the second.
Checksum ==
    /\ pc = "checksum"
    /\ IF Size(work.archive) > MaxArchive THEN Stop
       ELSE pc' = "upload_archive" /\ work' = [work EXCEPT !.key = clock]
    /\ UNCHANGED <<clock, source, bucket, history, restore, left>>

UploadArchive ==
    /\ pc = "upload_archive"
    /\ bucket' = [bucket EXCEPT ![work.key].archive = {work.archive}]
    /\ Go("upload_manifest")
    /\ UNCHANGED <<clock, source, history, restore, left>>

UploadManifest ==
    /\ pc = "upload_manifest"
    /\ bucket' = [bucket EXCEPT ![work.key].manifest = {ManifestOf(work)}]
    /\ Go("complete")
    /\ UNCHANGED <<clock, source, history, restore, left>>

CompleteBackupJob ==
    /\ pc = "complete"
    /\ history' = history \cup {[dir |-> work.key, of |-> work.snap]}
    /\ Stop
    /\ UNCHANGED <<clock, source, bucket, restore, left>>

(***************************************************************************)
(* runRestore.                                                             *)
(***************************************************************************)
Restoring == {"preparing", "download", "create_project", "restore", "verify", "conclude"}

\* startRestore reads the manifest and queues a restore into a new project.
StartRestore(d) ==
    /\ pc = "idle" /\ bucket[d].manifest # {}
    /\ pc' = "preparing" /\ work' = [Blank EXCEPT !.key = d]
    /\ target' = Empty(0) /\ touched' = FALSE /\ flawed' = FALSE /\ result' = "none"
    /\ UNCHANGED <<clock, source, bucket, history, manifest, left>>

Refuse == result' = "error" /\ Stop

\* The job reads the manifest again and works from that.
ReadManifest ==
    /\ pc = "preparing"
    /\ \E m \in bucket[work.key].manifest :
          /\ manifest' = m
          /\ IF m.same /\ Size(m.sum) <= MaxArchive
               THEN Go("download") /\ UNCHANGED result
               ELSE Refuse
    /\ UNCHANGED <<clock, source, bucket, history, target, touched, flawed, left>>

\* Mutant of ArchiveMatches: the checksum is not compared.
ArchiveTaken(a) == TRUE

ArchiveMatches(a) == a = manifest.sum

Download ==
    /\ pc = "download"
    /\ \/ bucket[work.key].archive = {} /\ Refuse
       \/ \E a \in bucket[work.key].archive :
             IF ArchiveMatches(a)
               THEN pc' = "create_project" /\ work' = [work EXCEPT !.archive = a] /\ UNCHANGED result
               ELSE Refuse
    /\ UNCHANGED <<clock, source, bucket, history, manifest, target, touched, flawed, left>>

\* ProvisionNow: from here on the project is ready and its credentials work.
CreateProject ==
    /\ pc = "create_project"
    /\ target' = Empty(work.archive.version)
    /\ pc' = "restore" /\ work' = [work EXCEPT !.todo = DOMAIN work.archive.rows]
    /\ UNCHANGED <<clock, source, bucket, history, manifest, touched, flawed, result, left>>

\* pg_restore complains: an error is counted, and the exit status may show it.
Complains(w) == {[w EXCEPT !.errors = 1, !.exit = x] : x \in {0, 1}}

\* It creates a table and fills it, after what a client may have put there.
RestoreTable(t) ==
    /\ pc = "restore" /\ t \in work.todo
    /\ LET w == [work EXCEPT !.todo = @ \ {t}]
           n == work.archive.rows[t] IN
       \/ /\ t \notin DOMAIN target.rows
          /\ target' = WithTable(target, t, n) /\ work' = w /\ UNCHANGED <<flawed, left>>
       \/ /\ t \in DOMAIN target.rows
          /\ target' = WithTable(target, t, target.rows[t] + n) /\ work' \in Complains(w)
          /\ UNCHANGED <<flawed, left>>
       \/ /\ Spend("trouble") /\ flawed' = TRUE /\ work' \in {w} \cup Complains(w)
          /\ target' \in {target} \cup {WithTable(target, t, k) : k \in {k \in Counts : k < n}}
    /\ UNCHANGED <<clock, source, bucket, history, pc, manifest, touched, result>>

\* Then the other objects, of which those nothing counts are part of the version:
\* no check would see them lost, so they are lost with a complaint only.
RestoreObjects ==
    /\ pc = "restore" /\ work.todo = {}
    /\ pc' = "verify"
    /\ LET n == target.objects + work.archive.objects
           w == [work EXCEPT !.todo = DOMAIN manifest.tables] IN
       \/ target' = [target EXCEPT !.objects = n] /\ work' = w /\ UNCHANGED <<flawed, left>>
       \/ /\ n > 0 /\ Spend("trouble") /\ flawed' = TRUE /\ work' \in {w} \cup Complains(w)
          /\ target' = [target EXCEPT !.objects = n - 1]
       \/ /\ Spend("trouble") /\ flawed' = TRUE /\ work' \in Complains(w)
          /\ target' = [target EXCEPT !.objects = n, !.version = @ + 1]
    /\ UNCHANGED <<clock, source, bucket, history, manifest, touched, result>>

(***************************************************************************)
(* verifyRestore, one query at a time.                                     *)
(***************************************************************************)
VerifyTable(t) ==
    /\ pc = "verify" /\ t \in work.todo
    /\ LET same == t \in DOMAIN target.rows /\ target.rows[t] = manifest.tables[t] IN
       work' = [work EXCEPT !.todo = @ \ {t}, !.ok = @ /\ same]
    /\ UNCHANGED <<clock, source, bucket, history, pc, restore, left>>

VerifyObjects ==
    /\ pc = "verify" /\ work.todo = {}
    /\ pc' = "conclude"
    /\ work' = [work EXCEPT !.ok = @ /\ \A n \in manifest.objects : target.objects = n,
                            !.full = ~manifest.truncated /\ manifest.objects # {}]
    /\ UNCHANGED <<clock, source, bucket, history, restore, left>>

\* pg_restore can ignore errors and still exit zero, so the count decides too.
Reported == work.exit # 0 \/ work.errors > 0

\* Ownership and permissions, then the answer.
Conclude ==
    /\ pc = "conclude"
    /\ \E owned \in BOOLEAN :
          /\ IF owned THEN UNCHANGED <<flawed, left>> ELSE Spend("trouble") /\ flawed' = TRUE
          /\ result' = CASE Reported \/ ~work.ok \/ ~owned -> "failed"
                         [] ~work.full                     -> "partial"
                         [] OTHER                          -> "verified"
    /\ Stop
    /\ UNCHANGED <<clock, source, bucket, history, manifest, target, touched>>

(***************************************************************************)
(* Time, clients and faults.                                               *)
(***************************************************************************)
Tick ==
    /\ clock + 1 \in Seconds /\ clock' = clock + 1
    /\ UNCHANGED <<source, bucket, history, pc, work, restore, left>>

\* The tables runBackup has counted stay locked until its transaction ends: a
\* client that drops or truncates one waits for it.
Locked == IF pc \in {"objects", "dump"} THEN DOMAIN work.tables ELSE {}

ClientWrites ==
    /\ Spend("writes")
    /\ source' \in Changed(source)
    /\ DOMAIN source'.rows \subseteq DOMAIN source.rows /\ Locked \subseteq DOMAIN source'.rows
    /\ UNCHANGED <<clock, bucket, history, pc, work, restore>>

\* TRUNCATE, or a table under a new or a former name.  Neither is kept from a
\* transaction that began before: it finds the table empty.
ClientReplaces(t) ==
    /\ Spend("writes") /\ t \notin Locked
    /\ source' = WithTable(source, t, 0)
    /\ IF pc \in {"tables", "objects", "dump"} /\ t \in DOMAIN work.snap.rows
         THEN work' = [work EXCEPT !.snap = WithTable(@, t, 0)] ELSE UNCHANGED work
    /\ UNCHANGED <<clock, bucket, history, pc, restore>>

\* A client of the new project does not wait for the restore to end.
ClientTouches ==
    /\ pc \in {"restore", "verify", "conclude"} /\ Spend("writes")
    /\ target' \in Changed(target) /\ touched' = TRUE
    /\ UNCHANGED <<clock, source, bucket, history, pc, work, manifest, flawed, result>>

\* A call fails, a tool is stopped or overruns its time, or the process dies.
JobStops ==
    /\ pc # "idle" /\ Spend("trouble")
    /\ result' = IF pc \in Restoring THEN "error" ELSE result
    /\ Stop
    /\ UNCHANGED <<clock, source, bucket, history, manifest, target, touched, flawed>>

\* An archive is removed from the bucket, or replaced.
Overwrite(d) ==
    /\ bucket[d].archive # {} /\ Spend("trouble")
    /\ bucket' \in {[bucket EXCEPT ![d].archive = a] :
                       a \in {{}} \cup {{[b EXCEPT !.version = @ + 1]} : b \in bucket[d].archive}}
    /\ UNCHANGED <<clock, source, history, pc, work, restore>>

BackupStep ==
    \/ CountTables \/ CountObjects \/ Dump \/ Checksum \/ UploadArchive \/ UploadManifest \/ CompleteBackupJob

RestoreStep ==
    \/ ReadManifest \/ Download \/ CreateProject \/ (\E t \in Tables : RestoreTable(t) \/ VerifyTable(t))
    \/ RestoreObjects \/ VerifyObjects \/ Conclude

Next ==
    \/ RunBackup \/ BackupStep \/ (\E d \in Dirs : StartRestore(d)) \/ RestoreStep
    \/ Tick \/ ClientWrites \/ (\E t \in Tables : ClientReplaces(t)) \/ ClientTouches \/ JobStops
    \/ (\E d \in Dirs : Overwrite(d))

Spec == Init /\ [][Next]_vars

(***************************************************************************)
(* Properties.                                                             *)
(***************************************************************************)
IsDatabase(d) == DOMAIN d.rows \subseteq Tables /\ (\A t \in DOMAIN d.rows : d.rows[t] \in Nat) /\ d.objects \in Nat

TypeOK ==
    /\ clock \in Seconds /\ IsDatabase(source) /\ IsDatabase(target) /\ IsDatabase(work.archive)
    /\ \A d \in Dirs : \A a \in bucket[d].archive : IsDatabase(a)
    /\ pc \in Restoring \cup {"idle", "tables", "objects", "dump", "checksum", "upload_archive",
                              "upload_manifest", "complete"}
    /\ result \in {"none", "error", "verified", "partial", "failed"}

\* A restore that says "verified" brought back exactly the database as the
\* snapshot of that backup saw it, whatever was written to the source meanwhile,
\* overwritten in the bucket or, of what is counted, lost by pg_restore without a
\* word (runRestore, verifyRestore).  A client may have added to it since.
VerifiedIsWhole == result = "verified" /\ ~touched => target = manifest.sum

\* A restore in which nothing went wrong says so: the counts of the manifest are
\* those of the archive although the source changed between the snapshot, the
\* counts and the dump, and only a manifest without all of them is "partial".
CleanRestoreVerifies ==
    result \in {"verified", "partial", "failed"} /\ ~touched /\ ~flawed =>
        result = IF manifest.truncated \/ manifest.objects = {} THEN "partial" ELSE "verified"

\* Whatever a restore ends with, the new database never holds anything that was
\* not in the backup its manifest describes: an archive that was replaced is
\* refused before the project is created.
OnlyThatBackup ==
    ~touched =>
        /\ DOMAIN target.rows \subseteq DOMAIN manifest.sum.rows
        /\ \A t \in DOMAIN target.rows : target.rows[t] <= manifest.sum.rows[t]
        /\ target.objects <= manifest.sum.objects
        /\ target # Empty(0) /\ ~flawed => target.version = manifest.sum.version

\* Every backup in the history can be restored as long as nobody touches the
\* bucket: its directory holds its own archive and manifest.
CompletedStaysRestorable ==
    \A h \in history :
        /\ bucket[h.dir].archive = {h.of}
        /\ \A m \in bucket[h.dir].manifest : m.sum = h.of
=============================================================================
