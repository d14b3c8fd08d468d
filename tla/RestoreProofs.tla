--------------------------- MODULE RestoreProofs ---------------------------
(***************************************************************************)
(* What a restore may claim, for every number of tables, backups, writes   *)
(* and faults.                                                             *)
(***************************************************************************)
EXTENDS Restore, FiniteSetTheorems, TLAPS

\* Leaves that need arithmetic, records or many cases cite SMT.
USE Zenon

Rows == UNION {[S -> Nat] : S \in SUBSET Tables}
Databases == [rows : Rows, objects : Nat, version : Nat]

\* A manifest describes the archive whose checksum it carries: its counts are
\* those of that archive, as far as the limit goes.
Describes(m) ==
    /\ m.tables = FirstTables(m.sum.rows) /\ m.truncated = Truncated(m.sum.rows)
    /\ m.objects \subseteq {m.sum.objects}
Manifests ==
    {m \in [tables : Rows, truncated : BOOLEAN, objects : SUBSET Nat, sum : Databases, same : BOOLEAN] : Describes(m)}

Works ==
    [snap : Databases, tables : Rows, truncated : BOOLEAN, objects : Nat, archive : Databases, key : Dirs,
     todo : SUBSET Tables, errors : {0, 1}, exit : {0, 1}, ok : BOOLEAN, full : BOOLEAN]

Types ==
    /\ clock \in Seconds /\ source \in Databases /\ target \in Databases /\ manifest \in Manifests /\ work \in Works
    /\ bucket \in [Dirs -> [archive : SUBSET Databases, manifest : SUBSET Manifests]]
    /\ touched \in BOOLEAN /\ flawed \in BOOLEAN

\* How far a backup is.
BackingUp ==
    /\ pc \in {"objects", "dump", "checksum", "upload_archive", "upload_manifest"} =>
          work.tables = FirstTables(work.snap.rows) /\ work.truncated = Truncated(work.snap.rows)
    /\ pc \in {"dump", "checksum", "upload_archive", "upload_manifest"} => work.objects = work.snap.objects
    /\ pc \in {"checksum", "upload_archive", "upload_manifest"} => work.archive = work.snap

\* How far a restore is, as long as no client writes to the new database.
Sum == manifest.sum
Quiet == work.errors = 0 /\ work.exit = 0
Within ==
    /\ DOMAIN target.rows \subseteq DOMAIN Sum.rows
    /\ \A t \in DOMAIN target.rows : target.rows[t] <= Sum.rows[t]
    /\ target.objects <= Sum.objects
Found(t) == t \in DOMAIN target.rows /\ target.rows[t] = manifest.tables[t]

Filling ==
    pc = "restore" /\ ~touched =>
        /\ Within /\ target.objects = 0 /\ target.version = Sum.version
        /\ work.todo \cap DOMAIN target.rows = {} /\ work.ok
        /\ ~flawed => /\ Quiet /\ DOMAIN target.rows \cup work.todo = DOMAIN Sum.rows
                      /\ \A t \in DOMAIN target.rows : target.rows[t] = Sum.rows[t]

Comparing ==
    pc \in {"verify", "conclude"} /\ ~touched =>
        /\ Within
        /\ Quiet => target.version = Sum.version
        /\ ~flawed => target = Sum /\ Quiet /\ work.ok
        /\ work.ok => \A t \in DOMAIN manifest.tables \ (IF pc = "verify" THEN work.todo ELSE {}) : Found(t)
        /\ pc = "conclude" => /\ work.ok => \A n \in manifest.objects : target.objects = n
                              /\ work.full = (~manifest.truncated /\ manifest.objects # {})

Restored ==
    /\ pc \in Restoring => result = "none"
    /\ pc \in {"preparing", "download", "create_project"} => target = Empty(0) /\ ~touched /\ ~flawed /\ work.ok /\ Quiet
    /\ pc \in {"create_project", "restore"} => work.archive = Sum
    /\ pc = "restore" => work.todo \subseteq DOMAIN Sum.rows
    /\ pc = "verify" => work.todo \subseteq DOMAIN manifest.tables

RestoreInv ==
    /\ Types /\ BackingUp /\ Restored /\ Filling /\ Comparing
    /\ VerifiedIsWhole /\ CleanRestoreVerifies /\ OnlyThatBackup

(***************************************************************************)
(* Databases and manifests.                                                *)
(***************************************************************************)
\* A function from tables to counts, taken apart and put together.
LEMMA RowsHave ==
    ASSUME NEW r \in Rows
    PROVE  DOMAIN r \in SUBSET Tables /\ r \in [DOMAIN r -> Nat]
BY DEF Rows

LEMMA RowsAre ==
    ASSUME NEW S \in SUBSET Tables, NEW r \in [S -> Nat]
    PROVE  r \in Rows
BY DEF Rows

\* A new table, or a table with other rows.
LEMMA WithTableIs ==
    ASSUME NEW d \in Databases, NEW t \in Tables, NEW n \in Nat
    PROVE  LET e == WithTable(d, t, n) IN
           /\ e \in Databases /\ e.objects = d.objects /\ e.version = d.version
           /\ DOMAIN e.rows = DOMAIN d.rows \cup {t} /\ e.rows[t] = n
           /\ \A u \in DOMAIN d.rows \ {t} : e.rows[u] = d.rows[u]
<1> DEFINE f == [u \in DOMAIN d.rows \cup {t} |-> IF u = t THEN n ELSE d.rows[u]]
<1>1. DOMAIN d.rows \in SUBSET Tables /\ d.rows \in [DOMAIN d.rows -> Nat]
  BY RowsHave DEF Databases
<1>2. f \in [DOMAIN d.rows \cup {t} -> Nat]
  BY <1>1
<1>3. f \in Rows
  <2>1. DOMAIN d.rows \cup {t} \in SUBSET Tables
    BY <1>1
  <2> HIDE DEF f
  <2> QED
    BY <2>1, <1>2, RowsAre
<1> QED
  BY <1>1, <1>3 DEF WithTable, Databases

LEMMA WithoutTableIs ==
    ASSUME NEW d \in Databases, NEW t
    PROVE  WithoutTable(d, t) \in Databases
<1> DEFINE f == [u \in DOMAIN d.rows \ {t} |-> d.rows[u]]
<1>1. DOMAIN d.rows \in SUBSET Tables /\ d.rows \in [DOMAIN d.rows -> Nat]
  BY RowsHave DEF Databases
<1>2. f \in [DOMAIN d.rows \ {t} -> Nat]
  BY <1>1
<1>3. f \in Rows
  <2>1. DOMAIN d.rows \ {t} \in SUBSET Tables
    BY <1>1
  <2> HIDE DEF f
  <2> QED
    BY <2>1, <1>2, RowsAre
<1> QED
  BY <1>3 DEF WithoutTable, Databases

\* A client's write leaves a database.
LEMMA ChangedIs ==
    ASSUME NEW d \in Databases, NEW e \in Changed(d)
    PROVE  e \in Databases
<1>1. DOMAIN d.rows \in SUBSET Tables
  BY RowsHave DEF Databases
<1>2. Counts \in SUBSET Nat
  BY RestoreAssumption, SMT DEF Counts
<1>3. CASE \E t \in Tables, n \in Nat : e = WithTable(d, t, n)
  BY <1>3, WithTableIs, SMT
<1>4. CASE \E t \in DOMAIN d.rows : e = WithoutTable(d, t)
  BY <1>4, WithoutTableIs
<1>5. CASE \E n \in Nat : e = [d EXCEPT !.objects = n] \/ e = [d EXCEPT !.version = @ + 1]
  BY <1>5, SMT DEF Databases
<1> QED
  BY <1>1, <1>2, <1>3, <1>4, <1>5, SMT DEF Changed

LEMMA EmptyIs ==
    ASSUME NEW v \in Nat
    PROVE  Empty(v) \in Databases /\ DOMAIN Empty(v).rows = {} /\ Empty(v).objects = 0 /\ Empty(v).version = v
<1>1. [t \in {} |-> 0] \in Rows
  <2>1. [t \in {} |-> 0] \in [{} -> Nat]
    OBVIOUS
  <2> QED
    BY <2>1, RowsAre
<1> QED
  BY <1>1 DEF Empty, Databases

\* Two databases that agree everywhere are one.
LEMMA Alike ==
    ASSUME NEW d \in Databases, NEW e \in Databases, d.objects = e.objects, d.version = e.version,
           DOMAIN d.rows = DOMAIN e.rows, \A t \in DOMAIN e.rows : d.rows[t] = e.rows[t]
    PROVE  d = e
<1>1. d.rows \in [DOMAIN d.rows -> Nat] /\ e.rows \in [DOMAIN e.rows -> Nat]
  BY RowsHave DEF Databases
<1>2. d.rows = e.rows
  BY <1>1, SMT
<1> QED
  BY <1>2, SMT DEF Databases

\* The recorded tables are tables of the database, with their rows.
LEMMA FirstTablesAre ==
    ASSUME NEW r \in Rows
    PROVE  /\ FirstTables(r) \in Rows /\ DOMAIN FirstTables(r) \subseteq DOMAIN r
           /\ \A t \in DOMAIN FirstTables(r) : FirstTables(r)[t] = r[t]
<1> DEFINE S == {t \in DOMAIN r : Cardinality({u \in DOMAIN r : u < t}) < MaxTables}
           f == [t \in S |-> r[t]]
<1>1. DOMAIN r \in SUBSET Tables /\ r \in [DOMAIN r -> Nat]
  BY RowsHave
<1>2. S \in SUBSET Tables /\ S \subseteq DOMAIN r
  BY <1>1
<1>3. FirstTables(r) = f
  BY DEF FirstTables
<1> HIDE DEF S
<1>4. f \in [S -> Nat]
  BY <1>1, <1>2
<1>5. f \in Rows
  <2> HIDE DEF f
  <2> QED
    BY <1>2, <1>4, RowsAre
<1> QED
  BY <1>2, <1>3, <1>4, <1>5

\* At or below the limit nothing is left out: each table has fewer than all the
\* tables before it.
LEMMA WholeList ==
    ASSUME NEW r \in Rows, ~Truncated(r)
    PROVE  DOMAIN FirstTables(r) = DOMAIN r
<1> DEFINE D == DOMAIN r
           Before(t) == {u \in D : u < t}
<1>1. D \in SUBSET Tables
  BY RowsHave
<1>2. IsFiniteSet(D)
  BY <1>1, RestoreAssumption, FS_Subset
<1>3. Cardinality(D) \in Nat /\ Cardinality(D) <= MaxTables
  BY <1>2, FS_CardinalityType, RestoreAssumption, SMT DEF Truncated
<1>4. ASSUME NEW t \in D
      PROVE  Cardinality(Before(t)) < MaxTables
  <2>0. t \in Nat
    BY <1>1, RestoreAssumption
  <2>1. Before(t) \in SUBSET D /\ t \notin Before(t)
    BY <2>0, SMT
  <2>2. Before(t) # D
    BY <2>1
  <2>3. IsFiniteSet(Before(t)) /\ Cardinality(Before(t)) <= Cardinality(D) /\ Cardinality(Before(t)) # Cardinality(D)
    BY <2>1, <2>2, <1>2, FS_Subset
  <2>4. Cardinality(Before(t)) \in Nat
    BY <2>3, FS_CardinalityType
  <2> QED
    BY <2>3, <2>4, <1>3, RestoreAssumption, SMT
<1> QED
  BY <1>4 DEF FirstTables

\* What a manifest tells.
LEMMA ManifestHas ==
    ASSUME NEW m \in Manifests
    PROVE  /\ m.sum \in Databases /\ m.tables \in Rows /\ m.objects \subseteq {m.sum.objects}
           /\ DOMAIN m.tables \subseteq DOMAIN m.sum.rows
           /\ \A t \in DOMAIN m.tables : m.tables[t] = m.sum.rows[t]
           /\ ~m.truncated => DOMAIN m.tables = DOMAIN m.sum.rows
           /\ m.truncated \in BOOLEAN /\ m.same \in BOOLEAN
<1>1. /\ m.sum \in Databases /\ m.tables \in Rows /\ m.objects \subseteq {m.sum.objects}
      /\ m.tables = FirstTables(m.sum.rows) /\ m.truncated = Truncated(m.sum.rows)
      /\ m.truncated \in BOOLEAN /\ m.same \in BOOLEAN
  BY DEF Manifests, Describes
<1>2. m.sum.rows \in Rows
  BY <1>1 DEF Databases
<1> QED
  BY <1>1, <1>2, FirstTablesAre, WholeList

\* The manifest a backup writes.
LEMMA ManifestIs ==
    ASSUME NEW d \in Databases, NEW objects \in SUBSET {d.objects}, NEW same \in BOOLEAN
    PROVE  [tables |-> FirstTables(d.rows), truncated |-> Truncated(d.rows), objects |-> objects,
            sum |-> d, same |-> same] \in Manifests
<1>1. FirstTables(d.rows) \in Rows /\ d.objects \in Nat
  BY FirstTablesAre DEF Databases
<1>2. Truncated(d.rows) \in BOOLEAN
  BY SMT DEF Truncated
<1> QED
  BY <1>1, <1>2 DEF Manifests, Describes

LEMMA BlankIs == Blank \in Works /\ Blank.ok /\ Blank.errors = 0 /\ Blank.exit = 0
<1>1. Empty(0) \in Databases
  BY EmptyIs
<1>2. [t \in {} |-> 0] \in Rows
  BY <1>1 DEF Empty, Databases
<1> QED
  BY <1>1, <1>2 DEF Blank, Works, Dirs

(***************************************************************************)
(* The first state, and each action.                                       *)
(***************************************************************************)
LEMMA RestoreBegins == Init => RestoreInv
<1> SUFFICES ASSUME Init PROVE RestoreInv
  OBVIOUS
<1>1. source \in Databases
  <2>1. PICK S \in SUBSET Tables : source = [rows |-> [t \in S |-> 1], objects |-> 1, version |-> 0]
    BY DEF Init
  <2>2. [t \in S |-> 1] \in Rows
    <3>1. [t \in S |-> 1] \in [S -> Nat]
      OBVIOUS
    <3> QED
      BY <3>1, RowsAre
  <2> QED
    BY <2>1, <2>2 DEF Databases
<1>2. PICK objects \in {{}, {source.objects}}, same \in BOOLEAN :
        /\ bucket = [d \in Dirs |->
               IF d = 0 THEN [archive |-> {source}, manifest |-> {manifest}] ELSE [archive |-> {}, manifest |-> {}]]
        /\ manifest = [tables |-> FirstTables(source.rows), truncated |-> Truncated(source.rows),
                       objects |-> objects, sum |-> source, same |-> same]
  BY DEF Init
<1>3. manifest \in Manifests
  BY <1>1, <1>2, ManifestIs
<1>4. target \in Databases /\ DOMAIN target.rows = {} /\ target.objects = 0 /\ target = Empty(0)
  BY EmptyIs DEF Init
<1>5. Types
  BY <1>1, <1>2, <1>3, <1>4, BlankIs DEF Init, Types
<1>6. OnlyThatBackup
  <2>1. manifest.sum.objects \in Nat
    BY <1>3, ManifestHas DEF Databases
  <2> QED
    BY <1>4, <2>1, SMT DEF OnlyThatBackup
<1> QED
  BY <1>4, <1>5, <1>6
  DEF Init, RestoreInv, BackingUp, Restored, Restoring, Filling, Comparing, VerifiedIsWhole, CleanRestoreVerifies

\* A step outside a restore keeps what is known as long as it leaves the last
\* restore alone and keeps types and the progress of the backup.
LEMMA Aside ==
    ASSUME RestoreInv, UNCHANGED restore, pc' \notin Restoring, Types', BackingUp'
    PROVE  RestoreInv'
BY DEF RestoreInv, restore, Restoring, Restored, Filling, Comparing, VerifiedIsWhole, CleanRestoreVerifies,
       OnlyThatBackup

LEMMA BackupKeeps == RestoreInv /\ (RunBackup \/ BackupStep) => RestoreInv'
<1> SUFFICES ASSUME RestoreInv, RunBackup \/ BackupStep PROVE RestoreInv'
  OBVIOUS
<1>1. Types /\ BackingUp /\ Blank \in Works /\ work \in Works
  BY BlankIs DEF RestoreInv, Types
<1>2. UNCHANGED restore /\ UNCHANGED <<clock, source>> /\ pc' \notin Restoring
  BY DEF RunBackup, BackupStep, CountTables, CountObjects, Dump, Checksum, UploadArchive, UploadManifest,
         CompleteBackupJob, Stop, Go, Restoring
<1>3. SUFFICES /\ work' \in Works
               /\ bucket' \in [Dirs -> [archive : SUBSET Databases, manifest : SUBSET Manifests]]
               /\ BackingUp'
  BY <1>1, <1>2, Aside DEF Types, restore
<1>4. CASE RunBackup
  BY <1>1, <1>4 DEF RunBackup, Types, Works, BackingUp
<1>5. CASE CountTables
  <2>1. FirstTables(work.snap.rows) \in Rows /\ Truncated(work.snap.rows) \in BOOLEAN
    BY <1>1, FirstTablesAre, SMT DEF Works, Databases, Truncated
  <2> QED
    BY <1>1, <1>5, <2>1 DEF CountTables, Counted, Stop, Types, Works, BackingUp
<1>6. CASE CountObjects
  BY <1>1, <1>6 DEF CountObjects, Counted, Types, Works, Databases, BackingUp
<1>7. CASE Dump
  BY <1>1, <1>7 DEF Dump, Stop, Types, Works, BackingUp
<1>8. CASE Checksum
  BY <1>1, <1>8 DEF Checksum, Stop, Types, Works, Dirs, BackingUp
<1>9. CASE UploadArchive
  BY <1>1, <1>9 DEF UploadArchive, Go, Types, Works, BackingUp
<1>10. CASE UploadManifest
  <2>1. ManifestOf(work) \in Manifests
    <3>1. work.archive \in Databases /\ work.objects = work.archive.objects
      BY <1>1, <1>10 DEF UploadManifest, BackingUp, Works
    <3> QED
      BY <1>1, <1>10, <3>1, ManifestIs DEF UploadManifest, BackingUp, ManifestOf
  <2> QED
    BY <1>1, <1>10, <2>1 DEF UploadManifest, Go, Types, Works, BackingUp
<1>11. CASE CompleteBackupJob
  BY <1>1, <1>11 DEF CompleteBackupJob, Stop, Types, BackingUp
<1> QED
  BY <1>4, <1>5, <1>6, <1>7, <1>8, <1>9, <1>10, <1>11 DEF BackupStep

\* Time, writes to the source and changes of the bucket leave the job alone.
LEMMA AroundKeeps ==
    RestoreInv /\ (Tick \/ ClientWrites \/ \E d \in Dirs : Overwrite(d)) => RestoreInv'
<1> SUFFICES ASSUME RestoreInv, Tick \/ ClientWrites \/ \E d \in Dirs : Overwrite(d) PROVE RestoreInv'
  OBVIOUS
<1>1. Types
  BY DEF RestoreInv
<1>2. UNCHANGED <<pc, work, restore>>
  BY DEF Tick, ClientWrites, Overwrite
<1>3. Types'
  <2>1. CASE Tick
    BY <1>1, <1>2, <2>1 DEF Tick, Types, restore
  <2>2. CASE ClientWrites
    <3>1. source' \in Databases
      BY <1>1, <2>2, ChangedIs DEF ClientWrites, Types
    <3> QED
      BY <1>1, <1>2, <2>2, <3>1 DEF ClientWrites, Types, restore
  <2>3. CASE \E d \in Dirs : Overwrite(d)
    <3>1. PICK d \in Dirs : Overwrite(d)
      BY <2>3
    <3>2. PICK a \in {{}} \cup {{[b EXCEPT !.version = @ + 1]} : b \in bucket[d].archive} :
            bucket' = [bucket EXCEPT ![d].archive = a]
      BY <3>1 DEF Overwrite
    <3>3. a \in SUBSET Databases
      BY <1>1, <3>2, SMT DEF Types, Databases
    <3>4. bucket' \in [Dirs -> [archive : SUBSET Databases, manifest : SUBSET Manifests]]
      BY <1>1, <3>2, <3>3 DEF Types
    <3> QED
      BY <1>1, <1>2, <3>1, <3>4 DEF Overwrite, Types, restore
  <2> QED
    BY <2>1, <2>2, <2>3
<1> QED
  BY <1>2, <1>3, SMT
  DEF RestoreInv, restore, BackingUp, Restored, Filling, Comparing, Within, Quiet, Found, Sum, VerifiedIsWhole,
      CleanRestoreVerifies, OnlyThatBackup

\* Emptying a table that is not recorded leaves the record as it is.
LEMMA RecordStays ==
    ASSUME NEW d \in Databases, NEW t \in DOMAIN d.rows, t \notin DOMAIN FirstTables(d.rows)
    PROVE  LET e == WithTable(d, t, 0) IN
           FirstTables(e.rows) = FirstTables(d.rows) /\ Truncated(e.rows) = Truncated(d.rows)
<1> DEFINE e == WithTable(d, t, 0)
<1>1. t \in Tables
  BY RowsHave DEF Databases
<1>2. DOMAIN e.rows = DOMAIN d.rows /\ \A u \in DOMAIN d.rows \ {t} : e.rows[u] = d.rows[u]
  <2>1. DOMAIN e.rows = DOMAIN d.rows \cup {t} /\ \A u \in DOMAIN d.rows \ {t} : e.rows[u] = d.rows[u]
    BY <1>1, WithTableIs, 0 \in Nat, SMT
  <2> HIDE DEF e
  <2> QED
    BY <2>1
<1> HIDE DEF e
<1>3. FirstTables(e.rows) = FirstTables(d.rows)
  <2> DEFINE S == {u \in DOMAIN d.rows : Cardinality({v \in DOMAIN d.rows : v < u}) < MaxTables}
  <2>1. FirstTables(e.rows) = [u \in S |-> e.rows[u]] /\ FirstTables(d.rows) = [u \in S |-> d.rows[u]]
    BY <1>2 DEF FirstTables
  <2>2. t \notin S /\ S \subseteq DOMAIN d.rows
    BY <2>1
  <2> HIDE DEF S
  <2> QED
    BY <1>2, <2>1, <2>2
<1>4. Truncated(e.rows) = Truncated(d.rows)
  BY <1>2 DEF Truncated
<1> QED
  BY <1>3, <1>4 DEF e

\* A table that is emptied under the backup's transaction has not been counted.
LEMMA ReplacesKeeps == RestoreInv /\ (\E t \in Tables : ClientReplaces(t)) => RestoreInv'
<1> SUFFICES ASSUME RestoreInv, NEW t \in Tables, ClientReplaces(t) PROVE RestoreInv'
  OBVIOUS
<1>1. Types /\ BackingUp /\ source \in Databases /\ work \in Works /\ work.snap \in Databases
  BY DEF RestoreInv, Types, Works
<1>2. UNCHANGED <<clock, bucket, pc, restore>> /\ source' \in Databases
  BY <1>1, WithTableIs DEF ClientReplaces
<1>3. CASE UNCHANGED work
  BY <1>1, <1>2, <1>3, ZenonT(60)
  DEF RestoreInv, Types, restore, BackingUp, Restored, Filling, Comparing, Within, Quiet, Found, Sum, VerifiedIsWhole,
      CleanRestoreVerifies, OnlyThatBackup
<1>4. CASE ~UNCHANGED work
  <2> DEFINE e == WithTable(work.snap, t, 0)
  <2>1. /\ pc \in {"tables", "objects", "dump"} /\ t \in DOMAIN work.snap.rows /\ t \notin Locked
        /\ work' = [work EXCEPT !.snap = e]
    BY <1>4 DEF ClientReplaces
  <2>2. e \in Databases /\ e.objects = work.snap.objects
    BY <1>1, WithTableIs, SMT
  <2>3. pc \in {"objects", "dump"} =>
          FirstTables(e.rows) = FirstTables(work.snap.rows) /\ Truncated(e.rows) = Truncated(work.snap.rows)
    BY <1>1, <2>1, RecordStays DEF Locked, BackingUp
  <2> HIDE DEF e
  <2>4. Types'
    BY <1>1, <1>2, <2>1, <2>2 DEF Types, Works, restore
  <2>5. work'.snap = e /\ UNCHANGED <<work.tables, work.truncated, work.objects>>
    BY <1>1, <2>1 DEF Works
  <2>6. BackingUp'
    BY <1>1, <1>2, <2>1, <2>2, <2>3, <2>5 DEF BackingUp
  <2> QED
    BY <1>2, <2>1, <2>4, <2>6, Aside DEF Restoring
<1> QED
  BY <1>3, <1>4

\* A new database holds nothing that is not in the backup.
LEMMA EmptyIsWithin ==
    ASSUME NEW m \in Manifests
    PROVE  LET e == Empty(0) IN
           /\ DOMAIN e.rows \subseteq DOMAIN m.sum.rows /\ (\A t \in DOMAIN e.rows : e.rows[t] <= m.sum.rows[t])
           /\ e.objects <= m.sum.objects
BY ManifestHas, EmptyIs, SMT DEF Databases

LEMMA StartKeeps == RestoreInv /\ (\E d \in Dirs : StartRestore(d)) => RestoreInv'
<1> SUFFICES ASSUME RestoreInv, NEW d \in Dirs, StartRestore(d) PROVE RestoreInv'
  OBVIOUS
<1>1. Types'
  BY BlankIs, EmptyIs DEF RestoreInv, StartRestore, Types, Works
<1>2. OnlyThatBackup'
  BY EmptyIsWithin DEF RestoreInv, Types, StartRestore, OnlyThatBackup
<1> QED
  BY <1>1, <1>2, BlankIs
  DEF RestoreInv, StartRestore, BackingUp, Restored, Quiet, Restoring, Filling, Comparing, VerifiedIsWhole,
      CleanRestoreVerifies, Blank

LEMMA ReadKeeps == RestoreInv /\ ReadManifest => RestoreInv'
<1> SUFFICES ASSUME RestoreInv, ReadManifest PROVE RestoreInv'
  OBVIOUS
<1>1. pc = "preparing" /\ target = Empty(0) /\ ~touched /\ ~flawed /\ result = "none" /\ Quiet /\ work.ok
  BY DEF RestoreInv, ReadManifest, Restored, Restoring
<1>2. manifest' \in Manifests /\ UNCHANGED <<clock, source, bucket, target, touched, flawed>>
  BY DEF RestoreInv, ReadManifest, Types, Works
<1>3. /\ result' \in {"none", "error"} /\ pc' \in {"download", "idle"} /\ work' \in {work, Blank}
      /\ pc' = "download" => UNCHANGED <<work, result>>
  BY <1>1 DEF ReadManifest, Go, Refuse, Stop
<1>4. Types'
  BY <1>2, <1>3, BlankIs DEF RestoreInv, Types
<1>5. OnlyThatBackup'
  BY <1>1, <1>2, EmptyIsWithin DEF OnlyThatBackup
<1> QED
  BY <1>1, <1>2, <1>3, <1>4, <1>5
  DEF RestoreInv, BackingUp, Restored, Quiet, Restoring, Filling, Comparing, VerifiedIsWhole, CleanRestoreVerifies

LEMMA DownloadKeeps == RestoreInv /\ Download => RestoreInv'
<1> SUFFICES ASSUME RestoreInv, Download PROVE RestoreInv'
  OBVIOUS
<1>1. pc = "download" /\ target = Empty(0) /\ ~touched /\ ~flawed /\ result = "none" /\ Quiet /\ work.ok
  BY DEF RestoreInv, Download, Restored, Restoring
<1>2. UNCHANGED <<clock, source, bucket, manifest, target, touched, flawed>>
  BY DEF Download
<1>3. \/ result' = "error" /\ pc' = "idle" /\ work' = Blank
      \/ /\ UNCHANGED result /\ pc' = "create_project"
         /\ work' = [work EXCEPT !.archive = manifest.sum]
  BY DEF Download, Refuse, Stop, ArchiveMatches
<1>4. Types'
  BY <1>2, <1>3, BlankIs, ManifestHas DEF RestoreInv, Types, Works
<1> QED
  BY <1>1, <1>2, <1>3, <1>4
  DEF RestoreInv, Types, Works, BackingUp, Restored, Quiet, Sum, Restoring, Filling, Comparing, VerifiedIsWhole,
      CleanRestoreVerifies, OnlyThatBackup

LEMMA CreateKeeps == RestoreInv /\ CreateProject => RestoreInv'
<1> SUFFICES ASSUME RestoreInv, CreateProject PROVE RestoreInv'
  OBVIOUS
<1>1. /\ pc = "create_project" /\ ~touched /\ ~flawed /\ result = "none" /\ Quiet /\ work.ok
      /\ work.archive = manifest.sum
  BY DEF RestoreInv, CreateProject, Restored, Restoring, Sum
<1>2. /\ manifest \in Manifests /\ manifest.sum \in Databases /\ DOMAIN manifest.sum.rows \in SUBSET Tables
      /\ manifest.sum.version \in Nat /\ manifest.sum.objects \in Nat
  BY ManifestHas, RowsHave DEF RestoreInv, Types, Databases
<1>3. /\ target' \in Databases /\ DOMAIN target'.rows = {} /\ target'.objects = 0
      /\ target'.version = manifest.sum.version
  BY <1>1, <1>2, EmptyIs DEF CreateProject
<1>4. /\ UNCHANGED <<clock, source, bucket, manifest, touched, flawed, result>> /\ pc' = "restore"
      /\ work' = [work EXCEPT !.todo = DOMAIN manifest.sum.rows]
  BY <1>1 DEF CreateProject
<1>5. Types'
  BY <1>2, <1>3, <1>4 DEF RestoreInv, Types, Works
<1>6. Restored' /\ BackingUp' /\ Comparing' /\ VerifiedIsWhole' /\ CleanRestoreVerifies'
  BY <1>1, <1>4 DEF RestoreInv, Types, Works, Restored, Sum, Restoring, BackingUp, Comparing, VerifiedIsWhole,
                    CleanRestoreVerifies
<1>7. Filling' /\ OnlyThatBackup'
  BY <1>1, <1>2, <1>3, <1>4, SMT DEF RestoreInv, Types, Works, Filling, Within, Quiet, Sum, OnlyThatBackup
<1> QED
  BY <1>5, <1>6, <1>7 DEF RestoreInv

LEMMA TouchesKeeps == RestoreInv /\ ClientTouches => RestoreInv'
<1> SUFFICES ASSUME RestoreInv, ClientTouches PROVE RestoreInv'
  OBVIOUS
<1>1. target' \in Databases
  BY ChangedIs DEF RestoreInv, Types, ClientTouches
<1>2. Types'
  BY <1>1 DEF RestoreInv, Types, ClientTouches
<1> QED
  BY <1>2
  DEF RestoreInv, ClientTouches, BackingUp, Restored, Sum, Filling, Comparing, VerifiedIsWhole, CleanRestoreVerifies,
      OnlyThatBackup

LEMMA StopKeeps == RestoreInv /\ JobStops => RestoreInv'
<1> SUFFICES ASSUME RestoreInv, JobStops PROVE RestoreInv'
  OBVIOUS
<1>1. Types'
  BY BlankIs DEF RestoreInv, Types, JobStops, Stop
<1> QED
  BY <1>1
  DEF RestoreInv, JobStops, Stop, BackingUp, Restored, Restoring, Filling, Comparing, VerifiedIsWhole,
      CleanRestoreVerifies, OnlyThatBackup

\* What every step of a restore knows of its manifest and its two databases.
LEMMA Known ==
    ASSUME RestoreInv
    PROVE  /\ manifest \in Manifests /\ manifest.sum \in Databases /\ target \in Databases /\ work \in Works
           /\ DOMAIN manifest.sum.rows \in SUBSET Tables /\ manifest.sum.rows \in [DOMAIN manifest.sum.rows -> Nat]
           /\ DOMAIN target.rows \in SUBSET Tables /\ target.rows \in [DOMAIN target.rows -> Nat]
           /\ target.objects \in Nat /\ target.version \in Nat /\ manifest.sum.objects \in Nat
           /\ manifest.sum.version \in Nat
<1>1. manifest \in Manifests /\ target \in Databases /\ work \in Works
  BY DEF RestoreInv, Types
<1>2. manifest.sum \in Databases
  BY <1>1, ManifestHas
<1> QED
  BY <1>1, <1>2, RowsHave DEF Databases

\* A complaint is remembered and changes nothing else.
LEMMA ComplainsIs ==
    ASSUME NEW w \in Works, NEW v \in Complains(w)
    PROVE  v \in Works /\ v.errors = 1 /\ v.todo = w.todo /\ v.ok = w.ok /\ v.archive = w.archive
BY DEF Complains, Works

\* pg_restore creates a table whole, finds one a client made, or loses part of it.
LEMMA RestoreTableKeeps == RestoreInv /\ (\E t \in Tables : RestoreTable(t)) => RestoreInv'
<1> SUFFICES ASSUME RestoreInv, NEW t \in Tables, RestoreTable(t) PROVE RestoreInv'
  OBVIOUS
<1> DEFINE w == [work EXCEPT !.todo = @ \ {t}]
           n == manifest.sum.rows[t]
<1>1. /\ pc = "restore" /\ pc' = "restore" /\ t \in work.todo /\ t \in DOMAIN manifest.sum.rows
      /\ work.todo \subseteq DOMAIN manifest.sum.rows /\ work.archive = manifest.sum /\ result = "none"
      /\ UNCHANGED <<clock, source, bucket, manifest, touched, result>>
  BY DEF RestoreInv, RestoreTable, Restored, Restoring, Sum
<1>2. work' \in {w} \cup Complains(w)
  BY DEF RestoreTable
<1>3. /\ work' \in Works /\ work'.todo = work.todo \ {t} /\ work'.ok = work.ok /\ work'.archive = work.archive
  <2>1. work \in Works
    BY Known
  <2>2. w \in Works /\ w.todo = work.todo \ {t} /\ w.ok = work.ok /\ w.archive = work.archive
    BY <2>1 DEF Works
  <2> HIDE DEF w
  <2> QED
    BY <1>2, <2>2, ComplainsIs
<1>4. Restored' /\ BackingUp' /\ Comparing' /\ VerifiedIsWhole' /\ CleanRestoreVerifies'
  BY <1>1, <1>3 DEF Restored, Restoring, Sum, BackingUp, Comparing, VerifiedIsWhole, CleanRestoreVerifies
<1>5. ASSUME touched, target' \in Databases, flawed' \in BOOLEAN
      PROVE  RestoreInv'
  BY <1>1, <1>3, <1>4, <1>5 DEF RestoreInv, Types, Filling, OnlyThatBackup
<1>6. Counts \in SUBSET Nat
  BY RestoreAssumption, SMT DEF Counts
<1>7. CASE touched
  <2>1. flawed' \in BOOLEAN
    BY DEF RestoreInv, Types, RestoreTable
  <2>2. target' \in Databases
    <3>1. n \in Nat
      BY <1>1, Known
    <3>2. target' = target \/ \E k \in Nat : target' = WithTable(target, t, k)
      BY <1>1, <1>6, <3>1, Known, SMT DEF RestoreTable
    <3> QED
      BY <3>2, Known, WithTableIs, SMTT(20)
  <2> QED
    BY <1>5, <1>7, <2>1, <2>2
<1>8. CASE ~touched
  <2>1. /\ t \in DOMAIN manifest.sum.rows /\ t \notin DOMAIN target.rows /\ n \in Nat
        /\ target.objects = 0 /\ target.version = manifest.sum.version
    BY <1>1, <1>8, Known DEF RestoreInv, Filling, Sum
  <2>2. \/ /\ target' = WithTable(target, t, n) /\ work' = w /\ UNCHANGED flawed
        \/ /\ flawed' = TRUE
           /\ target' = target \/ \E k \in Nat : k <= n /\ target' = WithTable(target, t, k)
    <3>1. \A k \in Nat : k < n => k <= n
      BY <2>1, SMT
    <3> QED
      BY <1>1, <1>6, <2>1, <3>1 DEF RestoreTable
  <2>3. CASE target' = target /\ flawed' = TRUE
    BY <1>1, <1>3, <1>4, <1>8, <2>1, <2>3
    DEF RestoreInv, Types, Filling, Within, Sum, OnlyThatBackup
  <2>4. ASSUME NEW k \in Nat, k <= n, target' = WithTable(target, t, k),
               flawed' = TRUE \/ (k = n /\ work' = w /\ UNCHANGED flawed)
        PROVE  RestoreInv'
    <3>1. /\ target' \in Databases /\ target'.objects = 0 /\ target'.version = manifest.sum.version
          /\ DOMAIN target'.rows = DOMAIN target.rows \cup {t} /\ target'.rows[t] = k
          /\ \A u \in DOMAIN target.rows : target'.rows[u] = target.rows[u]
      <4> DEFINE e == WithTable(target, t, k)
      <4>0. target \in Databases
        BY Known
      <4>1. /\ e \in Databases /\ e.objects = target.objects /\ e.version = target.version
            /\ DOMAIN e.rows = DOMAIN target.rows \cup {t} /\ e.rows[t] = k
            /\ \A u \in DOMAIN target.rows \ {t} : e.rows[u] = target.rows[u]
        BY <4>0, WithTableIs
      <4> HIDE DEF e
      <4>2. target' = e
        BY <2>4 DEF e
      <4> QED
        BY <2>1, <4>1, <4>2
    <3>2. Types'
      BY <1>1, <1>3, <2>4, <3>1 DEF RestoreInv, Types
    <3>3. Filling'
      BY <1>1, <1>3, <1>8, <2>1, <2>4, <3>1, Known, SMT DEF RestoreInv, Filling, Within, Quiet, Sum, Works
    <3>4. OnlyThatBackup'
      BY <1>1, <1>8, <2>1, <2>4, <3>1, Known, SMT DEF RestoreInv, Filling, Within, Sum, OnlyThatBackup
    <3> QED
      BY <1>4, <3>2, <3>3, <3>4 DEF RestoreInv
  <2>5. n <= n
    BY <2>1, SMT
  <2> QED
    BY <2>1, <2>2, <2>3, <2>4, <2>5
<1> QED
  BY <1>7, <1>8

\* The other objects: all of them, all but one, or something nothing counts is
\* lost with a complaint.
LEMMA RestoreObjectsKeeps == RestoreInv /\ RestoreObjects => RestoreInv'
<1> SUFFICES ASSUME RestoreInv, RestoreObjects PROVE RestoreInv'
  OBVIOUS
<1> DEFINE w == [work EXCEPT !.todo = DOMAIN manifest.tables]
           n == target.objects + manifest.sum.objects
<1>1. /\ pc = "restore" /\ pc' = "verify" /\ work.todo = {} /\ work.archive = manifest.sum /\ result = "none"
      /\ UNCHANGED <<clock, source, bucket, manifest, touched, result>>
  BY DEF RestoreInv, RestoreObjects, Restored, Restoring, Sum
<1>2. \/ target' = [target EXCEPT !.objects = n] /\ work' = w /\ UNCHANGED flawed
      \/ n > 0 /\ flawed' = TRUE /\ work' \in {w} \cup Complains(w) /\ target' = [target EXCEPT !.objects = n - 1]
      \/ /\ flawed' = TRUE /\ work' \in Complains(w)
         /\ target' = [target EXCEPT !.objects = n, !.version = @ + 1]
  BY <1>1 DEF RestoreObjects
<1>3. n \in Nat /\ (n > 0 => n - 1 \in Nat)
  BY Known, SMT
<1>4. /\ target' \in Databases /\ target'.rows = target.rows /\ target'.objects \in Nat /\ target'.objects <= n
      /\ flawed' \in BOOLEAN
  <2>1. target \in Databases /\ flawed \in BOOLEAN
    BY DEF RestoreInv, Types
  <2>2. flawed' \in BOOLEAN
    BY <1>2, <2>1
  <2>3. PICK k \in Nat, v \in Nat : k <= n /\ target' = [target EXCEPT !.objects = k, !.version = v]
    <3>1. target.version \in Nat /\ target.version + 1 \in Nat
      BY Known, SMT
    <3>2. target = [target EXCEPT !.version = target.version]
      BY <2>1 DEF Databases
    <3>3. n <= n /\ (n > 0 => n - 1 <= n)
      BY <1>3, SMT
    <3> HIDE DEF n
    <3>4. CASE target' = [target EXCEPT !.objects = n]
      BY <1>3, <2>1, <3>1, <3>3, <3>4 DEF Databases
    <3>5. CASE n > 0 /\ target' = [target EXCEPT !.objects = n - 1]
      BY <1>3, <2>1, <3>1, <3>3, <3>5 DEF Databases
    <3>6. CASE target' = [target EXCEPT !.objects = n, !.version = @ + 1]
      BY <1>3, <2>1, <3>1, <3>3, <3>6 DEF Databases
    <3> QED
      BY <1>2, <3>4, <3>5, <3>6
  <2> HIDE DEF n
  <2> QED
    BY <2>1, <2>2, <2>3 DEF Databases
<1>5. DOMAIN manifest.tables \in SUBSET Tables
  BY Known, ManifestHas
<1>6. work' \in Works /\ work'.todo = DOMAIN manifest.tables /\ work'.ok = work.ok
  <2>1. w \in Works /\ w.todo = DOMAIN manifest.tables /\ w.ok = work.ok
    BY <1>5, Known DEF Works
  <2> HIDE DEF w
  <2> QED
    BY <1>2, <2>1, ComplainsIs
<1>7. Types' /\ Restored' /\ BackingUp' /\ Filling' /\ VerifiedIsWhole' /\ CleanRestoreVerifies'
  BY <1>1, <1>4, <1>6
  DEF RestoreInv, Types, Restored, Restoring, BackingUp, Filling, VerifiedIsWhole, CleanRestoreVerifies
<1>8. CASE touched
  BY <1>1, <1>7, <1>8 DEF RestoreInv, Comparing, OnlyThatBackup
<1>9. CASE ~touched
  <2>1. /\ n = manifest.sum.objects /\ target.version = manifest.sum.version /\ work.ok
        /\ DOMAIN target.rows \subseteq DOMAIN manifest.sum.rows
        /\ \A t \in DOMAIN target.rows : target.rows[t] <= manifest.sum.rows[t]
    BY <1>1, <1>9, Known, SMT DEF RestoreInv, Filling, Within, Sum
  <2>2. ASSUME ~flawed'
        PROVE  target' = manifest.sum /\ work' = w /\ Quiet
    <3>1. /\ Quiet /\ DOMAIN target.rows = DOMAIN manifest.sum.rows
          /\ \A t \in DOMAIN target.rows : target.rows[t] = manifest.sum.rows[t]
      BY <1>1, <1>2, <1>9, <2>2 DEF RestoreInv, Filling, Sum
    <3>2. /\ work' = w /\ target'.objects = manifest.sum.objects /\ target'.version = manifest.sum.version
      BY <1>2, <2>1, <2>2, Known DEF Databases
    <3>3. target' \in Databases /\ manifest.sum \in Databases /\ target'.rows = target.rows
      BY <1>4, Known
    <3> QED
      BY <2>1, <3>1, <3>2, <3>3, Alike, SMT
  <2>3. /\ DOMAIN target'.rows \subseteq DOMAIN manifest.sum.rows
        /\ \A t \in DOMAIN target'.rows : target'.rows[t] <= manifest.sum.rows[t]
        /\ target'.objects <= manifest.sum.objects
    BY <1>4, <2>1
  <2>4. OnlyThatBackup'
    BY <1>1, <2>2, <2>3 DEF OnlyThatBackup
  <2>5. Quiet' => target'.version = manifest.sum.version
    <3>1. work' \in Complains(w) => ~Quiet'
      <4>1. w \in Works
        BY <1>5, Known DEF Works
      <4> HIDE DEF w
      <4> QED
        BY <4>1, ComplainsIs, SMT DEF Quiet
    <3>2. target' = [target EXCEPT !.objects = n] \/ target' = [target EXCEPT !.objects = n - 1] =>
            target'.version = target.version
      BY Known DEF Databases
    <3> HIDE DEF w, n
    <3> QED
      BY <1>2, <2>1, <3>1, <3>2
  <2>6. ~flawed' => Quiet'
    BY <2>2, Known DEF Quiet, Works
  <2>7. Comparing'
    BY <1>1, <1>6, <2>1, <2>2, <2>3, <2>5, <2>6 DEF Comparing, Within, Sum
  <2> QED
    BY <1>7, <2>4, <2>7 DEF RestoreInv
<1> QED
  BY <1>8, <1>9

\* One table is compared.
LEMMA VerifyTableKeeps == RestoreInv /\ (\E t \in Tables : VerifyTable(t)) => RestoreInv'
<1> SUFFICES ASSUME RestoreInv, NEW t \in Tables, VerifyTable(t) PROVE RestoreInv'
  OBVIOUS
<1>1. /\ pc = "verify" /\ pc' = "verify" /\ t \in work.todo /\ work.todo \subseteq DOMAIN manifest.tables
      /\ UNCHANGED <<clock, source, bucket, manifest, target, touched, flawed, result>>
      /\ work' = [work EXCEPT !.todo = @ \ {t}, !.ok = @ /\ Found(t)]
  BY DEF VerifyTable, restore, Found, RestoreInv, Restored
<1>2. /\ work' \in Works /\ work'.todo = work.todo \ {t} /\ work'.ok = (work.ok /\ Found(t))
      /\ work'.errors = work.errors /\ work'.exit = work.exit
  <2>1. Found(t) \in BOOLEAN
    BY DEF Found
  <2> HIDE DEF Found
  <2> QED
    BY <1>1, <2>1, Known DEF Works
<1>3. Types' /\ Restored' /\ BackingUp' /\ Filling' /\ VerifiedIsWhole' /\ CleanRestoreVerifies' /\ OnlyThatBackup'
  BY <1>1, <1>2
  DEF RestoreInv, Types, Restored, Restoring, BackingUp, Filling, VerifiedIsWhole, CleanRestoreVerifies, OnlyThatBackup
<1>4. CASE touched
  BY <1>1, <1>3, <1>4 DEF RestoreInv, Comparing
<1>5. CASE ~touched
  <2>1. /\ Within /\ (Quiet => target.version = manifest.sum.version)
        /\ (~flawed => target = manifest.sum /\ Quiet /\ work.ok)
        /\ (work.ok => \A u \in DOMAIN manifest.tables \ work.todo : Found(u))
    BY <1>1, <1>5 DEF RestoreInv, Comparing, Sum
  <2>2. Within' /\ Quiet' = Quiet /\ \A u : Found(u)' = Found(u)
    BY <1>1, <1>2, <2>1 DEF Within, Sum, Quiet, Found
  <2>3. ASSUME ~flawed PROVE Found(t)
    BY <1>1, <2>1, <2>3, Known, ManifestHas, SMT DEF Found
  <2> QED
    BY <1>1, <1>2, <1>3, <2>1, <2>2, <2>3 DEF RestoreInv, Comparing, Sum
<1> QED
  BY <1>4, <1>5

\* The objects are compared, when the manifest has them.
LEMMA VerifyObjectsKeeps == RestoreInv /\ VerifyObjects => RestoreInv'
<1> SUFFICES ASSUME RestoreInv, VerifyObjects PROVE RestoreInv'
  OBVIOUS
<1> DEFINE Same == \A n \in manifest.objects : target.objects = n
           Full == ~manifest.truncated /\ manifest.objects # {}
<1>1. /\ pc = "verify" /\ pc' = "conclude" /\ work.todo = {} /\ result = "none"
      /\ UNCHANGED <<clock, source, bucket, manifest, target, touched, flawed, result>>
      /\ work' = [work EXCEPT !.ok = @ /\ Same, !.full = Full]
  BY DEF VerifyObjects, restore, RestoreInv, Restored, Restoring
<1>2. Same \in BOOLEAN /\ Full \in BOOLEAN
  OBVIOUS
<1> HIDE DEF Same, Full
<1>3. /\ work' \in Works /\ work'.ok = (work.ok /\ Same) /\ work'.full = Full
      /\ work'.errors = work.errors /\ work'.exit = work.exit
  BY <1>1, <1>2, Known DEF Works
<1>4. Types' /\ Restored' /\ BackingUp' /\ Filling' /\ VerifiedIsWhole' /\ CleanRestoreVerifies' /\ OnlyThatBackup'
  BY <1>1, <1>3
  DEF RestoreInv, Types, Restored, Restoring, BackingUp, Filling, VerifiedIsWhole, CleanRestoreVerifies, OnlyThatBackup
<1>5. CASE touched
  BY <1>1, <1>4, <1>5 DEF RestoreInv, Comparing
<1>6. CASE ~touched
  <2>1. /\ Within /\ (Quiet => target.version = manifest.sum.version)
        /\ (~flawed => target = manifest.sum /\ Quiet /\ work.ok)
        /\ (work.ok => \A u \in DOMAIN manifest.tables : Found(u))
    BY <1>1, <1>6 DEF RestoreInv, Comparing, Sum
  <2>2. Within' /\ Quiet' = Quiet /\ \A u : Found(u)' = Found(u)
    BY <1>1, <1>3, <2>1 DEF Within, Sum, Quiet, Found
  <2>3. ~flawed => Same
    BY <2>1, Known, ManifestHas, SMT DEF Same
  <2>4. (work'.ok => \A n \in manifest'.objects : target'.objects = n)
         /\ work'.full = (~manifest'.truncated /\ manifest'.objects # {})
    <3>1. work'.ok => Same
      BY <1>2, <1>3, Known DEF Works
    <3>2. manifest' = manifest /\ target' = target
      BY <1>1
    <3>3. Full = (~manifest.truncated /\ manifest.objects # {})
      BY DEF Full
    <3>4. work'.full = (~manifest'.truncated /\ manifest'.objects # {})
      BY <1>3, <3>2, <3>3
    <3> QED
      BY <3>1, <3>2, <3>4 DEF Same
  <2> QED
    BY <1>1, <1>3, <1>4, <2>1, <2>2, <2>3, <2>4 DEF RestoreInv, Comparing, Sum
<1> QED
  BY <1>5, <1>6

\* The answer: counts that agree in all tables and objects, within what the
\* archive holds and without a complaint, leave only that archive.
LEMMA ConcludeKeeps == RestoreInv /\ Conclude => RestoreInv'
<1> SUFFICES ASSUME RestoreInv, Conclude PROVE RestoreInv'
  OBVIOUS
<1>1. PICK owned \in BOOLEAN :
        /\ IF owned THEN UNCHANGED flawed ELSE flawed' = TRUE
        /\ result' = CASE Reported \/ ~work.ok \/ ~owned -> "failed"
                       [] ~work.full                     -> "partial"
                       [] OTHER                          -> "verified"
  BY DEF Conclude, Spend
<1>2. /\ pc = "conclude" /\ pc' = "idle" /\ work' = Blank
      /\ UNCHANGED <<clock, source, bucket, manifest, target, touched>>
  BY DEF Conclude, Stop
<1>3. flawed \in BOOLEAN /\ flawed' \in BOOLEAN /\ work.ok \in BOOLEAN /\ work.full \in BOOLEAN
  BY <1>1, Known DEF RestoreInv, Types, Works
<1>4. Types' /\ Restored' /\ BackingUp' /\ Filling' /\ Comparing'
  BY <1>2, <1>3, BlankIs
  DEF RestoreInv, Types, Restored, Restoring, BackingUp, Filling, Comparing
<1>5. CASE touched
  BY <1>2, <1>4, <1>5 DEF RestoreInv, VerifiedIsWhole, CleanRestoreVerifies, OnlyThatBackup
<1>6. CASE ~touched
  <2>1. /\ Within /\ (Quiet => target.version = manifest.sum.version)
        /\ (~flawed => target = manifest.sum /\ Quiet /\ work.ok)
        /\ (work.ok => \A u \in DOMAIN manifest.tables : Found(u))
        /\ (work.ok => \A n \in manifest.objects : target.objects = n)
        /\ work.full = (~manifest.truncated /\ manifest.objects # {})
    BY <1>2, <1>6 DEF RestoreInv, Comparing, Sum
  <2>2. ~Reported => Quiet
    BY Known, SMT DEF Reported, Quiet, Works
  <2>3. Quiet => ~Reported
    BY SMT DEF Reported, Quiet
  <2>4. ASSUME result' = "verified" PROVE target = manifest.sum
    <3>1. Quiet /\ work.ok /\ work.full
      BY <1>1, <1>3, <2>2, <2>4
    <3>2. DOMAIN manifest.tables = DOMAIN manifest.sum.rows
      BY <2>1, <3>1, Known, ManifestHas
    <3>3. DOMAIN target.rows = DOMAIN manifest.sum.rows
      BY <2>1, <3>1, <3>2 DEF Found, Within, Sum
    <3>4. \A t \in DOMAIN manifest.sum.rows : target.rows[t] = manifest.sum.rows[t]
      BY <2>1, <3>1, <3>2, Known, ManifestHas DEF Found
    <3>5. target.objects = manifest.sum.objects
      BY <2>1, <3>1, Known, ManifestHas
    <3> QED
      BY <2>1, <3>1, <3>3, <3>4, <3>5, Known, Alike
  <2>5. CleanRestoreVerifies'
    BY <1>1, <1>2, <1>3, <2>1, <2>3 DEF CleanRestoreVerifies
  <2>6. OnlyThatBackup'
    BY <1>1, <1>2, <1>3 DEF RestoreInv, OnlyThatBackup
  <2> QED
    BY <1>2, <1>4, <2>4, <2>5, <2>6 DEF RestoreInv, VerifiedIsWhole
<1> QED
  BY <1>5, <1>6

(***************************************************************************)
(* The theorems.                                                           *)
(***************************************************************************)
\* Every step keeps what is known of the backup in progress, of the restore in
\* progress and of the last answer.
THEOREM RestoreStepKeeps == RestoreInv /\ [Next]_vars => RestoreInv'
<1> SUFFICES ASSUME RestoreInv, [Next]_vars PROVE RestoreInv'
  OBVIOUS
<1>1. CASE UNCHANGED vars
  BY <1>1, ZenonT(60)
  DEF vars, restore, RestoreInv, Types, BackingUp, Restored, Filling, Comparing, Within, Quiet, Found, Sum,
      VerifiedIsWhole, CleanRestoreVerifies, OnlyThatBackup
<1>2. CASE Next
  <2>1. CASE RestoreStep
    BY <2>1, ReadKeeps, DownloadKeeps, CreateKeeps, RestoreTableKeeps, RestoreObjectsKeeps, VerifyTableKeeps,
       VerifyObjectsKeeps, ConcludeKeeps DEF RestoreStep
  <2> QED
    BY <1>2, <2>1, BackupKeeps, StartKeeps, AroundKeeps, ReplacesKeeps, TouchesKeeps, StopKeeps DEF Next
<1> QED
  BY <1>1, <1>2

\* However many tables, backups, writes and faults: "verified" is said of
\* exactly the database the backup's snapshot saw (verifyRestore).
THEOREM VerifiedMeansWhole == Spec => []VerifiedIsWhole
<1>1. RestoreInv => VerifiedIsWhole
  BY DEF RestoreInv
<1> QED
  BY <1>1, RestoreBegins, RestoreStepKeeps, PTL DEF Spec

\* ... a restore in which nothing went wrong is never called failed
\* (runBackup's counts are those of the dump) ...
THEOREM CleanIsVerified == Spec => []CleanRestoreVerifies
<1>1. RestoreInv => CleanRestoreVerifies
  BY DEF RestoreInv
<1> QED
  BY <1>1, RestoreBegins, RestoreStepKeeps, PTL DEF Spec

\* ... and the new database holds nothing from any other archive (runRestore).
THEOREM NothingElseIsRestored == Spec => []OnlyThatBackup
<1>1. RestoreInv => OnlyThatBackup
  BY DEF RestoreInv
<1> QED
  BY <1>1, RestoreBegins, RestoreStepKeeps, PTL DEF Spec
=============================================================================
