---------------------------- MODULE BucketProofs ----------------------------
(***************************************************************************)
(* Publishing, reconciliation and retention in a shared bucket, for every  *)
(* set of hours, stores and policy and any number of crashes, failed       *)
(* calls, changes of the settings and steps of other installations.        *)
(***************************************************************************)
EXTENDS BucketRetention, WellFoundedInduction, TLAPS

\* Leaves that need arithmetic, records or many cases cite SMT.
USE Zenon

\* Nobody publishes into this directory any more: its hour is over or a job has it.
Past(t) == t < now \/ job[t] # NoJob
\* Removing the archive removes nothing of another installation's, now or later.
Safe(t) == archive[t] # "foreign" /\ manifest[t] = "none" /\ Past(t)
\* Only the records prove whose archive this is.
Orphan(t) == archive[t] = "ours" /\ manifest[t] = "none"

Uploading == {"upload", "publish", "complete", "fail"}
Removing == {"next", "check", "remove_manifest", "mark", "remove_archive", "forget", "unlist"}

BucketTypes ==
    /\ now \in Nat /\ active \in Stores /\ store \in Stores /\ todo \subseteq Times
    /\ archive \in [Times -> Owners] /\ manifest \in [Times -> Owners] /\ home \in [Times -> Stores]
    /\ view \in [Times -> RowType] /\ job \in [Times -> JobRow] /\ reconciledAt \in [Stores -> Nat]

\* A job claims the directory of the hour it began in, and its row in the view
\* appears only after the job has ended.
ClaimInOrder(t) ==
    /\ job[t] # NoJob =>
         t <= now /\ job[t].finished <= now /\ (job[t].finished = 0 \/ t <= job[t].finished)
    /\ job[t].state = "running" => view[t] = NoRow /\ (pc = "down" \/ (pc \in Uploading /\ t = dir))

DirectoryInOrder(t) ==
    /\ archive[t] = "ours" \/ manifest[t] = "ours" => Past(t)
    /\ manifest[t] = "ours" => archive[t] # "foreign"
    /\ manifest[t] = "foreign" => archive[t] = "foreign"
    /\ archive[t] = "foreign" /\ manifest[t] = "none" => job[t] = NoJob
    /\ view[t].deleting => Past(t) /\ (archive[t] = "foreign" => manifest[t] # "none")
    /\ Past(t) \/ archive[t] = "foreign" \/ view[t] = NoRow

\* A row for an archive alone may be stale, but not where retention acts on it;
\* and once a store was reconciled after a job failed, the view shows its archive.
RowInOrder(t) ==
    /\ view[t].state = "archive_only" /\ (view[t].deleting \/ job[t].state = "failed") => Safe(t)
    /\ Orphan(t) => job[t].state \in {"running", "failed"} \/ view[t].deleting
    /\ Orphan(t) /\ job[t].state = "failed" /\ ~view[t].deleting /\ reconciledAt[home[t]] > job[t].finished
         => view[t].state = "archive_only"

UploadInOrder(t) ==
    t = dir /\ pc \in Uploading =>
      /\ job[t].state = "running"
      /\ pc \in {"upload", "publish"} => manifest[t] = "none" /\ archive[t] # "foreign"
      /\ pc = "publish" => archive[t] = "ours"
      /\ pc = "complete" => ~Orphan(t)

ListingInOrder(t) ==
    /\ pc = "record" =>
         /\ home[t] = store /\ Orphan(t) => listing[t] = "archive_only"
         /\ listing[t] = "archive_only" /\ (view[t].deleting \/ job[t].state = "failed") => Safe(t)
         /\ Past(t) \/ archive[t] = "foreign" \/ listing[t] = "absent"
    /\ pc = "settle" /\ home[t] = store /\ Orphan(t) => view[t].state = "archive_only"

RetentionInOrder(t) ==
    /\ pc \in Removing =>
         /\ plan[t].state = "archive_only" /\ job[t].state = "failed" => Safe(t)
         /\ phase = "finish" /\ plan[t].state = "complete" => view[t].state # "archive_only"
         /\ t \in todo => IF phase = "expire" THEN view[t].state # "archive_only" ELSE Safe(t)
    /\ t = dir =>
         /\ pc \in {"check", "remove_manifest", "mark"} => phase = "expire" /\ t \notin todo
         /\ pc = "check" => view[t].state # "archive_only"
         /\ pc = "remove_manifest" =>
              view[t].deleting /\ view[t].state # "archive_only" /\ manifest[t] # "foreign" /\ archive[t] # "foreign"
         /\ pc \in {"mark", "remove_archive"} => Safe(t)
         /\ pc = "forget" => archive[t] # "ours"

BucketInvariant ==
    /\ BucketTypes /\ \A s \in Stores : reconciledAt[s] <= now
    /\ \A t \in Times : /\ ClaimInOrder(t) /\ DirectoryInOrder(t) /\ RowInOrder(t)
                        /\ UploadInOrder(t) /\ ListingInOrder(t) /\ RetentionInOrder(t)

LEMMA RowFields ==
    /\ NoRow \in RowType /\ NoRow.state = "absent" /\ ~NoRow.deleting /\ NoRow.owner = "none"
    /\ NoJob \in JobRow /\ NoJob.state = "none" /\ NoJob.finished = 0
  <1>1. NoRow \in RowType
    BY DEF NoRow, RowType, EntryStates, Owners
  <1>2. NoRow.state = "absent" /\ ~NoRow.deleting /\ NoRow.owner = "none"
    BY DEF NoRow
  <1>3. NoJob \in JobRow /\ NoJob.state = "none" /\ NoJob.finished = 0
    BY DEF NoJob, JobRow
  <1> QED
    BY <1>1, <1>2, <1>3

\* What the policy expires is some of what it was asked about.
LEMMA ExpiresSome ==
    ASSUME NEW S, NEW p, NEW at
    PROVE  SelectExpired(S, p, at) \subseteq S
  BY DEF SelectExpired

LEMMA BucketInit ==
    ASSUME Init
    PROVE  BucketInvariant
  <1>1. now \in Nat /\ active \in Stores
    BY TimesAssumption DEF Init
  <1>2. BucketTypes
    <2>1. archive \in [Times -> Owners] /\ manifest \in [Times -> Owners] /\ home \in [Times -> Stores]
      BY <1>1 DEF Init, Owners
    <2>2. view \in [Times -> RowType] /\ job \in [Times -> JobRow] /\ reconciledAt \in [Stores -> Nat]
      BY RowFields DEF Init
    <2>3. store \in Stores /\ todo \subseteq Times
      BY <1>1 DEF Init
    <2> QED
      BY <1>1, <2>1, <2>2, <2>3 DEF BucketTypes
  <1>3. /\ \A s \in Stores : reconciledAt[s] = 0
        /\ \A t \in Times : archive[t] = "none" /\ manifest[t] = "none" /\ view[t] = NoRow /\ job[t] = NoJob
        /\ pc = "down"
    BY DEF Init
  <1> SUFFICES ASSUME NEW t \in Times
               PROVE  /\ ClaimInOrder(t) /\ DirectoryInOrder(t) /\ RowInOrder(t)
                      /\ UploadInOrder(t) /\ ListingInOrder(t) /\ RetentionInOrder(t)
    BY <1>1, <1>2, <1>3, SMT DEF BucketInvariant
  <1>4. ClaimInOrder(t) /\ DirectoryInOrder(t) /\ RowInOrder(t)
    BY <1>3, RowFields DEF ClaimInOrder, DirectoryInOrder, RowInOrder, Orphan
  <1>5. UploadInOrder(t) /\ ListingInOrder(t) /\ RetentionInOrder(t)
    BY <1>3 DEF UploadInOrder, ListingInOrder, RetentionInOrder, Uploading, Removing
  <1> QED
    BY <1>4, <1>5

\* Between two pieces of work nothing is promised about the worker's locals.
Resting == {"idle", "down", "list", "prune"}

LEMMA AtRest ==
    ASSUME pc' \in Resting, NEW t
    PROVE  UploadInOrder(t)' /\ ListingInOrder(t)' /\ RetentionInOrder(t)'
  BY DEF Resting, UploadInOrder, ListingInOrder, RetentionInOrder, Uploading, Removing

LEMMA RowFacts ==
    ASSUME BucketInvariant, NEW t \in Times
    PROVE  /\ view[t] \in RowType /\ job[t] \in JobRow /\ job[t].finished \in Nat /\ home[t] \in Stores
           /\ archive[t] \in Owners /\ manifest[t] \in Owners /\ reconciledAt[home[t]] \in Nat /\ now \in Nat
           /\ t \in Nat \ {0}
  BY TimesAssumption DEF BucketInvariant, BucketTypes, JobRow

\* GoTo leaves the store of a pass alone or takes the one the settings name.
LEMMA GoesTo ==
    ASSUME BucketTypes, NEW s, GoTo(s)
    PROVE  /\ pc' = s /\ store' \in Stores /\ todo' \subseteq Times
           /\ s \notin {"idle", "down", "list"} => UNCHANGED <<phase, store, dir, listing, plan, todo>>
  BY DEF BucketTypes, GoTo

\* A directory in which nothing changes, while time passes and the worker moves.
LEMMA SameDirectory ==
    ASSUME BucketInvariant, now' \in Nat, now <= now', UNCHANGED reconciledAt, NEW t \in Times,
           archive'[t] = archive[t], manifest'[t] = manifest[t], home'[t] = home[t], view'[t] = view[t],
           job'[t] = job[t],
           job[t].state = "running" => pc' = "down" \/ (pc' \in Uploading /\ t = dir')
    PROVE  /\ ClaimInOrder(t)' /\ DirectoryInOrder(t)' /\ RowInOrder(t)'
           /\ Past(t) => Past(t)'
           /\ Safe(t) => Safe(t)'
  <1>1. /\ ClaimInOrder(t) /\ DirectoryInOrder(t) /\ RowInOrder(t)
        /\ now \in Nat /\ t \in Nat /\ job[t].finished \in Nat
    BY RowFacts DEF BucketInvariant
  <1>2. Past(t) => Past(t)'
    BY <1>1, SMT DEF Past
  <1>3. Safe(t) => Safe(t)'
    BY <1>2 DEF Safe
  <1>4. ClaimInOrder(t)'
    BY <1>1, SMT DEF ClaimInOrder
  <1>5. DirectoryInOrder(t)'
    BY <1>1, <1>2 DEF DirectoryInOrder
  <1>6. RowInOrder(t)'
    BY <1>1, <1>3 DEF RowInOrder, Orphan
  <1> QED
    BY <1>2, <1>3, <1>4, <1>5, <1>6

\* The same, when the worker does nothing either.
LEMMA SameWorker ==
    ASSUME BucketInvariant, now' \in Nat, now <= now', UNCHANGED reconciledAt, NEW t \in Times,
           archive'[t] = archive[t], manifest'[t] = manifest[t], home'[t] = home[t], view'[t] = view[t],
           job'[t] = job[t], UNCHANGED <<pc, phase, store, dir, listing, plan, todo>>
    PROVE  /\ ClaimInOrder(t)' /\ DirectoryInOrder(t)' /\ RowInOrder(t)'
           /\ UploadInOrder(t)' /\ ListingInOrder(t)' /\ RetentionInOrder(t)'
  <1>1. job[t].state = "running" => pc' = "down" \/ (pc' \in Uploading /\ t = dir')
    BY DEF BucketInvariant, ClaimInOrder
  <1>2. /\ ClaimInOrder(t)' /\ DirectoryInOrder(t)' /\ RowInOrder(t)'
        /\ Past(t) => Past(t)'
        /\ Safe(t) => Safe(t)'
    BY <1>1, SameDirectory
  <1>3. UploadInOrder(t) /\ ListingInOrder(t) /\ RetentionInOrder(t)
    BY DEF BucketInvariant
  <1>4. UploadInOrder(t)'
    BY <1>3 DEF UploadInOrder, Orphan
  <1>5. ListingInOrder(t)'
    BY <1>2, <1>3 DEF ListingInOrder, Orphan
  <1>6. RetentionInOrder(t)'
    BY <1>2, <1>3 DEF RetentionInOrder
  <1> QED
    BY <1>2, <1>4, <1>5, <1>6

\* Time passes and the worker moves; the bucket and the records stay.
LEMMA DataStays ==
    ASSUME BucketInvariant, UNCHANGED <<archive, manifest, home, view, job, reconciledAt>>,
           now' \in Nat, now <= now', active' \in Stores, store' \in Stores, todo' \subseteq Times,
           \A t \in Times : job[t].state = "running" => pc' = "down" \/ (pc' \in Uploading /\ t = dir')
    PROVE  /\ BucketTypes' /\ \A s \in Stores : reconciledAt'[s] <= now'
           /\ \A t \in Times : /\ ClaimInOrder(t)' /\ DirectoryInOrder(t)' /\ RowInOrder(t)'
                               /\ Past(t) => Past(t)'
                               /\ Safe(t) => Safe(t)'
  <1>1. BucketTypes' /\ \A s \in Stores : reconciledAt'[s] <= now'
    BY SMT DEF BucketInvariant, BucketTypes
  <1>2. ASSUME NEW t \in Times
        PROVE  /\ ClaimInOrder(t)' /\ DirectoryInOrder(t)' /\ RowInOrder(t)'
               /\ Past(t) => Past(t)'
               /\ Safe(t) => Safe(t)'
    BY <1>2, SameDirectory
  <1> QED
    BY <1>1, <1>2

\* Steps of the clock, the settings and the update, and steps by which the worker
\* lays down its work.
LEMMA QuietBucket ==
    ASSUME BucketInvariant, UNCHANGED <<archive, manifest, home, view, job, reconciledAt>>,
           now' \in Nat, now <= now', active' \in Stores,
           \/ UNCHANGED <<pc, phase, store, dir, listing, plan, todo>>
           \/ pc' = "down" /\ store' \in Stores /\ todo' \subseteq Times
           \/ pc' \in Resting /\ store' \in Stores /\ todo' \subseteq Times /\ \A t \in Times : job[t].state # "running"
    PROVE  BucketInvariant'
  <1>1. store' \in Stores /\ todo' \subseteq Times
    BY DEF BucketInvariant, BucketTypes
  <1>2. \A t \in Times : job[t].state = "running" => pc' = "down" \/ (pc' \in Uploading /\ t = dir')
    BY DEF BucketInvariant, ClaimInOrder
  <1>3. /\ BucketTypes' /\ \A s \in Stores : reconciledAt'[s] <= now'
        /\ \A t \in Times : ClaimInOrder(t)' /\ DirectoryInOrder(t)' /\ RowInOrder(t)' /\ (Past(t) => Past(t)')
                            /\ (Safe(t) => Safe(t)')
    BY <1>1, <1>2, DataStays
  <1>4. ASSUME NEW t \in Times PROVE UploadInOrder(t)' /\ ListingInOrder(t)' /\ RetentionInOrder(t)'
    <2>1. CASE pc' \in Resting
      BY <2>1, AtRest
    <2>2. CASE UNCHANGED <<pc, phase, store, dir, listing, plan, todo>>
      BY <2>2, SameWorker
    <2> QED
      BY <2>1, <2>2 DEF Resting
  <1> QED
    BY <1>3, <1>4 DEF BucketInvariant

\* The steps of a pass that only read: the listing, the plan, the next directory.
LEMMA PlanningKeeps ==
    ASSUME BucketInvariant,
           Reconcile \/ ListBackups \/ Retain \/ NextPhase \/ NextItem
    PROVE  BucketInvariant'
  <1>0. /\ UNCHANGED <<now, archive, manifest, home, view, job, reconciledAt, active>>
        /\ now \in Nat /\ now <= now /\ active \in Stores /\ store \in Stores
        /\ BucketTypes
    BY SMT DEF Reconcile, ListBackups, Retain, NextPhase, NextItem, bucket, records, settings,
           BucketInvariant, BucketTypes
  <1>1. store' \in Stores /\ todo' \subseteq Times /\ pc \notin Uploading \cup {"down"}
    <2>1. pc \notin Uploading \cup {"down"}
      BY DEF Reconcile, ListBackups, Retain, NextPhase, NextItem, Uploading
    <2>2. todo \subseteq Times
      BY <1>0 DEF BucketTypes
    <2>3. CASE Reconcile \/ ListBackups
      BY <1>0, <2>1, <2>2, <2>3, GoesTo DEF Reconcile, ListBackups
    <2>4. CASE Retain \/ NextItem
      BY <1>0, <2>1, <2>2, <2>4 DEF Retain, NextItem
    <2>5. CASE NextPhase
      <3>1. {c \in Times : plan[c].state = "complete"} \subseteq Times
        OBVIOUS
      <3> QED
        BY <1>0, <2>1, <2>2, <2>5, <3>1, ExpiresSome DEF NextPhase
    <2> QED
      BY <2>3, <2>4, <2>5
  <1>2. \A t \in Times : job[t].state # "running"
    BY <1>1 DEF BucketInvariant, ClaimInOrder
  <1>3. /\ BucketTypes' /\ \A s \in Stores : reconciledAt'[s] <= now'
        /\ \A t \in Times : ClaimInOrder(t)' /\ DirectoryInOrder(t)' /\ RowInOrder(t)' /\ (Past(t) => Past(t)')
                            /\ (Safe(t) => Safe(t)')
    BY <1>0, <1>1, <1>2, DataStays
  <1>4. CASE pc' \in Resting
    BY <1>0, <1>1, <1>2, <1>4, QuietBucket
  <1> SUFFICES ASSUME pc' \notin Resting, NEW t \in Times
               PROVE  UploadInOrder(t)' /\ ListingInOrder(t)' /\ RetentionInOrder(t)'
    BY <1>3, <1>4 DEF BucketInvariant
  <1>5. /\ ClaimInOrder(t) /\ DirectoryInOrder(t) /\ RowInOrder(t) /\ RetentionInOrder(t)
        /\ Past(t) => Past(t)'
        /\ Safe(t) => Safe(t)'
    BY <1>3 DEF BucketInvariant
  <1>6. CASE Reconcile
    BY <1>0, <1>6, GoesTo DEF Reconcile, Resting
  <1>7. CASE ListBackups
    <2>1. pc' = "record" /\ store' = active /\ listing'[t] = EntryState(t, active)
      BY <1>0, <1>7, GoesTo DEF ListBackups, Resting
    <2>2. /\ listing'[t] = "archive_only" => archive[t] # "none" /\ manifest[t] = "none"
          /\ home[t] = active /\ archive[t] # "none" /\ manifest[t] = "none" => listing'[t] = "archive_only"
          /\ archive[t] = "none" /\ manifest[t] = "none" => listing'[t] = "absent"
      BY <2>1, SMT DEF EntryState
    <2>3. archive[t] \in Owners /\ manifest[t] \in Owners
      BY RowFacts
    <2>4. listing'[t] = "archive_only" /\ (view[t].deleting \/ job[t].state = "failed") => Safe(t)
      BY <1>5, <2>2, RowFields DEF DirectoryInOrder, Safe, Past
    <2>5. Past(t) \/ archive[t] = "foreign" \/ listing'[t] = "absent"
      BY <1>5, <2>2, <2>3 DEF DirectoryInOrder, Owners
    <2>6. ListingInOrder(t)'
      BY <1>0, <1>5, <2>1, <2>2, <2>4, <2>5 DEF ListingInOrder, Orphan
    <2> QED
      BY <2>1, <2>6 DEF UploadInOrder, RetentionInOrder, Uploading, Removing
  <1>8. CASE Retain
    <2>1. /\ pc' = "next" /\ phase' = "finish" /\ plan'[t] = Rows[t]
          /\ t \in todo' => Rows[t].state = "archive_only" /\ Rows[t].deleting
      BY <1>8 DEF Retain, Resting, Rows
    <2>2. Rows[t] = view[t] \/ Rows[t] = NoRow
      BY DEF Rows
    <2>3. RetentionInOrder(t)'
      BY <1>0, <1>5, <2>1, <2>2, RowFields DEF RetentionInOrder, RowInOrder, Removing
    <2> QED
      BY <2>1, <2>3 DEF UploadInOrder, ListingInOrder, Uploading
  <1>9. CASE NextPhase
    <2>1. pc = "next" /\ pc' = "next" /\ UNCHANGED plan
      BY <1>9 DEF NextPhase, Resting
    <2>2. CASE phase = "finish"
      <3>1. phase' = "expire" /\ (t \in todo' => plan[t].state = "complete")
        BY <1>9, <2>1, <2>2, ExpiresSome DEF NextPhase, Resting
      <3> QED
        BY <1>0, <1>5, <2>1, <2>2, <3>1 DEF RetentionInOrder, UploadInOrder, ListingInOrder, Removing, Uploading
    <2>3. CASE phase = "expire"
      <3>1. /\ phase' = "clean"
            /\ t \in todo' => plan[t].state = "archive_only" /\ job[t].state = "failed"
        BY <1>9, <2>1, <2>3 DEF NextPhase, Resting, AbandonedUploadKey
      <3> QED
        BY <1>0, <1>5, <2>1, <3>1 DEF RetentionInOrder, UploadInOrder, ListingInOrder, Removing, Uploading
    <2> QED
      BY <1>9, <2>1, <2>2, <2>3 DEF NextPhase, Resting
  <1>10. CASE NextItem
    <2>1. /\ pc = "next" /\ pc' = (IF phase = "expire" THEN "check" ELSE "remove_archive")
          /\ UNCHANGED <<plan, phase>> /\ dir' \in todo /\ todo' = todo \ {dir'}
      BY <1>10 DEF NextItem
    <2>2. t \in todo => IF phase = "expire" THEN view[t].state # "archive_only" ELSE Safe(t)
      BY <1>5, <2>1 DEF RetentionInOrder, Removing
    <2> QED
      BY <1>0, <1>5, <2>1, <2>2 DEF RetentionInOrder, UploadInOrder, ListingInOrder, Removing, Uploading
  <1> QED
    BY <1>6, <1>7, <1>8, <1>9, <1>10

\* A step that changes only the view, and only of one directory the worker has
\* before it, or the claims; what Safe, Past and Orphan depend on stays.
LEMMA RecordsChange ==
    ASSUME BucketInvariant, UNCHANGED <<now, archive, manifest, home>>, NEW t \in Times,
           job'[t] = job[t]
    PROVE  Past(t)' = Past(t) /\ Safe(t)' = Safe(t) /\ Orphan(t)' = Orphan(t)
  BY DEF Past, Safe, Orphan

Row(s, w, d) == [state |-> s, owner |-> w, deleting |-> d]

LEMMA MadeRow ==
    ASSUME NEW s \in EntryStates, NEW w \in Owners, NEW d \in BOOLEAN
    PROVE  Row(s, w, d) \in RowType /\ Row(s, w, d).state = s /\ Row(s, w, d).deleting = d
  BY DEF Row, RowType

LEMMA ChangedRow ==
    ASSUME NEW r \in RowType, NEW s \in EntryStates
    PROVE  /\ [r EXCEPT !.state = s] \in RowType /\ [r EXCEPT !.state = s].state = s
           /\ [r EXCEPT !.state = s].deleting = r.deleting
           /\ [r EXCEPT !.deleting = TRUE] \in RowType /\ [r EXCEPT !.deleting = TRUE].state = r.state
           /\ [r EXCEPT !.deleting = TRUE].deleting
  <1>1. /\ [r EXCEPT !.state = s] \in RowType /\ [r EXCEPT !.state = s].state = s
        /\ [r EXCEPT !.state = s].deleting = r.deleting
    BY DEF RowType
  <1>2. /\ [r EXCEPT !.deleting = TRUE] \in RowType /\ [r EXCEPT !.deleting = TRUE].state = r.state
        /\ [r EXCEPT !.deleting = TRUE].deleting
    BY DEF RowType
  <1> QED
    BY <1>1, <1>2

\* What one listing makes of a directory's row.
LEMMA RecordedRow ==
    ASSUME BucketInvariant, NEW unreadable, NEW t \in Times
    PROVE  /\ Recorded(t, unreadable) \in RowType
           /\ listing[t] = "archive_only" =>
                Recorded(t, unreadable).state = "archive_only"
                /\ Recorded(t, unreadable).deleting = view[t].deleting
           /\ listing[t] # "archive_only" =>
                Recorded(t, unreadable).state # "archive_only" /\ ~Recorded(t, unreadable).deleting
           /\ listing[t] = "absent" => Recorded(t, unreadable) = NoRow
  <1>1. view[t] \in RowType /\ manifest[t] \in Owners
    BY RowFacts
  <1>2. view[t].deleting \in BOOLEAN /\ view[t].owner \in Owners
    BY <1>1 DEF RowType
  <1>3. CASE listing[t] = "archive_only"
    <2>1. Recorded(t, unreadable) = Row("archive_only", "none", view[t].deleting)
      BY <1>3 DEF Recorded, Row
    <2>2. "archive_only" \in EntryStates /\ "none" \in Owners
      BY DEF EntryStates, Owners
    <2>3. /\ Recorded(t, unreadable) \in RowType /\ Recorded(t, unreadable).state = "archive_only"
          /\ Recorded(t, unreadable).deleting = view[t].deleting
      <3> DEFINE d == view[t].deleting
                 r == Row("archive_only", "none", d)
      <3>1. d \in BOOLEAN
        BY <1>2
      <3> HIDE DEF d
      <3>2. r \in RowType /\ r.state = "archive_only" /\ r.deleting = d
        BY <2>2, <3>1, MadeRow
      <3>3. Recorded(t, unreadable) = r
        BY <2>1 DEF d
      <3> HIDE DEF r
      <3>4. Recorded(t, unreadable).deleting = d
        BY <3>2, <3>3
      <3>5. Recorded(t, unreadable) \in RowType /\ Recorded(t, unreadable).state = "archive_only"
        BY <3>2, <3>3
      <3> QED
        BY <3>4, <3>5 DEF d
    <2> QED
      BY <1>3, <2>3
  <1>4. CASE listing[t] \in {"complete", "manifest_only"}
    <2> DEFINE known == Row(listing[t], view[t].owner, FALSE)
               read == Row(listing[t], manifest[t], FALSE)
               unread == [NoRow EXCEPT !.state = "damaged"]
    <2>1. Recorded(t, unreadable) \in {known, read, unread}
      <3>2. CASE view[t].owner # "none"
        BY <1>4, <3>2 DEF Recorded, Row
      <3>3. CASE view[t].owner = "none"
        BY <1>4, <3>3 DEF Recorded, Row
      <3> QED
        BY <3>2, <3>3
    <2>2. /\ "damaged" \in EntryStates /\ "none" \in Owners /\ FALSE \in BOOLEAN
          /\ listing[t] \in EntryStates
      BY <1>4 DEF EntryStates, Owners
    <2>3. /\ known \in RowType /\ known.state = listing[t] /\ known.deleting = FALSE
          /\ read \in RowType /\ read.state = listing[t] /\ read.deleting = FALSE
      BY <1>1, <1>2, <2>2, MadeRow
    <2>4. unread \in RowType /\ unread.state = "damaged" /\ ~unread.deleting
      BY <2>2, RowFields, ChangedRow
    <2> HIDE DEF known, read, unread
    <2> QED
      BY <1>4, <2>1, <2>3, <2>4
  <1>5. CASE listing[t] \notin {"archive_only", "complete", "manifest_only"}
    <2>1. Recorded(t, unreadable) = NoRow
      BY <1>5 DEF Recorded
    <2> QED
      BY <1>5, <2>1, RowFields
  <1> QED
    BY <1>3, <1>4, <1>5

\* ReplacePrefix: the rows of the store become what the listing shows.
LEMMA RecordingKeeps ==
    ASSUME BucketInvariant, ReplacePrefix
    PROVE  BucketInvariant'
  <1>0. /\ UNCHANGED <<now, archive, manifest, home, job, reconciledAt, active, store, todo>>
        /\ pc = "record" /\ pc' = "settle"
    BY DEF ReplacePrefix, bucket, settings
  <1>1. PICK unreadable \in SUBSET Times :
          view' = [t \in Times |-> IF home[t] = store THEN Recorded(t, unreadable) ELSE view[t]]
    BY DEF ReplacePrefix
  <1>2. ASSUME NEW t \in Times
        PROVE  /\ Recorded(t, unreadable) \in RowType
               /\ listing[t] = "archive_only" =>
                    Recorded(t, unreadable).state = "archive_only"
                    /\ Recorded(t, unreadable).deleting = view[t].deleting
               /\ listing[t] # "archive_only" =>
                    Recorded(t, unreadable).state # "archive_only" /\ ~Recorded(t, unreadable).deleting
               /\ listing[t] = "absent" => Recorded(t, unreadable) = NoRow
    BY RecordedRow
  <1>3. BucketTypes' /\ \A s \in Stores : reconciledAt'[s] <= now'
    <2>1. view' \in [Times -> RowType]
      BY <1>1, <1>2 DEF BucketInvariant, BucketTypes
    <2> QED
      BY <1>0, <2>1 DEF BucketInvariant, BucketTypes
  <1> SUFFICES ASSUME NEW t \in Times
               PROVE  /\ ClaimInOrder(t)' /\ DirectoryInOrder(t)' /\ RowInOrder(t)'
                      /\ UploadInOrder(t)' /\ ListingInOrder(t)' /\ RetentionInOrder(t)'
    BY <1>3 DEF BucketInvariant
  <1>4. /\ ClaimInOrder(t) /\ DirectoryInOrder(t) /\ RowInOrder(t) /\ ListingInOrder(t)
        /\ Past(t)' = Past(t) /\ Safe(t)' = Safe(t) /\ Orphan(t)' = Orphan(t)
    BY <1>0, RecordsChange DEF BucketInvariant
  <1>5. job[t].state # "running"
    BY <1>0, <1>4 DEF ClaimInOrder, Uploading
  <1>6. /\ home[t] = store => view'[t] = Recorded(t, unreadable)
        /\ home[t] # store => view'[t] = view[t]
    BY <1>1
  <1>7. ClaimInOrder(t)'
    BY <1>0, <1>4, <1>5 DEF ClaimInOrder
  <1>8. DirectoryInOrder(t)'
    <2>1. view'[t].deleting => view[t].deleting
      BY <1>2, <1>6
    <2>2. Past(t) \/ archive[t] = "foreign" \/ view'[t] = NoRow
      BY <1>0, <1>2, <1>4, <1>6 DEF ListingInOrder, DirectoryInOrder
    <2> QED
      BY <1>0, <1>4, <2>1, <2>2 DEF DirectoryInOrder
  <1>9. RowInOrder(t)'
    <2>1. CASE home[t] # store
      BY <1>0, <1>4, <1>6, <2>1 DEF RowInOrder
    <2>2. CASE home[t] = store
      <3>1. view'[t].state = "archive_only" => listing[t] = "archive_only" /\ (view'[t].deleting => view[t].deleting)
        BY <1>2, <1>6, <2>2
      <3>2. Orphan(t) => /\ listing[t] = "archive_only" /\ view'[t].state = "archive_only"
                         /\ view[t].deleting => view'[t].deleting
        BY <1>0, <1>2, <1>4, <1>6, <2>2 DEF ListingInOrder
      <3> QED
        BY <1>0, <1>4, <3>1, <3>2 DEF RowInOrder, ListingInOrder
    <2> QED
      BY <2>1, <2>2
  <1>10. ListingInOrder(t)'
    BY <1>0, <1>2, <1>4, <1>6 DEF ListingInOrder
  <1> QED
    BY <1>0, <1>7, <1>8, <1>9, <1>10 DEF UploadInOrder, RetentionInOrder, Uploading, Removing

LEMMA Update ==
    ASSUME NEW S, NEW T, NEW f \in [S -> T], NEW x, NEW e, x \in S => e \in T
    PROVE  /\ [f EXCEPT ![x] = e] \in [S -> T] /\ (x \in S => [f EXCEPT ![x] = e][x] = e)
           /\ \A y \in S : y # x => [f EXCEPT ![x] = e][y] = f[y]
  OBVIOUS

\* While retention works on one directory the others stay in order.
LEMMA OtherDirectories ==
    ASSUME BucketInvariant, pc \in Removing, pc' \in Removing \cup {"prune"}, NEW t \in Times, t # dir,
           UNCHANGED <<now, home, job, reconciledAt, phase, store, dir, plan, todo>>,
           archive'[t] = archive[t], manifest'[t] = manifest[t], view'[t] = view[t]
    PROVE  /\ ClaimInOrder(t)' /\ DirectoryInOrder(t)' /\ RowInOrder(t)'
           /\ UploadInOrder(t)' /\ ListingInOrder(t)' /\ RetentionInOrder(t)'
  <1>1. /\ ClaimInOrder(t) /\ DirectoryInOrder(t) /\ RowInOrder(t) /\ RetentionInOrder(t)
        /\ Past(t)' = Past(t) /\ Safe(t)' = Safe(t) /\ Orphan(t)' = Orphan(t)
    <2>1. Past(t)' = Past(t) /\ Safe(t)' = Safe(t) /\ Orphan(t)' = Orphan(t)
      BY DEF Past, Safe, Orphan
    <2> QED
      BY <2>1 DEF BucketInvariant
  <1>2. job[t].state # "running"
    BY <1>1 DEF ClaimInOrder, Uploading, Removing
  <1>3. ClaimInOrder(t)'
    BY <1>1, <1>2 DEF ClaimInOrder
  <1>4. DirectoryInOrder(t)'
    BY <1>1 DEF DirectoryInOrder
  <1>5. RowInOrder(t)'
    BY <1>1 DEF RowInOrder
  <1>6. RetentionInOrder(t)'
    BY <1>1 DEF RetentionInOrder, Removing
  <1> QED
    BY <1>3, <1>4, <1>5, <1>6 DEF UploadInOrder, ListingInOrder, Removing, Uploading

\* Settle: the store counts as reconciled now.
LEMMA SettlingKeeps ==
    ASSUME BucketInvariant, Settle
    PROVE  BucketInvariant'
  <1>0. /\ UNCHANGED <<now, archive, manifest, home, view, job, active>>
        /\ pc = "settle" /\ reconciledAt' = [reconciledAt EXCEPT ![store] = now]
        /\ BucketTypes
    BY DEF Settle, bucket, settings, BucketInvariant
  <1>1. pc' \in {"idle", "retain"} /\ store' \in Stores /\ todo' \subseteq Times
    BY <1>0, GoesTo DEF Settle
  <1>2. BucketTypes' /\ \A s \in Stores : reconciledAt'[s] <= now'
    BY <1>0, <1>1, SMT DEF BucketInvariant, BucketTypes
  <1> SUFFICES ASSUME NEW t \in Times
               PROVE  /\ ClaimInOrder(t)' /\ DirectoryInOrder(t)' /\ RowInOrder(t)'
                      /\ UploadInOrder(t)' /\ ListingInOrder(t)' /\ RetentionInOrder(t)'
    BY <1>2 DEF BucketInvariant
  <1>3. /\ ClaimInOrder(t) /\ DirectoryInOrder(t) /\ RowInOrder(t) /\ ListingInOrder(t)
        /\ Past(t)' = Past(t) /\ Safe(t)' = Safe(t) /\ Orphan(t)' = Orphan(t)
    BY <1>0, RecordsChange DEF BucketInvariant
  <1>4. ClaimInOrder(t)' /\ DirectoryInOrder(t)'
    BY <1>0, <1>3 DEF ClaimInOrder, DirectoryInOrder, Uploading
  <1>5. RowInOrder(t)'
    <2>1. home[t] # store => reconciledAt'[home[t]] = reconciledAt[home[t]]
      BY <1>0 DEF BucketTypes
    <2>2. home[t] = store /\ Orphan(t) => view[t].state = "archive_only"
      BY <1>0, <1>3 DEF ListingInOrder
    <2> QED
      BY <1>0, <1>3, <2>1, <2>2 DEF RowInOrder
  <1> QED
    BY <1>1, <1>4, <1>5 DEF UploadInOrder, ListingInOrder, RetentionInOrder, Uploading, Removing

\* CheckManifest, MarkBackupArchiveOnly, ForgetBucketBackup, DeleteLocalBackupRow:
\* the row of the directory before the worker.
LEMMA MarkingKeeps ==
    ASSUME BucketInvariant,
           CheckManifest \/ MarkBackupArchiveOnly \/ ForgetBucketBackup \/ DeleteLocalBackupRow
    PROVE  BucketInvariant'
  <1>0. /\ UNCHANGED <<now, archive, manifest, home, job, reconciledAt, active>>
        /\ BucketTypes /\ pc \in Removing
    BY DEF CheckManifest, MarkBackupArchiveOnly, ForgetBucketBackup, DeleteLocalBackupRow, bucket,
           settings, BucketInvariant, Removing
  <1>1. /\ UNCHANGED <<phase, store, dir, listing, plan, todo>> /\ pc' \in Removing \cup {"prune"}
    BY <1>0, GoesTo, SMT
    DEF CheckManifest, MarkBackupArchiveOnly, ForgetBucketBackup, DeleteLocalBackupRow, Removing
  <1>2. view' \in [Times -> RowType] /\ \A t \in Times : t # dir => view'[t] = view[t]
    <2>1. view \in [Times -> RowType] /\ "archive_only" \in EntryStates
      BY <1>0 DEF BucketTypes, EntryStates
    <2>2. view' = view \/ (\E r : view' = [view EXCEPT ![dir] = r] /\ (dir \in Times => r \in RowType))
      <3>1. CASE CheckManifest
        <4>1. dir \in Times => [view[dir] EXCEPT !.deleting = TRUE] \in RowType
          BY <2>1, ChangedRow
        <4>2. \/ view' = view \/ view' = [view EXCEPT ![dir] = NoRow]
              \/ view' = [view EXCEPT ![dir] = [view[dir] EXCEPT !.deleting = TRUE]]
          BY <3>1 DEF CheckManifest
        <4> QED
          BY <4>1, <4>2, RowFields
      <3>2. CASE MarkBackupArchiveOnly
        <4>1. dir \in Times => [view[dir] EXCEPT !.state = "archive_only"] \in RowType
          BY <2>1, ChangedRow
        <4>2. view' = [view EXCEPT ![dir] = [view[dir] EXCEPT !.state = "archive_only"]]
          BY <3>2 DEF MarkBackupArchiveOnly
        <4> QED
          BY <4>1, <4>2
      <3>3. CASE ForgetBucketBackup \/ DeleteLocalBackupRow
        BY <3>3, RowFields DEF ForgetBucketBackup, DeleteLocalBackupRow
      <3> QED
        BY <3>1, <3>2, <3>3
    <2> QED
      BY <2>1, <2>2, Update, SMT
  <1>3. BucketTypes' /\ \A s \in Stores : reconciledAt'[s] <= now'
    BY <1>0, <1>1, <1>2 DEF BucketInvariant, BucketTypes
  <1> SUFFICES ASSUME NEW t \in Times, t = dir
               PROVE  /\ ClaimInOrder(t)' /\ DirectoryInOrder(t)' /\ RowInOrder(t)'
                      /\ UploadInOrder(t)' /\ ListingInOrder(t)' /\ RetentionInOrder(t)'
    BY <1>0, <1>1, <1>2, <1>3, OtherDirectories DEF BucketInvariant
  <1>4. /\ ClaimInOrder(t) /\ DirectoryInOrder(t) /\ RowInOrder(t) /\ RetentionInOrder(t)
        /\ Past(t)' = Past(t) /\ Safe(t)' = Safe(t) /\ Orphan(t)' = Orphan(t)
        /\ view[t] \in RowType /\ "archive_only" \in EntryStates
    BY <1>0, RecordsChange, RowFacts DEF BucketInvariant, EntryStates
  <1>5. job[t].state # "running" /\ ClaimInOrder(t)' /\ UploadInOrder(t)' /\ ListingInOrder(t)'
    BY <1>0, <1>1, <1>4 DEF ClaimInOrder, UploadInOrder, ListingInOrder, Uploading, Removing
  <1>6. CASE CheckManifest /\ manifest[t] = "ours" /\ view' = [view EXCEPT ![t].deleting = TRUE]
        /\ pc' = "remove_manifest"
    <2>1. view'[t].state = view[t].state /\ view'[t].deleting
      BY <1>0, <1>4, <1>6, ChangedRow DEF BucketTypes
    <2>2. pc = "check" /\ view[t].state # "archive_only"
      BY <1>4, <1>6 DEF RetentionInOrder, CheckManifest
    <2>3. DirectoryInOrder(t)' /\ RowInOrder(t)'
      BY <1>0, <1>4, <1>6, <2>1, <2>2 DEF DirectoryInOrder, RowInOrder, Orphan
    <2>4. RetentionInOrder(t)'
      BY <1>0, <1>1, <1>4, <1>6, <2>1, <2>2 DEF RetentionInOrder, DirectoryInOrder, Removing
    <2> QED
      BY <1>5, <2>3, <2>4
  <1>7. CASE view' = view /\ pc' \in {"prune", "next"}
    <2>1. DirectoryInOrder(t)' /\ RowInOrder(t)'
      BY <1>0, <1>4, <1>7 DEF DirectoryInOrder, RowInOrder
    <2>2. RetentionInOrder(t)'
      BY <1>0, <1>1, <1>4, <1>7 DEF RetentionInOrder, Removing
    <2> QED
      BY <1>5, <2>1, <2>2
  <1>8. CASE MarkBackupArchiveOnly
    <2>1. pc = "mark" /\ pc' = "remove_archive" /\ view'[t].state = "archive_only"
      BY <1>0, <1>4, <1>8, GoesTo, ChangedRow, SMT DEF MarkBackupArchiveOnly, BucketTypes
    <2>2. view'[t].deleting = view[t].deleting
      BY <1>0, <1>4, <1>8, ChangedRow DEF MarkBackupArchiveOnly, BucketTypes
    <2>3. Safe(t) /\ Past(t)
      BY <1>4, <2>1 DEF RetentionInOrder, Safe
    <2>4. DirectoryInOrder(t)' /\ RowInOrder(t)'
      BY <1>0, <1>4, <2>1, <2>2, <2>3 DEF DirectoryInOrder, RowInOrder
    <2>5. RetentionInOrder(t)'
      BY <1>0, <1>1, <1>4, <2>1, <2>3 DEF RetentionInOrder, Removing
    <2> QED
      BY <1>5, <2>4, <2>5
  <1>9. CASE view' = [view EXCEPT ![t] = NoRow] /\ ~Orphan(t) /\ pc' \in {"prune", "next", "unlist"}
    <2>1. view'[t] = NoRow /\ view'[t].state = "absent" /\ ~view'[t].deleting
      BY <1>0, <1>9, RowFields DEF BucketTypes
    <2>2. DirectoryInOrder(t)' /\ RowInOrder(t)'
      BY <1>0, <1>4, <1>9, <2>1 DEF DirectoryInOrder, RowInOrder
    <2>3. RetentionInOrder(t)'
      BY <1>0, <1>1, <1>4, <1>9, <2>1 DEF RetentionInOrder, Removing
    <2> QED
      BY <1>5, <2>2, <2>3
  <1>10. CASE CheckManifest
    BY <1>0, <1>6, <1>7, <1>9, <1>10, GoesTo DEF CheckManifest, Orphan
  <1>11. CASE ForgetBucketBackup
    BY <1>0, <1>4, <1>9, <1>11, GoesTo DEF ForgetBucketBackup, Orphan, RetentionInOrder
  <1>12. CASE DeleteLocalBackupRow
    BY <1>0, <1>7, <1>12, GoesTo DEF DeleteLocalBackupRow
  <1> QED
    BY <1>8, <1>10, <1>11, <1>12

\* A call to the object store, however it ends.
LEMMA Called ==
    ASSUME BucketTypes, NEW object \in [Times -> Owners], NEW object2, NEW value \in Owners, NEW s1, NEW s2,
           \/ object2 = [object EXCEPT ![dir] = value] /\ pc' \in {s1, s2}
           \/ object2 = object /\ pc' = s2
    PROVE  /\ object2 \in [Times -> Owners]
           /\ \A t \in Times : /\ t # dir => object2[t] = object[t]
                               /\ t = dir => object2[t] = value \/ (object2[t] = object[t] /\ pc' = s2)
  BY Update, SMT

\* RemoveManifest and RemoveArchive: what is removed is ours, and what is left
\* over can be proved ours.
LEMMA RemovingKeeps ==
    ASSUME BucketInvariant, RemoveManifest \/ RemoveArchive
    PROVE  /\ BucketInvariant'
           /\ \A t \in Times : /\ archive[t] = "foreign" => archive'[t] = "foreign"
                               /\ manifest[t] = "foreign" => manifest'[t] = "foreign"
  <1>0. /\ UNCHANGED <<now, home, view, job, reconciledAt, active>>
        /\ BucketTypes /\ pc \in Removing /\ "none" \in Owners
    BY DEF RemoveManifest, RemoveArchive, records, settings, BucketInvariant, Removing, Owners
  <1>1. /\ UNCHANGED <<phase, store, dir, listing, plan, todo>> /\ pc' \in Removing \cup {"prune"}
    BY <1>0, GoesTo, SMT DEF RemoveManifest, RemoveArchive, Call, Removing
  <1>2. CASE RemoveManifest
    <2>1. pc = "remove_manifest" /\ UNCHANGED archive
      BY <1>2 DEF RemoveManifest
    <2>2. /\ manifest' \in [Times -> Owners] /\ pc' \in {"mark", "prune"}
          /\ \A t \in Times : /\ t # dir => manifest'[t] = manifest[t]
                              /\ t = dir => manifest'[t] = "none" \/ (manifest'[t] = manifest[t] /\ pc' = "prune")
      <3>1. \/ manifest' = [manifest EXCEPT ![dir] = "none"] /\ pc' \in {"mark", "prune"}
            \/ manifest' = manifest /\ pc' = "prune"
        BY <1>0, <1>2, GoesTo DEF RemoveManifest, Call
      <3>2. manifest \in [Times -> Owners]
        BY <1>0 DEF BucketTypes
      <3> QED
        BY <1>0, <3>1, <3>2, Called
    <2>3. BucketTypes' /\ \A s \in Stores : reconciledAt'[s] <= now'
      BY <1>0, <1>1, <2>1, <2>2 DEF BucketInvariant, BucketTypes
    <2>4. ASSUME NEW t \in Times, t = dir
          PROVE  /\ ClaimInOrder(t)' /\ DirectoryInOrder(t)' /\ RowInOrder(t)'
                 /\ UploadInOrder(t)' /\ ListingInOrder(t)' /\ RetentionInOrder(t)'
                 /\ manifest[t] # "foreign"
      <3>1. /\ ClaimInOrder(t) /\ DirectoryInOrder(t) /\ RowInOrder(t) /\ RetentionInOrder(t)
            /\ Past(t)' = Past(t)
        BY <1>0, <2>4 DEF BucketInvariant, Past
      <3>2. /\ view[t].deleting /\ view[t].state # "archive_only" /\ manifest[t] # "foreign" /\ archive[t] # "foreign"
            /\ phase = "expire" /\ t \notin todo /\ Past(t)
        BY <2>1, <2>4, <3>1 DEF RetentionInOrder, DirectoryInOrder
      <3>3. manifest'[t] = "none" \/ (manifest'[t] = manifest[t] /\ pc' = "prune")
        BY <2>2, <2>4
      <3>4. Safe(t) => Safe(t)'
        BY <2>1, <3>1, <3>3 DEF Safe
      <3>5. manifest'[t] = "none" => Safe(t)'
        BY <2>1, <3>1, <3>2 DEF Safe
      <3>6. job[t].state # "running" /\ ClaimInOrder(t)' /\ UploadInOrder(t)' /\ ListingInOrder(t)'
        BY <1>0, <1>1, <3>1 DEF ClaimInOrder, UploadInOrder, ListingInOrder, Uploading, Removing
      <3>7. DirectoryInOrder(t)'
        BY <1>0, <2>1, <3>1, <3>2, <3>3 DEF DirectoryInOrder
      <3>8. RowInOrder(t)'
        BY <1>0, <2>1, <3>1, <3>2 DEF RowInOrder
      <3>9. RetentionInOrder(t)'
        BY <1>0, <1>1, <2>1, <2>2, <2>4, <3>1, <3>2, <3>3, <3>4, <3>5 DEF RetentionInOrder, Removing
      <3> QED
        BY <3>2, <3>6, <3>7, <3>8, <3>9
    <2>5. ASSUME NEW t \in Times, t # dir
          PROVE  /\ ClaimInOrder(t)' /\ DirectoryInOrder(t)' /\ RowInOrder(t)'
                 /\ UploadInOrder(t)' /\ ListingInOrder(t)' /\ RetentionInOrder(t)'
      BY <1>0, <1>1, <2>1, <2>2, <2>5, OtherDirectories
    <2>6. BucketInvariant'
      BY <2>3, <2>4, <2>5 DEF BucketInvariant
    <2> QED
      BY <2>1, <2>2, <2>4, <2>6
  <1>3. CASE RemoveArchive
    <2>1. pc = "remove_archive" /\ UNCHANGED manifest
      BY <1>3 DEF RemoveArchive
    <2>2. /\ archive' \in [Times -> Owners] /\ pc' \in {"forget", "prune"}
          /\ \A t \in Times : /\ t # dir => archive'[t] = archive[t]
                              /\ t = dir => archive'[t] = "none" \/ (archive'[t] = archive[t] /\ pc' = "prune")
      <3>1. \/ archive' = [archive EXCEPT ![dir] = "none"] /\ pc' \in {"forget", "prune"}
            \/ archive' = archive /\ pc' = "prune"
        BY <1>0, <1>3, GoesTo DEF RemoveArchive, Call
      <3>2. archive \in [Times -> Owners]
        BY <1>0 DEF BucketTypes
      <3> QED
        BY <1>0, <3>1, <3>2, Called
    <2>3. BucketTypes' /\ \A s \in Stores : reconciledAt'[s] <= now'
      BY <1>0, <1>1, <2>1, <2>2 DEF BucketInvariant, BucketTypes
    <2>4. ASSUME NEW t \in Times, t = dir
          PROVE  /\ ClaimInOrder(t)' /\ DirectoryInOrder(t)' /\ RowInOrder(t)'
                 /\ UploadInOrder(t)' /\ ListingInOrder(t)' /\ RetentionInOrder(t)'
                 /\ archive[t] # "foreign"
      <3>1. /\ ClaimInOrder(t) /\ DirectoryInOrder(t) /\ RowInOrder(t) /\ RetentionInOrder(t)
            /\ Past(t)' = Past(t)
        BY <1>0, <2>4 DEF BucketInvariant, Past
      <3>2. Safe(t) /\ Past(t) /\ archive[t] # "foreign" /\ manifest[t] = "none"
        BY <2>1, <2>4, <3>1 DEF RetentionInOrder, Safe
      <3>3. archive'[t] = "none" \/ (archive'[t] = archive[t] /\ pc' = "prune")
        BY <2>2, <2>4
      <3>4. Safe(t)' /\ (Orphan(t)' => Orphan(t))
        BY <2>1, <3>1, <3>2, <3>3 DEF Safe, Orphan
      <3>5. job[t].state # "running" /\ ClaimInOrder(t)' /\ UploadInOrder(t)' /\ ListingInOrder(t)'
        BY <1>0, <1>1, <3>1 DEF ClaimInOrder, UploadInOrder, ListingInOrder, Uploading, Removing
      <3>6. DirectoryInOrder(t)'
        BY <1>0, <2>1, <3>1, <3>2, <3>3 DEF DirectoryInOrder
      <3>7. RowInOrder(t)'
        BY <1>0, <2>1, <3>1, <3>4 DEF RowInOrder
      <3>8. RetentionInOrder(t)'
        BY <1>0, <1>1, <2>1, <2>2, <3>1, <3>3, <3>4 DEF RetentionInOrder, Removing
      <3> QED
        BY <3>2, <3>5, <3>6, <3>7, <3>8
    <2>5. ASSUME NEW t \in Times, t # dir
          PROVE  /\ ClaimInOrder(t)' /\ DirectoryInOrder(t)' /\ RowInOrder(t)'
                 /\ UploadInOrder(t)' /\ ListingInOrder(t)' /\ RetentionInOrder(t)'
      BY <1>0, <1>1, <2>1, <2>2, <2>5, OtherDirectories
    <2>6. BucketInvariant'
      BY <2>3, <2>4, <2>5 DEF BucketInvariant
    <2> QED
      BY <2>1, <2>2, <2>4, <2>6
  <1> QED
    BY <1>2, <1>3

\* StartUpload claims the directory of the present hour, where nobody has put
\* anything and no pass has recorded anything.
LEMMA ClaimingKeeps ==
    ASSUME BucketInvariant, StartUpload
    PROVE  BucketInvariant' /\ UNCHANGED <<archive, manifest>>
  <1>0. /\ UNCHANGED <<now, archive, manifest, view, reconciledAt, active, todo>>
        /\ pc = "idle" /\ pc' = "upload" /\ dir' = now /\ store' = active
        /\ archive[now] = "none" /\ manifest[now] = "none" /\ job[now] = NoJob
        /\ home' = [home EXCEPT ![now] = active]
        /\ job' = [job EXCEPT ![now] = [job[now] EXCEPT !.state = "running"]]
        /\ BucketTypes
    BY DEF StartUpload, settings, BucketInvariant
  <1> DEFINE r == [job[now] EXCEPT !.state = "running"]
  <1>1. r \in JobRow /\ r.state = "running" /\ r.finished = 0 /\ r # NoJob
    BY <1>0, SMT DEF NoJob, JobRow
  <1>2. /\ job' \in [Times -> JobRow] /\ home' \in [Times -> Stores]
        /\ now \in Times => job'[now] = r
        /\ \A t \in Times : t # now => job'[t] = job[t] /\ home'[t] = home[t]
    <2> HIDE DEF r
    <2>1. job' = [job EXCEPT ![now] = r]
      BY <1>0 DEF r
    <2>2. /\ job' \in [Times -> JobRow] /\ (now \in Times => job'[now] = r)
          /\ \A t \in Times : t # now => job'[t] = job[t]
      <3>1. job \in [Times -> JobRow] /\ r \in JobRow
        BY <1>0, <1>1 DEF BucketTypes
      <3> QED
        BY <2>1, <3>1, Update
    <2>3. home' \in [Times -> Stores] /\ \A t \in Times : t # now => home'[t] = home[t]
      BY <1>0, Update, SMT DEF BucketTypes
    <2> QED
      BY <2>2, <2>3
  <1> HIDE DEF r
  <1>3. BucketTypes' /\ \A s \in Stores : reconciledAt'[s] <= now'
    BY <1>0, <1>2 DEF BucketInvariant, BucketTypes
  <1>4. ASSUME NEW t \in Times
        PROVE  /\ ClaimInOrder(t)' /\ DirectoryInOrder(t)' /\ RowInOrder(t)'
               /\ UploadInOrder(t)' /\ ListingInOrder(t)' /\ RetentionInOrder(t)'
    <2>1. /\ ClaimInOrder(t) /\ DirectoryInOrder(t) /\ RowInOrder(t) /\ now \in Nat
      BY RowFacts, <1>4 DEF BucketInvariant
    <2>2. ListingInOrder(t)' /\ RetentionInOrder(t)'
      BY <1>0 DEF ListingInOrder, RetentionInOrder, Removing
    <2>3. CASE t # now
      <3>1. job[t].state # "running"
        BY <1>0, <2>1 DEF ClaimInOrder, Uploading
      <3>2. ClaimInOrder(t)' /\ DirectoryInOrder(t)' /\ RowInOrder(t)'
        BY <1>0, <1>2, <2>1, <2>3, <3>1, <1>4, SameDirectory, SMT
      <3>3. UploadInOrder(t)'
        BY <1>0, <2>3 DEF UploadInOrder
      <3> QED
        BY <2>2, <3>2, <3>3
    <2>4. CASE t = now
      <3>1. job'[t] = r /\ archive'[t] = "none" /\ manifest'[t] = "none"
        BY <1>0, <1>2, <2>4, <1>4
      <3>2. view'[t] = NoRow /\ view'[t].state = "absent" /\ ~view'[t].deleting
        BY <1>0, <2>1, <2>4, RowFields, SMT DEF DirectoryInOrder, Past
      <3>3. ClaimInOrder(t)'
        <4>1. now' = t /\ dir' = t /\ pc' \in Uploading /\ t \in Nat
          BY <1>0, <2>1, <2>4 DEF Uploading
        <4> QED
          BY <1>1, <3>1, <3>2, <4>1, SMT DEF ClaimInOrder
      <3>4. DirectoryInOrder(t)' /\ RowInOrder(t)'
        BY <3>1, <3>2 DEF DirectoryInOrder, RowInOrder, Orphan
      <3>5. UploadInOrder(t)'
        BY <1>0, <1>1, <3>1 DEF UploadInOrder, Orphan
      <3> QED
        BY <2>2, <3>3, <3>4, <3>5
    <2> QED
      BY <2>3, <2>4
  <1> QED
    BY <1>0, <1>3, <1>4 DEF BucketInvariant

\* UploadArchive and UploadManifest: nobody else writes where a job runs.
LEMMA UploadingKeeps ==
    ASSUME BucketInvariant, UploadArchive \/ UploadManifest
    PROVE  /\ BucketInvariant'
           /\ \A t \in Times : /\ archive[t] = "foreign" => archive'[t] = "foreign"
                               /\ manifest[t] = "foreign" => manifest'[t] = "foreign"
  <1>0. /\ UNCHANGED <<now, home, view, job, reconciledAt, active>>
        /\ BucketTypes /\ pc \in {"upload", "publish"} /\ "ours" \in Owners
    BY DEF UploadArchive, UploadManifest, records, settings, BucketInvariant, Owners
  <1>1. /\ UNCHANGED <<phase, store, dir, listing, plan, todo>> /\ pc' \in {"publish", "complete", "fail"}
    BY <1>0, GoesTo, SMT DEF UploadArchive, UploadManifest, Call
  <1>2. /\ archive' \in [Times -> Owners] /\ manifest' \in [Times -> Owners]
        /\ \A t \in Times : t # dir => archive'[t] = archive[t] /\ manifest'[t] = manifest[t]
        /\ \A t \in Times : t = dir =>
             \/ /\ pc = "upload" /\ manifest'[t] = manifest[t] /\ pc' \in {"publish", "fail"}
                /\ archive'[t] = "ours" \/ (archive'[t] = archive[t] /\ pc' = "fail")
             \/ /\ pc = "publish" /\ archive'[t] = archive[t] /\ pc' \in {"complete", "fail"}
                /\ manifest'[t] = "ours" \/ (manifest'[t] = manifest[t] /\ pc' = "fail")
    <2>1. archive \in [Times -> Owners] /\ manifest \in [Times -> Owners]
      BY <1>0 DEF BucketTypes
    <2>2. CASE UploadArchive
      <3>1. pc = "upload" /\ UNCHANGED manifest
        BY <2>2 DEF UploadArchive
      <3>2. \/ archive' = [archive EXCEPT ![dir] = "ours"] /\ pc' \in {"publish", "fail"}
            \/ archive' = archive /\ pc' = "fail"
        BY <1>0, <2>2, GoesTo DEF UploadArchive, Call
      <3> QED
        BY <1>0, <2>1, <3>1, <3>2, Called
    <2>3. CASE UploadManifest
      <3>1. pc = "publish" /\ UNCHANGED archive
        BY <2>3 DEF UploadManifest
      <3>2. \/ manifest' = [manifest EXCEPT ![dir] = "ours"] /\ pc' \in {"complete", "fail"}
            \/ manifest' = manifest /\ pc' = "fail"
        BY <1>0, <2>3, GoesTo DEF UploadManifest, Call
      <3> QED
        BY <1>0, <2>1, <3>1, <3>2, Called
    <2> QED
      BY <2>2, <2>3
  <1>3. BucketTypes' /\ \A s \in Stores : reconciledAt'[s] <= now'
    BY <1>0, <1>1, <1>2 DEF BucketInvariant, BucketTypes
  <1>4. ASSUME NEW t \in Times
        PROVE  /\ ClaimInOrder(t)' /\ DirectoryInOrder(t)' /\ RowInOrder(t)'
               /\ UploadInOrder(t)' /\ ListingInOrder(t)' /\ RetentionInOrder(t)'
               /\ archive[t] = "foreign" => archive'[t] = "foreign"
               /\ manifest[t] = "foreign" => manifest'[t] = "foreign"
    <2>1. /\ ClaimInOrder(t) /\ DirectoryInOrder(t) /\ RowInOrder(t) /\ UploadInOrder(t) /\ now \in Nat
      BY RowFacts, <1>4 DEF BucketInvariant
    <2>2. ListingInOrder(t)' /\ RetentionInOrder(t)'
      BY <1>1 DEF ListingInOrder, RetentionInOrder, Removing
    <2>3. CASE t # dir
      <3>1. job[t].state # "running"
        BY <1>0, <2>1, <2>3 DEF ClaimInOrder
      <3>2. ClaimInOrder(t)' /\ DirectoryInOrder(t)' /\ RowInOrder(t)'
        BY <1>0, <1>2, <2>1, <2>3, <3>1, <1>4, SameDirectory, SMT
      <3> QED
        BY <1>1, <1>2, <2>2, <2>3, <3>2, <1>4 DEF UploadInOrder
    <2>4. CASE t = dir
      <3>1. /\ job[t].state = "running" /\ manifest[t] = "none" /\ archive[t] # "foreign"
            /\ pc = "publish" => archive[t] = "ours"
        BY <1>0, <2>1, <2>4 DEF UploadInOrder, Uploading
      <3>2. /\ view'[t] = NoRow /\ view'[t].state = "absent" /\ ~view'[t].deleting
            /\ job'[t] # NoJob /\ job'[t].state = "running"
        BY <1>0, <2>1, <3>1, RowFields DEF ClaimInOrder
      <3>3. ClaimInOrder(t)'
        BY <1>0, <1>1, <2>1, <2>4, <3>2 DEF ClaimInOrder, Uploading
      <3>4. /\ archive'[t] # "foreign" /\ manifest'[t] # "foreign"
            /\ pc' = "publish" => archive'[t] = "ours" /\ manifest'[t] = "none"
            /\ pc' = "complete" => manifest'[t] = "ours"
        BY <1>2, <2>4, <3>1, <1>4
      <3>5. DirectoryInOrder(t)' /\ RowInOrder(t)'
        BY <3>2, <3>4 DEF DirectoryInOrder, RowInOrder, Past
      <3>6. UploadInOrder(t)'
        BY <1>1, <3>2, <3>4 DEF UploadInOrder, Orphan
      <3> QED
        BY <2>2, <3>1, <3>3, <3>5, <3>6
    <2> QED
      BY <2>3, <2>4
  <1> QED
    BY <1>3, <1>4 DEF BucketInvariant

\* CompleteBackupJob, FailBackupJob, the interruption of running jobs at Start,
\* and PruneJobs: what becomes of a claim.
LEMMA ClaimChanges ==
    ASSUME BucketInvariant,
           CompleteBackupJob \/ FailBackupJob \/ PruneJobs \/ Start
    PROVE  /\ UNCHANGED <<now, archive, manifest, home, view, reconciledAt, active>>
           /\ pc' \in {"idle", "list"} /\ store' \in Stores /\ todo' \subseteq Times
           /\ job' \in [Times -> JobRow]
           /\ \A t \in Times :
                \/ job'[t] = job[t] /\ job[t].state # "running"
                \/ job'[t] = NoJob /\ job[t].state # "running" /\ Prunable(t)
                \/ job[t].state = "running" /\ job'[t] = [state |-> "succeeded", finished |-> now] /\ ~Orphan(t)
                \/ job[t].state = "running" /\ job'[t] = [state |-> "failed", finished |-> now]
  <1>0. /\ UNCHANGED <<now, archive, manifest, home, view, reconciledAt, active>>
        /\ pc \in {"complete", "fail", "prune", "down"}
        /\ BucketTypes /\ job \in [Times -> JobRow] /\ now \in Nat
    BY DEF CompleteBackupJob, FailBackupJob, PruneJobs, Start, bucket, settings, BucketInvariant, BucketTypes
  <1>1. pc' \in {"idle", "list"} /\ store' \in Stores /\ todo' \subseteq Times
    BY <1>0, GoesTo DEF CompleteBackupJob, FailBackupJob, PruneJobs, Start
  <1>2. /\ [state |-> "succeeded", finished |-> now] \in JobRow /\ [state |-> "failed", finished |-> now] \in JobRow
    BY <1>0 DEF JobRow
  <1>3. \A t \in Times : /\ t # dir /\ pc # "down" => job[t].state # "running"
                         /\ pc = "prune" => job[t].state # "running"
                         /\ t = dir /\ pc \in {"complete", "fail"} => job[t].state = "running"
                         /\ t = dir /\ pc = "complete" => ~Orphan(t)
    BY <1>0 DEF BucketInvariant, ClaimInOrder, UploadInOrder, Uploading
  <1>4. CASE CompleteBackupJob
    <2>1. job' = [job EXCEPT ![dir] = [state |-> "succeeded", finished |-> now]] /\ pc = "complete"
      BY <1>4 DEF CompleteBackupJob
    <2>2. /\ job' \in [Times -> JobRow]
          /\ dir \in Times => job'[dir] = [state |-> "succeeded", finished |-> now]
          /\ \A t \in Times : t # dir => job'[t] = job[t]
      BY <1>0, <1>2, <2>1, Update
    <2> QED
      BY <1>0, <1>1, <1>3, <2>1, <2>2
  <1>5. CASE FailBackupJob
    <2>1. job' = [job EXCEPT ![dir] = [state |-> "failed", finished |-> now]] /\ pc = "fail"
      BY <1>5 DEF FailBackupJob
    <2>2. /\ job' \in [Times -> JobRow]
          /\ dir \in Times => job'[dir] = [state |-> "failed", finished |-> now]
          /\ \A t \in Times : t # dir => job'[t] = job[t]
      BY <1>0, <1>2, <2>1, Update
    <2> QED
      BY <1>0, <1>1, <1>3, <2>1, <2>2
  <1>6. CASE PruneJobs
    <2>1. job' = [t \in Times |-> IF Prunable(t) THEN NoJob ELSE job[t]] /\ pc = "prune"
      BY <1>6 DEF PruneJobs
    <2>2. job' \in [Times -> JobRow]
      BY <1>0, <2>1, RowFields
    <2>3. \A t \in Times : job'[t] = job[t] \/ (job'[t] = NoJob /\ Prunable(t))
      BY <2>1
    <2> QED
      BY <1>0, <1>1, <1>3, <2>1, <2>2, <2>3
  <1>7. CASE Start
    <2>1. job' = [t \in Times |-> IF job[t].state = "running"
                                      THEN [state |-> "failed", finished |-> now] ELSE job[t]]
      BY <1>7 DEF Start
    <2>2. job' \in [Times -> JobRow]
      BY <1>0, <1>2, <2>1
    <2>3. \A t \in Times : \/ job'[t] = job[t] /\ job[t].state # "running"
                           \/ job[t].state = "running" /\ job'[t] = [state |-> "failed", finished |-> now]
      BY <2>1
    <2> QED
      BY <1>0, <1>1, <2>2, <2>3
  <1> QED
    BY <1>4, <1>5, <1>6, <1>7

LEMMA EndedClaim ==
    ASSUME NEW s \in {"succeeded", "failed"}
    PROVE  /\ [state |-> s, finished |-> now] # NoJob
           /\ [state |-> s, finished |-> now].state = s /\ [state |-> s, finished |-> now].finished = now
  BY DEF NoJob

\* A job's row goes only when it cannot be the proof of where an archive came from.
LEMMA ClaimsKeep ==
    ASSUME BucketInvariant,
           CompleteBackupJob \/ FailBackupJob \/ PruneJobs \/ Start
    PROVE  BucketInvariant' /\ UNCHANGED <<archive, manifest>>
  <1>0. /\ UNCHANGED <<now, archive, manifest, home, view, reconciledAt, active>> /\ BucketTypes
        /\ pc' \in {"idle", "list"} /\ store' \in Stores /\ todo' \subseteq Times
        /\ job' \in [Times -> JobRow]
    BY ClaimChanges DEF BucketInvariant
  <1>1. BucketTypes' /\ \A s \in Stores : reconciledAt'[s] <= now'
    BY <1>0 DEF BucketInvariant, BucketTypes
  <1>2. ASSUME NEW t \in Times
        PROVE  /\ ClaimInOrder(t)' /\ DirectoryInOrder(t)' /\ RowInOrder(t)'
    <2>1. /\ ClaimInOrder(t) /\ DirectoryInOrder(t) /\ RowInOrder(t)
          /\ now \in Nat /\ t \in Nat \ {0} /\ job[t].finished \in Nat /\ reconciledAt[home[t]] \in Nat
          /\ reconciledAt[home[t]] <= now /\ Orphan(t)' = Orphan(t)
      BY <1>0, RowFacts, <1>2 DEF BucketInvariant, Orphan
    <2>2. CASE job'[t] = job[t] /\ job[t].state # "running"
      BY <1>0, <2>1, <2>2, <1>2, SameDirectory, SMT
    <2>3. CASE job'[t] = NoJob /\ job[t].state # "running" /\ Prunable(t)
      <3>1. /\ job[t].finished > 0 /\ job[t].finished < now
            /\ view[t].state # "archive_only" /\ reconciledAt[home[t]] > job[t].finished
        BY <2>1, <2>3, SMT DEF Prunable, Day
      <3>2. job[t] # NoJob
        BY <3>1, RowFields, SMT
      <3>3. t < now /\ Past(t)'
        BY <1>0, <2>1, <3>1, <3>2, SMT DEF ClaimInOrder, Past
      <3>4. job'[t].state = "none"
        BY <2>3, RowFields
      <3>5. ClaimInOrder(t)'
        BY <2>3, <3>4 DEF ClaimInOrder
      <3>6. DirectoryInOrder(t)'
        BY <1>0, <2>1, <2>3, <3>3 DEF DirectoryInOrder
      <3>7. RowInOrder(t)'
        BY <1>0, <2>1, <2>3, <3>1, <3>4 DEF RowInOrder
      <3> QED
        BY <3>5, <3>6, <3>7
    <2>4. CASE /\ job[t].state = "running"
               /\ \/ job'[t] = [state |-> "succeeded", finished |-> now] /\ ~Orphan(t)
                  \/ job'[t] = [state |-> "failed", finished |-> now]
      <3>1. /\ view'[t] = NoRow /\ view'[t].state = "absent" /\ ~view'[t].deleting /\ job[t] # NoJob
        BY <1>0, <2>1, <2>4, RowFields DEF ClaimInOrder
      <3>2. /\ job'[t] # NoJob /\ job'[t].finished = now /\ job'[t].state \in {"succeeded", "failed"}
            /\ Orphan(t) => job'[t].state = "failed"
        BY <2>4, EndedClaim
      <3>3. ClaimInOrder(t)'
        BY <1>0, <2>1, <3>1, <3>2, SMT DEF ClaimInOrder
      <3>4. DirectoryInOrder(t)'
        BY <1>0, <2>1, <3>1, <3>2 DEF DirectoryInOrder, Past
      <3>5. RowInOrder(t)'
        BY <1>0, <2>1, <3>1, <3>2, SMT DEF RowInOrder
      <3> QED
        BY <3>3, <3>4, <3>5
    <2> QED
      BY <2>2, <2>3, <2>4, <1>2, ClaimChanges
  <1>3. \A t \in Times : UploadInOrder(t)' /\ ListingInOrder(t)' /\ RetentionInOrder(t)'
    BY <1>0, AtRest DEF Resting
  <1> QED
    BY <1>0, <1>1, <1>2, <1>3 DEF BucketInvariant

\* What other parties do to one directory's objects: publish into an hour nobody
\* has used, add the manifest, overwrite or remove a whole backup of ours.
Published(x) ==
    x = now /\ archive[x] = "none" /\ manifest[x] = "none" /\ job[x] = NoJob
    /\ archive'[x] = "foreign" /\ manifest'[x] = "none"
Announced(x) ==
    archive[x] = "foreign" /\ manifest[x] = "none"
    /\ archive'[x] = "foreign" /\ manifest'[x] = "foreign" /\ home'[x] = home[x]
Replaced(x) ==
    archive[x] = "ours" /\ manifest[x] = "ours" /\ ~(pc = "remove_manifest" /\ dir = x)
    /\ archive'[x] = "foreign" /\ manifest'[x] = "foreign" /\ home'[x] = home[x]
Withdrawn(x) ==
    archive[x] = "ours" /\ manifest[x] = "ours"
    /\ archive'[x] = "none" /\ manifest'[x] = "none" /\ home'[x] = home[x]

LEMMA OthersDo ==
    ASSUME BucketInvariant,
           ForeignArchive \/ ForeignManifest \/ Overwrite \/ RemoveByHand
    PROVE  /\ UNCHANGED <<now, view, job, reconciledAt, active, pc, phase, store, dir, listing, plan, todo>>
           /\ BucketTypes'
           /\ \E x \in Times :
                /\ \A t \in Times : t # x => archive'[t] = archive[t] /\ manifest'[t] = manifest[t] /\ home'[t] = home[t]
                /\ Published(x) \/ Announced(x) \/ Replaced(x) \/ Withdrawn(x)
  <1>0. UNCHANGED <<now, view, job, reconciledAt, active, pc, phase, store, dir, listing, plan, todo>>
    BY DEF ForeignArchive, ForeignManifest, Overwrite, RemoveByHand, records, worker, settings
  <1>1. /\ BucketTypes /\ {"none", "foreign"} \subseteq Owners /\ active \in Stores
        /\ archive \in [Times -> Owners] /\ manifest \in [Times -> Owners] /\ home \in [Times -> Stores]
    BY DEF BucketInvariant, BucketTypes, Owners
  <1>2. CASE ForeignArchive
    <2>1. /\ now \in Times /\ archive[now] = "none" /\ manifest[now] = "none" /\ job[now] = NoJob
          /\ archive' = [archive EXCEPT ![now] = "foreign"] /\ home' = [home EXCEPT ![now] = active]
          /\ UNCHANGED manifest
      BY <1>2, TimesAssumption DEF ForeignArchive
    <2>2. /\ archive' \in [Times -> Owners] /\ archive'[now] = "foreign"
          /\ \A t \in Times : t # now => archive'[t] = archive[t]
      BY <1>1, <2>1, Update
    <2>3. home' \in [Times -> Stores] /\ \A t \in Times : t # now => home'[t] = home[t]
      BY <1>1, <2>1, Update, SMT
    <2>4. BucketTypes'
      BY <1>0, <1>1, <2>1, <2>2, <2>3 DEF BucketTypes
    <2> QED
      BY <1>0, <2>1, <2>2, <2>3, <2>4 DEF Published
  <1>3. CASE ForeignManifest
    <2>1. PICK x \in Times : /\ archive[x] = "foreign" /\ manifest[x] = "none"
                             /\ manifest' = [manifest EXCEPT ![x] = "foreign"]
      BY <1>3, TimesAssumption DEF ForeignManifest
    <2>2. UNCHANGED <<archive, home>>
      BY <1>3 DEF ForeignManifest
    <2>3. /\ manifest' \in [Times -> Owners] /\ manifest'[x] = "foreign"
          /\ \A t \in Times : t # x => manifest'[t] = manifest[t]
      BY <1>1, <2>1, Update
    <2>4. BucketTypes'
      BY <1>0, <1>1, <2>2, <2>3 DEF BucketTypes
    <2> QED
      BY <1>0, <2>1, <2>2, <2>3, <2>4 DEF Announced
  <1>4. CASE Overwrite
    <2>1. PICK x \in Times : /\ archive[x] = "ours" /\ manifest[x] = "ours" /\ ~(pc = "remove_manifest" /\ dir = x)
                             /\ archive' = [archive EXCEPT ![x] = "foreign"]
                             /\ manifest' = [manifest EXCEPT ![x] = "foreign"]
      BY <1>4 DEF Overwrite
    <2>2. UNCHANGED home
      BY <1>4 DEF Overwrite
    <2>3. /\ archive' \in [Times -> Owners] /\ archive'[x] = "foreign"
          /\ \A t \in Times : t # x => archive'[t] = archive[t]
      BY <1>1, <2>1, Update
    <2>4. /\ manifest' \in [Times -> Owners] /\ manifest'[x] = "foreign"
          /\ \A t \in Times : t # x => manifest'[t] = manifest[t]
      BY <1>1, <2>1, Update, SMT
    <2>5. BucketTypes'
      BY <1>0, <1>1, <2>2, <2>3, <2>4 DEF BucketTypes
    <2> QED
      BY <1>0, <2>1, <2>2, <2>3, <2>4, <2>5 DEF Replaced
  <1>5. CASE RemoveByHand
    <2>1. PICK x \in Times : /\ archive[x] = "ours" /\ manifest[x] = "ours"
                             /\ archive' = [archive EXCEPT ![x] = "none"]
                             /\ manifest' = [manifest EXCEPT ![x] = "none"]
      BY <1>5 DEF RemoveByHand
    <2>2. UNCHANGED home
      BY <1>5 DEF RemoveByHand
    <2>3. /\ archive' \in [Times -> Owners] /\ archive'[x] = "none"
          /\ \A t \in Times : t # x => archive'[t] = archive[t]
      BY <1>1, <2>1, Update
    <2>4. /\ manifest' \in [Times -> Owners] /\ manifest'[x] = "none"
          /\ \A t \in Times : t # x => manifest'[t] = manifest[t]
      BY <1>1, <2>1, Update, SMT
    <2>5. BucketTypes'
      BY <1>0, <1>1, <2>2, <2>3, <2>4 DEF BucketTypes
    <2> QED
      BY <1>0, <2>1, <2>2, <2>3, <2>4, <2>5 DEF Withdrawn
  <1> QED
    BY <1>2, <1>3, <1>4, <1>5

\* The steps of other parties leave the records and the worker's plans valid: an
\* upload of theirs begins only where nothing of ours ever was, and what they
\* replace or remove is no archive that a plan of removal calls safe.
LEMMA OthersKeep ==
    ASSUME BucketInvariant,
           ForeignArchive \/ ForeignManifest \/ Overwrite \/ RemoveByHand
    PROVE  /\ BucketInvariant'
           /\ \A t \in Times : /\ archive[t] = "foreign" => archive'[t] = "foreign"
                               /\ manifest[t] = "foreign" => manifest'[t] = "foreign"
  <1>0. /\ UNCHANGED <<now, view, job, reconciledAt, active, pc, phase, store, dir, listing, plan, todo>>
        /\ BucketTypes' /\ \A s \in Stores : reconciledAt'[s] <= now'
    BY OthersDo DEF BucketInvariant
  <1>1. PICK x \in Times :
          /\ \A t \in Times : t # x => archive'[t] = archive[t] /\ manifest'[t] = manifest[t] /\ home'[t] = home[t]
          /\ Published(x) \/ Announced(x) \/ Replaced(x) \/ Withdrawn(x)
    BY OthersDo
  <1>2. ASSUME NEW t \in Times, t # x
        PROVE  /\ ClaimInOrder(t)' /\ DirectoryInOrder(t)' /\ RowInOrder(t)'
               /\ UploadInOrder(t)' /\ ListingInOrder(t)' /\ RetentionInOrder(t)'
    <2>1. now \in Nat
      BY <1>0 DEF BucketTypes
    <2> QED
      BY <1>0, <1>1, <1>2, <2>1, SameWorker, SMT
  <1>3. /\ ClaimInOrder(x) /\ DirectoryInOrder(x) /\ RowInOrder(x)
        /\ UploadInOrder(x) /\ ListingInOrder(x) /\ RetentionInOrder(x) /\ now \in Nat
    BY RowFacts DEF BucketInvariant
  <1>4. ClaimInOrder(x)' /\ Past(x)' = Past(x)
    BY <1>0, <1>3 DEF ClaimInOrder, Past
  <1>5. ASSUME Published(x)
        PROVE  /\ ClaimInOrder(x)' /\ DirectoryInOrder(x)' /\ RowInOrder(x)'
               /\ UploadInOrder(x)' /\ ListingInOrder(x)' /\ RetentionInOrder(x)'
    <2>1. /\ ~Past(x) /\ view[x] = NoRow /\ view[x].state = "absent" /\ ~view[x].deleting
          /\ job[x] = NoJob /\ job[x].state = "none"
      BY <1>3, <1>5, RowFields, SMT DEF Published, Past, DirectoryInOrder
    <2>2. ~Safe(x) /\ ~Orphan(x)' /\ archive'[x] = "foreign"
      BY <1>5, <2>1 DEF Published, Safe, Orphan
    <2>3. DirectoryInOrder(x)' /\ RowInOrder(x)'
      BY <1>0, <1>5, <2>1, <2>2 DEF DirectoryInOrder, RowInOrder, Published
    <2>4. UploadInOrder(x)' /\ ListingInOrder(x)'
      BY <1>0, <1>3, <2>1, <2>2 DEF UploadInOrder, ListingInOrder
    <2>5. RetentionInOrder(x)'
      BY <1>0, <1>3, <2>1, <2>2 DEF RetentionInOrder
    <2> QED
      BY <1>4, <2>3, <2>4, <2>5
  <1>6. ASSUME Announced(x) \/ Replaced(x)
        PROVE  /\ ClaimInOrder(x)' /\ DirectoryInOrder(x)' /\ RowInOrder(x)'
               /\ UploadInOrder(x)' /\ ListingInOrder(x)' /\ RetentionInOrder(x)'
    <2>1. /\ ~Safe(x) /\ ~Orphan(x)' /\ archive'[x] = "foreign" /\ manifest'[x] = "foreign" /\ home'[x] = home[x]
          /\ archive[x] = "ours" => Past(x)
          /\ ~(dir = x /\ pc \in {"upload", "publish", "remove_manifest"})
      BY <1>3, <1>6 DEF Announced, Replaced, Safe, Orphan, DirectoryInOrder, UploadInOrder, RetentionInOrder, Uploading
    <2>2. DirectoryInOrder(x)'
      BY <1>0, <1>3, <1>4, <2>1 DEF DirectoryInOrder
    <2>3. RowInOrder(x)'
      BY <1>0, <1>3, <2>1 DEF RowInOrder
    <2>4. UploadInOrder(x)'
      BY <1>0, <1>3, <2>1 DEF UploadInOrder
    <2>5. ListingInOrder(x)'
      BY <1>0, <1>3, <2>1 DEF ListingInOrder
    <2>6. RetentionInOrder(x)'
      BY <1>0, <1>3, <2>1 DEF RetentionInOrder
    <2> QED
      BY <1>4, <2>2, <2>3, <2>4, <2>5, <2>6
  <1>7. ASSUME Withdrawn(x)
        PROVE  /\ ClaimInOrder(x)' /\ DirectoryInOrder(x)' /\ RowInOrder(x)'
               /\ UploadInOrder(x)' /\ ListingInOrder(x)' /\ RetentionInOrder(x)'
    <2>1. /\ ~Orphan(x)' /\ archive'[x] = "none" /\ manifest'[x] = "none" /\ home'[x] = home[x] /\ Past(x)
          /\ ~(dir = x /\ pc \in {"upload", "publish"})
      BY <1>3, <1>7 DEF Withdrawn, Orphan, DirectoryInOrder, UploadInOrder, Uploading
    <2>2. Safe(x)'
      BY <1>4, <2>1 DEF Safe
    <2>3. DirectoryInOrder(x)'
      BY <1>0, <1>3, <1>4, <2>1 DEF DirectoryInOrder
    <2>4. RowInOrder(x)'
      BY <2>1, <2>2 DEF RowInOrder
    <2>5. UploadInOrder(x)' /\ ListingInOrder(x)'
      BY <1>0, <1>3, <1>4, <2>1, <2>2 DEF UploadInOrder, ListingInOrder
    <2>6. RetentionInOrder(x)'
      BY <1>0, <1>3, <2>1, <2>2 DEF RetentionInOrder
    <2> QED
      BY <1>4, <2>3, <2>4, <2>5, <2>6
  <1>8. /\ archive[x] = "foreign" => archive'[x] = "foreign"
        /\ manifest[x] = "foreign" => manifest'[x] = "foreign"
    BY <1>1 DEF Published, Announced, Replaced, Withdrawn
  <1>9. BucketInvariant'
    BY <1>0, <1>1, <1>2, <1>5, <1>6, <1>7 DEF BucketInvariant
  <1> QED
    BY <1>1, <1>8, <1>9

\* The clock, the update, versioning, the settings, and the process dying.
LEMMA SurroundingsKeep ==
    ASSUME BucketInvariant,
           \/ Crash \/ Tick \/ MaintenanceOn \/ MaintenanceOff \/ Unprotect \/ Protect
           \/ PutStorage \/ UNCHANGED vars
    PROVE  BucketInvariant' /\ UNCHANGED <<archive, manifest>>
  <1>0. BucketTypes /\ now \in Nat /\ active \in Stores
    BY DEF BucketInvariant, BucketTypes
  <1>1. UNCHANGED <<archive, manifest, home, view, job, reconciledAt>>
    BY DEF Crash, Tick, MaintenanceOn, MaintenanceOff, Unprotect, Protect, PutStorage, vars,
           bucket, records
  <1>2. CASE Crash
    <2>1. /\ UNCHANGED <<now, active>> /\ pc' = "down" /\ store' \in Stores /\ todo' \subseteq Times
      BY <1>0, <1>2, GoesTo DEF Crash, settings
    <2>2. now' \in Nat /\ now <= now' /\ active' \in Stores
      BY <1>0, <2>1, SMT
    <2> QED
      BY <1>1, <2>1, <2>2, QuietBucket
  <1>3. CASE Tick
    <2>1. /\ now' \in Times /\ now' > now
          /\ UNCHANGED <<active, pc, phase, store, dir, listing, plan, todo>>
      BY <1>3 DEF Tick, worker, settings
    <2>2. now' \in Nat /\ now <= now'
      BY <1>0, <2>1, TimesAssumption, SMT
    <2> QED
      BY <1>0, <1>1, <2>1, <2>2, QuietBucket
  <1>4. CASE \/ MaintenanceOn \/ MaintenanceOff \/ Unprotect \/ Protect \/ PutStorage \/ UNCHANGED vars
    <2>1. UNCHANGED <<now, pc, phase, store, dir, listing, plan, todo>> /\ active' \in Stores
      BY <1>0, <1>4
      DEF MaintenanceOn, MaintenanceOff, Unprotect, Protect, PutStorage, vars, worker
    <2> QED
      BY <1>0, <1>1, <2>1, QuietBucket, SMT
  <1> QED
    BY <1>2, <1>3, <1>4

\* Every step of the worker and of everybody around it keeps the invariant, and
\* none removes an object of another installation.
THEOREM BucketStep ==
    BucketInvariant /\ [Next]_vars =>
             /\ BucketInvariant'
             /\ \A t \in Times : /\ archive[t] = "foreign" => archive'[t] = "foreign"
                                 /\ manifest[t] = "foreign" => manifest'[t] = "foreign"
  <1> SUFFICES ASSUME BucketInvariant, [Next]_vars
               PROVE  /\ BucketInvariant'
                      /\ \A t \in Times : /\ archive[t] = "foreign" => archive'[t] = "foreign"
                                          /\ manifest[t] = "foreign" => manifest'[t] = "foreign"
    OBVIOUS
  <1>1. CASE Reconcile \/ ListBackups \/ Retain \/ NextPhase \/ NextItem
    <2>1. UNCHANGED <<archive, manifest>>
      BY <1>1 DEF Reconcile, ListBackups, Retain, NextPhase, NextItem, bucket
    <2> QED
      BY <1>1, <2>1, PlanningKeeps
  <1>2. CASE ReplacePrefix \/ Settle
    <2>1. UNCHANGED <<archive, manifest>>
      BY <1>2 DEF ReplacePrefix, Settle, bucket
    <2> QED
      BY <1>2, <2>1, RecordingKeeps, SettlingKeeps
  <1>3. CASE CheckManifest \/ MarkBackupArchiveOnly \/ ForgetBucketBackup \/ DeleteLocalBackupRow
    <2>1. UNCHANGED <<archive, manifest>>
      BY <1>3 DEF CheckManifest, MarkBackupArchiveOnly, ForgetBucketBackup, DeleteLocalBackupRow, bucket
    <2> QED
      BY <1>3, <2>1, MarkingKeeps
  <1>4. CASE RemoveManifest \/ RemoveArchive
    BY <1>4, RemovingKeeps
  <1>5. CASE UploadArchive \/ UploadManifest
    BY <1>5, UploadingKeeps
  <1>6. CASE StartUpload
    BY <1>6, ClaimingKeeps
  <1>7. CASE CompleteBackupJob \/ FailBackupJob \/ PruneJobs \/ Start
    BY <1>7, ClaimsKeep
  <1>8. CASE ForeignArchive \/ ForeignManifest \/ Overwrite \/ RemoveByHand
    BY <1>8, OthersKeep
  <1>9. CASE \/ Crash \/ Tick \/ MaintenanceOn \/ MaintenanceOff \/ Unprotect \/ Protect
             \/ PutStorage \/ UNCHANGED vars
    BY <1>9, SurroundingsKeep
  <1> QED
    BY <1>1, <1>2, <1>3, <1>4, <1>5, <1>6, <1>7, <1>8, <1>9 DEF Next, PassStep, BackupStep, Others

\* However long ago a backup failed, whichever store was configured since and
\* whatever was pruned, an archive of ours without a manifest can still be proved
\* ours (PruneJobs, ReplacePrefix, deleteBackup).
THEOREM ArchivesKeepProvenance ==
    Spec => []ProvenanceKept
  <1>1. Init => BucketInvariant
    BY BucketInit
  <1>2. BucketInvariant /\ [Next]_vars => BucketInvariant'
    BY BucketStep
  <1>3. BucketInvariant => ProvenanceKept
    BY DEF BucketInvariant, RowInOrder, Orphan, ProvenanceKept
  <1> QED
    BY <1>1, <1>2, <1>3, PTL DEF Spec

\* No step ever removes or replaces an object another installation wrote, with
\* any hours, stores and policy, however often settings change, calls fail and
\* others overwrite what is cached as ours (retain, deleteBackup).
THEOREM ForeignObjectsStay ==
    Spec => ForeignUntouched
  <1> DEFINE Stay == \A t \in Times : /\ archive[t] = "foreign" => archive'[t] = "foreign"
                                      /\ manifest[t] = "foreign" => manifest'[t] = "foreign"
  <1>1. Init => BucketInvariant
    BY BucketInit
  <1>2. BucketInvariant /\ [Next]_vars => BucketInvariant'
    BY BucketStep
  <1>3. BucketInvariant /\ [Next]_vars => [Stay]_vars
    BY BucketStep
  <1> QED
    BY <1>1, <1>2, <1>3, PTL DEF Spec, ForeignUntouched

(***************************************************************************)
(* The newest backup.  Retention decides from rows it read once, while     *)
(* others go on changing the bucket, so the invariant follows the backup   *)
(* that outlasts what is being removed: its row, not its objects, is what  *)
(* the worker's own steps leave alone.                                     *)
(***************************************************************************)
\* A set of natural numbers has a least one.
LEMMA LeastNumber ==
    ASSUME NEW T, T \subseteq Nat, T # {}
    PROVE  \E x \in T : \A y \in T : x <= y
  <1> DEFINE R == OpToRel(<, Nat)
  <1>1. PICK x \in T : \A y \in T : ~ (<<y, x>> \in R)
    <2>1. IsWellFoundedOn(R, Nat)
      BY NatLessThanWellFounded
    <2> HIDE DEF R
    <2> QED
      BY <2>1, WFMin
  <1>2. \A y \in T : ~ (y < x)
    BY <1>1 DEF OpToRel
  <1> QED
    BY <1>2, SMT

\* Among backups none of which is later than n there is a newest.
LEMMA NewestExists ==
    ASSUME NEW S, S \subseteq Nat, S # {}, NEW n \in Nat, \A t \in S : t <= n
    PROVE  Max(S) \in S /\ \A t \in S : t <= Max(S)
  <1> DEFINE Bounds == {k \in Nat : \A t \in S : t <= k}
  <1>1. PICK m \in Bounds : \A k \in Bounds : m <= k
    <2>1. Bounds \subseteq Nat /\ n \in Bounds
      OBVIOUS
    <2> HIDE DEF Bounds
    <2> QED
      BY <2>1, LeastNumber
  <1>2. m \in Nat /\ \A t \in S : t <= m
    BY <1>1
  <1>3. m \in S
    <2> SUFFICES ASSUME m \notin S PROVE FALSE
      OBVIOUS
    <2>1. \A t \in S : t <= m - 1 /\ m - 1 \in Nat
      BY <1>2, SMT
    <2>2. m - 1 \in Bounds
      BY <2>1
    <2>3. m <= m - 1
      BY <1>1, <2>2
    <2> QED
      BY <1>2, <2>3, SMT
  <1>4. \E x \in S : \A t \in S : x >= t
    BY <1>2, <1>3, SMT
  <1>5. Max(S) \in S /\ \A t \in S : Max(S) >= t
    BY <1>4 DEF Max
  <1> QED
    BY <1>5, SMT

\* Whatever the policy, the newest of the backups is not expired.
LEMMA NewestNotExpired ==
    ASSUME NEW S, NEW p, NEW at
    PROVE  SelectExpired(S, p, at) \subseteq S \ {Max(S)}
  BY DEF SelectExpired

\* Nothing is in the bucket before its hour, and no manifest of ours stands alone.
ObjectsInOrder(t) ==
    /\ archive[t] # "none" => t <= now
    /\ manifest[t] = "ours" => archive[t] = "ours"

\* A pass that has recorded its listing leaves no delete mark on a complete row.
SettledInOrder(t) ==
    pc \in {"settle", "retain"} /\ home[t] = store /\ view[t].state = "complete" => ~view[t].deleting

\* While half-done deletions are finished, the complete rows stay as they were read.
PlannedInOrder(t) ==
    pc \in Removing /\ phase = "finish" /\ plan[t].state = "complete" =>
      /\ t <= now /\ t \notin todo /\ (pc = "next" \/ t # dir)
      /\ home[t] = store /\ view[t] = plan[t] /\ ~view[t].deleting

\* u is newer than what is still to be removed, and its row calls it ours.
Outlasts(u) ==
    /\ u <= now /\ home[u] = store /\ view[u].owner = "ours" /\ ~view[u].deleting
    /\ u \notin todo /\ (pc = "next" \/ u # dir)
    /\ \A t \in todo : t < u /\ home[t] = store
    /\ pc \in {"check", "remove_manifest"} => dir \in Times /\ dir < u /\ home[dir] = store

Expiring == pc \in Removing /\ phase = "expire" /\ (pc = "next" => todo # {})

PlansInOrder ==
    /\ \A t \in Times : SettledInOrder(t) /\ PlannedInOrder(t)
    /\ Expiring => \E u \in Times : Outlasts(u)

NewestInvariant == PlansInOrder /\ \A t \in Times : ObjectsInOrder(t)

\* The worker is not deciding or removing anything.
LEMMA NoPlans ==
    ASSUME pc' \notin Removing \cup {"settle", "retain"}
    PROVE  PlansInOrder'
  BY DEF PlansInOrder, SettledInOrder, PlannedInOrder, Expiring, Removing

\* A recorded directory lies in the past.
LEMMA RecordedBefore ==
    ASSUME BucketInvariant, NewestInvariant, NEW t \in Times, view[t] # NoRow
    PROVE  t <= now
  <1>1. ClaimInOrder(t) /\ DirectoryInOrder(t) /\ ObjectsInOrder(t) /\ t \in Nat /\ now \in Nat
    BY RowFacts DEF BucketInvariant, NewestInvariant
  <1>2. Past(t) \/ archive[t] = "foreign"
    BY <1>1 DEF DirectoryInOrder
  <1>3. CASE archive[t] = "foreign"
    BY <1>1, <1>3 DEF ObjectsInOrder
  <1>4. CASE Past(t)
    BY <1>1, <1>4, SMT DEF Past, ClaimInOrder
  <1> QED
    BY <1>2, <1>3, <1>4

\* What the plans rest on, while others act: a directory can change stores only
\* in its own hour and before anything is recorded of it.
LEMMA PlansStand ==
    ASSUME BucketInvariant, NewestInvariant, now' \in Nat, now <= now',
           UNCHANGED <<view, pc, phase, store, dir, plan, todo>>,
           \A t \in Times : home'[t] = home[t] \/ (view[t] = NoRow /\ t = now)
    PROVE  PlansInOrder'
  <1>0. /\ now \in Nat /\ Times \subseteq Nat /\ todo \subseteq Times
        /\ NoRow.state = "absent" /\ NoRow.owner = "none"
    BY RowFields, TimesAssumption DEF BucketInvariant, BucketTypes
  <1>1. ASSUME NEW t \in Times PROVE t <= now => t <= now'
    BY <1>0, SMT
  <1>2. ASSUME NEW t \in Times PROVE SettledInOrder(t)' /\ PlannedInOrder(t)'
    <2>1. SettledInOrder(t) /\ PlannedInOrder(t)
      BY DEF NewestInvariant, PlansInOrder
    <2>2. CASE home'[t] = home[t]
      BY <1>1, <2>1, <2>2 DEF SettledInOrder, PlannedInOrder
    <2>3. CASE view[t] = NoRow
      <3>1. view[t].state = "absent" /\ view'[t].state = "absent"
        BY <1>0, <2>3
      <3>2. SettledInOrder(t)'
        BY <3>1 DEF SettledInOrder
      <3>3. pc \in Removing /\ phase = "finish" => plan[t].state # "complete"
        BY <2>1, <3>1 DEF PlannedInOrder
      <3> QED
        BY <3>2, <3>3 DEF PlannedInOrder
    <2> QED
      BY <2>2, <2>3
  <1>3. ASSUME Expiring' PROVE \E u \in Times : Outlasts(u)'
    <2>1. PICK u \in Times : Outlasts(u)
      BY <1>3 DEF NewestInvariant, PlansInOrder, Expiring
    <2>2. home'[u] = home[u]
      BY <1>0, <2>1 DEF Outlasts
    <2>3. ASSUME NEW t \in Times, t < u PROVE home'[t] = home[t]
      <3>1. t # now
        BY <1>0, <2>1, <2>3, SMT DEF Outlasts
      <3> QED
        BY <3>1
    <2>4. Outlasts(u)'
      BY <1>0, <1>1, <2>1, <2>2, <2>3 DEF Outlasts
    <2> QED
      BY <2>4
  <1> QED
    BY <1>2, <1>3 DEF PlansInOrder

\* While one directory is removed, the rows of the others stay.
LEMMA PlansAdvance ==
    ASSUME NewestInvariant, pc \in Removing \ {"next"}, pc' \in Removing,
           UNCHANGED <<now, home, phase, store, dir, plan, todo>>,
           \A t \in Times : t # dir => view'[t] = view[t],
           pc' \in {"check", "remove_manifest"} => pc \in {"check", "remove_manifest"}
    PROVE  PlansInOrder'
  <1>1. ASSUME NEW t \in Times PROVE SettledInOrder(t)' /\ PlannedInOrder(t)'
    <2>1. PlannedInOrder(t)
      BY DEF NewestInvariant, PlansInOrder
    <2> QED
      BY <2>1 DEF SettledInOrder, PlannedInOrder, Removing
  <1>2. ASSUME Expiring' PROVE \E u \in Times : Outlasts(u)'
    <2>1. PICK u \in Times : Outlasts(u)
      BY <1>2 DEF NewestInvariant, PlansInOrder, Expiring
    <2>2. Outlasts(u)'
      BY <2>1 DEF Outlasts
    <2> QED
      BY <2>2
  <1> QED
    BY <1>1, <1>2 DEF PlansInOrder

\* ReplacePrefix, and Settle and Retain after it.
LEMMA DecidingPlans ==
    ASSUME BucketInvariant, NewestInvariant, ReplacePrefix \/ Settle \/ Retain
    PROVE  PlansInOrder'
  <1>0. UNCHANGED <<now, home>> /\ pc \in {"record", "settle", "retain"}
    BY DEF ReplacePrefix, Settle, Retain, bucket
  <1>1. \A t \in Times : SettledInOrder(t)
    BY DEF NewestInvariant, PlansInOrder
  <1>2. CASE ReplacePrefix
    <2>0. pc' = "settle" /\ UNCHANGED store
      BY <1>2 DEF ReplacePrefix
    <2>1. PICK unreadable \in SUBSET Times :
            view' = [t \in Times |-> IF home[t] = store THEN Recorded(t, unreadable) ELSE view[t]]
      BY <1>2 DEF ReplacePrefix
    <2>2. ASSUME NEW t \in Times, home[t] = store, view'[t].state = "complete" PROVE ~view'[t].deleting
      <3>1. view'[t] = Recorded(t, unreadable)
        BY <2>1, <2>2
      <3> QED
        BY <2>2, <3>1, RecordedRow
    <2> QED
      BY <1>0, <2>0, <2>2 DEF PlansInOrder, SettledInOrder, PlannedInOrder, Expiring, Removing
  <1>3. CASE Settle
    <2>1. CASE pc' = "retain"
      <3>1. UNCHANGED <<store, view>> /\ pc = "settle"
        BY <1>3, <2>1 DEF Settle, GoTo
      <3> QED
        BY <1>0, <1>1, <2>1, <3>1 DEF PlansInOrder, SettledInOrder, PlannedInOrder, Expiring, Removing
    <2>2. CASE pc' = "idle"
      BY <2>2, NoPlans DEF Removing
    <2> QED
      BY <1>3, <2>1, <2>2 DEF Settle, GoTo
  <1>4. CASE Retain
    <2>0. UNCHANGED <<view, store>> /\ pc = "retain"
      BY <1>4 DEF Retain, records
    <2>1. CASE pc' = "prune"
      BY <2>1, NoPlans DEF Removing
    <2>2. CASE pc' = "next"
      <3>0. phase' = "finish" /\ plan' = Rows /\ todo' = {t \in Times : Rows[t].state = "archive_only" /\ Rows[t].deleting}
        BY <1>4, <2>2 DEF Retain
      <3>1. ASSUME NEW t \in Times, plan'[t].state = "complete"
            PROVE  /\ t <= now /\ t \notin todo' /\ home[t] = store /\ view[t] = plan'[t] /\ ~view[t].deleting
        <4>1. plan'[t] = view[t] /\ home[t] = store /\ view[t] # NoRow
          BY <3>0, <3>1, RowFields DEF Rows
        <4>2. t \notin todo'
          BY <3>0, <3>1
        <4> QED
          BY <1>1, <2>0, <3>1, <4>1, <4>2, RecordedBefore DEF SettledInOrder
      <3> QED
        BY <1>0, <2>0, <2>2, <3>0, <3>1 DEF PlansInOrder, SettledInOrder, PlannedInOrder, Expiring
    <2> QED
      BY <1>4, <2>1, <2>2 DEF Retain
  <1> QED
    BY <1>2, <1>3, <1>4

\* NextPhase and NextItem: what is expired is older than the newest complete row.
LEMMA ChoosingPlans ==
    ASSUME BucketInvariant, NewestInvariant, NextPhase \/ NextItem
    PROVE  PlansInOrder'
  <1>0. /\ UNCHANGED <<now, home, view, store, plan>> /\ pc = "next" /\ now \in Nat
        /\ Times \subseteq Nat /\ todo \subseteq Times
    BY TimesAssumption DEF NextPhase, NextItem, bucket, records, BucketInvariant, BucketTypes
  <1>1. \A t \in Times : PlannedInOrder(t)
    BY DEF NewestInvariant, PlansInOrder
  <1>2. CASE NextPhase
    <2>1. CASE pc' = "prune"
      BY <2>1, NoPlans DEF Removing
    <2>2. CASE pc' = "next" /\ phase = "finish"
      <3> DEFINE C == {t \in Times : plan[t].state = "complete"}
      <3>0. /\ phase' = "expire" /\ ~Blocked(plan) /\ todo' = SelectExpired(C, Policy, now)
        BY <1>2, <2>2 DEF NextPhase
      <3>1. ASSUME NEW t \in C
            PROVE  t \in Times /\ t <= now /\ home[t] = store /\ view[t].owner = "ours" /\ ~view[t].deleting
        <4>1. view[t] = plan[t] /\ t <= now /\ home[t] = store /\ ~view[t].deleting
          BY <1>0, <1>1, <2>2 DEF PlannedInOrder, Removing
        <4>2. plan[t].owner = "ours"
          BY <3>0 DEF Blocked
        <4> QED
          BY <4>1, <4>2
      <3>2. C \subseteq Times
        OBVIOUS
      <3> HIDE DEF C
      <3>3. todo' \subseteq C \ {Max(C)}
        BY <3>0, NewestNotExpired
      <3>4. ASSUME todo' # {} PROVE \E u \in Times : Outlasts(u)'
        <4>1. C # {} /\ C \subseteq Nat
          BY <1>0, <3>2, <3>3, <3>4
        <4>2. PICK u \in C : u = Max(C) /\ \A t \in C : t <= u
          BY <1>0, <3>1, <4>1, NewestExists
        <4>3. ASSUME NEW t \in todo' PROVE t < u /\ home[t] = store
          <5>1. t \in C /\ t # u /\ t <= u
            BY <3>3, <4>2
          <5>2. t < u
            BY <4>1, <5>1, SMT
          <5> QED
            BY <3>1, <5>1, <5>2
        <4>4. u \in Times /\ u <= now /\ home[u] = store /\ view[u].owner = "ours" /\ ~view[u].deleting
          BY <3>1
        <4>5. u \notin todo'
          BY <3>3, <4>2
        <4>6. Outlasts(u)'
          BY <1>0, <2>2, <4>3, <4>4, <4>5 DEF Outlasts
        <4> QED
          BY <4>4, <4>6
      <3> QED
        BY <2>2, <3>0, <3>4 DEF PlansInOrder, SettledInOrder, PlannedInOrder, Expiring
    <2>3. CASE pc' = "next" /\ phase # "finish"
      <3>1. phase' = "clean"
        BY <1>2, <2>3 DEF NextPhase
      <3> QED
        BY <2>3, <3>1 DEF PlansInOrder, SettledInOrder, PlannedInOrder, Expiring
    <2> QED
      BY <1>0, <1>2, <2>1, <2>2, <2>3 DEF NextPhase
  <1>3. CASE NextItem
    <2>0. /\ dir' \in todo /\ todo' = todo \ {dir'} /\ UNCHANGED phase
          /\ pc' = (IF phase = "expire" THEN "check" ELSE "remove_archive")
      BY <1>3 DEF NextItem
    <2>1. ASSUME NEW t \in Times PROVE SettledInOrder(t)' /\ PlannedInOrder(t)'
      BY <1>0, <1>1, <2>0 DEF SettledInOrder, PlannedInOrder, Removing
    <2>2. ASSUME Expiring' PROVE \E u \in Times : Outlasts(u)'
      <3>1. PICK u \in Times : Outlasts(u)
        BY <1>0, <2>0, <2>2 DEF NewestInvariant, PlansInOrder, Expiring, Removing
      <3>2. Outlasts(u)'
        BY <1>0, <2>0, <3>1 DEF Outlasts
      <3> QED
        BY <3>2
    <2> QED
      BY <2>1, <2>2 DEF PlansInOrder
  <1> QED
    BY <1>2, <1>3

\* Steps of the worker on the directory it has before it.
LEMMA WorkingPlans ==
    ASSUME BucketInvariant, NewestInvariant,
           \/ CheckManifest \/ RemoveManifest \/ MarkBackupArchiveOnly \/ RemoveArchive
           \/ ForgetBucketBackup \/ DeleteLocalBackupRow
    PROVE  PlansInOrder'
  <1>0. /\ UNCHANGED <<now, home>> /\ BucketTypes
    BY DEF CheckManifest, RemoveManifest, MarkBackupArchiveOnly, RemoveArchive, ForgetBucketBackup,
           DeleteLocalBackupRow, bucket, BucketInvariant
  <1>1. \A t \in Times : t # dir => view'[t] = view[t]
    BY <1>0
    DEF CheckManifest, RemoveManifest, MarkBackupArchiveOnly, RemoveArchive, ForgetBucketBackup,
        DeleteLocalBackupRow, records, BucketTypes
  <1>2. \E s \in {"remove_manifest", "prune", "mark", "remove_archive", "forget", "next", "unlist"} :
          GoTo(s) /\ (s = "remove_manifest" => pc = "check")
    BY DEF CheckManifest, RemoveManifest, MarkBackupArchiveOnly, RemoveArchive, ForgetBucketBackup,
           DeleteLocalBackupRow, Call
  <1>3. /\ UNCHANGED <<phase, store, dir, plan, todo>>
        /\ pc' \in {"remove_manifest", "prune", "mark", "remove_archive", "forget", "next", "unlist"}
        /\ pc' = "remove_manifest" => pc = "check"
    BY <1>0, <1>2, GoesTo
  <1>4. pc \in Removing \ {"next"}
    BY DEF CheckManifest, RemoveManifest, MarkBackupArchiveOnly, RemoveArchive, ForgetBucketBackup,
           DeleteLocalBackupRow, Removing
  <1>5. CASE pc' = "prune"
    BY <1>5, NoPlans DEF Removing
  <1>6. CASE pc' # "prune"
    <2>1. pc' \in Removing
      BY <1>3, <1>6 DEF Removing
    <2> QED
      BY <1>0, <1>1, <1>3, <1>4, <2>1, PlansAdvance
  <1> QED
    BY <1>5, <1>6

\* The worker's calls leave the objects in order: an archive is uploaded before
\* its manifest, and removed after it.
LEMMA CallsKeepObjects ==
    ASSUME BucketInvariant, NewestInvariant,
           UploadArchive \/ UploadManifest \/ RemoveManifest \/ RemoveArchive, NEW t \in Times
    PROVE  ObjectsInOrder(t)'
  <1>0. /\ UNCHANGED now /\ ObjectsInOrder(t) /\ ClaimInOrder(t) /\ UploadInOrder(t) /\ RetentionInOrder(t)
        /\ BucketTypes /\ {"none", "ours"} \subseteq Owners /\ NoJob.state = "none"
        /\ archive \in [Times -> Owners] /\ manifest \in [Times -> Owners]
    BY RowFields
    DEF UploadArchive, UploadManifest, RemoveManifest, RemoveArchive, BucketInvariant, NewestInvariant,
        BucketTypes, Owners
  <1>1. CASE UploadArchive
    <2>1. UNCHANGED manifest /\ (archive'[t] = archive[t] \/ (t = dir /\ archive'[t] = "ours"))
      BY <1>0, <1>1 DEF UploadArchive, Call
    <2>2. t = dir => t <= now
      BY <1>0, <1>1 DEF UploadArchive, UploadInOrder, ClaimInOrder, Uploading
    <2> QED
      BY <1>0, <2>1, <2>2 DEF ObjectsInOrder
  <1>2. CASE UploadManifest
    <2>1. UNCHANGED archive /\ (manifest'[t] = manifest[t] \/ (t = dir /\ manifest'[t] = "ours"))
      BY <1>0, <1>2 DEF UploadManifest, Call
    <2>2. t = dir => archive[t] = "ours"
      BY <1>0, <1>2 DEF UploadManifest, UploadInOrder, Uploading
    <2> QED
      BY <1>0, <2>1, <2>2 DEF ObjectsInOrder
  <1>3. CASE RemoveManifest
    <2>1. UNCHANGED archive /\ (manifest'[t] = manifest[t] \/ manifest'[t] = "none")
      BY <1>0, <1>3 DEF RemoveManifest, Call
    <2> QED
      BY <1>0, <2>1 DEF ObjectsInOrder
  <1>4. CASE RemoveArchive
    <2>1. UNCHANGED manifest /\ (archive'[t] = archive[t] \/ (t = dir /\ archive'[t] = "none"))
      BY <1>0, <1>4 DEF RemoveArchive, Call
    <2>2. t = dir => manifest[t] = "none"
      BY <1>0, <1>4 DEF RemoveArchive, RetentionInOrder, Safe
    <2> QED
      BY <1>0, <2>1, <2>2 DEF ObjectsInOrder
  <1> QED
    BY <1>1, <1>2, <1>3, <1>4

\* Others publish in the present hour and leave whole backups behind.
LEMMA OthersKeepNewest ==
    ASSUME BucketInvariant, NewestInvariant, ForeignArchive \/ ForeignManifest \/ Overwrite \/ RemoveByHand
    PROVE  NewestInvariant'
  <1>0. /\ UNCHANGED <<now, view, pc, phase, store, dir, plan, todo>> /\ now \in Nat /\ now <= now
    BY OthersDo, SMT DEF BucketInvariant, BucketTypes
  <1>1. PICK x \in Times :
          /\ \A t \in Times : t # x => archive'[t] = archive[t] /\ manifest'[t] = manifest[t] /\ home'[t] = home[t]
          /\ Published(x) \/ Announced(x) \/ Replaced(x) \/ Withdrawn(x)
    BY OthersDo
  <1>2. home'[x] = home[x] \/ (view[x] = NoRow /\ x = now)
    <2>1. DirectoryInOrder(x) /\ x \in Nat
      BY RowFacts DEF BucketInvariant
    <2>2. CASE Published(x)
      <3>1. ~Past(x)
        BY <1>0, <2>2, SMT DEF Published, Past
      <3> QED
        BY <2>1, <2>2, <3>1 DEF Published, DirectoryInOrder
    <2> QED
      BY <1>1, <2>2 DEF Announced, Replaced, Withdrawn
  <1>3. PlansInOrder'
    BY <1>0, <1>1, <1>2, PlansStand
  <1>4. ASSUME NEW t \in Times PROVE ObjectsInOrder(t)'
    <2>1. ObjectsInOrder(t)
      BY DEF NewestInvariant
    <2>2. CASE t # x
      BY <1>0, <1>1, <2>1, <2>2 DEF ObjectsInOrder
    <2>3. CASE t = x
      BY <1>0, <1>1, <2>1, <2>3 DEF ObjectsInOrder, Published, Announced, Replaced, Withdrawn
    <2> QED
      BY <2>2, <2>3
  <1> QED
    BY <1>3, <1>4 DEF NewestInvariant

\* The steps of everybody keep what the newest backup rests on.
THEOREM NewestStep ==
    BucketInvariant /\ NewestInvariant /\ [Next]_vars => NewestInvariant'
  <1> SUFFICES ASSUME BucketInvariant, NewestInvariant, [Next]_vars
               PROVE  NewestInvariant'
    OBVIOUS
  <1>0. now \in Nat /\ now <= now
    BY SMT DEF BucketInvariant, BucketTypes
  <1>1. ASSUME UNCHANGED <<archive, manifest>>, now' \in Nat, now <= now', NEW t \in Times
        PROVE  ObjectsInOrder(t)'
    <2>1. ObjectsInOrder(t) /\ t \in Nat
      BY RowFacts DEF NewestInvariant
    <2> QED
      BY <1>0, <1>1, <2>1, SMT DEF ObjectsInOrder
  <1>2. CASE ReplacePrefix \/ Settle \/ Retain
    <2>1. UNCHANGED <<now, archive, manifest>>
      BY <1>2 DEF ReplacePrefix, Settle, Retain, bucket
    <2> QED
      BY <1>0, <1>1, <1>2, <2>1, DecidingPlans DEF NewestInvariant
  <1>3. CASE NextPhase \/ NextItem
    <2>1. UNCHANGED <<now, archive, manifest>>
      BY <1>3 DEF NextPhase, NextItem, bucket
    <2> QED
      BY <1>0, <1>1, <1>3, <2>1, ChoosingPlans DEF NewestInvariant
  <1>4. CASE CheckManifest \/ MarkBackupArchiveOnly \/ ForgetBucketBackup \/ DeleteLocalBackupRow
    <2>1. UNCHANGED <<now, archive, manifest>>
      BY <1>4 DEF CheckManifest, MarkBackupArchiveOnly, ForgetBucketBackup, DeleteLocalBackupRow, bucket
    <2> QED
      BY <1>0, <1>1, <1>4, <2>1, WorkingPlans DEF NewestInvariant
  <1>5. CASE RemoveManifest \/ RemoveArchive
    BY <1>5, CallsKeepObjects, WorkingPlans DEF NewestInvariant
  <1>6. CASE UploadArchive \/ UploadManifest
    <2>1. pc' \in {"publish", "complete", "fail"}
      BY <1>6 DEF UploadArchive, UploadManifest, Call, GoTo
    <2>2. PlansInOrder'
      BY <2>1, NoPlans DEF Removing
    <2> QED
      BY <1>6, <2>2, CallsKeepObjects DEF NewestInvariant
  <1>7. CASE \/ StartUpload \/ CompleteBackupJob \/ FailBackupJob \/ PruneJobs \/ Start \/ Crash
             \/ Reconcile \/ ListBackups
    <2>1. UNCHANGED <<now, archive, manifest>>
      BY <1>7 DEF StartUpload, CompleteBackupJob, FailBackupJob, PruneJobs, Start, Crash, Reconcile,
             ListBackups, bucket
    <2>2. pc' \in {"upload", "list", "idle", "down", "record"}
      BY <1>7 DEF StartUpload, CompleteBackupJob, FailBackupJob, PruneJobs, Start, Crash, Reconcile,
             ListBackups, GoTo
    <2>3. PlansInOrder'
      BY <2>2, NoPlans DEF Removing
    <2> QED
      BY <1>0, <1>1, <2>1, <2>3 DEF NewestInvariant
  <1>8. CASE ForeignArchive \/ ForeignManifest \/ Overwrite \/ RemoveByHand
    BY <1>8, OthersKeepNewest
  <1>9. CASE \/ Tick \/ MaintenanceOn \/ MaintenanceOff \/ Unprotect \/ Protect \/ PutStorage
             \/ UNCHANGED vars
    <2>1. UNCHANGED <<archive, manifest, home, view, pc, phase, store, dir, plan, todo>>
      BY <1>9
      DEF Tick, MaintenanceOn, MaintenanceOff, Unprotect, Protect, PutStorage, vars, bucket, records, worker
    <2>2. now' \in Nat /\ now <= now'
      <3>1. now' = now \/ (now' \in Times /\ now' > now)
        BY <1>9 DEF Tick, MaintenanceOn, MaintenanceOff, Unprotect, Protect, PutStorage, vars
      <3>2. now' \in Nat
        BY <1>0, <3>1, TimesAssumption
      <3> QED
        BY <1>0, <3>1, <3>2, SMT
    <2>3. PlansInOrder'
      BY <2>1, <2>2, PlansStand
    <2> QED
      BY <1>1, <2>1, <2>2, <2>3 DEF NewestInvariant
  <1> QED
    BY <1>2, <1>3, <1>4, <1>5, <1>6, <1>7, <1>8, <1>9 DEF Next, PassStep, BackupStep, Others

\* A manifest of ours goes only by somebody else's hand, or in retention, with a
\* newer backup in place.
LEMMA NewestStays ==
    ASSUME BucketInvariant, NewestInvariant, [Next]_vars, NEW t \in Times, Restorable(t), manifest'[t] = "none"
    PROVE  Others \/ \E u \in Times : u > t /\ home[u] = home[t] /\ (Restorable(u) \/ Unnoticed(u))
  <1>0. manifest[t] = "ours" /\ manifest \in [Times -> Owners]
    BY DEF Restorable, BucketInvariant, BucketTypes
  <1>1. CASE RemoveManifest
    <2>1. pc = "remove_manifest" /\ t = dir
      BY <1>0, <1>1 DEF RemoveManifest, Call
    <2>2. phase = "expire"
      BY <2>1 DEF BucketInvariant, RetentionInOrder
    <2>3. PICK u \in Times : Outlasts(u)
      BY <2>1, <2>2 DEF NewestInvariant, PlansInOrder, Expiring, Removing
    <2>4. t < u /\ home[u] = home[t] /\ view[u].owner = "ours" /\ ~view[u].deleting
      BY <2>1, <2>3 DEF Outlasts
    <2>5. u > t
      BY <2>4, TimesAssumption, SMT
    <2>6. Restorable(u) \/ Unnoticed(u)
      BY <2>4 DEF NewestInvariant, ObjectsInOrder, Restorable, Unnoticed
    <2> QED
      BY <2>4, <2>5, <2>6
  <1>2. CASE UploadManifest
    <2>1. manifest'[t] = manifest[t] \/ manifest'[t] = "ours"
      BY <1>0, <1>2 DEF UploadManifest, Call
    <2> QED
      BY <1>0, <2>1
  <1>3. CASE UNCHANGED manifest
    BY <1>0, <1>3
  <1>4. RemoveManifest \/ UploadManifest \/ UNCHANGED manifest \/ Others
    BY DEF Next, PassStep, BackupStep, StartUpload, UploadArchive, CompleteBackupJob, FailBackupJob,
           Reconcile, ListBackups, ReplacePrefix, Settle, Retain, NextPhase, NextItem, CheckManifest,
           MarkBackupArchiveOnly, RemoveArchive, ForgetBucketBackup, DeleteLocalBackupRow, PruneJobs,
           Start, Crash, Tick, MaintenanceOn, MaintenanceOff, Unprotect, Protect, bucket, vars
  <1> QED
    BY <1>1, <1>2, <1>3, <1>4

\* "Keep the newest backup always", with any hours, stores and policy: through
\* crashes, lost answers, changed settings and neighbours in the folder, Pgfy
\* gives up a restorable backup only while a newer one of the same store is
\* restorable, or was until somebody else removed it unnoticed (selectExpired,
\* retainDatabase, deleteBackup).
THEOREM NewestBackupStays ==
    Spec => NewestKept
  <1> DEFINE Inv == BucketInvariant /\ NewestInvariant
             GivesUp == \A t \in Times : Restorable(t) /\ manifest'[t] = "none" =>
                          \/ Others
                          \/ \E u \in Times : u > t /\ home[u] = home[t] /\ (Restorable(u) \/ Unnoticed(u))
  <1>1. Init => Inv
    <2>1. ASSUME Init PROVE NewestInvariant
      <3>1. /\ pc = "down"
            /\ \A t \in Times : archive[t] = "none" /\ manifest[t] = "none"
        BY <2>1 DEF Init
      <3> QED
        BY <3>1 DEF NewestInvariant, PlansInOrder, ObjectsInOrder, SettledInOrder, PlannedInOrder, Expiring, Removing
    <2> QED
      BY <2>1, BucketInit
  <1>2. Inv /\ [Next]_vars => Inv'
    BY BucketStep, NewestStep
  <1>3. Inv /\ [Next]_vars => [GivesUp]_vars
    BY NewestStays
  <1> HIDE DEF Inv
  <1> QED
    BY <1>1, <1>2, <1>3, PTL DEF Spec, NewestKept
=============================================================================
