------------------------- MODULE AccessPolicyProofs -------------------------
(***************************************************************************)
(* What the dashboard says about access is what PostgreSQL enforces, and a *)
(* deleted project leaves no rule behind: for every set of projects and    *)
(* requests, and any number of revisions, crashes and failed calls.        *)
(***************************************************************************)
EXTENDS AccessPolicy, TLAPS

\* Leaves that need arithmetic, records or many cases cite SMT.
USE Zenon

Stages == {"setup", "ready", "deleting", "gone"}
States == {"idle", "pending", "applied", "failed"}
Places == {"idle", "record", "changed", "sync", "syncing", "remove_records"}
Writing == {"validate", "load_time", "reload", "wait"}
Steps == {"none", "read", "applied", "failed"} \cup Writing
USE DEF Stages, States, Places, Writing, Steps

Revisions == [Projects -> Nat]
Asked == [project : Projects \cup {"none"}, stage : Stages \cup {"none"}, revision : Nat]

Types ==
    /\ stage \in [Projects -> Stages] /\ state \in [Projects -> States]
    /\ current \in Revisions /\ applied \in Revisions /\ file \in Revisions /\ loaded \in Revisions
    /\ rules \in Revisions /\ previous \in Revisions
    /\ pc \in [Actors -> Places] /\ asked \in [Actors -> Asked]
    /\ holder \in Actors \cup {"free"} /\ step \in Steps /\ todo \subseteq Projects

\* SyncPolicy runs in the goroutine that holds the mutex.
Mutex ==
    /\ \A a \in Actors : pc[a] = "syncing" <=> holder = a
    /\ holder = "free" <=> step = "none"

\* A request records a revision of the project it read.
Asking == \A r \in Requests : pc[r] = "record" => asked[r].project \in Projects

\* What SyncPolicy wrote and saw loaded is what it rendered.
Written ==
    /\ step \in Writing \cup {"applied"} => file = rules
    /\ step = "applied" => loaded = rules
    /\ step \in {"reload", "wait"} /\ fresh => loaded = file

\* Only projects that were once ready are rendered or reported.
OnceReady == \A p \in Projects : p \in todo \/ rules[p] # 0 \/ state[p] = "applied" => stage[p] # "setup"

\* A revision shown as applied is in force, in every file that may be put back,
\* and in the rules now being rendered.
InForce(p) ==
    /\ file[p] = current[p] /\ loaded[p] = current[p]
    /\ step = "read" => p \in todo \/ rules[p] = current[p]
    /\ step \in Writing => previous[p] = current[p] /\ rules[p] = current[p]

\* The project the deletion job works on.
Deletes(p) == asked["worker"].project = p /\ pc["worker"] \in {"sync", "syncing", "remove_records"}
\* A sync that began after the project stopped being ready leaves it out.
LeftOut(p) == p \notin todo /\ rules[p] = 0
Closed(p) == stage[p] = "gone" \/ (Deletes(p) /\ pc["worker"] = "remove_records")

Deletion ==
    /\ pc["worker"] \in {"sync", "syncing", "remove_records"} => asked["worker"].project \in Projects
    /\ \A p \in Projects :
         /\ Deletes(p) => stage[p] = "deleting"
         /\ Deletes(p) /\ holder = "worker" => LeftOut(p)
         /\ Closed(p) => LeftOut(p) /\ file[p] = 0 /\ loaded[p] = 0 /\ previous[p] = 0

Enforcement == \A p \in Projects : stage[p] = "ready" /\ state[p] = "applied" => InForce(p)

PolicyInv == Types /\ Mutex /\ Asking /\ Written /\ OnceReady /\ Enforcement /\ Deletion

LEMMA Names == "worker" \in Actors /\ "loop" \in Actors /\ "free" \notin Actors /\ Requests \subseteq Actors
               /\ "worker" \notin Requests
BY PolicyAssumption DEF Actors

LEMMA Blank == NoRules \in Revisions /\ NotAsked \in Asked /\ \A p \in Projects : NoRules[p] = 0
BY DEF NoRules, NotAsked, Revisions, Asked

LEMMA PolicyBegins == Init => PolicyInv
<1> SUFFICES ASSUME Init PROVE PolicyInv
  OBVIOUS
<1>1. Types
  BY Names, Blank DEF Init, Types
<1>2. pc["worker"] = "idle" /\ holder = "free" /\ \A a \in Actors : pc[a] # "syncing" /\ a # "free"
  BY Names DEF Init
<1>3. \A p \in Projects : stage[p] = "setup" /\ state[p] = "idle" /\ rules[p] = 0
  BY Blank DEF Init
<1>4. Mutex /\ Written
  BY <1>2 DEF Init, Mutex, Written
<1>5. Asking
  BY Names DEF Init, Asking
<1>6. OnceReady /\ Enforcement /\ Deletion
  BY <1>2, <1>3 DEF Init, OnceReady, Enforcement, Deletion, Deletes, Closed
<1> QED
  BY <1>1, <1>4, <1>6, <1>5 DEF PolicyInv

(***************************************************************************)
(* Callers.                                                                *)
(***************************************************************************)
\* A goroutine that is outside SyncPolicy, and not the deletion job, moves.
LEMMA Moves ==
    ASSUME Types, Mutex, NEW a \in Actors, a # "worker", pc[a] # "syncing",
           NEW place \in Places \ {"syncing"}, Go(a, place), UNCHANGED <<holder, step>>
    PROVE  Mutex' /\ pc' \in [Actors -> Places] /\ pc'["worker"] = pc["worker"]
<1>1. pc' = [pc EXCEPT ![a] = place] /\ pc \in [Actors -> Places]
  BY DEF Go, Types
<1>2. pc' \in [Actors -> Places] /\ pc'["worker"] = pc["worker"]
  BY <1>1, Names
<1>3. \A b \in Actors : pc'[b] = IF b = a THEN place ELSE pc[b]
  BY <1>1
<1> QED
  BY <1>2, <1>3 DEF Mutex

LEMMA UpdateKeeps == ASSUME PolicyInv, NEW r \in Requests, UpdateAccess(r) PROVE PolicyInv'
<1>0. Types /\ Mutex /\ Asking /\ Written /\ OnceReady /\ Enforcement /\ Deletion /\ r \in Actors /\ r # "worker"
  BY Names DEF PolicyInv
<1>1. UNCHANGED <<stage, current, applied, state, file, loaded, signal, fresh, holder, step, todo, rules, live, previous>>
  BY DEF UpdateAccess, metadata, postgres, locals
<1>2. Mutex' /\ pc' \in [Actors -> Places] /\ pc'["worker"] = pc["worker"]
  BY <1>0, <1>1, Moves DEF UpdateAccess
<1>3. PICK q \in Asked : q.project \in Projects /\ asked' = [asked EXCEPT ![r] = q]
  <2>1. PICK p \in Projects, v \in 0..MaxRevision - 1 :
            asked' = [asked EXCEPT ![r] = [project |-> p, stage |-> stage[p], revision |-> v]]
    BY DEF UpdateAccess
  <2>2. stage[p] \in Stages /\ v \in Nat
    BY <1>0, PolicyAssumption, SMT DEF Types
  <2>3. [project |-> p, stage |-> stage[p], revision |-> v] \in Asked
    BY <2>2 DEF Asked
  <2> QED
    BY <2>1, <2>3
<1>4. asked' \in [Actors -> Asked] /\ asked'["worker"] = asked["worker"]
  BY <1>0, <1>3, Names DEF Types
<1>5. Types' /\ Written' /\ OnceReady' /\ Enforcement'
  BY <1>0, <1>1, <1>2, <1>4 DEF Types, Written, OnceReady, Enforcement, InForce
<1>6. Deletion'
  BY <1>0, <1>1, <1>2, <1>4 DEF Deletion, Deletes, Closed, LeftOut
<1>7. Asking'
  BY <1>0, <1>3, Names DEF UpdateAccess, Go, Types, Asking
<1> QED
  BY <1>2, <1>5, <1>6, <1>7 DEF PolicyInv

\* A new revision of any project that is not gone is pending.
LEMMA NewRevisionKeeps ==
    ASSUME PolicyInv, NEW p \in Projects, stage[p] # "gone", NewRevision(p),
           UNCHANGED <<stage, applied, postgres, holder, step, locals>>,
           pc'["worker"] = pc["worker"], asked'["worker"] = asked["worker"]
    PROVE  /\ current' \in Revisions /\ state' \in [Projects -> States]
           /\ Written' /\ OnceReady' /\ Enforcement' /\ Deletion'
<1>0. Types /\ Written /\ OnceReady /\ Enforcement /\ Deletion
  BY DEF PolicyInv
<1>1. UNCHANGED <<stage, applied, file, loaded, signal, fresh, holder, step, todo, rules, live, previous>>
  BY DEF postgres, locals
<1>2. current' \in Revisions /\ state' \in [Projects -> States]
  BY <1>0, SMT DEF NewRevision, Types, Revisions
<1>3. \A x \in Projects : IF x = p THEN state'[x] = "pending" ELSE state'[x] = state[x] /\ current'[x] = current[x]
  BY <1>0 DEF NewRevision, Types, Revisions
<1>4. Written' /\ OnceReady'
  BY <1>0, <1>1, <1>3 DEF Written, OnceReady
<1>5. Enforcement'
  BY <1>0, <1>1, <1>3 DEF Enforcement, InForce
<1>6. Deletion'
  BY <1>0, <1>1 DEF Deletion, Deletes, Closed, LeftOut
<1> QED
  BY <1>2, <1>4, <1>5, <1>6

LEMMA RecordKeeps == ASSUME PolicyInv, NEW r \in Requests, RecordPolicyRevision(r) PROVE PolicyInv'
<1> DEFINE q == asked[r]
<1>0. Types /\ Mutex /\ Asking /\ Written /\ OnceReady /\ Enforcement /\ Deletion /\ r \in Actors /\ r # "worker"
  BY Names DEF PolicyInv
<1>1. UNCHANGED <<stage, applied, file, loaded, signal, fresh, holder, step, todo, rules, live, previous>>
  BY DEF RecordPolicyRevision, postgres, locals
<1>2. PICK place \in {"sync", "idle"} : Go(r, place)
  BY DEF RecordPolicyRevision
<1>3. Mutex' /\ pc' \in [Actors -> Places] /\ pc'["worker"] = pc["worker"]
  BY <1>0, <1>1, <1>2, Moves DEF RecordPolicyRevision
<1>4. asked' \in [Actors -> Asked] /\ asked'["worker"] = asked["worker"]
  BY <1>0, Names, Blank DEF RecordPolicyRevision, Types
<1>5. Asking'
  BY <1>0, <1>2, Names DEF RecordPolicyRevision, Go, Types, Asking
<1>6. CASE UNCHANGED <<current, state>>
  <2>1. Types' /\ Written' /\ OnceReady' /\ Enforcement'
    BY <1>0, <1>1, <1>3, <1>4, <1>6 DEF Types, Written, OnceReady, Enforcement, InForce
  <2>2. Deletion'
    BY <1>0, <1>1, <1>3, <1>4, <1>6 DEF Deletion, Deletes, Closed, LeftOut
  <2> QED
    BY <1>3, <1>5, <2>1, <2>2 DEF PolicyInv
<1>7. CASE q.project \in Projects /\ stage[q.project] # "gone" /\ NewRevision(q.project)
  <2>1. /\ current' \in Revisions /\ state' \in [Projects -> States]
        /\ Written' /\ OnceReady' /\ Enforcement' /\ Deletion'
    BY <1>3, <1>4, <1>7, NewRevisionKeeps DEF RecordPolicyRevision
  <2>2. Types'
    BY <1>0, <1>1, <1>3, <1>4, <2>1 DEF Types
  <2> QED
    BY <1>3, <1>5, <2>1, <2>2 DEF PolicyInv
<1>8. q.project \in Projects
  BY <1>0 DEF RecordPolicyRevision, Asking
<1> QED
  BY <1>6, <1>7, <1>8 DEF RecordPolicyRevision

\* Provisioning and the end of its pass.
LEMMA ProvisioningKeeps ==
    ASSUME PolicyInv, PassDone \/ (\E p \in Projects : DefaultPolicy(p) \/ SetReady(p)) PROVE PolicyInv'
<1>0. Types /\ Mutex /\ Asking /\ Written /\ OnceReady /\ Enforcement /\ Deletion
  BY DEF PolicyInv
<1>1. UNCHANGED <<applied, file, loaded, signal, fresh, asked, holder, step, todo, rules, live, previous>>
  BY DEF PassDone, DefaultPolicy, SetReady, metadata, postgres, locals
<1>2. ASSUME NEW place \in {"sync", "changed"}, pc["loop"] \in {"idle", "changed"}, Go("loop", place)
      PROVE  Mutex' /\ Asking' /\ pc' \in [Actors -> Places] /\ pc'["worker"] = pc["worker"]
  <2>1. Mutex' /\ pc' \in [Actors -> Places] /\ pc'["worker"] = pc["worker"]
    BY <1>0, <1>1, <1>2, Moves, Names
  <2>2. Asking'
    BY <1>0, <1>1, <1>2, Names DEF Go, Types, Asking
  <2> QED
    BY <2>1, <2>2
<1>3. CASE PassDone
  <2>1. Mutex' /\ Asking' /\ pc' \in [Actors -> Places] /\ pc'["worker"] = pc["worker"]
    BY <1>2, <1>3 DEF PassDone
  <2>2. UNCHANGED <<stage, current, state>>
    BY <1>3 DEF PassDone, metadata
  <2>3. Types' /\ Written' /\ OnceReady' /\ Enforcement'
    BY <1>0, <1>1, <2>1, <2>2 DEF Types, Written, OnceReady, Enforcement, InForce
  <2>4. Deletion'
    BY <1>0, <1>1, <2>1, <2>2 DEF Deletion, Deletes, Closed, LeftOut
  <2> QED
    BY <2>1, <2>3, <2>4 DEF PolicyInv
<1>4. ASSUME NEW p \in Projects, DefaultPolicy(p) PROVE PolicyInv'
  <2>1. UNCHANGED pc /\ stage[p] = "setup" /\ NewRevision(p) /\ UNCHANGED <<stage, postgres, locals>>
    BY <1>4 DEF DefaultPolicy
  <2>2. /\ current' \in Revisions /\ state' \in [Projects -> States]
        /\ Written' /\ OnceReady' /\ Enforcement' /\ Deletion'
    BY <1>1, <2>1, NewRevisionKeeps
  <2>3. Types' /\ Mutex' /\ Asking'
    BY <1>0, <1>1, <2>1, <2>2 DEF Types, Mutex, Asking
  <2> QED
    BY <2>2, <2>3 DEF PolicyInv
<1>5. ASSUME NEW p \in Projects, SetReady(p) PROVE PolicyInv'
  <2>1. Mutex' /\ Asking' /\ pc' \in [Actors -> Places] /\ pc'["worker"] = pc["worker"]
    BY <1>2, <1>5 DEF SetReady
  <2>2. UNCHANGED <<current, state>> /\ stage[p] = "setup" /\ stage' = [stage EXCEPT ![p] = "ready"]
    BY <1>5 DEF SetReady
  <2>3. stage' \in [Projects -> Stages] /\ \A x \in Projects : stage'[x] = IF x = p THEN "ready" ELSE stage[x]
    BY <1>0, <2>2 DEF Types
  <2>4. Types' /\ Written' /\ OnceReady'
    BY <1>0, <1>1, <2>1, <2>2, <2>3 DEF Types, Written, OnceReady
  <2>5. Enforcement'
    BY <1>0, <1>1, <2>2, <2>3 DEF Enforcement, InForce, OnceReady
  <2>6. Deletion'
    BY <1>0, <1>1, <2>1, <2>2, <2>3, SMT DEF Deletion, Deletes, Closed, LeftOut
  <2> QED
    BY <2>1, <2>4, <2>5, <2>6 DEF PolicyInv
<1> QED
  BY <1>3, <1>4, <1>5

\* Deletion: asked for, worked on, completed.
LEMMA BeginDeletionKeeps ==
    ASSUME PolicyInv, NEW p \in Projects, BeginProjectDeletion(p) PROVE PolicyInv'
<1>0. Types /\ Mutex /\ Asking /\ Written /\ OnceReady /\ Enforcement /\ Deletion
  BY DEF PolicyInv
<1>1. UNCHANGED <<current, applied, state, file, loaded, fresh, pc, asked, holder, step, todo, rules, previous>>
  BY DEF BeginProjectDeletion, postgres, locals
<1>2. stage' \in [Projects -> Stages] /\ \A x \in Projects : stage'[x] = IF x = p THEN "deleting" ELSE stage[x]
  BY <1>0 DEF BeginProjectDeletion, Types
<1>3. Types' /\ Mutex' /\ Asking' /\ Written' /\ OnceReady'
  BY <1>0, <1>1, <1>2 DEF Types, Mutex, Asking, Written, OnceReady
<1>4. Enforcement'
  BY <1>0, <1>1, <1>2 DEF Enforcement, InForce
<1>5. Deletion'
  BY <1>0, <1>1, <1>2 DEF Deletion, Deletes, Closed, LeftOut
<1> QED
  BY <1>3, <1>4, <1>5 DEF PolicyInv

LEMMA RunDeleteKeeps == ASSUME PolicyInv, NEW p \in Projects, RunDelete(p) PROVE PolicyInv'
<1>0. Types /\ Mutex /\ Asking /\ Written /\ OnceReady /\ Enforcement /\ Deletion
  BY DEF PolicyInv
<1>1. UNCHANGED <<stage, current, applied, state, file, loaded, fresh, holder, step, todo, rules, previous>>
  BY DEF RunDelete, metadata, postgres, locals
<1>2. pc["worker"] = "idle" /\ stage[p] = "deleting" /\ pc' = [pc EXCEPT !["worker"] = "sync"]
      /\ asked' = [asked EXCEPT !["worker"].project = p]
  BY DEF RunDelete, Go
<1>3. pc' \in [Actors -> Places] /\ \A a \in Actors : pc'[a] = IF a = "worker" THEN "sync" ELSE pc[a]
  BY <1>0, <1>2 DEF Types
<1>4. asked["worker"] \in Asked
  BY <1>0, Names DEF Types
<1>5. [asked["worker"] EXCEPT !.project = p] \in Asked
  BY <1>4 DEF Asked
<1>6. asked' = [asked EXCEPT !["worker"] = [asked["worker"] EXCEPT !.project = p]]
  BY <1>2
<1>7. asked' \in [Actors -> Asked] /\ asked'["worker"].project = p /\ \A r \in Requests : asked'[r] = asked[r]
  BY <1>0, <1>4, <1>5, <1>6, Names DEF Types, Asked
<1>8. Types' /\ Mutex'
  BY <1>0, <1>1, <1>2, <1>3, <1>7, Names DEF Types, Mutex
<1>9. Asking' /\ Written' /\ OnceReady' /\ Enforcement'
  BY <1>0, <1>1, <1>3, <1>7, Names DEF Asking, Written, OnceReady, Enforcement, InForce
<1>10. holder # "worker"
  BY <1>0, <1>2, Names DEF Mutex
<1>11. Deletion'
  BY <1>0, <1>1, <1>2, <1>3, <1>7, <1>10, Names DEF Deletion, Deletes, Closed, LeftOut
<1> QED
  BY <1>8, <1>9, <1>11 DEF PolicyInv

LEMMA CompleteKeeps == ASSUME PolicyInv, CompleteProjectDeletion PROVE PolicyInv'
<1> DEFINE p == asked["worker"].project
<1>0. Types /\ Mutex /\ Asking /\ Written /\ OnceReady /\ Enforcement /\ Deletion
  BY DEF PolicyInv
<1>1. UNCHANGED <<file, loaded, fresh, holder, step, todo, rules, previous>>
  BY DEF CompleteProjectDeletion, postgres, locals
<1>2. pc["worker"] = "remove_records" /\ p \in Projects
  BY <1>0 DEF CompleteProjectDeletion, Deletion
<1>3. pc' \in [Actors -> Places] /\ \A a \in Actors : pc'[a] = IF a = "worker" THEN "idle" ELSE pc[a]
  BY <1>0 DEF CompleteProjectDeletion, Go, Types
<1>4. asked' \in [Actors -> Asked] /\ \A r \in Requests : asked'[r] = asked[r]
  BY <1>0, Names, Blank DEF CompleteProjectDeletion, Types
<1>5. Mutex' /\ Asking'
  BY <1>0, <1>1, <1>2, <1>3, <1>4, Names DEF Mutex, Asking
<1>6. CASE UNCHANGED metadata
  <2>1. UNCHANGED <<stage, current, applied, state>>
    BY <1>6 DEF metadata
  <2>2. Types' /\ Written' /\ OnceReady' /\ Enforcement'
    BY <1>0, <1>1, <1>3, <1>4, <2>1 DEF Types, Written, OnceReady, Enforcement, InForce
  <2>3. Deletion'
    BY <1>0, <1>1, <1>3, <2>1, Names DEF Deletion, Deletes, Closed, LeftOut
  <2> QED
    BY <1>5, <2>2, <2>3 DEF PolicyInv
<1>7. CASE /\ stage' = [stage EXCEPT ![p] = "gone"] /\ state' = [state EXCEPT ![p] = "idle"]
           /\ current' = [current EXCEPT ![p] = 0] /\ applied' = [applied EXCEPT ![p] = 0]
  <2>1. /\ stage' \in [Projects -> Stages] /\ state' \in [Projects -> States]
        /\ current' \in Revisions /\ applied' \in Revisions
    BY <1>0, <1>7 DEF Types, Revisions
  <2>2. \A x \in Projects : IF x = p THEN stage'[x] = "gone" /\ state'[x] = "idle"
                            ELSE stage'[x] = stage[x] /\ state'[x] = state[x] /\ current'[x] = current[x]
    BY <1>0, <1>2, <1>7 DEF Types, Revisions
  <2>3. Closed(p)
    BY <1>2 DEF Closed, Deletes
  <2>4. Types' /\ Written' /\ OnceReady'
    BY <1>0, <1>1, <1>3, <1>4, <2>1, <2>2 DEF Types, Written, OnceReady
  <2>5. Enforcement'
    BY <1>0, <1>1, <2>2 DEF Enforcement, InForce
  <2>6. Deletion'
    BY <1>0, <1>1, <1>2, <1>3, <2>2, <2>3, Names DEF Deletion, Deletes, Closed, LeftOut
  <2> QED
    BY <1>5, <2>4, <2>5, <2>6 DEF PolicyInv
<1> QED
  BY <1>6, <1>7 DEF CompleteProjectDeletion

(***************************************************************************)
(* SyncPolicy.                                                             *)
(***************************************************************************)
LEMMA ReturnKeeps ==
    ASSUME PolicyInv, NEW a \in Actors, NEW ok \in BOOLEAN, Return(a, ok), UNCHANGED <<metadata, postgres, asked>>,
           (pc[a] = "sync" /\ holder = "free") \/ holder = a, ok => holder = a /\ step = "applied"
    PROVE  PolicyInv'
<1>0. Types /\ Mutex /\ Asking /\ Written /\ OnceReady /\ Enforcement /\ Deletion
  BY DEF PolicyInv
<1>1. UNCHANGED <<stage, current, applied, state, file, loaded, fresh>> /\ holder' = "free" /\ step' = "none"
      /\ todo' = {} /\ rules' = NoRules /\ previous' = NoRules
  BY DEF Return, metadata, postgres
<1>2. PICK place \in {"remove_records", "idle"} :
          pc' = [pc EXCEPT ![a] = place] /\ (place = "remove_records" <=> a = "worker" /\ ok)
  BY DEF Return, Go
<1>3. pc' \in [Actors -> Places] /\ \A b \in Actors : pc'[b] = IF b = a THEN place ELSE pc[b]
  BY <1>0, <1>2 DEF Types
<1>4. Types'
  BY <1>0, <1>1, <1>3, Blank DEF Types
<1>5. Mutex'
  BY <1>0, <1>1, <1>2, <1>3, Names DEF Mutex
<1>6. Asking'
  BY <1>0, <1>2, <1>3, Names DEF Asking
<1>7. Written' /\ OnceReady' /\ Enforcement'
  BY <1>0, <1>1, Blank DEF Written, OnceReady, Enforcement, InForce
<1>8. pc["worker"] \in Places /\ (a = "worker" => pc["worker"] \in {"sync", "syncing"})
  BY <1>0, Names DEF Types, Mutex
<1>9. ASSUME NEW p \in Projects, Closed(p)' PROVE file[p] = 0 /\ loaded[p] = 0
  <2>1. CASE Closed(p)
    BY <1>0, <2>1 DEF Deletion
  <2>2. CASE ~Closed(p)
    <3>1. a = "worker" /\ ok /\ Deletes(p)
      BY <1>1, <1>2, <1>3, <1>8, <1>9, <2>2, Names DEF Closed, Deletes
    <3>2. LeftOut(p) /\ step = "applied"
      BY <1>0, <3>1 DEF Deletion
    <3> QED
      BY <1>0, <3>2 DEF Written, LeftOut
  <2> QED
    BY <2>1, <2>2
<1>10. pc'["worker"] \in {"sync", "syncing", "remove_records"} => pc["worker"] \in {"sync", "syncing", "remove_records"}
  BY <1>2, <1>3, <1>8, Names
<1>11. \A p \in Projects : Deletes(p)' => Deletes(p)
  BY <1>10 DEF Deletes
<1>12. Deletion'
  BY <1>0, <1>1, <1>9, <1>10, <1>11, Blank, Names DEF Deletion, LeftOut
<1> QED
  BY <1>4, <1>5, <1>6, <1>7, <1>12 DEF PolicyInv

LEMMA ListKeeps == ASSUME PolicyInv, NEW a \in Actors, ListProjects(a) PROVE PolicyInv'
<1>0. Types /\ Mutex /\ Asking /\ Written /\ OnceReady /\ Enforcement /\ Deletion
  BY DEF PolicyInv
<1>1. CASE Return(a, FALSE)
  BY <1>1, ReturnKeeps DEF ListProjects
<1>2. CASE /\ holder' = a /\ step' = "read" /\ Go(a, "syncing")
           /\ todo' = {p \in Projects : stage[p] = "ready"} /\ rules' = NoRules
           /\ UNCHANGED <<live, previous, dbErrors>>
  <2>1. UNCHANGED <<stage, current, applied, state, file, loaded, fresh, asked, previous>>
        /\ pc[a] = "sync" /\ holder = "free"
    BY <1>2 DEF ListProjects, metadata, postgres
  <2>2. pc' \in [Actors -> Places] /\ \A b \in Actors : pc'[b] = IF b = a THEN "syncing" ELSE pc[b]
    BY <1>0, <1>2 DEF Go, Types
  <2>3. Types'
    BY <1>0, <1>2, <2>1, <2>2, Blank DEF Types
  <2>4. Mutex'
    BY <1>0, <1>2, <2>1, <2>2, Names DEF Mutex
  <2>5. Asking'
    BY <1>0, <2>1, <2>2, Names DEF Asking
  <2>6. Written' /\ OnceReady'
    BY <1>0, <1>2, <2>1, Blank DEF Written, OnceReady
  <2>7. Enforcement'
    BY <1>0, <1>2, <2>1 DEF Enforcement, InForce
  <2>8. \A p \in Projects : (Deletes(p)' => Deletes(p)) /\ (Closed(p)' => Closed(p))
    BY <2>1, <2>2, Names DEF Deletes, Closed
  <2>9. \A p \in Projects : Deletes(p) \/ Closed(p) => stage[p] # "ready"
    BY <1>0 DEF Deletion, Closed
  <2>10. \A p \in Projects : Deletes(p) \/ Closed(p) => LeftOut(p)'
    BY <1>2, <2>9, Blank DEF LeftOut
  <2>11. pc'["worker"] \in {"sync", "syncing", "remove_records"} => asked'["worker"].project \in Projects
    BY <1>0, <2>1, <2>2, Names DEF Deletion
  <2>12. Deletion'
    BY <1>0, <2>1, <2>8, <2>10, <2>11 DEF Deletion
  <2> QED
    BY <2>3, <2>4, <2>5, <2>6, <2>7, <2>12 DEF PolicyInv
<1> QED
  BY <1>1, <1>2 DEF ListProjects

LEMMA ReadKeeps == ASSUME PolicyInv, NEW a \in Actors, ReadPolicyState(a) PROVE PolicyInv'
<1>0. Types /\ Mutex /\ Asking /\ Written /\ OnceReady /\ Enforcement /\ Deletion
  BY DEF PolicyInv
<1>1. CASE Return(a, FALSE)
  BY <1>1, ReturnKeeps DEF ReadPolicyState, Holding
<1>2. ASSUME NEW p \in todo, todo' = todo \ {p}, rules' = [rules EXCEPT ![p] = current[p]],
             UNCHANGED <<holder, step, pc, previous>>
      PROVE  PolicyInv'
  <2>1. UNCHANGED <<stage, current, applied, state, file, loaded, fresh, asked>> /\ step = "read" /\ p \in Projects
    BY <1>0, <1>2 DEF ReadPolicyState, Holding, metadata, postgres, Types
  <2>2. rules' \in Revisions /\ \A x \in Projects : rules'[x] = IF x = p THEN current[p] ELSE rules[x]
    BY <1>0, <1>2, <2>1 DEF Types, Revisions
  <2>3. Types' /\ Mutex' /\ Asking' /\ Written'
    BY <1>0, <1>2, <2>1, <2>2 DEF Types, Mutex, Asking, Written
  <2>4. OnceReady' /\ Enforcement'
    BY <1>0, <1>2, <2>1, <2>2 DEF OnceReady, Enforcement, InForce
  <2>5. \A x \in Projects : LeftOut(x) => LeftOut(x)'
    BY <1>2, <2>2 DEF LeftOut
  <2>6. \A x \in Projects : (Deletes(x)' <=> Deletes(x)) /\ (Closed(x)' <=> Closed(x))
    BY <1>2, <2>1 DEF Deletes, Closed
  <2>7. Deletion'
    BY <1>0, <1>2, <2>1, <2>5, <2>6 DEF Deletion
  <2> QED
    BY <2>3, <2>4, <2>7 DEF PolicyInv
<1> QED
  BY <1>1, <1>2 DEF ReadPolicyState

\* What a step of Apply leaves alone.
Around == UNCHANGED <<stage, current, applied, state, loaded, pc, asked, holder, rules>>

LEMMA AroundKeeps ==
    ASSUME PolicyInv, Around, step # "none", step' # "none",
           \A p \in Projects : LeftOut(p) => p \notin todo' /\ file'[p] \in {file[p], previous[p], rules[p]},
           \A p \in Projects : previous'[p] \in {previous[p], file[p], 0}
    PROVE  Mutex' /\ Asking' /\ Deletion'
<1>0. Mutex /\ Asking /\ Deletion
  BY DEF PolicyInv
<1>1. Mutex' /\ Asking'
  BY <1>0 DEF Around, Mutex, Asking
<1>2. \A p \in Projects : (Deletes(p)' <=> Deletes(p)) /\ (Closed(p)' <=> Closed(p)) /\ (LeftOut(p) => LeftOut(p)')
  BY DEF Around, Deletes, Closed, LeftOut
<1>3. Deletion'
  BY <1>0, <1>2 DEF Deletion, Around, LeftOut
<1> QED
  BY <1>1, <1>3

\* Whether or not the old file came back, what is shown as applied is in it.
LEMMA FailureKeeps ==
    ASSUME PolicyInv, Around, Outcome("failed"), file' \in {previous, file},
           step \in Writing \/ (step = "read" /\ file' = file)
    PROVE  PolicyInv'
<1>0. Types /\ Mutex /\ Asking /\ Written /\ OnceReady /\ Enforcement /\ Deletion
  BY DEF PolicyInv
<1>1. step' = "failed" /\ todo' \subseteq Rendered /\ previous' = NoRules
  BY DEF Outcome
<1>2. \A p \in Projects : p \in todo' => rules[p] # 0
  BY <1>1 DEF Rendered
<1>3. todo' \subseteq Projects
  BY <1>1 DEF Rendered
<1>4. Types'
  BY <1>0, <1>1, <1>3, Blank DEF Types, Around
<1>5. Written' /\ OnceReady'
  BY <1>0, <1>1, <1>2 DEF Written, OnceReady, Around
<1>6. Enforcement'
  BY <1>0, <1>1 DEF Enforcement, InForce, Around
<1>7. Mutex' /\ Asking' /\ Deletion'
  BY <1>1, <1>2, AroundKeeps, Blank DEF LeftOut
<1> QED
  BY <1>4, <1>5, <1>6, <1>7 DEF PolicyInv

LEMMA WriteKeeps == ASSUME PolicyInv, NEW a \in Actors, WriteFile(a) PROVE PolicyInv'
<1>0. Types /\ Mutex /\ Asking /\ Written /\ OnceReady /\ Enforcement /\ Deletion
  BY DEF PolicyInv
<1>1. Around /\ step = "read" /\ todo = {}
  BY DEF WriteFile, Holding, Around, metadata
<1>2. CASE Outcome("failed") /\ UNCHANGED file
  BY <1>1, <1>2, FailureKeeps
<1>3. CASE file' = rules /\ previous' = file /\ step' = "validate" /\ UNCHANGED <<todo, live, fresh, faults>>
  <2>1. Types' /\ Written' /\ OnceReady'
    BY <1>0, <1>1, <1>3 DEF Types, Written, OnceReady, Around
  <2>2. Enforcement'
    BY <1>0, <1>1, <1>3 DEF Enforcement, InForce, Around
  <2>3. Mutex' /\ Asking' /\ Deletion'
    BY <1>1, <1>3, AroundKeeps DEF LeftOut
  <2> QED
    BY <2>1, <2>2, <2>3 DEF PolicyInv
<1> QED
  BY <1>2, <1>3 DEF WriteFile

\* From the written file to the reload that was asked for.
LEMMA ReloadKeeps ==
    ASSUME PolicyInv, NEW a \in Actors, HBAFileErrors(a) \/ ReadLoadTime(a) \/ Reload(a) PROVE PolicyInv'
<1>0. Types /\ Mutex /\ Asking /\ Written /\ OnceReady /\ Enforcement /\ Deletion
  BY DEF PolicyInv
<1>1. Around /\ step \in {"validate", "load_time", "reload"}
  BY DEF HBAFileErrors, ReadLoadTime, Reload, Holding, Around, metadata
<1>2. CASE Restore
  BY <1>1, <1>2, FailureKeeps DEF Restore
<1>3. CASE ~Restore
  <2>1. UNCHANGED <<file, todo, previous>> /\ step' \in Writing
        /\ (step' = "reload" => ~fresh') /\ (step' = "wait" => step = "reload" /\ fresh' = fresh)
    BY <1>3 DEF HBAFileErrors, ReadLoadTime, Reload, Holding
  <2>2. Types' /\ Written' /\ OnceReady'
    BY <1>0, <1>1, <2>1, SMT DEF Types, Written, OnceReady, Around
  <2>3. Enforcement'
    BY <1>0, <1>1, <2>1 DEF Enforcement, InForce, Around
  <2>4. Mutex' /\ Asking' /\ Deletion'
    BY <1>1, <2>1, AroundKeeps DEF LeftOut
  <2> QED
    BY <2>2, <2>3, <2>4 DEF PolicyInv
<1> QED
  BY <1>2, <1>3

\* A load after the load time was read has loaded the rules.
LEMMA AwaitKeeps == ASSUME PolicyInv, NEW a \in Actors, AwaitReload(a) PROVE PolicyInv'
<1>0. Types /\ Mutex /\ Asking /\ Written /\ OnceReady /\ Enforcement /\ Deletion
  BY DEF PolicyInv
<1>1. Around /\ step = "wait"
  BY DEF AwaitReload, Holding, Around, metadata
<1>2. CASE Restore
  BY <1>1, <1>2, FailureKeeps DEF Restore
<1>3. CASE fresh /\ Outcome("applied") /\ UNCHANGED file
  <2>1. step' = "applied" /\ todo' = Rendered /\ previous' = NoRules /\ file = rules /\ loaded = rules
    BY <1>0, <1>1, <1>3 DEF Outcome, Written
  <2>2. \A p \in Projects : p \in todo' => rules[p] # 0
    BY <2>1 DEF Rendered
  <2>3. todo' \subseteq Projects
    BY <2>1 DEF Rendered
  <2>4. Types'
    BY <1>0, <1>1, <1>3, <2>1, <2>3, Blank DEF Types, Around
  <2>5. Written' /\ OnceReady'
    BY <1>0, <1>1, <1>3, <2>1, <2>2 DEF Written, OnceReady, Around
  <2>6. Enforcement'
    BY <1>0, <1>1, <1>3, <2>1 DEF Enforcement, InForce, Around
  <2>7. Mutex' /\ Asking' /\ Deletion'
    BY <1>1, <1>3, <2>1, <2>2, AroundKeeps, Blank DEF LeftOut
  <2> QED
    BY <2>4, <2>5, <2>6, <2>7 DEF PolicyInv
<1> QED
  BY <1>2, <1>3 DEF AwaitReload

\* The outcome counts only for the revision that was rendered.
LEMMA ResultKeeps == ASSUME PolicyInv, NEW a \in Actors, ApplyPolicyResult(a) PROVE PolicyInv'
<1>0. Types /\ Mutex /\ Asking /\ Written /\ OnceReady /\ Enforcement /\ Deletion
  BY DEF PolicyInv
<1>1. UNCHANGED <<stage, current, file, loaded, fresh, pc, asked, holder, step, rules, previous>>
      /\ step \in {"applied", "failed"}
  BY DEF ApplyPolicyResult, postgres
<1>2. PICK p \in todo :
        /\ todo' = todo \ {p}
        /\ \/ UNCHANGED <<state, applied>>
           \/ /\ current[p] = rules[p] /\ state' = [state EXCEPT ![p] = step]
              /\ applied' \in {applied, [applied EXCEPT ![p] = rules[p]]}
  BY DEF ApplyPolicyResult
<1>3. p \in Projects /\ rules[p] \in Nat
  BY <1>0, <1>2 DEF Types, Revisions
<1>4. state' \in [Projects -> States] /\ applied' \in Revisions
  BY <1>0, <1>1, <1>2, <1>3, SMT DEF Types, Revisions
<1>5. \A x \in Projects : state'[x] = state[x] \/ (x = p /\ state'[x] = step /\ current[p] = rules[p])
  BY <1>0, <1>2 DEF Types
<1>6. Types' /\ Mutex' /\ Asking' /\ Written'
  BY <1>0, <1>1, <1>2, <1>4 DEF Types, Mutex, Asking, Written
<1>7. OnceReady'
  BY <1>0, <1>1, <1>2, <1>5 DEF OnceReady
<1>8. Enforcement'
  BY <1>0, <1>1, <1>5 DEF Enforcement, InForce, Written
<1>9. \A x \in Projects : (Deletes(x)' <=> Deletes(x)) /\ (Closed(x)' <=> Closed(x)) /\ (LeftOut(x) => LeftOut(x)')
  BY <1>1, <1>2 DEF Deletes, Closed, LeftOut
<1>10. Deletion'
  BY <1>0, <1>1, <1>9 DEF Deletion
<1> QED
  BY <1>6, <1>7, <1>8, <1>10 DEF PolicyInv

LEMMA DoneKeeps == ASSUME PolicyInv, NEW a \in Actors, SyncDone(a) PROVE PolicyInv'
BY ReturnKeeps DEF SyncDone

(***************************************************************************)
(* PostgreSQL, and restarts of Pgfy.                                       *)
(***************************************************************************)
LEMMA LoadKeeps == ASSUME PolicyInv, LoadConf PROVE PolicyInv'
<1>0. Types /\ Mutex /\ Asking /\ Written /\ OnceReady /\ Enforcement /\ Deletion
  BY DEF PolicyInv
<1>1. loaded' = file
      /\ UNCHANGED <<stage, current, applied, state, file, pc, asked, holder, step, todo, rules, previous>>
  BY DEF LoadConf, metadata, locals
<1>2. Types' /\ Mutex' /\ Asking' /\ Written' /\ OnceReady'
  BY <1>0, <1>1 DEF Types, Mutex, Asking, Written, OnceReady
<1>3. Enforcement'
  BY <1>0, <1>1 DEF Enforcement, InForce
<1>4. Deletion'
  BY <1>0, <1>1 DEF Deletion, Deletes, Closed, LeftOut
<1> QED
  BY <1>2, <1>3, <1>4 DEF PolicyInv

LEMMA CrashKeeps == ASSUME PolicyInv, Crash PROVE PolicyInv'
<1>0. Types /\ OnceReady /\ Enforcement /\ Deletion
  BY DEF PolicyInv
<1>1. UNCHANGED <<stage, current, applied, state, file, loaded>> /\ holder' = "free" /\ step' = "none"
      /\ todo' = {} /\ rules' = NoRules /\ previous' = NoRules
  BY DEF Crash, metadata
<1>2. pc' = [a \in Actors |-> IF a = "loop" THEN "sync" ELSE "idle"] /\ asked' = [a \in Actors |-> NotAsked]
  BY DEF Crash
<1>3. pc' \in [Actors -> Places] /\ asked' \in [Actors -> Asked]
      /\ \A a \in Actors : pc'[a] = IF a = "loop" THEN "sync" ELSE "idle"
  BY <1>2, Blank
<1>4. Types'
  BY <1>0, <1>1, <1>3, Blank DEF Types
<1>5. Mutex' /\ Asking'
  BY <1>1, <1>3, Names, SMT DEF Mutex, Asking
<1>6. Written' /\ OnceReady' /\ Enforcement'
  BY <1>0, <1>1, Blank DEF Written, OnceReady, Enforcement, InForce
<1>7. Deletion'
  BY <1>0, <1>1, <1>3, Blank, Names DEF Deletion, Deletes, Closed, LeftOut
<1> QED
  BY <1>4, <1>5, <1>6, <1>7 DEF PolicyInv

\* Every step of requests, provisioning, deletion, SyncPolicy, PostgreSQL and a
\* restart of Pgfy keeps the invariant.
THEOREM PolicyStep == PolicyInv /\ [Next]_vars => PolicyInv'
<1> SUFFICES ASSUME PolicyInv, [Next]_vars PROVE PolicyInv'
  OBVIOUS
<1>1. CASE UNCHANGED vars
  <2>1. UNCHANGED <<stage, current, applied, state, file, loaded, fresh, pc, asked, holder, step, todo, rules, previous>>
    BY <1>1 DEF vars, metadata, postgres, locals
  <2> QED
    BY <2>1 DEF PolicyInv, Types, Mutex, Asking, Written, OnceReady, Enforcement, InForce, Deletion, Deletes,
                Closed, LeftOut
<1>2. ASSUME NEW r \in Requests, UpdateAccess(r) \/ RecordPolicyRevision(r) PROVE PolicyInv'
  BY <1>2, UpdateKeeps, RecordKeeps
<1>3. ASSUME NEW p \in Projects, BeginProjectDeletion(p) \/ RunDelete(p) PROVE PolicyInv'
  BY <1>3, BeginDeletionKeeps, RunDeleteKeeps
<1>4. CASE PassDone \/ (\E p \in Projects : DefaultPolicy(p) \/ SetReady(p))
  BY <1>4, ProvisioningKeeps
<1>5. CASE CompleteProjectDeletion \/ LoadConf \/ Crash
  BY <1>5, CompleteKeeps, LoadKeeps, CrashKeeps
<1>6. ASSUME NEW a \in Actors, SyncPolicy(a) PROVE PolicyInv'
  BY <1>6, ListKeeps, ReadKeeps, WriteKeeps, ReloadKeeps, AwaitKeeps, ResultKeeps, DoneKeeps DEF SyncPolicy
<1> QED
  BY <1>1, <1>2, <1>3, <1>4, <1>5, <1>6 DEF Next

\* While a ready project's revision is shown as applied, PostgreSQL enforces it
\* and the file it would load holds it (SyncPolicy, ApplyPolicyResult).
THEOREM ShownAccessIsEnforced == Spec => []AppliedIsEnforced
<1>1. PolicyInv => AppliedIsEnforced
  BY DEF PolicyInv, Enforcement, InForce, AppliedIsEnforced
<1> QED
  BY <1>1, PolicyBegins, PolicyStep, PTL DEF Spec

\* Once a project's records are removed no rule of it is in the file or in
\* force, nor ever again (runDelete, CompleteProjectDeletion).
THEOREM DeletedProjectsAreClosed == Spec => []DeletedIsClosed
<1>1. PolicyInv => DeletedIsClosed
  BY DEF PolicyInv, Deletion, Closed, DeletedIsClosed
<1> QED
  BY <1>1, PolicyBegins, PolicyStep, PTL DEF Spec
====
