------------------------- MODULE ProvisioningProofs -------------------------
(***************************************************************************)
(* The safety properties of Provisioning for any set of rotate requests    *)
(* and any number of faults.                                               *)
(***************************************************************************)
EXTENDS Provisioning, TLAPS

\* Leaves that need arithmetic, records or many cases cite SMT.
USE Zenon

ProvisionSteps == {"run", "save"}
RotationSteps == {"set_password", "terminate", "complete"}
DeletionSteps == {"disable_login", "end_sessions", "drop_database", "drop_role",
                  "access_policy", "remove_records"}
LoopPcs == {"idle", "finish", "list", "provision", "fail"} \cup ProvisionSteps \cup RotationSteps
WorkerPcs == {"restore", "idle", "provision", "fail"} \cup ProvisionSteps \cup DeletionSteps
RequestPcs == {"new", "rotate", "done"} \cup RotationSteps
HeldSteps == ProvisionSteps \cup RotationSteps \cup DeletionSteps

PcOK ==
    /\ pc \in [Actors -> LoopPcs \cup WorkerPcs \cup RequestPcs]
    /\ pc["loop"] \in LoopPcs /\ pc["worker"] \in WorkerPcs
    /\ \A r \in Requests : pc[r] \in RequestPcs

\* A goroutine is in a step that needs the lock exactly when it holds it.
LockHeld == \A a \in Actors : pc[a] \in HeldSteps <=> lock = a

\* What PostgreSQL has once a stage is recorded.
Made(stage) ==
    /\ stage \in {"role_created", "database_created", "ready"} => role # 0 /\ "login" \in built
    /\ stage \in {"database_created", "ready"} => "database" \in built
    /\ stage = "ready" => "guardrails" \in built

\* Who provisions works on a project that is incomplete, or was marked for
\* deletion meanwhile, with its only password; the earlier stages are made,
\* and the present one too when it is about to be recorded.
Provisioned ==
    \A a \in Provisioners : pc[a] \in ProvisionSteps =>
        /\ row \in Incomplete \cup {"deleting"} /\ mine[a] = active /\ mine[a] # 0
        /\ target[a] = "database_created" => Made("role_created")
        /\ target[a] = "ready" => Made("database_created")
        /\ pc[a] = "save" => Made(target[a])

\* Who rotates works on the pending password, which the role has after the
\* first step and every session after the second.
Rotated ==
    \A a \in Requests \cup {"loop"} : pc[a] \in RotationSteps =>
        /\ pending = mine[a] /\ mine[a] # 0
        /\ pc[a] \in {"terminate", "complete"} => role = mine[a]
        /\ pc[a] = "complete" => sessions \subseteq {mine[a]}

\* A deletion has removed what its earlier steps remove.
Removed ==
    /\ pc["worker"] \in DeletionSteps => row = "deleting"
    /\ pc["worker"] \in {"drop_role", "access_policy", "remove_records"} => "database" \notin built
    /\ pc["worker"] \in {"access_policy", "remove_records"} => role = 0 /\ built = {}

\* What is recorded about a live project is true of PostgreSQL.
Truthful ==
    /\ row # "absent" => active # 0
    /\ row \notin {"absent", "deleting"} =>
         /\ Made(row)
         /\ pending = 0 => (role # 0 => role = active) /\ sessions \subseteq {active}

RoleInvariant ==
    /\ TypeOK /\ PcOK /\ LockHeld /\ Provisioned /\ Rotated /\ Removed /\ Truthful /\ NoOrphan

\* The invariant holds at the start: nothing exists and nobody works.
LEMMA RoleInit == Init => RoleInvariant
<1> USE RequestsAssumption
    DEF Init, Actors, Provisioners, Incomplete, Parts, LoopPcs, WorkerPcs, RequestPcs, HeldSteps,
        ProvisionSteps, RotationSteps, DeletionSteps
<1>0. Init => failed \in BOOLEAN
  OBVIOUS
<1>1. Init => TypeOK
  BY <1>0, SMT DEF TypeOK
<1>2. Init => PcOK
  BY SMT DEF PcOK
<1>3. Init => LockHeld
  BY DEF LockHeld
<1>4. Init => Provisioned
  BY DEF Provisioned, Made
<1>5. Init => Rotated
  BY DEF Rotated
<1>6. Init => Removed
  BY DEF Removed
<1>7. Init => Truthful
  BY DEF Truthful, Made
<1>8. Init => NoOrphan
  BY DEF NoOrphan
<1> QED
  BY <1>1, <1>2, <1>3, <1>4, <1>5, <1>6, <1>7, <1>8 DEF RoleInvariant

\* Every step keeps the types.
LEMMA TypeStep == TypeOK /\ [Next]_vars => TypeOK'
<1> SUFFICES ASSUME TypeOK, [Next]_vars PROVE TypeOK'
  OBVIOUS
<1> USE RequestsAssumption DEF Go, Leave, Fault, metadata, postgres, Actors, Provisioners
<1>1. CASE CreateProject
  <2>1. failed' \in BOOLEAN
    BY <1>1 DEF CreateProject, TypeOK
  <2> QED
    BY <1>1, <2>1, SMT DEF CreateProject, TypeOK, Incomplete, Parts
<1>2. CASE RetryProject
  <2>1. failed' \in BOOLEAN
    BY <1>2 DEF RetryProject, TypeOK
  <2> QED
    BY <1>2, <2>1 DEF RetryProject, TypeOK, Incomplete, Parts
<1>3. CASE BeginProjectDeletion
  <2>1. failed' \in BOOLEAN
    BY <1>3 DEF BeginProjectDeletion, TypeOK
  <2> QED
    BY <1>3, <2>1 DEF BeginProjectDeletion, TypeOK, Incomplete, Parts
<1>4. CASE PendingRotations
  <2>1. failed' \in BOOLEAN
    BY <1>4 DEF PendingRotations, TypeOK
  <2> QED
    BY <1>4, <2>1 DEF PendingRotations, TypeOK, Incomplete, Parts
<1>5. CASE IncompleteProjects
  <2>1. failed' \in BOOLEAN
    BY <1>5 DEF IncompleteProjects, TypeOK
  <2> QED
    BY <1>5, <2>1 DEF IncompleteProjects, TypeOK, Incomplete, Parts
<1>6. CASE ProvisionNow
  <2>1. failed' \in BOOLEAN
    BY <1>6 DEF ProvisionNow, TypeOK
  <2> QED
    BY <1>6, <2>1 DEF ProvisionNow, TypeOK, Incomplete, Parts
<1>7. CASE FinishRotations
  <2>1. failed' \in BOOLEAN
    BY <1>7 DEF FinishRotations, TypeOK
  <2> QED
    BY <1>7, <2>1 DEF FinishRotations, TypeOK, Incomplete, Parts
<1>8. CASE RunDelete
  <2>1. failed' \in BOOLEAN
    BY <1>8 DEF RunDelete, TypeOK
  <2> QED
    BY <1>8, <2>1 DEF RunDelete, TypeOK, Incomplete, Parts
<1>9. CASE DisableLogin
  <2>1. failed' \in BOOLEAN
    BY <1>9 DEF DisableLogin, DeleteStep, TypeOK
  <2>2. (/\ used \in Nat /\ active \in 0..used /\ pending \in 0..used /\ role \in 0..used
         /\ sessions \subseteq 1..used)'
    BY <1>9 DEF DisableLogin, DeleteStep, TypeOK
  <2>3. (/\ target \in [Actors -> {"role_created", "database_created", "ready"}]
         /\ mine \in [Actors -> 0..used] /\ faults \in Nat)'
    BY <1>9, SMT DEF DisableLogin, DeleteStep, TypeOK
  <2>4. (/\ row \in {"absent", "ready", "deleting"} \cup Incomplete
         /\ built \subseteq Parts /\ lock \in {"free"} \cup Actors)'
    BY <1>9 DEF DisableLogin, DeleteStep, TypeOK, Incomplete, Parts
  <2> QED
    BY <2>1, <2>2, <2>3, <2>4 DEF TypeOK
<1>10. CASE EndSessions
  <2>1. failed' \in BOOLEAN
    BY <1>10 DEF EndSessions, DeleteStep, TypeOK
  <2>2. (/\ used \in Nat /\ active \in 0..used /\ pending \in 0..used /\ role \in 0..used
         /\ sessions \subseteq 1..used)'
    BY <1>10 DEF EndSessions, DeleteStep, TypeOK
  <2>3. (/\ target \in [Actors -> {"role_created", "database_created", "ready"}]
         /\ mine \in [Actors -> 0..used] /\ faults \in Nat)'
    BY <1>10, SMT DEF EndSessions, DeleteStep, TypeOK
  <2>4. (/\ row \in {"absent", "ready", "deleting"} \cup Incomplete
         /\ built \subseteq Parts /\ lock \in {"free"} \cup Actors)'
    BY <1>10 DEF EndSessions, DeleteStep, TypeOK, Incomplete, Parts
  <2> QED
    BY <2>1, <2>2, <2>3, <2>4 DEF TypeOK
<1>11. CASE DropDatabase
  <2>1. failed' \in BOOLEAN
    BY <1>11 DEF DropDatabase, DeleteStep, TypeOK
  <2>2. (/\ used \in Nat /\ active \in 0..used /\ pending \in 0..used /\ role \in 0..used
         /\ sessions \subseteq 1..used)'
    BY <1>11 DEF DropDatabase, DeleteStep, TypeOK
  <2>3. (/\ target \in [Actors -> {"role_created", "database_created", "ready"}]
         /\ mine \in [Actors -> 0..used] /\ faults \in Nat)'
    BY <1>11, SMT DEF DropDatabase, DeleteStep, TypeOK
  <2>4. (/\ row \in {"absent", "ready", "deleting"} \cup Incomplete
         /\ built \subseteq Parts /\ lock \in {"free"} \cup Actors)'
    BY <1>11 DEF DropDatabase, DeleteStep, TypeOK, Incomplete, Parts
  <2> QED
    BY <2>1, <2>2, <2>3, <2>4 DEF TypeOK
<1>12. CASE DropRole
  <2>1. failed' \in BOOLEAN
    BY <1>12 DEF DropRole, DeleteStep, TypeOK
  <2>5. role' \in {role, 0} /\ UNCHANGED <<used, active, pending, sessions>>
    BY <1>12 DEF DropRole, DeleteStep
  <2>2. (/\ used \in Nat /\ active \in 0..used /\ pending \in 0..used /\ role \in 0..used
         /\ sessions \subseteq 1..used)'
    BY <2>5, SMT DEF TypeOK
  <2>3. (/\ target \in [Actors -> {"role_created", "database_created", "ready"}]
         /\ mine \in [Actors -> 0..used] /\ faults \in Nat)'
    BY <1>12, SMT DEF DropRole, DeleteStep, TypeOK
  <2>4. (/\ row \in {"absent", "ready", "deleting"} \cup Incomplete
         /\ built \subseteq Parts /\ lock \in {"free"} \cup Actors)'
    BY <1>12 DEF DropRole, DeleteStep, TypeOK, Incomplete, Parts
  <2> QED
    BY <2>1, <2>2, <2>3, <2>4 DEF TypeOK
<1>13. CASE SyncPolicy
  <2>1. failed' \in BOOLEAN
    BY <1>13 DEF SyncPolicy, DeleteStep, TypeOK
  <2>2. (/\ used \in Nat /\ active \in 0..used /\ pending \in 0..used /\ role \in 0..used
         /\ sessions \subseteq 1..used)'
    BY <1>13 DEF SyncPolicy, DeleteStep, TypeOK
  <2>3. (/\ target \in [Actors -> {"role_created", "database_created", "ready"}]
         /\ mine \in [Actors -> 0..used] /\ faults \in Nat)'
    BY <1>13, SMT DEF SyncPolicy, DeleteStep, TypeOK
  <2>4. (/\ row \in {"absent", "ready", "deleting"} \cup Incomplete
         /\ built \subseteq Parts /\ lock \in {"free"} \cup Actors)'
    BY <1>13 DEF SyncPolicy, DeleteStep, TypeOK, Incomplete, Parts
  <2> QED
    BY <2>1, <2>2, <2>3, <2>4 DEF TypeOK
<1>14. CASE CompleteProjectDeletion
  <2>1. failed' \in BOOLEAN
    BY <1>14 DEF CompleteProjectDeletion, TypeOK
  <2> QED
    BY <1>14, <2>1, SMT DEF CompleteProjectDeletion, TypeOK, Incomplete, Parts
<1>15. CASE Connect
  <2>1. failed' \in BOOLEAN
    BY <1>15 DEF Connect, TypeOK
  <2> QED
    BY <1>15, <2>1, SMT DEF Connect, TypeOK, Incomplete, Parts
<1>16. CASE Crash
  <2>1. failed' \in BOOLEAN
    BY <1>16 DEF Crash, Rest, TypeOK
  <2> QED
    BY <1>16, <2>1, SMT DEF Crash, Rest, TypeOK, Incomplete, Parts
<1>17. ASSUME NEW a \in Provisioners, Provision(a) PROVE TypeOK'
  <2>1. failed' \in BOOLEAN
    BY <1>17 DEF Provision, StageAfter, TypeOK
  <2>2. (/\ used \in Nat /\ active \in 0..used /\ pending \in 0..used /\ role \in 0..used
         /\ sessions \subseteq 1..used)'
    BY <1>17 DEF Provision, StageAfter, TypeOK
  <2>5. (target \in [Actors -> {"role_created", "database_created", "ready"}])'
    <3>1. row \in Incomplete => StageAfter[row] \in {"role_created", "database_created", "ready"}
      BY SMT DEF Incomplete, StageAfter
    <3> QED
      BY <1>17, <3>1 DEF Provision, TypeOK
  <2>6. (mine \in [Actors -> 0..used] /\ faults \in Nat)'
    BY <1>17 DEF Provision, TypeOK
  <2>3. (/\ target \in [Actors -> {"role_created", "database_created", "ready"}]
         /\ mine \in [Actors -> 0..used] /\ faults \in Nat)'
    BY <2>5, <2>6
  <2>4. (/\ row \in {"absent", "ready", "deleting"} \cup Incomplete
         /\ built \subseteq Parts /\ lock \in {"free"} \cup Actors)'
    BY <1>17 DEF Provision, StageAfter, TypeOK, Incomplete, Parts
  <2> QED
    BY <2>1, <2>2, <2>3, <2>4 DEF TypeOK
<1>18. ASSUME NEW a \in Provisioners, RunStage(a) PROVE TypeOK'
  <2>1. failed' \in BOOLEAN
    BY <1>18 DEF RunStage, EnsureRole, EnsureDatabase, ApplyLimits, TypeOK
  <2>2. (/\ used \in Nat /\ active \in 0..used /\ pending \in 0..used /\ role \in 0..used
         /\ sessions \subseteq 1..used)'
    BY <1>18, SMT DEF RunStage, EnsureRole, EnsureDatabase, ApplyLimits, TypeOK
  <2>3. (/\ target \in [Actors -> {"role_created", "database_created", "ready"}]
         /\ mine \in [Actors -> 0..used] /\ faults \in Nat)'
    BY <1>18, SMT DEF RunStage, EnsureRole, EnsureDatabase, ApplyLimits, TypeOK
  <2>4. (/\ row \in {"absent", "ready", "deleting"} \cup Incomplete
         /\ built \subseteq Parts /\ lock \in {"free"} \cup Actors)'
    BY <1>18 DEF RunStage, EnsureRole, EnsureDatabase, ApplyLimits, TypeOK, Incomplete, Parts
  <2> QED
    BY <2>1, <2>2, <2>3, <2>4 DEF TypeOK
<1>19. ASSUME NEW a \in Provisioners, SetProjectStage(a) PROVE TypeOK'
  <2>1. failed' \in BOOLEAN
    BY <1>19 DEF SetProjectStage, StageAfter, TypeOK
  <2>2. (/\ used \in Nat /\ active \in 0..used /\ pending \in 0..used /\ role \in 0..used
         /\ sessions \subseteq 1..used)'
    BY <1>19 DEF SetProjectStage, StageAfter, TypeOK
  <2>5. (target \in [Actors -> {"role_created", "database_created", "ready"}])'
    <3>1. CASE target[a] = "ready"
      BY <1>19, <3>1 DEF SetProjectStage, TypeOK
    <3>2. CASE target[a] # "ready"
      <4>1. StageAfter[target[a]] \in {"role_created", "database_created", "ready"}
        BY <3>2, SMT DEF TypeOK, StageAfter
      <4> QED
        BY <1>19, <3>2, <4>1 DEF SetProjectStage, TypeOK
    <3> QED
      BY <3>1, <3>2
  <2>6. (mine \in [Actors -> 0..used] /\ faults \in Nat)'
    BY <1>19, SMT DEF SetProjectStage, TypeOK
  <2>3. (/\ target \in [Actors -> {"role_created", "database_created", "ready"}]
         /\ mine \in [Actors -> 0..used] /\ faults \in Nat)'
    BY <2>5, <2>6
  <2>4. (/\ row \in {"absent", "ready", "deleting"} \cup Incomplete
         /\ built \subseteq Parts /\ lock \in {"free"} \cup Actors)'
    BY <1>19 DEF SetProjectStage, StageAfter, TypeOK, Incomplete, Parts
  <2> QED
    BY <2>1, <2>2, <2>3, <2>4 DEF TypeOK
<1>20. ASSUME NEW a \in Provisioners, FailProject(a) PROVE TypeOK'
  <2>1. failed' \in BOOLEAN
    BY <1>20 DEF FailProject, TypeOK
  <2> QED
    BY <1>20, <2>1, SMT DEF FailProject, TypeOK, Incomplete, Parts
<1>21. ASSUME NEW a \in Requests, RotateRequest(a) PROVE TypeOK'
  <2>1. failed' \in BOOLEAN
    BY <1>21 DEF RotateRequest, TypeOK
  <2> QED
    BY <1>21, <2>1 DEF RotateRequest, TypeOK, Incomplete, Parts
<1>22. ASSUME NEW a \in Requests, BeginRotation(a) PROVE TypeOK'
  <2>1. failed' \in BOOLEAN
    BY <1>22 DEF BeginRotation, TypeOK
  <2>2. (/\ used \in Nat /\ active \in 0..used /\ pending \in 0..used /\ role \in 0..used
         /\ sessions \subseteq 1..used)'
    BY <1>22, SMT DEF BeginRotation, TypeOK
  <2>5. 0..used \subseteq 0..used'
    BY <1>22, SMT DEF BeginRotation, TypeOK
  <2>3. (/\ target \in [Actors -> {"role_created", "database_created", "ready"}]
         /\ mine \in [Actors -> 0..used] /\ faults \in Nat)'
    <3>1. mine \in [Actors -> 0..used'] /\ used' \in Nat
      BY <2>2, <2>5 DEF TypeOK
    <3>2. used' = used + 1 => used + 1 \in 0..used'
      BY <2>2, SMT
    <3>3. mine' \in [Actors -> 0..used']
      BY <1>22, <3>1, <3>2 DEF BeginRotation
    <3> QED
      BY <1>22, <3>3 DEF BeginRotation, TypeOK
  <2>4. (/\ row \in {"absent", "ready", "deleting"} \cup Incomplete
         /\ built \subseteq Parts /\ lock \in {"free"} \cup Actors)'
    BY <1>22 DEF BeginRotation, TypeOK, Incomplete, Parts
  <2> QED
    BY <2>1, <2>2, <2>3, <2>4 DEF TypeOK
<1>23. ASSUME NEW a \in Requests \cup {"loop"}, SetPassword(a) PROVE TypeOK'
  <2>1. failed' \in BOOLEAN
    BY <1>23 DEF SetPassword, AfterRotation, TypeOK
  <2> QED
    BY <1>23, <2>1, SMT DEF SetPassword, AfterRotation, TypeOK, Incomplete, Parts
<1>24. ASSUME NEW a \in Requests \cup {"loop"}, TerminateSessions(a) PROVE TypeOK'
  <2>1. failed' \in BOOLEAN
    BY <1>24 DEF TerminateSessions, AfterRotation, TypeOK
  <2>2. (/\ used \in Nat /\ active \in 0..used /\ pending \in 0..used /\ role \in 0..used
         /\ sessions \subseteq 1..used)'
    BY <1>24 DEF TerminateSessions, AfterRotation, TypeOK
  <2>3. (/\ target \in [Actors -> {"role_created", "database_created", "ready"}]
         /\ mine \in [Actors -> 0..used] /\ faults \in Nat)'
    BY <1>24, SMT DEF TerminateSessions, AfterRotation, TypeOK
  <2>4. (/\ row \in {"absent", "ready", "deleting"} \cup Incomplete
         /\ built \subseteq Parts /\ lock \in {"free"} \cup Actors)'
    BY <1>24 DEF TerminateSessions, AfterRotation, TypeOK, Incomplete, Parts
  <2> QED
    BY <2>1, <2>2, <2>3, <2>4 DEF TypeOK
<1>25. ASSUME NEW a \in Requests \cup {"loop"}, CompleteRotation(a) PROVE TypeOK'
  <2>1. failed' \in BOOLEAN
    BY <1>25 DEF CompleteRotation, AfterRotation, TypeOK
  <2> QED
    BY <1>25, <2>1, SMT DEF CompleteRotation, AfterRotation, TypeOK, Incomplete, Parts
<1>26. CASE UNCHANGED vars
  <2>1. failed' \in BOOLEAN
    BY <1>26 DEF vars, TypeOK
  <2> QED
    BY <1>26, <2>1 DEF vars, TypeOK, Incomplete, Parts
<1> QED
  BY <1>1, <1>2, <1>3, <1>4, <1>5, <1>6, <1>7, <1>8, <1>9, <1>10, <1>11, <1>12, <1>13, <1>14,
     <1>15, <1>16, <1>17, <1>18, <1>19, <1>20, <1>21, <1>22, <1>23, <1>24, <1>25, <1>26 DEF Next,
     LoopStep, WorkerStep, RotationStep, Provisioners

\* Every step keeps the lock and the places of the goroutines consistent.
LEMMA LockStep == TypeOK /\ PcOK /\ LockHeld /\ [Next]_vars => (PcOK /\ LockHeld)'
<1> SUFFICES ASSUME TypeOK, PcOK, LockHeld, [Next]_vars PROVE (PcOK /\ LockHeld)'
  OBVIOUS
<1> USE RequestsAssumption DEF Go, Leave, Fault, metadata, postgres, Actors, Provisioners
<1> USE DEF LoopPcs, WorkerPcs, RequestPcs, ProvisionSteps, RotationSteps, DeletionSteps
<1>1. CASE CreateProject
  <2>1. PcOK'
    BY <1>1 DEF CreateProject, PcOK
  <2>2. LockHeld'
    BY <1>1 DEF CreateProject, PcOK, LockHeld, HeldSteps
  <2> QED
    BY <2>1, <2>2
<1>2. CASE RetryProject
  <2>1. PcOK'
    BY <1>2 DEF RetryProject, PcOK
  <2>2. LockHeld'
    BY <1>2 DEF RetryProject, PcOK, LockHeld, HeldSteps
  <2> QED
    BY <2>1, <2>2
<1>3. CASE BeginProjectDeletion
  <2>1. PcOK'
    BY <1>3 DEF BeginProjectDeletion, PcOK
  <2>2. LockHeld'
    BY <1>3 DEF BeginProjectDeletion, PcOK, LockHeld, HeldSteps
  <2> QED
    BY <2>1, <2>2
<1>4. CASE PendingRotations
  <2>1. PcOK'
    BY <1>4 DEF PendingRotations, PcOK
  <2>2. LockHeld'
    BY <1>4 DEF PendingRotations, PcOK, LockHeld, HeldSteps
  <2> QED
    BY <2>1, <2>2
<1>5. CASE IncompleteProjects
  <2>1. PcOK'
    BY <1>5 DEF IncompleteProjects, PcOK
  <2>2. LockHeld'
    BY <1>5 DEF IncompleteProjects, PcOK, LockHeld, HeldSteps
  <2> QED
    BY <2>1, <2>2
<1>6. CASE ProvisionNow
  <2>1. PcOK'
    BY <1>6 DEF ProvisionNow, PcOK
  <2>2. LockHeld'
    BY <1>6 DEF ProvisionNow, PcOK, LockHeld, HeldSteps
  <2> QED
    BY <2>1, <2>2
<1>7. CASE FinishRotations
  <2>1. PcOK'
    BY <1>7, ZenonT(60) DEF FinishRotations, PcOK
  <2>2. LockHeld'
    BY <1>7, SMT DEF FinishRotations, PcOK, LockHeld, HeldSteps
  <2> QED
    BY <2>1, <2>2
<1>8. CASE RunDelete
  <2>1. PcOK'
    BY <1>8 DEF RunDelete, PcOK
  <2>2. LockHeld'
    BY <1>8, SMT DEF RunDelete, PcOK, LockHeld, HeldSteps
  <2> QED
    BY <2>1, <2>2
<1>9. CASE DisableLogin
  <2>1. PcOK'
    BY <1>9 DEF DisableLogin, DeleteStep, PcOK
  <2>2. LockHeld'
    BY <1>9, SMT DEF DisableLogin, DeleteStep, PcOK, LockHeld, HeldSteps
  <2> QED
    BY <2>1, <2>2
<1>10. CASE EndSessions
  <2>1. PcOK'
    BY <1>10 DEF EndSessions, DeleteStep, PcOK
  <2>2. LockHeld'
    BY <1>10, SMT DEF EndSessions, DeleteStep, PcOK, LockHeld, HeldSteps
  <2> QED
    BY <2>1, <2>2
<1>11. CASE DropDatabase
  <2>1. PcOK'
    BY <1>11 DEF DropDatabase, DeleteStep, PcOK
  <2>2. LockHeld'
    BY <1>11, SMT DEF DropDatabase, DeleteStep, PcOK, LockHeld, HeldSteps
  <2> QED
    BY <2>1, <2>2
<1>12. CASE DropRole
  <2>1. PcOK'
    BY <1>12 DEF DropRole, DeleteStep, PcOK
  <2>2. LockHeld'
    BY <1>12, SMT DEF DropRole, DeleteStep, PcOK, LockHeld, HeldSteps
  <2> QED
    BY <2>1, <2>2
<1>13. CASE SyncPolicy
  <2>1. PcOK'
    BY <1>13 DEF SyncPolicy, DeleteStep, PcOK
  <2>2. LockHeld'
    BY <1>13, SMT DEF SyncPolicy, DeleteStep, PcOK, LockHeld, HeldSteps
  <2> QED
    BY <2>1, <2>2
<1>14. CASE CompleteProjectDeletion
  <2>1. PcOK'
    BY <1>14 DEF CompleteProjectDeletion, PcOK
  <2>2. LockHeld'
    BY <1>14 DEF CompleteProjectDeletion, PcOK, LockHeld, HeldSteps
  <2> QED
    BY <2>1, <2>2
<1>15. CASE Connect
  <2>1. PcOK'
    BY <1>15 DEF Connect, PcOK
  <2>2. LockHeld'
    BY <1>15 DEF Connect, PcOK, LockHeld, HeldSteps
  <2> QED
    BY <2>1, <2>2
<1>16. CASE Crash
  <2>1. PcOK'
    BY <1>16 DEF Crash, Rest, PcOK
  <2>2. LockHeld'
    BY <1>16 DEF Crash, Rest, PcOK, LockHeld, HeldSteps
  <2> QED
    BY <2>1, <2>2
<1>17. ASSUME NEW a \in Provisioners, Provision(a) PROVE (PcOK /\ LockHeld)'
  <2>1. PcOK'
    BY <1>17, ZenonT(60) DEF Provision, StageAfter, PcOK
  <2>2. LockHeld'
    BY <1>17, SMT DEF Provision, StageAfter, PcOK, LockHeld, HeldSteps
  <2> QED
    BY <2>1, <2>2
<1>18. ASSUME NEW a \in Provisioners, RunStage(a) PROVE (PcOK /\ LockHeld)'
  <2>1. PcOK'
    BY <1>18 DEF RunStage, EnsureRole, EnsureDatabase, ApplyLimits, PcOK
  <2>2. LockHeld'
    BY <1>18, SMT DEF RunStage, EnsureRole, EnsureDatabase, ApplyLimits, PcOK, LockHeld, HeldSteps
  <2> QED
    BY <2>1, <2>2
<1>19. ASSUME NEW a \in Provisioners, SetProjectStage(a) PROVE (PcOK /\ LockHeld)'
  <2>1. PcOK'
    BY <1>19, ZenonT(60) DEF SetProjectStage, StageAfter, PcOK
  <2>2. LockHeld'
    BY <1>19, SMT DEF SetProjectStage, StageAfter, PcOK, LockHeld, HeldSteps
  <2> QED
    BY <2>1, <2>2
<1>20. ASSUME NEW a \in Provisioners, FailProject(a) PROVE (PcOK /\ LockHeld)'
  <2>1. PcOK'
    BY <1>20 DEF FailProject, PcOK
  <2>2. LockHeld'
    BY <1>20 DEF FailProject, PcOK, LockHeld, HeldSteps
  <2> QED
    BY <2>1, <2>2
<1>21. ASSUME NEW a \in Requests, RotateRequest(a) PROVE (PcOK /\ LockHeld)'
  <2>1. PcOK'
    BY <1>21 DEF RotateRequest, PcOK
  <2>2. LockHeld'
    BY <1>21 DEF RotateRequest, PcOK, LockHeld, HeldSteps
  <2> QED
    BY <2>1, <2>2
<1>22. ASSUME NEW a \in Requests, BeginRotation(a) PROVE (PcOK /\ LockHeld)'
  <2>1. PcOK'
    BY <1>22, ZenonT(60) DEF BeginRotation, PcOK
  <2>2. LockHeld'
    BY <1>22, SMT DEF BeginRotation, PcOK, LockHeld, HeldSteps
  <2> QED
    BY <2>1, <2>2
<1>23. ASSUME NEW a \in Requests \cup {"loop"}, SetPassword(a) PROVE (PcOK /\ LockHeld)'
  <2>1. PcOK'
    BY <1>23, ZenonT(60) DEF SetPassword, AfterRotation, PcOK
  <2>2. \A b \in Actors \ {a} : pc'[b] = pc[b] /\ pc[b] \notin HeldSteps
    BY <1>23 DEF SetPassword, AfterRotation, PcOK, LockHeld, HeldSteps
  <2>3. pc'[a] \in HeldSteps <=> lock' = a
    BY <1>23 DEF SetPassword, AfterRotation, PcOK, LockHeld, HeldSteps
  <2>4. lock' \in {a, "free"}
    BY <1>23 DEF SetPassword, AfterRotation, PcOK, LockHeld, HeldSteps
  <2>5. LockHeld'
    BY <2>2, <2>3, <2>4 DEF LockHeld
  <2> QED
    BY <2>1, <2>5
<1>24. ASSUME NEW a \in Requests \cup {"loop"}, TerminateSessions(a) PROVE (PcOK /\ LockHeld)'
  <2>1. PcOK'
    BY <1>24, ZenonT(60) DEF TerminateSessions, AfterRotation, PcOK
  <2>2. \A b \in Actors \ {a} : pc'[b] = pc[b] /\ pc[b] \notin HeldSteps
    BY <1>24 DEF TerminateSessions, AfterRotation, PcOK, LockHeld, HeldSteps
  <2>3. pc'[a] \in HeldSteps <=> lock' = a
    BY <1>24 DEF TerminateSessions, AfterRotation, PcOK, LockHeld, HeldSteps
  <2>4. lock' \in {a, "free"}
    BY <1>24 DEF TerminateSessions, AfterRotation, PcOK, LockHeld, HeldSteps
  <2>5. LockHeld'
    BY <2>2, <2>3, <2>4 DEF LockHeld
  <2> QED
    BY <2>1, <2>5
<1>25. ASSUME NEW a \in Requests \cup {"loop"}, CompleteRotation(a) PROVE (PcOK /\ LockHeld)'
  <2>1. PcOK'
    BY <1>25 DEF CompleteRotation, AfterRotation, PcOK
  <2>2. \A b \in Actors \ {a} : pc'[b] = pc[b] /\ pc[b] \notin HeldSteps
    BY <1>25 DEF CompleteRotation, AfterRotation, PcOK, LockHeld, HeldSteps
  <2>3. pc'[a] \in HeldSteps <=> lock' = a
    BY <1>25 DEF CompleteRotation, AfterRotation, PcOK, LockHeld, HeldSteps
  <2>4. lock' \in {a, "free"}
    BY <1>25 DEF CompleteRotation, AfterRotation, PcOK, LockHeld, HeldSteps
  <2>5. LockHeld'
    BY <2>2, <2>3, <2>4 DEF LockHeld
  <2> QED
    BY <2>1, <2>5
<1>26. CASE UNCHANGED vars
  <2>1. PcOK'
    BY <1>26 DEF vars, PcOK
  <2>2. LockHeld'
    BY <1>26 DEF vars, PcOK, LockHeld, HeldSteps
  <2> QED
    BY <2>1, <2>2
<1> QED
  BY <1>1, <1>2, <1>3, <1>4, <1>5, <1>6, <1>7, <1>8, <1>9, <1>10, <1>11, <1>12, <1>13, <1>14,
     <1>15, <1>16, <1>17, <1>18, <1>19, <1>20, <1>21, <1>22, <1>23, <1>24, <1>25, <1>26 DEF Next,
     LoopStep, WorkerStep, RotationStep, Provisioners

\* Every step keeps the invariant.
LEMMA RoleStep == RoleInvariant /\ [Next]_vars => RoleInvariant'
<1> SUFFICES ASSUME RoleInvariant, [Next]_vars PROVE RoleInvariant'
  OBVIOUS
<1>0. /\ TypeOK /\ PcOK /\ LockHeld /\ Provisioned /\ Rotated /\ Removed /\ Truthful /\ NoOrphan
      /\ TypeOK' /\ PcOK' /\ LockHeld'
  BY TypeStep, LockStep DEF RoleInvariant
<1> USE <1>0, RequestsAssumption DEF Go, Leave, Fault, metadata, postgres, Actors, Provisioners, HeldSteps,
        ProvisionSteps, RotationSteps, DeletionSteps
<1>1. CASE CreateProject
  <2>1. Provisioned'
    BY <1>1, SMT DEF CreateProject, Provisioned, TypeOK
  <2>2. Rotated'
    BY <1>1 DEF CreateProject, Rotated
  <2>3. Removed'
    BY <1>1, SMT DEF CreateProject, Removed, Truthful, TypeOK
  <2>4. Truthful'
    BY <1>1, SMT DEF CreateProject, Truthful, TypeOK, Made
  <2>5. NoOrphan'
    BY <1>1 DEF CreateProject, NoOrphan
  <2> QED
    BY <2>1, <2>2, <2>3, <2>4, <2>5 DEF RoleInvariant
<1>2. CASE RetryProject
  <2>1. Provisioned'
    BY <1>2 DEF RetryProject, Provisioned, Made
  <2>2. Rotated'
    BY <1>2 DEF RetryProject, Rotated
  <2>3. Removed'
    BY <1>2 DEF RetryProject, Removed
  <2>4. Truthful'
    BY <1>2 DEF RetryProject, Truthful, Made
  <2>5. NoOrphan'
    BY <1>2 DEF RetryProject, NoOrphan
  <2> QED
    BY <2>1, <2>2, <2>3, <2>4, <2>5 DEF RoleInvariant
<1>3. CASE BeginProjectDeletion
  <2>1. Provisioned'
    BY <1>3, SMT DEF BeginProjectDeletion, Provisioned, Made
  <2>2. Rotated'
    BY <1>3, SMT DEF BeginProjectDeletion, Rotated
  <2>3. Removed'
    BY <1>3, SMT DEF BeginProjectDeletion, Removed
  <2>4. Truthful'
    BY <1>3 DEF BeginProjectDeletion, Truthful, Incomplete
  <2>5. NoOrphan'
    BY <1>3 DEF BeginProjectDeletion, NoOrphan
  <2> QED
    BY <2>1, <2>2, <2>3, <2>4, <2>5 DEF RoleInvariant
<1>4. CASE PendingRotations
  <2>1. Provisioned'
    BY <1>4, SMT DEF PendingRotations, Provisioned, Made
  <2>2. Rotated'
    BY <1>4, SMT DEF PendingRotations, Rotated
  <2>3. Removed'
    BY <1>4, SMT DEF PendingRotations, Removed
  <2>4. Truthful'
    BY <1>4 DEF PendingRotations, Truthful, Made
  <2>5. NoOrphan'
    BY <1>4 DEF PendingRotations, NoOrphan
  <2> QED
    BY <2>1, <2>2, <2>3, <2>4, <2>5 DEF RoleInvariant
<1>5. CASE IncompleteProjects
  <2>1. Provisioned'
    BY <1>5, SMT DEF IncompleteProjects, Provisioned, Made
  <2>2. Rotated'
    BY <1>5, SMT DEF IncompleteProjects, Rotated
  <2>3. Removed'
    BY <1>5, SMT DEF IncompleteProjects, Removed
  <2>4. Truthful'
    BY <1>5 DEF IncompleteProjects, Truthful, Made
  <2>5. NoOrphan'
    BY <1>5 DEF IncompleteProjects, NoOrphan
  <2> QED
    BY <2>1, <2>2, <2>3, <2>4, <2>5 DEF RoleInvariant
<1>6. CASE ProvisionNow
  <2>1. Provisioned'
    BY <1>6, SMT DEF ProvisionNow, Provisioned, Made
  <2>2. Rotated'
    BY <1>6, SMT DEF ProvisionNow, Rotated
  <2>3. Removed'
    BY <1>6, SMT DEF ProvisionNow, Removed
  <2>4. Truthful'
    BY <1>6 DEF ProvisionNow, Truthful, Made
  <2>5. NoOrphan'
    BY <1>6 DEF ProvisionNow, NoOrphan
  <2> QED
    BY <2>1, <2>2, <2>3, <2>4, <2>5 DEF RoleInvariant
<1>7. CASE FinishRotations
  <2>0. \A b \in Actors \ {"loop"} :
          pc'[b] = pc[b] /\ mine'[b] = mine[b] /\ (lock = "free" => pc[b] \notin HeldSteps)
    BY <1>7, SMT DEF FinishRotations, TypeOK, PcOK, LockHeld
  <2>1. Provisioned'
    BY <1>7, <2>0 DEF FinishRotations, Provisioned, PcOK, Made
  <2>2. Rotated'
    <3> SUFFICES ASSUME NEW b \in Requests \cup {"loop"}, pc'[b] \in RotationSteps
                 PROVE  (/\ pending = mine[b] /\ mine[b] # 0
                         /\ pc[b] \in {"terminate", "complete"} => role = mine[b]
                         /\ pc[b] = "complete" => sessions \subseteq {mine[b]})'
      BY DEF Rotated
    <3>1. CASE b = "loop"
      BY <1>7, <2>0, <3>1 DEF FinishRotations, PcOK, TypeOK
    <3>2. CASE b # "loop"
      <4>1. b \in Actors \ {"loop"}
        BY <3>2
      <4>2. lock # "free" /\ pc[b] \in RotationSteps
        BY <2>0, <4>1
      <4> QED
        BY <1>7, <2>0, <4>1, <4>2 DEF FinishRotations, Rotated
    <3> QED
      BY <3>1, <3>2
  <2>3. Removed'
    BY <1>7, <2>0 DEF FinishRotations, Removed
  <2>4. Truthful'
    BY <1>7, <2>0 DEF FinishRotations, Truthful, Made
  <2>5. NoOrphan'
    BY <1>7, <2>0 DEF FinishRotations, NoOrphan
  <2> QED
    BY <2>1, <2>2, <2>3, <2>4, <2>5 DEF RoleInvariant
<1>8. CASE RunDelete
  <2>1. Provisioned'
    BY <1>8, SMT DEF RunDelete, Provisioned, Made
  <2>2. Rotated'
    BY <1>8, SMT DEF RunDelete, Rotated
  <2>3. Removed'
    BY <1>8, SMT DEF RunDelete, Removed
  <2>4. Truthful'
    BY <1>8 DEF RunDelete, Truthful
  <2>5. NoOrphan'
    BY <1>8 DEF RunDelete, NoOrphan
  <2> QED
    BY <2>1, <2>2, <2>3, <2>4, <2>5 DEF RoleInvariant
<1>9. CASE DisableLogin
  <2>0. \A b \in Actors \ {"worker"} : pc'[b] = pc[b] /\ pc[b] \notin HeldSteps
    BY <1>9 DEF DisableLogin, DeleteStep, PcOK, LockHeld
  <2>1. Provisioned'
    BY <1>9, <2>0 DEF DisableLogin, DeleteStep, Provisioned, PcOK
  <2>2. Rotated'
    BY <1>9, <2>0 DEF DisableLogin, DeleteStep, Rotated, LockHeld, PcOK, TypeOK
  <2>3. Removed'
    BY <1>9, <2>0 DEF DisableLogin, DeleteStep, Removed, PcOK
  <2>4. Truthful'
    BY <1>9, <2>0 DEF DisableLogin, DeleteStep, Truthful, Removed
  <2>5. NoOrphan'
    BY <1>9, <2>0 DEF DisableLogin, DeleteStep, NoOrphan
  <2> QED
    BY <2>1, <2>2, <2>3, <2>4, <2>5 DEF RoleInvariant
<1>10. CASE EndSessions
  <2>0. \A b \in Actors \ {"worker"} : pc'[b] = pc[b] /\ pc[b] \notin HeldSteps
    BY <1>10 DEF EndSessions, DeleteStep, PcOK, LockHeld
  <2>1. Provisioned'
    BY <1>10, <2>0 DEF EndSessions, DeleteStep, Provisioned, PcOK
  <2>2. Rotated'
    BY <1>10, <2>0 DEF EndSessions, DeleteStep, Rotated, LockHeld, PcOK, TypeOK
  <2>3. Removed'
    BY <1>10, <2>0 DEF EndSessions, DeleteStep, Removed, PcOK
  <2>4. Truthful'
    BY <1>10, <2>0 DEF EndSessions, DeleteStep, Truthful, Made
  <2>5. NoOrphan'
    BY <1>10, <2>0 DEF EndSessions, DeleteStep, NoOrphan
  <2> QED
    BY <2>1, <2>2, <2>3, <2>4, <2>5 DEF RoleInvariant
<1>11. CASE DropDatabase
  <2>0. \A b \in Actors \ {"worker"} : pc'[b] = pc[b] /\ pc[b] \notin HeldSteps
    BY <1>11 DEF DropDatabase, DeleteStep, PcOK, LockHeld
  <2>1. Provisioned'
    BY <1>11, <2>0 DEF DropDatabase, DeleteStep, Provisioned, PcOK
  <2>2. Rotated'
    BY <1>11, <2>0 DEF DropDatabase, DeleteStep, Rotated, LockHeld, PcOK, TypeOK
  <2>3. Removed'
    BY <1>11, <2>0 DEF DropDatabase, DeleteStep, Removed, Truthful, PcOK
  <2>4. Truthful'
    BY <1>11, <2>0 DEF DropDatabase, DeleteStep, Truthful, Removed
  <2>5. NoOrphan'
    BY <1>11, <2>0 DEF DropDatabase, DeleteStep, NoOrphan
  <2> QED
    BY <2>1, <2>2, <2>3, <2>4, <2>5 DEF RoleInvariant
<1>12. CASE DropRole
  <2>0. \A b \in Actors \ {"worker"} : pc'[b] = pc[b] /\ pc[b] \notin HeldSteps
    BY <1>12 DEF DropRole, DeleteStep, PcOK, LockHeld
  <2>1. Provisioned'
    BY <1>12, <2>0 DEF DropRole, DeleteStep, Provisioned, PcOK
  <2>2. Rotated'
    BY <1>12, <2>0 DEF DropRole, DeleteStep, Rotated, LockHeld, PcOK, TypeOK
  <2>3. Removed'
    BY <1>12, <2>0, SMT DEF DropRole, DeleteStep, Removed, PcOK, TypeOK, Parts
  <2>4. Truthful'
    BY <1>12, <2>0 DEF DropRole, DeleteStep, Truthful, Removed
  <2>5. NoOrphan'
    BY <1>12, <2>0 DEF DropRole, DeleteStep, NoOrphan
  <2> QED
    BY <2>1, <2>2, <2>3, <2>4, <2>5 DEF RoleInvariant
<1>13. CASE SyncPolicy
  <2>0. \A b \in Actors \ {"worker"} : pc'[b] = pc[b] /\ pc[b] \notin HeldSteps
    BY <1>13 DEF SyncPolicy, DeleteStep, PcOK, LockHeld
  <2>1. Provisioned'
    BY <1>13, <2>0 DEF SyncPolicy, DeleteStep, Provisioned, PcOK
  <2>2. Rotated'
    BY <1>13, <2>0 DEF SyncPolicy, DeleteStep, Rotated, LockHeld, PcOK, TypeOK
  <2>3. Removed'
    BY <1>13, <2>0 DEF SyncPolicy, DeleteStep, Removed
  <2>4. Truthful'
    BY <1>13, <2>0 DEF SyncPolicy, DeleteStep, Truthful, Rotated, Removed, LockHeld
  <2>5. NoOrphan'
    BY <1>13, <2>0 DEF SyncPolicy, DeleteStep, NoOrphan
  <2> QED
    BY <2>1, <2>2, <2>3, <2>4, <2>5 DEF RoleInvariant
<1>14. CASE CompleteProjectDeletion
  <2>0. \A b \in Actors \ {"worker"} : pc'[b] = pc[b] /\ pc[b] \notin HeldSteps
    BY <1>14 DEF CompleteProjectDeletion, PcOK, LockHeld
  <2>1. Provisioned'
    BY <1>14, <2>0, SMT DEF CompleteProjectDeletion, Provisioned
  <2>2. Rotated'
    BY <1>14, <2>0 DEF CompleteProjectDeletion, Rotated, LockHeld, PcOK, TypeOK
  <2>3. Removed'
    BY <1>14, <2>0 DEF CompleteProjectDeletion, Removed, Truthful, LockHeld
  <2>4. Truthful'
    BY <1>14, <2>0 DEF CompleteProjectDeletion, Truthful, Made
  <2>5. NoOrphan'
    BY <1>14, <2>0 DEF CompleteProjectDeletion, NoOrphan, Removed
  <2> QED
    BY <2>1, <2>2, <2>3, <2>4, <2>5 DEF RoleInvariant
<1>15. CASE Connect
  <2>1. Provisioned'
    BY <1>15 DEF Connect, Provisioned, Made
  <2>2. Rotated'
    BY <1>15 DEF Connect, Rotated
  <2>3. Removed'
    BY <1>15 DEF Connect, Removed
  <2>4. Truthful'
    BY <1>15 DEF Connect, Truthful, Made
  <2>5. NoOrphan'
    BY <1>15 DEF Connect, NoOrphan
  <2> QED
    BY <2>1, <2>2, <2>3, <2>4, <2>5 DEF RoleInvariant
<1>16. CASE Crash
  <2>1. Provisioned'
    BY <1>16 DEF Crash, Rest, Provisioned
  <2>2. Rotated'
    BY <1>16 DEF Crash, Rest, Rotated
  <2>3. Removed'
    BY <1>16 DEF Crash, Rest, Removed
  <2>4. Truthful'
    BY <1>16 DEF Crash, Truthful, Made
  <2>5. NoOrphan'
    BY <1>16 DEF Crash, NoOrphan
  <2> QED
    BY <2>1, <2>2, <2>3, <2>4, <2>5 DEF RoleInvariant
<1>17. ASSUME NEW a \in Provisioners, Provision(a) PROVE RoleInvariant'
  <2>0. \A b \in Actors \ {a} :
          pc'[b] = pc[b] /\ mine'[b] = mine[b] /\ (lock = "free" => pc[b] \notin HeldSteps)
    BY <1>17, SMT DEF Provision, TypeOK, PcOK, LockHeld
  <2>1. Provisioned'
    BY <1>17, <2>0, SMT DEF Provision, StageAfter, Provisioned, PcOK, TypeOK, Truthful, Made,
       Incomplete
  <2>2. Rotated'
    <3> SUFFICES ASSUME NEW b \in Requests \cup {"loop"}, pc'[b] \in RotationSteps
                 PROVE  (/\ pending = mine[b] /\ mine[b] # 0
                         /\ pc[b] \in {"terminate", "complete"} => role = mine[b]
                         /\ pc[b] = "complete" => sessions \subseteq {mine[b]})'
      BY DEF Rotated
    <3>1. CASE b = a
      BY <1>17, <2>0, <3>1 DEF Provision, PcOK
    <3>2. CASE b # a
      <4>1. b \in Actors \ {a}
        BY <3>2
      <4>2. lock # "free" /\ pc[b] \in RotationSteps
        BY <2>0, <4>1
      <4> QED
        BY <1>17, <2>0, <4>1, <4>2 DEF Provision, StageAfter, Rotated
    <3> QED
      BY <3>1, <3>2
  <2>3. Removed'
    BY <1>17, <2>0 DEF Provision, Removed, PcOK
  <2>4. Truthful'
    BY <1>17, <2>0 DEF Provision, Truthful, Made
  <2>5. NoOrphan'
    BY <1>17, <2>0 DEF Provision, NoOrphan
  <2> QED
    BY <2>1, <2>2, <2>3, <2>4, <2>5 DEF RoleInvariant
<1>18. ASSUME NEW a \in Provisioners, RunStage(a) PROVE RoleInvariant'
  <2>0. \A b \in Actors \ {a} : pc'[b] = pc[b] /\ pc[b] \notin HeldSteps
    BY <1>18 DEF RunStage, PcOK, LockHeld
  <2>1. Provisioned'
    BY <1>18, <2>0 DEF RunStage, EnsureRole, EnsureDatabase, ApplyLimits, Provisioned, PcOK, Made
  <2>2. Rotated'
    BY <1>18, <2>0, ZenonT(60) DEF RunStage, EnsureRole, EnsureDatabase, ApplyLimits, Rotated, LockHeld, PcOK,
       TypeOK
  <2>3. Removed'
    BY <1>18, <2>0 DEF RunStage, Removed, PcOK
  <2>4. Truthful'
    BY <1>18, <2>0 DEF RunStage, EnsureRole, EnsureDatabase, ApplyLimits, Truthful, Provisioned,
       Made
  <2>5. NoOrphan'
    BY <1>18, <2>0 DEF RunStage, NoOrphan, Provisioned, Incomplete
  <2> QED
    BY <2>1, <2>2, <2>3, <2>4, <2>5 DEF RoleInvariant
<1>19. ASSUME NEW a \in Provisioners, SetProjectStage(a) PROVE RoleInvariant'
  <2>0. \A b \in Actors \ {a} : pc'[b] = pc[b] /\ pc[b] \notin HeldSteps
    BY <1>19 DEF SetProjectStage, PcOK, LockHeld
  <2>1. Provisioned'
    <3>1. \A b \in Provisioners : pc'[b] \in ProvisionSteps => b = a
      BY <2>0
    <3>2. /\ pc'[a] \in ProvisionSteps => pc'[a] = "run" /\ target[a] # "ready"
          /\ pc'[a] = "run" => target'[a] = StageAfter[target[a]]
      BY <1>19, SMT DEF SetProjectStage, PcOK, TypeOK
    <3>3. pc'[a] \in ProvisionSteps => row' \in Incomplete \cup {"deleting"} /\ mine'[a] = active'
      BY <1>19, <3>2 DEF SetProjectStage, Provisioned, PcOK, TypeOK
    <3> QED
      BY <1>19, <3>1, <3>2, <3>3, SMT DEF SetProjectStage, StageAfter, Provisioned, TypeOK, Made
  <2>2. Rotated'
    <3> SUFFICES ASSUME NEW b \in Requests \cup {"loop"}, pc'[b] \in RotationSteps
                 PROVE  (/\ pending = mine[b] /\ mine[b] # 0
                         /\ pc[b] \in {"terminate", "complete"} => role = mine[b]
                         /\ pc[b] = "complete" => sessions \subseteq {mine[b]})'
      BY DEF Rotated
    <3>1. CASE b = a
      BY <1>19, <2>0, <3>1 DEF SetProjectStage, PcOK, TypeOK
    <3>2. CASE b # a
      BY <1>19, <2>0, <3>2 DEF SetProjectStage, StageAfter, Rotated
    <3> QED
      BY <3>1, <3>2
  <2>3. Removed'
    BY <1>19, <2>0 DEF SetProjectStage, Removed, PcOK
  <2>4. Truthful'
    BY <1>19, <2>0 DEF SetProjectStage, Truthful, Provisioned, Made, Incomplete
  <2>5. NoOrphan'
    BY <1>19, <2>0 DEF SetProjectStage, NoOrphan, TypeOK, Incomplete
  <2> QED
    BY <2>1, <2>2, <2>3, <2>4, <2>5 DEF RoleInvariant
<1>20. ASSUME NEW a \in Provisioners, FailProject(a) PROVE RoleInvariant'
  <2>1. Provisioned'
    BY <1>20, SMT DEF FailProject, Provisioned, Made
  <2>2. Rotated'
    BY <1>20, SMT DEF FailProject, Rotated
  <2>3. Removed'
    BY <1>20, SMT DEF FailProject, Removed
  <2>4. Truthful'
    BY <1>20 DEF FailProject, Truthful, Made
  <2>5. NoOrphan'
    BY <1>20 DEF FailProject, NoOrphan
  <2> QED
    BY <2>1, <2>2, <2>3, <2>4, <2>5 DEF RoleInvariant
<1>21. ASSUME NEW a \in Requests, RotateRequest(a) PROVE RoleInvariant'
  <2>1. Provisioned'
    BY <1>21, SMT DEF RotateRequest, Provisioned, LockHeld, Incomplete
  <2>2. Rotated'
    BY <1>21, SMT DEF RotateRequest, Rotated
  <2>3. Removed'
    BY <1>21, SMT DEF RotateRequest, Removed
  <2>4. Truthful'
    BY <1>21 DEF RotateRequest, Truthful, Made
  <2>5. NoOrphan'
    BY <1>21 DEF RotateRequest, NoOrphan
  <2> QED
    BY <2>1, <2>2, <2>3, <2>4, <2>5 DEF RoleInvariant
<1>22. ASSUME NEW a \in Requests, BeginRotation(a) PROVE RoleInvariant'
  <2>0. \A b \in Actors \ {a} :
          pc'[b] = pc[b] /\ mine'[b] = mine[b] /\ (lock = "free" => pc[b] \notin HeldSteps)
    BY <1>22, SMT DEF BeginRotation, TypeOK, PcOK, LockHeld
  <2>1. Provisioned'
    BY <1>22, <2>0 DEF BeginRotation, Provisioned
  <2>2. Rotated'
    <3> SUFFICES ASSUME NEW b \in Requests \cup {"loop"}, pc'[b] \in RotationSteps
                 PROVE  (/\ pending = mine[b] /\ mine[b] # 0
                         /\ pc[b] \in {"terminate", "complete"} => role = mine[b]
                         /\ pc[b] = "complete" => sessions \subseteq {mine[b]})'
      BY DEF Rotated
    <3>1. CASE b = a
      BY <1>22, <2>0, <3>1, SMT DEF BeginRotation, PcOK, TypeOK
    <3>2. CASE b # a
      <4>1. b \in Actors \ {a}
        BY <3>2
      <4>2. lock # "free" /\ pc[b] \in RotationSteps
        BY <2>0, <4>1
      <4> QED
        BY <1>22, <2>0, <4>1, <4>2 DEF BeginRotation, Rotated
    <3> QED
      BY <3>1, <3>2
  <2>3. Removed'
    BY <1>22, <2>0 DEF BeginRotation, Removed
  <2>4. Truthful'
    BY <1>22, <2>0, SMT DEF BeginRotation, Truthful, TypeOK, Made
  <2>5. NoOrphan'
    BY <1>22, <2>0 DEF BeginRotation, NoOrphan
  <2> QED
    BY <2>1, <2>2, <2>3, <2>4, <2>5 DEF RoleInvariant
<1>23. ASSUME NEW a \in Requests \cup {"loop"}, SetPassword(a) PROVE RoleInvariant'
  <2>0. \A b \in Actors \ {a} : pc'[b] = pc[b] /\ pc[b] \notin HeldSteps
    BY <1>23 DEF SetPassword, AfterRotation, PcOK, LockHeld
  <2>1. Provisioned'
    BY <1>23, <2>0 DEF SetPassword, Provisioned, LockHeld, PcOK
  <2>2. Rotated'
    BY <1>23, <2>0, ZenonT(60) DEF SetPassword, AfterRotation, Rotated, LockHeld, PcOK, TypeOK
  <2>3. Removed'
    BY <1>23, <2>0 DEF Removed
  <2>4. Truthful'
    BY <1>23, <2>0, ZenonT(60) DEF SetPassword, AfterRotation, Truthful, Provisioned, Rotated, Removed,
       LockHeld, PcOK, TypeOK, Made, Incomplete
  <2>5. NoOrphan'
    BY <1>23, <2>0 DEF SetPassword, NoOrphan
  <2> QED
    BY <2>1, <2>2, <2>3, <2>4, <2>5 DEF RoleInvariant
<1>24. ASSUME NEW a \in Requests \cup {"loop"}, TerminateSessions(a) PROVE RoleInvariant'
  <2>0. \A b \in Actors \ {a} : pc'[b] = pc[b] /\ pc[b] \notin HeldSteps
    BY <1>24 DEF TerminateSessions, AfterRotation, PcOK, LockHeld
  <2>1. Provisioned'
    BY <1>24, <2>0, ZenonT(60) DEF TerminateSessions, AfterRotation, Provisioned, LockHeld, PcOK, TypeOK,
       Truthful, Made, Incomplete
  <2>2. Rotated'
    BY <1>24, <2>0, ZenonT(60) DEF TerminateSessions, AfterRotation, Rotated, LockHeld, PcOK, TypeOK
  <2>3. Removed'
    BY <1>24, <2>0 DEF Removed
  <2>4. Truthful'
    BY <1>24, <2>0 DEF TerminateSessions, Truthful, Made
  <2>5. NoOrphan'
    BY <1>24, <2>0 DEF TerminateSessions, NoOrphan
  <2> QED
    BY <2>1, <2>2, <2>3, <2>4, <2>5 DEF RoleInvariant
<1>25. ASSUME NEW a \in Requests \cup {"loop"}, CompleteRotation(a) PROVE RoleInvariant'
  <2>0. \A b \in Actors \ {a} : pc'[b] = pc[b] /\ pc[b] \notin HeldSteps
    BY <1>25, SMT DEF CompleteRotation, LockHeld
  <2>1. Provisioned'
    BY <1>25, <2>0, SMT DEF CompleteRotation, AfterRotation, Provisioned
  <2>2. Rotated'
    BY <1>25, <2>0 DEF CompleteRotation, AfterRotation, Rotated, LockHeld, PcOK, TypeOK
  <2>3. Removed'
    BY <1>25, <2>0 DEF Removed
  <2>4. Truthful'
    BY <1>25, <2>0 DEF CompleteRotation, Truthful, Rotated, Made
  <2>5. NoOrphan'
    BY <1>25, <2>0 DEF CompleteRotation, NoOrphan, Provisioned, Removed
  <2> QED
    BY <2>1, <2>2, <2>3, <2>4, <2>5 DEF RoleInvariant
<1>26. CASE UNCHANGED vars
  <2>1. Provisioned'
    BY <1>26 DEF vars, Provisioned, Made
  <2>2. Rotated'
    BY <1>26 DEF vars, Rotated
  <2>3. Removed'
    BY <1>26 DEF vars, Removed
  <2>4. Truthful'
    BY <1>26 DEF vars, Truthful, Made
  <2>5. NoOrphan'
    BY <1>26 DEF vars, NoOrphan
  <2> QED
    BY <2>1, <2>2, <2>3, <2>4, <2>5 DEF RoleInvariant
<1> QED
  BY <1>1, <1>2, <1>3, <1>4, <1>5, <1>6, <1>7, <1>8, <1>9, <1>10, <1>11, <1>12, <1>13, <1>14,
     <1>15, <1>16, <1>17, <1>18, <1>19, <1>20, <1>21, <1>22, <1>23, <1>24, <1>25, <1>26 DEF Next,
     LoopStep, WorkerStep, RotationStep, Provisioners

\* Whatever the requests and however many faults: nothing in PostgreSQL is
\* without its project, ready projects are complete, and unless a rotation is
\* pending the stored password is the one in force.
THEOREM RolesAreSafe == Spec => [](NoOrphan /\ ReadyIsComplete /\ CredentialsWork)
<1>1. RoleInvariant => NoOrphan /\ ReadyIsComplete /\ CredentialsWork
  BY DEF RoleInvariant, ReadyIsComplete, CredentialsWork, Truthful, Made, TypeOK, Parts
<1> QED
  BY RoleInit, RoleStep, <1>1, PTL DEF Spec

\* Unless a rotation is pending, the password that is shown for a ready project is
\* the one PostgreSQL accepts, and no session of another is left (Rotate).
THEOREM CredentialsStayUsable == Spec => []CredentialsWork
<1>1. RoleInvariant => CredentialsWork
  BY DEF RoleInvariant, CredentialsWork, Truthful, Made, TypeOK, Parts
<1> QED
  BY RoleInit, RoleStep, <1>1, PTL DEF Spec

\* The types, and that the lock is held by exactly the goroutine whose step
\* needs it (RotationLock serialises provisioning, rotation and deletion).
THEOREM LockSerialises == Spec => [](TypeOK /\ LockHeld)
<1>1. RoleInvariant => TypeOK /\ LockHeld
  BY DEF RoleInvariant
<1> QED
  BY RoleInit, RoleStep, <1>1, PTL DEF Spec
=============================================================================
