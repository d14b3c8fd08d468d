---------------------------- MODULE HostProofs ----------------------------
(***************************************************************************)
(* What holds of the commands of one installation for every number of      *)
(* hostnames, changes, renewals, faults and losses; and of its updates     *)
(* and their rollback.                                                     *)
(***************************************************************************)
EXTENDS Host, Update, TLAPS

\* Leaves that need arithmetic, records or many cases cite SMT.
USE Zenon

(***************************************************************************)
(* The release.                                                            *)
(***************************************************************************)
IsConfig == cfg = [access |-> cfg.access, release |-> cfg.release]
ReleaseInv == IsConfig /\ ReleaseStays

\* What a step does to the configuration and to the release.
ReleaseFrame ==
    \/ UNCHANGED <<cfg, release>>
    \/ release' = release /\ \E a : cfg' = [access |-> a, release |-> release]
    \/ release' = release /\ \E a : cfg' = [cfg EXCEPT !.access = a]
    \/ cfg' = [cfg EXCEPT !.release = release']

LEMMA InstallStepFrame == InstallStep => UNCHANGED <<cfg, release>>
BY DEF InstallStep, InstallState, InstallInspect, InstallSecret, InstallCaddyfile, InstallEnv, InstallTls,
   InstallConverge, InstallStore, InstallMigrate, InstallPostgres, InstallAll, InstallVerify,
   InstallRestart, InstallTimers, InstallStage, Refuse, files

LEMMA CertStepFrame == CertStep => UNCHANGED <<files, data, note>>
BY DEF CertStep, ReadCertificate, ReadKey, CheckPair, WriteKey, WriteCertificate, Reload, Observe,
   BackCertificate, BackKey, BackReload, RecordSync

LEMMA AccessStepFrame == AccessStep => ReleaseFrame
<1> SUFFICES ASSUME AccessStep PROVE ReleaseFrame
  OBVIOUS
<1>1. CASE AccessConfig
  BY <1>1 DEF AccessConfig, NewConfig, ReleaseFrame
<1>2. CASE RestoreConfig
  BY <1>2 DEF RestoreConfig, ReleaseFrame
<1>3. CASE AccessCaddyfile \/ AccessEnv \/ AccessUp \/ AccessVerify \/ AccessTimers \/ AccessFails
  BY <1>3 DEF AccessCaddyfile, AccessEnv, AccessUp, AccessVerify, AccessTimers, AccessFails, files, ReleaseFrame
<1>4. CASE RestoreCaddyfile \/ RestoreEnv \/ RestoreUp \/ RestoreTimers
  BY <1>4 DEF RestoreCaddyfile, RestoreEnv, RestoreUp, RestoreTimers, files, ReleaseFrame
<1>5. QED
  BY <1>1, <1>2, <1>3, <1>4 DEF AccessStep

LEMMA CommandFrame == Command => ReleaseFrame
<1> SUFFICES ASSUME Command PROVE ReleaseFrame
  OBVIOUS
<1>1. ASSUME NEW a \in FirstAccess, Install(a) PROVE ReleaseFrame
  BY <1>1 DEF Install, ReleaseFrame
<1>2. ASSUME NEW a \in Accesses, ChangeAccess(a) PROVE ReleaseFrame
  BY <1>2 DEF ChangeAccess, ReleaseFrame
<1>3. CASE Reinstall \/ RollbackHostname \/ SyncDbCert
  BY <1>3 DEF Reinstall, RollbackHostname, SyncDbCert, files, ReleaseFrame
<1>4. CASE UpdateCommits
  BY <1>4 DEF UpdateCommits, ReleaseFrame
<1>5. QED
  BY <1>1, <1>2, <1>3, <1>4 DEF Command

LEMMA EnvironmentFrame == Environment => UNCHANGED files
BY DEF Environment, PostgresInitialises, CaddyObtains, CaddyRenews, PostgresRestarts, InstallFails,
   InstallTimesOut, Killed, HostRestarts, LoseSecret, LoseVolume, LoseStore

\* Every step leaves the configuration and the release alone, changes the access
\* only, or brings both to the same release.
LEMMA NextFrame == [Next]_hostVars => ReleaseFrame
BY InstallStepFrame, CertStepFrame, AccessStepFrame, CommandFrame, EnvironmentFrame
   DEF Next, ReleaseFrame, files, hostVars

\* No command takes install.json back to an earlier release (change_access: "the
\* record may predate an update, and must not revert the release").
THEOREM ReleaseIsKept == Spec => []ReleaseStays
<1>1. Init => ReleaseInv
  BY SMT DEF Init, ReleaseInv, IsConfig, ReleaseStays
<1>2. ReleaseInv /\ [Next]_hostVars => ReleaseInv'
  BY NextFrame, SMT DEF ReleaseInv, IsConfig, ReleaseStays, ReleaseFrame
<1>3. ReleaseInv => ReleaseStays
  BY DEF ReleaseInv
<1>4. QED
  BY <1>1, <1>2, <1>3, PTL DEF Spec

(***************************************************************************)
(* The secrets.                                                            *)
(***************************************************************************)
\* A rerun that found an empty volume still faces one while it draws secrets.
SecretsInv ==
    /\ secrets \in [Secrets -> Nat] /\ minted \in Nat
    /\ volume = [st |-> volume.st, value |-> volume.value]
    /\ SecretsHold
    /\ pc = "i_secrets" /\ op.data = "empty" => volume.st = "empty"

\* What a step may do to the volume: nothing that makes an empty one anything
\* but an initialisation under way, and nothing that makes one ready.
VolumeFrame ==
    /\ volume' = [st |-> volume'.st, value |-> volume'.value]
    /\ volume'.st = "ready" => volume' = volume

LEMMA StartsFrame ==
    ASSUME volume = [st |-> volume.st, value |-> volume.value]
    PROVE  /\ volume' \in {volume, VolumeOnStart, Stopped(volume)} => VolumeFrame
           /\ RecreateAll => VolumeFrame
BY SMT DEF VolumeFrame, VolumeOnStart, Stopped, RecreateAll

\* A step that leaves the secrets and the metadata alone, makes no volume ready
\* and does not go to the drawing of secrets keeps the invariant.
LEMMA SecretsQuiet ==
    ASSUME SecretsInv, VolumeFrame, UNCHANGED <<secrets, store, minted>>, pc' # "i_secrets"
    PROVE  SecretsInv'
BY DEF SecretsInv, VolumeFrame, SecretsHold

LEMMA SecretsStill ==
    ASSUME SecretsInv, UNCHANGED data, pc' # "i_secrets"
    PROVE  SecretsInv'
BY DEF SecretsInv, SecretsHold, data

LEMMA InstallKeepsSecrets == SecretsInv /\ InstallStep => SecretsInv'
<1> SUFFICES ASSUME SecretsInv, InstallStep PROVE SecretsInv'
  OBVIOUS
<1>1. CASE InstallInspect
  BY <1>1 DEF InstallInspect, Refuse, Idle, Blank, data, SecretsInv, SecretsHold
<1>2. CASE InstallSecret
  <2>1. CASE UNCHANGED <<secrets, minted>>
    BY <1>2, <2>1 DEF InstallSecret, Go, Idle, At, SecretsInv, SecretsHold
  <2>2. CASE MayCreateSecret /\ UNCHANGED <<pc, op, volume, store>> /\ minted' = minted + 1
             /\ \E s \in Secrets : secrets' = [secrets EXCEPT ![s] = minted + 1]
    BY <1>2, <2>2, SMT DEF InstallSecret, MayCreateSecret, At, SecretsInv, SecretsHold, Secrets
  <2>3. QED
    BY <1>2, <2>1, <2>2 DEF InstallSecret, Secrets
<1>3. CASE InstallStore \/ InstallMigrate
  BY <1>3, SMT DEF InstallStore, InstallMigrate, Go, Idle, At, SecretsInv, SecretsHold, Secrets
<1>4. CASE InstallPostgres
  <2>1. VolumeFrame
    BY <1>4, StartsFrame DEF InstallPostgres, SecretsInv
  <2>2. QED
    BY <1>4, <2>1, SecretsQuiet DEF InstallPostgres, Go
<1>5. CASE InstallState \/ InstallCaddyfile \/ InstallEnv \/ InstallTls \/ InstallConverge
  BY <1>5, SecretsStill DEF InstallState, InstallCaddyfile, InstallEnv, InstallTls, InstallConverge, Go, Idle, At
<1>6. CASE InstallAll \/ InstallVerify \/ InstallRestart \/ InstallTimers \/ InstallStage
  BY <1>6, SecretsStill DEF InstallAll, InstallVerify, InstallRestart, InstallTimers, InstallStage, Go, Idle, At
<1>7. QED
  BY <1>1, <1>2, <1>3, <1>4, <1>5, <1>6 DEF InstallStep

LEMMA AccessKeepsSecrets == SecretsInv /\ AccessStep => SecretsInv'
<1> SUFFICES ASSUME SecretsInv, AccessStep PROVE SecretsInv'
  OBVIOUS
<1>1. CASE AccessUp \/ RestoreUp
  <2>1. VolumeFrame
    BY <1>1, StartsFrame DEF AccessUp, RestoreUp, SecretsInv, VolumeFrame
  <2>2. QED
    BY <1>1, <2>1, SecretsQuiet DEF AccessUp, RestoreUp, Go
<1>2. CASE AccessConfig \/ AccessCaddyfile \/ AccessEnv \/ AccessVerify \/ AccessTimers \/ AccessFails
  BY <1>2, SecretsStill DEF AccessConfig, AccessCaddyfile, AccessEnv, AccessVerify, AccessTimers, AccessFails, Go, Idle
<1>3. CASE RestoreConfig \/ RestoreCaddyfile \/ RestoreEnv \/ RestoreTimers
  BY <1>3, SecretsStill DEF RestoreConfig, RestoreCaddyfile, RestoreEnv, RestoreTimers, Go, Idle
<1>4. QED
  BY <1>1, <1>2, <1>3 DEF AccessStep

LEMMA CertKeepsSecrets == SecretsInv /\ CertStep => SecretsInv'
BY SecretsStill DEF CertStep, ReadCertificate, ReadKey, CheckPair, WriteKey, WriteCertificate, Reload,
   Observe, BackCertificate, BackKey, BackReload, RecordSync, Go, Idle

LEMMA CommandKeepsSecrets == SecretsInv /\ Command => SecretsInv'
BY SecretsStill DEF Command, Install, ChangeAccess, Reinstall, RollbackHostname, SyncDbCert, UpdateCommits,
   Go, At

LEMMA EnvironmentKeepsSecrets == SecretsInv /\ Environment => SecretsInv'
<1> SUFFICES ASSUME SecretsInv, Environment PROVE SecretsInv'
  OBVIOUS
<1>1. CASE PostgresInitialises
  BY <1>1 DEF PostgresInitialises, SecretsInv, SecretsHold, Secrets
<1>2. CASE HostRestarts
  <2>1. VolumeFrame
    BY <1>2, StartsFrame DEF HostRestarts, SecretsInv
  <2>2. QED
    BY <1>2, <2>1, SecretsQuiet DEF HostRestarts, Left, Idle
<1>3. ASSUME NEW s \in Secrets, LoseSecret(s) PROVE SecretsInv'
  BY <1>3 DEF LoseSecret, At, SecretsInv, SecretsHold, Secrets
<1>4. CASE LoseVolume \/ LoseStore
  BY <1>4, SMT DEF LoseVolume, LoseStore, At, SecretsInv, SecretsHold
<1>5. CASE InstallFails \/ InstallTimesOut \/ Killed
  BY <1>5, SecretsStill DEF InstallFails, InstallTimesOut, Killed, Left, Idle
<1>6. ASSUME NEW h \in Hosts, CaddyObtains(h) \/ CaddyRenews(h) PROVE SecretsInv'
  BY <1>6 DEF CaddyObtains, CaddyRenews, data, SecretsInv, SecretsHold
<1>7. CASE PostgresRestarts
  BY <1>7 DEF PostgresRestarts, data, SecretsInv, SecretsHold
<1>8. QED
  BY <1>1, <1>2, <1>3, <1>4, <1>5, <1>6, <1>7 DEF Environment

\* An initialised volume or metadata keeps the secrets it was made with: no rerun
\* of the installer replaces one that is still needed ("credentials will not be
\* regenerated").
THEOREM SecretsAreKept == Spec => []SecretsHold
<1>1. Init => SecretsInv
  BY SMT DEF Init, SecretsInv, SecretsHold, Secrets
<1>2. SecretsInv /\ [Next]_hostVars => SecretsInv'
  <2> SUFFICES ASSUME SecretsInv, [Next]_hostVars PROVE SecretsInv'
    OBVIOUS
  <2>1. CASE UNCHANGED hostVars
    BY <2>1 DEF hostVars, data, SecretsInv, SecretsHold
  <2>2. QED
    BY <2>1, InstallKeepsSecrets, AccessKeepsSecrets, CertKeepsSecrets, CommandKeepsSecrets,
       EnvironmentKeepsSecrets DEF Next
<1>3. SecretsInv => SecretsHold
  BY DEF SecretsInv
<1>4. QED
  BY <1>1, <1>2, <1>3, PTL DEF Spec

(***************************************************************************)
(* The access.                                                             *)
(***************************************************************************)
Budget == [trouble : Nat, losses : Nat, changes : Nat, renewals : Nat, events : Nat]

Shapes ==
    /\ cfg = [access |-> cfg.access, release |-> cfg.release]
    /\ run = [pg |-> run.pg, web |-> run.web, app |-> run.app, caddy |-> run.caddy]
    /\ left \in Budget /\ left.losses <= MaxLosses
    /\ stage # None \/ At("i_state") => cfg.access # None

Written == caddyfile = cfg.access /\ env = Mode(cfg.access)
Published == Routed /\ run.pg \in {env, None} /\ (run.pg = None => Lost)
Timed == timer = (Mode(cfg.access) = "https")

\* Outside a change: all of one access, the timer too unless it was left behind.
Settled ==
    pc \notin AccessSteps /\ stage = "installed" /\ ~Unfinished =>
        Written /\ Published /\ (broken = "no" => Timed)

\* How far an installation is.
FromEnv == {"i_tls", "i_converge", "i_store", "i_migrate", "i_pg", "i_all", "i_verify", "i_restart", "i_timers", "i_stage"}
FromConverge == FromEnv \ {"i_tls", "i_converge"}
Installing ==
    /\ pc \in FromEnv => env = Mode(cfg.access)
    /\ pc \in FromConverge => caddyfile = cfg.access
    /\ pc \in {"i_all", "i_verify", "i_restart", "i_timers", "i_stage"} => run.pg = env
    /\ pc \in {"i_restart", "i_timers", "i_stage"} => Routed
    /\ pc = "i_stage" /\ broken = "no" => Timed
    /\ pc \in InstallSteps \ {"i_state"} => stage # None

\* How far a change or its restoration is.
Changing ==
    /\ pc \in AccessSteps => /\ op.kind \in {"change", "rollback"} /\ op.access # None /\ op.old # None
                             /\ stage # None
                             /\ stage = "installed" /\ ~Unfinished => op.caddy = op.old
    /\ pc \in {"a_caddyfile", "a_env", "a_up", "a_verify", "a_timers"} => cfg.access = op.access
    /\ pc \in {"a_env", "a_up", "a_verify", "a_timers"} => caddyfile = op.access
    /\ pc \in {"a_up", "a_verify", "a_timers"} => env = Mode(op.access)
    /\ pc \in {"a_verify", "a_timers"} => run.pg = env
    /\ pc = "a_timers" => Routed
    /\ pc \in {"r_caddyfile", "r_env", "r_up", "r_timers"} => cfg.access = op.old
    /\ pc \in {"r_env", "r_up", "r_timers"} => caddyfile = op.caddy
    /\ pc \in {"r_up", "r_timers"} => env = Mode(op.old)
    /\ pc = "r_timers" /\ ~Unfinished =>
          run = [pg |-> env, web |-> Mode(cfg.access), app |-> cfg.access, caddy |-> caddyfile]

\* What a rollback would return to.
UndoingChange ==
    /\ stage = None => verified = None
    /\ verified # None =>
          /\ ~Unfinished => verified = IF pc \in AccessSteps THEN op.old ELSE cfg.access
          /\ pc \in AccessSteps /\ op.kind = "change" => record.access = verified
    /\ UndoIsVerified

AccessInv == Shapes /\ Settled /\ Installing /\ Changing /\ UndoingChange

USE DEF Budget

LEMMA SpendKeeps ==
    ASSUME left \in Budget,
           NEW what \in {"trouble", "changes", "renewals"}, Spend(what)
    PROVE  left' \in Budget /\ left'.losses = left.losses
<1>1. CASE what = "trouble"
  <2>1. left' = [trouble |-> left.trouble - 1, losses |-> left.losses, changes |-> left.changes,
                 renewals |-> left.renewals, events |-> left.events - 1]
    BY <1>1 DEF Spend
  <2>2. left.trouble \in Nat /\ left.events \in Nat /\ left.trouble > 0 /\ left.events > 0
    BY <1>1 DEF Spend
  <2>3. left.trouble - 1 \in Nat /\ left.events - 1 \in Nat
    BY <2>2, SMT
  <2>4. QED
    BY <2>1, <2>3
<1>2. CASE what = "changes"
  <2>1. left' = [trouble |-> left.trouble, losses |-> left.losses, changes |-> left.changes - 1,
                 renewals |-> left.renewals, events |-> left.events - 1]
    BY <1>2 DEF Spend
  <2>2. left.changes \in Nat /\ left.events \in Nat /\ left.changes > 0 /\ left.events > 0
    BY <1>2 DEF Spend
  <2>3. left.changes - 1 \in Nat /\ left.events - 1 \in Nat
    BY <2>2, SMT
  <2>4. QED
    BY <2>1, <2>3
<1>3. CASE what = "renewals"
  <2>1. left' = [trouble |-> left.trouble, losses |-> left.losses, changes |-> left.changes,
                 renewals |-> left.renewals - 1, events |-> left.events - 1]
    BY <1>3 DEF Spend
  <2>2. left.renewals \in Nat /\ left.events \in Nat /\ left.renewals > 0 /\ left.events > 0
    BY <1>3 DEF Spend
  <2>3. left.renewals - 1 \in Nat /\ left.events - 1 \in Nat
    BY <2>2, SMT
  <2>4. QED
    BY <2>1, <2>3
<1>4. QED
  BY <1>1, <1>2, <1>3

LEMMA LoseKeeps ==
    ASSUME left \in Budget, left.losses <= MaxLosses, Spend("losses")
    PROVE  /\ left' \in Budget
           /\ left'.losses <= left.losses /\ left'.losses <= MaxLosses /\ Lost'
<1>1. left' = [trouble |-> left.trouble, losses |-> left.losses - 1, changes |-> left.changes,
               renewals |-> left.renewals, events |-> left.events - 1]
  BY DEF Spend
<1>2. left.losses \in Nat /\ left.events \in Nat /\ left.losses > 0 /\ left.events > 0
  BY DEF Spend
<1>3. left.losses - 1 \in Nat /\ left.events - 1 \in Nat
  BY <1>2, SMT
<1>4. QED
  BY <1>1, <1>2, <1>3, HostAssumption, SMT DEF Lost

LEMMA UnheardKeeps ==
    ASSUME left \in Budget, CountUnheard
    PROVE  left' \in Budget /\ left'.losses = left.losses
BY SpendKeeps DEF CountUnheard

\* converge_host leaves the timer of the access, or a mark.
LEMMA ConvergeKeeps ==
    ASSUME NEW a, NEW rest, ConvergeHost(a, rest)
    PROVE  /\ broken' = rest \/ (rest = "no" /\ broken' = "unheard")
           /\ broken' = "no" => timer' = (Mode(a) = "https")
BY DEF ConvergeHost, TimerFor

LEMMA ModeIsSome == ASSUME NEW a, a # None PROVE Mode(a) # None
BY DEF Mode, None

\* The parts of the invariant, and what they are made of.
USE DEF AccessInv, Shapes, Settled, Installing, Changing, UndoingChange, UndoIsVerified, Unfinished,
        FromEnv, FromConverge, AccessSteps, ChangeSteps, RestoreSteps, InstallSteps, At, Go

LEMMA AccessChangeKeeps ==
    ASSUME AccessInv, AccessConfig \/ AccessCaddyfile \/ AccessEnv \/ AccessUp \/ AccessVerify
    PROVE  AccessInv'
<1>1. CASE AccessConfig
  BY <1>1 DEF AccessConfig, NewConfig, note
<1>2. CASE AccessCaddyfile
  BY <1>2 DEF AccessCaddyfile, note
<1>3. CASE AccessEnv
  BY <1>3 DEF AccessEnv, note
<1>4. CASE AccessUp
  BY <1>4 DEF AccessUp, RecreateAll, files, note
<1>5. CASE AccessVerify
  BY <1>5 DEF AccessVerify, Serving, Routed, files, note
<1>6. QED
  BY <1>1, <1>2, <1>3, <1>4, <1>5

LEMMA AccessEndKeeps ==
    ASSUME AccessInv, AccessTimers \/ AccessFails
    PROVE  AccessInv'
<1>1. CASE AccessTimers
  <2>1. left' \in Budget /\ left'.losses = left.losses
    BY <1>1, SpendKeeps, UnheardKeeps DEF AccessTimers
  <2>2. Written /\ Routed /\ run.pg = env /\ run.pg # None
    BY <1>1, ModeIsSome DEF AccessTimers, Written
  <2>3. /\ pc' \notin AccessSteps \cup InstallSteps
        /\ broken' \in {"no", "timers", "unheard"} /\ (broken' = "no" => Timed')
    BY <1>1, ConvergeKeeps DEF AccessTimers, Timed, Idle, files
  <2>4. QED
    BY <1>1, <2>1, <2>2, <2>3 DEF AccessTimers, files, Written, Published, Routed, Lost
<1>2. CASE AccessFails
  <2>1. left' \in Budget /\ left'.losses = left.losses
    BY <1>2, SpendKeeps DEF AccessFails
  <2>2. QED
    BY <1>2, <2>1 DEF AccessFails, files, note
<1>3. QED
  BY <1>1, <1>2

LEMMA RestoreKeeps ==
    ASSUME AccessInv, RestoreConfig \/ RestoreCaddyfile \/ RestoreEnv \/ RestoreUp
    PROVE  AccessInv'
<1>1. CASE RestoreConfig
  BY <1>1 DEF RestoreConfig, note
<1>2. CASE RestoreCaddyfile
  BY <1>2 DEF RestoreCaddyfile, note
<1>3. CASE RestoreEnv
  BY <1>3 DEF RestoreEnv, RestoredEnv, note
<1>4. CASE RestoreUp
  <2>1. left' \in Budget /\ left'.losses = left.losses
    BY <1>4, SpendKeeps DEF RestoreUp
  <2>2. CASE RecreateAll /\ UNCHANGED broken
    BY <1>4, <2>1, <2>2 DEF RestoreUp, RecreateAll, files
  <2>3. CASE broken' = op.kind /\ UNCHANGED run
    BY <1>4, <2>1, <2>3 DEF RestoreUp, files
  <2>4. QED
    BY <1>4, <2>2, <2>3 DEF RestoreUp
<1>5. QED
  BY <1>1, <1>2, <1>3, <1>4

LEMMA RestoreEndKeeps ==
    ASSUME AccessInv, RestoreTimers
    PROVE  AccessInv'
<1>1. left' \in Budget /\ left'.losses = left.losses
  BY SpendKeeps, UnheardKeeps DEF RestoreTimers
<1>2. ASSUME stage = "installed", ~Unfinished
      PROVE  Written /\ Routed /\ run.pg = env /\ run.pg # None
  BY <1>2, ModeIsSome, SMT DEF RestoreTimers, Written, Routed
<1>3. broken' = "no" => Timed'
  BY ConvergeKeeps DEF RestoreTimers, Timed, files
<1>4. (Unfinished' <=> Unfinished) /\ (Unfinished => broken' = broken)
  <2>1. CASE Unfinished
    BY <2>1 DEF RestoreTimers, ConvergeHost
  <2>2. CASE ~Unfinished
    BY <2>2 DEF RestoreTimers, ConvergeHost
  <2>3. QED
    BY <2>1, <2>2
<1>5. Settled'
  BY <1>1, <1>2, <1>3, <1>4 DEF RestoreTimers, files, Written, Published, Routed, Lost
<1>6. QED
  BY <1>1, <1>4, <1>5 DEF RestoreTimers, Idle, files

LEMMA InstallKeeps ==
    ASSUME AccessInv, InstallStep
    PROVE  AccessInv'
<1>1. CASE InstallState
  BY <1>1 DEF InstallState, note, None
<1>2. CASE InstallInspect \/ InstallSecret
  BY <1>2 DEF InstallInspect, InstallSecret, Refuse, Idle, Written, Published, Routed, Timed, Lost, files, note
<1>3. CASE InstallCaddyfile \/ InstallEnv
  BY <1>3 DEF InstallCaddyfile, InstallEnv, Idle, Written, Published, Routed, Timed, Lost, note
<1>4. CASE InstallTls \/ InstallConverge
  BY <1>4 DEF InstallTls, InstallConverge, Written, Published, Routed, Timed, Lost, files, note
<1>5. CASE InstallStore \/ InstallMigrate
  BY <1>5, SMT DEF InstallStore, InstallMigrate, Idle, Written, Published, Routed, Timed, Lost, files, note
<1>6. CASE InstallPostgres
  BY <1>6, ModeIsSome DEF InstallPostgres, Written, Published, Routed, Timed, Lost, files, note
<1>7. CASE InstallAll
  BY <1>7 DEF InstallAll, Written, Published, Routed, Timed, Lost, files, note
<1>8. CASE InstallVerify
  BY <1>8 DEF InstallVerify, Serving, Written, Published, Routed, Timed, Lost, files, note
<1>9. CASE InstallRestart
  BY <1>9 DEF InstallRestart, Written, Published, Routed, Timed, Lost, files, note
<1>10. CASE InstallTimers
  <2>1. left' \in Budget /\ left'.losses = left.losses
    BY <1>10, UnheardKeeps DEF InstallTimers
  <2>2. broken' \in {"no", "unheard"} /\ (broken' = "no" => Timed')
    BY <1>10, ConvergeKeeps DEF InstallTimers, Timed, files
  <2>3. QED
    BY <1>10, <2>1, <2>2, ModeIsSome DEF InstallTimers, Written, Published, Routed, Lost, files
<1>11. CASE InstallStage
  <2>1. pc' \notin AccessSteps \cup InstallSteps
    BY <1>11 DEF InstallStage, Idle
  <2>2. run.pg # None
    BY <1>11, ModeIsSome DEF InstallStage
  <2>3. QED
    BY <1>11, <2>1, <2>2 DEF InstallStage, Written, Published, Routed, Timed, Lost, note, None
<1>12. QED
  BY <1>1, <1>2, <1>3, <1>4, <1>5, <1>6, <1>7, <1>8, <1>9, <1>10, <1>11 DEF InstallStep

\* A step outside installations and changes that writes no file, changes no
\* container and gives up no budget but trouble keeps the invariant.
LEMMA QuietKeeps ==
    ASSUME AccessInv, UNCHANGED <<files, run, timer, note>>,
           left' \in Budget, left'.losses <= left.losses,
           \/ UNCHANGED <<pc, op>>
           \/ pc \notin AccessSteps /\ pc' \notin AccessSteps \cup InstallSteps
    PROVE  AccessInv'
<1>1. left'.losses <= MaxLosses /\ (Lost => Lost')
  BY HostAssumption, SMT DEF Lost
<1>2. UNCHANGED <<files, run, timer, note, pc, op>> => AccessInv'
  BY <1>1 DEF Written, Published, Routed, Timed, files, note
<1>3. pc \notin AccessSteps /\ pc' \notin AccessSteps \cup InstallSteps => AccessInv'
  BY <1>1 DEF Written, Published, Routed, Timed, files, note
<1>4. QED
  BY <1>2, <1>3

LEMMA CertKeeps ==
    ASSUME AccessInv, CertStep
    PROVE  AccessInv'
<1>1. pc \in CertSteps /\ pc' \in CertSteps \cup {"idle"}
  BY DEF CertStep, ReadCertificate, ReadKey, CheckPair, WriteKey, WriteCertificate, Reload, Observe,
     BackCertificate, BackKey, BackReload, RecordSync, CertSteps, Idle
<1>2. UNCHANGED <<files, run, timer, note>>
  BY DEF CertStep, ReadCertificate, ReadKey, CheckPair, WriteKey, WriteCertificate, Reload, Observe,
     BackCertificate, BackKey, BackReload, RecordSync
<1>3. left' \in Budget /\ left'.losses = left.losses
  BY SpendKeeps DEF CertStep, ReadCertificate, ReadKey, CheckPair, WriteKey, WriteCertificate, Reload, Observe,
     BackCertificate, BackKey, BackReload, RecordSync
<1>4. left'.losses <= left.losses /\ pc \notin AccessSteps /\ pc' \notin AccessSteps \cup InstallSteps
  BY <1>1, <1>3, SMT DEF CertSteps
<1> HIDE DEF AccessInv
<1>5. QED
  BY <1>2, <1>3, <1>4, QuietKeeps

LEMMA CommandKeeps ==
    ASSUME Obedient, AccessInv, Command
    PROVE  AccessInv'
<1>1. ASSUME NEW a \in FirstAccess, Install(a) PROVE AccessInv'
  <2>1. a # None
    BY <1>1, HostAssumption DEF None, Tunnel
  <2>2. QED
    BY <1>1, <2>1 DEF Install, note, None
<1>2. ASSUME NEW a \in Accesses, ChangeAccess(a) PROVE AccessInv'
  <2>1. a # None
    BY <1>2, HostAssumption DEF None, Tunnel, Accesses
  <2>2. left' \in Budget /\ left'.losses = left.losses
    BY <1>2, SpendKeeps DEF ChangeAccess
  <2>3. ~Unfinished
    BY <1>2 DEF ChangeAccess
  <2>4. QED
    BY <1>2, <2>1, <2>2, <2>3 DEF ChangeAccess, Holding, Blank, Written, note
<1>3. CASE RollbackHostname
  BY <1>3 DEF RollbackHostname, Holding, Blank, Written, files, note
<1>4. CASE Reinstall
  BY <1>4 DEF Reinstall, Written, Published, Routed, Timed, Lost, files, note
<1>5. CASE SyncDbCert
  <2>1. left' \in Budget /\ left'.losses <= left.losses /\ pc' \notin AccessSteps \cup InstallSteps
    BY <1>5, SMT DEF SyncDbCert
  <2> HIDE DEF AccessInv
  <2>2. QED
    BY <1>5, <2>1, QuietKeeps DEF SyncDbCert
<1>6. CASE UpdateCommits
  <2>1. left' \in Budget /\ left'.losses = left.losses
    BY <1>6, SpendKeeps DEF UpdateCommits
  <2>2. broken' \in {"no", "unheard"} /\ (broken' = "no" => Timed')
    <3>1. cfg'.access = cfg.access
      BY <1>6 DEF UpdateCommits
    <3>2. QED
      BY <1>6, <3>1, ConvergeKeeps DEF UpdateCommits, Timed
  <2>3. QED
    BY <1>6, <2>1, <2>2 DEF UpdateCommits, Written, Published, Routed, Lost
<1> HIDE DEF AccessInv
<1>7. QED
  BY <1>1, <1>2, <1>3, <1>4, <1>5, <1>6 DEF Command

LEMMA EnvironmentKeeps ==
    ASSUME AccessInv, Environment
    PROVE  AccessInv'
<1>1. CASE PostgresInitialises \/ PostgresRestarts
  <2>1. left' \in Budget /\ left'.losses <= left.losses
    BY <1>1, SMT DEF PostgresInitialises, PostgresRestarts
  <2> HIDE DEF AccessInv
  <2>2. QED
    BY <1>1, <2>1, QuietKeeps DEF PostgresInitialises, PostgresRestarts
<1>2. ASSUME NEW h \in Hosts, CaddyObtains(h) \/ CaddyRenews(h) PROVE AccessInv'
  <2>1. left' \in Budget /\ left'.losses <= left.losses
    BY <1>2, SpendKeeps, SMT DEF CaddyObtains, CaddyRenews
  <2> HIDE DEF AccessInv
  <2>2. QED
    BY <1>2, <2>1, QuietKeeps DEF CaddyObtains, CaddyRenews
<1>3. CASE InstallFails \/ InstallTimesOut
  <2>1. left' \in Budget /\ left'.losses <= left.losses
    BY <1>3, SpendKeeps, SMT DEF InstallFails, InstallTimesOut
  <2> HIDE DEF AccessInv
  <2>2. QED
    BY <1>3, <2>1, QuietKeeps DEF InstallFails, InstallTimesOut, Idle
<1>4. CASE Killed
  <2>1. left' \in Budget /\ left'.losses = left.losses
    BY <1>4, SpendKeeps DEF Killed
  <2>2. QED
    BY <1>4, <2>1 DEF Killed, Left, Idle, Written, Published, Routed, Timed, Lost, files
<1>5. CASE HostRestarts
  <2>1. left' \in Budget /\ left'.losses = left.losses
    BY <1>5, SpendKeeps DEF HostRestarts
  <2>2. QED
    BY <1>5, <2>1 DEF HostRestarts, Left, Idle, Written, Published, Routed, Timed, Lost, files
<1>6. ASSUME NEW s \in Secrets, LoseSecret(s) \/ LoseStore PROVE AccessInv'
  <2>1. left' \in Budget /\ left'.losses <= left.losses
    BY <1>6, LoseKeeps DEF LoseSecret, LoseStore
  <2> HIDE DEF AccessInv
  <2>2. QED
    BY <1>6, <2>1, QuietKeeps DEF LoseSecret, LoseStore
<1>7. CASE LoseVolume
  <2>1. /\ Lost' /\ left'.losses <= MaxLosses
        /\ left' \in Budget
    BY <1>7, LoseKeeps DEF LoseVolume
  <2>2. QED
    BY <1>7, <2>1 DEF LoseVolume, Written, Published, Routed, Timed, files, note
<1> HIDE DEF AccessInv
<1>8. QED
  BY <1>1, <1>2, <1>3, <1>4, <1>5, <1>6, <1>7 DEF Environment, Secrets

LEMMA AccessStepKeeps ==
    ASSUME Obedient, AccessInv, [Next]_hostVars
    PROVE  AccessInv'
<1>1. left \in Budget /\ left.losses <= left.losses
  BY SMT
<1> HIDE DEF AccessInv
<1>2. CASE UNCHANGED hostVars
  BY <1>1, <1>2, QuietKeeps DEF hostVars
<1>3. CASE AccessStep
  BY <1>3, AccessChangeKeeps, AccessEndKeeps, RestoreKeeps, RestoreEndKeeps DEF AccessStep
<1>4. QED
  BY <1>2, <1>3, CommandKeeps, InstallKeeps, CertKeeps, EnvironmentKeeps DEF Next

HIDE DEF Budget, AccessInv, Shapes, Settled, Installing, Changing, UndoingChange, UndoIsVerified, Unfinished,
         FromEnv, FromConverge, AccessSteps, ChangeSteps, RestoreSteps, InstallSteps, At, Go

LEMMA AccessInvHolds == ASSUME Obedient PROVE Spec => []AccessInv
<1>1. Init => AccessInv
  BY HostAssumption, SMT DEF Init, None, Budget, AccessInv, Shapes, Settled, Installing, Changing, UndoingChange, UndoIsVerified,
     Unfinished, FromEnv, FromConverge, AccessSteps, ChangeSteps, RestoreSteps, InstallSteps, At
<1>2. AccessInv /\ [Next]_hostVars => AccessInv'
  BY AccessStepKeeps
<1>3. QED
  BY <1>1, <1>2, PTL DEF Spec

\* Whenever no command runs and no change was left unfinished, every file and
\* container is of the one configured access, and so is the certificate timer
\* unless setting it failed, told or not (change_access, write_generated,
\* converge_host), as long as an interrupted change is followed by
\* rollback-hostname.
THEOREM AccessIsOne == ASSUME Obedient PROVE Spec => []OneAccess
<1>1. AccessInv => OneAccess
  BY DEF OneAccess, Written, Published, Timed, AccessInv, Settled, Unfinished, AccessSteps, ChangeSteps,
     RestoreSteps, At
<1>2. QED
  BY <1>1, AccessInvHolds, PTL

\* After an interrupted change the record holds the access that was last verified,
\* so rollback-hostname returns to it (change_access: "rollback also works after
\* process loss"), under the same condition.
THEOREM UndoReturnsToVerified == ASSUME Obedient PROVE Spec => []UndoIsVerified
<1>1. AccessInv => UndoIsVerified
  BY DEF AccessInv, UndoingChange
<1>2. QED
  BY <1>1, AccessInvHolds, PTL

(***************************************************************************)
(* Updates and their rollback, for every list of files and any number of   *)
(* releases, changes and failures: the release in the files, the schema    *)
(* and the application belong together, no accepted change is lost and no  *)
(* job is cut off.                                                         *)
(***************************************************************************)
USE DEF Updating, Trying, Finishing, Undoing, Restoring, Closing

Storage == [schema : Nat, paused : BOOLEAN, changes : Nat]
Uniform(r) == \A i \in Index : file[i] = r
Rewritten(r) == \A i \in Index : i < pos => file[i] = r

Types ==
    /\ pos \in Index /\ file \in [Index -> Nat \ {0}] /\ meta \in Nat
    /\ db \in Storage /\ snap \in Storage /\ app \in {0, db.schema}

\* Where meta.json exists the update is being tried or rolled back, and the
\* snapshot, if it is still there, is of the release to return to.
Outstanding ==
    /\ meta = 0 => /\ Uniform(db.schema) /\ step \notin Trying \cup Closing \cup (Restoring \ {"rb_begin"})
    /\ meta # 0 => dir /\ step \in {"idle"} \cup Trying \cup Restoring \cup Closing
    /\ (meta # 0 /\ snap # NoSnapshot) => snap.schema = meta
    /\ step = "meta" => snap.schema = db.schema

Tried ==
    /\ step \in {"mkdir", "snapshot", "meta", "switch", "up"} => app = 0
    /\ step \in {"snapshot", "meta"} => dir
    /\ step \in {"switch", "up"} => db.schema = meta
    /\ step = "switch" => Rewritten(meta + 1)
    /\ step = "up" => Uniform(meta + 1)
    /\ step \in {"verify", "commit"} => Uniform(meta + 1) /\ db.schema = meta + 1

RolledBack ==
    /\ step \in Restoring \ {"rb_begin"} => snap # NoSnapshot
    /\ step = "rb_files" => Rewritten(meta)
    /\ step \in {"rb_stopped", "rb_restore", "rb_up", "rb_verify", "rb_off"} \cup Closing => Uniform(meta)
    /\ step \in {"rb_restore", "rb_up"} => app = 0
    /\ step \in {"rb_up", "rb_verify", "rb_off"} \cup Closing => db.schema = meta

VersionInv == Types /\ Outstanding /\ Tried /\ RolledBack

\* While a rollback is outstanding nothing is written and no job runs.
WorkInv ==
    /\ accepted \in Nat /\ NothingLost /\ (job => app # 0)
    /\ step \in Updating => ~warned
    /\ step \in Updating \ {"pause"} => db.paused
    /\ step \in {"stop", "mkdir", "snapshot", "meta"} => ~job
    /\ step = "meta" => snap.changes = accepted /\ snap.paused
    /\ (meta # 0 /\ step \notin Closing) => db.paused /\ snap.paused /\ snap.changes = accepted /\ ~warned /\ ~job

LEMMA First == 1 \in Index /\ Index \subseteq Nat /\ NoSnapshot \in Storage /\ Len(Files) \in Index
<1>1. Len(Files) \in Nat /\ Len(Files) > 0
  BY UpdateAssumption, SMT
<1>2. NoSnapshot \in Storage
  BY DEF NoSnapshot, Storage
<1> QED
  BY <1>1, <1>2, SMT DEF Index

LEMMA ReleaseBegins == UpdateInit => VersionInv
<1> SUFFICES ASSUME UpdateInit PROVE VersionInv
  OBVIOUS
<1>1. Types
  BY First, SMT DEF UpdateInit, Types, Storage
<1>2. Uniform(1) /\ db.schema = 1
  BY DEF UpdateInit, Uniform
<1> QED
  BY <1>1, <1>2 DEF UpdateInit, VersionInv, Outstanding, Tried, RolledBack


\* The application starts on its own schema.
LEMMA Restarts == ASSUME VersionInv, Started(db.schema) PROVE app' = db.schema /\ db' = db
<1>1. db \in Storage
  BY DEF VersionInv, Types
<1>2. db' = [db EXCEPT !.schema = db.schema] /\ app' = db.schema
  BY <1>1 DEF Started, Storage
<1> QED
  BY <1>1, <1>2 DEF Storage

\* Steps that write neither files, metadata nor storage.
LEMMA MovesKeep ==
    ASSUME VersionInv, UNCHANGED <<pos, file, meta, snap, db>>,
           \/ Begin \/ CheckJobs \/ RefuseJobs \/ StopApplication \/ MakeDir \/ Verify \/ PassOver \/ Undo
           \/ UnquiesceDone \/ RollbackUpdate \/ RollbackBegins \/ RollbackStopped \/ RollbackVerify
           \/ StartJob \/ EndJob
    PROVE  VersionInv'
<1>0. Types /\ Outstanding /\ Tried /\ RolledBack
  BY DEF VersionInv
<1>1. app' \in {0, app}
  BY DEF Begin, CheckJobs, RefuseJobs, StopApplication, MakeDir, Verify, PassOver, Undo, UnquiesceDone,
         RollbackUpdate, RollbackBegins, RollbackStopped, RollbackVerify, StartJob, EndJob
<1>2. Types'
  BY <1>0, <1>1 DEF Types
<1>3. Outstanding' /\ Tried' /\ RolledBack'
  <2>1. CASE Begin \/ CheckJobs \/ RefuseJobs \/ StopApplication \/ MakeDir
    BY <1>0, <1>1, <2>1 DEF Begin, CheckJobs, RefuseJobs, StopApplication, MakeDir, Proceed,
       Outstanding, Tried, RolledBack, Uniform, Rewritten
  <2>2. CASE Verify \/ PassOver \/ Undo \/ UnquiesceDone
    BY <1>0, <1>1, <2>2 DEF Verify, Verified, PassOver, Undo, UnquiesceDone, Proceed,
       Outstanding, Tried, RolledBack, Uniform, Rewritten
  <2>3. CASE RollbackUpdate \/ RollbackBegins
    BY <1>0, <1>1, <2>3 DEF RollbackUpdate, RollbackBegins, Outstanding, Tried, RolledBack, Uniform, Rewritten
  <2>4. CASE RollbackStopped \/ RollbackVerify
    BY <1>0, <1>1, <2>4 DEF RollbackStopped, RollbackVerify, Proceed,
       Outstanding, Tried, RolledBack, Uniform, Rewritten
  <2>5. CASE StartJob \/ EndJob
    BY <1>0, <1>1, <2>5, SMT DEF StartJob, EndJob, Outstanding, Tried, RolledBack, Uniform, Rewritten
  <2> QED
    BY <2>1, <2>2, <2>3, <2>4, <2>5
<1> QED
  BY <1>2, <1>3 DEF VersionInv

\* Steps that only pause, resume or change what the storage holds.
LEMMA StorageKeeps ==
    ASSUME VersionInv, Pause \/ Resume \/ UnquiesceOff \/ RollbackOff \/ MaintenanceOff \/ Change
    PROVE  VersionInv'
<1>0. Types /\ Outstanding /\ Tried /\ RolledBack
  BY DEF VersionInv
<1>1. UNCHANGED <<pos, file, dir, meta, snap, app>>
  BY DEF Pause, Resume, UnquiesceOff, RollbackOff, MaintenanceOff, Change
<1>2. db' \in Storage /\ db'.schema = db.schema
  <2>1. \/ db' = db \/ (\E b \in BOOLEAN : db' = [db EXCEPT !.paused = b])
        \/ db' = [db EXCEPT !.changes = db.changes + 1]
    BY DEF Pause, Paused, Resume, UnquiesceOff, RollbackOff, MaintenanceOff, Change
  <2>2. db \in Storage
    BY <1>0 DEF Types
  <2> QED
    BY <2>1, <2>2, SMT DEF Storage
<1>3. Types'
  BY <1>0, <1>1, <1>2 DEF Types
<1>4. step = step' \/ (step = "pause" /\ step' = "mkdir" /\ app = 0) \/ (step = "pause" /\ step' = "jobs")
      \/ (step = "off" /\ step' = "discard") \/ (step = "unq_off" /\ step' = "unq_rmdir") \/ (step = "rb_off" /\ step' = "rb_discard")
  BY DEF Pause, Resume, UnquiesceOff, RollbackOff, MaintenanceOff, Change, Proceed
<1>5. Outstanding' /\ Tried' /\ RolledBack'
  BY <1>0, <1>1, <1>2, <1>4 DEF Outstanding, Tried, RolledBack, Uniform, Rewritten
<1> QED
  BY <1>3, <1>5 DEF VersionInv

\* Steps that save what a rollback needs, or drop it.
LEMMA SavingKeeps ==
    ASSUME VersionInv, Snapshot \/ WriteMeta \/ Commit \/ Discard \/ RemoveDir \/ Undiscard
                       \/ RollbackDiscard \/ RollbackDone
    PROVE  VersionInv'
<1>0. Types /\ Outstanding /\ Tried /\ RolledBack /\ db.schema \in Nat
  BY DEF VersionInv, Types, Storage
<1>1. UNCHANGED <<file, db, app>>
  BY DEF Snapshot, WriteMeta, Commit, Discard, RemoveDir, Undiscard, RollbackDiscard, RollbackDone
<1>2. Types'
  BY <1>0, <1>1, First, SMT DEF Types, Snapshot, WriteMeta, Commit, Discard, RemoveDir, Undiscard, RollbackDiscard, RollbackDone
<1>3. CASE Snapshot \/ Discard \/ RemoveDir \/ Undiscard
  <2>1. Outstanding' /\ Tried' /\ RolledBack'
    BY <1>0, <1>1, <1>3 DEF Snapshot, Discard, RemoveDir, Undiscard, Proceed, Outstanding, Tried, RolledBack, Uniform
  <2> QED
    BY <1>2, <2>1 DEF VersionInv
<1>4. CASE WriteMeta
  <2>1. step = "meta" /\ step' = "switch" /\ meta' = file[1] /\ pos' = 1 /\ UNCHANGED <<dir, snap>>
    BY <1>4 DEF WriteMeta, Proceed
  <2>2. meta' # 0 /\ meta' = db.schema /\ dir /\ snap.schema = db.schema
    BY <1>0, <2>1, First DEF Types, Outstanding, Tried, Uniform
  <2>3. Outstanding' /\ Tried' /\ RolledBack'
    BY <1>0, <1>1, <2>1, <2>2, First, SMT DEF Outstanding, Tried, RolledBack, Rewritten, Index
  <2> QED
    BY <1>2, <2>3 DEF VersionInv
<1>5. CASE Commit
  <2>1. Outstanding' /\ Tried' /\ RolledBack'
    BY <1>0, <1>1, <1>5 DEF Commit, Proceed, Outstanding, Tried, RolledBack, Uniform
  <2> QED
    BY <1>2, <2>1 DEF VersionInv
<1>6. CASE RollbackDiscard \/ RollbackDone
  <2>1. Outstanding' /\ Tried' /\ RolledBack'
    BY <1>0, <1>1, <1>6, SMT DEF RollbackDiscard, RollbackDone, Proceed, Outstanding, Tried, RolledBack, Uniform
  <2> QED
    BY <1>2, <2>1 DEF VersionInv
<1> QED
  BY <1>3, <1>4, <1>5, <1>6

\* Steps that write a file.
LEMMA FilesKeep == ASSUME VersionInv, Switch \/ RollbackFiles \/ RollbackStop PROVE VersionInv'
<1>0. Types /\ Outstanding /\ Tried /\ RolledBack /\ db.schema \in Nat
  BY DEF VersionInv, Types, Storage
<1>1. UNCHANGED <<dir, meta, snap, db>> /\ meta # 0 /\ meta \in Nat
  BY <1>0 DEF Switch, RollbackFiles, RollbackStop, Proceed, Outstanding, Types
<1>2. CASE RollbackStop
  <2>1. step = "rb_stop" /\ step' = "rb_files" /\ pos' = 1 /\ app' \in {0, app} /\ UNCHANGED file
    BY <1>2 DEF RollbackStop, Proceed
  <2>2. Types'
    BY <1>0, <1>1, <2>1, First DEF Types
  <2>3. Outstanding' /\ Tried' /\ RolledBack'
    BY <1>0, <1>1, <2>1, First, SMT DEF Outstanding, Tried, RolledBack, Rewritten, Index
  <2> QED
    BY <2>2, <2>3 DEF VersionInv
<1>3. ASSUME NEW r \in Nat \ {0}, file' = [file EXCEPT ![pos] = r], Rewritten(r),
             Last => pos' = 1, ~Last => pos' = pos + 1
      PROVE  /\ pos' \in Index /\ file' \in [Index -> Nat \ {0}]
             /\ Last => \A i \in Index : file'[i] = r
             /\ ~Last => \A i \in Index : i < pos' => file'[i] = r
  <2>1. pos \in Index /\ pos' \in Index
    BY <1>0, <1>3, First, SMT DEF Types, Last, Index
  <2>2. file' \in [Index -> Nat \ {0}] /\ \A i \in Index : file'[i] = IF i = pos THEN r ELSE file[i]
    BY <1>0, <1>3, <2>1 DEF Types
  <2>3. \A i \in Index : i <= pos => file'[i] = r
    BY <1>3, <2>1, <2>2, First, SMT DEF Rewritten
  <2> QED
    BY <1>3, <2>1, <2>2, <2>3, First, SMT DEF Last, Index
<1>4. CASE Switch
  <2>1. step = "switch" /\ file' = [file EXCEPT ![pos] = meta + 1] /\ UNCHANGED app
        /\ (Last => step' = "up" /\ pos' = 1) /\ (~Last => step' = "switch" /\ pos' = pos + 1)
    BY <1>4 DEF Switch
  <2>2. Rewritten(meta + 1) /\ meta + 1 \in Nat \ {0} /\ app = 0 /\ db.schema = meta
    BY <1>0, <1>1, <2>1, SMT DEF Tried
  <2>3. /\ pos' \in Index /\ file' \in [Index -> Nat \ {0}]
        /\ Last => \A i \in Index : file'[i] = meta + 1
        /\ ~Last => \A i \in Index : i < pos' => file'[i] = meta + 1
    BY <1>3, <2>1, <2>2
  <2>4. Types'
    BY <1>0, <1>1, <2>1, <2>3 DEF Types
  <2>5. Outstanding' /\ RolledBack'
    BY <1>0, <1>1, <2>1 DEF Outstanding, RolledBack
  <2>6. Tried'
    BY <1>1, <2>1, <2>2, <2>3 DEF Tried, Uniform, Rewritten
  <2> QED
    BY <2>4, <2>5, <2>6 DEF VersionInv
<1>5. CASE RollbackFiles
  <2>1. step = "rb_files" /\ file' = [file EXCEPT ![pos] = meta] /\ UNCHANGED app
        /\ (Last => step' = "rb_stopped" /\ pos' = 1) /\ (~Last => step' = "rb_files" /\ pos' = pos + 1)
    BY <1>5 DEF RollbackFiles, Restored
  <2>2. Rewritten(meta)
    BY <1>0, <2>1 DEF RolledBack
  <2>3. /\ pos' \in Index /\ file' \in [Index -> Nat \ {0}]
        /\ Last => \A i \in Index : file'[i] = meta
        /\ ~Last => \A i \in Index : i < pos' => file'[i] = meta
    BY <1>1, <1>3, <2>1, <2>2
  <2>4. Types'
    BY <1>0, <1>1, <2>1, <2>3 DEF Types
  <2>5. Outstanding' /\ Tried'
    BY <1>0, <1>1, <2>1 DEF Outstanding, Tried
  <2>6. RolledBack'
    BY <1>0, <1>1, <2>1, <2>3 DEF RolledBack, Uniform, Rewritten
  <2> QED
    BY <2>4, <2>5, <2>6 DEF VersionInv
<1> QED
  BY <1>2, <1>4, <1>5

\* Steps that start the application or bring its storage back.
LEMMA StartsKeep == ASSUME VersionInv, Up \/ RollbackUp \/ UnquiesceUp \/ Restore PROVE VersionInv'
<1>0. Types /\ Outstanding /\ Tried /\ RolledBack /\ db.schema \in Nat /\ db \in Storage /\ snap \in Storage /\ meta \in Nat
  BY DEF VersionInv, Types, Storage
<1>1. UNCHANGED <<pos, file, dir, meta>>
  BY DEF Up, RollbackUp, UnquiesceUp, Restore
<1>2. CASE Up
  <2>1. step = "up" /\ step' = "verify" /\ UNCHANGED snap /\ Started(file[1]) /\ meta # 0
    BY <1>0, <1>2 DEF Up, Proceed, Outstanding
  <2>2. file[1] = meta + 1 /\ db.schema = meta /\ Uniform(meta + 1)
    BY <1>0, <2>1, First DEF Tried, Uniform
  <2>3. app' = meta + 1 /\ db' = [db EXCEPT !.schema = meta + 1]
    BY <1>0, <2>1, <2>2, SMT DEF Started, Storage
  <2>4. db' \in Storage /\ db'.schema = meta + 1
    BY <1>0, <2>3, SMT DEF Storage
  <2>5. Types'
    BY <1>0, <1>1, <2>1, <2>3, <2>4 DEF Types
  <2>6. Outstanding' /\ Tried' /\ RolledBack'
    BY <1>0, <1>1, <2>1, <2>2, <2>4 DEF Outstanding, Tried, RolledBack, Uniform
  <2> QED
    BY <2>5, <2>6 DEF VersionInv
<1>3. ASSUME Started(file[1]), file[1] = db.schema, UNCHANGED snap, Outstanding', Tried', RolledBack' PROVE VersionInv'
  <2>1. app' = db.schema /\ db' = db
    BY <1>3, Restarts
  <2>2. Types'
    BY <1>0, <1>1, <1>3, <2>1 DEF Types
  <2> QED
    BY <1>3, <2>2 DEF VersionInv
<1>4. CASE RollbackUp
  <2>1. step = "rb_up" /\ step' = "rb_verify" /\ UNCHANGED snap /\ Started(file[1]) /\ file[1] = db.schema
    BY <1>0, <1>4, First DEF RollbackUp, Proceed, RolledBack, Uniform
  <2>2. db' = db
    BY <2>1, Restarts
  <2>3. Outstanding' /\ Tried' /\ RolledBack'
    BY <1>0, <1>1, <2>1, <2>2 DEF Outstanding, Tried, RolledBack, Uniform
  <2> QED
    BY <1>3, <2>1, <2>3
<1>5. CASE UnquiesceUp
  <2>1. step = "unq_up" /\ step' = "unq_off" /\ UNCHANGED snap /\ file[1] = db.schema /\ meta = 0
    BY <1>0, <1>5, First DEF UnquiesceUp, Proceed, Outstanding, Uniform
  <2>2. db' = db
    BY <1>5, <2>1, Restarts DEF UnquiesceUp
  <2>3. Outstanding' /\ Tried' /\ RolledBack'
    BY <1>0, <1>1, <2>1, <2>2 DEF Outstanding, Tried, RolledBack, Uniform
  <2>4. CASE Started(file[1])
    BY <1>3, <2>1, <2>3, <2>4
  <2>5. CASE UNCHANGED <<app, db>>
    BY <1>0, <1>1, <2>1, <2>3, <2>5 DEF VersionInv, Types
  <2> QED
    BY <1>5, <2>4, <2>5 DEF UnquiesceUp
<1>6. CASE Restore
  <2>1. step = "rb_restore" /\ step' = "rb_up" /\ UNCHANGED <<snap, app>> /\ db' = snap /\ snap.schema = meta /\ app = 0
        /\ meta # 0
    BY <1>0, <1>6 DEF Restore, SnapshotKept, Proceed, Outstanding, RolledBack
  <2>2. Types'
    BY <1>0, <1>1, <2>1 DEF Types
  <2>3. Outstanding' /\ Tried' /\ RolledBack'
    BY <1>0, <1>1, <2>1 DEF Outstanding, Tried, RolledBack, Uniform
  <2> QED
    BY <2>2, <2>3 DEF VersionInv
<1> QED
  BY <1>2, <1>4, <1>5, <1>6

\* What a failure or a crash leaves behind at any step can be rolled back.
LEMMA FailuresKeep == ASSUME VersionInv, Fail \/ HostDown PROVE VersionInv'
<1>0. Types /\ Outstanding /\ Tried /\ RolledBack
  BY DEF VersionInv
<1>1. UNCHANGED <<file, dir, meta, snap, db, app>> /\ pos' = 1
  BY DEF Fail, HostDown
<1>2. (step \in Updating /\ step' = "undo") \/ (step \in Trying /\ step' = "rb_begin") \/ step' = "idle"
  BY DEF Fail, HostDown
<1>3. Types'
  BY <1>0, <1>1, First DEF Types
<1>4. Outstanding' /\ Tried' /\ RolledBack'
  BY <1>0, <1>1, <1>2 DEF Outstanding, Tried, RolledBack, Uniform
<1> QED
  BY <1>3, <1>4 DEF VersionInv

\* Every step keeps the files, the schema and the application together.
THEOREM ReleaseStep == VersionInv /\ [UpdateNext]_updateVars => VersionInv'
<1> SUFFICES ASSUME VersionInv, [UpdateNext]_updateVars PROVE VersionInv'
  OBVIOUS
<1>1. CASE UNCHANGED updateVars
  BY <1>1, SMT DEF updateVars, VersionInv, Types, Outstanding, Tried, RolledBack, Uniform, Rewritten
<1>2. CASE \/ Begin \/ CheckJobs \/ RefuseJobs \/ StopApplication \/ MakeDir \/ Verify \/ PassOver \/ Undo
           \/ UnquiesceDone \/ RollbackUpdate \/ RollbackBegins \/ RollbackStopped \/ RollbackVerify
           \/ StartJob \/ EndJob
  <2>1. UNCHANGED <<pos, file, meta, snap, db>>
    BY <1>2 DEF Begin, CheckJobs, RefuseJobs, StopApplication, MakeDir, Verify, PassOver, Undo, UnquiesceDone,
       RollbackUpdate, RollbackBegins, RollbackStopped, RollbackVerify, StartJob, EndJob
  <2> QED
    BY <1>2, <2>1, MovesKeep
<1>3. CASE Pause \/ Resume \/ UnquiesceOff \/ RollbackOff \/ MaintenanceOff \/ Change
  BY <1>3, StorageKeeps
<1>4. CASE Snapshot \/ WriteMeta \/ Commit \/ Discard \/ RemoveDir \/ Undiscard \/ RollbackDiscard \/ RollbackDone
  BY <1>4, SavingKeeps
<1>5. CASE Switch \/ RollbackFiles \/ RollbackStop
  BY <1>5, FilesKeep
<1>6. CASE Up \/ RollbackUp \/ UnquiesceUp \/ Restore
  BY <1>6, StartsKeep
<1>7. CASE Fail \/ HostDown
  BY <1>7, FailuresKeep
<1> QED
  BY <1>1, <1>2, <1>3, <1>4, <1>5, <1>6, <1>7 DEF UpdateNext, Installer

\* Whatever fails on the way, and whether or not a finished rollback is cut
\* short, the files, the schema and the application are of one release whenever
\* no rollback is outstanding (update, rollback_update).
THEOREM ReleasesMatch == UpdateSpec => []OneRelease
<1>1. VersionInv => OneRelease
  <2> SUFFICES ASSUME VersionInv PROVE OneRelease
    OBVIOUS
  <2>1. app \in {0, db.schema} /\ db.schema \in Nat /\ (meta = 0 => Uniform(db.schema))
    BY DEF VersionInv, Types, Storage, Outstanding
  <2> QED
    BY <2>1, SMT DEF OneRelease, Uniform
<1> QED
  BY <1>1, ReleaseBegins, ReleaseStep, PTL DEF UpdateSpec

(***************************************************************************)
(* Changes and jobs, unless a finished rollback is cut short.              *)
(***************************************************************************)
LEMMA WorkBegins == UpdateInit => WorkInv
BY SMT DEF UpdateInit, WorkInv, NothingLost

\* The application and the operator.
LEMMA WorkOutside ==
    ASSUME VersionInv, WorkInv, Change \/ StartJob \/ EndJob \/ Begin \/ RollbackUpdate \/ MaintenanceOff
    PROVE  WorkInv'
<1>0. Types /\ Outstanding /\ Tried /\ db \in Storage
  BY DEF VersionInv, Types
<1>1. CASE Change
  <2>1. step' = step /\ UNCHANGED <<meta, snap, app, job, warned>> /\ app # 0 /\ (~db.paused \/ step \in {"jobs", "stop"})
        /\ accepted' = accepted + 1
    BY <1>1 DEF Change, Serves
  <2>2. db'.changes = db.changes + 1 /\ db'.paused = db.paused
    BY <1>0, <1>1 DEF Change, Storage
  <2>3. meta = 0 \/ step \in Closing
    BY <1>0, <2>1 DEF WorkInv, Outstanding
  <2> QED
    BY <1>0, <2>1, <2>2, <2>3, SMT DEF WorkInv, NothingLost, Tried
<1>2. CASE MaintenanceOff
  <2>1. step = "idle" /\ warned /\ UNCHANGED <<step, meta, snap, app, job, accepted>> /\ warned' = FALSE
    BY <1>2 DEF MaintenanceOff
  <2>2. db'.changes = db.changes /\ meta = 0
    BY <1>0, <1>2, <2>1 DEF MaintenanceOff, WorkInv, Storage
  <2> QED
    BY <2>1, <2>2 DEF WorkInv, NothingLost
<1>3. CASE StartJob \/ EndJob
  BY <1>0, <1>3, SMT DEF StartJob, EndJob, Serves, WorkInv, NothingLost, Outstanding
<1>4. CASE Begin \/ RollbackUpdate
  BY <1>0, <1>4, SMT DEF Begin, RollbackUpdate, WorkInv, NothingLost, Outstanding
<1> QED
  BY <1>1, <1>2, <1>3, <1>4

\* Steps of the installer that leave the storage and its snapshot alone.
LEMMA WorkMoves ==
    ASSUME VersionInv, WorkInv,
           \/ CheckJobs \/ RefuseJobs \/ StopApplication \/ MakeDir \/ Switch \/ Verify \/ RemoveDir \/ PassOver \/ Undo
           \/ UnquiesceDone \/ RollbackBegins \/ RollbackStop \/ RollbackFiles \/ RollbackStopped \/ RollbackVerify
           \/ RollbackDone \/ Commit \/ WriteMeta
    PROVE  WorkInv'
<1>0. Outstanding /\ Tried
  BY DEF VersionInv
<1>1. UNCHANGED <<snap, db, accepted>>
  BY DEF CheckJobs, RefuseJobs, StopApplication, MakeDir, Switch, Verify, RemoveDir, PassOver, Undo, UnquiesceDone,
         RollbackBegins, RollbackStop, RollbackFiles, RollbackStopped, RollbackVerify, RollbackDone, Commit, WriteMeta
<1>2. CASE CheckJobs \/ RefuseJobs \/ StopApplication \/ MakeDir \/ WriteMeta
  BY <1>0, <1>1, <1>2, SMT DEF CheckJobs, RefuseJobs, StopApplication, MakeDir, WriteMeta, Proceed, WorkInv, NothingLost, Outstanding
<1>3. CASE Switch \/ Verify \/ Commit
  BY <1>0, <1>1, <1>3, SMT DEF Switch, Verify, Verified, Commit, Proceed, WorkInv, NothingLost, Outstanding
<1>6. CASE RemoveDir \/ PassOver \/ Undo
  BY <1>0, <1>1, <1>6, SMT DEF RemoveDir, PassOver, Undo, Proceed, WorkInv, NothingLost, Outstanding
<1>4. CASE UnquiesceDone \/ RollbackBegins \/ RollbackDone
  BY <1>0, <1>1, <1>4, SMT DEF UnquiesceDone, RollbackBegins, RollbackDone, Proceed, WorkInv, NothingLost, Outstanding
<1>5. CASE RollbackStop \/ RollbackFiles \/ RollbackStopped \/ RollbackVerify
  BY <1>0, <1>1, <1>5, SMT
  DEF RollbackStop, RollbackFiles, RollbackStopped, RollbackVerify, Proceed, WorkInv, NothingLost, Outstanding
<1> QED
  BY <1>2, <1>3, <1>4, <1>5, <1>6

\* Steps that change the storage or its snapshot.
LEMMA WorkStored ==
    ASSUME VersionInv, WorkInv,
           \/ Pause \/ Snapshot \/ Up \/ Resume \/ Discard \/ Undiscard \/ UnquiesceUp \/ UnquiesceOff \/ Restore
           \/ RollbackUp \/ RollbackOff \/ RollbackDiscard
    PROVE  WorkInv'
<1>0. Types /\ Outstanding /\ Tried /\ RolledBack /\ db \in Storage
  BY DEF VersionInv, Types
<1>1. UNCHANGED <<meta, job, accepted>>
  BY DEF Pause, Snapshot, Up, Resume, Discard, Undiscard, UnquiesceUp, UnquiesceOff, Restore, RollbackUp, RollbackOff,
         RollbackDiscard
<1>2. CASE Pause
  <2>1. db'.changes = db.changes /\ db'.paused = TRUE
    BY <1>0, <1>2 DEF Pause, Paused, Storage
  <2> QED
    BY <1>0, <1>1, <1>2, <2>1, SMT DEF Pause, Proceed, WorkInv, NothingLost, Outstanding
<1>3. CASE Snapshot \/ Discard \/ Undiscard \/ RollbackDiscard
  BY <1>0, <1>1, <1>3, SMT
  DEF Snapshot, Discard, Undiscard, RollbackDiscard, Proceed, WorkInv, NothingLost, Outstanding
<1>4. CASE Up \/ UnquiesceUp \/ RollbackUp
  <2>1. db'.changes = db.changes /\ db'.paused = db.paused
    BY <1>0, <1>4 DEF Up, UnquiesceUp, RollbackUp, Started, Storage
  <2>2. job => app' # 0
    <3>1. file[1] # 0
      BY <1>0, First DEF Types
    <3> QED
      BY <1>4, <3>1 DEF Up, UnquiesceUp, RollbackUp, Started, WorkInv
  <2> QED
    BY <1>0, <1>1, <1>4, <2>1, <2>2, SMT DEF Up, UnquiesceUp, RollbackUp, Proceed, WorkInv, NothingLost, Outstanding
<1>5. CASE Resume \/ UnquiesceOff \/ RollbackOff
  <2>1. db'.changes = db.changes
    BY <1>0, <1>5 DEF Resume, UnquiesceOff, RollbackOff, Storage
  <2> QED
    BY <1>0, <1>1, <1>5, <2>1 DEF Resume, UnquiesceOff, RollbackOff, Proceed, WorkInv, NothingLost, Outstanding
<1>6. CASE Restore
  BY <1>0, <1>1, <1>6, SMT DEF Restore, SnapshotKept, Proceed, WorkInv, NothingLost, Outstanding
<1> QED
  BY <1>2, <1>3, <1>4, <1>5, <1>6

LEMMA WorkFails == ASSUME ~LateFaults, VersionInv, WorkInv, Fail \/ HostDown PROVE WorkInv'
<1>0. Outstanding
  BY DEF VersionInv
<1>1. UNCHANGED <<meta, snap, db, app, warned, accepted>>
  BY DEF Fail, HostDown
<1>2. job' => job
  <2>1. job' \in {job, FALSE}
    BY DEF Fail, HostDown
  <2> QED
    BY <2>1
<1>4. step \notin Closing
  BY DEF Fail, HostDown
<1>3. (step \in Updating /\ step' = "undo") \/ (step \in Trying /\ step' = "rb_begin") \/ step' = "idle"
  BY DEF Fail, HostDown
<1> QED
  BY <1>0, <1>1, <1>3, <1>4, <1>2 DEF WorkInv, NothingLost, Outstanding

LEMMA WorkStep == ASSUME ~LateFaults PROVE VersionInv /\ WorkInv /\ [UpdateNext]_updateVars => WorkInv'
<1> SUFFICES ASSUME VersionInv, WorkInv, [UpdateNext]_updateVars PROVE WorkInv'
  OBVIOUS
<1>1. CASE UNCHANGED updateVars
  BY <1>1 DEF updateVars, WorkInv, NothingLost
<1>2. CASE UpdateNext
  BY <1>2, WorkOutside, WorkMoves, WorkStored, WorkFails DEF UpdateNext, Installer
<1> QED
  BY <1>1, <1>2

LEMMA WorkHolds == ASSUME ~LateFaults PROVE UpdateSpec => [](VersionInv /\ WorkInv)
<1>1. UpdateInit => VersionInv /\ WorkInv
  BY ReleaseBegins, WorkBegins
<1>2. (VersionInv /\ WorkInv) /\ [UpdateNext]_updateVars => (VersionInv /\ WorkInv)'
  BY ReleaseStep, WorkStep
<1> QED
  BY <1>1, <1>2, PTL DEF UpdateSpec

\* Unless a rollback is cut short after it resumed work, the storage holds every
\* change that was ever accepted, through updates, failures and rollbacks.
THEOREM UpdatesLoseNothing == ASSUME ~LateFaults PROVE UpdateSpec => []NothingLost
<1>1. VersionInv /\ WorkInv => NothingLost
  BY DEF WorkInv
<1> QED
  BY <1>1, WorkHolds, PTL

\* Under the same condition no update and no rollback stops the application
\* while a backup or restore runs (quiesce, rollback_update).
THEOREM UpdatesWaitForJobs == ASSUME ~LateFaults PROVE UpdateSpec => JobsFinish
<1>1. VersionInv /\ WorkInv /\ [UpdateNext]_updateVars => [job /\ ~job' => EndJob \/ HostDown]_updateVars
  <2> SUFFICES ASSUME VersionInv, WorkInv, UpdateNext, job, ~job' PROVE EndJob \/ HostDown
    BY DEF updateVars
  <2>1. UNCHANGED job \/ EndJob \/ HostDown \/ StopApplication \/ RollbackStop \/ RollbackStopped \/ StartJob
    BY DEF UpdateNext, Installer, Pause, CheckJobs, RefuseJobs, MakeDir, Snapshot, WriteMeta, Switch, Up, Verify, Commit,
       Resume, Discard, RemoveDir, Undo, Undiscard, UnquiesceUp, UnquiesceOff, UnquiesceDone, RollbackBegins,
       RollbackFiles, Restore, RollbackUp, RollbackVerify, RollbackOff, RollbackDiscard, RollbackDone, Begin,
       RollbackUpdate, MaintenanceOff, Change, PassOver, Fail
  <2>2. ~StopApplication /\ ~RollbackStop /\ ~RollbackStopped
    BY DEF StopApplication, RollbackStop, RollbackStopped, Proceed, WorkInv, VersionInv, Outstanding
  <2> QED
    BY <2>1, <2>2 DEF StartJob
<1>2. UpdateSpec => [][UpdateNext]_updateVars
  BY PTL DEF UpdateSpec
<1> QED
  BY <1>1, <1>2, WorkHolds, PTL DEF JobsFinish
=============================================================================
