---------------------------- MODULE HostInstall ---------------------------
(***************************************************************************)
(* `install`, first run and rerun: what is written, in which order, and    *)
(* what a rerun refuses.  Every write is a step, so that the command may   *)
(* be killed before or after it.                                           *)
(***************************************************************************)
EXTENDS HostState

InstallSteps == {"i_state", "i_inspect", "i_secrets", "i_caddyfile", "i_env", "i_tls", "i_converge",
                 "i_store", "i_migrate", "i_pg", "i_all", "i_verify", "i_restart", "i_timers", "i_stage"}

\* First run, in an empty directory: the configuration is written first, ...
Install(a) ==
    /\ At("idle") /\ stage = None /\ cfg.access = None
    /\ cfg' = [access |-> a, release |-> release]
    /\ Go("i_state")
    /\ UNCHANGED <<caddyfile, env, stage, release, record, data, run, timer, pg, note, left>>

\* ... then the state that makes it an installation.
InstallState ==
    /\ At("i_state")
    /\ stage' = "preparing"
    /\ Go("i_inspect")
    /\ UNCHANGED <<cfg, caddyfile, env, release, record, data, run, timer, pg, note, left>>

\* A rerun of the same release, with the access it has; any other is refused,
\* and so is a directory that holds files but no state.
Reinstall ==
    /\ At("idle") /\ stage # None
    /\ Obedient => ~Unfinished
    /\ Go("i_inspect")
    /\ UNCHANGED <<files, data, run, timer, pg, note, left>>

Refuse == Idle /\ UNCHANGED <<files, data, run, timer, pg, note, left>>

\* Mutant of InstallInspect: an unfinished installation must have an empty volume.
InstallInspectFresh ==
    /\ At("i_inspect")
    /\ IF (volume.st = "empty") # (stage = "preparing")
         THEN Refuse
         ELSE /\ pc' = "i_secrets" /\ op' = [Blank EXCEPT !.data = volume.st]
              /\ UNCHANGED <<files, data, run, timer, pg, note, left>>

\* The bundle, the directories and the images are in place; inspect_data.
InstallInspect ==
    /\ At("i_inspect")
    /\ IF volume.st \in {"partial", "failed"} \/ (volume.st = "empty" /\ stage # "preparing")
         THEN Refuse
         ELSE /\ pc' = "i_secrets" /\ op' = [Blank EXCEPT !.data = volume.st]
              /\ UNCHANGED <<files, data, run, timer, pg, note, left>>

\* Mutant of MayCreateSecret: the metadata is not looked for.
MayCreateSecretAnyway == op.data = "empty" /\ stage = "preparing"

\* Secrets are drawn only while there is nothing they could be needed for.
MayCreateSecret == op.data = "empty" /\ stage = "preparing" /\ store.st = "none"

InstallSecret ==
    /\ At("i_secrets")
    /\ LET missing == {s \in Secrets : secrets[s] = 0}
           s == IF "passwords" \in missing THEN "passwords" ELSE "key" IN
       IF missing = {}
         THEN Go("i_caddyfile") /\ UNCHANGED <<secrets, minted>>
         ELSE IF MayCreateSecret
           THEN /\ secrets' = [secrets EXCEPT ![s] = minted + 1] /\ minted' = minted + 1
                /\ UNCHANGED <<pc, op>>
           ELSE Idle /\ UNCHANGED <<secrets, minted>>
    /\ UNCHANGED <<files, volume, store, run, timer, pg, note, left>>

\* write_generated: a missing file is only written while preparing, ...
InstallCaddyfile ==
    /\ At("i_caddyfile")
    /\ IF caddyfile = None /\ stage # "preparing"
         THEN Idle /\ UNCHANGED caddyfile
         ELSE Go("i_env") /\ caddyfile' = IF caddyfile = None THEN cfg.access ELSE caddyfile
    /\ UNCHANGED <<cfg, env, stage, release, record, data, run, timer, pg, note, left>>

\* ... and compose.env must still be the one this configuration gives.
InstallEnv ==
    /\ At("i_env")
    /\ IF env = Mode(cfg.access) \/ (env = None /\ stage = "preparing")
         THEN Go("i_tls") /\ env' = Mode(cfg.access)
         ELSE Idle /\ UNCHANGED env
    /\ UNCHANGED <<cfg, caddyfile, stage, release, record, data, run, timer, pg, note, left>>

\* placeholder_certificate, unless both files exist.
InstallTls ==
    /\ At("i_tls")
    /\ tls' = IF NoCert \in {tls.key, tls.crt} THEN [key |-> Placeholder, crt |-> Placeholder] ELSE tls
    /\ Go("i_converge")
    /\ UNCHANGED <<files, data, run, timer, served, certs, synced, cut, note, left>>

\* converge_steps.
InstallConverge ==
    /\ At("i_converge")
    /\ caddyfile' = cfg.access
    /\ Go("i_store")
    /\ UNCHANGED <<cfg, env, stage, release, record, data, run, timer, pg, note, left>>

\* initialize-store creates the file, then migrates and binds it; an existing
\* file is left as it is.
InstallStore ==
    /\ At("i_store")
    /\ \/ store.st # "none" /\ Go("i_pg") /\ UNCHANGED store
       \/ store.st = "none" /\ op.data = "empty" /\ stage = "preparing"
          /\ store' = [st |-> "created", value |-> 0] /\ Go("i_migrate")
       \/ store.st = "none" /\ (op.data # "empty" \/ stage # "preparing") /\ Idle /\ UNCHANGED store
    /\ UNCHANGED <<files, secrets, volume, minted, run, timer, pg, note, left>>

InstallMigrate ==
    /\ At("i_migrate")
    /\ store' = [st |-> "ready", value |-> secrets["key"]]
    /\ Go("i_pg")
    /\ UNCHANGED <<files, secrets, volume, minted, run, timer, pg, note, left>>

\* up postgres: a container that runs with the same settings is left alone.
InstallPostgres ==
    /\ At("i_pg")
    /\ run' = [run EXCEPT !.pg = env]
    /\ volume' = VolumeOnStart
    /\ served' = IF run.pg = env /\ served # NoCert THEN served ELSE Presented(volume)
    /\ Go("i_all")
    /\ UNCHANGED <<files, secrets, store, minted, timer, tls, certs, synced, cut, note, left>>

\* converge_postgres once PostgreSQL is healthy, then the other containers.
InstallAll ==
    /\ At("i_all")
    /\ volume.st = "ready" /\ served # NoCert
    /\ run' = [run EXCEPT !.web = Mode(cfg.access),
                          !.app = IF @ = None THEN cfg.access ELSE @,
                          !.caddy = IF run.web # Mode(cfg.access) THEN caddyfile ELSE @]
    /\ Go("i_verify")
    /\ UNCHANGED <<files, data, timer, pg, note, left>>

InstallVerify ==
    /\ At("i_verify") /\ Serving /\ Healthy
    /\ Go("i_restart")
    /\ UNCHANGED <<files, data, run, timer, pg, note, left>>

\* The versions are written and the application restarted.
InstallRestart ==
    /\ At("i_restart")
    /\ run' = [run EXCEPT !.app = cfg.access]
    /\ Go("i_timers")
    /\ UNCHANGED <<files, data, timer, pg, note, left>>

\* Verified again; converge_host.
InstallTimers ==
    /\ At("i_timers") /\ Serving /\ Healthy
    /\ verified' = cfg.access /\ ConvergeHost(cfg.access, "no") /\ CountUnheard
    /\ Go("i_stage")
    /\ UNCHANGED <<files, data, run, pg>>

InstallStage ==
    /\ At("i_stage")
    /\ stage' = "installed"
    /\ IF Mode(cfg.access) = "https" THEN Go("c_crt") ELSE Idle
    /\ UNCHANGED <<cfg, caddyfile, env, release, record, data, run, timer, pg, note, left>>

InstallStep ==
    \/ InstallState \/ InstallInspect \/ InstallSecret \/ InstallCaddyfile \/ InstallEnv \/ InstallTls
    \/ InstallConverge \/ InstallStore \/ InstallMigrate \/ InstallPostgres \/ InstallAll \/ InstallVerify
    \/ InstallRestart \/ InstallTimers \/ InstallStage
=============================================================================
