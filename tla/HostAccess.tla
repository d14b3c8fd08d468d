---------------------------- MODULE HostAccess ----------------------------
(***************************************************************************)
(* `hostname`, `tunnel` and `rollback-hostname`: change_access, with the   *)
(* restoration it makes when a step fails.                                 *)
(***************************************************************************)
EXTENDS HostState

ChangeSteps == {"a_cfg", "a_caddyfile", "a_env", "a_up", "a_verify"}
RestoreSteps == {"r_cfg", "r_caddyfile", "r_env", "r_up", "r_timers"}
AccessSteps == ChangeSteps \cup RestoreSteps \cup {"a_timers"}

Holding(a, kind) == [Blank EXCEPT !.access = a, !.old = cfg.access, !.caddy = caddyfile, !.kind = kind]

\* Mutant of ChangeAccess: an earlier record is kept.
ChangeAccessKeepsRecord(a) ==
    /\ At("idle") /\ stage # None /\ caddyfile # None
    /\ Obedient => ~Unfinished
    /\ Spend("changes")
    /\ record' = IF record.access = None THEN cfg ELSE record
    /\ pc' = "a_cfg" /\ op' = Holding(a, "change")
    /\ UNCHANGED <<cfg, caddyfile, env, stage, release, data, run, timer, pg, note>>

\* A new access: the record is written before anything changes.  Nothing is
\* written when there is no Caddyfile to record.
ChangeAccess(a) ==
    /\ At("idle") /\ stage # None /\ caddyfile # None
    /\ Obedient => ~Unfinished
    /\ Spend("changes")
    /\ record' = cfg
    /\ pc' = "a_cfg" /\ op' = Holding(a, "change")
    /\ UNCHANGED <<cfg, caddyfile, env, stage, release, data, run, timer, pg, note>>

\* Mutant of RollbackHostname: refused when the access is already the recorded one.
RollbackUnlessSame ==
    /\ At("idle") /\ stage # None /\ caddyfile # None
    /\ record.access \notin {None, cfg.access}
    /\ pc' = "a_cfg" /\ op' = Holding(record.access, "rollback")
    /\ UNCHANGED <<files, data, run, timer, pg, note, left>>

\* rollback-hostname: the recorded access, and the record stays.
RollbackHostname ==
    /\ At("idle") /\ stage # None /\ caddyfile # None
    /\ record.access # None
    /\ pc' = "a_cfg" /\ op' = Holding(record.access, "rollback")
    /\ UNCHANGED <<files, data, run, timer, pg, note, left>>

\* Mutant of NewConfig: a rollback brings the whole recorded file back.
NewConfigFromRecord ==
    IF op.kind = "rollback" THEN record ELSE [cfg EXCEPT !.access = op.access]

\* Only the access fields change: the record may be older than an update.
NewConfig == [cfg EXCEPT !.access = op.access]

AccessConfig ==
    /\ At("a_cfg")
    /\ cfg' = NewConfig
    /\ Go("a_caddyfile")
    /\ UNCHANGED <<caddyfile, env, stage, release, record, data, run, timer, pg, note, left>>

AccessCaddyfile ==
    /\ At("a_caddyfile")
    /\ caddyfile' = op.access
    /\ Go("a_env")
    /\ UNCHANGED <<cfg, env, stage, release, record, data, run, timer, pg, note, left>>

\* validate_caddy passed; PG_BIND follows the mode.
AccessEnv ==
    /\ At("a_env")
    /\ env' = Mode(op.access)
    /\ Go("a_up")
    /\ UNCHANGED <<cfg, caddyfile, stage, release, record, data, run, timer, pg, note, left>>

AccessUp ==
    /\ At("a_up")
    /\ RecreateAll
    /\ Go("a_verify")
    /\ UNCHANGED <<files, secrets, store, minted, timer, tls, certs, synced, cut, note, left>>

\* verify without dependencies: a broken database must not stop a recovery.
AccessVerify ==
    /\ At("a_verify") /\ Serving
    /\ Go("a_timers")
    /\ UNCHANGED <<files, data, run, timer, pg, note, left>>

\* refresh_timers warns when the units cannot be written or systemctl cannot be
\* run, and of nothing else; then the certificate is delivered.
AccessTimers ==
    /\ At("a_timers")
    /\ verified' = cfg.access
    /\ \/ ConvergeHost(cfg.access, "no") /\ CountUnheard
       \/ Spend("trouble") /\ broken' = "timers" /\ UNCHANGED timer
    /\ IF Mode(cfg.access) = "https" THEN Go("c_crt") ELSE Idle
    /\ UNCHANGED <<files, data, run, pg>>

\* A failed step or an interrupt from the keyboard: everything is written back.
\* A change is bounded by itself, so only a failing rollback counts as trouble.
AccessFails ==
    /\ pc \in ChangeSteps
    /\ IF op.kind = "change" THEN UNCHANGED left ELSE Spend("trouble")
    /\ Go("r_cfg")
    /\ UNCHANGED <<files, data, run, timer, pg, note>>

RestoreConfig ==
    /\ At("r_cfg")
    /\ cfg' = [cfg EXCEPT !.access = op.old]
    /\ Go("r_caddyfile")
    /\ UNCHANGED <<caddyfile, env, stage, release, record, data, run, timer, pg, note, left>>

RestoreCaddyfile ==
    /\ At("r_caddyfile")
    /\ caddyfile' = op.caddy
    /\ Go("r_env")
    /\ UNCHANGED <<cfg, env, stage, release, record, data, run, timer, pg, note, left>>

\* Mutant of RestoredEnv: compose.env keeps the mode that failed.
RestoredEnvLate == env

RestoredEnv == Mode(op.old)

RestoreEnv ==
    /\ At("r_env")
    /\ env' = RestoredEnv
    /\ Go("r_up")
    /\ UNCHANGED <<cfg, caddyfile, stage, release, record, data, run, timer, pg, note, left>>

\* The containers are recreated; that this may fail is not looked at.
RestoreUp ==
    /\ At("r_up")
    /\ \/ RecreateAll /\ UNCHANGED <<broken, left>>
       \/ Spend("trouble") /\ broken' = op.kind /\ UNCHANGED <<run, volume, served>>
    /\ Go("r_timers")
    /\ UNCHANGED <<files, secrets, store, minted, timer, tls, certs, synced, cut, verified>>

RestoreTimers ==
    /\ At("r_timers")
    /\ \/ ConvergeHost(op.old, IF Unfinished THEN broken ELSE "no") /\ CountUnheard
       \/ Spend("trouble") /\ broken' = (IF Unfinished THEN broken ELSE "timers") /\ UNCHANGED timer
    /\ Idle
    /\ UNCHANGED <<files, data, run, pg, verified>>

AccessStep ==
    \/ AccessConfig \/ AccessCaddyfile \/ AccessEnv \/ AccessUp \/ AccessVerify \/ AccessTimers \/ AccessFails
    \/ RestoreConfig \/ RestoreCaddyfile \/ RestoreEnv \/ RestoreUp \/ RestoreTimers
=============================================================================
