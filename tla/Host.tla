------------------------------- MODULE Host -------------------------------
(***************************************************************************)
(* The commands of one installation, one at a time, on a host that may     *)
(* kill them or go down between any two of their steps, with PostgreSQL,   *)
(* Caddy, the daily timer, an update and an operator who runs them again.  *)
(***************************************************************************)
EXTENDS HostInstall, HostAccess, HostCertificate

Steps == {"idle"} \cup InstallSteps \cup AccessSteps \cup CertSteps

Init ==
    /\ pc = "idle" /\ op = Blank
    /\ cfg = [access |-> None, release |-> 1] /\ record = [access |-> None, release |-> 1]
    /\ caddyfile = None /\ env = None /\ stage = None /\ release = 1
    /\ secrets = [s \in Secrets |-> 0] /\ minted = 0
    /\ volume = [st |-> "empty", value |-> 0] /\ store = [st |-> "none", value |-> 0]
    /\ run = [pg |-> None, web |-> None, app |-> None, caddy |-> None]
    /\ timer = FALSE
    /\ tls = [key |-> NoCert, crt |-> NoCert] /\ served = NoCert
    /\ certs = [h \in Hosts |-> 0] /\ synced = "none" /\ cut = FALSE
    /\ verified = None /\ broken = "no"
    /\ left = [trouble |-> MaxTrouble, losses |-> MaxLosses, changes |-> MaxChanges,
               renewals |-> MaxRenewals, events |-> MaxEvents]

(***************************************************************************)
(* The rest of the host.                                                   *)
(***************************************************************************)
\* PostgreSQL finishes its initialisation with the passwords it was given.
PostgresInitialises ==
    /\ volume.st = "partial" /\ run.pg # None
    /\ volume' = [st |-> "ready", value |-> secrets["passwords"]]
    /\ served' = Presented(volume')
    /\ UNCHANGED <<pc, op, files, secrets, store, minted, run, timer, tls, certs, synced, cut, note, left>>

\* Caddy obtains a certificate for the hostname it serves, and renews it.
CaddyObtains(h) ==
    /\ run.caddy = h /\ run.web = "https" /\ certs[h] = 0
    /\ certs' = [certs EXCEPT ![h] = 1]
    /\ UNCHANGED <<pc, op, files, data, run, timer, tls, served, synced, cut, note, left>>

CaddyRenews(h) ==
    /\ run.caddy = h /\ run.web = "https" /\ certs[h] > 0
    /\ Spend("renewals")
    /\ certs' = [certs EXCEPT ![h] = @ + 1]
    /\ UNCHANGED <<pc, op, files, data, run, timer, tls, served, synced, cut, note>>

\* What module Update shows of a committed update; it converges the timers, and
\* its last step removes the access record, or only warns that it could not.
UpdateCommits ==
    /\ At("idle") /\ stage = "installed" /\ ~Unfinished /\ Serving /\ Healthy
    /\ Spend("changes") /\ release = 1
    /\ release' = release + 1 /\ cfg' = [cfg EXCEPT !.release = release']
    /\ ConvergeHost(cfg.access, "no")
    /\ \/ record' = [record EXCEPT !.access = None]
       \/ UNCHANGED record
    /\ UNCHANGED <<pc, op, caddyfile, env, stage, data, run, pg, verified>>

\* A PostgreSQL that could not start is started again by Docker until it can.
PostgresRestarts ==
    /\ run.pg # None /\ served = NoCert /\ Presented(volume) # NoCert
    /\ served' = Presented(volume)
    /\ UNCHANGED <<pc, op, files, data, run, timer, tls, certs, synced, cut, note, left>>

\* A step of the installation fails: nothing is undone.
InstallFails ==
    /\ pc \in InstallSteps
    /\ Spend("trouble")
    /\ Idle
    /\ UNCHANGED <<files, data, run, timer, pg, note>>

\* PostgreSQL or the dashboard cannot come up, and the command gives up.
InstallTimesOut ==
    /\ \/ At("i_all") /\ volume.st # "partial" /\ Presented(volume) = NoCert
       \/ pc \in {"i_verify", "i_timers"} /\ (~Routed \/ ~Healthy)
    /\ Idle
    /\ UNCHANGED <<files, data, run, timer, pg, note, left>>

\* The command is killed, or stops on a write that fails.
Left ==
    /\ broken' = IF pc \in AccessSteps THEN op.kind ELSE broken
    /\ Idle

Killed ==
    /\ ~At("idle") /\ Spend("trouble")
    /\ Left
    /\ cut' = (cut \/ pc \in Unannounced)
    /\ UNCHANGED <<files, data, run, timer, tls, served, certs, synced, verified>>

\* The host goes down and comes back: containers start again as they were
\* created, the application and Caddy read their files anew.
HostRestarts ==
    /\ Spend("trouble")
    /\ Left
    /\ run' = [run EXCEPT !.app = IF @ = None THEN None ELSE cfg.access,
                          !.caddy = IF @ = None THEN None ELSE caddyfile]
    /\ volume' = Stopped(volume)
    /\ served' = IF run.pg = None THEN NoCert ELSE Presented(volume)
    /\ cut' = (cut \/ pc \in Unannounced)
    /\ UNCHANGED <<files, secrets, store, minted, timer, tls, certs, synced, verified>>

\* A secret, the volume or the metadata is lost.
LoseSecret(s) ==
    /\ At("idle") /\ Spend("losses") /\ secrets[s] # 0
    /\ secrets' = [secrets EXCEPT ![s] = 0]
    /\ UNCHANGED <<pc, op, files, volume, store, minted, run, timer, pg, note>>

LoseVolume ==
    /\ At("idle") /\ Spend("losses") /\ volume.st # "empty"
    /\ volume' = [st |-> "empty", value |-> 0]
    /\ run' = [run EXCEPT !.pg = None] /\ served' = NoCert
    /\ UNCHANGED <<pc, op, files, secrets, store, minted, timer, tls, certs, synced, cut, note>>

LoseStore ==
    /\ At("idle") /\ Spend("losses") /\ store.st # "none"
    /\ store' = [st |-> "none", value |-> 0]
    /\ UNCHANGED <<pc, op, files, secrets, volume, minted, run, timer, pg, note>>

Environment ==
    \/ PostgresInitialises \/ (\E h \in Hosts : CaddyObtains(h) \/ CaddyRenews(h))
    \/ PostgresRestarts \/ InstallFails \/ InstallTimesOut \/ Killed \/ HostRestarts
    \/ (\E s \in Secrets : LoseSecret(s)) \/ LoseVolume \/ LoseStore

Command ==
    \/ (\E a \in FirstAccess : Install(a)) \/ (\E a \in Accesses : ChangeAccess(a))
    \/ Reinstall \/ RollbackHostname \/ SyncDbCert \/ UpdateCommits

Next == Command \/ InstallStep \/ AccessStep \/ CertStep \/ Environment

Spec == Init /\ [][Next]_hostVars

(***************************************************************************)
(* Properties.                                                             *)
(***************************************************************************)
Certificates == [host : Accesses \cup {None}, n : 0 .. MaxRenewals + 1]
TypeOK ==
    /\ pc \in Steps
    /\ cfg \in [access : Accesses \cup {None}, release : 1 .. 2]
    /\ record \in [access : Accesses \cup {None}, release : 1 .. 2]
    /\ caddyfile \in Accesses \cup {None} /\ env \in {None, Tunnel, "https"}
    /\ stage \in {None, "preparing", "installed"} /\ release \in 1 .. 2
    /\ secrets \in [Secrets -> 0 .. minted]
    /\ volume \in [st : {"empty", "partial", "failed", "ready"}, value : 0 .. minted]
    /\ store \in [st : {"none", "created", "ready"}, value : 0 .. minted]
    /\ run \in [pg : {None, Tunnel, "https"}, web : {None, Tunnel, "https"},
                app : Accesses \cup {None}, caddy : Accesses \cup {None}]
    /\ timer \in BOOLEAN /\ cut \in BOOLEAN
    /\ tls \in [key : Certificates, crt : Certificates] /\ served \in Certificates
    /\ synced \in {"none", "ok", "bad"}
    /\ verified \in Accesses \cup {None} /\ broken \in {"no", "timers", "unheard", "change", "rollback"}

Lost == left.losses < MaxLosses

\* Whenever no command runs and no access change was left unfinished, the
\* configuration, the Caddyfile, compose.env and what the containers publish and
\* loaded are of one access: after a change that failed and was restored as
\* after one that succeeded, and the database port is public only with HTTPS.
\* The certificate timer is of that access too, unless the last command that
\* set it met a failure, of which only some are told.
OneAccess ==
    At("idle") /\ stage = "installed" /\ ~Unfinished =>
        /\ caddyfile = cfg.access /\ env = Mode(cfg.access) /\ Routed
        /\ run.pg \in {env, None} /\ (run.pg = None => Lost)
        /\ broken = "no" => timer = (Mode(cfg.access) = "https")

\* After an interrupted hostname or tunnel command, access-rollback.json holds
\* the access that was last verified (change_access's comment: rollback also
\* works after process loss).
UndoIsVerified ==
    broken = "change" /\ verified # None => record.access = verified

\* Neither a change of access, its restoration nor a rollback takes install.json
\* back to an earlier release, whatever updates came after the record.
ReleaseStays == cfg.release = release

\* A volume or metadata that was initialised keeps the secrets it was made with:
\* a rerun of the installer, after any interruption or loss, never replaces one
\* that is still needed ("credentials will not be regenerated").
SecretsHold ==
    /\ volume.st = "ready" => secrets["passwords"] \in {0, volume.value}
    /\ store.st = "ready" => secrets["key"] \in {0, store.value}

\* States another run of the installer does not lead out of: those it tells the
\* operator to inspect, metadata created and not migrated, a cluster whose
\* initialisation stopped or that exists without metadata; and a certificate
\* that does not match its key and that no delivery replaces, in tunnel mode or
\* when the file already holds the certificate Caddy has.
ByHand ==
    \/ store.st = "created" \/ volume.st = "failed"
    \/ store.st = "none" /\ volume.st # "empty"
    \/ tls.key # tls.crt /\ (cfg.access \in Hosts => tls.crt = Cert(cfg.access, certs[cfg.access]))

\* A command makes progress until it ends; Docker, PostgreSQL and Caddy do their
\* part; the timer fires daily; the operator rolls an interrupted change back,
\* and runs an unfinished installation again, or the installer after the warning
\* that asks for it.  Nobody acts on a timer left behind without a word.
Fairness ==
    /\ WF_hostVars(InstallStep \/ AccessStep \/ CertStep \/ InstallTimesOut)
    /\ WF_hostVars(PostgresInitialises \/ PostgresRestarts) /\ WF_hostVars(\E h \in Hosts : CaddyObtains(h))
    /\ SF_hostVars(SyncDbCert)
    /\ SF_hostVars((stage = "preparing" \/ broken = "timers") /\ Reinstall)
    /\ SF_hostVars(Unfinished /\ RollbackHostname)

FairSpec == Spec /\ Fairness

\* An interrupted or half-restored access change is put right by
\* rollback-hostname, however it was interrupted and even if it fails at first.
ChangesRecover == Unfinished ~> ~Unfinished

\* An interrupted installation is completed by running it again, unless it
\* stopped in one of the states left to the operator.
InstallFinishes == stage = "preparing" ~> stage = "installed" \/ ByHand \/ Lost

\* A certificate Caddy obtained or renewed for the access reaches PostgreSQL,
\* unless the installation goes back to the tunnel, systemctl failed to set the
\* timer and nobody was told, or an earlier delivery was cut short between its
\* files and the reload.
CertificateArrives ==
    LET current == Cert(cfg.access, certs[cfg.access]) IN
    At("idle") /\ stage = "installed" /\ cfg.access \in Hosts /\ current.n > 0
      ~> \/ cfg.access \in Hosts /\ served = current
         \/ cfg.access = Tunnel \/ broken = "unheard" \/ cut \/ Lost

\* The same without the exception: what sync-db-cert reports as served is.
ReportedIsServed ==
    At("idle") /\ synced = "ok" /\ cfg.access \in Hosts /\ served # NoCert => served = tls.crt
=============================================================================
