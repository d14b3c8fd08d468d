----------------------------- MODULE HostState ----------------------------
(***************************************************************************)
(* What the commands of the installer share on a host: the files of one    *)
(* installation, its containers and timers, and the one command that holds *)
(* the installation lock.  HostInstall, HostAccess and HostCertificate     *)
(* model the commands, Host composes them.                                 *)
(*                                                                         *)
(* Abstractions.  An access is Tunnel or a hostname; compose.env depends   *)
(* on its mode only.  The four secrets are two, the passwords PostgreSQL   *)
(* is initialised with and the key the metadata is sealed with, each a     *)
(* number for the value drawn, 0 for a missing file.  A certificate is its *)
(* hostname and a number; a key is the certificate it belongs to.  Docker, *)
(* systemd, PostgreSQL and Caddy do what their commands say or fail; the   *)
(* failures of systemctl are the ones nobody looks at.                     *)
(***************************************************************************)
EXTENDS Naturals

CONSTANTS
    Hosts,         \* the hostnames an operator uses
    FirstAccess,   \* the accesses a first installation is given
    Obedient,      \* whether an interrupted change is followed by rollback-hostname
    MaxTrouble,    \* bound: steps that fail, commands killed and restarts
    MaxChanges,    \* bound: hostname, tunnel and update commands
    MaxLosses,     \* bound: files or volumes lost
    MaxRenewals,   \* bound: certificates Caddy renews
    MaxEvents      \* bound: all of these together

Tunnel == "tunnel"
None == "none"

ASSUME HostAssumption ==
    /\ Tunnel \notin Hosts /\ None \notin Hosts /\ Obedient \in BOOLEAN /\ FirstAccess \subseteq Hosts \cup {Tunnel}
    /\ MaxTrouble \in Nat /\ MaxChanges \in Nat /\ MaxLosses \in Nat /\ MaxRenewals \in Nat /\ MaxEvents \in Nat

VARIABLES
    pc, op,        \* the step of the running command, and what it holds in memory
    cfg,           \* config/install.json: access and release; access None before it exists
    caddyfile,     \* the access config/caddy/Caddyfile was written for, or None
    env,           \* the mode in compose.env, or None
    stage,         \* state.json: None, "preparing" or "installed"
    release,       \* state.json: the installed release
    secrets,       \* the values in secrets/
    volume, store, \* the PostgreSQL volume and pgfy.db, with the values they were made with
    run,           \* the containers: what they publish and the access they loaded
    timer,         \* pgfy-cert.timer is enabled
    record,        \* access-rollback.json, access None before it exists
    tls, served,   \* PostgreSQL's key and certificate files, and the certificate it presents
    certs,         \* the newest certificate Caddy holds for each hostname, 0 for none
    synced,        \* cert-sync.json
    verified,      \* the access that was last verified, or None
    broken,        \* "no", or what was left unfinished: a change, a rollback, the "timers" with a
                   \* warning, or the certificate timer with no word of it ("unheard")
    cut,           \* a certificate was delivered to the files and not announced
    minted,        \* secret values drawn so far
    left           \* what remains of each bound

files == <<cfg, caddyfile, env, stage, release, record>>
data == <<secrets, volume, store, minted>>
pg == <<tls, served, certs, synced, cut>>
note == <<verified, broken>>
hostVars == <<pc, op, files, data, run, timer, pg, note, left>>

Accesses == Hosts \cup {Tunnel}
Mode(a) == IF a \in Hosts THEN "https" ELSE a
Cert(h, n) == [host |-> h, n |-> n]
\* placeholder_certificate, and a PostgreSQL that does not run.
Placeholder == Cert(Tunnel, 0)
NoCert == Cert(None, 0)

Secrets == {"passwords", "key"}
Blank == [access |-> None, old |-> None, caddy |-> None, kind |-> "no", data |-> None, crt |-> 0, key |-> 0,
          prev |-> [key |-> NoCert, crt |-> NoCert]]

Unfinished == broken \in {"change", "rollback"}

At(step) == pc = step
Go(step) == pc' = step /\ UNCHANGED op
Idle == pc' = "idle" /\ op' = Blank
Spend(what) == left[what] > 0 /\ left.events > 0 /\ left' = [left EXCEPT ![what] = @ - 1, !.events = @ - 1]

(***************************************************************************)
(* Timers.                                                                 *)
(***************************************************************************)
\* Mutant of TimerFor: the certificate timer stays as it was.
TimerStays(a) == timer

TimerFor(a) == Mode(a) = "https"

\* converge_host: the exit of systemctl is not looked at, so a certificate timer
\* that it leaves as it was is not noticed.  With "rest" still unfinished the
\* timer is put right with it.
ConvergeHost(a, rest) ==
    \/ timer' = TimerFor(a) /\ broken' = rest
    \/ timer # TimerFor(a) /\ UNCHANGED timer /\ broken' = IF rest = "no" THEN "unheard" ELSE rest
CountUnheard == IF broken' = "unheard" THEN Spend("trouble") ELSE UNCHANGED left

(***************************************************************************)
(* Containers.                                                             *)
(***************************************************************************)
\* A starting PostgreSQL needs an initialised volume and a matching pair.
Presented(v) == IF v.st = "ready" /\ tls.key = tls.crt /\ tls.crt # NoCert THEN tls.crt ELSE NoCert

\* docker compose up: PostgreSQL initialises an empty volume, in the background.
VolumeOnStart == IF volume.st = "empty" THEN [st |-> "partial", value |-> 0] ELSE volume

\* An initialisation that is stopped is not taken up again.
Stopped(v) == IF v.st = "partial" THEN [v EXCEPT !.st = "failed"] ELSE v

\* up --force-recreate: every container starts from the files as they are.
RecreateAll ==
    /\ run' = [pg |-> env, web |-> Mode(cfg.access), app |-> cfg.access, caddy |-> caddyfile]
    /\ volume' = IF volume.st = "empty" THEN VolumeOnStart ELSE Stopped(volume)
    /\ served' = Presented(volume)

\* verify: the dashboard answers under the configured origin, in HTTPS mode
\* once Caddy has a certificate.
Routed == run.web = Mode(cfg.access) /\ run.app = cfg.access /\ run.caddy = cfg.access
Serving == Routed /\ (cfg.access \in Hosts => certs[cfg.access] > 0)

\* verify with its dependencies: PostgreSQL is healthy and SQLite usable.
Healthy == volume.st = "ready" /\ served # NoCert /\ store.st = "ready"
=============================================================================
