------------------------- MODULE HostCertificate --------------------------
(***************************************************************************)
(* sync-db-cert: the certificate Caddy holds for the dashboard's hostname  *)
(* is copied to PostgreSQL, which is reloaded and looked at.               *)
(***************************************************************************)
EXTENDS HostState

CertSteps == {"c_crt", "c_key", "c_check", "c_wkey", "c_wcrt", "c_reload", "c_observe",
              "c_bcrt", "c_bkey", "c_breload", "c_ok", "c_bad"}
\* From the first file replaced to the reload that announces it.
Unannounced == {"c_wcrt", "c_reload", "c_bcrt", "c_bkey", "c_breload"}

Host == cfg.access
Offered == Cert(Host, op.crt)

\* The daily timer; in tunnel mode the command only reports that it cannot.
SyncDbCert ==
    /\ At("idle") /\ timer /\ Host \in Hosts /\ stage # None
    /\ Go("c_crt")
    /\ UNCHANGED <<files, data, run, timer, pg, note, left>>

\* Certificate and key are read from Caddy one after the other.
ReadCertificate ==
    /\ At("c_crt")
    /\ IF certs[Host] = 0 THEN Go("c_bad") ELSE pc' = "c_key" /\ op' = [op EXCEPT !.crt = certs[Host]]
    /\ UNCHANGED <<files, data, run, timer, pg, note, left>>

ReadKey ==
    /\ At("c_key")
    /\ pc' = "c_check" /\ op' = [op EXCEPT !.key = certs[Host]]
    /\ UNCHANGED <<files, data, run, timer, pg, note, left>>

Matches == op.crt = op.key

\* A pair that does not match changes nothing; a certificate that is already
\* in the file is taken to be served.
CheckPair ==
    /\ At("c_check")
    /\ IF ~Matches THEN Go("c_bad")
       ELSE IF tls.crt = Offered THEN Go("c_ok")
       ELSE pc' = "c_wkey" /\ op' = [op EXCEPT !.prev = tls]
    /\ UNCHANGED <<files, data, run, timer, pg, note, left>>

WriteKey ==
    /\ At("c_wkey")
    /\ tls' = [tls EXCEPT !.key = Cert(Host, op.key)]
    /\ Go("c_wcrt")
    /\ UNCHANGED <<files, data, run, timer, served, certs, synced, cut, note, left>>

WriteCertificate ==
    /\ At("c_wcrt")
    /\ tls' = [tls EXCEPT !.crt = Offered]
    /\ Go("c_reload")
    /\ UNCHANGED <<files, data, run, timer, served, certs, synced, cut, note, left>>

\* A reload takes a pair that matches and keeps the old one otherwise.
Reloaded == IF served # NoCert /\ tls.key = tls.crt THEN tls.crt ELSE served

\* pg_ctl reload fails without a running PostgreSQL, and the files stay.
Reload ==
    /\ At("c_reload")
    /\ \/ served # NoCert /\ served' = Reloaded /\ Go("c_observe") /\ UNCHANGED <<cut, left>>
       \/ served = NoCert /\ cut' = TRUE /\ Go("c_bad") /\ UNCHANGED <<served, left>>
       \/ Spend("trouble") /\ cut' = TRUE /\ Go("c_bad") /\ UNCHANGED served
    /\ UNCHANGED <<files, data, run, timer, tls, certs, synced, note>>

\* A new connection sees the certificate, or does not in time.
Observe ==
    /\ At("c_observe")
    /\ \E seen \in {served, NoCert} :
          /\ IF seen = served THEN UNCHANGED left ELSE Spend("trouble")
          /\ IF seen = Offered THEN Go("c_ok") ELSE Go("c_bcrt")
    /\ UNCHANGED <<files, data, run, timer, pg, note>>

BackCertificate ==
    /\ At("c_bcrt")
    /\ tls' = [tls EXCEPT !.crt = op.prev.crt]
    /\ Go("c_bkey")
    /\ UNCHANGED <<files, data, run, timer, served, certs, synced, cut, note, left>>

BackKey ==
    /\ At("c_bkey")
    /\ tls' = [tls EXCEPT !.key = op.prev.key]
    /\ Go("c_breload")
    /\ UNCHANGED <<files, data, run, timer, served, certs, synced, cut, note, left>>

\* This reload may fail too; the command reports the failed delivery either way.
BackReload ==
    /\ At("c_breload")
    /\ served' \in {Reloaded, served}
    /\ Go("c_bad")
    /\ UNCHANGED <<files, data, run, timer, tls, certs, synced, cut, note, left>>

\* record_cert_sync.
RecordSync ==
    /\ pc \in {"c_ok", "c_bad"}
    /\ synced' = IF At("c_ok") THEN "ok" ELSE "bad"
    /\ Idle
    /\ UNCHANGED <<files, data, run, timer, tls, served, certs, cut, note, left>>

CertStep ==
    \/ ReadCertificate \/ ReadKey \/ CheckPair \/ WriteKey \/ WriteCertificate \/ Reload \/ Observe
    \/ BackCertificate \/ BackKey \/ BackReload \/ RecordSync
=============================================================================
