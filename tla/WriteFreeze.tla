---------------------------- MODULE WriteFreeze -----------------------------
(***************************************************************************)
(* Freezing and resuming a project's writes: updateWrites changes a        *)
(* setting of the role, ends its sessions, and records the outcome in the  *)
(* metadata; if recording fails it puts the setting back.  Requests are    *)
(* not serialised, and a request may stop at any point.                    *)
(*                                                                         *)
(* Abstractions.  One ready project; sessions differ only in the setting   *)
(* they logged in under (a client that changes it itself is not of         *)
(* interest).                                                              *)
(***************************************************************************)
EXTENDS Integers, FiniteSets

CONSTANTS
    Requests,      \* updateWrites requests
    MaxRequests,   \* bound: requests in flight at a time
    MaxPgFaults,   \* bound: calls to PostgreSQL that fail, and crashes
    MaxDbErrors    \* bound: failed writes of frozen_at

VARIABLES
    frozen,        \* projects.frozen_at is set
    readonly,      \* default_transaction_read_only of the role
    sessions,      \* the settings that live sessions logged in under
    pc, wants,     \* each request: its place and the state it asks for
    pgFaults, dbErrors

vars == <<frozen, readonly, sessions, pc, wants, pgFaults, dbErrors>>

Init ==
    /\ frozen = FALSE /\ readonly = FALSE /\ sessions = {}
    /\ pc = [r \in Requests |-> "idle"] /\ wants = [r \in Requests |-> FALSE]
    /\ pgFaults = 0 /\ dbErrors = 0

PgFault == pgFaults < MaxPgFaults /\ pgFaults' = pgFaults + 1
DbError == dbErrors < MaxDbErrors /\ dbErrors' = dbErrors + 1
Go(r, place) == pc' = [pc EXCEPT ![r] = place]
\* Ending sessions, or failing to.
Terminated == sessions' = {}

\* updateWrites answers at once when the project already is as asked.
UpdateWrites(r) ==
    /\ pc[r] = "idle" /\ Cardinality({q \in Requests : pc[q] # "idle"}) < MaxRequests
    /\ wants' = [wants EXCEPT ![r] = ~frozen] /\ Go(r, "alter")
    /\ UNCHANGED <<frozen, readonly, sessions, pgFaults, dbErrors>>

\* SetWritesFrozen: first ALTER ROLE; an error leaves the request.
AlterRole(r) ==
    /\ pc[r] = "alter"
    /\ \/ readonly' = wants[r] /\ Go(r, "terminate") /\ UNCHANGED pgFaults
       \/ readonly' \in {readonly, wants[r]} /\ PgFault /\ Go(r, "idle")
    /\ UNCHANGED <<frozen, sessions, wants, dbErrors>>

\* ... then the sessions are ended.
TerminateSessions(r) ==
    /\ pc[r] = "terminate"
    /\ \/ Terminated /\ Go(r, "record") /\ UNCHANGED pgFaults
       \/ (Terminated \/ UNCHANGED sessions) /\ PgFault /\ Go(r, "idle")
    /\ UNCHANGED <<frozen, readonly, wants, dbErrors>>

SetProjectFrozen(r) ==
    /\ pc[r] = "record"
    /\ \/ frozen' = wants[r] /\ Go(r, "idle") /\ UNCHANGED dbErrors
       \/ DbError /\ Go(r, "revert") /\ UNCHANGED frozen
    /\ UNCHANGED <<readonly, sessions, wants, pgFaults>>

\* SetWritesFrozen again, the other way round; its errors are ignored.
RevertRole(r) ==
    /\ pc[r] = "revert"
    /\ \/ readonly' = ~wants[r] /\ Go(r, "revert_sessions") /\ UNCHANGED pgFaults
       \/ readonly' \in {readonly, ~wants[r]} /\ PgFault /\ Go(r, "idle")
    /\ UNCHANGED <<frozen, sessions, wants, dbErrors>>

RevertSessions(r) ==
    /\ pc[r] = "revert_sessions" /\ Go(r, "idle")
    /\ \/ Terminated /\ UNCHANGED pgFaults
       \/ UNCHANGED sessions /\ PgFault
    /\ UNCHANGED <<frozen, readonly, wants, dbErrors>>

\* An application logs in and gets the role's setting.
Connect ==
    /\ sessions' = sessions \cup {readonly}
    /\ UNCHANGED <<frozen, readonly, pc, wants, pgFaults, dbErrors>>

Crash ==
    /\ PgFault /\ pc' = [r \in Requests |-> "idle"]
    /\ UNCHANGED <<frozen, readonly, sessions, wants, dbErrors>>

Next ==
    \/ \E r \in Requests :
         \/ UpdateWrites(r) \/ AlterRole(r) \/ TerminateSessions(r) \/ SetProjectFrozen(r)
         \/ RevertRole(r) \/ RevertSessions(r)
    \/ Connect \/ Crash

Spec == Init /\ [][Next]_vars

(***************************************************************************)
(* Properties.                                                             *)
(***************************************************************************)
TypeOK ==
    /\ {frozen, readonly} \subseteq BOOLEAN /\ sessions \subseteq BOOLEAN
    /\ wants \in [Requests -> BOOLEAN]
    /\ pc \in [Requests -> {"idle", "alter", "terminate", "record", "revert", "revert_sessions"}]

\* "The dashboard never shows a state PostgreSQL does not enforce": whenever no
\* request is under way, what is recorded is what the role has, and no session
\* is left that may write while writes are shown as frozen.
ShownIsEnforced ==
    (\A r \in Requests : pc[r] = "idle") => readonly = frozen /\ (frozen => FALSE \notin sessions)
=============================================================================
