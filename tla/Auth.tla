-------------------------------- MODULE Auth --------------------------------
(***************************************************************************)
(* Becoming and staying the administrator: setup, the password step and    *)
(* its code, enrolling a second factor, resets issued over SSH, sessions.  *)
(* Every store function is one transaction; a sign-in makes three, and     *)
(* resets, enrolments, changes of the access mode and updates happen in    *)
(* between.                                                                *)
(*                                                                         *)
(* Abstractions.  Tokens are numbered as SQLite numbers them; a password   *)
(* or a factor is the number of the token that brought it, 0 for none.     *)
(* Tokens, sessions and lockouts run out at any time.  A spent token is    *)
(* never read again, except that the newest reset is looked up: only spent *)
(* resets keep their row here.  A code belongs to a factor and a time      *)
(* step; one that does not match is wrong.  The session scope is the       *)
(* access-configuration generation, which fixes the mode.                  *)
(***************************************************************************)
EXTENDS Integers, Sequences

CONSTANTS
    Logins,            \* sign-in requests that may be under way
    Modes,             \* the access mode of each generation
    CodeTries,         \* codes a pending step or an enrolment may take
    LockEvery,         \* wrong codes in a row that lock code entry
    MaxTokens,         \* bound: tokens issued
    MaxStep            \* bound: time steps

ASSUME AuthAssumption ==
    /\ Modes \in Seq({"https", "tunnel"}) /\ Len(Modes) > 0
    /\ {CodeTries, LockEvery, MaxTokens, MaxStep} \subseteq Nat \ {0}

VARIABLES
    admin,             \* the administrator row
    tokens, issued,    \* auth_tokens; the last id given
    sessions, scope, maint,
    locked,            \* code_locked_until is in the future
    step,              \* the server's time step
    login,             \* the sign-in requests
    wrongRun,          \* wrong codes checked since a success or a lockout ended
    lastReset          \* the last reset issued

vars == <<admin, tokens, issued, sessions, scope, maint, locked, step, login, wrongRun, lastReset>>

TokenIds == 1 .. MaxTokens
Mode == Modes[scope]
NoToken == [purpose |-> "none", state |-> "none", tries |-> 0, parent |-> 0, kind |-> "none",
            pass |-> 0, scope |-> 0]
NoAdmin == [exists |-> FALSE, pass |-> 0, factor |-> 0, last |-> 0, failures |-> 0]
NoLogin == [at |-> "idle", hash |-> 0, enrolled |-> FALSE]

TypeOK ==
    /\ admin \in [exists : BOOLEAN, pass : 0 .. MaxTokens, factor : 0 .. MaxTokens,
                  last : 0 .. MaxStep + 1, failures : 0 .. 2 * LockEvery - 1]
    /\ admin.factor # 0 \/ admin.pass # 0 => admin.exists
    /\ issued \in 0 .. MaxTokens
    /\ tokens \in [TokenIds -> [purpose : {"none", "setup", "reset", "enrol", "pending"},
                                state : {"none", "live", "spent"},
                                tries : 0 .. CodeTries, parent : 0 .. MaxTokens,
                                kind : {"none", "setup", "reset", "upgrade"},
                                pass : 0 .. MaxTokens, scope : 0 .. Len(Modes)]]
    /\ \A t \in TokenIds : tokens[t].state = "live" => tokens[t].tries < CodeTries
    /\ sessions \subseteq [pass : 0 .. MaxTokens, factor : 0 .. MaxTokens, scope : 1 .. Len(Modes)]
    /\ scope \in 1 .. Len(Modes) /\ maint \in BOOLEAN /\ locked \in BOOLEAN /\ step \in 1 .. MaxStep
    /\ login \in [Logins -> [at : {"idle", "verified", "checked"}, hash : 0 .. MaxTokens, enrolled : BOOLEAN]]
    /\ wrongRun \in Nat /\ lastReset \in 0 .. MaxTokens

Init ==
    /\ admin = NoAdmin /\ tokens = [t \in TokenIds |-> NoToken] /\ issued = 0
    /\ sessions = {} /\ scope = 1 /\ maint = FALSE /\ locked = FALSE /\ step = 1
    /\ login = [l \in Logins |-> NoLogin] /\ wrongRun = 0 /\ lastReset = 0

(***************************************************************************)
(* Tokens.                                                                 *)
(***************************************************************************)
Room == issued < MaxTokens
Fresh == issued + 1

\* issue, on top of other changes to the table.
Issue(table, purpose, parent, kind, pass) ==
    /\ Room /\ issued' = Fresh
    /\ tokens' = [table EXCEPT ![Fresh] =
         [purpose |-> purpose, state |-> "live", tries |-> 0, parent |-> parent, kind |-> kind,
          pass |-> pass, scope |-> scope]]

Usable(t, purpose) == tokens[t].purpose = purpose /\ tokens[t].state = "live"
Dead(token) == IF token.purpose = "reset" THEN [token EXCEPT !.state = "spent"] ELSE NoToken
Consumed(table, t) == [table EXCEPT ![t] = Dead(@)]
\* A failed attempt; the last one consumes the token.
Spent(t) ==
    IF tokens[t].tries + 1 >= CodeTries THEN Consumed(tokens, t) ELSE [tokens EXCEPT ![t].tries = @ + 1]

NewSetupToken ==
    /\ ~admin.exists
    /\ ~\E t \in TokenIds : Usable(t, "setup")
    /\ Issue(tokens, "setup", 0, "none", 0)
    /\ UNCHANGED <<admin, sessions, scope, maint, locked, step, login, wrongRun, lastReset>>

NewResetToken ==
    /\ admin.exists
    /\ Issue([t \in TokenIds |-> IF Usable(t, "reset") THEN Dead(tokens[t]) ELSE tokens[t]], "reset", 0, "none", 0)
    /\ lastReset' = Fresh
    /\ UNCHANGED <<admin, sessions, scope, maint, locked, step, login, wrongRun>>

Expire(t) ==
    /\ tokens[t].state = "live" /\ tokens' = Consumed(tokens, t)
    /\ UNCHANGED <<admin, issued, sessions, scope, maint, locked, step, login, wrongRun, lastReset>>

\* abandon: the user walks away from a step.
Abandon(t) ==
    /\ Usable(t, "pending") \/ Usable(t, "enrol")
    /\ tokens' = Consumed(tokens, t)
    /\ UNCHANGED <<admin, issued, sessions, scope, maint, locked, step, login, wrongRun, lastReset>>

(***************************************************************************)
(* Sessions.                                                               *)
(***************************************************************************)
\* addSession also removes the sessions of other scopes.
WithSession(old, pass, factor) ==
    {s \in old : s.scope = scope} \cup {[pass |-> pass, factor |-> factor, scope |-> scope]}

SessionEnds(s) ==
    /\ s \in sessions /\ sessions' = sessions \ {s}
    /\ UNCHANGED <<admin, tokens, issued, scope, maint, locked, step, login, wrongRun, lastReset>>

(***************************************************************************)
(* Setup and enrolment.                                                    *)
(***************************************************************************)
\* Tunnel mode: the administrator in one step.
Setup(t) ==
    /\ Mode = "tunnel" /\ Usable(t, "setup") /\ ~admin.exists
    /\ admin' = [NoAdmin EXCEPT !.exists = TRUE, !.pass = t]
    /\ tokens' = Consumed(tokens, t) /\ sessions' = WithSession(sessions, t, 0)
    /\ UNCHANGED <<issued, scope, maint, locked, step, login, wrongRun, lastReset>>

BeginEnrolment(t) ==
    /\ Mode = "https" /\ Usable(t, "setup") /\ ~admin.exists
    /\ Issue(Consumed(tokens, t), "enrol", t, "setup", Fresh)
    /\ UNCHANGED <<admin, sessions, scope, maint, locked, step, login, wrongRun, lastReset>>

\* The request handler refuses during an update, but looks before it hashes the
\* new password, so an update may have begun by now.
BeginReset(t) ==
    /\ Usable(t, "reset")
    /\ Issue(Consumed(tokens, t), "enrol", t, "reset", Fresh)
    /\ UNCHANGED <<admin, sessions, scope, maint, locked, step, login, wrongRun, lastReset>>

NewestReset == CHOOSE t \in 0 .. MaxTokens :
    /\ t # 0 => tokens[t].purpose = "reset"
    /\ \A r \in TokenIds : tokens[r].purpose = "reset" => r <= t

\* Mutant of Applies: a reset applies during an update and after a newer one.
AppliesAnyway(t) ==
    LET n == tokens[t]
    IN  /\ n.scope = scope
        /\ CASE n.kind = "setup"   -> ~admin.exists
             [] n.kind = "reset"   -> admin.exists
             [] n.kind = "upgrade" -> admin.exists /\ admin.pass = n.pass /\ admin.factor = 0

\* The checks a verified enrolment code must pass to apply.
Applies(t) ==
    LET n == tokens[t]
    IN  /\ n.scope = scope
        /\ CASE n.kind = "setup"   -> ~admin.exists
             [] n.kind = "reset"   -> admin.exists /\ n.parent = NewestReset
             [] n.kind = "upgrade" -> admin.exists /\ admin.pass = n.pass /\ admin.factor = 0

CodesInWindow == {c \in step - 1 .. step + 1 : c >= 0}

\* What is left in auth_tokens once enrolment t has applied.
TokensAfter(t) ==
    LET n == tokens[t]
    IN  IF n.kind # "reset" THEN Consumed(tokens, t)
        ELSE [r \in TokenIds |->
               IF r # n.parent /\ tokens[r].purpose \in {"pending", "enrol", "reset"} THEN NoToken ELSE tokens[r]]

SessionsLeft(t) == IF tokens[t].kind = "reset" THEN {} ELSE sessions

Accepted(t, c) ==
    [exists |-> TRUE, pass |-> tokens[t].pass, factor |-> t, last |-> c, failures |-> 0]

\* ConfirmEnrolment with a right code, and with a wrong one.  A confirmed reset
\* waits, unspent, for an update to finish.
ConfirmEnrolment(t, c) ==
    /\ Usable(t, "enrol") /\ c \in CodesInWindow
    /\ IF ~Applies(t)
         THEN tokens' = Consumed(tokens, t) /\ UNCHANGED <<admin, sessions, locked, wrongRun>>
         ELSE /\ tokens[t].kind = "reset" => ~maint
              /\ admin' = Accepted(t, c) /\ locked' = FALSE /\ wrongRun' = 0
              /\ tokens' = TokensAfter(t)
              /\ sessions' = WithSession(SessionsLeft(t), tokens[t].pass, t)
    /\ UNCHANGED <<issued, scope, maint, step, login, lastReset>>

WrongEnrolmentCode(t) ==
    /\ Usable(t, "enrol") /\ tokens' = Spent(t)
    /\ UNCHANGED <<admin, issued, sessions, scope, maint, locked, step, login, wrongRun, lastReset>>

(***************************************************************************)
(* Signing in.                                                             *)
(***************************************************************************)
\* The password step: the stored hash is read and the password found right.
LoginPassword(l) ==
    /\ login[l].at = "idle" /\ admin.exists
    /\ login' = [login EXCEPT ![l] = [at |-> "verified", hash |-> admin.pass, enrolled |-> FALSE]]
    /\ UNCHANGED <<admin, tokens, issued, sessions, scope, maint, locked, step, wrongRun, lastReset>>

\* Factor; refused when the password has changed meanwhile.
LoginFactor(l) ==
    /\ login[l].at = "verified"
    /\ login' = [login EXCEPT ![l] =
         IF admin.pass = login[l].hash
           THEN [@ EXCEPT !.at = "checked", !.enrolled = admin.factor # 0] ELSE NoLogin]
    /\ UNCHANGED <<admin, tokens, issued, sessions, scope, maint, locked, step, wrongRun, lastReset>>

\* A public dashboard never has an administrator without a second factor.
Enrols == Mode = "https"

\* Mutant of SessionAllowed: what the password step read is trusted.
StaleSessionAllowed(l) == TRUE

\* AddSession reads both again.
SessionAllowed(l) == admin.pass = login[l].hash /\ admin.factor = 0

Checked(l, enrolled) ==
    /\ login[l].at = "checked" /\ login[l].enrolled = enrolled
    /\ login' = [login EXCEPT ![l] = NoLogin]
    /\ UNCHANGED <<admin, scope, maint, locked, step, wrongRun, lastReset>>

BeginPending(l) ==
    Checked(l, TRUE) /\ Issue(tokens, "pending", 0, "none", login[l].hash) /\ UNCHANGED sessions

BeginUpgrade(l) ==
    Checked(l, FALSE) /\ Enrols /\ Issue(tokens, "enrol", 0, "upgrade", login[l].hash) /\ UNCHANGED sessions

AddSession(l) ==
    /\ Checked(l, FALSE) /\ ~Enrols
    /\ sessions' = IF SessionAllowed(l) THEN WithSession(sessions, login[l].hash, 0) ELSE sessions
    /\ UNCHANGED <<tokens, issued>>

StepCounts(t) == tokens[t].pass = admin.pass /\ tokens[t].scope = scope /\ admin.factor # 0

\* ConfirmPending with the right code of step c.
ConfirmPending(t, c) ==
    /\ admin.exists /\ ~locked /\ Usable(t, "pending") /\ c \in CodesInWindow
    /\ IF ~StepCounts(t)
         THEN tokens' = Consumed(tokens, t) /\ UNCHANGED <<admin, sessions, wrongRun>>
         ELSE IF c <= admin.last
         THEN tokens' = Spent(t) /\ UNCHANGED <<admin, sessions, wrongRun>>
         ELSE /\ admin' = [admin EXCEPT !.last = c, !.failures = 0] /\ wrongRun' = 0
              /\ sessions' = WithSession(sessions, admin.pass, admin.factor)
              /\ tokens' = Consumed(tokens, t)
    /\ UNCHANGED <<issued, scope, maint, locked, step, login, lastReset>>

\* Mutant of Locks: wrong codes are counted per sign-in.
LocksPerToken(t) == tokens'[t].tries = LockEvery

\* Later lockouts grow longer; here only that code entry is locked again matters.
Locks(t) == (admin.failures + 1) % LockEvery = 0

WrongCode(t) ==
    /\ admin.exists /\ ~locked /\ Usable(t, "pending") /\ StepCounts(t)
    /\ tokens' = Spent(t)
    /\ admin' = [admin EXCEPT !.failures = (@ + 1) % (2 * LockEvery)]
    /\ locked' = Locks(t) /\ wrongRun' = wrongRun + 1
    /\ UNCHANGED <<issued, sessions, scope, maint, step, login, lastReset>>

Unlock ==
    /\ locked /\ locked' = FALSE /\ wrongRun' = 0
    /\ UNCHANGED <<admin, tokens, issued, sessions, scope, maint, step, login, lastReset>>

(***************************************************************************)
(* The rest of the world.                                                  *)
(***************************************************************************)
NextStep ==
    /\ step < MaxStep /\ step' = step + 1
    /\ UNCHANGED <<admin, tokens, issued, sessions, scope, maint, locked, login, wrongRun, lastReset>>

\* pgfyctl hostname or tunnel: the application restarts with a new generation.
ChangeAccess ==
    /\ scope < Len(Modes) /\ scope' = scope + 1 /\ login' = [l \in Logins |-> NoLogin]
    /\ UNCHANGED <<admin, tokens, issued, sessions, maint, locked, step, wrongRun, lastReset>>

SetMaintenance ==
    /\ maint' = ~maint
    /\ UNCHANGED <<admin, tokens, issued, sessions, scope, locked, step, login, wrongRun, lastReset>>

Next ==
    \/ NewSetupToken \/ NewResetToken \/ Unlock \/ NextStep \/ ChangeAccess \/ SetMaintenance
    \/ \E s \in sessions : SessionEnds(s)
    \/ \E l \in Logins : LoginPassword(l) \/ LoginFactor(l) \/ BeginPending(l) \/ BeginUpgrade(l) \/ AddSession(l)
    \/ \E t \in TokenIds :
         \/ Expire(t) \/ Abandon(t) \/ Setup(t) \/ BeginEnrolment(t) \/ BeginReset(t)
         \/ WrongEnrolmentCode(t) \/ WrongCode(t)
         \/ \E c \in 0 .. MaxStep + 1 : ConfirmEnrolment(t, c) \/ ConfirmPending(t, c)

Spec == Init /\ [][Next]_vars

(***************************************************************************)
(* Properties.                                                             *)
(***************************************************************************)
\* Every session was opened with the password in force, and a session the
\* application accepts (of the present scope) with the factor in force: no
\* interleaving of sign-ins with resets, upgrades and mode changes leaves a
\* session of replaced credentials, or one without a code once a factor exists.
\* "With a public hostname the administrator always has a second factor": a
\* session of an HTTPS scope was opened with one.
SessionsAreCurrent ==
    \A s \in sessions :
        /\ s.pass = admin.pass /\ (s.scope = scope => s.factor = admin.factor)
        /\ Modes[s.scope] = "https" => s.factor # 0

\* "Five wrong codes in a row lock code entry", however many sign-ins they are
\* spread over: between two lockouts no more are ever checked.
WrongCodesLock == wrongRun <= LockEvery /\ (wrongRun = LockEvery => locked)

\* "Issuing a new reset token invalidates the previous one", also when its
\* enrolment had begun; and "resets wait until an update finishes".
OnlyNewestResetApplies ==
    [][\A t \in TokenIds : tokens[t].kind = "reset" /\ admin'.factor = t /\ admin.factor # t
         => ~maint /\ tokens[t].parent = lastReset]_vars

\* BeginEnrolment "spends the setup token: from here no competing enrolment can
\* start": there is one live setup enrolment at most.
OneSetupEnrolment ==
    \A t, u \in TokenIds : Usable(t, "enrol") /\ Usable(u, "enrol")
        /\ tokens[t].kind = "setup" /\ tokens[u].kind = "setup" => t = u
=============================================================================
