---------------------------- MODULE ServiceProofs ---------------------------
(***************************************************************************)
(* Two components of the running service: Auth, for any sign-ins, any      *)
(* sequence of access modes, any limits on tries and wrong codes; and      *)
(* Alerts, for any conditions, events, receivers and waiting times.        *)
(***************************************************************************)
EXTENDS Auth, Alerts, TLAPS

\* Leaves that need arithmetic, records or many cases cite SMT.
USE Zenon

(***************************************************************************)
(* Auth.                                                                   *)
(***************************************************************************)
Token == [purpose : {"none", "setup", "reset", "enrol", "pending"}, state : {"none", "live", "spent"},
          tries : 0 .. CodeTries, parent : 0 .. MaxTokens, kind : {"none", "setup", "reset", "upgrade"},
          pass : 0 .. MaxTokens, scope : 0 .. Len(Modes)]

(***************************************************************************)
(* The inductive invariant.                                                *)
(***************************************************************************)
\* An id not given yet has no row; an enrolment that brings a first factor was
\* begun in an HTTPS scope (a reset may be confirmed over a tunnel).
TokensInOrder ==
    /\ \A t \in TokenIds : t > issued => tokens[t] = NoToken
    /\ \A t \in TokenIds : tokens[t].purpose = "enrol" =>
         /\ tokens[t].scope # 0 /\ tokens[t].kind # "none"
         /\ tokens[t].kind # "reset" => Modes[tokens[t].scope] = "https"

\* The last reset issued is the newest in the table, spent or not.
ResetsInOrder ==
    /\ lastReset # 0 => tokens[lastReset].purpose = "reset"
    /\ \A t \in TokenIds : tokens[t].purpose = "reset" => t <= lastReset

\* No session is ahead of the scope in force, and before setup there are none.
SessionsInOrder ==
    /\ SessionsAreCurrent
    /\ \A s \in sessions : s.scope <= scope
    /\ ~admin.exists => sessions = {}

\* Who signs in read an administrator's password.
SignInsInOrder == \A l \in Logins : login[l].at # "idle" => admin.exists

\* The failure counter runs through two lockouts: how far it is into one.
SinceLock == IF admin.failures < LockEvery THEN admin.failures ELSE admin.failures - LockEvery

\* While code entry is open the counter has seen every wrong code since the last
\* lockout; while it is locked the counter stands at a lockout.
CodesInOrder ==
    /\ locked => SinceLock = 0 /\ wrongRun <= LockEvery
    /\ ~locked => wrongRun <= SinceLock
    /\ ~admin.exists => admin = NoAdmin /\ ~locked /\ wrongRun = 0

AuthInvariant ==
    TypeOK /\ TokensInOrder /\ ResetsInOrder /\ SignInsInOrder /\ SessionsInOrder /\ CodesInOrder

\* What the invariant says of the token table, and of the rest.
TableOK ==
    /\ issued \in 0 .. MaxTokens /\ lastReset \in 0 .. MaxTokens /\ scope \in 1 .. Len(Modes)
    /\ tokens \in [TokenIds -> Token]
    /\ \A t \in TokenIds : tokens[t].state = "live" => tokens[t].tries < CodeTries
    /\ TokensInOrder /\ ResetsInOrder

Admin == [exists : BOOLEAN, pass : 0 .. MaxTokens, factor : 0 .. MaxTokens,
          last : 0 .. MaxStep + 1, failures : 0 .. 2 * LockEvery - 1]
Login == [at : {"idle", "verified", "checked"}, hash : 0 .. MaxTokens, enrolled : BOOLEAN]
Session == [pass : 0 .. MaxTokens, factor : 0 .. MaxTokens, scope : 1 .. Len(Modes)]

StateOK ==
    /\ admin \in Admin /\ (admin.factor # 0 \/ admin.pass # 0 => admin.exists)
    /\ sessions \subseteq Session
    /\ maint \in BOOLEAN /\ locked \in BOOLEAN /\ step \in 1 .. MaxStep
    /\ login \in [Logins -> Login] /\ wrongRun \in Nat

LEMMA InvariantParts ==
    AuthInvariant <=> TableOK /\ StateOK /\ SignInsInOrder /\ SessionsInOrder /\ CodesInOrder
  BY DEF AuthInvariant, TypeOK, TableOK, StateOK, Token, Admin, Login, Session

(***************************************************************************)
(* The token table.                                                        *)
(***************************************************************************)
\* What consume, and a failed attempt, leave of a row.
LEMMA DeadToken ==
    ASSUME NEW k \in Token
    PROVE  /\ Dead(k) \in Token /\ Dead(k).state # "live" /\ NoToken \in Token
           /\ Dead(k).purpose = (IF k.purpose = "reset" THEN "reset" ELSE "none")
  BY AuthAssumption, SMT DEF Dead, Token, NoToken

LEMMA Constants == /\ CodeTries \in Nat \ {0} /\ LockEvery \in Nat \ {0}
                   /\ MaxTokens \in Nat \ {0} /\ MaxStep \in Nat \ {0} /\ Len(Modes) \in Nat \ {0}
  BY AuthAssumption, SMT

LEMMA TriedToken ==
    ASSUME NEW k \in Token, k.tries + 1 < CodeTries
    PROVE  LET d == [k EXCEPT !.tries = @ + 1]
           IN  /\ d \in Token /\ d.tries < CodeTries /\ d.state = k.state /\ d.purpose = k.purpose
               /\ d.scope = k.scope /\ d.kind = k.kind
  BY Constants, SMT DEF Token

\* The newest reset in the table is the last one issued.
LEMMA NewestIsLast ==
    ASSUME TableOK
    PROVE  NewestReset = lastReset
  <1> DEFINE P(t) == /\ t # 0 => tokens[t].purpose = "reset"
                     /\ \A r \in TokenIds : tokens[r].purpose = "reset" => r <= t
  <1>1. lastReset \in 0 .. MaxTokens /\ P(lastReset)
    BY DEF TableOK, ResetsInOrder
  <1>2. ASSUME NEW t \in 0 .. MaxTokens, P(t) PROVE t = lastReset
    <2>1. t # 0 => t <= lastReset
      BY <1>1, <1>2, SMT DEF TokenIds
    <2>2. lastReset # 0 => lastReset <= t
      BY <1>1, <1>2, SMT DEF TokenIds
    <2> QED
      BY <1>1, <2>1, <2>2, SMT
  <1> QED
    BY <1>1, <1>2 DEF NewestReset

\* consume and a failed attempt on a live token.
LEMMA SpendingKeeps ==
    ASSUME TableOK, NEW t \in TokenIds, tokens[t].state = "live",
           tokens' = Consumed(tokens, t) \/ tokens' = Spent(t),
           UNCHANGED <<issued, lastReset, scope>>
    PROVE  TableOK'
  <1>1. /\ tokens' \in [TokenIds -> Token]
        /\ \A r \in TokenIds \ {t} : tokens'[r] = tokens[r]
        /\ \/ tokens'[t] = Dead(tokens[t])
           \/ tokens[t].tries + 1 < CodeTries /\ tokens'[t] = [tokens[t] EXCEPT !.tries = @ + 1]
    <2>1. CASE tokens' = Consumed(tokens, t)
      BY <2>1, DeadToken DEF TableOK, Consumed
    <2>2. CASE tokens[t].tries + 1 < CodeTries /\ tokens' = [tokens EXCEPT ![t].tries = @ + 1]
      <3>1. tokens' = [tokens EXCEPT ![t] = [tokens[t] EXCEPT !.tries = @ + 1]]
        BY <2>2
      <3> QED
        BY <2>2, <3>1, TriedToken DEF TableOK
    <2>3. tokens[t].tries + 1 < CodeTries \/ tokens[t].tries + 1 >= CodeTries
      BY Constants, SMT DEF TableOK, Token
    <2> QED
      BY <2>1, <2>2, <2>3 DEF Spent
  <1>2. t <= issued
    BY SMT DEF TableOK, TokensInOrder, NoToken, TokenIds
  <1>3. tokens[t] \in Token
    BY DEF TableOK
  <1>4. /\ tokens'[t].state = "live" => tokens'[t].tries < CodeTries
        /\ tokens'[t].purpose = "reset" <=> tokens[t].purpose = "reset"
        /\ tokens'[t].purpose = "enrol" =>
             tokens[t].purpose = "enrol" /\ tokens'[t].scope = tokens[t].scope /\ tokens'[t].kind = tokens[t].kind
    <2>1. CASE tokens'[t] = Dead(tokens[t])
      BY <1>3, <2>1, DeadToken
    <2>2. CASE tokens[t].tries + 1 < CodeTries /\ tokens'[t] = [tokens[t] EXCEPT !.tries = @ + 1]
      BY <1>3, <2>2, TriedToken
    <2> QED
      BY <1>1, <2>1, <2>2
  <1>5. TokensInOrder'
    BY <1>1, <1>2, <1>4, SMT DEF TableOK, TokensInOrder, TokenIds
  <1>6. ResetsInOrder'
    BY <1>1, <1>4, SMT DEF TableOK, ResetsInOrder, TokenIds
  <1> QED
    BY <1>1, <1>4, <1>5, <1>6 DEF TableOK

\* issue, beside the consumption of other tokens: the new id is not in use, and
\* a new reset is the newest.
LEMMA IssuingKeeps ==
    ASSUME TableOK, NEW table \in [TokenIds -> Token],
           \A r \in TokenIds : table[r] = tokens[r] \/ (tokens[r].state = "live" /\ table[r] = Dead(tokens[r])),
           NEW purpose \in {"setup", "reset", "enrol", "pending"}, NEW parent \in 0 .. MaxTokens,
           NEW kind \in {"none", "setup", "reset", "upgrade"}, NEW pass \in 0 .. MaxTokens,
           Issue(table, purpose, parent, kind, pass),
           purpose = "enrol" => kind # "none" /\ (kind = "reset" \/ Mode = "https"),
           lastReset' = IF purpose = "reset" THEN Fresh ELSE lastReset,
           scope' = scope
    PROVE  TableOK'
  <1> DEFINE new == [purpose |-> purpose, state |-> "live", tries |-> 0, parent |-> parent, kind |-> kind,
                     pass |-> pass, scope |-> scope]
  <1>1. Fresh \in TokenIds /\ issued' = Fresh /\ Fresh = issued + 1 /\ issued \in 0 .. MaxTokens
    BY Constants, SMT DEF Issue, Room, Fresh, TableOK, TokenIds
  <1>2. new \in Token
    BY Constants, SMT DEF Token, TableOK
  <1>3. /\ tokens' \in [TokenIds -> Token] /\ tokens'[Fresh] = new
        /\ \A r \in TokenIds \ {Fresh} : tokens'[r] = table[r]
    BY <1>1, <1>2 DEF Issue
  <1>4. ASSUME NEW r \in TokenIds, r # Fresh
        PROVE  /\ tokens'[r].state = "live" => tokens'[r].tries < CodeTries
               /\ tokens'[r].purpose = "reset" <=> tokens[r].purpose = "reset"
               /\ tokens'[r].purpose = "enrol" => tokens'[r] = tokens[r]
               /\ r > issued => tokens'[r] = NoToken
    <2>1. CASE tokens'[r] = tokens[r]
      BY <2>1 DEF TableOK, TokensInOrder
    <2>2. CASE tokens[r].state = "live" /\ tokens'[r] = Dead(tokens[r])
      BY <2>2, DeadToken, SMT DEF TableOK, TokensInOrder, NoToken
    <2> QED
      BY <1>3, <1>4, <2>1, <2>2
  <1>5. /\ new.state = "live" /\ new.tries = 0 /\ new.purpose = purpose /\ new.kind = kind
        /\ new.scope = scope
    OBVIOUS
  <1> HIDE DEF new
  <1>6. TokensInOrder'
    <2>1. scope # 0 /\ Mode = Modes[scope]
      BY Constants, SMT DEF TableOK, Mode
    <2>2. ASSUME NEW r \in TokenIds, r > issued' PROVE tokens'[r] = NoToken
      BY <1>1, <1>4, <2>2, SMT DEF TokenIds
    <2>3. ASSUME NEW r \in TokenIds, tokens'[r].purpose = "enrol"
          PROVE  /\ tokens'[r].scope # 0 /\ tokens'[r].kind # "none"
                 /\ tokens'[r].kind # "reset" => Modes[tokens'[r].scope] = "https"
      BY <1>3, <1>4, <1>5, <2>1, <2>3, SMT DEF TableOK, TokensInOrder
    <2> QED
      BY <2>2, <2>3 DEF TokensInOrder
  <1>7. ResetsInOrder'
    <2>1. lastReset # 0 => lastReset \in TokenIds /\ lastReset <= issued /\ tokens[lastReset].purpose = "reset"
      BY SMT DEF TableOK, TokensInOrder, ResetsInOrder, NoToken, TokenIds
    <2>2. \A r \in TokenIds : tokens[r].purpose = "reset" => r <= lastReset /\ r <= issued
      BY SMT DEF TableOK, TokensInOrder, ResetsInOrder, NoToken, TokenIds
    <2>3. CASE purpose = "reset"
      BY <1>1, <1>3, <1>4, <1>5, <2>2, <2>3, SMT DEF ResetsInOrder, TokenIds
    <2>4. CASE purpose # "reset"
      BY <1>1, <1>3, <1>4, <1>5, <2>1, <2>2, <2>4, SMT DEF ResetsInOrder, TokenIds, TableOK
    <2> QED
      BY <2>3, <2>4
  <1>8. lastReset' \in 0 .. MaxTokens /\ issued' \in 0 .. MaxTokens
    BY <1>1, SMT DEF TableOK, TokenIds
  <1>9. \A r \in TokenIds : tokens'[r].state = "live" => tokens'[r].tries < CodeTries
    BY <1>3, <1>4, <1>5, Constants, SMT
  <1> QED
    BY <1>3, <1>6, <1>7, <1>8, <1>9 DEF TableOK

\* An enrolment that has applied: a reset leaves its parent, the newest.
LEMMA ApplyingKeeps ==
    ASSUME TableOK, NEW t \in TokenIds, Usable(t, "enrol"), Applies(t), tokens' = TokensAfter(t),
           UNCHANGED <<issued, lastReset, scope>>
    PROVE  TableOK'
  <1>1. CASE tokens[t].kind # "reset"
    BY <1>1, SpendingKeeps DEF TokensAfter, Usable
  <1>2. CASE tokens[t].kind = "reset"
    <2>1. tokens[t].parent = lastReset
      BY <1>2, NewestIsLast DEF Applies
    <2>2. \A r \in TokenIds :
            tokens'[r] = IF r # lastReset /\ tokens[r].purpose \in {"pending", "enrol", "reset"}
                           THEN NoToken ELSE tokens[r]
      BY <1>2, <2>1 DEF TokensAfter
    <2>3. NoToken \in Token /\ NoToken.purpose = "none" /\ NoToken.state = "none"
      BY Constants, SMT DEF NoToken, Token
    <2>4. tokens' \in [TokenIds -> Token]
      BY <1>2, <2>1, <2>2, <2>3 DEF TokensAfter, TableOK
    <2>5. TokensInOrder'
      BY <2>2, <2>3 DEF TableOK, TokensInOrder
    <2>6. ResetsInOrder'
      BY <2>2, <2>3, SMT DEF TableOK, ResetsInOrder, TokenIds
    <2>7. \A r \in TokenIds : tokens'[r].state = "live" => tokens'[r].tries < CodeTries
      BY <2>2, <2>3 DEF TableOK
    <2> QED
      BY <2>4, <2>5, <2>6, <2>7 DEF TableOK
  <1> QED
    BY <1>1, <1>2

\* Every step keeps the table in order.
LEMMA TableStep ==
    ASSUME TableOK, StateOK, [Next]_vars
    PROVE  TableOK'
  <1> DEFINE Quiet == UNCHANGED <<tokens, issued, lastReset, scope>>
  <1>0. ASSUME Quiet PROVE TableOK'
    BY <1>0 DEF TableOK, TokensInOrder, ResetsInOrder
  <1>1. ASSUME NEW t \in TokenIds, tokens[t].state = "live"
        PROVE  /\ Consumed(tokens, t) \in [TokenIds -> Token]
               /\ \A r \in TokenIds : Consumed(tokens, t)[r] = tokens[r]
                                     \/ (tokens[r].state = "live" /\ Consumed(tokens, t)[r] = Dead(tokens[r]))
    BY <1>1, DeadToken DEF TableOK, Consumed
  <1>2. Room => Fresh \in 1 .. MaxTokens
    BY Constants, SMT DEF TableOK, Room, Fresh
  <1>3. tokens \in [TokenIds -> Token] /\ 0 \in 0 .. MaxTokens
    BY Constants, SMT DEF TableOK
  <1>4. CASE NewSetupToken
    BY <1>3, <1>4, IssuingKeeps DEF NewSetupToken
  <1>5. CASE NewResetToken
    <2> DEFINE table == [t \in TokenIds |-> IF Usable(t, "reset") THEN Dead(tokens[t]) ELSE tokens[t]]
    <2>1. /\ table \in [TokenIds -> Token]
          /\ \A r \in TokenIds : table[r] = tokens[r] \/ (tokens[r].state = "live" /\ table[r] = Dead(tokens[r]))
      BY <1>3, DeadToken DEF Usable
    <2>2. Issue(table, "reset", 0, "none", 0) /\ lastReset' = Fresh /\ scope' = scope
      BY <1>5 DEF NewResetToken
    <2> HIDE DEF table
    <2> QED
      BY <1>3, <2>1, <2>2, IssuingKeeps
  <1>6. ASSUME NEW l \in Logins, BeginPending(l) \/ BeginUpgrade(l) PROVE TableOK'
    <2>1. login[l].hash \in 0 .. MaxTokens
      BY DEF StateOK, Login
    <2>2. CASE BeginPending(l)
      BY <1>3, <2>1, <2>2, IssuingKeeps DEF BeginPending, Checked
    <2>3. CASE BeginUpgrade(l)
      BY <1>3, <2>1, <2>3, IssuingKeeps DEF BeginUpgrade, Checked, Enrols
    <2> QED
      BY <1>6, <2>2, <2>3
  <1>7. ASSUME NEW t \in TokenIds, BeginEnrolment(t) \/ BeginReset(t) PROVE TableOK'
    <2>1. t \in 0 .. MaxTokens /\ tokens[t].state = "live" /\ Fresh \in 0 .. MaxTokens
      BY <1>2, <1>7, Constants, SMT DEF TokenIds, BeginEnrolment, BeginReset, Usable, Issue
    <2>2. CASE BeginEnrolment(t)
      BY <1>1, <2>1, <2>2, IssuingKeeps DEF BeginEnrolment
    <2>3. CASE BeginReset(t)
      BY <1>1, <2>1, <2>3, IssuingKeeps DEF BeginReset
    <2> QED
      BY <1>7, <2>2, <2>3
  <1>8. ASSUME NEW t \in TokenIds,
               Expire(t) \/ Abandon(t) \/ Setup(t) \/ WrongEnrolmentCode(t) \/ WrongCode(t)
        PROVE  TableOK'
    BY <1>8, SpendingKeeps DEF Expire, Abandon, Setup, WrongEnrolmentCode, WrongCode, Usable
  <1>9. ASSUME NEW t \in TokenIds, NEW c \in 0 .. MaxStep + 1, ConfirmPending(t, c) PROVE TableOK'
    BY <1>9, SpendingKeeps DEF ConfirmPending, Usable
  <1>10. ASSUME NEW t \in TokenIds, NEW c \in 0 .. MaxStep + 1, ConfirmEnrolment(t, c) PROVE TableOK'
    <2>1. UNCHANGED <<issued, lastReset, scope>> /\ Usable(t, "enrol")
      BY <1>10 DEF ConfirmEnrolment
    <2>2. CASE Applies(t)
      BY <1>10, <2>1, <2>2, ApplyingKeeps DEF ConfirmEnrolment
    <2>3. CASE ~Applies(t)
      BY <1>10, <2>1, <2>3, SpendingKeeps DEF ConfirmEnrolment, Usable
    <2> QED
      BY <2>2, <2>3
  <1>11. CASE ChangeAccess
    BY <1>11, Constants, SMT DEF ChangeAccess, TableOK, TokensInOrder, ResetsInOrder
  <1>12. CASE Unlock \/ NextStep \/ SetMaintenance \/ UNCHANGED vars
    BY <1>0, <1>12 DEF Unlock, NextStep, SetMaintenance, vars
  <1>13. ASSUME NEW s \in sessions, SessionEnds(s) PROVE TableOK'
    BY <1>0, <1>13 DEF SessionEnds
  <1>14. ASSUME NEW l \in Logins, LoginPassword(l) \/ LoginFactor(l) \/ AddSession(l) PROVE TableOK'
    BY <1>0, <1>14 DEF LoginPassword, LoginFactor, AddSession, Checked
  <1> QED
    BY <1>4, <1>5, <1>6, <1>7, <1>8, <1>9, <1>10, <1>11, <1>12, <1>13, <1>14 DEF Next

(***************************************************************************)
(* The failure counter: ConfirmPending counts up and locks code entry when *)
(* the count is a multiple of the limit.                                   *)
(***************************************************************************)
\* The remainder is the only one in range.
LEMMA Remainder ==
    ASSUME NEW n \in Nat \ {0}, NEW a \in Nat, NEW r \in 0 .. n - 1, a = r \/ a = n + r \/ a = 2 * n + r
    PROVE  a % n = r
  BY SMT

LEMMA Counting ==
    ASSUME NEW f \in 0 .. 2 * LockEvery - 1
    PROVE  /\ (f + 1) % (2 * LockEvery) = (IF f + 1 = 2 * LockEvery THEN 0 ELSE f + 1)
           /\ (f + 1) % LockEvery = 0 <=> f + 1 = LockEvery \/ f + 1 = 2 * LockEvery
  <1> USE Constants
  <1>1. (f + 1) % (2 * LockEvery) = (IF f + 1 = 2 * LockEvery THEN 0 ELSE f + 1)
    BY Remainder, SMT
  <1>2. (f + 1) % LockEvery =
          (IF f + 1 < LockEvery THEN f + 1 ELSE IF f + 1 < 2 * LockEvery THEN f + 1 - LockEvery ELSE 0)
    BY Remainder, SMT
  <1> QED
    BY <1>1, <1>2, SMT

(***************************************************************************)
(* The administrator, the sign-ins and the clock.                          *)
(***************************************************************************)
\* An administrator row with its fields in range.
LEMMA AdminRow ==
    ASSUME NEW p \in 0 .. MaxTokens, NEW f \in 0 .. MaxTokens, NEW c \in 0 .. MaxStep + 1,
           NEW n \in 0 .. 2 * LockEvery - 1, NEW x \in BOOLEAN
    PROVE  [exists |-> x, pass |-> p, factor |-> f, last |-> c, failures |-> n] \in Admin
  BY DEF Admin

\* Every step keeps the types; nobody has a password or a factor before setup.
LEMMA StateStep ==
    ASSUME TableOK, StateOK, [Next]_vars
    PROVE  StateOK'
  <1> USE Constants
  <1>1. ASSUME NEW p \in 0 .. MaxTokens, NEW f \in 0 .. MaxTokens, NEW old, old \subseteq Session
        PROVE  WithSession(old, p, f) \subseteq Session
    BY <1>1, SMT DEF WithSession, Session, TableOK
  <1>2. ASSUME UNCHANGED <<admin, sessions, maint, locked, step, login, wrongRun>> PROVE StateOK'
    BY <1>2 DEF StateOK
  <1>3. NoLogin \in Login /\ NoAdmin \in Admin
    BY SMT DEF NoLogin, Login, NoAdmin, Admin
  <1>0. 0 \in 0 .. 2 * LockEvery - 1 /\ 0 \in 0 .. MaxStep + 1 /\ 0 \in 0 .. MaxTokens
    BY SMT
  <1>4. CASE NewSetupToken \/ NewResetToken \/ UNCHANGED vars
    BY <1>2, <1>4 DEF NewSetupToken, NewResetToken, vars
  <1>5. ASSUME NEW t \in TokenIds, Expire(t) \/ Abandon(t) \/ BeginEnrolment(t) \/ BeginReset(t) \/ WrongEnrolmentCode(t)
        PROVE  StateOK'
    BY <1>2, <1>5 DEF Expire, Abandon, BeginEnrolment, BeginReset, WrongEnrolmentCode
  <1>6. CASE Unlock \/ NextStep \/ SetMaintenance
    <2>1. CASE Unlock
      BY <2>1 DEF Unlock, StateOK
    <2>2. CASE NextStep
      BY <2>2, SMT DEF NextStep, StateOK
    <2>3. CASE SetMaintenance
      BY <2>3 DEF SetMaintenance, StateOK
    <2> QED
      BY <1>6, <2>1, <2>2, <2>3
  <1>7. CASE ChangeAccess
    BY <1>3, <1>7 DEF ChangeAccess, StateOK
  <1>8. ASSUME NEW s \in sessions, SessionEnds(s) PROVE StateOK'
    BY <1>8 DEF SessionEnds, StateOK
  <1>9. ASSUME NEW l \in Logins, LoginPassword(l) \/ LoginFactor(l) PROVE StateOK'
    <2>1. admin.pass \in 0 .. MaxTokens /\ login[l] \in Login
      BY DEF StateOK, Admin
    <2>2. login' \in [Logins -> Login]
      <3>1. CASE LoginPassword(l)
        <4>1. [at |-> "verified", hash |-> admin.pass, enrolled |-> FALSE] \in Login
          BY <2>1 DEF Login
        <4> QED
          BY <3>1, <4>1 DEF LoginPassword, StateOK
      <3>2. CASE LoginFactor(l)
        <4>1. [login[l] EXCEPT !.at = "checked", !.enrolled = admin.factor # 0] \in Login
          BY <2>1 DEF Login
        <4> QED
          BY <1>3, <3>2, <4>1 DEF LoginFactor, StateOK
      <3> QED
        BY <1>9, <3>1, <3>2
    <2> QED
      BY <1>9, <2>2 DEF LoginPassword, LoginFactor, StateOK
  <1>10. ASSUME NEW l \in Logins, BeginPending(l) \/ BeginUpgrade(l) \/ AddSession(l) PROVE StateOK'
    <2>1. login[l].hash \in 0 .. MaxTokens /\ 0 \in 0 .. MaxTokens /\ login' \in [Logins -> Login]
      BY <1>3, <1>10, SMT DEF BeginPending, BeginUpgrade, AddSession, Checked, StateOK, Login
    <2>2. sessions' \subseteq Session
      <3>1. sessions' = sessions \/ sessions' = WithSession(sessions, login[l].hash, 0)
        BY <1>10 DEF BeginPending, BeginUpgrade, AddSession
      <3>2. sessions \subseteq Session
        BY DEF StateOK
      <3> QED
        BY <1>1, <2>1, <3>1, <3>2, SMT
    <2> QED
      BY <1>10, <2>1, <2>2 DEF BeginPending, BeginUpgrade, AddSession, Checked, StateOK
  <1>11. ASSUME NEW t \in TokenIds, Setup(t) PROVE StateOK'
    <2>1. t \in 0 .. MaxTokens /\ t # 0 /\ 0 \in 0 .. MaxTokens
      BY SMT DEF TokenIds
    <2>2. admin' = [exists |-> TRUE, pass |-> t, factor |-> 0, last |-> 0, failures |-> 0]
      BY <1>11 DEF Setup, NoAdmin
    <2>3. admin' \in Admin /\ admin'.exists
      BY <1>0, <2>1, <2>2, AdminRow
    <2>4. sessions' \subseteq Session
      BY <1>1, <1>11, <2>1 DEF Setup, StateOK
    <2> QED
      BY <1>11, <2>3, <2>4 DEF Setup, StateOK
  <1>12. ASSUME NEW t \in TokenIds, NEW c \in 0 .. MaxStep + 1, ConfirmEnrolment(t, c) PROVE StateOK'
    <2>1. t \in 0 .. MaxTokens /\ tokens[t].pass \in 0 .. MaxTokens
      BY SMT DEF TokenIds, TableOK, Token
    <2>2. CASE ~Applies(t)
      BY <1>2, <1>12, <2>2 DEF ConfirmEnrolment
    <2>3. CASE Applies(t)
      <3>1. /\ admin' = [exists |-> TRUE, pass |-> tokens[t].pass, factor |-> t, last |-> c, failures |-> 0]
            /\ locked' = FALSE /\ wrongRun' = 0 /\ UNCHANGED <<maint, step, login>>
            /\ sessions' = WithSession(SessionsLeft(t), tokens[t].pass, t)
        BY <1>12, <2>3 DEF ConfirmEnrolment, Accepted
      <3>2. admin' \in Admin /\ admin'.exists
        BY <1>0, <2>1, <3>1, AdminRow
      <3>3. sessions' \subseteq Session
        BY <1>1, <2>1, <3>1 DEF SessionsLeft, StateOK
      <3>4. locked' \in BOOLEAN /\ wrongRun' \in Nat
        BY <3>1
      <3> QED
        BY <3>1, <3>2, <3>3, <3>4 DEF StateOK
    <2> QED
      BY <2>2, <2>3
  <1>13. ASSUME NEW t \in TokenIds, NEW c \in 0 .. MaxStep + 1, ConfirmPending(t, c) PROVE StateOK'
    <2>1. CASE UNCHANGED <<admin, sessions, wrongRun>>
      BY <1>2, <1>13, <2>1 DEF ConfirmPending
    <2>2. CASE /\ admin' = [admin EXCEPT !.last = c, !.failures = 0] /\ wrongRun' = 0
               /\ sessions' = WithSession(sessions, admin.pass, admin.factor)
      <3>1. admin' \in Admin /\ admin'.exists = admin.exists /\ admin'.pass = admin.pass /\ admin'.factor = admin.factor
        BY <1>0, <2>2 DEF StateOK, Admin
      <3>2. sessions' \subseteq Session
        BY <1>1, <2>2 DEF StateOK, Admin
      <3> QED
        BY <1>13, <2>2, <3>1, <3>2 DEF ConfirmPending, StateOK
    <2> QED
      BY <1>13, <2>1, <2>2 DEF ConfirmPending
  <1>14. ASSUME NEW t \in TokenIds, WrongCode(t) PROVE StateOK'
    <2>1. (admin.failures + 1) % (2 * LockEvery) \in 0 .. 2 * LockEvery - 1
      BY Counting, SMT DEF StateOK, Admin
    <2>2. admin' \in Admin /\ admin'.exists
      BY <1>14, <2>1 DEF WrongCode, StateOK, Admin
    <2>3. locked' \in BOOLEAN
      BY <1>14 DEF WrongCode, Locks
    <2> QED
      BY <1>14, <2>2, <2>3, SMT DEF WrongCode, StateOK
  <1> QED
    BY <1>4, <1>5, <1>6, <1>7, <1>8, <1>9, <1>10, <1>11, <1>12, <1>13, <1>14 DEF Next

\* A sign-in is under way only once there is an administrator, who stays.
LEMMA SignInStep ==
    ASSUME StateOK, SignInsInOrder, [Next]_vars
    PROVE  SignInsInOrder'
  <1>1. ASSUME admin.exists => admin'.exists, UNCHANGED login PROVE SignInsInOrder'
    BY <1>1 DEF SignInsInOrder
  <1>2. CASE NewSetupToken \/ NewResetToken \/ Unlock \/ NextStep \/ SetMaintenance \/ UNCHANGED vars
    BY <1>1, <1>2 DEF NewSetupToken, NewResetToken, Unlock, NextStep, SetMaintenance, vars
  <1>3. ASSUME NEW t \in TokenIds, Expire(t) \/ Abandon(t) \/ BeginEnrolment(t) \/ BeginReset(t) \/ WrongEnrolmentCode(t)
        PROVE  SignInsInOrder'
    BY <1>1, <1>3 DEF Expire, Abandon, BeginEnrolment, BeginReset, WrongEnrolmentCode
  <1>4. ASSUME NEW s \in sessions, SessionEnds(s) PROVE SignInsInOrder'
    BY <1>1, <1>4 DEF SessionEnds
  <1>5. CASE ChangeAccess
    BY <1>5 DEF ChangeAccess, SignInsInOrder, NoLogin
  <1>6. ASSUME NEW l \in Logins, LoginPassword(l) PROVE SignInsInOrder'
    BY <1>6 DEF LoginPassword, SignInsInOrder, StateOK
  <1>7. ASSUME NEW l \in Logins, LoginFactor(l) PROVE SignInsInOrder'
    BY <1>7 DEF LoginFactor, SignInsInOrder, StateOK
  <1>8. ASSUME NEW l \in Logins, BeginPending(l) \/ BeginUpgrade(l) \/ AddSession(l) PROVE SignInsInOrder'
    BY <1>8 DEF BeginPending, BeginUpgrade, AddSession, Checked, SignInsInOrder, StateOK, NoLogin
  <1>9. ASSUME NEW t \in TokenIds, Setup(t) PROVE SignInsInOrder'
    BY <1>1, <1>9 DEF Setup
  <1>10. ASSUME NEW t \in TokenIds, WrongCode(t) PROVE SignInsInOrder'
    <2>1. admin'.exists = admin.exists
      BY <1>10 DEF WrongCode, StateOK, Admin
    <2> QED
      BY <1>1, <1>10, <2>1 DEF WrongCode
  <1>11. ASSUME NEW t \in TokenIds, NEW c \in 0 .. MaxStep + 1, ConfirmEnrolment(t, c) PROVE SignInsInOrder'
    <2>1. UNCHANGED login /\ (UNCHANGED admin \/ admin' = Accepted(t, c))
      BY <1>11 DEF ConfirmEnrolment
    <2>2. Accepted(t, c).exists
      BY DEF Accepted
    <2> QED
      BY <1>1, <2>1, <2>2
  <1>12. ASSUME NEW t \in TokenIds, NEW c \in 0 .. MaxStep + 1, ConfirmPending(t, c) PROVE SignInsInOrder'
    <2>1. UNCHANGED login /\ (UNCHANGED admin \/ admin' = [admin EXCEPT !.last = c, !.failures = 0])
      BY <1>12 DEF ConfirmPending
    <2>2. admin'.exists = admin.exists
      BY <2>1 DEF StateOK, Admin
    <2> QED
      BY <1>1, <2>1, <2>2
  <1> QED
    BY <1>2, <1>3, <1>4, <1>5, <1>6, <1>7, <1>8, <1>9, <1>10, <1>11, <1>12 DEF Next

(***************************************************************************)
(* Sessions.                                                               *)
(***************************************************************************)
\* Sessions may end while the credentials stay.
LEMMA SessionsStay ==
    ASSUME SessionsInOrder, sessions' \subseteq sessions, scope' = scope, admin'.exists = admin.exists,
           admin'.pass = admin.pass, admin'.factor = admin.factor
    PROVE  SessionsInOrder'
  BY DEF SessionsInOrder, SessionsAreCurrent

\* addSession under the credentials in force, when the sessions left agree with
\* them.
LEMMA SessionAdded ==
    ASSUME TableOK, SessionsInOrder, NEW old, NEW p, NEW f, old \subseteq sessions,
           \A s \in old : s.scope = scope => s.pass = p /\ s.factor = f,
           sessions' = WithSession(old, p, f), scope' = scope,
           admin'.exists, admin'.pass = p, admin'.factor = f, Mode = "https" => f # 0
    PROVE  SessionsInOrder'
  <1> DEFINE new == [pass |-> p, factor |-> f, scope |-> scope]
  <1>1. new.pass = p /\ new.factor = f /\ new.scope = scope /\ scope <= scope
    BY Constants, SMT DEF TableOK
  <1>2. \A s \in sessions' : (s \in old /\ s.scope = scope) \/ s = new
    BY DEF WithSession
  <1> HIDE DEF new
  <1>3. \A s \in sessions' : s.scope = scope /\ s.pass = p /\ s.factor = f
    BY <1>1, <1>2
  <1> QED
    BY <1>1, <1>3 DEF SessionsInOrder, SessionsAreCurrent, Mode

\* Every step keeps the sessions current.
LEMMA SessionStep ==
    ASSUME TableOK, StateOK, SignInsInOrder, SessionsInOrder, [Next]_vars
    PROVE  SessionsInOrder'
  <1> USE Constants
  <1>1. ASSUME UNCHANGED <<admin, sessions, scope>> PROVE SessionsInOrder'
    BY <1>1, SessionsStay
  <1>2. CASE NewSetupToken \/ NewResetToken \/ Unlock \/ NextStep \/ SetMaintenance \/ UNCHANGED vars
    BY <1>1, <1>2 DEF NewSetupToken, NewResetToken, Unlock, NextStep, SetMaintenance, vars
  <1>3. ASSUME NEW t \in TokenIds, Expire(t) \/ Abandon(t) \/ BeginEnrolment(t) \/ BeginReset(t) \/ WrongEnrolmentCode(t)
        PROVE  SessionsInOrder'
    BY <1>1, <1>3 DEF Expire, Abandon, BeginEnrolment, BeginReset, WrongEnrolmentCode
  <1>4. ASSUME NEW l \in Logins, LoginPassword(l) \/ LoginFactor(l) \/ BeginPending(l) \/ BeginUpgrade(l)
        PROVE  SessionsInOrder'
    BY <1>1, <1>4 DEF LoginPassword, LoginFactor, BeginPending, BeginUpgrade, Checked
  <1>5. ASSUME NEW s \in sessions, SessionEnds(s) PROVE SessionsInOrder'
    BY <1>5, SessionsStay DEF SessionEnds
  <1>6. CASE ChangeAccess
    <2>1. \A s \in sessions : s.scope \in 1 .. Len(Modes) /\ s.scope <= scope
      BY DEF StateOK, SessionsInOrder, Session
    <2>2. scope' = scope + 1 /\ scope \in Nat /\ UNCHANGED <<admin, sessions>>
      BY <1>6, SMT DEF ChangeAccess, TableOK
    <2>3. \A s \in sessions : s.scope # scope' /\ s.scope <= scope'
      BY <2>1, <2>2, SMT
    <2> QED
      BY <2>2, <2>3 DEF SessionsInOrder, SessionsAreCurrent
  <1>7. ASSUME NEW t \in TokenIds, Setup(t) PROVE SessionsInOrder'
    <2>1. sessions = {} /\ Mode # "https"
      BY <1>7 DEF Setup, SessionsInOrder
    <2>2. admin'.exists /\ admin'.pass = t /\ admin'.factor = 0 /\ scope' = scope
      BY <1>7 DEF Setup, NoAdmin
    <2> QED
      BY <1>7, <2>1, <2>2, SessionAdded, SMT DEF Setup
  <1>8. ASSUME NEW l \in Logins, AddSession(l) PROVE SessionsInOrder'
    <2>1. UNCHANGED <<admin, scope>> /\ Mode # "https" /\ admin.exists
      BY <1>8 DEF AddSession, Checked, Enrols, SignInsInOrder
    <2>2. CASE ~SessionAllowed(l)
      BY <1>1, <1>8, <2>1, <2>2 DEF AddSession
    <2>3. CASE SessionAllowed(l)
      BY <1>8, <2>1, <2>3, SessionAdded, SMT DEF AddSession, SessionAllowed, StateOK, SessionsInOrder, SessionsAreCurrent
    <2> QED
      BY <2>2, <2>3
  <1>9. ASSUME NEW t \in TokenIds, WrongCode(t) PROVE SessionsInOrder'
    <2>1. admin'.exists = admin.exists /\ admin'.pass = admin.pass /\ admin'.factor = admin.factor
      BY <1>9 DEF WrongCode, StateOK, Admin
    <2> QED
      BY <1>9, <2>1, SessionsStay DEF WrongCode
  <1>10. ASSUME NEW t \in TokenIds, NEW c \in 0 .. MaxStep + 1, ConfirmPending(t, c) PROVE SessionsInOrder'
    <2>1. CASE UNCHANGED <<admin, sessions>>
      BY <1>1, <1>10, <2>1 DEF ConfirmPending
    <2>2. CASE /\ admin' = [admin EXCEPT !.last = c, !.failures = 0] /\ StepCounts(t)
               /\ sessions' = WithSession(sessions, admin.pass, admin.factor)
      <3>1. admin'.exists = admin.exists /\ admin'.pass = admin.pass /\ admin'.factor = admin.factor
        BY <2>2 DEF StateOK, Admin
      <3>2. admin.exists /\ scope' = scope /\ admin.factor # 0
        BY <1>10, <2>2 DEF ConfirmPending, StepCounts
      <3> QED
        BY <2>2, <3>1, <3>2, SessionAdded, SMT DEF SessionsInOrder, SessionsAreCurrent
    <2> QED
      BY <1>10, <2>1, <2>2 DEF ConfirmPending
  <1>11. ASSUME NEW t \in TokenIds, NEW c \in 0 .. MaxStep + 1, ConfirmEnrolment(t, c) PROVE SessionsInOrder'
    <2>1. CASE ~Applies(t)
      BY <1>1, <1>11, <2>1 DEF ConfirmEnrolment
    <2>2. CASE Applies(t)
      <3>1. /\ admin' = [exists |-> TRUE, pass |-> tokens[t].pass, factor |-> t, last |-> c, failures |-> 0]
            /\ sessions' = WithSession(SessionsLeft(t), tokens[t].pass, t) /\ scope' = scope
            /\ tokens[t].purpose = "enrol" /\ tokens[t].scope = scope /\ t # 0
        BY <1>11, <2>2, SMT DEF ConfirmEnrolment, Accepted, Usable, Applies, TokenIds
      <3>2. admin'.exists /\ admin'.pass = tokens[t].pass /\ admin'.factor = t
        BY <3>1
      <3>3. \A s \in SessionsLeft(t) : s.scope # scope
        <4>1. CASE tokens[t].kind = "reset"
          BY <4>1 DEF SessionsLeft
        <4>2. CASE tokens[t].kind = "setup"
          BY <2>2, <4>2 DEF SessionsLeft, Applies, SessionsInOrder
        <4>3. CASE tokens[t].kind = "upgrade"
          <5>1. Modes[scope] = "https" /\ admin.factor = 0
            BY <2>2, <3>1, <4>3 DEF Applies, TableOK, TokensInOrder
          <5> QED
            BY <4>3, <5>1 DEF SessionsLeft, SessionsInOrder, SessionsAreCurrent
        <4>4. tokens[t].kind \in {"setup", "reset", "upgrade"}
          BY <3>1 DEF TableOK, Token, TokensInOrder
        <4> QED
          BY <4>1, <4>2, <4>3, <4>4
      <3>4. SessionsLeft(t) \subseteq sessions
        BY DEF SessionsLeft
      <3> QED
        BY <3>1, <3>2, <3>3, <3>4, SessionAdded, SMT
    <2> QED
      BY <2>1, <2>2
  <1> QED
    BY <1>2, <1>3, <1>4, <1>5, <1>6, <1>7, <1>8, <1>9, <1>10, <1>11 DEF Next

(***************************************************************************)
(* Wrong codes.                                                            *)
(***************************************************************************)
\* Every step keeps the counter in order: five wrong codes in a row, however
\* many sign-ins they come from, meet a lockout.
LEMMA CodeStep ==
    ASSUME StateOK, CodesInOrder, [Next]_vars
    PROVE  CodesInOrder'
  <1> USE Constants
  <1>0. admin.failures \in 0 .. 2 * LockEvery - 1 /\ wrongRun \in Nat
    BY DEF StateOK, Admin
  <1>1. ASSUME UNCHANGED <<admin, locked, wrongRun>> PROVE CodesInOrder'
    BY <1>1 DEF CodesInOrder, SinceLock
  <1>2. ASSUME admin'.exists, admin'.failures = 0, wrongRun' = 0 PROVE CodesInOrder'
    BY <1>2, SMT DEF CodesInOrder, SinceLock
  <1>3. CASE NewSetupToken \/ NewResetToken \/ NextStep \/ ChangeAccess \/ SetMaintenance \/ UNCHANGED vars
    BY <1>1, <1>3 DEF NewSetupToken, NewResetToken, NextStep, ChangeAccess, SetMaintenance, vars
  <1>4. ASSUME NEW t \in TokenIds, Expire(t) \/ Abandon(t) \/ BeginEnrolment(t) \/ BeginReset(t) \/ WrongEnrolmentCode(t)
        PROVE  CodesInOrder'
    BY <1>1, <1>4 DEF Expire, Abandon, BeginEnrolment, BeginReset, WrongEnrolmentCode
  <1>5. ASSUME NEW s \in sessions, SessionEnds(s) PROVE CodesInOrder'
    BY <1>1, <1>5 DEF SessionEnds
  <1>6. ASSUME NEW l \in Logins,
               LoginPassword(l) \/ LoginFactor(l) \/ BeginPending(l) \/ BeginUpgrade(l) \/ AddSession(l)
        PROVE  CodesInOrder'
    BY <1>1, <1>6 DEF LoginPassword, LoginFactor, BeginPending, BeginUpgrade, AddSession, Checked
  <1>7. CASE Unlock
    BY <1>0, <1>7, SMT DEF Unlock, CodesInOrder, SinceLock
  <1>8. ASSUME NEW t \in TokenIds, Setup(t) PROVE CodesInOrder'
    <2>1. wrongRun' = 0
      BY <1>8 DEF Setup, CodesInOrder
    <2>2. admin'.exists /\ admin'.failures = 0
      BY <1>8 DEF Setup, NoAdmin
    <2> QED
      BY <1>2, <2>1, <2>2
  <1>9. ASSUME NEW t \in TokenIds, NEW c \in 0 .. MaxStep + 1, ConfirmEnrolment(t, c) PROVE CodesInOrder'
    <2>1. Accepted(t, c).exists /\ Accepted(t, c).failures = 0
      BY DEF Accepted
    <2> QED
      BY <1>1, <1>2, <1>9, <2>1 DEF ConfirmEnrolment
  <1>10. ASSUME NEW t \in TokenIds, NEW c \in 0 .. MaxStep + 1, ConfirmPending(t, c) PROVE CodesInOrder'
    <2>1. CASE UNCHANGED <<admin, wrongRun>>
      BY <1>1, <1>10, <2>1 DEF ConfirmPending
    <2>2. CASE admin' = [admin EXCEPT !.last = c, !.failures = 0] /\ wrongRun' = 0
      <3>1. admin'.exists = admin.exists /\ admin'.failures = 0 /\ admin.exists
        BY <1>10, <2>2 DEF ConfirmPending, StateOK, Admin
      <3> QED
        BY <1>2, <2>2, <3>1
    <2> QED
      BY <1>10, <2>1, <2>2 DEF ConfirmPending
  <1>11. ASSUME NEW t \in TokenIds, WrongCode(t) PROVE CodesInOrder'
    <2>1. /\ admin'.exists = admin.exists /\ admin.exists
          /\ admin'.failures = (admin.failures + 1) % (2 * LockEvery)
      BY <1>11 DEF WrongCode, StateOK, Admin
    <2>2. ~locked /\ wrongRun' = wrongRun + 1 /\ (locked' <=> (admin.failures + 1) % LockEvery = 0)
      BY <1>11 DEF WrongCode, Locks
    <2>3. wrongRun <= SinceLock
      BY <2>2 DEF CodesInOrder
    <2>4. CASE admin.failures + 1 = LockEvery
      <3>1. admin'.failures = LockEvery /\ locked'
        BY <1>0, <2>1, <2>2, <2>4, Counting, SMT
      <3>2. SinceLock' = 0 /\ wrongRun' <= LockEvery
        BY <1>0, <2>2, <2>3, <2>4, <3>1, SMT DEF SinceLock
      <3> QED
        BY <2>1, <3>1, <3>2 DEF CodesInOrder
    <2>5. CASE admin.failures + 1 = 2 * LockEvery
      <3>1. admin'.failures = 0 /\ locked'
        BY <1>0, <2>1, <2>2, <2>5, Counting, SMT
      <3>2. SinceLock' = 0 /\ wrongRun' <= LockEvery
        BY <1>0, <2>2, <2>3, <2>5, <3>1, SMT DEF SinceLock
      <3> QED
        BY <2>1, <3>1, <3>2 DEF CodesInOrder
    <2>6. CASE admin.failures + 1 # LockEvery /\ admin.failures + 1 # 2 * LockEvery
      <3>1. admin'.failures = admin.failures + 1 /\ ~locked'
        BY <1>0, <2>1, <2>2, <2>6, Counting
      <3>2. SinceLock' = SinceLock + 1
        BY <1>0, <2>6, <3>1, SMT DEF SinceLock
      <3>3. SinceLock \in Nat
        BY <1>0, SMT DEF SinceLock
      <3> QED
        BY <1>0, <2>1, <2>2, <2>3, <3>1, <3>2, <3>3, SMT DEF CodesInOrder
    <2> QED
      BY <2>4, <2>5, <2>6
  <1> QED
    BY <1>3, <1>4, <1>5, <1>6, <1>7, <1>8, <1>9, <1>10, <1>11 DEF Next

(***************************************************************************)
(* The theorems.                                                           *)
(***************************************************************************)
LEMMA AuthInit == Init => AuthInvariant
  <1> SUFFICES ASSUME Init PROVE AuthInvariant
    OBVIOUS
  <1> USE Constants DEF Init
  <1>1. TableOK
    BY SMT DEF TableOK, TokensInOrder, ResetsInOrder, NoToken, Token, TokenIds
  <1>2. StateOK
    <2>1. NoAdmin \in Admin /\ NoLogin \in Login
      BY SMT DEF NoAdmin, Admin, NoLogin, Login
    <2>2. maint \in BOOLEAN /\ locked \in BOOLEAN
      OBVIOUS
    <2> QED
      BY <2>1, <2>2, SMT DEF StateOK, NoAdmin
  <1>3. SignInsInOrder /\ SessionsInOrder
    BY DEF SignInsInOrder, SessionsInOrder, SessionsAreCurrent, NoLogin
  <1>4. CodesInOrder
    BY SMT DEF CodesInOrder, SinceLock, NoAdmin
  <1> QED
    BY <1>1, <1>2, <1>3, <1>4, InvariantParts

\* The invariant is inductive: every transaction of the store, and every change
\* around them, preserves it.
THEOREM AuthStep == AuthInvariant /\ [Next]_vars => AuthInvariant'
  <1> SUFFICES ASSUME AuthInvariant, [Next]_vars PROVE AuthInvariant'
    OBVIOUS
  <1>1. TableOK /\ StateOK /\ SignInsInOrder /\ SessionsInOrder /\ CodesInOrder
    BY InvariantParts
  <1>2. TableOK' /\ StateOK' /\ SignInsInOrder' /\ SessionsInOrder' /\ CodesInOrder'
    BY <1>1, TableStep, StateStep, SignInStep, SessionStep, CodeStep
  <1> QED
    BY <1>2, InvariantParts, PTL

\* No interleaving of sign-ins with resets, upgrades, mode changes and updates
\* leaves a session of replaced credentials, or one of an HTTPS scope without a
\* factor, for any number of sign-ins, tokens and access modes.
THEOREM SessionsStayCurrent == Spec => []SessionsAreCurrent
  <1>1. AuthInvariant => SessionsAreCurrent
    BY DEF AuthInvariant, SessionsInOrder
  <1> QED
    BY <1>1, AuthInit, AuthStep, PTL DEF Spec

\* Between two lockouts no more wrong codes are checked than the limit, for any
\* limit and however they are spread over sign-ins.
THEOREM CodesLock == Spec => []WrongCodesLock
  <1>1. AuthInvariant => WrongCodesLock
    BY Constants, SMT DEF AuthInvariant, TypeOK, CodesInOrder, SinceLock, WrongCodesLock
  <1> QED
    BY <1>1, AuthInit, AuthStep, PTL DEF Spec

\* A reset takes effect only outside updates and only if no newer one was issued
\* meanwhile, also when its enrolment had begun before.
THEOREM NewestResetOnly == Spec => OnlyNewestResetApplies
  <1> DEFINE Newest == \A t \in TokenIds : tokens[t].kind = "reset" /\ admin'.factor = t /\ admin.factor # t
                         => ~maint /\ tokens[t].parent = lastReset
  <1>1. ASSUME AuthInvariant, [Next]_vars PROVE Newest
    <2> SUFFICES ASSUME NEW t \in TokenIds, tokens[t].kind = "reset", admin'.factor = t, admin.factor # t
                 PROVE  ~maint /\ tokens[t].parent = lastReset
      OBVIOUS
    <2>1. TableOK /\ StateOK
      BY <1>1, InvariantParts
    <2>2. ~ UNCHANGED admin
      OBVIOUS
    <2>3. ASSUME NEW u \in TokenIds, Setup(u) PROVE FALSE
      BY <2>3, SMT DEF Setup, NoAdmin, TokenIds
    <2>4. ASSUME NEW u \in TokenIds, WrongCode(u) PROVE FALSE
      BY <2>1, <2>4 DEF WrongCode, StateOK, Admin
    <2>5. ASSUME NEW u \in TokenIds, NEW c \in 0 .. MaxStep + 1, ConfirmPending(u, c) PROVE FALSE
      <3>1. admin' = [admin EXCEPT !.last = c, !.failures = 0]
        BY <2>2, <2>5 DEF ConfirmPending
      <3> QED
        BY <2>1, <3>1 DEF StateOK, Admin
    <2>6. ASSUME NEW u \in TokenIds, NEW c \in 0 .. MaxStep + 1, ConfirmEnrolment(u, c)
          PROVE  ~maint /\ tokens[t].parent = lastReset
      <3>1. Applies(u) /\ admin' = Accepted(u, c)
        BY <2>2, <2>6 DEF ConfirmEnrolment
      <3>2. u = t
        BY <3>1 DEF Accepted
      <3> QED
        BY <2>1, <2>6, <3>1, <3>2, NewestIsLast DEF ConfirmEnrolment, Applies
    <2>7. \/ \E u \in TokenIds : Setup(u) \/ WrongCode(u)
          \/ \E u \in TokenIds, c \in 0 .. MaxStep + 1 : ConfirmEnrolment(u, c) \/ ConfirmPending(u, c)
      BY <1>1, <2>2 DEF Next, vars, NewSetupToken, NewResetToken, Unlock, NextStep, ChangeAccess, SetMaintenance,
         SessionEnds, LoginPassword, LoginFactor, BeginPending, BeginUpgrade, AddSession, Checked,
         Expire, Abandon, BeginEnrolment, BeginReset, WrongEnrolmentCode
    <2> QED
      BY <2>3, <2>4, <2>5, <2>6, <2>7
  <1> QED
    BY <1>1, AuthInit, AuthStep, PTL DEF Spec, OnlyNewestResetApplies


(***************************************************************************)
(* Alerts.                                                                 *)
(***************************************************************************)
Sent == {"", "firing", "resolved"}
Rows == [known : BOOLEAN, active : BOOLEAN, clear : Int, fired : Int, sent : Sent]
Records == [state : {"none", "queued", "sent", "dropped"}, at : Int]

AlertShapes ==
    /\ now \in Nat /\ row \in [Conditions -> Rows] /\ event \in [Events -> Records]
    /\ clearRun \in [Conditions -> Int] /\ told \in [Conditions -> Nat \cup {Null}]
    /\ passAt \in Int /\ updates \in Nat /\ outages \in Nat

\* What the counters remember.
Disturbed == updates # 0 \/ outages # 0
Counted ==
    /\ updating \/ paused => updates # 0
    /\ pc = "down" => outages # 0 /\ ~clean

\* Undisturbed, every minute has its pass.
EveryMinute ==
    ~Disturbed => /\ passAt = now - 1 \/ passAt = now
                  /\ pc \in {"evaluate", "record", "send"} => passAt = now - 1

\* A condition that waits for its resolved message has been seen clear in every
\* minute since, or its wait began with the last look.
LastLook == IF pc \in {"record", "send"} THEN now ELSE passAt
Waiting(c) == row[c].sent = "firing" /\ ~row[c].active
Watched ==
    /\ \A c \in Conditions : clearRun[c] <= now
    /\ ~Disturbed => \A c \in Conditions : Waiting(c) =>
         /\ row[c].clear <= LastLook
         /\ clearRun[c] = Null => row[c].clear = LastLook
         /\ clearRun[c] <= row[c].clear + 1

\* The messages left still belong to what is recorded, and go to the webhook
\* that is configured.
Sending ==
    pc = "send" => /\ to = receiver
                   /\ \A c \in Conditions :
                        /\ <<c, "firing">> \in todo => row[c].active
                        /\ <<c, "resolved">> \in todo => Waiting(c) /\ row[c].clear <= now - AlertClearAfter

Remembered ==
    /\ \A c \in owed : c \in Conditions /\ row[c].active /\ row[c].fired = Null
    /\ \A c \in Conditions : /\ told[c] = Null \/ told[c] >= row[c].fired
                             /\ row[c].fired <= now
                             /\ row[c].active \/ row[c].sent = "firing" => row[c].known
    /\ pc \in {"record", "send"} =>
         \A e \in Events : event[e].state = "queued" => event[e].at >= now - AlertEventMaxAge

\* In a clean pass, what the receiver does not know is still to be sent.
LastTold(c) == IF told[c] = Null THEN row[c].fired ELSE told[c]
Informed(c) == row[c].active => LastTold(c) # Null /\ now - LastTold(c) < AlertRepeat
Resolved(c) == Waiting(c) => now - row[c].clear < AlertClearAfter
Reported(e) == event[e].state = "queued" => event[e].at = now
Delivering ==
    clean /\ pc = "send" =>
        /\ \A c \in Conditions : /\ <<c, "firing">> \notin todo => c \notin owed /\ Informed(c)
                                 /\ <<c, "resolved">> \notin todo => Resolved(c)
        /\ \A e \in Events : <<e, "event">> \notin todo => Reported(e)
Delivered ==
    CleanPass => /\ owed = {}
                 /\ \A c \in Conditions : Informed(c) /\ Resolved(c)
                 /\ \A e \in Events : Reported(e)

AlertInvariant ==
    AlertShapes /\ Counted /\ EveryMinute /\ Watched /\ Sending /\ Remembered /\ Delivering /\ Delivered

LEMMA AlertTimes ==
    /\ PostgresGrace \in Nat \ {0} /\ AlertClearAfter \in Nat \ {0} /\ AlertRepeat \in Nat \ {0}
    /\ AlertEventMaxAge \in Nat \ {0} /\ Forget \in Nat \ {0} /\ Null = -1 /\ Null \in Int
  BY AlertAssumption, SMT DEF Null

LEMMA AlertsBegin == AlertsInit => AlertInvariant
  <1> SUFFICES ASSUME AlertsInit PROVE AlertInvariant
    OBVIOUS
  <1>0. NoRow \in Rows /\ NoRow.sent = "" /\ [state |-> "none", at |-> Null] \in Records /\ Null \in Int
    BY AlertTimes DEF NoRow, Rows, Sent, Records
  <1>1. AlertShapes
    <2>1. now \in Nat /\ passAt \in Int /\ updates \in Nat /\ outages \in Nat
      BY SMT DEF AlertsInit
    <2> QED
      BY <1>0, <2>1 DEF AlertsInit, AlertShapes
  <1>2. \A c \in Conditions : row[c].sent # "firing" /\ clearRun[c] = Null /\ told[c] = Null
    BY <1>0 DEF AlertsInit
  <1>3. Watched
    BY <1>1, <1>2, SMT DEF AlertsInit, Watched, Waiting, AlertShapes, Null
  <1>4. EveryMinute
    BY SMT DEF AlertsInit, EveryMinute
  <1>5. \A c \in Conditions : row[c] = NoRow /\ ~row[c].active /\ row[c].fired <= now
    <2>1. \A c \in Conditions : row[c] = NoRow
      BY DEF AlertsInit
    <2>2. ~NoRow.active /\ NoRow.fired = Null
      BY DEF NoRow
    <2>3. Null <= now
      BY SMT DEF AlertsInit, Null
    <2> QED
      BY <2>1, <2>2, <2>3
  <1> QED
    BY <1>1, <1>2, <1>3, <1>4, <1>5
    DEF AlertsInit, AlertInvariant, Counted, Sending, Remembered, Delivering, Delivered, CleanPass

(***************************************************************************)
(* A look at the conditions.                                               *)
(***************************************************************************)
\* What a pass makes of a row: it is not told anew, and it waits for its
\* resolved message from now on or as before, the latter only if it was checked.
Becomes(c, r, active, checked) ==
    /\ r \in Rows /\ r.fired \in {row[c].fired, Null}
    /\ r.active \/ r.sent = "firing" => r.known
    /\ r.sent = "firing" /\ ~r.active =>
         c \notin active /\ (r.clear = now \/ (c \in checked /\ Waiting(c) /\ r.clear = row[c].clear))

LEMMA RowsAfter ==
    ASSUME AlertShapes, Remembered, NEW c \in Conditions, NEW active, NEW checked
    PROVE  Becomes(c, RowAfter(c, active, checked), active, checked)
  <1> DEFINE r == row[c]
             after == RowAfter(c, active, checked)
  <1>0. r \in Rows /\ now \in Int /\ Null \in Int
    BY SMT DEF AlertShapes, Null
  <1>6. r.active \/ r.sent = "firing" => r.known
    BY DEF Remembered
  <1>1. CASE c \in active
    <2>1. after = [r EXCEPT !.known = TRUE, !.active = TRUE, !.clear = Null]
      BY <1>1 DEF RowAfter
    <2>2. after \in Rows /\ after.fired = r.fired /\ after.active /\ after.known
      BY <1>0, <2>1 DEF Rows
    <2> QED
      BY <2>2 DEF Becomes
  <1>2. CASE c \notin active /\ r.active /\ c \in checked
    <2>1. after = [r EXCEPT !.active = FALSE, !.clear = now]
      BY <1>2 DEF RowAfter
    <2>2. after \in Rows /\ after.fired = r.fired /\ after.clear = now /\ after.sent = r.sent
          /\ after.known = r.known
      BY <1>0, <2>1 DEF Rows
    <2> QED
      BY <1>2, <1>6, <2>2 DEF Becomes
  <1>3. CASE c \notin active /\ ~r.active /\ r.sent = "firing" /\ c \notin checked
    <2>1. after = [r EXCEPT !.clear = now]
      BY <1>3 DEF RowAfter
    <2>2. after \in Rows /\ after.fired = r.fired /\ after.clear = now /\ after.sent = r.sent
          /\ after.known = r.known
      BY <1>0, <2>1 DEF Rows
    <2> QED
      BY <1>3, <1>6, <2>2 DEF Becomes
  <1>4. CASE c \notin active /\ after = NoRow
    <2>1. NoRow \in Rows /\ NoRow.fired = Null /\ NoRow.sent = "" /\ ~NoRow.active
      BY <1>0 DEF NoRow, Rows, Sent
    <2> QED
      BY <1>4, <2>1 DEF Becomes
  <1>5. CASE c \notin active /\ after = r /\ ~(r.active /\ c \in checked)
             /\ ~(~r.active /\ r.sent = "firing" /\ c \notin checked)
    <2>1. after \in Rows /\ after.fired = r.fired /\ after.clear = r.clear
          /\ (after.active \/ after.sent = "firing" => after.known)
      BY <1>0, <1>5, <1>6
    <2>2. after.sent = "firing" /\ ~after.active => c \in checked /\ Waiting(c)
      BY <1>5 DEF Waiting
    <2> QED
      BY <1>5, <2>1, <2>2 DEF Becomes
  <1> QED
    BY <1>1, <1>2, <1>3, <1>4, <1>5 DEF RowAfter

\* An observation: the conditions found active and the sources checked.
Observed(active, checked) ==
    /\ \/ /\ row' = [c \in Conditions |-> RowAfter(c, active, checked)]
          /\ event' = [e \in Events |-> DropOld(e)]
          /\ pc' = "record" /\ UNCHANGED <<clean, passAt, updates, outages>>
       \/ /\ outages' = outages + 1 /\ UNCHANGED <<row, event, updates>>
          /\ pc' = "idle" /\ clean' = FALSE /\ passAt' = now
    /\ clearRun' = [c \in Conditions |->
          IF c \in active \/ c \notin checked THEN Null
          ELSE IF clearRun[c] = Null THEN now ELSE clearRun[c]]
    /\ owed' = owed \cap {c \in Conditions : row'[c].active}

LEMMA EvaluateObserves ==
    ASSUME EvaluatePass
    PROVE  \E active, checked : Observed(active, checked)
  <1>1. PICK up, budgetRead, over \in BOOLEAN, looked \in SUBSET Others :
             \E true \in SUBSET looked : Evaluate(up, budgetRead, over, looked, true)
    BY DEF EvaluatePass
  <1>2. PICK true \in SUBSET looked : Evaluate(up, budgetRead, over, looked, true)
    BY <1>1
  <1> DEFINE since == IF up THEN Null ELSE IF failingSince = Null THEN now ELSE failingSince
             checked == CheckedSources(up, since, budgetRead, looked)
             active == ActivePostgres(since) \cup true \cup {c \in {Connections} : c \in checked /\ over}
  <1>3. Observed(active, checked)
    BY <1>2 DEF Evaluate, Observed, Outage, budget
  <1> QED
    BY <1>3

LEMMA EvaluateKeeps == ASSUME AlertInvariant, EvaluatePass PROVE AlertInvariant'
  <1>0. AlertShapes /\ Counted /\ EveryMinute /\ Watched /\ Remembered
    BY DEF AlertInvariant
  <1>1. PICK active, checked : Observed(active, checked)
    BY EvaluateObserves
  <1>2. pc = "evaluate" /\ UNCHANGED <<now, updating, receiver, paused, told>>
    BY DEF EvaluatePass
  <1>3. clearRun' = [c \in Conditions |-> IF c \in active \/ c \notin checked THEN Null
                                          ELSE IF clearRun[c] = Null THEN now ELSE clearRun[c]]
    BY <1>1 DEF Observed
  <1>4. \A c \in Conditions :
          /\ c \in active \/ c \notin checked => clearRun'[c] = Null
          /\ c \notin active /\ c \in checked => clearRun'[c] = IF clearRun[c] = Null THEN now ELSE clearRun[c]
    BY <1>3
  <1>5. now \in Int /\ now >= 0 /\ \A c \in Conditions : clearRun[c] \in Int /\ clearRun[c] <= now
    BY <1>0, SMT DEF AlertShapes, Watched
  <1>6. clearRun' \in [Conditions -> Int]
    BY <1>3, <1>5, AlertTimes
  <1>7. \A c \in Conditions : clearRun'[c] <= now'
    BY <1>2, <1>4, <1>5, AlertTimes, SMT
  <1>8. owed' \subseteq owed /\ \A c \in owed' : row'[c].active
    BY <1>1 DEF Observed
  <1>9. CASE /\ row' = [c \in Conditions |-> RowAfter(c, active, checked)]
             /\ event' = [e \in Events |-> DropOld(e)]
             /\ pc' = "record" /\ UNCHANGED <<clean, passAt, updates, outages>>
    <2>1. \A c \in Conditions : Becomes(c, row'[c], active, checked)
      BY <1>0, <1>9, RowsAfter
    <2>2. \A e \in Events : /\ event'[e] \in Records
                            /\ event'[e].state = "queued" => event'[e].at >= now - AlertEventMaxAge
      <3> TAKE e \in Events
      <3>1. event[e] \in Records /\ event'[e] = DropOld(e)
        BY <1>0, <1>9 DEF AlertShapes
      <3>2. CASE event[e].state = "queued" /\ event[e].at < now - AlertEventMaxAge
        <4>1. event'[e] = [event[e] EXCEPT !.state = "dropped"]
          BY <3>1, <3>2 DEF DropOld
        <4> QED
          BY <3>1, <4>1 DEF Records
      <3>3. CASE ~(event[e].state = "queued" /\ event[e].at < now - AlertEventMaxAge)
        <4>1. event'[e] = event[e]
          BY <3>1, <3>3 DEF DropOld
        <4> QED
          BY <1>5, <3>1, <3>3, <4>1, AlertTimes, SMT DEF Records
      <3> QED
        BY <3>2, <3>3
    <2>3. AlertShapes'
      BY <1>0, <1>2, <1>6, <1>9, <2>1, <2>2 DEF AlertShapes, Becomes
    <2>4. Counted' /\ EveryMinute'
      BY <1>0, <1>2, <1>9 DEF Counted, EveryMinute, Disturbed
    <2>5. Watched'
      <3>1. SUFFICES ASSUME ~Disturbed, NEW c \in Conditions, row'[c].sent = "firing", ~row'[c].active
                     PROVE  /\ row'[c].clear <= now
                            /\ clearRun'[c] = Null => row'[c].clear = now
                            /\ clearRun'[c] <= row'[c].clear + 1
        BY <1>2, <1>7, <1>9 DEF Watched, Waiting, LastLook, Disturbed
      <3>2. row'[c].clear \in Int /\ row[c].clear \in Int /\ clearRun'[c] \in Int
        BY <1>0, <1>6, <2>1 DEF AlertShapes, Rows, Becomes
      <3>3. CASE row'[c].clear = now
        BY <1>2, <1>5, <1>7, <3>2, <3>3, SMT
      <3>4. CASE c \notin active /\ c \in checked /\ Waiting(c) /\ row'[c].clear = row[c].clear
        <4>1. LastLook = now - 1
          BY <1>0, <1>2, <3>1 DEF LastLook, EveryMinute
        <4>2. /\ row[c].clear <= now - 1 /\ clearRun[c] <= row[c].clear + 1
              /\ clearRun[c] = Null => row[c].clear = now - 1
          BY <1>0, <3>1, <3>4, <4>1 DEF Watched
        <4>3. clearRun'[c] = IF clearRun[c] = Null THEN now ELSE clearRun[c]
          BY <1>4, <3>4
        <4> QED
          BY <1>5, <3>2, <3>4, <4>2, <4>3, AlertTimes, SMT
      <3> QED
        BY <2>1, <3>1, <3>3, <3>4 DEF Becomes
    <2>6. \A c \in Conditions : (told'[c] = Null \/ told'[c] >= row'[c].fired) /\ row'[c].fired <= now'
      <3> TAKE c \in Conditions
      <3>1. told[c] \in Nat \cup {Null} /\ (told[c] = Null \/ told[c] >= row[c].fired) /\ row[c].fired <= now
        BY <1>0 DEF AlertShapes, Remembered
      <3> QED
        BY <1>2, <1>5, <2>1, <3>1, AlertTimes, SMT DEF Becomes
    <2>7. Remembered'
      BY <1>0, <1>2, <1>8, <2>1, <2>2, <2>6 DEF Remembered, Becomes
    <2> QED
      BY <1>9, <2>3, <2>4, <2>5, <2>7 DEF AlertInvariant, Sending, Delivering, Delivered, CleanPass
  <1>10. CASE /\ outages' = outages + 1 /\ UNCHANGED <<row, event, updates>>
              /\ pc' = "idle" /\ clean' = FALSE /\ passAt' = now
    <2>1. outages' \in Nat /\ outages' # 0
      BY <1>0, <1>10, SMT DEF AlertShapes
    <2>2. AlertShapes'
      BY <1>0, <1>2, <1>5, <1>6, <1>10, <2>1 DEF AlertShapes
    <2>3. Counted' /\ EveryMinute' /\ Watched'
      BY <1>0, <1>2, <1>7, <1>10, <2>1 DEF Counted, EveryMinute, Disturbed, Watched
    <2>4. Remembered'
      BY <1>0, <1>2, <1>8, <1>10 DEF Remembered
    <2> QED
      BY <1>10, <2>2, <2>3, <2>4 DEF AlertInvariant, Sending, Delivering, Delivered, CleanPass
  <1> QED
    BY <1>1, <1>9, <1>10 DEF Observed

(***************************************************************************)
(* Sending.                                                                *)
(***************************************************************************)
LEMMA ToSend ==
    /\ \A c \in Conditions : <<c, "firing">> \in AlertsToSend <=>
         row[c].active /\ (row[c].fired = Null \/ row[c].fired <= now - AlertRepeat)
    /\ \A c \in Conditions : <<c, "resolved">> \in AlertsToSend <=>
         row[c].known /\ Waiting(c) /\ row[c].clear <= now - AlertClearAfter
    /\ \A e \in Events : <<e, "event">> \in AlertsToSend <=>
         event[e].state = "queued" /\ event[e].at >= now - AlertEventMaxAge
  BY DEF AlertsToSend, Waiting

LEMMA SendBeginsKeeps == ASSUME AlertInvariant, SendBegins PROVE AlertInvariant'
  <1>0. AlertShapes /\ Counted /\ EveryMinute /\ Watched /\ Remembered
    BY DEF AlertInvariant
  <1>1. /\ pc = "record"
        /\ UNCHANGED <<now, updating, receiver, row, event, paused, clean, clearRun, told, owed, updates, outages>>
    BY DEF SendBegins, db, history, budget
  <1>2. now \in Int /\ \A c \in Conditions :
          /\ row[c].clear \in Int /\ row[c].fired \in Int /\ told[c] \in Int
    BY <1>0, SMT DEF AlertShapes, Rows, Null
  <1>3. CASE receiver = Nobody
    <2>1. pc' = "idle" /\ passAt' = now
      BY <1>3 DEF SendBegins
    <2>2. AlertShapes' /\ Counted' /\ EveryMinute' /\ Watched' /\ Remembered'
      BY <1>0, <1>1, <1>2, <2>1 DEF AlertShapes, Counted, EveryMinute, Watched, Remembered, LastLook, Waiting, Disturbed
    <2> QED
      BY <1>1, <1>3, <2>1, <2>2 DEF AlertInvariant, Sending, Delivering, Delivered, CleanPass
  <1>4. CASE receiver # Nobody
    <2>1. pc' = "send" /\ to' = receiver /\ todo' = AlertsToSend /\ passAt' = passAt
      BY <1>4 DEF SendBegins
    <2>2. AlertShapes' /\ Counted' /\ EveryMinute' /\ Watched' /\ Remembered'
      BY <1>0, <1>1, <2>1 DEF AlertShapes, Counted, EveryMinute, Watched, Remembered, LastLook, Waiting, Disturbed
    <2>3. Sending'
      BY <1>1, <2>1, ToSend DEF Sending, Waiting
    <2>4. \A c \in Conditions : <<c, "firing">> \notin todo' => c \notin owed /\ Informed(c)
      <3> SUFFICES ASSUME NEW c \in Conditions, <<c, "firing">> \notin todo' PROVE c \notin owed /\ Informed(c)
        OBVIOUS
      <3>1. row[c].active => row[c].fired # Null /\ ~(row[c].fired <= now - AlertRepeat)
        BY <2>1, ToSend
      <3>2. c \notin owed /\ (told[c] = Null \/ told[c] >= row[c].fired)
        BY <1>0, <3>1 DEF Remembered
      <3> QED
        BY <1>2, <3>1, <3>2, AlertTimes, SMT DEF Informed, LastTold
    <2>5. \A c \in Conditions : <<c, "resolved">> \notin todo' => Resolved(c)
      <3> SUFFICES ASSUME NEW c \in Conditions, <<c, "resolved">> \notin todo', Waiting(c)
                   PROVE  now - row[c].clear < AlertClearAfter
        BY DEF Resolved
      <3>1. ~(row[c].clear <= now - AlertClearAfter)
        BY <1>0, <2>1, ToSend DEF Remembered, Waiting
      <3> QED
        BY <1>2, <3>1, AlertTimes, SMT
    <2>6. \A e \in Events : <<e, "event">> \notin todo' => Reported(e)
      BY <1>0, <1>1, <2>1, ToSend DEF Remembered, Reported
    <2>7. Delivering'
      BY <1>1, <2>4, <2>5, <2>6 DEF Delivering, Informed, LastTold, Resolved, Reported, Waiting
    <2> QED
      BY <2>1, <2>2, <2>3, <2>7 DEF AlertInvariant, Delivered, CleanPass
  <1> QED
    BY <1>3, <1>4

LEMMA SendEndsKeeps == ASSUME AlertInvariant, SendEnds PROVE AlertInvariant'
  <1>0. AlertShapes /\ Counted /\ EveryMinute /\ Watched /\ Remembered /\ Delivering
    BY DEF AlertInvariant
  <1>1. /\ pc = "send" /\ todo = {} /\ pc' = "idle" /\ passAt' = now
        /\ UNCHANGED <<now, updating, receiver, row, event, paused, clean, clearRun, told, owed, updates, outages>>
    BY DEF SendEnds, db, history, budget
  <1>2. now \in Int
    BY <1>0, SMT DEF AlertShapes
  <1>3. AlertShapes' /\ Counted' /\ EveryMinute' /\ Watched' /\ Remembered'
    BY <1>0, <1>1, <1>2 DEF AlertShapes, Counted, EveryMinute, Watched, Remembered, LastLook, Waiting, Disturbed
  <1>4. Delivered'
    <2> SUFFICES ASSUME CleanPass' PROVE /\ owed' = {}
                                         /\ \A c \in Conditions : Informed(c)' /\ Resolved(c)'
                                         /\ \A e \in Events : Reported(e)'
      BY DEF Delivered
    <2>1. /\ \A c \in Conditions : c \notin owed /\ Informed(c) /\ Resolved(c)
          /\ \A e \in Events : Reported(e)
      BY <1>0, <1>1 DEF CleanPass, Delivering
    <2>2. owed = {}
      BY <1>0, <2>1 DEF Remembered
    <2> QED
      BY <1>1, <2>1, <2>2 DEF Informed, LastTold, Resolved, Reported, Waiting
  <1> QED
    BY <1>1, <1>3, <1>4 DEF AlertInvariant, Sending, Delivering

LEMMA Kinds ==
    ASSUME NEW m \in Messages
    PROVE  \/ \E e \in Events : m = <<e, "event">>
           \/ \E c \in Conditions : m = <<c, "firing">>
           \/ \E c \in Conditions : m = <<c, "resolved">>
  BY SMT DEF Messages

\* Who hears a message is told now; nobody is owed more than before.
LEMMA Heard ==
    ASSUME AlertShapes, NEW m \in Messages, Hear(m)
    PROVE  /\ told' \in [Conditions -> Nat \cup {Null}] /\ owed' \subseteq owed
           /\ \A c \in Conditions : told'[c] = told[c] \/ told'[c] = now
  <1>1. CASE m[2] = "firing"
    <2>1. m[1] \in Conditions
      BY <1>1, Kinds, SMT
    <2> QED
      BY <2>1 DEF Hear, AlertShapes
  <1>2. CASE m[2] # "firing"
    BY <1>2 DEF Hear, AlertShapes
  <1> QED
    BY <1>1, <1>2

\* A firing message is recorded, and told to the webhook that is configured.
LEMMA FiringKeeps ==
    ASSUME AlertInvariant, NEW c \in Conditions, Deliver(<<c, "firing">>)
    PROVE  AlertInvariant'
  <1>0. AlertShapes /\ Counted /\ EveryMinute /\ Watched /\ Sending /\ Remembered /\ Delivering
    BY DEF AlertInvariant
  <1>1. /\ pc = "send" /\ <<c, "firing">> \in todo /\ todo' = todo \ {<<c, "firing">>} /\ Hear(<<c, "firing">>)
        /\ row' = [row EXCEPT ![c].sent = "firing", ![c].fired = now] /\ event' = event
        /\ UNCHANGED <<now, updating, receiver, paused, pc, to, clean, passAt, clearRun, updates, outages>>
    BY DEF Deliver, NextMessage, MarkAlertSent, budget
  <1>2. to = receiver /\ row[c].active
    BY <1>0, <1>1 DEF Sending
  <1>3. told' = [told EXCEPT ![c] = now] /\ owed' = owed \ {c}
    BY <1>1, <1>2 DEF Hear
  <1>4. /\ \A d \in Conditions \ {c} : row'[d] = row[d] /\ told'[d] = told[d]
        /\ told'[c] = now
    BY <1>0, <1>1, <1>3 DEF AlertShapes
  <1>5. /\ row'[c] \in Rows /\ row'[c].sent = "firing" /\ row'[c].fired = now
        /\ row'[c].active = row[c].active /\ row'[c].known = row[c].known /\ row'[c].clear = row[c].clear
    <2>1. row[c] \in Rows /\ now \in Int
      BY <1>0, SMT DEF AlertShapes
    <2>2. row'[c] = [row[c] EXCEPT !.sent = "firing", !.fired = now]
      BY <1>0, <1>1 DEF AlertShapes
    <2> QED
      BY <2>1, <2>2 DEF Rows, Sent
  <1>6. now \in Nat /\ now # Null /\ now <= now /\ now >= now /\ now - now < AlertRepeat
    BY <1>0, AlertTimes, SMT DEF AlertShapes
  <1>7. AlertShapes'
    <2>1. row' \in [Conditions -> Rows]
      BY <1>0, <1>1, <1>4, <1>5 DEF AlertShapes
    <2>2. told' \in [Conditions -> Nat \cup {Null}]
      BY <1>0, <1>3, <1>6 DEF AlertShapes
    <2> QED
      BY <1>0, <1>1, <2>1, <2>2 DEF AlertShapes
  <1>8. Counted' /\ EveryMinute'
    BY <1>0, <1>1 DEF Counted, EveryMinute, Disturbed
  <1>9. Watched'
    <2>1. \A d \in Conditions : Waiting(d)' => d # c /\ Waiting(d) /\ row'[d] = row[d]
      BY <1>2, <1>4, <1>5 DEF Waiting
    <2> QED
      BY <1>0, <1>1, <2>1 DEF Watched, LastLook, Disturbed
  <1>10. Sending'
    BY <1>0, <1>1, <1>2, <1>4, <1>5 DEF Sending, Waiting
  <1>11. Remembered'
    <2>1. \A d \in owed' : d \in Conditions /\ row'[d].active /\ row'[d].fired = Null
      BY <1>0, <1>3, <1>4 DEF Remembered
    <2>2. \A d \in Conditions : /\ told'[d] = Null \/ told'[d] >= row'[d].fired
                                /\ row'[d].fired <= now'
                                /\ row'[d].active \/ row'[d].sent = "firing" => row'[d].known
      <3> TAKE d \in Conditions
      <3>1. CASE d = c
        BY <1>0, <1>1, <1>2, <1>4, <1>5, <1>6, <3>1 DEF Remembered
      <3>2. CASE d # c
        BY <1>0, <1>1, <1>4, <3>2 DEF Remembered
      <3> QED
        BY <3>1, <3>2
    <2> QED
      BY <1>0, <1>1, <2>1, <2>2 DEF Remembered
  <1>12. Delivering'
    <2>1. SUFFICES ASSUME clean, pc = "send"
                   PROVE  /\ \A d \in Conditions : /\ <<d, "firing">> \notin todo' => d \notin owed' /\ Informed(d)'
                                                   /\ <<d, "resolved">> \notin todo' => Resolved(d)'
                          /\ \A e \in Events : <<e, "event">> \notin todo' => Reported(e)'
      BY <1>1 DEF Delivering
    <2>2. \A d : /\ <<d, "firing">> \notin todo' => d = c \/ <<d, "firing">> \notin todo
                 /\ <<d, "resolved">> \notin todo' => <<d, "resolved">> \notin todo
                 /\ <<d, "event">> \notin todo' => <<d, "event">> \notin todo
      BY <1>1, SMT
    <2>3. \A d \in Conditions : <<d, "firing">> \notin todo' => d \notin owed' /\ Informed(d)'
      <3> SUFFICES ASSUME NEW d \in Conditions, <<d, "firing">> \notin todo' PROVE d \notin owed' /\ Informed(d)'
        OBVIOUS
      <3>1. CASE d = c
        BY <1>1, <1>3, <1>4, <1>6, <3>1 DEF Informed, LastTold
      <3>2. CASE d # c
        BY <1>0, <1>1, <1>3, <1>4, <2>1, <2>2, <3>2 DEF Delivering, Informed, LastTold
      <3> QED
        BY <3>1, <3>2
    <2>4. \A d \in Conditions : <<d, "resolved">> \notin todo' => Resolved(d)'
      BY <1>0, <1>1, <1>2, <1>4, <1>5, <2>1, <2>2 DEF Delivering, Resolved, Waiting
    <2>5. \A e \in Events : <<e, "event">> \notin todo' => Reported(e)'
      BY <1>0, <1>1, <2>1, <2>2 DEF Delivering, Reported
    <2> QED
      BY <2>3, <2>4, <2>5
  <1> QED
    BY <1>1, <1>7, <1>8, <1>9, <1>10, <1>11, <1>12 DEF AlertInvariant, Delivered, CleanPass

\* A resolved message ends the wait of its condition.
LEMMA ResolvedKeeps ==
    ASSUME AlertInvariant, NEW c \in Conditions, Deliver(<<c, "resolved">>)
    PROVE  AlertInvariant'
  <1>0. AlertShapes /\ Counted /\ EveryMinute /\ Watched /\ Sending /\ Remembered /\ Delivering
    BY DEF AlertInvariant
  <1>1. /\ pc = "send" /\ <<c, "resolved">> \in todo /\ todo' = todo \ {<<c, "resolved">>}
        /\ row' = [row EXCEPT ![c].sent = "resolved"] /\ event' = event
        /\ UNCHANGED <<now, updating, receiver, paused, pc, to, clean, passAt, clearRun, told, owed, updates, outages>>
    BY DEF Deliver, NextMessage, MarkAlertSent, Hear, budget
  <1>2. \A d \in Conditions \ {c} : row'[d] = row[d]
    BY <1>0, <1>1 DEF AlertShapes
  <1>3. /\ row'[c] \in Rows /\ row'[c].sent = "resolved" /\ row'[c].fired = row[c].fired
        /\ row'[c].active = row[c].active /\ row'[c].known = row[c].known
    <2>1. row[c] \in Rows
      BY <1>0 DEF AlertShapes
    <2>2. row'[c] = [row[c] EXCEPT !.sent = "resolved"]
      BY <1>0, <1>1 DEF AlertShapes
    <2> QED
      BY <2>1, <2>2 DEF Rows, Sent
  <1>4. AlertShapes'
    <2>1. row' \in [Conditions -> Rows]
      BY <1>0, <1>1, <1>2, <1>3 DEF AlertShapes
    <2> QED
      BY <1>0, <1>1, <2>1 DEF AlertShapes
  <1>5. Counted' /\ EveryMinute'
    BY <1>0, <1>1 DEF Counted, EveryMinute, Disturbed
  <1>6. Watched'
    BY <1>0, <1>1, <1>2, <1>3 DEF Watched, Waiting, LastLook, Disturbed
  <1>7. Sending'
    BY <1>0, <1>1, <1>2, <1>3 DEF Sending, Waiting
  <1>8. Remembered'
    <2>1. \A d \in Conditions : /\ row'[d].active = row[d].active /\ row'[d].fired = row[d].fired
                                /\ row'[d].known = row[d].known
                                /\ row'[d].sent = "firing" => row[d].sent = "firing"
      BY <1>2, <1>3
    <2> QED
      BY <1>0, <1>1, <2>1 DEF Remembered
  <1>9. Delivering'
    <2>1. SUFFICES ASSUME clean, pc = "send"
                   PROVE  /\ \A d \in Conditions : /\ <<d, "firing">> \notin todo' => d \notin owed' /\ Informed(d)'
                                                   /\ <<d, "resolved">> \notin todo' => Resolved(d)'
                          /\ \A e \in Events : <<e, "event">> \notin todo' => Reported(e)'
      BY <1>1 DEF Delivering
    <2>2. \A d : /\ <<d, "firing">> \notin todo' => <<d, "firing">> \notin todo
                 /\ <<d, "resolved">> \notin todo' => d = c \/ <<d, "resolved">> \notin todo
                 /\ <<d, "event">> \notin todo' => <<d, "event">> \notin todo
      BY <1>1, SMT
    <2>3. \A d \in Conditions : <<d, "firing">> \notin todo' => d \notin owed' /\ Informed(d)'
      <3> SUFFICES ASSUME NEW d \in Conditions, <<d, "firing">> \notin todo' PROVE d \notin owed' /\ Informed(d)'
        OBVIOUS
      <3>1. d \notin owed /\ Informed(d)
        BY <1>0, <2>1, <2>2 DEF Delivering
      <3>2. row'[d].active = row[d].active /\ row'[d].fired = row[d].fired
        BY <1>2, <1>3
      <3> QED
        BY <1>1, <3>1, <3>2 DEF Informed, LastTold
    <2>4. \A d \in Conditions : <<d, "resolved">> \notin todo' => Resolved(d)'
      BY <1>0, <1>1, <1>2, <1>3, <2>1, <2>2 DEF Delivering, Resolved, Waiting
    <2>5. \A e \in Events : <<e, "event">> \notin todo' => Reported(e)'
      BY <1>0, <1>1, <2>1, <2>2 DEF Delivering, Reported
    <2> QED
      BY <2>3, <2>4, <2>5
  <1> QED
    BY <1>1, <1>4, <1>5, <1>6, <1>7, <1>8, <1>9 DEF AlertInvariant, Delivered, CleanPass

LEMMA EventKeeps ==
    ASSUME AlertInvariant, NEW e \in Events, Deliver(<<e, "event">>)
    PROVE  AlertInvariant'
  <1>0. AlertShapes /\ Counted /\ EveryMinute /\ Watched /\ Sending /\ Remembered /\ Delivering
    BY DEF AlertInvariant
  <1>1. /\ pc = "send" /\ todo' = todo \ {<<e, "event">>}
        /\ event' = [event EXCEPT ![e].state = "sent"]
        /\ UNCHANGED <<now, updating, receiver, row, paused, pc, to, clean, passAt, clearRun, told, owed,
                       updates, outages>>
    BY DEF Deliver, MarkAlertSent, Hear, budget
  <1>2. \A f \in Events \ {e} : event'[f] = event[f]
    BY <1>0, <1>1 DEF AlertShapes
  <1>3. event'[e] \in Records /\ event'[e].state = "sent"
    <2>1. event[e] \in Records /\ event'[e] = [event[e] EXCEPT !.state = "sent"]
      BY <1>0, <1>1 DEF AlertShapes
    <2> QED
      BY <2>1 DEF Records
  <1>4. AlertShapes'
    <2>1. event' \in [Events -> Records]
      BY <1>0, <1>1, <1>2, <1>3 DEF AlertShapes
    <2> QED
      BY <1>0, <1>1, <2>1 DEF AlertShapes
  <1>5. Counted' /\ EveryMinute' /\ Watched' /\ Sending'
    BY <1>0, <1>1 DEF Counted, EveryMinute, Watched, Waiting, LastLook, Disturbed, Sending
  <1>6. Remembered'
    BY <1>0, <1>1, <1>2, <1>3 DEF Remembered
  <1>7. \A d : /\ <<d, "firing">> \notin todo' => <<d, "firing">> \notin todo
               /\ <<d, "resolved">> \notin todo' => <<d, "resolved">> \notin todo
               /\ <<d, "event">> \notin todo' => d = e \/ <<d, "event">> \notin todo
    BY <1>1, SMT
  <1>8. Delivering'
    BY <1>0, <1>1, <1>2, <1>3, <1>7 DEF Delivering, Informed, LastTold, Resolved, Waiting, Reported
  <1> QED
    BY <1>1, <1>4, <1>5, <1>6, <1>8 DEF AlertInvariant, Delivered, CleanPass

\* A delivery that is not recorded, is refused or fails ends a clean pass.
LEMMA FaultKeeps ==
    ASSUME AlertInvariant, NEW m \in Messages, DeliverUnrecorded(m) \/ DeliverRefused(m) \/ DeliverFails(m)
    PROVE  AlertInvariant'
  <1>0. AlertShapes /\ Counted /\ EveryMinute /\ Watched /\ Sending /\ Remembered
    BY DEF AlertInvariant
  <1>1. /\ pc = "send" /\ clean' = FALSE /\ todo' \subseteq todo
        /\ UNCHANGED <<now, updating, receiver, row, event, paused, clearRun, updates, outages>>
        /\ Hear(m) \/ UNCHANGED <<told, owed>>
    BY DEF DeliverUnrecorded, DeliverRefused, DeliverFails, Fault, db, history
  <1>2. (pc' = "send" /\ UNCHANGED <<to, passAt>>) \/ (pc' = "idle" /\ passAt' = now)
    BY DEF DeliverUnrecorded, DeliverRefused, DeliverFails
  <1>3. /\ told' \in [Conditions -> Nat \cup {Null}] /\ owed' \subseteq owed
        /\ \A c \in Conditions : told'[c] = told[c] \/ told'[c] = now
    BY <1>0, <1>1, Heard DEF AlertShapes
  <1>4. now \in Int
    BY <1>0, SMT DEF AlertShapes
  <1>5. AlertShapes' /\ Counted' /\ EveryMinute'
    BY <1>0, <1>1, <1>2, <1>3, <1>4 DEF AlertShapes, Counted, EveryMinute, Disturbed
  <1>6. Watched'
    BY <1>0, <1>1, <1>2 DEF Watched, Waiting, LastLook, Disturbed
  <1>7. Sending'
    BY <1>0, <1>1, <1>2 DEF Sending, Waiting
  <1>8. \A c \in Conditions : told'[c] = Null \/ told'[c] >= row'[c].fired
    <2> TAKE c \in Conditions
    <2>1. row[c].fired \in Int /\ row[c].fired <= now /\ (told[c] = Null \/ told[c] >= row[c].fired)
      BY <1>0 DEF AlertShapes, Rows, Remembered
    <2>2. now >= row[c].fired
      BY <1>4, <2>1, SMT
    <2> QED
      BY <1>1, <1>3, <2>1, <2>2
  <1>9. Remembered'
    BY <1>0, <1>1, <1>3, <1>8 DEF Remembered
  <1> QED
    BY <1>1, <1>5, <1>6, <1>7, <1>9 DEF AlertInvariant, Delivering, Delivered, CleanPass

\* A pass that ends before its messages are read, or with some of them unsent.
LEMMA CutKeeps == ASSUME AlertInvariant, SendUnread \/ SendBudgetSpent PROVE AlertInvariant'
  <1>0. AlertShapes /\ Counted /\ EveryMinute /\ Watched /\ Remembered
    BY DEF AlertInvariant
  <1>1. /\ pc \in {"record", "send"} /\ pc' = "idle" /\ passAt' = now /\ clean' = FALSE
        /\ UNCHANGED <<now, updating, receiver, row, event, paused, clearRun, told, owed, updates, outages>>
    BY DEF SendUnread, SendBudgetSpent, Fault, db, history, budget
  <1>2. now \in Int
    BY <1>0, SMT DEF AlertShapes
  <1>3. AlertShapes' /\ Counted' /\ EveryMinute' /\ Watched' /\ Remembered'
    BY <1>0, <1>1, <1>2 DEF AlertShapes, Counted, EveryMinute, Watched, Remembered, LastLook, Waiting, Disturbed
  <1> QED
    BY <1>1, <1>3 DEF AlertInvariant, Sending, Delivering, Delivered, CleanPass

(***************************************************************************)
(* The others.                                                             *)
(***************************************************************************)
\* A change of the receiver: nobody has told the new one anything, so every
\* active condition is fired again and nothing is left to be resolved.
LEMMA SaveKeeps ==
    ASSUME AlertInvariant, NEW r \in Receivers \cup {Nobody}, SaveWebhook(r)
    PROVE  AlertInvariant'
  <1>0. AlertShapes /\ Counted /\ EveryMinute /\ Watched /\ Remembered
    BY DEF AlertInvariant
  <1>1. /\ pc # "send" /\ clean' = FALSE /\ SettingsReset /\ told' = [c \in Conditions |-> Null]
        /\ owed' = IF r = Nobody THEN {} ELSE {c \in Conditions : row[c].active}
        /\ UNCHANGED <<now, updating, event, paused, pc, passAt, clearRun, updates, outages>>
    BY DEF SaveWebhook, SaveLocked
  <1>2. \A c \in Conditions :
          /\ row'[c] \in Rows /\ row'[c].sent = "" /\ row'[c].active = row[c].active /\ row'[c].known = row[c].known
          /\ row'[c].fired = IF row[c].active THEN Null ELSE row[c].fired
    <2> TAKE c \in Conditions
    <2>0. row[c] \in Rows
      BY <1>0 DEF AlertShapes
    <2>1. CASE row[c].active
      <3>1. row'[c] = [row[c] EXCEPT !.sent = "", !.fired = Null]
        BY <1>1, <2>1 DEF SettingsReset
      <3>2. Null \in Int /\ "" \in Sent
        BY AlertTimes DEF Sent
      <3> QED
        BY <2>0, <2>1, <3>1, <3>2 DEF Rows
    <2>2. CASE ~row[c].active
      <3>1. row'[c] = [row[c] EXCEPT !.sent = ""]
        BY <1>1, <2>2 DEF SettingsReset
      <3> QED
        BY <2>0, <2>2, <3>1 DEF Rows, Sent
    <2> QED
      BY <2>1, <2>2
  <1>3. Null <= now
    BY <1>0, SMT DEF AlertShapes, Null
  <1>4. AlertShapes'
    <2>1. row' \in [Conditions -> Rows]
      BY <1>1, <1>2 DEF SettingsReset
    <2> QED
      BY <1>0, <1>1, <2>1 DEF AlertShapes
  <1>5. Counted' /\ EveryMinute'
    BY <1>0, <1>1 DEF Counted, EveryMinute, Disturbed
  <1>6. Watched'
    BY <1>0, <1>1, <1>2 DEF Watched, Waiting, Disturbed
  <1>7. Remembered'
    <2>1. \A c \in owed' : c \in Conditions /\ row'[c].active /\ row'[c].fired = Null
      BY <1>1, <1>2
    <2>2. \A c \in Conditions : /\ told'[c] = Null
                                /\ row'[c].fired <= now'
                                /\ row'[c].active \/ row'[c].sent = "firing" => row'[c].known
      BY <1>0, <1>1, <1>2, <1>3 DEF Remembered
    <2> QED
      BY <1>0, <1>1, <2>1, <2>2 DEF Remembered
  <1> QED
    BY <1>1, <1>4, <1>5, <1>6, <1>7 DEF AlertInvariant, Sending, Delivering, Delivered, CleanPass

LEMMA RecordKeeps ==
    ASSUME AlertInvariant, NEW e \in Events, RecordAlertEvent(e)
    PROVE  AlertInvariant'
  <1>0. AlertShapes /\ Counted /\ EveryMinute /\ Watched /\ Sending /\ Remembered /\ Delivering /\ Delivered
    BY DEF AlertInvariant
  <1>1. /\ event' = [event EXCEPT ![e] = [state |-> "queued", at |-> now]]
        /\ UNCHANGED <<now, updating, receiver, row, paused, pc, to, todo, clean, passAt, clearRun, told, owed,
                       updates, outages>>
    BY DEF RecordAlertEvent, loop, history, budget
  <1>2. now \in Int /\ now >= now - AlertEventMaxAge
    BY <1>0, AlertTimes, SMT DEF AlertShapes
  <1>3. /\ \A f \in Events \ {e} : event'[f] = event[f]
        /\ event'[e] = [state |-> "queued", at |-> now]
    BY <1>0, <1>1 DEF AlertShapes
  <1>4. event'[e].at = now /\ event'[e] \in Records
    BY <1>2, <1>3, SMT DEF Records
  <1>5. AlertShapes'
    <2>1. event' \in [Events -> Records]
      BY <1>0, <1>1, <1>3, <1>4 DEF AlertShapes
    <2> QED
      BY <1>0, <1>1, <2>1 DEF AlertShapes
  <1>6. Counted' /\ EveryMinute' /\ Watched' /\ Sending'
    BY <1>0, <1>1 DEF Counted, EveryMinute, Watched, Waiting, LastLook, Disturbed, Sending
  <1>7. Remembered'
    BY <1>0, <1>1, <1>2, <1>3, <1>4 DEF Remembered
  <1>8. Delivering' /\ Delivered'
    BY <1>0, <1>1, <1>3, <1>4 DEF Delivering, Delivered, CleanPass, Informed, LastTold, Resolved, Waiting, Reported
  <1> QED
    BY <1>5, <1>6, <1>7, <1>8 DEF AlertInvariant

LEMMA TickKeeps == ASSUME AlertInvariant, TickBegins PROVE AlertInvariant'
  <1>0. AlertShapes /\ Counted /\ EveryMinute /\ Watched /\ Remembered /\ Delivered
    BY DEF AlertInvariant
  <1>1. /\ pc = "idle" /\ passAt < now
        /\ UNCHANGED <<now, updating, receiver, row, event, clearRun, told, owed, updates, outages>>
    BY DEF TickBegins, db, history, budget
  <1>2. now \in Int /\ passAt \in Int
    BY <1>0, SMT DEF AlertShapes
  <1>3. CASE updating
    <2>1. paused' = TRUE /\ passAt' = now /\ UNCHANGED <<pc, clean>> /\ updates # 0
      BY <1>0, <1>3 DEF TickBegins, Counted
    <2>2. AlertShapes' /\ Counted' /\ EveryMinute' /\ Watched' /\ Remembered'
      BY <1>0, <1>1, <1>2, <2>1 DEF AlertShapes, Counted, EveryMinute, Watched, Remembered, Disturbed
    <2>3. Delivered'
      BY <1>0, <1>1, <2>1 DEF Delivered, CleanPass, Informed, LastTold, Resolved, Waiting, Reported
    <2> QED
      BY <1>1, <2>1, <2>2, <2>3 DEF AlertInvariant, Sending, Delivering
  <1>4. CASE ~updating
    <2>1. paused' = FALSE /\ pc' = "evaluate" /\ passAt' = passAt
      BY <1>4 DEF TickBegins
    <2>2. ~Disturbed => passAt = now - 1
      BY <1>0, <1>1, <1>2, SMT DEF EveryMinute
    <2>3. AlertShapes' /\ Counted' /\ EveryMinute' /\ Watched' /\ Remembered'
      BY <1>0, <1>1, <1>4, <2>1, <2>2
      DEF AlertShapes, Counted, EveryMinute, Watched, Waiting, LastLook, Remembered, Disturbed
    <2> QED
      BY <2>1, <2>3 DEF AlertInvariant, Sending, Delivering, Delivered, CleanPass
  <1> QED
    BY <1>3, <1>4

LEMMA TickFailsKeeps == ASSUME AlertInvariant, TickFails PROVE AlertInvariant'
  <1>0. AlertShapes /\ Counted /\ Watched /\ Remembered
    BY DEF AlertInvariant
  <1>1. /\ pc' = "idle" /\ passAt' = now /\ clean' = FALSE /\ clearRun' = [c \in Conditions |-> Null]
        /\ UNCHANGED <<now, updating, receiver, row, event, paused, told, owed, updates>>
    BY DEF TickFails, Outage, db
  <1>2. now \in Int /\ Null <= now
    BY <1>0, SMT DEF AlertShapes, Null
  <1>3. outages' \in Nat /\ outages' # 0
    BY <1>0, SMT DEF TickFails, Outage, AlertShapes
  <1>4. AlertShapes' /\ Counted' /\ EveryMinute' /\ Watched' /\ Remembered'
    BY <1>0, <1>1, <1>2, <1>3, AlertTimes DEF AlertShapes, Counted, EveryMinute, Watched, Remembered, Disturbed
  <1> QED
    BY <1>1, <1>4 DEF AlertInvariant, Sending, Delivering, Delivered, CleanPass

LEMMA UpdateKeeps == ASSUME AlertInvariant, UpdateBegins \/ UpdateEnds PROVE AlertInvariant'
  <1>0. AlertShapes /\ Counted /\ EveryMinute /\ Watched /\ Sending /\ Remembered /\ Delivering /\ Delivered
    BY DEF AlertInvariant
  <1>1. UNCHANGED <<now, receiver, row, event, paused, pc, to, todo, clean, passAt, clearRun, told, owed, outages>>
    BY DEF UpdateBegins, UpdateEnds, db, loop, history, budget
  <1>2. updates' \in Nat /\ ((updates' # 0 /\ updating') \/ (updates' = updates /\ ~updating'))
    BY <1>0, SMT DEF UpdateBegins, UpdateEnds, budget, AlertShapes
  <1>3. AlertShapes' /\ Counted' /\ EveryMinute' /\ Watched' /\ Sending' /\ Remembered'
    BY <1>0, <1>1, <1>2
    DEF AlertShapes, Counted, EveryMinute, Watched, Waiting, LastLook, Sending, Remembered, Disturbed
  <1>4. Delivering' /\ Delivered'
    BY <1>0, <1>1 DEF Delivering, Delivered, CleanPass, Informed, LastTold, Resolved, Waiting, Reported
  <1> QED
    BY <1>3, <1>4 DEF AlertInvariant

LEMMA OutageKeeps == ASSUME AlertInvariant, Crash \/ Start PROVE AlertInvariant'
  <1>0. AlertShapes /\ Counted /\ Watched /\ Remembered
    BY DEF AlertInvariant
  <1>1. UNCHANGED <<now, updating, receiver, row, event, passAt, clearRun, told, owed, updates>>
    BY DEF Crash, Start, Outage, db, history, budget
  <1>2. ~clean' /\ pc' \in {"down", "idle"} /\ (paused' => paused)
    <2>1. CASE Crash
      BY <2>1 DEF Crash
    <2>2. CASE Start
      BY <1>0, <2>2 DEF Start, Counted
    <2> QED
      BY <2>1, <2>2
  <1>3. outages' \in Nat /\ outages' # 0
    BY <1>0, SMT DEF Crash, Start, Outage, budget, AlertShapes, Counted
  <1>4. AlertShapes' /\ Counted' /\ EveryMinute' /\ Watched' /\ Remembered'
    BY <1>0, <1>1, <1>2, <1>3 DEF AlertShapes, Counted, EveryMinute, Watched, Remembered, Disturbed
  <1> QED
    BY <1>2, <1>4 DEF AlertInvariant, Sending, Delivering, Delivered, CleanPass

LEMMA AdvanceKeeps == ASSUME AlertInvariant, Advance PROVE AlertInvariant'
  <1>0. AlertShapes /\ Counted /\ EveryMinute /\ Watched /\ Remembered
    BY DEF AlertInvariant
  <1>1. /\ now' = now + 1 /\ (pc = "down" \/ (pc = "idle" /\ passAt = now)) /\ clean' = FALSE
        /\ clearRun' = IF pc = "down" \/ paused THEN [c \in Conditions |-> Null] ELSE clearRun
        /\ UNCHANGED <<updating, receiver, row, event, paused, pc, passAt, told, owed, updates, outages>>
    BY DEF Advance, db, budget
  <1>2. /\ now \in Int /\ now' \in Nat /\ now = now' - 1
        /\ \A c \in Conditions : clearRun[c] \in Int /\ row[c].fired \in Int
    BY <1>0, <1>1, SMT DEF AlertShapes, Rows
  <1>3. clearRun' \in [Conditions -> Int] /\ \A c \in Conditions : clearRun'[c] \in {clearRun[c], Null}
    BY <1>0, <1>1, AlertTimes DEF AlertShapes
  <1>4. \A c \in Conditions : clearRun'[c] <= now' /\ row'[c].fired <= now'
    BY <1>0, <1>1, <1>2, <1>3, AlertTimes, SMT DEF Watched, Remembered
  <1>5. ~Disturbed => pc = "idle" /\ passAt = now /\ clearRun' = clearRun
    BY <1>0, <1>1 DEF Counted, Disturbed
  <1>6. AlertShapes' /\ Counted' /\ EveryMinute'
    BY <1>0, <1>1, <1>2, <1>3, <1>5 DEF AlertShapes, Counted, EveryMinute, Disturbed
  <1>7. Watched'
    BY <1>0, <1>1, <1>4, <1>5 DEF Watched, Waiting, LastLook, Disturbed
  <1>8. Remembered'
    BY <1>0, <1>1, <1>4 DEF Remembered
  <1> QED
    BY <1>1, <1>6, <1>7, <1>8 DEF AlertInvariant, Sending, Delivering, Delivered, CleanPass

\* Every step of the loop, of the deliveries and of what interferes with them
\* keeps the invariant.
THEOREM AlertStep == AlertInvariant /\ [AlertsNext]_alertVars => AlertInvariant'
  <1> SUFFICES ASSUME AlertInvariant, [AlertsNext]_alertVars PROVE AlertInvariant'
    OBVIOUS
  <1>1. CASE UNCHANGED alertVars
    BY <1>1
    DEF alertVars, AlertInvariant, AlertShapes, Counted, EveryMinute, Watched, Waiting, LastLook, Sending, Remembered,
        Disturbed, Delivering, Delivered, CleanPass, Informed, LastTold, Resolved, Reported
  <1>2. CASE \E m \in Messages : Deliver(m)
    BY <1>2, Kinds, FiringKeeps, ResolvedKeeps, EventKeeps
  <1>3. CASE \E m \in Messages : DeliverUnrecorded(m) \/ DeliverRefused(m) \/ DeliverFails(m)
    BY <1>3, FaultKeeps
  <1>4. CASE /\ AlertsNext
             /\ ~\E m \in Messages : Deliver(m) \/ DeliverUnrecorded(m) \/ DeliverRefused(m) \/ DeliverFails(m)
    BY <1>4, TickKeeps, TickFailsKeeps, EvaluateKeeps, SendBeginsKeeps, CutKeeps, SendEndsKeeps, SaveKeeps, RecordKeeps, UpdateKeeps,
       OutageKeeps, AdvanceKeeps DEF AlertsNext
  <1> QED
    BY <1>1, <1>2, <1>3, <1>4

LEMMA AlertsHold == AlertsSpec => []AlertInvariant
  BY AlertsBegin, AlertStep, PTL DEF AlertsSpec

\* After a pass in which nothing failed, the send budget was enough and nothing
\* was changed, the receiver has been told of what is firing, of what has been
\* over for long enough and of every event (AlertsToSend and MarkAlertSent),
\* whoever was configured when.
THEOREM ReceiverStaysCurrent == AlertsSpec => []ReceiverIsCurrent
  <1>1. AlertInvariant => ReceiverIsCurrent
    BY DEF AlertInvariant, Delivered, ReceiverIsCurrent, Informed, LastTold, Resolved, Waiting, Reported
  <1> QED
    BY <1>1, AlertsHold, PTL

\* Without an update or an outage no condition is reported as resolved unless
\* every minute of the wait has had a look that found it clear (ReconcileAlerts:
\* an unchecked pass restarts the wait).
THEOREM ResolvedAreWatched == AlertsSpec => ResolvedWasWatched
  <1>1. ASSUME AlertInvariant, NEW c \in Conditions, Deliver(<<c, "resolved">>), updates = 0, outages = 0
        PROVE  clearRun[c] # Null /\ now - clearRun[c] >= AlertClearAfter - 1
    <2>1. pc = "send" /\ <<c, "resolved">> \in todo
      BY <1>1 DEF Deliver, NextMessage
    <2>2. Waiting(c) /\ row[c].clear <= now - AlertClearAfter
      BY <1>1, <2>1 DEF AlertInvariant, Sending
    <2>3. (clearRun[c] = Null => row[c].clear = now) /\ clearRun[c] <= row[c].clear + 1
      BY <1>1, <2>1, <2>2 DEF AlertInvariant, Watched, LastLook, Disturbed
    <2>4. now \in Int /\ clearRun[c] \in Int /\ row[c].clear \in Int
      BY <1>1, SMT DEF AlertInvariant, AlertShapes, Rows
    <2> QED
      BY <2>2, <2>3, <2>4, AlertTimes, SMT
  <1>2. AlertInvariant /\ [AlertsNext]_alertVars
          => [\A c \in Conditions : Deliver(<<c, "resolved">>) /\ updates = 0 /\ outages = 0
                => clearRun[c] # Null /\ now - clearRun[c] >= AlertClearAfter - 1]_alertVars
    BY <1>1
  <1> QED
    BY <1>2, AlertsHold, PTL DEF AlertsSpec, ResolvedWasWatched
=============================================================================
