------------------------------- MODULE Alerts -------------------------------
(***************************************************************************)
(* The alert loop: what it observes, what it records about each condition, *)
(* and what the webhook receiver hears.  The loop runs once a minute and   *)
(* interleaves with changes of the receiver, one-shot events recorded by   *)
(* other transactions, updates and the process dying; deliveries fail, are *)
(* refused, or take effect without an answer.                              *)
(*                                                                         *)
(* Abstractions.  Time is counted in passes: the clock moves once this     *)
(* minute's pass is over, or while the process is down.  A message is its  *)
(* condition or event and its state.  Messages of a pass go out in any     *)
(* order, conditions before events.  PostgreSQL and the connection budget  *)
(* are modelled as they are; every other source (host report, disks,       *)
(* clock, certificate, backups, bucket) is one that was looked at or not,  *)
(* with a condition that is true or not.                                   *)
(***************************************************************************)
EXTENDS Integers, FiniteSets

CONSTANTS
    Others,                    \* conditions of the other sources, one each
    Events, Receivers,
    PostgresGrace, AlertClearAfter, AlertRepeat, AlertEventMaxAge, Forget,
    MaxNow,                    \* bound: the last minute
    MaxFaults,                 \* bound: deliveries and reads before them that fail
    MaxOutages,                \* bound: crashes, passes that cannot begin or be recorded
    MaxChanges,                \* bound: changes of the receiver
    MaxUpdates                 \* bound: updates

ASSUME AlertAssumption ==
    /\ {PostgresGrace, AlertClearAfter, AlertRepeat, AlertEventMaxAge, Forget} \subseteq Nat \ {0}
    /\ {MaxNow, MaxFaults, MaxOutages, MaxChanges, MaxUpdates} \subseteq Nat
    /\ AlertRepeat < Forget

Unreachable == "postgres_unreachable"
Connections == "connections"
Conditions == Others \cup {Unreachable, Connections}
Null == -1
Nobody == "nobody"

VARIABLES
    now, updating,
    receiver,                  \* the stored webhook
    row,                       \* alert_conditions
    event,                     \* alert_events
    failingSince, paused,      \* the engine's memory
    pc, to, todo, clean,       \* the loop: step, webhook read, messages left,
                               \* nothing failed, ran out or changed in this pass
    passAt,                    \* the minute of the last completed pass
    clearRun,                  \* since when every minute saw it clear
    told,                      \* the last firing message the receiver got
    owed,                      \* firing when the receiver was configured
    faults, outages, changes, updates

db == <<receiver, row, event>>
loop == <<failingSince, paused, pc, to, todo, clean, passAt>>
history == <<clearRun, told, owed>>
budget == <<faults, outages, changes, updates>>
alertVars == <<now, updating, receiver, row, event, failingSince, paused, pc, to, todo, clean, passAt,
               clearRun, told, owed, faults, outages, changes, updates>>

NoRow == [known |-> FALSE, active |-> FALSE, clear |-> Null, fired |-> Null, sent |-> ""]
Time == Int
Messages == (Conditions \X {"firing", "resolved"}) \cup (Events \X {"event"})

AlertsTypeOK ==
    /\ now \in Nat /\ updating \in BOOLEAN /\ receiver \in Receivers \cup {Nobody}
    /\ row \in [Conditions -> [known : BOOLEAN, active : BOOLEAN, clear : Time, fired : Time,
                               sent : {"", "firing", "resolved"}]]
    /\ \A c \in Conditions : row[c].active => row[c].known /\ row[c].clear = Null
    /\ event \in [Events -> [state : {"none", "queued", "sent", "dropped"}, at : Time]]
    /\ failingSince \in Time /\ paused \in BOOLEAN
    /\ pc \in {"down", "idle", "evaluate", "record", "send"}
    /\ to \in Receivers \cup {Nobody} /\ todo \subseteq Messages /\ clean \in BOOLEAN /\ passAt \in Time
    /\ clearRun \in [Conditions -> Time] /\ told \in [Conditions -> Time]
    /\ owed \subseteq Conditions
    /\ faults \in Nat /\ outages \in Nat /\ changes \in Nat /\ updates \in Nat

AlertsInit ==
    /\ now = 1 /\ updating = FALSE /\ receiver \in Receivers \cup {Nobody}
    /\ row = [c \in Conditions |-> NoRow]
    /\ event = [e \in Events |-> [state |-> "none", at |-> Null]]
    /\ failingSince = Null /\ paused = FALSE
    /\ pc = "idle" /\ to = Nobody /\ todo = {} /\ clean = FALSE /\ passAt = 0
    /\ clearRun = [c \in Conditions |-> Null] /\ told = clearRun /\ owed = {}
    /\ faults = 0 /\ outages = 0 /\ changes = 0 /\ updates = 0

Fault == faults < MaxFaults /\ faults' = faults + 1 /\ UNCHANGED <<outages, changes, updates>>
Outage == outages < MaxOutages /\ outages' = outages + 1 /\ UNCHANGED <<faults, changes, updates>>

(***************************************************************************)
(* A pass.                                                                 *)
(***************************************************************************)
\* Tick: nothing happens while an update is under way; after it PostgreSQL's
\* failure clock starts afresh.
TickBegins ==
    /\ pc = "idle" /\ passAt < now
    /\ IF updating
         THEN paused' = TRUE /\ passAt' = now /\ UNCHANGED <<pc, failingSince, clean>>
         ELSE /\ paused' = FALSE /\ pc' = "evaluate" /\ clean' = TRUE /\ UNCHANGED passAt
              /\ failingSince' = IF paused THEN Null ELSE failingSince
    /\ UNCHANGED <<now, updating, db, to, todo, history, budget>>

\* Whether an update is under way cannot be read: no look this minute.
TickFails ==
    /\ pc = "idle" /\ passAt < now /\ Outage
    /\ passAt' = now /\ clean' = FALSE /\ clearRun' = [c \in Conditions |-> Null]
    /\ UNCHANGED <<now, updating, db, failingSince, paused, pc, to, todo, told, owed>>

\* The conditions true now, and the sources actually looked at.  A source is
\* named by the condition it has.
ActivePostgres(since) == {c \in {Unreachable} : since # Null /\ now - since >= PostgresGrace}
CheckedSources(up, since, budgetRead, looked) ==
    LET postgres == up \/ ActivePostgres(since) # {}
    IN  looked \cup {c \in {Unreachable} : postgres}
               \cup {c \in {Connections} : postgres /\ ActivePostgres(since) = {} /\ budgetRead}

\* Mutant of RowAfter: an unchecked pass does not restart the wait.
RowNotRestarted(c, active, checked) ==
    LET r == row[c]
    IN  IF c \in active THEN [r EXCEPT !.known = TRUE, !.active = TRUE, !.clear = Null]
        ELSE IF r.active /\ c \in checked THEN [r EXCEPT !.active = FALSE, !.clear = now]
        ELSE r

\* ReconcileAlerts, one condition: seen; gone from a source that was checked;
\* awaiting its resolved message while its source was not; long over.
RowAfter(c, active, checked) ==
    LET r == row[c]
    IN  IF c \in active THEN [r EXCEPT !.known = TRUE, !.active = TRUE, !.clear = Null]
        ELSE IF r.active /\ c \in checked THEN [r EXCEPT !.active = FALSE, !.clear = now]
        ELSE IF ~r.active /\ r.sent = "firing" /\ c \notin checked THEN [r EXCEPT !.clear = now]
        ELSE IF r.known /\ ~r.active /\ r.sent # "firing" /\ r.clear < now - Forget THEN NoRow
        ELSE r

DropOld(e) ==
    IF event[e].state = "queued" /\ event[e].at < now - AlertEventMaxAge
      THEN [event[e] EXCEPT !.state = "dropped"] ELSE event[e]

\* Evaluate and ReconcileAlerts; up, budgetRead, over, looked and true are what
\* the checks find.
Evaluate(up, budgetRead, over, looked, true) ==
    LET since == IF up THEN Null ELSE IF failingSince = Null THEN now ELSE failingSince
        checked == CheckedSources(up, since, budgetRead, looked)
        active == ActivePostgres(since) \cup true
                  \cup {c \in {Connections} : c \in checked /\ over}
    IN  /\ failingSince' = since
        /\ \/ /\ row' = [c \in Conditions |-> RowAfter(c, active, checked)]
              /\ event' = [e \in Events |-> DropOld(e)]
              /\ pc' = "record" /\ UNCHANGED <<clean, passAt, budget>>
           \/ /\ Outage /\ UNCHANGED <<row, event>>
              /\ pc' = "idle" /\ clean' = FALSE /\ passAt' = now
        /\ clearRun' = [c \in Conditions |->
              IF c \in active \/ c \notin checked THEN Null
              ELSE IF clearRun[c] = Null THEN now ELSE clearRun[c]]
        /\ owed' = owed \cap {c \in Conditions : row'[c].active}

EvaluatePass ==
    /\ pc = "evaluate"
    /\ \E up, budgetRead, over \in BOOLEAN, looked \in SUBSET Others :
         /\ over => budgetRead
         /\ \E true \in SUBSET looked : Evaluate(up, budgetRead, over, looked, true)
    /\ UNCHANGED <<now, updating, receiver, paused, to, todo, told>>

AlertsToSend ==
    {<<c, "firing">> : c \in {d \in Conditions :
            row[d].active /\ (row[d].fired = Null \/ row[d].fired <= now - AlertRepeat)}}
    \cup {<<c, "resolved">> : c \in {d \in Conditions :
            row[d].known /\ ~row[d].active /\ row[d].sent = "firing" /\ row[d].clear <= now - AlertClearAfter}}
    \cup {<<e, "event">> : e \in {f \in Events :
            event[f].state = "queued" /\ event[f].at >= now - AlertEventMaxAge}}

\* send takes sendMu, reads the webhook, then the pending messages.
SendBegins ==
    /\ pc = "record"
    /\ IF receiver = Nobody THEN pc' = "idle" /\ passAt' = now /\ UNCHANGED <<to, todo>>
       ELSE pc' = "send" /\ to' = receiver /\ todo' = AlertsToSend /\ UNCHANGED passAt
    /\ UNCHANGED <<now, updating, db, failingSince, paused, clean, history, budget>>

\* The webhook, or what is pending, cannot be read.
SendUnread ==
    /\ pc = "record" /\ Fault
    /\ pc' = "idle" /\ passAt' = now /\ clean' = FALSE
    /\ UNCHANGED <<now, updating, db, failingSince, paused, to, todo, history>>

\* sendBudget is spent with messages left, though none failed; they wait for
\* the next pass.
SendBudgetSpent ==
    /\ pc = "send" /\ todo # {} /\ todo' = {}
    /\ pc' = "idle" /\ to' = Nobody /\ passAt' = now /\ clean' = FALSE
    /\ UNCHANGED <<now, updating, db, failingSince, paused, history, budget>>

SendEnds ==
    /\ pc = "send" /\ todo = {}
    /\ pc' = "idle" /\ to' = Nobody /\ passAt' = now
    /\ UNCHANGED <<now, updating, db, failingSince, paused, todo, clean, history, budget>>

MarkAlertSent(m) ==
    CASE m[2] = "event"    -> event' = [event EXCEPT ![m[1]].state = "sent"] /\ UNCHANGED row
      [] m[2] = "firing"   -> row' = [row EXCEPT ![m[1]].sent = "firing", ![m[1]].fired = now] /\ UNCHANGED event
      [] m[2] = "resolved" -> row' = [row EXCEPT ![m[1]].sent = "resolved"] /\ UNCHANGED event

\* The webhook the pass has read gets the message.
Hear(m) ==
    IF m[2] = "firing" /\ to = receiver
      THEN told' = [told EXCEPT ![m[1]] = now] /\ owed' = owed \ {m[1]}
      ELSE UNCHANGED <<told, owed>>

\* Conditions before events.
NextMessage(m) == m \in todo /\ (m[2] = "event" => \A n \in todo : n[2] = "event")

\* One delivery: accepted and recorded; accepted but not recorded; refused
\* (the rest still go); failed, heard or not (the pass stops).
Deliver(m) ==
    /\ pc = "send" /\ NextMessage(m) /\ todo' = todo \ {m}
    /\ Hear(m) /\ MarkAlertSent(m)
    /\ UNCHANGED <<now, updating, receiver, failingSince, paused, pc, to, clean, passAt, clearRun, budget>>

DeliverUnrecorded(m) ==
    /\ pc = "send" /\ NextMessage(m) /\ todo' = todo \ {m} /\ Fault
    /\ Hear(m) /\ clean' = FALSE
    /\ UNCHANGED <<now, updating, db, failingSince, paused, pc, to, passAt, clearRun>>

DeliverRefused(m) ==
    /\ pc = "send" /\ NextMessage(m) /\ todo' = todo \ {m} /\ Fault
    /\ clean' = FALSE
    /\ UNCHANGED <<now, updating, db, failingSince, paused, pc, to, passAt, history>>

DeliverFails(m) ==
    /\ pc = "send" /\ NextMessage(m) /\ todo' = {} /\ Fault
    /\ Hear(m) \/ UNCHANGED <<told, owed>>
    /\ pc' = "idle" /\ to' = Nobody /\ clean' = FALSE /\ passAt' = now
    /\ UNCHANGED <<now, updating, db, failingSince, paused, clearRun>>

(***************************************************************************)
(* The others.                                                             *)
(***************************************************************************)
SettingsReset ==
    row' = [c \in Conditions |-> IF row[c].active THEN [row[c] EXCEPT !.sent = "", !.fired = Null]
                                 ELSE [row[c] EXCEPT !.sent = ""]]

\* Mutant of SaveLocked: the settings are saved while a pass is delivering.
SaveUnlocked == TRUE

\* SaveWebhook waits for sendMu, which a delivery pass holds.
SaveLocked == pc # "send"

SaveWebhook(r) ==
    /\ SaveLocked /\ r # receiver /\ changes < MaxChanges /\ changes' = changes + 1
    /\ receiver' = r /\ SettingsReset
    /\ told' = [c \in Conditions |-> Null]
    /\ owed' = IF r = Nobody THEN {} ELSE {c \in Conditions : row[c].active}
    /\ clean' = FALSE
    /\ UNCHANGED <<now, updating, event, failingSince, paused, pc, to, todo, passAt, clearRun, faults, outages, updates>>

RecordAlertEvent(e) ==
    /\ event[e].state = "none" /\ ~updating
    /\ event' = [event EXCEPT ![e] = [state |-> "queued", at |-> now]]
    /\ UNCHANGED <<now, updating, receiver, row, loop, history, budget>>

UpdateBegins ==
    /\ ~updating /\ updates < MaxUpdates /\ updates' = updates + 1 /\ updating' = TRUE
    /\ UNCHANGED <<now, db, loop, history, faults, outages, changes>>

UpdateEnds ==
    /\ updating /\ updating' = FALSE
    /\ UNCHANGED <<now, db, loop, history, budget>>

Crash ==
    /\ pc # "down" /\ Outage
    /\ pc' = "down" /\ to' = Nobody /\ todo' = {} /\ clean' = FALSE
    /\ failingSince' = Null /\ paused' = FALSE
    /\ UNCHANGED <<now, updating, db, passAt, history>>

Start ==
    /\ pc = "down" /\ pc' = "idle"
    /\ UNCHANGED <<now, updating, db, failingSince, paused, to, todo, clean, passAt, history, budget>>

\* The minute is over; one without a look at the conditions breaks every run.
Advance ==
    /\ now < MaxNow /\ now' = now + 1
    /\ pc = "down" \/ (pc = "idle" /\ passAt = now)
    /\ clearRun' = IF pc = "down" \/ paused THEN [c \in Conditions |-> Null] ELSE clearRun
    /\ clean' = FALSE
    /\ UNCHANGED <<updating, db, failingSince, paused, pc, to, todo, passAt, told, owed, budget>>

AlertsNext ==
    \/ TickBegins \/ TickFails \/ EvaluatePass
    \/ SendBegins \/ SendUnread \/ SendBudgetSpent \/ SendEnds
    \/ \E m \in Messages : Deliver(m) \/ DeliverUnrecorded(m) \/ DeliverRefused(m) \/ DeliverFails(m)
    \/ \E r \in Receivers \cup {Nobody} : SaveWebhook(r)
    \/ \E e \in Events : RecordAlertEvent(e)
    \/ UpdateBegins \/ UpdateEnds \/ Crash \/ Start \/ Advance

AlertsSpec == AlertsInit /\ [][AlertsNext]_alertVars

(***************************************************************************)
(* Properties.                                                             *)
(***************************************************************************)
\* A pass ended this minute in which nothing failed, the send budget was enough
\* and nothing was changed meanwhile, with a receiver configured.
CleanPass == clean /\ pc = "idle" /\ receiver # Nobody

\* "A condition Pgfy cannot check is never reported as resolved", and "once they
\* have stayed clear for ten minutes": when a resolved message goes out, every
\* minute of the wait has had a check that found the condition clear, unless the
\* wait was cut by an update or an outage.
ResolvedWasWatched ==
    [][\A c \in Conditions : Deliver(<<c, "resolved">>) /\ updates = 0 /\ outages = 0
         => clearRun[c] # Null /\ now - clearRun[c] >= AlertClearAfter - 1]_alertVars

\* The same without the exception.
ResolvedWasAlwaysWatched ==
    [][\A c \in Conditions : Deliver(<<c, "resolved">>)
         => clearRun[c] # Null /\ now - clearRun[c] >= AlertClearAfter - 1]_alertVars

\* After a clean pass the receiver is up to date: it has been told of everything
\* that was firing when it was configured, of every active condition within the
\* repeat time, of the end of what it was told of once that has been clear long
\* enough, and of every event recorded before the pass.  The exception the code
\* makes: a condition that was clear when the receiver was configured keeps the
\* time of the message its predecessor got.
ReceiverIsCurrent ==
    CleanPass => /\ owed = {}
                 /\ \A c \in Conditions :
                      /\ row[c].active =>
                           LET last == IF told[c] = Null THEN row[c].fired ELSE told[c]
                           IN  last # Null /\ now - last < AlertRepeat
                      /\ row[c].sent = "firing" /\ ~row[c].active => now - row[c].clear < AlertClearAfter
                 /\ \A e \in Events : event[e].state = "queued" => event[e].at = now

\* "Nothing is recorded or sent while an update holds the installation quiet."
NothingSentDuringUpdate ==
    [][updating => \A m \in Messages : ~Deliver(m)]_alertVars
=============================================================================
