-------------------------- MODULE RetentionPolicy --------------------------
(***************************************************************************)
(* selectExpired: which complete backups of one folder the operator's      *)
(* policy no longer keeps.  A backup is the hour it was taken, counted     *)
(* from a Monday at midnight UTC, so days and ISO weeks are quotients.     *)
(***************************************************************************)
EXTENDS Integers, FiniteSets, FiniteSetsExt

CONSTANT Policy     \* the operator's policy

\* BackupPolicy.Validate
Validate(p) == p \in [daily : 1..90, weekly : 0..52]

ASSUME PolicyAssumption == Validate(Policy)

Day == 24
Week == 7 * Day
DayOf(t) == t \div Day
WeekOf(t) == t \div Week

\* Mutant of Step: a day whose slot is used falls through to the weekly series.
StepWithoutContinue(t, acc, at, p) ==
    IF DayOf(t) \notin acc.days /\ Cardinality(acc.days) < p.daily
      THEN [acc EXCEPT !.days = @ \cup {DayOf(t)}, !.keep = @ \cup {t}]
    ELSE IF WeekOf(t) \notin acc.weeks /\ Cardinality(acc.weeks) < p.weekly
      THEN [acc EXCEPT !.weeks = @ \cup {WeekOf(t)}, !.keep = @ \cup {t}]
    ELSE [acc EXCEPT !.keep = @ \cup IF t > at - Day THEN {t} ELSE {}]

\* One turn of the loop: `days` and `weeks` are the series picked so far, `keep`
\* what they and the last day keep.
Step(t, acc, at, p) ==
    IF DayOf(t) \notin acc.days /\ Cardinality(acc.days) < p.daily
      THEN [acc EXCEPT !.days = @ \cup {DayOf(t)}, !.keep = @ \cup {t}]
    ELSE IF /\ DayOf(t) \notin acc.days
            /\ WeekOf(t) \notin acc.weeks /\ Cardinality(acc.weeks) < p.weekly
      THEN [acc EXCEPT !.weeks = @ \cup {WeekOf(t)}, !.keep = @ \cup {t}]
    ELSE [acc EXCEPT !.keep = @ \cup IF t > at - Day THEN {t} ELSE {}]

\* Mutant of SelectExpired: rows are taken oldest first.
SelectOldestFirst(complete, p, at) ==
    LET Loop[rest \in SUBSET complete] ==
          IF rest = {} THEN [days |-> {}, weeks |-> {}, keep |-> {}]
          ELSE Step(Max(rest), Loop[rest \ {Max(rest)}], at, p)
    IN IF complete = {} THEN {} ELSE complete \ ({Max(complete)} \cup Loop[complete].keep)

\* Mutant of SelectExpired: only what is a day old counts, the newest included.
SelectOld(complete, p, at) == {t \in complete : t <= at - Day}

\* The newest is kept in any case; the loop, which only adds to what is kept,
\* runs over the rows newest first, and Loop[S] is its state after S.
SelectExpired(complete, p, at) ==
    LET Loop[done \in SUBSET complete] ==
          IF done = {} THEN [days |-> {}, weeks |-> {}, keep |-> {}]
          ELSE Step(Min(done), Loop[done \ {Min(done)}], at, p)
    IN IF complete = {} THEN {} ELSE complete \ ({Max(complete)} \cup Loop[complete].keep)

\* What is left of the backups S when the policy is applied after each of them
\* (execute: a successful backup is followed by reconciliation and retention).
Thinned(S, p) ==
    LET After[taken \in SUBSET S] ==
          IF taken = {} THEN {}
          ELSE LET complete == After[taken \ {Max(taken)}] \cup {Max(taken)}
               IN  complete \ SelectExpired(complete, p, Max(taken))
    IN After[S]

\* The reference: what the policy is documented to keep, stated without a loop.
Later(S, unit) == Cardinality({u \in S : u > unit})
Days(S) == {DayOf(t) : t \in S}
Weeks(S) == {WeekOf(t) : t \in S}
InDaily(t, S, p) == Later(Days(S), DayOf(t)) < p.daily
DailySeries(S, p) == {t \in S : InDaily(t, S, p) /\ \A u \in S : DayOf(u) = DayOf(t) => u <= t}
WeeklySeries(S, p) ==
    LET rest == {t \in S : ~InDaily(t, S, p)} IN
    {t \in rest : /\ Later(Weeks(rest), WeekOf(t)) < p.weekly
                  /\ \A u \in rest : WeekOf(u) = WeekOf(t) => u <= t}
Kept(S, p, at) == DailySeries(S, p) \cup WeeklySeries(S, p) \cup {t \in S : t > at - Day} \cup {Max(S)}
============================================================================
