-------------------------- MODULE QueueContract ---------------------------
(***************************************************************************)
(* What the job queue promises to whoever asks it for work, without its    *)
(* table, worker, clock, maintenance flag or provisioner: one backup or    *)
(* restore is accepted at a time and only by an idle queue; a job that was *)
(* accepted ends once and keeps its result; a deletion is pursued by one   *)
(* job at a time, by another when that one failed or was interrupted, and  *)
(* nothing but a delete job that succeeds removes a project.               *)
(***************************************************************************)
CONSTANTS Projects, JobIds

VARIABLES
    heavy,     \* the backups and restores accepted and not ended
    deleters,  \* for each project, the delete jobs accepted and not ended
    life,      \* whether the project is open, marked for deletion or removed
    result     \* what became of a job id: "none", "open" or how it ended

contract == <<heavy, deleters, life, result>>

Init ==
    /\ heavy = {}
    /\ deleters = [p \in Projects |-> {}]
    /\ life = [p \in Projects |-> "open"]
    /\ result = [j \in JobIds |-> "none"]

\* A backup or restore is accepted: nothing else may be waiting or running.
Accept(j) ==
    /\ heavy = {} /\ \A p \in Projects : deleters[p] = {}
    /\ result[j] = "none"
    /\ heavy' = {j}
    /\ result' = [result EXCEPT ![j] = "open"]
    /\ UNCHANGED <<deleters, life>>

\* A deletion is accepted; the backup or restore of the same project that was
\* still waiting is given up in the same step.
Mark(p, j, given) ==
    /\ life[p] = "open" /\ result[j] = "none"
    /\ deleters[p] = {}
    /\ given \subseteq heavy
    /\ life' = [life EXCEPT ![p] = "deleting"]
    /\ deleters' = [deleters EXCEPT ![p] = {j}]
    /\ heavy' = heavy \ given
    /\ result' = [i \in JobIds |-> IF i = j THEN "open" ELSE IF i \in given THEN "failed" ELSE result[i]]

\* Deletions that stopped short are taken up again, each by one new job.
Retry(jobOf) ==
    /\ \A p \in DOMAIN jobOf : life[p] = "deleting" /\ deleters[p] = {} /\ result[jobOf[p]] = "none"
    /\ \A p, q \in DOMAIN jobOf : jobOf[p] = jobOf[q] => p = q
    /\ deleters' = [p \in Projects |-> IF p \in DOMAIN jobOf THEN {jobOf[p]} ELSE deleters[p]]
    /\ result' = [j \in JobIds |-> IF \E p \in DOMAIN jobOf : jobOf[p] = j THEN "open" ELSE result[j]]
    /\ UNCHANGED <<heavy, life>>

\* A backup or restore ends.
Finish(j, how) ==
    /\ j \in heavy /\ how \in {"succeeded", "failed"}
    /\ heavy' = heavy \ {j}
    /\ result' = [result EXCEPT ![j] = how]
    /\ UNCHANGED <<deleters, life>>

\* An attempt to delete fails; the mark stays.
DeleteFails(p, j) ==
    /\ j \in deleters[p]
    /\ deleters' = [deleters EXCEPT ![p] = @ \ {j}]
    /\ result' = [result EXCEPT ![j] = "failed"]
    /\ UNCHANGED <<heavy, life>>

\* The project is removed exactly when the job that deletes it succeeds.
Remove(p, j) ==
    /\ life[p] = "deleting" /\ j \in deleters[p]
    /\ life' = [life EXCEPT ![p] = "removed"]
    /\ deleters' = [deleters EXCEPT ![p] = @ \ {j}]
    /\ result' = [result EXCEPT ![j] = "succeeded"]
    /\ UNCHANGED heavy

\* A restart gives up jobs that were accepted; none is reported as a success.
Interrupt(given) ==
    /\ \A j \in given : result[j] = "open"
    /\ heavy' = heavy \ given
    /\ deleters' = [p \in Projects |-> deleters[p] \ given]
    /\ result' = [j \in JobIds |-> IF j \in given THEN "interrupted" ELSE result[j]]
    /\ UNCHANGED life

Next ==
    \/ \E j \in JobIds : Accept(j)
    \/ \E p \in Projects, j \in JobIds, given \in SUBSET heavy : Mark(p, j, given)
    \/ \E some \in SUBSET Projects : \E jobOf \in [some -> JobIds] : Retry(jobOf)
    \/ \E j \in JobIds, how \in {"succeeded", "failed"} : Finish(j, how)
    \/ \E p \in Projects, j \in JobIds : DeleteFails(p, j) \/ Remove(p, j)
    \/ \E given \in SUBSET JobIds : Interrupt(given)

Spec == Init /\ [][Next]_contract
=============================================================================
