-------------------------- MODULE MCBackupSchedule --------------------------
(* Small instances of BackupSchedule: short days, an hour inside them. *)
EXTENDS BackupSchedule

Preferred == {[interval |-> 4, hour |-> 1], [interval |-> 4, hour |-> -1], [interval |-> 2, hour |-> 1]}
=============================================================================
