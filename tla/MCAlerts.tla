------------------------------ MODULE MCAlerts ------------------------------
(* Small instances of Alerts. *)
EXTENDS Alerts, TLC

ReceiverSymmetry == Permutations(Receivers)
=============================================================================
