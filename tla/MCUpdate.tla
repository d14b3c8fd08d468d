------------------------------ MODULE MCUpdate ------------------------------
(* Small instances of Update. *)
EXTENDS Update

TwoFiles == <<"state.json", "config/install.json">>
=============================================================================
