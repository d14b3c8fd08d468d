------------------------------- MODULE MCAuth -------------------------------
(* Small instances of Auth. *)
EXTENDS Auth, TLC

Https == <<"https">>
TunnelToHttps == <<"tunnel", "https">>
LoginSymmetry == Permutations(Logins)
=============================================================================
