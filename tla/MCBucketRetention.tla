------------------------- MODULE MCBucketRetention -------------------------
(* A small instance of BucketRetention. *)
EXTENDS BucketRetention

\* Two faults; a fault and a change of the settings; an operator; a neighbour.
Some == {<<2, 0, 0, 0>>, <<1, 1, 0, 0>>, <<0, 0, 1, 0>>, <<0, 0, 0, 1>>}

OneOfEach == [daily |-> 1, weekly |-> 1]
\* Several backups of a day, days of a week, and both sides of two Mondays.
Month == {0, 9, 23, 24, 100, 167, 168, 190, 335, 336, 504}
FewOfEach == [daily : {1, 2}, weekly : {0, 2}]
=============================================================================
