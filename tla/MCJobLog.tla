------------------------------ MODULE MCJobLog ------------------------------
(* Model values for JobLog: two distinguishable progress notes. *)
EXTENDS JobLog
CONSTANTS p1, p2
MCProgress == {p1, p2}
=============================================================================
