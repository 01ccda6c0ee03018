----------------------------- MODULE MCProjects -----------------------------
(* Model values for Projects: the engine of the application and a second one. *)
(* Engines are interchangeable, and so are names.                             *)
EXTENDS Projects, TLC
CONSTANTS e1, e2, n1, n2
OneEngine == {e1}
TwoEngines == {e1, e2}
MCNames == {n1, n2}
\* Bound: after a first intrusion only the next state is looked at, and the
\* properties are conditional on there being none.
Undisturbed == ~intruded
MCSymmetry == Permutations(TwoEngines) \cup Permutations(MCNames)
=============================================================================
