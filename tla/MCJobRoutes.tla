----------------------------- MODULE MCJobRoutes -----------------------------
(* Model values for JobRoutes: two job directories, two threads.  The *)
(* directories are interchangeable, and so are the threads.                  *)
EXTENDS JobRoutes, TLC
CONSTANTS j1, j2, t1, t2
MCJobs == {j1, j2}
TwoThreads == {t1, t2}
MCSymmetry == Permutations(MCJobs) \cup Permutations(TwoThreads)
=============================================================================
