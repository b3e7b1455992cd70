------------------------------ MODULE MCBuild ------------------------------
(* Values of the constants of Build for TLC: two processes, each of which  *)
(* may set the directory up, build or serve, and two task names.           *)
EXTENDS Build

CONSTANTS p1, p2, t1, t2

MCProcs == {p1, p2}
MCTasks == {t1, t2}
MCKinds == AllKinds
=============================================================================
