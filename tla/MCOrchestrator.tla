--------------------------- MODULE MCOrchestrator ---------------------------
(* Values of the constants of Orchestrator for TLC: three submissions, two *)
(* of the same task; task t1 has its own retry limit, t2 the default.      *)
EXTENDS Orchestrator, TLC

CONSTANTS j1, j2, j3, t1, t2

MCJobs           == {j1, j2, j3}
MCTasks          == {t1, t2}
MCTaskOf         == (j1 :> t1) @@ (j2 :> t1) @@ (j3 :> t2)
MCTaskMaxRetries == (t1 :> 1) @@ (t2 :> 0)
MCMaxMilli       == Cardinality(MCJobs)

(* Two submissions of the same task are interchangeable.                   *)
SameTask == Permutations({j1, j2})
=============================================================================
