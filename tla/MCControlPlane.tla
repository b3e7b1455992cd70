--------------------------- MODULE MCControlPlane ---------------------------
(* Values of the constants of ControlPlane for TLC: two submissions of one *)
(* task, which could share a run ID, and two worker processes.             *)
EXTENDS ControlPlane, TLC

CONSTANTS j1, j2, t1, w1, w2

MCJobs           == {j1, j2}
MCTasks          == {t1}
MCTaskOf         == [j \in MCJobs |-> t1]
MCTaskMaxRetries == t1 :> 0
MCWorkers        == {w1, w2}
MCMaxMilli       == Cardinality(MCJobs)

(* Submissions of the one task are interchangeable, and so are workers.    *)
Interchangeable == Permutations(MCJobs) \cup Permutations(MCWorkers)
=============================================================================
