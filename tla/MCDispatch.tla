----------------------------- MODULE MCDispatch -----------------------------
(* Values of the constants of Dispatch for TLC: a task loaded at startup,  *)
(* a request to add one that is always due ("0s" is a duration), and       *)
(* a request to run a task.                                                *)
EXTENDS Dispatch, TLC

CONSTANTS a, soon, now

MCLoaded      == {a}
MCRequests    == {soon}
MCInterval    == (a :> 1) @@ (soon :> 0)
MCRunRequests == {now}
=============================================================================
