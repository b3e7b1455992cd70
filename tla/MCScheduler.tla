----------------------------- MODULE MCScheduler -----------------------------
(* Values of the constants of Scheduler for TLC: two tasks loaded at       *)
(* startup, and requests for one that is due at once ("0s" is a duration,  *)
(* and so is "-1h") and for one whose schedule does not parse.             *)
EXTENDS Scheduler, TLC

CONSTANTS a, b, soon, bad

MCLoaded   == {a, b}
MCRequests == {soon, bad}
MCInterval == (a :> 1) @@ (b :> 2) @@ (soon :> -1) @@ (bad :> Unparsable)
=============================================================================
