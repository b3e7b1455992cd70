---------------------------- MODULE MCAgentLoop ----------------------------
(* Values of the constants of AgentLoop for TLC: two executions that share *)
(* a session directory, and for some runs one on another worker host.      *)
EXTENDS AgentLoop, TLC

CONSTANTS p1, p2, p3, d1, d2

SameHost  == {p1, p2}
MCProcs   == SameHost \cup {p3}
MCDirs    == {d1, d2}
MCDirOf   == [p \in MCProcs |-> IF p \in SameHost THEN d1 ELSE d2]

(* Executions on the same host are interchangeable.                        *)
AnyOfHost == Permutations(SameHost)

OneDir    == {d1}
SharedDir == [p \in SameHost |-> d1]
=============================================================================
