---------------------------- MODULE ResumableRun ----------------------------
(***************************************************************************)
(* What checkpoints promise of a run of an agent in ductwork, whatever its *)
(* executions, the disk and the processes do: one execution at a time      *)
(* works on from what was saved last, one iteration after the other; what  *)
(* is saved only grows, in one step, and goes when the run is finished.    *)
(*                                                                         *)
(* There are no files, no conversation and no way to fail half-way here;   *)
(* module AgentLoop has them, and implements this module.                  *)
(***************************************************************************)
EXTENDS Integers

CONSTANTS
    Procs,  \* executions of the run
    Dirs,   \* session directories
    DirOf   \* the directory an execution uses

Off == -1   \* "does not work"

VARIABLES
    saved,  \* the iterations saved in each directory
    done    \* the iterations each execution has behind it, or Off

rrVars == <<saved, done>>

Init ==
    /\ saved = [d \in Dirs |-> 0]
    /\ done = [p \in Procs |-> Off]

(* An execution takes up the run where it was saved.                       *)
Begin(p) ==
    /\ \A q \in Procs : done[q] = Off
    /\ done' = [done EXCEPT ![p] = saved[DirOf[p]]]
    /\ UNCHANGED saved

(* It works through the next iteration.                                    *)
Work(p) ==
    /\ done[p] # Off
    /\ done' = [done EXCEPT ![p] = @ + 1]
    /\ UNCHANGED saved

(* It saves what it has done since.                                        *)
Save(p) ==
    /\ done[p] # Off
    /\ done[p] > saved[DirOf[p]]
    /\ saved' = [saved EXCEPT ![DirOf[p]] = done[p]]
    /\ UNCHANGED done

(* It is finished, and nothing need be resumed; or it stops half-way.      *)
Finish(p) ==
    /\ done[p] # Off
    /\ done' = [done EXCEPT ![p] = Off]
    /\ saved' = [saved EXCEPT ![DirOf[p]] = 0]

Stop(p) ==
    /\ done[p] # Off
    /\ done' = [done EXCEPT ![p] = Off]
    /\ UNCHANGED saved

Next == \E p \in Procs : Begin(p) \/ Work(p) \/ Save(p) \/ Finish(p) \/ Stop(p)

Spec == Init /\ [][Next]_rrVars
=============================================================================
