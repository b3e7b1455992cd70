------------------------------ MODULE Workspace ------------------------------
(***************************************************************************)
(* The `.agent/` directory and the ductwork processes that share it.  The  *)
(* first process to find no config.json sets the directory up, file by     *)
(* file; every process then reads config.json, security.json and           *)
(* dependencies.json, and a server also the task files, from which it      *)
(* fills its schedule once, at startup.                                    *)
(*                                                                         *)
(* No file is written atomically: os.WriteFile truncates it and then       *)
(* writes, and a process that dies or whose disk is full in between leaves *)
(* it "torn".  Nothing locks the directory, so processes that set it up,   *)
(* start or build tasks (module Build) at the same time meet in its files. *)
(*                                                                         *)
(* There is no next-state relation here: module Build adds the steps of    *)
(* `ductwork build` and composes the two.                                  *)
(***************************************************************************)
EXTENDS Naturals, Sequences, FiniteSets, Functions

CONSTANTS
    Procs,      \* ductwork processes
    Tasks,      \* names of task files
    Kinds,      \* the definitions a task file may hold
    DiskMayFail,\* TRUE: a call of the file system may fail
    MaxStarts   \* bound: how often processes are started

\* What a definition comes to at the start of a server.
AllKinds == {"immediate", "scheduled", "unparsable"}

\* What else a task file may hold: nothing yet, or what is left of a write
\* that failed or of two that met - none of it parses.
Unreadable == {"torn", "mixed"}

ASSUME WorkspaceAssumption ==
    Kinds \subseteq AllKinds /\ DiskMayFail \in BOOLEAN /\ MaxStarts \in Nat

\* The files Init writes, in its order.
SetupFiles == <<"config", "tools", "security", "dependencies">>

Commands == {"start", "build", "init"}

VARIABLES
    setup,      \* each file Init writes
    tasks,      \* each file of tasks/
    pc,         \* where each process is
    cmd,        \* the command it was started with
    at,         \* the index of the file Init is at
    left,       \* LoadTasks: the entries of tasks/ not yet read
    found,      \* LoadTasks: the tasks read
    schedule,   \* the tasks in a server's heap
    warned,     \* the server logged "could not load tasks"
    changed,    \* ghost: task files others changed since the process looked
    lost,       \* ghost: setup files whose writer died or failed writing them
    starts      \* number of starts

bootVars  == <<cmd, at, left, found, schedule, warned, starts>>
wsVars    == <<setup, tasks, pc, changed, lost, bootVars>>

\* How a process ends: done or dead, with what it read keeping it from
\* starting, or with an error of the file system.
Endings == {"off", "refused", "failed"}

Running(p) == pc[p] \notin Endings

\* The file Init is at.
File(p) == SetupFiles[at[p]]

\* What the process saw of tasks/ still matters to what it does or has done.
HasLooked(q) == pc[q] \in {"load", "serving", "openTask", "writeTask"}

InSetup(p, f) == pc[p] = "write" /\ File(p) = f

(* Task file t gets another content, which the others have not seen.       *)
PutTask(p, t, content) ==
    /\ tasks' = [tasks EXCEPT ![t] = content]
    /\ changed' = [q \in Procs |->
         CASE q = p        -> IF content = "torn" THEN changed[p] ELSE {}
           [] q # p /\ HasLooked(q) -> changed[q] \cup {t}
           [] OTHER         -> changed[q]]

(* The process ends: nothing of it is left but its files.                  *)
Leaves(p, end) ==
    /\ pc' = [pc EXCEPT ![p] = end]
    /\ cmd' = [cmd EXCEPT ![p] = "none"]
    /\ at' = [at EXCEPT ![p] = 1]
    /\ left' = [left EXCEPT ![p] = {}]
    /\ found' = [found EXCEPT ![p] = {}]
    /\ schedule' = [schedule EXCEPT ![p] = {}]
    /\ warned' = [warned EXCEPT ![p] = FALSE]
    /\ changed' = [changed EXCEPT ![p] = {}]
    /\ UNCHANGED <<setup, tasks, starts>>

(* Faulty variants of the steps below, none of them part of Boot.          *)

(* A security.json that must be there.                                     *)
ReadSecurityStrict(p) ==
    /\ pc[p] = "security"
    /\ IF setup["security"] # "whole"
         THEN Leaves(p, "refused") /\ UNCHANGED lost
         ELSE /\ pc' = [pc EXCEPT ![p] = "dependencies"]
              /\ UNCHANGED <<setup, tasks, changed, lost, bootVars>>

(* A LoadTasks that keeps what it has read when a file does not parse.     *)
LoadTaskPartial(p, t) ==
    /\ pc[p] = "load" /\ t \in left[p]
    /\ IF tasks[t] \in Unreadable
         THEN /\ left' = [left EXCEPT ![p] = {}]
              /\ warned' = [warned EXCEPT ![p] = TRUE]
              /\ UNCHANGED found
         ELSE /\ left' = [left EXCEPT ![p] = @ \ {t}]
              /\ found' = [found EXCEPT ![p] = @ \cup {[task |-> t, kind |-> tasks[t]]}]
              /\ UNCHANGED warned
    /\ UNCHANGED <<setup, tasks, pc, cmd, at, schedule, changed, lost, starts>>

-----------------------------------------------------------------------------
\* The first process finds nothing.
WorkspaceInit ==
    /\ setup = [f \in Range(SetupFiles) |-> "none"]
    /\ tasks = [t \in Tasks |-> "none"]
    /\ pc = [p \in Procs |-> "off"]
    /\ cmd = [p \in Procs |-> "none"]
    /\ at = [p \in Procs |-> 1]
    /\ left = [p \in Procs |-> {}]
    /\ found = [p \in Procs |-> {}]
    /\ schedule = [p \in Procs |-> {}]
    /\ warned = [p \in Procs |-> FALSE]
    /\ changed = [p \in Procs |-> {}]
    /\ lost = {}
    /\ starts = 0

(* A process is started.  `ductwork init` always writes the files; every   *)
(* other command only if EnsureDir sees no config.json.                    *)
Start(p, c) ==
    /\ ~Running(p) /\ starts < MaxStarts
    /\ starts' = starts + 1
    /\ cmd' = [cmd EXCEPT ![p] = c]
    /\ pc' = [pc EXCEPT ![p] = IF c = "init" \/ setup["config"] = "none" THEN "open" ELSE "config"]
    /\ UNCHANGED <<setup, tasks, at, left, found, schedule, warned, changed, lost>>

(* Init: os.WriteFile truncates the next file ...                          *)
OpenSetup(p) ==
    /\ pc[p] = "open"
    /\ setup' = [setup EXCEPT ![File(p)] = "torn"]
    /\ pc' = [pc EXCEPT ![p] = "write"]
    /\ UNCHANGED <<tasks, changed, lost, bootVars>>

(* ... and writes it, with the same defaults as any other process would.   *)
(* After the last, `init` is done, and another command goes on to read the *)
(* files.                                                                  *)
WriteSetup(p) ==
    /\ pc[p] = "write"
    /\ setup' = [setup EXCEPT ![File(p)] = "whole"]
    /\ lost' = lost \ {File(p)}
    /\ \/ /\ at[p] < Len(SetupFiles)
          /\ at' = [at EXCEPT ![p] = at[p] + 1]
          /\ pc' = [pc EXCEPT ![p] = "open"]
          /\ UNCHANGED cmd
       \/ /\ at[p] = Len(SetupFiles)
          /\ at' = [at EXCEPT ![p] = 1]
          /\ pc' = [pc EXCEPT ![p] = IF cmd[p] = "init" THEN "off" ELSE "config"]
          /\ cmd' = [cmd EXCEPT ![p] = IF cmd[p] = "init" THEN "none" ELSE cmd[p]]
    /\ UNCHANGED <<tasks, changed, left, found, schedule, warned, starts>>

(* A call of the file system fails and the command returns its error:      *)
(* making the directories, opening or writing a setup file, which is left  *)
(* as it is; reading one; opening the log, which comes before security.json*)
(* is read; or making the history directory, before the tasks are listed.  *)
DiskFails(p) ==
    /\ DiskMayFail
    /\ pc[p] \in {"open", "write", "config", "security", "dependencies", "list"}
    /\ Leaves(p, "failed")
    /\ lost' = lost \cup {f \in Range(SetupFiles) : InSetup(p, f) /\ setup[f] = "torn"}

(* LoadConfig reads config.json, which is there by now.                    *)
ReadConfig(p) ==
    /\ pc[p] = "config"
    /\ IF setup["config"] = "torn"
         THEN Leaves(p, "refused") /\ UNCHANGED lost
         ELSE /\ pc' = [pc EXCEPT ![p] = "security"]
              /\ UNCHANGED <<setup, tasks, changed, lost, bootVars>>

(* security.json and dependencies.json have defaults if they are missing.  *)
ReadSecurity(p) ==
    /\ pc[p] = "security"
    /\ IF setup["security"] = "torn"
         THEN Leaves(p, "refused") /\ UNCHANGED lost
         ELSE /\ pc' = [pc EXCEPT ![p] = "dependencies"]
              /\ UNCHANGED <<setup, tasks, changed, lost, bootVars>>

(* A builder goes on to its agent, a server to the task files.             *)
ReadDependencies(p) ==
    /\ pc[p] = "dependencies"
    /\ IF setup["dependencies"] = "torn"
         THEN Leaves(p, "refused") /\ UNCHANGED lost
         ELSE /\ pc' = [pc EXCEPT ![p] = IF cmd[p] = "build" THEN "model" ELSE "list"]
              /\ UNCHANGED <<setup, tasks, changed, lost, bootVars>>

(* LoadTasks lists the directory; without the list the server starts       *)
(* without tasks ...                                                       *)
ListTasks(p) ==
    /\ pc[p] = "list"
    /\ \/ /\ left' = [left EXCEPT ![p] = {t \in Tasks : tasks[t] # "none"}]
          /\ UNCHANGED warned
       \/ /\ DiskMayFail
          /\ left' = [left EXCEPT ![p] = {}]
          /\ warned' = [warned EXCEPT ![p] = TRUE]
    /\ changed' = [changed EXCEPT ![p] = {}]
    /\ pc' = [pc EXCEPT ![p] = "load"]
    /\ UNCHANGED <<setup, tasks, cmd, at, found, schedule, lost, starts>>

(* ... and reads one file after the other.  At one that it cannot read or  *)
(* parse it gives up, and again the server starts without tasks.           *)
LoadTask(p, t) ==
    /\ pc[p] = "load" /\ t \in left[p]
    /\ \/ /\ tasks[t] \notin Unreadable
          /\ left' = [left EXCEPT ![p] = @ \ {t}]
          /\ found' = [found EXCEPT ![p] = @ \cup {[task |-> t, kind |-> tasks[t]]}]
          /\ UNCHANGED warned
       \/ /\ DiskMayFail \/ tasks[t] \in Unreadable
          /\ left' = [left EXCEPT ![p] = {}]
          /\ found' = [found EXCEPT ![p] = {}]
          /\ warned' = [warned EXCEPT ![p] = TRUE]
    /\ UNCHANGED <<setup, tasks, pc, cmd, at, schedule, changed, lost, starts>>

(* Scheduler.LoadTasks, before anything runs: a schedule that does not     *)
(* parse keeps the server from starting.                                   *)
LoadSchedule(p) ==
    /\ pc[p] = "load" /\ left[p] = {}
    /\ IF \E x \in found[p] : x.kind = "unparsable"
         THEN Leaves(p, "refused") /\ UNCHANGED lost
         ELSE /\ pc' = [pc EXCEPT ![p] = "serving"]
              /\ schedule' = [schedule EXCEPT ![p] =
                                {x.task : x \in {y \in found[p] : y.kind = "scheduled"}}]
              /\ found' = [found EXCEPT ![p] = {}]
              /\ UNCHANGED <<setup, tasks, cmd, at, left, warned, changed, lost, starts>>

Boot(p) ==
    \/ OpenSetup(p) \/ WriteSetup(p) \/ DiskFails(p)
    \/ ReadConfig(p) \/ ReadSecurity(p) \/ ReadDependencies(p)
    \/ ListTasks(p) \/ (\E t \in Tasks : LoadTask(p, t)) \/ LoadSchedule(p)

-----------------------------------------------------------------------------
(* Properties.                                                             *)

WorkspaceTypeOK ==
    /\ setup \in [Range(SetupFiles) -> {"none", "torn", "whole"}]
    /\ tasks \in [Tasks -> Kinds \cup {"none"} \cup Unreadable]
    /\ cmd \in [Procs -> Commands \cup {"none"}]
    /\ \A p \in Procs : cmd[p] = "none" <=> ~Running(p)
    /\ at \in [Procs -> DOMAIN SetupFiles]
    /\ left \in [Procs -> SUBSET Tasks]
    /\ found \in [Procs -> SUBSET [task : Tasks, kind : Kinds]]
    /\ schedule \in [Procs -> SUBSET Tasks]
    /\ warned \in [Procs -> BOOLEAN]
    /\ changed \in [Procs -> SUBSET Tasks]
    /\ lost \subseteq Range(SetupFiles)
    /\ starts \in 0..MaxStarts

(* Apart from errors of its own calls of the file system, which end it as  *)
(* "failed", a process refuses to start only because a setup file is       *)
(* half-written, by a process that is still at it or died or failed at it  *)
(* (only `ductwork init` mends that), or because a schedule it read does   *)
(* not parse.  A process that ended between two files, a directory that is *)
(* half set up and torn task files do not keep another from starting.      *)
RefusedForCause ==
    [][\A p \in Procs :
         Running(p) /\ pc'[p] = "refused" =>
           \/ \E f \in {"config", "security", "dependencies"} :
                 f \in lost \/ \E q \in Procs : InSetup(q, f)
           \/ \E x \in found[p] : x.kind = "unparsable"]_wsVars

(* A server schedules every scheduled task whose file was there and not    *)
(* touched since, and no other, or it has said that it could not load the  *)
(* tasks, and then has none.                                               *)
SchedulesWhatIsThere ==
    \A p \in Procs : pc[p] = "serving" =>
      IF warned[p]
        THEN schedule[p] = {}
        ELSE \A t \in Tasks \ changed[p] : t \in schedule[p] <=> tasks[t] = "scheduled"
=============================================================================
