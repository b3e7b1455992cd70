------------------------------- MODULE Build -------------------------------
(***************************************************************************)
(* `ductwork build`: an agent that writes task files with create_task and  *)
(* runs them with test_task, beside the other processes of module          *)
(* Workspace.  create_task asks os.Stat whether the file exists, unless it *)
(* is told to overwrite it, and then truncates and writes it.  test_task   *)
(* runs a second agent inside the tool call, with the standard output of   *)
(* the process redirected to a pipe that nobody reads before that agent    *)
(* has ended: level[p] = "test" is both.                                   *)
(*                                                                         *)
(* A builder stands for any process whose agents may call create_task.  An *)
(* agent is seen through its calls to the model, what it prints and these  *)
(* two tools, one call to an iteration; the rest is module AgentLoop.      *)
(***************************************************************************)
EXTENDS Workspace

CONSTANTS
    MaxIterations,      \* of the build agent
    MaxTestIterations,  \* of the agent of a test run
    PipeSize,           \* how many texts of an agent the pipe holds
    MaxCreates          \* bound: how many create_task calls get to write

ASSUME BuildAssumption ==
    MaxIterations \in Nat /\ MaxTestIterations \in Nat /\ PipeSize \in Nat
    /\ MaxCreates \in Nat

Levels == {"build", "test"}

NoCall == [task |-> "none"]
Calls  == [task : Tasks, kind : Kinds, overwrite : BOOLEAN]

VARIABLES
    level,      \* whose turn it is: the build agent's or the test agent's
    iteration,  \* the iterations of the two agents
    call,       \* the create_task call under way
    pipe,       \* the texts in the pipe of a test run
    creates     \* number of create_task calls that got to write

agentVars == <<level, iteration, call, pipe, creates>>
allVars   == <<wsVars, agentVars>>

MaxOf(l) == IF l = "build" THEN MaxIterations ELSE MaxTestIterations

NoIterations == [l \in Levels |-> 0]

Goto(p, to) == pc' = [pc EXCEPT ![p] = to]

-----------------------------------------------------------------------------
(* Faulty variants of the steps below, none of them part of BuildNext.     *)

(* A test agent without an iteration limit.                                *)
CallModelUncapped(p) ==
    /\ pc[p] = "model"
    /\ level[p] = "build" => iteration[p].build < MaxIterations
    /\ iteration' = [iteration EXCEPT ![p].build =
         IF level[p] = "build" THEN @ + 1 ELSE @]
    /\ \/ Goto(p, "tool")
       \/ level[p] = "test" /\ Goto(p, "print")
    /\ UNCHANGED <<setup, tasks, changed, lost, bootVars, level, call, pipe, creates>>

(* An iteration limit that is checked after one more iteration.            *)
CallModelOnceMore(p) ==
    /\ pc[p] = "model"
    /\ iteration[p][level[p]] <= MaxOf(level[p])
    /\ iteration' = [iteration EXCEPT ![p][level[p]] = @ + 1]
    /\ \/ Goto(p, "tool")
       \/ level[p] = "test" /\ Goto(p, "print")
    /\ UNCHANGED <<setup, tasks, changed, lost, bootVars, level, call, pipe, creates>>

(* A create_task that does not look for the file.                          *)
StatUnchecked(p, c) ==
    /\ pc[p] = "tool"
    /\ creates < MaxCreates
    /\ creates' = creates + 1
    /\ Goto(p, "openTask")
    /\ call' = [call EXCEPT ![p] = c]
    /\ changed' = [changed EXCEPT ![p] = {}]
    /\ UNCHANGED <<setup, tasks, lost, bootVars, level, iteration, pipe>>

-----------------------------------------------------------------------------
BuildInit ==
    /\ WorkspaceInit
    /\ level = [p \in Procs |-> "build"]
    /\ iteration = [p \in Procs |-> NoIterations]
    /\ call = [p \in Procs |-> NoCall]
    /\ pipe = [p \in Procs |-> 0]
    /\ creates = 0

(* The agent asks the model, if it has iterations left, and the answer has *)
(* a text or none.  A text for the terminal is left out.                   *)
CallModel(p) ==
    /\ pc[p] = "model"
    /\ iteration[p][level[p]] < MaxOf(level[p])
    /\ iteration' = [iteration EXCEPT ![p][level[p]] = @ + 1]
    /\ \/ Goto(p, "tool")
       \/ level[p] = "test" /\ Goto(p, "print")
    /\ UNCHANGED <<setup, tasks, changed, lost, bootVars, level, call, pipe, creates>>

(* After too many failed calls an agent is asked for a last text.          *)
WrapUp(p) ==
    /\ pc[p] = "model"
    /\ iteration[p][level[p]] > 0
    /\ level[p] = "test"
    /\ Goto(p, "wrapUp")
    /\ UNCHANGED <<setup, tasks, changed, lost, bootVars, agentVars>>

(* fmt.Println of a text, which waits for ever if the pipe is full.        *)
PrintText(p) ==
    /\ pc[p] \in {"print", "wrapUp"}
    /\ pipe[p] < PipeSize
    /\ pipe' = [pipe EXCEPT ![p] = @ + 1]
    /\ Goto(p, IF pc[p] = "print" THEN "tool" ELSE "restore")
    /\ UNCHANGED <<setup, tasks, changed, lost, bootVars, level, iteration, call, creates>>

(* An agent ends: the process is done, or the test run is to be cleared up.*)
Ends(p) ==
    \/ /\ level[p] = "build"
       /\ Leaves(p, "off")
       /\ iteration' = [iteration EXCEPT ![p] = NoIterations]
       /\ UNCHANGED <<lost, level, call, pipe, creates>>
    \/ /\ level[p] = "test"
       /\ Goto(p, "restore")
       /\ UNCHANGED <<setup, tasks, changed, lost, bootVars, agentVars>>

(* It ends with an error: of the API, at its limit of iterations or after  *)
(* too many failed calls and no last text ...                              *)
Stop(p) == pc[p] = "model" /\ Ends(p)

(* ... or because the answer calls no tool.                                *)
Answer(p) == pc[p] = "tool" /\ Ends(p)

(* A call of another tool, or one that fails before it has an effect: of   *)
(* test_task inside a test run, or for a file that is not there or torn.   *)
OtherTool(p) ==
    /\ pc[p] = "tool"
    /\ Goto(p, "model")
    /\ UNCHANGED <<setup, tasks, changed, lost, bootVars, agentVars>>

(* create_task: ValidateAndCreate looks for the file.                      *)
Stat(p, c) ==
    /\ pc[p] = "tool"
    /\ IF tasks[c.task] # "none" /\ ~c.overwrite
         THEN Goto(p, "model") /\ UNCHANGED <<call, changed, creates>>
         ELSE /\ creates < MaxCreates
              /\ creates' = creates + 1
              /\ Goto(p, "openTask")
              /\ call' = [call EXCEPT ![p] = c]
              /\ changed' = [changed EXCEPT ![p] = {}]
    /\ UNCHANGED <<setup, tasks, lost, bootVars, level, iteration, pipe>>

(* os.WriteFile truncates it ...                                           *)
OpenTask(p) ==
    /\ pc[p] = "openTask"
    /\ PutTask(p, call[p].task, "torn")
    /\ Goto(p, "writeTask")
    /\ UNCHANGED <<setup, lost, bootVars, agentVars>>

(* ... and writes it: over what another builder has written since, a mix   *)
(* of the two if that was longer ...                                       *)
WriteTask(p) ==
    /\ pc[p] = "writeTask"
    /\ LET t == call[p].task
       IN  \/ PutTask(p, t, call[p].kind)
           \/ tasks[t] # "torn" /\ PutTask(p, t, "mixed")
    /\ call' = [call EXCEPT ![p] = NoCall]
    /\ Goto(p, "model")
    /\ UNCHANGED <<setup, lost, bootVars, level, iteration, pipe, creates>>

(* ... or it fails to make the directory, to open the file or to write it, *)
(* or all of it, and the call returns the error.                           *)
WriteTaskFails(p) ==
    /\ DiskMayFail
    /\ pc[p] \in {"openTask", "writeTask"}
    /\ \/ changed' = [changed EXCEPT ![p] = {}] /\ UNCHANGED tasks
       \/ pc[p] = "writeTask" /\ PutTask(p, call[p].task, "mixed")
    /\ call' = [call EXCEPT ![p] = NoCall]
    /\ Goto(p, "model")
    /\ UNCHANGED <<setup, lost, bootVars, level, iteration, pipe, creates>>

(* test_task loads the task, puts a pipe in the place of the standard      *)
(* output and starts an agent of its own.                                  *)
TestTask(p, t) ==
    /\ pc[p] = "tool" /\ level[p] = "build"
    /\ tasks[t] \in Kinds
    /\ level' = [level EXCEPT ![p] = "test"]
    /\ Goto(p, "model")
    /\ UNCHANGED <<setup, tasks, changed, lost, bootVars, iteration, call, pipe, creates>>

(* When that has ended, well or not, the standard output is put back and   *)
(* the pipe read, up to a limit, for the report to the build agent.        *)
Restore(p) ==
    /\ pc[p] = "restore"
    /\ level' = [level EXCEPT ![p] = "build"]
    /\ pipe' = [pipe EXCEPT ![p] = 0]
    /\ iteration' = [iteration EXCEPT ![p].test = 0]
    /\ Goto(p, "model")
    /\ UNCHANGED <<setup, tasks, changed, lost, bootVars, call, creates>>

(* The process is killed, or a server is shut down.                        *)
Die(p) ==
    /\ Running(p)
    /\ Leaves(p, "off")
    /\ lost' = lost \cup {f \in Range(SetupFiles) : InSetup(p, f) /\ setup[f] = "torn"}
    /\ level' = [level EXCEPT ![p] = "build"]
    /\ iteration' = [iteration EXCEPT ![p] = NoIterations]
    /\ call' = [call EXCEPT ![p] = NoCall]
    /\ pipe' = [pipe EXCEPT ![p] = 0]
    /\ UNCHANGED creates

Agent(p) ==
    \/ CallModel(p) \/ WrapUp(p) \/ PrintText(p) \/ Stop(p) \/ Answer(p) \/ OtherTool(p)
    \/ (\E c \in Calls : Stat(p, c)) \/ OpenTask(p) \/ WriteTask(p) \/ WriteTaskFails(p)
    \/ (\E t \in Tasks : TestTask(p, t)) \/ Restore(p)

ProcStep(p) == (Boot(p) /\ UNCHANGED agentVars) \/ Agent(p)

BuildNext ==
    \E p \in Procs :
      \/ (\E c \in Commands : Start(p, c)) /\ UNCHANGED agentVars
      \/ ProcStep(p)
      \/ Die(p)

BuildSpec == BuildInit /\ [][BuildNext]_allVars

(* A process that runs goes on: the API answers or fails, and so does      *)
(* every other tool (a bash command has no time limit: that it ends is     *)
(* assumed).  Nobody need start a process or stop one.                     *)
BuildFairSpec == BuildSpec /\ \A p \in Procs : WF_allVars(ProcStep(p))

-----------------------------------------------------------------------------
(* Properties.                                                             *)

PCs == Endings \cup
       {"open", "write", "config", "security", "dependencies", "list", "load", "serving",
        "model", "print", "wrapUp", "tool", "openTask", "writeTask", "restore"}

(* Every variable holds a value the program can hold.                      *)
BuildTypeOK ==
    /\ WorkspaceTypeOK
    /\ pc \in [Procs -> PCs]
    /\ level \in [Procs -> Levels]
    /\ \A p \in Procs, l \in Levels : iteration[p][l] \in 0..MaxOf(l)
    /\ call \in [Procs -> Calls \cup {NoCall}]
    /\ pipe \in [Procs -> 0..PipeSize]
    /\ creates \in 0..MaxCreates

(* A whole task file is replaced only by a call that was told to overwrite *)
(* it, or because another process wrote it between the look and the write  *)
(* of a call that was not: a builder alone never destroys a task, in any   *)
(* order of creations, test runs that create tasks, failing writes, deaths *)
(* and restarts.                                                           *)
NoClobber ==
    [][\A t \in Tasks : tasks[t] \in Kinds /\ tasks'[t] # tasks[t] =>
         \E p \in Procs :
           /\ call[p] # NoCall /\ call[p].task = t
           /\ call[p].overwrite \/ t \in changed[p]]_allVars

\* A test run that is about to print more than the pipe holds.
Stuck(p) == pc[p] \in {"print", "wrapUp"} /\ pipe[p] = PipeSize

(* A build ends, through any number of test runs, iterations and failed    *)
(* calls, or it is killed - unless a test run fills the pipe: then it hangs*)
(* for ever, and the time limit of five minutes does not help.             *)
BuildEnds ==
    \A p \in Procs : cmd[p] = "build" ~> (~Running(p) \/ Stuck(p))
=============================================================================
