------------------------------ MODULE Dispatch ------------------------------
(***************************************************************************)
(* The server process of ductwork as one system: the scheduler of module   *)
(* Scheduler, the goroutines that POST /api/tasks/{name}/run leaves        *)
(* behind, and the orchestrator's dispatch loop, which all meet at         *)
(* TaskChan.  The dispatch loop holds a task while every slot of the       *)
(* semaphore is taken, and behind it the channel, the scheduler and the    *)
(* API fill up.                                                            *)
(*                                                                         *)
(* The module shares the variables of Scheduler, whose anonymous receiving *)
(* end (Receive, StopOrchestrator) it replaces.  A run is only a slot that *)
(* is taken for a while here; what happens in it is module Orchestrator.   *)
(***************************************************************************)
EXTENDS Scheduler

CONSTANTS
    RunRequests,  \* POST /api/tasks/{name}/run requests
    SemCap        \* capacity of o.sem

ASSUME RunRequestsAssumption ==
    IsFiniteSet(RunRequests) /\ RunRequests \cap Entries = {} /\ None \notin RunRequests
ASSUME SemCapAssumption == SemCap \in Nat \ {0}

Items == Entries \cup RunRequests
Slots == 1..SemCap

VARIABLES
    api,   \* each run request
    held,  \* the task the dispatch loop has received and not started
    slots  \* the task that runs in each slot of the semaphore

dispatchVars == <<api, held, slots>>
allVars      == <<vars, dispatchVars>>

-----------------------------------------------------------------------------
(* Faulty variants of the steps below, none of them part of DispatchNext.  *)

(* A dispatch loop that drops a task when all slots are taken.             *)
TakeTaskOrDrop ==
    /\ orchestrator = "running" /\ held = None
    /\ taskChan # <<>>
    /\ taskChan' = Tail(taskChan)
    /\ held' = IF \E s \in Slots : slots[s] = None THEN Head(taskChan) ELSE None
    /\ UNCHANGED <<spc, timer, heap, due, firing, addChan, handler, cancelled, orchestrator,
                   since, api, slots>>

(* A run request that takes the place of the last task in a full channel.  *)
SendRunReplacing(r) ==
    /\ api[r] = "sending"
    /\ taskChan' = IF Len(taskChan) < ChanSize
                     THEN Append(taskChan, r)
                     ELSE [taskChan EXCEPT ![ChanSize] = r]
    /\ api' = [api EXCEPT ![r] = "sent"]
    /\ UNCHANGED <<spc, timer, heap, due, firing, addChan, handler, cancelled, orchestrator,
                   since, held, slots>>

(* A run request that does not wait for room in the channel.               *)
SendRunUnbounded(r) ==
    /\ api[r] = "sending"
    /\ taskChan' = Append(taskChan, r)
    /\ api' = [api EXCEPT ![r] = "sent"]
    /\ UNCHANGED <<spc, timer, heap, due, firing, addChan, handler, cancelled, orchestrator,
                   since, held, slots>>

(* A run request that gives up when the channel is full.                   *)
SendRunOrDrop(r) ==
    /\ api[r] = "sending"
    /\ taskChan' = IF Len(taskChan) < ChanSize THEN Append(taskChan, r) ELSE taskChan
    /\ api' = [api EXCEPT ![r] = "sent"]
    /\ UNCHANGED <<spc, timer, heap, due, firing, addChan, handler, cancelled, orchestrator,
                   since, held, slots>>

-----------------------------------------------------------------------------
DispatchInit ==
    /\ Init
    /\ api = [r \in RunRequests |-> "none"]
    /\ held = None
    /\ slots = [s \in Slots |-> None]

(* handleRunTask reads the task, answers "accepted" and leaves a goroutine *)
(* behind that sends the task to TaskChan ...                              *)
SubmitRun(r) ==
    /\ api[r] = "none"
    /\ api' = [api EXCEPT ![r] = "sending"]
    /\ UNCHANGED <<vars, held, slots>>

(* ... when there is room, in competition with the scheduler.              *)
SendRun(r) ==
    /\ api[r] = "sending"
    /\ Len(taskChan) < ChanSize
    /\ taskChan' = Append(taskChan, r)
    /\ api' = [api EXCEPT ![r] = "sent"]
    /\ UNCHANGED <<spc, timer, heap, due, firing, addChan, handler, cancelled, orchestrator,
                   since, held, slots>>

(* The dispatch loop receives a task.                                      *)
TakeTask ==
    /\ orchestrator = "running" /\ held = None
    /\ taskChan # <<>>
    /\ taskChan' = Tail(taskChan)
    /\ held' = Head(taskChan)
    /\ UNCHANGED <<spc, timer, heap, due, firing, addChan, handler, cancelled, orchestrator,
                   since, api, slots>>

(* It takes a slot and starts the run; until then it listens to nothing.   *)
StartRun(s) ==
    /\ held # None
    /\ slots[s] = None
    /\ slots' = [slots EXCEPT ![s] = held]
    /\ held' = None
    /\ UNCHANGED <<vars, api>>

(* executeTask returns, and its slot is free.                              *)
EndRun(s) ==
    /\ slots[s] # None
    /\ slots' = [slots EXCEPT ![s] = None]
    /\ UNCHANGED <<vars, api, held>>

(* The dispatch loop sees that the context is cancelled.                   *)
StopDispatch ==
    /\ held = None
    /\ StopOrchestrator
    /\ UNCHANGED dispatchVars

SchedulerStep == Run /\ UNCHANGED dispatchVars

DispatchStep == TakeTask \/ (\E s \in Slots : StartRun(s)) \/ StopDispatch

DispatchNext ==
    \/ SchedulerStep
    \/ \E r \in Requests : (Request(r) \/ AddTask(r)) /\ UNCHANGED dispatchVars
    \/ \E r \in RunRequests : SubmitRun(r) \/ SendRun(r)
    \/ DispatchStep
    \/ \E s \in Slots : EndRun(s)
    \/ (Cancel \/ Tick \/ Exit) /\ UNCHANGED dispatchVars

DispatchSpec == DispatchInit /\ [][DispatchNext]_allVars

(* The goroutines run, time passes, and every run ends (its agent does).   *)
(* Go's channels serve blocked senders in the order they came, so no       *)
(* sender is overtaken for ever; its select picks at random among the      *)
(* branches that are ready, so none that is ready time and again is passed *)
(* over for ever.  Nobody need send a request or cancel.                   *)
DispatchFairness ==
    /\ WF_allVars(SchedulerStep)
    /\ WF_allVars(Tick /\ UNCHANGED dispatchVars)
    /\ SF_allVars(Send /\ UNCHANGED dispatchVars)
    /\ SF_allVars(HandleAdd /\ UNCHANGED dispatchVars)
    /\ WF_allVars(DispatchStep)
    /\ \A s \in Slots : WF_allVars(EndRun(s))
    /\ \A r \in Requests : WF_allVars(AddTask(r) /\ UNCHANGED dispatchVars)
    /\ \A r \in RunRequests : SF_allVars(SendRun(r))

DispatchFairSpec == DispatchSpec /\ DispatchFairness

-----------------------------------------------------------------------------
(* Properties.                                                             *)

(* What the scheduler has a part in: its own tasks in the channel.         *)
EntriesOf(s) ==
    LET upTo[n \in 0..Len(s)] ==
          IF n = 0 THEN <<>>
                   ELSE IF s[n] \in Entries THEN Append(upTo[n - 1], s[n]) ELSE upTo[n - 1]
    IN upTo[Len(s)]

Sched == INSTANCE Scheduler WITH taskChan <- EntriesOf(taskChan)

(* Every variable holds a value the program can hold.                      *)
DispatchTypeOK ==
    /\ Sched!TypeOK
    /\ taskChan \in Seq(Items) /\ Len(taskChan) <= ChanSize
    /\ api \in [RunRequests -> {"none", "sending", "sent"}]
    /\ held \in Items \cup {None}
    /\ slots \in [Slots -> Items \cup {None}]

(* To the scheduler, whatever the API sends and the semaphore holds up is  *)
(* a channel that is drained at some pace: no task it has sent is taken    *)
(* out, replaced or overtaken by another, and what module Scheduler says   *)
(* of every receiving end holds of this one.                               *)
ImplementsScheduler == Sched!Spec

Runs(x) == \E s \in Slots : slots[s] = x

(* Every scheduled task runs again and again, and one that is added with a *)
(* schedule runs, however short the intervals of the others and however    *)
(* many requests compete for the channel and the slots, until the program  *)
(* is shut down.                                                           *)
EveryTaskRuns ==
    /\ \A e \in Loaded : []<>(Runs(e) \/ cancelled)
    /\ \A r \in Requests \cap Valid : handler[r] = "adding" ~> (Runs(r) \/ cancelled)

(* A run request that was answered "accepted" is run, even against tasks   *)
(* that are always due, until the program is shut down.                    *)
EveryRequestRuns ==
    \A r \in RunRequests : api[r] = "sending" ~> (Runs(r) \/ cancelled)
=============================================================================
