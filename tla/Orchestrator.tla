---------------------------- MODULE Orchestrator ----------------------------
(***************************************************************************)
(* The orchestrator of ductwork (pkg/orchestrator): the task channel, the  *)
(* dispatch loop with its semaphore, and the life of one run from its      *)
(* "running" history record to its final one, with retries.                *)
(*                                                                         *)
(* The Worker the runs are executed by appears through its contract only:  *)
(* an agent run ends with some outcome (AgentEnds) and Worker.Execute      *)
(* hands that outcome to the run (Return).  LocalWorker is exactly this;   *)
(* module ControlPlane shows what RemoteWorker makes of it.                *)
(*                                                                         *)
(* A job is one submission of a task: one POST /api/tasks/{name}/run, or   *)
(* one firing of the scheduler.  Its goroutine's place in the code is      *)
(* pc[j].                                                                  *)
(***************************************************************************)
EXTENDS Integers, Sequences, FiniteSets

CONSTANTS
    Jobs,               \* submissions the run of the program will see
    Tasks,              \* task definitions, known by name
    TaskOf,             \* the task a submission asks for
    ChanSize,           \* capacity of TaskChan
    MaxConcurrent,      \* Config.MaxConcurrent, any integer
    DefaultMaxRetries,  \* Config.DefaultMaxRetries, any integer
    TaskMaxRetries,     \* Task.MaxRetries, any integer
    MaxMilli,           \* bound on the millisecond clock, never reached
    UniqueMillis,       \* TRUE: no two runs start in the same millisecond
    DiskMayFail,        \* TRUE: a write of a history file may fail
    NoRun               \* "has no run ID yet"

(* A run ID is the task's name and the millisecond the run started in.     *)
RunIds == Tasks \X (0..MaxMilli)

ASSUME JobsAssumption  == IsFiniteSet(Jobs) /\ TaskOf \in [Jobs -> Tasks]
ASSUME SizesAssumption == ChanSize \in Nat \ {0} /\ MaxConcurrent \in Int
ASSUME RetryAssumption == DefaultMaxRetries \in Int /\ TaskMaxRetries \in [Tasks -> Int]
ASSUME ClockAssumption == MaxMilli \in Nat
ASSUME FlagsAssumption == UniqueMillis \in BOOLEAN /\ DiskMayFail \in BOOLEAN
ASSUME NoRunAssumption == NoRun \notin RunIds

VARIABLES
    pc,        \* where each job's goroutine is
    taskChan,  \* the jobs buffered in TaskChan
    sem,       \* slots of o.sem in use
    clock,     \* current millisecond
    runID,     \* the run's ID, once it has one
    attempt,   \* the loop variable of executeTask
    result,    \* lastResult ("none": the zero TaskResult)
    agentOut,  \* history variable: how the agent run of the current attempt
               \* ended, "none" while there is none
    hist       \* the history directory: the status in each run's file, "none"
               \* when there is no readable file

vars == <<pc, taskChan, sem, clock, runID, attempt, result, agentOut, hist>>

-----------------------------------------------------------------------------
(* States of a job.                                                        *)

Queued   == {"sending", "queued", "held"}
Running  == {"start", "build", "exec", "judge", "finalize", "release"}
PCs      == {"idle", "done", "lost"} \cup Queued \cup Running

(* The agent completed, or failed with an error that isTransientResult     *)
(* recognises, or failed with any other error.                             *)
Outcomes == {"completed", "transient", "permanent"}
Final    == {"completed", "failed"}
Statuses == {"none", "running"} \cup Final

Live(j) == pc[j] \in Running

SemCap == IF MaxConcurrent <= 0 THEN 5 ELSE MaxConcurrent

(* resolveRetryConfig: a task's own limit counts only when positive.       *)
RetriesOf(j) ==
    IF TaskMaxRetries[TaskOf[j]] > 0 THEN TaskMaxRetries[TaskOf[j]] ELSE DefaultMaxRetries

(* A faulty FinalStatus: retries that ran out are taken for a success.     *)
FinalStatusHidingRetries(r) == IF r = "permanent" THEN "failed" ELSE "completed"

(* finalizeRecord: failed iff there is an error; the zero result has none. *)
FinalStatus(r) == IF r \in {"transient", "permanent"} THEN "failed" ELSE "completed"

GoTo(j, l) == pc' = [pc EXCEPT ![j] = l]

(* saveRecord: os.WriteFile truncates and writes; an error is only logged. *)
(* A write that fails leaves the old file, or an unreadable one.           *)
SaveRecord(r, s) ==
    \E left \in {s} \cup (IF DiskMayFail THEN {hist[r], "none"} ELSE {}) :
        hist' = [hist EXCEPT ![r] = left]

-----------------------------------------------------------------------------
(* Faulty variants of the steps below, none of them part of Next.  Each    *)
(* property of the runs is checked to notice one of them.                  *)

SendToChanUnbounded(j) ==
    /\ pc[j] = "sending"
    /\ taskChan' = Append(taskChan, j)
    /\ GoTo(j, "queued")
    /\ UNCHANGED <<sem, clock, runID, attempt, result, agentOut, hist>>

StartRunSharingMillis(j) ==
    /\ pc[j] = "start"
    /\ clock < MaxMilli
    /\ runID' = [runID EXCEPT ![j] = <<TaskOf[j], clock>>]
    /\ clock' \in {clock, clock + 1}
    /\ SaveRecord(runID'[j], "running")
    /\ GoTo(j, "build")
    /\ UNCHANGED <<taskChan, sem, attempt, result, agentOut>>

BuildFailsReturning(j) ==
    /\ pc[j] = "build"
    /\ GoTo(j, "release")
    /\ UNCHANGED <<taskChan, sem, clock, runID, attempt, result, agentOut, hist>>

JudgeRetryingAll(j) ==
    /\ pc[j] = "judge"
    /\ IF result[j] # "completed" /\ attempt[j] < RetriesOf(j)
         THEN /\ attempt' = [attempt EXCEPT ![j] = @ + 1]
              /\ agentOut' = [agentOut EXCEPT ![j] = "none"]
              /\ GoTo(j, "exec")
         ELSE GoTo(j, "finalize") /\ UNCHANGED <<attempt, agentOut>>
    /\ UNCHANGED <<taskChan, sem, clock, runID, result, hist>>

ReleaseForgotten(j) ==
    /\ pc[j] = "release"
    /\ GoTo(j, "done")
    /\ UNCHANGED <<taskChan, sem, clock, runID, attempt, result, agentOut, hist>>

-----------------------------------------------------------------------------
Init ==
    /\ pc = [j \in Jobs |-> "idle"]
    /\ taskChan = <<>>
    /\ sem = 0
    /\ clock = 0
    /\ runID = [j \in Jobs |-> NoRun]
    /\ attempt = [j \in Jobs |-> 0]
    /\ result = [j \in Jobs |-> "none"]
    /\ agentOut = [j \in Jobs |-> "none"]
    /\ hist = [r \in RunIds |-> "none"]

(* handleRunTask answers 202 and leaves a goroutine sending to TaskChan.   *)
Submit(j) ==
    /\ pc[j] = "idle"
    /\ GoTo(j, "sending")
    /\ UNCHANGED <<taskChan, sem, clock, runID, attempt, result, agentOut, hist>>

(* The send succeeds when the channel has room.                            *)
SendToChan(j) ==
    /\ pc[j] = "sending"
    /\ Len(taskChan) < ChanSize
    /\ taskChan' = Append(taskChan, j)
    /\ GoTo(j, "queued")
    /\ UNCHANGED <<sem, clock, runID, attempt, result, agentOut, hist>>

(* Run receives a task; it is not at the select while it holds one.        *)
Take ==
    /\ taskChan # <<>>
    /\ \A j \in Jobs : pc[j] # "held"
    /\ taskChan' = Tail(taskChan)
    /\ GoTo(Head(taskChan), "held")
    /\ UNCHANGED <<sem, clock, runID, attempt, result, agentOut, hist>>

(* Run acquires a slot and starts the job's goroutine.                     *)
Acquire(j) ==
    /\ pc[j] = "held"
    /\ sem < SemCap
    /\ sem' = sem + 1
    /\ GoTo(j, "start")
    /\ UNCHANGED <<taskChan, clock, runID, attempt, result, agentOut, hist>>

(* executeTask names the run, records it as running and turns to           *)
(* buildAssignment.  The clock may or may not move on before the next run  *)
(* of the same task is named.                                              *)
StartRun(j) ==
    /\ pc[j] = "start"
    /\ clock < MaxMilli
    /\ runID' = [runID EXCEPT ![j] = <<TaskOf[j], clock>>]
    /\ clock' \in IF UniqueMillis THEN {clock + 1} ELSE {clock, clock + 1}
    /\ SaveRecord(runID'[j], "running")
    /\ GoTo(j, "build")
    /\ UNCHANGED <<taskChan, sem, attempt, result, agentOut>>

(* A skill or memory file cannot be read: the run is finalized as failed.  *)
BuildFails(j) ==
    /\ pc[j] = "build"
    /\ result' = [result EXCEPT ![j] = "permanent"]
    /\ GoTo(j, "finalize")
    /\ UNCHANGED <<taskChan, sem, clock, runID, attempt, agentOut, hist>>

(* The assignment is built; the loop is entered if attempt 0 is allowed.   *)
BuildOK(j) ==
    /\ pc[j] = "build"
    /\ GoTo(j, IF 0 <= RetriesOf(j) THEN "exec" ELSE "finalize")
    /\ UNCHANGED <<taskChan, sem, clock, runID, attempt, result, agentOut, hist>>

(* The agent run of this attempt ends.                                     *)
AgentEnds(j, out) ==
    /\ pc[j] = "exec"
    /\ agentOut[j] = "none"
    /\ agentOut' = [agentOut EXCEPT ![j] = out]
    /\ UNCHANGED <<pc, taskChan, sem, clock, runID, attempt, result, hist>>

(* Worker.Execute returns the outcome of the agent run.                    *)
Return(j) ==
    /\ pc[j] = "exec"
    /\ agentOut[j] # "none"
    /\ result' = [result EXCEPT ![j] = agentOut[j]]
    /\ GoTo(j, "judge")
    /\ UNCHANGED <<taskChan, sem, clock, runID, attempt, agentOut, hist>>

(* After Execute: another attempt, after a backoff, for a transient error  *)
(* while attempts are left; otherwise the loop ends.                       *)
Judge(j) ==
    /\ pc[j] = "judge"
    /\ IF result[j] = "transient" /\ attempt[j] < RetriesOf(j)
         THEN /\ attempt' = [attempt EXCEPT ![j] = @ + 1]
              /\ agentOut' = [agentOut EXCEPT ![j] = "none"]
              /\ GoTo(j, "exec")
         ELSE /\ GoTo(j, "finalize")
              /\ UNCHANGED <<attempt, agentOut>>
    /\ UNCHANGED <<taskChan, sem, clock, runID, result, hist>>

(* finalizeRecord.                                                         *)
Finalize(j) ==
    /\ pc[j] = "finalize"
    /\ SaveRecord(runID[j], FinalStatus(result[j]))
    /\ GoTo(j, "release")
    /\ UNCHANGED <<taskChan, sem, clock, runID, attempt, result, agentOut>>

(* The deferred release of the slot.                                       *)
Release(j) ==
    /\ pc[j] = "release"
    /\ sem' = sem - 1
    /\ GoTo(j, "done")
    /\ UNCHANGED <<taskChan, clock, runID, attempt, result, agentOut, hist>>

InFlight == {j \in Jobs : pc[j] \in Queued \cup Running}

(* The process ends - waitForShutdown returns, or a crash - and a new one  *)
(* starts.  Nothing of a run outlives it but its history file, which is    *)
(* unreadable if the process ended inside the write.                       *)
Exit ==
    /\ InFlight # {}
    /\ pc' = [j \in Jobs |-> IF j \in InFlight THEN "lost" ELSE pc[j]]
    /\ taskChan' = <<>>
    /\ sem' = 0
    /\ \E torn \in SUBSET {runID[j] : j \in {k \in Jobs : pc[k] = "finalize"}} :
          hist' = [r \in RunIds |-> IF r \in torn THEN "none" ELSE hist[r]]
    /\ UNCHANGED <<clock, runID, attempt, result, agentOut>>

(* Every submission has been dealt with: the program idles.                *)
Terminating == (\A j \in Jobs : pc[j] \in {"done", "lost"}) /\ UNCHANGED vars

(* The steps of a job that the program takes by itself.                    *)
JobStep(j) ==
    \/ SendToChan(j) \/ Acquire(j) \/ StartRun(j) \/ BuildFails(j) \/ BuildOK(j)
    \/ (\E out \in Outcomes : AgentEnds(j, out))
    \/ Return(j) \/ Judge(j) \/ Finalize(j) \/ Release(j)

Next ==
    \/ \E j \in Jobs : Submit(j)
    \/ \E j \in Jobs : JobStep(j)
    \/ Take
    \/ Exit
    \/ Terminating

Spec == Init /\ [][Next]_vars

-----------------------------------------------------------------------------
(* Properties.                                                             *)

(* Every variable holds a value the program can hold.                      *)
TypeOK ==
    /\ pc \in [Jobs -> PCs]
    /\ taskChan \in Seq(Jobs) /\ Len(taskChan) <= ChanSize
    /\ sem \in Nat
    /\ clock \in 0..MaxMilli
    /\ runID \in [Jobs -> RunIds \cup {NoRun}]
    /\ attempt \in [Jobs -> Nat]
    /\ result \in [Jobs -> Outcomes \cup {"none"}]
    /\ agentOut \in [Jobs -> Outcomes \cup {"none"}]
    /\ hist \in [RunIds -> Statuses]

(* The semaphore counts exactly the goroutines inside executeTask, so that *)
(* no path through it - a failed build, a retry, a failed save - leaks a   *)
(* slot or frees one twice, and never more than the cap of them run.       *)
SlotsMatchRuns ==
    /\ sem = Cardinality({j \in Jobs : Live(j)})
    /\ sem <= SemCap

(* What the history says about a finished run is what became of its agent: *)
(* a record is final only once its run is over, says completed only if the *)
(* last attempt's agent completed, and failed only if it did not - over    *)
(* retries, failed saves and restarts of the process.                      *)
RecordTruthful ==
    \A j \in Jobs :
        (runID[j] # NoRun /\ hist[runID[j]] \in Final) =>
            /\ pc[j] \in {"release", "done", "lost"}
            /\ hist[runID[j]] = "completed" <=> agentOut[j] = "completed"

(* A run that has said completed or failed never says anything else: no    *)
(* later run, retry or restart touches its record (FileStore keeps one     *)
(* file per run ID).                                                       *)
FinalIsFinal ==
    [][\A r \in RunIds : hist[r] \in Final => hist'[r] = hist[r]]_vars

(* An agent that has run for a submission is run again for it only after   *)
(* a transient failure and only up to the task's limit: the side effects   *)
(* of a completed or permanently failed run are never repeated.            *)
RetryOnlyTransient ==
    [][\A j \in Jobs :
          (agentOut[j] # "none" /\ agentOut'[j] # agentOut[j]) =>
              /\ agentOut[j] = "transient" /\ agentOut'[j] = "none"
              /\ attempt'[j] = attempt[j] + 1 /\ attempt'[j] <= RetriesOf(j)]_vars

(* Each accepted submission ends with a final record unless the process    *)
(* exits first: none stays in the channel, at the semaphore or in the      *)
(* retry loop for ever, however small the channel and the semaphore.       *)
EverySubmissionRecorded ==
    \A j \in Jobs :
        pc[j] = "sending" ~>
            \/ pc[j] = "lost"
            \/ pc[j] = "done" /\ hist[runID[j]] \in Final

(* "Status represents the lifecycle state of a run." (history.go:12): a    *)
(* record that says running belongs to a run that is running.              *)
RunningMeansRunning ==
    \A r \in RunIds :
        hist[r] = "running" => \E j \in Jobs : Live(j) /\ runID[j] = r

(* "Each run is stored as a separate JSON file: {dir}/{runID}.json"        *)
(* (history.go:45): two runs never have the same record.                   *)
OneRecordPerRun ==
    \A i, j \in Jobs : (i # j /\ runID[i] # NoRun) => runID[i] # runID[j]
=============================================================================
