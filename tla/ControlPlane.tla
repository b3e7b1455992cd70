---------------------------- MODULE ControlPlane ----------------------------
(***************************************************************************)
(* The two modes `ductwork start` runs a server in, which differ in the    *)
(* Worker of the orchestrator of module Orchestrator.  In standalone mode  *)
(* it is LocalWorker, the Worker contract itself.  In control mode it is   *)
(* RemoteWorker: Execute registers a result channel, enqueues the          *)
(* assignment and blocks; worker processes poll the queue over HTTP, run   *)
(* the agent and post the result, which a handler looks up a channel for   *)
(* and sends to it.  HTTP requests and replies can be lost, workers and    *)
(* the server can crash and restart, the server in either mode.            *)
(*                                                                         *)
(* The module shares the variables of Orchestrator and replaces Exit and,  *)
(* in control mode, its Worker contract (AgentEnds, Return) by the steps   *)
(* that carry them out; that the contract still holds is                   *)
(* ImplementsWorkerContract.                                               *)
(***************************************************************************)
EXTENDS Orchestrator

CONSTANTS
    Workers,    \* worker processes
    Lossy,      \* TRUE: requests and replies get lost, workers crash
    NoChan,     \* no result channel
    NoMsg       \* no result

VARIABLES
    mode,       \* what startCmd was told by --mode
    rw,         \* where each run is in RemoteWorker.Execute
    got,        \* the result Execute took from its channel
    pending,    \* TaskQueue.pending
    inflight,   \* the keys of TaskQueue.inflight
    channels,   \* ResultCollector.channels
    buffered,   \* the results buffered in result channels
    wk,         \* each worker process
    reports,    \* result requests on their way to the control plane
    delivering  \* Deliver calls between the lookup and the send

cpVars  == <<mode, rw, got, pending, inflight, channels, buffered, wk, reports, delivering>>
allVars == <<vars, cpVars>>

-----------------------------------------------------------------------------
(* A channel is known by the Execute call that made it, an assignment by   *)
(* the run ID it carries; job and try are ghosts that tell which call it   *)
(* was made by.                                                            *)
Tries == UNION {0..RetriesOf(j) : j \in Jobs}
Chans == Jobs \X Tries
Asgs  == [id : RunIds, job : Jobs, try : Tries]
Msgs  == [asg : Asgs, out : Outcomes]

ASSUME NilAssumption == NoChan \notin Chans /\ NoMsg \notin Msgs

Modes == {"standalone", "control"}

AsgOf(j)  == [id |-> runID[j], job |-> j, try |-> attempt[j]]
ChanOf(a) == <<a.job, a.try>>

Idle == [phase |-> "idle"]
Busy(ph, a) == [phase |-> ph, asg |-> a]
WorkerStates == {Idle} \cup [phase : {"reply", "work", "report"}, asg : Asgs]

(* The Execute call that made assignment a is still on its way to a result.*)
Awaits(a) ==
    /\ pc[a.job] = "exec" /\ runID[a.job] = a.id /\ attempt[a.job] = a.try
    /\ got[a.job] = NoMsg

SetWorker(w, s) == wk' = [wk EXCEPT ![w] = s]

-----------------------------------------------------------------------------
(* Faulty variants of the steps below, none of them part of CPNext.  Each  *)
(* property of the runs is checked to notice one of them.                  *)

CompleteForgotten(j) ==
    /\ rw[j] = "received"
    /\ rw' = [rw EXCEPT ![j] = "completed"]
    /\ UNCHANGED <<vars, mode, got, pending, inflight, channels, buffered, wk, reports, delivering>>

UnregisterByTask(j) ==
    /\ rw[j] = "completed"
    /\ channels' = [r \in RunIds |-> IF r[1] = TaskOf[j] THEN NoChan ELSE channels[r]]
    /\ result' = [result EXCEPT ![j] = got[j].out]
    /\ got' = [got EXCEPT ![j] = NoMsg]
    /\ rw' = [rw EXCEPT ![j] = "off"]
    /\ GoTo(j, "judge")
    /\ UNCHANGED <<taskChan, sem, clock, runID, attempt, agentOut, hist, mode,
                   pending, inflight, buffered, wk, reports, delivering>>

HandlePollKeyedByTask(w) ==
    /\ wk[w] = Idle
    /\ pending # <<>>
    /\ pending' = Tail(pending)
    /\ inflight' = inflight \cup {Head(pending).id[1]}
    /\ SetWorker(w, Busy("reply", Head(pending)))
    /\ UNCHANGED <<vars, mode, rw, got, channels, buffered, reports, delivering>>

HandlePollNotPopping(w) ==
    /\ wk[w] = Idle
    /\ pending # <<>>
    /\ inflight' = inflight \cup {Head(pending).id}
    /\ SetWorker(w, Busy("reply", Head(pending)))
    /\ UNCHANGED <<vars, mode, rw, got, pending, channels, buffered, reports, delivering>>

HandlePollLosing(w) ==
    /\ wk[w] = Idle
    /\ pending # <<>>
    /\ pending' = Tail(pending)
    /\ inflight' = inflight \cup {Head(pending).id}
    /\ UNCHANGED <<vars, mode, rw, got, channels, buffered, wk, reports, delivering>>

FinishTaskMisreporting(w, out) ==
    /\ wk[w].phase = "work"
    /\ LET a == wk[w].asg IN
          /\ SetWorker(w, Busy("report", a))
          /\ reports' = reports \cup {[from |-> w, asg |-> a, out |-> "completed"]}
          /\ agentOut' = IF Awaits(a) /\ agentOut[a.job] = "none"
                           THEN [agentOut EXCEPT ![a.job] = out]
                           ELSE agentOut
    /\ UNCHANGED <<pc, taskChan, sem, clock, runID, attempt, result, hist, mode,
                   rw, got, pending, inflight, channels, buffered, delivering>>

LookUpByTask(m) ==
    /\ reports' = reports \ {m}
    /\ \E r \in RunIds :
          /\ r[1] = m.asg.id[1] /\ channels[r] # NoChan
          /\ delivering' = delivering \cup
                {[from |-> m.from, asg |-> m.asg, out |-> m.out, ch |-> channels[r]]}
    /\ UNCHANGED <<vars, mode, rw, got, pending, inflight, channels, buffered, wk>>

-----------------------------------------------------------------------------
CPInit ==
    /\ Init
    /\ mode \in Modes
    /\ rw = [j \in Jobs |-> "off"]
    /\ got = [j \in Jobs |-> NoMsg]
    /\ pending = <<>>
    /\ inflight = {}
    /\ channels = [r \in RunIds |-> NoChan]
    /\ buffered = {}
    /\ wk = [w \in Workers |-> Idle]
    /\ reports = {}
    /\ delivering = {}

-----------------------------------------------------------------------------
(* RemoteWorker.Execute, one action per critical section it enters.        *)

(* ResultCollector.Register: a fresh channel replaces any other.           *)
Register(j) ==
    /\ mode = "control"
    /\ pc[j] = "exec" /\ rw[j] = "off"
    /\ channels' = [channels EXCEPT ![runID[j]] = <<j, attempt[j]>>]
    /\ rw' = [rw EXCEPT ![j] = "registered"]
    /\ UNCHANGED <<vars, mode, got, pending, inflight, buffered, wk, reports, delivering>>

(* TaskQueue.Enqueue.                                                      *)
Enqueue(j) ==
    /\ rw[j] = "registered"
    /\ pending' = Append(pending, AsgOf(j))
    /\ rw' = [rw EXCEPT ![j] = "waiting"]
    /\ UNCHANGED <<vars, mode, got, inflight, channels, buffered, wk, reports, delivering>>

(* The receive from the call's own channel.  The other branch of the       *)
(* select is never taken: the context comes from context.Background().     *)
Receive(j) ==
    /\ rw[j] = "waiting"
    /\ \E b \in buffered :
          /\ b.ch = <<j, attempt[j]>>
          /\ got' = [got EXCEPT ![j] = b.msg]
          /\ buffered' = buffered \ {b}
    /\ rw' = [rw EXCEPT ![j] = "received"]
    /\ UNCHANGED <<vars, mode, pending, inflight, channels, wk, reports, delivering>>

(* TaskQueue.Complete.                                                     *)
Complete(j) ==
    /\ rw[j] = "received"
    /\ inflight' = inflight \ {runID[j]}
    /\ rw' = [rw EXCEPT ![j] = "completed"]
    /\ UNCHANGED <<vars, mode, got, pending, channels, buffered, wk, reports, delivering>>

(* The deferred Unregister, and Execute returns the result.                *)
Unregister(j) ==
    /\ rw[j] = "completed"
    /\ channels' = [channels EXCEPT ![runID[j]] = NoChan]
    /\ result' = [result EXCEPT ![j] = got[j].out]
    /\ got' = [got EXCEPT ![j] = NoMsg]
    /\ rw' = [rw EXCEPT ![j] = "off"]
    /\ GoTo(j, "judge")
    /\ UNCHANGED <<taskChan, sem, clock, runID, attempt, agentOut, hist, mode,
                   pending, inflight, buffered, wk, reports, delivering>>

-----------------------------------------------------------------------------
(* Worker processes and the two HTTP handlers they talk to.                *)

(* handleWorkerPoll dequeues; the reply is on its way.  (A poll that finds *)
(* the queue empty, or that is lost on its way in, changes nothing.)       *)
HandlePoll(w) ==
    /\ wk[w] = Idle
    /\ pending # <<>>
    /\ pending' = Tail(pending)
    /\ inflight' = inflight \cup {Head(pending).id}
    /\ SetWorker(w, Busy("reply", Head(pending)))
    /\ UNCHANGED <<vars, mode, rw, got, channels, buffered, reports, delivering>>

(* The client's poll returns the assignment and executeTask starts.        *)
PollReturns(w) ==
    /\ wk[w].phase = "reply"
    /\ SetWorker(w, Busy("work", wk[w].asg))
    /\ UNCHANGED <<vars, mode, rw, got, pending, inflight, channels, buffered, reports, delivering>>

(* The reply is lost or comes after the client's timeout: poll fails, and  *)
(* nothing tells the queue.                                                *)
PollFails(w) ==
    /\ Lossy
    /\ wk[w].phase = "reply"
    /\ SetWorker(w, Idle)
    /\ UNCHANGED <<vars, mode, rw, got, pending, inflight, channels, buffered, reports, delivering>>

(* The agent run ends and reportResult posts the result.  It is the end of *)
(* the current attempt's agent run if the run still waits for this one.    *)
FinishTask(w, out) ==
    /\ wk[w].phase = "work"
    /\ LET a == wk[w].asg IN
          /\ SetWorker(w, Busy("report", a))
          /\ reports' = reports \cup {[from |-> w, asg |-> a, out |-> out]}
          /\ agentOut' = IF Awaits(a) /\ agentOut[a.job] = "none"
                           THEN [agentOut EXCEPT ![a.job] = out]
                           ELSE agentOut
    /\ UNCHANGED <<pc, taskChan, sem, clock, runID, attempt, result, hist, mode,
                   rw, got, pending, inflight, channels, buffered, delivering>>

(* reportResult fails at the client, which logs it and polls again: the    *)
(* request was lost, or it still is on its way or being handled.           *)
ReportFails(w) ==
    /\ Lossy
    /\ wk[w].phase = "report"
    /\ reports' \in {reports, {m \in reports : m.from # w}}
    /\ SetWorker(w, Idle)
    /\ UNCHANGED <<vars, mode, rw, got, pending, inflight, channels, buffered, delivering>>

(* A worker process ends, whatever it was doing, and is started again.     *)
WorkerCrash(w) ==
    /\ Lossy
    /\ wk[w] # Idle
    /\ SetWorker(w, Idle)
    /\ UNCHANGED <<vars, mode, rw, got, pending, inflight, channels, buffered, reports, delivering>>

(* The worker's request m is answered; nobody listens if it gave up.       *)
Answer(m) ==
    wk' = [wk EXCEPT ![m.from] = IF @ = Busy("report", m.asg) THEN Idle ELSE @]

(* handleWorkerResult, first half of Deliver: the lookup under the lock.   *)
LookUp(m) ==
    /\ reports' = reports \ {m}
    /\ IF channels[m.asg.id] = NoChan
         THEN Answer(m) /\ UNCHANGED delivering
         ELSE /\ delivering' = delivering \cup
                    {[from |-> m.from, asg |-> m.asg, out |-> m.out, ch |-> channels[m.asg.id]]}
              /\ UNCHANGED wk
    /\ UNCHANGED <<vars, mode, rw, got, pending, inflight, channels, buffered>>

(* Second half: the non-blocking send to the channel of capacity one.      *)
Deliver(d) ==
    /\ delivering' = delivering \ {d}
    /\ buffered' = IF \E b \in buffered : b.ch = d.ch
                     THEN buffered
                     ELSE buffered \cup {[ch |-> d.ch, msg |-> [asg |-> d.asg, out |-> d.out]]}
    /\ Answer(d)
    /\ UNCHANGED <<vars, mode, rw, got, pending, inflight, channels, reports>>

-----------------------------------------------------------------------------
(* The server exits and is started again, in either mode.  Its queue, its  *)
(* channels and the requests it was handling are gone; what workers hold   *)
(* is not.  (A standalone server has no worker endpoints: a result that    *)
(* comes in is refused, as it is if no channel is registered.)             *)
CPExit ==
    /\ Exit
    /\ mode' \in Modes
    /\ rw' = [j \in Jobs |-> "off"]
    /\ got' = [j \in Jobs |-> NoMsg]
    /\ pending' = <<>>
    /\ inflight' = {}
    /\ channels' = [r \in RunIds |-> NoChan]
    /\ buffered' = {}
    /\ wk' = [w \in Workers |-> IF wk[w].phase = "report" THEN Idle ELSE wk[w]]
    /\ reports' = {}
    /\ delivering' = {}

ExecuteStep(j) ==
    Register(j) \/ Enqueue(j) \/ Receive(j) \/ Complete(j) \/ Unregister(j)

(* LocalWorker.Execute runs the agent in the goroutine of the run itself.  *)
LocalExecuteStep(j) ==
    /\ mode = "standalone"
    /\ (\E out \in Outcomes : AgentEnds(j, out)) \/ Return(j)
    /\ UNCHANGED cpVars

(* The orchestrator's own steps of a job.                                  *)
RunStep(j) ==
    /\ SendToChan(j) \/ Acquire(j) \/ StartRun(j) \/ BuildFails(j) \/ BuildOK(j)
       \/ Judge(j) \/ Finalize(j) \/ Release(j)
    /\ UNCHANGED cpVars

WorkerStep(w) ==
    HandlePoll(w) \/ PollReturns(w) \/ \E out \in Outcomes : FinishTask(w, out)

HandlerStep == (\E m \in reports : LookUp(m)) \/ (\E d \in delivering : Deliver(d))

CPTerminating ==
    /\ \A j \in Jobs : pc[j] \in {"done", "lost"}
    /\ \A w \in Workers : wk[w] = Idle
    /\ UNCHANGED allVars

CPNext ==
    \/ \E j \in Jobs : Submit(j) /\ UNCHANGED cpVars
    \/ Take /\ UNCHANGED cpVars
    \/ \E j \in Jobs : RunStep(j) \/ ExecuteStep(j) \/ LocalExecuteStep(j)
    \/ \E w \in Workers :
          WorkerStep(w) \/ PollFails(w) \/ ReportFails(w) \/ WorkerCrash(w)
    \/ HandlerStep
    \/ CPExit
    \/ CPTerminating

CPSpec == CPInit /\ [][CPNext]_allVars

(* Goroutines, handlers and workers that can move do, and agent runs end.  *)
(* No message need be lost, no process need crash.                         *)
CPFairness ==
    /\ WF_allVars(Take /\ UNCHANGED cpVars)
    /\ WF_allVars(HandlerStep)
    /\ \A j \in Jobs : WF_allVars(RunStep(j) \/ ExecuteStep(j) \/ LocalExecuteStep(j))
    /\ \A w \in Workers : WF_allVars(WorkerStep(w))

CPFairSpec == CPSpec /\ CPFairness

-----------------------------------------------------------------------------
(* Properties.                                                             *)

(* Every variable holds a value the program can hold.                      *)
CPTypeOK ==
    /\ TypeOK
    /\ mode \in Modes
    /\ rw \in [Jobs -> {"off", "registered", "waiting", "received", "completed"}]
    /\ got \in [Jobs -> Msgs \cup {NoMsg}]
    /\ pending \in Seq(Asgs)
    /\ inflight \subseteq RunIds
    /\ channels \in [RunIds -> Chans \cup {NoChan}]
    /\ buffered \subseteq [ch : Chans, msg : Msgs]
    /\ wk \in [Workers -> WorkerStates]
    /\ reports \subseteq [from : Workers, asg : Asgs, out : Outcomes]
    /\ delivering \subseteq [from : Workers, asg : Asgs, out : Outcomes, ch : Chans]

(* The places an assignment, or its result, can be at.                     *)
Holders(a) ==
    (({"queue"} \X {i \in DOMAIN pending : pending[i] = a})
     \cup ({"worker"} \X {w \in Workers : wk[w] # Idle /\ wk[w].asg = a
                                        /\ wk[w].phase # "report"})
     \cup ({"request"} \X {m \in reports : m.asg = a})
     \cup ({"handler"} \X {d \in delivering : d.asg = a})
     \cup ({"channel"} \X {b \in buffered : b.msg.asg = a})
     \cup ({"run"} \X {j \in Jobs : got[j] # NoMsg /\ got[j].asg = a}))

(* An assignment is in one place at a time - queued, with one worker, on   *)
(* its way back or delivered: polls by several workers, lost replies,      *)
(* crashes and restarts never have it executed twice.                      *)
OneHolder == \A a \in [id : RunIds, job : Jobs, try : Tries] : Cardinality(Holders(a)) <= 1

(* Any result that comes in for a run that still waits for it finds the    *)
(* run's own, empty channel: registered before the assignment could be     *)
(* polled, unregistered by no one else, filled by no stale result of an    *)
(* earlier attempt under the same run ID.                                  *)
ResultReachesWaiter ==
    /\ \A w \in Workers :
          (wk[w] # Idle /\ Awaits(wk[w].asg) /\ wk[w].phase # "report") =>
              channels[wk[w].asg.id] = ChanOf(wk[w].asg)
    /\ \A m \in reports : Awaits(m.asg) => channels[m.asg.id] = ChanOf(m.asg)
    /\ \A d \in delivering :
          Awaits(d.asg) => /\ d.ch = ChanOf(d.asg)
                           /\ \A b \in buffered : b.ch # d.ch

(* "ResultCollector routes results from remote workers back to the waiting *)
(* RemoteWorker.Execute() calls via per-RunID channels." (results.go:9):   *)
(* the result Execute takes is that of its own assignment and attempt.     *)
OwnResult ==
    \A j \in Jobs : got[j] # NoMsg => got[j].asg = AsgOf(j)

(* The queue's inflight map names only runs that wait for a result now:    *)
(* every way out of Execute removes the entry, no late poll puts one back. *)
InflightIsWaiting ==
    \A r \in inflight :
        \E j \in Jobs : runID[j] = r /\ rw[j] \in {"waiting", "received"}

(* RemoteWorker keeps the contract of worker.Worker the orchestrator is    *)
(* written against: every step of the control plane is a step of module    *)
(* Orchestrator, with the agent run ending at the worker and its outcome   *)
(* returned, or changes nothing the orchestrator sees.                     *)
ImplementsWorkerContract == Spec

(* "Returns false if no waiter is registered (e.g., timed out)."           *)
(* (results.go:36): an Execute call does not wait for a result for ever.   *)
WaiterTimesOut == \A j \in Jobs : rw[j] = "waiting" ~> rw[j] # "waiting"
=============================================================================
