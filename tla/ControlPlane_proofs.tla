------------------------- MODULE ControlPlane_proofs -------------------------
(***************************************************************************)
(* Proofs about module ControlPlane, for any set of submissions and        *)
(* workers, any retry limits, with or without lost messages.               *)
(*                                                                         *)
(* The inductive invariant comes in three layers.  PlaceInv says where an  *)
(* assignment can be and needs no assumption.  RouteInv, for run IDs that  *)
(* are unique, says that whatever is under way for a run that is not lost  *)
(* belongs to the call that waits, and that the run's result channel is    *)
(* that call's.  OutcomeInv says what the history variable agentOut knows  *)
(* of a result under way; with it, every step of the control plane is one  *)
(* of the orchestrator with its Worker contract, or none.                  *)
(***************************************************************************)
EXTENDS ControlPlane, Orchestrator_proofs

(* What the orchestrator's own variables say of a run.                     *)
RunInv ==
    \A j \in Jobs :
        /\ pc[j] \in Unstarted \cup {"build"} => attempt[j] = 0
        /\ pc[j] \in Open => runID[j] \in RunIds
        /\ pc[j] \in {"exec", "judge"} => attempt[j] \in 0..RetriesOf(j)

(* An Execute call is under way only in control mode and while its run is  *)
(* at the call, and has its result from the receive to the return.         *)
ExecuteInv ==
    \A j \in Jobs :
        /\ rw[j] # "off" => pc[j] = "exec" /\ mode = "control"
        /\ got[j] # NoMsg <=> rw[j] \in {"received", "completed"}

(* The call of attempt t of job j has enqueued its assignment.             *)
Issued(j, t) ==
    \/ t < attempt[j]
    \/ /\ t = attempt[j]
       /\ \/ rw[j] \in {"waiting", "received", "completed"}
          \/ pc[j] \in {"judge", "finalize", "release", "done", "lost"}

Single(a) == \A x, y \in Holders(a) : x = y

(* An assignment is nowhere before it is enqueued, and in one place after. *)
HoldInv ==
    \A a \in Asgs :
        /\ Single(a)
        /\ Holders(a) # {} => Issued(a.job, a.try)

PlaceInv == CoreInv /\ CPTypeOK /\ RunInv /\ ExecuteInv /\ HoldInv

(* What is under way for a run that is not lost is under way for its       *)
(* current call.                                                           *)
Current(a) ==
    /\ a.id = runID[a.job]
    /\ pc[a.job] # "lost" =>
          /\ a.try = attempt[a.job]
          /\ rw[a.job] \in {"waiting", "received", "completed"}

(* A channel is registered for as long as its Execute call is under way.   *)
ChannelInv ==
    /\ \A r \in RunIds : channels[r] # NoChan =>
          LET j == channels[r][1] IN
            /\ rw[j] # "off" /\ runID[j] = r
            /\ channels[r][2] = attempt[j]
    /\ \A j \in Jobs : rw[j] # "off" => channels[runID[j]] = <<j, attempt[j]>>

(* The server's own queue and results do not outlive it.                   *)
RouteInv ==
    /\ \A a \in Asgs : Holders(a) # {} => Current(a)
    /\ \A i \in DOMAIN pending : pc[pending[i].job] # "lost"
    /\ \A d \in delivering : d.ch = ChanOf(d.asg) /\ pc[d.asg.job] # "lost"
    /\ \A b \in buffered : b.ch = ChanOf(b.msg.asg) /\ pc[b.msg.asg.job] # "lost"
    /\ ChannelInv
    /\ OwnResult
    /\ InflightIsWaiting

(* How the agent of the current attempt ended: not at all before its       *)
(* worker reports, as reported afterwards.                                 *)
OutcomeInv ==
    /\ \A j \in Jobs :
          (mode = "control" /\ pc[j] = "exec" /\ rw[j] \in {"off", "registered"}) =>
              agentOut[j] = "none"
    /\ \A i \in DOMAIN pending : agentOut[pending[i].job] = "none"
    /\ \A w \in Workers :
          (wk[w] # Idle /\ wk[w].phase # "report" /\ pc[wk[w].asg.job] # "lost") =>
              agentOut[wk[w].asg.job] = "none"
    /\ \A m \in reports : pc[m.asg.job] # "lost" => agentOut[m.asg.job] = m.out
    /\ \A d \in delivering : agentOut[d.asg.job] = d.out
    /\ \A b \in buffered : agentOut[b.msg.asg.job] = b.msg.out
    /\ \A j \in Jobs : got[j] # NoMsg => agentOut[j] = got[j].out

-----------------------------------------------------------------------------
(* Types of attempts, assignments and channels.                            *)
LEMMA TriesAreNat == Tries \subseteq Nat
BY RetriesType DEF Tries

LEMMA AttemptIsTry ==
    ASSUME NEW j \in Jobs, attempt[j] \in 0..RetriesOf(j) PROVE attempt[j] \in Tries
BY DEF Tries

LEMMA AsgOfType ==
    ASSUME RunInv, NEW j \in Jobs, pc[j] = "exec"
    PROVE  /\ AsgOf(j) \in Asgs
           /\ <<j, attempt[j]>> \in Chans /\ ChanOf(AsgOf(j)) = <<j, attempt[j]>>
           /\ runID[j] \in RunIds
<1>1. runID[j] \in RunIds /\ attempt[j] \in 0..RetriesOf(j)
  BY DEF RunInv, Open
<1>2. attempt[j] \in Tries
  BY <1>1, AttemptIsTry
<1> QED
  BY <1>1, <1>2 DEF AsgOf, Asgs, Chans, ChanOf

(* A worker that is not idle has an assignment.                            *)
LEMMA WorkerAsg ==
    ASSUME CPTypeOK, NEW w \in Workers, wk[w] # Idle
    PROVE  /\ wk[w].asg \in Asgs /\ wk[w].phase \in {"reply", "work", "report"}
           /\ wk[w] = Busy(wk[w].phase, wk[w].asg)
BY DEF CPTypeOK, WorkerStates, Busy

LEMMA WorkerPhase ==
    ASSUME NEW w \in Workers, wk[w].phase # "idle" PROVE wk[w] # Idle
BY DEF Idle

LEMMA BusyType ==
    ASSUME NEW a \in Asgs, NEW ph \in {"reply", "work", "report"}
    PROVE  /\ Busy(ph, a) \in WorkerStates /\ Busy(ph, a) # Idle
           /\ Busy(ph, a).phase = ph /\ Busy(ph, a).asg = a
<1>1. Busy(ph, a) \in [phase : {"reply", "work", "report"}, asg : Asgs]
  BY DEF Busy
<1>2. Busy(ph, a).phase = ph /\ Busy(ph, a).asg = a
  BY DEF Busy
<1>3. Busy(ph, a) # Idle
  BY <1>2 DEF Idle
<1> QED
  BY <1>1, <1>2, <1>3 DEF WorkerStates

(* The head of the queue, and the queue without it.                        *)
LEMMA PendingPopped ==
    ASSUME pending \in Seq(Asgs), pending # <<>>
    PROVE  /\ Head(pending) \in Asgs /\ Head(pending) = pending[1] /\ 1 \in DOMAIN pending
           /\ Tail(pending) \in Seq(Asgs)
           /\ \A i \in DOMAIN Tail(pending) :
                 /\ i + 1 \in DOMAIN pending /\ Tail(pending)[i] = pending[i + 1]
                 /\ i \in Nat \ {0}
<1>1. Len(pending) \in Nat \ {0} /\ DOMAIN pending = 1..Len(pending)
  BY EmptySeq, LenProperties
<1>2. /\ Head(pending) \in Asgs /\ Tail(pending) \in Seq(Asgs)
      /\ Len(Tail(pending)) = Len(pending) - 1
      /\ \A i \in 1..Len(Tail(pending)) : Tail(pending)[i] = pending[i + 1]
  BY HeadTailProperties
<1>3. DOMAIN Tail(pending) = 1..Len(Tail(pending))
  BY <1>2, LenProperties
<1>4. Head(pending) = pending[1]
  OBVIOUS
<1> QED
  BY <1>1, <1>2, <1>3, <1>4

LEMMA PendingElements ==
    ASSUME pending \in Seq(Asgs), NEW i \in DOMAIN pending
    PROVE  pending[i] \in Asgs /\ pending[i].job \in Jobs
<1>1. pending[i] \in Asgs
  BY LenProperties, ElementOfSeq
<1> QED
  BY <1>1 DEF Asgs

LEMMA PendingAppended ==
    ASSUME pending \in Seq(Asgs), NEW a \in Asgs
    PROVE  /\ Append(pending, a) \in Seq(Asgs)
           /\ DOMAIN Append(pending, a) = DOMAIN pending \cup {Len(pending) + 1}
           /\ \A i \in DOMAIN pending : Append(pending, a)[i] = pending[i]
           /\ Append(pending, a)[Len(pending) + 1] = a
           /\ Len(pending) + 1 \notin DOMAIN pending
<1>1. Len(pending) \in Nat /\ DOMAIN pending = 1..Len(pending)
  BY LenProperties
<1>2. /\ Append(pending, a) \in Seq(Asgs)
      /\ Len(Append(pending, a)) = Len(pending) + 1
      /\ \A i \in 1..Len(pending) : Append(pending, a)[i] = pending[i]
      /\ Append(pending, a)[Len(pending) + 1] = a
  BY AppendProperties
<1>3. DOMAIN Append(pending, a) = 1..(Len(pending) + 1)
  BY <1>2, LenProperties
<1> QED
  BY <1>1, <1>2, <1>3

-----------------------------------------------------------------------------
(* The steps of CPNext: those of the orchestrator alone, those of the      *)
(* control plane, and the end of the process.                              *)
OwnStep ==
    /\ \/ \E j \in Jobs : Submit(j)
       \/ Take
       \/ \E j \in Jobs : SendToChan(j) \/ Acquire(j) \/ StartRun(j) \/ BuildFails(j)
                          \/ BuildOK(j) \/ Judge(j) \/ Finalize(j) \/ Release(j)
       \/ /\ mode = "standalone"
          /\ \E j \in Jobs : (\E out \in Outcomes : AgentEnds(j, out)) \/ Return(j)
    /\ UNCHANGED cpVars

LEMMA OwnStepIsNext == OwnStep => Next
BY DEF OwnStep, Next, JobStep

(* The orchestrator alone does not touch a run whose Execute call is under *)
(* way, nor one that is lost, and takes no issued attempt back.            *)
LEMMA OwnStepFrame ==
    ASSUME CoreInv, CPTypeOK, RunInv, ExecuteInv, OwnStep
    PROVE  /\ UNCHANGED cpVars
           /\ \A j \in Jobs :
                 /\ rw[j] # "off" \/ pc[j] = "lost" =>
                       /\ pc'[j] = pc[j] /\ runID'[j] = runID[j]
                       /\ attempt'[j] = attempt[j] /\ agentOut'[j] = agentOut[j]
                 /\ \A t \in Nat : Issued(j, t) => Issued(j, t)'
<1> DEFINE Goal ==
      \A j \in Jobs :
          /\ rw[j] # "off" \/ pc[j] = "lost" =>
                /\ pc'[j] = pc[j] /\ runID'[j] = runID[j]
                /\ attempt'[j] = attempt[j] /\ agentOut'[j] = agentOut[j]
          /\ \A t \in Nat : Issued(j, t) => Issued(j, t)'
<1>0. /\ pc \in [Jobs -> PCs] /\ runID \in [Jobs -> RunIds \cup {NoRun}]
      /\ attempt \in [Jobs -> Nat] /\ agentOut \in [Jobs -> Outcomes \cup {"none"}]
      /\ TypeOK /\ QueueInv
      /\ \A j \in Jobs : rw[j] # "off" => pc[j] = "exec" /\ mode = "control"
      /\ \A j \in Jobs : pc[j] \in Unstarted \cup {"build"} => attempt[j] = 0
      /\ UNCHANGED cpVars /\ rw' = rw
  BY DEF CoreInv, TypeOK, ExecuteInv, RunInv, OwnStep, cpVars
<1>1. ASSUME NEW j \in Jobs, Submit(j) PROVE Goal
  BY <1>0, <1>1 DEF Submit, GoTo, Issued
<1>2. ASSUME NEW j \in Jobs, SendToChan(j) PROVE Goal
  BY <1>0, <1>2 DEF SendToChan, GoTo, Issued
<1>3. ASSUME Take PROVE Goal
  <2>1. Head(taskChan) \in Jobs /\ pc[Head(taskChan)] = "queued"
    BY <1>0, <1>3 DEF Take, TypeOK, QueueInv
  <2> QED
    BY <1>0, <1>3, <2>1 DEF Take, GoTo, Issued
<1>4. ASSUME NEW j \in Jobs, Acquire(j) PROVE Goal
  BY <1>0, <1>4 DEF Acquire, GoTo, Issued
<1>5. ASSUME NEW j \in Jobs, StartRun(j) PROVE Goal
  BY <1>0, <1>5 DEF StartRun, GoTo, Issued, Unstarted
<1>6. ASSUME NEW j \in Jobs, BuildFails(j) PROVE Goal
  BY <1>0, <1>6 DEF BuildFails, GoTo, Issued
<1>7. ASSUME NEW j \in Jobs, BuildOK(j) PROVE Goal
  BY <1>0, <1>7 DEF BuildOK, GoTo, Issued
<1>8. ASSUME NEW j \in Jobs, NEW out \in Outcomes, AgentEnds(j, out), mode = "standalone"
      PROVE  Goal
  BY <1>0, <1>8 DEF AgentEnds, Issued
<1>9. ASSUME NEW j \in Jobs, Return(j), mode = "standalone" PROVE Goal
  BY <1>0, <1>9 DEF Return, GoTo, Issued
<1>10. ASSUME NEW j \in Jobs, Judge(j) PROVE Goal
  BY <1>0, <1>10 DEF Judge, GoTo, Issued
<1>11. ASSUME NEW j \in Jobs, Finalize(j) PROVE Goal
  BY <1>0, <1>11 DEF Finalize, GoTo, Issued
<1>12. ASSUME NEW j \in Jobs, Release(j) PROVE Goal
  BY <1>0, <1>12 DEF Release, GoTo, Issued
<1> QED
  BY <1>0, <1>1, <1>2, <1>3, <1>4, <1>5, <1>6, <1>7, <1>8, <1>9, <1>10, <1>11, <1>12
  DEF OwnStep

-----------------------------------------------------------------------------
(* The orchestrator's variables, layer by layer: its own steps keep what   *)
(* its own proofs say, and so does Unregister, which returns a result that *)
(* need not be the agent's as long as run IDs may coincide.                *)
LEMMA RunInvInit == Init => RunInv
BY DEF Init, RunInv, Open

LEMMA RunInvStep == CoreInv /\ RunInv /\ [Next]_vars => RunInv'
<1> SUFFICES ASSUME CoreInv, RunInv, [Next]_vars PROVE RunInv'
  OBVIOUS
<1>0. /\ TypeOK /\ QueueInv
      /\ pc \in [Jobs -> PCs] /\ runID \in [Jobs -> RunIds \cup {NoRun}]
      /\ attempt \in [Jobs -> Nat]
      /\ \A j \in Jobs : RetriesOf(j) \in Int /\ RetriesOf(j)' = RetriesOf(j)
  BY RetriesType DEF CoreInv, TypeOK, RetriesOf
<1> USE DEF Unstarted, Open
<1>1. ASSUME NEW j \in Jobs, Submit(j) PROVE RunInv'
  BY <1>0, <1>1 DEF Submit, GoTo, RunInv
<1>2. ASSUME NEW j \in Jobs, SendToChan(j) PROVE RunInv'
  BY <1>0, <1>2 DEF SendToChan, GoTo, RunInv
<1>3. ASSUME Take PROVE RunInv'
  <2>1. Head(taskChan) \in Jobs /\ pc[Head(taskChan)] = "queued"
    BY <1>0, <1>3 DEF Take, TypeOK, QueueInv
  <2> QED
    BY <1>0, <1>3, <2>1 DEF Take, GoTo, RunInv
<1>4. ASSUME NEW j \in Jobs, Acquire(j) PROVE RunInv'
  BY <1>0, <1>4 DEF Acquire, GoTo, RunInv
<1>5. ASSUME NEW j \in Jobs, StartRun(j) PROVE RunInv'
  <2>1. <<TaskOf[j], clock>> \in RunIds
    BY <1>0, JobsAssumption DEF TypeOK, RunIds
  <2> QED
    BY <1>0, <1>5, <2>1 DEF StartRun, GoTo, RunInv
<1>6. ASSUME NEW j \in Jobs, BuildFails(j) PROVE RunInv'
  BY <1>0, <1>6 DEF BuildFails, GoTo, RunInv
<1>7. ASSUME NEW j \in Jobs, BuildOK(j) PROVE RunInv'
  BY <1>0, <1>7 DEF BuildOK, GoTo, RunInv
<1>8. ASSUME NEW j \in Jobs, NEW out \in Outcomes, AgentEnds(j, out) PROVE RunInv'
  BY <1>0, <1>8 DEF AgentEnds, RunInv
<1>9. ASSUME NEW j \in Jobs, Return(j) PROVE RunInv'
  BY <1>0, <1>9 DEF Return, GoTo, RunInv
<1>10. ASSUME NEW j \in Jobs, Judge(j) PROVE RunInv'
  <2>1. CASE result[j] = "transient" /\ attempt[j] < RetriesOf(j)
    BY <1>0, <1>10, <2>1 DEF Judge, GoTo, RunInv
  <2>2. CASE ~(result[j] = "transient" /\ attempt[j] < RetriesOf(j))
    BY <1>0, <1>10, <2>2 DEF Judge, GoTo, RunInv
  <2> QED
    BY <2>1, <2>2
<1>11. ASSUME NEW j \in Jobs, Finalize(j) PROVE RunInv'
  BY <1>0, <1>11 DEF Finalize, GoTo, RunInv
<1>12. ASSUME NEW j \in Jobs, Release(j) PROVE RunInv'
  BY <1>0, <1>12 DEF Release, GoTo, RunInv
<1>13. ASSUME Exit PROVE RunInv'
  BY <1>0, <1>13 DEF Exit, InFlight, RunInv, Running, Queued, PCs
<1>14. ASSUME UNCHANGED vars PROVE RunInv'
  BY <1>0, <1>14 DEF vars, RunInv
<1> QED
  BY <1>1, <1>2, <1>3, <1>4, <1>5, <1>6, <1>7, <1>8, <1>9, <1>10, <1>11, <1>12, <1>13, <1>14
  DEF Next, JobStep, Terminating

(* What Unregister does to a run: its call returns an outcome.             *)
LEMMA UnregisterEffect ==
    ASSUME CPTypeOK, ExecuteInv, NEW j \in Jobs, Unregister(j)
    PROVE  /\ pc[j] = "exec" /\ GoTo(j, "judge")
           /\ got[j] \in Msgs /\ got[j].out \in Outcomes
           /\ result' = [result EXCEPT ![j] = got[j].out]
           /\ UNCHANGED <<taskChan, sem, clock, runID, attempt, agentOut, hist>>
<1>1. got[j] \in Msgs /\ pc[j] = "exec"
  BY DEF Unregister, CPTypeOK, ExecuteInv
<1> QED
  BY <1>1 DEF Unregister, Msgs

LEMMA UnregisterCore ==
    ASSUME CoreInv, CPTypeOK, RunInv, ExecuteInv, NEW j \in Jobs, Unregister(j)
    PROVE  CoreInv' /\ RunInv'
<1> USE DEF CoreInv
<1>1. /\ GoTo(j, "judge") /\ "judge" \in PCs /\ "judge" \in Running /\ Live(j)
      /\ pc[j] = "exec"
      /\ result' = [result EXCEPT ![j] = got[j].out] /\ got[j].out \in Outcomes
      /\ UNCHANGED <<taskChan, sem, clock, runID, attempt, agentOut, hist>>
  BY UnregisterEffect DEF PCs, Live, Running
<1>2. TypeOK'
  BY <1>1, GoToEffect DEF TypeOK
<1>3. QueueInv'
  BY <1>1, GoToEffect DEF QueueInv, TypeOK
<1>4. SlotsMatchRuns'
  BY <1>1, LiveSame DEF SlotsMatchRuns, LiveJobs
<1>5. RunInv'
  BY <1>1, GoToEffect DEF RunInv, Unstarted, Open, RetriesOf
<1> QED
  BY <1>2, <1>3, <1>4, <1>5

(* Every other step is one of the orchestrator, or none it sees.           *)
LEMMA VisibleStep ==
    ASSUME CPTypeOK, [CPNext]_allVars
    PROVE  [Next]_vars \/ \E j \in Jobs : Unregister(j)
<1>1. ASSUME NEW w \in Workers, NEW out \in Outcomes, FinishTask(w, out) PROVE [Next]_vars
  <2> DEFINE a == wk[w].asg
  <2>1. a.job \in Jobs
    BY <1>1, WorkerPhase, WorkerAsg DEF FinishTask, Asgs
  <2>2. CASE Awaits(a) /\ agentOut[a.job] = "none"
    <3>1. AgentEnds(a.job, out)
      BY <1>1, <2>2 DEF FinishTask, Awaits, AgentEnds
    <3> QED
      BY <2>1, <3>1 DEF Next, JobStep
  <2>3. CASE ~(Awaits(a) /\ agentOut[a.job] = "none")
    BY <1>1, <2>3 DEF FinishTask, vars
  <2> QED
    BY <2>2, <2>3
<1>2. ASSUME CPExit PROVE [Next]_vars
  BY <1>2 DEF CPExit, Next
<1>3. ASSUME OwnStep PROVE [Next]_vars
  BY <1>3, OwnStepIsNext
<1>4. CASE \E j \in Jobs : Unregister(j)
  BY <1>4
<1>5. CASE UNCHANGED vars
  BY <1>5
<1> QED
  BY <1>1, <1>2, <1>3, <1>4, <1>5
  DEF CPNext, RunStep, ExecuteStep, LocalExecuteStep, WorkerStep, HandlerStep, OwnStep,
      Register, Enqueue, Receive, Complete, HandlePoll, PollReturns, PollFails, ReportFails,
      WorkerCrash, LookUp, Deliver, CPTerminating, allVars

LEMMA OrchestratorKept ==
    CoreInv /\ CPTypeOK /\ RunInv /\ ExecuteInv /\ [CPNext]_allVars => CoreInv' /\ RunInv'
BY VisibleStep, UnregisterCore, CoreStep, RunInvStep

-----------------------------------------------------------------------------
(* Types.                                                                  *)
LEMMA CPTypeInit == CPInit => CPTypeOK
<1> SUFFICES ASSUME CPInit PROVE CPTypeOK
  OBVIOUS
<1>1. TypeOK
  BY CoreInit DEF CPInit, CoreInv
<1>2. wk \in [Workers -> WorkerStates]
  BY DEF CPInit, WorkerStates
<1> QED
  BY <1>1, <1>2 DEF CPInit, CPTypeOK

LEMMA CPTypeStep ==
    CoreInv /\ CPTypeOK /\ RunInv /\ ExecuteInv /\ [CPNext]_allVars => CPTypeOK'
<1> SUFFICES ASSUME CoreInv, CPTypeOK, RunInv, ExecuteInv, [CPNext]_allVars PROVE CPTypeOK'
  OBVIOUS
<1>a. TypeOK'
  BY OrchestratorKept DEF CoreInv
<1> USE DEF CPTypeOK
<1>1. ASSUME OwnStep PROVE CPTypeOK'
  BY <1>a, <1>1 DEF OwnStep, cpVars
<1>2. ASSUME NEW j \in Jobs, Register(j) PROVE CPTypeOK'
  <2>1. <<j, attempt[j]>> \in Chans
    BY <1>2, AsgOfType DEF Register
  <2> QED
    BY <1>a, <1>2, <2>1 DEF Register
<1>3. ASSUME NEW j \in Jobs, Enqueue(j) PROVE CPTypeOK'
  <2>1. AsgOf(j) \in Asgs
    BY <1>3, AsgOfType DEF Enqueue, ExecuteInv
  <2>2. pending' \in Seq(Asgs)
    BY <1>3, <2>1, PendingAppended DEF Enqueue
  <2> QED
    BY <1>a, <1>3, <2>2 DEF Enqueue
<1>4. ASSUME NEW j \in Jobs, Receive(j) PROVE CPTypeOK'
  BY <1>a, <1>4 DEF Receive
<1>5. ASSUME NEW j \in Jobs, Complete(j) PROVE CPTypeOK'
  BY <1>a, <1>5 DEF Complete
<1>6. ASSUME NEW j \in Jobs, Unregister(j) PROVE CPTypeOK'
  BY <1>a, <1>6 DEF Unregister
<1>7. ASSUME NEW w \in Workers, HandlePoll(w) PROVE CPTypeOK'
  <2>1. /\ Head(pending) \in Asgs /\ Head(pending).id \in RunIds
        /\ Tail(pending) \in Seq(Asgs)
    BY <1>7, PendingPopped DEF HandlePoll, Asgs
  <2>2. wk' \in [Workers -> WorkerStates]
    BY <1>7, <2>1, BusyType DEF HandlePoll, SetWorker
  <2> QED
    BY <1>a, <1>7, <2>1, <2>2 DEF HandlePoll
<1>8. ASSUME NEW w \in Workers, PollReturns(w) PROVE CPTypeOK'
  <2>1. wk[w].asg \in Asgs
    BY <1>8, WorkerPhase, WorkerAsg DEF PollReturns
  <2>2. wk' \in [Workers -> WorkerStates]
    BY <1>8, <2>1, BusyType DEF PollReturns, SetWorker
  <2> QED
    BY <1>a, <1>8, <2>2 DEF PollReturns
<1>9. ASSUME NEW w \in Workers, NEW out \in Outcomes, FinishTask(w, out) PROVE CPTypeOK'
  <2>1. wk[w].asg \in Asgs
    BY <1>9, WorkerPhase, WorkerAsg DEF FinishTask
  <2>2. wk' \in [Workers -> WorkerStates]
    BY <1>9, <2>1, BusyType DEF FinishTask, SetWorker
  <2>3. reports' \subseteq [from : Workers, asg : Asgs, out : Outcomes]
    BY <1>9, <2>1 DEF FinishTask
  <2> QED
    BY <1>a, <1>9, <2>2, <2>3 DEF FinishTask
<1>b. Idle \in WorkerStates
  BY DEF WorkerStates
<1>10. ASSUME NEW w \in Workers, PollFails(w) \/ ReportFails(w) \/ WorkerCrash(w)
       PROVE  CPTypeOK'
  <2>1. wk' \in [Workers -> WorkerStates]
    BY <1>10, <1>b DEF PollFails, ReportFails, WorkerCrash, SetWorker
  <2>2. reports' \subseteq reports
    BY <1>10 DEF PollFails, ReportFails, WorkerCrash
  <2> QED
    BY <1>a, <1>10, <2>1, <2>2 DEF PollFails, ReportFails, WorkerCrash
<1>11. ASSUME NEW m \in reports, LookUp(m) PROVE CPTypeOK'
  <2>1. wk' \in [Workers -> WorkerStates]
    BY <1>11, <1>b DEF LookUp, Answer
  <2>2. delivering' \subseteq [from : Workers, asg : Asgs, out : Outcomes, ch : Chans]
    <3>1. m.from \in Workers /\ m.asg \in Asgs /\ m.asg.id \in RunIds /\ m.out \in Outcomes
      BY DEF Asgs
    <3> QED
      BY <1>11, <3>1 DEF LookUp
  <2> QED
    BY <1>a, <1>11, <2>1, <2>2 DEF LookUp
<1>12. ASSUME NEW d \in delivering, Deliver(d) PROVE CPTypeOK'
  <2>1. wk' \in [Workers -> WorkerStates]
    BY <1>12, <1>b DEF Deliver, Answer
  <2>2. buffered' \subseteq [ch : Chans, msg : Msgs]
    BY <1>12 DEF Deliver, Msgs
  <2> QED
    BY <1>a, <1>12, <2>1, <2>2 DEF Deliver
<1>13. ASSUME CPExit PROVE CPTypeOK'
  <2>1. wk' \in [Workers -> WorkerStates]
    BY <1>13, <1>b DEF CPExit
  <2>2. pending' \in Seq(Asgs)
    BY <1>13 DEF CPExit
  <2> QED
    BY <1>a, <1>13, <2>1, <2>2 DEF CPExit
<1>14. ASSUME UNCHANGED allVars PROVE CPTypeOK'
  BY <1>a, <1>14 DEF allVars, cpVars
<1> QED
  BY <1>1, <1>2, <1>3, <1>4, <1>5, <1>6, <1>7, <1>8, <1>9, <1>10, <1>11, <1>12, <1>13, <1>14
  DEF CPNext, RunStep, ExecuteStep, LocalExecuteStep, WorkerStep, HandlerStep, OwnStep,
      CPTerminating

-----------------------------------------------------------------------------
(* RemoteWorker.Execute.                                                   *)
LEMMA ExecuteInit == CPInit => ExecuteInv
BY DEF CPInit, ExecuteInv

LEMMA ExecuteInvStep ==
    CoreInv /\ CPTypeOK /\ RunInv /\ ExecuteInv /\ [CPNext]_allVars => ExecuteInv'
<1> SUFFICES ASSUME CoreInv, CPTypeOK, RunInv, ExecuteInv, [CPNext]_allVars PROVE ExecuteInv'
  OBVIOUS
<1>0. /\ rw \in [Jobs -> {"off", "registered", "waiting", "received", "completed"}]
      /\ got \in [Jobs -> Msgs \cup {NoMsg}] /\ pc \in [Jobs -> PCs]
  BY DEF CPTypeOK, TypeOK
<1>1. ASSUME OwnStep PROVE ExecuteInv'
  BY <1>1, OwnStepFrame DEF ExecuteInv, cpVars
<1>2. ASSUME NEW j \in Jobs, Register(j) PROVE ExecuteInv'
  BY <1>0, <1>2 DEF Register, ExecuteInv, vars
<1>3. ASSUME NEW j \in Jobs, Enqueue(j) PROVE ExecuteInv'
  BY <1>0, <1>3 DEF Enqueue, ExecuteInv, vars
<1>4. ASSUME NEW j \in Jobs, Receive(j) PROVE ExecuteInv'
  <2>1. PICK b \in buffered : got' = [got EXCEPT ![j] = b.msg]
    BY <1>4 DEF Receive
  <2>2. b.msg # NoMsg
    BY NilAssumption DEF CPTypeOK
  <2> QED
    BY <1>0, <1>4, <2>1, <2>2 DEF Receive, ExecuteInv, vars
<1>5. ASSUME NEW j \in Jobs, Complete(j) PROVE ExecuteInv'
  BY <1>0, <1>5 DEF Complete, ExecuteInv, vars
<1>6. ASSUME NEW j \in Jobs, Unregister(j) PROVE ExecuteInv'
  BY <1>0, <1>6 DEF Unregister, GoTo, ExecuteInv
<1>7. ASSUME CPExit PROVE ExecuteInv'
  BY <1>7 DEF CPExit, ExecuteInv
<1>8. CASE UNCHANGED <<pc, mode, rw, got>>
  BY <1>8 DEF ExecuteInv
<1> QED
  BY <1>1, <1>2, <1>3, <1>4, <1>5, <1>6, <1>7, <1>8
  DEF CPNext, RunStep, ExecuteStep, LocalExecuteStep, WorkerStep, HandlerStep, OwnStep,
      CPTerminating, HandlePoll, PollReturns, FinishTask, PollFails, ReportFails, WorkerCrash,
      LookUp, Deliver, allVars, vars, cpVars

(* No issued attempt is taken back.                                        *)
LEMMA IssuedStays ==
    ASSUME CoreInv, CPTypeOK, RunInv, ExecuteInv, [CPNext]_allVars,
           NEW j \in Jobs, NEW t \in Nat, Issued(j, t)
    PROVE  Issued(j, t)'
<1>0. /\ rw \in [Jobs -> {"off", "registered", "waiting", "received", "completed"}]
      /\ pc \in [Jobs -> PCs]
  BY DEF CPTypeOK, TypeOK
<1>1. ASSUME OwnStep PROVE Issued(j, t)'
  BY <1>1, OwnStepFrame
<1>2. ASSUME NEW i \in Jobs, Register(i) PROVE Issued(j, t)'
  BY <1>0, <1>2 DEF Register, Issued, vars
<1>3. ASSUME NEW i \in Jobs, Enqueue(i) PROVE Issued(j, t)'
  BY <1>0, <1>3 DEF Enqueue, Issued, vars
<1>4. ASSUME NEW i \in Jobs, Receive(i) PROVE Issued(j, t)'
  BY <1>0, <1>4 DEF Receive, Issued, vars
<1>5. ASSUME NEW i \in Jobs, Complete(i) PROVE Issued(j, t)'
  BY <1>0, <1>5 DEF Complete, Issued, vars
<1>6. ASSUME NEW i \in Jobs, Unregister(i) PROVE Issued(j, t)'
  BY <1>0, <1>6 DEF Unregister, GoTo, Issued
<1>7. ASSUME CPExit PROVE Issued(j, t)'
  BY <1>0, <1>7 DEF CPExit, Exit, InFlight, Running, Queued, ExecuteInv, Issued
<1>8. CASE UNCHANGED <<pc, attempt, rw>>
  BY <1>8 DEF Issued
<1> QED
  BY <1>1, <1>2, <1>3, <1>4, <1>5, <1>6, <1>7, <1>8
  DEF CPNext, RunStep, ExecuteStep, LocalExecuteStep, WorkerStep, HandlerStep, OwnStep,
      CPTerminating, HandlePoll, PollReturns, FinishTask, PollFails, ReportFails, WorkerCrash,
      LookUp, Deliver, allVars, vars, cpVars

-----------------------------------------------------------------------------
(* Where an assignment is.                                                 *)
LEMMA InHolders ==
    ASSUME NEW a, NEW x
    PROVE  x \in Holders(a) <=>
              \/ \E i \in DOMAIN pending : pending[i] = a /\ x = <<"queue", i>>
              \/ \E w \in Workers : /\ wk[w] # Idle /\ wk[w].asg = a /\ wk[w].phase # "report"
                                    /\ x = <<"worker", w>>
              \/ \E m \in reports : m.asg = a /\ x = <<"request", m>>
              \/ \E d \in delivering : d.asg = a /\ x = <<"handler", d>>
              \/ \E b \in buffered : b.msg.asg = a /\ x = <<"channel", b>>
              \/ \E j \in Jobs : got[j] # NoMsg /\ got[j].asg = a /\ x = <<"run", j>>
BY DEF Holders

(* A step carries an assignment on if it neither doubles nor creates it.   *)
Carried(a) == Single(a)' /\ (Holders(a)' # {} => Holders(a) # {})

LEMMA CarriedIfKept ==
    ASSUME NEW a, Single(a), Holders(a)' \subseteq Holders(a) PROVE Carried(a)
BY DEF Single, Carried

LEMMA CarriedIfMoved ==
    ASSUME NEW a, Single(a), NEW x \in Holders(a), NEW y,
           Holders(a)' \subseteq (Holders(a) \ {x}) \cup {y}
    PROVE  Carried(a)
BY DEF Single, Carried

(* Every step but Enqueue carries every assignment on.                     *)
LEMMA StepsCarry ==
    ASSUME CoreInv, CPTypeOK, RunInv, ExecuteInv, [CPNext]_allVars,
           \A j \in Jobs : ~ Enqueue(j),
           NEW a \in Asgs, Single(a)
    PROVE  Carried(a)
<1>0. /\ rw \in [Jobs -> {"off", "registered", "waiting", "received", "completed"}]
      /\ got \in [Jobs -> Msgs \cup {NoMsg}] /\ pc \in [Jobs -> PCs]
      /\ wk \in [Workers -> WorkerStates]
  BY DEF CPTypeOK, TypeOK
<1>1. CASE UNCHANGED <<pending, wk, reports, delivering, buffered, got>>
  BY <1>1, CarriedIfKept DEF Holders
<1>2. ASSUME NEW j \in Jobs, Receive(j) PROVE Carried(a)
  <2>1. PICK b \in buffered : /\ got' = [got EXCEPT ![j] = b.msg]
                              /\ buffered' = buffered \ {b}
    BY <1>2 DEF Receive
  <2>2. UNCHANGED <<pending, wk, reports, delivering>> /\ got[j] = NoMsg
    BY <1>2 DEF Receive, ExecuteInv
  <2>3. \A i \in Jobs : got'[i] = IF i = j THEN b.msg ELSE got[i]
    BY <1>0, <2>1
  <2>4. CASE b.msg.asg = a
    <3>1. <<"channel", b>> \in Holders(a)
      BY <2>4, InHolders
    <3>2. Holders(a)' \subseteq (Holders(a) \ {<<"channel", b>>}) \cup {<<"run", j>>}
      BY <2>1, <2>2, <2>3 DEF Holders
    <3> QED
      BY <3>1, <3>2, CarriedIfMoved
  <2>5. CASE b.msg.asg # a
    <3>1. Holders(a)' \subseteq Holders(a)
      BY <2>1, <2>2, <2>3, <2>5 DEF Holders
    <3> QED
      BY <3>1, CarriedIfKept
  <2> QED
    BY <2>4, <2>5
<1>3. ASSUME NEW j \in Jobs, Unregister(j) PROVE Carried(a)
  <2>1. UNCHANGED <<pending, wk, reports, delivering, buffered>>
    BY <1>3 DEF Unregister
  <2>2. \A i \in Jobs : got'[i] = IF i = j THEN NoMsg ELSE got[i]
    BY <1>0, <1>3 DEF Unregister
  <2>3. Holders(a)' \subseteq Holders(a)
    BY <2>1, <2>2 DEF Holders
  <2> QED
    BY <2>3, CarriedIfKept
<1>4. ASSUME NEW w \in Workers, HandlePoll(w) PROVE Carried(a)
  <2> DEFINE h == Head(pending)
  <2>1. /\ h \in Asgs /\ h = pending[1] /\ 1 \in DOMAIN pending
        /\ \A i \in DOMAIN pending' :
              i + 1 \in DOMAIN pending /\ pending'[i] = pending[i + 1] /\ i \in Nat \ {0}
    BY <1>4, PendingPopped DEF HandlePoll, CPTypeOK
  <2>2. wk[w] = Idle /\ \A v \in Workers : wk'[v] = IF v = w THEN Busy("reply", h) ELSE wk[v]
    BY <1>0, <1>4 DEF HandlePoll, SetWorker
  <2>3. Busy("reply", h) # Idle /\ Busy("reply", h).asg = h
    BY <2>1, BusyType
  <2>4. UNCHANGED <<reports, delivering, buffered, got>>
    BY <1>4 DEF HandlePoll
  <2> HIDE DEF h
  <2>5. CASE h = a
    <3>1. Holders(a) = {<<"queue", 1>>}
      <4>1. <<"queue", 1>> \in Holders(a)
        BY <2>1, <2>5, InHolders
      <4> QED
        BY <4>1 DEF Single
    <3>2. \A i \in DOMAIN pending' : pending'[i] # a
      <4> SUFFICES ASSUME NEW i \in DOMAIN pending', pending'[i] = a PROVE FALSE
        OBVIOUS
      <4>1. <<"queue", i + 1>> \in Holders(a)
        BY <2>1, InHolders
      <4>2. i + 1 = 1
        BY <3>1, <4>1
      <4> QED
        BY <2>1, <4>2
    <3>3. Holders(a)' \subseteq {<<"worker", w>>} \cup Holders(a)
      BY <2>2, <2>4, <3>2 DEF Holders
    <3>4. <<"queue", 1>> \notin Holders(a)'
      BY <3>2 DEF Holders
    <3>5. Holders(a)' \subseteq (Holders(a) \ {<<"queue", 1>>}) \cup {<<"worker", w>>}
      BY <3>3, <3>4
    <3> QED
      BY <3>1, <3>5, CarriedIfMoved
  <2>6. CASE h # a
    <3>1. ASSUME NEW i \in DOMAIN pending', pending'[i] = a PROVE Carried(a)
      <4>1. <<"queue", i + 1>> \in Holders(a)
        BY <2>1, <3>1, InHolders
      <4>2. Holders(a) = {<<"queue", i + 1>>}
        BY <4>1 DEF Single
      <4>3. \A k \in DOMAIN pending' : pending'[k] = a => k = i
        <5> SUFFICES ASSUME NEW k \in DOMAIN pending', pending'[k] = a PROVE k = i
          OBVIOUS
        <5>1. <<"queue", k + 1>> \in Holders(a)
          BY <2>1, InHolders
        <5>2. k + 1 = i + 1
          BY <4>2, <5>1
        <5> QED
          BY <2>1, <5>2
      <4>4. /\ \A v \in Workers : ~(wk[v] # Idle /\ wk[v].asg = a /\ wk[v].phase # "report")
            /\ \A m \in reports : m.asg # a
            /\ \A d \in delivering : d.asg # a
            /\ \A b \in buffered : b.msg.asg # a
            /\ \A j \in Jobs : ~(got[j] # NoMsg /\ got[j].asg = a)
        <5>1. \A x : /\ <<"worker", x>> \notin Holders(a) /\ <<"request", x>> \notin Holders(a)
                     /\ <<"handler", x>> \notin Holders(a) /\ <<"channel", x>> \notin Holders(a)
                     /\ <<"run", x>> \notin Holders(a)
          BY <4>2
        <5> QED
          BY <5>1 DEF Holders
      <4>5. Holders(a)' \subseteq {<<"queue", i>>}
        BY <2>2, <2>3, <2>4, <2>6, <4>3, <4>4 DEF Holders
      <4> QED
        BY <4>1, <4>2, <4>5, CarriedIfMoved
    <3>2. ASSUME \A i \in DOMAIN pending' : pending'[i] # a PROVE Carried(a)
      <4>1. Holders(a)' \subseteq Holders(a)
        BY <2>2, <2>3, <2>4, <2>6, <3>2 DEF Holders
      <4> QED
        BY <4>1, CarriedIfKept
    <3> QED
      BY <3>1, <3>2
  <2> QED
    BY <2>5, <2>6
<1>5. ASSUME NEW w \in Workers, PollReturns(w) PROVE Carried(a)
  <2>1. wk[w] # Idle /\ wk[w].asg \in Asgs /\ wk[w].phase = "reply"
    BY <1>5, WorkerPhase, WorkerAsg DEF PollReturns
  <2>2. \A v \in Workers : wk'[v] = IF v = w THEN Busy("work", wk[w].asg) ELSE wk[v]
    BY <1>0, <1>5 DEF PollReturns, SetWorker
  <2>3. Busy("work", wk[w].asg).asg = wk[w].asg
    BY <2>1, BusyType
  <2>4. UNCHANGED <<pending, reports, delivering, buffered, got>>
    BY <1>5 DEF PollReturns
  <2>5. Holders(a)' \subseteq Holders(a)
    BY <2>1, <2>2, <2>3, <2>4 DEF Holders
  <2> QED
    BY <2>5, CarriedIfKept
<1>6. ASSUME NEW w \in Workers, NEW out \in Outcomes, FinishTask(w, out) PROVE Carried(a)
  <2> DEFINE m == [from |-> w, asg |-> wk[w].asg, out |-> out]
  <2>1. wk[w] # Idle /\ wk[w].asg \in Asgs /\ wk[w].phase = "work"
    BY <1>6, WorkerPhase, WorkerAsg DEF FinishTask
  <2>2. \A v \in Workers : wk'[v] = IF v = w THEN Busy("report", wk[w].asg) ELSE wk[v]
    BY <1>0, <1>6 DEF FinishTask, SetWorker
  <2>3. Busy("report", wk[w].asg).phase = "report"
    BY <2>1, BusyType
  <2>4. UNCHANGED <<pending, delivering, buffered, got>> /\ reports' = reports \cup {m}
    BY <1>6 DEF FinishTask
  <2>5. m.asg = wk[w].asg
    OBVIOUS
  <2> HIDE DEF m
  <2>6. CASE wk[w].asg = a
    <3>1. <<"worker", w>> \in Holders(a)
      BY <2>1, <2>6, InHolders
    <3>2. Holders(a)' \subseteq (Holders(a) \ {<<"worker", w>>}) \cup {<<"request", m>>}
      BY <2>2, <2>3, <2>4 DEF Holders
    <3> QED
      BY <3>1, <3>2, CarriedIfMoved
  <2>7. CASE wk[w].asg # a
    <3>1. Holders(a)' \subseteq Holders(a)
      BY <2>2, <2>3, <2>4, <2>5, <2>7 DEF Holders
    <3> QED
      BY <3>1, CarriedIfKept
  <2> QED
    BY <2>6, <2>7
<1>7. ASSUME NEW w \in Workers, PollFails(w) \/ ReportFails(w) \/ WorkerCrash(w)
      PROVE  Carried(a)
  <2>1. \A v \in Workers : wk'[v] = IF v = w THEN Idle ELSE wk[v]
    BY <1>0, <1>7 DEF PollFails, ReportFails, WorkerCrash, SetWorker
  <2>2. UNCHANGED <<pending, delivering, buffered, got>> /\ reports' \subseteq reports
    BY <1>7 DEF PollFails, ReportFails, WorkerCrash
  <2>3. Holders(a)' \subseteq Holders(a)
    BY <2>1, <2>2 DEF Holders
  <2> QED
    BY <2>3, CarriedIfKept
<1>8. ASSUME NEW m \in reports, LookUp(m) PROVE Carried(a)
  <2> DEFINE d == [from |-> m.from, asg |-> m.asg, out |-> m.out, ch |-> channels[m.asg.id]]
  <2>1. /\ UNCHANGED <<pending, buffered, got>> /\ reports' = reports \ {m}
        /\ delivering' \subseteq delivering \cup {d}
    BY <1>8 DEF LookUp
  <2>2. \A v \in Workers : wk'[v] = wk[v] \/ wk'[v] = Idle
    BY <1>0, <1>8 DEF LookUp, Answer
  <2>3. d.asg = m.asg
    OBVIOUS
  <2> HIDE DEF d
  <2>4. CASE m.asg = a
    <3>1. <<"request", m>> \in Holders(a)
      BY <2>4, InHolders
    <3>2. Holders(a)' \subseteq (Holders(a) \ {<<"request", m>>}) \cup {<<"handler", d>>}
      BY <2>1, <2>2 DEF Holders
    <3> QED
      BY <3>1, <3>2, CarriedIfMoved
  <2>5. CASE m.asg # a
    <3>1. Holders(a)' \subseteq Holders(a)
      BY <2>1, <2>2, <2>3, <2>5 DEF Holders
    <3> QED
      BY <3>1, CarriedIfKept
  <2> QED
    BY <2>4, <2>5
<1>9. ASSUME NEW d \in delivering, Deliver(d) PROVE Carried(a)
  <2> DEFINE b == [ch |-> d.ch, msg |-> [asg |-> d.asg, out |-> d.out]]
  <2>1. /\ UNCHANGED <<pending, reports, got>> /\ delivering' = delivering \ {d}
        /\ buffered' \subseteq buffered \cup {b}
    BY <1>9 DEF Deliver
  <2>2. \A v \in Workers : wk'[v] = wk[v] \/ wk'[v] = Idle
    BY <1>0, <1>9 DEF Deliver, Answer
  <2>3. b.msg.asg = d.asg
    OBVIOUS
  <2> HIDE DEF b
  <2>4. CASE d.asg = a
    <3>1. <<"handler", d>> \in Holders(a)
      BY <2>4, InHolders
    <3>2. Holders(a)' \subseteq (Holders(a) \ {<<"handler", d>>}) \cup {<<"channel", b>>}
      BY <2>1, <2>2 DEF Holders
    <3> QED
      BY <3>1, <3>2, CarriedIfMoved
  <2>5. CASE d.asg # a
    <3>1. Holders(a)' \subseteq Holders(a)
      BY <2>1, <2>2, <2>3, <2>5 DEF Holders
    <3> QED
      BY <3>1, CarriedIfKept
  <2> QED
    BY <2>4, <2>5
<1>10. ASSUME CPExit PROVE Carried(a)
  <2>1. /\ pending' = <<>> /\ reports' = {} /\ delivering' = {} /\ buffered' = {}
        /\ \A j \in Jobs : got'[j] = NoMsg
        /\ \A v \in Workers : wk'[v] = wk[v] \/ wk'[v] = Idle
    BY <1>10 DEF CPExit
  <2>2. Holders(a)' \subseteq Holders(a)
    BY <2>1 DEF Holders
  <2> QED
    BY <2>2, CarriedIfKept
<1> QED
  BY <1>1, <1>2, <1>3, <1>4, <1>5, <1>6, <1>7, <1>8, <1>9, <1>10
  DEF CPNext, RunStep, ExecuteStep, LocalExecuteStep, WorkerStep, HandlerStep, OwnStep,
      CPTerminating, Register, Complete, allVars, cpVars

LEMMA EnqueueKeeps ==
    ASSUME PlaceInv, [CPNext]_allVars, NEW j \in Jobs, Enqueue(j)
    PROVE  HoldInv'
<1> DEFINE n == AsgOf(j)
<1>0. /\ CoreInv /\ CPTypeOK /\ RunInv /\ ExecuteInv
      /\ \A a \in Asgs : Single(a) /\ (Holders(a) # {} => Issued(a.job, a.try))
      /\ rw \in [Jobs -> {"off", "registered", "waiting", "received", "completed"}]
      /\ attempt \in [Jobs -> Nat]
      /\ \A a \in Asgs : a.job \in Jobs /\ a.try \in Nat
  BY TriesAreNat DEF PlaceInv, CPTypeOK, TypeOK, HoldInv, Asgs
<1>1. rw[j] = "registered" /\ pc[j] = "exec" /\ n \in Asgs /\ n.job = j /\ n.try = attempt[j]
  BY <1>0, AsgOfType DEF Enqueue, ExecuteInv, AsgOf
<1>2. /\ DOMAIN pending' = DOMAIN pending \cup {Len(pending) + 1}
      /\ \A i \in DOMAIN pending : pending'[i] = pending[i]
      /\ pending'[Len(pending) + 1] = n
  BY <1>0, <1>1, PendingAppended DEF CPTypeOK, Enqueue
<1>3. UNCHANGED <<vars, wk, reports, delivering, buffered, got>> /\ rw' = [rw EXCEPT ![j] = "waiting"]
  BY DEF Enqueue
<1> HIDE DEF n
<1>4. Holders(n) = {}
  BY <1>0, <1>1 DEF Issued
<1>5. ASSUME NEW a \in Asgs PROVE Single(a)' /\ (Holders(a)' # {} => Issued(a.job, a.try)')
  <2>1. CASE a = n
    <3>1. Holders(a)' \subseteq Holders(a) \cup {<<"queue", Len(pending) + 1>>}
      BY <1>2, <1>3 DEF Holders
    <3>2. Issued(a.job, a.try)'
      BY <1>0, <1>1, <1>3, <2>1 DEF Issued, vars
    <3> QED
      BY <1>4, <2>1, <3>1, <3>2 DEF Single
  <2>2. CASE a # n
    <3>1. Holders(a)' \subseteq Holders(a)
      BY <1>2, <1>3, <2>2 DEF Holders
    <3>2. Carried(a)
      BY <1>0, <3>1, CarriedIfKept
    <3> QED
      BY <1>0, <3>2, IssuedStays DEF Carried
  <2> QED
    BY <2>1, <2>2
<1> QED
  BY <1>5 DEF HoldInv

LEMMA PlaceInit == CPInit => PlaceInv
<1> SUFFICES ASSUME CPInit PROVE PlaceInv
  OBVIOUS
<1>1. \A a \in Asgs : Holders(a) = {}
  BY DEF CPInit, Holders
<1>2. HoldInv
  BY <1>1 DEF HoldInv, Single
<1> QED
  BY <1>2, CoreInit, CPTypeInit, RunInvInit, ExecuteInit DEF PlaceInv, CPInit

LEMMA PlaceStep == PlaceInv /\ [CPNext]_allVars => PlaceInv'
<1> SUFFICES ASSUME PlaceInv, [CPNext]_allVars PROVE PlaceInv'
  OBVIOUS
<1>0. CoreInv /\ CPTypeOK /\ RunInv /\ ExecuteInv
  BY DEF PlaceInv
<1>1. CoreInv' /\ CPTypeOK' /\ RunInv' /\ ExecuteInv'
  BY <1>0, OrchestratorKept, CPTypeStep, ExecuteInvStep
<1>2. HoldInv'
  <2>1. CASE \E j \in Jobs : Enqueue(j)
    BY <2>1, EnqueueKeeps
  <2>2. CASE \A j \in Jobs : ~ Enqueue(j)
    <3>1. ASSUME NEW a \in Asgs PROVE Single(a)' /\ (Holders(a)' # {} => Issued(a.job, a.try)')
      <4>1. Single(a) /\ (Holders(a) # {} => Issued(a.job, a.try))
        BY DEF PlaceInv, HoldInv
      <4>2. Carried(a)
        BY <1>0, <2>2, <4>1, StepsCarry
      <4>3. a.job \in Jobs /\ a.try \in Nat
        BY TriesAreNat DEF Asgs
      <4> QED
        BY <1>0, <4>1, <4>2, <4>3, IssuedStays DEF Carried
    <3> QED
      BY <3>1 DEF HoldInv
  <2> QED
    BY <2>1, <2>2
<1> QED
  BY <1>1, <1>2 DEF PlaceInv

(* CPSpec keeps every variable in its type, whatever is lost and whatever  *)
(* the parameters.                                                         *)
THEOREM CPTypeCorrect == CPSpec => []CPTypeOK
<1>1. PlaceInv => CPTypeOK
  BY DEF PlaceInv
<1> QED
  BY <1>1, PlaceInit, PlaceStep, PTL DEF CPSpec

(* An assignment is never in two places, so never executed by two workers  *)
(* and never answered twice: for any number of runs and workers, lost      *)
(* messages, crashes and restarts, and also when run IDs coincide.         *)
THEOREM OneHolderCorrect == CPSpec => []OneHolder
<1>1. PlaceInv => OneHolder
  <2> SUFFICES ASSUME PlaceInv, NEW a \in [id : RunIds, job : Jobs, try : Tries]
               PROVE  Cardinality(Holders(a)) <= 1
    BY DEF OneHolder
  <2>1. Single(a)
    BY DEF PlaceInv, HoldInv, Asgs
  <2>2. CASE Holders(a) = {}
    BY <2>2, FS_EmptySet
  <2>3. ASSUME NEW x \in Holders(a) PROVE Cardinality(Holders(a)) <= 1
    <3>1. Holders(a) = {x}
      BY <2>1 DEF Single
    <3> QED
      BY <3>1, FS_Singleton
  <2> QED
    BY <2>2, <2>3
<1> QED
  BY <1>1, PlaceInit, PlaceStep, PTL DEF CPSpec

-----------------------------------------------------------------------------
(* The way of a result back to its call, when run IDs are unique.          *)
AllRoutes == PlaceInv /\ IDInv /\ RouteInv

LEMMA IDKept == UniqueMillis /\ AllRoutes /\ [CPNext]_allVars => IDInv'
<1> SUFFICES ASSUME UniqueMillis, AllRoutes, [CPNext]_allVars PROVE IDInv'
  OBVIOUS
<1>0. CoreInv /\ CPTypeOK /\ RunInv /\ ExecuteInv /\ IDInv
  BY DEF AllRoutes, PlaceInv
<1>1. ASSUME NEW j \in Jobs, Unregister(j) PROVE IDInv'
  <2>1. pc[j] = "exec" /\ GoTo(j, "judge") /\ UNCHANGED <<runID, clock>>
    BY <1>0, <1>1, UnregisterEffect
  <2> QED
    BY <1>0, <2>1 DEF IDInv, GoTo, Unstarted, Open, CPTypeOK, TypeOK
<1> QED
  BY <1>0, <1>1, VisibleStep, IDStep

(* What is under way for a run that is not lost is its current assignment, *)
(* and is in one place.                                                    *)
LEMMA UnderWay ==
    ASSUME PlaceInv, RouteInv, NEW a \in Asgs, NEW x \in Holders(a), pc[a.job] # "lost"
    PROVE  /\ a.job \in Jobs /\ a = AsgOf(a.job) /\ pc[a.job] = "exec"
           /\ rw[a.job] \in {"waiting", "received", "completed"}
           /\ \A b \in Asgs : \A y \in Holders(b) : b.job = a.job => b = a /\ y = x
<1>1. \A b \in Asgs : /\ b.job \in Jobs
                      /\ Holders(b) # {} => Current(b)
                      /\ Single(b)
                      /\ b = [id |-> b.id, job |-> b.job, try |-> b.try]
  BY DEF PlaceInv, HoldInv, RouteInv, Asgs
<1>2. \A b \in Asgs : Holders(b) # {} /\ b.job = a.job =>
          /\ b = AsgOf(a.job) /\ rw[a.job] \in {"waiting", "received", "completed"}
  BY <1>1 DEF Current, AsgOf
<1>3. pc[a.job] = "exec"
  BY <1>1, <1>2 DEF PlaceInv, ExecuteInv
<1> QED
  BY <1>1, <1>2, <1>3 DEF Single

(* What Execute has received is held by its run.                           *)
LEMMA GotHeld ==
    ASSUME PlaceInv, RouteInv, NEW j \in Jobs, got[j] # NoMsg
    PROVE  /\ AsgOf(j) \in Asgs /\ <<"run", j>> \in Holders(AsgOf(j))
           /\ pc[j] = "exec" /\ AsgOf(j).job = j
<1>1. got[j].asg = AsgOf(j)
  BY DEF RouteInv, OwnResult
<1>2. got[j] \in Msgs /\ pc[j] = "exec"
  BY DEF PlaceInv, CPTypeOK, ExecuteInv
<1>3. AsgOf(j) \in Asgs
  BY <1>1, <1>2 DEF Msgs
<1> QED
  BY <1>1, <1>2, <1>3, InHolders DEF AsgOf

(* A channel belongs to the run whose ID it is registered under.           *)
LEMMA ChannelOwner ==
    ASSUME PlaceInv, IDInv, RouteInv, NEW j \in Jobs, runID[j] \in RunIds,
           channels[runID[j]] # NoChan
    PROVE  /\ rw[j] # "off" /\ pc[j] = "exec"
           /\ channels[runID[j]] = <<j, attempt[j]>>
<1>1. channels[runID[j]] \in Chans
  BY DEF PlaceInv, CPTypeOK
<1> DEFINE i == channels[runID[j]][1]
<1>2. i \in Jobs /\ channels[runID[j]] = <<i, channels[runID[j]][2]>>
  BY <1>1 DEF Chans
<1>3. rw[i] # "off" /\ runID[i] = runID[j] /\ channels[runID[j]][2] = attempt[i]
  BY DEF RouteInv, ChannelInv
<1>4. i = j
  BY <1>2, <1>3, NoRunAssumption DEF IDInv
<1> QED
  BY <1>2, <1>3, <1>4 DEF PlaceInv, ExecuteInv

(* The job of an assignment under way keeps its run ID, its attempt and    *)
(* its place, unless its own call moves on or the process ends.            *)
LEMMA OwnStepKeepsHeld ==
    ASSUME PlaceInv, RouteInv, OwnStep, NEW a \in Asgs, Holders(a) # {}
    PROVE  /\ pc'[a.job] = pc[a.job] /\ runID'[a.job] = runID[a.job]
           /\ attempt'[a.job] = attempt[a.job] /\ agentOut'[a.job] = agentOut[a.job]
<1>1. a.job \in Jobs /\ (rw[a.job] # "off" \/ pc[a.job] = "lost")
  BY DEF Asgs, RouteInv, Current
<1> QED
  BY <1>1, OwnStepFrame DEF PlaceInv

(* The steps that neither move a run on nor end the process leave what the *)
(* invariant says of runs alone.                                           *)
HandlingStep ==
    \/ \E w \in Workers :
          WorkerStep(w) \/ PollFails(w) \/ ReportFails(w) \/ WorkerCrash(w)
    \/ HandlerStep

LEMMA HandlingFrame ==
    HandlingStep => UNCHANGED <<pc, runID, attempt, result, mode, rw, got, channels>>
BY DEF HandlingStep, WorkerStep, HandlerStep, HandlePoll, PollReturns, FinishTask, PollFails,
       ReportFails, WorkerCrash, LookUp, Deliver, vars

LEMMA StepCases ==
    ASSUME [CPNext]_allVars
    PROVE  \/ OwnStep
           \/ \E j \in Jobs : \/ Register(j) \/ Enqueue(j) \/ Receive(j) \/ Complete(j)
                              \/ Unregister(j)
           \/ HandlingStep
           \/ CPExit
           \/ UNCHANGED allVars
BY DEF CPNext, RunStep, ExecuteStep, LocalExecuteStep, OwnStep, HandlingStep, CPTerminating

(* At the end of the process every run under way is lost, for good.        *)
LEMMA ExitLoses ==
    ASSUME PlaceInv, CPExit, NEW j \in Jobs
    PROVE  /\ runID'[j] = runID[j] /\ rw'[j] = "off"
           /\ pc[j] = "lost" \/ pc[j] = "exec" => pc'[j] = "lost"
BY DEF CPExit, Exit, InFlight, Running, Queued, PlaceInv, CPTypeOK, TypeOK

LEMMA CurrentKept ==
    ASSUME PlaceInv, RouteInv, [CPNext]_allVars, NEW a \in Asgs, Holders(a)' # {}
    PROVE  Current(a)'
<1>0. /\ CoreInv /\ CPTypeOK /\ RunInv /\ ExecuteInv
      /\ rw \in [Jobs -> {"off", "registered", "waiting", "received", "completed"}]
      /\ a.job \in Jobs /\ a.try \in Nat /\ Single(a)
      /\ Holders(a) # {} => Current(a)
  BY TriesAreNat DEF PlaceInv, HoldInv, RouteInv, CPTypeOK, Asgs
<1>1. CASE \A j \in Jobs : ~ Enqueue(j)
  <2>1. Holders(a) # {} /\ Current(a)
    BY <1>0, <1>1, StepsCarry DEF Carried
  <2>2. ASSUME OwnStep PROVE Current(a)'
    BY <2>1, <2>2, OwnStepKeepsHeld DEF Current, OwnStep, cpVars
  <2>3. ASSUME NEW j \in Jobs, Register(j) \/ Receive(j) \/ Complete(j) PROVE Current(a)'
    <3>1. UNCHANGED <<pc, runID, attempt>>
      BY <2>3 DEF Register, Receive, Complete, vars
    <3>2. j = a.job => ~ Register(j)
      BY <2>1 DEF Current, Register
    <3> QED
      BY <1>0, <2>1, <2>3, <3>1, <3>2 DEF Current, Register, Receive, Complete
  <2>4. ASSUME NEW j \in Jobs, Unregister(j) PROVE Current(a)'
    <3>1. /\ UNCHANGED <<runID, attempt, pending, wk, reports, delivering, buffered>>
          /\ GoTo(j, "judge") /\ rw' = [rw EXCEPT ![j] = "off"]
          /\ got' = [got EXCEPT ![j] = NoMsg] /\ got[j] # NoMsg
      BY <1>0, <2>4 DEF Unregister, ExecuteInv
    <3>2. ASSUME a.job = j PROVE FALSE
      <4>1. AsgOf(j) \in Asgs /\ <<"run", j>> \in Holders(AsgOf(j)) /\ pc[j] = "exec"
            /\ AsgOf(j).job = j
        BY <3>1, GotHeld
      <4>2. AsgOf(j) = a
        <5>1. PICK x : x \in Holders(a)
          BY <2>1
        <5> QED
          BY <3>2, <4>1, <5>1, UnderWay
      <4>3. Holders(a) = {<<"run", j>>}
        BY <1>0, <4>1, <4>2 DEF Single
      <4>4. \A i \in Jobs : got'[i] = IF i = j THEN NoMsg ELSE got[i]
        BY <1>0, <3>1 DEF CPTypeOK
      <4>5. Holders(a)' \subseteq Holders(a) \ {<<"run", j>>}
        BY <3>1, <4>4 DEF Holders
      <4> QED
        BY <4>3, <4>5
    <3> QED
      BY <1>0, <2>1, <3>1, <3>2 DEF Current, GoTo, CPTypeOK, TypeOK
  <2>5. ASSUME HandlingStep PROVE Current(a)'
    BY <2>1, <2>5, HandlingFrame DEF Current
  <2>6. ASSUME CPExit PROVE Current(a)'
    <3>1. pc[a.job] = "lost" \/ pc[a.job] = "exec"
      BY <1>0, <2>1 DEF Current, ExecuteInv
    <3> QED
      BY <1>0, <2>1, <2>6, <3>1, ExitLoses DEF Current
  <2>7. CASE UNCHANGED allVars
    BY <2>1, <2>7 DEF Current, allVars, vars, cpVars
  <2> QED
    BY <1>1, <2>2, <2>3, <2>4, <2>5, <2>6, <2>7, StepCases
<1>2. ASSUME NEW j \in Jobs, Enqueue(j) PROVE Current(a)'
  <2>1. /\ rw[j] = "registered" /\ rw' = [rw EXCEPT ![j] = "waiting"] /\ pc[j] = "exec"
        /\ UNCHANGED <<pc, runID, attempt, wk, reports, delivering, buffered, got>>
    BY <1>0, <1>2 DEF Enqueue, ExecuteInv, vars
  <2>2. CASE a = AsgOf(j)
    BY <1>0, <2>1, <2>2 DEF Current, AsgOf
  <2>3. CASE a # AsgOf(j)
    <3>1. AsgOf(j) \in Asgs
      BY <1>0, <2>1, AsgOfType
    <3>2. /\ DOMAIN pending' = DOMAIN pending \cup {Len(pending) + 1}
          /\ \A i \in DOMAIN pending : pending'[i] = pending[i]
          /\ pending'[Len(pending) + 1] = AsgOf(j)
      BY <1>0, <1>2, <3>1, PendingAppended DEF CPTypeOK, Enqueue
    <3>3. Holders(a)' \subseteq Holders(a)
      BY <2>1, <2>3, <3>2 DEF Holders
    <3>4. Current(a)
      BY <1>0, <3>3
    <3> QED
      BY <1>0, <2>1, <3>4 DEF Current
  <2> QED
    BY <2>2, <2>3
<1> QED
  BY <1>1, <1>2

(* The queue, the handlers and the result channels hold nothing of a run   *)
(* that is lost, and every result has its own call's channel.              *)
LEMMA QueueAliveKept ==
    ASSUME PlaceInv, RouteInv, [CPNext]_allVars
    PROVE  (\A i \in DOMAIN pending : pc[pending[i].job] # "lost")'
<1> DEFINE Alive == \A i \in DOMAIN pending : pc[pending[i].job] # "lost"
<1>0. /\ Alive /\ pending \in Seq(Asgs) /\ pc \in [Jobs -> PCs] /\ ExecuteInv /\ RunInv
      /\ \A i \in DOMAIN pending : pending[i] \in Asgs /\ pending[i].job \in Jobs
                                   /\ Holders(pending[i]) # {}
  <2>1. \A i \in DOMAIN pending : pending[i] \in Asgs /\ pending[i].job \in Jobs
    BY PendingElements DEF PlaceInv, CPTypeOK
  <2>2. \A i \in DOMAIN pending : <<"queue", i>> \in Holders(pending[i])
    BY InHolders
  <2> QED
    BY <2>1, <2>2 DEF RouteInv, PlaceInv, CPTypeOK, TypeOK
<1>1. ASSUME OwnStep PROVE Alive'
  BY <1>0, <1>1, OwnStepKeepsHeld DEF OwnStep, cpVars
<1>2. ASSUME NEW j \in Jobs, Enqueue(j) PROVE Alive'
  <2>1. AsgOf(j) \in Asgs /\ AsgOf(j).job = j /\ pc[j] # "lost"
    BY <1>0, <1>2, AsgOfType DEF Enqueue, ExecuteInv, AsgOf
  <2>2. /\ DOMAIN pending' = DOMAIN pending \cup {Len(pending) + 1}
        /\ \A i \in DOMAIN pending : pending'[i] = pending[i]
        /\ pending'[Len(pending) + 1] = AsgOf(j)
    BY <1>0, <1>2, <2>1, PendingAppended DEF Enqueue
  <2>3. UNCHANGED pc
    BY <1>2 DEF Enqueue, vars
  <2> QED
    BY <1>0, <2>1, <2>2, <2>3
<1>3. ASSUME NEW j \in Jobs, Unregister(j) PROVE Alive'
  BY <1>0, <1>3 DEF Unregister, GoTo
<1>4. ASSUME NEW w \in Workers, HandlePoll(w) PROVE Alive'
  <2>1. \A i \in DOMAIN pending' : i + 1 \in DOMAIN pending /\ pending'[i] = pending[i + 1]
    BY <1>0, <1>4, PendingPopped DEF HandlePoll
  <2> QED
    BY <1>0, <1>4, <2>1 DEF HandlePoll, vars
<1>5. ASSUME CPExit PROVE Alive'
  BY <1>5 DEF CPExit
<1>6. CASE UNCHANGED <<pc, pending>>
  BY <1>0, <1>6
<1> QED
  BY <1>1, <1>2, <1>3, <1>4, <1>5, <1>6, StepCases
  DEF Register, Receive, Complete, HandlingStep, WorkerStep, HandlerStep, PollReturns,
      FinishTask, PollFails, ReportFails, WorkerCrash, LookUp, Deliver, allVars, vars, cpVars

LEMMA DeliveringKept ==
    ASSUME PlaceInv, IDInv, RouteInv, [CPNext]_allVars
    PROVE  (\A d \in delivering : d.ch = ChanOf(d.asg) /\ pc[d.asg.job] # "lost")'
<1> DEFINE Own == \A d \in delivering : d.ch = ChanOf(d.asg) /\ pc[d.asg.job] # "lost"
<1>0. /\ Own /\ pc \in [Jobs -> PCs]
      /\ \A d \in delivering : d.asg \in Asgs /\ d.asg.job \in Jobs /\ Holders(d.asg) # {}
  <2>1. \A d \in delivering : d.asg \in Asgs /\ d.asg.job \in Jobs
    BY DEF PlaceInv, CPTypeOK, Asgs
  <2>2. \A d \in delivering : <<"handler", d>> \in Holders(d.asg)
    BY InHolders
  <2> QED
    BY <2>1, <2>2 DEF RouteInv, PlaceInv, CPTypeOK, TypeOK
<1>1. ASSUME OwnStep PROVE Own'
  BY <1>0, <1>1, OwnStepKeepsHeld DEF OwnStep, cpVars, ChanOf
<1>2. ASSUME NEW j \in Jobs, Unregister(j) PROVE Own'
  BY <1>0, <1>2 DEF Unregister, GoTo, ChanOf
<1>3. ASSUME NEW m \in reports, LookUp(m) PROVE Own'
  <2> DEFINE a == m.asg
             d == [from |-> m.from, asg |-> m.asg, out |-> m.out, ch |-> channels[m.asg.id]]
  <2>1. a \in Asgs /\ a.job \in Jobs /\ a.id \in RunIds
    BY DEF PlaceInv, CPTypeOK, Asgs
  <2>2. Current(a)
    <3>1. <<"request", m>> \in Holders(a)
      BY InHolders
    <3> QED
      BY <2>1, <3>1 DEF RouteInv
  <2>3. CASE channels[a.id] = NoChan
    BY <1>0, <1>3, <2>3 DEF LookUp, vars, ChanOf
  <2>4. CASE channels[a.id] # NoChan
    <3>1. channels[a.id] = <<a.job, attempt[a.job]>> /\ pc[a.job] # "lost"
      BY <2>1, <2>2, <2>4, ChannelOwner DEF Current
    <3>2. d.ch = ChanOf(d.asg) /\ d.asg.job = a.job
      BY <2>2, <3>1 DEF Current, ChanOf
    <3>3. delivering' = delivering \cup {d} /\ UNCHANGED pc
      BY <1>3, <2>4 DEF LookUp, vars
    <3> HIDE DEF d, a
    <3> QED
      BY <1>0, <3>1, <3>2, <3>3 DEF ChanOf
  <2> QED
    BY <2>3, <2>4
<1>4. ASSUME CPExit PROVE Own'
  BY <1>4 DEF CPExit
<1>5. CASE UNCHANGED pc /\ delivering' \subseteq delivering
  BY <1>0, <1>5 DEF ChanOf
<1> QED
  BY <1>1, <1>2, <1>3, <1>4, <1>5, StepCases
  DEF Register, Enqueue, Receive, Complete, HandlingStep, WorkerStep, HandlerStep, HandlePoll,
      PollReturns, FinishTask, PollFails, ReportFails, WorkerCrash, Deliver, allVars, vars, cpVars

LEMMA BufferedKept ==
    ASSUME PlaceInv, RouteInv, [CPNext]_allVars
    PROVE  (\A b \in buffered : b.ch = ChanOf(b.msg.asg) /\ pc[b.msg.asg.job] # "lost")'
<1> DEFINE Own == \A b \in buffered : b.ch = ChanOf(b.msg.asg) /\ pc[b.msg.asg.job] # "lost"
<1>0. /\ Own /\ pc \in [Jobs -> PCs]
      /\ \A b \in buffered :
            b.msg.asg \in Asgs /\ b.msg.asg.job \in Jobs /\ Holders(b.msg.asg) # {}
  <2>1. \A b \in buffered : b.msg.asg \in Asgs /\ b.msg.asg.job \in Jobs
    BY DEF PlaceInv, CPTypeOK, Msgs, Asgs
  <2>2. \A b \in buffered : <<"channel", b>> \in Holders(b.msg.asg)
    BY InHolders
  <2> QED
    BY <2>1, <2>2 DEF RouteInv, PlaceInv, CPTypeOK, TypeOK
<1>1. ASSUME OwnStep PROVE Own'
  BY <1>0, <1>1, OwnStepKeepsHeld DEF OwnStep, cpVars, ChanOf
<1>2. ASSUME NEW j \in Jobs, Unregister(j) PROVE Own'
  BY <1>0, <1>2 DEF Unregister, GoTo, ChanOf
<1>3. ASSUME NEW d \in delivering, Deliver(d) PROVE Own'
  <2> DEFINE b == [ch |-> d.ch, msg |-> [asg |-> d.asg, out |-> d.out]]
  <2>1. d.ch = ChanOf(d.asg) /\ pc[d.asg.job] # "lost"
    BY DEF RouteInv
  <2>2. b.ch = d.ch /\ b.msg.asg = d.asg
    OBVIOUS
  <2>3. buffered' \subseteq buffered \cup {b} /\ UNCHANGED pc
    BY <1>3 DEF Deliver, vars
  <2> HIDE DEF b
  <2> QED
    BY <1>0, <2>1, <2>2, <2>3 DEF ChanOf
<1>4. ASSUME CPExit PROVE Own'
  BY <1>4 DEF CPExit
<1>5. CASE UNCHANGED pc /\ buffered' \subseteq buffered
  BY <1>0, <1>5 DEF ChanOf
<1> QED
  BY <1>1, <1>2, <1>3, <1>4, <1>5, StepCases
  DEF Register, Enqueue, Receive, Complete, HandlingStep, WorkerStep, HandlerStep, HandlePoll,
      PollReturns, FinishTask, PollFails, ReportFails, WorkerCrash, LookUp, allVars, vars, cpVars

(* The channels registered are those of the calls under way.               *)
LEMMA ChannelKept ==
    ASSUME PlaceInv, IDInv, RouteInv, [CPNext]_allVars PROVE ChannelInv'
<1>0. /\ ChannelInv /\ ExecuteInv /\ CoreInv /\ CPTypeOK /\ RunInv
      /\ rw \in [Jobs -> {"off", "registered", "waiting", "received", "completed"}]
      /\ channels \in [RunIds -> Chans \cup {NoChan}]
      /\ \A r \in RunIds : channels[r] # NoChan => channels[r][1] \in Jobs
  BY DEF RouteInv, PlaceInv, CPTypeOK, Chans
<1>1. ASSUME OwnStep PROVE ChannelInv'
  <2>1. UNCHANGED <<rw, channels>>
    BY <1>1 DEF OwnStep, cpVars
  <2>2. \A j \in Jobs : rw[j] # "off" => runID'[j] = runID[j] /\ attempt'[j] = attempt[j]
    BY <1>0, <1>1, OwnStepFrame
  <2> QED
    BY <1>0, <2>1, <2>2 DEF ChannelInv
<1>2. ASSUME NEW j \in Jobs, Register(j) PROVE ChannelInv'
  <2>1. /\ runID[j] \in RunIds /\ <<j, attempt[j]>> \in Chans
        /\ \A i \in Jobs : i # j => runID[i] # runID[j]
    BY <1>0, <1>2, AsgOfType, NoRunAssumption DEF Register, IDInv
  <2>2. /\ rw[j] = "off" /\ UNCHANGED <<runID, attempt>>
        /\ \A r \in RunIds : channels'[r] = IF r = runID[j] THEN <<j, attempt[j]>> ELSE channels[r]
        /\ \A i \in Jobs : rw'[i] = IF i = j THEN "registered" ELSE rw[i]
    BY <1>0, <1>2 DEF Register, vars
  <2>3. \A i \in Jobs : rw[i] # "off" => runID[i] \in RunIds
    BY <1>0, AsgOfType DEF ExecuteInv
  <2>4. ASSUME NEW r \in RunIds, channels'[r] # NoChan
        PROVE  /\ rw'[channels'[r][1]] # "off" /\ runID'[channels'[r][1]] = r
               /\ channels'[r][2] = attempt'[channels'[r][1]]
    BY <1>0, <2>1, <2>2, <2>4 DEF ChannelInv
  <2>5. ASSUME NEW i \in Jobs, rw'[i] # "off"
        PROVE  channels'[runID'[i]] = <<i, attempt'[i]>>
    BY <1>0, <2>1, <2>2, <2>3, <2>5 DEF ChannelInv
  <2> QED
    BY <2>4, <2>5 DEF ChannelInv
<1>3. ASSUME NEW j \in Jobs, Enqueue(j) \/ Receive(j) \/ Complete(j) PROVE ChannelInv'
  <2>1. /\ UNCHANGED <<channels, runID, attempt>>
        /\ \A i \in Jobs : rw'[i] = "off" <=> rw[i] = "off"
    BY <1>0, <1>3 DEF Enqueue, Receive, Complete, vars
  <2> QED
    BY <1>0, <2>1 DEF ChannelInv
<1>4. ASSUME NEW j \in Jobs, Unregister(j) PROVE ChannelInv'
  <2>1. rw[j] = "completed" /\ pc[j] = "exec"
    BY <1>0, <1>4 DEF Unregister, ExecuteInv
  <2>2. runID[j] \in RunIds /\ \A i \in Jobs : i # j => runID[i] # runID[j]
    BY <1>0, <2>1, AsgOfType, NoRunAssumption DEF IDInv
  <2>3. /\ UNCHANGED <<runID, attempt>>
        /\ \A r \in RunIds : channels'[r] = IF r = runID[j] THEN NoChan ELSE channels[r]
        /\ \A i \in Jobs : rw'[i] = IF i = j THEN "off" ELSE rw[i]
    BY <1>0, <1>4 DEF Unregister
  <2>4. \A i \in Jobs : rw[i] # "off" => runID[i] \in RunIds
    BY <1>0, AsgOfType DEF ExecuteInv
  <2> QED
    BY <1>0, <2>2, <2>3, <2>4 DEF ChannelInv
<1>5. CASE UNCHANGED <<rw, channels, runID, attempt>>
  BY <1>0, <1>5 DEF ChannelInv
<1>6. ASSUME CPExit PROVE ChannelInv'
  BY <1>6 DEF CPExit, ChannelInv
<1> QED
  BY <1>1, <1>2, <1>3, <1>4, <1>5, <1>6, StepCases, HandlingFrame DEF allVars, vars, cpVars

(* A call takes its own result from its channel.                           *)
LEMMA OwnResultKept ==
    ASSUME PlaceInv, RouteInv, [CPNext]_allVars PROVE OwnResult'
<1>0. /\ OwnResult /\ ExecuteInv /\ CoreInv /\ CPTypeOK /\ RunInv
      /\ got \in [Jobs -> Msgs \cup {NoMsg}]
  BY DEF RouteInv, PlaceInv, CPTypeOK
<1>1. ASSUME OwnStep PROVE OwnResult'
  <2>1. \A j \in Jobs : got[j] # NoMsg => runID'[j] = runID[j] /\ attempt'[j] = attempt[j]
    BY <1>0, <1>1, OwnStepFrame DEF ExecuteInv
  <2> QED
    BY <1>0, <1>1, <2>1 DEF OwnStep, cpVars, OwnResult, AsgOf
<1>2. ASSUME NEW j \in Jobs, Receive(j) PROVE OwnResult'
  <2>1. PICK b \in buffered : b.ch = <<j, attempt[j]>> /\ got' = [got EXCEPT ![j] = b.msg]
    BY <1>2 DEF Receive
  <2> DEFINE a == b.msg.asg
  <2>2. a \in Asgs /\ a = [id |-> a.id, job |-> a.job, try |-> a.try]
    BY <1>0 DEF CPTypeOK, Msgs, Asgs
  <2>3. a.job = j /\ a.try = attempt[j]
    BY <2>1 DEF RouteInv, ChanOf
  <2>4. a.id = runID[j]
    <3>1. <<"channel", b>> \in Holders(a)
      BY InHolders
    <3> QED
      BY <2>2, <2>3, <3>1 DEF RouteInv, Current
  <2>5. a = AsgOf(j)
    BY <2>2, <2>3, <2>4 DEF AsgOf
  <2> QED
    BY <1>0, <1>2, <2>1, <2>5 DEF Receive, vars, OwnResult, AsgOf
<1>3. ASSUME NEW j \in Jobs, Unregister(j) PROVE OwnResult'
  BY <1>0, <1>3 DEF Unregister, OwnResult, AsgOf
<1>4. ASSUME CPExit PROVE OwnResult'
  BY <1>4 DEF CPExit, OwnResult
<1>5. CASE UNCHANGED <<got, runID, attempt>>
  BY <1>0, <1>5 DEF OwnResult, AsgOf
<1> QED
  BY <1>1, <1>2, <1>3, <1>4, <1>5, StepCases, HandlingFrame
  DEF Register, Enqueue, Complete, allVars, vars, cpVars

(* A poll marks the assignment of a call that still waits as inflight.     *)
LEMMA InflightKept ==
    ASSUME PlaceInv, IDInv, RouteInv, [CPNext]_allVars PROVE InflightIsWaiting'
<1> DEFINE Waits(j) == rw[j] \in {"waiting", "received"}
<1>0. /\ ExecuteInv /\ CoreInv /\ CPTypeOK /\ RunInv /\ InflightIsWaiting
      /\ rw \in [Jobs -> {"off", "registered", "waiting", "received", "completed"}]
  BY DEF RouteInv, PlaceInv, CPTypeOK
<1>1. ASSUME inflight' \subseteq inflight,
             \A j \in Jobs : Waits(j) /\ runID[j] \in inflight' =>
                 Waits(j)' /\ runID'[j] = runID[j]
      PROVE  InflightIsWaiting'
  BY <1>0, <1>1 DEF InflightIsWaiting
<1>2. ASSUME OwnStep PROVE InflightIsWaiting'
  BY <1>0, <1>1, <1>2, OwnStepFrame DEF OwnStep, cpVars
<1>3. ASSUME NEW j \in Jobs, Register(j) \/ Enqueue(j) \/ Receive(j) \/ Unregister(j)
      PROVE  InflightIsWaiting'
  <2>1. \A i \in Jobs : Waits(i) => Waits(i)'
    BY <1>0, <1>3 DEF Register, Enqueue, Receive, Unregister
  <2>2. UNCHANGED <<inflight, runID>>
    BY <1>3 DEF Register, Enqueue, Receive, Unregister, vars
  <2> QED
    BY <1>1, <2>1, <2>2
<1>4. ASSUME NEW j \in Jobs, Complete(j) PROVE InflightIsWaiting'
  <2>1. /\ inflight' = inflight \ {runID[j]} /\ UNCHANGED runID
        /\ \A i \in Jobs : i # j => rw'[i] = rw[i]
    BY <1>0, <1>4 DEF Complete, vars
  <2> QED
    BY <1>1, <2>1
<1>5. ASSUME NEW w \in Workers, HandlePoll(w) PROVE InflightIsWaiting'
  <2> DEFINE a == Head(pending)
  <2>1. a \in Asgs /\ a.job \in Jobs /\ a = pending[1] /\ 1 \in DOMAIN pending
    BY <1>0, <1>5, PendingPopped DEF HandlePoll, CPTypeOK, Asgs
  <2>2. <<"queue", 1>> \in Holders(a) /\ pc[a.job] # "lost"
    BY <2>1, InHolders DEF RouteInv
  <2>3. Current(a)
    BY <2>1, <2>2 DEF RouteInv
  <2>4. got[a.job] = NoMsg
    <3> SUFFICES ASSUME got[a.job] # NoMsg PROVE FALSE
      OBVIOUS
    <3>1. /\ AsgOf(a.job) \in Asgs /\ AsgOf(a.job).job = a.job
          /\ <<"run", a.job>> \in Holders(AsgOf(a.job))
      BY <2>1, GotHeld
    <3>2. <<"run", a.job>> = <<"queue", 1>>
      BY <2>1, <2>2, <3>1, UnderWay
    <3> QED
      BY <3>2
  <2>5. Waits(a.job) /\ runID[a.job] = a.id
    BY <1>0, <2>1, <2>2, <2>3, <2>4 DEF Current, ExecuteInv
  <2>6. inflight' = inflight \cup {a.id} /\ UNCHANGED <<rw, runID>>
    BY <1>5 DEF HandlePoll, vars
  <2> HIDE DEF a
  <2> QED
    BY <1>0, <2>1, <2>5, <2>6 DEF InflightIsWaiting
<1>6. ASSUME CPExit PROVE InflightIsWaiting'
  BY <1>6 DEF CPExit, InflightIsWaiting
<1>7. CASE UNCHANGED <<inflight, rw, runID>>
  BY <1>0, <1>7 DEF InflightIsWaiting
<1> QED
  BY <1>2, <1>3, <1>4, <1>5, <1>6, <1>7, StepCases, HandlingFrame
  DEF HandlingStep, WorkerStep, HandlerStep, PollReturns, FinishTask, PollFails, ReportFails,
      WorkerCrash, LookUp, Deliver, allVars, vars, cpVars

LEMMA RouteInit == CPInit => RouteInv
<1> SUFFICES ASSUME CPInit PROVE RouteInv
  OBVIOUS
<1>1. \A a \in Asgs : Holders(a) = {}
  BY DEF CPInit, Holders
<1> QED
  BY <1>1 DEF CPInit, RouteInv, ChannelInv, OwnResult, InflightIsWaiting

LEMMA RoutesInit == CPInit => AllRoutes
BY PlaceInit, IDInit, RouteInit DEF AllRoutes, CPInit

LEMMA RoutesStep == UniqueMillis /\ AllRoutes /\ [CPNext]_allVars => AllRoutes'
<1> SUFFICES ASSUME UniqueMillis, AllRoutes, [CPNext]_allVars PROVE AllRoutes'
  OBVIOUS
<1>0. PlaceInv /\ IDInv /\ RouteInv
  BY DEF AllRoutes
<1>1. \A a \in Asgs : Holders(a)' # {} => Current(a)'
  BY <1>0, CurrentKept
<1>2. Asgs' = Asgs
  BY DEF Asgs, RunIds, Tries, RetriesOf
<1>3. RouteInv'
  BY <1>0, <1>1, <1>2, QueueAliveKept, DeliveringKept, BufferedKept, ChannelKept, OwnResultKept,
     InflightKept DEF RouteInv
<1> QED
  BY <1>0, <1>3, PlaceStep, IDKept DEF AllRoutes

(* The result an Execute call takes is that of its own attempt, never a    *)
(* stale one under the same run ID or another run's, when run IDs are      *)
(* unique.                                                                 *)
THEOREM OwnResultCorrect == ASSUME UniqueMillis PROVE CPSpec => []OwnResult
<1>1. AllRoutes => OwnResult
  BY DEF AllRoutes, RouteInv
<1>2. AllRoutes /\ [CPNext]_allVars => AllRoutes'
  BY RoutesStep
<1> QED
  BY <1>1, <1>2, RoutesInit, PTL DEF CPSpec

(* The queue's inflight map never names a run that no longer waits for its *)
(* result, when run IDs are unique.                                        *)
THEOREM InflightCorrect == ASSUME UniqueMillis PROVE CPSpec => []InflightIsWaiting
<1>1. AllRoutes => InflightIsWaiting
  BY DEF AllRoutes, RouteInv
<1>2. AllRoutes /\ [CPNext]_allVars => AllRoutes'
  BY RoutesStep
<1> QED
  BY <1>1, <1>2, RoutesInit, PTL DEF CPSpec

(* A call that awaits an assignment has its own channel registered.        *)
LEMMA AwaitedHasChannel ==
    ASSUME AllRoutes, NEW a \in Asgs, Holders(a) # {}, Awaits(a)
    PROVE  channels[a.id] = ChanOf(a)
<1>1. a.job \in Jobs /\ pc[a.job] = "exec" /\ runID[a.job] = a.id /\ attempt[a.job] = a.try
  BY DEF Awaits, Asgs
<1>2. rw[a.job] # "off"
  BY <1>1 DEF AllRoutes, RouteInv, Current
<1> QED
  BY <1>1, <1>2 DEF AllRoutes, RouteInv, ChannelInv, ChanOf

(* The result of an assignment that is still awaited finds the channel of  *)
(* the call that made it, and finds it empty, when run IDs are unique:     *)
(* none is dropped, whatever else workers and handlers are doing.          *)
THEOREM ResultReachesCorrect == ASSUME UniqueMillis PROVE CPSpec => []ResultReachesWaiter
<1>1. AllRoutes => ResultReachesWaiter
  <2> SUFFICES ASSUME AllRoutes PROVE ResultReachesWaiter
    OBVIOUS
  <2>0. PlaceInv /\ RouteInv /\ CPTypeOK
    BY DEF AllRoutes, PlaceInv
  <2>1. ASSUME NEW w \in Workers, wk[w] # Idle, Awaits(wk[w].asg), wk[w].phase # "report"
        PROVE  channels[wk[w].asg.id] = ChanOf(wk[w].asg)
    <3>1. wk[w].asg \in Asgs
      BY <2>0, <2>1, WorkerAsg
    <3>2. <<"worker", w>> \in Holders(wk[w].asg)
      BY <2>1, InHolders
    <3> QED
      BY <2>1, <3>1, <3>2, AwaitedHasChannel
  <2>2. ASSUME NEW m \in reports, Awaits(m.asg)
        PROVE  channels[m.asg.id] = ChanOf(m.asg)
    <3>1. m.asg \in Asgs
      BY <2>0 DEF CPTypeOK
    <3>2. <<"request", m>> \in Holders(m.asg)
      BY InHolders
    <3> QED
      BY <2>2, <3>1, <3>2, AwaitedHasChannel
  <2>3. ASSUME NEW d \in delivering, Awaits(d.asg)
        PROVE  d.ch = ChanOf(d.asg) /\ \A b \in buffered : b.ch # d.ch
    <3>1. d.ch = ChanOf(d.asg) /\ pc[d.asg.job] # "lost"
      BY <2>0 DEF RouteInv
    <3>2. d.asg \in Asgs /\ <<"handler", d>> \in Holders(d.asg)
      BY <2>0, InHolders DEF CPTypeOK
    <3>3. ASSUME NEW b \in buffered, b.ch = d.ch PROVE FALSE
      <4>1. b.msg.asg \in Asgs /\ <<"channel", b>> \in Holders(b.msg.asg)
        BY <2>0, InHolders DEF CPTypeOK, Msgs
      <4>2. b.msg.asg.job = d.asg.job
        BY <2>0, <3>1, <3>3 DEF RouteInv, ChanOf
      <4>3. <<"channel", b>> = <<"handler", d>>
        BY <2>0, <3>1, <3>2, <4>1, <4>2, UnderWay
      <4> QED
        BY <4>3
    <3> QED
      BY <3>1, <3>3
  <2> QED
    BY <2>1, <2>2, <2>3 DEF ResultReachesWaiter
<1>2. AllRoutes /\ [CPNext]_allVars => AllRoutes'
  BY RoutesStep
<1> QED
  BY <1>1, <1>2, RoutesInit, PTL DEF CPSpec

-----------------------------------------------------------------------------
(* The outcome a result carries is that of the attempt's agent.            *)
LEMMA OutcomeInit == CPInit => OutcomeInv
BY DEF CPInit, Init, OutcomeInv

(* In control mode the orchestrator alone starts an attempt with no agent  *)
(* run of it over yet.                                                     *)
LEMMA AttemptStartsFresh ==
    ASSUME CoreInv, ResultInv, OwnStep, mode = "control", NEW j \in Jobs,
           pc[j] = "exec" => agentOut[j] = "none", pc'[j] = "exec"
    PROVE  agentOut'[j] = "none"
<1>0. /\ TypeOK /\ QueueInv /\ ResultInv
      /\ pc \in [Jobs -> PCs] /\ agentOut \in [Jobs -> Outcomes \cup {"none"}]
  BY DEF CoreInv, TypeOK
<1>1. ASSUME NEW i \in Jobs, Submit(i) \/ SendToChan(i) \/ Acquire(i) \/ StartRun(i)
                             \/ BuildFails(i) \/ Finalize(i) \/ Release(i)
      PROVE  agentOut'[j] = "none"
  BY <1>0, <1>1 DEF Submit, SendToChan, Acquire, StartRun, BuildFails, Finalize, Release, GoTo
<1>2. ASSUME NEW i \in Jobs, BuildOK(i) PROVE agentOut'[j] = "none"
  BY <1>0, <1>2 DEF BuildOK, GoTo, ResultInv
<1>3. ASSUME NEW i \in Jobs, Judge(i) PROVE agentOut'[j] = "none"
  BY <1>0, <1>3 DEF Judge, GoTo
<1>4. ASSUME Take PROVE agentOut'[j] = "none"
  BY <1>0, <1>4 DEF Take, GoTo
<1> QED
  BY <1>1, <1>2, <1>3, <1>4 DEF OwnStep

(* A step that ends no agent run leaves the outcome of every assignment    *)
(* under way alone.                                                        *)
Settled == \A a \in Asgs : Holders(a) # {} =>
               /\ agentOut'[a.job] = agentOut[a.job]
               /\ pc[a.job] = "lost" => pc'[a.job] = "lost"

LEMMA StepsSettle ==
    ASSUME AllRoutes, [CPNext]_allVars, UNCHANGED agentOut \/ OwnStep PROVE Settled
<1>0. PlaceInv /\ RouteInv /\ pc \in [Jobs -> PCs] /\ \A a \in Asgs : a.job \in Jobs
  BY DEF AllRoutes, PlaceInv, CPTypeOK, TypeOK, Asgs
<1>1. CASE OwnStep
  BY <1>0, <1>1, OwnStepKeepsHeld DEF Settled
<1>2. ASSUME CPExit PROVE Settled
  BY <1>0, <1>2, ExitLoses DEF Settled, CPExit, Exit
<1>3. ASSUME NEW j \in Jobs, Unregister(j) PROVE Settled
  BY <1>0, <1>3 DEF Settled, Unregister, GoTo, PlaceInv, ExecuteInv
<1>4. CASE UNCHANGED <<pc, agentOut>>
  BY <1>4 DEF Settled
<1> QED
  BY <1>1, <1>2, <1>3, <1>4, StepCases, HandlingFrame
  DEF Register, Enqueue, Receive, Complete, allVars, vars

(* The places an assignment can be in, each a holder of it.                *)
LEMMA HeldEverywhere ==
    ASSUME CPTypeOK
    PROVE  /\ \A i \in DOMAIN pending :
                 pending[i] \in Asgs /\ pending[i].job \in Jobs /\ Holders(pending[i]) # {}
           /\ \A w \in Workers : wk[w] # Idle =>
                 /\ wk[w].asg \in Asgs /\ wk[w].asg.job \in Jobs
                 /\ wk[w].phase # "report" => Holders(wk[w].asg) # {}
           /\ \A m \in reports : m.asg \in Asgs /\ m.asg.job \in Jobs /\ Holders(m.asg) # {}
           /\ \A d \in delivering : d.asg \in Asgs /\ d.asg.job \in Jobs /\ Holders(d.asg) # {}
           /\ \A b \in buffered :
                 b.msg.asg \in Asgs /\ b.msg.asg.job \in Jobs /\ Holders(b.msg.asg) # {}
<1>0. \A a \in Asgs : a.job \in Jobs
  BY DEF Asgs
<1>1. ASSUME NEW i \in DOMAIN pending PROVE pending[i] \in Asgs /\ Holders(pending[i]) # {}
  <2>1. <<"queue", i>> \in Holders(pending[i])
    BY InHolders
  <2> QED
    BY <2>1, PendingElements DEF CPTypeOK
<1>2. ASSUME NEW w \in Workers, wk[w] # Idle
      PROVE  wk[w].asg \in Asgs /\ (wk[w].phase # "report" => Holders(wk[w].asg) # {})
  <2>1. wk[w].phase # "report" => <<"worker", w>> \in Holders(wk[w].asg)
    BY <1>2, InHolders
  <2> QED
    BY <1>2, <2>1, WorkerAsg
<1>3. ASSUME NEW m \in reports PROVE m.asg \in Asgs /\ Holders(m.asg) # {}
  <2>1. <<"request", m>> \in Holders(m.asg)
    BY InHolders
  <2> QED
    BY <2>1 DEF CPTypeOK
<1>4. ASSUME NEW d \in delivering PROVE d.asg \in Asgs /\ Holders(d.asg) # {}
  <2>1. <<"handler", d>> \in Holders(d.asg)
    BY InHolders
  <2> QED
    BY <2>1 DEF CPTypeOK
<1>5. ASSUME NEW b \in buffered PROVE b.msg.asg \in Asgs /\ Holders(b.msg.asg) # {}
  <2>1. <<"channel", b>> \in Holders(b.msg.asg)
    BY InHolders
  <2> QED
    BY <2>1 DEF CPTypeOK, Msgs
<1> QED
  BY <1>0, <1>1, <1>2, <1>3, <1>4, <1>5

(* What a worker reports is how the agent run of the awaited attempt ends. *)
LEMMA FinishEndsAgent ==
    ASSUME AllRoutes, OutcomeInv, NEW w \in Workers, NEW out \in Outcomes, FinishTask(w, out),
           pc[wk[w].asg.job] # "lost"
    PROVE  LET a == wk[w].asg IN
           /\ agentOut' = [agentOut EXCEPT ![a.job] = out]
           /\ a.job \in Jobs /\ rw[a.job] = "waiting"
           /\ \A b \in Asgs : Holders(b) # {} /\ b.job = a.job =>
                  Holders(b) = {<<"worker", w>>}
<1> DEFINE a == wk[w].asg
<1>0. PlaceInv /\ RouteInv /\ CPTypeOK /\ ExecuteInv
  BY DEF AllRoutes, PlaceInv
<1>1. wk[w] # Idle /\ wk[w].phase = "work"
  BY WorkerPhase DEF FinishTask
<1>2. a \in Asgs /\ a.job \in Jobs
  BY <1>0, <1>1, WorkerAsg DEF Asgs
<1>3. <<"worker", w>> \in Holders(a)
  BY <1>1, InHolders
<1>4. a = AsgOf(a.job) /\ pc[a.job] = "exec" /\ rw[a.job] \in {"waiting", "received", "completed"}
  BY <1>0, <1>2, <1>3, UnderWay
<1>5. got[a.job] = NoMsg
  <2> SUFFICES ASSUME got[a.job] # NoMsg PROVE FALSE
    OBVIOUS
  <2>1. /\ AsgOf(a.job) \in Asgs /\ AsgOf(a.job).job = a.job
        /\ <<"run", a.job>> \in Holders(AsgOf(a.job))
    BY <1>0, <1>2, GotHeld
  <2>2. <<"run", a.job>> = <<"worker", w>>
    BY <1>0, <1>2, <1>3, <2>1, UnderWay
  <2> QED
    BY <2>2
<1>6. Awaits(a) /\ rw[a.job] = "waiting"
  BY <1>0, <1>2, <1>4, <1>5 DEF Awaits, AsgOf, ExecuteInv
<1>7. agentOut[a.job] = "none"
  BY <1>1 DEF OutcomeInv
<1>8. agentOut' = [agentOut EXCEPT ![a.job] = out]
  BY <1>6, <1>7 DEF FinishTask
<1>9. ASSUME NEW b \in Asgs, Holders(b) # {}, b.job = a.job
      PROVE  Holders(b) = {<<"worker", w>>}
  BY <1>0, <1>2, <1>3, <1>9, UnderWay
<1> QED
  BY <1>2, <1>6, <1>8, <1>9

LEMMA OutcomeStep ==
    ASSUME AllRoutes, ResultInv, OutcomeInv, [CPNext]_allVars PROVE OutcomeInv'
<1>0. /\ PlaceInv /\ RouteInv /\ IDInv /\ CPTypeOK /\ ExecuteInv /\ RunInv /\ CoreInv
      /\ rw \in [Jobs -> {"off", "registered", "waiting", "received", "completed"}]
      /\ pc \in [Jobs -> PCs] /\ agentOut \in [Jobs -> Outcomes \cup {"none"}]
      /\ wk \in [Workers -> WorkerStates]
      /\ got \in [Jobs -> Msgs \cup {NoMsg}] /\ pending \in Seq(Asgs)
  BY DEF AllRoutes, PlaceInv, CPTypeOK, TypeOK
<1>a. OutcomeInv
  OBVIOUS
<1>h. /\ \A i \in DOMAIN pending :
            pending[i] \in Asgs /\ pending[i].job \in Jobs /\ Holders(pending[i]) # {}
      /\ \A w \in Workers : wk[w] # Idle =>
            /\ wk[w].asg \in Asgs /\ wk[w].asg.job \in Jobs
            /\ wk[w].phase # "report" => Holders(wk[w].asg) # {}
      /\ \A m \in reports : m.asg \in Asgs /\ m.asg.job \in Jobs /\ Holders(m.asg) # {}
      /\ \A d \in delivering : d.asg \in Asgs /\ d.asg.job \in Jobs /\ Holders(d.asg) # {}
      /\ \A b \in buffered :
            b.msg.asg \in Asgs /\ b.msg.asg.job \in Jobs /\ Holders(b.msg.asg) # {}
  BY <1>0, HeldEverywhere
<1>1. ASSUME OwnStep PROVE OutcomeInv'
  <2>1. Settled
    BY <1>1, StepsSettle
  <2>2. /\ UNCHANGED cpVars
        /\ \A j \in Jobs : rw[j] # "off" => agentOut'[j] = agentOut[j] /\ pc'[j] = pc[j]
        /\ \A j \in Jobs : pc[j] = "lost" => pc'[j] = "lost"
    BY <1>0, <1>1, OwnStepFrame
  <2>3. ASSUME NEW j \in Jobs, mode = "control", pc'[j] = "exec", rw[j] \in {"off", "registered"}
        PROVE  agentOut'[j] = "none"
    <3>1. pc[j] = "exec" => agentOut[j] = "none"
      BY <1>a, <2>3 DEF OutcomeInv
    <3> QED
      BY <1>0, <1>1, <2>3, <3>1, AttemptStartsFresh
  <2>4. ASSUME NEW j \in Jobs, got[j] # NoMsg PROVE agentOut'[j] = agentOut[j]
    BY <1>0, <2>2, <2>4 DEF ExecuteInv
  <2> QED
    BY <1>a, <1>h, <2>1, <2>2, <2>3, <2>4 DEF OutcomeInv, Settled, cpVars
<1>2. ASSUME NEW j \in Jobs, Register(j) PROVE OutcomeInv'
  <2>1. /\ UNCHANGED <<pc, agentOut, mode, got, pending, buffered, wk, reports, delivering>>
        /\ \A i \in Jobs : rw'[i] \in {"off", "registered"} => rw[i] \in {"off", "registered"}
    BY <1>0, <1>2 DEF Register, vars
  <2> QED
    BY <1>a, <2>1 DEF OutcomeInv
<1>3. ASSUME NEW j \in Jobs, Enqueue(j) PROVE OutcomeInv'
  <2>1. /\ UNCHANGED <<pc, agentOut, mode, got, buffered, wk, reports, delivering>>
        /\ \A i \in Jobs : rw'[i] \in {"off", "registered"} => rw[i] \in {"off", "registered"}
    BY <1>0, <1>3 DEF Enqueue, vars
  <2>2. AsgOf(j) \in Asgs /\ AsgOf(j).job = j /\ agentOut[j] = "none"
    BY <1>0, <1>a, <1>3, AsgOfType DEF Enqueue, ExecuteInv, AsgOf, OutcomeInv
  <2>3. \A i \in DOMAIN pending' :
            pending'[i] = AsgOf(j) \/ (i \in DOMAIN pending /\ pending'[i] = pending[i])
    BY <1>0, <1>3, <2>2, PendingAppended DEF Enqueue
  <2>4. \A i \in DOMAIN pending' : agentOut[pending'[i].job] = "none"
    BY <1>a, <2>2, <2>3 DEF OutcomeInv
  <2> QED
    BY <1>a, <2>1, <2>4 DEF OutcomeInv
<1>4. ASSUME NEW j \in Jobs, Receive(j) PROVE OutcomeInv'
  <2>1. PICK b \in buffered : /\ b.ch = <<j, attempt[j]>>
                              /\ got' = [got EXCEPT ![j] = b.msg] /\ buffered' = buffered \ {b}
    BY <1>4 DEF Receive
  <2>2. b.msg.asg.job = j /\ agentOut[j] = b.msg.out
    BY <1>0, <1>a, <2>1 DEF RouteInv, ChanOf, OutcomeInv
  <2>3. /\ UNCHANGED <<pc, agentOut, mode, pending, wk, reports, delivering>>
        /\ \A i \in Jobs : rw'[i] \in {"off", "registered"} => rw[i] \in {"off", "registered"}
    BY <1>0, <1>4 DEF Receive, vars
  <2>4. \A i \in Jobs : got'[i] # NoMsg => agentOut[i] = got'[i].out
    BY <1>0, <1>a, <2>1, <2>2 DEF OutcomeInv
  <2> QED
    BY <1>a, <2>1, <2>3, <2>4 DEF OutcomeInv
<1>5. ASSUME NEW j \in Jobs, Complete(j) PROVE OutcomeInv'
  <2>1. /\ UNCHANGED <<pc, agentOut, mode, got, pending, buffered, wk, reports, delivering>>
        /\ \A i \in Jobs : rw'[i] \in {"off", "registered"} => rw[i] \in {"off", "registered"}
    BY <1>0, <1>5 DEF Complete, vars
  <2> QED
    BY <1>a, <2>1 DEF OutcomeInv
<1>6. ASSUME NEW j \in Jobs, Unregister(j) PROVE OutcomeInv'
  <2>1. /\ UNCHANGED <<agentOut, mode, pending, buffered, wk, reports, delivering>>
        /\ \A i \in Jobs : pc'[i] = IF i = j THEN "judge" ELSE pc[i]
        /\ \A i \in Jobs : i # j => rw'[i] = rw[i]
        /\ \A i \in Jobs : got'[i] = IF i = j THEN NoMsg ELSE got[i]
        /\ pc[j] = "exec"
    BY <1>0, <1>6 DEF Unregister, GoTo, ExecuteInv
  <2> QED
    BY <1>a, <1>h, <2>1 DEF OutcomeInv
<1>7. ASSUME NEW w \in Workers, HandlePoll(w) PROVE OutcomeInv'
  <2>1. /\ UNCHANGED <<pc, agentOut, mode, rw, got, buffered, reports, delivering>>
        /\ \A v \in Workers : wk'[v] = IF v = w THEN Busy("reply", Head(pending)) ELSE wk[v]
    BY <1>0, <1>7 DEF HandlePoll, SetWorker, vars
  <2>2. /\ Head(pending) \in Asgs /\ agentOut[Head(pending).job] = "none"
        /\ \A i \in DOMAIN pending' : i + 1 \in DOMAIN pending /\ pending'[i] = pending[i + 1]
    BY <1>0, <1>a, <1>7, PendingPopped DEF HandlePoll, OutcomeInv
  <2>3. Busy("reply", Head(pending)).asg = Head(pending)
    BY <2>2, BusyType
  <2> QED
    BY <1>a, <2>1, <2>2, <2>3 DEF OutcomeInv
<1>8. ASSUME NEW w \in Workers, PollReturns(w) PROVE OutcomeInv'
  <2>1. /\ UNCHANGED <<pc, agentOut, mode, rw, got, pending, buffered, reports, delivering>>
        /\ \A v \in Workers : wk'[v] = IF v = w THEN Busy("work", wk[w].asg) ELSE wk[v]
        /\ wk[w] # Idle /\ wk[w].phase = "reply"
    BY <1>0, <1>8, WorkerPhase DEF PollReturns, SetWorker, vars
  <2>2. Busy("work", wk[w].asg).asg = wk[w].asg
    BY <1>h, <2>1, BusyType
  <2> QED
    BY <1>a, <2>1, <2>2 DEF OutcomeInv
<1>9. ASSUME NEW w \in Workers, NEW out \in Outcomes, FinishTask(w, out) PROVE OutcomeInv'
  <2> DEFINE a == wk[w].asg
             m == [from |-> w, asg |-> a, out |-> out]
  <2>1. /\ UNCHANGED <<pc, mode, rw, got, pending, buffered, delivering>>
        /\ wk' = [wk EXCEPT ![w] = Busy("report", a)] /\ reports' = reports \cup {m}
        /\ wk[w] # Idle /\ wk[w].phase = "work"
        /\ agentOut' = agentOut \/ pc[a.job] # "lost"
    BY <1>9, WorkerPhase DEF FinishTask, SetWorker, Awaits
  <2>2. /\ a \in Asgs /\ a.job \in Jobs
        /\ Busy("report", a).phase = "report" /\ m.asg = a /\ m.out = out
    BY <1>h, <2>1, BusyType
  <2>3. \A v \in Workers : (wk'[v] # Idle /\ wk'[v].phase # "report") => v # w /\ wk'[v] = wk[v]
    BY <1>0, <2>1, <2>2
  <2> HIDE DEF a, m
  <2>4. CASE pc[a.job] = "lost"
    BY <1>a, <2>1, <2>2, <2>3, <2>4 DEF OutcomeInv
  <2>5. CASE pc[a.job] # "lost"
    <3>1. /\ agentOut' = [agentOut EXCEPT ![a.job] = out] /\ rw[a.job] = "waiting"
          /\ \A b \in Asgs : Holders(b) # {} /\ b.job = a.job => Holders(b) = {<<"worker", w>>}
      BY <1>9, <2>5, FinishEndsAgent DEF a
    <3>2. \A i \in Jobs : agentOut'[i] = IF i = a.job THEN out ELSE agentOut[i]
      BY <1>0, <3>1
    <3>3. \A i \in DOMAIN pending : pending[i].job # a.job
      <4>1. \A i \in DOMAIN pending : <<"queue", i>> \in Holders(pending[i])
        BY InHolders
      <4>2. \A i \in DOMAIN pending : <<"queue", i>> # <<"worker", w>>
        OBVIOUS
      <4> QED
        BY <1>h, <3>1, <4>1, <4>2
    <3>4. \A v \in Workers : (v # w /\ wk[v] # Idle /\ wk[v].phase # "report") => wk[v].asg.job # a.job
      <4>1. \A v \in Workers : (wk[v] # Idle /\ wk[v].phase # "report") =>
                <<"worker", v>> \in Holders(wk[v].asg)
        BY InHolders
      <4>2. \A v \in Workers : v # w => <<"worker", v>> # <<"worker", w>>
        OBVIOUS
      <4> QED
        BY <1>h, <3>1, <4>1, <4>2
    <3>5. \A k \in reports : k.asg.job # a.job
      <4>1. \A k \in reports : <<"request", k>> \in Holders(k.asg)
        BY InHolders
      <4>2. \A k \in reports : <<"request", k>> # <<"worker", w>>
        OBVIOUS
      <4> QED
        BY <1>h, <3>1, <4>1, <4>2
    <3>6. \A d \in delivering : d.asg.job # a.job
      <4>1. \A d \in delivering : <<"handler", d>> \in Holders(d.asg)
        BY InHolders
      <4>2. \A d \in delivering : <<"handler", d>> # <<"worker", w>>
        OBVIOUS
      <4> QED
        BY <1>h, <3>1, <4>1, <4>2
    <3>7. \A b \in buffered : b.msg.asg.job # a.job
      <4>1. \A b \in buffered : <<"channel", b>> \in Holders(b.msg.asg)
        BY InHolders
      <4>2. \A b \in buffered : <<"channel", b>> # <<"worker", w>>
        OBVIOUS
      <4> QED
        BY <1>h, <3>1, <4>1, <4>2
    <3>8. got[a.job] = NoMsg
      BY <1>0, <2>2, <3>1 DEF ExecuteInv
    <3>9. \A i \in Jobs : rw[i] \in {"off", "registered"} => i # a.job
      BY <3>1
    <3> QED
      BY <1>a, <1>h, <2>1, <2>2, <2>3, <3>2, <3>3, <3>4, <3>5, <3>6, <3>7, <3>8, <3>9
      DEF OutcomeInv
  <2> QED
    BY <2>4, <2>5
<1>10. ASSUME NEW w \in Workers, PollFails(w) \/ ReportFails(w) \/ WorkerCrash(w)
       PROVE  OutcomeInv'
  <2>1. /\ UNCHANGED <<pc, agentOut, mode, rw, got, pending, buffered, delivering>>
        /\ reports' \subseteq reports
        /\ \A v \in Workers : wk'[v] = IF v = w THEN Idle ELSE wk[v]
    BY <1>0, <1>10 DEF PollFails, ReportFails, WorkerCrash, SetWorker, vars
  <2> QED
    BY <1>a, <2>1 DEF OutcomeInv
<1>11. ASSUME NEW m \in reports, LookUp(m) PROVE OutcomeInv'
  <2>1. /\ UNCHANGED <<pc, agentOut, mode, rw, got, pending, buffered>> /\ reports' \subseteq reports
        /\ \A v \in Workers : wk'[v] = Idle \/ wk'[v] = wk[v]
    BY <1>0, <1>11 DEF LookUp, Answer, vars
  <2>2. \A d \in delivering' : agentOut[d.asg.job] = d.out
    <3>1. CASE channels[m.asg.id] = NoChan
      BY <1>a, <1>11, <3>1 DEF LookUp, OutcomeInv
    <3>2. CASE channels[m.asg.id] # NoChan
      <4>1. Current(m.asg) /\ m.asg.id \in RunIds
        BY <1>0, <1>h DEF RouteInv, Asgs
      <4>2. pc[m.asg.job] # "lost"
        BY <1>0, <1>h, <3>2, <4>1, ChannelOwner DEF Current
      <4>3. agentOut[m.asg.job] = m.out
        BY <1>a, <4>2 DEF OutcomeInv
      <4> QED
        BY <1>a, <1>11, <3>2, <4>3 DEF LookUp, OutcomeInv
    <3> QED
      BY <3>1, <3>2
  <2> QED
    BY <1>a, <2>1, <2>2 DEF OutcomeInv
<1>12. ASSUME NEW d \in delivering, Deliver(d) PROVE OutcomeInv'
  <2>1. /\ UNCHANGED <<pc, agentOut, mode, rw, got, pending, reports>>
        /\ delivering' \subseteq delivering
        /\ \A v \in Workers : wk'[v] = Idle \/ wk'[v] = wk[v]
    BY <1>0, <1>12 DEF Deliver, Answer, vars
  <2>2. \A b \in buffered' : agentOut[b.msg.asg.job] = b.msg.out
    BY <1>a, <1>12 DEF Deliver, OutcomeInv
  <2> QED
    BY <1>a, <2>1, <2>2 DEF OutcomeInv
<1>13. ASSUME CPExit PROVE OutcomeInv'
  <2>1. \A j \in Jobs : pc'[j] # "exec" /\ (pc[j] \in {"lost", "exec"} => pc'[j] = "lost")
    BY <1>0, <1>13 DEF CPExit, Exit, InFlight, Running, Queued
  <2>2. ASSUME NEW w \in Workers, wk'[w] # Idle, wk'[w].phase # "report"
        PROVE  pc'[wk'[w].asg.job] = "lost"
    <3>1. wk'[w] = wk[w] /\ wk[w] # Idle /\ wk[w].phase # "report"
      BY <1>13, <2>2 DEF CPExit
    <3>2. Current(wk[w].asg) /\ wk[w].asg.job \in Jobs
      BY <1>0, <1>h, <3>1 DEF RouteInv
    <3> QED
      BY <1>0, <2>1, <3>1, <3>2 DEF Current, ExecuteInv
  <2> QED
    BY <1>13, <2>1, <2>2 DEF CPExit, OutcomeInv
<1>14. CASE UNCHANGED allVars
  BY <1>a, <1>14 DEF OutcomeInv, allVars, vars, cpVars
<1> QED
  BY <1>1, <1>2, <1>3, <1>4, <1>5, <1>6, <1>7, <1>8, <1>9, <1>10, <1>11, <1>12, <1>13, <1>14,
     StepCases DEF HandlingStep, WorkerStep, HandlerStep

-----------------------------------------------------------------------------
(* RemoteWorker implements the Worker contract.                            *)
ContractInv == AllRoutes /\ ResultInv /\ OutcomeInv

(* What Unregister returns is the outcome of the agent run: it is Return.  *)
LEMMA UnregisterReturns ==
    ASSUME ContractInv, NEW j \in Jobs, Unregister(j) PROVE Return(j)
<1>0. CPTypeOK /\ ExecuteInv
  BY DEF ContractInv, AllRoutes, PlaceInv
<1>1. /\ pc[j] = "exec" /\ GoTo(j, "judge") /\ got[j].out \in Outcomes
      /\ result' = [result EXCEPT ![j] = got[j].out]
      /\ UNCHANGED <<taskChan, sem, clock, runID, attempt, agentOut, hist>>
  BY <1>0, UnregisterEffect
<1>2. agentOut[j] = got[j].out
  BY <1>0 DEF ContractInv, OutcomeInv, ExecuteInv, Unregister
<1> QED
  BY <1>1, <1>2 DEF Return, Outcomes

LEMMA ContractStepIsNext == ContractInv /\ [CPNext]_allVars => [Next]_vars
<1> SUFFICES ASSUME ContractInv, [CPNext]_allVars PROVE [Next]_vars
  OBVIOUS
<1>1. CPTypeOK
  BY DEF ContractInv, AllRoutes, PlaceInv
<1>2. ASSUME NEW j \in Jobs, Unregister(j) PROVE Next
  BY <1>2, UnregisterReturns DEF Next, JobStep
<1> QED
  BY <1>1, <1>2, VisibleStep

LEMMA ContractInit == CPInit => ContractInv
BY RoutesInit, ResultInit, OutcomeInit DEF ContractInv, CPInit

LEMMA ContractStep == UniqueMillis /\ ContractInv /\ [CPNext]_allVars => ContractInv'
<1> SUFFICES ASSUME UniqueMillis, ContractInv, [CPNext]_allVars PROVE ContractInv'
  OBVIOUS
<1>1. CoreInv
  BY DEF ContractInv, AllRoutes, PlaceInv
<1>2. ResultInv'
  BY <1>1, ContractStepIsNext, ResultStep DEF ContractInv
<1> QED
  BY <1>2, RoutesStep, OutcomeStep DEF ContractInv

(* The control plane implements the orchestrator with its Worker contract, *)
(* when run IDs are unique: registering, queueing, polling, reporting and  *)
(* delivering, with lost messages, crashes and restarts, add up to an      *)
(* agent run that ends and a call that returns how it ended.               *)
THEOREM WorkerContractKept == ASSUME UniqueMillis PROVE CPSpec => ImplementsWorkerContract
<1>1. CPInit => Init
  BY DEF CPInit
<1>2. ContractInv /\ [CPNext]_allVars => ContractInv' /\ [Next]_vars
  BY ContractStep, ContractStepIsNext
<1> QED
  BY <1>1, <1>2, ContractInit, PTL DEF CPSpec, Spec, ImplementsWorkerContract

(* So what is proved of the orchestrator holds in control mode too.  The   *)
(* records of the history are true of what the remote agents did ...       *)
THEOREM RemoteHistoryTruthful ==
    ASSUME UniqueMillis, DefaultMaxRetries >= 0 PROVE CPSpec => []RecordTruthful
BY WorkerContractKept, HistoryTruthful, PTL DEF ImplementsWorkerContract

(* ... they stay once they are final, whatever comes late ...              *)
THEOREM RemoteHistoryFinal ==
    ASSUME UniqueMillis, DefaultMaxRetries >= 0 PROVE CPSpec => FinalIsFinal
BY WorkerContractKept, HistoryFinal, PTL DEF ImplementsWorkerContract

(* ... and an agent is run again only after a transient failure, up to the *)
(* task's limit.                                                           *)
THEOREM RemoteRetryCorrect == ASSUME UniqueMillis PROVE CPSpec => RetryOnlyTransient
BY WorkerContractKept, RetryCorrect, PTL DEF ImplementsWorkerContract
=============================================================================
