------------------------- MODULE Orchestrator_proofs -------------------------
(***************************************************************************)
(* Proofs about module Orchestrator, for any set of submissions and tasks, *)
(* any channel size, semaphore and retry limits.                           *)
(*                                                                         *)
(* The inductive invariant says, besides the types, that a job's goroutine *)
(* is where the channel says it is (QueueInv), that run IDs are given out  *)
(* once (IDInv, under UniqueMillis), that the result of a run is that of   *)
(* its agent (ResultInv, for retry limits that are not negative), and that *)
(* its record is final only after finalizeRecord (RecordInv).              *)
(***************************************************************************)
EXTENDS Orchestrator, FiniteSetTheorems, SequenceTheorems, TLAPS

LiveJobs == {j \in Jobs : Live(j)}

Unstarted == {"idle", "sending", "queued", "held", "start"}
Open      == {"build", "exec", "judge", "finalize"}
Over      == {"release", "done", "lost"}

(* A job is in the channel once, exactly while its send has succeeded and  *)
(* Run has not received it.                                                *)
QueueInv ==
    /\ \A i \in DOMAIN taskChan : pc[taskChan[i]] = "queued"
    /\ \A i, k \in DOMAIN taskChan : taskChan[i] = taskChan[k] => i = k

(* Every run ID given out is older than the clock, and belongs to one run. *)
IDInv ==
    /\ \A j \in Jobs : pc[j] \in Unstarted => runID[j] = NoRun
    /\ \A j \in Jobs : pc[j] \in Open \cup {"release", "done"} => runID[j] \in RunIds
    /\ \A j \in Jobs : runID[j] # NoRun => runID[j][2] < clock
    /\ \A i, j \in Jobs : (i # j /\ runID[i] # NoRun) => runID[i] # runID[j]

(* What the run knows of its agent.                                        *)
ResultInv ==
    \A j \in Jobs :
        /\ pc[j] \in Unstarted \cup {"build"} => agentOut[j] = "none"
        /\ pc[j] = "judge" => agentOut[j] = result[j] /\ result[j] # "none"
        /\ (pc[j] \in {"finalize", "release", "done"} /\ 0 <= RetriesOf(j)) =>
              /\ result[j] # "none"
              /\ result[j] = "completed" <=> agentOut[j] = "completed"

(* What the run's record says.                                             *)
RecordInv ==
    /\ \A r \in RunIds : r[2] >= clock => hist[r] = "none"
    /\ \A j \in Jobs : (runID[j] # NoRun /\ pc[j] \in Open) => hist[runID[j]] \notin Final

CoreInv == TypeOK /\ QueueInv /\ SlotsMatchRuns

-----------------------------------------------------------------------------
(* The constants' assumptions in the form the proofs use.                  *)
LEMMA SemCapType == SemCap \in Nat \ {0}
BY SizesAssumption DEF SemCap

(* resolveRetryConfig yields an integer, negative or not.                  *)
LEMMA RetriesType == ASSUME NEW j \in Jobs PROVE RetriesOf(j) \in Int
BY JobsAssumption, RetryAssumption DEF RetriesOf

(* saveRecord changes one record, to a status.                             *)
LEMMA SaveRecordEffect ==
    ASSUME TypeOK, NEW r \in RunIds, NEW s \in Statuses, SaveRecord(r, s)
    PROVE  /\ hist' \in [RunIds -> Statuses]
           /\ \A q \in RunIds : q # r => hist'[q] = hist[q]
           /\ hist'[r] \in {s, hist[r], "none"}
BY DEF TypeOK, SaveRecord, Statuses

(* GoTo moves one job.                                                     *)
LEMMA GoToEffect ==
    ASSUME TypeOK, NEW j \in Jobs, NEW l \in PCs, GoTo(j, l)
    PROVE  /\ pc' \in [Jobs -> PCs]
           /\ pc'[j] = l
           /\ \A i \in Jobs : i # j => pc'[i] = pc[i]
BY DEF TypeOK, GoTo


(* The set of jobs inside executeTask is finite, and counts as expected    *)
(* when one job enters or leaves it.                                       *)
LEMMA LiveFinite == IsFiniteSet(LiveJobs) /\ Cardinality(LiveJobs) \in Nat
BY JobsAssumption, FS_Subset, FS_CardinalityType DEF LiveJobs

(* Moving between two places inside executeTask, or two outside of it,     *)
(* changes nothing about who is inside.                                    *)
LEMMA LiveSame ==
    ASSUME TypeOK, NEW j \in Jobs, NEW l \in PCs, GoTo(j, l),
           l \in Running <=> Live(j)
    PROVE  LiveJobs' = LiveJobs
BY GoToEffect DEF LiveJobs, Live

(* Acquire: one more goroutine is inside executeTask.                      *)
LEMMA LiveEnters ==
    ASSUME TypeOK, NEW j \in Jobs, NEW l \in Running, GoTo(j, l), ~ Live(j)
    PROVE  Cardinality(LiveJobs') = Cardinality(LiveJobs) + 1
<1>1. l \in PCs
  BY DEF PCs
<1>2. LiveJobs' = LiveJobs \cup {j}
  BY <1>1, GoToEffect DEF LiveJobs, Live
<1>3. j \notin LiveJobs
  BY DEF LiveJobs
<1> QED
  BY <1>2, <1>3, LiveFinite, FS_AddElement

(* Release: one goroutine less is inside executeTask.                      *)
LEMMA LiveLeaves ==
    ASSUME TypeOK, NEW j \in Jobs, NEW l \in PCs \ Running, GoTo(j, l), Live(j)
    PROVE  /\ Cardinality(LiveJobs') = Cardinality(LiveJobs) - 1
           /\ Cardinality(LiveJobs') \in Nat
<1>1. LiveJobs' = LiveJobs \ {j}
  BY GoToEffect DEF LiveJobs, Live
<1>2. j \in LiveJobs
  BY DEF LiveJobs
<1>3. IsFiniteSet(LiveJobs \ {j})
  BY LiveFinite, FS_RemoveElement
<1> QED
  BY <1>1, <1>2, <1>3, LiveFinite, FS_RemoveElement, FS_CardinalityType

-----------------------------------------------------------------------------
(* The channel, the semaphore and the types: one step per action.          *)
LEMMA CoreInit == Init => CoreInv
<1> SUFFICES ASSUME Init PROVE CoreInv
  OBVIOUS
<1>1. TypeOK
  BY ClockAssumption, SizesAssumption DEF Init, TypeOK, PCs, Statuses
<1>2. QueueInv
  BY DEF Init, QueueInv
<1>3. LiveJobs = {}
  BY DEF Init, LiveJobs, Live, Running
<1>4. Cardinality(LiveJobs) = 0
  BY <1>3, FS_EmptySet
<1>5. SlotsMatchRuns
  BY <1>4, SemCapType DEF Init, SlotsMatchRuns, LiveJobs
<1> QED
  BY <1>1, <1>2, <1>5 DEF CoreInv

(* Every step keeps the types, the channel and the slot count.             *)
LEMMA CoreStep == CoreInv /\ [Next]_vars => CoreInv'
<1> SUFFICES ASSUME CoreInv, [Next]_vars PROVE CoreInv'
  OBVIOUS
<1> USE DEF CoreInv
<1>1. ASSUME NEW j \in Jobs, Submit(j) PROVE CoreInv'
  <2>1. GoTo(j, "sending") /\ "sending" \in PCs /\ ~ Live(j) /\ "sending" \notin Running
    BY <1>1 DEF Submit, PCs, Queued, Live, Running
  <2>2. TypeOK'
    BY <1>1, <2>1, GoToEffect DEF Submit, TypeOK
  <2>3. QueueInv'
    BY <1>1, <2>1, GoToEffect DEF Submit, QueueInv, TypeOK
  <2>4. SlotsMatchRuns'
    BY <1>1, <2>1, LiveSame DEF Submit, SlotsMatchRuns, LiveJobs
  <2> QED
    BY <2>2, <2>3, <2>4
<1>2. ASSUME NEW j \in Jobs, SendToChan(j) PROVE CoreInv'
  <2>1. GoTo(j, "queued") /\ "queued" \in PCs /\ ~ Live(j) /\ "queued" \notin Running
    BY <1>2 DEF SendToChan, PCs, Queued, Live, Running
  <2>2. TypeOK'
    BY <1>2, <2>1, GoToEffect, SizesAssumption DEF SendToChan, TypeOK
  <2>3. QueueInv'
    BY <1>2, <2>1, GoToEffect DEF SendToChan, QueueInv, TypeOK
  <2>4. SlotsMatchRuns'
    BY <1>2, <2>1, LiveSame DEF SendToChan, SlotsMatchRuns, LiveJobs
  <2> QED
    BY <2>2, <2>3, <2>4
<1>3. ASSUME Take PROVE CoreInv'
  <2> DEFINE h == Head(taskChan)
  <2>1. h \in Jobs /\ pc[h] = "queued" /\ GoTo(h, "held")
    BY <1>3 DEF Take, TypeOK, QueueInv
  <2>2. "held" \in PCs /\ ~ Live(h) /\ "held" \notin Running
    BY <2>1 DEF PCs, Queued, Live, Running
  <2>3. /\ taskChan' \in Seq(Jobs) /\ Len(taskChan') = Len(taskChan) - 1
        /\ \A i \in DOMAIN taskChan' : i + 1 \in DOMAIN taskChan /\ taskChan'[i] = taskChan[i + 1]
    BY <1>3 DEF Take, TypeOK
  <2> HIDE DEF h
  <2>4. TypeOK'
    BY <1>3, <2>1, <2>2, <2>3, GoToEffect, SizesAssumption DEF Take, TypeOK
  <2>5. \A i \in DOMAIN taskChan' : taskChan'[i] # h
    <3>1. h = taskChan[1] /\ 1 \in DOMAIN taskChan
      <4>1. taskChan \in Seq(Jobs) /\ taskChan # <<>>
        BY <1>3 DEF Take, TypeOK
      <4>2. h = taskChan[1]
        BY <4>1 DEF h
      <4>3. Len(taskChan) \in Nat \ {0} /\ DOMAIN taskChan = 1..Len(taskChan)
        BY <4>1, EmptySeq, LenProperties
      <4> QED
        BY <4>2, <4>3
    <3>2. \A i \in DOMAIN taskChan' : i \in Nat \ {0}
      BY <2>3, LenProperties
    <3>3. \A i, k \in DOMAIN taskChan : taskChan[i] = taskChan[k] => i = k
      BY DEF QueueInv
    <3> QED
      BY <2>3, <3>1, <3>2, <3>3
  <2>6. QueueInv'
    <3>1. \A i \in DOMAIN taskChan' : taskChan'[i] \in Jobs /\ pc[taskChan'[i]] = "queued"
      BY <2>3 DEF QueueInv, TypeOK
    <3>2. \A i, k \in DOMAIN taskChan' : taskChan'[i] = taskChan'[k] => i = k
      BY <2>3 DEF QueueInv, TypeOK
    <3> QED
      BY <2>1, <2>2, <2>5, <3>1, <3>2, GoToEffect DEF QueueInv
  <2>7. SlotsMatchRuns'
    BY <1>3, <2>1, <2>2, LiveSame DEF Take, SlotsMatchRuns, LiveJobs
  <2> QED
    BY <2>4, <2>6, <2>7
<1>4. ASSUME NEW j \in Jobs, Acquire(j) PROVE CoreInv'
  <2>1. GoTo(j, "start") /\ "start" \in PCs /\ "start" \in Running /\ ~ Live(j) /\ pc[j] # "queued"
    BY <1>4 DEF Acquire, PCs, Live, Running
  <2>2. TypeOK'
    BY <1>4, <2>1, GoToEffect DEF Acquire, TypeOK
  <2>3. QueueInv'
    BY <1>4, <2>1, GoToEffect DEF Acquire, QueueInv, TypeOK
  <2>4. SlotsMatchRuns'
    <3>1. Cardinality(LiveJobs') = Cardinality(LiveJobs) + 1
      BY <2>1, LiveEnters
    <3>2. sem' = sem + 1 /\ sem' <= SemCap
      BY <1>4, SemCapType DEF Acquire, TypeOK
    <3> QED
      BY <3>1, <3>2 DEF SlotsMatchRuns, LiveJobs
  <2> QED
    BY <2>2, <2>3, <2>4
<1>5. ASSUME NEW j \in Jobs, StartRun(j) PROVE CoreInv'
  <2>1. GoTo(j, "build") /\ "build" \in PCs /\ "build" \in Running /\ Live(j) /\ pc[j] # "queued"
    BY <1>5 DEF StartRun, PCs, Live, Running
  <2>2. runID'[j] \in RunIds /\ runID' \in [Jobs -> RunIds \cup {NoRun}]
    BY <1>5, JobsAssumption, ClockAssumption DEF StartRun, TypeOK, RunIds
  <2>3. hist' \in [RunIds -> Statuses]
    BY <1>5, <2>2, SaveRecordEffect DEF StartRun, Statuses
  <2>4. clock' \in 0..MaxMilli
    BY <1>5, ClockAssumption, FlagsAssumption DEF StartRun, TypeOK
  <2>5. TypeOK'
    BY <1>5, <2>1, <2>2, <2>3, <2>4, GoToEffect DEF StartRun, TypeOK
  <2>6. QueueInv'
    BY <1>5, <2>1, GoToEffect DEF StartRun, QueueInv, TypeOK
  <2>7. SlotsMatchRuns'
    BY <1>5, <2>1, LiveSame DEF StartRun, SlotsMatchRuns, LiveJobs
  <2> QED
    BY <2>5, <2>6, <2>7
<1>6. ASSUME NEW j \in Jobs, BuildFails(j) PROVE CoreInv'
  <2>1. PICK l \in {"finalize"} : GoTo(j, l)
    BY <1>6 DEF BuildFails
  <2>2. l \in PCs /\ l \in Running /\ Live(j) /\ pc[j] # "queued"
    BY <1>6 DEF BuildFails, PCs, Live, Running
  <2>3. TypeOK'
    BY <1>6, <2>1, <2>2, GoToEffect DEF BuildFails, TypeOK, Outcomes
  <2>4. QueueInv'
    BY <1>6, <2>1, <2>2, GoToEffect DEF BuildFails, QueueInv, TypeOK
  <2>5. SlotsMatchRuns'
    BY <1>6, <2>1, <2>2, LiveSame DEF BuildFails, SlotsMatchRuns, LiveJobs
  <2> QED
    BY <2>3, <2>4, <2>5
<1>7. ASSUME NEW j \in Jobs, BuildOK(j) PROVE CoreInv'
  <2>1. PICK l \in {"exec", "finalize"} : GoTo(j, l)
    BY <1>7 DEF BuildOK
  <2>2. l \in PCs /\ l \in Running /\ Live(j) /\ pc[j] # "queued"
    BY <1>7 DEF BuildOK, PCs, Live, Running
  <2>3. TypeOK'
    BY <1>7, <2>1, <2>2, GoToEffect DEF BuildOK, TypeOK
  <2>4. QueueInv'
    BY <1>7, <2>1, <2>2, GoToEffect DEF BuildOK, QueueInv, TypeOK
  <2>5. SlotsMatchRuns'
    BY <1>7, <2>1, <2>2, LiveSame DEF BuildOK, SlotsMatchRuns, LiveJobs
  <2> QED
    BY <2>3, <2>4, <2>5
<1>8. ASSUME NEW j \in Jobs, NEW out \in Outcomes, AgentEnds(j, out) PROVE CoreInv'
  <2>1. TypeOK'
    BY <1>8 DEF AgentEnds, TypeOK
  <2>2. QueueInv'
    BY <1>8 DEF AgentEnds, QueueInv
  <2>3. SlotsMatchRuns'
    BY <1>8 DEF AgentEnds, SlotsMatchRuns, Live
  <2> QED
    BY <2>1, <2>2, <2>3
<1>9. ASSUME NEW j \in Jobs, Return(j) PROVE CoreInv'
  <2>1. PICK l \in {"judge"} : GoTo(j, l)
    BY <1>9 DEF Return
  <2>2. l \in PCs /\ l \in Running /\ Live(j) /\ pc[j] # "queued"
    BY <1>9 DEF Return, PCs, Live, Running
  <2>3. TypeOK'
    BY <1>9, <2>1, <2>2, GoToEffect DEF Return, TypeOK
  <2>4. QueueInv'
    BY <1>9, <2>1, <2>2, GoToEffect DEF Return, QueueInv, TypeOK
  <2>5. SlotsMatchRuns'
    BY <1>9, <2>1, <2>2, LiveSame DEF Return, SlotsMatchRuns, LiveJobs
  <2> QED
    BY <2>3, <2>4, <2>5
<1>10. ASSUME NEW j \in Jobs, Judge(j) PROVE CoreInv'
  <2>1. PICK l \in {"exec", "finalize"} : GoTo(j, l)
    BY <1>10 DEF Judge
  <2>2. l \in PCs /\ l \in Running /\ Live(j) /\ pc[j] # "queued"
    BY <1>10 DEF Judge, PCs, Live, Running
  <2>3. TypeOK'
    <3>1. attempt' \in [Jobs -> Nat] /\ agentOut' \in [Jobs -> Outcomes \cup {"none"}]
      <4>1. attempt \in [Jobs -> Nat] /\ agentOut \in [Jobs -> Outcomes \cup {"none"}]
        BY DEF TypeOK
      <4>2. CASE result[j] = "transient" /\ attempt[j] < RetriesOf(j)
        BY <1>10, <4>1, <4>2 DEF Judge
      <4>3. CASE ~(result[j] = "transient" /\ attempt[j] < RetriesOf(j))
        BY <1>10, <4>1, <4>3 DEF Judge
      <4> QED
        BY <4>2, <4>3
    <3> QED
      BY <1>10, <2>1, <2>2, <3>1, GoToEffect DEF Judge, TypeOK
  <2>4. QueueInv'
    BY <1>10, <2>1, <2>2, GoToEffect DEF Judge, QueueInv, TypeOK
  <2>5. SlotsMatchRuns'
    BY <1>10, <2>1, <2>2, LiveSame DEF Judge, SlotsMatchRuns, LiveJobs
  <2> QED
    BY <2>3, <2>4, <2>5
<1>11. ASSUME NEW j \in Jobs, Finalize(j) PROVE CoreInv'
  <2>1. GoTo(j, "release") /\ "release" \in PCs /\ "release" \in Running /\ Live(j) /\ pc[j] # "queued"
    BY <1>11 DEF Finalize, PCs, Live, Running
  <2>2. hist' \in [RunIds -> Statuses]
    BY <1>11 DEF Finalize, SaveRecord, TypeOK, FinalStatus, Statuses, Final
  <2>3. TypeOK'
    BY <1>11, <2>1, <2>2, GoToEffect DEF Finalize, TypeOK
  <2>4. QueueInv'
    BY <1>11, <2>1, GoToEffect DEF Finalize, QueueInv, TypeOK
  <2>5. SlotsMatchRuns'
    BY <1>11, <2>1, LiveSame DEF Finalize, SlotsMatchRuns, LiveJobs
  <2> QED
    BY <2>3, <2>4, <2>5
<1>12. ASSUME NEW j \in Jobs, Release(j) PROVE CoreInv'
  <2>1. GoTo(j, "done") /\ "done" \in PCs \ Running /\ Live(j) /\ pc[j] # "queued"
    BY <1>12 DEF Release, PCs, Live, Running
  <2>2. SlotsMatchRuns' /\ sem' \in Nat
    <3>1. Cardinality(LiveJobs') = Cardinality(LiveJobs) - 1 /\ Cardinality(LiveJobs') \in Nat
      BY <2>1, LiveLeaves
    <3>2. sem' = sem - 1 /\ sem \in Nat
      BY <1>12 DEF Release, TypeOK
    <3>3. sem = Cardinality(LiveJobs) /\ sem <= SemCap
      BY DEF SlotsMatchRuns, LiveJobs
    <3>4. sem' = Cardinality(LiveJobs') /\ sem' \in Nat /\ sem' <= SemCap
      BY <3>1, <3>2, <3>3, SemCapType
    <3> QED
      BY <3>4 DEF SlotsMatchRuns, LiveJobs, SemCap
  <2>3. TypeOK'
    BY <1>12, <2>1, <2>2, GoToEffect DEF Release, TypeOK
  <2>4. QueueInv'
    BY <1>12, <2>1, GoToEffect DEF Release, QueueInv, TypeOK
  <2> QED
    BY <2>2, <2>3, <2>4
<1>13. ASSUME Exit PROVE CoreInv'
  <2>1. hist' \in [RunIds -> Statuses]
    BY <1>13 DEF Exit, TypeOK, Statuses
  <2>2. pc' \in [Jobs -> PCs] /\ \A j \in Jobs : pc'[j] \notin Running
    BY <1>13 DEF Exit, TypeOK, InFlight, PCs, Running, Queued
  <2>3. TypeOK'
    BY <1>13, <2>1, <2>2, SizesAssumption DEF Exit, TypeOK
  <2>4. QueueInv'
    BY <1>13 DEF Exit, QueueInv
  <2>5. LiveJobs' = {}
    BY <2>2 DEF LiveJobs, Live
  <2>6. SlotsMatchRuns'
    <3>1. Cardinality(LiveJobs') = 0
      BY <2>5, FS_EmptySet
    <3> QED
      BY <1>13, <3>1, SemCapType DEF Exit, SlotsMatchRuns, LiveJobs
  <2> QED
    BY <2>3, <2>4, <2>6
<1>14. ASSUME UNCHANGED vars PROVE CoreInv'
  BY <1>14 DEF vars, TypeOK, QueueInv, SlotsMatchRuns, Live
<1> QED
  BY <1>1, <1>2, <1>3, <1>4, <1>5, <1>6, <1>7, <1>8, <1>9, <1>10, <1>11, <1>12, <1>13, <1>14
  DEF Next, JobStep, Terminating

(* Spec keeps every variable in its type, whatever the parameters.         *)
THEOREM TypeCorrect == Spec => []TypeOK
<1>1. CoreInv => TypeOK
  BY DEF CoreInv
<1> QED
  BY <1>1, CoreInit, CoreStep, PTL DEF Spec

(* The semaphore's slots are exactly the goroutines inside executeTask and *)
(* never exceed its capacity, whatever the parameters.                     *)
THEOREM SlotsCorrect == Spec => []SlotsMatchRuns
<1>1. CoreInv => SlotsMatchRuns
  BY DEF CoreInv
<1> QED
  BY <1>1, CoreInit, CoreStep, PTL DEF Spec

-----------------------------------------------------------------------------
(* The result of a run is that of its agent.                               *)
LEMMA ResultInit == Init => ResultInv
BY DEF Init, ResultInv

(* Every step keeps a judged result equal to its agent's outcome.          *)
LEMMA ResultStep == CoreInv /\ ResultInv /\ [Next]_vars => ResultInv'
<1> SUFFICES ASSUME CoreInv, ResultInv, [Next]_vars PROVE ResultInv'
  OBVIOUS
<1>0. /\ TypeOK /\ QueueInv
      /\ pc \in [Jobs -> PCs] /\ agentOut \in [Jobs -> Outcomes \cup {"none"}]
      /\ result \in [Jobs -> Outcomes \cup {"none"}]
  BY DEF CoreInv, TypeOK
<1> USE DEF Unstarted
<1>1. ASSUME NEW j \in Jobs, Submit(j) PROVE ResultInv'
  BY <1>0, <1>1 DEF Submit, GoTo, ResultInv, RetriesOf
<1>2. ASSUME NEW j \in Jobs, SendToChan(j) PROVE ResultInv'
  BY <1>0, <1>2 DEF SendToChan, GoTo, ResultInv, RetriesOf
<1>3. ASSUME Take PROVE ResultInv'
  <2>1. Head(taskChan) \in Jobs /\ pc[Head(taskChan)] = "queued"
    BY <1>0, <1>3 DEF Take, TypeOK, QueueInv
  <2> QED
    BY <1>0, <1>3, <2>1 DEF Take, GoTo, ResultInv, RetriesOf
<1>4. ASSUME NEW j \in Jobs, Acquire(j) PROVE ResultInv'
  BY <1>0, <1>4 DEF Acquire, GoTo, ResultInv, RetriesOf
<1>5. ASSUME NEW j \in Jobs, StartRun(j) PROVE ResultInv'
  BY <1>0, <1>5 DEF StartRun, GoTo, ResultInv, RetriesOf
<1>6. ASSUME NEW j \in Jobs, BuildFails(j) PROVE ResultInv'
  BY <1>0, <1>6 DEF BuildFails, GoTo, ResultInv, RetriesOf, Outcomes
<1>7. ASSUME NEW j \in Jobs, BuildOK(j) PROVE ResultInv'
  BY <1>0, <1>7, RetriesType DEF BuildOK, GoTo, ResultInv, RetriesOf
<1>8. ASSUME NEW j \in Jobs, NEW out \in Outcomes, AgentEnds(j, out) PROVE ResultInv'
  BY <1>0, <1>8 DEF AgentEnds, ResultInv, RetriesOf
<1>9. ASSUME NEW j \in Jobs, Return(j) PROVE ResultInv'
  BY <1>0, <1>9 DEF Return, GoTo, ResultInv, RetriesOf
<1>10. ASSUME NEW j \in Jobs, Judge(j) PROVE ResultInv'
  BY <1>0, <1>10 DEF Judge, GoTo, ResultInv, RetriesOf
<1>11. ASSUME NEW j \in Jobs, Finalize(j) PROVE ResultInv'
  BY <1>0, <1>11 DEF Finalize, GoTo, ResultInv, RetriesOf
<1>12. ASSUME NEW j \in Jobs, Release(j) PROVE ResultInv'
  BY <1>0, <1>12 DEF Release, GoTo, ResultInv, RetriesOf
<1>13. ASSUME Exit PROVE ResultInv'
  BY <1>0, <1>13 DEF Exit, InFlight, ResultInv, RetriesOf, Running, Queued, PCs
<1>14. ASSUME UNCHANGED vars PROVE ResultInv'
  BY <1>14 DEF vars, ResultInv, RetriesOf
<1> QED
  BY <1>1, <1>2, <1>3, <1>4, <1>5, <1>6, <1>7, <1>8, <1>9, <1>10, <1>11, <1>12, <1>13, <1>14
  DEF Next, JobStep, Terminating

(* A submission's agent is run again only after a transient failure and    *)
(* only up to the task's limit, whatever the parameters.                   *)
THEOREM RetryCorrect == Spec => RetryOnlyTransient
<1> DEFINE Retried ==
      \A j \in Jobs :
          (agentOut[j] # "none" /\ agentOut'[j] # agentOut[j]) =>
              /\ agentOut[j] = "transient" /\ agentOut'[j] = "none"
              /\ attempt'[j] = attempt[j] + 1 /\ attempt'[j] <= RetriesOf(j)
<1>1. CoreInv /\ ResultInv /\ [Next]_vars => [Retried]_vars
  <2> SUFFICES ASSUME CoreInv, ResultInv, [Next]_vars PROVE Retried
    OBVIOUS
  <2>0. /\ agentOut \in [Jobs -> Outcomes \cup {"none"}]
        /\ attempt \in [Jobs -> Nat]
    BY DEF CoreInv, TypeOK
  <2>1. ASSUME NEW j \in Jobs, NEW out \in Outcomes, AgentEnds(j, out) PROVE Retried
    BY <2>0, <2>1 DEF AgentEnds
  <2>2. ASSUME NEW j \in Jobs, Judge(j) PROVE Retried
    <3>1. CASE result[j] = "transient" /\ attempt[j] < RetriesOf(j)
      BY <2>0, <2>2, <3>1, RetriesType DEF Judge, ResultInv
    <3>2. CASE ~(result[j] = "transient" /\ attempt[j] < RetriesOf(j))
      BY <2>2, <3>2 DEF Judge
    <3> QED
      BY <3>1, <3>2
  <2>3. CASE UNCHANGED agentOut
    BY <2>3
  <2> QED
    BY <2>1, <2>2, <2>3
    DEF Next, JobStep, Submit, SendToChan, Take, Acquire, StartRun, BuildFails, BuildOK,
        Return, Finalize, Release, Exit, Terminating, vars
<1> QED
  BY <1>1, CoreInit, CoreStep, ResultInit, ResultStep, PTL DEF Spec, RetryOnlyTransient

-----------------------------------------------------------------------------
(* Run IDs are unique as long as no two runs start in one millisecond.     *)
LEMMA IDInit == Init => IDInv
BY NoRunAssumption DEF Init, IDInv, Open

(* Every step keeps the run IDs distinct: a new one has the current        *)
(* millisecond, all others have earlier ones.                              *)
LEMMA IDStep == UniqueMillis /\ CoreInv /\ IDInv /\ [Next]_vars => IDInv'
<1> SUFFICES ASSUME UniqueMillis, CoreInv, IDInv, [Next]_vars PROVE IDInv'
  OBVIOUS
<1>0. /\ TypeOK /\ QueueInv
      /\ pc \in [Jobs -> PCs] /\ runID \in [Jobs -> RunIds \cup {NoRun}]
      /\ clock \in Nat
  BY ClockAssumption DEF CoreInv, TypeOK
<1> USE DEF Unstarted, Open
<1>1. ASSUME NEW j \in Jobs, Submit(j) PROVE IDInv'
  BY <1>0, <1>1 DEF Submit, GoTo, IDInv
<1>2. ASSUME NEW j \in Jobs, SendToChan(j) PROVE IDInv'
  BY <1>0, <1>2 DEF SendToChan, GoTo, IDInv
<1>3. ASSUME Take PROVE IDInv'
  <2>1. Head(taskChan) \in Jobs /\ pc[Head(taskChan)] = "queued"
    BY <1>0, <1>3 DEF Take, TypeOK, QueueInv
  <2> QED
    BY <1>0, <1>3, <2>1 DEF Take, GoTo, IDInv
<1>4. ASSUME NEW j \in Jobs, Acquire(j) PROVE IDInv'
  BY <1>0, <1>4 DEF Acquire, GoTo, IDInv
<1>5. ASSUME NEW j \in Jobs, StartRun(j) PROVE IDInv'
  <2>1. /\ <<TaskOf[j], clock>> \in RunIds
        /\ runID' = [runID EXCEPT ![j] = <<TaskOf[j], clock>>]
        /\ clock' = clock + 1
    BY <1>5, <1>0, JobsAssumption, ClockAssumption DEF StartRun, TypeOK, RunIds
  <2>2. \A i \in Jobs : i # j => runID'[i] = runID[i]
    BY <1>0, <2>1
  <2>3. runID'[j] = <<TaskOf[j], clock>> /\ runID'[j] # NoRun /\ runID'[j][2] = clock
    BY <1>0, <2>1, NoRunAssumption
  <2>4. pc' = [pc EXCEPT ![j] = "build"]
    BY <1>5 DEF StartRun, GoTo
  <2>5. \A i \in Jobs : runID[i] # NoRun => runID[i] \in RunIds /\ runID[i][2] \in Nat
    BY <1>0, ClockAssumption DEF RunIds
  <2>6. \A i \in Jobs : runID'[i] # NoRun => runID'[i][2] < clock'
    BY <1>0, <2>1, <2>2, <2>3, <2>5 DEF IDInv
  <2>7. \A i, k \in Jobs : (i # k /\ runID'[i] # NoRun) => runID'[i] # runID'[k]
    BY <1>0, <2>2, <2>3, <2>5 DEF IDInv
  <2> QED
    BY <1>0, <2>1, <2>2, <2>3, <2>4, <2>6, <2>7 DEF IDInv
<1>6. ASSUME NEW j \in Jobs, BuildFails(j) PROVE IDInv'
  BY <1>0, <1>6 DEF BuildFails, GoTo, IDInv
<1>7. ASSUME NEW j \in Jobs, BuildOK(j) PROVE IDInv'
  BY <1>0, <1>7 DEF BuildOK, GoTo, IDInv
<1>8. ASSUME NEW j \in Jobs, NEW out \in Outcomes, AgentEnds(j, out) PROVE IDInv'
  BY <1>0, <1>8 DEF AgentEnds, IDInv
<1>9. ASSUME NEW j \in Jobs, Return(j) PROVE IDInv'
  BY <1>0, <1>9 DEF Return, GoTo, IDInv
<1>10. ASSUME NEW j \in Jobs, Judge(j) PROVE IDInv'
  BY <1>0, <1>10 DEF Judge, GoTo, IDInv
<1>11. ASSUME NEW j \in Jobs, Finalize(j) PROVE IDInv'
  BY <1>0, <1>11 DEF Finalize, GoTo, IDInv
<1>12. ASSUME NEW j \in Jobs, Release(j) PROVE IDInv'
  BY <1>0, <1>12 DEF Release, GoTo, IDInv
<1>13. ASSUME Exit PROVE IDInv'
  BY <1>0, <1>13 DEF Exit, InFlight, IDInv, Running, Queued, PCs
<1>14. ASSUME UNCHANGED vars PROVE IDInv'
  BY <1>14 DEF vars, IDInv
<1> QED
  BY <1>1, <1>2, <1>3, <1>4, <1>5, <1>6, <1>7, <1>8, <1>9, <1>10, <1>11, <1>12, <1>13, <1>14
  DEF Next, JobStep, Terminating

-----------------------------------------------------------------------------
(* The records, for unique run IDs and retry limits that are not negative. *)
AllInv == CoreInv /\ ResultInv /\ IDInv /\ RecordInv /\ RecordTruthful

LEMMA RecordInit == Init => RecordInv /\ RecordTruthful
BY NoRunAssumption DEF Init, RecordInv, RecordTruthful, Final

(* With a default that is not negative no limit is, so the loop of         *)
(* executeTask is entered.                                                 *)
LEMMA LimitNotNegative ==
    ASSUME DefaultMaxRetries >= 0, NEW j \in Jobs PROVE 0 <= RetriesOf(j)
BY JobsAssumption, RetryAssumption DEF RetriesOf

(* A record that is final is never written again.                          *)
LEMMA FinalKept ==
    ASSUME AllInv, [Next]_vars, NEW r \in RunIds, hist[r] \in Final
    PROVE  hist'[r] = hist[r]
<1>0. TypeOK /\ clock \in Nat
  BY ClockAssumption DEF AllInv, CoreInv, TypeOK
<1>1. ASSUME NEW j \in Jobs, StartRun(j) PROVE hist'[r] = hist[r]
  <2>1. runID'[j] = <<TaskOf[j], clock>> /\ runID'[j] \in RunIds
    BY <1>0, <1>1, JobsAssumption, ClockAssumption DEF StartRun, TypeOK, RunIds
  <2>2. hist[<<TaskOf[j], clock>>] = "none"
    BY <1>0, <2>1 DEF AllInv, RecordInv
  <2> QED
    BY <1>0, <1>1, <2>1, <2>2, SaveRecordEffect DEF StartRun, Statuses, Final
<1>2. ASSUME NEW j \in Jobs, Finalize(j) PROVE hist'[r] = hist[r]
  <2>1. runID[j] \in RunIds /\ hist[runID[j]] \notin Final
    BY <1>2, NoRunAssumption DEF Finalize, AllInv, IDInv, RecordInv, Open
  <2>2. r # runID[j]
    BY <2>1
  <2>3. FinalStatus(result[j]) \in Statuses
    BY DEF FinalStatus, Statuses, Final
  <2> QED
    BY <1>0, <1>2, <2>1, <2>2, <2>3, SaveRecordEffect DEF Finalize
<1>3. ASSUME Exit PROVE hist'[r] = hist[r]
  <2>1. PICK torn \in SUBSET {runID[j] : j \in {k \in Jobs : pc[k] = "finalize"}} :
          hist' = [q \in RunIds |-> IF q \in torn THEN "none" ELSE hist[q]]
    BY <1>3 DEF Exit
  <2>2. \A k \in Jobs : pc[k] = "finalize" => runID[k] # r
    BY NoRunAssumption DEF AllInv, IDInv, RecordInv, Open
  <2> QED
    BY <2>1, <2>2
<1>4. CASE UNCHANGED hist
  BY <1>4
<1> QED
  BY <1>1, <1>2, <1>3, <1>4
  DEF Next, JobStep, Submit, SendToChan, Take, Acquire, BuildFails, BuildOK, AgentEnds,
      Return, Judge, Release, Terminating, vars

(* Every step keeps the records truthful.                                  *)
LEMMA RecordStep ==
    ASSUME UniqueMillis, DefaultMaxRetries >= 0, AllInv, [Next]_vars
    PROVE  RecordInv' /\ RecordTruthful'
<1> DEFINE Goal == RecordInv' /\ RecordTruthful'
<1> SUFFICES Goal
  OBVIOUS
<1>0. /\ TypeOK /\ QueueInv
      /\ pc \in [Jobs -> PCs] /\ runID \in [Jobs -> RunIds \cup {NoRun}]
      /\ agentOut \in [Jobs -> Outcomes \cup {"none"}]
      /\ clock \in Nat
  BY ClockAssumption DEF AllInv, CoreInv, TypeOK
<1>a. RecordInv /\ RecordTruthful /\ IDInv /\ ResultInv
  BY DEF AllInv
<1> USE DEF Unstarted, Open
<1>1. ASSUME NEW j \in Jobs, Submit(j) PROVE Goal
  BY <1>0, <1>a, <1>1 DEF Submit, GoTo, IDInv, RecordInv, RecordTruthful
<1>2. ASSUME NEW j \in Jobs, SendToChan(j) PROVE Goal
  BY <1>0, <1>a, <1>2 DEF SendToChan, GoTo, IDInv, RecordInv, RecordTruthful
<1>3. ASSUME Take PROVE Goal
  <2>1. Head(taskChan) \in Jobs /\ pc[Head(taskChan)] = "queued"
    BY <1>0, <1>3 DEF Take, TypeOK, QueueInv
  <2> QED
    BY <1>0, <1>a, <1>3, <2>1 DEF Take, GoTo, IDInv, RecordInv, RecordTruthful
<1>4. ASSUME NEW j \in Jobs, Acquire(j) PROVE Goal
  BY <1>0, <1>a, <1>4 DEF Acquire, GoTo, IDInv, RecordInv, RecordTruthful
<1>5. ASSUME NEW j \in Jobs, StartRun(j) PROVE Goal
  <2> DEFINE new == <<TaskOf[j], clock>>
  <2>1. /\ new \in RunIds /\ new # NoRun /\ new[2] = clock
        /\ runID' = [runID EXCEPT ![j] = new]
        /\ clock' = clock + 1
    BY <1>5, <1>0, JobsAssumption, ClockAssumption, NoRunAssumption DEF StartRun, TypeOK, RunIds
  <2> HIDE DEF new
  <2>2. hist[new] = "none"
    BY <1>0, <1>a, <2>1 DEF RecordInv
  <2>3. /\ hist'[new] \notin Final
        /\ \A q \in RunIds : q # new => hist'[q] = hist[q]
    BY <1>0, <1>5, <2>1, <2>2, SaveRecordEffect DEF StartRun, Statuses, Final
  <2>4. \A i \in Jobs : i # j => runID'[i] = runID[i] /\ pc'[i] = pc[i]
    BY <1>0, <1>5, <2>1 DEF StartRun, GoTo
  <2>5. \A i \in Jobs : runID[i] # NoRun => runID[i] \in RunIds /\ runID[i] # new
    BY <1>0, <1>a, <2>1 DEF IDInv
  <2>6. \A i \in Jobs : (i # j /\ runID'[i] # NoRun) => hist'[runID'[i]] = hist[runID[i]]
    BY <2>3, <2>4, <2>5
  <2>7. runID'[j] = new
    BY <1>0, <2>1
  <2>8. RecordTruthful'
    BY <1>a, <1>5, <2>3, <2>4, <2>6, <2>7 DEF RecordTruthful, StartRun
  <2>9. \A r \in RunIds : r[2] >= clock' => hist'[r] = "none"
    <3> SUFFICES ASSUME NEW r \in RunIds, r[2] >= clock' PROVE hist'[r] = "none"
      OBVIOUS
    <3>1. r[2] \in Nat
      BY ClockAssumption DEF RunIds
    <3>2. r # new /\ r[2] >= clock
      BY <1>0, <2>1, <3>1
    <3> QED
      BY <1>a, <2>3, <3>2 DEF RecordInv
  <2> QED
    BY <1>a, <2>3, <2>4, <2>6, <2>7, <2>8, <2>9 DEF RecordInv
<1>6. ASSUME NEW j \in Jobs, BuildFails(j) PROVE Goal
  BY <1>0, <1>a, <1>6 DEF BuildFails, GoTo, IDInv, RecordInv, RecordTruthful
<1>7. ASSUME NEW j \in Jobs, BuildOK(j) PROVE Goal
  BY <1>0, <1>a, <1>7 DEF BuildOK, GoTo, IDInv, RecordInv, RecordTruthful
<1>8. ASSUME NEW j \in Jobs, NEW out \in Outcomes, AgentEnds(j, out) PROVE Goal
  BY <1>0, <1>a, <1>8 DEF AgentEnds, RecordInv, RecordTruthful
<1>9. ASSUME NEW j \in Jobs, Return(j) PROVE Goal
  BY <1>0, <1>a, <1>9 DEF Return, GoTo, IDInv, RecordInv, RecordTruthful
<1>10. ASSUME NEW j \in Jobs, Judge(j) PROVE Goal
  BY <1>0, <1>a, <1>10 DEF Judge, GoTo, IDInv, RecordInv, RecordTruthful
<1>11. ASSUME NEW j \in Jobs, Finalize(j) PROVE Goal
  <2> DEFINE id == runID[j]
  <2>1. id \in RunIds /\ id # NoRun /\ hist[id] \notin Final /\ id[2] < clock
    BY <1>11, <1>a, NoRunAssumption DEF Finalize, IDInv, RecordInv
  <2>2. FinalStatus(result[j]) \in Statuses
    BY DEF FinalStatus, Statuses, Final
  <2>3. /\ hist'[id] \in {FinalStatus(result[j]), hist[id], "none"}
        /\ \A q \in RunIds : q # id => hist'[q] = hist[q]
    BY <1>0, <1>11, <2>1, <2>2, SaveRecordEffect DEF Finalize
  <2>4. FinalStatus(result[j]) = "completed" <=> agentOut[j] = "completed"
    BY <1>0, <1>a, <1>11, LimitNotNegative DEF Finalize, FinalStatus, ResultInv, TypeOK, Outcomes
  <2>5. hist'[id] \in Final =>
           (hist'[id] = "completed" <=> agentOut[j] = "completed")
    BY <2>1, <2>3, <2>4 DEF Final
  <2>6. \A i \in Jobs : (i # j /\ runID[i] # NoRun) => runID[i] \in RunIds /\ runID[i] # id
    BY <1>0, <1>a DEF IDInv
  <2>7. /\ UNCHANGED <<runID, agentOut, clock>> /\ pc'[j] = "release"
        /\ \A i \in Jobs : i # j => pc'[i] = pc[i]
    BY <1>0, <1>11 DEF Finalize, GoTo
  <2>8. \A r \in RunIds : r[2] >= clock => r # id
    <3> SUFFICES ASSUME NEW r \in RunIds, r[2] >= clock, r = id PROVE FALSE
      OBVIOUS
    <3>1. r[2] \in Nat
      BY ClockAssumption DEF RunIds
    <3> QED
      BY <1>0, <2>1, <3>1
  <2> HIDE DEF id
  <2>9. RecordInv'
    BY <1>a, <2>3, <2>6, <2>7, <2>8 DEF RecordInv
  <2>10. ASSUME NEW i \in Jobs, runID[i] # NoRun, hist'[runID[i]] \in Final
         PROVE  /\ pc'[i] \in Over
                /\ hist'[runID[i]] = "completed" <=> agentOut[i] = "completed"
    <3>1. CASE i = j
      BY <2>5, <2>7, <2>10, <3>1 DEF id, Over
    <3>2. CASE i # j
      BY <1>a, <2>3, <2>6, <2>7, <2>10, <3>2 DEF RecordTruthful, Over
    <3> QED
      BY <3>1, <3>2
  <2>11. RecordTruthful'
    BY <2>7, <2>10 DEF RecordTruthful, Over
  <2> QED
    BY <2>9, <2>11
<1>12. ASSUME NEW j \in Jobs, Release(j) PROVE Goal
  BY <1>0, <1>a, <1>12 DEF Release, GoTo, IDInv, RecordInv, RecordTruthful
<1>13. ASSUME Exit PROVE Goal
  <2>1. PICK torn : hist' = [q \in RunIds |-> IF q \in torn THEN "none" ELSE hist[q]]
    BY <1>13 DEF Exit
  <2>2. \A q \in RunIds : hist'[q] \in {"none", hist[q]}
    BY <2>1
  <2>3. \A i \in Jobs : runID[i] # NoRun => runID[i] \in RunIds
    BY <1>0
  <2>4. /\ UNCHANGED <<runID, agentOut, clock>>
        /\ \A i \in Jobs : /\ pc'[i] \notin Open
                           /\ pc[i] \in Over => pc'[i] \in Over
    BY <1>0, <1>13 DEF Exit, InFlight, Running, Queued, PCs, Over
  <2>5. RecordInv'
    BY <1>a, <2>2, <2>4 DEF RecordInv
  <2>6. RecordTruthful'
    BY <1>a, <2>2, <2>3, <2>4 DEF RecordTruthful, Over, Final
  <2> QED
    BY <2>5, <2>6
<1>14. ASSUME UNCHANGED vars PROVE Goal
  BY <1>a, <1>14 DEF vars, RecordInv, RecordTruthful
<1> QED
  BY <1>1, <1>2, <1>3, <1>4, <1>5, <1>6, <1>7, <1>8, <1>9, <1>10, <1>11, <1>12, <1>13, <1>14
  DEF Next, JobStep, Terminating

(* The history tells the truth about every finished run, for any number of *)
(* submissions, when run IDs are unique and no retry limit is negative.    *)
THEOREM HistoryTruthful ==
    ASSUME UniqueMillis, DefaultMaxRetries >= 0 PROVE Spec => []RecordTruthful
<1>1. Init => AllInv
  BY CoreInit, ResultInit, IDInit, RecordInit DEF AllInv
<1>2. AllInv /\ [Next]_vars => AllInv'
  BY CoreStep, ResultStep, IDStep, RecordStep DEF AllInv
<1>3. AllInv => RecordTruthful
  BY DEF AllInv
<1> QED
  BY <1>1, <1>2, <1>3, PTL DEF Spec

(* A final record is never written again, under the same conditions.       *)
THEOREM HistoryFinal ==
    ASSUME UniqueMillis, DefaultMaxRetries >= 0 PROVE Spec => FinalIsFinal
<1> DEFINE Kept == \A r \in RunIds : hist[r] \in Final => hist'[r] = hist[r]
<1>1. Init => AllInv
  BY CoreInit, ResultInit, IDInit, RecordInit DEF AllInv
<1>2. AllInv /\ [Next]_vars => AllInv'
  BY CoreStep, ResultStep, IDStep, RecordStep DEF AllInv
<1>3. AllInv /\ [Next]_vars => [Kept]_vars
  BY FinalKept
<1> QED
  BY <1>1, <1>2, <1>3, PTL DEF Spec, FinalIsFinal
=============================================================================
