---------------------------- MODULE Build_proofs ----------------------------
(***************************************************************************)
(* Proofs about module Build, for any processes, task files, limits of     *)
(* iterations and size of the pipe, and with it about module Workspace,    *)
(* whose steps Build composes with those of the agents.                    *)
(*                                                                         *)
(* BuildInv, the inductive invariant, is proved layer by layer.  What      *)
(* makes the properties inductive is a bookkeeping of who may still be     *)
(* wrong about a file: a setup file that is torn has a writer that is at   *)
(* it, or died or failed at it (TornForCause); a create_task that has looked and not  *)
(* written has the file it saw, or others have changed it (Looked); and a  *)
(* server that loads has read what is there, has it still to read, or      *)
(* others have changed it (LoadOK).                                        *)
(***************************************************************************)
EXTENDS Build, TLAPS

\* The iterations are counted per process and per level.
Counted == iteration \in [Procs -> [Levels -> Nat]]

\* A setup file is half-written only while its writer is at it, or after
\* the writer has died or failed at it.
TornForCause ==
    \A f \in Range(SetupFiles) :
       setup[f] = "torn" => f \in lost \/ \E q \in Procs : InSetup(q, f)

\* A create_task call lasts from the look to the write.
CallUnderWay ==
    \A p \in Procs : call[p] # NoCall <=> pc[p] \in {"openTask", "writeTask"}

\* Between the look and the write the file is as the call left it, or
\* others have changed it.
Looked ==
    \A p \in Procs :
      \/ pc[p] = "openTask" /\ ~call[p].overwrite /\ tasks[call[p].task] # "none"
      \/ pc[p] = "writeTask" /\ tasks[call[p].task] \in Kinds
      => call[p].task \in changed[p]

\* A task file that LoadTasks has listed is there: none is ever removed.
ListedIsThere == \A p \in Procs : \A t \in left[p] : tasks[t] # "none"

\* What a server has read of the task files is what is there, what is there
\* and not read is still to be read - or others have changed the file.
LoadedSoFar(p) ==
    \A t \in Tasks \ changed[p] :
      /\ \A x \in found[p] : x.task = t => x.kind = tasks[t]
      /\ tasks[t] = "none" \/ t \in left[p] \/ \E x \in found[p] : x.task = t

LoadOK ==
    \A p \in Procs :
      /\ pc[p] # "load" => found[p] = {}
      /\ pc[p] \notin {"load", "serving"} => ~warned[p]
      /\ pc[p] = "load" /\ warned[p] => found[p] = {} /\ left[p] = {}
      /\ pc[p] = "load" /\ ~warned[p] => LoadedSoFar(p)

\* The types of what the agents keep ...
AgentTyped ==
    /\ level \in [Procs -> Levels]
    /\ Counted
    /\ \A p \in Procs, l \in Levels : iteration[p][l] \in 0..MaxOf(l)
    /\ call \in [Procs -> Calls \cup {NoCall}]
    /\ pipe \in [Procs -> 0..PipeSize]
    /\ creates \in 0..MaxCreates

\* ... and of the rest.
WsTyped == WorkspaceTypeOK /\ pc \in [Procs -> PCs] /\ ListedIsThere

\* The first layer: types, and what they need.
TypeInv == BuildTypeOK /\ Counted /\ CallUnderWay /\ ListedIsThere

BuildInv ==
    /\ TypeInv
    /\ TornForCause /\ Looked
    /\ LoadOK /\ SchedulesWhatIsThere

-----------------------------------------------------------------------------
(* The setup files, as a set.                                              *)

LEMMA SetupRange ==
    /\ DOMAIN SetupFiles = 1..4
    /\ Len(SetupFiles) = 4
    /\ Range(SetupFiles) = {"config", "tools", "security", "dependencies"}
    /\ \A i \in 1..4 : SetupFiles[i] \in Range(SetupFiles)
<1>1. DOMAIN SetupFiles = 1..4 /\ Len(SetupFiles) = 4
  BY DEF SetupFiles
<1>2. /\ SetupFiles[1] = "config" /\ SetupFiles[2] = "tools"
      /\ SetupFiles[3] = "security" /\ SetupFiles[4] = "dependencies"
  BY DEF SetupFiles
<1>3. 1..4 = {1, 2, 3, 4}
  OBVIOUS
<1> QED BY <1>1, <1>2, <1>3 DEF Range

(* No definition of a task is also a mark for a file that holds none.      *)
LEMMA KindsAreWhole ==
    /\ "none" \notin Kinds \cup Unreadable
    /\ Kinds \cap Unreadable = {} /\ Unreadable = {"torn", "mixed"}
BY WorkspaceAssumption DEF AllKinds, Unreadable

(* No call is not a call.                                                  *)
LEMMA CallsAreCalls ==
    /\ NoCall \notin Calls
    /\ \A c \in Calls : c.task \in Tasks /\ c.kind \in Kinds /\ c.overwrite \in BOOLEAN
BY DEF NoCall, Calls

-----------------------------------------------------------------------------
(* Every variable holds a value the program can hold.                      *)

LEMMA TypeInvParts == TypeInv <=> WsTyped /\ AgentTyped /\ CallUnderWay
BY DEF TypeInv, BuildTypeOK, WsTyped, AgentTyped

LEMMA TypeInvInit == BuildInit => TypeInv
<1> SUFFICES ASSUME BuildInit PROVE TypeInv
  OBVIOUS
<1> USE DEF BuildInit, WorkspaceInit
<1>1. WorkspaceTypeOK
  BY SetupRange, WorkspaceAssumption DEF WorkspaceTypeOK, Running, Endings
<1>2. Counted /\ \A p \in Procs, l \in Levels : iteration[p][l] \in 0..MaxOf(l)
  BY BuildAssumption DEF Counted, NoIterations, MaxOf
<1>3. BuildTypeOK
  BY <1>1, <1>2, BuildAssumption DEF BuildTypeOK, PCs, Endings, Levels
<1>4. CallUnderWay /\ ListedIsThere
  BY DEF CallUnderWay, ListedIsThere
<1> QED BY <1>2, <1>3, <1>4 DEF TypeInv

(* A process that ends leaves what Workspace says of it well typed ...     *)
LEMMA LeavesTyped ==
    ASSUME TypeInv, NEW p \in Procs, NEW end \in Endings, Leaves(p, end),
           lost' \subseteq Range(SetupFiles)
    PROVE  WsTyped'
<1> USE DEF TypeInv, BuildTypeOK, WorkspaceTypeOK, ListedIsThere, Leaves, PCs, WsTyped
<1>1. pc' \in [Procs -> PCs] /\ ListedIsThere'
  OBVIOUS
<1>2. /\ setup' \in [Range(SetupFiles) -> {"none", "torn", "whole"}]
      /\ tasks' \in [Tasks -> Kinds \cup {"none"} \cup Unreadable]
      /\ starts' \in 0..MaxStarts
  OBVIOUS
<1>3. /\ cmd' \in [Procs -> Commands \cup {"none"}]
      /\ \A q \in Procs : cmd'[q] = "none" <=> pc'[q] \in Endings
  BY DEF Running, Endings
<1>4. at' \in [Procs -> DOMAIN SetupFiles]
  BY SetupRange
<1>5. /\ left' \in [Procs -> SUBSET Tasks]
      /\ found' \in [Procs -> SUBSET [task : Tasks, kind : Kinds]]
      /\ schedule' \in [Procs -> SUBSET Tasks]
      /\ warned' \in [Procs -> BOOLEAN]
      /\ changed' \in [Procs -> SUBSET Tasks]
  OBVIOUS
<1> QED BY <1>1, <1>2, <1>3, <1>4, <1>5 DEF Running, Endings

(* ... and so does one that goes on without another effect on it.          *)
LEMMA MovesTyped ==
    ASSUME TypeInv, NEW p \in Procs, Running(p),
           NEW to \in PCs \ Endings, Goto(p, to),
           UNCHANGED <<setup, tasks, changed, lost, bootVars>>
    PROVE  WsTyped'
BY DEF TypeInv, BuildTypeOK, WorkspaceTypeOK, ListedIsThere, Goto, PCs, Running, Endings, bootVars,
       WsTyped

(* A process that has no create_task under way before or after a step has  *)
(* not one under way because of it.                                        *)
LEMMA CallKept ==
    ASSUME TypeInv, NEW p \in Procs, NEW to, Goto(p, to), call' = call,
           \/ {pc[p], to} \cap {"openTask", "writeTask"} = {}
           \/ {pc[p], to} \subseteq {"openTask", "writeTask"}
    PROVE  CallUnderWay'
BY DEF TypeInv, BuildTypeOK, CallUnderWay, Goto

(* Counting an iteration, while there is one left.                         *)
LEMMA CountedOn ==
    ASSUME TypeInv, NEW p \in Procs, NEW l \in Levels, iteration[p][l] < MaxOf(l),
           iteration' = [iteration EXCEPT ![p][l] = @ + 1]
    PROVE  Counted' /\ \A q \in Procs, m \in Levels : iteration'[q][m] \in 0..MaxOf(m)
<1> USE BuildAssumption DEF TypeInv, BuildTypeOK, Counted, MaxOf
<1>1. Counted'
  OBVIOUS
<1>2. ASSUME NEW q \in Procs, NEW m \in Levels PROVE iteration'[q][m] \in 0..MaxOf(m)
  <2>1. iteration'[q][m] = IF q = p /\ m = l THEN iteration[p][l] + 1 ELSE iteration[q][m]
    OBVIOUS
  <2>2. iteration[q][m] \in 0..MaxOf(m) /\ iteration[p][l] \in Nat /\ MaxOf(l) \in Nat
    OBVIOUS
  <2> QED BY <2>1, <2>2
<1> QED BY <1>1, <1>2

(* Starting to count again, on one level or on both.                       *)
LEMMA CountedAgain ==
    ASSUME TypeInv, NEW p \in Procs,
           \/ iteration' = [iteration EXCEPT ![p] = NoIterations]
           \/ iteration' = [iteration EXCEPT ![p].test = 0]
    PROVE  Counted' /\ \A q \in Procs, m \in Levels : iteration'[q][m] \in 0..MaxOf(m)
<1> USE BuildAssumption DEF TypeInv, BuildTypeOK, Counted, MaxOf, NoIterations, Levels
<1>1. Counted'
  OBVIOUS
<1>2. ASSUME NEW q \in Procs, NEW m \in Levels PROVE iteration'[q][m] \in 0..MaxOf(m)
  <2>1. iteration'[q][m] = iteration[q][m] \/ iteration'[q][m] = 0
    OBVIOUS
  <2> QED BY <2>1
<1> QED BY <1>1, <1>2

(* A step that is none of the agents'.                                     *)
LEMMA BootTyped ==
    ASSUME TypeInv, NEW p \in Procs, NEW to, to \notin {"openTask", "writeTask"}, Goto(p, to),
           pc[p] \notin {"openTask", "writeTask"}, WsTyped', UNCHANGED agentVars
    PROVE  TypeInv'
BY TypeInvParts, CallKept
   DEF agentVars, AgentTyped, Counted, TypeInv, WsTyped, BuildTypeOK

LEMMA TypeInvStep == TypeInv /\ [BuildNext]_allVars => TypeInv'
<1> SUFFICES ASSUME TypeInv, [BuildNext]_allVars PROVE TypeInv'
  OBVIOUS
<1>0. /\ WsTyped /\ AgentTyped /\ CallUnderWay
      /\ WsTyped' /\ AgentTyped' /\ CallUnderWay' => TypeInv'
  BY DEF TypeInv, BuildTypeOK, WsTyped, AgentTyped
<1>1. ASSUME NEW p \in Procs, NEW c \in Commands, Start(p, c), UNCHANGED agentVars
      PROVE  TypeInv'
  <2>1. WsTyped'
    BY <1>0, <1>1, WorkspaceAssumption
       DEF WsTyped, WorkspaceTypeOK, ListedIsThere, Start, Commands, Running, Endings, PCs
  <2> QED BY <1>1, <2>1, BootTyped DEF Start, Goto, Running, Endings
<1>2. ASSUME NEW p \in Procs, OpenSetup(p), UNCHANGED agentVars PROVE TypeInv'
  <2>1. WsTyped'
    BY <1>0, <1>2, SetupRange
       DEF WsTyped, WorkspaceTypeOK, ListedIsThere, OpenSetup, File, Running, Endings, PCs, bootVars
  <2> QED BY <1>2, <2>1, BootTyped DEF OpenSetup, Goto
<1>3. ASSUME NEW p \in Procs, WriteSetup(p), UNCHANGED agentVars PROVE TypeInv'
  <2> USE <1>0, <1>3, SetupRange DEF WsTyped, WorkspaceTypeOK
  <2>1. /\ pc' \in [Procs -> PCs] /\ ListedIsThere'
        /\ left' = left /\ found' = found /\ schedule' = schedule /\ warned' = warned
        /\ changed' = changed /\ starts' = starts /\ tasks' = tasks
        /\ lost' \subseteq Range(SetupFiles)
    BY DEF WriteSetup, ListedIsThere, PCs, Endings
  <2>2. setup' \in [Range(SetupFiles) -> {"none", "torn", "whole"}]
    BY DEF WriteSetup, File
  <2>3. at' \in [Procs -> DOMAIN SetupFiles]
    BY DEF WriteSetup
  <2>4. /\ cmd' \in [Procs -> Commands \cup {"none"}]
        /\ \A q \in Procs : cmd'[q] = "none" <=> pc'[q] \in Endings
    BY DEF WriteSetup, Running, Endings
  <2>5. WsTyped'
    BY <2>1, <2>2, <2>3, <2>4 DEF Running, Endings
  <2> QED BY <2>5, BootTyped DEF WriteSetup, Goto
<1>4. ASSUME NEW p \in Procs, ReadConfig(p), UNCHANGED agentVars PROVE TypeInv'
  <2>1. CASE Leaves(p, "refused") /\ UNCHANGED lost
    BY <1>0, <1>4, <2>1, LeavesTyped, BootTyped
       DEF ReadConfig, Endings, Goto, WsTyped, WorkspaceTypeOK, Leaves
  <2>2. CASE Goto(p, "security") /\ UNCHANGED <<setup, tasks, changed, lost, bootVars>>
    BY <1>4, <2>2, MovesTyped, BootTyped DEF ReadConfig, Running, Endings, PCs
  <2> QED BY <1>4, <2>1, <2>2 DEF ReadConfig, Goto
<1>5. ASSUME NEW p \in Procs, ReadSecurity(p), UNCHANGED agentVars PROVE TypeInv'
  <2>1. CASE Leaves(p, "refused") /\ UNCHANGED lost
    BY <1>0, <1>5, <2>1, LeavesTyped, BootTyped
       DEF ReadSecurity, Endings, Goto, WsTyped, WorkspaceTypeOK, Leaves
  <2>2. CASE Goto(p, "dependencies") /\ UNCHANGED <<setup, tasks, changed, lost, bootVars>>
    BY <1>5, <2>2, MovesTyped, BootTyped DEF ReadSecurity, Running, Endings, PCs
  <2> QED BY <1>5, <2>1, <2>2 DEF ReadSecurity, Goto
<1>6. ASSUME NEW p \in Procs, ReadDependencies(p), UNCHANGED agentVars PROVE TypeInv'
  <2>1. CASE Leaves(p, "refused") /\ UNCHANGED lost
    BY <1>0, <1>6, <2>1, LeavesTyped, BootTyped
       DEF ReadDependencies, Endings, Goto, WsTyped, WorkspaceTypeOK, Leaves
  <2>2. ASSUME NEW to \in {"model", "list"}, Goto(p, to),
               UNCHANGED <<setup, tasks, changed, lost, bootVars>>
        PROVE  TypeInv'
    BY <1>6, <2>2, MovesTyped, BootTyped DEF ReadDependencies, Running, Endings, PCs
  <2> QED BY <1>6, <2>1, <2>2 DEF ReadDependencies, Goto
<1>7. ASSUME NEW p \in Procs, ListTasks(p), UNCHANGED agentVars PROVE TypeInv'
  <2>1. /\ left' \in [Procs -> SUBSET Tasks] /\ warned' \in [Procs -> BOOLEAN]
        /\ ListedIsThere'
    <3>1. /\ left \in [Procs -> SUBSET Tasks] /\ warned \in [Procs -> BOOLEAN]
          /\ ListedIsThere /\ tasks' = tasks
      BY <1>0, <1>7 DEF WsTyped, WorkspaceTypeOK, ListTasks
    <3>2. \/ /\ left' = [left EXCEPT ![p] = {t \in Tasks : tasks[t] # "none"}]
             /\ warned' = warned
          \/ /\ left' = [left EXCEPT ![p] = {}]
             /\ warned' = [warned EXCEPT ![p] = TRUE]
      BY <1>7 DEF ListTasks
    <3>3. \A q \in Procs : left'[q] = left[q] \/ \A t \in left'[q] : tasks[t] # "none"
      BY <3>1, <3>2
    <3>4. left' \in [Procs -> SUBSET Tasks] /\ warned' \in [Procs -> BOOLEAN]
      BY <3>1, <3>2
    <3> QED BY <3>1, <3>3, <3>4 DEF ListedIsThere
  <2>2. WsTyped'
    BY <1>0, <1>7, <2>1 DEF WsTyped, WorkspaceTypeOK, ListTasks, Running, Endings, PCs
  <2> QED BY <1>7, <2>2, BootTyped DEF ListTasks, Goto
<1>8. ASSUME NEW p \in Procs, NEW t \in Tasks, LoadTask(p, t), UNCHANGED agentVars
      PROVE  TypeInv'
  <2> USE <1>0, <1>8 DEF WsTyped, WorkspaceTypeOK
  <2>1. /\ pc' = pc /\ setup' = setup /\ tasks' = tasks /\ cmd' = cmd /\ at' = at
        /\ schedule' = schedule /\ changed' = changed /\ lost' = lost /\ starts' = starts
    BY DEF LoadTask
  <2>2. left' = [left EXCEPT ![p] = {}] \/ left' = [left EXCEPT ![p] = @ \ {t}]
    BY DEF LoadTask
  <2>3. \A q \in Procs : left'[q] \subseteq left[q]
    BY <2>2
  <2>4. left' \in [Procs -> SUBSET Tasks]
    BY <2>2
  <2>5. warned' \in [Procs -> BOOLEAN]
    BY DEF LoadTask
  <2>6. ListedIsThere'
    BY <2>1, <2>3 DEF ListedIsThere
  <2>7. tasks[t] \notin Unreadable => [task |-> t, kind |-> tasks[t]] \in [task : Tasks, kind : Kinds]
    BY DEF LoadTask, ListedIsThere
  <2>8. found' \in [Procs -> SUBSET [task : Tasks, kind : Kinds]]
    BY <2>7 DEF LoadTask
  <2>9. WsTyped'
    BY <2>1, <2>4, <2>5, <2>6, <2>8 DEF Running, Endings
  <2> QED BY <2>1, <2>9, BootTyped DEF LoadTask, Goto
<1>9. ASSUME NEW p \in Procs, LoadSchedule(p), UNCHANGED agentVars PROVE TypeInv'
  <2>1. CASE Leaves(p, "refused") /\ UNCHANGED lost
    BY <1>0, <1>9, <2>1, LeavesTyped, BootTyped
       DEF LoadSchedule, Endings, Goto, WsTyped, WorkspaceTypeOK, Leaves
  <2>2. CASE ~ \E x \in found[p] : x.kind = "unparsable"
    <3> USE <1>0, <1>9, <2>2 DEF WsTyped, WorkspaceTypeOK
    <3>1. /\ schedule' \in [Procs -> SUBSET Tasks]
          /\ found' \in [Procs -> SUBSET [task : Tasks, kind : Kinds]]
      BY DEF LoadSchedule
    <3>2. WsTyped'
      BY <3>1 DEF LoadSchedule, ListedIsThere, Running, Endings, PCs
    <3> QED BY <3>2, BootTyped DEF LoadSchedule, Goto
  <2> QED BY <1>9, <2>1, <2>2 DEF LoadSchedule
<1>10. ASSUME NEW p \in Procs, CallModel(p) PROVE TypeInv'
  <2>1. PICK to \in {"tool", "print"} : Goto(p, to)
    BY <1>10 DEF CallModel
  <2>2. WsTyped' /\ CallUnderWay'
    BY <1>10, <2>1, MovesTyped, CallKept DEF CallModel, Running, Endings, PCs
  <2>3. AgentTyped'
    BY <1>0, <1>10, CountedOn DEF CallModel, AgentTyped
  <2> QED BY <1>0, <2>2, <2>3
<1>11. ASSUME NEW p \in Procs, WrapUp(p) PROVE TypeInv'
  <2>1. WsTyped'
    BY <1>11, MovesTyped DEF WrapUp, Running, Endings, PCs
  <2> QED BY <1>11, <2>1, BootTyped DEF WrapUp
<1>12. ASSUME NEW p \in Procs, PrintText(p) PROVE TypeInv'
  <2>1. PICK to \in {"tool", "restore"} : Goto(p, to)
    BY <1>12 DEF PrintText
  <2>2. WsTyped' /\ CallUnderWay'
    BY <1>12, <2>1, MovesTyped, CallKept DEF PrintText, Running, Endings, PCs
  <2>3. AgentTyped'
    BY <1>0, <1>12, BuildAssumption DEF PrintText, AgentTyped, Counted
  <2> QED BY <1>0, <2>2, <2>3
<1>13. ASSUME NEW p \in Procs, pc[p] \in {"model", "tool"}, Ends(p) PROVE TypeInv'
  <2>1. CASE level[p] = "build" /\ Leaves(p, "off")
    <3>1. Goto(p, "off") /\ call' = call
      BY <1>13, <2>1 DEF Ends, Leaves, Goto
    <3>2. WsTyped' /\ CallUnderWay'
      BY <1>0, <1>13, <2>1, <3>1, LeavesTyped, CallKept DEF Ends, Endings, WsTyped, WorkspaceTypeOK
    <3>3. AgentTyped'
      BY <1>0, <1>13, <2>1, CountedAgain DEF Ends, AgentTyped
    <3> QED BY <1>0, <3>2, <3>3
  <2>2. CASE Goto(p, "restore") /\ UNCHANGED <<setup, tasks, changed, lost, bootVars, agentVars>>
    BY <1>13, <2>2, MovesTyped, BootTyped DEF Running, Endings, PCs
  <2> QED BY <1>13, <2>1, <2>2 DEF Ends
<1>14. ASSUME NEW p \in Procs, OtherTool(p) PROVE TypeInv'
  <2>1. WsTyped'
    BY <1>14, MovesTyped DEF OtherTool, Running, Endings, PCs
  <2> QED BY <1>14, <2>1, BootTyped DEF OtherTool
<1>15. ASSUME NEW p \in Procs, NEW c \in Calls, Stat(p, c) PROVE TypeInv'
  <2>1. CASE tasks[c.task] # "none" /\ ~c.overwrite
    <3>1. WsTyped'
      BY <1>15, <2>1, MovesTyped DEF Stat, Running, Endings, PCs
    <3> QED BY <1>15, <2>1, <3>1, BootTyped DEF Stat, agentVars
  <2>2. CASE ~(tasks[c.task] # "none" /\ ~c.overwrite)
    <3>1. WsTyped'
      BY <1>0, <1>15, <2>2
         DEF Stat, WsTyped, WorkspaceTypeOK, ListedIsThere, Running, Endings, PCs, Goto, bootVars
    <3>2. AgentTyped'
      BY <1>0, <1>15, <2>2, BuildAssumption DEF Stat, AgentTyped, Counted
    <3>3. CallUnderWay'
      BY <1>0, <1>15, <2>2, CallsAreCalls
         DEF Stat, CallUnderWay, Goto, AgentTyped, WsTyped
    <3> QED BY <1>0, <3>1, <3>2, <3>3
  <2> QED BY <2>1, <2>2
<1>16. ASSUME NEW p \in Procs, OpenTask(p) PROVE TypeInv'
  <2>0. call[p].task \in Tasks
    BY <1>0, <1>16, CallsAreCalls DEF OpenTask, CallUnderWay, AgentTyped
  <2>1. WsTyped'
    BY <1>0, <1>16, <2>0, KindsAreWhole
       DEF OpenTask, PutTask, WsTyped, WorkspaceTypeOK, ListedIsThere, Running, Endings, PCs, Goto,
           bootVars
  <2>2. CallUnderWay'
    BY <1>16, CallKept DEF OpenTask, agentVars
  <2> QED BY <1>0, <1>16, <2>1, <2>2 DEF OpenTask, agentVars, AgentTyped, Counted
<1>17. ASSUME NEW p \in Procs, WriteTask(p) \/ WriteTaskFails(p) PROVE TypeInv'
  <2>1. call[p] \in Calls /\ call[p].task \in Tasks
    BY <1>0, <1>17, CallsAreCalls DEF WriteTask, WriteTaskFails, CallUnderWay, AgentTyped
  <2>2. /\ tasks' \in [Tasks -> Kinds \cup {"none"} \cup Unreadable]
        /\ changed' \in [Procs -> SUBSET Tasks]
        /\ \A t \in Tasks : tasks[t] # "none" => tasks'[t] # "none"
    <3>1. CASE changed' = [changed EXCEPT ![p] = {}] /\ UNCHANGED tasks
      BY <1>0, <3>1 DEF WsTyped, WorkspaceTypeOK
    <3>2. ASSUME NEW content \in Kinds \cup Unreadable, PutTask(p, call[p].task, content)
          PROVE  <2>2
      BY <1>0, <2>1, <3>2, KindsAreWhole DEF PutTask, WsTyped, WorkspaceTypeOK
    <3>3. call[p].kind \in Kinds /\ "mixed" \in Unreadable
      BY <2>1, CallsAreCalls, KindsAreWhole
    <3> QED BY <1>17, <3>1, <3>2, <3>3 DEF WriteTask, WriteTaskFails
  <2>3. WsTyped'
    BY <1>0, <1>17, <2>2
       DEF WriteTask, WriteTaskFails, WsTyped, WorkspaceTypeOK, ListedIsThere, Running, Endings,
           PCs, Goto, bootVars
  <2>4. AgentTyped'
    BY <1>0, <1>17 DEF WriteTask, WriteTaskFails, AgentTyped, Counted
  <2>5. CallUnderWay'
    BY <1>0, <1>17 DEF WriteTask, WriteTaskFails, CallUnderWay, Goto, AgentTyped, WsTyped
  <2> QED BY <1>0, <2>3, <2>4, <2>5
<1>18. ASSUME NEW p \in Procs, NEW t \in Tasks, TestTask(p, t) PROVE TypeInv'
  <2>1. WsTyped' /\ CallUnderWay'
    BY <1>18, MovesTyped, CallKept DEF TestTask, Running, Endings, PCs
  <2>2. AgentTyped'
    BY <1>0, <1>18 DEF TestTask, AgentTyped, Counted, Levels
  <2> QED BY <1>0, <2>1, <2>2
<1>19. ASSUME NEW p \in Procs, Restore(p) PROVE TypeInv'
  <2>1. WsTyped' /\ CallUnderWay'
    BY <1>19, MovesTyped, CallKept DEF Restore, Running, Endings, PCs
  <2>2. AgentTyped'
    <3>1. "build" \in Levels
      BY DEF Levels
    <3>2. Counted' /\ \A q \in Procs, m \in Levels : iteration'[q][m] \in 0..MaxOf(m)
      BY <1>19, CountedAgain DEF Restore
    <3>3. 0 \in 0..PipeSize
      BY BuildAssumption
    <3> QED BY <1>0, <1>19, <3>1, <3>2, <3>3 DEF Restore, AgentTyped
  <2> QED BY <1>0, <2>1, <2>2
<1>20. ASSUME NEW p \in Procs, Die(p) PROVE TypeInv'
  <2>1. WsTyped'
    BY <1>0, <1>20, LeavesTyped DEF Die, Endings, WsTyped, WorkspaceTypeOK
  <2>2. AgentTyped'
    <3>1. "build" \in Levels
      BY DEF Levels
    <3>2. Counted' /\ \A q \in Procs, m \in Levels : iteration'[q][m] \in 0..MaxOf(m)
      BY <1>20, CountedAgain DEF Die
    <3>3. 0 \in 0..PipeSize
      BY BuildAssumption
    <3> QED BY <1>0, <1>20, <3>1, <3>2, <3>3 DEF Die, AgentTyped
  <2>3. CallUnderWay'
    BY <1>0, <1>20 DEF Die, Leaves, CallUnderWay, AgentTyped, WsTyped
  <2> QED BY <1>0, <2>1, <2>2, <2>3
<1>21. ASSUME NEW p \in Procs, DiskFails(p), UNCHANGED agentVars PROVE TypeInv'
  <2>1. WsTyped'
    BY <1>0, <1>21, LeavesTyped DEF DiskFails, Endings, WsTyped, WorkspaceTypeOK
  <2> QED BY <1>0, <1>21, <2>1, BootTyped DEF DiskFails, Leaves, Goto, WsTyped
<1>22. CASE UNCHANGED allVars
  BY <1>0, <1>22
     DEF allVars, wsVars, bootVars, agentVars, WsTyped, WorkspaceTypeOK, ListedIsThere,
         AgentTyped, Counted, CallUnderWay, Running, Endings
<1> QED
  BY <1>1, <1>2, <1>3, <1>4, <1>5, <1>6, <1>7, <1>8, <1>9, <1>10, <1>11, <1>12, <1>13,
     <1>14, <1>15, <1>16, <1>17, <1>18, <1>19, <1>20, <1>21, <1>22
     DEF BuildNext, ProcStep, Boot, Agent, Stop, Answer

-----------------------------------------------------------------------------
(* A step of one process, and what the others find of theirs after it.     *)

StepOf(p) ==
    \/ (\E c \in Commands : Start(p, c)) /\ UNCHANGED agentVars
    \/ ProcStep(p)
    \/ Die(p)

\* What process q keeps for itself.
SameOf(q) ==
    /\ pc'[q] = pc[q] /\ cmd'[q] = cmd[q] /\ at'[q] = at[q] /\ left'[q] = left[q]
    /\ found'[q] = found[q] /\ schedule'[q] = schedule[q] /\ warned'[q] = warned[q]
    /\ level'[q] = level[q] /\ call'[q] = call[q]

\* A task file that changes is marked for those that have looked.
Marked(q) ==
    /\ changed[q] \subseteq changed'[q]
    /\ \A t \in Tasks : HasLooked(q) /\ tasks'[t] # tasks[t] => t \in changed'[q]

LEMMA OthersKept ==
    ASSUME TypeInv, NEW p \in Procs, StepOf(p), NEW q \in Procs, q # p
    PROVE  SameOf(q) /\ Marked(q)
<1>0. /\ pc \in [Procs -> PCs] /\ cmd \in [Procs -> Commands \cup {"none"}]
      /\ at \in [Procs -> DOMAIN SetupFiles] /\ left \in [Procs -> SUBSET Tasks]
      /\ found \in [Procs -> SUBSET [task : Tasks, kind : Kinds]]
      /\ schedule \in [Procs -> SUBSET Tasks] /\ warned \in [Procs -> BOOLEAN]
      /\ changed \in [Procs -> SUBSET Tasks]
      /\ tasks \in [Tasks -> Kinds \cup {"none"} \cup Unreadable]
      /\ level \in [Procs -> Levels] /\ call \in [Procs -> Calls \cup {NoCall}]
  BY DEF TypeInv, BuildTypeOK, WorkspaceTypeOK
<1> USE DEF SameOf, bootVars, wsVars, agentVars, Goto
<1>1. ASSUME NEW end, Leaves(p, end), UNCHANGED <<level, call>>
      PROVE  SameOf(q) /\ Marked(q)
  BY <1>0, <1>1 DEF Leaves, Marked
<1>2. ASSUME NEW t \in Tasks, NEW content, PutTask(p, t, content)
      PROVE  Marked(q)
  BY <1>0, <1>2 DEF PutTask, Marked
<1>3. UNCHANGED <<tasks, changed>> => Marked(q)
  BY DEF Marked
<1>4. ASSUME NEW c \in Commands, Start(p, c), UNCHANGED agentVars
      PROVE  SameOf(q) /\ Marked(q)
  BY <1>0, <1>3, <1>4 DEF Start
<1>5. CASE Boot(p) /\ UNCHANGED agentVars
  <2>1. CASE OpenSetup(p) \/ WriteSetup(p)
    BY <1>0, <1>3, <1>5, <2>1 DEF OpenSetup, WriteSetup
  <2>2. CASE ReadConfig(p) \/ ReadSecurity(p) \/ ReadDependencies(p)
    BY <1>0, <1>1, <1>3, <1>5, <2>2 DEF ReadConfig, ReadSecurity, ReadDependencies
  <2>3. CASE ListTasks(p)
    BY <1>0, <1>5, <2>3 DEF ListTasks, Marked
  <2>4. ASSUME NEW t \in Tasks, LoadTask(p, t) PROVE SameOf(q) /\ Marked(q)
    BY <1>0, <1>3, <1>5, <2>4 DEF LoadTask
  <2>5. CASE LoadSchedule(p)
    BY <1>0, <1>1, <1>3, <1>5, <2>5 DEF LoadSchedule
  <2>6. CASE DiskFails(p)
    BY <1>1, <1>5, <2>6 DEF DiskFails
  <2> QED BY <1>5, <2>1, <2>2, <2>3, <2>4, <2>5, <2>6 DEF Boot
<1>6. CASE Agent(p)
  <2>1. CASE CallModel(p) \/ WrapUp(p) \/ PrintText(p) \/ OtherTool(p) \/ Restore(p)
    BY <1>0, <1>3, <2>1 DEF CallModel, WrapUp, PrintText, OtherTool, Restore
  <2>2. CASE Stop(p) \/ Answer(p)
    BY <1>0, <1>1, <1>3, <2>2 DEF Stop, Answer, Ends
  <2>3. ASSUME NEW c \in Calls, Stat(p, c) PROVE SameOf(q) /\ Marked(q)
    BY <1>0, <2>3 DEF Stat, Marked
  <2>4. CASE OpenTask(p) \/ WriteTask(p) \/ WriteTaskFails(p)
    <3>1. call[p] \in Calls
      BY <1>0, <2>4 DEF OpenTask, WriteTask, WriteTaskFails, TypeInv, CallUnderWay
    <3>2. \/ \E content : PutTask(p, call[p].task, content)
          \/ changed' = [changed EXCEPT ![p] = {}] /\ UNCHANGED tasks
      BY <2>4 DEF OpenTask, WriteTask, WriteTaskFails
    <3>3. Marked(q)
      BY <1>0, <1>2, <3>1, <3>2, CallsAreCalls DEF Marked
    <3> QED BY <1>0, <2>4, <3>3 DEF OpenTask, WriteTask, WriteTaskFails
  <2>5. ASSUME NEW t \in Tasks, TestTask(p, t) PROVE SameOf(q) /\ Marked(q)
    BY <1>0, <1>3, <2>5 DEF TestTask
  <2> QED BY <1>6, <2>1, <2>2, <2>3, <2>4, <2>5 DEF Agent
<1>7. CASE Die(p)
  <2>1. SameOf(q)
    BY <1>0, <1>7 DEF Die, Leaves
  <2>2. Marked(q)
    BY <1>0, <1>7 DEF Die, Leaves, Marked
  <2> QED BY <2>1, <2>2
<1> QED BY <1>4, <1>5, <1>6, <1>7 DEF StepOf, ProcStep

-----------------------------------------------------------------------------
(* The setup files: one that is torn has somebody to blame.                *)
LEMMA TornStep == TypeInv /\ TornForCause /\ [BuildNext]_allVars => TornForCause'
<1> SUFFICES ASSUME TypeInv, TornForCause, [BuildNext]_allVars,
                    NEW f \in Range(SetupFiles), setup'[f] = "torn"
             PROVE  f \in lost' \/ \E q \in Procs : InSetup(q, f)'
  BY DEF TornForCause
<1>0. /\ setup \in [Range(SetupFiles) -> {"none", "torn", "whole"}]
      /\ pc \in [Procs -> PCs] /\ at \in [Procs -> 1..4]
      /\ \A q \in Procs : File(q) \in Range(SetupFiles)
  BY SetupRange DEF TypeInv, BuildTypeOK, WorkspaceTypeOK, File
<1>1. ASSUME NEW p \in Procs, StepOf(p)
      PROVE  f \in lost' \/ \E q \in Procs : InSetup(q, f)'
  <2>0. \A q \in Procs : q # p /\ InSetup(q, f) => InSetup(q, f)'
    BY <1>1, OthersKept DEF SameOf, InSetup, File
  <2>1. CASE setup' = setup /\ lost' = lost /\ pc[p] # "write"
    BY <2>0, <2>1 DEF TornForCause, InSetup
  <2>2. CASE OpenSetup(p)
    <3>1. CASE f = File(p)
      BY <1>0, <2>2, <3>1 DEF OpenSetup, InSetup, File, bootVars
    <3>2. CASE f # File(p)
      BY <1>0, <2>0, <2>2, <3>2 DEF OpenSetup, TornForCause, InSetup, File, bootVars
    <3> QED BY <3>1, <3>2
  <2>3. CASE WriteSetup(p)
    <3>1. f # File(p) /\ setup[f] = "torn"
      BY <1>0, <2>3 DEF WriteSetup
    <3> QED BY <2>0, <2>3, <3>1 DEF WriteSetup, TornForCause, InSetup
  <2>4. CASE Die(p) \/ DiskFails(p)
    <3>1. setup' = setup
      BY <2>4 DEF Die, DiskFails, Leaves
    <3> QED BY <2>0, <2>4, <3>1 DEF Die, DiskFails, TornForCause
  <2> QED BY <1>1, <2>1, <2>2, <2>3, <2>4
        DEF StepOf, ProcStep, Boot, Agent, agentVars, bootVars, Leaves, Start, Running, Endings,
            ReadConfig, ReadSecurity, ReadDependencies, ListTasks, LoadTask, LoadSchedule,
            CallModel, WrapUp, PrintText, Stop, Answer, Ends, OtherTool, Stat, OpenTask,
            WriteTask, WriteTaskFails, PutTask, TestTask, Restore
<1>2. CASE UNCHANGED allVars
  BY <1>2 DEF allVars, wsVars, bootVars, TornForCause, InSetup, File
<1> QED BY <1>1, <1>2 DEF BuildNext, StepOf

-----------------------------------------------------------------------------
(* create_task: what a call has seen of its file.                          *)

\* What Looked says of one process.
LookedAt(p) ==
    \/ pc[p] = "openTask" /\ ~call[p].overwrite /\ tasks[call[p].task] # "none"
    \/ pc[p] = "writeTask" /\ tasks[call[p].task] \in Kinds
    => call[p].task \in changed[p]

LEMMA LookedStep == TypeInv /\ Looked /\ [BuildNext]_allVars => Looked'
<1> SUFFICES ASSUME TypeInv, Looked, [BuildNext]_allVars PROVE Looked'
  OBVIOUS
<1>0. /\ pc \in [Procs -> PCs] /\ call \in [Procs -> Calls \cup {NoCall}]
      /\ changed \in [Procs -> SUBSET Tasks] /\ tasks \in [Tasks -> Kinds \cup {"none"} \cup Unreadable]
      /\ \A q \in Procs : pc[q] \in {"openTask", "writeTask"} => call[q] \in Calls
      /\ \A q \in Procs : LookedAt(q)
  BY DEF TypeInv, BuildTypeOK, WorkspaceTypeOK, CallUnderWay, Looked, LookedAt
<1>1. ASSUME NEW p \in Procs, StepOf(p), NEW q \in Procs, q # p PROVE LookedAt(q)'
  <2>1. SameOf(q) /\ Marked(q)
    BY <1>1, OthersKept
  <2>2. CASE pc[q] \in {"openTask", "writeTask"}
    <3>1. call[q].task \in Tasks /\ HasLooked(q)
      BY <1>0, <2>2, CallsAreCalls DEF HasLooked
    <3> QED BY <1>0, <2>1, <3>1 DEF SameOf, Marked, LookedAt
  <2> QED BY <2>1, <2>2 DEF SameOf, LookedAt
<1>2. ASSUME NEW p \in Procs, StepOf(p) PROVE LookedAt(p)'
  <2>1. CASE pc'[p] \notin {"openTask", "writeTask"}
    BY <2>1 DEF LookedAt
  <2>2. ASSUME NEW c \in Calls, Stat(p, c) PROVE LookedAt(p)'
    <3>1. CASE tasks[c.task] # "none" /\ ~c.overwrite
      BY <1>0, <2>2, <3>1 DEF Stat, LookedAt, Goto
    <3>2. CASE ~(tasks[c.task] # "none" /\ ~c.overwrite)
      BY <1>0, <2>2, <3>2 DEF Stat, LookedAt, Goto
    <3> QED BY <3>1, <3>2
  <2>3. CASE OpenTask(p)
    BY <1>0, <2>3, KindsAreWhole, CallsAreCalls
       DEF OpenTask, PutTask, LookedAt, Goto, agentVars
  <2>4. CASE pc[p] \in {"openTask", "writeTask"} /\ ~OpenTask(p)
    BY <1>0, <1>2, <2>1, <2>4
       DEF StepOf, ProcStep, Boot, Agent, Start, Running, Endings, OpenSetup, WriteSetup, ReadConfig,
           ReadSecurity, ReadDependencies, ListTasks, LoadTask, LoadSchedule, CallModel, WrapUp,
           PrintText, Stop, Answer, OtherTool, Stat, WriteTask, WriteTaskFails, TestTask,
           Restore, Die, DiskFails, Leaves, Goto
  <2>5. CASE pc[p] \notin {"openTask", "writeTask"} /\ ~ \E c \in Calls : Stat(p, c)
    <3>1. pc'[p] \notin {"openTask", "writeTask"}
      BY <1>0, <1>2, <2>5
         DEF StepOf, ProcStep, Boot, Agent, Start, Running, Endings, OpenSetup, WriteSetup, ReadConfig,
             ReadSecurity, ReadDependencies, ListTasks, LoadTask, LoadSchedule, CallModel,
             WrapUp, PrintText, Stop, Answer, Ends, OtherTool, OpenTask, WriteTask,
             WriteTaskFails, TestTask, Restore, Die, DiskFails, Leaves, Goto
    <3> QED BY <2>1, <3>1
  <2> QED BY <2>2, <2>3, <2>4, <2>5
<1>3. CASE UNCHANGED allVars
  BY <1>0, <1>3 DEF allVars, wsVars, agentVars, LookedAt, Looked
<1>4. (\A q \in Procs : LookedAt(q)') => Looked'
  BY DEF Looked, LookedAt
<1> QED BY <1>1, <1>2, <1>3, <1>4 DEF BuildNext, StepOf

-----------------------------------------------------------------------------
(* A server: what it has read of the task files, and what it schedules.    *)

\* What LoadOK and SchedulesWhatIsThere say of one process.
LoadsWell(p) ==
    /\ pc[p] # "load" => found[p] = {}
    /\ pc[p] \notin {"load", "serving"} => ~warned[p]
    /\ pc[p] = "load" /\ warned[p] => found[p] = {} /\ left[p] = {}
    /\ pc[p] = "load" /\ ~warned[p] => LoadedSoFar(p)
    /\ pc[p] = "serving" =>
         IF warned[p]
           THEN schedule[p] = {}
           ELSE \A t \in Tasks \ changed[p] : t \in schedule[p] <=> tasks[t] = "scheduled"

LEMMA LoadsWellParts == LoadOK /\ SchedulesWhatIsThere <=> \A p \in Procs : LoadsWell(p)
BY DEF LoadOK, SchedulesWhatIsThere, LoadsWell

LEMMA LoadStep ==
    TypeInv /\ LoadOK /\ SchedulesWhatIsThere /\ [BuildNext]_allVars
      => LoadOK' /\ SchedulesWhatIsThere'
<1> SUFFICES ASSUME TypeInv, \A p \in Procs : LoadsWell(p), [BuildNext]_allVars
             PROVE  \A p \in Procs : LoadsWell(p)'
  BY LoadsWellParts DEF LoadOK, SchedulesWhatIsThere, LoadsWell
<1>0. /\ pc \in [Procs -> PCs] /\ left \in [Procs -> SUBSET Tasks]
      /\ found \in [Procs -> SUBSET [task : Tasks, kind : Kinds]]
      /\ schedule \in [Procs -> SUBSET Tasks] /\ warned \in [Procs -> BOOLEAN]
      /\ changed \in [Procs -> SUBSET Tasks] /\ tasks \in [Tasks -> Kinds \cup {"none"} \cup Unreadable]
      /\ ListedIsThere
  BY DEF TypeInv, BuildTypeOK, WorkspaceTypeOK
<1>1. ASSUME NEW p \in Procs, StepOf(p), NEW q \in Procs, q # p PROVE LoadsWell(q)'
  <2>1. SameOf(q) /\ Marked(q) /\ LoadsWell(q)
    BY <1>1, OthersKept
  <2>2. CASE pc[q] \notin {"load", "serving"}
    BY <2>1, <2>2 DEF SameOf, LoadsWell
  <2>3. CASE pc[q] \in {"load", "serving"}
    <3>1. \A t \in Tasks \ changed'[q] : t \in Tasks \ changed[q] /\ tasks'[t] = tasks[t]
      BY <2>1, <2>3 DEF Marked, HasLooked
    <3> QED BY <2>1, <2>3, <3>1 DEF SameOf, LoadsWell, LoadedSoFar
  <2> QED BY <2>2, <2>3
<1>2. ASSUME NEW p \in Procs, StepOf(p) PROVE LoadsWell(p)'
  <2>0. LoadsWell(p)
    OBVIOUS
  <2>1. CASE ListTasks(p)
    <3>1. /\ pc[p] = "list" /\ pc'[p] = "load" /\ tasks' = tasks /\ found' = found
          /\ found[p] = {} /\ ~warned[p]
      BY <1>0, <2>0, <2>1 DEF ListTasks, LoadsWell
    <3>2. CASE warned' = warned
      <4>1. left'[p] = {t \in Tasks : tasks[t] # "none"}
        BY <1>0, <2>1, <3>1, <3>2 DEF ListTasks
      <4> QED BY <3>1, <3>2, <4>1 DEF LoadsWell, LoadedSoFar
    <3>3. CASE /\ warned' = [warned EXCEPT ![p] = TRUE]
               /\ left' = [left EXCEPT ![p] = {}]
      <4>1. warned'[p] /\ left'[p] = {}
        BY <1>0, <3>3
      <4> QED BY <3>1, <3>3, <4>1 DEF LoadsWell
    <3> QED BY <2>1, <3>2, <3>3 DEF ListTasks
  <2>2. ASSUME NEW t \in Tasks, LoadTask(p, t) PROVE LoadsWell(p)'
    <3>1. CASE warned'[p]
      BY <1>0, <2>0, <2>2, <3>1 DEF LoadTask, LoadsWell
    <3>2. CASE ~warned'[p]
      <4>1. /\ pc' = pc /\ tasks' = tasks /\ changed' = changed /\ schedule' = schedule
            /\ warned' = warned /\ pc[p] = "load" /\ ~warned[p]
            /\ left'[p] = left[p] \ {t}
            /\ found'[p] = found[p] \cup {[task |-> t, kind |-> tasks[t]]}
        BY <1>0, <2>0, <2>2, <3>2 DEF LoadTask, LoadsWell
      <4>2. LoadedSoFar(p)'
        <5>1. ASSUME NEW u \in Tasks \ changed[p], NEW x \in found'[p], x.task = u
              PROVE  x.kind = tasks[u]
          BY <2>0, <4>1, <5>1 DEF LoadsWell, LoadedSoFar
        <5>2. ASSUME NEW u \in Tasks \ changed[p], tasks[u] # "none", u \notin left'[p]
              PROVE  \E x \in found'[p] : x.task = u
          <6>1. CASE u = t
            <7>1. [task |-> t, kind |-> tasks[t]] \in found'[p]
              BY <4>1
            <7> QED BY <6>1, <7>1
          <6>2. CASE u # t
            BY <2>0, <4>1, <5>2, <6>2 DEF LoadsWell, LoadedSoFar
          <6> QED BY <6>1, <6>2
        <5> QED BY <4>1, <5>1, <5>2 DEF LoadedSoFar
      <4> QED BY <4>1, <4>2 DEF LoadsWell
    <3> QED BY <3>1, <3>2
  <2>3. CASE LoadSchedule(p) /\ pc'[p] = "serving"
    <3>1. /\ pc[p] = "load" /\ left[p] = {} /\ warned' = warned /\ changed' = changed
          /\ tasks' = tasks /\ found'[p] = {}
          /\ schedule'[p] = {x.task : x \in {y \in found[p] : y.kind = "scheduled"}}
      BY <1>0, <2>3 DEF LoadSchedule, Leaves
    <3>2. CASE warned[p]
      BY <2>0, <2>3, <3>1, <3>2 DEF LoadsWell
    <3>3. CASE ~warned[p]
      <4>1. ASSUME NEW t \in Tasks \ changed[p]
            PROVE  t \in schedule'[p] <=> tasks[t] = "scheduled"
        BY <2>0, <3>1, <3>3, <4>1 DEF LoadsWell, LoadedSoFar
      <4> QED BY <2>3, <3>1, <3>3, <4>1 DEF LoadsWell
    <3> QED BY <3>2, <3>3
  <2>4. ASSUME NEW end \in Endings, Leaves(p, end) PROVE LoadsWell(p)'
    BY <1>0, <2>4 DEF Leaves, LoadsWell, Endings
  <2>5. CASE /\ pc'[p] \notin {"load", "serving"} /\ pc[p] \notin {"load", "serving"}
             /\ found' = found /\ warned' = warned
    BY <2>0, <2>5 DEF LoadsWell
  <2> QED
    BY <1>0, <1>2, <2>1, <2>2, <2>3, <2>4, <2>5
       DEF StepOf, ProcStep, Boot, Agent, Start, Running, Endings, OpenSetup, WriteSetup, ReadConfig,
           ReadSecurity, ReadDependencies, LoadSchedule, CallModel, WrapUp, PrintText, Stop,
           Answer, Ends, OtherTool, Stat, OpenTask, WriteTask, WriteTaskFails, PutTask, TestTask,
           Restore, Die, DiskFails, Goto, bootVars
<1>3. CASE UNCHANGED allVars
  BY <1>3 DEF allVars, wsVars, bootVars, LoadsWell, LoadedSoFar
<1> QED BY <1>1, <1>2, <1>3 DEF BuildNext, StepOf

-----------------------------------------------------------------------------
(* The inductive invariant, and what follows from it.                      *)

LEMMA BuildInvInit == BuildInit => BuildInv
<1> SUFFICES ASSUME BuildInit PROVE BuildInv
  OBVIOUS
<1> USE DEF BuildInit, WorkspaceInit
<1>1. TypeInv
  BY TypeInvInit
<1>2. TornForCause /\ Looked
  BY DEF TornForCause, Looked
<1>3. LoadOK /\ SchedulesWhatIsThere
  BY DEF LoadOK, SchedulesWhatIsThere
<1> QED BY <1>1, <1>2, <1>3 DEF BuildInv

LEMMA BuildInvStep == BuildInv /\ [BuildNext]_allVars => BuildInv'
BY TypeInvStep, TornStep, LookedStep, LoadStep DEF BuildInv

LEMMA BuildInvAlways == BuildSpec => []BuildInv
BY BuildInvInit, BuildInvStep, PTL DEF BuildSpec

(* The variables of the processes, of their agents and of the directory    *)
(* hold values the program can hold: neither agent exceeds its iterations, *)
(* the pipe its size, and a server keeps nothing it has not read.          *)
THEOREM BuildTypeCorrect == BuildSpec => []BuildTypeOK
BY BuildInvAlways, PTL DEF BuildInv, TypeInv

(* A server has in its schedule the scheduled tasks whose files nobody has *)
(* touched since it listed them, and no other, or has warned and has none. *)
THEOREM ScheduleCorrect == BuildSpec => []SchedulesWhatIsThere
BY BuildInvAlways, PTL DEF BuildInv

LEMMA NoClobberStep ==
    ASSUME BuildInv, [BuildNext]_allVars, NEW t \in Tasks, tasks[t] \in Kinds,
           tasks'[t] # tasks[t]
    PROVE  \E p \in Procs : /\ call[p] # NoCall /\ call[p].task = t
                            /\ call[p].overwrite \/ t \in changed[p]
<1>0. /\ tasks \in [Tasks -> Kinds \cup {"none"} \cup Unreadable] /\ CallUnderWay /\ Looked
      /\ call \in [Procs -> Calls \cup {NoCall}]
  BY DEF BuildInv, TypeInv, BuildTypeOK, WorkspaceTypeOK
<1>1. PICK p \in Procs : OpenTask(p) \/ WriteTask(p) \/ WriteTaskFails(p)
  BY DEF BuildNext, ProcStep, Boot, Agent, allVars, wsVars, bootVars, Start, OpenSetup,
         WriteSetup, ReadConfig, ReadSecurity, ReadDependencies, ListTasks, LoadTask,
         LoadSchedule, CallModel, WrapUp, PrintText, Stop, Answer, Ends, OtherTool, Stat,
         TestTask, Restore, Die, DiskFails, Leaves
<1>2. pc[p] \in {"openTask", "writeTask"} /\ call[p] # NoCall /\ call[p] \in Calls
  BY <1>0, <1>1 DEF OpenTask, WriteTask, WriteTaskFails, CallUnderWay
<1>3. call[p].task = t
  BY <1>0, <1>1, <1>2, CallsAreCalls DEF OpenTask, WriteTask, WriteTaskFails, PutTask
<1>4. call[p].overwrite \/ t \in changed[p]
  BY <1>0, <1>2, <1>3, KindsAreWhole DEF Looked
<1> QED BY <1>2, <1>3, <1>4

(* A whole task file is replaced only by a call told to overwrite it, or   *)
(* after another process wrote it between the look and the write:          *)
(* create_task's os.Stat keeps a builder alone from destroying a task.     *)
THEOREM NoClobberCorrect == BuildSpec => NoClobber
<1>1. BuildInv /\ [BuildNext]_allVars =>
        [\A t \in Tasks : tasks[t] \in Kinds /\ tasks'[t] # tasks[t] =>
           \E p \in Procs : /\ call[p] # NoCall /\ call[p].task = t
                            /\ call[p].overwrite \/ t \in changed[p]]_allVars
  BY NoClobberStep
<1> QED BY <1>1, BuildInvAlways, PTL DEF BuildSpec, NoClobber

LEMMA RefusedStep ==
    ASSUME BuildInv, [BuildNext]_allVars, NEW p \in Procs, Running(p), pc'[p] = "refused"
    PROVE  \/ \E f \in {"config", "security", "dependencies"} :
                 f \in lost \/ \E q \in Procs : InSetup(q, f)
           \/ \E x \in found[p] : x.kind = "unparsable"
<1>0. pc \in [Procs -> PCs] /\ TornForCause /\ TypeInv
  BY DEF BuildInv, TypeInv, BuildTypeOK
<1>1. CASE \E f \in {"config", "security", "dependencies"} : setup[f] = "torn"
  BY <1>0, <1>1, SetupRange DEF TornForCause
<1>2. PICK q \in Procs : StepOf(q)
  BY DEF BuildNext, StepOf, allVars, wsVars, Running, Endings
<1>3. q = p
  BY <1>0, <1>2, OthersKept DEF SameOf, Running, Endings
<1>4. ReadConfig(p) \/ ReadSecurity(p) \/ ReadDependencies(p) \/ LoadSchedule(p)
  BY <1>0, <1>2, <1>3
     DEF StepOf, ProcStep, Boot, Agent, Start, Running, Endings, OpenSetup, WriteSetup, ReadConfig,
         ListTasks, LoadTask, CallModel, WrapUp, PrintText, Stop, Answer, Ends, OtherTool,
         Stat, OpenTask, WriteTask, WriteTaskFails, TestTask, Restore, Die, DiskFails, Leaves, Goto
<1> QED
  BY <1>0, <1>1, <1>4 DEF ReadConfig, ReadSecurity, ReadDependencies, LoadSchedule

(* A process that refuses to start without an error of its own calls of    *)
(* the file system has met a setup file that somebody is writing, or died  *)
(* or failed writing, or a schedule that does not parse.                   *)
THEOREM RefusedCorrect == BuildSpec => RefusedForCause
<1>1. BuildInv /\ [BuildNext]_allVars =>
        [\A p \in Procs :
           Running(p) /\ pc'[p] = "refused" =>
             \/ \E f \in {"config", "security", "dependencies"} :
                   f \in lost \/ \E q \in Procs : InSetup(q, f)
             \/ \E x \in found[p] : x.kind = "unparsable"]_wsVars
  BY RefusedStep
<1> QED BY <1>1, BuildInvAlways, PTL DEF BuildSpec, RefusedForCause
=============================================================================
