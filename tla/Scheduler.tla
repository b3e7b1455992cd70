----------------------------- MODULE Scheduler -----------------------------
(***************************************************************************)
(* The scheduler of ductwork (pkg/scheduler): the heap of scheduled tasks, *)
(* the goroutine that waits for the soonest, sends it to the orchestrator  *)
(* and reschedules it, and the API handlers that add tasks at runtime.     *)
(* The orchestrator is only the receiving end of taskChan here.            *)
(*                                                                         *)
(* Time is counted in ticks and every time is kept relative to now, so     *)
(* that the model runs for ever: due[e] is the time left until an entry's  *)
(* NextRun, negative when it is overdue.                                   *)
(***************************************************************************)
EXTENDS Integers, Sequences, FiniteSets

CONSTANTS
    Loaded,      \* scheduled tasks read by LoadTasks at startup
    Requests,    \* POST /api/scheduler/add requests
    Interval,    \* each task's parsed schedule, in ticks; Unparsable if it is none
    Unparsable,
    ChanSize,    \* capacity of taskChan
    AddSize,     \* capacity of addChan
    MaxLate,     \* bound: time waits for an entry this late
    None

Entries == Loaded \cup Requests

ASSUME EntriesAssumption  == IsFiniteSet(Entries) /\ Loaded \cap Requests = {} /\ None \notin Entries
ASSUME IntervalAssumption ==
    /\ Unparsable \notin Int
    /\ Interval \in [Entries -> Int \cup {Unparsable}]  \* "-1h" is a duration, too
    /\ \A e \in Loaded : Interval[e] # Unparsable  \* else LoadTasks, and the start, fail
    /\ \A e \in Entries : Interval[e] # Unparsable => Interval[e] > - MaxLate
ASSUME SizesAssumption == ChanSize \in Nat \ {0} /\ AddSize \in Nat \ {0} /\ MaxLate \in Nat

Valid      == {e \in Entries : Interval[e] # Unparsable}
MaxOf(S)   == CHOOSE m \in S : \A x \in S : x <= m
MaxInterval == MaxOf({Interval[e] : e \in Valid} \cup {0})

VARIABLES
    spc,       \* where Run is
    timer,     \* ticks left on the timer
    heap,      \* entries in the heap
    due,       \* ticks left until each entry's NextRun
    firing,    \* the entry Run has popped and not pushed back
    addChan,   \* tasks buffered in addChan
    handler,   \* each add request
    taskChan,  \* entries buffered in taskChan
    cancelled, \* the context of Run and of the orchestrator is cancelled
    orchestrator, \* "running" or "stopped"
    since      \* history variable: ticks since each entry was last sent,
               \* counted to MaxInterval

vars == <<spc, timer, heap, due, firing, addChan, handler, taskChan, cancelled,
          orchestrator, since>>

AtLeastZero(n) == IF n < 0 THEN 0 ELSE n
Soonest(S) == {e \in S : \A f \in S : due[e] <= due[f]}

-----------------------------------------------------------------------------
(* Faulty variants of the steps below, none of them part of Next.          *)

(* Rescheduling from the time the entry was due.                           *)
RescheduleFixedRate ==
    /\ spc = "push"
    /\ due' = [due EXCEPT ![firing] = @ + Interval[firing]]
    /\ heap' = heap \cup {firing}
    /\ firing' = None
    /\ spc' = "top"
    /\ UNCHANGED <<timer, addChan, handler, taskChan, cancelled, orchestrator, since>>

(* Not pushing the entry back.                                             *)
RescheduleForgotten ==
    /\ spc = "push"
    /\ firing' = None
    /\ spc' = "top"
    /\ UNCHANGED <<timer, heap, due, addChan, handler, taskChan, cancelled, orchestrator, since>>

(* A heap ordered by interval instead of by NextRun.                       *)
FireShortest ==
    /\ spc = "wait" /\ timer = 0
    /\ \E e \in heap :
          /\ \A f \in heap : Interval[e] <= Interval[f]
          /\ firing' = e
          /\ heap' = heap \ {e}
    /\ spc' = "send"
    /\ UNCHANGED <<timer, due, addChan, handler, taskChan, cancelled, orchestrator, since>>

(* A wait that goes on with the old timer after a task was added.          *)
HandleAddKeepingTimer ==
    /\ spc \in {"wait", "empty"}
    /\ addChan # <<>>
    /\ addChan' = Tail(addChan)
    /\ LET r == Head(addChan) IN
          IF r \in Valid
            THEN heap' = heap \cup {r} /\ due' = [due EXCEPT ![r] = Interval[r]]
            ELSE UNCHANGED <<heap, due>>
    /\ UNCHANGED <<spc, timer, firing, handler, taskChan, cancelled, orchestrator, since>>

(* An AddTask that does not wait for room in addChan.                      *)
AddTaskUnbounded(r) ==
    /\ handler[r] = "adding"
    /\ addChan' = Append(addChan, r)
    /\ handler' = [handler EXCEPT ![r] = "added"]
    /\ UNCHANGED <<spc, timer, heap, due, firing, taskChan, cancelled, orchestrator, since>>

-----------------------------------------------------------------------------
Init ==
    /\ spc = "top"
    /\ timer = 0
    /\ heap = Loaded
    /\ due = [e \in Entries |-> IF e \in Loaded THEN Interval[e] ELSE 0]
    /\ firing = None
    /\ addChan = <<>>
    /\ handler = [r \in Requests |-> "none"]
    /\ taskChan = <<>>
    /\ cancelled = FALSE
    /\ orchestrator = "running"
    /\ since = [e \in Entries |-> MaxInterval]

(* The top of the loop: with an empty heap Run waits without a timer, else *)
(* it looks at the soonest entry and sets the timer for it.                *)
SetTimer ==
    /\ spc = "top"
    /\ IF heap = {}
         THEN spc' = "empty" /\ timer' = 0
         ELSE /\ spc' = "wait"
              /\ timer' = AtLeastZero(due[CHOOSE e \in Soonest(heap) : TRUE])
    /\ UNCHANGED <<heap, due, firing, addChan, handler, taskChan, cancelled, orchestrator, since>>

(* The timer fired: pop the soonest entry.                                 *)
Fire ==
    /\ spc = "wait" /\ timer = 0
    /\ \E e \in Soonest(heap) : firing' = e /\ heap' = heap \ {e}
    /\ spc' = "send"
    /\ UNCHANGED <<timer, due, addChan, handler, taskChan, cancelled, orchestrator, since>>

(* The blocking send to the orchestrator; nothing else is listened to.     *)
Send ==
    /\ spc = "send"
    /\ Len(taskChan) < ChanSize
    /\ taskChan' = Append(taskChan, firing)
    /\ since' = [since EXCEPT ![firing] = 0]
    /\ spc' = "push"
    /\ UNCHANGED <<timer, heap, due, firing, addChan, handler, cancelled, orchestrator>>

(* NextRun is counted from after the send; the entry is pushed back.       *)
Reschedule ==
    /\ spc = "push"
    /\ due' = [due EXCEPT ![firing] = Interval[firing]]
    /\ heap' = heap \cup {firing}
    /\ firing' = None
    /\ spc' = "top"
    /\ UNCHANGED <<timer, addChan, handler, taskChan, cancelled, orchestrator, since>>

(* The timer is stopped; handleAdd drops a task whose schedule does not    *)
(* parse.                                                                  *)
HandleAdd ==
    /\ spc \in {"wait", "empty"}
    /\ addChan # <<>>
    /\ addChan' = Tail(addChan)
    /\ LET r == Head(addChan) IN
          IF r \in Valid
            THEN heap' = heap \cup {r} /\ due' = [due EXCEPT ![r] = Interval[r]]
            ELSE UNCHANGED <<heap, due>>
    /\ spc' = "top"
    /\ timer' = 0
    /\ UNCHANGED <<firing, handler, taskChan, cancelled, orchestrator, since>>

(* Run sees that its context is cancelled.                                 *)
Stop ==
    /\ spc \in {"wait", "empty"}
    /\ cancelled
    /\ spc' = "stopped"
    /\ timer' = 0
    /\ UNCHANGED <<heap, due, firing, addChan, handler, taskChan, cancelled,
                   orchestrator, since>>

-----------------------------------------------------------------------------
(* handleSchedulerAdd: AddTask blocks the handler while addChan is full,   *)
(* then the request is answered "added".                                   *)
Request(r) ==
    /\ handler[r] = "none"
    /\ handler' = [handler EXCEPT ![r] = "adding"]
    /\ UNCHANGED <<spc, timer, heap, due, firing, addChan, taskChan, cancelled, orchestrator, since>>

AddTask(r) ==
    /\ handler[r] = "adding"
    /\ Len(addChan) < AddSize
    /\ addChan' = Append(addChan, r)
    /\ handler' = [handler EXCEPT ![r] = "added"]
    /\ UNCHANGED <<spc, timer, heap, due, firing, taskChan, cancelled, orchestrator, since>>

(* The orchestrator receives a task, or sees that the context is cancelled.*)
Receive ==
    /\ orchestrator = "running"
    /\ taskChan # <<>>
    /\ taskChan' = Tail(taskChan)
    /\ UNCHANGED <<spc, timer, heap, due, firing, addChan, handler, cancelled, orchestrator, since>>

StopOrchestrator ==
    /\ cancelled /\ orchestrator = "running"
    /\ orchestrator' = "stopped"
    /\ UNCHANGED <<spc, timer, heap, due, firing, addChan, handler, taskChan, cancelled, since>>

(* waitForShutdown cancels the context.                                    *)
Cancel ==
    /\ ~ cancelled
    /\ cancelled' = TRUE
    /\ UNCHANGED <<spc, timer, heap, due, firing, addChan, handler, taskChan, orchestrator, since>>

(* Time passes: no further than MaxLate past the NextRun of any entry.     *)
Tick ==
    /\ spc # "stopped"
    /\ \A e \in heap : due[e] > - MaxLate
    /\ due' = [e \in Entries |-> IF e \in heap THEN due[e] - 1 ELSE due[e]]
    /\ timer' = AtLeastZero(timer - 1)
    /\ since' = [e \in Entries |-> IF since[e] < MaxInterval THEN since[e] + 1 ELSE since[e]]
    /\ UNCHANGED <<spc, heap, firing, addChan, handler, taskChan, cancelled, orchestrator>>

Run == SetTimer \/ Fire \/ Send \/ Reschedule \/ HandleAdd \/ Stop

(* After waitForShutdown the process exits, wherever its goroutines are.   *)
Exit == cancelled /\ UNCHANGED vars

Next ==
    \/ Run
    \/ \E r \in Requests : Request(r) \/ AddTask(r)
    \/ Receive \/ StopOrchestrator \/ Cancel
    \/ Tick
    \/ Exit

Spec == Init /\ [][Next]_vars

(* The goroutines run and time passes; the orchestrator goes on receiving  *)
(* until it stops.  Run's select picks at random among the branches that   *)
(* are ready, so none that is ready time and again is passed over for ever.*)
(* Nobody need send a request or cancel.                                   *)
Fairness ==
    /\ WF_vars(Run) /\ WF_vars(Tick)
    /\ SF_vars(HandleAdd) /\ SF_vars(Stop)
    /\ WF_vars(Receive) /\ WF_vars(StopOrchestrator)
    /\ \A r \in Requests : WF_vars(AddTask(r))

FairSpec == Spec /\ Fairness

-----------------------------------------------------------------------------
(* Properties.                                                             *)

(* Every variable holds a value the program can hold.                      *)
TypeOK ==
    /\ spc \in {"top", "empty", "wait", "send", "push", "stopped"}
    /\ timer \in 0..MaxInterval
    /\ heap \subseteq Valid
    /\ due \in [Entries -> (- MaxLate)..MaxInterval]
    /\ firing \in Valid \cup {None}
    /\ addChan \in Seq(Requests) /\ Len(addChan) <= AddSize
    /\ handler \in [Requests -> {"none", "adding", "added"}]
    /\ taskChan \in Seq(Valid) /\ Len(taskChan) <= ChanSize
    /\ cancelled \in BOOLEAN
    /\ orchestrator \in {"running", "stopped"}
    /\ since \in [Entries -> 0..MaxInterval]

InAddChan(r) == \E i \in DOMAIN addChan : addChan[i] = r

(* A scheduled task is never lost nor entered twice, whatever Run, the add *)
(* handlers and a full channel do: it is in the heap, or in Run's hands    *)
(* between pop and push, or still in addChan.                              *)
EntryKept ==
    /\ firing # None <=> spc \in {"send", "push"}
    /\ firing \notin heap
    /\ \A e \in Loaded : e \in heap \/ e = firing
    /\ \A r \in Requests :
          /\ InAddChan(r) => r \notin heap /\ r # firing
          /\ (handler[r] = "added" /\ r \in Valid) => InAddChan(r) \/ r \in heap \/ r = firing

(* While Run waits, its timer is set for the soonest entry there is now,   *)
(* also when one that is due sooner was added during the wait.             *)
TimerForSoonest ==
    spc = "wait" => \A e \in Soonest(heap) : timer = AtLeastZero(due[e])

(* Run fires an entry that is due, and none that has been due longer waits.*)
FiresInOrder ==
    [][(spc = "wait" /\ spc' = "send") =>
          /\ due[firing'] <= 0
          /\ \A e \in heap : due[firing'] <= due[e]]_vars

(* Two firings of a task are at least its interval apart: a send that was  *)
(* held up by a full channel is not made up for by a burst.                *)
NoBurst ==
    [][(spc = "send" /\ spc' = "push") => since[firing] >= Interval[firing]]_vars

(* Every scheduled task is fired again and again, and one that is added    *)
(* with a schedule is fired, however short the intervals of the others,    *)
(* until the program is shut down.                                         *)
EveryTaskFires ==
    /\ \A e \in Loaded : []<>(firing = e \/ cancelled)
    /\ \A r \in Requests \cap Valid : handler[r] = "adding" ~> (firing = r \/ cancelled)
=============================================================================
