# TLA+ models of ductwork

ductwork runs LLM agents on tasks: a scheduler and an HTTP API submit tasks, an
orchestrator runs them with bounded concurrency and retries, either in its own
process or through worker processes that poll a control plane, and every agent
run keeps a checkpoint it can be resumed from. This directory holds TLA+ models
of that, the TLC configurations that check them, and TLAPS proofs.

    tlc -config Orchestrator_safety.cfg MCOrchestrator
    tlapm Orchestrator_proofs.tla
    tlapm ControlPlane_proofs.tla     (and Scheduler_, Dispatch_, AgentLoop_, Build_proofs.tla)

## The system

| Component (package) | State | Operations | Talks to | Correct when |
|---|---|---|---|---|
| Orchestrator (`orchestrator`) | `TaskChan`, semaphore, per run: ID, attempt, last result | receive, acquire, `executeTask` (record, build, attempts with backoff, finalize), release | API and scheduler (channel), `Worker`, history | slots never leak, only transient failures are retried, every submission gets a truthful record |
| History (`history`) | one JSON file per run ID | `Save`, queries | orchestrator, API | a final record is true and stays |
| Local worker (`worker`) | none | `Execute` | agent | returns what the agent ended with |
| Control plane (`controlplane`) | queue (`pending`, `inflight`), result channels, registry | `Execute`, `Enqueue`, `Dequeue`, `Complete`, `Register`, `Deliver`, `Unregister` | orchestrator, worker clients through the API | same contract as the local worker; no assignment twice; results reach their call |
| Worker client (`workerclient`) | the assignment in hand | poll, execute, report | API (HTTP), agent | as above |
| HTTP API (`api`) | goroutines started by handlers | run, spawn, scheduler add/status, worker poll/result, listings | all of the above | an accepted request is carried out |
| Scheduler (`scheduler`) | heap of entries, timer, `addChan` | load, fire, reschedule, add, status, stop | orchestrator (channel), API | no entry lost, fires in order, neither bursts nor starvation |
| Agent loop (`agent`) | conversation, iteration, error count | call, compact, run tools, checkpoint, finish | model API, tools, session store | well-formed conversation that keeps its prompt; work saved on a host not repeated there |
| Session store (`session`) | checkpoint and temporary file per run ID | `Save`, `Load`, `Delete`, `List` | agent loop, `resume` | a checkpoint is whole and only goes forward |
| Task builder, `test_task` (`taskbuilder`, `cmd`) | task files; `os.Stdout` and a pipe | create a task; run it with its output captured | agent, tasks | no task destroyed unasked; a build ends |
| Tasks (`tasks`) | task files | `LoadTask`, `LoadTasks`, skills, memory | everything | a server schedules what is there, or says that it could not |
| Config, dependencies, security (`config`, ...) | files of `.agent/` | `EnsureDir`, `Init`, load | every command | a half set-up directory does not keep a process from starting |
| Logging | none | | | not modelled: output only |

What is hard: goroutines of many runs share a semaphore, a history directory and
the maps of the control plane; `Deliver` looks up under a lock and sends after
it; workers and the control plane exchange HTTP requests that can be lost or
come late, and either side can restart; the scheduler blocks in a send while it
holds an entry; a checkpoint is written in steps a crash or a second execution
can come between; and a conversation is rewritten by compaction across retries
and resumes; and processes that are started, killed and run side by side share
the files of `.agent/`, none of which is locked or written atomically.
`PROJECT.json` lists each of these hazards at its line, with the
properties that would notice it.

## Modules

| Module | Models | State and actions |
|---|---|---|
| `Orchestrator` | API submission, orchestrator, history files, the `Worker` contract | `pc[j]` is the place in the code of the goroutine of submission `j`: `Submit` (`handleRunTask`), `SendToChan`, `Take` and `Acquire` (`Run`), `StartRun`, `BuildFails`/`BuildOK`, `AgentEnds`/`Return` (`Worker.Execute`), `Judge` (the retry loop), `Finalize`, `Release`; `Exit` ends the process |
| `ControlPlane` | `Orchestrator` in the server's two modes: with `LocalWorker`, and with `RemoteWorker`, queue, collector, HTTP handlers and workers | `mode` is chosen at every start of the server. In standalone mode `LocalExecuteStep` is the `Worker` contract; for control mode the module extends `Orchestrator` and replaces `AgentEnds` and `Return`: `Register`, `Enqueue`, `Receive`, `Complete`, `Unregister` are `Execute`; `HandlePoll`, `PollReturns`, `FinishTask`, `LookUp`, `Deliver` the way of an assignment and its result; `PollFails`, `ReportFails`, `WorkerCrash`, `CPExit` the faults |
| `Scheduler` | `scheduler.Run` and the add handler | `spc` is Run's place: `SetTimer`, `Fire`, `Send`, `Reschedule`, `HandleAdd`, `Stop`; `Request`/`AddTask` are handlers; `Tick` is time |
| `Dispatch` | the server process: `Scheduler`, run requests and the dispatch loop around `TaskChan` | extends `Scheduler` and replaces `Receive` and `StopOrchestrator`: `SubmitRun`/`SendRun` (`handleRunTask` and its goroutine), `TakeTask`, `StartRun`, `StopDispatch` (`Orchestrator.Run`), `EndRun` |
| `AgentLoop` | `runLoop`, `compactContext`, the session store, retries and `resume` | `pc[p]` is the place of execution `p` of one run: `Start`, `Resume`, `Load`, `CallFails`, `Respond`, `RunTools`, `WrapUp`, `SaveOpens`/`SaveWrites`/`SaveRenames`, `SaveFails`, `SaveRenameFails`, `Delete`, `Crash` |
| `ResumableRun` | what checkpoints promise, without files | `saved` and `done` count iterations: `Begin`, `Work`, `Save`, `Finish`, `Stop`; implemented by `AgentLoop` |
| `Workspace` | `.agent/` and the startup of processes | `pc[p]` is the place of process `p`: `Start` (`EnsureDir`), `OpenSetup`/`WriteSetup` (`Init`), `ReadConfig`, `ReadSecurity`, `ReadDependencies`, `ListTasks`, `LoadTask`, `LoadSchedule`; `DiskFails` ends a start whose calls of the file system fail. A setup file is missing, torn or whole, a task file may also be a mix of two writes |
| `Build` | `ductwork build`, `create_task` and `test_task`, beside the processes of `Workspace` | `level[p]` says whether the build agent or the test agent inside it runs: `CallModel`, `PrintText`, `WrapUp`, `Stop`, `Answer`, `OtherTool`, `Stat`, `OpenTask`, `WriteTask`, `WriteTaskFails`, `TestTask`, `Restore`; `Die` kills a process |
| `MC...` | values of the constants for TLC | |
| `Orchestrator_proofs` | theorems about `Orchestrator` | |
| `ControlPlane_proofs` | theorems about `ControlPlane`; extends `Orchestrator_proofs`, whose theorems it carries over to control mode | |
| `Scheduler_proofs` | theorems about `Scheduler` | |
| `Dispatch_proofs` | theorems about `Dispatch`, and, by an instance of `Scheduler_proofs`, of the scheduler in the server | |
| `AgentLoop_proofs` | theorems about `AgentLoop`, and its refinement of `ResumableRun` | |
| `Build_proofs` | theorems about `Build` and the `Workspace` in it | |

Each model has a section of faulty variants of its steps - a dropped guard, a
forgotten reset. They are no part of any specification; each property is known
to notice one of them.

Modelling decisions:

* A run ID is the task's name and the millisecond the run starts in. The
  constant `UniqueMillis` says whether two runs may start in one millisecond;
  the safety runs and the theorems about run IDs assume not, and `orchestrator_same_milli`
  shows what happens otherwise. (The result channels of the control plane are
  keyed by run ID, too: without the assumption `OwnResult` does not hold.)
* `isTransientResult` sorts errors by their text. The models have the three
  outcomes it can tell apart: completed, transient, permanent.
* A history write that fails or is cut off leaves the old record or an
  unreadable file, which the readers skip (`"none"`). The truncation itself is
  not a step of its own: nothing in the program reads records to act on them.
* `executeTask`'s context derives from `context.Background()`, so the
  `ctx.Done()` branch of `RemoteWorker.Execute` is never taken and is left out.
* When the context of `Run` is cancelled the process is about to exit; the
  orchestrator's part of that is in `Exit`, except in `Scheduler`, where
  `StopOrchestrator` is a step because the scheduler can hang in `Send` after
  it. No property says that a cancelled `Run` returns: it need not.
* Times in `Scheduler` are relative to now, which keeps the state finite
  without stopping the clock. A task whose schedule does not parse is dropped in
  `HandleAdd`, after the request was answered "added". An entry's schedule may be zero or negative, as
  `time.ParseDuration` allows.
* A message in `AgentLoop` is its kind, the iteration it belongs to, and whether
  it carries the original prompt. The local variables of an execution are reset
  when it ends.
* When the error budget of `AgentLoop` is used up, the results and a nudge are
  appended, two user messages in a row, and sent in one last call, whose answer
  is only printed (`WrapUp`). Nothing of it is saved. `ConversationWellFormed`
  says of that call that it sends a well-formed conversation with the nudge
  after it; the other calls, and all checkpoints, alternate.
* A process of `Workspace` that ends during its start is `"refused"` if what it
  read kept it from starting, and `"failed"` if a call of the file system did.
  Opening the log fails at `"security"`, making the history directory at
  `"list"`, which are what comes next. A file whose write failed is left as it
  was, or torn. All processes write the same defaults, so two writes of a setup
  file do not mix; two of a task file may (`"mixed"`), and `LoadTask` gives up at
  such a file as at a torn one.
* In `Dispatch` a run is a slot that is taken for a while; that it ends and what
  it leaves is `Orchestrator`. The entries of the scheduler and the run requests
  share `TaskChan`, and the refinement to `Scheduler` looks at the former only.
* In `Build` an iteration of an agent has one tool call, and the error budget is
  one of the reasons an agent may stop, with a last text or without: the count
  of errors is in `AgentLoop`. The iteration cap, which only the agents of a
  build have, is in `Build`. While `level` is `"test"`, the standard output of
  the process is the pipe. The report
  of a test run, 10 KB of its output at most, is left out, and so is what the
  agents print to a terminal. A task file is written by `create_task` only; a
  builder stands for every process whose agents may call it.
* `WorkerRegistry` appears in the handlers' code but steers nothing, and is left
  out of `ControlPlane`.

## What is checked

Runs that pass:

| Run | Question | Bounds, and why they are enough |
|---|---|---|
| `orchestrator_safety` | Types; slots match runs; records truthful; final records stay; retries only of transient failures | 3 submissions, 2 of one task, channel of 1, 2 slots, one retry for `t1`: one can be queued, one held at the semaphore, two run; any write fails; exit at any step |
| `control_plane_safety` | One holder per assignment; results reach the waiting call; own result; inflight entries; refinement of `Orchestrator` | 2 runs of one task, 2 retries each, 2 workers: results of a call of the server that has since exited, which come late, polls whose reply was lost, restart of either side |
| `control_plane_live` | Every submission is recorded or lost with the process, in standalone and in control mode | 2 runs, channel of 1, 2 slots, 2 workers, a restart in the other mode, no lost messages |
| `scheduler` | Entries kept; timer for the soonest; order; no bursts; every task fires for ever, unless the process is shut down | two loaded tasks, one added with a negative interval, one with a bad schedule; both channels of 1; up to 2 ticks late |
| `dispatch` | The scheduler sees the receiving end its own module assumes; every scheduled task and every accepted request is run, for ever | one loaded task, one added with a zero interval, one run request; `TaskChan` of 2, 1 slot: the channel fills with tasks that are always due while a run holds the slot. Larger channels only make the waits longer |
| `agent_sequential` | Conversations well formed and with their prompt; checkpoints whole and growing; nothing repeated that is saved on the own host; refinement of `ResumableRun` | 2 executions on one host and one on another; 4 messages kept (6 in the code) and 5 iterations of tools, enough for several compactions in a row; 3 errors in a row, as in the code, and the wrap-up after them; crashes and failing writes, renames and deletes at any step |
| `build` | What a process may refuse to start for; what a server schedules; no task destroyed unasked; builds end | 2 processes, 2 starts, 2 tasks of every kind, 2 writes, 2 iterations of the build agent and 1 of a test agent, a pipe of 1 text: two builders race for a name, a server or `init` runs beside a builder, a process dies or a call of the file system fails at any step and another process starts, a test run creates a task or fills its pipe |

Runs that refute what a comment or a message in the code says, as findings of
`PROJECT.json`:

| Run | Refuted |
|---|---|
| `orchestrator_restart` | a record that says "running" belongs to a running run (`history.go:12`) |
| `orchestrator_same_milli` | each run has its own file (`history.go:45`) |
| `control_plane_lossy` | a waiter times out (`results.go:35`) |
| `agent_adhoc` | compaction keeps the original prompt (`agent.go:740`) |
| `agent_overlap` | a checkpoint is written atomically (`session.go:53`) |

The models also show, without a run of their own: `Status` does not list the
entry that `Run` has popped, for as long as its send blocks; and a checkpoint
that an attempt left on one worker host stays there when a retry on another host
completes the run, since `Delete` removes the file of its own host only; a retry
that another host polls starts from what that host has, and repeats iterations
that were saved elsewhere, although `resume` is said "to skip already-completed
iterations" (`main.go:869`): the properties about saved work are about the
execution's own host; with a
negative `default_max_retries` the loop is not entered, and a run that was never
dispatched is recorded as completed (`HistoryTruthful` assumes it is not
negative); a process that dies, or whose write fails, while it writes `config.json`, `security.json` or
`dependencies.json` leaves a directory in which nothing starts before
`ductwork init` is run, because `EnsureDir` looks for `config.json` only; one
torn task file leaves a starting server without any schedule; and a test run
that prints more than the pipe holds hangs for ever, although a comment gives it
five minutes (`main.go:669`).

Named bounds: `MaxMilli` (the clock; set so that it is never reached), `MaxTurns`
(the model stops calling tools), `MaxLate` (time waits for an entry that is this
late). `Jobs`, `Requests` and `Procs` are the submissions, requests and
executions that will ever be; in `Build`, `MaxStarts` and `MaxCreates` bound how
often processes are started and task files written. Symmetry is used in safety runs only, over
submissions of one task, workers, and executions that share a directory, whose
constants treat them alike.

## Fairness

A goroutine that can take a step eventually does: weak fairness of `Take`, of
each job's steps, each worker's steps and the HTTP handlers. An agent run ends:
an assumption about the model provider, since the orchestrated runs set neither
an iteration cap nor a deadline. Nothing obliges clients to submit, messages to
be lost or processes to exit. In `Scheduler`, Go's `select` picks at random
among the ready branches, so a branch that is ready again and again is taken:
strong fairness of `HandleAdd` and `Stop`. Time passes. In `Dispatch` several
goroutines send to one channel; Go serves blocked senders in the order they
came, so none is overtaken for ever: strong fairness of the scheduler's `Send`
and of each `SendRun`; and every run ends. In `Build`, a process that runs goes
on; that the other tools end is an assumption, since a bash command has no time
limit. Nobody need start or stop a process.

## What is proved

Every type invariant, safety invariant and action property that a passing run
checks, and the three refinements, are theorems, for every value of the
constants: any finite sets of submissions, workers, tasks, processes and
executions, any capacities, intervals and limits. Each module of proofs names
its inductive invariant in parts, every part was first checked by TLC as an
invariant of the run of its module, and the step lemma has one step per action.

The proofs use the named assumptions of the modules, which TLC evaluates on
every run, and the library's facts about finite sets, sequences and well-founded
orders. Where a theorem needs more, it says so with `ASSUME`:

| Assumption | Needed by | Why it is one |
|---|---|---|
| `UniqueMillis` | everything that identifies a run by its ID | run IDs are made of milliseconds; `orchestrator_same_milli` is the counterexample without it |
| `DefaultMaxRetries >= 0` | `RecordTruthful`, `FinalIsFinal` | nothing in the code checks the configured value; with a negative one the loop is not entered and the zero result counts as a success |
| `~Adhoc` | `PromptKept` | `agent_adhoc` is the counterexample: `resume` of an ad-hoc run has no prompt to give |
| `~Overlap` | what a checkpoint promises | `agent_overlap` is the counterexample: nothing locks a session |

**`Orchestrator_proofs`**

* `TypeCorrect`, `SlotsCorrect`: `TypeOK` and `SlotsMatchRuns`. Their inductive
  invariant is `CoreInv`. `SlotsMatchRuns` alone is not inductive: `Take` needs
  `QueueInv`, that what is in the channel is at `"queued"` and there only once,
  or it could move a running job.
* `RetryCorrect`: `RetryOnlyTransient`, from `CoreInv` and `ResultInv` (at
  `Judge`, the result is the agent's outcome).
* `HistoryTruthful`, `HistoryFinal`: `RecordTruthful` and `FinalIsFinal`. The
  invariant adds `IDInv`, that all IDs given out are older than the clock, so
  that a new run finds no record, `RecordInv`, that the records of open runs, and of IDs not
  given out yet, are not final, and `ResultInv` up to the end of the run.

**`ControlPlane_proofs`**, in three layers

* `PlaceInv` says where an assignment can be: nowhere before its call enqueues
  it, and then in one of the queue, a poll's reply, a worker, a report, a
  delivery. It gives `CPTypeCorrect` and `OneHolderCorrect`, with no assumption:
  also with equal run IDs no assignment is handed out twice.
* `RouteInv`, for unique run IDs: whatever is under way for a run belongs to the
  attempt it is at or to an earlier one of the same run, and the channel
  registered under the run's ID is the waiting call's. It gives `OwnResult`,
  `InflightIsWaiting` and `ResultReachesWaiter`.
* `OutcomeInv` says that the history variable `agentOut` knows the outcome of
  every result under way. With it every step of the control plane is a step of
  `Orchestrator` or none: `WorkerContractKept`. Then `RemoteHistoryTruthful`,
  `RemoteHistoryFinal` and `RemoteRetryCorrect` are corollaries of the
  orchestrator's theorems.

**`Scheduler_proofs`**: `SchedulerInv` adds to the properties that a task is in
`addChan` only once and is scheduled only after it was added (`AddedOnce`;
without it `HandleAdd` could enter a task that is in the heap a second time),
and that since the last send of an entry, and until it is due, its interval
passes (`Spaced`, for `NoBurst`). That a finite heap has a soonest entry, which
`CHOOSE` in `SetTimer` relies on, is `LeastExists`, from the well-foundedness of
the strict subsets of a finite set.

**`Dispatch_proofs`**: `SchedulerImplemented` maps every step of the server to
one of `Scheduler`, whose channel is the scheduler's part of `TaskChan`
(`EntriesOf`). The lemmas say what `EntriesOf` makes of a sequence with one
element more or without its first. The theorems of `Scheduler_proofs` then hold
of the server (`EntryKeptInServer`, `TimerInServer`, `OrderInServer`,
`SpacingInServer`), and with `DispatchInv` give `DispatchTypeCorrect`.

**`AgentLoop_proofs`**, in four layers

* `TypeInv`, the types and what bounds the iterations and the errors in a row.
* `Conversations`: every conversation in memory or in a file is well-formed,
  also between a turn and its results, and before the nudge of a wrap-up
  (`NudgedAt`). `CompactWellFormed` is the heart of
  it: whatever number of messages is kept, the split falls before a turn and
  never parts it from its results. No assumption: a file is well-formed or not
  readable with overlapping executions, too.
* `Prompted` (`~Adhoc`): and it begins with the original prompt.
* `Sequential` (`~Overlap`): one execution at a time; its temporary file is its
  own from open to rename (`SavesAlone`); it is ahead of the checkpoint
  (`Ahead`), always in its own directory. It gives `CheckpointWholeCorrect`, `NoRepeatCorrect`,
  `CheckpointGrowsCorrect` and, with `RunStep`, `ResumableRunImplemented`.

**`Build_proofs`**: `BuildInv` adds who may still be wrong about a file: a torn
setup file has a writer at it or one that died or failed (`TornForCause`), a `create_task`
between its look and its write has the file it saw or others have changed it
(`Looked`), and so has a server that loads (`LoadOK`). It gives the type
invariant, `SchedulesWhatIsThere`, `NoClobber` and `RefusedForCause`.

Only model-checked: the five liveness properties (`EverySubmissionRecorded`,
`EveryTaskFires`, `EveryTaskRuns`, `EveryRequestRuns`, `BuildEnds`) and the
absence of deadlock, since the prover handles neither `ENABLED` nor fairness.
The findings are counterexamples of TLC, on the instance their run gives.

Two notes on the prover. It knows `SelectSeq` by name only, so `Dispatch` says
what the scheduler sees of the channel with a recursive function of its own,
`EntriesOf`. And the library's induction theorems cannot be instantiated, but
induction over a *set* of numbers can be stated without an operator parameter
(`NumbersInSet`), and is enough for what `EntriesOf` computes.

## Plan

1. State what liveness rests on and can be proved: that somebody can always take
   a step where something is waited for, as invariants on the guards of the
   actions (`Orchestrator`, `ControlPlane`, `Dispatch`).
2. `Backoff`: the doubling backoff in wrapping arithmetic (`retry.go:21`), and
   what the 60 second cap does to it.
3. The agent loop as what `AgentEnds` stands for: attempts of `Orchestrator`
   that continue from a checkpoint, with `ResumableRun` between the two.

## Not modelled

Logging and the worker registry, on which nothing in the program acts. The
checks of `security` are stateless. What the model and the tools other than
`create_task` and `test_task` do is left open. `RunImmediate`, `SpawnAdhoc` and
the listing handlers keep no state. Token counts are summed and displayed only.
A worker process starts without a directory if it has to, and is not among the
processes of `Workspace`. The length of a backoff is not modelled: retries may
follow at any time.
