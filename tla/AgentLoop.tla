----------------------------- MODULE AgentLoop -----------------------------
(***************************************************************************)
(* One run of an agent in ductwork (pkg/agent, runLoop) and its session    *)
(* checkpoint (pkg/session): the executions of the loop that share a run   *)
(* ID - the first, the orchestrator's retries and `ductwork resume` - the  *)
(* conversation each builds, context compaction, and the checkpoint file   *)
(* with its temporary file, down to the steps of os.WriteFile and          *)
(* os.Rename between which a process can die or another one can write.     *)
(*                                                                         *)
(* The model provider and the tools answer anything.                       *)
(***************************************************************************)
EXTENDS Integers, Sequences, FiniteSets

CONSTANTS
    Procs,       \* executions of the loop for this run ID
    Dirs,        \* session directories: one, or one for each worker host
    DirOf,       \* the directory an execution uses
    Keep,        \* compactionKeepMessages
    BailAt,      \* maxConsecutiveErrors
    MaxTurns,    \* bound: the model calls no tools after this many iterations
    Adhoc,       \* TRUE: an ad-hoc run (`ductwork spawn`), FALSE: a task's
    Overlap,     \* TRUE: a resume may start while the run is going on
    DiskMayFail  \* TRUE: writing or deleting a checkpoint may fail

ASSUME ProcsAssumption == DirOf \in [Procs -> Dirs]
ASSUME SizesAssumption == Keep \in Nat \ {0} /\ BailAt \in Nat \ {0} /\ MaxTurns \in Nat
ASSUME FlagsAssumption == Adhoc \in BOOLEAN /\ Overlap \in BOOLEAN /\ DiskMayFail \in BOOLEAN

VARIABLES
    pc,      \* where each execution is
    iter,    \* its iteration
    msgs,    \* its conversation
    orig,    \* its userMessage is the original prompt
    errs,    \* its consecutiveErrors
    opened,  \* the file os.WriteFile has open: "tmp", "file" once that was
             \* renamed, "gone" once it was replaced or deleted, or "none"
    tmp,     \* the temporary file in each directory
    file     \* the checkpoint file in each directory

vars == <<pc, iter, msgs, orig, errs, opened, tmp, file>>

-----------------------------------------------------------------------------
(* A message: the prompt, an assistant turn with tool calls, their         *)
(* results, the nudge to wrap up, or a summary, which covers the           *)
(* iterations up to n; orig tells whether a prompt or a summary carries    *)
(* the original prompt.                                                    *)
Message(kind, n, o) == [kind |-> kind, n |-> n, orig |-> o]
Prompt(o)           == Message("prompt", 0, o)
Turn(n)             == Message("turn", n, FALSE)
Results(n)          == Message("results", n, FALSE)
Nudge               == Message("nudge", 0, FALSE)
IsAssistant(m)      == m.kind = "turn"

(* A file: absent, truncated, a whole checkpoint, or a mix of two writes.  *)
NoFile       == [state |-> "none", iter |-> 0, msgs |-> <<>>]
Truncated    == [state |-> "truncated", iter |-> 0, msgs |-> <<>>]
Mixed        == [state |-> "mixed", iter |-> 0, msgs |-> <<>>]
Whole(i, ms) == [state |-> "whole", iter |-> i, msgs |-> ms]

Active == {p \in Procs :
             pc[p] \in {"load", "call", "tools", "wrapup", "open", "write", "rename", "delete"}}
Ended  == {"completed", "transient", "permanent", "crashed"}

Dir(p)     == DirOf[p]
GoTo(p, l) == pc' = [pc EXCEPT ![p] = l]

(* An execution returns or dies, and what it held in memory is gone.       *)
End(p, how) ==
    /\ GoTo(p, how)
    /\ iter' = [iter EXCEPT ![p] = 0]
    /\ msgs' = [msgs EXCEPT ![p] = <<>>]
    /\ orig' = [orig EXCEPT ![p] = TRUE]
    /\ errs' = [errs EXCEPT ![p] = 0]

(* A faulty variant: the kept messages begin after an assistant turn.      *)
SplitOffByOne(ms) ==
    LET at == Len(ms) - Keep + 1 IN IF IsAssistant(ms[at]) THEN at + 1 ELSE at

(* compactContext: where the kept messages begin - the last Keep, and one  *)
(* more if they would not begin with an assistant turn.                    *)
Split(ms) ==
    LET at == Len(ms) - Keep + 1 IN IF IsAssistant(ms[at]) THEN at ELSE at - 1

(* A faulty variant: replacing what comes before by a summary alone.       *)
CompactDroppingPrompt(ms, o) ==
    IF Len(ms) <= Keep + 2 \/ Split(ms) <= 1
      THEN ms
      ELSE <<Message("summary", ms[Split(ms) - 1].n, FALSE)>> \o SubSeq(ms, Split(ms), Len(ms))

(* compactContext: what comes before is replaced by one user message with  *)
(* the caller's prompt and a summary.                                      *)
Compact(ms, o) ==
    IF Len(ms) <= Keep + 2 \/ Split(ms) <= 1
      THEN ms
      ELSE <<Message("summary", ms[Split(ms) - 1].n, o)>> \o SubSeq(ms, Split(ms), Len(ms))

-----------------------------------------------------------------------------
(* Faulty variants of the steps below, none of them part of Next.          *)

(* Giving up after one more iteration with errors.                         *)
RunToolsBailingLate(p, ok) ==
    /\ pc[p] = "tools"
    /\ errs' = [errs EXCEPT ![p] = IF ok THEN 0 ELSE @ + 1]
    /\ IF ~ ok /\ errs[p] = BailAt
         THEN /\ msgs' = [msgs EXCEPT ![p] = Append(Append(@, Results(iter[p])), Nudge)]
              /\ GoTo(p, "wrapup")
         ELSE /\ msgs' = [msgs EXCEPT ![p] = Append(@, Results(iter[p]))]
              /\ GoTo(p, "open")
    /\ UNCHANGED <<iter, orig, opened, tmp, file>>

(* Restoring the messages but not the iteration.                           *)
LoadMessagesOnly(p) ==
    /\ pc[p] = "load"
    /\ IF file[Dir(p)].state = "whole"
         THEN msgs' = [msgs EXCEPT ![p] = file[Dir(p)].msgs] /\ UNCHANGED iter
         ELSE msgs' = [msgs EXCEPT ![p] = <<Prompt(orig[p])>>] /\ UNCHANGED iter
    /\ GoTo(p, "call")
    /\ UNCHANGED <<orig, errs, opened, tmp, file>>

(* Writing the checkpoint in place.                                        *)
OpenInPlace(p) ==
    /\ pc[p] = "open"
    /\ file' = [file EXCEPT ![Dir(p)] = Truncated]
    /\ opened' = [opened EXCEPT ![p] = "file"]
    /\ GoTo(p, "write")
    /\ UNCHANGED <<iter, msgs, orig, errs, tmp>>

(* Starting a retry without looking for a checkpoint.                      *)
LoadNothing(p) ==
    /\ pc[p] = "load"
    /\ msgs' = [msgs EXCEPT ![p] = <<Prompt(orig[p])>>]
    /\ GoTo(p, "call")
    /\ UNCHANGED <<iter, orig, errs, opened, tmp, file>>

-----------------------------------------------------------------------------
Init ==
    /\ pc = [p \in Procs |-> "off"]
    /\ iter = [p \in Procs |-> 0]
    /\ msgs = [p \in Procs |-> <<>>]
    /\ orig = [p \in Procs |-> TRUE]
    /\ errs = [p \in Procs |-> 0]
    /\ opened = [p \in Procs |-> "none"]
    /\ tmp = [d \in Dirs |-> NoFile]
    /\ file = [d \in Dirs |-> NoFile]

(* The run's first execution, or the orchestrator's next attempt when all  *)
(* before failed with transient errors.  An ad-hoc run is not retried.     *)
Start(p) ==
    /\ pc[p] = "off"
    /\ \/ \A q \in Procs : pc[q] = "off"
       \/ /\ ~ Adhoc
          /\ \A q \in Procs : pc[q] \in {"off", "transient"}
    /\ GoTo(p, "load")
    /\ UNCHANGED <<iter, msgs, orig, errs, opened, tmp, file>>

(* `ductwork resume` finds a checkpoint that can be read and runs the task *)
(* again, or for an ad-hoc run Spawn with a dummy prompt.                  *)
Resume(p) ==
    /\ pc[p] = "off"
    /\ file[Dir(p)].state = "whole"
    /\ Overlap \/ Active = {}
    /\ orig' = [orig EXCEPT ![p] = ~ Adhoc]
    /\ GoTo(p, "load")
    /\ UNCHANGED <<iter, msgs, errs, opened, tmp, file>>

(* runLoop restores the conversation from a checkpoint it can read, or     *)
(* starts with the user message.                                           *)
Load(p) ==
    /\ pc[p] = "load"
    /\ IF file[Dir(p)].state = "whole"
         THEN /\ msgs' = [msgs EXCEPT ![p] = file[Dir(p)].msgs]
              /\ iter' = [iter EXCEPT ![p] = file[Dir(p)].iter]
         ELSE /\ msgs' = [msgs EXCEPT ![p] = <<Prompt(orig[p])>>]
              /\ UNCHANGED iter
    /\ GoTo(p, "call")
    /\ UNCHANGED <<orig, errs, opened, tmp, file>>

(* The messages API fails: the loop returns the error.                     *)
CallFails(p, how) ==
    /\ pc[p] = "call"
    /\ End(p, how)
    /\ UNCHANGED <<opened, tmp, file>>

(* It answers.  The old messages are compacted if the input was too long   *)
(* and the summary call succeeds; the response calls tools or ends the run.*)
Respond(p, compact, tools) ==
    /\ pc[p] = "call"
    /\ tools => iter[p] < MaxTurns
    /\ iter' = [iter EXCEPT ![p] = @ + 1]
    /\ msgs' = [msgs EXCEPT ![p] =
                   Append(IF compact THEN Compact(@, orig[p]) ELSE @, Turn(iter[p] + 1))]
    /\ GoTo(p, IF tools THEN "tools" ELSE "delete")
    /\ UNCHANGED <<orig, errs, opened, tmp, file>>

(* The tool calls run and have their effects; a call may fail.  After too  *)
(* many iterations with errors in a row the model is told to wrap up.      *)
RunTools(p, ok) ==
    /\ pc[p] = "tools"
    /\ errs' = [errs EXCEPT ![p] = IF ok THEN 0 ELSE @ + 1]
    /\ IF ~ ok /\ errs[p] + 1 >= BailAt
         THEN /\ msgs' = [msgs EXCEPT ![p] = Append(Append(@, Results(iter[p])), Nudge)]
              /\ GoTo(p, "wrapup")
         ELSE /\ msgs' = [msgs EXCEPT ![p] = Append(@, Results(iter[p]))]
              /\ GoTo(p, "open")
    /\ UNCHANGED <<iter, orig, opened, tmp, file>>

(* The last call, answered or not - what it answers is only printed, tool  *)
(* calls in it are not run: the loop returns its own error, and saves no   *)
(* checkpoint of this iteration.                                           *)
WrapUp(p) ==
    /\ pc[p] = "wrapup"
    /\ End(p, "permanent")
    /\ UNCHANGED <<opened, tmp, file>>

(* Store.Save, os.WriteFile: open and truncate the temporary file ...      *)
SaveOpens(p) ==
    /\ pc[p] = "open"
    /\ tmp' = [tmp EXCEPT ![Dir(p)] = Truncated]
    /\ opened' = [opened EXCEPT ![p] = "tmp"]
    /\ GoTo(p, "write")
    /\ UNCHANGED <<iter, msgs, orig, errs, file>>

(* What a write to a file leaves: over another writer's data, a mix of the *)
(* two if that was longer.                                                 *)
Written(f, p) ==
    IF f = Truncated THEN {Whole(iter[p], msgs[p])} ELSE {Whole(iter[p], msgs[p]), Mixed}

(* ... and write to it, under whatever name it has by now ...              *)
SaveWrites(p) ==
    /\ pc[p] = "write"
    /\ CASE opened[p] = "tmp"  -> /\ \E f \in Written(tmp[Dir(p)], p) : tmp' = [tmp EXCEPT ![Dir(p)] = f]
                                  /\ UNCHANGED file
         [] opened[p] = "file" -> /\ \E f \in Written(file[Dir(p)], p) : file' = [file EXCEPT ![Dir(p)] = f]
                                  /\ UNCHANGED tmp
         [] OTHER              -> UNCHANGED <<tmp, file>>
    /\ opened' = [opened EXCEPT ![p] = "none"]
    /\ GoTo(p, "rename")
    /\ UNCHANGED <<iter, msgs, orig, errs>>

(* ... or fail to; then Save returns the error, which is only logged.      *)
SaveFails(p) ==
    /\ DiskMayFail
    /\ pc[p] \in {"open", "write"}
    /\ opened' = [opened EXCEPT ![p] = "none"]
    /\ GoTo(p, "call")
    /\ UNCHANGED <<iter, msgs, orig, errs, tmp, file>>

(* os.Rename puts the temporary file in the checkpoint's place, if it is   *)
(* still there.                                                            *)
SaveRenames(p) ==
    /\ pc[p] = "rename"
    /\ IF tmp[Dir(p)] # NoFile
         THEN /\ file' = [file EXCEPT ![Dir(p)] = tmp[Dir(p)]]
              /\ tmp' = [tmp EXCEPT ![Dir(p)] = NoFile]
              /\ opened' = [q \in Procs |->
                    CASE Dir(q) = Dir(p) /\ opened[q] = "tmp"  -> "file"
                      [] Dir(q) = Dir(p) /\ opened[q] = "file" -> "gone"
                      [] OTHER -> opened[q]]
         ELSE UNCHANGED <<tmp, file, opened>>
    /\ GoTo(p, "call")
    /\ UNCHANGED <<iter, msgs, orig, errs>>

(* os.Rename fails with the temporary file there: Save removes that, or    *)
(* fails to, and returns the error, which is only logged.                  *)
SaveRenameFails(p) ==
    /\ DiskMayFail
    /\ pc[p] = "rename"
    /\ \/ /\ tmp' = [tmp EXCEPT ![Dir(p)] = NoFile]
          /\ opened' = [q \in Procs |->
                IF Dir(q) = Dir(p) /\ opened[q] = "tmp" THEN "gone" ELSE opened[q]]
       \/ UNCHANGED <<tmp, opened>>
    /\ GoTo(p, "call")
    /\ UNCHANGED <<iter, msgs, orig, errs, file>>

(* The run is complete: its checkpoint is deleted.  A failure is logged.   *)
Delete(p) ==
    /\ pc[p] = "delete"
    /\ \/ /\ file' = [file EXCEPT ![Dir(p)] = NoFile]
          /\ opened' = [q \in Procs |->
                IF Dir(q) = Dir(p) /\ opened[q] = "file" THEN "gone" ELSE opened[q]]
       \/ DiskMayFail /\ UNCHANGED <<file, opened>>
    /\ End(p, "completed")
    /\ UNCHANGED tmp

(* The process dies.                                                       *)
Crash(p) ==
    /\ p \in Active
    /\ opened' = [opened EXCEPT ![p] = "none"]
    /\ End(p, "crashed")
    /\ UNCHANGED <<tmp, file>>

Step(p) ==
    \/ Load(p)
    \/ (\E how \in {"transient", "permanent"} : CallFails(p, how))
    \/ (\E compact, tools \in BOOLEAN : Respond(p, compact, tools))
    \/ (\E ok \in BOOLEAN : RunTools(p, ok)) \/ WrapUp(p)
    \/ SaveOpens(p) \/ SaveWrites(p) \/ SaveFails(p) \/ SaveRenames(p) \/ SaveRenameFails(p)
    \/ Delete(p)

(* Nothing is running; nothing more need be started.                       *)
Idle == Active = {} /\ UNCHANGED vars

Next ==
    \/ \E p \in Procs : Start(p) \/ Resume(p) \/ Step(p) \/ Crash(p)
    \/ Idle

Spec == Init /\ [][Next]_vars

-----------------------------------------------------------------------------
(* Properties.                                                             *)

Files    == [state : {"none", "truncated", "whole", "mixed"}, iter : Nat,
             msgs : Seq([kind : {"prompt", "turn", "results", "nudge", "summary"},
                         n : Nat, orig : BOOLEAN])]

(* Every variable holds a value the program can hold; no execution counts  *)
(* more iterations with errors in a row than the budget.                   *)
TypeOK ==
    /\ pc \in [Procs -> {"off", "load", "call", "tools", "wrapup", "open", "write", "rename",
                         "delete"} \cup Ended]
    /\ iter \in [Procs -> 0..(MaxTurns + 1)]
    /\ \A p \in Procs : Whole(iter[p], msgs[p]) \in Files
    /\ orig \in [Procs -> BOOLEAN]
    /\ errs \in [Procs -> 0..BailAt]
    /\ opened \in [Procs -> {"none", "tmp", "file", "gone"}]
    /\ \A d \in Dirs : tmp[d] \in Files /\ file[d] \in Files

(* A conversation of i iterations as the messages API takes it: it begins  *)
(* with the prompt or a summary, turns and their results alternate, and    *)
(* every iteration is there, in order, or covered by the summary.          *)
WellFormed(ms, i) ==
    /\ Len(ms) % 2 = 1
    /\ ms[1].kind \in {"prompt", "summary"}
    /\ \A k \in 2..Len(ms) :
          /\ ms[k].kind = IF k % 2 = 0 THEN "turn" ELSE "results"
          /\ ms[k].n = ms[1].n + k \div 2
    /\ i = ms[1].n + Len(ms) \div 2

(* A conversation before the last message was added to it.                 *)
Before(ms) == SubSeq(ms, 1, Len(ms) - 1)

(* What is sent to the API for an iteration, and what a checkpoint         *)
(* restores, is such a conversation, whatever was compacted, retried,      *)
(* resumed or crashed.  The call for a wrap-up (agent.go:391-414) sends    *)
(* one user message more, the nudge, after such a conversation: only there *)
(* do two user messages follow each other, and that is never saved.        *)
ConversationWellFormed ==
    /\ \A p \in Procs :
          /\ pc[p] = "call" => WellFormed(msgs[p], iter[p])
          /\ pc[p] = "wrapup" =>
                msgs[p][Len(msgs[p])] = Nudge /\ WellFormed(Before(msgs[p]), iter[p])
    /\ \A d \in Dirs : file[d].state = "whole" => WellFormed(file[d].msgs, file[d].iter)

(* compactContext leaves "a single UserMessage containing the original     *)
(* prompt + a summary" (agent.go:740): the agent never loses the prompt.   *)
PromptKept == \A p \in Procs : pc[p] \in {"call", "wrapup"} => msgs[p][1].orig

(* "Write to temp file first, then rename for atomic write"                *)
(* (session.go:53): a checkpoint file is never seen half-written.          *)
CheckpointWhole == \A d \in Dirs : file[d].state \in {"none", "whole"}

(* Resuming uses the "saved conversation state to skip already-completed   *)
(* iterations" (main.go:869): an execution never runs tools for an         *)
(* iteration that the checkpoint in its own session directory covers.  A   *)
(* retry on another host starts from what that host has, and does repeat   *)
(* iterations saved elsewhere: nothing here says otherwise.                *)
NoRepeatAfterSave ==
    [][\A p \in Procs :
          (pc[p] = "tools" /\ pc'[p] \in {"open", "wrapup"}) =>
              iter[p] > file[Dir(p)].iter]_vars

(* A checkpoint is only replaced by a later one, and only removed when the *)
(* run completes: no retry or resume loses saved progress.                 *)
CheckpointGrows ==
    [][\A d \in Dirs :
          (file[d].state = "whole" /\ file'[d] # file[d]) =>
              \/ file'[d].state = "whole" /\ file'[d].iter > file[d].iter
              \/ \E p \in Procs : Dir(p) = d /\ pc[p] = "delete" /\ pc'[p] = "completed"]_vars

(* The iterations an execution has behind it: the one it is at counts once *)
(* its tools have run.                                                     *)
Done(p) ==
    CASE pc[p] \in {"call", "wrapup", "open", "write", "rename"} -> iter[p]
      [] pc[p] \in {"tools", "delete"}                           -> iter[p] - 1
      [] OTHER                                                   -> -1

Checkpoints == INSTANCE ResumableRun WITH
    saved <- [d \in Dirs |-> IF file[d].state = "whole" THEN file[d].iter ELSE 0],
    done  <- [p \in Procs |-> Done(p)]

(* Compaction, temporary files, failing and crashing saves and deletes,    *)
(* retries and resumes, which a process can die between any two steps of,  *)
(* add up to the promise of module ResumableRun: a run is taken up exactly *)
(* where it was last saved in the execution's own session directory, and   *)
(* saving is atomic (agent.go:220, :431).                                  *)
ImplementsResumableRun == Checkpoints!Spec
=============================================================================
