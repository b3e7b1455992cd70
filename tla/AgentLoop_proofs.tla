-------------------------- MODULE AgentLoop_proofs --------------------------
(***************************************************************************)
(* Proofs about module AgentLoop, for any executions of a run, session     *)
(* directories, sizes and bounds.  The layers, each of which rests on the  *)
(* ones before:                                                            *)
(*                                                                         *)
(*   TypeInv        the types, and what bounds the iterations;             *)
(*   Conversations  every conversation there is, in memory or on the disk, *)
(*                  is well-formed, also between a turn and its results;   *)
(*   Prompted       it begins with the original prompt (~Adhoc);           *)
(*   Sequential     one execution at a time, the temporary file is its     *)
(*                  own, and it is ahead of the checkpoint (~Overlap).     *)
(*                                                                         *)
(* The last part maps every step to one of module ResumableRun.            *)
(***************************************************************************)
EXTENDS AgentLoop, SequenceTheorems, TLAPS

Messages == [kind : {"prompt", "turn", "results", "nudge", "summary"}, n : Nat, orig : BOOLEAN]

\* A definition of its own, for the prover does arithmetic on lengths better
\* when it does not see that they are those of sequences.
IsConversation(ms) == ms \in Seq(Messages)

PCs == {"off", "load", "call", "tools", "wrapup", "open", "write", "rename", "delete"} \cup Ended

\* TypeOK, with the shapes of the functions, and with what bounds the
\* iterations - only the last of a run goes beyond MaxTurns, and is not saved -
\* and the errors: only a wrap-up comes with the budget used up.
TypeInv ==
    /\ pc \in [Procs -> PCs]
    /\ iter \in [Procs -> 0..(MaxTurns + 1)]
    /\ msgs \in [Procs -> Seq(Messages)]
    /\ orig \in [Procs -> BOOLEAN]
    /\ errs \in [Procs -> 0..BailAt]
    /\ opened \in [Procs -> {"none", "tmp", "file", "gone"}]
    /\ tmp \in [Dirs -> Files] /\ file \in [Dirs -> Files]
    /\ \A p \in Procs : pc[p] # "delete" => iter[p] <= MaxTurns
    /\ \A p \in Procs : pc[p] # "wrapup" => errs[p] < BailAt
    /\ \A d \in Dirs : tmp[d].iter <= MaxTurns /\ file[d].iter <= MaxTurns

\* The prover does not reason about halves, so they have names here.
Even(n) == n % 2 = 0
Odd(n)  == n % 2 = 1
Half(n) == n \div 2

\* What a conversation and one whose last turn has no results share.
Alternates(ms) ==
    /\ ms[1].kind \in {"prompt", "summary"}
    /\ \A k \in 2..Len(ms) :
          /\ ms[k].kind = IF Even(k) THEN "turn" ELSE "results"
          /\ ms[k].n = ms[1].n + Half(k)

\* A conversation that ends with the turn of iteration i, whose tool calls
\* have no results yet.
OpenTurn(ms, i) ==
    Len(ms) > 0 /\ Even(Len(ms)) /\ Alternates(ms) /\ i = ms[1].n + Half(Len(ms))

\* A conversation with the results of iteration i and the nudge to wrap up.
NudgedAt(ms, i) == ms[Len(ms)] = Nudge /\ WellFormed(Before(ms), i)

\* Every conversation there is, in memory or on the disk, is well-formed.
ConversesWell(p) ==
    /\ pc[p] \in {"off", "load"} \cup Ended => iter[p] = 0
    /\ pc[p] \in {"call", "open", "write", "rename"} => WellFormed(msgs[p], iter[p])
    /\ pc[p] = "tools" => OpenTurn(msgs[p], iter[p])
    /\ pc[p] = "wrapup" => msgs[p] # <<>> /\ NudgedAt(msgs[p], iter[p])

HoldsWell(f) == f.state = "whole" => WellFormed(f.msgs, f.iter)

Conversations ==
    /\ \A p \in Procs : ConversesWell(p)
    /\ \A d \in Dirs : HoldsWell(tmp[d]) /\ HoldsWell(file[d])

\* Every conversation there is begins with the original prompt.
BeginsWithPrompt(ms) == ms # <<>> => ms[1].orig = TRUE

HoldsPrompt(f) == f.state = "whole" => BeginsWithPrompt(f.msgs)

Prompted ==
    /\ \A p \in Procs : orig[p] = TRUE /\ BeginsWithPrompt(msgs[p])
    /\ \A d \in Dirs : HoldsPrompt(tmp[d]) /\ HoldsPrompt(file[d])

\* One execution at a time works on the run.
OneActive == \A p, q \in Active : p = q

\* An execution alone with its temporary file: what it has open, and what
\* it has written when it comes to rename it.
SavesAlone ==
    \A p \in Procs :
      /\ pc[p] # "write" => opened[p] = "none"
      /\ pc[p] = "write" => opened[p] = "tmp" /\ tmp[Dir(p)] = Truncated
      /\ pc[p] = "rename" => tmp[Dir(p)] = Whole(iter[p], msgs[p])

\* A checkpoint file holds a whole checkpoint, or there is none.
FilesWhole == \A d \in Dirs : file[d] = NoFile \/ file[d].state = "whole"

\* What an execution has behind it covers what is saved.
Ahead ==
    \A p \in Procs :
      /\ pc[p] = "call" => iter[p] >= file[Dir(p)].iter
      /\ pc[p] \in {"tools", "wrapup", "open", "write", "rename", "delete"} =>
           iter[p] > file[Dir(p)].iter

Sequential == OneActive /\ SavesAlone /\ FilesWhole /\ Ahead

-----------------------------------------------------------------------------
(* Conversations: what adding to one and compacting it does.               *)

LEMMA Halves ==
    /\ \A n \in Nat : (Even(n) <=> ~Odd(n)) /\ Half(n) \in Nat
    /\ \A n \in Nat : Even(n) => Odd(n + 1) /\ Half(n + 1) = Half(n)
    /\ \A n \in Nat : Odd(n) => n >= 1 /\ Even(n + 1) /\ Half(n + 1) = Half(n) + 1
    /\ \A s, k \in Nat : s > 2 /\ k > 1 /\ Even(s) =>
         /\ Even(s + k - 2) <=> Even(k)
         /\ Half(s + k - 2) = (Half(s) - 1) + Half(k)
    /\ \A s, n \in Nat : s > 2 /\ s <= n /\ Even(s) =>
         /\ Even(n - s + 2) <=> Even(n)
         /\ (Half(s) - 1) + Half(n - s + 2) = Half(n)
    /\ \A s \in Nat : s > 2 /\ Even(s) => Half(s - 1) = Half(s) - 1
    /\ \A s \in Nat : s > 2 /\ Odd(s) => Even(s - 1)
BY DEF Even, Odd, Half

LEMMA SumsRegrouped ==
    /\ \A x, y \in Nat : (x + y) + 1 = x + (y + 1)
    /\ \A x, y, z \in Nat : x + ((y - 1) + z) = (x + (y - 1)) + z
OBVIOUS

LEMMA WellFormedParts ==
    ASSUME NEW ms, NEW i
    PROVE  WellFormed(ms, i) <=>
             Odd(Len(ms)) /\ Alternates(ms) /\ i = ms[1].n + Half(Len(ms))
BY Zenon DEF WellFormed, Alternates, Even, Odd, Half

(* What a compaction that does something keeps, and where it cuts.         *)
LEMMA CompactCuts ==
    ASSUME NEW ms \in Seq(Messages), NEW o \in BOOLEAN, Compact(ms, o) # ms
    PROVE  /\ Split(ms) \in 3..Len(ms)
           /\ Compact(ms, o) \in Seq(Messages)
           /\ Len(Compact(ms, o)) = Len(ms) - Split(ms) + 2
           /\ Compact(ms, o)[1] = Message("summary", ms[Split(ms) - 1].n, o)
           /\ \A k \in 2..Len(Compact(ms, o)) : Compact(ms, o)[k] = ms[Split(ms) + k - 2]
<1>0. Len(ms) \in Nat /\ Keep \in Nat \ {0}
  BY SizesAssumption
<1>1. /\ Len(ms) > Keep + 2
      /\ Compact(ms, o) = <<Message("summary", ms[Split(ms) - 1].n, o)>>
                            \o SubSeq(ms, Split(ms), Len(ms))
  <2>1. ~(Len(ms) <= Keep + 2 \/ Split(ms) <= 1)
    BY Zenon DEF Compact
  <2>2. Len(ms) > Keep + 2
    BY <1>0, <2>1
  <2>3. Compact(ms, o) = <<Message("summary", ms[Split(ms) - 1].n, o)>>
                            \o SubSeq(ms, Split(ms), Len(ms))
    BY <2>1, Zenon DEF Compact
  <2> QED BY <2>2, <2>3
<1>2. Split(ms) \in 3..Len(ms)
  BY <1>0, <1>1 DEF Split
<1> DEFINE s   == Split(ms)
           top == Message("summary", ms[s - 1].n, o)
           sub == SubSeq(ms, s, Len(ms))
<1>3. top \in Messages
  <2>1. ms[s - 1] \in Messages
    BY <1>0, <1>1, <1>2
  <2> QED BY <2>1 DEF Message, Messages
<1>4. /\ sub \in Seq(Messages) /\ Len(sub) = Len(ms) - s + 1
      /\ \A k \in 1..Len(sub) : sub[k] = ms[s + k - 1]
  <2> HIDE DEF s
  <2>1. s \in 3..Len(ms) /\ Len(ms) \in Nat
    BY <1>0, <1>1, <1>2 DEF s
  <2>2. /\ SubSeq(ms, s, Len(ms)) \in Seq(Messages)
        /\ Len(SubSeq(ms, s, Len(ms))) = Len(ms) - s + 1
        /\ \A k \in 1..(Len(ms) - s + 1) : SubSeq(ms, s, Len(ms))[k] = ms[s + k - 1]
    BY <2>1, SubSeqProperties
  <2> QED BY <2>2
<1> HIDE DEF s, top, sub
<1>5. Compact(ms, o) = <<top>> \o sub
  BY <1>1 DEF s, top, sub
<1>6. /\ <<top>> \o sub \in Seq(Messages) /\ Len(<<top>> \o sub) = 1 + Len(sub)
      /\ (<<top>> \o sub)[1] = top
      /\ \A k \in 2..(1 + Len(sub)) : (<<top>> \o sub)[k] = sub[k - 1]
  BY <1>3, <1>4
<1>7. \A k \in 2..(1 + Len(sub)) : sub[k - 1] = ms[s + k - 2]
  <2>1. ASSUME NEW k \in 2..(1 + Len(sub)) PROVE sub[k - 1] = ms[s + k - 2]
    <3>1. s \in 3..Len(ms) /\ Len(sub) \in Nat
      BY <1>0, <1>2, <1>4 DEF s
    <3>2. k - 1 \in 1..Len(sub) /\ s + (k - 1) - 1 = s + k - 2
      BY <1>0, <3>1
    <3> QED BY <1>4, <3>2
  <2> QED BY <2>1
<1>8. Len(<<top>> \o sub) = Len(ms) - s + 2
  <2>1. s \in 3..Len(ms)
    BY <1>2 DEF s
  <2> QED BY <1>0, <1>4, <1>6, <2>1
<1>9. \A k \in 2..Len(<<top>> \o sub) : (<<top>> \o sub)[k] = ms[s + k - 2]
  BY <1>6, <1>7
<1> QED BY <1>2, <1>5, <1>6, <1>8, <1>9 DEF s, top

LEMMA CompactTyped ==
    ASSUME NEW ms \in Seq(Messages), NEW o \in BOOLEAN
    PROVE  Compact(ms, o) \in Seq(Messages)
BY CompactCuts

(* A compacted conversation begins with the prompt if its caller knows it, *)
(* or as before.                                                           *)
LEMMA CompactKeepsPrompt ==
    ASSUME NEW ms, IsConversation(ms), NEW o \in BOOLEAN, ms # <<>>
    PROVE  /\ Compact(ms, o) # <<>>
           /\ Compact(ms, o)[1].orig = o \/ Compact(ms, o)[1] = ms[1]
<1>1. CASE Compact(ms, o) = ms
  BY <1>1
<1>2. CASE Compact(ms, o) # ms
  <2>1. /\ Split(ms) \in 3..Len(ms) /\ Len(ms) \in Nat
        /\ Len(Compact(ms, o)) = Len(ms) - Split(ms) + 2
        /\ Compact(ms, o)[1] = Message("summary", ms[Split(ms) - 1].n, o)
    BY <1>2, CompactCuts DEF IsConversation
  <2>2. Compact(ms, o)[1].orig = o
    BY <2>1 DEF Message
  <2>3. Len(Compact(ms, o)) > 0
    BY <2>1
  <2> QED BY <2>2, <2>3
<1> QED BY <1>1, <1>2

(* A compacted conversation is again one the API takes, and of as many     *)
(* iterations: the split never parts a turn from its results.              *)
LEMMA CompactWellFormed ==
    ASSUME NEW ms, IsConversation(ms), NEW o \in BOOLEAN, NEW i \in Nat, WellFormed(ms, i)
    PROVE  WellFormed(Compact(ms, o), i)
<1>1. CASE Compact(ms, o) = ms
  BY <1>1
<1>2. CASE Compact(ms, o) # ms
  <2> DEFINE s  == Split(ms)
             cs == Compact(ms, o)
  <2>0. /\ Odd(Len(ms)) /\ Alternates(ms) /\ i = ms[1].n + Half(Len(ms))
        /\ Len(ms) \in Nat
    BY WellFormedParts DEF IsConversation
  <2>1. /\ s \in 3..Len(ms) /\ Len(cs) = Len(ms) - s + 2
        /\ cs[1] = Message("summary", ms[s - 1].n, o)
        /\ \A k \in 2..Len(cs) : cs[k] = ms[s + k - 2]
    BY <1>2, CompactCuts DEF IsConversation
  <2>2. Even(s)
    <3>1. Len(ms) > Keep + 2 /\ Keep \in Nat \ {0}
      <4>1. ~(Len(ms) <= Keep + 2)
        BY <1>2, Zenon DEF Compact
      <4> QED BY <2>0, <4>1, SizesAssumption
    <3> DEFINE at == Len(ms) - Keep + 1
    <3>2. at \in 4..Len(ms) /\ at \in 2..Len(ms) /\ at \in Nat /\ at > 2
      BY <2>0, <3>1
    <3>3. s = IF IsAssistant(ms[at]) THEN at ELSE at - 1
      BY DEF Split
    <3> HIDE DEF at, s
    <3>4. Even(at) <=> IsAssistant(ms[at])
      BY <2>0, <3>2 DEF Alternates, IsAssistant
    <3> QED BY <3>2, <3>3, <3>4, Halves
  <2> HIDE DEF s, cs
  <2>3. s \in Nat /\ s > 2 /\ s <= Len(ms) /\ Len(cs) \in Nat /\ Half(s) \in Nat
    BY <2>0, <2>1, Halves
  <2>4. ms[1].n \in Nat
    <3>1. ms[1] \in Messages
      BY <2>0, <2>3 DEF IsConversation
    <3> QED BY <3>1 DEF Messages
  <2>5. ms[s - 1].n = ms[1].n + (Half(s) - 1)
    <3>1. s - 1 \in 2..Len(ms)
      BY <2>0, <2>3
    <3>2. Half(s - 1) = Half(s) - 1
      BY <2>2, <2>3, Halves
    <3> QED BY <2>0, <3>1, <3>2, Zenon DEF Alternates
  <2>6. cs[1].kind = "summary" /\ cs[1].n = ms[1].n + (Half(s) - 1)
    BY <2>1, <2>5 DEF Message
  <2>7. ASSUME NEW k \in 2..Len(cs)
        PROVE  /\ cs[k].kind = IF Even(k) THEN "turn" ELSE "results"
               /\ cs[k].n = cs[1].n + Half(k)
    <3> DEFINE j == s + k - 2
    <3>1. j \in 2..Len(ms) /\ k \in Nat /\ k > 1
      BY <2>0, <2>1, <2>3
    <3>2. cs[k] = ms[j]
      BY <2>1
    <3>3. (Even(j) <=> Even(k)) /\ Half(j) = (Half(s) - 1) + Half(k) /\ Half(k) \in Nat
      BY <2>2, <2>3, <3>1, Halves
    <3> HIDE DEF j
    <3>4. /\ ms[j].kind = IF Even(j) THEN "turn" ELSE "results"
          /\ ms[j].n = ms[1].n + Half(j)
      BY <2>0, <3>1 DEF Alternates
    <3>5. cs[k].n = ms[1].n + ((Half(s) - 1) + Half(k))
      BY <3>2, <3>3, <3>4, Zenon
    <3>6. ms[1].n + ((Half(s) - 1) + Half(k)) = (ms[1].n + (Half(s) - 1)) + Half(k)
      <4>1. ms[1].n \in Nat /\ Half(s) \in Nat /\ Half(k) \in Nat
        BY <2>3, <2>4, <3>3, Zenon
      <4> QED BY <4>1, SumsRegrouped, Zenon
    <3>7. cs[k].n = cs[1].n + Half(k)
      BY <2>6, <3>5, <3>6, Zenon
    <3> QED BY <3>2, <3>3, <3>4, <3>7, Zenon
  <2>8. Alternates(cs)
    BY <2>6, <2>7 DEF Alternates
  <2>9. Odd(Len(cs)) /\ (Half(s) - 1) + Half(Len(cs)) = Half(Len(ms)) /\ Half(Len(cs)) \in Nat
    BY <2>0, <2>1, <2>2, <2>3, Halves
  <2>10. i = cs[1].n + Half(Len(cs))
    BY <2>0, <2>3, <2>4, <2>6, <2>9
  <2> QED BY <2>8, <2>9, <2>10, WellFormedParts DEF cs
<1> QED BY <1>1, <1>2

(* A conversation of the prompt alone, before the first iteration.         *)
LEMMA PromptWellFormed == \A o \in BOOLEAN : WellFormed(<<Prompt(o)>>, 0)
<1> TAKE o \in BOOLEAN
<1>1. Len(<<Prompt(o)>>) = 1 /\ <<Prompt(o)>>[1] = Message("prompt", 0, o)
  BY DEF Prompt
<1>2. Odd(1) /\ Half(1) = 0
  BY DEF Odd, Half
<1>3. Alternates(<<Prompt(o)>>)
  BY <1>1 DEF Alternates, Message
<1>4. 0 = <<Prompt(o)>>[1].n + Half(1)
  BY <1>1, <1>2 DEF Message
<1> QED BY <1>1, <1>2, <1>3, <1>4, WellFormedParts

LEMMA MessagesTyped ==
    /\ \A n \in Nat : Turn(n) \in Messages /\ Results(n) \in Messages
    /\ Nudge \in Messages
BY DEF Turn, Results, Nudge, Message, Messages

LEMMA TurnAdded ==
    ASSUME NEW ms, IsConversation(ms), NEW i \in Nat, WellFormed(ms, i)
    PROVE  OpenTurn(Append(ms, Turn(i + 1)), i + 1)
<1> DEFINE ext == Append(ms, Turn(i + 1))
<1>0. /\ Odd(Len(ms)) /\ Alternates(ms) /\ i = ms[1].n + Half(Len(ms))
      /\ Len(ms) \in Nat
  BY WellFormedParts DEF IsConversation
<1>1. /\ Len(ext) = Len(ms) + 1 /\ ext[Len(ms) + 1] = Turn(i + 1)
      /\ \A k \in 1..Len(ms) : ext[k] = ms[k]
  BY MessagesTyped, AppendProperties DEF IsConversation
<1> HIDE DEF ext
<1>2. Len(ms) >= 1 /\ Even(Len(ext)) /\ Half(Len(ext)) = Half(Len(ms)) + 1
      /\ Half(Len(ms)) \in Nat
  BY <1>0, <1>1, Halves
<1>3. ms[1].n \in Nat /\ ext[1] = ms[1]
  <2>1. 1 \in 1..Len(ms)
    BY <1>0, <1>2
  <2>2. ms[1] \in Messages
    BY <2>1 DEF IsConversation
  <2>3. ext[1] = ms[1]
    BY <1>1, <2>1
  <2> QED BY <2>2, <2>3 DEF Messages
<1>4. i + 1 = ext[1].n + Half(Len(ext))
  <2>1. (ms[1].n + Half(Len(ms))) + 1 = ms[1].n + (Half(Len(ms)) + 1)
    BY <1>2, <1>3, SumsRegrouped, Zenon
  <2> QED BY <1>0, <1>2, <1>3, <2>1, Zenon
<1>5. ASSUME NEW k \in 2..Len(ext)
      PROVE  /\ ext[k].kind = IF Even(k) THEN "turn" ELSE "results"
             /\ ext[k].n = ext[1].n + Half(k)
  <2>1. CASE k \in 2..Len(ms)
    <3>1. ext[k] = ms[k]
      BY <1>0, <1>1, <2>1
    <3> QED BY <1>0, <1>3, <2>1, <3>1 DEF Alternates
  <2>2. CASE k = Len(ext)
    <3>1. ext[k].kind = "turn" /\ ext[k].n = i + 1
      BY <1>1, <2>2 DEF Turn, Message
    <3> QED BY <1>2, <1>4, <2>2, <3>1, Zenon
  <2> QED BY <1>0, <1>1, <2>1, <2>2
<1>6. Alternates(ext)
  BY <1>0, <1>3, <1>5 DEF Alternates
<1>7. Len(ext) > 0
  BY <1>0, <1>1
<1> QED BY <1>2, <1>4, <1>6, <1>7 DEF OpenTurn, ext

LEMMA ResultsAdded ==
    ASSUME NEW ms, IsConversation(ms), NEW i \in Nat, OpenTurn(ms, i)
    PROVE  WellFormed(Append(ms, Results(i)), i)
<1> DEFINE ext == Append(ms, Results(i))
<1>0. /\ Len(ms) > 0 /\ Even(Len(ms)) /\ Alternates(ms) /\ i = ms[1].n + Half(Len(ms))
      /\ Len(ms) \in Nat
  BY DEF OpenTurn, IsConversation
<1>1. /\ Len(ext) = Len(ms) + 1 /\ ext[Len(ms) + 1] = Results(i)
      /\ \A k \in 1..Len(ms) : ext[k] = ms[k]
  BY MessagesTyped, AppendProperties DEF IsConversation
<1> HIDE DEF ext
<1>2. Odd(Len(ext)) /\ Half(Len(ext)) = Half(Len(ms)) /\ Half(Len(ms)) \in Nat
      /\ Len(ext) \in Nat
  BY <1>0, <1>1, Halves
<1>3. ext[1] = ms[1]
  BY <1>0, <1>1
<1>4. ASSUME NEW k \in 2..Len(ext)
      PROVE  /\ ext[k].kind = IF Even(k) THEN "turn" ELSE "results"
             /\ ext[k].n = ext[1].n + Half(k)
  <2>1. CASE k \in 2..Len(ms)
    <3>1. ext[k] = ms[k]
      BY <1>0, <1>1, <2>1
    <3> QED BY <1>0, <1>3, <2>1, <3>1 DEF Alternates
  <2>2. CASE k = Len(ext)
    <3>1. ext[k].kind = "results" /\ ext[k].n = i
      BY <1>1, <2>2 DEF Results, Message
    <3>2. ~Even(k)
      BY <1>2, <2>2, Halves
    <3> QED BY <1>0, <1>2, <1>3, <2>2, <3>1, <3>2
  <2> QED BY <1>0, <1>1, <2>1, <2>2
<1>5. Alternates(ext)
  BY <1>0, <1>3, <1>4 DEF Alternates
<1> QED BY <1>0, <1>2, <1>3, <1>5, WellFormedParts DEF ext

LEMMA BeforeOfAppend ==
    ASSUME NEW ms \in Seq(Messages), NEW m \in Messages
    PROVE  Before(Append(ms, m)) = ms
<1> DEFINE ext == Append(ms, m)
<1>1. /\ Len(ext) = Len(ms) + 1 /\ Len(ms) \in Nat
      /\ \A k \in 1..Len(ms) : ext[k] = ms[k] /\ ms[k] \in Messages
  BY AppendProperties
<1> HIDE DEF ext
<1>2. Before(ext) = SubSeq(ext, 1, Len(ms))
  BY <1>1 DEF Before
<1>3. /\ SubSeq(ext, 1, Len(ms)) \in Seq(Messages)
      /\ Len(SubSeq(ext, 1, Len(ms))) = Len(ms)
      /\ \A k \in 1..Len(ms) : SubSeq(ext, 1, Len(ms))[k] = ms[k]
  <2>1. /\ SubSeq(ext, 1, Len(ms)) \in Seq(Messages)
        /\ Len(SubSeq(ext, 1, Len(ms))) = IF 1 <= Len(ms) THEN Len(ms) - 1 + 1 ELSE 0
        /\ \A k \in 1..(Len(ms) - 1 + 1) : SubSeq(ext, 1, Len(ms))[k] = ext[1 + k - 1]
    BY <1>1, SubSeqProperties
  <2>2. \A k \in 1..Len(ms) : 1 + k - 1 = k
    BY <1>1
  <2> QED BY <1>1, <2>1, <2>2
<1>4. SubSeq(ext, 1, Len(ms)) = ms
  BY <1>1, <1>3, SeqEqual
<1> QED BY <1>2, <1>4 DEF ext

LEMMA NudgeAdded ==
    ASSUME NEW ms, IsConversation(ms), NEW i \in Nat, OpenTurn(ms, i)
    PROVE  LET ext == Append(Append(ms, Results(i)), Nudge) IN ext # <<>> /\ NudgedAt(ext, i)
<1> DEFINE rs  == Append(ms, Results(i))
           ext == Append(rs, Nudge)
<1>1. rs \in Seq(Messages) /\ WellFormed(rs, i)
  BY MessagesTyped, AppendProperties, ResultsAdded DEF IsConversation
<1> HIDE DEF rs
<1>2. ext # <<>> /\ Len(ext) = Len(rs) + 1 /\ ext[Len(rs) + 1] = Nudge
  BY <1>1, MessagesTyped, AppendProperties
<1>3. Before(ext) = rs
  BY <1>1, MessagesTyped, BeforeOfAppend
<1> HIDE DEF ext
<1>4. NudgedAt(ext, i)
  BY <1>1, <1>2, <1>3 DEF NudgedAt
<1> QED BY <1>2, <1>4 DEF ext, rs

-----------------------------------------------------------------------------
(* Every variable holds a value the program can hold.                      *)

LEMMA FilesTyped ==
    /\ \A i \in Nat, ms \in Seq(Messages) : Whole(i, ms) \in Files
    /\ \A f \in Files : f.iter \in Nat /\ f.msgs \in Seq(Messages)
    /\ NoFile \in Files /\ Truncated \in Files /\ Mixed \in Files
BY DEF Files, Messages, Whole, NoFile, Truncated, Mixed

LEMMA FileFields ==
    /\ \A i, ms : Whole(i, ms).state = "whole" /\ Whole(i, ms).iter = i /\ Whole(i, ms).msgs = ms
    /\ NoFile.state = "none" /\ NoFile.iter = 0
    /\ Truncated.state = "truncated" /\ Truncated.iter = 0
    /\ Mixed.state = "mixed" /\ Mixed.iter = 0
BY DEF Whole, NoFile, Truncated, Mixed

(* What the files of the directories may be.                               *)
FilesOK(fs) == fs \in [Dirs -> Files] /\ \A d \in Dirs : fs[d].iter <= MaxTurns

LEMMA FilePut ==
    ASSUME NEW fs, FilesOK(fs), NEW p \in Procs, NEW f \in Files, f.iter <= MaxTurns,
           NEW ft, ft = [fs EXCEPT ![Dir(p)] = f]
    PROVE  FilesOK(ft)
BY ProcsAssumption DEF Dir, FilesOK

LEMMA TypeInvTyped == TypeInv => TypeOK
<1> SUFFICES ASSUME TypeInv PROVE TypeOK
  OBVIOUS
<1>1. \A p \in Procs : Whole(iter[p], msgs[p]) \in Files
  BY FilesTyped, SizesAssumption DEF TypeInv
<1> QED BY <1>1 DEF TypeInv, TypeOK, PCs

LEMMA TypeInvInit == Init => TypeInv
BY FilesTyped, FileFields, SizesAssumption DEF Init, TypeInv, PCs, Ended

LEMMA EndTyped ==
    ASSUME TypeInv, NEW p \in Procs, NEW how \in Ended, End(p, how)
    PROVE  /\ pc' \in [Procs -> PCs] /\ iter' \in [Procs -> 0..(MaxTurns + 1)]
           /\ msgs' \in [Procs -> Seq(Messages)] /\ orig' \in [Procs -> BOOLEAN]
           /\ errs' \in [Procs -> 0..BailAt]
           /\ \A q \in Procs : pc'[q] # "delete" => iter'[q] <= MaxTurns
           /\ \A q \in Procs : pc'[q] # "wrapup" => errs'[q] < BailAt
           /\ pc'[p] = how /\ iter'[p] = 0 /\ msgs'[p] = <<>> /\ orig'[p] = TRUE
           /\ \A q \in Procs : q # p => /\ pc'[q] = pc[q] /\ iter'[q] = iter[q]
                                        /\ msgs'[q] = msgs[q] /\ orig'[q] = orig[q]
BY SizesAssumption DEF TypeInv, End, GoTo, PCs

LEMMA MovesTyped ==
    ASSUME TypeInv, NEW p \in Procs, pc[p] \notin {"delete", "wrapup"}, NEW to \in PCs, GoTo(p, to)
    PROVE  /\ pc' \in [Procs -> PCs] /\ pc'[p] = to
           /\ \A q \in Procs : q # p => pc'[q] = pc[q]
           /\ iter' = iter => \A q \in Procs : pc'[q] # "delete" => iter'[q] <= MaxTurns
           /\ errs' = errs => \A q \in Procs : pc'[q] # "wrapup" => errs'[q] < BailAt
BY DEF TypeInv, GoTo

LEMMA TypeInvStep == TypeInv /\ [Next]_vars => TypeInv'
<1> SUFFICES ASSUME TypeInv, [Next]_vars PROVE TypeInv'
  OBVIOUS
<1>0. /\ PCs = {"off", "load", "call", "tools", "wrapup", "open", "write", "rename", "delete",
                "completed", "transient", "permanent", "crashed"}
      /\ Ended \subseteq PCs /\ \A p \in Procs : Dir(p) \in Dirs
  BY ProcsAssumption DEF PCs, Ended, Dir
<1>1. ASSUME NEW p \in Procs, Start(p) PROVE TypeInv'
  BY <1>0, <1>1, MovesTyped DEF Start, TypeInv
<1>2. ASSUME NEW p \in Procs, Resume(p) PROVE TypeInv'
  <2>1. (~Adhoc) \in BOOLEAN
    OBVIOUS
  <2>2. orig' \in [Procs -> BOOLEAN]
    BY <1>2, <2>1 DEF Resume, TypeInv
  <2> QED BY <1>0, <1>2, <2>2, MovesTyped DEF Resume, TypeInv
<1>3. ASSUME NEW p \in Procs, Load(p) PROVE TypeInv'
  <2>1. /\ file[Dir(p)].iter \in 0..MaxTurns /\ file[Dir(p)].msgs \in Seq(Messages)
        /\ <<Prompt(orig[p])>> \in Seq(Messages) /\ MaxTurns \in Nat
    BY <1>0, FilesTyped, SizesAssumption DEF TypeInv, Prompt, Message, Messages
  <2>2. iter' \in [Procs -> 0..(MaxTurns + 1)] /\ msgs' \in [Procs -> Seq(Messages)]
    <3>1. iter' = [iter EXCEPT ![p] = file[Dir(p)].iter] \/ iter' = iter
      BY <1>3 DEF Load
    <3>2. \/ msgs' = [msgs EXCEPT ![p] = file[Dir(p)].msgs]
          \/ msgs' = [msgs EXCEPT ![p] = <<Prompt(orig[p])>>]
      BY <1>3 DEF Load
    <3>3. file[Dir(p)].iter \in 0..(MaxTurns + 1)
      BY <2>1
    <3> QED BY <2>1, <3>1, <3>2, <3>3 DEF TypeInv
  <2>3. \A q \in Procs : pc'[q] # "delete" => iter'[q] <= MaxTurns
    BY <1>3, <2>1 DEF Load, TypeInv, GoTo
  <2> QED BY <1>0, <1>3, <2>2, <2>3, MovesTyped DEF Load, TypeInv
<1>4. ASSUME NEW p \in Procs, NEW how \in {"transient", "permanent"}, CallFails(p, how)
      PROVE  TypeInv'
  BY <1>4, EndTyped DEF CallFails, TypeInv, Ended
<1>5. ASSUME NEW p \in Procs, NEW compact \in BOOLEAN, NEW tools \in BOOLEAN,
             Respond(p, compact, tools)
      PROVE  TypeInv'
  <2>1. iter[p] \in Nat /\ iter[p] <= MaxTurns /\ (tools => iter[p] < MaxTurns)
    BY <1>5, SizesAssumption DEF Respond, TypeInv
  <2>2. iter' \in [Procs -> 0..(MaxTurns + 1)]
    BY <1>5, <2>1, SizesAssumption DEF Respond, TypeInv
  <2>3. \A q \in Procs : pc'[q] # "delete" => iter'[q] <= MaxTurns
    BY <1>5, <2>1, SizesAssumption DEF Respond, TypeInv, GoTo
  <2>4. msgs' \in [Procs -> Seq(Messages)]
    <3>1. /\ Compact(msgs[p], orig[p]) \in Seq(Messages) /\ msgs[p] \in Seq(Messages)
          /\ Turn(iter[p] + 1) \in Messages
      BY <2>1, CompactTyped, MessagesTyped DEF TypeInv
    <3>2. Append(IF compact THEN Compact(msgs[p], orig[p]) ELSE msgs[p], Turn(iter[p] + 1))
            \in Seq(Messages)
      BY <3>1, AppendProperties
    <3> QED BY <1>5, <3>2 DEF Respond, TypeInv
  <2>5. pc' \in [Procs -> PCs] /\ \A q \in Procs : pc'[q] # "wrapup" => errs'[q] < BailAt
    BY <1>0, <1>5 DEF Respond, TypeInv, GoTo
  <2> QED BY <1>5, <2>2, <2>3, <2>4, <2>5 DEF Respond, TypeInv
<1>6. ASSUME NEW p \in Procs, NEW ok \in BOOLEAN, RunTools(p, ok) PROVE TypeInv'
  <2>1. /\ errs' = [errs EXCEPT ![p] = IF ok THEN 0 ELSE errs[p] + 1]
        /\ (IF ok THEN 0 ELSE errs[p] + 1) \in 0..BailAt
    <3>1. errs' = [errs EXCEPT ![p] = IF ok THEN 0 ELSE errs[p] + 1] /\ pc[p] = "tools"
      BY <1>6 DEF RunTools
    <3>2. errs[p] \in 0..BailAt /\ errs[p] < BailAt
      BY <3>1 DEF TypeInv
    <3> QED BY <3>1, <3>2, SizesAssumption
  <2>2. /\ Append(msgs[p], Results(iter[p])) \in Seq(Messages)
        /\ Append(Append(msgs[p], Results(iter[p])), Nudge) \in Seq(Messages)
    BY MessagesTyped, AppendProperties, SizesAssumption DEF TypeInv
  <2>3. msgs' \in [Procs -> Seq(Messages)]
    <3>1. \/ msgs' = [msgs EXCEPT ![p] = Append(@, Results(iter[p]))]
          \/ msgs' = [msgs EXCEPT ![p] = Append(Append(@, Results(iter[p])), Nudge)]
      BY <1>6 DEF RunTools
    <3> QED BY <2>2, <3>1 DEF TypeInv
  <2>4. pc' \in [Procs -> PCs] /\ \A q \in Procs : pc'[q] # "delete" => iter'[q] <= MaxTurns
    BY <1>0, <1>6, MovesTyped DEF RunTools
  <2>5. \A q \in Procs : pc'[q] # "wrapup" => errs'[q] < BailAt
    <3>1. CASE ~ok /\ errs[p] + 1 >= BailAt
      BY <1>6, <2>1, <3>1 DEF RunTools, GoTo, TypeInv
    <3>2. CASE ~(~ok /\ errs[p] + 1 >= BailAt)
      <4>1. (IF ok THEN 0 ELSE errs[p] + 1) < BailAt
        BY <3>2, SizesAssumption DEF TypeInv
      <4>2. GoTo(p, "open")
        BY <1>6, <3>2 DEF RunTools
      <4> QED BY <2>1, <4>1, <4>2 DEF GoTo, TypeInv
    <3> QED BY <3>1, <3>2
  <2> QED BY <1>6, <2>1, <2>3, <2>4, <2>5 DEF RunTools, TypeInv
<1>7. ASSUME NEW p \in Procs, SaveOpens(p) PROVE TypeInv'
  <2>1. tmp' \in [Dirs -> Files] /\ \A d \in Dirs : tmp'[d].iter <= MaxTurns
    BY <1>0, <1>7, FilesTyped, FileFields, SizesAssumption DEF SaveOpens, TypeInv
  <2>2. opened' \in [Procs -> {"none", "tmp", "file", "gone"}]
    BY <1>7 DEF SaveOpens, TypeInv
  <2> QED BY <1>0, <1>7, <2>1, <2>2, MovesTyped DEF SaveOpens, TypeInv
<1>8. ASSUME NEW p \in Procs, SaveWrites(p) PROVE TypeInv'
  <2>1. \A g : \A f \in Written(g, p) : f \in Files /\ f.iter <= MaxTurns
    BY <1>8, FilesTyped, FileFields, SizesAssumption DEF SaveWrites, Written, TypeInv
  <2>2. \/ UNCHANGED <<tmp, file>>
        \/ (\E f \in Written(tmp[Dir(p)], p) : tmp' = [tmp EXCEPT ![Dir(p)] = f])
             /\ UNCHANGED file
        \/ (\E f \in Written(file[Dir(p)], p) : file' = [file EXCEPT ![Dir(p)] = f])
             /\ UNCHANGED tmp
    BY <1>8 DEF SaveWrites, TypeInv
  <2>3. /\ tmp' \in [Dirs -> Files] /\ file' \in [Dirs -> Files]
        /\ \A d \in Dirs : tmp'[d].iter <= MaxTurns /\ file'[d].iter <= MaxTurns
    <3>1. FilesOK(tmp) /\ FilesOK(file)
      BY DEF FilesOK, TypeInv
    <3>2. FilesOK(tmp') /\ FilesOK(file')
      BY <2>1, <2>2, <3>1, FilePut
    <3> QED BY <3>2 DEF FilesOK
  <2>4. opened' \in [Procs -> {"none", "tmp", "file", "gone"}]
    BY <1>8 DEF SaveWrites, TypeInv
  <2> QED BY <1>0, <1>8, <2>3, <2>4, MovesTyped DEF SaveWrites, TypeInv
<1>9. ASSUME NEW p \in Procs, SaveFails(p) PROVE TypeInv'
  BY <1>0, <1>9, MovesTyped DEF SaveFails, TypeInv
<1>10. ASSUME NEW p \in Procs, SaveRenames(p) PROVE TypeInv'
  <2>1. CASE tmp[Dir(p)] # NoFile
    <3>1. /\ tmp' \in [Dirs -> Files] /\ file' \in [Dirs -> Files]
          /\ \A d \in Dirs : tmp'[d].iter <= MaxTurns /\ file'[d].iter <= MaxTurns
      <4>1. NoFile.iter <= MaxTurns /\ tmp[Dir(p)] \in Files /\ tmp[Dir(p)].iter <= MaxTurns
        BY <1>0, FileFields, SizesAssumption DEF TypeInv
      <4>2. FilesOK(tmp) /\ FilesOK(file)
        BY DEF FilesOK, TypeInv
      <4>3. FilesOK(tmp') /\ FilesOK(file')
        BY <1>10, <2>1, <4>1, <4>2, FilesTyped, FilePut DEF SaveRenames
      <4> QED BY <4>3 DEF FilesOK
    <3>2. opened' \in [Procs -> {"none", "tmp", "file", "gone"}]
      BY <1>10, <2>1 DEF SaveRenames, TypeInv
    <3> QED BY <1>0, <1>10, <3>1, <3>2, MovesTyped DEF SaveRenames, TypeInv
  <2>2. CASE tmp[Dir(p)] = NoFile
    BY <1>0, <1>10, <2>2, MovesTyped DEF SaveRenames, TypeInv
  <2> QED BY <2>1, <2>2
<1>11. ASSUME NEW p \in Procs, Delete(p) PROVE TypeInv'
  <2>1. file' \in [Dirs -> Files] /\ \A d \in Dirs : file'[d].iter <= MaxTurns
    <3>1. NoFile.iter <= MaxTurns
      BY FileFields, SizesAssumption
    <3>2. FilesOK(file)
      BY DEF FilesOK, TypeInv
    <3>3. FilesOK(file')
      BY <1>11, <3>1, <3>2, FilesTyped, FilePut DEF Delete
    <3> QED BY <3>3 DEF FilesOK
  <2>2. opened' \in [Procs -> {"none", "tmp", "file", "gone"}]
    BY <1>11 DEF Delete, TypeInv
  <2> QED BY <1>11, <2>1, <2>2, EndTyped DEF Delete, TypeInv, Ended
<1>12. ASSUME NEW p \in Procs, Crash(p) PROVE TypeInv'
  BY <1>12, EndTyped DEF Crash, TypeInv, Ended
<1>13. ASSUME NEW p \in Procs, WrapUp(p) PROVE TypeInv'
  BY <1>13, EndTyped DEF WrapUp, TypeInv, Ended
<1>14. ASSUME NEW p \in Procs, SaveRenameFails(p) PROVE TypeInv'
  <2>1. tmp' \in [Dirs -> Files] /\ \A d \in Dirs : tmp'[d].iter <= MaxTurns
    <3>1. NoFile.iter <= MaxTurns
      BY FileFields, SizesAssumption
    <3>2. FilesOK(tmp)
      BY DEF FilesOK, TypeInv
    <3>3. FilesOK(tmp')
      BY <1>14, <3>1, <3>2, FilesTyped, FilePut DEF SaveRenameFails
    <3> QED BY <3>3 DEF FilesOK
  <2>2. opened' \in [Procs -> {"none", "tmp", "file", "gone"}]
    BY <1>14 DEF SaveRenameFails, TypeInv
  <2> QED BY <1>0, <1>14, <2>1, <2>2, MovesTyped DEF SaveRenameFails, TypeInv
<1>15. CASE UNCHANGED vars
  BY <1>15 DEF vars, TypeInv
<1> QED
  BY <1>1, <1>2, <1>3, <1>4, <1>5, <1>6, <1>7, <1>8, <1>9, <1>10, <1>11, <1>12, <1>13, <1>14,
     <1>15
     DEF Next, Step, Idle

-----------------------------------------------------------------------------
(* A step of one execution, and what it leaves of the others'.             *)

StepOf(p) == Start(p) \/ Resume(p) \/ Step(p) \/ Crash(p)

LEMMA OthersKept ==
    ASSUME TypeInv, NEW p \in Procs, StepOf(p), NEW q \in Procs, q # p
    PROVE  pc'[q] = pc[q] /\ iter'[q] = iter[q] /\ msgs'[q] = msgs[q] /\ orig'[q] = orig[q]
BY DEF TypeInv, StepOf, Step, Start, Resume, Load, CallFails, Respond, RunTools, WrapUp,
       SaveOpens, SaveWrites, SaveFails, SaveRenames, SaveRenameFails, Delete, Crash, End, GoTo

(* What the files of the directories hold after a step of p: what they     *)
(* held, nothing to be read as a checkpoint, or the conversation of p.     *)
LEMMA FilesAfter ==
    ASSUME TypeInv, NEW p \in Procs, StepOf(p), NEW d \in Dirs,
           NEW f \in {tmp'[d], file'[d]}
    PROVE  \/ f \in {tmp[d], file[d]}
           \/ f.state # "whole"
           \/ pc[p] = "write" /\ f = Whole(iter[p], msgs[p])
<1>0. Dir(p) \in Dirs /\ tmp \in [Dirs -> Files] /\ file \in [Dirs -> Files]
  BY ProcsAssumption DEF Dir, TypeInv
<1>1. CASE UNCHANGED <<tmp, file>>
  BY <1>1
<1>2. CASE SaveOpens(p)
  BY <1>0, <1>2, FileFields DEF SaveOpens
<1>3. CASE SaveWrites(p)
  <2>1. \A g : \A h \in Written(g, p) : h = Whole(iter[p], msgs[p]) \/ h.state # "whole"
    BY FileFields DEF Written
  <2>2. \/ UNCHANGED <<tmp, file>>
        \/ (\E h \in Written(tmp[Dir(p)], p) : tmp' = [tmp EXCEPT ![Dir(p)] = h])
             /\ UNCHANGED file
        \/ (\E h \in Written(file[Dir(p)], p) : file' = [file EXCEPT ![Dir(p)] = h])
             /\ UNCHANGED tmp
    BY <1>3 DEF SaveWrites, TypeInv
  <2> QED BY <1>0, <1>3, <2>1, <2>2 DEF SaveWrites
<1>4. CASE SaveRenames(p)
  BY <1>0, <1>4, FileFields DEF SaveRenames
<1>5. CASE Delete(p)
  BY <1>0, <1>5, FileFields DEF Delete
<1>6. CASE SaveRenameFails(p)
  BY <1>0, <1>6, FileFields DEF SaveRenameFails
<1> QED BY <1>1, <1>2, <1>3, <1>4, <1>5, <1>6
      DEF StepOf, Step, Start, Resume, Load, CallFails, Respond, RunTools, WrapUp, SaveFails,
          Crash

-----------------------------------------------------------------------------
(* Conversations are well-formed.                                          *)

LEMMA ConversationsStep == TypeInv /\ Conversations /\ [Next]_vars => Conversations'
<1> SUFFICES ASSUME TypeInv, Conversations, [Next]_vars PROVE Conversations'
  OBVIOUS
<1>0. /\ \A p \in Procs : ConversesWell(p)
      /\ \A d \in Dirs : HoldsWell(tmp[d]) /\ HoldsWell(file[d])
      /\ pc \in [Procs -> PCs] /\ \A p \in Procs : Dir(p) \in Dirs
      /\ \A p \in Procs : IsConversation(msgs[p]) /\ iter[p] \in Nat /\ orig[p] \in BOOLEAN
  BY ProcsAssumption, SizesAssumption DEF Conversations, TypeInv, IsConversation, Dir
<1>1. ASSUME NEW p \in Procs, StepOf(p) PROVE ConversesWell(p)'
  <2>0. ConversesWell(p) /\ Ended = {"completed", "transient", "permanent", "crashed"}
    BY <1>0 DEF Ended
  <2>1. CASE Start(p) \/ Resume(p)
    BY <1>0, <2>0, <2>1 DEF Start, Resume, GoTo, ConversesWell
  <2>2. CASE Load(p)
    <3>1. pc'[p] = "call"
      BY <1>0, <2>2 DEF Load, GoTo
    <3>2. CASE file[Dir(p)].state = "whole"
      <4>1. msgs'[p] = file[Dir(p)].msgs /\ iter'[p] = file[Dir(p)].iter
        BY <2>2, <3>2 DEF Load, TypeInv
      <4>2. WellFormed(file[Dir(p)].msgs, file[Dir(p)].iter)
        BY <1>0, <3>2 DEF HoldsWell
      <4>3. WellFormed(msgs'[p], iter'[p])
        BY <4>1, <4>2
      <4> QED BY <2>0, <3>1, <4>3 DEF ConversesWell
    <3>3. CASE file[Dir(p)].state # "whole"
      <4>1. msgs'[p] = <<Prompt(orig[p])>> /\ iter'[p] = iter[p]
        BY <2>2, <3>3 DEF Load, TypeInv
      <4>2. iter[p] = 0
        BY <2>0, <2>2 DEF Load, ConversesWell
      <4>3. WellFormed(<<Prompt(orig[p])>>, 0)
        BY <1>0, PromptWellFormed, Zenon
      <4>4. WellFormed(msgs'[p], iter'[p])
        BY <4>1, <4>2, <4>3
      <4> QED BY <2>0, <3>1, <4>4 DEF ConversesWell
    <3> QED BY <3>2, <3>3
  <2>3. ASSUME NEW how \in Ended, End(p, how) PROVE ConversesWell(p)'
    BY <2>0, <2>3, EndTyped DEF ConversesWell
  <2>4. ASSUME NEW compact \in BOOLEAN, NEW tools \in BOOLEAN, Respond(p, compact, tools)
        PROVE  ConversesWell(p)'
    <3>1. WellFormed(msgs[p], iter[p])
      BY <2>0, <2>4 DEF Respond, ConversesWell
    <3> DEFINE ms == IF compact THEN Compact(msgs[p], orig[p]) ELSE msgs[p]
    <3>2. WellFormed(ms, iter[p]) /\ IsConversation(ms)
      BY <1>0, <3>1, CompactWellFormed, CompactTyped DEF IsConversation
    <3> HIDE DEF ms
    <3>3. OpenTurn(Append(ms, Turn(iter[p] + 1)), iter[p] + 1)
      BY <1>0, <3>2, TurnAdded
    <3>4. /\ iter'[p] = iter[p] + 1 /\ msgs'[p] = Append(ms, Turn(iter[p] + 1))
          /\ pc'[p] \in {"tools", "delete"}
      BY <2>4 DEF Respond, GoTo, TypeInv, ms
    <3>5. OpenTurn(msgs'[p], iter'[p])
      BY <3>3, <3>4
    <3> QED BY <2>0, <3>4, <3>5 DEF ConversesWell
  <2>5. ASSUME NEW ok \in BOOLEAN, RunTools(p, ok), pc'[p] = "open" PROVE ConversesWell(p)'
    <3>1. OpenTurn(msgs[p], iter[p])
      BY <2>0, <2>5 DEF RunTools, ConversesWell
    <3>2. WellFormed(Append(msgs[p], Results(iter[p])), iter[p])
      BY <1>0, <3>1, ResultsAdded
    <3>3. msgs'[p] = Append(msgs[p], Results(iter[p])) /\ iter'[p] = iter[p]
      BY <1>0, <2>5 DEF RunTools, GoTo, TypeInv
    <3>4. WellFormed(msgs'[p], iter'[p])
      BY <3>2, <3>3
    <3> QED BY <2>0, <2>5, <3>4 DEF ConversesWell
  <2>6. CASE SaveOpens(p) \/ SaveWrites(p) \/ SaveFails(p) \/ SaveRenames(p)
               \/ SaveRenameFails(p)
    <3>1. /\ pc[p] \in {"open", "write", "rename"} /\ pc'[p] \in {"call", "write", "rename"}
          /\ msgs' = msgs /\ iter' = iter
      BY <1>0, <2>6 DEF SaveOpens, SaveWrites, SaveFails, SaveRenames, SaveRenameFails, GoTo
    <3> QED BY <2>0, <3>1 DEF ConversesWell
  <2>7. ASSUME NEW ok \in BOOLEAN, RunTools(p, ok), pc'[p] # "open" PROVE ConversesWell(p)'
    <3>1. OpenTurn(msgs[p], iter[p])
      BY <2>0, <2>7 DEF RunTools, ConversesWell
    <3>2. /\ pc'[p] = "wrapup" /\ iter'[p] = iter[p]
          /\ msgs'[p] = Append(Append(msgs[p], Results(iter[p])), Nudge)
      BY <1>0, <2>7 DEF RunTools, GoTo, TypeInv
    <3>3. msgs'[p] # <<>> /\ NudgedAt(msgs'[p], iter'[p])
      BY <1>0, <3>1, <3>2, NudgeAdded
    <3> QED BY <2>0, <3>2, <3>3 DEF ConversesWell
  <2> QED BY <1>1, <2>0, <2>1, <2>2, <2>3, <2>4, <2>5, <2>6, <2>7
        DEF StepOf, Step, CallFails, WrapUp, Delete, Crash
<1>2. ASSUME NEW p \in Procs, StepOf(p) PROVE Conversations'
  <2>1. ASSUME NEW q \in Procs, q # p PROVE ConversesWell(q)'
    BY <1>0, <1>2, <2>1, OthersKept DEF ConversesWell
  <2>2. ASSUME NEW d \in Dirs, NEW f \in {tmp'[d], file'[d]} PROVE HoldsWell(f)
    <3>1. CASE f \in {tmp[d], file[d]} \/ f.state # "whole"
      BY <1>0, <3>1 DEF HoldsWell
    <3>2. CASE pc[p] = "write" /\ f = Whole(iter[p], msgs[p])
      BY <1>0, <3>2, FileFields DEF HoldsWell, ConversesWell
    <3> QED BY <1>2, <3>1, <3>2, FilesAfter
  <2>3. \A d \in Dirs : HoldsWell(tmp[d])' /\ HoldsWell(file[d])'
    BY <2>2 DEF HoldsWell
  <2> QED BY <1>1, <1>2, <2>1, <2>3 DEF Conversations
<1>3. CASE UNCHANGED vars
  BY <1>3 DEF vars, Conversations, ConversesWell, HoldsWell
<1> QED BY <1>2, <1>3 DEF Next, StepOf, Idle

LEMMA ConversationsInit == Init => Conversations
BY FileFields DEF Init, Conversations, ConversesWell, HoldsWell, Ended

LEMMA ConversationsAlways == Spec => [](TypeInv /\ Conversations)
<1>1. Init => TypeInv /\ Conversations
  BY TypeInvInit, ConversationsInit
<1>2. (TypeInv /\ Conversations) /\ [Next]_vars => (TypeInv /\ Conversations)'
  BY TypeInvStep, ConversationsStep
<1> QED BY <1>1, <1>2, PTL DEF Spec

(* Whatever is compacted, retried, resumed, saved, failing or crashing, by *)
(* one execution or by several at a time: every variable of runLoop and of *)
(* the session store holds a value of its type.                            *)
THEOREM LoopTypeCorrect == Spec => []TypeOK
BY ConversationsAlways, TypeInvTyped, PTL

(* What runLoop sends to the messages API for an iteration, and what a     *)
(* checkpoint restores, is a conversation whose turns and results          *)
(* alternate and which covers every iteration, whatever the number of      *)
(* executions and of messages that compactContext keeps; what it sends for *)
(* a wrap-up is such a conversation and one user message more, the nudge.  *)
THEOREM ConversationCorrect == Spec => []ConversationWellFormed
<1>1. Conversations => ConversationWellFormed
  BY DEF Conversations, ConversesWell, HoldsWell, NudgedAt, ConversationWellFormed
<1> QED BY <1>1, ConversationsAlways, PTL

-----------------------------------------------------------------------------
(* The agent never loses the prompt, in a run of a task.                   *)

LEMMA PromptedInit == Init => Prompted
BY FileFields DEF Init, Prompted, BeginsWithPrompt, HoldsPrompt

LEMMA AppendKeepsPrompt ==
    ASSUME NEW ms, IsConversation(ms), ms # <<>>, BeginsWithPrompt(ms), NEW m \in Messages
    PROVE  BeginsWithPrompt(Append(ms, m))
<1>1. Len(ms) \in Nat /\ Len(ms) >= 1
  BY DEF IsConversation
<1>2. Append(ms, m)[1] = ms[1]
  BY <1>1, AppendProperties DEF IsConversation
<1> QED BY <1>2 DEF BeginsWithPrompt

LEMMA ConversesOpen ==
    ASSUME TypeInv, Conversations, NEW p \in Procs, pc[p] \in {"call", "tools", "wrapup"}
    PROVE  msgs[p] # <<>>
<1>1. Odd(Len(msgs[p])) \/ Len(msgs[p]) > 0 \/ msgs[p] # <<>>
  BY WellFormedParts DEF Conversations, ConversesWell, OpenTurn
<1>2. Len(<<>>) = 0 /\ ~Odd(0)
  BY DEF Odd
<1> QED BY <1>1, <1>2

LEMMA PromptedStep ==
    ASSUME ~Adhoc
    PROVE  TypeInv /\ Conversations /\ Prompted /\ [Next]_vars => Prompted'
<1> SUFFICES ASSUME TypeInv, Conversations, Prompted, [Next]_vars PROVE Prompted'
  OBVIOUS
<1>0. /\ \A p \in Procs : orig[p] = TRUE /\ BeginsWithPrompt(msgs[p]) /\ Dir(p) \in Dirs
      /\ \A p \in Procs : IsConversation(msgs[p]) /\ iter[p] \in Nat
      /\ \A d \in Dirs : HoldsPrompt(tmp[d]) /\ HoldsPrompt(file[d])
  BY ProcsAssumption, SizesAssumption DEF Prompted, TypeInv, IsConversation, Dir
<1>1. ASSUME NEW p \in Procs, StepOf(p) PROVE orig'[p] = TRUE /\ BeginsWithPrompt(msgs'[p])
  <2>1. CASE msgs' = msgs
    <3>1. orig' = orig \/ orig' = [orig EXCEPT ![p] = ~Adhoc]
                       \/ orig' = [orig EXCEPT ![p] = TRUE]
      BY <1>1, <2>1 DEF StepOf, Step, Start, Resume, Load, CallFails, Respond, RunTools, WrapUp,
           SaveOpens, SaveWrites, SaveFails, SaveRenames, SaveRenameFails, Delete, Crash, End
    <3>2. orig'[p] = TRUE
      BY <1>0, <3>1 DEF TypeInv
    <3> QED BY <1>0, <2>1, <3>2
  <2>2. CASE Load(p)
    <3>1. \/ file[Dir(p)].state = "whole" /\ msgs'[p] = file[Dir(p)].msgs
          \/ msgs'[p] = <<Prompt(orig[p])>>
      BY <2>2 DEF Load, TypeInv
    <3>2. <<Prompt(orig[p])>>[1].orig = TRUE
      BY <1>0 DEF Prompt, Message
    <3> QED BY <1>0, <2>2, <3>1, <3>2 DEF Load, HoldsPrompt, BeginsWithPrompt
  <2>3. ASSUME NEW how \in Ended, End(p, how) PROVE orig'[p] = TRUE /\ BeginsWithPrompt(msgs'[p])
    BY <2>3, EndTyped DEF BeginsWithPrompt
  <2>4. ASSUME NEW compact \in BOOLEAN, NEW tools \in BOOLEAN, Respond(p, compact, tools)
        PROVE  orig'[p] = TRUE /\ BeginsWithPrompt(msgs'[p])
    <3>1. msgs[p] # <<>>
      BY <2>4, ConversesOpen DEF Respond
    <3> DEFINE ms == IF compact THEN Compact(msgs[p], orig[p]) ELSE msgs[p]
    <3>2. ms # <<>> /\ IsConversation(ms) /\ BeginsWithPrompt(ms)
      BY <1>0, <3>1, CompactKeepsPrompt, CompactTyped DEF IsConversation, BeginsWithPrompt
    <3> HIDE DEF ms
    <3>3. BeginsWithPrompt(Append(ms, Turn(iter[p] + 1)))
      BY <1>0, <3>2, AppendKeepsPrompt, MessagesTyped
    <3>4. msgs'[p] = Append(ms, Turn(iter[p] + 1)) /\ orig' = orig
      BY <2>4 DEF Respond, TypeInv, ms
    <3> QED BY <1>0, <3>3, <3>4
  <2>5. ASSUME NEW ok \in BOOLEAN, RunTools(p, ok)
        PROVE  orig'[p] = TRUE /\ BeginsWithPrompt(msgs'[p])
    <3> DEFINE rs == Append(msgs[p], Results(iter[p]))
    <3>1. BeginsWithPrompt(rs) /\ IsConversation(rs) /\ rs # <<>>
      <4>1. msgs[p] # <<>> /\ Results(iter[p]) \in Messages
        BY <1>0, <2>5, ConversesOpen, MessagesTyped DEF RunTools
      <4>2. BeginsWithPrompt(rs)
        BY <1>0, <4>1, AppendKeepsPrompt
      <4> QED BY <1>0, <4>1, <4>2, AppendProperties DEF IsConversation
    <3> HIDE DEF rs
    <3>2. BeginsWithPrompt(Append(rs, Nudge))
      BY <3>1, AppendKeepsPrompt, MessagesTyped
    <3>3. (msgs'[p] = rs \/ msgs'[p] = Append(rs, Nudge)) /\ orig' = orig
      BY <2>5 DEF RunTools, TypeInv, rs
    <3> QED BY <1>0, <3>1, <3>2, <3>3
  <2>6. CASE Start(p) \/ Resume(p) \/ SaveOpens(p) \/ SaveWrites(p) \/ SaveFails(p) \/ SaveRenames(p)
               \/ SaveRenameFails(p)
    BY <2>1, <2>6 DEF Start, Resume, SaveOpens, SaveWrites, SaveFails, SaveRenames, SaveRenameFails
  <2>7. Ended = {"completed", "transient", "permanent", "crashed"}
    BY DEF Ended
  <2> QED BY <1>1, <2>2, <2>3, <2>4, <2>5, <2>6, <2>7
        DEF StepOf, Step, CallFails, WrapUp, Delete, Crash
<1>2. ASSUME NEW p \in Procs, StepOf(p) PROVE Prompted'
  <2>1. ASSUME NEW q \in Procs, q # p PROVE orig'[q] = TRUE /\ BeginsWithPrompt(msgs'[q])
    BY <1>0, <1>2, <2>1, OthersKept
  <2>2. ASSUME NEW d \in Dirs, NEW f \in {tmp'[d], file'[d]} PROVE HoldsPrompt(f)
    <3>1. CASE f \in {tmp[d], file[d]} \/ f.state # "whole"
      BY <1>0, <3>1 DEF HoldsPrompt
    <3>2. CASE f = Whole(iter[p], msgs[p])
      BY <1>0, <3>2, FileFields DEF HoldsPrompt
    <3> QED BY <1>2, <3>1, <3>2, FilesAfter
  <2> QED BY <1>1, <1>2, <2>1, <2>2 DEF Prompted, HoldsPrompt, BeginsWithPrompt
<1>3. CASE UNCHANGED vars
  BY <1>3 DEF vars, Prompted, BeginsWithPrompt, HoldsPrompt
<1> QED BY <1>2, <1>3 DEF Next, StepOf, Idle

(* A task's agent never loses the original prompt, however often the       *)
(* conversation is compacted and the run resumed: for compactContext is    *)
(* given the prompt, and `resume` reads it again from the task.  Of an     *)
(* ad-hoc run this does not hold.                                          *)
THEOREM PromptCorrect == ASSUME ~Adhoc PROVE Spec => []PromptKept
<1>1. TypeInv /\ Conversations /\ Prompted => PromptKept
  BY ConversesOpen DEF Prompted, BeginsWithPrompt, PromptKept
<1>2. Init => Prompted
  BY PromptedInit
<1>3. TypeInv /\ Conversations /\ Prompted /\ [Next]_vars => Prompted'
  BY PromptedStep
<1> QED BY <1>1, <1>2, <1>3, ConversationsAlways, PTL DEF Spec

-----------------------------------------------------------------------------
(* One execution at a time: a task's run, its retries and the resumes that *)
(* come when nothing of it is running.                                     *)

LEMMA SequentialInit == Init => Sequential
BY ProcsAssumption, FileFields
   DEF Init, Sequential, OneActive, Active, SavesAlone, FilesWhole, Ahead, Dir

(* Where an execution takes a step, no other one is active.                *)
LEMMA Alone ==
    ASSUME ~Overlap, OneActive, NEW p \in Procs, StepOf(p), NEW q \in Procs, q # p
    PROVE  q \notin Active
<1>1. CASE Start(p) \/ Resume(p)
  BY <1>1 DEF Start, Resume, Active
<1>2. CASE p \in Active
  BY <1>2 DEF OneActive
<1> QED BY <1>1, <1>2
      DEF StepOf, Step, Load, CallFails, Respond, RunTools, WrapUp, SaveOpens, SaveWrites,
          SaveFails, SaveRenames, SaveRenameFails, Delete, Crash, Active

LEMMA OpenedKept ==
    ASSUME TypeInv, NEW p \in Procs, StepOf(p), NEW q \in Procs, q # p, opened[q] = "none"
    PROVE  opened'[q] = "none"
BY DEF TypeInv, StepOf, Step, Start, Resume, Load, CallFails, Respond, RunTools, WrapUp,
       SaveOpens, SaveWrites, SaveFails, SaveRenames, SaveRenameFails, Delete, Crash

(* A checkpoint file of an execution alone changes only when a whole       *)
(* temporary file takes its place and when the run completes.              *)
LEMMA FileMoves ==
    ASSUME TypeInv, SavesAlone, NEW p \in Procs, StepOf(p)
    PROVE  \/ file' = file
           \/ /\ pc[p] = "rename" /\ pc'[p] = "call" /\ iter' = iter
              /\ file' = [file EXCEPT ![Dir(p)] = Whole(iter[p], msgs[p])]
           \/ /\ pc[p] = "delete" /\ pc'[p] = "completed"
              /\ file' = [file EXCEPT ![Dir(p)] = NoFile]
<1>1. CASE SaveWrites(p)
  BY <1>1 DEF SaveWrites, SavesAlone
<1>2. CASE SaveRenames(p)
  BY <1>2 DEF SaveRenames, SavesAlone, GoTo, TypeInv
<1>3. CASE Delete(p)
  BY <1>3 DEF Delete, End, GoTo, TypeInv
<1> QED BY <1>1, <1>2, <1>3
      DEF StepOf, Step, Start, Resume, Load, CallFails, Respond, RunTools, WrapUp, SaveOpens,
          SaveFails, SaveRenameFails, Crash

LEMMA SequentialStep ==
    ASSUME ~Overlap
    PROVE  TypeInv /\ Conversations /\ Sequential /\ [Next]_vars => Sequential'
<1> SUFFICES ASSUME TypeInv, Conversations, Sequential, [Next]_vars PROVE Sequential'
  OBVIOUS
<1>0. /\ OneActive /\ SavesAlone /\ FilesWhole /\ Ahead
      /\ \A p \in Procs : Dir(p) \in Dirs /\ iter[p] \in Nat
      /\ \A d \in Dirs : file[d].iter \in Nat
      /\ Ended = {"completed", "transient", "permanent", "crashed"}
  BY ProcsAssumption, SizesAssumption, FilesTyped DEF Sequential, TypeInv, Dir, Ended
<1>1. ASSUME NEW p \in Procs, StepOf(p) PROVE Sequential'
  <2>0. \A q \in Procs : q # p => /\ q \notin Active /\ pc'[q] = pc[q] /\ opened[q] = "none"
                                  /\ opened'[q] = "none"
    BY <1>0, <1>1, Alone, OthersKept, OpenedKept DEF SavesAlone, Active
  <2>1. OneActive'
    BY <2>0 DEF OneActive, Active
  <2>2. FilesWhole'
    <3>1. ASSUME NEW d \in Dirs PROVE file'[d] = NoFile \/ file'[d].state = "whole"
      <4>1. file'[d] \in {file[d], Whole(iter[p], msgs[p]), NoFile}
        BY <1>0, <1>1, FileMoves DEF TypeInv
      <4> QED BY <1>0, <4>1, FileFields DEF FilesWhole
    <3> QED BY <3>1 DEF FilesWhole, NoFile
  <2>3. /\ pc'[p] # "write" => opened'[p] = "none"
        /\ pc'[p] = "write" => opened'[p] = "tmp" /\ tmp'[Dir(p)] = Truncated
        /\ pc'[p] = "rename" => tmp'[Dir(p)] = Whole(iter'[p], msgs'[p])
    <3>1. CASE SaveWrites(p)
      BY <1>0, <3>1 DEF SaveWrites, SavesAlone, Written, GoTo, TypeInv
    <3>2. CASE SaveOpens(p)
      BY <1>0, <3>2 DEF SaveOpens, GoTo, TypeInv
    <3>3. CASE SaveFails(p)
      BY <3>3 DEF SaveFails, GoTo, TypeInv
    <3>4. CASE SaveRenames(p)
      <4>1. opened[p] = "none" /\ pc'[p] = "call"
        BY <1>0, <3>4 DEF SaveRenames, SavesAlone, GoTo, TypeInv
      <4> QED BY <3>4, <4>1 DEF SaveRenames
    <3>5. CASE Delete(p)
      <4>1. opened[p] = "none" /\ pc'[p] = "completed"
        BY <1>0, <3>5 DEF Delete, SavesAlone, End, GoTo, TypeInv
      <4> QED BY <3>5, <4>1 DEF Delete
    <3>6. CASE Crash(p)
      BY <3>6 DEF Crash, End, GoTo, TypeInv
    <3>8. CASE SaveRenameFails(p)
      <4>1. opened[p] = "none" /\ pc'[p] = "call"
        BY <1>0, <3>8 DEF SaveRenameFails, SavesAlone, GoTo, TypeInv
      <4> QED BY <3>8, <4>1 DEF SaveRenameFails
    <3>7. CASE opened' = opened /\ pc[p] \notin {"write", "rename"}
               /\ pc'[p] \notin {"write", "rename"}
      BY <1>0, <3>7 DEF SavesAlone
    <3> QED BY <1>0, <1>1, <3>1, <3>2, <3>3, <3>4, <3>5, <3>6, <3>7, <3>8
          DEF StepOf, Step, Start, Resume, Load, CallFails, Respond, RunTools, WrapUp, End, GoTo,
              TypeInv
  <2>4. SavesAlone'
    BY <2>0, <2>3 DEF SavesAlone, Active, Dir
  <2>5. /\ pc'[p] = "call" => iter'[p] >= file'[Dir(p)].iter
        /\ pc'[p] \in {"tools", "wrapup", "open", "write", "rename", "delete"} =>
             iter'[p] > file'[Dir(p)].iter
    <3>1. CASE Load(p)
      <4>1. iter[p] = 0 /\ pc'[p] = "call" /\ file' = file
        BY <3>1 DEF Load, Conversations, ConversesWell, GoTo, TypeInv
      <4>2. file[Dir(p)] = NoFile \/ file[Dir(p)].state = "whole"
        BY <1>0 DEF FilesWhole
      <4>3. \/ iter'[p] = file[Dir(p)].iter
            \/ file[Dir(p)] = NoFile /\ iter'[p] = 0
        BY <3>1, <4>1, <4>2 DEF Load, TypeInv
      <4> QED BY <1>0, <4>1, <4>3, FileFields
    <3>2. ASSUME NEW compact \in BOOLEAN, NEW tools \in BOOLEAN, Respond(p, compact, tools)
          PROVE  iter'[p] > file'[Dir(p)].iter
      <4>1. iter[p] >= file[Dir(p)].iter
        BY <1>0, <3>2 DEF Respond, Ahead
      <4> QED BY <1>0, <3>2, <4>1 DEF Respond, TypeInv
    <3>3. ASSUME NEW ok \in BOOLEAN, RunTools(p, ok)
          PROVE  iter'[p] > file'[Dir(p)].iter /\ pc'[p] # "call"
      BY <1>0, <3>3 DEF RunTools, Ahead, GoTo, TypeInv
    <3>4. CASE SaveOpens(p) \/ SaveWrites(p) \/ SaveFails(p)
      <4>1. pc[p] \in {"open", "write"} /\ iter' = iter /\ file' = file
        BY <1>0, <3>4 DEF SaveOpens, SaveWrites, SaveFails, SavesAlone
      <4> QED BY <1>0, <4>1 DEF Ahead
    <3>5. CASE SaveRenames(p)
      <4>1. pc'[p] = "call" /\ iter' = iter
        BY <3>5 DEF SaveRenames, GoTo, TypeInv
      <4>2. file'[Dir(p)] = Whole(iter[p], msgs[p])
        BY <1>0, <3>5, FileFields DEF SaveRenames, SavesAlone, TypeInv
      <4> QED BY <1>0, <4>1, <4>2, FileFields
    <3>6. ASSUME NEW how \in Ended, End(p, how) PROVE pc'[p] \in Ended
      BY <3>6, EndTyped
    <3>7. CASE Start(p) \/ Resume(p)
      BY <3>7 DEF Start, Resume, GoTo, TypeInv
    <3>8. CASE SaveRenameFails(p)
      <4>1. pc[p] = "rename" /\ pc'[p] = "call" /\ iter' = iter /\ file' = file
        BY <3>8 DEF SaveRenameFails, GoTo, TypeInv
      <4> QED BY <1>0, <4>1 DEF Ahead
    <3> QED BY <1>0, <1>1, <3>1, <3>2, <3>3, <3>4, <3>5, <3>6, <3>7, <3>8
          DEF StepOf, Step, CallFails, Respond, WrapUp, Delete, Crash, GoTo, TypeInv
  <2>6. Ahead'
    BY <2>0, <2>5 DEF Ahead, Active, Dir
  <2> QED BY <2>1, <2>2, <2>4, <2>6 DEF Sequential
<1>2. CASE UNCHANGED vars
  BY <1>2 DEF vars, Sequential, OneActive, Active, SavesAlone, FilesWhole, Ahead, Dir
<1> QED BY <1>1, <1>2 DEF Next, StepOf, Idle

LEMMA SequentialAlways == ASSUME ~Overlap PROVE Spec => []Sequential
<1>1. TypeInv /\ Conversations /\ Sequential /\ [Next]_vars => Sequential'
  BY SequentialStep
<1> QED BY <1>1, SequentialInit, ConversationsAlways, PTL DEF Spec

(* A checkpoint file is never seen half-written, though os.WriteFile and   *)
(* os.Rename are interrupted anywhere, as long as no two executions of the *)
(* run are active together; with an overlapping resume it can be.          *)
THEOREM CheckpointWholeCorrect == ASSUME ~Overlap PROVE Spec => []CheckpointWhole
<1>1. Sequential => CheckpointWhole
  BY FileFields DEF Sequential, FilesWhole, CheckpointWhole
<1> QED BY <1>1, SequentialAlways, PTL

(* An execution never runs tools for an iteration that the checkpoint in   *)
(* its own session directory covers: a retry or resume there does not      *)
(* repeat what was saved there.  On another host it may (resume and        *)
(* pollForTasks start from what that host has).                            *)
THEOREM NoRepeatCorrect == ASSUME ~Overlap PROVE Spec => NoRepeatAfterSave
<1>1. Sequential /\ [Next]_vars =>
        [\A p \in Procs :
            (pc[p] = "tools" /\ pc'[p] \in {"open", "wrapup"}) =>
                iter[p] > file[Dir(p)].iter]_vars
  BY DEF Sequential, Ahead
<1> QED BY <1>1, SequentialAlways, PTL DEF Spec, NoRepeatAfterSave

(* No retry or resume loses saved progress: Store.Save replaces a          *)
(* checkpoint only by a later one, and only a completed run deletes it.    *)
THEOREM CheckpointGrowsCorrect == ASSUME ~Overlap PROVE Spec => CheckpointGrows
<1> DEFINE Grows ==
      \A d \in Dirs :
        (file[d].state = "whole" /\ file'[d] # file[d]) =>
            \/ file'[d].state = "whole" /\ file'[d].iter > file[d].iter
            \/ \E p \in Procs : Dir(p) = d /\ pc[p] = "delete" /\ pc'[p] = "completed"
<1>1. TypeInv /\ Sequential /\ [Next]_vars => [Grows]_vars
  <2> SUFFICES ASSUME TypeInv, Sequential, NEW p \in Procs, StepOf(p) PROVE Grows
    BY DEF Next, StepOf, Idle
  <2> SUFFICES ASSUME NEW d \in Dirs, file[d].state = "whole", file'[d] # file[d]
               PROVE  \/ file'[d].state = "whole" /\ file'[d].iter > file[d].iter
                      \/ Dir(p) = d /\ pc[p] = "delete" /\ pc'[p] = "completed"
    OBVIOUS
  <2>1. /\ Dir(p) = d
        /\ \/ file'[d] = Whole(iter[p], msgs[p]) /\ pc[p] = "rename"
           \/ pc[p] = "delete" /\ pc'[p] = "completed"
    BY FileMoves DEF Sequential, TypeInv
  <2> QED BY <2>1, FileFields DEF Sequential, Ahead
<1> QED BY <1>1, SequentialAlways, ConversationsAlways, PTL DEF Spec, CheckpointGrows

-----------------------------------------------------------------------------
(* An execution loop with its checkpoints implements a resumable run.      *)

Saved == [d \in Dirs |-> IF file[d].state = "whole" THEN file[d].iter ELSE 0]
Dones == [p \in Procs |-> Done(p)]

LEMMA SavedOf ==
    ASSUME FilesWhole
    PROVE  \A d \in Dirs : Saved[d] = file[d].iter
BY FileFields DEF FilesWhole, Saved

LEMMA DoneOf ==
    \A p \in Procs :
      /\ pc[p] \in {"call", "wrapup", "open", "write", "rename"} => Done(p) = iter[p]
      /\ pc[p] \in {"tools", "delete"} => Done(p) = iter[p] - 1
      /\ pc[p] \in {"off", "load"} \cup Ended => Done(p) = -1
BY DEF Done, Ended

(* What a step of p makes of what the executions have behind them.         *)
LEMMA DonesMove ==
    ASSUME TypeInv, NEW p \in Procs, StepOf(p)
    PROVE  Dones' = [Dones EXCEPT ![p] = Done(p)']
<1>1. \A q \in Procs : q # p => Done(q)' = Done(q)
  BY OthersKept DEF Done
<1> QED BY <1>1 DEF Dones

LEMMA RunInit == Init => Checkpoints!Init
BY FileFields DEF Init, Checkpoints!Init, Checkpoints!Off, Done

LEMMA RunStep ==
    ASSUME ~Overlap, TypeInv, Conversations, Sequential, [Next]_vars
    PROVE  [Checkpoints!Next]_<<Saved, Dones>>
<1>0. /\ OneActive /\ SavesAlone /\ FilesWhole /\ Ahead
      /\ \A p \in Procs : Dir(p) \in Dirs /\ iter[p] \in Nat
      /\ \A d \in Dirs : file[d].iter \in Nat
      /\ \A d \in Dirs : Saved[d] = file[d].iter
      /\ Ended = {"completed", "transient", "permanent", "crashed"}
  BY ProcsAssumption, SizesAssumption, FilesTyped, SavedOf
     DEF Sequential, TypeInv, Dir, Ended
<1>1. ASSUME NEW p \in Procs, StepOf(p), Done(p)' = Done(p), file' = file
      PROVE  UNCHANGED <<Saved, Dones>>
  <2>1. Dones' = Dones
    BY <1>1, DonesMove DEF Dones
  <2> QED BY <1>1, <2>1 DEF Saved
<1>2. ASSUME NEW p \in Procs, StepOf(p), Done(p)' = -1, Done(p) \in Nat, file' = file
      PROVE  Checkpoints!Stop(p)
  <2>1. Dones' = [Dones EXCEPT ![p] = -1]
    BY <1>2, DonesMove
  <2> QED BY <1>2, <2>1 DEF Checkpoints!Stop, Checkpoints!Off, Saved, Dones
<1>3. ASSUME NEW p \in Procs, p \in Active, pc[p] # "load" PROVE Done(p) \in Nat
  <2>1. pc[p] \in {"tools", "delete"} => iter[p] >= 1
    BY <1>0 DEF Ahead
  <2> QED BY <1>0, <1>3, <2>1, DoneOf DEF Active
<1>4. ASSUME NEW p \in Procs, NEW how \in Ended, End(p, how) PROVE Done(p)' = -1
  <2>1. pc'[p] = how
    BY <1>4, EndTyped
  <2> QED BY <1>0, <2>1 DEF Done
<1>5. ASSUME NEW p \in Procs, StepOf(p), p \in Active, file' = file, NEW how \in Ended, End(p, how)
      PROVE  Checkpoints!Next \/ UNCHANGED <<Saved, Dones>>
  <2>1. CASE pc[p] = "load"
    <3>1. Done(p) = -1
      BY <2>1, DoneOf
    <3> QED BY <1>1, <1>4, <1>5, <3>1
  <2>2. CASE pc[p] # "load"
    BY <1>2, <1>3, <1>4, <1>5, <2>2 DEF Checkpoints!Next
  <2> QED BY <2>1, <2>2
<1>6. ASSUME NEW p \in Procs, Start(p) \/ Resume(p) PROVE UNCHANGED <<Saved, Dones>>
  <2>1. Done(p) = -1 /\ Done(p)' = -1 /\ file' = file
    BY <1>6 DEF Start, Resume, GoTo, TypeInv, Done
  <2> QED BY <1>1, <1>6, <2>1 DEF StepOf
<1>7. ASSUME NEW p \in Procs, Load(p) PROVE Checkpoints!Begin(p)
  <2>1. \A q \in Procs : Done(q) = -1
    BY <1>0, <1>7 DEF OneActive, Active, Load, Done
  <2>2. pc'[p] = "call" /\ file' = file /\ iter[p] = 0
    BY <1>7 DEF Load, GoTo, TypeInv, Conversations, ConversesWell
  <2>3. iter'[p] = Saved[Dir(p)]
    BY <1>0, <1>7, <2>2 DEF Load, TypeInv, Saved
  <2>4. Done(p)' = Saved[Dir(p)]
    BY <2>2, <2>3 DEF Done
  <2>5. Dones' = [Dones EXCEPT ![p] = Saved[Dir(p)]]
    BY <1>7, <2>4, DonesMove DEF StepOf, Step
  <2> QED BY <2>1, <2>2, <2>5 DEF Checkpoints!Begin, Checkpoints!Off, Saved, Dones, Dir
<1>8. ASSUME NEW p \in Procs, NEW compact \in BOOLEAN, NEW tools \in BOOLEAN,
             Respond(p, compact, tools)
      PROVE  UNCHANGED <<Saved, Dones>>
  <2>1. Done(p) = iter[p] /\ Done(p)' = iter'[p] - 1 /\ iter'[p] = iter[p] + 1 /\ file' = file
    BY <1>8 DEF Respond, GoTo, TypeInv, Done
  <2>2. Done(p)' = Done(p)
    BY <1>0, <2>1
  <2> QED BY <1>1, <1>8, <2>1, <2>2 DEF StepOf, Step
<1>9. ASSUME NEW p \in Procs, NEW ok \in BOOLEAN, RunTools(p, ok)
      PROVE  Checkpoints!Work(p)
  <2>1. Done(p) = iter[p] - 1 /\ Done(p)' = iter[p] /\ file' = file
    BY <1>9 DEF RunTools, GoTo, TypeInv, Done
  <2>2. Done(p) \in Nat
    BY <1>3, <1>9 DEF RunTools, Active
  <2>3. Done(p)' = Done(p) + 1
    BY <1>0, <2>1
  <2>4. Dones' = [Dones EXCEPT ![p] = Dones[p] + 1] /\ Dones[p] = Done(p)
    BY <1>9, <2>3, DonesMove DEF StepOf, Step, Dones
  <2> QED BY <2>1, <2>2, <2>4 DEF Checkpoints!Work, Checkpoints!Off, Saved, Dones
<1>10. ASSUME NEW p \in Procs, SaveOpens(p) \/ SaveWrites(p) \/ SaveFails(p) \/ SaveRenameFails(p)
       PROVE  UNCHANGED <<Saved, Dones>>
  <2>1. /\ pc[p] \in {"open", "write", "rename"} /\ pc'[p] \in {"call", "write", "rename"}
        /\ iter' = iter /\ file' = file
    BY <1>0, <1>10
       DEF SaveOpens, SaveWrites, SaveFails, SaveRenameFails, SavesAlone, GoTo, TypeInv
  <2>2. Done(p)' = Done(p)
    BY <2>1 DEF Done
  <2> QED BY <1>1, <1>10, <2>1, <2>2 DEF StepOf, Step
<1>11. ASSUME NEW p \in Procs, SaveRenames(p) PROVE Checkpoints!Save(p)
  <2>1. /\ pc[p] = "rename" /\ pc'[p] = "call" /\ iter' = iter
        /\ file' = [file EXCEPT ![Dir(p)] = Whole(iter[p], msgs[p])]
    BY <1>0, <1>11, FileFields DEF SaveRenames, SavesAlone, GoTo, TypeInv
  <2>2. Done(p) = iter[p] /\ Done(p)' = iter[p] /\ iter[p] > Saved[Dir(p)]
    BY <1>0, <2>1 DEF Done, Ahead
  <2>3. Saved' = [Saved EXCEPT ![Dir(p)] = iter[p]]
    <3>1. file'[Dir(p)] = Whole(iter[p], msgs[p]) /\ \A d \in Dirs : d # Dir(p) => file'[d] = file[d]
      BY <1>0, <2>1 DEF TypeInv
    <3>2. \A d \in Dirs : (IF file'[d].state = "whole" THEN file'[d].iter ELSE 0)
                             = IF d = Dir(p) THEN iter[p] ELSE Saved[d]
      BY <3>1, FileFields DEF Saved
    <3> QED BY <3>2 DEF Saved
  <2>4. Dones' = Dones /\ Dones[p] = iter[p]
    BY <1>11, <2>2, DonesMove DEF StepOf, Step, Dones
  <2>5. /\ Dones[p] # -1 /\ Dones[p] > Saved[DirOf[p]]
        /\ Saved' = [Saved EXCEPT ![DirOf[p]] = Dones[p]] /\ Dones' = Dones
    BY <1>0, <2>2, <2>3, <2>4 DEF Dir
  <2> QED BY <2>5, Zenon DEF Checkpoints!Save, Checkpoints!Off, Saved, Dones
<1>12. ASSUME NEW p \in Procs, Delete(p)
       PROVE  Checkpoints!Next \/ UNCHANGED <<Saved, Dones>>
  <2>1. p \in Active /\ pc[p] = "delete" /\ End(p, "completed") /\ StepOf(p)
    BY <1>12 DEF Delete, Active, StepOf, Step
  <2>2. CASE file' = file
    BY <1>0, <1>5, <2>1, <2>2
  <2>3. CASE file' = [file EXCEPT ![Dir(p)] = NoFile]
    <3>1. Saved' = [Saved EXCEPT ![Dir(p)] = 0]
      BY <1>0, <2>3, FileFields DEF Saved, TypeInv
    <3>2. Dones' = [Dones EXCEPT ![p] = -1] /\ Done(p) \in Nat
      BY <1>0, <1>3, <1>4, <2>1, DonesMove
    <3>3. Checkpoints!Finish(p)
      BY <3>1, <3>2 DEF Checkpoints!Finish, Checkpoints!Off, Saved, Dones, Dir
    <3> QED BY <3>3 DEF Checkpoints!Next
  <2> QED BY <1>12, <2>2, <2>3 DEF Delete
<1>13. ASSUME NEW p \in Procs, CallFails(p, "transient") \/ CallFails(p, "permanent")
       PROVE  Checkpoints!Next \/ UNCHANGED <<Saved, Dones>>
  <2>1. p \in Active /\ StepOf(p) /\ file' = file
    BY <1>13 DEF CallFails, Active, StepOf, Step
  <2> QED BY <1>0, <1>5, <1>13, <2>1 DEF CallFails
<1>14. ASSUME NEW p \in Procs, WrapUp(p)
       PROVE  Checkpoints!Next \/ UNCHANGED <<Saved, Dones>>
  <2>1. p \in Active /\ StepOf(p) /\ file' = file
    BY <1>14 DEF WrapUp, Active, StepOf, Step
  <2> QED BY <1>0, <1>5, <1>14, <2>1 DEF WrapUp
<1>15. ASSUME NEW p \in Procs, Crash(p)
       PROVE  Checkpoints!Next \/ UNCHANGED <<Saved, Dones>>
  BY <1>0, <1>5, <1>15 DEF Crash, StepOf
<1>16. CASE UNCHANGED vars
  BY <1>16 DEF vars, Saved, Dones, Done
<1>17. CASE \E p \in Procs : StepOf(p)
  BY <1>6, <1>7, <1>8, <1>9, <1>10, <1>11, <1>12, <1>13, <1>14, <1>15, <1>17
     DEF StepOf, Step, Checkpoints!Next
<1> QED BY <1>16, <1>17 DEF Next, StepOf, Idle

(* Compaction, temporary files, failing and crashing saves and deletes,    *)
(* retries and resumes add up to the promise of module ResumableRun: a run *)
(* is taken up exactly where it was last saved in the execution's own      *)
(* session directory, and saving is atomic.                                *)
THEOREM ResumableRunImplemented == ASSUME ~Overlap PROVE Spec => ImplementsResumableRun
<1>1. Init => Checkpoints!Init
  BY RunInit
<1>2. TypeInv /\ Conversations /\ Sequential /\ [Next]_vars =>
        [Checkpoints!Next]_(Checkpoints!rrVars)
  BY RunStep DEF Checkpoints!rrVars, Saved, Dones
<1> QED BY <1>1, <1>2, SequentialAlways, ConversationsAlways, PTL
      DEF Spec, ImplementsResumableRun, Checkpoints!Spec
=============================================================================
