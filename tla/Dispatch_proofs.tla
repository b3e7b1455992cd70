--------------------------- MODULE Dispatch_proofs ---------------------------
(***************************************************************************)
(* Proofs about module Dispatch: the server implements the scheduler of    *)
(* module Scheduler, for any requests, intervals, capacities and slots, so *)
(* what is proved of that module holds in the server as well.              *)
(*                                                                         *)
(* EntriesOf, the scheduler's part of the channel, is a recursive          *)
(* function.  What it makes of a sequence that is empty, longer by one     *)
(* element or without its first is proved by induction over sets of        *)
(* numbers (NumbersInSet), starting from the existence of the function.    *)
(***************************************************************************)
EXTENDS Dispatch, SequenceTheorems, WellFoundedInduction, TLAPS

-----------------------------------------------------------------------------
(* The scheduler's tasks in the channel.                                   *)

\* How EntriesOf goes through a sequence.
Collects(s, n, f) ==
    f = [k \in 0..n |-> IF k = 0 THEN <<>>
                        ELSE IF s[k] \in Entries THEN Append(f[k - 1], s[k]) ELSE f[k - 1]]

(* Induction over the numbers, for a set of them.                          *)
LEMMA NumbersInSet ==
    ASSUME NEW T, 0 \in T, \A n \in Nat : n \in T => n + 1 \in T
    PROVE  Nat \subseteq T
<1> SUFFICES ASSUME ~(Nat \subseteq T) PROVE FALSE
  OBVIOUS
<1> DEFINE Out == Nat \ T
<1>1. PICK m \in Out : \A k \in Out : <<k, m>> \notin OpToRel(<, Nat)
  BY WFMin, NatLessThanWellFounded, Zenon
<1>2. \A k \in Nat : k < m => k \in T
  BY <1>1, Zenon DEF OpToRel
<1>3. m \in Nat /\ m # 0 /\ m \notin T
  BY <1>1
<1>4. m - 1 \in Nat /\ m - 1 < m /\ (m - 1) + 1 = m
  BY <1>3
<1> QED BY <1>2, <1>3, <1>4

LEMMA CollectsExists ==
    ASSUME NEW s, NEW n \in Nat PROVE \E f : Collects(s, n, f)
<1> DEFINE T == {k \in Nat : \E f : Collects(s, k, f)}
<1>1. 0 \in T
  <2>1. Collects(s, 0, [k \in 0..0 |-> <<>>])
    BY DEF Collects
  <2> QED BY <2>1
<1>2. ASSUME NEW k \in Nat, k \in T PROVE k + 1 \in T
  <2>1. PICK f : Collects(s, k, f)
    BY <1>2
  <2> DEFINE last == IF s[k + 1] \in Entries THEN Append(f[k], s[k + 1]) ELSE f[k]
             g    == [j \in 0..(k + 1) |-> IF j = k + 1 THEN last ELSE f[j]]
  <2>2. ASSUME NEW j \in 0..(k + 1)
        PROVE  g[j] = IF j = 0 THEN <<>>
                      ELSE IF s[j] \in Entries THEN Append(g[j - 1], s[j]) ELSE g[j - 1]
    <3>1. CASE j = k + 1
      BY <3>1
    <3>2. CASE j \in 0..k
      <4>1. f[j] = IF j = 0 THEN <<>>
                   ELSE IF s[j] \in Entries THEN Append(f[j - 1], s[j]) ELSE f[j - 1]
        BY <2>1, <3>2 DEF Collects
      <4>2. g[j] = f[j] /\ (j # 0 => g[j - 1] = f[j - 1])
        BY <3>2
      <4> QED BY <4>1, <4>2
    <3> QED BY <3>1, <3>2
  <2>3. Collects(s, k + 1, g)
    <3> HIDE DEF last
    <3>1. g = [j \in 0..(k + 1) |-> g[j]]
      OBVIOUS
    <3> HIDE DEF g
    <3> QED BY <2>2, <3>1 DEF Collects
  <2> QED BY <2>3
<1> HIDE DEF T
<1>3. n \in T
  BY <1>1, <1>2, NumbersInSet
<1> QED BY <1>3 DEF T

LEMMA CollectsNext ==
    ASSUME NEW s, NEW n \in Nat, NEW f, Collects(s, n, f)
    PROVE  /\ f[0] = <<>>
           /\ \A k \in Nat : k + 1 <= n =>
                f[k + 1] = IF s[k + 1] \in Entries THEN Append(f[k], s[k + 1]) ELSE f[k]
<1>1. ASSUME NEW k \in Nat, k + 1 <= n
      PROVE  f[k + 1] = IF s[k + 1] \in Entries THEN Append(f[k], s[k + 1]) ELSE f[k]
  <2>1. k + 1 \in 0..n /\ k + 1 # 0 /\ (k + 1) - 1 = k
    BY <1>1
  <2> QED BY <2>1 DEF Collects
<1>2. 0 \in 0..n
  OBVIOUS
<1>3. f[0] = <<>>
  BY <1>2 DEF Collects
<1> QED BY <1>1, <1>3

(* It goes through every sequence in just one way.                         *)
LEMMA CollectsSame ==
    ASSUME NEW s, NEW t, NEW m \in Nat, NEW n \in Nat, m <= n, \A i \in 1..m : s[i] = t[i],
           NEW f, NEW g, Collects(s, m, f), Collects(t, n, g)
    PROVE  \A k \in 0..m : f[k] = g[k]
<1> DEFINE T == {k \in Nat : k <= m => f[k] = g[k]}
<1>1. 0 \in T
  BY CollectsNext
<1>2. ASSUME NEW k \in Nat, k \in T PROVE k + 1 \in T
  <2> SUFFICES ASSUME k + 1 <= m PROVE f[k + 1] = g[k + 1]
    OBVIOUS
  <2>1. k + 1 \in 1..m /\ k + 1 <= n /\ k <= m
    OBVIOUS
  <2>2. f[k + 1] = IF s[k + 1] \in Entries THEN Append(f[k], s[k + 1]) ELSE f[k]
    BY CollectsNext
  <2>3. g[k + 1] = IF t[k + 1] \in Entries THEN Append(g[k], t[k + 1]) ELSE g[k]
    BY <2>1, CollectsNext
  <2>4. f[k] = g[k] /\ s[k + 1] = t[k + 1]
    BY <1>2, <2>1
  <2> QED BY <2>2, <2>3, <2>4
<1> HIDE DEF T
<1>3. Nat \subseteq T
  BY <1>1, <1>2, NumbersInSet
<1> QED BY <1>3 DEF T

LEMMA EntriesOfCollects ==
    ASSUME NEW s, Len(s) \in Nat
    PROVE  \E f : Collects(s, Len(s), f) /\ EntriesOf(s) = f[Len(s)]
<1> DEFINE C == CHOOSE f : Collects(s, Len(s), f)
<1>1. Collects(s, Len(s), C)
  BY CollectsExists
<1>2. EntriesOf(s) = C[Len(s)]
  BY DEF EntriesOf, Collects
<1> QED BY <1>1, <1>2

LEMMA CollectsTyped ==
    ASSUME NEW s, NEW n \in Nat, NEW f, Collects(s, n, f)
    PROVE  \A k \in 0..n : f[k] \in Seq(Entries) /\ Len(f[k]) <= k
<1> DEFINE T == {k \in Nat : k <= n => f[k] \in Seq(Entries) /\ Len(f[k]) <= k}
<1>1. 0 \in T
  <2>1. f[0] = <<>>
    BY CollectsNext
  <2>2. f[0] \in Seq(Entries) /\ Len(f[0]) <= 0
    BY <2>1
  <2> QED BY <2>2
<1>2. ASSUME NEW k \in Nat, k \in T PROVE k + 1 \in T
  <2> SUFFICES ASSUME k + 1 <= n PROVE f[k + 1] \in Seq(Entries) /\ Len(f[k + 1]) <= k + 1
    OBVIOUS
  <2>1. k <= n
    OBVIOUS
  <2>2. f[k + 1] = IF s[k + 1] \in Entries THEN Append(f[k], s[k + 1]) ELSE f[k]
    BY CollectsNext
  <2>3. f[k] \in Seq(Entries) /\ Len(f[k]) <= k /\ Len(f[k]) \in Nat
    BY <1>2, <2>1
  <2>4. CASE s[k + 1] \in Entries
    BY <2>2, <2>3, <2>4, AppendProperties
  <2>5. CASE s[k + 1] \notin Entries
    BY <2>2, <2>3, <2>5
  <2> QED BY <2>4, <2>5
<1> HIDE DEF T
<1>3. Nat \subseteq T
  BY <1>1, <1>2, NumbersInSet
<1> QED BY <1>3 DEF T

LEMMA EntriesOfTyped ==
    ASSUME NEW s \in Seq(Items)
    PROVE  EntriesOf(s) \in Seq(Entries) /\ Len(EntriesOf(s)) <= Len(s)
<1>1. Len(s) \in Nat
  OBVIOUS
<1>2. PICK f : Collects(s, Len(s), f) /\ EntriesOf(s) = f[Len(s)]
  BY <1>1, EntriesOfCollects
<1>3. Len(s) \in 0..Len(s)
  BY <1>1
<1> QED BY <1>1, <1>2, <1>3, CollectsTyped

LEMMA EntriesOfEmpty == EntriesOf(<<>>) = <<>>
<1>1. PICK f : Collects(<<>>, Len(<<>>), f) /\ EntriesOf(<<>>) = f[Len(<<>>)]
  BY EntriesOfCollects
<1> QED BY <1>1 DEF Collects

LEMMA EntriesOfAppend ==
    ASSUME NEW s \in Seq(Items), NEW x \in Items
    PROVE  EntriesOf(Append(s, x)) =
             IF x \in Entries THEN Append(EntriesOf(s), x) ELSE EntriesOf(s)
<1> DEFINE t == Append(s, x)
           n == Len(s)
<1>1. n \in Nat /\ Len(t) = n + 1 /\ t[n + 1] = x /\ \A i \in 1..n : s[i] = t[i]
  BY AppendProperties
<1>2. PICK f : Collects(s, n, f) /\ EntriesOf(s) = f[n]
  BY <1>1, EntriesOfCollects
<1> HIDE DEF t
<1>3. PICK g : Collects(t, n + 1, g) /\ EntriesOf(t) = g[n + 1]
  BY <1>1, EntriesOfCollects
<1> HIDE DEF n
<1>4. n + 1 \in Nat /\ n <= n + 1 /\ n + 1 <= n + 1 /\ n \in 0..n
  BY <1>1
<1>5. f[n] = g[n]
  BY <1>1, <1>2, <1>3, <1>4, CollectsSame
<1>6. g[n + 1] = IF t[n + 1] \in Entries THEN Append(g[n], t[n + 1]) ELSE g[n]
  <2>1. \A k \in Nat : k + 1 <= n + 1 =>
          g[k + 1] = IF t[k + 1] \in Entries THEN Append(g[k], t[k + 1]) ELSE g[k]
    BY <1>3, <1>4, CollectsNext
  <2> QED BY <1>1, <1>4, <2>1, Zenon
<1> QED BY <1>1, <1>2, <1>3, <1>5, <1>6 DEF t

(* Taking the first element off takes it off the scheduler's tasks, if it  *)
(* is one, and else leaves them.                                           *)
LEMMA EntriesOfTail ==
    ASSUME NEW s \in Seq(Items), s # <<>>
    PROVE  IF Head(s) \in Entries
             THEN EntriesOf(s) # <<>> /\ EntriesOf(Tail(s)) = Tail(EntriesOf(s))
             ELSE EntriesOf(Tail(s)) = EntriesOf(s)
<1> DEFINE t == Tail(s)
           n == Len(t)
<1>1. n \in Nat /\ Len(s) = n + 1 /\ Head(s) = s[1] /\ \A i \in 1..n : t[i] = s[i + 1]
  BY HeadTailProperties
<1>2. PICK f : Collects(s, n + 1, f) /\ EntriesOf(s) = f[n + 1]
  BY <1>1, EntriesOfCollects
<1>3. PICK g : Collects(t, n, g) /\ EntriesOf(t) = g[n]
  BY <1>1, EntriesOfCollects
<1> DEFINE Shifted(k) == IF s[1] \in Entries
                           THEN f[k + 1] # <<>> /\ Tail(f[k + 1]) = g[k]
                           ELSE f[k + 1] = g[k]
           T == {k \in Nat : k <= n => Shifted(k)}
<1> HIDE DEF t, n
<1>4. 0 \in T
  <2>1. 0 + 1 <= n + 1 /\ n + 1 \in Nat /\ 0 + 1 = 1
    BY <1>1
  <2>2. f[0] = <<>> /\ g[0] = <<>> /\ f[1] = IF s[1] \in Entries THEN Append(f[0], s[1]) ELSE f[0]
    BY <1>1, <1>2, <1>3, <2>1, CollectsNext
  <2>3. s[1] \in Entries => f[1] = <<s[1]>> /\ f[1] # <<>> /\ Tail(f[1]) = <<>>
    BY <2>2
  <2>4. Shifted(0)
    BY <2>1, <2>2, <2>3
  <2> QED BY <2>4
<1>5. ASSUME NEW k \in Nat, k \in T PROVE k + 1 \in T
  <2> SUFFICES ASSUME k + 1 <= n PROVE Shifted(k + 1)
    OBVIOUS
  <2>1. /\ k + 1 \in Nat /\ (k + 1) + 1 <= n + 1 /\ n + 1 \in Nat /\ k <= n
        /\ k + 1 \in 1..n /\ k + 1 \in 0..(n + 1)
    BY <1>1
  <2> DEFINE x == t[k + 1]
             F == f[k + 1]
             G == g[k]
  <2>2. g[k + 1] = IF x \in Entries THEN Append(G, x) ELSE G
    BY <1>1, <1>3, <2>1, CollectsNext
  <2>3. f[(k + 1) + 1] = IF x \in Entries THEN Append(F, x) ELSE F
    <3>1. x = s[(k + 1) + 1]
      BY <1>1, <2>1
    <3> QED BY <1>2, <2>1, <3>1, CollectsNext
  <2>4. Shifted(k)
    BY <1>5, <2>1
  <2>5. F \in Seq(Entries)
    <3>1. n + 1 \in Nat
      BY <1>1
    <3> QED BY <1>2, <2>1, <3>1, CollectsTyped
  <2> HIDE DEF x
  <2>6. CASE s[1] \in Entries
    <3>1. F # <<>> /\ Tail(F) = G
      BY <2>4, <2>6
    <3> HIDE DEF F, G
    <3>2. CASE x \in Entries
      <4>1. Append(F, x) # <<>> /\ Tail(Append(F, x)) = Append(Tail(F), x)
        BY <2>5, <3>1, <3>2, HeadTailAppend, AppendProperties
      <4> QED BY <2>2, <2>3, <2>6, <3>1, <3>2, <4>1
    <3>3. CASE x \notin Entries
      BY <2>2, <2>3, <2>6, <3>1, <3>3
    <3> QED BY <3>2, <3>3
  <2>7. CASE s[1] \notin Entries
    BY <2>2, <2>3, <2>4, <2>7
  <2> QED BY <2>6, <2>7
<1> HIDE DEF T
<1>6. Nat \subseteq T
  BY <1>4, <1>5, NumbersInSet
<1>7. Shifted(n)
  BY <1>1, <1>6 DEF T
<1> QED BY <1>1, <1>2, <1>3, <1>7 DEF t

-----------------------------------------------------------------------------
(* The types of what the server adds, and of what the scheduler sends.     *)

DispatchInv ==
    /\ taskChan \in Seq(Items) /\ Len(taskChan) <= ChanSize
    /\ api \in [RunRequests -> {"none", "sending", "sent"}]
    /\ held \in Items \cup {None}
    /\ slots \in [Slots -> Items \cup {None}]
    /\ heap \subseteq Valid
    /\ firing \in Valid \cup {None}
    /\ spc \in {"send", "push"} => firing \in Valid

LEMMA DispatchInvInit == DispatchInit => DispatchInv
BY IntervalAssumption, SizesAssumption DEF DispatchInit, Init, DispatchInv, Items, Entries, Valid

LEMMA SentTyped ==
    ASSUME DispatchInv, NEW x \in Items, Len(taskChan) < ChanSize,
           taskChan' = Append(taskChan, x)
    PROVE  taskChan' \in Seq(Items) /\ Len(taskChan') <= ChanSize
<1>1. Len(taskChan) \in Nat /\ taskChan \in Seq(Items)
  BY DEF DispatchInv
<1>2. taskChan' \in Seq(Items) /\ Len(taskChan') = Len(taskChan) + 1
  BY <1>1, AppendProperties
<1> QED BY <1>1, <1>2, SizesAssumption

LEMMA DispatchInvStep == DispatchInv /\ [DispatchNext]_allVars => DispatchInv'
<1> SUFFICES ASSUME DispatchInv, [DispatchNext]_allVars PROVE DispatchInv'
  OBVIOUS
<1>0. Valid \subseteq Entries /\ Entries \subseteq Items /\ RunRequests \subseteq Items
      /\ Requests \subseteq Entries
  BY DEF Valid, Items, Entries
<1>1. CASE SchedulerStep
  <2>1. CASE SetTimer
    BY <1>1, <2>1 DEF SchedulerStep, SetTimer, dispatchVars, DispatchInv
  <2>2. CASE Fire
    <3>1. PICK e \in Soonest(heap) : firing' = e /\ heap' = heap \ {e}
      BY <2>2 DEF Fire
    <3>2. e \in Valid
      BY <3>1 DEF Soonest, DispatchInv
    <3> QED BY <1>1, <2>2, <3>1, <3>2 DEF SchedulerStep, Fire, dispatchVars, DispatchInv
  <2>3. CASE Send
    <3>1. firing \in Items /\ firing \in Valid
      BY <1>0, <2>3 DEF Send, DispatchInv
    <3>2. taskChan' \in Seq(Items) /\ Len(taskChan') <= ChanSize
      BY <2>3, <3>1, SentTyped DEF Send
    <3> QED BY <1>1, <2>3, <3>1, <3>2 DEF SchedulerStep, Send, dispatchVars, DispatchInv
  <2>4. CASE Reschedule
    BY <1>1, <2>4 DEF SchedulerStep, Reschedule, dispatchVars, DispatchInv
  <2>5. CASE HandleAdd
    BY <1>1, <2>5 DEF SchedulerStep, HandleAdd, dispatchVars, DispatchInv
  <2>6. CASE Stop
    BY <1>1, <2>6 DEF SchedulerStep, Stop, dispatchVars, DispatchInv
  <2> QED BY <1>1, <2>1, <2>2, <2>3, <2>4, <2>5, <2>6 DEF SchedulerStep, Run
<1>2. ASSUME NEW r \in Requests, Request(r) \/ AddTask(r), UNCHANGED dispatchVars
      PROVE  DispatchInv'
  BY <1>2 DEF Request, AddTask, dispatchVars, DispatchInv
<1>3. ASSUME NEW r \in RunRequests, SubmitRun(r) PROVE DispatchInv'
  BY <1>3 DEF SubmitRun, vars, DispatchInv
<1>4. ASSUME NEW r \in RunRequests, SendRun(r) PROVE DispatchInv'
  <2>1. taskChan' \in Seq(Items) /\ Len(taskChan') <= ChanSize
    BY <1>0, <1>4, SentTyped DEF SendRun
  <2> QED BY <1>4, <2>1 DEF SendRun, DispatchInv
<1>5. CASE TakeTask
  <2>1. /\ Head(taskChan) \in Items /\ Tail(taskChan) \in Seq(Items)
        /\ Len(Tail(taskChan)) <= ChanSize
    <3>1. taskChan \in Seq(Items) /\ taskChan # <<>> /\ Len(taskChan) \in Nat
      BY <1>5 DEF TakeTask, DispatchInv
    <3>2. /\ Head(taskChan) \in Items /\ Tail(taskChan) \in Seq(Items)
          /\ Len(Tail(taskChan)) = Len(taskChan) - 1
      BY <3>1, HeadTailProperties
    <3> QED BY <3>1, <3>2, SizesAssumption DEF DispatchInv
  <2> QED BY <1>5, <2>1 DEF TakeTask, DispatchInv
<1>6. ASSUME NEW s \in Slots, StartRun(s) \/ EndRun(s) PROVE DispatchInv'
  BY <1>6 DEF StartRun, EndRun, vars, DispatchInv
<1>7. CASE StopDispatch
  BY <1>7 DEF StopDispatch, StopOrchestrator, dispatchVars, DispatchInv
<1>8. CASE (Cancel \/ Tick \/ Exit) /\ UNCHANGED dispatchVars
  BY <1>8 DEF Cancel, Tick, Exit, vars, dispatchVars, DispatchInv
<1>9. CASE UNCHANGED allVars
  BY <1>9 DEF allVars, vars, dispatchVars, DispatchInv
<1> QED BY <1>1, <1>2, <1>3, <1>4, <1>5, <1>6, <1>7, <1>8, <1>9 DEF DispatchNext, DispatchStep

-----------------------------------------------------------------------------
(* Every step of the server is one of the scheduler with some receiving    *)
(* end, or none of its steps.                                              *)

LEMMA SchedInit == DispatchInit => Sched!Init
BY EntriesOfEmpty
   DEF DispatchInit, Init, Sched!Init, Sched!Entries, Entries, Sched!MaxInterval, MaxInterval,
       Sched!MaxOf, MaxOf, Sched!Valid, Valid

LEMMA SchedStep == DispatchInv /\ [DispatchNext]_allVars => [Sched!Next]_(Sched!vars)
<1> SUFFICES ASSUME DispatchInv, [DispatchNext]_allVars PROVE Sched!Next \/ UNCHANGED Sched!vars
  OBVIOUS
<1> DEFINE es == EntriesOf(taskChan)
<1>0. /\ taskChan' = taskChan => es' = es
      /\ taskChan \in Seq(Items) /\ Len(es) <= Len(taskChan) /\ Len(es) \in Nat
      /\ Len(taskChan) \in Nat
      /\ Valid \subseteq Entries /\ Entries \subseteq Items /\ RunRequests \subseteq Items
      /\ RunRequests \cap Entries = {}
  BY EntriesOfTyped, RunRequestsAssumption DEF DispatchInv, Valid, Items, Entries
<1>1. CASE SchedulerStep
  <2>1. CASE SetTimer
    BY <1>0, <2>1 DEF SetTimer, Sched!SetTimer, Sched!Next, Sched!Run, AtLeastZero,
       Sched!AtLeastZero, Soonest, Sched!Soonest
  <2>2. CASE Fire
    BY <1>0, <2>2 DEF Fire, Sched!Fire, Sched!Next, Sched!Run, Soonest, Sched!Soonest
  <2>3. CASE Send
    <3>1. firing \in Entries
      BY <1>0, <2>3 DEF Send, DispatchInv
    <3>2. es' = Append(es, firing)
      BY <1>0, <2>3, <3>1, EntriesOfAppend DEF Send
    <3>3. Len(es) < ChanSize
      BY <1>0, <2>3, SizesAssumption DEF Send
    <3> QED BY <2>3, <3>2, <3>3 DEF Send, Sched!Send, Sched!Next, Sched!Run
  <2>4. CASE Reschedule
    BY <1>0, <2>4 DEF Reschedule, Sched!Reschedule, Sched!Next, Sched!Run
  <2>5. CASE HandleAdd
    BY <1>0, <2>5 DEF HandleAdd, Sched!HandleAdd, Sched!Next, Sched!Run, Valid, Sched!Valid,
       Entries, Sched!Entries
  <2>6. CASE Stop
    BY <1>0, <2>6 DEF Stop, Sched!Stop, Sched!Next, Sched!Run
  <2> QED BY <1>1, <2>1, <2>2, <2>3, <2>4, <2>5, <2>6 DEF SchedulerStep, Run
<1>2. ASSUME NEW r \in Requests, Request(r) \/ AddTask(r) PROVE Sched!Next
  BY <1>0, <1>2 DEF Request, AddTask, Sched!Request, Sched!AddTask, Sched!Next
<1>3. ASSUME NEW r \in RunRequests, SubmitRun(r) PROVE UNCHANGED Sched!vars
  BY <1>0, <1>3 DEF SubmitRun, vars, Sched!vars
<1>4. ASSUME NEW r \in RunRequests, SendRun(r) PROVE UNCHANGED Sched!vars
  <2>1. es' = es
    BY <1>0, <1>4, EntriesOfAppend DEF SendRun
  <2> QED BY <1>4, <2>1 DEF SendRun, Sched!vars
<1>5. CASE TakeTask
  <2>0. taskChan # <<>> /\ taskChan' = Tail(taskChan)
    BY <1>5 DEF TakeTask
  <2>1. CASE Head(taskChan) \in Entries
    <3>1. es # <<>> /\ es' = Tail(es)
      BY <1>0, <2>0, <2>1, EntriesOfTail
    <3> QED BY <1>5, <3>1 DEF TakeTask, Sched!Receive, Sched!Next
  <2>2. CASE Head(taskChan) \notin Entries
    <3>1. es' = es
      BY <1>0, <2>0, <2>2, EntriesOfTail
    <3> QED BY <1>5, <3>1 DEF TakeTask, Sched!vars
  <2> QED BY <2>1, <2>2
<1>6. ASSUME NEW s \in Slots, StartRun(s) \/ EndRun(s) PROVE UNCHANGED Sched!vars
  BY <1>0, <1>6 DEF StartRun, EndRun, vars, Sched!vars
<1>7. CASE StopDispatch
  BY <1>0, <1>7 DEF StopDispatch, StopOrchestrator, Sched!StopOrchestrator, Sched!Next
<1>8. CASE Cancel
  BY <1>0, <1>8 DEF Cancel, Sched!Cancel, Sched!Next
<1>9. CASE Tick
  BY <1>0, <1>9 DEF Tick, Sched!Tick, Sched!Next, AtLeastZero, Sched!AtLeastZero,
     Entries, Sched!Entries, MaxInterval, Sched!MaxInterval, MaxOf, Sched!MaxOf, Valid, Sched!Valid
<1>10. CASE Exit \/ UNCHANGED allVars
  BY <1>0, <1>10 DEF Exit, allVars, vars, Sched!vars
<1> QED BY <1>1, <1>2, <1>3, <1>4, <1>5, <1>6, <1>7, <1>8, <1>9, <1>10
      DEF DispatchNext, DispatchStep

LEMMA DispatchInvAlways == DispatchSpec => []DispatchInv
BY DispatchInvInit, DispatchInvStep, PTL DEF DispatchSpec

(* To the scheduler, the goroutines that POST /api/tasks/{name}/run leaves *)
(* behind and the dispatch loop with its semaphore are a channel that is   *)
(* drained at some pace: no task it has sent is taken out, replaced or     *)
(* overtaken by another of its own, for any sizes and any requests.        *)
THEOREM SchedulerImplemented == DispatchSpec => ImplementsScheduler
<1>1. DispatchInit => Sched!Init
  BY SchedInit
<1>2. DispatchInv /\ [DispatchNext]_allVars => [Sched!Next]_(Sched!vars)
  BY SchedStep
<1> QED BY <1>1, <1>2, DispatchInvAlways, PTL DEF DispatchSpec, ImplementsScheduler, Sched!Spec

-----------------------------------------------------------------------------
(* What is proved of the scheduler holds of it in the server.              *)

SP == INSTANCE Scheduler_proofs WITH taskChan <- EntriesOf(taskChan)

LEMMA SchedSpec == Sched!Spec => SP!Spec
<1>1. Sched!Init => SP!Init
  BY DEF Sched!Init, SP!Init, Sched!Entries, SP!Entries, Sched!MaxInterval, SP!MaxInterval,
         Sched!MaxOf, SP!MaxOf, Sched!Valid, SP!Valid
<1>2. [Sched!Next]_(Sched!vars) => [SP!Next]_(SP!vars)
  BY DEF Sched!Next, SP!Next, Sched!Run, SP!Run, Sched!SetTimer, SP!SetTimer, Sched!Fire, SP!Fire,
         Sched!Send, SP!Send, Sched!Reschedule, SP!Reschedule, Sched!HandleAdd, SP!HandleAdd,
         Sched!Stop, SP!Stop, Sched!Request, SP!Request, Sched!AddTask, SP!AddTask,
         Sched!Receive, SP!Receive, Sched!StopOrchestrator, SP!StopOrchestrator,
         Sched!Cancel, SP!Cancel, Sched!Tick, SP!Tick, Sched!Exit, SP!Exit,
         Sched!vars, SP!vars, Sched!Soonest, SP!Soonest, Sched!AtLeastZero, SP!AtLeastZero,
         Sched!Entries, SP!Entries, Sched!MaxInterval, SP!MaxInterval,
         Sched!MaxOf, SP!MaxOf, Sched!Valid, SP!Valid
<1> QED BY <1>1, <1>2, PTL DEF Sched!Spec, SP!Spec

(* The theorems of module Scheduler_proofs, whose assumptions hold here.   *)
LEMMA SchedulerProved ==
    /\ SP!Spec => []SP!TypeOK
    /\ SP!Spec => []SP!EntryKept
    /\ SP!Spec => []SP!TimerForSoonest
    /\ SP!Spec => SP!FiresInOrder
    /\ SP!Spec => SP!NoBurst
BY SP!SchedulerTypeCorrect, SP!EntryKeptCorrect, SP!TimerCorrect, SP!OrderCorrect,
   SP!SpacingCorrect, EntriesAssumption, IntervalAssumption, SizesAssumption
   DEF Entries, SP!Entries, IsFiniteSet, SP!IsFiniteSet

(* Every variable of the server holds a value of its type, and TaskChan is *)
(* never filled beyond its capacity by the scheduler and the API together. *)
THEOREM DispatchTypeCorrect == DispatchSpec => []DispatchTypeOK
<1>1. SP!TypeOK => Sched!TypeOK
  BY DEF SP!TypeOK, Sched!TypeOK, Sched!Entries, SP!Entries, Sched!MaxInterval, SP!MaxInterval,
         Sched!MaxOf, SP!MaxOf, Sched!Valid, SP!Valid
<1>2. Sched!TypeOK /\ DispatchInv => DispatchTypeOK
  BY DEF DispatchInv, DispatchTypeOK
<1> QED BY <1>1, <1>2, DispatchInvAlways, SchedulerImplemented, SchedSpec, SchedulerProved, PTL
      DEF ImplementsScheduler

(* In the server, too, no scheduled task is lost or entered twice, however *)
(* long a full TaskChan or a taken semaphore holds up the scheduler.       *)
THEOREM EntryKeptInServer == DispatchSpec => []EntryKept
<1>1. SP!EntryKept => EntryKept
  BY DEF SP!EntryKept, EntryKept, SP!InAddChan, InAddChan, SP!Valid, Valid, SP!Entries, Entries
<1> QED BY <1>1, SchedulerImplemented, SchedSpec, SchedulerProved, PTL DEF ImplementsScheduler

(* While the scheduler waits in the server, its timer is set for the       *)
(* soonest entry there is.                                                 *)
THEOREM TimerInServer == DispatchSpec => []TimerForSoonest
<1>1. SP!TimerForSoonest => TimerForSoonest
  BY DEF SP!TimerForSoonest, TimerForSoonest, SP!Soonest, Soonest, SP!AtLeastZero, AtLeastZero
<1> QED BY <1>1, SchedulerImplemented, SchedSpec, SchedulerProved, PTL DEF ImplementsScheduler

(* The scheduler fires only what is due, the longest due first, whatever   *)
(* the API sends in between.                                               *)
THEOREM OrderInServer == DispatchSpec => FiresInOrder
<1> DEFINE InOrder == (spc = "wait" /\ spc' = "send") =>
                        /\ due[firing'] <= 0
                        /\ \A e \in heap : due[firing'] <= due[e]
<1>1. [InOrder]_(SP!vars) => [InOrder]_vars
  BY DEF SP!vars, vars
<1> QED BY <1>1, SchedulerImplemented, SchedSpec, SchedulerProved, PTL
      DEF ImplementsScheduler, SP!FiresInOrder, FiresInOrder

(* Two sends of a task are its interval apart in the server, too: what was *)
(* held up by a full channel is not made up for by a burst.                *)
THEOREM SpacingInServer == DispatchSpec => NoBurst
<1> DEFINE Apart == (spc = "send" /\ spc' = "push") => since[firing] >= Interval[firing]
<1>1. [Apart]_(SP!vars) => [Apart]_vars
  BY DEF SP!vars, vars
<1> QED BY <1>1, SchedulerImplemented, SchedSpec, SchedulerProved, PTL
      DEF ImplementsScheduler, SP!NoBurst, NoBurst
=============================================================================
