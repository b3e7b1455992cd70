--------------------------- MODULE Scheduler_proofs ---------------------------
(***************************************************************************)
(* Proofs about module Scheduler, for any set of tasks and requests, any   *)
(* intervals, zero and negative ones too, and any capacity of the two      *)
(* channels.                                                               *)
(*                                                                         *)
(* The inductive invariant says, besides the properties themselves, that   *)
(* no task is added twice (AddedOnce) and how the time since an entry was  *)
(* last sent and the time until it is due add up (Spaced).                 *)
(***************************************************************************)
EXTENDS Scheduler, FiniteSetTheorems, SequenceTheorems, WellFoundedInduction, TLAPS

(* A task is buffered in addChan once, after its handler sent it, and only *)
(* such a task is ever scheduled.                                          *)
AddedOnce ==
    /\ \A i, k \in DOMAIN addChan : addChan[i] = addChan[k] => i = k
    /\ \A i \in DOMAIN addChan : handler[addChan[i]] = "added"
    /\ \A r \in Requests : (r \in heap \/ r = firing) => handler[r] = "added"

(* An entry was sent its interval before it is due, or longer ago.         *)
Spaced ==
    /\ \A e \in heap : since[e] >= Interval[e] \/ since[e] + due[e] >= Interval[e]
    /\ spc = "send" => since[firing] >= Interval[firing]

SchedulerInv == TypeOK /\ EntryKept /\ AddedOnce /\ TimerForSoonest /\ Spaced

-----------------------------------------------------------------------------
(* A finite set that is not empty has a member with the least value: a     *)
(* smallest set without one would have one with any member left out.       *)
LEMMA LeastExists ==
    ASSUME NEW S, IsFiniteSet(S), S # {}, NEW f \in [S -> Int]
    PROVE  \E m \in S : \A x \in S : f[m] <= f[x]
<1> DEFINE HasLeast(T) == \E m \in T : \A x \in T : f[m] <= f[x]
           Bad == {T \in SUBSET S : T # {} /\ ~ HasLeast(T)}
<1> SUFFICES ASSUME S \in Bad PROVE FALSE
  OBVIOUS
<1>1. IsWellFoundedOn(StrictSubsetOrdering(S), FiniteSubsetsOf(S))
  BY FS_StrictSubsetOrderingWellFounded
<1>2. Bad \subseteq FiniteSubsetsOf(S) /\ Bad # {}
  BY FS_FiniteSubsetsOfFinite
<1> HIDE DEF Bad
<1>3. \E T \in Bad : \A U \in Bad : ~ (<<U, T>> \in StrictSubsetOrdering(S))
  BY <1>1, <1>2, WFMin
<1> USE DEF Bad
<1>4. PICK T \in Bad : \A U \in Bad : ~ (<<U, T>> \in StrictSubsetOrdering(S))
  BY <1>3
<1>5. PICK x \in T : TRUE
  OBVIOUS
<1>6. T \ {x} \notin Bad
  BY <1>4, <1>5 DEF StrictSubsetOrdering
<1>7. CASE T \ {x} = {}
  BY <1>4, <1>5, <1>7
<1>8. CASE HasLeast(T \ {x})
  <2>1. PICK m \in T \ {x} : \A y \in T \ {x} : f[m] <= f[y]
    BY <1>8
  <2>2. CASE f[m] <= f[x]
    BY <1>4, <2>1, <2>2
  <2>3. CASE ~ (f[m] <= f[x])
    <3>1. \A y \in T : f[x] <= f[y]
      BY <1>4, <1>5, <2>1, <2>3
    <3> QED
      BY <1>4, <1>5, <3>1
  <2> QED
    BY <2>2, <2>3
<1> QED
  BY <1>4, <1>6, <1>7, <1>8

-----------------------------------------------------------------------------
(* The longest interval, and the soonest entry.                            *)
LEMMA MaxIntervalBounds ==
    /\ MaxInterval \in Nat
    /\ \A e \in Valid : Interval[e] \in Int /\ Interval[e] <= MaxInterval
                        /\ Interval[e] > - MaxLate
<1> DEFINE S == {Interval[e] : e \in Valid} \cup {0}
<1>1. \A e \in Valid : Interval[e] \in Int /\ Interval[e] > - MaxLate
  BY IntervalAssumption DEF Valid
<1>2. \E m \in S : \A x \in S : x <= m
  <2>1. CASE Valid = {}
    BY <2>1
  <2>2. CASE Valid # {}
    <3> DEFINE f == [e \in Valid |-> - Interval[e]]
    <3>1. IsFiniteSet(Valid)
      BY EntriesAssumption, FS_Subset DEF Valid
    <3>2. f \in [Valid -> Int]
      BY <1>1
    <3> HIDE DEF f
    <3>3. PICK e \in Valid : \A x \in Valid : f[e] <= f[x]
      BY <2>2, <3>1, <3>2, LeastExists
    <3>4. \A x \in Valid : Interval[x] <= Interval[e]
      BY <1>1, <3>3 DEF f
    <3>5. CASE Interval[e] < 0
      BY <1>1, <3>4, <3>5
    <3>6. CASE Interval[e] >= 0
      BY <1>1, <3>4, <3>6
    <3> QED
      BY <1>1, <3>5, <3>6
  <2> QED
    BY <2>1, <2>2
<1>3. MaxInterval = MaxOf(S)
  BY DEF MaxInterval
<1>4. 0 \in S /\ S \subseteq Int /\ \A e \in Valid : Interval[e] \in S
  BY <1>1
<1> HIDE DEF S
<1>5. MaxInterval \in S /\ \A x \in S : x <= MaxInterval
  BY <1>2, <1>3 DEF MaxOf
<1>6. MaxInterval \in Nat
  BY <1>4, <1>5
<1> QED
  BY <1>1, <1>4, <1>5, <1>6

LEMMA SoonestExists ==
    ASSUME TypeOK, heap # {}
    PROVE  /\ Soonest(heap) # {} /\ Soonest(heap) \subseteq heap
           /\ \A e, f \in Soonest(heap) : due[e] = due[f]
<1>1. IsFiniteSet(heap) /\ heap \subseteq Entries /\ due \in [Entries -> Int]
  BY EntriesAssumption, FS_Subset, MaxIntervalBounds, SizesAssumption DEF TypeOK, Valid
<1> DEFINE f == [e \in heap |-> due[e]]
<1>2. f \in [heap -> Int]
  BY <1>1
<1> HIDE DEF f
<1>3. PICK m \in heap : \A x \in heap : f[m] <= f[x]
  BY <1>1, <1>2, LeastExists
<1>4. m \in Soonest(heap)
  BY <1>3 DEF f, Soonest
<1>5. \A d, e \in Soonest(heap) : due[d] = due[e]
  BY <1>1 DEF Soonest
<1> QED
  BY <1>4, <1>5 DEF Soonest

(* What is taken from and put into a channel.                              *)
LEMMA Popped ==
    ASSUME NEW S, NEW q \in Seq(S), q # <<>>
    PROVE  /\ Head(q) \in S /\ Head(q) = q[1] /\ 1 \in DOMAIN q
           /\ Tail(q) \in Seq(S) /\ Len(Tail(q)) = Len(q) - 1
           /\ \A i \in DOMAIN Tail(q) : /\ i + 1 \in DOMAIN q /\ i # 0 /\ i \in Int
                                        /\ Tail(q)[i] = q[i + 1]
           /\ \A i \in DOMAIN q : i = 1 \/ (i - 1 \in DOMAIN Tail(q) /\ Tail(q)[i - 1] = q[i])
<1>1. Len(q) \in Nat \ {0} /\ DOMAIN q = 1..Len(q)
  BY EmptySeq, LenProperties
<1>2. /\ Head(q) \in S /\ Tail(q) \in Seq(S) /\ Len(Tail(q)) = Len(q) - 1
      /\ \A i \in 1..Len(Tail(q)) : Tail(q)[i] = q[i + 1]
  BY HeadTailProperties
<1>3. DOMAIN Tail(q) = 1..Len(Tail(q))
  BY <1>2, LenProperties
<1>4. Head(q) = q[1]
  OBVIOUS
<1> QED
  BY <1>1, <1>2, <1>3, <1>4

LEMMA Appended ==
    ASSUME NEW S, NEW q \in Seq(S), NEW e \in S
    PROVE  /\ Append(q, e) \in Seq(S) /\ Len(Append(q, e)) = Len(q) + 1
           /\ DOMAIN Append(q, e) = DOMAIN q \cup {Len(q) + 1}
           /\ \A i \in DOMAIN q : Append(q, e)[i] = q[i]
           /\ Append(q, e)[Len(q) + 1] = e
           /\ Len(q) + 1 \notin DOMAIN q
<1>1. Len(q) \in Nat /\ DOMAIN q = 1..Len(q)
  BY LenProperties
<1>2. /\ Append(q, e) \in Seq(S)
      /\ Len(Append(q, e)) = Len(q) + 1
      /\ \A i \in 1..Len(q) : Append(q, e)[i] = q[i]
      /\ Append(q, e)[Len(q) + 1] = e
  BY AppendProperties
<1>3. DOMAIN Append(q, e) = 1..(Len(q) + 1)
  BY <1>2, LenProperties
<1> QED
  BY <1>1, <1>2, <1>3

-----------------------------------------------------------------------------
(* The invariant.                                                          *)
LEMMA SchedulerInit == Init => SchedulerInv
<1> SUFFICES ASSUME Init PROVE SchedulerInv
  OBVIOUS
<1>1. Loaded \subseteq Valid /\ None \notin Entries /\ Valid \subseteq Entries
  BY EntriesAssumption, IntervalAssumption DEF Valid, Entries
<1>2. TypeOK
  <2>1. due \in [Entries -> (- MaxLate)..MaxInterval]
    <3>1. \A e \in Loaded : Interval[e] \in (- MaxLate)..MaxInterval
      BY <1>1, MaxIntervalBounds, SizesAssumption
    <3>2. 0 \in (- MaxLate)..MaxInterval
      BY MaxIntervalBounds, SizesAssumption
    <3> QED
      BY <3>1, <3>2 DEF Init
  <2>2. since \in [Entries -> 0..MaxInterval] /\ timer \in 0..MaxInterval
    BY MaxIntervalBounds DEF Init
  <2>3. /\ addChan \in Seq(Requests) /\ Len(addChan) <= AddSize
        /\ taskChan \in Seq(Valid) /\ Len(taskChan) <= ChanSize
    BY EmptySeq, SizesAssumption DEF Init
  <2> QED
    BY <1>1, <2>1, <2>2, <2>3 DEF Init, TypeOK
<1>3. EntryKept
  BY <1>1, EntriesAssumption DEF Init, EntryKept, InAddChan, Entries
<1>4. AddedOnce
  BY <1>1, EntriesAssumption DEF Init, AddedOnce, Entries
<1>5. TimerForSoonest
  BY DEF Init, TimerForSoonest
<1>6. Spaced
  BY <1>1, MaxIntervalBounds DEF Init, Spaced
<1> QED
  BY <1>2, <1>3, <1>4, <1>5, <1>6 DEF SchedulerInv

(* The facts every step below starts from.                                 *)
LEMMA SchedulerTypes ==
    ASSUME SchedulerInv
    PROVE  /\ MaxInterval \in Nat /\ MaxLate \in Nat /\ ChanSize \in Nat /\ AddSize \in Nat
           /\ \A e \in Valid : e \in Entries /\ Interval[e] \in (- MaxLate)..MaxInterval
           /\ None \notin Entries /\ Entries = Loaded \cup Requests
           /\ Loaded \cap Requests = {}
           /\ heap \subseteq Valid
           /\ due \in [Entries -> (- MaxLate)..MaxInterval]
           /\ since \in [Entries -> 0..MaxInterval]
           /\ handler \in [Requests -> {"none", "adding", "added"}]
           /\ addChan \in Seq(Requests) /\ taskChan \in Seq(Valid)
           /\ spc \in {"send", "push"} => firing \in Valid /\ firing # None
<1>1. \A e \in Valid : e \in Entries /\ Interval[e] \in (- MaxLate)..MaxInterval
  BY MaxIntervalBounds, SizesAssumption DEF Valid
<1> QED
  BY <1>1, MaxIntervalBounds, SizesAssumption, EntriesAssumption
  DEF SchedulerInv, TypeOK, EntryKept, Entries

LEMMA TypeStep == SchedulerInv /\ [Next]_vars => TypeOK'
<1> SUFFICES ASSUME SchedulerInv, [Next]_vars PROVE TypeOK'
  OBVIOUS
<1>0. TypeOK /\ EntryKept
  BY DEF SchedulerInv
<1>a. /\ MaxInterval \in Nat /\ MaxLate \in Nat /\ ChanSize \in Nat /\ AddSize \in Nat
      /\ \A e \in Valid : e \in Entries /\ Interval[e] \in (- MaxLate)..MaxInterval
      /\ spc \in {"send", "push"} => firing \in Valid /\ firing # None
      /\ addChan \in Seq(Requests) /\ taskChan \in Seq(Valid)
  BY SchedulerTypes
<1>1. ASSUME SetTimer PROVE TypeOK'
  <2>1. ASSUME heap # {}
        PROVE  AtLeastZero(due[CHOOSE e \in Soonest(heap) : TRUE]) \in 0..MaxInterval
    <3>1. (CHOOSE e \in Soonest(heap) : TRUE) \in heap
      BY <1>0, <2>1, SoonestExists
    <3>2. \A e \in heap : due[e] \in (- MaxLate)..MaxInterval
      BY <1>0, <1>a DEF TypeOK
    <3> QED
      BY <1>a, <3>1, <3>2 DEF AtLeastZero
  <2>2. timer' \in 0..MaxInterval /\ spc' \in {"empty", "wait"}
    BY <1>1, <1>a, <2>1 DEF SetTimer
  <2> QED
    BY <1>0, <1>1, <2>2 DEF SetTimer, TypeOK
<1>2. ASSUME Fire PROVE TypeOK'
  BY <1>0, <1>2 DEF Fire, TypeOK, Soonest
<1>3. ASSUME Send PROVE TypeOK'
  <2>1. firing \in Valid /\ firing \in Entries
    BY <1>3, <1>a DEF Send
  <2>2. taskChan' \in Seq(Valid) /\ Len(taskChan') <= ChanSize
    BY <1>3, <1>a, <2>1, Appended, LenProperties DEF Send
  <2>3. since' \in [Entries -> 0..MaxInterval]
    BY <1>0, <1>3, <1>a DEF Send, TypeOK
  <2> QED
    BY <1>0, <1>3, <2>2, <2>3 DEF Send, TypeOK
<1>4. ASSUME Reschedule PROVE TypeOK'
  BY <1>0, <1>4, <1>a DEF Reschedule, TypeOK
<1>5. ASSUME HandleAdd PROVE TypeOK'
  <2>1. addChan' \in Seq(Requests) /\ Len(addChan') <= AddSize
    BY <1>0, <1>5, <1>a, Popped, LenProperties DEF HandleAdd, TypeOK
  <2>2. heap' \subseteq Valid /\ due' \in [Entries -> (- MaxLate)..MaxInterval]
    BY <1>0, <1>5, <1>a DEF HandleAdd, TypeOK
  <2>3. timer' \in 0..MaxInterval
    BY <1>5, <1>a DEF HandleAdd
  <2> QED
    BY <1>0, <1>5, <2>1, <2>2, <2>3 DEF HandleAdd, TypeOK
<1>6. ASSUME Stop PROVE TypeOK'
  BY <1>0, <1>6, <1>a DEF Stop, TypeOK
<1>7. ASSUME NEW r \in Requests, Request(r) PROVE TypeOK'
  BY <1>0, <1>7 DEF Request, TypeOK
<1>8. ASSUME NEW r \in Requests, AddTask(r) PROVE TypeOK'
  <2>1. addChan' \in Seq(Requests) /\ Len(addChan') <= AddSize
    BY <1>8, <1>a, Appended, LenProperties DEF AddTask
  <2> QED
    BY <1>0, <1>8, <2>1 DEF AddTask, TypeOK
<1>9. ASSUME Receive PROVE TypeOK'
  <2>1. taskChan' \in Seq(Valid) /\ Len(taskChan') <= ChanSize
    BY <1>0, <1>9, <1>a, Popped, LenProperties DEF Receive, TypeOK
  <2> QED
    BY <1>0, <1>9, <2>1 DEF Receive, TypeOK
<1>10. ASSUME StopOrchestrator \/ Cancel PROVE TypeOK'
  BY <1>0, <1>10 DEF StopOrchestrator, Cancel, TypeOK
<1>11. ASSUME Tick PROVE TypeOK'
  <2>1. due' \in [Entries -> (- MaxLate)..MaxInterval]
    BY <1>0, <1>11, <1>a DEF Tick, TypeOK
  <2>2. since' \in [Entries -> 0..MaxInterval] /\ timer' \in 0..MaxInterval
    BY <1>0, <1>11, <1>a DEF Tick, TypeOK, AtLeastZero
  <2> QED
    BY <1>0, <1>11, <2>1, <2>2 DEF Tick, TypeOK
<1>12. CASE UNCHANGED vars
  BY <1>0, <1>12 DEF vars, TypeOK
<1> QED
  BY <1>1, <1>2, <1>3, <1>4, <1>5, <1>6, <1>7, <1>8, <1>9, <1>10, <1>11, <1>12
  DEF Next, Run, Exit

(* The steps that move no task between addChan, the heap and Run's hands.  *)
LEMMA EntriesStay ==
    ASSUME SchedulerInv, UNCHANGED <<heap, firing, addChan>>,
           spc' \in {"send", "push"} <=> spc \in {"send", "push"},
           \A r \in Requests : handler'[r] = "added" <=> handler[r] = "added"
    PROVE  EntryKept' /\ AddedOnce'
<1>1. EntryKept /\ AddedOnce /\ \A i \in DOMAIN addChan : addChan[i] \in Requests
  BY SchedulerTypes, ElementOfSeq, LenProperties DEF SchedulerInv
<1> QED
  BY <1>1 DEF EntryKept, AddedOnce, InAddChan

LEMMA EntriesStep == SchedulerInv /\ [Next]_vars => EntryKept' /\ AddedOnce'
<1> DEFINE Goal == EntryKept' /\ AddedOnce'
<1> SUFFICES ASSUME SchedulerInv, [Next]_vars PROVE Goal
  OBVIOUS
<1>0. /\ EntryKept /\ AddedOnce
      /\ None \notin Entries /\ Entries = Loaded \cup Requests /\ Loaded \cap Requests = {}
      /\ heap \subseteq Valid /\ addChan \in Seq(Requests)
      /\ \A e \in Valid : e \in Entries
      /\ handler \in [Requests -> {"none", "adding", "added"}]
      /\ spc \in {"send", "push"} => firing \in Valid /\ firing # None
  BY SchedulerTypes DEF SchedulerInv
<1>a. \A i \in DOMAIN addChan : addChan[i] \in Requests
  BY <1>0, ElementOfSeq, LenProperties
<1>1. ASSUME Fire PROVE Goal
  <2>1. PICK e \in heap : firing' = e /\ heap' = heap \ {e}
    BY <1>1 DEF Fire, Soonest
  <2>2. UNCHANGED <<addChan, handler>> /\ spc' = "send" /\ firing = None /\ e # None
    BY <1>0, <1>1, <2>1 DEF Fire, EntryKept
  <2> QED
    BY <1>0, <2>1, <2>2 DEF EntryKept, AddedOnce, InAddChan
<1>2. ASSUME Reschedule PROVE Goal
  <2>1. /\ heap' = heap \cup {firing} /\ firing' = None /\ spc' = "top"
        /\ UNCHANGED <<addChan, handler>> /\ firing # None /\ firing \in Valid
    BY <1>0, <1>2 DEF Reschedule
  <2> QED
    BY <1>0, <2>1 DEF EntryKept, AddedOnce, InAddChan
<1>3. ASSUME HandleAdd PROVE Goal
  <2> DEFINE r == Head(addChan)
  <2>1. /\ r \in Requests /\ r = addChan[1] /\ 1 \in DOMAIN addChan
        /\ \A i \in DOMAIN addChan' : /\ i + 1 \in DOMAIN addChan /\ i # 0 /\ i \in Int
                                      /\ addChan'[i] = addChan[i + 1]
        /\ \A i \in DOMAIN addChan :
              i = 1 \/ (i - 1 \in DOMAIN addChan' /\ addChan'[i - 1] = addChan[i])
    BY <1>0, <1>3, Popped DEF HandleAdd
  <2>2. /\ heap' = IF r \in Valid THEN heap \cup {r} ELSE heap
        /\ UNCHANGED <<firing, handler>> /\ spc' = "top" /\ firing = None
    BY <1>0, <1>3 DEF HandleAdd, EntryKept
  <2> HIDE DEF r
  <2>3. handler[r] = "added" /\ r \notin heap /\ r # None
    BY <1>0, <2>1 DEF EntryKept, AddedOnce, InAddChan
  <2>4. \A q \in Requests : InAddChan(q)' <=> InAddChan(q) /\ q # r
    <3>1. ASSUME NEW q \in Requests, InAddChan(q)' PROVE InAddChan(q) /\ q # r
      <4>1. PICK i \in DOMAIN addChan' : addChan'[i] = q
        BY <3>1 DEF InAddChan
      <4>2. i + 1 \in DOMAIN addChan /\ addChan[i + 1] = q /\ i + 1 # 1
        BY <2>1, <4>1
      <4> QED
        BY <1>0, <2>1, <4>2 DEF InAddChan, AddedOnce
    <3>2. ASSUME NEW q \in Requests, InAddChan(q), q # r PROVE InAddChan(q)'
      BY <2>1, <3>2 DEF InAddChan
    <3> QED
      BY <3>1, <3>2
  <2>5. EntryKept'
    BY <1>0, <2>1, <2>2, <2>3, <2>4 DEF EntryKept
  <2>6. \A i, k \in DOMAIN addChan' : addChan'[i] = addChan'[k] => i = k
    BY <1>0, <2>1 DEF AddedOnce
  <2>7. AddedOnce'
    BY <1>0, <2>1, <2>2, <2>3, <2>6 DEF AddedOnce
  <2> QED
    BY <2>5, <2>7
<1>4. ASSUME NEW r \in Requests, AddTask(r) PROVE Goal
  <2>1. /\ DOMAIN addChan' = DOMAIN addChan \cup {Len(addChan) + 1}
        /\ \A i \in DOMAIN addChan : addChan'[i] = addChan[i]
        /\ addChan'[Len(addChan) + 1] = r
    BY <1>0, <1>4, Appended DEF AddTask
  <2>2. /\ handler[r] = "adding" /\ UNCHANGED <<heap, firing, spc>>
        /\ \A q \in Requests : handler'[q] = IF q = r THEN "added" ELSE handler[q]
    BY <1>0, <1>4 DEF AddTask
  <2>3. r \notin heap /\ r # firing /\ ~ InAddChan(r)
    BY <1>0, <2>2 DEF AddedOnce, InAddChan
  <2>4. \A q \in Requests : InAddChan(q)' <=> InAddChan(q) \/ q = r
    BY <2>1 DEF InAddChan
  <2>5. EntryKept'
    BY <1>0, <2>2, <2>3, <2>4 DEF EntryKept
  <2>6. \A i \in DOMAIN addChan : addChan[i] # r
    BY <2>3 DEF InAddChan
  <2>7. AddedOnce'
    BY <1>0, <1>a, <2>1, <2>2, <2>6 DEF AddedOnce
  <2> QED
    BY <2>5, <2>7
<1>5. ASSUME NEW r \in Requests, Request(r) PROVE Goal
  BY <1>0, <1>5, EntriesStay DEF Request
<1>6. ASSUME SetTimer \/ Send \/ Stop \/ Receive \/ StopOrchestrator \/ Cancel \/ Tick
             \/ UNCHANGED vars
      PROVE  Goal
  BY <1>6, EntriesStay
  DEF SetTimer, Send, Stop, Receive, StopOrchestrator, Cancel, Tick, vars
<1> QED
  BY <1>1, <1>2, <1>3, <1>4, <1>5, <1>6 DEF Next, Run, Exit

(* The timer runs down with the time left to the soonest entry.            *)
LEMMA TimerStep == SchedulerInv /\ [Next]_vars => TimerForSoonest'
<1> SUFFICES ASSUME SchedulerInv, [Next]_vars PROVE TimerForSoonest'
  OBVIOUS
<1>0. /\ TypeOK /\ TimerForSoonest /\ heap \subseteq Entries
      /\ \A e \in heap : due[e] \in Int
      /\ MaxInterval \in Nat /\ MaxLate \in Nat
  BY SchedulerTypes DEF SchedulerInv
<1>1. ASSUME SetTimer PROVE TimerForSoonest'
  <2>1. CASE heap = {}
    BY <1>1, <2>1 DEF SetTimer, TimerForSoonest
  <2>2. CASE heap # {}
    <3> DEFINE c == CHOOSE e \in Soonest(heap) : TRUE
    <3>1. c \in Soonest(heap) /\ \A e \in Soonest(heap) : due[e] = due[c]
      BY <1>0, <2>2, SoonestExists
    <3>2. Soonest(heap)' = Soonest(heap)
      BY <1>1 DEF SetTimer, Soonest
    <3>3. timer' = AtLeastZero(due[c]) /\ UNCHANGED due
      BY <1>1, <2>2 DEF SetTimer
    <3> QED
      BY <3>1, <3>2, <3>3 DEF TimerForSoonest
  <2> QED
    BY <2>1, <2>2
<1>2. ASSUME Tick PROVE TimerForSoonest'
  <2>1. \A e \in heap : due'[e] = due[e] - 1
    BY <1>0, <1>2 DEF Tick
  <2>2. Soonest(heap)' = Soonest(heap)
    BY <1>0, <1>2, <2>1 DEF Tick, Soonest
  <2>3. \A e \in Soonest(heap) : e \in heap
    BY DEF Soonest
  <2>4. timer' = AtLeastZero(timer - 1) /\ UNCHANGED spc
    BY <1>2 DEF Tick
  <2>5. ASSUME NEW e \in Soonest(heap), spc = "wait" PROVE timer' = AtLeastZero(due'[e])
    BY <1>0, <2>1, <2>3, <2>4, <2>5 DEF TimerForSoonest, AtLeastZero
  <2> QED
    BY <2>2, <2>4, <2>5 DEF TimerForSoonest
<1>3. CASE UNCHANGED <<spc, heap, due, timer>>
  BY <1>0, <1>3 DEF TimerForSoonest, Soonest
<1>4. CASE spc' # "wait"
  BY <1>4 DEF TimerForSoonest
<1> QED
  BY <1>1, <1>2, <1>3, <1>4
  DEF Next, Run, Fire, Send, Reschedule, HandleAdd, Stop, Request, AddTask, Receive,
      StopOrchestrator, Cancel, Exit, vars

(* An entry that the timer fired for is due.                               *)
LEMMA FiredIsDue ==
    ASSUME SchedulerInv, Fire
    PROVE  /\ firing' \in Soonest(heap) /\ firing' \in heap
           /\ heap' = heap \ {firing'} /\ due[firing'] <= 0
<1>1. PICK e \in Soonest(heap) : firing' = e /\ heap' = heap \ {e}
  BY DEF Fire
<1>2. e \in heap
  BY DEF Soonest
<1>3. due[e] \in Int
  BY <1>2, SchedulerTypes
<1>4. AtLeastZero(due[e]) = 0
  BY <1>1 DEF SchedulerInv, TimerForSoonest, Fire
<1> QED
  BY <1>1, <1>2, <1>3, <1>4 DEF AtLeastZero

LEMMA SpacedStep == SchedulerInv /\ [Next]_vars => Spaced'
<1> SUFFICES ASSUME SchedulerInv, [Next]_vars PROVE Spaced'
  OBVIOUS
<1>0. /\ Spaced /\ MaxInterval \in Nat /\ MaxLate \in Nat
      /\ heap \subseteq Valid /\ addChan \in Seq(Requests)
      /\ \A e \in Valid : e \in Entries /\ Interval[e] \in (- MaxLate)..MaxInterval
      /\ due \in [Entries -> (- MaxLate)..MaxInterval]
      /\ since \in [Entries -> 0..MaxInterval]
      /\ spc \in {"send", "push"} => firing \in Valid /\ firing \notin heap
  BY SchedulerTypes DEF SchedulerInv, EntryKept
<1>1. ASSUME Fire PROVE Spaced'
  <2>1. /\ firing' \in heap /\ heap' = heap \ {firing'} /\ due[firing'] <= 0
        /\ UNCHANGED <<due, since>>
    BY <1>1, FiredIsDue DEF Fire
  <2>2. since[firing'] >= Interval[firing']
    BY <1>0, <2>1 DEF Spaced
  <2> QED
    BY <1>0, <2>1, <2>2 DEF Spaced
<1>2. ASSUME Send PROVE Spaced'
  <2>1. /\ UNCHANGED <<heap, due>> /\ spc' = "push" /\ firing \notin heap
        /\ \A e \in Entries : e # firing => since'[e] = since[e]
    BY <1>0, <1>2 DEF Send
  <2>2. \A e \in heap : since'[e] = since[e]
    BY <1>0, <2>1
  <2> QED
    BY <1>0, <2>1, <2>2 DEF Spaced
<1>3. ASSUME Reschedule PROVE Spaced'
  <2>1. /\ heap' = heap \cup {firing} /\ UNCHANGED since /\ spc' = "top" /\ firing \in Valid
        /\ \A e \in Entries : due'[e] = IF e = firing THEN Interval[e] ELSE due[e]
    BY <1>0, <1>3 DEF Reschedule
  <2>2. \A e \in heap' : since[e] >= Interval[e] \/ since[e] + due'[e] >= Interval[e]
    BY <1>0, <2>1 DEF Spaced
  <2> QED
    BY <2>1, <2>2 DEF Spaced
<1>4. ASSUME HandleAdd PROVE Spaced'
  <2>1. CASE Head(addChan) \in Valid
    <3>1. /\ heap' = heap \cup {Head(addChan)} /\ UNCHANGED since /\ spc' = "top"
          /\ \A e \in Entries : due'[e] = IF e = Head(addChan) THEN Interval[e] ELSE due[e]
      BY <1>0, <1>4, <2>1 DEF HandleAdd
    <3>2. \A e \in heap' : since[e] >= Interval[e] \/ since[e] + due'[e] >= Interval[e]
      BY <1>0, <2>1, <3>1 DEF Spaced
    <3> QED
      BY <3>1, <3>2 DEF Spaced
  <2>2. CASE Head(addChan) \notin Valid
    BY <1>0, <1>4, <2>2 DEF HandleAdd, Spaced
  <2> QED
    BY <2>1, <2>2
<1>5. ASSUME Tick PROVE Spaced'
  <2>1. /\ UNCHANGED <<heap, spc, firing>>
        /\ \A e \in heap : due'[e] = due[e] - 1
        /\ \A e \in Entries :
              since'[e] = IF since[e] < MaxInterval THEN since[e] + 1 ELSE since[e]
    BY <1>0, <1>5 DEF Tick
  <2>2. ASSUME NEW e \in heap
        PROVE  since'[e] >= Interval[e] \/ since'[e] + due'[e] >= Interval[e]
    <3>1. /\ since[e] \in 0..MaxInterval /\ due[e] \in Int /\ Interval[e] \in Int
          /\ Interval[e] <= MaxInterval
      BY <1>0
    <3>2. since[e] >= Interval[e] \/ since[e] + due[e] >= Interval[e]
      BY <1>0 DEF Spaced
    <3>3. due'[e] = due[e] - 1
      BY <2>1
    <3>4. since'[e] = IF since[e] < MaxInterval THEN since[e] + 1 ELSE since[e]
      BY <1>0, <2>1
    <3> QED
      BY <1>0, <3>1, <3>2, <3>3, <3>4
  <2>3. spc = "send" => since'[firing] >= Interval[firing]
    BY <1>0, <2>1 DEF Spaced
  <2> QED
    BY <2>1, <2>2, <2>3 DEF Spaced
<1>6. CASE UNCHANGED <<heap, due, since>> /\ (spc' = "send" => spc = "send" /\ UNCHANGED firing)
  BY <1>0, <1>6 DEF Spaced
<1> QED
  BY <1>1, <1>2, <1>3, <1>4, <1>5, <1>6
  DEF Next, Run, SetTimer, Stop, Request, AddTask, Receive, StopOrchestrator, Cancel, Exit, vars

LEMMA SchedulerStep == SchedulerInv /\ [Next]_vars => SchedulerInv'
BY TypeStep, EntriesStep, TimerStep, SpacedStep DEF SchedulerInv

-----------------------------------------------------------------------------
(* Every variable of the scheduler keeps its type, whatever the parameters.*)
THEOREM SchedulerTypeCorrect == Spec => []TypeOK
<1>1. SchedulerInv => TypeOK
  BY DEF SchedulerInv
<1> QED
  BY <1>1, SchedulerInit, SchedulerStep, PTL DEF Spec

(* No scheduled task is lost or entered twice: for any number of tasks and *)
(* requests, any capacity of addChan and taskChan, and any schedule of     *)
(* Run, the handlers, the orchestrator and the shutdown.                   *)
THEOREM EntryKeptCorrect == Spec => []EntryKept
<1>1. SchedulerInv => EntryKept
  BY DEF SchedulerInv
<1> QED
  BY <1>1, SchedulerInit, SchedulerStep, PTL DEF Spec

(* While Run waits, its timer is set for the soonest entry.                *)
THEOREM TimerCorrect == Spec => []TimerForSoonest
<1>1. SchedulerInv => TimerForSoonest
  BY DEF SchedulerInv
<1> QED
  BY <1>1, SchedulerInit, SchedulerStep, PTL DEF Spec

(* Run fires only an entry that is due, and the one due the longest.       *)
THEOREM OrderCorrect == Spec => FiresInOrder
<1> DEFINE InOrder ==
      (spc = "wait" /\ spc' = "send") =>
          /\ due[firing'] <= 0
          /\ \A e \in heap : due[firing'] <= due[e]
<1>1. SchedulerInv /\ [Next]_vars => [InOrder]_vars
  <2> SUFFICES ASSUME SchedulerInv, [Next]_vars, spc = "wait", spc' = "send" PROVE InOrder
    OBVIOUS
  <2>1. Fire
    BY DEF Next, Run, SetTimer, Send, Reschedule, HandleAdd, Stop, Request, AddTask, Receive,
           StopOrchestrator, Cancel, Tick, Exit, vars
  <2> QED
    BY <2>1, FiredIsDue DEF Soonest
<1> QED
  BY <1>1, SchedulerInit, SchedulerStep, PTL DEF Spec, FiresInOrder

(* Two firings of one task are its interval apart, for any intervals and   *)
(* however long a full channel holds up a send: none is made up for.       *)
THEOREM SpacingCorrect == Spec => NoBurst
<1> DEFINE Apart == (spc = "send" /\ spc' = "push") => since[firing] >= Interval[firing]
<1>1. SchedulerInv /\ [Next]_vars => [Apart]_vars
  BY DEF SchedulerInv, Spaced
<1> QED
  BY <1>1, SchedulerInit, SchedulerStep, PTL DEF Spec, NoBurst
=============================================================================
