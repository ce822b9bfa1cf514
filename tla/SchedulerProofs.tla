---------------------------- MODULE SchedulerProofs ----------------------------
(***************************************************************************)
(* Proofs about the scheduler, for every number of threads, queues and     *)
(* yields between boosts, every timer width and whether or not alarms are  *)
(* late.                                                                   *)
(***************************************************************************)
EXTENDS Scheduler, SequenceTheorems, FiniteSetTheorems, TLAPS

-----------------------------------------------------------------------------
(* What the list operations do to the elements of a sequence               *)

(***************************************************************************)
(* rlist_push_back on a queue: the elements stay where they are, and the   *)
(* new one, if it was not there, comes last.                               *)
(***************************************************************************)
LEMMA PushBackElements ==
    ASSUME NEW S, NEW q \in Seq(S), NEW t \in S
    PROVE  /\ PushBack(q, t) \in Seq(S)
           /\ \A k \in DOMAIN PushBack(q, t) :
                 \/ k \in DOMAIN q /\ PushBack(q, t)[k] = q[k]
                 \/ /\ k = Len(q) + 1 /\ PushBack(q, t)[k] = t
                    /\ \A l \in DOMAIN q : q[l] # t
<1>1. CASE \E k \in DOMAIN q : q[k] = t
  <2> DEFINE j == CHOOSE k \in DOMAIN q : q[k] = t
  <2>1. j \in 1..Len(q)
    BY <1>1
  <2> HIDE DEF j
  <2>2. /\ SubSeq(q, 1, j) \in Seq(S)
        /\ Len(SubSeq(q, 1, j)) = j
        /\ \A i \in 1..j : SubSeq(q, 1, j)[i] = q[i]
    BY <2>1
  <2>3. PushBack(q, t) = SubSeq(q, 1, j)
    BY <1>1 DEF PushBack, j
  <2> QED BY <2>1, <2>2, <2>3
<1>2. CASE ~ \E k \in DOMAIN q : q[k] = t
  BY <1>2 DEF PushBack
<1> QED BY <1>1, <1>2

(***************************************************************************)
(* An insertion shifts what follows by one, a removal shifts it back.      *)
(***************************************************************************)
LEMMA InsertExact ==
    ASSUME NEW S, NEW s \in Seq(S), NEW t \in S, NEW j \in 1..Len(s)+1
    PROVE  /\ InsertAt(s, j, t) \in Seq(S)
           /\ DOMAIN InsertAt(s, j, t) = 1..Len(s)+1
           /\ \A k \in 1..Len(s)+1 :
                 InsertAt(s, j, t)[k] = IF k < j THEN s[k] ELSE IF k = j THEN t ELSE s[k-1]
<1> DEFINE a == SubSeq(s, 1, j-1)
           b == SubSeq(s, j, Len(s))
           c == a \o <<t>>
           u == c \o b
<1>0. DOMAIN s = 1..Len(s) /\ Len(s) \in Nat
  OBVIOUS
<1>1. a \in Seq(S) /\ Len(a) = j-1 /\ \A i \in 1..j-1 : a[i] = s[i]
  BY <1>0
<1>2. b \in Seq(S) /\ Len(b) = Len(s)-j+1 /\ \A i \in 1..Len(s)-j+1 : b[i] = s[j+i-1]
  BY <1>0
<1>3. InsertAt(s, j, t) = u
  BY DEF InsertAt
<1> HIDE DEF a, b
<1>4. c \in Seq(S) /\ Len(c) = j /\ c[j] = t /\ \A i \in 1..j-1 : c[i] = a[i]
  BY <1>1
<1> HIDE DEF c
<1>a. /\ u \in Seq(S) /\ Len(u) = Len(c) + Len(b)
      /\ \A i \in 1..Len(c)+Len(b) : u[i] = IF i <= Len(c) THEN c[i] ELSE b[i-Len(c)]
  BY <1>2, <1>4, ConcatProperties
<1> HIDE DEF u
<1>5. /\ u \in Seq(S) /\ Len(u) = Len(s) + 1
      /\ \A i \in 1..j : u[i] = c[i]
      /\ \A i \in j+1..Len(s)+1 : u[i] = b[i-j]
  BY <1>0, <1>2, <1>4, <1>a
<1>6. ASSUME NEW k \in 1..Len(s)+1
      PROVE  u[k] = IF k < j THEN s[k] ELSE IF k = j THEN t ELSE s[k-1]
  <2>1. CASE k < j
    <3>1. k \in 1..j-1 /\ k \in 1..j
      BY <1>0, <2>1
    <3> QED BY <1>1, <1>4, <1>5, <2>1, <3>1
  <2>2. CASE k = j
    BY <1>4, <1>5, <2>2
  <2>3. CASE k > j
    <3>1. k \in j+1..Len(s)+1 /\ k-j \in 1..Len(s)-j+1 /\ j+(k-j)-1 = k-1
      BY <1>0, <2>3
    <3>2. u[k] = s[k-1]
      BY <1>2, <1>5, <3>1
    <3> QED BY <2>3, <3>2
  <2> QED BY <1>0, <2>1, <2>2, <2>3
<1>7. DOMAIN u = 1..Len(s)+1
  BY <1>0, <1>5
<1> QED BY <1>3, <1>5, <1>6, <1>7

LEMMA InsertElements ==
    ASSUME NEW S, NEW s \in Seq(S), NEW t \in S, NEW j \in 1..Len(s)+1
    PROVE  /\ InsertAt(s, j, t) \in Seq(S)
           /\ \A k \in DOMAIN InsertAt(s, j, t) :
                 \/ InsertAt(s, j, t)[k] = t
                 \/ \E l \in DOMAIN s : InsertAt(s, j, t)[k] = s[l]
<1>1. DOMAIN s = 1..Len(s) /\ Len(s) \in Nat
  OBVIOUS
<1>2. ASSUME NEW k \in 1..Len(s)+1
      PROVE  k = j \/ (k < j /\ k \in DOMAIN s) \/ (k > j /\ k-1 \in DOMAIN s)
  BY <1>1
<1> QED BY <1>2, InsertExact

LEMMA RemoveExact ==
    ASSUME NEW S, NEW s \in Seq(S), NEW j \in DOMAIN s
    PROVE  /\ RemoveAt(s, j) \in Seq(S)
           /\ DOMAIN RemoveAt(s, j) = 1..Len(s)-1
           /\ \A k \in 1..Len(s)-1 : RemoveAt(s, j)[k] = IF k < j THEN s[k] ELSE s[k+1]
<1> DEFINE a == SubSeq(s, 1, j-1)
           b == SubSeq(s, j+1, Len(s))
           u == a \o b
<1>0. j \in 1..Len(s) /\ DOMAIN s = 1..Len(s) /\ Len(s) \in Nat
  OBVIOUS
<1>1. a \in Seq(S) /\ Len(a) = j-1 /\ \A i \in 1..j-1 : a[i] = s[i]
  BY <1>0
<1>2. b \in Seq(S) /\ Len(b) = Len(s)-j /\ \A i \in 1..Len(s)-j : b[i] = s[j+i]
  BY <1>0
<1>3. RemoveAt(s, j) = u
  BY DEF RemoveAt
<1> HIDE DEF a, b
<1>a. /\ u \in Seq(S) /\ Len(u) = Len(a) + Len(b)
      /\ \A i \in 1..Len(a)+Len(b) : u[i] = IF i <= Len(a) THEN a[i] ELSE b[i-Len(a)]
  BY <1>1, <1>2, ConcatProperties
<1> HIDE DEF u
<1>4. /\ u \in Seq(S) /\ Len(u) = Len(s) - 1
      /\ \A i \in 1..j-1 : u[i] = a[i]
      /\ \A i \in j..Len(s)-1 : u[i] = b[i-(j-1)]
  BY <1>0, <1>1, <1>2, <1>a
<1>5. ASSUME NEW k \in 1..Len(s)-1
      PROVE  u[k] = IF k < j THEN s[k] ELSE s[k+1]
  <2>1. CASE k < j
    <3>1. k \in 1..j-1
      BY <1>0, <2>1
    <3> QED BY <1>1, <1>4, <2>1, <3>1
  <2>2. CASE k >= j
    <3>1. k \in j..Len(s)-1 /\ k-(j-1) \in 1..Len(s)-j /\ j+(k-(j-1)) = k+1
      BY <1>0, <2>2
    <3>2. u[k] = s[k+1]
      BY <1>2, <1>4, <3>1
    <3> QED BY <1>0, <2>2, <3>2
  <2> QED BY <1>0, <2>1, <2>2
<1>6. DOMAIN u = 1..Len(s)-1
  BY <1>0, <1>4
<1> QED BY <1>3, <1>4, <1>5, <1>6

LEMMA RemoveElements ==
    ASSUME NEW S, NEW s \in Seq(S), NEW j \in DOMAIN s
    PROVE  /\ RemoveAt(s, j) \in Seq(S)
           /\ \A k \in DOMAIN RemoveAt(s, j) :
                 \E l \in DOMAIN s : RemoveAt(s, j)[k] = s[l]
<1>1. DOMAIN s = 1..Len(s) /\ Len(s) \in Nat /\ j \in 1..Len(s)
  OBVIOUS
<1>2. ASSUME NEW k \in 1..Len(s)-1
      PROVE  k \in DOMAIN s /\ k+1 \in DOMAIN s
  BY <1>1
<1> QED BY <1>2, RemoveExact

-----------------------------------------------------------------------------
(* The inductive invariant                                                 *)

(***************************************************************************)
(* TypeOK alone is not inductive: that a boost keeps priorities in range   *)
(* needs QueueSound, and that gain() may queue the previous thread needs   *)
(* CoreInvariant.                                                          *)
(***************************************************************************)
IInv == TypeOK /\ QueueSound /\ CoreInvariant

LEMMA ConstantFacts ==
    /\ MAX_THREADS \in Nat /\ MAX_THREADS > 0
    /\ SCHED_QUEUES \in Nat /\ SCHED_QUEUES > 0
    /\ YIELD_RUNS \in Nat /\ YIELD_RUNS > 0
    /\ NO_TIMEOUT \in Nat /\ MaxClock \in Nat /\ MaxClock <= NO_TIMEOUT /\ ClockStep \in Nat
    /\ Timeouts \subseteq 0..NO_TIMEOUT
    /\ Idle \notin Thread /\ Idle \in TCB /\ Thread \subseteq TCB
    /\ TCB = Thread \cup {Idle} /\ 0 \in Thread /\ 0 \in Queue
    /\ Causes \subseteq SCHED_CAUSE
BY ThreadsAssumption, QueuesAssumption, RunsAssumption, TimeAssumption, CausesAssumption
   DEF Idle, Thread, TCB, Queue, SCHED_CAUSE

LEMMA IInvInit == Init => IInv
<1> SUFFICES ASSUME Init PROVE IInv
  OBVIOUS
<1> USE ConstantFacts
<1>1. TypeOK
  <2>1. used \in [Thread -> BOOLEAN] /\ state \in [TCB -> Thread_state]
    BY DEF Init, Thread_state
  <2>2. phase \in [TCB -> Thread_phase] /\ priority \in [TCB -> Queue]
    BY DEF Init, Thread_phase
  <2>3. wakeup_time \in [TCB -> 0..NO_TIMEOUT] /\ curr_cause \in [TCB -> SCHED_CAUSE]
    BY DEF Init, SCHED_CAUSE
  <2>4. SCHED \in [Queue -> Seq(Thread)] /\ TIMEOUT_LIST \in Seq(Thread)
    BY DEF Init
  <2>5. active_threads \in 0..UintMod-1 /\ yield_count \in 0..YIELD_RUNS-1 /\ clock \in 0..MaxClock
    BY DEF Init, UintMod
  <2>6. current \in TCB /\ previous \in TCB \cup {NULL} /\ armed \in BOOLEAN /\ alarm \in BOOLEAN
    BY DEF Init
  <2>7. /\ pc \in [TCB -> ThreadPC \cup IdlePC] /\ pc[Idle] \in IdlePC
        /\ \A t \in Thread : pc[t] \in ThreadPC
        /\ stage \in {"run", "expire", "gain"}
    BY DEF Init, ThreadPC, IdlePC
  <2> QED BY <2>1, <2>2, <2>3, <2>4, <2>5, <2>6, <2>7 DEF TypeOK
<1>2. QueueSound
  <2> SUFFICES ASSUME NEW i \in Queue, NEW k \in DOMAIN SCHED[i]
               PROVE  /\ used[SCHED[i][k]]
                      /\ state[SCHED[i][k]] = "READY"
                      /\ phase[SCHED[i][k]] = "CTX_CLEAN"
                      /\ SCHED[i][k] # current
                      /\ priority[SCHED[i][k]] = i
                      /\ \A l \in DOMAIN SCHED[i] : SCHED[i][k] = SCHED[i][l] => k = l
    BY DEF QueueSound
  <2>1. i = 0 /\ SCHED[i] = <<0>>
    BY DEF Init
  <2>2. k = 1 /\ DOMAIN SCHED[i] = {1} /\ SCHED[i][k] = 0
    BY <2>1
  <2> QED BY <2>1, <2>2 DEF Init
<1>3. CoreInvariant
  <2>1. CurrentLive /\ RunState /\ StartState /\ ExpireState /\ GainState
    BY DEF Init, CurrentLive, RunState, StartState, ExpireState, GainState
  <2>2. RunningOnly
    BY DEF Init, RunningOnly
  <2>3. PreviousLive /\ SleeperLive
    BY DEF Init, PreviousLive, Pending, SleeperLive
  <2> QED BY <2>1, <2>2, <2>3 DEF CoreInvariant
<1> QED BY <1>1, <1>2, <1>3 DEF IInv

-----------------------------------------------------------------------------
(* yield()                                                                 *)

(***************************************************************************)
(* sched_boost_priority moves every queued thread up by at most one level, *)
(* in the queues and in its TCB alike, and never below zero.               *)
(***************************************************************************)
LEMMA BoostSound ==
    ASSUME TypeOK, QueueSound
    PROVE  /\ BoostedQueues \in [Queue -> Seq(Thread)]
           /\ BoostedPriorities \in [TCB -> Queue]
           /\ \A i \in Queue : \A k \in DOMAIN BoostedQueues[i] :
                 /\ used[BoostedQueues[i][k]]
                 /\ state[BoostedQueues[i][k]] = "READY"
                 /\ phase[BoostedQueues[i][k]] = "CTX_CLEAN"
                 /\ BoostedQueues[i][k] # current
                 /\ BoostedPriorities[BoostedQueues[i][k]] = i
                 /\ \A l \in DOMAIN BoostedQueues[i] :
                       BoostedQueues[i][k] = BoostedQueues[i][l] => k = l
<1> USE ConstantFacts
<1>1. /\ SCHED \in [Queue -> Seq(Thread)] /\ priority \in [TCB -> Queue]
      /\ \A i \in Queue : DOMAIN SCHED[i] = 1..Len(SCHED[i]) /\ Len(SCHED[i]) \in Nat
      /\ \A i \in Queue : \A k \in DOMAIN SCHED[i] : SCHED[i][k] \in Thread
  BY DEF TypeOK
<1>2. /\ BoostedLevels = Queue \ {0}
      /\ \A i \in Queue : SCHED[i] \in Seq(Thread) /\ (i + 1 \in BoostedLevels => i + 1 \in Queue)
  BY <1>1 DEF BoostedLevels, Queue
<1>3. /\ \A i \in Queue \ {0} :
            BoostedQueues[i] = IF i + 1 \in BoostedLevels THEN SCHED[i+1] ELSE << >>
      /\ BoostedQueues[0] = SCHED[0] \o (IF 1 \in BoostedLevels THEN SCHED[1] ELSE << >>)
  <2>1. \A q \in Seq(Thread) : << >> \o q = q
    BY ConcatProperties
  <2>2. << >> \in Seq(Thread)
    OBVIOUS
  <2>3. \A i \in Queue : (IF i + 1 \in BoostedLevels THEN SCHED[i+1] ELSE << >>) \in Seq(Thread)
    BY <1>2, <2>2
  <2>4. ASSUME NEW i \in Queue \ {0}
        PROVE  BoostedQueues[i] = IF i + 1 \in BoostedLevels THEN SCHED[i+1] ELSE << >>
    <3>1. BoostedQueues[i] = << >> \o (IF i + 1 \in BoostedLevels THEN SCHED[i+1] ELSE << >>)
      BY <1>2 DEF BoostedQueues
    <3> QED BY <2>1, <2>3, <3>1
  <2>5. BoostedQueues[0] = SCHED[0] \o (IF 1 \in BoostedLevels THEN SCHED[1] ELSE << >>)
    <3>1. BoostedQueues[0] = (IF 0 \in BoostedLevels THEN << >> ELSE SCHED[0])
                             \o (IF 0 + 1 \in BoostedLevels THEN SCHED[0 + 1] ELSE << >>)
      BY DEF BoostedQueues
    <3>2. 0 \notin BoostedLevels /\ 0 + 1 = 1
      BY <1>2
    <3> QED BY <3>1, <3>2
  <2> QED BY <2>4, <2>5
<1>4. BoostedQueues \in [Queue -> Seq(Thread)]
  <2>1. BoostedQueues = [i \in Queue |-> BoostedQueues[i]]
    BY DEF BoostedQueues
  <2>2. (IF 1 \in BoostedLevels THEN SCHED[1] ELSE << >>) \in Seq(Thread)
    BY <1>2
  <2>3. BoostedQueues[0] \in Seq(Thread)
    BY <1>2, <1>3, <2>2, ConcatProperties
  <2>4. \A i \in Queue : BoostedQueues[i] \in Seq(Thread)
    <3>1. \A i \in Queue \ {0} : BoostedQueues[i] \in Seq(Thread)
      <4> TAKE i \in Queue \ {0}
      <4>1. CASE i + 1 \in BoostedLevels
        BY <1>2, <1>3, <4>1
      <4>2. CASE i + 1 \notin BoostedLevels
        <5>1. BoostedQueues[i] = << >>
          BY <1>3, <4>2
        <5> QED BY <5>1
      <4> QED BY <4>1, <4>2
    <3> QED BY <2>3, <3>1
  <2> QED BY <2>1, <2>4
<1>5. ASSUME NEW i \in Queue, NEW k \in DOMAIN SCHED[i]
      PROVE  BoostedPriorities[SCHED[i][k]] = IF i = 0 THEN 0 ELSE i - 1
  <2>1. SCHED[i][k] \in TCB /\ priority[SCHED[i][k]] = i
    BY <1>1 DEF QueueSound
  <2>2. CASE i = 0
    <3>1. ASSUME NEW j \in Queue \ {0} PROVE SCHED[i][k] \notin ToSet(SCHED[j])
      BY <2>1, <2>2 DEF QueueSound, ToSet
    <3> QED BY <1>2, <2>1, <2>2, <3>1 DEF BoostedPriorities
  <2>3. CASE i # 0
    <3>1. SCHED[i][k] \in ToSet(SCHED[i])
      BY DEF ToSet
    <3> QED BY <1>2, <2>1, <2>3, <3>1 DEF BoostedPriorities
  <2> QED BY <2>2, <2>3
<1>6. BoostedPriorities \in [TCB -> Queue]
  <2>1. ASSUME NEW t \in TCB, NEW j \in Queue \ {0}, t \in ToSet(SCHED[j])
        PROVE  priority[t] - 1 \in Queue
    <3>1. PICK k \in DOMAIN SCHED[j] : t = SCHED[j][k]
      BY <2>1 DEF ToSet
    <3>2. priority[t] = j
      BY <3>1 DEF QueueSound
    <3> QED BY <3>2 DEF Queue
  <2> QED BY <1>1, <1>2, <2>1 DEF BoostedPriorities
<1>7. ASSUME NEW i \in Queue, NEW k \in DOMAIN BoostedQueues[i]
      PROVE  /\ used[BoostedQueues[i][k]]
             /\ state[BoostedQueues[i][k]] = "READY"
             /\ phase[BoostedQueues[i][k]] = "CTX_CLEAN"
             /\ BoostedQueues[i][k] # current
             /\ BoostedPriorities[BoostedQueues[i][k]] = i
             /\ \A l \in DOMAIN BoostedQueues[i] :
                   BoostedQueues[i][k] = BoostedQueues[i][l] => k = l
  <2>1. CASE i # 0
    <3>1. i + 1 \in Queue /\ BoostedQueues[i] = SCHED[i+1]
      BY <1>2, <1>3, <2>1
    <3>2. BoostedPriorities[SCHED[i+1][k]] = i
      BY <1>5, <3>1 DEF Queue
    <3> QED BY <3>1, <3>2 DEF QueueSound
  <2>2. CASE i = 0 /\ 1 \notin Queue
    <3>1. BoostedQueues[i] = SCHED[0]
      BY <1>1, <1>2, <1>3, <2>2, ConcatProperties
    <3> QED BY <1>5, <2>2, <3>1 DEF QueueSound
  <2>3. CASE i = 0 /\ 1 \in Queue
    <3> DEFINE a == SCHED[0]
               b == SCHED[1]
               u == BoostedQueues[0]
    <3>1. a \in Seq(Thread) /\ b \in Seq(Thread) /\ u = a \o b
      BY <1>1, <1>2, <1>3, <2>3
    <3> HIDE DEF a, b, u
    <3>2. /\ DOMAIN u = 1..Len(a)+Len(b) /\ DOMAIN a = 1..Len(a) /\ DOMAIN b = 1..Len(b)
          /\ Len(a) \in Nat /\ Len(b) \in Nat
          /\ \A l \in DOMAIN u : \/ l \in DOMAIN a /\ u[l] = a[l]
                                 \/ l - Len(a) \in DOMAIN b /\ u[l] = b[l - Len(a)]
      <4>1. /\ u \in Seq(Thread) /\ Len(u) = Len(a) + Len(b)
            /\ \A l \in 1..Len(a)+Len(b) : u[l] = IF l <= Len(a) THEN a[l] ELSE b[l - Len(a)]
        BY <3>1, ConcatProperties
      <4> QED BY <3>1, <4>1
    <3>3. ASSUME NEW m \in DOMAIN a
          PROVE  /\ used[a[m]] /\ state[a[m]] = "READY" /\ phase[a[m]] = "CTX_CLEAN"
                 /\ a[m] # current /\ priority[a[m]] = 0 /\ BoostedPriorities[a[m]] = 0
                 /\ \A n \in DOMAIN a : a[m] = a[n] => m = n
      BY <1>5, <2>3 DEF QueueSound, a
    <3>4. ASSUME NEW m \in DOMAIN b
          PROVE  /\ used[b[m]] /\ state[b[m]] = "READY" /\ phase[b[m]] = "CTX_CLEAN"
                 /\ b[m] # current /\ priority[b[m]] = 1 /\ BoostedPriorities[b[m]] = 0
                 /\ \A n \in DOMAIN b : b[m] = b[n] => m = n
      BY <1>5, <2>3 DEF QueueSound, b
    <3>5. k \in DOMAIN u
      BY <2>3 DEF u
    <3>6. /\ used[u[k]] /\ state[u[k]] = "READY" /\ phase[u[k]] = "CTX_CLEAN"
          /\ u[k] # current /\ BoostedPriorities[u[k]] = 0
      BY <3>2, <3>3, <3>4, <3>5
    <3>7. ASSUME NEW l \in DOMAIN u, u[k] = u[l] PROVE k = l
      BY <3>2, <3>3, <3>4, <3>5, <3>7
    <3> QED BY <2>3, <3>6, <3>7 DEF u
  <2> QED BY <2>1, <2>2, <2>3
<1> QED BY <1>4, <1>6, <1>7

(***************************************************************************)
(* What yield() leaves for the timeout scan, whoever calls it.  A thread   *)
(* that is still in thread_start calls it from the ALARM handler only, and *)
(* then keeps its state.                                                   *)
(***************************************************************************)
LEMMA YieldSound ==
    ASSUME IInv, stage = "run",
           NEW cause \in SCHED_CAUSE, NEW st \in Thread_state,
           st = state[current] \/ pc[current] # "start",
           yield(cause, st)
    PROVE  /\ used' = used /\ phase' = phase /\ active_threads' = active_threads
           /\ current' = current /\ previous' = previous /\ clock' = clock /\ stage' = "expire"
           /\ state' \in [TCB -> Thread_state]
           /\ priority' \in [TCB -> Queue]
           /\ curr_cause' \in [TCB -> SCHED_CAUSE]
           /\ SCHED' \in [Queue -> Seq(Thread)]
           /\ yield_count' \in 0..YIELD_RUNS-1
           /\ QueueSound'
           /\ CurrentLive' /\ RunningOnly' /\ RunState' /\ StartState'
           /\ ExpireState' /\ GainState' /\ PreviousLive'
           /\ \A t \in Thread : used[t] \/ state[t] = "EXITED" => used'[t] \/ state'[t] = "EXITED"
<1> USE ConstantFacts
<1> DEFINE boost == yield_count + 1 = YIELD_RUNS
           prio  == IF boost THEN BoostedPriorities ELSE priority
           queues == IF boost THEN BoostedQueues ELSE SCHED
           st2 == IF st = "RUNNING" THEN "READY" ELSE st
<1>0. TypeOK /\ QueueSound /\ CoreInvariant
  BY DEF IInv
<1>1. /\ yield_count' = IF boost THEN 0 ELSE yield_count + 1
      /\ SCHED' = queues
      /\ priority' = [prio EXCEPT ![current] = AdjustedPriority(cause, prio[current])]
      /\ curr_cause' = [curr_cause EXCEPT ![current] = cause]
      /\ state' = [state EXCEPT ![current] = st2]
      /\ stage' = "expire"
      /\ used' = used /\ phase' = phase /\ active_threads' = active_threads
      /\ current' = current /\ previous' = previous /\ clock' = clock
  BY DEF yield
<1>2. /\ used \in [Thread -> BOOLEAN] /\ state \in [TCB -> Thread_state]
      /\ phase \in [TCB -> Thread_phase] /\ priority \in [TCB -> Queue]
      /\ curr_cause \in [TCB -> SCHED_CAUSE] /\ yield_count \in 0..YIELD_RUNS-1
      /\ current \in TCB /\ SCHED \in [Queue -> Seq(Thread)]
  BY <1>0 DEF TypeOK
<1>3. /\ queues \in [Queue -> Seq(Thread)] /\ prio \in [TCB -> Queue]
      /\ \A i \in Queue : \A k \in DOMAIN queues[i] :
            /\ used[queues[i][k]]
            /\ state[queues[i][k]] = "READY"
            /\ phase[queues[i][k]] = "CTX_CLEAN"
            /\ queues[i][k] # current
            /\ prio[queues[i][k]] = i
            /\ \A l \in DOMAIN queues[i] : queues[i][k] = queues[i][l] => k = l
  <2>1. CASE boost
    BY <1>0, <2>1, BoostSound
  <2>2. CASE ~boost
    BY <1>0, <1>2, <2>2 DEF QueueSound
  <2> QED BY <2>1, <2>2
<1>4. st2 \in Thread_state /\ st2 # "RUNNING"
  BY DEF Thread_state
<1>5. /\ state[current] \in {"READY", "RUNNING"}
      /\ st2 = "READY" \/ phase[current] = "CTX_DIRTY"
  BY <1>0 DEF CoreInvariant, RunState, StartState
<1>6. yield_count' \in 0..YIELD_RUNS-1
  BY <1>1, <1>2
<1> HIDE DEF boost, prio, queues, st2
<1>7. AdjustedPriority(cause, prio[current]) \in Queue
  <2>1. prio[current] \in Queue
    BY <1>2, <1>3
  <2> QED BY <2>1 DEF AdjustedPriority, Queue
<1>8. /\ state' \in [TCB -> Thread_state] /\ priority' \in [TCB -> Queue]
      /\ curr_cause' \in [TCB -> SCHED_CAUSE] /\ SCHED' \in [Queue -> Seq(Thread)]
  BY <1>1, <1>2, <1>3, <1>4, <1>7
<1>9. QueueSound'
  <2> SUFFICES ASSUME NEW i \in Queue, NEW k \in DOMAIN queues[i]
               PROVE  /\ used[queues[i][k]]
                      /\ state'[queues[i][k]] = "READY"
                      /\ phase[queues[i][k]] = "CTX_CLEAN"
                      /\ queues[i][k] # current
                      /\ priority'[queues[i][k]] = i
                      /\ \A l \in DOMAIN queues[i] : queues[i][k] = queues[i][l] => k = l
    BY <1>1 DEF QueueSound
  <2>1. queues[i][k] \in TCB
    BY <1>3
  <2> QED BY <1>1, <1>2, <1>3, <2>1
<1>10. \A t \in TCB : state'[t] = IF t = current THEN st2 ELSE state[t]
  BY <1>1, <1>2
<1>11. CurrentLive' /\ RunState' /\ StartState' /\ GainState' /\ PreviousLive'
  BY <1>0, <1>1 DEF CoreInvariant, CurrentLive, RunState, StartState, GainState, PreviousLive, Pending
<1>12. RunningOnly'
  BY <1>0, <1>4, <1>10 DEF CoreInvariant, RunningOnly
<1>13. ExpireState'
  BY <1>1, <1>2, <1>5, <1>10 DEF ExpireState
<1>14. \A t \in Thread : used[t] \/ state[t] = "EXITED" => used'[t] \/ state'[t] = "EXITED"
  BY <1>0, <1>1, <1>5, <1>10 DEF CoreInvariant, CurrentLive
<1> QED BY <1>1, <1>6, <1>8, <1>9, <1>11, <1>12, <1>13, <1>14

-----------------------------------------------------------------------------
(* The steps that change states or queues                                  *)

(***************************************************************************)
(* sched_queue_add(t), by a step after which what was queued may still be  *)
(* run and so may t.  It does not matter whether t was queued before.      *)
(***************************************************************************)
LEMMA QueueAddSound ==
    ASSUME SCHED \in [Queue -> Seq(Thread)], priority \in [TCB -> Queue], priority' = priority,
           NEW t \in Thread,
           \A i \in Queue : \A k \in DOMAIN SCHED[i] :
                /\ used'[SCHED[i][k]]
                /\ state'[SCHED[i][k]] = "READY"
                /\ phase'[SCHED[i][k]] = "CTX_CLEAN"
                /\ SCHED[i][k] # current'
                /\ priority[SCHED[i][k]] = i
                /\ \A l \in DOMAIN SCHED[i] : SCHED[i][k] = SCHED[i][l] => k = l,
           used'[t], state'[t] = "READY", phase'[t] = "CTX_CLEAN", t # current',
           sched_queue_add(t)
    PROVE  SCHED' \in [Queue -> Seq(Thread)] /\ QueueSound'
<1> USE ConstantFacts
<1> DEFINE p == priority[t]
           s == SCHED[p]
           q == PushBack(s, t)
<1>1. p \in Queue /\ s \in Seq(Thread)
  OBVIOUS
<1> HIDE DEF p, s
<1>2. /\ q \in Seq(Thread)
      /\ \A k \in DOMAIN q : \/ k \in DOMAIN s /\ q[k] = s[k]
                             \/ /\ k = Len(s) + 1 /\ q[k] = t
                                /\ \A l \in DOMAIN s : s[l] # t
  BY <1>1, PushBackElements
<1>3. SCHED' = [SCHED EXCEPT ![p] = q] /\ priority[t] = p
  BY DEF sched_queue_add, p, s
<1>4. \A k \in DOMAIN s :
         /\ used'[s[k]] /\ state'[s[k]] = "READY" /\ phase'[s[k]] = "CTX_CLEAN"
         /\ s[k] # current' /\ priority[s[k]] = p
         /\ \A l \in DOMAIN s : s[k] = s[l] => k = l
  BY <1>1 DEF s
<1> HIDE DEF q
<1>5. SCHED' \in [Queue -> Seq(Thread)] /\ SCHED'[p] = q /\ \A i \in Queue \ {p} : SCHED'[i] = SCHED[i]
  BY <1>1, <1>2, <1>3
<1>6. ASSUME NEW k \in DOMAIN q
      PROVE  /\ used'[q[k]] /\ state'[q[k]] = "READY" /\ phase'[q[k]] = "CTX_CLEAN"
             /\ q[k] # current' /\ priority[q[k]] = p
             /\ \A l \in DOMAIN q : q[k] = q[l] => k = l
  <2>1. CASE k \in DOMAIN s /\ q[k] = s[k]
    <3>1. ASSUME NEW l \in DOMAIN q, q[k] = q[l] PROVE k = l
      <4>1. CASE l \in DOMAIN s /\ q[l] = s[l]
        <5>1. s[k] = s[l] /\ k \in DOMAIN s /\ l \in DOMAIN s
          BY <2>1, <3>1, <4>1
        <5> QED BY <1>4, <5>1
      <4>2. CASE q[l] = t /\ \A m \in DOMAIN s : s[m] # t
        <5>1. s[k] = t
          BY <2>1, <3>1, <4>2
        <5> QED BY <2>1, <4>2, <5>1
      <4> QED BY <1>2, <4>1, <4>2
    <3> QED BY <1>4, <2>1, <3>1
  <2>2. CASE k = Len(s) + 1 /\ q[k] = t /\ \A l \in DOMAIN s : s[l] # t
    <3>1. ASSUME NEW l \in DOMAIN q, q[k] = q[l] PROVE k = l
      BY <1>2, <2>2, <3>1
    <3> QED BY <1>3, <2>2, <3>1
  <2> QED BY <1>2, <2>1, <2>2
<1>7. ASSUME NEW i \in Queue, NEW k \in DOMAIN SCHED'[i]
      PROVE  /\ used'[SCHED'[i][k]] /\ state'[SCHED'[i][k]] = "READY"
             /\ phase'[SCHED'[i][k]] = "CTX_CLEAN" /\ SCHED'[i][k] # current'
             /\ priority[SCHED'[i][k]] = i
             /\ \A l \in DOMAIN SCHED'[i] : SCHED'[i][k] = SCHED'[i][l] => k = l
  <2>1. CASE i = p
    BY <1>5, <1>6, <2>1
  <2>2. CASE i # p
    <3>1. SCHED'[i] = SCHED[i]
      BY <1>5, <2>2
    <3> QED BY <3>1
  <2> QED BY <2>1, <2>2
<1> QED BY <1>5, <1>7 DEF QueueSound

(***************************************************************************)
(* sched_make_ready of a live thread, by a running thread or by the scan.  *)
(***************************************************************************)
LEMMA MakeReadySound ==
    ASSUME IInv, NEW t \in Thread,
           used[t] \/ state[t] = "EXITED",
           stage = "expire" \/ (stage = "run" /\ pc[current] # "start"),
           sched_make_ready(t),
           UNCHANGED <<used, phase, priority, curr_cause, active_threads, yield_count,
                       current, previous, clock, timer, pc, stage>>
    PROVE  IInv'
<1> USE ConstantFacts
<1>0. TypeOK /\ QueueSound /\ CoreInvariant
  BY DEF IInv
<1>1. /\ used' = used /\ phase' = phase /\ priority' = priority /\ curr_cause' = curr_cause
      /\ active_threads' = active_threads /\ yield_count' = yield_count
      /\ current' = current /\ previous' = previous /\ clock' = clock
      /\ armed' = armed /\ alarm' = alarm /\ pc' = pc /\ stage' = stage
  BY DEF timer
<1>2. /\ used \in [Thread -> BOOLEAN] /\ state \in [TCB -> Thread_state]
      /\ phase \in [TCB -> Thread_phase] /\ priority \in [TCB -> Queue]
      /\ wakeup_time \in [TCB -> 0..NO_TIMEOUT] /\ current \in TCB
      /\ SCHED \in [Queue -> Seq(Thread)] /\ TIMEOUT_LIST \in Seq(Thread)
      /\ t \in TCB
  BY <1>0 DEF TypeOK
<1>3. /\ state[t] \in {"STOPPED", "INIT"} /\ used[t]
      /\ state' = [state EXCEPT ![t] = "READY"]
  BY DEF sched_make_ready
<1>4. t = current => phase[t] = "CTX_DIRTY"
  BY <1>0, <1>3 DEF CoreInvariant, RunState, ExpireState
<1>5. state' \in [TCB -> Thread_state] /\ \A u \in TCB : state'[u] = IF u = t THEN "READY" ELSE state[u]
  BY <1>2, <1>3 DEF Thread_state
<1>6. wakeup_time' \in [TCB -> 0..NO_TIMEOUT]
  <2>1. wakeup_time' = wakeup_time \/ wakeup_time' = [wakeup_time EXCEPT ![t] = NO_TIMEOUT]
    BY DEF sched_make_ready, CancelTimeout
  <2>2. NO_TIMEOUT \in 0..NO_TIMEOUT
    OBVIOUS
  <2>3. CASE wakeup_time' = [wakeup_time EXCEPT ![t] = NO_TIMEOUT]
    BY <1>2, <2>2, <2>3
  <2> QED BY <1>2, <2>1, <2>3
<1>7. TIMEOUT_LIST' \in Seq(Thread) /\ SleeperLive'
  <2>1. \A k \in DOMAIN TIMEOUT_LIST : used[TIMEOUT_LIST[k]] \/ state[TIMEOUT_LIST[k]] = "EXITED"
    BY <1>0 DEF CoreInvariant, SleeperLive
  <2>2. CASE TIMEOUT_LIST' = TIMEOUT_LIST
    <3>1. \A k \in DOMAIN TIMEOUT_LIST : TIMEOUT_LIST[k] \in TCB
      BY <1>2
    <3> QED BY <1>1, <1>2, <1>3, <1>5, <2>1, <2>2, <3>1 DEF SleeperLive
  <2>3. CASE \E k \in DOMAIN TIMEOUT_LIST : TIMEOUT_LIST' = RemoveAt(TIMEOUT_LIST, k)
    <3>1. /\ TIMEOUT_LIST' \in Seq(Thread)
          /\ \A k \in DOMAIN TIMEOUT_LIST' : \E l \in DOMAIN TIMEOUT_LIST : TIMEOUT_LIST'[k] = TIMEOUT_LIST[l]
      BY <1>2, <2>3, RemoveElements
    <3>2. \A k \in DOMAIN TIMEOUT_LIST' : TIMEOUT_LIST'[k] \in TCB
      BY <3>1
    <3>3. \A k \in DOMAIN TIMEOUT_LIST' : used[TIMEOUT_LIST'[k]] \/ state[TIMEOUT_LIST'[k]] = "EXITED"
      BY <2>1, <3>1
    <3> QED BY <1>1, <1>3, <1>5, <3>1, <3>2, <3>3 DEF SleeperLive
  <2> QED BY <2>2, <2>3 DEF sched_make_ready, CancelTimeout
<1>8. SCHED' \in [Queue -> Seq(Thread)] /\ QueueSound'
  <2>1. \A i \in Queue : \A k \in DOMAIN SCHED[i] :
           SCHED[i][k] # t /\ SCHED[i][k] \in TCB /\ state'[SCHED[i][k]] = "READY"
    BY <1>0, <1>2, <1>3, <1>5 DEF QueueSound
  <2>2. CASE SCHED' = SCHED
    BY <1>0, <1>1, <1>2, <2>1, <2>2 DEF QueueSound
  <2>3. CASE phase[t] = "CTX_CLEAN" /\ sched_queue_add(t)
    <3>1. \A i \in Queue : \A k \in DOMAIN SCHED[i] :
             /\ used'[SCHED[i][k]] /\ state'[SCHED[i][k]] = "READY"
             /\ phase'[SCHED[i][k]] = "CTX_CLEAN" /\ SCHED[i][k] # current'
             /\ priority[SCHED[i][k]] = i
             /\ \A l \in DOMAIN SCHED[i] : SCHED[i][k] = SCHED[i][l] => k = l
      BY <1>0, <1>1, <2>1 DEF QueueSound
    <3>2. used'[t] /\ state'[t] = "READY" /\ phase'[t] = "CTX_CLEAN" /\ t # current'
      BY <1>1, <1>2, <1>3, <1>4, <1>5, <2>3
    <3> QED BY <1>1, <1>2, <2>3, <3>1, <3>2, QueueAddSound
  <2> QED BY <2>2, <2>3 DEF sched_make_ready
<1>9. TypeOK'
  BY <1>0, <1>1, <1>5, <1>6, <1>7, <1>8 DEF TypeOK
<1>10. CurrentLive' /\ RunState' /\ StartState' /\ ExpireState' /\ GainState' /\ PreviousLive'
  BY <1>0, <1>1, <1>2, <1>3, <1>5
     DEF CoreInvariant, CurrentLive, RunState, StartState, ExpireState, GainState, PreviousLive, Pending
<1>11. RunningOnly'
  BY <1>0, <1>1, <1>5 DEF CoreInvariant, RunningOnly
<1> QED BY <1>7, <1>8, <1>9, <1>10, <1>11 DEF IInv, CoreInvariant

(***************************************************************************)
(* The selection: the thread at the head of the best queue leaves it, the  *)
(* switch makes it the current one.                                        *)
(***************************************************************************)
LEMMA SwitchSound ==
    ASSUME IInv, stage = "expire", NEW next \in TCB,
           next = Idle \/ state[next] = "READY",
           next \in Thread => used[next],
           SwitchTo(next),
           UNCHANGED <<tcb, TIMEOUT_LIST, yield_count, clock, timer>>,
           SCHED' \in [Queue -> Seq(Thread)]
    PROVE  TypeOK' /\ CoreInvariant'
<1> USE ConstantFacts
<1>0. TypeOK /\ CoreInvariant
  BY DEF IInv
<1>1. /\ used' = used /\ state' = state /\ phase' = phase /\ priority' = priority
      /\ wakeup_time' = wakeup_time /\ curr_cause' = curr_cause
      /\ active_threads' = active_threads /\ TIMEOUT_LIST' = TIMEOUT_LIST
      /\ yield_count' = yield_count /\ clock' = clock /\ armed' = armed /\ alarm' = alarm
  BY DEF tcb, timer
<1>2. previous' = current /\ current' = next
  BY DEF SwitchTo
<1>3. \/ /\ next \in Thread /\ pc' = [pc EXCEPT ![next] = "start"] /\ stage' = "run"
      \/ stage' = "gain" /\ pc' = pc
  BY DEF SwitchTo, TCB
<1>4. current \in TCB /\ pc \in [TCB -> ThreadPC \cup IdlePC]
      /\ pc[Idle] \in IdlePC /\ \A t \in Thread : pc[t] \in ThreadPC
  BY <1>0 DEF TypeOK
<1>5. /\ pc' \in [TCB -> ThreadPC \cup IdlePC] /\ pc'[Idle] \in IdlePC
      /\ \A t \in Thread : pc'[t] \in ThreadPC
      /\ stage' = "run" => next \in Thread /\ pc'[next] = "start"
      /\ stage' \in {"run", "gain"}
  <2>1. CASE stage' = "gain" /\ pc' = pc
    BY <1>4, <2>1
  <2>2. CASE next \in Thread /\ pc' = [pc EXCEPT ![next] = "start"] /\ stage' = "run"
    <3>1. "start" \in ThreadPC
      BY DEF ThreadPC
    <3> QED BY <1>4, <2>2, <3>1
  <2> QED BY <1>3, <2>1, <2>2
<1>6. TypeOK'
  BY <1>0, <1>1, <1>2, <1>4, <1>5 DEF TypeOK
<1>7. CurrentLive' /\ RunState' /\ StartState' /\ ExpireState' /\ GainState'
  BY <1>1, <1>2, <1>5 DEF CurrentLive, RunState, StartState, ExpireState, GainState
<1>8. RunningOnly' /\ SleeperLive'
  BY <1>0, <1>1 DEF CoreInvariant, RunningOnly, SleeperLive
<1>9. PreviousLive'
  BY <1>0, <1>1, <1>2, <1>4 DEF CoreInvariant, PreviousLive, CurrentLive
<1> QED BY <1>6, <1>7, <1>8, <1>9 DEF CoreInvariant

LEMMA SelectQueuedSound ==
    ASSUME IInv, NEW q \in Queue, SelectQueued(q)
    PROVE  IInv'
<1> USE ConstantFacts
<1> DEFINE s == SCHED[q]
           n == Head(s)
<1>1. TypeOK /\ QueueSound
  BY DEF IInv
<1>2. /\ stage = "expire" /\ s # << >> /\ SCHED' = [SCHED EXCEPT ![q] = Tail(s)]
      /\ SwitchTo(n) /\ UNCHANGED <<tcb, TIMEOUT_LIST, yield_count, clock, timer>>
  BY DEF SelectQueued
<1>3. SCHED \in [Queue -> Seq(Thread)] /\ s \in Seq(Thread)
  BY <1>1 DEF TypeOK
<1>4. /\ \A k \in DOMAIN s : /\ used[s[k]] /\ state[s[k]] = "READY" /\ phase[s[k]] = "CTX_CLEAN"
                             /\ priority[s[k]] = q
      /\ \A k, l \in DOMAIN s : s[k] = s[l] => k = l
  BY <1>1 DEF QueueSound
<1> HIDE DEF s
<1>5. /\ n = s[1] /\ 1 \in DOMAIN s /\ n \in Thread /\ Tail(s) \in Seq(Thread)
      /\ DOMAIN s = 1..Len(s) /\ Len(s) \in Nat /\ DOMAIN Tail(s) = 1..Len(s)-1
      /\ \A k \in 1..Len(s)-1 : Tail(s)[k] = s[k+1]
  BY <1>2, <1>3
<1> HIDE DEF n
<1>6. used[n] /\ state[n] = "READY" /\ priority[n] = q
  BY <1>4, <1>5
<1>7. /\ SCHED' \in [Queue -> Seq(Thread)] /\ SCHED'[q] = Tail(s)
      /\ \A i \in Queue \ {q} : SCHED'[i] = SCHED[i]
  BY <1>2, <1>3, <1>5
<1>8. TypeOK' /\ CoreInvariant'
  BY <1>2, <1>5, <1>6, <1>7, SwitchSound
<1>9. QueueSound'
  <2>1. /\ used' = used /\ state' = state /\ phase' = phase /\ priority' = priority /\ current' = n
    BY <1>2 DEF tcb, SwitchTo
  <2> SUFFICES ASSUME NEW i \in Queue, NEW k \in DOMAIN SCHED'[i]
               PROVE  /\ used[SCHED'[i][k]] /\ state[SCHED'[i][k]] = "READY"
                      /\ phase[SCHED'[i][k]] = "CTX_CLEAN" /\ SCHED'[i][k] # n
                      /\ priority[SCHED'[i][k]] = i
                      /\ \A l \in DOMAIN SCHED'[i] : SCHED'[i][k] = SCHED'[i][l] => k = l
    BY <2>1 DEF QueueSound
  <2>2. CASE i # q
    <3>1. SCHED'[i] = SCHED[i]
      BY <1>7, <2>2
    <3>2. /\ used[SCHED[i][k]] /\ state[SCHED[i][k]] = "READY"
          /\ phase[SCHED[i][k]] = "CTX_CLEAN" /\ priority[SCHED[i][k]] = i
          /\ \A l \in DOMAIN SCHED[i] : SCHED[i][k] = SCHED[i][l] => k = l
      BY <1>1, <3>1 DEF QueueSound
    <3>3. SCHED[i][k] # n
      BY <1>6, <2>2, <3>2
    <3> QED BY <3>1, <3>2, <3>3
  <2>3. CASE i = q
    <3>1. /\ SCHED'[i] = Tail(s) /\ k \in 1..Len(s)-1
          /\ k+1 \in DOMAIN s /\ Tail(s)[k] = s[k+1] /\ k+1 # 1
      BY <1>5, <1>7, <2>3
    <3>2. s[k+1] # n
      BY <1>4, <1>5, <3>1
    <3>3. ASSUME NEW l \in 1..Len(s)-1, Tail(s)[k] = Tail(s)[l] PROVE k = l
      <4>1. l+1 \in DOMAIN s /\ s[k+1] = s[l+1]
        BY <1>5, <3>1, <3>3
      <4>2. k+1 = l+1
        BY <1>4, <3>1, <4>1
      <4> QED BY <3>1, <4>2
    <3> QED BY <1>4, <1>5, <2>3, <3>1, <3>2, <3>3
  <2> QED BY <2>2, <2>3
<1> QED BY <1>8, <1>9 DEF IInv

LEMMA SelectFallbackSound ==
    ASSUME IInv, SelectFallback
    PROVE  IInv'
<1> USE ConstantFacts
<1> DEFINE n == IF state[current] = "READY" THEN current ELSE Idle
<1>1. TypeOK /\ QueueSound /\ CoreInvariant
  BY DEF IInv
<1>2. /\ stage = "expire" /\ SCHED' = SCHED /\ SwitchTo(n)
      /\ UNCHANGED <<tcb, TIMEOUT_LIST, yield_count, clock, timer>>
      /\ \A i \in Queue : SCHED[i] = << >>
  BY DEF SelectFallback
<1>3. n \in TCB /\ (n = Idle \/ state[n] = "READY") /\ (n \in Thread => used[n])
  BY <1>1 DEF TypeOK, CoreInvariant, CurrentLive
<1> HIDE DEF n
<1>4. SCHED' \in [Queue -> Seq(Thread)]
  BY <1>1, <1>2 DEF TypeOK
<1>5. TypeOK' /\ CoreInvariant'
  BY <1>2, <1>3, <1>4, SwitchSound
<1>6. QueueSound'
  <2>1. \A i \in Queue : DOMAIN SCHED'[i] = {}
    BY <1>2
  <2> QED BY <2>1 DEF QueueSound
<1> QED BY <1>5, <1>6 DEF IInv

(***************************************************************************)
(* gain(), called by yield() or by thread_start, puts the previous thread  *)
(* away: a READY one into its queue, an EXITED one out of the pool.        *)
(***************************************************************************)
LEMMA GainSound ==
    ASSUME IInv, Pending, gain, stage' = "run"
    PROVE  /\ used' \in [Thread -> BOOLEAN] /\ state' \in [TCB -> Thread_state]
           /\ phase' \in [TCB -> Thread_phase] /\ active_threads' \in 0..UintMod-1
           /\ SCHED' \in [Queue -> Seq(Thread)] /\ armed' \in BOOLEAN
           /\ priority' = priority /\ wakeup_time' = wakeup_time /\ curr_cause' = curr_cause
           /\ TIMEOUT_LIST' = TIMEOUT_LIST /\ yield_count' = yield_count
           /\ current' = current /\ previous' = previous /\ clock' = clock /\ alarm' = alarm
           /\ QueueSound' /\ CoreInvariant'
<1> USE ConstantFacts
<1>0. TypeOK /\ QueueSound /\ CoreInvariant
  BY DEF IInv
<1>1. /\ priority' = priority /\ wakeup_time' = wakeup_time /\ curr_cause' = curr_cause
      /\ TIMEOUT_LIST' = TIMEOUT_LIST /\ yield_count' = yield_count
      /\ current' = current /\ previous' = previous /\ clock' = clock /\ alarm' = alarm
      /\ armed' = TRUE /\ state' = [state EXCEPT ![current] = "RUNNING"]
  BY DEF gain, bios_set_timer
<1>2. /\ used \in [Thread -> BOOLEAN] /\ state \in [TCB -> Thread_state]
      /\ phase \in [TCB -> Thread_phase] /\ priority \in [TCB -> Queue]
      /\ active_threads \in 0..UintMod-1 /\ current \in TCB
      /\ SCHED \in [Queue -> Seq(Thread)] /\ TIMEOUT_LIST \in Seq(Thread)
  BY <1>0 DEF TypeOK
<1>3. /\ previous \in TCB
      /\ previous \in Thread /\ state[previous] = "READY" => used[previous]
      /\ current \in Thread => used[current]
      /\ \A t \in TCB : state[t] = "RUNNING" => t = current
      /\ \A k \in DOMAIN TIMEOUT_LIST : used[TIMEOUT_LIST[k]] \/ state[TIMEOUT_LIST[k]] = "EXITED"
  BY <1>0 DEF CoreInvariant, PreviousLive, CurrentLive, RunningOnly, SleeperLive
<1>4. /\ state' \in [TCB -> Thread_state]
      /\ \A t \in TCB : state'[t] = IF t = current THEN "RUNNING" ELSE state[t]
  BY <1>1, <1>2 DEF Thread_state
<1>5. /\ phase' \in [TCB -> Thread_phase] /\ phase'[current] = "CTX_DIRTY"
      /\ \A t \in TCB \ {current} : phase'[t] = phase[t] \/ phase'[t] = "CTX_CLEAN"
      /\ previous # current => phase'[previous] = "CTX_CLEAN"
  <2>1. "CTX_DIRTY" \in Thread_phase /\ "CTX_CLEAN" \in Thread_phase
    BY DEF Thread_phase
  <2>2. CASE current = previous
    <3>1. phase' = [phase EXCEPT ![current] = "CTX_DIRTY"]
      BY <2>2 DEF gain
    <3> QED BY <1>2, <2>1, <2>2, <3>1
  <2>3. CASE current # previous
    <3>1. phase' = [phase EXCEPT ![current] = "CTX_DIRTY", ![previous] = "CTX_CLEAN"]
      BY <2>3 DEF gain, ContextPhases
    <3> QED BY <1>2, <1>3, <2>1, <2>3, <3>1
  <2> QED BY <2>2, <2>3
<1>6. /\ used' \in [Thread -> BOOLEAN]
      /\ \A t \in Thread : \/ used'[t] = used[t]
                           \/ t = previous /\ t # current /\ state[t] = "EXITED"
  <2>1. \/ used' = used
        \/ /\ current # previous /\ state[previous] = "EXITED"
           /\ used' = [used EXCEPT ![previous] = FALSE]
    BY DEF gain, release_TCB
  <2>0. used \in [Thread -> BOOLEAN]
    BY <1>2
  <2>2. CASE used' = used
    BY <2>0, <2>2, Zenon
  <2>3. CASE /\ current # previous /\ state[previous] = "EXITED"
             /\ used' = [used EXCEPT ![previous] = FALSE]
    <3>1. used' \in [Thread -> BOOLEAN]
      BY <2>0, <2>3
    <3>2. \A t \in Thread \ {previous} : used'[t] = used[t]
      BY <2>0, <2>3
    <3>3. \A t \in Thread : \/ used'[t] = used[t]
                            \/ t = previous /\ t # current /\ state[t] = "EXITED"
      BY <2>3, <3>2, Zenon
    <3> QED BY <3>1, <3>3
  <2> QED BY <2>1, <2>2, <2>3
<1>7. active_threads' \in 0..UintMod-1
  <2>1. active_threads' = active_threads \/ active_threads' = (active_threads - 1) % UintMod
    BY DEF gain, release_TCB
  <2>2. active_threads - 1 \in Int /\ UintMod \in Nat /\ UintMod > 0
    <3>1. active_threads \in 0..UintMod-1
      BY <1>2
    <3>2. UintMod \in Nat /\ UintMod > 0
      BY DEF UintMod
    <3> QED BY <3>1, <3>2
  <2>3. (active_threads - 1) % UintMod \in 0..UintMod-1
    BY <2>2
  <2> QED BY <1>2, <2>1, <2>3
<1>8. \A i \in Queue : \A k \in DOMAIN SCHED[i] :
         /\ used'[SCHED[i][k]] /\ state'[SCHED[i][k]] = "READY"
         /\ phase'[SCHED[i][k]] = "CTX_CLEAN" /\ SCHED[i][k] # current'
         /\ priority[SCHED[i][k]] = i
         /\ \A l \in DOMAIN SCHED[i] : SCHED[i][k] = SCHED[i][l] => k = l
  <2> SUFFICES ASSUME NEW i \in Queue, NEW k \in DOMAIN SCHED[i]
               PROVE  /\ used'[SCHED[i][k]] /\ state'[SCHED[i][k]] = "READY"
                      /\ phase'[SCHED[i][k]] = "CTX_CLEAN" /\ SCHED[i][k] # current
                      /\ priority[SCHED[i][k]] = i
                      /\ \A l \in DOMAIN SCHED[i] : SCHED[i][k] = SCHED[i][l] => k = l
    BY <1>1
  <2>1. SCHED[i][k] \in Thread /\ SCHED[i][k] \in TCB
    BY <1>2
  <2>2. /\ used[SCHED[i][k]] /\ state[SCHED[i][k]] = "READY"
        /\ phase[SCHED[i][k]] = "CTX_CLEAN" /\ SCHED[i][k] # current
        /\ priority[SCHED[i][k]] = i
        /\ \A l \in DOMAIN SCHED[i] : SCHED[i][k] = SCHED[i][l] => k = l
    BY <1>0 DEF QueueSound
  <2> QED BY <1>4, <1>5, <1>6, <2>1, <2>2
<1>9. SCHED' \in [Queue -> Seq(Thread)] /\ QueueSound'
  <2>1. CASE SCHED' = SCHED
    BY <1>1, <1>2, <1>8, <2>1 DEF QueueSound
  <2>2. CASE /\ current # previous /\ state[previous] = "READY" /\ previous # Idle
             /\ sched_queue_add(previous)
    <3>1. /\ previous \in Thread /\ used'[previous] /\ state'[previous] = "READY"
          /\ phase'[previous] = "CTX_CLEAN" /\ previous # current'
      BY <1>1, <1>3, <1>4, <1>5, <1>6, <2>2
    <3> QED BY <1>1, <1>2, <1>8, <2>2, <3>1, QueueAddSound
  <2> QED BY <2>1, <2>2 DEF gain
<1>10. CurrentLive' /\ RunState' /\ StartState' /\ ExpireState' /\ GainState'
  BY <1>1, <1>2, <1>3, <1>4, <1>5, <1>6
     DEF CurrentLive, RunState, StartState, ExpireState, GainState
<1>11. RunningOnly'
  BY <1>1, <1>3, <1>4 DEF RunningOnly
<1>12. PreviousLive'
  <2>1. previous \in Thread /\ state'[previous] = "READY" => used'[previous]
    BY <1>3, <1>4, <1>6
  <2> QED BY <1>1, <1>3, <2>1 DEF PreviousLive
<1>13. SleeperLive'
  <2> SUFFICES ASSUME NEW k \in DOMAIN TIMEOUT_LIST
               PROVE  used'[TIMEOUT_LIST[k]] \/ state'[TIMEOUT_LIST[k]] = "EXITED"
    BY <1>1 DEF SleeperLive
  <2>1. TIMEOUT_LIST[k] \in Thread /\ TIMEOUT_LIST[k] \in TCB
    BY <1>2
  <2> QED BY <1>3, <1>4, <1>6, <2>1
<1>14. CoreInvariant'
  BY <1>10, <1>11, <1>12, <1>13 DEF CoreInvariant
<1> QED BY <1>1, <1>4, <1>5, <1>6, <1>7, <1>9, <1>14

(***************************************************************************)
(* spawn_thread in a free slot: it is neither queued nor on the core.      *)
(***************************************************************************)
LEMMA SpawnSound ==
    ASSUME IInv, NEW t \in Thread, SpawnThread(t)
    PROVE  IInv'
<1> USE ConstantFacts
<1>0. TypeOK /\ QueueSound /\ CoreInvariant
  BY DEF IInv
<1>1. /\ stage = "run" /\ current # Idle /\ pc[current] = "kernel" /\ ~used[t]
      /\ used' = [used EXCEPT ![t] = TRUE] /\ state' = [state EXCEPT ![t] = "INIT"]
      /\ phase' = [phase EXCEPT ![t] = "CTX_CLEAN"] /\ priority' = [priority EXCEPT ![t] = 0]
      /\ wakeup_time' = [wakeup_time EXCEPT ![t] = NO_TIMEOUT]
      /\ curr_cause' = [curr_cause EXCEPT ![t] = "IDLE"]
      /\ pc' = [pc EXCEPT ![t] = "fresh"] /\ active_threads' = (active_threads + 1) % UintMod
      /\ SCHED' = SCHED /\ TIMEOUT_LIST' = TIMEOUT_LIST /\ yield_count' = yield_count
      /\ current' = current /\ previous' = previous /\ clock' = clock
      /\ armed' = armed /\ alarm' = alarm /\ stage' = stage
  BY DEF SpawnThread, Executing, timer
<1>2. /\ used \in [Thread -> BOOLEAN] /\ state \in [TCB -> Thread_state]
      /\ phase \in [TCB -> Thread_phase] /\ priority \in [TCB -> Queue]
      /\ wakeup_time \in [TCB -> 0..NO_TIMEOUT] /\ curr_cause \in [TCB -> SCHED_CAUSE]
      /\ active_threads \in 0..UintMod-1 /\ current \in TCB
      /\ SCHED \in [Queue -> Seq(Thread)] /\ TIMEOUT_LIST \in Seq(Thread)
      /\ pc \in [TCB -> ThreadPC \cup IdlePC] /\ pc[Idle] \in IdlePC
      /\ \A u \in Thread : pc[u] \in ThreadPC
  BY <1>0 DEF TypeOK
<1>3. t # current /\ t \in TCB /\ current \in Thread
  BY <1>0, <1>1, <1>2 DEF CoreInvariant, CurrentLive
<1>4. TypeOK'
  <2>1. used' \in [Thread -> BOOLEAN] /\ state' \in [TCB -> Thread_state]
    BY <1>1, <1>2 DEF Thread_state
  <2>2. phase' \in [TCB -> Thread_phase] /\ priority' \in [TCB -> Queue]
    BY <1>1, <1>2 DEF Thread_phase
  <2>3. NO_TIMEOUT \in 0..NO_TIMEOUT
    OBVIOUS
  <2>4. wakeup_time' \in [TCB -> 0..NO_TIMEOUT]
    BY <1>1, <1>2, <2>3
  <2>5. curr_cause' \in [TCB -> SCHED_CAUSE]
    BY <1>1, <1>2 DEF SCHED_CAUSE
  <2>6. active_threads' \in 0..UintMod-1
    <3>1. active_threads + 1 \in Int /\ UintMod \in Nat /\ UintMod > 0
      <4>1. active_threads \in 0..UintMod-1
        BY <1>2
      <4>2. UintMod \in Nat /\ UintMod > 0
        BY DEF UintMod
      <4> QED BY <4>1, <4>2
    <3>2. (active_threads + 1) % UintMod \in 0..UintMod-1
      BY <3>1
    <3> QED BY <1>1, <3>2
  <2>7. "fresh" \in ThreadPC
    BY DEF ThreadPC
  <2>8. /\ pc' \in [TCB -> ThreadPC \cup IdlePC] /\ pc'[Idle] \in IdlePC
        /\ \A u \in Thread : pc'[u] \in ThreadPC
    BY <1>1, <1>2, <1>3, <2>7
  <2> QED BY <1>0, <1>1, <2>1, <2>2, <2>4, <2>5, <2>6, <2>8 DEF TypeOK
<1>5. QueueSound'
  <2> SUFFICES ASSUME NEW i \in Queue, NEW k \in DOMAIN SCHED[i]
               PROVE  /\ used'[SCHED[i][k]] /\ state'[SCHED[i][k]] = "READY"
                      /\ phase'[SCHED[i][k]] = "CTX_CLEAN" /\ SCHED[i][k] # current
                      /\ priority'[SCHED[i][k]] = i
                      /\ \A l \in DOMAIN SCHED[i] : SCHED[i][k] = SCHED[i][l] => k = l
    BY <1>1 DEF QueueSound
  <2>1. SCHED[i][k] \in Thread /\ SCHED[i][k] \in TCB
    BY <1>2
  <2>2. /\ used[SCHED[i][k]] /\ state[SCHED[i][k]] = "READY"
        /\ phase[SCHED[i][k]] = "CTX_CLEAN" /\ SCHED[i][k] # current
        /\ priority[SCHED[i][k]] = i
        /\ \A l \in DOMAIN SCHED[i] : SCHED[i][k] = SCHED[i][l] => k = l
    BY <1>0 DEF QueueSound
  <2> QED BY <1>1, <1>2, <2>1, <2>2
<1>6. /\ \A u \in TCB \ {t} : state'[u] = state[u] /\ phase'[u] = phase[u] /\ pc'[u] = pc[u]
      /\ \A u \in Thread : used'[u] = used[u] \/ used'[u]
      /\ state'[t] = "INIT"
  BY <1>1, <1>2, <1>3
<1>7. CurrentLive' /\ RunState' /\ StartState' /\ ExpireState' /\ GainState' /\ PreviousLive'
  BY <1>0, <1>1, <1>2, <1>3, <1>6
     DEF CoreInvariant, CurrentLive, RunState, StartState, ExpireState, GainState, PreviousLive, Pending
<1>8. RunningOnly'
  BY <1>0, <1>1, <1>6 DEF CoreInvariant, RunningOnly
<1>9. SleeperLive'
  <2> SUFFICES ASSUME NEW k \in DOMAIN TIMEOUT_LIST
               PROVE  used'[TIMEOUT_LIST[k]] \/ state'[TIMEOUT_LIST[k]] = "EXITED"
    BY <1>1 DEF SleeperLive
  <2>1. TIMEOUT_LIST[k] \in Thread /\ TIMEOUT_LIST[k] \in TCB
    BY <1>2
  <2>2. used[TIMEOUT_LIST[k]] \/ state[TIMEOUT_LIST[k]] = "EXITED"
    BY <1>0 DEF CoreInvariant, SleeperLive
  <2> QED BY <1>1, <1>2, <1>6, <2>1, <2>2
<1> QED BY <1>4, <1>5, <1>7, <1>8, <1>9 DEF IInv, CoreInvariant

-----------------------------------------------------------------------------
(* The callers of yield()                                                  *)

(***************************************************************************)
(* A call of yield() that changes neither the timeout list nor the         *)
(* deadlines, or adds the current thread to the list.                      *)
(***************************************************************************)
LEMMA YieldCallerSound ==
    ASSUME IInv, stage = "run",
           NEW cause \in SCHED_CAUSE, NEW st \in Thread_state,
           st = state[current] \/ pc[current] # "start",
           yield(cause, st),
           armed' \in BOOLEAN, alarm' \in BOOLEAN,
           pc' \in [TCB -> ThreadPC \cup IdlePC], pc'[Idle] \in IdlePC,
           \A t \in Thread : pc'[t] \in ThreadPC,
           wakeup_time' \in [TCB -> 0..NO_TIMEOUT],
           TIMEOUT_LIST' \in Seq(Thread),
           \A k \in DOMAIN TIMEOUT_LIST' :
                \/ TIMEOUT_LIST'[k] = current
                \/ \E l \in DOMAIN TIMEOUT_LIST : TIMEOUT_LIST'[k] = TIMEOUT_LIST[l]
    PROVE  IInv'
<1> USE ConstantFacts
<1>0. TypeOK /\ CoreInvariant
  BY DEF IInv
<1>1. /\ used' = used /\ phase' = phase /\ active_threads' = active_threads
      /\ current' = current /\ previous' = previous /\ clock' = clock /\ stage' = "expire"
      /\ state' \in [TCB -> Thread_state] /\ priority' \in [TCB -> Queue]
      /\ curr_cause' \in [TCB -> SCHED_CAUSE] /\ SCHED' \in [Queue -> Seq(Thread)]
      /\ yield_count' \in 0..YIELD_RUNS-1
      /\ QueueSound'
      /\ CurrentLive' /\ RunningOnly' /\ RunState' /\ StartState'
      /\ ExpireState' /\ GainState' /\ PreviousLive'
      /\ \A t \in Thread : used[t] \/ state[t] = "EXITED" => used'[t] \/ state'[t] = "EXITED"
  BY YieldSound
<1>2. TypeOK'
  BY <1>0, <1>1 DEF TypeOK
<1>3. SleeperLive'
  <2> SUFFICES ASSUME NEW k \in DOMAIN TIMEOUT_LIST'
               PROVE  used'[TIMEOUT_LIST'[k]] \/ state'[TIMEOUT_LIST'[k]] = "EXITED"
    BY DEF SleeperLive
  <2>1. TIMEOUT_LIST'[k] \in Thread
    OBVIOUS
  <2>2. used[TIMEOUT_LIST'[k]] \/ state[TIMEOUT_LIST'[k]] = "EXITED"
    BY <1>0, <2>1 DEF CoreInvariant, CurrentLive, SleeperLive
  <2> QED BY <1>1, <2>1, <2>2
<1> QED BY <1>1, <1>2, <1>3 DEF IInv, CoreInvariant

LEMMA CallerTypes ==
    ASSUME TypeOK
    PROVE  /\ pc \in [TCB -> ThreadPC \cup IdlePC] /\ pc[Idle] \in IdlePC
           /\ \A t \in Thread : pc[t] \in ThreadPC
           /\ wakeup_time \in [TCB -> 0..NO_TIMEOUT] /\ TIMEOUT_LIST \in Seq(Thread)
           /\ armed \in BOOLEAN /\ alarm \in BOOLEAN
           /\ state \in [TCB -> Thread_state] /\ current \in TCB
           /\ state[current] \in Thread_state
           /\ bios_cancel_timer => armed' \in BOOLEAN /\ alarm' \in BOOLEAN
BY DEF TypeOK, bios_cancel_timer

LEMMA InterruptSound == ASSUME IInv, Interrupt PROVE IInv'
<1> USE ConstantFacts
<1>0. TypeOK
  BY DEF IInv
<1>1. /\ stage = "run" /\ armed' \in BOOLEAN /\ alarm' \in BOOLEAN
      /\ pc' = [pc EXCEPT ![current] = IF pc[current] = "halt" THEN "wake" ELSE pc[current]]
      /\ yield("QUANTUM", state[current])
      /\ wakeup_time' = wakeup_time /\ TIMEOUT_LIST' = TIMEOUT_LIST
  BY DEF Interrupt, WakeCore, Ie
<1>2. /\ pc' \in [TCB -> ThreadPC \cup IdlePC] /\ pc'[Idle] \in IdlePC
      /\ \A t \in Thread : pc'[t] \in ThreadPC
  BY <1>0, <1>1, CallerTypes DEF ThreadPC, IdlePC
<1>3. "QUANTUM" \in SCHED_CAUSE
  BY DEF SCHED_CAUSE
<1> QED BY <1>0, <1>1, <1>2, <1>3, CallerTypes, YieldCallerSound

LEMMA YieldCallSound == ASSUME IInv, NEW c \in Causes, YieldCall(c) PROVE IInv'
<1> USE ConstantFacts
<1>0. TypeOK
  BY DEF IInv
<1>1. /\ stage = "run" /\ bios_cancel_timer /\ yield(c, state[current])
      /\ wakeup_time' = wakeup_time /\ TIMEOUT_LIST' = TIMEOUT_LIST /\ pc' = pc
  BY DEF YieldCall, Executing
<1> QED BY <1>0, <1>1, CallerTypes, YieldCallerSound

LEMMA SleepSound ==
    ASSUME IInv, NEW c \in Causes, NEW d \in Timeouts, Sleep(c, d) PROVE IInv'
<1> USE ConstantFacts
<1>0. TypeOK
  BY DEF IInv
<1>1. /\ stage = "run" /\ current # Idle /\ pc[current] \in {"user", "kernel"}
      /\ bios_cancel_timer /\ yield(c, "STOPPED") /\ pc' = pc
      /\ \/ sched_register_timeout(current, d)
         \/ wakeup_time' = wakeup_time /\ TIMEOUT_LIST' = TIMEOUT_LIST
  BY DEF Sleep, Executing
<1>2. current \in Thread /\ c \in SCHED_CAUSE /\ "STOPPED" \in Thread_state
  BY <1>0, <1>1 DEF TypeOK, Thread_state
<1>3. /\ wakeup_time' \in [TCB -> 0..NO_TIMEOUT] /\ TIMEOUT_LIST' \in Seq(Thread)
      /\ \A k \in DOMAIN TIMEOUT_LIST' :
            \/ TIMEOUT_LIST'[k] = current
            \/ \E l \in DOMAIN TIMEOUT_LIST : TIMEOUT_LIST'[k] = TIMEOUT_LIST[l]
  <2>1. CASE wakeup_time' = wakeup_time /\ TIMEOUT_LIST' = TIMEOUT_LIST
    BY <1>0, <2>1, CallerTypes
  <2>2. CASE sched_register_timeout(current, d)
    <3>1. /\ wakeup_time' = [wakeup_time EXCEPT ![current] = WakeupTime(d)]
          /\ \E k \in 1..Len(TIMEOUT_LIST)+1 : TIMEOUT_LIST' = InsertAt(TIMEOUT_LIST, k, current)
      BY <2>2 DEF sched_register_timeout
    <3>2. WakeupTime(d) \in 0..NO_TIMEOUT
      <4>1. clock + d \in Int /\ NO_TIMEOUT + 1 \in Nat /\ NO_TIMEOUT + 1 > 0
        BY <1>0 DEF TypeOK
      <4>2. (clock + d) % (NO_TIMEOUT + 1) \in 0..(NO_TIMEOUT + 1)-1
        BY <4>1
      <4> QED BY <4>2 DEF WakeupTime
    <3> HIDE DEF WakeupTime
    <3>3. wakeup_time' \in [TCB -> 0..NO_TIMEOUT]
      BY <1>0, <3>1, <3>2, CallerTypes
    <3>4. TIMEOUT_LIST \in Seq(Thread)
      BY <1>0, CallerTypes
    <3> QED BY <1>2, <3>1, <3>3, <3>4, InsertElements
  <2> QED BY <1>1, <2>1, <2>2
<1> QED BY <1>0, <1>1, <1>2, <1>3, CallerTypes, YieldCallerSound

LEMMA ExitSound == ASSUME IInv, Exit PROVE IInv'
<1> USE ConstantFacts
<1>0. TypeOK
  BY DEF IInv
<1>1. /\ stage = "run" /\ pc[current] \in {"user", "kernel"}
      /\ bios_cancel_timer /\ yield("USER", "EXITED")
      /\ wakeup_time' = wakeup_time /\ TIMEOUT_LIST' = TIMEOUT_LIST /\ pc' = pc
  BY DEF Exit, Executing
<1>2. "USER" \in SCHED_CAUSE /\ "EXITED" \in Thread_state
  BY DEF SCHED_CAUSE, Thread_state
<1> QED BY <1>0, <1>1, <1>2, CallerTypes, YieldCallerSound

LEMMA IdleYieldSound == ASSUME IInv, IdleYield PROVE IInv'
<1> USE ConstantFacts
<1>0. TypeOK
  BY DEF IInv
<1>1. /\ stage = "run" /\ current = Idle /\ bios_cancel_timer
      /\ pc' = [pc EXCEPT ![Idle] = "loop"] /\ yield("IDLE", state[current])
      /\ wakeup_time' = wakeup_time /\ TIMEOUT_LIST' = TIMEOUT_LIST
  BY DEF IdleYield, IdleAt
<1>2. /\ pc' \in [TCB -> ThreadPC \cup IdlePC] /\ pc'[Idle] \in IdlePC
      /\ \A t \in Thread : pc'[t] \in ThreadPC
  BY <1>0, <1>1, CallerTypes DEF IdlePC
<1>3. "IDLE" \in SCHED_CAUSE
  BY DEF SCHED_CAUSE
<1> QED BY <1>0, <1>1, <1>2, <1>3, CallerTypes, YieldCallerSound

-----------------------------------------------------------------------------
(* Every step                                                              *)

(***************************************************************************)
(* The steps that move only program counters, the clock or the timer.  A   *)
(* thread in thread_start takes none of them but a clock tick, which does  *)
(* not move it.                                                            *)
(***************************************************************************)
LEMMA LocalSound ==
    ASSUME IInv, stage = "run",
           UNCHANGED <<tcb, SCHED, TIMEOUT_LIST, yield_count, current, previous, stage>>,
           clock' \in 0..MaxClock, armed' \in BOOLEAN, alarm' \in BOOLEAN,
           pc' \in [TCB -> ThreadPC \cup IdlePC], pc'[Idle] \in IdlePC,
           \A t \in Thread : pc'[t] \in ThreadPC,
           pc'[current] = pc[current] \/ (pc[current] # "start" /\ pc'[current] # "start")
    PROVE  IInv'
<1> USE ConstantFacts
<1>0. TypeOK /\ QueueSound /\ CoreInvariant
  BY DEF IInv
<1>1. /\ used' = used /\ state' = state /\ phase' = phase /\ priority' = priority
      /\ wakeup_time' = wakeup_time /\ curr_cause' = curr_cause
      /\ active_threads' = active_threads /\ SCHED' = SCHED /\ TIMEOUT_LIST' = TIMEOUT_LIST
      /\ yield_count' = yield_count /\ current' = current /\ previous' = previous /\ stage' = stage
  BY DEF tcb
<1>2. TypeOK'
  BY <1>0, <1>1 DEF TypeOK
<1>3. QueueSound'
  BY <1>0, <1>1 DEF QueueSound
<1>4. CurrentLive' /\ RunningOnly' /\ SleeperLive' /\ ExpireState' /\ GainState'
  BY <1>0, <1>1 DEF CoreInvariant, CurrentLive, RunningOnly, SleeperLive, ExpireState, GainState
<1>5. RunState' /\ StartState' /\ PreviousLive'
  BY <1>0, <1>1 DEF CoreInvariant, RunState, StartState, PreviousLive, Pending
<1> QED BY <1>2, <1>3, <1>4, <1>5 DEF IInv, CoreInvariant

LEMMA IInvStep == IInv /\ [Next]_vars => IInv'
<1> SUFFICES ASSUME IInv, [Next]_vars PROVE IInv'
  OBVIOUS
<1> USE ConstantFacts
<1>0. TypeOK /\ QueueSound /\ CoreInvariant
  BY DEF IInv
<1>t. /\ pc \in [TCB -> ThreadPC \cup IdlePC] /\ pc[Idle] \in IdlePC
      /\ \A t \in Thread : pc[t] \in ThreadPC
      /\ current \in TCB /\ clock \in 0..MaxClock /\ armed \in BOOLEAN /\ alarm \in BOOLEAN
      /\ TIMEOUT_LIST \in Seq(Thread) /\ SCHED \in [Queue -> Seq(Thread)]
      /\ stage \in {"run", "expire", "gain"}
  BY <1>0 DEF TypeOK
<1>1. CASE KernelLock \/ KernelUnlock
  <2>1. /\ stage = "run" /\ current \in Thread /\ pc[current] \in {"user", "kernel"}
        /\ pc' = [pc EXCEPT ![current] = "kernel"] \/ pc' = [pc EXCEPT ![current] = "user"]
        /\ UNCHANGED <<tcb, SCHED, TIMEOUT_LIST, yield_count, current, previous, stage>>
        /\ clock' = clock /\ armed' = armed /\ alarm' = alarm
    BY <1>1, <1>t DEF KernelLock, KernelUnlock, Executing, timer
  <2>2. /\ pc' \in [TCB -> ThreadPC \cup IdlePC] /\ pc'[Idle] \in IdlePC
        /\ \A t \in Thread : pc'[t] \in ThreadPC
        /\ pc'[current] \in {"user", "kernel"}
    BY <1>t, <2>1 DEF ThreadPC
  <2> QED BY <1>t, <2>1, <2>2, LocalSound
<1>2. CASE \E t \in Thread : SpawnThread(t)
  BY <1>2, SpawnSound
<1>3. ASSUME NEW t \in Thread, Wakeup(t) PROVE IInv'
  <2>1. /\ stage = "run" /\ pc[current] # "start" /\ used[t] /\ sched_make_ready(t)
        /\ UNCHANGED <<used, phase, priority, curr_cause, active_threads, yield_count,
                       current, previous, clock, timer, pc, stage>>
    BY <1>3 DEF Wakeup, Executing
  <2> QED BY <2>1, MakeReadySound
<1>4. CASE \E c \in Causes : YieldCall(c)
  BY <1>4, YieldCallSound
<1>5. CASE \E c \in Causes, d \in Timeouts : Sleep(c, d)
  BY <1>5, SleepSound
<1>6. CASE Exit
  BY <1>6, ExitSound
<1>7. CASE WakeExpired
  <2> DEFINE h == Head(TIMEOUT_LIST)
  <2>1. /\ stage = "expire" /\ TIMEOUT_LIST # << >> /\ sched_make_ready(h)
        /\ UNCHANGED <<used, phase, priority, curr_cause, active_threads, yield_count,
                       current, previous, clock, timer, pc, stage>>
    BY <1>7 DEF WakeExpired, HeadExpired
  <2>2. h \in Thread /\ 1 \in DOMAIN TIMEOUT_LIST /\ h = TIMEOUT_LIST[1]
    BY <1>t, <2>1
  <2> HIDE DEF h
  <2>3. used[h] \/ state[h] = "EXITED"
    BY <1>0, <2>2 DEF CoreInvariant, SleeperLive
  <2> QED BY <2>1, <2>2, <2>3, MakeReadySound
<1>8. CASE \E q \in Queue : SelectQueued(q)
  BY <1>8, SelectQueuedSound
<1>9. CASE SelectFallback
  BY <1>9, SelectFallbackSound
<1>10. CASE Gain \/ ThreadStart
  <2>1. Pending /\ gain /\ stage' = "run"
    BY <1>10 DEF Gain, ThreadStart, Pending
  <2>2. /\ used' \in [Thread -> BOOLEAN] /\ state' \in [TCB -> Thread_state]
        /\ phase' \in [TCB -> Thread_phase] /\ active_threads' \in 0..UintMod-1
        /\ SCHED' \in [Queue -> Seq(Thread)] /\ armed' \in BOOLEAN
        /\ priority' = priority /\ wakeup_time' = wakeup_time /\ curr_cause' = curr_cause
        /\ TIMEOUT_LIST' = TIMEOUT_LIST /\ yield_count' = yield_count
        /\ current' = current /\ previous' = previous /\ clock' = clock /\ alarm' = alarm
        /\ QueueSound' /\ CoreInvariant'
    BY <2>1, GainSound
  <2>3. /\ pc' \in [TCB -> ThreadPC \cup IdlePC] /\ pc'[Idle] \in IdlePC
        /\ \A t \in Thread : pc'[t] \in ThreadPC
    <3>1. CASE Gain
      BY <1>t, <3>1 DEF Gain
    <3>2. CASE ThreadStart
      <4>1. pc[current] = "start" /\ pc' = [pc EXCEPT ![current] = "user"]
        BY <3>2 DEF ThreadStart
      <4>2. current \in Thread
        BY <1>t, <4>1 DEF IdlePC
      <4> QED BY <1>t, <4>1, <4>2 DEF ThreadPC
    <3> QED BY <1>10, <3>1, <3>2
  <2>4. TypeOK'
    BY <1>0, <2>1, <2>2, <2>3 DEF TypeOK
  <2> QED BY <2>2, <2>4 DEF IInv
<1>11. CASE IdleYield
  BY <1>11, IdleYieldSound
<1>12. CASE IdleCheck \/ cpu_core_halt \/ SerialWake
  <2>1. /\ stage = "run" /\ current = Idle /\ pc[Idle] \in {"loop", "tested", "halt"}
        /\ \E w \in {"tested", "halt", "done", "wake"} : pc' = [pc EXCEPT ![Idle] = w]
        /\ UNCHANGED <<tcb, SCHED, TIMEOUT_LIST, yield_count, current, previous, stage>>
        /\ clock' = clock /\ armed' \in {armed, FALSE} /\ alarm' = alarm
    BY <1>12 DEF IdleCheck, cpu_core_halt, SerialWake, WakeCore, IdleAt, timer
  <2>2. /\ pc' \in [TCB -> ThreadPC \cup IdlePC] /\ pc'[Idle] \in IdlePC
        /\ \A t \in Thread : pc'[t] \in ThreadPC
        /\ pc'[Idle] # "start"
    BY <1>t, <2>1 DEF IdlePC
  <2> QED BY <1>t, <2>1, <2>2, LocalSound
<1>13. CASE Interrupt
  BY <1>13, InterruptSound
<1>14. CASE ClockTick
  <2>1. /\ stage = "run" /\ clock + ClockStep <= MaxClock /\ clock' = clock + ClockStep
        /\ pc' = [pc EXCEPT ![current] = IF pc[current] = "halt" THEN "wake" ELSE pc[current]]
        /\ UNCHANGED <<tcb, SCHED, TIMEOUT_LIST, yield_count, current, previous, stage>>
        /\ armed' = armed /\ alarm' = alarm
    BY <1>14 DEF ClockTick, WakeCore, Ie, timer
  <2>2. clock' \in 0..MaxClock
    BY <1>t, <2>1
  <2>3. /\ pc' \in [TCB -> ThreadPC \cup IdlePC] /\ pc'[Idle] \in IdlePC
        /\ \A t \in Thread : pc'[t] \in ThreadPC
        /\ pc'[current] = pc[current] \/ (pc[current] # "start" /\ pc'[current] # "start")
    BY <1>t, <2>1 DEF ThreadPC, IdlePC
  <2> QED BY <1>t, <2>1, <2>2, <2>3, LocalSound
<1>15. CASE UNCHANGED vars
  <2>1. /\ used' = used /\ state' = state /\ phase' = phase /\ priority' = priority
        /\ wakeup_time' = wakeup_time /\ curr_cause' = curr_cause
        /\ active_threads' = active_threads /\ SCHED' = SCHED /\ TIMEOUT_LIST' = TIMEOUT_LIST
        /\ yield_count' = yield_count /\ current' = current /\ previous' = previous
        /\ clock' = clock /\ armed' = armed /\ alarm' = alarm /\ pc' = pc /\ stage' = stage
    BY <1>15 DEF vars
  <2>2. TypeOK' /\ QueueSound'
    BY <1>0, <2>1 DEF TypeOK, QueueSound
  <2>3. CoreInvariant'
    BY <1>0, <2>1 DEF CoreInvariant, CurrentLive, RunningOnly, RunState, StartState,
                      ExpireState, GainState, PreviousLive, Pending, SleeperLive
  <2> QED BY <2>2, <2>3 DEF IInv
<1> QED
  BY <1>1, <1>2, <1>3, <1>4, <1>5, <1>6, <1>7, <1>8, <1>9, <1>10, <1>11, <1>12, <1>13, <1>14, <1>15
     DEF Next, ThreadStep, SchedStep, IdleStep, HaltLoop

(***************************************************************************)
(* The types of the scheduler's variables, and so the absence of an index  *)
(* outside SCHED[]: a boost never makes a priority negative and no change  *)
(* of priority leaves the queues.                                          *)
(***************************************************************************)
THEOREM TypeSafe == Spec => []TypeOK
<1>1. IInv => TypeOK
  BY DEF IInv
<1> QED BY IInvInit, IInvStep, <1>1, PTL DEF Spec

(***************************************************************************)
(* Whatever interrupts, boosts, wakeups and timeouts do, and also when an  *)
(* alarm hits a thread in thread_start: what the scheduler takes from a    *)
(* queue is a live READY thread with a clean context, queued once, in the  *)
(* queue of its priority, and not the thread that has the core.            *)
(***************************************************************************)
THEOREM QueueSafe == Spec => []QueueSound
<1>1. IInv => QueueSound
  BY DEF IInv
<1> QED BY IInvInit, IInvStep, <1>1, PTL DEF Spec

(***************************************************************************)
(* The registers of the core fit the states of the threads at every moment *)
(* of a context switch; in particular gain() never queues a released slot. *)
(***************************************************************************)
THEOREM CoreSafe == Spec => []CoreInvariant
<1>1. IInv => CoreInvariant
  BY DEF IInv
<1> QED BY IInvInit, IInvStep, <1>1, PTL DEF Spec

-----------------------------------------------------------------------------
(* The scheduler implements the thread life cycle                          *)

(***************************************************************************)
(* A step that leaves the states and slots of all threads but t alone      *)
(* moves at most t along its life.                                         *)
(***************************************************************************)
LEMMA MoveOne ==
    ASSUME TypeOK, NEW t \in Thread,
           \A u \in Thread \ {t} : used'[u] = used[u] /\ state'[u] = state[u]
    PROVE  LifeMap' = [LifeMap EXCEPT ![t] = IF used'[t] THEN StageName[state'[t]] ELSE "free"]
BY DEF LifeMap, LifeOf

LEMMA LifeInit == Init => Life!Init
<1> SUFFICES ASSUME Init PROVE LifeMap \in [Thread -> {"free", "ready"}]
  BY DEF Life!Init
<1> SUFFICES ASSUME NEW t \in Thread PROVE LifeOf(t) \in {"free", "ready"}
  BY DEF LifeMap
<1>1. CASE t = 0
  <2>1. state[t] = "READY"
    BY <1>1, ConstantFacts DEF Init
  <2> QED BY <2>1 DEF LifeOf, StageName
<1>2. CASE t # 0
  <2>1. ~used[t]
    BY <1>2 DEF Init
  <2> QED BY <2>1 DEF LifeOf
<1> QED BY <1>1, <1>2

(***************************************************************************)
(* yield() is a step of the life of the current thread, or none if that is *)
(* the idle thread or one that had not begun to run.                       *)
(***************************************************************************)
LEMMA YieldLife ==
    ASSUME IInv, stage = "run", NEW cause, NEW st \in {"RUNNING", "READY", "STOPPED", "EXITED"},
           st = state[current] \/ (pc[current] # "start" /\ st # "READY"),
           yield(cause, st)
    PROVE  [Life!Next]_LifeMap
<1> USE ConstantFacts
<1>0. TypeOK /\ CoreInvariant
  BY DEF IInv
<1>1. /\ used' = used
      /\ state' = [state EXCEPT ![current] = IF st = "RUNNING" THEN "READY" ELSE st]
  BY DEF yield
<1>2. state \in [TCB -> Thread_state] /\ used \in [Thread -> BOOLEAN] /\ current \in TCB
  BY <1>0 DEF TypeOK
<1>3. CASE current = Idle
  <2>1. \A u \in Thread : state'[u] = state[u]
    BY <1>1, <1>2, <1>3
  <2>2. LifeMap' = LifeMap
    BY <1>1, <2>1 DEF LifeMap, LifeOf
  <2> QED BY <2>2
<1>4. CASE current \in Thread
  <2>1. used[current]
    BY <1>0, <1>4 DEF CoreInvariant, CurrentLive
  <2>2. \A u \in Thread \ {current} : used'[u] = used[u] /\ state'[u] = state[u]
    BY <1>1, <1>2
  <2>3. state'[current] = IF st = "RUNNING" THEN "READY" ELSE st
    BY <1>1, <1>2
  <2>4. LifeMap' = [LifeMap EXCEPT ![current] = StageName[state'[current]]]
    BY <1>0, <1>1, <1>4, <2>1, <2>2, MoveOne
  <2>5. LifeMap[current] = StageName[state[current]]
    BY <1>4, <2>1 DEF LifeMap, LifeOf
  <2>6. CASE state[current] = "RUNNING"
    <3>1. LifeMap[current] = "running"
      BY <2>5, <2>6 DEF StageName
    <3>2. StageName[state'[current]] \in {"ready", "blocked", "dead"}
      BY <1>0, <2>3, <2>6 DEF StageName
    <3>3. Life!Yield(current) \/ Life!Block(current) \/ Life!Die(current)
      BY <2>4, <3>1, <3>2 DEF Life!Yield, Life!Block, Life!Die, Life!Move
    <3> QED BY <1>4, <3>3 DEF Life!Next
  <2>7. CASE state[current] # "RUNNING"
    <3>1. state[current] = "READY" /\ st = "READY"
      BY <1>0, <2>7 DEF CoreInvariant, RunState, StartState
    <3>2. \A u \in Thread : state'[u] = state[u]
      BY <2>2, <2>3, <3>1
    <3>3. LifeMap' = LifeMap
      BY <1>1, <3>2 DEF LifeMap, LifeOf
    <3> QED BY <3>3
  <2> QED BY <2>6, <2>7
<1> QED BY <1>2, <1>3, <1>4 DEF TCB

LEMMA MakeReadyLife ==
    ASSUME TypeOK, NEW t \in Thread, used[t], sched_make_ready(t), used' = used
    PROVE  [Life!Next]_LifeMap
<1>1. /\ state[t] \in {"STOPPED", "INIT"} /\ state' = [state EXCEPT ![t] = "READY"]
      /\ state \in [TCB -> Thread_state]
  BY DEF sched_make_ready, TypeOK
<1>2. state'[t] = "READY" /\ \A u \in Thread \ {t} : used'[u] = used[u] /\ state'[u] = state[u]
  BY <1>1, ConstantFacts
<1>3. LifeMap' = [LifeMap EXCEPT ![t] = "ready"]
  <2>1. LifeMap' = [LifeMap EXCEPT ![t] = StageName[state'[t]]]
    BY <1>2, MoveOne
  <2> QED BY <1>2, <2>1 DEF StageName
<1>4. LifeMap[t] \in {"blocked", "new"}
  BY <1>1 DEF LifeMap, LifeOf, StageName
<1>5. Life!Ready(t)
  BY <1>3, <1>4 DEF Life!Ready, Life!Move
<1> QED BY <1>5 DEF Life!Next

(***************************************************************************)
(* gain() dispatches the current thread and reaps the previous one if that *)
(* exited; a second gain() of the same thread dispatches nothing.          *)
(***************************************************************************)
LEMMA GainLife ==
    ASSUME IInv, Pending, gain
    PROVE  [Life!Next]_LifeMap
<1> USE ConstantFacts
<1>0. TypeOK /\ CoreInvariant
  BY DEF IInv
<1>1. /\ state' = [state EXCEPT ![current] = "RUNNING"]
      /\ \/ used' = used
         \/ /\ current # previous /\ state[previous] = "EXITED"
            /\ used' = [used EXCEPT ![previous] = FALSE]
  BY DEF gain, release_TCB
<1>2. state \in [TCB -> Thread_state] /\ used \in [Thread -> BOOLEAN] /\ current \in TCB
  BY <1>0 DEF TypeOK
<1>3. \A t \in TCB : state'[t] = IF t = current THEN "RUNNING" ELSE state[t]
  BY <1>1, <1>2
<1>4. current \in Thread => used[current]
  BY <1>0 DEF CoreInvariant, CurrentLive
<1>5. \A u \in TCB : state[u] = "RUNNING" => u = current
  BY <1>0 DEF CoreInvariant, RunningOnly
<1>6. \/ used' = used
      \/ /\ previous \in Thread \ {current} /\ used[previous] /\ state[previous] = "EXITED"
         /\ used' = [used EXCEPT ![previous] = FALSE]
  <2>1. CASE used' = [used EXCEPT ![previous] = FALSE] /\ (previous \notin Thread \/ ~used[previous])
    <3>1. used' \in [Thread -> BOOLEAN]
      BY <1>2, <2>1
    <3>2. \A u \in Thread : used'[u] = used[u]
      BY <1>2, <2>1
    <3> QED BY <1>2, <3>1, <3>2
  <2> QED BY <1>1, <2>1
<1>7. CASE current \in Thread /\ state[current] = "READY"
  <2>1. LifeMap[current] = "ready" /\ StageName["RUNNING"] = "running"
    BY <1>4, <1>7 DEF LifeMap, LifeOf, StageName
  <2>2. \A u \in Thread : LifeMap[u] # "running"
    <3> SUFFICES ASSUME NEW u \in Thread, used[u] PROVE StageName[state[u]] # "running"
      BY DEF LifeMap, LifeOf
    <3>1. state[u] \in Thread_state \ {"RUNNING"}
      BY <1>2, <1>5, <1>7
    <3> QED BY <3>1 DEF StageName, Thread_state
  <2>3. CASE used' = used
    <3>1. LifeMap' = [LifeMap EXCEPT ![current] = StageName[state'[current]]]
      BY <1>0, <1>3, <1>4, <1>7, <2>3, MoveOne
    <3>2. LifeMap' = [LifeMap EXCEPT ![current] = "running"]
      BY <1>3, <1>7, <2>1, <3>1
    <3>3. Life!Dispatch(current)
      BY <2>1, <2>2, <3>2 DEF Life!Dispatch
    <3> QED BY <1>7, <3>3 DEF Life!Next
  <2>4. CASE /\ previous \in Thread \ {current} /\ used[previous] /\ state[previous] = "EXITED"
             /\ used' = [used EXCEPT ![previous] = FALSE]
    <3>1. LifeMap[previous] = "dead"
      BY <2>4 DEF LifeMap, LifeOf, StageName
    <3>2. /\ used'[current] /\ ~used'[previous]
          /\ \A u \in Thread \ {current, previous} : used'[u] = used[u] /\ state'[u] = state[u]
          /\ state'[current] = "RUNNING"
      BY <1>2, <1>3, <1>4, <1>7, <2>4
    <3>3. LifeMap' = [LifeMap EXCEPT ![current] = "running", ![previous] = "free"]
      <4>1. LifeMap'[current] = "running" /\ LifeMap'[previous] = "free"
        BY <1>7, <2>1, <2>4, <3>2 DEF LifeMap, LifeOf
      <4>2. \A u \in Thread \ {current, previous} : LifeMap'[u] = LifeMap[u]
        BY <3>2 DEF LifeMap, LifeOf
      <4>3. LifeMap' = [u \in Thread |-> LifeMap'[u]] /\ LifeMap = [u \in Thread |-> LifeMap[u]]
        BY DEF LifeMap
      <4> QED BY <1>7, <2>4, <4>1, <4>2, <4>3
    <3>4. Life!Dispatch(current)
      BY <2>1, <2>2, <2>4, <3>1, <3>3 DEF Life!Dispatch
    <3> QED BY <1>7, <3>4 DEF Life!Next
  <2> QED BY <1>6, <2>3, <2>4
<1>8. CASE ~(current \in Thread /\ state[current] = "READY")
  <2>1. current \in Thread => state[current] = "RUNNING"
    BY <1>0, <1>8 DEF CoreInvariant, GainState, StartState, Pending
  <2>2. \A u \in Thread : state'[u] = state[u]
    BY <1>3, <2>1
  <2>3. CASE used' = used
    BY <2>2, <2>3 DEF LifeMap, LifeOf
  <2>4. CASE /\ previous \in Thread \ {current} /\ used[previous] /\ state[previous] = "EXITED"
             /\ used' = [used EXCEPT ![previous] = FALSE]
    <3>1. LifeMap[previous] = "dead"
      BY <2>4 DEF LifeMap, LifeOf, StageName
    <3>2. ~used'[previous] /\ \A u \in Thread \ {previous} : used'[u] = used[u] /\ state'[u] = state[u]
      BY <1>2, <2>2, <2>4
    <3>3. LifeMap' = [LifeMap EXCEPT ![previous] = "free"]
      BY <1>0, <2>4, <3>2, MoveOne
    <3>4. Life!Reap(previous)
      BY <3>1, <3>3 DEF Life!Reap, Life!Move
    <3> QED BY <2>4, <3>4 DEF Life!Next
  <2> QED BY <1>6, <2>3, <2>4
<1> QED BY <1>7, <1>8

LEMMA SpawnLife ==
    ASSUME TypeOK, NEW t \in Thread, SpawnThread(t)
    PROVE  [Life!Next]_LifeMap
<1>1. /\ ~used[t] /\ used' = [used EXCEPT ![t] = TRUE] /\ state' = [state EXCEPT ![t] = "INIT"]
      /\ state \in [TCB -> Thread_state] /\ used \in [Thread -> BOOLEAN]
  BY DEF SpawnThread, TypeOK
<1>2. /\ used'[t] /\ state'[t] = "INIT"
      /\ \A u \in Thread \ {t} : used'[u] = used[u] /\ state'[u] = state[u]
  BY <1>1, ConstantFacts
<1>3. LifeMap' = [LifeMap EXCEPT ![t] = "new"]
  <2>1. LifeMap' = [LifeMap EXCEPT ![t] = StageName[state'[t]]]
    BY <1>2, MoveOne
  <2> QED BY <1>2, <2>1 DEF StageName
<1>4. LifeMap[t] = "free"
  BY <1>1 DEF LifeMap, LifeOf
<1>5. Life!Spawn(t)
  BY <1>3, <1>4 DEF Life!Spawn, Life!Move
<1> QED BY <1>5 DEF Life!Next

LEMMA LifeStep == IInv /\ [Next]_vars => [Life!Next]_LifeMap
<1> SUFFICES ASSUME IInv, [Next]_vars PROVE [Life!Next]_LifeMap
  OBVIOUS
<1> USE ConstantFacts
<1>0. TypeOK /\ CoreInvariant
  BY DEF IInv
<1>1. CASE used' = used /\ state' = state
  BY <1>1 DEF LifeMap, LifeOf
<1>2. CASE KernelLock \/ KernelUnlock \/ IdleCheck \/ cpu_core_halt \/ SerialWake \/ HaltLoop \/ ClockTick
          \/ UNCHANGED vars
  BY <1>1, <1>2 DEF KernelLock, KernelUnlock, IdleCheck, cpu_core_halt, SerialWake, HaltLoop,
                    ClockTick, vars, tcb
<1>3. CASE SelectFallback \/ \E q \in Queue : SelectQueued(q)
  BY <1>1, <1>3 DEF SelectFallback, SelectQueued, tcb
<1>4. CASE \E t \in Thread : SpawnThread(t)
  BY <1>0, <1>4, SpawnLife
<1>5. CASE \E t \in Thread : Wakeup(t)
  BY <1>0, <1>5, MakeReadyLife DEF Wakeup
<1>6. CASE WakeExpired
  <2>1. /\ sched_make_ready(Head(TIMEOUT_LIST)) /\ used' = used
        /\ TIMEOUT_LIST \in Seq(Thread) /\ TIMEOUT_LIST # << >>
    BY <1>0, <1>6 DEF WakeExpired, HeadExpired, TypeOK
  <2>2. /\ Head(TIMEOUT_LIST) \in Thread /\ 1 \in DOMAIN TIMEOUT_LIST
        /\ Head(TIMEOUT_LIST) = TIMEOUT_LIST[1]
    BY <2>1
  <2>3. used[Head(TIMEOUT_LIST)]
    <3>1. state[Head(TIMEOUT_LIST)] # "EXITED"
      BY <2>1 DEF sched_make_ready
    <3> QED BY <1>0, <2>2, <3>1 DEF CoreInvariant, SleeperLive
  <2> QED BY <1>0, <2>1, <2>2, <2>3, MakeReadyLife
<1>7. CASE Gain \/ ThreadStart
  <2>1. Pending /\ gain
    BY <1>7 DEF Gain, ThreadStart, Pending
  <2> QED BY <2>1, GainLife
<1>8. ASSUME stage = "run", NEW c, yield(c, state[current]) PROVE [Life!Next]_LifeMap
  <2>1. state[current] \in {"RUNNING", "READY"}
    BY <1>0, <1>8 DEF CoreInvariant, RunState, StartState
  <2> QED BY <1>8, <2>1, YieldLife
<1>9. CASE Interrupt \/ IdleYield \/ \E c \in Causes : YieldCall(c)
  BY <1>8, <1>9 DEF Interrupt, Ie, IdleYield, IdleAt, YieldCall, Executing
<1>10. ASSUME Executing({"user", "kernel"}), NEW c, NEW st \in {"STOPPED", "EXITED"}, yield(c, st)
       PROVE  [Life!Next]_LifeMap
  BY <1>10, YieldLife DEF Executing
<1>11. CASE Exit \/ \E c \in Causes, d \in Timeouts : Sleep(c, d)
  BY <1>10, <1>11 DEF Exit, Sleep
<1> QED
  BY <1>2, <1>3, <1>4, <1>5, <1>6, <1>7, <1>9, <1>11 DEF Next, ThreadStep, SchedStep, IdleStep

(***************************************************************************)
(* Seen through the states in the TCBs, the scheduler is the thread life   *)
(* cycle of ThreadLife: no interleaving of yields, wakeups, timeouts and   *)
(* interrupts makes a thread skip a stage, or gives the core to two.       *)
(***************************************************************************)
THEOREM SchedulerImplementsThreadLife == Spec => ImplementsThreadLife
<1> QED BY IInvInit, IInvStep, LifeInit, LifeStep, PTL DEF Spec, ImplementsThreadLife, Life!Spec

-----------------------------------------------------------------------------
(***************************************************************************)
(* What the scheduler keeps when no quantum ends while interrupts are off: *)
(* no thread is lost, the queues hold exactly the threads that may run,    *)
(* the active threads are counted, and run_scheduler returns only when     *)
(* there are none.  The timeout list is exact whether alarms are late or   *)
(* not.                                                                    *)
(***************************************************************************)

(***************************************************************************)
(* The quantum timer is off from bios_cancel_timer to the end of gain(),   *)
(* so no alarm finds a thread in thread_start; a dirty context belongs to  *)
(* the thread on the core or to the one that is being put away.            *)
(***************************************************************************)
TimerQuiet  == /\ ~alarm
               /\ stage # "run" \/ pc[current] = "start" => ~armed
StartOnly   == \A t \in Thread : pc[t] = "start" => t = current /\ stage = "run"
DirtyOnly   == \A t \in TCB : phase[t] = "CTX_DIRTY" => t = current \/ (Pending /\ t = previous)
ExpireDirty == stage = "expire" => phase[current] = "CTX_DIRTY"
PreviousOut == Pending => /\ phase[previous] = "CTX_DIRTY"
                          /\ previous \in Thread => used[previous]
IdleState   == state[Idle] \in {"READY", "RUNNING"}

Exact == /\ TimerQuiet
         /\ StartOnly
         /\ DirtyOnly
         /\ ExpireDirty
         /\ PreviousOut
         /\ IdleState
         /\ NoThreadLost

LEMMA ExactInit == Init => Exact
<1> SUFFICES ASSUME Init PROVE Exact
  OBVIOUS
<1> USE ConstantFacts
<1>1. /\ current = Idle /\ stage = "run" /\ pc[current] = "boot" /\ ~alarm
      /\ \A t \in Thread : pc[t] = "fresh"
      /\ \A t \in TCB : phase[t] = IF t = Idle THEN "CTX_DIRTY" ELSE "CTX_CLEAN"
      /\ state[Idle] = "RUNNING"
  BY DEF Init
<1>2. TimerQuiet /\ StartOnly /\ DirtyOnly /\ ExpireDirty /\ PreviousOut /\ IdleState
  BY <1>1 DEF TimerQuiet, StartOnly, DirtyOnly, ExpireDirty, PreviousOut, IdleState, Pending
<1>3. NoThreadLost
  <2> SUFFICES ASSUME NEW t \in Thread, used[t] PROVE Queued(t)
    BY DEF NoThreadLost
  <2>1. t = 0 /\ SCHED[0] = <<0>>
    BY DEF Init
  <2>2. 1 \in DOMAIN SCHED[0] /\ SCHED[0][1] = t
    BY <2>1
  <2>3. t \in ToSet(SCHED[0])
    BY <2>2 DEF ToSet
  <2> QED BY <2>3 DEF Queued
<1> QED BY <1>2, <1>3 DEF Exact

-----------------------------------------------------------------------------
(* What stays queued                                                       *)

LEMMA QueuedAt ==
    ASSUME NEW t
    PROVE  Queued(t) <=> \E i \in Queue : \E k \in DOMAIN SCHED[i] : SCHED[i][k] = t
BY DEF Queued, ToSet

(***************************************************************************)
(* A boost loses nobody: the queue of a level is appended to the one above *)
(* before it is emptied.                                                   *)
(***************************************************************************)
LEMMA BoostKeeps ==
    ASSUME TypeOK, NEW i \in Queue, NEW k \in DOMAIN SCHED[i]
    PROVE  \E j \in Queue : \E l \in DOMAIN BoostedQueues[j] : BoostedQueues[j][l] = SCHED[i][k]
<1> USE ConstantFacts
<1>a. BoostedLevels = Queue \ {0} /\ \A j \in Queue : j \in Int
  BY DEF BoostedLevels, Queue
<1>b. SCHED \in [Queue -> Seq(Thread)]
  BY DEF TypeOK
<1>1. /\ SCHED \in [Queue -> Seq(Thread)]
      /\ BoostedLevels = Queue \ {0} /\ \A j \in Queue : j \in Int
  BY <1>a, <1>b
<1> DEFINE A(j) == IF j \in BoostedLevels THEN << >> ELSE SCHED[j]
           B(j) == IF j + 1 \in BoostedLevels THEN SCHED[j + 1] ELSE << >>
<1>2. \A j \in Queue : A(j) \in Seq(Thread) /\ B(j) \in Seq(Thread)
  BY <1>1
<1>3. \A j \in Queue : BoostedQueues[j] = A(j) \o B(j)
  BY DEF BoostedQueues
<1>4. CASE i = 0
  <2>1. A(0) = SCHED[0] /\ k \in DOMAIN A(0) /\ A(0)[k] = SCHED[i][k]
    BY <1>1, <1>4
  <2> HIDE DEF A, B
  <2>2. k \in DOMAIN (A(0) \o B(0)) /\ (A(0) \o B(0))[k] = A(0)[k]
    BY <1>2, <2>1, ConcatProperties
  <2> QED BY <1>3, <2>1, <2>2
<1>5. CASE i # 0
  <2>1. i - 1 \in Queue /\ (i - 1) + 1 = i
    BY <1>1, <1>5 DEF Queue
  <2>2. B(i-1) = SCHED[i] /\ k \in DOMAIN B(i-1) /\ B(i-1)[k] = SCHED[i][k]
    BY <1>1, <1>5, <2>1
  <2> HIDE DEF A, B
  <2> DEFINE a == A(i-1)
             b == B(i-1)
  <2>3. a \in Seq(Thread) /\ b \in Seq(Thread) /\ k \in DOMAIN b
    BY <1>2, <2>1, <2>2
  <2> HIDE DEF a, b
  <2>4. Len(a) + k \in DOMAIN (a \o b) /\ (a \o b)[Len(a) + k] = b[k]
    <3>1. /\ Len(a) \in Nat /\ Len(b) \in Nat /\ k \in 1..Len(b)
          /\ Len(a) + k \in 1..Len(a)+Len(b) /\ ~(Len(a) + k <= Len(a)) /\ Len(a) + k - Len(a) = k
      BY <2>3
    <3>2. /\ DOMAIN (a \o b) = 1..Len(a)+Len(b)
          /\ \A l \in 1..Len(a)+Len(b) : (a \o b)[l] = IF l <= Len(a) THEN a[l] ELSE b[l - Len(a)]
      BY <2>3, ConcatProperties
    <3> QED BY <3>1, <3>2
  <2>5. BoostedQueues[i-1] = a \o b /\ b[k] = SCHED[i][k]
    BY <1>3, <2>1, <2>2 DEF a, b
  <2> QED BY <2>1, <2>4, <2>5
<1> QED BY <1>4, <1>5

(***************************************************************************)
(* rlist_push_back of a node that is in no queue drops nobody.             *)
(***************************************************************************)
LEMMA PushBackKeeps ==
    ASSUME NEW S, NEW q \in Seq(S), NEW t \in S, \A k \in DOMAIN q : q[k] # t
    PROVE  /\ \A k \in DOMAIN q : k \in DOMAIN PushBack(q, t) /\ PushBack(q, t)[k] = q[k]
           /\ Len(q) + 1 \in DOMAIN PushBack(q, t) /\ PushBack(q, t)[Len(q) + 1] = t
<1>1. PushBack(q, t) = Append(q, t)
  BY DEF PushBack
<1> QED BY <1>1

LEMMA QueueAddKeeps ==
    ASSUME SCHED \in [Queue -> Seq(Thread)], priority \in [TCB -> Queue],
           NEW t \in Thread, ~Queued(t), sched_queue_add(t)
    PROVE  \A u \in Thread : Queued(u) \/ u = t => Queued(u)'
<1> USE ConstantFacts
<1> DEFINE p == priority[t]
           s == SCHED[p]
           q == PushBack(s, t)
<1>1. p \in Queue /\ s \in Seq(Thread) /\ SCHED' = [SCHED EXCEPT ![p] = q]
  BY DEF sched_queue_add
<1>2. \A k \in DOMAIN s : s[k] # t
  BY <1>1, QueuedAt
<1> HIDE DEF p
<1>a. SCHED'[p] = q /\ \A i \in Queue \ {p} : SCHED'[i] = SCHED[i]
  BY <1>1
<1>b. SCHED[p] = s
  OBVIOUS
<1> HIDE DEF s
<1>c. s \in Seq(Thread)
  BY <1>1
<1>3. /\ \A k \in DOMAIN s : k \in DOMAIN q /\ q[k] = s[k]
      /\ Len(s) + 1 \in DOMAIN q /\ q[Len(s) + 1] = t
  BY <1>c, <1>2, PushBackKeeps
<1> HIDE DEF q
<1>4. ASSUME NEW u \in Thread, Queued(u) PROVE \E i \in Queue : \E k \in DOMAIN SCHED'[i] : SCHED'[i][k] = u
  <2>1. PICK i \in Queue : \E k \in DOMAIN SCHED[i] : SCHED[i][k] = u
    BY <1>4, QueuedAt
  <2>2. PICK k \in DOMAIN SCHED[i] : SCHED[i][k] = u
    BY <2>1
  <2>3. k \in DOMAIN SCHED'[i] /\ SCHED'[i][k] = u
    <3>1. CASE i = p
      BY <1>a, <1>b, <1>3, <2>2, <3>1
    <3>2. CASE i # p
      BY <1>a, <2>2, <3>2
    <3> QED BY <3>1, <3>2
  <2> QED BY <2>3
<1>5. \E i \in Queue : \E k \in DOMAIN SCHED'[i] : SCHED'[i][k] = t
  BY <1>1, <1>3, <1>a
<1>6. ASSUME NEW u, \E i \in Queue : \E k \in DOMAIN SCHED'[i] : SCHED'[i][k] = u
      PROVE  Queued(u)'
  BY <1>6 DEF Queued, ToSet
<1> QED BY <1>4, <1>5, <1>6

-----------------------------------------------------------------------------
(* Every step keeps it                                                     *)

(***************************************************************************)
(* yield() of a thread that has begun to run: nobody is being put away, so *)
(* the only context that is dirty is its own.                              *)
(***************************************************************************)
LEMMA ExactYield ==
    ASSUME IInv, Exact, stage = "run", pc[current] # "start",
           NEW cause, NEW st, current = Idle => st = "RUNNING",
           yield(cause, st), armed' = FALSE, alarm' = FALSE,
           \A t \in Thread : pc'[t] = "start" => pc[t] = "start"
    PROVE  Exact'
<1> USE ConstantFacts
<1>0. TypeOK /\ QueueSound /\ CoreInvariant
  BY DEF IInv
<1>1. /\ SCHED' = BoostedQueues \/ SCHED' = SCHED
      /\ state' = [state EXCEPT ![current] = IF st = "RUNNING" THEN "READY" ELSE st]
      /\ stage' = "expire"
      /\ used' = used /\ phase' = phase /\ current' = current /\ previous' = previous
  BY DEF yield
<1>2. state \in [TCB -> Thread_state] /\ current \in TCB
  BY <1>0 DEF TypeOK
<1>3. /\ ~Pending /\ ~Pending' /\ phase[current] = "CTX_DIRTY"
  BY <1>0, <1>1 DEF Pending, CoreInvariant, RunState
<1>4. \A t \in Thread : pc[t] # "start"
  BY DEF Exact, StartOnly
<1>5. TimerQuiet' /\ StartOnly' /\ ExpireDirty' /\ PreviousOut'
  BY <1>1, <1>3, <1>4 DEF TimerQuiet, StartOnly, ExpireDirty, PreviousOut
<1>6. DirtyOnly'
  BY <1>1, <1>3 DEF Exact, DirtyOnly
<1>7. \A t \in TCB \ {current} : state'[t] = state[t]
  BY <1>1, <1>2
<1>8. IdleState'
  <2>1. CASE current = Idle
    BY <1>1, <1>2, <2>1 DEF IdleState
  <2>2. CASE current # Idle
    BY <1>7, <2>2 DEF Exact, IdleState
  <2> QED BY <2>1, <2>2
<1>9. ASSUME NEW t \in Thread, Queued(t) PROVE Queued(t)'
  <2>1. PICK i \in Queue : \E k \in DOMAIN SCHED[i] : SCHED[i][k] = t
    BY <1>9, QueuedAt
  <2>2. \E j \in Queue : \E l \in DOMAIN SCHED'[j] : SCHED'[j][l] = t
    BY <1>0, <1>1, <2>1, BoostKeeps
  <2> QED BY <2>2 DEF Queued, ToSet
<1>10. NoThreadLost'
  <2> SUFFICES ASSUME NEW t \in Thread, used[t], state'[t] \in {"READY", "EXITED"}, t # current
               PROVE  Queued(t)'
    BY <1>1 DEF NoThreadLost
  <2>1. state[t] \in {"READY", "EXITED"}
    BY <1>7
  <2> QED BY <1>3, <1>9, <2>1 DEF Exact, NoThreadLost
<1> QED BY <1>5, <1>6, <1>8, <1>10 DEF Exact

(***************************************************************************)
(* sched_make_ready: a thread that is not put into a queue because its     *)
(* context is dirty is the current one, which yield() puts there.          *)
(***************************************************************************)
LEMMA ExactMakeReady ==
    ASSUME IInv, Exact, NEW t \in Thread,
           stage = "expire" \/ (stage = "run" /\ pc[current] # "start"),
           sched_make_ready(t),
           UNCHANGED <<used, phase, priority, curr_cause, active_threads, yield_count,
                       current, previous, clock, timer, pc, stage>>
    PROVE  Exact'
<1> USE ConstantFacts
<1>0. TypeOK /\ QueueSound
  BY DEF IInv
<1>1. /\ used' = used /\ phase' = phase /\ current' = current /\ previous' = previous
      /\ armed' = armed /\ alarm' = alarm /\ pc' = pc /\ stage' = stage
  BY DEF timer
<1>2. /\ state \in [TCB -> Thread_state] /\ phase \in [TCB -> Thread_phase]
      /\ SCHED \in [Queue -> Seq(Thread)] /\ priority \in [TCB -> Queue]
  BY <1>0 DEF TypeOK
<1>3. state[t] \in {"STOPPED", "INIT"} /\ state' = [state EXCEPT ![t] = "READY"]
  BY DEF sched_make_ready
<1>4. \A u \in TCB \ {t} : state'[u] = state[u]
  BY <1>2, <1>3
<1>5. ~Pending /\ ~Pending'
  BY <1>1 DEF Pending
<1>6. TimerQuiet' /\ StartOnly' /\ DirtyOnly' /\ ExpireDirty' /\ PreviousOut'
  BY <1>1, <1>5 DEF Exact, TimerQuiet, StartOnly, DirtyOnly, ExpireDirty, PreviousOut
<1>7. IdleState'
  BY <1>4 DEF Exact, IdleState
<1>8. ~Queued(t)
  <2> SUFFICES ASSUME NEW i \in Queue, NEW k \in DOMAIN SCHED[i], SCHED[i][k] = t PROVE FALSE
    BY QueuedAt
  <2> QED BY <1>0, <1>3 DEF QueueSound
<1>9. /\ \A u \in Thread : Queued(u) => Queued(u)'
      /\ phase[t] = "CTX_CLEAN" => Queued(t)'
  <2>1. CASE phase[t] = "CTX_CLEAN"
    <3>1. sched_queue_add(t)
      BY <2>1 DEF sched_make_ready
    <3> QED BY <1>2, <1>8, <3>1, QueueAddKeeps
  <2>2. CASE phase[t] # "CTX_CLEAN"
    <3>1. SCHED' = SCHED
      BY <2>2 DEF sched_make_ready
    <3> QED BY <2>2, <3>1 DEF Queued
  <2> QED BY <2>1, <2>2
<1>10. phase[t] = "CTX_CLEAN" \/ t = current
  <2>1. phase[t] \in {"CTX_CLEAN", "CTX_DIRTY"}
    BY <1>2 DEF Thread_phase
  <2> QED BY <1>5, <2>1 DEF Exact, DirtyOnly
<1>11. NoThreadLost'
  <2> SUFFICES ASSUME NEW u \in Thread, used[u], state'[u] \in {"READY", "EXITED"}, u # current
               PROVE  Queued(u)'
    BY <1>1 DEF NoThreadLost
  <2>1. CASE u = t
    BY <1>9, <1>10, <2>1
  <2>2. CASE u # t
    <3>1. state[u] \in {"READY", "EXITED"}
      BY <1>4, <2>2
    <3> QED BY <1>5, <1>9, <3>1 DEF Exact, NoThreadLost
  <2> QED BY <2>1, <2>2
<1> QED BY <1>6, <1>7, <1>11 DEF Exact

(***************************************************************************)
(* The selection: the thread that leaves the core becomes the previous     *)
(* one, the thread that leaves the queue the current one.                  *)
(***************************************************************************)
LEMMA ExactSwitch ==
    ASSUME IInv, Exact, stage = "expire", NEW next \in TCB, SwitchTo(next),
           UNCHANGED <<tcb, timer>>,
           \A t \in Thread : Queued(t) => t = next \/ Queued(t)'
    PROVE  Exact'
<1> USE ConstantFacts
<1>0. TypeOK /\ CoreInvariant
  BY DEF IInv
<1>1. /\ used' = used /\ state' = state /\ phase' = phase /\ armed' = armed /\ alarm' = alarm
      /\ previous' = current /\ current' = next
  BY DEF tcb, timer, SwitchTo
<1>2. \/ next \in Thread /\ pc' = [pc EXCEPT ![next] = "start"] /\ stage' = "run"
      \/ stage' = "gain" /\ pc' = pc
  BY DEF SwitchTo, TCB
<1>3. /\ \A t \in Thread : pc'[t] = "start" => t = next /\ stage' = "run"
      /\ stage' = "gain" \/ (stage' = "run" /\ pc'[next] = "start")
  <2>1. pc \in [TCB -> ThreadPC \cup IdlePC]
    BY <1>0 DEF TypeOK
  <2>2. \A t \in Thread : pc[t] # "start"
    BY DEF Exact, StartOnly
  <2> QED BY <1>2, <2>1, <2>2
<1>4. ~Pending /\ Pending' /\ current \in TCB
  BY <1>0, <1>1, <1>3 DEF Pending, TypeOK
<1>5. TimerQuiet' /\ StartOnly' /\ ExpireDirty' /\ IdleState'
  BY <1>1, <1>3 DEF Exact, TimerQuiet, StartOnly, ExpireDirty, IdleState
<1>6. DirtyOnly'
  BY <1>1, <1>4 DEF Exact, DirtyOnly
<1>7. PreviousOut'
  BY <1>0, <1>1 DEF Exact, ExpireDirty, PreviousOut, CoreInvariant, CurrentLive
<1>8. NoThreadLost'
  BY <1>1, <1>4 DEF Exact, NoThreadLost
<1> QED BY <1>5, <1>6, <1>7, <1>8 DEF Exact

LEMMA ExactSelectQueued ==
    ASSUME IInv, Exact, NEW q \in Queue, SelectQueued(q)
    PROVE  Exact'
<1> USE ConstantFacts
<1> DEFINE s == SCHED[q]
           n == Head(s)
<1>1. /\ stage = "expire" /\ s # << >> /\ SCHED' = [SCHED EXCEPT ![q] = Tail(s)]
      /\ SwitchTo(n) /\ UNCHANGED <<tcb, timer>>
  BY DEF SelectQueued
<1>2. SCHED \in [Queue -> Seq(Thread)] /\ s \in Seq(Thread)
  BY DEF IInv, TypeOK
<1>3. SCHED'[q] = Tail(s) /\ \A i \in Queue \ {q} : SCHED'[i] = SCHED[i]
  BY <1>1, <1>2
<1>a. SCHED[q] = s
  OBVIOUS
<1> HIDE DEF s
<1>4. /\ n = s[1] /\ n \in Thread
      /\ \A k \in DOMAIN s : k = 1 \/ (k-1 \in DOMAIN Tail(s) /\ Tail(s)[k-1] = s[k])
  BY <1>1, <1>2
<1> HIDE DEF n
<1>5. ASSUME NEW t \in Thread, Queued(t), t # n PROVE Queued(t)'
  <2>1. PICK i \in Queue : \E k \in DOMAIN SCHED[i] : SCHED[i][k] = t
    BY <1>5, QueuedAt
  <2>2. PICK k \in DOMAIN SCHED[i] : SCHED[i][k] = t
    BY <2>1
  <2>3. \E l \in DOMAIN SCHED'[i] : SCHED'[i][l] = t
    <3>1. CASE i = q
      <4>1. k \in DOMAIN s /\ s[k] = t
        BY <1>a, <2>2, <3>1
      <4>2. k # 1
        BY <1>4, <1>5, <4>1
      <4>3. k-1 \in DOMAIN Tail(s) /\ Tail(s)[k-1] = t
        BY <1>4, <4>1, <4>2
      <4>4. SCHED'[i] = Tail(s)
        BY <1>3, <3>1
      <4> HIDE DEF s
      <4> QED BY <4>3, <4>4
    <3>2. CASE i # q
      BY <1>3, <2>2, <3>2
    <3> QED BY <3>1, <3>2
  <2> QED BY <2>3 DEF Queued, ToSet
<1> QED BY <1>1, <1>4, <1>5, ExactSwitch

LEMMA ExactSelectFallback ==
    ASSUME IInv, Exact, SelectFallback
    PROVE  Exact'
<1> USE ConstantFacts
<1> DEFINE n == IF state[current] = "READY" THEN current ELSE Idle
<1>1. /\ stage = "expire" /\ SwitchTo(n) /\ UNCHANGED <<tcb, timer>>
      /\ \A i \in Queue : SCHED[i] = << >>
  BY DEF SelectFallback
<1>2. n \in TCB
  BY DEF IInv, TypeOK
<1> HIDE DEF n
<1>3. \A t : ~Queued(t)
  BY <1>1, QueuedAt
<1> QED BY <1>1, <1>2, <1>3, ExactSwitch

(***************************************************************************)
(* gain() puts the previous thread away: it was dirty and so in no queue,  *)
(* and it is queued, released or asleep afterwards.                        *)
(***************************************************************************)
LEMMA ExactGain ==
    ASSUME IInv, Exact, Pending, gain, stage' = "run",
           \A t \in Thread : pc'[t] # "start", pc'[current] # "start"
    PROVE  Exact'
<1> USE ConstantFacts
<1>0. TypeOK /\ QueueSound /\ CoreInvariant
  BY DEF IInv
<1>1. /\ current' = current /\ previous' = previous /\ alarm' = alarm
      /\ state' = [state EXCEPT ![current] = "RUNNING"]
  BY DEF gain
<1>2. /\ used \in [Thread -> BOOLEAN] /\ state \in [TCB -> Thread_state]
      /\ phase \in [TCB -> Thread_phase] /\ priority \in [TCB -> Queue]
      /\ SCHED \in [Queue -> Seq(Thread)] /\ current \in TCB
  BY <1>0 DEF TypeOK
<1>3. previous \in TCB /\ phase[previous] = "CTX_DIRTY"
  BY <1>0 DEF CoreInvariant, PreviousLive, Exact, PreviousOut
<1>4. \A t \in TCB : state'[t] = IF t = current THEN "RUNNING" ELSE state[t]
  BY <1>1, <1>2
<1>5. TimerQuiet' /\ StartOnly' /\ ExpireDirty' /\ PreviousOut' /\ ~Pending'
  BY <1>1 DEF Exact, TimerQuiet, StartOnly, ExpireDirty, PreviousOut, Pending
<1>6. DirtyOnly'
  <2> SUFFICES ASSUME NEW t \in TCB, phase'[t] = "CTX_DIRTY", t # current PROVE FALSE
    BY <1>1 DEF DirtyOnly
  <2>1. CASE current = previous
    <3>1. phase'[t] = phase[t]
      BY <1>2, <2>1 DEF gain
    <3> QED BY <2>1, <3>1 DEF Exact, DirtyOnly
  <2>2. CASE current # previous
    <3>1. phase' = [phase EXCEPT ![current] = "CTX_DIRTY", ![previous] = "CTX_CLEAN"]
      BY <2>2 DEF gain, ContextPhases
    <3>2. t # previous /\ phase'[t] = phase[t]
      BY <1>2, <1>3, <3>1
    <3> QED BY <3>2 DEF Exact, DirtyOnly
  <2> QED BY <2>1, <2>2
<1>7. IdleState'
  BY <1>4 DEF Exact, IdleState
<1>8. \A t : Queued(t) => t # previous
  <2> SUFFICES ASSUME NEW i \in Queue, NEW k \in DOMAIN SCHED[i], SCHED[i][k] = previous PROVE FALSE
    BY QueuedAt
  <2> QED BY <1>0, <1>3 DEF QueueSound
<1>9. /\ \A t \in Thread : Queued(t) => Queued(t)'
      /\ state[previous] = "READY" => \A t \in Thread \ {current} : t = previous => Queued(t)'
  <2>1. CASE current # previous /\ state[previous] = "READY" /\ previous # Idle
    <3>1. sched_queue_add(previous) /\ previous \in Thread /\ ~Queued(previous)
      BY <1>3, <1>8, <2>1 DEF gain
    <3> QED BY <1>2, <3>1, QueueAddKeeps
  <2>2. CASE ~(current # previous /\ state[previous] = "READY" /\ previous # Idle)
    <3>1. SCHED' = SCHED
      BY <2>2 DEF gain
    <3> QED BY <2>2, <3>1 DEF Queued
  <2> QED BY <2>1, <2>2
<1>10. /\ \A t \in Thread : used'[t] => used[t]
       /\ previous \in Thread \ {current} /\ state[previous] = "EXITED" => ~used'[previous]
  <2>1. CASE current # previous /\ state[previous] = "EXITED"
    <3>1. used' = [used EXCEPT ![previous] = FALSE]
      BY <2>1 DEF gain, release_TCB
    <3> QED BY <1>2, <3>1
  <2>2. CASE ~(current # previous /\ state[previous] = "EXITED")
    <3>1. used' = used
      BY <2>2 DEF gain
    <3> QED BY <2>2, <3>1
  <2> QED BY <2>1, <2>2
<1>11. NoThreadLost'
  <2> SUFFICES ASSUME NEW t \in Thread, used'[t], state'[t] \in {"READY", "EXITED"}, t # current
               PROVE  Queued(t)'
    BY <1>1 DEF NoThreadLost
  <2>1. used[t] /\ state[t] \in {"READY", "EXITED"}
    BY <1>4, <1>10
  <2>2. CASE t = previous
    <3>1. previous \in Thread \ {current} /\ state[previous] # "EXITED"
      BY <1>10, <2>2
    <3>2. state[previous] = "READY"
      BY <2>1, <2>2, <3>1
    <3> QED BY <1>9, <2>2, <3>2
  <2>3. CASE t # previous
    BY <1>9, <2>1, <2>3 DEF Exact, NoThreadLost
  <2> QED BY <2>2, <2>3
<1> QED BY <1>5, <1>6, <1>7, <1>11 DEF Exact

LEMMA ExactSpawn ==
    ASSUME IInv, Exact, NEW t \in Thread, SpawnThread(t)
    PROVE  Exact'
<1> USE ConstantFacts
<1>0. TypeOK /\ CoreInvariant
  BY DEF IInv
<1>1. /\ stage = "run" /\ pc[current] = "kernel" /\ ~used[t]
      /\ used' = [used EXCEPT ![t] = TRUE] /\ state' = [state EXCEPT ![t] = "INIT"]
      /\ phase' = [phase EXCEPT ![t] = "CTX_CLEAN"] /\ pc' = [pc EXCEPT ![t] = "fresh"]
      /\ SCHED' = SCHED /\ current' = current /\ previous' = previous
      /\ armed' = armed /\ alarm' = alarm /\ stage' = stage
  BY DEF SpawnThread, Executing, timer
<1>2. /\ used \in [Thread -> BOOLEAN] /\ state \in [TCB -> Thread_state]
      /\ phase \in [TCB -> Thread_phase] /\ pc \in [TCB -> ThreadPC \cup IdlePC] /\ current \in TCB
  BY <1>0 DEF TypeOK
<1>3. t # current
  BY <1>0, <1>1 DEF CoreInvariant, CurrentLive
<1>4. /\ \A u \in TCB \ {t} : state'[u] = state[u] /\ phase'[u] = phase[u] /\ pc'[u] = pc[u]
      /\ \A u \in Thread \ {t} : used'[u] = used[u]
      /\ state'[t] = "INIT" /\ phase'[t] = "CTX_CLEAN" /\ pc'[t] = "fresh"
  BY <1>1, <1>2
<1>5. ~Pending /\ ~Pending' /\ pc'[current] = pc[current]
  BY <1>1, <1>2, <1>3, <1>4 DEF Pending
<1>6. TimerQuiet' /\ StartOnly' /\ ExpireDirty' /\ PreviousOut'
  BY <1>1, <1>4, <1>5 DEF Exact, TimerQuiet, StartOnly, ExpireDirty, PreviousOut
<1>7. DirtyOnly' /\ IdleState'
  BY <1>1, <1>4, <1>5 DEF Exact, DirtyOnly, IdleState
<1>8. NoThreadLost'
  <2>1. \A u \in Thread : Queued(u) => Queued(u)'
    BY <1>1 DEF Queued
  <2> QED BY <1>1, <1>4, <1>5, <2>1 DEF Exact, NoThreadLost
<1> QED BY <1>6, <1>7, <1>8 DEF Exact

(***************************************************************************)
(* The steps that move only program counters, the clock or the timer.      *)
(***************************************************************************)
LEMMA ExactLocal ==
    ASSUME IInv, Exact,
           UNCHANGED <<tcb, SCHED, current, previous, stage>>,
           alarm' = alarm, armed' = armed \/ armed' = FALSE,
           pc'[current] = "start" <=> pc[current] = "start",
           \A t \in Thread : pc'[t] = "start" => pc[t] = "start"
    PROVE  Exact'
<1>1. /\ used' = used /\ state' = state /\ phase' = phase /\ SCHED' = SCHED
      /\ current' = current /\ previous' = previous /\ stage' = stage
  BY DEF tcb
<1>2. Pending' <=> Pending
  BY <1>1 DEF Pending
<1>a. TimerQuiet' /\ StartOnly'
  <2>1. TimerQuiet'
    BY <1>1 DEF Exact, TimerQuiet
  <2>2. StartOnly'
    BY <1>1 DEF Exact, StartOnly
  <2> QED BY <2>1, <2>2
<1>b. ExpireDirty' /\ PreviousOut'
  BY <1>1, <1>2 DEF Exact, ExpireDirty, PreviousOut
<1>c. DirtyOnly' /\ IdleState'
  BY <1>1, <1>2 DEF Exact, DirtyOnly, IdleState
<1>4. NoThreadLost'
  BY <1>1, <1>2 DEF Exact, NoThreadLost, Queued
<1> QED BY <1>a, <1>b, <1>c, <1>4 DEF Exact

LEMMA ExactStep ==
    ASSUME LateAlarm = FALSE, IInv, Exact, [Next]_vars
    PROVE  Exact'
<1> USE ConstantFacts
<1>0. TypeOK /\ QueueSound /\ CoreInvariant
  BY DEF IInv
<1>t. /\ pc \in [TCB -> ThreadPC \cup IdlePC] /\ pc[Idle] \in IdlePC
      /\ current \in TCB /\ TIMEOUT_LIST \in Seq(Thread)
  BY <1>0 DEF TypeOK
<1>q. /\ ~alarm /\ (stage # "run" \/ pc[current] = "start" => ~armed)
      /\ \A t \in Thread : pc[t] = "start" => t = current /\ stage = "run"
      /\ bios_cancel_timer => armed' = FALSE /\ alarm' = FALSE
  BY DEF Exact, TimerQuiet, StartOnly, bios_cancel_timer
<1>r. stage = "run" /\ pc[current] # "start" => state[current] = "RUNNING"
  BY <1>0 DEF CoreInvariant, RunState
<1>1. CASE KernelLock \/ KernelUnlock
  <2>1. /\ current # Idle /\ pc[current] \in {"user", "kernel"}
        /\ pc' = [pc EXCEPT ![current] = "kernel"] \/ pc' = [pc EXCEPT ![current] = "user"]
        /\ UNCHANGED <<tcb, SCHED, current, previous, stage>>
        /\ armed' = armed /\ alarm' = alarm
    BY <1>1 DEF KernelLock, KernelUnlock, Executing, timer
  <2>2. /\ pc'[current] # "start" /\ pc[current] # "start"
        /\ \A t \in Thread : pc'[t] = "start" => pc[t] = "start"
    BY <1>t, <2>1
  <2> QED BY <2>1, <2>2, ExactLocal
<1>2. CASE \E t \in Thread : SpawnThread(t)
  BY <1>2, ExactSpawn
<1>3. ASSUME NEW t \in Thread, Wakeup(t) PROVE Exact'
  <2>1. /\ stage = "run" /\ pc[current] # "start" /\ sched_make_ready(t)
        /\ UNCHANGED <<used, phase, priority, curr_cause, active_threads, yield_count,
                       current, previous, clock, timer, pc, stage>>
    BY <1>3 DEF Wakeup, Executing
  <2> QED BY <2>1, ExactMakeReady
<1>4. ASSUME NEW c \in Causes, YieldCall(c) PROVE Exact'
  <2>1. /\ stage = "run" /\ pc[current] # "start" /\ current # Idle
        /\ bios_cancel_timer /\ yield(c, state[current]) /\ pc' = pc
    BY <1>4 DEF YieldCall, Executing
  <2> QED BY <1>q, <2>1, ExactYield
<1>5. ASSUME NEW c \in Causes, NEW d \in Timeouts, Sleep(c, d) PROVE Exact'
  <2>1. /\ stage = "run" /\ pc[current] # "start" /\ current # Idle
        /\ bios_cancel_timer /\ yield(c, "STOPPED") /\ pc' = pc
    BY <1>5 DEF Sleep, Executing
  <2> QED BY <1>q, <2>1, ExactYield
<1>6. CASE Exit
  <2>1. /\ stage = "run" /\ pc[current] # "start" /\ current # Idle
        /\ bios_cancel_timer /\ yield("USER", "EXITED") /\ pc' = pc
    BY <1>6 DEF Exit, Executing
  <2> QED BY <1>q, <2>1, ExactYield
<1>7. CASE WakeExpired
  <2>1. /\ stage = "expire" /\ TIMEOUT_LIST # << >> /\ sched_make_ready(Head(TIMEOUT_LIST))
        /\ UNCHANGED <<used, phase, priority, curr_cause, active_threads, yield_count,
                       current, previous, clock, timer, pc, stage>>
    BY <1>7 DEF WakeExpired, HeadExpired
  <2>2. Head(TIMEOUT_LIST) \in Thread
    BY <1>t, <2>1
  <2> QED BY <2>1, <2>2, ExactMakeReady
<1>8. CASE \E q \in Queue : SelectQueued(q)
  BY <1>8, ExactSelectQueued
<1>9. CASE SelectFallback
  BY <1>9, ExactSelectFallback
<1>10. CASE Gain
  <2>1. Pending /\ gain /\ stage = "gain" /\ stage' = "run" /\ pc' = pc
    BY <1>10 DEF Gain, Pending
  <2>2. (\A t \in Thread : pc'[t] # "start") /\ pc'[current] # "start"
    BY <1>q, <1>t, <2>1 DEF IdlePC
  <2> QED BY <2>1, <2>2, ExactGain
<1>11. CASE ThreadStart
  <2>1. Pending /\ gain /\ stage' = "run" /\ pc' = [pc EXCEPT ![current] = "user"]
    BY <1>11 DEF ThreadStart, Pending
  <2>2. (\A t \in Thread : pc'[t] # "start") /\ pc'[current] # "start"
    BY <1>q, <1>t, <2>1
  <2> QED BY <2>1, <2>2, ExactGain
<1>12. CASE IdleYield
  <2>1. /\ stage = "run" /\ current = Idle /\ bios_cancel_timer
        /\ pc[Idle] # "start" /\ pc' = [pc EXCEPT ![Idle] = "loop"]
        /\ yield("IDLE", state[current])
    BY <1>12 DEF IdleYield, IdleAt
  <2>2. \A t \in Thread : pc'[t] = "start" => pc[t] = "start"
    BY <1>t, <2>1
  <2> QED BY <1>q, <1>r, <2>1, <2>2, ExactYield
<1>13. CASE IdleCheck \/ cpu_core_halt \/ SerialWake
  <2>1. /\ current = Idle /\ pc[Idle] \in {"loop", "tested", "halt"}
        /\ \E w \in {"tested", "halt", "done", "wake"} : pc' = [pc EXCEPT ![Idle] = w]
        /\ UNCHANGED <<tcb, SCHED, current, previous, stage>>
        /\ armed' = armed \/ armed' = FALSE
        /\ alarm' = alarm
    BY <1>13 DEF IdleCheck, cpu_core_halt, SerialWake, WakeCore, IdleAt, timer
  <2>2. /\ pc'[current] # "start" /\ pc[current] # "start"
        /\ \A t \in Thread : pc'[t] = "start" => pc[t] = "start"
    BY <1>t, <2>1
  <2> QED BY <2>1, <2>2, ExactLocal
<1>14. CASE Interrupt
  <2>1. /\ stage = "run" /\ (armed \/ alarm) /\ armed' = FALSE /\ alarm' = FALSE
        /\ pc' = [pc EXCEPT ![current] = IF pc[current] = "halt" THEN "wake" ELSE pc[current]]
        /\ yield("QUANTUM", state[current])
    BY <1>14 DEF Interrupt, WakeCore, Ie
  <2>2. pc[current] # "start" /\ \A t \in Thread : pc'[t] = "start" => pc[t] = "start"
    BY <1>q, <1>t, <2>1
  <2> QED BY <1>q, <1>r, <2>1, <2>2, ExactYield
<1>15. CASE UNCHANGED vars
  <2>1. /\ UNCHANGED <<tcb, SCHED, current, previous, stage>>
        /\ armed' = armed /\ alarm' = alarm /\ pc' = pc
    BY <1>15 DEF timer, vars, tcb
  <2> QED BY <2>1, ExactLocal
<1>16. CASE ClockTick
  <2>1. /\ UNCHANGED <<tcb, SCHED, current, previous, stage>>
        /\ armed' = armed /\ alarm' = alarm /\ stage = "run"
        /\ pc' = [pc EXCEPT ![current] = IF pc[current] = "halt" THEN "wake" ELSE pc[current]]
    BY <1>16 DEF ClockTick, WakeCore, Ie, timer
  <2>2. /\ pc'[current] = pc[current] \/ (pc[current] # "start" /\ pc'[current] # "start")
        /\ \A t \in Thread : pc'[t] = "start" => pc[t] = "start"
    BY <1>t, <2>1
  <2> QED BY <2>1, <2>2, ExactLocal
<1> QED
  BY <1>1, <1>2, <1>3, <1>4, <1>5, <1>6, <1>7, <1>8, <1>9, <1>10, <1>11, <1>12, <1>13, <1>14, <1>15,
     <1>16
     DEF Next, ThreadStep, SchedStep, IdleStep, HaltLoop

(***************************************************************************)
(* No thread is lost by a context switch when no quantum ends with         *)
(* interrupts off: gain() always finds the thread that left the core as    *)
(* the previous one.  With late alarms this fails (run late_exit).         *)
(***************************************************************************)
THEOREM NoThreadLostSafe ==
    ASSUME LateAlarm = FALSE
    PROVE  Spec => []NoThreadLost
<1>1. Init => Exact
  BY ExactInit
<1>2. IInv /\ Exact /\ [Next]_vars => Exact'
  BY ExactStep
<1>3. Exact => NoThreadLost
  BY DEF Exact
<1> QED BY IInvInit, IInvStep, <1>1, <1>2, <1>3, PTL DEF Spec

(***************************************************************************)
(* The invariant that kernel_sched.h states, in both directions: what is   *)
(* queued may run, and a live READY thread with a clean context that does  *)
(* not have the core is queued.                                            *)
(***************************************************************************)
THEOREM SchedQueueSafe ==
    ASSUME LateAlarm = FALSE
    PROVE  Spec => []SchedQueueInvariant
<1>1. Init => Exact
  BY ExactInit
<1>2. IInv /\ Exact /\ [Next]_vars => Exact'
  BY ExactStep
<1>3. IInv /\ Exact => SchedQueueInvariant
  <2> SUFFICES ASSUME IInv, Exact PROVE SchedQueueInvariant
    OBVIOUS
  <2>1. ASSUME NEW t \in Thread, used[t], state[t] = "READY", phase[t] = "CTX_CLEAN", t # current
        PROVE  Queued(t)
    <3>1. ~(t = previous /\ Pending)
      BY <2>1 DEF Exact, PreviousOut
    <3> QED BY <2>1, <3>1 DEF Exact, NoThreadLost
  <2> QED BY <2>1 DEF IInv, SchedQueueInvariant
<1> QED BY IInvInit, IInvStep, <1>1, <1>2, <1>3, PTL DEF Spec

-----------------------------------------------------------------------------
(* The count of the active threads                                         *)

Live == {t \in Thread : used[t]}

LEMMA PoolBound ==
    ASSUME NEW S \in SUBSET Thread
    PROVE  IsFiniteSet(S) /\ Cardinality(S) \in Nat /\ Cardinality(S) <= MAX_THREADS
<1>1. IsFiniteSet(Thread) /\ Cardinality(Thread) = MAX_THREADS
  <2>1. 0 \in Int /\ MAX_THREADS - 1 \in Int
    BY ConstantFacts
  <2>2. /\ IsFiniteSet(0..MAX_THREADS-1)
        /\ Cardinality(0..MAX_THREADS-1) = IF 0 > MAX_THREADS-1 THEN 0 ELSE (MAX_THREADS-1) - 0 + 1
    BY <2>1, FS_Interval
  <2> QED BY <2>2, ConstantFacts DEF Thread
<1>2. IsFiniteSet(S) /\ Cardinality(S) <= Cardinality(Thread)
  BY <1>1, FS_Subset
<1>3. Cardinality(S) \in Nat
  BY <1>2, FS_CardinalityType
<1> QED BY <1>1, <1>2, <1>3

(***************************************************************************)
(* Below 2^16 the arithmetic of an unsigned int is exact.                  *)
(***************************************************************************)
LEMMA UintExact ==
    /\ UintMod \in Nat /\ UintMod > 0
    /\ \A n \in Nat : n < UintMod => n % UintMod = n
<1>1. UintMod \in Nat /\ UintMod > 0
  BY DEF UintMod
<1>2. ASSUME NEW m \in Nat, m > 0, NEW n \in Nat, n < m PROVE n % m = n
  BY <1>2, SMT
<1> QED BY <1>1, <1>2

LEMMA CountedInit == Init => ActiveThreadsCounted
<1> SUFFICES ASSUME Init PROVE ActiveThreadsCounted
  OBVIOUS
<1>1. {t \in Thread : used[t]} = {0}
  BY ConstantFacts DEF Init
<1>2. Cardinality({0}) = 1
  BY FS_Singleton
<1> QED BY <1>1, <1>2 DEF Init, ActiveThreadsCounted

LEMMA CountedSpawn ==
    ASSUME MAX_THREADS < UintMod, TypeOK, ActiveThreadsCounted,
           NEW t \in Thread, SpawnThread(t)
    PROVE  ActiveThreadsCounted'
<1>1. /\ ~used[t] /\ used' = [used EXCEPT ![t] = TRUE] /\ used \in [Thread -> BOOLEAN]
      /\ active_threads' = (active_threads + 1) % UintMod
  BY DEF SpawnThread, TypeOK
<1>2. Live' = Live \cup {t} /\ t \notin Live
  BY <1>1 DEF Live
<1>3. /\ IsFiniteSet(Live) /\ Cardinality(Live) \in Nat
      /\ Cardinality(Live') \in Nat /\ Cardinality(Live') <= MAX_THREADS
  <2>1. Live \in SUBSET Thread /\ Live' \in SUBSET Thread
    BY <1>2 DEF Live
  <2> QED BY <2>1, PoolBound
<1>4. Cardinality(Live') = Cardinality(Live) + 1
  BY <1>2, <1>3, FS_AddElement
<1>5. active_threads = Cardinality(Live)
  BY DEF ActiveThreadsCounted, Live
<1>6. active_threads + 1 \in Nat /\ active_threads + 1 < UintMod
  BY <1>3, <1>4, <1>5, UintExact, ConstantFacts
<1>7. (active_threads + 1) % UintMod = active_threads + 1
  BY <1>6, UintExact
<1>8. active_threads' = Cardinality(Live')
  BY <1>1, <1>4, <1>5, <1>7
<1> QED BY <1>8 DEF ActiveThreadsCounted, Live

LEMMA CountedGain ==
    ASSUME MAX_THREADS < UintMod, IInv, Exact, ActiveThreadsCounted, Pending, gain
    PROVE  ActiveThreadsCounted'
<1> USE ConstantFacts
<1>1. TypeOK /\ CoreInvariant
  BY DEF IInv
<1>2. CASE current # previous /\ state[previous] = "EXITED"
  <2>1. /\ used' = [used EXCEPT ![previous] = FALSE]
        /\ active_threads' = (active_threads - 1) % UintMod
    BY <1>2 DEF gain, release_TCB
  <2>2. previous \in Thread /\ used[previous]
    <3>1. previous \in TCB /\ previous # Idle
      BY <1>1, <1>2 DEF CoreInvariant, PreviousLive, Exact, IdleState
    <3> QED BY <3>1 DEF Exact, PreviousOut
  <2>3. Live' = Live \ {previous} /\ previous \in Live
    BY <1>1, <2>1, <2>2 DEF Live, TypeOK
  <2>4. /\ IsFiniteSet(Live) /\ Cardinality(Live) \in Nat /\ Cardinality(Live) <= MAX_THREADS
    <3>1. Live \in SUBSET Thread
      BY DEF Live
    <3> QED BY <3>1, PoolBound
  <2>5. Cardinality(Live') = Cardinality(Live) - 1 /\ Cardinality(Live) # 0
    BY <2>3, <2>4, FS_RemoveElement, FS_EmptySet
  <2>6. active_threads = Cardinality(Live)
    BY DEF ActiveThreadsCounted, Live
  <2>7. active_threads - 1 \in Nat /\ active_threads - 1 < UintMod
    BY <2>4, <2>5, <2>6, UintExact
  <2>8. (active_threads - 1) % UintMod = active_threads - 1
    BY <2>7, UintExact
  <2>9. active_threads' = Cardinality(Live')
    BY <2>1, <2>5, <2>6, <2>8
  <2> QED BY <2>9 DEF ActiveThreadsCounted, Live
<1>3. CASE ~(current # previous /\ state[previous] = "EXITED")
  <2>1. used' = used /\ active_threads' = active_threads
    BY <1>3 DEF gain
  <2> QED BY <2>1 DEF ActiveThreadsCounted
<1> QED BY <1>2, <1>3

LEMMA CountedStep ==
    ASSUME MAX_THREADS < UintMod, IInv, Exact, ActiveThreadsCounted, [Next]_vars
    PROVE  ActiveThreadsCounted'
<1>1. CASE used' = used /\ active_threads' = active_threads
  BY <1>1 DEF ActiveThreadsCounted
<1>2. CASE \E t \in Thread : SpawnThread(t)
  BY <1>2, CountedSpawn DEF IInv
<1>3. CASE Gain \/ ThreadStart
  <2>1. Pending /\ gain
    BY <1>3 DEF Gain, ThreadStart, Pending
  <2> QED BY <2>1, CountedGain
<1>4. CASE KernelLock \/ KernelUnlock \/ IdleCheck \/ cpu_core_halt \/ SerialWake \/ HaltLoop \/ ClockTick
          \/ UNCHANGED vars
  BY <1>1, <1>4 DEF KernelLock, KernelUnlock, IdleCheck, cpu_core_halt, SerialWake, HaltLoop,
                    ClockTick, vars, tcb
<1>5. CASE SelectFallback \/ \E q \in Queue : SelectQueued(q)
  BY <1>1, <1>5 DEF SelectFallback, SelectQueued, tcb
<1>6. CASE WakeExpired \/ \E t \in Thread : Wakeup(t)
  BY <1>1, <1>6 DEF WakeExpired, Wakeup
<1>7. CASE Interrupt \/ IdleYield \/ Exit \/ (\E c \in Causes : YieldCall(c))
           \/ \E c \in Causes, d \in Timeouts : Sleep(c, d)
  BY <1>1, <1>7 DEF Interrupt, IdleYield, Exit, YieldCall, Sleep, yield
<1> QED
  BY <1>2, <1>3, <1>4, <1>5, <1>6, <1>7 DEF Next, ThreadStep, SchedStep, IdleStep

(***************************************************************************)
(* active_threads counts the slots in use, as long as the pool has fewer   *)
(* slots than its unsigned int can count: gain() releases every EXITED     *)
(* thread once.                                                            *)
(***************************************************************************)
THEOREM CountSafe ==
    ASSUME LateAlarm = FALSE, MAX_THREADS < UintMod
    PROVE  Spec => []ActiveThreadsCounted
<1>1. Init => Exact /\ ActiveThreadsCounted
  BY ExactInit, CountedInit
<1>2. IInv /\ Exact /\ ActiveThreadsCounted /\ [Next]_vars => Exact' /\ ActiveThreadsCounted'
  BY ExactStep, CountedStep
<1> QED BY IInvInit, IInvStep, <1>1, <1>2, PTL DEF Spec

-----------------------------------------------------------------------------
(* The return of run_scheduler                                             *)

(***************************************************************************)
(* Once out of its loop the idle thread keeps the core.                    *)
(***************************************************************************)
Returned ==
    pc[Idle] = "done" => /\ current = Idle /\ stage = "run"
                         /\ \A t \in Thread : ~used[t]

LEMMA ReturnedStep ==
    ASSUME IInv, ActiveThreadsCounted, Returned, [Next]_vars
    PROVE  Returned'
<1> USE ConstantFacts
<1>1. /\ pc \in [TCB -> ThreadPC \cup IdlePC] /\ current \in TCB
  BY DEF IInv, TypeOK
<1>2. CASE pc[Idle] = "done"
  <2>1. /\ current = Idle /\ stage = "run" /\ \A t \in Thread : ~used[t]
    BY <1>2 DEF Returned
  <2>2. ~ThreadStep
    BY <2>1 DEF ThreadStep, KernelLock, KernelUnlock, SpawnThread, Wakeup, YieldCall, Sleep,
                Exit, Executing
  <2>3. ~SchedStep
    BY <1>2, <2>1 DEF SchedStep, WakeExpired, SelectQueued, SelectFallback, Gain, ThreadStart
  <2>4. ~IdleYield /\ ~IdleCheck /\ ~cpu_core_halt /\ ~SerialWake /\ ~Interrupt /\ ~ClockTick
    BY <1>2, <2>1 DEF IdleYield, IdleCheck, cpu_core_halt, SerialWake, IdleAt, Interrupt, ClockTick
  <2>5. UNCHANGED vars
    BY <2>2, <2>3, <2>4 DEF Next, IdleStep, HaltLoop
  <2>6. pc' = pc /\ current' = current /\ stage' = stage /\ used' = used
    BY <2>5 DEF vars
  <2> QED BY <2>6 DEF Returned
<1>3. CASE pc[Idle] # "done" /\ IdleCheck
  <2>1. /\ current = Idle /\ stage = "run" /\ current' = current /\ stage' = stage /\ used' = used
        /\ pc' = [pc EXCEPT ![Idle] = "done"] => active_threads = 0
        /\ pc' = [pc EXCEPT ![Idle] = "done"] \/ pc' = [pc EXCEPT ![Idle] = "tested"]
    <3>1. CASE active_threads = 0
      BY <1>3, <3>1 DEF IdleCheck, IdleAt, LeaveIdle, tcb
    <3>2. CASE active_threads # 0
      <4>1. pc' = [pc EXCEPT ![Idle] = "tested"]
        BY <1>3, <3>2 DEF IdleCheck, LeaveIdle
      <4>2. pc'[Idle] = "tested"
        BY <1>1, <4>1
      <4>3. pc' # [pc EXCEPT ![Idle] = "done"]
        BY <1>1, <4>2
      <4> QED BY <1>3, <4>1, <4>3 DEF IdleCheck, IdleAt, tcb
    <3> QED BY <3>1, <3>2
  <2>2. ASSUME active_threads = 0 PROVE \A t \in Thread : ~used[t]
    <3>1. Live \in SUBSET Thread /\ Cardinality(Live) = 0
      BY <2>2 DEF Live, ActiveThreadsCounted
    <3>2. Live = {}
      BY <3>1, PoolBound, FS_EmptySet
    <3> QED BY <3>2 DEF Live
  <2>3. pc'[Idle] = "done" => active_threads = 0
    BY <1>1, <2>1
  <2> QED BY <2>1, <2>2, <2>3 DEF Returned
<1>4. CASE pc[Idle] # "done" /\ pc'[Idle] # "done"
  BY <1>4 DEF Returned
<1>5. ASSUME pc[Idle] # "done", ~IdleCheck PROVE pc'[Idle] # "done"
  <2>1. CASE KernelLock \/ KernelUnlock
    BY <1>1, <1>5, <2>1 DEF KernelLock, KernelUnlock, Executing
  <2>2. CASE \E t \in Thread : SpawnThread(t)
    BY <1>1, <1>5, <2>2 DEF SpawnThread
  <2>3. CASE (\E t \in Thread : Wakeup(t)) \/ (\E c \in Causes : YieldCall(c)) \/ Exit
             \/ WakeExpired \/ Gain \/ HaltLoop \/ UNCHANGED vars
             \/ \E c \in Causes, d \in Timeouts : Sleep(c, d)
    <3>1. pc' = pc
      BY <2>3 DEF Wakeup, YieldCall, Exit, WakeExpired, Gain, HaltLoop, Sleep, vars
    <3> QED BY <1>5, <3>1
  <2>4. CASE SelectFallback \/ \E q \in Queue : SelectQueued(q)
    <3>1. pc' = pc \/ \E n \in TCB \ {Idle} : pc' = [pc EXCEPT ![n] = "start"]
      <4>1. ASSUME NEW n, SwitchTo(n) PROVE pc' = pc \/ (n # Idle /\ pc' = [pc EXCEPT ![n] = "start"])
        BY <4>1 DEF SwitchTo
      <4>2. ASSUME NEW n, n # Idle, pc' = [pc EXCEPT ![n] = "start"]
            PROVE  pc' = pc \/ \E m \in TCB \ {Idle} : pc' = [pc EXCEPT ![m] = "start"]
        BY <1>1, <4>2
      <4> QED BY <2>4, <4>1, <4>2 DEF SelectFallback, SelectQueued
    <3> QED BY <1>1, <1>5, <3>1
  <2>5. CASE ThreadStart \/ IdleYield \/ cpu_core_halt \/ SerialWake \/ Interrupt \/ ClockTick
    <3>1. \E n \in TCB : \E w \in {"user", "loop", "halt", "wake", pc[n]} : pc' = [pc EXCEPT ![n] = w]
      BY <1>1, <2>5 DEF ThreadStart, IdleYield, cpu_core_halt, SerialWake, Interrupt, ClockTick, WakeCore
    <3> QED BY <1>1, <1>5, <3>1
  <2> QED BY <1>5, <2>1, <2>2, <2>3, <2>4, <2>5 DEF Next, ThreadStep, SchedStep, IdleStep
<1> QED BY <1>2, <1>3, <1>4, <1>5

(***************************************************************************)
(* kernel_sched.h on run_scheduler: it returns only when there are no more *)
(* active threads, for the same pools.                                     *)
(***************************************************************************)
THEOREM StopSafe ==
    ASSUME LateAlarm = FALSE, MAX_THREADS < UintMod
    PROVE  Spec => []StoppedWhenNoThreads
<1>1. Init => Exact /\ ActiveThreadsCounted /\ Returned
  <2>1. Init => pc[Idle] # "done"
    BY ConstantFacts DEF Init
  <2> QED BY <2>1, ExactInit, CountedInit DEF Returned
<1>2. IInv /\ Exact /\ ActiveThreadsCounted /\ Returned /\ [Next]_vars
        => Exact' /\ ActiveThreadsCounted' /\ Returned'
  BY ExactStep, CountedStep, ReturnedStep
<1>3. Returned => StoppedWhenNoThreads
  BY DEF Returned, StoppedWhenNoThreads
<1> QED BY IInvInit, IInvStep, <1>1, <1>2, <1>3, PTL DEF Spec

-----------------------------------------------------------------------------
(* The timeout list                                                        *)

(***************************************************************************)
(* Of the timeouts asked for, none ends exactly at the tick that           *)
(* wakeup_time reserves for "no timeout".                                  *)
(***************************************************************************)
NoReservedDeadline ==
    \A d \in Timeouts, now \in 0..MaxClock :
        d # NO_TIMEOUT => (now + d) % (NO_TIMEOUT + 1) # NO_TIMEOUT

(***************************************************************************)
(* A live thread that does not sleep has no deadline: sched_make_ready     *)
(* resets it and spawn_thread starts without one.                          *)
(***************************************************************************)
AwakeNoDeadline ==
    \A t \in Thread : used[t] /\ state[t] # "STOPPED" => wakeup_time[t] = NO_TIMEOUT

TimeInv == TimeoutInvariant /\ AwakeNoDeadline

LEMMA TimeInvInit == Init => TimeInv
<1> SUFFICES ASSUME Init PROVE TimeInv
  OBVIOUS
<1> USE ConstantFacts
<1>1. TIMEOUT_LIST = << >> /\ DOMAIN TIMEOUT_LIST = {}
  BY DEF Init
<1>2. \A t \in Thread : used[t] => state[t] = "READY" /\ wakeup_time[t] = NO_TIMEOUT
  BY DEF Init
<1>3. TimeoutInvariant
  BY <1>1, <1>2 DEF TimeoutInvariant, TimedOut, ToSet
<1>4. AwakeNoDeadline
  BY <1>2 DEF AwakeNoDeadline
<1> QED BY <1>3, <1>4 DEF TimeInv

(***************************************************************************)
(* The steps that neither put a thread to sleep nor wake one.              *)
(***************************************************************************)
LEMMA TimeInvAwake ==
    ASSUME TimeInv, TIMEOUT_LIST' = TIMEOUT_LIST, wakeup_time' = wakeup_time,
           \A t \in Thread : \/ used'[t] = used[t] /\ state'[t] = state[t]
                             \/ state[t] # "STOPPED" /\ state'[t] # "STOPPED" /\ (used'[t] => used[t])
    PROVE  TimeInv'
<1>1. \A t \in Thread : /\ used'[t] /\ state'[t] = "STOPPED" <=> used[t] /\ state[t] = "STOPPED"
                        /\ used'[t] /\ state'[t] # "STOPPED" => used[t] /\ state[t] # "STOPPED"
  OBVIOUS
<1>2. TimeoutInvariant'
  <2>1. \A t \in Thread : TimedOut(t)' <=> TimedOut(t)
    BY DEF TimedOut
  <2> QED BY <1>1, <2>1 DEF TimeInv, TimeoutInvariant
<1>3. AwakeNoDeadline'
  BY <1>1 DEF TimeInv, AwakeNoDeadline
<1> QED BY <1>2, <1>3 DEF TimeInv

(***************************************************************************)
(* sched_make_ready takes the thread off the list if and only if it is     *)
(* there; the others keep their order.                                     *)
(***************************************************************************)
LEMMA TimeInvMakeReady ==
    ASSUME TypeOK, TimeInv, NEW t \in Thread, used[t], sched_make_ready(t), used' = used
    PROVE  TimeInv'
<1> USE ConstantFacts
<1>0. /\ state \in [TCB -> Thread_state] /\ wakeup_time \in [TCB -> 0..NO_TIMEOUT]
      /\ TIMEOUT_LIST \in Seq(Thread)
  BY DEF TypeOK
<1>1. state[t] \in {"STOPPED", "INIT"} /\ state' = [state EXCEPT ![t] = "READY"]
  BY DEF sched_make_ready
<1>2. state'[t] = "READY" /\ \A u \in Thread \ {t} : state'[u] = state[u]
  BY <1>0, <1>1
<1>3. CASE wakeup_time[t] = NO_TIMEOUT
  <2>1. TIMEOUT_LIST' = TIMEOUT_LIST /\ wakeup_time' = wakeup_time
    BY <1>3 DEF sched_make_ready, CancelTimeout
  <2>2. \A u \in Thread : TimedOut(u)' <=> TimedOut(u)
    BY <2>1 DEF TimedOut
  <2>3. TimeoutInvariant'
    <3>1. \A u \in Thread : TimedOut(u)' <=> used'[u] /\ state'[u] = "STOPPED" /\ wakeup_time'[u] # NO_TIMEOUT
      BY <1>2, <1>3, <2>1, <2>2 DEF TimeInv, TimeoutInvariant
    <3> QED BY <2>1, <3>1 DEF TimeInv, TimeoutInvariant
  <2>4. AwakeNoDeadline'
    BY <1>2, <1>3, <2>1 DEF TimeInv, AwakeNoDeadline
  <2> QED BY <2>3, <2>4 DEF TimeInv
<1>4. CASE wakeup_time[t] # NO_TIMEOUT
  <2>1. wakeup_time' = [wakeup_time EXCEPT ![t] = NO_TIMEOUT]
    BY <1>4 DEF sched_make_ready, CancelTimeout
  <2>2. PICK j \in DOMAIN TIMEOUT_LIST : TIMEOUT_LIST[j] = t /\ TIMEOUT_LIST' = RemoveAt(TIMEOUT_LIST, j)
    BY <1>4 DEF sched_make_ready, CancelTimeout
  <2>3. wakeup_time'[t] = NO_TIMEOUT /\ \A u \in Thread \ {t} : wakeup_time'[u] = wakeup_time[u]
    BY <1>0, <2>1
  <2> DEFINE s == TIMEOUT_LIST
             r == TIMEOUT_LIST'
  <2>4. /\ s \in Seq(Thread) /\ r \in Seq(Thread) /\ DOMAIN s = 1..Len(s) /\ Len(s) \in Nat
        /\ DOMAIN r = 1..Len(s)-1 /\ j \in 1..Len(s)
        /\ \A k \in 1..Len(s)-1 : r[k] = IF k < j THEN s[k] ELSE s[k+1]
    <3>1. s \in Seq(Thread) /\ DOMAIN s = 1..Len(s) /\ Len(s) \in Nat /\ j \in DOMAIN s
      BY <1>0
    <3>2. r = RemoveAt(s, j)
      BY <2>2
    <3> HIDE DEF s, r
    <3>3. /\ RemoveAt(s, j) \in Seq(Thread) /\ DOMAIN RemoveAt(s, j) = 1..Len(s)-1
          /\ \A k \in 1..Len(s)-1 : RemoveAt(s, j)[k] = IF k < j THEN s[k] ELSE s[k+1]
      BY <3>1, RemoveExact
    <3> QED BY <3>1, <3>2, <3>3
  <2>5. \A k, l \in DOMAIN s : k < l => wakeup_time[s[k]] <= wakeup_time[s[l]] /\ s[k] # s[l]
    BY DEF TimeInv, TimeoutInvariant
  <2>6. \A k \in DOMAIN s : k # j => s[k] # t
    BY <2>2, <2>4, <2>5
  <2>a. s[j] = t
    BY <2>2
  <2>b. \A k \in DOMAIN s : s[k] \in Thread
    BY <2>4
  <2> HIDE DEF s, r
  <2>7. \A k \in DOMAIN r : \E l \in DOMAIN s : l = (IF k < j THEN k ELSE k+1) /\ l # j /\ r[k] = s[l]
    BY <2>4
  <2>8. \A l \in DOMAIN s : l # j => \E k \in DOMAIN r : k = (IF l < j THEN l ELSE l-1) /\ r[k] = s[l]
    <3> SUFFICES ASSUME NEW l \in DOMAIN s, l # j
                 PROVE  \E k \in DOMAIN r : k = (IF l < j THEN l ELSE l-1) /\ r[k] = s[l]
      OBVIOUS
    <3>1. CASE l < j
      BY <2>4, <3>1
    <3>2. CASE l > j
      <4>1. l-1 \in DOMAIN r /\ ~(l-1 < j) /\ (l-1)+1 = l
        BY <2>4, <3>2
      <4>2. r[l-1] = s[l]
        BY <2>4, <4>1
      <4> QED BY <2>4, <3>2, <4>1, <4>2
    <3> QED BY <2>4, <3>1, <3>2
  <2>9. /\ \A u \in Thread : (\E k \in DOMAIN r : r[k] = u) <=> u # t /\ \E l \in DOMAIN s : s[l] = u
    BY <2>6, <2>7, <2>8, <2>a
  <2>10. \A u \in Thread : TimedOut(u)' <=> u # t /\ TimedOut(u)
    BY <2>9 DEF TimedOut, ToSet, s, r
  <2>11. \A u \in Thread : TimedOut(u)' <=> used'[u] /\ state'[u] = "STOPPED" /\ wakeup_time'[u] # NO_TIMEOUT
    BY <1>2, <2>3, <2>10 DEF TimeInv, TimeoutInvariant
  <2>12. ASSUME NEW k \in DOMAIN r, NEW l \in DOMAIN r, k < l
         PROVE  wakeup_time'[r[k]] <= wakeup_time'[r[l]] /\ r[k] # r[l]
    <3>1. PICK k2 \in DOMAIN s : k2 = (IF k < j THEN k ELSE k+1) /\ k2 # j /\ r[k] = s[k2]
      BY <2>7
    <3>2. PICK l2 \in DOMAIN s : l2 = (IF l < j THEN l ELSE l+1) /\ l2 # j /\ r[l] = s[l2]
      BY <2>7
    <3>3. k2 < l2
      BY <2>4, <2>12, <3>1, <3>2
    <3>4. s[k2] # t /\ s[l2] # t
      BY <2>6, <3>1, <3>2
    <3>5. wakeup_time'[s[k2]] = wakeup_time[s[k2]] /\ wakeup_time'[s[l2]] = wakeup_time[s[l2]]
      BY <2>3, <2>b, <3>4
    <3> QED BY <2>5, <3>1, <3>2, <3>3, <3>5
  <2>13. TimeoutInvariant'
    BY <2>11, <2>12 DEF TimeoutInvariant, r
  <2>14. AwakeNoDeadline'
    BY <1>2, <2>3 DEF TimeInv, AwakeNoDeadline
  <2> QED BY <2>13, <2>14 DEF TimeInv
<1> QED BY <1>3, <1>4

(***************************************************************************)
(* sleep_releasing with a timeout: sched_register_timeout keeps the list   *)
(* in the order of the deadlines.                                          *)
(***************************************************************************)
LEMMA TimeInvRegister ==
    ASSUME NoReservedDeadline, TypeOK, TimeInv, current \in Thread, used[current],
           state[current] = "RUNNING", NEW d \in Timeouts, d # NO_TIMEOUT,
           sched_register_timeout(current, d), used' = used,
           state' = [state EXCEPT ![current] = "STOPPED"]
    PROVE  TimeInv'
<1> USE ConstantFacts
<1> DEFINE w == WakeupTime(d)
           s == TIMEOUT_LIST
           r == TIMEOUT_LIST'
<1>0. /\ state \in [TCB -> Thread_state] /\ wakeup_time \in [TCB -> 0..NO_TIMEOUT]
      /\ s \in Seq(Thread) /\ current \in TCB
  BY DEF TypeOK
<1>1. wakeup_time' = [wakeup_time EXCEPT ![current] = w]
  BY DEF sched_register_timeout
<1>2. PICK j \in 1..Len(s)+1 :
         /\ \A i \in 1..j-1 : wakeup_time[s[i]] <= w
         /\ j <= Len(s) => wakeup_time[s[j]] > w
         /\ r = InsertAt(s, j, current)
  BY DEF sched_register_timeout
<1>3. w # NO_TIMEOUT /\ w \in Int
  <2>1. clock \in 0..MaxClock /\ clock + d \in Int /\ NO_TIMEOUT + 1 \in Nat /\ NO_TIMEOUT + 1 > 0
    BY DEF TypeOK
  <2>2. (clock + d) % (NO_TIMEOUT + 1) \in 0..(NO_TIMEOUT + 1)-1
    BY <2>1
  <2>3. (clock + d) % (NO_TIMEOUT + 1) # NO_TIMEOUT
    BY <2>1 DEF NoReservedDeadline
  <2> QED BY <2>2, <2>3 DEF WakeupTime
<1>4. /\ DOMAIN s = 1..Len(s) /\ Len(s) \in Nat /\ DOMAIN r = 1..Len(s)+1
      /\ \A k \in 1..Len(s)+1 : r[k] = IF k < j THEN s[k] ELSE IF k = j THEN current ELSE s[k-1]
  <2>1. DOMAIN s = 1..Len(s) /\ Len(s) \in Nat
    BY <1>0
  <2>a. s \in Seq(Thread) /\ j \in 1..Len(s)+1 /\ current \in Thread
    BY <1>0, <1>2
  <2> HIDE DEF s, r
  <2>2. /\ DOMAIN InsertAt(s, j, current) = 1..Len(s)+1
        /\ \A k \in 1..Len(s)+1 :
              InsertAt(s, j, current)[k] = IF k < j THEN s[k] ELSE IF k = j THEN current ELSE s[k-1]
    BY <2>a, InsertExact
  <2> QED BY <1>2, <2>1, <2>2
<1>5. \A k, l \in DOMAIN s : k < l => wakeup_time[s[k]] <= wakeup_time[s[l]] /\ s[k] # s[l]
  BY DEF TimeInv, TimeoutInvariant
<1>6. ~TimedOut(current)
  BY DEF TimeInv, TimeoutInvariant
<1>7. \A k \in DOMAIN s : s[k] # current /\ s[k] \in Thread
  BY <1>0, <1>6 DEF TimedOut, ToSet
<1>8. /\ state'[current] = "STOPPED" /\ wakeup_time'[current] = w
      /\ \A u \in Thread \ {current} : state'[u] = state[u] /\ wakeup_time'[u] = wakeup_time[u]
  BY <1>0, <1>1
<1>9. \A u \in Thread : TimedOut(u)' <=> u = current \/ TimedOut(u)
  <2>1. \A u \in Thread : (\E k \in DOMAIN r : r[k] = u) <=> u = current \/ \E l \in DOMAIN s : s[l] = u
    <3> HIDE DEF s, r
    <3>1. ASSUME NEW k \in DOMAIN r PROVE r[k] = current \/ \E l \in DOMAIN s : s[l] = r[k]
      <4>1. k = j \/ (k < j /\ k \in DOMAIN s) \/ (k > j /\ k-1 \in DOMAIN s)
        BY <1>2, <1>4
      <4> QED BY <1>2, <1>4, <4>1
    <3>2. ASSUME NEW l \in DOMAIN s PROVE \E k \in DOMAIN r : r[k] = s[l]
      <4>1. CASE l < j
        <5>1. l \in DOMAIN r /\ r[l] = s[l]
          BY <1>4, <4>1
        <5> QED BY <5>1
      <4>2. CASE l >= j
        <5>1. l+1 \in 1..Len(s)+1 /\ ~(l+1 < j) /\ l+1 # j /\ (l+1)-1 = l
          BY <1>2, <1>4, <4>2
        <5>2. l+1 \in DOMAIN r /\ r[l+1] = s[l]
          BY <1>4, <5>1
        <5> QED BY <5>2
      <4> QED BY <1>2, <1>4, <4>1, <4>2
    <3>3. j \in DOMAIN r /\ r[j] = current
      BY <1>2, <1>4
    <3> QED BY <3>1, <3>2, <3>3
  <2> QED BY <2>1 DEF TimedOut, ToSet
<1>10. \A u \in Thread : TimedOut(u)' <=> used'[u] /\ state'[u] = "STOPPED" /\ wakeup_time'[u] # NO_TIMEOUT
  BY <1>3, <1>8, <1>9 DEF TimeInv, TimeoutInvariant
<1> HIDE DEF s, r, w
<1>11. ASSUME NEW k \in DOMAIN s
       PROVE  /\ wakeup_time'[s[k]] = wakeup_time[s[k]] /\ wakeup_time[s[k]] \in Int
              /\ k < j => wakeup_time[s[k]] <= w
              /\ k >= j => wakeup_time[s[k]] > w
  <2>1. s[k] \in Thread \ {current}
    BY <1>7
  <2>2. wakeup_time'[s[k]] = wakeup_time[s[k]] /\ wakeup_time[s[k]] \in Int
    BY <1>0, <1>8, <2>1
  <2>3. k < j => wakeup_time[s[k]] <= w
    BY <1>2, <1>4
  <2>4. ASSUME k >= j PROVE wakeup_time[s[k]] > w
    <3>1. j \in DOMAIN s /\ wakeup_time[s[j]] > w
      BY <1>2, <1>4, <2>4
    <3>2. wakeup_time[s[j]] \in Int
      BY <1>0, <1>7, <3>1
    <3>3. CASE k = j
      BY <3>1, <3>3
    <3>4. CASE k > j
      <4>1. wakeup_time[s[j]] <= wakeup_time[s[k]]
        BY <1>5, <3>1, <3>4
      <4> QED BY <1>3, <2>2, <3>1, <3>2, <4>1
    <3> QED BY <1>2, <1>4, <2>4, <3>3, <3>4
  <2> QED BY <2>2, <2>3, <2>4
<1>12. ASSUME NEW k \in DOMAIN r, NEW l \in DOMAIN r, k < l
       PROVE  wakeup_time'[r[k]] <= wakeup_time'[r[l]] /\ r[k] # r[l]
  <2>1. k \in 1..Len(s)+1 /\ l \in 1..Len(s)+1 /\ j \in 1..Len(s)+1
    BY <1>2, <1>4
  <2>2. CASE l < j
    <3>1. r[k] = s[k] /\ r[l] = s[l] /\ k \in DOMAIN s /\ l \in DOMAIN s
      BY <1>4, <1>12, <2>1, <2>2
    <3> QED BY <1>5, <1>11, <1>12, <3>1
  <2>3. CASE l = j
    <3>1. r[k] = s[k] /\ r[l] = current /\ k \in DOMAIN s /\ k < j
      BY <1>4, <1>12, <2>1, <2>3
    <3> QED BY <1>7, <1>8, <1>11, <3>1
  <2>4. CASE l > j /\ k = j
    <3>1. r[k] = current /\ r[l] = s[l-1] /\ l-1 \in DOMAIN s /\ l-1 >= j
      BY <1>4, <2>1, <2>4
    <3>2. wakeup_time'[s[l-1]] = wakeup_time[s[l-1]] /\ wakeup_time[s[l-1]] > w /\ wakeup_time[s[l-1]] \in Int
      BY <1>11, <3>1
    <3> QED BY <1>3, <1>7, <1>8, <3>1, <3>2
  <2>5. CASE l > j /\ k < j
    <3>1. r[k] = s[k] /\ r[l] = s[l-1] /\ k \in DOMAIN s /\ l-1 \in DOMAIN s /\ k < l-1
      BY <1>4, <2>1, <2>5
    <3> QED BY <1>5, <1>11, <3>1
  <2>6. CASE l > j /\ k > j
    <3>1. r[k] = s[k-1] /\ r[l] = s[l-1] /\ k-1 \in DOMAIN s /\ l-1 \in DOMAIN s /\ k-1 < l-1
      BY <1>4, <1>12, <2>1, <2>6
    <3> QED BY <1>5, <1>11, <3>1
  <2> QED BY <2>1, <2>2, <2>3, <2>4, <2>5, <2>6
<1>13. TimeoutInvariant'
  BY <1>10, <1>12 DEF TimeoutInvariant, r
<1>14. AwakeNoDeadline'
  BY <1>8 DEF TimeInv, AwakeNoDeadline
<1> QED BY <1>13, <1>14 DEF TimeInv

LEMMA TimeInvSleep ==
    ASSUME NoReservedDeadline, IInv, TimeInv, NEW c \in Causes, NEW d \in Timeouts, Sleep(c, d)
    PROVE  TimeInv'
<1> USE ConstantFacts
<1>0. TypeOK /\ CoreInvariant
  BY DEF IInv
<1>1. /\ stage = "run" /\ current # Idle /\ pc[current] \in {"user", "kernel"}
      /\ used' = used /\ state' = [state EXCEPT ![current] = "STOPPED"]
  BY DEF Sleep, Executing, yield
<1>2. current \in Thread /\ used[current] /\ state[current] = "RUNNING" /\ state \in [TCB -> Thread_state]
  BY <1>0, <1>1 DEF TypeOK, CoreInvariant, CurrentLive, RunState
<1>3. CASE d # NO_TIMEOUT
  <2>1. sched_register_timeout(current, d)
    BY <1>3 DEF Sleep
  <2> QED BY <1>0, <1>1, <1>2, <1>3, <2>1, TimeInvRegister
<1>4. CASE d = NO_TIMEOUT
  <2>1. TIMEOUT_LIST' = TIMEOUT_LIST /\ wakeup_time' = wakeup_time
    BY <1>4 DEF Sleep
  <2>2. /\ wakeup_time[current] = NO_TIMEOUT /\ state'[current] = "STOPPED"
        /\ \A u \in Thread \ {current} : state'[u] = state[u]
    BY <1>1, <1>2 DEF TimeInv, AwakeNoDeadline
  <2>3. \A u \in Thread : TimedOut(u)' <=> TimedOut(u)
    BY <2>1 DEF TimedOut
  <2>4. \A u \in Thread : TimedOut(u)' <=> used'[u] /\ state'[u] = "STOPPED" /\ wakeup_time'[u] # NO_TIMEOUT
    BY <1>1, <2>1, <2>2, <2>3, <1>2 DEF TimeInv, TimeoutInvariant
  <2>5. TimeoutInvariant'
    BY <2>1, <2>4 DEF TimeInv, TimeoutInvariant
  <2>6. AwakeNoDeadline'
    BY <1>1, <2>1, <2>2 DEF TimeInv, AwakeNoDeadline
  <2> QED BY <2>5, <2>6 DEF TimeInv
<1> QED BY <1>3, <1>4

LEMMA TimeInvYield ==
    ASSUME IInv, TimeInv, stage = "run", NEW cause, NEW st,
           st \in {state[current], "EXITED"}, yield(cause, st),
           TIMEOUT_LIST' = TIMEOUT_LIST, wakeup_time' = wakeup_time
    PROVE  TimeInv'
<1>0. TypeOK /\ CoreInvariant
  BY DEF IInv
<1>1. /\ used' = used
      /\ state' = [state EXCEPT ![current] = IF st = "RUNNING" THEN "READY" ELSE st]
      /\ state \in [TCB -> Thread_state] /\ current \in TCB
  BY <1>0 DEF yield, TypeOK
<1>2. state[current] \in {"READY", "RUNNING"}
  BY <1>0 DEF CoreInvariant, RunState, StartState
<1>3. \A t \in Thread : \/ state'[t] = state[t]
                        \/ state[t] # "STOPPED" /\ state'[t] # "STOPPED"
  BY <1>1, <1>2, ConstantFacts
<1> QED BY <1>1, <1>3, TimeInvAwake

LEMMA TimeInvGain ==
    ASSUME IInv, TimeInv, Pending, gain
    PROVE  TimeInv'
<1> USE ConstantFacts
<1>0. TypeOK /\ CoreInvariant
  BY DEF IInv
<1>1. /\ TIMEOUT_LIST' = TIMEOUT_LIST /\ wakeup_time' = wakeup_time
      /\ state' = [state EXCEPT ![current] = "RUNNING"]
      /\ \/ used' = used
         \/ /\ current # previous /\ state[previous] = "EXITED"
            /\ used' = [used EXCEPT ![previous] = FALSE]
  BY DEF gain, release_TCB
<1>2. state \in [TCB -> Thread_state] /\ used \in [Thread -> BOOLEAN] /\ current \in TCB
  BY <1>0 DEF TypeOK
<1>3. current \in Thread => state[current] \in {"READY", "RUNNING"}
  BY <1>0 DEF CoreInvariant, GainState, StartState, Pending
<1>4. ASSUME NEW t \in Thread
      PROVE  \/ used'[t] = used[t] /\ state'[t] = state[t]
             \/ state[t] # "STOPPED" /\ state'[t] # "STOPPED" /\ (used'[t] => used[t])
  <2>1. CASE t = current
    <3>1. state'[t] = "RUNNING" /\ state[t] # "STOPPED"
      BY <1>1, <1>2, <1>3, <2>1
    <3>2. used'[t] = used[t]
      BY <1>1, <1>2, <2>1
    <3> QED BY <3>1, <3>2
  <2>2. CASE t # current
    <3>1. state'[t] = state[t]
      BY <1>1, <1>2, <2>2
    <3>2. used'[t] = used[t] \/ (state[t] = "EXITED" /\ (used'[t] => used[t]))
      BY <1>1, <1>2
    <3> QED BY <3>1, <3>2
  <2> QED BY <2>1, <2>2
<1> QED BY <1>1, <1>4, TimeInvAwake

LEMMA TimeInvSpawn ==
    ASSUME TypeOK, TimeInv, NEW t \in Thread, SpawnThread(t)
    PROVE  TimeInv'
<1> USE ConstantFacts
<1>1. /\ ~used[t] /\ used' = [used EXCEPT ![t] = TRUE] /\ state' = [state EXCEPT ![t] = "INIT"]
      /\ wakeup_time' = [wakeup_time EXCEPT ![t] = NO_TIMEOUT] /\ TIMEOUT_LIST' = TIMEOUT_LIST
  BY DEF SpawnThread
<1>2. /\ state \in [TCB -> Thread_state] /\ used \in [Thread -> BOOLEAN]
      /\ wakeup_time \in [TCB -> 0..NO_TIMEOUT] /\ TIMEOUT_LIST \in Seq(Thread)
  BY DEF TypeOK
<1>3. /\ used'[t] /\ state'[t] = "INIT" /\ wakeup_time'[t] = NO_TIMEOUT
      /\ \A u \in Thread \ {t} : used'[u] = used[u] /\ state'[u] = state[u] /\ wakeup_time'[u] = wakeup_time[u]
  BY <1>1, <1>2
<1>4. ~TimedOut(t) /\ \A u \in Thread : TimedOut(u)' <=> TimedOut(u)
  BY <1>1 DEF TimedOut, TimeInv, TimeoutInvariant
<1>5. \A u \in Thread : TimedOut(u)' <=> used'[u] /\ state'[u] = "STOPPED" /\ wakeup_time'[u] # NO_TIMEOUT
  BY <1>3, <1>4 DEF TimeInv, TimeoutInvariant
<1>6. \A k \in DOMAIN TIMEOUT_LIST :
         TIMEOUT_LIST[k] \in Thread /\ wakeup_time'[TIMEOUT_LIST[k]] = wakeup_time[TIMEOUT_LIST[k]]
  <2> TAKE k \in DOMAIN TIMEOUT_LIST
  <2>1. TIMEOUT_LIST[k] \in Thread /\ TimedOut(TIMEOUT_LIST[k])
    BY <1>2 DEF TimedOut, ToSet
  <2> QED BY <1>3, <1>4, <2>1
<1>7. TimeoutInvariant'
  BY <1>1, <1>5, <1>6 DEF TimeInv, TimeoutInvariant
<1>8. AwakeNoDeadline'
  BY <1>3 DEF TimeInv, AwakeNoDeadline
<1> QED BY <1>7, <1>8 DEF TimeInv

LEMMA TimeInvStep ==
    ASSUME NoReservedDeadline, IInv, TimeInv, [Next]_vars
    PROVE  TimeInv'
<1> USE ConstantFacts
<1>0. TypeOK
  BY DEF IInv
<1>1. CASE used' = used /\ state' = state /\ TIMEOUT_LIST' = TIMEOUT_LIST /\ wakeup_time' = wakeup_time
  BY <1>1, TimeInvAwake
<1>2. CASE KernelLock \/ KernelUnlock \/ IdleCheck \/ cpu_core_halt \/ SerialWake \/ HaltLoop \/ ClockTick
          \/ UNCHANGED vars
  BY <1>1, <1>2 DEF KernelLock, KernelUnlock, IdleCheck, cpu_core_halt, SerialWake, HaltLoop,
                    ClockTick, vars, tcb
<1>3. CASE SelectFallback \/ \E q \in Queue : SelectQueued(q)
  BY <1>1, <1>3 DEF SelectFallback, SelectQueued, tcb
<1>4. CASE \E t \in Thread : SpawnThread(t)
  BY <1>0, <1>4, TimeInvSpawn
<1>5. CASE \E t \in Thread : Wakeup(t)
  BY <1>0, <1>5, TimeInvMakeReady DEF Wakeup
<1>6. CASE WakeExpired
  <2>1. sched_make_ready(Head(TIMEOUT_LIST)) /\ used' = used /\ TIMEOUT_LIST # << >>
    BY <1>6 DEF WakeExpired, HeadExpired
  <2>2. Head(TIMEOUT_LIST) \in Thread /\ 1 \in DOMAIN TIMEOUT_LIST /\ Head(TIMEOUT_LIST) = TIMEOUT_LIST[1]
    BY <1>0, <2>1 DEF TypeOK
  <2>3. used[Head(TIMEOUT_LIST)]
    <3>1. TimedOut(Head(TIMEOUT_LIST))
      BY <2>2 DEF TimedOut, ToSet
    <3> QED BY <2>2, <3>1 DEF TimeInv, TimeoutInvariant
  <2> QED BY <1>0, <2>1, <2>2, <2>3, TimeInvMakeReady
<1>7. CASE Gain \/ ThreadStart
  <2>1. Pending /\ gain
    BY <1>7 DEF Gain, ThreadStart, Pending
  <2> QED BY <2>1, TimeInvGain
<1>8. CASE Interrupt \/ IdleYield \/ Exit \/ \E c \in Causes : YieldCall(c)
  <2>1. /\ stage = "run" /\ TIMEOUT_LIST' = TIMEOUT_LIST /\ wakeup_time' = wakeup_time
        /\ \E cause \in SCHED_CAUSE, st \in {state[current], "EXITED"} : yield(cause, st)
    <3>1. "QUANTUM" \in SCHED_CAUSE /\ "IDLE" \in SCHED_CAUSE /\ "USER" \in SCHED_CAUSE
      BY DEF SCHED_CAUSE
    <3> QED BY <1>8, <3>1 DEF Interrupt, Ie, IdleYield, IdleAt, Exit, YieldCall, Executing
  <2> QED BY <2>1, TimeInvYield
<1>9. CASE \E c \in Causes, d \in Timeouts : Sleep(c, d)
  BY <1>9, TimeInvSleep
<1> QED
  BY <1>2, <1>3, <1>4, <1>5, <1>6, <1>7, <1>8, <1>9 DEF Next, ThreadStep, SchedStep, IdleStep

(***************************************************************************)
(* The timeout list holds exactly the sleepers with a deadline, once each  *)
(* and in order, also with late alarms and when deadlines wrap, as long as *)
(* none falls on the reserved value.  One that did would be in the list    *)
(* with nothing to say so: sched_make_ready would leave it there.          *)
(***************************************************************************)
THEOREM TimeoutSafe ==
    ASSUME NoReservedDeadline
    PROVE  Spec => []TimeoutInvariant
<1>1. IInv /\ TimeInv /\ [Next]_vars => TimeInv'
  BY TimeInvStep
<1>2. TimeInv => TimeoutInvariant
  BY DEF TimeInv
<1> QED BY IInvInit, IInvStep, TimeInvInit, <1>1, <1>2, PTL DEF Spec

=============================================================================
