----------------------------- MODULE CondVarProofs -----------------------------
(***************************************************************************)
(* Proofs about condition variables and the kernel lock of the legacy      *)
(* kernel, for every set of threads, with and without timeouts.            *)
(***************************************************************************)
EXTENDS CondVar, Integers, SequenceTheorems, TLAPS

-----------------------------------------------------------------------------
(* Sequences without repetition: the ring of a condition's waiters.        *)

Once(s)   == \A i, j \in DOMAIN s : s[i] = s[j] => i = j
Has(s, x) == \E i \in DOMAIN s : s[i] = x

\* A new element at the end.
LEMMA AppendOnce ==
    ASSUME NEW T, NEW s \in Seq(T), NEW t \in T, Once(s), ~Has(s, t)
    PROVE  /\ Append(s, t) \in Seq(T)
           /\ Once(Append(s, t))
           /\ \A u : Has(Append(s, t), u) <=> Has(s, u) \/ u = t
<1>1. /\ Append(s, t) \in Seq(T)
      /\ Len(s) \in Nat /\ DOMAIN s = 1..Len(s) /\ DOMAIN Append(s, t) = 1..Len(s)+1
      /\ Append(s, t)[Len(s)+1] = t /\ \A i \in 1..Len(s) : Append(s, t)[i] = s[i]
  OBVIOUS
<1>2. \A i \in 1..Len(s)+1 : i \in 1..Len(s) \/ i = Len(s)+1
  BY <1>1
<1>3. Once(Append(s, t))
  BY <1>1, <1>2 DEF Once, Has
<1>4. ASSUME NEW u PROVE Has(Append(s, t), u) <=> Has(s, u) \/ u = t
  BY <1>1, <1>2 DEF Has
<1> QED BY <1>1, <1>3, <1>4

\* The first element is taken.
LEMMA TailOnce ==
    ASSUME NEW T, NEW s \in Seq(T), s # <<>>, Once(s)
    PROVE  /\ Head(s) \in T /\ Has(s, Head(s))
           /\ Tail(s) \in Seq(T)
           /\ Once(Tail(s))
           /\ \A u : Has(Tail(s), u) <=> Has(s, u) /\ u # Head(s)
<1>1. /\ Tail(s) \in Seq(T) /\ Head(s) = s[1] /\ Head(s) \in T
      /\ Len(s) \in Nat \ {0} /\ DOMAIN s = 1..Len(s) /\ DOMAIN Tail(s) = 1..Len(s)-1
      /\ \A i \in 1..Len(s)-1 : Tail(s)[i] = s[i+1]
  OBVIOUS
<1>2. /\ \A i \in 1..Len(s)-1 : i+1 \in 1..Len(s) /\ i+1 # 1
      /\ \A i \in 1..Len(s) : i = 1 \/ (i-1 \in 1..Len(s)-1 /\ (i-1)+1 = i)
      /\ \A i, j \in 1..Len(s)-1 : i+1 = j+1 => i = j
      /\ 1 \in 1..Len(s)
  BY <1>1
<1>3. Once(Tail(s))
  BY <1>1, <1>2 DEF Once
<1>4. ASSUME NEW u PROVE Has(Tail(s), u) => Has(s, u) /\ u # Head(s)
  BY <1>1, <1>2 DEF Has, Once
<1>5. ASSUME NEW u, Has(s, u), u # Head(s) PROVE Has(Tail(s), u)
  <2>1. PICK i \in 1..Len(s) : s[i] = u
    BY <1>1, <1>5 DEF Has
  <2>2. i-1 \in 1..Len(s)-1 /\ Tail(s)[i-1] = u
    BY <1>1, <1>2, <1>5, <2>1
  <2> QED BY <1>1, <2>2 DEF Has
<1>6. Has(s, Head(s))
  BY <1>1, <1>2 DEF Has
<1> QED BY <1>1, <1>3, <1>4, <1>5, <1>6

\* An element is taken from wherever it is.
LEMMA RemoveOnce ==
    ASSUME NEW T, NEW s \in Seq(T), NEW t \in T, Once(s), Has(s, t)
    PROVE  /\ RemoveFirst(s, t) \in Seq(T)
           /\ Once(RemoveFirst(s, t))
           /\ \A u : Has(RemoveFirst(s, t), u) <=> Has(s, u) /\ u # t
<1>1. PICK j \in DOMAIN s : s[j] = t
  BY DEF Has
<1> DEFINE r == RemoveAt(s, j)
           a == SubSeq(s, 1, j-1)
           b == SubSeq(s, j+1, Len(s))
           I == {i \in 1..Len(s) : s[i] = t}
<1>2. Len(s) \in Nat /\ DOMAIN s = 1..Len(s) /\ j \in 1..Len(s)
  OBVIOUS
<1>3. I = {j}
  BY <1>1, <1>2 DEF Once
<1>4. RemoveFirst(s, t) = r
  <2>1. Min({j}) = j
    BY <1>2 DEF Min
  <2> QED BY <1>1, <1>2, <1>3, <2>1 DEF RemoveFirst, SelectInSeq
<1> HIDE DEF I
<1>5. a \in Seq(T) /\ Len(a) = j-1 /\ \A i \in 1..j-1 : a[i] = s[i]
  BY <1>2
<1>6. b \in Seq(T) /\ Len(b) = Len(s)-j /\ \A i \in 1..Len(s)-j : b[i] = s[j+i]
  BY <1>2
<1>7. r = a \o b
  BY DEF RemoveAt
<1> HIDE DEF a, b
<1>8. /\ r \in Seq(T) /\ Len(r) = Len(a) + Len(b)
      /\ \A i \in 1..Len(a)+Len(b) : r[i] = IF i <= Len(a) THEN a[i] ELSE b[i-Len(a)]
  BY <1>5, <1>6, <1>7, ConcatProperties
<1> HIDE DEF r
<1>9. DOMAIN r = 1..Len(s)-1
  BY <1>2, <1>5, <1>6, <1>8
<1>10. ASSUME NEW k \in 1..Len(s)-1 PROVE r[k] = s[IF k < j THEN k ELSE k+1]
  <2>1. CASE k < j
    <3>1. k \in 1..j-1 /\ k \in 1..Len(a)+Len(b) /\ k <= Len(a)
      BY <1>2, <1>5, <1>6, <2>1
    <3> QED BY <1>5, <1>8, <2>1, <3>1
  <2>2. CASE ~(k < j)
    <3>1. /\ k \in 1..Len(a)+Len(b) /\ ~(k <= Len(a))
          /\ k-Len(a) \in 1..Len(s)-j /\ j+(k-Len(a)) = k+1
      BY <1>2, <1>5, <1>6, <2>2
    <3> QED BY <1>6, <1>8, <2>2, <3>1
  <2> QED BY <2>1, <2>2
<1>11. /\ \A k \in 1..Len(s)-1 : (IF k < j THEN k ELSE k+1) \in 1..Len(s) \ {j}
       /\ \A k, l \in 1..Len(s)-1 :
             (IF k < j THEN k ELSE k+1) = (IF l < j THEN l ELSE l+1) => k = l
       /\ \A i \in 1..Len(s) \ {j} :
             \E k \in 1..Len(s)-1 : i = IF k < j THEN k ELSE k+1
  <2>1. ASSUME NEW i \in 1..Len(s) \ {j}
        PROVE  \E k \in 1..Len(s)-1 : i = IF k < j THEN k ELSE k+1
    <3>1. CASE i < j
      <4>1. i \in 1..Len(s)-1 /\ i = IF i < j THEN i ELSE i+1
        BY <1>2, <3>1
      <4> QED BY <4>1
    <3>2. CASE i > j
      <4>1. i-1 \in 1..Len(s)-1 /\ i = IF i-1 < j THEN i-1 ELSE (i-1)+1
        BY <1>2, <3>2
      <4> QED BY <4>1
    <3> QED BY <1>2, <3>1, <3>2
  <2>2. \A k \in 1..Len(s)-1 : (IF k < j THEN k ELSE k+1) \in 1..Len(s) \ {j}
    BY <1>2
  <2>3. \A k, l \in 1..Len(s)-1 :
             (IF k < j THEN k ELSE k+1) = (IF l < j THEN l ELSE l+1) => k = l
    BY <1>2
  <2> QED BY <2>1, <2>2, <2>3
<1>12. Once(r)
  BY <1>2, <1>9, <1>10, <1>11 DEF Once
<1>13. ASSUME NEW u PROVE Has(r, u) => Has(s, u) /\ u # t
  BY <1>1, <1>2, <1>9, <1>10, <1>11 DEF Has, Once
<1>14. ASSUME NEW u, Has(s, u), u # t PROVE Has(r, u)
  <2>1. PICK i \in 1..Len(s) \ {j} : s[i] = u
    BY <1>1, <1>2, <1>14 DEF Has
  <2>2. PICK k \in 1..Len(s)-1 : i = IF k < j THEN k ELSE k+1
    BY <1>11
  <2> QED BY <1>9, <1>10, <2>1, <2>2 DEF Has
<1> QED BY <1>4, <1>8, <1>12, <1>13, <1>14

-----------------------------------------------------------------------------
(* The inductive invariant                                                 *)

Waiting    == {"wait_unlock", "wait_sleep", "wait_wake"}
Signalling == {"signal", "broadcast", "one", "all"}
Places     == {"out", "check", "recheck", "in", "unlock", "cond_wait", "exit", "gone",
               "wait", "wait_lock"} \cup Waiting \cup Signalling

TypeOK ==
    /\ kernel_mutex \in Threads \cup {Free}
    /\ kernel_sem \in {0, 1}
    /\ waitset \in [Conds -> Seq(Threads)]
    /\ waitset_lock \in [Conds -> Threads \cup {Free}]
    /\ state \in [Threads -> {"RUNNING", "STOPPED"}]
    /\ waiter \in [Threads -> [signalled : BOOLEAN, removed : BOOLEAN]]
    /\ pc \in [Threads -> Places]
    /\ cv \in [Threads -> Conds]
    /\ then \in [Threads -> Places]
    /\ timed \in [Threads -> {FALSE, Timed}]

\* Who holds kernel_mutex, and who holds the waitset_lock of its condition.
HoldsMutex(t) == \/ pc[t] \in {"check", "recheck", "wait", "wait_unlock", "unlock", "cond_wait",
                               "exit"}
                 \/ pc[t] \in Signalling /\ cv[t] = SEM
HoldsLock(t)  == pc[t] \in {"wait_unlock", "wait_sleep", "one", "all"}

MutexExact == \A t \in Threads : HoldsMutex(t) <=> kernel_mutex = t
LockExact  == \A t \in Threads, c \in Conds :
                  HoldsLock(t) /\ cv[t] = c <=> waitset_lock[c] = t

\* Where cv_wait and cv_signal return to.
ThenExact ==
    \A t \in Threads :
        /\ InWait(t) => then[t] = "recheck" \/ (then[t] = "check" /\ cv[t] = SEM)
        /\ pc[t] \in Signalling =>
              IF cv[t] = SEM THEN then[t] \in {"unlock", "cond_wait", "exit"}
              ELSE then[t] = "in"
        /\ pc[t] = "cond_wait" => cv[t] = SEM /\ then[t] = "cond_wait"
        /\ then[t] = "cond_wait" => pc[t] \in Signalling \cup {"cond_wait"}

\* The ring holds, once each, exactly the waiters that no one has removed.
InRing(t) == pc[t] \in Waiting /\ ~waiter[t].removed
RingOnce  == \A c \in Conds : Once(waitset[c])
RingExact == \A t \in Threads, c \in Conds :
                 InRing(t) /\ cv[t] = c <=> Has(waitset[c], t)

\* A stopped thread is asleep in cv_wait, and neither removed nor signalled; no
\* waiter is removed before its thread sleeps.
StoppedExact == \A t \in Threads :
                    /\ pc[t] \in {"wait_unlock", "wait_sleep"} => ~waiter[t].removed
                    /\ state[t] = "STOPPED" => pc[t] = "wait_wake" /\ InRing(t)
                    /\ InRing(t) => ~waiter[t].signalled

(***************************************************************************)
(* WaitSound is not inductive.  That the thread a signal takes from the    *)
(* ring has come to sleep needs who holds waitset_lock; that cv_wait       *)
(* returns with kernel_mutex where the mutex is expected needs who holds   *)
(* it and where each call returns to; that no stopped thread is left       *)
(* behind needs that the ring holds every waiter that is not removed.      *)
(***************************************************************************)
Inv == /\ TypeOK
       /\ MutexExact
       /\ LockExact
       /\ ThenExact
       /\ RingOnce
       /\ RingExact
       /\ StoppedExact
       /\ KernelExclusive

-----------------------------------------------------------------------------
(* Every step keeps the invariant                                          *)

LEMMA WaitEnqueueKeeps ==
    ASSUME Inv, NEW t \in Threads, WaitEnqueue(t)
    PROVE  Inv'
<1> USE CondVarAssumption, FreeAssumption
    DEF Inv, TypeOK, Conds, SEM, COND, Places, Waiting, Signalling, Goes, Calls, locks, local
<1>a. cv[t] \in Conds /\ waitset[cv[t]] \in Seq(Threads)
  OBVIOUS
<1>b. Once(waitset[cv[t]]) /\ ~Has(waitset[cv[t]], t)
  BY DEF WaitEnqueue, RingOnce, RingExact, InRing
<1>c. /\ Append(waitset[cv[t]], t) \in Seq(Threads)
      /\ Once(Append(waitset[cv[t]], t))
      /\ \A u : Has(Append(waitset[cv[t]], t), u) <=> Has(waitset[cv[t]], u) \/ u = t
  BY <1>a, <1>b, AppendOnce
<1>1. TypeOK'
  BY <1>c DEF WaitEnqueue
<1>2. MutexExact'
  BY DEF WaitEnqueue, MutexExact, HoldsMutex
<1>3. LockExact'
  BY DEF WaitEnqueue, LockExact, HoldsLock
<1>4. ThenExact'
  BY DEF WaitEnqueue, ThenExact, InWait
<1>5. RingOnce'
  BY <1>c DEF WaitEnqueue, RingOnce
<1>6. RingExact'
  BY <1>c DEF WaitEnqueue, RingExact, InRing
<1>7. StoppedExact'
  BY DEF WaitEnqueue, StoppedExact, InRing
<1>8. KernelExclusive'
  BY DEF WaitEnqueue, KernelExclusive, Inside
<1> QED BY <1>1, <1>2, <1>3, <1>4, <1>5, <1>6, <1>7, <1>8 DEF Inv

LEMMA WaitUnlockKeeps ==
    ASSUME Inv, NEW t \in Threads, WaitUnlock(t)
    PROVE  Inv'
<1> USE CondVarAssumption, FreeAssumption
    DEF Inv, TypeOK, Conds, SEM, COND, Places, Waiting, Signalling, Goes, Calls, locks, local
<1>1. TypeOK'
  BY DEF WaitUnlock
<1>2. MutexExact'
  BY DEF WaitUnlock, MutexExact, HoldsMutex
<1>3. LockExact'
  BY DEF WaitUnlock, LockExact, HoldsLock
<1>4. ThenExact'
  BY DEF WaitUnlock, ThenExact, InWait
<1>5. RingOnce'
  BY DEF WaitUnlock, RingOnce
<1>6. RingExact'
  BY DEF WaitUnlock, RingExact, InRing
<1>7. StoppedExact'
  BY DEF WaitUnlock, StoppedExact, InRing
<1>8. KernelExclusive'
  BY DEF WaitUnlock, KernelExclusive, Inside
<1> QED BY <1>1, <1>2, <1>3, <1>4, <1>5, <1>6, <1>7, <1>8 DEF Inv

LEMMA WaitSleepKeeps ==
    ASSUME Inv, NEW t \in Threads, WaitSleep(t)
    PROVE  Inv'
<1> USE CondVarAssumption, FreeAssumption
    DEF Inv, TypeOK, Conds, SEM, COND, Places, Waiting, Signalling, Goes, Calls, locks, local
<1>1. TypeOK'
  BY DEF WaitSleep
<1>2. MutexExact'
  BY DEF WaitSleep, MutexExact, HoldsMutex
<1>3. LockExact'
  BY DEF WaitSleep, LockExact, HoldsLock
<1>4. ThenExact'
  BY DEF WaitSleep, ThenExact, InWait
<1>5. RingOnce'
  BY DEF WaitSleep, RingOnce
<1>6. RingExact'
  BY DEF WaitSleep, RingExact, InRing
<1>7. StoppedExact'
  BY DEF WaitSleep, StoppedExact, InRing
<1>8. KernelExclusive'
  BY DEF WaitSleep, KernelExclusive, Inside
<1> QED BY <1>1, <1>2, <1>3, <1>4, <1>5, <1>6, <1>7, <1>8 DEF Inv

LEMMA TimeoutKeeps ==
    ASSUME Inv, NEW t \in Threads, Timeout(t)
    PROVE  Inv'
<1> USE CondVarAssumption, FreeAssumption
    DEF Inv, TypeOK, Conds, SEM, COND, Places, Waiting, Signalling, Goes, Calls, locks, local
<1>1. TypeOK'
  BY DEF Timeout
<1>2. MutexExact'
  BY DEF Timeout, MutexExact, HoldsMutex
<1>3. LockExact'
  BY DEF Timeout, LockExact, HoldsLock
<1>4. ThenExact'
  BY DEF Timeout, ThenExact, InWait
<1>5. RingOnce'
  BY DEF Timeout, RingOnce
<1>6. RingExact'
  BY DEF Timeout, RingExact, InRing
<1>7. StoppedExact'
  BY DEF Timeout, StoppedExact, InRing
<1>8. KernelExclusive'
  BY DEF Timeout, KernelExclusive, Inside
<1> QED BY <1>1, <1>2, <1>3, <1>4, <1>5, <1>6, <1>7, <1>8 DEF Inv

LEMMA WaitTidyKeeps ==
    ASSUME Inv, NEW t \in Threads, WaitTidy(t)
    PROVE  Inv'
<1> USE CondVarAssumption, FreeAssumption
    DEF Inv, TypeOK, Conds, SEM, COND, Places, Waiting, Signalling, Goes, Calls, locks, local
<1>a. cv[t] \in Conds /\ waitset[cv[t]] \in Seq(Threads)
  OBVIOUS
<1>b. ASSUME ~waiter[t].removed
      PROVE  /\ RemoveFirst(waitset[cv[t]], t) \in Seq(Threads)
             /\ Once(RemoveFirst(waitset[cv[t]], t))
             /\ \A u : Has(RemoveFirst(waitset[cv[t]], t), u) <=> Has(waitset[cv[t]], u) /\ u # t
  <2>1. Once(waitset[cv[t]]) /\ Has(waitset[cv[t]], t)
    BY <1>b DEF WaitTidy, RingOnce, RingExact, InRing
  <2> QED BY <1>a, <2>1, RemoveOnce
<1>1. TypeOK'
  BY <1>b DEF WaitTidy
<1>2. MutexExact'
  BY DEF WaitTidy, MutexExact, HoldsMutex
<1>3. LockExact'
  BY DEF WaitTidy, LockExact, HoldsLock
<1>4. ThenExact'
  BY DEF WaitTidy, ThenExact, InWait
<1>5. RingOnce'
  BY <1>b DEF WaitTidy, RingOnce
<1>6. RingExact'
  BY <1>b DEF WaitTidy, RingExact, InRing
<1>7. StoppedExact'
  BY DEF WaitTidy, StoppedExact, InRing
<1>8. KernelExclusive'
  BY DEF WaitTidy, KernelExclusive, Inside
<1> QED BY <1>1, <1>2, <1>3, <1>4, <1>5, <1>6, <1>7, <1>8 DEF Inv

LEMMA WaitReturnKeeps ==
    ASSUME Inv, NEW t \in Threads, WaitReturn(t)
    PROVE  Inv'
<1> USE CondVarAssumption, FreeAssumption
    DEF Inv, TypeOK, Conds, SEM, COND, Places, Waiting, Signalling, Goes, Calls, locks, local
<1>a. then[t] \in {"check", "recheck"}
  BY DEF WaitReturn, ThenExact, InWait
<1>1. TypeOK'
  BY <1>a DEF WaitReturn
<1>2. MutexExact'
  BY <1>a DEF WaitReturn, MutexExact, HoldsMutex
<1>3. LockExact'
  BY <1>a DEF WaitReturn, LockExact, HoldsLock
<1>4. ThenExact'
  BY <1>a DEF WaitReturn, ThenExact, InWait
<1>5. RingOnce'
  BY <1>a DEF WaitReturn, RingOnce
<1>6. RingExact'
  BY <1>a DEF WaitReturn, RingExact, InRing
<1>7. StoppedExact'
  BY <1>a DEF WaitReturn, StoppedExact, InRing
<1>8. KernelExclusive'
  BY <1>a DEF WaitReturn, KernelExclusive, Inside
<1> QED BY <1>1, <1>2, <1>3, <1>4, <1>5, <1>6, <1>7, <1>8 DEF Inv

LEMMA SignalLockKeeps ==
    ASSUME Inv, NEW t \in Threads, SignalLock(t)
    PROVE  Inv'
<1> USE CondVarAssumption, FreeAssumption
    DEF Inv, TypeOK, Conds, SEM, COND, Places, Waiting, Signalling, Goes, Calls, locks, local
<1>1. TypeOK'
  BY DEF SignalLock
<1>2. MutexExact'
  BY DEF SignalLock, MutexExact, HoldsMutex
<1>3. LockExact'
  BY DEF SignalLock, LockExact, HoldsLock
<1>4. ThenExact'
  BY DEF SignalLock, ThenExact, InWait
<1>5. RingOnce'
  BY DEF SignalLock, RingOnce
<1>6. RingExact'
  BY DEF SignalLock, RingExact, InRing
<1>7. StoppedExact'
  BY DEF SignalLock, StoppedExact, InRing
<1>8. KernelExclusive'
  BY DEF SignalLock, KernelExclusive, Inside
<1> QED BY <1>1, <1>2, <1>3, <1>4, <1>5, <1>6, <1>7, <1>8 DEF Inv

(***************************************************************************)
(* The waiter that a signal takes sleeps, or has woken by itself: it holds *)
(* no lock, so it is not the signaller nor on its way into the ring.       *)
(***************************************************************************)
LEMMA SignalOneKeeps ==
    ASSUME Inv, NEW t \in Threads, SignalOne(t)
    PROVE  Inv'
<1> USE CondVarAssumption, FreeAssumption
    DEF Inv, TypeOK, Conds, SEM, COND, Places, Waiting, Signalling, Goes, Calls, locks, local
<1> DEFINE w == Head(waitset[cv[t]])
<1>a. cv[t] \in Conds /\ waitset[cv[t]] \in Seq(Threads) /\ waitset[cv[t]] # <<>>
  BY DEF SignalOne
<1>b. /\ w \in Threads /\ Has(waitset[cv[t]], w)
      /\ Tail(waitset[cv[t]]) \in Seq(Threads)
      /\ Once(Tail(waitset[cv[t]]))
      /\ \A u : Has(Tail(waitset[cv[t]]), u) <=> Has(waitset[cv[t]], u) /\ u # w
  BY <1>a, TailOnce DEF RingOnce
<1>c. w # t /\ pc[w] = "wait_wake" /\ cv[w] = cv[t] /\ ~waiter[w].removed
  <2>1. InRing(w) /\ cv[w] = cv[t]
    BY <1>a, <1>b DEF RingExact
  <2> QED BY <1>b, <2>1 DEF SignalOne, InRing, LockExact, HoldsLock
<1>d. IF cv[t] = SEM THEN then[t] \in {"unlock", "cond_wait", "exit"} ELSE then[t] = "in"
  BY DEF SignalOne, ThenExact
<1>e. /\ waitset' = [waitset EXCEPT ![cv[t]] = Tail(@)]
      /\ waiter' = [waiter EXCEPT ![w] = [signalled |-> state[w] = "STOPPED", removed |-> TRUE]]
      /\ state' = [state EXCEPT ![w] = "RUNNING"]
      /\ pc[t] \in {"one", "all"}
      /\ \/ pc' = [pc EXCEPT ![t] = then[t]] /\ waitset_lock' = [waitset_lock EXCEPT ![cv[t]] = Free]
         \/ pc' = pc /\ waitset_lock' = waitset_lock
      /\ UNCHANGED <<cv, then, kernel_mutex, kernel_sem, timed>>
  BY DEF SignalOne
<1> HIDE DEF w
<1>f. waiter' \in [Threads -> [signalled : BOOLEAN, removed : BOOLEAN]]
  <2>1. [signalled |-> state[w] = "STOPPED", removed |-> TRUE]
            \in [signalled : BOOLEAN, removed : BOOLEAN]
    OBVIOUS
  <2> HIDE DEF Conds, Places
  <2> QED BY <1>b, <1>e, <2>1
<1>g. waitset' \in [Conds -> Seq(Threads)]
  BY <1>a, <1>b, <1>e
<1>1. TypeOK'
  <2>1. pc' \in [Threads -> Places]
    <3>1. pc \in [Threads -> Places] /\ then[t] \in Places
      OBVIOUS
    <3> HIDE DEF Inv, TypeOK, Places, Conds
    <3> QED BY <1>e, <3>1
  <2>2. waitset_lock' \in [Conds -> Threads \cup {Free}]
    BY <1>e
  <2>3. state' \in [Threads -> {"RUNNING", "STOPPED"}]
    BY <1>b, <1>e
  <2> HIDE DEF Places, Conds
  <2> QED BY <1>e, <1>f, <1>g, <2>1, <2>2, <2>3
<1>2. MutexExact'
  BY <1>b, <1>c, <1>d, <1>e DEF MutexExact, HoldsMutex
<1>3. LockExact'
  BY <1>b, <1>c, <1>d, <1>e DEF LockExact, HoldsLock
<1>4. ThenExact'
  BY <1>b, <1>c, <1>d, <1>e DEF ThenExact, InWait
<1>5. RingOnce'
  BY <1>b, <1>c, <1>d, <1>e DEF RingOnce
<1>6. RingExact'
  BY <1>b, <1>c, <1>d, <1>e DEF RingExact, InRing
<1>7. StoppedExact'
  BY <1>b, <1>c, <1>d, <1>e DEF StoppedExact, InRing
<1>8. KernelExclusive'
  BY <1>b, <1>c, <1>d, <1>e DEF KernelExclusive, Inside
<1> QED BY <1>1, <1>2, <1>3, <1>4, <1>5, <1>6, <1>7, <1>8 DEF Inv

LEMMA SignalNoneKeeps ==
    ASSUME Inv, NEW t \in Threads, SignalNone(t)
    PROVE  Inv'
<1> USE CondVarAssumption, FreeAssumption
    DEF Inv, TypeOK, Conds, SEM, COND, Places, Waiting, Signalling, Goes, Calls, locks, local
<1>a. IF cv[t] = SEM THEN then[t] \in {"unlock", "cond_wait", "exit"} ELSE then[t] = "in"
  BY DEF SignalNone, ThenExact
<1>1. TypeOK'
  BY <1>a DEF SignalNone
<1>2. MutexExact'
  BY <1>a DEF SignalNone, MutexExact, HoldsMutex
<1>3. LockExact'
  BY <1>a DEF SignalNone, LockExact, HoldsLock
<1>4. ThenExact'
  BY <1>a DEF SignalNone, ThenExact, InWait
<1>5. RingOnce'
  BY <1>a DEF SignalNone, RingOnce
<1>6. RingExact'
  BY <1>a DEF SignalNone, RingExact, InRing
<1>7. StoppedExact'
  BY <1>a DEF SignalNone, StoppedExact, InRing
<1>8. KernelExclusive'
  BY <1>a DEF SignalNone, KernelExclusive, Inside
<1> QED BY <1>1, <1>2, <1>3, <1>4, <1>5, <1>6, <1>7, <1>8 DEF Inv

LEMMA KernelLockKeeps ==
    ASSUME Inv, NEW t \in Threads, KernelLock(t)
    PROVE  Inv'
<1> USE CondVarAssumption, FreeAssumption
    DEF Inv, TypeOK, Conds, SEM, COND, Places, Waiting, Signalling, Goes, Calls, locks, local
<1>1. TypeOK'
  BY DEF KernelLock
<1>2. MutexExact'
  BY DEF KernelLock, MutexExact, HoldsMutex
<1>3. LockExact'
  BY DEF KernelLock, LockExact, HoldsLock
<1>4. ThenExact'
  BY DEF KernelLock, ThenExact, InWait
<1>5. RingOnce'
  BY DEF KernelLock, RingOnce
<1>6. RingExact'
  BY DEF KernelLock, RingExact, InRing
<1>7. StoppedExact'
  BY DEF KernelLock, StoppedExact, InRing
<1>8. KernelExclusive'
  BY DEF KernelLock, KernelExclusive, Inside
<1> QED BY <1>1, <1>2, <1>3, <1>4, <1>5, <1>6, <1>7, <1>8 DEF Inv

LEMMA CheckTakeKeeps ==
    ASSUME Inv, NEW t \in Threads, CheckTake(t)
    PROVE  Inv'
<1> USE CondVarAssumption, FreeAssumption
    DEF Inv, TypeOK, Conds, SEM, COND, Places, Waiting, Signalling, Goes, Calls, locks, local
<1>a. kernel_sem = 1 /\ kernel_sem' = 0
  BY DEF CheckTake
<1>1. TypeOK'
  BY <1>a DEF CheckTake
<1>2. MutexExact'
  BY <1>a DEF CheckTake, MutexExact, HoldsMutex
<1>3. LockExact'
  BY <1>a DEF CheckTake, LockExact, HoldsLock
<1>4. ThenExact'
  BY <1>a DEF CheckTake, ThenExact, InWait
<1>5. RingOnce'
  BY <1>a DEF CheckTake, RingOnce
<1>6. RingExact'
  BY <1>a DEF CheckTake, RingExact, InRing
<1>7. StoppedExact'
  BY <1>a DEF CheckTake, StoppedExact, InRing
<1>8. KernelExclusive'
  BY <1>a DEF CheckTake, KernelExclusive, Inside
<1> QED BY <1>1, <1>2, <1>3, <1>4, <1>5, <1>6, <1>7, <1>8 DEF Inv

LEMMA CheckWaitKeeps ==
    ASSUME Inv, NEW t \in Threads, CheckWait(t)
    PROVE  Inv'
<1> USE CondVarAssumption, FreeAssumption
    DEF Inv, TypeOK, Conds, SEM, COND, Places, Waiting, Signalling, Goes, Calls, locks, local
<1>1. TypeOK'
  BY DEF CheckWait
<1>2. MutexExact'
  BY DEF CheckWait, MutexExact, HoldsMutex
<1>3. LockExact'
  BY DEF CheckWait, LockExact, HoldsLock
<1>4. ThenExact'
  BY DEF CheckWait, ThenExact, InWait
<1>5. RingOnce'
  BY DEF CheckWait, RingOnce
<1>6. RingExact'
  BY DEF CheckWait, RingExact, InRing
<1>7. StoppedExact'
  BY DEF CheckWait, StoppedExact, InRing
<1>8. KernelExclusive'
  BY DEF CheckWait, KernelExclusive, Inside
<1> QED BY <1>1, <1>2, <1>3, <1>4, <1>5, <1>6, <1>7, <1>8 DEF Inv

LEMMA GiveUpKeeps ==
    ASSUME Inv, NEW t \in Threads, NEW ret \in {"unlock", "cond_wait", "exit"}, GiveUp(t, ret),
           UNCHANGED <<state, waiter>>,
           timed' = timed \/ \E b \in {FALSE, Timed} : timed' = [timed EXCEPT ![t] = b]
    PROVE  Inv'
<1> USE CondVarAssumption, FreeAssumption
    DEF Inv, TypeOK, Conds, SEM, COND, Places, Waiting, Signalling, Goes, Calls, locks, local
<1>a. kernel_sem = 0 /\ kernel_sem' = 1
  BY DEF GiveUp, KernelExclusive, Inside
<1>1. TypeOK'
  BY <1>a DEF GiveUp
<1>2. MutexExact'
  BY <1>a DEF GiveUp, MutexExact, HoldsMutex
<1>3. LockExact'
  BY <1>a DEF GiveUp, LockExact, HoldsLock
<1>4. ThenExact'
  BY <1>a DEF GiveUp, ThenExact, InWait
<1>5. RingOnce'
  BY <1>a DEF GiveUp, RingOnce
<1>6. RingExact'
  BY <1>a DEF GiveUp, RingExact, InRing
<1>7. StoppedExact'
  BY <1>a DEF GiveUp, StoppedExact, InRing
<1>8. KernelExclusive'
  BY <1>a DEF GiveUp, KernelExclusive, Inside
<1> QED BY <1>1, <1>2, <1>3, <1>4, <1>5, <1>6, <1>7, <1>8 DEF Inv

LEMMA UnlockEndKeeps ==
    ASSUME Inv, NEW t \in Threads, UnlockEnd(t)
    PROVE  Inv'
<1> USE CondVarAssumption, FreeAssumption
    DEF Inv, TypeOK, Conds, SEM, COND, Places, Waiting, Signalling, Goes, Calls, locks, local
<1>1. TypeOK'
  BY DEF UnlockEnd
<1>2. MutexExact'
  BY DEF UnlockEnd, MutexExact, HoldsMutex
<1>3. LockExact'
  BY DEF UnlockEnd, LockExact, HoldsLock
<1>4. ThenExact'
  BY DEF UnlockEnd, ThenExact, InWait
<1>5. RingOnce'
  BY DEF UnlockEnd, RingOnce
<1>6. RingExact'
  BY DEF UnlockEnd, RingExact, InRing
<1>7. StoppedExact'
  BY DEF UnlockEnd, StoppedExact, InRing
<1>8. KernelExclusive'
  BY DEF UnlockEnd, KernelExclusive, Inside
<1> QED BY <1>1, <1>2, <1>3, <1>4, <1>5, <1>6, <1>7, <1>8 DEF Inv

LEMMA KernelWaitsKeeps ==
    ASSUME Inv, NEW t \in Threads, KernelWaits(t)
    PROVE  Inv'
<1> USE CondVarAssumption, FreeAssumption
    DEF Inv, TypeOK, Conds, SEM, COND, Places, Waiting, Signalling, Goes, Calls, locks, local
<1>1. TypeOK'
  BY DEF KernelWaits
<1>2. MutexExact'
  BY DEF KernelWaits, MutexExact, HoldsMutex
<1>3. LockExact'
  BY DEF KernelWaits, LockExact, HoldsLock
<1>4. ThenExact'
  BY DEF KernelWaits, ThenExact, InWait
<1>5. RingOnce'
  BY DEF KernelWaits, RingOnce
<1>6. RingExact'
  BY DEF KernelWaits, RingExact, InRing
<1>7. StoppedExact'
  BY DEF KernelWaits, StoppedExact, InRing
<1>8. KernelExclusive'
  BY DEF KernelWaits, KernelExclusive, Inside
<1> QED BY <1>1, <1>2, <1>3, <1>4, <1>5, <1>6, <1>7, <1>8 DEF Inv

LEMMA ExitedKeeps ==
    ASSUME Inv, NEW t \in Threads, Exited(t)
    PROVE  Inv'
<1> USE CondVarAssumption, FreeAssumption
    DEF Inv, TypeOK, Conds, SEM, COND, Places, Waiting, Signalling, Goes, Calls, locks, local
<1>1. TypeOK'
  BY DEF Exited
<1>2. MutexExact'
  BY DEF Exited, MutexExact, HoldsMutex
<1>3. LockExact'
  BY DEF Exited, LockExact, HoldsLock
<1>4. ThenExact'
  BY DEF Exited, ThenExact, InWait
<1>5. RingOnce'
  BY DEF Exited, RingOnce
<1>6. RingExact'
  BY DEF Exited, RingExact, InRing
<1>7. StoppedExact'
  BY DEF Exited, StoppedExact, InRing
<1>8. KernelExclusive'
  BY DEF Exited, KernelExclusive, Inside
<1> QED BY <1>1, <1>2, <1>3, <1>4, <1>5, <1>6, <1>7, <1>8 DEF Inv

LEMMA KernelSignalKeeps ==
    ASSUME Inv, NEW t \in Threads, NEW call \in {"signal", "broadcast"}, KernelSignal(t, call)
    PROVE  Inv'
<1> USE CondVarAssumption, FreeAssumption
    DEF Inv, TypeOK, Conds, SEM, COND, Places, Waiting, Signalling, Goes, Calls, locks, local
<1>1. TypeOK'
  BY DEF KernelSignal
<1>2. MutexExact'
  BY DEF KernelSignal, MutexExact, HoldsMutex
<1>3. LockExact'
  BY DEF KernelSignal, LockExact, HoldsLock
<1>4. ThenExact'
  BY DEF KernelSignal, ThenExact, InWait
<1>5. RingOnce'
  BY DEF KernelSignal, RingOnce
<1>6. RingExact'
  BY DEF KernelSignal, RingExact, InRing
<1>7. StoppedExact'
  BY DEF KernelSignal, StoppedExact, InRing
<1>8. KernelExclusive'
  BY DEF KernelSignal, KernelExclusive, Inside
<1> QED BY <1>1, <1>2, <1>3, <1>4, <1>5, <1>6, <1>7, <1>8 DEF Inv

(***************************************************************************)
(* The invariant holds at first and is kept by every step.                 *)
(***************************************************************************)
LEMMA InitInv == Init => Inv
<1> SUFFICES ASSUME Init PROVE Inv
  OBVIOUS
<1> USE CondVarAssumption, FreeAssumption DEF Init, Conds, SEM, COND, Places, Waiting, Signalling
<1>1. TypeOK
  BY DEF TypeOK
<1>2. MutexExact /\ LockExact /\ ThenExact
  BY DEF MutexExact, HoldsMutex, LockExact, HoldsLock, ThenExact, InWait
<1>3. RingOnce /\ RingExact /\ StoppedExact
  BY DEF RingOnce, RingExact, StoppedExact, Once, Has, InRing
<1>4. KernelExclusive
  BY DEF KernelExclusive, Inside
<1> QED BY <1>1, <1>2, <1>3, <1>4 DEF Inv

LEMMA StepInv == Inv /\ [Next]_vars => Inv'
<1> SUFFICES ASSUME Inv, [Next]_vars PROVE Inv'
  OBVIOUS
<1>1. CASE UNCHANGED vars
  <2>1. TypeOK' /\ MutexExact' /\ LockExact'
    BY <1>1 DEF vars, Inv, TypeOK, MutexExact, HoldsMutex, LockExact, HoldsLock
  <2>2. ThenExact' /\ KernelExclusive'
    BY <1>1 DEF vars, Inv, ThenExact, InWait, KernelExclusive, Inside
  <2>3. RingOnce' /\ RingExact' /\ StoppedExact'
    BY <1>1 DEF vars, Inv, RingOnce, RingExact, StoppedExact, InRing
  <2> QED BY <2>1, <2>2, <2>3 DEF Inv
<1>2. ASSUME NEW t \in Threads, Progress(t)
      PROVE  Inv'
  BY <1>2, WaitEnqueueKeeps, WaitUnlockKeeps, WaitSleepKeeps, WaitTidyKeeps, WaitReturnKeeps,
     SignalLockKeeps, SignalOneKeeps, SignalNoneKeeps, CheckTakeKeeps, CheckWaitKeeps,
     UnlockEndKeeps, KernelWaitsKeeps, ExitedKeeps DEF Progress
<1>3. ASSUME NEW t \in Threads, Leave(t)
      PROVE  Inv'
  <2>1. CASE KernelUnlock(t) \/ KernelSleep(t)
    BY <2>1, GiveUpKeeps DEF KernelUnlock, KernelSleep, local
  <2>2. CASE \E b \in {FALSE, Timed} : KernelWait(t, b)
    BY <2>2, GiveUpKeeps DEF KernelWait
  <2> QED BY <1>3, <2>1, <2>2 DEF Leave
<1> QED BY <1>1, <1>2, <1>3, TimeoutKeeps, KernelLockKeeps, KernelSignalKeeps DEF Next

LEMMA InvSafe == Spec => []Inv
BY InitInv, StepInv, PTL DEF Spec

-----------------------------------------------------------------------------
(* What follows                                                            *)

LEMMA InvWaitSound == Inv => WaitSound
<1> SUFFICES ASSUME Inv PROVE WaitSound
  OBVIOUS
<1>1. NoDanglingWaiter
  <2> SUFFICES ASSUME NEW c \in Conds
               PROVE  /\ \A i, j \in DOMAIN waitset[c] : waitset[c][i] = waitset[c][j] => i = j
                      /\ \A i \in DOMAIN waitset[c] :
                            pc[waitset[c][i]] \in Waiting /\ cv[waitset[c][i]] = c
                      /\ \A t \in Threads : state[t] = "STOPPED" /\ cv[t] = c =>
                            \E i \in DOMAIN waitset[c] : waitset[c][i] = t
    BY DEF NoDanglingWaiter, Waiting
  <2>1. Once(waitset[c])
    BY DEF Inv, RingOnce
  <2>2. ASSUME NEW i \in DOMAIN waitset[c]
        PROVE  pc[waitset[c][i]] \in Waiting /\ cv[waitset[c][i]] = c
    <3>1. waitset[c][i] \in Threads /\ Has(waitset[c], waitset[c][i])
      BY DEF Inv, TypeOK, Has
    <3> QED BY <3>1 DEF Inv, RingExact, InRing
  <2>3. ASSUME NEW t \in Threads, state[t] = "STOPPED", cv[t] = c
        PROVE  Has(waitset[c], t)
    BY <2>3 DEF Inv, StoppedExact, RingExact
  <2> QED BY <2>1, <2>2, <2>3 DEF Once, Has
<1>2. SignalledIsRemoved
  BY DEF Inv, StoppedExact, InRing, Waiting, SignalledIsRemoved
<1> QED BY <1>1, <1>2 DEF Inv, WaitSound

(***************************************************************************)
(* The kernel semaphore admits one thread at a time, a ring holds only     *)
(* live waiters, each once, and every stopped thread is in its ring:       *)
(* whatever the interleaving of cv_wait, cv_signal and timeouts of any     *)
(* number of threads.                                                      *)
(***************************************************************************)
THEOREM WaitSafe == Spec => []WaitSound
BY InvSafe, InvWaitSound, PTL

(***************************************************************************)
(* Only two steps end a Cond_Signal, and the ring tells what they leave    *)
(* behind: one that woke a thread, or one that found the ring empty.       *)
(***************************************************************************)
LEMMA SignalStep ==
    ASSUME Inv, [Next]_vars, NEW t \in Threads, pc[t] = "one", pc'[t] # "one"
    PROVE  \/ \E w \in Threads : state[w] = "STOPPED" /\ state'[w] = "RUNNING"
           \/ \A w \in Threads : ~(state'[w] = "STOPPED" /\ cv[w] = cv[t])
<1>1. SignalOne(t) \/ SignalNone(t)
  <2>0. pc \in [Threads -> Places]
    BY DEF Inv, TypeOK
  <2>1. PICK u \in Threads :
            \/ Progress(u) \/ Timeout(u) \/ KernelLock(u) \/ Leave(u)
            \/ \E call \in {"signal", "broadcast"} : KernelSignal(u, call)
    BY DEF Next, vars
  <2>2. CASE Timeout(u) \/ KernelLock(u)
    BY <2>0, <2>2 DEF Timeout, KernelLock, Goes
  <2>3. CASE Leave(u)
    BY <2>0, <2>3 DEF Leave, KernelUnlock, KernelSleep, KernelWait, GiveUp, Calls
  <2>4. CASE \E call \in {"signal", "broadcast"} : KernelSignal(u, call)
    BY <2>0, <2>4 DEF KernelSignal, Calls
  <2>5. CASE Progress(u)
    <3>1. CASE WaitEnqueue(u) \/ WaitUnlock(u) \/ WaitSleep(u) \/ WaitTidy(u) \/ WaitReturn(u)
      BY <2>0, <3>1 DEF WaitEnqueue, WaitUnlock, WaitSleep, WaitTidy, WaitReturn, Goes
    <3>2. CASE SignalLock(u)
      BY <2>0, <3>2 DEF SignalLock, Goes
    <3>3. CASE CheckTake(u) \/ CheckWait(u) \/ UnlockEnd(u) \/ KernelWaits(u) \/ Exited(u)
      BY <2>0, <3>3 DEF CheckTake, CheckWait, UnlockEnd, KernelWaits, Exited, Goes, Calls
    <3>4. CASE SignalOne(u) \/ SignalNone(u)
      BY <2>0, <3>4 DEF SignalOne, SignalNone, Goes
    <3> QED BY <2>5, <3>1, <3>2, <3>3, <3>4 DEF Progress
  <2> QED BY <2>1, <2>2, <2>3, <2>4, <2>5
<1>2. CASE SignalOne(t)
  <2> DEFINE w == Head(waitset[cv[t]])
  <2>1. state[w] = "STOPPED" /\ state' = [state EXCEPT ![w] = "RUNNING"]
    BY <1>2 DEF SignalOne
  <2>2. w \in Threads
    BY <1>2, TailOnce DEF Inv, TypeOK, RingOnce, SignalOne
  <2> QED BY <2>1, <2>2 DEF Inv, TypeOK
<1>3. CASE SignalNone(t)
  <2>1. waitset[cv[t]] = <<>> /\ state' = state /\ cv[t] \in Conds
    BY <1>3 DEF SignalNone, local, Inv, TypeOK
  <2>2. \A w \in Threads : ~Has(waitset[cv[t]], w)
    BY <2>1 DEF Has
  <2> QED BY <2>1, <2>2 DEF Inv, StoppedExact, RingExact
<1> QED BY <1>1, <1>2, <1>3

(***************************************************************************)
(* A Cond_Signal that finds a thread stopped on its condition wakes one: a *)
(* waiter whose timeout has passed does not use the signal up.             *)
(***************************************************************************)
THEOREM SignalNeverLost == Spec => SignalNotLost
<1> DEFINE Kept == \A t \in Threads :
        pc[t] = "one" /\ pc'[t] # "one" =>
            \/ \E w \in Threads : state[w] = "STOPPED" /\ state'[w] = "RUNNING"
            \/ \A w \in Threads : ~(state'[w] = "STOPPED" /\ cv[w] = cv[t])
<1>1. Inv /\ [Next]_vars => [Kept]_vars
  BY SignalStep
<1>2. Spec => [][Kept]_vars
  BY <1>1, InvSafe, PTL DEF Spec
<1> QED BY <1>2 DEF SignalNotLost

-----------------------------------------------------------------------------
(* The kernel lock implements the monitor                                  *)

\* The place of a thread depends on its own state only.
LEMMA PlaceSame ==
    ASSUME NEW v \in Threads, pc'[v] = pc[v], cv'[v] = cv[v], then'[v] = then[v],
           state'[v] = state[v]
    PROVE  place'[v] = place[v]
BY DEF place, Inside, InWait

LEMMA PlaceMove ==
    ASSUME NEW u \in Threads, \A v \in Threads : v # u => place'[v] = place[v]
    PROVE  /\ place' = [place EXCEPT ![u] = place'[u]]
           /\ place'[u] = place[u] => place' = place
<1>1. place = [v \in Threads |-> place[v]] /\ place' = [v \in Threads |-> place'[v]]
  BY DEF place
<1> QED BY <1>1

\* Only a timeout or a signal changes the state of a thread that it is not a step of.
LEMMA StepOf ==
    ASSUME Inv, NEW u \in Threads, NEW v \in Threads, v # u,
           \/ Progress(u) /\ ~SignalOne(u)
           \/ Timeout(u) \/ KernelLock(u) \/ Leave(u)
           \/ \E call \in {"signal", "broadcast"} : KernelSignal(u, call)
    PROVE  place'[v] = place[v]
<1>0. pc \in [Threads -> Places] /\ cv \in [Threads -> Conds] /\ then \in [Threads -> Places]
      /\ state \in [Threads -> {"RUNNING", "STOPPED"}]
  BY DEF Inv, TypeOK
<1>1. pc'[v] = pc[v] /\ cv'[v] = cv[v] /\ then'[v] = then[v] /\ state'[v] = state[v]
  <2>1. CASE Timeout(u) \/ KernelLock(u)
    BY <1>0, <2>1 DEF Timeout, KernelLock, Goes, local
  <2>2. CASE Leave(u)
    BY <1>0, <2>2 DEF Leave, KernelUnlock, KernelSleep, KernelWait, GiveUp, Calls, local
  <2>3. CASE \E call \in {"signal", "broadcast"} : KernelSignal(u, call)
    BY <1>0, <2>3 DEF KernelSignal, Calls, local
  <2>4. CASE WaitEnqueue(u) \/ WaitUnlock(u) \/ WaitSleep(u) \/ WaitTidy(u) \/ WaitReturn(u)
    BY <1>0, <2>4 DEF WaitEnqueue, WaitUnlock, WaitSleep, WaitTidy, WaitReturn, Goes, local
  <2>5. CASE SignalLock(u) \/ SignalNone(u)
    BY <1>0, <2>5 DEF SignalLock, SignalNone, Goes, local
  <2>6. CASE CheckTake(u) \/ CheckWait(u) \/ UnlockEnd(u) \/ KernelWaits(u) \/ Exited(u)
    BY <1>0, <2>6 DEF CheckTake, CheckWait, UnlockEnd, KernelWaits, Exited, Goes, Calls, local
  <2> QED BY <2>1, <2>2, <2>3, <2>4, <2>5, <2>6 DEF Progress
<1> QED BY <1>1, PlaceSame

\* The steps that a monitor does not tell apart.
LEMMA SilentStep ==
    ASSUME Inv, NEW u \in Threads,
           \/ Progress(u) /\ ~SignalOne(u) /\ ~CheckTake(u)
           \/ KernelLock(u)
           \/ \E call \in {"signal", "broadcast"} : KernelSignal(u, call)
    PROVE  place'[u] = place[u]
<1> USE DEF Inv, TypeOK, ThenExact, Signalling, Conds, SEM, COND, place, Inside, InWait, Goes, Calls,
            local
<1>1. CASE KernelLock(u) \/ \E call \in {"signal", "broadcast"} : KernelSignal(u, call)
  BY <1>1 DEF KernelLock, KernelSignal
<1>2. CASE WaitEnqueue(u) \/ WaitUnlock(u) \/ WaitSleep(u)
  BY <1>2 DEF WaitEnqueue, WaitUnlock, WaitSleep, StoppedExact
<1>3. CASE WaitTidy(u) \/ WaitReturn(u)
  BY <1>3 DEF WaitTidy, WaitReturn
<1>4. CASE SignalLock(u)
  BY <1>4 DEF SignalLock
<1>5. CASE SignalNone(u)
  BY <1>5 DEF SignalNone
<1>6. CASE CheckWait(u) \/ UnlockEnd(u) \/ KernelWaits(u) \/ Exited(u)
  BY <1>6 DEF CheckWait, UnlockEnd, KernelWaits, Exited
<1> QED BY <1>1, <1>2, <1>3, <1>4, <1>5, <1>6 DEF Progress

\* Taking the semaphore is entering the monitor, and giving it up leaving or waiting.
LEMMA EnterStep ==
    ASSUME Inv, NEW u \in Threads, CheckTake(u)
    PROVE  M!Enter(u)
<1>1. kernel_sem = 1 /\ Inside = {}
  BY DEF Inv, KernelExclusive, CheckTake
<1>2. \A v \in Threads : place[v] # "in"
  BY <1>1 DEF place
<1>3. place[u] \in {"out", "notified"} /\ place'[u] = "in"
  BY <1>1 DEF Inv, TypeOK, ThenExact, Signalling, CheckTake, Goes, place, Inside, InWait
<1>4. place' = [place EXCEPT ![u] = "in"]
  BY <1>3, StepOf, PlaceMove DEF Progress, CheckTake, SignalOne, Goes
<1> QED BY <1>2, <1>3, <1>4 DEF M!Enter, M!Move

LEMMA LeaveStep ==
    ASSUME Inv, NEW u \in Threads, Leave(u)
    PROVE  M!Leave(u) \/ M!Wait(u)
<1>1. place[u] = "in" /\ place'[u] \in {"out", "waiting"}
  BY DEF Inv, TypeOK, Leave, KernelUnlock, KernelSleep, KernelWait, GiveUp, Calls, place, Inside,
         InWait, SEM, COND
<1>2. place' = [place EXCEPT ![u] = place'[u]]
  BY StepOf, PlaceMove
<1> QED BY <1>1, <1>2 DEF M!Leave, M!Wait, M!Move

\* A timeout ends the wait for the condition; for the semaphore it changes nothing.
LEMMA TimeoutStep ==
    ASSUME Inv, NEW u \in Threads, Timeout(u)
    PROVE  place' = place \/ M!Timeout(u)
<1>1. Timed
  BY CondVarAssumption DEF Inv, TypeOK, Timeout
<1>2. place'[u] = place[u] \/ (place[u] = "waiting" /\ place'[u] = "notified")
  BY DEF Inv, TypeOK, ThenExact, Timeout, place, Inside, InWait, Conds, SEM, COND
<1>3. /\ place' = [place EXCEPT ![u] = place'[u]]
      /\ place'[u] = place[u] => place' = place
  BY StepOf, PlaceMove
<1> QED BY <1>1, <1>2, <1>3 DEF M!Timeout, M!Move

\* A signal of the condition by a thread inside notifies the one it wakes.
LEMMA SignalOneStep ==
    ASSUME Inv, NEW u \in Threads, SignalOne(u)
    PROVE  place' = place \/ \E w \in Threads : M!Notify(w)
<1> DEFINE w == Head(waitset[cv[u]])
<1>1. /\ cv[u] \in Conds /\ waitset[cv[u]] \in Seq(Threads) /\ waitset[cv[u]] # <<>>
      /\ Once(waitset[cv[u]])
  BY DEF Inv, TypeOK, RingOnce, SignalOne
<1>2. w \in Threads /\ Has(waitset[cv[u]], w)
  BY <1>1, TailOnce
<1>3. w # u /\ pc[w] = "wait_wake" /\ cv[w] = cv[u]
  <2>1. InRing(w) /\ cv[w] = cv[u]
    BY <1>1, <1>2 DEF Inv, RingExact
  <2> QED BY <1>1, <1>2, <2>1 DEF Inv, SignalOne, InRing, Waiting, LockExact, HoldsLock
<1>4. /\ state' = [state EXCEPT ![w] = "RUNNING"]
      /\ pc' = pc \/ pc' = [pc EXCEPT ![u] = then[u]]
      /\ UNCHANGED <<cv, then>>
  BY DEF SignalOne, Goes
<1> HIDE DEF w
<1>5. place'[u] = place[u]
  BY <1>2, <1>3, <1>4
     DEF Inv, TypeOK, ThenExact, SignalOne, Signalling, place, Inside, InWait, Conds, SEM, COND
<1>6. ASSUME NEW v \in Threads, v # w PROVE place'[v] = place[v]
  <2>1. CASE v = u
    BY <1>5, <2>1
  <2>2. CASE v # u
    BY <1>2, <1>4, <1>6, <2>2, PlaceSame DEF Inv, TypeOK
  <2> QED BY <2>1, <2>2
<1>7. /\ place' = [place EXCEPT ![w] = place'[w]]
      /\ place'[w] = place[w] => place' = place
  BY <1>2, <1>6, PlaceMove
<1>8. \/ place'[w] = place[w]
      \/ place[w] = "waiting" /\ place'[w] = "notified" /\ cv[u] = COND
  BY <1>2, <1>3, <1>4 DEF Inv, TypeOK, ThenExact, place, Inside, InWait, Conds, SEM, COND
<1>9. cv[u] = COND => place[u] = "in"
  BY DEF SignalOne, place, Inside
<1> QED BY <1>2, <1>7, <1>8, <1>9 DEF M!Notify, M!Move

(***************************************************************************)
(* The kernel lock with kernel_wait, kernel_signal and kernel_broadcast    *)
(* implements a Mesa monitor: one thread inside at a time, and a thread    *)
(* that waits goes on only when it was notified or its timeout has passed, *)
(* and has entered again.                                                  *)
(***************************************************************************)
THEOREM KernelLockIsMonitor == Spec => ImplementsMonitor
<1>1. Init => M!Init
  BY DEF Init, M!Init, place, Inside, InWait, SEM, COND
<1>2. Inv /\ [Next]_vars => [M!Next]_place
  <2> SUFFICES ASSUME Inv, [Next]_vars PROVE M!Next \/ place' = place
    OBVIOUS
  <2>1. CASE UNCHANGED vars
    BY <2>1 DEF vars, place, Inside, InWait
  <2>2. ASSUME NEW u \in Threads,
               \/ Progress(u) /\ ~SignalOne(u) /\ ~CheckTake(u)
               \/ KernelLock(u)
               \/ \E call \in {"signal", "broadcast"} : KernelSignal(u, call)
        PROVE  place' = place
    BY <2>2, StepOf, SilentStep, PlaceMove
  <2>3. ASSUME NEW u \in Threads, CheckTake(u) \/ Leave(u)
        PROVE  M!Next
    BY <2>3, EnterStep, LeaveStep DEF M!Next
  <2>4. ASSUME NEW u \in Threads, SignalOne(u) \/ Timeout(u)
        PROVE  M!Next \/ place' = place
    BY <2>4, SignalOneStep, TimeoutStep DEF M!Next
  <2> QED BY <2>1, <2>2, <2>3, <2>4 DEF Next
<1>3. Spec => M!Init /\ [][M!Next]_place
  BY <1>1, <1>2, InvSafe, PTL DEF Spec
<1> QED BY <1>3 DEF ImplementsMonitor, M!Spec

=============================================================================
