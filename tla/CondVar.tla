------------------------------- MODULE CondVar -------------------------------
(***************************************************************************)
(* Condition variables and the kernel lock of the legacy kernel            *)
(* (old/kernel_cc.c) on several cores.  A thread steps from one            *)
(* acquisition or release of a lock to the next; what it does between them *)
(* under waitset_lock is one step.                                         *)
(*                                                                         *)
(* kernel_mutex and the waitset_locks are test-and-set locks, free or held *)
(* by a thread.  The ring of waiters is the sequence of their threads from *)
(* cv->waitset on.                                                         *)
(***************************************************************************)
EXTENDS Naturals, Sequences, SequencesExt

CONSTANTS
    Threads,
    Timed       \* whether kernel_wait may be called with a timeout

ASSUME CondVarAssumption == Timed \in BOOLEAN

SEM   == "kernel_sem_cv"    \* the condition of the kernel semaphore
COND  == "cond"             \* a condition that kernel code waits for
Conds == {SEM, COND}
Free  == "free"

ASSUME FreeAssumption == Free \notin Threads

VARIABLES
    kernel_mutex, kernel_sem,
    waitset,        \* of each condition
    waitset_lock,
    state,          \* "RUNNING" or "STOPPED", of each thread
    waiter,         \* the __cv_waiter on its stack: signalled, removed
    pc,             \* where it is
    cv,             \* the condition of its cv_wait or cv_signal
    then,           \* where it goes on after that
    timed           \* its wait has a timeout

vars == <<kernel_mutex, kernel_sem, waitset, waitset_lock, state, waiter, pc, cv,
          then, timed>>
locks == <<kernel_mutex, kernel_sem>>
local == <<state, waiter, timed>>

Init ==
    /\ kernel_mutex = Free /\ kernel_sem = 1
    /\ waitset = [c \in Conds |-> <<>>]
    /\ waitset_lock = [c \in Conds |-> Free]
    /\ state = [t \in Threads |-> "RUNNING"]
    /\ waiter = [t \in Threads |-> [signalled |-> FALSE, removed |-> FALSE]]
    /\ pc = [t \in Threads |-> "out"]
    /\ cv = [t \in Threads |-> SEM]
    /\ then = [t \in Threads |-> "out"]
    /\ timed = [t \in Threads |-> FALSE]

\* Thread t goes from one place in the code to another, or calls cv_wait or
\* cv_signal on condition c with a place to return to.
Goes(t, from, to) == pc[t] = from /\ pc' = [pc EXCEPT ![t] = to] /\ UNCHANGED <<cv, then>>
Calls(t, from, at, c, ret) ==
    /\ pc[t] = from
    /\ pc' = [pc EXCEPT ![t] = at]
    /\ cv' = [cv EXCEPT ![t] = c]
    /\ then' = [then EXCEPT ![t] = ret]

-----------------------------------------------------------------------------
(***************************************************************************)
(* cv_wait.                                                                *)
(***************************************************************************)
WaitEnqueue(t) ==
    LET c == cv[t] IN
    /\ Goes(t, "wait", "wait_unlock")
    /\ waitset_lock[c] = Free
    /\ waitset_lock' = [waitset_lock EXCEPT ![c] = t]
    /\ waitset' = [waitset EXCEPT ![c] = Append(@, t)]
    /\ waiter' = [waiter EXCEPT ![t] = [signalled |-> FALSE, removed |-> FALSE]]
    /\ UNCHANGED <<locks, state, timed>>

WaitUnlock(t) ==
    /\ Goes(t, "wait_unlock", "wait_sleep")
    /\ kernel_mutex' = Free
    /\ UNCHANGED <<kernel_sem, waitset, waitset_lock, local>>

\* sleep_releasing: stopped and unlocked at once, under sched_spinlock.
WaitSleep(t) ==
    /\ Goes(t, "wait_sleep", "wait_wake")
    /\ state' = [state EXCEPT ![t] = "STOPPED"]
    /\ waitset_lock' = [waitset_lock EXCEPT ![cv[t]] = Free]
    /\ UNCHANGED <<locks, waitset, waiter, timed>>

\* The scheduler wakes the thread when its timeout has passed.
Timeout(t) ==
    /\ pc[t] = "wait_wake" /\ state[t] = "STOPPED" /\ timed[t]
    /\ state' = [state EXCEPT ![t] = "RUNNING"]
    /\ UNCHANGED <<locks, waitset, waitset_lock, waiter, pc, cv, then, timed>>

\* fault: a waiter that was not signalled leaves itself in the ring
WaitTidy_Left(t) ==
    /\ Goes(t, "wait_wake", "wait_lock")
    /\ state[t] = "RUNNING" /\ waitset_lock[cv[t]] = Free
    /\ timed' = [timed EXCEPT ![t] = FALSE]
    /\ UNCHANGED <<locks, waitset, waitset_lock, state, waiter>>
\* Awake again: the waiter takes itself out of the ring if no one else has.
WaitTidy(t) ==
    /\ Goes(t, "wait_wake", "wait_lock")
    /\ state[t] = "RUNNING" /\ waitset_lock[cv[t]] = Free
    /\ waitset' = IF waiter[t].removed THEN waitset
                  ELSE [waitset EXCEPT ![cv[t]] = RemoveFirst(@, t)]
    /\ timed' = [timed EXCEPT ![t] = FALSE]
    /\ UNCHANGED <<locks, waitset_lock, state, waiter>>

WaitReturn(t) ==
    /\ Goes(t, "wait_lock", then[t])
    /\ kernel_mutex = Free /\ kernel_mutex' = t
    /\ UNCHANGED <<kernel_sem, waitset, waitset_lock, local>>

-----------------------------------------------------------------------------
(***************************************************************************)
(* Cond_Signal ("signal") and Cond_Broadcast ("broadcast").                *)
(***************************************************************************)
SignalLock(t) ==
    /\ pc[t] \in {"signal", "broadcast"}
    /\ Goes(t, pc[t], IF pc[t] = "signal" THEN "one" ELSE "all")
    /\ waitset_lock[cv[t]] = Free
    /\ waitset_lock' = [waitset_lock EXCEPT ![cv[t]] = t]
    /\ UNCHANGED <<locks, waitset, local>>

\* fault: a waiter whose timeout has passed uses the signal up
SignalOne_Spent(t) ==
    LET c == cv[t]
        w == Head(waitset[c])
    IN
    /\ pc[t] \in {"one", "all"} /\ waitset[c] # <<>>
    /\ waitset' = [waitset EXCEPT ![c] = Tail(@)]
    /\ waiter' = [waiter EXCEPT ![w] = [signalled |-> state[w] = "STOPPED", removed |-> TRUE]]
    /\ state' = [state EXCEPT ![w] = "RUNNING"]
    /\ IF pc[t] = "one"
       THEN Goes(t, pc[t], then[t]) /\ waitset_lock' = [waitset_lock EXCEPT ![c] = Free]
       ELSE UNCHANGED <<pc, cv, then, waitset_lock>>
    /\ UNCHANGED <<locks, timed>>
(***************************************************************************)
(* One turn of the loop in cv_signal: the first waiter is removed, and it  *)
(* is signalled if wakeup finds it stopped.  That ends Cond_Signal, while  *)
(* a waiter that had woken by itself does not.                             *)
(***************************************************************************)
SignalOne(t) ==
    LET c    == cv[t]
        w    == Head(waitset[c])
        woke == state[w] = "STOPPED"
    IN
    /\ pc[t] \in {"one", "all"} /\ waitset[c] # <<>>
    /\ waitset' = [waitset EXCEPT ![c] = Tail(@)]
    /\ waiter' = [waiter EXCEPT ![w] = [signalled |-> woke, removed |-> TRUE]]
    /\ state' = [state EXCEPT ![w] = "RUNNING"]
    /\ IF pc[t] = "one" /\ woke
       THEN Goes(t, pc[t], then[t]) /\ waitset_lock' = [waitset_lock EXCEPT ![c] = Free]
       ELSE UNCHANGED <<pc, cv, then, waitset_lock>>
    /\ UNCHANGED <<locks, timed>>

SignalNone(t) ==
    /\ pc[t] \in {"one", "all"} /\ waitset[cv[t]] = <<>>
    /\ Goes(t, pc[t], then[t])
    /\ waitset_lock' = [waitset_lock EXCEPT ![cv[t]] = Free]
    /\ UNCHANGED <<locks, waitset, local>>

-----------------------------------------------------------------------------
(***************************************************************************)
(* kernel_lock: take kernel_mutex, then the semaphore or wait for it.      *)
(***************************************************************************)
KernelLock(t) ==
    /\ Goes(t, "out", "check")
    /\ kernel_mutex = Free /\ kernel_mutex' = t
    /\ UNCHANGED <<kernel_sem, waitset, waitset_lock, local>>

\* fault: a woken thread does not look at the semaphore again
CheckTake_Trusting(t) ==
    /\ Goes(t, pc[t], "in") /\ pc[t] \in {"check", "recheck"}
    /\ (kernel_sem > 0 \/ waiter[t].signalled)
    /\ kernel_sem' = IF kernel_sem > 0 THEN kernel_sem - 1 ELSE 0
    /\ kernel_mutex' = Free
    /\ UNCHANGED <<waitset, waitset_lock, local>>
\* The loops of kernel_lock ("check") and kernel_wait_wchan ("recheck").
CheckTake(t) ==
    /\ Goes(t, pc[t], "in") /\ pc[t] \in {"check", "recheck"}
    /\ kernel_sem > 0
    /\ kernel_sem' = kernel_sem - 1 /\ kernel_mutex' = Free
    /\ UNCHANGED <<waitset, waitset_lock, local>>

CheckWait(t) ==
    /\ Calls(t, pc[t], "wait", SEM, pc[t]) /\ pc[t] \in {"check", "recheck"}
    /\ kernel_sem = 0
    /\ UNCHANGED <<locks, waitset, waitset_lock, local>>

\* fault: the semaphore is not signalled
GiveUp_Silent(t, ret) ==
    /\ Calls(t, "in", ret, SEM, ret)
    /\ kernel_mutex = Free /\ kernel_mutex' = t
    /\ kernel_sem' = kernel_sem + 1
    /\ UNCHANGED <<waitset, waitset_lock>>
\* Give the semaphore up and signal it, to go on at ret with kernel_mutex.
GiveUp(t, ret) ==
    /\ Calls(t, "in", "signal", SEM, ret)
    /\ kernel_mutex = Free /\ kernel_mutex' = t
    /\ kernel_sem' = kernel_sem + 1
    /\ UNCHANGED <<waitset, waitset_lock>>

KernelUnlock(t) == GiveUp(t, "unlock") /\ UNCHANGED local

UnlockEnd(t) ==
    /\ Goes(t, "unlock", "out")
    /\ kernel_mutex' = Free
    /\ UNCHANGED <<kernel_sem, waitset, waitset_lock, local>>

KernelWait(t, timeout) ==
    /\ GiveUp(t, "cond_wait")
    /\ timed' = [timed EXCEPT ![t] = timeout]
    /\ UNCHANGED <<state, waiter>>

\* The cv_wait of kernel_wait_wchan, which then takes the semaphore again.
KernelWaits(t) ==
    /\ Calls(t, "cond_wait", "wait", COND, "recheck")
    /\ UNCHANGED <<locks, waitset, waitset_lock, local>>

\* kernel_sleep of a thread that exits.
KernelSleep(t) == GiveUp(t, "exit") /\ UNCHANGED local

Exited(t) ==
    /\ Goes(t, "exit", "gone")
    /\ kernel_mutex' = Free
    /\ UNCHANGED <<kernel_sem, waitset, waitset_lock, local>>

KernelSignal(t, call) ==
    /\ Calls(t, "in", call, COND, "in")
    /\ UNCHANGED <<locks, waitset, waitset_lock, local>>

-----------------------------------------------------------------------------
\* What a thread does once it has called into this file.
Progress(t) == \/ WaitEnqueue(t) \/ WaitUnlock(t) \/ WaitSleep(t) \/ WaitTidy(t)
               \/ WaitReturn(t) \/ SignalLock(t) \/ SignalOne(t) \/ SignalNone(t)
               \/ CheckTake(t) \/ CheckWait(t) \/ UnlockEnd(t) \/ KernelWaits(t)
               \/ Exited(t)

Leave(t) == \/ KernelUnlock(t) \/ KernelSleep(t)
            \/ \E b \in {FALSE, Timed} : KernelWait(t, b)

Next == \E t \in Threads :
            \/ Progress(t) \/ Timeout(t) \/ KernelLock(t) \/ Leave(t)
            \/ \E call \in {"signal", "broadcast"} : KernelSignal(t, call)

Spec == Init /\ [][Next]_vars

(***************************************************************************)
(* Threads go on with what they have begun, and a thread in the kernel     *)
(* gives the kernel lock up in the end, whatever it signals before.        *)
(***************************************************************************)
LiveSpec == /\ Spec
            /\ \A t \in Threads : WF_vars(Progress(t)) /\ SF_vars(Leave(t))

-----------------------------------------------------------------------------
InWait(t) == pc[t] \in {"wait", "wait_unlock", "wait_sleep", "wait_wake", "wait_lock"}

\* The threads that hold the semaphore.
Inside == {t \in Threads : pc[t] = "in"
                           \/ (pc[t] \in {"signal", "broadcast", "one", "all"} /\ cv[t] = COND)}

(***************************************************************************)
(* kernel_lock admits one thread at a time: the semaphore and the thread   *)
(* inside the kernel add up to one, over every wait, signal and timeout.   *)
(***************************************************************************)
KernelExclusive ==
    /\ kernel_sem \in {0, 1}
    /\ \A t, u \in Inside : t = u
    /\ (kernel_sem = 1) <=> (Inside = {})

(***************************************************************************)
(* A ring holds only waiters of threads that are still inside cv_wait on   *)
(* that condition, each once, since a __cv_waiter lives on the stack of    *)
(* its thread; and a thread that is stopped is in the ring to be found.    *)
(***************************************************************************)
NoDanglingWaiter ==
    \A c \in Conds :
        /\ \A i, j \in DOMAIN waitset[c] : waitset[c][i] = waitset[c][j] => i = j
        /\ \A i \in DOMAIN waitset[c] :
                LET t == waitset[c][i] IN
                pc[t] \in {"wait_unlock", "wait_sleep", "wait_wake"} /\ cv[t] = c
        /\ \A t \in Threads : state[t] = "STOPPED" /\ cv[t] = c =>
                \E i \in DOMAIN waitset[c] : waitset[c][i] = t

(***************************************************************************)
(* assert(! waiter.signalled) in cv_wait: a waiter that is still in the    *)
(* ring was not signalled.                                                 *)
(***************************************************************************)
SignalledIsRemoved ==
    \A t \in Threads : pc[t] = "wait_wake" /\ ~waiter[t].removed => ~waiter[t].signalled

(***************************************************************************)
(* The state of cv_wait and of the kernel semaphore between any two steps  *)
(* of any threads, a timeout between a signal and its waiter included.     *)
(***************************************************************************)
WaitSound == KernelExclusive /\ NoDanglingWaiter /\ SignalledIsRemoved

(***************************************************************************)
(* Cond_Signal wakes a thread if one sleeps: it ends without having        *)
(* signalled anyone only when no thread is stopped on the condition.       *)
(***************************************************************************)
SignalNotLost ==
    [][\A t \in Threads :
        pc[t] = "one" /\ pc'[t] # "one" =>
            \/ \E w \in Threads : state[w] = "STOPPED" /\ state'[w] = "RUNNING"
            \/ \A w \in Threads : ~(state'[w] = "STOPPED" /\ cv[w] = cv[t])]_vars

(***************************************************************************)
(* A thread that sleeps in kernel_lock, or in kernel_wait for the lock, is *)
(* woken: no release of the semaphore is lost on a thread that comes       *)
(* between it and the sleepers, and the ring of waiters is served in turn. *)
(***************************************************************************)
SleeperWoken == \A t \in Threads :
    (state[t] = "STOPPED" /\ cv[t] = SEM) ~> state[t] = "RUNNING"

(***************************************************************************)
(* The kernel lock with kernel_wait, kernel_signal and kernel_broadcast is *)
(* a monitor.  A thread waits from the moment it gives the semaphore up in *)
(* kernel_wait_wchan until it is woken.                                    *)
(***************************************************************************)
place == [t \in Threads |->
    IF t \in Inside THEN "in"
    ELSE IF \/ pc[t] = "recheck"
            \/ InWait(t) /\ cv[t] = SEM /\ then[t] = "recheck"
            \/ pc[t] = "wait_lock" /\ cv[t] = COND
            \/ pc[t] = "wait_wake" /\ cv[t] = COND /\ state[t] = "RUNNING"
    THEN "notified"
    ELSE IF then[t] = "cond_wait" \/ (InWait(t) /\ cv[t] = COND)
    THEN "waiting" ELSE "out"]

M == INSTANCE Monitor

ImplementsMonitor == M!Spec

=============================================================================
