------------------------------ MODULE Scheduler ------------------------------
(***************************************************************************)
(* The preemptive multilevel-feedback scheduler of tinierOS                *)
(* (src/kernel/kernel_sched.c), on its single AVR core, together with the  *)
(* part of the core that it depends on: the global interrupt flag, the     *)
(* one-shot quantum timer and its latched ALARM flag, and the resume point *)
(* of every thread.                                                        *)
(*                                                                         *)
(* With interrupts off the core is sequential, so one action is one        *)
(* uninterruptible stretch of code.  A context switch is three of them:    *)
(* yield() up to the timeout scan, the scan and the selection, and the     *)
(* gain() of the thread that was selected.  The exception is a thread that *)
(* runs for the first time: its initial status register has interrupts     *)
(* ENABLED, so its gain(1) can itself be interrupted.                      *)
(***************************************************************************)
EXTENDS Integers, Sequences, FiniteSets, SequencesExt

CONSTANTS
    MAX_THREADS,   \* size of thread_pool
    SCHED_QUEUES,  \* number of priority levels, 0 is the best
    YIELD_RUNS,    \* calls of yield() between two priority boosts
    NO_TIMEOUT,    \* the largest TimerDuration, (TimerDuration)-1
    Timeouts,      \* the timeouts that sleeping threads ask for
    Causes,        \* the causes that kernel code passes to yield and sleep
    ClockStep,     \* what one overflow of the counter adds to bios_clock(): 256
    MaxClock,      \* bound: the clock stops there
    LateAlarm      \* may the quantum end while interrupts are off?

ASSUME ThreadsAssumption  == MAX_THREADS \in Nat \ {0}
ASSUME QueuesAssumption   == SCHED_QUEUES \in Nat \ {0}
ASSUME RunsAssumption     == YIELD_RUNS \in Nat \ {0}
ASSUME TimeAssumption     == /\ NO_TIMEOUT \in Nat \ {0}
                             /\ Timeouts \subseteq 0..NO_TIMEOUT
                             /\ ClockStep \in Nat \ {0}
                             /\ MaxClock \in 0..NO_TIMEOUT
ASSUME CausesAssumption   == Causes \subseteq {"IO", "MUTEX", "PIPE", "POLL", "USER"}
ASSUME AlarmAssumption    == LateAlarm \in BOOLEAN

Thread == 0..MAX_THREADS-1       \* the slots of thread_pool
Idle   == MAX_THREADS            \* CURCORE.idle_thread
NULL   == -1
TCB    == Thread \cup {Idle}
Queue  == 0..SCHED_QUEUES-1

Thread_state == {"INIT", "READY", "RUNNING", "STOPPED", "EXITED"}
Thread_phase == {"CTX_CLEAN", "CTX_DIRTY"}
SCHED_CAUSE  == {"QUANTUM", "IO", "MUTEX", "PIPE", "POLL", "IDLE", "USER"}
UintMod      == 65536            \* unsigned int has 16 bits on the AVR

VARIABLES
    used,            \* thread_used[]
    state, phase,    \* TCB fields of the threads and of the idle thread
    priority,
    wakeup_time,
    curr_cause,
    active_threads,
    SCHED,           \* the queues, as sequences of threads
    TIMEOUT_LIST,
    yield_count,
    current,         \* CURCORE.current_thread
    previous,        \* CURCORE.previous_thread
    clock,           \* bios_clock()
    armed,           \* OCR1A holds a quantum: the timer will match
    alarm,           \* OCF1A: a match is latched and not yet served
    pc,              \* where each thread executes, or resumes when switched to
    stage            \* what the core executes

tcb   == <<used, state, phase, priority, wakeup_time, curr_cause, active_threads>>
timer == <<armed, alarm>>
vars  == <<used, state, phase, priority, wakeup_time, curr_cause, active_threads,
           SCHED, TIMEOUT_LIST, yield_count, current, previous, clock, armed,
           alarm, pc, stage>>

(***************************************************************************)
(* "fresh": never ran, resumes in thread_start with interrupts enabled;    *)
(* "start": in the gain(1) of thread_start; "user": ordinary code;         *)
(* "kernel": between kernel_lock (cli) and kernel_unlock (sei).  The idle  *)
(* thread: "boot" before its first yield, "loop" at the loop test,         *)
(* "tested" past the test and before the sleep instruction, "halt" asleep  *)
(* in cpu_core_halt, "wake" after it, "done" out of run_scheduler.         *)
(***************************************************************************)
ThreadPC == {"fresh", "start", "user", "kernel"}
IdlePC   == {"boot", "loop", "tested", "halt", "wake", "done"}

(***************************************************************************)
(* The stages: "run" the thread's own code, "expire" inside yield() at the *)
(* timeout scan, "gain" inside yield() after the switch.                   *)
(***************************************************************************)
Ie == stage = "run" /\ pc[current] # "kernel"

-----------------------------------------------------------------------------
(* List and queue operations                                               *)

(***************************************************************************)
(* rlist_push_back on the list q.  Pushing a node that is already in the   *)
(* ring of q splices the ring with itself: what followed the node drops    *)
(* out (nothing does when the node is the last one).                       *)
(***************************************************************************)
PushBack(q, t) ==
    IF \E k \in DOMAIN q : q[k] = t
    THEN SubSeq(q, 1, CHOOSE k \in DOMAIN q : q[k] = t)
    ELSE Append(q, t)

sched_queue_add(t) == SCHED' = [SCHED EXCEPT ![priority[t]] = PushBack(@, t)]

(***************************************************************************)
(* sched_boost_priority: the loop takes the levels from 1 up and moves     *)
(* each queue to the end of the one above, which has been emptied just     *)
(* before, so nothing moves up by more than one level.                     *)
(***************************************************************************)
BoostedLevels_Short == 1..SCHED_QUEUES-2          \* fault: the loop ends too early
BoostedLevels == 1..SCHED_QUEUES-1

BoostedQueues_Overwrite ==                        \* fault: the queue above is overwritten
    [i \in Queue |-> IF i + 1 \in BoostedLevels THEN SCHED[i + 1] ELSE << >>]
BoostedQueues ==
    [i \in Queue |-> (IF i \in BoostedLevels THEN << >> ELSE SCHED[i])
                     \o (IF i + 1 \in BoostedLevels THEN SCHED[i + 1] ELSE << >>)]

BoostedPriorities_Kept == priority                \* fault: no priority-- in the loop
BoostedPriorities ==
    [t \in TCB |-> IF \E i \in BoostedLevels : t \in ToSet(SCHED[i])
                   THEN priority[t] - 1 ELSE priority[t]]

(***************************************************************************)
(* sched_register_timeout: the sum is a TimerDuration and wraps; the       *)
(* thread is inserted before the first entry that expires later.           *)
(***************************************************************************)
WakeupTime(timeout) == (clock + timeout) % (NO_TIMEOUT + 1)

sched_register_timeout_Unsorted(t, timeout) ==    \* fault: always at the end
    /\ wakeup_time' = [wakeup_time EXCEPT ![t] = WakeupTime(timeout)]
    /\ TIMEOUT_LIST' = Append(TIMEOUT_LIST, t)
sched_register_timeout(t, timeout) ==
    /\ wakeup_time' = [wakeup_time EXCEPT ![t] = WakeupTime(timeout)]
    /\ \E k \in 1..Len(TIMEOUT_LIST)+1 :
          /\ \A i \in 1..k-1 : wakeup_time[TIMEOUT_LIST[i]] <= WakeupTime(timeout)
          /\ k <= Len(TIMEOUT_LIST) =>
                wakeup_time[TIMEOUT_LIST[k]] > WakeupTime(timeout)
          /\ TIMEOUT_LIST' = InsertAt(TIMEOUT_LIST, k, t)

(***************************************************************************)
(* sched_make_ready.  A thread with a wakeup time is taken to be in the    *)
(* timeout list.  Its two assertions are guards: a failed one hangs the    *)
(* core, here as in __assert_fail.                                         *)
(***************************************************************************)
CancelTimeout(t) ==
    IF wakeup_time[t] # NO_TIMEOUT
    THEN /\ \E k \in DOMAIN TIMEOUT_LIST : /\ TIMEOUT_LIST[k] = t
                                           /\ TIMEOUT_LIST' = RemoveAt(TIMEOUT_LIST, k)
         /\ wakeup_time' = [wakeup_time EXCEPT ![t] = NO_TIMEOUT]
    ELSE UNCHANGED <<TIMEOUT_LIST, wakeup_time>>

sched_make_ready_AnyState(t) ==                   \* fault: the state is not tested
    /\ CancelTimeout(t)
    /\ state' = [state EXCEPT ![t] = "READY"]
    /\ IF phase[t] = "CTX_CLEAN" THEN sched_queue_add(t) ELSE UNCHANGED SCHED
sched_make_ready_AnyPhase(t) ==                   \* fault: a dirty thread is queued too
    /\ state[t] \in {"STOPPED", "INIT"}
    /\ CancelTimeout(t)
    /\ state' = [state EXCEPT ![t] = "READY"]
    /\ sched_queue_add(t)
sched_make_ready(t) ==
    /\ state[t] \in {"STOPPED", "INIT"}
    /\ CancelTimeout(t)
    /\ state' = [state EXCEPT ![t] = "READY"]
    /\ IF phase[t] = "CTX_CLEAN" THEN sched_queue_add(t) ELSE UNCHANGED SCHED

-----------------------------------------------------------------------------
(* yield()                                                                 *)

(***************************************************************************)
(* bios_cancel_timer disarms the timer but does not clear the latched      *)
(* match: one that happened since interrupts went off stays pending.  If   *)
(* the timer is just matching, it returns early and disarms nothing.       *)
(***************************************************************************)
bios_cancel_timer ==
    \/ armed' = FALSE /\ UNCHANGED alarm
    \/ LateAlarm /\ armed /\ alarm' = TRUE /\ armed' \in BOOLEAN

(***************************************************************************)
(* The priority the current thread gets from the cause of its yield, given *)
(* its priority p after a possible boost.                                  *)
(***************************************************************************)
AdjustedPriority(cause, p) ==
    CASE cause = "IO" /\ p > 0 -> p - 1
      [] cause = "QUANTUM" /\ p < SCHED_QUEUES - 1 -> p + 1
      [] cause = "MUTEX" /\ curr_cause[current] = "MUTEX" /\ p < SCHED_QUEUES - 1 -> p + 1
      [] OTHER -> p

(***************************************************************************)
(* yield(cause) up to the timeout scan.  st is the state of the current    *)
(* thread at the call: sleep_releasing has set it, other callers have not. *)
(***************************************************************************)
yield(cause, st) ==
    LET boost == yield_count + 1 = YIELD_RUNS
        prio  == IF boost THEN BoostedPriorities ELSE priority
    IN  /\ yield_count' = IF boost THEN 0 ELSE yield_count + 1
        /\ SCHED' = IF boost THEN BoostedQueues ELSE SCHED
        /\ priority' = [prio EXCEPT ![current] = AdjustedPriority(cause, @)]
        /\ curr_cause' = [curr_cause EXCEPT ![current] = cause]
        /\ state' = [state EXCEPT ![current] = IF st = "RUNNING" THEN "READY" ELSE st]
        /\ stage' = "expire"
        /\ UNCHANGED <<used, phase, active_threads, current, previous, clock>>

(***************************************************************************)
(* One iteration of sched_wakeup_expired_timeouts.                         *)
(***************************************************************************)
HeadExpired == TIMEOUT_LIST # << >> /\ wakeup_time[Head(TIMEOUT_LIST)] <= clock

WakeExpired_Unlinked ==                           \* fault: taken off the list, not made ready
    /\ stage = "expire"
    /\ HeadExpired
    /\ CancelTimeout(Head(TIMEOUT_LIST))
    /\ UNCHANGED <<used, state, phase, priority, curr_cause, active_threads, SCHED,
                   yield_count, current, previous, clock, timer, pc, stage>>
WakeExpired ==
    /\ stage = "expire"
    /\ HeadExpired
    /\ sched_make_ready(Head(TIMEOUT_LIST))
    /\ UNCHANGED <<used, phase, priority, curr_cause, active_threads, yield_count,
                   current, previous, clock, timer, pc, stage>>

(***************************************************************************)
(* The switch to thread next.  A thread that runs for the first time       *)
(* starts in thread_start, with interrupts enabled; any other one resumes  *)
(* inside its own yield(), with interrupts off.                            *)
(***************************************************************************)
SwitchTo(next) ==
    /\ previous' = current
    /\ current' = next
    /\ IF next # Idle /\ pc[next] = "fresh"
       THEN pc' = [pc EXCEPT ![next] = "start"] /\ stage' = "run"
       ELSE stage' = "gain" /\ UNCHANGED pc

SelectQueued(q) ==
    /\ stage = "expire"
    /\ ~HeadExpired
    /\ SCHED[q] # << >>
    /\ \A i \in 0..q-1 : SCHED[i] = << >>
    /\ SCHED' = [SCHED EXCEPT ![q] = Tail(@)]
    /\ SwitchTo(Head(SCHED[q]))
    /\ UNCHANGED <<tcb, TIMEOUT_LIST, yield_count, clock, timer>>

SelectFallback ==
    /\ stage = "expire"
    /\ ~HeadExpired
    /\ \A i \in Queue : SCHED[i] = << >>
    /\ SwitchTo(IF state[current] = "READY" THEN current ELSE Idle)
    /\ UNCHANGED <<tcb, SCHED, TIMEOUT_LIST, yield_count, clock, timer>>

(***************************************************************************)
(* gain(): the current thread becomes RUNNING, the previous one is put     *)
(* away, the timer is armed.  There is no step where gain's assert(0)      *)
(* fails: the core would hang there.                                       *)
(***************************************************************************)
release_TCB_Uncounted(t) ==                       \* fault: active_threads is not decremented
    used' = [used EXCEPT ![t] = FALSE] /\ UNCHANGED active_threads
release_TCB_Leaked(t) ==                          \* fault: the slot is not given back
    UNCHANGED used /\ active_threads' = (active_threads - 1) % UintMod
release_TCB(t) ==
    /\ used' = [used EXCEPT ![t] = FALSE]
    /\ active_threads' = (active_threads - 1) % UintMod

bios_set_timer_NotAfterExit ==                    \* fault: gain returns from its case EXITED
    armed' = (armed \/ state[previous] # "EXITED")
bios_set_timer == armed' = TRUE

ContextPhases == [phase EXCEPT ![current] = "CTX_DIRTY", ![previous] = "CTX_CLEAN"]

gain ==
    LET prev == previous IN
    /\ state' = [state EXCEPT ![current] = "RUNNING"]
    /\ IF current = prev
       THEN /\ phase' = [phase EXCEPT ![current] = "CTX_DIRTY"]
            /\ UNCHANGED <<used, active_threads, SCHED>>
       ELSE /\ state[prev] \in {"READY", "EXITED", "STOPPED"}
            /\ phase' = ContextPhases
            /\ IF state[prev] = "READY" /\ prev # Idle
               THEN sched_queue_add(prev) ELSE UNCHANGED SCHED
            /\ IF state[prev] = "EXITED"
               THEN release_TCB(prev) ELSE UNCHANGED <<used, active_threads>>
    /\ bios_set_timer
    /\ UNCHANGED <<priority, wakeup_time, curr_cause, TIMEOUT_LIST, yield_count,
                   current, previous, clock, alarm>>

Gain ==
    /\ stage = "gain"
    /\ gain
    /\ stage' = "run"
    /\ UNCHANGED pc

(***************************************************************************)
(* thread_start.  Interrupts are on, so a latched alarm is served first.   *)
(***************************************************************************)
ThreadStart ==
    /\ stage = "run"
    /\ pc[current] = "start"
    /\ ~alarm
    /\ gain
    /\ pc' = [pc EXCEPT ![current] = "user"]
    /\ UNCHANGED stage

-----------------------------------------------------------------------------
(* Interrupts                                                              *)

(***************************************************************************)
(* Any interrupt ends the sleep of a halted core.  One that comes before   *)
(* the sleep instruction returns to a core that still goes to sleep.       *)
(***************************************************************************)
WakeCore == pc' = [pc EXCEPT ![current] = IF @ = "halt" THEN "wake" ELSE @]

(***************************************************************************)
(* The ALARM interrupt and its handler: yield(SCHED_QUANTUM) on the stack  *)
(* of whatever thread is running.                                          *)
(***************************************************************************)
Interrupt ==
    /\ Ie
    /\ pc[current] # "done"
    /\ armed \/ alarm
    /\ \/ armed' = FALSE /\ alarm' = FALSE
       \/ LateAlarm /\ alarm /\ armed /\ alarm' = TRUE /\ armed' \in BOOLEAN
    /\ WakeCore
    /\ yield("QUANTUM", state[current])
    /\ UNCHANGED <<wakeup_time, TIMEOUT_LIST>>

(***************************************************************************)
(* The timer overflow interrupt advances the clock.                        *)
(***************************************************************************)
ClockTick ==
    /\ Ie
    /\ pc[current] # "done"
    /\ clock + ClockStep <= MaxClock
    /\ clock' = clock + ClockStep
    /\ WakeCore
    /\ UNCHANGED <<tcb, SCHED, TIMEOUT_LIST, yield_count, current, previous, timer, stage>>

-----------------------------------------------------------------------------
(* The calls a running thread makes                                        *)

Executing(places) ==
    /\ stage = "run"
    /\ current # Idle
    /\ pc[current] \in places
    /\ Ie => ~alarm

(***************************************************************************)
(* kernel_lock and kernel_unlock around every system call.                 *)
(***************************************************************************)
KernelLock ==
    /\ Executing({"user"})
    /\ pc' = [pc EXCEPT ![current] = "kernel"]
    /\ UNCHANGED <<tcb, SCHED, TIMEOUT_LIST, yield_count, current, previous, clock, timer, stage>>

KernelUnlock ==
    /\ Executing({"kernel"})
    /\ pc' = [pc EXCEPT ![current] = "user"]
    /\ UNCHANGED <<tcb, SCHED, TIMEOUT_LIST, yield_count, current, previous, clock, timer, stage>>

(***************************************************************************)
(* spawn_thread takes the first free slot; with none it changes nothing.   *)
(***************************************************************************)
SpawnThread(t) ==
    /\ Executing({"kernel"})
    /\ ~used[t]
    /\ \A s \in Thread : s < t => used[s]
    /\ used' = [used EXCEPT ![t] = TRUE]
    /\ state' = [state EXCEPT ![t] = "INIT"]
    /\ phase' = [phase EXCEPT ![t] = "CTX_CLEAN"]
    /\ wakeup_time' = [wakeup_time EXCEPT ![t] = NO_TIMEOUT]
    /\ priority' = [priority EXCEPT ![t] = 0]
    /\ curr_cause' = [curr_cause EXCEPT ![t] = "IDLE"]
    /\ pc' = [pc EXCEPT ![t] = "fresh"]
    /\ active_threads' = (active_threads + 1) % UintMod
    /\ UNCHANGED <<SCHED, TIMEOUT_LIST, yield_count, current, previous, clock, timer, stage>>

(***************************************************************************)
(* wakeup(t) of a live thread that is STOPPED or INIT (no effect else).    *)
(***************************************************************************)
Wakeup(t) ==
    /\ Executing({"user", "kernel"})
    /\ used[t]
    /\ sched_make_ready(t)
    /\ UNCHANGED <<used, phase, priority, curr_cause, active_threads, yield_count,
                   current, previous, clock, timer, pc, stage>>

YieldCall(cause) ==
    /\ Executing({"user", "kernel"})
    /\ bios_cancel_timer
    /\ yield(cause, state[current])
    /\ UNCHANGED <<wakeup_time, TIMEOUT_LIST, pc>>

(***************************************************************************)
(* sleep_releasing(STOPPED, ...) and sleep_releasing(EXITED, ...).         *)
(***************************************************************************)
Sleep(cause, timeout) ==
    /\ Executing({"user", "kernel"})
    /\ IF timeout # NO_TIMEOUT THEN sched_register_timeout(current, timeout)
                               ELSE UNCHANGED <<wakeup_time, TIMEOUT_LIST>>
    /\ bios_cancel_timer
    /\ yield(cause, "STOPPED")
    /\ UNCHANGED pc

Exit ==
    /\ Executing({"user", "kernel"})
    /\ bios_cancel_timer
    /\ yield("USER", "EXITED")
    /\ UNCHANGED <<wakeup_time, TIMEOUT_LIST, pc>>

-----------------------------------------------------------------------------
(* idle_thread()                                                           *)

IdleAt(places) == stage = "run" /\ current = Idle /\ pc[Idle] \in places /\ ~alarm

IdleYield ==
    /\ IdleAt({"boot", "wake"})
    /\ bios_cancel_timer
    /\ pc' = [pc EXCEPT ![Idle] = "loop"]
    /\ yield("IDLE", state[Idle])
    /\ UNCHANGED <<wakeup_time, TIMEOUT_LIST>>

LeaveIdle_Early == active_threads <= 1            \* fault: active_threads > 1 in the loop test
LeaveIdle == active_threads = 0

IdleCheck ==
    /\ IdleAt({"loop"})
    /\ IF LeaveIdle
       THEN pc' = [pc EXCEPT ![Idle] = "done"] /\ armed' = FALSE
       ELSE pc' = [pc EXCEPT ![Idle] = "tested"] /\ UNCHANGED armed
    /\ UNCHANGED <<tcb, SCHED, TIMEOUT_LIST, yield_count, current, previous, clock, alarm, stage>>

(***************************************************************************)
(* Its sleep instruction, some instructions after the test: interrupts are *)
(* on between the two, and whatever they did, the core goes to sleep.      *)
(***************************************************************************)
cpu_core_halt ==
    /\ IdleAt({"tested"})
    /\ pc' = [pc EXCEPT ![Idle] = "halt"]
    /\ UNCHANGED <<tcb, SCHED, TIMEOUT_LIST, yield_count, current, previous, clock, timer, stage>>

(***************************************************************************)
(* The serial receive interrupt changes nothing but ends the sleep.        *)
(***************************************************************************)
SerialWake ==
    /\ IdleAt({"halt"})
    /\ WakeCore
    /\ UNCHANGED <<tcb, SCHED, TIMEOUT_LIST, yield_count, current, previous, clock, timer, stage>>

(***************************************************************************)
(* After run_scheduler main returns into the endless loop of startup.S.    *)
(***************************************************************************)
HaltLoop == IdleAt({"done"}) /\ UNCHANGED vars

-----------------------------------------------------------------------------
(***************************************************************************)
(* run_scheduler has set up the idle thread, main has spawned and woken    *)
(* the first thread, bios_init has set an initial alarm.  Everything else  *)
(* in the thread pool is zero, as .bss is.                                 *)
(***************************************************************************)
Init ==
    /\ used = [t \in Thread |-> t = 0]
    /\ state = [t \in TCB |-> CASE t = 0 -> "READY" [] t = Idle -> "RUNNING" [] OTHER -> "INIT"]
    /\ phase = [t \in TCB |-> IF t = Idle THEN "CTX_DIRTY" ELSE "CTX_CLEAN"]
    /\ priority = [t \in TCB |-> 0]
    /\ wakeup_time = [t \in TCB |-> IF t \in {0, Idle} THEN NO_TIMEOUT ELSE 0]
    /\ curr_cause = [t \in TCB |-> IF t \in {0, Idle} THEN "IDLE" ELSE "QUANTUM"]
    /\ active_threads = 1
    /\ SCHED = [i \in Queue |-> IF i = 0 THEN <<0>> ELSE << >>]
    /\ TIMEOUT_LIST = << >>
    /\ yield_count = 0
    /\ current = Idle
    /\ previous = NULL
    /\ clock = 0
    /\ armed = TRUE
    /\ alarm = FALSE
    /\ pc = [t \in TCB |-> IF t = Idle THEN "boot" ELSE "fresh"]
    /\ stage = "run"

ThreadStep ==
    \/ KernelLock
    \/ KernelUnlock
    \/ \E t \in Thread : SpawnThread(t)
    \/ \E t \in Thread : Wakeup(t)
    \/ \E c \in Causes : YieldCall(c)
    \/ \E c \in Causes, d \in Timeouts : Sleep(c, d)
    \/ Exit

SchedStep == WakeExpired \/ (\E q \in Queue : SelectQueued(q)) \/ SelectFallback \/ Gain \/ ThreadStart

IdleStep == IdleYield \/ IdleCheck \/ cpu_core_halt \/ SerialWake \/ HaltLoop

Next == ThreadStep \/ SchedStep \/ IdleStep \/ Interrupt \/ ClockTick

Spec == Init /\ [][Next]_vars

(***************************************************************************)
(* Fairness.  The core executes instructions: scheduler code proceeds, and *)
(* a thread with interrupts off eventually enables them or gives the core  *)
(* up, as every system call does.  User code owes nothing.  A timer match  *)
(* is latched, so it is served although interrupts are off from time to    *)
(* time; and the loop of the idle thread is much shorter than a quantum,   *)
(* so preemption cannot keep it from advancing: strong fairness.           *)
(***************************************************************************)
KernelProgress ==
    /\ pc[current] = "kernel"
    /\ KernelUnlock \/ Exit \/ \E c \in Causes : YieldCall(c) \/ \E d \in Timeouts : Sleep(c, d)

Fairness ==
    /\ WF_vars(SchedStep)
    /\ SF_vars(IdleYield \/ IdleCheck \/ cpu_core_halt)
    /\ WF_vars(KernelProgress)
    /\ SF_vars(Interrupt)

FairSpec == Spec /\ Fairness

-----------------------------------------------------------------------------
(* Properties                                                              *)

(***************************************************************************)
(* Every variable keeps its type: the fields of the TCBs, the queues and   *)
(* the core's registers have the values their C types and uses allow.      *)
(***************************************************************************)
TypeOK ==
    /\ used \in [Thread -> BOOLEAN]
    /\ state \in [TCB -> Thread_state]
    /\ phase \in [TCB -> Thread_phase]
    /\ priority \in [TCB -> Queue]
    /\ wakeup_time \in [TCB -> 0..NO_TIMEOUT]
    /\ curr_cause \in [TCB -> SCHED_CAUSE]
    /\ active_threads \in 0..UintMod-1
    /\ SCHED \in [Queue -> Seq(Thread)]
    /\ TIMEOUT_LIST \in Seq(Thread)
    /\ yield_count \in 0..YIELD_RUNS-1
    /\ current \in TCB
    /\ previous \in TCB \cup {NULL}
    /\ clock \in 0..MaxClock
    /\ armed \in BOOLEAN
    /\ alarm \in BOOLEAN
    /\ pc \in [TCB -> ThreadPC \cup IdlePC]
    /\ pc[Idle] \in IdlePC
    /\ \A t \in Thread : pc[t] \in ThreadPC
    /\ stage \in {"run", "expire", "gain"}

Queued(t)   == \E i \in Queue : t \in ToSet(SCHED[i])
TimedOut(t) == t \in ToSet(TIMEOUT_LIST)

(***************************************************************************)
(* What is in a queue may be run: a live READY thread, with a clean        *)
(* context, that does not have the core; it is there once, and in the      *)
(* queue of its priority, whatever boosts, wakeups and priority changes    *)
(* happened since it was put there.  sched_boost_priority relies on the    *)
(* last point for not making a priority negative.                          *)
(***************************************************************************)
QueueSound ==
    \A i \in Queue : \A k \in DOMAIN SCHED[i] :
        /\ used[SCHED[i][k]]
        /\ state[SCHED[i][k]] = "READY"
        /\ phase[SCHED[i][k]] = "CTX_CLEAN"
        /\ SCHED[i][k] # current
        /\ priority[SCHED[i][k]] = i
        /\ \A l \in DOMAIN SCHED[i] : SCHED[i][k] = SCHED[i][l] => k = l

(***************************************************************************)
(* The invariant that kernel_sched.h states for correctness: a TCB is in   *)
(* the scheduler queue if and only if it is READY and its context is clean *)
(* (the thread just selected is out of the queue before it is RUNNING).    *)
(***************************************************************************)
SchedQueueInvariant ==
    /\ QueueSound
    /\ \A t \in Thread : /\ used[t]
                         /\ state[t] = "READY"
                         /\ phase[t] = "CTX_CLEAN"
                         /\ t # current
                         => Queued(t)

(***************************************************************************)
(* sched_make_ready decides by wakeup_time whether a thread is in the      *)
(* timeout list, and the scan stops at the first entry that has not        *)
(* expired: both are right only if exactly the sleepers with a wakeup time *)
(* are listed, once each and in the order of their wakeup times.           *)
(***************************************************************************)
TimeoutInvariant ==
    /\ \A t \in Thread : TimedOut(t) <=> /\ used[t]
                                         /\ state[t] = "STOPPED"
                                         /\ wakeup_time[t] # NO_TIMEOUT
    /\ \A k, l \in DOMAIN TIMEOUT_LIST : k < l =>
          /\ wakeup_time[TIMEOUT_LIST[k]] <= wakeup_time[TIMEOUT_LIST[l]]
          /\ TIMEOUT_LIST[k] # TIMEOUT_LIST[l]

(***************************************************************************)
(* How the core's registers, the stage it is in and the states of threads  *)
(* fit together at every moment of a context switch: whose state is        *)
(* RUNNING, what the thread on the core looks like before, during and      *)
(* after yield(), and what gain() may assume about the previous thread.    *)
(* With QueueSound and TypeOK this is inductive, also if alarms are late.  *)
(***************************************************************************)
Pending == stage = "gain" \/ (stage = "run" /\ pc[current] = "start")

CurrentLive  == current \in Thread => used[current]
RunningOnly  == \A t \in TCB : state[t] = "RUNNING" => t = current /\ stage = "run"
RunState     == stage = "run" /\ pc[current] # "start" =>
                    state[current] = "RUNNING" /\ phase[current] = "CTX_DIRTY"
StartState   == stage = "run" /\ pc[current] = "start" => state[current] \in {"READY", "RUNNING"}
ExpireState  == stage = "expire" => state[current] = "READY" \/ phase[current] = "CTX_DIRTY"
GainState    == stage = "gain" => current = Idle \/ state[current] = "READY"
PreviousLive == Pending => /\ previous \in TCB
                           /\ previous \in Thread /\ state[previous] = "READY" => used[previous]
SleeperLive  == \A k \in DOMAIN TIMEOUT_LIST :
                    used[TIMEOUT_LIST[k]] \/ state[TIMEOUT_LIST[k]] = "EXITED"

CoreInvariant ==
    /\ CurrentLive
    /\ RunningOnly
    /\ RunState
    /\ StartState
    /\ ExpireState
    /\ GainState
    /\ PreviousLive
    /\ SleeperLive

(***************************************************************************)
(* No thread is lost by a context switch: a live thread that left the core *)
(* READY or EXITED is still the core's previous thread, for gain() to put  *)
(* it into a queue or release it, or it is in a queue already.             *)
(***************************************************************************)
NoThreadLost ==
    \A t \in Thread : used[t] /\ state[t] \in {"READY", "EXITED"} =>
        t = current \/ Queued(t) \/ (t = previous /\ Pending)

(***************************************************************************)
(* active_threads, on which the idle thread decides to leave the           *)
(* scheduler, counts the slots in use: every TCB is released once.         *)
(***************************************************************************)
ActiveThreadsCounted == active_threads = Cardinality({t \in Thread : used[t]})

(***************************************************************************)
(* kernel_sched.h on run_scheduler: when it returns, there are no more     *)
(* active threads.                                                         *)
(***************************************************************************)
StoppedWhenNoThreads == pc[Idle] = "done" => \A t \in Thread : ~used[t]

(***************************************************************************)
(* A registered deadline lies ahead: kernel_sched.h says the sleeper is    *)
(* made ready after the timeout duration has passed, so a step that puts a *)
(* thread on the timeout list never gives it a wakeup time that has passed *)
(* already, nor the one that stands for no timeout at all.                 *)
(***************************************************************************)
DeadlineAhead ==
    [][\A t \in Thread : t \in ToSet(TIMEOUT_LIST') \ ToSet(TIMEOUT_LIST) =>
          wakeup_time'[t] \in clock..NO_TIMEOUT-1]_vars

(***************************************************************************)
(* Seen from outside the scheduler, the TCB pool is the thread life cycle  *)
(* of module ThreadLife: no step takes a thread along any other transition *)
(* and at most one thread is RUNNING, although yield, the timeout scan and *)
(* gain change the states of two threads in separate steps.                *)
(***************************************************************************)
StageName == [INIT |-> "new", READY |-> "ready", RUNNING |-> "running",
              STOPPED |-> "blocked", EXITED |-> "dead"]

LifeOf(t) == IF used[t] THEN StageName[state[t]] ELSE "free"

LifeMap == [t \in Thread |-> LifeOf(t)]

Life == INSTANCE ThreadLife WITH life <- LifeMap

ImplementsThreadLife == Life!Spec

(***************************************************************************)
(* No thread stays in the queues for ever, whatever the priorities of the  *)
(* others and however often they yield: the boost of every YIELD_RUNS      *)
(* yields brings it to the front, and only its selection takes it out.     *)
(***************************************************************************)
NoStarvation == \A t \in Thread : []<>~Queued(t)

(***************************************************************************)
(* kernel_sched.h on sleep_releasing: an EXITED thread is eventually       *)
(* cleaned up by the scheduler; no TCB stays in use and EXITED for ever.   *)
(***************************************************************************)
ExitedCleanedUp == \A t \in Thread : []<>~(used[t] /\ state[t] = "EXITED")

(***************************************************************************)
(* kernel_sched.h on sleep_releasing: a sleeper whose timeout has passed   *)
(* is made ready by the scheduler, even without a wakeup, and also if the  *)
(* clock passed it while the idle thread was about to put the core to      *)
(* sleep.                                                                  *)
(***************************************************************************)
TimeoutWakes ==
    \A t \in Thread : (TimedOut(t) /\ wakeup_time[t] <= clock) ~> state[t] # "STOPPED"

(***************************************************************************)
(* When the last thread is gone the idle thread notices and leaves the     *)
(* scheduler, also when that thread was woken and exited in an interrupt   *)
(* between the loop test and the sleep instruction: the core then sleeps   *)
(* with nothing left to run, and only the alarm of the gain() that         *)
(* released the thread makes it test again.                                *)
(***************************************************************************)
SchedulerStops == (active_threads = 0) ~> pc[Idle] = "done"

=============================================================================
