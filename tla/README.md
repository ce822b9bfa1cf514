# Verification of tinierOS

tinierOS is a preemptive kernel for the ATmega328P (AVR): threads on one core,
a multilevel feedback scheduler, processes, streams and a serial device, with
interrupts as the only source of concurrency. `src/old` keeps the multi-core
kernel it was ported from, which also has condition variables, pipes and sockets.
This directory holds TLA+ models of both, the TLC configurations that check them
and TLAPS proofs about them. Every definition is translated from the code;
`PROJECT.json` maps it to its lines, and lists the hazards the properties are for.

## Inventory

| Component | State | Operations | What is hard |
|---|---|---|---|
| Scheduler (`kernel_sched.c`) | thread pool, `SCHED[]`, `TIMEOUT_LIST`, `yield_count`, `active_threads`, `CURCORE` | `spawn_thread`, `wakeup`, `sleep_releasing`, `yield`, `gain`, `idle_thread` | a switch is spread over two threads (`yield` of one, `gain` of the next); interrupts in between; starvation; deadlines |
| Resident lists (`util.h`) | `next`/`prev` of every node | splice, push, pop, remove, append, prepend, reverse, select | no checks, one node is in a ready queue or in the timeout list |
| AVR core (`cpu.c`, `context.S`) | interrupt flag, contexts, handlers | swap, initial context, halt, ISRs | a fresh context starts with interrupts on |
| BIOS timer (`cpu.c`) | compare value, counter, latched flag, overflow count | set, cancel, clock | latched matches, 16-bit registers by bytes, CTC mode and the overflow clock |
| System call gate (`kernel_sys.c`, `kernel_cc.h`) | interrupt flag | lock, unlock | calls that yield inside |
| Processes, threads (`kernel_proc.c`) | process table, children and exited lists, PTCB pool | Exec, Exit, WaitChild, CreateThread, ThreadJoin, ThreadDetach, ThreadExit | pointers kept across yields, zombies, failing Exec, join cycles |
| Streams (`kernel_streams.c`) | FCB table, reference counts, FIDTs | reserve, unreserve, Read, Write, Close, Open | inherited FIDTs, leaks on exit |
| Devices (`kernel_dev.c`) | serial queues and waiters | open, read, write, RX/TX handlers | wakeups from interrupts, lost bytes |
| Legacy concurrency control (`old/kernel_cc.c`) | mutexes, rings of waiters, the kernel lock as a monitor | Mutex, Cond and kernel calls | timeouts that race signals, several cores |
| Legacy processes, threads | process table, PTCB lists | as above, with reparenting to init, joins that count, information streams | several joiners of one PTCB, sleepers that must hear of adopted zombies |
| Legacy streams | FCB table, counts | as above, and Dup2, two FCBs at a time, counted inheritance | calls that sleep while the descriptor is closed |
| Legacy pipes, sockets | ring buffers; ports, listeners, requests, peers | Pipe, Socket, Listen, Accept, Connect, ShutDown, Read, Write, Close | blocking on both ends, closes that must wake, timeouts, objects counted by hand |

What makes each of them correct: the scheduler must keep every READY thread
findable and run only saved contexts, reap every exited thread once, starve none
and stop exactly when no thread is left; lists must behave as sequences; a process
must be reaped once by its parent and by no other; an FCB must live as long as a
descriptor names it or a call uses it; a sleeper must be woken by the event it
waits for; a pipe must be a channel and the kernel lock a monitor; a thread that is
switched to must find its registers as it left them.

The interactions: system calls enter through the gate with interrupts off; the
process calls spawn, wake and end threads through the scheduler; devices sleep and
wake threads through it; the timer interrupt calls `yield` on the stack of
whatever runs. All of them link their objects through resident lists.

## Modules

* `Scheduler`: the scheduler with the part of the core that it depends on. With
  interrupts off the core is sequential, so one action is one uninterruptible
  stretch: `yield` up to the timeout scan (part of `Interrupt`, `YieldCall`,
  `Sleep`, `Exit`, `IdleYield`), `WakeExpired` per iteration of the scan,
  `SelectQueued`/`SelectFallback` for the choice and the context swap, `Gain` for
  the code after it. `ThreadStart` is the `gain(1)` of a thread that runs for the
  first time: its initial SREG has interrupts on, so `Interrupt` can come first.
  The loop test of the idle thread (`IdleCheck`) and its sleep instruction
  (`cpu_core_halt`) are two steps with interrupts on between them: what comes there
  returns to a core that still goes to sleep, and only an interrupt of a sleeping core
  ends the sleep (`WakeCore`, in `Interrupt`, `ClockTick` and `SerialWake`).
  The variables are the C variables; `pc` is where a thread is or resumes, `stage`
  which stretch the core is in, `armed` and `alarm` the timer's compare value and
  latched flag. The queues are sequences of threads; `PushBack` is what
  `rlist_push_back` does to them, also for a node that is in the ring already.
  A failed `assert` is a missing step. `LateAlarm` says whether a quantum may end
  while interrupts are off, which the 10 ms quantum makes rare but nothing excludes.
* `ThreadLife`: the abstract specification, the life cycle of a thread on one core.
* `RList`: the lists of `util.h` at pointer level; `rlist_select` takes one step per
  iteration. `ListSpec` is its abstract specification, sequences of nodes.
* `Context`: `cpu_swap_context` instruction by instruction, the first frame of a
  thread, and `yield`, `gain` and `spawn_thread` as far as they use them. Memory is
  the stacks; `Interrupt` may come between any two instructions when the flag is
  set, and overwrites what is below the stack pointer. `Scheduler` takes what this
  module shows, that a switch resumes a thread where it was, as one step.
* `Timer`: Timer 1 at register level, with the byte latch, CTC mode and the overflow
  count, around the loop of cancel, set and run. It justifies the two flags `armed`
  and `alarm` of `Scheduler`, and shows when they are too simple (below).
* `Processes`: process table, family rings, PTCB pool. A call is one step up to its
  next yield, and any thread may go on after a yield, which includes every choice of
  `Scheduler`. `Rings` has the list operations on next pointers; children and
  exited lists are rings here, because the code puts nodes into two of them.
  `Programs` gives the sets of calls that programs make, and `Calls` is one of them in
  each behaviour: one run asks about several disciplines, and none costs the product of
  all calls. `Streams`, `Socket` and `LegacyProc` do the same.
* `Streams`: descriptors, FCBs and their free list, with `device_open`.
* `Devices`: serial reads and writes against the UART, and the receive interrupt,
  which discards a byte.
* `CondVar`: mutexes, `cv_wait`, `cv_signal` and the kernel lock of `old/kernel_cc.c`
  on several cores, one step between two acquisitions or releases of a lock.
  `Monitor` is its abstract specification, a Mesa monitor.
* The other legacy modules take that monitor for granted: a step is what a thread does
  while it has the kernel lock, a sleeper is in the set of its condition variable, and
  a broadcast empties the set. `PipeBuffer` is the pipe control block and its
  functions, used by `Pipe` (one pipe with its descriptors; `Channel` is what it
  implements) and by `Socket`. `LegacyProc` has processes, threads and the
  information stream, `LegacyStreams` the file table. `Careful` is a discipline of
  programs that the code relies on. In `LegacyProc`: no thread waits for a child by its
  pid while another thread of the process waits for that child too, or for any child. In
  `Socket`: a socket is left alone while it is being connected, that is while a Connect
  waits or its request is still with a listener (a Connect that times out leaves it
  there), and ShutDown does not close a direction that a blocked Read or Write on the
  socket is using.
* `MCStreams` and `MCHardware` put models that share nothing side by side in one
  state space (the variable `part` says which of them a behaviour is of). The parameters
  of the parts stay parameters, since there are theorems about them.
  `MCHardware` also has the fairness of the timer.
* `SchedulerProofs`, `RListProofs`, `CondVarProofs`, `StreamsProofs`,
  `HardwareProofs`, `ProcessesProofs`, `LegacyProcProofs`, `SocketProofs`: the theorems,
  each about the module it is named after (`StreamsProofs` about `Streams`,
  `LegacyStreams` and `Pipe` through `MCStreams`, `HardwareProofs` about `Timer`, `Devices` and `Context` through
  `MCHardware`).

The definitions marked `fault` (`release_TCB_Leaked`, `BoostedLevels_Short` and the like)
are variants of the definition that follows them, each with one
plausible bug. No specification uses them; they serve to confirm that every
property notices the bug it is there for.

## Runs

| Run | Instance | Shows |
|---|---|---|
| `sched` | 3 threads, 2 levels, I/O and mutex yields, timeouts 2 and 6 of a clock that goes from 0 to 2 and wraps after 7; 6.8 million states | `SchedQueueInvariant` (the one `kernel_sched.h` states), `NoThreadLost` by a switch, `ActiveThreadsCounted`, `TimeoutInvariant`, `StoppedWhenNoThreads` |
| `sched_live` | 3 threads, 2 levels, timeout 1, clock to 1, fair; 519 000 | `NoStarvation`, `ExitedCleanedUp`, `TimeoutWakes`, `SchedulerStops` |
| `sched_late` | 3 threads, 2 levels, late alarms, sleeps without a timeout; 2.3 million | `QueueSound` and `CoreInvariant`, with `TypeOK` the inductive invariant of the proofs, and `ImplementsThreadLife` |
| `late_exit` | 2 threads, late alarms, fair | **violated**: `ExitedCleanedUp`; an exited thread is never released |
| `rlist` | 2 lists, 4 nodes; 23 000 | the pointers implement `ListSpec`; `rlist_select` partitions; `prev` is the inverse of `next` |
| `proc_family` | 5 slots, 4 processes of one thread; 305 000 | `RingsSound`: rings agree with parents and states while slots are used again; `WaitSound`: a wait keeps a target that can end it |
| `proc_threads` | 3 threads, pools that run out, joins and detaches, fair; 49 000 | `ThreadsSound`: counts and PTCBs exact on failing paths; every WaitChild returns, and every join that is not behind a circle of joins |
| `streams` | 2 processes, 4 descriptors, 3 FCBs; for the legacy table 2 descriptors and 2 threads each; a pipe of 2 bytes and 3 threads; 831 000 | `TableSound`, `OldTableSound`: no FCB lost, shared or reused under a descriptor or a call; `PipeSound`, `NoLostWakeup`, `PipeIsChannel` |
| `hardware` | registers of 2 digits in base 3; 2 readers, 2 writers, 3 bytes; 3 stacks of 9 bytes, 4 registers; 726 000 | `TimerExact`: what OCR1A can hold, with interrupts between its bytes; `ThreadInterrupted`; `SerialSound`; `SwitchSound`: a thread finds every register, its flags, return address and stack, and nothing touched its frame |
| `monitor` | 3 threads, timeouts, fair; 200 000 | `WaitSound`: exclusion, no dangling waiter; `SignalNotLost`, `SleeperWoken`, `ImplementsMonitor` |
| `socket` | 3 sockets, 3 threads, 1 port, 3 files, connecting with timeouts and closes, fair; 169 000 | `SocketSound`: ports, counts, pointers and pipe ends agree; Accept serves requests that wait; a close ends blocked reads and writes |
| `old_proc` | 3 processes, 4 threads, Exec with and without a task, fair; 255 000 | `ProcSound`: family, free list, counts, sleepers and PTCBs agree; zombies of dead parents are reaped; joins return; an information stream misses no process that stays |

Bounds. Three threads are the smallest number with one running, one just
left and one waiting, and two of them can keep a third from the core. Two levels have
a boost, a demotion and a saturation at both ends. A timeout list of three
sleepers has a first, a middle and a last place. `NO_TIMEOUT` stands for the largest
`TimerDuration`, `ClockStep` for the 256 that an overflow adds to `bios_clock`, and
`MaxClock` stops the clock. In `sched` a timeout of 2 expires when the clock moves, one of
6 never does if it was set before that, and wraps into the past if it was set after. In
`sched_live` a timeout of 1 that is set before the clock moves expires while the thread
sleeps, and one that is set after does not expire, so that only a wakeup ends it.
Sleeps that have no timeout at all are in `sched_late` and `late_exit`. Four list
nodes suffice for two lists with two nodes each, or a select that keeps and
moves two.

A mixed stack pointer needs a third stack to hit; four registers have one that the
status register passes through, the two that hold a pointer, and one more. In base 3 a 16-bit timer register has 9 values, enough for a quantum whose two
bytes differ. Processes need a parent, a child, a grandchild and a slot to use again.
More descriptors than FCBs fill the file table first, and the legacy table, with two
descriptors, is filled from the other side. A pipe of two bytes, written two at a time,
wraps at every position. Three sockets are a listener and two ends. Where a run has
fewer processes or threads than a neighbour, its properties are temporal. Symmetry is
used for the threads of `streams` only: they are never chosen by name, and the
temporal property there is a safety property.

Fairness. Scheduler code runs to its end (weak fairness of `SchedStep`). A thread
with interrupts off gives them back or gives the core up, as every system call
does (weak fairness of `KernelProgress`); user code owes nothing. A timer match
is latched in hardware and served as soon as interrupts are on, although they go off
again and again (strong fairness of `Interrupt`). The loop of the idle thread
takes microseconds and the quantum milliseconds, so preemption does not stop it
forever (strong fairness of `IdleYield \/ IdleCheck \/ cpu_core_halt`). Nothing is
assumed of the clock or of the serial line: a core that sleeps is woken by the alarm.

Elsewhere: a thread that was woken, or whose loop yields, gets the core or the kernel
lock in the end (weak fairness of `Resumes`, `Wakes`, `Progress`), which
the round-robin queues with their boost give (`NoStarvation`), and a thread that holds
the lock leaves it. `Processes` also assumes that programs end, by Exit, ThreadExit or
the return of a task (strong fairness of `Finishes`); without it nothing could be said of a wait
or a join for them. The counter of `Timer`
counts, and its latched interrupts are served (strong fairness, since the flag goes off
and on).

### Disagreements

`late_exit`: `cpu_initialize_context` sets the interrupt flag in the initial SREG
(`cpu.c:179`), and `bios_cancel_timer` does not clear a match that is already latched.
If the quantum of a thread ends while it is in a system call that gives up the core to
a thread that never ran, the alarm is served in that thread before its `gain(1)`: the
nested `yield` overwrites `CURCORE.previous_thread`, and the thread that left is neither
queued nor released. With two threads (the shipped build) the damage is a leaked exited
thread, or one that is READY and in no queue; from three threads on a TCB can be released
twice and `StoppedWhenNoThreads` fails too.

The models state more that comments, assertions or the documentation in `tinyos.h`
promise and the code does not do. Those formulas have no run of their own; TLC refutes
each within seconds under the constants given here (others as in the runs).

| Module | Formula | Constants | What happens |
|---|---|---|---|
| Scheduler | `DeadlineAhead` | as in `sched` | `curtime + timeout` wraps into the past (`kernel_sched.c:239`) |
| Scheduler | `TimeoutInvariant` | as in `sched`, `Timeouts = {5}` | it becomes `NO_TIMEOUT`, and a wakeup leaves the sleeper in the list (`:239`, `:274`) |
| RList | `PopsTail` | `SpecAll` | `rlist_pop_back` takes the sentinel out and empties the list (`util.h:454`); the kernel does not call it |
| Processes | `ZombieAwaitable` | Exec, Exit, WaitAny | `Exit` unlinks the child from `children_list`, so WaitChild for any child refuses when only zombies are left (`kernel_proc.c:176`) |
| Processes | `WaitTargetValid`, `ExitEndsProcess` | Exec, Exit, WaitChild, CreateThread | two waiters for one child reap it twice (`:164`); `Exit` ends one thread only (`:201`) |
| Processes | `ReapsOwnChild` | Exec, Exit, WaitChild | orphans pass to the next process of their parent's slot (`:162`) |
| Processes | `WaitsForSomeone` | `MAX_THREADS = 1`; Exec, Exit, WaitAny | an Exec that fails leaves its slot linked (`:127`) |
| Processes | `ThreadHasTask` | CreateThread, ThreadExit | PTCBs are never given back (`kernel_sched.c:164`) |
| Processes | `ThreadCountExact` without its condition | CreateThread, Return | a task that returns decrements `thread_count` with interrupts on (`kernel_proc.c:263`) |
| Processes | `JoinChecked` | CreateThread, Join, Detach | a thread may join itself, for ever, or a detached one (`:239`) |
| Processes | `JoinReturns` without `JoinsInCircle` | as in `proc_threads` | a thread that joins itself never returns (`:239`) |
| Processes | `ArgCopied` | `ArgLens = {2}` | a long argument is cut and its length kept (`:118`) |
| Streams | `DescriptorKeepsStream` without its condition | Open, Close, Exec | Exec copies descriptors without counting them (`kernel_proc.c:106`) |
| Devices | `ReadReturns` | `Endless`, one reader, one other thread, fair | the receive interrupt throws bytes away (`cpu.c:99`) |
| Timer | `QuantumExact` with `OCR1A = ticks` alone | | an alarm between the two bytes of a register takes the high one (`cpu.c:234`) |
| Timer | `AlarmOnTime` | | the compare value is written before the counter is reset (`cpu.c:238`) |
| Timer | `ClockAdvances` | fair | in CTC mode the counter does not overflow (`cpu.c:202`) |
| Context | `HighByteOnTop` | | a comment has the bytes the wrong way round; the code is right (`cpu.c:152`) |
| Pipe | `FreedWhenClosed` | | `=` for `==`: a pipe whose writer closed first is not freed (`old/kernel_pipe.c:187`) |
| Socket | `NoUseAfterFree` | `Careful = FALSE`, Timeout, Close | a Connect that timed out leaves its request in the queue (`old/kernel_socket.c:223`) |
| Socket | `NoUseAfterFree` | `Careful = FALSE`, ShutDown, Read, Close | a Read sleeps on a pipe whose reading end is shut down, and the close of the peer frees the pipe (`:240`) |
| Socket | `AcceptEnds`, `ConnectEnds` | Listen, Accept, Connect, Close | sleepers that the close of a listener does not end (`:104`, `:305`) |
| Socket | `EndsHeld` | `Careful = FALSE`, 4 sockets | two threads connect one socket (`:192`), or one connects again after a timeout and the old request is served too |
| Socket | `PortMapSound` | `Careful = FALSE`, `UsedPorts = {1, 2}`, Timeout | a socket listens after its Connect has timed out; Accept takes the old request and makes the listener a peer (`:143`) |
| Socket | `PortInArray` | `UsedPorts = {1, 3}` | port `MAX_PORT` is accepted and one past the array (`:24`) |
| Socket | `ShutdownEndsRead` | `Careful = FALSE`, ShutDown, Read | nobody wakes a blocked reader (`:239`) |
| LegacyProc | `FamilySound` | `Careful = FALSE` | a thread that waits for a child by its pid reaps it again after another thread has (`old/kernel_proc.c:214`) |
| LegacyProc | `FreeHasNoPtcbs` | | an inverted loop condition: PTCBs are not freed (`old/kernel_threads.c:166`) |
| LegacyProc | `ExitedChildless` | CreateThread, ThreadExit | an init that ends by ThreadExit keeps its children (`:158`) |
| LegacyProc | `InfoArgs` | `ArgLens = {0, 1}`, OpenInfo | the arguments of a zombie are read through NULL (`old/kernel_proc.c:324`) |

## Proofs

Every theorem is for all values of the constants that satisfy the `ASSUME`s of the
modules (positive sizes, timeouts within the clock's range) and its own hypotheses.
Each inductive invariant was checked with TLC on the instance of its run first.

**Scheduler** (any number of threads, queues, yields between boosts, any clock width)

* `TypeSafe`, `QueueSafe`, `CoreSafe`: `Spec => []TypeOK`, `[]QueueSound`,
  `[]CoreInvariant`, with or without late alarms. None of them is inductive alone. That
  a boost keeps priorities in range needs that a thread in queue *i* has priority *i*
  (`QueueSound`); that `gain` may queue the previous thread needs that it is live if
  READY (`PreviousLive`); that the scan may queue a sleeper needs that a current thread
  which is not READY is dirty (`ExpireState`); that `SpawnThread` disturbs no queue
  needs that queued threads are live. `IInv` is the conjunction of the three, and the
  proof has one lemma per stretch of code: `BoostSound`, `YieldSound`, `QueueAddSound`,
  `MakeReadySound`, `SwitchSound`, `GainSound`, `SpawnSound`.
* `SchedulerImplementsThreadLife`: `Spec => ImplementsThreadLife`. From `IInv`,
  every step is a step of the life of one thread, a dispatch with at most one reap,
  or no step of any life.
* `NoThreadLostSafe`, `SchedQueueSafe` (for `LateAlarm = FALSE`; run `late_exit` shows that
  they need it): `Exact` adds to the two properties that the quantum timer is off from
  `bios_cancel_timer` to the end of `gain` (`TimerQuiet`), so that nothing comes between
  a thread that starts and its `gain(1)`, and that a dirty context is the one on the
  core or the one being put away. The other half, that what leaves a queue is exactly
  what is selected or readied, is in the lemmas `InsertExact` and `RemoveExact`.
* `CountSafe`, `StopSafe`: with `MAX_THREADS < UintMod` besides, since `active_threads` is an
  `unsigned int` and counts modulo its range. A step changes the set of used slots by
  one slot at most, and `gain` releases a thread only while its slot is used; that the
  idle thread has left its loop means that it has seen the counter at zero (`Returned`).
* `TimeoutSafe`: with late alarms and deadlines that wrap, if no deadline falls on the
  value `NO_TIMEOUT` (`NoReservedDeadline`). It needs that a thread which is not asleep has
  no deadline (`AwakeNoDeadline`): otherwise one that goes to sleep could be in the list.

**Lists.** `RingSafe`: `prev` is the inverse of `next` after any sequence of list
operations on any set of nodes; `SpliceInvolution`, `RemoveIsolates` and
`PopFrontOfEmpty` are what `util.h` says of the operations.

**Processes** (any number of slots, threads and PTCBs)

* `ThreadsSafe`: `Spec => []ThreadsSound`, for every mix of system calls. `ThreadInv` adds
  that `next` is a permutation (otherwise `Remove` and `PushBack` have no predecessor to
  find), that a TCB in the middle of a call holds what the call left in it, that a PTCB
  is in use while a thread has it and is of one thread only, and that an unused PTCB is
  not marked exited.
* `RingsSafe`, `WaitSafe`: for programs of one thread (the calls Exec, Exit, WaitChild) and
  `MAX_PROC <= MAX_THREADS + 1`. Both hypotheses are needed (Disagreements): two threads
  of a process can reap one child twice, and an Exec that finds no thread leaves its slot
  linked. The repository has two of each, and pid 0 has no thread. `FamilyInv` gives every
  node a home, the list that its PCB's state and parent put it in or itself (`Home`), and
  says that `next` never leaves a home (`Kept`) and that a set closed under `next` which
  has one node of a home has all of them (`OneRing`). Splicing a lone node in and taking
  one out keep both (`InsertRing`, `RemoveRing`). `RingIs` shows that `RingOf`, which walks
  `next` as often as there are nodes, then finds exactly the nodes of one home: a round that
  adds nothing has closed the set, and there cannot be more rounds than nodes. That
  induction on the rounds is by a least counterexample (`MinIn`), since the library's
  induction theorems take an operator.

**Legacy processes** (any number of slots and threads, any mix of calls)

* `ProcSafe`, `InfoSafe`: `Careful /\ Spec => []ProcSound`, `[]InfoComplete`. `LInv` makes the parts
  that the property relates exact. `FamilyInv`: every process in use but init has a parent
  that lives or is init and lists it, an exited list is the zombies among the children, once
  each, and the free list is the free slots; reparenting moves all children of an exiting
  process and must find none of them twice. `CountInv`: `thread_count` is the
  number of threads, and a process that was given a task lives as long as it has one (one
  without a task has no thread and lives for ever). `CauseInv`: a sleeper that no
  broadcast has reached has nothing to find. `TargetInv`: the child of a waiter, woken or not,
  is still in the table, and no other thread of the process will reap it. `JoinInv`: the PTCB
  that a thread joins is of its process, counts its joiners, and wakes them only once
  it is exited or detached. `InfoInv`: the cursor has passed only slots that
  were reported or were not in the table all the time. `Careful` is needed where a waiter
  reaps: that no other thread of the process sleeps for the same child by its pid. Any number
  of threads may wait for different children, or each for any.

**Legacy sockets** (any number of sockets, threads and ports, any mix of calls)

* `SocketSafe`: `Careful /\ Spec => []SocketSound`. What Accept does to the two sockets of a
  connection is right only if the peer in the request is open, unbound and in no other
  request; that is `QueueInv`, and it is what the first half of `Careful` protects: Listen,
  Connect, Close and ShutDown of a socket that is being connected would break it. The second
  half, no ShutDown of a direction that a blocked call is using, protects `CallInv`: a call
  that sleeps on a pipe keeps it from being freed only through the socket's pointer to it. `Ends` says that a pipe end
  is open exactly when a socket holds it, that no two sockets hold it, and that
  the pipes of connections to come are unused; so the pipes of a new connection are held by
  its two sockets. `CountInv` has the reference counts of sockets and FCBs as
  numbers of threads, `SockInv` what the type of a socket says of its pointers, `CallInv`
  what a call in progress may still touch.

**Timer** (any byte width, any quantum). `TimerSafe`: `MCSpec => []TimerExact`. What OCR1A
holds depends on what TEMP held when the second byte was written. If yield is entered with
interrupts off, `TimerInv` says that it is the first byte of the same access (`TempExact`),
which needs that interrupts are off between the two (`Masked`). If it is not, the handler
of the compare interrupt may run all of the same code in between; the last thing it writes
is the count, so that it leaves 0 in TEMP (`TempMixed`), and the register holds what was
asked for or its low byte alone (`CompareMixed`).

**Serial device** (any number of readers and writers, any receiver, any number of bytes)

* `SerialSafe`: `MCSpec => []SerialSound`. The bytes in the receiver rise and are later than
  those in any buffer (`RxInv`, `BufInv`), so what `serial_read` takes is in order for every
  reader and in no other buffer, although the interrupt throws bytes away in between.

**Switch of stacks** (any number of threads and registers, any byte width).
`SwitchSafe`: `MCSpec => []SwitchSound`, on stacks of at least `NReg + 6` bytes, for a frame
with a local variable above it, and `IsrDepth + 4`, for an interrupt while the last byte of a
first frame is popped (`StackAssumption`). The code has `NReg` = 31 and 256 bytes. That
a thread finds what it left is the end of a long chain, so `StackInv` says how far it has
come: which bytes of the frame are written after *k* pushes (`Leaving`), that the whole
frame stands while a thread is suspended (`AllSuspended`), which registers are restored after
*k* pops (`Arriving`). A step writes only to the stack of the thread on the core
(`OthersKept`, `StacksApart`), and below the frame (`FrameKept`). Between the two writes of
the stack pointer it may point anywhere, but the flag is off (`Leaving`), and it is on again
only when one byte of the frame is left, which is where the second size comes from
(`InterruptStep`). The arithmetic of the two writes is `LowThenHigh`.

**Streams and pipes** (any number of processes, descriptors, FCBs, threads, any buffer)

* `TableSafe`: `MCSpec => []TableSound`. `TableInv` strengthens it to what the free list and the
  counts say of every FCB, in the three disciplines of programs that the property
  tells apart (no Exec; Exec without Close; both).
* `OldTableSafe`: `MCSpec => []OldTableSound`. `OldInv` says that an FCB is in the free list,
  once, exactly when no descriptor names it and no call uses it, and that otherwise its
  count is the number of both (`CountOK`; the count of a free FCB does not matter, a failed
  open leaves it at 1); that streams are kept (`OldKept`); and that a process that does not run
  has no descriptor and is in no call (`OldGone`), without which Exec would overwrite descriptors
  that are counted. A write of one descriptor moves one use (`WriteFid`, `WriteUse`), an Exec or
  an exit those of a process (`WriteRow`), and `CountUp` and `CountDown` do the same to the counts.
* `PipeSafe`, `WakeupSafe`: the positions, the count and the bytes of the ring agree, the
  counts of the two ends agree with descriptors and calls, and a sleeper's condition
  does not hold unless it has been woken (`PipeInv`).
* `PipeImplementsChannel`: `MCSpec => PipeIsChannel`, with the contents of the ring read from
  its read position as the queue of `Channel`.

**Legacy kernel lock** (any set of threads, with and without timeouts)

* `WaitSafe`, `SignalNeverLost`: `Inv` ties the place of a thread in its call to who holds
  `waitset_lock` and `kernel_mutex`, to the rings and to its state: a signal takes a thread
  from the ring only when that thread has come to sleep, because the lock is held until
  then; who is in a ring is there once and is not signalled; a STOPPED thread is in a
  ring. `SignalNotLost` is an action property that follows from it.
* `KernelLockIsMonitor`: `Spec => ImplementsMonitor`; a step is at most one monitor step.

Only model-checked:

* liveness and everything about fairness (outside the prover's reach):
  `NoStarvation`, `ExitedCleanedUp`, `TimeoutWakes`, `SchedulerStops`, `WaitReturns`,
  `JoinReturns`, `ThreadInterrupted`, `SleeperWoken`, `AcceptServes`, `CloseEndsIO`, `OrphansReaped`;
* `SelectPartitions` and `ImplementsLists`: they filter or walk a sequence, which needs induction
  over data.

One limit of the scheduler model: the timeout list and the ready queues are
separate sequences, while in the code one node links a thread into either. The
two agree as long as a thread is never in both, which `TimeoutInvariant` and
`QueueSound` check; after a deadline has wrapped to exactly `NO_TIMEOUT` they no
longer do, and the model says nothing about what follows.

## Not modelled

* Exit values and the contents of arguments: data that no decision depends on.
* `its` and `rts` of a thread: every quantum is set from `its`, which never changes.
* `startup.S` and the boot messages: straight-line code before the scheduler runs.
* The C library subset, the argument packing helpers of `util.h` and the null
  device: byte copies and stubs without state.
* `old/kernel_dev.c` beyond `device_open`, and the start of the cores: they depend on a
  BIOS that is not in the repository. Whether `serial_read` can miss a byte depends on
  whether that BIOS repeats an interrupt.
* ShutDown of a socket that is not connected follows pointers that were never set;
  the unit of socket timeouts; failure of `malloc` in the legacy kernel.
* The stack use of compiled code: `Context` takes it that no stack overflows.

