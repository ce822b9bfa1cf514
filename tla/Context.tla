------------------------------- MODULE Context -------------------------------
(***************************************************************************)
(* The context switch: cpu_swap_context of context.S instruction by        *)
(* instruction, the stack frame that cpu_initialize_context builds for a   *)
(* new thread, and when yield and gain (kernel_sched.c) use them.          *)
(*                                                                         *)
(* Memory is the stacks, one after the other; push stores at SP and then   *)
(* decrements it.  The stack pointer is two bytes, written one at a time.  *)
(* An interrupt between two instructions overwrites what is below SP.      *)
(***************************************************************************)
EXTENDS Integers, Sequences

CONSTANTS
    NThreads,           \* thread slots; 0 is the idle thread, on the boot stack
    THREAD_STACK_SIZE,
    NReg,               \* the number of the last register, 31 on the AVR
    Byte,               \* values of a byte, as far as addresses go
    IsrDepth,           \* bytes an interrupt uses of the stack
    Versions            \* tell what a thread computes at one time from another

Threads == 0 .. NThreads
Regs    == 0 .. NReg
Memory  == 0 .. THREAD_STACK_SIZE * (NThreads + 1) - 1
SREG    == -1           \* stands for the status register in lists of registers

ss_sp(t) == t * THREAD_STACK_SIZE
Top(t)   == ss_sp(t) + THREAD_STACK_SIZE - 1

Zero == <<"zero">>
Junk == <<"junk">>
Lo(a) == <<"lo", a>>    \* the bytes of a code address
Hi(a) == <<"hi", a>>

\* SREG: the interrupt flag and the other flags.
SregOf(i, flags) == <<"sreg", i, flags>>
I(sreg) == sreg[2]

VARIABLES
    mem, sp,
    regs, sreg,
    cur,        \* the thread on whose stack the core is
    next,       \* the thread that cpu_swap_context switches to
    at,         \* the next instruction of cpu_swap_context, or "run"
    prev,       \* previous_thread
    state,      \* of each thread: "UNUSED", "READY" (also RUNNING) or "EXITED"
    ctx,        \* the saved stack pointers
    preempts,   \* the local variable of that name of yield, in each thread
    saved       \* ghost: what each thread has to find when it is resumed

vars == <<mem, sp, regs, sreg, cur, next, at, prev, state, ctx, preempts, saved>>

Op(op, k) == [op |-> op, k |-> k]
Run == Op("run", 0)

\* The stack of t above stack pointer a.
Image(m, t, a) == [x \in 1 .. Top(t) - a |-> m[a + x]]

\* What a thread computes into its registers; v tells one time from the next.
Values(t, v) == [r \in Regs |-> <<"reg", t, r, v>>]

Init ==
    /\ mem = [a \in Memory |-> Zero] /\ sp = Top(0)
    /\ regs = Values(0, Zero) /\ sreg = SregOf(TRUE, Zero)
    /\ cur = 0 /\ next = 0 /\ at = Run /\ prev = 0
    /\ state = [t \in Threads |-> IF t = 0 THEN "READY" ELSE "UNUSED"]
    /\ ctx = [t \in Threads |-> 0] /\ preempts = [t \in Threads |-> TRUE]
    /\ saved = [t \in Threads |-> <<>>]

-----------------------------------------------------------------------------
\* The bytes of a new stack from the highest address down.
InitialFrame(func) == <<Lo(func), Hi(func), Zero, SregOf(TRUE, Zero)>> \o [i \in 1 .. NReg |-> Zero]

cpu_initialize_context(t, func) ==
    LET frame == InitialFrame(func) IN
    /\ mem' = [a \in Memory |-> IF a \in Top(t) - Len(frame) + 1 .. Top(t)
                                THEN frame[Top(t) - a + 1] ELSE mem[a]]
    /\ ctx' = [ctx EXCEPT ![t] = Top(t) - Len(frame)]

\* spawn_thread, in a system call.
Spawn(t) ==
    /\ at = Run /\ cur # t /\ state[t] = "UNUSED"
    /\ cpu_initialize_context(t, "thread_start")
    /\ state' = [state EXCEPT ![t] = "READY"]
    /\ saved' = [saved EXCEPT ![t] = [ regs |-> [r \in Regs |-> Zero], sreg |-> SregOf(TRUE, Zero),
                                       pc |-> "thread_start", sp |-> Top(t), stack |-> <<>> ]]
    /\ UNCHANGED <<sp, regs, sreg, cur, next, at, prev, preempts>>

\* The thread computes, turns interrupts off or on for a system call, and
\* may push a local variable.
Computes(v, i) ==
    /\ at = Run
    /\ regs' = Values(cur, v)
    /\ sreg' = SregOf(i, v)
    /\ UNCHANGED <<mem, sp, cur, next, at, prev, state, ctx, preempts, saved>>

Pushes(v) ==
    /\ at = Run /\ sp = Top(cur)
    /\ mem' = [mem EXCEPT ![sp] = <<"local", cur, v>>]
    /\ sp' = sp - 1
    /\ UNCHANGED <<regs, sreg, cur, next, at, prev, state, ctx, preempts, saved>>

\* An interrupt whose handler returns to where it was.
Interrupt ==
    /\ I(sreg)
    /\ mem' = [a \in Memory |-> IF a \in sp - IsrDepth + 1 .. sp THEN Junk ELSE mem[a]]
    /\ UNCHANGED <<sp, regs, sreg, cur, next, at, prev, state, ctx, preempts, saved>>

\* fault: preemption is not turned off
preempt_off_Not == sreg
preempt_off == SregOf(FALSE, sreg[3])

(***************************************************************************)
(* yield to another thread, which may be to exit: preemption off, and the  *)
(* call of cpu_swap_context, which pushes its return address.              *)
(***************************************************************************)
yield(t, exits) ==
    /\ at = Run /\ t # cur /\ state[t] = "READY" /\ (exits => cur # 0)
    /\ prev' = cur
    /\ sreg' = preempt_off
    /\ mem' = [mem EXCEPT ![sp] = Lo("yield"), ![sp - 1] = Hi("yield")]
    /\ sp' = sp - 2
    /\ state' = [state EXCEPT ![cur] = IF exits THEN "EXITED" ELSE @]
    /\ saved' = [saved EXCEPT ![cur] = [ regs |-> regs, sreg |-> preempt_off, pc |-> "yield",
                                         sp |-> sp, stack |-> Image(mem, cur, sp) ]]
    /\ preempts' = [preempts EXCEPT ![cur] = I(sreg)]
    /\ next' = t /\ at' = Op("push", 1)
    /\ UNCHANGED <<regs, cur, ctx>>

-----------------------------------------------------------------------------
\* The registers in the order they are pushed, and popped.
PushOrder == <<0, SREG>> \o [i \in 1 .. NReg |-> i]
PopOrder  == [i \in 1 .. NReg |-> NReg + 1 - i] \o <<SREG, 0>>

\* SREG goes through r0.
Push ==
    LET r == PushOrder[at.k] IN
    /\ at.op = "push"
    /\ mem' = [mem EXCEPT ![sp] = IF r = SREG THEN sreg ELSE regs[r]]
    /\ regs' = IF r = SREG THEN [regs EXCEPT ![0] = sreg] ELSE regs
    /\ sp' = sp - 1
    /\ at' = IF at.k < Len(PushOrder) THEN Op("push", at.k + 1) ELSE Op("save", 0)
    /\ UNCHANGED <<sreg, cur, next, prev, state, ctx, preempts, saved>>

\* Stores SP into oldctx and points Z (r30, r31) to newctx.
SaveSP ==
    /\ at.op = "save"
    /\ ctx' = [ctx EXCEPT ![cur] = sp]
    /\ regs' = [regs EXCEPT ![0] = Junk, ![NReg - 1] = Junk, ![NReg] = Junk]
    /\ at' = Op("SPL", 0)
    /\ UNCHANGED <<mem, sp, sreg, cur, next, prev, state, preempts, saved>>

LoadSPL ==
    /\ at.op = "SPL"
    /\ sp' = (sp \div Byte) * Byte + (ctx[next] % Byte)
    /\ at' = Op("SPH", 0)
    /\ UNCHANGED <<mem, regs, sreg, cur, next, prev, state, ctx, preempts, saved>>

LoadSPH ==
    /\ at.op = "SPH"
    /\ sp' = (ctx[next] \div Byte) * Byte + (sp % Byte)
    /\ cur' = next          \* CURTHREAD; nothing reads it since yield set it
    /\ at' = Op("pop", 1)
    /\ UNCHANGED <<mem, regs, sreg, next, prev, state, ctx, preempts, saved>>

Pop ==
    LET r == PopOrder[at.k]
        b == mem[sp + 1]
    IN
    /\ at.op = "pop"
    /\ sp' = sp + 1
    /\ regs' = [regs EXCEPT ![IF r = SREG THEN 0 ELSE r] = b]
    /\ sreg' = IF r = SREG THEN b ELSE sreg
    /\ at' = IF at.k < Len(PopOrder) THEN Op("pop", at.k + 1) ELSE Op("ret", 0)
    /\ UNCHANGED <<mem, cur, next, prev, state, ctx, preempts, saved>>

\* ret pops the high byte first.
ReturnAddress == IF mem[sp + 1] = Hi(mem[sp + 1][2]) /\ mem[sp + 2] = Lo(mem[sp + 1][2])
                 THEN mem[sp + 1][2] ELSE "nowhere"
Ret ==
    /\ at.op = "ret" /\ ReturnAddress # "nowhere"
    /\ sp' = sp + 2
    /\ at' = Op(ReturnAddress, 0)
    /\ UNCHANGED <<mem, regs, sreg, cur, next, prev, state, ctx, preempts, saved>>

\* release_TCB of the thread that was left, if it has exited.
release_TCB(t) == state' = [state EXCEPT ![t] = IF @ = "EXITED" THEN "UNUSED" ELSE @]

\* gain, called by yield or by thread_start of a new thread; both get here
\* with the interrupt flag that their context had.
gain ==
    /\ at.op \in {"yield", "thread_start"}
    /\ release_TCB(prev)
    /\ sreg' = SregOf(I(sreg) \/ at.op = "thread_start" \/ preempts[cur], sreg[3])
    /\ at' = Run
    /\ UNCHANGED <<mem, sp, regs, cur, next, prev, ctx, preempts, saved>>

Next ==
    \/ \E t \in Threads : Spawn(t) \/ \E exits \in BOOLEAN : yield(t, exits)
    \/ \E v \in Versions : (\E i \in BOOLEAN : Computes(v, i)) \/ Pushes(v)
    \/ Interrupt \/ Push \/ SaveSP \/ LoadSPL \/ LoadSPH \/ Pop \/ Ret \/ gain

Spec == Init /\ [][Next]_vars

-----------------------------------------------------------------------------
(***************************************************************************)
(* A thread that is switched to finds what it left, or what its first      *)
(* frame promises: every register, the flags, its return address and its   *)
(* stack.  This holds when ret has returned, over any number of switches,  *)
(* interrupts between them and slots used again.                           *)
(***************************************************************************)
Resumed == at.op \in {"yield", "thread_start"} =>
    /\ regs = saved[cur].regs /\ sreg = saved[cur].sreg /\ at.op = saved[cur].pc
    /\ sp = saved[cur].sp /\ Image(mem, cur, sp) = saved[cur].stack

(***************************************************************************)
(* While a thread is suspended nothing writes to its frame: neither the    *)
(* thread that runs nor an interrupt between the two writes of the stack   *)
(* pointer, when it is the mix of two stacks.                              *)
(***************************************************************************)
FrameIntact == \A t \in Threads : state[t] = "READY" /\ t # cur =>
    /\ ctx[t] = saved[t].sp - NReg - 4
    /\ Image(mem, t, saved[t].sp) = saved[t].stack
    /\ \A k \in 1 .. NReg + 2 :
        mem[ctx[t] + k] = IF PopOrder[k] = SREG THEN saved[t].sreg ELSE saved[t].regs[PopOrder[k]]

(***************************************************************************)
(* "'ret' pops low byte, then high byte.  So we must store high byte at    *)
(* higher address, low byte at lower address": the frame of a thread that  *)
(* has not run has the high byte of its address at the top.                *)
(* The code does not keep this (README, Disagreements).                    *)
(***************************************************************************)
HighByteOnTop == \A t \in Threads :
    state[t] = "READY" /\ t # cur /\ saved[t].pc = "thread_start" => mem[Top(t)] = Hi("thread_start")

=============================================================================
