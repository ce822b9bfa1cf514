----------------------------- MODULE MCHardware -----------------------------
(***************************************************************************)
(* One run for the code next to the hardware: the timer (module Timer),    *)
(* the serial device (module Devices) and the switch of stacks (module     *)
(* Context).  A behaviour is one of these; they share no variable.         *)
(***************************************************************************)
EXTENDS Timer

CONSTANTS
    NThreads, THREAD_STACK_SIZE, NReg, IsrDepth,    \* of Context
    NVersions,
    Readers, Writers, Size, RxDepth, MaxBytes       \* of Devices

\* A stack has room for a local variable, a frame and a byte, and for an
\* interrupt when the last byte of a first frame is to be popped.
ASSUME StackAssumption ==
    /\ NThreads \in Nat /\ NReg \in Nat \ {0} /\ IsrDepth \in Nat
    /\ THREAD_STACK_SIZE \in Nat
    /\ THREAD_STACK_SIZE >= NReg + 6 /\ THREAD_STACK_SIZE >= IsrDepth + 4

\* Who reads does not write, and a Read or Write asks for some bytes.
ASSUME SerialAssumption ==
    /\ Readers \cap Writers = {} /\ "idle" \notin Readers \cup Writers
    /\ Size \in Nat \ {0} /\ RxDepth \in Nat /\ MaxBytes \in Nat \ {0}

VARIABLES
    part,
    running, mode, buf, count, line, rx, tx, wire,              \* of Devices
    mem, sp, regs, sreg, cur, next, at, prev, state, ctx, preempts, saved

D == INSTANCE Devices WITH Others <- {}, Endless <- FALSE
C == INSTANCE Context WITH Byte <- Base, Versions <- {<<"version", n>> : n \in 1 .. NVersions}

device == <<running, mode, buf, count, line, rx, tx, wire>>
stacks == <<mem, sp, regs, sreg, cur, next, at, prev, state, ctx, preempts, saved>>
allvars == <<part, vars, device, stacks>>

\* What is not part of a behaviour stays as it is at boot.
TimerOff  == Init /\ ~Preemptible
DeviceOff == D!Init /\ running = D!IDLE

MCInit ==
    \/ part = "timer"   /\ Init     /\ DeviceOff /\ C!Init
    \/ part = "serial"  /\ TimerOff /\ D!Init    /\ C!Init
    \/ part = "switch"  /\ TimerOff /\ DeviceOff /\ C!Init

MCNext ==
    /\ \/ part = "timer"   /\ Next   /\ UNCHANGED <<device, stacks>>
       \/ part = "serial"  /\ D!Next /\ UNCHANGED <<vars, stacks>>
       \/ part = "switch"  /\ C!Next /\ UNCHANGED <<vars, device>>
    /\ UNCHANGED part

\* The timer counts, interrupts that are on are served, code goes on.
TimerFairness ==
    /\ WF_system(part = "timer" /\ Tick) /\ WF_system(part = "timer" /\ Access)
    /\ SF_system(part = "timer" /\ Alarm) /\ SF_system(part = "timer" /\ Overflow)

MCSpec == MCInit /\ [][MCNext]_allvars /\ TimerFairness

-----------------------------------------------------------------------------
(***************************************************************************)
(* bios_set_timer and bios_cancel_timer leave in OCR1A what they were      *)
(* asked for if yield is entered with interrupts off; with interrupts on,  *)
(* when the handler may come between the two bytes of an access and use    *)
(* the same TEMP, they leave that or its low byte alone.                   *)
(***************************************************************************)
TimerExact == TypeOK /\ QuantumExact /\ CancelExact

(***************************************************************************)
(* serial_read and serial_write: bytes arrive in order and in one buffer,  *)
(* a Read returns some, and the wire carries those of each writer in order.*)
(***************************************************************************)
SerialSound ==
    part = "serial" => D!ReadInOrder /\ D!ReadReturnsSome /\ D!WireInOrder

(***************************************************************************)
(* cpu_swap_context resumes a thread with all that it left, and until then *)
(* nothing writes to the frame of the thread.                              *)
(***************************************************************************)
SwitchSound == part = "switch" => C!Resumed /\ C!FrameIntact

(***************************************************************************)
(* A thread that runs is interrupted after a while by TIMER1_COMPA_vect.   *)
(***************************************************************************)
ThreadInterrupted == part = "timer" => QuantumEnds

=============================================================================
