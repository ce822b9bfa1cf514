--------------------------- MODULE HardwareProofs ---------------------------
(***************************************************************************)
(* TimerExact, SwitchSound and SerialSound of module MCHardware for every  *)
(* value of its parameters.                                                *)
(*                                                                         *)
(* What the timer's registers hold follows from what is in TEMP between    *)
(* the two bytes of an access: the high byte, or the 0 that is the last    *)
(* thing the compare interrupt's handler leaves there.                     *)
(* What a thread finds on its stack follows from who may write where: the  *)
(* thread on the core and its interrupts, at the stack pointer and below,  *)
(* which is on the stack of that thread or not used by an interrupt.       *)
(***************************************************************************)
EXTENDS MCHardware, Integers, Sequences, SequenceTheorems, TLAPS

\* What follows the quantum until bios_cancel_timer may have put it off, and
\* what follows bios_set_timer's write of it.
Armed == {"run", "tcnt_l", "tcnt_h", "off_h", "off_l", "cnt_h", "cnt_l"}

Places == Armed \cup {"preempt_off", "gain", "ocr_h", "ocr_l"}

\* The code that an interrupt suspends is at some access, with its variables.
NestedOK == nested = None
         \/ nested \in [pc : Places, ie : BOOLEAN, low : Byte, preempt : BOOLEAN]

\* Interrupts are on in the thread alone.
Masked == /\ ie => pc = "run"
          /\ preempt = FALSE
          /\ nested # None => nested.pc = "run" /\ nested.preempt = FALSE

\* TEMP is the high byte of the access under way.
TempExact == /\ pc = "off_l" => TEMP = Base - 1
             /\ pc = "ocr_l" => TEMP = High(ticks)
             /\ pc = "cnt_l" => TEMP = 0

CompareExact == /\ pc \in Armed => OCR1A = ticks
                /\ OCR1A \in {ticks, TOP}

\* With interrupts on TEMP may be what the handler has left there, which is 0:
\* the last thing that the handler writes is the count.
TempMixed == /\ pc = "off_l" => TEMP \in {Base - 1, 0}
             /\ pc = "ocr_l" => TEMP \in {High(ticks), 0}
             /\ pc = "cnt_l" => TEMP = 0

CompareMixed == /\ pc \in {"run", "cnt_h", "cnt_l"} => OCR1A \in {ticks, Low(ticks)}
                /\ OCR1A \in {ticks, Low(ticks), TOP, Low(TOP)}

TimerInv == /\ TypeOK /\ NestedOK /\ TempMixed /\ CompareMixed
            /\ ~Preemptible => Masked /\ TempExact /\ CompareExact

-----------------------------------------------------------------------------
(***************************************************************************)
(* Two bytes make a word.                                                  *)
(***************************************************************************)
LEMMA JoinWord ==
    ASSUME NEW h \in Byte, NEW l \in Byte
    PROVE  Join(h, l) \in Word
<1> DEFINE b == Base
           hi == Base - 1 - h
<1>1. b \in Nat /\ b > 1 /\ h \in 0 .. b - 1 /\ l \in 0 .. b - 1
  BY TimerAssumption DEF Byte
<1>2. hi \in Nat /\ hi * b \in Nat /\ h * b \in Nat
  BY <1>1
<1>3. h * b + hi * b = b * b - b
  BY <1>1
<1>4. Join(h, l) = h * b + l /\ TOP = b * b - 1 /\ b * b \in Nat
  BY <1>1 DEF Join, TOP
<1> HIDE DEF b, hi
<1>5. h * b + l <= b * b - 1 /\ h * b + l \in Nat
  BY <1>1, <1>2, <1>3, <1>4
<1> QED BY <1>4, <1>5 DEF Word

(***************************************************************************)
(* A word is the join of its bytes: what is written high byte first is     *)
(* what is stored when the low byte follows.                               *)
(***************************************************************************)
LEMMA WordBytes ==
    ASSUME NEW w \in Word
    PROVE  /\ High(w) \in Byte /\ Low(w) \in Byte
           /\ Join(High(w), Low(w)) = w
<1>1. Base \in Nat /\ Base > 1 /\ w \in Nat /\ w <= Base * Base - 1 /\ Base * Base \in Nat
  BY TimerAssumption DEF Word, TOP
<1> DEFINE h == w \div Base
           l == w % Base
<1>2. h \in Nat /\ l \in 0 .. Base - 1 /\ w = h * Base + l
  BY <1>1
<1> HIDE DEF h, l
<1>3. h < Base
  <2>1. SUFFICES ASSUME h >= Base PROVE FALSE
    BY <1>1, <1>2
  <2>2. h * Base >= Base * Base
    BY <2>1, <1>1, <1>2
  <2> QED BY <2>2, <1>1, <1>2
<1> QED BY <1>1, <1>2, <1>3 DEF High, Low, Join, Byte, h, l

LEMMA Constants ==
    /\ ticks \in Word /\ TOP \in Word
    /\ Join(Base - 1, Base - 1) = TOP
    /\ 0 \in Byte /\ Base - 1 \in Byte /\ 0 \in Word
    /\ Join(0, Low(ticks)) = Low(ticks) /\ Join(0, Base - 1) = Low(TOP)
<1>1. Base \in Nat /\ Base > 1 /\ Base * Base \in Nat /\ Base * Base > 1
  BY TimerAssumption
<1>2. Usec \div 4 \in Nat
  BY TimerAssumption
<1>3. (Usec \div 4) % (TOP + 1) \in 0 .. TOP /\ TOP >= 1 /\ TOP \in Nat
  BY <1>1, <1>2 DEF TOP
<1>4. ticks \in Word
  BY <1>3 DEF ticks, Word
<1>5. Join(Base - 1, Base - 1) = TOP
  BY <1>1 DEF Join, TOP
<1>6. \A l \in Byte : Join(0, l) = l
  BY <1>1 DEF Join, Byte
<1>7. Low(ticks) \in Byte /\ Low(TOP) \in Byte /\ Base - 1 \in Byte
  BY <1>1, <1>3, <1>4, WordBytes DEF Word, Byte
<1>8. Low(TOP) = Base - 1
  <2> DEFINE r == Low(TOP)
             q == High(TOP)
  <2>1. q \in Byte /\ r \in Byte /\ q * Base + r = Base * Base - 1
    BY <1>1, <1>3, WordBytes DEF Word, Join, TOP
  <2>2. q \in 0 .. Base - 1 /\ r \in 0 .. Base - 1
    BY <2>1 DEF Byte
  <2> HIDE DEF r, q
  <2>3. q * Base >= Base * Base - Base
    BY <1>1, <2>1, <2>2
  <2>4. SUFFICES r = Base - 1
    BY DEF r
  <2>5. q = Base - 1
    <3>1. SUFFICES ASSUME q <= Base - 2 PROVE FALSE
      BY <1>1, <2>2
    <3>2. Base - 2 - q \in Nat /\ (Base - 2 - q) * Base >= 0
      BY <3>1, <1>1, <2>2
    <3> QED BY <3>2, <2>3, <1>1, <2>2
  <2> QED BY <2>5, <2>1, <2>2, <1>1
<1> QED BY <1>1, <1>3, <1>4, <1>5, <1>6, <1>7, <1>8 DEF Byte, Word

-----------------------------------------------------------------------------
(***************************************************************************)
(* One access of the software, or one event of the hardware, keeps the     *)
(* invariant.  The compare register changes in OffLow and OcrLow only, and *)
(* there TEMP is the high byte that belongs to the low one.                *)
(***************************************************************************)
LEMMA TimerStep == TimerInv /\ Next => TimerInv'
<1> SUFFICES ASSUME TimerInv, Next PROVE TimerInv'
  OBVIOUS
<1>p. Preemptible' = Preemptible
  BY DEF Next
<1>i. TypeOK /\ NestedOK /\ TempMixed /\ CompareMixed /\ (~Preemptible => Masked /\ TempExact /\ CompareExact)
  BY DEF TimerInv
<1>1. CASE Tick
  <2> DEFINE n == IF TCNT1 = OCR1A \/ TCNT1 = TOP THEN 0 ELSE TCNT1 + 1
  <2>1. n \in Word
    <3>1. TCNT1 \in 0 .. TOP /\ TOP \in Nat
      BY <1>i, Constants DEF TypeOK, Word
    <3> QED BY <3>1 DEF Word
  <2>2. TCNT1' = n /\ OCF1A' \in BOOLEAN /\ TOV1' \in BOOLEAN
        /\ UNCHANGED <<OCR1A, TEMP, overflows, pc, ie, low, preempt, nested>>
    BY <1>1 DEF Tick
  <2> HIDE DEF n
  <2>3. TypeOK'
    BY <2>1, <2>2, <1>i DEF TypeOK, Word, Byte, TOP
  <2> QED BY <2>2, <2>3, <1>i, <1>p
          DEF TimerInv, NestedOK, Masked, TempExact, CompareExact, TempMixed, CompareMixed, Byte, None, TOP, High, ticks
<1>2. CASE Overflow
  <2>1. overflows' \in 0 .. MaxOverflows
    BY <1>2, <1>i, TimerAssumption DEF Overflow, TypeOK
  <2>2. TypeOK'
    BY <1>2, <2>1, <1>i DEF Overflow, TypeOK
  <2> QED BY <1>2, <2>2, <1>i, <1>p
          DEF Overflow, TimerInv, NestedOK, Masked, TempExact, CompareExact, TempMixed, CompareMixed
<1>3. CASE Alarm
  <2>1. TypeOK'
    BY <1>3, <1>i DEF Alarm, TypeOK
  <2>2. NestedOK'
    BY <1>3, <1>i DEF Alarm, NestedOK, TypeOK, Places, Armed
  <2>3. ASSUME ~Preemptible PROVE (Masked /\ TempExact /\ CompareExact)'
    BY <2>3, <1>3, <1>i DEF Alarm, Masked, TempExact, CompareExact, TempMixed, CompareMixed, Armed
  <2>4. (TempMixed /\ CompareMixed)'
    BY <1>3, <1>i DEF Alarm, TempMixed, CompareMixed
  <2> QED BY <2>1, <2>2, <2>3, <2>4, <1>p DEF TimerInv
<1>4. CASE ReadTcntLow
  <2>1. low' \in Byte /\ TEMP' \in Byte
    BY <1>4, <1>i, WordBytes DEF ReadTcntLow, TypeOK
  <2>2. TypeOK'
    BY <1>4, <1>i, <2>1 DEF ReadTcntLow, Goto, TypeOK
  <2> QED BY <1>4, <2>2, <1>i, <1>p
          DEF ReadTcntLow, Goto, TimerInv, NestedOK, Masked, TempExact, CompareExact, TempMixed, CompareMixed, Armed
<1>5. CASE ReadTcntHigh
  <2>1. pc' \in {"preempt_off", "off_h"} /\ pc = "tcnt_h"
        /\ UNCHANGED <<registers, low, ie, preempt, nested, overflows>>
    BY <1>5 DEF ReadTcntHigh, Goto
  <2>2. TypeOK'
    BY <2>1, <1>i DEF TypeOK, registers
  <2> QED BY <2>1, <2>2, <1>i, <1>p
          DEF registers, TimerInv, NestedOK, Masked, TempExact, CompareExact, TempMixed, CompareMixed, Armed
<1>6. CASE OffHigh
  <2>1. TypeOK'
    BY <1>6, <1>i, Constants DEF OffHigh, WriteHigh, Goto, TypeOK
  <2> QED BY <1>6, <2>1, <1>i, <1>p
          DEF OffHigh, WriteHigh, Goto, TimerInv, NestedOK, Masked, TempExact, CompareExact, TempMixed, CompareMixed, Armed
<1>7. CASE OffLow
  <2>1. OCR1A' \in Word
    BY <1>7, <1>i, Constants, JoinWord DEF OffLow, TypeOK
  <2>2. TypeOK'
    BY <1>7, <1>i, <2>1 DEF OffLow, Goto, TypeOK
  <2>3. OCR1A' \in {TOP, Low(TOP)}
    BY <1>7, <1>i, Constants DEF OffLow, TempMixed
  <2>4. ASSUME ~Preemptible PROVE OCR1A' = TOP
    BY <2>4, <1>7, <1>i, Constants DEF OffLow, TempExact
  <2> QED BY <1>7, <2>2, <2>4, <2>3, <1>i, <1>p
          DEF OffLow, Goto, TimerInv, NestedOK, Masked, TempExact, CompareExact, TempMixed, CompareMixed, Armed
<1>8. CASE PreemptOff
  <2>1. TypeOK'
    BY <1>8, <1>i DEF PreemptOff, registers, TypeOK
  <2> QED BY <1>8, <2>1, <1>i, <1>p
          DEF PreemptOff, registers, TimerInv, NestedOK, Masked, TempExact, CompareExact, TempMixed, CompareMixed, Armed, TypeOK
<1>9. CASE Gain
  <2>1. TypeOK'
    BY <1>9, <1>i DEF Gain, registers, TypeOK
  <2> QED BY <1>9, <2>1, <1>i, <1>p
          DEF Gain, registers, TimerInv, NestedOK, Masked, TempExact, CompareExact, TempMixed, CompareMixed, Armed
<1>10. CASE OcrHigh
  <2>1. TypeOK'
    BY <1>10, <1>i, Constants, WordBytes DEF OcrHigh, WriteHigh, Goto, TypeOK
  <2> QED BY <1>10, <2>1, <1>i, <1>p
          DEF OcrHigh, WriteHigh, Goto, TimerInv, NestedOK, Masked, TempExact, CompareExact, TempMixed, CompareMixed, Armed
<1>11. CASE OcrLow
  <2>1. OCR1A' \in Word
    BY <1>11, <1>i, Constants, WordBytes, JoinWord DEF OcrLow, TypeOK
  <2>2. TypeOK'
    BY <1>11, <1>i, <2>1 DEF OcrLow, Goto, TypeOK
  <2>3. OCR1A' \in {ticks, Low(ticks)}
    BY <1>11, <1>i, Constants, WordBytes DEF OcrLow, TempMixed
  <2>4. ASSUME ~Preemptible PROVE OCR1A' = ticks
    BY <2>4, <1>11, <1>i, Constants, WordBytes DEF OcrLow, TempExact
  <2> QED BY <1>11, <2>2, <2>4, <2>3, <1>i, <1>p
          DEF OcrLow, Goto, TimerInv, NestedOK, Masked, TempExact, CompareExact, TempMixed, CompareMixed, Armed
<1>12. CASE TcntHigh
  <2>1. TypeOK'
    BY <1>12, <1>i, Constants DEF TcntHigh, WriteHigh, Goto, TypeOK
  <2> QED BY <1>12, <2>1, <1>i, <1>p
          DEF TcntHigh, WriteHigh, Goto, TimerInv, NestedOK, Masked, TempExact, CompareExact, TempMixed, CompareMixed, Armed
<1>13. CASE TcntLow
  <2>1. TCNT1' \in Word
    BY <1>13, <1>i, Constants, JoinWord DEF TcntLow, TypeOK
  <2>2. CASE nested = None
    <3>1. TypeOK'
      BY <2>2, <2>1, <1>13, <1>i DEF TcntLow, TypeOK
    <3> QED BY <2>2, <3>1, <1>13, <1>i, <1>p
            DEF TcntLow, TimerInv, NestedOK, Masked, TempExact, CompareExact, TempMixed, CompareMixed, Armed
  <2>3. CASE nested # None
    <3>1. nested \in [pc : Places, ie : BOOLEAN, low : Byte, preempt : BOOLEAN]
      BY <2>3, <1>i DEF NestedOK
    <3>2. pc' \in Places /\ ie' \in BOOLEAN /\ low' \in Byte /\ preempt' \in BOOLEAN /\ nested' = None
      BY <2>3, <3>1, <1>13 DEF TcntLow
    <3>3. TypeOK'
      BY <2>1, <3>2, <1>13, <1>i DEF TcntLow, TypeOK, Places, Armed
    <3> QED BY <2>3, <3>2, <3>3, <1>13, <1>i, <1>p
            DEF TcntLow, TimerInv, NestedOK, Masked, TempExact, CompareExact, TempMixed, CompareMixed, Armed
  <2> QED BY <2>2, <2>3
<1>14. ASSUME NEW on \in BOOLEAN, Yield(on), on => Preemptible PROVE TimerInv'
  <2>1. TypeOK'
    BY <1>14, <1>i DEF Yield, registers, TypeOK
  <2> QED BY <1>14, <2>1, <1>i, <1>p
          DEF Yield, registers, TimerInv, NestedOK, Masked, TempExact, CompareExact, TempMixed, CompareMixed, Armed
<1> QED
  BY <1>1, <1>2, <1>3, <1>4, <1>5, <1>6, <1>7, <1>8, <1>9, <1>10, <1>11, <1>12, <1>13, <1>14
  DEF Next, Access

LEMMA TimerInitial == Init => TimerInv
<1> SUFFICES ASSUME Init PROVE TimerInv
  OBVIOUS
<1>0. 0 \in 0 .. MaxOverflows
  BY TimerAssumption
<1>1. TypeOK
  BY <1>0, Constants DEF Init, TypeOK
<1> QED BY <1>1, Constants DEF Init, TimerInv, NestedOK, Masked, TempExact, CompareExact, TempMixed, CompareMixed, Armed

(***************************************************************************)
(* bios_set_timer and bios_cancel_timer leave in OCR1A what they were      *)
(* asked for, whatever the width of a byte and the length of the quantum,  *)
(* if yield is entered with interrupts off.  If it is not, the handler of  *)
(* the compare interrupt may run the same code, with the same TEMP byte,   *)
(* between the two bytes of an access; then the high byte may be lost, and *)
(* the register holds what was asked for or its low byte alone: a quantum  *)
(* may be cut short and is never made longer.                              *)
(***************************************************************************)
THEOREM TimerSafe == MCSpec => []TimerExact
<1>1. MCInit => TimerInv
  BY TimerInitial DEF MCInit, TimerOff
<1>2. TimerInv /\ [MCNext]_allvars => TimerInv'
  <2> SUFFICES ASSUME TimerInv, [MCNext]_allvars PROVE TimerInv'
    OBVIOUS
  <2>1. CASE UNCHANGED vars
    BY <2>1 DEF vars, system, registers, TimerInv, TypeOK, NestedOK, Masked, TempExact, CompareExact,
                    TempMixed, CompareMixed
  <2>2. CASE Next
    BY <2>2, TimerStep
  <2> QED BY <2>1, <2>2 DEF MCNext, allvars
<1>3. TimerInv => TimerExact
  <2> SUFFICES ASSUME TimerInv PROVE TimerExact
    OBVIOUS
  <2>1. pc = "run" => OCR1A \in {ticks, Low(ticks)}
    BY DEF TimerInv, CompareMixed
  <2>2. OCR1A \in {ticks, Low(ticks), TOP, Low(TOP)}
    BY DEF TimerInv, CompareMixed
  <2>3. ~Preemptible => (pc = "run" => OCR1A = ticks) /\ OCR1A \in {ticks, TOP}
    BY DEF TimerInv, CompareExact, Armed
  <2>4. TypeOK
    BY DEF TimerInv
  <2>5. QuantumExact
    BY <2>1, <2>3 DEF QuantumExact
  <2>6. CancelExact
    BY <2>2, <2>3 DEF CancelExact
  <2> QED BY <2>4, <2>5, <2>6 DEF TimerExact
<1> QED BY <1>1, <1>2, <1>3, PTL DEF MCSpec

-----------------------------------------------------------------------------
(***************************************************************************)
(* The switch of stacks.  What a thread has saved, and the byte that the   *)
(* k-th pop has to find.                                                   *)
(***************************************************************************)
FrameByte(s, k) == IF C!PopOrder[k] = C!SREG THEN s.sreg ELSE s.regs[C!PopOrder[k]]

IsSreg(b) == b = C!SregOf(C!I(b), b[3]) /\ C!I(b) \in BOOLEAN

Record(t, s) == /\ s.sp \in {C!Top(t), C!Top(t) - 1} /\ s.pc \in {"yield", "thread_start"}
                /\ s.regs = [r \in C!Regs |-> s.regs[r]] /\ IsSreg(s.sreg)

\* Where the stack pointer is when the k-th byte of the frame is the next one.
Ptr(s, k) == s.sp - NReg - 5 + k

\* The frame of t from its k-th byte up: what is still to be popped, or has
\* been pushed, with the return address and the stack above it.
Frame(m, t, s, k) == /\ \A j \in k .. NReg + 2 : m[Ptr(s, j) + 1] = FrameByte(s, j)
                     /\ m[s.sp - 1] = C!Hi(s.pc) /\ m[s.sp] = C!Lo(s.pc)
                     /\ C!Image(m, t, s.sp) = s.stack

Ops == {"run", "push", "save", "SPL", "SPH", "pop", "ret", "yield", "thread_start"}

StackTypes == /\ at = C!Op(at.op, at.k) /\ at.op \in Ops
              /\ cur \in C!Threads /\ next \in C!Threads /\ prev \in C!Threads /\ sp \in Int
              /\ mem = [a \in C!Memory |-> mem[a]] /\ regs = [r \in C!Regs |-> regs[r]]
              /\ IsSreg(sreg) /\ state \in [C!Threads -> {"UNUSED", "READY", "EXITED"}]
              /\ ctx \in [C!Threads -> Int] /\ preempts \in [C!Threads -> BOOLEAN]
              /\ saved = [t \in C!Threads |-> saved[t]]

\* A thread that is suspended has its whole frame.
Suspended(t) == /\ Record(t, saved[t]) /\ ctx[t] = Ptr(saved[t], 1)
                /\ Frame(mem, t, saved[t], 1)

AllSuspended == \A t \in C!Threads : state[t] = "READY" /\ t # cur => Suspended(t)

Running == at.op = "run" => state[cur] = "READY" /\ sp \in {C!Top(cur), C!Top(cur) - 1}

\* Up to the switch interrupts are off, and the pushes build the frame; the
\* next byte of it that a push writes is the one that the last pop will read.
Leaving == at.op \in {"push", "save", "SPL", "SPH"} =>
    LET s == saved[cur] IN
    /\ next # cur /\ state[next] = "READY" /\ Record(cur, s) /\ sreg = s.sreg /\ ~C!I(sreg)
    /\ at.op = "push" => /\ at.k \in 1 .. NReg + 2 /\ sp = Ptr(s, NReg + 4 - at.k)
                         /\ Frame(mem, cur, s, NReg + 4 - at.k)
                         /\ \A r \in C!Regs : r # 0 \/ at.k = 1 => regs[r] = s.regs[r]
    /\ at.op # "push" => Frame(mem, cur, s, 1)
    /\ at.op = "save" => sp = Ptr(s, 1)
    /\ at.op \in {"SPL", "SPH"} => ctx[cur] = Ptr(s, 1)
    /\ at.op = "SPH" => sp % Base = ctx[next] % Base

\* After it what has been popped is in the registers.  Interrupts stay off
\* until the status register is.
Arriving == at.op \in {"pop", "ret"} =>
    LET s == saved[cur] IN
    /\ state[cur] = "READY" /\ Record(cur, s)
    /\ at.op = "pop" => /\ at.k \in 1 .. NReg + 2 /\ sp = Ptr(s, at.k)
                        /\ Frame(mem, cur, s, at.k)
                        /\ \A j \in 1 .. at.k - 1 :
                               FrameByte(s, j) = IF C!PopOrder[j] = C!SREG THEN sreg
                                                 ELSE regs[C!PopOrder[j]]
                        /\ C!I(sreg) => at.k = NReg + 2
    /\ at.op = "ret" => /\ sp = Ptr(s, NReg + 3) /\ Frame(mem, cur, s, NReg + 3)
                        /\ regs = s.regs /\ sreg = s.sreg

\* ret has returned.
Back == at.op \in {"yield", "thread_start"} =>
    state[cur] = "READY" /\ Record(cur, saved[cur]) /\ C!Resumed

(***************************************************************************)
(* Resumed is not inductive: it is the end of a switch that began with the *)
(* frame in order, and a frame stays in order because only the thread on   *)
(* the core and its interrupts write, and only below the stack pointer.    *)
(***************************************************************************)
StackInv == StackTypes /\ AllSuspended /\ Running /\ Leaving /\ Arriving /\ Back

LEMMA StackSizes ==
    /\ NReg \in Nat /\ NReg >= 1 /\ IsrDepth \in Nat /\ Base \in Nat /\ Base > 0
    /\ THREAD_STACK_SIZE \in Nat /\ THREAD_STACK_SIZE >= NReg + 6
    /\ THREAD_STACK_SIZE >= IsrDepth + 4
    /\ 0 \in C!Threads
BY StackAssumption, TimerAssumption DEF C!Threads

\* The stacks are in memory, one apart from the other.
LEMMA StackIn ==
    ASSUME NEW t \in C!Threads
    PROVE  /\ C!Top(t) \in Int
           /\ \A a \in Int : a <= C!Top(t) /\ a > C!Top(t) - THREAD_STACK_SIZE => a \in C!Memory
<1> DEFINE S == THREAD_STACK_SIZE
<1>1. t \in Nat /\ NThreads \in Nat /\ t <= NThreads /\ S \in Nat
  BY StackAssumption DEF C!Threads
<1>2. t * S \in Nat /\ (NThreads + 1) * S \in Nat /\ S * (NThreads + 1) = (NThreads + 1) * S
  BY <1>1
<1>3. t * S + S <= (NThreads + 1) * S
  <2>1. (t + 1) * S <= (NThreads + 1) * S /\ (t + 1) * S = t * S + S
    BY <1>1
  <2> QED BY <2>1
<1> QED BY <1>1, <1>2, <1>3 DEF C!Top, C!ss_sp, C!Memory

LEMMA StacksApart ==
    ASSUME NEW t \in C!Threads, NEW u \in C!Threads, t # u
    PROVE  \/ C!Top(t) <= C!Top(u) - THREAD_STACK_SIZE
           \/ C!Top(u) <= C!Top(t) - THREAD_STACK_SIZE
<1> DEFINE S == THREAD_STACK_SIZE
<1>1. t \in Nat /\ u \in Nat /\ S \in Nat
  BY StackAssumption DEF C!Threads
<1>2. ASSUME NEW x \in Nat, NEW y \in Nat, x < y PROVE x * S + S <= y * S
  <2>1. (x + 1) * S <= y * S /\ (x + 1) * S = x * S + S
    BY <1>1, <1>2
  <2> QED BY <2>1
<1>3. t * S \in Nat /\ u * S \in Nat
  BY <1>1
<1>4. t * S + S <= u * S \/ u * S + S <= t * S
  <2>1. t < u \/ u < t
    BY <1>1
  <2> QED BY <1>1, <1>2, <2>1
<1> QED BY <1>1, <1>3, <1>4 DEF C!Top, C!ss_sp

\* Pops are pushes the other way round.
LEMMA Orders ==
    /\ C!SREG = -1 /\ Len(C!PopOrder) = NReg + 2 /\ Len(C!PushOrder) = NReg + 2
    /\ \A k \in 1 .. NReg : C!PopOrder[k] = NReg + 1 - k
    /\ C!PopOrder[NReg + 1] = C!SREG /\ C!PopOrder[NReg + 2] = 0
    /\ C!PushOrder[1] = 0 /\ C!PushOrder[2] = C!SREG
    /\ \A k \in 3 .. NReg + 2 : C!PushOrder[k] = k - 2
<1> DEFINE f == [i \in 1 .. NReg |-> NReg + 1 - i]
           g == [i \in 1 .. NReg |-> i]
<1>1. NReg \in Nat /\ f \in Seq(Int) /\ g \in Seq(Int) /\ Len(f) = NReg /\ Len(g) = NReg
  BY StackSizes
<1>2. C!SREG = -1 /\ <<C!SREG, 0>> \in Seq(Int) /\ <<0, C!SREG>> \in Seq(Int)
  BY DEF C!SREG
<1>3. C!PopOrder = f \o <<C!SREG, 0>> /\ C!PushOrder = <<0, C!SREG>> \o g
  BY DEF C!PopOrder, C!PushOrder
<1> QED BY <1>1, <1>2, <1>3

LEMMA ByteIs ==
    ASSUME NEW s
    PROVE  /\ \A k \in 1 .. NReg : FrameByte(s, k) = s.regs[NReg + 1 - k]
           /\ FrameByte(s, NReg + 1) = s.sreg /\ FrameByte(s, NReg + 2) = s.regs[0]
BY Orders, StackSizes DEF FrameByte

(***************************************************************************)
(* A frame stays in order under writes that are not above its next byte,   *)
(* so under all writes to another stack.                                   *)
(***************************************************************************)
LEMMA RecordIs ==
    ASSUME NEW t \in C!Threads, NEW s, Record(t, s)
    PROVE  /\ s.sp \in Int /\ s.sp <= C!Top(t) /\ s.sp >= C!Top(t) - 1
           /\ \A k \in Int : Ptr(s, k) = s.sp - NReg - 5 + k
           /\ Ptr(s, 1) > C!Top(t) - THREAD_STACK_SIZE
BY StackIn, StackSizes DEF Record, Ptr

LEMMA FrameKept ==
    ASSUME NEW t \in C!Threads, NEW s, Record(t, s), NEW k \in 1 .. NReg + 3,
           NEW m, NEW n, Frame(m, t, s, k),
           \A a \in Int : a > Ptr(s, k) /\ a <= C!Top(t) => n[a] = m[a]
    PROVE  Frame(n, t, s, k)
<1>1. /\ s.sp \in Int /\ s.sp <= C!Top(t) /\ C!Top(t) \in Int /\ NReg \in Nat
      /\ \A j \in Int : Ptr(s, j) = s.sp - NReg - 5 + j
  BY RecordIs, StackIn, StackSizes
<1>2. \A j \in k .. NReg + 2 : n[Ptr(s, j) + 1] = m[Ptr(s, j) + 1]
  BY <1>1
<1>3. n[s.sp - 1] = m[s.sp - 1] /\ n[s.sp] = m[s.sp]
  BY <1>1
<1>4. C!Image(n, t, s.sp) = C!Image(m, t, s.sp)
  <2>1. \A x \in 1 .. C!Top(t) - s.sp : n[s.sp + x] = m[s.sp + x]
    BY <1>1
  <2> QED BY <2>1 DEF C!Image
<1> QED BY <1>2, <1>3, <1>4 DEF Frame

LEMMA OthersKept ==
    ASSUME StackInv, NEW u \in C!Threads,
           \A a \in C!Memory : \/ mem'[a] = mem[a]
                               \/ a > C!Top(u) - THREAD_STACK_SIZE /\ a <= C!Top(u),
           NEW t \in C!Threads, t # u, Suspended(t), saved'[t] = saved[t], ctx'[t] = ctx[t]
    PROVE  Suspended(t)'
<1> DEFINE s == saved[t]
<1>1. Record(t, s) /\ ctx[t] = Ptr(s, 1) /\ Frame(mem, t, s, 1)
  BY DEF Suspended
<1>2. ASSUME NEW a \in Int, a > Ptr(s, 1), a <= C!Top(t) PROVE mem'[a] = mem[a]
  <2>1. a > C!Top(t) - THREAD_STACK_SIZE
    BY <1>1, <1>2, RecordIs, StackIn, StackSizes
  <2>2. a \in C!Memory
    BY <1>2, <2>1, StackIn
  <2>3. ~(a > C!Top(u) - THREAD_STACK_SIZE /\ a <= C!Top(u))
    BY <1>2, <2>1, StacksApart, StackIn, StackSizes
  <2> QED BY <2>2, <2>3
<1>3. 1 \in 1 .. NReg + 3
  BY StackSizes
<1> HIDE DEF s
<1>4. Frame(mem', t, s, 1)
  BY <1>1, <1>2, <1>3, FrameKept
<1>5. Record(t, saved'[t]) /\ ctx'[t] = Ptr(saved'[t], 1) /\ Frame(mem', t, saved'[t], 1)
  BY <1>1, <1>4 DEF s
<1> QED BY <1>5 DEF Suspended, Record, Frame, Ptr, FrameByte, IsSreg

\* A step that writes to the stack of u alone.
LEMMA SuspendedStep ==
    ASSUME StackInv, NEW u \in C!Threads,
           \A a \in C!Memory : \/ mem'[a] = mem[a]
                               \/ a > C!Top(u) - THREAD_STACK_SIZE /\ a <= C!Top(u),
           \A t \in C!Threads : t # u /\ state'[t] = "READY" /\ t # cur' =>
               state[t] = "READY" /\ t # cur /\ saved'[t] = saved[t] /\ ctx'[t] = ctx[t],
           state'[u] = "READY" /\ u # cur' => Suspended(u)'
    PROVE  AllSuspended'
<1> SUFFICES ASSUME NEW t \in C!Threads, state'[t] = "READY", t # cur' PROVE Suspended(t)'
  BY DEF AllSuspended
<1>1. CASE t = u
  BY <1>1
<1>2. CASE t # u
  <2>1. Suspended(t)
    BY <1>2 DEF StackInv, AllSuspended
  <2> QED BY <1>2, <2>1, OthersKept
<1> QED BY <1>1, <1>2

LEMMA StackInitial == C!Init => StackInv
<1> SUFFICES ASSUME C!Init PROVE StackInv
  OBVIOUS
<1>1. 0 \in C!Threads /\ C!Top(0) \in Int
  BY StackSizes, StackIn
<1>2. StackTypes
  <2>1. at = C!Op(at.op, at.k) /\ at.op = "run"
    BY DEF C!Init, C!Run, C!Op
  <2>2. IsSreg(sreg)
    BY DEF C!Init, IsSreg, C!SregOf, C!I
  <2>3. /\ mem = [a \in C!Memory |-> mem[a]] /\ regs = [r \in C!Regs |-> regs[r]]
        /\ saved = [t \in C!Threads |-> saved[t]]
    BY DEF C!Init, C!Values
  <2>4. /\ state \in [C!Threads -> {"UNUSED", "READY", "EXITED"}]
        /\ ctx \in [C!Threads -> Int] /\ preempts \in [C!Threads -> BOOLEAN]
    BY DEF C!Init
  <2> QED BY <1>1, <2>1, <2>2, <2>3, <2>4 DEF C!Init, StackTypes, Ops
<1>3. AllSuspended /\ Running
  BY <1>1 DEF C!Init, AllSuspended, Running
<1>4. Leaving /\ Arriving /\ Back
  BY DEF C!Init, C!Run, C!Op, Leaving, Arriving, Back
<1> QED BY <1>2, <1>3, <1>4 DEF StackInv

LEMMA ComputesStep ==
    ASSUME StackInv, NEW v, NEW i \in BOOLEAN, C!Computes(v, i)
    PROVE  StackInv'
<1>1. /\ at.op = "run" /\ at' = at /\ regs' = C!Values(cur, v) /\ sreg' = C!SregOf(i, v)
      /\ UNCHANGED <<mem, sp, cur, next, prev, state, ctx, preempts, saved>>
  BY DEF C!Computes, C!Run, C!Op
<1>2. StackTypes'
  <2>1. IsSreg(sreg')
    BY <1>1 DEF IsSreg, C!SregOf, C!I
  <2>2. regs' = [r \in C!Regs |-> regs'[r]]
    BY <1>1 DEF C!Values
  <2> QED BY <1>1, <2>1, <2>2 DEF StackInv, StackTypes, IsSreg
<1>3. AllSuspended'
  BY <1>1, SuspendedStep DEF StackInv, StackTypes
<1>4. Running' /\ Leaving' /\ Arriving' /\ Back'
  BY <1>1 DEF StackInv, Running, Leaving, Arriving, Back
<1> QED BY <1>2, <1>3, <1>4 DEF StackInv

LEMMA PushesStep ==
    ASSUME StackInv, NEW v, C!Pushes(v)
    PROVE  StackInv'
<1>1. /\ at.op = "run" /\ at' = at /\ sp = C!Top(cur) /\ sp' = sp - 1
      /\ mem' = [mem EXCEPT ![sp] = <<"local", cur, v>>]
      /\ UNCHANGED <<regs, sreg, cur, next, prev, state, ctx, preempts, saved>>
  BY DEF C!Pushes, C!Run, C!Op
<1>2. cur \in C!Threads /\ C!Top(cur) \in Int /\ mem = [a \in C!Memory |-> mem[a]]
  BY StackIn DEF StackInv, StackTypes
<1>3. mem' = [a \in C!Memory |-> mem'[a]] /\ \A a \in C!Memory : a # sp => mem'[a] = mem[a]
  BY <1>1, <1>2
<1>4. StackTypes'
  BY <1>1, <1>2, <1>3 DEF StackInv, StackTypes, IsSreg
<1>5. AllSuspended'
  <2>1. sp > C!Top(cur) - THREAD_STACK_SIZE /\ sp <= C!Top(cur)
    BY <1>1, <1>2, StackSizes
  <2>2. \A a \in C!Memory : \/ mem'[a] = mem[a]
                            \/ a > C!Top(cur) - THREAD_STACK_SIZE /\ a <= C!Top(cur)
    BY <1>3, <2>1
  <2> QED BY <1>1, <1>2, <2>2, SuspendedStep
<1>6. Running' /\ Leaving' /\ Arriving' /\ Back'
  BY <1>1, <1>2 DEF StackInv, Running, Leaving, Arriving, Back
<1> QED BY <1>4, <1>5, <1>6 DEF StackInv

(***************************************************************************)
(* An interrupt comes only where the stack pointer is near the top.        *)
(***************************************************************************)
LEMMA InterruptStep ==
    ASSUME StackInv, C!Interrupt
    PROVE  StackInv'
<1> DEFINE s == saved[cur]
           S == THREAD_STACK_SIZE
<1>1. /\ C!I(sreg) /\ at' = at
      /\ mem' = [a \in C!Memory |-> IF a \in sp - IsrDepth + 1 .. sp THEN C!Junk ELSE mem[a]]
      /\ UNCHANGED <<sp, regs, sreg, cur, next, prev, state, ctx, preempts, saved>>
  BY DEF C!Interrupt
<1>2. /\ cur \in C!Threads /\ C!Top(cur) \in Int /\ mem = [a \in C!Memory |-> mem[a]]
      /\ sp \in Int /\ at.op \in Ops /\ NReg \in Nat /\ IsrDepth \in Nat /\ S \in Nat
      /\ S >= IsrDepth + 4
  BY StackIn, StackSizes DEF StackInv, StackTypes
<1>3. at.op \notin {"push", "save", "SPL", "SPH"}
  BY <1>1 DEF StackInv, Leaving
<1>4. at.op = "pop" => at.k = NReg + 2
  BY <1>1 DEF StackInv, Arriving
<1>5. at.op # "run" => Record(cur, s)
  BY <1>2, <1>3 DEF StackInv, Arriving, Back, Ops
<1>6. sp >= C!Top(cur) - 4 /\ sp <= C!Top(cur)
  <2>1. CASE at.op = "run"
    BY <2>1, <1>2 DEF StackInv, Running
  <2>2. CASE at.op = "pop"
    <3>1. sp = Ptr(s, NReg + 2)
      BY <2>2, <1>4 DEF StackInv, Arriving
    <3> QED BY <3>1, <2>2, <1>2, <1>5, RecordIs
  <2>3. CASE at.op = "ret"
    <3>1. sp = Ptr(s, NReg + 3)
      BY <2>3 DEF StackInv, Arriving
    <3> QED BY <3>1, <2>3, <1>2, <1>5, RecordIs
  <2>4. CASE at.op \in {"yield", "thread_start"}
    <3>1. sp = s.sp
      BY <2>4 DEF StackInv, Back, C!Resumed
    <3> QED BY <3>1, <2>4, <1>2, <1>5, RecordIs
  <2> QED BY <1>2, <1>3, <2>1, <2>2, <2>3, <2>4 DEF Ops
<1>7. /\ \A a \in C!Memory : \/ mem'[a] = mem[a]
                             \/ a > C!Top(cur) - S /\ a <= C!Top(cur)
      /\ mem' = [a \in C!Memory |-> mem'[a]]
  <2>1. \A a \in C!Memory : a \in Int
    BY StackSizes, StackAssumption DEF C!Memory
  <2> QED BY <1>1, <1>2, <1>6, <2>1
<1>8. ASSUME NEW a \in Int, a > sp, a <= C!Top(cur) PROVE mem'[a] = mem[a]
  <2>1. a \in C!Memory
    BY <1>2, <1>6, <1>8, StackIn
  <2> QED BY <1>1, <1>2, <1>8, <2>1
<1>9. StackTypes'
  BY <1>1, <1>2, <1>7 DEF StackInv, StackTypes, IsSreg
<1>10. AllSuspended'
  BY <1>1, <1>2, <1>7, SuspendedStep
<1>11. Running' /\ Leaving'
  BY <1>1, <1>3 DEF StackInv, Running, Leaving
<1>12. Arriving'
  <2>1. CASE at.op = "pop"
    <3>1. Frame(mem, cur, s, NReg + 2) /\ sp = Ptr(s, NReg + 2)
      BY <2>1, <1>4 DEF StackInv, Arriving
    <3>2. NReg + 2 \in 1 .. NReg + 3
      BY <1>2
    <3> HIDE DEF s
    <3>3. Frame(mem', cur, s, NReg + 2)
      BY <2>1, <3>1, <3>2, <1>2, <1>5, <1>8, FrameKept
    <3> QED BY <2>1, <3>3, <1>1, <1>4 DEF StackInv, Arriving, Frame, FrameByte, Ptr, Record, IsSreg, s
  <2>2. CASE at.op = "ret"
    <3>1. Frame(mem, cur, s, NReg + 3) /\ sp = Ptr(s, NReg + 3)
      BY <2>2 DEF StackInv, Arriving
    <3>2. NReg + 3 \in 1 .. NReg + 3
      BY <1>2
    <3> HIDE DEF s
    <3>3. Frame(mem', cur, s, NReg + 3)
      BY <2>2, <3>1, <3>2, <1>2, <1>5, <1>8, FrameKept
    <3> QED BY <2>2, <3>3, <1>1 DEF StackInv, Arriving, Frame, FrameByte, Ptr, Record, IsSreg, s
  <2> QED BY <1>1, <2>1, <2>2 DEF Arriving
<1>13. Back'
  <2> SUFFICES ASSUME at.op \in {"yield", "thread_start"} PROVE Back'
    BY <1>1 DEF Back
  <2>1. C!Resumed /\ state[cur] = "READY" /\ Record(cur, s)
    BY DEF StackInv, Back
  <2>2. C!Image(mem', cur, sp) = C!Image(mem, cur, sp)
    <3>1. \A x \in 1 .. C!Top(cur) - sp : mem'[sp + x] = mem[sp + x]
      BY <1>2, <1>8
    <3> QED BY <3>1 DEF C!Image
  <2> QED BY <1>1, <2>1, <2>2 DEF Back, C!Resumed, Record, IsSreg
<1> QED BY <1>9, <1>10, <1>11, <1>12, <1>13 DEF StackInv

LEMMA FourAndMore ==
    ASSUME NEW V, NEW a \in V, NEW b \in V, NEW c \in V, NEW d \in V, NEW n \in Nat,
           NEW f, f = <<a, b, c, d>> \o [i \in 1 .. n |-> c]
    PROVE  /\ Len(f) = n + 4 /\ f[1] = a /\ f[2] = b /\ f[3] = c /\ f[4] = d
           /\ \A k \in 5 .. n + 4 : f[k] = c
<1> DEFINE g == [i \in 1 .. n |-> c]
           h == <<a, b, c, d>>
<1>1. g \in Seq(V) /\ Len(g) = n
  OBVIOUS
<1>2. h \in Seq(V) /\ Len(h) = 4 /\ h[1] = a /\ h[2] = b /\ h[3] = c /\ h[4] = d
  OBVIOUS
<1>3. \A k \in 1 .. n : g[k] = c
  OBVIOUS
<1>4. f = h \o g
  OBVIOUS
<1> HIDE DEF g, h
<1>5. Len(f) = n + 4
  BY <1>1, <1>2, <1>4
<1>6. \A k \in 1 .. 4 : f[k] = h[k]
  BY <1>1, <1>2, <1>4
<1>7. ASSUME NEW k \in 5 .. n + 4 PROVE f[k] = g[k - 4] /\ k - 4 \in 1 .. n
  <2>1. k - 4 \in 1 .. n /\ k \in 1 .. Len(h) + Len(g) /\ k > Len(h)
    BY <1>1, <1>2
  <2>2. (h \o g)[k] = g[k - Len(h)]
    <3>1. (h \o g)[k] = IF k <= Len(h) THEN h[k] ELSE g[k - Len(h)]
      BY <1>1, <1>2, <2>1, ConcatProperties
    <3> QED BY <1>2, <2>1, <3>1
  <2> QED BY <1>2, <1>4, <2>1, <2>2
<1> QED BY <1>2, <1>3, <1>5, <1>6, <1>7

(***************************************************************************)
(* The first frame is what the pops of the first switch to it read.        *)
(***************************************************************************)
LEMMA SpawnStep ==
    ASSUME StackInv, NEW t \in C!Threads, C!Spawn(t)
    PROVE  StackInv'
<1> DEFINE f == C!InitialFrame("thread_start")
           z == [ regs |-> [r \in C!Regs |-> C!Zero], sreg |-> C!SregOf(TRUE, C!Zero),
                  pc |-> "thread_start", sp |-> C!Top(t), stack |-> << >> ]
           T == C!Top(t)
<1>1. /\ at.op = "run" /\ at' = at /\ cur # t /\ state[t] = "UNUSED"
      /\ mem' = [a \in C!Memory |-> IF a \in T - Len(f) + 1 .. T THEN f[T - a + 1] ELSE mem[a]]
      /\ ctx' = [ctx EXCEPT ![t] = T - Len(f)]
      /\ state' = [state EXCEPT ![t] = "READY"] /\ saved' = [saved EXCEPT ![t] = z]
      /\ UNCHANGED <<sp, regs, sreg, cur, next, prev, preempts>>
  BY DEF C!Spawn, C!cpu_initialize_context, C!Run, C!Op
<1>2. /\ cur \in C!Threads /\ T \in Int /\ NReg \in Nat /\ THREAD_STACK_SIZE \in Nat
      /\ THREAD_STACK_SIZE >= NReg + 6 /\ NReg >= 1
      /\ state \in [C!Threads -> {"UNUSED", "READY", "EXITED"}]
      /\ ctx \in [C!Threads -> Int] /\ saved = [u \in C!Threads |-> saved[u]]
  BY StackIn, StackSizes DEF StackInv, StackTypes
<1>3. /\ Len(f) = NReg + 4 /\ f[1] = C!Lo("thread_start") /\ f[2] = C!Hi("thread_start")
      /\ f[3] = C!Zero /\ f[4] = C!SregOf(TRUE, C!Zero) /\ \A k \in 5 .. NReg + 4 : f[k] = C!Zero
  <2> DEFINE V == {C!Lo("thread_start"), C!Hi("thread_start"), C!Zero, C!SregOf(TRUE, C!Zero)}
  <2>1. /\ C!Lo("thread_start") \in V /\ C!Hi("thread_start") \in V
        /\ C!Zero \in V /\ C!SregOf(TRUE, C!Zero) \in V
    OBVIOUS
  <2>2. f = <<C!Lo("thread_start"), C!Hi("thread_start"), C!Zero, C!SregOf(TRUE, C!Zero)>>
            \o [i \in 1 .. NReg |-> C!Zero]
    BY DEF C!InitialFrame
  <2> HIDE DEF V, f
  <2> QED BY <1>2, <2>1, <2>2, FourAndMore
<1> HIDE DEF f
<1>4. /\ z.sp = T /\ z.pc = "thread_start" /\ z.stack = << >> /\ z.sreg = C!SregOf(TRUE, C!Zero)
      /\ z.regs = [r \in C!Regs |-> C!Zero]
  OBVIOUS
<1> HIDE DEF z
<1>5. Record(t, z)
  BY <1>4 DEF Record, IsSreg, C!SregOf, C!I
<1>6. \A i \in 1 .. NReg + 4 : mem'[T - i + 1] = f[i]
  <2> SUFFICES ASSUME NEW i \in 1 .. NReg + 4 PROVE mem'[T - i + 1] = f[i]
    OBVIOUS
  <2>1. T - i + 1 \in C!Memory
    BY <1>2, StackIn
  <2>2. T - i + 1 \in T - Len(f) + 1 .. T /\ T - (T - i + 1) + 1 = i
    <3>1. i \in Int /\ i >= 1 /\ i <= NReg + 4 /\ T \in Int /\ Len(f) = NReg + 4
      BY <1>2, <1>3
    <3> HIDE DEF T
    <3> QED BY <3>1, <1>2
  <2> QED BY <1>1, <2>1, <2>2
<1>7. Frame(mem', t, z, 1)
  <2>0. \A j \in Int : Ptr(z, j) = T - NReg - 5 + j
    BY <1>5, <1>4, RecordIs
  <2>1. ASSUME NEW j \in 1 .. NReg + 2 PROVE mem'[Ptr(z, j) + 1] = FrameByte(z, j)
    <3>1. Ptr(z, j) + 1 = T - (NReg + 5 - j) + 1 /\ NReg + 5 - j \in 1 .. NReg + 4
      BY <1>2, <2>0
    <3>2. mem'[Ptr(z, j) + 1] = f[NReg + 5 - j]
      BY <3>1, <1>6
    <3>3. CASE j \in 1 .. NReg
      <4>1. NReg + 5 - j \in 5 .. NReg + 4 /\ NReg + 1 - j \in C!Regs
        BY <3>3, <1>2 DEF C!Regs
      <4> QED BY <3>2, <3>3, <4>1, <1>3, <1>4, ByteIs
    <3>4. CASE j = NReg + 1
      <4>1. NReg + 5 - j = 4
        BY <3>4, <1>2
      <4> QED BY <3>2, <3>4, <4>1, <1>3, <1>4, ByteIs
    <3>5. CASE j = NReg + 2
      <4>1. NReg + 5 - j = 3 /\ 0 \in C!Regs
        BY <3>5, <1>2 DEF C!Regs
      <4> QED BY <3>2, <3>5, <4>1, <1>3, <1>4, ByteIs
    <3> QED BY <1>2, <3>3, <3>4, <3>5
  <2>2. mem'[z.sp - 1] = C!Hi(z.pc) /\ mem'[z.sp] = C!Lo(z.pc)
    <3>1. T - 1 = T - 2 + 1 /\ T = T - 1 + 1 /\ 1 \in 1 .. NReg + 4 /\ 2 \in 1 .. NReg + 4
      BY <1>2
    <3> QED BY <3>1, <1>3, <1>4, <1>6
  <2>3. C!Image(mem', t, z.sp) = z.stack
    <3>1. 1 .. T - T = {}
      BY <1>2
    <3> QED BY <3>1, <1>4 DEF C!Image
  <2> QED BY <2>1, <2>2, <2>3 DEF Frame
<1>8. Suspended(t)'
  <2>1. saved'[t] = z /\ ctx'[t] = Ptr(z, 1)
    <3>1. Ptr(z, 1) = T - NReg - 5 + 1
      BY <1>4, <1>5, RecordIs
    <3> QED BY <1>1, <1>2, <1>3, <3>1
  <2>2. Record(t, saved'[t]) /\ ctx'[t] = Ptr(saved'[t], 1) /\ Frame(mem', t, saved'[t], 1)
    BY <2>1, <1>5, <1>7
  <2> QED BY <2>2 DEF Suspended, Record, Frame, Ptr, FrameByte, IsSreg
<1>9. AllSuspended'
  <2>1. \A a \in C!Memory : mem'[a] = mem[a] \/ (a > T - THREAD_STACK_SIZE /\ a <= T)
    <3>1. \A a \in C!Memory : a \in Int
      BY StackSizes, StackAssumption DEF C!Memory
    <3> QED BY <1>1, <1>2, <1>3, <3>1
  <2>2. \A u \in C!Threads : u # t => /\ state'[u] = state[u] /\ saved'[u] = saved[u]
                                      /\ ctx'[u] = ctx[u]
    BY <1>1, <1>2
  <2> QED BY <1>1, <1>8, <2>1, <2>2, SuspendedStep
<1>10. StackTypes'
  <2>1. /\ state' \in [C!Threads -> {"UNUSED", "READY", "EXITED"}]
        /\ ctx' \in [C!Threads -> Int]
    BY <1>1, <1>2, <1>3
  <2>2. saved' = [u \in C!Threads |-> saved'[u]] /\ mem' = [a \in C!Memory |-> mem'[a]]
    BY <1>1, <1>2
  <2> QED BY <1>1, <2>1, <2>2 DEF StackInv, StackTypes, IsSreg
<1>11. Running' /\ Leaving' /\ Arriving' /\ Back'
  BY <1>1, <1>2 DEF StackInv, Running, Leaving, Arriving, Back
<1> QED BY <1>9, <1>10, <1>11 DEF StackInv

(***************************************************************************)
(* yield has pushed the return address of the frame.                       *)
(***************************************************************************)
LEMMA YieldStep ==
    ASSUME StackInv, NEW t \in C!Threads, NEW exits \in BOOLEAN, C!yield(t, exits)
    PROVE  StackInv'
<1> DEFINE z == [ regs |-> regs, sreg |-> C!preempt_off, pc |-> "yield",
                  sp |-> sp, stack |-> C!Image(mem, cur, sp) ]
           T == C!Top(cur)
<1>1. /\ at.op = "run" /\ at' = C!Op("push", 1) /\ t # cur /\ state[t] = "READY" /\ next' = t
      /\ prev' = cur /\ sreg' = C!preempt_off /\ sp' = sp - 2
      /\ mem' = [mem EXCEPT ![sp] = C!Lo("yield"), ![sp - 1] = C!Hi("yield")]
      /\ state' = [state EXCEPT ![cur] = IF exits THEN "EXITED" ELSE state[cur]]
      /\ saved' = [saved EXCEPT ![cur] = z]
      /\ preempts' = [preempts EXCEPT ![cur] = C!I(sreg)]
      /\ UNCHANGED <<regs, cur, ctx>>
  BY DEF C!yield, C!Run, C!Op
<1>2. at'.op = "push" /\ at'.k = 1 /\ at' = C!Op(at'.op, at'.k)
  BY <1>1 DEF C!Op
<1>3. /\ cur \in C!Threads /\ T \in Int /\ NReg \in Nat /\ THREAD_STACK_SIZE \in Nat
      /\ THREAD_STACK_SIZE >= NReg + 6 /\ NReg >= 1
      /\ state \in [C!Threads -> {"UNUSED", "READY", "EXITED"}] /\ IsSreg(sreg)
      /\ mem = [a \in C!Memory |-> mem[a]] /\ regs = [r \in C!Regs |-> regs[r]]
      /\ preempts \in [C!Threads -> BOOLEAN] /\ saved = [u \in C!Threads |-> saved[u]]
  BY StackIn, StackSizes DEF StackInv, StackTypes
<1>4. sp \in {T, T - 1} /\ sp \in Int /\ sp - 1 \in Int
  BY <1>1, <1>3 DEF StackInv, Running
<1>5. sp \in C!Memory /\ sp - 1 \in C!Memory
  BY <1>3, <1>4, StackIn
<1>6. /\ mem' = [a \in C!Memory |-> mem'[a]] /\ mem'[sp] = C!Lo("yield")
      /\ mem'[sp - 1] = C!Hi("yield")
      /\ \A a \in C!Memory : a # sp /\ a # sp - 1 => mem'[a] = mem[a]
  <2> DEFINE x == sp
             y == sp - 1
  <2>1. x \in C!Memory /\ y \in C!Memory /\ x # y
    BY <1>4, <1>5
  <2>2. mem' = [mem EXCEPT ![x] = C!Lo("yield"), ![y] = C!Hi("yield")]
    BY <1>1
  <2> HIDE DEF x, y
  <2>3. /\ mem' = [a \in C!Memory |-> mem'[a]] /\ mem'[x] = C!Lo("yield")
        /\ mem'[y] = C!Hi("yield") /\ \A a \in C!Memory : a # x /\ a # y => mem'[a] = mem[a]
    BY <1>3, <2>1, <2>2
  <2> QED BY <2>3 DEF x, y
<1>7. C!preempt_off = C!SregOf(FALSE, sreg[3]) /\ ~C!I(C!preempt_off) /\ IsSreg(C!preempt_off)
  BY DEF C!preempt_off, C!SregOf, C!I, IsSreg
<1>8. /\ z.sp = sp /\ z.pc = "yield" /\ z.stack = C!Image(mem, cur, sp)
      /\ z.sreg = C!preempt_off /\ z.regs = regs
  OBVIOUS
<1> HIDE DEF z
<1>9. Record(cur, z)
  BY <1>3, <1>4, <1>7, <1>8 DEF Record
<1>10. sp' = Ptr(z, NReg + 3)
  <2>1. Ptr(z, NReg + 3) = sp - NReg - 5 + (NReg + 3)
    BY <1>3, <1>8, <1>9, RecordIs
  <2> QED BY <1>1, <1>3, <1>4, <2>1
<1>11. Frame(mem', cur, z, NReg + 3)
  <2>1. NReg + 3 .. NReg + 2 = {}
    BY <1>3
  <2>2. C!Image(mem', cur, sp) = C!Image(mem, cur, sp)
    <3>1. ASSUME NEW x \in 1 .. C!Top(cur) - sp PROVE mem'[sp + x] = mem[sp + x]
      <4>1. sp + x \in Int /\ sp + x <= T /\ sp + x > T - THREAD_STACK_SIZE /\ sp + x > sp
        BY <1>3, <1>4
      <4>2. sp + x \in C!Memory
        BY <1>3, <4>1, StackIn
      <4> QED BY <1>4, <1>6, <4>1, <4>2
    <3> QED BY <3>1 DEF C!Image
  <2> QED BY <1>6, <1>8, <2>1, <2>2 DEF Frame
<1>12. AllSuspended'
  <2>1. \A a \in C!Memory : mem'[a] = mem[a] \/ (a > T - THREAD_STACK_SIZE /\ a <= T)
    <3>1. /\ sp > T - THREAD_STACK_SIZE /\ sp <= T
          /\ sp - 1 > T - THREAD_STACK_SIZE /\ sp - 1 <= T
      BY <1>3, <1>4
    <3> QED BY <1>6, <3>1
  <2>2. \A u \in C!Threads : u # cur => state'[u] = state[u] /\ saved'[u] = saved[u]
                                        /\ ctx'[u] = ctx[u]
    BY <1>1, <1>3
  <2> QED BY <1>1, <1>3, <2>1, <2>2, SuspendedStep
<1>13. StackTypes'
  <2>1. /\ state' \in [C!Threads -> {"UNUSED", "READY", "EXITED"}]
        /\ saved' = [u \in C!Threads |-> saved'[u]]
    BY <1>1, <1>3
  <2>2. preempts' \in [C!Threads -> BOOLEAN]
    BY <1>1, <1>3 DEF IsSreg
  <2>3. IsSreg(sreg')
    BY <1>1, <1>7
  <2>4. sp' \in Int
    BY <1>1, <1>4
  <2> QED BY <1>1, <1>2, <1>3, <1>6, <2>1, <2>2, <2>3, <2>4 DEF StackInv, StackTypes, IsSreg, Ops
<1>14. Leaving'
  <2> DEFINE s == saved'[cur']
  <2>1. s = z /\ cur' = cur
    BY <1>1, <1>3
  <2> HIDE DEF s
  <2>2. /\ next' # cur' /\ state'[next'] = "READY" /\ Record(cur', s) /\ sreg' = s.sreg
        /\ ~C!I(sreg')
    BY <1>1, <1>3, <1>7, <1>8, <1>9, <2>1
  <2>3. /\ at'.k \in 1 .. NReg + 2 /\ NReg + 4 - at'.k = NReg + 3
    BY <1>2, <1>3
  <2>4. sp' = Ptr(s, NReg + 4 - at'.k) /\ Frame(mem', cur', s, NReg + 4 - at'.k)
    BY <1>10, <1>11, <2>1, <2>3
  <2>5. \A r \in C!Regs : regs'[r] = s.regs[r]
    BY <1>1, <1>8, <2>1
  <2> QED BY <1>2, <2>2, <2>3, <2>4, <2>5 DEF Leaving, Record, Frame, Ptr, FrameByte, IsSreg, s
<1>15. Running' /\ Arriving' /\ Back'
  BY <1>2 DEF Running, Arriving, Back
<1> QED BY <1>12, <1>13, <1>14, <1>15 DEF StackInv

(***************************************************************************)
(* The k-th push writes the byte that is read by the k-th pop from the     *)
(* end, and one byte below what the pushes before it have written.         *)
(***************************************************************************)
LEMMA PushStep ==
    ASSUME StackInv, C!Push
    PROVE  StackInv'
<1> DEFINE s == saved[cur]
           T == C!Top(cur)
           k == at.k
           j == NReg + 3 - at.k
           r == C!PushOrder[at.k]
           b == IF r = C!SREG THEN sreg ELSE regs[r]
<1>1. /\ at.op = "push" /\ mem' = [mem EXCEPT ![sp] = b]
      /\ regs' = IF r = C!SREG THEN [regs EXCEPT ![0] = sreg] ELSE regs
      /\ sp' = sp - 1
      /\ at' = IF k < Len(C!PushOrder) THEN C!Op("push", k + 1) ELSE C!Op("save", 0)
      /\ UNCHANGED <<sreg, cur, next, prev, state, ctx, preempts, saved>>
  BY DEF C!Push
<1>2. /\ cur \in C!Threads /\ T \in Int /\ NReg \in Nat /\ THREAD_STACK_SIZE \in Nat
      /\ THREAD_STACK_SIZE >= NReg + 6 /\ NReg >= 1
      /\ mem = [a \in C!Memory |-> mem[a]] /\ regs = [q \in C!Regs |-> regs[q]]
  BY StackIn, StackSizes DEF StackInv, StackTypes
<1>3. /\ next # cur /\ state[next] = "READY" /\ Record(cur, s) /\ sreg = s.sreg /\ ~C!I(sreg)
      /\ k \in 1 .. NReg + 2 /\ sp = Ptr(s, NReg + 4 - k) /\ Frame(mem, cur, s, NReg + 4 - k)
      /\ \A q \in C!Regs : q # 0 \/ k = 1 => regs[q] = s.regs[q]
  BY <1>1 DEF StackInv, Leaving
<1>4. j \in 1 .. NReg + 2 /\ NReg + 4 - k = j + 1 /\ j + 1 \in 1 .. NReg + 3
  BY <1>2, <1>3
<1>5. b = FrameByte(s, j)
  <2>1. CASE k = 1
    <3>1. j = NReg + 2 /\ r = 0 /\ C!SREG = -1 /\ 0 \in C!Regs
      BY <2>1, <1>2, Orders DEF C!Regs
    <3>2. FrameByte(s, j) = s.regs[0]
      BY <3>1, ByteIs
    <3> QED BY <2>1, <3>1, <3>2, <1>3
  <2>2. CASE k = 2
    <3>1. j = NReg + 1 /\ r = C!SREG
      BY <2>2, <1>2, Orders
    <3> QED BY <3>1, <1>3, ByteIs
  <2>3. CASE k \in 3 .. NReg + 2
    <3>1. j \in 1 .. NReg /\ NReg + 1 - j = k - 2 /\ r = k - 2 /\ r # C!SREG /\ r # 0 /\ r \in C!Regs
      <4>1. r = k - 2 /\ C!SREG = -1
        BY <2>3, Orders
      <4>2. k \in Int /\ k >= 3 /\ k <= NReg + 2
        BY <2>3, <1>2
      <4> HIDE DEF k, r
      <4>3. j = NReg + 3 - k
        BY DEF k
      <4> HIDE DEF j
      <4> QED BY <4>1, <4>2, <4>3, <1>2 DEF C!Regs
    <3>2. FrameByte(s, j) = s.regs[r]
      <4>1. FrameByte(s, j) = s.regs[NReg + 1 - j]
        BY <3>1, ByteIs
      <4> QED BY <4>1, <3>1
    <3> QED BY <3>1, <3>2, <1>3
  <2> QED BY <1>2, <1>3, <2>1, <2>2, <2>3
<1>6. /\ sp = Ptr(s, j) + 1 /\ sp \in Int /\ sp <= T /\ sp > T - THREAD_STACK_SIZE
      /\ sp \in C!Memory /\ sp' = Ptr(s, j) /\ sp' \in Int
  <2>1. /\ s.sp \in Int /\ s.sp <= T /\ s.sp >= T - 1
        /\ Ptr(s, j) = s.sp - NReg - 5 + j /\ Ptr(s, j + 1) = s.sp - NReg - 5 + (j + 1)
    BY <1>2, <1>3, <1>4, RecordIs
  <2>2. /\ sp = Ptr(s, j) + 1 /\ sp \in Int /\ sp <= T /\ sp > T - THREAD_STACK_SIZE
    BY <1>2, <1>3, <1>4, <2>1
  <2>3. sp \in C!Memory
    BY <1>2, <2>2, StackIn
  <2>4. Ptr(s, j) \in Int
    BY <1>2, <1>4, <2>1
  <2> HIDE DEF s, j, T
  <2> QED BY <1>1, <2>2, <2>3, <2>4
<1> HIDE DEF b, r
<1>7. /\ mem' = [a \in C!Memory |-> mem'[a]] /\ mem'[sp] = b
      /\ \A a \in C!Memory : a # sp => mem'[a] = mem[a]
  BY <1>1, <1>2, <1>6
<1>8. regs' = [q \in C!Regs |-> regs'[q]] /\ \A q \in C!Regs : q # 0 => regs'[q] = regs[q]
  BY <1>1, <1>2
<1>9. Frame(mem', cur, s, j)
  <2> HIDE DEF s, j
  <2>1. ASSUME NEW a \in Int, a > Ptr(s, j + 1), a <= T PROVE mem'[a] = mem[a]
    <3>1. a > sp
      BY <2>1, <1>3, <1>4
    <3>2. a \in C!Memory
      BY <2>1, <3>1, <1>2, <1>6, StackIn
    <3> QED BY <3>1, <3>2, <1>6, <1>7
  <2>2. Frame(mem, cur, s, j + 1)
    BY <1>3, <1>4
  <2>3. Frame(mem', cur, s, j + 1)
    BY <2>1, <2>2, <1>2, <1>3, <1>4, FrameKept
  <2>4. mem'[Ptr(s, j) + 1] = FrameByte(s, j)
    BY <1>5, <1>6, <1>7
  <2>5. \A i \in j .. NReg + 2 : i = j \/ i \in j + 1 .. NReg + 2
    BY <1>2, <1>4
  <2> QED BY <2>3, <2>4, <2>5 DEF Frame
<1>10. AllSuspended'
  <2>1. \A a \in C!Memory : mem'[a] = mem[a] \/ (a > T - THREAD_STACK_SIZE /\ a <= T)
    BY <1>6, <1>7
  <2> QED BY <1>1, <1>2, <2>1, SuspendedStep
<1>11. /\ at' = C!Op(at'.op, at'.k) /\ at'.op \in {"push", "save"}
       /\ at'.op = "push" => at'.k = k + 1 /\ k < NReg + 2
       /\ at'.op = "save" => k = NReg + 2
  <2>1. CASE k < NReg + 2
    BY <2>1, <1>1, Orders DEF C!Op
  <2>2. CASE ~(k < NReg + 2)
    <3>1. k = NReg + 2
      BY <2>2, <1>2, <1>3
    <3> QED BY <2>2, <3>1, <1>1, Orders DEF C!Op
  <2> QED BY <2>1, <2>2
<1>12. StackTypes'
  BY <1>1, <1>6, <1>7, <1>8, <1>11 DEF StackInv, StackTypes, IsSreg, Ops
<1>13. Leaving'
  <2> DEFINE w == saved'[cur']
  <2>1. w = s /\ cur' = cur /\ sreg' = sreg /\ next' = next /\ state' = state
    BY <1>1
  <2> HIDE DEF w, s, j
  <2>2. /\ next' # cur' /\ state'[next'] = "READY" /\ Record(cur', w) /\ sreg' = w.sreg
        /\ ~C!I(sreg')
    BY <1>3, <2>1
  <2>3. ASSUME at'.op = "push"
        PROVE  /\ at'.k \in 1 .. NReg + 2 /\ sp' = Ptr(w, NReg + 4 - at'.k)
               /\ Frame(mem', cur', w, NReg + 4 - at'.k)
               /\ \A q \in C!Regs : q # 0 \/ at'.k = 1 => regs'[q] = w.regs[q]
    <3>1. at'.k \in 1 .. NReg + 2 /\ NReg + 4 - at'.k = j /\ at'.k # 1
      BY <2>3, <1>2, <1>3, <1>11 DEF j
    <3> QED BY <3>1, <2>1, <1>3, <1>6, <1>8, <1>9
  <2>4. ASSUME at'.op = "save" PROVE Frame(mem', cur', w, 1) /\ sp' = Ptr(w, 1)
    <3>1. j = 1
      BY <2>4, <1>2, <1>11 DEF j
    <3> QED BY <3>1, <2>1, <1>6, <1>9
  <2> QED BY <1>11, <2>2, <2>3, <2>4 DEF Leaving, Record, Frame, Ptr, FrameByte, IsSreg, w
<1>14. Running' /\ Arriving' /\ Back'
  BY <1>11 DEF Running, Arriving, Back
<1> QED BY <1>10, <1>12, <1>13, <1>14 DEF StackInv

LEMMA SaveSPStep ==
    ASSUME StackInv, C!SaveSP
    PROVE  StackInv'
<1> DEFINE s == saved[cur]
<1>1. /\ at.op = "save" /\ at' = C!Op("SPL", 0) /\ ctx' = [ctx EXCEPT ![cur] = sp]
      /\ regs' = [regs EXCEPT ![0] = C!Junk, ![NReg - 1] = C!Junk, ![NReg] = C!Junk]
      /\ UNCHANGED <<mem, sp, sreg, cur, next, prev, state, preempts, saved>>
  BY DEF C!SaveSP
<1>2. at' = C!Op(at'.op, at'.k) /\ at'.op = "SPL"
  BY <1>1 DEF C!Op
<1>3. /\ cur \in C!Threads /\ sp \in Int /\ ctx \in [C!Threads -> Int]
      /\ regs = [q \in C!Regs |-> regs[q]]
  BY DEF StackInv, StackTypes
<1>4. /\ next # cur /\ state[next] = "READY" /\ Record(cur, s) /\ sreg = s.sreg /\ ~C!I(sreg)
      /\ Frame(mem, cur, s, 1) /\ sp = Ptr(s, 1)
  BY <1>1 DEF StackInv, Leaving
<1>5. /\ ctx' \in [C!Threads -> Int] /\ ctx'[cur] = sp
      /\ \A u \in C!Threads : u # cur => ctx'[u] = ctx[u]
  BY <1>1, <1>3
<1>6. regs' = [q \in C!Regs |-> regs'[q]]
  BY <1>1, <1>3
<1>7. StackTypes'
  BY <1>1, <1>2, <1>5, <1>6 DEF StackInv, StackTypes, IsSreg, Ops
<1>8. AllSuspended'
  BY <1>1, <1>3, <1>5, SuspendedStep
<1>9. Leaving'
  <2> HIDE DEF s
  <2>1. saved'[cur'] = s
    BY <1>1 DEF s
  <2>2. /\ next' # cur' /\ state'[next'] = "READY" /\ Record(cur', saved'[cur'])
        /\ sreg' = saved'[cur'].sreg /\ ~C!I(sreg')
        /\ Frame(mem', cur', saved'[cur'], 1) /\ ctx'[cur'] = Ptr(saved'[cur'], 1)
    BY <1>1, <1>4, <1>5, <2>1
  <2> QED BY <1>2, <2>2 DEF Leaving, Record, Frame, Ptr, FrameByte, IsSreg
<1>10. Running' /\ Arriving' /\ Back'
  BY <1>2 DEF Running, Arriving, Back
<1> QED BY <1>7, <1>8, <1>9, <1>10 DEF StackInv

(***************************************************************************)
(* The stack pointer is written low byte first.                            *)
(***************************************************************************)
LEMMA LowThenHigh ==
    ASSUME NEW a \in Int, NEW c \in Int
    PROVE  /\ (a \div Base) * Base + (c % Base) \in Int
           /\ ((a \div Base) * Base + (c % Base)) % Base = c % Base
           /\ a % Base = c % Base => (c \div Base) * Base + (a % Base) = c
<1> DEFINE B == Base
           q == a \div Base
           r == c % Base
           y == q * B + r
           d == y \div B
           m == y % B
<1>1. B \in Nat /\ B > 0
  BY StackSizes
<1>2. q \in Int /\ r \in 0 .. B - 1 /\ c = (c \div B) * B + r
  BY <1>1
<1> HIDE DEF B, q, r
<1>3. y \in Int
  BY <1>1, <1>2
<1>4. d \in Int /\ m \in 0 .. B - 1 /\ y = d * B + m
  BY <1>1, <1>3
<1> HIDE DEF d, m
<1>5. (q - d) * B = m - r
  BY <1>1, <1>2, <1>3, <1>4
<1>6. q - d = 0
  <2> DEFINE e == q - d
  <2>1. e \in Int /\ e * B = m - r
    BY <1>2, <1>4, <1>5
  <2> HIDE DEF e
  <2>2. ASSUME e >= 1 PROVE FALSE
    <3>1. e * B >= B
      BY <1>1, <2>1, <2>2
    <3> QED BY <3>1, <1>1, <1>2, <1>4, <2>1
  <2>3. ASSUME e <= -1 PROVE FALSE
    <3>1. e * B <= -B
      BY <1>1, <2>1, <2>3
    <3> QED BY <3>1, <1>1, <1>2, <1>4, <2>1
  <2>4. e \in Int /\ ~(e >= 1) /\ ~(e <= -1)
    BY <2>1, <2>2, <2>3
  <2>5. e = 0
    BY <2>4
  <2> QED BY <2>5 DEF e
<1>7. m = r
  BY <1>1, <1>2, <1>4, <1>5, <1>6
<1> QED BY <1>2, <1>3, <1>7 DEF B, q, r, m

LEMMA LoadSPLStep ==
    ASSUME StackInv, C!LoadSPL
    PROVE  StackInv'
<1> DEFINE s == saved[cur]
<1>1. /\ at.op = "SPL" /\ at' = C!Op("SPH", 0)
      /\ sp' = (sp \div Base) * Base + (ctx[next] % Base)
      /\ UNCHANGED <<mem, regs, sreg, cur, next, prev, state, ctx, preempts, saved>>
  BY DEF C!LoadSPL
<1>2. at' = C!Op(at'.op, at'.k) /\ at'.op = "SPH"
  BY <1>1 DEF C!Op
<1>3. cur \in C!Threads /\ next \in C!Threads /\ sp \in Int /\ ctx[next] \in Int
  BY DEF StackInv, StackTypes
<1>4. /\ next # cur /\ state[next] = "READY" /\ Record(cur, s) /\ sreg = s.sreg /\ ~C!I(sreg)
      /\ Frame(mem, cur, s, 1) /\ ctx[cur] = Ptr(s, 1)
  BY <1>1 DEF StackInv, Leaving
<1>5. sp' \in Int /\ sp' % Base = ctx[next] % Base
  BY <1>1, <1>3, LowThenHigh
<1>6. StackTypes'
  BY <1>1, <1>2, <1>5 DEF StackInv, StackTypes, IsSreg, Ops
<1>7. AllSuspended'
  BY <1>1, <1>3, SuspendedStep
<1>8. Leaving'
  <2> HIDE DEF s
  <2>1. saved'[cur'] = s
    BY <1>1 DEF s
  <2>2. /\ next' # cur' /\ state'[next'] = "READY" /\ Record(cur', saved'[cur'])
        /\ sreg' = saved'[cur'].sreg /\ ~C!I(sreg')
        /\ Frame(mem', cur', saved'[cur'], 1) /\ ctx'[cur'] = Ptr(saved'[cur'], 1)
        /\ sp' % Base = ctx'[next'] % Base
    BY <1>1, <1>4, <1>5, <2>1
  <2> QED BY <1>2, <2>2 DEF Leaving, Record, Frame, Ptr, FrameByte, IsSreg
<1>9. Running' /\ Arriving' /\ Back'
  BY <1>2 DEF Running, Arriving, Back
<1> QED BY <1>6, <1>7, <1>8, <1>9 DEF StackInv

(***************************************************************************)
(* The thread that is left is suspended from here on, with the frame that  *)
(* the pushes built.                                                       *)
(***************************************************************************)
LEMMA LoadSPHStep ==
    ASSUME StackInv, C!LoadSPH
    PROVE  StackInv'
<1> DEFINE s == saved[cur]
           w == saved[next]
<1>1. /\ at.op = "SPH" /\ at' = C!Op("pop", 1) /\ cur' = next
      /\ sp' = (ctx[next] \div Base) * Base + (sp % Base)
      /\ UNCHANGED <<mem, regs, sreg, next, prev, state, ctx, preempts, saved>>
  BY DEF C!LoadSPH
<1>2. at' = C!Op(at'.op, at'.k) /\ at'.op = "pop" /\ at'.k = 1
  BY <1>1 DEF C!Op
<1>3. cur \in C!Threads /\ next \in C!Threads /\ sp \in Int /\ ctx[next] \in Int
  BY DEF StackInv, StackTypes
<1>4. /\ next # cur /\ state[next] = "READY" /\ Record(cur, s) /\ sreg = s.sreg /\ ~C!I(sreg)
      /\ Frame(mem, cur, s, 1) /\ ctx[cur] = Ptr(s, 1) /\ sp % Base = ctx[next] % Base
  BY <1>1 DEF StackInv, Leaving
<1>5. sp' = ctx[next]
  BY <1>1, <1>3, <1>4, LowThenHigh
<1>6. Record(next, w) /\ ctx[next] = Ptr(w, 1) /\ Frame(mem, next, w, 1)
  BY <1>3, <1>4 DEF StackInv, AllSuspended, Suspended
<1>7. StackTypes'
  BY <1>1, <1>2, <1>3, <1>5 DEF StackInv, StackTypes, IsSreg, Ops
<1>8. AllSuspended'
  <2>1. ASSUME NEW t \in C!Threads, state'[t] = "READY", t # cur' PROVE Suspended(t)'
    <3>1. Suspended(t)
      BY <2>1, <1>1, <1>4 DEF StackInv, AllSuspended, Suspended
    <3> QED BY <3>1, <1>1 DEF Suspended, Record, Frame, Ptr, FrameByte, IsSreg
  <2> QED BY <2>1 DEF AllSuspended
<1>9. Arriving'
  <2> HIDE DEF w
  <2>1. saved'[cur'] = w
    BY <1>1 DEF w
  <2>2. /\ state'[cur'] = "READY" /\ Record(cur', saved'[cur']) /\ at'.k \in 1 .. NReg + 2
        /\ sp' = Ptr(saved'[cur'], at'.k) /\ Frame(mem', cur', saved'[cur'], at'.k)
        /\ 1 .. at'.k - 1 = {} /\ ~C!I(sreg')
    BY <1>1, <1>2, <1>4, <1>5, <1>6, <2>1, StackSizes
  <2> QED BY <1>2, <2>2 DEF Arriving, Record, Frame, Ptr, FrameByte, IsSreg
<1>10. Running' /\ Leaving' /\ Back'
  BY <1>2 DEF Running, Leaving, Back
<1> QED BY <1>7, <1>8, <1>9, <1>10 DEF StackInv

(***************************************************************************)
(* Each pop restores what its byte of the frame stands for and leaves what *)
(* is restored already: SREG goes through r0, which is popped after it.    *)
(***************************************************************************)
LEMMA PopStep ==
    ASSUME StackInv, C!Pop
    PROVE  StackInv'
<1> DEFINE s == saved[cur]
           k == at.k
           r == C!PopOrder[at.k]
           x == IF r = C!SREG THEN 0 ELSE r
           b == mem[sp + 1]
<1>1. /\ at.op = "pop" /\ sp' = sp + 1 /\ regs' = [regs EXCEPT ![x] = b]
      /\ sreg' = IF r = C!SREG THEN b ELSE sreg
      /\ at' = IF k < Len(C!PopOrder) THEN C!Op("pop", k + 1) ELSE C!Op("ret", 0)
      /\ UNCHANGED <<mem, cur, next, prev, state, ctx, preempts, saved>>
  BY DEF C!Pop
<1>2. /\ cur \in C!Threads /\ NReg \in Nat /\ NReg >= 1
      /\ regs = [q \in C!Regs |-> regs[q]] /\ IsSreg(sreg)
  BY StackSizes DEF StackInv, StackTypes
<1>3. /\ state[cur] = "READY" /\ Record(cur, s)
      /\ k \in 1 .. NReg + 2 /\ sp = Ptr(s, k) /\ Frame(mem, cur, s, k)
      /\ \A j \in 1 .. k - 1 : FrameByte(s, j) = IF C!PopOrder[j] = C!SREG THEN sreg
                                                 ELSE regs[C!PopOrder[j]]
      /\ C!I(sreg) => k = NReg + 2
  BY <1>1 DEF StackInv, Arriving
<1>4. b = FrameByte(s, k)
  <2>1. k \in k .. NReg + 2
    BY <1>2, <1>3
  <2> QED BY <1>3, <2>1 DEF Frame
<1>5. sp' = Ptr(s, k + 1) /\ sp' \in Int
  <2>1. /\ s.sp \in Int /\ Ptr(s, k) = s.sp - NReg - 5 + k
        /\ Ptr(s, k + 1) = s.sp - NReg - 5 + (k + 1)
    BY <1>2, <1>3, RecordIs
  <2>2. sp = Ptr(s, k) /\ k \in Int /\ sp' = sp + 1 /\ NReg \in Int
    BY <1>1, <1>2, <1>3
  <2> HIDE DEF s, k
  <2> QED BY <2>1, <2>2
<1>6. Frame(mem, cur, s, k + 1)
  <2>1. \A j \in k + 1 .. NReg + 2 : j \in k .. NReg + 2
    BY <1>2, <1>3
  <2> QED BY <1>3, <2>1 DEF Frame
<1>7. /\ C!SREG = -1 /\ (k <= NReg => r = NReg + 1 - k /\ r \in C!Regs /\ r > 0)
      /\ (k = NReg + 1 => r = C!SREG) /\ (k = NReg + 2 => r = 0) /\ x \in C!Regs
      /\ (r = C!SREG <=> k = NReg + 1)
  <2>1. CASE k \in 1 .. NReg
    <3>1. r = NReg + 1 - k /\ C!SREG = -1
      BY <2>1, Orders
    <3> HIDE DEF k, r
    <3> QED BY <2>1, <3>1, <1>2 DEF C!Regs
  <2>2. CASE k = NReg + 1
    BY <2>2, <1>2, Orders DEF C!Regs
  <2>3. CASE k = NReg + 2
    BY <2>3, <1>2, Orders DEF C!Regs
  <2> QED BY <1>2, <1>3, <2>1, <2>2, <2>3
<1>8. /\ regs' = [q \in C!Regs |-> regs'[q]] /\ regs'[x] = b
      /\ \A q \in C!Regs : q # x => regs'[q] = regs[q]
  <2> HIDE DEF x, b
  <2> QED BY <1>1, <1>2, <1>7
<1>9. ASSUME NEW j \in 1 .. k
      PROVE  FrameByte(s, j) = IF C!PopOrder[j] = C!SREG THEN sreg' ELSE regs'[C!PopOrder[j]]
  <2>1. CASE j = k
    BY <2>1, <1>1, <1>4, <1>8
  <2>2. CASE j # k
    <3>1. j \in 1 .. k - 1 /\ j \in 1 .. NReg + 1 /\ j < k
      BY <2>2, <1>2, <1>3
    <3>2. CASE j = NReg + 1
      <4>1. k = NReg + 2 /\ C!PopOrder[j] = C!SREG /\ r # C!SREG
        BY <3>1, <3>2, <1>2, <1>3, <1>7, Orders
      <4> QED BY <3>1, <4>1, <1>1, <1>3
    <3>3. CASE j \in 1 .. NReg
      <4> DEFINE p == C!PopOrder[j]
      <4>1. p = NReg + 1 - j /\ C!SREG = -1
        BY <3>3, Orders
      <4>2. p \in C!Regs /\ p > 0 /\ p # C!SREG
        <5> HIDE DEF p
        <5> QED BY <3>3, <4>1, <1>2 DEF C!Regs
      <4>3. p # x
        <5>1. CASE k <= NReg
          <6>1. x = NReg + 1 - k
            BY <5>1, <1>7
          <6> HIDE DEF p, x, k
          <6> QED BY <6>1, <3>1, <4>1, <1>2, <1>3
        <5>2. CASE ~(k <= NReg)
          <6>1. x = 0
            BY <5>2, <1>2, <1>3, <1>7
          <6> HIDE DEF p, x
          <6> QED BY <6>1, <4>2
        <5> QED BY <5>1, <5>2
      <4>4. FrameByte(s, j) = regs[p]
        BY <3>1, <4>2, <1>3
      <4> QED BY <4>2, <4>3, <4>4, <1>8
    <3> QED BY <3>1, <3>2, <3>3, <1>2
  <2> QED BY <2>1, <2>2
<1>10. /\ at' = C!Op(at'.op, at'.k) /\ at'.op \in {"pop", "ret"}
       /\ at'.op = "pop" => at'.k = k + 1 /\ k < NReg + 2
       /\ at'.op = "ret" => k = NReg + 2
  <2>1. CASE k < NReg + 2
    BY <2>1, <1>1, Orders DEF C!Op
  <2>2. CASE ~(k < NReg + 2)
    <3>1. k = NReg + 2
      BY <2>2, <1>2, <1>3
    <3> QED BY <2>2, <3>1, <1>1, Orders DEF C!Op
  <2> QED BY <2>1, <2>2
<1>11. IsSreg(sreg')
  <2>1. CASE r = C!SREG
    <3>1. b = s.sreg
      BY <2>1, <1>4, <1>7, ByteIs
    <3> QED BY <2>1, <3>1, <1>1, <1>3 DEF Record
  <2>2. CASE r # C!SREG
    BY <2>2, <1>1, <1>2
  <2> QED BY <2>1, <2>2
<1>12. StackTypes'
  BY <1>1, <1>5, <1>8, <1>10, <1>11 DEF StackInv, StackTypes, IsSreg, Ops
<1>13. AllSuspended'
  BY <1>1, <1>2, SuspendedStep
<1>14. Arriving'
  <2> DEFINE w == saved'[cur']
  <2>1. w = s /\ cur' = cur /\ mem' = mem /\ state' = state
    BY <1>1
  <2> HIDE DEF w, s, r, x, b
  <2>2. state'[cur'] = "READY" /\ Record(cur', w)
    BY <1>3, <2>1
  <2>3. ASSUME at'.op = "pop"
        PROVE  /\ at'.k \in 1 .. NReg + 2 /\ sp' = Ptr(w, at'.k) /\ Frame(mem', cur', w, at'.k)
               /\ \A j \in 1 .. at'.k - 1 :
                      FrameByte(w, j) = IF C!PopOrder[j] = C!SREG THEN sreg'
                                        ELSE regs'[C!PopOrder[j]]
               /\ C!I(sreg') => at'.k = NReg + 2
    <3>1. at'.k = k + 1 /\ k < NReg + 2
      BY <2>3, <1>10
    <3>2. at'.k \in 1 .. NReg + 2 /\ 1 .. at'.k - 1 = 1 .. k
      BY <3>1, <1>2, <1>3
    <3>3. sp' = Ptr(w, at'.k) /\ Frame(mem', cur', w, at'.k)
      BY <3>1, <2>1, <1>5, <1>6
    <3>4. ASSUME NEW j \in 1 .. at'.k - 1
          PROVE  FrameByte(w, j) = IF C!PopOrder[j] = C!SREG THEN sreg'
                                   ELSE regs'[C!PopOrder[j]]
      BY <3>2, <2>1, <1>9
    <3>5. C!I(sreg') => at'.k = NReg + 2
      <4>1. CASE k = NReg + 1
        BY <4>1, <3>1, <1>2
      <4>2. CASE k # NReg + 1
        BY <4>2, <3>1, <1>1, <1>2, <1>3, <1>7
      <4> QED BY <4>1, <4>2
    <3> QED BY <3>2, <3>3, <3>4, <3>5
  <2>4. ASSUME at'.op = "ret"
        PROVE  /\ sp' = Ptr(w, NReg + 3) /\ Frame(mem', cur', w, NReg + 3)
               /\ regs' = w.regs /\ sreg' = w.sreg
    <3>1. k = NReg + 2 /\ k + 1 = NReg + 3
      BY <2>4, <1>2, <1>10
    <3>2. sp' = Ptr(w, NReg + 3) /\ Frame(mem', cur', w, NReg + 3)
      BY <3>1, <2>1, <1>5, <1>6
    <3>3. sreg' = s.sreg
      <4>1. NReg + 1 \in 1 .. k
        BY <3>1, <1>2
      <4>2. FrameByte(s, NReg + 1) = sreg'
        BY <4>1, <1>9, Orders
      <4> QED BY <4>2, ByteIs
    <3>4. ASSUME NEW q \in C!Regs PROVE regs'[q] = s.regs[q]
      <4>1. CASE q = 0
        <5>1. NReg + 2 \in 1 .. k
          BY <3>1, <1>2
        <5>2. FrameByte(s, NReg + 2) = regs'[0]
          BY <5>1, <1>9, Orders
        <5> QED BY <4>1, <5>2, ByteIs
      <4>2. CASE q # 0
        <5> DEFINE j == NReg + 1 - q
        <5>1. j \in 1 .. NReg /\ j \in 1 .. k /\ NReg + 1 - j = q /\ q # -1
          BY <4>2, <3>1, <1>2 DEF C!Regs
        <5>2. C!PopOrder[j] = q /\ C!SREG = -1
          <6> HIDE DEF j
          <6>1. C!PopOrder[j] = NReg + 1 - j /\ C!SREG = -1
            BY <5>1, Orders
          <6> QED BY <6>1, <5>1
        <5>3. FrameByte(s, j) = regs'[q]
          <6> HIDE DEF j
          <6> QED BY <5>1, <5>2, <1>9
        <5>4. FrameByte(s, j) = s.regs[q]
          <6> HIDE DEF j
          <6>1. FrameByte(s, j) = s.regs[NReg + 1 - j]
            BY <5>1, ByteIs
          <6> QED BY <6>1, <5>1
        <5> QED BY <5>3, <5>4
      <4> QED BY <4>1, <4>2
    <3>5. regs' = s.regs
      <4>1. s.regs = [q \in C!Regs |-> s.regs[q]]
        BY <1>3 DEF Record
      <4>2. [q \in C!Regs |-> regs'[q]] = [q \in C!Regs |-> s.regs[q]]
        BY <3>4
      <4> QED BY <4>1, <4>2, <1>8
    <3> QED BY <3>2, <3>3, <3>5, <2>1
  <2> QED BY <1>10, <2>2, <2>3, <2>4 DEF Arriving, Record, Frame, Ptr, FrameByte, IsSreg, w
<1>15. Running' /\ Leaving' /\ Back'
  BY <1>10 DEF Running, Leaving, Back
<1> QED BY <1>12, <1>13, <1>14, <1>15 DEF StackInv

LEMMA RetStep ==
    ASSUME StackInv, C!Ret
    PROVE  StackInv'
<1> DEFINE s == saved[cur]
<1>1. /\ at.op = "ret" /\ sp' = sp + 2 /\ at' = C!Op(C!ReturnAddress, 0)
      /\ UNCHANGED <<mem, regs, sreg, cur, next, prev, state, ctx, preempts, saved>>
  BY DEF C!Ret
<1>2. cur \in C!Threads /\ NReg \in Nat
  BY StackSizes DEF StackInv, StackTypes
<1>3. /\ state[cur] = "READY" /\ Record(cur, s) /\ sp = Ptr(s, NReg + 3)
      /\ Frame(mem, cur, s, NReg + 3) /\ regs = s.regs /\ sreg = s.sreg
  BY <1>1 DEF StackInv, Arriving
<1>4. /\ s.sp \in Int /\ sp + 1 = s.sp - 1 /\ sp + 2 = s.sp
  <2>1. s.sp \in Int /\ Ptr(s, NReg + 3) = s.sp - NReg - 5 + (NReg + 3)
    BY <1>2, <1>3, RecordIs
  <2> HIDE DEF s
  <2> QED BY <1>2, <1>3, <2>1
<1>5. C!ReturnAddress = s.pc
  <2>1. mem[sp + 1] = C!Hi(s.pc) /\ mem[sp + 2] = C!Lo(s.pc)
    BY <1>3, <1>4 DEF Frame
  <2>2. C!Hi(s.pc)[2] = s.pc
    BY DEF C!Hi
  <2> HIDE DEF s
  <2>3. mem[sp + 1][2] = s.pc
    BY <2>1, <2>2
  <2> QED BY <2>1, <2>3 DEF C!ReturnAddress
<1>6. s.pc \in {"yield", "thread_start"} /\ C!Image(mem, cur, s.sp) = s.stack
  BY <1>3 DEF Record, Frame
<1>7. at' = C!Op(at'.op, at'.k) /\ at'.op = s.pc
  BY <1>1, <1>5 DEF C!Op
<1>8. StackTypes'
  BY <1>1, <1>4, <1>6, <1>7 DEF StackInv, StackTypes, IsSreg, Ops
<1>9. AllSuspended'
  BY <1>1, <1>2, SuspendedStep
<1>10. Back'
  <2> HIDE DEF s
  <2>1. saved'[cur'] = s
    BY <1>1 DEF s
  <2>2. state'[cur'] = "READY" /\ Record(cur', saved'[cur'])
    BY <1>1, <1>3, <2>1
  <2>3. /\ regs' = saved'[cur'].regs /\ sreg' = saved'[cur'].sreg /\ at'.op = saved'[cur'].pc
        /\ sp' = saved'[cur'].sp /\ C!Image(mem', cur', sp') = saved'[cur'].stack
    BY <1>1, <1>3, <1>4, <1>6, <1>7, <2>1
  <2> QED BY <2>2, <2>3 DEF Back, C!Resumed, Record, IsSreg
<1>11. Running' /\ Leaving' /\ Arriving'
  BY <1>6, <1>7 DEF Running, Leaving, Arriving
<1> QED BY <1>8, <1>9, <1>10, <1>11 DEF StackInv

LEMMA GainStep ==
    ASSUME StackInv, C!gain
    PROVE  StackInv'
<1> DEFINE i == C!I(sreg) \/ at.op = "thread_start" \/ preempts[cur]
<1>1. /\ at.op \in {"yield", "thread_start"} /\ at' = C!Op("run", 0)
      /\ state' = [state EXCEPT ![prev] = IF state[prev] = "EXITED" THEN "UNUSED" ELSE state[prev]]
      /\ sreg' = C!SregOf(i, sreg[3])
      /\ UNCHANGED <<mem, sp, regs, cur, next, prev, ctx, preempts, saved>>
  BY DEF C!gain, C!release_TCB, C!Run
<1>2. at' = C!Op(at'.op, at'.k) /\ at'.op = "run"
  BY <1>1 DEF C!Op
<1>3. /\ cur \in C!Threads /\ prev \in C!Threads /\ IsSreg(sreg)
      /\ state \in [C!Threads -> {"UNUSED", "READY", "EXITED"}]
      /\ preempts \in [C!Threads -> BOOLEAN]
  BY DEF StackInv, StackTypes
<1>4. state[cur] = "READY" /\ sp \in {C!Top(cur), C!Top(cur) - 1}
  BY <1>1 DEF StackInv, Back, C!Resumed, Record
<1>5. /\ state' \in [C!Threads -> {"UNUSED", "READY", "EXITED"}]
      /\ \A t \in C!Threads : state'[t] = "READY" <=> state[t] = "READY"
  BY <1>1, <1>3
<1>6. IsSreg(sreg')
  <2>1. i \in BOOLEAN
    BY <1>3 DEF IsSreg
  <2> HIDE DEF i
  <2> QED BY <1>1, <2>1 DEF IsSreg, C!SregOf, C!I
<1>7. StackTypes'
  BY <1>1, <1>2, <1>5, <1>6 DEF StackInv, StackTypes, IsSreg, Ops
<1>8. AllSuspended'
  BY <1>1, <1>3, <1>5, SuspendedStep
<1>9. Running'
  BY <1>1, <1>3, <1>4, <1>5 DEF Running
<1>10. Leaving' /\ Arriving' /\ Back'
  BY <1>2 DEF Leaving, Arriving, Back
<1> QED BY <1>7, <1>8, <1>9, <1>10 DEF StackInv

LEMMA StackStep == StackInv /\ C!Next => StackInv'
<1> SUFFICES ASSUME StackInv, C!Next PROVE StackInv'
  OBVIOUS
<1>1. ASSUME NEW t \in C!Threads, C!Spawn(t) PROVE StackInv'
  BY <1>1, SpawnStep
<1>2. ASSUME NEW t \in C!Threads, NEW exits \in BOOLEAN, C!yield(t, exits) PROVE StackInv'
  BY <1>2, YieldStep
<1>3. ASSUME NEW v, NEW i \in BOOLEAN, C!Computes(v, i) PROVE StackInv'
  BY <1>3, ComputesStep
<1>4. ASSUME NEW v, C!Pushes(v) PROVE StackInv'
  BY <1>4, PushesStep
<1>5. CASE C!Interrupt
  BY <1>5, InterruptStep
<1>6. CASE C!Push \/ C!SaveSP
  BY <1>6, PushStep, SaveSPStep
<1>7. CASE C!LoadSPL \/ C!LoadSPH
  BY <1>7, LoadSPLStep, LoadSPHStep
<1>8. CASE C!Pop \/ C!Ret
  BY <1>8, PopStep, RetStep
<1>9. CASE C!gain
  BY <1>9, GainStep
<1> QED BY <1>1, <1>2, <1>3, <1>4, <1>5, <1>6, <1>7, <1>8, <1>9 DEF C!Next

(***************************************************************************)
(* A thread that cpu_swap_context switches to finds every register, the    *)
(* flags, its return address and its stack as it left them, and nothing    *)
(* writes to its frame until then: for any number of threads and registers *)
(* and any size of a byte, on stacks that hold a frame and an interrupt.   *)
(***************************************************************************)
THEOREM SwitchSafe == MCSpec => []SwitchSound
<1> DEFINE Inv == part = "switch" => StackInv
<1>1. MCInit => Inv
  BY StackInitial DEF MCInit
<1>2. Inv /\ [MCNext]_allvars => Inv'
  <2> SUFFICES ASSUME Inv, [MCNext]_allvars PROVE Inv'
    OBVIOUS
  <2>1. CASE UNCHANGED <<part, stacks>>
    <3> SUFFICES ASSUME StackInv PROVE StackInv'
      BY <2>1
    <3>1. StackTypes' /\ Running'
      BY <2>1 DEF stacks, StackInv, StackTypes, Running, IsSreg
    <3>2. AllSuspended'
      BY <2>1 DEF stacks, StackInv, AllSuspended, Suspended, Record, Frame, Ptr, FrameByte, IsSreg
    <3>3. Leaving'
      BY <2>1 DEF stacks, StackInv, Leaving, Record, Frame, Ptr, FrameByte, IsSreg
    <3>4. Arriving'
      BY <2>1 DEF stacks, StackInv, Arriving, Record, Frame, Ptr, FrameByte, IsSreg
    <3>5. Back'
      BY <2>1 DEF stacks, StackInv, Back, C!Resumed, Record, IsSreg
    <3> QED BY <3>1, <3>2, <3>3, <3>4, <3>5 DEF StackInv
  <2>2. CASE part = "switch" /\ C!Next /\ UNCHANGED part
    BY <2>2, StackStep
  <2> QED BY <2>1, <2>2 DEF MCNext, allvars
<1>3. Inv => SwitchSound
  <2> SUFFICES ASSUME StackInv PROVE C!Resumed /\ C!FrameIntact
    BY DEF SwitchSound
  <2>1. C!Resumed
    BY DEF StackInv, Back, C!Resumed
  <2>2. ASSUME NEW t \in C!Threads, state[t] = "READY", t # cur
        PROVE  /\ ctx[t] = saved[t].sp - NReg - 4
               /\ C!Image(mem, t, saved[t].sp) = saved[t].stack
               /\ \A k \in 1 .. NReg + 2 : mem[ctx[t] + k] = FrameByte(saved[t], k)
    <3> DEFINE s == saved[t]
    <3>1. Record(t, s) /\ ctx[t] = Ptr(s, 1) /\ Frame(mem, t, s, 1)
      BY <2>2 DEF StackInv, AllSuspended, Suspended
    <3>2. /\ NReg \in Nat /\ s.sp \in Int /\ \A k \in Int : Ptr(s, k) = s.sp - NReg - 5 + k
      BY <3>1, RecordIs, StackSizes
    <3>3. C!Image(mem, t, s.sp) = s.stack /\ \A k \in 1 .. NReg + 2 : mem[Ptr(s, k) + 1] = FrameByte(s, k)
      BY <3>1 DEF Frame
    <3> HIDE DEF s
    <3>4. ctx[t] = s.sp - NReg - 4 /\ \A k \in 1 .. NReg + 2 : ctx[t] + k = Ptr(s, k) + 1
      BY <3>1, <3>2
    <3> QED BY <3>3, <3>4 DEF s
  <2> QED BY <2>1, <2>2 DEF C!FrameIntact, FrameByte
<1> QED BY <1>1, <1>2, <1>3, PTL DEF MCSpec

-----------------------------------------------------------------------------
(***************************************************************************)
(* The serial device.  Bytes are numbered as they arrive, so what is in    *)
(* the receiver is later than what any reader has.                         *)
(***************************************************************************)
Rising(s) == \A i, j \in DOMAIN s : i < j => s[i] < s[j]

SerialTypes ==
    /\ mode \in [Readers \cup Writers \cup {"idle"} -> {"user", "read", "write", "done"}]
    /\ buf \in [Readers -> Seq(Nat)] /\ count \in [Writers -> Nat] /\ line \in 0 .. MaxBytes
    /\ rx \in Seq(Nat) /\ tx \in Seq(Writers \X Nat) /\ wire \in Seq(Writers \X Nat)

ModeInv ==
    /\ \A t \in Readers \cup Writers \cup {"idle"} : /\ mode[t] = "read" => t \in Readers
                                                     /\ mode[t] = "write" => t \in Writers
    /\ \A t \in Readers : /\ mode[t] = "user" => buf[t] = <<>>
                          /\ Len(buf[t]) <= Size
                          /\ mode[t] = "read" => Len(buf[t]) < Size
                          /\ mode[t] = "done" => buf[t] # <<>>

RxInv == Rising(rx) /\ \A i \in DOMAIN rx : rx[i] <= line

BufInv ==
    /\ \A t \in Readers : /\ Rising(buf[t])
                          /\ \A i \in DOMAIN buf[t] : /\ buf[t][i] <= line
                                                      /\ \A j \in DOMAIN rx : buf[t][i] < rx[j]
    /\ \A t, u \in Readers : t # u =>
          \A i \in DOMAIN buf[t], j \in DOMAIN buf[u] : buf[t][i] # buf[u][j]

SerialInv == SerialTypes /\ ModeInv /\ RxInv /\ BufInv /\ D!WireInOrder

LEMMA TailRising ==
    ASSUME NEW s \in Seq(Nat), s # <<>>, Rising(s)
    PROVE  /\ Head(s) \in Nat /\ Tail(s) \in Seq(Nat) /\ Rising(Tail(s))
           /\ \E i \in DOMAIN s : s[i] = Head(s)
           /\ \A i \in DOMAIN Tail(s) : Head(s) < Tail(s)[i] /\ \E j \in DOMAIN s : Tail(s)[i] = s[j]
<1>1. /\ Head(s) = s[1] /\ Head(s) \in Nat /\ Tail(s) \in Seq(Nat)
      /\ Len(s) \in Nat \ {0} /\ DOMAIN s = 1 .. Len(s) /\ DOMAIN Tail(s) = 1 .. Len(s) - 1
      /\ \A i \in 1 .. Len(s) - 1 : Tail(s)[i] = s[i + 1]
  OBVIOUS
<1>2. /\ 1 \in 1 .. Len(s) /\ \A i \in 1 .. Len(s) - 1 : i + 1 \in 1 .. Len(s) /\ 1 < i + 1
      /\ \A i, j \in 1 .. Len(s) - 1 : i < j => i + 1 < j + 1
  BY <1>1
<1>3. Rising(Tail(s))
  BY <1>1, <1>2 DEF Rising
<1>4. ASSUME NEW i \in DOMAIN Tail(s)
      PROVE  Head(s) < Tail(s)[i] /\ \E j \in DOMAIN s : Tail(s)[i] = s[j]
  BY <1>1, <1>2 DEF Rising
<1>5. \E i \in DOMAIN s : s[i] = Head(s)
  BY <1>1, <1>2
<1> QED BY <1>1, <1>3, <1>4, <1>5

LEMMA AppendRising ==
    ASSUME NEW s \in Seq(Nat), NEW b \in Nat, Rising(s), \A i \in DOMAIN s : s[i] < b
    PROVE  /\ Append(s, b) \in Seq(Nat) /\ Rising(Append(s, b)) /\ Append(s, b) # <<>>
           /\ Len(Append(s, b)) = Len(s) + 1 /\ Len(s) \in Nat
           /\ \A i \in DOMAIN Append(s, b) :
                 Append(s, b)[i] = b \/ \E j \in DOMAIN s : Append(s, b)[i] = s[j]
<1>1. /\ Append(s, b) \in Seq(Nat) /\ Len(s) \in Nat /\ Len(Append(s, b)) = Len(s) + 1
      /\ DOMAIN s = 1 .. Len(s) /\ DOMAIN Append(s, b) = 1 .. Len(s) + 1
      /\ Append(s, b)[Len(s) + 1] = b /\ \A i \in 1 .. Len(s) : Append(s, b)[i] = s[i]
  OBVIOUS
<1>2. \A i \in 1 .. Len(s) + 1 : i \in 1 .. Len(s) \/ i = Len(s) + 1
  BY <1>1
<1>3. \A i \in 1 .. Len(s) : ~(Len(s) + 1 < i)
  BY <1>1
<1>4. ~(Len(s) + 1 < Len(s) + 1)
  BY <1>1
<1>5. Rising(Append(s, b))
  BY <1>1, <1>2, <1>3, <1>4 DEF Rising
<1>6. Append(s, b) # <<>>
  BY <1>1
<1>7. \A i \in DOMAIN Append(s, b) :
         Append(s, b)[i] = b \/ \E j \in DOMAIN s : Append(s, b)[i] = s[j]
  BY <1>1, <1>2
<1> QED BY <1>1, <1>5, <1>6, <1>7

\* A byte arrives, later than all others.
LEMMA ReceiveStep ==
    ASSUME SerialInv, D!Receive
    PROVE  SerialInv'
<1>1. /\ line \in Nat /\ MaxBytes \in Nat \ {0} /\ line < MaxBytes
      /\ line' = (line % MaxBytes) + 1
  BY SerialAssumption DEF D!Receive, SerialInv, SerialTypes
<1>2. line' = line + 1 /\ line' \in 0 .. MaxBytes /\ line' \in Nat
  <2>1. line % MaxBytes = line
    BY <1>1
  <2> QED BY <1>1, <2>1
<1>3. /\ mode' = mode /\ buf' = buf /\ count' = count /\ tx' = tx /\ wire' = wire
      /\ rx' = IF Len(rx) < RxDepth THEN Append(rx, line') ELSE rx
  BY DEF D!Receive
<1>4. /\ rx \in Seq(Nat) /\ Rising(rx) /\ \A i \in DOMAIN rx : rx[i] \in Nat /\ rx[i] <= line
  BY DEF SerialInv, SerialTypes, RxInv
<1>5. \A i \in DOMAIN rx : rx[i] < line'
  BY <1>1, <1>2, <1>4
<1>6. /\ rx' \in Seq(Nat) /\ Rising(rx')
      /\ \A i \in DOMAIN rx' : rx'[i] = line' \/ \E j \in DOMAIN rx : rx'[i] = rx[j]
  BY <1>2, <1>3, <1>4, <1>5, AppendRising
<1>7. SerialTypes' /\ ModeInv'
  BY <1>2, <1>3, <1>6 DEF SerialInv, SerialTypes, ModeInv
<1>8. RxInv'
  BY <1>2, <1>5, <1>6 DEF RxInv
<1>9. ASSUME NEW t \in Readers, NEW i \in DOMAIN buf[t]
      PROVE  buf[t][i] <= line' /\ \A j \in DOMAIN rx' : buf[t][i] < rx'[j]
  <2>1. buf[t][i] \in Nat /\ buf[t][i] <= line /\ \A j \in DOMAIN rx : buf[t][i] < rx[j]
    BY DEF SerialInv, SerialTypes, BufInv
  <2>2. buf[t][i] < line'
    BY <1>1, <1>2, <2>1
  <2> QED BY <1>2, <1>6, <2>1, <2>2
<1>10. BufInv'
  BY <1>3, <1>9 DEF SerialInv, BufInv
<1>11. D!WireInOrder'
  BY <1>3 DEF SerialInv, D!WireInOrder, D!Sent
<1> QED BY <1>7, <1>8, <1>10, <1>11 DEF SerialInv

\* The byte in the transmit buffer goes out: what is sent is the same.
LEMMA TransmitStep ==
    ASSUME SerialInv, D!Transmit
    PROVE  SerialInv'
<1>1. /\ mode' = mode /\ buf' = buf /\ count' = count /\ line' = line /\ rx' = rx
      /\ wire' = wire \o tx /\ tx' = <<>>
  BY DEF D!Transmit
<1>2. tx \in Seq(Writers \X Nat) /\ wire \in Seq(Writers \X Nat)
  BY DEF SerialInv, SerialTypes
<1>3. wire' \in Seq(Writers \X Nat) /\ tx' \in Seq(Writers \X Nat)
  BY <1>1, <1>2, ConcatProperties
<1>4. D!Sent' = D!Sent
  <2>1. wire' \o tx' = wire'
    BY <1>1, <1>3
  <2> QED BY <1>1, <2>1 DEF D!Sent
<1>5. SerialTypes' /\ ModeInv' /\ RxInv' /\ BufInv'
  BY <1>1, <1>3 DEF SerialInv, SerialTypes, ModeInv, RxInv, BufInv
<1>6. D!WireInOrder'
  BY <1>1, <1>4 DEF SerialInv, D!WireInOrder
<1> QED BY <1>5, <1>6 DEF SerialInv

\* The interrupt throws the first byte away.
LEMMA RxInterruptStep ==
    ASSUME SerialInv, D!RxInterrupt
    PROVE  SerialInv'
<1>1. /\ mode' = mode /\ buf' = buf /\ count' = count /\ line' = line /\ tx' = tx /\ wire' = wire
      /\ rx # <<>> /\ rx' = Tail(rx)
  BY DEF D!RxInterrupt
<1>2. /\ rx' \in Seq(Nat) /\ Rising(rx')
      /\ \A i \in DOMAIN rx' : \E j \in DOMAIN rx : rx'[i] = rx[j]
  BY <1>1, TailRising DEF SerialInv, SerialTypes, RxInv
<1>3. SerialTypes' /\ ModeInv'
  BY <1>1, <1>2 DEF SerialInv, SerialTypes, ModeInv
<1>4. RxInv' /\ BufInv'
  BY <1>1, <1>2 DEF SerialInv, RxInv, BufInv
<1>5. D!WireInOrder'
  BY <1>1 DEF SerialInv, D!WireInOrder, D!Sent
<1> QED BY <1>3, <1>4, <1>5 DEF SerialInv

\* A step that changes the mode of a thread alone, or none.
LEMMA ModeStep ==
    ASSUME SerialInv, buf' = buf, count' = count, line' = line, rx' = rx, tx' = tx, wire' = wire,
           NEW t \in Readers \cup Writers, NEW m \in {"user", "read", "write", "done"},
           mode' = [mode EXCEPT ![t] = m] \/ mode' = mode,
           m = "read" => t \in Readers /\ Len(buf[t]) < Size,
           m = "write" => t \in Writers,
           m = "user" => t \in Readers /\ buf[t] = <<>>,
           m = "done" /\ t \in Readers => buf[t] # <<>>
    PROVE  SerialInv'
<1>1. SerialTypes'
  BY DEF SerialInv, SerialTypes
<1>2. ModeInv'
  BY DEF SerialInv, SerialTypes, ModeInv
<1>3. RxInv' /\ BufInv'
  BY DEF SerialInv, RxInv, BufInv
<1>4. D!WireInOrder'
  BY DEF SerialInv, D!WireInOrder, D!Sent
<1> QED BY <1>1, <1>2, <1>3, <1>4 DEF SerialInv

\* serial_read takes the first byte from the receiver: later than those that
\* any reader has, and no longer there for the others.
LEMMA ReadByteStep ==
    ASSUME SerialInv, NEW t \in D!Threads, D!ReadByte(t)
    PROVE  SerialInv'
<1> DEFINE h == Head(rx)
           b == Append(buf[t], h)
           m == IF Len(buf[t]) + 1 = Size THEN "done" ELSE "read"
<1>1. /\ mode[t] = "read" /\ rx # <<>> /\ rx' = Tail(rx) /\ buf' = [buf EXCEPT ![t] = b]
      /\ mode' = [mode EXCEPT ![t] = m]
      /\ count' = count /\ line' = line /\ tx' = tx /\ wire' = wire
  BY DEF D!ReadByte
<1>2. t \in Readers /\ Len(buf[t]) < Size /\ Size \in Nat
  BY <1>1, SerialAssumption DEF SerialInv, ModeInv, D!Threads
<1>3. /\ rx \in Seq(Nat) /\ Rising(rx) /\ buf[t] \in Seq(Nat) /\ Rising(buf[t])
      /\ mode \in [Readers \cup Writers \cup {"idle"} -> {"user", "read", "write", "done"}]
      /\ buf \in [Readers -> Seq(Nat)]
  BY <1>2 DEF SerialInv, SerialTypes, RxInv, BufInv
<1>4. /\ h \in Nat /\ rx' \in Seq(Nat) /\ Rising(rx') /\ \E k \in DOMAIN rx : rx[k] = h
      /\ \A i \in DOMAIN rx' : h < rx'[i] /\ \E j \in DOMAIN rx : rx'[i] = rx[j]
  BY <1>1, <1>3, TailRising
<1> HIDE DEF h
<1>5. /\ h <= line /\ \A u \in Readers : \A i \in DOMAIN buf[u] : buf[u][i] < h /\ buf[u][i] <= line
  BY <1>4 DEF SerialInv, RxInv, BufInv
<1>6. /\ b \in Seq(Nat) /\ Rising(b) /\ b # <<>> /\ Len(b) = Len(buf[t]) + 1 /\ Len(buf[t]) \in Nat
      /\ \A i \in DOMAIN b : b[i] = h \/ \E j \in DOMAIN buf[t] : b[i] = buf[t][j]
  BY <1>2, <1>3, <1>4, <1>5, AppendRising
<1> HIDE DEF b
<1>7. buf' \in [Readers -> Seq(Nat)] /\ buf'[t] = b /\ \A u \in Readers \ {t} : buf'[u] = buf[u]
  BY <1>1, <1>2, <1>3, <1>6
<1>8. m \in {"done", "read"} /\ (m = "read" => Len(b) < Size) /\ Len(b) <= Size
  BY <1>2, <1>6
<1> HIDE DEF m
<1>9. SerialTypes'
  BY <1>1, <1>4, <1>7, <1>8 DEF SerialInv, SerialTypes
<1>10. ModeInv'
  BY <1>1, <1>2, <1>3, <1>6, <1>7, <1>8 DEF SerialInv, ModeInv
<1>11. RxInv'
  BY <1>1, <1>4 DEF SerialInv, RxInv
<1>12. ASSUME NEW u \in Readers
       PROVE  /\ Rising(buf'[u])
              /\ \A i \in DOMAIN buf'[u] : /\ buf'[u][i] <= line
                                           /\ \A j \in DOMAIN rx' : buf'[u][i] < rx'[j]
  <2>1. CASE u = t
    <3>1. ASSUME NEW i \in DOMAIN b, NEW j \in DOMAIN rx' PROVE b[i] < rx'[j]
      <4>1. CASE b[i] = h
        BY <1>4, <4>1
      <4>2. CASE \E k \in DOMAIN buf[t] : b[i] = buf[t][k]
        BY <1>2, <1>4, <4>2 DEF SerialInv, BufInv
      <4> QED BY <1>6, <4>1, <4>2
    <3> QED BY <1>2, <1>5, <1>6, <1>7, <2>1, <3>1
  <2>2. CASE u # t
    BY <1>4, <1>7, <2>2 DEF SerialInv, BufInv
  <2> QED BY <2>1, <2>2
<1>13. \A u \in Readers \ {t} : \A i \in DOMAIN b, j \in DOMAIN buf[u] : b[i] # buf[u][j]
  <2> SUFFICES ASSUME NEW u \in Readers \ {t}, NEW i \in DOMAIN b, NEW j \in DOMAIN buf[u]
               PROVE  b[i] # buf[u][j]
    OBVIOUS
  <2>1. CASE b[i] = h
    <3>1. buf[u][j] < h /\ buf[u][j] \in Nat
      BY <1>3, <1>5
    <3> QED BY <1>4, <2>1, <3>1
  <2>2. CASE \E k \in DOMAIN buf[t] : b[i] = buf[t][k]
    BY <1>2, <2>2 DEF SerialInv, BufInv
  <2> QED BY <1>6, <2>1, <2>2
<1>14. ASSUME NEW u \in Readers, NEW v \in Readers, u # v,
              NEW i \in DOMAIN buf'[u], NEW j \in DOMAIN buf'[v]
       PROVE  buf'[u][i] # buf'[v][j]
  <2>1. CASE u = t
    <3>1. /\ v \in Readers \ {t} /\ buf'[u] = b /\ buf'[v] = buf[v]
          /\ i \in DOMAIN b /\ j \in DOMAIN buf[v]
      BY <1>7, <1>14, <2>1
    <3>2. b[i] # buf[v][j]
      BY <1>13, <3>1
    <3> QED BY <3>1, <3>2
  <2>2. CASE v = t
    <3>1. /\ u \in Readers \ {t} /\ buf'[v] = b /\ buf'[u] = buf[u]
          /\ j \in DOMAIN b /\ i \in DOMAIN buf[u]
      BY <1>7, <1>14, <2>2
    <3>2. b[j] # buf[u][i]
      BY <1>13, <3>1
    <3> QED BY <3>1, <3>2
  <2>3. CASE u # t /\ v # t
    <3>1. buf'[u] = buf[u] /\ buf'[v] = buf[v] /\ i \in DOMAIN buf[u] /\ j \in DOMAIN buf[v]
      BY <1>7, <1>14, <2>3
    <3>2. buf[u][i] # buf[v][j]
      BY <1>14, <3>1 DEF SerialInv, BufInv
    <3> QED BY <3>1, <3>2
  <2> QED BY <2>1, <2>2, <2>3
<1>15. BufInv'
  BY <1>1, <1>12, <1>14 DEF BufInv
<1>16. D!WireInOrder'
  BY <1>1 DEF SerialInv, D!WireInOrder, D!Sent
<1> QED BY <1>9, <1>10, <1>11, <1>15, <1>16 DEF SerialInv

\* bios_write_serial takes the next byte of the writer.
LEMMA WriteByteStep ==
    ASSUME SerialInv, NEW t \in D!Threads, D!WriteByte(t)
    PROVE  SerialInv'
<1> DEFINE c == count[t] + 1
           m == IF c = Size THEN "done" ELSE "write"
           e == <<t, c>>
<1>1. /\ mode[t] = "write" /\ tx = <<>> /\ tx' = <<e>> /\ count' = [count EXCEPT ![t] = c]
      /\ mode' = [mode EXCEPT ![t] = m]
      /\ buf' = buf /\ line' = line /\ rx' = rx /\ wire' = wire
  BY DEF D!WriteByte
<1>2. t \in Writers /\ t \notin Readers /\ count[t] \in Nat /\ c \in Nat
  BY <1>1, SerialAssumption DEF SerialInv, SerialTypes, ModeInv, D!Threads
<1>3. m \in {"done", "write"}
  OBVIOUS
<1> HIDE DEF m
<1>4. e \in Writers \X Nat /\ e[1] = t /\ e[2] = c
  BY <1>2
<1>5. tx' \in Seq(Writers \X Nat) /\ Len(tx') = 1 /\ tx'[1] = e
  BY <1>1, <1>4
<1> HIDE DEF e
<1>6. wire \in Seq(Writers \X Nat) /\ Len(wire) \in Nat /\ DOMAIN wire = 1 .. Len(wire)
  BY DEF SerialInv, SerialTypes
<1> DEFINE s == D!Sent
           r == wire' \o tx'
<1>7. s = wire
  BY <1>1, <1>6 DEF D!Sent
<1>8. /\ Len(r) = Len(wire) + 1 /\ r \in Seq(Writers \X Nat)
      /\ \A i \in 1 .. Len(wire) + 1 : r[i] = IF i <= Len(wire) THEN wire[i] ELSE tx'[i - Len(wire)]
  BY <1>1, <1>5, <1>6, ConcatProperties
<1> HIDE DEF r
<1>9. /\ DOMAIN r = 1 .. Len(wire) + 1 /\ r[Len(wire) + 1] = e
      /\ \A i \in DOMAIN wire : i \in DOMAIN r /\ r[i] = wire[i]
      /\ \A i \in DOMAIN r : i \in DOMAIN wire \/ i = Len(wire) + 1
  BY <1>5, <1>6, <1>8
<1>10. count' \in [Writers -> Nat] /\ count'[t] = c /\ \A u \in Writers \ {t} : count'[u] = count[u]
  BY <1>1, <1>2 DEF SerialInv, SerialTypes
<1>11. /\ \A i, j \in DOMAIN wire : i < j /\ wire[i][1] = wire[j][1] => wire[i][2] < wire[j][2]
       /\ \A i \in DOMAIN wire : wire[i][2] \in 1 .. count[wire[i][1]]
       /\ \A u \in Writers : \A k \in 1 .. count[u] : \E i \in DOMAIN wire : wire[i] = <<u, k>>
       /\ \A i \in DOMAIN wire : wire[i][1] \in Writers
  <2>1. D!WireInOrder /\ D!Sent = wire
    BY <1>7 DEF SerialInv
  <2>2. ASSUME NEW i \in DOMAIN wire PROVE wire[i][1] \in Writers
    <3>1. wire[i] \in Writers \X Nat
      BY <1>6
    <3> QED BY <3>1
  <2> QED BY <2>1, <2>2 DEF D!WireInOrder
<1>12. ASSUME NEW i \in DOMAIN r PROVE r[i][2] \in 1 .. count'[r[i][1]]
  BY <1>2, <1>4, <1>9, <1>10, <1>11
<1>13. ASSUME NEW i \in DOMAIN r, NEW j \in DOMAIN r, i < j, r[i][1] = r[j][1]
       PROVE  r[i][2] < r[j][2]
  <2>1. i \in DOMAIN wire
    BY <1>6, <1>9, <1>13
  <2>2. CASE j \in DOMAIN wire
    BY <1>9, <1>11, <1>13, <2>1, <2>2
  <2>3. CASE j = Len(wire) + 1
    <3>1. wire[i][2] \in 1 .. count[t]
      BY <1>4, <1>9, <1>11, <1>13, <2>1, <2>3
    <3> QED BY <1>2, <1>4, <1>9, <2>1, <2>3, <3>1
  <2> QED BY <1>9, <2>2, <2>3
<1>14. ASSUME NEW u \in Writers, NEW k \in 1 .. count'[u] PROVE \E i \in DOMAIN r : r[i] = <<u, k>>
  <2>1. CASE u = t /\ k = c
    <3>1. Len(wire) + 1 \in DOMAIN r
      BY <1>6, <1>9
    <3> QED BY <1>9, <2>1, <3>1 DEF e
  <2>2. CASE ~(u = t /\ k = c)
    <3>1. k \in 1 .. count[u]
      BY <1>2, <1>10, <2>2
    <3>2. PICK i \in DOMAIN wire : wire[i] = <<u, k>>
      BY <1>11, <3>1
    <3> QED BY <1>9, <3>2
  <2> QED BY <2>1, <2>2
<1>15. D!WireInOrder'
  <2>1. D!Sent' = r
    BY DEF D!Sent, r
  <2> QED BY <1>12, <1>13, <1>14, <2>1 DEF D!WireInOrder
<1>16. SerialTypes'
  BY <1>1, <1>3, <1>5, <1>6, <1>10 DEF SerialInv, SerialTypes
<1>17. ModeInv'
  BY <1>1, <1>2, <1>3 DEF SerialInv, SerialTypes, ModeInv
<1>18. RxInv' /\ BufInv'
  BY <1>1 DEF SerialInv, RxInv, BufInv
<1> QED BY <1>15, <1>16, <1>17, <1>18 DEF SerialInv

LEMMA SerialStep == SerialInv /\ D!Next => SerialInv'
<1> SUFFICES ASSUME SerialInv, D!Next PROVE SerialInv'
  OBVIOUS
<1>0. D!Threads = Readers \cup Writers
  BY DEF D!Threads
<1>1. CASE D!Receive
  BY <1>1, ReceiveStep
<1>2. CASE D!Transmit
  BY <1>2, TransmitStep
<1>3. CASE D!RxInterrupt
  BY <1>3, RxInterruptStep
<1>4. ASSUME NEW t, D!Preempt(t) PROVE SerialInv'
  <2>1. /\ mode' = mode /\ buf' = buf /\ count' = count /\ line' = line /\ rx' = rx /\ tx' = tx
        /\ wire' = wire
    BY <1>4 DEF D!Preempt
  <2> QED BY <2>1 DEF SerialInv, SerialTypes, ModeInv, RxInv, BufInv, D!WireInOrder, D!Sent
<1>5. ASSUME NEW t \in D!Threads, D!Read(t) PROVE SerialInv'
  <2>1. Len(<<>>) < Size
    BY SerialAssumption
  <2> QED BY <1>0, <1>5, <2>1, ModeStep DEF D!Read, SerialInv, ModeInv
<1>6. ASSUME NEW t \in D!Threads, D!Write(t) PROVE SerialInv'
  BY <1>0, <1>6, ModeStep DEF D!Write
<1>7. ASSUME NEW t \in D!Threads, NEW u, D!ReadEmpty(t, u) PROVE SerialInv'
  BY <1>0, <1>7, ModeStep DEF D!ReadEmpty
<1>8. ASSUME NEW t \in D!Threads, NEW u, D!WriteFull(t, u) PROVE SerialInv'
  BY <1>0, <1>8, ModeStep DEF D!WriteFull, SerialInv, ModeInv
<1>9. ASSUME NEW t \in D!Threads, D!ReadByte(t) \/ D!WriteByte(t) PROVE SerialInv'
  BY <1>9, ReadByteStep, WriteByteStep
<1> QED BY <1>1, <1>2, <1>3, <1>4, <1>5, <1>6, <1>7, <1>8, <1>9 DEF D!Next, D!Kernel

LEMMA SerialInitial == D!Init => SerialInv
<1> SUFFICES ASSUME D!Init PROVE SerialInv
  OBVIOUS
<1>1. /\ mode = [t \in Readers \cup Writers \cup {"idle"} |-> "user"]
      /\ buf = [t \in Readers |-> <<>>] /\ count = [t \in Writers |-> 0]
      /\ line = 0 /\ rx = <<>> /\ tx = <<>> /\ wire = <<>>
  BY DEF D!Init, D!Threads, D!IDLE
<1>2. SerialTypes
  BY <1>1, SerialAssumption DEF SerialTypes
<1>3. ModeInv
  BY <1>1, SerialAssumption DEF ModeInv
<1>4. RxInv /\ BufInv
  BY <1>1 DEF RxInv, BufInv, Rising
<1>5. D!Sent = <<>>
  BY <1>1 DEF D!Sent
<1>6. D!WireInOrder
  BY <1>1, <1>5 DEF D!WireInOrder
<1> QED BY <1>2, <1>3, <1>4, <1>6 DEF SerialInv

(***************************************************************************)
(* serial_read and serial_write keep the order of bytes: whoever reads,    *)
(* no byte is read twice or out of order, a Read returns some bytes and no *)
(* more than it was asked for, and every byte that a Write handed over is  *)
(* on the wire once and in its place; for any number of readers and        *)
(* writers, any depth of the receiver and any number of bytes.             *)
(***************************************************************************)
THEOREM SerialSafe == MCSpec => []SerialSound
<1> DEFINE Inv == part = "serial" => SerialInv
<1>1. MCInit => Inv
  BY SerialInitial DEF MCInit
<1>2. Inv /\ [MCNext]_allvars => Inv'
  <2> SUFFICES ASSUME Inv, [MCNext]_allvars PROVE Inv'
    OBVIOUS
  <2>1. CASE UNCHANGED <<part, device>>
    <3>1. /\ mode' = mode /\ buf' = buf /\ count' = count /\ line' = line /\ rx' = rx /\ tx' = tx
          /\ wire' = wire /\ part' = part
      BY <2>1 DEF device
    <3>2. ASSUME SerialInv PROVE SerialTypes' /\ ModeInv' /\ RxInv' /\ BufInv'
      BY <3>1, <3>2 DEF SerialInv, SerialTypes, ModeInv, RxInv, BufInv
    <3>3. ASSUME SerialInv PROVE D!WireInOrder'
      BY <3>1, <3>3 DEF SerialInv, D!WireInOrder, D!Sent
    <3> QED BY <3>1, <3>2, <3>3 DEF SerialInv
  <2>2. CASE part = "serial" /\ D!Next /\ UNCHANGED part
    BY <2>2, SerialStep
  <2> QED BY <2>1, <2>2 DEF MCNext, allvars
<1>3. Inv => SerialSound
  <2> SUFFICES ASSUME SerialInv PROVE D!ReadInOrder /\ D!ReadReturnsSome /\ D!WireInOrder
    BY DEF SerialSound
  <2>1. D!ReadInOrder
    BY DEF SerialInv, BufInv, Rising, D!ReadInOrder
  <2>2. D!ReadReturnsSome
    BY DEF SerialInv, ModeInv, D!ReadReturnsSome
  <2> QED BY <2>1, <2>2 DEF SerialInv
<1> QED BY <1>1, <1>2, <1>3, PTL DEF MCSpec

=============================================================================
