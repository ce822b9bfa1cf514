-------------------------------- MODULE Timer --------------------------------
(***************************************************************************)
(* The quantum timer and the clock of cpu.c at register level: Timer 1 in  *)
(* CTC mode, whose 16-bit registers are written and read in two bytes      *)
(* through one TEMP byte that all of them share.  The software is the loop *)
(* of the kernel around it: yield calls bios_cancel_timer, a thread is     *)
(* chosen, gain calls bios_set_timer, the thread runs.  With interrupts on *)
(* (the yield of the idle thread, the gain of a thread that yielded with   *)
(* preemption on) the compare interrupt may come between any two accesses; *)
(* its handler is another yield, which returns when the interrupted thread *)
(* is scheduled again.                                                     *)
(***************************************************************************)
EXTENDS Naturals

CONSTANTS
    Base,           \* values of a byte
    Usec,           \* the quantum, in microseconds
    MaxOverflows    \* bound on the count of overflows

ASSUME TimerAssumption ==
    /\ Base \in Nat \ {0, 1} /\ Usec \in Nat /\ MaxOverflows \in Nat

TOP  == Base * Base - 1
Word == 0 .. TOP
Byte == 0 .. Base - 1

VARIABLES
    TCNT1, OCR1A, TEMP, OCF1A, TOV1,    \* the registers of the timer
    overflows,      \* system_clock_overflows
    pc,             \* the next access of the running code
    ie,             \* interrupts are on
    low,            \* the low byte bios_cancel_timer has read
    preempt,        \* whether gain will turn interrupts on again
    nested,         \* the code that an interrupt has suspended, if any
    Preemptible     \* interrupts may be on in yield and gain

registers == <<TCNT1, OCR1A, TEMP, OCF1A, TOV1>>
system    == <<registers, overflows, pc, ie, low, preempt, nested>>
vars      == <<system, Preemptible>>

High(w)    == w \div Base
Low(w)     == w % Base
Join(h, l) == h * Base + l

\* bios_set_timer: microseconds to ticks in 16 bits, at least one.
ticks == LET t == (Usec \div 4) % (TOP + 1) IN IF t = 0 THEN 1 ELSE t

None == [pc |-> "none", ie |-> FALSE, low |-> 0, preempt |-> FALSE]

\* bios_init, and the first thread under way.
Init ==
    /\ TCNT1 = 0 /\ OCR1A = ticks /\ TEMP = 0 /\ OCF1A = FALSE /\ TOV1 = FALSE
    /\ overflows = 0 /\ pc = "run" /\ ie = TRUE /\ low = 0
    /\ preempt = FALSE /\ nested = None /\ Preemptible \in BOOLEAN

-----------------------------------------------------------------------------
(***************************************************************************)
(* The timer counts: a match sets OCF1A, and the next tick starts from 0   *)
(* again (CTC); only a count that reaches the top sets TOV1.               *)
(***************************************************************************)
Tick ==
    LET n == IF TCNT1 = OCR1A \/ TCNT1 = TOP THEN 0 ELSE TCNT1 + 1 IN
    /\ TCNT1' = n
    /\ OCF1A' = (OCF1A \/ n = OCR1A)
    /\ TOV1' = (TOV1 \/ n = TOP)
    /\ UNCHANGED <<OCR1A, TEMP, overflows, pc, ie, low, preempt, nested>>

\* TIMER1_OVF_vect.
Overflow ==
    /\ ie /\ TOV1
    /\ TOV1' = FALSE
    /\ overflows' = IF overflows < MaxOverflows THEN overflows + 1 ELSE overflows
    /\ UNCHANGED <<TCNT1, OCR1A, TEMP, OCF1A, pc, ie, low, preempt, nested>>

\* fault: no handler is registered for ALARM
Alarm_Unhandled ==
    /\ ie /\ OCF1A /\ nested = None
    /\ OCF1A' = FALSE
    /\ UNCHANGED <<TCNT1, OCR1A, TEMP, TOV1, overflows, pc, ie, low, preempt, nested>>
\* TIMER1_COMPA_vect: the hardware clears the flag, the handler yields.
Alarm ==
    /\ ie /\ OCF1A /\ nested = None
    /\ OCF1A' = FALSE
    /\ nested' = [pc |-> pc, ie |-> ie, low |-> low, preempt |-> preempt]
    /\ pc' = "tcnt_l" /\ ie' = FALSE
    /\ UNCHANGED <<TCNT1, OCR1A, TEMP, TOV1, overflows, low, preempt>>

-----------------------------------------------------------------------------
Goto(l) == pc' = l /\ UNCHANGED <<ie, preempt, nested, overflows>>

\* A yield of the running thread, from a system call or from the idle thread.
Yield(on) ==
    /\ pc = "run"
    /\ pc' = "tcnt_l" /\ ie' = on
    /\ UNCHANGED <<registers, overflows, low, preempt, nested>>

\* Reading the low byte of TCNT1 latches its high byte in TEMP.
ReadTcntLow ==
    /\ pc = "tcnt_l" /\ Goto("tcnt_h")
    /\ low' = Low(TCNT1) /\ TEMP' = High(TCNT1)
    /\ UNCHANGED <<TCNT1, OCR1A, OCF1A, TOV1>>

\* The high byte comes from TEMP.  A count past OCR1A ends bios_cancel_timer.
ReadTcntHigh ==
    /\ pc = "tcnt_h"
    /\ Goto(IF Join(TEMP, low) >= OCR1A THEN "preempt_off" ELSE "off_h")
    /\ UNCHANGED <<registers, low>>

WriteHigh(at, byte, then) ==
    /\ pc = at /\ Goto(then)
    /\ TEMP' = byte
    /\ UNCHANGED <<TCNT1, OCR1A, OCF1A, TOV1, low>>

OffHigh == WriteHigh("off_h", Base - 1, "off_l")

\* Writing the low byte writes TEMP and it at once.
OffLow ==
    /\ pc = "off_l" /\ Goto("preempt_off")
    /\ OCR1A' = Join(TEMP, Base - 1)
    /\ UNCHANGED <<TCNT1, TEMP, OCF1A, TOV1, low>>

PreemptOff ==
    /\ pc = "preempt_off"
    /\ pc' = "gain" /\ ie' = FALSE /\ preempt' = ie
    /\ UNCHANGED <<registers, overflows, low, nested>>

\* A thread is chosen; its gain restores preemption before it sets the timer.
Gain ==
    /\ pc = "gain"
    /\ pc' = "ocr_h" /\ ie' = preempt
    /\ UNCHANGED <<registers, overflows, low, preempt, nested>>

OcrHigh  == WriteHigh("ocr_h", High(ticks), "ocr_l")

\* fault: the bytes go to the register in the wrong order
OcrLow_Swapped ==
    /\ pc = "ocr_l" /\ Goto("cnt_h")
    /\ OCR1A' = Join(Low(ticks), TEMP)
    /\ UNCHANGED <<TCNT1, TEMP, OCF1A, TOV1, low>>
OcrLow ==
    /\ pc = "ocr_l" /\ Goto("cnt_h")
    /\ OCR1A' = Join(TEMP, Low(ticks))
    /\ UNCHANGED <<TCNT1, TEMP, OCF1A, TOV1, low>>

TcntHigh == WriteHigh("cnt_h", 0, "cnt_l")

\* The end of bios_set_timer: back to the thread, or to what was suspended.
TcntLow ==
    /\ pc = "cnt_l"
    /\ TCNT1' = Join(TEMP, 0)
    /\ IF nested = None
       THEN pc' = "run" /\ ie' = TRUE /\ UNCHANGED <<low, preempt, nested>>
       ELSE /\ pc' = nested.pc /\ ie' = nested.ie /\ low' = nested.low
            /\ preempt' = nested.preempt /\ nested' = None
    /\ UNCHANGED <<OCR1A, TEMP, OCF1A, TOV1, overflows>>

Access == \/ ReadTcntLow \/ ReadTcntHigh \/ OffHigh \/ OffLow
          \/ PreemptOff \/ Gain \/ OcrHigh \/ OcrLow \/ TcntHigh \/ TcntLow

Next == /\ \/ Tick \/ Overflow \/ Alarm \/ Access
           \/ Yield(FALSE)
           \/ Preemptible /\ Yield(TRUE)
        /\ UNCHANGED Preemptible

Spec == Init /\ [][Next]_vars

-----------------------------------------------------------------------------
TypeOK ==
    /\ TCNT1 \in Word /\ OCR1A \in Word /\ TEMP \in Byte
    /\ OCF1A \in BOOLEAN /\ TOV1 \in BOOLEAN /\ preempt \in BOOLEAN
    /\ overflows \in 0 .. MaxOverflows /\ ie \in BOOLEAN /\ low \in Byte
    /\ pc \in {"run", "tcnt_l", "tcnt_h", "off_h", "off_l", "preempt_off", "gain",
               "ocr_h", "ocr_l", "cnt_h", "cnt_l"}

(***************************************************************************)
(* While a thread runs, the compare register holds its quantum, even if    *)
(* the compare interrupt came between the two bytes of bios_set_timer: the *)
(* handler leaves 0 in TEMP, so that what is lost is the high byte, and a  *)
(* quantum is cut short and never made longer.  If yield is entered with   *)
(* interrupts off, nothing is lost.                                        *)
(***************************************************************************)
QuantumExact ==
    pc = "run" => \/ OCR1A = ticks
                  \/ Preemptible /\ OCR1A = Low(ticks)

(***************************************************************************)
(* When the next thread is chosen the register is at its top, put off by   *)
(* bios_cancel_timer, or at the quantum that had run out, or it has lost   *)
(* the high byte of one of these to an interrupt; never anything else.     *)
(***************************************************************************)
CancelExact ==
    pc = "gain" => \/ OCR1A \in {ticks, TOP}
                   \/ Preemptible /\ OCR1A \in {Low(ticks), Low(TOP)}

(***************************************************************************)
(* A match belongs to the quantum that gain has started: none is latched   *)
(* between the write of OCR1A and the reset of TCNT1.                      *)
(* The code does not keep this (README, Disagreements).                    *)
(***************************************************************************)
AlarmOnTime == [][OCF1A' /\ ~OCF1A => pc \notin {"cnt_h", "cnt_l"}]_vars

(***************************************************************************)
(* A thread that runs is interrupted after a while.                        *)
(***************************************************************************)
QuantumEnds == pc = "run" ~> pc # "run"

(***************************************************************************)
(* The overflow count, and with it bios_clock, advances.                   *)
(* The code does not keep this (README, Disagreements).                    *)
(***************************************************************************)
ClockAdvances == <>(overflows > 0)

=============================================================================
