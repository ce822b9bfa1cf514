------------------------------- MODULE Devices -------------------------------
(***************************************************************************)
(* The serial device of kernel_dev.c on the UART of cpu.c, used by threads *)
(* through Read and Write.  The core runs one thread at a time: inside a   *)
(* call interrupts are off, and a call gives up the core only where it     *)
(* yields; in user code, and in the idle thread, interrupts are on, so     *)
(* the thread may be preempted and a received byte raises USART_RX_vect.   *)
(* The UART goes on by itself.                                             *)
(*                                                                         *)
(* Bytes are their numbers: received ones in order of arrival, written     *)
(* ones as pairs of the writer and the position in its buffer.             *)
(***************************************************************************)
EXTENDS Naturals, Sequences

CONSTANTS
    Readers, Writers, Others,   \* threads by what they do
    Size,                       \* size argument of Read and Write
    RxDepth,                    \* bytes that the receiver can hold
    MaxBytes,                   \* bytes numbered before the line ends or repeats
    Endless                     \* bytes keep arriving

Threads == Readers \cup Writers \cup Others
IDLE    == "idle"

VARIABLES
    running,        \* the thread on the core
    mode,           \* "user", "read", "write" or "done"
    buf,            \* what a Read has put into its buffer
    count,          \* what a Write has handed to the UART
    line,           \* number of the last byte received
    rx,             \* the receive buffer behind UDR0
    tx,             \* the transmit buffer: empty or one byte (UDRE0)
    wire            \* bytes sent

vars == <<running, mode, buf, count, line, rx, tx, wire>>

Init ==
    /\ running \in Threads \cup {IDLE}
    /\ mode = [t \in Threads \cup {IDLE} |-> "user"]
    /\ buf = [t \in Readers |-> <<>>]
    /\ count = [t \in Writers |-> 0]
    /\ line = 0 /\ rx = <<>> /\ tx = <<>> /\ wire = <<>>

\* Interrupts are on outside the calls.
Ie == mode[running] \in {"user", "done"}

Dispatch(t) == running' = t

-----------------------------------------------------------------------------
\* Hardware: a byte arrives, and is lost if the receiver is full.
Receive ==
    /\ Endless \/ line < MaxBytes
    /\ line' = (line % MaxBytes) + 1
    /\ rx' = IF Len(rx) < RxDepth THEN Append(rx, line') ELSE rx
    /\ UNCHANGED <<running, mode, buf, count, tx, wire>>

\* Hardware: the byte in the transmit buffer goes out.
Transmit ==
    /\ tx # <<>>
    /\ wire' = wire \o tx /\ tx' = <<>>
    /\ UNCHANGED <<running, mode, buf, count, line, rx>>

\* USART_RX_vect takes the byte out of UDR0; serial_rx_handler does nothing.
RxInterrupt ==
    /\ Ie /\ rx # <<>>
    /\ rx' = Tail(rx)
    /\ UNCHANGED <<running, mode, buf, count, line, tx, wire>>

\* A quantum ends, or a thread ends, while interrupts are on.
Preempt(t) ==
    /\ Ie /\ running # t /\ Dispatch(t)
    /\ UNCHANGED <<mode, buf, count, line, rx, tx, wire>>

-----------------------------------------------------------------------------
Read(t) ==
    /\ running = t /\ t \in Readers /\ mode[t] = "user"
    /\ mode' = [mode EXCEPT ![t] = "read"]
    /\ UNCHANGED <<running, buf, count, line, rx, tx, wire>>

\* bios_read_serial has a byte: serial_read goes on, or ends if buf is full.
ReadByte(t) ==
    /\ running = t /\ mode[t] = "read" /\ rx # <<>>
    /\ buf' = [buf EXCEPT ![t] = Append(@, Head(rx))]
    /\ rx' = Tail(rx)
    /\ mode' = [mode EXCEPT ![t] = IF Len(buf[t]) + 1 = Size THEN "done" ELSE "read"]
    /\ UNCHANGED <<running, count, line, tx, wire>>

\* No byte: serial_read ends with what it has, or yields to some thread u.
ReadEmpty(t, u) ==
    /\ running = t /\ mode[t] = "read" /\ rx = <<>>
    /\ IF buf[t] # <<>>
       THEN mode' = [mode EXCEPT ![t] = "done"] /\ UNCHANGED running
       ELSE UNCHANGED mode /\ Dispatch(u)
    /\ UNCHANGED <<buf, count, line, rx, tx, wire>>

Write(t) ==
    /\ running = t /\ t \in Writers /\ mode[t] = "user"
    /\ mode' = [mode EXCEPT ![t] = "write"]
    /\ UNCHANGED <<running, buf, count, line, rx, tx, wire>>

\* fault: UDR0 is written without a look at UDRE0
WriteByte_Overwrites(t) ==
    /\ running = t /\ mode[t] = "write"
    /\ tx' = <<<<t, count[t] + 1>>>>
    /\ count' = [count EXCEPT ![t] = @ + 1]
    /\ mode' = [mode EXCEPT ![t] = IF count[t] + 1 = Size THEN "done" ELSE "write"]
    /\ UNCHANGED <<running, buf, line, rx, wire>>
\* bios_write_serial takes the byte: UDRE0 is set.
WriteByte(t) ==
    /\ running = t /\ mode[t] = "write" /\ tx = <<>>
    /\ tx' = <<<<t, count[t] + 1>>>>
    /\ count' = [count EXCEPT ![t] = @ + 1]
    /\ mode' = [mode EXCEPT ![t] = IF count[t] + 1 = Size THEN "done" ELSE "write"]
    /\ UNCHANGED <<running, buf, line, rx, wire>>

\* The transmit buffer is full: serial_write yields and tries again.
WriteFull(t, u) ==
    /\ running = t /\ mode[t] = "write" /\ tx # <<>>
    /\ Dispatch(u)
    /\ UNCHANGED <<mode, buf, count, line, rx, tx, wire>>

-----------------------------------------------------------------------------
Kernel(t) == \/ ReadByte(t) \/ WriteByte(t)
             \/ \E u \in Threads \cup {IDLE} : ReadEmpty(t, u) \/ WriteFull(t, u)

Next == \/ Receive \/ Transmit \/ RxInterrupt
        \/ \E t \in Threads \cup {IDLE} : Preempt(t)
        \/ \E t \in Threads : Read(t) \/ Write(t) \/ Kernel(t)

Spec == Init /\ [][Next]_vars

-----------------------------------------------------------------------------
(***************************************************************************)
(* Bytes reach the buffers of Read in the order in which they arrived, and *)
(* no byte reaches two buffers, although readers share the receiver.       *)
(***************************************************************************)
ReadInOrder ==
    \A t, u \in Readers : \A i \in DOMAIN buf[t], j \in DOMAIN buf[u] :
        /\ t = u /\ i < j => buf[t][i] < buf[t][j]
        /\ t # u => buf[t][i] # buf[u][j]

(***************************************************************************)
(* serial_read returns at least one byte, and never more than it was       *)
(* asked for.                                                              *)
(***************************************************************************)
ReadReturnsSome ==
    \A t \in Readers : /\ mode[t] = "done" => buf[t] # <<>>
                       /\ Len(buf[t]) <= Size

(***************************************************************************)
(* The bytes of each writer go over the wire completely and in their       *)
(* order, however the writers take turns at the transmitter: each byte     *)
(* that bios_write_serial took is there once, after those before it.       *)
(***************************************************************************)
Sent == wire \o tx

WireInOrder ==
    /\ \A i, j \in DOMAIN Sent :
            i < j /\ Sent[i][1] = Sent[j][1] => Sent[i][2] < Sent[j][2]
    /\ \A i \in DOMAIN Sent : Sent[i][2] \in 1 .. count[Sent[i][1]]
    /\ \A t \in Writers : \A k \in 1 .. count[t] : \E i \in DOMAIN Sent : Sent[i] = <<t, k>>

(***************************************************************************)
(* A Read returns if bytes keep arriving.                                  *)
(* The code does not keep this (README, Disagreements).                    *)
(***************************************************************************)
ReadReturns == \A t \in Readers : mode[t] = "read" ~> mode[t] = "done"

=============================================================================
