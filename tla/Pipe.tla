-------------------------------- MODULE Pipe --------------------------------
(***************************************************************************)
(* One pipe of the legacy kernel (old/kernel_pipe.c) under Read, Write,    *)
(* Close and Dup2 (old/kernel_streams.c), by threads that may block.  Each *)
(* step is what a thread does with the kernel lock, from a call or from    *)
(* kernel_wait to the next kernel_wait or its return.                      *)
(***************************************************************************)
EXTENDS PipeBuffer

CONSTANTS
    Threads,
    Bytes,      \* the bytes written, NUL among them
    MaxLen,     \* longest Read or Write
    MaxFids     \* bound on the descriptors of an end

Ends    == {"read", "write"}
Idle    == [end |-> "none", arg |-> 0]
Buffers == UNION {[1 .. n -> Bytes] : n \in 0 .. MaxLen}

VARIABLES
    pipe,
    refs,       \* the refcount of the FCB of each end
    fids,       \* the descriptors that name it
    call        \* the call a thread is in: its end, and a length or a buffer

vars == <<pipe, refs, fids, call>>

Init == /\ pipe = pipe_init
        /\ refs = [e \in Ends |-> 1]
        /\ fids = [e \in Ends |-> 1]
        /\ call = [t \in Threads |-> Idle]

TypeOK ==
    /\ pipe \in [ cell : [Cells -> Bytes], r_pos : Cells, w_pos : Cells,
                  bufferBytes : 0 .. PIPE_BUFFER_SIZE,
                  hasData : SUBSET Threads, hasSpace : SUBSET Threads,
                  reader : BOOLEAN, writer : BOOLEAN, freed : BOOLEAN ]
    /\ refs \in [Ends -> 0 .. MaxFids + Cardinality(Threads)]
    /\ fids \in [Ends -> 0 .. MaxFids]
    /\ call \in [Threads -> {Idle} \union [end : {"read"}, arg : 0 .. MaxLen]
                                   \union [end : {"write"}, arg : Buffers]]

-----------------------------------------------------------------------------
\* The Close of an end, called by FCB_decref when its count reaches zero.
Closed(e, p) == IF e = "read" THEN pipe_reader_close(p) ELSE pipe_writer_close(p)

\* FCB_decref after p has become the state of the pipe.
FCB_decref(e, p) ==
    /\ refs' = [refs EXCEPT ![e] = @ - 1]
    /\ pipe' = IF refs'[e] = 0 THEN Closed(e, p) ELSE p

MustWait(e, p) == IF e = "read" THEN MustWaitForData(p) ELSE MustWaitForSpace(p)
Sleep(t, e, p) == IF e = "read" THEN [p EXCEPT !.hasData = @ \union {t}]
                                ELSE [p EXCEPT !.hasSpace = @ \union {t}]
Transfer(e, arg, p) == IF e = "read" THEN ReadBytes(p, arg) ELSE WriteBytes(p, arg)

\* sys_Read or sys_Write on a descriptor of end e: it increments the count,
\* and either returns, decrementing it, or sleeps.
Call(t, e, arg) ==
    /\ call[t] = Idle /\ fids[e] > 0
    /\ IF MustWait(e, pipe)
       THEN /\ pipe' = Sleep(t, e, pipe)
            /\ refs' = [refs EXCEPT ![e] = @ + 1]
            /\ call' = [call EXCEPT ![t] = [end |-> e, arg |-> arg]]
       ELSE pipe' = Transfer(e, arg, pipe) /\ UNCHANGED <<refs, call>>
    /\ UNCHANGED fids

Awake(t) == call[t] # Idle /\ t \notin pipe.hasData \union pipe.hasSpace

\* The thread goes round the loop once more, or returns.
Resume(t) ==
    LET e == call[t].end IN
    /\ Awake(t)
    /\ IF MustWait(e, pipe)
       THEN pipe' = Sleep(t, e, pipe) /\ UNCHANGED <<refs, call>>
       ELSE /\ FCB_decref(e, Transfer(e, call[t].arg, pipe))
            /\ call' = [call EXCEPT ![t] = Idle]
    /\ UNCHANGED fids

Close(e) ==
    /\ fids[e] > 0
    /\ fids' = [fids EXCEPT ![e] = @ - 1]
    /\ FCB_decref(e, pipe)
    /\ UNCHANGED call

\* Dup2 to a free descriptor, or Exec of a process that inherits this one.
Dup(e) ==
    /\ fids[e] > 0 /\ fids[e] < MaxFids
    /\ fids' = [fids EXCEPT ![e] = @ + 1]
    /\ refs' = [refs EXCEPT ![e] = @ + 1]
    /\ UNCHANGED <<pipe, call>>

Next ==
    \/ \E t \in Threads : \/ \E n \in 0 .. MaxLen : Call(t, "read", n)
                          \/ \E buf \in Buffers : Call(t, "write", buf)
                          \/ Resume(t)
    \/ \E e \in Ends : Close(e) \/ Dup(e)

Spec == Init /\ [][Next]_vars

-----------------------------------------------------------------------------
(***************************************************************************)
(* The node the writer stands on is empty whenever there is room, so the   *)
(* loop of pipe_write never fails with half a buffer written; a NUL byte   *)
(* in the data changes nothing.                                            *)
(***************************************************************************)
RingSound ==
    /\ pipe.w_pos = next(pipe.r_pos, pipe.bufferBytes)
    /\ \A c \in Cells : Offset(pipe.r_pos, c) >= pipe.bufferBytes => pipe.cell[c] = NUL

(***************************************************************************)
(* No thread sleeps past its condition: a sleeping reader has an empty     *)
(* pipe with a writer, a sleeping writer a full one with a reader.         *)
(***************************************************************************)
NoLostWakeup ==
    /\ pipe.hasData # {} => MustWaitForData(pipe)
    /\ pipe.hasSpace # {} => MustWaitForSpace(pipe)

(***************************************************************************)
(* A pipe is freed only when nothing can reach it: no descriptor of either *)
(* end, and no thread that is still in a Read or Write on it.              *)
(***************************************************************************)
FreedUnused ==
    pipe.freed => /\ \A e \in Ends : fids[e] = 0 /\ refs[e] = 0
                  /\ \A t \in Threads : call[t] = Idle

(***************************************************************************)
(* "Point the reader to nothing (Null) and if writer is null too, then     *)
(* free the pipe": with both ends closed it is freed.                      *)
(* The code does not keep this (README, Disagreements).                    *)
(***************************************************************************)
FreedWhenClosed == ~pipe.reader /\ ~pipe.writer => pipe.freed

(***************************************************************************)
(* A Read that had to wait does not report the end of the file while the   *)
(* write end is open, also when another reader was faster.                 *)
(***************************************************************************)
NoFalseEof ==
    [][\A t \in Threads :
        (call[t].end = "read" /\ call[t].arg > 0 /\ call'[t] = Idle) =>
            (pipe'.bufferBytes < pipe.bufferBytes \/ ~pipe.writer)]_vars

(***************************************************************************)
(* A pipe is a bounded first-in first-out channel: every byte written is   *)
(* read once, in order, and nothing else is.                               *)
(***************************************************************************)
C == INSTANCE Channel WITH Size <- PIPE_BUFFER_SIZE, queue <- Contents(pipe),
                           ropen <- pipe.reader, wopen <- pipe.writer

ImplementsChannel == C!Spec

=============================================================================
