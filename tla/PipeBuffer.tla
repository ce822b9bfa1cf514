----------------------------- MODULE PipeBuffer -----------------------------
(***************************************************************************)
(* The pipe control block of the legacy kernel (old/kernel_pipe.c) as a    *)
(* record, and what its functions do to it while they hold the kernel      *)
(* lock.  Its users add the blocking: hasData and hasSpace are the sets of *)
(* threads that sleep on these conditions, and a broadcast empties one.    *)
(***************************************************************************)
EXTENDS Integers, Sequences, FiniteSetsExt

CONSTANTS PIPE_BUFFER_SIZE

ASSUME PipeBufferAssumption == PIPE_BUFFER_SIZE \in Nat \ {0}

NUL   == 0
Cells == 0 .. PIPE_BUFFER_SIZE      \* init_list makes one node more than asked

next(cell, k) == (cell + k) % (PIPE_BUFFER_SIZE + 1)

\* How many nodes after start a node lies.
Offset(start, cell) == (cell - start) % (PIPE_BUFFER_SIZE + 1)

pipe_init == [ cell |-> [c \in Cells |-> NUL], r_pos |-> 0, w_pos |-> 0, bufferBytes |-> 0,
               hasData |-> {}, hasSpace |-> {}, reader |-> TRUE, writer |-> TRUE,
               freed |-> FALSE ]

\* The conditions of the loops around kernel_wait.
MustWaitForSpace(p) == p.bufferBytes = PIPE_BUFFER_SIZE /\ p.reader
MustWaitForData(p)  == p.bufferBytes = 0 /\ p.writer

Count(p, buf) == Min({Len(buf), PIPE_BUFFER_SIZE - p.bufferBytes})

\* How many bytes of buf the loop of pipe_write stores before it meets a
\* node that is not empty.
Stored(p, buf) ==
    Max({k \in 0 .. Count(p, buf) : \A i \in 0 .. k - 1 : p.cell[next(p.w_pos, i)] = NUL})

\* fault: only one sleeping reader is woken
WriteBytes_Signal(p, buf) ==
    LET k == Stored(p, buf) IN
    IF ~p.reader THEN p
    ELSE [p EXCEPT
            !.cell = [c \in Cells |-> IF Offset(p.w_pos, c) < k
                                      THEN buf[Offset(p.w_pos, c) + 1] ELSE @[c]],
            !.w_pos = next(@, k),
            !.bufferBytes = @ + k,
            !.hasData = IF @ = {} THEN @ ELSE @ \ {CHOOSE t \in @ : TRUE}]
\* fault: the writer does not move on to the next node
WriteBytes_Stay(p, buf) ==
    LET k == Stored(p, buf) IN
    IF ~p.reader THEN p
    ELSE [p EXCEPT
            !.cell = [c \in Cells |-> IF Offset(p.w_pos, c) < k
                                      THEN buf[Offset(p.w_pos, c) + 1] ELSE @[c]],
            !.bufferBytes = @ + k,
            !.hasData = {}]
\* pipe_write after its loop; it fails if the read end is closed, and
\* without a broadcast if it met a full node.
WriteBytes(p, buf) ==
    LET k == Stored(p, buf) IN
    IF ~p.reader THEN p
    ELSE [p EXCEPT
            !.cell = [c \in Cells |-> IF Offset(p.w_pos, c) < k
                                      THEN buf[Offset(p.w_pos, c) + 1] ELSE @[c]],
            !.w_pos = next(@, k),
            !.bufferBytes = @ + k,
            !.hasData = IF k = Count(p, buf) THEN {} ELSE @]

\* pipe_read after its loop; end of file when the write end is closed and
\* nothing is left.
ReadBytes(p, n) ==
    LET k == Min({n, p.bufferBytes}) IN
    IF p.bufferBytes = 0 /\ ~p.writer THEN p
    ELSE [p EXCEPT
            !.cell = [c \in Cells |-> IF Offset(p.r_pos, c) < k THEN NUL ELSE @[c]],
            !.r_pos = next(@, k),
            !.bufferBytes = @ - k,
            !.hasSpace = {}]

\* fault: the readers that wait are not told
pipe_writer_close_Silent(p) ==
    [p EXCEPT !.writer = FALSE, !.freed = ~p.reader]
pipe_writer_close(p) ==
    IF ~p.reader THEN [p EXCEPT !.writer = FALSE, !.freed = TRUE]
    ELSE [p EXCEPT !.writer = FALSE, !.hasData = {}]

\* fault: the pipe is freed whether or not its writer is still there
pipe_reader_close_Free(p) ==
    IF ~p.reader THEN p
    ELSE [p EXCEPT !.reader = FALSE, !.hasSpace = {}, !.freed = TRUE]
\* The test "(c_pipe->reader = NULL) && ..." is an assignment, and false: the
\* branch that frees the pipe is never taken.
pipe_reader_close(p) ==
    IF ~p.reader THEN p
    ELSE [p EXCEPT !.reader = FALSE, !.hasSpace = {}]

\* What is in the pipe, from the oldest byte on.
Contents(p) == [i \in 1 .. p.bufferBytes |-> p.cell[next(p.r_pos, i - 1)]]

=============================================================================
