------------------------------ MODULE MCStreams ------------------------------
(***************************************************************************)
(* One run for what is behind a file descriptor: the file table of the     *)
(* kernel (module Streams), the file table of the legacy kernel, which     *)
(* counts references (module LegacyStreams, on the same variables), and a  *)
(* pipe of the legacy kernel (module Pipe).  A behaviour is one of the     *)
(* three; they share nothing.                                              *)
(***************************************************************************)
EXTENDS Streams, TLC

CONSTANTS
    Threads,                    \* the threads that use the pipe
    ProcThreads,                \* the threads of a process of the legacy kernel
    MaxOldFids,                 \* and its descriptors
    PIPE_BUFFER_SIZE, Bytes, MaxLen, MaxFids

ASSUME PipeAssumption ==
    /\ PIPE_BUFFER_SIZE \in Nat \ {0} /\ 0 \in Bytes
    /\ MaxLen \in Nat /\ MaxFids \in Nat \ {0} /\ IsFiniteSet(Threads)

ASSUME OldAssumption ==
    IsFiniteSet(Procs) /\ IsFiniteSet(ProcThreads) /\ MaxOldFids \in Nat

VARIABLES
    part,                       \* which of the three
    using,                      \* of LegacyStreams
    pipe, refs, fids, call      \* of Pipe

Old == INSTANCE LegacyStreams WITH MAX_FILEID <- MaxOldFids, Threads <- ProcThreads
P   == INSTANCE Pipe

allvars == <<part, vars, using, pipe, refs, fids, call>>

\* No step tells one thread from another.
Symmetry == Permutations(Threads) \union Permutations(ProcThreads)

MCInit ==
    /\ P!Init
    /\ \/ part \in {"streams", "pipe"} /\ Init /\ using = <<>>
       \/ part = "old_streams" /\ Old!Init /\ Calls = {}
    /\ part = "pipe" => Calls = CHOOSE c \in Programs : TRUE

MCNext ==
    \/ part = "streams" /\ Next /\ UNCHANGED <<part, using, pipe, refs, fids, call>>
    \/ part = "old_streams" /\ Old!Next /\ UNCHANGED <<part, Calls, pipe, refs, fids, call>>
    \/ part = "pipe" /\ P!Next /\ UNCHANGED <<part, vars, using>>

MCSpec == MCInit /\ [][MCNext]_allvars

-----------------------------------------------------------------------------
(***************************************************************************)
(* The table of the kernel (module Streams): FCB_reserve, its roll back    *)
(* and FCB_decref lose and share no FCB, and a descriptor keeps its stream.*)
(***************************************************************************)
TableSound ==
    part = "streams" => FileTableSound /\ Exclusive /\ DescriptorKeepsStream

(***************************************************************************)
(* The table of the legacy kernel: FCB_incref and FCB_decref are exact     *)
(* over Dup2, Exec, exits and calls in progress, so that a stream is kept  *)
(* while it is used and every FCB is given back.                           *)
(***************************************************************************)
OldTableSound ==
    part = "old_streams" => Old!RefcountExact /\ Old!StreamKept /\ Old!AllReturned

(***************************************************************************)
(* The ring buffer of a pipe has room where pipe_write looks for it, and a *)
(* pipe is freed when nothing can reach it any more.                       *)
(***************************************************************************)
PipeSound == P!TypeOK /\ P!RingSound /\ P!FreedUnused

(***************************************************************************)
(* No thread sleeps in pipe_read or pipe_write past its condition.         *)
(***************************************************************************)
NoLostWakeup == P!NoLostWakeup

(***************************************************************************)
(* The pipe implements a bounded first-in first-out channel, and a Read    *)
(* that had to wait reports no end of file while a writer is left.         *)
(***************************************************************************)
PipeIsChannel == P!ImplementsChannel /\ P!NoFalseEof

=============================================================================
