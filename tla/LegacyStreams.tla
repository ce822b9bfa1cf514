---------------------------- MODULE LegacyStreams ----------------------------
(***************************************************************************)
(* Streams of the legacy kernel: the file table and the descriptors of     *)
(* old/kernel_streams.c, with what Exec and the exit of a process do to    *)
(* the descriptors.  A call is one step, except that Read and Write sleep  *)
(* in the stream: they are a step that begins and a step that ends.        *)
(*                                                                         *)
(* As in Streams, rlist_push_back of a node that is in the free list       *)
(* already cuts the ring behind it.                                        *)
(***************************************************************************)
EXTENDS Integers, Sequences, SequencesExt, FiniteSetsExt

CONSTANTS
    Procs,          \* process slots
    First,          \* the process that runs at boot
    Threads,        \* the threads of each process
    MAX_FILEID,     \* descriptors of a process
    MAX_FILES       \* size of the file table FT

NULL == 0
FCBs == 1 .. MAX_FILES
Fids == 0 .. MAX_FILEID - 1

\* What a call opens: a device, one that does not exist, or the two ends of
\* a pipe, for which two FCBs are reserved.
Opens     == {<<"device">>, <<"absent">>, <<"reader", "writer">>}
Exists(s) == s # <<"absent">>
NoUse     == [fcb |-> NULL, stream |-> "none"]

VARIABLES
    alive,          \* processes that run
    FIDT,           \* the descriptors of each process
    refcount,       \* of each FCB
    stream,         \* streamobj and streamfunc of each FCB
    freelist,       \* FCB_freelist
    using,          \* the FCB and the stream that a thread reads or writes
    opened          \* ghost: the stream each descriptor was opened on

vars == <<alive, FIDT, refcount, stream, freelist, using, opened>>

-----------------------------------------------------------------------------
initialize_files == /\ refcount = [b \in FCBs |-> 0]
                    /\ freelist = [i \in FCBs |-> i]

Init ==
    /\ alive = {First}
    /\ FIDT = [p \in Procs |-> [f \in Fids |-> NULL]]
    /\ initialize_files
    /\ stream = [b \in FCBs |-> "none"]
    /\ using = [p \in Procs |-> [t \in Threads |-> NoUse]]
    /\ opened = [p \in Procs |-> [f \in Fids |-> "none"]]

Idle(p, t) == p \in alive /\ using[p][t] = NoUse

release_FCB(list, b) ==
    IF Contains(list, b) THEN SubSeq(list, 1, CHOOSE i \in DOMAIN list : list[i] = b)
    ELSE Append(list, b)

FCB_decref(b) ==
    /\ refcount' = [refcount EXCEPT ![b] = @ - 1]
    /\ freelist' = IF refcount[b] = 1 THEN release_FCB(freelist, b) ELSE freelist

-----------------------------------------------------------------------------
(***************************************************************************)
(* FCB_reserve takes as many descriptors and FCBs as the stream needs, the *)
(* first that are free, or the call fails.                                 *)
(***************************************************************************)
FreeFids(p) == {f \in Fids : FIDT[p][f] = NULL}

\* The first n of them in order, if there are as many.
FirstFids(p, n) ==
    {fid \in [1 .. n -> FreeFids(p)] :
        /\ \A i, j \in 1 .. n : i < j => fid[i] < fid[j]
        /\ \A f \in FreeFids(p) : \/ \E i \in 1 .. n : fid[i] = f
                                  \/ \A i \in 1 .. n : fid[i] < f}

FoundFids(p, s) == FirstFids(p, Len(s)) # {}
FoundAll(p, s)  == FoundFids(p, s) /\ Len(freelist) >= Len(s)

\* The position in the reservation of descriptor f or of FCB b.
Nth(seq, x) == CHOOSE i \in DOMAIN seq : seq[i] = x

Open(p, s) == \E fid \in FirstFids(p, Len(s)) :
    LET fcb == SubSeq(freelist, 1, Len(s)) IN
    /\ FoundAll(p, s) /\ Exists(s)
    /\ FIDT' = [FIDT EXCEPT ![p] =
            [f \in Fids |-> IF Contains(fid, f) THEN fcb[Nth(fid, f)] ELSE @[f]]]
    /\ opened' = [opened EXCEPT ![p] =
            [f \in Fids |-> IF Contains(fid, f) THEN s[Nth(fid, f)] ELSE @[f]]]
    /\ refcount' = [b \in FCBs |-> IF Contains(fcb, b) THEN 1 ELSE refcount[b]]
    /\ stream' = [b \in FCBs |-> IF Contains(fcb, b) THEN s[Nth(fcb, b)] ELSE stream[b]]
    /\ freelist' = SubSeq(freelist, Len(s) + 1, Len(freelist))
    /\ UNCHANGED <<alive, using>>

\* device_open fails: FCB_unreserve gives the descriptor and the FCB back,
\* the FCB with its count as it is.
OpenFails(p, s) ==
    LET b == Head(freelist) IN
    /\ FoundAll(p, s) /\ ~Exists(s)
    /\ refcount' = [refcount EXCEPT ![b] = 1]
    /\ freelist' = Append(Tail(freelist), b)
    /\ UNCHANGED <<alive, FIDT, stream, using, opened>>

\* Too few FCBs: those that were acquired are released, the last first.
RollsBack(p, s) ==
    /\ FoundFids(p, s) /\ Len(freelist) < Len(s)
    /\ refcount' = [b \in FCBs |-> IF Contains(freelist, b) THEN 0 ELSE refcount[b]]
    /\ freelist' = Reverse(freelist)
    /\ UNCHANGED <<alive, FIDT, stream, using, opened>>

\* sys_Read and sys_Write: up to the call of the stream, and from its return.
Begin(p, t, f) ==
    LET b == FIDT[p][f] IN
    /\ b # NULL
    /\ refcount' = [refcount EXCEPT ![b] = @ + 1]
    /\ using' = [using EXCEPT ![p][t] = [fcb |-> b, stream |-> stream[b]]]
    /\ UNCHANGED <<alive, FIDT, stream, freelist, opened>>

End(p, t) ==
    /\ using[p][t] # NoUse
    /\ FCB_decref(using[p][t].fcb)
    /\ using' = [using EXCEPT ![p][t] = NoUse]
    /\ UNCHANGED <<alive, FIDT, stream, opened>>

sys_Close(p, f) ==
    /\ FIDT[p][f] # NULL
    /\ FCB_decref(FIDT[p][f])
    /\ FIDT' = [FIDT EXCEPT ![p][f] = NULL]
    /\ opened' = [opened EXCEPT ![p][f] = "none"]
    /\ UNCHANGED <<alive, stream, using>>

\* newfd may be in use: what it named is dropped.
sys_Dup2(p, oldfd, newfd) ==
    LET old == FIDT[p][oldfd]
        new == FIDT[p][newfd]
    IN
    /\ old # NULL /\ old # new
    /\ refcount' = [b \in FCBs |-> refcount[b] + (IF b = old THEN 1 ELSE IF b = new THEN -1 ELSE 0)]
    /\ freelist' = IF new # NULL /\ refcount[new] = 1 THEN release_FCB(freelist, new) ELSE freelist
    /\ FIDT' = [FIDT EXCEPT ![p][newfd] = old]
    /\ opened' = [opened EXCEPT ![p][newfd] = opened[p][oldfd]]
    /\ UNCHANGED <<alive, stream, using>>

-----------------------------------------------------------------------------
Named(p, b) == Cardinality({f \in Fids : FIDT[p][f] = b})

\* fault: the copies are not counted, as in the kernel that followed
Inherit_Uncounted(p) == refcount
Inherit(p) == [b \in FCBs |-> refcount[b] + Named(p, b)]

Exec(p, q) ==
    /\ q \in Procs \ alive
    /\ alive' = alive \union {q}
    /\ FIDT' = [FIDT EXCEPT ![q] = FIDT[p]]
    /\ opened' = [opened EXCEPT ![q] = opened[p]]
    /\ refcount' = Inherit(p)
    /\ UNCHANGED <<stream, freelist, using>>

\* The FCBs that only p names, and the descriptor whose clean-up drops one.
Dropped(p)    == {b \in FCBs : Named(p, b) > 0 /\ refcount[b] = Named(p, b)}
LastFid(p, b) == Max({f \in Fids : FIDT[p][f] = b})

\* The free list when the FCBs d are released in turn: they follow each
\* other at its end, unless one of them is in the list.
Released(d) == IF \E i \in DOMAIN d : Contains(freelist, d[i])
               THEN FoldLeft(release_FCB, freelist, d)
               ELSE freelist \o d

\* The last thread of p exits.
Exit(p) ==
    /\ \A t \in Threads : Idle(p, t)
    /\ alive' = alive \ {p}
    /\ refcount' = [b \in FCBs |-> refcount[b] - Named(p, b)]
    /\ \E d \in SetToSeqs(Dropped(p)) :
        /\ \A i, j \in DOMAIN d : i < j => LastFid(p, d[i]) < LastFid(p, d[j])
        /\ freelist' = Released(d)
    /\ FIDT' = [FIDT EXCEPT ![p] = [f \in Fids |-> NULL]]
    /\ opened' = [opened EXCEPT ![p] = [f \in Fids |-> "none"]]
    /\ UNCHANGED <<stream, using>>

Next == \E p \in Procs :
    \/ /\ \E t \in Threads : Idle(p, t)
       /\ \/ \E s \in Opens : Open(p, s) \/ OpenFails(p, s) \/ RollsBack(p, s)
          \/ \E f \in Fids : sys_Close(p, f) \/ \E g \in Fids : sys_Dup2(p, f, g)
          \/ \E q \in Procs : Exec(p, q)
    \/ \E t \in Threads : \/ Idle(p, t) /\ \E f \in Fids : Begin(p, t, f)
                          \/ End(p, t)
    \/ Exit(p)

Spec == Init /\ [][Next]_vars

-----------------------------------------------------------------------------
Descriptors(b) == {d \in Procs \X Fids : FIDT[d[1]][d[2]] = b}
InFlight(b)    == {u \in Procs \X Threads : using[u[1]][u[2]].fcb = b}

(***************************************************************************)
(* The reference count of an FCB is the number of descriptors, of all      *)
(* processes, that name it and of calls that read or write it, and it is   *)
(* in the free list, once, exactly when there are none: over Dup2, Exec,   *)
(* exits, failed opens and half a reservation.                             *)
(***************************************************************************)
RefcountExact ==
    /\ IsInjective(freelist)
    /\ \A b \in FCBs :
        LET n == Cardinality(Descriptors(b)) + Cardinality(InFlight(b)) IN
        /\ Contains(freelist, b) <=> n = 0
        /\ n > 0 => refcount[b] = n

(***************************************************************************)
(* A call reads or writes the stream it began with to its end, and a       *)
(* descriptor names the stream it was opened on, whatever other threads    *)
(* and processes close and open meanwhile ("make sure that the stream will *)
(* not be closed (by another thread) while we are using it!").             *)
(***************************************************************************)
StreamKept ==
    /\ \A p \in Procs, t \in Threads : using[p][t] # NoUse =>
            /\ stream[using[p][t].fcb] = using[p][t].stream
            /\ ~Contains(freelist, using[p][t].fcb)
    /\ \A p \in Procs, f \in Fids :
            FIDT[p][f] # NULL => stream[FIDT[p][f]] = opened[p][f]

(***************************************************************************)
(* Without a process that is alive every FCB is free again: the exits give *)
(* back all that was opened, inherited or duplicated.                      *)
(***************************************************************************)
AllReturned == alive = {} => Len(freelist) = MAX_FILES

=============================================================================
