------------------------------- MODULE Streams -------------------------------
(***************************************************************************)
(* Streams: the file table and the descriptors of kernel_streams.c, with   *)
(* device_open of kernel_dev.c and what sys_Exec and sys_Exit do to the    *)
(* descriptors of a process.  Every call is atomic (interrupts are off),   *)
(* so a step is a whole call.                                              *)
(*                                                                         *)
(* The free list is the sequence of its FCBs.  rlist_push_back of a node   *)
(* that is in the ring already cuts the ring behind it, as RList shows.    *)
(***************************************************************************)
EXTENDS Integers, Sequences, FiniteSets

CONSTANTS
    Procs,          \* process slots
    First,          \* the process that runs at boot
    MAX_FILEID,     \* descriptors of a process
    MAX_FILES,      \* size of the file table FT
    Minors,         \* terminal numbers that programs pass to OpenTerminal
    MAX_TERMINALS,  \* terminals that exist
    Programs        \* kinds of program: the sets of calls they make

ASSUME StreamsAssumption ==
    /\ First \in Procs /\ MAX_FILEID \in Nat \ {0} /\ MAX_TERMINALS \in Nat
    /\ MAX_FILES \in Nat /\ Minors \subseteq Nat

NULL    == 0
FCBs    == 1 .. MAX_FILES
Fids    == 0 .. MAX_FILEID - 1
Streams == {<<"null", 0>>} \cup {<<"serial", m>> : m \in Minors}
NoStream == <<"none", 0>>

VARIABLES
    alive,          \* processes that run
    FIDT,           \* the descriptors of each slot
    refcount,       \* of each FCB
    stream,         \* streamobj and streamfunc of each FCB
    freelist,       \* FCB_freelist
    opened,         \* ghost: the stream each descriptor was opened on
    Calls           \* the calls that the programs of this run make

vars == <<alive, FIDT, refcount, stream, freelist, opened, Calls>>

-----------------------------------------------------------------------------
Init ==
    /\ alive = {First}
    /\ FIDT = [p \in Procs |-> [f \in Fids |-> NULL]]
    /\ refcount = [b \in FCBs |-> 0]
    /\ stream = [b \in FCBs |-> NoStream]
    /\ freelist = [i \in FCBs |-> i]
    /\ opened = [p \in Procs |-> [f \in Fids |-> NoStream]]
    /\ Calls \in Programs

Listed(b) == \E i \in DOMAIN freelist : freelist[i] = b

\* fault: the FCB is not put back
release_FCB_Dropped(b) == freelist
\* release_FCB: the free list after rlist_push_back.
release_FCB(b) ==
    IF Listed(b)
    THEN SubSeq(freelist, 1, CHOOSE i \in DOMAIN freelist : freelist[i] = b)
    ELSE Append(freelist, b)

\* The descriptor that FCB_reserve finds: the first one that is not in use.
FreeFid(p, f) == /\ FIDT[p][f] = NULL
                 /\ \A g \in Fids : g < f => FIDT[p][g] # NULL

Exists(s) == s[1] = "null" \/ s[2] < MAX_TERMINALS

(***************************************************************************)
(* open_stream: FCB_reserve takes a descriptor and the head of the free    *)
(* list, or the call fails and changes nothing.  device_open then fills    *)
(* the FCB in.                                                             *)
(***************************************************************************)
OpenWorks(p, f, s) ==
    LET b == Head(freelist) IN
    /\ "Open" \in Calls /\ p \in alive
    /\ FreeFid(p, f) /\ freelist # <<>> /\ Exists(s)
    /\ FIDT'     = [FIDT EXCEPT ![p][f] = b]
    /\ opened'   = [opened EXCEPT ![p][f] = s]
    /\ refcount' = [refcount EXCEPT ![b] = 1]
    /\ stream'   = [stream EXCEPT ![b] = s]
    /\ freelist' = Tail(freelist)
    /\ UNCHANGED alive

\* device_open finds no such device: FCB_unreserve gives both back, the FCB
\* with its count as it is.
OpenFails(p, f, s) ==
    LET b == Head(freelist) IN
    /\ "Open" \in Calls /\ p \in alive
    /\ FreeFid(p, f) /\ freelist # <<>> /\ ~Exists(s)
    /\ refcount' = [refcount EXCEPT ![b] = 1]
    /\ freelist' = Append(Tail(freelist), b)
    /\ UNCHANGED <<alive, FIDT, opened, stream>>

\* sys_Close with FCB_decref; the Close of either device does nothing.
Close(p, f) ==
    LET b == FIDT[p][f] IN
    /\ "Close" \in Calls /\ p \in alive /\ b # NULL
    /\ FIDT'     = [FIDT EXCEPT ![p][f] = NULL]
    /\ opened'   = [opened EXCEPT ![p][f] = NoStream]
    /\ refcount' = [refcount EXCEPT ![b] = @ - 1]
    /\ freelist' = IF refcount[b] = 1 THEN release_FCB(b) ELSE freelist
    /\ UNCHANGED <<alive, stream>>

\* sys_Exec copies the descriptors of its caller; nothing counts the copies.
Exec(p, q) ==
    /\ "Exec" \in Calls /\ p \in alive /\ q \in Procs \ alive
    /\ alive'  = alive \cup {q}
    /\ FIDT'   = [FIDT EXCEPT ![q] = FIDT[p]]
    /\ opened' = [opened EXCEPT ![q] = opened[p]]
    /\ UNCHANGED <<refcount, stream, freelist>>

\* sys_Exit closes nothing.
Exit(p) ==
    /\ "Exit" \in Calls /\ p \in alive
    /\ alive' = alive \ {p}
    /\ UNCHANGED <<FIDT, opened, refcount, stream, freelist>>

Next == /\ \E p \in Procs :
            \/ \E f \in Fids, s \in Streams : OpenWorks(p, f, s) \/ OpenFails(p, f, s)
            \/ \E f \in Fids : Close(p, f)
            \/ \E q \in Procs : Exec(p, q)
            \/ Exit(p)
        /\ UNCHANGED Calls

Spec == Init /\ [][Next]_vars

-----------------------------------------------------------------------------
TypeOK ==
    /\ alive \subseteq Procs
    /\ FIDT \in [Procs -> [Fids -> FCBs \cup {NULL}]]
    /\ refcount \in [FCBs -> Int]
    /\ stream \in [FCBs -> Streams \cup {NoStream}]
    /\ freelist \in Seq(FCBs)
    /\ opened \in [Procs -> [Fids -> Streams \cup {NoStream}]]

Descriptors(b) == {d \in Procs \X Fids : FIDT[d[1]][d[2]] = b}

(***************************************************************************)
(* An FCB is in the free list or it is named by as many descriptors as its *)
(* reference count says, and never both: FCB_reserve, its rollback,        *)
(* FCB_unreserve and FCB_decref lose no FCB and release none too early.    *)
(* This is without inheritance, which sys_Exec does not count.             *)
(***************************************************************************)
FileTableSound ==
    "Exec" \notin Calls => \A b \in FCBs :
        /\ Listed(b) <=> Descriptors(b) = {}
        /\ ~Listed(b) => refcount[b] = Cardinality(Descriptors(b))

(***************************************************************************)
(* A descriptor refers to the stream that it was opened on, for as long as *)
(* it is not closed, whatever other processes open, if programs that have  *)
(* children leave theirs open: the close of an inherited descriptor frees  *)
(* the FCB that the others still name.                                     *)
(***************************************************************************)
DescriptorKeepsStream ==
    ~({"Exec", "Close"} \subseteq Calls) => \A p \in alive, f \in Fids :
        FIDT[p][f] # NULL => stream[FIDT[p][f]] = opened[p][f]

(***************************************************************************)
(* Without inheritance (sys_Exec) every descriptor has an FCB of its own:  *)
(* it names none in the free list, no FCB is in that list twice, and no    *)
(* two descriptors share one.                                              *)
(***************************************************************************)
Exclusive == "Exec" \notin Calls =>
    /\ \A i, j \in DOMAIN freelist : freelist[i] = freelist[j] => i = j
    /\ \A p \in Procs, f \in Fids : FIDT[p][f] # NULL =>
        /\ ~Listed(FIDT[p][f])
        /\ refcount[FIDT[p][f]] = 1
        /\ stream[FIDT[p][f]] = opened[p][f]
        /\ \A q \in Procs, g \in Fids :
                FIDT[q][g] = FIDT[p][f] => q = p /\ g = f

=============================================================================
