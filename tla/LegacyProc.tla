----------------------------- MODULE LegacyProc -----------------------------
(***************************************************************************)
(* Processes and threads of the legacy kernel (old/kernel_proc.c and       *)
(* old/kernel_threads.c).  Each step is what a thread does with the kernel *)
(* lock, from a call or from kernel_wait to the next kernel_wait or its    *)
(* return.  Children form a set, since only the order in which they exit   *)
(* matters.  A thread and its PTCB are one element of Threads.             *)
(***************************************************************************)
EXTENDS Integers, Sequences, SequencesExt, FiniteSetsExt

CONSTANTS
    MAX_PROC,
    Threads,    \* bound on the threads ever made
    ArgLens,    \* lengths of the arguments of Exec
    Programs,   \* kinds of program: the sets of system calls they make
    Careful     \* no thread waits for a child by its pid while another thread
                \* of its process waits for that child too, or for any child

ASSUME LegacyProcAssumption ==
    /\ MAX_PROC \in Nat \ {0, 1} /\ ArgLens \subseteq Nat /\ Careful \in BOOLEAN
    /\ IsFiniteSet(Threads) /\ Threads # {}

NOPROC == -1
Pids   == 1 .. MAX_PROC - 1     \* pid 0 is the scheduler, which has no thread
init   == 1

VARIABLES
    PT,             \* the process table
    pcb_freelist,
    thread,         \* where each thread is
    ptcb,           \* the PTCBs; in says whose ptcb_list it is in
    info,           \* an information stream: its cursor, and as ghosts the
                    \* processes there since it was opened and those it told of
    Calls           \* the system calls that the programs of this run make

kernel == <<PT, pcb_freelist, thread, ptcb, info>>
vars   == <<kernel, Calls>>

initialize_PCB == [ pstate |-> "FREE", parent |-> NOPROC, children |-> {}, exited |-> <<>>,
                    child_exit |-> {}, thread_count |-> 0, main_task |-> FALSE,
                    argl |-> 0, args |-> FALSE ]
NoThread == [pc |-> "none", owner |-> NOPROC, on |-> NOPROC]
NoPTCB   == [in |-> NOPROC, exited |-> FALSE, detached |-> FALSE, refcount |-> 0, exit_cv |-> {}]

\* A thread of process p and its PTCB, in the list of the process.
create_ptcb(p) == [NoPTCB EXCEPT !.in = p]
Started(p)     == [NoThread EXCEPT !.pc = "user", !.owner = p]

\* Once the first process runs.
Init ==
    LET main == CHOOSE t \in Threads : TRUE IN
    /\ PT = [p \in Pids |-> IF p # init THEN initialize_PCB
                            ELSE [initialize_PCB EXCEPT !.pstate = "ALIVE", !.thread_count = 1,
                                                        !.main_task = TRUE]]
    /\ pcb_freelist = [i \in 1 .. MAX_PROC - 2 |-> i + 1]
    /\ thread = [t \in Threads |-> IF t = main THEN Started(init) ELSE NoThread]
    /\ ptcb = [t \in Threads |-> IF t = main THEN create_ptcb(init) ELSE NoPTCB]
    /\ info = [cursor |-> 0, present |-> {}, seen |-> {}]
    /\ Calls \in Programs

CURPROC(t) == thread[t].owner
Runs(t)    == thread[t].pc = "user"
Unused     == {t \in Threads : thread[t].pc = "none"}
At(t, pc, on) == thread' = [thread EXCEPT ![t].pc = pc, ![t].on = on]

-----------------------------------------------------------------------------
\* The new process is the first free one, a child of the caller; n threads
\* are made for it: one for its task, if it has one.
NewProcess(t, argl, task, n) ==
    LET p == Head(pcb_freelist) IN
    /\ Runs(t) /\ pcb_freelist # <<>>
    /\ PT' = [PT EXCEPT ![p].pstate = "ALIVE", ![p].parent = CURPROC(t), ![p].main_task = task,
                        ![p].argl = argl, ![p].args = TRUE, ![p].thread_count = @ + n,
                        ![CURPROC(t)].children = @ \union {p}]
    /\ pcb_freelist' = Tail(pcb_freelist)
    /\ UNCHANGED info

sys_Exec(t, argl) ==
    LET u == CHOOSE v \in Unused : TRUE IN
    /\ "Exec" \in Calls /\ Unused # {}
    /\ NewProcess(t, argl, TRUE, 1)
    /\ thread' = [thread EXCEPT ![u] = Started(Head(pcb_freelist))]
    /\ ptcb' = [ptcb EXCEPT ![u] = create_ptcb(Head(pcb_freelist))]

\* Without a task, the process is alive and has no thread.
sys_ExecNull(t, argl) ==
    /\ "ExecNull" \in Calls
    /\ NewProcess(t, argl, FALSE, 0)
    /\ UNCHANGED <<thread, ptcb>>

sys_CreateThread(t) ==
    LET u == CHOOSE v \in Unused : TRUE
        p == CURPROC(t)
    IN
    /\ "CreateThread" \in Calls /\ Runs(t) /\ Unused # {}
    /\ PT' = [PT EXCEPT ![p].thread_count = @ + 1]
    /\ thread' = [thread EXCEPT ![u] = Started(p)]
    /\ ptcb' = [ptcb EXCEPT ![u] = create_ptcb(p)]
    /\ UNCHANGED <<pcb_freelist, info>>

-----------------------------------------------------------------------------
(***************************************************************************)
(* WaitChild.  cleanup_zombie takes the nodes of the child out of the      *)
(* lists they are in, and release_PCB puts it on the free list.            *)
(***************************************************************************)
cleanup_zombie(c) ==
    /\ PT' = [p \in Pids |->
                IF p = c THEN [PT[p] EXCEPT !.pstate = "FREE"]
                ELSE [PT[p] EXCEPT !.children = @ \ {c}, !.exited = RemoveFirst(@, c)]]
    /\ pcb_freelist' = <<c>> \o pcb_freelist
    /\ info' = [info EXCEPT !.present = @ \ {c}]

\* The loops: t waits for a child c, or for any, or for none to be left.
Sleeps(t, pc, on) ==
    /\ PT' = [PT EXCEPT ![CURPROC(t)].child_exit = @ \union {t}]
    /\ At(t, pc, on)
    /\ UNCHANGED <<pcb_freelist, ptcb, info>>

wait_for_specific_child(t, c) ==
    \/ PT[c].pstate = "ALIVE" /\ Sleeps(t, "wait_child", c)
    \/ PT[c].pstate # "ALIVE" /\ cleanup_zombie(c) /\ At(t, "user", NOPROC) /\ UNCHANGED ptcb

\* loop is where t goes on: back in its program, or round the loop of Exit.
wait_for_any_child(t, pc, loop) ==
    LET me == PT[CURPROC(t)] IN
    /\ me.children # {}
    /\ \/ me.exited = <<>> /\ Sleeps(t, pc, NOPROC)
       \/ /\ me.exited # <<>>
          /\ cleanup_zombie(Head(me.exited)) /\ At(t, loop, NOPROC) /\ UNCHANGED ptcb

\* The children that threads of the process of t wait for by their pid, and
\* whether one of its threads waits for any.
Awaited(t)    == {thread[u].on : u \in {v \in Threads : CURPROC(v) = CURPROC(t)
                                                        /\ thread[v].pc = "wait_child"}}
AnyAwaited(t) == \E u \in Threads : CURPROC(u) = CURPROC(t) /\ thread[u].pc \in {"wait_any", "exit"}

sys_WaitChild(t) ==
    /\ "WaitChild" \in Calls /\ Runs(t)
    /\ \/ /\ Careful => Awaited(t) = {}
          /\ wait_for_any_child(t, "wait_any", "user")
       \/ \E c \in Pids : /\ PT[c].pstate # "FREE" /\ PT[c].parent = CURPROC(t)
                          /\ Careful => c \notin Awaited(t) /\ ~AnyAwaited(t)
                          /\ wait_for_specific_child(t, c)

NoChildren(t) == PT[CURPROC(t)].children = {}

WaitWakes(t) ==
    /\ thread[t].pc \in {"wait_child", "wait_any"} /\ t \notin PT[CURPROC(t)].child_exit
    /\ \/ thread[t].pc = "wait_child" /\ wait_for_specific_child(t, thread[t].on)
       \/ thread[t].pc = "wait_any" /\ wait_for_any_child(t, "wait_any", "user")
       \/ /\ thread[t].pc = "wait_any" /\ NoChildren(t)
          /\ At(t, "user", NOPROC) /\ UNCHANGED <<PT, pcb_freelist, ptcb, info>>

-----------------------------------------------------------------------------
(***************************************************************************)
(* ThreadExit.  The last thread of a process ends it: its children become  *)
(* children of init, with those that have exited, and it exits itself.     *)
(* The loop that frees the PTCBs runs while their list is empty, which it  *)
(* is not: that of this thread is in it.                                   *)
(***************************************************************************)
Broadcast(pt, p) == [pt EXCEPT ![p].child_exit = {}]

\* fault: init is told of the children but not of those that have exited
Reparented_Forgetful(p) ==
    [q \in Pids |->
        CASE q = init -> [PT[q] EXCEPT !.children = @ \union PT[p].children]
          [] q = p -> [PT[q] EXCEPT !.children = {}, !.exited = <<>>]
          [] OTHER -> [PT[q] EXCEPT !.parent = IF q \in PT[p].children THEN init ELSE @]]
Reparented(p) ==
    [q \in Pids |->
        CASE q = init -> [PT[q] EXCEPT !.children = @ \union PT[p].children,
                                       !.exited = @ \o PT[p].exited,
                                       !.child_exit = IF PT[p].exited = <<>> THEN @ ELSE {}]
          [] q = p -> [PT[q] EXCEPT !.children = {}, !.exited = <<>>]
          [] OTHER -> [PT[q] EXCEPT !.parent = IF q \in PT[p].children THEN init ELSE @]]

\* fault: the parent is not told
ExitedProc_Silent(p) ==
    LET pt == IF p = init THEN PT
              ELSE [Reparented(p) EXCEPT ![PT[p].parent].exited = <<p>> \o @]
    IN [pt EXCEPT ![p].pstate = "ZOMBIE", ![p].args = FALSE, ![p].thread_count = 0]
ExitedProc(p) ==
    LET pt == IF p = init THEN PT
              ELSE LET q == PT[p].parent
                       r == Reparented(p)
                   IN  Broadcast([r EXCEPT ![q].exited = <<p>> \o @], q)
    IN [pt EXCEPT ![p].pstate = "ZOMBIE", ![p].args = FALSE, ![p].thread_count = 0]

ThreadExits(t) ==
    LET p == CURPROC(t) IN
    /\ PT' = IF PT[p].thread_count = 1 THEN ExitedProc(p)
             ELSE [PT EXCEPT ![p].thread_count = @ - 1]
    /\ ptcb' = [ptcb EXCEPT ![t].exited = TRUE, ![t].exit_cv = {}]
    /\ At(t, "gone", NOPROC)
    /\ UNCHANGED <<pcb_freelist, info>>

sys_ThreadExit(t) == "ThreadExit" \in Calls /\ Runs(t) /\ ThreadExits(t)

\* init first waits for every child.
ExitLoop(t) == wait_for_any_child(t, "exit", "exit") \/ (NoChildren(t) /\ ThreadExits(t))

sys_Exit(t) ==
    /\ "Exit" \in Calls /\ Runs(t)
    /\ \/ CURPROC(t) = init /\ (Careful => Awaited(t) = {}) /\ ExitLoop(t)
       \/ CURPROC(t) # init /\ ThreadExits(t)

ExitGoesOn(t) == /\ thread[t].pc = "exit" /\ t \notin PT[CURPROC(t)].child_exit
                 /\ ExitLoop(t)

-----------------------------------------------------------------------------
(***************************************************************************)
(* Join and Detach of a thread u in the ptcb_list of the caller.           *)
(***************************************************************************)
Listed(t, u) == ptcb[u].in = CURPROC(t)

\* A join of u has returned and leaves refs others: the last frees the PTCB.
Joined(u, refs) ==
    ptcb' = [ptcb EXCEPT ![u].refcount = refs, ![u].in = IF refs = 0 THEN NOPROC ELSE @]

sys_ThreadJoin(t, u) ==
    /\ "ThreadJoin" \in Calls /\ Runs(t) /\ t # u /\ Listed(t, u) /\ ~ptcb[u].detached
    /\ IF ptcb[u].exited THEN Joined(u, ptcb[u].refcount) /\ UNCHANGED thread
       ELSE /\ ptcb' = [ptcb EXCEPT ![u].refcount = @ + 1, ![u].exit_cv = @ \union {t}]
            /\ At(t, "join", u)
    /\ UNCHANGED <<PT, pcb_freelist, info>>

\* Woken because the thread has exited or was detached; then the count stays.
JoinWakes(t) ==
    LET u == thread[t].on IN
    /\ thread[t].pc = "join" /\ t \notin ptcb[u].exit_cv
    /\ IF ptcb[u].detached THEN UNCHANGED ptcb ELSE Joined(u, ptcb[u].refcount - 1)
    /\ At(t, "user", NOPROC)
    /\ UNCHANGED <<PT, pcb_freelist, info>>

\* fault: the threads that wait for it are not woken
sys_ThreadDetach_Silent(t, u) ==
    /\ "ThreadDetach" \in Calls /\ Runs(t) /\ Listed(t, u) /\ ~ptcb[u].exited
    /\ ptcb' = [ptcb EXCEPT ![u].detached = TRUE]
    /\ UNCHANGED <<PT, pcb_freelist, thread, info>>
sys_ThreadDetach(t, u) ==
    /\ "ThreadDetach" \in Calls /\ Runs(t) /\ Listed(t, u) /\ ~ptcb[u].exited
    /\ ptcb' = [ptcb EXCEPT ![u].detached = TRUE, ![u].exit_cv = {}]
    /\ UNCHANGED <<PT, pcb_freelist, thread, info>>

-----------------------------------------------------------------------------
(***************************************************************************)
(* OpenInfo and procinfo_read: the next process that is not free.          *)
(***************************************************************************)
Used == {p \in Pids : PT[p].pstate # "FREE"}

sys_OpenInfo ==
    /\ "OpenInfo" \in Calls /\ info.cursor = 0
    /\ info' = [cursor |-> 1, present |-> Used, seen |-> {}]
    /\ UNCHANGED <<PT, pcb_freelist, thread, ptcb>>

\* fault: the first free slot is taken for the end of the table
procinfo_read_Stops ==
    /\ info.cursor \in 1 .. MAX_PROC - 1
    /\ info' = IF info.cursor \notin Used THEN [info EXCEPT !.cursor = MAX_PROC]
               ELSE [info EXCEPT !.cursor = @ + 1, !.seen = @ \union {info.cursor}]
    /\ UNCHANGED <<PT, pcb_freelist, thread, ptcb>>
procinfo_read ==
    LET ahead == {p \in Used : p >= info.cursor}
        p == Min(ahead)
    IN
    /\ info.cursor \in 1 .. MAX_PROC - 1
    /\ info' = IF ahead = {} THEN [info EXCEPT !.cursor = MAX_PROC]
               ELSE [info EXCEPT !.cursor = p + 1, !.seen = @ \union {p}]
    /\ UNCHANGED <<PT, pcb_freelist, thread, ptcb>>

procinfo_close ==
    /\ info.cursor = MAX_PROC
    /\ info' = [cursor |-> 0, present |-> {}, seen |-> {}]
    /\ UNCHANGED <<PT, pcb_freelist, thread, ptcb>>

-----------------------------------------------------------------------------
Wakes(t) == WaitWakes(t) \/ ExitGoesOn(t) \/ JoinWakes(t)

SystemCall(t) == \/ \E argl \in ArgLens : sys_Exec(t, argl) \/ sys_ExecNull(t, argl)
                 \/ sys_CreateThread(t) \/ sys_WaitChild(t) \/ sys_ThreadExit(t) \/ sys_Exit(t)
                 \/ \E u \in Threads : sys_ThreadJoin(t, u) \/ sys_ThreadDetach(t, u)

Next == /\ \/ \E t \in Threads : SystemCall(t) \/ Wakes(t)
           \/ sys_OpenInfo \/ procinfo_read \/ procinfo_close
        /\ UNCHANGED Calls

Spec == Init /\ [][Next]_vars

\* Threads that were woken get the kernel lock in the end, and init goes on
\* with the loop of its Exit.
LiveSpec == Spec /\ \A t \in Threads : WF_kernel(Wakes(t))

-----------------------------------------------------------------------------
Live(t) == thread[t].pc \notin {"none", "gone"}

(***************************************************************************)
(* The family tree over Exec, Exit and WaitChild: a process that is not    *)
(* free is a child of a process that is alive, its parent's exited_list    *)
(* holds exactly the zombies, once each, and every other PCB is in the     *)
(* free list once, with no children.                                       *)
(***************************************************************************)
FamilySound ==
    /\ \A p \in Used \ {init} : LET q == PT[p].parent IN
            /\ q \in Used /\ p \in PT[q].children
            /\ PT[init].pstate = "ALIVE" => PT[q].pstate = "ALIVE"
            /\ (PT[p].pstate = "ZOMBIE") <=> Contains(PT[q].exited, p)
    /\ \A p \in Pids : /\ IsInjective(PT[p].exited)
                       /\ \A c \in PT[p].children : c \in Used /\ PT[c].parent = p
    /\ IsInjective(pcb_freelist)
    /\ ToSet(pcb_freelist) = Pids \ Used
    /\ \A p \in Pids \ Used : PT[p].children = {} /\ PT[p].exited = <<>>

(***************************************************************************)
(* No thread sleeps past its cause: one that waits for a child has that    *)
(* child, alive; one that waits for any has children, and none of them has *)
(* exited, however children were reparented meanwhile.                     *)
(***************************************************************************)
WaitHasCause == \A p \in Pids : \A t \in PT[p].child_exit :
    /\ CURPROC(t) = p
    /\ thread[t].pc = "wait_child" =>
            PT[thread[t].on].pstate = "ALIVE" /\ PT[thread[t].on].parent = p
    /\ thread[t].pc \in {"wait_any", "exit"} => PT[p].children # {} /\ PT[p].exited = <<>>

(***************************************************************************)
(* thread_count is the number of threads of the process that have not      *)
(* exited.  A process that was started with a task is alive as long as it  *)
(* has one, and a process without a task has none.                         *)
(***************************************************************************)
ThreadCountExact == \A p \in Pids :
    LET n == Cardinality({t \in Threads : Live(t) /\ CURPROC(t) = p}) IN
    PT[p].thread_count = n /\ (PT[p].pstate = "ALIVE" /\ PT[p].main_task <=> n > 0)

(***************************************************************************)
(* A PTCB is there as long as its thread runs or another one is joining    *)
(* it, and the count is what tells the last of those.                      *)
(***************************************************************************)
JoinSafe == \A u \in Threads :
    /\ Live(u) => ptcb[u].in = CURPROC(u)
    /\ \A t \in Threads : thread[t].pc = "join" /\ thread[t].on = u => ptcb[u].in = CURPROC(t)
    /\ ptcb[u].in # NOPROC /\ ~ptcb[u].detached =>
        ptcb[u].refcount = Cardinality({t \in Threads : thread[t].pc = "join" /\ thread[t].on = u})

(***************************************************************************)
(* The lists, counts and sleepers of the process table and of the PTCBs    *)
(* agree after every system call and every wakeup.                         *)
(***************************************************************************)
ProcSound == FamilySound /\ WaitHasCause /\ ThreadCountExact /\ JoinSafe

(***************************************************************************)
(* An information stream that has come to its end has told of every        *)
(* process that was there all the time.                                    *)
(***************************************************************************)
InfoComplete == info.cursor = MAX_PROC => info.present \subseteq info.seen

(***************************************************************************)
(* Once init is in Exit, every zombie is reaped in the end, the children   *)
(* of dead processes included.                                             *)
(***************************************************************************)
OrphansReaped == \A p \in Pids \ {init} :
    (PT[p].pstate = "ZOMBIE" /\ PT[p].parent = init /\ \E t \in Threads : thread[t].pc = "exit")
        ~> (PT[p].pstate = "FREE")

(***************************************************************************)
(* A join returns when its thread has exited or was detached.              *)
(***************************************************************************)
JoinReturns == \A t \in Threads :
    (thread[t].pc = "join" /\ (ptcb[thread[t].on].exited \/ ptcb[thread[t].on].detached))
        ~> (thread[t].pc # "join")

(***************************************************************************)
(* "free every ptcb since we dont need them anymore": a PCB that is free   *)
(* has no PTCB in its list.                                                *)
(* The code does not keep this (README, Disagreements).                    *)
(***************************************************************************)
FreeHasNoPtcbs == \A t \in Threads : ptcb[t].in # NOPROC => PT[ptcb[t].in].pstate # "FREE"

(***************************************************************************)
(* assert(is_rlist_empty(&curproc->children_list)): a process that has     *)
(* exited has no children.                                                 *)
(* The code does not keep this (README, Disagreements).                    *)
(***************************************************************************)
ExitedChildless == \A p \in Pids : PT[p].pstate = "ZOMBIE" => PT[p].children = {}

(***************************************************************************)
(* What procinfo_read copies as "the first PROCINFO_MAX_ARGS_SIZE bytes of *)
(* the argument of the main task" is there, for a zombie too.              *)
(* The code does not keep this (README, Disagreements).                    *)
(***************************************************************************)
InfoArgs == \A p \in Used : info.cursor \in 1 .. p /\ PT[p].argl > 0 => PT[p].args

=============================================================================
