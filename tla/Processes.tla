------------------------------ MODULE Processes ------------------------------
(***************************************************************************)
(* Processes and threads: kernel_proc.c with the thread and PTCB pools of  *)
(* kernel_sched.c.  A system call runs with interrupts off, so a call is   *)
(* one step up to the next yield inside it; which thread steps next is     *)
(* left open (module Scheduler says how it is chosen).  A thread that      *)
(* exits is off the core in the same step: the gain of its successor       *)
(* releases it before anything else runs.                                  *)
(*                                                                         *)
(* Exit values and the bytes of an argument are left out; how many bytes   *)
(* of an argument were copied is not.                                      *)
(***************************************************************************)
EXTENDS Integers, FiniteSets, FiniteSetsExt, Rings

CONSTANTS
    MAX_PROC,       \* size of the process table
    MAX_THREADS,    \* size of the thread pool and of the PTCB pool
    MAX_ARG_SIZE,   \* bytes of an argument that Exec keeps
    ArgLens,        \* lengths of the arguments passed to Exec
    Programs        \* kinds of program: the sets of system calls they make

ASSUME ProcAssumption ==
    /\ MAX_PROC \in Nat \ {0, 1} /\ MAX_THREADS \in Nat \ {0}
    /\ MAX_ARG_SIZE \in Nat /\ ArgLens \subseteq Nat

NULL    == -1
Pids    == 0 .. MAX_PROC - 1
Threads == 0 .. MAX_THREADS - 1
Ptcbs   == 0 .. MAX_THREADS - 1

VARIABLES
    PT,             \* the process table
    next,           \* the next pointers of the list nodes in the PCBs
    thread_pool,    \* the TCBs
    ptcb_pool,      \* the PTCBs
    orphan,         \* ghost: processes whose parent process has been reaped
    Calls           \* the system calls that the programs of this run make

kernel == <<PT, next, thread_pool, ptcb_pool, orphan>>
vars   == <<kernel, Calls>>

children_list(p) == <<"children_list", p>>
exited_list(p)   == <<"exited_list", p>>
children_node(p) == <<"children_node", p>>
exited_node(p)   == <<"exited_node", p>>

Nodes == {"children_list", "exited_list", "children_node", "exited_node"} \X Pids

PCB == [pstate : {"FREE", "ALIVE", "ZOMBIE"}, parent : Pids \cup {NULL},
        argl : ArgLens \cup {0}, copied : 0 .. MAX_ARG_SIZE, thread_count : Int]

\* pc is where the thread is: in user code, at a yield inside a call, or at one
\* of the steps of start_main_pthread.  tmp is the register of thread_count--.
TCB == [pc : {"free", "start", "user", "wait_child", "wait_any", "join",
              "decrement", "sleep", "undefined"},
        owner : Pids \cup {NULL}, func : {"none", "main", "pthread"},
        ptcb : Ptcbs \cup {NULL}, target : Pids \cup Ptcbs \cup {NULL}, tmp : Int]

PTCB == [used : BOOLEAN, exited : BOOLEAN, detached : BOOLEAN]

NoThread == [pc |-> "free", owner |-> NULL, func |-> "none", ptcb |-> NULL,
             target |-> NULL, tmp |-> 0]

FreePids    == {p \in Pids : PT[p].pstate = "FREE"}
FreeThreads == {t \in Threads : thread_pool[t].pc = "free"}
FreePtcbs   == {k \in Ptcbs : ~ptcb_pool[k].used}

Runs(t)     == thread_pool[t].pc = "user"
CURPROC(t)  == thread_pool[t].owner
Children(p) == {c \in Pids : PT[c].pstate # "FREE" /\ PT[c].parent = p}

-----------------------------------------------------------------------------
(***************************************************************************)
(* main has made pid 1 with sys_Exec, outside any process; pid 0 is        *)
(* reserved.                                                               *)
(***************************************************************************)
initialize_PCB == [pstate |-> "FREE", parent |-> NULL, argl |-> 0,
                   copied |-> 0, thread_count |-> 0]

Init ==
    /\ PT = [p \in Pids |->
                CASE p = 0 -> [initialize_PCB EXCEPT !.pstate = "ALIVE"]
                  [] p = 1 -> [initialize_PCB EXCEPT !.pstate = "ALIVE",
                                                     !.thread_count = 1]
                  [] OTHER -> initialize_PCB]
    /\ next = [n \in Nodes |-> n]
    /\ thread_pool = [t \in Threads |->
                        IF t = 0 THEN [NoThread EXCEPT !.pc = "start", !.owner = 1,
                                                       !.func = "main", !.ptcb = 0]
                                 ELSE NoThread]
    /\ ptcb_pool = [k \in Ptcbs |-> [used |-> k = 0, exited |-> FALSE,
                                     detached |-> FALSE]]
    /\ orphan = {}
    /\ Calls \in Programs

\* The first free slot of a table, as the loops of acquire_PCB, spawn_thread
\* and create_ptcb find it.
acquire_PCB == Min(FreePids)

create_ptcb == IF FreePtcbs = {} THEN NULL ELSE Min(FreePtcbs)

\* spawn_thread and create_ptcb, with the wakeup that lets the thread run.
Spawn(p, func) ==
    LET slot == Min(FreeThreads) IN
    /\ thread_pool' = [thread_pool EXCEPT ![slot] =
            [pc |-> "start", owner |-> p, func |-> func, ptcb |-> create_ptcb,
             target |-> NULL, tmp |-> 0]]
    /\ ptcb_pool' = IF create_ptcb = NULL THEN ptcb_pool
                    ELSE [ptcb_pool EXCEPT ![create_ptcb].used = TRUE]

-----------------------------------------------------------------------------
(***************************************************************************)
(* sys_Exec up to spawn_thread: the slot p as it is then, and the link     *)
(* into the children of the caller.                                        *)
(***************************************************************************)
NewPCB(t, p, argl) ==
    [PT[p] EXCEPT !.pstate = "ALIVE",
                  !.parent = IF p <= 1 THEN NULL ELSE CURPROC(t),
                  !.argl   = argl,
                  !.copied = IF argl > MAX_ARG_SIZE THEN MAX_ARG_SIZE ELSE argl]

Linked(t, p) == IF p <= 1 THEN next
                ELSE PushFront(next, children_list(CURPROC(t)), children_node(p))

CanExec(t, call) == call \in Calls /\ Runs(t) /\ FreePids # {}

Exec(t, argl) ==
    LET p == acquire_PCB IN
    /\ CanExec(t, "Exec") /\ FreeThreads # {}
    /\ PT' = [PT EXCEPT ![p] = [NewPCB(t, p, argl) EXCEPT !.thread_count = @ + 1]]
    /\ next' = Linked(t, p)
    /\ Spawn(p, "main")
    /\ UNCHANGED orphan

\* Without a free thread release_PCB takes the slot back, and only that.
ExecFails(t, argl) ==
    LET p == acquire_PCB IN
    /\ CanExec(t, "Exec") /\ FreeThreads = {}
    /\ PT' = [PT EXCEPT ![p] = [NewPCB(t, p, argl) EXCEPT !.pstate = "FREE"]]
    /\ next' = Linked(t, p)
    /\ UNCHANGED <<thread_pool, ptcb_pool, orphan>>

\* A process without a task has no thread.
ExecNull(t, argl) ==
    LET p == acquire_PCB IN
    /\ CanExec(t, "ExecNull")
    /\ PT' = [PT EXCEPT ![p] = NewPCB(t, p, argl)]
    /\ next' = Linked(t, p)
    /\ UNCHANGED <<thread_pool, ptcb_pool, orphan>>

(***************************************************************************)
(* The first step of a thread in start_main_thread or start_main_pthread.  *)
(* The latter reads its task through the PTCB: without one it calls        *)
(* whatever is found at address zero, and the model follows it no further. *)
(***************************************************************************)
Start(t) ==
    /\ thread_pool[t].pc = "start"
    /\ thread_pool' = [thread_pool EXCEPT ![t].pc =
            IF thread_pool[t].func = "pthread" /\ thread_pool[t].ptcb = NULL
            THEN "undefined" ELSE "user"]
    /\ UNCHANGED <<PT, next, ptcb_pool, orphan>>

-----------------------------------------------------------------------------
\* fault: the node in the exited list is forgotten
cleanup_zombie_Linked(c) ==
    /\ next' = Remove(next, children_node(c))
    /\ PT' = [PT EXCEPT ![c].pstate = "FREE"]
    /\ orphan' = (orphan \ {c}) \cup Children(c)
cleanup_zombie(c) ==
    /\ next' = Remove(Remove(next, children_node(c)), exited_node(c))
    /\ PT' = [PT EXCEPT ![c].pstate = "FREE"]
    /\ orphan' = (orphan \ {c}) \cup Children(c)

\* fault: any process can be waited for
WaitChild_Any(t, c) ==
    /\ "WaitChild" \in Calls /\ Runs(t)
    /\ PT[c].pstate # "FREE"
    /\ IF PT[c].pstate = "ALIVE"
       THEN /\ thread_pool' = [thread_pool EXCEPT ![t].pc = "wait_child",
                                                  ![t].target = c]
            /\ UNCHANGED <<PT, next, orphan>>
       ELSE cleanup_zombie(c) /\ UNCHANGED thread_pool
    /\ UNCHANGED ptcb_pool
\* sys_WaitChild for the child c: the pointer to its PCB is kept over yields.
WaitChild(t, c) ==
    /\ "WaitChild" \in Calls /\ Runs(t)
    /\ PT[c].pstate # "FREE" /\ PT[c].parent = CURPROC(t)
    /\ IF PT[c].pstate = "ALIVE"
       THEN /\ thread_pool' = [thread_pool EXCEPT ![t].pc = "wait_child",
                                                  ![t].target = c]
            /\ UNCHANGED <<PT, next, orphan>>
       ELSE cleanup_zombie(c) /\ UNCHANGED thread_pool
    /\ UNCHANGED ptcb_pool

WaitChildResumes(t) ==
    LET c == thread_pool[t].target IN
    /\ thread_pool[t].pc = "wait_child" /\ PT[c].pstate # "ALIVE"
    /\ cleanup_zombie(c)
    /\ thread_pool' = [thread_pool EXCEPT ![t].pc = "user", ![t].target = NULL]
    /\ UNCHANGED ptcb_pool

\* exited_list.next->pcb; only meaningful while the ring is sound, as in every
\* run whose programs call WaitAny.
FirstExited(p) == next[exited_list(p)][2]

WaitAnyRefuses(p) == IsEmpty(next, children_list(p))

\* sys_WaitChild for any child (cpid is NOPROC).
WaitAny(t) ==
    LET p == CURPROC(t) IN
    /\ "WaitAny" \in Calls /\ Runs(t) /\ ~WaitAnyRefuses(p)
    /\ IF IsEmpty(next, exited_list(p))
       THEN /\ thread_pool' = [thread_pool EXCEPT ![t].pc = "wait_any"]
            /\ UNCHANGED <<PT, next, orphan>>
       ELSE cleanup_zombie(FirstExited(p)) /\ UNCHANGED thread_pool
    /\ UNCHANGED ptcb_pool

WaitAnyResumes(t) ==
    LET p == CURPROC(t) IN
    /\ thread_pool[t].pc = "wait_any" /\ ~IsEmpty(next, exited_list(p))
    /\ cleanup_zombie(FirstExited(p))
    /\ thread_pool' = [thread_pool EXCEPT ![t].pc = "user"]
    /\ UNCHANGED ptcb_pool

-----------------------------------------------------------------------------
\* The PTCBs once thread t has marked its own, if it has one, as exited.
MarkExited(t) ==
    [k \in Ptcbs |-> IF k = thread_pool[t].ptcb
                     THEN [ptcb_pool[k] EXCEPT !.exited = TRUE]
                     ELSE ptcb_pool[k]]

\* fault: the thread is not counted off
ThreadGone_Counted(t, pt) ==
    /\ ptcb_pool' = MarkExited(t)
    /\ PT' = pt
    /\ thread_pool' = [thread_pool EXCEPT ![t] = NoThread]
\* sys_ThreadExit behind the gate, with the process table as pt.
ThreadGone(t, pt) ==
    /\ ptcb_pool' = MarkExited(t)
    /\ PT' = [pt EXCEPT ![CURPROC(t)].thread_count = @ - 1]
    /\ thread_pool' = [thread_pool EXCEPT ![t] = NoThread]

\* fault: the zombie is not put into its parent's exited list
Exit_Unlisted(t) ==
    LET p == CURPROC(t) IN
    /\ "Exit" \in Calls /\ Runs(t)
    /\ next' = IF PT[p].parent = NULL THEN next ELSE Remove(next, children_node(p))
    /\ ThreadGone(t, [PT EXCEPT ![p].pstate = "ZOMBIE"])
    /\ UNCHANGED orphan
\* Exit, also on return from the main task.
Exit(t) ==
    LET p      == CURPROC(t)
        parent == PT[p].parent
    IN
    /\ "Exit" \in Calls /\ Runs(t)
    /\ next' = IF parent = NULL THEN next
               ELSE PushBack(Remove(next, children_node(p)),
                             exited_list(parent), exited_node(p))
    /\ ThreadGone(t, [PT EXCEPT ![p].pstate = "ZOMBIE"])
    /\ UNCHANGED orphan

ThreadExit(t) ==
    /\ "ThreadExit" \in Calls /\ Runs(t)
    /\ ThreadGone(t, PT)
    /\ UNCHANGED <<next, orphan>>

(***************************************************************************)
(* start_main_pthread calls sys_ThreadExit itself, without the gate, so    *)
(* interrupts are on: thread_count-- is a load and a store.                *)
(***************************************************************************)
Return(t) ==
    /\ "Return" \in Calls /\ Runs(t) /\ thread_pool[t].func = "pthread"
    /\ ptcb_pool' = MarkExited(t)
    /\ thread_pool' = [thread_pool EXCEPT
            ![t].pc = "decrement", ![t].tmp = PT[CURPROC(t)].thread_count]
    /\ UNCHANGED <<PT, next, orphan>>

ReturnStores(t) ==
    /\ thread_pool[t].pc = "decrement"
    /\ PT' = [PT EXCEPT ![CURPROC(t)].thread_count = thread_pool[t].tmp - 1]
    /\ thread_pool' = [thread_pool EXCEPT ![t].pc = "sleep"]
    /\ UNCHANGED <<next, ptcb_pool, orphan>>

ReturnSleeps(t) ==
    /\ thread_pool[t].pc = "sleep"
    /\ thread_pool' = [thread_pool EXCEPT ![t] = NoThread]
    /\ UNCHANGED <<PT, next, ptcb_pool, orphan>>

CreateThread(t) ==
    /\ "CreateThread" \in Calls /\ Runs(t) /\ FreeThreads # {}
    /\ Spawn(CURPROC(t), "pthread")
    /\ PT' = [PT EXCEPT ![CURPROC(t)].thread_count = @ + 1]
    /\ UNCHANGED <<next, orphan>>

\* A tid that a program passes is one that CreateThread returned.
Tids == {k \in Ptcbs : ptcb_pool[k].used}

Join(t, k) ==
    /\ "Join" \in Calls /\ Runs(t) /\ k \in Tids /\ ~ptcb_pool[k].exited
    /\ thread_pool' = [thread_pool EXCEPT ![t].pc = "join", ![t].target = k]
    /\ UNCHANGED <<PT, next, ptcb_pool, orphan>>

\* fault: a thread detached in the meantime never ends the wait
JoinResumes_Undetached(t) ==
    LET k == thread_pool[t].target IN
    /\ thread_pool[t].pc = "join" /\ ptcb_pool[k].exited /\ ~ptcb_pool[k].detached
    /\ thread_pool' = [thread_pool EXCEPT ![t].pc = "user", ![t].target = NULL]
    /\ UNCHANGED <<PT, next, ptcb_pool, orphan>>
JoinResumes(t) ==
    /\ thread_pool[t].pc = "join" /\ ptcb_pool[thread_pool[t].target].exited
    /\ thread_pool' = [thread_pool EXCEPT ![t].pc = "user", ![t].target = NULL]
    /\ UNCHANGED <<PT, next, ptcb_pool, orphan>>

Detach(t, k) ==
    /\ "Detach" \in Calls /\ Runs(t) /\ k \in Tids
    /\ ptcb_pool' = [ptcb_pool EXCEPT ![k].detached = TRUE]
    /\ UNCHANGED <<PT, next, thread_pool, orphan>>

-----------------------------------------------------------------------------
Resumes(t) == \/ Start(t) \/ WaitChildResumes(t) \/ WaitAnyResumes(t)
              \/ JoinResumes(t) \/ ReturnStores(t) \/ ReturnSleeps(t)

ProcessCall(t) == \/ \E n \in ArgLens : Exec(t, n) \/ ExecFails(t, n) \/ ExecNull(t, n)
                  \/ \E c \in Pids : WaitChild(t, c)
                  \/ WaitAny(t) \/ Exit(t)

ThreadCall(t) == \/ CreateThread(t) \/ ThreadExit(t) \/ Return(t)
                 \/ \E k \in Ptcbs : Join(t, k) \/ Detach(t, k)

Next == /\ \E t \in Threads : Resumes(t) \/ ProcessCall(t) \/ ThreadCall(t)
        /\ UNCHANGED Calls

Spec == Init /\ [][Next]_vars

(***************************************************************************)
(* No thread starves (Scheduler!NoStarvation), and every program calls     *)
(* Exit, and every task calls ThreadExit or returns, in the end if it gets *)
(* to run again and again.                                                 *)
(***************************************************************************)
Finishes(t) == Exit(t) \/ ThreadExit(t) \/ Return(t)

LiveSpec == /\ Spec
            /\ \A t \in Threads : WF_kernel(Resumes(t))
            /\ \A t \in Threads : SF_kernel(Finishes(t))

-----------------------------------------------------------------------------
TypeOK == /\ PT \in [Pids -> PCB] /\ next \in [Nodes -> Nodes]
          /\ thread_pool \in [Threads -> TCB] /\ ptcb_pool \in [Ptcbs -> PTCB]
          /\ orphan \subseteq Pids

(***************************************************************************)
(* The lists of a PCB slot hold exactly the processes whose parent pointer *)
(* is that slot: the running ones in children_list, the ended ones in      *)
(* exited_list; a free slot is in no list (sys_Exec, sys_Exit and          *)
(* cleanup_zombie keep parent, pstate and the links in step).              *)
(***************************************************************************)
RingsSound ==
    /\ \A p \in Pids :
        /\ RingOf(next, children_list(p)) =
                {children_list(p)} \cup
                {children_node(c) : c \in {d \in Children(p) : PT[d].pstate = "ALIVE"}}
        /\ RingOf(next, exited_list(p)) =
                {exited_list(p)} \cup
                {exited_node(c) : c \in {d \in Children(p) : PT[d].pstate = "ZOMBIE"}}
    /\ \A c \in FreePids : IsEmpty(next, children_node(c)) /\ IsEmpty(next, exited_node(c))

(***************************************************************************)
(* The PCB that a thread waits for in sys_WaitChild is still a child of    *)
(* its process when it looks again after a yield.                          *)
(***************************************************************************)
WaitTargetValid ==
    \A t \in Threads : thread_pool[t].pc = "wait_child" =>
        thread_pool[t].target \in Children(CURPROC(t))

(***************************************************************************)
(* A thread that waits for any child in sys_WaitChild has a child, running *)
(* or ended, that can end its wait.                                        *)
(***************************************************************************)
WaitsForSomeone ==
    \A t \in Threads : thread_pool[t].pc = "wait_any" => Children(CURPROC(t)) # {}

(***************************************************************************)
(* A wait in sys_WaitChild can end, whatever its process and its children  *)
(* do between the yields, as long as one thread of a process waits at a    *)
(* time and no Exec fails half-way.                                        *)
(***************************************************************************)
WaitSound == WaitTargetValid /\ WaitsForSomeone

(***************************************************************************)
(* A process that has called Exit, and a slot that was reaped, has no      *)
(* thread left.                                                            *)
(* The code does not keep this (README, Disagreements).                    *)
(***************************************************************************)
ExitEndsProcess ==
    \A t \in Threads : thread_pool[t].pc # "free" => PT[CURPROC(t)].pstate = "ALIVE"

(***************************************************************************)
(* thread_count is the number of threads of the process that have not      *)
(* counted themselves off in sys_ThreadExit, if no thread returns from its *)
(* task: start_main_pthread then counts it off with interrupts on.         *)
(***************************************************************************)
ThreadCountExact ==
    "Return" \notin Calls => \A p \in Pids : PT[p].thread_count =
        Cardinality({t \in Threads : thread_pool[t].owner = p
                                     /\ thread_pool[t].pc # "sleep"})

(***************************************************************************)
(* WaitChild for any child does not refuse while a child of the caller is  *)
(* waiting to be reaped.                                                   *)
(* The code does not keep this (README, Disagreements).                    *)
(***************************************************************************)
ZombieAwaitable ==
    \A p \in Pids : WaitAnyRefuses(p) =>
        \A c \in Children(p) : PT[c].pstate # "ZOMBIE"

(***************************************************************************)
(* A process is reaped by the process that made it, not by one that got    *)
(* the PCB slot of its parent later (sys_WaitChild compares PCB pointers). *)
(* The code does not keep this (README, Disagreements).                    *)
(***************************************************************************)
ReapsOwnChild ==
    [][\A c \in Pids : PT[c].pstate = "ZOMBIE" /\ PT'[c].pstate = "FREE"
            => c \notin orphan]_vars

(***************************************************************************)
(* Every thread that sys_CreateThread starts finds its task.               *)
(* The code does not keep this (README, Disagreements).                    *)
(***************************************************************************)
ThreadHasTask == \A t \in Threads : thread_pool[t].pc # "undefined"

(***************************************************************************)
(* A PTCB that is marked exited is not the PTCB of a thread that still     *)
(* runs: a thread that joins it does not come back early.                  *)
(***************************************************************************)
ExitedPtcbDead ==
    \A t \in Threads : thread_pool[t].pc \in {"start", "user", "wait_child", "wait_any", "join"}
        /\ thread_pool[t].ptcb # NULL => ~ptcb_pool[thread_pool[t].ptcb].exited

(***************************************************************************)
(* The tables of processes, threads and PTCBs agree on which threads there *)
(* are, also when a pool is full and sys_Exec or sys_CreateThread fails.   *)
(***************************************************************************)
ThreadsSound == TypeOK /\ ThreadCountExact /\ ExitedPtcbDead

(***************************************************************************)
(* ThreadJoin waits neither for its caller nor for a detached thread.      *)
(* The code does not keep this (README, Disagreements).                    *)
(***************************************************************************)
JoinChecked ==
    \A t \in Threads : thread_pool[t].pc = "join" =>
        /\ thread_pool[t].target # thread_pool[t].ptcb
        /\ ~ptcb_pool[thread_pool[t].target].detached

(***************************************************************************)
(* The argument of a process has as many bytes as its length says.         *)
(* The code does not keep this (README, Disagreements).                    *)
(***************************************************************************)
ArgCopied == \A p \in Pids : PT[p].argl = PT[p].copied

(***************************************************************************)
(* If programs end and no process is reaped before its children, every     *)
(* WaitChild returns.                                                      *)
(***************************************************************************)
WaitReturns ==
    [](orphan = {}) =>
        \A t \in Threads : thread_pool[t].pc \in {"wait_child", "wait_any"}
                           ~> thread_pool[t].pc \notin {"wait_child", "wait_any"}

\* t joins a thread that joins another, and so on: none of them can go on.
JoinsInCircle(t) == \E S \in SUBSET Threads :
    /\ t \in S
    /\ \A u \in S : /\ thread_pool[u].pc = "join"
                    /\ \E v \in S : thread_pool[v].ptcb = thread_pool[u].target

(***************************************************************************)
(* If tasks end, every sys_ThreadJoin returns, through chains of threads   *)
(* that join each other and whether its thread is detached before or while *)
(* it waits, except behind threads that join each other, or themselves, in *)
(* a circle: the code checks for neither.                                  *)
(***************************************************************************)
JoinReturns ==
    \A t \in Threads : []<>(thread_pool[t].pc # "join" \/ JoinsInCircle(t))

=============================================================================
