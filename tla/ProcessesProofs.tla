--------------------------- MODULE ProcessesProofs ---------------------------
(***************************************************************************)
(* ThreadsSound, and for programs of one thread RingsSound and WaitSound,  *)
(* of module Processes for every size of the tables.                       *)
(***************************************************************************)
EXTENDS Processes, FiniteSetTheorems, WellFoundedInduction, TLAPS

(***************************************************************************)
(* Every node has one predecessor: what Remove and PushBack look for.      *)
(***************************************************************************)
Perm(f) == /\ \A n \in Nodes : \E m \in Nodes : f[m] = n
           /\ \A m, n \in Nodes : f[m] = f[n] => m = n

\* What a call that goes on after a yield finds in the TCB.
ThreadOK == \A t \in Threads :
    /\ thread_pool[t].pc = "free" => thread_pool[t] = NoThread
    /\ thread_pool[t].pc # "free" => thread_pool[t].owner \in Pids
    /\ thread_pool[t].pc = "wait_child" => thread_pool[t].target \in Pids
    /\ thread_pool[t].pc = "join" => thread_pool[t].target \in Ptcbs

\* Only start_main_pthread leaves a thread counted off and not gone.
NoReturn == "Return" \notin Calls =>
    \A t \in Threads : thread_pool[t].pc \notin {"decrement", "sleep"}

\* A PTCB is in use and of one thread; one that is not in use is as at boot.
PtcbOwned ==
    /\ \A t \in Threads : thread_pool[t].ptcb # NULL => ptcb_pool[thread_pool[t].ptcb].used
    /\ \A t, u \in Threads : t # u /\ thread_pool[t].ptcb # NULL
                                => thread_pool[t].ptcb # thread_pool[u].ptcb
    /\ \A k \in Ptcbs : ~ptcb_pool[k].used => ~ptcb_pool[k].exited

ThreadInv == /\ TypeOK /\ Perm(next) /\ ThreadOK /\ NoReturn /\ PtcbOwned
             /\ ThreadCountExact /\ ExitedPtcbDead

-----------------------------------------------------------------------------
(***************************************************************************)
(* The ring that a node belongs to, named by its list; a node that is in   *)
(* no list is alone.                                                       *)
(***************************************************************************)
Home(pt) == [n \in Nodes |->
    IF n[1] = "children_node" /\ pt[n[2]].pstate = "ALIVE" /\ pt[n[2]].parent # NULL
    THEN children_list(pt[n[2]].parent)
    ELSE IF n[1] = "exited_node" /\ pt[n[2]].pstate = "ZOMBIE" /\ pt[n[2]].parent # NULL
    THEN exited_list(pt[n[2]].parent)
    ELSE n]

\* next stays in a ring, and a walk over the ring comes to all of its nodes.
Kept(f, h) == \A n \in Nodes : h[f[n]] = h[n]

Closed(f, S) == \A n \in S : f[n] \in S

OneRing(f, h) == \A S \in SUBSET Nodes : Closed(f, S) =>
    \A m \in S, n \in Nodes : h[m] = h[n] => n \in S

\* A process has one thread until it exits, and none after that.
Single ==
    /\ \A t \in Threads : thread_pool[t].pc # "free" =>
        /\ thread_pool[t].pc \in {"start", "user", "wait_child", "wait_any"}
        /\ thread_pool[t].func = "main"
        /\ PT[CURPROC(t)].pstate = "ALIVE" /\ CURPROC(t) # 0
    /\ \A t, u \in Threads : t # u /\ thread_pool[t].pc # "free" => CURPROC(t) # CURPROC(u)

\* Process 0 is there, and nobody's child.
Boot == PT[0].pstate = "ALIVE" /\ PT[0].parent = NULL

\* The system calls of programs of one thread.
FamilyCalls == {"Exec", "Exit", "WaitChild", "WaitAny"}

FamilyInv == /\ Calls \subseteq FamilyCalls
             /\ ThreadInv /\ Single /\ Boot /\ WaitTargetValid /\ WaitsForSomeone
             /\ Kept(next, Home(PT)) /\ OneRing(next, Home(PT))

-----------------------------------------------------------------------------
(***************************************************************************)
(* The first element of a table's free slots is one of them.               *)
(***************************************************************************)
LEMMA MinIn ==
    ASSUME NEW S, S \subseteq Nat, S # {}
    PROVE  Min(S) \in S /\ \A y \in S : Min(S) <= y
<1> DEFINE R == {ss \in Nat \X Nat : ss[1] < ss[2]}
<1>1. IsWellFoundedOn(R, Nat)
  BY NatLessThanWellFounded DEF OpToRel
<1>2. PICK x \in S : \A y \in S : ~ (<<y, x>> \in R)
  BY <1>1, WFMin
<1>3. ASSUME NEW y \in S PROVE x <= y
  <2>1. x \in Nat /\ y \in Nat /\ <<y, x>> \in Nat \X Nat
    OBVIOUS
  <2>2. ~ (<<y, x>>[1] < <<y, x>>[2])
    BY <2>1, <1>2
  <2> QED BY <2>1, <2>2
<1> QED BY <1>3 DEF Min

-----------------------------------------------------------------------------
(***************************************************************************)
(* The list operations: a splice swaps two successors, so that every node  *)
(* still has one predecessor.                                              *)
(***************************************************************************)
LEMMA NodeTypes ==
    ASSUME NEW p \in Pids
    PROVE  /\ children_list(p) \in Nodes /\ exited_list(p) \in Nodes
           /\ children_node(p) \in Nodes /\ exited_node(p) \in Nodes
BY DEF children_list, exited_list, children_node, exited_node, Nodes

LEMMA BeforeIs ==
    ASSUME NEW f \in [Nodes -> Nodes], Perm(f), NEW a \in Nodes
    PROVE  Before(f, a) \in Nodes /\ f[Before(f, a)] = a
<1>1. \E x \in DOMAIN f : f[x] = a
  BY DEF Perm
<1> QED BY <1>1 DEF Before

LEMMA SpliceKeeps ==
    ASSUME NEW f \in [Nodes -> Nodes], Perm(f), NEW a \in Nodes, NEW b \in Nodes
    PROVE  /\ Splice(f, a, b) \in [Nodes -> Nodes] /\ Perm(Splice(f, a, b))
           /\ Splice(f, a, b)[a] = f[b] /\ Splice(f, a, b)[b] = f[a]
           /\ \A n \in Nodes : n # a /\ n # b => Splice(f, a, b)[n] = f[n]
<1> DEFINE g == Splice(f, a, b)
<1>1. /\ g \in [Nodes -> Nodes] /\ g[a] = f[b] /\ g[b] = f[a]
      /\ \A n \in Nodes : n # a /\ n # b => g[n] = f[n]
  BY DEF Splice
<1> HIDE DEF g
<1>2. ASSUME NEW n \in Nodes PROVE \E m \in Nodes : g[m] = n
  <2>1. PICK m \in Nodes : f[m] = n
    BY DEF Perm
  <2> QED BY <2>1, <1>1
<1>3. ASSUME NEW m \in Nodes, NEW n \in Nodes, g[m] = g[n] PROVE m = n
  BY <1>1, <1>3 DEF Perm
<1> QED BY <1>1, <1>2, <1>3 DEF Perm, g

LEMMA RemoveKeeps ==
    ASSUME NEW f \in [Nodes -> Nodes], Perm(f), NEW a \in Nodes
    PROVE  Remove(f, a) \in [Nodes -> Nodes] /\ Perm(Remove(f, a))
BY BeforeIs, SpliceKeeps DEF Remove

LEMMA PushFrontKeeps ==
    ASSUME NEW f \in [Nodes -> Nodes], Perm(f), NEW list \in Nodes, NEW a \in Nodes
    PROVE  PushFront(f, list, a) \in [Nodes -> Nodes] /\ Perm(PushFront(f, list, a))
BY SpliceKeeps DEF PushFront

LEMMA PushBackKeeps ==
    ASSUME NEW f \in [Nodes -> Nodes], Perm(f), NEW list \in Nodes, NEW a \in Nodes
    PROVE  PushBack(f, list, a) \in [Nodes -> Nodes] /\ Perm(PushBack(f, list, a))
BY BeforeIs, SpliceKeeps DEF PushBack

-----------------------------------------------------------------------------
(***************************************************************************)
(* thread_count: one more when a free TCB gets an owner, one less when a   *)
(* thread is gone.                                                         *)
(***************************************************************************)
Counted(tp, p) == {t \in Threads : tp[t].owner = p /\ tp[t].pc # "sleep"}

CountExact(pt, tp) == \A p \in Pids : pt[p].thread_count = Cardinality(Counted(tp, p))

LEMMA CountedFinite ==
    ASSUME NEW tp, NEW p
    PROVE  IsFiniteSet(Counted(tp, p)) /\ Cardinality(Counted(tp, p)) \in Nat
<1>1. 0 \in Int /\ MAX_THREADS - 1 \in Int
  BY ProcAssumption
<1>2. IsFiniteSet(Threads)
  BY <1>1, FS_Interval DEF Threads
<1>3. Counted(tp, p) \in SUBSET Threads
  BY DEF Counted
<1> QED BY <1>2, <1>3, FS_Subset, FS_CardinalityType

LEMMA CountAdd ==
    ASSUME NEW pt, NEW tp, NEW pt2, NEW tp2, CountExact(pt, tp),
           NEW slot \in Threads, NEW p \in Pids,
           tp[slot].owner \notin Pids, tp2[slot].owner = p, tp2[slot].pc # "sleep",
           \A t \in Threads \ {slot} : tp2[t] = tp[t],
           pt2[p].thread_count = pt[p].thread_count + 1,
           \A q \in Pids \ {p} : pt2[q].thread_count = pt[q].thread_count
    PROVE  CountExact(pt2, tp2)
<1>1. Counted(tp2, p) = Counted(tp, p) \cup {slot} /\ slot \notin Counted(tp, p)
  BY DEF Counted
<1>2. Cardinality(Counted(tp2, p)) = Cardinality(Counted(tp, p)) + 1
  BY <1>1, CountedFinite, FS_AddElement
<1>3. ASSUME NEW q \in Pids \ {p} PROVE Counted(tp2, q) = Counted(tp, q)
  BY DEF Counted
<1> QED BY <1>2, <1>3 DEF CountExact

LEMMA CountDrop ==
    ASSUME NEW pt, NEW tp, NEW pt2, NEW tp2, CountExact(pt, tp),
           NEW t \in Threads, NEW p \in Pids,
           tp[t].owner = p, tp[t].pc # "sleep", tp2[t].owner \notin Pids,
           \A u \in Threads \ {t} : tp2[u] = tp[u],
           pt2[p].thread_count = pt[p].thread_count - 1,
           \A q \in Pids \ {p} : pt2[q].thread_count = pt[q].thread_count
    PROVE  CountExact(pt2, tp2)
<1>1. Counted(tp2, p) = Counted(tp, p) \ {t} /\ t \in Counted(tp, p)
  BY DEF Counted
<1>2. Cardinality(Counted(tp2, p)) = Cardinality(Counted(tp, p)) - 1
  <2> DEFINE A == Counted(tp, p)
  <2>1. IsFiniteSet(A) /\ t \in A /\ Counted(tp2, p) = A \ {t}
    BY <1>1, CountedFinite
  <2> HIDE DEF A
  <2>2. Cardinality(A \ {t}) = Cardinality(A) - 1
    BY <2>1, FS_RemoveElement
  <2> QED BY <2>1, <2>2 DEF A
<1>3. ASSUME NEW q \in Pids \ {p} PROVE Counted(tp2, q) = Counted(tp, q)
  BY DEF Counted
<1> QED BY <1>2, <1>3 DEF CountExact

LEMMA CountIs == ThreadCountExact <=> ("Return" \notin Calls => CountExact(PT, thread_pool))
BY DEF ThreadCountExact, CountExact, Counted

LEMMA NullApart == NULL \notin Pids /\ NULL \notin Ptcbs /\ NULL = -1
BY ProcAssumption DEF NULL, Pids, Ptcbs

-----------------------------------------------------------------------------
(***************************************************************************)
(* What is said of the pools, apart from the type and the counts.          *)
(***************************************************************************)
PoolInv == ThreadOK /\ NoReturn /\ PtcbOwned /\ ExitedPtcbDead

(***************************************************************************)
(* A thread goes to another place in its program, with its process and its *)
(* PTCB.                                                                   *)
(***************************************************************************)
LEMMA MovePools ==
    ASSUME TypeOK, PoolInv, Calls' = Calls, ptcb_pool' = ptcb_pool,
           NEW t \in Threads, NEW r \in TCB, thread_pool' = [thread_pool EXCEPT ![t] = r],
           thread_pool[t].pc # "free", r.pc # "free",
           r.owner = thread_pool[t].owner, r.ptcb = thread_pool[t].ptcb,
           r.pc = "wait_child" => r.target \in Pids,
           r.pc = "join" => r.target \in Ptcbs,
           r.pc \in {"start", "user", "wait_child", "wait_any", "join"} =>
                thread_pool[t].pc \in {"start", "user", "wait_child", "wait_any", "join"},
           r.pc \in {"decrement", "sleep"} => "Return" \in Calls
    PROVE  PoolInv' /\ thread_pool' \in [Threads -> TCB]
<1>1. /\ thread_pool' \in [Threads -> TCB] /\ thread_pool'[t] = r
      /\ \A u \in Threads : u # t => thread_pool'[u] = thread_pool[u]
  BY DEF TypeOK
<1>2. ThreadOK'
  BY <1>1 DEF PoolInv, ThreadOK
<1>3. NoReturn'
  BY <1>1 DEF PoolInv, NoReturn
<1>4. \A u \in Threads : thread_pool'[u].ptcb = thread_pool[u].ptcb
  BY <1>1
<1>5. PtcbOwned'
  BY <1>4 DEF PoolInv, PtcbOwned
<1>6. ExitedPtcbDead'
  BY <1>1, <1>4 DEF PoolInv, ExitedPtcbDead
<1> QED BY <1>1, <1>2, <1>3, <1>5, <1>6 DEF PoolInv

LEMMA MoveCount ==
    ASSUME TypeOK, ThreadCountExact, Calls' = Calls,
           NEW t \in Threads, NEW r, thread_pool' = [thread_pool EXCEPT ![t] = r],
           r.owner = thread_pool[t].owner,
           r.pc = "sleep" <=> thread_pool[t].pc = "sleep",
           \A p \in Pids : PT'[p].thread_count = PT[p].thread_count
    PROVE  ThreadCountExact'
<1>1. \A u \in Threads : thread_pool'[u].owner = thread_pool[u].owner
                         /\ (thread_pool'[u].pc = "sleep" <=> thread_pool[u].pc = "sleep")
  BY DEF TypeOK
<1>2. ASSUME "Return" \notin Calls PROVE CountExact(PT', thread_pool')
  <2>1. CountExact(PT, thread_pool)
    BY <1>2, CountIs
  <2>2. \A p \in Pids : Counted(thread_pool', p) = Counted(thread_pool, p)
    BY <1>1 DEF Counted
  <2> QED BY <2>1, <2>2 DEF CountExact
<1> QED BY <1>2 DEF ThreadCountExact, CountExact, Counted

(***************************************************************************)
(* spawn_thread and create_ptcb: the slots that are taken were free.       *)
(***************************************************************************)
LEMMA SpawnPools ==
    ASSUME TypeOK, PoolInv, Calls' = Calls, NEW p \in Pids, NEW func \in {"main", "pthread"},
           FreeThreads # {}, Spawn(p, func)
    PROVE  /\ PoolInv'
           /\ thread_pool' \in [Threads -> TCB] /\ ptcb_pool' \in [Ptcbs -> PTCB]
           /\ \E slot \in Threads :
                /\ thread_pool[slot] = NoThread
                /\ thread_pool'[slot].owner = p /\ thread_pool'[slot].pc = "start"
                /\ thread_pool'[slot].func = func
                /\ \A t \in Threads \ {slot} : thread_pool'[t] = thread_pool[t]
<1> DEFINE slot == Min(FreeThreads)
           k == create_ptcb
           r == [pc |-> "start", owner |-> p, func |-> func, ptcb |-> k, target |-> NULL, tmp |-> 0]
<1>1. slot \in Threads /\ thread_pool[slot].pc = "free"
  <2>1. FreeThreads \subseteq Nat
    BY DEF FreeThreads, Threads
  <2> QED BY <2>1, MinIn DEF FreeThreads
<1>2. k = NULL \/ (k \in Ptcbs /\ ~ptcb_pool[k].used)
  <2>1. FreePtcbs \subseteq Nat
    BY DEF FreePtcbs, Ptcbs
  <2> QED BY <2>1, MinIn DEF create_ptcb, FreePtcbs
<1>3. /\ thread_pool' = [thread_pool EXCEPT ![slot] = r]
      /\ k = NULL => ptcb_pool' = ptcb_pool
      /\ k # NULL => ptcb_pool' = [ptcb_pool EXCEPT ![k].used = TRUE]
  BY DEF Spawn
<1>4. r \in TCB
  BY <1>2 DEF TCB
<1> HIDE DEF slot, k
<1>5. /\ r.pc = "start" /\ r.owner = p /\ r.func = func /\ r.ptcb = k
  OBVIOUS
<1> HIDE DEF r
<1>6. /\ thread_pool' \in [Threads -> TCB] /\ thread_pool'[slot] = r
      /\ \A t \in Threads : t # slot => thread_pool'[t] = thread_pool[t]
  BY <1>1, <1>3, <1>4 DEF TypeOK
<1>7. /\ ptcb_pool' \in [Ptcbs -> PTCB]
      /\ \A j \in Ptcbs : /\ ptcb_pool'[j].exited = ptcb_pool[j].exited
                          /\ ptcb_pool'[j].used <=> (ptcb_pool[j].used \/ j = k)
  <2>1. CASE k = NULL
    BY <2>1, <1>3, NullApart DEF TypeOK
  <2>2. CASE k # NULL
    <3>1. k \in Ptcbs /\ ptcb_pool[k] \in PTCB /\ ptcb_pool \in [Ptcbs -> PTCB]
      BY <2>2, <1>2 DEF TypeOK
    <3> DEFINE q == [ptcb_pool[k] EXCEPT !.used = TRUE]
    <3>2. q \in PTCB /\ q.used = TRUE /\ q.exited = ptcb_pool[k].exited
      BY <3>1 DEF PTCB
    <3>3. ptcb_pool' = [ptcb_pool EXCEPT ![k] = q]
      BY <2>2, <1>3
    <3> HIDE DEF q
    <3>4. /\ ptcb_pool' \in [Ptcbs -> PTCB] /\ ptcb_pool'[k] = q
          /\ \A j \in Ptcbs : j # k => ptcb_pool'[j] = ptcb_pool[j]
      BY <3>1, <3>2, <3>3
    <3> QED BY <3>2, <3>4
  <2> QED BY <2>1, <2>2
<1>8. thread_pool[slot] = NoThread
  BY <1>1 DEF PoolInv, ThreadOK
<1>9. ThreadOK'
  BY <1>5, <1>6 DEF PoolInv, ThreadOK
<1>10. NoReturn'
  BY <1>5, <1>6 DEF PoolInv, NoReturn
<1>11. ASSUME NEW t \in Threads, thread_pool[t].ptcb # NULL
       PROVE  thread_pool[t].ptcb \in Ptcbs /\ ptcb_pool[thread_pool[t].ptcb].used
              /\ thread_pool[t].ptcb # k
  BY <1>2, <1>11 DEF PoolInv, PtcbOwned, TypeOK, TCB
<1>12. PtcbOwned'
  <2>1. ASSUME NEW t \in Threads, thread_pool'[t].ptcb # NULL
        PROVE  ptcb_pool'[thread_pool'[t].ptcb].used
    BY <2>1, <1>2, <1>5, <1>6, <1>7, <1>11
  <2>2. ASSUME NEW t \in Threads, NEW u \in Threads, t # u, thread_pool'[t].ptcb # NULL
        PROVE  thread_pool'[t].ptcb # thread_pool'[u].ptcb
    BY <2>2, <1>5, <1>6, <1>11 DEF PoolInv, PtcbOwned
  <2>3. \A j \in Ptcbs : ~ptcb_pool'[j].used => ~ptcb_pool'[j].exited
    BY <1>7 DEF PoolInv, PtcbOwned
  <2> QED BY <2>1, <2>2, <2>3 DEF PtcbOwned
<1>13. ExitedPtcbDead'
  <2> SUFFICES ASSUME NEW t \in Threads,
                      thread_pool'[t].pc \in {"start", "user", "wait_child", "wait_any", "join"},
                      thread_pool'[t].ptcb # NULL
               PROVE  ~ptcb_pool'[thread_pool'[t].ptcb].exited
    BY DEF ExitedPtcbDead
  <2>1. CASE t = slot
    BY <2>1, <1>2, <1>5, <1>6, <1>7 DEF PoolInv, PtcbOwned
  <2>2. CASE t # slot
    BY <2>2, <1>6, <1>7, <1>11 DEF PoolInv, ExitedPtcbDead
  <2> QED BY <2>1, <2>2
<1> QED BY <1>1, <1>5, <1>6, <1>7, <1>8, <1>9, <1>10, <1>12, <1>13 DEF PoolInv

(***************************************************************************)
(* sys_ThreadExit marks the PTCB of its thread, which no other thread has. *)
(***************************************************************************)
LEMMA Marked ==
    ASSUME TypeOK, NEW t \in Threads, ptcb_pool' = MarkExited(t)
    PROVE  /\ ptcb_pool' \in [Ptcbs -> PTCB]
           /\ \A k \in Ptcbs : /\ ptcb_pool'[k].used = ptcb_pool[k].used
                               /\ k # thread_pool[t].ptcb => ptcb_pool'[k] = ptcb_pool[k]
<1>1. ASSUME NEW k \in Ptcbs
      PROVE  /\ [ptcb_pool[k] EXCEPT !.exited = TRUE] \in PTCB
             /\ [ptcb_pool[k] EXCEPT !.exited = TRUE].used = ptcb_pool[k].used
             /\ ptcb_pool[k] \in PTCB
  BY DEF TypeOK, PTCB
<1>2. ASSUME NEW k \in Ptcbs
      PROVE  /\ ptcb_pool'[k] \in PTCB /\ ptcb_pool'[k].used = ptcb_pool[k].used
             /\ k # thread_pool[t].ptcb => ptcb_pool'[k] = ptcb_pool[k]
  BY <1>1 DEF MarkExited
<1>3. ptcb_pool' = [k \in Ptcbs |-> ptcb_pool'[k]]
  BY DEF MarkExited
<1> QED BY <1>2, <1>3

LEMMA GonePools ==
    ASSUME TypeOK, PoolInv, Calls' = Calls, NEW t \in Threads,
           ptcb_pool' = MarkExited(t), thread_pool' = [thread_pool EXCEPT ![t] = NoThread]
    PROVE  /\ PoolInv' /\ thread_pool' \in [Threads -> TCB]
           /\ thread_pool'[t] = NoThread
           /\ \A u \in Threads : u # t => thread_pool'[u] = thread_pool[u]
<1>1. NoThread \in TCB
  BY DEF NoThread, TCB
<1>2. /\ thread_pool' \in [Threads -> TCB] /\ thread_pool'[t] = NoThread
      /\ \A u \in Threads : u # t => thread_pool'[u] = thread_pool[u]
  BY <1>1 DEF TypeOK
<1>3. NoThread.pc = "free" /\ NoThread.ptcb = NULL
  BY DEF NoThread
<1>4. ThreadOK'
  BY <1>2, <1>3 DEF PoolInv, ThreadOK
<1>5. NoReturn'
  BY <1>2, <1>3 DEF PoolInv, NoReturn
<1>6. ASSUME NEW u \in Threads, u # t, thread_pool[u].ptcb # NULL
      PROVE  /\ thread_pool[u].ptcb \in Ptcbs
             /\ ptcb_pool'[thread_pool[u].ptcb] = ptcb_pool[thread_pool[u].ptcb]
  <2>1. thread_pool[u].ptcb \in Ptcbs
    BY <1>6 DEF TypeOK, TCB
  <2>2. thread_pool[u].ptcb # thread_pool[t].ptcb
    BY <1>6 DEF PoolInv, PtcbOwned
  <2> QED BY <2>1, <2>2, Marked
<1>7. PtcbOwned'
  <2>1. ASSUME NEW u \in Threads, thread_pool'[u].ptcb # NULL
        PROVE  ptcb_pool'[thread_pool'[u].ptcb].used
    BY <2>1, <1>2, <1>3, <1>6 DEF PoolInv, PtcbOwned
  <2>2. ASSUME NEW v \in Threads, NEW u \in Threads, v # u, thread_pool'[v].ptcb # NULL
        PROVE  thread_pool'[v].ptcb # thread_pool'[u].ptcb
    BY <2>2, <1>2, <1>3 DEF PoolInv, PtcbOwned
  <2>3. ASSUME NEW k \in Ptcbs, ~ptcb_pool'[k].used PROVE ~ptcb_pool'[k].exited
    <3>1. ~ptcb_pool[k].used
      BY <2>3, Marked
    <3>2. k # thread_pool[t].ptcb
      BY <3>1, NullApart DEF PoolInv, PtcbOwned
    <3> QED BY <3>1, <3>2, Marked DEF PoolInv, PtcbOwned
  <2> QED BY <2>1, <2>2, <2>3 DEF PtcbOwned
<1>8. ExitedPtcbDead'
  BY <1>2, <1>3, <1>6 DEF PoolInv, ExitedPtcbDead
<1> QED BY <1>2, <1>4, <1>5, <1>7, <1>8 DEF PoolInv

\* start_main_pthread counts itself off before it sleeps.
LEMMA ReturnPools ==
    ASSUME TypeOK, PoolInv, Calls' = Calls, NEW t \in Threads, Return(t)
    PROVE  PoolInv' /\ thread_pool' \in [Threads -> TCB] /\ ptcb_pool' \in [Ptcbs -> PTCB]
<1> DEFINE r == [thread_pool[t] EXCEPT !.pc = "decrement", !.tmp = PT[CURPROC(t)].thread_count]
<1>1. /\ "Return" \in Calls /\ thread_pool[t].pc = "user" /\ ptcb_pool' = MarkExited(t)
      /\ thread_pool' = [thread_pool EXCEPT ![t] = r]
  BY DEF Return, Runs
<1>2. thread_pool[t] \in TCB /\ CURPROC(t) \in Pids /\ PT[CURPROC(t)].thread_count \in Int
  BY <1>1 DEF TypeOK, PCB, PoolInv, ThreadOK, CURPROC
<1>3. r \in TCB /\ r.pc = "decrement" /\ r.owner = thread_pool[t].owner /\ r.ptcb = thread_pool[t].ptcb
  BY <1>2 DEF TCB
<1> HIDE DEF r
<1>4. /\ thread_pool' \in [Threads -> TCB] /\ thread_pool'[t] = r
      /\ \A u \in Threads : u # t => thread_pool'[u] = thread_pool[u]
  BY <1>1, <1>3 DEF TypeOK
<1>5. ThreadOK'
  BY <1>1, <1>3, <1>4 DEF PoolInv, ThreadOK
<1>6. NoReturn'
  BY <1>1 DEF NoReturn
<1>7. \A u \in Threads : thread_pool'[u].ptcb = thread_pool[u].ptcb
  BY <1>3, <1>4
<1>8. ptcb_pool' \in [Ptcbs -> PTCB]
      /\ \A k \in Ptcbs : /\ ptcb_pool'[k].used = ptcb_pool[k].used
                          /\ k # thread_pool[t].ptcb => ptcb_pool'[k] = ptcb_pool[k]
  BY <1>1, Marked
<1>9. \A u \in Threads : thread_pool[u].ptcb # NULL => thread_pool[u].ptcb \in Ptcbs
  BY DEF TypeOK, TCB
<1>10. PtcbOwned'
  <2>1. ASSUME NEW u \in Threads, thread_pool'[u].ptcb # NULL
        PROVE  ptcb_pool'[thread_pool'[u].ptcb].used
    BY <2>1, <1>7, <1>8, <1>9 DEF PoolInv, PtcbOwned
  <2>2. ASSUME NEW v \in Threads, NEW u \in Threads, v # u, thread_pool'[v].ptcb # NULL
        PROVE  thread_pool'[v].ptcb # thread_pool'[u].ptcb
    BY <2>2, <1>7 DEF PoolInv, PtcbOwned
  <2>3. ASSUME NEW k \in Ptcbs, ~ptcb_pool'[k].used PROVE ~ptcb_pool'[k].exited
    <3>1. ~ptcb_pool[k].used
      BY <2>3, <1>8
    <3>2. k # thread_pool[t].ptcb
      BY <3>1, NullApart DEF PoolInv, PtcbOwned
    <3> QED BY <3>1, <3>2, <1>8 DEF PoolInv, PtcbOwned
  <2> QED BY <2>1, <2>2, <2>3 DEF PtcbOwned
<1>11. ExitedPtcbDead'
  <2> SUFFICES ASSUME NEW u \in Threads,
                      thread_pool'[u].pc \in {"start", "user", "wait_child", "wait_any", "join"},
                      thread_pool'[u].ptcb # NULL
               PROVE  ~ptcb_pool'[thread_pool'[u].ptcb].exited
    BY DEF ExitedPtcbDead
  <2>1. u # t /\ thread_pool'[u] = thread_pool[u]
    BY <1>3, <1>4
  <2>2. thread_pool[u].ptcb \in Ptcbs /\ thread_pool[u].ptcb # thread_pool[t].ptcb
    BY <2>1, <1>9 DEF PoolInv, PtcbOwned
  <2> QED BY <2>1, <2>2, <1>8 DEF PoolInv, ExitedPtcbDead
<1> QED BY <1>4, <1>5, <1>6, <1>8, <1>10, <1>11 DEF PoolInv

LEMMA DetachPools ==
    ASSUME TypeOK, PoolInv, Calls' = Calls, NEW t \in Threads, NEW k \in Ptcbs, Detach(t, k)
    PROVE  PoolInv' /\ ptcb_pool' \in [Ptcbs -> PTCB]
<1> DEFINE q == [ptcb_pool[k] EXCEPT !.detached = TRUE]
<1>1. ptcb_pool' = [ptcb_pool EXCEPT ![k] = q] /\ thread_pool' = thread_pool
  BY DEF Detach
<1>2. q \in PTCB /\ q.used = ptcb_pool[k].used /\ q.exited = ptcb_pool[k].exited
  BY DEF TypeOK, PTCB
<1> HIDE DEF q
<1>3. /\ ptcb_pool' \in [Ptcbs -> PTCB]
      /\ \A j \in Ptcbs : /\ ptcb_pool'[j].used = ptcb_pool[j].used
                          /\ ptcb_pool'[j].exited = ptcb_pool[j].exited
  BY <1>1, <1>2 DEF TypeOK
<1>4. ThreadOK' /\ NoReturn'
  BY <1>1 DEF PoolInv, ThreadOK, NoReturn
<1>5. \A u \in Threads : thread_pool[u].ptcb # NULL => thread_pool[u].ptcb \in Ptcbs
  BY DEF TypeOK, TCB
<1>6. PtcbOwned'
  BY <1>1, <1>3, <1>5 DEF PoolInv, PtcbOwned
<1>7. ExitedPtcbDead'
  BY <1>1, <1>3, <1>5 DEF PoolInv, ExitedPtcbDead
<1> QED BY <1>3, <1>4, <1>6, <1>7 DEF PoolInv

-----------------------------------------------------------------------------
(***************************************************************************)
(* The process table and the lists, apart from the pools.                  *)
(***************************************************************************)
TableInv == /\ PT \in [Pids -> PCB] /\ next \in [Nodes -> Nodes] /\ Perm(next)
            /\ orphan \subseteq Pids

SameCounts == \A p \in Pids : PT'[p].thread_count = PT[p].thread_count

\* acquire_PCB finds a free slot.
LEMMA Acquired ==
    ASSUME FreePids # {}
    PROVE  acquire_PCB \in Pids /\ PT[acquire_PCB].pstate = "FREE"
<1>1. FreePids \subseteq Nat
  BY DEF FreePids, Pids
<1> QED BY <1>1, MinIn DEF acquire_PCB, FreePids

LEMMA CleanupTable ==
    ASSUME TableInv, NEW c \in Pids, cleanup_zombie(c)
    PROVE  /\ TableInv' /\ SameCounts
           /\ PT'[c].pstate = "FREE" /\ \A p \in Pids : p # c => PT'[p] = PT[p]
<1> DEFINE r == [PT[c] EXCEPT !.pstate = "FREE"]
<1>1. r \in PCB /\ r.thread_count = PT[c].thread_count /\ r.pstate = "FREE"
  BY DEF TableInv, PCB
<1>2. PT' = [PT EXCEPT ![c] = r]
  BY DEF cleanup_zombie
<1> HIDE DEF r
<1>3. /\ PT' \in [Pids -> PCB] /\ PT'[c] = r
      /\ \A p \in Pids : p # c => PT'[p] = PT[p]
  BY <1>1, <1>2 DEF TableInv
<1>4. SameCounts
  BY <1>1, <1>3 DEF SameCounts
<1>5. next' \in [Nodes -> Nodes] /\ Perm(next')
  BY NodeTypes, RemoveKeeps DEF cleanup_zombie, TableInv
<1>6. orphan' \subseteq Pids
  BY DEF cleanup_zombie, TableInv, Children
<1>7. Perm(next)'
  BY <1>5 DEF Perm
<1> QED BY <1>1, <1>3, <1>4, <1>5, <1>6, <1>7 DEF TableInv

LEMMA NewPCBType ==
    ASSUME TableInv, NEW t \in Threads, CURPROC(t) \in Pids, NEW p \in Pids, NEW argl \in ArgLens
    PROVE  LET r == NewPCB(t, p, argl) IN
           /\ r \in PCB /\ r.thread_count = PT[p].thread_count /\ r.pstate = "ALIVE"
           /\ r.parent = IF p <= 1 THEN NULL ELSE CURPROC(t)
<1>1. argl \in Nat /\ MAX_ARG_SIZE \in Nat
  BY ProcAssumption
<1>2. (IF argl > MAX_ARG_SIZE THEN MAX_ARG_SIZE ELSE argl) \in 0 .. MAX_ARG_SIZE
  BY <1>1
<1>3. PT[p] \in PCB
  BY DEF TableInv
<1> QED BY <1>2, <1>3 DEF NewPCB, PCB

LEMMA LinkedKeeps ==
    ASSUME TableInv, NEW t \in Threads, CURPROC(t) \in Pids, NEW p \in Pids
    PROVE  Linked(t, p) \in [Nodes -> Nodes] /\ Perm(Linked(t, p))
BY NodeTypes, PushFrontKeeps DEF Linked, TableInv

LEMMA RunningProc ==
    ASSUME TypeOK, ThreadOK, NEW t \in Threads, thread_pool[t].pc # "free"
    PROVE  CURPROC(t) \in Pids
BY DEF ThreadOK, CURPROC

\* Counting a thread in and off.
LEMMA CountIn ==
    ASSUME ThreadCountExact, Calls' = Calls, NEW slot \in Threads, NEW p \in Pids,
           thread_pool[slot] = NoThread,
           thread_pool'[slot].owner = p, thread_pool'[slot].pc = "start",
           \A t \in Threads \ {slot} : thread_pool'[t] = thread_pool[t],
           PT'[p].thread_count = PT[p].thread_count + 1,
           \A q \in Pids \ {p} : PT'[q].thread_count = PT[q].thread_count
    PROVE  ThreadCountExact'
<1>1. thread_pool[slot].owner \notin Pids
  BY NullApart DEF NoThread
<1>2. ASSUME "Return" \notin Calls PROVE CountExact(PT', thread_pool')
  <2>1. CountExact(PT, thread_pool)
    BY <1>2, CountIs
  <2>2. thread_pool'[slot].pc # "sleep"
    OBVIOUS
  <2> QED BY <1>1, <2>1, <2>2, CountAdd
<1> QED BY <1>2 DEF ThreadCountExact, CountExact, Counted

LEMMA CountOff ==
    ASSUME ThreadCountExact, Calls' = Calls, NEW t \in Threads, NEW p \in Pids,
           thread_pool[t].owner = p, thread_pool[t].pc # "sleep", thread_pool'[t] = NoThread,
           \A u \in Threads : u # t => thread_pool'[u] = thread_pool[u],
           PT'[p].thread_count = PT[p].thread_count - 1,
           \A q \in Pids \ {p} : PT'[q].thread_count = PT[q].thread_count
    PROVE  ThreadCountExact'
<1>1. thread_pool'[t].owner \notin Pids
  BY NullApart DEF NoThread
<1>2. ASSUME "Return" \notin Calls PROVE CountExact(PT', thread_pool')
  <2>1. CountExact(PT, thread_pool)
    BY <1>2, CountIs
  <2>2. \A u \in Threads \ {t} : thread_pool'[u] = thread_pool[u]
    OBVIOUS
  <2> QED BY <1>1, <2>1, <2>2, CountDrop
<1> QED BY <1>2 DEF ThreadCountExact, CountExact, Counted

LEMMA InvParts ==
    ThreadInv <=> /\ TableInv /\ PoolInv /\ ThreadCountExact
                  /\ thread_pool \in [Threads -> TCB] /\ ptcb_pool \in [Ptcbs -> PTCB]
BY DEF ThreadInv, TableInv, PoolInv, TypeOK

LEMMA InvPartsNext ==
    ASSUME TableInv', PoolInv', ThreadCountExact',
           thread_pool' \in [Threads -> TCB], ptcb_pool' \in [Ptcbs -> PTCB]
    PROVE  ThreadInv'
BY DEF ThreadInv, TableInv, PoolInv, TypeOK

LEMMA TableSame ==
    ASSUME TableInv, UNCHANGED <<PT, next, orphan>>
    PROVE  TableInv' /\ SameCounts
BY DEF TableInv, SameCounts, Perm

(***************************************************************************)
(* The steps of a thread inside a call change its place alone, or also     *)
(* take back the PCB of a child.                                           *)
(***************************************************************************)
LEMMA PlaceStep ==
    ASSUME ThreadInv, Calls' = Calls, NEW t \in Threads, NEW r \in TCB,
           thread_pool' = [thread_pool EXCEPT ![t] = r], ptcb_pool' = ptcb_pool,
           TableInv', SameCounts,
           thread_pool[t].pc # "free", r.pc # "free",
           r.owner = thread_pool[t].owner, r.ptcb = thread_pool[t].ptcb,
           r.pc = "wait_child" => r.target \in Pids,
           r.pc = "join" => r.target \in Ptcbs,
           r.pc \in {"start", "user", "wait_child", "wait_any", "join"} =>
                thread_pool[t].pc \in {"start", "user", "wait_child", "wait_any", "join"},
           r.pc \notin {"decrement", "sleep"}, thread_pool[t].pc # "sleep"
    PROVE  ThreadInv'
<1>1. TypeOK /\ PoolInv /\ ThreadCountExact /\ ptcb_pool \in [Ptcbs -> PTCB]
  BY DEF ThreadInv, PoolInv, TypeOK
<1>2. PoolInv' /\ thread_pool' \in [Threads -> TCB]
  BY <1>1, MovePools
<1>3. ThreadCountExact'
  BY <1>1, MoveCount DEF SameCounts
<1> QED BY <1>1, <1>2, <1>3, InvPartsNext

LEMMA StartStep ==
    ASSUME ThreadInv, Calls' = Calls, NEW t \in Threads, Start(t)
    PROVE  ThreadInv'
<1> DEFINE l == IF thread_pool[t].func = "pthread" /\ thread_pool[t].ptcb = NULL
                THEN "undefined" ELSE "user"
           r == [thread_pool[t] EXCEPT !.pc = l]
<1>1. TableInv /\ PoolInv /\ thread_pool[t] \in TCB
  BY DEF ThreadInv, TableInv, PoolInv, TypeOK
<1>2. /\ thread_pool[t].pc = "start" /\ thread_pool' = [thread_pool EXCEPT ![t] = r]
      /\ ptcb_pool' = ptcb_pool /\ UNCHANGED <<PT, next, orphan>>
  BY DEF Start
<1>3. l \in {"undefined", "user"}
  OBVIOUS
<1> HIDE DEF l
<1>4. r \in TCB /\ r.pc = l /\ r.owner = thread_pool[t].owner /\ r.ptcb = thread_pool[t].ptcb
  BY <1>1, <1>3 DEF TCB
<1> HIDE DEF r
<1> QED BY <1>1, <1>2, <1>3, <1>4, TableSame, PlaceStep

LEMMA BackToUser ==
    ASSUME NEW r \in TCB, NEW x \in Pids \cup Ptcbs \cup {NULL}
    PROVE  LET s == [r EXCEPT !.pc = "user", !.target = x] IN
           s \in TCB /\ s.pc = "user" /\ s.owner = r.owner /\ s.ptcb = r.ptcb
BY DEF TCB

LEMMA WaitChildResumesStep ==
    ASSUME ThreadInv, Calls' = Calls, NEW t \in Threads, WaitChildResumes(t)
    PROVE  ThreadInv'
<1> DEFINE r == [thread_pool[t] EXCEPT !.pc = "user", !.target = NULL]
           c == thread_pool[t].target
<1>1. TableInv /\ PoolInv /\ thread_pool[t] \in TCB
  BY DEF ThreadInv, TableInv, PoolInv, TypeOK
<1>2. /\ thread_pool[t].pc = "wait_child" /\ thread_pool' = [thread_pool EXCEPT ![t] = r]
      /\ ptcb_pool' = ptcb_pool /\ cleanup_zombie(c)
  BY DEF WaitChildResumes
<1>3. c \in Pids
  BY <1>1, <1>2 DEF PoolInv, ThreadOK
<1>4. r \in TCB /\ r.pc = "user" /\ r.owner = thread_pool[t].owner /\ r.ptcb = thread_pool[t].ptcb
  BY <1>1, BackToUser
<1> HIDE DEF r, c
<1>5. TableInv' /\ SameCounts
  BY <1>1, <1>2, <1>3, CleanupTable
<1> QED BY <1>2, <1>4, <1>5, PlaceStep

LEMMA FirstExitedPid ==
    ASSUME TableInv, NEW p \in Pids
    PROVE  FirstExited(p) \in Pids
<1>1. next[exited_list(p)] \in Nodes
  BY NodeTypes DEF TableInv
<1> QED BY <1>1 DEF FirstExited, Nodes

LEMMA WaitAnyResumesStep ==
    ASSUME ThreadInv, Calls' = Calls, NEW t \in Threads, WaitAnyResumes(t)
    PROVE  ThreadInv'
<1> DEFINE r == [thread_pool[t] EXCEPT !.pc = "user"]
           c == FirstExited(CURPROC(t))
<1>1. TableInv /\ PoolInv /\ thread_pool[t] \in TCB /\ TypeOK /\ ThreadOK
  BY DEF ThreadInv, TableInv, PoolInv, TypeOK
<1>2. /\ thread_pool[t].pc = "wait_any" /\ thread_pool' = [thread_pool EXCEPT ![t] = r]
      /\ ptcb_pool' = ptcb_pool /\ cleanup_zombie(c)
  BY DEF WaitAnyResumes
<1>3. c \in Pids
  BY <1>1, <1>2, RunningProc, FirstExitedPid
<1>4. r \in TCB /\ r.pc = "user" /\ r.owner = thread_pool[t].owner /\ r.ptcb = thread_pool[t].ptcb
  BY <1>1 DEF TCB
<1> HIDE DEF r, c
<1>5. TableInv' /\ SameCounts
  BY <1>1, <1>2, <1>3, CleanupTable
<1> QED BY <1>2, <1>4, <1>5, PlaceStep

LEMMA JoinResumesStep ==
    ASSUME ThreadInv, Calls' = Calls, NEW t \in Threads, JoinResumes(t)
    PROVE  ThreadInv'
<1> DEFINE r == [thread_pool[t] EXCEPT !.pc = "user", !.target = NULL]
<1>1. TableInv /\ thread_pool[t] \in TCB
  BY DEF ThreadInv, TableInv, TypeOK
<1>2. /\ thread_pool[t].pc = "join" /\ thread_pool' = [thread_pool EXCEPT ![t] = r]
      /\ ptcb_pool' = ptcb_pool /\ UNCHANGED <<PT, next, orphan>>
  BY DEF JoinResumes
<1>3. r \in TCB /\ r.pc = "user" /\ r.owner = thread_pool[t].owner /\ r.ptcb = thread_pool[t].ptcb
  BY <1>1, BackToUser
<1> HIDE DEF r
<1> QED BY <1>1, <1>2, <1>3, TableSame, PlaceStep

LEMMA JoinStep ==
    ASSUME ThreadInv, Calls' = Calls, NEW t \in Threads, NEW k \in Ptcbs, Join(t, k)
    PROVE  ThreadInv'
<1> DEFINE r == [thread_pool[t] EXCEPT !.pc = "join", !.target = k]
<1>1. TableInv /\ thread_pool[t] \in TCB
  BY DEF ThreadInv, TableInv, TypeOK
<1>2. /\ thread_pool[t].pc = "user" /\ thread_pool' = [thread_pool EXCEPT ![t] = r]
      /\ ptcb_pool' = ptcb_pool /\ UNCHANGED <<PT, next, orphan>>
  BY DEF Join, Runs
<1>3. /\ r \in TCB /\ r.pc = "join" /\ r.owner = thread_pool[t].owner
      /\ r.ptcb = thread_pool[t].ptcb /\ r.target = k
  BY <1>1 DEF TCB
<1> HIDE DEF r
<1> QED BY <1>1, <1>2, <1>3, TableSame, PlaceStep

\* The steps that leave the pools as they are.
LEMMA TableStep ==
    ASSUME ThreadInv, Calls' = Calls, TableInv', SameCounts, UNCHANGED <<thread_pool, ptcb_pool>>
    PROVE  ThreadInv'
<1>1. PoolInv /\ ThreadCountExact /\ thread_pool \in [Threads -> TCB] /\ ptcb_pool \in [Ptcbs -> PTCB]
  BY DEF ThreadInv, PoolInv, TypeOK
<1>2. PoolInv'
  BY <1>1 DEF PoolInv, ThreadOK, NoReturn, PtcbOwned, ExitedPtcbDead
<1>3. ThreadCountExact'
  BY <1>1 DEF ThreadCountExact, SameCounts
<1> QED BY <1>1, <1>2, <1>3, InvPartsNext

LEMMA WaitChildStep ==
    ASSUME ThreadInv, Calls' = Calls, NEW t \in Threads, NEW c \in Pids, WaitChild(t, c)
    PROVE  ThreadInv'
<1> DEFINE r == [thread_pool[t] EXCEPT !.pc = "wait_child", !.target = c]
<1>1. TableInv /\ thread_pool[t] \in TCB /\ thread_pool[t].pc = "user" /\ ptcb_pool' = ptcb_pool
  BY DEF ThreadInv, TableInv, TypeOK, WaitChild, Runs
<1>2. CASE PT[c].pstate = "ALIVE"
  <2>1. thread_pool' = [thread_pool EXCEPT ![t] = r] /\ UNCHANGED <<PT, next, orphan>>
    BY <1>2 DEF WaitChild
  <2>2. /\ r \in TCB /\ r.pc = "wait_child" /\ r.owner = thread_pool[t].owner
        /\ r.ptcb = thread_pool[t].ptcb /\ r.target = c
    BY <1>1 DEF TCB
  <2> HIDE DEF r
  <2> QED BY <1>1, <2>1, <2>2, TableSame, PlaceStep
<1>3. CASE PT[c].pstate # "ALIVE"
  <2>1. cleanup_zombie(c) /\ UNCHANGED thread_pool
    BY <1>3 DEF WaitChild
  <2> QED BY <1>1, <2>1, CleanupTable, TableStep
<1> QED BY <1>2, <1>3

LEMMA WaitAnyStep ==
    ASSUME ThreadInv, Calls' = Calls, NEW t \in Threads, WaitAny(t)
    PROVE  ThreadInv'
<1> DEFINE r == [thread_pool[t] EXCEPT !.pc = "wait_any"]
           p == CURPROC(t)
<1>1. /\ TableInv /\ TypeOK /\ ThreadOK /\ thread_pool[t] \in TCB
      /\ thread_pool[t].pc = "user" /\ ptcb_pool' = ptcb_pool
  BY DEF ThreadInv, TableInv, TypeOK, WaitAny, Runs
<1>2. CASE IsEmpty(next, exited_list(p))
  <2>1. thread_pool' = [thread_pool EXCEPT ![t] = r] /\ UNCHANGED <<PT, next, orphan>>
    BY <1>2 DEF WaitAny
  <2>2. r \in TCB /\ r.pc = "wait_any" /\ r.owner = thread_pool[t].owner /\ r.ptcb = thread_pool[t].ptcb
    BY <1>1 DEF TCB
  <2> HIDE DEF r
  <2> QED BY <1>1, <2>1, <2>2, TableSame, PlaceStep
<1>3. CASE ~IsEmpty(next, exited_list(p))
  <2>1. cleanup_zombie(FirstExited(p)) /\ UNCHANGED thread_pool
    BY <1>3 DEF WaitAny
  <2>2. FirstExited(p) \in Pids
    BY <1>1, RunningProc, FirstExitedPid
  <2> QED BY <1>1, <2>1, <2>2, CleanupTable, TableStep
<1> QED BY <1>2, <1>3

\* What the forms of sys_Exec share.
LEMMA ExecSlot ==
    ASSUME ThreadInv, NEW t \in Threads, Runs(t), FreePids # {}, NEW argl \in ArgLens
    PROVE  LET p == acquire_PCB
               r == NewPCB(t, p, argl)
           IN  /\ p \in Pids /\ PT[p].pstate = "FREE" /\ CURPROC(t) \in Pids
               /\ r \in PCB /\ r.thread_count = PT[p].thread_count /\ r.pstate = "ALIVE"
               /\ r.parent = IF p <= 1 THEN NULL ELSE CURPROC(t)
               /\ Linked(t, p) \in [Nodes -> Nodes] /\ Perm(Linked(t, p))
<1>1. TableInv /\ TypeOK /\ ThreadOK
  BY DEF ThreadInv, TableInv, TypeOK
<1>2. acquire_PCB \in Pids /\ PT[acquire_PCB].pstate = "FREE"
  BY Acquired
<1>3. CURPROC(t) \in Pids
  BY <1>1, RunningProc DEF Runs
<1>4. Linked(t, acquire_PCB) \in [Nodes -> Nodes] /\ Perm(Linked(t, acquire_PCB))
  BY <1>1, <1>2, <1>3, LinkedKeeps
<1> QED BY <1>1, <1>2, <1>3, <1>4, NewPCBType

LEMMA ExecStep ==
    ASSUME ThreadInv, Calls' = Calls, NEW t \in Threads, NEW argl \in ArgLens, Exec(t, argl)
    PROVE  ThreadInv'
<1> DEFINE p == acquire_PCB
           n == NewPCB(t, p, argl)
           r == [n EXCEPT !.thread_count = @ + 1]
<1>1. TableInv /\ TypeOK /\ PoolInv /\ ThreadCountExact
  BY DEF ThreadInv, TableInv, PoolInv, TypeOK
<1>2. /\ Runs(t) /\ FreePids # {} /\ FreeThreads # {} /\ PT' = [PT EXCEPT ![p] = r]
      /\ next' = Linked(t, p) /\ Spawn(p, "main") /\ orphan' = orphan
  BY DEF Exec, CanExec
<1>3. /\ p \in Pids /\ n \in PCB /\ n.thread_count = PT[p].thread_count
      /\ next' \in [Nodes -> Nodes] /\ Perm(next')
  BY <1>2, ExecSlot
<1> HIDE DEF n, p
<1>4. r \in PCB /\ r.thread_count = PT[p].thread_count + 1
  BY <1>3 DEF PCB
<1> HIDE DEF r
<1>5. PT' \in [Pids -> PCB] /\ PT'[p] = r /\ \A q \in Pids \ {p} : PT'[q] = PT[q]
  BY <1>1, <1>2, <1>3, <1>4 DEF TableInv
<1>6. TableInv'
  <2>1. Perm(next)'
    BY <1>3 DEF Perm
  <2> QED BY <1>1, <1>2, <1>3, <1>5, <2>1 DEF TableInv
<1>7. /\ PoolInv' /\ thread_pool' \in [Threads -> TCB] /\ ptcb_pool' \in [Ptcbs -> PTCB]
      /\ \E slot \in Threads :
            /\ thread_pool[slot] = NoThread
            /\ thread_pool'[slot].owner = p /\ thread_pool'[slot].pc = "start"
            /\ \A u \in Threads \ {slot} : thread_pool'[u] = thread_pool[u]
  BY <1>1, <1>2, <1>3, SpawnPools
<1>8. PICK slot \in Threads :
            /\ thread_pool[slot] = NoThread
            /\ thread_pool'[slot].owner = p /\ thread_pool'[slot].pc = "start"
            /\ \A u \in Threads \ {slot} : thread_pool'[u] = thread_pool[u]
  BY <1>7
<1>9. ThreadCountExact'
  BY <1>1, <1>3, <1>4, <1>5, <1>8, CountIn
<1> QED BY <1>6, <1>7, <1>9, InvPartsNext

LEMMA ExecFailsStep ==
    ASSUME ThreadInv, Calls' = Calls, NEW t \in Threads, NEW argl \in ArgLens, ExecFails(t, argl)
    PROVE  ThreadInv'
<1> DEFINE p == acquire_PCB
           n == NewPCB(t, p, argl)
           r == [n EXCEPT !.pstate = "FREE"]
<1>1. TableInv
  BY DEF ThreadInv, TableInv, TypeOK
<1>2. /\ Runs(t) /\ FreePids # {} /\ PT' = [PT EXCEPT ![p] = r]
      /\ next' = Linked(t, p) /\ UNCHANGED <<thread_pool, ptcb_pool, orphan>>
  BY DEF ExecFails, CanExec
<1>3. /\ p \in Pids /\ n \in PCB /\ n.thread_count = PT[p].thread_count
      /\ next' \in [Nodes -> Nodes] /\ Perm(next')
  BY <1>2, ExecSlot
<1> HIDE DEF n, p
<1>4. r \in PCB /\ r.thread_count = PT[p].thread_count
  BY <1>3 DEF PCB
<1> HIDE DEF r
<1>5. PT' \in [Pids -> PCB] /\ SameCounts
  BY <1>1, <1>2, <1>3, <1>4 DEF TableInv, SameCounts
<1>6. TableInv'
  <2>1. Perm(next)'
    BY <1>3 DEF Perm
  <2> QED BY <1>1, <1>2, <1>3, <1>5, <2>1 DEF TableInv
<1> QED BY <1>2, <1>5, <1>6, TableStep

LEMMA ExecNullStep ==
    ASSUME ThreadInv, Calls' = Calls, NEW t \in Threads, NEW argl \in ArgLens, ExecNull(t, argl)
    PROVE  ThreadInv'
<1> DEFINE p == acquire_PCB
           n == NewPCB(t, p, argl)
<1>1. TableInv
  BY DEF ThreadInv, TableInv, TypeOK
<1>2. /\ Runs(t) /\ FreePids # {} /\ PT' = [PT EXCEPT ![p] = n]
      /\ next' = Linked(t, p) /\ UNCHANGED <<thread_pool, ptcb_pool, orphan>>
  BY DEF ExecNull, CanExec
<1>3. /\ p \in Pids /\ n \in PCB /\ n.thread_count = PT[p].thread_count
      /\ next' \in [Nodes -> Nodes] /\ Perm(next')
  BY <1>2, ExecSlot
<1> HIDE DEF n, p
<1>5. PT' \in [Pids -> PCB] /\ SameCounts
  BY <1>1, <1>2, <1>3 DEF TableInv, SameCounts
<1>6. TableInv'
  <2>1. Perm(next)'
    BY <1>3 DEF Perm
  <2> QED BY <1>1, <1>2, <1>3, <1>5, <2>1 DEF TableInv
<1> QED BY <1>2, <1>5, <1>6, TableStep

(***************************************************************************)
(* Exit and ThreadExit: sys_ThreadExit on a table pt in which no count has *)
(* changed yet.                                                            *)
(***************************************************************************)
LEMMA GoneStep ==
    ASSUME ThreadInv, Calls' = Calls, NEW t \in Threads, Runs(t),
           NEW pt \in [Pids -> PCB], ThreadGone(t, pt),
           \A p \in Pids : pt[p].thread_count = PT[p].thread_count,
           next' \in [Nodes -> Nodes], Perm(next'), orphan' = orphan
    PROVE  /\ ThreadInv'
           /\ \A p \in Pids : PT'[p].pstate = pt[p].pstate /\ PT'[p].parent = pt[p].parent
           /\ thread_pool'[t] = NoThread
           /\ \A u \in Threads : u # t => thread_pool'[u] = thread_pool[u]
<1> DEFINE p == CURPROC(t)
           r == [pt[p] EXCEPT !.thread_count = @ - 1]
<1>1. TableInv /\ TypeOK /\ PoolInv /\ ThreadOK /\ ThreadCountExact /\ thread_pool[t].pc = "user"
  BY DEF ThreadInv, TableInv, PoolInv, TypeOK, Runs
<1>2. /\ PT' = [pt EXCEPT ![p] = r] /\ ptcb_pool' = MarkExited(t)
      /\ thread_pool' = [thread_pool EXCEPT ![t] = NoThread]
  BY DEF ThreadGone
<1>3. p \in Pids /\ thread_pool[t].owner = p
  BY <1>1, RunningProc DEF CURPROC
<1> HIDE DEF p
<1>4. /\ r \in PCB /\ r.thread_count = PT[p].thread_count - 1
      /\ r.pstate = pt[p].pstate /\ r.parent = pt[p].parent
  <2>1. pt[p] \in PCB /\ pt[p].thread_count = PT[p].thread_count
    BY <1>3
  <2> QED BY <2>1 DEF PCB
<1> HIDE DEF r
<1>5. PT' \in [Pids -> PCB] /\ PT'[p] = r /\ \A q \in Pids \ {p} : PT'[q] = pt[q]
  BY <1>2, <1>3, <1>4
<1>6. TableInv'
  <2>1. Perm(next)'
    BY DEF Perm
  <2> QED BY <1>1, <1>5, <2>1 DEF TableInv
<1>7. /\ PoolInv' /\ thread_pool' \in [Threads -> TCB] /\ thread_pool'[t] = NoThread
      /\ \A u \in Threads : u # t => thread_pool'[u] = thread_pool[u]
  BY <1>1, <1>2, GonePools
<1>8. ptcb_pool' \in [Ptcbs -> PTCB]
  BY <1>1, <1>2, Marked
<1>9. ThreadCountExact'
  <2>1. PT'[p].thread_count = PT[p].thread_count - 1
        /\ \A q \in Pids \ {p} : PT'[q].thread_count = PT[q].thread_count
    BY <1>4, <1>5
  <2> QED BY <1>1, <1>3, <1>7, <2>1, CountOff
<1>10. ThreadInv'
  BY <1>6, <1>7, <1>8, <1>9, InvPartsNext
<1> QED BY <1>4, <1>5, <1>7, <1>10

\* The table and the lists that Exit hands to sys_ThreadExit.
LEMMA ExitTable ==
    ASSUME ThreadInv, NEW t \in Threads, Exit(t)
    PROVE  LET p  == CURPROC(t)
               pt == [PT EXCEPT ![p].pstate = "ZOMBIE"]
           IN  /\ p \in Pids /\ pt \in [Pids -> PCB]
               /\ \A q \in Pids : /\ pt[q].thread_count = PT[q].thread_count
                                  /\ pt[q].parent = PT[q].parent
                                  /\ pt[q].pstate = IF q = p THEN "ZOMBIE" ELSE PT[q].pstate
               /\ next' \in [Nodes -> Nodes] /\ Perm(next')
<1> DEFINE p == CURPROC(t)
           parent == PT[p].parent
           r == [PT[p] EXCEPT !.pstate = "ZOMBIE"]
           pt == [PT EXCEPT ![p].pstate = "ZOMBIE"]
<1>1. TableInv /\ TypeOK /\ ThreadOK /\ thread_pool[t].pc = "user"
  BY DEF ThreadInv, TableInv, TypeOK, Exit, Runs
<1>2. p \in Pids
  BY <1>1, RunningProc
<1>3. next' = IF parent = NULL THEN next
              ELSE PushBack(Remove(next, children_node(p)), exited_list(parent), exited_node(p))
  BY DEF Exit
<1> HIDE DEF p
<1>4. PT[p] \in PCB
  BY <1>1, <1>2 DEF TableInv
<1>5. /\ r \in PCB /\ r.thread_count = PT[p].thread_count /\ r.parent = PT[p].parent
      /\ r.pstate = "ZOMBIE"
  BY <1>4 DEF PCB
<1>6. pt = [PT EXCEPT ![p] = r]
  OBVIOUS
<1>7. parent \in Pids \cup {NULL}
  BY <1>4 DEF PCB
<1> HIDE DEF r, pt, parent
<1>8. /\ pt \in [Pids -> PCB]
      /\ \A q \in Pids : /\ pt[q].thread_count = PT[q].thread_count
                         /\ pt[q].parent = PT[q].parent
                         /\ pt[q].pstate = IF q = p THEN "ZOMBIE" ELSE PT[q].pstate
  BY <1>1, <1>2, <1>5, <1>6 DEF TableInv
<1>9. next' \in [Nodes -> Nodes] /\ Perm(next')
  <2>1. CASE parent = NULL
    BY <2>1, <1>1, <1>3 DEF TableInv
  <2>2. CASE parent # NULL
    <3>1. /\ Remove(next, children_node(p)) \in [Nodes -> Nodes]
          /\ Perm(Remove(next, children_node(p)))
      BY <1>1, <1>2, NodeTypes, RemoveKeeps DEF TableInv
    <3>2. exited_list(parent) \in Nodes /\ exited_node(p) \in Nodes
      BY <2>2, <1>2, <1>7, NodeTypes
    <3> QED BY <2>2, <1>3, <3>1, <3>2, PushBackKeeps
  <2> QED BY <2>1, <2>2
<1> QED BY <1>2, <1>8, <1>9 DEF p, pt

LEMMA ExitStep ==
    ASSUME ThreadInv, Calls' = Calls, NEW t \in Threads, Exit(t)
    PROVE  /\ ThreadInv'
           /\ \A q \in Pids : /\ PT'[q].parent = PT[q].parent
                              /\ PT'[q].pstate = IF q = CURPROC(t) THEN "ZOMBIE" ELSE PT[q].pstate
           /\ thread_pool'[t] = NoThread
           /\ \A u \in Threads : u # t => thread_pool'[u] = thread_pool[u]
<1> DEFINE pt == [PT EXCEPT ![CURPROC(t)].pstate = "ZOMBIE"]
<1>1. Runs(t) /\ ThreadGone(t, pt) /\ orphan' = orphan
  BY DEF Exit
<1>2. /\ pt \in [Pids -> PCB]
      /\ \A q \in Pids : /\ pt[q].thread_count = PT[q].thread_count
                         /\ pt[q].parent = PT[q].parent
                         /\ pt[q].pstate = IF q = CURPROC(t) THEN "ZOMBIE" ELSE PT[q].pstate
      /\ next' \in [Nodes -> Nodes] /\ Perm(next')
  BY ExitTable
<1> HIDE DEF pt
<1>3. /\ ThreadInv'
      /\ \A p \in Pids : PT'[p].pstate = pt[p].pstate /\ PT'[p].parent = pt[p].parent
      /\ thread_pool'[t] = NoThread
      /\ \A u \in Threads : u # t => thread_pool'[u] = thread_pool[u]
  BY <1>1, <1>2, GoneStep
<1> QED BY <1>2, <1>3

LEMMA ThreadExitStep ==
    ASSUME ThreadInv, Calls' = Calls, NEW t \in Threads, ThreadExit(t)
    PROVE  ThreadInv'
<1>1. Runs(t) /\ ThreadGone(t, PT) /\ UNCHANGED <<next, orphan>>
  BY DEF ThreadExit
<1>2. TableInv
  BY DEF ThreadInv, TableInv, TypeOK
<1>3. next' \in [Nodes -> Nodes] /\ Perm(next') /\ PT \in [Pids -> PCB]
  BY <1>1, <1>2 DEF TableInv
<1> QED BY <1>1, <1>3, GoneStep

LEMMA CreateThreadStep ==
    ASSUME ThreadInv, Calls' = Calls, NEW t \in Threads, CreateThread(t)
    PROVE  ThreadInv'
<1> DEFINE p == CURPROC(t)
           r == [PT[p] EXCEPT !.thread_count = @ + 1]
<1>1. TableInv /\ TypeOK /\ PoolInv /\ ThreadOK /\ ThreadCountExact
  BY DEF ThreadInv, TableInv, PoolInv, TypeOK
<1>2. /\ thread_pool[t].pc = "user" /\ FreeThreads # {} /\ PT' = [PT EXCEPT ![p] = r]
      /\ Spawn(p, "pthread") /\ UNCHANGED <<next, orphan>>
  BY DEF CreateThread, Runs
<1>3. p \in Pids
  BY <1>1, <1>2, RunningProc
<1> HIDE DEF p
<1>4. r \in PCB /\ r.thread_count = PT[p].thread_count + 1
  <2>1. PT[p] \in PCB
    BY <1>1, <1>3 DEF TableInv
  <2> QED BY <2>1 DEF PCB
<1> HIDE DEF r
<1>5. PT' \in [Pids -> PCB] /\ PT'[p] = r /\ \A q \in Pids \ {p} : PT'[q] = PT[q]
  BY <1>1, <1>2, <1>3, <1>4 DEF TableInv
<1>6. TableInv'
  BY <1>1, <1>2, <1>5 DEF TableInv, Perm
<1>7. /\ PoolInv' /\ thread_pool' \in [Threads -> TCB] /\ ptcb_pool' \in [Ptcbs -> PTCB]
      /\ \E slot \in Threads :
            /\ thread_pool[slot] = NoThread
            /\ thread_pool'[slot].owner = p /\ thread_pool'[slot].pc = "start"
            /\ \A u \in Threads \ {slot} : thread_pool'[u] = thread_pool[u]
  BY <1>1, <1>2, <1>3, SpawnPools
<1>8. PICK slot \in Threads :
            /\ thread_pool[slot] = NoThread
            /\ thread_pool'[slot].owner = p /\ thread_pool'[slot].pc = "start"
            /\ \A u \in Threads \ {slot} : thread_pool'[u] = thread_pool[u]
  BY <1>7
<1>9. ThreadCountExact'
  BY <1>1, <1>3, <1>4, <1>5, <1>8, CountIn
<1> QED BY <1>6, <1>7, <1>9, InvPartsNext

(***************************************************************************)
(* Once a thread may return from its task nothing is said of the counts.   *)
(***************************************************************************)
LEMMA ReturnStep ==
    ASSUME ThreadInv, Calls' = Calls, NEW t \in Threads,
           Return(t) \/ ReturnStores(t) \/ ReturnSleeps(t)
    PROVE  ThreadInv'
<1>1. TableInv /\ TypeOK /\ PoolInv /\ ThreadOK /\ thread_pool[t] \in TCB
  BY DEF ThreadInv, TableInv, PoolInv, TypeOK
<1>2. "Return" \in Calls
  BY <1>1 DEF PoolInv, NoReturn, Return, ReturnStores, ReturnSleeps
<1>3. ThreadCountExact'
  BY <1>2 DEF ThreadCountExact
<1>4. CASE Return(t)
  <2>1. UNCHANGED <<PT, next, orphan>>
    BY <1>4 DEF Return
  <2> QED BY <1>1, <1>3, <1>4, <2>1, TableSame, ReturnPools, InvPartsNext
<1>5. CASE ReturnStores(t)
  <2> DEFINE p == CURPROC(t)
             q == [PT[p] EXCEPT !.thread_count = thread_pool[t].tmp - 1]
             r == [thread_pool[t] EXCEPT !.pc = "sleep"]
  <2>1. /\ thread_pool[t].pc = "decrement" /\ PT' = [PT EXCEPT ![p] = q]
        /\ thread_pool' = [thread_pool EXCEPT ![t] = r] /\ UNCHANGED <<next, ptcb_pool, orphan>>
    BY <1>5 DEF ReturnStores
  <2>2. p \in Pids
    BY <1>1, <2>1, RunningProc
  <2>3. PT[p] \in PCB /\ thread_pool[t].tmp \in Int
    BY <1>1, <2>2 DEF TableInv, TCB
  <2>4. q \in PCB
    BY <2>3 DEF PCB
  <2>5. r \in TCB /\ r.pc = "sleep" /\ r.owner = thread_pool[t].owner /\ r.ptcb = thread_pool[t].ptcb
    BY <1>1 DEF TCB
  <2> HIDE DEF p, q, r
  <2>6. TableInv'
    BY <1>1, <2>1, <2>2, <2>4 DEF TableInv, Perm
  <2>7. PoolInv' /\ thread_pool' \in [Threads -> TCB]
    BY <1>1, <1>2, <2>1, <2>5, MovePools
  <2>8. ptcb_pool' \in [Ptcbs -> PTCB]
    BY <1>1, <2>1 DEF TypeOK
  <2> QED BY <1>3, <2>6, <2>7, <2>8, InvPartsNext
<1>6. CASE ReturnSleeps(t)
  <2>1. /\ thread_pool[t].pc = "sleep" /\ thread_pool' = [thread_pool EXCEPT ![t] = NoThread]
        /\ UNCHANGED <<PT, next, ptcb_pool, orphan>>
    BY <1>6 DEF ReturnSleeps
  <2>2. TableInv' /\ ptcb_pool' \in [Ptcbs -> PTCB]
    BY <1>1, <2>1, TableSame DEF TypeOK
  <2>3. NoThread \in TCB /\ NoThread.pc = "free" /\ NoThread.ptcb = NULL
    BY DEF NoThread, TCB
  <2>4. /\ thread_pool' \in [Threads -> TCB] /\ thread_pool'[t] = NoThread
        /\ \A u \in Threads : u # t => thread_pool'[u] = thread_pool[u]
    BY <2>1, <2>3, <1>1 DEF TypeOK
  <2>5. ThreadOK' /\ NoReturn'
    <3>1. ThreadOK'
      BY <2>3, <2>4, <1>1 DEF ThreadOK
    <3> QED BY <3>1, <1>2 DEF NoReturn
  <2>6. PtcbOwned'
    BY <2>1, <2>3, <2>4, <1>1 DEF PoolInv, PtcbOwned
  <2>7. ExitedPtcbDead'
    BY <2>1, <2>3, <2>4, <1>1 DEF PoolInv, ExitedPtcbDead
  <2> QED BY <1>3, <2>2, <2>4, <2>5, <2>6, <2>7, InvPartsNext DEF PoolInv
<1> QED BY <1>4, <1>5, <1>6

LEMMA DetachStep ==
    ASSUME ThreadInv, Calls' = Calls, NEW t \in Threads, NEW k \in Ptcbs, Detach(t, k)
    PROVE  ThreadInv'
<1>1. TableInv /\ TypeOK /\ PoolInv /\ ThreadCountExact
  BY DEF ThreadInv, TableInv, PoolInv, TypeOK
<1>2. UNCHANGED <<PT, next, thread_pool, orphan>>
  BY DEF Detach
<1>3. ThreadCountExact' /\ thread_pool' \in [Threads -> TCB]
  BY <1>1, <1>2 DEF ThreadCountExact, TypeOK
<1> QED BY <1>1, <1>2, <1>3, TableSame, DetachPools, InvPartsNext

-----------------------------------------------------------------------------
LEMMA ThreadInitial == Init => ThreadInv
<1> SUFFICES ASSUME Init PROVE ThreadInv
  OBVIOUS
<1>1. 0 \in Pids /\ 1 \in Pids /\ 0 \in Threads /\ 0 \in Ptcbs /\ NULL \notin Pids /\ NULL \notin Ptcbs
  BY ProcAssumption, NullApart DEF Pids, Threads, Ptcbs
<1>2. PT \in [Pids -> PCB]
  <2>1. initialize_PCB \in PCB
    BY ProcAssumption DEF initialize_PCB, PCB
  <2>2. [initialize_PCB EXCEPT !.pstate = "ALIVE"] \in PCB
    BY <2>1 DEF PCB
  <2>3. [initialize_PCB EXCEPT !.pstate = "ALIVE", !.thread_count = 1] \in PCB
    BY <2>1, 1 \in Int DEF PCB
  <2> QED BY <2>1, <2>2, <2>3 DEF Init
<1>3. next \in [Nodes -> Nodes] /\ Perm(next)
  BY DEF Init, Perm
<1> DEFINE main == [NoThread EXCEPT !.pc = "start", !.owner = 1, !.func = "main", !.ptcb = 0]
<1>4. /\ NoThread \in TCB /\ main \in TCB /\ NoThread.pc = "free" /\ NoThread.ptcb = NULL
      /\ NoThread.owner = NULL /\ main.pc = "start" /\ main.owner = 1 /\ main.ptcb = 0
  <2>1. /\ NoThread \in TCB /\ NoThread.pc = "free" /\ NoThread.ptcb = NULL
        /\ NoThread.owner = NULL
    BY DEF NoThread, TCB
  <2>2. main \in TCB
    BY <1>1, <2>1 DEF TCB
  <2>3. main.pc = "start" /\ main.owner = 1 /\ main.ptcb = 0
    BY DEF NoThread
  <2> QED BY <2>1, <2>2, <2>3
<1> HIDE DEF main
<1>5. /\ thread_pool \in [Threads -> TCB] /\ thread_pool[0] = main
      /\ \A t \in Threads : t # 0 => thread_pool[t] = NoThread
  BY <1>1, <1>4 DEF Init, main
<1>6. /\ ptcb_pool \in [Ptcbs -> PTCB] /\ ptcb_pool[0].used
      /\ \A k \in Ptcbs : ptcb_pool[k].exited = FALSE
  BY <1>1 DEF Init, PTCB
<1>7. TypeOK
  BY <1>2, <1>3, <1>5, <1>6 DEF Init, TypeOK
<1>8. ThreadOK /\ NoReturn
  BY <1>1, <1>4, <1>5 DEF ThreadOK, NoReturn
<1>9. PtcbOwned
  BY <1>1, <1>4, <1>5, <1>6 DEF PtcbOwned
<1>10. ExitedPtcbDead
  BY <1>1, <1>4, <1>5, <1>6 DEF ExitedPtcbDead
<1>11. CountExact(PT, thread_pool)
  <2>1. Counted(thread_pool, 1) = {0}
    BY <1>1, <1>4, <1>5, NullApart DEF Counted
  <2>2. PT[1].thread_count = 1
    BY <1>1 DEF Init, initialize_PCB
  <2>3. ASSUME NEW p \in Pids, p # 1
        PROVE  Counted(thread_pool, p) = {} /\ PT[p].thread_count = 0
    BY <2>3, <1>1, <1>4, <1>5 DEF Counted, Init, initialize_PCB
  <2> QED BY <2>1, <2>2, <2>3, FS_Singleton, FS_EmptySet DEF CountExact
<1> QED BY <1>3, <1>7, <1>8, <1>9, <1>10, <1>11, CountIs DEF ThreadInv

LEMMA ThreadStep == ThreadInv /\ [Next]_vars => ThreadInv'
<1> SUFFICES ASSUME ThreadInv, [Next]_vars PROVE ThreadInv'
  OBVIOUS
<1>1. CASE UNCHANGED vars
  <2>1. UNCHANGED <<PT, next, thread_pool, ptcb_pool, orphan, Calls>>
    BY <1>1 DEF vars, kernel
  <2> QED BY <2>1, TableSame, TableStep, InvParts
<1>2. ASSUME NEW t \in Threads, Resumes(t) \/ ProcessCall(t) \/ ThreadCall(t), Calls' = Calls
      PROVE  ThreadInv'
  <2>1. CASE Resumes(t)
    BY <2>1, <1>2, StartStep, WaitChildResumesStep, WaitAnyResumesStep, JoinResumesStep, ReturnStep
    DEF Resumes
  <2>2. CASE ProcessCall(t)
    BY <2>2, <1>2, ExecStep, ExecFailsStep, ExecNullStep, WaitChildStep, WaitAnyStep, ExitStep
    DEF ProcessCall
  <2>3. CASE ThreadCall(t)
    BY <2>3, <1>2, CreateThreadStep, ThreadExitStep, ReturnStep, JoinStep, DetachStep
    DEF ThreadCall
  <2> QED BY <1>2, <2>1, <2>2, <2>3
<1> QED BY <1>1, <1>2 DEF Next

(***************************************************************************)
(* The tables of processes, threads and PTCBs agree on which threads there *)
(* are, whatever system calls the programs make and however many slots     *)
(* there are: thread_count is exact if no thread returns from its task     *)
(* with interrupts on, and a join never finds the mark of a running thread.*)
(***************************************************************************)
THEOREM ThreadsSafe == Spec => []ThreadsSound
<1>1. ThreadInv => ThreadsSound
  BY DEF ThreadInv, ThreadsSound
<1> QED BY <1>1, ThreadInitial, ThreadStep, PTL DEF Spec

-----------------------------------------------------------------------------
(***************************************************************************)
(* Rings.  Inserting a lone node after another one puts it into the ring   *)
(* of that one; removing a node leaves it alone, and the others together.  *)
(***************************************************************************)
LEMMA InsertRing ==
    ASSUME NEW f \in [Nodes -> Nodes], Perm(f), NEW h \in [Nodes -> Nodes],
           Kept(f, h), OneRing(f, h),
           NEW a \in Nodes, NEW b \in Nodes, a # b, \A n \in Nodes : h[n] = a <=> n = a,
           NEW g \in [Nodes -> Nodes], g[a] = f[b], g[b] = f[a],
           \A n \in Nodes : n # a /\ n # b => g[n] = f[n]
    PROVE  Kept(g, [h EXCEPT ![a] = h[b]]) /\ OneRing(g, [h EXCEPT ![a] = h[b]])
<1> DEFINE k == [h EXCEPT ![a] = h[b]]
<1>1. k[a] = h[b] /\ \A n \in Nodes : n # a => k[n] = h[n]
  OBVIOUS
<1>2. f[a] = a /\ \A n \in Nodes : n # a => f[n] # a
  BY DEF Kept
<1>3. h[f[b]] = h[b] /\ f[b] # a /\ f[b] \in Nodes
  BY <1>2 DEF Kept
<1> HIDE DEF k
<1>4. Kept(g, k)
  BY <1>1, <1>2, <1>3 DEF Kept
<1>5. ASSUME NEW S \in SUBSET Nodes, Closed(g, S), NEW m \in S, NEW n \in Nodes, k[m] = k[n]
      PROVE  n \in S
  <2> DEFINE R == S \ {a}
  <2>1. Closed(f, R)
    <3> SUFFICES ASSUME NEW x \in R PROVE f[x] \in R
      BY DEF Closed
    <3>1. CASE x = b
      <4>1. a \in S
        BY <3>1, <1>2, <1>5 DEF Closed
      <4>2. f[b] \in S
        BY <4>1, <1>5 DEF Closed
      <4> QED BY <3>1, <4>2, <1>3
    <3>2. CASE x # b
      BY <3>2, <1>2, <1>5 DEF Closed
    <3> QED BY <3>1, <3>2
  <2>2. ASSUME NEW x \in R, h[x] = k[n] PROVE n \in S
    <3>1. \A y \in Nodes : h[x] = h[y] => y \in R
      BY <2>1 DEF OneRing
    <3>2. CASE n = a
      <4>1. b \in R
        BY <3>1, <3>2, <2>2, <1>1
      <4> QED BY <4>1, <3>2, <1>2, <1>5 DEF Closed
    <3>3. CASE n # a
      BY <3>1, <3>3, <2>2, <1>1
    <3> QED BY <3>2, <3>3
  <2>3. CASE m # a
    BY <2>2, <2>3, <1>1, <1>5
  <2>4. CASE m = a
    <3>1. f[b] \in R
      BY <2>4, <1>3, <1>5 DEF Closed
    <3> QED BY <2>2, <2>4, <3>1, <1>1, <1>3, <1>5
  <2> QED BY <2>3, <2>4
<1>6. OneRing(g, k)
  BY <1>5 DEF OneRing
<1> QED BY <1>4, <1>6 DEF k

LEMMA RemoveRing ==
    ASSUME NEW f \in [Nodes -> Nodes], Perm(f), NEW h \in [Nodes -> Nodes],
           Kept(f, h), OneRing(f, h),
           NEW a \in Nodes, \A n \in Nodes : n # a => h[n] # a
    PROVE  /\ Kept(Remove(f, a), [h EXCEPT ![a] = a])
           /\ OneRing(Remove(f, a), [h EXCEPT ![a] = a])
<1> DEFINE k == [h EXCEPT ![a] = a]
           g == Remove(f, a)
           b == Before(f, a)
<1>1. k[a] = a /\ \A n \in Nodes : n # a => k[n] = h[n]
  OBVIOUS
<1>2. b \in Nodes /\ f[b] = a
  BY BeforeIs
<1>3. /\ g \in [Nodes -> Nodes] /\ g[a] = f[b] /\ g[b] = f[a]
      /\ \A n \in Nodes : n # a /\ n # b => g[n] = f[n]
  BY <1>2, SpliceKeeps DEF Remove
<1> HIDE DEF k, g, b
<1>4. /\ \A n \in Nodes : n # b => f[n] # a
      /\ b # a => f[a] # a
  BY <1>2 DEF Perm
<1>5. Kept(g, k)
  <2> SUFFICES ASSUME NEW n \in Nodes PROVE k[g[n]] = k[n]
    BY DEF Kept
  <2>1. CASE n = a
    BY <2>1, <1>2, <1>3
  <2>2. CASE n # a /\ n = b
    <3>1. g[n] = f[a] /\ f[a] # a /\ f[a] \in Nodes
      BY <2>2, <1>3, <1>4
    <3>2. h[f[a]] = h[a] /\ h[b] = h[a]
      BY <1>2 DEF Kept
    <3> QED BY <2>2, <3>1, <3>2, <1>1
  <2>3. CASE n # a /\ n # b
    BY <2>3, <1>1, <1>3, <1>4 DEF Kept
  <2> QED BY <2>1, <2>2, <2>3
<1>6. ASSUME NEW S \in SUBSET Nodes, Closed(g, S), NEW m \in S, NEW n \in Nodes, k[m] = k[n]
      PROVE  n \in S
  <2>1. CASE m = a
    BY <2>1, <1>1, <1>6
  <2>2. CASE m # a
    <3>1. n # a /\ h[m] = h[n]
      BY <2>2, <1>1, <1>6
    <3>2. CASE b \in S
      <4> DEFINE R == S \cup {a}
      <4>1. Closed(f, R)
        BY <3>2, <1>2, <1>3, <1>6 DEF Closed
      <4>2. R \in SUBSET Nodes /\ m \in R
        OBVIOUS
      <4> QED BY <3>1, <4>1, <4>2 DEF OneRing
    <3>3. CASE b \notin S
      <4> DEFINE R == S \ {a}
      <4>1. Closed(f, R)
        BY <3>3, <1>3, <1>4, <1>6 DEF Closed
      <4>2. R \in SUBSET Nodes /\ m \in R
        BY <2>2
      <4> QED BY <3>1, <4>1, <4>2 DEF OneRing
    <3> QED BY <3>2, <3>3
  <2> QED BY <2>1, <2>2
<1>7. OneRing(g, k)
  BY <1>6 DEF OneRing
<1> QED BY <1>5, <1>7 DEF k, g

-----------------------------------------------------------------------------
(***************************************************************************)
(* RingOf is the class of Home.  Its recursive function exists: what it    *)
(* reaches in n rounds are the ends of walks of n steps, each of which     *)
(* follows next or stays.  Facts about all rounds are shown by looking at  *)
(* the first round without the fact.                                       *)
(***************************************************************************)
Rounds(f, a, R) ==
    [n \in Nat |-> IF n = 0 THEN {a} ELSE R[n - 1] \cup {f[x] : x \in R[n - 1]}]

Walk(f, a, n, g) == /\ g \in [0 .. n -> Nodes] /\ g[0] = a
                    /\ \A i \in 0 .. n - 1 : g[i + 1] = g[i] \/ g[i + 1] = f[g[i]]

LEMMA RoundsExist ==
    ASSUME NEW f \in [Nodes -> Nodes], NEW a \in Nodes
    PROVE  \E R : R = Rounds(f, a, R)
<1> DEFINE Ends(n) == {x \in Nodes : \E g : Walk(f, a, n, g) /\ g[n] = x}
           R == [n \in Nat |-> Ends(n)]
<1>1. Ends(0) = {a}
  <2>1. ASSUME NEW g, Walk(f, a, 0, g) PROVE g[0] = a
    BY <2>1 DEF Walk
  <2>2. Walk(f, a, 0, [i \in 0 .. 0 |-> a])
    BY DEF Walk
  <2> QED BY <2>1, <2>2
<1>2. ASSUME NEW n \in Nat, n # 0
      PROVE  Ends(n) = Ends(n - 1) \cup {f[x] : x \in Ends(n - 1)}
  <2>0. n - 1 \in Nat
    BY <1>2
  <2>1. ASSUME NEW x \in Ends(n)
        PROVE  x \in Ends(n - 1) \cup {f[y] : y \in Ends(n - 1)}
    <3>1. PICK g : Walk(f, a, n, g) /\ g[n] = x
      OBVIOUS
    <3> DEFINE e == [i \in 0 .. n - 1 |-> g[i]]
    <3>2. \A i \in 0 .. n - 1 : i \in 0 .. n /\ i + 1 \in 0 .. n /\ g[i] \in Nodes
      BY <2>0, <3>1 DEF Walk
    <3>3. Walk(f, a, n - 1, e)
      BY <2>0, <3>1, <3>2 DEF Walk
    <3>4. g[n - 1] \in Ends(n - 1)
      BY <2>0, <3>2, <3>3
    <3>5. x = g[n - 1] \/ x = f[g[n - 1]]
      <4>1. n - 1 \in 0 .. n - 1 /\ (n - 1) + 1 = n
        BY <2>0
      <4> QED BY <4>1, <3>1 DEF Walk
    <3> QED BY <3>4, <3>5
  <2>2. ASSUME NEW y \in Ends(n - 1), NEW x \in {y, f[y]} PROVE x \in Ends(n)
    <3>1. PICK g : Walk(f, a, n - 1, g) /\ g[n - 1] = y
      OBVIOUS
    <3> DEFINE e == [i \in 0 .. n |-> IF i = n THEN x ELSE g[i]]
    <3>2. x \in Nodes
      OBVIOUS
    <3>3. e \in [0 .. n -> Nodes] /\ e[0] = a /\ e[n] = x
      BY <2>0, <1>2, <3>1, <3>2 DEF Walk
    <3>4. ASSUME NEW i \in 0 .. n - 1 PROVE e[i + 1] = e[i] \/ e[i + 1] = f[e[i]]
      <4>1. CASE i = n - 1
        BY <4>1, <2>0, <3>1
      <4>2. CASE i # n - 1
        <5>1. i \in 0 .. (n - 1) - 1 /\ i + 1 # n /\ i # n /\ i \in 0 .. n /\ i + 1 \in 0 .. n
          BY <4>2, <2>0
        <5> QED BY <5>1, <3>1 DEF Walk
      <4> QED BY <4>1, <4>2
    <3>5. Walk(f, a, n, e)
      BY <3>3, <3>4 DEF Walk
    <3> QED BY <3>2, <3>3, <3>5
  <2> QED BY <2>1, <2>2
<1> HIDE DEF Ends
<1>3. R = Rounds(f, a, R)
  <2>1. ASSUME NEW n \in Nat
        PROVE  R[n] = IF n = 0 THEN {a} ELSE R[n - 1] \cup {f[x] : x \in R[n - 1]}
    <3>1. CASE n = 0
      BY <3>1, <1>1
    <3>2. CASE n # 0
      <4>1. n - 1 \in Nat /\ R[n] = Ends(n) /\ R[n - 1] = Ends(n - 1)
        BY <3>2
      <4> HIDE DEF R
      <4> QED BY <3>2, <4>1, <1>2
    <3> QED BY <3>1, <3>2
  <2> QED BY <2>1 DEF Rounds
<1> QED BY <1>3

LEMMA RingRounds ==
    ASSUME NEW f \in [Nodes -> Nodes], NEW a \in Nodes
    PROVE  \E R : R = Rounds(f, a, R) /\ RingOf(f, a) = R[Cardinality(Nodes)]
<1> DEFINE R == CHOOSE R : R = [n \in Nat |-> IF n = 0 THEN {a}
                                              ELSE R[n - 1] \cup {f[x] : x \in R[n - 1]}]
<1>1. R = Rounds(f, a, R)
  BY RoundsExist DEF Rounds
<1>2. RingOf(f, a) = R[Cardinality(DOMAIN f)]
  BY DEF RingOf
<1> QED BY <1>1, <1>2

LEMMA NodesFinite == IsFiniteSet(Nodes) /\ Cardinality(Nodes) \in Nat
<1>1. IsFiniteSet(Pids)
  BY ProcAssumption, FS_Interval DEF Pids
<1>2. IsFiniteSet({"children_list", "exited_list", "children_node", "exited_node"})
  <2>1. IsFiniteSet({"children_list"})
    BY FS_Singleton
  <2>2. IsFiniteSet({"children_list"} \cup {"exited_list"})
    BY <2>1, FS_AddElement
  <2>3. IsFiniteSet(({"children_list"} \cup {"exited_list"}) \cup {"children_node"})
    BY <2>2, FS_AddElement
  <2>4. IsFiniteSet((({"children_list"} \cup {"exited_list"}) \cup {"children_node"}) \cup {"exited_node"})
    BY <2>3, FS_AddElement
  <2>5. ((({"children_list"} \cup {"exited_list"}) \cup {"children_node"}) \cup {"exited_node"})
        = {"children_list", "exited_list", "children_node", "exited_node"}
    OBVIOUS
  <2> QED BY <2>4, <2>5
<1>3. IsFiniteSet(Nodes)
  BY <1>1, <1>2, FS_Product DEF Nodes
<1> QED BY <1>3, FS_CardinalityType

LEMMA RoundsWithin ==
    ASSUME NEW f \in [Nodes -> Nodes], NEW a \in Nodes, NEW h, Kept(f, h),
           NEW R, R = Rounds(f, a, R), NEW n \in Nat
    PROVE  a \in R[n] /\ R[n] \subseteq {x \in Nodes : h[x] = h[a]}
<1> DEFINE Ring == {x \in Nodes : h[x] = h[a]}
           Bad  == {k \in Nat : ~(a \in R[k] /\ R[k] \subseteq Ring)}
<1>0. /\ R[0] = {a}
      /\ \A k \in Nat : k # 0 => R[k] = R[k - 1] \cup {f[x] : x \in R[k - 1]}
  BY DEF Rounds
<1>1. SUFFICES ASSUME Bad # {} PROVE FALSE
  OBVIOUS
<1>2. Bad \subseteq Nat
  OBVIOUS
<1> DEFINE m == Min(Bad)
<1>3. m \in Bad /\ \A k \in Bad : m <= k
  BY <1>1, <1>2, MinIn
<1> HIDE DEF m
<1>4. m \in Nat /\ m # 0
  <2>1. 0 \notin Bad
    BY <1>0
  <2> QED BY <1>3, <2>1
<1>5. m - 1 \in Nat /\ m - 1 \notin Bad
  <2>1. m - 1 \in Nat /\ ~(m <= m - 1)
    BY <1>4
  <2> QED BY <2>1, <1>3
<1>6. a \in R[m - 1] /\ R[m - 1] \subseteq Ring
  BY <1>5
<1>7. a \in R[m] /\ R[m] \subseteq Ring
  BY <1>0, <1>4, <1>6 DEF Kept
<1> QED BY <1>3, <1>7

LEMMA RoundsGrow ==
    ASSUME NEW f \in [Nodes -> Nodes], NEW a \in Nodes,
           NEW R, R = Rounds(f, a, R), \A k \in Nat : R[k] \subseteq Nodes, NEW n \in Nat
    PROVE  Closed(f, R[n]) \/ Cardinality(R[n]) > n
<1> DEFINE Bad == {k \in Nat : ~(Closed(f, R[k]) \/ Cardinality(R[k]) > k)}
<1>0. /\ R[0] = {a}
      /\ \A k \in Nat : k # 0 => R[k] = R[k - 1] \cup {f[x] : x \in R[k - 1]}
  BY DEF Rounds
<1>1. SUFFICES ASSUME Bad # {} PROVE FALSE
  OBVIOUS
<1>2. Bad \subseteq Nat
  OBVIOUS
<1> DEFINE m == Min(Bad)
<1>3. m \in Bad /\ \A k \in Bad : m <= k
  BY <1>1, <1>2, MinIn
<1> HIDE DEF m
<1>4. m \in Nat /\ m # 0
  <2>1. Cardinality(R[0]) = 1
    BY <1>0, FS_Singleton
  <2>2. 0 \notin Bad
    BY <2>1
  <2> QED BY <1>3, <2>2
<1>5. m - 1 \in Nat /\ m - 1 \notin Bad
  <2>1. m - 1 \in Nat /\ ~(m <= m - 1)
    BY <1>4
  <2> QED BY <2>1, <1>3
<1>6. R[m] = R[m - 1] \cup {f[x] : x \in R[m - 1]}
  BY <1>0, <1>4
<1>7. ~Closed(f, R[m]) /\ ~(Cardinality(R[m]) > m)
  BY <1>3
<1>8. ~Closed(f, R[m - 1])
  <2>1. SUFFICES ASSUME Closed(f, R[m - 1]) PROVE FALSE
    OBVIOUS
  <2>2. R[m] = R[m - 1]
    BY <2>1, <1>6 DEF Closed
  <2> QED BY <2>1, <2>2, <1>7
<1>9. Cardinality(R[m - 1]) > m - 1
  BY <1>5, <1>8
<1>10. R[m] \in SUBSET Nodes /\ R[m - 1] \in SUBSET R[m] /\ R[m - 1] # R[m]
  BY <1>4, <1>6, <1>8 DEF Closed
<1>11. IsFiniteSet(R[m]) /\ IsFiniteSet(R[m - 1])
  BY <1>10, NodesFinite, FS_Subset
<1>12. /\ Cardinality(R[m - 1]) <= Cardinality(R[m])
       /\ Cardinality(R[m]) # Cardinality(R[m - 1])
  BY <1>10, <1>11, FS_Subset
<1>13. Cardinality(R[m]) \in Nat /\ Cardinality(R[m - 1]) \in Nat
  BY <1>11, FS_CardinalityType
<1> QED BY <1>4, <1>7, <1>9, <1>12, <1>13

(***************************************************************************)
(* The ring that RingOf walks is made of the nodes with the same home.     *)
(***************************************************************************)
LEMMA RingIs ==
    ASSUME NEW f \in [Nodes -> Nodes], NEW a \in Nodes, NEW h, Kept(f, h), OneRing(f, h)
    PROVE  RingOf(f, a) = {x \in Nodes : h[x] = h[a]}
<1>1. PICK R : R = Rounds(f, a, R) /\ RingOf(f, a) = R[Cardinality(Nodes)]
  BY RingRounds
<1> DEFINE N == Cardinality(Nodes)
<1>2. N \in Nat
  BY NodesFinite
<1>3. \A k \in Nat : a \in R[k] /\ R[k] \subseteq {x \in Nodes : h[x] = h[a]}
  BY <1>1, RoundsWithin
<1>4. Closed(f, R[N])
  <2>1. Closed(f, R[N]) \/ Cardinality(R[N]) > N
    BY <1>1, <1>2, <1>3, RoundsGrow
  <2>2. R[N] \in SUBSET Nodes
    BY <1>2, <1>3
  <2>3. Cardinality(R[N]) <= N /\ Cardinality(R[N]) \in Nat
    BY <2>2, NodesFinite, FS_Subset, FS_CardinalityType
  <2> QED BY <1>2, <2>1, <2>3
<1>5. ASSUME NEW x \in Nodes, h[x] = h[a] PROVE x \in R[N]
  BY <1>2, <1>3, <1>4, <1>5 DEF OneRing
<1> QED BY <1>1, <1>2, <1>3, <1>5

-----------------------------------------------------------------------------
(***************************************************************************)
(* The homes of the nodes of a PCB.                                        *)
(***************************************************************************)
LEMMA NodesApart ==
    ASSUME NEW p, NEW q
    PROVE  /\ children_list(p) # exited_list(q) /\ children_list(p) # children_node(q)
           /\ children_list(p) # exited_node(q) /\ exited_list(p) # children_node(q)
           /\ exited_list(p) # exited_node(q) /\ children_node(p) # exited_node(q)
           /\ children_list(p) = children_list(q) => p = q
           /\ exited_list(p) = exited_list(q) => p = q
           /\ children_node(p) = children_node(q) => p = q
           /\ exited_node(p) = exited_node(q) => p = q
BY DEF children_list, exited_list, children_node, exited_node

LEMMA NodeKinds ==
    ASSUME NEW n \in Nodes
    PROVE  \E p \in Pids : \/ n = children_list(p) \/ n = exited_list(p)
                           \/ n = children_node(p) \/ n = exited_node(p)
BY DEF Nodes, children_list, exited_list, children_node, exited_node

LEMMA HomeIs ==
    ASSUME NEW pt \in [Pids -> PCB]
    PROVE  /\ Home(pt) \in [Nodes -> Nodes]
           /\ \A p \in Pids :
                /\ Home(pt)[children_list(p)] = children_list(p)
                /\ Home(pt)[exited_list(p)] = exited_list(p)
                /\ Home(pt)[children_node(p)] =
                        IF pt[p].pstate = "ALIVE" /\ pt[p].parent # NULL
                        THEN children_list(pt[p].parent) ELSE children_node(p)
                /\ Home(pt)[exited_node(p)] =
                        IF pt[p].pstate = "ZOMBIE" /\ pt[p].parent # NULL
                        THEN exited_list(pt[p].parent) ELSE exited_node(p)
<1>1. ASSUME NEW p \in Pids
      PROVE  /\ Home(pt)[children_list(p)] = children_list(p)
             /\ Home(pt)[exited_list(p)] = exited_list(p)
             /\ Home(pt)[children_node(p)] =
                     IF pt[p].pstate = "ALIVE" /\ pt[p].parent # NULL
                     THEN children_list(pt[p].parent) ELSE children_node(p)
             /\ Home(pt)[exited_node(p)] =
                     IF pt[p].pstate = "ZOMBIE" /\ pt[p].parent # NULL
                     THEN exited_list(pt[p].parent) ELSE exited_node(p)
  <2>1. /\ children_list(p)[1] = "children_list" /\ exited_list(p)[1] = "exited_list"
        /\ children_node(p)[1] = "children_node" /\ children_node(p)[2] = p
        /\ exited_node(p)[1] = "exited_node" /\ exited_node(p)[2] = p
    BY DEF children_list, exited_list, children_node, exited_node
  <2> QED BY <2>1, NodeTypes DEF Home
<1>2. ASSUME NEW n \in Nodes PROVE Home(pt)[n] \in Nodes
  <2>1. \A p \in Pids : pt[p].parent # NULL => pt[p].parent \in Pids
    BY DEF PCB
  <2>2. PICK p \in Pids : \/ n = children_list(p) \/ n = exited_list(p)
                          \/ n = children_node(p) \/ n = exited_node(p)
    BY NodeKinds
  <2>3. CASE n = children_list(p) \/ n = exited_list(p)
    BY <2>3, <1>1, NodeTypes
  <2>4. CASE n = children_node(p)
    BY <2>4, <2>1, <1>1, NodeTypes
  <2>5. CASE n = exited_node(p)
    BY <2>5, <2>1, <1>1, NodeTypes
  <2> QED BY <2>2, <2>3, <2>4, <2>5
<1>3. Home(pt) = [n \in Nodes |-> Home(pt)[n]]
  BY DEF Home
<1> QED BY <1>1, <1>2, <1>3

\* A node is nobody else's home, so that RemoveRing and InsertRing apply.
LEMMA NodeNoHome ==
    ASSUME NEW pt \in [Pids -> PCB], NEW c \in Pids, NEW n \in Nodes
    PROVE  /\ n # children_node(c) => Home(pt)[n] # children_node(c)
           /\ n # exited_node(c) => Home(pt)[n] # exited_node(c)
BY HomeIs, NodeKinds, NodesApart

LEMMA HomeEq ==
    ASSUME NEW h \in [Nodes -> Nodes], NEW k \in [Nodes -> Nodes],
           \A p \in Pids : /\ h[children_list(p)] = k[children_list(p)]
                           /\ h[exited_list(p)] = k[exited_list(p)]
                           /\ h[children_node(p)] = k[children_node(p)]
                           /\ h[exited_node(p)] = k[exited_node(p)]
    PROVE  h = k
<1>1. \A n \in Nodes : h[n] = k[n]
  BY NodeKinds
<1> QED BY <1>1

(***************************************************************************)
(* A child that is taken back leaves its rings.                            *)
(***************************************************************************)
LEMMA ReapRings ==
    ASSUME PT \in [Pids -> PCB], PT' \in [Pids -> PCB], next \in [Nodes -> Nodes], Perm(next),
           Kept(next, Home(PT)), OneRing(next, Home(PT)),
           NEW c \in Pids, PT'[c].pstate = "FREE", \A p \in Pids : p # c => PT'[p] = PT[p],
           next' = Remove(Remove(next, children_node(c)), exited_node(c))
    PROVE  Kept(next', Home(PT')) /\ OneRing(next', Home(PT'))
<1> DEFINE a == children_node(c)
           b == exited_node(c)
           h == Home(PT)
           i == [h EXCEPT ![a] = a]
           k == [i EXCEPT ![b] = b]
           f == Remove(next, a)
<1>1. a \in Nodes /\ b \in Nodes /\ h \in [Nodes -> Nodes]
  BY NodeTypes, HomeIs
<1>2. i \in [Nodes -> Nodes] /\ k \in [Nodes -> Nodes]
  BY <1>1
<1>3. f \in [Nodes -> Nodes] /\ Perm(f)
  BY <1>1, RemoveKeeps
<1>4. /\ \A n \in Nodes : n # a => h[n] # a
      /\ \A n \in Nodes : n # b => i[n] # b
  BY <1>1, NodeNoHome, NodesApart
<1>5. k = Home(PT')
  <2>1. Home(PT') \in [Nodes -> Nodes]
    BY HomeIs
  <2>2. ASSUME NEW p \in Pids
        PROVE  /\ k[children_list(p)] = Home(PT')[children_list(p)]
               /\ k[exited_list(p)] = Home(PT')[exited_list(p)]
               /\ k[children_node(p)] = Home(PT')[children_node(p)]
               /\ k[exited_node(p)] = Home(PT')[exited_node(p)]
    <3>1. k[children_list(p)] = h[children_list(p)] /\ k[exited_list(p)] = h[exited_list(p)]
      BY <1>1, NodeTypes, NodesApart
    <3>2. /\ k[children_node(p)] = IF p = c THEN children_node(p) ELSE h[children_node(p)]
          /\ k[exited_node(p)] = IF p = c THEN exited_node(p) ELSE h[exited_node(p)]
      BY <1>1, NodeTypes, NodesApart
    <3> HIDE DEF k
    <3>3. /\ Home(PT')[children_list(p)] = children_list(p) /\ h[children_list(p)] = children_list(p)
          /\ Home(PT')[exited_list(p)] = exited_list(p) /\ h[exited_list(p)] = exited_list(p)
      BY HomeIs
    <3>4. p # c => /\ Home(PT')[children_node(p)] = h[children_node(p)]
                   /\ Home(PT')[exited_node(p)] = h[exited_node(p)]
      BY HomeIs
    <3>5. p = c => /\ Home(PT')[children_node(p)] = children_node(p)
                   /\ Home(PT')[exited_node(p)] = exited_node(p)
      BY HomeIs
    <3> QED BY <3>1, <3>2, <3>3, <3>4, <3>5
  <2> HIDE DEF k
  <2> QED BY <1>2, <2>1, <2>2, HomeEq
<1> HIDE DEF h
<1>6. Kept(f, i) /\ OneRing(f, i)
  BY <1>1, <1>4, RemoveRing DEF h
<1>7. Kept(Remove(f, b), k) /\ OneRing(Remove(f, b), k)
  <2> HIDE DEF f, i, a, b
  <2> QED BY <1>1, <1>2, <1>3, <1>4, <1>6, RemoveRing
<1> QED BY <1>5, <1>7

(***************************************************************************)
(* sys_Exec puts the new process into the children of its parent.          *)
(***************************************************************************)
LEMMA ExecRings ==
    ASSUME PT \in [Pids -> PCB], PT' \in [Pids -> PCB], next \in [Nodes -> Nodes], Perm(next),
           Kept(next, Home(PT)), OneRing(next, Home(PT)),
           NEW p \in Pids, NEW q \in Pids, PT[p].pstate = "FREE",
           PT'[p].pstate = "ALIVE", PT'[p].parent = q, \A r \in Pids \ {p} : PT'[r] = PT[r],
           next' = PushFront(next, children_list(q), children_node(p))
    PROVE  Kept(next', Home(PT')) /\ OneRing(next', Home(PT'))
<1> DEFINE a == children_node(p)
           b == children_list(q)
           h == Home(PT)
           k == [h EXCEPT ![a] = h[b]]
<1>1. a \in Nodes /\ b \in Nodes /\ h \in [Nodes -> Nodes] /\ h[b] = b /\ h[a] = a /\ a # b
  BY NodeTypes, NodesApart, HomeIs
<1>2. \A n \in Nodes : h[n] = a <=> n = a
  BY <1>1, NodeNoHome
<1>3. k = Home(PT')
  <2>1. Home(PT') \in [Nodes -> Nodes] /\ k \in [Nodes -> Nodes]
    BY <1>1, HomeIs
  <2>2. ASSUME NEW r \in Pids
        PROVE  /\ k[children_list(r)] = Home(PT')[children_list(r)]
               /\ k[exited_list(r)] = Home(PT')[exited_list(r)]
               /\ k[children_node(r)] = Home(PT')[children_node(r)]
               /\ k[exited_node(r)] = Home(PT')[exited_node(r)]
    <3>1. /\ k[children_list(r)] = h[children_list(r)] /\ k[exited_list(r)] = h[exited_list(r)]
          /\ k[exited_node(r)] = h[exited_node(r)]
      BY <1>1, NodeTypes, NodesApart
    <3>2. k[children_node(r)] = IF r = p THEN children_list(q) ELSE h[children_node(r)]
      BY <1>1, NodeTypes, NodesApart
    <3> HIDE DEF k
    <3>3. /\ Home(PT')[children_list(r)] = children_list(r) /\ h[children_list(r)] = children_list(r)
          /\ Home(PT')[exited_list(r)] = exited_list(r) /\ h[exited_list(r)] = exited_list(r)
      BY HomeIs
    <3>4. r # p => /\ Home(PT')[children_node(r)] = h[children_node(r)]
                   /\ Home(PT')[exited_node(r)] = h[exited_node(r)]
      BY HomeIs
    <3>5. r = p => /\ Home(PT')[children_node(r)] = children_list(q)
                   /\ Home(PT')[exited_node(r)] = exited_node(r)
                   /\ h[exited_node(r)] = exited_node(r)
      BY HomeIs, NullApart
    <3> QED BY <3>1, <3>2, <3>3, <3>4, <3>5
  <2> HIDE DEF k
  <2> QED BY <2>1, <2>2, HomeEq
<1>4. /\ next' \in [Nodes -> Nodes] /\ next'[a] = next[b] /\ next'[b] = next[a]
      /\ \A n \in Nodes : n # a /\ n # b => next'[n] = next[n]
  <2>1. next' = Splice(next, b, a)
    BY DEF PushFront
  <2> HIDE DEF a, b
  <2> QED BY <2>1, <1>1, SpliceKeeps
<1>5. Kept(next', k) /\ OneRing(next', k)
  <2>1. Kept(next, h) /\ OneRing(next, h)
    OBVIOUS
  <2> HIDE DEF a, b, h
  <2> QED BY <2>1, <1>1, <1>2, <1>4, InsertRing
<1> QED BY <1>3, <1>5

(***************************************************************************)
(* sys_Exit takes a process from the children of its parent to those that  *)
(* have exited.                                                            *)
(***************************************************************************)
LEMMA ExitRings ==
    ASSUME PT \in [Pids -> PCB], PT' \in [Pids -> PCB], next \in [Nodes -> Nodes], Perm(next),
           Kept(next, Home(PT)), OneRing(next, Home(PT)),
           NEW p \in Pids, NEW q \in Pids, PT[p].pstate = "ALIVE", PT[p].parent = q,
           \A r \in Pids : /\ PT'[r].parent = PT[r].parent
                           /\ PT'[r].pstate = IF r = p THEN "ZOMBIE" ELSE PT[r].pstate,
           next' = PushBack(Remove(next, children_node(p)), exited_list(q), exited_node(p))
    PROVE  Kept(next', Home(PT')) /\ OneRing(next', Home(PT'))
<1> DEFINE c == children_node(p)
           a == exited_node(p)
           l == exited_list(q)
           h == Home(PT)
           i == [h EXCEPT ![c] = c]
           f == Remove(next, c)
           b == Before(f, l)
           k == [i EXCEPT ![a] = i[b]]
<1>1. /\ c \in Nodes /\ a \in Nodes /\ l \in Nodes /\ h \in [Nodes -> Nodes]
      /\ a # c /\ a # l /\ l # c /\ h[a] = a /\ h[l] = l
  BY NodeTypes, NodesApart, HomeIs
<1>2. i \in [Nodes -> Nodes] /\ i[a] = a /\ i[l] = l
  BY <1>1
<1>3. f \in [Nodes -> Nodes] /\ Perm(f)
  BY <1>1, RemoveKeeps
<1>4. /\ \A n \in Nodes : n # c => h[n] # c
      /\ \A n \in Nodes : i[n] = a <=> n = a
  BY <1>1, NodeNoHome
<1>5. Kept(f, i) /\ OneRing(f, i)
  <2>1. Kept(next, h) /\ OneRing(next, h)
    OBVIOUS
  <2> HIDE DEF c, h
  <2> QED BY <2>1, <1>1, <1>4, RemoveRing
<1>6. b \in Nodes /\ f[b] = l
  <2> HIDE DEF f, l
  <2> QED BY <1>1, <1>3, BeforeIs
<1>7. i[b] = l /\ b # a
  <2> HIDE DEF f, i, b, a, l
  <2>1. i[b] = i[l]
    BY <1>5, <1>6 DEF Kept
  <2> QED BY <2>1, <1>1, <1>2
<1>8. k = Home(PT')
  <2>1. Home(PT') \in [Nodes -> Nodes] /\ k \in [Nodes -> Nodes]
    BY <1>1, <1>2, <1>7, HomeIs
  <2>2. ASSUME NEW r \in Pids
        PROVE  /\ k[children_list(r)] = Home(PT')[children_list(r)]
               /\ k[exited_list(r)] = Home(PT')[exited_list(r)]
               /\ k[children_node(r)] = Home(PT')[children_node(r)]
               /\ k[exited_node(r)] = Home(PT')[exited_node(r)]
    <3> HIDE DEF b
    <3>1. k[children_list(r)] = h[children_list(r)] /\ k[exited_list(r)] = h[exited_list(r)]
      BY <1>1, NodeTypes, NodesApart
    <3>2. /\ k[children_node(r)] = IF r = p THEN children_node(r) ELSE h[children_node(r)]
          /\ k[exited_node(r)] = IF r = p THEN exited_list(q) ELSE h[exited_node(r)]
      BY <1>1, <1>7, NodeTypes, NodesApart
    <3> HIDE DEF k
    <3>3. /\ Home(PT')[children_list(r)] = children_list(r) /\ h[children_list(r)] = children_list(r)
          /\ Home(PT')[exited_list(r)] = exited_list(r) /\ h[exited_list(r)] = exited_list(r)
      BY HomeIs
    <3>4. r # p => /\ Home(PT')[children_node(r)] = h[children_node(r)]
                   /\ Home(PT')[exited_node(r)] = h[exited_node(r)]
      BY HomeIs
    <3>5. r = p => /\ Home(PT')[children_node(r)] = children_node(r)
                   /\ Home(PT')[exited_node(r)] = exited_list(q)
      BY HomeIs, NullApart
    <3> QED BY <3>1, <3>2, <3>3, <3>4, <3>5
  <2> HIDE DEF k
  <2> QED BY <2>1, <2>2, HomeEq
<1>9. /\ next' \in [Nodes -> Nodes] /\ next'[a] = f[b] /\ next'[b] = f[a]
      /\ \A n \in Nodes : n # a /\ n # b => next'[n] = f[n]
  <2>1. next' = Splice(f, b, a)
    BY DEF PushBack
  <2>2. f \in [Nodes -> Nodes] /\ a \in Nodes /\ b \in Nodes /\ b # a
    BY <1>1, <1>3, <1>6, <1>7
  <2> HIDE DEF a, b, f, c, l, h, i, k
  <2>3. /\ Splice(f, b, a) \in [Nodes -> Nodes]
        /\ Splice(f, b, a)[b] = f[a] /\ Splice(f, b, a)[a] = f[b]
        /\ \A n \in Nodes : n # b /\ n # a => Splice(f, b, a)[n] = f[n]
    BY <2>2 DEF Splice
  <2> QED BY <2>1, <2>3
<1>10. Kept(next', k) /\ OneRing(next', k)
  <2> HIDE DEF a, b, f, i, c, h, l
  <2>1. a \in Nodes /\ b \in Nodes /\ a # b /\ \A n \in Nodes : i[n] = a <=> n = a
    BY <1>1, <1>4, <1>6, <1>7
  <2>2. i \in [Nodes -> Nodes]
    BY <1>2
  <2> DEFINE g == next'
  <2>3. /\ g \in [Nodes -> Nodes] /\ g[a] = f[b] /\ g[b] = f[a]
        /\ \A n \in Nodes : n # a /\ n # b => g[n] = f[n]
    BY <1>9
  <2>4. f \in [Nodes -> Nodes] /\ Perm(f) /\ Kept(f, i) /\ OneRing(f, i)
    BY <1>3, <1>5
  <2> HIDE DEF g
  <2>5. Kept(g, [i EXCEPT ![a] = i[b]]) /\ OneRing(g, [i EXCEPT ![a] = i[b]])
    BY <2>1, <2>2, <2>3, <2>4, InsertRing
  <2> QED BY <2>5 DEF g
<1> QED BY <1>8, <1>10

-----------------------------------------------------------------------------
(***************************************************************************)
(* What the lists say of the children of a process.                        *)
(***************************************************************************)
LEMMA FirstIsChild ==
    ASSUME PT \in [Pids -> PCB], next \in [Nodes -> Nodes], Kept(next, Home(PT)),
           NEW p \in Pids, ~IsEmpty(next, exited_list(p))
    PROVE  /\ FirstExited(p) \in Pids /\ FirstExited(p) \in Children(p)
           /\ PT[FirstExited(p)].pstate = "ZOMBIE"
<1> DEFINE l == exited_list(p)
           n == next[l]
<1>1. l \in Nodes /\ n \in Nodes /\ n # l
  BY NodeTypes DEF IsEmpty
<1>2. Home(PT)[n] = l
  BY <1>1, HomeIs DEF Kept
<1>3. PICK c \in Pids : \/ n = children_list(c) \/ n = exited_list(c)
                        \/ n = children_node(c) \/ n = exited_node(c)
  BY <1>1, NodeKinds
<1>4. \A q \in Pids : PT[q].parent # NULL => PT[q].parent \in Pids
  BY DEF PCB
<1>5. n = exited_node(c) /\ PT[c].pstate = "ZOMBIE" /\ PT[c].parent = p
  BY <1>1, <1>2, <1>3, <1>4, HomeIs, NodesApart
<1>6. FirstExited(p) = c
  BY <1>5 DEF FirstExited, exited_node
<1> QED BY <1>5, <1>6 DEF Children

LEMMA HasChild ==
    ASSUME PT \in [Pids -> PCB], next \in [Nodes -> Nodes], Kept(next, Home(PT)),
           NEW p \in Pids, ~IsEmpty(next, children_list(p))
    PROVE  Children(p) # {}
<1> DEFINE l == children_list(p)
           n == next[l]
<1>1. l \in Nodes /\ n \in Nodes /\ n # l
  BY NodeTypes DEF IsEmpty
<1>2. Home(PT)[n] = l
  BY <1>1, HomeIs DEF Kept
<1>3. PICK c \in Pids : \/ n = children_list(c) \/ n = exited_list(c)
                        \/ n = children_node(c) \/ n = exited_node(c)
  BY <1>1, NodeKinds
<1>4. \A q \in Pids : PT[q].parent # NULL => PT[q].parent \in Pids
  BY DEF PCB
<1>5. PT[c].pstate = "ALIVE" /\ PT[c].parent = p
  BY <1>1, <1>2, <1>3, <1>4, HomeIs, NodesApart
<1> QED BY <1>5 DEF Children

-----------------------------------------------------------------------------
(***************************************************************************)
(* The steps of programs of one thread.                                    *)
(***************************************************************************)
LEMMA FamilyParts ==
    ASSUME FamilyInv
    PROVE  /\ PT \in [Pids -> PCB] /\ next \in [Nodes -> Nodes] /\ Perm(next)
           /\ thread_pool \in [Threads -> TCB] /\ ThreadOK /\ TypeOK
           /\ \A t \in Threads : thread_pool[t].pc # "free" => CURPROC(t) \in Pids
BY DEF FamilyInv, ThreadInv, TypeOK, ThreadOK, CURPROC

\* Every process that could be made has a thread left for it.
LEMMA ExecHasThread ==
    ASSUME FamilyInv, MAX_PROC <= MAX_THREADS + 1, FreePids # {}
    PROVE  FreeThreads # {}
<1> SUFFICES ASSUME FreeThreads = {} PROVE FALSE
  OBVIOUS
<1>1. PICK p \in Pids : PT[p].pstate = "FREE"
  BY DEF FreePids
<1> DEFINE Others == (Pids \ {0}) \ {p}
           owner == [t \in Threads |-> CURPROC(t)]
<1>2. ASSUME NEW t \in Threads PROVE thread_pool[t].pc # "free" /\ CURPROC(t) \in Others
  <2>1. thread_pool[t].pc # "free"
    BY DEF FreeThreads
  <2>2. CURPROC(t) \in Pids
    BY <2>1, FamilyParts
  <2>3. PT[CURPROC(t)].pstate = "ALIVE" /\ CURPROC(t) # 0
    BY <2>1 DEF FamilyInv, Single
  <2> QED BY <1>1, <2>1, <2>2, <2>3
<1>3. owner \in [Threads -> Others]
  BY <1>2
<1>4. 0 \in Pids /\ p # 0
  BY <1>1, ProcAssumption DEF FamilyInv, Boot, Pids
<1>5. IsFiniteSet(Threads) /\ Cardinality(Threads) = MAX_THREADS
  <2>1. 0 \in Int /\ MAX_THREADS - 1 \in Int /\ ~(0 > MAX_THREADS - 1) /\ MAX_THREADS - 1 - 0 + 1 = MAX_THREADS
    BY ProcAssumption
  <2> QED BY <2>1, FS_Interval DEF Threads
<1>6. IsFiniteSet(Pids) /\ Cardinality(Pids) = MAX_PROC
  <2>1. 0 \in Int /\ MAX_PROC - 1 \in Int /\ ~(0 > MAX_PROC - 1) /\ MAX_PROC - 1 - 0 + 1 = MAX_PROC
    BY ProcAssumption
  <2> QED BY <2>1, FS_Interval DEF Pids
<1>7. IsFiniteSet(Pids \ {0}) /\ Cardinality(Pids \ {0}) = MAX_PROC - 1
  BY <1>4, <1>6, FS_RemoveElement
<1>8. IsFiniteSet(Others) /\ Cardinality(Others) = MAX_PROC - 1 - 1
  BY <1>4, <1>7, FS_RemoveElement
<1>9. Cardinality(Others) < Cardinality(Threads)
  BY <1>5, <1>8, ProcAssumption
<1> HIDE DEF Others, owner
<1>10. PICK t \in Threads, u \in Threads : t # u /\ owner[t] = owner[u]
  BY <1>3, <1>5, <1>8, <1>9, FS_PigeonHole
<1>11. CURPROC(t) = CURPROC(u) /\ thread_pool[t].pc # "free"
  BY <1>10, <1>2 DEF owner
<1> QED BY <1>10, <1>11 DEF FamilyInv, Single

(***************************************************************************)
(* A thread goes on, or to sleep where something can end its sleep.        *)
(***************************************************************************)
LEMMA FamilyMove ==
    ASSUME FamilyInv, ThreadInv', UNCHANGED <<PT, next, Calls>>, NEW t \in Threads,
           thread_pool[t].pc # "free",
           thread_pool'[t].pc \in {"user", "wait_child", "wait_any"},
           thread_pool'[t].owner = thread_pool[t].owner,
           thread_pool'[t].func = thread_pool[t].func,
           thread_pool'[t].pc = "wait_child" => thread_pool'[t].target \in Children(CURPROC(t)),
           thread_pool'[t].pc = "wait_any" => Children(CURPROC(t)) # {},
           \A u \in Threads : u # t => thread_pool'[u] = thread_pool[u]
    PROVE  FamilyInv'
<1>1. \A u \in Threads : CURPROC(u)' = CURPROC(u)
  BY DEF CURPROC
<1>2. \A p : Children(p)' = Children(p)
  BY DEF Children
<1>3. \A u \in Threads : thread_pool'[u].pc # "free" => thread_pool[u].pc # "free"
  OBVIOUS
<1>4. Single'
  <2>1. ASSUME NEW u \in Threads, thread_pool'[u].pc # "free"
        PROVE  /\ thread_pool'[u].pc \in {"start", "user", "wait_child", "wait_any"}
               /\ thread_pool'[u].func = "main"
               /\ PT'[CURPROC(u)'].pstate = "ALIVE" /\ CURPROC(u)' # 0
    BY <2>1, <1>1, <1>3 DEF FamilyInv, Single
  <2>2. ASSUME NEW v \in Threads, NEW u \in Threads, v # u, thread_pool'[v].pc # "free"
        PROVE  CURPROC(v)' # CURPROC(u)'
    BY <2>2, <1>1, <1>3 DEF FamilyInv, Single
  <2> QED BY <2>1, <2>2 DEF Single
<1>5. WaitTargetValid'
  BY <1>1, <1>2 DEF FamilyInv, WaitTargetValid
<1>6. WaitsForSomeone'
  BY <1>1, <1>2 DEF FamilyInv, WaitsForSomeone
<1>7. Boot' /\ Calls' \subseteq FamilyCalls
  BY DEF FamilyInv, Boot
<1>8. Kept(next, Home(PT))' /\ OneRing(next, Home(PT))'
  <2>1. Kept(next', Home(PT')) /\ OneRing(next', Home(PT'))
    BY DEF FamilyInv
  <2> QED BY <2>1 DEF Kept, OneRing, Closed, Home
<1> QED BY <1>4, <1>5, <1>6, <1>7, <1>8 DEF FamilyInv

(***************************************************************************)
(* A thread takes back a child of its process: no other process waits for  *)
(* that child, and its process has no other thread.                        *)
(***************************************************************************)
LEMMA FamilyReap ==
    ASSUME FamilyInv, ThreadInv', Calls' = Calls, NEW t \in Threads,
           thread_pool[t].pc # "free", NEW c \in Pids, cleanup_zombie(c),
           c \in Children(CURPROC(t)), PT[c].pstate = "ZOMBIE",
           thread_pool'[t].pc = "user", thread_pool'[t].owner = thread_pool[t].owner,
           thread_pool'[t].func = thread_pool[t].func,
           \A u \in Threads : u # t => thread_pool'[u] = thread_pool[u]
    PROVE  FamilyInv'
<1>0. TableInv
  BY DEF FamilyInv, ThreadInv, TableInv, TypeOK
<1>1. /\ PT' \in [Pids -> PCB] /\ PT'[c].pstate = "FREE"
      /\ \A p \in Pids : p # c => PT'[p] = PT[p]
  BY <1>0, CleanupTable DEF TableInv
<1>2. PT[c].parent = CURPROC(t) /\ CURPROC(t) \in Pids
  BY FamilyParts DEF Children
<1>3. \A u \in Threads : CURPROC(u)' = CURPROC(u)
  BY DEF CURPROC
<1>4. \A p : Children(p)' = Children(p) \ {c}
  BY <1>1 DEF Children
<1>5. ASSUME NEW u \in Threads, u # t, thread_pool[u].pc # "free"
      PROVE  c \notin Children(CURPROC(u))
  <2>1. CURPROC(u) # CURPROC(t)
    BY <1>5 DEF FamilyInv, Single
  <2> QED BY <2>1, <1>2 DEF Children
<1>6. \A u \in Threads : thread_pool'[u].pc # "free" => thread_pool[u].pc # "free"
  OBVIOUS
<1>7. Single'
  <2>1. ASSUME NEW u \in Threads, thread_pool'[u].pc # "free"
        PROVE  /\ thread_pool'[u].pc \in {"start", "user", "wait_child", "wait_any"}
               /\ thread_pool'[u].func = "main"
               /\ PT'[CURPROC(u)'].pstate = "ALIVE" /\ CURPROC(u)' # 0
    <3>1. PT[CURPROC(u)].pstate = "ALIVE" /\ CURPROC(u) # 0 /\ CURPROC(u) \in Pids
      BY <2>1, <1>6, FamilyParts DEF FamilyInv, Single
    <3>2. PT'[CURPROC(u)] = PT[CURPROC(u)]
      BY <3>1, <1>1
    <3> QED BY <2>1, <3>1, <3>2, <1>3, <1>6 DEF FamilyInv, Single
  <2>2. ASSUME NEW v \in Threads, NEW u \in Threads, v # u, thread_pool'[v].pc # "free"
        PROVE  CURPROC(v)' # CURPROC(u)'
    BY <2>2, <1>3, <1>6 DEF FamilyInv, Single
  <2> QED BY <2>1, <2>2 DEF Single
<1>8. WaitTargetValid'
  BY <1>3, <1>4, <1>5 DEF FamilyInv, WaitTargetValid
<1>9. WaitsForSomeone'
  <2> SUFFICES ASSUME NEW u \in Threads, thread_pool'[u].pc = "wait_any"
               PROVE  Children(CURPROC(u))' # {}
    BY DEF WaitsForSomeone
  <2>1. u # t /\ thread_pool[u].pc = "wait_any"
    OBVIOUS
  <2>2. Children(CURPROC(u)) # {} /\ c \notin Children(CURPROC(u))
    BY <2>1, <1>5 DEF FamilyInv, WaitsForSomeone
  <2>3. Children(CURPROC(u))' = Children(CURPROC(u)) \ {c}
    BY <1>1, <1>3 DEF Children
  <2> QED BY <2>2, <2>3
<1>10. Boot' /\ Calls' \subseteq FamilyCalls
  <2>1. 0 \in Pids /\ c # 0
    BY ProcAssumption DEF FamilyInv, Boot, Pids
  <2> QED BY <1>1, <2>1 DEF FamilyInv, Boot
<1>11. Kept(next', Home(PT')) /\ OneRing(next', Home(PT'))
  <2>1. next' = Remove(Remove(next, children_node(c)), exited_node(c))
    BY DEF cleanup_zombie
  <2>2. Kept(next, Home(PT)) /\ OneRing(next, Home(PT))
    BY DEF FamilyInv
  <2> QED BY <1>1, <2>1, <2>2, FamilyParts, ReapRings
<1>12. Kept(next, Home(PT))' /\ OneRing(next, Home(PT))'
  BY <1>11 DEF Kept, OneRing, Closed, Home
<1> QED BY <1>7, <1>8, <1>9, <1>10, <1>12 DEF FamilyInv

LEMMA FamilyExec ==
    ASSUME FamilyInv, ThreadInv', Calls' = Calls, NEW t \in Threads, NEW argl \in ArgLens,
           Exec(t, argl)
    PROVE  FamilyInv'
<1> DEFINE p == acquire_PCB
           q == CURPROC(t)
           n == NewPCB(t, p, argl)
           r == [n EXCEPT !.thread_count = @ + 1]
<1>0. TypeOK /\ PoolInv /\ ThreadInv
  BY DEF FamilyInv, ThreadInv, PoolInv
<1>1. /\ Runs(t) /\ FreePids # {} /\ FreeThreads # {} /\ PT' = [PT EXCEPT ![p] = r]
      /\ next' = Linked(t, p) /\ Spawn(p, "main")
  BY DEF Exec, CanExec
<1>2. /\ p \in Pids /\ PT[p].pstate = "FREE" /\ q \in Pids /\ n \in PCB
      /\ n.pstate = "ALIVE" /\ n.parent = IF p <= 1 THEN NULL ELSE q
  BY <1>0, <1>1, ExecSlot
<1>3. \E slot \in Threads :
        /\ thread_pool[slot] = NoThread
        /\ thread_pool'[slot].owner = p /\ thread_pool'[slot].pc = "start"
        /\ thread_pool'[slot].func = "main"
        /\ \A u \in Threads \ {slot} : thread_pool'[u] = thread_pool[u]
  BY <1>0, <1>1, <1>2, SpawnPools
<1>4. next' = IF p <= 1 THEN next ELSE PushFront(next, children_list(q), children_node(p))
  BY <1>1 DEF Linked
<1> HIDE DEF n, p, q
<1>5. r \in PCB /\ r.pstate = "ALIVE" /\ r.parent = IF p <= 1 THEN NULL ELSE q
  BY <1>2 DEF PCB
<1> HIDE DEF r
<1>6. /\ PT' \in [Pids -> PCB] /\ PT'[p] = r
      /\ \A x \in Pids \ {p} : PT'[x] = PT[x]
  BY <1>1, <1>2, <1>5, FamilyParts
<1>7. PICK slot \in Threads :
        /\ thread_pool[slot] = NoThread
        /\ thread_pool'[slot].owner = p /\ thread_pool'[slot].pc = "start"
        /\ thread_pool'[slot].func = "main"
        /\ \A u \in Threads \ {slot} : thread_pool'[u] = thread_pool[u]
  BY <1>3
<1>8. p # 0 /\ 0 \in Pids
  BY <1>2, ProcAssumption DEF FamilyInv, Boot, Pids
<1>9. /\ CURPROC(slot)' = p
      /\ \A u \in Threads : u # slot => CURPROC(u)' = CURPROC(u)
  BY <1>7 DEF CURPROC
<1>10. ASSUME NEW u \in Threads, u # slot, thread_pool[u].pc # "free"
       PROVE  CURPROC(u) \in Pids /\ CURPROC(u) # p /\ PT'[CURPROC(u)] = PT[CURPROC(u)]
  <2>1. CURPROC(u) \in Pids /\ PT[CURPROC(u)].pstate = "ALIVE"
    BY <1>10, FamilyParts DEF FamilyInv, Single
  <2> QED BY <2>1, <1>2, <1>6
<1>11. Single'
  <2>1. ASSUME NEW u \in Threads, thread_pool'[u].pc # "free"
        PROVE  /\ thread_pool'[u].pc \in {"start", "user", "wait_child", "wait_any"}
               /\ thread_pool'[u].func = "main"
               /\ PT'[CURPROC(u)'].pstate = "ALIVE" /\ CURPROC(u)' # 0
    <3>1. CASE u = slot
      BY <3>1, <1>5, <1>6, <1>7, <1>8, <1>9
    <3>2. CASE u # slot
      <4>1. thread_pool'[u] = thread_pool[u] /\ thread_pool[u].pc # "free"
        BY <3>2, <2>1, <1>7
      <4>2. CURPROC(u)' = CURPROC(u) /\ PT'[CURPROC(u)] = PT[CURPROC(u)]
        BY <3>2, <4>1, <1>9, <1>10
      <4> QED BY <4>1, <4>2 DEF FamilyInv, Single
    <3> QED BY <3>1, <3>2
  <2>2. ASSUME NEW v \in Threads, NEW u \in Threads, v # u, thread_pool'[v].pc # "free"
        PROVE  CURPROC(v)' # CURPROC(u)'
    <3>1. CASE v = slot
      <4>1. thread_pool[u].pc = "free" => CURPROC(u) = NULL
        BY FamilyParts DEF ThreadOK, CURPROC, NoThread
      <4> QED BY <3>1, <2>2, <4>1, <1>2, <1>9, <1>10, NullApart
    <3>2. CASE v # slot
      <4>1. thread_pool[v].pc # "free" /\ CURPROC(v)' = CURPROC(v)
        BY <3>2, <2>2, <1>7, <1>9
      <4>2. CASE u = slot
        BY <3>2, <4>1, <4>2, <1>9, <1>10
      <4>3. CASE u # slot
        BY <2>2, <4>1, <4>3, <1>9 DEF FamilyInv, Single
      <4> QED BY <4>2, <4>3
    <3> QED BY <3>1, <3>2
  <2> QED BY <2>1, <2>2 DEF Single
<1>12. ASSUME NEW x, NEW c \in Pids, c \in Children(x) PROVE c \in Children(x)'
  BY <1>12, <1>2, <1>6 DEF Children
<1>13. WaitTargetValid'
  <2> SUFFICES ASSUME NEW u \in Threads, thread_pool'[u].pc = "wait_child"
               PROVE  (thread_pool[u].target \in Children(CURPROC(u)))'
    BY DEF WaitTargetValid
  <2>1. u # slot /\ thread_pool'[u] = thread_pool[u] /\ CURPROC(u)' = CURPROC(u)
    BY <1>7, <1>9
  <2>2. thread_pool[u].target \in Children(CURPROC(u)) /\ thread_pool[u].target \in Pids
    BY <2>1 DEF FamilyInv, WaitTargetValid, Children
  <2>3. PT'[thread_pool[u].target] = PT[thread_pool[u].target]
    BY <2>2, <1>2, <1>6 DEF Children
  <2> QED BY <2>1, <2>2, <2>3 DEF Children
<1>14. WaitsForSomeone'
  <2> SUFFICES ASSUME NEW u \in Threads, thread_pool'[u].pc = "wait_any"
               PROVE  Children(CURPROC(u))' # {}
    BY DEF WaitsForSomeone
  <2>1. u # slot /\ thread_pool'[u] = thread_pool[u] /\ CURPROC(u)' = CURPROC(u)
    BY <1>7, <1>9
  <2>2. PICK c \in Pids : c \in Children(CURPROC(u))
    BY <2>1 DEF FamilyInv, WaitsForSomeone, Children
  <2>3. PT'[c] = PT[c]
    BY <2>2, <1>2, <1>6 DEF Children
  <2> QED BY <2>1, <2>2, <2>3 DEF Children
<1>15. Boot' /\ Calls' \subseteq FamilyCalls
  BY <1>6, <1>8 DEF FamilyInv, Boot
<1>16. Kept(next', Home(PT')) /\ OneRing(next', Home(PT'))
  <2>0. Kept(next, Home(PT)) /\ OneRing(next, Home(PT))
    BY DEF FamilyInv
  <2>1. CASE p <= 1
    <3>1. Home(PT') = Home(PT)
      <4>1. Home(PT) \in [Nodes -> Nodes] /\ Home(PT') \in [Nodes -> Nodes]
        BY <1>6, FamilyParts, HomeIs
      <4>2. ASSUME NEW x \in Pids
            PROVE  /\ Home(PT')[children_list(x)] = Home(PT)[children_list(x)]
                   /\ Home(PT')[exited_list(x)] = Home(PT)[exited_list(x)]
                   /\ Home(PT')[children_node(x)] = Home(PT)[children_node(x)]
                   /\ Home(PT')[exited_node(x)] = Home(PT)[exited_node(x)]
        <5>1. CASE x = p
          BY <5>1, <2>1, <1>2, <1>5, <1>6, FamilyParts, HomeIs
        <5>2. CASE x # p
          BY <5>2, <1>6, FamilyParts, HomeIs
        <5> QED BY <5>1, <5>2
      <4> QED BY <4>1, <4>2, HomeEq
    <3> QED BY <2>0, <2>1, <3>1, <1>4
  <2>2. CASE ~(p <= 1)
    <3>1. /\ next' = PushFront(next, children_list(q), children_node(p))
          /\ PT'[p].pstate = "ALIVE" /\ PT'[p].parent = q
      BY <2>2, <1>4, <1>5, <1>6
    <3> QED BY <2>0, <3>1, <1>2, <1>6, FamilyParts, ExecRings
  <2> QED BY <2>1, <2>2
<1>17. Kept(next, Home(PT))' /\ OneRing(next, Home(PT))'
  BY <1>16 DEF Kept, OneRing, Closed, Home
<1> QED BY <1>11, <1>13, <1>14, <1>15, <1>17 DEF FamilyInv

LEMMA FamilyExit ==
    ASSUME FamilyInv, Calls' = Calls, NEW t \in Threads, Exit(t)
    PROVE  FamilyInv'
<1> DEFINE p == CURPROC(t)
<1>0. ThreadInv /\ thread_pool[t].pc = "user"
  BY DEF FamilyInv, Exit, Runs
<1>1. /\ ThreadInv'
      /\ \A q \in Pids : /\ PT'[q].parent = PT[q].parent
                         /\ PT'[q].pstate = IF q = p THEN "ZOMBIE" ELSE PT[q].pstate
      /\ thread_pool'[t] = NoThread
      /\ \A u \in Threads : u # t => thread_pool'[u] = thread_pool[u]
  BY <1>0, ExitStep
<1>2. PT' \in [Pids -> PCB]
  BY <1>1 DEF ThreadInv, TypeOK
<1>3. p \in Pids /\ PT[p].pstate = "ALIVE" /\ p # 0
  BY <1>0, FamilyParts DEF FamilyInv, Single
<1>4. next' = IF PT[p].parent = NULL THEN next
              ELSE PushBack(Remove(next, children_node(p)), exited_list(PT[p].parent), exited_node(p))
  BY DEF Exit
<1>5. \A u \in Threads : u # t => CURPROC(u)' = CURPROC(u)
  BY <1>1 DEF CURPROC
<1>6. NoThread.pc = "free" /\ CURPROC(t)' = NULL
  BY <1>1 DEF NoThread, CURPROC
<1>7. ASSUME NEW u \in Threads, thread_pool'[u].pc # "free"
      PROVE  /\ u # t /\ thread_pool'[u] = thread_pool[u] /\ thread_pool[u].pc # "free"
             /\ CURPROC(u)' = CURPROC(u) /\ CURPROC(u) \in Pids /\ CURPROC(u) # p
  <2>1. u # t /\ thread_pool'[u] = thread_pool[u] /\ thread_pool[u].pc # "free"
    BY <1>1, <1>6, <1>7
  <2> QED BY <2>1, <1>5, FamilyParts DEF FamilyInv, Single
<1> HIDE DEF p
<1>8. Single'
  <2>1. ASSUME NEW u \in Threads, thread_pool'[u].pc # "free"
        PROVE  /\ thread_pool'[u].pc \in {"start", "user", "wait_child", "wait_any"}
               /\ thread_pool'[u].func = "main"
               /\ PT'[CURPROC(u)'].pstate = "ALIVE" /\ CURPROC(u)' # 0
    BY <2>1, <1>1, <1>7 DEF FamilyInv, Single
  <2>2. ASSUME NEW v \in Threads, NEW u \in Threads, v # u, thread_pool'[v].pc # "free"
        PROVE  CURPROC(v)' # CURPROC(u)'
    <3>1. CASE u = t
      BY <3>1, <2>2, <1>6, <1>7, NullApart
    <3>2. CASE u # t
      BY <3>2, <2>2, <1>5, <1>7 DEF FamilyInv, Single
    <3> QED BY <3>1, <3>2
  <2> QED BY <2>1, <2>2 DEF Single
<1>9. \A x : Children(x)' = Children(x)
  BY <1>1, <1>3 DEF Children
<1>10. WaitTargetValid'
  <2> SUFFICES ASSUME NEW u \in Threads, thread_pool'[u].pc = "wait_child"
               PROVE  (thread_pool[u].target \in Children(CURPROC(u)))'
    BY DEF WaitTargetValid
  <2>1. thread_pool'[u] = thread_pool[u] /\ CURPROC(u)' = CURPROC(u)
    BY <1>7
  <2>2. thread_pool[u].target \in Children(CURPROC(u))
    BY <2>1 DEF FamilyInv, WaitTargetValid
  <2> QED BY <1>1, <1>3, <2>1, <2>2 DEF Children
<1>11. WaitsForSomeone'
  <2> SUFFICES ASSUME NEW u \in Threads, thread_pool'[u].pc = "wait_any"
               PROVE  Children(CURPROC(u))' # {}
    BY DEF WaitsForSomeone
  <2>1. thread_pool'[u] = thread_pool[u] /\ CURPROC(u)' = CURPROC(u)
    BY <1>7
  <2>2. Children(CURPROC(u)) # {}
    BY <2>1 DEF FamilyInv, WaitsForSomeone
  <2> QED BY <1>1, <1>3, <2>1, <2>2 DEF Children
<1>12. Boot' /\ Calls' \subseteq FamilyCalls
  <2>1. 0 \in Pids
    BY ProcAssumption DEF Pids
  <2> QED BY <2>1, <1>1, <1>3 DEF FamilyInv, Boot
<1>13. Kept(next', Home(PT')) /\ OneRing(next', Home(PT'))
  <2>0. Kept(next, Home(PT)) /\ OneRing(next, Home(PT))
    BY DEF FamilyInv
  <2>1. CASE PT[p].parent = NULL
    <3>1. Home(PT') = Home(PT)
      <4>1. Home(PT) \in [Nodes -> Nodes] /\ Home(PT') \in [Nodes -> Nodes]
        BY <1>2, FamilyParts, HomeIs
      <4>2. ASSUME NEW x \in Pids
            PROVE  /\ Home(PT')[children_list(x)] = Home(PT)[children_list(x)]
                   /\ Home(PT')[exited_list(x)] = Home(PT)[exited_list(x)]
                   /\ Home(PT')[children_node(x)] = Home(PT)[children_node(x)]
                   /\ Home(PT')[exited_node(x)] = Home(PT)[exited_node(x)]
        BY <2>1, <1>1, <1>2, FamilyParts, HomeIs
      <4> QED BY <4>1, <4>2, HomeEq
    <3> QED BY <2>0, <2>1, <3>1, <1>4
  <2>2. CASE PT[p].parent # NULL
    <3> DEFINE q == PT[p].parent
    <3>1. q \in Pids
      BY <2>2, <1>3, FamilyParts DEF PCB
    <3>2. next' = PushBack(Remove(next, children_node(p)), exited_list(q), exited_node(p))
      BY <2>2, <1>4
    <3> QED BY <2>0, <3>1, <3>2, <1>1, <1>2, <1>3, FamilyParts, ExitRings
  <2> QED BY <2>1, <2>2
<1>14. Kept(next, Home(PT))' /\ OneRing(next, Home(PT))'
  BY <1>13 DEF Kept, OneRing, Closed, Home
<1> QED BY <1>1, <1>8, <1>10, <1>11, <1>12, <1>14 DEF FamilyInv

LEMMA FamilyInitial ==
    ASSUME Init, Programs \subseteq SUBSET FamilyCalls
    PROVE  FamilyInv
<1>1. 0 \in Pids /\ 1 \in Pids /\ 0 \in Threads /\ NULL \notin Pids
  BY ProcAssumption, NullApart DEF Pids, Threads
<1>2. ThreadInv
  BY ThreadInitial
<1>3. Calls \subseteq FamilyCalls
  BY DEF Init
<1> DEFINE main == [NoThread EXCEPT !.pc = "start", !.owner = 1, !.func = "main", !.ptcb = 0]
<1>4. /\ NoThread.pc = "free" /\ NoThread.owner = NULL
      /\ main.pc = "start" /\ main.owner = 1 /\ main.func = "main"
  BY DEF NoThread
<1> HIDE DEF main
<1>5. thread_pool[0] = main /\ \A t \in Threads : t # 0 => thread_pool[t] = NoThread
  BY <1>1 DEF Init, main
<1>6. /\ PT[0].pstate = "ALIVE" /\ PT[1].pstate = "ALIVE"
      /\ \A p \in Pids : PT[p].parent = NULL
  BY <1>1 DEF Init, initialize_PCB
<1>7. Single
  <2>1. ASSUME NEW t \in Threads, thread_pool[t].pc # "free" PROVE t = 0
    BY <2>1, <1>4, <1>5
  <2> QED BY <2>1, <1>1, <1>4, <1>5, <1>6, NullApart DEF Single, CURPROC
<1>8. Boot /\ WaitTargetValid /\ WaitsForSomeone
  <2>1. \A t \in Threads : thread_pool[t].pc \in {"start", "free"}
    BY <1>4, <1>5
  <2> QED BY <2>1, <1>1, <1>6 DEF Boot, WaitTargetValid, WaitsForSomeone
<1>9. next = [n \in Nodes |-> n]
  BY DEF Init
<1>10. \A n \in Nodes : Home(PT)[n] = n
  <2>1. \A n \in Nodes : n[2] \in Pids
    BY DEF Nodes
  <2> QED BY <2>1, <1>6 DEF Home
<1>11. Kept(next, Home(PT)) /\ OneRing(next, Home(PT))
  BY <1>9, <1>10 DEF Kept, OneRing
<1> QED BY <1>2, <1>3, <1>7, <1>8, <1>11 DEF FamilyInv

LEMMA FamilyWaits ==
    ASSUME FamilyInv, ThreadInv', Calls' = Calls, NEW t \in Threads,
           \/ WaitChildResumes(t) \/ WaitAnyResumes(t) \/ WaitAny(t)
           \/ \E c \in Pids : WaitChild(t, c)
    PROVE  FamilyInv'
<1>1. ASSUME thread_pool[t].pc # "free" PROVE CURPROC(t) \in Pids
  BY <1>1, FamilyParts
<1>2. thread_pool[t] \in TCB /\ thread_pool \in [Threads -> TCB]
  BY FamilyParts
<1>3. CASE WaitChildResumes(t)
  <2> DEFINE c == thread_pool[t].target
  <2>1. /\ thread_pool[t].pc = "wait_child" /\ PT[c].pstate # "ALIVE" /\ cleanup_zombie(c)
        /\ thread_pool' = [thread_pool EXCEPT ![t].pc = "user", ![t].target = NULL]
    BY <1>3 DEF WaitChildResumes
  <2>2. c \in Children(CURPROC(t))
    BY <2>1 DEF FamilyInv, WaitTargetValid
  <2>3. c \in Pids /\ PT[c].pstate = "ZOMBIE"
    BY <2>1, <2>2, FamilyParts DEF Children, PCB
  <2>4. /\ thread_pool'[t].pc = "user" /\ thread_pool'[t].owner = thread_pool[t].owner
        /\ thread_pool'[t].func = thread_pool[t].func
        /\ \A u \in Threads : u # t => thread_pool'[u] = thread_pool[u]
    BY <2>1, <1>2 DEF TCB
  <2> HIDE DEF c
  <2> QED BY <2>1, <2>2, <2>3, <2>4, FamilyReap
<1>4. CASE WaitAnyResumes(t)
  <2> DEFINE c == FirstExited(CURPROC(t))
  <2>1. /\ thread_pool[t].pc = "wait_any" /\ ~IsEmpty(next, exited_list(CURPROC(t)))
        /\ cleanup_zombie(c)
        /\ thread_pool' = [thread_pool EXCEPT ![t].pc = "user"]
    BY <1>4 DEF WaitAnyResumes
  <2>2. c \in Pids /\ c \in Children(CURPROC(t)) /\ PT[c].pstate = "ZOMBIE"
    BY <2>1, <1>1, FamilyParts, FirstIsChild DEF FamilyInv
  <2>3. /\ thread_pool'[t].pc = "user" /\ thread_pool'[t].owner = thread_pool[t].owner
        /\ thread_pool'[t].func = thread_pool[t].func
        /\ \A u \in Threads : u # t => thread_pool'[u] = thread_pool[u]
    BY <2>1, <1>2 DEF TCB
  <2> HIDE DEF c
  <2> QED BY <2>1, <2>2, <2>3, FamilyReap
<1>5. CASE WaitAny(t)
  <2>1. thread_pool[t].pc = "user" /\ ~IsEmpty(next, children_list(CURPROC(t)))
    BY <1>5 DEF WaitAny, Runs, WaitAnyRefuses
  <2>2. CASE IsEmpty(next, exited_list(CURPROC(t)))
    <3>1. /\ thread_pool' = [thread_pool EXCEPT ![t].pc = "wait_any"]
          /\ UNCHANGED <<PT, next>>
      BY <1>5, <2>2 DEF WaitAny
    <3>2. /\ thread_pool'[t].pc = "wait_any" /\ thread_pool'[t].owner = thread_pool[t].owner
          /\ thread_pool'[t].func = thread_pool[t].func
          /\ \A u \in Threads : u # t => thread_pool'[u] = thread_pool[u]
      BY <3>1, <1>2 DEF TCB
    <3>3. Children(CURPROC(t)) # {}
      BY <2>1, <1>1, FamilyParts, HasChild DEF FamilyInv
    <3> QED BY <2>1, <3>1, <3>2, <3>3, FamilyMove
  <2>3. CASE ~IsEmpty(next, exited_list(CURPROC(t)))
    <3> DEFINE c == FirstExited(CURPROC(t))
    <3>1. cleanup_zombie(c) /\ thread_pool' = thread_pool
      BY <1>5, <2>3 DEF WaitAny
    <3>2. c \in Pids /\ c \in Children(CURPROC(t)) /\ PT[c].pstate = "ZOMBIE"
      BY <2>1, <2>3, <1>1, FamilyParts, FirstIsChild DEF FamilyInv
    <3> HIDE DEF c
    <3> QED BY <2>1, <3>1, <3>2, FamilyReap
  <2> QED BY <2>2, <2>3
<1>6. ASSUME NEW c \in Pids, WaitChild(t, c) PROVE FamilyInv'
  <2>1. /\ thread_pool[t].pc = "user" /\ c \in Children(CURPROC(t))
        /\ PT[c].pstate \in {"ALIVE", "ZOMBIE"}
    BY <1>6, FamilyParts DEF WaitChild, Runs, Children, PCB
  <2>2. CASE PT[c].pstate = "ALIVE"
    <3>1. /\ thread_pool' = [thread_pool EXCEPT ![t].pc = "wait_child", ![t].target = c]
          /\ UNCHANGED <<PT, next>>
      BY <1>6, <2>2 DEF WaitChild
    <3>2. /\ thread_pool'[t].pc = "wait_child" /\ thread_pool'[t].owner = thread_pool[t].owner
          /\ thread_pool'[t].func = thread_pool[t].func /\ thread_pool'[t].target = c
          /\ \A u \in Threads : u # t => thread_pool'[u] = thread_pool[u]
      BY <3>1, <1>2 DEF TCB
    <3> QED BY <2>1, <3>1, <3>2, FamilyMove
  <2>3. CASE PT[c].pstate = "ZOMBIE"
    <3>1. cleanup_zombie(c) /\ thread_pool' = thread_pool
      BY <1>6, <2>3 DEF WaitChild
    <3> QED BY <2>1, <2>3, <3>1, FamilyReap
  <2> QED BY <2>1, <2>2, <2>3
<1> QED BY <1>3, <1>4, <1>5, <1>6

LEMMA FamilyStep ==
    ASSUME MAX_PROC <= MAX_THREADS + 1, FamilyInv, [Next]_vars
    PROVE  FamilyInv'
<1>1. ThreadInv'
  BY ThreadStep DEF FamilyInv
<1>2. CASE UNCHANGED vars
  <2>1. UNCHANGED <<PT, next, thread_pool, Calls>>
    BY <1>2 DEF vars, kernel
  <2>2. Single' /\ Boot' /\ Calls' \subseteq FamilyCalls
    BY <2>1 DEF FamilyInv, Single, Boot, CURPROC
  <2>3. WaitTargetValid' /\ WaitsForSomeone'
    BY <2>1 DEF FamilyInv, WaitTargetValid, WaitsForSomeone, Children, CURPROC
  <2>4. Kept(next', Home(PT')) /\ OneRing(next', Home(PT'))
    BY <2>1 DEF FamilyInv
  <2>5. Kept(next, Home(PT))' /\ OneRing(next, Home(PT))'
    BY <2>4 DEF Kept, OneRing, Closed, Home
  <2> QED BY <1>1, <2>2, <2>3, <2>5 DEF FamilyInv
<1>3. ASSUME NEW t \in Threads, Resumes(t), Calls' = Calls PROVE FamilyInv'
  <2>1. CASE Start(t)
    <3>1. thread_pool[t].pc = "start" /\ UNCHANGED <<PT, next>>
      BY <2>1 DEF Start
    <3>2. thread_pool[t].func = "main" /\ thread_pool[t] \in TCB /\ thread_pool \in [Threads -> TCB]
      BY <3>1, FamilyParts DEF FamilyInv, Single
    <3>3. thread_pool' = [thread_pool EXCEPT ![t].pc = "user"]
      BY <2>1, <3>2 DEF Start
    <3>4. /\ thread_pool'[t].pc = "user" /\ thread_pool'[t].owner = thread_pool[t].owner
          /\ thread_pool'[t].func = thread_pool[t].func
          /\ \A u \in Threads : u # t => thread_pool'[u] = thread_pool[u]
      BY <3>2, <3>3 DEF TCB
    <3> QED BY <1>1, <1>3, <3>1, <3>4, FamilyMove
  <2>2. CASE WaitChildResumes(t) \/ WaitAnyResumes(t)
    BY <2>2, <1>1, <1>3, FamilyWaits
  <2>3. CASE JoinResumes(t) \/ ReturnStores(t) \/ ReturnSleeps(t)
    BY <2>3 DEF JoinResumes, ReturnStores, ReturnSleeps, FamilyInv, Single
  <2> QED BY <1>3, <2>1, <2>2, <2>3 DEF Resumes
<1>4. ASSUME NEW t \in Threads, ProcessCall(t), Calls' = Calls PROVE FamilyInv'
  <2>1. ASSUME NEW n \in ArgLens, Exec(t, n) PROVE FamilyInv'
    BY <2>1, <1>1, <1>4, FamilyExec
  <2>2. ASSUME NEW n \in ArgLens, ExecFails(t, n) PROVE FALSE
    BY <2>2, ExecHasThread DEF ExecFails, CanExec
  <2>3. ASSUME NEW n \in ArgLens, ExecNull(t, n) PROVE FALSE
    BY <2>3 DEF ExecNull, CanExec, FamilyInv, FamilyCalls
  <2>4. CASE WaitAny(t) \/ \E c \in Pids : WaitChild(t, c)
    BY <2>4, <1>1, <1>4, FamilyWaits
  <2>5. CASE Exit(t)
    BY <2>5, <1>4, FamilyExit
  <2> QED BY <1>4, <2>1, <2>2, <2>3, <2>4, <2>5 DEF ProcessCall
<1>5. ASSUME NEW t \in Threads, ThreadCall(t) PROVE FALSE
  BY <1>5 DEF ThreadCall, CreateThread, ThreadExit, Return, Join, Detach, FamilyInv, FamilyCalls
<1> QED BY <1>2, <1>3, <1>4, <1>5 DEF Next

(***************************************************************************)
(* The invariant says what RingsSound says: a list and its ring are the    *)
(* nodes whose home is the list.                                           *)
(***************************************************************************)
LEMMA FamilyRings == FamilyInv => RingsSound
<1> SUFFICES ASSUME FamilyInv PROVE RingsSound
  OBVIOUS
<1>1. PT \in [Pids -> PCB] /\ next \in [Nodes -> Nodes]
  BY FamilyParts
<1>2. Kept(next, Home(PT)) /\ OneRing(next, Home(PT))
  BY DEF FamilyInv
<1>3. \A q \in Pids : PT[q].parent # NULL => PT[q].parent \in Pids
  BY <1>1 DEF PCB
<1>4. ASSUME NEW p \in Pids
      PROVE  RingOf(next, children_list(p)) = {children_list(p)} \cup
                {children_node(c) : c \in {d \in Children(p) : PT[d].pstate = "ALIVE"}}
  <2> DEFINE a == children_list(p)
             S == {children_node(c) : c \in {d \in Children(p) : PT[d].pstate = "ALIVE"}}
  <2>1. a \in Nodes /\ Home(PT)[a] = a /\ p # NULL
    BY <1>1, NodeTypes, HomeIs, NullApart
  <2>2. RingOf(next, a) = {x \in Nodes : Home(PT)[x] = a}
    BY <1>1, <1>2, <2>1, RingIs
  <2>3. ASSUME NEW x \in Nodes, Home(PT)[x] = a PROVE x \in {a} \cup S
    <3>1. PICK c \in Pids : \/ x = children_list(c) \/ x = exited_list(c)
                            \/ x = children_node(c) \/ x = exited_node(c)
      BY NodeKinds
    <3>2. \/ x = a
          \/ x = children_node(c) /\ PT[c].pstate = "ALIVE" /\ PT[c].parent = p
      BY <1>1, <1>3, <2>3, <3>1, HomeIs, NodesApart
    <3> QED BY <3>2 DEF Children
  <2>4. ASSUME NEW c \in Children(p), PT[c].pstate = "ALIVE"
        PROVE  children_node(c) \in Nodes /\ Home(PT)[children_node(c)] = a
    BY <1>1, <2>1, <2>4, NodeTypes, HomeIs DEF Children
  <2> QED BY <2>1, <2>2, <2>3, <2>4
<1>5. ASSUME NEW p \in Pids
      PROVE  RingOf(next, exited_list(p)) = {exited_list(p)} \cup
                {exited_node(c) : c \in {d \in Children(p) : PT[d].pstate = "ZOMBIE"}}
  <2> DEFINE a == exited_list(p)
             S == {exited_node(c) : c \in {d \in Children(p) : PT[d].pstate = "ZOMBIE"}}
  <2>1. a \in Nodes /\ Home(PT)[a] = a /\ p # NULL
    BY <1>1, NodeTypes, HomeIs, NullApart
  <2>2. RingOf(next, a) = {x \in Nodes : Home(PT)[x] = a}
    BY <1>1, <1>2, <2>1, RingIs
  <2>3. ASSUME NEW x \in Nodes, Home(PT)[x] = a PROVE x \in {a} \cup S
    <3>1. PICK c \in Pids : \/ x = children_list(c) \/ x = exited_list(c)
                            \/ x = children_node(c) \/ x = exited_node(c)
      BY NodeKinds
    <3>2. \/ x = a
          \/ x = exited_node(c) /\ PT[c].pstate = "ZOMBIE" /\ PT[c].parent = p
      BY <1>1, <1>3, <2>3, <3>1, HomeIs, NodesApart
    <3> QED BY <3>2 DEF Children
  <2>4. ASSUME NEW c \in Children(p), PT[c].pstate = "ZOMBIE"
        PROVE  exited_node(c) \in Nodes /\ Home(PT)[exited_node(c)] = a
    BY <1>1, <2>1, <2>4, NodeTypes, HomeIs DEF Children
  <2> QED BY <2>1, <2>2, <2>3, <2>4
<1>6. ASSUME NEW c \in FreePids
      PROVE  IsEmpty(next, children_node(c)) /\ IsEmpty(next, exited_node(c))
  <2> DEFINE a == children_node(c)
             b == exited_node(c)
  <2>1. c \in Pids /\ PT[c].pstate = "FREE"
    BY DEF FreePids
  <2>2. a \in Nodes /\ b \in Nodes /\ Home(PT)[a] = a /\ Home(PT)[b] = b
    BY <1>1, <2>1, NodeTypes, HomeIs
  <2>3. next[a] \in Nodes /\ Home(PT)[next[a]] = a /\ next[b] \in Nodes /\ Home(PT)[next[b]] = b
    BY <1>1, <1>2, <2>2 DEF Kept
  <2> HIDE DEF a, b
  <2>4. next[a] = a /\ next[b] = b
    BY <1>1, <2>1, <2>3, NodeNoHome DEF a, b
  <2> QED BY <2>4 DEF IsEmpty, a, b
<1> QED BY <1>4, <1>5, <1>6 DEF RingsSound

(***************************************************************************)
(* The children_list and the exited_list of every PCB hold exactly its     *)
(* children, and sys_Exec, sys_Exit and cleanup_zombie never leave a PCB   *)
(* in a list it does not belong to, for any number of processes of one     *)
(* thread, as long as a thread is left for every process that can be made, *)
(* as with the pools of the repository: no sys_Exec fails half-way.        *)
(***************************************************************************)
THEOREM RingsSafe ==
    ASSUME MAX_PROC <= MAX_THREADS + 1, Programs \subseteq SUBSET FamilyCalls
    PROVE  Spec => []RingsSound
<1>1. Init => FamilyInv
  BY FamilyInitial
<1>2. FamilyInv /\ [Next]_vars => FamilyInv'
  BY FamilyStep
<1> QED BY <1>1, <1>2, FamilyRings, PTL DEF Spec

(***************************************************************************)
(* A thread that waits in sys_WaitChild waits for a PCB that is still a    *)
(* child of its process, or has a child that can end its wait, under the   *)
(* same hypotheses.                                                        *)
(***************************************************************************)
THEOREM WaitSafe ==
    ASSUME MAX_PROC <= MAX_THREADS + 1, Programs \subseteq SUBSET FamilyCalls
    PROVE  Spec => []WaitSound
<1>1. Init => FamilyInv
  BY FamilyInitial
<1>2. FamilyInv /\ [Next]_vars => FamilyInv'
  BY FamilyStep
<1>3. FamilyInv => WaitSound
  BY DEF FamilyInv, WaitSound
<1> QED BY <1>1, <1>2, <1>3, PTL DEF Spec

=============================================================================
