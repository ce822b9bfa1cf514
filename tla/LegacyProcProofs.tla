-------------------------- MODULE LegacyProcProofs --------------------------
(***************************************************************************)
(* Proofs about the processes and threads of the legacy kernel, for every  *)
(* number of processes and threads and every mix of system calls.          *)
(*                                                                         *)
(* The parts of the invariant are operators on the state, so that a lemma  *)
(* can say what a change of the table does to a part without the step that *)
(* makes the change.                                                       *)
(***************************************************************************)
EXTENDS LegacyProc, SequenceTheorems, FiniteSetTheorems, WellFoundedInduction, TLAPS

-----------------------------------------------------------------------------
(* Sequences without repetition: the free list, the lists of the exited.   *)

Once(s)   == \A i, j \in DOMAIN s : s[i] = s[j] => i = j
Has(s, x) == \E i \in DOMAIN s : s[i] = x

\* The first element is taken.
LEMMA TailOnce ==
    ASSUME NEW T, NEW s \in Seq(T), s # <<>>, Once(s)
    PROVE  /\ Head(s) \in T /\ Has(s, Head(s))
           /\ Tail(s) \in Seq(T)
           /\ Once(Tail(s))
           /\ \A u : Has(Tail(s), u) <=> Has(s, u) /\ u # Head(s)
<1>1. /\ Tail(s) \in Seq(T) /\ Head(s) = s[1] /\ Head(s) \in T
      /\ Len(s) \in Nat \ {0} /\ DOMAIN s = 1..Len(s) /\ DOMAIN Tail(s) = 1..Len(s)-1
      /\ \A i \in 1..Len(s)-1 : Tail(s)[i] = s[i+1]
  OBVIOUS
<1>2. /\ \A i \in 1..Len(s)-1 : i+1 \in 1..Len(s) /\ i+1 # 1
      /\ \A i \in 1..Len(s) : i = 1 \/ (i-1 \in 1..Len(s)-1 /\ (i-1)+1 = i)
      /\ \A i, j \in 1..Len(s)-1 : i+1 = j+1 => i = j
      /\ 1 \in 1..Len(s)
  BY <1>1
<1>3. Once(Tail(s))
  BY <1>1, <1>2 DEF Once
<1>4. ASSUME NEW u PROVE Has(Tail(s), u) => Has(s, u) /\ u # Head(s)
  BY <1>1, <1>2 DEF Has, Once
<1>5. ASSUME NEW u, Has(s, u), u # Head(s) PROVE Has(Tail(s), u)
  <2>1. PICK i \in 1..Len(s) : s[i] = u
    BY <1>1, <1>5 DEF Has
  <2>2. i-1 \in 1..Len(s)-1 /\ Tail(s)[i-1] = u
    BY <1>1, <1>2, <1>5, <2>1
  <2> QED BY <1>1, <2>2 DEF Has
<1>6. Has(s, Head(s))
  BY <1>1, <1>2 DEF Has
<1> QED BY <1>1, <1>3, <1>4, <1>5, <1>6

\* An element is taken from wherever it is.
LEMMA RemoveOnce ==
    ASSUME NEW T, NEW s \in Seq(T), NEW t \in T, Once(s), Has(s, t)
    PROVE  /\ RemoveFirst(s, t) \in Seq(T)
           /\ Once(RemoveFirst(s, t))
           /\ \A u : Has(RemoveFirst(s, t), u) <=> Has(s, u) /\ u # t
<1>1. PICK j \in DOMAIN s : s[j] = t
  BY DEF Has
<1> DEFINE r == RemoveAt(s, j)
           a == SubSeq(s, 1, j-1)
           b == SubSeq(s, j+1, Len(s))
           I == {i \in 1..Len(s) : s[i] = t}
<1>2. Len(s) \in Nat /\ DOMAIN s = 1..Len(s) /\ j \in 1..Len(s)
  OBVIOUS
<1>3. I = {j}
  BY <1>1, <1>2 DEF Once
<1>4. RemoveFirst(s, t) = r
  <2>1. Min({j}) = j
    BY <1>2 DEF Min
  <2> QED BY <1>1, <1>2, <1>3, <2>1 DEF RemoveFirst, SelectInSeq
<1> HIDE DEF I
<1>5. a \in Seq(T) /\ Len(a) = j-1 /\ \A i \in 1..j-1 : a[i] = s[i]
  BY <1>2
<1>6. b \in Seq(T) /\ Len(b) = Len(s)-j /\ \A i \in 1..Len(s)-j : b[i] = s[j+i]
  BY <1>2
<1>7. r = a \o b
  BY DEF RemoveAt
<1> HIDE DEF a, b
<1>8. /\ r \in Seq(T) /\ Len(r) = Len(a) + Len(b)
      /\ \A i \in 1..Len(a)+Len(b) : r[i] = IF i <= Len(a) THEN a[i] ELSE b[i-Len(a)]
  BY <1>5, <1>6, <1>7, ConcatProperties
<1> HIDE DEF r
<1>9. DOMAIN r = 1..Len(s)-1
  BY <1>2, <1>5, <1>6, <1>8
<1>10. ASSUME NEW k \in 1..Len(s)-1 PROVE r[k] = s[IF k < j THEN k ELSE k+1]
  <2>1. CASE k < j
    <3>1. k \in 1..j-1 /\ k \in 1..Len(a)+Len(b) /\ k <= Len(a)
      BY <1>2, <1>5, <1>6, <2>1
    <3> QED BY <1>5, <1>8, <2>1, <3>1
  <2>2. CASE ~(k < j)
    <3>1. /\ k \in 1..Len(a)+Len(b) /\ ~(k <= Len(a))
          /\ k-Len(a) \in 1..Len(s)-j /\ j+(k-Len(a)) = k+1
      BY <1>2, <1>5, <1>6, <2>2
    <3> QED BY <1>6, <1>8, <2>2, <3>1
  <2> QED BY <2>1, <2>2
<1>11. /\ \A k \in 1..Len(s)-1 : (IF k < j THEN k ELSE k+1) \in 1..Len(s) \ {j}
       /\ \A k, l \in 1..Len(s)-1 :
             (IF k < j THEN k ELSE k+1) = (IF l < j THEN l ELSE l+1) => k = l
       /\ \A i \in 1..Len(s) \ {j} :
             \E k \in 1..Len(s)-1 : i = IF k < j THEN k ELSE k+1
  <2>1. ASSUME NEW i \in 1..Len(s) \ {j}
        PROVE  \E k \in 1..Len(s)-1 : i = IF k < j THEN k ELSE k+1
    <3>1. CASE i < j
      <4>1. i \in 1..Len(s)-1 /\ i = IF i < j THEN i ELSE i+1
        BY <1>2, <3>1
      <4> QED BY <4>1
    <3>2. CASE i > j
      <4>1. i-1 \in 1..Len(s)-1 /\ i = IF i-1 < j THEN i-1 ELSE (i-1)+1
        BY <1>2, <3>2
      <4> QED BY <4>1
    <3> QED BY <1>2, <3>1, <3>2
  <2>2. \A k \in 1..Len(s)-1 : (IF k < j THEN k ELSE k+1) \in 1..Len(s) \ {j}
    BY <1>2
  <2>3. \A k, l \in 1..Len(s)-1 :
             (IF k < j THEN k ELSE k+1) = (IF l < j THEN l ELSE l+1) => k = l
    BY <1>2
  <2> QED BY <2>1, <2>2, <2>3
<1>12. Once(r)
  BY <1>2, <1>9, <1>10, <1>11 DEF Once
<1>13. ASSUME NEW u PROVE Has(r, u) => Has(s, u) /\ u # t
  BY <1>1, <1>2, <1>9, <1>10, <1>11 DEF Has, Once
<1>14. ASSUME NEW u, Has(s, u), u # t PROVE Has(r, u)
  <2>1. PICK i \in 1..Len(s) \ {j} : s[i] = u
    BY <1>1, <1>2, <1>14 DEF Has
  <2>2. PICK k \in 1..Len(s)-1 : i = IF k < j THEN k ELSE k+1
    BY <1>11
  <2> QED BY <1>9, <1>10, <2>1, <2>2 DEF Has
<1> QED BY <1>4, <1>8, <1>12, <1>13, <1>14

\* One sequence after another that has none of its elements.
LEMMA ConcatOnce ==
    ASSUME NEW T, NEW s \in Seq(T), NEW r \in Seq(T), Once(s), Once(r),
           \A u : ~(Has(s, u) /\ Has(r, u))
    PROVE  /\ s \o r \in Seq(T)
           /\ Once(s \o r)
           /\ \A u : Has(s \o r, u) <=> Has(s, u) \/ Has(r, u)
<1> DEFINE w == s \o r
           m == Len(s)
           n == Len(r)
<1>1. m \in Nat /\ n \in Nat /\ DOMAIN s = 1..m /\ DOMAIN r = 1..n
  OBVIOUS
<1>2. /\ w \in Seq(T) /\ Len(w) = m + n
      /\ \A i \in 1..m+n : w[i] = IF i <= m THEN s[i] ELSE r[i-m]
  BY ConcatProperties
<1>3. DOMAIN w = 1..m+n
  BY <1>1, <1>2
<1> HIDE DEF w, m, n
<1>4. \A i \in 1..m+n : \/ i \in 1..m /\ w[i] = s[i]
                        \/ i-m \in 1..n /\ w[i] = r[i-m] /\ ~(i \in 1..m)
  BY <1>1, <1>2
<1>5. /\ \A i \in 1..m : i \in 1..m+n /\ w[i] = s[i]
      /\ \A i \in 1..n : i+m \in 1..m+n /\ w[i+m] = r[i]
  <2>1. ASSUME NEW i \in 1..n PROVE i+m \in 1..m+n /\ ~(i+m <= m) /\ (i+m)-m = i
    BY <1>1
  <2>2. \A i \in 1..m : i \in 1..m+n /\ i <= m
    BY <1>1
  <2> QED BY <1>2, <2>1, <2>2
<1>6. ASSUME NEW u PROVE Has(w, u) <=> Has(s, u) \/ Has(r, u)
  BY <1>1, <1>3, <1>4, <1>5 DEF Has
<1>7. ASSUME NEW i \in 1..m+n, NEW j \in 1..m+n, w[i] = w[j] PROVE i = j
  <2>1. CASE i \in 1..m /\ j \in 1..m
    BY <2>1, <1>1, <1>5, <1>7 DEF Once
  <2>2. CASE i \notin 1..m /\ j \notin 1..m
    <3>1. i-m \in 1..n /\ j-m \in 1..n /\ r[i-m] = r[j-m]
      BY <2>2, <1>4, <1>7
    <3>2. i-m = j-m
      BY <3>1, <1>1 DEF Once
    <3> QED BY <3>2, <1>1
  <2>3. CASE i \in 1..m /\ j \notin 1..m
    BY <2>3, <1>1, <1>4, <1>7 DEF Has
  <2>4. CASE i \notin 1..m /\ j \in 1..m
    BY <2>4, <1>1, <1>4, <1>7 DEF Has
  <2> QED BY <2>1, <2>2, <2>3, <2>4
<1>8. Once(w)
  BY <1>3, <1>7 DEF Once
<1> QED BY <1>2, <1>6, <1>8 DEF w

\* One element, put at the front of others.
LEMMA ConsOnce ==
    ASSUME NEW T, NEW s \in Seq(T), NEW t \in T, Once(s), ~Has(s, t)
    PROVE  /\ <<t>> \o s \in Seq(T)
           /\ Once(<<t>> \o s)
           /\ \A u : Has(<<t>> \o s, u) <=> Has(s, u) \/ u = t
<1> DEFINE r == <<t>>
<1>1. r \in Seq(T) /\ DOMAIN r = {1} /\ r[1] = t
  OBVIOUS
<1> HIDE DEF r
<1>2. Once(r) /\ \A u : Has(r, u) <=> u = t
  BY <1>1 DEF Once, Has
<1>3. \A u : ~(Has(r, u) /\ Has(s, u))
  BY <1>2
<1>4. /\ r \o s \in Seq(T) /\ Once(r \o s)
      /\ \A u : Has(r \o s, u) <=> Has(r, u) \/ Has(s, u)
  BY <1>1, <1>2, <1>3, ConcatOnce
<1> QED BY <1>2, <1>4 DEF r

\* The empty sequence has none.
LEMMA EmptyHas ==
    ASSUME NEW T, NEW s \in Seq(T)
    PROVE  s = <<>> <=> \A u \in T : ~Has(s, u)
<1>1. Len(s) \in Nat /\ DOMAIN s = 1..Len(s) /\ \A i \in 1..Len(s) : s[i] \in T
  OBVIOUS
<1>2. ASSUME s = <<>>, NEW u \in T PROVE ~Has(s, u)
  BY <1>2, <1>1 DEF Has
<1>3. ASSUME s # <<>> PROVE \E u \in T : Has(s, u)
  <2>1. 1 \in 1..Len(s)
    BY <1>3, <1>1, EmptySeq
  <2> QED BY <2>1, <1>1 DEF Has
<1> QED BY <1>2, <1>3

PCB == [ pstate : {"FREE", "ALIVE", "ZOMBIE"}, parent : Pids \cup {NOPROC},
         children : SUBSET Pids, exited : Seq(Pids), child_exit : SUBSET Threads,
         thread_count : Nat, main_task : BOOLEAN, argl : Nat, args : BOOLEAN ]
TCB == [ pc : {"none", "user", "wait_child", "wait_any", "exit", "join", "gone"},
         owner : Pids \cup {NOPROC}, on : Pids \cup Threads \cup {NOPROC} ]
PTCB == [ in : Pids \cup {NOPROC}, exited : BOOLEAN, detached : BOOLEAN, refcount : Int,
          exit_cv : SUBSET Threads ]

TypeOK == /\ PT \in [Pids -> PCB] /\ pcb_freelist \in Seq(Pids)
          /\ thread \in [Threads -> TCB] /\ ptcb \in [Threads -> PTCB]
          /\ info \in [cursor : 0 .. MAX_PROC, present : SUBSET Pids, seen : SUBSET Pids]

(***************************************************************************)
(* The family tree.  init has no parent, so nobody waits for it; an exited *)
(* list is exactly the children that are zombies; and a process other than *)
(* init that has ended has handed its children on.                         *)
(***************************************************************************)
ParentOK(pt, p) == LET q == pt[p].parent IN
    /\ q \in Pids /\ q # p /\ p \in pt[q].children
    /\ q = init \/ pt[q].pstate = "ALIVE"
FamilyInv(pt, free) ==
    /\ pt[init].pstate # "FREE" /\ pt[init].parent = NOPROC
    /\ \A p \in Pids \ {init} : pt[p].pstate # "FREE" => ParentOK(pt, p)
    /\ \A p \in Pids : \A c \in pt[p].children : pt[c].pstate # "FREE" /\ pt[c].parent = p
    /\ \A p \in Pids : Once(pt[p].exited)
    /\ \A p, c \in Pids : Has(pt[p].exited, c) <=> c \in pt[p].children /\ pt[c].pstate = "ZOMBIE"
    /\ \A p \in Pids \ {init} : pt[p].pstate # "ALIVE" => pt[p].children = {}
    /\ Once(free) /\ \A p \in Pids : Has(free, p) <=> pt[p].pstate = "FREE"

\* The threads of a process.
Alive(th, t)   == th[t].pc \notin {"none", "gone"}
Members(th, p) == {t \in Threads : Alive(th, t) /\ th[t].owner = p}
CountInv(pt, th) ==
    /\ \A t \in Threads : Alive(th, t) => th[t].owner \in Pids
    /\ \A p \in Pids : /\ pt[p].thread_count = Cardinality(Members(th, p))
                       /\ pt[p].pstate = "ALIVE" /\ pt[p].main_task <=> Members(th, p) # {}

(***************************************************************************)
(* Sleepers.  A thread that has been woken still needs its child: the rule *)
(* of Careful keeps every other thread of the process from reaping it.     *)
(***************************************************************************)
Waiting == {"wait_child", "wait_any", "exit"}
CauseInv(pt, th) == \A p \in Pids : \A t \in pt[p].child_exit :
    /\ th[t].owner = p /\ th[t].pc \in Waiting
    /\ th[t].pc = "wait_child" => pt[th[t].on].pstate = "ALIVE"
    /\ th[t].pc # "wait_child" => pt[p].children # {} /\ pt[p].exited = <<>>
\* Thread u of process p waits for its child c, or for any.
MayReap(th, u, p, c) ==
    th[u].owner = p /\ th[u].pc \in Waiting /\ (th[u].pc = "wait_child" => th[u].on = c)
TargetInv(pt, th) == \A t \in Threads : th[t].pc = "wait_child" =>
    /\ th[t].on \in Pids /\ pt[th[t].on].pstate # "FREE" /\ pt[th[t].on].parent = th[t].owner
    /\ \A u \in Threads : u # t => ~MayReap(th, u, th[t].owner, th[t].on)

(***************************************************************************)
(* PTCBs.  A thread that joins is woken by the exit or by a detach only,   *)
(* so the last to return frees a PTCB that nobody needs any more.          *)
(***************************************************************************)
Joiners(th, u) == {t \in Threads : th[t].pc = "join" /\ th[t].on = u}
JoinInv(th, pb) ==
    /\ \A u \in Threads : /\ th[u].pc = "none" => pb[u].in = NOPROC
                          /\ Alive(th, u) => pb[u].in = th[u].owner /\ ~pb[u].exited
    /\ \A t \in Threads : th[t].pc = "join" =>
        /\ th[t].on \in Threads /\ pb[th[t].on].in = th[t].owner
        /\ t \notin pb[th[t].on].exit_cv => pb[th[t].on].exited \/ pb[th[t].on].detached
    /\ \A u \in Threads : pb[u].in # NOPROC /\ ~pb[u].detached =>
        pb[u].refcount = Cardinality(Joiners(th, u))

\* The information stream has told of what was there below its cursor.
InfoInv(pt, inf) == \A p \in inf.present : pt[p].pstate # "FREE" /\ (p < inf.cursor => p \in inf.seen)

LInv == /\ TypeOK
        /\ FamilyInv(PT, pcb_freelist)
        /\ CountInv(PT, thread)
        /\ CauseInv(PT, thread)
        /\ TargetInv(PT, thread)
        /\ JoinInv(thread, ptcb)
        /\ InfoInv(PT, info)

-----------------------------------------------------------------------------
LEMMA PidTypes == init \in Pids /\ NOPROC \notin Pids /\ NOPROC = -1 /\ Pids \subseteq Nat
BY LegacyProcAssumption DEF init, NOPROC, Pids

LEMMA Fields ==
    ASSUME NEW pt \in [Pids -> PCB], NEW p \in Pids
    PROVE  /\ pt[p].pstate \in {"FREE", "ALIVE", "ZOMBIE"} /\ pt[p].parent \in Pids \cup {NOPROC}
           /\ pt[p].children \in SUBSET Pids /\ pt[p].exited \in Seq(Pids)
           /\ pt[p].child_exit \in SUBSET Threads /\ pt[p].thread_count \in Nat
           /\ pt[p].main_task \in BOOLEAN /\ pt[p].argl \in Nat /\ pt[p].args \in BOOLEAN
BY DEF PCB

(***************************************************************************)
(* A step that leaves states, parents, children and exited lists alone.    *)
(***************************************************************************)
SameFamily(pt, pn) == \A p \in Pids :
    /\ pn[p].pstate = pt[p].pstate /\ pn[p].parent = pt[p].parent
    /\ pn[p].children = pt[p].children /\ pn[p].exited = pt[p].exited

LEMMA FamilySame ==
    ASSUME NEW pt \in [Pids -> PCB], NEW pn, NEW free, FamilyInv(pt, free), SameFamily(pt, pn)
    PROVE  FamilyInv(pn, free)
<1>1. /\ pn[init].pstate # "FREE" /\ pn[init].parent = NOPROC
      /\ Once(free) /\ \A p \in Pids : Has(free, p) <=> pn[p].pstate = "FREE"
  BY PidTypes DEF FamilyInv, SameFamily
<1>2. ASSUME NEW p \in Pids \ {init}, pn[p].pstate # "FREE" PROVE ParentOK(pn, p)
  <2>1. ParentOK(pt, p)
    BY <1>2 DEF FamilyInv, SameFamily
  <2> QED BY <2>1 DEF ParentOK, SameFamily
<1>3. ASSUME NEW p \in Pids, NEW c \in pn[p].children PROVE pn[c].pstate # "FREE" /\ pn[c].parent = p
  <2>1. c \in Pids /\ c \in pt[p].children
    BY <1>3, Fields DEF SameFamily
  <2> QED BY <2>1 DEF FamilyInv, SameFamily
<1>4. /\ \A p \in Pids : Once(pn[p].exited)
      /\ \A p, c \in Pids : Has(pn[p].exited, c) <=> c \in pn[p].children /\ pn[c].pstate = "ZOMBIE"
      /\ \A p \in Pids \ {init} : pn[p].pstate # "ALIVE" => pn[p].children = {}
  BY DEF FamilyInv, SameFamily
<1> QED BY <1>1, <1>2, <1>3, <1>4 DEF FamilyInv

(***************************************************************************)
(* WaitChild takes a zombie out of the lists and frees its PCB.            *)
(***************************************************************************)
Reaped(pt, c) ==
    [p \in Pids |-> IF p = c THEN [pt[p] EXCEPT !.pstate = "FREE"]
                    ELSE [pt[p] EXCEPT !.children = @ \ {c}, !.exited = RemoveFirst(@, c)]]

LEMMA RemoveAny ==
    ASSUME NEW T, NEW s \in Seq(T), NEW t \in T, Once(s)
    PROVE  /\ RemoveFirst(s, t) \in Seq(T) /\ Once(RemoveFirst(s, t))
           /\ \A u : Has(RemoveFirst(s, t), u) <=> Has(s, u) /\ u # t
<1>1. CASE Has(s, t)
  BY <1>1, RemoveOnce
<1>2. CASE ~Has(s, t)
  <2>1. DOMAIN s = 1 .. Len(s)
    OBVIOUS
  <2>2. RemoveFirst(s, t) = s
    BY <1>2, <2>1 DEF RemoveFirst, Has
  <2> QED BY <1>2, <2>2
<1> QED BY <1>1, <1>2

\* What that does to each process: pn is the table afterwards.
ReapedTo(pt, pn, c) == \A p \in Pids :
    /\ pn[p].pstate = IF p = c THEN "FREE" ELSE pt[p].pstate
    /\ pn[p].parent = pt[p].parent /\ pn[p].children = pt[p].children \ {c}
    /\ Once(pn[p].exited) /\ \A x : Has(pn[p].exited, x) <=> Has(pt[p].exited, x) /\ x # c
    /\ pn[p].thread_count = pt[p].thread_count
    /\ pn[p].main_task = pt[p].main_task /\ pn[p].child_exit = pt[p].child_exit

LEMMA ReapedIs ==
    ASSUME NEW pt \in [Pids -> PCB], NEW free, FamilyInv(pt, free), NEW c \in Pids,
           c # init, pt[c].pstate = "ZOMBIE"
    PROVE  /\ Reaped(pt, c) \in [Pids -> PCB]
           /\ ReapedTo(pt, Reaped(pt, c), c)
<1> DEFINE pn == Reaped(pt, c)
<1>1. ASSUME NEW p \in Pids
      PROVE  /\ pn[p] \in PCB
             /\ pn[p].pstate = IF p = c THEN "FREE" ELSE pt[p].pstate
             /\ pn[p].parent = pt[p].parent /\ pn[p].children = pt[p].children \ {c}
             /\ Once(pn[p].exited)
             /\ \A x : Has(pn[p].exited, x) <=> Has(pt[p].exited, x) /\ x # c
             /\ pn[p].thread_count = pt[p].thread_count
             /\ pn[p].main_task = pt[p].main_task /\ pn[p].child_exit = pt[p].child_exit
  <2>1. pt[p] \in PCB /\ pt[p].exited \in Seq(Pids) /\ Once(pt[p].exited)
    BY Fields DEF FamilyInv
  <2>2. CASE p = c
    <3>1. pn[p] = [pt[p] EXCEPT !.pstate = "FREE"]
      BY <2>2 DEF Reaped
    <3>2. /\ pn[p] \in PCB /\ pn[p].pstate = "FREE" /\ pn[p].parent = pt[p].parent
          /\ pn[p].children = pt[p].children /\ pn[p].exited = pt[p].exited
          /\ pn[p].thread_count = pt[p].thread_count
          /\ pn[p].main_task = pt[p].main_task /\ pn[p].child_exit = pt[p].child_exit
      BY <3>1, <2>1 DEF PCB
    <3>3. pt[p].children = {} /\ ~Has(pt[p].exited, c)
      BY <2>2 DEF FamilyInv
    <3> QED BY <2>1, <2>2, <3>2, <3>3
  <2>3. CASE p # c
    <3> DEFINE e == RemoveFirst(pt[p].exited, c)
    <3>1. pn[p] = [pt[p] EXCEPT !.children = pt[p].children \ {c}, !.exited = e]
      BY <2>3 DEF Reaped
    <3>2. e \in Seq(Pids) /\ Once(e) /\ \A x : Has(e, x) <=> Has(pt[p].exited, x) /\ x # c
      BY <2>1, RemoveAny
    <3> HIDE DEF e
    <3>3. /\ pn[p] \in PCB /\ pn[p].pstate = pt[p].pstate /\ pn[p].parent = pt[p].parent
          /\ pn[p].children = pt[p].children \ {c} /\ pn[p].exited = e
          /\ pn[p].thread_count = pt[p].thread_count
          /\ pn[p].main_task = pt[p].main_task /\ pn[p].child_exit = pt[p].child_exit
      <4> DEFINE d == pt[p].children \ {c}
                 r == pn[p]
      <4>1. d \subseteq Pids
        BY <2>1 DEF PCB
      <4>2. r = [pt[p] EXCEPT !.children = d, !.exited = e]
        BY <3>1
      <4> HIDE DEF d, r, pn
      <4>3. /\ r \in PCB /\ r.pstate = pt[p].pstate /\ r.parent = pt[p].parent
            /\ r.children = d /\ r.exited = e
            /\ r.thread_count = pt[p].thread_count
            /\ r.main_task = pt[p].main_task /\ r.child_exit = pt[p].child_exit
        BY <2>1, <3>2, <4>1, <4>2 DEF PCB
      <4> QED BY <4>3 DEF d, r
    <3> QED BY <2>3, <3>2, <3>3
  <2> QED BY <2>2, <2>3
<1>2. pn \in [Pids -> PCB]
  BY <1>1 DEF Reaped
<1> QED BY <1>1, <1>2 DEF ReapedTo

LEMMA ReapFamily ==
    ASSUME NEW pt \in [Pids -> PCB], NEW free \in Seq(Pids), FamilyInv(pt, free), NEW c \in Pids,
           c # init, pt[c].pstate = "ZOMBIE", NEW pn, ReapedTo(pt, pn, c)
    PROVE  /\ <<c>> \o free \in Seq(Pids)
           /\ FamilyInv(pn, <<c>> \o free)
<1> DEFINE fn == <<c>> \o free
<1>1. \A p \in Pids :
        /\ pn[p].pstate = IF p = c THEN "FREE" ELSE pt[p].pstate
        /\ pn[p].parent = pt[p].parent /\ pn[p].children = pt[p].children \ {c}
        /\ Once(pn[p].exited) /\ \A x : Has(pn[p].exited, x) <=> Has(pt[p].exited, x) /\ x # c
  BY DEF ReapedTo
<1>2. Once(free) /\ ~Has(free, c)
  BY DEF FamilyInv
<1>3. fn \in Seq(Pids) /\ Once(fn) /\ \A u : Has(fn, u) <=> Has(free, u) \/ u = c
  BY <1>2, ConsOnce
<1> HIDE DEF fn
<1>4. pn[init].pstate # "FREE" /\ pn[init].parent = NOPROC
  BY <1>1, PidTypes DEF FamilyInv
<1>5. ASSUME NEW p \in Pids \ {init}, pn[p].pstate # "FREE" PROVE ParentOK(pn, p)
  <2>1. p # c /\ ParentOK(pt, p)
    BY <1>1, <1>5 DEF FamilyInv
  <2> QED BY <1>1, <2>1 DEF ParentOK
<1>6. ASSUME NEW p \in Pids, NEW x \in pn[p].children PROVE pn[x].pstate # "FREE" /\ pn[x].parent = p
  <2>1. x \in pt[p].children /\ x # c /\ x \in Pids
    BY <1>1, <1>6, Fields
  <2> QED BY <1>1, <2>1 DEF FamilyInv
<1>7. ASSUME NEW p \in Pids, NEW x \in Pids
      PROVE  Has(pn[p].exited, x) <=> x \in pn[p].children /\ pn[x].pstate = "ZOMBIE"
  <2>1. Has(pt[p].exited, x) <=> x \in pt[p].children /\ pt[x].pstate = "ZOMBIE"
    BY DEF FamilyInv
  <2>2. /\ Has(pn[p].exited, x) <=> Has(pt[p].exited, x) /\ x # c
        /\ pn[p].children = pt[p].children \ {c}
        /\ pn[x].pstate = IF x = c THEN "FREE" ELSE pt[x].pstate
    BY <1>1
  <2> QED BY <2>1, <2>2
<1>8. ASSUME NEW p \in Pids \ {init}, pn[p].pstate # "ALIVE" PROVE pn[p].children = {}
  BY <1>1, <1>8 DEF FamilyInv
<1>9. \A p \in Pids : Has(fn, p) <=> pn[p].pstate = "FREE"
  BY <1>1, <1>3 DEF FamilyInv
<1>10. \A p \in Pids : Once(pn[p].exited)
  BY <1>1
<1>11. FamilyInv(pn, fn)
  BY <1>3, <1>4, <1>5, <1>6, <1>7, <1>8, <1>9, <1>10 DEF FamilyInv
<1> QED BY <1>3, <1>11 DEF fn

(***************************************************************************)
(* Exec takes the first free PCB for a child of q, with n threads.         *)
(***************************************************************************)
Execed(pt, q, p, argl, task, n) ==
    [pt EXCEPT ![p].pstate = "ALIVE", ![p].parent = q, ![p].main_task = task, ![p].argl = argl,
               ![p].args = TRUE, ![p].thread_count = @ + n, ![q].children = @ \union {p}]

ExecedTo(pt, pn, q, p, task, n) == \A x \in Pids :
    /\ pn[x].pstate = IF x = p THEN "ALIVE" ELSE pt[x].pstate
    /\ pn[x].parent = IF x = p THEN q ELSE pt[x].parent
    /\ pn[x].children = IF x = q THEN pt[x].children \cup {p} ELSE pt[x].children
    /\ pn[x].exited = pt[x].exited /\ pn[x].child_exit = pt[x].child_exit
    /\ pn[x].thread_count = IF x = p THEN pt[x].thread_count + n ELSE pt[x].thread_count
    /\ pn[x].main_task = IF x = p THEN task ELSE pt[x].main_task

LEMMA ExecedIs ==
    ASSUME NEW pt \in [Pids -> PCB], NEW q \in Pids, NEW p \in Pids, p # q, NEW argl \in Nat,
           NEW task \in BOOLEAN, NEW n \in Nat
    PROVE  /\ Execed(pt, q, p, argl, task, n) \in [Pids -> PCB]
           /\ ExecedTo(pt, Execed(pt, q, p, argl, task, n), q, p, task, n)
<1> DEFINE pn == Execed(pt, q, p, argl, task, n)
<1>1. ASSUME NEW x \in Pids
      PROVE  /\ pn[x] \in PCB
             /\ pn[x].pstate = IF x = p THEN "ALIVE" ELSE pt[x].pstate
             /\ pn[x].parent = IF x = p THEN q ELSE pt[x].parent
             /\ pn[x].children = IF x = q THEN pt[x].children \cup {p} ELSE pt[x].children
             /\ pn[x].exited = pt[x].exited /\ pn[x].child_exit = pt[x].child_exit
             /\ pn[x].thread_count = IF x = p THEN pt[x].thread_count + n ELSE pt[x].thread_count
             /\ pn[x].main_task = IF x = p THEN task ELSE pt[x].main_task
  <2> DEFINE m == pt[x].thread_count + n
  <2>4. pt[x] \in PCB
    OBVIOUS
  <2>1. CASE x = p
    <3>1. pn[x] = [pt[x] EXCEPT !.pstate = "ALIVE", !.parent = q, !.main_task = task,
                                !.argl = argl, !.args = TRUE, !.thread_count = m]
      BY <2>1 DEF Execed
    <3>3. m \in Nat
      BY <2>4 DEF PCB
    <3> HIDE DEF pn, m
    <3>2. /\ pn[x] \in PCB /\ pn[x].pstate = "ALIVE" /\ pn[x].parent = q
          /\ pn[x].children = pt[x].children /\ pn[x].exited = pt[x].exited
          /\ pn[x].child_exit = pt[x].child_exit /\ pn[x].thread_count = m
          /\ pn[x].main_task = task
      BY <2>4, <3>1, <3>3 DEF PCB
    <3> QED BY <2>1, <3>2 DEF m
  <2>2. CASE x = q
    <3>1. pn[x] = [pt[x] EXCEPT !.children = @ \cup {p}]
      BY <2>2 DEF Execed
    <3> HIDE DEF pn
    <3>2. /\ pn[x] \in PCB /\ pn[x].pstate = pt[x].pstate /\ pn[x].parent = pt[x].parent
          /\ pn[x].children = pt[x].children \cup {p} /\ pn[x].exited = pt[x].exited
          /\ pn[x].child_exit = pt[x].child_exit /\ pn[x].thread_count = pt[x].thread_count
          /\ pn[x].main_task = pt[x].main_task
      BY <2>4, <3>1 DEF PCB
    <3> QED BY <2>2, <3>2
  <2>3. CASE x # p /\ x # q
    <3>1. pn[x] = pt[x]
      BY <2>3 DEF Execed
    <3> QED BY <2>3, <3>1
  <2> QED BY <2>1, <2>2, <2>3
<1>2. pn \in [Pids -> PCB]
  <2>1. DOMAIN pn = Pids /\ pn = [x \in Pids |-> pn[x]]
    BY DEF Execed
  <2> QED BY <1>1, <2>1
<1> QED BY <1>1, <1>2 DEF ExecedTo

LEMMA ExecFamily ==
    ASSUME NEW pt \in [Pids -> PCB], NEW free \in Seq(Pids), FamilyInv(pt, free), free # <<>>,
           NEW q \in Pids, pt[q].pstate = "ALIVE", NEW pn, NEW task, NEW n,
           ExecedTo(pt, pn, q, Head(free), task, n)
    PROVE  /\ Tail(free) \in Seq(Pids) /\ FamilyInv(pn, Tail(free))
           /\ Head(free) \in Pids \ {init} /\ pt[Head(free)].pstate = "FREE"
<1> DEFINE p  == Head(free)
           fn == Tail(free)
<1>1. /\ p \in Pids /\ Has(free, p) /\ fn \in Seq(Pids) /\ Once(fn)
      /\ \A u : Has(fn, u) <=> Has(free, u) /\ u # p
  BY TailOnce DEF FamilyInv
<1>2. \A x \in Pids :
        /\ pn[x].pstate = IF x = p THEN "ALIVE" ELSE pt[x].pstate
        /\ pn[x].parent = IF x = p THEN q ELSE pt[x].parent
        /\ pn[x].children = IF x = q THEN pt[x].children \cup {p} ELSE pt[x].children
        /\ pn[x].exited = pt[x].exited
  BY DEF ExecedTo
<1> HIDE DEF p, fn
<1>3. pt[p].pstate = "FREE" /\ p # init /\ p # q /\ pt[p].children = {}
  BY <1>1 DEF FamilyInv
<1>4. pn[init].pstate # "FREE" /\ pn[init].parent = NOPROC
  BY <1>2, <1>3, PidTypes DEF FamilyInv
<1>5. ASSUME NEW x \in Pids \ {init}, pn[x].pstate # "FREE" PROVE ParentOK(pn, x)
  <2>1. CASE x = p
    BY <1>1, <1>2, <1>3, <2>1 DEF ParentOK
  <2>2. CASE x # p
    <3>1. ParentOK(pt, x)
      BY <1>2, <1>5, <2>2 DEF FamilyInv
    <3> QED BY <1>2, <2>2, <3>1 DEF ParentOK
  <2> QED BY <2>1, <2>2
<1>6. ASSUME NEW x \in Pids, NEW y \in pn[x].children PROVE pn[y].pstate # "FREE" /\ pn[y].parent = x
  <2>1. CASE y = p
    <3>1. p \notin pt[x].children
      BY <1>3 DEF FamilyInv
    <3> QED BY <1>1, <1>2, <1>6, <2>1, <3>1
  <2>2. CASE y # p
    <3>1. y \in pt[x].children /\ y \in Pids
      <4>1. pn[x].children = IF x = q THEN pt[x].children \cup {p} ELSE pt[x].children
        BY <1>2
      <4>2. y \in pt[x].children
        BY <1>6, <2>2, <4>1
      <4> QED BY <4>2, Fields
    <3>2. pt[y].pstate # "FREE" /\ pt[y].parent = x
      BY <3>1 DEF FamilyInv
    <3>3. pn[y].pstate = pt[y].pstate /\ pn[y].parent = pt[y].parent
      BY <1>2, <2>2, <3>1
    <3> QED BY <3>2, <3>3
  <2> QED BY <2>1, <2>2
<1>7. ASSUME NEW x \in Pids, NEW y \in Pids
      PROVE  Has(pn[x].exited, y) <=> y \in pn[x].children /\ pn[y].pstate = "ZOMBIE"
  <2>1. Has(pt[x].exited, y) <=> y \in pt[x].children /\ pt[y].pstate = "ZOMBIE"
    BY DEF FamilyInv
  <2>2. /\ pn[x].exited = pt[x].exited
        /\ pn[y].pstate = IF y = p THEN "ALIVE" ELSE pt[y].pstate
        /\ y # p => (y \in pn[x].children <=> y \in pt[x].children)
    BY <1>2
  <2> QED BY <1>3, <2>1, <2>2
<1>8. ASSUME NEW x \in Pids \ {init}, pn[x].pstate # "ALIVE" PROVE pn[x].children = {}
  <2>1. x # p /\ pt[x].pstate # "ALIVE" /\ x # q
    BY <1>2, <1>8
  <2> QED BY <1>2, <2>1 DEF FamilyInv
<1>9. ASSUME NEW x \in Pids PROVE Has(fn, x) <=> pn[x].pstate = "FREE"
  <2>1. Has(free, x) <=> pt[x].pstate = "FREE"
    BY DEF FamilyInv
  <2>2. pn[x].pstate = IF x = p THEN "ALIVE" ELSE pt[x].pstate
    BY <1>2
  <2> QED BY <1>1, <2>1, <2>2
<1>10. \A x \in Pids : Once(pn[x].exited)
  BY <1>2 DEF FamilyInv
<1>11. FamilyInv(pn, fn)
  BY <1>1, <1>4, <1>5, <1>6, <1>7, <1>8, <1>9, <1>10 DEF FamilyInv
<1> QED BY <1>1, <1>3, <1>11 DEF p, fn

(***************************************************************************)
(* The last thread of p exits: what each process has afterwards.  The exit *)
(* of init itself changes nothing else.                                    *)
(***************************************************************************)
Handed(pt, p, x) == IF x = init THEN pt[p].children ELSE {}
ExitedTo(pt, pn, p) == \A x \in Pids :
    /\ pn[x].pstate = IF x = p THEN "ZOMBIE" ELSE pt[x].pstate
    /\ pn[x].parent = IF x \in pt[p].children THEN init ELSE pt[x].parent
    /\ pn[x].children = IF x = p THEN {} ELSE pt[x].children \cup Handed(pt, p, x)
    /\ Once(pn[x].exited)
    /\ \A y : Has(pn[x].exited, y) <=>
                /\ x # p
                /\ \/ Has(pt[x].exited, y)
                   \/ x = init /\ Has(pt[p].exited, y)
                   \/ x = pt[p].parent /\ y = p
    /\ pn[x].child_exit = IF x = pt[p].parent \/ (x = init /\ pt[p].exited # <<>>)
                          THEN {} ELSE pt[x].child_exit
    /\ pn[x].thread_count = IF x = p THEN 0 ELSE pt[x].thread_count
    /\ pn[x].main_task = pt[x].main_task

\* init is told of the children of p.
Orphaned(pt, p) ==
    [q \in Pids |->
        CASE q = init -> [pt[q] EXCEPT !.children = @ \union pt[p].children,
                                       !.exited = @ \o pt[p].exited,
                                       !.child_exit = IF pt[p].exited = <<>> THEN @ ELSE {}]
          [] q = p -> [pt[q] EXCEPT !.children = {}, !.exited = <<>>]
          [] OTHER -> [pt[q] EXCEPT !.parent = IF q \in pt[p].children THEN init ELSE @]]

OrphanedTo(pt, r, p) == \A x \in Pids :
    /\ r[x].pstate = pt[x].pstate
    /\ r[x].parent = IF x \in pt[p].children THEN init ELSE pt[x].parent
    /\ r[x].children = IF x = p THEN {} ELSE pt[x].children \cup Handed(pt, p, x)
    /\ Once(r[x].exited)
    /\ \A y : Has(r[x].exited, y) <=>
                x # p /\ (Has(pt[x].exited, y) \/ (x = init /\ Has(pt[p].exited, y)))
    /\ r[x].child_exit = IF x = init /\ pt[p].exited # <<>> THEN {} ELSE pt[x].child_exit
    /\ r[x].thread_count = pt[x].thread_count /\ r[x].main_task = pt[x].main_task

LEMMA OrphanedIs ==
    ASSUME NEW pt \in [Pids -> PCB], NEW free, FamilyInv(pt, free), NEW p \in Pids, p # init,
           pt[p].pstate = "ALIVE"
    PROVE  /\ Orphaned(pt, p) \in [Pids -> PCB]
           /\ OrphanedTo(pt, Orphaned(pt, p), p)
<1> DEFINE r == Orphaned(pt, p)
           ch == pt[p].children
           ex == pt[p].exited
<1>1. /\ ch \in SUBSET Pids /\ ex \in Seq(Pids) /\ Once(ex) /\ init \in Pids
  BY Fields, PidTypes DEF FamilyInv
<1>2. init \notin ch /\ p \notin ch
  <2>1. pt[p].parent # p
    BY DEF FamilyInv, ParentOK
  <2>2. pt[init].parent # p
    BY PidTypes DEF FamilyInv
  <2> QED BY <2>1, <2>2 DEF FamilyInv
<1>3. ASSUME NEW x \in Pids
      PROVE  /\ r[x] \in PCB
             /\ r[x].pstate = pt[x].pstate
             /\ r[x].parent = IF x \in ch THEN init ELSE pt[x].parent
             /\ r[x].children = IF x = p THEN {} ELSE pt[x].children \cup Handed(pt, p, x)
             /\ Once(r[x].exited)
             /\ \A y : Has(r[x].exited, y) <=>
                        x # p /\ (Has(pt[x].exited, y) \/ (x = init /\ Has(ex, y)))
             /\ r[x].child_exit = IF x = init /\ ex # <<>> THEN {} ELSE pt[x].child_exit
             /\ r[x].thread_count = pt[x].thread_count /\ r[x].main_task = pt[x].main_task
  <2>1. pt[x] \in PCB /\ pt[x].exited \in Seq(Pids) /\ Once(pt[x].exited)
    BY Fields DEF FamilyInv
  <2>2. CASE x = init
    <3> DEFINE e == pt[x].exited \o ex
               c == pt[x].children \cup ch
               w == IF ex = <<>> THEN pt[x].child_exit ELSE {}
    <3>1. r[x] = [pt[x] EXCEPT !.children = c, !.exited = e, !.child_exit = w]
      BY <2>2 DEF Orphaned
    <3>2. \A y : ~(Has(pt[x].exited, y) /\ Has(ex, y))
      <4>1. ASSUME NEW y, Has(pt[x].exited, y), Has(ex, y) PROVE FALSE
        <5>1. y \in Pids
          BY <4>1, <1>1 DEF Has
        <5>2. y \in pt[x].children /\ y \in ch
          BY <4>1, <5>1 DEF FamilyInv
        <5>3. pt[y].parent = x /\ pt[y].parent = p
          BY <5>2 DEF FamilyInv
        <5> QED BY <2>2, <5>3
      <4> QED BY <4>1
    <3>3. e \in Seq(Pids) /\ Once(e) /\ \A y : Has(e, y) <=> Has(pt[x].exited, y) \/ Has(ex, y)
      BY <1>1, <2>1, <3>2, ConcatOnce
    <3>4. c \in SUBSET Pids /\ w \in SUBSET Threads
      BY <1>1, Fields
    <3> HIDE DEF r, c, e, w
    <3>5. /\ r[x] \in PCB /\ r[x].pstate = pt[x].pstate /\ r[x].parent = pt[x].parent
          /\ r[x].children = c /\ r[x].exited = e /\ r[x].child_exit = w
          /\ r[x].thread_count = pt[x].thread_count /\ r[x].main_task = pt[x].main_task
      BY <2>1, <3>1, <3>3, <3>4 DEF PCB
    <3> QED BY <1>2, <2>2, <3>3, <3>5 DEF c, w, Handed
  <2>3. CASE x = p
    <3>1. r[x] = [pt[x] EXCEPT !.children = {}, !.exited = <<>>]
      BY <2>3 DEF Orphaned
    <3>2. <<>> \in Seq(Pids) /\ Once(<<>>) /\ \A y : ~Has(<<>>, y)
      BY DEF Once, Has
    <3> HIDE DEF r
    <3>3. /\ r[x] \in PCB /\ r[x].pstate = pt[x].pstate /\ r[x].parent = pt[x].parent
          /\ r[x].children = {} /\ r[x].exited = <<>> /\ r[x].child_exit = pt[x].child_exit
          /\ r[x].thread_count = pt[x].thread_count /\ r[x].main_task = pt[x].main_task
      BY <2>1, <3>1, <3>2 DEF PCB
    <3> QED BY <1>2, <2>3, <3>2, <3>3
  <2>4. CASE x # init /\ x # p
    <3> DEFINE q == IF x \in ch THEN init ELSE pt[x].parent
    <3>1. r[x] = [pt[x] EXCEPT !.parent = q]
      BY <2>4 DEF Orphaned
    <3>2. q \in Pids \cup {NOPROC}
      BY <1>1, Fields
    <3> HIDE DEF r, q
    <3>3. /\ r[x] \in PCB /\ r[x].pstate = pt[x].pstate /\ r[x].parent = q
          /\ r[x].children = pt[x].children /\ r[x].exited = pt[x].exited
          /\ r[x].child_exit = pt[x].child_exit /\ r[x].thread_count = pt[x].thread_count
          /\ r[x].main_task = pt[x].main_task
      BY <2>1, <3>1, <3>2 DEF PCB
    <3> QED BY <2>1, <2>4, <3>3 DEF q, Handed
  <2> QED BY <2>2, <2>3, <2>4
<1>4. r \in [Pids -> PCB]
  BY <1>3 DEF Orphaned
<1> QED BY <1>3, <1>4 DEF OrphanedTo

\* p is in the exited list of its parent q, which is told.
Ended(r, p, q) ==
    [Broadcast([r EXCEPT ![q].exited = <<p>> \o @], q)
        EXCEPT ![p].pstate = "ZOMBIE", ![p].args = FALSE, ![p].thread_count = 0]

LEMMA EndedIs ==
    ASSUME NEW pt \in [Pids -> PCB], NEW free, FamilyInv(pt, free), NEW p \in Pids, p # init,
           pt[p].pstate = "ALIVE"
    PROVE  /\ Ended(Orphaned(pt, p), p, pt[p].parent) \in [Pids -> PCB]
           /\ ExitedTo(pt, Ended(Orphaned(pt, p), p, pt[p].parent), p)
<1> DEFINE r  == Orphaned(pt, p)
           q  == pt[p].parent
           pn == Ended(r, p, q)
<1>1. q \in Pids /\ q # p
  BY DEF FamilyInv, ParentOK
<1>2. r \in [Pids -> PCB] /\ OrphanedTo(pt, r, p)
  BY OrphanedIs
<1>3. \A x \in Pids : ~Has(pt[x].exited, p)
  BY DEF FamilyInv
<1> HIDE DEF r, q
<1>4. ASSUME NEW x \in Pids
      PROVE  /\ pn[x] \in PCB
             /\ pn[x].pstate = IF x = p THEN "ZOMBIE" ELSE r[x].pstate
             /\ pn[x].parent = r[x].parent /\ pn[x].children = r[x].children
             /\ Once(pn[x].exited)
             /\ \A y : Has(pn[x].exited, y) <=> Has(r[x].exited, y) \/ (x = q /\ y = p)
             /\ pn[x].child_exit = IF x = q THEN {} ELSE r[x].child_exit
             /\ pn[x].thread_count = IF x = p THEN 0 ELSE r[x].thread_count
             /\ pn[x].main_task = r[x].main_task
  <2>1. r[x] \in PCB /\ r[x].exited \in Seq(Pids) /\ Once(r[x].exited)
    BY <1>2, Fields DEF OrphanedTo
  <2>2. CASE x = q
    <3> DEFINE e == <<p>> \o r[x].exited
    <3>1. pn[x] = [r[x] EXCEPT !.exited = e, !.child_exit = {}]
      BY <1>1, <1>2, <2>2 DEF Ended, Broadcast
    <3>2. ~Has(r[x].exited, p)
      BY <1>2, <1>3 DEF OrphanedTo
    <3>3. e \in Seq(Pids) /\ Once(e) /\ \A y : Has(e, y) <=> Has(r[x].exited, y) \/ y = p
      BY <2>1, <3>2, ConsOnce
    <3> HIDE DEF pn, e
    <3>4. /\ pn[x] \in PCB /\ pn[x].pstate = r[x].pstate /\ pn[x].parent = r[x].parent
          /\ pn[x].children = r[x].children /\ pn[x].exited = e /\ pn[x].child_exit = {}
          /\ pn[x].thread_count = r[x].thread_count /\ pn[x].main_task = r[x].main_task
      BY <2>1, <3>1, <3>3 DEF PCB
    <3> QED BY <1>1, <2>2, <3>3, <3>4
  <2>3. CASE x = p
    <3>1. pn[x] = [r[x] EXCEPT !.pstate = "ZOMBIE", !.args = FALSE, !.thread_count = 0]
      BY <1>1, <1>2, <2>3 DEF Ended, Broadcast
    <3> HIDE DEF pn
    <3>2. /\ pn[x].pstate = "ZOMBIE" /\ pn[x].parent = r[x].parent
          /\ pn[x].children = r[x].children /\ pn[x].exited = r[x].exited
          /\ pn[x].child_exit = r[x].child_exit /\ pn[x].thread_count = 0
          /\ pn[x].main_task = r[x].main_task
      BY <2>1, <3>1 DEF PCB
    <3>3. pn[x] \in PCB
      <4> DEFINE w == [r[x] EXCEPT !.pstate = "ZOMBIE", !.thread_count = 0]
      <4>1. w \in PCB
        BY <2>1 DEF PCB
      <4>2. pn[x] = [w EXCEPT !.args = FALSE]
        BY <2>1, <3>1 DEF PCB
      <4> HIDE DEF w
      <4> QED BY <4>1, <4>2 DEF PCB
    <3> QED BY <1>1, <2>1, <2>3, <3>2, <3>3
  <2>4. CASE x # p /\ x # q
    <3>1. pn[x] = r[x]
      BY <1>1, <1>2, <2>4 DEF Ended, Broadcast
    <3> HIDE DEF pn
    <3> QED BY <2>1, <2>4, <3>1
  <2> QED BY <2>2, <2>3, <2>4
<1>5. pn \in [Pids -> PCB]
  <2>1. DOMAIN pn = Pids /\ pn = [x \in Pids |-> pn[x]]
    BY <1>2 DEF Ended, Broadcast
  <2> QED BY <1>4, <2>1
<1> HIDE DEF pn
<1>6. ASSUME NEW x \in Pids
      PROVE  /\ pn[x].pstate = IF x = p THEN "ZOMBIE" ELSE pt[x].pstate
             /\ pn[x].parent = IF x \in pt[p].children THEN init ELSE pt[x].parent
             /\ pn[x].children = IF x = p THEN {} ELSE pt[x].children \cup Handed(pt, p, x)
             /\ Once(pn[x].exited)
             /\ \A y : Has(pn[x].exited, y) <=>
                         /\ x # p
                         /\ \/ Has(pt[x].exited, y)
                            \/ x = init /\ Has(pt[p].exited, y)
                            \/ x = q /\ y = p
             /\ pn[x].child_exit = IF x = q \/ (x = init /\ pt[p].exited # <<>>)
                                   THEN {} ELSE pt[x].child_exit
             /\ pn[x].thread_count = IF x = p THEN 0 ELSE pt[x].thread_count
             /\ pn[x].main_task = pt[x].main_task
  <2>1. pn[x].pstate = IF x = p THEN "ZOMBIE" ELSE pt[x].pstate
    BY <1>2, <1>4 DEF OrphanedTo
  <2>2. /\ pn[x].parent = IF x \in pt[p].children THEN init ELSE pt[x].parent
        /\ pn[x].children = IF x = p THEN {} ELSE pt[x].children \cup Handed(pt, p, x)
    BY <1>2, <1>4 DEF OrphanedTo
  <2>3. /\ Once(pn[x].exited)
        /\ \A y : Has(pn[x].exited, y) <=>
                    /\ x # p
                    /\ \/ Has(pt[x].exited, y)
                       \/ x = init /\ Has(pt[p].exited, y)
                       \/ x = q /\ y = p
    BY <1>1, <1>2, <1>4 DEF OrphanedTo
  <2>4. /\ pn[x].child_exit = IF x = q \/ (x = init /\ pt[p].exited # <<>>)
                                   THEN {} ELSE pt[x].child_exit
        /\ pn[x].thread_count = IF x = p THEN 0 ELSE pt[x].thread_count
        /\ pn[x].main_task = pt[x].main_task
    BY <1>2, <1>4 DEF OrphanedTo
  <2> QED BY <2>1, <2>2, <2>3, <2>4
<1>7. ExitedTo(pt, pn, p)
  BY <1>6 DEF ExitedTo, q
<1> QED BY <1>5, <1>7 DEF pn, r, q

LEMMA ExitFamily ==
    ASSUME NEW pt \in [Pids -> PCB], NEW free, FamilyInv(pt, free), NEW p \in Pids, p # init,
           pt[p].pstate = "ALIVE", NEW pn, ExitedTo(pt, pn, p)
    PROVE  FamilyInv(pn, free)
<1> DEFINE ch == pt[p].children
           q  == pt[p].parent
<1>1. ch \subseteq Pids /\ q \in Pids /\ q # p /\ p \in pt[q].children /\ init \in Pids
  BY Fields, PidTypes DEF FamilyInv, ParentOK
<1>2. \A x \in Pids : x \in ch => pt[x].parent = p /\ x # p /\ x # init
  BY <1>1, PidTypes DEF FamilyInv
<1>3. \A x \in Pids : pn[x].pstate = IF x = p THEN "ZOMBIE" ELSE pt[x].pstate
  BY DEF ExitedTo
<1>4. \A x \in Pids : pn[x].parent = IF x \in ch THEN init ELSE pt[x].parent
  BY DEF ExitedTo
<1>5. \A x \in Pids : \A y : y \in pn[x].children <=>
            x # p /\ (y \in pt[x].children \/ (x = init /\ y \in ch))
  <2>1. \A x \in Pids : pn[x].children = IF x = p THEN {} ELSE pt[x].children \cup Handed(pt, p, x)
    BY DEF ExitedTo
  <2> QED BY <2>1 DEF Handed
<1>6. \A x \in Pids : /\ Once(pn[x].exited)
                      /\ \A y : Has(pn[x].exited, y) <=>
                            /\ x # p
                            /\ \/ Has(pt[x].exited, y)
                               \/ x = init /\ Has(pt[p].exited, y)
                               \/ x = q /\ y = p
  BY DEF ExitedTo
<1>7. \A x \in Pids : \A y \in Pids : y \in pt[x].children => pt[y].parent = x /\ pt[y].pstate # "FREE"
  BY DEF FamilyInv
<1>8. \A x, y \in Pids : Has(pt[x].exited, y) <=> y \in pt[x].children /\ pt[y].pstate = "ZOMBIE"
  BY DEF FamilyInv
<1>9. \A x \in Pids : pt[x].children \subseteq Pids
  BY Fields
<1> HIDE DEF ch, q
<1>11. pn[init].pstate # "FREE" /\ pn[init].parent = NOPROC
  BY <1>1, <1>2, <1>3, <1>4 DEF FamilyInv
<1>12. ASSUME NEW x \in Pids \ {init}, pn[x].pstate # "FREE" PROVE ParentOK(pn, x)
  <2>1. ParentOK(pt, x)
    BY <1>3, <1>12 DEF FamilyInv
  <2>2. CASE x \in ch
    <3>1. pn[x].parent = init /\ x \in pn[init].children
      BY <1>1, <1>4, <1>5, <2>2
    <3> QED BY <1>1, <3>1 DEF ParentOK
  <2>3. CASE x \notin ch
    <3> DEFINE z == pt[x].parent
    <3>1. z \in Pids /\ z # x /\ x \in pt[z].children /\ (z = init \/ pt[z].pstate = "ALIVE")
      BY <2>1 DEF ParentOK
    <3>2. z # p
      BY <2>3, <3>1 DEF ch
    <3>3. pn[x].parent = z
      BY <1>4, <2>3
    <3> HIDE DEF z
    <3>4. x \in pn[z].children /\ (z = init \/ pn[z].pstate = "ALIVE")
      BY <1>3, <1>5, <3>1, <3>2
    <3> QED BY <3>1, <3>3, <3>4 DEF ParentOK
  <2> QED BY <2>2, <2>3
<1>13. ASSUME NEW x \in Pids, NEW y \in pn[x].children PROVE pn[y].pstate # "FREE" /\ pn[y].parent = x
  <2>1. x # p /\ (y \in pt[x].children \/ (x = init /\ y \in ch)) /\ y \in Pids
    BY <1>1, <1>5, <1>9, <1>13
  <2>2. pt[y].pstate # "FREE"
    BY <1>1, <1>7, <2>1 DEF ch
  <2>3. pn[y].pstate # "FREE"
    BY <1>3, <2>1, <2>2
  <2>4. CASE y \in ch
    <3>1. pt[y].parent = p
      BY <1>2, <2>1, <2>4
    <3>2. x = init
      BY <1>7, <2>1, <3>1
    <3> QED BY <1>4, <2>1, <2>3, <2>4, <3>2
  <2>5. CASE y \notin ch
    BY <1>4, <1>7, <2>1, <2>3, <2>5
  <2> QED BY <2>4, <2>5
<1>14. ASSUME NEW x \in Pids, NEW y \in Pids
       PROVE  Has(pn[x].exited, y) <=> y \in pn[x].children /\ pn[y].pstate = "ZOMBIE"
  <2>1. CASE x = p
    BY <1>5, <1>6, <2>1
  <2>2. CASE x # p /\ y = p
    <3>1. pn[y].pstate = "ZOMBIE" /\ y \notin ch /\ pt[y].pstate = "ALIVE"
      BY <1>2, <1>3, <2>2
    <3>2. ~Has(pt[x].exited, y) /\ ~Has(pt[p].exited, y)
      BY <1>8, <3>1
    <3>3. y \in pt[x].children <=> x = q
      BY <1>1, <1>7, <2>2 DEF q
    <3> QED BY <1>5, <1>6, <2>2, <3>1, <3>2, <3>3
  <2>3. CASE x # p /\ y # p
    <3>1. pn[y].pstate = pt[y].pstate
      BY <1>3, <2>3
    <3>2. Has(pt[p].exited, y) <=> y \in ch /\ pt[y].pstate = "ZOMBIE"
      BY <1>8 DEF ch
    <3> QED BY <1>5, <1>6, <1>8, <2>3, <3>1, <3>2
  <2> QED BY <2>1, <2>2, <2>3
<1>15. ASSUME NEW x \in Pids \ {init}, pn[x].pstate # "ALIVE" PROVE pn[x].children = {}
  <2>1. x # p => pt[x].children = {}
    BY <1>3, <1>15 DEF FamilyInv
  <2> QED BY <1>5, <2>1
<1>16. ASSUME NEW x \in Pids PROVE Has(free, x) <=> pn[x].pstate = "FREE"
  <2>1. Has(free, x) <=> pt[x].pstate = "FREE"
    BY DEF FamilyInv
  <2> QED BY <1>3, <2>1
<1>17. Once(free)
  BY DEF FamilyInv
<1> QED BY <1>6, <1>11, <1>12, <1>13, <1>14, <1>15, <1>16, <1>17 DEF FamilyInv

\* init itself has nobody to tell.
InitEndedTo(pt, pn) ==
    /\ \A x \in Pids : /\ pn[x].parent = pt[x].parent /\ pn[x].children = pt[x].children
                       /\ pn[x].exited = pt[x].exited /\ pn[x].child_exit = pt[x].child_exit
                       /\ x # init => pn[x].pstate = pt[x].pstate
                                      /\ pn[x].thread_count = pt[x].thread_count
                       /\ pn[x].main_task = pt[x].main_task
    /\ pn[init].pstate = "ZOMBIE" /\ pn[init].thread_count = 0

LEMMA InitEndedIs ==
    ASSUME NEW pt \in [Pids -> PCB], NEW pn,
           pn = [pt EXCEPT ![init].pstate = "ZOMBIE", ![init].args = FALSE, ![init].thread_count = 0]
    PROVE  pn \in [Pids -> PCB] /\ InitEndedTo(pt, pn)
<1> DEFINE w == [pt[init] EXCEPT !.pstate = "ZOMBIE", !.thread_count = 0]
           v == [w EXCEPT !.args = FALSE]
<1>1. init \in Pids /\ pt[init] \in PCB
  BY PidTypes
<1>2. /\ w \in PCB /\ w.pstate = "ZOMBIE" /\ w.thread_count = 0
      /\ w.main_task = pt[init].main_task
      /\ w.parent = pt[init].parent /\ w.children = pt[init].children
      /\ w.exited = pt[init].exited /\ w.child_exit = pt[init].child_exit
  BY <1>1 DEF PCB
<1>3. pn = [pt EXCEPT ![init] = v]
  <2>1. v = [pt[init] EXCEPT !.pstate = "ZOMBIE", !.args = FALSE, !.thread_count = 0]
    BY <1>1 DEF PCB
  <2> HIDE DEF v
  <2>2. pn = [pt EXCEPT ![init] = [pt[init] EXCEPT !.pstate = "ZOMBIE", !.args = FALSE,
                                                   !.thread_count = 0]]
    BY <1>1
  <2> QED BY <2>1, <2>2
<1> HIDE DEF w
<1>4. /\ v \in PCB /\ v.pstate = "ZOMBIE" /\ v.thread_count = 0
      /\ v.main_task = pt[init].main_task
      /\ v.parent = pt[init].parent /\ v.children = pt[init].children
      /\ v.exited = pt[init].exited /\ v.child_exit = pt[init].child_exit
  BY <1>2 DEF PCB
<1> HIDE DEF v
<1>5. pn \in [Pids -> PCB] /\ pn[init] = v /\ \A x \in Pids : x # init => pn[x] = pt[x]
  BY <1>1, <1>3, <1>4
<1> QED BY <1>4, <1>5 DEF InitEndedTo

LEMMA InitExitFamily ==
    ASSUME NEW pt \in [Pids -> PCB], NEW free, FamilyInv(pt, free), NEW pn, InitEndedTo(pt, pn)
    PROVE  FamilyInv(pn, free)
<1>1. \A x \in Pids : /\ pn[x].parent = pt[x].parent /\ pn[x].children = pt[x].children
                      /\ pn[x].exited = pt[x].exited
                      /\ x # init => pn[x].pstate = pt[x].pstate
  BY DEF InitEndedTo
<1>2. pn[init].pstate = "ZOMBIE" /\ pt[init].pstate # "FREE" /\ init \in Pids
  BY PidTypes DEF InitEndedTo, FamilyInv
<1>3. \A x \in Pids : pn[x].pstate = "FREE" <=> pt[x].pstate = "FREE"
  BY <1>1, <1>2
<1>4. \A x \in Pids : init \notin pt[x].children
  BY PidTypes DEF FamilyInv
<1>5. ASSUME NEW x \in Pids \ {init}, pn[x].pstate # "FREE" PROVE ParentOK(pn, x)
  <2>1. ParentOK(pt, x)
    BY <1>3, <1>5 DEF FamilyInv
  <2> QED BY <1>1, <2>1 DEF ParentOK
<1>6. ASSUME NEW x \in Pids, NEW y \in pn[x].children PROVE pn[y].pstate # "FREE" /\ pn[y].parent = x
  <2>1. y \in pt[x].children /\ y \in Pids
    BY <1>1, <1>6, Fields
  <2>2. pt[y].pstate # "FREE" /\ pt[y].parent = x
    BY <2>1 DEF FamilyInv
  <2> QED BY <1>1, <1>3, <2>1, <2>2
<1>7. ASSUME NEW x \in Pids, NEW y \in Pids
      PROVE  Has(pn[x].exited, y) <=> y \in pn[x].children /\ pn[y].pstate = "ZOMBIE"
  <2>1. Has(pt[x].exited, y) <=> y \in pt[x].children /\ pt[y].pstate = "ZOMBIE"
    BY DEF FamilyInv
  <2> QED BY <1>1, <1>4, <2>1
<1>8. \A x \in Pids \ {init} : pn[x].pstate # "ALIVE" => pn[x].children = {}
  BY <1>1 DEF FamilyInv
<1>9. /\ pn[init].parent = NOPROC /\ Once(free) /\ \A x \in Pids : Has(free, x) <=> pn[x].pstate = "FREE"
      /\ \A x \in Pids : Once(pn[x].exited)
  BY <1>1, <1>2, <1>3 DEF FamilyInv
<1> QED BY <1>2, <1>5, <1>6, <1>7, <1>8, <1>9 DEF FamilyInv

-----------------------------------------------------------------------------
(***************************************************************************)
(* The threads of a process: a thread moves, starts or exits.              *)
(***************************************************************************)
\* t is somewhere else, in the same process.
Moved(th, tn, t) ==
    /\ tn[t].owner = th[t].owner
    /\ \A u \in Threads : u # t => tn[u] = th[u]

LEMMA CountMove ==
    ASSUME NEW pt, NEW pn, NEW th, NEW tn, NEW t \in Threads, CountInv(pt, th),
           Moved(th, tn, t), Alive(th, t), Alive(tn, t),
           \A p \in Pids : /\ pn[p].thread_count = pt[p].thread_count
                           /\ pn[p].main_task = pt[p].main_task
                           /\ pn[p].pstate = "ALIVE" <=> pt[p].pstate = "ALIVE"
    PROVE  CountInv(pn, tn)
<1>1. \A u \in Threads : (Alive(tn, u) <=> Alive(th, u)) /\ tn[u].owner = th[u].owner
  BY DEF Moved, Alive
<1>2. \A p \in Pids : Members(tn, p) = Members(th, p)
  BY <1>1 DEF Members
<1> QED BY <1>1, <1>2 DEF CountInv

LEMMA MembersFinite ==
    ASSUME NEW th, NEW p
    PROVE  IsFiniteSet(Members(th, p)) /\ Cardinality(Members(th, p)) \in Nat
<1>1. Members(th, p) \subseteq Threads
  BY DEF Members
<1>2. IsFiniteSet(Members(th, p))
  BY <1>1, LegacyProcAssumption, FS_Subset
<1> QED BY <1>2, FS_CardinalityType

\* Process p has n threads more, and a task.
MoreThreads(pt, pn, p, n) ==
    /\ pn[p].thread_count = pt[p].thread_count + n /\ pn[p].pstate = "ALIVE"
    /\ pn[p].main_task <=> n = 1
    /\ \A q \in Pids : q # p => /\ pn[q].thread_count = pt[q].thread_count
                                /\ pn[q].main_task = pt[q].main_task
                                /\ pn[q].pstate = pt[q].pstate

BeginsIn(th, tn, u, p) ==
    /\ th[u].pc = "none" /\ tn[u].pc = "user" /\ tn[u].owner = p
    /\ \A v \in Threads : v # u => tn[v] = th[v]

LEMMA CountStart ==
    ASSUME NEW pt, NEW pn, NEW th, NEW tn, NEW u \in Threads, NEW p \in Pids, CountInv(pt, th),
           BeginsIn(th, tn, u, p), MoreThreads(pt, pn, p, 1)
    PROVE  CountInv(pn, tn)
<1> USE DEF BeginsIn
<1>1. ~Alive(th, u) /\ Alive(tn, u) /\ \A v \in Threads : v # u => (Alive(tn, v) <=> Alive(th, v))
  BY DEF Alive
<1>2. \A q \in Pids : q # p => Members(tn, q) = Members(th, q)
  BY <1>1 DEF Members
<1>3. u \notin Members(th, p) /\ Members(tn, p) = Members(th, p) \cup {u}
  BY <1>1 DEF Members
<1>4. Cardinality(Members(tn, p)) = Cardinality(Members(th, p)) + 1
  <2> DEFINE A == Members(th, p)
  <2>1. IsFiniteSet(A)
    BY MembersFinite
  <2> HIDE DEF A
  <2>2. Cardinality(A \cup {u}) = Cardinality(A) + 1
    BY <1>3, <2>1, FS_AddElement DEF A
  <2> QED BY <1>3, <2>2 DEF A
<1>5. ASSUME NEW q \in Pids PROVE /\ pn[q].thread_count = Cardinality(Members(tn, q))
                                  /\ pn[q].pstate = "ALIVE" /\ pn[q].main_task <=> Members(tn, q) # {}
  <2>1. CASE q = p
    BY <1>3, <1>4, <2>1 DEF CountInv, MoreThreads
  <2>2. CASE q # p
    BY <1>2, <2>2 DEF CountInv, MoreThreads
  <2> QED BY <2>1, <2>2
<1>6. \A v \in Threads : Alive(tn, v) => tn[v].owner \in Pids
  BY <1>1 DEF CountInv
<1> QED BY <1>5, <1>6 DEF CountInv

\* The last thread of p is the only one that is not gone.
LEMMA LastThread ==
    ASSUME NEW pt, NEW th, NEW p \in Pids, NEW t \in Threads, CountInv(pt, th),
           Alive(th, t), th[t].owner = p
    PROVE  /\ pt[p].thread_count \in Nat \ {0} /\ pt[p].pstate = "ALIVE" /\ pt[p].main_task
           /\ pt[p].thread_count = 1 <=> Members(th, p) = {t}
<1> DEFINE A == Members(th, p)
<1>1. t \in A /\ IsFiniteSet(A) /\ Cardinality(A) \in Nat /\ pt[p].thread_count = Cardinality(A)
  <2>1. t \in A
    BY DEF Members
  <2>2. pt[p].thread_count = Cardinality(A)
    BY DEF CountInv
  <2> QED BY <2>1, <2>2, MembersFinite
<1>2. pt[p].pstate = "ALIVE" /\ pt[p].main_task
  BY <1>1 DEF CountInv
<1> HIDE DEF A
<1>3. Cardinality(A) # 0
  BY <1>1, FS_EmptySet
<1>4. Cardinality(A \ {t}) = Cardinality(A) - 1 /\ IsFiniteSet(A \ {t})
  BY <1>1, FS_RemoveElement
<1>5. Cardinality(A \ {t}) = 0 <=> A \ {t} = {}
  BY <1>4, FS_EmptySet
<1>6. Cardinality(A) = 1 <=> A = {t}
  BY <1>1, <1>4, <1>5
<1> QED BY <1>1, <1>2, <1>3, <1>6 DEF A

LEMMA CountExit ==
    ASSUME NEW pt, NEW pn, NEW th, NEW tn, NEW t \in Threads, NEW p \in Pids, CountInv(pt, th),
           Moved(th, tn, t), Alive(th, t), th[t].owner = p, tn[t].pc = "gone",
           \A q \in Pids : q # p => /\ pn[q].thread_count = pt[q].thread_count
                                    /\ pn[q].main_task = pt[q].main_task
                                    /\ pn[q].pstate = pt[q].pstate,
           pn[p].thread_count = pt[p].thread_count - 1, pn[p].main_task,
           pn[p].pstate = "ALIVE" <=> pt[p].thread_count # 1
    PROVE  CountInv(pn, tn)
<1> DEFINE A == Members(th, p)
<1>1. ~Alive(tn, t) /\ \A v \in Threads : v # t => (Alive(tn, v) <=> Alive(th, v)) /\ tn[v].owner = th[v].owner
  BY DEF Alive, Moved
<1>2. \A q \in Pids : q # p => Members(tn, q) = Members(th, q)
  BY <1>1 DEF Members
<1>3. Members(tn, p) = A \ {t} /\ t \in A
  BY <1>1 DEF Members
<1>4. IsFiniteSet(A) /\ pt[p].thread_count = Cardinality(A) /\ (pt[p].thread_count = 1 <=> A = {t})
  <2>1. pt[p].thread_count = Cardinality(A)
    BY DEF CountInv
  <2>2. pt[p].thread_count = 1 <=> A = {t}
    BY LastThread
  <2> QED BY <2>1, <2>2, MembersFinite
<1> HIDE DEF A
<1>5. Cardinality(A \ {t}) = Cardinality(A) - 1
  BY <1>3, <1>4, FS_RemoveElement
<1>6. A = {t} <=> A \ {t} = {}
  BY <1>3
<1>7. ASSUME NEW q \in Pids PROVE /\ pn[q].thread_count = Cardinality(Members(tn, q))
                                  /\ pn[q].pstate = "ALIVE" /\ pn[q].main_task <=> Members(tn, q) # {}
  <2>1. CASE q = p
    <3>1. pn[q].thread_count = Cardinality(Members(tn, q))
      BY <1>3, <1>4, <1>5, <2>1
    <3>2. pn[q].pstate = "ALIVE" /\ pn[q].main_task <=> Members(tn, q) # {}
      BY <1>3, <1>4, <1>6, <2>1
    <3> QED BY <3>1, <3>2
  <2>2. CASE q # p
    BY <1>2, <2>2 DEF CountInv
  <2> QED BY <2>1, <2>2
<1>8. \A v \in Threads : Alive(tn, v) => tn[v].owner \in Pids
  BY <1>1 DEF CountInv
<1> QED BY <1>7, <1>8 DEF CountInv

-----------------------------------------------------------------------------
(***************************************************************************)
(* Sleepers.  A step that adds none keeps their causes if it keeps the     *)
(* live children of the processes that have sleepers, and gives these no   *)
(* zombie.                                                                 *)
(***************************************************************************)
CauseKept(pt, pn, th, tn) ==
    /\ \A p \in Pids : \A u \in pn[p].child_exit : u \in pt[p].child_exit /\ tn[u] = th[u]
    /\ \A p, c \in Pids : pn[p].child_exit # {} /\ pt[c].pstate = "ALIVE" /\ pt[c].parent = p
                            => pn[c].pstate = "ALIVE"
    /\ \A p \in Pids : pn[p].child_exit # {} /\ pt[p].children # {} /\ pt[p].exited = <<>>
                         => pn[p].children # {} /\ pn[p].exited = <<>>

LEMMA CauseKeep ==
    ASSUME NEW pt \in [Pids -> PCB], NEW pn, NEW th, NEW tn, CauseInv(pt, th), TargetInv(pt, th),
           CauseKept(pt, pn, th, tn)
    PROVE  CauseInv(pn, tn)
<1> SUFFICES ASSUME NEW p \in Pids, NEW t \in pn[p].child_exit
             PROVE  /\ tn[t].owner = p /\ tn[t].pc \in Waiting
                    /\ tn[t].pc = "wait_child" => pn[tn[t].on].pstate = "ALIVE"
                    /\ tn[t].pc # "wait_child" => pn[p].children # {} /\ pn[p].exited = <<>>
  BY DEF CauseInv
<1>1. t \in pt[p].child_exit /\ tn[t] = th[t] /\ pn[p].child_exit # {}
  BY DEF CauseKept
<1>2. t \in Threads
  BY <1>1, Fields
<1>3. /\ th[t].owner = p /\ th[t].pc \in Waiting
      /\ th[t].pc = "wait_child" => pt[th[t].on].pstate = "ALIVE"
      /\ th[t].pc # "wait_child" => pt[p].children # {} /\ pt[p].exited = <<>>
  BY <1>1 DEF CauseInv
<1>4. ASSUME th[t].pc = "wait_child" PROVE pn[th[t].on].pstate = "ALIVE"
  <2>1. th[t].on \in Pids /\ pt[th[t].on].parent = p
    BY <1>2, <1>3, <1>4 DEF TargetInv
  <2> QED BY <1>1, <1>3, <1>4, <2>1 DEF CauseKept
<1>5. ASSUME th[t].pc # "wait_child" PROVE pn[p].children # {} /\ pn[p].exited = <<>>
  BY <1>1, <1>3, <1>5 DEF CauseKept
<1> QED BY <1>1, <1>3, <1>4, <1>5

LEMMA Awake ==
    ASSUME NEW pt, NEW th, NEW t, CauseInv(pt, th),
           th[t].pc \notin Waiting \/ t \notin pt[th[t].owner].child_exit
    PROVE  \A p \in Pids : t \notin pt[p].child_exit
BY DEF CauseInv

\* t goes to sleep, for a child that is alive or for any.
SleptTo(pt, pn, p, t) == \A x \in Pids :
    /\ pn[x].pstate = pt[x].pstate /\ pn[x].parent = pt[x].parent
    /\ pn[x].children = pt[x].children /\ pn[x].exited = pt[x].exited
    /\ pn[x].thread_count = pt[x].thread_count /\ pn[x].main_task = pt[x].main_task
    /\ pn[x].child_exit = IF x = p THEN pt[x].child_exit \cup {t} ELSE pt[x].child_exit

LEMMA SleptIs ==
    ASSUME NEW pt \in [Pids -> PCB], NEW p \in Pids, NEW t \in Threads, NEW pn,
           pn = [pt EXCEPT ![p].child_exit = @ \union {t}]
    PROVE  pn \in [Pids -> PCB] /\ SleptTo(pt, pn, p, t)
<1> DEFINE s == pt[p].child_exit \cup {t}
           v == [pt[p] EXCEPT !.child_exit = s]
<1>1. pn = [pt EXCEPT ![p] = v]
  OBVIOUS
<1>2. s \in SUBSET Threads /\ pt[p] \in PCB
  BY Fields
<1> HIDE DEF s
<1>3. /\ v \in PCB /\ v.pstate = pt[p].pstate /\ v.parent = pt[p].parent
      /\ v.children = pt[p].children /\ v.exited = pt[p].exited
      /\ v.thread_count = pt[p].thread_count /\ v.main_task = pt[p].main_task /\ v.child_exit = s
  BY <1>2 DEF PCB
<1> HIDE DEF v
<1>4. pn \in [Pids -> PCB] /\ pn[p] = v /\ \A x \in Pids : x # p => pn[x] = pt[x]
  BY <1>1, <1>3
<1> QED BY <1>3, <1>4 DEF SleptTo, s

LEMMA CauseSleep ==
    ASSUME NEW pt \in [Pids -> PCB], NEW pn, NEW th, NEW tn, NEW t \in Threads, NEW p \in Pids,
           CauseInv(pt, th), TargetInv(pt, th), Moved(th, tn, t), th[t].owner = p,
           SleptTo(pt, pn, p, t), tn[t].pc \in Waiting, \A x \in Pids : t \notin pt[x].child_exit,
           tn[t].pc = "wait_child" => tn[t].on \in Pids /\ pt[tn[t].on].pstate = "ALIVE",
           tn[t].pc # "wait_child" => pt[p].children # {} /\ pt[p].exited = <<>>
    PROVE  CauseInv(pn, tn)
<1> SUFFICES ASSUME NEW x \in Pids, NEW u \in pn[x].child_exit
             PROVE  /\ tn[u].owner = x /\ tn[u].pc \in Waiting
                    /\ tn[u].pc = "wait_child" => pn[tn[u].on].pstate = "ALIVE"
                    /\ tn[u].pc # "wait_child" => pn[x].children # {} /\ pn[x].exited = <<>>
  BY DEF CauseInv
<1>1. \A y \in Pids : pn[y].pstate = pt[y].pstate
  BY DEF SleptTo
<1>2. pn[x].children = pt[x].children /\ pn[x].exited = pt[x].exited
  BY DEF SleptTo
<1>3. CASE u = t
  <2>1. x = p
    BY <1>3 DEF SleptTo
  <2>2. tn[t].owner = p
    BY DEF Moved
  <2> QED BY <1>1, <1>2, <1>3, <2>1, <2>2
<1>4. CASE u # t
  <2>1. u \in pt[x].child_exit
    <3>1. pn[x].child_exit = IF x = p THEN pt[x].child_exit \cup {t} ELSE pt[x].child_exit
      BY DEF SleptTo
    <3> QED BY <1>4, <3>1
  <2>2. u \in Threads /\ tn[u] = th[u]
    <3>1. u \in Threads
      BY <2>1, Fields
    <3> QED BY <1>4, <3>1 DEF Moved
  <2>3. /\ th[u].owner = x /\ th[u].pc \in Waiting
        /\ th[u].pc = "wait_child" => pt[th[u].on].pstate = "ALIVE"
        /\ th[u].pc # "wait_child" => pt[x].children # {} /\ pt[x].exited = <<>>
    BY <2>1 DEF CauseInv
  <2>4. th[u].pc = "wait_child" => th[u].on \in Pids
    BY <2>2 DEF TargetInv
  <2> QED BY <1>1, <1>2, <2>2, <2>3, <2>4
<1> QED BY <1>3, <1>4

(***************************************************************************)
(* The children that threads wait for.  t moves, and begins to wait for    *)
(* any child only where no other thread of its process waits for one, and  *)
(* for a child only where no other thread may reap it.                     *)
(***************************************************************************)
TargetKept(pn, th, tn, t) ==
    /\ \A u \in Threads : u # t => tn[u] = th[u]
    /\ tn[t].pc # "wait_child"
    /\ tn[t].pc \in Waiting => \A u \in Threads : u # t /\ th[u].owner = tn[t].owner
                                                     => th[u].pc # "wait_child"
    /\ \A u \in Threads : u # t /\ th[u].pc = "wait_child" =>
            pn[th[u].on].pstate # "FREE" /\ pn[th[u].on].parent = th[u].owner

LEMMA TargetMove ==
    ASSUME NEW pt, NEW pn, NEW th, NEW tn, NEW t \in Threads, TargetInv(pt, th),
           TargetKept(pn, th, tn, t)
    PROVE  TargetInv(pn, tn)
<1> SUFFICES ASSUME NEW v \in Threads, tn[v].pc = "wait_child"
             PROVE  /\ tn[v].on \in Pids /\ pn[tn[v].on].pstate # "FREE"
                    /\ pn[tn[v].on].parent = tn[v].owner
                    /\ \A u \in Threads : u # v => ~MayReap(tn, u, tn[v].owner, tn[v].on)
  BY DEF TargetInv
<1>1. v # t /\ tn[v] = th[v]
  BY DEF TargetKept
<1>2. /\ th[v].on \in Pids
      /\ \A u \in Threads : u # v => ~MayReap(th, u, th[v].owner, th[v].on)
  BY <1>1 DEF TargetInv
<1>3. ASSUME NEW u \in Threads, u # v PROVE ~MayReap(tn, u, tn[v].owner, tn[v].on)
  <2>1. CASE u = t
    BY <1>1, <1>3, <2>1 DEF TargetKept, MayReap
  <2>2. CASE u # t
    BY <1>1, <1>2, <1>3, <2>2 DEF TargetKept, MayReap
  <2> QED BY <2>1, <2>2
<1> QED BY <1>1, <1>2, <1>3 DEF TargetKept

SleepsFor(pt, pn, th, tn, t) ==
    /\ Moved(th, tn, t) /\ tn[t].pc = "wait_child" /\ tn[t].on \in Pids
    /\ pt[tn[t].on].pstate # "FREE" /\ pt[tn[t].on].parent = th[t].owner
    /\ \A u \in Threads : u # t => ~MayReap(th, u, th[t].owner, tn[t].on)
    /\ \A x \in Pids : pn[x].pstate = pt[x].pstate /\ pn[x].parent = pt[x].parent

LEMMA TargetSleep ==
    ASSUME NEW pt, NEW pn, NEW th, NEW tn, NEW t \in Threads, TargetInv(pt, th),
           SleepsFor(pt, pn, th, tn, t)
    PROVE  TargetInv(pn, tn)
<1> USE DEF SleepsFor
<1> SUFFICES ASSUME NEW v \in Threads, tn[v].pc = "wait_child"
             PROVE  /\ tn[v].on \in Pids /\ pn[tn[v].on].pstate # "FREE"
                    /\ pn[tn[v].on].parent = tn[v].owner
                    /\ \A u \in Threads : u # v => ~MayReap(tn, u, tn[v].owner, tn[v].on)
  BY DEF TargetInv
<1>1. /\ tn[t].owner = th[t].owner
      /\ \A u \in Threads : u # t => tn[u] = th[u]
  BY DEF Moved
<1>2. CASE v = t
  BY <1>1, <1>2 DEF MayReap
<1>3. CASE v # t
  <2>1. tn[v] = th[v]
    BY <1>1, <1>3
  <2>2. /\ th[v].on \in Pids /\ pt[th[v].on].pstate # "FREE" /\ pt[th[v].on].parent = th[v].owner
        /\ \A u \in Threads : u # v => ~MayReap(th, u, th[v].owner, th[v].on)
    BY <2>1 DEF TargetInv
  <2>3. th[v].owner # th[t].owner \/ th[v].on # tn[t].on
    BY <1>3, <2>1 DEF MayReap, Waiting
  <2>4. ASSUME NEW u \in Threads, u # v PROVE ~MayReap(tn, u, tn[v].owner, tn[v].on)
    <3>1. CASE u = t
      BY <1>1, <2>1, <2>3, <3>1 DEF MayReap
    <3>2. CASE u # t
      BY <1>1, <2>1, <2>2, <2>4, <3>2 DEF MayReap
    <3> QED BY <3>1, <3>2
  <2> QED BY <2>1, <2>2, <2>4
<1> QED BY <1>2, <1>3

\* A thread that sleeps or waits is one of its process.
LEMMA SleeperMember ==
    ASSUME NEW pt \in [Pids -> PCB], NEW th, CauseInv(pt, th), NEW p \in Pids, NEW t
    PROVE  /\ t \in pt[p].child_exit => t \in Members(th, p)
           /\ t \in Threads /\ th[t].pc = "wait_child" => t \in Members(th, th[t].owner)
<1>1. t \in pt[p].child_exit => t \in Threads
  BY Fields
<1> QED BY <1>1 DEF CauseInv, Members, Alive, Waiting

\* No other thread waits for the child c that t takes, nor for one child if
\* t goes on waiting for any.
Unrivalled(th, tn, t, c) ==
    /\ \A u \in Threads : u # t /\ th[u].owner = th[t].owner /\ th[u].pc = "wait_child" => th[u].on # c
    /\ tn[t].pc \in Waiting => \A u \in Threads : u # t /\ th[u].owner = th[t].owner
                                                     => th[u].pc # "wait_child"

\* The changes of the table that WaitChild makes when it takes child c.
LEMMA ReapSleepers ==
    ASSUME NEW pt \in [Pids -> PCB], NEW free, FamilyInv(pt, free), NEW c \in Pids, c # init,
           pt[c].pstate = "ZOMBIE", NEW pn \in [Pids -> PCB], ReapedTo(pt, pn, c),
           NEW th, NEW tn, NEW t \in Threads, CauseInv(pt, th), TargetInv(pt, th), Moved(th, tn, t),
           tn[t].pc # "wait_child", \A p \in Pids : t \notin pt[p].child_exit,
           Unrivalled(th, tn, t, c), pt[c].parent = th[t].owner
    PROVE  CauseInv(pn, tn) /\ TargetInv(pn, tn)
<1>1. \A p \in Pids : /\ pn[p].pstate = IF p = c THEN "FREE" ELSE pt[p].pstate
                      /\ pn[p].parent = pt[p].parent /\ pn[p].children = pt[p].children \ {c}
                      /\ pn[p].child_exit = pt[p].child_exit
  BY DEF ReapedTo
<1>2. ASSUME NEW p \in Pids, NEW u \in pn[p].child_exit PROVE u \in pt[p].child_exit /\ tn[u] = th[u]
  <2>1. u \in pt[p].child_exit
    BY <1>1, <1>2
  <2>2. u \in Threads /\ u # t
    BY <2>1, Fields
  <2> QED BY <2>1, <2>2 DEF Moved
<1>3. \A p, d \in Pids : pn[p].child_exit # {} /\ pt[d].pstate = "ALIVE" /\ pt[d].parent = p
                           => pn[d].pstate = "ALIVE"
  BY <1>1
<1>4. ASSUME NEW p \in Pids, pt[p].children # {}, pt[p].exited = <<>>
      PROVE  pn[p].children # {} /\ pn[p].exited = <<>>
  <2>1. \A x : ~Has(pt[p].exited, x)
    BY <1>4 DEF Has
  <2>2. c \notin pt[p].children
    BY <2>1 DEF FamilyInv
  <2>3. \A x : ~Has(pn[p].exited, x)
    BY <2>1 DEF ReapedTo
  <2>4. pn[p].exited = <<>>
    BY <2>3, EmptyHas, Fields
  <2> QED BY <1>1, <1>4, <2>2, <2>4
<1>5. CauseInv(pn, tn)
  <2>8. CauseKept(pt, pn, th, tn)
    BY <1>2, <1>3, <1>4 DEF CauseKept
  <2> QED BY <2>8, CauseKeep
<1>6. ASSUME NEW u \in Threads, u # t, th[u].pc = "wait_child"
      PROVE  pn[th[u].on].pstate # "FREE" /\ pn[th[u].on].parent = th[u].owner
  <2>1. th[u].on \in Pids /\ pt[th[u].on].pstate # "FREE" /\ pt[th[u].on].parent = th[u].owner
    BY <1>6 DEF TargetInv
  <2>2. th[u].on # c
    BY <1>6, <2>1 DEF Unrivalled
  <2> QED BY <1>1, <2>1, <2>2
<1>7. /\ \A u \in Threads : u # t => tn[u] = th[u]
      /\ tn[t].pc \in Waiting => \A u \in Threads : u # t /\ th[u].owner = tn[t].owner
                                                       => th[u].pc # "wait_child"
  BY DEF Moved, Unrivalled
<1>8. TargetInv(pn, tn)
  <2>8. TargetKept(pn, th, tn, t)
    BY <1>6, <1>7 DEF TargetKept
  <2> QED BY <2>8, TargetMove
<1> QED BY <1>5, <1>8

\* The last thread t of p exits.
LEMMA ExitSleepers ==
    ASSUME NEW pt \in [Pids -> PCB], NEW free, FamilyInv(pt, free), NEW p \in Pids, p # init,
           pt[p].pstate = "ALIVE", NEW pn \in [Pids -> PCB], ExitedTo(pt, pn, p),
           NEW th, NEW tn, NEW t \in Threads, CauseInv(pt, th), TargetInv(pt, th), Moved(th, tn, t),
           tn[t].pc = "gone", \A x \in Pids : t \notin pt[x].child_exit, Members(th, p) = {t}
    PROVE  CauseInv(pn, tn) /\ TargetInv(pn, tn)
<1>1. \A x \in Pids :
        /\ pn[x].pstate = IF x = p THEN "ZOMBIE" ELSE pt[x].pstate
        /\ pn[x].parent = IF x \in pt[p].children THEN init ELSE pt[x].parent
        /\ pn[x].child_exit = IF x = pt[p].parent \/ (x = init /\ pt[p].exited # <<>>)
                              THEN {} ELSE pt[x].child_exit
  BY DEF ExitedTo
<1>2. pt[p].child_exit = {}
  BY SleeperMember
<1>3. ASSUME NEW x \in Pids, NEW u \in pn[x].child_exit PROVE u \in pt[x].child_exit /\ tn[u] = th[u]
  <2>1. u \in pt[x].child_exit
    BY <1>1, <1>3
  <2>2. u \in Threads /\ u # t
    BY <2>1, Fields
  <2> QED BY <2>1, <2>2 DEF Moved
<1>4. ASSUME NEW x \in Pids, NEW d \in Pids, pn[x].child_exit # {}, pt[d].pstate = "ALIVE",
             pt[d].parent = x
      PROVE  pn[d].pstate = "ALIVE"
  <2>1. d # p
    BY <1>1, <1>4
  <2> QED BY <1>1, <1>4, <2>1
<1>5. ASSUME NEW x \in Pids, pn[x].child_exit # {}, pt[x].children # {}, pt[x].exited = <<>>
      PROVE  pn[x].children # {} /\ pn[x].exited = <<>>
  <2>1. x # pt[p].parent /\ (x = init => pt[p].exited = <<>>) /\ x # p
    BY <1>1, <1>2, <1>5
  <2>2. \A y : ~Has(pt[x].exited, y) /\ (x = init => ~Has(pt[p].exited, y))
    BY <1>5, <2>1 DEF Has
  <2>3. \A y : ~Has(pn[x].exited, y)
    BY <2>1, <2>2 DEF ExitedTo
  <2>4. pn[x].exited = <<>>
    BY <2>3, EmptyHas, Fields
  <2>5. pn[x].children = pt[x].children \cup Handed(pt, p, x)
    BY <2>1 DEF ExitedTo
  <2> QED BY <1>5, <2>4, <2>5
<1>6. CauseInv(pn, tn)
  <2>1. \A x, d \in Pids : pn[x].child_exit # {} /\ pt[d].pstate = "ALIVE" /\ pt[d].parent = x
                             => pn[d].pstate = "ALIVE"
    BY <1>4
  <2>2. \A x \in Pids : pn[x].child_exit # {} /\ pt[x].children # {} /\ pt[x].exited = <<>>
                          => pn[x].children # {} /\ pn[x].exited = <<>>
    BY <1>5
  <2>8. CauseKept(pt, pn, th, tn)
    BY <1>3, <2>1, <2>2 DEF CauseKept
  <2> QED BY <2>8, CauseKeep
<1>7. ASSUME NEW u \in Threads, u # t, th[u].pc = "wait_child"
      PROVE  pn[th[u].on].pstate # "FREE" /\ pn[th[u].on].parent = th[u].owner
  <2>1. th[u].on \in Pids /\ pt[th[u].on].pstate # "FREE" /\ pt[th[u].on].parent = th[u].owner
    BY <1>7 DEF TargetInv
  <2>2. th[u].owner # p
    BY <1>7, SleeperMember
  <2>3. th[u].on \notin pt[p].children
    BY <2>1, <2>2 DEF FamilyInv
  <2> QED BY <1>1, <2>1, <2>3
<1>8. /\ \A u \in Threads : u # t => tn[u] = th[u]
      /\ tn[t].pc \notin Waiting /\ tn[t].pc # "wait_child"
  BY DEF Moved, Waiting
<1>9. TargetInv(pn, tn)
  <2>8. TargetKept(pn, th, tn, t)
    BY <1>7, <1>8 DEF TargetKept
  <2> QED BY <2>8, TargetMove
<1> QED BY <1>6, <1>9

\* t moves, to where it does not wait, and families and sleepers stay.
Leaves(pt, th, tn, t) ==
    /\ \A u \in Threads : u # t => tn[u] = th[u]
    /\ tn[t].pc \notin Waiting /\ \A x \in Pids : t \notin pt[x].child_exit
Quiet(pt, pn, th, tn, t) ==
    /\ Leaves(pt, th, tn, t)
    /\ \A x \in Pids : pn[x].child_exit = pt[x].child_exit /\ pn[x].exited = pt[x].exited
                        /\ pt[x].children \subseteq pn[x].children
    /\ \A c \in Pids : pt[c].pstate # "FREE" /\ pt[c].parent \in Pids
                => pn[c].pstate = pt[c].pstate /\ pn[c].parent = pt[c].parent
    /\ \A u \in Threads : th[u].pc = "wait_child" => th[u].owner \in Pids

LEMMA QuietSleepers ==
    ASSUME NEW pt \in [Pids -> PCB], NEW pn, NEW th, NEW tn, NEW t \in Threads,
           CauseInv(pt, th), TargetInv(pt, th), Quiet(pt, pn, th, tn, t)
    PROVE  CauseInv(pn, tn) /\ TargetInv(pn, tn)
<1> USE DEF Quiet, Leaves
<1>1. ASSUME NEW x \in Pids, NEW u \in pn[x].child_exit PROVE u \in pt[x].child_exit /\ tn[u] = th[u]
  <2>1. u \in pt[x].child_exit
    BY <1>1
  <2>2. u \in Threads /\ u # t
    BY <2>1, Fields
  <2> QED BY <2>1, <2>2
<1>2. CauseInv(pn, tn)
  <2>1. \A x, c \in Pids : pn[x].child_exit # {} /\ pt[c].pstate = "ALIVE" /\ pt[c].parent = x
                                => pn[c].pstate = "ALIVE"
    OBVIOUS
  <2>2. \A x \in Pids : pn[x].child_exit # {} /\ pt[x].children # {} /\ pt[x].exited = <<>>
                                => pn[x].children # {} /\ pn[x].exited = <<>>
    OBVIOUS
  <2>8. CauseKept(pt, pn, th, tn)
    BY <1>1, <2>1, <2>2 DEF CauseKept
  <2> QED BY <2>8, CauseKeep
<1>3. ASSUME NEW u \in Threads, u # t, th[u].pc = "wait_child"
      PROVE  pn[th[u].on].pstate # "FREE" /\ pn[th[u].on].parent = th[u].owner
  <2>1. th[u].on \in Pids /\ pt[th[u].on].pstate # "FREE" /\ pt[th[u].on].parent = th[u].owner
    BY <1>3 DEF TargetInv
  <2> QED BY <1>3, <2>1
<1>4. tn[t].pc # "wait_child"
  BY DEF Waiting
<1>5. TargetInv(pn, tn)
  <2>8. TargetKept(pn, th, tn, t)
    BY <1>3, <1>4 DEF TargetKept
  <2> QED BY <2>8, TargetMove
<1> QED BY <1>2, <1>5

-----------------------------------------------------------------------------
(***************************************************************************)
(* PTCBs and joins.                                                        *)
(***************************************************************************)
OwnInv(th, pb) == \A u \in Threads :
    /\ th[u].pc = "none" => pb[u].in = NOPROC
    /\ Alive(th, u) => pb[u].in = th[u].owner /\ ~pb[u].exited
JoinerInv(th, pb) == \A t \in Threads : th[t].pc = "join" =>
    /\ th[t].on \in Threads /\ pb[th[t].on].in = th[t].owner
    /\ t \notin pb[th[t].on].exit_cv => pb[th[t].on].exited \/ pb[th[t].on].detached
RefInv(th, pb) == \A u \in Threads : pb[u].in # NOPROC /\ ~pb[u].detached =>
    pb[u].refcount = Cardinality(Joiners(th, u))

LEMMA JoinParts ==
    ASSUME NEW th, NEW pb
    PROVE  JoinInv(th, pb) <=> OwnInv(th, pb) /\ JoinerInv(th, pb) /\ RefInv(th, pb)
BY DEF JoinInv, OwnInv, JoinerInv, RefInv

LEMMA JoinersFinite ==
    ASSUME NEW th, NEW u
    PROVE  IsFiniteSet(Joiners(th, u)) /\ Cardinality(Joiners(th, u)) \in Nat
<1>1. Joiners(th, u) \subseteq Threads
  BY DEF Joiners
<1>2. IsFiniteSet(Joiners(th, u))
  BY <1>1, LegacyProcAssumption, FS_Subset
<1> QED BY <1>2, FS_CardinalityType

\* A step that moves t, which does not join before or after it.
LEMMA JoinMove ==
    ASSUME NEW th, NEW tn, NEW pb, NEW t \in Threads, JoinInv(th, pb), Moved(th, tn, t),
           Alive(th, t), th[t].pc # "join", Alive(tn, t), tn[t].pc # "join"
    PROVE  JoinInv(tn, pb)
<1>1. \A u \in Threads : u # t => tn[u] = th[u]
  BY DEF Moved
<1>2. \A u \in Threads : Joiners(tn, u) = Joiners(th, u)
  BY <1>1 DEF Joiners
<1>3. OwnInv(tn, pb)
  <2>1. ASSUME NEW u \in Threads PROVE /\ tn[u].pc = "none" => pb[u].in = NOPROC
                                       /\ Alive(tn, u) => pb[u].in = tn[u].owner /\ ~pb[u].exited
    <3>1. CASE u = t
      BY <3>1 DEF JoinInv, Moved, Alive
    <3>2. CASE u # t
      BY <1>1, <3>2 DEF JoinInv, Alive
    <3> QED BY <3>1, <3>2
  <2> QED BY <2>1 DEF OwnInv
<1>4. JoinerInv(tn, pb)
  BY <1>1 DEF JoinInv, JoinerInv
<1>5. RefInv(tn, pb)
  BY <1>2 DEF JoinInv, RefInv
<1> QED BY <1>3, <1>4, <1>5, JoinParts

\* u starts in p, with a new PTCB.
NewThread(th, tn, pb, pn, u, p) ==
    /\ tn[u].pc = "user" /\ tn[u].owner = p
    /\ \A v \in Threads : v # u => tn[v] = th[v] /\ pn[v] = pb[v]
    /\ pn[u].in = p /\ ~pn[u].exited /\ pn[u].refcount = 0

LEMMA JoinStart ==
    ASSUME NEW th, NEW tn, NEW pb, NEW pn, NEW u \in Threads, NEW p \in Pids, JoinInv(th, pb),
           th[u].pc = "none", \A v \in Threads : Alive(th, v) => th[v].owner \in Pids,
           NewThread(th, tn, pb, pn, u, p)
    PROVE  JoinInv(tn, pn)
<1> USE DEF NewThread
<1>1. ASSUME NEW t \in Threads, th[t].pc = "join" PROVE th[t].on # u /\ th[t].on \in Threads /\ t # u
  <2>1. th[t].on \in Threads /\ pb[th[t].on].in = th[t].owner
    BY <1>1 DEF JoinInv
  <2>2. th[t].owner \in Pids
    BY <1>1 DEF Alive
  <2>3. pb[u].in = NOPROC
    BY DEF JoinInv
  <2> QED BY <1>1, <2>1, <2>2, <2>3, PidTypes
<1>2. OwnInv(tn, pn)
  <2>1. ASSUME NEW v \in Threads PROVE /\ tn[v].pc = "none" => pn[v].in = NOPROC
                                       /\ Alive(tn, v) => pn[v].in = tn[v].owner /\ ~pn[v].exited
    <3>1. CASE v = u
      BY <3>1
    <3>2. CASE v # u
      BY <3>2 DEF JoinInv, Alive
    <3> QED BY <3>1, <3>2
  <2> QED BY <2>1 DEF OwnInv
<1>3. JoinerInv(tn, pn)
  <2>1. ASSUME NEW t \in Threads, tn[t].pc = "join"
        PROVE  /\ tn[t].on \in Threads /\ pn[tn[t].on].in = tn[t].owner
               /\ t \notin pn[tn[t].on].exit_cv => pn[tn[t].on].exited \/ pn[tn[t].on].detached
    <3>1. t # u /\ tn[t] = th[t]
      BY <2>1
    <3>2. th[t].on # u /\ th[t].on \in Threads
      BY <1>1, <2>1, <3>1
    <3>3. pn[th[t].on] = pb[th[t].on]
      BY <3>2
    <3> QED BY <2>1, <3>1, <3>2, <3>3 DEF JoinInv
  <2> QED BY <2>1 DEF JoinerInv
<1>4. \A v \in Threads : v # u => Joiners(tn, v) = Joiners(th, v)
  BY DEF Joiners
<1>5. Joiners(tn, u) = {}
  BY <1>1 DEF Joiners
<1>6. RefInv(tn, pn)
  <2>1. ASSUME NEW v \in Threads, pn[v].in # NOPROC, ~pn[v].detached
        PROVE  pn[v].refcount = Cardinality(Joiners(tn, v))
    <3>1. CASE v = u
      BY <1>5, <3>1, FS_EmptySet
    <3>2. CASE v # u
      BY <1>4, <2>1, <3>2 DEF JoinInv
    <3> QED BY <3>1, <3>2
  <2> QED BY <2>1 DEF RefInv
<1> QED BY <1>2, <1>3, <1>6, JoinParts

\* t waits for the exit of u.
LEMMA JoinWait ==
    ASSUME NEW th, NEW tn, NEW pb, NEW pn, NEW t \in Threads, NEW u \in Threads, JoinInv(th, pb),
           Moved(th, tn, t), Alive(th, t), th[t].pc # "join", tn[t].pc = "join", tn[t].on = u,
           pb[u].in = th[t].owner, \A v \in Threads : v # u => pn[v] = pb[v],
           pn[u].in = pb[u].in, pn[u].exited = pb[u].exited, pn[u].detached = pb[u].detached,
           pn[u].refcount = pb[u].refcount + 1, pn[u].exit_cv = pb[u].exit_cv \cup {t}
    PROVE  JoinInv(tn, pn)
<1>1. tn[t].owner = th[t].owner /\ \A v \in Threads : v # t => tn[v] = th[v]
  BY DEF Moved
<1>2. OwnInv(tn, pn)
  <2>1. ASSUME NEW v \in Threads PROVE /\ tn[v].pc = "none" => pn[v].in = NOPROC
                                       /\ Alive(tn, v) => pn[v].in = tn[v].owner /\ ~pn[v].exited
    <3>1. pn[v].in = pb[v].in /\ pn[v].exited = pb[v].exited
      OBVIOUS
    <3>2. CASE v = t
      BY <1>1, <3>1, <3>2 DEF JoinInv, Alive
    <3>3. CASE v # t
      BY <1>1, <3>1, <3>3 DEF JoinInv, Alive
    <3> QED BY <3>2, <3>3
  <2> QED BY <2>1 DEF OwnInv
<1>3. JoinerInv(tn, pn)
  <2>1. ASSUME NEW v \in Threads, tn[v].pc = "join"
        PROVE  /\ tn[v].on \in Threads /\ pn[tn[v].on].in = tn[v].owner
               /\ v \notin pn[tn[v].on].exit_cv => pn[tn[v].on].exited \/ pn[tn[v].on].detached
    <3>1. CASE v = t
      BY <1>1, <3>1
    <3>2. CASE v # t
      <4>1. /\ th[v].on \in Threads /\ pb[th[v].on].in = th[v].owner
            /\ v \notin pb[th[v].on].exit_cv => pb[th[v].on].exited \/ pb[th[v].on].detached
        BY <1>1, <2>1, <3>2 DEF JoinInv
      <4>2. CASE th[v].on = u
        BY <1>1, <3>2, <4>1, <4>2
      <4>3. CASE th[v].on # u
        BY <1>1, <3>2, <4>1, <4>3
      <4> QED BY <4>2, <4>3
    <3> QED BY <3>1, <3>2
  <2> QED BY <2>1 DEF JoinerInv
<1>4. \A v \in Threads : v # u => Joiners(tn, v) = Joiners(th, v)
  BY <1>1 DEF Joiners
<1>5. Cardinality(Joiners(tn, u)) = Cardinality(Joiners(th, u)) + 1
  <2> DEFINE A == Joiners(th, u)
  <2>1. Joiners(tn, u) = A \cup {t} /\ t \notin A
    BY <1>1 DEF Joiners
  <2>2. IsFiniteSet(A)
    BY JoinersFinite
  <2> HIDE DEF A
  <2>3. Cardinality(A \cup {t}) = Cardinality(A) + 1
    BY <2>1, <2>2, FS_AddElement
  <2> QED BY <2>1, <2>3 DEF A
<1>6. RefInv(tn, pn)
  <2>1. ASSUME NEW v \in Threads, pn[v].in # NOPROC, ~pn[v].detached
        PROVE  pn[v].refcount = Cardinality(Joiners(tn, v))
    <3>1. CASE v = u
      <4>1. pb[u].refcount = Cardinality(Joiners(th, u))
        BY <2>1, <3>1 DEF JoinInv
      <4> QED BY <1>5, <3>1, <4>1
    <3>2. CASE v # u
      BY <1>4, <2>1, <3>2 DEF JoinInv
    <3> QED BY <3>1, <3>2
  <2> QED BY <2>1 DEF RefInv
<1> QED BY <1>2, <1>3, <1>6, JoinParts

\* A join of u, which has exited, has returned: the last one frees the PTCB.
Freed(tn, pb, pn, u) ==
    /\ pb[u].exited
    /\ \A v \in Threads : v # u => /\ pn[v] = pb[v]
                                   /\ pb[v].in # NOPROC /\ ~pb[v].detached =>
                                        pb[v].refcount = Cardinality(Joiners(tn, v))
    /\ pn[u].exited = pb[u].exited /\ pn[u].refcount = Cardinality(Joiners(tn, u))
    /\ pn[u].in = IF Cardinality(Joiners(tn, u)) = 0 THEN NOPROC ELSE pb[u].in

LEMMA JoinFreed ==
    ASSUME NEW tn, NEW pb, NEW pn, NEW u \in Threads, OwnInv(tn, pb), JoinerInv(tn, pb),
           Freed(tn, pb, pn, u)
    PROVE  JoinInv(tn, pn)
<1> USE DEF Freed
<1>1. ASSUME NEW t \in Threads, tn[t].pc = "join", tn[t].on = u PROVE pn[u].in = pb[u].in
  <2>1. t \in Joiners(tn, u)
    BY <1>1 DEF Joiners
  <2>2. Cardinality(Joiners(tn, u)) # 0
    BY <2>1, JoinersFinite, FS_EmptySet
  <2> QED BY <2>2
<1>2. OwnInv(tn, pn)
  <2>1. ASSUME NEW v \in Threads PROVE /\ tn[v].pc = "none" => pn[v].in = NOPROC
                                       /\ Alive(tn, v) => pn[v].in = tn[v].owner /\ ~pn[v].exited
    <3>1. CASE v = u
      BY <3>1 DEF OwnInv
    <3>2. CASE v # u
      BY <3>2 DEF OwnInv
    <3> QED BY <3>1, <3>2
  <2> QED BY <2>1 DEF OwnInv
<1>3. JoinerInv(tn, pn)
  <2>1. ASSUME NEW t \in Threads, tn[t].pc = "join"
        PROVE  /\ tn[t].on \in Threads /\ pn[tn[t].on].in = tn[t].owner
               /\ t \notin pn[tn[t].on].exit_cv => pn[tn[t].on].exited \/ pn[tn[t].on].detached
    <3>1. /\ tn[t].on \in Threads /\ pb[tn[t].on].in = tn[t].owner
          /\ t \notin pb[tn[t].on].exit_cv => pb[tn[t].on].exited \/ pb[tn[t].on].detached
      BY <2>1 DEF JoinerInv
    <3>2. CASE tn[t].on = u
      BY <1>1, <2>1, <3>1, <3>2
    <3>3. CASE tn[t].on # u
      BY <3>1, <3>3
    <3> QED BY <3>2, <3>3
  <2> QED BY <2>1 DEF JoinerInv
<1>4. RefInv(tn, pn)
  BY DEF RefInv
<1> QED BY <1>2, <1>3, <1>4, JoinParts

\* t, which waited for u, goes on in its program.
LEMMA JoinLeft ==
    ASSUME NEW th, NEW tn, NEW pb, NEW t \in Threads, NEW u \in Threads, JoinInv(th, pb),
           Moved(th, tn, t), th[t].pc = "join", th[t].on = u, tn[t].pc = "user"
    PROVE  /\ OwnInv(tn, pb) /\ JoinerInv(tn, pb)
           /\ \A v \in Threads : v # u => Joiners(tn, v) = Joiners(th, v)
           /\ Cardinality(Joiners(tn, u)) = Cardinality(Joiners(th, u)) - 1
<1>1. tn[t].owner = th[t].owner /\ \A v \in Threads : v # t => tn[v] = th[v]
  BY DEF Moved
<1>2. OwnInv(tn, pb)
  <2>1. ASSUME NEW v \in Threads PROVE /\ tn[v].pc = "none" => pb[v].in = NOPROC
                                       /\ Alive(tn, v) => pb[v].in = tn[v].owner /\ ~pb[v].exited
    <3>1. CASE v = t
      BY <1>1, <3>1 DEF JoinInv, Alive
    <3>2. CASE v # t
      BY <1>1, <3>2 DEF JoinInv, Alive
    <3> QED BY <3>1, <3>2
  <2> QED BY <2>1 DEF OwnInv
<1>3. JoinerInv(tn, pb)
  BY <1>1 DEF JoinInv, JoinerInv
<1>4. \A v \in Threads : v # u => Joiners(tn, v) = Joiners(th, v)
  BY <1>1 DEF Joiners
<1>5. Cardinality(Joiners(tn, u)) = Cardinality(Joiners(th, u)) - 1
  <2> DEFINE A == Joiners(th, u)
  <2>1. Joiners(tn, u) = A \ {t} /\ t \in A
    BY <1>1 DEF Joiners
  <2>2. IsFiniteSet(A)
    BY JoinersFinite
  <2> HIDE DEF A
  <2>3. Cardinality(A \ {t}) = Cardinality(A) - 1
    BY <2>1, <2>2, FS_RemoveElement
  <2> QED BY <2>1, <2>3 DEF A
<1> QED BY <1>2, <1>3, <1>4, <1>5

\* u is detached, or it exits and wakes those who join it.
LEMMA JoinDetach ==
    ASSUME NEW th, NEW pb, NEW pn, NEW u \in Threads, JoinInv(th, pb),
           \A v \in Threads : v # u => pn[v] = pb[v],
           pn[u].in = pb[u].in, pn[u].exited = pb[u].exited, pn[u].detached
    PROVE  JoinInv(th, pn)
<1>1. OwnInv(th, pn)
  <2>1. \A v \in Threads : pn[v].in = pb[v].in /\ pn[v].exited = pb[v].exited
    OBVIOUS
  <2> QED BY <2>1 DEF JoinInv, OwnInv
<1>2. JoinerInv(th, pn)
  <2>1. ASSUME NEW t \in Threads, th[t].pc = "join"
        PROVE  /\ th[t].on \in Threads /\ pn[th[t].on].in = th[t].owner
               /\ t \notin pn[th[t].on].exit_cv => pn[th[t].on].exited \/ pn[th[t].on].detached
    <3>1. /\ th[t].on \in Threads /\ pb[th[t].on].in = th[t].owner
          /\ t \notin pb[th[t].on].exit_cv => pb[th[t].on].exited \/ pb[th[t].on].detached
      BY <2>1 DEF JoinInv
    <3>2. CASE th[t].on = u
      BY <3>1, <3>2
    <3>3. CASE th[t].on # u
      BY <3>1, <3>3
    <3> QED BY <3>2, <3>3
  <2> QED BY <2>1 DEF JoinerInv
<1>3. RefInv(th, pn)
  BY DEF JoinInv, RefInv
<1> QED BY <1>1, <1>2, <1>3, JoinParts

LEMMA JoinExit ==
    ASSUME NEW th, NEW tn, NEW pb, NEW pn, NEW t \in Threads, JoinInv(th, pb),
           Moved(th, tn, t), th[t].pc # "join", tn[t].pc = "gone",
           \A v \in Threads : v # t => pn[v] = pb[v],
           pn[t].in = pb[t].in, pn[t].exited, pn[t].detached = pb[t].detached,
           pn[t].refcount = pb[t].refcount
    PROVE  JoinInv(tn, pn)
<1>1. tn[t].owner = th[t].owner /\ \A v \in Threads : v # t => tn[v] = th[v]
  BY DEF Moved
<1>2. \A v \in Threads : Joiners(tn, v) = Joiners(th, v)
  BY <1>1 DEF Joiners
<1>3. OwnInv(tn, pn)
  <2>1. ASSUME NEW v \in Threads PROVE /\ tn[v].pc = "none" => pn[v].in = NOPROC
                                       /\ Alive(tn, v) => pn[v].in = tn[v].owner /\ ~pn[v].exited
    <3>1. CASE v = t
      BY <3>1 DEF Alive
    <3>2. CASE v # t
      BY <1>1, <3>2 DEF JoinInv, Alive
    <3> QED BY <3>1, <3>2
  <2> QED BY <2>1 DEF OwnInv
<1>4. JoinerInv(tn, pn)
  <2>1. ASSUME NEW v \in Threads, tn[v].pc = "join"
        PROVE  /\ tn[v].on \in Threads /\ pn[tn[v].on].in = tn[v].owner
               /\ v \notin pn[tn[v].on].exit_cv => pn[tn[v].on].exited \/ pn[tn[v].on].detached
    <3>1. v # t /\ tn[v] = th[v]
      BY <1>1, <2>1
    <3>2. /\ th[v].on \in Threads /\ pb[th[v].on].in = th[v].owner
          /\ v \notin pb[th[v].on].exit_cv => pb[th[v].on].exited \/ pb[th[v].on].detached
      BY <2>1, <3>1 DEF JoinInv
    <3>3. CASE th[v].on = t
      BY <3>1, <3>2, <3>3
    <3>4. CASE th[v].on # t
      BY <3>1, <3>2, <3>4
    <3> QED BY <3>3, <3>4
  <2> QED BY <2>1 DEF JoinerInv
<1>5. RefInv(tn, pn)
  <2>1. ASSUME NEW v \in Threads, pn[v].in # NOPROC, ~pn[v].detached
        PROVE  pn[v].refcount = Cardinality(Joiners(tn, v))
    <3>1. pn[v].in = pb[v].in /\ pn[v].detached = pb[v].detached /\ pn[v].refcount = pb[v].refcount
      OBVIOUS
    <3> QED BY <1>2, <2>1, <3>1 DEF JoinInv
  <2> QED BY <2>1 DEF RefInv
<1> QED BY <1>3, <1>4, <1>5, JoinParts

-----------------------------------------------------------------------------
(***************************************************************************)
(* The steps that the system calls are made of.                            *)
(***************************************************************************)
LEMMA AtIs ==
    ASSUME TypeOK, NEW t \in Threads, NEW pc, NEW on, At(t, pc, on),
           pc \in {"user", "wait_child", "wait_any", "exit", "join", "gone"},
           on \in Pids \cup Threads \cup {NOPROC}
    PROVE  /\ thread' \in [Threads -> TCB] /\ Moved(thread, thread', t)
           /\ thread'[t].pc = pc /\ thread'[t].on = on
<1> DEFINE v == [thread[t] EXCEPT !.pc = pc, !.on = on]
<1>1. thread \in [Threads -> TCB] /\ thread[t] \in TCB
  BY DEF TypeOK
<1>2. thread' = [thread EXCEPT ![t] = v]
  BY <1>1 DEF At
<1>3. v \in TCB /\ v.pc = pc /\ v.on = on /\ v.owner = thread[t].owner
  BY <1>1 DEF TCB
<1> HIDE DEF v
<1>4. thread' \in [Threads -> TCB] /\ thread'[t] = v /\ \A u \in Threads : u # t => thread'[u] = thread[u]
  BY <1>1, <1>2, <1>3
<1> QED BY <1>3, <1>4 DEF Moved

LEMMA InfoKeep ==
    ASSUME TypeOK, NEW pn, InfoInv(PT, info),
           \A p \in Pids : PT[p].pstate # "FREE" => pn[p].pstate # "FREE"
    PROVE  InfoInv(pn, info)
<1>1. info.present \subseteq Pids
  BY DEF TypeOK
<1> QED BY <1>1 DEF InfoInv

\* t sleeps until a child exits.
LEMMA SleepStep ==
    ASSUME LInv, NEW t \in Threads, Alive(thread, t), thread[t].pc # "join",
           \A x \in Pids : t \notin PT[x].child_exit,
           NEW pc \in Waiting, NEW on \in Pids \cup {NOPROC}, Sleeps(t, pc, on),
           pc = "wait_child" => /\ on \in Pids /\ PT[on].pstate = "ALIVE" /\ PT[on].parent = CURPROC(t)
                                /\ \A u \in Threads : u # t => ~MayReap(thread, u, CURPROC(t), on),
           pc # "wait_child" => /\ PT[CURPROC(t)].children # {} /\ PT[CURPROC(t)].exited = <<>>
                                /\ \A u \in Threads : u # t /\ CURPROC(u) = CURPROC(t)
                                                        => thread[u].pc # "wait_child"
    PROVE  LInv'
<1> DEFINE p == CURPROC(t)
           tn == thread'
           pn == PT'
<1>1. p \in Pids /\ thread[t].owner = p
  BY DEF LInv, CountInv, CURPROC
<1>2. PT \in [Pids -> PCB] /\ TypeOK
  BY DEF LInv, TypeOK
<1>3. pn \in [Pids -> PCB] /\ SleptTo(PT, pn, p, t)
  BY <1>1, <1>2, SleptIs DEF Sleeps
<1>4. tn \in [Threads -> TCB] /\ Moved(thread, tn, t) /\ tn[t].pc = pc /\ tn[t].on = on
  BY <1>2, AtIs DEF Sleeps, Waiting
<1>5. UNCHANGED <<pcb_freelist, ptcb, info>>
  BY DEF Sleeps
<1>6. \A x \in Pids : /\ pn[x].pstate = PT[x].pstate /\ pn[x].parent = PT[x].parent
                      /\ pn[x].thread_count = PT[x].thread_count
                      /\ pn[x].main_task = PT[x].main_task
  BY <1>3 DEF SleptTo
<1>7. Alive(tn, t) /\ tn[t].pc # "join"
  BY <1>4 DEF Alive, Waiting
<1>8. tn[t].owner = p /\ \A u \in Threads : u # t => tn[u] = thread[u]
  BY <1>1, <1>4 DEF Moved
<1>9. /\ pc = "wait_child" => /\ on \in Pids /\ PT[on].pstate = "ALIVE" /\ PT[on].parent = p
                              /\ \A u \in Threads : u # t => ~MayReap(thread, u, p, on)
      /\ pc # "wait_child" => /\ PT[p].children # {} /\ PT[p].exited = <<>>
                              /\ \A u \in Threads : u # t /\ thread[u].owner = p
                                                      => thread[u].pc # "wait_child"
  BY DEF CURPROC
<1> HIDE DEF p, tn, pn
<1>11. FamilyInv(pn, pcb_freelist)
  <2>1. SameFamily(PT, pn)
    BY <1>3 DEF SleptTo, SameFamily
  <2> QED BY <1>2, <2>1, FamilySame DEF LInv
<1>12. CountInv(pn, tn)
  BY <1>4, <1>6, <1>7, CountMove DEF LInv
<1>13. CauseInv(pn, tn)
  BY <1>1, <1>2, <1>3, <1>4, <1>9, CauseSleep DEF LInv
<1>14. TargetInv(pn, tn)
  <2>1. CASE pc = "wait_child"
    <3>1. /\ tn[t].pc = "wait_child" /\ tn[t].on \in Pids /\ PT[tn[t].on].pstate # "FREE"
          /\ PT[tn[t].on].parent = thread[t].owner
      BY <1>1, <1>4, <1>9, <2>1
    <3>2. \A u \in Threads : u # t => ~MayReap(thread, u, thread[t].owner, tn[t].on)
      BY <1>1, <1>4, <1>9, <2>1
    <3>3. \A x \in Pids : pn[x].pstate = PT[x].pstate /\ pn[x].parent = PT[x].parent
      BY <1>6
    <3>4. TargetInv(PT, thread) /\ Moved(thread, tn, t)
      BY <1>4 DEF LInv
    <3>5. SleepsFor(PT, pn, thread, tn, t)
      BY <3>1, <3>2, <3>3, <3>4 DEF SleepsFor
    <3> QED BY <3>4, <3>5, TargetSleep
  <2>2. CASE pc # "wait_child"
    <3>1. \A u \in Threads : u # t /\ thread[u].pc = "wait_child" =>
                    pn[thread[u].on].pstate # "FREE" /\ pn[thread[u].on].parent = thread[u].owner
      BY <1>6 DEF LInv, TargetInv
    <3>2. TargetKept(pn, thread, tn, t)
      BY <1>4, <1>8, <1>9, <2>2, <3>1 DEF TargetKept
    <3> QED BY <3>2, TargetMove DEF LInv
  <2> QED BY <2>1, <2>2
<1>15. JoinInv(tn, ptcb)
  BY <1>4, <1>7, JoinMove DEF LInv
<1>16. InfoInv(pn, info)
  BY <1>2, <1>6, InfoKeep DEF LInv
<1>17. TypeOK'
  BY <1>2, <1>3, <1>4, <1>5 DEF TypeOK, pn, tn
<1> QED BY <1>5, <1>11, <1>12, <1>13, <1>14, <1>15, <1>16, <1>17 DEF LInv, pn, tn

\* t takes the zombie c and goes on.
LEMMA ReapStep ==
    ASSUME LInv, NEW t \in Threads, Alive(thread, t), thread[t].pc # "join",
           \A x \in Pids : t \notin PT[x].child_exit,
           NEW c \in Pids, PT[c].pstate = "ZOMBIE", PT[c].parent = CURPROC(t),
           \A u \in Threads : u # t /\ CURPROC(u) = CURPROC(t) /\ thread[u].pc = "wait_child"
                                 => thread[u].on # c,
           NEW loop \in {"user", "exit"},
           loop = "exit" => \A u \in Threads : u # t /\ CURPROC(u) = CURPROC(t)
                                                 => thread[u].pc # "wait_child",
           cleanup_zombie(c), At(t, loop, NOPROC), UNCHANGED ptcb
    PROVE  LInv'
<1> DEFINE p == CURPROC(t)
           tn == thread'
           pn == PT'
           fn == pcb_freelist'
<1>1. p \in Pids /\ thread[t].owner = p
  BY DEF LInv, CountInv, CURPROC
<1>2. PT \in [Pids -> PCB] /\ TypeOK /\ pcb_freelist \in Seq(Pids)
  BY DEF LInv, TypeOK
<1>3. c # init
  BY <1>1, PidTypes DEF LInv, FamilyInv
<1>4. pn \in [Pids -> PCB] /\ ReapedTo(PT, pn, c)
  <2>1. pn = Reaped(PT, c)
    BY DEF cleanup_zombie, Reaped
  <2> QED BY <1>2, <1>3, <2>1, ReapedIs DEF LInv
<1>5. tn \in [Threads -> TCB] /\ Moved(thread, tn, t) /\ tn[t].pc = loop
  BY <1>2, AtIs
<1>6. fn = <<c>> \o pcb_freelist /\ info' = [info EXCEPT !.present = @ \ {c}]
  BY DEF cleanup_zombie
<1>7. \A x \in Pids : /\ pn[x].pstate = IF x = c THEN "FREE" ELSE PT[x].pstate
                      /\ pn[x].thread_count = PT[x].thread_count
                      /\ pn[x].main_task = PT[x].main_task
  BY <1>4 DEF ReapedTo
<1>8. Alive(tn, t) /\ tn[t].pc # "join" /\ tn[t].pc # "wait_child"
  BY <1>5 DEF Alive
<1>9. Unrivalled(thread, tn, t, c) /\ PT[c].parent = thread[t].owner
  BY <1>5 DEF CURPROC, Unrivalled, Waiting
<1> HIDE DEF p, tn, pn, fn
<1>11. fn \in Seq(Pids) /\ FamilyInv(pn, fn)
  BY <1>2, <1>3, <1>4, <1>6, ReapFamily DEF LInv
<1>12. CountInv(pn, tn)
  <2>1. \A x \in Pids : /\ pn[x].thread_count = PT[x].thread_count
                        /\ pn[x].main_task = PT[x].main_task
                        /\ pn[x].pstate = "ALIVE" <=> PT[x].pstate = "ALIVE"
    BY <1>7
  <2> QED BY <1>5, <1>8, <2>1, CountMove DEF LInv
<1>13. CauseInv(pn, tn) /\ TargetInv(pn, tn)
  BY <1>2, <1>3, <1>4, <1>5, <1>8, <1>9, ReapSleepers DEF LInv
<1>14. JoinInv(tn, ptcb)
  BY <1>5, <1>8, JoinMove DEF LInv
<1>15. /\ info' \in [cursor : 0 .. MAX_PROC, present : SUBSET Pids, seen : SUBSET Pids]
       /\ info'.present = info.present \ {c} /\ info'.seen = info.seen /\ info'.cursor = info.cursor
  BY <1>2, <1>6 DEF TypeOK
<1>16. InfoInv(pn, info')
  BY <1>2, <1>7, <1>15 DEF LInv, InfoInv, TypeOK
<1>17. TypeOK'
  BY <1>2, <1>4, <1>5, <1>11, <1>15 DEF TypeOK, pn, tn, fn
<1> QED BY <1>11, <1>12, <1>13, <1>14, <1>16, <1>17 DEF LInv, pn, tn, fn

\* A count of threads changes.
CountedTo(pt, pn, p, n) ==
    /\ SameFamily(pt, pn)
    /\ \A x \in Pids : /\ pn[x].child_exit = pt[x].child_exit
                       /\ pn[x].main_task = pt[x].main_task
                       /\ x # p => pn[x].thread_count = pt[x].thread_count
    /\ pn[p].thread_count = n

LEMMA CountedIs ==
    ASSUME NEW pt \in [Pids -> PCB], NEW p \in Pids, NEW n \in Nat, NEW pn,
           pn = [pt EXCEPT ![p].thread_count = n]
    PROVE  pn \in [Pids -> PCB] /\ CountedTo(pt, pn, p, n)
<1> DEFINE v == [pt[p] EXCEPT !.thread_count = n]
<1>1. pn = [pt EXCEPT ![p] = v] /\ pt[p] \in PCB
  OBVIOUS
<1>2. /\ v \in PCB /\ v.pstate = pt[p].pstate /\ v.parent = pt[p].parent
      /\ v.children = pt[p].children /\ v.exited = pt[p].exited
      /\ v.thread_count = n /\ v.child_exit = pt[p].child_exit /\ v.main_task = pt[p].main_task
  BY <1>1 DEF PCB
<1> HIDE DEF v
<1>3. pn \in [Pids -> PCB] /\ pn[p] = v /\ \A x \in Pids : x # p => pn[x] = pt[x]
  BY <1>1, <1>2
<1> QED BY <1>2, <1>3 DEF CountedTo, SameFamily

LEMMA QuietFamily ==
    ASSUME NEW pt \in [Pids -> PCB], NEW pn, NEW th, NEW tn, NEW t \in Threads,
           CauseInv(pt, th), TargetInv(pt, th), CountInv(pt, th), Leaves(pt, th, tn, t), SameFamily(pt, pn),
           \A x \in Pids : pn[x].child_exit = pt[x].child_exit
    PROVE  CauseInv(pn, tn) /\ TargetInv(pn, tn)
<1>1. \A u \in Threads : th[u].pc = "wait_child" => th[u].owner \in Pids
  BY DEF CountInv, Alive
<1>2. Quiet(pt, pn, th, tn, t)
  BY <1>1 DEF Quiet, SameFamily
<1> QED BY <1>2, QuietSleepers

\* Thread t exits: the table, with the last thread of its process or not.
LEMMA ExitTable ==
    ASSUME LInv, NEW t \in Threads, Alive(thread, t), \A x \in Pids : t \notin PT[x].child_exit,
           ThreadExits(t), NEW tn, Moved(thread, tn, t), tn[t].pc = "gone"
    PROVE  /\ PT' \in [Pids -> PCB] /\ FamilyInv(PT', pcb_freelist)
           /\ CountInv(PT', tn) /\ CauseInv(PT', tn) /\ TargetInv(PT', tn)
           /\ \A x \in Pids : PT[x].pstate # "FREE" => PT'[x].pstate # "FREE"
<1> DEFINE p == CURPROC(t)
           pn == PT'
<1>1. p \in Pids /\ thread[t].owner = p /\ PT \in [Pids -> PCB]
  BY DEF LInv, CountInv, CURPROC, TypeOK
<1>2. /\ FamilyInv(PT, pcb_freelist) /\ CountInv(PT, thread) /\ CauseInv(PT, thread)
      /\ TargetInv(PT, thread)
  BY DEF LInv
<1>3. pn = IF PT[p].thread_count = 1 THEN ExitedProc(p) ELSE [PT EXCEPT ![p].thread_count = @ - 1]
  BY DEF ThreadExits
<1>4. /\ PT[p].thread_count \in Nat \ {0} /\ PT[p].pstate = "ALIVE" /\ PT[p].main_task
      /\ PT[p].thread_count = 1 <=> Members(thread, p) = {t}
  BY <1>1, <1>2, LastThread
<1>5. Leaves(PT, thread, tn, t)
  BY DEF Leaves, Waiting, Moved
<1> HIDE DEF p, pn
<1>6. CASE PT[p].thread_count # 1
  <2> DEFINE n == PT[p].thread_count - 1
  <2>1. n \in Nat /\ pn = [PT EXCEPT ![p].thread_count = n]
    BY <1>3, <1>4, <1>6
  <2>2. /\ pn \in [Pids -> PCB] /\ SameFamily(PT, pn) /\ pn[p].thread_count = n
        /\ \A x \in Pids : /\ pn[x].child_exit = PT[x].child_exit
                           /\ pn[x].main_task = PT[x].main_task
                           /\ x # p => pn[x].thread_count = PT[x].thread_count
    <3> HIDE DEF n
    <3>1. pn \in [Pids -> PCB] /\ CountedTo(PT, pn, p, n)
      BY <1>1, <2>1, CountedIs
    <3> QED BY <3>1 DEF CountedTo
  <2>3. FamilyInv(pn, pcb_freelist)
    BY <1>1, <1>2, <2>2, FamilySame
  <2>4. CountInv(pn, tn)
    <3>1. /\ \A q \in Pids : q # p => /\ pn[q].thread_count = PT[q].thread_count
                                      /\ pn[q].main_task = PT[q].main_task
                                      /\ pn[q].pstate = PT[q].pstate
          /\ pn[p].thread_count = PT[p].thread_count - 1 /\ pn[p].main_task
          /\ pn[p].pstate = "ALIVE" <=> PT[p].thread_count # 1
      BY <1>1, <1>4, <1>6, <2>2 DEF SameFamily
    <3> QED BY <1>1, <1>2, <3>1, CountExit
  <2>5. CauseInv(pn, tn) /\ TargetInv(pn, tn)
    <3>1. \A x \in Pids : pn[x].child_exit = PT[x].child_exit
      BY <2>2
    <3> QED BY <1>1, <1>2, <1>5, <2>2, <3>1, QuietFamily
  <2>6. \A x \in Pids : PT[x].pstate # "FREE" => pn[x].pstate # "FREE"
    BY <2>2 DEF SameFamily
  <2> QED BY <2>2, <2>3, <2>4, <2>5, <2>6 DEF pn
<1>7. CASE PT[p].thread_count = 1 /\ p # init
  <2>1. pn = Ended(Orphaned(PT, p), p, PT[p].parent)
    BY <1>3, <1>7 DEF ExitedProc, Ended, Orphaned, Reparented
  <2>2. pn \in [Pids -> PCB] /\ ExitedTo(PT, pn, p)
    BY <1>1, <1>2, <1>4, <1>7, <2>1, EndedIs
  <2>3. FamilyInv(pn, pcb_freelist)
    BY <1>1, <1>2, <1>4, <1>7, <2>2, ExitFamily
  <2>4. \A x \in Pids : /\ pn[x].pstate = IF x = p THEN "ZOMBIE" ELSE PT[x].pstate
                        /\ pn[x].thread_count = IF x = p THEN 0 ELSE PT[x].thread_count
                        /\ pn[x].main_task = PT[x].main_task
    BY <2>2 DEF ExitedTo
  <2>5. CountInv(pn, tn)
    <3>1. /\ \A q \in Pids : q # p => /\ pn[q].thread_count = PT[q].thread_count
                                      /\ pn[q].main_task = PT[q].main_task
                                      /\ pn[q].pstate = PT[q].pstate
          /\ pn[p].thread_count = PT[p].thread_count - 1 /\ pn[p].main_task
          /\ pn[p].pstate = "ALIVE" <=> PT[p].thread_count # 1
      BY <1>1, <1>4, <1>7, <2>4
    <3> QED BY <1>1, <1>2, <3>1, CountExit
  <2>6. CauseInv(pn, tn) /\ TargetInv(pn, tn)
    <3>1. Members(thread, p) = {t}
      BY <1>4, <1>7
    <3> QED BY <1>1, <1>2, <1>4, <1>7, <2>2, <3>1, ExitSleepers
  <2>7. \A x \in Pids : PT[x].pstate # "FREE" => pn[x].pstate # "FREE"
    BY <2>4
  <2> QED BY <2>2, <2>3, <2>5, <2>6, <2>7 DEF pn
<1>8. CASE PT[p].thread_count = 1 /\ p = init
  <2>1. pn = [PT EXCEPT ![init].pstate = "ZOMBIE", ![init].args = FALSE, ![init].thread_count = 0]
    BY <1>3, <1>8 DEF ExitedProc
  <2>2. pn \in [Pids -> PCB] /\ InitEndedTo(PT, pn)
    BY <1>1, <2>1, InitEndedIs
  <2>3. FamilyInv(pn, pcb_freelist)
    BY <1>1, <1>2, <2>2, InitExitFamily
  <2>4. /\ \A x \in Pids : /\ pn[x].parent = PT[x].parent /\ pn[x].children = PT[x].children
                           /\ pn[x].exited = PT[x].exited /\ pn[x].child_exit = PT[x].child_exit
                           /\ x # init => pn[x].pstate = PT[x].pstate
                                          /\ pn[x].thread_count = PT[x].thread_count
                           /\ pn[x].main_task = PT[x].main_task
        /\ pn[init].pstate = "ZOMBIE" /\ pn[init].thread_count = 0
    BY <2>2 DEF InitEndedTo
  <2>5. CountInv(pn, tn)
    <3>1. /\ \A q \in Pids : q # p => /\ pn[q].thread_count = PT[q].thread_count
                                      /\ pn[q].main_task = PT[q].main_task
                                      /\ pn[q].pstate = PT[q].pstate
          /\ pn[p].thread_count = PT[p].thread_count - 1 /\ pn[p].main_task
          /\ pn[p].pstate = "ALIVE" <=> PT[p].thread_count # 1
      BY <1>1, <1>4, <1>8, <2>4
    <3> QED BY <1>1, <1>2, <3>1, CountExit
  <2>6. CauseInv(pn, tn) /\ TargetInv(pn, tn)
    <3>1. \A x \in Pids : pn[x].child_exit = PT[x].child_exit /\ pn[x].exited = PT[x].exited
                          /\ PT[x].children \subseteq pn[x].children
      BY <2>4
    <3>2. \A c \in Pids : PT[c].pstate # "FREE" /\ PT[c].parent \in Pids
                => pn[c].pstate = PT[c].pstate /\ pn[c].parent = PT[c].parent
      BY <1>2, <2>4, PidTypes DEF FamilyInv
    <3>3. \A u \in Threads : thread[u].pc = "wait_child" => thread[u].owner \in Pids
      BY <1>2 DEF CountInv, Alive
    <3>4. Quiet(PT, pn, thread, tn, t)
      BY <1>5, <3>1, <3>2, <3>3 DEF Quiet
    <3> QED BY <1>1, <1>2, <3>4, QuietSleepers
  <2>7. \A x \in Pids : PT[x].pstate # "FREE" => pn[x].pstate # "FREE"
    BY <2>4
  <2> QED BY <2>2, <2>3, <2>5, <2>6, <2>7 DEF pn
<1> QED BY <1>6, <1>7, <1>8

LEMMA ExitStep ==
    ASSUME LInv, NEW t \in Threads, Alive(thread, t), thread[t].pc # "join",
           \A x \in Pids : t \notin PT[x].child_exit, ThreadExits(t)
    PROVE  LInv'
<1> DEFINE tn == thread'
           v  == [ptcb[t] EXCEPT !.exited = TRUE, !.exit_cv = {}]
<1>1. TypeOK /\ ptcb \in [Threads -> PTCB] /\ ptcb[t] \in PTCB
  BY DEF LInv, TypeOK
<1>2. tn \in [Threads -> TCB] /\ Moved(thread, tn, t) /\ tn[t].pc = "gone"
  BY <1>1, AtIs DEF ThreadExits
<1>3. UNCHANGED <<pcb_freelist, info>>
  BY DEF ThreadExits
<1>4. ptcb' = [ptcb EXCEPT ![t] = v]
  BY <1>1 DEF ThreadExits
<1>5. /\ v \in PTCB /\ v.in = ptcb[t].in /\ v.exited /\ v.detached = ptcb[t].detached
      /\ v.refcount = ptcb[t].refcount
  BY <1>1 DEF PTCB
<1> HIDE DEF v, tn
<1>6. /\ ptcb' \in [Threads -> PTCB] /\ ptcb'[t] = v
      /\ \A u \in Threads : u # t => ptcb'[u] = ptcb[u]
  BY <1>1, <1>4, <1>5
<1>7. /\ PT' \in [Pids -> PCB] /\ FamilyInv(PT', pcb_freelist)
      /\ CountInv(PT', tn) /\ CauseInv(PT', tn) /\ TargetInv(PT', tn)
      /\ \A x \in Pids : PT[x].pstate # "FREE" => PT'[x].pstate # "FREE"
  BY <1>2, ExitTable
<1>8. JoinInv(tn, ptcb')
  BY <1>2, <1>5, <1>6, JoinExit DEF LInv
<1>9. InfoInv(PT', info)
  BY <1>1, <1>7, InfoKeep DEF LInv
<1>10. TypeOK'
  BY <1>1, <1>2, <1>3, <1>6, <1>7 DEF TypeOK, tn
<1> QED BY <1>3, <1>7, <1>8, <1>9, <1>10 DEF LInv, tn

-----------------------------------------------------------------------------
(***************************************************************************)
(* WaitChild, Exit and ThreadExit.  Careful is needed here only: it keeps  *)
(* two threads from reaping the same child.                                *)
(***************************************************************************)
Able(t) == /\ Alive(thread, t) /\ thread[t].pc # "join"
           /\ \A x \in Pids : t \notin PT[x].child_exit

LEMMA AbleTo ==
    ASSUME LInv, NEW t \in Threads,
           Runs(t) \/ (thread[t].pc \in Waiting /\ t \notin PT[CURPROC(t)].child_exit)
    PROVE  Able(t) /\ CURPROC(t) \in Pids
<1>1. Alive(thread, t) /\ thread[t].pc # "join"
  BY DEF Alive, Waiting, Runs
<1>2. thread[t].pc \notin Waiting \/ t \notin PT[thread[t].owner].child_exit
  BY DEF Waiting, Runs, CURPROC
<1>3. \A x \in Pids : t \notin PT[x].child_exit
  BY <1>2, Awake DEF LInv
<1> QED BY <1>1, <1>3 DEF Able, LInv, CountInv, CURPROC

LEMMA WaitSpecific ==
    ASSUME LInv, NEW t \in Threads, Able(t), NEW c \in Pids, PT[c].pstate # "FREE",
           PT[c].parent = CURPROC(t), wait_for_specific_child(t, c),
           \A u \in Threads : u # t => ~MayReap(thread, u, CURPROC(t), c)
    PROVE  LInv'
<1>1. CASE PT[c].pstate = "ALIVE" /\ Sleeps(t, "wait_child", c)
  <2>1. "wait_child" \in Waiting /\ c \in Pids \cup {NOPROC}
    BY DEF Waiting
  <2> QED BY <1>1, <2>1, SleepStep DEF Able
<1>2. CASE PT[c].pstate # "ALIVE" /\ cleanup_zombie(c) /\ At(t, "user", NOPROC) /\ UNCHANGED ptcb
  <2>1. PT[c].pstate = "ZOMBIE"
    BY <1>2, Fields DEF LInv, TypeOK
  <2>2. \A u \in Threads : u # t /\ CURPROC(u) = CURPROC(t) /\ thread[u].pc = "wait_child"
                              => thread[u].on # c
    BY DEF Waiting, MayReap, CURPROC
  <2> QED BY <1>2, <2>1, <2>2, ReapStep DEF Able
<1> QED BY <1>1, <1>2 DEF wait_for_specific_child

LEMMA WaitAny ==
    ASSUME LInv, NEW t \in Threads, Able(t), CURPROC(t) \in Pids,
           NEW pc \in {"wait_any", "exit"}, NEW loop \in {"user", "exit"},
           wait_for_any_child(t, pc, loop),
           \A u \in Threads : u # t /\ CURPROC(u) = CURPROC(t) => thread[u].pc # "wait_child"
    PROVE  LInv'
<1> DEFINE me == PT[CURPROC(t)]
<1>1. me.children # {}
  BY DEF wait_for_any_child
<1>2. CASE me.exited = <<>> /\ Sleeps(t, pc, NOPROC)
  <2>1. pc \in Waiting /\ pc # "wait_child" /\ NOPROC \in Pids \cup {NOPROC}
    BY DEF Waiting
  <2> QED BY <1>1, <1>2, <2>1, SleepStep DEF Able
<1>3. CASE me.exited # <<>> /\ cleanup_zombie(Head(me.exited)) /\ At(t, loop, NOPROC) /\ UNCHANGED ptcb
  <2> DEFINE c == Head(me.exited)
  <2>1. me.exited \in Seq(Pids) /\ Once(me.exited)
    BY Fields DEF LInv, TypeOK, FamilyInv
  <2>2. c \in Pids /\ Has(me.exited, c)
    BY <1>3, <2>1, TailOnce
  <2> HIDE DEF c
  <2>3. c \in me.children /\ PT[c].pstate = "ZOMBIE"
    BY <2>2 DEF LInv, FamilyInv
  <2>4. PT[c].parent = CURPROC(t)
    BY <2>2, <2>3 DEF LInv, FamilyInv
  <2>5. cleanup_zombie(c) /\ At(t, loop, NOPROC) /\ UNCHANGED ptcb
    BY <1>3 DEF c
  <2> QED BY <2>2, <2>3, <2>4, <2>5, ReapStep DEF Able
<1> QED BY <1>2, <1>3 DEF wait_for_any_child

LEMMA WaitChildStep ==
    ASSUME LInv, Careful, NEW t \in Threads, sys_WaitChild(t)
    PROVE  LInv'
<1>1. Runs(t) /\ Able(t) /\ CURPROC(t) \in Pids
  BY AbleTo DEF sys_WaitChild
<1>2. CASE Awaited(t) = {} /\ wait_for_any_child(t, "wait_any", "user")
  <2>1. \A u \in Threads : u # t /\ CURPROC(u) = CURPROC(t) => thread[u].pc # "wait_child"
    BY <1>2 DEF Awaited
  <2> QED BY <1>1, <1>2, <2>1, WaitAny
<1>3. ASSUME NEW c \in Pids, PT[c].pstate # "FREE", PT[c].parent = CURPROC(t),
             c \notin Awaited(t), ~AnyAwaited(t), wait_for_specific_child(t, c)
      PROVE  LInv'
  <2>1. \A u \in Threads : u # t => ~MayReap(thread, u, CURPROC(t), c)
    BY <1>3 DEF Awaited, AnyAwaited, MayReap, Waiting, CURPROC
  <2> QED BY <1>1, <1>3, <2>1, WaitSpecific
<1> QED BY <1>2, <1>3 DEF sys_WaitChild

\* A thread that waits for any has no other one beside it that waits for one child.
LEMMA NoOther ==
    ASSUME LInv, NEW t \in Threads, thread[t].pc \in {"wait_any", "exit"}
    PROVE  \A u \in Threads : u # t /\ CURPROC(u) = CURPROC(t) => thread[u].pc # "wait_child"
BY DEF LInv, TargetInv, CURPROC, MayReap, Waiting

\* A thread that was in wait_any finds no child left.
LEMMA LeaveStep ==
    ASSUME LInv, NEW t \in Threads, Able(t), At(t, "user", NOPROC),
           UNCHANGED <<PT, pcb_freelist, ptcb, info>>
    PROVE  LInv'
<1> DEFINE tn == thread'
<1>1. TypeOK /\ PT \in [Pids -> PCB] /\ CountInv(PT, thread) /\ CauseInv(PT, thread)
      /\ TargetInv(PT, thread) /\ JoinInv(thread, ptcb)
  BY DEF LInv, TypeOK
<1>2. tn \in [Threads -> TCB] /\ Moved(thread, tn, t) /\ tn[t].pc = "user"
  BY <1>1, AtIs
<1>3. Alive(thread, t) /\ thread[t].pc # "join" /\ \A x \in Pids : t \notin PT[x].child_exit
  BY DEF Able
<1> HIDE DEF tn
<1>4. Alive(tn, t) /\ tn[t].pc # "join" /\ Leaves(PT, thread, tn, t)
  BY <1>2, <1>3 DEF Alive, Leaves, Moved, Waiting
<1>5. CountInv(PT, tn)
  BY <1>1, <1>2, <1>3, <1>4, CountMove
<1>6. CauseInv(PT, tn) /\ TargetInv(PT, tn)
  <2>1. SameFamily(PT, PT)
    BY DEF SameFamily
  <2> QED BY <1>1, <1>4, <2>1, QuietFamily
<1>7. JoinInv(tn, ptcb)
  BY <1>1, <1>2, <1>3, <1>4, JoinMove
<1>8. TypeOK'
  BY <1>1, <1>2 DEF TypeOK, tn
<1> QED BY <1>5, <1>6, <1>7, <1>8 DEF LInv, tn

LEMMA WaitWakesStep ==
    ASSUME LInv, NEW t \in Threads, WaitWakes(t)
    PROVE  LInv'
<1>1. thread[t].pc \in {"wait_child", "wait_any"} /\ t \notin PT[CURPROC(t)].child_exit
  BY DEF WaitWakes
<1>2. Able(t) /\ CURPROC(t) \in Pids /\ thread[t].pc \in Waiting
  BY <1>1, AbleTo DEF Waiting
<1>3. CASE thread[t].pc = "wait_child" /\ wait_for_specific_child(t, thread[t].on)
  <2> DEFINE c == thread[t].on
  <2>1. /\ c \in Pids /\ PT[c].pstate # "FREE" /\ PT[c].parent = CURPROC(t)
        /\ \A u \in Threads : u # t => ~MayReap(thread, u, CURPROC(t), c)
    BY <1>3 DEF LInv, TargetInv, CURPROC
  <2>2. wait_for_specific_child(t, c)
    BY <1>3
  <2> HIDE DEF c
  <2> QED BY <1>2, <2>1, <2>2, WaitSpecific
<1>4. CASE thread[t].pc = "wait_any" /\ wait_for_any_child(t, "wait_any", "user")
  BY <1>2, <1>4, NoOther, WaitAny
<1>5. CASE At(t, "user", NOPROC) /\ UNCHANGED <<PT, pcb_freelist, ptcb, info>>
  BY <1>2, <1>5, LeaveStep
<1> QED BY <1>3, <1>4, <1>5 DEF WaitWakes

LEMMA ExitLoopStep ==
    ASSUME LInv, NEW t \in Threads, Able(t), CURPROC(t) \in Pids, ExitLoop(t),
           \A u \in Threads : u # t /\ CURPROC(u) = CURPROC(t) => thread[u].pc # "wait_child"
    PROVE  LInv'
<1>1. CASE wait_for_any_child(t, "exit", "exit")
  BY <1>1, WaitAny
<1>2. CASE ThreadExits(t)
  BY <1>2, ExitStep DEF Able
<1> QED BY <1>1, <1>2 DEF ExitLoop

LEMMA EndStep ==
    ASSUME LInv, Careful, NEW t \in Threads, sys_ThreadExit(t) \/ sys_Exit(t) \/ ExitGoesOn(t)
    PROVE  LInv'
<1>1. CASE sys_ThreadExit(t)
  <2>1. Able(t) /\ ThreadExits(t)
    BY <1>1, AbleTo DEF sys_ThreadExit
  <2> QED BY <2>1, ExitStep DEF Able
<1>2. CASE sys_Exit(t)
  <2>1. Able(t) /\ CURPROC(t) \in Pids
    BY <1>2, AbleTo DEF sys_Exit
  <2>2. CASE CURPROC(t) = init /\ Awaited(t) = {} /\ ExitLoop(t)
    <3>1. \A u \in Threads : u # t /\ CURPROC(u) = CURPROC(t) => thread[u].pc # "wait_child"
      BY <2>2 DEF Awaited
    <3> QED BY <2>1, <2>2, <3>1, ExitLoopStep
  <2>3. CASE ThreadExits(t)
    BY <2>1, <2>3, ExitStep DEF Able
  <2> QED BY <1>2, <2>2, <2>3 DEF sys_Exit
<1>3. CASE ExitGoesOn(t)
  <2>1. /\ thread[t].pc \in Waiting /\ thread[t].pc \in {"wait_any", "exit"}
        /\ t \notin PT[CURPROC(t)].child_exit /\ ExitLoop(t)
    BY <1>3 DEF ExitGoesOn, Waiting
  <2>2. Able(t) /\ CURPROC(t) \in Pids
    BY <2>1, AbleTo
  <2> QED BY <2>1, <2>2, NoOther, ExitLoopStep
<1> QED BY <1>1, <1>2, <1>3

-----------------------------------------------------------------------------
(***************************************************************************)
(* Exec and CreateThread: u, which is not in use, starts in p.             *)
(***************************************************************************)
Starts(u, p) == thread' = [thread EXCEPT ![u] = Started(p)] /\ ptcb' = [ptcb EXCEPT ![u] = create_ptcb(p)]

LEMMA StartsIs ==
    ASSUME TypeOK, NEW u \in Threads, NEW p \in Pids, Starts(u, p)
    PROVE  /\ thread' \in [Threads -> TCB] /\ ptcb' \in [Threads -> PTCB] /\ NewThread(thread, thread', ptcb, ptcb', u, p)
<1>1. thread \in [Threads -> TCB] /\ ptcb \in [Threads -> PTCB]
  BY DEF TypeOK
<1>2. Started(p) \in TCB /\ Started(p).pc = "user" /\ Started(p).owner = p
  BY DEF Started, NoThread, TCB
<1>3. /\ create_ptcb(p) \in PTCB /\ create_ptcb(p).in = p /\ ~create_ptcb(p).exited
      /\ create_ptcb(p).refcount = 0
  <2>1. NoPTCB \in PTCB /\ NoPTCB.exited = FALSE /\ NoPTCB.refcount = 0
    BY DEF NoPTCB, PTCB
  <2> QED BY <2>1 DEF create_ptcb, PTCB
<1>4. /\ thread' \in [Threads -> TCB] /\ thread'[u] = Started(p)
      /\ \A v \in Threads : v # u => thread'[v] = thread[v]
  BY <1>1, <1>2 DEF Starts
<1>5. /\ ptcb' \in [Threads -> PTCB] /\ ptcb'[u] = create_ptcb(p)
      /\ \A v \in Threads : v # u => ptcb'[v] = ptcb[v]
  BY <1>1, <1>3 DEF Starts
<1> QED BY <1>2, <1>3, <1>4, <1>5 DEF NewThread

\* What the table must do for that.
LEMMA StartStep ==
    ASSUME LInv, NEW u \in Unused, NEW p \in Pids, Starts(u, p), UNCHANGED info,
           PT' \in [Pids -> PCB], pcb_freelist' \in Seq(Pids), FamilyInv(PT', pcb_freelist'),
           PT'[p].thread_count = PT[p].thread_count + 1, PT'[p].pstate = "ALIVE", PT'[p].main_task,
           \A q \in Pids : q # p => /\ PT'[q].thread_count = PT[q].thread_count
                                    /\ PT'[q].main_task = PT[q].main_task
                                    /\ PT'[q].pstate = PT[q].pstate,
           \A x \in Pids : /\ PT'[x].child_exit = PT[x].child_exit /\ PT'[x].exited = PT[x].exited
                           /\ PT[x].children \subseteq PT'[x].children,
           \A c \in Pids : PT[c].pstate # "FREE" =>
                PT'[c].pstate = PT[c].pstate /\ PT'[c].parent = PT[c].parent
    PROVE  LInv'
<1> DEFINE tn == thread'
           pn == PT'
<1>1. u \in Threads /\ thread[u].pc = "none"
  BY DEF Unused
<1>2. /\ TypeOK /\ PT \in [Pids -> PCB] /\ CountInv(PT, thread) /\ CauseInv(PT, thread)
      /\ TargetInv(PT, thread) /\ JoinInv(thread, ptcb)
  BY DEF LInv, TypeOK
<1>3. tn \in [Threads -> TCB] /\ ptcb' \in [Threads -> PTCB] /\ NewThread(thread, thread', ptcb, ptcb', u, p)
  BY <1>1, <1>2, StartsIs
<1>4. /\ tn[u].pc = "user" /\ tn[u].owner = p
      /\ \A v \in Threads : v # u => tn[v] = thread[v] /\ ptcb'[v] = ptcb[v]
      /\ ptcb'[u].in = p /\ ~ptcb'[u].exited /\ ptcb'[u].refcount = 0
  BY <1>3 DEF NewThread
<1>5. CountInv(pn, tn)
  <2>1. BeginsIn(thread, tn, u, p)
    BY <1>1, <1>4 DEF BeginsIn
  <2> HIDE DEF tn, pn
  <2>2. MoreThreads(PT, pn, p, 1)
    BY DEF pn, MoreThreads
  <2> QED BY <1>1, <1>2, <2>1, <2>2, CountStart
<1>6. CauseInv(pn, tn) /\ TargetInv(pn, tn)
  <2>1. thread[u].pc \notin Waiting
    BY <1>1 DEF Waiting
  <2>2. \A x \in Pids : u \notin PT[x].child_exit
    BY <1>2, <2>1, Awake
  <2>3. Leaves(PT, thread, tn, u)
    BY <1>4, <2>2 DEF Leaves, Waiting
  <2>4. \A v \in Threads : thread[v].pc = "wait_child" => thread[v].owner \in Pids
    BY <1>2 DEF CountInv, Alive
  <2>5. Quiet(PT, pn, thread, tn, u)
    BY <2>3, <2>4 DEF Quiet
  <2> QED BY <1>1, <1>2, <2>5, QuietSleepers
<1>7. JoinInv(tn, ptcb')
  <2>1. \A v \in Threads : Alive(thread, v) => thread[v].owner \in Pids
    BY <1>2 DEF CountInv
  <2> DEFINE bn == ptcb'
  <2>2. NewThread(thread, tn, ptcb, bn, u, p)
    BY <1>3
  <2> HIDE DEF tn, bn
  <2>4. JoinInv(tn, bn)
    BY <1>1, <1>2, <2>1, <2>2, JoinStart
  <2> QED BY <2>4 DEF bn
<1>8. InfoInv(pn, info)
  <2>1. \A x \in Pids : PT[x].pstate # "FREE" => pn[x].pstate # "FREE"
    OBVIOUS
  <2> QED BY <1>2, <2>1, InfoKeep DEF LInv
<1>9. TypeOK'
  BY <1>2, <1>3 DEF TypeOK
<1> QED BY <1>5, <1>6, <1>7, <1>8, <1>9 DEF LInv

LEMMA ExecStep ==
    ASSUME LInv, NEW t \in Threads, NEW argl \in ArgLens, sys_Exec(t, argl)
    PROVE  LInv'
<1> DEFINE p == Head(pcb_freelist)
           q == CURPROC(t)
           u == CHOOSE v \in Unused : TRUE
<1>1. Runs(t) /\ pcb_freelist # <<>> /\ Unused # {} /\ UNCHANGED info
  BY DEF sys_Exec, NewProcess
<1>2. u \in Unused
  BY <1>1
<1>3. /\ PT \in [Pids -> PCB] /\ pcb_freelist \in Seq(Pids) /\ FamilyInv(PT, pcb_freelist)
      /\ CountInv(PT, thread) /\ argl \in Nat
  BY LegacyProcAssumption DEF LInv, TypeOK
<1>4. q \in Pids /\ PT[q].pstate = "ALIVE"
  <2>1. Alive(thread, t) /\ thread[t].owner = q
    BY <1>1 DEF Runs, Alive, CURPROC
  <2>2. q \in Pids
    BY <1>3, <2>1 DEF CountInv
  <2> HIDE DEF q
  <2> QED BY <1>3, <2>1, <2>2, LastThread
<1>5. p \in Pids /\ Has(pcb_freelist, p)
  BY <1>1, <1>3, TailOnce DEF FamilyInv
<1>6. /\ PT' = Execed(PT, q, p, argl, TRUE, 1) /\ pcb_freelist' = Tail(pcb_freelist) /\ Starts(u, p)
  BY DEF sys_Exec, NewProcess, Execed, Starts
<1> HIDE DEF q, u
<1>7. PT[p].pstate = "FREE" /\ p # q
  BY <1>3, <1>4, <1>5 DEF FamilyInv
<1>8. PT' \in [Pids -> PCB] /\ ExecedTo(PT, PT', q, p, TRUE, 1)
  <2> HIDE DEF p
  <2> QED BY <1>3, <1>4, <1>5, <1>6, <1>7, ExecedIs
<1>9. pcb_freelist' \in Seq(Pids) /\ FamilyInv(PT', pcb_freelist')
  <2> DEFINE pn == PT'
  <2>1. ExecedTo(PT, pn, q, Head(pcb_freelist), TRUE, 1)
    BY <1>8
  <2> HIDE DEF pn
  <2>2. Tail(pcb_freelist) \in Seq(Pids) /\ FamilyInv(pn, Tail(pcb_freelist))
    BY <1>1, <1>3, <1>4, <2>1, ExecFamily
  <2> QED BY <1>6, <2>2 DEF pn
<1> HIDE DEF p
<1>10. /\ PT'[p].thread_count = PT[p].thread_count + 1 /\ PT'[p].pstate = "ALIVE" /\ PT'[p].main_task
       /\ \A x \in Pids : x # p => /\ PT'[x].thread_count = PT[x].thread_count
                                   /\ PT'[x].main_task = PT[x].main_task
                                   /\ PT'[x].pstate = PT[x].pstate
  BY <1>5, <1>8 DEF ExecedTo
<1>11. \A x \in Pids : /\ PT'[x].child_exit = PT[x].child_exit /\ PT'[x].exited = PT[x].exited
                       /\ PT[x].children \subseteq PT'[x].children
  BY <1>8 DEF ExecedTo
<1>12. \A c \in Pids : PT[c].pstate # "FREE" =>
            PT'[c].pstate = PT[c].pstate /\ PT'[c].parent = PT[c].parent
  BY <1>7, <1>8 DEF ExecedTo
<1> QED BY <1>1, <1>2, <1>5, <1>6, <1>8, <1>9, <1>10, <1>11, <1>12, StartStep

\* A process without a task starts with no thread.
LEMMA CountTaskless ==
    ASSUME NEW pt \in [Pids -> PCB], NEW pn, NEW th, NEW p \in Pids, CountInv(pt, th),
           pt[p].pstate # "ALIVE", MoreThreads(pt, pn, p, 0)
    PROVE  CountInv(pn, th)
<1>1. ASSUME NEW q \in Pids PROVE /\ pn[q].thread_count = Cardinality(Members(th, q))
                                  /\ pn[q].pstate = "ALIVE" /\ pn[q].main_task <=> Members(th, q) # {}
  <2>1. CASE q = p
    <3>1. pt[p].thread_count \in Nat
      BY Fields
    <3> QED BY <2>1, <3>1 DEF CountInv, MoreThreads
  <2>2. CASE q # p
    BY <2>2 DEF CountInv, MoreThreads
  <2> QED BY <2>1, <2>2
<1> QED BY <1>1 DEF CountInv

LEMMA ExecNullStep ==
    ASSUME LInv, NEW t \in Threads, NEW argl \in ArgLens, sys_ExecNull(t, argl)
    PROVE  LInv'
<1> DEFINE p  == Head(pcb_freelist)
           q  == CURPROC(t)
           pn == PT'
<1>1. Runs(t) /\ pcb_freelist # <<>> /\ UNCHANGED <<info, thread, ptcb>>
  BY DEF sys_ExecNull, NewProcess
<1>2. /\ TypeOK /\ PT \in [Pids -> PCB] /\ pcb_freelist \in Seq(Pids) /\ FamilyInv(PT, pcb_freelist)
      /\ CountInv(PT, thread) /\ CauseInv(PT, thread) /\ TargetInv(PT, thread) /\ argl \in Nat
  BY LegacyProcAssumption DEF LInv, TypeOK
<1>3. q \in Pids /\ PT[q].pstate = "ALIVE"
  <2>1. Alive(thread, t) /\ thread[t].owner = q
    BY <1>1 DEF Runs, Alive, CURPROC
  <2>2. q \in Pids
    BY <1>2, <2>1 DEF CountInv
  <2> HIDE DEF q
  <2> QED BY <1>2, <2>1, <2>2, LastThread
<1>4. p \in Pids /\ Has(pcb_freelist, p)
  BY <1>1, <1>2, TailOnce DEF FamilyInv
<1>5. pn = Execed(PT, q, p, argl, FALSE, 0) /\ pcb_freelist' = Tail(pcb_freelist)
  BY DEF sys_ExecNull, NewProcess, Execed
<1> HIDE DEF q, pn
<1>6. PT[p].pstate = "FREE" /\ p # q
  BY <1>2, <1>3, <1>4 DEF FamilyInv
<1>7. pn \in [Pids -> PCB] /\ ExecedTo(PT, pn, q, p, FALSE, 0)
  <2> HIDE DEF p
  <2> QED BY <1>2, <1>3, <1>4, <1>5, <1>6, ExecedIs
<1>8. pcb_freelist' \in Seq(Pids) /\ FamilyInv(pn, pcb_freelist')
  BY <1>1, <1>2, <1>3, <1>5, <1>7, ExecFamily
<1> HIDE DEF p
<1>9. MoreThreads(PT, pn, p, 0)
  <2>1. pn[p].thread_count = PT[p].thread_count + 0 /\ pn[p].pstate = "ALIVE" /\ pn[p].main_task = FALSE
    BY <1>4, <1>7 DEF ExecedTo
  <2>2. \A x \in Pids : x # p => /\ pn[x].thread_count = PT[x].thread_count
                                 /\ pn[x].main_task = PT[x].main_task
                                 /\ pn[x].pstate = PT[x].pstate
    BY <1>7 DEF ExecedTo
  <2> QED BY <2>1, <2>2 DEF MoreThreads
<1>10. CountInv(pn, thread)
  BY <1>2, <1>4, <1>6, <1>9, CountTaskless
<1>11. CauseInv(pn, thread) /\ TargetInv(pn, thread)
  <2>1. thread[t].pc \notin Waiting /\ \A x \in Pids : t \notin PT[x].child_exit
    BY <1>1, <1>2, Awake DEF Runs, Waiting
  <2>2. \A x \in Pids : /\ pn[x].child_exit = PT[x].child_exit /\ pn[x].exited = PT[x].exited
                        /\ PT[x].children \subseteq pn[x].children
    BY <1>7 DEF ExecedTo
  <2>3. \A c \in Pids : PT[c].pstate # "FREE" =>
            pn[c].pstate = PT[c].pstate /\ pn[c].parent = PT[c].parent
    BY <1>6, <1>7 DEF ExecedTo
  <2>4. \A v \in Threads : thread[v].pc = "wait_child" => thread[v].owner \in Pids
    BY <1>2 DEF CountInv, Alive
  <2>5. Quiet(PT, pn, thread, thread, t)
    BY <2>1, <2>2, <2>3, <2>4 DEF Quiet, Leaves
  <2> QED BY <1>2, <2>5, QuietSleepers
<1>12. InfoInv(pn, info)
  <2>1. \A x \in Pids : PT[x].pstate # "FREE" => pn[x].pstate # "FREE"
    BY <1>6, <1>9 DEF MoreThreads
  <2> QED BY <1>2, <2>1, InfoKeep DEF LInv
<1>13. TypeOK'
  BY <1>1, <1>2, <1>7, <1>8 DEF TypeOK, pn
<1> QED BY <1>1, <1>8, <1>10, <1>11, <1>12, <1>13 DEF LInv, pn

LEMMA CreateStep ==
    ASSUME LInv, NEW t \in Threads, sys_CreateThread(t)
    PROVE  LInv'
<1> DEFINE p == CURPROC(t)
           u == CHOOSE v \in Unused : TRUE
           n == PT[p].thread_count + 1
<1>1. Runs(t) /\ Unused # {} /\ UNCHANGED info /\ UNCHANGED pcb_freelist
  BY DEF sys_CreateThread
<1>2. u \in Unused
  BY <1>1
<1>3. /\ PT \in [Pids -> PCB] /\ pcb_freelist \in Seq(Pids) /\ FamilyInv(PT, pcb_freelist)
      /\ CountInv(PT, thread)
  BY DEF LInv, TypeOK
<1>4. p \in Pids /\ PT[p].pstate = "ALIVE" /\ PT[p].main_task
  <2>1. Alive(thread, t) /\ thread[t].owner = p
    BY <1>1 DEF Runs, Alive, CURPROC
  <2>2. p \in Pids
    BY <1>3, <2>1 DEF CountInv
  <2> HIDE DEF p
  <2> QED BY <1>3, <2>1, <2>2, LastThread
<1>5. PT' = [PT EXCEPT ![p].thread_count = n] /\ Starts(u, p)
  BY DEF sys_CreateThread, Starts
<1>6. n \in Nat
  BY <1>3, <1>4, Fields
<1> HIDE DEF p, u
<1>7. PT' \in [Pids -> PCB] /\ CountedTo(PT, PT', p, n)
  <2> HIDE DEF n
  <2> QED BY <1>3, <1>4, <1>5, <1>6, CountedIs
<1>8. FamilyInv(PT', pcb_freelist')
  BY <1>1, <1>3, <1>7, FamilySame DEF CountedTo
<1>9. /\ PT'[p].thread_count = PT[p].thread_count + 1 /\ PT'[p].pstate = "ALIVE" /\ PT'[p].main_task
      /\ \A x \in Pids : x # p => /\ PT'[x].thread_count = PT[x].thread_count
                                  /\ PT'[x].main_task = PT[x].main_task
                                  /\ PT'[x].pstate = PT[x].pstate
  BY <1>4, <1>7 DEF CountedTo, SameFamily
<1>10. \A x \in Pids : /\ PT'[x].child_exit = PT[x].child_exit /\ PT'[x].exited = PT[x].exited
                       /\ PT[x].children \subseteq PT'[x].children
  BY <1>7 DEF CountedTo, SameFamily
<1>11. \A c \in Pids : PT[c].pstate # "FREE" =>
            PT'[c].pstate = PT[c].pstate /\ PT'[c].parent = PT[c].parent
  BY <1>7 DEF CountedTo, SameFamily
<1> QED BY <1>1, <1>2, <1>3, <1>4, <1>5, <1>7, <1>8, <1>9, <1>10, <1>11, StartStep

-----------------------------------------------------------------------------
(***************************************************************************)
(* ThreadJoin and ThreadDetach.                                            *)
(***************************************************************************)
\* A step of these changes PTCBs, and moves t between its program and a join.
LEMMA JoinOnly ==
    ASSUME LInv, NEW t \in Threads, NEW tn \in [Threads -> TCB], NEW pb \in [Threads -> PTCB],
           thread' = tn, ptcb' = pb, Moved(thread, tn, t), thread[t].pc \in {"user", "join"},
           tn[t].pc \in {"user", "join"}, JoinInv(tn, pb), UNCHANGED <<PT, pcb_freelist, info>>
    PROVE  LInv'
<1>1. /\ TypeOK /\ PT \in [Pids -> PCB] /\ CountInv(PT, thread) /\ CauseInv(PT, thread)
      /\ TargetInv(PT, thread)
  BY DEF LInv, TypeOK
<1>2. Alive(thread, t) /\ Alive(tn, t)
  BY DEF Alive
<1>3. CountInv(PT, tn)
  BY <1>1, <1>2, CountMove
<1>4. CauseInv(PT, tn) /\ TargetInv(PT, tn)
  <2>1. thread[t].pc \notin Waiting
    BY DEF Waiting
  <2>2. \A x \in Pids : t \notin PT[x].child_exit
    BY <1>1, <2>1, Awake
  <2>3. Leaves(PT, thread, tn, t)
    BY <2>2 DEF Leaves, Moved, Waiting
  <2>4. SameFamily(PT, PT)
    BY DEF SameFamily
  <2> QED BY <1>1, <2>3, <2>4, QuietFamily
<1>5. TypeOK'
  BY <1>1 DEF TypeOK
<1> QED BY <1>3, <1>4, <1>5 DEF LInv

\* A join of u returns and leaves refs others.
JoinedTo(pb, u, refs) ==
    [pb EXCEPT ![u].refcount = refs, ![u].in = IF refs = 0 THEN NOPROC ELSE @]

LEMMA JoinedIs ==
    ASSUME NEW pb \in [Threads -> PTCB], NEW u \in Threads, NEW refs \in Int, NEW pn,
           pn = JoinedTo(pb, u, refs)
    PROVE  /\ pn \in [Threads -> PTCB] /\ \A v \in Threads : v # u => pn[v] = pb[v]
           /\ pn[u].exited = pb[u].exited /\ pn[u].refcount = refs
           /\ pn[u].in = IF refs = 0 THEN NOPROC ELSE pb[u].in
<1> DEFINE i == IF refs = 0 THEN NOPROC ELSE pb[u].in
           w == [pb[u] EXCEPT !.refcount = refs, !.in = i]
<1>1. pb[u] \in PTCB /\ i \in Pids \cup {NOPROC} /\ pn = [pb EXCEPT ![u] = w]
  BY DEF PTCB, JoinedTo
<1> HIDE DEF i
<1>2. w \in PTCB /\ w.exited = pb[u].exited /\ w.refcount = refs /\ w.in = i
  BY <1>1 DEF PTCB
<1> HIDE DEF w
<1>3. pn \in [Threads -> PTCB] /\ pn[u] = w /\ \A v \in Threads : v # u => pn[v] = pb[v]
  BY <1>1, <1>2
<1> QED BY <1>2, <1>3 DEF i

LEMMA JoinStep ==
    ASSUME LInv, NEW t \in Threads, NEW u \in Threads, sys_ThreadJoin(t, u)
    PROVE  LInv'
<1>1. /\ thread[t].pc = "user" /\ ptcb[u].in = thread[t].owner /\ ~ptcb[u].detached
      /\ UNCHANGED <<PT, pcb_freelist, info>>
  BY DEF sys_ThreadJoin, Runs, Listed, CURPROC
<1>2. /\ TypeOK /\ thread \in [Threads -> TCB] /\ ptcb \in [Threads -> PTCB] /\ JoinInv(thread, ptcb)
      /\ ptcb[u] \in PTCB /\ Alive(thread, t)
  BY <1>1 DEF LInv, TypeOK, Alive
<1>3. thread[t].owner \in Pids
  BY <1>2 DEF LInv, CountInv
<1>4. CASE ptcb[u].exited
  <2> DEFINE refs == ptcb[u].refcount
             pn == ptcb'
  <2>1. pn = JoinedTo(ptcb, u, refs) /\ thread' = thread
    BY <1>4 DEF sys_ThreadJoin, Joined, JoinedTo
  <2>2. refs \in Int /\ refs = Cardinality(Joiners(thread, u))
    BY <1>1, <1>2, <1>3, PidTypes DEF JoinInv, PTCB
  <2> HIDE DEF refs, pn
  <2>3. /\ pn \in [Threads -> PTCB] /\ \A v \in Threads : v # u => pn[v] = ptcb[v]
        /\ pn[u].exited = ptcb[u].exited /\ pn[u].refcount = refs
        /\ pn[u].in = IF refs = 0 THEN NOPROC ELSE ptcb[u].in
    BY <1>2, <2>1, <2>2, JoinedIs
  <2>4. OwnInv(thread, ptcb) /\ JoinerInv(thread, ptcb) /\ RefInv(thread, ptcb)
    BY <1>2, JoinParts
  <2>5. JoinInv(thread, pn)
    <3>1. \A v \in Threads : v # u /\ ptcb[v].in # NOPROC /\ ~ptcb[v].detached =>
                ptcb[v].refcount = Cardinality(Joiners(thread, v))
      BY <2>4 DEF RefInv
    <3>2. /\ pn[u].refcount = Cardinality(Joiners(thread, u))
          /\ pn[u].in = IF Cardinality(Joiners(thread, u)) = 0 THEN NOPROC ELSE ptcb[u].in
      BY <2>2, <2>3
    <3>3. Freed(thread, ptcb, pn, u)
      BY <1>4, <2>3, <3>1, <3>2 DEF Freed
    <3> QED BY <2>4, <3>3, JoinFreed
  <2>6. Moved(thread, thread, t)
    BY DEF Moved
  <2> QED BY <1>1, <1>2, <2>1, <2>3, <2>5, <2>6, JoinOnly DEF pn
<1>5. CASE ~ptcb[u].exited
  <2> DEFINE n == ptcb[u].refcount + 1
             s == ptcb[u].exit_cv \cup {t}
             w == [ptcb[u] EXCEPT !.refcount = n, !.exit_cv = s]
             tn == thread'
             pn == ptcb'
  <2>1. pn = [ptcb EXCEPT ![u] = w] /\ At(t, "join", u)
    BY <1>2, <1>5 DEF sys_ThreadJoin
  <2>2. n \in Int /\ s \in SUBSET Threads
    BY <1>2 DEF PTCB
  <2>3. tn \in [Threads -> TCB] /\ Moved(thread, tn, t) /\ tn[t].pc = "join" /\ tn[t].on = u
    BY <1>2, <2>1, AtIs
  <2> HIDE DEF n, s, tn, pn
  <2>4. /\ w \in PTCB /\ w.in = ptcb[u].in /\ w.exited = ptcb[u].exited
        /\ w.detached = ptcb[u].detached /\ w.refcount = n /\ w.exit_cv = s
    BY <1>2, <2>2 DEF PTCB
  <2> HIDE DEF w
  <2>5. pn \in [Threads -> PTCB] /\ pn[u] = w /\ \A v \in Threads : v # u => pn[v] = ptcb[v]
    BY <1>2, <2>1, <2>4
  <2>6. JoinInv(tn, pn)
    <3>1. /\ pn[u].in = ptcb[u].in /\ pn[u].exited = ptcb[u].exited
          /\ pn[u].detached = ptcb[u].detached /\ pn[u].refcount = ptcb[u].refcount + 1
          /\ pn[u].exit_cv = ptcb[u].exit_cv \cup {t}
      BY <2>4, <2>5 DEF n, s
    <3>2. thread[t].pc # "join"
      BY <1>1
    <3> QED BY <1>1, <1>2, <2>3, <2>5, <3>1, <3>2, JoinWait
  <2> QED BY <1>1, <2>3, <2>5, <2>6, JoinOnly DEF tn, pn
<1> QED BY <1>4, <1>5

LEMMA JoinWakesStep ==
    ASSUME LInv, NEW t \in Threads, JoinWakes(t)
    PROVE  LInv'
<1> DEFINE u == thread[t].on
           tn == thread'
           pn == ptcb'
<1>1. /\ thread[t].pc = "join" /\ t \notin ptcb[u].exit_cv /\ At(t, "user", NOPROC)
      /\ UNCHANGED <<PT, pcb_freelist, info>>
      /\ IF ptcb[u].detached THEN pn = ptcb ELSE pn = JoinedTo(ptcb, u, ptcb[u].refcount - 1)
  BY DEF JoinWakes, Joined, JoinedTo
<1>2. /\ TypeOK /\ thread \in [Threads -> TCB] /\ ptcb \in [Threads -> PTCB] /\ JoinInv(thread, ptcb)
      /\ Alive(thread, t)
  BY <1>1 DEF LInv, TypeOK, Alive
<1>3. /\ u \in Threads /\ ptcb[u].in = thread[t].owner /\ thread[t].owner \in Pids
      /\ ptcb[u].exited \/ ptcb[u].detached
  BY <1>1, <1>2 DEF LInv, JoinInv, CountInv
<1>4. tn \in [Threads -> TCB] /\ Moved(thread, tn, t) /\ tn[t].pc = "user"
  BY <1>1, <1>2, AtIs
<1> HIDE DEF tn, pn
<1>5. /\ OwnInv(tn, ptcb) /\ JoinerInv(tn, ptcb)
      /\ \A v \in Threads : v # u => Joiners(tn, v) = Joiners(thread, v)
      /\ Cardinality(Joiners(tn, u)) = Cardinality(Joiners(thread, u)) - 1
  <2> DEFINE w == u
  <2>1. w \in Threads /\ thread[t].on = w
    BY <1>3
  <2> HIDE DEF w
  <2>2. /\ OwnInv(tn, ptcb) /\ JoinerInv(tn, ptcb)
        /\ \A v \in Threads : v # w => Joiners(tn, v) = Joiners(thread, v)
        /\ Cardinality(Joiners(tn, w)) = Cardinality(Joiners(thread, w)) - 1
    BY <1>1, <1>2, <1>4, <2>1, JoinLeft
  <2> QED BY <2>2 DEF w
<1> HIDE DEF u
<1>6. RefInv(thread, ptcb)
  BY <1>2, JoinParts
<1>7. \A v \in Threads : v # u /\ ptcb[v].in # NOPROC /\ ~ptcb[v].detached =>
            ptcb[v].refcount = Cardinality(Joiners(tn, v))
  BY <1>5, <1>6 DEF RefInv
<1>8. CASE ptcb[u].detached
  <2>1. RefInv(tn, ptcb)
    BY <1>7, <1>8 DEF RefInv
  <2>2. JoinInv(tn, ptcb)
    BY <1>5, <2>1, JoinParts
  <2>3. pn = ptcb
    BY <1>1, <1>8
  <2> QED BY <1>1, <1>2, <1>4, <2>2, <2>3, JoinOnly DEF tn, pn
<1>9. CASE ~ptcb[u].detached
  <2> DEFINE refs == ptcb[u].refcount - 1
  <2>1. pn = JoinedTo(ptcb, u, refs)
    BY <1>1, <1>9
  <2>2. ptcb[u].refcount = Cardinality(Joiners(thread, u))
    BY <1>3, <1>6, <1>9, PidTypes DEF RefInv
  <2>3. refs = Cardinality(Joiners(tn, u)) /\ refs \in Int
    BY <1>5, <2>2, JoinersFinite
  <2> HIDE DEF refs
  <2>4. /\ pn \in [Threads -> PTCB] /\ \A v \in Threads : v # u => pn[v] = ptcb[v]
        /\ pn[u].exited = ptcb[u].exited /\ pn[u].refcount = refs
        /\ pn[u].in = IF refs = 0 THEN NOPROC ELSE ptcb[u].in
    BY <1>2, <1>3, <2>1, <2>3, JoinedIs
  <2>5. JoinInv(tn, pn)
    <3>1. /\ pn[u].refcount = Cardinality(Joiners(tn, u))
          /\ pn[u].in = IF Cardinality(Joiners(tn, u)) = 0 THEN NOPROC ELSE ptcb[u].in
      BY <2>3, <2>4
    <3>2. ptcb[u].exited
      BY <1>3, <1>9
    <3>3. Freed(tn, ptcb, pn, u)
      BY <1>7, <2>4, <3>1, <3>2 DEF Freed
    <3> QED BY <1>3, <1>5, <3>3, JoinFreed
  <2> QED BY <1>1, <1>4, <2>4, <2>5, JoinOnly DEF tn, pn
<1> QED BY <1>8, <1>9

LEMMA DetachStep ==
    ASSUME LInv, NEW t \in Threads, NEW u \in Threads, sys_ThreadDetach(t, u)
    PROVE  LInv'
<1> DEFINE w == [ptcb[u] EXCEPT !.detached = TRUE, !.exit_cv = {}]
           pn == ptcb'
<1>1. /\ thread[t].pc = "user" /\ UNCHANGED <<PT, pcb_freelist, info>> /\ thread' = thread
      /\ pn = [ptcb EXCEPT ![u].detached = TRUE, ![u].exit_cv = {}]
  BY DEF sys_ThreadDetach, Runs
<1>2. /\ thread \in [Threads -> TCB] /\ ptcb \in [Threads -> PTCB] /\ JoinInv(thread, ptcb)
      /\ ptcb[u] \in PTCB
  BY DEF LInv, TypeOK
<1>3. pn = [ptcb EXCEPT ![u] = w]
  BY <1>1, <1>2
<1>4. w \in PTCB /\ w.in = ptcb[u].in /\ w.exited = ptcb[u].exited /\ w.detached
  BY <1>2 DEF PTCB
<1> HIDE DEF w, pn
<1>5. pn \in [Threads -> PTCB] /\ pn[u] = w /\ \A v \in Threads : v # u => pn[v] = ptcb[v]
  BY <1>2, <1>3, <1>4
<1>6. JoinInv(thread, pn)
  <2>1. pn[u].in = ptcb[u].in /\ pn[u].exited = ptcb[u].exited /\ pn[u].detached
    BY <1>4, <1>5
  <2> QED BY <1>2, <1>5, <2>1, JoinDetach
<1>7. Moved(thread, thread, t)
  BY DEF Moved
<1> QED BY <1>1, <1>2, <1>5, <1>6, <1>7, JoinOnly DEF pn

-----------------------------------------------------------------------------
(***************************************************************************)
(* OpenInfo and the reads of the stream.                                   *)
(***************************************************************************)
LEMMA NextProcess ==
    ASSUME NEW S, S \subseteq Nat, S # {}
    PROVE  Min(S) \in S /\ \A y \in S : Min(S) <= y
<1> DEFINE R == {ss \in Nat \X Nat : ss[1] < ss[2]}
<1>1. IsWellFoundedOn(R, Nat)
  BY NatLessThanWellFounded DEF OpToRel
<1>2. PICK x \in S : \A y \in S : <<y, x>> \notin R
  BY <1>1, WFMin
<1>3. ASSUME NEW y \in S PROVE x <= y
  <2>1. x \in Nat /\ y \in Nat /\ <<y, x>> \in Nat \X Nat
    OBVIOUS
  <2>2. ~ (<<y, x>>[1] < <<y, x>>[2])
    BY <1>2, <2>1
  <2> QED BY <2>1, <2>2
<1> QED BY <1>3 DEF Min

InfoType == [cursor : 0 .. MAX_PROC, present : SUBSET Pids, seen : SUBSET Pids]

LEMMA InfoOnly ==
    ASSUME LInv, info' \in InfoType, InfoInv(PT, info'), UNCHANGED <<PT, pcb_freelist, thread, ptcb>>
    PROVE  LInv'
BY DEF LInv, TypeOK, InfoType

LEMMA InfoStep ==
    ASSUME LInv, sys_OpenInfo \/ procinfo_read \/ procinfo_close
    PROVE  LInv'
<1>1. UNCHANGED <<PT, pcb_freelist, thread, ptcb>>
  BY DEF sys_OpenInfo, procinfo_read, procinfo_close
<1>2. /\ info \in InfoType /\ InfoInv(PT, info) /\ Used \subseteq Pids
      /\ MAX_PROC \in Nat /\ MAX_PROC >= 2
  BY LegacyProcAssumption DEF LInv, TypeOK, InfoType, Used
<1>3. info' \in InfoType /\ InfoInv(PT, info')
  <2>1. CASE sys_OpenInfo
    <3>1. info' = [cursor |-> 1, present |-> Used, seen |-> {}]
      BY <2>1 DEF sys_OpenInfo
    <3>2. \A p \in Used : PT[p].pstate # "FREE" /\ ~(p < 1)
      BY DEF Used, Pids
    <3> QED BY <1>2, <3>1, <3>2 DEF InfoType, InfoInv
  <2>2. CASE procinfo_close
    <3>1. info' = [cursor |-> 0, present |-> {}, seen |-> {}]
      BY <2>2 DEF procinfo_close
    <3> QED BY <1>2, <3>1 DEF InfoType, InfoInv
  <2>3. CASE procinfo_read
    <3> DEFINE ahead == {x \in Used : x >= info.cursor}
               p == Min(ahead)
    <3>1. /\ info.cursor \in 1 .. MAX_PROC - 1
          /\ info' = IF ahead = {} THEN [info EXCEPT !.cursor = MAX_PROC]
                     ELSE [info EXCEPT !.cursor = p + 1, !.seen = @ \cup {p}]
      BY <2>3 DEF procinfo_read
    <3>2. /\ info.present \in SUBSET Pids /\ info.seen \in SUBSET Pids /\ info.cursor \in Nat
          /\ \A x \in info.present : x \in Used /\ (x < info.cursor => x \in info.seen)
      BY <1>2 DEF InfoType, InfoInv, Used
    <3>3. \A x \in Pids : x \in Nat /\ x < MAX_PROC
      BY <1>2 DEF Pids
    <3>4. CASE ahead = {}
      <4>1. /\ info' \in InfoType /\ info'.present = info.present /\ info'.seen = info.seen
        <5>1. info' = [info EXCEPT !.cursor = MAX_PROC] /\ MAX_PROC \in 0 .. MAX_PROC
          BY <1>2, <3>1, <3>4
        <5> QED BY <1>2, <5>1 DEF InfoType
      <4>2. \A x \in info.present : x \in info.seen
        BY <1>2, <3>2, <3>3, <3>4
      <4> QED BY <1>2, <4>1, <4>2 DEF InfoInv
    <3>5. CASE ahead # {}
      <4>1. ahead \subseteq Nat
        BY <1>2, <3>3
      <4>2. p \in ahead /\ \A y \in ahead : p <= y
        BY <3>5, <4>1, NextProcess
      <4> HIDE DEF p
      <4>3. p \in Pids /\ p \in Nat /\ p < MAX_PROC
        BY <1>2, <3>3, <4>2
      <4>4. /\ info' \in InfoType /\ info'.present = info.present /\ info'.seen = info.seen \cup {p}
            /\ info'.cursor = p + 1
        <5> DEFINE n == p + 1
                   s == info.seen \cup {p}
        <5>1. info' = [info EXCEPT !.cursor = n, !.seen = s]
          BY <3>1, <3>5 DEF p
        <5>2. n \in 0 .. MAX_PROC /\ s \in SUBSET Pids
          BY <1>2, <3>2, <4>3
        <5> HIDE DEF n, s
        <5>3. /\ info' \in InfoType /\ info'.present = info.present /\ info'.seen = s
              /\ info'.cursor = n
          BY <1>2, <5>1, <5>2 DEF InfoType
        <5> QED BY <5>3 DEF n, s
      <4>5. ASSUME NEW x \in info.present, x < p + 1 PROVE x \in info.seen \cup {p}
        <5>1. x \in Pids /\ x \in Nat /\ x \in Used
          BY <3>2, <3>3
        <5>2. CASE x < info.cursor
          BY <3>2, <5>2
        <5>3. CASE x >= info.cursor
          <6>1. p <= x
            BY <4>2, <5>1, <5>3
          <6> QED BY <4>3, <4>5, <5>1, <6>1
        <5> QED BY <3>2, <5>1, <5>2, <5>3
      <4> QED BY <1>2, <4>4, <4>5 DEF InfoInv
    <3> QED BY <3>4, <3>5
  <2> QED BY <2>1, <2>2, <2>3
<1> QED BY <1>1, <1>3, InfoOnly

-----------------------------------------------------------------------------
(***************************************************************************)
(* The invariant holds at the start and is kept.                           *)
(***************************************************************************)
LEMMA LInvInit == Init => LInv
<1> SUFFICES ASSUME Init PROVE LInv
  OBVIOUS
<1> DEFINE main == CHOOSE t \in Threads : TRUE
<1>1. main \in Threads
  BY LegacyProcAssumption
<1>2. /\ PT = [p \in Pids |-> IF p # init THEN initialize_PCB
                              ELSE [initialize_PCB EXCEPT !.pstate = "ALIVE", !.thread_count = 1,
                                                          !.main_task = TRUE]]
      /\ pcb_freelist = [i \in 1 .. MAX_PROC - 2 |-> i + 1]
      /\ thread = [t \in Threads |-> IF t = main THEN Started(init) ELSE NoThread]
      /\ ptcb = [t \in Threads |-> IF t = main THEN create_ptcb(init) ELSE NoPTCB]
      /\ info = [cursor |-> 0, present |-> {}, seen |-> {}]
  BY DEF Init
<1> HIDE DEF main
<1>3. \A p \in Pids : /\ PT[p] \in PCB /\ PT[p].parent = NOPROC /\ PT[p].children = {}
                      /\ PT[p].exited = <<>> /\ PT[p].child_exit = {}
                      /\ PT[p].pstate = IF p = init THEN "ALIVE" ELSE "FREE"
                      /\ PT[p].thread_count = IF p = init THEN 1 ELSE 0
                      /\ p = init => PT[p].main_task
  <2>1. /\ initialize_PCB \in PCB /\ initialize_PCB.parent = NOPROC /\ initialize_PCB.children = {}
        /\ initialize_PCB.exited = <<>> /\ initialize_PCB.child_exit = {}
        /\ initialize_PCB.pstate = "FREE" /\ initialize_PCB.thread_count = 0
    BY DEF initialize_PCB, PCB
  <2> DEFINE w == [initialize_PCB EXCEPT !.pstate = "ALIVE", !.thread_count = 1, !.main_task = TRUE]
  <2>2. /\ w \in PCB /\ w.parent = NOPROC /\ w.children = {} /\ w.exited = <<>>
        /\ w.child_exit = {} /\ w.pstate = "ALIVE" /\ w.thread_count = 1 /\ w.main_task
    BY <2>1 DEF PCB
  <2> HIDE DEF w
  <2>3. \A p \in Pids : PT[p] = IF p # init THEN initialize_PCB ELSE w
    BY <1>2 DEF w
  <2> QED BY <2>1, <2>2, <2>3
<1>4. PT \in [Pids -> PCB]
  BY <1>2, <1>3
<1>5. /\ pcb_freelist \in Seq(Pids) /\ Once(pcb_freelist)
      /\ \A p \in Pids : Has(pcb_freelist, p) <=> PT[p].pstate = "FREE"
  <2> DEFINE n == MAX_PROC - 2
  <2>1. n \in Nat /\ Pids = 1 .. n + 1 /\ init = 1
    BY LegacyProcAssumption DEF Pids, init
  <2>2. pcb_freelist \in [1 .. n -> Pids] /\ \A i \in 1 .. n : pcb_freelist[i] = i + 1
    BY <1>2, <2>1
  <2>3. pcb_freelist \in Seq(Pids) /\ DOMAIN pcb_freelist = 1 .. n
    BY <2>1, <2>2
  <2>4. Once(pcb_freelist)
    BY <2>1, <2>2, <2>3 DEF Once
  <2>5. ASSUME NEW p \in Pids PROVE Has(pcb_freelist, p) <=> PT[p].pstate = "FREE"
    <3>1. PT[p].pstate = "FREE" <=> p # 1
      BY <1>3, <2>1
    <3>2. p # 1 => p - 1 \in 1 .. n /\ pcb_freelist[p - 1] = p
      BY <2>1, <2>2
    <3>3. ASSUME NEW i \in 1 .. n, pcb_freelist[i] = p PROVE p # 1
      BY <2>1, <2>2, <3>3
    <3> QED BY <2>3, <3>1, <3>2, <3>3 DEF Has
  <2> QED BY <2>3, <2>4, <2>5
<1>6. FamilyInv(PT, pcb_freelist)
  <2>1. \A x : ~Has(<<>>, x)
    BY DEF Has
  <2>2. Once(<<>>)
    BY DEF Once
  <2>3. \A p \in Pids : Once(PT[p].exited)
    BY <1>3, <2>2
  <2>4. \A p, c \in Pids : Has(PT[p].exited, c) <=> c \in PT[p].children /\ PT[c].pstate = "ZOMBIE"
    BY <1>3, <2>1
  <2>5. /\ PT[init].pstate # "FREE" /\ PT[init].parent = NOPROC
        /\ \A p \in Pids \ {init} : PT[p].pstate = "FREE" /\ PT[p].children = {}
        /\ \A p \in Pids : PT[p].children = {}
    BY <1>3, PidTypes
  <2> QED BY <1>5, <2>3, <2>4, <2>5 DEF FamilyInv
<1>7. NoThread \in TCB /\ NoThread.pc = "none" /\ Started(init) \in TCB
      /\ Started(init).pc = "user" /\ Started(init).owner = init
  BY PidTypes DEF NoThread, Started, TCB
<1>8. /\ thread \in [Threads -> TCB] /\ thread[main].pc = "user" /\ thread[main].owner = init
      /\ \A t \in Threads : t # main => thread[t].pc = "none"
  BY <1>1, <1>2, <1>7
<1>9. /\ NoPTCB \in PTCB /\ NoPTCB.in = NOPROC /\ NoPTCB.refcount = 0 /\ NoPTCB.exited = FALSE
  BY DEF NoPTCB, PTCB
<1>10. /\ create_ptcb(init) \in PTCB /\ create_ptcb(init).in = init
       /\ create_ptcb(init).refcount = 0 /\ create_ptcb(init).exited = FALSE
  BY <1>9, PidTypes DEF create_ptcb, PTCB
<1>11. /\ ptcb \in [Threads -> PTCB]
       /\ ptcb[main].in = init /\ ptcb[main].exited = FALSE
       /\ \A t \in Threads : ptcb[t].refcount = 0 /\ (t # main => ptcb[t].in = NOPROC)
  BY <1>1, <1>2, <1>9, <1>10
<1>12. CountInv(PT, thread)
  <2>1. \A t \in Threads : Alive(thread, t) <=> t = main
    BY <1>8 DEF Alive
  <2>2. Members(thread, init) = {main} /\ \A p \in Pids : p # init => Members(thread, p) = {}
    BY <1>1, <1>8, <2>1 DEF Members
  <2>3. Cardinality({main}) = 1 /\ Cardinality({}) = 0
    BY FS_Singleton, FS_EmptySet
  <2>4. ASSUME NEW p \in Pids PROVE /\ PT[p].thread_count = Cardinality(Members(thread, p))
                                    /\ PT[p].pstate = "ALIVE" /\ PT[p].main_task <=> Members(thread, p) # {}
    <3>1. CASE p = init
      BY <1>3, <2>2, <2>3, <3>1
    <3>2. CASE p # init
      BY <1>3, <2>2, <2>3, <3>2
    <3> QED BY <3>1, <3>2
  <2>5. \A t \in Threads : Alive(thread, t) => thread[t].owner \in Pids
    BY <1>8, <2>1, PidTypes
  <2> QED BY <2>4, <2>5 DEF CountInv
<1>13. CauseInv(PT, thread) /\ TargetInv(PT, thread)
  BY <1>3, <1>8 DEF CauseInv, TargetInv
<1>14. JoinInv(thread, ptcb)
  <2>1. \A u \in Threads : Joiners(thread, u) = {}
    BY <1>8 DEF Joiners
  <2>2. OwnInv(thread, ptcb)
    BY <1>1, <1>8, <1>11 DEF OwnInv, Alive
  <2>3. JoinerInv(thread, ptcb)
    BY <1>8 DEF JoinerInv
  <2>4. RefInv(thread, ptcb)
    BY <1>11, <2>1, FS_EmptySet DEF RefInv
  <2> QED BY <2>2, <2>3, <2>4, JoinParts
<1>15. info \in InfoType /\ InfoInv(PT, info)
  BY <1>2, LegacyProcAssumption DEF InfoType, InfoInv
<1> QED BY <1>4, <1>5, <1>6, <1>8, <1>11, <1>12, <1>13, <1>14, <1>15 DEF LInv, TypeOK, InfoType

LEMMA LInvStep ==
    ASSUME Careful, LInv, [Next]_vars
    PROVE  LInv'
<1>1. CASE UNCHANGED vars
  BY <1>1 DEF LInv, TypeOK, vars, kernel
<1>2. ASSUME NEW t \in Threads, SystemCall(t) PROVE LInv'
  <2>1. CASE \E argl \in ArgLens : sys_Exec(t, argl) \/ sys_ExecNull(t, argl)
    BY <2>1, ExecStep, ExecNullStep
  <2>2. CASE sys_CreateThread(t)
    BY <2>2, CreateStep
  <2>3. CASE sys_WaitChild(t)
    BY <2>3, WaitChildStep
  <2>4. CASE sys_ThreadExit(t) \/ sys_Exit(t)
    BY <2>4, EndStep
  <2>5. CASE \E u \in Threads : sys_ThreadJoin(t, u) \/ sys_ThreadDetach(t, u)
    BY <2>5, JoinStep, DetachStep
  <2> QED BY <1>2, <2>1, <2>2, <2>3, <2>4, <2>5 DEF SystemCall
<1>3. ASSUME NEW t \in Threads, Wakes(t) PROVE LInv'
  <2>1. CASE WaitWakes(t)
    BY <2>1, WaitWakesStep
  <2>2. CASE ExitGoesOn(t)
    BY <2>2, EndStep
  <2>3. CASE JoinWakes(t)
    BY <2>3, JoinWakesStep
  <2> QED BY <1>3, <2>1, <2>2, <2>3 DEF Wakes
<1>4. CASE sys_OpenInfo \/ procinfo_read \/ procinfo_close
  BY <1>4, InfoStep
<1> QED BY <1>1, <1>2, <1>3, <1>4 DEF Next

LEMMA LInvSound == LInv => ProcSound /\ InfoComplete
<1> SUFFICES ASSUME LInv PROVE ProcSound /\ InfoComplete
  OBVIOUS
<1>1. /\ PT \in [Pids -> PCB] /\ pcb_freelist \in Seq(Pids) /\ FamilyInv(PT, pcb_freelist)
      /\ CountInv(PT, thread) /\ CauseInv(PT, thread) /\ TargetInv(PT, thread)
      /\ JoinInv(thread, ptcb) /\ InfoInv(PT, info)
  BY DEF LInv, TypeOK
<1>2. ASSUME NEW s \in Seq(Pids) PROVE /\ Once(s) => IsInjective(s)
                                       /\ \A x : Contains(s, x) <=> Has(s, x)
                                       /\ \A x : x \in ToSet(s) <=> Has(s, x)
  <2>1. DOMAIN s = 1 .. Len(s)
    OBVIOUS
  <2> QED BY <2>1 DEF Once, Has, IsInjective, Contains, ToSet
<1>3. \A p \in Pids : PT[p].exited \in Seq(Pids) /\ PT[p].children \subseteq Pids
  BY <1>1, Fields
<1>4. FamilySound
  <2>1. ASSUME NEW p \in Used \ {init}
        PROVE  LET q == PT[p].parent IN
                /\ q \in Used /\ p \in PT[q].children
                /\ PT[init].pstate = "ALIVE" => PT[q].pstate = "ALIVE"
                /\ (PT[p].pstate = "ZOMBIE") <=> Contains(PT[q].exited, p)
    <3> DEFINE q == PT[p].parent
    <3>1. p \in Pids \ {init} /\ PT[p].pstate # "FREE"
      BY DEF Used
    <3>2. ParentOK(PT, p)
      BY <1>1, <3>1 DEF FamilyInv
    <3>3. q \in Pids /\ p \in PT[q].children /\ (q = init \/ PT[q].pstate = "ALIVE")
      BY <3>2 DEF ParentOK
    <3> HIDE DEF q
    <3>4. PT[q].pstate # "FREE"
      BY <1>1, <3>3 DEF FamilyInv
    <3>5. Has(PT[q].exited, p) <=> p \in PT[q].children /\ PT[p].pstate = "ZOMBIE"
      BY <1>1, <3>1, <3>3 DEF FamilyInv
    <3>6. Contains(PT[q].exited, p) <=> Has(PT[q].exited, p)
      BY <1>2, <1>3, <3>3
    <3>7. /\ q \in Used /\ p \in PT[q].children
          /\ PT[init].pstate = "ALIVE" => PT[q].pstate = "ALIVE"
          /\ (PT[p].pstate = "ZOMBIE") <=> Contains(PT[q].exited, p)
      BY <3>3, <3>4, <3>5, <3>6 DEF Used
    <3> QED BY <3>7 DEF q
  <2>2. ASSUME NEW p \in Pids
        PROVE  /\ IsInjective(PT[p].exited)
               /\ \A c \in PT[p].children : c \in Used /\ PT[c].parent = p
    <3>1. IsInjective(PT[p].exited)
      BY <1>1, <1>2, <1>3 DEF FamilyInv
    <3>2. \A c \in PT[p].children : c \in Pids /\ PT[c].pstate # "FREE" /\ PT[c].parent = p
      BY <1>1, <1>3 DEF FamilyInv
    <3> QED BY <3>1, <3>2 DEF Used
  <2>3. IsInjective(pcb_freelist)
    BY <1>1, <1>2 DEF FamilyInv
  <2>4. ToSet(pcb_freelist) = Pids \ Used
    <3>1. \A x : x \in ToSet(pcb_freelist) <=> Has(pcb_freelist, x)
      BY <1>1, <1>2
    <3>2. \A x : Has(pcb_freelist, x) => x \in Pids
      BY <1>1 DEF Has
    <3>3. \A x \in Pids : Has(pcb_freelist, x) <=> x \notin Used
      BY <1>1 DEF FamilyInv, Used
    <3>4. Used \subseteq Pids
      BY DEF Used
    <3> QED BY <3>1, <3>2, <3>3, <3>4
  <2>5. ASSUME NEW p \in Pids \ Used PROVE PT[p].children = {} /\ PT[p].exited = <<>>
    <3>1. PT[p].pstate = "FREE" /\ p # init
      BY <1>1, PidTypes DEF Used, FamilyInv
    <3>2. PT[p].children = {}
      BY <1>1, <3>1 DEF FamilyInv
    <3>3. \A c \in Pids : ~Has(PT[p].exited, c)
      BY <1>1, <3>2 DEF FamilyInv
    <3> QED BY <1>3, <3>2, <3>3, EmptyHas
  <2> QED BY <2>1, <2>2, <2>3, <2>4, <2>5 DEF FamilySound
<1>5. WaitHasCause
  <2> SUFFICES ASSUME NEW p \in Pids, NEW t \in PT[p].child_exit
               PROVE  /\ CURPROC(t) = p
                      /\ thread[t].pc = "wait_child" =>
                            PT[thread[t].on].pstate = "ALIVE" /\ PT[thread[t].on].parent = p
                      /\ thread[t].pc \in {"wait_any", "exit"} =>
                            PT[p].children # {} /\ PT[p].exited = <<>>
    BY DEF WaitHasCause
  <2>1. t \in Threads
    BY <1>1, Fields
  <2> QED BY <1>1, <2>1 DEF CauseInv, TargetInv, CURPROC
<1>6. ThreadCountExact
  <2> SUFFICES ASSUME NEW p \in Pids
               PROVE  LET n == Cardinality({t \in Threads : Live(t) /\ CURPROC(t) = p}) IN
                      PT[p].thread_count = n /\ (PT[p].pstate = "ALIVE" /\ PT[p].main_task <=> n > 0)
    BY DEF ThreadCountExact
  <2> DEFINE A == Members(thread, p)
  <2>1. {t \in Threads : Live(t) /\ CURPROC(t) = p} = A
    BY DEF Live, CURPROC, Members, Alive
  <2>2. PT[p].thread_count = Cardinality(A) /\ (PT[p].pstate = "ALIVE" /\ PT[p].main_task <=> A # {})
    BY <1>1 DEF CountInv
  <2>3. IsFiniteSet(A) /\ Cardinality(A) \in Nat
    BY MembersFinite
  <2> HIDE DEF A
  <2>4. Cardinality(A) > 0 <=> A # {}
    BY <2>3, FS_EmptySet
  <2> QED BY <2>1, <2>2, <2>4
<1>7. JoinSafe
  <2>1. \A u \in Threads : Joiners(thread, u) = {t \in Threads : thread[t].pc = "join" /\ thread[t].on = u}
    BY DEF Joiners
  <2>2. \A u \in Threads : Live(u) => ptcb[u].in = CURPROC(u)
    BY <1>1 DEF JoinInv, Live, Alive, CURPROC
  <2>3. \A u, t \in Threads : thread[t].pc = "join" /\ thread[t].on = u => ptcb[u].in = CURPROC(t)
    BY <1>1 DEF JoinInv, CURPROC
  <2>4. \A u \in Threads : ptcb[u].in # NOPROC /\ ~ptcb[u].detached =>
            ptcb[u].refcount = Cardinality({t \in Threads : thread[t].pc = "join" /\ thread[t].on = u})
    BY <1>1, <2>1 DEF JoinInv
  <2> QED BY <2>2, <2>3, <2>4 DEF JoinSafe
<1>8. InfoComplete
  <2>1. info.present \subseteq Pids /\ \A p \in Pids : p < MAX_PROC
    BY LegacyProcAssumption DEF LInv, TypeOK, Pids
  <2> QED BY <1>1, <2>1 DEF InfoComplete, InfoInv
<1> QED BY <1>4, <1>5, <1>6, <1>7, <1>8 DEF ProcSound

(***************************************************************************)
(* As long as no thread waits for a child by its pid while another thread  *)
(* of its process waits for the same one or for any, the process table of  *)
(* the legacy kernel stays sound over every mix of Exec, with and without  *)
(* a task, CreateThread, WaitChild, Exit, ThreadExit, ThreadJoin and       *)
(* ThreadDetach: reparenting in sys_ThreadExit and cleanup_zombie keep the *)
(* family tree and the free list, no thread sleeps past its cause,         *)
(* thread_count is the number of threads, and no PTCB is freed that a join *)
(* still needs.                                                            *)
(***************************************************************************)
THEOREM ProcSafe == Careful /\ Spec => []ProcSound
<1> SUFFICES ASSUME Careful PROVE Spec => []ProcSound
  OBVIOUS
<1>1. LInv /\ [Next]_vars => LInv'
  BY LInvStep
<1>2. LInv => ProcSound
  BY LInvSound
<1> QED BY <1>1, <1>2, LInvInit, PTL DEF Spec

(***************************************************************************)
(* Under the same condition an information stream that procinfo_read has   *)
(* brought to its end has told of every process that was in the table from *)
(* OpenInfo on, whatever was created, exited and reaped meanwhile.         *)
(***************************************************************************)
THEOREM InfoSafe == Careful /\ Spec => []InfoComplete
<1> SUFFICES ASSUME Careful PROVE Spec => []InfoComplete
  OBVIOUS
<1>1. LInv /\ [Next]_vars => LInv'
  BY LInvStep
<1>2. LInv => InfoComplete
  BY LInvSound
<1> QED BY <1>1, <1>2, LInvInit, PTL DEF Spec

=============================================================================
