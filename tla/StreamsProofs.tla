----------------------------- MODULE StreamsProofs -----------------------------
(***************************************************************************)
(* Proofs about what is behind a file descriptor: the file tables of the   *)
(* kernel and of the legacy kernel, for every number of processes, threads,*)
(* descriptors and FCBs, and a pipe of the legacy kernel, for every buffer *)
(* size and number of threads.                                             *)
(***************************************************************************)
EXTENDS MCStreams, SequenceTheorems, FiniteSetTheorems, TLAPS

-----------------------------------------------------------------------------
(* Sequences without repetition: the free list of FCBs.                    *)

Once(s)   == \A i, j \in DOMAIN s : s[i] = s[j] => i = j
Has(s, x) == \E i \in DOMAIN s : s[i] = x

\* A new element at the end.
LEMMA AppendOnce ==
    ASSUME NEW T, NEW s \in Seq(T), NEW t \in T, Once(s), ~Has(s, t)
    PROVE  /\ Append(s, t) \in Seq(T)
           /\ Once(Append(s, t))
           /\ \A u : Has(Append(s, t), u) <=> Has(s, u) \/ u = t
<1>1. /\ Append(s, t) \in Seq(T)
      /\ Len(s) \in Nat /\ DOMAIN s = 1..Len(s) /\ DOMAIN Append(s, t) = 1..Len(s)+1
      /\ Append(s, t)[Len(s)+1] = t /\ \A i \in 1..Len(s) : Append(s, t)[i] = s[i]
  OBVIOUS
<1>2. \A i \in 1..Len(s)+1 : i \in 1..Len(s) \/ i = Len(s)+1
  BY <1>1
<1>3. Once(Append(s, t))
  BY <1>1, <1>2 DEF Once, Has
<1>4. ASSUME NEW u PROVE Has(Append(s, t), u) <=> Has(s, u) \/ u = t
  BY <1>1, <1>2 DEF Has
<1> QED BY <1>1, <1>3, <1>4

\* The first element is taken.
LEMMA TailOnce ==
    ASSUME NEW T, NEW s \in Seq(T), s # <<>>, Once(s)
    PROVE  /\ Head(s) \in T /\ Has(s, Head(s))
           /\ Tail(s) \in Seq(T)
           /\ Once(Tail(s))
           /\ \A u : Has(Tail(s), u) <=> Has(s, u) /\ u # Head(s)
<1>1. /\ Tail(s) \in Seq(T) /\ Head(s) = s[1] /\ Head(s) \in T
      /\ Len(s) \in Nat \ {0} /\ DOMAIN s = 1..Len(s) /\ DOMAIN Tail(s) = 1..Len(s)-1
      /\ \A i \in 1..Len(s)-1 : Tail(s)[i] = s[i+1]
  OBVIOUS
<1>2. /\ \A i \in 1..Len(s)-1 : i+1 \in 1..Len(s) /\ i+1 # 1
      /\ \A i \in 1..Len(s) : i = 1 \/ (i-1 \in 1..Len(s)-1 /\ (i-1)+1 = i)
      /\ \A i, j \in 1..Len(s)-1 : i+1 = j+1 => i = j
      /\ 1 \in 1..Len(s)
  BY <1>1
<1>3. Once(Tail(s))
  BY <1>1, <1>2 DEF Once
<1>4. ASSUME NEW u PROVE Has(Tail(s), u) => Has(s, u) /\ u # Head(s)
  BY <1>1, <1>2 DEF Has, Once
<1>5. ASSUME NEW u, Has(s, u), u # Head(s) PROVE Has(Tail(s), u)
  <2>1. PICK i \in 1..Len(s) : s[i] = u
    BY <1>1, <1>5 DEF Has
  <2>2. i-1 \in 1..Len(s)-1 /\ Tail(s)[i-1] = u
    BY <1>1, <1>2, <1>5, <2>1
  <2> QED BY <1>1, <2>2 DEF Has
<1>6. Has(s, Head(s))
  BY <1>1, <1>2 DEF Has
<1> QED BY <1>1, <1>3, <1>4, <1>5, <1>6

-----------------------------------------------------------------------------
(* The file table                                                          *)

Inherits == "Exec" \in Calls
Shares   == {"Exec", "Close"} \subseteq Calls

\* A descriptor names an FCB outside the free list, with the stream it was opened on.
Kept == ~Shares =>
    /\ Once(freelist)
    /\ \A p \in Procs, f \in Fids : FIDT[p][f] # NULL =>
           ~Has(freelist, FIDT[p][f]) /\ stream[FIDT[p][f]] = opened[p][f]

\* Without inheritance it has that FCB to itself, counted once.
Own == ~Inherits =>
    \A p \in Procs, f \in Fids : FIDT[p][f] # NULL =>
        /\ refcount[FIDT[p][f]] = 1
        /\ \A q \in Procs, g \in Fids : FIDT[q][g] = FIDT[p][f] => q = p /\ g = f

\* An FCB is in the free list or has a descriptor.
NoneLost == ~Inherits =>
    \A b \in FCBs : Has(freelist, b) \/ \E p \in Procs, f \in Fids : FIDT[p][f] = b

(***************************************************************************)
(* TableSound is not inductive where programs inherit and never close: a   *)
(* reservation keeps the streams of others only because no descriptor, of  *)
(* a process that has exited neither, names an FCB of the free list.       *)
(***************************************************************************)
TableInv == TypeOK /\ Kept /\ Own /\ NoneLost

LEMMA TableInit == Init => TableInv
<1> SUFFICES ASSUME Init PROVE TableInv
  OBVIOUS
<1>1. /\ FCBs = 1..MAX_FILES /\ MAX_FILES \in Nat /\ NULL \notin FCBs
      /\ freelist \in Seq(FCBs) /\ DOMAIN freelist = FCBs /\ \A i \in FCBs : freelist[i] = i
  BY StreamsAssumption DEF Init, FCBs, NULL
<1>2. TypeOK
  BY <1>1, StreamsAssumption DEF Init, TypeOK, Streams, NoStream
<1>3. Kept /\ Own /\ NoneLost
  BY <1>1 DEF Init, Kept, Own, NoneLost, Once, Has
<1> QED BY <1>2, <1>3 DEF TableInv

\* The head of the free list, which FCB_reserve takes, has no descriptor.
LEMMA TakeHead ==
    ASSUME TableInv, freelist # <<>>, NEW b, b = Head(freelist)
    PROVE  /\ b \in FCBs /\ b # NULL
           /\ Tail(freelist) \in Seq(FCBs)
           /\ ~Shares => /\ Has(freelist, b) /\ Once(Tail(freelist))
                         /\ \A u : Has(Tail(freelist), u) <=> Has(freelist, u) /\ u # b
                         /\ \A p \in Procs, f \in Fids : FIDT[p][f] # b
<1>1. freelist \in Seq(FCBs)
  BY DEF TableInv, TypeOK
<1>2. b \in FCBs /\ Tail(freelist) \in Seq(FCBs)
  BY <1>1
<1>3. b # NULL
  BY <1>2 DEF FCBs, NULL
<1>4. ASSUME ~Shares
      PROVE  /\ Has(freelist, b) /\ Once(Tail(freelist))
             /\ \A u : Has(Tail(freelist), u) <=> Has(freelist, u) /\ u # b
  BY <1>1, <1>4, TailOnce DEF TableInv, Kept
<1>5. ASSUME ~Shares PROVE \A p \in Procs, f \in Fids : FIDT[p][f] # b
  BY <1>3, <1>4, <1>5 DEF TableInv, Kept
<1> QED BY <1>2, <1>3, <1>4, <1>5

LEMMA OpenWorksKeeps ==
    ASSUME TableInv, UNCHANGED Calls, NEW p \in Procs, NEW f \in Fids, NEW s \in Streams,
           OpenWorks(p, f, s)
    PROVE  TableInv'
<1> DEFINE b == Head(freelist)
<1>1. /\ FIDT' = [FIDT EXCEPT ![p][f] = b]
      /\ opened' = [opened EXCEPT ![p][f] = s]
      /\ refcount' = [refcount EXCEPT ![b] = 1]
      /\ stream' = [stream EXCEPT ![b] = s]
      /\ freelist' = Tail(freelist)
      /\ alive' = alive /\ Calls' = Calls
      /\ FIDT[p][f] = NULL /\ freelist # <<>>
  BY DEF OpenWorks, FreeFid
<1>2. /\ b \in FCBs /\ b # NULL
      /\ Tail(freelist) \in Seq(FCBs)
      /\ ~Shares => /\ Has(freelist, b) /\ Once(Tail(freelist))
                    /\ \A u : Has(Tail(freelist), u) <=> Has(freelist, u) /\ u # b
                    /\ \A q \in Procs, g \in Fids : FIDT[q][g] # b
  BY <1>1, TakeHead
<1> HIDE DEF b
<1>3. TypeOK'
  BY <1>1, <1>2 DEF TableInv, TypeOK
<1>4. /\ FIDT'[p][f] = b /\ opened'[p][f] = s
      /\ \A q \in Procs, g \in Fids : q # p \/ g # f =>
             FIDT'[q][g] = FIDT[q][g] /\ opened'[q][g] = opened[q][g]
  BY <1>1 DEF TableInv, TypeOK
<1>5. ASSUME ~Shares, NEW q \in Procs, NEW g \in Fids, FIDT'[q][g] # NULL
      PROVE  /\ ~Has(freelist', FIDT'[q][g])
             /\ stream'[FIDT'[q][g]] = opened'[q][g]
  <2>1. CASE q = p /\ g = f
    BY <1>1, <1>2, <1>4, <1>5, <2>1 DEF TableInv, TypeOK
  <2>2. CASE q # p \/ g # f
    <3>1. FIDT[q][g] # b /\ FIDT[q][g] \in FCBs
      BY <1>2, <1>4, <1>5, <2>2 DEF TableInv, TypeOK
    <3> QED BY <1>1, <1>2, <1>4, <1>5, <2>2, <3>1 DEF TableInv, TypeOK, Kept
  <2> QED BY <2>1, <2>2
<1>6. Kept'
  BY <1>1, <1>2, <1>5 DEF Kept, Shares
<1>7. ASSUME ~Inherits PROVE ~Shares
  BY <1>7 DEF Inherits, Shares
<1>8. ASSUME ~Inherits, NEW q \in Procs, NEW g \in Fids, FIDT'[q][g] # NULL
      PROVE  /\ refcount'[FIDT'[q][g]] = 1
             /\ \A r \in Procs, h \in Fids : FIDT'[r][h] = FIDT'[q][g] => r = q /\ h = g
  <2>1. CASE q = p /\ g = f
    BY <1>1, <1>2, <1>4, <1>7, <1>8, <2>1 DEF TableInv, TypeOK
  <2>2. CASE q # p \/ g # f
    <3>1. FIDT[q][g] # b /\ FIDT[q][g] \in FCBs
      BY <1>2, <1>4, <1>7, <1>8, <2>2 DEF TableInv, TypeOK
    <3> QED BY <1>1, <1>2, <1>4, <1>7, <1>8, <2>2, <3>1 DEF TableInv, TypeOK, Own
  <2> QED BY <2>1, <2>2
<1>9. Own'
  BY <1>1, <1>8 DEF Own, Inherits
<1>10. NoneLost'
  BY <1>1, <1>2, <1>4, <1>7 DEF TableInv, NoneLost, Inherits, FCBs, NULL
<1> QED BY <1>3, <1>6, <1>9, <1>10 DEF TableInv

LEMMA OpenFailsKeeps ==
    ASSUME TableInv, UNCHANGED Calls, NEW p \in Procs, NEW f \in Fids, NEW s \in Streams,
           OpenFails(p, f, s)
    PROVE  TableInv'
<1> DEFINE b == Head(freelist)
           t == Append(Tail(freelist), b)
<1>1. /\ refcount' = [refcount EXCEPT ![b] = 1]
      /\ freelist' = t /\ freelist # <<>>
      /\ UNCHANGED <<alive, FIDT, opened, stream, Calls>>
  BY DEF OpenFails
<1>2. /\ b \in FCBs /\ b # NULL
      /\ Tail(freelist) \in Seq(FCBs)
      /\ ~Shares => /\ Has(freelist, b) /\ Once(Tail(freelist))
                    /\ \A u : Has(Tail(freelist), u) <=> Has(freelist, u) /\ u # b
                    /\ \A q \in Procs, g \in Fids : FIDT[q][g] # b
  BY <1>1, TakeHead
<1> HIDE DEF b
<1>3. t \in Seq(FCBs)
  BY <1>2
<1>4. ASSUME ~Shares PROVE Once(t) /\ \A u : Has(t, u) <=> Has(freelist, u)
  <2>1. ~Has(Tail(freelist), b)
    BY <1>2, <1>4
  <2>2. Once(t) /\ \A u : Has(t, u) <=> Has(Tail(freelist), u) \/ u = b
    BY <1>2, <1>4, <2>1, AppendOnce
  <2> QED BY <1>2, <1>4, <2>2
<1> HIDE DEF t
<1>5. TypeOK'
  BY <1>1, <1>2, <1>3 DEF TableInv, TypeOK
<1>6. Kept'
  BY <1>1, <1>4 DEF TableInv, Kept, Shares
<1>7. ASSUME ~Inherits PROVE ~Shares
  BY <1>7 DEF Inherits, Shares
<1>8. Own' /\ NoneLost'
  BY <1>1, <1>2, <1>4, <1>7 DEF TableInv, TypeOK, Own, NoneLost, Inherits
<1> QED BY <1>5, <1>6, <1>8 DEF TableInv

LEMMA CloseKeeps ==
    ASSUME TableInv, UNCHANGED Calls, NEW p \in Procs, NEW f \in Fids, Close(p, f)
    PROVE  TableInv'
<1> DEFINE b == FIDT[p][f]
<1>1. /\ FIDT' = [FIDT EXCEPT ![p][f] = NULL]
      /\ opened' = [opened EXCEPT ![p][f] = NoStream]
      /\ refcount' = [refcount EXCEPT ![b] = @ - 1]
      /\ freelist' = IF refcount[b] = 1 THEN release_FCB(b) ELSE freelist
      /\ UNCHANGED <<alive, stream, Calls>>
      /\ b # NULL /\ "Close" \in Calls
  BY DEF Close
<1>2. b \in FCBs /\ freelist \in Seq(FCBs)
  BY <1>1 DEF TableInv, TypeOK
<1>3. release_FCB(b) \in Seq(FCBs)
  <2>1. CASE Listed(b)
    <3> DEFINE i == CHOOSE j \in DOMAIN freelist : freelist[j] = b
    <3>1. i \in 1..Len(freelist)
      BY <1>2, <2>1 DEF Listed
    <3> HIDE DEF i
    <3>2. SubSeq(freelist, 1, i) \in Seq(FCBs)
      BY <1>2, <3>1
    <3> QED BY <2>1, <3>2 DEF release_FCB, i
  <2>2. CASE ~Listed(b)
    BY <1>2, <2>2 DEF release_FCB
  <2> QED BY <2>1, <2>2
<1>4. ASSUME ~Shares
      PROVE  /\ ~Inherits
             /\ freelist' = Append(freelist, b)
             /\ Once(Append(freelist, b))
             /\ \A u : Has(Append(freelist, b), u) <=> Has(freelist, u) \/ u = b
  <2>1. ~Inherits
    BY <1>1, <1>4 DEF Inherits, Shares
  <2>2. refcount[b] = 1 /\ Once(freelist) /\ ~Has(freelist, b)
    BY <1>1, <1>4, <2>1 DEF TableInv, Own, Kept
  <2>3. freelist' = Append(freelist, b)
    BY <1>1, <2>2 DEF release_FCB, Listed, Has
  <2> QED BY <1>2, <2>1, <2>2, <2>3, AppendOnce
<1>5. TypeOK'
  BY <1>1, <1>2, <1>3 DEF TableInv, TypeOK
<1>6. /\ FIDT'[p][f] = NULL
      /\ \A q \in Procs, g \in Fids : q # p \/ g # f =>
             FIDT'[q][g] = FIDT[q][g] /\ opened'[q][g] = opened[q][g]
  BY <1>1 DEF TableInv, TypeOK
<1>7. ASSUME ~Shares, NEW q \in Procs, NEW g \in Fids, FIDT'[q][g] # NULL
      PROVE  /\ FIDT'[q][g] = FIDT[q][g] /\ opened'[q][g] = opened[q][g]
             /\ FIDT[q][g] # b /\ FIDT[q][g] \in FCBs
  BY <1>4, <1>6, <1>7 DEF TableInv, TypeOK, Own
<1> HIDE DEF b
<1>8. Kept'
  <2> SUFFICES ASSUME ~Shares
               PROVE  /\ Once(freelist')
                      /\ \A q \in Procs, g \in Fids : FIDT'[q][g] # NULL =>
                            ~Has(freelist', FIDT'[q][g]) /\ stream'[FIDT'[q][g]] = opened'[q][g]
    BY <1>1 DEF Kept, Shares
  <2>1. Once(freelist')
    BY <1>4
  <2>2. ASSUME NEW q \in Procs, NEW g \in Fids, FIDT'[q][g] # NULL
        PROVE  ~Has(freelist', FIDT'[q][g]) /\ stream'[FIDT'[q][g]] = opened'[q][g]
    <3>1. ~Has(freelist, FIDT[q][g]) /\ stream[FIDT[q][g]] = opened[q][g]
      BY <1>7, <2>2 DEF TableInv, Kept
    <3>2. /\ FIDT'[q][g] = FIDT[q][g] /\ opened'[q][g] = opened[q][g] /\ FIDT[q][g] # b
          /\ stream' = stream
      BY <1>1, <1>7, <2>2
    <3>3. ~Has(Append(freelist, b), FIDT[q][g])
      BY <1>4, <3>1, <3>2
    <3> QED BY <1>4, <3>1, <3>2, <3>3
  <2> QED BY <2>1, <2>2
<1>9. ASSUME ~Inherits PROVE ~Shares
  BY <1>9 DEF Inherits, Shares
<1>10. Own'
  BY <1>1, <1>2, <1>7, <1>9 DEF TableInv, TypeOK, Own, Inherits
<1>11. NoneLost'
  <2> SUFFICES ASSUME ~Inherits, NEW c \in FCBs, c # b, ~Has(freelist, c)
               PROVE  \E q \in Procs, g \in Fids : FIDT'[q][g] = c
    BY <1>1, <1>4, <1>9 DEF NoneLost, Inherits
  <2>1. PICK q \in Procs, g \in Fids : FIDT[q][g] = c
    BY DEF TableInv, NoneLost
  <2>2. q # p \/ g # f
    BY <2>1 DEF b
  <2> QED BY <1>6, <2>1, <2>2
<1> QED BY <1>5, <1>8, <1>10, <1>11 DEF TableInv

LEMMA ExecKeeps ==
    ASSUME TableInv, UNCHANGED Calls, NEW p \in Procs, NEW q \in Procs, Exec(p, q)
    PROVE  TableInv'
<1>1. /\ FIDT' = [FIDT EXCEPT ![q] = FIDT[p]]
      /\ opened' = [opened EXCEPT ![q] = opened[p]]
      /\ alive' = alive \cup {q}
      /\ UNCHANGED <<refcount, stream, freelist, Calls>>
      /\ Inherits
  BY DEF Exec, Inherits
<1>2. TypeOK'
  BY <1>1 DEF TableInv, TypeOK
<1>3. ASSUME NEW r \in Procs, NEW f \in Fids
      PROVE  \E s \in Procs : FIDT'[r][f] = FIDT[s][f] /\ opened'[r][f] = opened[s][f]
  BY <1>1 DEF TableInv, TypeOK
<1>4. Kept'
  BY <1>1, <1>3 DEF TableInv, Kept, Shares
<1> QED BY <1>1, <1>2, <1>4 DEF TableInv, Own, NoneLost, Inherits

LEMMA TableStep ==
    ASSUME TableInv, Next PROVE TableInv'
<1>1. PICK p \in Procs :
            \/ \E f \in Fids, s \in Streams : OpenWorks(p, f, s) \/ OpenFails(p, f, s)
            \/ \E f \in Fids : Close(p, f)
            \/ \E q \in Procs : Exec(p, q)
            \/ Exit(p)
  BY DEF Next
<1>2. UNCHANGED Calls
  BY DEF Next
<1>3. CASE Exit(p)
  BY <1>2, <1>3 DEF Exit, TableInv, TypeOK, Kept, Own, NoneLost, Shares, Inherits
<1> QED BY <1>1, <1>2, <1>3, OpenWorksKeeps, OpenFailsKeeps, CloseKeeps, ExecKeeps

LEMMA TableInvSound == TableInv => FileTableSound /\ Exclusive /\ DescriptorKeepsStream
<1> SUFFICES ASSUME TableInv PROVE FileTableSound /\ Exclusive /\ DescriptorKeepsStream
  OBVIOUS
<1>1. \A b : Listed(b) <=> Has(freelist, b)
  BY DEF Listed, Has
<1>2. ASSUME ~Inherits PROVE ~Shares
  BY <1>2 DEF Inherits, Shares
<1>3. Exclusive
  BY <1>1, <1>2 DEF TableInv, Exclusive, Kept, Own, Inherits, Once
<1>4. DescriptorKeepsStream
  BY DEF TableInv, TypeOK, DescriptorKeepsStream, Kept, Shares
<1>5. ASSUME ~Inherits, NEW b \in FCBs
      PROVE  /\ Listed(b) <=> Descriptors(b) = {}
             /\ ~Listed(b) => refcount[b] = Cardinality(Descriptors(b))
  <2>1. b # NULL
    BY DEF FCBs, NULL
  <2>2. ASSUME Listed(b) PROVE Descriptors(b) = {}
    BY <1>1, <1>2, <1>5, <2>1, <2>2 DEF TableInv, Kept, Descriptors
  <2>3. ASSUME ~Listed(b) PROVE Descriptors(b) # {} /\ refcount[b] = Cardinality(Descriptors(b))
    <3>1. PICK p \in Procs, f \in Fids : FIDT[p][f] = b
      BY <1>1, <1>5, <2>3 DEF TableInv, NoneLost
    <3>2. /\ refcount[b] = 1
          /\ \A q \in Procs, g \in Fids : FIDT[q][g] = b => q = p /\ g = f
      BY <1>5, <2>1, <3>1 DEF TableInv, Own
    <3>3. Descriptors(b) = {<<p, f>>}
      BY <3>1, <3>2 DEF Descriptors
    <3>4. Cardinality({<<p, f>>}) = 1
      BY FS_Singleton
    <3> QED BY <3>2, <3>3, <3>4
  <2> QED BY <2>2, <2>3
<1>6. FileTableSound
  BY <1>5 DEF FileTableSound, Inherits
<1> QED BY <1>3, <1>4, <1>6

(***************************************************************************)
(* FCB_reserve, its roll back, FCB_unreserve and FCB_decref lose no FCB    *)
(* and share none, and a descriptor keeps the stream it was opened on      *)
(* unless programs close what they have inherited: for every number of     *)
(* processes, descriptors, FCBs and terminals, and every mix of calls.     *)
(***************************************************************************)
THEOREM TableSafe == MCSpec => []TableSound
<1> DEFINE I == part = "streams" => TableInv
<1>1. MCInit => I
  BY TableInit DEF MCInit
<1>2. I /\ [MCNext]_allvars => I'
  <2> SUFFICES ASSUME I, [MCNext]_allvars, part' = "streams" PROVE TableInv'
    OBVIOUS
  <2>1. CASE part = "streams" /\ Next
    BY <2>1, TableStep
  <2>2. CASE UNCHANGED allvars
    BY <2>2 DEF allvars, vars, TableInv, TypeOK, Kept, Own, NoneLost, Shares, Inherits
  <2> QED BY <2>1, <2>2 DEF MCNext
<1>3. I => TableSound
  BY TableInvSound DEF TableSound
<1> QED BY <1>1, <1>2, <1>3, PTL DEF MCSpec

-----------------------------------------------------------------------------
(* The ring buffer of a pipe                                               *)

Ring == PIPE_BUFFER_SIZE + 1    \* its number of nodes

PipeType == [ cell : [P!Cells -> Bytes], r_pos : P!Cells, w_pos : P!Cells,
              bufferBytes : 0 .. PIPE_BUFFER_SIZE,
              hasData : SUBSET Threads, hasSpace : SUBSET Threads,
              reader : BOOLEAN, writer : BOOLEAN, freed : BOOLEAN ]

\* RingSound of a pipe.
RingOf(p) ==
    /\ p.w_pos = P!next(p.r_pos, p.bufferBytes)
    /\ \A c \in P!Cells : P!Offset(p.r_pos, c) >= p.bufferBytes => p.cell[c] = 0

\* Nodes are numbered round the ring: how next and Offset wrap.
LEMMA RingExact ==
    ASSUME NEW a \in P!Cells
    PROVE  /\ \A k \in 0..Ring : P!next(a, k) = IF a + k < Ring THEN a + k ELSE a + k - Ring
           /\ \A k \in Nat : P!next(a, k) \in P!Cells
           /\ \A c \in P!Cells : P!Offset(a, c) = IF c >= a THEN c - a ELSE c - a + Ring
<1>1. Ring \in Nat \ {0} /\ a \in 0..Ring-1 /\ P!Cells = 0..Ring-1
  BY PipeAssumption DEF Ring, P!Cells
<1>2. /\ \A k : P!next(a, k) = (a + k) % Ring
      /\ \A c : P!Offset(a, c) = (c - a) % Ring
  BY DEF P!next, P!Offset, Ring
<1> HIDE DEF Ring
<1>3. ASSUME NEW k \in 0..Ring
      PROVE  (a + k) % Ring = IF a + k < Ring THEN a + k ELSE a + k - Ring
  BY <1>1
<1>4. ASSUME NEW c \in 0..Ring-1
      PROVE  (c - a) % Ring = IF c >= a THEN c - a ELSE c - a + Ring
  BY <1>1
<1>5. ASSUME NEW k \in Nat PROVE (a + k) % Ring \in 0..Ring-1
  BY <1>1
<1> QED BY <1>1, <1>2, <1>3, <1>4, <1>5

LEMMA MinPair == ASSUME NEW a \in Int, NEW b \in Int PROVE P!Min({a, b}) = IF a <= b THEN a ELSE b
BY DEF P!Min

\* pipe_write finds every node it wants to fill empty.
LEMMA StoredExact ==
    ASSUME NEW p \in PipeType, RingOf(p), NEW buf \in P!Buffers
    PROVE  /\ P!Stored(p, buf) = P!Count(p, buf)
           /\ Len(buf) \in Nat /\ buf \in [1..Len(buf) -> Bytes]
           /\ P!Count(p, buf) = IF Len(buf) <= PIPE_BUFFER_SIZE - p.bufferBytes
                                THEN Len(buf) ELSE PIPE_BUFFER_SIZE - p.bufferBytes
           /\ P!Count(p, buf) \in 0..PIPE_BUFFER_SIZE - p.bufferBytes
           /\ P!Count(p, buf) <= Len(buf)
<1> DEFINE n == P!Count(p, buf)
           S == {k \in 0..n : \A i \in 0..k-1 : p.cell[P!next(p.w_pos, i)] = P!NUL}
<1>1. Len(buf) \in Nat /\ buf \in [1..Len(buf) -> Bytes]
  <2>1. PICK m \in 0..MaxLen : buf \in [1..m -> Bytes]
    BY DEF P!Buffers
  <2> QED BY <2>1, PipeAssumption
<1>2. p.bufferBytes \in 0..PIPE_BUFFER_SIZE /\ PIPE_BUFFER_SIZE \in Nat
      /\ p.r_pos \in P!Cells /\ p.w_pos \in P!Cells
  BY PipeAssumption DEF PipeType
<1>3. n = IF Len(buf) <= PIPE_BUFFER_SIZE - p.bufferBytes
          THEN Len(buf) ELSE PIPE_BUFFER_SIZE - p.bufferBytes
  BY <1>1, <1>2, MinPair DEF P!Count
<1> HIDE DEF n
<1>4. n \in 0..PIPE_BUFFER_SIZE - p.bufferBytes /\ n <= Len(buf)
  BY <1>1, <1>2, <1>3
<1>5. ASSUME NEW i \in 0..n-1 PROVE p.cell[P!next(p.w_pos, i)] = P!NUL
  <2>1. P!next(p.w_pos, i) \in P!Cells /\ P!Offset(p.r_pos, P!next(p.w_pos, i)) = p.bufferBytes + i
    <3> DEFINE w == p.w_pos  r == p.r_pos  b == p.bufferBytes
    <3>1. /\ r \in 0..Ring-1 /\ w \in 0..Ring-1 /\ b \in 0..Ring-1 /\ Ring \in Nat
          /\ b \in 0..Ring /\ i \in 0..Ring /\ b + i < Ring /\ P!Cells = 0..Ring-1
      BY <1>2, <1>4, PipeAssumption DEF Ring, P!Cells
    <3>2. w = IF r + b < Ring THEN r + b ELSE r + b - Ring
      BY <1>2, <3>1, RingExact DEF RingOf
    <3>3. P!next(w, i) = IF w + i < Ring THEN w + i ELSE w + i - Ring
      BY <1>2, <3>1, RingExact
    <3>4. P!next(w, i) \in P!Cells
      BY <3>1, <3>3
    <3>5. P!Offset(r, P!next(w, i)) =
             IF P!next(w, i) >= r THEN P!next(w, i) - r ELSE P!next(w, i) - r + Ring
      BY <1>2, <3>4, RingExact
    <3> HIDE DEF w, r, b
    <3>6. P!Offset(r, P!next(w, i)) = b + i
      BY <3>1, <3>2, <3>3, <3>5
    <3> QED BY <3>4, <3>6 DEF w, r, b
  <2>2. P!Offset(p.r_pos, P!next(p.w_pos, i)) >= p.bufferBytes
    BY <1>2, <2>1
  <2> QED BY <2>1, <2>2 DEF RingOf, P!NUL
<1>6. n \in S /\ \A k \in S : k <= n
  BY <1>2, <1>4, <1>5
<1> HIDE DEF S
<1>7. P!Max(S) = n
  <2>1. \A k \in S : k \in Int
    BY <1>2, <1>4 DEF S
  <2>2. \A k \in S : (\A l \in S : k >= l) => k = n
    BY <1>6, <2>1
  <2>3. \A k \in S : n >= k
    BY <1>6, <2>1
  <2> QED BY <1>6, <2>2, <2>3 DEF P!Max
<1>8. P!Stored(p, buf) = n
  BY <1>7 DEF P!Stored, S, n
<1> QED BY <1>1, <1>3, <1>4, <1>8 DEF n

\* Where a node lies from the writer, and from the reader once it has moved on.
LEMMA NextShift ==
    ASSUME NEW r \in P!Cells, NEW b \in 0..PIPE_BUFFER_SIZE
    PROVE  /\ P!next(r, b) \in P!Cells
           /\ P!Offset(r, P!next(r, b)) = b
           /\ \A k \in 0..Ring-b : P!next(P!next(r, b), k) = P!next(r, b + k)
<1> DEFINE s == P!next(r, b)
<1>1. /\ Ring \in Nat /\ P!Cells = 0..Ring-1 /\ b \in 0..Ring-1 /\ b \in 0..Ring
  BY PipeAssumption DEF Ring, P!Cells
<1>2. s = (IF r + b < Ring THEN r + b ELSE r + b - Ring) /\ s \in P!Cells
  <2>1. s = IF r + b < Ring THEN r + b ELSE r + b - Ring
    BY <1>1, RingExact
  <2> HIDE DEF s
  <2> QED BY <1>1, <2>1
<1> HIDE DEF s
<1>3. P!Offset(r, s) = IF s >= r THEN s - r ELSE s - r + Ring
  BY <1>2, RingExact
<1>4. P!Offset(r, s) = b
  BY <1>1, <1>2, <1>3
<1>5. ASSUME NEW k \in 0..Ring-b PROVE P!next(s, k) = P!next(r, b + k)
  <2>1. k \in 0..Ring /\ b + k \in 0..Ring
    BY <1>1
  <2>2. P!next(s, k) = IF s + k < Ring THEN s + k ELSE s + k - Ring
    BY <1>2, <2>1, RingExact
  <2>3. P!next(r, b + k) = IF r + (b + k) < Ring THEN r + (b + k) ELSE r + (b + k) - Ring
    BY <2>1, RingExact
  <2> QED BY <1>1, <1>2, <2>1, <2>2, <2>3
<1> QED BY <1>2, <1>4, <1>5 DEF s

LEMMA OffsetShift ==
    ASSUME NEW r \in P!Cells, NEW c \in P!Cells, NEW b \in 0..PIPE_BUFFER_SIZE
    PROVE  /\ P!Offset(r, c) \in 0..PIPE_BUFFER_SIZE
           /\ P!next(r, P!Offset(r, c)) = c
           /\ P!Offset(P!next(r, b), c) = IF P!Offset(r, c) >= b THEN P!Offset(r, c) - b
                                          ELSE P!Offset(r, c) - b + Ring
<1> DEFINE s == P!next(r, b)  o == P!Offset(r, c)
<1>1. /\ Ring \in Nat /\ P!Cells = 0..Ring-1 /\ b \in 0..Ring-1 /\ b \in 0..Ring
      /\ Ring - 1 = PIPE_BUFFER_SIZE
  BY PipeAssumption DEF Ring, P!Cells
<1>2. /\ s = (IF r + b < Ring THEN r + b ELSE r + b - Ring) /\ s \in P!Cells
      /\ o = IF c >= r THEN c - r ELSE c - r + Ring
  BY <1>1, RingExact, NextShift
<1> HIDE DEF s, o
<1>3. o \in 0..PIPE_BUFFER_SIZE /\ o \in 0..Ring
  BY <1>1, <1>2
<1>4. P!next(r, o) = IF r + o < Ring THEN r + o ELSE r + o - Ring
  BY <1>3, RingExact
<1>5. P!Offset(s, c) = IF c >= s THEN c - s ELSE c - s + Ring
  BY <1>2, RingExact
<1>6. P!next(r, o) = c
  BY <1>1, <1>2, <1>3, <1>4
<1>7. P!Offset(s, c) = IF o >= b THEN o - b ELSE o - b + Ring
  BY <1>1, <1>2, <1>5
<1> QED BY <1>3, <1>6, <1>7 DEF s, o

\* pipe_write after its loop, with the read end open.
LEMMA WriteExact ==
    ASSUME NEW p \in PipeType, RingOf(p), NEW buf \in P!Buffers, p.reader
    PROVE  LET n == P!Count(p, buf)
               q == P!WriteBytes(p, buf)
           IN
           /\ q \in PipeType /\ RingOf(q)
           /\ n \in 0..PIPE_BUFFER_SIZE - p.bufferBytes /\ q.bufferBytes = p.bufferBytes + n
           /\ q.hasData = {} /\ q.hasSpace = p.hasSpace
           /\ q.reader = p.reader /\ q.writer = p.writer /\ q.freed = p.freed
           /\ q.r_pos = p.r_pos
           /\ \A c \in P!Cells : q.cell[c] = IF P!Offset(p.w_pos, c) < n
                                             THEN buf[P!Offset(p.w_pos, c) + 1] ELSE p.cell[c]
<1> DEFINE n == P!Count(p, buf)
           q == P!WriteBytes(p, buf)
<1>0. /\ p.bufferBytes \in 0..PIPE_BUFFER_SIZE /\ PIPE_BUFFER_SIZE \in Nat
      /\ p.r_pos \in P!Cells /\ p.w_pos \in P!Cells
  BY PipeAssumption DEF PipeType
<1>1. /\ P!Stored(p, buf) = n /\ n \in 0..PIPE_BUFFER_SIZE - p.bufferBytes /\ n <= Len(buf)
      /\ Len(buf) \in Nat /\ buf \in [1..Len(buf) -> Bytes]
  BY StoredExact
<1> HIDE DEF n
<1> DEFINE f == [c \in P!Cells |-> IF P!Offset(p.w_pos, c) < n
                                   THEN buf[P!Offset(p.w_pos, c) + 1] ELSE p.cell[c]]
<1>2. q = [p EXCEPT !.cell = f, !.w_pos = P!next(p.w_pos, n), !.bufferBytes = p.bufferBytes + n,
                    !.hasData = {}]
  BY <1>1 DEF P!WriteBytes, n
<1> HIDE DEF q
<1>3. f \in [P!Cells -> Bytes]
  <2> SUFFICES ASSUME NEW c \in P!Cells, P!Offset(p.w_pos, c) < n
               PROVE  buf[P!Offset(p.w_pos, c) + 1] \in Bytes
    BY DEF PipeType
  <2>1. P!Offset(p.w_pos, c) \in 0..PIPE_BUFFER_SIZE
    BY <1>0, OffsetShift
  <2> QED BY <1>0, <1>1, <2>1
<1>4. P!next(p.w_pos, n) \in P!Cells /\ p.bufferBytes + n \in 0..PIPE_BUFFER_SIZE
  <2>1. n \in 0..PIPE_BUFFER_SIZE /\ p.bufferBytes + n \in 0..PIPE_BUFFER_SIZE
    BY <1>0, <1>1
  <2> QED BY <1>0, <2>1, NextShift
<1> HIDE DEF f
<1>5. q \in PipeType
  BY <1>2, <1>3, <1>4 DEF PipeType
<1>6. /\ q.cell = f /\ q.w_pos = P!next(p.w_pos, n) /\ q.bufferBytes = p.bufferBytes + n
      /\ q.hasData = {} /\ q.hasSpace = p.hasSpace
      /\ q.reader = p.reader /\ q.writer = p.writer /\ q.freed = p.freed
      /\ q.r_pos = p.r_pos
  BY <1>2 DEF PipeType
<1>7. q.w_pos = P!next(q.r_pos, q.bufferBytes)
  <2>1. n \in 0..Ring - p.bufferBytes
    BY <1>0, <1>1 DEF Ring
  <2>2. P!next(P!next(p.r_pos, p.bufferBytes), n) = P!next(p.r_pos, p.bufferBytes + n)
    BY <1>0, <2>1, NextShift
  <2> QED BY <1>6, <2>2 DEF RingOf
<1>8. ASSUME NEW c \in P!Cells, P!Offset(q.r_pos, c) >= q.bufferBytes PROVE q.cell[c] = 0
  <2>1. P!Offset(p.r_pos, c) >= p.bufferBytes + n /\ P!Offset(p.r_pos, c) \in 0..PIPE_BUFFER_SIZE
    BY <1>0, <1>6, <1>8, OffsetShift
  <2>2. P!Offset(p.r_pos, c) >= p.bufferBytes
    BY <1>0, <1>1, <2>1
  <2>3. P!Offset(p.w_pos, c) = P!Offset(p.r_pos, c) - p.bufferBytes
    <3>1. p.w_pos = P!next(p.r_pos, p.bufferBytes)
      BY DEF RingOf
    <3> QED BY <1>0, <2>2, <3>1, OffsetShift
  <2>4. ~(P!Offset(p.w_pos, c) < n) /\ p.cell[c] = 0
    BY <1>0, <1>1, <2>1, <2>2, <2>3 DEF RingOf
  <2> QED BY <1>6, <2>4 DEF f
<1> QED BY <1>1, <1>5, <1>6, <1>7, <1>8 DEF RingOf, f, n, q

\* pipe_read after its loop, unless it reports the end of the file.
LEMMA ReadExact ==
    ASSUME NEW p \in PipeType, RingOf(p), NEW m \in Nat, ~(p.bufferBytes = 0 /\ ~p.writer)
    PROVE  LET n == P!Min({m, p.bufferBytes})
               q == P!ReadBytes(p, m)
           IN
           /\ q \in PipeType /\ RingOf(q)
           /\ n \in 0..p.bufferBytes /\ q.bufferBytes = p.bufferBytes - n
           /\ m > 0 /\ p.bufferBytes > 0 => n > 0
           /\ q.hasSpace = {} /\ q.hasData = p.hasData
           /\ q.reader = p.reader /\ q.writer = p.writer /\ q.freed = p.freed
           /\ q.r_pos = P!next(p.r_pos, n)
           /\ \A c \in P!Cells : q.cell[c] = IF P!Offset(p.r_pos, c) < n THEN 0 ELSE p.cell[c]
<1> DEFINE n == P!Min({m, p.bufferBytes})
           q == P!ReadBytes(p, m)
<1>0. /\ p.bufferBytes \in 0..PIPE_BUFFER_SIZE /\ PIPE_BUFFER_SIZE \in Nat
      /\ p.r_pos \in P!Cells /\ p.w_pos \in P!Cells
  BY PipeAssumption DEF PipeType
<1>1. n = IF m <= p.bufferBytes THEN m ELSE p.bufferBytes
  BY <1>0, MinPair
<1> HIDE DEF n
<1>2. n \in 0..p.bufferBytes /\ n \in 0..PIPE_BUFFER_SIZE /\ (m > 0 /\ p.bufferBytes > 0 => n > 0)
  BY <1>0, <1>1
<1> DEFINE f == [c \in P!Cells |-> IF P!Offset(p.r_pos, c) < n THEN 0 ELSE p.cell[c]]
<1>3. q = [p EXCEPT !.cell = f, !.r_pos = P!next(p.r_pos, n), !.bufferBytes = p.bufferBytes - n,
                    !.hasSpace = {}]
  BY DEF P!ReadBytes, P!NUL, n
<1> HIDE DEF q
<1>4. f \in [P!Cells -> Bytes] /\ P!next(p.r_pos, n) \in P!Cells
      /\ p.bufferBytes - n \in 0..PIPE_BUFFER_SIZE
  <2>1. f \in [P!Cells -> Bytes]
    BY PipeAssumption DEF PipeType
  <2>2. P!next(p.r_pos, n) \in P!Cells
    BY <1>0, <1>2, NextShift
  <2>3. p.bufferBytes - n \in 0..PIPE_BUFFER_SIZE
    BY <1>0, <1>2
  <2> QED BY <2>1, <2>2, <2>3
<1> HIDE DEF f
<1>5. q \in PipeType
  BY <1>3, <1>4 DEF PipeType
<1>6. /\ q.cell = f /\ q.r_pos = P!next(p.r_pos, n) /\ q.bufferBytes = p.bufferBytes - n
      /\ q.hasSpace = {} /\ q.hasData = p.hasData
      /\ q.reader = p.reader /\ q.writer = p.writer /\ q.freed = p.freed
      /\ q.w_pos = p.w_pos
  BY <1>3 DEF PipeType
<1>7. q.w_pos = P!next(q.r_pos, q.bufferBytes)
  <2>1. p.bufferBytes - n \in 0..Ring - n /\ n + (p.bufferBytes - n) = p.bufferBytes
    BY <1>0, <1>2 DEF Ring
  <2>2. P!next(P!next(p.r_pos, n), p.bufferBytes - n) = P!next(p.r_pos, n + (p.bufferBytes - n))
    BY <1>0, <1>2, <2>1, NextShift
  <2> QED BY <1>6, <2>1, <2>2 DEF RingOf
<1>8. ASSUME NEW c \in P!Cells, P!Offset(q.r_pos, c) >= q.bufferBytes PROVE q.cell[c] = 0
  <2>1. /\ P!Offset(p.r_pos, c) \in 0..PIPE_BUFFER_SIZE
        /\ P!Offset(q.r_pos, c) = IF P!Offset(p.r_pos, c) >= n THEN P!Offset(p.r_pos, c) - n
                                  ELSE P!Offset(p.r_pos, c) - n + Ring
    <3>1. n \in 0..PIPE_BUFFER_SIZE /\ q.r_pos = P!next(p.r_pos, n) /\ p.r_pos \in P!Cells
      BY <1>0, <1>2, <1>6
    <3> QED BY <3>1, OffsetShift
  <2>2. P!Offset(p.r_pos, c) < n \/ P!Offset(p.r_pos, c) >= p.bufferBytes
    BY <1>0, <1>2, <1>6, <1>8, <2>1
  <2> QED BY <1>6, <2>2 DEF f, RingOf
<1> QED BY <1>2, <1>5, <1>6, <1>7, <1>8 DEF RingOf, f, n, q

-----------------------------------------------------------------------------
(* The inductive invariant of the pipe                                     *)

CallType == {P!Idle} \union [end : {"read"}, arg : 0 .. MaxLen]
                     \union [end : {"write"}, arg : P!Buffers]
ArgType(e) == IF e = "read" THEN 0 .. MaxLen ELSE P!Buffers

Callers(c, e) == {t \in Threads : c[t].end = e}

\* NoLostWakeup of a pipe.
WakeupOf(p) == /\ p.hasData # {} => P!MustWaitForData(p)
               /\ p.hasSpace # {} => P!MustWaitForSpace(p)

\* The count of an end covers its descriptors and the calls on it.
RefsExact == \A e \in P!Ends : refs[e] = fids[e] + Cardinality(Callers(call, e))

\* An end is open while it is counted, and a pipe that is freed has neither.
EndsExact(p, r) == /\ p.reader <=> r["read"] > 0
                   /\ p.writer <=> r["write"] > 0
                   /\ p.freed => ~p.reader /\ ~p.writer

\* Who sleeps is in a call on that end.
SleepersOf(p, c) == p.hasData \subseteq Callers(c, "read") /\ p.hasSpace \subseteq Callers(c, "write")

(***************************************************************************)
(* That no wakeup is lost rests on the ring: pipe_write skips its          *)
(* broadcast if it meets a full node, which RingSound excludes; and on the *)
(* counts: the last writer does not wake readers once the read end is      *)
(* closed, when none can be asleep.                                        *)
(***************************************************************************)
PipeInv ==
    /\ pipe \in PipeType
    /\ refs \in [P!Ends -> Nat]
    /\ fids \in [P!Ends -> 0 .. MaxFids]
    /\ call \in [Threads -> CallType]
    /\ RingOf(pipe)
    /\ WakeupOf(pipe)
    /\ RefsExact
    /\ EndsExact(pipe, refs)
    /\ SleepersOf(pipe, call)

LEMMA CallersCount ==
    ASSUME NEW c, NEW e
    PROVE  /\ IsFiniteSet(Callers(c, e)) /\ Cardinality(Callers(c, e)) \in Nat
           /\ Cardinality(Callers(c, e)) <= Cardinality(Threads)
           /\ Cardinality(Callers(c, e)) = 0 => Callers(c, e) = {}
<1>1. Callers(c, e) \subseteq Threads /\ IsFiniteSet(Threads)
  BY PipeAssumption DEF Callers
<1>2. IsFiniteSet(Callers(c, e)) /\ Cardinality(Callers(c, e)) <= Cardinality(Threads)
  BY <1>1, FS_Subset
<1> QED BY <1>2, FS_CardinalityType, FS_EmptySet

LEMMA PipeInit == P!Init => PipeInv
<1> SUFFICES ASSUME P!Init PROVE PipeInv
  OBVIOUS
<1>1. /\ PIPE_BUFFER_SIZE \in Nat /\ 0 \in P!Cells
      /\ 0 \in 0..PIPE_BUFFER_SIZE /\ 1 \in 0..MaxFids
  BY PipeAssumption DEF P!Cells
<1>2. /\ pipe.cell = [c \in P!Cells |-> 0] /\ pipe.r_pos = 0 /\ pipe.w_pos = 0
      /\ pipe.bufferBytes = 0 /\ pipe.hasData = {} /\ pipe.hasSpace = {}
      /\ pipe.reader = TRUE /\ pipe.writer = TRUE /\ pipe.freed = FALSE
  BY DEF P!Init, P!pipe_init, P!NUL
<1>3. pipe \in PipeType
  BY <1>1, PipeAssumption DEF P!Init, P!pipe_init, P!NUL, PipeType
<1>4. RingOf(pipe)
  <2>1. 0 \in 0..PIPE_BUFFER_SIZE /\ P!next(0, 0) = 0
    BY <1>1, RingExact, PipeAssumption DEF Ring
  <2> QED BY <1>2, <2>1 DEF RingOf
<1>5. refs = [e \in P!Ends |-> 1] /\ fids = [e \in P!Ends |-> 1] /\ call = [t \in Threads |-> P!Idle]
  BY DEF P!Init
<1>6. ASSUME NEW e \in P!Ends PROVE Callers(call, e) = {}
  BY <1>5 DEF Callers, P!Idle, P!Ends
<1>7. RefsExact
  BY <1>5, <1>6, FS_EmptySet DEF RefsExact
<1>8. WakeupOf(pipe) /\ EndsExact(pipe, refs) /\ SleepersOf(pipe, call)
  BY <1>2, <1>5 DEF WakeupOf, EndsExact, SleepersOf, P!Ends
<1> QED BY <1>1, <1>3, <1>4, <1>5, <1>7, <1>8 DEF PipeInv, CallType

\* The transfer of pipe_read and pipe_write, once neither waits.
LEMMA TransferKeeps ==
    ASSUME NEW p \in PipeType, RingOf(p), WakeupOf(p), NEW e \in P!Ends, NEW arg \in ArgType(e),
           ~P!MustWait(e, p), NEW q, q = P!Transfer(e, arg, p)
    PROVE  /\ q \in PipeType /\ RingOf(q) /\ WakeupOf(q)
           /\ q.hasData \subseteq p.hasData /\ q.hasSpace \subseteq p.hasSpace
           /\ q.reader = p.reader /\ q.writer = p.writer /\ q.freed = p.freed
<1>0. p.bufferBytes \in 0..PIPE_BUFFER_SIZE /\ PIPE_BUFFER_SIZE \in Nat \ {0}
      /\ p.reader \in BOOLEAN /\ p.writer \in BOOLEAN
  BY PipeAssumption DEF PipeType
<1>1. CASE e = "read"
  <2>1. arg \in Nat /\ q = P!ReadBytes(p, arg) /\ ~(p.bufferBytes = 0 /\ p.writer)
    BY <1>1, PipeAssumption DEF ArgType, P!Transfer, P!MustWait, P!MustWaitForData
  <2>2. p.hasData = {}
    BY <2>1 DEF WakeupOf, P!MustWaitForData
  <2>3. CASE p.bufferBytes = 0 /\ ~p.writer
    BY <2>1, <2>3 DEF P!ReadBytes
  <2>4. CASE ~(p.bufferBytes = 0 /\ ~p.writer)
    <3> DEFINE w == P!ReadBytes(p, arg)
    <3>0. /\ w \in PipeType /\ RingOf(w) /\ w.hasSpace = {} /\ w.hasData = p.hasData
          /\ w.reader = p.reader /\ w.writer = p.writer /\ w.freed = p.freed
      <4>1. arg \in Nat
        BY <2>1
      <4> QED BY <4>1, <2>4, ReadExact
    <3> HIDE DEF w
    <3>1. /\ q \in PipeType /\ RingOf(q) /\ q.hasSpace = {} /\ q.hasData = p.hasData
          /\ q.reader = p.reader /\ q.writer = p.writer /\ q.freed = p.freed
      <4>1. q = w
        BY <2>1 DEF w
      <4> QED BY <4>1, <3>0
    <3> QED BY <2>2, <3>1 DEF WakeupOf
  <2> QED BY <2>3, <2>4
<1>2. CASE e = "write"
  <2>1. arg \in P!Buffers /\ q = P!WriteBytes(p, arg) /\ ~P!MustWaitForSpace(p)
    BY <1>2 DEF ArgType, P!Transfer, P!MustWait
  <2>2. p.hasSpace = {}
    BY <2>1 DEF WakeupOf
  <2>3. CASE ~p.reader
    BY <2>1, <2>3 DEF P!WriteBytes
  <2>4. CASE p.reader
    <3> DEFINE w == P!WriteBytes(p, arg)
    <3>0. /\ w \in PipeType /\ RingOf(w) /\ w.hasData = {} /\ w.hasSpace = p.hasSpace
          /\ w.reader = p.reader /\ w.writer = p.writer /\ w.freed = p.freed
      <4>1. arg \in P!Buffers
        BY <2>1
      <4> QED BY <4>1, <2>4, WriteExact
    <3> HIDE DEF w
    <3>1. /\ q \in PipeType /\ RingOf(q) /\ q.hasData = {} /\ q.hasSpace = p.hasSpace
          /\ q.reader = p.reader /\ q.writer = p.writer /\ q.freed = p.freed
      <4>1. q = w
        BY <2>1 DEF w
      <4> QED BY <4>1, <3>0
    <3> QED BY <2>2, <3>1 DEF WakeupOf
  <2> QED BY <2>3, <2>4
<1> QED BY <1>1, <1>2 DEF P!Ends

\* FCB_decref, with the Close of the end when its count reaches zero.
LEMMA DecrefKeeps ==
    ASSUME PipeInv, NEW e \in P!Ends, NEW p \in PipeType, RingOf(p), WakeupOf(p),
           p.reader = pipe.reader, p.writer = pipe.writer, p.freed = pipe.freed,
           P!FCB_decref(e, p), refs[e] > 0, RefsExact',
           fids' \in [P!Ends -> 0 .. MaxFids], SleepersOf(p, call')
    PROVE  /\ pipe' \in PipeType /\ refs' \in [P!Ends -> Nat]
           /\ RingOf(pipe') /\ WakeupOf(pipe') /\ EndsExact(pipe', refs') /\ SleepersOf(pipe', call')
<1>1. /\ refs' = [refs EXCEPT ![e] = @ - 1]
      /\ pipe' = IF refs'[e] = 0 THEN P!Closed(e, p) ELSE p
  BY DEF P!FCB_decref
<1>2. refs \in [P!Ends -> Nat] /\ EndsExact(pipe, refs)
  BY DEF PipeInv
<1>3. refs' \in [P!Ends -> Nat] /\ refs'[e] = refs[e] - 1
      /\ \A d \in P!Ends : d # e => refs'[d] = refs[d]
  BY <1>1, <1>2
<1>4. p.reader \in BOOLEAN /\ p.writer \in BOOLEAN /\ p.freed \in BOOLEAN
  BY DEF PipeType
<1>5. ASSUME NEW d \in P!Ends, refs'[d] = 0 PROVE Callers(call', d) = {}
  <2>1. /\ IsFiniteSet(Callers(call', d)) /\ Cardinality(Callers(call', d)) \in Nat
        /\ Cardinality(Callers(call', d)) = 0 => Callers(call', d) = {}
    BY CallersCount
  <2>2. refs'[d] = fids'[d] + Cardinality(Callers(call', d)) /\ fids'[d] \in Nat
    BY PipeAssumption DEF RefsExact
  <2> QED BY <1>5, <2>1, <2>2
<1>6. CASE refs'[e] # 0
  <2>1. pipe' = p
    BY <1>1, <1>6
  <2>2. EndsExact(p, refs')
    BY <1>2, <1>3, <1>6 DEF EndsExact, P!Ends
  <2> QED BY <1>3, <2>1, <2>2
<1>7. CASE refs'[e] = 0 /\ e = "read"
  <2>1. pipe' = [p EXCEPT !.reader = FALSE, !.hasSpace = {}]
    BY <1>1, <1>2, <1>7 DEF P!Closed, P!pipe_reader_close, EndsExact
  <2>2. /\ pipe' \in PipeType /\ pipe'.reader = FALSE /\ pipe'.hasSpace = {}
        /\ pipe'.writer = p.writer /\ pipe'.freed = p.freed /\ pipe'.hasData = p.hasData
        /\ pipe'.cell = p.cell /\ pipe'.r_pos = p.r_pos /\ pipe'.w_pos = p.w_pos
        /\ pipe'.bufferBytes = p.bufferBytes
    BY <2>1 DEF PipeType
  <2>3. RingOf(pipe')
    BY <2>2 DEF RingOf
  <2>4. WakeupOf(pipe')
    BY <2>2 DEF WakeupOf, P!MustWaitForData
  <2>5. EndsExact(pipe', refs')
    BY <1>2, <1>3, <1>7, <2>2 DEF EndsExact, P!Ends
  <2>6. SleepersOf(pipe', call')
    BY <2>2 DEF SleepersOf
  <2> QED BY <1>3, <2>2, <2>3, <2>4, <2>5, <2>6
<1>8. CASE refs'[e] = 0 /\ e = "write"
  <2>1. /\ pipe'.writer = FALSE /\ pipe'.hasData = {}
        /\ pipe' \in PipeType /\ pipe'.reader = p.reader
        /\ pipe'.freed => p.freed \/ ~p.reader
        /\ pipe'.hasSpace = p.hasSpace
        /\ pipe'.cell = p.cell /\ pipe'.r_pos = p.r_pos /\ pipe'.w_pos = p.w_pos
        /\ pipe'.bufferBytes = p.bufferBytes
    <3>1. CASE ~p.reader
      <4>1. refs'["read"] = 0
        BY <1>2, <1>3, <1>8, <3>1 DEF EndsExact, P!Ends
      <4>2. p.hasData = {}
        BY <1>5, <4>1 DEF SleepersOf, P!Ends
      <4>3. pipe' = [p EXCEPT !.writer = FALSE, !.freed = TRUE]
        BY <1>1, <1>8, <3>1 DEF P!Closed, P!pipe_writer_close
      <4> QED BY <3>1, <4>2, <4>3 DEF PipeType
    <3>2. CASE p.reader
      <4>1. pipe' = [p EXCEPT !.writer = FALSE, !.hasData = {}]
        BY <1>1, <1>8, <3>2 DEF P!Closed, P!pipe_writer_close
      <4> QED BY <4>1 DEF PipeType
    <3> QED BY <1>4, <3>1, <3>2
  <2>2. RingOf(pipe')
    BY <2>1 DEF RingOf
  <2>3. WakeupOf(pipe')
    BY <2>1 DEF WakeupOf, P!MustWaitForSpace
  <2>4. EndsExact(pipe', refs')
    BY <1>2, <1>3, <1>4, <1>8, <2>1 DEF EndsExact, P!Ends
  <2>5. SleepersOf(pipe', call')
    BY <2>1 DEF SleepersOf
  <2> QED BY <1>3, <2>1, <2>2, <2>3, <2>4, <2>5
<1> QED BY <1>6, <1>7, <1>8 DEF P!Ends

\* A call begins or ends: the callers of an end by one more or one less.
LEMMA CallersAdd ==
    ASSUME call \in [Threads -> CallType], NEW t \in Threads, call[t] = P!Idle,
           NEW e \in P!Ends, NEW r, r.end = e, call' = [call EXCEPT ![t] = r]
    PROVE  /\ \A d \in P!Ends : d # e => Callers(call', d) = Callers(call, d)
           /\ Callers(call', e) = Callers(call, e) \cup {t}
           /\ Cardinality(Callers(call', e)) = Cardinality(Callers(call, e)) + 1
<1>1. \A d \in P!Ends : P!Idle.end # d
  BY DEF P!Idle, P!Ends
<1>2. Callers(call', e) = Callers(call, e) \cup {t} /\ t \notin Callers(call, e)
  BY <1>1 DEF Callers
<1>3. \A d \in P!Ends : d # e => Callers(call', d) = Callers(call, d)
  BY <1>1 DEF Callers
<1>4. IsFiniteSet(Callers(call, e))
  BY CallersCount
<1> DEFINE A == Callers(call, e)
<1>5. A \cup {t} = Callers(call', e) /\ t \notin A /\ IsFiniteSet(A)
  BY <1>2, <1>4
<1> HIDE DEF A
<1>6. Cardinality(A \cup {t}) = Cardinality(A) + 1
  BY <1>5, FS_AddElement
<1> QED BY <1>2, <1>3, <1>5, <1>6 DEF A

LEMMA CallersRemove ==
    ASSUME call \in [Threads -> CallType], NEW t \in Threads, NEW e \in P!Ends, call[t].end = e,
           call' = [call EXCEPT ![t] = P!Idle]
    PROVE  /\ \A d \in P!Ends : d # e => Callers(call', d) = Callers(call, d)
           /\ Callers(call', e) = Callers(call, e) \ {t}
           /\ Cardinality(Callers(call', e)) = Cardinality(Callers(call, e)) - 1
           /\ Cardinality(Callers(call, e)) > 0
<1>1. \A d \in P!Ends : P!Idle.end # d
  BY DEF P!Idle, P!Ends
<1>2. Callers(call', e) = Callers(call, e) \ {t} /\ t \in Callers(call, e)
  BY <1>1 DEF Callers
<1>3. \A d \in P!Ends : d # e => Callers(call', d) = Callers(call, d)
  BY <1>1 DEF Callers
<1>4. IsFiniteSet(Callers(call, e)) /\ Cardinality(Callers(call, e)) \in Nat
      /\ (Cardinality(Callers(call, e)) = 0 => Callers(call, e) = {})
  BY CallersCount
<1>5. Cardinality(Callers(call', e)) = Cardinality(Callers(call, e)) - 1
  <2> DEFINE A == Callers(call, e)
  <2>1. A \ {t} = Callers(call', e) /\ t \in A /\ IsFiniteSet(A)
    BY <1>2, <1>4
  <2> HIDE DEF A
  <2>2. Cardinality(A \ {t}) = Cardinality(A) - 1
    BY <2>1, FS_RemoveElement
  <2> QED BY <2>1, <2>2 DEF A
<1>6. Cardinality(Callers(call, e)) > 0
  <2>1. Callers(call, e) # {}
    BY <1>2
  <2> QED BY <1>4, <2>1
<1> QED BY <1>2, <1>3, <1>5, <1>6

\* A thread goes to sleep on its condition.
LEMMA SleepKeeps ==
    ASSUME pipe \in PipeType, RingOf(pipe), WakeupOf(pipe), NEW r, EndsExact(pipe, r),
           NEW t \in Threads, NEW e \in P!Ends, P!MustWait(e, pipe), NEW c, t \in Callers(c, e),
           SleepersOf(pipe, c), NEW q, q = P!Sleep(t, e, pipe)
    PROVE  /\ q \in PipeType /\ RingOf(q) /\ WakeupOf(q) /\ EndsExact(q, r) /\ SleepersOf(q, c)
<1>1. CASE e = "read"
  <2>1. q = [pipe EXCEPT !.hasData = @ \union {t}] /\ P!MustWaitForData(pipe)
    BY <1>1 DEF P!Sleep, P!MustWait
  <2>2. /\ q \in PipeType /\ q.hasData = pipe.hasData \cup {t} /\ q.hasSpace = pipe.hasSpace
        /\ q.reader = pipe.reader /\ q.writer = pipe.writer /\ q.freed = pipe.freed
        /\ q.cell = pipe.cell /\ q.r_pos = pipe.r_pos /\ q.w_pos = pipe.w_pos
        /\ q.bufferBytes = pipe.bufferBytes
    BY <2>1 DEF PipeType
  <2> QED BY <1>1, <2>1, <2>2
          DEF RingOf, WakeupOf, EndsExact, SleepersOf, P!MustWaitForData, P!MustWaitForSpace
<1>2. CASE e = "write"
  <2>1. q = [pipe EXCEPT !.hasSpace = @ \union {t}] /\ P!MustWaitForSpace(pipe)
    BY <1>2 DEF P!Sleep, P!MustWait
  <2>2. /\ q \in PipeType /\ q.hasSpace = pipe.hasSpace \cup {t} /\ q.hasData = pipe.hasData
        /\ q.reader = pipe.reader /\ q.writer = pipe.writer /\ q.freed = pipe.freed
        /\ q.cell = pipe.cell /\ q.r_pos = pipe.r_pos /\ q.w_pos = pipe.w_pos
        /\ q.bufferBytes = pipe.bufferBytes
    BY <2>1 DEF PipeType
  <2> QED BY <1>2, <2>1, <2>2
          DEF RingOf, WakeupOf, EndsExact, SleepersOf, P!MustWaitForData, P!MustWaitForSpace
<1> QED BY <1>1, <1>2 DEF P!Ends

LEMMA CallKeeps ==
    ASSUME PipeInv, NEW t \in Threads, NEW e \in P!Ends, NEW arg \in ArgType(e), P!Call(t, e, arg)
    PROVE  PipeInv'
<1>1. call[t] = P!Idle /\ fids[e] > 0 /\ fids' = fids
  BY DEF P!Call
<1>2. CASE P!MustWait(e, pipe)
  <2> DEFINE r == [end |-> e, arg |-> arg]
  <2>1. /\ pipe' = P!Sleep(t, e, pipe) /\ refs' = [refs EXCEPT ![e] = @ + 1]
        /\ call' = [call EXCEPT ![t] = r]
    BY <1>2 DEF P!Call
  <2>2. r \in CallType /\ r.end = e
    BY DEF CallType, ArgType, P!Ends
  <2> HIDE DEF r
  <2>3. call' \in [Threads -> CallType]
    BY <2>1, <2>2 DEF PipeInv
  <2>4. /\ \A d \in P!Ends : d # e => Callers(call', d) = Callers(call, d)
        /\ Callers(call', e) = Callers(call, e) \cup {t}
        /\ Cardinality(Callers(call', e)) = Cardinality(Callers(call, e)) + 1
    BY <1>1, <2>1, <2>2, CallersAdd DEF PipeInv
  <2>5. refs' \in [P!Ends -> Nat] /\ refs'[e] = refs[e] + 1
        /\ \A d \in P!Ends : d # e => refs'[d] = refs[d]
    BY <2>1 DEF PipeInv
  <2>6. RefsExact'
    <3> SUFFICES ASSUME NEW d \in P!Ends PROVE refs'[d] = fids'[d] + Cardinality(Callers(call', d))
      BY DEF RefsExact
    <3>1. /\ refs[d] = fids[d] + Cardinality(Callers(call, d))
          /\ fids[d] \in Int /\ Cardinality(Callers(call, d)) \in Int
      BY CallersCount, PipeAssumption DEF PipeInv, RefsExact
    <3>2. CASE d = e
      <4>1. /\ refs'[d] = refs[d] + 1 /\ fids'[d] = fids[d]
            /\ Cardinality(Callers(call', d)) = Cardinality(Callers(call, d)) + 1
        BY <1>1, <2>4, <2>5, <3>2
      <4> QED BY <3>1, <4>1
    <3>3. CASE d # e
      BY <1>1, <2>4, <2>5, <3>1, <3>3
    <3> QED BY <3>2, <3>3
  <2>7. EndsExact(pipe, refs')
    <3>1. refs["read"] \in Nat /\ refs["write"] \in Nat /\ refs[e] \in Nat
      BY DEF PipeInv, P!Ends
    <3>2. refs[e] > 0
      BY <1>1, CallersCount, PipeAssumption DEF PipeInv, RefsExact
    <3> QED BY <2>5, <3>1, <3>2 DEF PipeInv, EndsExact, P!Ends
  <2>8. SleepersOf(pipe, call') /\ t \in Callers(call', e)
    BY <2>4 DEF PipeInv, SleepersOf, P!Ends
  <2>9. /\ pipe' \in PipeType /\ RingOf(pipe') /\ WakeupOf(pipe') /\ EndsExact(pipe', refs')
        /\ SleepersOf(pipe', call')
    BY <1>2, <2>1, <2>7, <2>8, SleepKeeps DEF PipeInv
  <2>10. fids' \in [P!Ends -> 0 .. MaxFids]
    BY <1>1 DEF PipeInv
  <2> QED BY <2>3, <2>5, <2>6, <2>9, <2>10 DEF PipeInv
<1>3. CASE ~P!MustWait(e, pipe)
  <2>1. pipe' = P!Transfer(e, arg, pipe) /\ refs' = refs /\ call' = call
    BY <1>3 DEF P!Call
  <2>2. /\ pipe' \in PipeType /\ RingOf(pipe') /\ WakeupOf(pipe')
        /\ pipe'.hasData \subseteq pipe.hasData /\ pipe'.hasSpace \subseteq pipe.hasSpace
        /\ pipe'.reader = pipe.reader /\ pipe'.writer = pipe.writer /\ pipe'.freed = pipe.freed
    BY <1>3, <2>1, TransferKeeps DEF PipeInv
  <2>3. EndsExact(pipe', refs') /\ SleepersOf(pipe', call')
    BY <2>1, <2>2 DEF PipeInv, EndsExact, SleepersOf
  <2>4. RefsExact'
    BY <1>1, <2>1 DEF PipeInv, RefsExact
  <2> QED BY <1>1, <2>1, <2>2, <2>3, <2>4 DEF PipeInv
<1> QED BY <1>2, <1>3

LEMMA ResumeKeeps ==
    ASSUME PipeInv, NEW t \in Threads, P!Resume(t)
    PROVE  PipeInv'
<1> DEFINE e == call[t].end
<1>1. /\ e \in P!Ends /\ call[t].arg \in ArgType(e) /\ t \in Callers(call, e)
      /\ t \notin pipe.hasData \cup pipe.hasSpace /\ fids' = fids
  <2>1. call[t] \in CallType /\ call[t] # P!Idle
    BY DEF PipeInv, P!Resume, P!Awake
  <2>2. e \in P!Ends /\ call[t].arg \in ArgType(e)
    BY <2>1 DEF CallType, ArgType, P!Ends
  <2> QED BY <2>2 DEF Callers, P!Resume, P!Awake
<1>2. CASE P!MustWait(e, pipe)
  <2>1. pipe' = P!Sleep(t, e, pipe) /\ refs' = refs /\ call' = call
    BY <1>2 DEF P!Resume
  <2> HIDE DEF e
  <2>2. /\ pipe' \in PipeType /\ RingOf(pipe') /\ WakeupOf(pipe') /\ EndsExact(pipe', refs)
        /\ SleepersOf(pipe', call)
    BY <1>1, <1>2, <2>1, SleepKeeps DEF PipeInv
  <2>3. RefsExact'
    BY <1>1, <2>1 DEF PipeInv, RefsExact
  <2> QED BY <1>1, <2>1, <2>2, <2>3 DEF PipeInv
<1>3. CASE ~P!MustWait(e, pipe)
  <2> DEFINE p == P!Transfer(e, call[t].arg, pipe)
  <2>1. P!FCB_decref(e, p) /\ call' = [call EXCEPT ![t] = P!Idle]
    BY <1>3 DEF P!Resume
  <2>2. /\ p \in PipeType /\ RingOf(p) /\ WakeupOf(p)
        /\ p.hasData \subseteq pipe.hasData /\ p.hasSpace \subseteq pipe.hasSpace
        /\ p.reader = pipe.reader /\ p.writer = pipe.writer /\ p.freed = pipe.freed
    BY <1>1, <1>3, TransferKeeps DEF PipeInv
  <2> HIDE DEF p
  <2>3. /\ \A d \in P!Ends : d # e => Callers(call', d) = Callers(call, d)
        /\ Callers(call', e) = Callers(call, e) \ {t}
        /\ Cardinality(Callers(call', e)) = Cardinality(Callers(call, e)) - 1
        /\ Cardinality(Callers(call, e)) > 0
    BY <1>1, <2>1, CallersRemove DEF PipeInv
  <2> HIDE DEF e
  <2>4. refs' = [refs EXCEPT ![e] = @ - 1]
    BY <2>1 DEF P!FCB_decref
  <2>5. RefsExact' /\ refs[e] > 0
    <3>1. ASSUME NEW d \in P!Ends
          PROVE  /\ refs[d] = fids[d] + Cardinality(Callers(call, d))
                 /\ refs[d] \in Nat /\ fids[d] \in Nat /\ Cardinality(Callers(call, d)) \in Nat
      BY CallersCount, PipeAssumption DEF PipeInv, RefsExact
    <3>2. refs[e] > 0
      BY <1>1, <2>3, <3>1
    <3>3. ASSUME NEW d \in P!Ends PROVE refs'[d] = fids'[d] + Cardinality(Callers(call', d))
      <4>1. refs'[d] = IF d = e THEN refs[d] - 1 ELSE refs[d]
        BY <2>4 DEF PipeInv
      <4>2. CASE d = e
        <5>1. /\ refs'[d] = refs[d] - 1 /\ fids'[d] = fids[d]
              /\ Cardinality(Callers(call', d)) = Cardinality(Callers(call, d)) - 1
          BY <1>1, <2>3, <4>1, <4>2
        <5> QED BY <3>1, <5>1
      <4>3. CASE d # e
        BY <1>1, <2>3, <3>1, <4>1, <4>3
      <4> QED BY <4>2, <4>3
    <3> QED BY <3>2, <3>3 DEF RefsExact
  <2>6. SleepersOf(p, call')
    BY <1>1, <2>2, <2>3 DEF PipeInv, SleepersOf, P!Ends
  <2>7. call' \in [Threads -> CallType] /\ fids' \in [P!Ends -> 0 .. MaxFids]
    BY <1>1, <2>1 DEF PipeInv, CallType
  <2>8. /\ pipe' \in PipeType /\ refs' \in [P!Ends -> Nat]
        /\ RingOf(pipe') /\ WakeupOf(pipe') /\ EndsExact(pipe', refs') /\ SleepersOf(pipe', call')
    BY <1>1, <2>1, <2>2, <2>5, <2>6, <2>7, DecrefKeeps
  <2> QED BY <2>5, <2>7, <2>8 DEF PipeInv
<1> QED BY <1>2, <1>3

LEMMA PipeCloseKeeps ==
    ASSUME PipeInv, NEW e \in P!Ends, P!Close(e)
    PROVE  PipeInv'
<1>1. /\ fids[e] > 0 /\ fids' = [fids EXCEPT ![e] = @ - 1]
      /\ P!FCB_decref(e, pipe) /\ call' = call /\ refs' = [refs EXCEPT ![e] = @ - 1]
  BY DEF P!Close, P!FCB_decref
<1>2. ASSUME NEW d \in P!Ends
      PROVE  /\ refs[d] = fids[d] + Cardinality(Callers(call, d))
             /\ refs[d] \in Nat /\ fids[d] \in 0..MaxFids /\ Cardinality(Callers(call, d)) \in Nat
  BY CallersCount DEF PipeInv, RefsExact
<1>3. refs[e] > 0 /\ fids[e] - 1 \in 0..MaxFids
  BY <1>1, <1>2, PipeAssumption
<1>4. RefsExact'
  <2> SUFFICES ASSUME NEW d \in P!Ends PROVE refs'[d] = fids'[d] + Cardinality(Callers(call', d))
    BY DEF RefsExact
  <2>1. /\ refs'[d] = IF d = e THEN refs[d] - 1 ELSE refs[d]
        /\ fids'[d] = IF d = e THEN fids[d] - 1 ELSE fids[d]
    BY <1>1 DEF PipeInv
  <2> QED BY <1>1, <1>2, <2>1
<1>5. fids' \in [P!Ends -> 0 .. MaxFids] /\ SleepersOf(pipe, call')
  BY <1>1, <1>3 DEF PipeInv
<1>6. /\ pipe' \in PipeType /\ refs' \in [P!Ends -> Nat]
      /\ RingOf(pipe') /\ WakeupOf(pipe') /\ EndsExact(pipe', refs') /\ SleepersOf(pipe', call')
  <2>1. pipe \in PipeType /\ RingOf(pipe) /\ WakeupOf(pipe)
    BY DEF PipeInv
  <2> QED BY <1>1, <1>3, <1>4, <1>5, <2>1, DecrefKeeps
<1> QED BY <1>1, <1>4, <1>5, <1>6 DEF PipeInv

LEMMA DupKeeps ==
    ASSUME PipeInv, NEW e \in P!Ends, P!Dup(e)
    PROVE  PipeInv'
<1>1. /\ fids[e] > 0 /\ fids[e] < MaxFids /\ fids' = [fids EXCEPT ![e] = @ + 1]
      /\ refs' = [refs EXCEPT ![e] = @ + 1] /\ pipe' = pipe /\ call' = call
  BY DEF P!Dup
<1>2. ASSUME NEW d \in P!Ends
      PROVE  /\ refs[d] = fids[d] + Cardinality(Callers(call, d))
             /\ refs[d] \in Nat /\ fids[d] \in 0..MaxFids /\ Cardinality(Callers(call, d)) \in Nat
             /\ refs'[d] = (IF d = e THEN refs[d] + 1 ELSE refs[d])
             /\ fids'[d] = (IF d = e THEN fids[d] + 1 ELSE fids[d])
  BY <1>1, CallersCount DEF PipeInv, RefsExact
<1>3. RefsExact'
  <2> SUFFICES ASSUME NEW d \in P!Ends PROVE refs'[d] = fids'[d] + Cardinality(Callers(call', d))
    BY DEF RefsExact
  <2>1. Callers(call', d) = Callers(call, d)
    BY <1>1
  <2>2. CASE d = e
    BY <1>2, <2>1, <2>2
  <2>3. CASE d # e
    BY <1>2, <2>1, <2>3
  <2> QED BY <2>2, <2>3
<1>4. /\ fids[e] + 1 \in 0..MaxFids /\ refs[e] + 1 \in Nat
  BY <1>1, <1>2, PipeAssumption
<1>5. fids' \in [P!Ends -> 0 .. MaxFids] /\ refs' \in [P!Ends -> Nat]
  BY <1>1, <1>4 DEF PipeInv
<1>6. EndsExact(pipe, refs')
  <2>1. \A d \in P!Ends : refs'[d] > 0 <=> refs[d] > 0
    BY <1>1, <1>2
  <2> QED BY <2>1 DEF PipeInv, EndsExact, P!Ends
<1> QED BY <1>1, <1>3, <1>5, <1>6 DEF PipeInv

LEMMA PipeStep == PipeInv /\ [P!Next]_<<pipe, refs, fids, call>> => PipeInv'
<1> SUFFICES ASSUME PipeInv, [P!Next]_<<pipe, refs, fids, call>> PROVE PipeInv'
  OBVIOUS
<1>1. CASE UNCHANGED <<pipe, refs, fids, call>>
  BY <1>1 DEF PipeInv, RefsExact
<1>2. ASSUME NEW t \in Threads, NEW n \in 0 .. MaxLen, P!Call(t, "read", n) PROVE PipeInv'
  BY <1>2, CallKeeps DEF ArgType, P!Ends
<1>3. ASSUME NEW t \in Threads, NEW buf \in P!Buffers, P!Call(t, "write", buf) PROVE PipeInv'
  BY <1>3, CallKeeps DEF ArgType, P!Ends
<1> QED BY <1>1, <1>2, <1>3, ResumeKeeps, PipeCloseKeeps, DupKeeps DEF P!Next

LEMMA PipeInvSafe == MCSpec => []PipeInv
<1>1. MCInit => PipeInv
  BY PipeInit DEF MCInit
<1>2. [MCNext]_allvars => [P!Next]_<<pipe, refs, fids, call>>
  BY DEF MCNext, allvars
<1> QED BY <1>1, <1>2, PipeStep, PTL DEF MCSpec

LEMMA PipeInvSound == PipeInv => PipeSound /\ NoLostWakeup
<1> SUFFICES ASSUME PipeInv PROVE PipeSound /\ NoLostWakeup
  OBVIOUS
<1>1. ASSUME NEW e \in P!Ends
      PROVE  /\ refs[e] = fids[e] + Cardinality(Callers(call, e))
             /\ refs[e] \in Nat /\ fids[e] \in 0..MaxFids /\ Cardinality(Callers(call, e)) \in Nat
             /\ Cardinality(Callers(call, e)) <= Cardinality(Threads)
             /\ Cardinality(Callers(call, e)) = 0 => Callers(call, e) = {}
  BY CallersCount DEF PipeInv, RefsExact
<1>2. P!TypeOK
  <2>1. Cardinality(Threads) \in Nat
    BY PipeAssumption, FS_CardinalityType
  <2>2. \A e \in P!Ends : refs[e] \in 0 .. MaxFids + Cardinality(Threads)
    BY <1>1, <2>1, PipeAssumption
  <2>3. refs \in [P!Ends -> 0 .. MaxFids + Cardinality(Threads)]
    BY <2>2 DEF PipeInv
  <2>4. pipe \in PipeType /\ fids \in [P!Ends -> 0 .. MaxFids] /\ call \in [Threads -> CallType]
    BY DEF PipeInv
  <2>5. P!Cardinality(Threads) = Cardinality(Threads)
    BY DEF P!Cardinality, Cardinality
  <2> QED BY <2>3, <2>4, <2>5, Zenon DEF P!TypeOK, PipeType, CallType
<1>3. P!RingSound
  BY DEF PipeInv, RingOf, P!RingSound, P!NUL
<1>4. P!FreedUnused
  <2> SUFFICES ASSUME pipe.freed
               PROVE  /\ \A e \in P!Ends : fids[e] = 0 /\ refs[e] = 0
                      /\ \A t \in Threads : call[t] = P!Idle
    BY DEF P!FreedUnused
  <2>1. \A e \in P!Ends : ~(refs[e] > 0)
    BY DEF PipeInv, EndsExact, P!Ends
  <2>2. ASSUME NEW e \in P!Ends PROVE refs[e] = 0 /\ fids[e] = 0 /\ Callers(call, e) = {}
    BY <1>1, <2>1, PipeAssumption
  <2>3. ASSUME NEW t \in Threads PROVE call[t] = P!Idle
    <3>1. call[t] \in CallType /\ call[t].end \notin P!Ends
      BY <2>2 DEF PipeInv, Callers
    <3> QED BY <3>1 DEF CallType, P!Ends
  <2> QED BY <2>2, <2>3
<1>5. P!NoLostWakeup
  BY DEF PipeInv, WakeupOf, P!NoLostWakeup
<1> QED BY <1>2, <1>3, <1>4, <1>5 DEF PipeSound, NoLostWakeup

(***************************************************************************)
(* The node pipe_write stands on is empty whenever there is room, so that  *)
(* no Write fails with half a buffer stored; and the pipe is freed only    *)
(* when no descriptor and no call can reach it: for every buffer size,     *)
(* number of threads and length of calls.                                  *)
(***************************************************************************)
THEOREM PipeSafe == MCSpec => []PipeSound
BY PipeInvSafe, PipeInvSound, PTL

(***************************************************************************)
(* No thread sleeps in pipe_read or pipe_write past its condition,         *)
(* whatever calls, closes and duplications come in between.                *)
(***************************************************************************)
THEOREM WakeupSafe == MCSpec => []NoLostWakeup
BY PipeInvSafe, PipeInvSound, PTL

-----------------------------------------------------------------------------
(* The pipe implements a channel                                           *)

LEMMA ContentsType ==
    ASSUME NEW p \in PipeType
    PROVE  /\ P!Contents(p) \in Seq(Bytes) /\ Len(P!Contents(p)) = p.bufferBytes
           /\ p.bufferBytes \in 0..PIPE_BUFFER_SIZE
           /\ \A i \in 1..p.bufferBytes : P!Contents(p)[i] = p.cell[P!next(p.r_pos, i - 1)]
<1>1. p.bufferBytes \in 0..PIPE_BUFFER_SIZE /\ p.r_pos \in P!Cells /\ PIPE_BUFFER_SIZE \in Nat
  BY PipeAssumption DEF PipeType
<1>2. ASSUME NEW i \in 1..p.bufferBytes PROVE p.cell[P!next(p.r_pos, i - 1)] \in Bytes
  <2>1. i - 1 \in 0..PIPE_BUFFER_SIZE
    BY <1>1
  <2>2. P!next(p.r_pos, i - 1) \in P!Cells
    BY <1>1, <2>1, NextShift
  <2> QED BY <2>2 DEF PipeType
<1> QED BY <1>1, <1>2 DEF P!Contents

\* What a Write stores comes after what is there.
LEMMA ContentsWrite ==
    ASSUME NEW p \in PipeType, RingOf(p), NEW buf \in P!Buffers, p.reader
    PROVE  LET n == P!Count(p, buf)
               q == P!WriteBytes(p, buf)
               b == [i \in 1..n |-> buf[i]]
           IN  /\ n \in 0..PIPE_BUFFER_SIZE - p.bufferBytes /\ b \in [1..n -> Bytes]
               /\ P!Contents(q) = P!Contents(p) \o b
<1> DEFINE n == P!Count(p, buf)
           q == P!WriteBytes(p, buf)
           b == [i \in 1..n |-> buf[i]]
           s == P!Contents(p) \o b
<1>1. /\ q \in PipeType /\ q.r_pos = p.r_pos
      /\ n \in 0..PIPE_BUFFER_SIZE - p.bufferBytes /\ q.bufferBytes = p.bufferBytes + n
      /\ \A c \in P!Cells : q.cell[c] = IF P!Offset(p.w_pos, c) < n
                                        THEN buf[P!Offset(p.w_pos, c) + 1] ELSE p.cell[c]
  BY WriteExact
<1>2. n <= Len(buf) /\ Len(buf) \in Nat /\ buf \in [1..Len(buf) -> Bytes]
  BY StoredExact
<1>3. /\ p.bufferBytes \in 0..PIPE_BUFFER_SIZE /\ PIPE_BUFFER_SIZE \in Nat
      /\ p.r_pos \in P!Cells /\ p.w_pos = P!next(p.r_pos, p.bufferBytes)
  BY PipeAssumption DEF PipeType, RingOf
<1> HIDE DEF n, q
<1>4. b \in Seq(Bytes) /\ Len(b) = n /\ b \in [1..n -> Bytes] /\ \A i \in 1..n : b[i] = buf[i]
  BY <1>1, <1>2, <1>3
<1> HIDE DEF b
<1>5. /\ P!Contents(p) \in Seq(Bytes) /\ Len(P!Contents(p)) = p.bufferBytes
      /\ \A i \in 1..p.bufferBytes : P!Contents(p)[i] = p.cell[P!next(p.r_pos, i - 1)]
  BY ContentsType
<1>6. /\ P!Contents(q) \in Seq(Bytes) /\ Len(P!Contents(q)) = p.bufferBytes + n
      /\ \A i \in 1..p.bufferBytes + n : P!Contents(q)[i] = q.cell[P!next(p.r_pos, i - 1)]
  BY <1>1, ContentsType
<1>7. /\ s \in Seq(Bytes) /\ Len(s) = p.bufferBytes + n
      /\ \A i \in 1..p.bufferBytes + n :
            s[i] = IF i <= p.bufferBytes THEN P!Contents(p)[i] ELSE b[i - p.bufferBytes]
  <2>1. /\ s \in Seq(Bytes) /\ Len(s) = Len(P!Contents(p)) + Len(b)
        /\ \A i \in 1..Len(P!Contents(p)) + Len(b) :
              s[i] = IF i <= Len(P!Contents(p)) THEN P!Contents(p)[i]
                     ELSE b[i - Len(P!Contents(p))]
    <3>1. P!Contents(p) \in Seq(Bytes) /\ b \in Seq(Bytes)
      BY <1>4, <1>5
    <3> QED BY <3>1, ConcatProperties
  <2> HIDE DEF s
  <2> QED BY <1>4, <1>5, <2>1
<1> HIDE DEF s
<1>8. ASSUME NEW i \in 1..p.bufferBytes + n PROVE P!Contents(q)[i] = s[i]
  <2> DEFINE c == P!next(p.r_pos, i - 1)
  <2>1. i - 1 \in 0..PIPE_BUFFER_SIZE /\ Ring = PIPE_BUFFER_SIZE + 1
    BY <1>1, <1>3 DEF Ring
  <2>2. c \in P!Cells /\ P!Offset(p.r_pos, c) = i - 1
    BY <1>3, <2>1, NextShift
  <2>3. P!Contents(q)[i] = q.cell[c]
    BY <1>6
  <2> HIDE DEF c
  <2>4. P!Offset(p.w_pos, c) = IF i - 1 >= p.bufferBytes THEN i - 1 - p.bufferBytes
                               ELSE i - 1 - p.bufferBytes + Ring
    <3>1. p.bufferBytes \in 0..PIPE_BUFFER_SIZE /\ p.r_pos \in P!Cells /\ c \in P!Cells
      BY <1>3, <2>2
    <3>2. P!Offset(P!next(p.r_pos, p.bufferBytes), c) =
              IF P!Offset(p.r_pos, c) >= p.bufferBytes
              THEN P!Offset(p.r_pos, c) - p.bufferBytes
              ELSE P!Offset(p.r_pos, c) - p.bufferBytes + Ring
      BY <3>1, OffsetShift
    <3> QED BY <1>3, <2>2, <3>2
  <2>5. CASE i <= p.bufferBytes
    <3>1. ~(P!Offset(p.w_pos, c) < n) /\ i \in 1..p.bufferBytes
      BY <1>1, <1>3, <2>1, <2>4, <2>5
    <3> QED BY <1>1, <1>5, <1>7, <2>2, <2>3, <2>5, <3>1 DEF c
  <2>6. CASE i > p.bufferBytes
    <3>1. /\ P!Offset(p.w_pos, c) < n /\ P!Offset(p.w_pos, c) + 1 = i - p.bufferBytes
          /\ i - p.bufferBytes \in 1..n /\ ~(i <= p.bufferBytes)
      BY <1>1, <1>3, <2>1, <2>4, <2>6
    <3> QED BY <1>1, <1>4, <1>7, <2>2, <2>3, <3>1
  <2> QED BY <1>1, <1>3, <2>5, <2>6
<1>9. P!Contents(q) = s
  BY <1>6, <1>7, <1>8, SeqEqual
<1> QED BY <1>1, <1>4, <1>9 DEF n, q, b, s

\* A Read takes what is at the front.
LEMMA ContentsRead ==
    ASSUME NEW p \in PipeType, RingOf(p), NEW m \in Nat, ~(p.bufferBytes = 0 /\ ~p.writer)
    PROVE  LET n == P!Min({m, p.bufferBytes}) IN
           /\ n \in 0..p.bufferBytes
           /\ P!Contents(P!ReadBytes(p, m))
                = SubSeq(P!Contents(p), n + 1, Len(P!Contents(p)))
<1> DEFINE n == P!Min({m, p.bufferBytes})
           q == P!ReadBytes(p, m)
           s == SubSeq(P!Contents(p), n + 1, Len(P!Contents(p)))
<1>1. /\ q \in PipeType /\ q.r_pos = P!next(p.r_pos, n)
      /\ n \in 0..p.bufferBytes /\ q.bufferBytes = p.bufferBytes - n
      /\ \A c \in P!Cells : q.cell[c] = IF P!Offset(p.r_pos, c) < n THEN 0 ELSE p.cell[c]
  BY ReadExact
<1>2. /\ p.bufferBytes \in 0..PIPE_BUFFER_SIZE /\ PIPE_BUFFER_SIZE \in Nat /\ p.r_pos \in P!Cells
  BY PipeAssumption DEF PipeType
<1> HIDE DEF n, q
<1>3. /\ P!Contents(p) \in Seq(Bytes) /\ Len(P!Contents(p)) = p.bufferBytes
      /\ \A i \in 1..p.bufferBytes : P!Contents(p)[i] = p.cell[P!next(p.r_pos, i - 1)]
  BY ContentsType
<1>4. /\ P!Contents(q) \in Seq(Bytes) /\ Len(P!Contents(q)) = p.bufferBytes - n
      /\ \A i \in 1..p.bufferBytes - n :
            P!Contents(q)[i] = q.cell[P!next(P!next(p.r_pos, n), i - 1)]
  BY <1>1, ContentsType
<1>5. /\ s \in Seq(Bytes) /\ Len(s) = p.bufferBytes - n
      /\ \A i \in 1..p.bufferBytes - n : s[i] = P!Contents(p)[n + i]
  BY <1>1, <1>2, <1>3
<1> HIDE DEF s
<1>6. ASSUME NEW i \in 1..p.bufferBytes - n PROVE P!Contents(q)[i] = s[i]
  <2> DEFINE c == P!next(p.r_pos, n + (i - 1))
  <2>1. /\ i - 1 \in 0..Ring - n /\ n \in 0..PIPE_BUFFER_SIZE
        /\ n + (i - 1) \in 0..PIPE_BUFFER_SIZE /\ n + i \in 1..p.bufferBytes
        /\ n + (i - 1) = (n + i) - 1 /\ ~(n + (i - 1) < n)
    BY <1>1, <1>2 DEF Ring
  <2>2. P!next(P!next(p.r_pos, n), i - 1) = c
    BY <1>2, <2>1, NextShift
  <2>3. c \in P!Cells /\ P!Offset(p.r_pos, c) = n + (i - 1)
    BY <1>2, <2>1, NextShift
  <2>4. P!Contents(p)[n + i] = p.cell[c]
    BY <1>3, <2>1
  <2> HIDE DEF c
  <2> QED BY <1>1, <1>4, <1>5, <2>1, <2>2, <2>3, <2>4
<1>7. P!Contents(q) = s
  BY <1>4, <1>5, <1>6, SeqEqual
<1> QED BY <1>1, <1>7 DEF n, q, s

\* How the ends of the pipe may change in a step on end e.
EndStep(e) == /\ pipe'.reader = pipe.reader \/ (e = "read" /\ pipe'.reader = FALSE)
              /\ pipe'.writer = pipe.writer \/ (e = "write" /\ pipe'.writer = FALSE)

LEMMA CloseIsClose ==
    ASSUME NEW e, EndStep(e), P!Contents(pipe') = P!Contents(pipe)
    PROVE  P!C!Close
BY DEF EndStep, P!C!Close, P!C!Closing

LEMMA DecrefEnds ==
    ASSUME NEW e \in P!Ends, NEW p \in PipeType, p.reader = pipe.reader, p.writer = pipe.writer,
           P!FCB_decref(e, p)
    PROVE  EndStep(e) /\ pipe'.bufferBytes = p.bufferBytes /\ P!Contents(pipe') = P!Contents(p)
<1>1. /\ \/ pipe' = p
         \/ e = "read" /\ pipe' = [p EXCEPT !.reader = FALSE, !.hasSpace = {}]
         \/ e = "write" /\ pipe' = [p EXCEPT !.writer = FALSE, !.freed = TRUE]
         \/ e = "write" /\ pipe' = [p EXCEPT !.writer = FALSE, !.hasData = {}]
  BY DEF P!FCB_decref, P!Closed, P!pipe_reader_close, P!pipe_writer_close, P!Ends
<1>2. /\ pipe'.cell = p.cell /\ pipe'.r_pos = p.r_pos /\ pipe'.bufferBytes = p.bufferBytes
      /\ EndStep(e)
  BY <1>1 DEF PipeType, EndStep
<1> QED BY <1>2 DEF P!Contents

\* The transfer of a Read or Write, which may be the last on its end.
LEMMA TransferStep ==
    ASSUME PipeInv, NEW e \in P!Ends, NEW arg \in ArgType(e), ~P!MustWait(e, pipe), refs[e] > 0,
           EndStep(e), P!Contents(pipe') = P!Contents(P!Transfer(e, arg, pipe))
    PROVE  P!C!Next
<1>0. pipe \in PipeType /\ RingOf(pipe) /\ EndsExact(pipe, refs)
  BY DEF PipeInv
<1>1. /\ P!Contents(pipe) \in Seq(Bytes) /\ Len(P!Contents(pipe)) = pipe.bufferBytes
      /\ pipe.bufferBytes \in 0..PIPE_BUFFER_SIZE
  BY <1>0, ContentsType
<1>2. CASE e = "read"
  <2>1. arg \in Nat /\ P!Contents(pipe') = P!Contents(P!ReadBytes(pipe, arg)) /\ pipe.reader
    BY <1>0, <1>2, PipeAssumption DEF ArgType, P!Transfer, EndsExact
  <2>2. CASE pipe.bufferBytes = 0 /\ ~pipe.writer
    BY <2>1, <2>2, CloseIsClose DEF P!ReadBytes, P!C!Next
  <2>3. CASE ~(pipe.bufferBytes = 0 /\ ~pipe.writer)
    <3> DEFINE n == P!Min({arg, pipe.bufferBytes})
               Q == P!Contents(pipe)
    <3>1. /\ n \in 0..pipe.bufferBytes
          /\ P!Contents(pipe') = SubSeq(Q, n + 1, Len(Q))
      BY <1>0, <2>1, <2>3, ContentsRead
    <3> HIDE DEF n
    <3>2. CASE n = 0
      <4>1. SubSeq(Q, n + 1, Len(Q)) = Q
        BY <1>1, <3>2
      <4> QED BY <3>1, <4>1, CloseIsClose DEF P!C!Next
    <3>3. CASE n # 0
      <4>1. n \in 1..Len(Q)
        BY <1>1, <3>1, <3>3
      <4>2. P!C!Closing(pipe.reader, pipe'.reader) /\ pipe'.writer = pipe.writer
        BY <1>2 DEF EndStep, P!C!Closing
      <4>3. P!C!Receive
        BY <2>1, <3>1, <4>1, <4>2 DEF P!C!Receive
      <4> QED BY <4>3 DEF P!C!Next
    <3> QED BY <3>2, <3>3
  <2> QED BY <2>2, <2>3
<1>3. CASE e = "write"
  <2>1. arg \in P!Buffers /\ P!Contents(pipe') = P!Contents(P!WriteBytes(pipe, arg)) /\ pipe.writer
    BY <1>0, <1>3 DEF ArgType, P!Transfer, EndsExact
  <2>2. CASE ~pipe.reader
    BY <2>1, <2>2, CloseIsClose DEF P!WriteBytes, P!C!Next
  <2>3. CASE pipe.reader
    <3> DEFINE n == P!Count(pipe, arg)
               b == [i \in 1..n |-> arg[i]]
               Q == P!Contents(pipe)
    <3>1. /\ n \in 0..PIPE_BUFFER_SIZE - pipe.bufferBytes /\ b \in [1..n -> Bytes]
          /\ P!Contents(pipe') = Q \o b
      BY <1>0, <2>1, <2>3, ContentsWrite
    <3> HIDE DEF n, b
    <3>2. CASE n = 0
      <4>1. b = <<>> /\ Q \o b = Q
        BY <1>1, <3>1, <3>2
      <4> QED BY <3>1, <4>1, CloseIsClose DEF P!C!Next
    <3>3. CASE n # 0
      <4>1. n \in 1..PIPE_BUFFER_SIZE - Len(Q)
        BY <1>1, <3>1, <3>3, PipeAssumption
      <4>2. P!C!Closing(pipe.writer, pipe'.writer) /\ pipe'.reader = pipe.reader
        BY <1>3 DEF EndStep, P!C!Closing
      <4>3. P!C!Send
        BY <2>1, <2>3, <3>1, <4>1, <4>2 DEF P!C!Send
      <4> QED BY <4>3 DEF P!C!Next
    <3> QED BY <3>2, <3>3
  <2> QED BY <2>2, <2>3
<1> QED BY <1>2, <1>3 DEF P!Ends

\* Going to sleep leaves the bytes and the ends as they are.
LEMMA SleepStep ==
    ASSUME pipe \in PipeType, NEW t, NEW e, pipe' = P!Sleep(t, e, pipe)
    PROVE  EndStep(e) /\ P!Contents(pipe') = P!Contents(pipe) /\ pipe'.bufferBytes = pipe.bufferBytes
<1>1. /\ pipe'.cell = pipe.cell /\ pipe'.r_pos = pipe.r_pos /\ pipe'.bufferBytes = pipe.bufferBytes
      /\ pipe'.reader = pipe.reader /\ pipe'.writer = pipe.writer
  BY DEF P!Sleep, PipeType
<1> QED BY <1>1 DEF P!Contents, EndStep

LEMMA ResumeFacts ==
    ASSUME PipeInv, NEW t \in Threads, P!Resume(t), NEW e, e = call[t].end
    PROVE  /\ e \in P!Ends /\ call[t].arg \in ArgType(e) /\ refs[e] > 0
           /\ ~P!MustWait(e, pipe) =>
                 LET p == P!Transfer(e, call[t].arg, pipe) IN
                 /\ P!FCB_decref(e, p) /\ p \in PipeType
                 /\ p.reader = pipe.reader /\ p.writer = pipe.writer
           /\ P!MustWait(e, pipe) => pipe' = P!Sleep(t, e, pipe) /\ call' = call
<1>1. call[t] \in CallType /\ call[t] # P!Idle
  BY DEF PipeInv, P!Resume, P!Awake
<1>2. e \in P!Ends /\ call[t].arg \in ArgType(e) /\ t \in Callers(call, e)
  BY <1>1 DEF CallType, ArgType, P!Ends, Callers
<1>3. refs[e] > 0
  <2>1. /\ refs[e] = fids[e] + Cardinality(Callers(call, e)) /\ fids[e] \in Nat
        /\ Cardinality(Callers(call, e)) \in Nat /\ Cardinality(Callers(call, e)) # 0
    BY <1>2, CallersCount, PipeAssumption DEF PipeInv, RefsExact
  <2> QED BY <2>1
<1>4. ASSUME ~P!MustWait(e, pipe)
      PROVE  LET p == P!Transfer(e, call[t].arg, pipe) IN
             /\ P!FCB_decref(e, p) /\ p \in PipeType
             /\ p.reader = pipe.reader /\ p.writer = pipe.writer
  <2>1. P!FCB_decref(e, P!Transfer(e, call[t].arg, pipe))
    BY <1>4 DEF P!Resume
  <2>2. pipe \in PipeType /\ RingOf(pipe) /\ WakeupOf(pipe)
    BY DEF PipeInv
  <2> QED BY <1>2, <1>4, <2>1, <2>2, TransferKeeps
<1>5. ASSUME P!MustWait(e, pipe) PROVE pipe' = P!Sleep(t, e, pipe) /\ call' = call
  BY <1>5 DEF P!Resume
<1> QED BY <1>2, <1>3, <1>4, <1>5

pvars == <<pipe, refs, fids, call>>

LEMMA ChannelStep == PipeInv /\ [P!Next]_pvars => [P!C!Next]_(P!C!vars)
<1> SUFFICES ASSUME PipeInv, [P!Next]_pvars PROVE P!C!Next \/ UNCHANGED P!C!vars
  OBVIOUS
<1>0. pipe \in PipeType
  BY DEF PipeInv
<1>1. CASE pipe' = pipe
  BY <1>1 DEF P!C!vars
<1>2. ASSUME NEW t \in Threads, NEW e \in P!Ends, NEW arg \in ArgType(e), P!Call(t, e, arg)
      PROVE  P!C!Next
  <2>1. refs[e] > 0
    <3>1. /\ refs[e] = fids[e] + Cardinality(Callers(call, e)) /\ fids[e] \in Nat /\ fids[e] > 0
          /\ Cardinality(Callers(call, e)) \in Nat
      BY <1>2, CallersCount, PipeAssumption DEF PipeInv, RefsExact, P!Call
    <3> QED BY <3>1
  <2>2. CASE P!MustWait(e, pipe)
    BY <1>0, <1>2, <2>2, SleepStep, CloseIsClose DEF P!Call, P!C!Next
  <2>3. CASE ~P!MustWait(e, pipe)
    <3>1. pipe' = P!Transfer(e, arg, pipe)
      BY <1>2, <2>3 DEF P!Call
    <3>2. EndStep(e)
      BY <1>2, <2>3, <3>1, TransferKeeps DEF PipeInv, EndStep
    <3> QED BY <1>2, <2>1, <2>3, <3>1, <3>2, TransferStep
  <2> QED BY <2>2, <2>3
<1>3. ASSUME NEW t \in Threads, P!Resume(t) PROVE P!C!Next
  <2> DEFINE e == call[t].end
             p == P!Transfer(e, call[t].arg, pipe)
  <2>1. /\ e \in P!Ends /\ call[t].arg \in ArgType(e) /\ refs[e] > 0
        /\ ~P!MustWait(e, pipe) => /\ P!FCB_decref(e, p) /\ p \in PipeType
                                   /\ p.reader = pipe.reader /\ p.writer = pipe.writer
        /\ P!MustWait(e, pipe) => pipe' = P!Sleep(t, e, pipe)
    BY <1>3, ResumeFacts
  <2> HIDE DEF e
  <2>2. CASE P!MustWait(e, pipe)
    BY <1>0, <2>1, <2>2, SleepStep, CloseIsClose DEF P!C!Next
  <2>3. CASE ~P!MustWait(e, pipe)
    <3>1. EndStep(e) /\ P!Contents(pipe') = P!Contents(p)
      <4> HIDE DEF p
      <4> QED BY <2>1, <2>3, DecrefEnds
    <3> QED BY <2>1, <2>3, <3>1, TransferStep
  <2> QED BY <2>2, <2>3
<1>4. ASSUME NEW e \in P!Ends, P!Close(e) PROVE P!C!Next
  BY <1>0, <1>4, DecrefEnds, CloseIsClose DEF P!Close, P!C!Next
<1>5. ASSUME NEW e \in P!Ends, P!Dup(e) PROVE UNCHANGED P!C!vars
  BY <1>1, <1>5 DEF P!Dup, P!C!vars
<1>6. ASSUME NEW t \in Threads, NEW n \in 0 .. MaxLen, P!Call(t, "read", n) PROVE P!C!Next
  BY <1>2, <1>6 DEF ArgType, P!Ends
<1>7. ASSUME NEW t \in Threads, NEW buf \in P!Buffers, P!Call(t, "write", buf) PROVE P!C!Next
  BY <1>2, <1>7 DEF ArgType, P!Ends
<1> QED BY <1>1, <1>3, <1>4, <1>5, <1>6, <1>7 DEF P!Next, pvars

\* A Read that returns after it has waited took something, or the write end is closed.
LEMMA EofStep ==
    ASSUME PipeInv, [P!Next]_pvars, NEW t \in Threads, call[t].end = "read", call[t].arg > 0,
           call'[t] = P!Idle
    PROVE  pipe'.bufferBytes < pipe.bufferBytes \/ ~pipe.writer
<1>0. call \in [Threads -> CallType] /\ pipe \in PipeType /\ RingOf(pipe) /\ call[t] # P!Idle
  BY DEF PipeInv, P!Idle
<1>1. P!Resume(t)
  <2>1. ASSUME NEW u \in Threads, NEW e, NEW arg, P!Call(u, e, arg) PROVE call'[t] = call[t]
    BY <1>0, <2>1 DEF P!Call
  <2>2. ASSUME NEW u \in Threads, P!Resume(u), u # t PROVE call'[t] = call[t]
    BY <1>0, <2>2 DEF P!Resume
  <2>3. ASSUME NEW e \in P!Ends, P!Close(e) \/ P!Dup(e) PROVE call'[t] = call[t]
    BY <2>3 DEF P!Close, P!Dup
  <2> QED BY <1>0, <2>1, <2>2, <2>3 DEF P!Next, pvars
<1>2. CASE pipe.writer
  <2> DEFINE p == P!Transfer("read", call[t].arg, pipe)
  <2>1. /\ call[t].arg \in ArgType("read") /\ "read" \in P!Ends
        /\ ~P!MustWait("read", pipe) => /\ P!FCB_decref("read", p) /\ p \in PipeType
                                        /\ p.reader = pipe.reader /\ p.writer = pipe.writer
        /\ P!MustWait("read", pipe) => call' = call
    BY <1>1, ResumeFacts
  <2>2. ~P!MustWait("read", pipe)
    BY <1>0, <2>1
  <2>3. pipe.bufferBytes > 0 /\ pipe.bufferBytes \in Nat
    BY <1>0, <1>2, <2>2, PipeAssumption DEF P!MustWait, P!MustWaitForData, PipeType
  <2>4. /\ p = P!ReadBytes(pipe, call[t].arg) /\ call[t].arg \in Nat
    BY <2>1, PipeAssumption DEF P!Transfer, ArgType
  <2>5. p.bufferBytes < pipe.bufferBytes
    <3> DEFINE n == P!Min({call[t].arg, pipe.bufferBytes})
    <3>1. /\ n \in 0..pipe.bufferBytes /\ p.bufferBytes = pipe.bufferBytes - n
          /\ call[t].arg > 0 /\ pipe.bufferBytes > 0 => n > 0
      BY <1>0, <1>2, <2>4, ReadExact
    <3> HIDE DEF n, p
    <3> QED BY <2>3, <3>1
  <2> HIDE DEF p
  <2>6. pipe'.bufferBytes = p.bufferBytes
    BY <2>1, <2>2, DecrefEnds
  <2> QED BY <2>5, <2>6
<1> QED BY <1>2

(***************************************************************************)
(* A pipe of any size, with any number of readers and writers, is a        *)
(* bounded first-in first-out channel: every byte written is read once and *)
(* in order, over reads and writes that wait, closes and duplications; and *)
(* a Read that had to wait reports the end of the file only when the write *)
(* end is closed.                                                          *)
(***************************************************************************)
THEOREM PipeImplementsChannel == MCSpec => PipeIsChannel
<1>1. P!Init => P!C!Init
  BY DEF P!Init, P!pipe_init, P!C!Init, P!Contents
<1>2. [MCNext]_allvars => [P!Next]_pvars
  BY DEF MCNext, allvars, pvars
<1>3. MCSpec => P!C!Init /\ [][P!C!Next]_(P!C!vars)
  <2>1. MCInit => P!C!Init
    BY <1>1 DEF MCInit
  <2> QED BY <1>2, <2>1, ChannelStep, PipeInvSafe, PTL DEF MCSpec
<1> DEFINE NoEof == \A t \in Threads :
        (call[t].end = "read" /\ call[t].arg > 0 /\ call'[t] = P!Idle) =>
            (pipe'.bufferBytes < pipe.bufferBytes \/ ~pipe.writer)
<1>4. PipeInv /\ [P!Next]_pvars => [NoEof]_(P!vars)
  BY EofStep
<1>5. MCSpec => [][NoEof]_(P!vars)
  BY <1>2, <1>4, PipeInvSafe, PTL DEF MCSpec
<1> QED BY <1>3, <1>5 DEF PipeIsChannel, P!ImplementsChannel, P!C!Spec, P!NoFalseEof

-----------------------------------------------------------------------------
(***************************************************************************)
(* The file table of the legacy kernel, for every size of its tables.  An  *)
(* FCB is in the free list exactly when no descriptor names it and no call *)
(* uses it; what the reference count is then does not matter, since        *)
(* acquire_FCB sets it.  The parts are operators on the state, so that one *)
(* lemma on counts serves every call.                                      *)
(***************************************************************************)
Kinds == {"none", "device", "absent", "reader", "writer"}

OldType ==
    /\ alive \subseteq Procs
    /\ FIDT \in [Procs -> [Old!Fids -> FCBs \cup {0}]]
    /\ opened \in [Procs -> [Old!Fids -> Kinds]]
    /\ refcount \in [FCBs -> Int] /\ stream \in [FCBs -> Kinds]
    /\ freelist \in Seq(FCBs)
    /\ using \in [Procs -> [ProcThreads -> [fcb : FCBs \cup {0}, stream : Kinds]]]

\* The descriptors that name FCB b and the calls that use it.
Desc(fd, b) == {d \in Procs \X Old!Fids : fd[d[1]][d[2]] = b}
Fly(us, b)  == {u \in Procs \X ProcThreads : us[u[1]][u[2]].fcb = b}
Uses(fd, us, b) == Cardinality(Desc(fd, b)) + Cardinality(Fly(us, b))

FidTables == [Procs -> [Old!Fids -> FCBs \cup {0}]]
UseTables == [Procs -> [ProcThreads -> [fcb : FCBs \cup {0}, stream : Kinds]]]
SetFid(fd, p, f, c) == [fd EXCEPT ![p][f] = c]
SetUse(us, p, t, e) == [us EXCEPT ![p][t] = e]

\* FCB up has a use more and FCB down one less; and the same of the counts.
Moves(fd, us, fn, un, up, down) == \A b \in FCBs :
    Uses(fn, un, b) = Uses(fd, us, b) + (IF b = up THEN 1 ELSE IF b = down THEN -1 ELSE 0)
Counts(rc, rn, up, down) == \A b \in FCBs :
    rn[b] = rc[b] + (IF b = up THEN 1 ELSE IF b = down THEN -1 ELSE 0)

CountOK(fd, us, rc, fl) ==
    /\ Once(fl)
    /\ \A b \in FCBs : /\ Has(fl, b) <=> Uses(fd, us, b) = 0
                       /\ Uses(fd, us, b) > 0 => rc[b] = Uses(fd, us, b)

OldKept ==
    /\ \A p \in Procs, t \in ProcThreads :
        /\ using[p][t] = Old!NoUse \/ using[p][t].fcb # 0
        /\ using[p][t].fcb # 0 => stream[using[p][t].fcb] = using[p][t].stream
    /\ \A p \in Procs, f \in Old!Fids : FIDT[p][f] # 0 => stream[FIDT[p][f]] = opened[p][f]

\* A process that does not run has no descriptor and is in no call.
OldGone == \A p \in Procs \ alive :
    /\ \A f \in Old!Fids : FIDT[p][f] = 0
    /\ \A t \in ProcThreads : using[p][t] = Old!NoUse

OldInv == OldType /\ CountOK(FIDT, using, refcount, freelist) /\ OldKept /\ OldGone

LEMMA OldIs ==
    /\ Old!FCBs = FCBs /\ Old!NULL = 0 /\ 0 \notin FCBs
    /\ Old!NoUse = [fcb |-> 0, stream |-> "none"] /\ Old!NoUse.fcb = 0
    /\ Old!NoUse \in [fcb : FCBs \cup {0}, stream : Kinds]
    /\ IsFiniteSet(Old!Fids) /\ Old!Fids \subseteq Nat /\ MAX_FILES \in Nat
<1>1. MaxOldFids \in Nat /\ IsFiniteSet(0 .. MaxOldFids - 1)
  BY OldAssumption, FS_Interval
<1> QED BY <1>1, StreamsAssumption DEF Old!FCBs, FCBs, Old!NULL, Old!NoUse, Old!Fids, Kinds

LEMMA UsesType ==
    ASSUME NEW fd, NEW us, NEW b
    PROVE  /\ IsFiniteSet(Desc(fd, b)) /\ IsFiniteSet(Fly(us, b))
           /\ Cardinality(Desc(fd, b)) \in Nat /\ Cardinality(Fly(us, b)) \in Nat
           /\ Uses(fd, us, b) \in Nat
           /\ Uses(fd, us, b) = 0 <=> Desc(fd, b) = {} /\ Fly(us, b) = {}
<1>1. IsFiniteSet(Procs \X Old!Fids) /\ IsFiniteSet(Procs \X ProcThreads)
  BY OldAssumption, OldIs, FS_Product
<1>2. Desc(fd, b) \in SUBSET (Procs \X Old!Fids) /\ Fly(us, b) \in SUBSET (Procs \X ProcThreads)
  BY DEF Desc, Fly
<1>3. IsFiniteSet(Desc(fd, b)) /\ IsFiniteSet(Fly(us, b))
  BY <1>1, <1>2, FS_Subset
<1>4. Cardinality(Desc(fd, b)) \in Nat /\ Cardinality(Fly(us, b)) \in Nat
  BY <1>3, FS_CardinalityType
<1>5. /\ Cardinality(Desc(fd, b)) = 0 <=> Desc(fd, b) = {}
      /\ Cardinality(Fly(us, b)) = 0 <=> Fly(us, b) = {}
  BY <1>3, FS_EmptySet
<1> QED BY <1>3, <1>4, <1>5 DEF Uses

\* A descriptor is written: c is what it names from now on.
LEMMA WriteFid ==
    ASSUME NEW fd \in FidTables, NEW us,
           NEW p \in Procs, NEW f \in Old!Fids, NEW c \in FCBs \cup {0}, fd[p][f] # c
    PROVE  /\ SetFid(fd, p, f, c) \in FidTables
           /\ Moves(fd, us, SetFid(fd, p, f, c), us, c, fd[p][f])
<1> DEFINE x == <<p, f>>
           fn == SetFid(fd, p, f, c)
<1>1. /\ fn \in FidTables
      /\ \A q \in Procs, g \in Old!Fids : fn[q][g] = IF q = p /\ g = f THEN c ELSE fd[q][g]
  BY DEF FidTables, SetFid
<1> HIDE DEF fn
<1>2. ASSUME NEW b \in FCBs
      PROVE  /\ Desc(fn, b) = IF b = c THEN Desc(fd, b) \cup {x} ELSE Desc(fd, b) \ {x}
             /\ x \in Desc(fd, b) <=> b = fd[p][f]
  BY <1>1 DEF Desc
<1>3. ASSUME NEW b \in FCBs
      PROVE  Uses(fn, us, b) =
                Uses(fd, us, b) + (IF b = c THEN 1 ELSE IF b = fd[p][f] THEN -1 ELSE 0)
  <2> HIDE DEF x
  <2>1. /\ IsFiniteSet(Desc(fd, b)) /\ Cardinality(Desc(fd, b)) \in Nat
        /\ Cardinality(Fly(us, b)) \in Nat
        /\ Uses(fd, us, b) \in Nat /\ (x \in Desc(fd, b) => Uses(fd, us, b) # 0)
    BY UsesType
  <2>2. /\ Cardinality(Desc(fd, b) \cup {x}) =
             IF x \in Desc(fd, b) THEN Cardinality(Desc(fd, b)) ELSE Cardinality(Desc(fd, b)) + 1
        /\ Cardinality(Desc(fd, b) \ {x}) =
             IF x \in Desc(fd, b) THEN Cardinality(Desc(fd, b)) - 1 ELSE Cardinality(Desc(fd, b))
    BY <2>1, FS_AddElement, FS_RemoveElement
  <2>3. CASE b = c
    <3>1. Desc(fn, b) = Desc(fd, b) \cup {x} /\ x \notin Desc(fd, b)
      BY <1>2, <2>3
    <3>2. Cardinality(Desc(fn, b)) = Cardinality(Desc(fd, b)) + 1
      BY <2>2, <3>1
    <3> QED BY <2>1, <2>3, <3>2 DEF Uses
  <2>4. CASE b # c /\ b = fd[p][f]
    <3>1. Desc(fn, b) = Desc(fd, b) \ {x} /\ x \in Desc(fd, b)
      BY <1>2, <2>4
    <3>2. Cardinality(Desc(fn, b)) = Cardinality(Desc(fd, b)) - 1
      BY <2>2, <3>1
    <3> QED BY <2>1, <2>4, <3>1, <3>2 DEF Uses
  <2>5. CASE b # c /\ b # fd[p][f]
    <3>1. Desc(fn, b) = Desc(fd, b) \ {x} /\ x \notin Desc(fd, b)
      BY <1>2, <2>5
    <3>2. Cardinality(Desc(fn, b)) = Cardinality(Desc(fd, b))
      BY <2>2, <3>1
    <3> QED BY <2>1, <2>5, <3>2 DEF Uses
  <2> QED BY <2>3, <2>4, <2>5
<1> QED BY <1>1, <1>3 DEF Moves, fn

\* A thread begins or ends a call.
LEMMA WriteUse ==
    ASSUME NEW us \in UseTables, NEW fd, NEW p \in Procs, NEW t \in ProcThreads,
           NEW e \in [fcb : FCBs \cup {0}, stream : Kinds], us[p][t].fcb # e.fcb
    PROVE  /\ SetUse(us, p, t, e) \in UseTables
           /\ Moves(fd, us, fd, SetUse(us, p, t, e), e.fcb, us[p][t].fcb)
<1> DEFINE x == <<p, t>>
           un == SetUse(us, p, t, e)
<1>1. /\ un \in UseTables
      /\ \A q \in Procs, g \in ProcThreads : un[q][g] = IF q = p /\ g = t THEN e ELSE us[q][g]
  BY DEF UseTables, SetUse
<1> HIDE DEF un
<1>2. ASSUME NEW b \in FCBs
      PROVE  /\ Fly(un, b) = IF b = e.fcb THEN Fly(us, b) \cup {x} ELSE Fly(us, b) \ {x}
             /\ x \in Fly(us, b) <=> b = us[p][t].fcb
  BY <1>1 DEF Fly
<1>3. ASSUME NEW b \in FCBs
      PROVE  Uses(fd, un, b) =
                Uses(fd, us, b) + (IF b = e.fcb THEN 1 ELSE IF b = us[p][t].fcb THEN -1 ELSE 0)
  <2> HIDE DEF x
  <2>1. /\ IsFiniteSet(Fly(us, b)) /\ Cardinality(Fly(us, b)) \in Nat
        /\ Cardinality(Desc(fd, b)) \in Nat
        /\ Uses(fd, us, b) \in Nat /\ (x \in Fly(us, b) => Uses(fd, us, b) # 0)
    BY UsesType
  <2>2. /\ Cardinality(Fly(us, b) \cup {x}) =
             IF x \in Fly(us, b) THEN Cardinality(Fly(us, b)) ELSE Cardinality(Fly(us, b)) + 1
        /\ Cardinality(Fly(us, b) \ {x}) =
             IF x \in Fly(us, b) THEN Cardinality(Fly(us, b)) - 1 ELSE Cardinality(Fly(us, b))
    BY <2>1, FS_AddElement, FS_RemoveElement
  <2>3. CASE b = e.fcb
    <3>1. Fly(un, b) = Fly(us, b) \cup {x} /\ x \notin Fly(us, b)
      BY <1>2, <2>3
    <3>2. Cardinality(Fly(un, b)) = Cardinality(Fly(us, b)) + 1
      BY <2>2, <3>1
    <3>3. b # us[p][t].fcb
      BY <2>3
    <3>4. Uses(fd, un, b) = Uses(fd, us, b) + 1
      BY <2>1, <3>2 DEF Uses
    <3> QED BY <2>3, <3>3, <3>4
  <2>4. CASE b # e.fcb /\ b = us[p][t].fcb
    <3>1. Fly(un, b) = Fly(us, b) \ {x} /\ x \in Fly(us, b)
      BY <1>2, <2>4
    <3>2. Cardinality(Fly(un, b)) = Cardinality(Fly(us, b)) - 1
      BY <2>2, <3>1
    <3> QED BY <2>1, <2>4, <3>1, <3>2 DEF Uses
  <2>5. CASE b # e.fcb /\ b # us[p][t].fcb
    <3>1. Fly(un, b) = Fly(us, b) \ {x} /\ x \notin Fly(us, b)
      BY <1>2, <2>5
    <3>2. Cardinality(Fly(un, b)) = Cardinality(Fly(us, b))
      BY <2>2, <3>1
    <3> QED BY <2>1, <2>5, <3>2 DEF Uses
  <2> QED BY <2>3, <2>4, <2>5
<1> QED BY <1>1, <1>3 DEF Moves, un

\* One more use of an FCB that is in use.
LEMMA CountUp ==
    ASSUME NEW fd, NEW us, NEW fn, NEW un, NEW fl, NEW c \in FCBs,
           NEW rc \in [FCBs -> Int], NEW rn, CountOK(fd, us, rc, fl), Uses(fd, us, c) > 0,
           Moves(fd, us, fn, un, c, 0), Counts(rc, rn, c, 0)
    PROVE  CountOK(fn, un, rn, fl)
<1>1. \A b \in FCBs : Uses(fd, us, b) \in Nat /\ rc[b] \in Int /\ b # 0
  BY UsesType, OldIs
<1> QED BY <1>1 DEF CountOK, Moves, Counts

\* FCB_decref, where a use has ended.
Freed(rc, fl, c) == IF rc[c] = 1 THEN Old!release_FCB(fl, c) ELSE fl

LEMMA CountDown ==
    ASSUME NEW fd, NEW us, NEW fn, NEW un, NEW fl \in Seq(FCBs), NEW c \in FCBs,
           NEW rc \in [FCBs -> Int], NEW rn, CountOK(fd, us, rc, fl), Uses(fd, us, c) > 0,
           Moves(fd, us, fn, un, 0, c), Counts(rc, rn, 0, c)
    PROVE  CountOK(fn, un, rn, Freed(rc, fl, c)) /\ Freed(rc, fl, c) \in Seq(FCBs)
<1>1. \A b \in FCBs : Uses(fd, us, b) \in Nat /\ rc[b] \in Int /\ b # 0
  BY UsesType, OldIs
<1>2. ~Has(fl, c) /\ rc[c] = Uses(fd, us, c) /\ Once(fl)
  BY <1>1 DEF CountOK
<1>3. Old!release_FCB(fl, c) = Append(fl, c)
  <2>1. DOMAIN fl = 1 .. Len(fl)
    OBVIOUS
  <2> QED BY <1>2, <2>1 DEF Old!release_FCB, Has, Old!Contains
<1>4. /\ Append(fl, c) \in Seq(FCBs) /\ Once(Append(fl, c))
      /\ \A u : Has(Append(fl, c), u) <=> Has(fl, u) \/ u = c
  BY <1>2, AppendOnce
<1>5. CASE rc[c] = 1
  BY <1>1, <1>2, <1>3, <1>4, <1>5 DEF CountOK, Moves, Counts, Freed
<1>6. CASE rc[c] # 1
  BY <1>1, <1>2, <1>6 DEF CountOK, Moves, Counts, Freed
<1> QED BY <1>5, <1>6

LEMMA NamedUsed ==
    ASSUME NEW fd, NEW us, NEW p \in Procs, NEW b
    PROVE  /\ \A f \in Old!Fids : fd[p][f] = b => Uses(fd, us, b) > 0
           /\ \A t \in ProcThreads : us[p][t].fcb = b => Uses(fd, us, b) > 0
<1>1. Uses(fd, us, b) \in Nat /\ (Uses(fd, us, b) = 0 => Desc(fd, b) = {} /\ Fly(us, b) = {})
  BY UsesType
<1>2. ASSUME NEW f \in Old!Fids, fd[p][f] = b PROVE <<p, f>> \in Desc(fd, b)
  BY <1>2 DEF Desc
<1>3. ASSUME NEW t \in ProcThreads, us[p][t].fcb = b PROVE <<p, t>> \in Fly(us, b)
  BY <1>3 DEF Fly
<1>4. Desc(fd, b) # {} \/ Fly(us, b) # {} => Uses(fd, us, b) > 0
  BY <1>1
<1> QED BY <1>2, <1>3, <1>4

\* sys_Read and sys_Write up to the stream: the FCB has a use more.
LEMMA OldBegin ==
    ASSUME OldInv, NEW p \in Procs, NEW t \in ProcThreads, NEW f \in Old!Fids,
           Old!Idle(p, t), Old!Begin(p, t, f)
    PROVE  OldInv'
<1> DEFINE b == FIDT[p][f]
           e == [fcb |-> b, stream |-> stream[b]]
<1>1. /\ b # 0 /\ refcount' = [refcount EXCEPT ![b] = refcount[b] + 1]
      /\ using' = SetUse(using, p, t, e)
      /\ alive' = alive /\ FIDT' = FIDT /\ stream' = stream /\ freelist' = freelist /\ opened' = opened
      /\ p \in alive /\ using[p][t] = Old!NoUse
  BY OldIs DEF Old!Begin, Old!Idle, SetUse
<1>2. /\ b \in FCBs /\ stream[b] \in Kinds /\ refcount \in [FCBs -> Int] /\ refcount[b] \in Int
      /\ using \in UseTables
  BY <1>1 DEF OldInv, OldType, UseTables
<1>3. /\ e \in [fcb : FCBs \cup {0}, stream : Kinds] /\ e.fcb = b /\ e.stream = stream[b]
      /\ using[p][t].fcb = 0 /\ using[p][t].fcb # e.fcb
  BY <1>1, <1>2, OldIs
<1>4. Uses(FIDT, using, b) > 0
  BY NamedUsed
<1> HIDE DEF b, e
<1>5. using' \in UseTables /\ Moves(FIDT, using, FIDT, using', e.fcb, using[p][t].fcb)
  BY <1>1, <1>2, <1>3, WriteUse
<1>6. \A c \in FCBs : c # 0
  BY OldIs
<1>7. Moves(FIDT, using, FIDT', using', b, 0)
  BY <1>1, <1>3, <1>5
<1>8. refcount' \in [FCBs -> Int] /\ Counts(refcount, refcount', b, 0)
  BY <1>1, <1>2, <1>6 DEF Counts
<1>9. CountOK(FIDT', using', refcount', freelist')
  <2>1. CountOK(FIDT', using', refcount', freelist)
    BY <1>2, <1>4, <1>7, <1>8, CountUp DEF OldInv
  <2> QED BY <1>1, <2>1
<1>10. OldType'
  BY <1>1, <1>5, <1>8 DEF OldInv, OldType, UseTables
<1>11. \A q \in Procs, u \in ProcThreads : using'[q][u] = IF q = p /\ u = t THEN e ELSE using[q][u]
  BY <1>1, <1>2 DEF UseTables, SetUse
<1>12. OldKept'
  BY <1>1, <1>2, <1>3, <1>6, <1>11 DEF OldInv, OldKept
<1>13. OldGone'
  BY <1>1, <1>11 DEF OldInv, OldGone
<1> QED BY <1>9, <1>10, <1>12, <1>13 DEF OldInv

\* The call returns.
LEMMA OldEnd ==
    ASSUME OldInv, NEW p \in Procs, NEW t \in ProcThreads, Old!End(p, t)
    PROVE  OldInv'
<1> DEFINE b == using[p][t].fcb
           e == Old!NoUse
<1>1. /\ using[p][t] # e /\ refcount' = [refcount EXCEPT ![b] = refcount[b] - 1]
      /\ freelist' = Freed(refcount, freelist, b)
      /\ using' = SetUse(using, p, t, e)
      /\ alive' = alive /\ FIDT' = FIDT /\ stream' = stream /\ opened' = opened
  BY DEF Old!End, Old!FCB_decref, Freed, SetUse
<1>2. b # 0 /\ refcount \in [FCBs -> Int] /\ freelist \in Seq(FCBs)
  BY <1>1 DEF OldInv, OldType, OldKept
<1>3. /\ using \in UseTables
      /\ using[p][t] \in [fcb : FCBs \cup {0}, stream : Kinds]
  BY DEF OldInv, OldType, UseTables
<1>4. b \in FCBs /\ refcount[b] \in Int
  BY <1>2, <1>3
<1>5. e \in [fcb : FCBs \cup {0}, stream : Kinds] /\ e.fcb = 0 /\ b # e.fcb
  BY <1>2, OldIs
<1> HIDE DEF e
<1>6. using' \in UseTables /\ Moves(FIDT, using, FIDT, using', e.fcb, using[p][t].fcb)
  BY <1>1, <1>3, <1>5, WriteUse
<1>7. Uses(FIDT, using, b) > 0
  BY NamedUsed
<1> HIDE DEF b
<1>8. Moves(FIDT, using, FIDT', using', 0, b)
  BY <1>1, <1>5, <1>6 DEF b
<1>9. refcount' \in [FCBs -> Int] /\ Counts(refcount, refcount', 0, b)
  BY <1>1, <1>2, <1>4, OldIs DEF Counts
<1>10. CountOK(FIDT', using', refcount', freelist') /\ freelist' \in Seq(FCBs)
  <2>1. CountOK(FIDT, using, refcount, freelist)
    BY DEF OldInv
  <2> QED BY <1>1, <1>2, <1>4, <1>7, <1>8, <1>9, <2>1, CountDown
<1>11. OldType'
  BY <1>1, <1>6, <1>9, <1>10 DEF OldInv, OldType, UseTables
<1>12. \A q \in Procs, u \in ProcThreads : using'[q][u] = IF q = p /\ u = t THEN e ELSE using[q][u]
  BY <1>1, <1>3 DEF UseTables, SetUse
<1>13. OldKept'
  BY <1>1, <1>5, <1>12 DEF OldInv, OldKept, e
<1>14. OldGone'
  BY <1>1, <1>12 DEF OldInv, OldGone, e
<1> QED BY <1>10, <1>11, <1>13, <1>14 DEF OldInv

LEMMA OldClose ==
    ASSUME OldInv, NEW p \in Procs, NEW f \in Old!Fids, Old!sys_Close(p, f)
    PROVE  OldInv'
<1> DEFINE b == FIDT[p][f]
<1>1. /\ b # 0 /\ refcount' = [refcount EXCEPT ![b] = refcount[b] - 1]
      /\ freelist' = Freed(refcount, freelist, b)
      /\ FIDT' = SetFid(FIDT, p, f, 0) /\ opened' = [opened EXCEPT ![p][f] = "none"]
      /\ alive' = alive /\ stream' = stream /\ using' = using
  BY OldIs DEF Old!sys_Close, Old!FCB_decref, Freed, SetFid
<1>2. /\ b \in FCBs /\ refcount \in [FCBs -> Int] /\ refcount[b] \in Int /\ freelist \in Seq(FCBs)
      /\ FIDT \in FidTables
      /\ opened \in [Procs -> [Old!Fids -> Kinds]]
  BY <1>1 DEF OldInv, OldType, FidTables
<1>3. FIDT' \in FidTables /\ Moves(FIDT, using, FIDT', using, 0, b)
  BY <1>1, <1>2, WriteFid
<1>4. Uses(FIDT, using, b) > 0
  BY NamedUsed
<1> HIDE DEF b
<1>5. Moves(FIDT, using, FIDT', using', 0, b)
  BY <1>1, <1>3
<1>6. refcount' \in [FCBs -> Int] /\ Counts(refcount, refcount', 0, b)
  BY <1>1, <1>2, OldIs DEF Counts
<1>7. CountOK(FIDT', using', refcount', freelist') /\ freelist' \in Seq(FCBs)
  <2>1. CountOK(FIDT, using, refcount, freelist)
    BY DEF OldInv
  <2> QED BY <1>1, <1>2, <1>4, <1>5, <1>6, <2>1, CountDown
<1>8. opened' \in [Procs -> [Old!Fids -> Kinds]]
  BY <1>1, <1>2 DEF Kinds
<1>9. OldType'
  BY <1>1, <1>3, <1>6, <1>7, <1>8 DEF OldInv, OldType, FidTables
<1>10. \A q \in Procs, g \in Old!Fids : /\ FIDT'[q][g] = IF q = p /\ g = f THEN 0 ELSE FIDT[q][g]
                                        /\ ~(q = p /\ g = f) => opened'[q][g] = opened[q][g]
  BY <1>1, <1>2 DEF FidTables, SetFid
<1>11. OldKept'
  BY <1>1, <1>10 DEF OldInv, OldKept
<1>12. OldGone'
  BY <1>1, <1>10 DEF OldInv, OldGone
<1> QED BY <1>7, <1>9, <1>11, <1>12 DEF OldInv

\* A new descriptor for the FCB of another: what it named is dropped first.
LEMMA OldDup2 ==
    ASSUME OldInv, NEW p \in Procs, NEW f \in Old!Fids, NEW g \in Old!Fids,
           p \in alive, Old!sys_Dup2(p, f, g)
    PROVE  OldInv'
<1> DEFINE a == FIDT[p][f]
           b == FIDT[p][g]
           fd == SetFid(FIDT, p, g, 0)
           rc == [c \in FCBs |-> refcount[c] + (IF c = b THEN -1 ELSE 0)]
<1>1. /\ a # 0 /\ a # b
      /\ refcount' = [c \in FCBs |-> refcount[c] + (IF c = a THEN 1 ELSE IF c = b THEN -1 ELSE 0)]
      /\ freelist' = IF b # 0 THEN Freed(refcount, freelist, b) ELSE freelist
      /\ FIDT' = SetFid(FIDT, p, g, a) /\ opened' = [opened EXCEPT ![p][g] = opened[p][f]]
      /\ alive' = alive /\ stream' = stream /\ using' = using
  BY OldIs DEF Old!sys_Dup2, Freed, SetFid
<1>2. /\ a \in FCBs /\ b \in FCBs \cup {0} /\ refcount \in [FCBs -> Int] /\ freelist \in Seq(FCBs)
      /\ FIDT \in FidTables /\ opened \in [Procs -> [Old!Fids -> Kinds]]
  BY <1>1 DEF OldInv, OldType, FidTables
<1>3. 0 \notin FCBs
  BY OldIs
<1>4. FIDT' \in FidTables /\ Moves(FIDT, using, FIDT', using, a, b)
  BY <1>1, <1>2, WriteFid
<1>5. Uses(FIDT, using, a) > 0 /\ Uses(FIDT, using, b) > 0
  BY NamedUsed
<1>6. rc \in [FCBs -> Int]
  BY <1>2
<1>7. refcount' \in [FCBs -> Int] /\ Counts(refcount, refcount', a, b)
  BY <1>1, <1>2 DEF Counts
<1>8. \A q \in Procs, h \in Old!Fids :
          /\ FIDT'[q][h] = IF q = p /\ h = g THEN a ELSE FIDT[q][h]
          /\ opened'[q][h] = IF q = p /\ h = g THEN opened[p][f] ELSE opened[q][h]
  BY <1>1, <1>2 DEF FidTables, SetFid
<1>9. stream[a] = opened[p][f]
  BY <1>1 DEF OldInv, OldKept
<1>10. b # 0 => fd \in FidTables /\ Moves(FIDT, using, fd, using, 0, b)
  BY <1>2, WriteFid
<1> HIDE DEF a, b, fd
<1>11. CountOK(FIDT', using', refcount', freelist') /\ freelist' \in Seq(FCBs)
  <2>1. CountOK(FIDT, using, refcount, freelist) /\ \A c \in FCBs : Uses(FIDT, using, c) \in Nat
    BY UsesType DEF OldInv
  <2>2. CASE b = 0
    <3>1. CountOK(FIDT', using, refcount', freelist)
      BY <1>2, <1>4, <1>5, <1>7, <2>1, <2>2, CountUp
    <3> QED BY <1>1, <1>2, <2>2, <3>1
  <2>3. CASE b \in FCBs
    <3>1. freelist' = Freed(refcount, freelist, b) /\ Moves(FIDT, using, fd, using, 0, b)
      BY <1>1, <1>3, <1>10, <2>3
    <3>2. Counts(refcount, rc, 0, b)
      BY <1>2, <1>3 DEF Counts
    <3>3. \A c \in FCBs : refcount'[c] = rc[c] + (IF c = a THEN 1 ELSE 0)
      BY <1>1, <1>2
    <3> HIDE DEF rc
    <3>4. CountOK(fd, using, rc, freelist') /\ freelist' \in Seq(FCBs)
      BY <1>2, <1>5, <2>1, <2>3, <3>1, <3>2, CountDown
    <3>5. Moves(fd, using, FIDT', using, a, 0)
      <4> SUFFICES ASSUME NEW c \in FCBs
                   PROVE  Uses(FIDT', using, c) = Uses(fd, using, c) + (IF c = a THEN 1 ELSE 0)
        BY <1>3 DEF Moves
      <4>1. /\ Uses(FIDT', using, c) =
                  Uses(FIDT, using, c) + (IF c = a THEN 1 ELSE IF c = b THEN -1 ELSE 0)
            /\ Uses(fd, using, c) = Uses(FIDT, using, c) + (IF c = b THEN -1 ELSE 0)
        BY <1>3, <1>4, <3>1 DEF Moves
      <4> QED BY <1>1, <2>1, <4>1
    <3>6. Uses(fd, using, a) > 0
      <4>1. Uses(fd, using, a) = Uses(FIDT, using, a) + 0
        BY <1>1, <1>2, <1>3, <3>1 DEF Moves
      <4> QED BY <1>2, <1>5, <2>1, <4>1
    <3>7. Counts(rc, refcount', a, 0)
      BY <1>3, <3>3 DEF Counts
    <3>8. CountOK(FIDT', using, refcount', freelist')
      BY <1>2, <1>6, <3>4, <3>5, <3>6, <3>7, CountUp
    <3> QED BY <1>1, <3>4, <3>8
  <2> QED BY <1>2, <2>2, <2>3
<1>12. opened' \in [Procs -> [Old!Fids -> Kinds]]
  BY <1>1, <1>2
<1>13. OldType'
  BY <1>1, <1>4, <1>7, <1>11, <1>12 DEF OldInv, OldType, FidTables
<1>14. OldKept'
  BY <1>1, <1>8, <1>9 DEF OldInv, OldKept
<1>15. OldGone'
  BY <1>1, <1>8 DEF OldInv, OldGone
<1> QED BY <1>11, <1>13, <1>14, <1>15 DEF OldInv

\* What the free list holds stays, and so do the counts of what it does not hold.
LEMMA CountSame ==
    ASSUME NEW fd, NEW us, NEW rc, NEW rn, NEW fl, NEW fn, CountOK(fd, us, rc, fl), Once(fn),
           \A b \in FCBs : (Has(fn, b) <=> Has(fl, b)) /\ (~Has(fl, b) => rn[b] = rc[b])
    PROVE  CountOK(fd, us, rn, fn)
<1>1. \A b \in FCBs : Uses(fd, us, b) \in Nat
  BY UsesType
<1> QED BY <1>1 DEF CountOK

\* device_open fails: the FCB goes to the end of the list.
LEMMA OldOpenFails ==
    ASSUME OldInv, NEW p \in Procs, NEW s \in Old!Opens, Old!OpenFails(p, s)
    PROVE  OldInv'
<1> DEFINE b == Head(freelist)
<1>1. /\ refcount' = [refcount EXCEPT ![b] = 1] /\ freelist' = Append(Tail(freelist), b)
      /\ UNCHANGED <<alive, FIDT, stream, using, opened>>
      /\ Len(freelist) >= 1
  <2>1. s = <<"absent">>
    BY DEF Old!OpenFails, Old!Exists
  <2> QED BY <2>1 DEF Old!OpenFails, Old!FoundAll
<1>2. freelist \in Seq(FCBs) /\ refcount \in [FCBs -> Int]
  BY DEF OldInv, OldType
<1>3. freelist # <<>> /\ Once(freelist)
  BY <1>1, <1>2 DEF OldInv, CountOK
<1>4. /\ b \in FCBs /\ Has(freelist, b) /\ Tail(freelist) \in Seq(FCBs) /\ Once(Tail(freelist))
      /\ \A u : Has(Tail(freelist), u) <=> Has(freelist, u) /\ u # b
  BY <1>2, <1>3, TailOnce
<1> HIDE DEF b
<1>5. /\ freelist' \in Seq(FCBs) /\ Once(freelist')
      /\ \A u : Has(freelist', u) <=> Has(Tail(freelist), u) \/ u = b
  BY <1>1, <1>4, AppendOnce
<1>6. refcount' \in [FCBs -> Int] /\ \A c \in FCBs : c # b => refcount'[c] = refcount[c]
  <2>1. refcount' = [refcount EXCEPT ![b] = 1]
    BY <1>1
  <2> QED BY <1>2, <1>4, <2>1
<1>7. \A c \in FCBs : /\ Has(freelist', c) <=> Has(freelist, c)
                      /\ ~Has(freelist, c) => refcount'[c] = refcount[c]
  BY <1>4, <1>5, <1>6
<1>8. CountOK(FIDT, using, refcount', freelist')
  BY <1>5, <1>7, CountSame DEF OldInv
<1> QED BY <1>1, <1>5, <1>6, <1>8 DEF OldInv, OldType, OldKept, OldGone

LEMMA ReverseOnce ==
    ASSUME NEW T, NEW s \in Seq(T), NEW r, r = [i \in 1..Len(s) |-> s[(Len(s) - i) + 1]], Once(s)
    PROVE  r \in Seq(T) /\ Once(r) /\ \A u : Has(r, u) <=> Has(s, u)
<1> DEFINE n == Len(s)
<1>1. n \in Nat /\ DOMAIN s = 1..n /\ \A i \in 1..n : s[i] \in T
  OBVIOUS
<1>2. \A i \in 1..n : (n - i) + 1 \in 1..n /\ (n - ((n - i) + 1)) + 1 = i
  BY <1>1
<1>3. r \in Seq(T) /\ DOMAIN r = 1..n /\ \A i \in 1..n : r[i] = s[(n - i) + 1]
  BY <1>1, <1>2
<1> HIDE DEF n
<1>4. Once(r)
  <2>1. \A i, j \in 1..n : (n - i) + 1 = (n - j) + 1 => i = j
    BY <1>1
  <2> QED BY <1>1, <1>2, <1>3, <2>1 DEF Once
<1>5. ASSUME NEW u PROVE Has(r, u) => Has(s, u)
  BY <1>1, <1>2, <1>3 DEF Has
<1>6. ASSUME NEW u, Has(s, u) PROVE Has(r, u)
  <2>1. PICK i \in 1..n : s[i] = u
    BY <1>1, <1>6 DEF Has
  <2>2. (n - i) + 1 \in 1..n /\ r[(n - i) + 1] = u
    BY <1>2, <1>3, <2>1
  <2> QED BY <1>3, <2>2 DEF Has
<1> QED BY <1>3, <1>4, <1>5, <1>6

\* The FCBs of half a reservation are given back, the last first.
LEMMA OldRollsBack ==
    ASSUME OldInv, NEW p \in Procs, NEW s \in Old!Opens, Old!RollsBack(p, s)
    PROVE  OldInv'
<1>1. /\ refcount' = [b \in FCBs |-> IF Has(freelist, b) THEN 0 ELSE refcount[b]]
      /\ freelist' = [i \in 1..Len(freelist) |-> freelist[(Len(freelist) - i) + 1]]
      /\ UNCHANGED <<alive, FIDT, stream, using, opened>>
  <2>1. DOMAIN freelist = 1..Len(freelist)
    BY DEF OldInv, OldType
  <2> QED BY <2>1, OldIs DEF Old!RollsBack, Old!Reverse, Old!Contains, Has
<1>2. freelist \in Seq(FCBs) /\ refcount \in [FCBs -> Int] /\ Once(freelist)
  BY DEF OldInv, OldType, CountOK
<1>3. /\ freelist' \in Seq(FCBs) /\ Once(freelist')
      /\ \A u : Has(freelist', u) <=> Has(freelist, u)
  BY <1>1, <1>2, ReverseOnce
<1>4. refcount' \in [FCBs -> Int] /\ \A c \in FCBs : ~Has(freelist, c) => refcount'[c] = refcount[c]
  BY <1>1, <1>2
<1>5. CountOK(FIDT, using, refcount', freelist')
  BY <1>3, <1>4, CountSame DEF OldInv
<1> QED BY <1>1, <1>3, <1>4, <1>5 DEF OldInv, OldType, OldKept, OldGone

\* The descriptors of b are those of process q and those of the others.
Others(fd, q, b) == {d \in Desc(fd, b) : d[1] # q}
Row(row, b)      == {f \in Old!Fids : row[f] = b}
SetRow(fd, q, row) == [fd EXCEPT ![q] = row]

\* What the table fn is after that, and how many uses an FCB has then.
RowSet(fd, fn, us, q, row) ==
    /\ \A r \in Procs, f \in Old!Fids : fn[r][f] = IF r = q THEN row[f] ELSE fd[r][f]
    /\ \A b \in FCBs : Uses(fn, us, b) =
            Uses(fd, us, b) + Cardinality(Row(row, b)) - Cardinality(Row(fd[q], b))

LEMMA RowSplit ==
    ASSUME NEW fd \in FidTables, NEW q \in Procs, NEW b
    PROVE  /\ Cardinality(Row(fd[q], b)) \in Nat /\ Cardinality(Others(fd, q, b)) \in Nat
           /\ Cardinality(Row(fd[q], b)) = 0 <=> Row(fd[q], b) = {}
           /\ Cardinality(Desc(fd, b)) = Cardinality(Others(fd, q, b)) + Cardinality(Row(fd[q], b))
<1> DEFINE o == Others(fd, q, b)
           r == Row(fd[q], b)
           x == {q} \X r
<1>1. IsFiniteSet(Desc(fd, b)) /\ o \in SUBSET Desc(fd, b)
  BY UsesType DEF Others
<1>2. IsFiniteSet(o) /\ IsFiniteSet(r)
  <2>1. IsFiniteSet(Old!Fids) /\ r \in SUBSET Old!Fids
    BY OldIs DEF Row
  <2> QED BY <1>1, <2>1, FS_Subset
<1>3. Desc(fd, b) = o \cup x /\ o \cap x = {}
  BY DEF Desc, Others, Row
<1> HIDE DEF o, r
<1>4. IsFiniteSet({q}) /\ Cardinality({q}) = 1 /\ Cardinality(r) \in Nat /\ Cardinality(o) \in Nat
  BY <1>2, FS_Singleton, FS_CardinalityType
<1>5. IsFiniteSet(x) /\ Cardinality(x) = 1 * Cardinality(r)
  BY <1>2, <1>4, FS_Product
<1> HIDE DEF x
<1>6. Cardinality(o \cup x) = Cardinality(o) + Cardinality(x) - Cardinality(o \cap x)
  BY <1>2, <1>5, FS_Union
<1>7. Cardinality(o \cap x) = 0 /\ (Cardinality(r) = 0 <=> r = {})
  BY <1>2, <1>3, FS_EmptySet
<1>8. Cardinality(Desc(fd, b)) = Cardinality(o) + Cardinality(r)
  BY <1>3, <1>4, <1>5, <1>6, <1>7
<1> QED BY <1>4, <1>7, <1>8 DEF o, r

\* All the descriptors of a process are written.
LEMMA WriteRow ==
    ASSUME NEW fd \in FidTables, NEW us, NEW q \in Procs, NEW row \in [Old!Fids -> FCBs \cup {0}]
    PROVE  /\ SetRow(fd, q, row) \in FidTables
           /\ RowSet(fd, SetRow(fd, q, row), us, q, row)
<1> DEFINE fn == SetRow(fd, q, row)
<1>1. /\ fn \in FidTables /\ fn[q] = row
      /\ \A r \in Procs, f \in Old!Fids : fn[r][f] = IF r = q THEN row[f] ELSE fd[r][f]
  BY DEF FidTables, SetRow
<1> HIDE DEF fn
<1>2. ASSUME NEW b \in FCBs
      PROVE  Uses(fn, us, b) = Uses(fd, us, b) + Cardinality(Row(row, b)) - Cardinality(Row(fd[q], b))
  <2>1. Others(fn, q, b) = Others(fd, q, b)
    BY <1>1 DEF Others, Desc
  <2>2. /\ Cardinality(Row(fd[q], b)) \in Nat /\ Cardinality(Others(fd, q, b)) \in Nat
        /\ Cardinality(Desc(fd, b)) = Cardinality(Others(fd, q, b)) + Cardinality(Row(fd[q], b))
    BY RowSplit
  <2>3. /\ Cardinality(Row(row, b)) \in Nat
        /\ Cardinality(Desc(fn, b)) = Cardinality(Others(fd, q, b)) + Cardinality(Row(row, b))
    BY <1>1, <2>1, RowSplit
  <2>4. Cardinality(Fly(us, b)) \in Nat
    BY UsesType
  <2> QED BY <2>2, <2>3, <2>4 DEF Uses
<1> QED BY <1>1, <1>2 DEF fn, RowSet

LEMMA RowUsed ==
    ASSUME NEW fd \in FidTables, NEW us, NEW p \in Procs, NEW b
    PROVE  /\ Cardinality(Row(fd[p], b)) \in Nat
           /\ Uses(fd, us, b) \in Nat
           /\ Cardinality(Row(fd[p], b)) <= Uses(fd, us, b)
<1>1. /\ Cardinality(Row(fd[p], b)) \in Nat /\ Cardinality(Others(fd, p, b)) \in Nat
      /\ Cardinality(Desc(fd, b)) = Cardinality(Others(fd, p, b)) + Cardinality(Row(fd[p], b))
  BY RowSplit
<1>2. Cardinality(Fly(us, b)) \in Nat /\ Uses(fd, us, b) \in Nat
  BY UsesType
<1> QED BY <1>1, <1>2 DEF Uses

LEMMA NamedIs ==
    ASSUME NEW p, NEW b PROVE Old!Named(p, b) = Cardinality(Row(FIDT[p], b))
<1> DEFINE r == {f \in Old!Fids : FIDT[p][f] = b}
<1>1. Old!Cardinality(r) = Cardinality(r)
  <2> HIDE DEF r
  <2> QED BY DEF Old!Cardinality, Cardinality
<1> QED BY <1>1 DEF Old!Named, Row

\* A process begins with the descriptors of its parent, each counted.
LEMMA OldExec ==
    ASSUME OldInv, NEW p \in Procs, NEW q \in Procs, p \in alive, Old!Exec(p, q)
    PROVE  OldInv'
<1> DEFINE row == FIDT[p]
           n(b) == Cardinality(Row(row, b))
<1>1. /\ q \notin alive /\ alive' = alive \cup {q}
      /\ FIDT' = SetRow(FIDT, q, row) /\ opened' = [opened EXCEPT ![q] = opened[p]]
      /\ refcount' = [b \in FCBs |-> refcount[b] + n(b)]
      /\ stream' = stream /\ freelist' = freelist /\ using' = using
  <2>1. \A b : Old!Named(p, b) = n(b)
    BY NamedIs
  <2>2. Old!Inherit(p) = [b \in FCBs |-> refcount[b] + n(b)]
    BY <2>1, OldIs DEF Old!Inherit
  <2> QED BY <2>2 DEF Old!Exec, SetRow
<1>2. /\ FIDT \in FidTables /\ row \in [Old!Fids -> FCBs \cup {0}]
      /\ refcount \in [FCBs -> Int] /\ opened \in [Procs -> [Old!Fids -> Kinds]]
  BY DEF OldInv, OldType, FidTables
<1>3. /\ FIDT' \in FidTables
      /\ \A r \in Procs, f \in Old!Fids : FIDT'[r][f] = IF r = q THEN FIDT[p][f] ELSE FIDT[r][f]
      /\ \A b \in FCBs : Uses(FIDT', using, b) = Uses(FIDT, using, b) + n(b) - Cardinality(Row(FIDT[q], b))
  <2> HIDE DEF row
  <2>1. SetRow(FIDT, q, row) \in FidTables /\ RowSet(FIDT, SetRow(FIDT, q, row), using, q, row)
    BY <1>2, WriteRow
  <2> QED BY <1>1, <2>1 DEF row, RowSet
<1>4. \A b \in FCBs : n(b) \in Nat /\ Uses(FIDT, using, b) \in Nat /\ n(b) <= Uses(FIDT, using, b)
  BY <1>2, RowUsed
<1>5. ASSUME NEW b \in FCBs PROVE Cardinality(Row(FIDT[q], b)) = 0
  <2>1. Row(FIDT[q], b) = {}
    BY <1>1, OldIs DEF OldInv, OldGone, Row
  <2> QED BY <1>2, <2>1, RowSplit
<1>6. \A b \in FCBs : refcount[b] \in Int /\ refcount'[b] = refcount[b] + n(b)
  BY <1>1, <1>2
<1>7. refcount' \in [FCBs -> Int]
  BY <1>1, <1>4, <1>6
<1> HIDE DEF n, row
<1>8. \A b \in FCBs : Uses(FIDT', using', b) = Uses(FIDT, using, b) + n(b)
  BY <1>1, <1>3, <1>4, <1>5
<1>9. CountOK(FIDT', using', refcount', freelist')
  BY <1>1, <1>4, <1>6, <1>8 DEF OldInv, CountOK
<1>10. /\ opened' \in [Procs -> [Old!Fids -> Kinds]]
       /\ \A r \in Procs, f \in Old!Fids : opened'[r][f] = IF r = q THEN opened[p][f] ELSE opened[r][f]
  BY <1>1, <1>2
<1>11. OldType'
  BY <1>1, <1>3, <1>7, <1>10 DEF OldInv, OldType, FidTables
<1>12. OldKept'
  BY <1>1, <1>3, <1>10 DEF OldInv, OldKept
<1>13. OldGone'
  BY <1>1, <1>3 DEF OldInv, OldGone
<1> QED BY <1>9, <1>11, <1>12, <1>13 DEF OldInv

\* One sequence after another that has none of its elements.
LEMMA ConcatOnce ==
    ASSUME NEW T, NEW s \in Seq(T), NEW r \in Seq(T), Once(s), Once(r),
           \A u : ~(Has(s, u) /\ Has(r, u))
    PROVE  /\ s \o r \in Seq(T)
           /\ Once(s \o r)
           /\ \A u : Has(s \o r, u) <=> Has(s, u) \/ Has(r, u)
<1> DEFINE w == s \o r
           m == Len(s)
           n == Len(r)
<1>1. m \in Nat /\ n \in Nat /\ DOMAIN s = 1..m /\ DOMAIN r = 1..n
  OBVIOUS
<1>2. /\ w \in Seq(T) /\ Len(w) = m + n
      /\ \A i \in 1..m+n : w[i] = IF i <= m THEN s[i] ELSE r[i-m]
  BY ConcatProperties
<1>3. DOMAIN w = 1..m+n
  BY <1>1, <1>2
<1> HIDE DEF w, m, n
<1>4. \A i \in 1..m+n : \/ i \in 1..m /\ w[i] = s[i]
                        \/ i-m \in 1..n /\ w[i] = r[i-m] /\ ~(i \in 1..m)
  BY <1>1, <1>2
<1>5. /\ \A i \in 1..m : i \in 1..m+n /\ w[i] = s[i]
      /\ \A i \in 1..n : i+m \in 1..m+n /\ w[i+m] = r[i]
  <2>1. ASSUME NEW i \in 1..n PROVE i+m \in 1..m+n /\ ~(i+m <= m) /\ (i+m)-m = i
    BY <1>1
  <2>2. \A i \in 1..m : i \in 1..m+n /\ i <= m
    BY <1>1
  <2> QED BY <1>2, <2>1, <2>2
<1>6. ASSUME NEW u PROVE Has(w, u) <=> Has(s, u) \/ Has(r, u)
  BY <1>1, <1>3, <1>4, <1>5 DEF Has
<1>7. ASSUME NEW i \in 1..m+n, NEW j \in 1..m+n, w[i] = w[j] PROVE i = j
  <2>1. CASE i \in 1..m /\ j \in 1..m
    BY <2>1, <1>1, <1>5, <1>7 DEF Once
  <2>2. CASE i \notin 1..m /\ j \notin 1..m
    <3>1. i-m \in 1..n /\ j-m \in 1..n /\ r[i-m] = r[j-m]
      BY <2>2, <1>4, <1>7
    <3>2. i-m = j-m
      BY <3>1, <1>1 DEF Once
    <3> QED BY <3>2, <1>1
  <2>3. CASE i \in 1..m /\ j \notin 1..m
    BY <2>3, <1>1, <1>4, <1>7 DEF Has
  <2>4. CASE i \notin 1..m /\ j \in 1..m
    BY <2>4, <1>1, <1>4, <1>7 DEF Has
  <2> QED BY <2>1, <2>2, <2>3, <2>4
<1>8. Once(w)
  BY <1>3, <1>7 DEF Once
<1> QED BY <1>2, <1>6, <1>8 DEF w

\* A sequence that lists a finite set.
LEMMA ListOnce ==
    ASSUME NEW S, S \subseteq FCBs, NEW d \in Old!SetToSeqs(S)
    PROVE  d \in Seq(FCBs) /\ Once(d) /\ \A u : Has(d, u) <=> u \in S
<1> DEFINE n == Cardinality(S)
<1>1. IsFiniteSet(FCBs)
  BY StreamsAssumption, FS_Interval DEF FCBs
<1>2. IsFiniteSet(S) /\ n \in Nat
  BY <1>1, FS_Subset, FS_CardinalityType
<1>3. Old!Cardinality(S) = n
  BY DEF Old!Cardinality, Cardinality
<1>4. d \in [1..n -> S] /\ \A i, j \in 1..n : i # j => d[i] # d[j]
  BY <1>3 DEF Old!SetToSeqs
<1> HIDE DEF n
<1>5. d \in Injection(1..n, S)
  BY <1>4 DEF Injection, IsInjective
<1>6. Cardinality(1..n) = n
  BY <1>2, FS_Interval
<1>7. d \in Surjection(1..n, S)
  <2>1. Cardinality(1..n) = Cardinality(S)
    BY <1>6 DEF n
  <2> QED BY <1>2, <1>5, <2>1, FS_Injection
<1>8. \A u \in S : \E i \in 1..n : d[i] = u
  BY <1>7 DEF Surjection
<1>9. DOMAIN d = 1..n /\ d \in Seq(FCBs)
  BY <1>2, <1>4
<1> QED BY <1>4, <1>8, <1>9 DEF Once, Has

\* The process of p ends: what only p named is free, what others use is not.
LEMMA OldExit ==
    ASSUME OldInv, NEW p \in Procs, Old!Exit(p)
    PROVE  OldInv'
<1> DEFINE row == [f \in Old!Fids |-> 0]
           n(b) == Cardinality(Row(FIDT[p], b))
           S == Old!Dropped(p)
<1>1. PICK d \in Old!SetToSeqs(S) : freelist' = Old!Released(d)
  BY DEF Old!Exit
<1>2. /\ alive' = alive \ {p}
      /\ refcount' = [b \in FCBs |-> refcount[b] - n(b)]
      /\ FIDT' = SetRow(FIDT, p, row) /\ opened' = [opened EXCEPT ![p] = [f \in Old!Fids |-> "none"]]
      /\ stream' = stream /\ using' = using
      /\ \A t \in ProcThreads : using[p][t] = Old!NoUse
  <2>1. \A b : Old!Named(p, b) = n(b)
    BY NamedIs
  <2>2. [b \in Old!FCBs |-> refcount[b] - Old!Named(p, b)] = [b \in FCBs |-> refcount[b] - n(b)]
    BY <2>1, OldIs
  <2> QED BY <2>2, OldIs DEF Old!Exit, Old!Idle, SetRow
<1>3. /\ FIDT \in FidTables /\ row \in [Old!Fids -> FCBs \cup {0}] /\ freelist \in Seq(FCBs)
      /\ refcount \in [FCBs -> Int] /\ opened \in [Procs -> [Old!Fids -> Kinds]]
  BY DEF OldInv, OldType, FidTables
<1>4. FIDT' \in FidTables /\ RowSet(FIDT, FIDT', using, p, row)
  <2> HIDE DEF row
  <2> QED BY <1>2, <1>3, WriteRow
<1>5. \A b \in FCBs : n(b) \in Nat /\ Uses(FIDT, using, b) \in Nat /\ n(b) <= Uses(FIDT, using, b)
  BY <1>3, RowUsed
<1>6. ASSUME NEW b \in FCBs PROVE Cardinality(Row(row, b)) = 0
  <2>1. Row(row, b) = {}
    BY OldIs DEF Row
  <2> QED BY <2>1, FS_EmptySet
<1>7. \A b \in FCBs : refcount[b] \in Int /\ refcount'[b] = refcount[b] - n(b)
  BY <1>2, <1>3
<1>8. refcount' \in [FCBs -> Int]
  BY <1>2, <1>5, <1>7
<1>9. S = {b \in FCBs : n(b) > 0 /\ refcount[b] = n(b)}
  <2>1. \A b : Old!Named(p, b) = n(b)
    BY NamedIs
  <2> QED BY <2>1, OldIs DEF Old!Dropped
<1>10. \A r \in Procs, f \in Old!Fids : FIDT'[r][f] = IF r = p THEN 0 ELSE FIDT[r][f]
  BY <1>4 DEF RowSet
<1>11. \A b \in FCBs : Uses(FIDT', using', b) = Uses(FIDT, using, b) - n(b)
  <2> HIDE DEF row
  <2>1. \A b \in FCBs : Uses(FIDT', using, b) = Uses(FIDT, using, b) + Cardinality(Row(row, b)) - n(b)
    BY <1>4 DEF RowSet
  <2> HIDE DEF n
  <2> QED BY <1>2, <1>5, <1>6, <2>1
<1> HIDE DEF n, row, S
<1>12. d \in Seq(FCBs) /\ Once(d) /\ \A u : Has(d, u) <=> u \in S
  <2>1. S \subseteq FCBs
    BY <1>9
  <2> QED BY <2>1, <1>1, ListOnce
<1>13. Once(freelist) /\ \A b \in FCBs : /\ Has(freelist, b) <=> Uses(FIDT, using, b) = 0
                                         /\ Uses(FIDT, using, b) > 0 => refcount[b] = Uses(FIDT, using, b)
  BY DEF OldInv, CountOK
<1>14. \A u : ~(Has(freelist, u) /\ Has(d, u))
  BY <1>5, <1>9, <1>12, <1>13
<1>15. freelist' = freelist \o d
  <2>1. DOMAIN freelist = 1..Len(freelist)
    BY <1>3
  <2>2. ~ \E i \in DOMAIN d : Old!Contains(freelist, d[i])
    BY <1>14, <2>1 DEF Old!Contains, Has
  <2> QED BY <1>1, <2>2 DEF Old!Released
<1>16. /\ freelist' \in Seq(FCBs) /\ Once(freelist')
       /\ \A u : Has(freelist', u) <=> Has(freelist, u) \/ Has(d, u)
  BY <1>3, <1>12, <1>13, <1>14, <1>15, ConcatOnce
<1>17. ASSUME NEW b \in FCBs
       PROVE  /\ Has(freelist', b) <=> Uses(FIDT', using', b) = 0
              /\ Uses(FIDT', using', b) > 0 => refcount'[b] = Uses(FIDT', using', b)
  <2>1. /\ n(b) \in Nat /\ Uses(FIDT, using, b) \in Nat /\ n(b) <= Uses(FIDT, using, b)
        /\ refcount[b] \in Int /\ refcount'[b] = refcount[b] - n(b)
        /\ Uses(FIDT', using', b) = Uses(FIDT, using, b) - n(b)
    BY <1>5, <1>7, <1>11
  <2>2. Has(freelist', b) <=> Has(freelist, b) \/ (n(b) > 0 /\ refcount[b] = n(b))
    BY <1>9, <1>12, <1>16
  <2>3. /\ Has(freelist, b) <=> Uses(FIDT, using, b) = 0
        /\ Uses(FIDT, using, b) > 0 => refcount[b] = Uses(FIDT, using, b)
    BY <1>13
  <2> QED BY <2>1, <2>2, <2>3
<1>18. CountOK(FIDT', using', refcount', freelist')
  BY <1>16, <1>17 DEF CountOK
<1>19. /\ opened' \in [Procs -> [Old!Fids -> Kinds]]
       /\ \A r \in Procs, f \in Old!Fids : r # p => opened'[r][f] = opened[r][f]
  BY <1>2, <1>3 DEF Kinds
<1>20. OldType'
  BY <1>2, <1>4, <1>8, <1>16, <1>19 DEF OldInv, OldType, FidTables
<1>21. OldKept'
  BY <1>2, <1>10, <1>19 DEF OldInv, OldKept
<1>22. OldGone'
  BY <1>2, <1>10 DEF OldInv, OldGone
<1> QED BY <1>18, <1>20, <1>21, <1>22 DEF OldInv

LEMMA NthIs ==
    ASSUME NEW x, Once(x), NEW i \in DOMAIN x
    PROVE  Old!Nth(x, x[i]) = i
BY DEF Old!Nth, Once

\* Sequence s is the sequence a of n elements and then the sequence r.
Parts(s, n, a, r) ==
    /\ DOMAIN a = 1..n /\ Len(a) = n /\ Once(a) /\ Once(r)
    /\ \A i \in 1..n : a[i] = s[i]
    /\ \A u : Has(a, u) => Has(s, u)
    /\ \A u : Has(r, u) <=> Has(s, u) /\ ~Has(a, u)

LEMMA DropOnce ==
    ASSUME NEW T, NEW s \in Seq(T), NEW n \in Nat, n <= Len(s), Once(s),
           NEW a, a = SubSeq(s, 1, n), NEW r, r = SubSeq(s, n + 1, Len(s))
    PROVE  r \in Seq(T) /\ Parts(s, n, a, r)
<1> DEFINE m == Len(s)
<1>1. m \in Nat /\ DOMAIN s = 1..m
  OBVIOUS
<1>2. /\ Len(a) = n /\ DOMAIN a = 1..n /\ \A i \in 1..n : a[i] = s[i] /\ i \in 1..m
      /\ r \in Seq(T) /\ Len(r) = m - n /\ DOMAIN r = 1..m-n
      /\ \A i \in 1..m-n : r[i] = s[n + i] /\ n + i \in 1..m
  OBVIOUS
<1> HIDE DEF m
<1>3. Once(a)
  BY <1>1, <1>2 DEF Once
<1>4. Once(r)
  <2>1. \A i, j \in 1..m-n : n + i = n + j => i = j
    BY <1>1
  <2> QED BY <1>1, <1>2, <2>1 DEF Once
<1>5. ASSUME NEW u, Has(a, u) PROVE Has(s, u)
  BY <1>1, <1>2, <1>5 DEF Has
<1>6. ASSUME NEW u, Has(r, u) PROVE Has(s, u) /\ ~Has(a, u)
  <2>1. PICK i \in 1..m-n : s[n + i] = u /\ n + i \in 1..m
    BY <1>2, <1>6 DEF Has
  <2>2. \A j \in 1..n : n + i # j
    BY <2>1
  <2> QED BY <1>1, <1>2, <2>1, <2>2 DEF Has, Once
<1>7. ASSUME NEW u, Has(s, u), ~Has(a, u) PROVE Has(r, u)
  <2>1. PICK i \in 1..m : s[i] = u
    BY <1>1, <1>7 DEF Has
  <2>2. i \notin 1..n
    BY <1>2, <1>7, <2>1 DEF Has
  <2>3. i - n \in 1..m-n /\ n + (i - n) = i
    BY <1>1, <2>2
  <2>4. r[i - n] = u
    BY <1>2, <2>1, <2>3
  <2> QED BY <1>2, <2>3, <2>4 DEF Has
<1> QED BY <1>2, <1>3, <1>4, <1>5, <1>6, <1>7 DEF Parts

LEMMA OpensType ==
    ASSUME NEW s \in Old!Opens
    PROVE  s \in Seq(Kinds) /\ Len(s) \in Nat /\ DOMAIN s = 1..Len(s)
<1>1. {"device", "absent", "reader", "writer"} \subseteq Kinds
  BY DEF Kinds
<1>2. CASE s = <<"device">>
  BY <1>1, <1>2
<1>3. CASE s = <<"absent">>
  BY <1>1, <1>3
<1>4. CASE s = <<"reader", "writer">>
  BY <1>1, <1>4
<1> QED BY <1>2, <1>3, <1>4 DEF Old!Opens

\* The reservation of as many descriptors and FCBs as the stream needs.
LEMMA OldOpen ==
    ASSUME OldInv, NEW p \in Procs, p \in alive, NEW s \in Old!Opens, Old!Open(p, s)
    PROVE  OldInv'
<1> DEFINE n == Len(s)
           a == SubSeq(freelist, 1, n)
<1>1. s \in Seq(Kinds) /\ n \in Nat /\ DOMAIN s = 1..n /\ \A i \in 1..n : s[i] \in Kinds
  BY OpensType
<1>2. PICK fid \in Old!FirstFids(p, n) :
        /\ Old!FoundAll(p, s)
        /\ FIDT' = [FIDT EXCEPT ![p] =
              [f \in Old!Fids |-> IF Old!Contains(fid, f) THEN a[Old!Nth(fid, f)] ELSE FIDT[p][f]]]
        /\ opened' = [opened EXCEPT ![p] =
              [f \in Old!Fids |-> IF Old!Contains(fid, f) THEN s[Old!Nth(fid, f)] ELSE opened[p][f]]]
        /\ refcount' = [b \in FCBs |-> IF Old!Contains(a, b) THEN 1 ELSE refcount[b]]
        /\ stream' = [b \in FCBs |-> IF Old!Contains(a, b) THEN s[Old!Nth(a, b)] ELSE stream[b]]
        /\ freelist' = SubSeq(freelist, n + 1, Len(freelist))
        /\ alive' = alive /\ using' = using
  BY OldIs DEF Old!Open
<1>3. n <= Len(freelist) /\ freelist \in Seq(FCBs) /\ Once(freelist)
  BY <1>1, <1>2 DEF Old!FoundAll, OldInv, OldType, CountOK
<1>4. /\ FIDT \in FidTables /\ opened \in [Procs -> [Old!Fids -> Kinds]]
      /\ refcount \in [FCBs -> Int] /\ stream \in [FCBs -> Kinds]
  BY DEF OldInv, OldType, FidTables
<1>5. /\ fid \in [1..n -> Old!Fids] /\ \A i \in 1..n : FIDT[p][fid[i]] = 0
      /\ \A i, j \in 1..n : i < j => fid[i] < fid[j]
  BY <1>2, OldIs DEF Old!FirstFids, Old!FreeFids
<1>6. DOMAIN fid = 1..n /\ Len(fid) = n /\ Once(fid)
  <2>1. fid \in Seq(Old!Fids) /\ DOMAIN fid = 1..n /\ Len(fid) = n
    BY <1>1, <1>5
  <2>2. ASSUME NEW i \in 1..n, NEW j \in 1..n, fid[i] = fid[j] PROVE i = j
    <3>1. fid[i] \in Nat /\ ~(fid[i] < fid[i])
      <4>1. fid[i] \in Old!Fids /\ Old!Fids \subseteq Nat
        BY <1>5, OldIs
      <4>2. \A k \in Nat : ~(k < k)
        OBVIOUS
      <4>3. fid[i] \in Nat
        BY <4>1
      <4> QED BY <4>2, <4>3
    <3>2. ~(i < j) /\ ~(j < i)
      BY <1>5, <2>2, <3>1
    <3> QED BY <1>1, <3>2
  <2> QED BY <2>1, <2>2 DEF Once
<1> HIDE DEF n
<1>7. /\ DOMAIN a = 1..n /\ Len(a) = n /\ Once(a) /\ \A i \in 1..n : a[i] = freelist[i]
      /\ freelist' \in Seq(FCBs) /\ Once(freelist')
      /\ \A u : Has(a, u) => Has(freelist, u)
      /\ \A u : Has(freelist', u) <=> Has(freelist, u) /\ ~Has(a, u)
  <2>1. freelist' \in Seq(FCBs) /\ Parts(freelist, n, a, freelist')
    BY <1>1, <1>2, <1>3, DropOnce
  <2> QED BY <2>1 DEF Parts
<1> HIDE DEF a
<1>8. /\ \A f : Old!Contains(fid, f) <=> Has(fid, f)
      /\ \A b : Old!Contains(a, b) <=> Has(a, b)
      /\ \A i \in 1..n : Has(fid, fid[i]) /\ Has(a, a[i])
      /\ \A i \in 1..n : Old!Nth(fid, fid[i]) = i /\ Old!Nth(a, a[i]) = i
  BY <1>6, <1>7, NthIs DEF Old!Contains, Has
<1>9. \A i \in 1..n : a[i] \in FCBs /\ a[i] # 0
  <2>1. \A i \in 1..n : i \in 1..Len(freelist)
    BY <1>1, <1>3
  <2> QED BY <1>3, <1>7, <2>1, OldIs
<1>10. /\ \A f : Has(fid, f) => \E i \in 1..n : fid[i] = f
       /\ \A b : Has(a, b) => \E i \in 1..n : a[i] = b
  BY <1>6, <1>7 DEF Has
\* What the four tables are.
<1>11. /\ FIDT' \in FidTables
       /\ \A i \in 1..n : FIDT'[p][fid[i]] = a[i]
       /\ \A q \in Procs, f \in Old!Fids : ~(q = p /\ Has(fid, f)) => FIDT'[q][f] = FIDT[q][f]
  <2> DEFINE row == [f \in Old!Fids |-> IF Old!Contains(fid, f) THEN a[Old!Nth(fid, f)] ELSE FIDT[p][f]]
  <2>1. FIDT' = [FIDT EXCEPT ![p] = row]
    BY <1>2
  <2>2. \A f \in Old!Fids : row[f] = IF Old!Contains(fid, f) THEN a[Old!Nth(fid, f)] ELSE FIDT[p][f]
    OBVIOUS
  <2>3. ASSUME NEW f \in Old!Fids PROVE row[f] \in FCBs \cup {0}
    BY <1>4, <1>8, <1>9, <1>10, <2>2 DEF FidTables
  <2>4. row \in [Old!Fids -> FCBs \cup {0}]
    BY <2>3
  <2> HIDE DEF row
  <2>5. \A i \in 1..n : row[fid[i]] = a[i]
    BY <1>5, <1>8, <2>2
  <2>6. \A f \in Old!Fids : ~Has(fid, f) => row[f] = FIDT[p][f]
    BY <1>8, <2>2
  <2> QED BY <1>4, <2>1, <2>4, <2>5, <2>6 DEF FidTables
<1>12. /\ opened' \in [Procs -> [Old!Fids -> Kinds]]
       /\ \A i \in 1..n : opened'[p][fid[i]] = s[i]
       /\ \A q \in Procs, f \in Old!Fids : ~(q = p /\ Has(fid, f)) => opened'[q][f] = opened[q][f]
  <2> DEFINE row == [f \in Old!Fids |-> IF Old!Contains(fid, f) THEN s[Old!Nth(fid, f)] ELSE opened[p][f]]
  <2>1. opened' = [opened EXCEPT ![p] = row]
    BY <1>2
  <2>2. \A f \in Old!Fids : row[f] = IF Old!Contains(fid, f) THEN s[Old!Nth(fid, f)] ELSE opened[p][f]
    OBVIOUS
  <2>3. ASSUME NEW f \in Old!Fids PROVE row[f] \in Kinds
    <3> HIDE DEF row
    <3>1. ASSUME Has(fid, f) PROVE row[f] \in Kinds
      <4>1. PICK i \in 1..n : fid[i] = f
        BY <1>10, <3>1
      <4>2. row[f] = s[i]
        BY <1>8, <2>2, <3>1, <4>1
      <4> QED BY <1>1, <4>2
    <3> QED BY <1>4, <1>8, <2>2, <3>1
  <2>4. row \in [Old!Fids -> Kinds]
    BY <2>3
  <2> HIDE DEF row
  <2>5. \A i \in 1..n : row[fid[i]] = s[i]
    BY <1>5, <1>8, <2>2
  <2>6. \A f \in Old!Fids : ~Has(fid, f) => row[f] = opened[p][f]
    BY <1>8, <2>2
  <2> QED BY <1>4, <2>1, <2>4, <2>5, <2>6
<1>13. /\ refcount' \in [FCBs -> Int]
       /\ \A b \in FCBs : refcount'[b] = IF Has(a, b) THEN 1 ELSE refcount[b]
  BY <1>2, <1>4, <1>8
<1>14. /\ \A i \in 1..n : stream'[a[i]] = s[i]
       /\ \A b \in FCBs : ~Has(a, b) => stream'[b] = stream[b]
       /\ stream' \in [FCBs -> Kinds]
  <2>1. stream' = [b \in FCBs |-> IF Old!Contains(a, b) THEN s[Old!Nth(a, b)] ELSE stream[b]]
    BY <1>2
  <2>2. \A b \in FCBs : stream'[b] = IF Old!Contains(a, b) THEN s[Old!Nth(a, b)] ELSE stream[b]
    BY <2>1
  <2>3. ASSUME NEW b \in FCBs PROVE stream'[b] \in Kinds
    <3>1. ASSUME Has(a, b) PROVE stream'[b] \in Kinds
      <4>1. PICK i \in 1..n : a[i] = b
        BY <1>10, <3>1
      <4>2. stream'[b] = s[i]
        BY <1>8, <2>2, <3>1, <4>1
      <4> QED BY <1>1, <4>2
    <3> QED BY <1>4, <1>8, <2>2, <3>1
  <2>4. stream' \in [FCBs -> Kinds]
    BY <2>1, <2>3
  <2> QED BY <1>8, <1>9, <2>2, <2>4
\* An FCB that is used is not taken.
<1>15. /\ \A q \in Procs, f \in Old!Fids : ~Has(freelist, FIDT[q][f])
       /\ \A q \in Procs, t \in ProcThreads : ~Has(freelist, using[q][t].fcb)
  <2>1. ASSUME NEW b, Has(freelist, b) PROVE b \in FCBs
    BY <1>3, <2>1 DEF Has
  <2>2. ASSUME NEW b, Has(freelist, b) PROVE ~(Uses(FIDT, using, b) > 0)
    BY <2>1, <2>2, UsesType DEF OldInv, CountOK
  <2> QED BY <2>2, NamedUsed
<1> HIDE DEF OldInv
<1>16. ASSUME NEW b \in FCBs, ~Has(a, b) PROVE Uses(FIDT', using', b) = Uses(FIDT, using, b)
  <2>1. ASSUME NEW q \in Procs, NEW f \in Old!Fids PROVE FIDT'[q][f] = b <=> FIDT[q][f] = b
    BY <1>5, <1>8, <1>9, <1>10, <1>11, <1>16, OldIs
  <2>2. Desc(FIDT', b) = Desc(FIDT, b)
    BY <2>1 DEF Desc
  <2> QED BY <1>2, <2>2 DEF Uses
<1>17. ASSUME NEW i \in 1..n PROVE Uses(FIDT', using', a[i]) = 1
  <2>1. Has(freelist, a[i])
    BY <1>7, <1>8
  <2>2. ASSUME NEW q \in Procs, NEW f \in Old!Fids PROVE FIDT'[q][f] = a[i] <=> q = p /\ f = fid[i]
    <3>1. CASE q = p /\ Has(fid, f)
      <4>1. PICK j \in 1..n : fid[j] = f
        BY <1>10, <3>1
      <4>2. FIDT'[q][f] = a[j] /\ (a[j] = a[i] <=> j = i) /\ (fid[j] = fid[i] <=> j = i)
        BY <1>6, <1>7, <1>11, <3>1, <4>1 DEF Once
      <4> QED BY <3>1, <4>1, <4>2
    <3>2. CASE ~(q = p /\ Has(fid, f))
      BY <1>8, <1>11, <1>15, <2>1, <3>2
    <3> QED BY <3>1, <3>2
  <2>3. Desc(FIDT', a[i]) = {<<p, fid[i]>>}
    BY <1>5, <2>2 DEF Desc
  <2>4. Fly(using', a[i]) = {}
    BY <1>2, <1>15, <2>1 DEF Fly
  <2>5. Cardinality(Desc(FIDT', a[i])) = 1 /\ Cardinality(Fly(using', a[i])) = 0
    BY <2>3, <2>4, FS_Singleton, FS_EmptySet
  <2> QED BY <2>5 DEF Uses
<1>18. CountOK(FIDT', using', refcount', freelist')
  <2>1. ASSUME NEW b \in FCBs
        PROVE  /\ Has(freelist', b) <=> Uses(FIDT', using', b) = 0
               /\ Uses(FIDT', using', b) > 0 => refcount'[b] = Uses(FIDT', using', b)
    <3>1. CASE Has(a, b)
      BY <1>7, <1>10, <1>13, <1>17, <3>1
    <3>2. CASE ~Has(a, b)
      BY <1>7, <1>13, <1>16, <3>2 DEF OldInv, CountOK
    <3> QED BY <3>1, <3>2
  <2> QED BY <1>7, <2>1 DEF CountOK
<1>19. OldType'
  BY <1>2, <1>7, <1>11, <1>12, <1>13, <1>14 DEF OldInv, OldType, FidTables
<1>20. OldKept'
  <2>1. ASSUME NEW q \in Procs, NEW t \in ProcThreads
        PROVE  using[q][t].fcb \in FCBs => stream'[using[q][t].fcb] = stream[using[q][t].fcb]
    BY <1>7, <1>14, <1>15
  <2>2. ASSUME NEW q \in Procs, NEW f \in Old!Fids, FIDT'[q][f] # 0
        PROVE  stream'[FIDT'[q][f]] = opened'[q][f]
    <3>1. CASE q = p /\ Has(fid, f)
      BY <1>10, <1>11, <1>12, <1>14, <3>1
    <3>2. CASE ~(q = p /\ Has(fid, f))
      <4>1. FIDT'[q][f] = FIDT[q][f] /\ opened'[q][f] = opened[q][f] /\ FIDT[q][f] \in FCBs
        BY <1>4, <1>11, <1>12, <2>2, <3>2 DEF FidTables
      <4>2. ~Has(a, FIDT[q][f])
        BY <1>7, <1>15
      <4>3. stream[FIDT[q][f]] = opened[q][f]
        BY <2>2, <4>1 DEF OldInv, OldKept
      <4> QED BY <1>14, <4>1, <4>2, <4>3
    <3> QED BY <3>1, <3>2
  <2>3. \A q \in Procs, t \in ProcThreads : using[q][t].fcb \in FCBs \cup {0}
    BY DEF OldInv, OldType
  <2> QED BY <1>2, <2>1, <2>2, <2>3 DEF OldInv, OldKept
<1>21. OldGone'
  BY <1>2, <1>11 DEF OldInv, OldGone
<1> QED BY <1>18, <1>19, <1>20, <1>21 DEF OldInv

LEMMA OldInit == Old!Init => OldInv
<1> SUFFICES ASSUME Old!Init PROVE OldInv
  OBVIOUS
<1>1. /\ alive = {First} /\ First \in Procs
      /\ FIDT = [p \in Procs |-> [f \in Old!Fids |-> 0]]
      /\ refcount = [b \in FCBs |-> 0] /\ freelist = [i \in FCBs |-> i]
      /\ stream = [b \in FCBs |-> "none"]
      /\ using = [p \in Procs |-> [t \in ProcThreads |-> Old!NoUse]]
      /\ opened = [p \in Procs |-> [f \in Old!Fids |-> "none"]]
  BY OldIs, StreamsAssumption DEF Old!Init, Old!initialize_files
<1>2. freelist \in Seq(FCBs) /\ DOMAIN freelist = FCBs /\ \A i \in FCBs : freelist[i] = i
  BY <1>1, StreamsAssumption DEF FCBs
<1>3. OldType
  BY <1>1, <1>2, OldIs DEF OldType, Kinds
<1>4. /\ \A p \in Procs, f \in Old!Fids : FIDT[p][f] = 0
      /\ \A p \in Procs, t \in ProcThreads : using[p][t] = Old!NoUse
  BY <1>1
<1>5. ASSUME NEW b \in FCBs PROVE Has(freelist, b) /\ Uses(FIDT, using, b) = 0
  <2>1. Desc(FIDT, b) = {} /\ Fly(using, b) = {}
    BY <1>4, OldIs DEF Desc, Fly
  <2> QED BY <1>2, <2>1, UsesType DEF Has
<1>6. CountOK(FIDT, using, refcount, freelist)
  BY <1>2, <1>5 DEF CountOK, Once
<1> QED BY <1>3, <1>4, <1>6, OldIs DEF OldInv, OldKept, OldGone

LEMMA OldStep ==
    ASSUME OldInv, Old!Next PROVE OldInv'
<1>1. PICK p \in Procs :
    \/ /\ \E t \in ProcThreads : Old!Idle(p, t)
       /\ \/ \E s \in Old!Opens : Old!Open(p, s) \/ Old!OpenFails(p, s) \/ Old!RollsBack(p, s)
          \/ \E f \in Old!Fids : Old!sys_Close(p, f) \/ \E g \in Old!Fids : Old!sys_Dup2(p, f, g)
          \/ \E q \in Procs : Old!Exec(p, q)
    \/ \E t \in ProcThreads : \/ Old!Idle(p, t) /\ \E f \in Old!Fids : Old!Begin(p, t, f)
                              \/ Old!End(p, t)
    \/ Old!Exit(p)
  BY DEF Old!Next
<1>2. \A t \in ProcThreads : Old!Idle(p, t) => p \in alive
  BY DEF Old!Idle
<1>3. CASE p \in alive /\ \E s \in Old!Opens : Old!Open(p, s) \/ Old!OpenFails(p, s) \/ Old!RollsBack(p, s)
  BY <1>3, OldOpen, OldOpenFails, OldRollsBack
<1>4. CASE p \in alive /\ \E f \in Old!Fids :
                Old!sys_Close(p, f) \/ \E g \in Old!Fids : Old!sys_Dup2(p, f, g)
  BY <1>4, OldClose, OldDup2
<1>5. CASE p \in alive /\ \E q \in Procs : Old!Exec(p, q)
  BY <1>5, OldExec
<1>6. CASE \E t \in ProcThreads : \/ Old!Idle(p, t) /\ \E f \in Old!Fids : Old!Begin(p, t, f)
                                  \/ Old!End(p, t)
  BY <1>6, OldBegin, OldEnd
<1>7. CASE Old!Exit(p)
  BY <1>7, OldExit
<1> QED BY <1>1, <1>2, <1>3, <1>4, <1>5, <1>6, <1>7

LEMMA OldInvSound == OldInv => Old!RefcountExact /\ Old!StreamKept /\ Old!AllReturned
<1> SUFFICES ASSUME OldInv PROVE Old!RefcountExact /\ Old!StreamKept /\ Old!AllReturned
  OBVIOUS
<1>1. freelist \in Seq(FCBs) /\ Once(freelist) /\ DOMAIN freelist = 1..Len(freelist)
  BY DEF OldInv, OldType, CountOK
<1>2. \A b : Old!Contains(freelist, b) <=> Has(freelist, b)
  BY <1>1 DEF Old!Contains, Has
<1>3. Old!IsInjective(freelist)
  BY <1>1 DEF Old!IsInjective, Once
<1>4. \A b \in FCBs : /\ Uses(FIDT, using, b) \in Nat
                      /\ Has(freelist, b) <=> Uses(FIDT, using, b) = 0
                      /\ Uses(FIDT, using, b) > 0 => refcount[b] = Uses(FIDT, using, b)
  BY UsesType DEF OldInv, CountOK
<1>5. ASSUME NEW b
      PROVE  Old!Cardinality(Old!Descriptors(b)) + Old!Cardinality(Old!InFlight(b)) = Uses(FIDT, using, b)
  <2>1. Old!Descriptors(b) = Desc(FIDT, b) /\ Old!InFlight(b) = Fly(using, b)
    BY DEF Old!Descriptors, Old!InFlight, Desc, Fly
  <2>2. \A S : Old!Cardinality(S) = Cardinality(S)
    BY DEF Old!Cardinality, Cardinality
  <2> QED BY <2>1, <2>2 DEF Uses
<1>6. Old!RefcountExact
  BY <1>2, <1>3, <1>4, <1>5, OldIs DEF Old!RefcountExact
<1>7. Old!StreamKept
  <2>1. ASSUME NEW p \in Procs, NEW t \in ProcThreads, using[p][t] # Old!NoUse
        PROVE  /\ stream[using[p][t].fcb] = using[p][t].stream
               /\ ~Old!Contains(freelist, using[p][t].fcb)
    <3>1. using[p][t].fcb # 0 /\ stream[using[p][t].fcb] = using[p][t].stream
      BY <2>1 DEF OldInv, OldKept
    <3>2. using[p][t].fcb \in FCBs
      BY <3>1 DEF OldInv, OldType
    <3>3. Uses(FIDT, using, using[p][t].fcb) > 0
      BY NamedUsed
    <3> QED BY <1>2, <1>4, <3>1, <3>2, <3>3
  <2> QED BY <2>1, OldIs DEF OldInv, OldKept, Old!StreamKept
<1>8. ASSUME alive = {} PROVE Len(freelist) = MAX_FILES
  <2>1. ASSUME NEW b \in FCBs PROVE Has(freelist, b)
    <3>1. Desc(FIDT, b) = {} /\ Fly(using, b) = {}
      BY <1>8, OldIs DEF OldInv, OldGone, Desc, Fly
    <3> QED BY <1>4, <3>1, UsesType
  <2> DEFINE n == Len(freelist)
  <2>2. n \in Nat /\ freelist \in [1..n -> FCBs]
    BY <1>1
  <2>3. freelist \in Bijection(1..n, FCBs)
    BY <1>1, <2>1, <2>2 DEF Bijection, Injection, Surjection, IsInjective, Once, Has
  <2> HIDE DEF n
  <2>4. Cardinality(FCBs) = n
    <3>1. ExistsBijection(1..n, FCBs)
      BY <2>3 DEF ExistsBijection
    <3> QED BY <2>2, <3>1, FS_CountingElements
  <2>5. Cardinality(FCBs) = MAX_FILES
    BY OldIs, FS_Interval DEF FCBs
  <2> QED BY <2>4, <2>5 DEF n
<1> QED BY <1>6, <1>7, <1>8 DEF Old!AllReturned

(***************************************************************************)
(* FCB_incref and FCB_decref are exact in the legacy kernel, for every     *)
(* number of processes, threads, descriptors and FCBs: over Dup2, Exec,    *)
(* exits, failed opens, half a reservation and calls that sleep in a       *)
(* stream while other threads close its descriptors.  So a stream is kept  *)
(* while it is used, and all FCBs are free when no process is left.        *)
(***************************************************************************)
THEOREM OldTableSafe == MCSpec => []OldTableSound
<1> DEFINE I == part = "old_streams" => OldInv
<1>1. MCInit => I
  BY OldInit DEF MCInit
<1>2. I /\ [MCNext]_allvars => I'
  <2> SUFFICES ASSUME I, [MCNext]_allvars, part' = "old_streams" PROVE OldInv'
    OBVIOUS
  <2>1. CASE part = "old_streams" /\ Old!Next
    BY <2>1, OldStep
  <2>2. CASE UNCHANGED allvars
    BY <2>2 DEF allvars, vars, OldInv, OldType, OldKept, OldGone
  <2> QED BY <2>1, <2>2 DEF MCNext
<1>3. I => OldTableSound
  BY OldInvSound DEF OldTableSound
<1> QED BY <1>1, <1>2, <1>3, PTL DEF MCSpec

=============================================================================
