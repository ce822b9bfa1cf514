---------------------------- MODULE SocketProofs ----------------------------
(***************************************************************************)
(* Proof that the ports, counts, pointers and pipe ends of the legacy      *)
(* sockets fit together (SocketSound), for any number of sockets, threads  *)
(* and ports, any bounds, and programs that make every kind of call, as    *)
(* long as they leave alone a socket that is being connected, and do not   *)
(* shut down a direction that a blocked Read or Write is using (Careful).  *)
(***************************************************************************)
EXTENDS Socket, FiniteSetTheorems, TLAPS

Request == [peer : Socks, owner : Threads \union {NULL}]

SockType ==
    [ type : {"NONE", "UNBOUND", "LISTENER", "PEER"}, port : Ports,
      refcount : Int, freed : BOOLEAN, open : BOOLEAN, fcb : Int,
      queue : Seq(Request), req_available : SUBSET Threads,
      read_pipe : Pipes \union {NULL}, write_pipe : Pipes \union {NULL} ]

CallType ==
    [ op : {"idle", "Accept", "Connect", "Read", "Write"}, sock : Socks \union {NULL},
      on : Socks \union Pipes \union {NULL}, admitted : BOOLEAN, timed : BOOLEAN ]

\* What is needed of a pipe control block: its ends, and whether it was freed.
IsPipe(r) == /\ {"reader", "writer", "freed"} \subseteq DOMAIN r
             /\ r.reader \in BOOLEAN /\ r.writer \in BOOLEAN /\ r.freed \in BOOLEAN

PipesOK(ps) == \A p \in Pipes : IsPipe(ps[p])

TypeOK ==
    /\ sock \in [Socks -> SockType]
    /\ DOMAIN pipes = Pipes /\ PipesOK(pipes)
    /\ PORT_MAP \in [Ports -> Socks \union {NULL}]
    /\ calling \in [Threads -> CallType]

\* The threads that wait with a pointer to listener l, and those in Read or
\* Write on socket s.
Waiting(l) == {t \in Threads : calling[t].op \in {"Accept", "Connect"} /\ calling[t].on = l}
Inside(s)  == {t \in Threads : calling[t].op \in {"Read", "Write"} /\ calling[t].sock = s}

CountInv == \A s \in Socks :
    /\ sock[s].refcount = Cardinality(Waiting(s))
    /\ sock[s].fcb = Cardinality(Inside(s)) + (IF sock[s].open THEN 1 ELSE 0)

\* A socket that asks an open listener for a connection is open and has none,
\* and it has asked once.
QueueInv ==
    /\ \A l \in Socks : \A i \in DOMAIN sock[l].queue : sock[l].open =>
        LET s == sock[l].queue[i].peer IN sock[s].type = "UNBOUND" /\ sock[s].open
    /\ \A l, m \in Socks : \A i \in DOMAIN sock[l].queue, j \in DOMAIN sock[m].queue :
        sock[l].open /\ sock[m].open /\ sock[l].queue[i].peer = sock[m].queue[j].peer
        => l = m /\ i = j

SockInv ==
    /\ \A s \in Socks :
        /\ sock[s].type # "PEER" => sock[s].read_pipe = NULL /\ sock[s].write_pipe = NULL
        /\ sock[s].open => ~sock[s].freed /\ sock[s].type # "NONE"
    /\ PortMapSound

\* What a thread in a call relies on.
CallOK(t) ==
    LET c == calling[t] IN
    /\ c.op \in {"Accept", "Connect"} =>
        c.on \in Socks /\ sock[c.on].type = "LISTENER" /\ ~sock[c.on].freed
    /\ c.op = "Read" => c.sock \in Socks /\ c.on \in Pipes /\ sock[c.sock].read_pipe = c.on
    /\ c.op = "Write" => c.sock \in Socks /\ c.on \in Pipes /\ sock[c.sock].write_pipe = c.on

CallInv == \A t \in Threads : CallOK(t)

\* Who holds the ends of the pipes ps, when the sockets are sk: an end is open
\* if and only if one socket holds it, a pipe that was freed has no open end,
\* and the pipes of a connection yet to come are not in use.
Ends(sk, ps) ==
    /\ \A p \in Pipes :
        /\ ps[p].reader => \E s \in Socks : sk[s].read_pipe = p
        /\ ps[p].writer => \E s \in Socks : sk[s].write_pipe = p
        /\ ps[p].freed => ~ps[p].reader /\ ~ps[p].writer
    /\ \A s \in Socks :
        /\ sk[s].read_pipe # NULL => ps[sk[s].read_pipe].reader
        /\ sk[s].write_pipe # NULL => ps[sk[s].write_pipe].writer
        /\ sk[s].read_pipe # NULL => sk[s].read_pipe # sk[s].write_pipe
    /\ \A s, u \in Socks :
        /\ sk[s].read_pipe # NULL /\ sk[s].read_pipe = sk[u].read_pipe => s = u
        /\ sk[s].write_pipe # NULL /\ sk[s].write_pipe = sk[u].write_pipe => s = u
        /\ sk[u].type = "NONE" => /\ sk[s].read_pipe \notin {Inward(u), Outward(u)}
                                  /\ sk[s].write_pipe \notin {Inward(u), Outward(u)}

SInv == TypeOK /\ CountInv /\ QueueInv /\ SockInv /\ CallInv /\ Ends(sock, pipes)

-----------------------------------------------------------------------------
(***************************************************************************)
(* The invariant holds at first, and it implies the property.              *)
(***************************************************************************)
LEMMA SInvInit == Init => SInv
<1> SUFFICES ASSUME Init PROVE SInv
  OBVIOUS
<1> USE SocketAssumption DEF Init
<1>1. IsPipe([pipe_init EXCEPT !.reader = FALSE, !.writer = FALSE])
  BY DEF IsPipe, pipe_init
<1>2. TypeOK
  <2>1. NoSock \in SockType
    BY DEF NoSock, SockType, Ports, NOPORT
  <2>2. Idle \in CallType
    BY DEF Idle, CallType
  <2>3. DOMAIN pipes = Pipes /\ PipesOK(pipes)
    BY <1>1 DEF PipesOK
  <2> QED BY <2>1, <2>2, <2>3 DEF TypeOK
<1>3. CountInv
  <2>1. ASSUME NEW s \in Socks PROVE Waiting(s) = {} /\ Inside(s) = {}
    BY DEF Waiting, Inside, Idle
  <2>2. Cardinality({}) = 0
    BY FS_EmptySet
  <2>3. ASSUME NEW s \in Socks PROVE sock[s].refcount = 0 /\ sock[s].fcb = 0 /\ sock[s].open = FALSE
    BY DEF NoSock
  <2>4. ASSUME NEW s \in Socks
        PROVE  /\ sock[s].refcount = Cardinality(Waiting(s))
               /\ sock[s].fcb = Cardinality(Inside(s)) + (IF sock[s].open THEN 1 ELSE 0)
    <3>1. Cardinality(Waiting(s)) = 0 /\ Cardinality(Inside(s)) = 0
      BY <2>1, <2>2, Zenon
    <3>2. sock[s].refcount = 0 /\ sock[s].fcb = 0 /\ sock[s].open = FALSE
      BY <2>3
    <3> HIDE DEF Init
    <3> QED BY ONLY <3>1, <3>2
  <2> QED BY <2>4 DEF CountInv
<1>4. QueueInv
  BY DEF QueueInv, NoSock
<1>5. SockInv
  BY DEF SockInv, NoSock, PortMapSound
<1>6. CallInv
  BY DEF CallInv, CallOK, Idle
<1>7. Ends(sock, pipes)
  <2>1. ASSUME NEW p \in Pipes PROVE ~pipes[p].reader /\ ~pipes[p].writer /\ ~pipes[p].freed
    BY DEF pipe_init
  <2>2. ASSUME NEW s \in Socks PROVE sock[s].read_pipe = NULL /\ sock[s].write_pipe = NULL
    BY DEF NoSock
  <2>3. ASSUME NEW s \in Socks PROVE Inward(s) \in Pipes /\ Outward(s) \in Pipes
    BY DEF Inward, Outward, Pipes
  <2> QED BY <2>1, <2>2, <2>3 DEF Ends, Pipes
<1> QED BY <1>2, <1>3, <1>4, <1>5, <1>6, <1>7 DEF SInv

LEMMA QueuedPeer ==
    ASSUME TypeOK, NEW l \in Socks, NEW i \in DOMAIN sock[l].queue
    PROVE  sock[l].queue[i].peer \in Socks
<1>1. sock[l].queue \in Seq(Request)
  BY DEF TypeOK, SockType
<1>2. sock[l].queue[i] \in Request
  BY <1>1
<1> QED BY <1>2 DEF Request

LEMMA SInvSound == SInv => SocketSound
<1> SUFFICES ASSUME SInv PROVE SocketSound
  OBVIOUS
<1>1. PortMapSound
  BY DEF SInv, SockInv
<1>2. RefcountExact
  BY DEF SInv, CountInv, RefcountExact, Waiting
<1>3. NoUseAfterFree
  <2>1. ASSUME NEW t \in Threads
        PROVE  /\ calling[t].op \in {"Accept", "Connect"} => ~sock[calling[t].on].freed
               /\ calling[t].op \in {"Read", "Write"} => ~pipes[calling[t].on].freed
    <3>1. calling[t].op \in {"Accept", "Connect"} => ~sock[calling[t].on].freed
      BY DEF SInv, CallInv, CallOK
    <3>2. ASSUME calling[t].op = "Read" PROVE ~pipes[calling[t].on].freed
      BY <3>2, SocketAssumption DEF SInv, CallInv, CallOK, Ends, Pipes
    <3>3. ASSUME calling[t].op = "Write" PROVE ~pipes[calling[t].on].freed
      BY <3>3, SocketAssumption DEF SInv, CallInv, CallOK, Ends, Pipes
    <3> QED BY <3>1, <3>2, <3>3
  <2>2. ASSUME NEW port \in Ports, PORT_MAP[port] # NULL,
               NEW i \in DOMAIN sock[PORT_MAP[port]].queue
        PROVE  ~sock[sock[PORT_MAP[port]].queue[i].peer].freed
    <3>1. PORT_MAP[port] \in Socks /\ sock[PORT_MAP[port]].open
      BY <2>2, <1>1 DEF SInv, TypeOK, PortMapSound
    <3>2. sock[PORT_MAP[port]].queue[i].peer \in Socks
      BY <3>1, QueuedPeer DEF SInv
    <3> QED BY <3>1, <3>2 DEF SInv, QueueInv, SockInv
  <2> QED BY <2>1, <2>2 DEF NoUseAfterFree
<1>4. EndsHeld
  <2>1. ASSUME NEW p \in Pipes, pipes[p].reader
        PROVE  \E s \in Socks : {u \in Socks : sock[u].read_pipe = p} = {s}
    <3>1. PICK s \in Socks : sock[s].read_pipe = p
      BY <2>1 DEF SInv, Ends
    <3>2. p # NULL
      BY SocketAssumption DEF Pipes
    <3> QED BY <3>1, <3>2 DEF SInv, Ends
  <2>2. ASSUME NEW p \in Pipes, pipes[p].writer
        PROVE  \E s \in Socks : {u \in Socks : sock[u].write_pipe = p} = {s}
    <3>1. PICK s \in Socks : sock[s].write_pipe = p
      BY <2>2 DEF SInv, Ends
    <3>2. p # NULL
      BY SocketAssumption DEF Pipes
    <3> QED BY <3>1, <3>2 DEF SInv, Ends
  <2>3. ASSUME NEW p \in Pipes, NEW s \in Socks, sock[s].read_pipe = p
        PROVE  sock[s].write_pipe # p
    BY <2>3, SocketAssumption DEF SInv, Ends, Pipes
  <2> QED BY <2>1, <2>2, <2>3 DEF EndsHeld
<1> QED BY <1>1, <1>2, <1>3, <1>4 DEF SocketSound

-----------------------------------------------------------------------------
(***************************************************************************)
(* Steps that leave most things alone.                                     *)
(***************************************************************************)
\* The sockets stay as they are, up to counts, sleepers, owners of requests and
\* pipes they let go of; or up to the first three.
SamePeers(q, r) == DOMAIN q = DOMAIN r /\ \A i \in DOMAIN q : q[i].peer = r[i].peer
Steady == \A s \in Socks :
    /\ sock'[s].type = sock[s].type /\ sock'[s].port = sock[s].port
    /\ sock'[s].freed = sock[s].freed /\ sock'[s].open = sock[s].open
    /\ sock'[s].read_pipe \in {sock[s].read_pipe, NULL}
    /\ sock'[s].write_pipe \in {sock[s].write_pipe, NULL}
    /\ SamePeers(sock'[s].queue, sock[s].queue)
Quiet == /\ Steady
         /\ \A s \in Socks : /\ sock'[s].read_pipe = sock[s].read_pipe
                             /\ sock'[s].write_pipe = sock[s].write_pipe

SamePipes(ps, qs) == \A p \in Pipes :
    ps[p].reader = qs[p].reader /\ ps[p].writer = qs[p].writer /\ ps[p].freed = qs[p].freed

SameCall(t) == /\ calling'[t].op = calling[t].op /\ calling'[t].sock = calling[t].sock
               /\ calling'[t].on = calling[t].on
OthersCall(t) == \A u \in Threads \ {t} : SameCall(u)

LEMMA SteadySocks ==
    ASSUME SInv, TypeOK', Steady, PORT_MAP' = PORT_MAP
    PROVE  QueueInv' /\ SockInv'
<1>1. QueueInv'
  <2>1. ASSUME NEW l \in Socks, NEW i \in DOMAIN sock'[l].queue, sock'[l].open
        PROVE  LET s == sock'[l].queue[i].peer IN sock'[s].type = "UNBOUND" /\ sock'[s].open
    <3>1. sock[l].open /\ i \in DOMAIN sock[l].queue /\ sock'[l].queue[i].peer = sock[l].queue[i].peer
      BY <2>1 DEF Steady, SamePeers
    <3>2. sock[l].queue[i].peer \in Socks
      BY <3>1, QueuedPeer DEF SInv
    <3> QED BY <3>1, <3>2 DEF SInv, QueueInv, Steady
  <2>2. ASSUME NEW l \in Socks, NEW m \in Socks,
               NEW i \in DOMAIN sock'[l].queue, NEW j \in DOMAIN sock'[m].queue,
               sock'[l].open, sock'[m].open, sock'[l].queue[i].peer = sock'[m].queue[j].peer
        PROVE  l = m /\ i = j
    BY <2>2 DEF SInv, QueueInv, Steady, SamePeers
  <2> QED BY <2>1, <2>2 DEF QueueInv
<1>2. SockInv'
  BY DEF SInv, SockInv, PortMapSound, Steady, TypeOK
<1> QED BY <1>1, <1>2

LEMMA QuietEnds ==
    ASSUME SInv, Quiet, SamePipes(pipes', pipes)
    PROVE  Ends(sock, pipes)'
<1>1. \A s \in Socks : sock[s].read_pipe \in Pipes \union {NULL} /\ sock[s].write_pipe \in Pipes \union {NULL}
  BY DEF SInv, TypeOK, SockType
<1> QED BY <1>1 DEF SInv, Ends, Quiet, Steady, SamePipes

LEMMA QuietCalls ==
    ASSUME SInv, Quiet, NEW t \in Threads, OthersCall(t), CallOK(t)'
    PROVE  CallInv'
<1>1. ASSUME NEW u \in Threads \ {t} PROVE CallOK(u)'
  BY DEF SInv, CallInv, CallOK, Quiet, Steady, OthersCall, SameCall
<1> QED BY <1>1 DEF CallInv

\* Counting: a thread joins a set or leaves it.
One(b) == IF b THEN 1 ELSE 0

LEMMA CountMove ==
    ASSUME NEW S, NEW T, NEW t, IsFiniteSet(S), IsFiniteSet(T), S \ {t} = T \ {t}
    PROVE  /\ Cardinality(S) \in Nat /\ Cardinality(T) \in Nat
           /\ Cardinality(T) - One(t \in T) = Cardinality(S) - One(t \in S)
<1>1. /\ Cardinality(S) \in Nat /\ Cardinality(T) \in Nat
  BY FS_CardinalityType
<1>2. Cardinality(S \ {t}) = Cardinality(S) - One(t \in S)
  BY <1>1, FS_RemoveElement DEF One
<1>3. Cardinality(T \ {t}) = Cardinality(T) - One(t \in T)
  BY <1>1, FS_RemoveElement DEF One
<1>4. Cardinality(T \ {t}) = Cardinality(S \ {t})
  BY Zenon
<1> QED BY <1>1, <1>2, <1>3, <1>4

LEMMA SetsFinite ==
    ASSUME NEW s PROVE IsFiniteSet(Waiting(s)) /\ IsFiniteSet(Inside(s))
<1>1. IsFiniteSet(Threads)
  BY SocketAssumption
<1>2. Waiting(s) \subseteq Threads /\ Inside(s) \subseteq Threads
  BY DEF Waiting, Inside
<1> QED BY <1>1, <1>2, FS_Subset

\* The counts follow thread t.
Follow(t) == \A s \in Socks :
    /\ sock'[s].refcount - One(t \in Waiting(s)') = sock[s].refcount - One(t \in Waiting(s))
    /\ sock'[s].fcb - One(t \in Inside(s)') - One(sock'[s].open)
       = sock[s].fcb - One(t \in Inside(s)) - One(sock[s].open)

LEMMA CountsFollow ==
    ASSUME SInv, TypeOK', NEW t \in Threads, OthersCall(t), Follow(t)
    PROVE  CountInv'
<1> SUFFICES ASSUME NEW s \in Socks
             PROVE  /\ sock'[s].refcount = Cardinality(Waiting(s)')
                    /\ sock'[s].fcb = Cardinality(Inside(s)') + One(sock'[s].open)
  BY DEF CountInv, One
<1> DEFINE W == Waiting(s)
           V == Waiting(s)'
           I == Inside(s)
           J == Inside(s)'
<1>1. IsFiniteSet(W) /\ IsFiniteSet(V) /\ IsFiniteSet(I) /\ IsFiniteSet(J)
  <2>1. IsFiniteSet(V) /\ IsFiniteSet(J)
    <3>1. V \subseteq Threads /\ J \subseteq Threads
      BY DEF Waiting, Inside
    <3> QED BY <3>1, SocketAssumption, FS_Subset
  <2> QED BY <2>1, SetsFinite
<1>2. W \ {t} = V \ {t} /\ I \ {t} = J \ {t}
  BY DEF Waiting, Inside, OthersCall, SameCall
<1>3. sock[s].refcount = Cardinality(W) /\ sock[s].fcb = Cardinality(I) + One(sock[s].open)
  BY DEF SInv, CountInv, One
<1>4. /\ sock'[s].refcount - One(t \in V) = sock[s].refcount - One(t \in W)
      /\ sock'[s].fcb - One(t \in J) - One(sock'[s].open)
         = sock[s].fcb - One(t \in I) - One(sock[s].open)
  BY DEF Follow
<1>5. sock'[s].refcount \in Int /\ sock'[s].fcb \in Int
  BY DEF TypeOK, SockType
<1> HIDE DEF W, V, I, J
<1>6. /\ Cardinality(W) \in Nat /\ Cardinality(V) \in Nat
      /\ Cardinality(V) - One(t \in V) = Cardinality(W) - One(t \in W)
  BY <1>1, <1>2, CountMove
<1>7. /\ Cardinality(I) \in Nat /\ Cardinality(J) \in Nat
      /\ Cardinality(J) - One(t \in J) = Cardinality(I) - One(t \in I)
  BY <1>1, <1>2, CountMove
<1>8. One(t \in V) \in Int /\ One(t \in W) \in Int /\ One(t \in I) \in Int /\ One(t \in J) \in Int
      /\ One(sock'[s].open) \in Int /\ One(sock[s].open) \in Int
  BY DEF One
<1>9. sock'[s].refcount = Cardinality(V)
  BY <1>3, <1>4, <1>5, <1>6, <1>8
<1>10. sock'[s].fcb = Cardinality(J) + One(sock'[s].open)
  BY <1>3, <1>4, <1>5, <1>7, <1>8
<1> QED BY <1>9, <1>10 DEF V, J

\* The counts when no thread moves.
Still == \A s \in Socks :
    /\ sock'[s].refcount = sock[s].refcount
    /\ sock'[s].fcb - One(sock'[s].open) = sock[s].fcb - One(sock[s].open)

LEMMA CountsStill ==
    ASSUME SInv, TypeOK', calling' = calling, Still
    PROVE  CountInv'
<1> SUFFICES ASSUME NEW s \in Socks
             PROVE  /\ sock'[s].refcount = Cardinality(Waiting(s)')
                    /\ sock'[s].fcb = Cardinality(Inside(s)') + One(sock'[s].open)
  BY DEF CountInv, One
<1>1. Waiting(s)' = Waiting(s) /\ Inside(s)' = Inside(s)
  BY DEF Waiting, Inside
<1>2. sock[s].refcount = Cardinality(Waiting(s)) /\ sock[s].fcb = Cardinality(Inside(s)) + One(sock[s].open)
  BY DEF SInv, CountInv, One
<1>3. Cardinality(Inside(s)) \in Nat
  BY SetsFinite, FS_CardinalityType
<1>4. sock'[s].fcb \in Int /\ One(sock'[s].open) \in Int /\ One(sock[s].open) \in Int
  BY DEF TypeOK, SockType, One
<1>5. /\ sock'[s].refcount = sock[s].refcount
      /\ sock'[s].fcb - One(sock'[s].open) = sock[s].fcb - One(sock[s].open)
  BY DEF Still
<1>6. sock'[s].fcb = Cardinality(Inside(s)) + One(sock'[s].open)
  BY <1>2, <1>3, <1>4, <1>5
<1> QED BY <1>1, <1>2, <1>5, <1>6

\* A socket that was not made yet: no thread knows it.
LEMMA Fresh ==
    ASSUME SInv, NEW s \in Socks, sock[s].type = "NONE"
    PROVE  /\ sock[s].refcount = 0 /\ sock[s].fcb = 0 /\ sock[s].open = FALSE
           /\ \A t \in Threads : t \notin Waiting(s) /\ t \notin Inside(s)
<1>1. sock[s].open = FALSE
  BY DEF SInv, SockInv, TypeOK, SockType
<1>2. Waiting(s) = {}
  BY DEF Waiting, SInv, CallInv, CallOK
<1>3. Inside(s) = {}
  BY SocketAssumption DEF Inside, SInv, CallInv, CallOK, SockInv, Pipes
<1>4. Cardinality(Waiting(s)) = 0 /\ Cardinality(Inside(s)) = 0
  BY <1>2, <1>3, FS_EmptySet, Zenon
<1>5. /\ sock[s].refcount = Cardinality(Waiting(s))
      /\ sock[s].fcb = Cardinality(Inside(s)) + (IF sock[s].open THEN 1 ELSE 0)
  BY DEF SInv, CountInv
<1> QED BY <1>1, <1>2, <1>3, <1>4, <1>5

-----------------------------------------------------------------------------
(***************************************************************************)
(* One lemma for each call.                                                *)
(***************************************************************************)
LEMMA NewSock ==
    ASSUME NewSocks # {}, NEW new, new = CHOOSE s \in NewSocks : TRUE
    PROVE  new \in Socks /\ sock[new].type = "NONE"
BY DEF NewSocks

\* Assignments to the fields of a socket.
LEMMA Fields ==
    ASSUME NEW r \in SockType
    PROVE  /\ \A x \in {"UNBOUND", "LISTENER", "PEER"} : [r EXCEPT !.type = x] \in SockType
           /\ \A x \in Ports : [r EXCEPT !.port = x] \in SockType
           /\ \A x \in Int : [r EXCEPT !.refcount = x] \in SockType
           /\ \A x \in Int : [r EXCEPT !.fcb = x] \in SockType
           /\ \A x \in BOOLEAN : [r EXCEPT !.open = x] \in SockType
           /\ \A x \in BOOLEAN : [r EXCEPT !.freed = x] \in SockType
           /\ \A x \in Seq(Request) : [r EXCEPT !.queue = x] \in SockType
           /\ \A x \in SUBSET Threads : [r EXCEPT !.req_available = x] \in SockType
           /\ \A x \in Pipes \union {NULL} : [r EXCEPT !.read_pipe = x] \in SockType
           /\ \A x \in Pipes \union {NULL} : [r EXCEPT !.write_pipe = x] \in SockType
<1>1. ASSUME NEW x \in {"UNBOUND", "LISTENER", "PEER"} PROVE [r EXCEPT !.type = x] \in SockType
  BY DEF SockType
<1>2. ASSUME NEW x \in Ports PROVE [r EXCEPT !.port = x] \in SockType
  BY DEF SockType
<1>3. ASSUME NEW x \in Int PROVE [r EXCEPT !.refcount = x] \in SockType
  BY DEF SockType
<1>4. ASSUME NEW x \in Int PROVE [r EXCEPT !.fcb = x] \in SockType
  BY DEF SockType
<1>5. ASSUME NEW x \in BOOLEAN PROVE [r EXCEPT !.open = x] \in SockType
  BY DEF SockType
<1>6. ASSUME NEW x \in BOOLEAN PROVE [r EXCEPT !.freed = x] \in SockType
  BY DEF SockType
<1>7. ASSUME NEW x \in Seq(Request) PROVE [r EXCEPT !.queue = x] \in SockType
  BY DEF SockType
<1>8. ASSUME NEW x \in SUBSET Threads PROVE [r EXCEPT !.req_available = x] \in SockType
  BY DEF SockType
<1>9. ASSUME NEW x \in Pipes \union {NULL} PROVE [r EXCEPT !.read_pipe = x] \in SockType
  BY DEF SockType
<1>10. ASSUME NEW x \in Pipes \union {NULL} PROVE [r EXCEPT !.write_pipe = x] \in SockType
  BY DEF SockType
<1> QED BY <1>1, <1>2, <1>3, <1>4, <1>5, <1>6, <1>7, <1>8, <1>9, <1>10

LEMMA InitType ==
    ASSUME NEW port \in Ports
    PROVE  socket_cb_init(port) \in SockType
<1>1. NoSock \in SockType
  BY SocketAssumption DEF NoSock, SockType, NOPORT, Ports
<1> DEFINE a == [NoSock EXCEPT !.type = "UNBOUND"]
           b == [a EXCEPT !.port = port]
           c == [b EXCEPT !.open = TRUE]
           d == [c EXCEPT !.fcb = 1]
<1>2. socket_cb_init(port) = d
  BY DEF socket_cb_init
<1>3. a \in SockType
  BY <1>1, Fields
<1> HIDE DEF a
<1>4. b \in SockType
  BY <1>3, Fields
<1> HIDE DEF b
<1>5. c \in SockType
  BY <1>4, Fields
<1> HIDE DEF c
<1>6. d \in SockType
  <2>1. 1 \in Int
    OBVIOUS
  <2> QED BY <1>5, <2>1, Fields, Zenon
<1> QED BY <1>2, <1>6

LEMMA SocketStep ==
    ASSUME SInv, NEW port \in UsedPorts, sys_Socket(port)
    PROVE  SInv'
<1> DEFINE new == CHOOSE s \in NewSocks : TRUE
<1>1. new \in Socks /\ sock[new].type = "NONE"
  BY NewSock DEF sys_Socket, CanReserve
<1>2. /\ sock' = [sock EXCEPT ![new] = socket_cb_init(port)]
      /\ pipes' = pipes /\ PORT_MAP' = PORT_MAP /\ calling' = calling
  BY DEF sys_Socket
<1> HIDE DEF new
<1>3. socket_cb_init(port) \in SockType
  BY InitType, SocketAssumption DEF Ports
<1>4. TypeOK'
  BY <1>1, <1>2, <1>3 DEF SInv, TypeOK
<1>5. /\ sock'[new].type = "UNBOUND" /\ sock'[new].open = TRUE /\ sock'[new].freed = FALSE
      /\ sock'[new].read_pipe = NULL /\ sock'[new].write_pipe = NULL /\ sock'[new].queue = <<>>
      /\ sock'[new].refcount = 0 /\ sock'[new].fcb = 1
  BY <1>1, <1>2 DEF SInv, TypeOK, socket_cb_init, NoSock
<1>6. \A s \in Socks \ {new} : sock'[s] = sock[s]
  BY <1>2 DEF SInv, TypeOK
<1>7. sock[new].read_pipe = NULL /\ sock[new].write_pipe = NULL
  BY <1>1 DEF SInv, SockInv
<1>8. CountInv'
  <2>1. sock[new].refcount = 0 /\ sock[new].fcb = 0 /\ sock[new].open = FALSE
    BY <1>1, Fresh
  <2>2. Still
    BY <1>5, <1>6, <2>1 DEF Still, One
  <2> QED BY <1>2, <1>4, <2>2, CountsStill
<1>9. QueueInv'
  <2>1. DOMAIN sock'[new].queue = {}
    BY <1>5
  <2>2. ASSUME NEW l \in Socks, NEW i \in DOMAIN sock'[l].queue, sock'[l].open
        PROVE  LET s == sock'[l].queue[i].peer IN sock'[s].type = "UNBOUND" /\ sock'[s].open
    <3>1. l # new /\ sock'[l] = sock[l]
      BY <1>6, <2>1, <2>2
    <3>2. sock[l].queue[i].peer \in Socks
      BY <2>2, <3>1, QueuedPeer DEF SInv
    <3> QED BY <1>1, <1>6, <2>2, <3>1, <3>2 DEF SInv, QueueInv
  <2>3. ASSUME NEW l \in Socks, NEW m \in Socks,
               NEW i \in DOMAIN sock'[l].queue, NEW j \in DOMAIN sock'[m].queue,
               sock'[l].open, sock'[m].open, sock'[l].queue[i].peer = sock'[m].queue[j].peer
        PROVE  l = m /\ i = j
    <3>1. sock'[l] = sock[l] /\ sock'[m] = sock[m]
      BY <1>6, <2>1, <2>3
    <3> QED BY <2>3, <3>1 DEF SInv, QueueInv
  <2> QED BY <2>2, <2>3 DEF QueueInv
<1>10. SockInv'
  BY <1>1, <1>2, <1>5, <1>6 DEF SInv, SockInv, PortMapSound, TypeOK
<1>11. CallInv'
  BY <1>1, <1>2, <1>5, <1>6, <1>7 DEF SInv, CallInv, CallOK
<1>12. Ends(sock, pipes)'
  <2>1. ASSUME NEW s \in Socks
        PROVE  /\ sock'[s].read_pipe = sock[s].read_pipe /\ sock'[s].write_pipe = sock[s].write_pipe
               /\ sock'[s].type = "NONE" => sock[s].type = "NONE"
    BY <1>5, <1>6, <1>7
  <2> QED BY <1>2, <2>1 DEF SInv, Ends
<1> QED BY <1>4, <1>8, <1>9, <1>10, <1>11, <1>12 DEF SInv

LEMMA ListenStep ==
    ASSUME SInv, Careful, NEW s \in Socks, sys_Listen(s)
    PROVE  SInv'
<1> DEFINE port == sock[s].port
<1>1. /\ sock[s].open /\ ~Pending(s) /\ sock[s].type = "UNBOUND"
      /\ PORT_MAP' = [PORT_MAP EXCEPT ![port] = s]
      /\ sock' = [sock EXCEPT ![s].type = "LISTENER"]
      /\ pipes' = pipes /\ calling' = calling
  BY DEF sys_Listen, Usable
<1>2. port \in Ports
  BY DEF SInv, TypeOK, SockType
<1>3. TypeOK'
  <2>1. sock' \in [Socks -> SockType]
    BY <1>1, Fields DEF SInv, TypeOK
  <2> QED BY <1>1, <1>2, <2>1 DEF SInv, TypeOK
<1>4. sock'[s] = [sock[s] EXCEPT !.type = "LISTENER"] /\ \A u \in Socks \ {s} : sock'[u] = sock[u]
  BY <1>1 DEF SInv, TypeOK
<1>5. /\ sock'[s].type = "LISTENER"
      /\ \A u \in Socks : /\ u # s => sock'[u].type = sock[u].type
                          /\ sock'[u].port = sock[u].port
                          /\ sock'[u].freed = sock[u].freed /\ sock'[u].open = sock[u].open
                          /\ sock'[u].refcount = sock[u].refcount /\ sock'[u].fcb = sock[u].fcb
                          /\ sock'[u].queue = sock[u].queue
                          /\ sock'[u].read_pipe = sock[u].read_pipe
                          /\ sock'[u].write_pipe = sock[u].write_pipe
  BY <1>4 DEF SInv, TypeOK, SockType
<1>6. CountInv'
  <2>1. Still
    BY <1>5 DEF Still
  <2> QED BY <1>1, <1>3, <2>1, CountsStill
<1>7. QueueInv'
  <2>1. ASSUME NEW l \in Socks, NEW i \in DOMAIN sock[l].queue, sock[l].open
        PROVE  /\ sock[l].queue[i].peer \in Socks \ {s}
               /\ LET u == sock[l].queue[i].peer IN sock'[u].type = "UNBOUND" /\ sock'[u].open
    <3>1. sock[l].queue[i].peer \in Socks
      BY <2>1, QueuedPeer DEF SInv
    <3>2. sock[l].queue[i].peer # s
      BY <1>1, <2>1 DEF Pending, Asks
    <3> QED BY <1>5, <2>1, <3>1, <3>2 DEF SInv, QueueInv
  <2> QED BY <1>5, <2>1 DEF SInv, QueueInv
<1>8. SockInv'
  <2>1. \A u \in Socks :
          /\ sock'[u].type # "PEER" => sock'[u].read_pipe = NULL /\ sock'[u].write_pipe = NULL
          /\ sock'[u].open => ~sock'[u].freed /\ sock'[u].type # "NONE"
    BY <1>1, <1>5 DEF SInv, SockInv
  <2>2. PortMapSound'
    <3> SUFFICES ASSUME NEW p \in Ports, PORT_MAP'[p] # NULL
                 PROVE  LET l == PORT_MAP'[p] IN
                        /\ sock'[l].type = "LISTENER" /\ sock'[l].port = p
                        /\ ~sock'[l].freed /\ sock'[l].open
      BY DEF PortMapSound
    <3>1. CASE p = port
      BY <1>1, <1>2, <1>5, <3>1 DEF SInv, SockInv, TypeOK
    <3>2. CASE p # port
      BY <1>1, <1>2, <1>5, <3>2 DEF SInv, SockInv, PortMapSound, TypeOK
    <3> QED BY <3>1, <3>2
  <2> QED BY <2>1, <2>2 DEF SockInv
<1>9. CallInv'
  BY <1>1, <1>5 DEF SInv, CallInv, CallOK
<1>10. Ends(sock, pipes)'
  <2>1. \A u \in Socks : sock'[u].type = "NONE" => sock[u].type = "NONE"
    BY <1>5
  <2> QED BY <1>1, <1>5, <2>1 DEF SInv, Ends
<1> QED BY <1>3, <1>6, <1>7, <1>8, <1>9, <1>10 DEF SInv

-----------------------------------------------------------------------------
(***************************************************************************)
(* Closing the ends of pipes.                                              *)
(***************************************************************************)
PipesIn(ps) == DOMAIN ps = Pipes /\ PipesOK(ps)

\* The pipes ps become qs when the read end of r and the write end of w are
\* closed, each of which may be NULL.
Ended(ps, qs, r, w) ==
    /\ PipesIn(qs)
    /\ \A p \in Pipes :
        /\ qs[p].reader <=> ps[p].reader /\ p # r
        /\ qs[p].writer <=> ps[p].writer /\ p # w
        /\ qs[p].freed => ps[p].freed \/ (~qs[p].reader /\ ~qs[p].writer)

LEMMA ReaderClosed ==
    ASSUME NEW a, IsPipe(a)
    PROVE  LET b == pipe_reader_close(a) IN
           IsPipe(b) /\ ~b.reader /\ b.writer = a.writer /\ b.freed = a.freed
BY DEF IsPipe, pipe_reader_close

LEMMA WriterClosed ==
    ASSUME NEW a, IsPipe(a)
    PROVE  LET b == pipe_writer_close(a) IN
           /\ IsPipe(b) /\ ~b.writer /\ b.reader = a.reader
           /\ b.freed => a.freed \/ ~b.reader
<1> DEFINE b == pipe_writer_close(a)
<1>1. CASE a.reader
  <2>1. b = [a EXCEPT !.writer = FALSE, !.hasData = {}]
    BY <1>1 DEF pipe_writer_close
  <2> HIDE DEF b
  <2> QED BY <2>1, <1>1 DEF IsPipe, b
<1>2. CASE ~a.reader
  <2>1. b = [a EXCEPT !.writer = FALSE, !.freed = TRUE]
    BY <1>2 DEF pipe_writer_close
  <2> HIDE DEF b
  <2> QED BY <2>1, <1>2 DEF IsPipe, b
<1> QED BY <1>1, <1>2

LEMMA CloseReadEnds ==
    ASSUME NEW ps, PipesIn(ps), NEW r \in Pipes \union {NULL}
    PROVE  Ended(ps, CloseRead(ps, r), r, NULL)
<1> DEFINE qs == CloseRead(ps, r)
<1>0. NULL \notin Pipes
  BY SocketAssumption DEF Pipes
<1>1. CASE r = NULL
  BY <1>0, <1>1 DEF Ended, CloseRead, PipesIn
<1>2. CASE r # NULL
  <2>1. r \in Pipes /\ qs = [ps EXCEPT ![r] = pipe_reader_close(ps[r])]
    BY <1>2 DEF CloseRead
  <2>2. DOMAIN qs = Pipes /\ qs[r] = pipe_reader_close(ps[r]) /\ \A p \in Pipes \ {r} : qs[p] = ps[p]
    BY <2>1 DEF PipesIn
  <2>3. IsPipe(qs[r]) /\ ~qs[r].reader /\ qs[r].writer = ps[r].writer /\ qs[r].freed = ps[r].freed
    BY <2>1, <2>2, ReaderClosed DEF PipesIn, PipesOK
  <2> HIDE DEF qs
  <2>4. PipesIn(qs)
    BY <2>2, <2>3 DEF PipesIn, PipesOK
  <2> QED BY <1>0, <2>2, <2>3, <2>4 DEF Ended, qs
<1> QED BY <1>1, <1>2

LEMMA CloseWriteEnds ==
    ASSUME NEW ps, PipesIn(ps), NEW w \in Pipes \union {NULL}
    PROVE  Ended(ps, CloseWrite(ps, w), NULL, w)
<1> DEFINE qs == CloseWrite(ps, w)
<1>0. NULL \notin Pipes
  BY SocketAssumption DEF Pipes
<1>1. CASE w = NULL
  BY <1>0, <1>1 DEF Ended, CloseWrite, PipesIn
<1>2. CASE w # NULL
  <2>1. w \in Pipes /\ qs = [ps EXCEPT ![w] = pipe_writer_close(ps[w])]
    BY <1>2 DEF CloseWrite
  <2>2. DOMAIN qs = Pipes /\ qs[w] = pipe_writer_close(ps[w]) /\ \A p \in Pipes \ {w} : qs[p] = ps[p]
    BY <2>1 DEF PipesIn
  <2>3. /\ IsPipe(qs[w]) /\ ~qs[w].writer /\ qs[w].reader = ps[w].reader
        /\ qs[w].freed => ps[w].freed \/ ~qs[w].reader
    BY <2>1, <2>2, WriterClosed DEF PipesIn, PipesOK
  <2> HIDE DEF qs
  <2>4. PipesIn(qs)
    BY <2>2, <2>3 DEF PipesIn, PipesOK
  <2> QED BY <1>0, <2>2, <2>3, <2>4 DEF Ended, qs
<1> QED BY <1>1, <1>2

LEMMA CloseBoth ==
    ASSUME NEW ps, PipesIn(ps), NEW r \in Pipes \union {NULL}, NEW w \in Pipes \union {NULL}
    PROVE  /\ Ended(ps, CloseRead(CloseWrite(ps, w), r), r, w)
           /\ Ended(ps, CloseWrite(CloseRead(ps, r), w), r, w)
<1>0. NULL \notin Pipes
  BY SocketAssumption DEF Pipes
<1>1. Ended(ps, CloseRead(CloseWrite(ps, w), r), r, w)
  <2> DEFINE qs == CloseWrite(ps, w)
             rs == CloseRead(qs, r)
  <2>1. Ended(ps, qs, NULL, w)
    BY CloseWriteEnds
  <2> HIDE DEF qs
  <2>2. Ended(qs, rs, r, NULL)
    BY <2>1, CloseReadEnds DEF Ended
  <2> HIDE DEF rs
  <2>3. Ended(ps, rs, r, w)
    BY <1>0, <2>1, <2>2 DEF Ended
  <2> QED BY <2>3 DEF qs, rs
<1>2. Ended(ps, CloseWrite(CloseRead(ps, r), w), r, w)
  <2> DEFINE qs == CloseRead(ps, r)
             rs == CloseWrite(qs, w)
  <2>1. Ended(ps, qs, r, NULL)
    BY CloseReadEnds
  <2> HIDE DEF qs
  <2>2. Ended(qs, rs, NULL, w)
    BY <2>1, CloseWriteEnds DEF Ended
  <2> HIDE DEF rs
  <2>3. Ended(ps, rs, r, w)
    BY <1>0, <2>1, <2>2 DEF Ended
  <2> QED BY <2>3 DEF qs, rs
<1> QED BY <1>1, <1>2

\* The sockets sk become tk when s lets go of the read end of r and of the write
\* end of w.
LetGo(sk, tk, s, r, w) ==
    /\ \A u \in Socks : /\ tk[u].type = "NONE" => sk[u].type = "NONE"
                        /\ sk[u].read_pipe \in Pipes \union {NULL}
                        /\ sk[u].write_pipe \in Pipes \union {NULL}
                        /\ u # s => /\ tk[u].read_pipe = sk[u].read_pipe
                                    /\ tk[u].write_pipe = sk[u].write_pipe
    /\ \/ r = sk[s].read_pipe /\ tk[s].read_pipe = NULL
       \/ r = NULL /\ tk[s].read_pipe = sk[s].read_pipe
    /\ \/ w = sk[s].write_pipe /\ tk[s].write_pipe = NULL
       \/ w = NULL /\ tk[s].write_pipe = sk[s].write_pipe

LEMMA EndsLetGo ==
    ASSUME NEW sk, NEW tk, NEW ps, NEW qs, NEW s \in Socks, NEW r, NEW w,
           Ends(sk, ps), LetGo(sk, tk, s, r, w), Ended(ps, qs, r, w)
    PROVE  Ends(tk, qs)
<1>0. NULL \notin Pipes
  BY SocketAssumption DEF Pipes
<1>1. ASSUME NEW p \in Pipes
      PROVE  /\ qs[p].reader => \E u \in Socks : tk[u].read_pipe = p
             /\ qs[p].writer => \E u \in Socks : tk[u].write_pipe = p
             /\ qs[p].freed => ~qs[p].reader /\ ~qs[p].writer
  <2>1. qs[p].reader => \E u \in Socks : tk[u].read_pipe = p
    BY <1>0 DEF Ends, LetGo, Ended
  <2>2. qs[p].writer => \E u \in Socks : tk[u].write_pipe = p
    BY <1>0 DEF Ends, LetGo, Ended
  <2>3. qs[p].freed => ~qs[p].reader /\ ~qs[p].writer
    BY DEF Ends, Ended
  <2> QED BY <2>1, <2>2, <2>3
<1>2. ASSUME NEW u \in Socks
      PROVE  /\ tk[u].read_pipe \in {sk[u].read_pipe, NULL}
             /\ tk[u].write_pipe \in {sk[u].write_pipe, NULL}
             /\ tk[u].read_pipe # NULL => tk[u].read_pipe # r
             /\ tk[u].write_pipe # NULL => tk[u].write_pipe # w
  BY <1>0 DEF Ends, LetGo
<1>3. ASSUME NEW u \in Socks
      PROVE  /\ tk[u].read_pipe # NULL => qs[tk[u].read_pipe].reader
             /\ tk[u].write_pipe # NULL => qs[tk[u].write_pipe].writer
             /\ tk[u].read_pipe # NULL => tk[u].read_pipe # tk[u].write_pipe
  BY <1>0, <1>2 DEF Ends, LetGo, Ended
<1>4. ASSUME NEW u \in Socks, NEW v \in Socks
      PROVE  /\ tk[u].read_pipe # NULL /\ tk[u].read_pipe = tk[v].read_pipe => u = v
             /\ tk[u].write_pipe # NULL /\ tk[u].write_pipe = tk[v].write_pipe => u = v
             /\ tk[v].type = "NONE" => /\ tk[u].read_pipe \notin {Inward(v), Outward(v)}
                                       /\ tk[u].write_pipe \notin {Inward(v), Outward(v)}
  <2>1. Inward(v) \in Pipes /\ Outward(v) \in Pipes
    BY DEF Inward, Outward, Pipes
  <2> HIDE DEF Inward, Outward
  <2> QED BY <1>0, <1>2, <2>1 DEF Ends, LetGo
<1> QED BY <1>1, <1>3, <1>4 DEF Ends

-----------------------------------------------------------------------------
(***************************************************************************)
(* ShutDown and Close.                                                     *)
(***************************************************************************)
LEMMA ShutDownStep ==
    ASSUME SInv, Careful, NEW s \in Socks, NEW how \in {"READ", "WRITE", "BOTH"},
           sys_ShutDown(s, how)
    PROVE  SInv'
<1> DEFINE r == IF how = "WRITE" THEN NULL ELSE sock[s].read_pipe
           w == IF how = "READ" THEN NULL ELSE sock[s].write_pipe
           x == IF how = "WRITE" THEN sock[s].read_pipe ELSE NULL
           y == IF how = "READ" THEN sock[s].write_pipe ELSE NULL
<1>0. \A t \in Threads : calling[t].sock = s => calling[t].op \notin ShutOff(how)
  BY DEF sys_ShutDown
<1>1. /\ sock[s].type = "PEER"
      /\ PORT_MAP' = PORT_MAP /\ calling' = calling
      /\ sock' = [sock EXCEPT ![s].read_pipe = x, ![s].write_pipe = y]
  BY DEF sys_ShutDown
<1>2. sock[s] \in SockType /\ PipesIn(pipes)
  BY DEF SInv, TypeOK, PipesIn
<1>3. /\ sock[s].read_pipe \in Pipes \union {NULL} /\ sock[s].write_pipe \in Pipes \union {NULL}
      /\ x \in Pipes \union {NULL} /\ y \in Pipes \union {NULL}
  BY <1>2 DEF SockType
<1>4. Ended(pipes, pipes', r, w)
  <2>1. CASE how = "READ"
    <3>1. pipes' = CloseRead(pipes, sock[s].read_pipe)
      BY <2>1 DEF sys_ShutDown
    <3> QED BY <1>2, <1>3, <2>1, <3>1, CloseReadEnds
  <2>2. CASE how = "WRITE"
    <3>1. pipes' = CloseWrite(pipes, sock[s].write_pipe)
      BY <2>2 DEF sys_ShutDown
    <3> QED BY <1>2, <1>3, <2>2, <3>1, CloseWriteEnds
  <2>3. CASE how = "BOTH"
    <3>1. pipes' = CloseRead(CloseWrite(pipes, sock[s].write_pipe), sock[s].read_pipe)
      BY <2>3 DEF sys_ShutDown
    <3> QED BY <1>2, <1>3, <2>3, <3>1, CloseBoth
  <2> QED BY <2>1, <2>2, <2>3
<1>5. /\ (r = sock[s].read_pipe /\ x = NULL) \/ (r = NULL /\ x = sock[s].read_pipe)
      /\ (w = sock[s].write_pipe /\ y = NULL) \/ (w = NULL /\ y = sock[s].write_pipe)
  OBVIOUS
<1>6. \A t \in Threads : calling[t].sock = s =>
        /\ calling[t].op = "Read" => x = sock[s].read_pipe
        /\ calling[t].op = "Write" => y = sock[s].write_pipe
  BY <1>0 DEF ShutOff
<1> HIDE DEF r, w, x, y
<1>7. sock' \in [Socks -> SockType]
  <2>1. [sock[s] EXCEPT !.read_pipe = x] \in SockType
    BY <1>2, <1>3, Fields
  <2>2. [[sock[s] EXCEPT !.read_pipe = x] EXCEPT !.write_pipe = y] \in SockType
    BY <1>3, <2>1, Fields
  <2>3. sock' = [sock EXCEPT ![s] = [[sock[s] EXCEPT !.read_pipe = x] EXCEPT !.write_pipe = y]]
    BY <1>1 DEF SInv, TypeOK
  <2> QED BY <2>2, <2>3 DEF SInv, TypeOK
<1>8. TypeOK'
  BY <1>1, <1>4, <1>7 DEF SInv, TypeOK, Ended, PipesIn
<1>9. /\ sock'[s].read_pipe = x /\ sock'[s].write_pipe = y
      /\ \A u \in Socks \ {s} : sock'[u] = sock[u]
      /\ \A u \in Socks : /\ sock'[u].type = sock[u].type /\ sock'[u].port = sock[u].port
                          /\ sock'[u].freed = sock[u].freed /\ sock'[u].open = sock[u].open
                          /\ sock'[u].refcount = sock[u].refcount /\ sock'[u].fcb = sock[u].fcb
                          /\ sock'[u].queue = sock[u].queue
  BY <1>1, <1>2 DEF SInv, TypeOK, SockType
<1>10. Steady
  <2>1. x \in {sock[s].read_pipe, NULL} /\ y \in {sock[s].write_pipe, NULL}
    BY <1>5
  <2> QED BY <1>9, <2>1 DEF Steady, SamePeers
<1>11. QueueInv' /\ SockInv'
  BY <1>1, <1>8, <1>10, SteadySocks
<1>12. CountInv'
  <2>1. Still
    BY <1>9 DEF Still
  <2> QED BY <1>1, <1>8, <2>1, CountsStill
<1>13. CallInv'
  <2>1. ASSUME NEW t \in Threads PROVE CallOK(t)'
    <3>1. CallOK(t) /\ calling'[t] = calling[t]
      BY <1>1 DEF SInv, CallInv
    <3>2. CASE calling[t].sock # s
      <4>1. calling[t].sock \in Socks => sock'[calling[t].sock] = sock[calling[t].sock]
        BY <1>9, <3>2
      <4> QED BY <1>9, <3>1, <4>1 DEF CallOK
    <3>3. CASE calling[t].sock = s
      BY <1>6, <1>9, <3>1, <3>3 DEF CallOK
    <3> QED BY <3>2, <3>3
  <2> QED BY <2>1 DEF CallInv
<1>14. Ends(sock, pipes)'
  <2>1. LetGo(sock, sock', s, r, w)
    BY <1>5, <1>9 DEF LetGo, SInv, TypeOK, SockType
  <2> QED BY <1>4, <2>1, EndsLetGo DEF SInv
<1> QED BY <1>8, <1>11, <1>12, <1>13, <1>14 DEF SInv

\* What FCB_decref does.
Unbound(r) == r.type # "PEER" => r.read_pipe = NULL /\ r.write_pipe = NULL
Decref(s, socks) ==
    /\ sock' \in [Socks -> SockType] /\ PORT_MAP' \in [Ports -> Socks \union {NULL}] /\ PipesIn(pipes')
    /\ \A u \in Socks \ {s} : sock'[u] = socks[u]
    /\ sock'[s].type = socks[s].type /\ sock'[s].port = socks[s].port
    /\ sock'[s].queue = socks[s].queue /\ sock'[s].open = socks[s].open
    /\ sock'[s].refcount = socks[s].refcount /\ sock'[s].fcb = socks[s].fcb - 1
Stays(s, socks, ps) ==
    /\ socks[s].fcb # 1 /\ sock'[s].freed = socks[s].freed
    /\ sock'[s].read_pipe = socks[s].read_pipe /\ sock'[s].write_pipe = socks[s].write_pipe
    /\ pipes' = ps /\ PORT_MAP' = PORT_MAP
Closes(s, socks, ps) ==
    /\ socks[s].fcb = 1 /\ (sock'[s].freed <=> socks[s].refcount = 0)
    /\ sock'[s].read_pipe = NULL /\ sock'[s].write_pipe = NULL
    /\ Ended(ps, pipes', socks[s].read_pipe, socks[s].write_pipe)
    /\ PORT_MAP' = IF socks[s].type = "LISTENER"
                   THEN [PORT_MAP EXCEPT ![socks[s].port] = NULL] ELSE PORT_MAP

LEMMA DecrefDoes ==
    ASSUME NEW s \in Socks, NEW socks \in [Socks -> SockType], NEW ps, PipesIn(ps),
           PORT_MAP \in [Ports -> Socks \union {NULL}], Unbound(socks[s]), FCB_decref(s, socks, ps)
    PROVE  Decref(s, socks) /\ (Stays(s, socks, ps) \/ Closes(s, socks, ps))
<1> DEFINE less == [socks EXCEPT ![s].fcb = @ - 1]
           c == less[s]
<1>0. socks[s] \in SockType /\ socks[s].fcb - 1 \in Int
  BY DEF SockType
<1>1. less \in [Socks -> SockType]
  <2>1. [socks[s] EXCEPT !.fcb = socks[s].fcb - 1] \in SockType
    BY <1>0, Fields
  <2> QED BY <2>1
<1>2. /\ \A u \in Socks \ {s} : less[u] = socks[u]
      /\ c.fcb = socks[s].fcb - 1 /\ c.type = socks[s].type /\ c.port = socks[s].port
      /\ c.queue = socks[s].queue /\ c.open = socks[s].open /\ c.refcount = socks[s].refcount
      /\ c.freed = socks[s].freed
      /\ c.read_pipe = socks[s].read_pipe /\ c.write_pipe = socks[s].write_pipe
  BY <1>0 DEF SockType
<1>3. socks[s].fcb \in Int
  BY <1>0 DEF SockType
<1>4. CASE c.fcb # 0
  <2>1. sock' = less /\ pipes' = ps /\ PORT_MAP' = PORT_MAP
    BY <1>4 DEF FCB_decref
  <2> HIDE DEF less
  <2> QED BY <1>1, <1>2, <1>3, <1>4, <2>1 DEF Decref, Stays
<1>5. CASE c.fcb = 0
  <2>1. socket_close(s, less, ps)
    BY <1>5 DEF FCB_decref
  <2> HIDE DEF less
  <2> DEFINE q == IF c.type = "LISTENER" THEN {} ELSE c.req_available
             f == (c.refcount = 0)
             a == [c EXCEPT !.req_available = q]
             b == [a EXCEPT !.read_pipe = NULL]
             d == [b EXCEPT !.write_pipe = NULL]
             e == [d EXCEPT !.freed = f]
  <2>2. sock' = [less EXCEPT ![s] = e]
    <3>1. sock' = [less EXCEPT ![s].req_available = IF c.type = "LISTENER" THEN {} ELSE @,
                             ![s].read_pipe = NULL, ![s].write_pipe = NULL,
                             ![s].freed = c.refcount = 0]
      BY <2>1 DEF socket_close
    <3> QED BY <1>1, <3>1
  <2>3. c \in SockType /\ c.req_available \in SUBSET Threads /\ q \in SUBSET Threads /\ f \in BOOLEAN
    BY <1>1 DEF SockType
  <2> HIDE DEF q, f, c
  <2>4. a \in SockType
    BY <2>3, Fields
  <2>5. /\ a.fcb = c.fcb /\ a.type = c.type /\ a.port = c.port
        /\ a.queue = c.queue /\ a.open = c.open /\ a.refcount = c.refcount
    BY <2>3 DEF SockType
  <2> HIDE DEF a
  <2>6. b \in SockType
    BY <2>4, Fields
  <2>7. /\ b.fcb = c.fcb /\ b.type = c.type /\ b.port = c.port
        /\ b.queue = c.queue /\ b.open = c.open /\ b.refcount = c.refcount
        /\ b.read_pipe = NULL
    BY <2>4, <2>5 DEF SockType
  <2> HIDE DEF b
  <2>8. d \in SockType
    BY <2>6, Fields
  <2>9. /\ d.fcb = c.fcb /\ d.type = c.type /\ d.port = c.port
        /\ d.queue = c.queue /\ d.open = c.open /\ d.refcount = c.refcount
        /\ d.read_pipe = NULL /\ d.write_pipe = NULL
    BY <2>6, <2>7 DEF SockType
  <2> HIDE DEF d
  <2>10. e \in SockType
    BY <2>3, <2>8, Fields
  <2>11. /\ e.fcb = c.fcb /\ e.type = c.type /\ e.port = c.port
         /\ e.queue = c.queue /\ e.open = c.open /\ e.refcount = c.refcount
         /\ e.read_pipe = NULL /\ e.write_pipe = NULL /\ e.freed = f
    BY <2>8, <2>9 DEF SockType
  <2> HIDE DEF e
  <2>12. sock' \in [Socks -> SockType] /\ sock'[s] = e /\ \A u \in Socks \ {s} : sock'[u] = less[u]
    BY <1>1, <2>2, <2>10
  <2>13. PORT_MAP' = IF c.type = "LISTENER" THEN [PORT_MAP EXCEPT ![c.port] = NULL] ELSE PORT_MAP
    BY <2>1 DEF socket_close, c
  <2>14. pipes' = IF c.type = "PEER" THEN CloseWrite(CloseRead(ps, c.read_pipe), c.write_pipe) ELSE ps
    BY <2>1 DEF socket_close, c
  <2>15. Ended(ps, pipes', c.read_pipe, c.write_pipe)
    <3>1. CASE c.type = "PEER"
      <4>1. c.read_pipe \in Pipes \union {NULL} /\ c.write_pipe \in Pipes \union {NULL}
        BY <2>3 DEF SockType
      <4> QED BY <2>14, <3>1, <4>1, CloseBoth
    <3>2. CASE c.type # "PEER"
      <4>1. c.read_pipe = NULL /\ c.write_pipe = NULL
        BY <1>2, <3>2 DEF Unbound
      <4>2. NULL \notin Pipes
        BY SocketAssumption DEF Pipes
      <4> QED BY <2>14, <3>2, <4>1, <4>2 DEF Ended, PipesIn
    <3> QED BY <3>1, <3>2
  <2>16. PORT_MAP' \in [Ports -> Socks \union {NULL}]
    BY <2>13
  <2>17. socks[s].fcb = 1
    BY <1>2, <1>3, <1>5
  <2>18. Decref(s, socks)
    BY <1>2, <2>11, <2>12, <2>15, <2>16 DEF Decref, Ended
  <2>19. Closes(s, socks, ps)
    <3>1. sock'[s].freed <=> socks[s].refcount = 0
      BY <1>2, <2>11, <2>12 DEF f
    <3> QED BY <1>2, <2>11, <2>12, <2>13, <2>15, <2>17, <3>1 DEF Closes
  <2> QED BY <2>18, <2>19
<1> QED BY <1>4, <1>5

\* The last reference to socket s is gone, and nobody relies on it any more.
Gone(s) ==
    /\ \A u \in Socks \ {s} : sock'[u] = sock[u]
    /\ sock'[s].type = sock[s].type /\ sock'[s].queue = sock[s].queue /\ ~sock'[s].open
    /\ sock'[s].read_pipe = NULL /\ sock'[s].write_pipe = NULL
    /\ sock'[s].freed => sock[s].refcount = 0
    /\ Ended(pipes, pipes', sock[s].read_pipe, sock[s].write_pipe)
    /\ PORT_MAP' = IF sock[s].type = "LISTENER"
                   THEN [PORT_MAP EXCEPT ![sock[s].port] = NULL] ELSE PORT_MAP
    /\ \A l \in Socks : \A i \in DOMAIN sock[l].queue : sock[l].open => sock[l].queue[i].peer # s
    /\ \A t \in Threads : calling'[t].op = "idle" \/ SameCall(t)
    /\ \A t \in Threads : calling'[t].op \in {"Read", "Write"} => calling'[t].sock # s

LEMMA GoneKeeps ==
    ASSUME SInv, NEW s \in Socks, Gone(s)
    PROVE  QueueInv' /\ SockInv' /\ CallInv' /\ Ends(sock, pipes)'
<1>1. QueueInv'
  <2>0. \A u \in Socks : sock'[u].queue = sock[u].queue /\ (sock'[u].open => sock[u].open /\ u # s)
    BY DEF Gone
  <2>1. ASSUME NEW l \in Socks, NEW i \in DOMAIN sock[l].queue, sock'[l].open
        PROVE  LET u == sock[l].queue[i].peer IN sock'[u].type = "UNBOUND" /\ sock'[u].open
    <3>1. sock[l].queue[i].peer \in Socks /\ sock[l].queue[i].peer # s
      BY <2>0, <2>1, QueuedPeer DEF SInv, Gone
    <3> QED BY <2>0, <2>1, <3>1 DEF SInv, QueueInv, Gone
  <2> QED BY <2>0, <2>1 DEF SInv, QueueInv
<1>2. SockInv'
  <2>1. \A u \in Socks :
          /\ sock'[u].type # "PEER" => sock'[u].read_pipe = NULL /\ sock'[u].write_pipe = NULL
          /\ sock'[u].open => ~sock'[u].freed /\ sock'[u].type # "NONE"
    BY DEF SInv, SockInv, Gone
  <2>2. PortMapSound'
    <3> SUFFICES ASSUME NEW p \in Ports, PORT_MAP'[p] # NULL
                 PROVE  LET l == PORT_MAP'[p] IN
                        /\ sock'[l].type = "LISTENER" /\ sock'[l].port = p
                        /\ ~sock'[l].freed /\ sock'[l].open
      BY DEF PortMapSound
    <3>1. /\ PORT_MAP'[p] = PORT_MAP[p] /\ PORT_MAP[p] \in Socks
          /\ sock[s].type = "LISTENER" => p # sock[s].port
      BY DEF Gone, SInv, TypeOK, SockType
    <3>2. PORT_MAP[p] # s
      BY <3>1 DEF SInv, SockInv, PortMapSound
    <3> QED BY <3>1, <3>2 DEF Gone, SInv, SockInv, PortMapSound
  <2> QED BY <2>1, <2>2 DEF SockInv
<1>3. CallInv'
  <2>1. ASSUME NEW t \in Threads PROVE CallOK(t)'
    <3>1. CallOK(t) /\ (calling'[t].op = "idle" \/ SameCall(t))
      BY DEF SInv, CallInv, Gone
    <3>2. ASSUME calling'[t].op \in {"Accept", "Connect"}
          PROVE  calling'[t].on \in Socks /\ sock'[calling'[t].on].type = "LISTENER"
                 /\ ~sock'[calling'[t].on].freed
      <4>1. /\ calling'[t].on = calling[t].on /\ calling[t].op \in {"Accept", "Connect"}
            /\ calling[t].on \in Socks
            /\ sock[calling[t].on].type = "LISTENER" /\ ~sock[calling[t].on].freed
        BY <3>1, <3>2 DEF CallOK, SameCall
      <4>2. CASE calling[t].on # s
        BY <4>1, <4>2 DEF Gone
      <4>3. CASE calling[t].on = s
        <5>1. Waiting(s) # {}
          BY <4>1, <4>3 DEF Waiting
        <5>2. sock[s].refcount # 0
          BY <5>1, SetsFinite, FS_EmptySet DEF SInv, CountInv
        <5> QED BY <4>1, <4>3, <5>2 DEF Gone
      <4> QED BY <4>2, <4>3
    <3>3. ASSUME calling'[t].op \in {"Read", "Write"}
          PROVE  sock'[calling[t].sock] = sock[calling[t].sock] /\ SameCall(t)
      <4>1. SameCall(t) /\ calling[t].sock # s /\ calling[t].op \in {"Read", "Write"}
        BY <3>1, <3>3 DEF Gone, SameCall
      <4>2. calling[t].sock \in Socks
        BY <3>1, <4>1 DEF CallOK
      <4> QED BY <4>1, <4>2 DEF Gone
    <3> QED BY <3>1, <3>2, <3>3 DEF CallOK, SameCall
  <2> QED BY <2>1 DEF CallInv
<1>4. Ends(sock, pipes)'
  <2> DEFINE r == sock[s].read_pipe
             w == sock[s].write_pipe
  <2>1. LetGo(sock, sock', s, r, w)
    BY DEF LetGo, Gone, SInv, TypeOK, SockType
  <2>2. Ended(pipes, pipes', r, w)
    BY DEF Gone
  <2> HIDE DEF r, w
  <2> QED BY <2>1, <2>2, EndsLetGo DEF SInv
<1> QED BY <1>1, <1>2, <1>3, <1>4

LEMMA CloseStep ==
    ASSUME SInv, Careful, NEW s \in Socks, Close(s)
    PROVE  SInv'
<1> DEFINE socks == [sock EXCEPT ![s].open = FALSE]
<1>1. sock[s].open /\ ~Pending(s) /\ FCB_decref(s, socks, pipes) /\ calling' = calling
  BY DEF Close, Usable
<1>2. sock[s] \in SockType /\ sock \in [Socks -> SockType]
  BY DEF SInv, TypeOK
<1>3. socks \in [Socks -> SockType]
  BY <1>2, Fields
<1>4. /\ \A u \in Socks \ {s} : socks[u] = sock[u]
      /\ socks[s].open = FALSE /\ socks[s].fcb = sock[s].fcb /\ socks[s].type = sock[s].type
      /\ socks[s].port = sock[s].port /\ socks[s].queue = sock[s].queue
      /\ socks[s].refcount = sock[s].refcount /\ socks[s].freed = sock[s].freed
      /\ socks[s].read_pipe = sock[s].read_pipe /\ socks[s].write_pipe = sock[s].write_pipe
  BY <1>2 DEF SockType
<1>5. /\ PipesIn(pipes) /\ PORT_MAP \in [Ports -> Socks \union {NULL}] /\ Unbound(socks[s])
  BY <1>4 DEF SInv, TypeOK, PipesIn, Unbound, SockInv
<1> HIDE DEF socks
<1>6. Decref(s, socks) /\ (Stays(s, socks, pipes) \/ Closes(s, socks, pipes))
  BY <1>1, <1>3, <1>5, DecrefDoes
<1>7. TypeOK'
  BY <1>1, <1>6 DEF Decref, PipesIn, SInv, TypeOK
<1>8. CountInv'
  <2>1. sock[s].fcb \in Int
    BY <1>2 DEF SockType
  <2>2. Still
    BY <1>1, <1>4, <1>6, <2>1 DEF Still, Decref, One
  <2> QED BY <1>1, <1>7, <2>2, CountsStill
<1>9. \A l \in Socks : \A i \in DOMAIN sock[l].queue : sock[l].open => sock[l].queue[i].peer # s
  BY <1>1 DEF Pending, Asks
<1>10. sock[s].fcb = Cardinality(Inside(s)) + 1
  BY <1>1 DEF SInv, CountInv
<1>11. CASE Closes(s, socks, pipes)
  <2>1. Inside(s) = {}
    <3>1. Cardinality(Inside(s)) \in Nat
      BY SetsFinite, FS_CardinalityType
    <3>2. Cardinality(Inside(s)) = 0
      BY <1>4, <1>10, <1>11, <3>1 DEF Closes
    <3> QED BY <3>2, SetsFinite, FS_EmptySet
  <2>2. \A t \in Threads : calling'[t].op \in {"Read", "Write"} => calling'[t].sock # s
    BY <1>1, <2>1 DEF Inside
  <2>3. \A t \in Threads : SameCall(t)
    BY <1>1 DEF SameCall
  <2>4. Gone(s)
    BY <1>4, <1>6, <1>9, <1>11, <2>2, <2>3 DEF Gone, Decref, Closes
  <2> QED BY <1>7, <1>8, <2>4, GoneKeeps DEF SInv
<1>12. CASE Stays(s, socks, pipes)
  <2>1. sock[s].type # "LISTENER"
    <3>1. Inside(s) # {}
      BY <1>4, <1>10, <1>12, FS_EmptySet DEF Stays
    <3>2. PICK t \in Threads : calling[t].op \in {"Read", "Write"} /\ calling[t].sock = s
      BY <3>1 DEF Inside
    <3>3. sock[s].read_pipe # NULL \/ sock[s].write_pipe # NULL
      BY <3>2, SocketAssumption DEF SInv, CallInv, CallOK, Pipes
    <3> QED BY <3>3 DEF SInv, SockInv
  <2>2. /\ pipes' = pipes /\ PORT_MAP' = PORT_MAP
        /\ \A u \in Socks : /\ sock'[u].type = sock[u].type /\ sock'[u].port = sock[u].port
                            /\ sock'[u].freed = sock[u].freed /\ sock'[u].queue = sock[u].queue
                            /\ sock'[u].read_pipe = sock[u].read_pipe
                            /\ sock'[u].write_pipe = sock[u].write_pipe
                            /\ u # s => sock'[u].open = sock[u].open
        /\ sock'[s].open = FALSE
    BY <1>4, <1>6, <1>12 DEF Decref, Stays
  <2>3. QueueInv'
    <3>1. ASSUME NEW l \in Socks, NEW i \in DOMAIN sock[l].queue, sock'[l].open
          PROVE  LET u == sock[l].queue[i].peer IN sock'[u].type = "UNBOUND" /\ sock'[u].open
      <4>1. l # s /\ sock[l].open
        BY <2>2, <3>1
      <4>2. sock[l].queue[i].peer \in Socks /\ sock[l].queue[i].peer # s
        BY <1>9, <4>1, QueuedPeer DEF SInv
      <4> QED BY <2>2, <4>1, <4>2 DEF SInv, QueueInv
    <3>2. \A u \in Socks : sock'[u].open => sock[u].open
      BY <2>2
    <3> QED BY <2>2, <3>1, <3>2 DEF SInv, QueueInv
  <2>4. SockInv'
    <3>1. \A p \in Ports : PORT_MAP[p] # s
      BY <2>1, SocketAssumption DEF SInv, SockInv, PortMapSound
    <3> QED BY <2>2, <3>1 DEF SInv, SockInv, PortMapSound, TypeOK
  <2>5. CallInv'
    BY <1>1, <2>2 DEF SInv, CallInv, CallOK
  <2>6. Ends(sock, pipes)'
    BY <2>2 DEF SInv, Ends
  <2> QED BY <1>7, <1>8, <2>3, <2>4, <2>5, <2>6 DEF SInv
<1> QED BY <1>6, <1>11, <1>12

-----------------------------------------------------------------------------
(***************************************************************************)
(* The calls that wait.                                                    *)
(***************************************************************************)
LEMMA QuietStep ==
    ASSUME SInv, TypeOK', Quiet, SamePipes(pipes', pipes), PORT_MAP' = PORT_MAP,
           NEW t \in Threads, OthersCall(t), CallOK(t)', Follow(t)
    PROVE  SInv'
<1>1. QueueInv' /\ SockInv'
  BY SteadySocks DEF Quiet
<1>2. CallInv'
  BY QuietCalls
<1>3. CountInv'
  BY CountsFollow
<1>4. Ends(sock, pipes)'
  BY QuietEnds
<1> QED BY <1>1, <1>2, <1>3, <1>4 DEF SInv

\* Thread t comes to call c.
Comes(t, c) == calling' = [calling EXCEPT ![t] = c]

LEMMA ComesTo ==
    ASSUME TypeOK, NEW t \in Threads, NEW c \in CallType, Comes(t, c)
    PROVE  calling' \in [Threads -> CallType] /\ calling'[t] = c /\ OthersCall(t)
BY DEF TypeOK, Comes, OthersCall, SameCall

LEMMA IdleType == Idle \in CallType /\ Idle.op = "idle"
BY DEF Idle, CallType

\* A thread goes idle: it relies on nothing.
LEMMA IdleOK ==
    ASSUME NEW t \in Threads, calling'[t].op = "idle"
    PROVE  CallOK(t)' /\ \A s \in Socks : t \notin Waiting(s)' /\ t \notin Inside(s)'
BY DEF CallOK, Waiting, Inside

LEMMA TimeoutStep ==
    ASSUME SInv, NEW t \in Threads, Timeout(t)
    PROVE  SInv'
<1>1. /\ calling[t].op = "Connect" /\ sock' = sock /\ pipes' = pipes /\ PORT_MAP' = PORT_MAP
      /\ calling' = [calling EXCEPT ![t].timed = TRUE]
  BY DEF Timeout
<1>2. TypeOK'
  <2>1. calling' \in [Threads -> CallType]
    <3>1. ASSUME NEW c \in CallType, NEW b \in BOOLEAN PROVE [c EXCEPT !.timed = b] \in CallType
      BY DEF CallType
    <3>2. calling[t] \in CallType
      BY DEF SInv, TypeOK
    <3>3. [calling[t] EXCEPT !.timed = TRUE] \in CallType
      BY <3>1, <3>2
    <3> QED BY <1>1, <3>3 DEF SInv, TypeOK
  <2> QED BY <1>1, <2>1 DEF SInv, TypeOK
<1>3. \A u \in Threads : SameCall(u)
  BY <1>1 DEF SInv, TypeOK, CallType, SameCall
<1>4. Quiet /\ SamePipes(pipes', pipes)
  BY <1>1 DEF Quiet, Steady, SamePeers, SamePipes
<1>5. CallOK(t)'
  BY <1>1, <1>3 DEF SInv, CallInv, CallOK, SameCall
<1>6. \A s \in Socks : (t \in Waiting(s)' <=> t \in Waiting(s)) /\ (t \in Inside(s)' <=> t \in Inside(s))
  BY <1>3 DEF Waiting, Inside, SameCall
<1>7. Follow(t)
  BY <1>1, <1>6 DEF Follow, One
<1> QED BY <1>1, <1>2, <1>3, <1>4, <1>5, <1>7, QuietStep DEF OthersCall

\* One thread more, or less, is counted at listener l.
Counted(l, n) ==
    /\ sock' \in [Socks -> SockType]
    /\ \A s \in Socks : /\ sock'[s].refcount = sock[s].refcount + (IF s = l THEN n ELSE 0)
                        /\ sock'[s].fcb = sock[s].fcb

LEMMA CountedType ==
    ASSUME SInv, NEW l \in Socks, NEW n \in Int, NEW q \in SUBSET Threads,
           sock' = [sock EXCEPT ![l].refcount = @ + n, ![l].req_available = q]
    PROVE  Counted(l, n) /\ Quiet
<1>1. sock[l] \in SockType /\ sock \in [Socks -> SockType] /\ sock[l].refcount + n \in Int
  BY DEF SInv, TypeOK, SockType
<1> DEFINE a == [sock[l] EXCEPT !.refcount = sock[l].refcount + n]
           b == [a EXCEPT !.req_available = q]
<1>2. sock' = [sock EXCEPT ![l] = b]
  BY <1>1
<1>3. a \in SockType
  BY <1>1, Fields, Zenon
<1>4. b \in SockType
  <2> HIDE DEF a
  <2> QED BY <1>3, Fields
<1>5. sock' \in [Socks -> SockType] /\ sock'[l] = b /\ \A s \in Socks \ {l} : sock'[s] = sock[s]
  BY <1>1, <1>2, <1>4
<1>6. /\ b.refcount = sock[l].refcount + n /\ b.fcb = sock[l].fcb
      /\ b.type = sock[l].type /\ b.port = sock[l].port
      /\ b.freed = sock[l].freed /\ b.open = sock[l].open /\ b.queue = sock[l].queue
      /\ b.read_pipe = sock[l].read_pipe /\ b.write_pipe = sock[l].write_pipe
  BY <1>1 DEF SockType
<1>7. \A s \in Socks : sock[s].refcount \in Int
  BY DEF SInv, TypeOK, SockType
<1> HIDE DEF b
<1>8. Counted(l, n)
  BY <1>5, <1>6, <1>7 DEF Counted
<1>9. Quiet
  BY <1>5, <1>6 DEF Quiet, Steady, SamePeers
<1> QED BY <1>8, <1>9

LEMMA AcceptWaitsStep ==
    ASSUME SInv, NEW t \in Threads, NEW l \in Socks, AcceptWaits(t, l),
           sock[l].open, sock[l].type = "LISTENER"
    PROVE  SInv'
<1> DEFINE c == [Idle EXCEPT !.op = "Accept", !.on = l]
           q == sock[l].req_available \union {t}
<1>1. /\ calling[t] = Idle /\ Comes(t, c) /\ pipes' = pipes /\ PORT_MAP' = PORT_MAP
      /\ sock' = [sock EXCEPT ![l].refcount = @ + 1, ![l].req_available = q]
  BY DEF AcceptWaits, Comes
<1>2. c \in CallType /\ c.op = "Accept" /\ c.on = l
  BY DEF Idle, CallType
<1>3. q \in SUBSET Threads
  BY DEF SInv, TypeOK, SockType
<1> HIDE DEF c, q
<1>4. calling' \in [Threads -> CallType] /\ calling'[t] = c /\ OthersCall(t)
  BY <1>1, <1>2, ComesTo DEF SInv
<1>5. Counted(l, 1) /\ Quiet
  <2>1. 1 \in Int
    OBVIOUS
  <2> QED BY <1>1, <1>3, <2>1, CountedType, Zenon
<1>6. TypeOK'
  BY <1>1, <1>4, <1>5 DEF SInv, TypeOK, Counted
<1>7. CallOK(t)'
  BY <1>2, <1>4, <1>5 DEF CallOK, SInv, SockInv, Quiet, Steady
<1>8. Follow(t)
  <2>1. \A s \in Socks : /\ t \notin Waiting(s) /\ (t \in Waiting(s)' <=> s = l)
                         /\ t \notin Inside(s) /\ t \notin Inside(s)'
    BY <1>1, <1>2, <1>4 DEF Waiting, Inside, Idle
  <2>2. \A s \in Socks : sock[s].refcount \in Int /\ sock'[s].open = sock[s].open
    BY <1>5 DEF SInv, TypeOK, SockType, Quiet, Steady
  <2> QED BY <1>5, <2>1, <2>2 DEF Counted, Follow, One
<1>9. SamePipes(pipes', pipes)
  BY <1>1 DEF SamePipes
<1> QED BY <1>1, <1>4, <1>5, <1>6, <1>7, <1>8, <1>9, QuietStep

\* A thread that sleeps again in Accept.
LEMMA AcceptSleepsStep ==
    ASSUME SInv, NEW t \in Threads, NEW l \in Socks,
           sock' = [sock EXCEPT ![l].req_available = @ \union {t}],
           UNCHANGED <<pipes, PORT_MAP, calling>>
    PROVE  SInv'
<1> DEFINE q == sock[l].req_available \union {t}
<1>1. sock[l] \in SockType /\ sock \in [Socks -> SockType] /\ q \in SUBSET Threads
  BY DEF SInv, TypeOK, SockType
<1>2. [sock[l] EXCEPT !.req_available = q] \in SockType
  BY <1>1, Fields
<1>3. sock' \in [Socks -> SockType]
  BY <1>1, <1>2
<1>4. /\ \A s \in Socks : /\ sock'[s].refcount = sock[s].refcount /\ sock'[s].fcb = sock[s].fcb
                          /\ sock'[s].open = sock[s].open
      /\ Quiet
  BY <1>1 DEF SockType, Quiet, Steady, SamePeers
<1>5. TypeOK'
  BY <1>3 DEF SInv, TypeOK
<1>6. /\ SamePipes(pipes', pipes) /\ OthersCall(t) /\ SameCall(t)
  BY DEF SamePipes, OthersCall, SameCall
<1>7. CallOK(t)'
  BY <1>4, <1>6 DEF SInv, CallInv, CallOK, Quiet, Steady, SameCall
<1>8. Follow(t)
  <2>1. \A s \in Socks : (t \in Waiting(s)' <=> t \in Waiting(s)) /\ (t \in Inside(s)' <=> t \in Inside(s))
    BY DEF Waiting, Inside
  <2> QED BY <1>4, <2>1 DEF Follow, One
<1> QED BY <1>4, <1>5, <1>6, <1>7, <1>8, QuietStep

-----------------------------------------------------------------------------
(***************************************************************************)
(* Accept goes on.  held says whether the thread has waited, and so is     *)
(* counted.                                                                *)
(***************************************************************************)
InAccept(t, l, held) == IF held THEN calling[t].op = "Accept" /\ calling[t].on = l
                        ELSE calling[t] = Idle

\* The thread leaves listener l, and is no longer counted.
Leaves(t, l, held) ==
    /\ calling'[t].op = "idle" /\ OthersCall(t)
    /\ \A s \in Socks : /\ sock'[s].refcount
                              = sock[s].refcount - (IF held /\ s = l THEN 1 ELSE 0)
                        /\ sock'[s].fcb - One(sock'[s].open) = sock[s].fcb - One(sock[s].open)

LEMMA LeavesFollow ==
    ASSUME SInv, TypeOK', NEW t \in Threads, NEW l \in Socks, NEW held \in BOOLEAN,
           InAccept(t, l, held), Leaves(t, l, held)
    PROVE  CountInv'
<1>1. \A s \in Socks : /\ t \in Waiting(s) <=> held /\ s = l
                       /\ t \notin Inside(s) /\ t \notin Waiting(s)' /\ t \notin Inside(s)'
  <2>1. CASE held
    BY <2>1 DEF InAccept, Leaves, Waiting, Inside
  <2>2. CASE ~held
    BY <2>2 DEF InAccept, Leaves, Waiting, Inside, Idle
  <2> QED BY <2>1, <2>2
<1>2. \A s \in Socks : /\ sock[s].refcount \in Int /\ sock[s].fcb \in Int
                       /\ sock'[s].refcount \in Int /\ sock'[s].fcb \in Int
  BY DEF SInv, TypeOK, SockType
<1>3. Follow(t)
  <2> SUFFICES ASSUME NEW s \in Socks
               PROVE  /\ sock'[s].refcount - One(t \in Waiting(s)') = sock[s].refcount - One(t \in Waiting(s))
                      /\ sock'[s].fcb - One(t \in Inside(s)') - One(sock'[s].open)
                         = sock[s].fcb - One(t \in Inside(s)) - One(sock[s].open)
    BY DEF Follow
  <2>1. /\ One(t \in Waiting(s)') = 0 /\ One(t \in Inside(s)') = 0 /\ One(t \in Inside(s)) = 0
        /\ One(t \in Waiting(s)) = IF held /\ s = l THEN 1 ELSE 0
    BY <1>1 DEF One
  <2>2. One(sock'[s].open) \in Int /\ One(sock[s].open) \in Int
    BY DEF One
  <2> QED BY <1>2, <2>1, <2>2 DEF Leaves
<1> QED BY <1>3, CountsFollow DEF Leaves

LEMMA AcceptClosedStep ==
    ASSUME SInv, NEW t \in Threads, NEW l \in Socks, NEW held \in BOOLEAN,
           InAccept(t, l, held), AcceptClosed(t, l, held)
    PROVE  SInv'
<1>1. /\ sock' = IF held THEN Dropped(sock, l) ELSE sock
      /\ Comes(t, Idle) /\ pipes' = pipes /\ PORT_MAP' = PORT_MAP
  BY DEF AcceptClosed, Comes
<1>2. calling' \in [Threads -> CallType] /\ calling'[t].op = "idle" /\ OthersCall(t)
  BY <1>1, ComesTo, IdleType DEF SInv
<1>3. sock[l] \in SockType /\ sock \in [Socks -> SockType] /\ sock[l].refcount - 1 \in Int
  BY DEF SInv, TypeOK, SockType
<1>4. [sock[l] EXCEPT !.refcount = sock[l].refcount - 1] \in SockType
  BY <1>3, Fields, Zenon
<1>5. sock' \in [Socks -> SockType]
  BY <1>1, <1>3, <1>4 DEF Dropped
<1>6. TypeOK'
  BY <1>1, <1>2, <1>5 DEF SInv, TypeOK
<1>7. \A s \in Socks : /\ sock'[s].refcount = sock[s].refcount - (IF held /\ s = l THEN 1 ELSE 0)
                       /\ sock'[s].fcb = sock[s].fcb /\ sock'[s].open = sock[s].open
  <2>1. \A s \in Socks : sock[s].refcount \in Int
    BY <1>3 DEF SockType
  <2>2. CASE held
    BY <1>1, <1>3, <2>1, <2>2 DEF Dropped, SockType
  <2>3. CASE ~held
    BY <1>1, <2>1, <2>3
  <2> QED BY <2>2, <2>3
<1>8. Quiet
  <2>1. CASE held
    BY <1>1, <1>3, <2>1 DEF Dropped, SockType, Quiet, Steady, SamePeers
  <2>2. CASE ~held
    BY <1>1, <2>2 DEF Quiet, Steady, SamePeers
  <2> QED BY <2>1, <2>2
<1>9. SamePipes(pipes', pipes)
  BY <1>1 DEF SamePipes
<1>10. CountInv'
  BY <1>2, <1>6, <1>7, LeavesFollow DEF Leaves
<1>11. QueueInv' /\ SockInv' /\ CallInv' /\ Ends(sock, pipes)'
  <2>1. CallOK(t)'
    BY <1>2, IdleOK
  <2> QED BY <1>1, <1>2, <1>6, <1>8, <1>9, <2>1, SteadySocks, QuietCalls, QuietEnds DEF Quiet
<1> QED BY <1>6, <1>10, <1>11 DEF SInv

\* The first request of listener l is taken.
Popped(l) ==
    /\ sock'[l].queue = Tail(sock[l].queue)
    /\ \A u \in Socks : /\ u # l => sock'[u].queue = sock[u].queue \/ sock'[u].queue = <<>>
                        /\ sock'[u].queue # <<>> /\ sock'[u].open => sock[u].open
                        /\ /\ sock[u].type = "UNBOUND" /\ sock[u].open
                           /\ u # Head(sock[l].queue).peer
                           => sock'[u].type = "UNBOUND" /\ sock'[u].open

LEMMA PoppedQueues ==
    ASSUME SInv, NEW l \in Socks, sock[l].open, sock[l].queue # <<>>, Popped(l)
    PROVE  QueueInv'
<1> DEFINE q == sock[l].queue
           At(u, i) == IF u = l THEN i + 1 ELSE i
<1>1. /\ q \in Seq(Request) /\ Len(q) \in Nat \ {0} /\ DOMAIN q = 1 .. Len(q) /\ Head(q) = q[1]
      /\ DOMAIN Tail(q) = 1 .. Len(q) - 1 /\ \A i \in 1 .. Len(q) - 1 : Tail(q)[i] = q[i + 1]
  <2>1. q \in Seq(Request)
    BY DEF SInv, TypeOK, SockType
  <2> QED BY <2>1
<1>2. ASSUME NEW u \in Socks, NEW i \in DOMAIN sock'[u].queue, sock'[u].open
      PROVE  /\ sock[u].open /\ At(u, i) \in DOMAIN sock[u].queue
             /\ sock'[u].queue[i] = sock[u].queue[At(u, i)]
             /\ u = l => At(u, i) # 1
  <2>1. CASE u = l
    <3>1. i \in 1 .. Len(q) - 1 /\ sock'[u].queue[i] = q[i + 1]
      BY <1>1, <1>2, <2>1 DEF Popped
    <3>2. i + 1 \in 1 .. Len(q) /\ i + 1 # 1
      BY <1>1, <3>1
    <3> QED BY <1>1, <2>1, <3>1, <3>2
  <2>2. CASE u # l
    <3>1. sock'[u].queue # <<>>
      BY <1>2
    <3> QED BY <1>2, <2>2, <3>1 DEF Popped
  <2> QED BY <2>1, <2>2
<1>3. ASSUME NEW u \in Socks, NEW i \in DOMAIN sock'[u].queue, sock'[u].open
      PROVE  LET s == sock'[u].queue[i].peer IN sock'[s].type = "UNBOUND" /\ sock'[s].open
  <2> DEFINE s == sock[u].queue[At(u, i)].peer
  <2>1. /\ sock[u].open /\ At(u, i) \in DOMAIN sock[u].queue /\ sock'[u].queue[i].peer = s
        /\ u = l => At(u, i) # 1
    BY <1>2, <1>3
  <2> HIDE DEF At
  <2>2. s \in Socks /\ sock[s].type = "UNBOUND" /\ sock[s].open
    BY <2>1, QueuedPeer DEF SInv, QueueInv
  <2>3. s # Head(q).peer
    <3>1. 1 \in DOMAIN q
      BY <1>1
    <3> QED BY <1>1, <2>1, <3>1 DEF SInv, QueueInv
  <2> QED BY <2>1, <2>2, <2>3 DEF Popped
<1>4. ASSUME NEW u \in Socks, NEW v \in Socks,
             NEW i \in DOMAIN sock'[u].queue, NEW j \in DOMAIN sock'[v].queue,
             sock'[u].open, sock'[v].open, sock'[u].queue[i].peer = sock'[v].queue[j].peer
      PROVE  u = v /\ i = j
  <2>1. u = v /\ At(u, i) = At(v, j)
    <3>1. /\ sock[u].open /\ At(u, i) \in DOMAIN sock[u].queue
          /\ sock'[u].queue[i] = sock[u].queue[At(u, i)]
      BY <1>2, <1>4
    <3>2. /\ sock[v].open /\ At(v, j) \in DOMAIN sock[v].queue
          /\ sock'[v].queue[j] = sock[v].queue[At(v, j)]
      BY <1>2, <1>4
    <3> HIDE DEF At
    <3> QED BY <1>4, <3>1, <3>2 DEF SInv, QueueInv
  <2>2. CASE u = l
    <3>1. i \in 1 .. Len(q) - 1 /\ j \in 1 .. Len(q) - 1
      BY <1>1, <1>4, <2>1, <2>2 DEF Popped
    <3> QED BY <1>1, <2>1, <2>2, <3>1
  <2>3. CASE u # l
    BY <2>1, <2>3
  <2> QED BY <2>1, <2>2, <2>3
<1> QED BY <1>3, <1>4 DEF QueueInv

\* The listener of a request that is taken.
LEMMA Serving ==
    ASSUME SInv, NEW l \in Socks, ~NoRequest(l), PORT_MAP[sock[l].port] = l
    PROVE  /\ sock[l].open /\ sock[l].queue # <<>> /\ sock[l].queue \in Seq(Request)
           /\ Tail(sock[l].queue) \in Seq(Request)
           /\ Head(sock[l].queue) \in Request /\ Head(sock[l].queue).peer \in Socks
           /\ sock[Head(sock[l].queue).peer].type = "UNBOUND" /\ sock[Head(sock[l].queue).peer].open
<1>1. sock[l].port \in Ports /\ l # NULL
  BY SocketAssumption DEF SInv, TypeOK, SockType
<1>2. sock[l].open
  BY <1>1 DEF SInv, SockInv, PortMapSound
<1>3. sock[l].queue # <<>>
  BY <1>1 DEF NoRequest
<1>4. sock[l].queue \in Seq(Request)
  BY DEF SInv, TypeOK, SockType
<1>5. Tail(sock[l].queue) \in Seq(Request) /\ Head(sock[l].queue) \in Request
      /\ 1 \in DOMAIN sock[l].queue /\ Head(sock[l].queue) = sock[l].queue[1]
  BY <1>3, <1>4
<1>6. Head(sock[l].queue).peer \in Socks
  BY <1>5 DEF Request
<1> QED BY <1>2, <1>3, <1>4, <1>5, <1>6 DEF SInv, QueueInv

LEMMA AcceptFailsStep ==
    ASSUME SInv, NEW t \in Threads, NEW l \in Socks, NEW held \in BOOLEAN,
           InAccept(t, l, held), AcceptFails(t, l, held)
    PROVE  SInv'
<1> DEFINE popped == [sock EXCEPT ![l].queue = Tail(@)]
           n == sock[l].refcount - (IF held THEN 1 ELSE 0)
           b == [[sock[l] EXCEPT !.queue = Tail(sock[l].queue)] EXCEPT !.refcount = n]
<1>1. /\ ~NoRequest(l) /\ PORT_MAP[sock[l].port] = l
      /\ sock' = IF held THEN Dropped(popped, l) ELSE popped
      /\ Comes(t, Idle) /\ pipes' = pipes /\ PORT_MAP' = PORT_MAP
  BY DEF AcceptFails, Comes
<1>2. /\ sock[l].open /\ sock[l].queue # <<>> /\ Tail(sock[l].queue) \in Seq(Request)
  BY <1>1, Serving
<1>3. calling' \in [Threads -> CallType] /\ calling'[t].op = "idle" /\ OthersCall(t)
  BY <1>1, ComesTo, IdleType DEF SInv
<1>4. sock[l] \in SockType /\ sock \in [Socks -> SockType] /\ n \in Int
  BY DEF SInv, TypeOK, SockType
<1>5. b \in SockType
  <2>1. [sock[l] EXCEPT !.queue = Tail(sock[l].queue)] \in SockType
    BY <1>2, <1>4, Fields
  <2> HIDE DEF n
  <2> QED BY <1>4, <2>1, Fields, Zenon
<1>6. /\ b.queue = Tail(sock[l].queue) /\ b.refcount = n /\ b.type = sock[l].type
      /\ b.port = sock[l].port /\ b.freed = sock[l].freed /\ b.open = sock[l].open
      /\ b.fcb = sock[l].fcb /\ b.read_pipe = sock[l].read_pipe /\ b.write_pipe = sock[l].write_pipe
  BY <1>4 DEF SockType
<1>7. sock' = [sock EXCEPT ![l] = b]
  <2>1. CASE held
    BY <1>1, <1>4, <2>1 DEF Dropped
  <2>2. CASE ~held
    <3>1. n = sock[l].refcount
      BY <1>4, <2>2 DEF SockType
    <3>2. b = [sock[l] EXCEPT !.queue = Tail(sock[l].queue)]
      BY <1>4, <3>1 DEF SockType
    <3> QED BY <1>1, <1>4, <2>2, <3>2
  <2> QED BY <2>1, <2>2
<1> HIDE DEF b
<1>8. /\ sock' \in [Socks -> SockType] /\ sock'[l] = b
      /\ \A u \in Socks \ {l} : sock'[u] = sock[u]
  BY <1>4, <1>5, <1>7
<1>9. TypeOK'
  BY <1>1, <1>3, <1>8 DEF SInv, TypeOK
<1>10. \A u \in Socks :
          /\ sock'[u].type = sock[u].type /\ sock'[u].port = sock[u].port
          /\ sock'[u].freed = sock[u].freed /\ sock'[u].open = sock[u].open
          /\ sock'[u].fcb = sock[u].fcb
          /\ sock'[u].read_pipe = sock[u].read_pipe /\ sock'[u].write_pipe = sock[u].write_pipe
  BY <1>6, <1>8
<1>11. CountInv'
  <2>1. \A s \in Socks : sock'[s].refcount = sock[s].refcount - (IF held /\ s = l THEN 1 ELSE 0)
    BY <1>4, <1>6, <1>8 DEF SockType
  <2> QED BY <1>3, <1>9, <1>10, <2>1, LeavesFollow DEF Leaves
<1>12. QueueInv'
  <2>1. Popped(l)
    BY <1>6, <1>8, <1>10 DEF Popped
  <2> QED BY <1>2, <2>1, PoppedQueues
<1>13. pipes' = pipes /\ PORT_MAP' = PORT_MAP
  BY <1>1
<1>14. SockInv'
  BY <1>10, <1>13 DEF SInv, SockInv, PortMapSound, TypeOK
<1>15. CallInv'
  <2>1. ASSUME NEW u \in Threads \ {t} PROVE CallOK(u)'
    BY <1>3, <1>10 DEF SInv, CallInv, CallOK, OthersCall, SameCall
  <2> QED BY <1>3, <2>1, IdleOK DEF CallInv
<1>16. Ends(sock, pipes)'
  BY <1>10, <1>13 DEF SInv, Ends
<1> QED BY <1>9, <1>11, <1>12, <1>14, <1>15, <1>16 DEF SInv

\* The pipes of a new connection between new and s.
Joined(new, s) ==
    /\ \A p \in Pipes \ {Inward(new), Outward(new)} : pipes'[p] = pipes[p]
    /\ \A p \in {Inward(new), Outward(new)} : /\ pipes'[p].reader = TRUE /\ pipes'[p].writer = TRUE
                                              /\ pipes'[p].freed = FALSE
    /\ sock'[new].read_pipe = Inward(new) /\ sock'[new].write_pipe = Outward(new)
    /\ sock'[s].read_pipe = Outward(new) /\ sock'[s].write_pipe = Inward(new)
    /\ \A u \in Socks \ {new, s} : /\ sock'[u].read_pipe = sock[u].read_pipe
                                   /\ sock'[u].write_pipe = sock[u].write_pipe
    /\ \A u \in Socks : sock'[u].type = "NONE" => sock[u].type = "NONE" /\ u # new

LEMMA JoinedEnds ==
    ASSUME SInv, NEW new \in Socks, NEW s \in Socks, new # s,
           sock[new].type = "NONE", sock[s].type = "UNBOUND", Joined(new, s)
    PROVE  Ends(sock, pipes)'
<1>0. NULL \notin Pipes
  BY SocketAssumption DEF Pipes
<1>1. /\ Inward(new) \in Pipes /\ Outward(new) \in Pipes /\ Inward(new) # Outward(new)
      /\ \A u \in Socks \ {new} : {Inward(u), Outward(u)} \cap {Inward(new), Outward(new)} = {}
  BY DEF Inward, Outward, Pipes
<1>2. \A u \in {new, s} : sock[u].read_pipe = NULL /\ sock[u].write_pipe = NULL
  BY DEF SInv, SockInv
<1>3. \A u \in Socks : /\ sock[u].read_pipe \in Pipes \union {NULL} /\ sock[u].write_pipe \in Pipes \union {NULL}
                       /\ sock[u].read_pipe \notin {Inward(new), Outward(new)}
                       /\ sock[u].write_pipe \notin {Inward(new), Outward(new)}
  BY DEF SInv, Ends, TypeOK, SockType
<1>4. ASSUME NEW p \in Pipes
      PROVE  /\ pipes'[p].reader => \E u \in Socks : sock'[u].read_pipe = p
             /\ pipes'[p].writer => \E u \in Socks : sock'[u].write_pipe = p
             /\ pipes'[p].freed => ~pipes'[p].reader /\ ~pipes'[p].writer
  <2>1. CASE p \in {Inward(new), Outward(new)}
    BY <2>1 DEF Joined
  <2>2. CASE p \notin {Inward(new), Outward(new)}
    <3>1. pipes'[p] = pipes[p]
      BY <2>2 DEF Joined
    <3>2. ASSUME NEW u \in Socks, sock[u].read_pipe = p PROVE sock'[u].read_pipe = p
      BY <1>0, <1>2, <3>2 DEF Joined
    <3>3. ASSUME NEW u \in Socks, sock[u].write_pipe = p PROVE sock'[u].write_pipe = p
      BY <1>0, <1>2, <3>3 DEF Joined
    <3> QED BY <3>1, <3>2, <3>3 DEF SInv, Ends
  <2> QED BY <2>1, <2>2
<1>5. ASSUME NEW u \in Socks
      PROVE  /\ sock'[u].read_pipe # NULL => pipes'[sock'[u].read_pipe].reader
             /\ sock'[u].write_pipe # NULL => pipes'[sock'[u].write_pipe].writer
             /\ sock'[u].read_pipe # NULL => sock'[u].read_pipe # sock'[u].write_pipe
  <2>1. CASE u \in {new, s}
    BY <1>1, <2>1 DEF Joined
  <2>2. CASE u \notin {new, s}
    BY <1>3, <2>2 DEF Joined, SInv, Ends
  <2> QED BY <2>1, <2>2
<1>6. ASSUME NEW u \in Socks, NEW v \in Socks
      PROVE  /\ sock'[u].read_pipe # NULL /\ sock'[u].read_pipe = sock'[v].read_pipe => u = v
             /\ sock'[u].write_pipe # NULL /\ sock'[u].write_pipe = sock'[v].write_pipe => u = v
  <2>1. CASE u \in {new, s} /\ v \in {new, s}
    BY <1>1, <2>1 DEF Joined
  <2>2. CASE u \in {new, s} /\ v \notin {new, s}
    BY <1>3, <2>2 DEF Joined
  <2>3. CASE u \notin {new, s} /\ v \in {new, s}
    BY <1>3, <2>3 DEF Joined
  <2>4. CASE u \notin {new, s} /\ v \notin {new, s}
    BY <2>4 DEF Joined, SInv, Ends
  <2> QED BY <2>1, <2>2, <2>3, <2>4
<1>7. ASSUME NEW u \in Socks, NEW v \in Socks, sock'[v].type = "NONE"
      PROVE  /\ sock'[u].read_pipe \notin {Inward(v), Outward(v)}
             /\ sock'[u].write_pipe \notin {Inward(v), Outward(v)}
  <2>1. sock[v].type = "NONE" /\ v # new
    BY <1>7 DEF Joined
  <2>2. CASE u \in {new, s}
    BY <1>1, <2>1, <2>2 DEF Joined
  <2>3. CASE u \notin {new, s}
    BY <2>1, <2>3 DEF Joined, SInv, Ends
  <2> QED BY <2>2, <2>3
<1> QED BY <1>4, <1>5, <1>6, <1>7 DEF Ends

\* A socket with the ends p and q of a connection.
AsPeer(r, p, q) == [r EXCEPT !.type = "PEER", !.read_pipe = p, !.write_pipe = q]

LEMMA PeerFields ==
    ASSUME NEW r \in SockType, NEW p \in Pipes, NEW q \in Pipes
    PROVE  /\ AsPeer(r, p, q) \in SockType /\ AsPeer(r, p, q).type = "PEER"
           /\ AsPeer(r, p, q).read_pipe = p /\ AsPeer(r, p, q).write_pipe = q
           /\ AsPeer(r, p, q).freed = r.freed /\ AsPeer(r, p, q).open = r.open
           /\ AsPeer(r, p, q).fcb = r.fcb /\ AsPeer(r, p, q).refcount = r.refcount
           /\ AsPeer(r, p, q).queue = r.queue
<1> DEFINE x == [r EXCEPT !.type = "PEER"]
           y == [x EXCEPT !.read_pipe = p]
           z == [y EXCEPT !.write_pipe = q]
<1>1. AsPeer(r, p, q) = z
  BY DEF AsPeer
<1>2. x \in SockType
  BY Fields
<1>3. y \in SockType
  <2> HIDE DEF x
  <2> QED BY <1>2, Fields
<1>4. z \in SockType
  <2> HIDE DEF y
  <2> QED BY <1>3, Fields
<1>5. /\ z.type = "PEER" /\ z.read_pipe = p /\ z.write_pipe = q
      /\ z.freed = r.freed /\ z.open = r.open /\ z.fcb = r.fcb
      /\ z.refcount = r.refcount /\ z.queue = r.queue
  BY DEF SockType
<1> HIDE DEF z
<1> QED BY <1>1, <1>4, <1>5

LEMMA AcceptConnectsStep ==
    ASSUME SInv, NEW t \in Threads, NEW l \in Socks, NEW held \in BOOLEAN,
           InAccept(t, l, held), AcceptConnects(t, l, held)
    PROVE  SInv'
<1> DEFINE req == Head(sock[l].queue)
           s == req.peer
           new == CHOOSE u \in NewSocks : TRUE
           done == Connected(l, new, req)
           n == sock[l].refcount - (IF held THEN 1 ELSE 0)
           a == [[sock[l] EXCEPT !.queue = Tail(sock[l].queue)] EXCEPT !.refcount = n]
           b == AsPeer(socket_cb_init(sock[l].port), Inward(new), Outward(new))
           c == AsPeer(sock[s], Outward(new), Inward(new))
<1>1. /\ ~NoRequest(l) /\ PORT_MAP[sock[l].port] = l /\ sock[l].type = "LISTENER" /\ NewSocks # {}
      /\ sock' = IF held THEN Dropped(done, l) ELSE done
      /\ pipes' = [pipes EXCEPT ![Inward(new)] = pipe_init, ![Outward(new)] = pipe_init]
      /\ calling' = [u \in Threads |-> IF u = t THEN Idle
                                    ELSE IF u = req.owner THEN [calling[u] EXCEPT !.admitted = TRUE]
                                    ELSE calling[u]]
      /\ PORT_MAP' = PORT_MAP
  BY DEF AcceptConnects, CanReserve
<1>2. /\ sock[l].open /\ sock[l].queue # <<>> /\ Tail(sock[l].queue) \in Seq(Request)
      /\ s \in Socks /\ sock[s].type = "UNBOUND" /\ sock[s].open
  BY <1>1, Serving
<1>3. new \in Socks /\ sock[new].type = "NONE"
  BY <1>1, NewSock
<1> HIDE DEF new
<1>4. l # s /\ l # new /\ new # s
  BY <1>1, <1>2, <1>3
<1>5. Inward(new) \in Pipes /\ Outward(new) \in Pipes /\ Inward(new) # Outward(new)
  BY <1>3 DEF Inward, Outward, Pipes
<1>6. sock \in [Socks -> SockType] /\ sock[l] \in SockType /\ sock[s] \in SockType /\ n \in Int
      /\ socket_cb_init(sock[l].port) \in SockType
  BY <1>2, InitType DEF SInv, TypeOK, SockType
<1>7. done = [sock EXCEPT ![l].queue = Tail(@), ![new] = b,
                ![s].type = "PEER", ![s].read_pipe = Outward(new), ![s].write_pipe = Inward(new)]
  BY DEF Connected, AsPeer
<1> HIDE DEF s
<1>8. /\ done = [u \in Socks |-> IF u = l THEN [sock[l] EXCEPT !.queue = Tail(sock[l].queue)]
                                 ELSE IF u = new THEN b ELSE IF u = s THEN c ELSE sock[u]]
  BY <1>2, <1>3, <1>4, <1>6, <1>7 DEF AsPeer
<1>9. sock' = [u \in Socks |-> IF u = l THEN a ELSE IF u = new THEN b ELSE IF u = s THEN c ELSE sock[u]]
  <2> HIDE DEF done, b, c
  <2>1. CASE held
    BY <1>1, <1>4, <1>6, <1>8, <2>1 DEF Dropped
  <2>2. CASE ~held
    <3>1. n = sock[l].refcount
      BY <1>6, <2>2 DEF SockType
    <3>2. a = [sock[l] EXCEPT !.queue = Tail(sock[l].queue)]
      BY <1>6, <3>1 DEF SockType
    <3> QED BY <1>1, <1>8, <2>2, <3>2
  <2> QED BY <2>1, <2>2
<1>10. PICK k \in Ports : sock[l].port = k /\ socket_cb_init(k) \in SockType
  BY <1>6 DEF SockType
<1>11. a \in SockType
  <2>1. [sock[l] EXCEPT !.queue = Tail(sock[l].queue)] \in SockType
    BY <1>2, <1>6, Fields
  <2> HIDE DEF n
  <2> QED BY <1>6, <2>1, Fields, Zenon
<1>13. /\ b \in SockType /\ b.type = "PEER" /\ b.read_pipe = Inward(new) /\ b.write_pipe = Outward(new)
       /\ b.freed = FALSE /\ b.open = TRUE /\ b.fcb = 1 /\ b.refcount = 0 /\ b.queue = <<>>
  <2>1. LET r == socket_cb_init(sock[l].port) IN
        r.freed = FALSE /\ r.open = TRUE /\ r.fcb = 1 /\ r.refcount = 0 /\ r.queue = <<>>
    BY DEF socket_cb_init, NoSock
  <2> QED BY <1>5, <1>6, <2>1, PeerFields, SMTT(20)
<1>14. /\ c \in SockType /\ c.type = "PEER" /\ c.read_pipe = Outward(new) /\ c.write_pipe = Inward(new)
       /\ c.freed = sock[s].freed /\ c.open = sock[s].open /\ c.fcb = sock[s].fcb
       /\ c.refcount = sock[s].refcount /\ c.queue = sock[s].queue
  <2> DEFINE r == sock[s]
  <2>1. r \in SockType
    BY <1>6
  <2> HIDE DEF r
  <2>2. LET z == AsPeer(r, Outward(new), Inward(new)) IN
        /\ z \in SockType /\ z.type = "PEER" /\ z.read_pipe = Outward(new) /\ z.write_pipe = Inward(new)
        /\ z.freed = r.freed /\ z.open = r.open /\ z.fcb = r.fcb
        /\ z.refcount = r.refcount /\ z.queue = r.queue
    BY <1>5, <2>1, PeerFields
  <2> QED BY <2>2 DEF r
<1>15. /\ a.queue = Tail(sock[l].queue) /\ a.refcount = n /\ a.type = sock[l].type
       /\ a.port = sock[l].port /\ a.freed = sock[l].freed /\ a.open = sock[l].open
       /\ a.fcb = sock[l].fcb /\ a.read_pipe = sock[l].read_pipe /\ a.write_pipe = sock[l].write_pipe
  BY <1>6 DEF SockType
<1> HIDE DEF a, b, c
<1>16. /\ sock' \in [Socks -> SockType] /\ sock'[l] = a /\ sock'[new] = b /\ sock'[s] = c
       /\ \A u \in Socks \ {l, new, s} : sock'[u] = sock[u]
  BY <1>2, <1>3, <1>4, <1>6, <1>9, <1>11, <1>13, <1>14
<1>17. /\ calling' \in [Threads -> CallType] /\ calling'[t].op = "idle" /\ OthersCall(t)
  <2>1. ASSUME NEW u \in Threads \ {t} PROVE calling'[u] \in CallType /\ SameCall(u)
    <3>1. calling[u] \in CallType
      BY DEF SInv, TypeOK
    <3>2. ASSUME NEW z \in BOOLEAN PROVE [calling[u] EXCEPT !.admitted = z] \in CallType
      BY <3>1 DEF CallType
    <3>3. [calling[u] EXCEPT !.admitted = TRUE] \in CallType
      BY <3>2
    <3>4. \/ calling'[u] = calling[u]
          \/ calling'[u] = [calling[u] EXCEPT !.admitted = TRUE]
      BY <1>1
    <3> QED BY <3>1, <3>3, <3>4 DEF SameCall, CallType
  <2>2. calling'[t] = Idle
    BY <1>1
  <2>3. DOMAIN calling' = Threads /\ calling' = [u \in Threads |-> calling'[u]]
    BY <1>1
  <2> QED BY <2>1, <2>2, <2>3, IdleType DEF OthersCall
<1>18. /\ \A p \in Pipes \ {Inward(new), Outward(new)} : pipes'[p] = pipes[p]
       /\ pipes'[Inward(new)] = pipe_init /\ pipes'[Outward(new)] = pipe_init
       /\ DOMAIN pipes' = Pipes
  BY <1>1, <1>5 DEF SInv, TypeOK
<1>19. IsPipe(pipe_init) /\ pipe_init.reader = TRUE /\ pipe_init.writer = TRUE /\ pipe_init.freed = FALSE
  BY DEF IsPipe, pipe_init
<1>20. PORT_MAP' = PORT_MAP
  BY <1>1
<1>21. TypeOK'
  <2>1. PipesOK(pipes')
    BY <1>18, <1>19 DEF PipesOK, SInv, TypeOK
  <2> QED BY <1>16, <1>17, <1>18, <1>20, <2>1 DEF SInv, TypeOK
<1>22. CountInv'
  <2>1. sock[new].refcount = 0 /\ sock[new].fcb = 0 /\ sock[new].open = FALSE
    BY <1>3, Fresh
  <2>2. \A u \in Socks : sock[u].refcount \in Int /\ sock[u].fcb \in Int
    BY DEF SInv, TypeOK, SockType
  <2>3. \A u \in Socks : sock'[u].refcount = sock[u].refcount - (IF held /\ u = l THEN 1 ELSE 0)
    BY <1>4, <1>13, <1>14, <1>15, <1>16, <2>1, <2>2
  <2>4. \A u \in Socks : sock'[u].fcb - One(sock'[u].open) = sock[u].fcb - One(sock[u].open)
    BY <1>4, <1>13, <1>14, <1>15, <1>16, <2>1, <2>2 DEF One
  <2> QED BY <1>17, <1>21, <2>3, <2>4, LeavesFollow DEF Leaves
<1>23. QueueInv'
  <2>1. Head(sock[l].queue).peer = s
    BY DEF s
  <2>2. ASSUME NEW u \in Socks
        PROVE  /\ u # l => sock'[u].queue = sock[u].queue \/ sock'[u].queue = <<>>
               /\ sock'[u].queue # <<>> /\ sock'[u].open => sock[u].open
               /\ sock[u].type = "UNBOUND" /\ sock[u].open /\ u # s
                  => sock'[u].type = "UNBOUND" /\ sock'[u].open
    BY <1>1, <1>3, <1>13, <1>14, <1>15, <1>16
  <2>3. Popped(l)
    BY <1>15, <1>16, <2>1, <2>2 DEF Popped
  <2> QED BY <1>2, <2>3, PoppedQueues
<1>24. SockInv'
  <2>1. ASSUME NEW p \in Ports, PORT_MAP[p] # NULL
        PROVE  PORT_MAP[p] \in Socks \ {new, s}
    BY <1>2, <1>3, <2>1 DEF SInv, SockInv, PortMapSound, TypeOK
  <2>2. PortMapSound'
    BY <1>15, <1>16, <1>20, <2>1 DEF SInv, SockInv, PortMapSound
  <2>3. \A u \in Socks :
          /\ sock'[u].type # "PEER" => sock'[u].read_pipe = NULL /\ sock'[u].write_pipe = NULL
          /\ sock'[u].open => ~sock'[u].freed /\ sock'[u].type # "NONE"
    BY <1>13, <1>14, <1>15, <1>16 DEF SInv, SockInv
  <2> QED BY <2>2, <2>3 DEF SockInv
<1>25. CallInv'
  <2>1. ASSUME NEW u \in Threads \ {t} PROVE CallOK(u)'
    <3>1. CallOK(u) /\ SameCall(u)
      BY <1>17 DEF SInv, CallInv, OthersCall
    <3>2. /\ sock[new].read_pipe = NULL /\ sock[new].write_pipe = NULL
          /\ sock[s].read_pipe = NULL /\ sock[s].write_pipe = NULL /\ NULL \notin Pipes
      BY <1>2, <1>3, SocketAssumption DEF SInv, SockInv, Pipes
    <3>3. \A x \in Socks \ {new, s} : /\ sock'[x].type = sock[x].type /\ sock'[x].freed = sock[x].freed
                                      /\ sock'[x].read_pipe = sock[x].read_pipe
                                      /\ sock'[x].write_pipe = sock[x].write_pipe
      BY <1>15, <1>16
    <3> QED BY <1>2, <1>3, <3>1, <3>2, <3>3 DEF CallOK, SameCall
  <2> QED BY <1>17, <2>1, IdleOK DEF CallInv
<1>26. Ends(sock, pipes)'
  <2>1. Joined(new, s)
    BY <1>3, <1>4, <1>13, <1>14, <1>15, <1>16, <1>18, <1>19 DEF Joined
  <2> QED BY <1>2, <1>3, <1>4, <2>1, JoinedEnds
<1> QED BY <1>21, <1>22, <1>23, <1>24, <1>25, <1>26 DEF SInv

-----------------------------------------------------------------------------
(***************************************************************************)
(* Connect.                                                                *)
(***************************************************************************)
\* Socket s asks listener l.
Asked(s, l) ==
    /\ \E r \in Request : r.peer = s /\ sock'[l].queue = Append(sock[l].queue, r)
    /\ \A u \in Socks : /\ u # l => sock'[u].queue = sock[u].queue
                        /\ sock'[u].open = sock[u].open /\ sock'[u].type = sock[u].type

LEMMA AskedQueues ==
    ASSUME SInv, NEW l \in Socks, NEW s \in Socks, sock[l].open, Asked(s, l),
           sock[s].open, sock[s].type = "UNBOUND", ~Pending(s)
    PROVE  QueueInv'
<1> DEFINE q == sock[l].queue
<1>1. PICK r \in Request : r.peer = s /\ sock'[l].queue = Append(q, r)
  BY DEF Asked
<1>2. q \in Seq(Request)
  BY DEF SInv, TypeOK, SockType
<1>3. /\ Len(q) \in Nat /\ DOMAIN q = 1 .. Len(q) /\ DOMAIN Append(q, r) = 1 .. Len(q) + 1
      /\ Append(q, r)[Len(q) + 1] = r /\ \A i \in 1 .. Len(q) : Append(q, r)[i] = q[i]
  BY <1>2
<1>4. ASSUME NEW u \in Socks, NEW i \in DOMAIN sock'[u].queue
      PROVE  \/ i \in DOMAIN sock[u].queue /\ sock'[u].queue[i] = sock[u].queue[i]
             \/ u = l /\ i = Len(q) + 1 /\ sock'[u].queue[i].peer = s
  <2>1. CASE u = l
    <3>1. i \in 1 .. Len(q) \/ i = Len(q) + 1
      BY <1>1, <1>3, <1>4, <2>1
    <3> QED BY <1>1, <1>3, <2>1, <3>1
  <2>2. CASE u # l
    BY <2>2 DEF Asked
  <2> QED BY <2>1, <2>2
<1>5. ASSUME NEW u \in Socks, NEW i \in DOMAIN sock[u].queue, sock[u].open
      PROVE  sock[u].queue[i].peer # s
  BY <1>5 DEF Pending, Asks
<1>6. ASSUME NEW u \in Socks, NEW i \in DOMAIN sock'[u].queue, sock'[u].open
      PROVE  LET v == sock'[u].queue[i].peer IN sock'[v].type = "UNBOUND" /\ sock'[v].open
  <2>0. sock[u].open
    BY <1>6 DEF Asked
  <2>1. CASE i \in DOMAIN sock[u].queue /\ sock'[u].queue[i] = sock[u].queue[i]
    <3>1. sock[u].queue[i].peer \in Socks
      BY <2>1, QueuedPeer DEF SInv
    <3> QED BY <2>0, <2>1, <3>1 DEF SInv, QueueInv, Asked
  <2>2. CASE sock'[u].queue[i].peer = s
    BY <2>2 DEF Asked
  <2> QED BY <1>4, <2>1, <2>2
<1>7. ASSUME NEW u \in Socks, NEW v \in Socks,
             NEW i \in DOMAIN sock'[u].queue, NEW j \in DOMAIN sock'[v].queue,
             sock'[u].open, sock'[v].open, sock'[u].queue[i].peer = sock'[v].queue[j].peer
      PROVE  u = v /\ i = j
  <2>0. sock[u].open /\ sock[v].open
    BY <1>7 DEF Asked
  <2>1. CASE /\ i \in DOMAIN sock[u].queue /\ sock'[u].queue[i] = sock[u].queue[i]
             /\ j \in DOMAIN sock[v].queue /\ sock'[v].queue[j] = sock[v].queue[j]
    BY <1>7, <2>0, <2>1 DEF SInv, QueueInv
  <2>2. CASE /\ i \in DOMAIN sock[u].queue /\ sock'[u].queue[i] = sock[u].queue[i]
             /\ sock'[v].queue[j].peer = s
    BY <1>5, <1>7, <2>0, <2>2
  <2>3. CASE /\ sock'[u].queue[i].peer = s
             /\ j \in DOMAIN sock[v].queue /\ sock'[v].queue[j] = sock[v].queue[j]
    BY <1>5, <1>7, <2>0, <2>3
  <2>4. CASE u = l /\ i = Len(q) + 1 /\ v = l /\ j = Len(q) + 1
    BY <2>4
  <2>5. /\ \/ i \in DOMAIN sock[u].queue /\ sock'[u].queue[i] = sock[u].queue[i]
           \/ u = l /\ i = Len(q) + 1 /\ sock'[u].queue[i].peer = s
        /\ \/ j \in DOMAIN sock[v].queue /\ sock'[v].queue[j] = sock[v].queue[j]
           \/ v = l /\ j = Len(q) + 1 /\ sock'[v].queue[j].peer = s
    BY <1>4
  <2> QED BY <2>1, <2>2, <2>3, <2>4, <2>5
<1> QED BY <1>6, <1>7 DEF QueueInv

LEMMA ConnectStep ==
    ASSUME SInv, Careful, NEW t \in Threads, NEW s \in Socks, NEW port \in Ports,
           sys_Connect(t, s, port)
    PROVE  SInv'
<1> DEFINE l == PORT_MAP[port]
           c == [Idle EXCEPT !.op = "Connect", !.sock = s, !.on = l]
           req == [peer |-> s, owner |-> t]
           x == Append(sock[l].queue, req)
           n == sock[l].refcount + 1
<1>1. /\ calling[t] = Idle /\ sock[s].open /\ ~Pending(s) /\ sock[s].type = "UNBOUND"
      /\ l # NULL /\ sock[l].type = "LISTENER"
      /\ Comes(t, c) /\ pipes' = pipes /\ PORT_MAP' = PORT_MAP
  BY DEF sys_Connect, Usable, Comes
<1>2. l \in Socks /\ sock[l].open /\ ~sock[l].freed /\ l # s
  BY <1>1 DEF SInv, TypeOK, SockInv, PortMapSound
<1>3. PICK woken \in {{}} \union {{u} : u \in sock[l].req_available} :
        sock' = [sock EXCEPT ![l].refcount = @ + 1, ![l].queue = x,
                             ![l].req_available = @ \ woken]
  BY DEF sys_Connect
<1> DEFINE z == sock[l].req_available \ woken
           d == [sock[l] EXCEPT !.refcount = n]
           e == [d EXCEPT !.queue = x]
           f == [e EXCEPT !.req_available = z]
<1>4. c \in CallType /\ c.op = "Connect" /\ c.on = l
  BY <1>2 DEF Idle, CallType
<1> HIDE DEF l
<1>5. /\ sock \in [Socks -> SockType] /\ sock[l] \in SockType /\ n \in Int
      /\ sock[l].queue \in Seq(Request) /\ z \in SUBSET Threads
  BY <1>2 DEF SInv, TypeOK, SockType
<1>6. req \in Request
  BY DEF Request
<1> HIDE DEF req
<1>7. x \in Seq(Request)
  BY <1>5, <1>6
<1>8. sock' = [sock EXCEPT ![l] = f]
  BY <1>2, <1>3, <1>5
<1> HIDE DEF x, z, n
<1>9. f \in SockType
  <2>1. d \in SockType
    BY <1>5, Fields, Zenon
  <2> HIDE DEF d
  <2>2. e \in SockType
    BY <1>7, <2>1, Fields
  <2> HIDE DEF e
  <2> QED BY <1>5, <2>2, Fields
<1>10. /\ f.refcount = n /\ f.queue = x /\ f.type = sock[l].type /\ f.port = sock[l].port
       /\ f.freed = sock[l].freed /\ f.open = sock[l].open /\ f.fcb = sock[l].fcb
       /\ f.read_pipe = sock[l].read_pipe /\ f.write_pipe = sock[l].write_pipe
  BY <1>5 DEF SockType
<1> HIDE DEF f
<1>11. /\ sock' \in [Socks -> SockType] /\ sock'[l] = f
       /\ \A u \in Socks \ {l} : sock'[u] = sock[u]
  BY <1>2, <1>5, <1>8, <1>9
<1> HIDE DEF c
<1>12. calling' \in [Threads -> CallType] /\ calling'[t] = c /\ OthersCall(t)
  BY <1>1, <1>4, ComesTo DEF SInv
<1>13. pipes' = pipes /\ PORT_MAP' = PORT_MAP
  BY <1>1
<1>14. TypeOK'
  BY <1>11, <1>12, <1>13 DEF SInv, TypeOK
<1>15. \A u \in Socks :
          /\ sock'[u].type = sock[u].type /\ sock'[u].port = sock[u].port
          /\ sock'[u].freed = sock[u].freed /\ sock'[u].open = sock[u].open
          /\ sock'[u].fcb = sock[u].fcb
          /\ sock'[u].read_pipe = sock[u].read_pipe /\ sock'[u].write_pipe = sock[u].write_pipe
  BY <1>10, <1>11
<1>16. CountInv'
  <2>1. \A u \in Socks : /\ t \notin Waiting(u) /\ (t \in Waiting(u)' <=> u = l)
                         /\ t \notin Inside(u) /\ t \notin Inside(u)'
    BY <1>1, <1>4, <1>12 DEF Waiting, Inside, Idle
  <2>2. \A u \in Socks : sock[u].refcount \in Int
    BY DEF SInv, TypeOK, SockType
  <2>3. \A u \in Socks : sock'[u].refcount = sock[u].refcount + (IF u = l THEN 1 ELSE 0)
    BY <1>10, <1>11, <2>2 DEF n
  <2>4. Follow(t)
    BY <1>15, <2>1, <2>2, <2>3 DEF Follow, One
  <2> QED BY <1>12, <1>14, <2>4, CountsFollow
<1>17. QueueInv'
  <2>1. Asked(s, l)
    <3>1. req.peer = s /\ sock'[l].queue = Append(sock[l].queue, req)
      BY <1>10, <1>11 DEF req, x
    <3> QED BY <1>6, <1>11, <1>15, <3>1 DEF Asked
  <2> QED BY <1>1, <1>2, <2>1, AskedQueues
<1>18. SockInv'
  BY <1>13, <1>15 DEF SInv, SockInv, PortMapSound, TypeOK
<1>19. CallInv'
  <2>1. ASSUME NEW u \in Threads \ {t} PROVE CallOK(u)'
    BY <1>12, <1>15 DEF SInv, CallInv, CallOK, OthersCall, SameCall
  <2>2. CallOK(t)'
    BY <1>1, <1>2, <1>4, <1>12, <1>15 DEF CallOK
  <2> QED BY <2>1, <2>2 DEF CallInv
<1>20. Ends(sock, pipes)'
  BY <1>13, <1>15 DEF SInv, Ends
<1> QED BY <1>14, <1>16, <1>17, <1>18, <1>19, <1>20 DEF SInv

LEMMA ConnectReturnsStep ==
    ASSUME SInv, NEW t \in Threads, ConnectReturns(t)
    PROVE  SInv'
<1> DEFINE l == calling[t].on
           q == sock[l].queue
           x == [i \in DOMAIN q |-> IF q[i].owner = t THEN [q[i] EXCEPT !.owner = NULL] ELSE q[i]]
           n == sock[l].refcount - 1
           d == [sock[l] EXCEPT !.refcount = n]
           e == [d EXCEPT !.queue = x]
<1>1. /\ calling[t].op = "Connect" /\ Comes(t, Idle) /\ pipes' = pipes /\ PORT_MAP' = PORT_MAP
      /\ sock' = [Dropped(sock, l) EXCEPT ![l].queue =
                    [i \in DOMAIN @ |-> IF @[i].owner = t THEN [@[i] EXCEPT !.owner = NULL] ELSE @[i]]]
  BY DEF ConnectReturns, Comes
<1>2. l \in Socks
  BY <1>1 DEF SInv, CallInv, CallOK
<1> HIDE DEF l
<1>3. sock \in [Socks -> SockType] /\ sock[l] \in SockType /\ n \in Int /\ q \in Seq(Request)
  BY <1>2 DEF SInv, TypeOK, SockType
<1>4. sock' = [sock EXCEPT ![l] = e]
  <2>1. Dropped(sock, l) = [sock EXCEPT ![l] = d]
    BY <1>2, <1>3 DEF Dropped
  <2>2. Dropped(sock, l)[l].queue = q /\ Dropped(sock, l)[l] = d
    BY <1>2, <1>3, <2>1 DEF SockType
  <2>3. sock' = [Dropped(sock, l) EXCEPT ![l] = [Dropped(sock, l)[l] EXCEPT !.queue = x]]
    BY <1>1, <2>2
  <2> QED BY <1>2, <1>3, <2>1, <2>2, <2>3
<1>5. x \in Seq(Request) /\ SamePeers(x, q)
  <2>1. ASSUME NEW i \in DOMAIN q PROVE x[i] \in Request /\ x[i].peer = q[i].peer
    <3>1. q[i] \in Request
      BY <1>3
    <3>2. [q[i] EXCEPT !.owner = NULL] \in Request /\ [q[i] EXCEPT !.owner = NULL].peer = q[i].peer
      BY <3>1 DEF Request
    <3> QED BY <3>1, <3>2
  <2>2. Len(q) \in Nat /\ DOMAIN q = 1 .. Len(q) /\ DOMAIN x = DOMAIN q
    BY <1>3
  <2>3. x \in [1 .. Len(q) -> Request]
    BY <2>1, <2>2
  <2>4. x \in Seq(Request)
    <3> HIDE DEF x
    <3> QED BY <2>2, <2>3
  <2> QED BY <2>1, <2>2, <2>4 DEF SamePeers
<1> HIDE DEF x, n
<1>6. e \in SockType
  <2>1. d \in SockType
    BY <1>3, Fields, Zenon
  <2> HIDE DEF d
  <2> QED BY <1>5, <2>1, Fields
<1>7. /\ e.refcount = n /\ e.queue = x /\ e.type = sock[l].type /\ e.port = sock[l].port
      /\ e.freed = sock[l].freed /\ e.open = sock[l].open /\ e.fcb = sock[l].fcb
      /\ e.read_pipe = sock[l].read_pipe /\ e.write_pipe = sock[l].write_pipe
  BY <1>3 DEF SockType
<1> HIDE DEF e
<1>8. /\ sock' \in [Socks -> SockType] /\ sock'[l] = e
      /\ \A u \in Socks \ {l} : sock'[u] = sock[u]
  BY <1>2, <1>3, <1>4, <1>6
<1>9. calling' \in [Threads -> CallType] /\ calling'[t].op = "idle" /\ OthersCall(t)
  BY <1>1, ComesTo, IdleType DEF SInv
<1>10. pipes' = pipes /\ PORT_MAP' = PORT_MAP
  BY <1>1
<1>11. TypeOK'
  BY <1>8, <1>9, <1>10 DEF SInv, TypeOK
<1>12. Quiet /\ SamePipes(pipes', pipes)
  BY <1>5, <1>7, <1>8, <1>10 DEF Quiet, Steady, SamePeers, SamePipes
<1>13. CallOK(t)' /\ \A u \in Socks : t \notin Waiting(u)' /\ t \notin Inside(u)'
  BY <1>9, IdleOK
<1>14. Follow(t)
  <2>1. \A u \in Socks : t \notin Inside(u) /\ (t \in Waiting(u) <=> u = l)
    BY <1>1 DEF Waiting, Inside, l
  <2>2. \A u \in Socks : sock[u].refcount \in Int
    BY DEF SInv, TypeOK, SockType
  <2>3. \A u \in Socks : /\ sock'[u].refcount = sock[u].refcount - (IF u = l THEN 1 ELSE 0)
                         /\ sock'[u].fcb = sock[u].fcb /\ sock'[u].open = sock[u].open
    BY <1>7, <1>8, <2>2 DEF n
  <2> QED BY <1>13, <2>1, <2>2, <2>3 DEF Follow, One
<1> QED BY <1>9, <1>10, <1>11, <1>12, <1>13, <1>14, QuietStep

-----------------------------------------------------------------------------
(***************************************************************************)
(* Read and Write.                                                         *)
(***************************************************************************)
\* The control block b has the ends that a has.
EndsOf(b, a) == IsPipe(b) /\ b.reader = a.reader /\ b.writer = a.writer /\ b.freed = a.freed

LEMMA BytesKeepEnds ==
    ASSUME NEW a, IsPipe(a)
    PROVE  EndsOf(ReadBytes(a, 1), a) /\ EndsOf(WriteBytes(a, <<1>>), a)
<1>1. ASSUME NEW c, NEW p, NEW n, NEW h
      PROVE  /\ EndsOf([a EXCEPT !.cell = c, !.r_pos = p, !.bufferBytes = n, !.hasSpace = h], a)
             /\ EndsOf([a EXCEPT !.cell = c, !.w_pos = p, !.bufferBytes = n, !.hasData = h], a)
  BY DEF IsPipe, EndsOf
<1>2. EndsOf(a, a)
  BY DEF EndsOf
<1>3. \/ ReadBytes(a, 1) = a
      \/ \E c, p, n, h : ReadBytes(a, 1) =
            [a EXCEPT !.cell = c, !.r_pos = p, !.bufferBytes = n, !.hasSpace = h]
  BY Zenon DEF ReadBytes
<1>4. \/ WriteBytes(a, <<1>>) = a
      \/ \E c, p, n, h : WriteBytes(a, <<1>>) =
            [a EXCEPT !.cell = c, !.w_pos = p, !.bufferBytes = n, !.hasData = h]
  BY Zenon DEF WriteBytes
<1>5. EndsOf(ReadBytes(a, 1), a)
  <2>1. CASE ReadBytes(a, 1) = a
    BY <1>2, <2>1, Zenon
  <2>2. CASE ReadBytes(a, 1) # a
    <3>1. PICK c, p, n, h : ReadBytes(a, 1) =
            [a EXCEPT !.cell = c, !.r_pos = p, !.bufferBytes = n, !.hasSpace = h]
      BY <1>3, <2>2, Zenon
    <3>2. EndsOf([a EXCEPT !.cell = c, !.r_pos = p, !.bufferBytes = n, !.hasSpace = h], a)
      BY <1>1
    <3> QED BY <3>1, <3>2, Zenon
  <2> QED BY <2>1, <2>2
<1>6. EndsOf(WriteBytes(a, <<1>>), a)
  <2>1. CASE WriteBytes(a, <<1>>) = a
    BY <1>2, <2>1, Zenon
  <2>2. CASE WriteBytes(a, <<1>>) # a
    <3>1. PICK c, p, n, h : WriteBytes(a, <<1>>) =
            [a EXCEPT !.cell = c, !.w_pos = p, !.bufferBytes = n, !.hasData = h]
      BY <1>4, <2>2, Zenon
    <3>2. EndsOf([a EXCEPT !.cell = c, !.w_pos = p, !.bufferBytes = n, !.hasData = h], a)
      BY <1>1
    <3> QED BY <3>1, <3>2, Zenon
  <2> QED BY <2>1, <2>2
<1> QED BY <1>5, <1>6

\* A byte is moved, or a thread goes to sleep: the ends stay as they are.
LEMMA MovedKeeps ==
    ASSUME SInv, NEW p \in Pipes, NEW op \in {"Read", "Write"}, NEW t \in Threads
    PROVE  /\ PipesIn(Moved(op, p)) /\ SamePipes(Moved(op, p), pipes)
           /\ PipesIn(Asleep(op, t, p)) /\ SamePipes(Asleep(op, t, p), pipes)
<1>1. PipesIn(pipes) /\ IsPipe(pipes[p])
  BY DEF SInv, TypeOK, PipesIn, PipesOK
<1>2. ASSUME NEW a, IsPipe(a), a.reader = pipes[p].reader, a.writer = pipes[p].writer,
             a.freed = pipes[p].freed
      PROVE  PipesIn([pipes EXCEPT ![p] = a]) /\ SamePipes([pipes EXCEPT ![p] = a], pipes)
  BY <1>1, <1>2 DEF PipesIn, PipesOK, SamePipes
<1>3. PipesIn(Moved(op, p)) /\ SamePipes(Moved(op, p), pipes)
  <2>1. CASE op = "Read"
    <3>1. Moved(op, p) = [pipes EXCEPT ![p] = ReadBytes(pipes[p], 1)]
      BY <2>1 DEF Moved
    <3> QED BY <1>1, <1>2, <3>1, BytesKeepEnds, Zenon DEF EndsOf
  <2>2. CASE op = "Write"
    <3>1. Moved(op, p) = [pipes EXCEPT ![p] = WriteBytes(pipes[p], <<1>>)]
      BY <2>2 DEF Moved
    <3> QED BY <1>1, <1>2, <3>1, BytesKeepEnds, Zenon DEF EndsOf
  <2> QED BY <2>1, <2>2
<1>4. PipesIn(Asleep(op, t, p)) /\ SamePipes(Asleep(op, t, p), pipes)
  <2>1. CASE op = "Read"
    <3> DEFINE a == [pipes[p] EXCEPT !.hasData = pipes[p].hasData \union {t}]
    <3>1. Asleep(op, t, p) = [pipes EXCEPT ![p] = a]
      BY <2>1 DEF Asleep
    <3>2. IsPipe(a) /\ a.reader = pipes[p].reader /\ a.writer = pipes[p].writer /\ a.freed = pipes[p].freed
      BY <1>1 DEF IsPipe
    <3> HIDE DEF a
    <3> QED BY <1>2, <3>1, <3>2
  <2>2. CASE op = "Write"
    <3> DEFINE a == [pipes[p] EXCEPT !.hasSpace = pipes[p].hasSpace \union {t}]
    <3>1. Asleep(op, t, p) = [pipes EXCEPT ![p] = a]
      BY <2>2 DEF Asleep
    <3>2. IsPipe(a) /\ a.reader = pipes[p].reader /\ a.writer = pipes[p].writer /\ a.freed = pipes[p].freed
      BY <1>1 DEF IsPipe
    <3> HIDE DEF a
    <3> QED BY <1>2, <3>1, <3>2
  <2> QED BY <2>1, <2>2
<1> QED BY <1>3, <1>4

\* Only the insides of pipes change.
LEMMA PipesOnlyStep ==
    ASSUME SInv, PipesIn(pipes'), SamePipes(pipes', pipes),
           sock' = sock, PORT_MAP' = PORT_MAP, calling' = calling
    PROVE  SInv'
<1>1. TypeOK'
  BY DEF SInv, TypeOK, PipesIn
<1>2. Quiet
  BY DEF Quiet, Steady, SamePeers
<1>3. QueueInv' /\ SockInv'
  BY <1>1, <1>2, SteadySocks DEF Quiet
<1>4. CountInv'
  BY <1>1, CountsStill DEF Still
<1>5. CallInv'
  BY DEF SInv, CallInv, CallOK
<1>6. Ends(sock, pipes)'
  BY <1>2, QuietEnds
<1> QED BY <1>1, <1>3, <1>4, <1>5, <1>6 DEF SInv

LEMMA IOStep ==
    ASSUME SInv, NEW t \in Threads, NEW op \in {"Read", "Write"}, NEW s \in Socks, IO(t, op, s)
    PROVE  SInv'
<1> DEFINE p == IF op = "Read" THEN sock[s].read_pipe ELSE sock[s].write_pipe
           c == [Idle EXCEPT !.op = op, !.sock = s, !.on = p]
           n == sock[s].fcb + 1
           d == [sock[s] EXCEPT !.fcb = n]
<1>1. /\ calling[t] = Idle /\ p # NULL /\ PORT_MAP' = PORT_MAP
      /\ \/ /\ pipes' = Asleep(op, t, p) /\ Comes(t, c)
            /\ sock' = [sock EXCEPT ![s].fcb = @ + 1]
         \/ pipes' = Moved(op, p) /\ sock' = sock /\ calling' = calling
  BY DEF IO, Comes
<1>2. /\ sock \in [Socks -> SockType] /\ sock[s] \in SockType /\ n \in Int /\ p \in Pipes
  BY <1>1 DEF SInv, TypeOK, SockType
<1>3. /\ op = "Read" => p = sock[s].read_pipe
      /\ op = "Write" => p = sock[s].write_pipe
  OBVIOUS
<1> HIDE DEF p
<1>4. CASE pipes' = Moved(op, p) /\ sock' = sock /\ calling' = calling
  BY <1>1, <1>2, <1>4, MovedKeeps, PipesOnlyStep
<1>5. CASE pipes' = Asleep(op, t, p) /\ Comes(t, c) /\ sock' = [sock EXCEPT ![s].fcb = @ + 1]
  <2>1. c \in CallType /\ c.op = op /\ c.sock = s /\ c.on = p
    BY <1>2 DEF Idle, CallType
  <2> HIDE DEF c
  <2>2. calling' \in [Threads -> CallType] /\ calling'[t] = c /\ OthersCall(t)
    BY <1>5, <2>1, ComesTo DEF SInv
  <2>3. PipesIn(pipes') /\ SamePipes(pipes', pipes)
    BY <1>2, <1>5, MovedKeeps
  <2>4. d \in SockType
    BY <1>2, Fields, Zenon
  <2>5. /\ sock' \in [Socks -> SockType] /\ sock'[s] = d
        /\ \A u \in Socks \ {s} : sock'[u] = sock[u]
    BY <1>2, <1>5, <2>4
  <2>6. /\ d.refcount = sock[s].refcount /\ d.queue = sock[s].queue /\ d.type = sock[s].type
        /\ d.port = sock[s].port /\ d.fcb = n
        /\ d.freed = sock[s].freed /\ d.open = sock[s].open
        /\ d.read_pipe = sock[s].read_pipe /\ d.write_pipe = sock[s].write_pipe
    BY <1>2 DEF SockType
  <2> HIDE DEF d
  <2>7. TypeOK'
    BY <1>1, <2>2, <2>3, <2>5 DEF SInv, TypeOK, PipesIn
  <2>8. Quiet
    BY <2>5, <2>6 DEF Quiet, Steady, SamePeers
  <2>9. CallOK(t)'
    BY <1>2, <1>3, <2>1, <2>2, <2>5, <2>6 DEF CallOK
  <2>10. Follow(t)
    <3>1. \A u \in Socks : /\ t \notin Waiting(u) /\ t \notin Waiting(u)'
                           /\ t \notin Inside(u) /\ (t \in Inside(u)' <=> u = s)
      BY <1>1, <2>1, <2>2 DEF Waiting, Inside, Idle
    <3>2. \A u \in Socks : sock[u].fcb \in Int
      BY <1>2 DEF SockType
    <3>3. \A u \in Socks : /\ sock'[u].fcb = sock[u].fcb + (IF u = s THEN 1 ELSE 0)
                           /\ sock'[u].refcount = sock[u].refcount /\ sock'[u].open = sock[u].open
      BY <2>5, <2>6, <3>2
    <3> QED BY <3>1, <3>2, <3>3 DEF Follow, One
  <2> QED BY <1>1, <2>2, <2>3, <2>7, <2>8, <2>9, <2>10, QuietStep
<1> QED BY <1>1, <1>4, <1>5

LEMMA IOWakesStep ==
    ASSUME SInv, NEW t \in Threads, IOWakes(t)
    PROVE  SInv'
<1> DEFINE op == calling[t].op
           p == calling[t].on
           s == calling[t].sock
           ps == Moved(op, p)
<1>1. /\ op \in {"Read", "Write"}
      /\ \/ pipes' = Asleep(op, t, p) /\ sock' = sock /\ PORT_MAP' = PORT_MAP /\ calling' = calling
         \/ FCB_decref(s, sock, ps) /\ Comes(t, Idle)
  BY DEF IOWakes, Comes
<1>2. /\ s \in Socks /\ p \in Pipes
      /\ sock[s].read_pipe = p \/ sock[s].write_pipe = p
  BY <1>1 DEF SInv, CallInv, CallOK
<1>3. PipesIn(ps) /\ SamePipes(ps, pipes) /\ PipesIn(Asleep(op, t, p)) /\ SamePipes(Asleep(op, t, p), pipes)
  BY <1>1, <1>2, MovedKeeps
<1>4. CASE pipes' = Asleep(op, t, p) /\ sock' = sock /\ PORT_MAP' = PORT_MAP /\ calling' = calling
  BY <1>3, <1>4, PipesOnlyStep
<1>5. CASE FCB_decref(s, sock, ps) /\ Comes(t, Idle)
  <2>1. \A u \in Socks : /\ t \notin Waiting(u) /\ (t \in Inside(u) <=> u = s)
    BY <1>1 DEF Waiting, Inside
  <2> HIDE DEF op, p, s, ps
  <2>2. calling' \in [Threads -> CallType] /\ calling'[t].op = "idle" /\ OthersCall(t)
    BY <1>5, ComesTo, IdleType DEF SInv
  <2>3. CallOK(t)' /\ \A u \in Socks : t \notin Waiting(u)' /\ t \notin Inside(u)'
    BY <2>2, IdleOK
  <2>4. sock \in [Socks -> SockType] /\ PORT_MAP \in [Ports -> Socks \union {NULL}]
    BY DEF SInv, TypeOK
  <2>5. sock[s].type = "PEER" /\ Unbound(sock[s])
    <3>1. NULL \notin Pipes
      BY SocketAssumption DEF Pipes
    <3> QED BY <1>2, <3>1 DEF SInv, SockInv, Unbound
  <2>6. Decref(s, sock) /\ (Stays(s, sock, ps) \/ Closes(s, sock, ps))
    BY <1>2, <1>3, <1>5, <2>4, <2>5, DecrefDoes
  <2>7. TypeOK'
    BY <2>2, <2>6 DEF Decref, PipesIn, TypeOK
  <2>8. Follow(t)
    <3>1. \A u \in Socks : sock[u].fcb \in Int
      BY <2>4 DEF SockType
    <3>2. \A u \in Socks : /\ sock'[u].fcb = sock[u].fcb - (IF u = s THEN 1 ELSE 0)
                           /\ sock'[u].refcount = sock[u].refcount /\ sock'[u].open = sock[u].open
      BY <1>2, <2>6, <3>1 DEF Decref
    <3> QED BY <2>1, <2>3, <3>1, <3>2 DEF Follow, One
  <2>9. CASE Stays(s, sock, ps)
    <3>1. Quiet
      BY <1>2, <2>6, <2>9 DEF Quiet, Steady, SamePeers, Decref, Stays
    <3>2. SamePipes(pipes', pipes) /\ PORT_MAP' = PORT_MAP
      BY <1>3, <2>9 DEF Stays
    <3> QED BY <2>2, <2>3, <2>7, <2>8, <3>1, <3>2, QuietStep
  <2>10. CASE Closes(s, sock, ps)
    <3>1. CountInv'
      BY <2>2, <2>7, <2>8, CountsFollow
    <3>2. sock[s].fcb = Cardinality(Inside(s)) + (IF sock[s].open THEN 1 ELSE 0)
      BY <1>2 DEF SInv, CountInv
    <3>3. Cardinality(Inside(s)) \in Nat /\ IsFiniteSet(Inside(s)) /\ t \in Inside(s)
      BY <1>2, <2>1, SetsFinite, FS_CardinalityType
    <3>4. Cardinality(Inside(s)) # 0
      BY <3>3, FS_EmptySet
    <3>5. ~sock[s].open /\ Cardinality(Inside(s)) = 1
      BY <2>10, <3>2, <3>3, <3>4 DEF Closes
    <3>6. \A u \in Threads : u \in Inside(s) => u = t
      <4>1. Cardinality(Inside(s) \ {t}) = 0 /\ IsFiniteSet(Inside(s) \ {t})
        BY <3>3, <3>5, FS_RemoveElement
      <4>2. Inside(s) \ {t} = {}
        BY <4>1, FS_EmptySet
      <4> QED BY <4>2
    <3>7. \A u \in Threads : calling'[u].op = "idle" \/ SameCall(u)
      BY <2>2 DEF OthersCall
    <3>8. \A u \in Threads : calling'[u].op \in {"Read", "Write"} => calling'[u].sock # s
      <4> SUFFICES ASSUME NEW u \in Threads, calling'[u].op \in {"Read", "Write"}, calling'[u].sock = s
                   PROVE  FALSE
        OBVIOUS
      <4>1. u # t /\ SameCall(u)
        BY <2>2 DEF OthersCall
      <4>2. u \in Inside(s)
        BY <4>1 DEF SameCall, Inside
      <4> QED BY <3>6, <4>1, <4>2
    <3>9. Ended(pipes, pipes', sock[s].read_pipe, sock[s].write_pipe)
      BY <1>3, <2>10 DEF Closes, Ended, SamePipes
    <3>10. \A l \in Socks : \A i \in DOMAIN sock[l].queue : sock[l].open => sock[l].queue[i].peer # s
      BY <2>5 DEF SInv, QueueInv
    <3>11. Gone(s)
      BY <2>6, <2>10, <3>5, <3>7, <3>8, <3>9, <3>10 DEF Gone, Decref, Closes
    <3> QED BY <1>2, <2>7, <3>1, <3>11, GoneKeeps DEF SInv
  <2> QED BY <2>6, <2>9, <2>10
<1> QED BY <1>1, <1>4, <1>5

-----------------------------------------------------------------------------
LEMMA AcceptGoesOnStep ==
    ASSUME SInv, NEW t \in Threads, NEW l \in Socks, NEW held \in BOOLEAN,
           InAccept(t, l, held), AcceptGoesOn(t, l, held)
    PROVE  SInv'
BY AcceptClosedStep, AcceptFailsStep, AcceptConnectsStep DEF AcceptGoesOn

LEMMA AcceptStep ==
    ASSUME SInv, NEW t \in Threads, NEW l \in Socks, sys_Accept(t, l)
    PROVE  SInv'
<1>1. CASE AcceptWaits(t, l)
  BY <1>1, AcceptWaitsStep DEF sys_Accept
<1>2. CASE AcceptGoesOn(t, l, FALSE)
  <2>1. InAccept(t, l, FALSE)
    BY DEF sys_Accept, InAccept
  <2> QED BY <1>2, <2>1, AcceptGoesOnStep
<1> QED BY <1>1, <1>2 DEF sys_Accept

LEMMA AcceptWakesStep ==
    ASSUME SInv, NEW t \in Threads, AcceptWakes(t)
    PROVE  SInv'
<1> DEFINE l == calling[t].on
<1>1. /\ calling[t].op = "Accept"
      /\ \/ AcceptGoesOn(t, l, TRUE)
         \/ sock' = [sock EXCEPT ![l].req_available = @ \union {t}] /\ UNCHANGED <<pipes, PORT_MAP, calling>>
  BY DEF AcceptWakes
<1>2. l \in Socks /\ InAccept(t, l, TRUE)
  BY <1>1 DEF SInv, CallInv, CallOK, InAccept
<1> HIDE DEF l
<1>3. CASE AcceptGoesOn(t, l, TRUE)
  BY <1>2, <1>3, AcceptGoesOnStep
<1>4. CASE sock' = [sock EXCEPT ![l].req_available = @ \union {t}] /\ UNCHANGED <<pipes, PORT_MAP, calling>>
  BY <1>2, <1>4, AcceptSleepsStep
<1> QED BY <1>1, <1>3, <1>4

LEMMA SInvStep ==
    ASSUME SInv, Careful, [Next]_vars
    PROVE  SInv'
<1>1. CASE SocketCall
  <2>1. CASE \E port \in UsedPorts : sys_Socket(port)
    BY <2>1, SocketStep
  <2>2. CASE \E s \in Socks : sys_Listen(s)
    BY <2>2, ListenStep
  <2>3. CASE \E s \in Socks : Close(s)
    BY <2>3, CloseStep
  <2>4. CASE \E s \in Socks, how \in {"READ", "WRITE", "BOTH"} : sys_ShutDown(s, how)
    BY <2>4, ShutDownStep
  <2> QED BY <1>1, <2>1, <2>2, <2>3, <2>4 DEF SocketCall
<1>2. ASSUME NEW t \in Threads, ThreadCall(t) PROVE SInv'
  <2>1. CASE \E s \in Socks : sys_Accept(t, s)
    BY <2>1, AcceptStep
  <2>2. CASE \E s \in Socks, port \in Ports : sys_Connect(t, s, port)
    BY <2>2, ConnectStep
  <2>3. CASE \E s \in Socks, op \in {"Read", "Write"} : IO(t, op, s)
    BY <2>3, IOStep
  <2>4. CASE Timeout(t)
    BY <2>4, TimeoutStep
  <2> QED BY <1>2, <2>1, <2>2, <2>3, <2>4 DEF ThreadCall
<1>3. ASSUME NEW t \in Threads, Wakes(t) PROVE SInv'
  BY <1>3, AcceptWakesStep, ConnectReturnsStep, IOWakesStep DEF Wakes
<1>4. CASE UNCHANGED vars
  <2>1. sock' = sock /\ pipes' = pipes /\ PORT_MAP' = PORT_MAP /\ calling' = calling /\ Calls' = Calls
    BY <1>4 DEF vars, kernel
  <2>2. TypeOK' /\ QueueInv' /\ SockInv'
    BY <2>1 DEF SInv, TypeOK, QueueInv, SockInv, PortMapSound
  <2>3. CountInv'
    BY <2>1 DEF SInv, CountInv, Waiting, Inside
  <2>4. CallInv'
    BY <2>1 DEF SInv, CallInv, CallOK
  <2> QED BY <2>1, <2>2, <2>3, <2>4 DEF SInv
<1> QED BY <1>1, <1>2, <1>3, <1>4 DEF Next

(***************************************************************************)
(* As long as no call is made on a socket that is being connected, and no  *)
(* ShutDown of a direction that a blocked Read or Write on the socket is   *)
(* using, the port map names open listeners, the reference counts are      *)
(* exact, no pointer that is still to be used leads to freed memory, and   *)
(* each open end of a pipe is held by one socket: Connects that time out,  *)
(* listeners that close while threads wait and Accepts that run out of     *)
(* files included.                                                         *)
(***************************************************************************)
THEOREM SocketSafe == Careful /\ Spec => []SocketSound
<1> SUFFICES ASSUME Careful PROVE Spec => []SocketSound
  OBVIOUS
<1>1. Init => SInv
  BY SInvInit
<1>2. SInv /\ [Next]_vars => SInv'
  BY SInvStep
<1>3. SInv => SocketSound
  BY SInvSound
<1> QED BY <1>1, <1>2, <1>3, PTL DEF Spec

=============================================================================
