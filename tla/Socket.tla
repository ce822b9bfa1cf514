------------------------------- MODULE Socket -------------------------------
(***************************************************************************)
(* The sockets of the legacy kernel (old/kernel_socket.c) with the pipes   *)
(* that connect them, used by the threads of one process.  Each step is    *)
(* what a thread does with the kernel lock, from a call or a kernel_wait   *)
(* to the next kernel_wait or its return; calls that fail at once change   *)
(* nothing and are left out.                                               *)
(*                                                                         *)
(* A socket_cb, its FCB and its descriptor are one element of Socks, never *)
(* used again after Close; the files run out by their number.  Every pipe  *)
(* carries one byte at most.  ShutDown is called on connected sockets: on  *)
(* others it follows pointers that were never set.                         *)
(***************************************************************************)
EXTENDS PipeBuffer, SequencesExt

CONSTANTS
    Socks, Threads, NULL,
    MAX_PORT,
    UsedPorts,  \* the ports of the sockets that are made
    MAX_FILES,
    MaxQueue,   \* bound on the requests in a queue
    Programs,   \* kinds of program: the sets of calls they make
    Careful     \* no call is made on a socket that is being connected, and none
                \* shuts down a direction that a blocked Read or Write is using

AllCalls == {"Listen", "Accept", "Connect", "Timeout", "ShutDown",
             "Read", "Write", "Close"}

ASSUME SocketAssumption ==
    /\ IsFiniteSet(Threads)
    /\ NULL \notin Socks \union Threads \union (Socks \X {1, 2})
    /\ MAX_PORT \in Nat /\ MAX_FILES \in Nat /\ MaxQueue \in Nat
    /\ UsedPorts \subseteq 0 .. MAX_PORT
    /\ Programs \subseteq SUBSET AllCalls /\ Careful \in BOOLEAN

NOPORT == 0
Ports  == 0 .. MAX_PORT

\* The two pipes of the connection that socket s was accepted for.
Pipes  == Socks \X {1, 2}
Inward(s)  == <<s, 1>>
Outward(s) == <<s, 2>>

VARIABLES
    sock,       \* the socket_cb of each socket, with its FCB
    pipes,      \* the pipe control blocks
    PORT_MAP,
    calling,    \* the call a thread is in
    Calls       \* the calls that the programs of this run make

kernel == <<sock, pipes, PORT_MAP, calling>>
vars   == <<kernel, Calls>>

NoSock == [ type |-> "NONE", port |-> NOPORT, refcount |-> 0, freed |-> FALSE, open |-> FALSE,
            fcb |-> 0, queue |-> <<>>, req_available |-> {},
            read_pipe |-> NULL, write_pipe |-> NULL ]

Idle == [op |-> "idle", sock |-> NULL, on |-> NULL, admitted |-> FALSE, timed |-> FALSE]

Init == /\ sock = [s \in Socks |-> NoSock]
        /\ pipes = [p \in Pipes |-> [pipe_init EXCEPT !.reader = FALSE, !.writer = FALSE]]
        /\ PORT_MAP = [p \in Ports |-> NULL]
        /\ calling = [t \in Threads |-> Idle]
        /\ Calls \in Programs

\* The socket is being connected: a Connect waits, or gave up and left its
\* request with a listener.
Asks(s, l) == \E i \in DOMAIN sock[l].queue : sock[l].queue[i].peer = s
Pending(s) == \/ \E t \in Threads : calling[t].op = "Connect" /\ calling[t].sock = s
              \/ \E l \in Socks : sock[l].open /\ Asks(s, l)

Usable(s) == sock[s].open /\ (Careful => ~Pending(s))

\* What FCB_reserve and socket_cb_init find.
NewSocks == {s \in Socks : sock[s].type = "NONE"}
CanReserve == Cardinality({s \in Socks : sock[s].fcb > 0}) < MAX_FILES /\ NewSocks # {}

socket_cb_init(port) ==
    [NoSock EXCEPT !.type = "UNBOUND", !.port = port, !.open = TRUE, !.fcb = 1]

sys_Socket(port) ==
    /\ CanReserve
    /\ sock' = [sock EXCEPT ![CHOOSE s \in NewSocks : TRUE] = socket_cb_init(port)]
    /\ UNCHANGED <<pipes, PORT_MAP, calling>>

sys_Listen(s) ==
    LET port == sock[s].port IN
    /\ "Listen" \in Calls /\ Usable(s)
    /\ port # NOPORT /\ PORT_MAP[port] = NULL /\ sock[s].type = "UNBOUND"
    /\ PORT_MAP' = [PORT_MAP EXCEPT ![port] = s]
    /\ sock' = [sock EXCEPT ![s].type = "LISTENER"]
    /\ UNCHANGED <<pipes, calling>>

-----------------------------------------------------------------------------
(***************************************************************************)
(* sys_Accept.                                                             *)
(***************************************************************************)
NoRequest(l) == sock[l].queue = <<>> /\ PORT_MAP[sock[l].port] # NULL

\* The sockets once the first request of listener l is connected to socket new.
Connected(l, new, req) ==
    [sock EXCEPT
        ![l].queue = Tail(@),
        ![new] = [socket_cb_init(sock[l].port) EXCEPT
                    !.type = "PEER", !.read_pipe = Inward(new), !.write_pipe = Outward(new)],
        ![req.peer].type = "PEER",
        ![req.peer].read_pipe = Outward(new),
        ![req.peer].write_pipe = Inward(new)]

\* Thread t is no longer in Accept or Connect on l.
Dropped(socks, l) == [socks EXCEPT ![l].refcount = @ - 1]

\* What Accept does when it need not wait (held: it has counted itself):
\* the listener was closed,
AcceptClosed(t, l, held) ==
    /\ ~NoRequest(l) /\ (PORT_MAP[sock[l].port] # l \/ sock[l].type # "LISTENER")
    /\ sock' = IF held THEN Dropped(sock, l) ELSE sock
    /\ calling' = [calling EXCEPT ![t] = Idle]
    /\ UNCHANGED <<pipes, PORT_MAP>>

\* there is no file for the new socket, and the request is lost,
AcceptFails(t, l, held) ==
    /\ ~NoRequest(l) /\ PORT_MAP[sock[l].port] = l /\ sock[l].type = "LISTENER"
    /\ ~CanReserve
    /\ LET popped == [sock EXCEPT ![l].queue = Tail(@)] IN
       sock' = IF held THEN Dropped(popped, l) ELSE popped
    /\ calling' = [calling EXCEPT ![t] = Idle]
    /\ UNCHANGED <<pipes, PORT_MAP>>

\* or the request is admitted and the thread in Connect is told.
AcceptConnects(t, l, held) ==
    LET req == Head(sock[l].queue)
        new == CHOOSE s \in NewSocks : TRUE
        done == Connected(l, new, req)
    IN
    /\ ~NoRequest(l) /\ PORT_MAP[sock[l].port] = l /\ sock[l].type = "LISTENER"
    /\ CanReserve
    /\ sock' = IF held THEN Dropped(done, l) ELSE done
    /\ pipes' = [pipes EXCEPT ![Inward(new)] = pipe_init, ![Outward(new)] = pipe_init]
    /\ calling' = [u \in Threads |-> IF u = t THEN Idle
                                  ELSE IF u = req.owner THEN [calling[u] EXCEPT !.admitted = TRUE]
                                  ELSE calling[u]]
    /\ UNCHANGED PORT_MAP

AcceptGoesOn(t, l, held) ==
    AcceptClosed(t, l, held) \/ AcceptFails(t, l, held) \/ AcceptConnects(t, l, held)

AcceptWaits(t, l) ==
    /\ calling[t] = Idle /\ NoRequest(l)
    /\ sock' = [sock EXCEPT ![l].refcount = @ + 1, ![l].req_available = @ \union {t}]
    /\ calling' = [calling EXCEPT ![t] = [Idle EXCEPT !.op = "Accept", !.on = l]]
    /\ UNCHANGED <<pipes, PORT_MAP>>

sys_Accept(t, l) ==
    /\ "Accept" \in Calls /\ calling[t] = Idle /\ sock[l].open /\ sock[l].type = "LISTENER"
    /\ AcceptWaits(t, l) \/ AcceptGoesOn(t, l, FALSE)

\* A thread that was woken in Accept takes the kernel lock again.
AcceptWakes(t) ==
    LET l == calling[t].on IN
    /\ calling[t].op = "Accept" /\ t \notin sock[l].req_available
    /\ \/ AcceptGoesOn(t, l, TRUE)
       \/ /\ NoRequest(l)
          /\ sock' = [sock EXCEPT ![l].req_available = @ \union {t}]
          /\ UNCHANGED <<pipes, PORT_MAP, calling>>

-----------------------------------------------------------------------------
(***************************************************************************)
(* sys_Connect.  A request in a queue has the socket that asks, and the    *)
(* thread that still waits for it.                                         *)
(***************************************************************************)
\* fault: the listener is not told
sys_Connect_Silent(t, s, port) ==
    LET l == PORT_MAP[port] IN
    /\ "Connect" \in Calls /\ calling[t] = Idle /\ Usable(s) /\ sock[s].type = "UNBOUND"
    /\ port > NOPORT /\ port < MAX_PORT - 1
    /\ l # NULL /\ sock[l].type = "LISTENER" /\ Len(sock[l].queue) < MaxQueue
    /\ sock' = [sock EXCEPT ![l].refcount = @ + 1,
                            ![l].queue = Append(@, [peer |-> s, owner |-> t])]
    /\ calling' = [calling EXCEPT ![t] = [Idle EXCEPT !.op = "Connect", !.sock = s, !.on = l]]
    /\ UNCHANGED <<pipes, PORT_MAP>>
sys_Connect(t, s, port) ==
    LET l == PORT_MAP[port] IN
    /\ "Connect" \in Calls /\ calling[t] = Idle /\ Usable(s) /\ sock[s].type = "UNBOUND"
    /\ port > NOPORT /\ port < MAX_PORT - 1
    /\ l # NULL /\ sock[l].type = "LISTENER" /\ Len(sock[l].queue) < MaxQueue
    /\ \E woken \in {{}} \union {{u} : u \in sock[l].req_available} :
        /\ woken = {} => sock[l].req_available = {}
        /\ sock' = [sock EXCEPT ![l].refcount = @ + 1,
                                ![l].queue = Append(@, [peer |-> s, owner |-> t]),
                                ![l].req_available = @ \ woken]
    /\ calling' = [calling EXCEPT ![t] = [Idle EXCEPT !.op = "Connect", !.sock = s, !.on = l]]
    /\ UNCHANGED <<pipes, PORT_MAP>>

Timeout(t) ==
    /\ "Timeout" \in Calls /\ calling[t].op = "Connect" /\ ~calling[t].admitted /\ ~calling[t].timed
    /\ calling' = [calling EXCEPT ![t].timed = TRUE]
    /\ UNCHANGED <<sock, pipes, PORT_MAP>>

\* Connect returns; the request stays where it is.
ConnectReturns(t) ==
    LET l == calling[t].on IN
    /\ calling[t].op = "Connect" /\ (calling[t].admitted \/ calling[t].timed)
    /\ sock' = [Dropped(sock, l) EXCEPT ![l].queue =
                    [i \in DOMAIN @ |-> IF @[i].owner = t THEN [@[i] EXCEPT !.owner = NULL] ELSE @[i]]]
    /\ calling' = [calling EXCEPT ![t] = Idle]
    /\ UNCHANGED <<pipes, PORT_MAP>>

-----------------------------------------------------------------------------
(***************************************************************************)
(* Closing.  CloseRead and CloseWrite are pipe_reader_close and            *)
(* pipe_writer_close on a pointer that may be NULL.                        *)
(***************************************************************************)
CloseRead(ps, p)  == IF p = NULL THEN ps ELSE [ps EXCEPT ![p] = pipe_reader_close(@)]
CloseWrite(ps, p) == IF p = NULL THEN ps ELSE [ps EXCEPT ![p] = pipe_writer_close(@)]

\* The calls that use what a ShutDown closes.
ShutOff(how) == CASE how = "READ" -> {"Read"} [] how = "WRITE" -> {"Write"}
                  [] how = "BOTH" -> {"Read", "Write"}

sys_ShutDown(s, how) ==
    LET r == sock[s].read_pipe
        w == sock[s].write_pipe
    IN
    /\ "ShutDown" \in Calls /\ Usable(s) /\ sock[s].type = "PEER"
    /\ Careful => \A t \in Threads : calling[t].sock = s => calling[t].op \notin ShutOff(how)
    /\ pipes' = CASE how = "READ"  -> CloseRead(pipes, r)
                 [] how = "WRITE" -> CloseWrite(pipes, w)
                 [] how = "BOTH"  -> CloseRead(CloseWrite(pipes, w), r)
    /\ sock' = [sock EXCEPT ![s].read_pipe = IF how = "WRITE" THEN @ ELSE NULL,
                            ![s].write_pipe = IF how = "READ" THEN @ ELSE NULL]
    /\ UNCHANGED <<PORT_MAP, calling>>

\* fault: a listener is freed although calls on it are waiting
socket_close_Free(s, socks, ps) ==
    LET c == socks[s] IN
    /\ PORT_MAP' = IF c.type = "LISTENER" THEN [PORT_MAP EXCEPT ![c.port] = NULL] ELSE PORT_MAP
    /\ pipes' = IF c.type = "PEER" THEN CloseWrite(CloseRead(ps, c.read_pipe), c.write_pipe) ELSE ps
    /\ sock' = [socks EXCEPT ![s].req_available = IF c.type = "LISTENER" THEN {} ELSE @,
                             ![s].read_pipe = NULL, ![s].write_pipe = NULL, ![s].freed = TRUE]
\* socket_close of s, when the sockets and the pipes are socks and ps.
socket_close(s, socks, ps) ==
    LET c == socks[s] IN
    /\ PORT_MAP' = IF c.type = "LISTENER" THEN [PORT_MAP EXCEPT ![c.port] = NULL] ELSE PORT_MAP
    /\ pipes' = IF c.type = "PEER" THEN CloseWrite(CloseRead(ps, c.read_pipe), c.write_pipe) ELSE ps
    /\ sock' = [socks EXCEPT ![s].req_available = IF c.type = "LISTENER" THEN {} ELSE @,
                             ![s].read_pipe = NULL, ![s].write_pipe = NULL,
                             ![s].freed = c.refcount = 0]

\* FCB_decref, after socks and ps have become the sockets and the pipes.
FCB_decref(s, socks, ps) ==
    LET less == [socks EXCEPT ![s].fcb = @ - 1] IN
    IF less[s].fcb = 0 THEN socket_close(s, less, ps)
    ELSE sock' = less /\ pipes' = ps /\ UNCHANGED PORT_MAP

Close(s) ==
    /\ "Close" \in Calls /\ Usable(s)
    /\ FCB_decref(s, [sock EXCEPT ![s].open = FALSE], pipes)
    /\ UNCHANGED calling

-----------------------------------------------------------------------------
(***************************************************************************)
(* socket_read and socket_write of one byte, called by Read and Write,     *)
(* which count themselves in the FCB.                                      *)
(***************************************************************************)
Waits(op, p)    == IF op = "Read" THEN MustWaitForData(pipes[p]) ELSE MustWaitForSpace(pipes[p])
Asleep(op, t, p) ==
    IF op = "Read" THEN [pipes EXCEPT ![p].hasData = @ \union {t}]
                   ELSE [pipes EXCEPT ![p].hasSpace = @ \union {t}]
Moved(op, p)    == [pipes EXCEPT ![p] = IF op = "Read" THEN ReadBytes(@, 1) ELSE WriteBytes(@, <<1>>)]

IO(t, op, s) ==
    LET p == IF op = "Read" THEN sock[s].read_pipe ELSE sock[s].write_pipe IN
    /\ op \in Calls /\ calling[t] = Idle /\ Usable(s) /\ sock[s].type = "PEER" /\ p # NULL
    /\ pipes[p].reader /\ (op = "Write" => pipes[p].writer)
    /\ IF Waits(op, p)
       THEN /\ pipes' = Asleep(op, t, p)
            /\ sock' = [sock EXCEPT ![s].fcb = @ + 1]
            /\ calling' = [calling EXCEPT ![t] = [Idle EXCEPT !.op = op, !.sock = s, !.on = p]]
       ELSE pipes' = Moved(op, p) /\ UNCHANGED <<sock, calling>>
    /\ UNCHANGED PORT_MAP

IOWakes(t) ==
    LET op == calling[t].op
        p  == calling[t].on
    IN
    /\ op \in {"Read", "Write"} /\ t \notin pipes[p].hasData \union pipes[p].hasSpace
    /\ IF Waits(op, p)
       THEN pipes' = Asleep(op, t, p) /\ UNCHANGED <<sock, PORT_MAP, calling>>
       ELSE /\ FCB_decref(calling[t].sock, sock, Moved(op, p))
            /\ calling' = [calling EXCEPT ![t] = Idle]

-----------------------------------------------------------------------------
Wakes(t) == AcceptWakes(t) \/ ConnectReturns(t) \/ IOWakes(t)

SocketCall == \/ \E port \in UsedPorts : sys_Socket(port)
              \/ \E s \in Socks : \/ sys_Listen(s) \/ Close(s)
                                  \/ \E how \in {"READ", "WRITE", "BOTH"} : sys_ShutDown(s, how)

ThreadCall(t) == \/ \E s \in Socks : \/ sys_Accept(t, s)
                                     \/ \E port \in Ports : sys_Connect(t, s, port)
                                     \/ \E op \in {"Read", "Write"} : IO(t, op, s)
                 \/ Timeout(t)

Next == /\ SocketCall \/ \E t \in Threads : ThreadCall(t) \/ Wakes(t)
        /\ UNCHANGED Calls

Spec == Init /\ [][Next]_vars

\* Threads that were woken get the kernel lock in the end.
LiveSpec == Spec /\ \A t \in Threads : WF_kernel(Wakes(t))

-----------------------------------------------------------------------------
HasRequest(t) == calling[t].op = "Accept" /\ sock[calling[t].on].queue # <<>>

(***************************************************************************)
(* The port map names open listening sockets of that port, never one that  *)
(* was closed or freed: sys_Connect follows it without a further test.     *)
(***************************************************************************)
PortMapSound == \A port \in Ports :
    LET l == PORT_MAP[port] IN
    l # NULL => sock[l].type = "LISTENER" /\ sock[l].port = port /\ ~sock[l].freed /\ sock[l].open

(***************************************************************************)
(* The count in a listener is the number of threads that wait in Accept or *)
(* Connect with a pointer to it.                                           *)
(***************************************************************************)
RefcountExact == \A l \in Socks :
    sock[l].refcount = Cardinality({t \in Threads : calling[t].op \in {"Accept", "Connect"}
                                                    /\ calling[t].on = l})

(***************************************************************************)
(* No pointer that is still to be used leads to freed memory: the listener *)
(* of a waiting call, the sockets that queued requests ask for, the pipe   *)
(* of a blocked Read or Write.                                             *)
(***************************************************************************)
NoUseAfterFree ==
    /\ \A t \in Threads :
        /\ calling[t].op \in {"Accept", "Connect"} => ~sock[calling[t].on].freed
        /\ calling[t].op \in {"Read", "Write"} => ~pipes[calling[t].on].freed
    /\ \A port \in Ports : PORT_MAP[port] # NULL =>
        LET q == sock[PORT_MAP[port]].queue IN \A i \in DOMAIN q : ~sock[q[i].peer].freed

(***************************************************************************)
(* The ends of a connection: each end of a pipe that is open is held by    *)
(* exactly one socket, and no socket is connected to itself.               *)
(***************************************************************************)
EndsHeld == \A p \in Pipes :
    /\ pipes[p].reader => \E s \in Socks : {u \in Socks : sock[u].read_pipe = p} = {s}
    /\ pipes[p].writer => \E s \in Socks : {u \in Socks : sock[u].write_pipe = p} = {s}
    /\ \A s \in Socks : sock[s].read_pipe = p => sock[s].write_pipe # p

(***************************************************************************)
(* Ports, counts, pointers and pipe ends fit together after every call,    *)
(* those that sleep, give up or find their listener closed included.       *)
(***************************************************************************)
SocketSound == PortMapSound /\ RefcountExact /\ NoUseAfterFree /\ EndsHeld

(***************************************************************************)
(* "A socket port is an integer between 1 and MAX_PORT": the port of a     *)
(* listener is an index of PORT_MAP, an array of MAX_PORT entries.         *)
(* The code does not keep this (README, Disagreements).                    *)
(***************************************************************************)
PortInArray == PORT_MAP[MAX_PORT] = NULL

(***************************************************************************)
(* A thread in Accept that has a request to take returns, unless others    *)
(* take them all.                                                          *)
(***************************************************************************)
AcceptServes == \A t \in Threads : HasRequest(t) ~> ~HasRequest(t)

(***************************************************************************)
(* Accept returns with an error if "while waiting, the listening socket    *)
(* lsock was closed".                                                      *)
(* The code does not keep this (README, Disagreements).                    *)
(***************************************************************************)
AcceptEnds == \A t \in Threads :
    (calling[t].op = "Accept" /\ ~sock[calling[t].on].open) ~> (calling[t] = Idle)

(***************************************************************************)
(* "Wakeup waiting sockets": a thread that waits in Connect does not wait  *)
(* on after the listener was closed.                                       *)
(* The code does not keep this (README, Disagreements).                    *)
(***************************************************************************)
ConnectEnds == \A t \in Threads :
    (calling[t].op = "Connect" /\ ~sock[calling[t].on].open) ~> (calling[t] = Idle)

(***************************************************************************)
(* A blocked Read returns when the socket at the other end is closed, and  *)
(* so does a blocked Write.                                                *)
(***************************************************************************)
CloseEndsIO == \A t \in Threads :
    (\/ calling[t].op = "Read" /\ ~pipes[calling[t].on].writer
     \/ calling[t].op = "Write" /\ ~pipes[calling[t].on].reader) ~> (calling[t] = Idle)

(***************************************************************************)
(* "After shutdown of socket A, the corresponding operation Read(A,...)    *)
(* ... will return -1", a Read that is blocked included.                   *)
(* The code does not keep this (README, Disagreements).                    *)
(***************************************************************************)
ShutdownEndsRead == \A t \in Threads :
    (calling[t].op = "Read" /\ ~pipes[calling[t].on].reader) ~> (calling[t] = Idle)

=============================================================================
