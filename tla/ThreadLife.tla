------------------------------ MODULE ThreadLife ------------------------------
(***************************************************************************)
(* What the scheduler promises about threads, without queues, timers or    *)
(* interrupts: the life cycle that the Thread_state and the comments on    *)
(* spawn_thread, wakeup and sleep_releasing in kernel_sched.h describe, on *)
(* a machine with one core.                                                *)
(***************************************************************************)
CONSTANT Thread

VARIABLE life      \* life[t]: where thread slot t is in its life

Init == life \in [Thread -> {"free", "ready"}]

Move(t, from, to) == life[t] = from /\ life' = [life EXCEPT ![t] = to]

Spawn(t)  == Move(t, "free", "new")
Ready(t)  == Move(t, "new", "ready") \/ Move(t, "blocked", "ready")
Yield(t)  == Move(t, "running", "ready")
Block(t)  == Move(t, "running", "blocked")
Die(t)    == Move(t, "running", "dead")
Reap(t)   == Move(t, "dead", "free")

(***************************************************************************)
(* The core is given to t; the thread that left it may be reaped meanwhile.*)
(***************************************************************************)
Dispatch(t) ==
    /\ life[t] = "ready"
    /\ \A u \in Thread : life[u] # "running"
    /\ \/ life' = [life EXCEPT ![t] = "running"]
       \/ \E u \in Thread : /\ life[u] = "dead"
                            /\ life' = [life EXCEPT ![t] = "running", ![u] = "free"]

Next == \E t \in Thread :
    Spawn(t) \/ Ready(t) \/ Yield(t) \/ Block(t) \/ Die(t) \/ Reap(t) \/ Dispatch(t)

Spec == Init /\ [][Next]_life

=============================================================================
