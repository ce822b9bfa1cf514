------------------------------- MODULE Monitor -------------------------------
(***************************************************************************)
(* What the kernel lock and its condition promise: a Mesa monitor.  One    *)
(* thread at most is inside; it may leave, or wait and let others in; a    *)
(* thread inside may notify one that waits, which then has to enter again. *)
(***************************************************************************)
CONSTANTS Threads,
          Timed     \* whether a wait may end by itself

VARIABLE place  \* of each thread: "out", "in", "waiting" or "notified"

Init == place = [t \in Threads |-> "out"]

Move(t, from, to) == place[t] = from /\ place' = [place EXCEPT ![t] = to]

Enter(t) == /\ \A u \in Threads : place[u] # "in"
            /\ Move(t, "out", "in") \/ Move(t, "notified", "in")

Leave(t)   == Move(t, "in", "out")
Wait(t)    == Move(t, "in", "waiting")
Timeout(t) == Timed /\ Move(t, "waiting", "notified")

Notify(t) == /\ \E u \in Threads : place[u] = "in"
             /\ Move(t, "waiting", "notified")

Next == \E t \in Threads : Enter(t) \/ Leave(t) \/ Wait(t) \/ Timeout(t) \/ Notify(t)

Spec == Init /\ [][Next]_place

=============================================================================
