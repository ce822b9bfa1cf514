------------------------------- MODULE Channel -------------------------------
(***************************************************************************)
(* What a pipe promises (tinyos.h): a bounded first-in first-out buffer    *)
(* that can be read until it is empty after its write end is closed, and   *)
(* cannot be written after its read end is.  The last call on an end that  *)
(* was closed meanwhile closes it as it returns.                           *)
(***************************************************************************)
EXTENDS Integers, Sequences

CONSTANTS Size, Bytes

VARIABLES queue, ropen, wopen

vars == <<queue, ropen, wopen>>

Init == queue = <<>> /\ ropen = TRUE /\ wopen = TRUE

Closing(open, open2) == open2 \in {open, FALSE}

Send == /\ ropen /\ wopen
        /\ \E k \in 1 .. Size - Len(queue) : \E b \in [1 .. k -> Bytes] : queue' = queue \o b
        /\ Closing(wopen, wopen')
        /\ UNCHANGED ropen

Receive == /\ ropen
           /\ \E k \in 1 .. Len(queue) : queue' = SubSeq(queue, k + 1, Len(queue))
           /\ Closing(ropen, ropen')
           /\ UNCHANGED wopen

Close == /\ Closing(ropen, ropen') /\ Closing(wopen, wopen')
         /\ UNCHANGED queue

Next == Send \/ Receive \/ Close

Spec == Init /\ [][Next]_vars

=============================================================================
