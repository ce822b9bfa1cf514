------------------------------- MODULE ListSpec -------------------------------
(***************************************************************************)
(* What the comments of include/util.h promise about resident lists: a     *)
(* list is a finite sequence of nodes, a node is in at most one list, and  *)
(* the operations are the usual ones on sequences.                         *)
(***************************************************************************)
EXTENDS Sequences, SequencesExt

CONSTANTS List, Item

VARIABLE seq        \* seq[L]: the nodes of list L, first to last

Free(n) == \A L \in List : n \notin ToSet(seq[L])

Init == seq = [L \in List |-> << >>]

PushFront(L, n) == Free(n) /\ seq' = [seq EXCEPT ![L] = <<n>> \o @]
PushBack(L, n)  == Free(n) /\ seq' = [seq EXCEPT ![L] = Append(@, n)]
PopFront(L)     == seq[L] # << >> /\ seq' = [seq EXCEPT ![L] = Tail(@)]
PopBack(L)      == seq[L] # << >> /\ seq' = [seq EXCEPT ![L] = Front(@)]
Remove_(n)      == seq' = [L \in List |-> Remove(seq[L], n)]
Append_(d, s)   == d # s /\ seq' = [seq EXCEPT ![d] = @ \o seq[s], ![s] = << >>]
Prepend(d, s)   == d # s /\ seq' = [seq EXCEPT ![d] = seq[s] \o @, ![s] = << >>]
Reverse_(L)     == seq' = [seq EXCEPT ![L] = Reverse(@)]
Move(n, d)      == seq' = [L \in List |-> IF L = d THEN Append(Remove(seq[L], n), n)
                                                   ELSE Remove(seq[L], n)]

Next ==
    \/ \E L \in List, n \in Item : PushFront(L, n) \/ PushBack(L, n) \/ Move(n, L)
    \/ \E L \in List : PopFront(L) \/ PopBack(L) \/ Reverse_(L)
    \/ \E n \in Item : Remove_(n)
    \/ \E d, s \in List : Append_(d, s) \/ Prepend(d, s)

Spec == Init /\ [][Next]_seq

=============================================================================
