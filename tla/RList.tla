-------------------------------- MODULE RList --------------------------------
(***************************************************************************)
(* The intrusive circular doubly linked lists of include/util.h, at the    *)
(* level of their pointers.  A node is in a ring; a list is the ring of    *)
(* its sentinel; everything but the initialisation and the reversal of a   *)
(* ring is made of one primitive, rl_splice.                               *)
(***************************************************************************)
EXTENDS Naturals, Sequences, FiniteSets, SequencesExt

CONSTANTS Node,     \* every rlnode of the program
          List      \* the ones that are list sentinels

ASSUME ListAssumption == List \subseteq Node

Item == Node \ List

VARIABLES heap,     \* the pointers: heap.next and heap.prev
          walk,     \* the running rlist_select and its arguments
          I         \* its local variable of this name

vars == <<heap, walk, I>>

Heap == [next : [Node -> Node], prev : [Node -> Node]]

(***************************************************************************)
(* rl_splice: swap the prev pointers of the two successors, then the next  *)
(* pointers of the two nodes.                                              *)
(***************************************************************************)
rl_splice_NextOnly(h, a, b) ==                    \* fault: the prev pointers are not swapped
    [h EXCEPT !.next = [@ EXCEPT ![a] = h.next[b], ![b] = h.next[a]]]
rl_splice(h, a, b) ==
    [next |-> [h.next EXCEPT ![a] = h.next[b], ![b] = h.next[a]],
     prev |-> [h.prev EXCEPT ![h.next[a]] = h.prev[h.next[b]],
                             ![h.next[b]] = h.prev[h.next[a]]]]

rlist_remove(h, a)        == rl_splice(h, a, h.prev[a])
rlist_push_front(h, L, n) == rl_splice(h, L, n)
rlist_push_back_First(h, L, n) == rl_splice(h, L, n)          \* fault: at the wrong end
rlist_push_back(h, L, n)  == rl_splice(h, h.prev[L], n)
rlist_pop_front(h, L)     == rl_splice(h, L, h.next[L])
rlist_pop_back(h, L)      == rl_splice(h, L, h.prev[L])
rlist_append(h, d, s)     == rlist_remove(rlist_push_back(h, d, s), s)
rlist_prepend(h, d, s)    == rlist_remove(rlist_push_front(h, d, s), s)
is_rlist_empty(h, L)      == h.next[L] = L

(***************************************************************************)
(* The ring of a node: the least set that contains it and is closed under  *)
(* both pointers.  The loop of rlist_reverse visits exactly these nodes    *)
(* and swaps the two pointers of each.                                     *)
(***************************************************************************)
Closed(h, S) == \A p \in S : h.next[p] \in S /\ h.prev[p] \in S

Ring(h, L) == {p \in Node : \A S \in SUBSET Node : L \in S /\ Closed(h, S) => p \in S}

rlist_reverse(h, L) ==
    LET R == Ring(h, L) IN
    [next |-> [p \in Node |-> IF p \in R THEN h.prev[p] ELSE h.next[p]],
     prev |-> [p \in Node |-> IF p \in R THEN h.next[p] ELSE h.prev[p]]]

-----------------------------------------------------------------------------
(* The lists that the pointers stand for                                   *)

(***************************************************************************)
(* Follow[n]: the node n steps after L.  A list has as many nodes as there *)
(* are steps before L comes back, less one.                                *)
(***************************************************************************)
Contents(h, L) ==
    LET Follow[n \in 0..Cardinality(Node)] == IF n = 0 THEN L ELSE h.next[Follow[n-1]]
        size == CHOOSE n \in 1..Cardinality(Node) :
                    /\ Follow[n] = L
                    /\ \A m \in 1..n-1 : Follow[m] # L
    IN  [k \in 1..size-1 |-> Follow[k]]

Singleton(n) == heap.next[n] = n

-----------------------------------------------------------------------------
(* Operations.  Nothing else happens while an rlist_select is under way.   *)

Idling == [busy |-> FALSE]

Init ==
    /\ heap = [next |-> [p \in Node |-> p], prev |-> [p \in Node |-> p]]
    /\ walk = Idling
    /\ I = CHOOSE p \in Node : TRUE      \* not read before SelectBegin sets it

Do(h) == ~walk.busy /\ heap' = h /\ UNCHANGED <<walk, I>>

PushFront(L, n) == Singleton(n) /\ Do(rlist_push_front(heap, L, n))
PushBack(L, n)  == Singleton(n) /\ Do(rlist_push_back(heap, L, n))
PopFront(L)     == Do(rlist_pop_front(heap, L))
PopBack(L)      == Do(rlist_pop_back(heap, L))
Remove_(n)      == Do(rlist_remove(heap, n))
Append_(d, s)   == d # s /\ Do(rlist_append(heap, d, s))
Prepend(d, s)   == d # s /\ Do(rlist_prepend(heap, d, s))
Reverse_(L)     == Do(rlist_reverse(heap, L))

(***************************************************************************)
(* rlist_select(src, dst, pred), one iteration at a time.  The walk also   *)
(* remembers what the two lists held at the call, for the property below.  *)
(***************************************************************************)
SelectBegin(s, d, P) ==
    /\ ~walk.busy
    /\ s # d
    /\ walk' = [busy |-> TRUE, src |-> s, dst |-> d, pred |-> P,
                src0 |-> Contents(heap, s), dst0 |-> Contents(heap, d)]
    /\ I' = s
    /\ UNCHANGED heap

AtEnd == heap.next[I] = walk.src

SelectStep_Reversing ==                           \* fault: selected nodes go to the front
    /\ walk.busy
    /\ ~AtEnd
    /\ LET n == heap.next[I] IN
       IF n \in walk.pred
       THEN heap' = rlist_push_front(rlist_remove(heap, n), walk.dst, n) /\ UNCHANGED I
       ELSE I' = n /\ UNCHANGED heap
    /\ UNCHANGED walk
SelectStep ==
    /\ walk.busy
    /\ ~AtEnd
    /\ LET n == heap.next[I] IN
       IF n \in walk.pred
       THEN heap' = rlist_push_back(rlist_remove(heap, n), walk.dst, n) /\ UNCHANGED I
       ELSE I' = n /\ UNCHANGED heap
    /\ UNCHANGED walk

SelectEnd ==
    /\ walk.busy
    /\ AtEnd
    /\ walk' = Idling
    /\ UNCHANGED <<heap, I>>

Next ==
    \/ \E L \in List, n \in Item : PushFront(L, n) \/ PushBack(L, n)
    \/ \E L \in List : PopFront(L) \/ Reverse_(L)
    \/ \E n \in Item : Remove_(n)
    \/ \E d, s \in List : Append_(d, s) \/ Prepend(d, s)
    \/ \E d, s \in List, P \in SUBSET Item : SelectBegin(s, d, P)
    \/ SelectStep
    \/ SelectEnd

Spec == Init /\ [][Next]_vars

(***************************************************************************)
(* The operations above and rlist_pop_back, which is not what its comment  *)
(* says (see PopsTail).                                                    *)
(***************************************************************************)
NextAll == Next \/ \E L \in List : PopBack(L)
SpecAll == Init /\ [][NextAll]_vars

-----------------------------------------------------------------------------
(* Properties                                                              *)

(***************************************************************************)
(* util.h on rings: prev is always the opposite of next, that is           *)
(* p->next->prev == p->prev->next == p, for every node and after every     *)
(* sequence of operations.                                                 *)
(***************************************************************************)
Opposite(h) == \A p \in Node : h.prev[h.next[p]] = p /\ h.next[h.prev[p]] = p

RingInvariant == heap \in Heap /\ Opposite(heap)

(***************************************************************************)
(* The pointer operations implement lists of nodes: what is read by        *)
(* following next from each sentinel changes as ListSpec says.             *)
(***************************************************************************)
Lists == INSTANCE ListSpec WITH seq <- [L \in List |-> Contents(heap, L)]

ImplementsLists == Lists!Spec

(***************************************************************************)
(* util.h on rlist_select: all nodes of the source that satisfy pred, and  *)
(* no others, have been appended to the destination, both lists in order.  *)
(***************************************************************************)
SelectPartitions ==
    walk.busy /\ AtEnd =>
        /\ Contents(heap, walk.dst) =
              walk.dst0 \o SelectSeq(walk.src0, LAMBDA n : n \in walk.pred)
        /\ Contents(heap, walk.src) = SelectSeq(walk.src0, LAMBDA n : n \notin walk.pred)

(***************************************************************************)
(* util.h on rlist_pop_back: applied on a non-empty list, it removes the   *)
(* tail of the list (and nothing else).                                    *)
(* The code does not keep this (README, Disagreements).                    *)
(***************************************************************************)
PopsTail ==
    [][\A L \in List : ~is_rlist_empty(heap, L) /\ PopBack(L) =>
          Contents(heap', L) = Front(Contents(heap, L))]_vars

=============================================================================
