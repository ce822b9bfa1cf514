------------------------------ MODULE RListProofs ------------------------------
(***************************************************************************)
(* Proofs about the resident lists, for every set of nodes, finite or not: *)
(* a splice undoes itself, and no sequence of list operations breaks the   *)
(* opposition of next and prev.                                            *)
(***************************************************************************)
EXTENDS RList, TLAPS

(***************************************************************************)
(* A splice keeps the pointers inside the nodes and prev the opposite of   *)
(* next, whether the two nodes are on one ring, on two, or are the same.   *)
(***************************************************************************)
LEMMA SpliceOpposite ==
    ASSUME NEW h \in Heap, Opposite(h), NEW a \in Node, NEW b \in Node
    PROVE  rl_splice(h, a, b) \in Heap /\ Opposite(rl_splice(h, a, b))
<1> DEFINE g == rl_splice(h, a, b)
<1>1. h.next \in [Node -> Node] /\ h.prev \in [Node -> Node]
  BY DEF Heap
<1>2. g.next = [h.next EXCEPT ![a] = h.next[b], ![b] = h.next[a]]
  BY DEF rl_splice
<1>3. g.prev = [h.prev EXCEPT ![h.next[a]] = b, ![h.next[b]] = a]
  BY DEF rl_splice, Opposite
<1>4. g \in Heap
  BY <1>1 DEF rl_splice, Heap
<1>5. ASSUME NEW p \in Node PROVE g.prev[g.next[p]] = p
  BY <1>1, <1>2, <1>3 DEF Opposite
<1>6. ASSUME NEW p \in Node PROVE g.next[g.prev[p]] = p
  BY <1>1, <1>2, <1>3 DEF Opposite
<1> QED
  BY <1>4, <1>5, <1>6 DEF Opposite

(***************************************************************************)
(* util.h: "A splice can be reversed by repeating it".                     *)
(***************************************************************************)
THEOREM SpliceInvolution ==
    ASSUME NEW h \in Heap, NEW a \in Node, NEW b \in Node
    PROVE  rl_splice(rl_splice(h, a, b), a, b) = h
<1> DEFINE g == rl_splice(h, a, b)
           f == rl_splice(g, a, b)
<1>1. h.next \in [Node -> Node] /\ h.prev \in [Node -> Node]
      /\ h = [next |-> h.next, prev |-> h.prev]
  BY DEF Heap
<1>2. g.next = [h.next EXCEPT ![a] = h.next[b], ![b] = h.next[a]]
  BY DEF rl_splice
<1>3. g.prev = [h.prev EXCEPT ![h.next[a]] = h.prev[h.next[b]],
                              ![h.next[b]] = h.prev[h.next[a]]]
  BY DEF rl_splice
<1>4. f.next = [g.next EXCEPT ![a] = g.next[b], ![b] = g.next[a]]
  BY DEF rl_splice
<1>5. f.prev = [g.prev EXCEPT ![g.next[a]] = g.prev[g.next[b]],
                              ![g.next[b]] = g.prev[g.next[a]]]
  BY DEF rl_splice
<1>6. g.next[a] = h.next[b] /\ g.next[b] = h.next[a]
  BY <1>1, <1>2
<1>7. f.next = h.next
  BY <1>1, <1>2, <1>4
<1>8. f.prev = h.prev
  BY <1>1, <1>3, <1>5, <1>6
<1>9. f = [next |-> f.next, prev |-> f.prev]
  BY DEF rl_splice
<1> QED
  BY <1>1, <1>7, <1>8, <1>9

(***************************************************************************)
(* rlist_remove leaves the node alone in its ring and closes the gap, and  *)
(* rlist_pop_front of an empty list changes nothing.                       *)
(***************************************************************************)
THEOREM RemoveIsolates ==
    ASSUME NEW h \in Heap, Opposite(h), NEW a \in Node
    PROVE  LET g == rlist_remove(h, a)
           IN  /\ g.next[a] = a /\ g.prev[a] = a
               /\ h.next[a] # a => /\ g.next[h.prev[a]] = h.next[a]
                                   /\ g.prev[h.next[a]] = h.prev[a]
               /\ \A p \in Node \ {a, h.prev[a]} : g.next[p] = h.next[p]
<1> DEFINE g == rlist_remove(h, a)
           b == h.prev[a]
<1>1. h.next \in [Node -> Node] /\ h.prev \in [Node -> Node] /\ b \in Node
  BY DEF Heap
<1>2. h.next[b] = a /\ h.prev[h.next[a]] = a
  BY DEF Opposite
<1>3. g.next = [h.next EXCEPT ![a] = a, ![b] = h.next[a]]
  BY <1>2 DEF rlist_remove, rl_splice
<1>4. g.prev = [h.prev EXCEPT ![h.next[a]] = b, ![a] = a]
  BY <1>2 DEF rlist_remove, rl_splice
<1>5. h.next[a] = a <=> b = a
  BY <1>1, <1>2 DEF Opposite
<1> QED
  BY <1>1, <1>2, <1>3, <1>4, <1>5

THEOREM PopFrontOfEmpty ==
    ASSUME NEW h \in Heap, NEW L \in Node, is_rlist_empty(h, L)
    PROVE  rlist_pop_front(h, L) = h
<1>1. h.next \in [Node -> Node] /\ h.prev \in [Node -> Node]
      /\ h = [next |-> h.next, prev |-> h.prev]
  BY DEF Heap
<1>2. h.next[L] = L
  BY DEF is_rlist_empty
<1>3. rlist_pop_front(h, L) = [next |-> [h.next EXCEPT ![L] = h.next[L], ![L] = h.next[L]],
                               prev |-> [h.prev EXCEPT ![L] = h.prev[L], ![L] = h.prev[L]]]
  BY <1>2 DEF rlist_pop_front, rl_splice
<1> QED
  BY <1>1, <1>3

(***************************************************************************)
(* The ring of a node is closed under both pointers, hence its complement  *)
(* is: reversing a ring concerns no pointer of another.                    *)
(***************************************************************************)
LEMMA RingClosed ==
    ASSUME NEW h \in Heap, NEW L \in Node, NEW p \in Ring(h, L)
    PROVE  h.next[p] \in Ring(h, L) /\ h.prev[p] \in Ring(h, L)
<1>1. p \in Node /\ h.next[p] \in Node /\ h.prev[p] \in Node
  BY DEF Ring, Heap
<1>2. ASSUME NEW S \in SUBSET Node, L \in S, Closed(h, S)
      PROVE  h.next[p] \in S /\ h.prev[p] \in S
  BY <1>2 DEF Ring, Closed
<1> QED
  BY <1>1, <1>2 DEF Ring

LEMMA ReverseOpposite ==
    ASSUME NEW h \in Heap, Opposite(h), NEW L \in Node
    PROVE  rlist_reverse(h, L) \in Heap /\ Opposite(rlist_reverse(h, L))
<1> DEFINE R == Ring(h, L)
           g == rlist_reverse(h, L)
<1>1. h.next \in [Node -> Node] /\ h.prev \in [Node -> Node]
  BY DEF Heap
<1>2. \A p \in R : h.next[p] \in R /\ h.prev[p] \in R
  BY RingClosed
<1>3. \A p \in Node \ R : h.next[p] \notin R /\ h.prev[p] \notin R
  BY <1>1, <1>2 DEF Opposite
<1>4. g.next = [p \in Node |-> IF p \in R THEN h.prev[p] ELSE h.next[p]]
      /\ g.prev = [p \in Node |-> IF p \in R THEN h.next[p] ELSE h.prev[p]]
  BY DEF rlist_reverse
<1>5. g \in Heap
  BY <1>1 DEF rlist_reverse, Heap
<1>6. ASSUME NEW p \in Node PROVE g.prev[g.next[p]] = p /\ g.next[g.prev[p]] = p
  <2> HIDE DEF R, g
  <2>1. CASE p \in R
    BY <1>1, <1>2, <1>4, <2>1 DEF Opposite
  <2>2. CASE p \notin R
    BY <1>1, <1>3, <1>4, <2>2 DEF Opposite
  <2> QED BY <2>1, <2>2
<1> QED
  BY <1>5, <1>6 DEF Opposite

(***************************************************************************)
(* The invariant, strengthened by the local state of rlist_select.         *)
(***************************************************************************)
WalkOK == walk.busy => I \in Node /\ walk.dst \in Node

IInv == RingInvariant /\ WalkOK

LEMMA IInvInit == Init => IInv
<1> SUFFICES ASSUME Init PROVE IInv
  OBVIOUS
<1>1. heap = [next |-> [p \in Node |-> p], prev |-> [p \in Node |-> p]]
  BY DEF Init
<1>2. RingInvariant
  BY <1>1 DEF RingInvariant, Heap, Opposite
<1>3. WalkOK
  BY DEF Init, Idling, WalkOK
<1> QED BY <1>2, <1>3 DEF IInv

LEMMA IInvStep == IInv /\ [NextAll]_vars => IInv'
<1> SUFFICES ASSUME IInv, [NextAll]_vars PROVE IInv'
  OBVIOUS
<1> USE ListAssumption
<1>1. heap \in Heap /\ Opposite(heap)
      /\ heap.next \in [Node -> Node] /\ heap.prev \in [Node -> Node]
  BY DEF IInv, RingInvariant, Heap
<1>2. ASSUME NEW h, Do(h), h \in Heap, Opposite(h) PROVE IInv'
  BY <1>2 DEF Do, IInv, RingInvariant, WalkOK
<1>3. ASSUME NEW L \in List, NEW n \in Item, PushFront(L, n) PROVE IInv'
  <2>1. rlist_push_front(heap, L, n) \in Heap /\ Opposite(rlist_push_front(heap, L, n))
    BY <1>1, SpliceOpposite DEF Item, rlist_push_front
  <2> QED BY <1>2, <1>3, <2>1 DEF PushFront
<1>4. ASSUME NEW L \in List, NEW n \in Item, PushBack(L, n) PROVE IInv'
  <2>1. rlist_push_back(heap, L, n) \in Heap /\ Opposite(rlist_push_back(heap, L, n))
    BY <1>1, SpliceOpposite DEF Item, rlist_push_back
  <2> QED BY <1>2, <1>4, <2>1 DEF PushBack
<1>5. ASSUME NEW L \in List, PopFront(L) PROVE IInv'
  <2>1. rlist_pop_front(heap, L) \in Heap /\ Opposite(rlist_pop_front(heap, L))
    BY <1>1, SpliceOpposite DEF rlist_pop_front
  <2> QED BY <1>2, <1>5, <2>1 DEF PopFront
<1>6. ASSUME NEW L \in List, PopBack(L) PROVE IInv'
  <2>1. rlist_pop_back(heap, L) \in Heap /\ Opposite(rlist_pop_back(heap, L))
    BY <1>1, SpliceOpposite DEF rlist_pop_back
  <2> QED BY <1>2, <1>6, <2>1 DEF PopBack
<1>7. ASSUME NEW L \in List, Reverse_(L) PROVE IInv'
  <2>1. rlist_reverse(heap, L) \in Heap /\ Opposite(rlist_reverse(heap, L))
    BY <1>1, ReverseOpposite
  <2> QED BY <1>2, <1>7, <2>1 DEF Reverse_
<1>8. ASSUME NEW n \in Item, Remove_(n) PROVE IInv'
  <2>1. rlist_remove(heap, n) \in Heap /\ Opposite(rlist_remove(heap, n))
    BY <1>1, SpliceOpposite DEF Item, rlist_remove
  <2> QED BY <1>2, <1>8, <2>1 DEF Remove_
<1>9. ASSUME NEW d \in List, NEW s \in List, Append_(d, s) PROVE IInv'
  <2> DEFINE h == rlist_push_back(heap, d, s)
  <2>1. h \in Heap /\ Opposite(h)
    BY <1>1, SpliceOpposite DEF rlist_push_back
  <2>2. h.prev[s] \in Node
    BY <2>1 DEF Heap
  <2>3. rlist_append(heap, d, s) \in Heap /\ Opposite(rlist_append(heap, d, s))
    BY <2>1, <2>2, SpliceOpposite DEF rlist_append, rlist_remove
  <2> QED BY <1>2, <1>9, <2>3 DEF Append_
<1>10. ASSUME NEW d \in List, NEW s \in List, Prepend(d, s) PROVE IInv'
  <2> DEFINE h == rlist_push_front(heap, d, s)
  <2>1. h \in Heap /\ Opposite(h)
    BY <1>1, SpliceOpposite DEF rlist_push_front
  <2>2. h.prev[s] \in Node
    BY <2>1 DEF Heap
  <2>3. rlist_prepend(heap, d, s) \in Heap /\ Opposite(rlist_prepend(heap, d, s))
    BY <2>1, <2>2, SpliceOpposite DEF rlist_prepend, rlist_remove
  <2> QED BY <1>2, <1>10, <2>3 DEF Prepend
<1>11. ASSUME NEW d \in List, NEW s \in List, NEW P \in SUBSET Item, SelectBegin(s, d, P)
       PROVE  IInv'
  BY <1>11 DEF SelectBegin, IInv, RingInvariant, WalkOK
<1>12. CASE SelectStep
  <2> DEFINE n == heap.next[I]
             h == rlist_remove(heap, n)
             g == rlist_push_back(h, walk.dst, n)
  <2>1. I \in Node /\ walk.dst \in Node
    BY <1>12 DEF SelectStep, IInv, WalkOK
  <2>2. n \in Node
    BY <1>1, <2>1
  <2>3. h \in Heap /\ Opposite(h)
    BY <1>1, <2>2, SpliceOpposite DEF rlist_remove
  <2>4. h.prev[walk.dst] \in Node
    BY <2>1, <2>3 DEF Heap
  <2>5. g \in Heap /\ Opposite(g)
    BY <2>2, <2>3, <2>4, SpliceOpposite DEF rlist_push_back
  <2>6. (heap' = g /\ I' = I) \/ (I' = n /\ heap' = heap)
    BY <1>12 DEF SelectStep
  <2>7. RingInvariant'
    BY <1>1, <2>5, <2>6 DEF RingInvariant
  <2>8. WalkOK'
    BY <1>12, <2>1, <2>2, <2>6 DEF SelectStep, WalkOK
  <2> QED BY <2>7, <2>8 DEF IInv
<1>13. CASE SelectEnd
  BY <1>13 DEF SelectEnd, Idling, IInv, RingInvariant, WalkOK
<1>14. CASE UNCHANGED vars
  BY <1>14 DEF vars, IInv, RingInvariant, WalkOK
<1> QED
  BY <1>3, <1>4, <1>5, <1>6, <1>7, <1>8, <1>9, <1>10, <1>11, <1>12, <1>13, <1>14
  DEF NextAll, Next

(***************************************************************************)
(* prev stays the opposite of next, whatever sequence of list operations   *)
(* the program performs on whatever nodes.                                 *)
(***************************************************************************)
THEOREM RingSafe == SpecAll => []RingInvariant
<1>1. IInv => RingInvariant
  BY DEF IInv
<1> QED
  BY IInvInit, IInvStep, <1>1, PTL DEF SpecAll

=============================================================================
