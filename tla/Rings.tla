-------------------------------- MODULE Rings --------------------------------
(***************************************************************************)
(* The list operations of include/util.h on the next pointers alone, for   *)
(* the modules whose structures are linked through them.  Module RList has *)
(* both pointers, and RListProofs shows that prev is always the inverse of *)
(* next, so next alone determines a ring.                                  *)
(***************************************************************************)
EXTENDS Naturals, FiniteSets

Splice(next, a, b) == [next EXCEPT ![a] = next[b], ![b] = next[a]]

Before(next, a) == CHOOSE x \in DOMAIN next : next[x] = a

Remove(next, a)          == Splice(next, a, Before(next, a))
PushFront(next, list, a) == Splice(next, list, a)
PushBack(next, list, a)  == Splice(next, Before(next, list), a)

IsEmpty(next, a) == next[a] = a

(***************************************************************************)
(* The nodes of the ring of a: the least set that contains a and is closed *)
(* under next.                                                             *)
(***************************************************************************)
RingOf(next, a) ==
    LET Reach[n \in Nat] ==
            IF n = 0 THEN {a}
            ELSE LET near == Reach[n - 1]
                 IN  near \cup {next[x] : x \in near}
    IN  Reach[Cardinality(DOMAIN next)]

=============================================================================
