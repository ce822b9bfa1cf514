\* Two lists and four nodes, every operation but rlist_pop_back.
SPECIFICATION Spec
CONSTANTS
    Node = {L1, L2, n1, n2, n3, n4}
    List = {L1, L2}
INVARIANTS
    SelectPartitions
    RingInvariant
PROPERTIES
    ImplementsLists
