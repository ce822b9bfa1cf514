\* Single-threaded programs: trees of up to four processes, slots used again.
SPECIFICATION Spec
CONSTANTS
    MAX_PROC = 5
    MAX_THREADS = 4
    MAX_ARG_SIZE = 1
    ArgLens = {0}
    Programs = {{"Exec", "Exit", "WaitChild", "WaitAny"}}
INVARIANTS
    RingsSound
    WaitSound
CHECK_DEADLOCK FALSE
