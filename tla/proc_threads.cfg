\* Families, processes that make threads until none is left, and joins.
SPECIFICATION LiveSpec
CONSTANTS
    MAX_PROC = 4
    MAX_THREADS = 3
    MAX_ARG_SIZE = 1
    ArgLens = {2}
    Programs = {{"Exec", "Exit", "WaitChild", "WaitAny"},
                {"Exec", "ExecNull", "CreateThread", "ThreadExit"},
                {"CreateThread", "ThreadExit", "Return", "Join", "Detach"}}
INVARIANTS
    ThreadsSound
PROPERTIES
    WaitReturns
    JoinReturns
CHECK_DEADLOCK FALSE
