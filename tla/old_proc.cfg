\* Families with threads, families that are watched, and joins.
SPECIFICATION LiveSpec
CONSTANTS
    MAX_PROC = 4
    Threads = {t1, t2, t3, t4}
    ArgLens = {0}
    Programs = {{"Exec", "ExecNull", "CreateThread", "WaitChild", "Exit"},
                {"Exec", "ExecNull", "WaitChild", "Exit", "OpenInfo"},
                {"CreateThread", "ThreadJoin", "ThreadDetach", "ThreadExit"}}
    Careful = TRUE
INVARIANTS
    ProcSound
    InfoComplete
PROPERTIES
    OrphansReaped
    JoinReturns
CHECK_DEADLOCK FALSE
