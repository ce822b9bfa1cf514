\* The file table, that of the legacy kernel, and a pipe of three threads.
SPECIFICATION MCSpec
CONSTANTS
    Procs = {1, 2}
    First = 1
    MAX_FILEID = 4
    MAX_FILES = 3
    Minors = {0, 1}
    MAX_TERMINALS = 1
    Programs = {{"Open", "Close", "Exit"}, {"Open", "Exec", "Exit"}}
    Threads = {t1, t2, t3}
    ProcThreads = {u1, u2}
    MaxOldFids = 2
    PIPE_BUFFER_SIZE = 2
    Bytes = {0, 1}
    MaxLen = 2
    MaxFids = 2
SYMMETRY Symmetry
INVARIANTS
    TableSound
    OldTableSound
    PipeSound
    NoLostWakeup
PROPERTIES
    PipeIsChannel
CHECK_DEADLOCK FALSE
