\* Three threads of a process with sockets on one port: they connect, give up and close,
\* they transfer and shut down, or they read and close.
SPECIFICATION LiveSpec
CONSTANTS
    PIPE_BUFFER_SIZE = 1
    Socks = {s1, s2, s3}
    Threads = {t1, t2, t3}
    NULL = NULL
    MAX_PORT = 3
    UsedPorts = {1}
    MAX_FILES = 3
    MaxQueue = 2
    Programs = {{"Listen", "Accept", "Connect", "Timeout", "Close"},
                {"Listen", "Accept", "Connect", "ShutDown", "Read", "Write"},
                {"Listen", "Accept", "Connect", "Read", "Close"}}
    Careful = TRUE
INVARIANTS
    SocketSound
PROPERTIES
    AcceptServes
    CloseEndsIO
CHECK_DEADLOCK FALSE
