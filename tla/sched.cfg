\* Three threads on two priority levels: the causes that move a thread between
\* them, and deadlines that expire later, never, and by wrapping at once.
SPECIFICATION Spec
CONSTANTS
    MAX_THREADS = 3
    SCHED_QUEUES = 2
    YIELD_RUNS = 2
    NO_TIMEOUT = 7
    Timeouts = {2, 6}
    Causes = {"IO", "MUTEX"}
    ClockStep = 2
    MaxClock = 2
    LateAlarm = FALSE
INVARIANTS
    SchedQueueInvariant
    NoThreadLost
    ActiveThreadsCounted
    StoppedWhenNoThreads
    TimeoutInvariant
