\* Three threads that compute, yield, sleep with a timeout that expires or not,
\* and exit: two can keep the core while one is in a lower queue.
SPECIFICATION FairSpec
CONSTANTS
    MAX_THREADS = 3
    SCHED_QUEUES = 2
    YIELD_RUNS = 2
    NO_TIMEOUT = 7
    Timeouts = {1}
    Causes = {"IO"}
    ClockStep = 1
    MaxClock = 1
    LateAlarm = FALSE
PROPERTIES
    NoStarvation
    ExitedCleanedUp
    TimeoutWakes
    SchedulerStops
