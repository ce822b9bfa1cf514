\* An alarm that is pending when a fresh thread starts.
SPECIFICATION FairSpec
CONSTANTS
    MAX_THREADS = 2
    SCHED_QUEUES = 1
    YIELD_RUNS = 2
    NO_TIMEOUT = 7
    Timeouts = {7}
    Causes = {"USER"}
    ClockStep = 1
    MaxClock = 0
    LateAlarm = TRUE
PROPERTIES
    ExitedCleanedUp
