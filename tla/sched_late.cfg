\* Three threads; a quantum may end while interrupts are off.
SPECIFICATION Spec
CONSTANTS
    MAX_THREADS = 3
    SCHED_QUEUES = 2
    YIELD_RUNS = 2
    NO_TIMEOUT = 3
    Timeouts = {0, 3}
    Causes = {"IO"}
    ClockStep = 1
    MaxClock = 0
    LateAlarm = TRUE
INVARIANTS
    QueueSound
    CoreInvariant
PROPERTIES
    ImplementsThreadLife
