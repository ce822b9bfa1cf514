\* Three threads that wait, with and without a timeout, signal and broadcast.
SPECIFICATION LiveSpec
CONSTANTS
    Threads = {t1, t2, t3}
    Timed = TRUE
INVARIANTS
    WaitSound
PROPERTIES
    SignalNotLost
    ImplementsMonitor
    SleeperWoken
CHECK_DEADLOCK FALSE
