\* A byte has three values; three stacks of nine bytes, for frames of four
\* registers; two readers and two writers, three bytes on the line.
SPECIFICATION MCSpec
CONSTANTS
    Base = 3
    Usec = 20
    MaxOverflows = 1
    NThreads = 2
    THREAD_STACK_SIZE = 9
    NReg = 3
    IsrDepth = 2
    NVersions = 1
    Readers = {"r1", "r2"}
    Writers = {"w1", "w2"}
    Size = 2
    RxDepth = 2
    MaxBytes = 3
INVARIANTS
    TimerExact
    SerialSound
    SwitchSound
PROPERTIES
    ThreadInterrupted
CHECK_DEADLOCK FALSE
