SPECIFICATION Spec
CONSTANTS
    UserThreads = {u1, u2}
    KernelThreads = {k1}
    NoThread = NoThread
INVARIANTS
    NeverWild
CHECK_DEADLOCK FALSE
