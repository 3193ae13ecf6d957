SPECIFICATION Spec
CONSTANTS
    Threads = {t1, t2, t3}
    InitThread = t1
    NoThread = NoThread
    LastPoint = 3
INVARIANTS
    EachThreadOnce
    ResumesRight
    RightPageTable
    BoundedWait
