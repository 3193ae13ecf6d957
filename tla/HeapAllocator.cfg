SPECIFICATION Spec
CONSTANTS
    HeapStart = 2
    HeapSize = 26
    NodeSize = 4
    NodeAlign = 2
    Layouts <- MCLayouts
INVARIANTS
    NoOverlap
    NodesFit
    BlocksSuit
PROPERTIES
    LossIsPadding
CHECK_DEADLOCK FALSE
