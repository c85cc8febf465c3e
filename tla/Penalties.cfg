\* Three cycles; two requests at once, on different cycles.
SPECIFICATION Spec
CONSTANTS
    s1 = s1
    s2 = s2
    Sessions = {s1, s2}
    N = 3
    BaseEMI = 1
    Receipts = {0, 2}
    MaxEvents = 2
    Allocated = {1, 2}
    SameCycleOverlap = FALSE
SYMMETRY Symmetry
INVARIANTS
    TypeOK
    VerdictMatchesPenalty
    AddonsAreReplay
    RecoveredInFull
PROPERTIES
    HistoryIsImmutable
