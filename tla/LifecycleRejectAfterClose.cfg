\* Requests never overlap: each one starts when the previous one has ended.
SPECIFICATION Spec
CONSTANTS
    s1 = s1
    s2 = s2
    p1 = p1
    p2 = p2
    p3 = p3
    Sessions = {s1}
    Proposals = {p1, p2, p3}
    MaxTerms = 1
    MaxPaid = 2
    MaxEvents = 1
    Overlap = FALSE
    AutoPropose = TRUE
    PatchedStatuses = {}
PROPERTIES
    TerminalIsTerminal
CHECK_DEADLOCK FALSE
