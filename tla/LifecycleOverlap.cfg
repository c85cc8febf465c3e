\* Two requests in flight at once, automatic proposals on.
SPECIFICATION Spec
CONSTANTS
    s1 = s1
    s2 = s2
    p1 = p1
    p2 = p2
    p3 = p3
    Sessions = {s1, s2}
    Proposals = {p1, p2}
    MaxTerms = 1
    MaxPaid = 2
    MaxEvents = 1
    Overlap = TRUE
    AutoPropose = TRUE
    PatchedStatuses = {}
SYMMETRY Symmetry
INVARIANTS
    TypeOK
    ProposedLoanHasLiveProposal
    TerminalLoanHasItsClosure
    OneOpenProposal
    DownPaymentOnce
PROPERTIES
    ClosureIsFinal
    TerminalLeftOnlyByRejectOrStaleRead
CHECK_DEADLOCK FALSE
