\* Two requests at once on two payments and two cycles.
SPECIFICATION Spec
CONSTANTS
    s1 = s1
    s2 = s2
    t1 = t1
    t2 = t2
    c1 = c1
    c2 = c2
    Sessions = {s1, s2}
    Txns = {t1, t2}
    Cycles = {c1, c2}
    Amounts = {1, 2}
    NoCycle = NoCycle
    Nobody = Nobody
    NoTxn = NoTxn
    SameTxnOverlap = FALSE
    StaleCycleReads = FALSE
SYMMETRY Symmetry
INVARIANTS
    TypeOK
    TotalsMatch
PROPERTIES
    ImplementsAtomicLedger
