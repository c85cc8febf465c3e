\* Two requests on the same payment.
SPECIFICATION Spec
CONSTANTS
    s1 = s1
    s2 = s2
    t1 = t1
    t2 = t2
    c1 = c1
    c2 = c2
    Sessions = {s1, s2}
    Txns = {t1, t2}
    Cycles = {c1, c2}
    Amounts = {1}
    NoCycle = NoCycle
    Nobody = Nobody
    NoTxn = NoTxn
    SameTxnOverlap = TRUE
    StaleCycleReads = FALSE
SYMMETRY Symmetry
INVARIANTS
    TotalsMatch
