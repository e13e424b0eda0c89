CONSTANTS
    SCALE = 2
    HistoryCap = 2
    t1 = t1
    t2 = t2
    t3 = t3
    a1 = a1
    a2 = a2
    Procs <- MCProcs
    Kind <- MCKind
    AuditOf <- MCAuditOf
    Serial = TRUE
    NoFile = NoFile
    Partial = Partial

SPECIFICATION Spec

\* Every invocation eventually finishes, fails or is killed.
CHECK_DEADLOCK FALSE
INVARIANT TypeOK
PROPERTY HistoryImplemented
