SPECIFICATION Spec
CONSTANTS
    t1 = t1
    t2 = t2
    s1 = s1
    Txn = {t1, t2}
    Signature = {s1}
    Sig <- MCSig
    Request = {r1, r2}
    MinTxns = 2
    MaxId = 2
SYMMETRY Symmetry
INVARIANTS
    TypeOK
    FeedbackApplied
PROPERTIES
    DismissedRowStaysDismissed
    ClearedWithCause
    DismissesWhatWasSeen
