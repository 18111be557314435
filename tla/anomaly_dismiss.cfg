SPECIFICATION Spec
CONSTANTS
    t1 = t1
    t2 = t2
    s1 = s1
    Txn = {t1, t2}
    Signature = {s1}
    Sig <- MCSig
    Request = {r1, r2}
    MinTxns = 1
    MaxId = 1
SYMMETRY Symmetry
PROPERTY
    DismissalSticky
