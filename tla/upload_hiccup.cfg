SPECIFICATION Spec
CONSTANTS
    Statement = {s1}
    Hint = {h1}
    Process = {p1, p2}
    NoStatement = NoStatement
    MaxAccounts = 1
INVARIANT
    HiccupNeverFailsUpload
