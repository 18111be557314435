SPECIFICATION Spec
CONSTANTS
    Statement = {s1}
    Hint = {h1}
    Process = {p1, p2}
    NoStatement = NoStatement
    MaxAccounts = 1
INVARIANTS
    TypeOK
    FileBehindStatement
    NoFileLeftBehind
    StatusTellsContent
    UploadAudited
    ServedAudited
PROPERTIES
    ImplementsLifecycle
    PendingSettles
