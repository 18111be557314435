\* Two overlapping requests, two users, two families, three token rows.
SPECIFICATION Spec
CONSTANTS
    User = {u1, u2}
    Family = {f1, f2}
    Request = {r1, r2}
    NoUser = NoUser
    MaxRows = 3
SYMMETRY Symmetry
INVARIANTS
    TypeOK
    FamilyOneOwner
    ConsumedBeforeReplaced
    RevokesOnlyOwnRows
    KnownSessionsAudited
PROPERTIES
    RevocationScope
    ImplementsLifecycle
\* Clients may fall silent: every token expired, every family used up.
CHECK_DEADLOCK FALSE
