\* One tab with two calls, two server requests, one user with two sessions.
SPECIFICATION FairSpec
CONSTANTS
    User = {u1}
    Family = {f1, f2}
    Request = {r1, r2}
    NoUser = NoUser
    MaxRows = 3
    Tab = {t1}
    Call = {hydrate, page}
    Hydrate = hydrate
    NoTab = NoTab
INVARIANTS
    NoFalseTheft
    StoreIsLive
    OutMeansOut
PROPERTIES
    BlockedReleased
CHECK_DEADLOCK FALSE
