SPECIFICATION Spec
CONSTANTS
    ip1 = ip1
    ip2 = ip2
    IP = {ip1, ip2}
    Max <- MCMax
    Window <- MCWindow
    NoKey = NoKey
    MaxTime = 4
SYMMETRY Symmetry
INVARIANTS
    TypeOK
    WindowBound
    RefusesOnlyWhenFull
