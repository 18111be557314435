\* A reuse is detected while another request of the family is rotating.
SPECIFICATION Spec
CONSTANTS
    User = {u1}
    Family = {f1}
    Request = {r1, r2}
    NoUser = NoUser
    MaxRows = 3
INVARIANT ReuseClosesFamily
CHECK_DEADLOCK FALSE
