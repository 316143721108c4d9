SPECIFICATION Spec
CONSTANTS
    p1 = p1  p2 = p2
    k1 = k1  k2 = k2
    t1 = t1  t2 = t2
    r1 = r1  r2 = r2
    x1 = x1  x2 = x2
    Process = {p1, p2}
    RootKey = {k1, k2}
    Tenant = {t1, t2}
    User = {alice, bob}
    Request = {r1, r2}
    Trip = {x1, x2}
    MaxFaults = 1
    Nothing = Nothing
SYMMETRY Symmetry
CHECK_DEADLOCK FALSE
INVARIANTS
    TypeOK
    ReadableUnderItsRoot
    TokensBelong
    NothingLostWithoutFault
PROPERTIES
    LockedOutOnlyDeletes
