SPECIFICATION Spec
CONSTANTS
    Tenant = {t1, t2}
    Execution = {e1, e2}
    MaxWrites = 3
    MaxFaults = 1
    NoConfig = NoConfig
SYMMETRY Symmetry
INVARIANTS
    TypeOK
    OwnCredentials
    NeverOutdated
