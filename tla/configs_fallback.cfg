SPECIFICATION Spec
CONSTANTS
    Tenant = {t1}
    Execution = {e1}
    MaxWrites = 1
    MaxFaults = 1
    NoConfig = NoConfig
SYMMETRY Symmetry
INVARIANTS
    FallbackOnlyIfUnset
