SPECIFICATION Spec
CONSTANTS
    Request = {r1, r2, r3}
    Rotating = {2}
    MaxGrants = 4
    MaxClients = 2
    MaxRevocations = 1
    NoToken = NoToken
SYMMETRY Symmetry
INVARIANTS TypeOK RefreshableUnlessTainted
PROPERTIES
    OnlySuspectsHarm
    ImplementsConnectedAccount
