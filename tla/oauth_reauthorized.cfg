SPECIFICATION Spec
CONSTANTS
    Request = {r1, r2}
    Rotating = {}
    MaxGrants = 2
    MaxClients = 1
    MaxRevocations = 1
    NoToken = NoToken
SYMMETRY Symmetry
PROPERTIES StoreKeepsRefreshable
