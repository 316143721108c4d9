SPECIFICATION Spec
CONSTANTS
    Request = {r1, r2}
    Rotating = {}
    MaxGrants = 1
    MaxClients = 1
    MaxRevocations = 0
    NoToken = NoToken
SYMMETRY Symmetry
PROPERTIES RemovedUntilAuthorized
