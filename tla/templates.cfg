SPECIFICATION Spec
CONSTANTS
    Name = {1, 2, 3}
    Builtin = {1, 3}
    Request = {r1, r2}
    MaxVersions = 2
    NoTemplate = NoTemplate
SYMMETRY Symmetry
INVARIANTS
    TypeOK
    ListedIsSent
    SentWasInEffect
    SyntaxCaughtAtUpsert
