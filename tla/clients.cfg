SPECIFICATION Spec
CONSTANTS
    k1 = k1  k2 = k2
    j1 = j1  j2 = j2  p1 = p1
    mail = mail  prog = prog
    Message = {mail, prog}
    Program = {prog}
    Job = {j1, j2, p1}
    Codes = {p1}
    Call = {k1, k2}
    MaxAttempts = 2
    MaxFaults = 1
    MaxLosses = 1
    Nothing = Nothing
SYMMETRY Symmetry
CHECK_DEADLOCK FALSE
INVARIANTS
    TypeOK
    ToldIsTrue
    DuplicatesArePaidFor
    OutputIsThere
    LostJobsNeedFaults
