SPECIFICATION SystemSpec
CONSTANTS
    w1 = w1  p1 = p1
    j1 = j1  j2 = j2
    mail = mail  prog = prog
    Worker = {w1}
    Process = {p1}
    ProcessOf <- OneWorker
    Job = {j1, j2}
    JobType <- MailAndProgram
    MaxAttempts = 2
    Drift = 0
    Horizon = 0
    MaxFaults = 1
    MaxLosses = 1
    NoJob = NoJob
    Message = {mail, prog}
    Program = {prog}
    Call = {k1}
    Nothing = Nothing
CHECK_DEADLOCK FALSE
INVARIANTS
    PromisesKept
PROPERTIES
    ImplementsClients
