SPECIFICATION Spec
CONSTANTS
    w1 = w1  w2 = w2  w3 = w3
    p1 = p1  p2 = p2
    j1 = j1  j2 = j2  j3 = j3
    Worker = {w1, w2, w3}
    Process = {p1, p2}
    ProcessOf <- ThreeWorkers
    Job = {j1, j2}
    JobType <- SMSAndCode
    MaxAttempts = 3
    Drift = 1
    Horizon = 1
    MaxFaults = 3
    NoJob = NoJob
INVARIANTS
    TypeOK
    OneWorkerPerJob
    OwnerSeesCurrentRow
    PollCoherent
    CompletedMeansDone
    DuplicatesNeedFaults
    StrandedOnlyByFault
PROPERTIES
    TerminalIsFinal
    BackoffHonoured
    ImplementsLifecycle
