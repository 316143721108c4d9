--------------------------- MODULE JobQueueProofs ---------------------------
(***************************************************************************)
(* Proofs about JobQueue, for any number of jobs, goroutines, processes,   *)
(* attempts and faults, and any clock drift.                               *)
(***************************************************************************)
EXTENDS JobQueue, FiniteSetTheorems, TLAPS

(***************************************************************************)
(* The inductive invariant.  TypeOK is not inductive: that the attempt     *)
(* column stays within max_attempts depends on which rows can be claimed,  *)
(* and that in turn on the locks.                                          *)
(***************************************************************************)
QueueTypes ==
    /\ jobs \in [Job -> Row]
    /\ pc \in [Worker -> PC]
    /\ held \in [Worker -> Job \union {NoJob}]
    /\ heldAttempt \in [Worker -> 0 .. MaxAttempts]
    /\ rested \in [Job -> Nat]
    /\ faults \in 0 .. MaxFaults

HeldIffBusy == \A w \in Worker : held[w] = NoJob <=> pc[w] = "idle"

LockedIsPending ==
    \A w \in Worker : pc[w] = "claiming" => jobs[held[w]].status = "pending"

AttemptsByStatus ==
    \A j \in Job :
        /\ jobs[j].status = "absent" => jobs[j].attempt = 0
        /\ jobs[j].status = "pending" => jobs[j].attempt < MaxAttempts
        /\ jobs[j].status = "running" => jobs[j].attempt > 0
        /\ jobs[j].status = "failed" => jobs[j].attempt = MaxAttempts

\* Who holds what: enough to show that claims exclude one another.
ClaimInv ==
    /\ QueueTypes
    /\ HeldIffBusy
    /\ LockedIsPending
    /\ OneWorkerPerJob
    /\ OwnerSeesCurrentRow
    /\ AttemptsByStatus

\* A step of goroutine w that only moves its pc between owning positions.
LEMMA HeldIsJob ==
    ASSUME ClaimInv, NEW w \in Worker, pc[w] # "idle"
    PROVE  held[w] \in Job
BY DEF ClaimInv, QueueTypes, HeldIffBusy

\* ClaimNextJob's SET on row j.
LEMMA SetRunningEffect ==
    ASSUME ClaimInv, NEW j \in Job, jobs[j].status = "pending", SetRunning(j)
    PROVE  /\ jobs' \in [Job -> Row]
           /\ jobs'[j].status = "running"
           /\ jobs'[j].attempt = jobs[j].attempt + 1
           /\ jobs'[j].error = jobs[j].error
           /\ jobs'[j].completedAt = jobs[j].completedAt
           /\ \A k \in Job : k # j => jobs'[k] = jobs[k]
           /\ rested' \in [Job -> Nat]
BY JobQueueAssumption
   DEF ClaimInv, QueueTypes, AttemptsByStatus, SetRunning, Row, Status

\* UpdateJobStatus by the goroutine w, when the row it writes is well-typed.
LEMMA UpdateJobStatusEffect ==
    ASSUME ClaimInv, NEW w \in Worker, held[w] \in Job,
           NEW new \in Row, UpdateJobStatus(w, new)
    PROVE  /\ jobs' \in [Job -> Row]
           /\ jobs'[held[w]] = [new EXCEPT !.attempt = jobs[held[w]].attempt]
           /\ \A k \in Job : k # held[w] => jobs'[k] = jobs[k]
           /\ Return(w)
BY JobQueueAssumption
   DEF ClaimInv, QueueTypes, UpdateJobStatus, Row, Status

\* The three outcomes processNext writes are rows.
LEMMA CompletedRow ==
    LET new == [Absent EXCEPT !.status = "completed", !.completedAt = TRUE]
    IN  new \in Row /\ new.status = "completed" /\ new.completedAt /\ ~new.error
<1>1. 0 \in 0 .. MaxAttempts /\ 0 \in Int
    BY JobQueueAssumption
<1>2. QED
    BY <1>1 DEF Absent, Row, Status

LEMMA FailedRow ==
    LET new == [Absent EXCEPT !.status = "failed", !.error = TRUE]
    IN  new \in Row /\ new.status = "failed" /\ ~new.completedAt /\ new.error
<1>1. 0 \in 0 .. MaxAttempts /\ 0 \in Int
    BY JobQueueAssumption
<1>2. QED
    BY <1>1 DEF Absent, Row, Status

LEMMA PendingRow ==
    ASSUME NEW due \in Int
    PROVE  LET new == [Absent EXCEPT !.status = "pending", !.error = TRUE, !.due = due]
           IN  new \in Row /\ new.status = "pending" /\ ~new.completedAt /\ new.error
<1>1. 0 \in 0 .. MaxAttempts /\ 0 \in Int
    BY JobQueueAssumption
<1>2. QED
    BY <1>1 DEF Absent, Row, Status

LEMMA BackoffType == ASSUME NEW a \in 1 .. MaxAttempts PROVE Backoff(a) \in Nat
BY BackoffAssumption, SMT DEF Backoff

\* Which row processNext writes, and when.
LEMMA OutcomeWritten ==
    ASSUME ClaimInv, NEW w \in Worker,
           MarkCompleted(w) \/ MarkRetry(w) \/ MarkFailed(w)
    PROVE  \E new \in Row :
             /\ UpdateJobStatus(w, new)
             /\ \/ /\ pc[w] = "succeeded"
                   /\ new.status = "completed" /\ new.completedAt /\ ~new.error
                \/ /\ pc[w] = "failed" /\ heldAttempt[w] < MaxAttempts
                   /\ new.status = "pending" /\ ~new.completedAt /\ new.error
                \/ /\ pc[w] = "failed" /\ heldAttempt[w] = MaxAttempts
                   /\ new.status = "failed" /\ ~new.completedAt /\ new.error
<1>1. CASE MarkCompleted(w)
    BY <1>1, CompletedRow DEF MarkCompleted
<1>2. CASE MarkRetry(w)
  <2>1. PICK d \in -Drift .. Drift :
          UpdateJobStatus(w, [Absent EXCEPT !.status = "pending", !.error = TRUE,
                                            !.due = Backoff(heldAttempt[w]) + d])
    BY <1>2 DEF MarkRetry
  <2>2. heldAttempt[w] \in 1 .. MaxAttempts
    <3>1. held[w] \in Job /\ pc[w] = "failed"
        BY <1>2, HeldIsJob DEF MarkRetry
    <3>2. jobs[held[w]].status = "running" /\ jobs[held[w]].attempt = heldAttempt[w]
        BY <3>1 DEF ClaimInv, OwnerSeesCurrentRow, Owns
    <3>3. QED
        BY <3>1, <3>2, JobQueueAssumption DEF ClaimInv, QueueTypes, AttemptsByStatus
  <2>3. Backoff(heldAttempt[w]) + d \in Int
    BY <2>2, BackoffType, JobQueueAssumption
  <2>4. QED
    BY <1>2, <2>1, <2>3, PendingRow DEF MarkRetry
<1>3. CASE MarkFailed(w)
  <2>1. heldAttempt[w] = MaxAttempts
    BY <1>3, JobQueueAssumption DEF MarkFailed, ClaimInv, QueueTypes
  <2>2. QED
    BY <1>3, <2>1, FailedRow DEF MarkFailed
<1>4. QED
    BY <1>1, <1>2, <1>3

LEMMA InitClaimInv == Init => ClaimInv
<1> SUFFICES ASSUME Init PROVE ClaimInv
    OBVIOUS
<1>1. Absent \in Row
    BY JobQueueAssumption DEF Absent, Row, Status
<1>2. QueueTypes
    BY <1>1, JobQueueAssumption DEF Init, QueueTypes, PC
<1>3. HeldIffBusy /\ LockedIsPending /\ OneWorkerPerJob
    BY DEF Init, HeldIffBusy, LockedIsPending, OneWorkerPerJob
<1>4. OwnerSeesCurrentRow /\ AttemptsByStatus
    BY DEF Init, OwnerSeesCurrentRow, Owns, AttemptsByStatus, Absent
<1>5. QED
    BY <1>2, <1>3, <1>4 DEF ClaimInv

\* A claim, whether or not the goroutine learns of it.
LEMMA ClaimStep ==
    ASSUME ClaimInv, NEW w \in Worker, CommitClaim(w) \/ LoseClaim(w)
    PROVE  ClaimInv'
<1> USE JobQueueAssumption
<1>1. pc[w] = "claiming" /\ held[w] \in Job /\ jobs[held[w]].status = "pending"
    BY HeldIsJob DEF CommitClaim, LoseClaim, ClaimInv, LockedIsPending
<1>2. \/ /\ jobs' \in [Job -> Row]
         /\ jobs'[held[w]].status = "running"
         /\ jobs'[held[w]].attempt = jobs[held[w]].attempt + 1
         /\ \A k \in Job : k # held[w] => jobs'[k] = jobs[k]
         /\ rested' \in [Job -> Nat]
      \/ /\ UNCHANGED <<jobs, rested>>
         /\ LoseClaim(w)
    BY <1>1, SetRunningEffect DEF CommitClaim, LoseClaim
<1>3. QueueTypes'
  <2>1. jobs[held[w]].attempt + 1 \in 0 .. MaxAttempts
    BY <1>1 DEF ClaimInv, QueueTypes, AttemptsByStatus, Row
  <2>2. jobs' \in [Job -> Row] /\ rested' \in [Job -> Nat]
    BY <1>2 DEF ClaimInv, QueueTypes
  <2>3. faults' \in 0 .. MaxFaults
    BY DEF CommitClaim, LoseClaim, Fault, ClaimInv, QueueTypes
  <2>4. /\ pc' \in [Worker -> PC]
        /\ held' \in [Worker -> Job \union {NoJob}]
        /\ heldAttempt' \in [Worker -> 0 .. MaxAttempts]
    BY <2>1 DEF CommitClaim, LoseClaim, Return, PC, ClaimInv, QueueTypes
  <2>5. QED
    BY <2>2, <2>3, <2>4 DEF QueueTypes
<1>4. HeldIffBusy' /\ OneWorkerPerJob'
    BY <1>1
    DEF CommitClaim, LoseClaim, Return, ClaimInv, QueueTypes, HeldIffBusy, OneWorkerPerJob
<1>5. LockedIsPending' /\ OwnerSeesCurrentRow'
    BY <1>1, <1>2
    DEF CommitClaim, LoseClaim, Return, ClaimInv, QueueTypes, HeldIffBusy, OneWorkerPerJob,
        LockedIsPending, OwnerSeesCurrentRow, Owns
<1>6. AttemptsByStatus'
    BY <1>1, <1>2 DEF ClaimInv, QueueTypes, Row, AttemptsByStatus
<1>7. QED
    BY <1>3, <1>4, <1>5, <1>6 DEF ClaimInv

\* The final update of processNext.
LEMMA UpdateStep ==
    ASSUME ClaimInv, NEW w \in Worker, pc[w] \notin {"idle", "claiming"},
           NEW new \in Row, UpdateJobStatus(w, new),
           \/ new.status = "completed"
           \/ new.status = "pending" /\ heldAttempt[w] < MaxAttempts
           \/ new.status = "failed" /\ heldAttempt[w] = MaxAttempts
    PROVE  ClaimInv'
<1> USE JobQueueAssumption
<1>1. held[w] \in Job
    BY HeldIsJob
<1>2. /\ jobs' \in [Job -> Row]
      /\ jobs'[held[w]] = [new EXCEPT !.attempt = jobs[held[w]].attempt]
      /\ \A k \in Job : k # held[w] => jobs'[k] = jobs[k]
      /\ Return(w)
    BY <1>1, UpdateJobStatusEffect
<1>3. /\ jobs'[held[w]].status = new.status
      /\ jobs'[held[w]].attempt = jobs[held[w]].attempt
      /\ jobs[held[w]].attempt = heldAttempt[w]
    BY <1>1, <1>2 DEF Row, ClaimInv, OwnerSeesCurrentRow, Owns
<1>4. QueueTypes' /\ HeldIffBusy' /\ OneWorkerPerJob'
    BY <1>1, <1>2
    DEF UpdateJobStatus, Return, PC, ClaimInv, QueueTypes, HeldIffBusy, OneWorkerPerJob
<1>5. LockedIsPending' /\ OwnerSeesCurrentRow'
    BY <1>1, <1>2
    DEF Return, ClaimInv, QueueTypes, HeldIffBusy, OneWorkerPerJob, LockedIsPending,
        OwnerSeesCurrentRow, Owns
<1>6. AttemptsByStatus'
    BY <1>1, <1>2, <1>3 DEF ClaimInv, QueueTypes, Row, AttemptsByStatus
<1>7. QED
    BY <1>4, <1>5, <1>6 DEF ClaimInv

\* A goroutine that has claimed its job moves on without touching the row.
LEMMA MoveStep ==
    ASSUME ClaimInv, NEW w \in Worker, pc[w] \notin {"idle", "claiming"},
           NEW next \in PC \ {"idle", "claiming"}, pc' = [pc EXCEPT ![w] = next],
           UNCHANGED <<jobs, held, heldAttempt, rested>>, faults' \in 0 .. MaxFaults
    PROVE  ClaimInv'
BY DEF PC, ClaimInv, QueueTypes, HeldIffBusy, LockedIsPending, OneWorkerPerJob,
       OwnerSeesCurrentRow, Owns, AttemptsByStatus

LEMMA NextClaimInv == ClaimInv /\ [Next]_vars => ClaimInv'
<1> SUFFICES ASSUME ClaimInv, [Next]_vars PROVE ClaimInv'
    OBVIOUS
<1> USE JobQueueAssumption
<1>0. faults \in 0 .. MaxFaults /\ (Fault \/ UNCHANGED faults => faults' \in 0 .. MaxFaults)
    BY DEF ClaimInv, QueueTypes, Fault
<1>1. ASSUME NEW j \in Job, CreateJob(j) PROVE ClaimInv'
    BY <1>1
    DEF CreateJob, Row, Status, ClaimInv, QueueTypes, HeldIffBusy, LockedIsPending,
        OneWorkerPerJob, OwnerSeesCurrentRow, Owns, AttemptsByStatus
<1>2. ASSUME NEW w \in Worker, LockNext(w) PROVE ClaimInv'
    BY <1>2
    DEF LockNext, Claimable, Due, Locked, PC, ClaimInv, QueueTypes, HeldIffBusy,
        LockedIsPending, OneWorkerPerJob, OwnerSeesCurrentRow, Owns, AttemptsByStatus
<1>3. ASSUME NEW w \in Worker, emailExecutor(w) \/ smsExecutor(w) \/ codeExecutor(w)
      PROVE  ClaimInv'
    BY <1>0, <1>3, MoveStep
    DEF emailExecutor, smsExecutor, codeExecutor, CallProvider, AfterEmail, AfterSMS,
        AfterRun, PC
<1>4. ASSUME NEW w \in Worker, InsertCodeExecution(w) PROVE ClaimInv'
    BY <1>0, <1>4, MoveStep DEF InsertCodeExecution, PC
<1>5. ASSUME NEW w \in Worker, MarkCompleted(w) \/ MarkRetry(w) \/ MarkFailed(w)
      PROVE  ClaimInv'
    BY <1>5, OutcomeWritten, UpdateStep
<1>6. ASSUME NEW w \in Worker, LoseUpdate(w) PROVE ClaimInv'
    BY <1>6
    DEF LoseUpdate, Return, Fault, PC, ClaimInv, QueueTypes, HeldIffBusy, LockedIsPending,
        OneWorkerPerJob, OwnerSeesCurrentRow, Owns, AttemptsByStatus
<1>7. ASSUME NEW p \in Process, Crash(p) PROVE ClaimInv'
    BY <1>7
    DEF Crash, Fault, PC, ClaimInv, QueueTypes, HeldIffBusy, LockedIsPending,
        OneWorkerPerJob, OwnerSeesCurrentRow, Owns, AttemptsByStatus
<1>8. CASE Tick
    BY <1>8
    DEF Tick, Row, ClaimInv, QueueTypes, HeldIffBusy, LockedIsPending,
        OneWorkerPerJob, OwnerSeesCurrentRow, Owns, AttemptsByStatus
<1>9. CASE UNCHANGED vars
    BY <1>9
    DEF vars, ClaimInv, QueueTypes, HeldIffBusy, LockedIsPending,
        OneWorkerPerJob, OwnerSeesCurrentRow, Owns, AttemptsByStatus
<1>10. QED
    BY <1>1, <1>2, <1>3, <1>4, <1>5, <1>6, <1>7, <1>8, <1>9, ClaimStep
    DEF Next, processNext, PollEmpty, SendEmail, SendSMS, ExecuteCode

(***************************************************************************)
(* What was done for a job, and at what price.                             *)
(***************************************************************************)
EffectTypes ==
    /\ accepted \in [Job -> Nat]
    /\ codeExecutions \in [Job -> SUBSET (1 .. MaxAttempts)]

AcceptedPerStart ==
    /\ \A j \in Job : accepted[j] <= jobs[j].attempt
    /\ \A w \in Worker :
        pc[w] = "executing" => accepted[held[w]] < jobs[held[w]].attempt

HeardMeansAccepted ==
    \A w \in Worker :
        /\ pc[w] \in {"storing", "succeeded"} => accepted[held[w]] > 0
        /\ pc[w] = "succeeded" /\ JobType[held[w]] = "code.execute"
            => heldAttempt[w] \in codeExecutions[held[w]]

EffectInv ==
    /\ EffectTypes
    /\ AcceptedPerStart
    /\ HeardMeansAccepted
    /\ CompletedMeansDone
    /\ PollCoherent
    /\ StrandedOnlyByFault

LEMMA InitEffectInv == Init => EffectInv
<1> SUFFICES ASSUME Init PROVE EffectInv
    OBVIOUS
<1> USE JobQueueAssumption
<1>1. EffectTypes /\ AcceptedPerStart /\ HeardMeansAccepted
    BY DEF Init, EffectTypes, AcceptedPerStart, HeardMeansAccepted, Absent
<1>2. CompletedMeansDone /\ StrandedOnlyByFault
    BY DEF Init, CompletedMeansDone, StrandedOnlyByFault, Stranded, Absent
<1>3. PollCoherent
  <2>1. \A j \in Job : /\ jobs[j].status = "absent" /\ jobs[j].attempt = 0
                       /\ jobs[j].error = FALSE /\ jobs[j].completedAt = FALSE
    BY DEF Init, Absent
  <2>2. (0 > 0) = FALSE
    OBVIOUS
  <2>3. QED
    BY <2>1, <2>2 DEF PollCoherent
<1>4. QED
    BY <1>1, <1>2, <1>3 DEF EffectInv

LEMMA ClaimEffect ==
    ASSUME ClaimInv, EffectInv, NEW w \in Worker, CommitClaim(w) \/ LoseClaim(w)
    PROVE  EffectInv'
<1> USE JobQueueAssumption
<1>1. pc[w] = "claiming" /\ held[w] \in Job /\ jobs[held[w]].status = "pending"
    BY HeldIsJob DEF CommitClaim, LoseClaim, ClaimInv, LockedIsPending
<1>2. \/ /\ jobs' \in [Job -> Row]
         /\ jobs'[held[w]].status = "running"
         /\ jobs'[held[w]].attempt = jobs[held[w]].attempt + 1
         /\ jobs'[held[w]].error = jobs[held[w]].error
         /\ jobs'[held[w]].completedAt = jobs[held[w]].completedAt
         /\ \A k \in Job : k # held[w] => jobs'[k] = jobs[k]
      \/ UNCHANGED jobs /\ LoseClaim(w)
    BY <1>1, SetRunningEffect DEF CommitClaim, LoseClaim
<1>3. /\ \A j \in Job : jobs[j].attempt \in Nat /\ accepted[j] \in Nat
      /\ faults \in Nat /\ faults' \in {faults, faults + 1}
      /\ UNCHANGED <<codeExecutions, accepted>>
    BY DEF CommitClaim, LoseClaim, Fault, ClaimInv, QueueTypes, Row, EffectInv, EffectTypes
<1>4. /\ \A v \in Worker : v # w => pc'[v] = pc[v] /\ held'[v] = held[v]
                                    /\ heldAttempt'[v] = heldAttempt[v]
      /\ \/ CommitClaim(w) /\ pc'[w] = "executing" /\ held'[w] = held[w]
         \/ LoseClaim(w) /\ pc'[w] = "idle"
    BY DEF CommitClaim, LoseClaim, Return, ClaimInv, QueueTypes
<1>5. \A v \in Worker : v # w /\ pc[v] # "idle" => held[v] # held[w] /\ held[v] \in Job
    BY <1>1 DEF ClaimInv, QueueTypes, HeldIffBusy, OneWorkerPerJob
<1>6. EffectTypes'
    BY <1>3 DEF EffectInv, EffectTypes
<1>7. AcceptedPerStart'
  <2>1. ASSUME NEW j \in Job PROVE accepted'[j] <= jobs'[j].attempt
    BY <1>1, <1>2, <1>3 DEF EffectInv, AcceptedPerStart
  <2>2. ASSUME NEW v \in Worker, pc'[v] = "executing"
        PROVE  accepted'[held'[v]] < jobs'[held'[v]].attempt
    <3>1. CASE v = w
        <4>1. CommitClaim(w) /\ held'[w] = held[w]
            BY <1>4, <2>2, <3>1
        <4>2. jobs'[held[w]].attempt = jobs[held[w]].attempt + 1
            BY <1>1, <4>1, SetRunningEffect DEF CommitClaim
        <4>3. accepted[held[w]] <= jobs[held[w]].attempt
            BY <1>1 DEF EffectInv, AcceptedPerStart
        <4>4. QED
            BY <1>1, <1>3, <3>1, <4>1, <4>2, <4>3
    <3>2. CASE v # w
        BY <1>1, <1>2, <1>3, <1>4, <1>5, <2>2, <3>2 DEF EffectInv, AcceptedPerStart
    <3>3. QED
        BY <3>1, <3>2
  <2>3. QED
    BY <2>1, <2>2 DEF AcceptedPerStart
<1>8. HeardMeansAccepted'
    BY <1>1, <1>3, <1>4 DEF EffectInv, HeardMeansAccepted
<1>10. CompletedMeansDone'
    BY <1>1, <1>2, <1>3 DEF EffectInv, CompletedMeansDone
<1>11. PollCoherent'
    BY <1>1, <1>2, <1>3 DEF ClaimInv, QueueTypes, EffectInv, PollCoherent, Row
<1>12. StrandedOnlyByFault'
    BY <1>1, <1>2
    DEF CommitClaim, LoseClaim, Return, Fault, ClaimInv, QueueTypes,
        EffectInv, StrandedOnlyByFault, Stranded, Owns, Row
<1>13. QED
    BY <1>6, <1>7, <1>8, <1>10, <1>11, <1>12 DEF EffectInv

LEMMA UpdateEffect ==
    ASSUME ClaimInv, EffectInv, NEW w \in Worker,
           MarkCompleted(w) \/ MarkRetry(w) \/ MarkFailed(w)
    PROVE  EffectInv'
<1> USE JobQueueAssumption
<1>1. /\ pc[w] \in {"succeeded", "failed"}
      /\ held[w] \in Job
      /\ jobs[held[w]].attempt = heldAttempt[w]
    BY HeldIsJob
    DEF MarkCompleted, MarkRetry, MarkFailed, ClaimInv, OwnerSeesCurrentRow, Owns
<1>2. PICK new \in Row :
        /\ UpdateJobStatus(w, new)
        /\ \/ /\ pc[w] = "succeeded"
              /\ new.status = "completed" /\ new.completedAt /\ ~new.error
           \/ /\ pc[w] = "failed" /\ heldAttempt[w] < MaxAttempts
              /\ new.status = "pending" /\ ~new.completedAt /\ new.error
           \/ /\ pc[w] = "failed" /\ heldAttempt[w] = MaxAttempts
              /\ new.status = "failed" /\ ~new.completedAt /\ new.error
    BY OutcomeWritten
<1>3. /\ jobs' \in [Job -> Row]
      /\ jobs'[held[w]].status = new.status
      /\ jobs'[held[w]].attempt = jobs[held[w]].attempt
      /\ jobs'[held[w]].error = new.error
      /\ jobs'[held[w]].completedAt = new.completedAt
      /\ \A k \in Job : k # held[w] => jobs'[k] = jobs[k]
      /\ Return(w)
      /\ UNCHANGED <<codeExecutions, accepted, faults>>
    BY <1>1, <1>2, UpdateJobStatusEffect DEF Row, UpdateJobStatus
<1>4. EffectTypes'
    BY <1>3 DEF EffectInv, EffectTypes
<1>5. AcceptedPerStart' /\ HeardMeansAccepted'
    BY <1>1, <1>3
    DEF Return, ClaimInv, QueueTypes, HeldIffBusy, OneWorkerPerJob,
        EffectInv, EffectTypes, AcceptedPerStart, HeardMeansAccepted, Row
<1>7. CompletedMeansDone'
    BY <1>1, <1>2, <1>3
    DEF ClaimInv, QueueTypes, EffectInv, EffectTypes, CompletedMeansDone, HeardMeansAccepted, Row
<1>8. PollCoherent'
    BY <1>1, <1>2, <1>3
    DEF ClaimInv, QueueTypes, EffectInv, PollCoherent, Row, AttemptsByStatus, OwnerSeesCurrentRow, Owns
<1>9. StrandedOnlyByFault'
    BY <1>1, <1>2, <1>3
    DEF Return, ClaimInv, QueueTypes, EffectInv, StrandedOnlyByFault, Stranded, Owns, Row,
        OneWorkerPerJob
<1>10. QED
    BY <1>4, <1>5, <1>7, <1>8, <1>9 DEF EffectInv

\* ExecuteJob: the provider is called, or the output of a program stored.
LEMMA ExecuteEffect ==
    ASSUME ClaimInv, EffectInv, NEW w \in Worker,
           emailExecutor(w) \/ smsExecutor(w) \/ codeExecutor(w) \/ InsertCodeExecution(w)
    PROVE  EffectInv'
<1> USE JobQueueAssumption
<1>1. held[w] \in Job /\ pc[w] \in {"executing", "storing"}
    BY HeldIsJob
    DEF emailExecutor, smsExecutor, codeExecutor, CallProvider, InsertCodeExecution
<1>2. UNCHANGED <<jobs, held, heldAttempt>>
    BY DEF emailExecutor, smsExecutor, codeExecutor, CallProvider, InsertCodeExecution
<1>3. \A v \in Worker : v # w => pc'[v] = pc[v]
    BY DEF emailExecutor, smsExecutor, codeExecutor, InsertCodeExecution, ClaimInv, QueueTypes
<1>4. \A v \in Worker : v # w /\ pc[v] # "idle" => held[v] # held[w] /\ held[v] \in Job
    BY <1>1 DEF ClaimInv, QueueTypes, HeldIffBusy, OneWorkerPerJob
<1>5. /\ jobs[held[w]].status = "running"
      /\ jobs[held[w]].attempt = heldAttempt[w]
      /\ heldAttempt[w] \in 1 .. MaxAttempts
    BY <1>1 DEF ClaimInv, QueueTypes, OwnerSeesCurrentRow, Owns, AttemptsByStatus
\* The four ways it can go: refused, accepted and heard, accepted unheard, stored.
<1>6. \/ /\ pc[w] = "executing" /\ pc'[w] = "failed"
         /\ UNCHANGED <<accepted, codeExecutions, faults>>
      \/ /\ pc[w] = "executing"
         /\ accepted' = [accepted EXCEPT ![held[w]] = @ + 1]
         /\ UNCHANGED codeExecutions
         /\ \/ /\ pc'[w] = "succeeded" /\ JobType[held[w]] # "code.execute" /\ UNCHANGED faults
            \/ /\ pc'[w] = "storing" /\ UNCHANGED faults
            \/ /\ pc'[w] = "failed" /\ faults' = faults + 1
      \/ /\ pc[w] = "storing"
         /\ UNCHANGED accepted
         /\ \/ /\ pc'[w] = "succeeded" /\ UNCHANGED faults
               /\ codeExecutions' = [codeExecutions EXCEPT
                                       ![held[w]] = @ \union {heldAttempt[w]}]
            \/ /\ pc'[w] = "failed" /\ faults' = faults + 1
               /\ \/ UNCHANGED codeExecutions
                  \/ codeExecutions' = [codeExecutions EXCEPT
                                          ![held[w]] = @ \union {heldAttempt[w]}]
    BY <1>1
    DEF emailExecutor, smsExecutor, codeExecutor, CallProvider, ProviderReply, AfterEmail,
        AfterSMS, AfterRun, InsertCodeExecution, Insert, Fault, ClaimInv, QueueTypes, PC
<1>7. EffectTypes'
    BY <1>1, <1>5, <1>6 DEF EffectInv, EffectTypes
<1>8. /\ faults \in Nat /\ faults' \in {faults, faults + 1}
      /\ \A j \in Job : jobs[j].attempt \in Nat /\ accepted[j] \in Nat
      /\ \A j \in Job : j # held[w] => accepted'[j] = accepted[j]
                                       /\ codeExecutions'[j] = codeExecutions[j]
      /\ accepted'[held[w]] \in {accepted[held[w]], accepted[held[w]] + 1}
    BY <1>1, <1>6 DEF ClaimInv, QueueTypes, Row, EffectInv, EffectTypes
<1>9. AcceptedPerStart'
  <2>1. ASSUME NEW j \in Job PROVE accepted'[j] <= jobs'[j].attempt
    BY <1>1, <1>2, <1>6, <1>8 DEF EffectInv, EffectTypes, AcceptedPerStart
  <2>2. ASSUME NEW v \in Worker, pc'[v] = "executing"
        PROVE  accepted'[held'[v]] < jobs'[held'[v]].attempt
    BY <1>1, <1>2, <1>3, <1>4, <1>6, <1>8, <2>2 DEF EffectInv, AcceptedPerStart
  <2>3. QED
    BY <2>1, <2>2 DEF AcceptedPerStart
<1>10. HeardMeansAccepted'
  <2>1. ASSUME NEW v \in Worker, v # w, pc'[v] \in {"storing", "succeeded"}
        PROVE  /\ accepted'[held'[v]] > 0
               /\ pc'[v] = "succeeded" /\ JobType[held'[v]] = "code.execute"
                    => heldAttempt'[v] \in codeExecutions'[held'[v]]
    BY <1>2, <1>3, <1>4, <1>8, <2>1 DEF EffectInv, HeardMeansAccepted
  <2>2. ASSUME pc'[w] \in {"storing", "succeeded"}
        PROVE  /\ accepted'[held'[w]] > 0
               /\ pc'[w] = "succeeded" /\ JobType[held'[w]] = "code.execute"
                    => heldAttempt'[w] \in codeExecutions'[held'[w]]
    BY <1>1, <1>2, <1>6, <1>8, <2>2 DEF EffectInv, EffectTypes, HeardMeansAccepted
  <2>3. QED
    BY <2>1, <2>2 DEF HeardMeansAccepted
<1>12. CompletedMeansDone' /\ PollCoherent'
    BY <1>1, <1>2, <1>5, <1>8 DEF EffectInv, CompletedMeansDone, PollCoherent
<1>13. StrandedOnlyByFault'
  <2>1. pc'[w] \notin {"idle", "claiming"}
    BY <1>6
  <2>2. QED
    BY <1>1, <1>2, <1>3, <1>8, <2>1 DEF EffectInv, StrandedOnlyByFault, Stranded, Owns
<1>14. QED
    BY <1>7, <1>9, <1>10, <1>12, <1>13 DEF EffectInv

LEMMA NextEffectInv == ClaimInv /\ EffectInv /\ [Next]_vars => EffectInv'
<1> SUFFICES ASSUME ClaimInv, EffectInv, [Next]_vars PROVE EffectInv'
    OBVIOUS
<1> USE JobQueueAssumption
<1>1. ASSUME NEW j \in Job, CreateJob(j) PROVE EffectInv'
  <2>1. /\ jobs[j].status = "absent" /\ jobs[j].attempt = 0
        /\ \A k \in Job : k # j => jobs'[k] = jobs[k]
        /\ jobs'[j].status = "pending"
        /\ jobs'[j].attempt = jobs[j].attempt
        /\ jobs'[j].error = jobs[j].error
        /\ jobs'[j].completedAt = jobs[j].completedAt
        /\ accepted[j] = 0 /\ faults \in Nat
        /\ UNCHANGED <<codeExecutions, pc, held, heldAttempt, accepted, faults>>
    <3>1. jobs \in [Job -> Row] /\ faults \in Nat /\ jobs[j].attempt = 0
        BY <1>1 DEF CreateJob, ClaimInv, QueueTypes, AttemptsByStatus
    <3>2. accepted[j] = 0
        BY <3>1 DEF EffectInv, EffectTypes, AcceptedPerStart
    <3>3. QED
        BY <1>1, <3>1, <3>2 DEF CreateJob, Row
  <2>2. \A w \in Worker : pc[w] # "idle" => held[w] # j
    BY <2>1 DEF ClaimInv, LockedIsPending, OwnerSeesCurrentRow, Owns
  <2>3. EffectTypes' /\ AcceptedPerStart' /\ HeardMeansAccepted'
    <3>1. \A w \in Worker : pc[w] # "idle" => held[w] \in Job
        BY HeldIsJob
    <3>2. QED
        BY <2>1, <2>2, <3>1
        DEF EffectInv, EffectTypes, AcceptedPerStart, HeardMeansAccepted
  <2>4. CompletedMeansDone' /\ PollCoherent'
    BY <2>1
    DEF ClaimInv, AttemptsByStatus, EffectInv, CompletedMeansDone,
        PollCoherent
  <2>5. StrandedOnlyByFault'
    BY <2>1 DEF EffectInv, StrandedOnlyByFault, Stranded, Owns
  <2>6. QED
    BY <2>3, <2>4, <2>5 DEF EffectInv
<1>2. ASSUME NEW w \in Worker, LockNext(w) PROVE EffectInv'
  <2>1. /\ pc' = [pc EXCEPT ![w] = "claiming"] /\ pc[w] = "idle"
        /\ \A v \in Worker : v # w => held'[v] = held[v]
        /\ UNCHANGED <<jobs, codeExecutions, heldAttempt, accepted, faults>>
    BY <1>2 DEF LockNext, ClaimInv, QueueTypes
  <2>2. EffectTypes' /\ AcceptedPerStart' /\ HeardMeansAccepted'
    BY <2>1
    DEF ClaimInv, QueueTypes, EffectInv, EffectTypes, AcceptedPerStart, HeardMeansAccepted
  <2>3. CompletedMeansDone' /\ PollCoherent'
    BY <2>1
    DEF ClaimInv, QueueTypes, EffectInv, CompletedMeansDone, PollCoherent
  <2>4. StrandedOnlyByFault'
    BY <2>1 DEF ClaimInv, QueueTypes, EffectInv, StrandedOnlyByFault, Stranded, Owns
  <2>5. QED
    BY <2>2, <2>3, <2>4 DEF EffectInv
<1>3. ASSUME NEW gone \in SUBSET Worker, Fault,
             pc' = [w \in Worker |-> IF w \in gone THEN "idle" ELSE pc[w]],
             held' = [w \in Worker |-> IF w \in gone THEN NoJob ELSE held[w]],
             heldAttempt' = [w \in Worker |-> IF w \in gone THEN 0 ELSE heldAttempt[w]],
             UNCHANGED <<jobs, codeExecutions, accepted>>
      PROVE  EffectInv'
  <2>1. faults \in Nat /\ faults' = faults + 1 /\ \A j \in Job : accepted[j] \in Nat
    BY <1>3 DEF Fault, ClaimInv, QueueTypes, EffectInv, EffectTypes
  <2>2. \A w \in Worker : pc'[w] # "idle"
            => pc'[w] = pc[w] /\ held'[w] = held[w] /\ heldAttempt'[w] = heldAttempt[w]
    BY <1>3
  <2>3. \A w \in Worker : pc[w] # "idle" => held[w] \in Job
    BY HeldIsJob
  <2>4. EffectTypes' /\ AcceptedPerStart' /\ HeardMeansAccepted'
    BY <1>3, <2>2 DEF EffectInv, EffectTypes, AcceptedPerStart, HeardMeansAccepted
  <2>6. CompletedMeansDone' /\ PollCoherent' /\ StrandedOnlyByFault'
    BY <1>3, <2>1 DEF EffectInv, CompletedMeansDone, PollCoherent, StrandedOnlyByFault
  <2>7. QED
    BY <2>4, <2>6 DEF EffectInv
<1>4. ASSUME NEW w \in Worker, LoseUpdate(w) PROVE EffectInv'
  <2> DEFINE gone == {w}
  <2>1. /\ pc' = [v \in Worker |-> IF v \in gone THEN "idle" ELSE pc[v]]
        /\ held' = [v \in Worker |-> IF v \in gone THEN NoJob ELSE held[v]]
        /\ heldAttempt' = [v \in Worker |-> IF v \in gone THEN 0 ELSE heldAttempt[v]]
    BY <1>4 DEF LoseUpdate, Return, ClaimInv, QueueTypes
  <2>2. gone \in SUBSET Worker /\ Fault /\ UNCHANGED <<jobs, codeExecutions, accepted>>
    BY <1>4 DEF LoseUpdate
  <2> HIDE DEF gone
  <2>3. QED
    BY <1>3, <2>1, <2>2
<1>5. ASSUME NEW p \in Process, Crash(p) PROVE EffectInv'
  <2> DEFINE gone == {w \in Worker : ProcessOf[w] = p}
  <2>1. /\ pc' = [w \in Worker |-> IF w \in gone THEN "idle" ELSE pc[w]]
        /\ held' = [w \in Worker |-> IF w \in gone THEN NoJob ELSE held[w]]
        /\ heldAttempt' = [w \in Worker |-> IF w \in gone THEN 0 ELSE heldAttempt[w]]
    BY <1>5 DEF Crash
  <2>2. QED
    BY <1>3, <1>5, <2>1 DEF Crash
<1>6. CASE Tick
  <2>1. /\ \A j \in Job : /\ jobs'[j].status = jobs[j].status
                          /\ jobs'[j].attempt = jobs[j].attempt
                          /\ jobs'[j].error = jobs[j].error
                          /\ jobs'[j].completedAt = jobs[j].completedAt
        /\ UNCHANGED <<codeExecutions, pc, held, heldAttempt, accepted, faults>>
    BY <1>6 DEF Tick, ClaimInv, QueueTypes, Row
  <2>2. \A w \in Worker : pc[w] # "idle" => held[w] \in Job
    BY HeldIsJob
  <2>3. EffectTypes' /\ AcceptedPerStart' /\ HeardMeansAccepted'
    BY <2>1, <2>2 DEF EffectInv, EffectTypes, AcceptedPerStart, HeardMeansAccepted
  <2>4. CompletedMeansDone' /\ PollCoherent'
    BY <2>1 DEF EffectInv, CompletedMeansDone, PollCoherent
  <2>5. StrandedOnlyByFault'
    BY <2>1 DEF EffectInv, StrandedOnlyByFault, Stranded, Owns
  <2>6. QED
    BY <2>3, <2>4, <2>5 DEF EffectInv
<1>7. CASE UNCHANGED vars
  <2>1. EffectTypes' /\ AcceptedPerStart' /\ HeardMeansAccepted'
    BY <1>7 DEF vars, EffectInv, EffectTypes, AcceptedPerStart, HeardMeansAccepted
  <2>2. CompletedMeansDone' /\ PollCoherent' /\ StrandedOnlyByFault'
    BY <1>7
    DEF vars, EffectInv, CompletedMeansDone, PollCoherent, StrandedOnlyByFault, Stranded, Owns
  <2>3. QED
    BY <2>1, <2>2 DEF EffectInv
<1>8. QED
    BY <1>1, <1>2, <1>4, <1>5, <1>6, <1>7, ClaimEffect, UpdateEffect, ExecuteEffect
    DEF Next, processNext, PollEmpty, SendEmail, SendSMS, ExecuteCode

(***************************************************************************)
(* The theorems.                                                           *)
(***************************************************************************)
\* Both halves of the invariant hold in every reachable state.
THEOREM Invariance == Spec => [](ClaimInv /\ EffectInv)
<1>1. Init => ClaimInv /\ EffectInv
    BY InitClaimInv, InitEffectInv
<1>2. ClaimInv /\ EffectInv /\ [Next]_vars => (ClaimInv /\ EffectInv)'
    BY NextClaimInv, NextEffectInv
<1>3. QED
    BY <1>1, <1>2, PTL DEF Spec

\* Type correctness of the tables and of the goroutines' locals: in particular
\* processNext never lets the attempt column exceed max_attempts.
THEOREM TypeCorrect == Spec => []TypeOK
<1>1. ClaimInv /\ EffectInv => TypeOK
  <2> SUFFICES ASSUME ClaimInv, EffectInv PROVE TypeOK
    OBVIOUS
  <2>1. \A j \in Job : accepted[j] \in 0 .. MaxAttempts
    BY JobQueueAssumption
    DEF ClaimInv, QueueTypes, Row, EffectInv, EffectTypes, AcceptedPerStart
  <2>2. QED
    BY <2>1 DEF TypeOK, ClaimInv, QueueTypes, EffectInv, EffectTypes
<1>2. QED
    BY <1>1, Invariance, PTL

\* FOR UPDATE SKIP LOCKED and the status column together keep every job with
\* one goroutine, over any number of processes, crashes and lost replies.
THEOREM MutualExclusion == Spec => []OneWorkerPerJob
<1>1. ClaimInv => OneWorkerPerJob
    BY DEF ClaimInv
<1>2. QED
    BY <1>1, Invariance, PTL

\* UpdateJobStatus needs no guard in its WHERE clause: the row a goroutine
\* writes back to is still the row it claimed.
THEOREM NoStaleUpdate == Spec => []OwnerSeesCurrentRow
<1>1. ClaimInv => OwnerSeesCurrentRow
    BY DEF ClaimInv
<1>2. QED
    BY <1>1, Invariance, PTL

\* What GET /jobs/:id reports is coherent: status, attempts, error and
\* completed_at never contradict one another.
THEOREM CoherentPoll == Spec => []PollCoherent
<1>1. EffectInv => PollCoherent
    BY DEF EffectInv
<1>2. QED
    BY <1>1, Invariance, PTL

\* A job reported completed was accepted by its provider, and its output stored.
THEOREM HonestOutcome == Spec => []CompletedMeansDone
<1>1. EffectInv => CompletedMeansDone
    BY DEF EffectInv
<1>2. QED
    BY <1>1, Invariance, PTL

\* A job is left running with no goroutine working on it only after a crash or
\* a lost database call.
THEOREM NoStrandingWithoutFault == Spec => []StrandedOnlyByFault
<1>1. EffectInv => StrandedOnlyByFault
    BY DEF EffectInv
<1>2. QED
    BY <1>1, Invariance, PTL

\* No step of any goroutine, of the API or of a dying process changes the row
\* of a finished job.
THEOREM FinishedForGood == Spec => TerminalIsFinal
<1> DEFINE Final == \A j \in Job : jobs[j].status \in Terminal => jobs'[j] = jobs[j]
<1>1. ClaimInv /\ [Next]_vars => [Final]_vars
  <2> SUFFICES ASSUME ClaimInv, Next, NEW j \in Job, jobs[j].status \in Terminal
               PROVE  jobs'[j] = jobs[j]
    OBVIOUS
  <2>1. ASSUME NEW k \in Job, CreateJob(k) PROVE jobs'[j] = jobs[j]
    BY <2>1 DEF CreateJob, Terminal, ClaimInv, QueueTypes
  <2>2. \A w \in Worker : pc[w] # "idle" => held[w] # j
    BY DEF Terminal, ClaimInv, LockedIsPending, OwnerSeesCurrentRow, Owns
  <2>3. ASSUME NEW w \in Worker, CommitClaim(w) \/ LoseClaim(w) PROVE jobs'[j] = jobs[j]
    BY <2>2, <2>3 DEF CommitClaim, LoseClaim, SetRunning, ClaimInv, QueueTypes
  <2>4. ASSUME NEW w \in Worker, MarkCompleted(w) \/ MarkRetry(w) \/ MarkFailed(w)
        PROVE  jobs'[j] = jobs[j]
    <3>1. held[w] # j
        BY <2>2, <2>4 DEF MarkCompleted, MarkRetry, MarkFailed
    <3>2. PICK new \in Row : UpdateJobStatus(w, new)
        BY <2>4, OutcomeWritten
    <3>3. QED
        BY <3>1, <3>2 DEF UpdateJobStatus, ClaimInv, QueueTypes
  <2>5. CASE Tick
    BY <2>5 DEF Tick, Terminal
  <2>6. QED
    BY <2>1, <2>3, <2>4, <2>5
    DEF Next, processNext, PollEmpty, SendEmail, SendSMS, ExecuteCode, LockNext,
        emailExecutor, smsExecutor, codeExecutor, CallProvider, InsertCodeExecution,
        LoseUpdate, Crash, vars
<1>2. QED
    BY <1>1, Invariance, PTL DEF Spec, TerminalIsFinal

(***************************************************************************)
(* Stored outputs are counted against acceptances.                         *)
(***************************************************************************)
OutputsInv ==
    /\ \A j \in Job : Cardinality(codeExecutions[j]) <= accepted[j]
    /\ \A w \in Worker :
        pc[w] = "storing" => Cardinality(codeExecutions[held[w]]) < accepted[held[w]]

LEMMA OutputsFinite ==
    ASSUME EffectInv, NEW j \in Job
    PROVE  IsFiniteSet(codeExecutions[j]) /\ Cardinality(codeExecutions[j]) \in Nat
<1>1. codeExecutions[j] \subseteq 1 .. MaxAttempts
    BY DEF EffectInv, EffectTypes
<1>2. IsFiniteSet(1 .. MaxAttempts)
    BY FS_Interval, JobQueueAssumption
<1>3. QED
    BY <1>1, <1>2, FS_Subset, FS_CardinalityType

LEMMA NextOutputsInv == ClaimInv /\ EffectInv /\ OutputsInv /\ [Next]_vars => OutputsInv'
<1> SUFFICES ASSUME ClaimInv, EffectInv, OutputsInv, [Next]_vars PROVE OutputsInv'
    OBVIOUS
<1>1. ASSUME NEW w \in Worker,
             emailExecutor(w) \/ smsExecutor(w) \/ codeExecutor(w) \/ InsertCodeExecution(w)
      PROVE  OutputsInv'
  <2>1. held[w] \in Job /\ UNCHANGED held
    BY <1>1, HeldIsJob
    DEF emailExecutor, smsExecutor, codeExecutor, CallProvider, InsertCodeExecution
  <2>2. \A v \in Worker : v # w => pc'[v] = pc[v]
    BY <1>1 DEF emailExecutor, smsExecutor, codeExecutor, InsertCodeExecution, ClaimInv, QueueTypes
  <2>3. \A v \in Worker : v # w /\ pc[v] # "idle" => held[v] # held[w] /\ held[v] \in Job
    BY <2>1 DEF ClaimInv, QueueTypes, HeldIffBusy, OneWorkerPerJob
  <2> DEFINE count(j) == Cardinality(codeExecutions[j])
             countNext(j) == Cardinality(codeExecutions'[j])
  <2>4. count(held[w]) \in Nat /\ accepted[held[w]] \in Nat
    BY <2>1, OutputsFinite DEF EffectInv, EffectTypes
  <2>5. /\ \A j \in Job : j # held[w] => codeExecutions'[j] = codeExecutions[j]
                                         /\ accepted'[j] = accepted[j]
        /\ \/ /\ pc[w] = "executing" /\ pc'[w] # "storing"
              /\ codeExecutions' = codeExecutions
              /\ accepted'[held[w]] \in {accepted[held[w]], accepted[held[w]] + 1}
           \/ /\ pc[w] = "executing" /\ codeExecutions' = codeExecutions
              /\ accepted'[held[w]] = accepted[held[w]] + 1
           \/ /\ pc[w] = "storing" /\ pc'[w] # "storing" /\ accepted' = accepted
              /\ \/ codeExecutions' = codeExecutions
                 \/ codeExecutions'[held[w]] = codeExecutions[held[w]] \union {heldAttempt[w]}
    BY <1>1, <2>1
    DEF emailExecutor, smsExecutor, codeExecutor, CallProvider, ProviderReply, AfterEmail,
        AfterSMS, AfterRun, InsertCodeExecution, Insert, Fault, ClaimInv, QueueTypes, PC,
        EffectInv, EffectTypes
  <2>6. \/ codeExecutions'[held[w]] = codeExecutions[held[w]]
        \/ pc[w] = "storing" /\ countNext(held[w]) \in {count(held[w]), count(held[w]) + 1}
    BY <2>1, <2>5, OutputsFinite, FS_AddElement
  <2>7. /\ count(held[w]) <= accepted[held[w]]
        /\ pc[w] = "storing" => count(held[w]) < accepted[held[w]]
    BY <2>1 DEF OutputsInv
  <2>8. /\ countNext(held[w]) <= accepted'[held[w]]
        /\ pc'[w] = "storing" => countNext(held[w]) < accepted'[held[w]]
    BY <2>4, <2>5, <2>6, <2>7
  <2>9. ASSUME NEW j \in Job PROVE countNext(j) <= accepted'[j]
    BY <2>5, <2>8 DEF OutputsInv
  <2>10. ASSUME NEW v \in Worker, pc'[v] = "storing"
         PROVE  countNext(held'[v]) < accepted'[held'[v]]
    BY <2>1, <2>2, <2>3, <2>5, <2>8, <2>10 DEF OutputsInv
  <2>11. QED
    BY <2>9, <2>10 DEF OutputsInv
\* Every other step leaves outputs and acceptances alone, and starts no storing.
<1>2. ASSUME UNCHANGED <<codeExecutions, accepted>>,
             \A w \in Worker : pc'[w] = "storing" => pc[w] = "storing" /\ held'[w] = held[w]
      PROVE  OutputsInv'
    BY <1>2 DEF OutputsInv
<1>3. ASSUME NEW w \in Worker, CommitClaim(w) \/ LoseClaim(w) \/ LockNext(w) \/ LoseUpdate(w)
      PROVE  OutputsInv'
    BY <1>2, <1>3 DEF CommitClaim, LoseClaim, LockNext, LoseUpdate, Return, ClaimInv, QueueTypes
<1>4. ASSUME NEW w \in Worker, MarkCompleted(w) \/ MarkRetry(w) \/ MarkFailed(w)
      PROVE  OutputsInv'
    BY <1>2, <1>4, OutcomeWritten DEF UpdateJobStatus, Return, ClaimInv, QueueTypes
<1>5. ASSUME NEW p \in Process, Crash(p) PROVE OutputsInv'
    BY <1>2, <1>5 DEF Crash
<1>6. QED
    BY <1>1, <1>2, <1>3, <1>4, <1>5
    DEF Next, processNext, PollEmpty, SendEmail, SendSMS, ExecuteCode, CreateJob, Tick, vars

\* An output is stored only after an acceptance that has none stored yet.
LEMMA OutputsCounted == Spec => []OutputsInv
<1>1. Init => OutputsInv
  <2> SUFFICES ASSUME Init PROVE OutputsInv
    OBVIOUS
  <2>1. Cardinality({}) = 0
    BY FS_EmptySet
  <2>2. QED
    BY <2>1 DEF Init, OutputsInv
<1>2. QED
    BY <1>1, NextOutputsInv, Invariance, PTL DEF Spec

(***************************************************************************)
(* Acceptances that achieve nothing, over all jobs.  Repeated alone is not *)
(* inductive: an acceptance nobody heard of is paid for when it goes       *)
(* unheard, and repeated, if at all, steps later.                          *)
(***************************************************************************)
\* Whatever was accepted for row j so far, it is to be attempted again, or given up.
WrittenOff(j) ==
    \/ jobs[j].status \in {"pending", "failed"}
    \/ \E w \in Worker : held[w] = j /\ pc[w] \in {"executing", "failed"}

Wasted ==
    {a \in Job \X (1 .. MaxAttempts) :
        a[2] < accepted[a[1]] \/ (a[2] = accepted[a[1]] /\ WrittenOff(a[1]))}

WasteInv == IsFiniteSet(Wasted) /\ Cardinality(Wasted) <= faults

\* A set and what a step may make of it.
LEMMA SubsetCounts ==
    ASSUME NEW S, IsFiniteSet(S), NEW T, T \subseteq S
    PROVE  /\ IsFiniteSet(T) /\ Cardinality(T) \in Nat /\ Cardinality(S) \in Nat
           /\ Cardinality(T) <= Cardinality(S)
BY FS_Subset, FS_CardinalityType

LEMMA OneMoreCounts ==
    ASSUME NEW S, IsFiniteSet(S), NEW x, NEW T, T \subseteq S \union {x}
    PROVE  /\ IsFiniteSet(T) /\ Cardinality(T) \in Nat /\ Cardinality(S) \in Nat
           /\ Cardinality(T) <= Cardinality(S) + 1
<1>1. Cardinality(S) \in Nat
    BY FS_CardinalityType
<1>2. IsFiniteSet(S \union {x}) /\ Cardinality(S \union {x}) <= Cardinality(S) + 1
    BY <1>1, FS_AddElement
<1>3. IsFiniteSet(T) /\ Cardinality(T) \in Nat /\ Cardinality(S \union {x}) \in Nat
      /\ Cardinality(T) <= Cardinality(S \union {x})
    BY <1>2, SubsetCounts
<1>4. QED
    BY <1>1, <1>2, <1>3

\* Nothing more is wasted by a step that accepts nothing and writes nothing off.
LEMMA NothingWasted ==
    ASSUME accepted' = accepted,
           \A j \in Job : WrittenOff(j)' => WrittenOff(j) \/ accepted[j] = 0
    PROVE  Wasted' \subseteq Wasted
BY DEF Wasted

\* A provider call or an INSERT wastes one acceptance, and only when it fails.
LEMMA ExecuteWastes ==
    ASSUME ClaimInv, EffectInv, NEW w \in Worker,
           emailExecutor(w) \/ smsExecutor(w) \/ codeExecutor(w) \/ InsertCodeExecution(w)
    PROVE  \/ Wasted' \subseteq Wasted /\ faults' \in {faults, faults + 1}
           \/ /\ \E a : Wasted' \subseteq Wasted \union {a}
              /\ faults' = faults + 1
<1>1. held[w] \in Job /\ UNCHANGED <<jobs, held>>
    BY HeldIsJob
    DEF emailExecutor, smsExecutor, codeExecutor, CallProvider, InsertCodeExecution
<1>2. \A v \in Worker : v # w => pc'[v] = pc[v]
    BY DEF emailExecutor, smsExecutor, codeExecutor, InsertCodeExecution, ClaimInv, QueueTypes
<1>3. \A v \in Worker : v # w => held[v] # held[w]
    BY <1>1, JobQueueAssumption DEF ClaimInv, OneWorkerPerJob
<1>4. /\ jobs[held[w]].status = "running" /\ pc[w] \in {"executing", "storing"}
      /\ \A j \in Job : accepted[j] \in Nat
    BY <1>1
    DEF emailExecutor, smsExecutor, codeExecutor, CallProvider, InsertCodeExecution,
        ClaimInv, OwnerSeesCurrentRow, Owns, EffectInv, EffectTypes
<1>5. \A j \in Job : j # held[w] => (WrittenOff(j)' <=> WrittenOff(j))
    BY <1>1, <1>2 DEF WrittenOff
<1>6. /\ WrittenOff(held[w]) <=> pc[w] = "executing"
      /\ WrittenOff(held[w])' <=> pc'[w] \in {"executing", "failed"}
    BY <1>1, <1>2, <1>3, <1>4 DEF WrittenOff
<1>7. \/ pc[w] = "executing" /\ UNCHANGED <<accepted, faults>>
      \/ /\ pc[w] = "executing"
         /\ accepted' = [accepted EXCEPT ![held[w]] = @ + 1]
         /\ \/ pc'[w] \in {"succeeded", "storing"} /\ UNCHANGED faults
            \/ faults' = faults + 1
      \/ /\ pc[w] = "storing" /\ UNCHANGED accepted
         /\ \/ pc'[w] = "succeeded" /\ UNCHANGED faults
            \/ faults' = faults + 1
    BY <1>1
    DEF emailExecutor, smsExecutor, codeExecutor, CallProvider, ProviderReply, AfterEmail,
        AfterSMS, AfterRun, InsertCodeExecution, Fault, ClaimInv, QueueTypes, PC
<1>8. CASE pc[w] = "executing" /\ UNCHANGED <<accepted, faults>>
  <2>1. Wasted' \subseteq Wasted
    BY <1>5, <1>6, <1>8, NothingWasted
  <2>2. QED
    BY <1>8, <2>1
<1>9. CASE pc[w] = "executing" /\ accepted' = [accepted EXCEPT ![held[w]] = @ + 1]
  <2>1. /\ accepted'[held[w]] = accepted[held[w]] + 1
        /\ \A j \in Job : j # held[w] => accepted'[j] = accepted[j]
    BY <1>1, <1>9 DEF EffectInv, EffectTypes
  <2>2. Wasted' \subseteq Wasted \union {<<held[w], accepted'[held[w]]>>}
    <3> SUFFICES ASSUME NEW a \in Job \X (1 .. MaxAttempts), a \in Wasted', a \notin Wasted
                 PROVE  a = <<held[w], accepted'[held[w]]>>
      BY DEF Wasted
    <3>1. a[1] \in Job /\ a[2] \in Nat /\ a = <<a[1], a[2]>>
      BY JobQueueAssumption
    <3>2. a[1] = held[w]
      BY <1>5, <2>1, <3>1 DEF Wasted
    <3>3. a[2] > accepted[held[w]] /\ a[2] <= accepted'[held[w]]
      BY <1>4, <1>6, <1>9, <2>1, <3>1, <3>2 DEF Wasted
    <3>4. QED
      BY <1>1, <1>4, <2>1, <3>1, <3>2, <3>3
  <2>3. CASE pc'[w] \in {"succeeded", "storing"} /\ UNCHANGED faults
    <3>1. <<held[w], accepted'[held[w]]>> \notin Wasted'
      BY <1>1, <1>4, <1>6, <2>1, <2>3 DEF Wasted
    <3>2. QED
      BY <2>2, <2>3, <3>1
  <2>4. CASE faults' = faults + 1
    BY <2>2, <2>4
  <2>5. QED
    BY <1>1, <1>4, <1>7, <1>9, <2>1, <2>3, <2>4
<1>10. CASE pc[w] = "storing" /\ UNCHANGED accepted
  <2>1. CASE pc'[w] = "succeeded" /\ UNCHANGED faults
    <3>1. ASSUME NEW j \in Job PROVE WrittenOff(j)' => WrittenOff(j)
      <4>1. CASE j = held[w]
        BY <1>1, <1>2, <1>3, <1>4, <2>1, <4>1 DEF WrittenOff
      <4>2. CASE j # held[w]
        BY <1>5, <4>2
      <4>3. QED
        BY <4>1, <4>2
    <3>2. QED
      BY <1>10, <2>1, <3>1, NothingWasted
  <2>2. CASE faults' = faults + 1
    <3>1. Wasted' \subseteq Wasted \union {<<held[w], accepted[held[w]]>>}
      <4> SUFFICES ASSUME NEW a \in Job \X (1 .. MaxAttempts), a \in Wasted', a \notin Wasted
                   PROVE  a = <<held[w], accepted[held[w]]>>
        BY DEF Wasted
      <4>1. a[1] \in Job /\ a = <<a[1], a[2]>>
        OBVIOUS
      <4>2. a[1] = held[w] /\ a[2] = accepted[held[w]]
        BY <1>5, <1>10, <4>1 DEF Wasted
      <4>3. QED
        BY <4>1, <4>2
    <3>2. QED
      BY <2>2, <3>1
  <2>3. QED
    BY <1>7, <1>10, <2>1, <2>2
<1>11. QED
    BY <1>7, <1>8, <1>9, <1>10

\* Every step of the queue leaves the fault count alone or adds one to it.
LEMMA OneFaultAtMost == [Next]_vars => faults' \in {faults, faults + 1}
BY DEF Next, processNext, PollEmpty, SendEmail, SendSMS, ExecuteCode, CreateJob, LockNext,
       CommitClaim, LoseClaim, emailExecutor, smsExecutor, codeExecutor, CallProvider,
       InsertCodeExecution, MarkCompleted, MarkRetry, MarkFailed, UpdateJobStatus,
       LoseUpdate, Crash, Tick, Fault, vars

\* Every other step wastes nothing, and no step undoes a fault.
LEMMA OthersWasteNothing ==
    ASSUME ClaimInv, EffectInv, [Next]_vars,
           \A w \in Worker : /\ ~emailExecutor(w) /\ ~smsExecutor(w) /\ ~codeExecutor(w)
                             /\ ~InsertCodeExecution(w)
    PROVE  Wasted' \subseteq Wasted /\ faults' \in {faults, faults + 1}
<1> USE JobQueueAssumption
<1>1. ASSUME NEW j \in Job, CreateJob(j) PROVE Wasted' \subseteq Wasted
  <2>1. /\ accepted[j] = 0 /\ UNCHANGED <<accepted, pc, held>>
        /\ \A k \in Job : k # j => jobs'[k] = jobs[k]
    BY <1>1 DEF CreateJob, ClaimInv, QueueTypes, AttemptsByStatus, EffectInv, EffectTypes,
                AcceptedPerStart
  <2>2. QED
    BY <2>1, NothingWasted DEF WrittenOff
<1>2. ASSUME NEW w \in Worker, LockNext(w) PROVE Wasted' \subseteq Wasted
  <2>1. \A v \in Worker : pc'[v] \in {"executing", "failed"} => pc'[v] = pc[v] /\ held'[v] = held[v]
    BY <1>2 DEF LockNext, ClaimInv, QueueTypes
  <2>2. QED
    BY <1>2, <2>1, NothingWasted DEF LockNext, WrittenOff
<1>3. ASSUME NEW w \in Worker, CommitClaim(w) \/ LoseClaim(w) PROVE Wasted' \subseteq Wasted
  <2>1. pc[w] = "claiming" /\ held[w] \in Job /\ jobs[held[w]].status = "pending"
    BY <1>3, HeldIsJob DEF CommitClaim, LoseClaim, ClaimInv, LockedIsPending
  <2>2. /\ \A k \in Job : k # held[w] => jobs'[k] = jobs[k]
        /\ \A v \in Worker : v # w => pc'[v] = pc[v] /\ held'[v] = held[v]
        /\ pc'[w] = "idle" \/ held'[w] = held[w]
        /\ UNCHANGED accepted
    BY <1>3, <2>1, SetRunningEffect DEF CommitClaim, LoseClaim, Return, ClaimInv, QueueTypes
  <2>3. \A j \in Job : WrittenOff(j)' => WrittenOff(j)
    BY <2>1, <2>2 DEF WrittenOff
  <2>4. QED
    BY <2>2, <2>3, NothingWasted
<1>4. ASSUME NEW w \in Worker, MarkCompleted(w) \/ MarkRetry(w) \/ MarkFailed(w)
      PROVE  Wasted' \subseteq Wasted
  <2>1. held[w] \in Job
    BY <1>4, HeldIsJob DEF MarkCompleted, MarkRetry, MarkFailed
  <2>2. PICK new \in Row :
          /\ UpdateJobStatus(w, new)
          /\ new.status = "completed" \/ pc[w] = "failed"
    BY <1>4, OutcomeWritten
  <2>3. /\ jobs'[held[w]].status = new.status
        /\ \A k \in Job : k # held[w] => jobs'[k] = jobs[k]
        /\ \A v \in Worker : v # w => pc'[v] = pc[v] /\ held'[v] = held[v]
        /\ pc'[w] = "idle"
        /\ UNCHANGED accepted
    BY <2>1, <2>2, UpdateJobStatusEffect DEF Row, UpdateJobStatus, Return, ClaimInv, QueueTypes
  <2>4. \A j \in Job : WrittenOff(j)' => WrittenOff(j)
    BY <2>1, <2>2, <2>3 DEF WrittenOff
  <2>5. QED
    BY <2>3, <2>4, NothingWasted
<1>5. ASSUME UNCHANGED <<jobs, accepted>>,
             \A w \in Worker : pc'[w] = "idle" \/ (pc'[w] = pc[w] /\ held'[w] = held[w])
      PROVE  Wasted' \subseteq Wasted
    BY <1>5, NothingWasted DEF WrittenOff
<1>6. ASSUME NEW w \in Worker, LoseUpdate(w) PROVE Wasted' \subseteq Wasted
    BY <1>5, <1>6 DEF LoseUpdate, Return, ClaimInv, QueueTypes
<1>7. ASSUME NEW p \in Process, Crash(p) PROVE Wasted' \subseteq Wasted
    BY <1>5, <1>7 DEF Crash, ClaimInv, QueueTypes
<1>8. CASE Tick
  <2>1. \A j \in Job : jobs'[j].status = jobs[j].status
    BY <1>8 DEF Tick, ClaimInv, QueueTypes, Row
  <2>2. QED
    BY <1>8, <2>1, NothingWasted DEF Tick, WrittenOff
<1>9. Wasted' \subseteq Wasted
    BY <1>1, <1>2, <1>3, <1>4, <1>5, <1>6, <1>7, <1>8
    DEF Next, processNext, PollEmpty, SendEmail, SendSMS, ExecuteCode, vars
<1>10. QED
    BY <1>9, OneFaultAtMost

LEMMA NextWasteInv == ClaimInv /\ EffectInv /\ WasteInv /\ [Next]_vars => WasteInv'
<1> SUFFICES ASSUME ClaimInv, EffectInv, WasteInv, [Next]_vars PROVE WasteInv'
    OBVIOUS
<1>1. faults \in Nat /\ IsFiniteSet(Wasted) /\ Cardinality(Wasted) <= faults
    BY DEF ClaimInv, QueueTypes, WasteInv
<1>2. \/ Wasted' \subseteq Wasted /\ faults' \in {faults, faults + 1}
      \/ (\E a : Wasted' \subseteq Wasted \union {a}) /\ faults' = faults + 1
    BY ExecuteWastes, OthersWasteNothing
<1>3. CASE Wasted' \subseteq Wasted /\ faults' \in {faults, faults + 1}
    BY <1>1, <1>3, SubsetCounts DEF WasteInv
<1>4. CASE (\E a : Wasted' \subseteq Wasted \union {a}) /\ faults' = faults + 1
  <2>1. PICK a : Wasted' \subseteq Wasted \union {a}
    BY <1>4
  <2>2. IsFiniteSet(Wasted') /\ Cardinality(Wasted') \in Nat
        /\ Cardinality(Wasted') <= Cardinality(Wasted) + 1 /\ Cardinality(Wasted) \in Nat
    BY <1>1, <2>1, OneMoreCounts
  <2>3. QED
    BY <1>1, <1>4, <2>2 DEF WasteInv
<1>5. QED
    BY <1>2, <1>3, <1>4

\* Each acceptance that achieves nothing has a fault of its own.
LEMMA WasteCounted == Spec => []WasteInv
<1>1. Init => WasteInv
  <2> SUFFICES ASSUME Init PROVE WasteInv
    OBVIOUS
  <2>1. Wasted = {} /\ faults = 0
    BY JobQueueAssumption DEF Init, Wasted
  <2>2. QED
    BY <2>1, FS_EmptySet DEF WasteInv
<1>2. QED
    BY <1>1, NextWasteInv, Invariance, PTL DEF Spec

\* Delivery and storage are exactly once up to faults: over all jobs together,
\* each acceptance that another one of its job followed is paid for by a fault
\* of its own, and no output is stored unaccepted.
THEOREM ExactlyOnceUpToFaults == Spec => []DuplicatesNeedFaults
<1>1. ClaimInv /\ OutputsInv /\ WasteInv => DuplicatesNeedFaults
  <2> SUFFICES ASSUME ClaimInv, OutputsInv, WasteInv PROVE DuplicatesNeedFaults
    OBVIOUS
  <2>1. Repeated \subseteq Wasted
    BY DEF Repeated, Wasted
  <2>2. IsFiniteSet(Repeated) /\ Cardinality(Repeated) <= faults
    BY <2>1, SubsetCounts DEF ClaimInv, QueueTypes, WasteInv
  <2>3. QED
    BY <2>2 DEF OutputsInv, DuplicatesNeedFaults
<1>2. QED
    BY <1>1, OutputsCounted, WasteCounted, Invariance, PTL

(***************************************************************************)
(* Backoff: what a waiting row still has to wait, and has waited already,  *)
(* add up to its backoff, give or take the drift.                          *)
(***************************************************************************)
BackoffInv ==
    /\ \A j \in Job :
        jobs[j].status = "pending" /\ jobs[j].attempt > 0
            => rested[j] + jobs[j].due + Drift >= Backoff(jobs[j].attempt)
    /\ \A w \in Worker : pc[w] = "claiming" => jobs[held[w]].due <= 0

LEMMA NextBackoffInv == ClaimInv /\ BackoffInv /\ [Next]_vars => BackoffInv'
<1> SUFFICES ASSUME ClaimInv, BackoffInv, [Next]_vars PROVE BackoffInv'
    OBVIOUS
<1> USE JobQueueAssumption
<1>1. ASSUME NEW j \in Job, CreateJob(j) PROVE BackoffInv'
  <2>1. /\ jobs[j].attempt = 0 /\ jobs'[j].attempt = jobs[j].attempt
        /\ \A k \in Job : k # j => jobs'[k] = jobs[k]
        /\ UNCHANGED <<pc, held, rested>>
    BY <1>1 DEF CreateJob, ClaimInv, QueueTypes, AttemptsByStatus, Row
  <2>2. \A w \in Worker : pc[w] = "claiming" => held[w] \in Job /\ held[w] # j
    BY <1>1, HeldIsJob DEF CreateJob, ClaimInv, LockedIsPending
  <2>3. QED
    BY <2>1, <2>2 DEF BackoffInv
<1>2. ASSUME NEW w \in Worker, LockNext(w) PROVE BackoffInv'
    BY <1>2 DEF LockNext, Claimable, Due, ClaimInv, QueueTypes, BackoffInv
<1>3. ASSUME NEW w \in Worker, CommitClaim(w) \/ LoseClaim(w) PROVE BackoffInv'
  <2>1. held[w] \in Job /\ jobs[held[w]].status = "pending" /\ pc[w] = "claiming"
    BY <1>3, HeldIsJob DEF CommitClaim, LoseClaim, ClaimInv, LockedIsPending
  <2>2. /\ pc'[w] # "claiming"
        /\ \A v \in Worker : v # w => pc'[v] = pc[v] /\ held'[v] = held[v]
    BY <1>3 DEF CommitClaim, LoseClaim, Return, ClaimInv, QueueTypes
  <2>3. \A v \in Worker : v # w /\ pc[v] = "claiming" => held[v] # held[w] /\ held[v] \in Job
    BY <2>1 DEF ClaimInv, QueueTypes, HeldIffBusy, OneWorkerPerJob
  <2>4. \/ UNCHANGED <<jobs, rested>>
        \/ /\ jobs'[held[w]].status = "running"
           /\ \A k \in Job : k # held[w] => jobs'[k] = jobs[k] /\ rested'[k] = rested[k]
    BY <1>3, <2>1 DEF CommitClaim, LoseClaim, SetRunning, ClaimInv, QueueTypes, Row
  <2>5. QED
    BY <2>1, <2>2, <2>3, <2>4 DEF BackoffInv
<1>4. ASSUME NEW w \in Worker, MarkCompleted(w) \/ MarkRetry(w) \/ MarkFailed(w)
      PROVE  BackoffInv'
  <2>1. held[w] \in Job /\ pc[w] \in {"succeeded", "failed"}
    BY <1>4, HeldIsJob DEF MarkCompleted, MarkRetry, MarkFailed
  <2>2. /\ jobs[held[w]].attempt = heldAttempt[w] /\ heldAttempt[w] \in 1 .. MaxAttempts
        /\ rested[held[w]] \in Nat
    BY <2>1 DEF ClaimInv, QueueTypes, AttemptsByStatus, OwnerSeesCurrentRow, Owns
  <2>3. PICK new \in Row : UpdateJobStatus(w, new)
    BY <1>4, OutcomeWritten
  <2>4. /\ jobs'[held[w]] = [new EXCEPT !.attempt = jobs[held[w]].attempt]
        /\ \A k \in Job : k # held[w] => jobs'[k] = jobs[k]
        /\ Return(w) /\ UNCHANGED rested
    BY <2>1, <2>3, UpdateJobStatusEffect DEF UpdateJobStatus
  <2>5. \A v \in Worker : pc'[v] = "claiming" =>
            pc[v] = "claiming" /\ held'[v] = held[v] /\ held[v] \in Job /\ held[v] # held[w]
    BY <2>1, <2>4 DEF Return, ClaimInv, QueueTypes, HeldIffBusy, OneWorkerPerJob
  <2>6. jobs'[held[w]].status = "pending"
            => rested[held[w]] + jobs'[held[w]].due + Drift >= Backoff(heldAttempt[w])
    <3>1. CASE MarkRetry(w)
      <4>1. PICK d \in -Drift .. Drift :
              UpdateJobStatus(w, [Absent EXCEPT !.status = "pending", !.error = TRUE,
                                                !.due = Backoff(heldAttempt[w]) + d])
        BY <3>1 DEF MarkRetry
      <4>2. Backoff(heldAttempt[w]) \in Nat
        BY <2>2, BackoffType
      <4>3. jobs'[held[w]].due = Backoff(heldAttempt[w]) + d
        BY <2>1, <4>1 DEF UpdateJobStatus, Absent, ClaimInv, QueueTypes
      <4>4. QED
        BY <2>2, <4>2, <4>3
    <3>2. CASE MarkCompleted(w) \/ MarkFailed(w)
      <4>1. CASE MarkCompleted(w)
        <5> DEFINE row == [Absent EXCEPT !.status = "completed", !.completedAt = TRUE]
        <5>1. row \in Row /\ row.status = "completed"
          BY CompletedRow
        <5>2. UpdateJobStatus(w, row)
          BY <4>1 DEF MarkCompleted
        <5> HIDE DEF row
        <5>3. jobs'[held[w]] = [row EXCEPT !.attempt = jobs[held[w]].attempt]
          BY <2>1, <5>1, <5>2, UpdateJobStatusEffect
        <5>4. QED
          BY <5>1, <5>3 DEF Row
      <4>2. CASE MarkFailed(w)
        <5> DEFINE row == [Absent EXCEPT !.status = "failed", !.error = TRUE]
        <5>1. row \in Row /\ row.status = "failed"
          BY FailedRow
        <5>2. UpdateJobStatus(w, row)
          BY <4>2 DEF MarkFailed
        <5> HIDE DEF row
        <5>3. jobs'[held[w]] = [row EXCEPT !.attempt = jobs[held[w]].attempt]
          BY <2>1, <5>1, <5>2, UpdateJobStatusEffect
        <5>4. QED
          BY <5>1, <5>3 DEF Row
      <4>3. QED
        BY <3>2, <4>1, <4>2
    <3>3. QED
      BY <1>4, <3>1, <3>2
  <2>7. jobs'[held[w]].attempt = heldAttempt[w]
    BY <2>2, <2>4 DEF Row
  <2>8. ASSUME NEW j \in Job, jobs'[j].status = "pending", jobs'[j].attempt > 0
        PROVE  rested'[j] + jobs'[j].due + Drift >= Backoff(jobs'[j].attempt)
    <3>1. CASE j = held[w]
      BY <2>4, <2>6, <2>7, <2>8, <3>1
    <3>2. CASE j # held[w]
      BY <2>4, <2>8, <3>2 DEF BackoffInv
    <3>3. QED
      BY <3>1, <3>2
  <2>9. ASSUME NEW v \in Worker, pc'[v] = "claiming" PROVE jobs'[held'[v]].due <= 0
    BY <2>4, <2>5, <2>9 DEF BackoffInv
  <2>10. QED
    BY <2>8, <2>9 DEF BackoffInv
<1>5. CASE Tick
  <2>1. ASSUME NEW j \in Job
        PROVE  /\ jobs'[j].status = jobs[j].status /\ jobs'[j].attempt = jobs[j].attempt
               /\ jobs'[j].due <= jobs[j].due
               /\ rested'[j] + jobs'[j].due = rested[j] + jobs[j].due
               /\ jobs[j].due \in Int /\ jobs'[j].due \in Int
               /\ rested[j] \in Nat /\ rested'[j] \in Nat
    <3>1. /\ jobs[j] \in Row /\ jobs[j].due \in Int /\ rested[j] \in Nat
      BY DEF ClaimInv, QueueTypes, Row
    <3>2. CASE jobs[j].status = "pending" /\ jobs[j].due > -Horizon
      <4>1. jobs'[j] = [jobs[j] EXCEPT !.due = @ - 1] /\ rested'[j] = rested[j] + 1
        BY <1>5, <3>2 DEF Tick
      <4>2. /\ jobs'[j].status = jobs[j].status /\ jobs'[j].attempt = jobs[j].attempt
            /\ jobs'[j].due = jobs[j].due - 1
        BY <3>1, <4>1 DEF Row
      <4>3. QED
        BY <3>1, <4>1, <4>2
    <3>3. CASE ~(jobs[j].status = "pending" /\ jobs[j].due > -Horizon)
      <4>1. jobs'[j] = jobs[j] /\ rested'[j] = rested[j]
        BY <1>5, <3>3 DEF Tick
      <4>2. QED
        BY <3>1, <4>1
    <3>4. QED
      BY <3>2, <3>3
  <2>2. ASSUME NEW j \in Job, jobs'[j].status = "pending" /\ jobs'[j].attempt > 0
        PROVE  rested'[j] + jobs'[j].due + Drift >= Backoff(jobs'[j].attempt)
    <3>1. rested[j] + jobs[j].due + Drift >= Backoff(jobs[j].attempt)
        BY <2>1, <2>2 DEF BackoffInv
    <3>2. QED
        BY <2>1, <3>1
  <2>3. ASSUME NEW w \in Worker, pc'[w] = "claiming" PROVE jobs'[held'[w]].due <= 0
    <3>1. held[w] \in Job /\ held'[w] = held[w] /\ jobs[held[w]].due <= 0
        BY <1>5, <2>3, HeldIsJob DEF Tick, BackoffInv
    <3>2. QED
        BY <2>1, <3>1
  <2>4. QED
    BY <2>2, <2>3 DEF BackoffInv
\* Every other step leaves the table alone, and starts no claim.
<1>6. ASSUME UNCHANGED <<jobs, rested>>,
             \A w \in Worker : pc'[w] = "claiming" => pc[w] = "claiming" /\ held'[w] = held[w]
      PROVE  BackoffInv'
    BY <1>6 DEF BackoffInv
<1>7. ASSUME NEW w \in Worker, \/ emailExecutor(w) \/ smsExecutor(w) \/ codeExecutor(w)
                               \/ InsertCodeExecution(w) \/ LoseUpdate(w)
      PROVE  BackoffInv'
    BY <1>6, <1>7
    DEF emailExecutor, smsExecutor, codeExecutor, CallProvider, AfterEmail, AfterSMS, AfterRun,
        InsertCodeExecution, LoseUpdate, Return, ClaimInv, QueueTypes
<1>8. ASSUME NEW p \in Process, Crash(p) PROVE BackoffInv'
    BY <1>6, <1>8 DEF Crash
<1>9. QED
    BY <1>1, <1>2, <1>3, <1>4, <1>5, <1>6, <1>7, <1>8
    DEF Next, processNext, PollEmpty, SendEmail, SendSMS, ExecuteCode, vars

\* The backoff is exponential: two, four, eight units before attempt 2, 3, 4.
LEMMA BackoffIsExponential == ASSUME NEW a \in 1 .. MaxAttempts PROVE Backoff(a) = 2 ^ a
BY SMT DEF Backoff

\* A retry waits out its backoff, up to the drift between the worker's clock,
\* which computes run_at, and the database's, which compares it.
THEOREM BackoffRespected == Spec => BackoffHonoured
<1> DEFINE Honoured == \A j \in Job :
                         /\ jobs[j].status = "pending" /\ jobs[j].attempt > 0
                         /\ jobs'[j].status = "running"
                         => rested[j] + Drift >= 2 ^ jobs[j].attempt
<1>1. Init => BackoffInv
  BY SMT DEF Init, Absent, BackoffInv
<1>2. ClaimInv /\ BackoffInv /\ [Next]_vars => [Honoured]_vars
  <2> SUFFICES ASSUME ClaimInv, BackoffInv, Next, NEW j \in Job,
                      jobs[j].status = "pending", jobs[j].attempt > 0,
                      jobs'[j].status = "running"
               PROVE  rested[j] + Drift >= 2 ^ jobs[j].attempt
    OBVIOUS
  <2> USE JobQueueAssumption
  <2>1. jobs[j].due \in Int /\ rested[j] \in Nat /\ jobs[j].attempt \in 1 .. MaxAttempts
    BY DEF ClaimInv, QueueTypes, Row
  <2>2. Backoff(jobs[j].attempt) \in Nat /\ Backoff(jobs[j].attempt) = 2 ^ jobs[j].attempt
    BY <2>1, BackoffType, BackoffIsExponential
  <2>3. \E w \in Worker : CommitClaim(w) \/ LoseClaim(w)
    <3>1. ASSUME NEW k \in Job, CreateJob(k) PROVE FALSE
      BY <3>1 DEF CreateJob, ClaimInv, QueueTypes, Row
    <3>2. CASE Tick
      BY <3>2 DEF Tick, ClaimInv, QueueTypes, Row
    <3>3. ASSUME NEW w \in Worker, MarkCompleted(w) \/ MarkRetry(w) \/ MarkFailed(w)
          PROVE  FALSE
      <4>1. held[w] \in Job
        BY <3>3, HeldIsJob DEF MarkCompleted, MarkRetry, MarkFailed
      <4>2. PICK new \in Row : UpdateJobStatus(w, new) /\ new.status # "running"
        BY <3>3, OutcomeWritten
      <4>3. jobs'[held[w]] = [new EXCEPT !.attempt = jobs[held[w]].attempt]
        BY <4>1, <4>2, UpdateJobStatusEffect
      <4>4. QED
        BY <4>1, <4>2, <4>3, UpdateJobStatusEffect DEF Row
    <3>4. CASE UNCHANGED jobs
      BY <3>4
    <3>5. QED
      BY <3>1, <3>2, <3>3, <3>4
      DEF Next, processNext, PollEmpty, LockNext, SendEmail, SendSMS, ExecuteCode, Crash,
          emailExecutor, smsExecutor, codeExecutor, CallProvider, InsertCodeExecution,
          LoseUpdate, vars
  <2>4. PICK w \in Worker : CommitClaim(w) \/ LoseClaim(w)
    BY <2>3
  <2>5. pc[w] = "claiming" /\ held[w] \in Job
    BY <2>4, HeldIsJob DEF CommitClaim, LoseClaim
  <2>6. held[w] = j
    BY <2>4, <2>5 DEF CommitClaim, LoseClaim, SetRunning, ClaimInv, QueueTypes
  <2>7. jobs[j].due <= 0 /\ rested[j] + jobs[j].due + Drift >= Backoff(jobs[j].attempt)
    BY <2>5, <2>6 DEF BackoffInv
  <2>8. rested[j] + Drift >= Backoff(jobs[j].attempt)
    BY <2>1, <2>2, <2>7
  <2>9. QED
    BY <2>2, <2>8, SMT
<1>3. Spec => []BackoffInv
  BY <1>1, NextBackoffInv, Invariance, PTL DEF Spec
<1>4. QED
  BY <1>2, <1>3, Invariance, PTL DEF Spec, BackoffHonoured
=============================================================================
