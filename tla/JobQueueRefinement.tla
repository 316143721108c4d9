------------------------- MODULE JobQueueRefinement -------------------------
(***************************************************************************)
(* JobQueue implements JobLifecycle: the initial state maps to the initial *)
(* state, and every step, under the inductive invariant of JobQueueProofs, *)
(* to one step of the lifecycle of one job or to a stutter.                *)
(***************************************************************************)
EXTENDS JobQueueProofs

\* The refinement mapping of JobQueue!Lifecycle.
StatusOf == [j \in Job |-> jobs[j].status]
AttemptOf == [j \in Job |-> jobs[j].attempt]

\* Only programs have an output to store.
StoringIsCode ==
    \A w \in Worker : pc[w] = "storing" => JobType[held[w]] = "code.execute"

RefinesInv == ClaimInv /\ EffectInv /\ OutputsInv /\ WasteInv /\ StoringIsCode

LEMMA NextStoringIsCode == ClaimInv /\ StoringIsCode /\ [Next]_vars => StoringIsCode'
<1> SUFFICES ASSUME ClaimInv, StoringIsCode, [Next]_vars,
                    NEW w \in Worker, pc'[w] = "storing"
             PROVE  JobType[held'[w]] = "code.execute"
    BY DEF StoringIsCode
<1>1. held'[w] = held[w] /\ (pc[w] = "storing" \/ codeExecutor(w))
  <2>1. ASSUME NEW v \in Worker,
               \/ LockNext(v) \/ CommitClaim(v) \/ LoseClaim(v) \/ LoseUpdate(v)
               \/ emailExecutor(v) \/ smsExecutor(v) \/ InsertCodeExecution(v)
        PROVE  held'[w] = held[w] /\ pc[w] = "storing"
    BY <2>1
    DEF LockNext, CommitClaim, LoseClaim, LoseUpdate, Return, emailExecutor, smsExecutor,
        AfterEmail, AfterSMS, CallProvider, InsertCodeExecution, ClaimInv, QueueTypes
  <2>2. ASSUME NEW v \in Worker, codeExecutor(v)
        PROVE  held'[w] = held[w] /\ (pc[w] = "storing" \/ codeExecutor(w))
    BY <2>2 DEF codeExecutor, CallProvider, ClaimInv, QueueTypes
  <2>3. ASSUME NEW v \in Worker, MarkCompleted(v) \/ MarkRetry(v) \/ MarkFailed(v)
        PROVE  held'[w] = held[w] /\ pc[w] = "storing"
    BY <2>3, OutcomeWritten DEF UpdateJobStatus, Return, ClaimInv, QueueTypes
  <2>4. ASSUME NEW p \in Process, Crash(p) PROVE held'[w] = held[w] /\ pc[w] = "storing"
    BY <2>4 DEF Crash
  <2>5. QED
    BY <2>1, <2>2, <2>3, <2>4
    DEF Next, processNext, PollEmpty, SendEmail, SendSMS, ExecuteCode, CreateJob, Tick, vars
<1>2. QED
    BY <1>1 DEF StoringIsCode, codeExecutor

LEMMA SameCardinality == ASSUME NEW S PROVE Lifecycle!Cardinality(S) = Cardinality(S)
BY DEF Lifecycle!Cardinality, Cardinality

\* A step that writes one row and no acceptance, as the lifecycle sees it.
LEMMA OneRow ==
    ASSUME ClaimInv, NEW j \in Job, jobs' \in [Job -> Row],
           \A k \in Job : k # j => jobs'[k] = jobs[k]
    PROVE  /\ StatusOf' = [StatusOf EXCEPT ![j] = jobs'[j].status]
           /\ AttemptOf' = [AttemptOf EXCEPT ![j] = jobs'[j].attempt]
BY DEF StatusOf, AttemptOf

LEMMA LifecycleStep ==
    ASSUME [Next]_vars, NEW j \in Job,
           \/ Lifecycle!Submit(j) \/ Lifecycle!Start(j) \/ Lifecycle!Accept(j)
           \/ Lifecycle!Store(j) \/ Lifecycle!Complete(j) \/ Lifecycle!Retry(j)
           \/ Lifecycle!Fail(j)
    PROVE  Lifecycle!Next
BY OneFaultAtMost DEF Lifecycle!Next, Lifecycle!Step, Lifecycle!Work

\* A step that is at most a fault.
LEMMA HiddenStep ==
    ASSUME [Next]_vars, UNCHANGED <<StatusOf, AttemptOf, accepted, codeExecutions>>
    PROVE  Lifecycle!Next
BY OneFaultAtMost DEF Lifecycle!Next, Lifecycle!queueVars, StatusOf, AttemptOf

\* What the lifecycle counts as in vain after a step was wasted before it, and
\* hence is paid for.
LEMMA WastePaidFor ==
    ASSUME RefinesInv, Lifecycle!InVain' \subseteq Wasted
    PROVE  Lifecycle!PaidFor
<1>1. IsFiniteSet(Wasted) /\ Cardinality(Wasted) <= faults /\ faults \in Nat
    BY DEF RefinesInv, ClaimInv, QueueTypes, WasteInv
<1>2. Cardinality(Lifecycle!InVain') <= faults
    BY <1>1, SubsetCounts
<1>3. Lifecycle!Cardinality(Lifecycle!InVain') = Cardinality(Lifecycle!InVain')
    BY SameCardinality
<1>4. QED
    BY <1>2, <1>3 DEF Lifecycle!PaidFor

LEMMA InitRefines == Init => Lifecycle!Init
BY DEF Init, Lifecycle!Init, Absent

LEMMA StepRefines == RefinesInv /\ [Next]_vars => [Lifecycle!Next]_(Lifecycle!vars)
<1> SUFFICES ASSUME RefinesInv, [Next]_vars PROVE Lifecycle!Next
    OBVIOUS
<1> USE JobQueueAssumption
<1>a. ClaimInv /\ EffectInv /\ OutputsInv /\ WasteInv /\ StoringIsCode
    BY DEF RefinesInv
<1>b. ASSUME UNCHANGED <<jobs, accepted, codeExecutions>> PROVE Lifecycle!Next
    BY <1>b, HiddenStep DEF StatusOf, AttemptOf
<1>c. \A j \in Job : StatusOf[j] = jobs[j].status /\ AttemptOf[j] = jobs[j].attempt
    BY DEF StatusOf, AttemptOf
<1>1. ASSUME NEW j \in Job, CreateJob(j) PROVE Lifecycle!Next
  <2>1. /\ jobs[j].status = "absent"
        /\ jobs' \in [Job -> Row]
        /\ jobs'[j].status = "pending" /\ jobs'[j].attempt = jobs[j].attempt
        /\ \A k \in Job : k # j => jobs'[k] = jobs[k]
        /\ UNCHANGED <<accepted, codeExecutions>>
    BY <1>a, <1>1 DEF CreateJob, ClaimInv, QueueTypes, Row, Status
  <2>2. AttemptOf' = AttemptOf /\ StatusOf' = [StatusOf EXCEPT ![j] = "pending"]
    BY <1>a, <2>1, OneRow DEF AttemptOf
  <2>3. Lifecycle!Submit(j)
    BY <1>c, <2>1, <2>2 DEF Lifecycle!Submit, StatusOf, AttemptOf
  <2>4. QED
    BY <2>3, LifecycleStep
<1>2. ASSUME NEW w \in Worker, CommitClaim(w) \/ LoseClaim(w) PROVE Lifecycle!Next
  <2>1. /\ held[w] \in Job /\ jobs[held[w]].status = "pending"
        /\ UNCHANGED <<accepted, codeExecutions>>
    BY <1>a, <1>2, HeldIsJob DEF CommitClaim, LoseClaim, ClaimInv, LockedIsPending
  <2>2. CASE UNCHANGED jobs
    BY <1>b, <2>1, <2>2
  <2>3. CASE SetRunning(held[w])
    <3>1. /\ StatusOf' = [StatusOf EXCEPT ![held[w]] = "running"]
          /\ AttemptOf' = [AttemptOf EXCEPT ![held[w]] = jobs[held[w]].attempt + 1]
        BY <1>a, <2>1, <2>3, SetRunningEffect, OneRow
    <3>2. PICK j \in Job : j = held[w]
        BY <2>1
    <3>3. Lifecycle!Start(j)
        BY <1>c, <2>1, <3>1, <3>2 DEF Lifecycle!Start, StatusOf, AttemptOf
    <3>4. QED
        BY <3>3, LifecycleStep
  <2>4. QED
    BY <1>2, <2>2, <2>3 DEF CommitClaim, LoseClaim
<1>3. ASSUME NEW w \in Worker, NEW reply \in ProviderReply, CallProvider(w, reply)
      PROVE  Lifecycle!Next
  <2>1. held[w] \in Job /\ pc[w] = "executing" /\ UNCHANGED <<jobs, codeExecutions>>
    BY <1>a, <1>3, HeldIsJob DEF CallProvider
  <2>2. /\ jobs[held[w]].status = "running"
        /\ accepted[held[w]] < jobs[held[w]].attempt
        /\ accepted \in [Job -> Nat]
    BY <1>a, <2>1
    DEF ClaimInv, OwnerSeesCurrentRow, Owns, EffectInv, EffectTypes, AcceptedPerStart
  <2>3. CASE reply = "refused"
    BY <1>3, <1>b, <2>1, <2>3 DEF CallProvider
  <2>4. CASE reply # "refused"
    <3>1. accepted' = [accepted EXCEPT ![held[w]] = @ + 1]
        BY <1>3, <2>4 DEF CallProvider
    <3>2. PICK j \in Job : j = held[w]
        BY <2>1
    <3>3. Lifecycle!InVain' \subseteq Wasted
        BY <2>1, <2>2, <3>1, <3>2 DEF Lifecycle!InVain, Wasted, WrittenOff
    <3>4. Lifecycle!PaidFor
        BY <3>3, WastePaidFor
    <3>5. Lifecycle!Accept(j)
        BY <1>c, <2>1, <2>2, <3>1, <3>2, <3>4 DEF Lifecycle!Accept, StatusOf, AttemptOf
    <3>6. QED
        BY <3>5, LifecycleStep
  <2>5. QED
    BY <2>3, <2>4
<1>4. ASSUME NEW w \in Worker, InsertCodeExecution(w) PROVE Lifecycle!Next
  <2>1. held[w] \in Job /\ pc[w] = "storing" /\ UNCHANGED <<jobs, accepted>>
    BY <1>a, <1>4, HeldIsJob DEF InsertCodeExecution
  <2>2. /\ jobs[held[w]].status = "running" /\ jobs[held[w]].attempt = heldAttempt[w]
        /\ Cardinality(codeExecutions[held[w]]) < accepted[held[w]]
        /\ JobType[held[w]] = "code.execute"
    BY <1>a, <2>1 DEF ClaimInv, OwnerSeesCurrentRow, Owns, OutputsInv, StoringIsCode
  <2>3. CASE UNCHANGED codeExecutions
    BY <1>b, <2>1, <2>3
  <2>4. CASE Insert(w)
    <3>1. PICK j \in Job : j = held[w]
        BY <2>1
    <3>2. Lifecycle!Store(j)
        BY <1>c, <2>1, <2>2, <2>4, <3>1, SameCardinality
        DEF Insert, Lifecycle!Store, StatusOf, AttemptOf
    <3>3. QED
        BY <3>2, LifecycleStep
  <2>5. QED
    BY <1>4, <2>3, <2>4 DEF InsertCodeExecution
<1>5. ASSUME NEW w \in Worker, MarkCompleted(w) \/ MarkRetry(w) \/ MarkFailed(w)
      PROVE  Lifecycle!Next
  <2>1. /\ held[w] \in Job
        /\ jobs[held[w]].status = "running" /\ jobs[held[w]].attempt = heldAttempt[w]
        /\ pc[w] = "succeeded" =>
             /\ accepted[held[w]] > 0
             /\ JobType[held[w]] = "code.execute"
                    => jobs[held[w]].attempt \in codeExecutions[held[w]]
    BY <1>a, <1>5, HeldIsJob
    DEF MarkCompleted, MarkRetry, MarkFailed, ClaimInv, OwnerSeesCurrentRow, Owns,
        EffectInv, HeardMeansAccepted
  <2>2. PICK new \in Row :
          /\ UpdateJobStatus(w, new)
          /\ \/ pc[w] = "succeeded" /\ new.status = "completed"
             \/ pc[w] = "failed" /\ heldAttempt[w] < MaxAttempts /\ new.status = "pending"
             \/ pc[w] = "failed" /\ heldAttempt[w] = MaxAttempts /\ new.status = "failed"
    BY <1>a, <1>5, OutcomeWritten
  <2>3. /\ jobs' \in [Job -> Row]
        /\ jobs'[held[w]].status = new.status
        /\ jobs'[held[w]].attempt = jobs[held[w]].attempt
        /\ \A k \in Job : k # held[w] => jobs'[k] = jobs[k]
        /\ UNCHANGED <<accepted, codeExecutions>>
    BY <1>a, <2>1, <2>2, UpdateJobStatusEffect DEF Row, UpdateJobStatus
  <2>4. /\ StatusOf' = [StatusOf EXCEPT ![held[w]] = new.status]
        /\ AttemptOf' = AttemptOf
    <3>1. \A k \in Job : jobs'[k].attempt = jobs[k].attempt
        BY <2>3
    <3>2. AttemptOf' = AttemptOf
        BY <3>1 DEF AttemptOf
    <3>3. QED
        BY <1>a, <2>1, <2>3, <3>2, OneRow
  <2>5. PICK j \in Job : j = held[w]
    BY <2>1
  <2>6. pc[w] = "failed" => Lifecycle!PaidFor
    <3>1. ASSUME pc[w] = "failed" PROVE Lifecycle!InVain' \subseteq Wasted
        BY <2>3, <3>1 DEF Lifecycle!InVain, Wasted, WrittenOff
    <3>2. QED
        BY <3>1, WastePaidFor
  <2>7. Lifecycle!Complete(j) \/ Lifecycle!Retry(j) \/ Lifecycle!Fail(j)
    BY <1>c, <2>1, <2>2, <2>3, <2>4, <2>5, <2>6
    DEF Lifecycle!Complete, Lifecycle!Retry, Lifecycle!Fail, StatusOf, AttemptOf
  <2>8. QED
    BY <2>7, LifecycleStep
<1>6. CASE Tick
  <2>1. UNCHANGED <<StatusOf, AttemptOf, accepted, codeExecutions>>
    BY <1>a, <1>6 DEF Tick, StatusOf, AttemptOf, ClaimInv, QueueTypes, Row
  <2>2. QED
    BY <2>1, HiddenStep
<1>7. QED
    BY <1>1, <1>2, <1>3, <1>4, <1>5, <1>6, <1>b
    DEF Next, processNext, PollEmpty, SendEmail, SendSMS, ExecuteCode, LockNext,
        emailExecutor, smsExecutor, codeExecutor, LoseUpdate, Crash, vars

\* The queue implements the lifecycle a client of the API relies on, for every
\* number of jobs, goroutines, processes, attempts and faults.
THEOREM Refinement == Spec => ImplementsLifecycle
<1>1. Init => StoringIsCode
    BY DEF Init, StoringIsCode
<1>2. Spec => []RefinesInv
    BY <1>1, NextStoringIsCode, Invariance, OutputsCounted, WasteCounted, PTL
    DEF RefinesInv, Spec
<1>3. QED
    BY <1>2, InitRefines, StepRefines, PTL
    DEF Spec, ImplementsLifecycle, Lifecycle!Spec
=============================================================================
