-------------------------- MODULE ClientsOverQueue --------------------------
(***************************************************************************)
(* The callers of the job API over the queue as it is: the application,    *)
(* SDK and handlers of JobClients in front of the rows, goroutines, locks, *)
(* clocks and crashes of JobQueue.  They share the rows and nothing else:  *)
(* a handler inserts one or reads one.  JobClients is written over what    *)
(* JobLifecycle says of the queue; here it is proved of the queue itself.  *)
(***************************************************************************)
EXTENDS JobQueueRefinement

CONSTANTS
    Message, Program, Call, Nothing,    \* as in JobClients
    MaxLosses                           \* bound: calls that fail on their way

VARIABLES
    payload, direct, calls, known, sent, told, fetched,     \* as in JobClients
    losses                              \* calls that failed on their way so far

callVars == <<payload, direct, calls, known, sent, told, fetched, losses>>
systemVars == <<vars, callVars>>

Codes == {j \in Job : JobType[j] = "code.execute"}

\* The callers see two columns of each row and the outputs.  A process that
\* dies with goroutines and handlers in it is a Crash and one loss for each of
\* its calls.
Clients == INSTANCE JobClientsProofs WITH
    status <- [j \in Job |-> jobs[j].status],
    attempt <- [j \in Job |-> jobs[j].attempt],
    outputs <- codeExecutions

\* What is assumed of the constants, besides JobQueue's own assumptions.
SystemAssumption ==
    /\ Program \subseteq Message
    /\ Nothing \notin Message /\ Nothing \notin Job
    /\ MaxLosses \in Nat
-----------------------------------------------------------------------------
SystemInit == Init /\ Clients!Init

\* The application, the SDK, or a handler that writes no row.
CallStep(k) ==
    /\ UNCHANGED vars
    /\ \/ \E m \in Message, op \in Clients!Sends : Clients!Send(k, m, op)
       \/ \E j \in Job, op \in Clients!Reads : Clients!Read(k, j, op)
       \/ Clients!Enqueue(k) \/ Clients!Deliver(k)
       \/ Clients!GetJob(k) \/ Clients!GetCodeExecution(k)
       \/ Clients!Return(k) \/ Clients!Abandon(k) \/ Clients!Drop(k)

\* The handler of a queued send inserts its row.
SubmitStep(k) ==
    /\ \E j \in Job : SendEmail(j) \/ SendSMS(j) \/ ExecuteCode(j)
    /\ Clients!Enqueue(k)

\* A goroutine, a crash, or time.
QueueStep ==
    /\ \/ \E w \in Worker : processNext(w)
       \/ \E p \in Process : Crash(p)
       \/ Tick
    /\ UNCHANGED callVars

SystemNext == QueueStep \/ \E k \in Call : CallStep(k) \/ SubmitStep(k)

SystemSpec == SystemInit /\ [][SystemNext]_systemVars

\* The application meets nothing but the queue JobClients has in mind.
ImplementsClients == Clients!Spec

\* What the application is told stays true, deliveries beyond the first of each
\* message are paid for, outputs are there to fetch, and rows nobody can ask
\* about are no more than the lost calls.
PromisesKept ==
    /\ Clients!ToldIsTrue /\ Clients!DuplicatesArePaidFor
    /\ Clients!OutputIsThere /\ Clients!LostJobsNeedFaults
-----------------------------------------------------------------------------
(***************************************************************************)
(* The queue, whoever calls, is the queue.                                 *)
(***************************************************************************)
LEMMA SystemStepsQueue == [SystemNext]_systemVars => [Next]_vars
BY DEF SystemNext, CallStep, SubmitStep, QueueStep, Next, systemVars

\* Nothing the callers do is outside of what JobQueue allows: every theorem
\* about the queue holds in the composition.
THEOREM QueueComposed == SystemSpec => Spec
<1>1. SystemInit => Init
    BY DEF SystemInit
<1>2. QED
    BY <1>1, SystemStepsQueue, PTL DEF SystemSpec, Spec

LEMMA QueueInvariant == SystemSpec => []RefinesInv
<1>1. Init => StoringIsCode
    BY DEF Init, StoringIsCode
<1>2. QED
    BY <1>1, NextStoringIsCode, Invariance, OutputsCounted, WasteCounted, QueueComposed, PTL
    DEF RefinesInv, Spec
-----------------------------------------------------------------------------
(***************************************************************************)
(* Every step of the goroutines is one JobClients expects of its Workers.  *)
(***************************************************************************)
\* Only a handler makes a row appear.
LEMMA RowsAppearBySubmit ==
    ASSUME ClaimInv, QueueStep, NEW j \in Job, jobs[j].status = "absent"
    PROVE  jobs'[j].status = "absent"
<1> USE JobQueueAssumption
<1>1. ASSUME NEW w \in Worker, CommitClaim(w) \/ LoseClaim(w)
      PROVE  jobs'[j].status = "absent"
  <2>1. held[w] \in Job /\ jobs[held[w]].status = "pending"
    BY <1>1, HeldIsJob DEF CommitClaim, LoseClaim, ClaimInv, LockedIsPending
  <2>2. QED
    BY <1>1, <2>1, SetRunningEffect DEF CommitClaim, LoseClaim
<1>2. ASSUME NEW w \in Worker, MarkCompleted(w) \/ MarkRetry(w) \/ MarkFailed(w)
      PROVE  jobs'[j].status = "absent"
  <2>1. held[w] \in Job /\ jobs[held[w]].status = "running"
    BY <1>2, HeldIsJob
    DEF MarkCompleted, MarkRetry, MarkFailed, ClaimInv, OwnerSeesCurrentRow, Owns
  <2>2. PICK new \in Row : UpdateJobStatus(w, new)
    BY <1>2, OutcomeWritten
  <2>3. QED
    BY <2>1, <2>2, UpdateJobStatusEffect
<1>3. CASE Tick
    BY <1>3 DEF Tick, ClaimInv, QueueTypes, Row
<1>4. QED
    BY <1>1, <1>2, <1>3
    DEF QueueStep, processNext, PollEmpty, LockNext, emailExecutor, smsExecutor, codeExecutor,
        CallProvider, InsertCodeExecution, LoseUpdate, Crash, vars

LEMMA SubmitMakesRow ==
    ASSUME NEW j \in Job, Lifecycle!Submit(j), jobs[j].status = "absent" => jobs'[j].status = "absent"
    PROVE  FALSE
BY DEF Lifecycle!Submit

\* JobLifecycle says the same of the rows as the queue's callers see them.
LEMMA WorkOfClients ==
    ASSUME NEW j \in Job, Lifecycle!Work(j) PROVE Clients!Queue!Work(j)
BY DEF Lifecycle!Work, Lifecycle!Start, Lifecycle!Accept, Lifecycle!Store, Lifecycle!Complete,
       Lifecycle!Retry, Lifecycle!Fail, Clients!Queue!Work, Clients!Queue!Start,
       Clients!Queue!Accept, Clients!Queue!Store, Clients!Queue!Complete, Clients!Queue!Retry,
       Clients!Queue!Fail, Lifecycle!PaidFor, Clients!Queue!PaidFor, Lifecycle!InVain,
       Clients!Queue!InVain, Lifecycle!Cardinality, Clients!Queue!Cardinality, Codes

LEMMA QueueStepIsWork ==
    ASSUME RefinesInv, QueueStep PROVE Clients!Workers
<1>1. faults \in Nat /\ MaxFaults \in Nat
    BY JobQueueAssumption DEF RefinesInv, ClaimInv, QueueTypes
<1>2. [Next]_vars /\ ClaimInv
    BY DEF RefinesInv, QueueStep, Next
<1>3. UNCHANGED <<StatusOf, AttemptOf, accepted, codeExecutions>> \/ \E j \in Job : Lifecycle!Work(j)
  <2>1. \A j \in Job : ~Lifecycle!Submit(j)
    BY <1>2, RowsAppearBySubmit DEF Lifecycle!Submit
  <2>2. QED
    BY <1>2, <2>1, StepRefines
    DEF Lifecycle!Next, Lifecycle!Step, Lifecycle!vars, Lifecycle!queueVars, StatusOf, AttemptOf
<1>4. UNCHANGED Clients!queue \/ \E j \in Job : Clients!Queue!Work(j)
    BY <1>3, WorkOfClients DEF Clients!queue, StatusOf, AttemptOf
<1>5. UNCHANGED faults \/ (faults < MaxFaults /\ faults' = faults + 1)
  <2>1. faults' \in {faults, faults + 1} /\ faults' <= MaxFaults
    BY <1>1, <1>2, OneFaultAtMost, NextClaimInv DEF ClaimInv, QueueTypes
  <2>2. QED
    BY <1>1, <2>1
<1>6. UNCHANGED <<losses, payload, direct, calls, Clients!application>>
    BY DEF QueueStep, callVars, Clients!application
<1>7. QED
    BY <1>4, <1>5, <1>6 DEF Clients!Workers

LEMMA NextClients ==
    RefinesInv /\ [SystemNext]_systemVars => [Clients!Next]_(Clients!vars)
<1> SUFFICES ASSUME RefinesInv, [SystemNext]_systemVars
             PROVE  [Clients!Next]_(Clients!vars)
    OBVIOUS
<1>1. CASE QueueStep
    BY <1>1, QueueStepIsWork DEF Clients!Next
<1>2. ASSUME NEW k \in Call, CallStep(k) \/ SubmitStep(k) PROVE Clients!Next
    BY <1>2 DEF CallStep, SubmitStep, Clients!Next
<1>3. CASE UNCHANGED systemVars
    BY <1>3
    DEF systemVars, vars, callVars, Clients!vars, Clients!queue, Clients!application
<1>4. QED
    BY <1>1, <1>2, <1>3 DEF SystemNext

\* What JobClients says of an application, over a queue that is only promised
\* to follow JobLifecycle, is so over the goroutines, locks, clocks, crashes
\* and lost replies of JobQueue.
THEOREM ClientsComposed == SystemSpec => ImplementsClients
<1>1. SystemInit => Clients!Init
    BY DEF SystemInit
<1>2. QED
    BY <1>1, NextClients, QueueInvariant, PTL
    DEF SystemSpec, ImplementsClients, Clients!Spec

\* The promises of JobClients hold of the whole of application, handlers,
\* table and workers, whatever the interleaving of calls, goroutines, crashes
\* and lost replies.
THEOREM PromisesComposed == SystemAssumption /\ SystemSpec => []PromisesKept
<1> DEFINE Told == Clients!Spec => []Clients!ToldIsTrue
           Once == Clients!Spec => []Clients!DuplicatesArePaidFor
           Output == Clients!Spec => []Clients!OutputIsThere
           NoneLost == Clients!Spec => []Clients!LostJobsNeedFaults
<1>1. SystemAssumption => Told /\ Once /\ Output /\ NoneLost
    BY JobQueueAssumption, Clients!AnswersStayTrue, Clients!DuplicatesPaidForInFull,
       Clients!OutputReadable, Clients!LostJobsArePaidFor
    DEF SystemAssumption, Codes
<1>2. QED
    BY <1>1, ClientsComposed, PTL DEF ImplementsClients, PromisesKept
=============================================================================
