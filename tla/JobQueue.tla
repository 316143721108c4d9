------------------------------ MODULE JobQueue ------------------------------
(***************************************************************************)
(* The asynchronous half of tusker: API handlers insert rows into the      *)
(* `jobs` table, and the goroutines of internal/worker/worker.go claim     *)
(* them, call a mail, SMS or code-execution provider, and write the        *)
(* outcome back.  The workers share nothing but the database, belong to    *)
(* operating-system processes that may die at any moment, and take their   *)
(* clock from a different machine than the database does.                  *)
(***************************************************************************)
EXTENDS Integers, FiniteSets

CONSTANTS
    Job,            \* rows the API may create (bounds the length of a run)
    Worker,         \* polling goroutines, over all processes
    Process,        \* operating-system processes that run goroutines
    ProcessOf,      \* the process of each goroutine
    JobType,        \* jobs.job_type of each row
    MaxAttempts,    \* jobs.max_attempts: 3 unless the column is changed
    Drift,          \* bound, in units of 10 s: worker clock against database clock
    Horizon,        \* bound: overdue times are not told apart beyond it
    MaxFaults,      \* bound: faults (lost replies, crashes) of one behaviour
    NoJob           \* the value of `job` in a goroutine that has none

ASSUME JobQueueAssumption ==
    /\ ProcessOf \in [Worker -> Process]
    /\ JobType \in [Job -> {"email.send", "sms.send", "code.execute"}]
    /\ MaxAttempts \in Nat \ {0}
    /\ Drift \in Nat /\ Horizon \in Nat /\ MaxFaults \in Nat
    /\ NoJob \notin Job

\* int64(1)<<uint(attempt) is an exponential that never overflows: a
\* time.Duration, an int64 of nanoseconds, holds 922337203 units of 10 s.
ASSUME BackoffAssumption ==
    \A a \in 1 .. MaxAttempts : 2 ^ a \in Nat /\ 2 ^ a <= 922337203

VARIABLES
    jobs,           \* the table `jobs`, one record per row
    codeExecutions, \* the table `code_executions`: attempts of a job with a stored output
    pc,             \* where each goroutine is in processNext
    held,           \* the row each goroutine has locked or claimed
    heldAttempt,    \* the attempt column in the goroutine's copy of its row
    accepted,       \* how often a provider accepted the effect of each job
    rested,         \* units of 10 s a pending row has waited since its last change (history)
    faults          \* faults so far

vars == <<jobs, codeExecutions, pc, held, heldAttempt, accepted, rested, faults>>
-----------------------------------------------------------------------------
(***************************************************************************)
(* A row.  `due` is run_at minus the database's NOW(), in units of 10 s,   *)
(* and is kept only while the row is pending: nothing reads run_at in any  *)
(* other status.  `error` and `completedAt` say whether the column is set. *)
(***************************************************************************)
Status == {"absent", "pending", "running", "completed", "failed"}
Terminal == {"completed", "failed"}
Row == [status : Status, attempt : 0 .. MaxAttempts, due : Int,
        error : BOOLEAN, completedAt : BOOLEAN]

Absent == [status |-> "absent", attempt |-> 0, due |-> 0,
           error |-> FALSE, completedAt |-> FALSE]

Init ==
    /\ jobs = [j \in Job |-> Absent]
    /\ codeExecutions = [j \in Job |-> {}]
    /\ pc = [w \in Worker |-> "idle"]
    /\ held = [w \in Worker |-> NoJob]
    /\ heldAttempt = [w \in Worker |-> 0]
    /\ accepted = [j \in Job |-> 0]
    /\ rested = [j \in Job |-> 0]
    /\ faults = 0

Fault == faults < MaxFaults /\ faults' = faults + 1
-----------------------------------------------------------------------------
(***************************************************************************)
(* The API side: each handler inserts one row with the column defaults.    *)
(***************************************************************************)
\* Mutant: a finished job can be queued again under its old id.
CreateJobAgain(j) ==
    /\ jobs[j].status \notin {"pending", "running"}
    /\ jobs' = [jobs EXCEPT ![j] = [Absent EXCEPT !.status = "pending"]]
    /\ UNCHANGED <<codeExecutions, pc, held, heldAttempt, accepted, rested, faults>>

CreateJob(j) ==
    /\ jobs[j].status = "absent"
    /\ jobs' = [jobs EXCEPT ![j].status = "pending"]
    /\ UNCHANGED <<codeExecutions, pc, held, heldAttempt, accepted, rested, faults>>

SendEmail(j) == JobType[j] = "email.send" /\ CreateJob(j)
SendSMS(j) == JobType[j] = "sms.send" /\ CreateJob(j)
ExecuteCode(j) == JobType[j] = "code.execute" /\ CreateJob(j)
-----------------------------------------------------------------------------
(***************************************************************************)
(* ClaimNextJob: SELECT ... FOR UPDATE SKIP LOCKED picks and locks a row,  *)
(* the UPDATE around it becomes visible when the statement commits.        *)
(***************************************************************************)
Due(j) == jobs[j].status = "pending" /\ jobs[j].due <= 0
Locked(j) == \E w \in Worker : pc[w] = "claiming" /\ held[w] = j

\* Mutant: plain SELECT, without FOR UPDATE SKIP LOCKED.
ClaimableUnlocked(j) == Due(j)

Claimable(j) == Due(j) /\ ~Locked(j)

\* pgx.ErrNoRows: nothing to do until the next tick of the 500 ms ticker.
PollEmpty(w) ==
    /\ pc[w] = "idle"
    /\ \A j \in Job : ~Claimable(j)
    /\ UNCHANGED vars

\* ORDER BY run_at ASC LIMIT 1.
LockNext(w) ==
    /\ pc[w] = "idle"
    /\ \E j \in Job :
        /\ Claimable(j)
        /\ \A k \in Job : Claimable(k) => jobs[j].due <= jobs[k].due
        /\ held' = [held EXCEPT ![w] = j]
    /\ pc' = [pc EXCEPT ![w] = "claiming"]
    /\ UNCHANGED <<jobs, codeExecutions, heldAttempt, accepted, rested, faults>>

\* Mutant: the attempt is not counted.
SetRunningUncounted(j) ==
    /\ jobs' = [jobs EXCEPT ![j].status = "running", ![j].due = 0]
    /\ rested' = [rested EXCEPT ![j] = 0]

\* SET status = 'running', attempt = attempt + 1.
SetRunning(j) ==
    /\ jobs' = [jobs EXCEPT ![j].status = "running", ![j].attempt = @ + 1, ![j].due = 0]
    /\ rested' = [rested EXCEPT ![j] = 0]

\* processNext returns: the goroutine's copy of the row is gone.
Return(w) ==
    /\ pc' = [pc EXCEPT ![w] = "idle"]
    /\ held' = [held EXCEPT ![w] = NoJob]
    /\ heldAttempt' = [heldAttempt EXCEPT ![w] = 0]

\* Mutant: the goroutine's copy is the row as selected, not as RETURNED.
CommitClaimOldCopy(w) ==
    /\ pc[w] = "claiming"
    /\ SetRunning(held[w])
    /\ heldAttempt' = [heldAttempt EXCEPT ![w] = jobs[held[w]].attempt]
    /\ pc' = [pc EXCEPT ![w] = "executing"]
    /\ UNCHANGED <<codeExecutions, held, accepted, faults>>

CommitClaim(w) ==
    /\ pc[w] = "claiming"
    /\ SetRunning(held[w])
    /\ heldAttempt' = [heldAttempt EXCEPT ![w] = jobs[held[w]].attempt + 1]
    /\ pc' = [pc EXCEPT ![w] = "executing"]
    /\ UNCHANGED <<codeExecutions, held, accepted, faults>>

\* ClaimNextJob fails for another reason: the goroutine only logs it, whether
\* the statement was rolled back or committed with its reply lost.
LoseClaim(w) ==
    /\ pc[w] = "claiming"
    /\ Fault
    /\ SetRunning(held[w]) \/ UNCHANGED <<jobs, rested>>
    /\ Return(w)
    /\ UNCHANGED <<codeExecutions, accepted>>
-----------------------------------------------------------------------------
(***************************************************************************)
(* ExecuteJob.  A provider refuses the request, accepts it, or accepts it  *)
(* without the worker hearing so (connection closed, reply not decodable). *)
(* A request that fails before the provider is reached (tenant not found,  *)
(* bad payload, provider not configured) has the effect of a refusal.      *)
(***************************************************************************)
ProviderReply == {"refused", "accepted", "unheard"}

CallProvider(w, reply) ==
    /\ pc[w] = "executing"
    /\ accepted' = IF reply = "refused" THEN accepted
                   ELSE [accepted EXCEPT ![held[w]] = @ + 1]
    /\ IF reply = "unheard" THEN Fault ELSE UNCHANGED faults
    /\ UNCHANGED <<jobs, codeExecutions, held, heldAttempt, rested>>

\* Send, of SMTP and of SendGrid, returns nil exactly when the provider's
\* acceptance was heard; the output of a program still has to be stored.
AfterEmail(reply) == IF reply = "accepted" THEN "succeeded" ELSE "failed"

\* Mutant: an acceptance other than 200 OK is taken for an error.
AfterSMSStrict(reply) == "failed"

AfterSMS(reply) == IF reply = "accepted" THEN "succeeded" ELSE "failed"

\* Mutant: the output of an asynchronous execution is dropped.
AfterRunNoStore(reply) == IF reply = "accepted" THEN "succeeded" ELSE "failed"

AfterRun(reply) == IF reply = "accepted" THEN "storing" ELSE "failed"

emailExecutor(w) ==
    \E reply \in ProviderReply :
        /\ CallProvider(w, reply)
        /\ JobType[held[w]] = "email.send"
        /\ pc' = [pc EXCEPT ![w] = AfterEmail(reply)]

smsExecutor(w) ==
    \E reply \in ProviderReply :
        /\ CallProvider(w, reply)
        /\ JobType[held[w]] = "sms.send"
        /\ pc' = [pc EXCEPT ![w] = AfterSMS(reply)]

codeExecutor(w) ==
    \E reply \in ProviderReply :
        /\ CallProvider(w, reply)
        /\ JobType[held[w]] = "code.execute"
        /\ pc' = [pc EXCEPT ![w] = AfterRun(reply)]

Insert(w) ==
    codeExecutions' = [codeExecutions EXCEPT ![held[w]] = @ \union {heldAttempt[w]}]

\* InsertCodeExecution: its error, which may hide a row that was inserted,
\* is the error of the job.
InsertCodeExecution(w) ==
    /\ pc[w] = "storing"
    /\ \/ /\ Insert(w)
          /\ pc' = [pc EXCEPT ![w] = "succeeded"]
          /\ UNCHANGED faults
       \/ /\ Insert(w) \/ UNCHANGED codeExecutions
          /\ pc' = [pc EXCEPT ![w] = "failed"]
          /\ Fault
    /\ UNCHANGED <<jobs, held, heldAttempt, accepted, rested>>
-----------------------------------------------------------------------------
(***************************************************************************)
(* The rest of processNext: one UpdateJobStatus ... WHERE id = $1, written *)
(* from the goroutine's copy of the row, then back to the ticker.          *)
(***************************************************************************)
\* Mutant: the backoff grows linearly.
BackoffLinear(attempt) == attempt

Backoff(attempt) == 2 ^ attempt

\* Mutant: the update writes the attempt column as well, with its default.
UpdateJobStatusResetsAttempt(w, new) ==
    /\ jobs' = [jobs EXCEPT ![held[w]] = new]
    /\ Return(w)
    /\ UNCHANGED <<codeExecutions, accepted, rested, faults>>

UpdateJobStatus(w, new) ==
    /\ jobs' = [jobs EXCEPT ![held[w]] = [new EXCEPT !.attempt = jobs[held[w]].attempt]]
    /\ Return(w)
    /\ UNCHANGED <<codeExecutions, accepted, rested, faults>>

\* Mutant: a status no reader of the TEXT column knows.
MarkDone(w) ==
    /\ pc[w] = "succeeded"
    /\ UpdateJobStatus(w, [Absent EXCEPT !.status = "done", !.completedAt = TRUE])

MarkCompleted(w) ==
    /\ pc[w] = "succeeded"
    /\ UpdateJobStatus(w, [Absent EXCEPT !.status = "completed", !.completedAt = TRUE])

\* Mutant: job.Attempt <= job.MaxAttempts.
MarkRetryOneMore(w) ==
    /\ pc[w] = "failed"
    /\ heldAttempt[w] <= MaxAttempts
    /\ \E d \in -Drift .. Drift :
        UpdateJobStatus(w, [Absent EXCEPT !.status = "pending", !.error = TRUE,
                                          !.due = Backoff(heldAttempt[w]) + d])

\* runAt is the worker's clock plus the backoff; d is how far that clock, less
\* the time the UPDATE took, is ahead of the database's.
MarkRetry(w) ==
    /\ pc[w] = "failed"
    /\ heldAttempt[w] < MaxAttempts
    /\ \E d \in -Drift .. Drift :
        UpdateJobStatus(w, [Absent EXCEPT !.status = "pending", !.error = TRUE,
                                          !.due = Backoff(heldAttempt[w]) + d])

\* Mutant: the last failure is only logged.
MarkFailedLogOnly(w) ==
    /\ pc[w] = "failed"
    /\ ~(heldAttempt[w] < MaxAttempts)
    /\ Return(w)
    /\ UNCHANGED <<jobs, codeExecutions, accepted, rested, faults>>

MarkFailed(w) ==
    /\ pc[w] = "failed"
    /\ ~(heldAttempt[w] < MaxAttempts)
    /\ UpdateJobStatus(w, [Absent EXCEPT !.status = "failed", !.error = TRUE])

\* UpdateJobStatus fails: the error is logged and the row stays as it is.
\* (When only its reply is lost, the effect is that of the actions above.)
LoseUpdate(w) ==
    /\ pc[w] \in {"succeeded", "failed"}
    /\ Fault
    /\ Return(w)
    /\ UNCHANGED <<jobs, codeExecutions, accepted, rested>>
-----------------------------------------------------------------------------
(***************************************************************************)
(* A process dies (crash, deploy, container restart) and is started again: *)
(* its goroutines forget their jobs, open statements roll back, rows stay. *)
(***************************************************************************)
Crash(p) ==
    /\ Fault
    /\ \E w \in Worker : ProcessOf[w] = p /\ pc[w] # "idle"
    /\ pc' = [w \in Worker |-> IF ProcessOf[w] = p THEN "idle" ELSE pc[w]]
    /\ held' = [w \in Worker |-> IF ProcessOf[w] = p THEN NoJob ELSE held[w]]
    /\ heldAttempt' = [w \in Worker |-> IF ProcessOf[w] = p THEN 0 ELSE heldAttempt[w]]
    /\ UNCHANGED <<jobs, codeExecutions, accepted, rested>>

\* Ten seconds of database time pass.
Tick ==
    /\ jobs' = [j \in Job |->
                  IF jobs[j].status = "pending" /\ jobs[j].due > -Horizon
                  THEN [jobs[j] EXCEPT !.due = @ - 1] ELSE jobs[j]]
    /\ rested' = [j \in Job |->
                  IF jobs[j].status = "pending" /\ jobs[j].due > -Horizon
                  THEN rested[j] + 1 ELSE rested[j]]
    /\ UNCHANGED <<codeExecutions, pc, held, heldAttempt, accepted, faults>>
-----------------------------------------------------------------------------
processNext(w) ==
    \/ PollEmpty(w) \/ LockNext(w) \/ CommitClaim(w) \/ LoseClaim(w)
    \/ emailExecutor(w) \/ smsExecutor(w) \/ codeExecutor(w) \/ InsertCodeExecution(w)
    \/ MarkCompleted(w) \/ MarkRetry(w) \/ MarkFailed(w) \/ LoseUpdate(w)

Next ==
    \/ \E j \in Job : SendEmail(j) \/ SendSMS(j) \/ ExecuteCode(j)
    \/ \E w \in Worker : processNext(w)
    \/ \E p \in Process : Crash(p)
    \/ Tick

Spec == Init /\ [][Next]_vars

(***************************************************************************)
(* Fairness.  The Go scheduler and the 500 ms ticker keep every goroutine  *)
(* going, the database answers, Judge0's client gives up after 30 s, and   *)
(* time passes.  net/smtp and http.DefaultClient have no timeout, so       *)
(* nothing says that a mail or SMS call ever returns.                      *)
(***************************************************************************)
Progress(w) ==
    \/ LockNext(w) \/ CommitClaim(w) \/ codeExecutor(w) \/ InsertCodeExecution(w)
    \/ MarkCompleted(w) \/ MarkRetry(w) \/ MarkFailed(w)

FairSpec == Spec /\ WF_vars(Tick) /\ \A w \in Worker : WF_vars(Progress(w))
-----------------------------------------------------------------------------
(***************************************************************************)
(* Type invariant.                                                         *)
(***************************************************************************)
PC == {"idle", "claiming", "executing", "storing", "succeeded", "failed"}

\* Every variable stays in its type; the attempt counter never leaves
\* 0..max_attempts, whatever the interleaving of claims and retries.
TypeOK ==
    /\ jobs \in [Job -> Row]
    /\ codeExecutions \in [Job -> SUBSET (1 .. MaxAttempts)]
    /\ pc \in [Worker -> PC]
    /\ held \in [Worker -> Job \union {NoJob}]
    /\ heldAttempt \in [Worker -> 0 .. MaxAttempts]
    /\ accepted \in [Job -> 0 .. MaxAttempts]
    /\ rested \in [Job -> Nat]
    /\ faults \in 0 .. MaxFaults

(***************************************************************************)
(* Safety.                                                                 *)
(***************************************************************************)
Owns(w, j) == held[w] = j /\ pc[w] \notin {"idle", "claiming"}
Stranded(j) == jobs[j].status = "running" /\ \A w \in Worker : ~Owns(w, j)

\* FOR UPDATE SKIP LOCKED: no two goroutines, of one process or of several,
\* ever lock or execute the same job at the same time.
OneWorkerPerJob ==
    \A v, w \in Worker : v # w /\ held[v] = held[w] => held[v] = NoJob

\* UpdateJobStatus writes by id alone, from a copy of the row read before the
\* provider was called: when it does, the row is still as it was copied.
OwnerSeesCurrentRow ==
    \A w \in Worker, j \in Job :
        Owns(w, j) => jobs[j].status = "running" /\ jobs[j].attempt = heldAttempt[w]

\* What GET /jobs/:id shows fits together: a job waits only while it has
\* attempts left, is failed only when it has used them all, and its error and
\* completed_at columns agree with its status.
PollCoherent ==
    \A j \in Job :
        LET r == jobs[j] IN
        /\ r.status = "pending" => r.attempt < MaxAttempts
        /\ r.status \in {"absent", "pending"} => r.error = (r.attempt > 0)
        /\ r.status = "failed" => r.attempt = MaxAttempts /\ r.error
        /\ r.completedAt = (r.status = "completed")
        /\ r.status = "completed" => ~r.error

\* A job reported completed was accepted by its provider, and a completed
\* code.execute job has the output of its last attempt stored.
CompletedMeansDone ==
    \A j \in Job :
        jobs[j].status = "completed" =>
            /\ accepted[j] > 0
            /\ JobType[j] = "code.execute" => jobs[j].attempt \in codeExecutions[j]

\* Acceptances that another acceptance of the same job followed.
Repeated == {a \in Job \X (1 .. MaxAttempts) : a[2] < accepted[a[1]]}

\* Delivery is exactly once unless something goes wrong: over all jobs together
\* there are no more repetitions than faults, though a crash may hit several jobs
\* at once, and no job has more outputs stored than acceptances.
DuplicatesNeedFaults ==
    /\ IsFiniteSet(Repeated) /\ Cardinality(Repeated) <= faults
    /\ \A j \in Job : Cardinality(codeExecutions[j]) <= accepted[j]

\* A job is left running with no goroutine working on it only after a crash
\* or a lost database call.
StrandedOnlyByFault == faults = 0 => \A j \in Job : ~Stranded(j)

(***************************************************************************)
(* Action properties.                                                      *)
(***************************************************************************)
\* The row of a completed or failed job never changes again: no late
\* goroutine reopens it or changes the outcome a client has already polled.
TerminalIsFinal ==
    [][\A j \in Job : jobs[j].status \in Terminal => jobs'[j] = jobs[j]]_vars

\* A retry starts no earlier than its exponential backoff, up to the drift
\* between the worker's clock, which sets run_at, and the database's, which
\* compares it.
BackoffHonoured ==
    [][\A j \in Job :
        /\ jobs[j].status = "pending" /\ jobs[j].attempt > 0
        /\ jobs'[j].status = "running"
        => rested[j] + Drift >= 2 ^ jobs[j].attempt]_vars

(***************************************************************************)
(* Refinement: hiding workers, locks and clocks, the queue behaves as      *)
(* JobLifecycle says.                                                      *)
(***************************************************************************)
Lifecycle == INSTANCE JobLifecycle WITH
    Codes <- {j \in Job : JobType[j] = "code.execute"},
    status <- [j \in Job |-> jobs[j].status],
    attempt <- [j \in Job |-> jobs[j].attempt],
    outputs <- codeExecutions

\* Every step the workers take on a job is one the client-visible lifecycle
\* allows: the provider accepts at most once per start, a job is retried or
\* given up after an acceptance only if a fault hid it, and is completed only
\* with its effect accepted and its output stored.
ImplementsLifecycle == Lifecycle!Spec

(***************************************************************************)
(* Liveness.                                                               *)
(***************************************************************************)
Queued(j) == jobs[j].status # "absent"
Finished(j) == jobs[j].status \in Terminal

\* A queued code.execute job ends completed or failed: "polling GET /jobs/:id
\* to completion" terminates.
CodeJobsFinish ==
    \A j \in Job : JobType[j] = "code.execute" => (Queued(j) ~> Finished(j))

\* Every goroutine is in a mail or SMS call.
Exhausted == \A w \in Worker : pc[w] = "executing" /\ JobType[held[w]] # "code.execute"

\* Whatever fails, a queued code.execute job ends completed, failed or
\* stranded: it is never passed over, nor retried without end, and as long as
\* the mail and SMS calls do not take every goroutine for good, some of them
\* may hang.
CodeJobsSettle ==
    \A j \in Job : JobType[j] = "code.execute" =>
        \/ Queued(j) ~> (Finished(j) \/ Stranded(j))
        \/ <>[]Exhausted

\* "the stored output of a completed code.execute job": when a job has ended
\* and has a stored output, it ended completed.
ResultOnlyOfCompletedJob ==
    \A j \in Job :
        Finished(j) /\ codeExecutions[j] # {} => jobs[j].status = "completed"
=============================================================================
