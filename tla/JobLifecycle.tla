---------------------------- MODULE JobLifecycle ----------------------------
(***************************************************************************)
(* What the job queue promises the caller of POST /.../send and of         *)
(* GET /jobs/:id, with no workers, locks, clocks or crashes in sight: a    *)
(* job is pending, is started, has its side effect accepted by the         *)
(* provider at most once per start, and ends completed or failed.  Nothing *)
(* is accepted, stored or given up a second time unless a fault paid for   *)
(* it.  JobQueue implements this specification; JobClients is built on it. *)
(***************************************************************************)
EXTENDS Naturals, FiniteSets

CONSTANTS
    Job,            \* the jobs the API may ever be asked to queue
    Codes,          \* those of type code.execute, whose output is stored
    MaxAttempts     \* jobs.max_attempts

VARIABLES
    status,         \* what GET /jobs/:id reports; "absent" before the POST
    attempt,        \* number of times the job was started
    accepted,       \* number of times the provider accepted the side effect
    outputs,        \* attempts of the job with a stored output
    faults          \* faults so far: crashes, lost replies, failed statements

queueVars == <<status, attempt, accepted, outputs>>
vars == <<status, attempt, accepted, outputs, faults>>

Status == {"absent", "pending", "running", "completed", "failed"}
Terminal == {"completed", "failed"}

Init ==
    /\ status = [j \in Job |-> "absent"]
    /\ attempt = [j \in Job |-> 0]
    /\ accepted = [j \in Job |-> 0]
    /\ outputs = [j \in Job |-> {}]
    /\ faults = 0

Submit(j) ==
    /\ status[j] = "absent"
    /\ status' = [status EXCEPT ![j] = "pending"]
    /\ UNCHANGED <<attempt, accepted, outputs>>

Start(j) ==
    /\ status[j] = "pending"
    /\ status' = [status EXCEPT ![j] = "running"]
    /\ attempt' = [attempt EXCEPT ![j] = @ + 1]
    /\ UNCHANGED <<accepted, outputs>>

\* Acceptances that another one followed, or that did not keep the job from
\* being retried or given up.
InVain ==
    {a \in Job \X (1 .. MaxAttempts) :
        \/ a[2] < accepted[a[1]]
        \/ a[2] = accepted[a[1]] /\ status[a[1]] \in {"pending", "failed"}}

\* Each of them, of whatever job, has a fault of its own to blame.
PaidFor == Cardinality(InVain)' <= faults

\* The provider accepts the message or runs the program, at most once per start.
Accept(j) ==
    /\ status[j] = "running"
    /\ accepted[j] < attempt[j]
    /\ accepted' = [accepted EXCEPT ![j] = @ + 1]
    /\ UNCHANGED <<status, attempt, outputs>>
    /\ PaidFor

\* The output of an accepted program is stored with the attempt it came from.
Store(j) ==
    /\ j \in Codes
    /\ status[j] = "running"
    /\ Cardinality(outputs[j]) < accepted[j]
    /\ outputs' = [outputs EXCEPT ![j] = @ \union {attempt[j]}]
    /\ UNCHANGED <<status, attempt, accepted>>

\* Mutant: the job completes without its output.
CompleteUnstored(j) ==
    /\ status[j] = "running"
    /\ accepted[j] > 0
    /\ status' = [status EXCEPT ![j] = "completed"]
    /\ UNCHANGED <<attempt, accepted, outputs>>

Complete(j) ==
    /\ status[j] = "running"
    /\ accepted[j] > 0
    /\ j \in Codes => attempt[j] \in outputs[j]
    /\ status' = [status EXCEPT ![j] = "completed"]
    /\ UNCHANGED <<attempt, accepted, outputs>>

Retry(j) ==
    /\ status[j] = "running"
    /\ attempt[j] < MaxAttempts
    /\ status' = [status EXCEPT ![j] = "pending"]
    /\ UNCHANGED <<attempt, accepted, outputs>>
    /\ PaidFor

Fail(j) ==
    /\ status[j] = "running"
    /\ attempt[j] = MaxAttempts
    /\ status' = [status EXCEPT ![j] = "failed"]
    /\ UNCHANGED <<attempt, accepted, outputs>>
    /\ PaidFor

\* What the workers do to a job once it is queued.
Work(j) ==
    \/ Start(j) \/ Accept(j) \/ Store(j)
    \/ Complete(j) \/ Retry(j) \/ Fail(j)

Step(j) == Submit(j) \/ Work(j)

\* A step may be struck by a fault, or be nothing but a fault.
Next ==
    /\ faults' \in {faults, faults + 1}
    /\ UNCHANGED queueVars \/ \E j \in Job : Step(j)

Spec == Init /\ [][Next]_vars
=============================================================================
