----------------------------- MODULE JobClients -----------------------------
(***************************************************************************)
(* The callers of the job API: an application sends messages (emails, SMS  *)
(* and programs) through the Go SDK, queued or with ?sync=true, polls      *)
(* GET /jobs/:id, and fetches the output of its programs.  A call can be   *)
(* lost at every point of its way.  The queue and its workers are what     *)
(* JobLifecycle says of them, which JobQueue implements.                   *)
(***************************************************************************)
EXTENDS Naturals, FiniteSets

CONSTANTS
    Message,        \* what the application wants done, once each
    Program,        \* the messages that are programs to run
    Job,            \* ids of rows in `jobs` (bounds the number of queued sends)
    Codes,          \* the ids rows of type code.execute get
    Call,           \* calls the application can have open at a time
    MaxAttempts,    \* jobs.max_attempts
    MaxFaults,      \* bound: faults of the queue
    MaxLosses,      \* bound: calls that fail on their way
    Nothing         \* the value of a field that is not set

ASSUME JobClientsAssumption ==
    /\ Program \subseteq Message
    /\ Codes \subseteq Job
    /\ MaxAttempts \in Nat \ {0}
    /\ MaxFaults \in Nat /\ MaxLosses \in Nat
    /\ Nothing \notin Message /\ Nothing \notin Job

VARIABLES
    status, attempt, accepted, outputs, faults,     \* as in JobLifecycle
    losses,         \* calls that failed on their way so far
    payload,        \* jobs.payload: the message of each row
    direct,         \* times a provider accepted each message from ?sync=true
    calls,          \* HTTP calls under way, from the SDK's Do to its return
    known,          \* job ids the application was given for each message
    sent,           \* messages a synchronous call was answered "sent" for
    told,           \* final statuses GET /jobs/:id reported for each job
    fetched         \* attempts whose output was fetched; 0 stands for a 404

queue == <<status, attempt, accepted, outputs>>
application == <<known, sent, told, fetched>>
vars == <<queue, faults, losses, payload, direct, calls, application>>

Queue == INSTANCE JobLifecycle

Terminal == {"completed", "failed"}
-----------------------------------------------------------------------------
(***************************************************************************)
(* A call is open while its handler may act on it and its caller waits,    *)
(* answered when the reply is on its way back, and orphaned when the       *)
(* caller is gone but the handler may still act.                           *)
(***************************************************************************)
Sends == {"send", "sync"}
Reads == {"status", "output"}
StatusCode == {200, 202, 404, 500}

FreeCall == [stage |-> "free", op |-> "send", msg |-> Nothing, job |-> Nothing,
             code |-> 500, status |-> "absent", output |-> 0]

Init ==
    /\ Queue!Init
    /\ losses = 0
    /\ payload = [j \in Job |-> Nothing]
    /\ direct = [m \in Message |-> 0]
    /\ calls = [k \in Call |-> FreeCall]
    /\ known = [m \in Message |-> {}]
    /\ sent = {}
    /\ told = [j \in Job |-> {}]
    /\ fetched = [j \in Job |-> {}]

Lose == losses < MaxLosses /\ losses' = losses + 1

Acting(k, op) == calls[k].stage \in {"open", "orphaned"} /\ calls[k].op = op
Waited(k, m) == calls[k].stage \in {"open", "answered"} /\ calls[k].op \in Sends
                /\ calls[k].msg = m

\* c.JSON: the reply of a handler, which nobody reads when the caller is gone.
Answer(k, reply) ==
    calls' = [calls EXCEPT ![k] = IF @.stage = "open" THEN reply ELSE FreeCall]

Replied(k, code) == [calls[k] EXCEPT !.stage = "answered", !.code = code]
-----------------------------------------------------------------------------
(***************************************************************************)
(* The application.  It wants each message done once: it sends one again   *)
(* only when nothing it knows of can still deliver it.                     *)
(***************************************************************************)
Submittable(m) ==
    /\ m \notin sent
    /\ \A j \in known[m] : "failed" \in told[j]
    /\ \A k \in Call : ~Waited(k, m)

Send(k, m, op) ==
    /\ calls[k].stage = "free"
    /\ Submittable(m)
    /\ calls' = [calls EXCEPT ![k] = [FreeCall EXCEPT !.stage = "open", !.op = op, !.msg = m]]
    /\ UNCHANGED <<queue, faults, losses, payload, direct, application>>

\* JobsService.Get, and the fetch of the output of a completed program.
Read(k, j, op) ==
    /\ calls[k].stage = "free"
    /\ \E m \in Message : j \in known[m]
    /\ op = "output" => j \in Codes /\ "completed" \in told[j]
    /\ calls' = [calls EXCEPT ![k] = [FreeCall EXCEPT !.stage = "open", !.op = op, !.job = j]]
    /\ UNCHANGED <<queue, faults, losses, payload, direct, application>>

\* The caller's context expires, its connection breaks, it crashes, or the API
\* process does: the reply is lost, whatever the handler did or will do.
Abandon(k) ==
    /\ calls[k].stage \in {"open", "answered"}
    /\ Lose
    /\ calls' = [calls EXCEPT ![k] = IF @.stage = "open" THEN [@ EXCEPT !.stage = "orphaned"]
                                     ELSE FreeCall]
    /\ UNCHANGED <<queue, faults, payload, direct, application>>

\* The handler of an orphaned call never gets to act.
Drop(k) ==
    /\ calls[k].stage = "orphaned"
    /\ calls' = [calls EXCEPT ![k] = FreeCall]
    /\ UNCHANGED <<queue, faults, losses, payload, direct, application>>
-----------------------------------------------------------------------------
(***************************************************************************)
(* The handlers.                                                           *)
(***************************************************************************)
\* Mutant: 202 without the id of the row.
QueuedNameless(k, j) == Replied(k, 202)

Queued(k, j) == [Replied(k, 202) EXCEPT !.job = j]

\* SendEmail, SendSMS, ExecuteCode without ?sync=true: 202 with the id of the
\* new row, or 500 although the INSERT may have committed.
Enqueue(k) ==
    /\ Acting(k, "send")
    /\ \/ \E j \in Job :
            /\ Queue!Submit(j)
            /\ j \in Codes <=> calls[k].msg \in Program
            /\ payload' = [payload EXCEPT ![j] = calls[k].msg]
            /\ \/ Answer(k, Queued(k, j)) /\ UNCHANGED losses
               \/ Answer(k, Replied(k, 500)) /\ Lose
       \/ /\ Answer(k, Replied(k, 500)) /\ Lose
          /\ UNCHANGED <<queue, payload>>
    /\ UNCHANGED <<faults, direct, application>>

\* Mutant: the error of Send is dropped.
SentCodeAlways(reply) == 200

\* 502 "failed to send email", also when the provider accepted unheard; every
\* other status stands for all that mean failure to the SDK.
SentCode(reply) == IF reply = "accepted" THEN 200 ELSE 500

\* ... with ?sync=true: the provider is called before the reply.
Deliver(k) ==
    /\ Acting(k, "sync")
    /\ \E reply \in {"refused", "accepted", "unheard"} :
        /\ direct' = IF reply = "refused" THEN direct
                     ELSE [direct EXCEPT ![calls[k].msg] = @ + 1]
        /\ IF reply = "unheard" THEN Lose ELSE UNCHANGED losses
        /\ Answer(k, Replied(k, SentCode(reply)))
    /\ UNCHANGED <<queue, faults, payload, application>>

SelectJob(j) == status[j]

\* GetJob: any error of the query is a 404.
GetJob(k) ==
    /\ Acting(k, "status")
    /\ \/ Answer(k, [Replied(k, 200) EXCEPT !.status = SelectJob(calls[k].job)])
          /\ UNCHANGED losses
       \/ Answer(k, Replied(k, 404)) /\ Lose
    /\ UNCHANGED <<queue, faults, payload, direct, application>>

\* The rows a SELECT without ORDER BY may answer first; only that one is read.
SelectCodeExecution(j) == outputs[j]

GetCodeExecution(k) ==
    /\ Acting(k, "output")
    /\ \/ \E a \in SelectCodeExecution(calls[k].job) :
            Answer(k, [Replied(k, 200) EXCEPT !.output = a]) /\ UNCHANGED losses
       \/ /\ Answer(k, Replied(k, 404))
          /\ IF SelectCodeExecution(calls[k].job) = {} THEN UNCHANGED losses ELSE Lose
    /\ UNCHANGED <<queue, faults, payload, direct, application>>
-----------------------------------------------------------------------------
(***************************************************************************)
(* The SDK's return: the decoded reply, or an error for any other status.  *)
(***************************************************************************)
\* Mutant: only 200 is a success.
ExpectedOnly200(op) == {200}

Expected(op) == IF op \in Sends THEN {202, 200} ELSE {200}

\* Mutant: every response to a send is taken to carry a job id.
JobIDAlways(c) == {c.job}

\* job_id,omitempty: a synchronous send has none.
JobID(c) == IF c.code = 202 THEN {c.job} ELSE {}

Return(k) ==
    LET c == calls[k]
        good == c.code \in Expected(c.op)
    IN  /\ c.stage = "answered"
        /\ known' = IF good /\ c.op \in Sends
                    THEN [known EXCEPT ![c.msg] = @ \union JobID(c)] ELSE known
        /\ sent' = IF good /\ c.op = "sync" THEN sent \union {c.msg} ELSE sent
        /\ told' = IF good /\ c.op = "status"
                   THEN [told EXCEPT ![c.job] = @ \union ({c.status} \intersect Terminal)]
                   ELSE told
        /\ fetched' = IF c.op = "output"
                      THEN [fetched EXCEPT ![c.job] = @ \union {c.output}] ELSE fetched
        /\ calls' = [calls EXCEPT ![k] = FreeCall]
        /\ UNCHANGED <<queue, faults, losses, payload, direct>>
-----------------------------------------------------------------------------
\* The workers, and what befalls them.
Workers ==
    /\ UNCHANGED queue \/ \E j \in Job : Queue!Work(j)
    /\ UNCHANGED faults \/ (faults < MaxFaults /\ faults' = faults + 1)
    /\ UNCHANGED <<losses, payload, direct, calls, application>>

Next ==
    \/ \E k \in Call :
        \/ \E m \in Message, op \in Sends : Send(k, m, op)
        \/ \E j \in Job, op \in Reads : Read(k, j, op)
        \/ Enqueue(k) \/ Deliver(k) \/ GetJob(k) \/ GetCodeExecution(k)
        \/ Return(k) \/ Abandon(k) \/ Drop(k)
    \/ Workers

Spec == Init /\ [][Next]_vars
-----------------------------------------------------------------------------
CallType ==
    [stage : {"free", "open", "answered", "orphaned"}, op : Sends \union Reads,
     msg : Message \union {Nothing}, job : Job \union {Nothing}, code : StatusCode,
     status : Queue!Status, output : 0 .. MaxAttempts]

\* Every variable stays in its type; a reply never gives the application an id
\* that is not a row's.
TypeOK ==
    /\ status \in [Job -> Queue!Status]
    /\ attempt \in [Job -> 0 .. MaxAttempts]
    /\ accepted \in [Job -> Nat]
    /\ outputs \in [Job -> SUBSET (1 .. MaxAttempts)]
    /\ faults \in 0 .. MaxFaults
    /\ losses \in 0 .. MaxLosses
    /\ payload \in [Job -> Message \union {Nothing}]
    /\ direct \in [Message -> Nat]
    /\ calls \in [Call -> CallType]
    /\ known \in [Message -> SUBSET Job]
    /\ sent \subseteq Message
    /\ told \in [Job -> SUBSET Terminal]
    /\ fetched \in [Job -> SUBSET (0 .. MaxAttempts)]

\* What an application has been told of a send stays true whatever happens
\* later: "sent" and "completed" mean that a provider accepted the message the
\* application handed over under that id, and "failed" is never taken back.
ToldIsTrue ==
    /\ \A m \in sent : direct[m] > 0
    /\ \A j \in Job, m \in Message :
        "completed" \in told[j] /\ j \in known[m] =>
            status[j] = "completed" /\ accepted[j] > 0 /\ payload[j] = m
    /\ \A j \in Job : "failed" \in told[j] => status[j] = "failed"

\* What the providers accepted, from the queue and from ?sync=true.
QueuedDeliveries == UNION {{j} \X (1 .. accepted[j]) : j \in Job}
DirectDeliveries == UNION {{m} \X (1 .. direct[m]) : m \in Message}
Delivered == {m \in Message : direct[m] > 0 \/ \E j \in Job : payload[j] = m /\ accepted[j] > 0}

\* An application that sends again whatever fails delivers messages twice only
\* as often as something failed: over queue, retries, synchronous sends and
\* resubmissions of all messages together, there are no more deliveries beyond
\* the first of each than faults of the queue and lost calls.
DuplicatesArePaidFor ==
    Cardinality(QueuedDeliveries) + Cardinality(DirectDeliveries)
        <= Cardinality(Delivered) + faults + losses

\* Once GET /jobs/:id has reported "completed", the output is there to fetch,
\* and it is that of the attempt that completed the job unless there was a fault;
\* it is not found only by a call that was lost.
OutputIsThere ==
    \A j \in Job : fetched[j] # {} =>
        /\ attempt[j] \in outputs[j]
        /\ fetched[j] \subseteq outputs[j] \union {0}
        /\ faults = 0 => fetched[j] \subseteq {attempt[j], 0}
        /\ losses = 0 => 0 \notin fetched[j]

\* A row no caller will ever ask about again, because its id never reached the
\* application, is left behind only by a lost call, one row per call.
Answered(j) == \E k \in Call : calls[k].stage = "answered" /\ calls[k].op = "send"
                               /\ calls[k].code = 202 /\ calls[k].job = j
Lost == {j \in Job : payload[j] # Nothing /\ ~Answered(j)
                     /\ \A m \in Message : j \notin known[m]}
LostJobsNeedFaults == Cardinality(Lost) <= losses
=============================================================================
