-------------------------- MODULE JobClientsProofs --------------------------
(***************************************************************************)
(* Proofs about JobClients, for any number of messages, rows, calls,       *)
(* attempts, faults and lost calls.                                        *)
(***************************************************************************)
EXTENDS JobClients, FiniteSetTheorems, TLAPS

USE DEF SelectJob, SelectCodeExecution

(***************************************************************************)
(* The rows: what JobLifecycle keeps of each job, and whose job it is.     *)
(***************************************************************************)
RowTypes ==
    /\ status \in [Job -> Queue!Status]
    /\ attempt \in [Job -> 0 .. MaxAttempts]
    /\ accepted \in [Job -> Nat]
    /\ outputs \in [Job -> SUBSET (1 .. MaxAttempts)]
    /\ faults \in 0 .. MaxFaults
    /\ losses \in 0 .. MaxLosses
    /\ payload \in [Job -> Message \union {Nothing}]

RowsCoherent ==
    \A j \in Job :
        /\ status[j] = "absent" =>
             attempt[j] = 0 /\ accepted[j] = 0 /\ outputs[j] = {} /\ payload[j] = Nothing
        /\ status[j] = "pending" => attempt[j] < MaxAttempts
        /\ status[j] = "running" => attempt[j] > 0
        /\ status[j] = "completed" =>
             accepted[j] > 0 /\ (j \in Codes => attempt[j] \in outputs[j])
        /\ status[j] # "absent" => payload[j] \in Message
        /\ accepted[j] <= attempt[j]

\* What the queue has a fault to blame for, of whatever job.
VainInv == IsFiniteSet(Queue!InVain) /\ Cardinality(Queue!InVain) <= faults

\* Without a fault a job has an output only if accepted, and of its last attempt.
RowsFaultless ==
    faults = 0 => \A j \in Job :
        /\ accepted[j] = 0 => outputs[j] = {}
        /\ outputs[j] \subseteq {attempt[j]}

RowInv == RowTypes /\ RowsCoherent /\ VainInv /\ RowsFaultless

\* What a step may add to the two counts.
Struck == UNCHANGED faults \/ (faults < MaxFaults /\ faults' = faults + 1)
MayLose == UNCHANGED losses \/ Lose

LEMMA CountsType ==
    ASSUME RowTypes, Struck, MayLose
    PROVE  /\ faults' \in 0 .. MaxFaults /\ faults \in Nat /\ faults' \in Nat
           /\ faults' >= faults
           /\ faults' = 0 => faults = 0 /\ UNCHANGED faults
           /\ losses' \in 0 .. MaxLosses /\ losses \in Nat /\ losses' \in Nat
           /\ losses' >= losses
           /\ losses' = 0 => losses = 0 /\ UNCHANGED losses
           /\ Lose => losses' = losses + 1
BY JobClientsAssumption DEF RowTypes, Struck, MayLose, Lose

\* A set and what a step may make of it.
LEMMA SubsetPaid ==
    ASSUME NEW S, IsFiniteSet(S), NEW T, T \subseteq S
    PROVE  /\ IsFiniteSet(T) /\ Cardinality(T) \in Nat /\ Cardinality(S) \in Nat
           /\ Cardinality(T) <= Cardinality(S)
BY FS_Subset, FS_CardinalityType

LEMMA OneMorePaid ==
    ASSUME NEW S, IsFiniteSet(S), NEW x, NEW T, T \subseteq S \union {x}
    PROVE  /\ IsFiniteSet(T) /\ Cardinality(T) \in Nat /\ Cardinality(S) \in Nat
           /\ Cardinality(T) <= Cardinality(S) + 1
<1>1. Cardinality(S) \in Nat
    BY FS_CardinalityType
<1>2. IsFiniteSet(S \union {x}) /\ Cardinality(S \union {x}) <= Cardinality(S) + 1
    BY <1>1, FS_AddElement
<1>3. IsFiniteSet(T) /\ Cardinality(T) \in Nat /\ Cardinality(S \union {x}) \in Nat
      /\ Cardinality(T) <= Cardinality(S \union {x})
    BY <1>2, SubsetPaid
<1>4. QED
    BY <1>1, <1>2, <1>3

LEMMA OneLessPaid ==
    ASSUME NEW S, IsFiniteSet(S), NEW x \in S, NEW T, T \subseteq S \ {x}
    PROVE  /\ IsFiniteSet(T) /\ Cardinality(T) \in Nat /\ Cardinality(S) \in Nat
           /\ Cardinality(T) + 1 <= Cardinality(S)
<1>1. /\ IsFiniteSet(S \ {x}) /\ Cardinality(S) \in Nat /\ Cardinality(S \ {x}) \in Nat
      /\ Cardinality(S \ {x}) = Cardinality(S) - 1
    BY FS_RemoveElement, FS_CardinalityType
<1>2. QED
    BY <1>1, SubsetPaid

\* The output of an accepted program is the first and only one, without a fault.
LEMMA StoresFirst ==
    ASSUME NEW j \in Job, outputs[j] \subseteq 1 .. MaxAttempts,
           accepted[j] \in Nat, Queue!Store(j)
    PROVE  accepted[j] > 0 /\ (accepted[j] <= 1 => outputs[j] = {})
<1>1. Queue!Cardinality(outputs[j]) = Cardinality(outputs[j])
    BY DEF Queue!Cardinality, Cardinality
<1>2. IsFiniteSet(outputs[j])
  <2>1. 1 \in Int /\ MaxAttempts \in Int
    BY JobClientsAssumption
  <2>2. IsFiniteSet(1 .. MaxAttempts)
    BY <2>1, FS_Interval
  <2>3. QED
    BY <2>2, FS_Subset
<1>3. Cardinality(outputs[j]) \in Nat /\ Cardinality(outputs[j]) < accepted[j]
    BY <1>1, <1>2, FS_CardinalityType DEF Queue!Store
<1>4. Cardinality(outputs[j]) = 0 => outputs[j] = {}
    BY <1>2, FS_EmptySet
<1>5. QED
    BY <1>3, <1>4

\* What a step of the workers does to the one row it is about.
LEMMA WorkEffect ==
    ASSUME RowTypes, RowsCoherent, NEW j \in Job, Queue!Work(j)
    PROVE  /\ status[j] \in {"pending", "running"} /\ status'[j] # "absent"
           /\ status' \in [Job -> Queue!Status]
           /\ attempt' \in [Job -> 0 .. MaxAttempts]
           /\ accepted' \in [Job -> Nat]
           /\ outputs' \in [Job -> SUBSET (1 .. MaxAttempts)]
           /\ \A i \in Job : i # j =>
                /\ status'[i] = status[i] /\ attempt'[i] = attempt[i]
                /\ accepted'[i] = accepted[i] /\ outputs'[i] = outputs[i]
<1> USE JobClientsAssumption DEF RowTypes, RowsCoherent, Queue!Status
<1>1. CASE Queue!Start(j)
    BY <1>1 DEF Queue!Start
<1>2. CASE Queue!Accept(j)
    BY <1>2 DEF Queue!Accept
<1>3. CASE Queue!Store(j)
  <2>1. attempt[j] \in 1 .. MaxAttempts
    BY <1>3 DEF Queue!Store
  <2>2. QED
    BY <1>3, <2>1 DEF Queue!Store
<1>4. CASE Queue!Complete(j) \/ Queue!Retry(j) \/ Queue!Fail(j)
    BY <1>4 DEF Queue!Complete, Queue!Retry, Queue!Fail
<1>5. QED
    BY <1>1, <1>2, <1>3, <1>4 DEF Queue!Work

\* An acceptance, a retry or a failure adds one acceptance in vain at most, and
\* is paid for; the other steps add none.
LEMMA WorkVain ==
    ASSUME RowInv, NEW j \in Job, Queue!Work(j), Struck, MayLose
    PROVE  VainInv'
<1>1. /\ RowTypes /\ IsFiniteSet(Queue!InVain) /\ Cardinality(Queue!InVain) <= faults
      /\ faults' >= faults /\ faults' \in Nat /\ faults \in Nat
    BY CountsType DEF RowInv, VainInv
<1>2. CASE Queue!Start(j) \/ Queue!Store(j) \/ Queue!Complete(j)
  <2>1. Queue!InVain' \subseteq Queue!InVain
    BY <1>1, <1>2
    DEF Queue!Start, Queue!Store, Queue!Complete, Queue!InVain, RowTypes
  <2>2. QED
    BY <1>1, <2>1, SubsetPaid DEF VainInv
<1>3. CASE Queue!Accept(j) \/ Queue!Retry(j) \/ Queue!Fail(j)
  <2>1. Queue!InVain' \subseteq Queue!InVain \union {<<j, accepted[j]>>}
    <3> SUFFICES ASSUME NEW a \in Job \X (1 .. MaxAttempts),
                        a \in Queue!InVain', a \notin Queue!InVain
                 PROVE  a = <<j, accepted[j]>>
      BY DEF Queue!InVain
    <3>1. a[1] \in Job /\ a[2] \in Nat /\ a = <<a[1], a[2]>> /\ accepted[j] \in Nat
      BY <1>1, JobClientsAssumption DEF RowTypes
    <3>2. a[1] = j /\ a[2] = accepted[j]
      BY <1>1, <1>3, <3>1
      DEF Queue!Accept, Queue!Retry, Queue!Fail, Queue!InVain, RowTypes
    <3>3. QED
      BY <3>1, <3>2
  <2>2. IsFiniteSet(Queue!InVain') /\ Cardinality(Queue!InVain') \in Nat
    BY <1>1, <2>1, OneMorePaid
  <2>3. Cardinality(Queue!InVain') <= faults
    BY <1>3
    DEF Queue!Accept, Queue!Retry, Queue!Fail, Queue!PaidFor, Queue!Cardinality, Cardinality
  <2>4. QED
    BY <1>1, <2>2, <2>3 DEF VainInv
<1>4. QED
    BY <1>2, <1>3 DEF Queue!Work

\* Without a fault nothing is accepted in vain.
LEMMA NothingInVain ==
    RowTypes /\ RowsCoherent /\ VainInv /\ faults = 0 =>
        \A j \in Job : /\ accepted[j] \in 0 .. 1
                       /\ accepted[j] > 0 => status[j] \in {"running", "completed"}
<1> SUFFICES ASSUME RowTypes, RowsCoherent, VainInv, faults = 0, NEW j \in Job
             PROVE  /\ accepted[j] \in 0 .. 1
                    /\ accepted[j] > 0 => status[j] \in {"running", "completed"}
    OBVIOUS
<1> USE JobClientsAssumption
<1>1. Queue!InVain = {}
    BY FS_CardinalityType, FS_EmptySet DEF VainInv
<1>2. <<j, 1>> \notin Queue!InVain
    BY <1>1
<1>3. /\ <<j, 1>> \in Job \X (1 .. MaxAttempts) /\ <<j, 1>>[1] = j /\ <<j, 1>>[2] = 1
      /\ accepted[j] \in Nat
    BY DEF RowTypes
<1>4. ~(1 < accepted[j]) /\ ~(1 = accepted[j] /\ status[j] \in {"pending", "failed"})
    BY <1>2, <1>3 DEF Queue!InVain
<1>5. QED
    BY <1>3, <1>4 DEF RowTypes, RowsCoherent, Queue!Status

LEMMA NothingInVainNext ==
    (RowTypes /\ RowsCoherent /\ VainInv /\ faults = 0)' =>
        (\A j \in Job : /\ accepted[j] \in 0 .. 1
                        /\ accepted[j] > 0 => status[j] \in {"running", "completed"})'
BY NothingInVain, PTL

LEMMA WorkRows ==
    ASSUME RowInv, NEW j \in Job, Queue!Work(j), Struck, UNCHANGED <<losses, payload>>
    PROVE  RowInv'
<1> USE JobClientsAssumption
<1>0. MayLose
    BY DEF MayLose
<1>1. RowTypes' /\ VainInv'
    BY <1>0, WorkEffect, WorkVain, CountsType DEF RowInv, RowTypes
<1>2. RowTypes /\ RowsCoherent /\ VainInv /\ RowsFaultless
    BY DEF RowInv
<1>3. RowsCoherent'
  <2>1. \A i \in Job : i # j =>
          /\ status'[i] = status[i] /\ attempt'[i] = attempt[i] /\ accepted'[i] = accepted[i]
          /\ outputs'[i] = outputs[i] /\ payload'[i] = payload[i]
    BY <1>2, WorkEffect
  <2>2. payload'[j] \in Message /\ status'[j] # "absent"
    BY <1>2, WorkEffect DEF RowsCoherent
  <2>3. /\ status'[j] = "pending" => attempt'[j] < MaxAttempts
        /\ status'[j] = "running" => attempt'[j] > 0
        /\ status'[j] = "completed" =>
             accepted'[j] > 0 /\ (j \in Codes => attempt'[j] \in outputs'[j])
        /\ accepted'[j] <= attempt'[j]
    BY <1>2 DEF RowTypes, RowsCoherent, Queue!Work, Queue!Start, Queue!Accept, Queue!Store,
           Queue!Complete, Queue!Retry, Queue!Fail
  <2>4. QED
    BY <1>2, <2>1, <2>2, <2>3 DEF RowsCoherent
<1>4. RowsFaultless'
  <2> SUFFICES ASSUME faults' = 0
               PROVE  \A i \in Job :
                        /\ accepted'[i] = 0 => outputs'[i] = {}
                        /\ outputs'[i] \subseteq {attempt'[i]}
    BY DEF RowsFaultless
  <2>1. faults = 0
    BY <1>0, <1>2, CountsType
  <2>2. /\ accepted[j] \in 0 .. 1
        /\ accepted[j] = 0 => outputs[j] = {}
        /\ accepted[j] > 0 => status[j] \in {"running", "completed"}
        /\ outputs[j] \subseteq {attempt[j]} /\ outputs[j] \subseteq 1 .. MaxAttempts
    BY <1>2, <2>1, NothingInVain DEF RowTypes, RowsFaultless
  <2>3. /\ accepted'[j] = 0 => outputs'[j] = {}
        /\ outputs'[j] \subseteq {attempt'[j]}
    <3>1. CASE Queue!Store(j)
      <4>1. accepted[j] > 0 /\ outputs[j] = {}
        BY <2>2, <3>1, StoresFirst
      <4>2. QED
        BY <1>2, <2>2, <3>1, <4>1 DEF Queue!Store, RowTypes
    <3>2. CASE Queue!Start(j)
      BY <1>2, <2>2, <3>2 DEF Queue!Start, RowTypes
    <3>3. CASE Queue!Accept(j)
      BY <1>2, <2>1, <2>2, <3>3 DEF Queue!Accept, RowTypes
    <3>4. CASE Queue!Complete(j) \/ Queue!Retry(j) \/ Queue!Fail(j)
      BY <1>2, <2>1, <2>2, <3>4 DEF Queue!Complete, Queue!Retry, Queue!Fail, RowTypes
    <3>5. QED
      BY <3>1, <3>2, <3>3, <3>4 DEF Queue!Work
  <2>4. QED
    BY <1>2, <2>1, <2>3, WorkEffect DEF RowsFaultless
<1>5. QED
    BY <1>1, <1>3, <1>4 DEF RowInv

(***************************************************************************)
(* What no step takes back: the end of a job, the message of a row, a      *)
(* delivery, a fault.                                                      *)
(***************************************************************************)
RowsKept ==
    /\ \A j \in Job : status[j] \in Terminal =>
         /\ status'[j] = status[j] /\ attempt'[j] = attempt[j]
         /\ accepted'[j] = accepted[j] /\ outputs'[j] = outputs[j]
    /\ \A j \in Job : payload[j] # Nothing => payload'[j] = payload[j]
    /\ \A m \in Message : direct[m] > 0 => direct'[m] > 0
    /\ faults' = 0 => faults = 0
    /\ losses' = 0 => losses = 0

AppTypes ==
    /\ direct \in [Message -> Nat]
    /\ calls \in [Call -> CallType]
    /\ known \in [Message -> SUBSET Job]
    /\ sent \subseteq Message
    /\ told \in [Job -> SUBSET Terminal]
    /\ fetched \in [Job -> SUBSET (0 .. MaxAttempts)]

LEMMA FreeCallType == FreeCall \in CallType /\ FreeCall.output = 0
BY JobClientsAssumption DEF FreeCall, CallType, Sends, Reads, StatusCode, Queue!Status

\* The reply to a call.
LEMMA RepliedType ==
    ASSUME calls \in [Call -> CallType], NEW k \in Call, NEW code \in StatusCode
    PROVE  /\ Replied(k, code) \in CallType
           /\ Replied(k, code).stage = "answered" /\ Replied(k, code).code = code
           /\ Replied(k, code).op = calls[k].op /\ Replied(k, code).msg = calls[k].msg
           /\ Replied(k, code).job = calls[k].job
           /\ Replied(k, code).output = calls[k].output
<1>1. PICK c \in CallType : c = calls[k]
    OBVIOUS
<1>2. LET r == [c EXCEPT !.stage = "answered", !.code = code]
      IN  /\ r \in CallType /\ r.stage = "answered" /\ r.code = code /\ r.op = c.op
          /\ r.msg = c.msg /\ r.job = c.job /\ r.output = c.output
    BY DEF CallType
<1>3. QED
    BY <1>1, <1>2 DEF Replied

LEMMA WithJob ==
    ASSUME NEW c \in CallType, NEW j \in Job
    PROVE  LET r == [c EXCEPT !.job = j]
           IN  /\ r \in CallType /\ r.job = j /\ r.stage = c.stage /\ r.op = c.op
               /\ r.msg = c.msg /\ r.code = c.code
BY DEF CallType

LEMMA WithStatus ==
    ASSUME NEW c \in CallType, NEW s \in Queue!Status
    PROVE  LET r == [c EXCEPT !.status = s]
           IN  /\ r \in CallType /\ r.status = s /\ r.stage = c.stage /\ r.op = c.op
               /\ r.job = c.job /\ r.code = c.code
BY DEF CallType

LEMMA WithOutput ==
    ASSUME NEW c \in CallType, NEW a \in 0 .. MaxAttempts
    PROVE  LET r == [c EXCEPT !.output = a]
           IN  /\ r \in CallType /\ r.output = a /\ r.stage = c.stage /\ r.op = c.op
               /\ r.job = c.job /\ r.code = c.code
BY DEF CallType

\* The reply of a handler, delivered or not.
LEMMA AnswerEffect ==
    ASSUME calls \in [Call -> CallType], NEW k \in Call, NEW reply \in CallType,
           Answer(k, reply)
    PROVE  /\ calls' \in [Call -> CallType]
           /\ calls'[k] = IF calls[k].stage = "open" THEN reply ELSE FreeCall
           /\ \A i \in Call : i # k => calls'[i] = calls[i]
BY FreeCallType DEF Answer

\* A row is inserted.
LEMMA SubmitRows ==
    ASSUME RowInv, NEW j \in Job, Queue!Submit(j), UNCHANGED faults, MayLose,
           NEW m \in Message, payload' = [payload EXCEPT ![j] = m]
    PROVE  /\ RowInv'
           /\ payload[j] = Nothing /\ status[j] = "absent"
           /\ payload'[j] = m /\ status'[j] = "pending"
           /\ \A i \in Job : i # j => payload'[i] = payload[i]
           /\ \A i \in Job : status[i] # "absent" => status'[i] = status[i]
           /\ UNCHANGED <<attempt, accepted, outputs>>
<1> USE JobClientsAssumption
<1>1. RowTypes /\ RowsCoherent /\ VainInv /\ RowsFaultless /\ Struck
    BY DEF RowInv, Struck
<1>2. /\ status[j] = "absent" /\ payload[j] = Nothing
      /\ attempt[j] = 0 /\ accepted[j] = 0 /\ outputs[j] = {}
    BY <1>1 DEF Queue!Submit, RowsCoherent
<1>3. /\ status'[j] = "pending" /\ payload'[j] = m
      /\ \A i \in Job : i # j => status'[i] = status[i] /\ payload'[i] = payload[i]
      /\ UNCHANGED <<attempt, accepted, outputs>>
    BY <1>1 DEF Queue!Submit, RowTypes
<1>4. RowTypes'
  <2>1. status' \in [Job -> Queue!Status]
    BY <1>1 DEF Queue!Submit, RowTypes, Queue!Status
  <2>2. QED
    BY <1>1, <1>3, <2>1, CountsType DEF RowTypes
<1>5. RowsCoherent'
    BY <1>1, <1>2, <1>3 DEF RowsCoherent
<1>6. RowsFaultless'
    BY <1>1, <1>2, <1>3 DEF RowsFaultless
<1>7. VainInv'
  <2>1. Queue!InVain' \subseteq Queue!InVain
    BY <1>1, <1>2, <1>3 DEF Queue!InVain
  <2>2. QED
    BY <1>1, <2>1, SubsetPaid DEF VainInv, RowTypes
<1>8. QED
    BY <1>2, <1>3, <1>4, <1>5, <1>6, <1>7 DEF RowInv

(***************************************************************************)
(* The calls: what a handler was asked, and what its reply says, is still  *)
(* true when the SDK returns it.                                           *)
(***************************************************************************)
SendCoherent(c) ==
    c.stage # "free" /\ c.op \in Sends =>
        /\ c.msg \in Message
        /\ c.stage = "answered" =>
            /\ c.code \in (IF c.op = "send" THEN {202, 500} ELSE {200, 500})
            /\ c.code = 202 => c.job \in Job /\ payload[c.job] = c.msg
            /\ c.code = 200 => direct[c.msg] > 0

ReadCoherent(c) ==
    c.stage # "free" /\ c.op \in Reads =>
        /\ c.job \in Job
        /\ c.op = "output" => status[c.job] = "completed" /\ c.job \in Codes
        /\ c.stage # "answered" => c.output = 0
        /\ c.stage = "answered" =>
            /\ c.code \in {200, 404}
            /\ c.op = "status" /\ c.code = 200 /\ c.status \in Terminal
                => status[c.job] = c.status
            /\ c.op = "output" => /\ c.output \in outputs[c.job] \union {0}
                                  /\ faults = 0 => c.output \in {attempt[c.job], 0}
                                  /\ losses = 0 => c.output # 0

CallsCoherent == \A k \in Call : SendCoherent(calls[k]) /\ ReadCoherent(calls[k])

AppCoherent ==
    /\ \A m \in Message : \A j \in known[m] : payload[j] = m
    /\ \A m \in sent : direct[m] > 0
    /\ \A j \in Job : \A s \in told[j] : status[j] = s
    /\ \A j \in Job : fetched[j] # {} =>
         /\ j \in Codes /\ status[j] = "completed"
         /\ fetched[j] \subseteq outputs[j] \union {0}
         /\ faults = 0 => fetched[j] \subseteq {attempt[j], 0}
         /\ losses = 0 => 0 \notin fetched[j]

Inv ==
    /\ RowInv
    /\ AppTypes
    /\ CallsCoherent
    /\ AppCoherent

\* Every step keeps the rows coherent and takes nothing back.
LEMMA NextRows == Inv /\ [Next]_vars => RowInv' /\ RowsKept
<1> SUFFICES ASSUME Inv, [Next]_vars PROVE RowInv' /\ RowsKept
    OBVIOUS
<1>0. RowInv /\ RowTypes /\ RowsCoherent /\ AppTypes
    BY DEF RowInv, Inv
<1>1. ASSUME UNCHANGED <<queue, payload>>, Struck, MayLose,
             \A m \in Message : direct[m] > 0 => direct'[m] > 0
      PROVE  RowInv' /\ RowsKept
  <2>1. RowTypes' /\ (faults' = 0 => faults = 0) /\ (losses' = 0 => losses = 0)
    BY <1>0, <1>1, CountsType DEF queue, RowTypes
  <2>2. RowsCoherent' /\ RowsFaultless'
    BY <1>0, <1>1, <2>1 DEF queue, RowInv, RowsCoherent, RowsFaultless
  <2>3. VainInv'
    <3>1. Queue!InVain' = Queue!InVain
      BY <1>1 DEF queue, Queue!InVain
    <3>2. QED
      BY <1>0, <1>1, <3>1, CountsType, FS_CardinalityType DEF RowInv, VainInv
  <2>4. QED
    BY <1>1, <2>1, <2>2, <2>3 DEF queue, RowInv, RowsKept
<1>2. ASSUME NEW k \in Call, Enqueue(k) PROVE RowInv' /\ RowsKept
  <2>1. CASE UNCHANGED <<queue, payload>>
    BY <1>1, <1>2, <2>1 DEF Enqueue, Struck, MayLose
  <2>2. ASSUME NEW j \in Job, Queue!Submit(j), payload' = [payload EXCEPT ![j] = calls[k].msg],
               UNCHANGED faults, MayLose
        PROVE  RowInv' /\ RowsKept
    <3>1. PICK m \in Message : m = calls[k].msg
      BY <1>2 DEF Enqueue, Acting, Inv, CallsCoherent, SendCoherent, Sends
    <3>2. RowInv' /\ payload[j] = Nothing /\ status[j] = "absent"
          /\ (\A i \in Job : i # j => payload'[i] = payload[i])
          /\ (\A i \in Job : status[i] # "absent" => status'[i] = status[i])
          /\ UNCHANGED <<attempt, accepted, outputs>>
      BY <1>0, <2>2, <3>1, SubmitRows
    <3>3. QED
      BY <1>0, <1>2, <2>2, <3>2, CountsType DEF Enqueue, Struck, RowsKept, Terminal
  <2>3. QED
    BY <1>2, <2>1, <2>2 DEF Enqueue, MayLose
<1>3. CASE Workers
  <2>1. CASE UNCHANGED queue
    BY <1>1, <1>3, <2>1 DEF Workers, Struck, MayLose
  <2>2. ASSUME NEW j \in Job, Queue!Work(j) PROVE RowInv' /\ RowsKept
    <3>1. RowInv'
      BY <1>0, <1>3, <2>2, WorkRows DEF Workers, Struck
    <3>2. RowsKept
      BY <1>0, <1>3, <2>2, WorkEffect, CountsType
      DEF Workers, RowsKept, Terminal, Struck, MayLose
    <3>3. QED
      BY <3>1, <3>2
  <2>3. QED
    BY <1>3, <2>1, <2>2 DEF Workers
<1>4. ASSUME NEW k \in Call, Deliver(k) PROVE RowInv' /\ RowsKept
  <2>1. calls[k].msg \in Message
    BY <1>4 DEF Deliver, Acting, Inv, CallsCoherent, SendCoherent, Sends
  <2>2. \A m \in Message : direct[m] > 0 => direct'[m] > 0
    BY <1>0, <1>4, <2>1 DEF Deliver, AppTypes
  <2>3. QED
    BY <1>1, <1>4, <2>2 DEF Deliver, Struck, MayLose
<1>5. QED
    BY <1>1, <1>2, <1>3, <1>4
    DEF Next, Send, Read, GetJob, GetCodeExecution, Return, Abandon, Drop, vars, queue,
        Struck, MayLose

\* A call stays coherent while it waits.
LEMMA WaitingCoherent ==
    ASSUME RowTypes, RowsKept, JobClientsAssumption, NEW c \in CallType,
           SendCoherent(c), ReadCoherent(c)
    PROVE  SendCoherent(c)' /\ ReadCoherent(c)'
<1>1. SendCoherent(c)'
    BY JobClientsAssumption DEF RowsKept, SendCoherent
<1>2. ReadCoherent(c)'
    BY DEF RowsKept, ReadCoherent, Terminal
<1>3. QED
    BY <1>1, <1>2

LEMMA OneCallMoves ==
    ASSUME Inv, RowsKept, NEW k \in Call, calls' \in [Call -> CallType],
           \A i \in Call : i # k => calls'[i] = calls[i],
           SendCoherent(calls[k])', ReadCoherent(calls[k])'
    PROVE  CallsCoherent'
<1> SUFFICES ASSUME NEW i \in Call PROVE SendCoherent(calls[i])' /\ ReadCoherent(calls[i])'
    BY DEF CallsCoherent
<1>1. CASE i = k
    BY <1>1
<1>2. CASE i # k
  <2>1. PICK c \in CallType : c = calls[i]
    BY DEF Inv, AppTypes
  <2>2. SendCoherent(c) /\ ReadCoherent(c)
    BY <2>1 DEF Inv, CallsCoherent
  <2>3. SendCoherent(c)' /\ ReadCoherent(c)'
    BY <2>2, WaitingCoherent, JobClientsAssumption DEF Inv, RowInv
  <2>4. calls'[i] = c
    BY <1>2, <2>1
  <2>5. QED
    BY <2>3, <2>4 DEF SendCoherent, ReadCoherent
<1>3. QED
    BY <1>1, <1>2

LEMMA AppKept == ASSUME Inv, RowsKept, UNCHANGED application PROVE AppCoherent'
<1>1. \A m \in Message : \A j \in known[m] : payload'[j] = m
    BY JobClientsAssumption DEF Inv, AppTypes, AppCoherent, RowsKept
<1>2. \A m \in sent : direct'[m] > 0
    BY DEF Inv, AppTypes, AppCoherent, RowsKept
<1>3. \A j \in Job : \A s \in told[j] : status'[j] = s
    BY DEF Inv, AppTypes, AppCoherent, RowsKept
<1>4. \A j \in Job : fetched[j] # {} =>
         /\ j \in Codes /\ status'[j] = "completed"
         /\ fetched[j] \subseteq outputs'[j] \union {0}
         /\ faults' = 0 => fetched[j] \subseteq {attempt'[j], 0}
         /\ losses' = 0 => 0 \notin fetched[j]
    BY DEF Inv, AppCoherent, RowsKept, Terminal
<1>5. QED
    BY <1>1, <1>2, <1>3, <1>4 DEF application, AppCoherent

\* Whatever a handler does, its reply answers the call it was asked.
Replies(k) ==
    \E r \in CallType : Answer(k, r) /\ r.stage = "answered" /\ r.op = calls[k].op
                        /\ r.msg = calls[k].msg

LEMMA HandlerReplies ==
    ASSUME Inv, NEW k \in Call, Enqueue(k) \/ Deliver(k) \/ GetJob(k) \/ GetCodeExecution(k)
    PROVE  Replies(k)
<1>0. /\ calls \in [Call -> CallType] /\ RowTypes /\ CallsCoherent
    BY DEF Inv, RowInv, AppTypes
<1>1. ASSUME NEW code \in StatusCode, Answer(k, Replied(k, code)) PROVE Replies(k)
    BY <1>0, <1>1, RepliedType DEF Replies
<1>2. PICK c \in CallType : /\ c = Replied(k, 200) /\ c.op = calls[k].op
                            /\ c.msg = calls[k].msg /\ c.stage = "answered"
    BY <1>0, RepliedType DEF StatusCode
<1>3. CASE Deliver(k)
    BY <1>1, <1>3 DEF Deliver, SentCode, StatusCode
<1>4. CASE Answer(k, Replied(k, 404)) \/ Answer(k, Replied(k, 500))
    BY <1>1, <1>4 DEF StatusCode
<1>5. ASSUME GetJob(k), Answer(k, [Replied(k, 200) EXCEPT !.status = status[calls[k].job]])
      PROVE  Replies(k)
  <2>1. PICK s \in Queue!Status : s = status[calls[k].job]
    BY <1>0, <1>5 DEF GetJob, Acting, CallsCoherent, ReadCoherent, Reads, RowTypes
  <2> DEFINE r == [c EXCEPT !.status = s]
  <2>2. r \in CallType /\ r.stage = "answered" /\ r.op = calls[k].op /\ r.msg = calls[k].msg
    BY <1>2 DEF CallType
  <2>3. Answer(k, r)
    BY <1>2, <1>5, <2>1, Zenon
  <2> HIDE DEF r
  <2>4. QED
    BY <2>2, <2>3 DEF Replies
<1>6. ASSUME GetCodeExecution(k), NEW a \in outputs[calls[k].job],
             Answer(k, [Replied(k, 200) EXCEPT !.output = a])
      PROVE  Replies(k)
  <2>1. a \in 0 .. MaxAttempts
    BY <1>0, <1>6, JobClientsAssumption
    DEF GetCodeExecution, Acting, CallsCoherent, ReadCoherent, Reads, RowTypes
  <2> DEFINE r == [c EXCEPT !.output = a]
  <2>2. r \in CallType /\ r.stage = "answered" /\ r.op = calls[k].op /\ r.msg = calls[k].msg
    BY <1>2, <2>1 DEF CallType
  <2>3. Answer(k, r)
    BY <1>2, <1>6, Zenon
  <2> HIDE DEF r
  <2>4. QED
    BY <2>2, <2>3 DEF Replies
<1>7. ASSUME NEW j \in Job, Answer(k, Queued(k, j)) PROVE Replies(k)
  <2>1. /\ Queued(k, j) \in CallType /\ Queued(k, j).stage = "answered"
        /\ Queued(k, j).op = calls[k].op /\ Queued(k, j).msg = calls[k].msg
    BY <1>0, RepliedType, WithJob DEF Queued, StatusCode
  <2>2. QED
    BY <1>7, <2>1 DEF Replies
<1>8. QED
    BY <1>3, <1>4, <1>5, <1>6, <1>7 DEF Enqueue, GetJob, GetCodeExecution

LEMMA NextCalls ==
    Inv /\ RowInv' /\ RowsKept /\ [Next]_vars => AppTypes' /\ CallsCoherent' /\ AppCoherent'
<1> SUFFICES ASSUME Inv, RowInv', RowsKept, [Next]_vars
             PROVE  AppTypes' /\ CallsCoherent' /\ AppCoherent'
    OBVIOUS
<1> DEFINE Goal == AppTypes' /\ CallsCoherent' /\ AppCoherent'
<1>0. /\ RowTypes /\ RowsCoherent /\ RowTypes' /\ AppTypes /\ CallsCoherent /\ AppCoherent
      /\ calls \in [Call -> CallType]
    BY DEF Inv, RowInv, AppTypes
\* The coherence of one free, asked or answered call.
<1>a. ASSUME NEW k \in Call, calls' = [calls EXCEPT ![k] = FreeCall],
             UNCHANGED <<direct, application>>
      PROVE  Goal
  <2>1. calls' \in [Call -> CallType] /\ calls'[k] = FreeCall
        /\ \A i \in Call : i # k => calls'[i] = calls[i]
    BY <1>0, <1>a, FreeCallType
  <2>2. SendCoherent(calls[k])' /\ ReadCoherent(calls[k])'
    BY <2>1 DEF SendCoherent, ReadCoherent, FreeCall
  <2>3. QED
    BY <1>0, <1>a, <2>1, <2>2, OneCallMoves, AppKept DEF AppTypes, application
<1>b. ASSUME NEW k \in Call, NEW reply \in CallType, Answer(k, reply),
             reply.stage = "answered",
             calls[k].stage = "open" => SendCoherent(reply)' /\ ReadCoherent(reply)',
             direct' \in [Message -> Nat], UNCHANGED application
      PROVE  Goal
  <2>1. /\ calls' \in [Call -> CallType]
        /\ calls'[k] = IF calls[k].stage = "open" THEN reply ELSE FreeCall
        /\ \A i \in Call : i # k => calls'[i] = calls[i]
    BY <1>0, <1>b, AnswerEffect
  <2>2. SendCoherent(calls[k])' /\ ReadCoherent(calls[k])'
    <3>1. CASE calls[k].stage = "open"
      BY <1>b, <2>1, <3>1 DEF SendCoherent, ReadCoherent
    <3>2. CASE calls[k].stage # "open"
      BY <2>1, <3>2 DEF SendCoherent, ReadCoherent, FreeCall
    <3>3. QED
      BY <3>1, <3>2
  <2>3. QED
    BY <1>0, <1>b, <2>1, <2>2, OneCallMoves, AppKept DEF AppTypes, application
<1>1. ASSUME NEW k \in Call, NEW m \in Message, NEW op \in Sends, Send(k, m, op) PROVE Goal
  <2> DEFINE c == [FreeCall EXCEPT !.stage = "open", !.op = op, !.msg = m]
  <2>1. c \in CallType /\ c.stage = "open" /\ c.op = op /\ c.msg = m
    <3>1. PICK f \in CallType : f = FreeCall
      BY FreeCallType
    <3>2. LET r == [f EXCEPT !.stage = "open", !.op = op, !.msg = m]
          IN  /\ r \in CallType /\ r.stage = "open" /\ r.op = op /\ r.msg = m
              /\ r.output = f.output
      BY DEF CallType, Reads, Sends
    <3>3. f.output = 0
      BY <3>1, FreeCallType
    <3>4. QED
      BY <3>1, <3>2, <3>3, Zenon
  <2> HIDE DEF c
  <2>2. calls' = [calls EXCEPT ![k] = c] /\ UNCHANGED <<direct, application>>
    BY <1>1 DEF Send, c
  <2>3. calls' \in [Call -> CallType] /\ calls'[k] = c
        /\ \A i \in Call : i # k => calls'[i] = calls[i]
    BY <1>0, <2>1, <2>2
  <2>4. SendCoherent(calls[k])' /\ ReadCoherent(calls[k])'
    BY <2>1, <2>3 DEF SendCoherent, ReadCoherent, Sends, Reads
  <2>5. QED
    BY <1>0, <2>2, <2>3, <2>4, OneCallMoves, AppKept DEF AppTypes, application
<1>2. ASSUME NEW k \in Call, NEW j \in Job, NEW op \in Reads, Read(k, j, op) PROVE Goal
  <2> DEFINE c == [FreeCall EXCEPT !.stage = "open", !.op = op, !.job = j]
  <2>1. c \in CallType /\ c.stage = "open" /\ c.op = op /\ c.job = j /\ c.output = 0
    <3>1. PICK f \in CallType : f = FreeCall
      BY FreeCallType
    <3>2. LET r == [f EXCEPT !.stage = "open", !.op = op, !.job = j]
          IN  /\ r \in CallType /\ r.stage = "open" /\ r.op = op /\ r.job = j
              /\ r.output = f.output
      BY DEF CallType, Reads, Sends
    <3>3. f.output = 0
      BY <3>1, FreeCallType
    <3>4. QED
      BY <3>1, <3>2, <3>3, Zenon
  <2> HIDE DEF c
  <2>2. calls' = [calls EXCEPT ![k] = c] /\ UNCHANGED <<queue, direct, application>>
    BY <1>2 DEF Read, c
  <2>3. calls' \in [Call -> CallType] /\ calls'[k] = c
        /\ \A i \in Call : i # k => calls'[i] = calls[i]
    BY <1>0, <2>1, <2>2
  <2>4. op = "output" => status'[j] = "completed" /\ j \in Codes
    BY <1>0, <1>2, <2>2 DEF Read, AppCoherent, queue
  <2>5. SendCoherent(calls[k])' /\ ReadCoherent(calls[k])'
    BY <2>1, <2>3, <2>4 DEF SendCoherent, ReadCoherent, Sends, Reads
  <2>6. QED
    BY <1>0, <2>2, <2>3, <2>5, OneCallMoves, AppKept DEF AppTypes, application
<1>3. ASSUME NEW k \in Call, Enqueue(k) PROVE Goal
  <2>1. calls[k].op = "send" /\ calls[k].msg \in Message /\ UNCHANGED <<direct, application>>
    BY <1>0, <1>3 DEF Enqueue, Acting, CallsCoherent, SendCoherent, Sends
  <2>2. CASE Answer(k, Replied(k, 500))
    <3>1. /\ Replied(k, 500) \in CallType /\ Replied(k, 500).stage = "answered"
          /\ Replied(k, 500).code = 500 /\ Replied(k, 500).op = "send"
          /\ Replied(k, 500).msg = calls[k].msg
      BY <1>0, <2>1, RepliedType DEF StatusCode
    <3>2. PICK r \in CallType : r = Replied(k, 500)
      BY <3>1
    <3>3. SendCoherent(r)' /\ ReadCoherent(r)'
      BY <2>1, <3>1, <3>2 DEF SendCoherent, ReadCoherent, Sends, Reads
    <3>4. QED
      BY <1>0, <1>b, <2>1, <2>2, <3>1, <3>2, <3>3 DEF AppTypes
  <2>3. ASSUME NEW j \in Job, Queue!Submit(j), payload' = [payload EXCEPT ![j] = calls[k].msg],
               Answer(k, Queued(k, j))
        PROVE  Goal
    <3>1. /\ Queued(k, j) \in CallType /\ Queued(k, j).stage = "answered"
          /\ Queued(k, j).code = 202 /\ Queued(k, j).op = "send"
          /\ Queued(k, j).msg = calls[k].msg /\ Queued(k, j).job = j
      BY <1>0, <2>1, RepliedType, WithJob DEF Queued, StatusCode
    <3>2. PICK r \in CallType : r = Queued(k, j)
      BY <3>1
    <3>3. payload'[j] = calls[k].msg
      BY <1>0, <2>3 DEF RowTypes
    <3>4. SendCoherent(r)' /\ ReadCoherent(r)'
      BY <2>1, <3>1, <3>2, <3>3 DEF SendCoherent, ReadCoherent, Sends, Reads
    <3>5. QED
      BY <1>0, <1>b, <2>1, <2>3, <3>1, <3>2, <3>4 DEF AppTypes
  <2>4. QED
    BY <1>3, <2>2, <2>3 DEF Enqueue
<1>4. ASSUME NEW k \in Call, Deliver(k) PROVE Goal
  <2>1. calls[k].op = "sync" /\ calls[k].msg \in Message /\ UNCHANGED application
    BY <1>0, <1>4 DEF Deliver, Acting, CallsCoherent, SendCoherent, Sends
  <2>2. PICK reply \in {"refused", "accepted", "unheard"} :
          /\ direct' = IF reply = "refused" THEN direct
                       ELSE [direct EXCEPT ![calls[k].msg] = @ + 1]
          /\ Answer(k, Replied(k, SentCode(reply)))
    BY <1>4 DEF Deliver
  <2>3. direct' \in [Message -> Nat] /\ (reply = "accepted" => direct'[calls[k].msg] > 0)
    BY <1>0, <2>1, <2>2 DEF AppTypes
  <2> DEFINE new == Replied(k, SentCode(reply))
  <2>4. /\ new \in CallType /\ new.stage = "answered" /\ new.op = "sync"
        /\ new.code = SentCode(reply) /\ new.msg = calls[k].msg
    BY <1>0, <2>1, RepliedType DEF StatusCode, SentCode
  <2> HIDE DEF new
  <2>5. PICK r \in CallType : r = new
    BY <2>4
  <2>6. SendCoherent(r)' /\ ReadCoherent(r)'
    BY <2>1, <2>3, <2>4, <2>5 DEF SendCoherent, ReadCoherent, Sends, Reads, SentCode
  <2>7. Answer(k, r)
    BY <2>2, <2>5 DEF new
  <2>8. QED
    BY <1>b, <2>1, <2>3, <2>4, <2>5, <2>6, <2>7
<1>5. ASSUME NEW k \in Call, GetJob(k) PROVE Goal
  <2>1. calls[k].op = "status" /\ calls[k].job \in Job
        /\ UNCHANGED <<queue, direct, application>>
    BY <1>0, <1>5 DEF GetJob, Acting, CallsCoherent, ReadCoherent, Reads
  <2>2. PICK r \in CallType :
          /\ Answer(k, r) /\ r.stage = "answered" /\ r.op = "status" /\ r.job = calls[k].job
          /\ r.code = 404 \/ (r.code = 200 /\ r.status = status[r.job])
    <3> DEFINE found == [Replied(k, 200) EXCEPT !.status = status[calls[k].job]]
               missing == Replied(k, 404)
    <3>1. /\ found \in CallType /\ found.stage = "answered" /\ found.op = "status"
          /\ found.job = calls[k].job /\ found.code = 200 /\ found.status = status[found.job]
      BY <1>0, <2>1, RepliedType, WithStatus DEF StatusCode, RowTypes
    <3>2. /\ missing \in CallType /\ missing.stage = "answered" /\ missing.op = "status"
          /\ missing.job = calls[k].job /\ missing.code = 404
      BY <1>0, <2>1, RepliedType DEF StatusCode
    <3>3. Answer(k, found) \/ Answer(k, missing)
      BY <1>5 DEF GetJob
    <3> HIDE DEF found, missing
    <3>4. QED
      BY <3>1, <3>2, <3>3
  <2>3. SendCoherent(r)' /\ ReadCoherent(r)'
    BY <2>1, <2>2 DEF SendCoherent, ReadCoherent, Sends, Reads, queue
  <2>4. QED
    BY <1>0, <1>b, <2>1, <2>2, <2>3 DEF AppTypes
<1>6. ASSUME NEW k \in Call, GetCodeExecution(k) PROVE Goal
  <2>1. /\ calls[k].op = "output" /\ calls[k].job \in Job /\ calls[k].job \in Codes
        /\ status[calls[k].job] = "completed"
        /\ calls[k].output = 0
        /\ UNCHANGED <<queue, direct, application>>
    BY <1>0, <1>6 DEF GetCodeExecution, Acting, CallsCoherent, ReadCoherent, Reads
  <2>2. PICK r \in CallType :
          /\ Answer(k, r) /\ r.stage = "answered" /\ r.op = "output" /\ r.job = calls[k].job
          /\ \/ r.code = 404 /\ r.output = 0 /\ (outputs[r.job] = {} \/ Lose)
             \/ r.code = 200 /\ r.output \in outputs[r.job]
    <3>1. CASE \E a \in outputs[calls[k].job] :
                 Answer(k, [Replied(k, 200) EXCEPT !.output = a])
      <4>1. PICK a \in outputs[calls[k].job] :
                 Answer(k, [Replied(k, 200) EXCEPT !.output = a])
        BY <3>1
      <4> DEFINE found == [Replied(k, 200) EXCEPT !.output = a]
      <4>2. /\ found \in CallType /\ found.stage = "answered" /\ found.op = "output"
            /\ found.job = calls[k].job /\ found.code = 200 /\ found.output = a
        BY <1>0, <2>1, RepliedType, WithOutput DEF StatusCode, RowTypes
      <4> HIDE DEF found
      <4>3. Answer(k, found)
        BY <4>1 DEF found
      <4>4. QED
        BY <4>2, <4>3
    <3>2. CASE Answer(k, Replied(k, 404)) /\ (outputs[calls[k].job] = {} \/ Lose)
      <4> DEFINE missing == Replied(k, 404)
      <4>1. /\ missing \in CallType /\ missing.stage = "answered" /\ missing.op = "output"
            /\ missing.job = calls[k].job /\ missing.code = 404 /\ missing.output = 0
        BY <1>0, <2>1, RepliedType DEF StatusCode
      <4> HIDE DEF missing
      <4>2. Answer(k, missing) /\ (outputs[missing.job] = {} \/ Lose)
        BY <3>2, <4>1 DEF missing
      <4>3. QED
        BY <4>1, <4>2
    <3>3. QED
      BY <1>6, <3>1, <3>2 DEF GetCodeExecution
  <2>3. /\ r.output \in outputs'[r.job] \union {0}
        /\ faults' = 0 => r.output \in {attempt'[r.job], 0}
        /\ losses' = 0 => r.output # 0
    <3>1. /\ attempt[r.job] \in outputs[r.job]
          /\ outputs[r.job] \subseteq 1 .. MaxAttempts
      BY <1>0, <2>1, <2>2 DEF RowsCoherent, RowTypes
    <3>2. /\ faults' = 0 => faults = 0
          /\ losses' = 0 => ~Lose
      BY <1>0 DEF Lose, RowTypes, RowsKept
    <3>3. faults = 0 => outputs[r.job] \subseteq {attempt[r.job]}
      BY <2>1, <2>2 DEF Inv, RowInv, RowsFaultless
    <3>4. QED
      BY <2>1, <2>2, <3>1, <3>2, <3>3 DEF queue
  <2>4. SendCoherent(r)' /\ ReadCoherent(r)'
    BY <2>1, <2>2, <2>3 DEF SendCoherent, ReadCoherent, Sends, Reads, queue
  <2>5. QED
    BY <1>0, <1>b, <2>1, <2>2, <2>4 DEF AppTypes

<1>7. ASSUME NEW k \in Call, Return(k) PROVE Goal
  <2>1. calls[k].stage = "answered" /\ calls' = [calls EXCEPT ![k] = FreeCall]
        /\ UNCHANGED <<queue, faults, losses, payload, direct>>
    BY <1>7 DEF Return
  <2>2. PICK c \in CallType : c = calls[k] /\ SendCoherent(c) /\ ReadCoherent(c)
    BY <1>0, <2>1 DEF CallsCoherent
  <2>3. /\ calls' \in [Call -> CallType] /\ calls'[k] = FreeCall
        /\ \A i \in Call : i # k => calls'[i] = calls[i]
    BY <1>0, <2>1, FreeCallType
  <2>4. CallsCoherent'
    <3>1. SendCoherent(calls[k])' /\ ReadCoherent(calls[k])'
      BY <2>3 DEF SendCoherent, ReadCoherent, FreeCall
    <3>2. QED
      BY <2>3, <3>1, OneCallMoves
  <2>5. \/ UNCHANGED application
        \/ /\ c.code = 202 /\ c.op = "send" /\ known' = [known EXCEPT ![c.msg] = @ \union {c.job}]
           /\ UNCHANGED <<sent, told, fetched>>
        \/ /\ c.code = 200 /\ c.op = "sync" /\ sent' = sent \union {c.msg}
           /\ UNCHANGED <<known, told, fetched>>
        \/ /\ c.code = 200 /\ c.op = "status" /\ UNCHANGED <<known, sent, fetched>>
           /\ told' = [told EXCEPT ![c.job] = @ \union ({c.status} \intersect Terminal)]
        \/ /\ c.op = "output" /\ UNCHANGED <<known, sent, told>>
           /\ fetched' = [fetched EXCEPT ![c.job] = @ \union {c.output}]
    <3>1. c.stage = "answered" /\ c.op \in {"send", "sync", "status", "output"}
      BY <2>1, <2>2 DEF CallType, Sends, Reads
    <3>2. CASE c.op = "send"
      <4>1. c.code \in {202, 500}
        BY <2>2, <3>1, <3>2 DEF SendCoherent, Sends
      <4>2. CASE c.code = 202
        BY <1>7, <2>2, <3>2, <4>2 DEF Return, Expected, JobID, Sends
      <4>3. CASE c.code = 500
        BY <1>7, <2>2, <3>2, <4>3 DEF Return, Expected, Sends, application
      <4>4. QED
        BY <4>1, <4>2, <4>3
    <3>3. CASE c.op = "sync"
      <4>1. c.code \in {200, 500}
        BY <2>2, <3>1, <3>3 DEF SendCoherent, Sends
      <4>2. CASE c.code = 200
        <5>1. sent' = sent \union {c.msg} /\ UNCHANGED <<told, fetched>>
          BY <1>7, <2>2, <3>3, <4>2 DEF Return, Expected, Sends
        <5>2. known' = [known EXCEPT ![c.msg] = @ \union {}]
          BY <1>7, <2>2, <3>3, <4>2 DEF Return, Expected, JobID, Sends
        <5>3. known' = known
          BY <1>0, <2>2, <5>2 DEF AppTypes
        <5>4. QED
          BY <3>3, <4>2, <5>1, <5>3
      <4>3. CASE c.code = 500
        BY <1>7, <2>2, <3>3, <4>3 DEF Return, Expected, Sends, application
      <4>4. QED
        BY <4>1, <4>2, <4>3
    <3>4. CASE c.op = "status"
      <4>1. c.code \in {200, 404}
        BY <2>2, <3>1, <3>4 DEF ReadCoherent, Reads
      <4>2. CASE c.code = 200
        BY <1>7, <2>2, <3>4, <4>2 DEF Return, Expected, Sends
      <4>3. CASE c.code = 404
        BY <1>7, <2>2, <3>4, <4>3 DEF Return, Expected, Sends, application
      <4>4. QED
        BY <4>1, <4>2, <4>3
    <3>5. CASE c.op = "output"
      BY <1>7, <2>2, <3>5 DEF Return, Sends
    <3>6. QED
      BY <3>1, <3>2, <3>3, <3>4, <3>5
  <2>6. AppTypes' /\ AppCoherent'
    <3> USE DEF queue, application
    <3>0. /\ c.op \in Sends => c.msg \in Message
          /\ c.op \in Reads => c.job \in Job
      BY <2>1, <2>2 DEF SendCoherent, ReadCoherent
    <3>1. CASE UNCHANGED application
      BY <1>0, <2>1, <2>3, <3>1, AppKept DEF AppTypes
    <3>2. CASE /\ c.code = 202 /\ c.op = "send"
               /\ known' = [known EXCEPT ![c.msg] = @ \union {c.job}]
               /\ UNCHANGED <<sent, told, fetched>>
      <4>1. c.job \in Job /\ payload[c.job] = c.msg /\ c.msg \in Message
        BY <2>1, <2>2, <3>0, <3>2 DEF SendCoherent, Sends
      <4>2. AppTypes'
        BY <1>0, <2>1, <2>3, <3>2, <4>1 DEF AppTypes
      <4>3. AppCoherent'
        BY <1>0, <2>1, <3>2, <4>1 DEF AppTypes, AppCoherent
      <4>4. QED
        BY <4>2, <4>3
    <3>3. CASE /\ c.code = 200 /\ c.op = "sync" /\ sent' = sent \union {c.msg}
               /\ UNCHANGED <<known, told, fetched>>
      <4>1. c.msg \in Message /\ direct[c.msg] > 0
        BY <2>1, <2>2, <3>0, <3>3 DEF SendCoherent, Sends
      <4>2. QED
        BY <1>0, <2>1, <2>3, <3>3, <4>1 DEF AppTypes, AppCoherent
    <3>4. CASE /\ c.code = 200 /\ c.op = "status" /\ UNCHANGED <<known, sent, fetched>>
               /\ told' = [told EXCEPT ![c.job] = @ \union ({c.status} \intersect Terminal)]
      <4>1. c.job \in Job /\ (c.status \in Terminal => status[c.job] = c.status)
        BY <2>1, <2>2, <3>0, <3>4 DEF ReadCoherent, Reads
      <4>2. AppTypes'
        BY <1>0, <2>1, <2>3, <3>4, <4>1 DEF AppTypes
      <4>3. AppCoherent'
        BY <1>0, <2>1, <3>4, <4>1 DEF AppTypes, AppCoherent
      <4>4. QED
        BY <4>2, <4>3
    <3>5. CASE /\ c.op = "output" /\ UNCHANGED <<known, sent, told>>
               /\ fetched' = [fetched EXCEPT ![c.job] = @ \union {c.output}]
      <4>1. /\ c.job \in Job /\ c.job \in Codes /\ status[c.job] = "completed"
            /\ c.output \in outputs[c.job] \union {0}
            /\ faults = 0 => c.output \in {attempt[c.job], 0}
            /\ losses = 0 => c.output # 0
        BY <2>1, <2>2, <3>0, <3>5 DEF ReadCoherent, Reads
      <4>2. AppTypes'
        BY <1>0, <2>1, <2>2, <2>3, <3>5, <4>1 DEF AppTypes, CallType
      <4>3. AppCoherent'
        BY <1>0, <2>1, <3>5, <4>1 DEF AppTypes, AppCoherent
      <4>4. QED
        BY <4>2, <4>3
    <3>6. QED
      BY <2>5, <3>1, <3>2, <3>3, <3>4, <3>5
  <2>7. QED
    BY <2>4, <2>6
<1>8. ASSUME NEW k \in Call, Abandon(k) PROVE Goal
  <2>1. CASE calls[k].stage = "answered"
    BY <1>8, <1>a, <2>1 DEF Abandon
  <2>2. CASE calls[k].stage = "open"
    <3>1. PICK c \in CallType : c = calls[k] /\ SendCoherent(c) /\ ReadCoherent(c)
      BY <1>0 DEF CallsCoherent
    <3> DEFINE o == [c EXCEPT !.stage = "orphaned"]
    <3>2. /\ o \in CallType /\ o.stage = "orphaned" /\ o.op = c.op /\ o.msg = c.msg
          /\ o.job = c.job /\ o.output = c.output
      BY DEF CallType
    <3>3. calls' = [calls EXCEPT ![k] = o] /\ UNCHANGED <<queue, direct, application>>
      BY <1>8, <2>2, <3>1 DEF Abandon
    <3> HIDE DEF o
    <3>4. calls' \in [Call -> CallType] /\ calls'[k] = o
          /\ \A i \in Call : i # k => calls'[i] = calls[i]
      BY <1>0, <3>2, <3>3
    <3>5. SendCoherent(calls[k])' /\ ReadCoherent(calls[k])'
      BY <2>2, <3>1, <3>2, <3>3, <3>4 DEF SendCoherent, ReadCoherent, queue
    <3>6. QED
      BY <1>0, <3>3, <3>4, <3>5, OneCallMoves, AppKept DEF AppTypes, application
  <2>3. QED
    BY <1>8, <2>1, <2>2 DEF Abandon
<1>9. ASSUME NEW k \in Call, Drop(k) PROVE Goal
    BY <1>9, <1>a DEF Drop
<1>10. ASSUME UNCHANGED <<direct, calls, application>> PROVE Goal
  <2>1. CallsCoherent'
    <3> SUFFICES ASSUME NEW i \in Call PROVE SendCoherent(calls[i])' /\ ReadCoherent(calls[i])'
      BY DEF CallsCoherent
    <3>1. PICK c \in CallType : c = calls[i] /\ SendCoherent(c) /\ ReadCoherent(c)
      BY <1>0 DEF CallsCoherent
    <3>2. SendCoherent(c)' /\ ReadCoherent(c)'
      BY <1>0, <3>1, WaitingCoherent, JobClientsAssumption
    <3>3. calls'[i] = c
      BY <1>10, <3>1
    <3>4. QED
      BY <3>2, <3>3 DEF SendCoherent, ReadCoherent
  <2>2. QED
    BY <1>0, <1>10, <2>1, AppKept DEF AppTypes, application
<1>11. QED
    BY <1>1, <1>2, <1>3, <1>4, <1>5, <1>6, <1>7, <1>8, <1>9, <1>10 DEF Next, Workers, vars

LEMMA InitInv == Init => Inv
<1> SUFFICES ASSUME Init PROVE Inv
    OBVIOUS
<1> USE JobClientsAssumption
<1>1. RowInv
  <2>1. RowTypes /\ RowsCoherent /\ RowsFaultless
    BY DEF Init, Queue!Init, RowTypes, RowsCoherent, RowsFaultless, Queue!Status
  <2>2. Queue!InVain = {} /\ faults = 0
    BY DEF Init, Queue!Init, Queue!InVain
  <2>3. QED
    BY <2>1, <2>2, FS_EmptySet DEF RowInv, VainInv
<1>2. AppTypes
    BY FreeCallType DEF Init, AppTypes
<1>3. CallsCoherent
    BY DEF Init, CallsCoherent, SendCoherent, ReadCoherent, FreeCall
<1>4. AppCoherent
    BY DEF Init, AppCoherent
<1>5. QED
    BY <1>1, <1>2, <1>3, <1>4 DEF Inv

THEOREM Invariance == Spec => []Inv
<1>1. Inv /\ [Next]_vars => Inv'
    BY NextRows, NextCalls DEF Inv
<1>2. QED
    BY <1>1, InitInv, PTL DEF Spec

\* Every variable stays in its type, whatever calls are lost and however the
\* rows they made are worked on.
THEOREM ClientsTypeCorrect == Spec => []TypeOK
<1>1. Inv => TypeOK
    BY DEF Inv, RowInv, RowTypes, AppTypes, TypeOK
<1>2. QED
    BY <1>1, Invariance, PTL

\* "sent", "completed" and "failed", once told, stay true.
THEOREM AnswersStayTrue == Spec => []ToldIsTrue
<1>1. Inv => ToldIsTrue
    BY DEF Inv, RowInv, RowTypes, RowsCoherent, AppTypes, AppCoherent, ToldIsTrue, Terminal
<1>2. QED
    BY <1>1, Invariance, PTL

\* The output of a completed program is there, and the last attempt's.
THEOREM OutputReadable == Spec => []OutputIsThere
<1>1. Inv => OutputIsThere
    BY DEF Inv, RowInv, RowsCoherent, AppCoherent, OutputIsThere
<1>2. QED
    BY <1>1, Invariance, PTL

(***************************************************************************)
(* What the application knows of: of a message there is one call that is   *)
(* waited for, or one row that has not failed, or a synchronous delivery,  *)
(* never two.                                                              *)
(***************************************************************************)
OneWaited == \A i, k \in Call, m \in Message : Waited(i, m) /\ Waited(k, m) => i = k

WaitedIsAll ==
    \A k \in Call, m \in Message :
        Waited(k, m) => m \notin sent /\ \A j \in known[m] : status[j] = "failed"

OneKnownRow ==
    \A m \in Message : \A i, j \in known[m] :
        status[i] # "failed" /\ status[j] # "failed" => i = j

SentIsAll == \A m \in sent : \A j \in known[m] : status[j] = "failed"

OnceInv == OneWaited /\ WaitedIsAll /\ OneKnownRow /\ SentIsAll

LEMMA NextOnceInv == Inv /\ RowsKept /\ [Next]_vars /\ OnceInv => OnceInv'
<1> SUFFICES ASSUME Inv, RowsKept, [Next]_vars, OnceInv PROVE OnceInv'
    OBVIOUS
<1>0. /\ RowTypes /\ AppTypes /\ CallsCoherent /\ AppCoherent
      /\ calls \in [Call -> CallType] /\ FreeCall \in CallType /\ FreeCall.stage = "free"
    BY FreeCallType DEF Inv, RowInv, AppTypes, FreeCall
<1>a. \A m \in Message : \A j \in known[m] : status[j] = "failed" => status'[j] = "failed"
    BY <1>0 DEF RowsKept, AppTypes, Terminal
\* Nothing new is waited for, and the application learns nothing.
<1>b. ASSUME UNCHANGED <<known, sent>>,
             \A i \in Call, l \in Message : Waited(i, l)' => Waited(i, l)
      PROVE  OnceInv'
    BY <1>a, <1>b, <1>0
    DEF OnceInv, OneWaited, WaitedIsAll, OneKnownRow, SentIsAll, AppTypes
<1>1. ASSUME NEW k \in Call, NEW m \in Message, NEW op \in Sends, Send(k, m, op)
      PROVE  OnceInv'
  <2>1. /\ UNCHANGED <<queue, application>> /\ Submittable(m)
        /\ calls[k].stage = "free"
        /\ calls'[k].stage = "open" /\ calls'[k].msg = m /\ calls'[k].op = op
        /\ \A i \in Call : i # k => calls'[i] = calls[i]
    BY <1>0, <1>1 DEF Send, FreeCall
  <2>2. m \notin sent /\ \A j \in known[m] : status[j] = "failed"
    BY <1>0, <2>1 DEF Submittable, AppTypes, AppCoherent
  <2>3. /\ \A l \in Message : Waited(k, l)' => l = m
        /\ \A i \in Call, l \in Message : i # k => (Waited(i, l)' <=> Waited(i, l))
        /\ \A i \in Call : ~Waited(i, m)
    BY <1>0, <2>1 DEF Waited, Submittable
  <2>4. OneWaited'
    BY <2>3 DEF OnceInv, OneWaited
  <2>5. WaitedIsAll'
    BY <2>1, <2>2, <2>3 DEF OnceInv, WaitedIsAll, queue, application
  <2>6. OneKnownRow' /\ SentIsAll'
    BY <2>1 DEF OnceInv, OneKnownRow, SentIsAll, queue, application
  <2>7. QED
    BY <2>4, <2>5, <2>6 DEF OnceInv
<1>2. ASSUME NEW k \in Call,
             Enqueue(k) \/ Deliver(k) \/ GetJob(k) \/ GetCodeExecution(k)
      PROVE  OnceInv'
  <2>1. PICK r \in CallType : Answer(k, r) /\ r.stage = "answered" /\ r.op = calls[k].op
                              /\ r.msg = calls[k].msg
    BY <1>2, HandlerReplies DEF Replies
  <2>2. /\ calls'[k] = IF calls[k].stage = "open" THEN r ELSE FreeCall
        /\ \A i \in Call : i # k => calls'[i] = calls[i]
    BY <1>0, <2>1, AnswerEffect
  <2>3. \A i \in Call, l \in Message : Waited(i, l)' => Waited(i, l)
    BY <1>0, <2>1, <2>2 DEF Waited
  <2>4. QED
    BY <1>2, <1>b, <2>3 DEF Enqueue, Deliver, GetJob, GetCodeExecution, application
<1>3. ASSUME NEW k \in Call, NEW j \in Job, NEW op \in Reads, Read(k, j, op) PROVE OnceInv'
  <2>1. /\ calls'[k].op = op
        /\ \A i \in Call : i # k => calls'[i] = calls[i]
        /\ UNCHANGED <<known, sent>>
    BY <1>0, <1>3 DEF Read, FreeCall, application
  <2>2. \A i \in Call, l \in Message : Waited(i, l)' => Waited(i, l)
    BY <2>1 DEF Waited, Sends, Reads
  <2>3. QED
    BY <1>b, <2>1, <2>2
<1>4. ASSUME NEW k \in Call, Abandon(k) \/ Drop(k) PROVE OnceInv'
  <2>1. /\ calls'[k].stage \in {"free", "orphaned"}
        /\ \A i \in Call : i # k => calls'[i] = calls[i]
        /\ UNCHANGED <<known, sent>>
    <3>1. CASE Drop(k)
      BY <1>0, <3>1 DEF Drop, application
    <3>2. CASE Abandon(k)
      <4>1. PICK c \in CallType : c = calls[k]
        BY <1>0
      <4>2. [c EXCEPT !.stage = "orphaned"].stage = "orphaned"
        BY DEF CallType
      <4>3. QED
        BY <1>0, <3>2, <4>1, <4>2 DEF Abandon, application
    <3>3. QED
      BY <1>4, <3>1, <3>2
  <2>2. \A i \in Call, l \in Message : Waited(i, l)' => Waited(i, l)
    BY <2>1 DEF Waited
  <2>3. QED
    BY <1>b, <2>1, <2>2
<1>5. ASSUME NEW k \in Call, Return(k) PROVE OnceInv'
  <2>1. /\ calls[k].stage = "answered" /\ calls'[k].stage = "free"
        /\ \A i \in Call : i # k => calls'[i] = calls[i]
        /\ UNCHANGED <<queue, payload>>
    BY <1>0, <1>5 DEF Return
  <2>2. \A i \in Call, l \in Message : Waited(i, l)' <=> Waited(i, l) /\ i # k
    BY <2>1 DEF Waited
  <2>3. CASE calls[k].op \in Reads
    <3>1. UNCHANGED <<known, sent>>
      BY <1>5, <2>3 DEF Return, Sends, Reads
    <3>2. QED
      BY <1>b, <2>2, <3>1
  <2>4. CASE calls[k].op \in Sends
    <3>1. PICK m \in Message : m = calls[k].msg
      BY <1>0, <2>1, <2>4 DEF CallsCoherent, SendCoherent
    <3>2. /\ m \notin sent /\ \A j \in known[m] : status[j] = "failed"
          /\ \A i \in Call : ~Waited(i, m)'
      BY <2>1, <2>2, <2>4, <3>1 DEF OnceInv, WaitedIsAll, OneWaited, Waited
    \* It learns of one row, or of a delivery, and only of this message.
    <3>3. /\ \A l \in Message : l # m => known'[l] = known[l] /\ (l \in sent' <=> l \in sent)
          /\ \/ known'[m] = known[m]
             \/ (\E j : known'[m] = known[m] \union {j}) /\ m \notin sent'
      <4>1. CASE calls[k].op = "send"
        <5>1. sent' = sent /\ (known' = known \/ known' = [known EXCEPT ![m] = @ \union JobID(calls[k])])
          BY <1>5, <3>1, <4>1 DEF Return, Sends
        <5>2. PICK x : JobID(calls[k]) \subseteq {x}
          BY DEF JobID
        <5>3. known \in [Message -> SUBSET Job]
          BY <1>0 DEF AppTypes
        <5>4. known' = known \/ known' = [known EXCEPT ![m] = @ \union {x}]
          <6>1. JobID(calls[k]) = {} \/ JobID(calls[k]) = {x}
            BY <5>2
          <6>2. known = [known EXCEPT ![m] = @ \union {}]
            BY <5>3
          <6>3. QED
            BY <5>1, <6>1, <6>2
        <5>5. /\ \A l \in Message : l # m => known'[l] = known[l]
              /\ known'[m] = known[m] \/ known'[m] = known[m] \union {x}
          BY <5>3, <5>4
        <5>6. QED
          BY <3>2, <5>1, <5>5
      <4>2. CASE calls[k].op = "sync"
        <5>1. calls[k].code # 202
          BY <1>0, <2>1, <4>2 DEF CallsCoherent, SendCoherent, Sends
        <5>2. known' = known \/ known' = [known EXCEPT ![m] = @ \union {}]
          BY <1>5, <3>1, <5>1 DEF Return, JobID
        <5>3. known' = known
          BY <1>0, <5>2 DEF AppTypes
        <5>4. sent' = sent \/ sent' = sent \union {m}
          BY <1>5, <3>1 DEF Return
        <5>5. QED
          BY <5>3, <5>4
      <4>3. QED
        BY <2>4, <4>1, <4>2 DEF Sends
    <3>4. UNCHANGED status
      BY <2>1 DEF queue
    <3>5. OneWaited'
      BY <2>2 DEF OnceInv, OneWaited
    <3>6. WaitedIsAll'
      BY <2>2, <3>2, <3>3, <3>4 DEF OnceInv, WaitedIsAll
    <3>7. OneKnownRow'
      BY <3>2, <3>3, <3>4 DEF OnceInv, OneKnownRow
    <3>8. SentIsAll'
      <4> SUFFICES ASSUME NEW l \in sent', NEW j \in known'[l] PROVE status'[j] = "failed"
        BY DEF SentIsAll
      <4>1. l \in Message
        BY <1>0, <3>1, <3>3, <1>5 DEF AppTypes, Return
      <4>2. QED
        BY <3>2, <3>3, <3>4, <4>1 DEF OnceInv, SentIsAll
    <3>9. QED
      BY <3>5, <3>6, <3>7, <3>8 DEF OnceInv
  <2>5. QED
    BY <1>0, <2>3, <2>4 DEF CallType
<1>6. CASE Workers \/ UNCHANGED vars
  <2>1. UNCHANGED <<calls, known, sent>>
    BY <1>6 DEF Workers, vars, application
  <2>2. QED
    BY <1>b, <2>1 DEF Waited
<1>7. QED
    BY <1>1, <1>2, <1>3, <1>4, <1>5, <1>6 DEF Next

(***************************************************************************)
(* What the application does not know of is paid for by a lost call: each  *)
(* lost row, each call that may still act, and each synchronous delivery   *)
(* other than the one it was, or is about to be, told of.                  *)
(***************************************************************************)
Gone == {k \in Call : calls[k].stage = "orphaned" /\ calls[k].op \in Sends}

Heard(m) ==
    \/ m \in sent
    \/ \E k \in Call : calls[k].stage = "answered" /\ calls[k].op = "sync"
                       /\ calls[k].code = 200 /\ calls[k].msg = m

Unseen ==
    {d \in Message \X Nat :
        /\ 0 < d[2] /\ d[2] <= direct[d[1]]
        /\ ~(d[2] = direct[d[1]] /\ Heard(d[1]))}

Paid(lost, gone, unseen, n) ==
    /\ IsFiniteSet(lost) /\ IsFiniteSet(gone) /\ IsFiniteSet(unseen)
    /\ Cardinality(lost) + Cardinality(gone) + Cardinality(unseen) <= n

\* Deliveries that were seen stay so, if nothing is delivered in this step.
LEMMA NothingUnseen ==
    ASSUME direct' = direct, \A m \in Message : Heard(m) => Heard(m)'
    PROVE  Unseen' \subseteq Unseen
BY DEF Unseen

\* A synchronous delivery adds one.
Latest(m) == IF Heard(m) THEN <<m, direct[m]>> ELSE <<m, direct[m] + 1>>

LEMMA OneMoreUnseen ==
    ASSUME direct \in [Message -> Nat], NEW m \in Message,
           direct' = [direct EXCEPT ![m] = @ + 1],
           \A l \in Message : Heard(l) => Heard(l)'
    PROVE  Unseen' \subseteq Unseen \union {Latest(m)}
<1>1. /\ direct'[m] = direct[m] + 1 /\ direct[m] \in Nat
      /\ \A l \in Message : l # m => direct'[l] = direct[l]
    OBVIOUS
<1>2. ASSUME NEW d \in Message \X Nat, d \in Unseen', d \notin Unseen PROVE d = Latest(m)
  <2>1. d[1] \in Message /\ d[2] \in Nat /\ d = <<d[1], d[2]>>
    OBVIOUS
  <2>2. d[1] = m
    BY <1>1, <1>2, <2>1 DEF Unseen
  <2>3. d[2] = IF Heard(m) THEN direct[m] ELSE direct[m] + 1
    BY <1>1, <1>2, <2>1, <2>2 DEF Unseen
  <2>4. QED
    BY <2>1, <2>2, <2>3 DEF Latest
<1>3. QED
    BY <1>2 DEF Unseen

LEMMA NextPaid ==
    /\ Inv /\ OnceInv /\ RowsKept /\ [Next]_vars
    /\ Paid(Lost, Gone, Unseen, losses)
    => Paid(Lost, Gone, Unseen, losses)'
<1> SUFFICES ASSUME Inv, OnceInv, RowsKept, [Next]_vars, Paid(Lost, Gone, Unseen, losses)
             PROVE  Paid(Lost', Gone', Unseen', losses')
    OBVIOUS
<1> DEFINE Goal == Paid(Lost', Gone', Unseen', losses')
<1>0. /\ RowTypes /\ RowsCoherent /\ AppTypes /\ CallsCoherent
      /\ calls \in [Call -> CallType] /\ FreeCall \in CallType
      /\ IsFiniteSet(Lost) /\ IsFiniteSet(Gone) /\ IsFiniteSet(Unseen)
      /\ Cardinality(Lost) \in Nat /\ Cardinality(Gone) \in Nat /\ Cardinality(Unseen) \in Nat
      /\ Cardinality(Lost) + Cardinality(Gone) + Cardinality(Unseen) <= losses
      /\ losses \in Nat
    BY FreeCallType, FS_CardinalityType, JobClientsAssumption
    DEF Inv, RowInv, RowTypes, AppTypes, Paid
<1>l. /\ MayLose => losses' >= losses /\ losses' \in Nat
      /\ Lose => losses' = losses + 1
    BY <1>0, JobClientsAssumption DEF MayLose, Lose
\* The three sets shrink, or one of them grows by one and the loss of a call,
\* or of an orphaned call, pays for it.
<1>a. ASSUME Lost' \subseteq Lost, Gone' \subseteq Gone, Unseen' \subseteq Unseen, MayLose
      PROVE  Goal
  <2>1. /\ IsFiniteSet(Lost') /\ Cardinality(Lost') \in Nat
        /\ Cardinality(Lost') <= Cardinality(Lost)
    BY <1>0, <1>a, SubsetPaid
  <2>2. /\ IsFiniteSet(Gone') /\ Cardinality(Gone') \in Nat
        /\ Cardinality(Gone') <= Cardinality(Gone)
    BY <1>0, <1>a, SubsetPaid
  <2>3. /\ IsFiniteSet(Unseen') /\ Cardinality(Unseen') \in Nat
        /\ Cardinality(Unseen') <= Cardinality(Unseen)
    BY <1>0, <1>a, SubsetPaid
  <2>4. QED
    BY <1>0, <1>a, <1>l, <2>1, <2>2, <2>3 DEF Paid
<1>b. ASSUME NEW x, Lose,
             \/ Lost' \subseteq Lost \union {x} /\ Gone' \subseteq Gone /\ Unseen' \subseteq Unseen
             \/ Lost' \subseteq Lost /\ Gone' \subseteq Gone \union {x} /\ Unseen' \subseteq Unseen
             \/ Lost' \subseteq Lost /\ Gone' \subseteq Gone /\ Unseen' \subseteq Unseen \union {x}
      PROVE  Goal
  <2>1. /\ IsFiniteSet(Lost') /\ Cardinality(Lost') \in Nat
        /\ Cardinality(Lost') <= Cardinality(Lost) + 1
        /\ Lost' \subseteq Lost => Cardinality(Lost') <= Cardinality(Lost)
    BY <1>0, <1>b, OneMorePaid, SubsetPaid
  <2>2. /\ IsFiniteSet(Gone') /\ Cardinality(Gone') \in Nat
        /\ Cardinality(Gone') <= Cardinality(Gone) + 1
        /\ Gone' \subseteq Gone => Cardinality(Gone') <= Cardinality(Gone)
    BY <1>0, <1>b, OneMorePaid, SubsetPaid
  <2>3. /\ IsFiniteSet(Unseen') /\ Cardinality(Unseen') \in Nat
        /\ Cardinality(Unseen') <= Cardinality(Unseen) + 1
        /\ Unseen' \subseteq Unseen => Cardinality(Unseen') <= Cardinality(Unseen)
    BY <1>0, <1>b, OneMorePaid, SubsetPaid
  <2>4. Cardinality(Lost') + Cardinality(Gone') + Cardinality(Unseen') <= losses + 1
    BY <1>0, <1>b, <2>1, <2>2, <2>3
  <2>5. QED
    BY <1>b, <1>l, <2>1, <2>2, <2>3, <2>4 DEF Paid
<1>c. ASSUME NEW x, NEW k \in Gone, Gone' \subseteq Gone \ {k}, MayLose,
             \/ Lost' \subseteq Lost \union {x} /\ Unseen' \subseteq Unseen
             \/ Lost' \subseteq Lost /\ Unseen' \subseteq Unseen \union {x}
      PROVE  Goal
  <2>1. /\ IsFiniteSet(Lost') /\ Cardinality(Lost') \in Nat
        /\ Cardinality(Lost') <= Cardinality(Lost) + 1
        /\ Lost' \subseteq Lost => Cardinality(Lost') <= Cardinality(Lost)
    BY <1>0, <1>c, OneMorePaid, SubsetPaid
  <2>2. /\ IsFiniteSet(Gone') /\ Cardinality(Gone') \in Nat
        /\ Cardinality(Gone') + 1 <= Cardinality(Gone)
    BY <1>0, <1>c, OneLessPaid
  <2>3. /\ IsFiniteSet(Unseen') /\ Cardinality(Unseen') \in Nat
        /\ Cardinality(Unseen') <= Cardinality(Unseen) + 1
        /\ Unseen' \subseteq Unseen => Cardinality(Unseen') <= Cardinality(Unseen)
    BY <1>0, <1>c, OneMorePaid, SubsetPaid
  <2>4. Cardinality(Lost') + Cardinality(Gone') + Cardinality(Unseen') <= losses
    BY <1>0, <1>c, <2>1, <2>2, <2>3
  <2>5. QED
    BY <1>0, <1>c, <1>l, <2>1, <2>2, <2>3, <2>4 DEF Paid
\* Only the sends of one call can change what is lost or heard of.
<1>e. ASSUME UNCHANGED <<payload, known>>, NEW k \in Call,
             \A i \in Call : i # k => calls'[i] = calls[i],
             calls[k].stage = "answered" => calls[k].op # "send" \/ calls[k].code # 202
      PROVE  Lost' \subseteq Lost
    BY <1>e DEF Lost, Answered
<1>f. ASSUME sent \subseteq sent', NEW k \in Call,
             \A i \in Call : i # k => calls'[i] = calls[i],
             calls[k].stage = "answered" => calls[k].op # "sync" \/ calls[k].code # 200
      PROVE  \A m \in Message : Heard(m) => Heard(m)'
    BY <1>f DEF Heard
<1>1. ASSUME NEW k \in Call,
             \/ \E m \in Message, op \in Sends : Send(k, m, op)
             \/ \E j \in Job, op \in Reads : Read(k, j, op)
             \/ Drop(k)
      PROVE  Goal
  <2>1. /\ calls[k].stage # "answered" /\ calls'[k].stage # "orphaned"
        /\ \A i \in Call : i # k => calls'[i] = calls[i]
        /\ UNCHANGED <<payload, direct, known, sent, losses>>
    <3>1. ASSUME NEW m \in Message, NEW op \in Sends, Send(k, m, op) PROVE <2>1!:
      BY <1>0, <3>1 DEF Send, FreeCall, application
    <3>2. ASSUME NEW j \in Job, NEW op \in Reads, Read(k, j, op) PROVE <2>1!:
      BY <1>0, <3>2 DEF Read, FreeCall, application
    <3>3. CASE Drop(k)
      BY <1>0, <3>3 DEF Drop, FreeCall, application
    <3>4. QED
      BY <1>1, <3>1, <3>2, <3>3
  <2>2. Gone' \subseteq Gone
    BY <2>1 DEF Gone
  <2>3. Unseen' \subseteq Unseen
    BY <1>f, <2>1, NothingUnseen
  <2>4. QED
    BY <1>a, <1>e, <2>1, <2>2, <2>3 DEF MayLose
<1>2. ASSUME NEW k \in Call, GetJob(k) \/ GetCodeExecution(k) PROVE Goal
  <2>1. /\ calls[k].stage \in {"open", "orphaned"}
        /\ UNCHANGED <<payload, direct, known, sent>> /\ MayLose
    BY <1>2 DEF GetJob, GetCodeExecution, Acting, application, MayLose
  <2>2. PICK r \in CallType : Answer(k, r) /\ r.stage = "answered"
    BY <1>2, HandlerReplies DEF Replies
  <2>3. /\ calls'[k].stage # "orphaned" /\ \A i \in Call : i # k => calls'[i] = calls[i]
    BY <1>0, <2>2, AnswerEffect DEF FreeCall
  <2>4. Gone' \subseteq Gone
    BY <2>3 DEF Gone
  <2>5. Unseen' \subseteq Unseen
    BY <1>f, <2>1, <2>3, NothingUnseen
  <2>6. QED
    BY <1>a, <1>e, <2>1, <2>3, <2>4, <2>5
<1>3. ASSUME NEW k \in Call, Deliver(k) PROVE Goal
  <2>1. PICK m \in Message : m = calls[k].msg
    BY <1>0, <1>3 DEF Deliver, Acting, CallsCoherent, SendCoherent, Sends
  <2>2. /\ calls[k].stage \in {"open", "orphaned"} /\ calls[k].op = "sync"
        /\ UNCHANGED <<payload, known, sent>> /\ MayLose
    BY <1>3 DEF Deliver, Acting, application, MayLose
  <2>3. PICK code \in {200, 500} :
          /\ Answer(k, Replied(k, code))
          /\ \/ code = 500 /\ direct' = direct
             \/ code = 200 /\ direct' = [direct EXCEPT ![m] = @ + 1]
             \/ code = 500 /\ direct' = [direct EXCEPT ![m] = @ + 1] /\ Lose
    BY <1>3, <2>1 DEF Deliver, SentCode
  <2>4. /\ Replied(k, code) \in CallType /\ Replied(k, code).stage = "answered"
        /\ Replied(k, code).code = code /\ Replied(k, code).op = "sync"
        /\ Replied(k, code).msg = m
    BY <1>0, <2>1, <2>2, RepliedType DEF StatusCode
  <2>5. /\ calls'[k] = IF calls[k].stage = "open" THEN Replied(k, code) ELSE FreeCall
        /\ calls'[k].stage # "orphaned" /\ \A i \in Call : i # k => calls'[i] = calls[i]
    BY <1>0, <2>3, <2>4, AnswerEffect DEF FreeCall
  <2>6. /\ Gone' \subseteq Gone \ {k} /\ Lost' \subseteq Lost
        /\ \A l \in Message : Heard(l) => Heard(l)'
    BY <1>e, <1>f, <2>2, <2>5 DEF Gone
  <2>7. CASE direct' = direct
    BY <1>a, <2>2, <2>6, <2>7, NothingUnseen
  <2>8. CASE direct' = [direct EXCEPT ![m] = @ + 1]
    <3>1. PICK x : x = Latest(m) /\ Unseen' \subseteq Unseen \union {x}
      <4>1. direct \in [Message -> Nat]
        BY <1>0 DEF AppTypes
      <4>2. Unseen' \subseteq Unseen \union {Latest(m)}
        BY <2>6, <2>8, <4>1, OneMoreUnseen
      <4>3. QED
        BY <4>2
    <3>2. CASE calls[k].stage = "orphaned"
      <4>1. k \in Gone
        BY <2>2, <3>2 DEF Gone, Sends
      <4>2. QED
        BY <1>c, <2>2, <2>6, <3>1, <4>1
    <3>3. CASE calls[k].stage = "open" /\ Lose
      BY <1>b, <2>6, <3>1, <3>3
    \* The delivery the call is about to be told of, the first it could be.
    <3>4. CASE calls[k].stage = "open" /\ code = 200
      <4>1. Waited(k, m)
        BY <2>1, <2>2, <3>4 DEF Waited, Sends
      <4>2. \A i \in Call : Waited(i, m) => i = k
        BY <4>1 DEF OnceInv, OneWaited
      <4>3. ~Heard(m)
        BY <3>4, <4>1, <4>2 DEF Heard, OnceInv, WaitedIsAll, Waited, Sends
      <4>4. Heard(m)'
        BY <2>4, <2>5, <3>4 DEF Heard
      <4>5. /\ direct'[m] = direct[m] + 1 /\ direct[m] \in Nat
            /\ \A l \in Message : l # m => direct'[l] = direct[l]
        BY <1>0, <2>8 DEF AppTypes
      <4>6. ASSUME NEW d \in Message \X Nat, d \in Unseen' PROVE d \in Unseen
        <5>1. d[1] \in Message /\ d[2] \in Nat
          OBVIOUS
        <5>2. CASE d[1] = m
          BY <4>3, <4>4, <4>5, <4>6, <5>1, <5>2 DEF Unseen
        <5>3. CASE d[1] # m
          BY <2>6, <4>5, <4>6, <5>1, <5>3 DEF Unseen
        <5>4. QED
          BY <5>2, <5>3
      <4>7. Unseen' \subseteq Unseen
        BY <4>6 DEF Unseen
      <4>8. QED
        BY <1>a, <2>2, <2>6, <4>7
    <3>5. direct # [direct EXCEPT ![m] = @ + 1]
      BY <1>0 DEF AppTypes
    <3>6. QED
      BY <2>2, <2>3, <2>8, <3>2, <3>3, <3>4, <3>5
  <2>9. QED
    BY <2>3, <2>7, <2>8
<1>4. ASSUME NEW k \in Call, Abandon(k) PROVE Goal
  <2>1. /\ \A i \in Call : i # k => calls'[i] = calls[i]
        /\ UNCHANGED <<payload, direct, known, sent>> /\ Lose
    BY <1>0, <1>4 DEF Abandon, application
  <2>2. CASE calls[k].stage = "open"
    <3>1. Lost' \subseteq Lost /\ Unseen' \subseteq Unseen
      BY <1>e, <1>f, <2>1, <2>2, NothingUnseen
    <3>2. Gone' \subseteq Gone \union {k}
      BY <2>1 DEF Gone
    <3>3. QED
      BY <1>b, <2>1, <3>1, <3>2
  <2>3. CASE calls[k].stage = "answered"
    <3>1. calls'[k].stage = "free"
      BY <1>0, <1>4, <2>3 DEF Abandon, FreeCall
    <3>2. Gone' \subseteq Gone
      BY <2>1, <3>1 DEF Gone
    <3>3. CASE calls[k].op = "send"
      <4>1. Lost' \subseteq Lost \union {calls[k].job}
        BY <2>1 DEF Lost, Answered
      <4>2. Unseen' \subseteq Unseen
        BY <1>f, <2>1, <3>3, NothingUnseen
      <4>3. QED
        BY <1>b, <2>1, <3>2, <4>1, <4>2
    <3>4. CASE calls[k].op # "send"
      <4>1. Lost' \subseteq Lost
        BY <1>e, <2>1, <3>4
      <4>2. \A l \in Message : l # calls[k].msg => (Heard(l) => Heard(l)')
        BY <2>1 DEF Heard
      <4>3. Unseen' \subseteq Unseen \union {<<calls[k].msg, direct[calls[k].msg]>>}
        <5> SUFFICES ASSUME NEW d \in Message \X Nat, d \in Unseen', d \notin Unseen
                     PROVE  d = <<calls[k].msg, direct[calls[k].msg]>>
          BY DEF Unseen
        <5>1. d[1] \in Message /\ d = <<d[1], d[2]>>
          OBVIOUS
        <5>2. d[2] = direct[d[1]] /\ d[1] = calls[k].msg
          BY <2>1, <4>2, <5>1 DEF Unseen
        <5>3. QED
          BY <5>1, <5>2
      <4>4. QED
        BY <1>b, <2>1, <3>2, <4>1, <4>3
    <3>5. QED
      BY <3>3, <3>4
  <2>4. QED
    BY <1>4, <2>2, <2>3 DEF Abandon
<1>5. ASSUME NEW k \in Call, Return(k) PROVE Goal
  <2>1. /\ calls[k].stage = "answered" /\ calls'[k].stage = "free"
        /\ \A i \in Call : i # k => calls'[i] = calls[i]
        /\ UNCHANGED <<payload, direct, losses>>
    BY <1>0, <1>5 DEF Return, FreeCall
  <2>2. PICK c \in CallType : c = calls[k] /\ SendCoherent(c)
    BY <1>0 DEF CallsCoherent
  <2>3. /\ \A m \in Message : known[m] \subseteq known'[m]
        /\ c.op = "send" /\ c.code = 202 => \E m \in Message : c.job \in known'[m]
    <3>1. CASE c.op \in Sends
      <4>1. c.msg \in Message
        BY <2>1, <2>2, <3>1 DEF SendCoherent
      <4>2. known' = known \/ known' = [known EXCEPT ![c.msg] = @ \union JobID(c)]
        BY <1>5, <2>2 DEF Return
      <4>3. c.code = 202 => known' = [known EXCEPT ![c.msg] = @ \union {c.job}]
        BY <1>5, <2>2, <3>1 DEF Return, Expected, JobID
      <4>4. QED
        BY <1>0, <4>1, <4>2, <4>3 DEF AppTypes
    <3>2. CASE c.op \notin Sends
      BY <1>5, <2>2, <3>2 DEF Return, Sends
    <3>3. QED
      BY <3>1, <3>2
  <2>4. /\ sent \subseteq sent'
        /\ c.op = "sync" /\ c.code = 200 => c.msg \in sent'
    BY <1>5, <2>2 DEF Return, Expected, Sends
  <2>5. Lost' \subseteq Lost
    BY <2>1, <2>2, <2>3 DEF Lost, Answered
  <2>6. Gone' \subseteq Gone
    BY <2>1 DEF Gone
  <2>7. Unseen' \subseteq Unseen
    <3>1. \A m \in Message : Heard(m) => Heard(m)'
      BY <2>1, <2>2, <2>4 DEF Heard
    <3>2. QED
      BY <2>1, <3>1, NothingUnseen
  <2>8. QED
    BY <1>a, <2>1, <2>5, <2>6, <2>7 DEF MayLose
<1>6. ASSUME NEW k \in Call, Enqueue(k) PROVE Goal
  <2>1. PICK c \in CallType : c = calls[k] /\ SendCoherent(c)
    BY <1>0 DEF CallsCoherent
  <2>2. /\ c.stage \in {"open", "orphaned"} /\ c.op = "send" /\ c.msg \in Message
        /\ UNCHANGED <<known, sent, direct>> /\ MayLose
    BY <1>6, <2>1 DEF Enqueue, Acting, SendCoherent, Sends, application, MayLose
  <2>3. PICK r \in CallType : Answer(k, r) /\ r.stage = "answered"
    BY <1>6, HandlerReplies DEF Replies
  <2>4. /\ calls' \in [Call -> CallType]
        /\ calls'[k] = IF calls[k].stage = "open" THEN r ELSE FreeCall
        /\ calls'[k].stage # "orphaned" /\ \A i \in Call : i # k => calls'[i] = calls[i]
    BY <1>0, <2>3, AnswerEffect DEF FreeCall
  <2>5. \E j : Lost' \subseteq Lost \union {j}
    <3>1. CASE UNCHANGED payload
      <4>1. Lost' \subseteq Lost
        BY <2>1, <2>2, <2>4, <3>1 DEF Lost, Answered
      <4>2. QED
        BY <4>1
    <3>2. ASSUME NEW j \in Job, payload' = [payload EXCEPT ![j] = calls[k].msg]
          PROVE  Lost' \subseteq Lost \union {j}
      BY <1>0, <2>1, <2>2, <2>4, <3>2 DEF Lost, Answered, RowTypes
    <3>3. QED
      BY <1>6, <3>1, <3>2 DEF Enqueue
  <2>6. Gone' \subseteq Gone \ {k} /\ Unseen' \subseteq Unseen
    BY <1>f, <2>1, <2>2, <2>4, NothingUnseen DEF Gone
  <2>7. CASE c.stage = "orphaned"
    <3>1. k \in Gone
      BY <2>1, <2>2, <2>7 DEF Gone, Sends
    <3>2. QED
      BY <1>c, <2>2, <2>5, <2>6, <3>1
  <2>8. CASE c.stage = "open" /\ Lose
    BY <1>b, <2>5, <2>6, <2>8
  <2>9. CASE c.stage = "open" /\ ~Lose
    <3>1. PICK j \in Job : /\ payload' = [payload EXCEPT ![j] = calls[k].msg]
                           /\ Answer(k, Queued(k, j))
      BY <1>6, <2>9 DEF Enqueue
    <3>2. /\ Queued(k, j) \in CallType /\ Queued(k, j).stage = "answered"
          /\ Queued(k, j).op = "send" /\ Queued(k, j).code = 202 /\ Queued(k, j).job = j
      BY <1>0, <2>1, <2>2, RepliedType, WithJob DEF Queued, StatusCode
    <3>3. calls'[k] = Queued(k, j)
      BY <1>0, <2>1, <2>9, <3>1, <3>2, AnswerEffect
    <3>4. Lost' \subseteq Lost
      BY <1>0, <2>1, <2>2, <2>4, <3>1, <3>2, <3>3 DEF Lost, Answered, RowTypes
    <3>5. QED
      BY <1>a, <2>2, <2>6, <3>4
  <2>10. QED
    BY <2>2, <2>7, <2>8, <2>9
<1>7. CASE Workers \/ UNCHANGED vars
  <2>1. UNCHANGED <<payload, direct, calls, known, sent, losses>>
    BY <1>7 DEF Workers, vars, application
  <2>2. Lost' = Lost /\ Gone' = Gone /\ Unseen' \subseteq Unseen
    BY <2>1, NothingUnseen DEF Lost, Answered, Gone, Heard
  <2>3. QED
    BY <1>a, <2>1, <2>2 DEF MayLose
<1>8. QED
    BY <1>1, <1>2, <1>3, <1>4, <1>5, <1>6, <1>7 DEF Next

LEMMA AccountsKept == Spec => [](OnceInv /\ Paid(Lost, Gone, Unseen, losses))
<1>1. Init => OnceInv
    BY DEF Init, OnceInv, OneWaited, WaitedIsAll, OneKnownRow, SentIsAll, Waited, FreeCall
<1>2. Init => Paid(Lost, Gone, Unseen, losses)
  <2> SUFFICES ASSUME Init PROVE Paid(Lost, Gone, Unseen, losses)
    OBVIOUS
  <2>1. Lost = {} /\ Gone = {} /\ Unseen = {} /\ losses = 0
    BY DEF Init, Lost, Gone, Unseen, FreeCall
  <2>2. QED
    BY <2>1, FS_EmptySet DEF Paid
<1>3. QED
    BY <1>1, <1>2, NextOnceInv, NextPaid, NextRows, Invariance, PTL DEF Spec

\* A row whose id never reached the application was lost by a call of its own.
THEOREM LostJobsArePaidFor == Spec => []LostJobsNeedFaults
<1>1. Inv /\ Paid(Lost, Gone, Unseen, losses) => LostJobsNeedFaults
    BY FS_CardinalityType DEF Paid, LostJobsNeedFaults, Inv, RowInv, RowTypes
<1>2. QED
    BY <1>1, AccountsKept, Invariance, PTL

(***************************************************************************)
(* Every delivery beyond the first of each message is charged to a fault   *)
(* or to a lost call: the queue has a fault to blame for what it had       *)
(* accepted in vain, a row that was lost and a synchronous delivery that   *)
(* was not seen have a lost call to blame, and the others are one for each *)
(* message.                                                                *)
(***************************************************************************)
LEMMA UnionCounts ==
    ASSUME NEW S, IsFiniteSet(S), NEW T, IsFiniteSet(T), NEW R, R \subseteq S \union T
    PROVE  /\ IsFiniteSet(R) /\ Cardinality(R) \in Nat
           /\ Cardinality(S) \in Nat /\ Cardinality(T) \in Nat
           /\ Cardinality(R) <= Cardinality(S) + Cardinality(T)
<1>1. IsFiniteSet(S \intersect T)
    BY FS_Subset
<1>2. /\ IsFiniteSet(S \union T)
      /\ Cardinality(S \union T)
            = Cardinality(S) + Cardinality(T) - Cardinality(S \intersect T)
    BY FS_Union
<1>3. /\ Cardinality(S) \in Nat /\ Cardinality(T) \in Nat
      /\ Cardinality(S \intersect T) \in Nat
    BY <1>1, FS_CardinalityType
<1>4. /\ IsFiniteSet(R) /\ Cardinality(R) \in Nat
      /\ Cardinality(R) <= Cardinality(S \union T)
    BY <1>2, SubsetPaid
<1>5. QED
    BY <1>2, <1>3, <1>4

\* The part of a finite set that is taken, and what is left of it.
LEMMA PartsCount ==
    ASSUME NEW S, IsFiniteSet(S), NEW T, T \subseteq S
    PROVE  /\ IsFiniteSet(T) /\ IsFiniteSet(S \ T)
           /\ Cardinality(T) \in Nat /\ Cardinality(S \ T) \in Nat
           /\ Cardinality(T) + Cardinality(S \ T) = Cardinality(S)
<1>1. T = S \intersect T
    OBVIOUS
<1>2. IsFiniteSet(S \ T) /\ Cardinality(S \ T) = Cardinality(S) - Cardinality(T)
    BY <1>1, FS_Difference
<1>3. IsFiniteSet(T)
    BY FS_Subset
<1>4. /\ Cardinality(T) \in Nat /\ Cardinality(S \ T) \in Nat
      /\ Cardinality(S) \in Nat
    BY <1>2, <1>3, FS_CardinalityType
<1>5. QED
    BY <1>2, <1>3, <1>4

LEMMA OneEach ==
    ASSUME NEW T, IsFiniteSet(T), NEW S, NEW f, f \in [S -> T],
           \A x, y \in S : f[x] = f[y] => x = y
    PROVE  IsFiniteSet(S) /\ Cardinality(S) \in Nat /\ Cardinality(S) <= Cardinality(T)
<1>1. f \in Injection(S, T)
    BY DEF Injection, IsInjective
<1>2. QED
    BY <1>1, FS_Injection, FS_CardinalityType

\* Only one delivery at a time makes a message one of those delivered.
LEMMA NextDelivered ==
    Inv /\ [Next]_vars /\ IsFiniteSet(Delivered) => IsFiniteSet(Delivered)'
<1> SUFFICES ASSUME Inv, [Next]_vars, IsFiniteSet(Delivered) PROVE IsFiniteSet(Delivered')
    OBVIOUS
<1>0. /\ RowTypes /\ RowsCoherent /\ AppTypes
    BY DEF Inv, RowInv
<1>1. ASSUME NEW x, Delivered' \subseteq Delivered \union {x} PROVE IsFiniteSet(Delivered')
    BY <1>1, OneMorePaid
<1>2. CASE UNCHANGED <<payload, accepted, direct>>
  <2>1. Delivered' \subseteq Delivered \union {Nothing}
    BY <1>2 DEF Delivered
  <2>2. QED
    BY <1>1, <2>1
<1>3. ASSUME NEW k \in Call, Deliver(k) PROVE IsFiniteSet(Delivered')
  <2>1. /\ UNCHANGED <<payload, accepted>>
        /\ direct' = direct \/ direct' = [direct EXCEPT ![calls[k].msg] = @ + 1]
    BY <1>3 DEF Deliver, queue
  <2>2. \A m \in Message : m # calls[k].msg => direct'[m] = direct[m]
    BY <1>0, <2>1 DEF AppTypes
  <2>3. Delivered' \subseteq Delivered \union {calls[k].msg}
    BY <2>1, <2>2 DEF Delivered
  <2>4. QED
    BY <1>1, <2>3
<1>4. ASSUME NEW k \in Call, Enqueue(k) PROVE IsFiniteSet(Delivered')
  <2>1. CASE UNCHANGED <<queue, payload>>
    BY <1>2, <1>4, <2>1 DEF Enqueue, queue
  <2>2. ASSUME NEW j \in Job, Queue!Submit(j), payload' = [payload EXCEPT ![j] = calls[k].msg]
        PROVE  IsFiniteSet(Delivered')
    <3>1. /\ UNCHANGED <<accepted, direct>> /\ accepted[j] = 0
          /\ \A i \in Job : i # j => payload'[i] = payload[i]
      BY <1>0, <1>4, <2>2 DEF Enqueue, Queue!Submit, RowTypes, RowsCoherent
    <3>2. Delivered' \subseteq Delivered \union {Nothing}
      BY <3>1 DEF Delivered
    <3>3. QED
      BY <1>1, <3>2
  <2>3. QED
    BY <1>4, <2>1, <2>2 DEF Enqueue
<1>5. CASE Workers
  <2>1. UNCHANGED <<payload, direct>>
    BY <1>5 DEF Workers
  <2>2. ASSUME NEW j \in Job, Queue!Work(j) PROVE IsFiniteSet(Delivered')
    <3>1. \A i \in Job : i # j => accepted'[i] = accepted[i]
      BY <1>0, <2>2, WorkEffect
    <3>2. Delivered' \subseteq Delivered \union {payload[j]}
      BY <2>1, <3>1 DEF Delivered
    <3>3. QED
      BY <1>1, <3>2
  <2>3. QED
    BY <1>2, <1>5, <2>1, <2>2 DEF Workers, queue
<1>6. ASSUME NEW k \in Call,
             \/ \E m \in Message, op \in Sends : Send(k, m, op)
             \/ \E j \in Job, op \in Reads : Read(k, j, op)
             \/ GetJob(k) \/ GetCodeExecution(k) \/ Return(k) \/ Abandon(k) \/ Drop(k)
      PROVE  IsFiniteSet(Delivered')
  <2>1. UNCHANGED <<payload, accepted, direct>>
    BY <1>6 DEF Send, Read, GetJob, GetCodeExecution, Return, Abandon, Drop, queue
  <2>2. QED
    BY <1>2, <2>1
<1>7. QED
    BY <1>2, <1>3, <1>4, <1>5, <1>6 DEF Next, vars, queue

LEMMA DeliveredFinite == Spec => []IsFiniteSet(Delivered)
<1>1. Init => IsFiniteSet(Delivered)
  <2> SUFFICES ASSUME Init PROVE IsFiniteSet(Delivered)
    OBVIOUS
  <2>1. Delivered = {}
    BY JobClientsAssumption DEF Init, Delivered
  <2>2. QED
    BY <2>1, FS_EmptySet
<1>2. QED
    BY <1>1, NextDelivered, Invariance, PTL DEF Spec

\* The rows the application knows of, or is about to be told of.
Followed(j) == payload[j] # Nothing /\ j \notin Lost

\* It follows one row that has not failed, and none of a message it heard of.
LEMMA OneFollowed ==
    ASSUME Inv, OnceInv, NEW i \in Job, Followed(i), status[i] # "failed"
    PROVE  /\ payload[i] \in Message /\ ~Heard(payload[i])
           /\ \A j \in Job : /\ Followed(j) /\ status[j] # "failed"
                             /\ payload[j] = payload[i]
                             => i = j
<1>0. RowTypes /\ AppTypes /\ CallsCoherent /\ AppCoherent
    BY DEF Inv, RowInv
<1>1. payload[i] \in Message
    BY <1>0 DEF RowTypes, Followed
<1>2. ASSUME NEW j \in Job, Followed(j)
      PROVE  \/ j \in known[payload[j]]
             \/ \E k \in Call : /\ Waited(k, payload[j]) /\ calls[k].job = j
                                /\ calls[k].op = "send"
  <2>1. CASE \E m \in Message : j \in known[m]
    BY <1>0, <2>1 DEF AppCoherent
  <2>2. ASSUME NEW k \in Call, calls[k].stage = "answered", calls[k].op = "send",
               calls[k].code = 202, calls[k].job = j
        PROVE  Waited(k, payload[j]) /\ calls[k].job = j /\ calls[k].op = "send"
    BY <1>0, <2>2 DEF CallsCoherent, SendCoherent, Waited, Sends
  <2>3. QED
    BY <1>2, <2>1, <2>2 DEF Followed, Lost, Answered
<1>3. ~Heard(payload[i])
  <2>1. ASSUME NEW k \in Call, calls[k].stage = "answered", calls[k].op = "sync",
               calls[k].msg = payload[i]
        PROVE  Waited(k, payload[i])
    BY <2>1 DEF Waited, Sends
  <2>2. CASE i \in known[payload[i]]
    BY <1>1, <2>1, <2>2 DEF Heard, OnceInv, SentIsAll, WaitedIsAll
  <2>3. ASSUME NEW k \in Call, Waited(k, payload[i]), calls[k].op = "send"
        PROVE  ~Heard(payload[i])
    BY <1>1, <2>1, <2>3 DEF Heard, OnceInv, OneWaited, WaitedIsAll
  <2>4. QED
    BY <1>2, <2>2, <2>3
<1>4. ASSUME NEW j \in Job, Followed(j), status[j] # "failed", payload[j] = payload[i]
      PROVE  i = j
    BY <1>1, <1>2, <1>4 DEF OnceInv, OneWaited, OneKnownRow, WaitedIsAll
<1>5. QED
    BY <1>1, <1>3, <1>4

\* A delivery of the queue that is not in vain is the last of a job that runs or
\* has completed.
LEMMA LastDelivery ==
    ASSUME Inv, NEW d \in QueuedDeliveries, d \notin Queue!InVain
    PROVE  /\ d[1] \in Job /\ d = <<d[1], accepted[d[1]]>>
           /\ accepted[d[1]] > 0 /\ payload[d[1]] \in Message
           /\ status[d[1]] # "failed"
<1>0. RowTypes /\ RowsCoherent
    BY DEF Inv, RowInv
<1>1. PICK j \in Job : d \in {j} \X (1 .. accepted[j])
    BY DEF QueuedDeliveries
<1>2. /\ d = <<j, d[2]>> /\ d[1] = j /\ d[2] \in 1 .. accepted[j]
      /\ accepted[j] \in Nat /\ attempt[j] \in 0 .. MaxAttempts
      /\ accepted[j] <= attempt[j] /\ MaxAttempts \in Nat
    BY <1>0, <1>1, JobClientsAssumption DEF RowTypes, RowsCoherent
<1>3. d[2] \in 1 .. MaxAttempts /\ d \in Job \X (1 .. MaxAttempts)
    BY <1>1, <1>2
<1>4. ~(d[2] < accepted[j]) /\ ~(d[2] = accepted[j] /\ status[j] = "failed")
    BY <1>2, <1>3 DEF Queue!InVain
<1>5. d[2] = accepted[j] /\ accepted[j] > 0 /\ status[j] # "failed"
    BY <1>2, <1>4
<1>6. payload[j] \in Message
    BY <1>0, <1>5 DEF RowsCoherent
<1>7. QED
    BY <1>2, <1>5, <1>6

\* What the application heard of, of ?sync=true.
HeardOf == {m \in Delivered : direct[m] > 0 /\ Heard(m)}

LEMMA DirectCount ==
    ASSUME Inv, IsFiniteSet(Unseen), IsFiniteSet(HeardOf)
    PROVE  /\ Cardinality(DirectDeliveries) \in Nat
           /\ Cardinality(DirectDeliveries) <= Cardinality(Unseen) + Cardinality(HeardOf)
<1> DEFINE Seen == DirectDeliveries \ Unseen
           f == [d \in Seen |-> d[1]]
<1>0. direct \in [Message -> Nat]
    BY DEF Inv, AppTypes
<1>1. ASSUME NEW d \in Seen
      PROVE  d[1] \in HeardOf /\ d = <<d[1], direct[d[1]]>>
  <2>1. PICK m \in Message : d \in {m} \X (1 .. direct[m])
    BY DEF DirectDeliveries
  <2>2. /\ d = <<m, d[2]>> /\ d[1] = m /\ d[2] \in 1 .. direct[m] /\ direct[m] \in Nat
        /\ d[2] \in Nat /\ d \in Message \X Nat /\ 0 < d[2] /\ d[2] <= direct[m]
    BY <1>0, <2>1
  <2>3. d[2] = direct[m] /\ Heard(m)
    BY <2>2 DEF Unseen
  <2>4. QED
    BY <2>2, <2>3 DEF HeardOf, Delivered
<1>2. f \in [Seen -> HeardOf]
    BY <1>1
<1>3. \A x, y \in Seen : f[x] = f[y] => x = y
    BY <1>1
<1>4. DirectDeliveries \subseteq Unseen \union Seen
    OBVIOUS
<1> HIDE DEF f, Seen
<1>5. IsFiniteSet(Seen) /\ Cardinality(Seen) \in Nat /\ Cardinality(Seen) <= Cardinality(HeardOf)
    BY <1>2, <1>3, OneEach
<1>6. /\ Cardinality(HeardOf) \in Nat /\ Cardinality(Unseen) \in Nat
      /\ Cardinality(DirectDeliveries) \in Nat
      /\ Cardinality(DirectDeliveries) <= Cardinality(Unseen) + Cardinality(Seen)
    BY <1>4, <1>5, UnionCounts, FS_CardinalityType
<1>7. QED
    BY <1>5, <1>6

LEMMA QueuedCount ==
    ASSUME Inv, OnceInv, IsFiniteSet(Lost), IsFiniteSet(Delivered)
    PROVE  /\ Cardinality(QueuedDeliveries) \in Nat
           /\ Cardinality(QueuedDeliveries)
                <= faults + Cardinality(Lost) + Cardinality(Delivered \ HeardOf)
<1> DEFINE Good == QueuedDeliveries \ Queue!InVain
           Left == {d \in Good : d[1] \in Lost}
           Known == {d \in Good : d[1] \notin Lost}
           f == [d \in Left |-> d[1]]
           g == [d \in Known |-> payload[d[1]]]
<1>0. IsFiniteSet(Queue!InVain) /\ Cardinality(Queue!InVain) <= faults /\ faults \in Nat
    BY JobClientsAssumption DEF Inv, RowInv, VainInv, RowTypes
<1>1. ASSUME NEW d \in Good
      PROVE  /\ d[1] \in Job /\ d = <<d[1], accepted[d[1]]>>
             /\ accepted[d[1]] > 0 /\ payload[d[1]] \in Message
             /\ status[d[1]] # "failed"
    BY LastDelivery
<1>2. f \in [Left -> Lost] /\ \A x, y \in Left : f[x] = f[y] => x = y
    BY <1>1
<1>3. ASSUME NEW d \in Known PROVE Followed(d[1])
    BY <1>1, JobClientsAssumption DEF Followed
<1>4. g \in [Known -> Delivered \ HeardOf]
  <2> SUFFICES ASSUME NEW d \in Known PROVE payload[d[1]] \in Delivered \ HeardOf
    OBVIOUS
  <2>1. ~Heard(payload[d[1]])
    BY <1>1, <1>3, OneFollowed
  <2>2. QED
    BY <1>1, <2>1 DEF Delivered, HeardOf
<1>5. \A x, y \in Known : g[x] = g[y] => x = y
  <2> SUFFICES ASSUME NEW x \in Known, NEW y \in Known, payload[x[1]] = payload[y[1]]
               PROVE  x = y
    OBVIOUS
  <2>1. x[1] = y[1]
    BY <1>1, <1>3, OneFollowed
  <2>2. QED
    BY <1>1, <2>1
<1>6. /\ QueuedDeliveries \subseteq Queue!InVain \union Good
      /\ Good \subseteq Left \union Known
    OBVIOUS
<1> HIDE DEF f, g, Good, Left, Known
<1>7. IsFiniteSet(Left) /\ Cardinality(Left) \in Nat /\ Cardinality(Left) <= Cardinality(Lost)
    BY <1>2, OneEach
<1>8. /\ IsFiniteSet(Known) /\ Cardinality(Known) \in Nat
      /\ Cardinality(Known) <= Cardinality(Delivered \ HeardOf)
  <2>1. IsFiniteSet(Delivered \ HeardOf)
    BY FS_Difference
  <2>2. QED
    BY <1>4, <1>5, <2>1, OneEach
<1>9. /\ IsFiniteSet(Good) /\ Cardinality(Good) \in Nat
      /\ Cardinality(Good) <= Cardinality(Left) + Cardinality(Known)
    BY <1>6, <1>7, <1>8, UnionCounts
<1>10. /\ Cardinality(QueuedDeliveries) \in Nat /\ Cardinality(Queue!InVain) \in Nat
       /\ Cardinality(QueuedDeliveries) <= Cardinality(Queue!InVain) + Cardinality(Good)
    BY <1>0, <1>6, <1>9, UnionCounts
<1>11. Cardinality(Lost) \in Nat /\ Cardinality(Delivered \ HeardOf) \in Nat
    BY FS_CardinalityType, FS_Difference
<1>12. QED
    BY <1>0, <1>7, <1>8, <1>9, <1>10, <1>11

\* Over queue, retries, synchronous sends and resubmissions of all messages
\* together, each delivery beyond the first of its message was paid for by a
\* fault of the queue or a lost call.
THEOREM DuplicatesPaidForInFull == Spec => []DuplicatesArePaidFor
<1>1. ASSUME Inv, OnceInv, Paid(Lost, Gone, Unseen, losses), IsFiniteSet(Delivered)
      PROVE  DuplicatesArePaidFor
  <2>1. HeardOf \subseteq Delivered
    BY DEF HeardOf
  <2>2. /\ IsFiniteSet(HeardOf) /\ Cardinality(HeardOf) \in Nat
        /\ Cardinality(Delivered \ HeardOf) \in Nat
        /\ Cardinality(HeardOf) + Cardinality(Delivered \ HeardOf) = Cardinality(Delivered)
    BY <1>1, <2>1, PartsCount
  <2>3. /\ Cardinality(Lost) \in Nat /\ Cardinality(Gone) \in Nat
        /\ Cardinality(Unseen) \in Nat /\ faults \in Nat /\ losses \in Nat
        /\ Cardinality(Lost) + Cardinality(Gone) + Cardinality(Unseen) <= losses
    BY <1>1, FS_CardinalityType, JobClientsAssumption DEF Paid, Inv, RowInv, RowTypes
  <2>4. /\ Cardinality(DirectDeliveries) \in Nat
        /\ Cardinality(DirectDeliveries) <= Cardinality(Unseen) + Cardinality(HeardOf)
    BY <1>1, <2>2, DirectCount DEF Paid
  <2>5. /\ Cardinality(QueuedDeliveries) \in Nat
        /\ Cardinality(QueuedDeliveries)
             <= faults + Cardinality(Lost) + Cardinality(Delivered \ HeardOf)
    BY <1>1, QueuedCount DEF Paid
  <2>6. Cardinality(Delivered) \in Nat
    BY <1>1, FS_CardinalityType
  <2>7. QED
    BY <2>2, <2>3, <2>4, <2>5, <2>6 DEF DuplicatesArePaidFor
<1>2. QED
    BY <1>1, AccountsKept, DeliveredFinite, Invariance, PTL
=============================================================================
