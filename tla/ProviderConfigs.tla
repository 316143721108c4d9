-------------------------- MODULE ProviderConfigs --------------------------
(***************************************************************************)
(* The credentials tenants configure, and the executions that use them: a  *)
(* worker's attempt at a job, or a handler's synchronous path.  Either     *)
(* finds the tenant, reads the row, opens it with the tenant's data key    *)
(* and calls the provider, while the tenant may write the row again.       *)
(***************************************************************************)
EXTENDS Naturals

CONSTANTS
    Tenant,
    Execution,      \* executions in flight at the same time
    MaxWrites,      \* bound: configurations stored
    MaxFaults,      \* bound: queries that fail
    NoConfig

ASSUME ConfigsAssumption == Tenant # {} /\ MaxWrites \in Nat /\ MaxFaults \in Nat

VARIABLES
    rows,           \* the configuration tables, keyed by tenant and provider
    writes,         \* configurations stored so far; they differ in their number
    faults,         \* queries that failed so far
    pc,             \* where each execution is
    tenant,         \* the tenant of each execution
    provider,       \* the provider it asks for
    creds,          \* the credentials its provider was built with
    floor           \* what the row held when the execution began (history)

vars == <<rows, writes, faults, pc, tenant, provider, creds, floor>>

(***************************************************************************)
(* google and twilio share oauth_provider_configs, two columns; smtp and   *)
(* judge0 stand for email_provider_configs and code_provider_configs, one  *)
(* encrypted JSON value: `body` says whether it decodes into the           *)
(* provider's struct, and whether a Judge0 one names a server.  `key` is   *)
(* the tenant whose data key sealed it; `id` (client_id, or the server)    *)
(* and `secret` (client_secret, or the token) are the writes they are of.  *)
(***************************************************************************)
SharedTable == {"google", "twilio"}
JsonTable == {"smtp", "judge0"}
Provider == SharedTable \union JsonTable

Body == {"whole", "no_url", "undecodable"}

Config == [key : Tenant, id : 1 .. MaxWrites, secret : 1 .. MaxWrites, body : Body]

\* The defaults of Judge0: JUDGE0_URL, the deployment's server, and no token.
Deployment == [key |-> NoConfig, id |-> 0, secret |-> 0, body |-> "whole"]

\* What a provider is built with: a row, the defaults, or a row laid over them.
Credentials ==
    [key : Tenant, id : 0 .. MaxWrites, secret : 1 .. MaxWrites, body : Body] \union {Deployment}

\* The absence of a row is no row.
ASSUME NoConfigAssumption == NoConfig \notin Credentials

Version(c) == IF c = NoConfig THEN 0 ELSE c.secret

Init ==
    /\ rows = [t \in Tenant |-> [p \in Provider |-> NoConfig]]
    /\ writes = 0 /\ faults = 0
    /\ pc = [e \in Execution |-> "idle"]
    /\ tenant = [e \in Execution |-> CHOOSE t \in Tenant : TRUE]
    /\ provider = [e \in Execution |-> "google"]
    /\ creds = [e \in Execution |-> NoConfig]
    /\ floor = [e \in Execution |-> 0]
-----------------------------------------------------------------------------
(***************************************************************************)
(* INSERT ... ON CONFLICT (tenant_id, provider) DO UPDATE.                 *)
(***************************************************************************)
\* Mutant: SET client_id only, the secret of an existing row stays.
OnConflictIdOnly(old, new) == IF old = NoConfig THEN new ELSE [new EXCEPT !.secret = old.secret]

OnConflict(old, new) == new

Store(t, p, body) ==
    /\ writes < MaxWrites
    /\ writes' = writes + 1
    /\ rows' = [rows EXCEPT ![t][p] =
                  OnConflict(@, [key |-> t, id |-> writes', secret |-> writes', body |-> body])]
    /\ UNCHANGED <<faults, pc, tenant, provider, creds, floor>>

\* The three statements, one per table.
UpsertProviderConfig(t) == \E p \in SharedTable : Store(t, p, "whole")
UpsertEmailProviderConfig(t, body) == Store(t, "smtp", body)
UpsertCodeProviderConfig(t, body) == Store(t, "judge0", body)

\* The name of the provider in the path is not checked: each of these two
\* handlers also replaces what the other one stored under that name.
SetProviderConfig(t) == UpsertProviderConfig(t)
SetSMSProviderConfig(t) == UpsertProviderConfig(t)

\* Any valid JSON value is stored.
SetEmailProviderConfig(t) == \E body \in Body \ {"no_url"} : UpsertEmailProviderConfig(t, body)
SetCodeProviderConfig(t) == \E body \in Body : UpsertCodeProviderConfig(t, body)
-----------------------------------------------------------------------------
(***************************************************************************)
(* Executions.                                                             *)
(***************************************************************************)
\* ExecuteJob: GetTenantByID; or the authenticated tenant of a request.
Begin(e, t, p) ==
    /\ pc[e] = "idle"
    /\ pc' = [pc EXCEPT ![e] = "building"]
    /\ tenant' = [tenant EXCEPT ![e] = t]
    /\ provider' = [provider EXCEPT ![e] = p]
    /\ floor' = [floor EXCEPT ![e] = Version(rows[t][p])]
    /\ UNCHANGED <<rows, writes, faults, creds>>

End(e) ==
    /\ pc' = [pc EXCEPT ![e] = "idle"]
    /\ creds' = [creds EXCEPT ![e] = NoConfig]
    /\ floor' = [floor EXCEPT ![e] = 0]
    /\ UNCHANGED <<rows, writes, tenant, provider>>

CallWith(e, c) ==
    /\ creds' = [creds EXCEPT ![e] = c]
    /\ pc' = [pc EXCEPT ![e] = "calling"]
    /\ UNCHANGED <<rows, writes, tenant, provider, floor>>

\* WHERE tenant_id = $1 AND provider = $2.
Select(t, p) == rows[t][p]

\* Mutant: no row is taken for a row of empty columns.
OpensZeroRow(c, t) == c = NoConfig \/ (c.key = t /\ c.body # "undecodable")

\* There is a row, DecryptWithDataKey and json.Unmarshal succeed.
Opens(c, t) == c # NoConfig /\ c.key = t /\ c.body # "undecodable"

Build(e) ==
    /\ pc[e] = "building"
    /\ LET c == Select(tenant[e], provider[e])
       IN  IF Opens(c, tenant[e]) THEN CallWith(e, c) ELSE End(e)
    /\ UNCHANGED faults

buildProvider(e) == provider[e] = "google" /\ Build(e)
buildSMSProvider(e) == provider[e] = "twilio" /\ Build(e)
buildEmailProvider(e) == provider[e] = "smtp" /\ Build(e)

\* Mutant: the stored server is never used, the stored token always is.
OverrideToken(c) == [c EXCEPT !.id = Deployment.id]

\* The row laid over the defaults: its server if it names one, its token in
\* any case, an empty one too.
Override(c) == IF c.body = "no_url" THEN [c EXCEPT !.id = Deployment.id] ELSE c

\* What does not open is passed over, and leaves the defaults.
buildCodeProvider(e) ==
    /\ provider[e] = "judge0"
    /\ pc[e] = "building"
    /\ LET c == Select(tenant[e], "judge0")
       IN  CallWith(e, IF Opens(c, tenant[e]) THEN Override(c) ELSE Deployment)
    /\ UNCHANGED faults

\* Mutant: every provider falls back, as judge0 does.
FallsBackAlways(p) == TRUE

\* Which providers are built although their query failed.
FallsBack(p) == p = "judge0"

QueryFails(e) ==
    /\ pc[e] = "building"
    /\ faults < MaxFaults
    /\ faults' = faults + 1
    /\ IF FallsBack(provider[e]) THEN CallWith(e, Deployment) ELSE End(e)

Call(e) == pc[e] = "calling" /\ End(e) /\ UNCHANGED faults

Next ==
    \/ \E t \in Tenant :
        \/ SetProviderConfig(t) \/ SetSMSProviderConfig(t)
        \/ SetEmailProviderConfig(t) \/ SetCodeProviderConfig(t)
    \/ \E e \in Execution :
        \/ \E t \in Tenant, p \in Provider : Begin(e, t, p)
        \/ buildProvider(e) \/ buildSMSProvider(e) \/ buildEmailProvider(e) \/ buildCodeProvider(e)
        \/ QueryFails(e) \/ Call(e)

Spec == Init /\ [][Next]_vars
-----------------------------------------------------------------------------
(***************************************************************************)
(* Type invariant.                                                         *)
(***************************************************************************)
\* Every variable stays in its type, and nothing is called without credentials.
TypeOK ==
    /\ rows \in [Tenant -> [Provider -> Config \union {NoConfig}]]
    /\ writes \in 0 .. MaxWrites /\ faults \in 0 .. MaxFaults
    /\ pc \in [Execution -> {"idle", "building", "calling"}]
    /\ tenant \in [Execution -> Tenant] /\ provider \in [Execution -> Provider]
    /\ creds \in [Execution -> Credentials \union {NoConfig}]
    /\ floor \in [Execution -> 0 .. MaxWrites]
    /\ \A e \in Execution : (creds[e] # NoConfig) = (pc[e] = "calling")

(***************************************************************************)
(* Safety.                                                                 *)
(***************************************************************************)
Calling(e) == pc[e] = "calling"

\* A provider is called with what that tenant itself stored for it, and what
\* authenticates it is never sent to a server it was not stored with: id and
\* secret are of one write.  Only Judge0 may be called on the deployment's
\* server instead: without a token, or with the one of a row without a server.
OwnCredentials ==
    \A e \in Execution : Calling(e) =>
        LET c == creds[e]
        IN  \/ provider[e] = "judge0" /\ c = Deployment
            \/ /\ c.key = tenant[e] /\ c.body # "undecodable"
               /\ \/ c.id = c.secret
                  \/ provider[e] = "judge0" /\ c.body = "no_url" /\ c.id = Deployment.id

\* A write that was answered before an execution began, or a newer one, is
\* what the execution uses, even if it is the retry of an older job; only
\* Judge0 may be called with the defaults instead.
NeverOutdated ==
    \A e \in Execution : Calling(e) =>
        \/ Version(creds[e]) >= floor[e]
        \/ provider[e] = "judge0" /\ creds[e] = Deployment

\* "Falls back to the JUDGE0_URL environment variable when no tenant config is
\* stored": with one stored since before the execution began, it does not.
FallbackOnlyIfUnset ==
    \A e \in Execution : Calling(e) /\ creds[e] = Deployment => floor[e] = 0
=============================================================================
