------------------------------- MODULE Tenants -------------------------------
(***************************************************************************)
(* Tenants and the keys their secrets are sealed with, over several server *)
(* processes on one database.  A tenant's data key is stored sealed under  *)
(* the ROOT_ENCRYPTION_KEY of the process that created the tenant; client  *)
(* secrets and tokens are sealed with the data key.  Every process opens   *)
(* only what its own root key opens, a restart may give it another one,    *)
(* and an authorization may begin at one process and end at another.       *)
(* A tenant stands for its id, its API key, its data key and its OAuth     *)
(* client: each is drawn once for it and never changed.                    *)
(***************************************************************************)
EXTENDS Naturals

CONSTANTS
    Process,        \* server processes on the database
    RootKey,        \* values ROOT_ENCRYPTION_KEY is ever given
    Tenant,         \* tenants that may be created
    User,           \* users of the tenants' applications
    Request,        \* requests the processes have under way at once
    Trip,           \* bound: authorizations begun
    MaxFaults,      \* bound: faults of one behaviour
    Nothing         \* NULL, and the value of a field that is not set

ASSUME TenantsAssumption ==
    /\ MaxFaults \in Nat
    /\ Nothing \notin RootKey \union Tenant \union User \union Process \union Trip

VARIABLES
    root,           \* the root key of each process
    tenants,        \* tenants.encrypted_data_key: the root key that opens it
    holders,        \* tenants whose API key reached its client
    config,         \* the key that opens the tenant's encrypted_client_secret
    tokens,         \* oauth_tokens, by tenant and user
    requests,       \* requests under way
    trips,          \* authorizations: a browser and what the provider granted it
    given,          \* tokens GetToken answered with, by tenant and user
    faults          \* faults so far

rows == <<tenants, config, tokens>>
vars == <<root, tenants, holders, config, tokens, requests, trips, given, faults>>

Key == Tenant \union RootKey

\* A token as the provider issued it, and as a row: with the key it is sealed with.
Grant == [client : Tenant, user : User]
Token == [key : Key, grant : Grant]

Idle == [stage |-> "free", proc |-> Nothing, tenant |-> Nothing, user |-> Nothing,
         trip |-> Nothing, grant |-> Nothing]
NoTrip == [stage |-> "free", state |-> Nothing, grant |-> Nothing]

Init ==
    /\ root \in [Process -> RootKey]
    /\ tenants = [t \in Tenant |-> Nothing]
    /\ holders = {}
    /\ config = [t \in Tenant |-> Nothing]
    /\ tokens = [t \in Tenant |-> [u \in User |-> Nothing]]
    /\ requests = [r \in Request |-> Idle]
    /\ trips = [x \in Trip |-> NoTrip]
    /\ given = [t \in Tenant |-> [u \in User |-> {}]]
    /\ faults = 0

At(r, stage) == requests[r].stage = stage
Become(r, request) == requests' = [requests EXCEPT ![r] = request]
Answer(r) == Become(r, Idle)
Proceed(r, stage) == Become(r, [requests[r] EXCEPT !.stage = stage])
-----------------------------------------------------------------------------
(***************************************************************************)
(* The keys.                                                               *)
(***************************************************************************)
\* Mutant: a cipher without authentication, which opens anything to something.
DataKeyGarbled(p, t) == IF root[p] = tenants[t] THEN t ELSE root[p]

\* DataKey of tenant t at process p, or an error.
DataKey(p, t) == IF root[p] = tenants[t] THEN t ELSE Nothing

HasKey(p, t) == DataKey(p, t) # Nothing

\* DecryptWithDataKey succeeds only with the key the ciphertext was sealed with.
Opens(p, t, sealed) == HasKey(p, t) /\ DataKey(p, t) = sealed

\* buildProvider: the tenant's client, when its secret is stored and opens.
Builds(p, t) == config[t] # Nothing /\ Opens(p, t, config[t])
-----------------------------------------------------------------------------
(***************************************************************************)
(* Provisioning.                                                           *)
(***************************************************************************)
BeginCreate(r, p) ==
    /\ At(r, "free")
    /\ Become(r, [Idle EXCEPT !.stage = "create", !.proc = p])
    /\ UNCHANGED <<root, rows, holders, trips, given, faults>>

\* Mutant: the two results are taken in the wrong order.
GenerateDataKeyPlain(p) == "unsealed"

\* GenerateDataKey: the key that opens the data key as it is stored.
GenerateDataKey(p) == root[p]

InsertTenant(t, sealed) == tenants' = [tenants EXCEPT ![t] = sealed]

\* Service.Create: the row of a tenant with fresh keys is committed.
Create(r) ==
    /\ At(r, "create")
    /\ \E t \in Tenant :
        /\ tenants[t] = Nothing
        /\ InsertTenant(t, GenerateDataKey(requests[r].proc))
        /\ Become(r, [requests[r] EXCEPT !.stage = "created", !.tenant = t])
    /\ UNCHANGED <<root, holders, config, tokens, trips, given, faults>>

\* Mutant: only the id is answered.
ShownNot(t) == {}

Shown(t) == {t}

\* 201 with the raw API key, shown once.
CreateTenant(r) ==
    /\ At(r, "created")
    /\ holders' = holders \union Shown(requests[r].tenant)
    /\ Answer(r)
    /\ UNCHANGED <<root, rows, trips, given, faults>>
-----------------------------------------------------------------------------
(***************************************************************************)
(* Requests with an API key.  AuthMiddleware needs no key of the process:  *)
(* the hash of the API key is looked up, and refused when it has no row.   *)
(***************************************************************************)
Operation == {"config", "authorize", "get", "delete"}

GetByAPIKey(t) == tenants[t] # Nothing

AuthMiddleware(r, p, t, u, op) ==
    /\ At(r, "free")
    /\ t \in holders /\ GetByAPIKey(t)
    /\ Become(r, [Idle EXCEPT !.stage = op, !.proc = p, !.tenant = t, !.user = u])
    /\ UNCHANGED <<root, rows, holders, trips, given, faults>>

SetProviderConfig(r) ==
    LET p == requests[r].proc
        t == requests[r].tenant
    IN  /\ At(r, "config")
        /\ config' = IF HasKey(p, t) THEN [config EXCEPT ![t] = DataKey(p, t)] ELSE config
        /\ Answer(r)
        /\ UNCHANGED <<root, tenants, holders, tokens, trips, given, faults>>

\* StatePayload: what of the authorization travels through the browser.  Its
\* nonce is compared with nothing, and its URI is only put into the answer.
StatePayload == [tenant_id : Tenant]

EncodeState(t) == [tenant_id |-> t]

DecodeState(state) == state.tenant_id

\* 302 to the consent page of the tenant's client, or 400.
Authorize(r) ==
    LET t == requests[r].tenant
    IN  /\ At(r, "authorize")
        /\ IF Builds(requests[r].proc, t)
           THEN \E x \in Trip, u \in User :
                    /\ trips[x].stage = "free"
                    /\ trips' = [trips EXCEPT ![x] =
                         [stage |-> "consent", state |-> EncodeState(t),
                          grant |-> [client |-> t, user |-> u]]]
           ELSE UNCHANGED trips
        /\ Answer(r)
        /\ UNCHANGED <<root, rows, holders, given, faults>>

\* SELECT by tenant and user, Nothing for pgx.ErrNoRows.
GetOAuthToken(t, u) == tokens[t][u]

\* GetOAuthToken, then DataKey: 404, 500, or the row and the key in hand.
GetToken(r) ==
    LET q == requests[r]
        row == GetOAuthToken(q.tenant, q.user)
    IN  /\ At(r, "get")
        /\ IF row # Nothing /\ Opens(q.proc, q.tenant, row.key)
           THEN Become(r, [q EXCEPT !.stage = "read", !.grant = row.grant])
           ELSE Answer(r)
        /\ UNCHANGED <<root, rows, holders, trips, given, faults>>

\* 200 with the token.
ServeToken(r) ==
    LET q == requests[r]
    IN  /\ At(r, "read")
        /\ given' = [given EXCEPT ![q.tenant][q.user] = @ \union {q.grant}]
        /\ Answer(r)
        /\ UNCHANGED <<root, rows, holders, trips, faults>>

\* refreshAndStore up to the provider, which refuses a refresh token of another
\* client; 502 also when it refuses for other reasons, or the row has none.
Refresh(r) ==
    LET q == requests[r]
    IN  /\ At(r, "read")
        /\ \/ /\ Builds(q.proc, q.tenant) /\ q.grant.client = q.tenant
              /\ Proceed(r, "refreshed")
           \/ Answer(r)
        /\ UNCHANGED <<root, rows, holders, trips, given, faults>>

UpsertOAuthToken(t, u, k, grant) ==
    tokens' = [tokens EXCEPT ![t][u] = [key |-> k, grant |-> grant]]

\* refreshAndStore: the new token is stored over whatever the row is by now.
StoreRefreshed(r) ==
    LET q == requests[r]
    IN  /\ At(r, "refreshed")
        /\ UpsertOAuthToken(q.tenant, q.user, DataKey(q.proc, q.tenant), q.grant)
        /\ given' = [given EXCEPT ![q.tenant][q.user] = @ \union {q.grant}]
        /\ Answer(r)
        /\ UNCHANGED <<root, tenants, holders, config, trips, faults>>

DeleteOAuthToken(t, u) == tokens' = [tokens EXCEPT ![t][u] = Nothing]

\* DeleteToken opens nothing, so it needs no key.
DeleteToken(r) ==
    LET q == requests[r]
    IN  /\ At(r, "delete")
        /\ DeleteOAuthToken(q.tenant, q.user)
        /\ Answer(r)
        /\ UNCHANGED <<root, tenants, holders, config, trips, given, faults>>
-----------------------------------------------------------------------------
(***************************************************************************)
(* The browser and the provider's consent page.                            *)
(***************************************************************************)
Consent(x) ==
    /\ trips[x].stage = "consent"
    /\ trips' = [trips EXCEPT ![x].stage = "granted"]
    /\ UNCHANGED <<root, rows, holders, requests, given, faults>>

GetTenantByID(t) == tenants[t] # Nothing

\* The callback URL is opened, or opened again, at whatever process answers;
\* DecodeState and GetTenantByID find the tenant.
Callback(r, p, x) ==
    /\ At(r, "free")
    /\ trips[x].stage \in {"granted", "spent", "stored"}
    /\ GetTenantByID(DecodeState(trips[x].state))
    /\ Become(r, [Idle EXCEPT !.stage = "callback", !.proc = p,
                              !.tenant = DecodeState(trips[x].state), !.trip = x])
    /\ UNCHANGED <<root, rows, holders, trips, given, faults>>

\* Mutant: only the configuration's row is looked up before the code is used.
PreparedUnopened(p, t) == config[t] # Nothing

Prepared(p, t) == Builds(p, t)

\* Exchange: the provider takes a code once, from the client it was issued to.
Exchange(r) ==
    LET q == requests[r]
        x == trips[q.trip]
    IN  /\ At(r, "callback")
        /\ IF Prepared(q.proc, q.tenant) /\ x.stage = "granted" /\ x.grant.client = q.tenant
           THEN /\ trips' = [trips EXCEPT ![q.trip].stage = "spent"]
                /\ Become(r, [q EXCEPT !.stage = "exchanged", !.grant = x.grant])
           ELSE Answer(r) /\ UNCHANGED trips
        /\ UNCHANGED <<root, rows, holders, given, faults>>

\* Mutant: GetToken's default is taken for every user.
GrantedDefault(grant) == CHOOSE u \in User : TRUE

\* UserInfo: the provider's name of the user the token is of.
UserInfo(grant) == grant.user

\* Callback from UserInfo on: the data key is asked for once more.
StoreGranted(r) ==
    LET q == requests[r]
    IN  /\ At(r, "exchanged")
        /\ IF HasKey(q.proc, q.tenant)
           THEN /\ UpsertOAuthToken(q.tenant, UserInfo(q.grant), DataKey(q.proc, q.tenant), q.grant)
                /\ trips' = [trips EXCEPT ![q.trip].stage = "stored"]
           ELSE UNCHANGED <<tokens, trips>>
        /\ Answer(r)
        /\ UNCHANGED <<root, tenants, holders, config, given, faults>>
-----------------------------------------------------------------------------
Fault == faults < MaxFaults /\ faults' = faults + 1

\* The client is gone, the database or the provider fails, or the reply is lost.
Lose(r) ==
    /\ ~At(r, "free")
    /\ Fault
    /\ Answer(r)
    /\ UNCHANGED <<root, rows, holders, trips, given>>

\* A process is stopped and started, perhaps with another ROOT_ENCRYPTION_KEY.
Restart(p, k) ==
    /\ Fault
    /\ root' = [root EXCEPT ![p] = k]
    /\ requests' = [r \in Request |-> IF requests[r].proc = p THEN Idle ELSE requests[r]]
    /\ UNCHANGED <<rows, holders, trips, given>>

Next ==
    \/ \E r \in Request :
        \/ \E p \in Process :
            \/ BeginCreate(r, p)
            \/ \E t \in Tenant, u \in User, op \in Operation : AuthMiddleware(r, p, t, u, op)
            \/ \E x \in Trip : Callback(r, p, x)
        \/ Create(r) \/ CreateTenant(r)
        \/ SetProviderConfig(r) \/ Authorize(r)
        \/ GetToken(r) \/ ServeToken(r) \/ Refresh(r) \/ StoreRefreshed(r) \/ DeleteToken(r)
        \/ Exchange(r) \/ StoreGranted(r) \/ Lose(r)
    \/ \E x \in Trip : Consent(x)
    \/ \E p \in Process, k \in RootKey : Restart(p, k)

Spec == Init /\ [][Next]_vars
-----------------------------------------------------------------------------
Stage == {"free", "create", "created", "read", "refreshed", "callback", "exchanged"}
         \union Operation
RequestType == [stage : Stage, proc : Process \union {Nothing},
                tenant : Tenant \union {Nothing}, user : User \union {Nothing},
                trip : Trip \union {Nothing}, grant : Grant \union {Nothing}]
TripType == [stage : {"free", "consent", "granted", "spent", "stored"},
             state : StatePayload \union {Nothing}, grant : Grant \union {Nothing}]

\* Every variable stays in its type; every data key in the table is sealed under
\* a root key.
TypeOK ==
    /\ root \in [Process -> RootKey]
    /\ tenants \in [Tenant -> RootKey \union {Nothing}]
    /\ holders \subseteq Tenant
    /\ config \in [Tenant -> Key \union {Nothing}]
    /\ tokens \in [Tenant -> [User -> Token \union {Nothing}]]
    /\ requests \in [Request -> RequestType]
    /\ trips \in [Trip -> TripType]
    /\ given \in [Tenant -> [User -> SUBSET Grant]]
    /\ faults \in 0 .. MaxFaults

\* Whatever processes with different root keys wrote to a tenant's rows, a
\* process with the root key the tenant was created under reads all of it.
ReadableUnderItsRoot ==
    \A t \in Tenant :
        /\ config[t] # Nothing => tenants[t] # Nothing /\ config[t] = t
        /\ \A u \in User : tokens[t][u] # Nothing => tenants[t] # Nothing /\ tokens[t][u].key = t

\* An authorization ends where it began, and GetToken answers a tenant with
\* tokens its own client was granted, by the user it asked for.
Own(t, u) == [client |-> t, user |-> u]
TokensBelong ==
    \A t \in Tenant, u \in User :
        /\ tokens[t][u] # Nothing => tokens[t][u].grant = Own(t, u)
        /\ given[t][u] \subseteq {Own(t, u)}

\* While no process has the root key a tenant was created under, nothing of the
\* tenant is overwritten and no consent of its users is used up; rows can only
\* be deleted.  Setting the root key back restores the tenant.
LockedOut(t) == tenants[t] # Nothing /\ \A p \in Process : root[p] # tenants[t]
OnlyDeleted(t) ==
    /\ tenants'[t] = tenants[t] /\ config'[t] = config[t]
    /\ \A u \in User : tokens'[t][u] \in {tokens[t][u], Nothing}
    /\ \A x \in Trip :
        trips[x].stage = "granted" /\ DecodeState(trips[x].state) = t => trips'[x] = trips[x]
LockedOutOnlyDeletes == [][\A t \in Tenant : LockedOut(t) => OnlyDeleted(t)]_vars

\* A tenant nobody has the API key of, and a consent that was used up for no
\* token, are left behind only by a fault: when a process that does not open the
\* tenant's rows gets the callback, another one can still complete it.
Orphans == {t \in Tenant : tenants[t] # Nothing /\ t \notin holders
                           /\ \A r \in Request : ~(At(r, "created") /\ requests[r].tenant = t)}
Wasted == {x \in Trip : trips[x].stage = "spent"
                        /\ \A r \in Request : ~(At(r, "exchanged") /\ requests[r].trip = x)}
NothingLostWithoutFault == faults = 0 => Orphans = {} /\ Wasted = {}
=============================================================================
