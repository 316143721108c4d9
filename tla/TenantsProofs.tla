---------------------------- MODULE TenantsProofs ----------------------------
(***************************************************************************)
(* Proofs about Tenants, for any number of processes, root keys, tenants,  *)
(* users, requests, authorizations and faults.                             *)
(***************************************************************************)
EXTENDS Tenants, TLAPS

USE DEF GetTenantByID, GetByAPIKey, InsertTenant, GetOAuthToken, DeleteOAuthToken

(***************************************************************************)
(* What a request under way relies on: its process still has the root key  *)
(* it read with, and the trip it spent is nobody else's.                   *)
(***************************************************************************)
RequestCoherent(q) ==
    /\ q.stage # "free" => q.proc \in Process
    /\ q.stage \notin {"free", "create"} => q.tenant \in Tenant /\ tenants[q.tenant] # Nothing
    /\ q.stage \in Operation \union {"read", "refreshed"} => q.user \in User
    /\ q.stage \in {"read", "refreshed"} =>
         /\ q.grant = Own(q.tenant, q.user)
         /\ root[q.proc] = tenants[q.tenant]
    /\ q.stage \in {"callback", "exchanged"} =>
         q.trip \in Trip /\ DecodeState(trips[q.trip].state) = q.tenant /\ trips[q.trip].stage # "free"
    /\ q.stage = "exchanged" =>
         /\ trips[q.trip].stage = "spent" /\ q.grant = trips[q.trip].grant
         /\ root[q.proc] = tenants[q.tenant]

TripCoherent(x) ==
    trips[x].stage # "free" =>
        /\ DecodeState(trips[x].state) \in Tenant /\ tenants[DecodeState(trips[x].state)] # Nothing
        /\ trips[x].grant \in Grant /\ trips[x].grant.client = DecodeState(trips[x].state)

OneExchange ==
    \A r, s \in Request :
        At(r, "exchanged") /\ At(s, "exchanged") /\ requests[r].trip = requests[s].trip => r = s

Inv ==
    /\ TypeOK
    /\ ReadableUnderItsRoot
    /\ TokensBelong
    /\ \A r \in Request : RequestCoherent(requests[r])
    /\ \A x \in Trip : TripCoherent(x)
    /\ OneExchange
    /\ NothingLostWithoutFault

LEMMA IdleType == Idle \in RequestType /\ Idle.stage = "free"
BY DEF Idle, RequestType, Stage

\* A request takes a step of its own.
LEMMA BecomeEffect ==
    ASSUME TypeOK, NEW r \in Request, NEW q \in RequestType, Become(r, q)
    PROVE  /\ requests' \in [Request -> RequestType]
           /\ requests'[r] = q
           /\ \A s \in Request : s # r => requests'[s] = requests[s]
BY DEF TypeOK, Become

LEMMA AnswerEffect ==
    ASSUME TypeOK, NEW r \in Request, Answer(r)
    PROVE  /\ requests' \in [Request -> RequestType]
           /\ requests'[r].stage = "free"
           /\ \A s \in Request : s # r => requests'[s] = requests[s]
BY IdleType, BecomeEffect DEF Answer

\* A request moves on, and keeps what it has but what is named.
LEMMA Moved ==
    ASSUME NEW q \in RequestType, NEW stage \in Stage
    PROVE  LET n == [q EXCEPT !.stage = stage]
           IN  /\ n \in RequestType /\ n.stage = stage /\ n.proc = q.proc /\ n.tenant = q.tenant
               /\ n.user = q.user /\ n.trip = q.trip /\ n.grant = q.grant
BY DEF RequestType

(***************************************************************************)
(* A step of request r that leaves rows, keys and trips alone.             *)
(***************************************************************************)
Quiet(r) ==
    /\ requests' \in [Request -> RequestType]
    /\ \A s \in Request : s # r => requests'[s] = requests[s]
    /\ UNCHANGED <<root, tenants, config, tokens, trips>>

LEMMA QuietStep ==
    ASSUME Inv, NEW r \in Request, Quiet(r), RequestCoherent(requests'[r]),
           requests'[r].stage \notin {"created", "exchanged"},
           holders' = holders, given' = given,
           \/ faults' = faults + 1 /\ faults' \in 0 .. MaxFaults
           \/ faults' = faults /\ requests[r].stage \notin {"created", "exchanged"}
    PROVE  Inv'
<1>1. TypeOK'
    BY DEF Inv, TypeOK, Quiet
<1>2. ReadableUnderItsRoot' /\ TokensBelong'
    BY DEF Inv, Quiet, ReadableUnderItsRoot, TokensBelong
<1>3. \A s \in Request : RequestCoherent(requests[s])'
    BY DEF Inv, Quiet, RequestCoherent
<1>4. \A x \in Trip : TripCoherent(x)'
    BY DEF Inv, Quiet, TripCoherent
<1>5. OneExchange'
    BY DEF Inv, Quiet, OneExchange, At
<1>6. NothingLostWithoutFault'
  <2>1. CASE faults' = faults /\ requests[r].stage \notin {"created", "exchanged"}
    BY <2>1 DEF Inv, Quiet, NothingLostWithoutFault, Orphans, Wasted, At
  <2>2. CASE faults' = faults + 1
    BY <2>2 DEF Inv, TypeOK, NothingLostWithoutFault
  <2>3. QED
    BY <2>1, <2>2
<1>7. QED
    BY <1>1, <1>2, <1>3, <1>4, <1>5, <1>6 DEF Inv

(***************************************************************************)
(* The inductive step, one lemma per group of actions.                     *)
(***************************************************************************)
LEMMA QuietActions ==
    ASSUME Inv, NEW r \in Request,
           \/ \E p \in Process :
                \/ BeginCreate(r, p)
                \/ \E t \in Tenant, u \in User, op \in Operation : AuthMiddleware(r, p, t, u, op)
                \/ \E x \in Trip : Callback(r, p, x)
           \/ GetToken(r) \/ Refresh(r) \/ Lose(r)
    PROVE  Inv'
<1>0. TypeOK /\ requests[r] \in RequestType /\ RequestCoherent(requests[r])
    BY DEF Inv, TypeOK
<1>1. ASSUME NEW p \in Process, BeginCreate(r, p) PROVE Inv'
  <2> DEFINE q == [Idle EXCEPT !.stage = "create", !.proc = p]
  <2>0. q \in RequestType /\ q.stage = "create" /\ q.proc = p
    BY DEF Idle, RequestType, Stage
  <2>1. q \in RequestType /\ Become(r, q) /\ q.stage = "create" /\ q.proc = p
    BY <1>1, <2>0 DEF BeginCreate
  <2> HIDE DEF q
  <2>2. requests' \in [Request -> RequestType] /\ requests'[r] = q
        /\ \A s \in Request : s # r => requests'[s] = requests[s]
    BY <1>0, <2>1, BecomeEffect
  <2>3. RequestCoherent(q)
    BY <2>1 DEF RequestCoherent, Operation
  <2>4. QED
    BY <1>1, <2>1, <2>2, <2>3, QuietStep DEF BeginCreate, Quiet, rows, At
<1>2. ASSUME NEW p \in Process, NEW t \in Tenant, NEW u \in User, NEW op \in Operation,
             AuthMiddleware(r, p, t, u, op)
      PROVE  Inv'
  <2> DEFINE q == [Idle EXCEPT !.stage = op, !.proc = p, !.tenant = t, !.user = u]
  <2>0. q \in RequestType /\ q.stage = op /\ q.proc = p /\ q.tenant = t /\ q.user = u
    BY DEF Idle, RequestType, Stage
  <2>1. /\ q \in RequestType /\ Become(r, q)
        /\ q.stage = op /\ q.proc = p /\ q.tenant = t /\ q.user = u
    BY <1>2, <2>0 DEF AuthMiddleware
  <2> HIDE DEF q
  <2>2. requests' \in [Request -> RequestType] /\ requests'[r] = q
        /\ \A s \in Request : s # r => requests'[s] = requests[s]
    BY <1>0, <2>1, BecomeEffect
  <2>3. RequestCoherent(q) /\ q.stage \notin {"created", "exchanged"}
    BY <1>2, <2>1 DEF AuthMiddleware, RequestCoherent, Operation
  <2>4. QED
    BY <1>2, <2>1, <2>2, <2>3, QuietStep DEF AuthMiddleware, Quiet, rows, At
<1>3. ASSUME NEW p \in Process, NEW x \in Trip, Callback(r, p, x) PROVE Inv'
  <2>0. /\ trips[x].stage # "free" /\ DecodeState(trips[x].state) \in Tenant
        /\ tenants[DecodeState(trips[x].state)] # Nothing
    BY <1>3 DEF Callback, Inv, TripCoherent
  <2> DEFINE q == [Idle EXCEPT !.stage = "callback", !.proc = p,
                               !.tenant = DecodeState(trips[x].state), !.trip = x]
  <2>1. /\ q \in RequestType /\ q.stage = "callback" /\ q.proc = p
        /\ q.tenant = DecodeState(trips[x].state) /\ q.trip = x
    BY <2>0 DEF Idle, RequestType, Stage
  <2>a. Become(r, q)
    BY <1>3 DEF Callback
  <2> HIDE DEF q
  <2>2. requests' \in [Request -> RequestType] /\ requests'[r] = q
        /\ \A s \in Request : s # r => requests'[s] = requests[s]
    BY <1>0, <2>1, <2>a, BecomeEffect
  <2>3. RequestCoherent(q)
    BY <2>0, <2>1 DEF RequestCoherent, Operation
  <2>4. QED
    BY <1>3, <2>1, <2>2, <2>3, QuietStep DEF Callback, Quiet, rows, At
<1>a. ASSUME Answer(r), UNCHANGED <<root, rows, holders, trips, given>>,
             \/ faults' = faults + 1 /\ faults' \in 0 .. MaxFaults
             \/ faults' = faults /\ requests[r].stage \notin {"created", "exchanged"}
      PROVE  Inv'
  <2>1. /\ requests' \in [Request -> RequestType] /\ requests'[r].stage = "free"
        /\ \A s \in Request : s # r => requests'[s] = requests[s]
    BY <1>0, <1>a, AnswerEffect
  <2>2. RequestCoherent(requests'[r])
    BY <2>1 DEF RequestCoherent, Operation
  <2>3. QED
    BY <1>a, <2>1, <2>2, QuietStep DEF Quiet, rows
<1>4. CASE GetToken(r)
  <2>1. CASE Answer(r)
    BY <1>a, <1>4, <2>1 DEF GetToken, At
  <2>2. CASE ~Answer(r)
    <3>1. PICK q \in RequestType : q = requests[r]
      BY <1>0
    <3>2. q.stage = "get" /\ q.tenant \in Tenant /\ q.user \in User /\ tenants[q.tenant] # Nothing
          /\ q.proc \in Process
      BY <1>0, <1>4, <3>1 DEF GetToken, At, RequestCoherent, Operation
    <3>3. PICK row \in Token \union {Nothing} : row = tokens[q.tenant][q.user]
      BY <1>0, <3>2 DEF TypeOK
    <3>4. /\ row # Nothing /\ Opens(q.proc, q.tenant, row.key)
          /\ Become(r, [q EXCEPT !.stage = "read", !.grant = row.grant])
      BY <1>4, <2>2, <3>1, <3>3 DEF GetToken
    <3>5. row.grant \in Grant /\ row.grant = Own(q.tenant, q.user)
      BY <3>2, <3>3, <3>4 DEF Inv, TokensBelong, Token
    <3>6. root[q.proc] = tenants[q.tenant]
      BY <3>4 DEF Opens, HasKey, DataKey
    <3>c. PICK g \in Grant : g = row.grant
      BY <3>5
    <3> DEFINE n == [q EXCEPT !.stage = "read", !.grant = g]
    <3>a. "read" \in Stage
      BY DEF Stage
    <3>b. /\ n \in RequestType /\ n.stage = "read" /\ n.proc = q.proc /\ n.tenant = q.tenant
          /\ n.user = q.user /\ n.grant = g
      BY <3>a DEF RequestType
    <3>7. /\ n \in RequestType /\ Become(r, n) /\ n.stage = "read" /\ n.proc = q.proc
          /\ n.tenant = q.tenant /\ n.user = q.user /\ n.grant = g
      BY <3>4, <3>b, <3>c
    <3> HIDE DEF n
    <3>8. requests' \in [Request -> RequestType] /\ requests'[r] = n
          /\ \A s \in Request : s # r => requests'[s] = requests[s]
      BY <1>0, <3>7, BecomeEffect
    <3>9. RequestCoherent(n)
      BY <3>2, <3>5, <3>6, <3>7, <3>c DEF RequestCoherent
    <3>10. QED
      BY <1>4, <3>1, <3>2, <3>7, <3>8, <3>9, QuietStep DEF GetToken, Quiet, rows
  <2>3. QED
    BY <2>1, <2>2
<1>5. CASE Refresh(r)
  <2>1. CASE Answer(r)
    BY <1>a, <1>5, <2>1 DEF Refresh, At
  <2>2. CASE Proceed(r, "refreshed")
    <3>1. PICK q \in RequestType : q = requests[r]
      BY <1>0
    <3> DEFINE n == [q EXCEPT !.stage = "refreshed"]
    <3>a. "refreshed" \in Stage
      BY DEF Stage
    <3>b. /\ n \in RequestType /\ n.stage = "refreshed" /\ n.proc = q.proc
          /\ n.tenant = q.tenant /\ n.user = q.user /\ n.grant = q.grant
      BY <3>a, Moved
    <3>2. /\ n \in RequestType /\ Become(r, n) /\ n.stage = "refreshed" /\ n.proc = q.proc
          /\ n.tenant = q.tenant /\ n.user = q.user /\ n.grant = q.grant
      BY <2>2, <3>1, <3>b DEF Proceed
    <3> HIDE DEF n
    <3>3. requests' \in [Request -> RequestType] /\ requests'[r] = n
          /\ \A s \in Request : s # r => requests'[s] = requests[s]
      BY <1>0, <3>2, BecomeEffect
    <3>4. q.stage = "read" /\ RequestCoherent(q)
      BY <1>0, <1>5, <3>1 DEF Refresh, At
    <3>5. RequestCoherent(n)
      BY <3>2, <3>4 DEF RequestCoherent
    <3>6. QED
      BY <1>5, <3>1, <3>2, <3>3, <3>4, <3>5, QuietStep DEF Refresh, Quiet, rows
  <2>3. QED
    BY <1>5, <2>1, <2>2 DEF Refresh
<1>6. CASE Lose(r)
    BY <1>0, <1>a, <1>6, TenantsAssumption DEF Lose, Fault, TypeOK
<1>7. QED
    BY <1>1, <1>2, <1>3, <1>4, <1>5, <1>6

LEMMA CreateStep == ASSUME Inv, NEW r \in Request, Create(r) PROVE Inv'
<1>0. TypeOK /\ RequestCoherent(requests[r])
    BY DEF Inv
<1>1. PICK q \in RequestType : q = requests[r]
    BY <1>0 DEF TypeOK
<1>2. q.stage = "create" /\ q.proc \in Process
    BY <1>0, <1>1 DEF Create, At, RequestCoherent
<1>3. PICK t \in Tenant :
        /\ tenants[t] = Nothing
        /\ tenants' = [tenants EXCEPT ![t] = root[q.proc]]
        /\ Become(r, [q EXCEPT !.stage = "created", !.tenant = t])
    BY <1>1 DEF Create, GenerateDataKey
<1> DEFINE n == [q EXCEPT !.stage = "created", !.tenant = t]
<1>4. "created" \in Stage
    BY DEF Stage
<1>5. n \in RequestType /\ n.stage = "created" /\ n.proc = q.proc /\ n.tenant = t
    BY <1>4 DEF RequestType
<1> HIDE DEF n
<1>6. /\ requests' \in [Request -> RequestType] /\ requests'[r] = n
      /\ \A s \in Request : s # r => requests'[s] = requests[s]
    BY <1>0, <1>3, <1>5, BecomeEffect DEF n
<1>7. /\ tenants' \in [Tenant -> RootKey \union {Nothing}]
      /\ tenants'[t] # Nothing
      /\ \A s \in Tenant : s # t => tenants'[s] = tenants[s]
      /\ \A s \in Tenant : tenants[s] # Nothing => tenants'[s] = tenants[s]
    BY <1>0, <1>2, <1>3, TenantsAssumption DEF TypeOK
<1>8. UNCHANGED <<root, holders, config, tokens, trips, given, faults>>
    BY DEF Create
<1>9. TypeOK'
    BY <1>0, <1>6, <1>7, <1>8 DEF TypeOK
<1>10. ReadableUnderItsRoot' /\ TokensBelong'
    BY <1>7, <1>8 DEF Inv, ReadableUnderItsRoot, TokensBelong
<1>11. \A s \in Request : RequestCoherent(requests[s])'
  <2>1. RequestCoherent(n)'
    BY <1>2, <1>5, <1>7 DEF RequestCoherent, Operation
  <2>2. ASSUME NEW s \in Request, s # r PROVE RequestCoherent(requests[s])'
    <3>1. requests'[s] = requests[s] /\ RequestCoherent(requests[s])
      BY <1>6, <2>2 DEF Inv
    <3>2. QED
      BY <1>7, <1>8, <3>1 DEF RequestCoherent, Operation
  <2>3. QED
    BY <1>6, <2>1, <2>2
<1>12. \A x \in Trip : TripCoherent(x)'
    BY <1>7, <1>8 DEF Inv, TripCoherent
<1>13. OneExchange'
    BY <1>5, <1>6 DEF Inv, OneExchange, At
<1>14. NothingLostWithoutFault'
    BY <1>1, <1>2, <1>5, <1>6, <1>7, <1>8 DEF Inv, NothingLostWithoutFault, Orphans, Wasted, At
<1>15. QED
    BY <1>9, <1>10, <1>11, <1>12, <1>13, <1>14 DEF Inv

\* A request ends, having done nothing to keys, tenants and trips.
LEMMA EndStep ==
    ASSUME Inv, NEW r \in Request, Answer(r),
           UNCHANGED <<root, tenants, trips, faults>>, TypeOK',
           ReadableUnderItsRoot', TokensBelong',
           requests[r].stage # "exchanged",
           \A t \in Tenant : t \in holders \/ (requests[r].stage = "created" /\ requests[r].tenant = t)
                             => t \in holders'
    PROVE  Inv'
<1>1. /\ requests' \in [Request -> RequestType] /\ requests'[r].stage = "free"
      /\ \A s \in Request : s # r => requests'[s] = requests[s]
    BY AnswerEffect DEF Inv
<1>2. \A s \in Request : RequestCoherent(requests[s])'
  <2>1. RequestCoherent(requests[r])'
    BY <1>1 DEF RequestCoherent, Operation
  <2>2. ASSUME NEW s \in Request, s # r PROVE RequestCoherent(requests[s])'
    <3>1. requests'[s] = requests[s] /\ RequestCoherent(requests[s])
      BY <1>1, <2>2 DEF Inv
    <3>2. QED
      BY <3>1 DEF RequestCoherent, Operation
  <2>3. QED
    BY <2>1, <2>2
<1>3. \A x \in Trip : TripCoherent(x)'
    BY DEF Inv, TripCoherent
<1>4. OneExchange'
    BY <1>1 DEF Inv, OneExchange, At
<1>5. NothingLostWithoutFault'
    BY <1>1 DEF Inv, NothingLostWithoutFault, Orphans, Wasted, At
<1>6. QED
    BY <1>2, <1>3, <1>4, <1>5 DEF Inv

\* A value is stored in a table with a row for each tenant and user.
LEMMA RowStored ==
    ASSUME NEW S, NEW f \in [Tenant -> [User -> S]], NEW t \in Tenant, NEW u \in User, NEW v \in S
    PROVE  /\ [f EXCEPT ![t][u] = v] \in [Tenant -> [User -> S]]
           /\ \A i \in Tenant, j \in User :
                [f EXCEPT ![t][u] = v][i][j] = IF i = t /\ j = u THEN v ELSE f[i][j]
OBVIOUS

\* A token is stored under the tenant's own data key.
LEMMA TokenStored ==
    ASSUME TypeOK, NEW t \in Tenant, NEW u \in User,
           tokens' = [tokens EXCEPT ![t][u] = [key |-> t, grant |-> Own(t, u)]]
    PROVE  /\ tokens' \in [Tenant -> [User -> Token \union {Nothing}]]
           /\ tokens'[t][u].key = t /\ tokens'[t][u].grant = Own(t, u)
           /\ \A i \in Tenant, j \in User : i # t \/ j # u => tokens'[i][j] = tokens[i][j]
<1> DEFINE row == [key |-> t, grant |-> Own(t, u)]
<1>1. row \in Token \union {Nothing} /\ row.key = t /\ row.grant = Own(t, u)
    BY DEF Token, Grant, Key, Own
<1> HIDE DEF row
<1>2. tokens' = [tokens EXCEPT ![t][u] = row]
    BY DEF row
<1>3. tokens \in [Tenant -> [User -> Token \union {Nothing}]]
    BY DEF TypeOK
<1>4. QED
    BY <1>1, <1>2, <1>3, RowStored

LEMMA EndActions ==
    ASSUME Inv, NEW r \in Request,
           \/ CreateTenant(r) \/ SetProviderConfig(r) \/ ServeToken(r)
           \/ StoreRefreshed(r) \/ DeleteToken(r)
    PROVE  Inv'
<1>0. TypeOK /\ RequestCoherent(requests[r]) /\ Answer(r)
    BY DEF Inv, CreateTenant, SetProviderConfig, ServeToken, StoreRefreshed, DeleteToken
<1>1. PICK q \in RequestType : q = requests[r] /\ RequestCoherent(q)
    BY <1>0 DEF TypeOK
<1>2. requests' \in [Request -> RequestType]
    BY <1>0, AnswerEffect
<1>3. CASE CreateTenant(r)
  <2>1. q.stage = "created" /\ q.tenant \in Tenant /\ holders' = holders \union {q.tenant}
    BY <1>1, <1>3 DEF CreateTenant, At, RequestCoherent, Shown
  <2>2. TypeOK'
    BY <1>0, <1>2, <1>3, <2>1 DEF TypeOK, CreateTenant, rows
  <2>3. ReadableUnderItsRoot' /\ TokensBelong'
    BY <1>3 DEF CreateTenant, rows, Inv, ReadableUnderItsRoot, TokensBelong
  <2>4. QED
    BY <1>0, <1>1, <1>3, <2>1, <2>2, <2>3, EndStep DEF CreateTenant, rows
<1>4. CASE SetProviderConfig(r)
  <2>1. q.stage = "config" /\ q.tenant \in Tenant /\ tenants[q.tenant] # Nothing
    BY <1>1, <1>4 DEF SetProviderConfig, At, RequestCoherent
  <2>2. config' = config \/ config' = [config EXCEPT ![q.tenant] = q.tenant]
    BY <1>1, <1>4 DEF SetProviderConfig, HasKey, DataKey
  <2>3. TypeOK'
    BY <1>0, <1>2, <1>4, <2>1, <2>2 DEF TypeOK, SetProviderConfig, Key
  <2>4. ReadableUnderItsRoot' /\ TokensBelong'
    BY <1>0, <1>4, <2>1, <2>2
    DEF SetProviderConfig, Inv, TypeOK, ReadableUnderItsRoot, TokensBelong
  <2>5. QED
    BY <1>0, <1>1, <1>4, <2>1, <2>3, <2>4, EndStep DEF SetProviderConfig
<1>5. ASSUME ServeToken(r) \/ StoreRefreshed(r) PROVE Inv'
  <2>1. /\ q.stage \in {"read", "refreshed"} /\ q.tenant \in Tenant /\ q.user \in User
        /\ tenants[q.tenant] # Nothing /\ root[q.proc] = tenants[q.tenant]
        /\ q.grant = Own(q.tenant, q.user) /\ q.grant \in Grant
    BY <1>1, <1>5 DEF ServeToken, StoreRefreshed, At, RequestCoherent, Grant, Own
  <2> DEFINE g == Own(q.tenant, q.user)
  <2>2. given' = [given EXCEPT ![q.tenant][q.user] = @ \union {g}]
    BY <1>1, <1>5, <2>1 DEF ServeToken, StoreRefreshed
  <2>3. \/ tokens' = tokens
        \/ tokens' = [tokens EXCEPT ![q.tenant][q.user] =
                        [key |-> q.tenant, grant |-> Own(q.tenant, q.user)]]
    BY <1>1, <1>5, <2>1 DEF ServeToken, StoreRefreshed, UpsertOAuthToken, DataKey, rows
  <2>4. UNCHANGED <<root, tenants, holders, config, trips, faults>>
    BY <1>5 DEF ServeToken, StoreRefreshed, rows
  <2>5. g \in Grant
    BY <2>1
  <2>a. /\ tokens' \in [Tenant -> [User -> Token \union {Nothing}]]
        /\ \A i \in Tenant, j \in User : tokens'[i][j] = tokens[i][j]
              \/ /\ i = q.tenant /\ j = q.user
                 /\ tokens'[i][j].key = i /\ tokens'[i][j].grant = Own(i, j)
    <3>1. CASE tokens' = tokens
      BY <1>0, <3>1 DEF TypeOK
    <3>2. ASSUME tokens' = [tokens EXCEPT ![q.tenant][q.user] =
                              [key |-> q.tenant, grant |-> Own(q.tenant, q.user)]]
          PROVE  <2>a!:
      <4>1. PICK t \in Tenant, u \in User : t = q.tenant /\ u = q.user
        BY <2>1
      <4>2. /\ tokens' \in [Tenant -> [User -> Token \union {Nothing}]]
            /\ tokens'[t][u].key = t /\ tokens'[t][u].grant = Own(t, u)
            /\ \A i \in Tenant, j \in User : i # t \/ j # u => tokens'[i][j] = tokens[i][j]
        <5>1. tokens' = [tokens EXCEPT ![t][u] = [key |-> t, grant |-> Own(t, u)]]
          BY <3>2, <4>1
        <5>2. QED
          BY <1>0, <5>1, TokenStored
      <4>3. QED
        BY <4>1, <4>2
    <3>3. QED
      BY <2>3, <3>1, <3>2
  <2>6. TypeOK'
    <3>1. given' \in [Tenant -> [User -> SUBSET Grant]]
      BY <1>0, <2>1, <2>2, <2>5 DEF TypeOK
    <3>2. QED
      BY <1>0, <1>2, <2>4, <2>a, <3>1 DEF TypeOK
  <2>7. ReadableUnderItsRoot'
    BY <2>1, <2>4, <2>a DEF Inv, ReadableUnderItsRoot
  <2>8. TokensBelong'
    <3>1. \A t \in Tenant, u \in User : given'[t][u] \subseteq {Own(t, u)}
      BY <1>0, <2>1, <2>2 DEF Inv, TypeOK, TokensBelong
    <3>2. QED
      BY <2>a, <3>1 DEF Inv, TokensBelong
  <2>9. QED
    BY <1>0, <1>1, <2>1, <2>4, <2>6, <2>7, <2>8, EndStep
<1>6. CASE DeleteToken(r)
  <2>1. q.stage = "delete" /\ q.tenant \in Tenant /\ q.user \in User
    BY <1>1, <1>6 DEF DeleteToken, At, RequestCoherent, Operation
  <2>2. /\ tokens' = [tokens EXCEPT ![q.tenant][q.user] = Nothing]
        /\ UNCHANGED <<root, tenants, holders, config, trips, given, faults>>
    BY <1>1, <1>6 DEF DeleteToken
  <2>3. TypeOK'
    BY <1>0, <1>2, <2>1, <2>2 DEF TypeOK
  <2>4. ReadableUnderItsRoot' /\ TokensBelong'
    BY <1>0, <2>1, <2>2 DEF Inv, TypeOK, ReadableUnderItsRoot, TokensBelong
  <2>5. QED
    BY <1>0, <1>1, <2>1, <2>2, <2>3, <2>4, EndStep
<1>7. QED
    BY <1>3, <1>4, <1>5, <1>6

LEMMA AuthorizeStep == ASSUME Inv, NEW r \in Request, Authorize(r) PROVE Inv'
<1>0. TypeOK /\ RequestCoherent(requests[r]) /\ Answer(r) /\ At(r, "authorize")
      /\ UNCHANGED <<root, tenants, config, tokens, holders, given, faults>>
    BY DEF Inv, Authorize, rows
<1>1. PICK q \in RequestType : q = requests[r]
    BY <1>0 DEF TypeOK
<1>2. /\ requests' \in [Request -> RequestType] /\ requests'[r].stage = "free"
      /\ \A s \in Request : s # r => requests'[s] = requests[s]
    BY <1>0, AnswerEffect
<1>3. CASE UNCHANGED trips
  <2>1. TypeOK' /\ ReadableUnderItsRoot' /\ TokensBelong'
    BY <1>0, <1>2, <1>3 DEF Inv, TypeOK, ReadableUnderItsRoot, TokensBelong
  <2>2. QED
    BY <1>0, <1>3, <2>1, EndStep DEF At
<1>4. ASSUME NEW x \in Trip, NEW u \in User, trips[x].stage = "free",
             trips' = [trips EXCEPT ![x] = [stage |-> "consent", state |-> EncodeState(q.tenant),
                                            grant |-> [client |-> q.tenant, user |-> u]]]
      PROVE  Inv'
  <2>1. q.tenant \in Tenant /\ tenants[q.tenant] # Nothing
    BY <1>0, <1>1 DEF RequestCoherent, At
  <2> DEFINE y == [stage |-> "consent", state |-> EncodeState(q.tenant),
                   grant |-> [client |-> q.tenant, user |-> u]]
  <2>2. y \in TripType /\ y.stage = "consent" /\ DecodeState(y.state) = q.tenant /\ y.grant \in Grant
        /\ y.grant.client = q.tenant
    BY <2>1 DEF TripType, Grant, StatePayload, EncodeState, DecodeState
  <2>3. trips' = [trips EXCEPT ![x] = y]
    BY <1>4
  <2> HIDE DEF y
  <2>4. /\ trips' \in [Trip -> TripType] /\ trips'[x] = y
        /\ \A z \in Trip : z # x => trips'[z] = trips[z]
    BY <1>0, <2>2, <2>3 DEF TypeOK
  <2>5. TypeOK' /\ ReadableUnderItsRoot' /\ TokensBelong'
    BY <1>0, <1>2, <2>4 DEF Inv, TypeOK, ReadableUnderItsRoot, TokensBelong
  <2>6. \A s \in Request : RequestCoherent(requests[s])'
    <3>1. RequestCoherent(requests[r])'
      BY <1>2 DEF RequestCoherent, Operation
    <3>2. ASSUME NEW s \in Request, s # r PROVE RequestCoherent(requests[s])'
      <4>1. requests'[s] = requests[s] /\ RequestCoherent(requests[s])
        BY <1>2, <3>2 DEF Inv
      <4>2. QED
        BY <1>0, <1>4, <2>4, <4>1 DEF RequestCoherent, Operation
    <3>3. QED
      BY <3>1, <3>2
  <2>7. \A z \in Trip : TripCoherent(z)'
    BY <1>0, <2>1, <2>2, <2>4 DEF Inv, TripCoherent
  <2>8. OneExchange' /\ NothingLostWithoutFault'
    BY <1>0, <1>2, <2>2, <2>4 DEF Inv, OneExchange, NothingLostWithoutFault, Orphans, Wasted, At
  <2>9. QED
    BY <2>5, <2>6, <2>7, <2>8 DEF Inv
<1>5. QED
    BY <1>1, <1>3, <1>4 DEF Authorize

\* A trip that is no longer free moves to another stage that is not.
TripMoves(x, stage) ==
    /\ trips' \in [Trip -> TripType]
    /\ trips'[x].stage = stage
    /\ trips'[x].state = trips[x].state /\ trips'[x].grant = trips[x].grant
    /\ \A z \in Trip : z # x => trips'[z] = trips[z]

LEMMA TripMoved ==
    ASSUME TypeOK, NEW x \in Trip, NEW stage \in {"granted", "spent", "stored"},
           trips' = [trips EXCEPT ![x].stage = stage]
    PROVE  TripMoves(x, stage)
<1>1. PICK y \in TripType : y = trips[x]
    BY DEF TypeOK
<1>2. LET n == [y EXCEPT !.stage = stage]
      IN  n \in TripType /\ n.stage = stage /\ n.state = y.state /\ n.grant = y.grant
    BY DEF TripType
<1>3. QED
    BY <1>1, <1>2 DEF TypeOK, TripMoves

LEMMA ConsentStep == ASSUME Inv, NEW x \in Trip, Consent(x) PROVE Inv'
<1>1. /\ TripMoves(x, "granted") /\ trips[x].stage = "consent"
      /\ UNCHANGED <<root, tenants, config, tokens, holders, requests, given, faults>>
    BY TripMoved DEF Inv, Consent, rows
<1>2. TypeOK' /\ ReadableUnderItsRoot' /\ TokensBelong'
    BY <1>1 DEF TripMoves, Inv, TypeOK, ReadableUnderItsRoot, TokensBelong
<1>3. \A s \in Request : RequestCoherent(requests[s])'
  <2> TAKE s \in Request
  <2>1. RequestCoherent(requests[s])
    BY DEF Inv
  <2>2. QED
    BY <1>1, <2>1 DEF TripMoves, RequestCoherent, Operation
<1>4. \A z \in Trip : TripCoherent(z)'
    BY <1>1 DEF TripMoves, Inv, TripCoherent
<1>5. OneExchange' /\ NothingLostWithoutFault'
    BY <1>1 DEF TripMoves, Inv, OneExchange, NothingLostWithoutFault, Orphans, Wasted, At
<1>6. QED
    BY <1>2, <1>3, <1>4, <1>5 DEF Inv

LEMMA ExchangeStep == ASSUME Inv, NEW r \in Request, Exchange(r) PROVE Inv'
<1>0. TypeOK /\ RequestCoherent(requests[r])
      /\ UNCHANGED <<root, tenants, config, tokens, holders, given, faults>>
    BY DEF Inv, Exchange, rows
<1>1. PICK q \in RequestType : q = requests[r]
    BY <1>0 DEF TypeOK
<1>2. /\ q.stage = "callback" /\ q.proc \in Process /\ q.trip \in Trip /\ q.tenant \in Tenant
      /\ tenants[q.tenant] # Nothing
      /\ DecodeState(trips[q.trip].state) = q.tenant /\ trips[q.trip].stage # "free"
    BY <1>0, <1>1 DEF Exchange, At, RequestCoherent
<1>3. CASE Answer(r) /\ UNCHANGED trips
  <2>1. requests' \in [Request -> RequestType]
    BY <1>0, <1>3, AnswerEffect
  <2>2. TypeOK' /\ ReadableUnderItsRoot' /\ TokensBelong'
    BY <1>0, <1>3, <2>1 DEF Inv, TypeOK, ReadableUnderItsRoot, TokensBelong
  <2>3. QED
    BY <1>0, <1>1, <1>2, <1>3, <2>2, EndStep
<1>4. CASE /\ Prepared(q.proc, q.tenant) /\ trips[q.trip].stage = "granted"
           /\ trips' = [trips EXCEPT ![q.trip].stage = "spent"]
           /\ Become(r, [q EXCEPT !.stage = "exchanged", !.grant = trips[q.trip].grant])
  <2>1. TripMoves(q.trip, "spent")
    BY <1>0, <1>2, <1>4, TripMoved
  <2>2. PICK g \in Grant : g = trips[q.trip].grant
    BY <1>2 DEF Inv, TripCoherent
  <2> DEFINE n == [q EXCEPT !.stage = "exchanged", !.grant = g]
  <2>3. "exchanged" \in Stage
    BY DEF Stage
  <2>4. n \in RequestType /\ n.stage = "exchanged" /\ n.proc = q.proc /\ n.tenant = q.tenant
        /\ n.trip = q.trip /\ n.grant = g
    BY <2>3 DEF RequestType
  <2>5. Become(r, n)
    BY <1>4, <2>2
  <2> HIDE DEF n
  <2>6. /\ requests' \in [Request -> RequestType] /\ requests'[r] = n
        /\ \A s \in Request : s # r => requests'[s] = requests[s]
    BY <1>0, <2>4, <2>5, BecomeEffect
  <2>7. root[q.proc] = tenants[q.tenant]
    BY <1>4 DEF Prepared, Builds, Opens, HasKey, DataKey
  <2>8. TypeOK' /\ ReadableUnderItsRoot' /\ TokensBelong'
    BY <1>0, <2>1, <2>6 DEF TripMoves, Inv, TypeOK, ReadableUnderItsRoot, TokensBelong
  <2>9. ASSUME NEW s \in Request, s # r
        PROVE  /\ RequestCoherent(requests[s])'
               /\ ~(requests'[s].stage = "exchanged" /\ requests'[s].trip = q.trip)
    <3>1. requests'[s] = requests[s] /\ RequestCoherent(requests[s])
      BY <2>6, <2>9 DEF Inv
    <3>2. ~(requests[s].stage = "exchanged" /\ requests[s].trip = q.trip)
      BY <1>4, <3>1 DEF RequestCoherent
    <3>3. RequestCoherent(requests[s])'
      BY <1>0, <2>1, <3>1, <3>2 DEF TripMoves, RequestCoherent, Operation
    <3>4. QED
      BY <3>1, <3>2, <3>3
  <2>10. RequestCoherent(n)'
    BY <1>0, <1>2, <2>1, <2>2, <2>4, <2>7 DEF TripMoves, RequestCoherent, Operation
  <2>11. \A z \in Trip : TripCoherent(z)'
    BY <1>0, <1>2, <2>1 DEF TripMoves, Inv, TripCoherent
  <2>12. OneExchange'
    BY <2>4, <2>6, <2>9 DEF Inv, OneExchange, At
  <2>13. NothingLostWithoutFault'
    BY <1>0, <1>1, <1>2, <2>1, <2>4, <2>6
    DEF TripMoves, Inv, NothingLostWithoutFault, Orphans, Wasted, At
  <2>14. QED
    BY <2>6, <2>8, <2>9, <2>10, <2>11, <2>12, <2>13 DEF Inv
<1>5. QED
    BY <1>1, <1>3, <1>4 DEF Exchange

LEMMA StoreGrantedStep == ASSUME Inv, NEW r \in Request, StoreGranted(r) PROVE Inv'
<1>0. TypeOK /\ RequestCoherent(requests[r]) /\ Answer(r)
      /\ UNCHANGED <<root, tenants, config, holders, given, faults>>
    BY DEF Inv, StoreGranted
<1>1. PICK q \in RequestType : q = requests[r] /\ RequestCoherent(q)
    BY <1>0 DEF TypeOK
<1>2. /\ q.stage = "exchanged" /\ q.proc \in Process /\ q.trip \in Trip /\ q.tenant \in Tenant
      /\ tenants[q.tenant] # Nothing /\ root[q.proc] = tenants[q.tenant]
      /\ DecodeState(trips[q.trip].state) = q.tenant /\ trips[q.trip].stage = "spent"
      /\ q.grant = trips[q.trip].grant
    BY <1>1 DEF StoreGranted, At, RequestCoherent
<1>3. PICK t \in Tenant, u \in User : t = q.tenant /\ u = q.grant.user /\ q.grant = Own(t, u)
    BY <1>2 DEF Inv, TripCoherent, Grant, Own
<1>4. /\ tokens' = [tokens EXCEPT ![t][u] = [key |-> t, grant |-> Own(t, u)]]
      /\ trips' = [trips EXCEPT ![q.trip].stage = "stored"]
  <2>1. HasKey(q.proc, q.tenant) /\ DataKey(q.proc, q.tenant) = t
    BY <1>2, <1>3, TenantsAssumption DEF HasKey, DataKey
  <2>2. QED
    BY <1>1, <1>3, <2>1 DEF StoreGranted, UpsertOAuthToken, UserInfo
<1>5. TripMoves(q.trip, "stored")
    BY <1>0, <1>2, <1>4, TripMoved
<1>6. /\ tokens' \in [Tenant -> [User -> Token \union {Nothing}]]
      /\ tokens'[t][u].key = t /\ tokens'[t][u].grant = Own(t, u)
      /\ \A i \in Tenant, j \in User : i # t \/ j # u => tokens'[i][j] = tokens[i][j]
    BY <1>0, <1>4, TokenStored
<1>7. /\ requests' \in [Request -> RequestType] /\ requests'[r].stage = "free"
      /\ \A s \in Request : s # r => requests'[s] = requests[s]
    BY <1>0, AnswerEffect
<1>8. TypeOK'
    BY <1>0, <1>5, <1>6, <1>7 DEF TripMoves, TypeOK
<1>9. ReadableUnderItsRoot' /\ TokensBelong'
  <2>1. \A i \in Tenant, j \in User :
          \/ tokens'[i][j] = tokens[i][j]
          \/ i = t /\ j = u
    BY <1>6
  <2>2. ReadableUnderItsRoot'
    <3>1. tenants[t] # Nothing
      BY <1>2, <1>3
    <3>2. ASSUME NEW i \in Tenant, NEW j \in User
          PROVE  tokens'[i][j] # Nothing => tenants[i] # Nothing /\ tokens'[i][j].key = i
      <4>1. CASE tokens'[i][j] = tokens[i][j]
        BY <4>1 DEF Inv, ReadableUnderItsRoot
      <4>2. CASE i = t /\ j = u
        BY <1>6, <3>1, <4>2
      <4>3. QED
        BY <2>1, <4>1, <4>2
    <3>3. QED
      BY <1>0, <3>2 DEF Inv, ReadableUnderItsRoot
  <2>3. TokensBelong'
    BY <1>0, <1>6, <2>1 DEF Inv, TokensBelong
  <2>4. QED
    BY <2>2, <2>3
<1>10. \A s \in Request : RequestCoherent(requests[s])'
  <2>1. RequestCoherent(requests[r])'
    BY <1>7 DEF RequestCoherent, Operation
  <2>2. ASSUME NEW s \in Request, s # r PROVE RequestCoherent(requests[s])'
    <3>1. requests'[s] = requests[s] /\ RequestCoherent(requests[s])
      BY <1>7, <2>2 DEF Inv
    <3>2. ~(requests[s].stage = "exchanged" /\ requests[s].trip = q.trip)
      BY <1>1, <1>2, <2>2 DEF Inv, OneExchange, At
    <3>3. QED
      BY <1>0, <1>5, <3>1, <3>2 DEF TripMoves, RequestCoherent, Operation
  <2>3. QED
    BY <2>1, <2>2
<1>11. \A z \in Trip : TripCoherent(z)'
    BY <1>0, <1>2, <1>5 DEF TripMoves, Inv, TripCoherent
<1>12. OneExchange'
    BY <1>7 DEF Inv, OneExchange, At
<1>13. NothingLostWithoutFault'
    BY <1>0, <1>1, <1>2, <1>5, <1>7
    DEF TripMoves, Inv, NothingLostWithoutFault, Orphans, Wasted, At
<1>14. QED
    BY <1>8, <1>9, <1>10, <1>11, <1>12, <1>13 DEF Inv

LEMMA RestartStep ==
    ASSUME Inv, NEW p \in Process, NEW k \in RootKey, Restart(p, k) PROVE Inv'
<1>0. TypeOK /\ UNCHANGED <<tenants, config, tokens, holders, trips, given>>
      /\ faults' = faults + 1 /\ faults \in Nat /\ faults' \in 0 .. MaxFaults
    BY TenantsAssumption DEF Inv, TypeOK, Restart, Fault, rows
<1>1. /\ root' \in [Process -> RootKey] /\ \A i \in Process : i # p => root'[i] = root[i]
      /\ requests' \in [Request -> RequestType]
      /\ \A s \in Request : \/ requests'[s].stage = "free"
                            \/ requests'[s] = requests[s] /\ requests[s].proc # p
    BY <1>0, IdleType DEF TypeOK, Restart
<1>2. TypeOK' /\ ReadableUnderItsRoot' /\ TokensBelong'
    BY <1>0, <1>1 DEF Inv, TypeOK, ReadableUnderItsRoot, TokensBelong
<1>3. \A s \in Request : RequestCoherent(requests[s])'
  <2> TAKE s \in Request
  <2>1. CASE requests'[s].stage = "free"
    BY <2>1 DEF RequestCoherent, Operation
  <2>2. CASE requests'[s] = requests[s] /\ requests[s].proc # p
    <3>1. RequestCoherent(requests[s])
      BY DEF Inv
    <3>2. QED
      BY <1>0, <1>1, <2>2, <3>1 DEF RequestCoherent, Operation
  <2>3. QED
    BY <1>1, <2>1, <2>2
<1>4. \A x \in Trip : TripCoherent(x)'
    BY <1>0 DEF Inv, TripCoherent
<1>5. OneExchange'
    BY <1>1 DEF Inv, OneExchange, At
<1>6. NothingLostWithoutFault'
    BY <1>0 DEF NothingLostWithoutFault
<1>7. QED
    BY <1>2, <1>3, <1>4, <1>5, <1>6 DEF Inv

LEMMA StutterStep == ASSUME Inv, UNCHANGED vars PROVE Inv'
<1>1. TypeOK' /\ ReadableUnderItsRoot' /\ TokensBelong' /\ OneExchange' /\ NothingLostWithoutFault'
    BY DEF vars, rows, Inv, TypeOK, ReadableUnderItsRoot, TokensBelong, OneExchange,
           NothingLostWithoutFault, Orphans, Wasted, At
<1>2. \A r \in Request : RequestCoherent(requests[r])'
    BY DEF vars, rows, Inv, RequestCoherent
<1>3. \A x \in Trip : TripCoherent(x)'
    BY DEF vars, rows, Inv, TripCoherent
<1>4. QED
    BY <1>1, <1>2, <1>3 DEF Inv

LEMMA Inductive == Inv /\ [Next]_vars => Inv'
BY QuietActions, CreateStep, EndActions, AuthorizeStep, ExchangeStep, StoreGrantedStep,
   ConsentStep, RestartStep, StutterStep DEF Next

LEMMA Initial == Init => Inv
<1> SUFFICES ASSUME Init PROVE Inv
    OBVIOUS
<1>1. TypeOK
  <2>1. requests \in [Request -> RequestType]
    BY IdleType DEF Init
  <2>2. trips \in [Trip -> TripType]
    BY DEF Init, NoTrip, TripType
  <2>3. /\ given \in [Tenant -> [User -> SUBSET Grant]]
        /\ tokens \in [Tenant -> [User -> Token \union {Nothing}]]
    BY DEF Init
  <2>4. QED
    BY <2>1, <2>2, <2>3, TenantsAssumption DEF Init, TypeOK
<1>2. ReadableUnderItsRoot /\ TokensBelong
    BY DEF Init, ReadableUnderItsRoot, TokensBelong
<1>3. \A r \in Request : requests[r].stage = "free" /\ RequestCoherent(requests[r])
    BY DEF Init, Idle, RequestCoherent, Operation
<1>4. \A x \in Trip : trips[x].stage = "free" /\ TripCoherent(x)
    BY DEF Init, NoTrip, TripCoherent
<1>5. OneExchange
    BY <1>3 DEF OneExchange, At
<1>6. NothingLostWithoutFault
    BY <1>4 DEF Init, NothingLostWithoutFault, Orphans, Wasted
<1>7. QED
    BY <1>1, <1>2, <1>3, <1>4, <1>5, <1>6 DEF Inv

THEOREM Invariance == Spec => []Inv
BY Initial, Inductive, PTL DEF Spec

\* Processes, tables, requests and trips stay in their types, and every data key
\* is stored sealed.
THEOREM TenantsTypeCorrect == Spec => []TypeOK
<1>1. Inv => TypeOK
    BY DEF Inv
<1>2. QED
    BY <1>1, Invariance, PTL

\* Processes with different root keys never leave a tenant with rows that its
\* own root key does not open.
THEOREM SecretsReadable == Spec => []ReadableUnderItsRoot
<1>1. Inv => ReadableUnderItsRoot
    BY DEF Inv
<1>2. QED
    BY <1>1, Invariance, PTL

\* An authorization ends at the tenant, client and user it began with.
THEOREM FlowsEndWhereTheyBegan == Spec => []TokensBelong
<1>1. Inv => TokensBelong
    BY DEF Inv
<1>2. QED
    BY <1>1, Invariance, PTL

\* No tenant loses its API key and no consent its token but by a fault.
THEOREM LossesNeedFaults == Spec => []NothingLostWithoutFault
<1>1. Inv => NothingLostWithoutFault
    BY DEF Inv
<1>2. QED
    BY <1>1, Invariance, PTL

\* What a tenant no process has the root key of still has, it keeps.
THEOREM LockedOutIsKept == Spec => LockedOutOnlyDeletes
<1>1. ASSUME Inv, [Next]_vars, NEW t \in Tenant, LockedOut(t)
      PROVE  OnlyDeleted(t)
  <2>0. /\ TypeOK /\ tenants[t] # Nothing
        /\ \A p \in Process : root[p] # tenants[t] /\ ~HasKey(p, t)
        /\ \A r \in Request : RequestCoherent(requests[r])
    BY <1>1 DEF Inv, LockedOut, HasKey, DataKey
  <2>1. CASE UNCHANGED <<tenants, config, tokens, trips>>
    BY <2>1 DEF OnlyDeleted
  <2>2. ASSUME NEW r \in Request, Create(r) PROVE OnlyDeleted(t)
    BY <2>0, <2>2 DEF OnlyDeleted, Create, TypeOK
  <2>3. ASSUME NEW r \in Request, SetProviderConfig(r) PROVE OnlyDeleted(t)
    <3>1. requests[r].tenant = t => config' = config
      BY <2>0, <2>3 DEF SetProviderConfig, At, RequestCoherent
    <3>2. config'[t] = config[t]
      BY <2>0, <2>3, <3>1 DEF SetProviderConfig, TypeOK
    <3>3. QED
      BY <2>3, <3>2 DEF OnlyDeleted, SetProviderConfig
  <2>4. ASSUME NEW r \in Request, Authorize(r) PROVE OnlyDeleted(t)
    BY <2>0, <2>4 DEF OnlyDeleted, Authorize, rows, TypeOK
  <2>5. ASSUME NEW r \in Request, StoreRefreshed(r) PROVE OnlyDeleted(t)
    <3>1. requests[r].tenant # t
      BY <2>0, <2>5 DEF StoreRefreshed, At, RequestCoherent
    <3>2. tokens'[t] = tokens[t]
      BY <2>0, <2>5, <3>1 DEF StoreRefreshed, UpsertOAuthToken, TypeOK
    <3>3. QED
      BY <2>5, <3>2 DEF OnlyDeleted, StoreRefreshed
  <2>6. ASSUME NEW r \in Request, DeleteToken(r) PROVE OnlyDeleted(t)
    BY <2>0, <2>6 DEF OnlyDeleted, DeleteToken, TypeOK
  <2>7. ASSUME NEW r \in Request, Exchange(r) PROVE OnlyDeleted(t)
    <3>1. CASE UNCHANGED trips
      BY <2>7, <3>1 DEF OnlyDeleted, Exchange, rows
    <3>2. CASE ~UNCHANGED trips
      <4>1. /\ Prepared(requests[r].proc, requests[r].tenant)
            /\ trips' = [trips EXCEPT ![requests[r].trip].stage = "spent"]
            /\ UNCHANGED <<tenants, config, tokens>>
        BY <2>7, <3>2 DEF Exchange, rows
      <4>2. requests[r].tenant # t /\ DecodeState(trips[requests[r].trip].state) = requests[r].tenant
        BY <2>0, <2>7, <4>1 DEF Exchange, At, RequestCoherent, Prepared, Builds, Opens
      <4>3. QED
        BY <2>0, <4>1, <4>2 DEF OnlyDeleted, TypeOK
    <3>3. QED
      BY <3>1, <3>2
  <2>8. ASSUME NEW r \in Request, StoreGranted(r) PROVE OnlyDeleted(t)
    <3>1. requests[r].tenant # t /\ trips[requests[r].trip].stage = "spent"
      BY <2>0, <2>8 DEF StoreGranted, At, RequestCoherent
    <3>2. tokens'[t] = tokens[t]
      BY <2>0, <2>8, <3>1 DEF StoreGranted, UpsertOAuthToken, TypeOK
    <3>3. \A x \in Trip : trips[x].stage = "granted" => trips'[x] = trips[x]
      BY <2>0, <2>8, <3>1 DEF StoreGranted, TypeOK
    <3>4. QED
      BY <2>8, <3>2, <3>3 DEF OnlyDeleted, StoreGranted
  <2>9. ASSUME NEW x \in Trip, Consent(x) PROVE OnlyDeleted(t)
    BY <2>0, <2>9 DEF OnlyDeleted, Consent, rows, TypeOK
  <2>10. QED
    BY <1>1, <2>1, <2>2, <2>3, <2>4, <2>5, <2>6, <2>7, <2>8, <2>9
    DEF Next, vars, rows, BeginCreate, AuthMiddleware, Callback, CreateTenant, GetToken,
        ServeToken, Refresh, Lose, Restart
<1>2. Inv /\ [Next]_vars => [\A t \in Tenant : LockedOut(t) => OnlyDeleted(t)]_vars
    BY <1>1
<1>3. QED
    BY <1>2, Invariance, PTL DEF Spec, LockedOutOnlyDeletes
=============================================================================
