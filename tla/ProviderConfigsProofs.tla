----------------------- MODULE ProviderConfigsProofs -----------------------
(***************************************************************************)
(* Theorems about ProviderConfigs, for any number of tenants, executions,  *)
(* writes and failing queries.                                             *)
(***************************************************************************)
EXTENDS ProviderConfigs, TLAPS

\* Rows hold what one write of their own tenant stored, the writes so far.
RowsInv ==
    \A t \in Tenant, p \in Provider : rows[t][p] # NoConfig =>
        /\ rows[t][p].key = t
        /\ rows[t][p].id = rows[t][p].secret
        /\ rows[t][p].id <= writes

\* The row an execution is about to read is no older than at its beginning.
FloorInv ==
    \A e \in Execution : pc[e] = "building" =>
        floor[e] <= Version(rows[tenant[e]][provider[e]])

ConfigsInv == TypeOK /\ RowsInv /\ FloorInv /\ OwnCredentials /\ NeverOutdated
-----------------------------------------------------------------------------
(***************************************************************************)
(* What the operators return.                                              *)
(***************************************************************************)
\* The provider names are names of providers.
LEMMA ProviderNames == {"google", "twilio", "smtp", "judge0"} = Provider
BY DEF Provider, SharedTable, JsonTable

\* A version is a number of a write, or 0.
LEMMA VersionType ==
    ASSUME NEW c \in Config \union {NoConfig}
    PROVE  Version(c) \in 0 .. MaxWrites
BY ConfigsAssumption DEF Version, Config

\* Rows are credentials, and a row is not the absence of one.
LEMMA RowsAreCredentials == Config \subseteq Credentials /\ NoConfig \notin Config
<1>1. Config \subseteq Credentials
  BY ConfigsAssumption DEF Config, Credentials
<1> QED BY <1>1, NoConfigAssumption

\* A Judge0 row laid over the defaults is of its tenant and its write, and has
\* both halves of that write unless it names no server.
LEMMA OverrideType ==
    ASSUME NEW c \in Config, c.id = c.secret
    PROVE  /\ Override(c) \in Credentials
           /\ Override(c).key = c.key /\ Override(c).secret = c.secret /\ Override(c).body = c.body
           /\ \/ Override(c).id = Override(c).secret
              \/ Override(c).body = "no_url" /\ Override(c).id = Deployment.id
<1>1. CASE c.body = "no_url"
  <2>1. Override(c) = [c EXCEPT !.id = 0]
    BY <1>1 DEF Override, Deployment
  <2>2. /\ Override(c).id = 0 /\ Override(c).key = c.key
        /\ Override(c).secret = c.secret /\ Override(c).body = c.body
    BY <2>1 DEF Config
  <2>3. Override(c) \in [key : Tenant, id : 0 .. MaxWrites, secret : 1 .. MaxWrites, body : Body]
    BY <2>1, ConfigsAssumption DEF Config
  <2> QED BY <1>1, <2>2, <2>3 DEF Credentials, Deployment
<1>2. CASE c.body # "no_url"
  BY <1>2, RowsAreCredentials DEF Override
<1> QED BY <1>1, <1>2

\* The state invariants hold at first.
LEMMA InitConfigs == Init => ConfigsInv
<1> SUFFICES ASSUME Init PROVE ConfigsInv OBVIOUS
<1>1. TypeOK
  <2>1. (CHOOSE t \in Tenant : TRUE) \in Tenant
    BY ConfigsAssumption
  <2>2. tenant \in [Execution -> Tenant] /\ provider \in [Execution -> Provider]
    BY <2>1, ProviderNames DEF Init
  <2>3. rows \in [Tenant -> [Provider -> Config \union {NoConfig}]]
    BY DEF Init
  <2>4. /\ pc \in [Execution -> {"idle", "building", "calling"}]
        /\ creds \in [Execution -> Credentials \union {NoConfig}]
        /\ floor \in [Execution -> 0 .. MaxWrites]
        /\ writes \in 0 .. MaxWrites /\ faults \in 0 .. MaxFaults
    BY ConfigsAssumption DEF Init
  <2>5. \A e \in Execution : creds[e] = NoConfig /\ pc[e] # "calling"
    BY DEF Init
  <2> QED BY <2>2, <2>3, <2>4, <2>5 DEF TypeOK
<1>2. RowsInv /\ FloorInv
  BY DEF Init, RowsInv, FloorInv
<1>3. OwnCredentials /\ NeverOutdated
  BY DEF Init, OwnCredentials, NeverOutdated, Calling
<1> QED BY <1>1, <1>2, <1>3 DEF ConfigsInv

\* A write leaves every row with its own tenant's values, none of them older.
LEMMA StoreStep ==
    ASSUME ConfigsInv, NEW t \in Tenant, NEW p \in Provider, NEW b \in Body, Store(t, p, b)
    PROVE  ConfigsInv'
<1> DEFINE new == [key |-> t, id |-> writes + 1, secret |-> writes + 1, body |-> b]
<1>1. rows' = [rows EXCEPT ![t][p] = new] /\ writes' = writes + 1 /\ writes < MaxWrites
  BY DEF Store, OnConflict
<1>2. UNCHANGED <<faults, pc, tenant, provider, creds, floor>>
  BY DEF Store
<1>3. /\ TypeOK /\ RowsInv /\ FloorInv /\ OwnCredentials /\ NeverOutdated
      /\ writes \in 0 .. MaxWrites
      /\ rows \in [Tenant -> [Provider -> Config \union {NoConfig}]]
  BY DEF ConfigsInv, TypeOK
<1>4. new \in Config
  BY <1>1, <1>3, ConfigsAssumption DEF Config
<1>5. rows' \in [Tenant -> [Provider -> Config \union {NoConfig}]]
  BY <1>1, <1>3, <1>4
<1>6. \A u \in Tenant, q \in Provider :
        rows'[u][q] = IF u = t /\ q = p THEN new ELSE rows[u][q]
  BY <1>1, <1>3
<1>7. TypeOK'
  BY <1>1, <1>2, <1>3, <1>5, ConfigsAssumption DEF TypeOK
<1>8. RowsInv'
  <2> SUFFICES ASSUME NEW u \in Tenant, NEW q \in Provider, rows'[u][q] # NoConfig
               PROVE  /\ rows'[u][q].key = u
                      /\ rows'[u][q].id = rows'[u][q].secret
                      /\ rows'[u][q].id <= writes'
    BY DEF RowsInv
  <2>1. CASE u = t /\ q = p
    BY <2>1, <1>1, <1>3, <1>6
  <2>2. CASE ~ (u = t /\ q = p)
    <3>1. rows'[u][q] = rows[u][q]
      BY <2>2, <1>6
    <3>2. rows[u][q] \in Config
      BY <3>1, <1>3
    <3>3. rows[u][q].id \in Nat
      BY <3>2, ConfigsAssumption DEF Config
    <3> QED BY <3>1, <3>3, <1>1, <1>3 DEF RowsInv
  <2> QED BY <2>1, <2>2
<1>9. FloorInv'
  <2> SUFFICES ASSUME NEW e \in Execution, pc[e] = "building"
               PROVE  floor[e] <= Version(rows'[tenant[e]][provider[e]])
    BY <1>2 DEF FloorInv
  <2>1. tenant[e] \in Tenant /\ provider[e] \in Provider /\ floor[e] \in 0 .. MaxWrites
    BY <1>3 DEF TypeOK
  <2>2. floor[e] <= Version(rows[tenant[e]][provider[e]])
    BY <1>3 DEF FloorInv
  <2>3. CASE tenant[e] = t /\ provider[e] = p
    <3>1. Version(rows[t][p]) <= writes
      BY <1>3 DEF RowsInv, Version
    <3>2. Version(rows'[t][p]) = writes + 1
      BY <1>4, <1>6, RowsAreCredentials DEF Version
    <3>3. Version(rows[t][p]) \in 0 .. MaxWrites
      BY <1>3, VersionType
    <3> QED BY <2>1, <2>2, <2>3, <3>1, <3>2, <3>3, <1>3, ConfigsAssumption
  <2>4. CASE ~ (tenant[e] = t /\ provider[e] = p)
    BY <2>1, <2>2, <2>4, <1>6
  <2> QED BY <2>3, <2>4
<1>10. OwnCredentials' /\ NeverOutdated'
  BY <1>2, <1>3 DEF OwnCredentials, NeverOutdated, Calling
<1> QED BY <1>7, <1>8, <1>9, <1>10 DEF ConfigsInv

\* An execution begins: its floor is the version of the row it will read.
LEMMA BeginStep ==
    ASSUME ConfigsInv, NEW e \in Execution, NEW t \in Tenant, NEW p \in Provider, Begin(e, t, p)
    PROVE  ConfigsInv'
<1>1. TypeOK /\ RowsInv /\ FloorInv /\ OwnCredentials /\ NeverOutdated
  BY DEF ConfigsInv
<1>2. Version(rows[t][p]) \in 0 .. MaxWrites
  BY <1>1, VersionType DEF TypeOK
<1>3. TypeOK'
  BY <1>1, <1>2 DEF Begin, TypeOK
<1>4. RowsInv'
  BY <1>1 DEF Begin, RowsInv
<1>5. FloorInv'
  <2>1. \A f \in Execution \ {e} :
          pc'[f] = pc[f] /\ floor'[f] = floor[f] /\ tenant'[f] = tenant[f] /\ provider'[f] = provider[f]
    BY <1>1 DEF Begin, TypeOK
  <2>2. floor'[e] = Version(rows[t][p]) /\ tenant'[e] = t /\ provider'[e] = p /\ rows' = rows
    BY <1>1 DEF Begin, TypeOK
  <2>3. floor'[e] <= Version(rows'[tenant'[e]][provider'[e]])
    BY <2>2, <1>2, ConfigsAssumption
  <2> QED BY <1>1, <2>1, <2>2, <2>3 DEF FloorInv
<1>6. OwnCredentials' /\ NeverOutdated'
  BY <1>1 DEF Begin, TypeOK, OwnCredentials, NeverOutdated, Calling
<1> QED BY <1>3, <1>4, <1>5, <1>6 DEF ConfigsInv

\* An execution ends, with an answer or an error.
LEMMA EndStep ==
    ASSUME ConfigsInv, NEW e \in Execution, End(e), faults' \in 0 .. MaxFaults
    PROVE  ConfigsInv'
<1>1. TypeOK /\ RowsInv /\ FloorInv /\ OwnCredentials /\ NeverOutdated
  BY DEF ConfigsInv
<1>2. TypeOK'
  BY <1>1, ConfigsAssumption DEF End, TypeOK
<1>3. RowsInv'
  BY <1>1 DEF End, RowsInv
<1>4. FloorInv'
  BY <1>1 DEF End, TypeOK, FloorInv
<1>5. OwnCredentials' /\ NeverOutdated'
  BY <1>1 DEF End, TypeOK, OwnCredentials, NeverOutdated, Calling
<1> QED BY <1>2, <1>3, <1>4, <1>5 DEF ConfigsInv

\* An execution goes on with credentials that may be its own.
LEMMA CallStep ==
    ASSUME ConfigsInv, NEW e \in Execution, NEW c, CallWith(e, c),
           faults' \in 0 .. MaxFaults,
           \/ provider[e] = "judge0" /\ c = Deployment
           \/ /\ c \in Credentials /\ c.key = tenant[e] /\ c.body # "undecodable"
              /\ \/ c.id = c.secret
                 \/ provider[e] = "judge0" /\ c.body = "no_url" /\ c.id = Deployment.id
              /\ Version(c) >= floor[e]
    PROVE  ConfigsInv'
<1>1. TypeOK /\ RowsInv /\ FloorInv /\ OwnCredentials /\ NeverOutdated
  BY DEF ConfigsInv
<1>2. c \in Credentials /\ c # NoConfig
  BY NoConfigAssumption DEF Credentials
<1>3. TypeOK'
  BY <1>1, <1>2 DEF CallWith, TypeOK
<1>4. RowsInv'
  BY <1>1 DEF CallWith, RowsInv
<1>5. FloorInv'
  BY <1>1 DEF CallWith, TypeOK, FloorInv
<1>6. creds'[e] = c /\ UNCHANGED <<tenant, provider, floor>>
  BY <1>1 DEF CallWith, TypeOK
<1>7. \A f \in Execution \ {e} : creds'[f] = creds[f] /\ pc'[f] = pc[f]
  BY <1>1 DEF CallWith, TypeOK
<1>8. OwnCredentials'
  BY <1>1, <1>6, <1>7 DEF OwnCredentials, Calling
<1>9. NeverOutdated'
  BY <1>1, <1>6, <1>7 DEF NeverOutdated, Calling
<1> QED BY <1>3, <1>4, <1>5, <1>8, <1>9 DEF ConfigsInv

\* A row that opens is one write of the execution's own tenant, no older than
\* the execution.
LEMMA OpenedRow ==
    ASSUME ConfigsInv, NEW e \in Execution, pc[e] = "building",
           Opens(Select(tenant[e], provider[e]), tenant[e])
    PROVE  LET c == Select(tenant[e], provider[e])
           IN  /\ c \in Config /\ c.key = tenant[e] /\ c.id = c.secret
               /\ c.body # "undecodable" /\ c.secret >= floor[e]
<1> DEFINE c == rows[tenant[e]][provider[e]]
<1>1. TypeOK /\ RowsInv /\ FloorInv
  BY DEF ConfigsInv
<1>2. c \in Config /\ c # NoConfig /\ c.key = tenant[e] /\ c.body # "undecodable"
  BY <1>1 DEF TypeOK, Opens, Select
<1>3. c.id = c.secret
  BY <1>1, <1>2 DEF RowsInv, TypeOK
<1>4. floor[e] <= c.secret
  BY <1>1, <1>2 DEF FloorInv, Version
<1>5. c.secret \in Nat /\ floor[e] \in Nat
  BY <1>1, <1>2, ConfigsAssumption DEF Config, TypeOK
<1> QED BY <1>2, <1>3, <1>4, <1>5 DEF Select

\* Building a provider for mail, SMS or OAuth: from the row, or not at all.
LEMMA BuildStep ==
    ASSUME ConfigsInv, NEW e \in Execution, Build(e)
    PROVE  ConfigsInv'
<1> DEFINE c == Select(tenant[e], provider[e])
<1>1. pc[e] = "building" /\ faults' \in 0 .. MaxFaults
  BY DEF Build, ConfigsInv, TypeOK
<1>2. CASE Opens(c, tenant[e])
  <2>1. CallWith(e, c)
    BY <1>2 DEF Build
  <2>2. /\ c \in Config /\ c.key = tenant[e] /\ c.id = c.secret
        /\ c.body # "undecodable" /\ c.secret >= floor[e]
    BY <1>1, <1>2, OpenedRow
  <2>3. c \in Credentials /\ Version(c) = c.secret
    BY <2>2, RowsAreCredentials DEF Version
  <2> HIDE DEF c
  <2> QED BY <1>1, <2>1, <2>2, <2>3, CallStep
<1>3. CASE ~ Opens(c, tenant[e])
  BY <1>1, <1>3, EndStep DEF Build
<1> QED BY <1>2, <1>3

\* Building Judge0: from the row laid over the defaults, or from the defaults.
LEMMA BuildCodeStep ==
    ASSUME ConfigsInv, NEW e \in Execution, buildCodeProvider(e)
    PROVE  ConfigsInv'
<1> DEFINE c == Select(tenant[e], provider[e])
<1>1. /\ pc[e] = "building" /\ provider[e] = "judge0" /\ faults' \in 0 .. MaxFaults
      /\ CallWith(e, IF Opens(c, tenant[e]) THEN Override(c) ELSE Deployment)
  BY DEF buildCodeProvider, ConfigsInv, TypeOK
<1>2. CASE Opens(c, tenant[e])
  <2>1. /\ c \in Config /\ c.key = tenant[e] /\ c.id = c.secret
        /\ c.body # "undecodable" /\ c.secret >= floor[e]
    BY <1>1, <1>2, OpenedRow
  <2>2. PICK o : o = Override(c)
    OBVIOUS
  <2>3. /\ o \in Credentials /\ o.key = tenant[e] /\ o.secret = c.secret /\ o.body # "undecodable"
        /\ o.id = o.secret \/ (o.body = "no_url" /\ o.id = Deployment.id)
    <3> HIDE DEF c
    <3> QED BY <2>1, <2>2, OverrideType
  <2>4. Version(o) >= floor[e]
    BY <2>1, <2>3, NoConfigAssumption DEF Version
  <2>5. CallWith(e, o)
    BY <1>1, <1>2, <2>2
  <2> QED BY <1>1, <2>3, <2>4, <2>5, CallStep
<1>3. CASE ~ Opens(c, tenant[e])
  BY <1>1, <1>3, CallStep
<1> QED BY <1>2, <1>3

\* A query fails: only Judge0 goes on.
LEMMA FailStep ==
    ASSUME ConfigsInv, NEW e \in Execution, QueryFails(e)
    PROVE  ConfigsInv'
<1>1. faults' \in 0 .. MaxFaults
  BY ConfigsAssumption DEF ConfigsInv, TypeOK, QueryFails
<1>2. CASE provider[e] = "judge0"
  BY <1>1, <1>2, CallStep DEF QueryFails, FallsBack
<1>3. CASE provider[e] # "judge0"
  BY <1>1, <1>3, EndStep DEF QueryFails, FallsBack
<1> QED BY <1>2, <1>3

\* Every step keeps the invariant.
LEMMA NextConfigs == ConfigsInv /\ [Next]_vars => ConfigsInv'
<1> SUFFICES ASSUME ConfigsInv, [Next]_vars PROVE ConfigsInv' OBVIOUS
<1> USE ProviderNames
<1>1. ASSUME NEW t \in Tenant, SetProviderConfig(t) \/ SetSMSProviderConfig(t)
      PROVE  ConfigsInv'
  BY <1>1, StoreStep DEF SetProviderConfig, SetSMSProviderConfig, UpsertProviderConfig, Provider, Body
<1>2. ASSUME NEW t \in Tenant, SetEmailProviderConfig(t) \/ SetCodeProviderConfig(t)
      PROVE  ConfigsInv'
  BY <1>2, StoreStep DEF SetEmailProviderConfig, SetCodeProviderConfig,
                         UpsertEmailProviderConfig, UpsertCodeProviderConfig
<1>3. ASSUME NEW e \in Execution, NEW t \in Tenant, NEW p \in Provider, Begin(e, t, p)
      PROVE  ConfigsInv'
  BY <1>3, BeginStep
<1>4. ASSUME NEW e \in Execution,
             buildProvider(e) \/ buildSMSProvider(e) \/ buildEmailProvider(e) \/ buildCodeProvider(e)
      PROVE  ConfigsInv'
  BY <1>4, BuildStep, BuildCodeStep DEF buildProvider, buildSMSProvider, buildEmailProvider
<1>5. ASSUME NEW e \in Execution, QueryFails(e)
      PROVE  ConfigsInv'
  BY <1>5, FailStep
<1>6. ASSUME NEW e \in Execution, Call(e)
      PROVE  ConfigsInv'
  BY <1>6, EndStep DEF Call, ConfigsInv, TypeOK
<1>7. CASE UNCHANGED vars
  BY <1>7 DEF vars, ConfigsInv, TypeOK, RowsInv, FloorInv, OwnCredentials, NeverOutdated, Calling
<1> QED BY <1>1, <1>2, <1>3, <1>4, <1>5, <1>6, <1>7 DEF Next
-----------------------------------------------------------------------------
\* The invariant holds throughout.
THEOREM ConfigsInvariant == Spec => []ConfigsInv
BY InitConfigs, NextConfigs, PTL DEF Spec

\* Every variable stays in its type (TypeOK).
THEOREM ConfigsTypeCorrect == Spec => []TypeOK
<1>1. ConfigsInv => TypeOK BY DEF ConfigsInv
<1> QED BY <1>1, ConfigsInvariant, PTL

\* OwnCredentials: no execution, of a worker or of a handler, calls a provider
\* with another tenant's credentials, or with halves of two writes.  Laying a
\* Judge0 row over the deployment's defaults never sends a token to a server
\* other than the one it was stored with, unless it was stored with none.
THEOREM CredentialsAreOwn == Spec => []OwnCredentials
<1>1. ConfigsInv => OwnCredentials BY DEF ConfigsInv
<1> QED BY <1>1, ConfigsInvariant, PTL

\* NeverOutdated: a write answered before an execution began is not missed by
\* it, since build...Provider reads the row anew for each attempt.
THEOREM CredentialsAreCurrent == Spec => []NeverOutdated
<1>1. ConfigsInv => NeverOutdated BY DEF ConfigsInv
<1> QED BY <1>1, ConfigsInvariant, PTL
=============================================================================
