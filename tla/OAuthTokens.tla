---------------------------- MODULE OAuthTokens ----------------------------
(***************************************************************************)
(* One row of `oauth_tokens`, and the requests that race for it.  GetToken *)
(* reads the row, calls the provider and writes the row back in three      *)
(* separate database and network calls; Callback stores what a new         *)
(* authorization brought; DeleteToken removes the row.  Rows are           *)
(* independent: every statement names tenant, provider and user.           *)
(***************************************************************************)
EXTENDS Naturals

CONSTANTS
    Request,        \* requests in flight at the same time
    Rotating,       \* clients whose provider replaces a refresh token when used (Google: none)
    MaxGrants,      \* bound: refresh tokens the provider issues
    MaxClients,     \* bound: OAuth clients the tenant configures, one after the other
    MaxRevocations, \* bound: consents the user withdraws at the provider
    NoToken         \* no refresh token: NULL in the row, "" in a reply

ASSUME OAuthAssumption ==
    /\ Rotating \subseteq 1 .. MaxClients
    /\ MaxGrants \in Nat /\ MaxClients \in Nat /\ MaxRevocations \in Nat

VARIABLES
    token,          \* the row: is it there, its refresh token, is its access token ending
    client,         \* oauth_provider_configs.client_id: the last one set, 0 if none
    pc,             \* where each request is
    copy,           \* the refresh token in the request's copy of the row
    using,          \* the client the request talks to the provider as
    granted,        \* the refresh token the provider answered with
    live,           \* refresh tokens the provider accepts
    issued,         \* refresh tokens issued so far
    revocations,    \* consents withdrawn so far
    tainted,        \* the row may hold a dead refresh token, for a known cause (history)
    suspects        \* requests that were in flight at the last such cause (history)

vars == <<token, client, pc, copy, using, granted, live, issued, revocations, tainted, suspects>>

\* A refresh token is valid only for the client it was issued to.
RefreshToken == [id : 1 .. MaxGrants, client : 1 .. MaxClients]
ASSUME NoTokenAssumption == NoToken \notin RefreshToken

Usable(t) == t \in live /\ t.client = client

Init ==
    /\ token = [present |-> FALSE, refresh |-> NoToken, ending |-> FALSE]
    /\ client = 0
    /\ pc = [r \in Request |-> "idle"]
    /\ copy = [r \in Request |-> NoToken]
    /\ using = [r \in Request |-> 0]
    /\ granted = [r \in Request |-> NoToken]
    /\ live = {} /\ issued = 0 /\ revocations = 0
    /\ tainted = FALSE /\ suspects = {}

InFlight == {r \in Request : pc[r] # "idle"}

Disturb == tainted' = TRUE /\ suspects' = InFlight

Goto(r, place) == pc' = [pc EXCEPT ![r] = place]

\* The handler answers, whatever it answers: its locals are gone.
Return(r) ==
    /\ Goto(r, "idle")
    /\ copy' = [copy EXCEPT ![r] = NoToken]
    /\ using' = [using EXCEPT ![r] = 0]
    /\ granted' = [granted EXCEPT ![r] = NoToken]
    /\ suspects' = suspects \ {r}
-----------------------------------------------------------------------------
(***************************************************************************)
(* The tenant's configuration and the provider's side.                     *)
(***************************************************************************)
\* UpsertProviderConfig with the credentials of another client.
SetProviderConfig ==
    /\ client < MaxClients
    /\ client' = client + 1
    /\ Disturb
    /\ UNCHANGED <<token, pc, copy, using, granted, live, issued, revocations>>

\* The user withdraws, in the provider's account settings, all a client got.
Revoke ==
    /\ revocations < MaxRevocations
    /\ revocations' = revocations + 1
    /\ \E c \in 1 .. client : live' = {t \in live : t.client # c}
    /\ Disturb
    /\ UNCHANGED <<token, client, pc, copy, using, granted, issued>>

\* The access token comes within 30 seconds of its expiry.
Expire ==
    /\ token.present
    /\ token' = [token EXCEPT !.ending = TRUE]
    /\ UNCHANGED <<client, pc, copy, using, granted, live, issued, revocations, tainted, suspects>>

Fresh(c) == [id |-> issued + 1, client |-> c]
-----------------------------------------------------------------------------
(***************************************************************************)
(* A new authorization: Authorize sends the browser to the provider, which *)
(* sends it back to Callback with a code for the client that asked.        *)
(***************************************************************************)
\* Mutant: the redirect is built without looking the configuration up.
AuthorizeUnconfigured(r) ==
    /\ pc[r] = "idle"
    /\ using' = [using EXCEPT ![r] = client]
    /\ Goto(r, "consenting")
    /\ UNCHANGED <<token, client, copy, granted, live, issued, revocations, tainted, suspects>>

Authorize(r) ==
    /\ pc[r] = "idle"
    /\ client # 0
    /\ using' = [using EXCEPT ![r] = client]
    /\ Goto(r, "consenting")
    /\ UNCHANGED <<token, client, copy, granted, live, issued, revocations, tainted, suspects>>

\* Callback: buildProvider.  The provider refuses to exchange a code for a
\* client other than the one it was issued to.
Callback(r) ==
    /\ pc[r] = "consenting"
    /\ \/ /\ using[r] = client
          /\ Goto(r, "exchanging")
          /\ UNCHANGED <<copy, using, granted, suspects>>
       \/ /\ using[r] # client
          /\ Return(r)
    /\ UNCHANGED <<token, client, live, issued, revocations, tainted>>

\* Mutant: AuthURL without oauth2.ApprovalForce.
AsksOnce == FALSE

\* AuthURL: oauth2.AccessTypeOffline and oauth2.ApprovalForce.  Without the
\* latter Google leaves the refresh token out while an earlier one is live.
ForcesConsent == TRUE

Exchange(r) ==
    /\ pc[r] = "exchanging"
    /\ Goto(r, "granted")
    /\ \/ /\ ForcesConsent \/ \A t \in live : t.client # using[r]
          /\ issued < MaxGrants
          /\ issued' = issued + 1
          /\ granted' = [granted EXCEPT ![r] = Fresh(using[r])]
          /\ live' = live \union {Fresh(using[r])}
       \/ /\ ~ForcesConsent /\ \E t \in live : t.client = using[r]
          /\ UNCHANGED <<granted, live, issued>>
    /\ UNCHANGED <<token, client, copy, using, revocations, tainted, suspects>>

\* UpsertOAuthToken: the last writer wins, whatever the row holds by now.
UpsertOAuthToken(r, refresh) ==
    /\ token' = [present |-> TRUE, refresh |-> refresh, ending |-> FALSE]
    /\ Return(r)
    /\ UNCHANGED <<client, live, issued, revocations>>

\* The end of Callback.
StoreGranted(r) ==
    /\ pc[r] = "granted"
    /\ UpsertOAuthToken(r, granted[r])
    /\ tainted' = (r \in suspects)
-----------------------------------------------------------------------------
(***************************************************************************)
(* GetToken.  With more than 30 seconds left it answers from the row and   *)
(* changes nothing; with no refresh token in the row it fails.             *)
(***************************************************************************)
GetToken(r) ==
    /\ pc[r] = "idle"
    /\ token.present /\ token.ending /\ token.refresh # NoToken
    /\ copy' = [copy EXCEPT ![r] = token.refresh]
    /\ Goto(r, "reading")
    /\ UNCHANGED <<token, client, using, granted, live, issued, revocations, tainted, suspects>>

buildProvider(r) ==
    /\ pc[r] = "reading"
    /\ using' = [using EXCEPT ![r] = client]
    /\ Goto(r, "refreshing")
    /\ UNCHANGED <<token, client, copy, granted, live, issued, revocations, tainted, suspects>>

\* x/oauth2 repeats the refresh token it was given when the reply has none.
Refresh(r) ==
    /\ pc[r] = "refreshing"
    /\ copy[r] \in live /\ copy[r].client = using[r]
    /\ \/ /\ using[r] \notin Rotating
          /\ granted' = [granted EXCEPT ![r] = copy[r]]
          /\ UNCHANGED <<live, issued>>
       \/ /\ using[r] \in Rotating
          /\ issued < MaxGrants
          /\ issued' = issued + 1
          /\ granted' = [granted EXCEPT ![r] = Fresh(using[r])]
          /\ live' = (live \ {copy[r]}) \union {Fresh(using[r])}
    /\ Goto(r, "refreshed")
    /\ UNCHANGED <<token, client, copy, using, revocations, tainted, suspects>>

\* "token refresh failed": the provider no longer accepts the refresh token.
RefuseRefresh(r) ==
    /\ pc[r] = "refreshing"
    /\ ~(copy[r] \in live /\ copy[r].client = using[r])
    /\ Return(r)
    /\ UNCHANGED <<token, client, live, issued, revocations, tainted>>

\* Mutant: the refresh token of the row is always kept.
KeepRefreshOld(old, new) == old

KeepRefresh(old, new) == IF new # NoToken THEN new ELSE old

\* The end of refreshAndStore.
StoreRefreshed(r) ==
    /\ pc[r] = "refreshed"
    /\ UpsertOAuthToken(r, KeepRefresh(copy[r], granted[r]))
    /\ tainted' = (tainted \/ r \in suspects)
-----------------------------------------------------------------------------
\* Mutant: the refresh token is set to NULL, the row stays.
DeleteRefreshOnly ==
    /\ token' = [token EXCEPT !.refresh = NoToken]
    /\ UNCHANGED <<client, pc, copy, using, granted, live, issued, revocations, tainted, suspects>>

DeleteToken ==
    /\ token' = [present |-> FALSE, refresh |-> NoToken, ending |-> FALSE]
    /\ UNCHANGED <<client, pc, copy, using, granted, live, issued, revocations, tainted, suspects>>

\* A request ends early: the client is gone and its context cancelled, the
\* provider or the database does not answer, or the process dies.
Interrupt(r) ==
    /\ pc[r] # "idle"
    /\ Return(r)
    /\ tainted' = (tainted \/ (pc[r] = "refreshed" /\ granted[r] # copy[r]))
    /\ UNCHANGED <<token, client, live, issued, revocations>>

Next ==
    \/ SetProviderConfig \/ Revoke \/ Expire \/ DeleteToken
    \/ \E r \in Request :
        \/ Authorize(r) \/ Callback(r) \/ Exchange(r) \/ StoreGranted(r)
        \/ GetToken(r) \/ buildProvider(r) \/ Refresh(r) \/ RefuseRefresh(r) \/ StoreRefreshed(r)
        \/ Interrupt(r)

Spec == Init /\ [][Next]_vars
-----------------------------------------------------------------------------
(***************************************************************************)
(* Type invariant.                                                         *)
(***************************************************************************)
PC == {"idle", "consenting", "exchanging", "granted", "reading", "refreshing", "refreshed"}

\* Every variable stays in its type; no token is ever of an unconfigured client.
TypeOK ==
    /\ token \in [present : BOOLEAN, refresh : RefreshToken \union {NoToken}, ending : BOOLEAN]
    /\ client \in 0 .. MaxClients
    /\ pc \in [Request -> PC]
    /\ copy \in [Request -> RefreshToken \union {NoToken}]
    /\ using \in [Request -> 0 .. MaxClients]
    /\ granted \in [Request -> RefreshToken \union {NoToken}]
    /\ live \subseteq RefreshToken
    /\ issued \in 0 .. MaxGrants /\ revocations \in 0 .. MaxRevocations
    /\ tainted \in BOOLEAN /\ suspects \subseteq Request

(***************************************************************************)
(* Safety.                                                                 *)
(***************************************************************************)
\* refreshAndStore and Callback never leave a row that cannot be refreshed,
\* but for a moment: a stored refresh token is dead only while the request
\* that used it up still carries its successor, or after a withdrawn consent,
\* a new client or an interrupted request that no authorization begun since
\* has made up for.
RefreshableUnlessTainted ==
    token.present /\ ~Usable(token.refresh) =>
        \/ tainted
        \/ \E r \in Request : pc[r] = "refreshed" /\ copy[r] = token.refresh

(***************************************************************************)
(* Action properties.                                                      *)
(***************************************************************************)
\* "auto-refreshed if expired": storing a token never replaces a row that can
\* be refreshed by one that cannot.
StoreKeepsRefreshable ==
    [][token.present /\ Usable(token.refresh) /\ token'.present /\ token' # token
        => Usable(token.refresh)']_vars

\* The only stores that do so are those of requests in flight since before the
\* consent was withdrawn or the client changed: races among refreshes and
\* authorizations alone never cost the row its refresh token.
OnlySuspectsHarm ==
    [][token.present /\ Usable(token.refresh) /\ token'.present /\ token' # token
        => \/ Usable(token.refresh)'
           \/ \E r \in suspects : pc[r] \in {"granted", "refreshed"} /\ pc'[r] = "idle"]_vars

\* "revokes and removes the stored token": a removed row comes back only when
\* a new authorization is stored.
RemovedUntilAuthorized ==
    [][~token.present /\ token'.present => \E r \in Request : pc[r] = "granted" /\ pc'[r] = "idle"]_vars

(***************************************************************************)
(* Refinement: hiding the requests, the row is a ConnectedAccount.         *)
(***************************************************************************)
\* A request is about to store the successor of the row's refresh token.
Renewing ==
    \E r \in Request : /\ pc[r] = "refreshed" /\ using[r] \in Rotating
                       /\ copy[r] = token.refresh /\ Usable(granted[r])

AccountOf ==
    IF ~token.present THEN "none"
    ELSE IF Usable(token.refresh) THEN "working"
    ELSE IF Renewing THEN "renewing" ELSE "lost"

Connected == INSTANCE ConnectedAccount WITH
    account <- AccountOf,
    causes <- client + revocations,
    stale <- suspects # {}

\* However requests interleave, what they do to the row is what a connected
\* account does: it leaves "working" only for a rotation that is on its way to
\* the row, by DeleteToken, by a cause, or by a request older than a cause; an
\* account that is lost is restored only by a store.
ImplementsConnectedAccount == Connected!Spec
=============================================================================
