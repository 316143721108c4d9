-------------------------- MODULE ConnectedAccount --------------------------
(***************************************************************************)
(* What a tenant's application can count on once a user has authorized it: *)
(* the account keeps working through refreshes, expiries and racing        *)
(* requests, and is lost only when the user or the tenant took something   *)
(* away, or when a request dies between the provider and the database.     *)
(* OAuthTokens implements this specification.                              *)
(***************************************************************************)
EXTENDS Naturals

VARIABLES
    account,        \* what the stored token is good for
    causes,         \* consents withdrawn and clients replaced so far
    stale           \* is a request under way since before the last of these

vars == <<account, causes, stale>>

\* none: no token is stored.  working: the provider accepts the stored refresh
\* token.  renewing: it took that one in exchange for another, and a request
\* is about to store it.  lost: only a new authorization helps.
Account == {"none", "working", "renewing", "lost"}

Init == account = "none" /\ causes = 0 /\ stale = FALSE

\* Requests that began before the last cause come to an end.
FewerStale == stale' \in BOOLEAN /\ (stale' => stale)

\* The user withdraws the consent, or the tenant configures another client.
Cause ==
    /\ causes' = causes + 1
    /\ stale' \in BOOLEAN
    /\ \/ account' = account
       \/ account \in {"working", "renewing"} /\ account' = "lost"

\* A refresh at a provider that replaces refresh tokens.
Rotate ==
    /\ account = "working"
    /\ account' = "renewing"
    /\ UNCHANGED <<causes, stale>>

\* A token is stored, of a new authorization or refreshed; even when the row
\* was removed while the request that refreshed it was under way.
Store ==
    /\ account' = "working"
    /\ FewerStale
    /\ UNCHANGED causes

\* A request from before the last cause stores what the provider no longer accepts.
StoreStale ==
    /\ stale
    /\ account' = "lost"
    /\ FewerStale
    /\ UNCHANGED causes

\* A request ends without storing, though it may have the only good token.
GiveUp ==
    /\ \/ account' = account
       \/ account = "renewing" /\ account' = "lost"
    /\ FewerStale
    /\ UNCHANGED causes

DeleteToken ==
    /\ account' = "none"
    /\ UNCHANGED <<causes, stale>>

Next == Cause \/ Rotate \/ Store \/ StoreStale \/ GiveUp \/ DeleteToken

Spec == Init /\ [][Next]_vars
=============================================================================
