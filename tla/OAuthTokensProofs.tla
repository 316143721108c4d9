------------------------- MODULE OAuthTokensProofs -------------------------
(***************************************************************************)
(* Theorems about OAuthTokens, for any number of requests, clients, grants *)
(* and withdrawn consents, whichever clients' refresh tokens rotate.       *)
(***************************************************************************)
EXTENDS OAuthTokens, TLAPS

\* Requests that hold a refresh token nobody else has seen.
Carries(r) == pc[r] = "granted" \/ (pc[r] = "refreshed" /\ using[r] \in Rotating)

\* Requests that hold the provider's answer.
Answered(r) == pc[r] \in {"granted", "refreshed"}

\* Tokens are numbered in the order they are issued.
IssuedInv ==
    /\ \A t \in live : t.id <= issued
    /\ token.refresh # NoToken => token.refresh.id <= issued
    /\ \A r \in Request : copy[r] # NoToken => copy[r].id <= issued
    /\ \A r \in Request : granted[r] # NoToken => granted[r].id <= issued

\* What each place of a request says of its locals.
PlaceInv ==
    /\ token.present => token.refresh # NoToken
    /\ \A r \in Request :
        /\ pc[r] \in {"consenting", "exchanging"} => using[r] # 0
        /\ Answered(r) => granted[r] # NoToken
        /\ pc[r] = "refreshed" /\ using[r] \notin Rotating => granted[r] = copy[r]

\* A new refresh token is in no other hands, so no one can use it up.
UnsharedInv ==
    \A r \in Request : Carries(r) =>
        /\ granted[r] # token.refresh
        /\ \A s \in Request : granted[r] # copy[s]
        /\ \A s \in Request \ {r} : Carries(s) => granted[r] # granted[s]

\* What a request holds is good, if nothing has happened since it began.
CleanInv ==
    \A r \in Request \ suspects :
        /\ pc[r] \in PC \ {"idle", "reading"} => using[r] = client
        /\ Answered(r) => Usable(granted[r])

\* The row is good, or its successor is on its way, or there is a cause.
RowInv ==
    token.present /\ ~Usable(token.refresh) =>
        \/ tainted
        \/ \E r \in Request :
                pc[r] = "refreshed" /\ using[r] \in Rotating /\ copy[r] = token.refresh

OAuthInv == TypeOK /\ IssuedInv /\ PlaceInv /\ UnsharedInv /\ CleanInv /\ RowInv
-----------------------------------------------------------------------------
\* The parameters are natural numbers, NoToken is no refresh token.
LEMMA Constants ==
    /\ MaxGrants \in Nat /\ MaxClients \in Nat /\ MaxRevocations \in Nat
    /\ Rotating \subseteq 1 .. MaxClients
    /\ NoToken \notin RefreshToken
    /\ \A t \in RefreshToken : t.id \in 1 .. MaxGrants /\ t.client \in 1 .. MaxClients
BY OAuthAssumption, NoTokenAssumption DEF RefreshToken

\* The invariant holds at first.
LEMMA InitOAuth == Init => OAuthInv
<1> SUFFICES ASSUME Init PROVE OAuthInv OBVIOUS
<1>1. TypeOK
  <2>1. token \in [present : BOOLEAN, refresh : RefreshToken \union {NoToken}, ending : BOOLEAN]
    BY DEF Init
  <2>2. /\ pc \in [Request -> PC] /\ copy \in [Request -> RefreshToken \union {NoToken}]
        /\ using \in [Request -> 0 .. MaxClients]
        /\ granted \in [Request -> RefreshToken \union {NoToken}]
    BY OAuthAssumption DEF Init, PC
  <2>3. /\ client \in 0 .. MaxClients /\ issued \in 0 .. MaxGrants
        /\ revocations \in 0 .. MaxRevocations
    BY OAuthAssumption DEF Init
  <2>4. live \subseteq RefreshToken /\ tainted \in BOOLEAN /\ suspects \subseteq Request
    BY DEF Init
  <2> QED BY <2>1, <2>2, <2>3, <2>4 DEF TypeOK
<1>2. IssuedInv /\ PlaceInv
  BY DEF Init, IssuedInv, PlaceInv, Answered
<1>3. UnsharedInv /\ CleanInv /\ RowInv
  BY DEF Init, UnsharedInv, CleanInv, RowInv, Carries, Answered
<1> QED BY <1>1, <1>2, <1>3 DEF OAuthInv

-----------------------------------------------------------------------------
(***************************************************************************)
(* The surroundings of the requests.                                       *)
(***************************************************************************)
\* A known cause: every request in flight becomes suspect, the row tainted.
LEMMA DisturbStep ==
    ASSUME OAuthInv, Disturb, UNCHANGED <<token, pc, copy, using, granted, issued>>,
           live' \subseteq live, client' \in 0 .. MaxClients, revocations' \in 0 .. MaxRevocations
    PROVE  OAuthInv'
<1>1. TypeOK /\ IssuedInv /\ PlaceInv /\ UnsharedInv
  BY DEF OAuthInv
<1>2. TypeOK'
  BY <1>1 DEF TypeOK, Disturb, InFlight
<1>3. IssuedInv' /\ PlaceInv' /\ UnsharedInv'
  BY <1>1 DEF IssuedInv, PlaceInv, UnsharedInv, Carries, Answered
<1>4. CleanInv'
  BY DEF Disturb, InFlight, CleanInv, Answered
<1>5. RowInv'
  BY DEF Disturb, RowInv
<1> QED BY <1>2, <1>3, <1>4, <1>5 DEF OAuthInv

\* Time, and DeleteToken: the row keeps its refresh token, or is gone.
LEMMA RowStep ==
    ASSUME OAuthInv, Expire \/ DeleteToken
    PROVE  OAuthInv'
<1>1. TypeOK /\ IssuedInv /\ PlaceInv /\ UnsharedInv /\ CleanInv /\ RowInv
  BY DEF OAuthInv
<1>2. UNCHANGED <<client, pc, copy, using, granted, live, issued, revocations, tainted, suspects>>
  BY DEF Expire, DeleteToken
<1>3. \/ token'.refresh = token.refresh /\ token'.present = token.present
      \/ token'.refresh = NoToken /\ token'.present = FALSE
  BY <1>1 DEF TypeOK, Expire, DeleteToken
<1>4. token' \in [present : BOOLEAN, refresh : RefreshToken \union {NoToken}, ending : BOOLEAN]
  <2> DEFINE Row == [present : BOOLEAN, refresh : RefreshToken \union {NoToken}, ending : BOOLEAN]
  <2>1. token \in Row
    BY <1>1 DEF TypeOK
  <2>2. CASE Expire
    <3>1. token' = [token EXCEPT !.ending = TRUE]
      BY <2>2 DEF Expire
    <3> QED BY <2>1, <3>1
  <2>3. CASE DeleteToken
    BY <2>3 DEF DeleteToken
  <2> QED BY <2>2, <2>3
<1>5. TypeOK'
  BY <1>1, <1>2, <1>4 DEF TypeOK
<1>6. IssuedInv' /\ PlaceInv'
  BY <1>1, <1>2, <1>3 DEF IssuedInv, PlaceInv, Answered
<1>7. UnsharedInv'
  <2>1. \A r \in Request : Carries(r) => granted[r] # NoToken
    BY <1>1 DEF PlaceInv, Carries, Answered
  <2> QED BY <1>1, <1>2, <1>3, <2>1 DEF UnsharedInv, Carries
<1>8. CleanInv' /\ RowInv'
  BY <1>1, <1>2, <1>3 DEF CleanInv, RowInv, Answered, Usable
<1> QED BY <1>5, <1>6, <1>7, <1>8 DEF OAuthInv
-----------------------------------------------------------------------------
(***************************************************************************)
(* The requests.                                                           *)
(***************************************************************************)
\* A request takes a step of its own, on its locals other than `granted`.
LEMMA LocalStep ==
    ASSUME OAuthInv, NEW r \in Request, NEW place \in PC \ {"idle", "granted", "refreshed"},
           NEW c, NEW u \in 0 .. MaxClients,
           pc[r] # "refreshed", pc[r] # "granted",
           pc' = [pc EXCEPT ![r] = place],
           copy' = [copy EXCEPT ![r] = c],
           using' = [using EXCEPT ![r] = u],
           c \in {copy[r], token.refresh},
           place = "reading" \/ (r \notin suspects => u = client),
           place \in {"consenting", "exchanging"} => u # 0,
           UNCHANGED <<token, client, granted, live, issued, revocations, tainted, suspects>>
    PROVE  OAuthInv'
<1>1. TypeOK /\ IssuedInv /\ PlaceInv /\ UnsharedInv /\ CleanInv /\ RowInv
  BY DEF OAuthInv
<1>2. c \in RefreshToken \union {NoToken} /\ place \in PC
  BY <1>1 DEF TypeOK
<1>3. /\ pc'[r] = place /\ copy'[r] = c /\ using'[r] = u
      /\ \A s \in Request \ {r} : pc'[s] = pc[s] /\ copy'[s] = copy[s] /\ using'[s] = using[s]
  BY <1>1 DEF TypeOK
<1>4. ~Carries(r)' /\ ~Answered(r)' /\ \A s \in Request \ {r} : Carries(s)' = Carries(s) /\ Answered(s)' = Answered(s)
  BY <1>3 DEF Carries, Answered
<1>5. TypeOK'
  BY <1>1, <1>2 DEF TypeOK
<1>6. IssuedInv'
  BY <1>1, <1>3 DEF IssuedInv
<1>7. PlaceInv'
  BY <1>1, <1>3, <1>4 DEF PlaceInv
<1>8. UnsharedInv'
  <2> SUFFICES ASSUME NEW s \in Request, Carries(s)'
               PROVE  /\ granted[s] # token.refresh
                      /\ \A q \in Request : granted[s] # copy'[q]
                      /\ \A q \in Request \ {s} : Carries(q)' => granted[s] # granted[q]
    BY DEF UnsharedInv
  <2>1. s # r /\ Carries(s)
    BY <1>4
  <2> QED BY <1>1, <1>3, <1>4, <2>1 DEF UnsharedInv
<1>9. CleanInv'
  BY <1>1, <1>3, <1>4 DEF CleanInv, Usable
<1>10. RowInv'
  BY <1>1, <1>3 DEF RowInv, Usable
<1> QED BY <1>5, <1>6, <1>7, <1>8, <1>9, <1>10 DEF OAuthInv

\* A request answers or dies; if it used up the row's token, that is a cause.
LEMMA ReturnStep ==
    ASSUME OAuthInv, NEW r \in Request, Return(r),
           UNCHANGED <<token, client, live, issued, revocations>>,
           tainted' \in BOOLEAN, tainted => tainted',
           pc[r] = "refreshed" /\ using[r] \in Rotating => tainted'
    PROVE  OAuthInv'
<1>1. TypeOK /\ IssuedInv /\ PlaceInv /\ UnsharedInv /\ CleanInv /\ RowInv
  BY DEF OAuthInv
<1>2. /\ pc'[r] = "idle" /\ copy'[r] = NoToken /\ granted'[r] = NoToken
      /\ suspects' = suspects \ {r}
      /\ \A s \in Request \ {r} : /\ pc'[s] = pc[s] /\ copy'[s] = copy[s]
                                  /\ using'[s] = using[s] /\ granted'[s] = granted[s]
  BY <1>1 DEF TypeOK, Return, Goto
<1>3. ~Carries(r)' /\ ~Answered(r)' /\ \A s \in Request \ {r} : Carries(s)' = Carries(s) /\ Answered(s)' = Answered(s)
  BY <1>2 DEF Carries, Answered
<1>4. TypeOK'
  <2>1. /\ pc' \in [Request -> PC] /\ copy' \in [Request -> RefreshToken \union {NoToken}]
        /\ using' \in [Request -> 0 .. MaxClients]
        /\ granted' \in [Request -> RefreshToken \union {NoToken}]
    BY <1>1, OAuthAssumption DEF TypeOK, Return, Goto, PC
  <2> QED BY <1>1, <1>2, <2>1 DEF TypeOK
<1>5. IssuedInv'
  BY <1>1, <1>2 DEF IssuedInv
<1>6. PlaceInv'
  BY <1>1, <1>2, <1>3 DEF PlaceInv
<1>7. UnsharedInv'
  <2> SUFFICES ASSUME NEW s \in Request, Carries(s)'
               PROVE  /\ granted'[s] # token.refresh
                      /\ \A q \in Request : granted'[s] # copy'[q]
                      /\ \A q \in Request \ {s} : Carries(q)' => granted'[s] # granted'[q]
    BY DEF UnsharedInv
  <2>1. s # r /\ Carries(s) /\ granted'[s] = granted[s]
    BY <1>2, <1>3
  <2>2. granted[s] # NoToken
    BY <1>1, <2>1 DEF PlaceInv, Carries, Answered
  <2> QED BY <1>1, <1>2, <1>3, <2>1, <2>2 DEF UnsharedInv
<1>8. CleanInv'
  BY <1>1, <1>2, <1>3 DEF CleanInv, Usable
<1>9. RowInv'
  BY <1>1, <1>2 DEF RowInv, Usable
<1> QED BY <1>4, <1>5, <1>6, <1>7, <1>8, <1>9 DEF OAuthInv

\* A request stores what the provider answered: a row as good as the request.
LEMMA UpsertStep ==
    ASSUME OAuthInv, NEW r \in Request, Answered(r), UpsertOAuthToken(r, granted[r]),
           tainted' \in BOOLEAN, r \in suspects => tainted'
    PROVE  OAuthInv'
<1>1. TypeOK /\ IssuedInv /\ PlaceInv /\ UnsharedInv /\ CleanInv /\ RowInv
  BY DEF OAuthInv
<1>2. /\ pc'[r] = "idle" /\ copy'[r] = NoToken /\ granted'[r] = NoToken
      /\ suspects' = suspects \ {r}
      /\ \A s \in Request \ {r} : /\ pc'[s] = pc[s] /\ copy'[s] = copy[s]
                                  /\ using'[s] = using[s] /\ granted'[s] = granted[s]
  BY <1>1 DEF TypeOK, UpsertOAuthToken, Return, Goto
<1>3. ~Carries(r)' /\ ~Answered(r)' /\ \A s \in Request \ {r} : Carries(s)' = Carries(s) /\ Answered(s)' = Answered(s)
  BY <1>2 DEF Carries, Answered
<1>4. /\ token' = [present |-> TRUE, refresh |-> granted[r], ending |-> FALSE]
      /\ UNCHANGED <<client, live, issued, revocations>>
  BY DEF UpsertOAuthToken
<1>5. granted[r] \in RefreshToken /\ granted[r] # NoToken
  BY <1>1 DEF TypeOK, PlaceInv
<1>6. TypeOK'
  <2>1. /\ pc' \in [Request -> PC] /\ copy' \in [Request -> RefreshToken \union {NoToken}]
        /\ using' \in [Request -> 0 .. MaxClients]
        /\ granted' \in [Request -> RefreshToken \union {NoToken}]
    BY <1>1, OAuthAssumption DEF TypeOK, UpsertOAuthToken, Return, Goto, PC
  <2> QED BY <1>1, <1>2, <1>4, <1>5, <2>1 DEF TypeOK
<1>7. IssuedInv'
  BY <1>1, <1>2, <1>4, <1>5 DEF IssuedInv
<1>8. PlaceInv'
  BY <1>1, <1>2, <1>3, <1>4, <1>5 DEF PlaceInv
<1>9. UnsharedInv'
  <2> SUFFICES ASSUME NEW s \in Request, Carries(s)'
               PROVE  /\ granted'[s] # token'.refresh
                      /\ \A q \in Request : granted'[s] # copy'[q]
                      /\ \A q \in Request \ {s} : Carries(q)' => granted'[s] # granted'[q]
    BY DEF UnsharedInv
  <2>1. s # r /\ Carries(s) /\ granted'[s] = granted[s]
    BY <1>2, <1>3
  <2>2. granted[s] # NoToken
    BY <1>1, <2>1 DEF PlaceInv, Carries, Answered
  <2>3. granted[s] # granted[r]
    <3>1. Carries(r) \/ granted[r] = copy[r]
      BY <1>1 DEF Answered, Carries, PlaceInv
    <3> QED BY <1>1, <2>1, <3>1 DEF UnsharedInv
  <2> QED BY <1>1, <1>2, <1>3, <1>4, <2>1, <2>2, <2>3 DEF UnsharedInv
<1>10. CleanInv'
  BY <1>1, <1>2, <1>3, <1>4 DEF CleanInv, Usable
<1>11. RowInv'
  BY <1>1, <1>4 DEF CleanInv, RowInv, Usable
<1> QED BY <1>6, <1>7, <1>8, <1>9, <1>10, <1>11 DEF OAuthInv

\* The provider issues a refresh token, and may use up the request's own.
LEMMA GrantStep ==
    ASSUME OAuthInv, NEW r \in Request, NEW used, NEW place \in {"granted", "refreshed"},
           issued < MaxGrants, issued' = issued + 1,
           granted' = [granted EXCEPT ![r] = Fresh(using[r])],
           live' = (live \ used) \union {Fresh(using[r])},
           pc' = [pc EXCEPT ![r] = place],
           using[r] # 0,
           pc[r] \in {"exchanging", "refreshing"},
           used = {} \/ (used = {copy[r]} /\ copy[r].client = using[r]),
           place = "granted" => used = {},
           place = "refreshed" => using[r] \in Rotating,
           UNCHANGED <<token, client, copy, using, revocations, tainted, suspects>>
    PROVE  OAuthInv'
<1> DEFINE new == Fresh(using[r])
<1>1. TypeOK /\ IssuedInv /\ PlaceInv /\ UnsharedInv /\ CleanInv /\ RowInv
  BY DEF OAuthInv
<1>2. new \in RefreshToken /\ new.id = issued + 1 /\ new.client = using[r] /\ issued \in Nat
  BY <1>1, OAuthAssumption DEF TypeOK, Fresh, RefreshToken
<1>3. \A t \in RefreshToken : t.id <= issued => t # new
  BY <1>2
<1>4. /\ pc'[r] = place /\ granted'[r] = new
      /\ \A s \in Request \ {r} : pc'[s] = pc[s] /\ granted'[s] = granted[s]
  BY <1>1 DEF TypeOK
<1>5. /\ ~Carries(r) /\ ~Answered(r) /\ Carries(r)' /\ Answered(r)'
      /\ \A s \in Request \ {r} : Carries(s)' = Carries(s) /\ Answered(s)' = Answered(s)
  BY <1>4 DEF Carries, Answered
<1>6. \A t \in RefreshToken : t.id \in Nat
  BY OAuthAssumption DEF RefreshToken
<1>7. TypeOK'
  <2>1. pc' \in [Request -> PC] /\ granted' \in [Request -> RefreshToken \union {NoToken}]
    BY <1>1, <1>2 DEF TypeOK, PC
  <2>2. live' \subseteq RefreshToken /\ issued' \in 0 .. MaxGrants
    BY <1>1, <1>2, OAuthAssumption DEF TypeOK
  <2> QED BY <1>1, <2>1, <2>2 DEF TypeOK
<1>8. IssuedInv'
  <2>1. \A t \in RefreshToken : t.id <= issued => t.id <= issued'
    BY <1>2, <1>6
  <2>2. \A t \in live' : t.id <= issued'
    BY <1>1, <1>2, <2>1 DEF IssuedInv, TypeOK
  <2>3. token.refresh # NoToken => token.refresh.id <= issued'
    BY <1>1, <2>1 DEF IssuedInv, TypeOK
  <2>4. \A s \in Request : copy[s] # NoToken => copy[s].id <= issued'
    BY <1>1, <2>1 DEF IssuedInv, TypeOK
  <2>5. \A s \in Request : granted'[s] # NoToken => granted'[s].id <= issued'
    BY <1>1, <1>2, <1>4, <2>1 DEF IssuedInv, TypeOK
  <2> QED BY <2>2, <2>3, <2>4, <2>5 DEF IssuedInv
<1>9. PlaceInv'
  BY <1>1, <1>2, <1>4, <1>5, NoTokenAssumption DEF PlaceInv
<1>10. UnsharedInv'
  <2>1. new # token.refresh
    BY <1>1, <1>2, <1>3, NoTokenAssumption DEF IssuedInv, TypeOK
  <2>2. \A q \in Request : new # copy[q]
    BY <1>1, <1>2, <1>3, NoTokenAssumption DEF IssuedInv, TypeOK
  <2>3. \A q \in Request : new # granted[q]
    BY <1>1, <1>2, <1>3, NoTokenAssumption DEF IssuedInv, TypeOK
  <2> SUFFICES ASSUME NEW s \in Request, Carries(s)'
               PROVE  /\ granted'[s] # token.refresh
                      /\ \A q \in Request : granted'[s] # copy[q]
                      /\ \A q \in Request \ {s} : Carries(q)' => granted'[s] # granted'[q]
    BY DEF UnsharedInv
  <2>4. CASE s = r
    BY <2>1, <2>2, <2>3, <2>4, <1>4
  <2>5. CASE s # r
    <3>1. Carries(s) /\ granted'[s] = granted[s]
      BY <2>5, <1>4, <1>5
    <3> QED BY <1>1, <1>4, <1>5, <2>3, <2>5, <3>1 DEF UnsharedInv
  <2> QED BY <2>4, <2>5
<1>11. CleanInv'
  <2> SUFFICES ASSUME NEW s \in Request \ suspects
               PROVE  /\ pc'[s] \in PC \ {"idle", "reading"} => using[s] = client
                      /\ Answered(s)' => granted'[s] \in live' /\ granted'[s].client = client
    BY DEF CleanInv, Usable
  <2>1. CASE s = r
    BY <2>1, <1>1, <1>2, <1>4 DEF CleanInv, PC
  <2>2. CASE s # r
    <3>1. Answered(s) => granted[s] # copy[r] \/ used = {}
      <4>1. CASE Carries(s)
        BY <1>1, <4>1 DEF UnsharedInv
      <4>2. CASE Answered(s) /\ ~Carries(s) /\ used # {}
        <5>1. using[s] \notin Rotating /\ using[r] \in Rotating /\ copy[r].client = using[r]
          BY <4>2 DEF Answered, Carries
        <5>2. granted[s].client = using[s]
          BY <1>1, <4>2 DEF CleanInv, Usable, Answered, PC
        <5> QED BY <5>1, <5>2
      <4> QED BY <4>1, <4>2
    <3> QED BY <1>1, <1>4, <1>5, <2>2, <3>1 DEF CleanInv, Usable
  <2> QED BY <2>1, <2>2
<1>12. RowInv'
  <2> SUFFICES ASSUME token.present, ~(token.refresh \in live' /\ token.refresh.client = client), ~tainted
               PROVE  \E s \in Request :
                         pc'[s] = "refreshed" /\ using[s] \in Rotating /\ copy[s] = token.refresh
    BY DEF RowInv, Usable
  <2>1. CASE Usable(token.refresh)
    <3>1. used = {copy[r]} /\ token.refresh = copy[r]
      BY <2>1 DEF Usable
    <3> QED BY <1>4, <3>1
  <2>2. CASE ~Usable(token.refresh)
    <3>1. PICK s \in Request : pc[s] = "refreshed" /\ using[s] \in Rotating /\ copy[s] = token.refresh
      BY <1>1, <2>2 DEF RowInv
    <3> QED BY <1>4, <3>1
  <2> QED BY <2>1, <2>2
<1> QED BY <1>7, <1>8, <1>9, <1>10, <1>11, <1>12 DEF OAuthInv

\* The provider refreshes and keeps the refresh token.
LEMMA KeepStep ==
    ASSUME OAuthInv, NEW r \in Request, using[r] \notin Rotating,
           pc[r] = "refreshing", copy[r] \in live, copy[r].client = using[r],
           granted' = [granted EXCEPT ![r] = copy[r]],
           pc' = [pc EXCEPT ![r] = "refreshed"],
           UNCHANGED <<token, client, copy, using, live, issued, revocations, tainted, suspects>>
    PROVE  OAuthInv'
<1>1. TypeOK /\ IssuedInv /\ PlaceInv /\ UnsharedInv /\ CleanInv /\ RowInv
  BY DEF OAuthInv
<1>2. copy[r] \in RefreshToken /\ copy[r] # NoToken
  BY <1>1, NoTokenAssumption DEF TypeOK
<1>3. /\ pc'[r] = "refreshed" /\ granted'[r] = copy[r]
      /\ \A s \in Request \ {r} : pc'[s] = pc[s] /\ granted'[s] = granted[s]
  BY <1>1 DEF TypeOK
<1>4. /\ ~Carries(r)' /\ Answered(r)'
      /\ \A s \in Request \ {r} : Carries(s)' = Carries(s) /\ Answered(s)' = Answered(s)
  BY <1>3 DEF Carries, Answered
<1>5. TypeOK'
  BY <1>1, <1>2 DEF TypeOK, PC
<1>6. IssuedInv' /\ PlaceInv'
  BY <1>1, <1>2, <1>3, <1>4 DEF IssuedInv, PlaceInv
<1>7. UnsharedInv'
  BY <1>1, <1>3, <1>4 DEF UnsharedInv
<1>8. CleanInv'
  BY <1>1, <1>3, <1>4 DEF CleanInv, Usable, PC
<1>9. RowInv'
  BY <1>1 DEF RowInv, Usable
<1> QED BY <1>5, <1>6, <1>7, <1>8, <1>9 DEF OAuthInv
-----------------------------------------------------------------------------
\* Every step keeps the invariant.
LEMMA NextOAuth == OAuthInv /\ [Next]_vars => OAuthInv'
<1> SUFFICES ASSUME OAuthInv, [Next]_vars PROVE OAuthInv' OBVIOUS
<1>0. TypeOK /\ PlaceInv /\ CleanInv /\ UnsharedInv
  BY DEF OAuthInv
<1>1. CASE SetProviderConfig
  <2>1. client' \in 0 .. MaxClients
    BY <1>0, <1>1, OAuthAssumption DEF SetProviderConfig, TypeOK
  <2> QED BY <1>0, <1>1, <2>1, DisturbStep DEF SetProviderConfig, TypeOK
<1>2. CASE Revoke
  <2>1. revocations' \in 0 .. MaxRevocations
    BY <1>0, <1>2, OAuthAssumption DEF Revoke, TypeOK
  <2>2. live' \subseteq live
    BY <1>2 DEF Revoke
  <2> QED BY <1>0, <1>2, <2>1, <2>2, DisturbStep DEF Revoke, TypeOK
<1>3. CASE Expire \/ DeleteToken
  BY <1>3, RowStep
<1>4. ASSUME NEW r \in Request, Authorize(r)
      PROVE  OAuthInv'
  <2>1. /\ pc' = [pc EXCEPT ![r] = "consenting"] /\ copy' = [copy EXCEPT ![r] = copy[r]]
        /\ using' = [using EXCEPT ![r] = client]
    BY <1>0, <1>4 DEF Authorize, Goto, TypeOK
  <2> QED BY <1>0, <1>4, <2>1, LocalStep DEF Authorize, TypeOK, PC
<1>5. ASSUME NEW r \in Request, Callback(r)
      PROVE  OAuthInv'
  <2>1. CASE Return(r)
    BY <1>0, <1>5, <2>1, ReturnStep DEF Callback, TypeOK
  <2>2. CASE ~Return(r)
    <3>1. /\ pc' = [pc EXCEPT ![r] = "exchanging"] /\ copy' = [copy EXCEPT ![r] = copy[r]]
          /\ using' = [using EXCEPT ![r] = using[r]]
      BY <1>0, <1>5, <2>2 DEF Callback, Goto, TypeOK
    <3>2. using[r] = client /\ using[r] # 0 /\ using[r] \in 0 .. MaxClients /\ pc[r] = "consenting"
      BY <1>0, <1>5, <2>2 DEF Callback, PlaceInv, TypeOK
    <3>3. UNCHANGED <<token, client, granted, live, issued, revocations, tainted, suspects>>
      BY <1>5, <2>2 DEF Callback
    <3> QED BY <3>1, <3>2, <3>3, LocalStep DEF PC
  <2> QED BY <2>1, <2>2
<1>6. ASSUME NEW r \in Request, Exchange(r)
      PROVE  OAuthInv'
  <2>1. using[r] # 0
    BY <1>0, <1>6 DEF Exchange, PlaceInv
  <2>2. /\ pc[r] = "exchanging" /\ pc' = [pc EXCEPT ![r] = "granted"]
        /\ issued < MaxGrants /\ issued' = issued + 1
        /\ granted' = [granted EXCEPT ![r] = Fresh(using[r])]
        /\ live' = (live \ {}) \union {Fresh(using[r])}
        /\ UNCHANGED <<token, client, copy, using, revocations, tainted, suspects>>
    BY <1>6 DEF Exchange, ForcesConsent, Goto
  <2> QED BY <2>1, <2>2, GrantStep
<1>7. ASSUME NEW r \in Request, StoreGranted(r)
      PROVE  OAuthInv'
  <2>1. Answered(r) /\ UpsertOAuthToken(r, granted[r])
    BY <1>7 DEF StoreGranted, Answered
  <2>2. tainted' \in BOOLEAN /\ (r \in suspects => tainted')
    <3>1. tainted' = (r \in suspects)
      BY <1>7 DEF StoreGranted
    <3>2. (r \in suspects) \in BOOLEAN
      OBVIOUS
    <3>3. tainted' \in BOOLEAN
      BY ONLY <3>1, <3>2, Zenon
    <3>4. r \in suspects => tainted'
      BY <3>1, Zenon
    <3> QED BY <3>3, <3>4
  <2> QED BY <2>1, <2>2, UpsertStep
<1>8. ASSUME NEW r \in Request, GetToken(r)
      PROVE  OAuthInv'
  <2>1. /\ pc' = [pc EXCEPT ![r] = "reading"] /\ copy' = [copy EXCEPT ![r] = token.refresh]
        /\ using' = [using EXCEPT ![r] = using[r]]
    BY <1>0, <1>8 DEF GetToken, Goto, TypeOK
  <2>2. pc[r] = "idle" /\ using[r] \in 0 .. MaxClients
    BY <1>0, <1>8 DEF GetToken, TypeOK
  <2>3. UNCHANGED <<token, client, granted, live, issued, revocations, tainted, suspects>>
    BY <1>8 DEF GetToken
  <2>4. "reading" \in PC \ {"idle", "granted", "refreshed"}
    BY DEF PC
  <2> QED BY <2>1, <2>2, <2>3, <2>4, LocalStep
<1>9. ASSUME NEW r \in Request, buildProvider(r)
      PROVE  OAuthInv'
  <2>1. /\ pc' = [pc EXCEPT ![r] = "refreshing"] /\ copy' = [copy EXCEPT ![r] = copy[r]]
        /\ using' = [using EXCEPT ![r] = client]
    BY <1>0, <1>9 DEF buildProvider, Goto, TypeOK
  <2> QED BY <1>0, <1>9, <2>1, LocalStep DEF buildProvider, TypeOK, PC
<1>10. ASSUME NEW r \in Request, Refresh(r)
       PROVE  OAuthInv'
  <2>1. using[r] # 0
    BY <1>0, <1>10, OAuthAssumption DEF Refresh, TypeOK, RefreshToken
  <2>2. CASE using[r] \in Rotating
    <3>1. /\ pc[r] = "refreshing" /\ pc' = [pc EXCEPT ![r] = "refreshed"]
          /\ issued < MaxGrants /\ issued' = issued + 1
          /\ granted' = [granted EXCEPT ![r] = Fresh(using[r])]
          /\ live' = (live \ {copy[r]}) \union {Fresh(using[r])}
          /\ copy[r].client = using[r]
          /\ UNCHANGED <<token, client, copy, using, revocations, tainted, suspects>>
      BY <1>10, <2>2 DEF Refresh, Goto
    <3> QED BY <2>1, <2>2, <3>1, GrantStep
  <2>3. CASE using[r] \notin Rotating
    BY <1>10, <2>3, KeepStep DEF Refresh, Goto
  <2> QED BY <2>2, <2>3
<1>11. ASSUME NEW r \in Request, RefuseRefresh(r)
       PROVE  OAuthInv'
  BY <1>0, <1>11, ReturnStep DEF RefuseRefresh, TypeOK
<1>12. ASSUME NEW r \in Request, StoreRefreshed(r)
       PROVE  OAuthInv'
  <2>1. KeepRefresh(copy[r], granted[r]) = granted[r]
    BY <1>0, <1>12 DEF StoreRefreshed, KeepRefresh, PlaceInv, Answered
  <2> QED BY <1>0, <1>12, <2>1, UpsertStep DEF StoreRefreshed, Answered, TypeOK
<1>13. ASSUME NEW r \in Request, Interrupt(r)
       PROVE  OAuthInv'
  <2>1. pc[r] = "refreshed" /\ using[r] \in Rotating => granted[r] # copy[r]
    BY <1>0 DEF UnsharedInv, Carries
  <2>2. tainted' \in BOOLEAN /\ (tainted => tainted') /\ (pc[r] = "refreshed" /\ using[r] \in Rotating => tainted')
    BY <1>0, <1>13, <2>1 DEF Interrupt, TypeOK
  <2> QED BY <1>13, <2>2, ReturnStep DEF Interrupt
<1>14. CASE UNCHANGED vars
  BY <1>14 DEF vars, OAuthInv, TypeOK, IssuedInv, PlaceInv, UnsharedInv, CleanInv, RowInv,
               Usable, Carries, Answered
<1> QED BY <1>1, <1>2, <1>3, <1>4, <1>5, <1>6, <1>7, <1>8, <1>9, <1>10, <1>11, <1>12, <1>13, <1>14
        DEF Next

\* The invariant implies what the runs check.
LEMMA OAuthImplies == OAuthInv => TypeOK /\ RefreshableUnlessTainted
BY DEF OAuthInv, RowInv, RefreshableUnlessTainted
-----------------------------------------------------------------------------
\* TypeOK: every variable stays in its type, and every token of the row, of a
\* request or of the provider is one of a client configured before.
THEOREM OAuthTypeCorrect == Spec => []TypeOK
BY InitOAuth, NextOAuth, OAuthImplies, PTL DEF Spec

\* RefreshableUnlessTainted: however refreshes, authorizations, deletions and
\* interruptions interleave, a row that cannot be refreshed has a known cause,
\* or the successor of its refresh token is on its way.
THEOREM TokenStaysRefreshable == Spec => []RefreshableUnlessTainted
BY InitOAuth, NextOAuth, OAuthImplies, PTL DEF Spec

\* A store over a working refresh token by a request that is not suspect
\* stores another working one; nothing else changes the row of the token.
LEMMA HarmStep ==
    ASSUME OAuthInv, [Next]_vars,
           token.present, Usable(token.refresh), token'.present, token' # token,
           ~Usable(token.refresh)'
    PROVE  \E r \in suspects : pc[r] \in {"granted", "refreshed"} /\ pc'[r] = "idle"
<1>1. TypeOK /\ PlaceInv /\ CleanInv
  BY DEF OAuthInv
<1>2. ~Expire
  BY <1>1 DEF Expire, TypeOK, Usable
<1>3. ~(SetProviderConfig \/ Revoke \/ DeleteToken \/ UNCHANGED vars)
  BY DEF SetProviderConfig, Revoke, DeleteToken, vars
<1>4. \A r \in Request :
        ~(\/ Authorize(r) \/ Callback(r) \/ Exchange(r) \/ GetToken(r)
          \/ buildProvider(r) \/ Refresh(r) \/ RefuseRefresh(r) \/ Interrupt(r))
  BY DEF Authorize, Callback, Exchange, GetToken, buildProvider, Refresh, RefuseRefresh, Interrupt
<1>5. PICK r \in Request : StoreGranted(r) \/ StoreRefreshed(r)
  BY <1>2, <1>3, <1>4 DEF Next
<1>6. Answered(r) /\ granted[r] # NoToken
  BY <1>1, <1>5 DEF StoreGranted, StoreRefreshed, Answered, PlaceInv
<1>7. UpsertOAuthToken(r, granted[r])
  BY <1>5, <1>6 DEF StoreGranted, StoreRefreshed, KeepRefresh
<1>8. token'.refresh = granted[r] /\ live' = live /\ client' = client /\ pc'[r] = "idle"
  BY <1>1, <1>7 DEF UpsertOAuthToken, Return, Goto, TypeOK
<1>9. ~Usable(granted[r])
  BY <1>8 DEF Usable
<1>10. r \in suspects
  BY <1>1, <1>6, <1>9 DEF CleanInv
<1> QED BY <1>6, <1>8, <1>10 DEF Answered

\* OnlySuspectsHarm: races among refreshes and authorizations alone never
\* replace a refresh token that works by one that does not.
THEOREM RacesKeepRefreshable == Spec => OnlySuspectsHarm
<1>1. OAuthInv /\ [Next]_vars
        => [token.present /\ Usable(token.refresh) /\ token'.present /\ token' # token
              => \/ Usable(token.refresh)'
                 \/ \E r \in suspects : pc[r] \in {"granted", "refreshed"} /\ pc'[r] = "idle"]_vars
  BY HarmStep
<1> QED BY <1>1, InitOAuth, NextOAuth, PTL DEF Spec, OnlySuspectsHarm
-----------------------------------------------------------------------------
(***************************************************************************)
(* OAuthTokens implements ConnectedAccount.  The mapping reads from the    *)
(* state whether a successor of the row's refresh token is on its way, so  *)
(* two facts are needed that no property above speaks of.                  *)
(***************************************************************************)
\* No request and no live token is of a client not yet configured.
PastInv == (\A r \in Request : using[r] <= client) /\ (\A t \in live : t.client <= client)

\* A refresh used the token of its own client, up if the client's tokens rotate.
SpentInv ==
    \A r \in Request : pc[r] = "refreshed" =>
        /\ copy[r] # NoToken /\ copy[r].client = using[r]
        /\ using[r] \in Rotating => copy[r] \notin live

AccountInv == OAuthInv /\ PastInv /\ SpentInv

LEMMA InitAccount == Init => PastInv /\ SpentInv
BY DEF Init, PastInv, SpentInv

\* A request that leaves or stays out of "refreshed", and issues nothing.
LEMMA PastKept ==
    ASSUME AccountInv, NEW r \in Request, pc'[r] # "refreshed",
           \A s \in Request \ {r} : pc'[s] = pc[s] /\ using'[s] = using[s] /\ copy'[s] = copy[s],
           using'[r] \in {0, client, using[r]},
           UNCHANGED <<client, live>>
    PROVE  PastInv' /\ SpentInv'
<1>1. client \in Nat
  BY OAuthAssumption DEF AccountInv, OAuthInv, TypeOK
<1> QED BY <1>1 DEF AccountInv, PastInv, SpentInv

\* A request issues a refresh token or has its own accepted.
LEMMA PastGrant ==
    ASSUME AccountInv, NEW r \in Request, pc[r] \in {"exchanging", "refreshing"},
           pc'[r] = "refreshed" => /\ copy[r] # NoToken /\ copy[r].client = using[r]
                                   /\ using[r] \in Rotating => copy[r] \notin live',
           \A s \in Request \ {r} : pc'[s] = pc[s],
           live' \subseteq live \union {Fresh(using[r])},
           UNCHANGED <<client, using, copy>>
    PROVE  PastInv' /\ SpentInv'
<1>1. TypeOK /\ IssuedInv /\ PastInv /\ SpentInv
  BY DEF AccountInv, OAuthInv
<1>2. Fresh(using[r]).client = using[r] /\ Fresh(using[r]).id = issued + 1 /\ issued \in Nat
  BY <1>1, OAuthAssumption DEF TypeOK, Fresh
<1>3. PastInv'
  BY <1>1, <1>2 DEF PastInv
<1>4. SpentInv'
  <2> SUFFICES ASSUME NEW s \in Request \ {r}, pc[s] = "refreshed", using[s] \in Rotating
               PROVE  copy[s] \notin live'
    BY <1>1 DEF SpentInv
  <2>1. copy[s] \notin live
    BY <1>1 DEF SpentInv
  <2>2. copy[s] # Fresh(using[r])
    <3>1. copy[s] # NoToken
      BY <1>1 DEF SpentInv
    <3>2. copy[s].id <= issued /\ copy[s].id \in Nat
      BY <1>1, <3>1, OAuthAssumption DEF IssuedInv, TypeOK, RefreshToken
    <3> QED BY <1>2, <3>2
  <2> QED BY <2>1, <2>2
<1> QED BY <1>3, <1>4

\* Every step keeps both facts.
LEMMA NextAccount == AccountInv /\ [Next]_vars => PastInv' /\ SpentInv'
<1> SUFFICES ASSUME AccountInv, [Next]_vars PROVE PastInv' /\ SpentInv' OBVIOUS
<1>0. TypeOK /\ IssuedInv /\ PlaceInv /\ PastInv /\ SpentInv
  BY DEF AccountInv, OAuthInv
<1>1. CASE SetProviderConfig
  <2>1. client \in Nat /\ client' = client + 1 /\ UNCHANGED <<pc, copy, using, live>>
    BY <1>0, <1>1, OAuthAssumption DEF SetProviderConfig, TypeOK
  <2>2. \A t \in live : t.client \in Nat
    BY <1>0, OAuthAssumption DEF TypeOK, RefreshToken
  <2>3. \A r \in Request : using[r] \in Nat
    BY <1>0, OAuthAssumption DEF TypeOK
  <2> QED BY <1>0, <2>1, <2>2, <2>3 DEF PastInv, SpentInv
<1>2. CASE Revoke
  BY <1>0, <1>2 DEF Revoke, PastInv, SpentInv
<1>3. CASE Expire \/ DeleteToken \/ UNCHANGED vars
  BY <1>0, <1>3 DEF Expire, DeleteToken, vars, PastInv, SpentInv
<1>4. ASSUME NEW r \in Request, Authorize(r) \/ GetToken(r) \/ buildProvider(r)
      PROVE  PastInv' /\ SpentInv'
  BY <1>0, <1>4, PastKept DEF Authorize, GetToken, buildProvider, Goto, TypeOK
<1>5. ASSUME NEW r \in Request, Return(r), UNCHANGED <<client, live>>
      PROVE  PastInv' /\ SpentInv'
  BY <1>0, <1>5, PastKept DEF Return, Goto, TypeOK
<1>6. ASSUME NEW r \in Request, Callback(r)
      PROVE  PastInv' /\ SpentInv'
  <2>1. CASE Return(r)
    BY <1>5, <1>6, <2>1 DEF Callback
  <2>2. CASE ~Return(r)
    BY <1>0, <1>6, <2>2, PastKept DEF Callback, Goto, TypeOK
  <2> QED BY <2>1, <2>2
<1>7. ASSUME NEW r \in Request, RefuseRefresh(r) \/ Interrupt(r) \/ StoreGranted(r) \/ StoreRefreshed(r)
      PROVE  PastInv' /\ SpentInv'
  BY <1>5, <1>7 DEF RefuseRefresh, Interrupt, StoreGranted, StoreRefreshed, UpsertOAuthToken
<1>8. ASSUME NEW r \in Request, Exchange(r)
      PROVE  PastInv' /\ SpentInv'
  <2>1. /\ pc[r] = "exchanging" /\ pc' = [pc EXCEPT ![r] = "granted"]
        /\ live' = live \union {Fresh(using[r])} /\ UNCHANGED <<client, using, copy>>
    BY <1>8 DEF Exchange, ForcesConsent, Goto
  <2> QED BY <1>0, <2>1, PastGrant DEF TypeOK
<1>9. ASSUME NEW r \in Request, Refresh(r)
      PROVE  PastInv' /\ SpentInv'
  <2>1. /\ pc[r] = "refreshing" /\ pc' = [pc EXCEPT ![r] = "refreshed"]
        /\ copy[r] \in live /\ copy[r].client = using[r]
        /\ UNCHANGED <<client, using, copy>>
        /\ using[r] \notin Rotating => live' = live
        /\ using[r] \in Rotating => live' = (live \ {copy[r]}) \union {Fresh(using[r])}
    BY <1>9 DEF Refresh, Goto
  <2>2. copy[r] # NoToken
    BY <1>0, <2>1, NoTokenAssumption DEF TypeOK
  <2>3. copy[r] # Fresh(using[r])
    <3>1. copy[r].id <= issued /\ copy[r].id \in Nat /\ issued \in Nat
      BY <1>0, <2>2, OAuthAssumption DEF IssuedInv, TypeOK, RefreshToken
    <3>2. Fresh(using[r]).id = issued + 1
      BY DEF Fresh
    <3> QED BY <3>1, <3>2
  <2>4. using[r] \in Rotating => copy[r] \notin live'
    BY <2>1, <2>3
  <2> QED BY <1>0, <2>1, <2>2, <2>4, PastGrant DEF TypeOK
<1> QED BY <1>1, <1>2, <1>3, <1>4, <1>6, <1>7, <1>8, <1>9 DEF Next
-----------------------------------------------------------------------------
(***************************************************************************)
(* The steps, as the connected account sees them.                          *)
(***************************************************************************)
Stale == suspects # {}

\* Suspects only become fewer.
LEMMA FewerSuspects == suspects' \subseteq suspects => Stale' \in BOOLEAN /\ (Stale' => Stale)
BY DEF Stale

\* A request goes on, ends or dies without a store, and may have been the one
\* with the successor of the row's refresh token.
LEMMA EndingStep ==
    ASSUME NEW r \in Request, pc'[r] # "refreshed",
           \A s \in Request \ {r} : /\ pc'[s] = pc[s] /\ using'[s] = using[s]
                                     /\ copy'[s] = copy[s] /\ granted'[s] = granted[s],
           UNCHANGED <<token, client, live, revocations>>, suspects' \subseteq suspects
    PROVE  Connected!GiveUp
<1>1. \A t : Usable(t)' = Usable(t)
  BY DEF Usable
<1>2. Renewing' => Renewing
  BY <1>1 DEF Renewing
<1>3. AccountOf' = AccountOf \/ (AccountOf = "renewing" /\ AccountOf' = "lost")
  BY <1>1, <1>2 DEF AccountOf, Usable
<1> QED BY <1>3, FewerSuspects DEF Connected!GiveUp, Connected!FewerStale, Stale

\* What the provider issues changes the account only by using up the row's token.
LEMMA IssueStep ==
    ASSUME AccountInv, NEW r \in Request, NEW used,
           granted' = [granted EXCEPT ![r] = Fresh(using[r])],
           live' = (live \ used) \union {Fresh(using[r])},
           \/ pc[r] = "exchanging" /\ pc' = [pc EXCEPT ![r] = "granted"] /\ used = {}
           \/ /\ pc[r] = "refreshing" /\ pc' = [pc EXCEPT ![r] = "refreshed"] /\ used = {copy[r]}
              /\ using[r] \in Rotating /\ copy[r] \in live /\ copy[r].client = using[r],
           UNCHANGED <<token, client, copy, using, revocations, suspects>>
    PROVE  Connected!Rotate \/ UNCHANGED <<AccountOf, client + revocations, Stale>>
<1> DEFINE new == Fresh(using[r])
<1>1. TypeOK /\ IssuedInv /\ PlaceInv /\ UnsharedInv /\ SpentInv
  BY DEF AccountInv, OAuthInv
<1>2. new.id = issued + 1 /\ new.client = using[r] /\ issued \in Nat
  BY <1>1, OAuthAssumption DEF TypeOK, Fresh
<1>3. \A t \in RefreshToken : t.id <= issued => t # new
  BY <1>2, OAuthAssumption DEF RefreshToken
<1>4. UNCHANGED <<client + revocations, Stale>>
  BY DEF Stale
<1>5. /\ granted'[r] = new /\ pc[r] # "refreshed"
      /\ \A s \in Request \ {r} : pc'[s] = pc[s] /\ granted'[s] = granted[s]
  BY <1>1 DEF TypeOK
<1>6. CASE ~token.present
  BY <1>4, <1>6 DEF AccountOf
<1>7. CASE token.present
  <2>1. token.refresh \in RefreshToken /\ token.refresh # new
    <3>1. token.refresh # NoToken /\ token.refresh \in RefreshToken
      BY <1>1, <1>7 DEF PlaceInv, TypeOK
    <3> QED BY <1>1, <1>3, <3>1 DEF IssuedInv
  <2>2. CASE Usable(token.refresh) /\ token.refresh \in used
    <3>1. /\ pc'[r] = "refreshed" /\ using[r] \in Rotating /\ copy[r] = token.refresh
          /\ using[r] = client
      BY <1>1, <2>2 DEF Usable, TypeOK
    <3>2. Usable(granted[r])'
      BY <1>2, <1>5, <3>1 DEF Usable
    <3>3. ~Usable(token.refresh)'
      BY <2>1, <2>2 DEF Usable
    <3>4. Renewing'
      BY <3>1, <3>2 DEF Renewing
    <3>5. AccountOf = "working" /\ AccountOf' = "renewing"
      BY <1>7, <2>2, <3>3, <3>4 DEF AccountOf
    <3> QED BY <1>4, <3>5 DEF Connected!Rotate, Stale
  <2>3. CASE Usable(token.refresh) /\ token.refresh \notin used
    <3>1. Usable(token.refresh)'
      BY <2>3 DEF Usable
    <3>2. AccountOf = "working" /\ AccountOf' = "working"
      BY <1>7, <2>3, <3>1 DEF AccountOf
    <3> QED BY <1>4, <3>2
  <2>4. CASE ~Usable(token.refresh)
    <3>1. ~Usable(token.refresh)'
      BY <2>1, <2>4 DEF Usable
    <3>2. ASSUME NEW s \in Request, s # r
          PROVE  Usable(granted[s])' /\ pc[s] = "refreshed" => Usable(granted[s])
      <4> SUFFICES ASSUME Usable(granted[s])', pc[s] = "refreshed" PROVE Usable(granted[s])
        OBVIOUS
      <4>1. granted[s] \in RefreshToken /\ granted[s].id <= issued
        BY <1>1, <3>2 DEF PlaceInv, Answered, TypeOK, IssuedInv
      <4>2. granted[s] # new
        BY <1>3, <4>1
      <4> QED BY <1>5, <3>2, <4>2 DEF Usable
    <3>3. ASSUME NEW s \in Request, s # r, pc[s] = "refreshed", using[s] \in Rotating, Usable(granted[s])
          PROVE  Usable(granted[s])'
      <4>1. granted[s] \notin used
        BY <1>1, <3>3 DEF UnsharedInv, Carries
      <4> QED BY <1>5, <3>3, <4>1 DEF Usable
    <3>4. ~(pc'[r] = "refreshed" /\ copy[r] = token.refresh /\ Usable(granted[r])')
      <4> SUFFICES ASSUME pc'[r] = "refreshed", copy[r] = token.refresh, Usable(granted[r])'
                   PROVE  FALSE
        OBVIOUS
      <4>1. copy[r] \in live /\ copy[r].client = using[r]
        BY <1>1 DEF TypeOK
      <4>2. using[r] = client
        BY <1>2, <1>5 DEF Usable
      <4> QED BY <2>4, <4>1, <4>2 DEF Usable
    <3>5. Renewing' <=> Renewing
      BY <1>5, <3>2, <3>3, <3>4 DEF Renewing
    <3>6. AccountOf' = AccountOf
      BY <1>7, <2>4, <3>1, <3>5 DEF AccountOf
    <3> QED BY <1>4, <3>6
  <2> QED BY <2>2, <2>3, <2>4
<1> QED BY <1>6, <1>7

\* The end of Callback or of refreshAndStore.
LEMMA StoreStep ==
    ASSUME AccountInv, NEW r \in Request, Answered(r), UpsertOAuthToken(r, granted[r])
    PROVE  Connected!Store \/ Connected!StoreStale
<1>1. TypeOK /\ PlaceInv /\ UnsharedInv /\ CleanInv /\ SpentInv
  BY DEF AccountInv, OAuthInv
<1>2. /\ token'.present = TRUE /\ token'.refresh = granted[r]
      /\ UNCHANGED <<client, live, revocations>> /\ suspects' \subseteq suspects
  BY DEF UpsertOAuthToken, Return
<1>3. UNCHANGED (client + revocations) /\ Connected!FewerStale
  BY <1>2, FewerSuspects DEF Connected!FewerStale, Stale
<1>4. CASE Usable(granted[r])
  <2>1. AccountOf' = "working"
    BY <1>2, <1>4 DEF AccountOf, Usable
  <2> QED BY <1>3, <2>1 DEF Connected!Store
<1>5. CASE ~Usable(granted[r])
  <2>1. r \in suspects
    BY <1>1, <1>5 DEF CleanInv
  <2>2. ~Renewing'
    <3> SUFFICES ASSUME NEW s \in Request, pc'[s] = "refreshed", using'[s] \in Rotating,
                        copy'[s] = granted[r]
                 PROVE  FALSE
      BY <1>2 DEF Renewing
    <3>1. s # r /\ pc[s] = "refreshed" /\ using[s] \in Rotating /\ copy[s] = granted[r]
      BY <1>1 DEF UpsertOAuthToken, Return, Goto, TypeOK
    <3>2. ~Carries(r)
      BY <1>1, <3>1 DEF UnsharedInv
    <3>3. pc[r] = "refreshed" /\ using[r] \notin Rotating /\ granted[r] = copy[r]
      BY <1>1, <3>2 DEF Carries, Answered, PlaceInv
    <3> QED BY <1>1, <3>1, <3>3 DEF SpentInv
  <2>3. AccountOf' = "lost"
    BY <1>2, <1>5, <2>2 DEF AccountOf, Usable
  <2> QED BY <1>3, <2>1, <2>3 DEF Connected!StoreStale
<1> QED BY <1>4, <1>5

\* A withdrawn consent or another client: no dead token comes alive.
LEMMA CauseStep ==
    ASSUME AccountInv, SetProviderConfig \/ Revoke
    PROVE  Connected!Cause
<1>1. TypeOK /\ PastInv /\ SpentInv /\ PlaceInv
  BY DEF AccountInv, OAuthInv
<1>2. client \in Nat /\ revocations \in Nat
  BY <1>1, OAuthAssumption DEF TypeOK
<1>3. UNCHANGED <<token, pc, copy, using, granted>> /\ live' \subseteq live
  BY DEF SetProviderConfig, Revoke
<1>4. (client + revocations)' = client + revocations + 1
  BY <1>2 DEF SetProviderConfig, Revoke
<1>5. ASSUME NEW t, Usable(t)' PROVE Usable(t)
  <2>1. CASE SetProviderConfig
    <3>1. t \in live /\ t.client = client + 1
      BY <1>5, <2>1 DEF SetProviderConfig, Usable
    <3>2. t.client <= client /\ t.client \in Nat
      BY <1>1, <3>1, OAuthAssumption DEF PastInv, TypeOK, RefreshToken
    <3> QED BY <1>2, <3>1, <3>2
  <2>2. CASE Revoke
    BY <1>3, <1>5, <2>2 DEF Revoke, Usable
  <2> QED BY <2>1, <2>2
<1>6. Renewing' => Renewing
  BY <1>3, <1>5 DEF Renewing
<1>7. Usable(token.refresh) => ~Renewing'
  BY <1>1, <1>3 DEF Renewing, SpentInv, Usable
<1>8. Usable(token.refresh)' => Usable(token.refresh)
  BY <1>3, <1>5
<1>9. AccountOf' = AccountOf \/ (AccountOf \in {"working", "renewing"} /\ AccountOf' = "lost")
  BY <1>3, <1>6, <1>7, <1>8 DEF AccountOf
<1>10. Stale' \in BOOLEAN
  BY DEF Stale
<1> QED BY <1>4, <1>9, <1>10 DEF Connected!Cause, Stale

\* Time and DeleteToken.
LEMMA RowAccount ==
    ASSUME AccountInv, Expire \/ DeleteToken
    PROVE  Connected!DeleteToken \/ UNCHANGED <<AccountOf, client + revocations, Stale>>
<1>1. UNCHANGED <<client + revocations, Stale>>
  BY DEF Expire, DeleteToken, Stale
<1>2. CASE Expire
  <2>1. token'.present = token.present /\ token'.refresh = token.refresh
    BY <1>2 DEF AccountInv, OAuthInv, TypeOK, Expire
  <2>2. AccountOf' = AccountOf
    BY <1>2, <2>1 DEF Expire, AccountOf, Renewing, Usable
  <2> QED BY <1>1, <2>2
<1>3. CASE DeleteToken
  BY <1>1, <1>3 DEF DeleteToken, AccountOf, Connected!DeleteToken, Stale
<1> QED BY <1>2, <1>3

\* The initial state is that of an account nobody connected.
LEMMA InitConnected == Init => Connected!Init
BY DEF Init, Connected!Init, AccountOf

\* Every step is one of the connected account, or none.
LEMMA NextConnected == AccountInv /\ [Next]_vars => [Connected!Next]_(Connected!vars)
<1> SUFFICES ASSUME AccountInv, [Next]_vars
             PROVE  Connected!Next \/ UNCHANGED <<AccountOf, client + revocations, Stale>>
  BY DEF Connected!vars, Stale
<1>0. TypeOK /\ PlaceInv
  BY DEF AccountInv, OAuthInv
<1>1. CASE SetProviderConfig \/ Revoke
  BY <1>1, CauseStep DEF Connected!Next
<1>2. CASE Expire \/ DeleteToken
  BY <1>2, RowAccount DEF Connected!Next
<1>3. ASSUME NEW r \in Request, Authorize(r) \/ GetToken(r) \/ buildProvider(r)
      PROVE  Connected!Next
  BY <1>0, <1>3, EndingStep DEF Authorize, GetToken, buildProvider, Goto, TypeOK, Connected!Next
<1>4. ASSUME NEW r \in Request, Return(r), UNCHANGED <<token, client, live, revocations>>
      PROVE  Connected!Next
  BY <1>0, <1>4, EndingStep DEF Return, Goto, TypeOK, Connected!Next
<1>5. ASSUME NEW r \in Request, Callback(r)
      PROVE  Connected!Next
  <2>1. CASE Return(r)
    BY <1>4, <1>5, <2>1 DEF Callback
  <2>2. CASE ~Return(r)
    BY <1>0, <1>5, <2>2, EndingStep DEF Callback, Goto, TypeOK, Connected!Next
  <2> QED BY <2>1, <2>2
<1>6. ASSUME NEW r \in Request, RefuseRefresh(r) \/ Interrupt(r)
      PROVE  Connected!Next
  BY <1>4, <1>6 DEF RefuseRefresh, Interrupt
<1>7. ASSUME NEW r \in Request, Exchange(r)
      PROVE  Connected!Next \/ UNCHANGED <<AccountOf, client + revocations, Stale>>
  <2>1. live' = (live \ {}) \union {Fresh(using[r])}
    BY <1>7 DEF Exchange, ForcesConsent
  <2> QED BY <1>7, <2>1, IssueStep DEF Exchange, ForcesConsent, Goto, Connected!Next
<1>8. ASSUME NEW r \in Request, Refresh(r)
      PROVE  Connected!Next \/ UNCHANGED <<AccountOf, client + revocations, Stale>>
  <2>1. CASE using[r] \in Rotating
    BY <1>8, <2>1, IssueStep DEF Refresh, Goto, Connected!Next
  <2>2. CASE using[r] \notin Rotating
    <3>1. /\ \A s \in Request \ {r} : pc'[s] = pc[s] /\ granted'[s] = granted[s]
          /\ pc[r] = "refreshing"
          /\ UNCHANGED <<token, client, copy, using, live, revocations, suspects>>
      BY <1>0, <1>8, <2>2 DEF Refresh, Goto, TypeOK
    <3>2. Renewing' <=> Renewing
      BY <2>2, <3>1 DEF Renewing, Usable
    <3>3. UNCHANGED <<AccountOf, client + revocations, Stale>>
      BY <3>1, <3>2 DEF AccountOf, Usable, Stale
    <3> QED BY <3>3
  <2> QED BY <2>1, <2>2
<1>9. ASSUME NEW r \in Request, StoreGranted(r) \/ StoreRefreshed(r)
      PROVE  Connected!Next
  <2>1. Answered(r) /\ UpsertOAuthToken(r, granted[r])
    BY <1>0, <1>9 DEF StoreGranted, StoreRefreshed, KeepRefresh, Answered, PlaceInv
  <2> QED BY <2>1, StoreStep DEF Connected!Next
<1>10. CASE UNCHANGED vars
  BY <1>10 DEF vars, AccountOf, Renewing, Usable, Stale
<1> QED BY <1>1, <1>2, <1>3, <1>5, <1>6, <1>7, <1>8, <1>9, <1>10 DEF Next

\* ImplementsConnectedAccount: for any number of requests, clients, tokens and
\* withdrawn consents, the stored token behaves as a connected account does.
THEOREM AccountRefinement == Spec => ImplementsConnectedAccount
<1>1. Init => AccountInv
  BY InitOAuth, InitAccount DEF AccountInv
<1>2. AccountInv /\ [Next]_vars => AccountInv'
  BY NextOAuth, NextAccount DEF AccountInv
<1> QED BY <1>1, <1>2, InitConnected, NextConnected, PTL
        DEF Spec, ImplementsConnectedAccount, Connected!Spec
=============================================================================
