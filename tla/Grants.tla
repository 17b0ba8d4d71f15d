------------------------------- MODULE Grants -------------------------------
(***************************************************************************)
(* The token endpoint, the revocation endpoint and the issuing half of the *)
(* authorization endpoint, over the in-memory stores they share            *)
(* (internal/server: store.go, grant.go, authorize.go, server.go, token.go,*)
(* pkce.go).                                                               *)
(*                                                                         *)
(* Every request runs in a goroutine of its own; a Worker is a request     *)
(* slot.  The stores are sync.Maps: one operation on one key is atomic and *)
(* nothing holds across two of them, so each store call of a handler is an *)
(* action here, with the local computation up to the next call folded into *)
(* it.  Requests that fail before their first store call change nothing    *)
(* and are not steps: the Receive actions carry those checks as guards.    *)
(*                                                                         *)
(* Records in the stores are never mutated after they are stored.  The     *)
(* record of a code or a refresh token therefore lives in codeInfo or      *)
(* refreshInfo for ever (the heap), while codes and refreshTokens are the  *)
(* keys now present in the maps.                                           *)
(***************************************************************************)
EXTENDS Naturals, Scopes, Functions

CONSTANTS
    Worker,             \* request slots: how many requests may be in flight
    Client, User,       \* registered clients, known users
    NoUser,             \* the empty user id of client_credentials
    Code, RefreshToken, \* the random strings the server may draw
    NoToken,            \* "no refresh token", "no parent credential"
    Verifier,           \* PKCE code verifiers
    RedirectURI,
    RegisteredScopes,   \* Client.Scopes, {} when registered without any
    RedirectURIs,       \* Client.RedirectURIs
    AllowedGrantTypes,  \* Client.AllowedGrantTypes
    TicksPerSecond,     \* resolution of the clock; JWT times are whole seconds
    CodeExpiry, AccessExpiry, RefreshExpiry,  \* in seconds
    MaxTime,            \* bound: the clock stops at this tick
    Traffic,            \* the kinds of request the environment sends
    RequestScopes       \* the scope parameters requests carry

GrantType == {"authorization_code", "password", "client_credentials", "refresh_token"}
Credential == Code \cup RefreshToken

\* The signed string of an access token.  It has no unique claim: client, user,
\* scope and the whole second of issue determine it.
AccessToken == [client : Client, user : User \cup {NoUser}, scope : ScopeString, iat : Nat]

ASSUME GrantsAssumption ==
    /\ Code \cap RefreshToken = {}
    /\ NoToken \notin Credential
    /\ NoUser \notin User
    /\ \A t \in RefreshToken \cup {NoToken} : t \notin AccessToken
    /\ RegisteredScopes \in [Client -> SUBSET ScopeName]
    /\ RedirectURIs \in [Client -> SUBSET RedirectURI]
    /\ AllowedGrantTypes \in [Client -> SUBSET GrantType]
    /\ TicksPerSecond \in Nat \ {0}
    /\ CodeExpiry \in Nat /\ AccessExpiry \in Nat \ {0} /\ RefreshExpiry \in Nat
    /\ MaxTime \in Nat
    /\ RequestScopes \subseteq ScopeString

\* NewTokenGenerator: 24 hours against 2.
ASSUME ExpiryAssumption == RefreshExpiry > AccessExpiry

VARIABLES
    now,           \* the clock, in ticks
    codeInfo,      \* authorization code |-> its record
    codes,         \* keys of AuthCodeStore.codes
    refreshInfo,   \* refresh token |-> its TokenInfo
    refreshTokens, \* keys of TokenStore.refreshTokens
    accessTokens,  \* TokenStore.accessTokens: signed string |-> ExpiresAt
    pc, req, pair, \* per worker: the next store call, the request, the new tokens
    handedOut,     \* history: the token strings clients have been sent
    lineage        \* history: refresh token |-> what it was issued for, by whom

storeVars  == <<codeInfo, codes, refreshInfo, refreshTokens, accessTokens>>
workerVars == <<pc, req, pair>>
vars == <<now, storeVars, workerVars, handedOut, lineage>>

-----------------------------------------------------------------------------
(* Data *)

Ticks(seconds) == seconds * TicksPerSecond

Expired(expiresAt) == now > expiresAt

\* SHA-256 of a verifier: injective, never a verifier itself.
S256(verifier) == <<"S256", verifier>>

\* For a code with a challenge, and with the method S256: Server.Authorize stores
\* no other.
VerifyPKCE(challenge, verifier) == challenge = S256(verifier)

AuthorizationCode ==
    [client : Client, user : User, redirectURI : RedirectURI, scope : ScopeString,
     challenge : {S256(v) : v \in Verifier}, expiresAt : Nat]

TokenInfo ==
    [client : Client, user : User, scope : ScopeString, access : AccessToken,
     expiresAt : Nat]

TokenPair ==
    [access : AccessToken \cup {NoToken}, expiresAt : Nat,
     refresh : RefreshToken \cup {NoToken}]
NoPair == [access |-> NoToken, expiresAt |-> 0, refresh |-> NoToken]

Hint == {"access_token", "refresh_token", ""}

ExchangeRequest ==
    [kind : {"authorization_code"}, client : Client, code : Code,
     redirectURI : RedirectURI, verifier : Verifier]
PasswordRequest ==
    [kind : {"password"}, client : Client, user : User, scope : ScopeString]
ClientCredentialsRequest ==
    [kind : {"client_credentials"}, client : Client, scope : ScopeString]
RefreshRequest ==
    [kind : {"refresh_token"}, client : Client, token : RefreshToken, scope : ScopeString]
RevokeRequest ==
    [kind : {"revoke"}, client : Client, token : RefreshToken \cup AccessToken, hint : Hint]
Request == ExchangeRequest \cup PasswordRequest \cup ClientCredentialsRequest
              \cup RefreshRequest \cup RevokeRequest
NoRequest == [kind |-> "none"]

PC == {"idle", "getCode", "deleteCode", "getRefresh", "deleteRefresh", "getAccess",
       "deleteAccess", "generate", "storeAccess", "storeRefresh", "ok", "error"}

Lineage == [from : Credential \cup {NoToken}, by : Worker]

TypeOK ==
    /\ now \in Nat
    /\ DOMAIN codeInfo \subseteq Code
    /\ codeInfo \in [DOMAIN codeInfo -> AuthorizationCode]
    /\ codes \subseteq DOMAIN codeInfo
    /\ DOMAIN refreshInfo \subseteq RefreshToken
    /\ refreshInfo \in [DOMAIN refreshInfo -> TokenInfo]
    /\ refreshTokens \subseteq DOMAIN refreshInfo
    /\ DOMAIN accessTokens \subseteq AccessToken
    /\ accessTokens \in [DOMAIN accessTokens -> Nat]
    /\ pc \in [Worker -> PC]
    /\ req \in [Worker -> Request \cup {NoRequest}]
    /\ pair \in [Worker -> TokenPair]
    /\ handedOut \subseteq RefreshToken \cup AccessToken
    /\ lineage \in [DOMAIN refreshInfo -> Lineage]

Init ==
    /\ now = 0
    /\ codeInfo = <<>> /\ codes = {}
    /\ refreshInfo = <<>> /\ refreshTokens = {}
    /\ accessTokens = <<>>
    /\ pc = [w \in Worker |-> "idle"]
    /\ req = [w \in Worker |-> NoRequest]
    /\ pair = [w \in Worker |-> NoPair]
    /\ handedOut = {}
    /\ lineage = <<>>

-----------------------------------------------------------------------------
(* The stores *)

(* Names ending in a _Fault are deliberately wrong variants of the definition *)
(* that follows them; nothing uses them but the mutants that show that the    *)
(* properties can fail.                                                       *)

\* AuthCodeStore.Get finds the code; if it does not, it leaves an expired
\* entry deleted.
CodeFound(c) == c \in codes /\ ~Expired(codeInfo[c].expiresAt)
CodesAfterGet(c) == IF CodeFound(c) THEN codes ELSE codes \ {c}

CodesWithout_KeptFault(c) == codes
CodesWithout(c) == codes \ {c}

\* TokenStore.GetRefreshToken and DeleteRefreshToken.
RefreshFound(t) == t \in refreshTokens /\ ~Expired(refreshInfo[t].expiresAt)
RefreshTokensAfterGet(t) == IF RefreshFound(t) THEN refreshTokens ELSE refreshTokens \ {t}

RefreshTokensWithout_KeptFault(t) == refreshTokens
RefreshTokensWithout(t) == refreshTokens \ {t}

\* TokenStore.GetAccessToken and DeleteAccessToken.
AccessFound(t) == t \in DOMAIN accessTokens /\ ~Expired(accessTokens[t])
AccessTokensWithout(t) == Restrict(accessTokens, DOMAIN accessTokens \ {t})
AccessTokensAfterGet(t) == IF AccessFound(t) THEN accessTokens ELSE AccessTokensWithout(t)

-----------------------------------------------------------------------------
(* Requests arrive.  Clients present what they were sent. *)

Goto(w, label) == pc' = [pc EXCEPT ![w] = label]

Receive(w, kind, request, label) ==
    /\ kind \in Traffic
    /\ pc[w] = "idle"
    /\ req' = [req EXCEPT ![w] = request]
    /\ Goto(w, label)
    /\ UNCHANGED <<now, storeVars, pair, handedOut, lineage>>

\* validateAndAuthenticate for a client that sent its own secret.
MayUse(client, grantType) == grantType \in AllowedGrantTypes[client]

\* Server.Authorize for a logged-in user: one Create is all it does to the
\* stores, so the request is a single step.
Authorize ==
    \E code \in Code \ DOMAIN codeInfo, client \in Client, user \in User,
       uri \in RedirectURI, scope \in RequestScopes, verifier \in Verifier :
        /\ "authorize" \in Traffic
        /\ uri \in RedirectURIs[client]
        /\ ScopePermitted(RegisteredScopes[client], scope)
        /\ codeInfo' = [c \in DOMAIN codeInfo \cup {code} |->
                          IF c # code THEN codeInfo[c]
                          ELSE [client |-> client, user |-> user, redirectURI |-> uri,
                                scope |-> ResolvedScope(RegisteredScopes[client], scope),
                                challenge |-> S256(verifier),
                                expiresAt |-> now + Ticks(CodeExpiry)]]
        /\ codes' = codes \cup {code}
        /\ UNCHANGED <<now, refreshInfo, refreshTokens, accessTokens, workerVars,
                       handedOut, lineage>>

ReceiveExchange(w) ==
    \E client \in Client, code \in DOMAIN codeInfo, uri \in RedirectURI,
       verifier \in Verifier :
        /\ MayUse(client, "authorization_code")
        /\ Receive(w, "authorization_code",
                   [kind |-> "authorization_code", client |-> client, code |-> code,
                    redirectURI |-> uri, verifier |-> verifier], "getCode")

\* grantPassword: scope and password are checked before any token is generated.
ReceivePassword(w) ==
    \E client \in Client, user \in User, scope \in RequestScopes :
        /\ MayUse(client, "password")
        /\ ScopePermitted(RegisteredScopes[client], scope)
        /\ Receive(w, "password",
                   [kind |-> "password", client |-> client, user |-> user,
                    scope |-> ResolvedScope(RegisteredScopes[client], scope)], "generate")

\* grantClientCredentials: openid is refused in the scope as resolved.
ReceiveClientCredentials(w) ==
    \E client \in Client, scope \in RequestScopes :
        LET resolved == ResolvedScope(RegisteredScopes[client], scope) IN
        /\ MayUse(client, "client_credentials")
        /\ ScopePermitted(RegisteredScopes[client], scope)
        /\ ~ContainsScope(resolved, OpenID)
        /\ Receive(w, "client_credentials",
                   [kind |-> "client_credentials", client |-> client,
                    scope |-> resolved], "generate")

ReceiveRefresh(w) ==
    \E client \in Client, token \in handedOut \cap RefreshToken, scope \in RequestScopes :
        /\ MayUse(client, "refresh_token")
        /\ Receive(w, "refresh_token",
                   [kind |-> "refresh_token", client |-> client, token |-> token,
                    scope |-> scope], "getRefresh")

\* RevokeToken: the hint selects the map that is searched first.
ReceiveRevoke(w) ==
    \E client \in Client, token \in handedOut, hint \in Hint :
        Receive(w, "revoke",
                [kind |-> "revoke", client |-> client, token |-> token, hint |-> hint],
                IF hint = "refresh_token" THEN "getRefresh" ELSE "getAccess")

-----------------------------------------------------------------------------
(* Authorization code exchange: Get, Delete, then the checks.  The code is  *)
(* spent by the attempt, whatever the checks say.                           *)

GetCode(w) ==
    LET code == req[w].code IN
    /\ pc[w] = "getCode"
    /\ codes' = CodesAfterGet(code)
    /\ Goto(w, IF CodeFound(code) THEN "deleteCode" ELSE "error")
    /\ UNCHANGED <<now, codeInfo, refreshInfo, refreshTokens, accessTokens, req, pair,
                   handedOut, lineage>>

\* Client, redirect URI, PKCE and a second look at the scope.
ExchangeAccepted(q) ==
    LET info == codeInfo[q.code] IN
    /\ info.client = q.client
    /\ info.redirectURI = q.redirectURI
    /\ VerifyPKCE(info.challenge, q.verifier)
    /\ ScopePermitted(RegisteredScopes[q.client], info.scope)

DeleteCode(w) ==
    /\ pc[w] = "deleteCode"
    /\ codes' = CodesWithout(req[w].code)
    /\ Goto(w, IF ExchangeAccepted(req[w]) THEN "generate" ELSE "error")
    /\ UNCHANGED <<now, codeInfo, refreshInfo, refreshTokens, accessTokens, req, pair,
                   handedOut, lineage>>

-----------------------------------------------------------------------------
(* Refresh and revocation.  Both look the refresh token up, delete it, then *)
(* delete the access token its record names.                                *)

\* Omitting the scope parameter keeps the scope of the old token.
RefreshedScope(q) ==
    ResolvedScope(RegisteredScopes[q.client],
                  IF q.scope = NoScope THEN refreshInfo[q.token].scope ELSE q.scope)

RefreshAccepted(q) ==
    LET info == refreshInfo[q.token]
        scope == IF q.scope = NoScope THEN info.scope ELSE q.scope IN
    /\ info.client = q.client
    /\ ScopePermitted(RegisteredScopes[q.client], scope)
    /\ q.scope # NoScope => isScopeNarrowed(RefreshedScope(q), info.scope)

\* What follows the lookup: an unknown token is an error for a refresh and a
\* success for a revocation; another client's is an error, except when a
\* revocation carries no hint.
AfterGetRefresh_NoRotationFault(q) ==
    IF RefreshFound(q.token) /\ q.kind = "refresh_token" /\ RefreshAccepted(q)
    THEN "generate" ELSE "error"
AfterGetRefresh(q) ==
    IF q.kind = "refresh_token"
    THEN IF RefreshFound(q.token) /\ RefreshAccepted(q) THEN "deleteRefresh" ELSE "error"
    ELSE IF ~RefreshFound(q.token) THEN "ok"
    ELSE IF refreshInfo[q.token].client = q.client THEN "deleteRefresh"
    ELSE IF q.hint = "" THEN "ok" ELSE "error"

GetRefresh(w) ==
    /\ pc[w] = "getRefresh"
    /\ refreshTokens' = RefreshTokensAfterGet(req[w].token)
    /\ Goto(w, AfterGetRefresh(req[w]))
    /\ UNCHANGED <<now, codeInfo, codes, refreshInfo, accessTokens, req, pair,
                   handedOut, lineage>>

DeleteRefresh(w) ==
    /\ pc[w] = "deleteRefresh"
    /\ refreshTokens' = RefreshTokensWithout(req[w].token)
    /\ Goto(w, "deleteAccess")
    /\ UNCHANGED <<now, codeInfo, codes, refreshInfo, accessTokens, req, pair,
                   handedOut, lineage>>

\* The access token a revocation names itself, or the one in the old record.
AccessToDelete_WrongKeyFault(q) == q.token
AccessToDelete(q) ==
    IF q.token \in RefreshToken THEN refreshInfo[q.token].access ELSE q.token

DeleteAccess(w) ==
    /\ pc[w] = "deleteAccess"
    /\ accessTokens' = AccessTokensWithout(AccessToDelete(req[w]))
    /\ Goto(w, IF req[w].kind = "refresh_token" THEN "generate" ELSE "ok")
    /\ UNCHANGED <<now, codeInfo, codes, refreshInfo, refreshTokens, req, pair,
                   handedOut, lineage>>

\* Revocation without the hint "refresh_token" looks among the access tokens
\* first, and only without any hint goes on to the refresh tokens.
AfterGetAccess_AnyClientFault(q) ==
    IF AccessFound(q.token) THEN "deleteAccess"
    ELSE IF q.hint = "" THEN "getRefresh" ELSE "ok"
AfterGetAccess_StopFault(q) ==
    IF AccessFound(q.token) /\ q.token.client = q.client THEN "deleteAccess" ELSE "ok"
AfterGetAccess(q) ==
    IF AccessFound(q.token) /\ q.token.client = q.client THEN "deleteAccess"
    ELSE IF q.hint = "" THEN "getRefresh"
    ELSE IF AccessFound(q.token) THEN "error" ELSE "ok"

GetAccess(w) ==
    /\ pc[w] = "getAccess"
    /\ accessTokens' = AccessTokensAfterGet(req[w].token)
    /\ Goto(w, AfterGetAccess(req[w]))
    /\ UNCHANGED <<now, codeInfo, codes, refreshInfo, refreshTokens, req, pair,
                   handedOut, lineage>>

-----------------------------------------------------------------------------
(* Issuing *)

\* The arguments of issueTokenPair, or of GenerateAccessToken.
ClientOf(q) ==
    CASE q.kind = "authorization_code" -> codeInfo[q.code].client
      [] q.kind = "refresh_token"      -> refreshInfo[q.token].client
      [] OTHER                         -> q.client
UserOf_DroppedFault(q) == NoUser
UserOf(q) ==
    CASE q.kind = "authorization_code" -> codeInfo[q.code].user
      [] q.kind = "refresh_token"      -> refreshInfo[q.token].user
      [] q.kind = "client_credentials" -> NoUser
      [] OTHER                         -> q.user
ScopeOf(q) ==
    CASE q.kind = "authorization_code" -> codeInfo[q.code].scope
      [] q.kind = "refresh_token"      -> RefreshedScope(q)
      [] OTHER                         -> q.scope

\* The credential a request trades in.
Traded(q) ==
    CASE q.kind = "authorization_code" -> q.code
      [] q.kind = "refresh_token"      -> q.token
      [] OTHER                         -> NoToken

\* GenerateAccessToken: signed now, so the token names the present second.
SignedToken(q) ==
    [client |-> ClientOf(q), user |-> UserOf(q), scope |-> ScopeOf(q),
     iat |-> now \div TicksPerSecond]

\* The fault takes IDTokenExpiry, half of it, for AccessExpiry.
AccessExpiresAt_IDTokenFault == now + Ticks(AccessExpiry \div 2)
AccessExpiresAt == now + Ticks(AccessExpiry)

GenerateAccessOnly(w) ==
    /\ pc[w] = "generate"
    /\ req[w].kind = "client_credentials"
    /\ pair' = [pair EXCEPT ![w] = [access |-> SignedToken(req[w]),
                                    expiresAt |-> AccessExpiresAt,
                                    refresh |-> NoToken]]
    /\ Goto(w, "storeAccess")
    /\ UNCHANGED <<now, storeVars, req, handedOut, lineage>>

\* The refresh token is drawn at random, so it is one never drawn before.  Its
\* record is built here and reaches the store two calls later.
GeneratePair(w) ==
    \E refresh \in RefreshToken \ DOMAIN refreshInfo :
        LET access == SignedToken(req[w]) IN
        /\ pc[w] = "generate"
        /\ req[w].kind # "client_credentials"
        /\ pair' = [pair EXCEPT ![w] = [access |-> access,
                                        expiresAt |-> AccessExpiresAt,
                                        refresh |-> refresh]]
        /\ refreshInfo' = [r \in DOMAIN refreshInfo \cup {refresh} |->
                             IF r # refresh THEN refreshInfo[r]
                             ELSE [client |-> access.client, user |-> access.user,
                                   scope |-> access.scope, access |-> access,
                                   expiresAt |-> now + Ticks(RefreshExpiry)]]
        /\ lineage' = [r \in DOMAIN lineage \cup {refresh} |->
                         IF r # refresh THEN lineage[r]
                         ELSE [from |-> Traded(req[w]), by |-> w]]
        /\ Goto(w, "storeAccess")
        /\ UNCHANGED <<now, codeInfo, codes, refreshTokens, accessTokens, req, handedOut>>

\* Signing or drawing fails: server_error, with the old credential gone.
GenerateFails(w) ==
    /\ pc[w] = "generate"
    /\ Goto(w, "error")
    /\ UNCHANGED <<now, storeVars, req, pair, handedOut, lineage>>

StoreAccess(w) ==
    /\ pc[w] = "storeAccess"
    /\ accessTokens' = [a \in DOMAIN accessTokens \cup {pair[w].access} |->
                          IF a = pair[w].access THEN pair[w].expiresAt
                          ELSE accessTokens[a]]
    /\ Goto(w, IF pair[w].refresh = NoToken THEN "ok" ELSE "storeRefresh")
    /\ UNCHANGED <<now, codeInfo, codes, refreshInfo, refreshTokens, req, pair,
                   handedOut, lineage>>

StoreRefresh(w) ==
    /\ pc[w] = "storeRefresh"
    /\ refreshTokens' = refreshTokens \cup {pair[w].refresh}
    /\ Goto(w, "ok")
    /\ UNCHANGED <<now, codeInfo, codes, refreshInfo, accessTokens, req, pair,
                   handedOut, lineage>>

\* The response leaves; the client has the new tokens, if there are any.
Respond(w) ==
    /\ pc[w] \in {"ok", "error"}
    /\ handedOut' = handedOut \cup ({pair[w].access, pair[w].refresh} \ {NoToken})
    /\ req' = [req EXCEPT ![w] = NoRequest]
    /\ pair' = [pair EXCEPT ![w] = NoPair]
    /\ Goto(w, "idle")
    /\ UNCHANGED <<now, storeVars, lineage>>

-----------------------------------------------------------------------------
(* The cleanup goroutines, one entry at a time, and the clock *)

CollectCode ==
    \E code \in codes :
        /\ Expired(codeInfo[code].expiresAt)
        /\ codes' = codes \ {code}
        /\ UNCHANGED <<now, codeInfo, refreshInfo, refreshTokens, accessTokens,
                       workerVars, handedOut, lineage>>

CollectAccess ==
    \E t \in DOMAIN accessTokens :
        /\ Expired(accessTokens[t])
        /\ accessTokens' = AccessTokensWithout(t)
        /\ UNCHANGED <<now, codeInfo, codes, refreshInfo, refreshTokens, workerVars,
                       handedOut, lineage>>

CollectRefresh ==
    \E t \in refreshTokens :
        /\ Expired(refreshInfo[t].expiresAt)
        /\ refreshTokens' = refreshTokens \ {t}
        /\ UNCHANGED <<now, codeInfo, codes, refreshInfo, accessTokens, workerVars,
                       handedOut, lineage>>

Tick ==
    /\ now < MaxTime
    /\ now' = now + 1
    /\ UNCHANGED <<storeVars, workerVars, handedOut, lineage>>

Arrive(w) ==
    \/ ReceiveExchange(w)
    \/ ReceivePassword(w)
    \/ ReceiveClientCredentials(w)
    \/ ReceiveRefresh(w)
    \/ ReceiveRevoke(w)

Serve(w) ==
    \/ GetCode(w)
    \/ DeleteCode(w)
    \/ GetRefresh(w)
    \/ DeleteRefresh(w)
    \/ GetAccess(w)
    \/ DeleteAccess(w)
    \/ GenerateAccessOnly(w)
    \/ GeneratePair(w)
    \/ GenerateFails(w)
    \/ StoreAccess(w)
    \/ StoreRefresh(w)
    \/ Respond(w)

Collect == CollectCode \/ CollectAccess \/ CollectRefresh

Next ==
    \/ Authorize
    \/ \E w \in Worker : Arrive(w) \/ Serve(w)
    \/ Collect
    \/ Tick

Spec == Init /\ [][Next]_vars

=============================================================================
