---------------------------- MODULE GrantsProofs ----------------------------
(***************************************************************************)
(* What TLC checks of Grants on small instances, proved for every value of *)
(* the constants.                                                          *)
(***************************************************************************)
EXTENDS GrantsProperties, TLAPS

-----------------------------------------------------------------------------
(* Shape: what a worker holds at each label.  TypeOK alone is not inductive *)
(* because the fields of a request depend on its kind and because codeInfo  *)
(* and refreshInfo are partial.                                             *)

Tokenless == {"authorization_code", "password", "client_credentials", "none"}

RequestShape(w) ==
    LET q == req[w] IN
    /\ pc[w] \in {"getCode", "deleteCode"} => q.kind = "authorization_code"
    /\ pc[w] \in {"getRefresh", "deleteRefresh", "deleteAccess"} => q.kind \notin Tokenless
    /\ pc[w] = "getAccess" => q.kind = "revoke"
    /\ pc[w] = "deleteRefresh" => q.token \in RefreshToken
    /\ pc[w] \in {"generate", "storeAccess", "storeRefresh"} => q.kind \in GrantType
    /\ q.kind = "authorization_code" => q.code \in DOMAIN codeInfo
    /\ q.kind \notin Tokenless /\ q.token \in RefreshToken => q.token \in DOMAIN refreshInfo

PairShape(w) ==
    LET p == pair[w] IN
    /\ pc[w] \in {"storeAccess", "storeRefresh"} =>
         /\ p.access \in AccessToken
         /\ p.refresh = NoToken => p.access.user = NoUser
         /\ p.refresh # NoToken => /\ p.refresh \in DOMAIN refreshInfo
                                   /\ refreshInfo[p.refresh].access = p.access
    /\ pc[w] = "storeRefresh" => p.refresh # NoToken
    /\ p.refresh # NoToken => p.refresh \in DOMAIN refreshInfo

Shape ==
    /\ \A w \in Worker : RequestShape(w) /\ PairShape(w)
    /\ handedOut \cap RefreshToken \subseteq DOMAIN refreshInfo

TypeInv == TypeOK /\ Shape

-----------------------------------------------------------------------------
(* Scope strings *)

\* The scope ValidateClientScope returns is a scope string.
LEMMA ResolvedScopeType ==
    ASSUME NEW registered \in SUBSET ScopeName, NEW requested \in ScopeString
    PROVE  ResolvedScope(registered, requested) \in ScopeString
BY DEF ResolvedScope, ScopeString

\* What a kind says about the rest of a request.
LEMMA RequestFields ==
    ASSUME NEW q \in Request \cup {NoRequest}
    PROVE  /\ q.kind \in GrantType \cup {"revoke", "none"}
           /\ q.kind = "authorization_code" => q \in ExchangeRequest
           /\ q.kind = "password" => q \in PasswordRequest
           /\ q.kind = "client_credentials" => q \in ClientCredentialsRequest
           /\ q.kind = "refresh_token" => q \in RefreshRequest
           /\ q.kind = "revoke" => q \in RevokeRequest
           /\ q.kind = "none" => q = NoRequest
BY DEF Request, NoRequest, ExchangeRequest, PasswordRequest, ClientCredentialsRequest,
       RefreshRequest, RevokeRequest, GrantType

\* Refresh tokens, access tokens and NoToken are different things.
LEMMA TokensDisjoint ==
    /\ \A t \in AccessToken : t \notin RefreshToken /\ t # NoToken
    /\ NoToken \notin RefreshToken /\ NoToken \notin Code
BY GrantsAssumption DEF Credential

\* The stores start empty and well typed (NewServer).
THEOREM InitTypeInv == Init => TypeInv
BY DEF Init, TypeInv, TypeOK, Shape, RequestShape, PairShape, NoRequest, NoPair,
       TokenPair, PC, Tokenless, GrantType

\* Server.Authorize stores a well-formed code record.
LEMMA AuthorizeTypeInv ==
    ASSUME TypeInv, Authorize
    PROVE  TypeInv'
<1> USE GrantsAssumption DEF TypeInv
<1>1. PICK code \in Code \ DOMAIN codeInfo, client \in Client, user \in User,
           uri \in RedirectURI, scope \in RequestScopes, verifier \in Verifier :
        Authorize!(code, client, user, uri, scope, verifier)
  BY DEF Authorize
<1>2. ResolvedScope(RegisteredScopes[client], scope) \in ScopeString
  BY ResolvedScopeType
<1>3. now + Ticks(CodeExpiry) \in Nat
  BY DEF TypeOK, Ticks
<1>4. codeInfo' \in [DOMAIN codeInfo \cup {code} -> AuthorizationCode]
  BY <1>1, <1>2, <1>3 DEF TypeOK, AuthorizationCode
<1>5. TypeOK'
  BY <1>1, <1>4 DEF TypeOK, workerVars
<1>6. Shape'
  BY <1>1, <1>4 DEF Shape, RequestShape, PairShape, workerVars
<1> QED
  BY <1>5, <1>6

\* What a request that arrives looks like, whichever it is.
ArrivesAs(w, request, label) ==
    /\ pc[w] = "idle"
    /\ req' = [req EXCEPT ![w] = request]
    /\ pc' = [pc EXCEPT ![w] = label]
    /\ UNCHANGED <<now, storeVars, pair, handedOut, lineage>>
    /\ request.kind = "authorization_code" =>
         label = "getCode" /\ request.code \in DOMAIN codeInfo
    /\ request.kind \in {"password", "client_credentials"} => label = "generate"
    /\ request.kind = "refresh_token" =>
         label = "getRefresh" /\ request.token \in handedOut
    /\ request.kind = "revoke" =>
         /\ request.token \in handedOut
         /\ \/ label = "getRefresh"
            \/ label = "getAccess" /\ request.hint # "refresh_token"

\* Every arriving request is well formed, and what it names has a record.
LEMMA ArriveRequest ==
    ASSUME TypeInv, NEW w \in Worker, Arrive(w)
    PROVE  \E request \in Request, label \in {"getCode", "generate", "getRefresh", "getAccess"} :
             ArrivesAs(w, request, label)
<1> USE DEF TypeInv
<1>1. CASE ReceiveExchange(w)
  <2>1. PICK client \in Client, code \in DOMAIN codeInfo, uri \in RedirectURI,
             verifier \in Verifier :
          Receive(w, "authorization_code", [kind |-> "authorization_code", client |-> client, code |-> code,
           redirectURI |-> uri, verifier |-> verifier], "getCode")
    BY <1>1 DEF ReceiveExchange
  <2> DEFINE request == [kind |-> "authorization_code", client |-> client, code |-> code,
           redirectURI |-> uri, verifier |-> verifier]
             label == "getCode"
  <2>3. request \in Request
    BY GrantsAssumption DEF Request, ExchangeRequest, TypeOK
  <2>4. ArrivesAs(w, request, label)
    BY <2>1 DEF ArrivesAs, Receive, Goto, Hint
  <2> QED
    BY <2>3, <2>4
<1>2. CASE ReceivePassword(w)
  <2>1. PICK client \in Client, user \in User, scope \in RequestScopes :
          Receive(w, "password", [kind |-> "password", client |-> client, user |-> user,
           scope |-> ResolvedScope(RegisteredScopes[client], scope)], "generate")
    BY <1>2 DEF ReceivePassword
  <2> DEFINE request == [kind |-> "password", client |-> client, user |-> user,
           scope |-> ResolvedScope(RegisteredScopes[client], scope)]
             label == "generate"
  <2>2. ResolvedScope(RegisteredScopes[client], scope) \in ScopeString
    BY ResolvedScopeType, GrantsAssumption
  <2>3. request \in Request
    BY <2>2, GrantsAssumption DEF Request, PasswordRequest, TypeOK
  <2>4. ArrivesAs(w, request, label)
    BY <2>1 DEF ArrivesAs, Receive, Goto, Hint
  <2> QED
    BY <2>3, <2>4
<1>3. CASE ReceiveClientCredentials(w)
  <2>1. PICK client \in Client, scope \in RequestScopes :
          Receive(w, "client_credentials", [kind |-> "client_credentials", client |-> client,
           scope |-> ResolvedScope(RegisteredScopes[client], scope)], "generate")
    BY <1>3 DEF ReceiveClientCredentials
  <2> DEFINE request == [kind |-> "client_credentials", client |-> client,
           scope |-> ResolvedScope(RegisteredScopes[client], scope)]
             label == "generate"
  <2>2. ResolvedScope(RegisteredScopes[client], scope) \in ScopeString
    BY ResolvedScopeType, GrantsAssumption
  <2>3. request \in Request
    BY <2>2, GrantsAssumption DEF Request, ClientCredentialsRequest, TypeOK
  <2>4. ArrivesAs(w, request, label)
    BY <2>1 DEF ArrivesAs, Receive, Goto, Hint
  <2> QED
    BY <2>3, <2>4
<1>4. CASE ReceiveRefresh(w)
  <2>1. PICK client \in Client, token \in handedOut \cap RefreshToken,
             scope \in RequestScopes :
          Receive(w, "refresh_token", [kind |-> "refresh_token", client |-> client, token |-> token,
           scope |-> scope], "getRefresh")
    BY <1>4 DEF ReceiveRefresh
  <2> DEFINE request == [kind |-> "refresh_token", client |-> client, token |-> token,
           scope |-> scope]
             label == "getRefresh"
  <2>3. request \in Request
    BY GrantsAssumption DEF Request, RefreshRequest, TypeOK
  <2>4. ArrivesAs(w, request, label)
    BY <2>1 DEF ArrivesAs, Receive, Goto, Hint
  <2> QED
    BY <2>3, <2>4
<1>5. CASE ReceiveRevoke(w)
  <2>1. PICK client \in Client, token \in handedOut, hint \in Hint :
          Receive(w, "revoke", [kind |-> "revoke", client |-> client, token |-> token, hint |-> hint], IF hint = "refresh_token" THEN "getRefresh" ELSE "getAccess")
    BY <1>5 DEF ReceiveRevoke
  <2> DEFINE request == [kind |-> "revoke", client |-> client, token |-> token, hint |-> hint]
             label == IF hint = "refresh_token" THEN "getRefresh" ELSE "getAccess"
  <2>3. request \in Request
    BY GrantsAssumption DEF Request, RevokeRequest, TypeOK
  <2>4. ArrivesAs(w, request, label)
    BY <2>1 DEF ArrivesAs, Receive, Goto, Hint
  <2> QED
    BY <2>3, <2>4
<1> QED
  BY <1>1, <1>2, <1>3, <1>4, <1>5 DEF Arrive

\* Receiving a request keeps the types and the shape.
LEMMA ArriveTypeInv ==
    ASSUME TypeInv, NEW w \in Worker, Arrive(w)
    PROVE  TypeInv'
<1> USE DEF TypeInv
<1>1. PICK request \in Request, label \in {"getCode", "generate", "getRefresh", "getAccess"} :
        ArrivesAs(w, request, label)
  BY ArriveRequest
<1>2. TypeOK'
  BY <1>1 DEF TypeOK, ArrivesAs, storeVars, PC
<1>3. request.kind \in GrantType \cup {"revoke"}
  BY RequestFields DEF Request, ExchangeRequest, PasswordRequest,
     ClientCredentialsRequest, RefreshRequest, RevokeRequest, GrantType
<1>4. Shape'
  BY <1>1, <1>3 DEF TypeOK, Shape, RequestShape, PairShape, ArrivesAs, storeVars, Tokenless,
                    GrantType
<1> QED
  BY <1>2, <1>4

\* The calls that only look up or delete: they change one map and the label.
LEMMA LookupTypeInv ==
    ASSUME TypeInv, NEW w \in Worker,
           \/ GetCode(w) \/ DeleteCode(w) \/ GetRefresh(w) \/ DeleteRefresh(w)
           \/ GetAccess(w) \/ DeleteAccess(w)
    PROVE  TypeInv'
<1> USE DEF TypeInv
<1>1. CASE GetCode(w)
  <2>1. TypeOK'
    BY <1>1 DEF TypeOK, GetCode, Goto, CodesAfterGet, PC
  <2>2. Shape'
    BY <1>1 DEF TypeOK, Shape, RequestShape, PairShape, GetCode, Goto
  <2> QED
    BY <2>1, <2>2
<1>2. CASE DeleteCode(w)
  <2>1. TypeOK'
    BY <1>2 DEF TypeOK, DeleteCode, Goto, CodesWithout, PC
  <2>2. Shape'
    BY <1>2 DEF TypeOK, Shape, RequestShape, PairShape, DeleteCode, Goto, GrantType
  <2> QED
    BY <2>1, <2>2
<1>3. CASE GetRefresh(w)
  <2>1. AfterGetRefresh(req[w]) \in {"deleteRefresh", "ok", "error"}
    BY DEF AfterGetRefresh
  <2>2. AfterGetRefresh(req[w]) = "deleteRefresh" => req[w].token \in RefreshToken
    BY DEF AfterGetRefresh, RefreshFound, TypeOK
  <2>3. TypeOK'
    BY <1>3, <2>1 DEF TypeOK, GetRefresh, Goto, RefreshTokensAfterGet, PC
  <2>4. Shape'
    BY <1>3, <2>1, <2>2 DEF TypeOK, Shape, RequestShape, PairShape, GetRefresh, Goto
  <2> QED
    BY <2>3, <2>4
<1>4. CASE DeleteRefresh(w)
  <2>1. TypeOK'
    BY <1>4 DEF TypeOK, DeleteRefresh, Goto, RefreshTokensWithout, PC
  <2>2. Shape'
    BY <1>4 DEF TypeOK, Shape, RequestShape, PairShape, DeleteRefresh, Goto
  <2> QED
    BY <2>1, <2>2
<1>5. CASE GetAccess(w)
  <2>1. AfterGetAccess(req[w]) \in {"deleteAccess", "getRefresh", "ok", "error"}
    BY DEF AfterGetAccess
  <2>2. TypeOK'
    BY <1>5, <2>1 DEF TypeOK, GetAccess, Goto, AccessTokensAfterGet, AccessTokensWithout,
                      Restrict, PC
  <2>3. Shape'
    BY <1>5, <2>1 DEF TypeOK, Shape, RequestShape, PairShape, GetAccess, Goto, Tokenless
  <2> QED
    BY <2>2, <2>3
<1>6. CASE DeleteAccess(w)
  <2>1. TypeOK'
    BY <1>6 DEF TypeOK, DeleteAccess, Goto, AccessTokensWithout, Restrict, PC
  <2>2. req[w].kind \in {"refresh_token", "revoke"}
    BY <1>6, RequestFields DEF TypeOK, Shape, RequestShape, DeleteAccess, Tokenless, GrantType
  <2>3. Shape'
    BY <1>6, <2>2 DEF TypeOK, Shape, RequestShape, PairShape, DeleteAccess, Goto, GrantType
  <2> QED
    BY <2>1, <2>3
<1> QED
  BY <1>1, <1>2, <1>3, <1>4, <1>5, <1>6

\* The token a request is about to be granted.
LEMMA SignedTokenType ==
    ASSUME TypeInv, NEW w \in Worker, pc[w] = "generate"
    PROVE  /\ SignedToken(req[w]) \in AccessToken
           /\ req[w].kind # "client_credentials" => SignedToken(req[w]).user \in User
           /\ req[w].kind = "client_credentials" => SignedToken(req[w]).user = NoUser
           /\ Traded(req[w]) \in Credential \cup {NoToken}
<1> USE DEF TypeInv
<1> DEFINE q == req[w]
<1>1. q \in Request \cup {NoRequest} /\ q.kind \in GrantType
  BY DEF TypeOK, Shape, RequestShape
<1>2. now \div TicksPerSecond \in Nat
  BY GrantsAssumption DEF TypeOK
<1>3. CASE q.kind = "authorization_code"
  <2>1. q \in ExchangeRequest /\ codeInfo[q.code] \in AuthorizationCode
    BY <1>1, <1>3, RequestFields DEF TypeOK, Shape, RequestShape
  <2> QED
    BY <1>2, <1>3, <2>1 DEF SignedToken, ClientOf, UserOf, ScopeOf, Traded, AccessToken,
       AuthorizationCode, Credential, ExchangeRequest
<1>4. CASE q.kind = "password"
  <2>1. q \in PasswordRequest
    BY <1>1, <1>4, RequestFields
  <2> QED
    BY <1>2, <1>4, <2>1 DEF SignedToken, ClientOf, UserOf, ScopeOf, Traded, AccessToken,
       PasswordRequest
<1>5. CASE q.kind = "client_credentials"
  <2>1. q \in ClientCredentialsRequest
    BY <1>1, <1>5, RequestFields
  <2> QED
    BY <1>2, <1>5, <2>1 DEF SignedToken, ClientOf, UserOf, ScopeOf, Traded, AccessToken,
       ClientCredentialsRequest
<1>6. CASE q.kind = "refresh_token"
  <2>1. q \in RefreshRequest
    BY <1>1, <1>6, RequestFields
  <2>2. refreshInfo[q.token] \in TokenInfo
    BY <1>6, <2>1 DEF TypeOK, Shape, RequestShape, RefreshRequest, Tokenless
  <2>3. RefreshedScope(q) \in ScopeString
    BY <2>1, <2>2, ResolvedScopeType, GrantsAssumption
       DEF RefreshedScope, RefreshRequest, TokenInfo
  <2> QED
    BY <1>2, <1>6, <2>1, <2>2, <2>3 DEF SignedToken, ClientOf, UserOf, ScopeOf, Traded,
       AccessToken, TokenInfo, Credential, RefreshRequest
<1> QED
  BY <1>1, <1>3, <1>4, <1>5, <1>6 DEF GrantType

\* So do the calls of issueTokenPair and the response.
LEMMA IssueTypeInv ==
    ASSUME TypeInv, NEW w \in Worker,
           \/ GenerateAccessOnly(w) \/ GeneratePair(w) \/ GenerateFails(w)
           \/ StoreAccess(w) \/ StoreRefresh(w) \/ Respond(w)
    PROVE  TypeInv'
<1> USE DEF TypeInv
<1>1. CASE GenerateAccessOnly(w)
  <2> DEFINE access == SignedToken(req[w])
  <2>1. access \in AccessToken /\ access.user = NoUser
    BY <1>1, SignedTokenType DEF GenerateAccessOnly
  <2>2. AccessExpiresAt \in Nat
    BY GrantsAssumption DEF TypeOK, AccessExpiresAt, Ticks
  <2>3. TypeOK'
    BY <1>1, <2>1, <2>2 DEF TypeOK, GenerateAccessOnly, Goto, storeVars, TokenPair, PC
  <2>4. Shape'
    BY <1>1, <2>1 DEF TypeOK, Shape, RequestShape, PairShape, GenerateAccessOnly, Goto,
                      storeVars
  <2> QED
    BY <2>3, <2>4
<1>2. CASE GeneratePair(w)
  <2> DEFINE access == SignedToken(req[w])
  <2>1. PICK refresh \in RefreshToken \ DOMAIN refreshInfo : GeneratePair(w)!(refresh)
    BY <1>2 DEF GeneratePair
  <2>2. access \in AccessToken /\ access.user \in User
        /\ Traded(req[w]) \in Credential \cup {NoToken}
    BY <2>1, SignedTokenType
  <2>3. AccessExpiresAt \in Nat /\ now + Ticks(RefreshExpiry) \in Nat
    BY GrantsAssumption DEF TypeOK, AccessExpiresAt, Ticks
  <2>4. /\ refreshInfo' \in [DOMAIN refreshInfo \cup {refresh} -> TokenInfo]
        /\ DOMAIN refreshInfo' = DOMAIN refreshInfo \cup {refresh}
        /\ refreshInfo'[refresh].access = access
        /\ \A r \in DOMAIN refreshInfo : refreshInfo'[r] = refreshInfo[r]
    BY <2>1, <2>2, <2>3 DEF TypeOK, TokenInfo, AccessToken
  <2>5. lineage' \in [DOMAIN refreshInfo' -> Lineage]
    BY <2>1, <2>2, <2>4 DEF TypeOK, Lineage
  <2>6. pair'[w] = [access |-> access, expiresAt |-> AccessExpiresAt, refresh |-> refresh]
        /\ pair' \in [Worker -> TokenPair]
        /\ \A v \in Worker \ {w} : pair'[v] = pair[v]
    BY <2>1, <2>2, <2>3 DEF TypeOK, TokenPair
  <2>7. TypeOK'
    BY <2>1, <2>4, <2>5, <2>6 DEF TypeOK, Goto, PC
  <2>8. refresh # NoToken
    BY TokensDisjoint
  <2>9. Shape'
    BY <2>1, <2>2, <2>4, <2>6, <2>8 DEF TypeOK, Shape, RequestShape, PairShape, Goto
  <2> QED
    BY <2>7, <2>9
<1>3. CASE GenerateFails(w)
  <2>1. TypeOK'
    BY <1>3 DEF TypeOK, GenerateFails, Goto, storeVars, PC
  <2>2. Shape'
    BY <1>3 DEF TypeOK, Shape, RequestShape, PairShape, GenerateFails, Goto, storeVars
  <2> QED
    BY <2>1, <2>2
<1>4. CASE StoreAccess(w)
  <2>1. pair[w].access \in AccessToken /\ pair[w].expiresAt \in Nat
    BY <1>4 DEF TypeOK, Shape, PairShape, StoreAccess, TokenPair
  <2>2. TypeOK'
    BY <1>4, <2>1 DEF TypeOK, StoreAccess, Goto, PC
  <2>3. Shape'
    BY <1>4 DEF TypeOK, Shape, RequestShape, PairShape, StoreAccess, Goto
  <2> QED
    BY <2>2, <2>3
<1>5. CASE StoreRefresh(w)
  <2>1. pair[w].refresh \in DOMAIN refreshInfo
    BY <1>5 DEF Shape, PairShape, StoreRefresh
  <2>2. TypeOK'
    BY <1>5, <2>1 DEF TypeOK, StoreRefresh, Goto, PC
  <2>3. Shape'
    BY <1>5 DEF TypeOK, Shape, RequestShape, PairShape, StoreRefresh, Goto
  <2> QED
    BY <2>2, <2>3
<1>6. CASE Respond(w)
  <2>1. {pair[w].access, pair[w].refresh} \ {NoToken} \subseteq RefreshToken \cup AccessToken
    BY DEF TypeOK, TokenPair
  <2>2. NoPair \in TokenPair
    BY DEF NoPair, TokenPair
  <2>3. TypeOK'
    BY <1>6, <2>1, <2>2 DEF TypeOK, Respond, Goto, storeVars, PC
  <2>4. pair[w].access \notin RefreshToken
    BY TokensDisjoint DEF TypeOK, TokenPair
  <2>5. handedOut' \cap RefreshToken \subseteq DOMAIN refreshInfo'
    BY <1>6, <2>4 DEF Respond, Shape, PairShape, storeVars
  <2>6. Shape'
    BY <1>6, <2>5 DEF TypeOK, Shape, RequestShape, PairShape, Respond, Goto, storeVars,
                      NoRequest, NoPair, Tokenless
  <2> QED
    BY <2>3, <2>6
<1> QED
  BY <1>1, <1>2, <1>3, <1>4, <1>5, <1>6

\* So do the sweeps and the clock.
LEMMA BackgroundTypeInv ==
    ASSUME TypeInv, Collect \/ Tick
    PROVE  TypeInv'
<1> USE DEF TypeInv, Collect
<1>1. TypeOK'
  <2>1. CASE CollectCode
    BY <2>1 DEF TypeOK, CollectCode, workerVars
  <2>2. CASE CollectAccess
    BY <2>2 DEF TypeOK, CollectAccess, AccessTokensWithout, Restrict, workerVars
  <2>3. CASE CollectRefresh
    BY <2>3 DEF TypeOK, CollectRefresh, workerVars
  <2>4. CASE Tick
    BY <2>4 DEF TypeOK, Tick, workerVars, storeVars
  <2> QED
    BY <2>1, <2>2, <2>3, <2>4
<1>2. Shape'
  BY DEF Shape, RequestShape, PairShape, CollectCode, CollectAccess, CollectRefresh, Tick,
         workerVars, storeVars
<1> QED
  BY <1>1, <1>2

\* Every step of the server keeps the types and the shape: TypeInv is inductive.
THEOREM NextTypeInv == TypeInv /\ [Next]_vars => TypeInv'
<1> SUFFICES ASSUME TypeInv, [Next]_vars PROVE TypeInv'
  OBVIOUS
<1>1. CASE Authorize
  BY <1>1, AuthorizeTypeInv
<1>2. CASE \E w \in Worker : Arrive(w) \/ Serve(w)
  BY <1>2, ArriveTypeInv, LookupTypeInv, IssueTypeInv DEF Serve
<1>3. CASE Collect \/ Tick
  BY <1>3, BackgroundTypeInv
<1>4. CASE UNCHANGED vars
  BY <1>4 DEF TypeInv, TypeOK, Shape, RequestShape, PairShape, vars, storeVars, workerVars
<1> QED
  BY <1>1, <1>2, <1>3, <1>4 DEF Next

\* Whatever the numbers of clients, tokens and concurrent requests, the stores
\* and the requests in flight keep the types the Go declarations give them.
THEOREM TypeCorrect == Spec => []TypeOK
<1>1. TypeInv => TypeOK
  BY DEF TypeInv
<1> QED
  BY <1>1, InitTypeInv, NextTypeInv, PTL DEF Spec

-----------------------------------------------------------------------------
(* Spending: why a credential is redeemed at most once per request slot, and *)
(* why nothing that was deleted comes back.                                  *)

\* What a pair was minted from existed, and is gone.
SourcesGone ==
    \A r \in DOMAIN lineage :
        lineage[r].from # NoToken =>
            /\ lineage[r].from \in DOMAIN codeInfo \cup DOMAIN refreshInfo
            /\ lineage[r].from \notin codes \cup refreshTokens

\* A request between its lookup and its new pair has not minted yet from the
\* credential it read ...
NotYetMinted(w) ==
    pc[w] \in {"deleteCode", "deleteRefresh", "deleteAccess", "generate"}
    /\ Traded(req[w]) # NoToken =>
        \A r \in DOMAIN lineage : lineage[r] # [from |-> Traded(req[w]), by |-> w]

\* ... and from the deletion on, that credential is not in the store.
Spending(w) ==
    LET q == req[w] IN
    /\ q.kind = "authorization_code" /\ pc[w] \notin {"getCode", "deleteCode"} =>
         q.code \notin codes
    /\ q.kind = "refresh_token" /\ pc[w] \in {"deleteAccess", "generate"} =>
         q.token \notin refreshTokens
    /\ q.kind = "revoke" /\ q.token \in RefreshToken =>
         /\ pc[w] = "deleteAccess" => q.token \notin refreshTokens
         /\ /\ pc[w] = "ok" /\ q.hint # "access_token"
            /\ refreshInfo[q.token].client = q.client
            => q.token \notin refreshTokens
         /\ pc[w] = "getAccess" => q.hint # "refresh_token"

\* A refresh token on its way to the store is known to its request alone.
Unseen(r) ==
    /\ r \notin refreshTokens \cup handedOut
    /\ \A w \in Worker : req[w].kind \notin Tokenless => req[w].token # r
    /\ \A s \in DOMAIN lineage : lineage[s].from # r

PairsDistinct ==
    \A v, w \in Worker :
        pair[v].refresh = pair[w].refresh /\ pair[v].refresh # NoToken => v = w

SpentInv ==
    /\ SourcesGone
    /\ OncePerWorker
    /\ \A w \in Worker : NotYetMinted(w) /\ Spending(w)
    /\ \A v \in Worker :
         pc[v] \in {"storeAccess", "storeRefresh"} /\ pair[v].refresh # NoToken =>
             Unseen(pair[v].refresh)
    /\ PairsDistinct

\* Nothing is spent at the start.
THEOREM InitSpentInv == Init => SpentInv
BY DEF Init, SpentInv, SourcesGone, OncePerWorker, NotYetMinted, Spending, PairsDistinct,
       NoRequest, NoPair

\* A new code is one no request or token was ever traded for.
LEMMA AuthorizeSpentInv ==
    ASSUME TypeInv, SpentInv, Authorize
    PROVE  SpentInv'
<1> USE GrantsAssumption DEF TypeInv
<1>1. PICK code \in Code \ DOMAIN codeInfo : /\ codes' = codes \cup {code}
                                             /\ DOMAIN codeInfo' = DOMAIN codeInfo \cup {code}
  BY DEF Authorize
<1>2. UNCHANGED <<refreshInfo, refreshTokens, pc, req, pair, handedOut, lineage>>
  BY DEF Authorize, workerVars
<1>3. SourcesGone'
  BY <1>1, <1>2 DEF SpentInv, SourcesGone, TypeOK
<1>4. \A w \in Worker : NotYetMinted(w)' /\ Spending(w)'
  BY <1>1, <1>2 DEF SpentInv, NotYetMinted, Spending, Traded, Shape, RequestShape
<1> QED
  BY <1>2, <1>3, <1>4 DEF SpentInv, OncePerWorker, Unseen, PairsDistinct

\* A slot that takes a request has nothing of it to its name yet.
LEMMA ArriveSpentInv ==
    ASSUME TypeInv, SpentInv, NEW w \in Worker, Arrive(w)
    PROVE  SpentInv'
<1> USE DEF TypeInv
<1>1. PICK request \in Request, label \in {"getCode", "generate", "getRefresh", "getAccess"} :
        ArrivesAs(w, request, label)
  BY ArriveRequest
<1>5. request.kind \in GrantType \cup {"revoke"}
  BY DEF Request, ExchangeRequest, PasswordRequest, ClientCredentialsRequest,
         RefreshRequest, RevokeRequest, GrantType
<1> USE DEF ArrivesAs
<1>2. \A v \in Worker : NotYetMinted(v)' /\ Spending(v)'
  BY <1>1, <1>5 DEF SpentInv, NotYetMinted, Spending, Traded, TypeOK, storeVars, GrantType
<1>3. \A v \in Worker :
         pc'[v] \in {"storeAccess", "storeRefresh"} /\ pair'[v].refresh # NoToken =>
             Unseen(pair[v].refresh)'
  BY <1>1, <1>5 DEF SpentInv, Unseen, TypeOK, storeVars, Tokenless, GrantType
<1> QED
  BY <1>1, <1>2, <1>3 DEF SpentInv, SourcesGone, OncePerWorker, PairsDistinct, storeVars

\* Lookups and deletions mint nothing and put nothing into the stores.
LEMMA LookupSpentInv ==
    ASSUME TypeInv, SpentInv, NEW w \in Worker,
           \/ GetCode(w) \/ DeleteCode(w) \/ GetRefresh(w) \/ DeleteRefresh(w)
           \/ GetAccess(w) \/ DeleteAccess(w)
    PROVE  SpentInv'
<1> USE DEF TypeInv
<1>1. /\ codes' \subseteq codes /\ refreshTokens' \subseteq refreshTokens
      /\ UNCHANGED <<codeInfo, refreshInfo, req, pair, handedOut, lineage>>
  BY DEF GetCode, DeleteCode, GetRefresh, DeleteRefresh, GetAccess, DeleteAccess,
         CodesAfterGet, CodesWithout, RefreshTokensAfterGet, RefreshTokensWithout
<1>2. \A v \in Worker \ {w} : pc'[v] = pc[v]
  BY DEF GetCode, DeleteCode, GetRefresh, DeleteRefresh, GetAccess, DeleteAccess, Goto,
         TypeOK
<1>3. pc'[w] \notin {"storeAccess", "storeRefresh"}
  BY DEF GetCode, DeleteCode, GetRefresh, DeleteRefresh, GetAccess, DeleteAccess, Goto,
         TypeOK, AfterGetRefresh, AfterGetAccess
<1>4. \A v \in Worker \ {w} : NotYetMinted(v)' /\ Spending(v)'
  BY <1>1, <1>2 DEF SpentInv, NotYetMinted, Spending, Traded
<1>5. NotYetMinted(w)' /\ Spending(w)'
  <2>1. CASE GetCode(w)
    <3>1. CodeFound(req[w].code) => \A r \in DOMAIN lineage : lineage[r].from # req[w].code
      BY GrantsAssumption, <2>1 DEF SpentInv, SourcesGone, CodeFound, Shape, RequestShape,
         TypeOK, Credential, GetCode
    <3> QED
      BY <2>1, <3>1 DEF GetCode, Goto, TypeOK, SpentInv, NotYetMinted, Spending, Traded,
         CodesAfterGet, Shape, RequestShape
  <2>2. CASE DeleteCode(w)
    BY <1>1, <2>2 DEF DeleteCode, Goto, TypeOK, SpentInv, NotYetMinted, Spending, Traded,
       CodesWithout, Shape, RequestShape
  <2>3. CASE GetRefresh(w)
    <3>1. RefreshFound(req[w].token) =>
             \A r \in DOMAIN lineage : lineage[r].from # req[w].token
      BY GrantsAssumption DEF SpentInv, SourcesGone, RefreshFound, TypeOK, Credential
    <3>2. req[w].kind \in {"refresh_token", "revoke"}
      BY <2>3, RequestFields DEF GetRefresh, TypeOK, Shape, RequestShape, Tokenless, GrantType
    <3>3. pc'[w] = AfterGetRefresh(req[w])
      BY <2>3 DEF GetRefresh, Goto, TypeOK
    <3>4. NotYetMinted(w)'
      <4>1. pc'[w] \in {"deleteRefresh", "ok", "error"}
            /\ (pc'[w] = "deleteRefresh" => RefreshFound(req[w].token))
        BY <3>3 DEF AfterGetRefresh
      <4>2. Traded(req[w])' # NoToken => Traded(req[w])' = req[w].token
        BY <1>1, <3>2 DEF Traded
      <4> QED
        BY <1>1, <3>1, <4>1, <4>2 DEF NotYetMinted
    <3>5. ~RefreshFound(req[w].token) => req[w].token \notin refreshTokens'
      BY <2>3 DEF GetRefresh, RefreshTokensAfterGet
    <3>6. Spending(w)'
      BY <1>1, <3>2, <3>3, <3>5 DEF Spending, AfterGetRefresh
    <3> QED
      BY <3>4, <3>6
  <2>4. CASE DeleteRefresh(w)
    BY <1>1, <2>4 DEF DeleteRefresh, Goto, TypeOK, SpentInv, NotYetMinted, Spending, Traded,
       RefreshTokensWithout, Shape, RequestShape, Tokenless
  <2>5. CASE GetAccess(w)
    <3>1. AccessFound(req[w].token) => req[w].token \notin RefreshToken
      BY TokensDisjoint DEF AccessFound, TypeOK
    <3>2. req[w].kind = "revoke"
      BY <2>5 DEF GetAccess, Shape, RequestShape
    <3>3. req[w].hint \in Hint
      BY <3>2, RequestFields DEF TypeOK, RevokeRequest
    <3> QED
      BY <1>1, <2>5, <3>1, <3>2, <3>3 DEF GetAccess, Goto, TypeOK, SpentInv, NotYetMinted,
         Spending, Traded, AfterGetAccess, Hint
  <2>6. CASE DeleteAccess(w)
    <3>1. req[w].kind \in {"refresh_token", "revoke"}
      BY <2>6, RequestFields DEF DeleteAccess, TypeOK, Shape, RequestShape, Tokenless, GrantType
    <3> QED
      BY <1>1, <2>6, <3>1 DEF DeleteAccess, Goto, TypeOK, SpentInv, NotYetMinted, Spending,
         Traded
  <2> QED
    BY <2>1, <2>2, <2>3, <2>4, <2>5, <2>6
<1>6. SourcesGone' /\ OncePerWorker' /\ PairsDistinct'
  BY <1>1 DEF SpentInv, SourcesGone, OncePerWorker, PairsDistinct
<1>7. ASSUME NEW v \in Worker, pc'[v] \in {"storeAccess", "storeRefresh"},
             pair'[v].refresh # NoToken
      PROVE  Unseen(pair[v].refresh)'
  BY <1>1, <1>2, <1>3, <1>7 DEF SpentInv, Unseen
<1> QED
  BY <1>4, <1>5, <1>6, <1>7, <1>1 DEF SpentInv

\* Issuing traces a new refresh token to a credential that is gone, and to this
\* worker for the first time.
LEMMA IssueSpentInv ==
    ASSUME TypeInv, SpentInv, NEW w \in Worker,
           \/ GenerateAccessOnly(w) \/ GeneratePair(w) \/ GenerateFails(w)
           \/ StoreAccess(w) \/ StoreRefresh(w) \/ Respond(w)
    PROVE  SpentInv'
<1> USE DEF TypeInv
<1>1. CASE GenerateAccessOnly(w)
  <2>1. /\ pc' = [pc EXCEPT ![w] = "storeAccess"]
        /\ pair'[w].refresh = NoToken /\ \A v \in Worker \ {w} : pair'[v] = pair[v]
        /\ UNCHANGED <<codeInfo, codes, refreshInfo, refreshTokens, req, handedOut, lineage>>
    BY <1>1 DEF GenerateAccessOnly, Goto, TypeOK, storeVars
  <2>2. req[w].kind = "client_credentials"
    BY <1>1 DEF GenerateAccessOnly
  <2> QED
    BY <2>1, <2>2 DEF SpentInv, SourcesGone, OncePerWorker, NotYetMinted, Spending, Traded, Unseen,
       PairsDistinct, TypeOK
<1>2. CASE GeneratePair(w)
  <2>1. PICK refresh \in RefreshToken \ DOMAIN refreshInfo : GeneratePair(w)!(refresh)
    BY <1>2 DEF GeneratePair
  <2> DEFINE traded == Traded(req[w])
  <2>2. /\ pc[w] = "generate" /\ pc' = [pc EXCEPT ![w] = "storeAccess"]
        /\ pair'[w].refresh = refresh /\ \A v \in Worker \ {w} : pair'[v] = pair[v]
        /\ DOMAIN refreshInfo' = DOMAIN refreshInfo \cup {refresh}
        /\ \A r \in DOMAIN refreshInfo : refreshInfo'[r] = refreshInfo[r]
        /\ DOMAIN lineage' = DOMAIN lineage \cup {refresh}
        /\ \A r \in DOMAIN lineage : lineage'[r] = lineage[r]
        /\ lineage'[refresh] = [from |-> traded, by |-> w]
        /\ UNCHANGED <<codeInfo, codes, refreshTokens, req, handedOut>>
    BY <2>1 DEF Goto, TypeOK
  <2>3. traded # NoToken => /\ traded \in DOMAIN codeInfo \cup DOMAIN refreshInfo
                            /\ traded \notin codes \cup refreshTokens
    BY <2>2, GrantsAssumption, RequestFields
       DEF Traded, SpentInv, Spending, Shape, RequestShape, TypeOK, ExchangeRequest,
           RefreshRequest, Tokenless, GrantType
  <2>4. SourcesGone'
    BY <2>2, <2>3 DEF SpentInv, SourcesGone, TypeOK
  <2>5. OncePerWorker'
    BY <2>2 DEF SpentInv, OncePerWorker, NotYetMinted, TypeOK
  <2>6. ASSUME NEW v \in Worker PROVE NotYetMinted(v)' /\ Spending(v)'
    <3>1. CASE v = w
      BY <2>2, <3>1 DEF SpentInv, NotYetMinted, Spending, TypeOK, Shape, RequestShape, GrantType
    <3>2. CASE v # w
      <4>1. pc'[v] = pc[v]
        BY <2>2, <3>2 DEF TypeOK
      <4>2. NotYetMinted(v)'
        BY <2>2, <3>2, <4>1 DEF SpentInv, NotYetMinted, Traded, TypeOK
      <4>3. req[v].kind = "revoke" /\ req[v].token \in RefreshToken =>
              refreshInfo'[req[v].token].client = refreshInfo[req[v].token].client
        BY <2>2 DEF Shape, RequestShape, Tokenless
      <4>4. Spending(v)'
        BY <2>2, <4>1, <4>3 DEF SpentInv, Spending
      <4> QED
        BY <4>2, <4>4
    <3> QED
      BY <3>1, <3>2
  <2>7. Unseen(refresh)'
    <3>1. \A s \in DOMAIN lineage : lineage[s].from # refresh
      BY GrantsAssumption, TokensDisjoint DEF SpentInv, SourcesGone, TypeOK
    <3>2. traded # refresh
      BY <2>3, GrantsAssumption, TokensDisjoint DEF TypeOK
    <3>3. \A v \in Worker : req[v].kind \notin Tokenless => req[v].token # refresh
      BY DEF Shape, RequestShape
    <3> QED
      BY <2>2, <3>1, <3>2, <3>3 DEF Unseen, Shape, TypeOK
  <2>8. ASSUME NEW v \in Worker, v # w, pc[v] \in {"storeAccess", "storeRefresh"},
               pair[v].refresh # NoToken
        PROVE  Unseen(pair[v].refresh)'
    <3>1. Unseen(pair[v].refresh)
      BY <2>8 DEF SpentInv
    <3>2. traded # pair[v].refresh
      BY <2>8, <2>2, <3>1, RequestFields, GrantsAssumption
         DEF Traded, Unseen, Tokenless, TypeOK, TokenPair, ExchangeRequest
    <3> QED
      BY <2>2, <2>8, <3>1, <3>2 DEF Unseen
  <2>9. PairsDistinct'
    BY <2>2 DEF SpentInv, PairsDistinct, Shape, PairShape
  <2> QED
    BY <2>2, <2>4, <2>5, <2>6, <2>7, <2>8, <2>9 DEF SpentInv, TypeOK
<1>3. CASE GenerateFails(w)
  BY <1>3 DEF GenerateFails, Goto, storeVars, SpentInv, SourcesGone, OncePerWorker,
     NotYetMinted, Spending, Traded, Unseen, PairsDistinct, TypeOK, Shape, RequestShape, GrantType
<1>4. CASE StoreAccess(w)
  BY <1>4 DEF StoreAccess, Goto, SpentInv, SourcesGone, OncePerWorker,
     NotYetMinted, Spending, Traded, Unseen, PairsDistinct, TypeOK, Shape, RequestShape, GrantType
<1>5. CASE StoreRefresh(w)
  <2>1. Unseen(pair[w].refresh) /\ pair[w].refresh \in RefreshToken
    BY <1>5 DEF StoreRefresh, SpentInv, Shape, PairShape, TypeOK
  <2>2. /\ refreshTokens' = refreshTokens \cup {pair[w].refresh}
        /\ pc' = [pc EXCEPT ![w] = "ok"] /\ pc[w] = "storeRefresh"
        /\ UNCHANGED <<codeInfo, codes, refreshInfo, req, pair, handedOut, lineage>>
    BY <1>5 DEF StoreRefresh, Goto
  <2>3. SourcesGone' /\ OncePerWorker' /\ PairsDistinct'
    BY <2>1, <2>2 DEF SpentInv, SourcesGone, OncePerWorker, PairsDistinct, Unseen
  <2>4. ASSUME NEW v \in Worker PROVE NotYetMinted(v)' /\ Spending(v)'
    BY <2>1, <2>2 DEF SpentInv, NotYetMinted, Spending, Traded, Unseen, Tokenless, TypeOK,
       Shape, RequestShape, GrantType
  <2>5. ASSUME NEW v \in Worker, pc'[v] \in {"storeAccess", "storeRefresh"},
               pair[v].refresh # NoToken
        PROVE  Unseen(pair[v].refresh)'
    <3>1. v # w
      BY <2>2, <2>5 DEF TypeOK
    <3>2. pair[v].refresh # pair[w].refresh
      BY <2>5, <3>1 DEF SpentInv, PairsDistinct
    <3> QED
      BY <2>2, <2>5, <3>1, <3>2 DEF SpentInv, Unseen, TypeOK
  <2> QED
    BY <2>2, <2>3, <2>4, <2>5 DEF SpentInv
<1>6. CASE Respond(w)
  <2>1. /\ handedOut' = handedOut \cup ({pair[w].access, pair[w].refresh} \ {NoToken})
        /\ req' = [req EXCEPT ![w] = NoRequest] /\ pair' = [pair EXCEPT ![w] = NoPair]
        /\ pc' = [pc EXCEPT ![w] = "idle"]
        /\ UNCHANGED <<codeInfo, codes, refreshInfo, refreshTokens, lineage>>
    BY <1>6 DEF Respond, Goto, storeVars
  <2>2. SourcesGone' /\ OncePerWorker' /\ PairsDistinct'
    BY <2>1 DEF SpentInv, SourcesGone, OncePerWorker, PairsDistinct, NoPair, TypeOK
  <2>3. ASSUME NEW v \in Worker PROVE NotYetMinted(v)' /\ Spending(v)'
    BY <2>1 DEF SpentInv, NotYetMinted, Spending, Traded, TypeOK, NoRequest
  <2>4. ASSUME NEW v \in Worker, pc'[v] \in {"storeAccess", "storeRefresh"},
               pair'[v].refresh # NoToken
        PROVE  Unseen(pair[v].refresh)'
    <3>1. v # w /\ pair'[v] = pair[v] /\ pc'[v] = pc[v]
      BY <2>1, <2>4 DEF TypeOK
    <3>2. pair[v].refresh # pair[w].refresh
      BY <2>4, <3>1 DEF SpentInv, PairsDistinct
    <3>3. pair[v].refresh # pair[w].access
      BY <2>4, <3>1, TokensDisjoint DEF TypeOK, TokenPair
    <3>4. Unseen(pair[v].refresh)
      BY <2>4, <3>1 DEF SpentInv
    <3> QED
      BY <2>1, <3>1, <3>2, <3>3, <3>4 DEF Unseen, TypeOK, NoRequest, Tokenless
  <2> QED
    BY <2>2, <2>3, <2>4 DEF SpentInv
<1> QED
  BY <1>1, <1>2, <1>3, <1>4, <1>5, <1>6

\* The sweeps only remove, and the clock touches no store.
LEMMA BackgroundSpentInv ==
    ASSUME SpentInv, Collect \/ Tick
    PROVE  SpentInv'
<1>1. /\ codes' \subseteq codes /\ refreshTokens' \subseteq refreshTokens
      /\ UNCHANGED <<codeInfo, refreshInfo, pc, req, pair, handedOut, lineage>>
  BY DEF Collect, CollectCode, CollectAccess, CollectRefresh, Tick, workerVars, storeVars
<1> QED
  BY <1>1 DEF SpentInv, SourcesGone, OncePerWorker, NotYetMinted, Spending, Traded, Unseen,
     PairsDistinct

\* Every step keeps the spent credentials spent: SpentInv is inductive with TypeInv.
THEOREM NextSpentInv == TypeInv /\ SpentInv /\ [Next]_vars => SpentInv'
<1> SUFFICES ASSUME TypeInv, SpentInv, [Next]_vars PROVE SpentInv'
  OBVIOUS
<1>1. CASE Authorize
  BY <1>1, AuthorizeSpentInv
<1>2. CASE \E w \in Worker : Arrive(w) \/ Serve(w)
  BY <1>2, ArriveSpentInv, LookupSpentInv, IssueSpentInv DEF Serve
<1>3. CASE Collect \/ Tick
  BY <1>3, BackgroundSpentInv
<1>4. CASE UNCHANGED vars
  BY <1>4 DEF SpentInv, SourcesGone, OncePerWorker, NotYetMinted, Spending, Traded, Unseen,
     PairsDistinct, vars, storeVars, workerVars
<1> QED
  BY <1>1, <1>2, <1>3, <1>4 DEF Next

SafetyInv == TypeInv /\ SpentInv

\* Both invariants hold in every reachable state of the server, for any number of
\* request slots, clients, codes and tokens.
THEOREM SafetyInvariant == Spec => []SafetyInv
<1>1. Init => SafetyInv
  BY InitTypeInv, InitSpentInv DEF SafetyInv
<1>2. SafetyInv /\ [Next]_vars => SafetyInv'
  BY NextTypeInv, NextSpentInv DEF SafetyInv
<1> QED
  BY <1>1, <1>2, PTL DEF Spec

\* One request slot never redeems the same code or refresh token twice, with
\* any number of slots racing (the window at grant.go:107-112 and 226-248).
THEOREM OncePerWorkerHolds == Spec => []OncePerWorker
<1>1. SafetyInv => OncePerWorker
  BY DEF SafetyInv, SpentInv
<1> QED
  BY <1>1, SafetyInvariant, PTL

\* A refresh token and the credential it replaced never work at the same time.
THEOREM ReplacedIsGoneHolds == Spec => []ReplacedIsGone
<1>1. SafetyInv => ReplacedIsGone
  BY TokensDisjoint DEF SafetyInv, SpentInv, SourcesGone, ReplacedIsGone, TypeInv, TypeOK
<1> QED
  BY <1>1, SafetyInvariant, PTL

\* An exchange that got past the lookup spends its code, whatever the checks
\* after grant.go:112 say.
THEOREM AttemptSpendsCodeHolds == Spec => []AttemptSpendsCode
<1>1. SafetyInv => AttemptSpendsCode
  BY DEF SafetyInv, SpentInv, Spending, AttemptSpendsCode
<1> QED
  BY <1>1, SafetyInvariant, PTL

\* A revocation answered with 200 has taken effect on its own refresh token,
\* whatever other requests did meanwhile.
THEOREM RevocationEffectiveHolds == Spec => []RevocationEffective
<1>1. SafetyInv => RevocationEffective
  BY DEF SafetyInv, SpentInv, Spending, RevocationEffective
<1> QED
  BY <1>1, SafetyInvariant, PTL

\* Served one request at a time, codes and refresh tokens are single-use, as
\* README:724 and skill/SKILL.md:656 promise without that proviso.
THEOREM SerialSingleUse ==
    ASSUME \A v, w \in Worker : v = w
    PROVE  Spec => [](CodeSingleUse /\ RefreshSingleUse)
<1>1. SafetyInv => CodeSingleUse /\ RefreshSingleUse
  <2> SUFFICES ASSUME SafetyInv, NEW r \in DOMAIN lineage, NEW s \in DOMAIN lineage,
                      lineage[r].from = lineage[s].from, lineage[r].from # NoToken
               PROVE  r = s
    BY TokensDisjoint DEF CodeSingleUse, RefreshSingleUse
  <2>1. lineage[r] \in Lineage /\ lineage[s] \in Lineage
    BY DEF SafetyInv, TypeInv, TypeOK
  <2>2. lineage[r] = lineage[s]
    BY <2>1 DEF Lineage
  <2> QED
    BY <2>2 DEF SafetyInv, SpentInv, OncePerWorker
<1> QED
  BY <1>1, SafetyInvariant, PTL

-----------------------------------------------------------------------------
(* Expiry and backing: why no access token of a user is orphaned.            *)

\* Every expiry recorded for an access token lies within the second that
\* begins with the token's exp claim: requests of one second may overwrite each
\* other's entry, but never outside it.
WithinSecond(a, expiresAt) ==
    /\ Ticks(a.iat + AccessExpiry) <= expiresAt
    /\ expiresAt < Ticks(a.iat + AccessExpiry + 1)

Timing ==
    /\ \A a \in DOMAIN accessTokens : WithinSecond(a, accessTokens[a])
    /\ \A w \in Worker :
         pc[w] = "storeAccess" => WithinSecond(pair[w].access, pair[w].expiresAt)
    /\ \A r \in DOMAIN refreshInfo :
         Ticks(refreshInfo[r].access.iat + RefreshExpiry) <= refreshInfo[r].expiresAt

\* NoOrphanAccess without the comparison of expiries, which Timing implies.
Backed(a) ==
    \/ \E r \in refreshTokens : refreshInfo[r].access = a
    \/ \E w \in Worker : pc[w] = "storeRefresh" /\ pair[w].access = a
    \/ \E w \in Worker : pc[w] = "deleteAccess" /\ AccessToDelete(req[w]) = a

AllBacked ==
    \A a \in DOMAIN accessTokens :
        a.user # NoUser /\ ~Expired(accessTokens[a]) => Backed(a)

BackedInv == Timing /\ AllBacked

\* The second of a tick.
LEMMA SecondOf ==
    ASSUME NEW n \in Nat
    PROVE  /\ n \div TicksPerSecond \in Nat
           /\ Ticks(n \div TicksPerSecond) <= n
           /\ n < Ticks(n \div TicksPerSecond + 1)
BY GrantsAssumption DEF Ticks

\* Seconds add up as ticks.
LEMMA TicksSum ==
    ASSUME NEW m \in Nat, NEW n \in Nat
    PROVE  Ticks(m + n) = Ticks(m) + Ticks(n) /\ Ticks(m) \in Nat
BY GrantsAssumption DEF Ticks

\* ... and keep their order.
LEMMA TicksMonotone ==
    ASSUME NEW m \in Nat, NEW n \in Nat, m <= n
    PROVE  Ticks(m) <= Ticks(n)
BY GrantsAssumption DEF Ticks

\* A refresh token that names an access token outlives it, whoever wrote the
\* access token's entry last.
LEMMA RefreshOutlivesAccess ==
    ASSUME TypeInv, Timing, NEW a \in DOMAIN accessTokens, NEW r \in DOMAIN refreshInfo,
           refreshInfo[r].access = a
    PROVE  refreshInfo[r].expiresAt >= accessTokens[a]
<1>1. a.iat \in Nat /\ accessTokens[a] \in Nat /\ refreshInfo[r].expiresAt \in Nat
  BY DEF TypeInv, TypeOK, AccessToken, TokenInfo
<1>2. Ticks(a.iat + AccessExpiry + 1) <= Ticks(a.iat + RefreshExpiry)
  BY <1>1, GrantsAssumption, ExpiryAssumption, TicksMonotone
<1>3. accessTokens[a] < Ticks(a.iat + AccessExpiry + 1)
      /\ Ticks(a.iat + RefreshExpiry) <= refreshInfo[r].expiresAt
  BY DEF Timing, WithinSecond
<1>4. Ticks(a.iat + AccessExpiry + 1) \in Nat /\ Ticks(a.iat + RefreshExpiry) \in Nat
  BY <1>1, GrantsAssumption DEF Ticks
<1> QED
  BY <1>1, <1>2, <1>3, <1>4

\* With no access token there is none to back.
THEOREM InitBackedInv == Init => BackedInv
BY DEF Init, BackedInv, Timing, AllBacked

\* Every step keeps Timing: the expiries of one token lie in the second of its
\* issue plus their lifetimes.
LEMMA NextTiming ==
    ASSUME TypeInv, Timing, [Next]_vars
    PROVE  Timing'
<1> USE DEF TypeInv
<1>1. CASE Authorize
  BY <1>1 DEF Authorize, Timing, WithinSecond, workerVars
<1>2. ASSUME NEW w \in Worker, Arrive(w) PROVE Timing'
  <2>1. PICK request \in Request, label \in {"getCode", "generate", "getRefresh", "getAccess"} :
          ArrivesAs(w, request, label)
    BY <1>2, ArriveRequest
  <2> QED
    BY <2>1 DEF ArrivesAs, Timing, WithinSecond, storeVars, TypeOK
<1>3. ASSUME NEW w \in Worker,
             \/ GetCode(w) \/ DeleteCode(w) \/ GetRefresh(w) \/ DeleteRefresh(w)
             \/ GetAccess(w) \/ DeleteAccess(w) \/ StoreRefresh(w)
      PROVE  Timing'
  <2>1. /\ DOMAIN accessTokens' \subseteq DOMAIN accessTokens
        /\ \A a \in DOMAIN accessTokens' : accessTokens'[a] = accessTokens[a]
        /\ UNCHANGED <<refreshInfo, pair>>
    BY <1>3 DEF GetCode, DeleteCode, GetRefresh, DeleteRefresh, GetAccess, DeleteAccess,
       StoreRefresh, AccessTokensAfterGet, AccessTokensWithout, Restrict
  <2>2. \A v \in Worker : pc'[v] = "storeAccess" => pc[v] = "storeAccess"
    BY <1>3 DEF GetCode, DeleteCode, GetRefresh, DeleteRefresh, GetAccess, DeleteAccess,
       StoreRefresh, Goto, TypeOK, AfterGetRefresh, AfterGetAccess
  <2> QED
    BY <2>1, <2>2 DEF Timing, WithinSecond
<1>4. ASSUME NEW w \in Worker, GenerateAccessOnly(w) \/ GeneratePair(w)
      PROVE  Timing'
  <2> DEFINE access == SignedToken(req[w])
  <2>1. access \in AccessToken /\ access.iat = now \div TicksPerSecond
    BY <1>4, SignedTokenType DEF GenerateAccessOnly, GeneratePair, SignedToken
  <2>2. WithinSecond(access, AccessExpiresAt)
    <3> DEFINE second == now \div TicksPerSecond
    <3>1. second \in Nat /\ Ticks(second) <= now /\ now < Ticks(second + 1)
      BY SecondOf DEF TypeOK
    <3>2. /\ Ticks(second + AccessExpiry) = Ticks(second) + Ticks(AccessExpiry)
          /\ Ticks(second + AccessExpiry + 1) = Ticks(second + 1) + Ticks(AccessExpiry)
          /\ Ticks(second) \in Nat /\ Ticks(second + 1) \in Nat /\ Ticks(AccessExpiry) \in Nat
      BY <3>1, GrantsAssumption DEF Ticks
    <3> QED
      BY <2>1, <3>1, <3>2 DEF WithinSecond, AccessExpiresAt, TypeOK
  <2>3. Ticks(access.iat + RefreshExpiry) <= now + Ticks(RefreshExpiry)
    <3>1. now \div TicksPerSecond \in Nat /\ Ticks(now \div TicksPerSecond) <= now
      BY SecondOf DEF TypeOK
    <3>2. /\ Ticks(now \div TicksPerSecond + RefreshExpiry)
               = Ticks(now \div TicksPerSecond) + Ticks(RefreshExpiry)
          /\ Ticks(now \div TicksPerSecond) \in Nat /\ Ticks(RefreshExpiry) \in Nat
      BY <3>1, GrantsAssumption, TicksSum
    <3> QED
      BY <2>1, <3>1, <3>2 DEF TypeOK
  <2>4. /\ UNCHANGED accessTokens
        /\ pc' = [pc EXCEPT ![w] = "storeAccess"]
        /\ pair'[w].access = access /\ pair'[w].expiresAt = AccessExpiresAt
        /\ \A v \in Worker \ {w} : pair'[v] = pair[v]
    <3>1. CASE GenerateAccessOnly(w)
      BY <3>1 DEF GenerateAccessOnly, Goto, TypeOK, storeVars
    <3>2. CASE GeneratePair(w)
      BY <3>2 DEF GeneratePair, Goto, TypeOK
    <3> QED
      BY <1>4, <3>1, <3>2
  <2>5. \A r \in DOMAIN refreshInfo' :
          \/ r \in DOMAIN refreshInfo /\ refreshInfo'[r] = refreshInfo[r]
          \/ /\ refreshInfo'[r].access = access
             /\ refreshInfo'[r].expiresAt = now + Ticks(RefreshExpiry)
    <3>1. CASE GenerateAccessOnly(w)
      BY <3>1 DEF GenerateAccessOnly, storeVars
    <3>2. CASE GeneratePair(w)
      BY <3>2 DEF GeneratePair
    <3> QED
      BY <1>4, <3>1, <3>2
  <2>6. \A r \in DOMAIN refreshInfo' :
          Ticks(refreshInfo'[r].access.iat + RefreshExpiry) <= refreshInfo'[r].expiresAt
    BY <2>3, <2>5 DEF Timing
  <2>7. \A v \in Worker :
          pc'[v] = "storeAccess" => WithinSecond(pair'[v].access, pair'[v].expiresAt)
    BY <2>2, <2>4 DEF Timing, TypeOK
  <2> QED
    BY <2>4, <2>6, <2>7 DEF Timing, WithinSecond, Ticks
<1>5. ASSUME NEW w \in Worker, GenerateFails(w) \/ Respond(w)
      PROVE  Timing'
  BY <1>5 DEF GenerateFails, Respond, Goto, Timing, WithinSecond, storeVars, TypeOK
<1>6. ASSUME NEW w \in Worker, StoreAccess(w)
      PROVE  Timing'
  BY <1>6 DEF StoreAccess, Goto, Timing, WithinSecond, TypeOK
<1>7. CASE Collect \/ Tick
  BY <1>7 DEF Collect, CollectCode, CollectAccess, CollectRefresh, Tick, Timing, WithinSecond,
     AccessTokensWithout, Restrict, workerVars, storeVars
<1>8. CASE UNCHANGED vars
  BY <1>8 DEF vars, storeVars, workerVars, Timing, WithinSecond
<1> QED
  BY <1>1, <1>2, <1>3, <1>4, <1>5, <1>6, <1>7, <1>8 DEF Next, Serve

\* Every step keeps each access token backed by a refresh token, or by a request
\* about to store the one or delete the other.
LEMMA NextBacked ==
    ASSUME TypeInv, BackedInv, [Next]_vars
    PROVE  AllBacked'
<1> USE DEF TypeInv, BackedInv
<1> SUFFICES ASSUME NEW a \in DOMAIN accessTokens', a.user # NoUser,
                    ~(now' > accessTokens'[a])
             PROVE  Backed(a)'
  BY DEF AllBacked, Expired
<1>0. now' \in Nat /\ now <= now'
  <2>1. now' = now \/ now' = now + 1
    <3>1. CASE \E w \in Worker : Arrive(w)
      BY <3>1 DEF Arrive, ReceiveExchange, ReceivePassword, ReceiveClientCredentials,
         ReceiveRefresh, ReceiveRevoke, Receive
    <3>2. CASE \E w \in Worker : Serve(w)
      BY <3>2 DEF Serve, GetCode, DeleteCode, GetRefresh, DeleteRefresh, GetAccess,
         DeleteAccess, GenerateAccessOnly, GeneratePair, GenerateFails, StoreAccess,
         StoreRefresh, Respond
    <3>3. CASE Authorize \/ Collect \/ Tick \/ UNCHANGED vars
      BY <3>3 DEF Authorize, Collect, CollectCode, CollectAccess, CollectRefresh, Tick, vars
    <3> QED
      BY <3>1, <3>2, <3>3 DEF Next
  <2> QED
    BY <2>1 DEF TypeOK
\* A step that leaves the entry alone, keeps the witnesses' records and removes
\* no refresh token that is still backing a live entry.
<1>1. ASSUME a \in DOMAIN accessTokens, accessTokens'[a] = accessTokens[a],
             \A r \in DOMAIN refreshInfo :
                 r \in DOMAIN refreshInfo' /\ refreshInfo'[r] = refreshInfo[r],
             \A r \in refreshTokens :
                 r \in refreshTokens' \/ now > refreshInfo[r].expiresAt
                 \/ refreshInfo[r].access # a,
             \A w \in Worker :
                 pc[w] \in {"storeRefresh", "deleteAccess"} =>
                     pc'[w] = pc[w] /\ pair'[w] = pair[w] /\ req'[w] = req[w]
      PROVE  Backed(a)'
  <2>1. Backed(a)
    BY <1>0, <1>1 DEF AllBacked, Expired, TypeOK
  <2>2. ASSUME NEW r \in refreshTokens, refreshInfo[r].access = a
        PROVE  r \in refreshTokens' /\ refreshInfo'[r].access = a
    <3>1. refreshInfo[r].expiresAt >= accessTokens[a] /\ refreshInfo[r].expiresAt \in Nat
          /\ accessTokens[a] \in Nat
      BY <1>1, <2>2, RefreshOutlivesAccess DEF TypeOK, TokenInfo
    <3> QED
      BY <1>0, <1>1, <2>2, <3>1 DEF TypeOK
  <2>3. ASSUME NEW w \in Worker, pc[w] = "deleteAccess", AccessToDelete(req[w]) = a
        PROVE  AccessToDelete(req[w])' = a
    BY <1>1, <2>3 DEF AccessToDelete, Shape, RequestShape, TypeOK
  <2> QED
    BY <1>1, <2>1, <2>2, <2>3 DEF Backed
<1>2. CASE Authorize
  BY <1>1, <1>2 DEF Authorize, workerVars
<1>3. ASSUME NEW w \in Worker, Arrive(w) PROVE Backed(a)'
  <2>1. PICK request \in Request, label \in {"getCode", "generate", "getRefresh", "getAccess"} :
          ArrivesAs(w, request, label)
    BY <1>3, ArriveRequest
  <2> QED
    BY <1>1, <2>1 DEF ArrivesAs, storeVars, TypeOK
<1>4. ASSUME NEW w \in Worker,
             GetCode(w) \/ DeleteCode(w) \/ GenerateFails(w) \/ Respond(w)
             \/ GenerateAccessOnly(w)
      PROVE  Backed(a)'
  BY <1>1, <1>4 DEF GetCode, DeleteCode, GenerateFails, Respond, GenerateAccessOnly, Goto,
     storeVars, TypeOK
<1>5. ASSUME NEW w \in Worker, GetRefresh(w) PROVE Backed(a)'
  BY <1>1, <1>5 DEF GetRefresh, RefreshTokensAfterGet, RefreshFound, Expired, Goto, TypeOK
<1>6. ASSUME NEW w \in Worker, GetAccess(w) PROVE Backed(a)'
  BY <1>1, <1>6 DEF GetAccess, AccessTokensAfterGet, AccessTokensWithout, Restrict, Goto, TypeOK
<1>7. ASSUME NEW w \in Worker, DeleteRefresh(w) PROVE Backed(a)'
  <2>1. CASE refreshInfo[req[w].token].access = a
    <3>1. req[w].token \in RefreshToken /\ pc'[w] = "deleteAccess"
          /\ UNCHANGED <<req, refreshInfo>>
      BY <1>7 DEF DeleteRefresh, Goto, TypeOK, Shape, RequestShape
    <3> QED
      BY <2>1, <3>1 DEF Backed, AccessToDelete
  <2>2. CASE refreshInfo[req[w].token].access # a
    BY <1>1, <1>7, <2>2 DEF DeleteRefresh, RefreshTokensWithout, Goto, TypeOK
  <2> QED
    BY <2>1, <2>2
<1>8. ASSUME NEW w \in Worker, DeleteAccess(w) PROVE Backed(a)'
  <2>1. a \in DOMAIN accessTokens /\ accessTokens'[a] = accessTokens[a]
        /\ AccessToDelete(req[w]) # a
    BY <1>8 DEF DeleteAccess, AccessTokensWithout, Restrict
  <2>2. Backed(a)
    BY <1>0, <2>1 DEF AllBacked, Expired, TypeOK
  <2>3. /\ UNCHANGED <<refreshInfo, refreshTokens, req, pair>>
        /\ pc[w] = "deleteAccess" /\ \A v \in Worker \ {w} : pc'[v] = pc[v]
    BY <1>8 DEF DeleteAccess, Goto, TypeOK
  <2> QED
    BY <2>1, <2>2, <2>3 DEF Backed, AccessToDelete
<1>9. ASSUME NEW w \in Worker, GeneratePair(w) PROVE Backed(a)'
  BY <1>1, <1>9 DEF GeneratePair, Goto, TypeOK
<1>10. ASSUME NEW w \in Worker, StoreAccess(w) PROVE Backed(a)'
  <2>1. CASE a = pair[w].access
    <3>1. pair[w].refresh # NoToken
      BY <1>10, <2>1 DEF StoreAccess, Shape, PairShape
    <3> QED
      BY <1>10, <2>1, <3>1 DEF StoreAccess, Goto, Backed, TypeOK
  <2>2. CASE a # pair[w].access
    BY <1>1, <1>10, <2>2 DEF StoreAccess, Goto, TypeOK
  <2> QED
    BY <2>1, <2>2
<1>11. ASSUME NEW w \in Worker, StoreRefresh(w) PROVE Backed(a)'
  <2>1. CASE a = pair[w].access
    BY <1>11, <2>1 DEF StoreRefresh, Shape, PairShape, Backed
  <2>2. CASE a # pair[w].access
    <3>1. Backed(a) /\ UNCHANGED <<refreshInfo, req, pair>>
          /\ refreshTokens \subseteq refreshTokens'
      BY <1>0, <1>11 DEF StoreRefresh, AllBacked, Expired, TypeOK
    <3>2. \A v \in Worker \ {w} : pc'[v] = pc[v]
      BY <1>11 DEF StoreRefresh, Goto, TypeOK
    <3>3. pc[w] = "storeRefresh"
      BY <1>11 DEF StoreRefresh
    <3> QED
      BY <2>2, <3>1, <3>2, <3>3 DEF Backed, AccessToDelete
  <2> QED
    BY <2>1, <2>2
<1>12. CASE Collect
  <2>1. CASE CollectCode
    BY <1>1, <2>1 DEF CollectCode, workerVars
  <2>2. CASE CollectAccess
    BY <1>1, <2>2 DEF CollectAccess, AccessTokensWithout, Restrict, workerVars
  <2>3. CASE CollectRefresh
    BY <1>1, <2>3 DEF CollectRefresh, Expired, workerVars
  <2> QED
    BY <1>12, <2>1, <2>2, <2>3 DEF Collect
<1>13. CASE Tick
  BY <1>1, <1>13 DEF Tick, workerVars, storeVars
<1>14. CASE UNCHANGED vars
  BY <1>1, <1>14 DEF vars, workerVars, storeVars
<1> QED
  BY <1>2, <1>3, <1>4, <1>5, <1>6, <1>7, <1>8, <1>9, <1>10, <1>11, <1>12, <1>13, <1>14
     DEF Next, Serve

\* So access tokens are timed and backed in every reachable state.
THEOREM BackedInvariant == Spec => [](TypeInv /\ BackedInv)
<1>1. Init => TypeInv /\ BackedInv
  BY InitTypeInv, InitBackedInv
<1>2. TypeInv /\ BackedInv /\ [Next]_vars => TypeInv' /\ BackedInv'
  BY NextTypeInv, NextTiming, NextBacked DEF BackedInv
<1> QED
  BY <1>1, <1>2, PTL DEF Spec

\* No access token of a user stays usable without a refresh token whose
\* revocation or rotation deletes it, with any number of requests in flight and
\* although pairs of one second share their access token (skill/SKILL.md:680).
THEOREM NoOrphanAccessHolds == Spec => []NoOrphanAccess
<1>1. TypeInv /\ BackedInv => NoOrphanAccess
  <2> SUFFICES ASSUME TypeInv, BackedInv, NEW a \in DOMAIN accessTokens,
                      a.user # NoUser, ~Expired(accessTokens[a])
               PROVE  \/ \E r \in refreshTokens :
                           /\ refreshInfo[r].access = a
                           /\ refreshInfo[r].expiresAt >= accessTokens[a]
                      \/ \E w \in Worker : pc[w] = "storeRefresh" /\ pair[w].access = a
                      \/ \E w \in Worker :
                           pc[w] = "deleteAccess" /\ AccessToDelete(req[w]) = a
    BY DEF NoOrphanAccess
  <2>1. Backed(a)
    BY DEF BackedInv, AllBacked
  <2>2. ASSUME NEW r \in refreshTokens, refreshInfo[r].access = a
        PROVE  refreshInfo[r].expiresAt >= accessTokens[a]
    BY <2>2, RefreshOutlivesAccess DEF BackedInv, TypeInv, TypeOK
  <2> QED
    BY <2>1, <2>2 DEF Backed
<1> QED
  BY <1>1, BackedInvariant, PTL

\* An access token whose exp claim is not over has an entry that has not expired,
\* whichever request of its second wrote the entry last.
LEMMA StoredLongEnough == TypeInv /\ BackedInv => ValidMeansStored
<1> SUFFICES ASSUME TypeInv, BackedInv, NEW a \in DOMAIN accessTokens, JWTValid(a)
             PROVE  AccessFound(a)
  BY DEF ValidMeansStored
<1>1. Ticks(a.iat + AccessExpiry) <= accessTokens[a] /\ now < Ticks(a.iat + AccessExpiry)
  BY DEF BackedInv, Timing, WithinSecond, JWTValid
<1>2. now \in Nat /\ accessTokens[a] \in Nat /\ Ticks(a.iat + AccessExpiry) \in Nat
  BY GrantsAssumption DEF TypeInv, TypeOK, AccessToken, Ticks
<1> QED
  BY <1>1, <1>2 DEF AccessFound, Expired

\* A JWT that has not expired is missing from the store only if it was deleted,
\* so a bearer request is refused for nothing but revocation or expiry.
THEOREM ValidMeansStoredHolds == Spec => []ValidMeansStored
BY StoredLongEnough, BackedInvariant, PTL

=============================================================================
