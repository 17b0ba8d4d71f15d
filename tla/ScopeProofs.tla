----------------------------- MODULE ScopeProofs -----------------------------
(***************************************************************************)
(* Why no chain of grants widens a scope, changes a user or leaves the     *)
(* client's registration: proved for every value of the constants of       *)
(* Grants.                                                                 *)
(***************************************************************************)
EXTENDS GrantsProofs

-----------------------------------------------------------------------------
(* The invariant: every record and every request that has passed its checks *)
(* carries a scope its client may have.                                     *)

Within(client, scope) ==
    RegisteredScopes[client] # {} =>
        scope # NoScope /\ splitSpaces(scope) \subseteq RegisteredScopes[client]

SoundToken(a) ==
    Within(a.client, a.scope) /\ (ContainsScope(a.scope, OpenID) => a.user # NoUser)

\* What the checks have established of a request, and of what it is to store.
Granted(w) ==
    LET q == req[w] IN
    /\ q.kind \in {"password", "client_credentials"} => Within(q.client, q.scope)
    /\ q.kind = "client_credentials" => ~ContainsScope(q.scope, OpenID)
    /\ q.kind = "refresh_token" /\ pc[w] \in {"deleteRefresh", "deleteAccess", "generate"} =>
         RefreshAccepted(q)
    /\ pc[w] = "storeAccess" => SoundToken(pair[w].access)

RecordsWithin ==
    /\ \A c \in DOMAIN codeInfo : Within(codeInfo[c].client, codeInfo[c].scope)
    /\ \A r \in DOMAIN refreshInfo : Within(refreshInfo[r].client, refreshInfo[r].scope)

ScopeInv ==
    /\ RecordsWithin
    /\ \A a \in DOMAIN accessTokens : SoundToken(a)
    /\ \A w \in Worker : Granted(w)
    /\ GrantNeverWidens

-----------------------------------------------------------------------------
(* Operators *)

\* What ValidateClientScope returns without error lies within the registration.
LEMMA ResolvedWithin ==
    ASSUME NEW client \in Client, NEW requested \in ScopeString,
           ScopePermitted(RegisteredScopes[client], requested)
    PROVE  Within(client, ResolvedScope(RegisteredScopes[client], requested))
BY ScopesAssumption, GrantsAssumption
   DEF ScopePermitted, ResolvedScope, Within, splitSpaces, ScopeString

\* A refresh that passed its checks keeps client and user out of its hands, and
\* its scope below the old one, unless that was no limit.
LEMMA RefreshedBelow ==
    ASSUME NEW q \in RefreshRequest, refreshInfo[q.token] \in TokenInfo, RefreshAccepted(q),
           Within(refreshInfo[q.token].client, refreshInfo[q.token].scope)
    PROVE  /\ Within(refreshInfo[q.token].client, RefreshedScope(q))
           /\ \/ splitSpaces(RefreshedScope(q)) \subseteq splitSpaces(refreshInfo[q.token].scope)
              \/ /\ RegisteredScopes[refreshInfo[q.token].client] = {}
                 /\ refreshInfo[q.token].scope = NoScope
<1> DEFINE info == refreshInfo[q.token]
           wanted == IF q.scope = NoScope THEN info.scope ELSE q.scope
<1>1. /\ info.client = q.client /\ info.client \in Client
      /\ wanted \in ScopeString
      /\ ScopePermitted(RegisteredScopes[q.client], wanted)
      /\ RefreshedScope(q) = ResolvedScope(RegisteredScopes[q.client], wanted)
  BY GrantsAssumption DEF RefreshAccepted, RefreshedScope, RefreshRequest, TokenInfo
<1>2. Within(info.client, RefreshedScope(q))
  BY <1>1, ResolvedWithin
<1>3. CASE q.scope = NoScope
  BY <1>1, <1>2, <1>3 DEF ResolvedScope, Within
<1>4. CASE q.scope # NoScope
  BY <1>1, <1>2, <1>4 DEF RefreshAccepted, isScopeNarrowed, Within
<1> QED
  BY <1>2, <1>3, <1>4

\* The token a request is about to be granted is one its client may have.
LEMMA SignedSound ==
    ASSUME TypeInv, ScopeInv, NEW w \in Worker, pc[w] = "generate"
    PROVE  SoundToken(SignedToken(req[w]))
<1> USE DEF TypeInv
<1> DEFINE q == req[w]
           a == SignedToken(q)
<1>0. q \in Request \cup {NoRequest} /\ q.kind \in GrantType
  BY DEF TypeOK, Shape, RequestShape
<1>1. /\ q.kind # "client_credentials" => a.user # NoUser
      /\ a.client = ClientOf(q) /\ a.scope = ScopeOf(q)
  <2>1. q.kind # "client_credentials" => a.user # NoUser
    BY SignedTokenType, GrantsAssumption
  <2> QED
    BY <2>1 DEF SignedToken
<1>2. Granted(w)
  BY DEF ScopeInv
<1>3. CASE q.kind = "authorization_code"
  BY <1>1, <1>3 DEF ScopeInv, RecordsWithin, Shape, RequestShape, ClientOf, ScopeOf, SoundToken
<1>4. CASE q.kind \in {"password", "client_credentials"}
  BY <1>1, <1>2, <1>4 DEF Granted, ClientOf, ScopeOf, SoundToken
<1>5. CASE q.kind = "refresh_token"
  <2>1. q \in RefreshRequest /\ q.token \in DOMAIN refreshInfo
    BY <1>0, <1>5, RequestFields DEF Shape, RequestShape, Tokenless, RefreshRequest
  <2>2. refreshInfo[q.token] \in TokenInfo /\ RefreshAccepted(q)
    BY <1>2, <1>5, <2>1 DEF Granted, TypeOK
  <2>3. Within(refreshInfo[q.token].client, RefreshedScope(q))
    BY <2>1, <2>2, RefreshedBelow DEF ScopeInv, RecordsWithin
  <2> QED
    BY <1>1, <1>5, <2>3 DEF ClientOf, ScopeOf, SoundToken
<1> QED
  BY <1>0, <1>3, <1>4, <1>5 DEF GrantType

\* What a client, user and scope may become when a credential is traded in.
Below(new, was) ==
    /\ new.client = was.client /\ new.user = was.user
    /\ \/ splitSpaces(new.scope) \subseteq splitSpaces(was.scope)
       \/ RegisteredScopes[new.client] = {} /\ was.scope = NoScope

\* The token a request is about to be granted stays below the credential it
\* trades in.
LEMMA SignedBelow ==
    ASSUME TypeInv, ScopeInv, NEW w \in Worker, pc[w] = "generate",
           Traded(req[w]) # NoToken
    PROVE  \/ Traded(req[w]) \in DOMAIN codeInfo
              /\ Below(SignedToken(req[w]), codeInfo[Traded(req[w])])
           \/ Traded(req[w]) \in DOMAIN refreshInfo
              /\ Below(SignedToken(req[w]), refreshInfo[Traded(req[w])])
<1> USE DEF TypeInv
<1> DEFINE q == req[w]
           a == SignedToken(q)
<1>1. /\ q \in Request \cup {NoRequest} /\ q.kind \in {"authorization_code", "refresh_token"}
      /\ a.client = ClientOf(q) /\ a.user = UserOf(q) /\ a.scope = ScopeOf(q)
  BY DEF TypeOK, Shape, RequestShape, SignedToken, Traded
<1>2. CASE q.kind = "authorization_code"
  BY <1>1, <1>2 DEF Shape, RequestShape, ClientOf, UserOf, ScopeOf, Traded, Below
<1>3. CASE q.kind = "refresh_token"
  <2>1. q \in RefreshRequest /\ q.token \in DOMAIN refreshInfo
    BY <1>1, <1>3, RequestFields DEF Shape, RequestShape, Tokenless, RefreshRequest
  <2>2. refreshInfo[q.token] \in TokenInfo /\ RefreshAccepted(q)
    BY <1>3, <2>1 DEF ScopeInv, Granted, TypeOK
  <2>3. \/ splitSpaces(RefreshedScope(q)) \subseteq splitSpaces(refreshInfo[q.token].scope)
        \/ /\ RegisteredScopes[refreshInfo[q.token].client] = {}
           /\ refreshInfo[q.token].scope = NoScope
    BY <2>1, <2>2, RefreshedBelow DEF ScopeInv, RecordsWithin
  <2> QED
    BY <1>1, <1>3, <2>1, <2>3 DEF ClientOf, UserOf, ScopeOf, Traded, Below
<1> QED
  BY <1>1, <1>2, <1>3

-----------------------------------------------------------------------------
(* The steps *)

\* Nothing is granted at the start.
LEMMA InitScopeInv == Init => ScopeInv
BY DEF Init, ScopeInv, RecordsWithin, Granted, GrantNeverWidens, NoRequest

\* What traces to a record stays below it while the records stay.
LEMMA WidensNotAgain ==
    ASSUME TypeInv, SpentInv, GrantNeverWidens,
           \A c \in DOMAIN codeInfo : codeInfo'[c] = codeInfo[c],
           \A r \in DOMAIN refreshInfo : refreshInfo'[r] = refreshInfo[r],
           NEW r \in DOMAIN lineage, lineage'[r] = lineage[r], lineage[r].from # NoToken
    PROVE  LET old == lineage'[r].from
               was == IF old \in Code THEN codeInfo'[old] ELSE refreshInfo'[old] IN
           Below(refreshInfo'[r], was)
<1> DEFINE old == lineage[r].from
           was == IF old \in Code THEN codeInfo[old] ELSE refreshInfo[old]
<1>1. r \in DOMAIN refreshInfo
  BY DEF TypeInv, TypeOK
<1>2. Below(refreshInfo[r], was)
  BY DEF GrantNeverWidens, Below
<1>3. old \in DOMAIN codeInfo \cup DOMAIN refreshInfo
  BY DEF SpentInv, SourcesGone
<1>4. was = IF old \in Code THEN codeInfo'[old] ELSE refreshInfo'[old]
  BY <1>3, GrantsAssumption DEF TypeInv, TypeOK
<1> QED
  BY <1>1, <1>2, <1>4

\* A new code has the scope Server.Authorize has checked.
LEMMA AuthorizeScopeInv ==
    ASSUME TypeInv, SpentInv, ScopeInv, Authorize
    PROVE  ScopeInv'
<1> USE DEF TypeInv
<1>1. PICK code \in Code \ DOMAIN codeInfo, client \in Client, user \in User,
           uri \in RedirectURI, scope \in RequestScopes, verifier \in Verifier :
        Authorize!(code, client, user, uri, scope, verifier)
  BY DEF Authorize
<1>2. Within(client, ResolvedScope(RegisteredScopes[client], scope))
  BY <1>1, ResolvedWithin, GrantsAssumption
<1>3. /\ DOMAIN codeInfo' = DOMAIN codeInfo \cup {code}
      /\ \A c \in DOMAIN codeInfo : codeInfo'[c] = codeInfo[c]
      /\ Within(codeInfo'[code].client, codeInfo'[code].scope)
      /\ UNCHANGED <<refreshInfo, accessTokens, pc, req, pair, lineage>>
  BY <1>1, <1>2 DEF workerVars
<1>4. RecordsWithin'
  BY <1>3 DEF ScopeInv, RecordsWithin, Within
<1>5. \A w \in Worker : Granted(w)'
  BY <1>3 DEF ScopeInv, Granted, RefreshAccepted, RefreshedScope, SoundToken, Within
<1>6. \A a \in DOMAIN accessTokens' : SoundToken(a)'
  BY <1>3 DEF ScopeInv, SoundToken, Within
<1>7. GrantNeverWidens'
  BY <1>3, WidensNotAgain DEF ScopeInv, GrantNeverWidens, Below
<1> QED
  BY <1>4, <1>5, <1>6, <1>7 DEF ScopeInv

\* The scope of a password or client_credentials request is checked before the
\* request does anything.
LEMMA ArriveGranted ==
    ASSUME TypeInv, NEW w \in Worker, Arrive(w)
    PROVE  Granted(w)'
<1> USE DEF TypeInv
<1>1. /\ pc'[w] \in {"getCode", "generate", "getRefresh", "getAccess"}
      /\ req'[w].kind = "refresh_token" => pc'[w] = "getRefresh"
  BY ArriveRequest DEF ArrivesAs, TypeOK
<1>2. CASE ReceivePassword(w)
  <2>1. PICK client \in Client, user \in User, scope \in RequestScopes :
          /\ ScopePermitted(RegisteredScopes[client], scope)
          /\ Receive(w, "password",
                     [kind |-> "password", client |-> client, user |-> user,
                      scope |-> ResolvedScope(RegisteredScopes[client], scope)], "generate")
    BY <1>2 DEF ReceivePassword
  <2>2. Within(client, ResolvedScope(RegisteredScopes[client], scope))
    BY <2>1, ResolvedWithin, GrantsAssumption
  <2>3. req'[w] = [kind |-> "password", client |-> client, user |-> user,
                   scope |-> ResolvedScope(RegisteredScopes[client], scope)]
    BY <2>1 DEF Receive, TypeOK
  <2> QED
    BY <1>1, <2>2, <2>3 DEF Granted, Within
<1>3. CASE ReceiveClientCredentials(w)
  <2>1. PICK client \in Client, scope \in RequestScopes :
          /\ ScopePermitted(RegisteredScopes[client], scope)
          /\ ~ContainsScope(ResolvedScope(RegisteredScopes[client], scope), OpenID)
          /\ Receive(w, "client_credentials",
                     [kind |-> "client_credentials", client |-> client,
                      scope |-> ResolvedScope(RegisteredScopes[client], scope)], "generate")
    BY <1>3 DEF ReceiveClientCredentials
  <2>2. Within(client, ResolvedScope(RegisteredScopes[client], scope))
    BY <2>1, ResolvedWithin, GrantsAssumption
  <2>3. req'[w] = [kind |-> "client_credentials", client |-> client,
                   scope |-> ResolvedScope(RegisteredScopes[client], scope)]
    BY <2>1 DEF Receive, TypeOK
  <2> QED
    BY <1>1, <2>1, <2>2, <2>3 DEF Granted, Within
<1>4. CASE ReceiveExchange(w) \/ ReceiveRefresh(w) \/ ReceiveRevoke(w)
  <2>1. req'[w].kind \in {"authorization_code", "refresh_token", "revoke"}
    BY <1>4 DEF ReceiveExchange, ReceiveRefresh, ReceiveRevoke, Receive, TypeOK
  <2> QED
    BY <1>1, <2>1 DEF Granted
<1> QED
  BY <1>2, <1>3, <1>4 DEF Arrive

\* Receiving a request changes no record.
LEMMA ArriveScopeInv ==
    ASSUME TypeInv, SpentInv, ScopeInv, NEW w \in Worker, Arrive(w)
    PROVE  ScopeInv'
<1>1. /\ UNCHANGED <<codeInfo, refreshInfo, accessTokens, pair, lineage>>
      /\ \A v \in Worker \ {w} : pc'[v] = pc[v] /\ req'[v] = req[v]
  BY ArriveRequest DEF ArrivesAs, TypeInv, TypeOK, storeVars
<1>2. \A v \in Worker \ {w} : Granted(v)'
  BY <1>1 DEF ScopeInv, Granted, RefreshAccepted, RefreshedScope, SoundToken, Within
<1>3. RecordsWithin' /\ \A a \in DOMAIN accessTokens' : SoundToken(a)'
  BY <1>1 DEF ScopeInv, RecordsWithin, SoundToken, Within
<1>4. GrantNeverWidens'
  BY <1>1 DEF ScopeInv, GrantNeverWidens
<1> QED
  BY <1>2, <1>3, <1>4, ArriveGranted DEF ScopeInv

\* The calls that make no token: a refresh gets past the lookup with its checks
\* done, and what they looked at does not change.
LEMMA LookupScopeInv ==
    ASSUME TypeInv, ScopeInv, NEW w \in Worker,
           \/ GetCode(w) \/ DeleteCode(w) \/ GetRefresh(w) \/ DeleteRefresh(w)
           \/ GetAccess(w) \/ DeleteAccess(w)
    PROVE  ScopeInv'
<1> USE DEF TypeInv
<1>1. /\ UNCHANGED <<codeInfo, refreshInfo, req, pair, lineage>>
      /\ DOMAIN accessTokens' \subseteq DOMAIN accessTokens
      /\ \A v \in Worker \ {w} : pc'[v] = pc[v]
  BY DEF GetCode, DeleteCode, GetRefresh, DeleteRefresh, GetAccess, DeleteAccess, Goto,
         TypeOK, AccessTokensAfterGet, AccessTokensWithout, Restrict
<1>2. \A v \in Worker \ {w} : Granted(v)'
  BY <1>1 DEF ScopeInv, Granted, RefreshAccepted, RefreshedScope, SoundToken, Within
<1>3. /\ pc'[w] # "storeAccess"
      /\ req[w].kind = "refresh_token" /\ pc'[w] \in {"deleteRefresh", "deleteAccess", "generate"}
           => RefreshAccepted(req[w])
  <2>1. Granted(w)
    BY DEF ScopeInv
  <2>2. CASE GetCode(w) \/ DeleteCode(w)
    BY <2>2 DEF GetCode, DeleteCode, Goto, TypeOK, Shape, RequestShape
  <2>3. CASE GetRefresh(w)
    BY <2>3 DEF GetRefresh, Goto, TypeOK, AfterGetRefresh
  <2>4. CASE DeleteRefresh(w) \/ DeleteAccess(w)
    BY <2>1, <2>4 DEF DeleteRefresh, DeleteAccess, Goto, TypeOK, Granted
  <2>5. CASE GetAccess(w)
    BY <2>5 DEF GetAccess, Goto, TypeOK, AfterGetAccess, Shape, RequestShape
  <2> QED
    BY <2>2, <2>3, <2>4, <2>5
<1>4. Granted(w)'
  BY <1>1, <1>3 DEF ScopeInv, Granted, RefreshAccepted, RefreshedScope, Within
<1>5. RecordsWithin' /\ \A a \in DOMAIN accessTokens' : SoundToken(a)'
  BY <1>1 DEF ScopeInv, RecordsWithin, SoundToken, Within
<1>6. GrantNeverWidens'
  BY <1>1 DEF ScopeInv, GrantNeverWidens
<1> QED
  BY <1>2, <1>4, <1>5, <1>6 DEF ScopeInv

\* A generated token is sound, and below what it was traded for.
LEMMA GenerateScopeInv ==
    ASSUME TypeInv, SpentInv, ScopeInv, NEW w \in Worker,
           GenerateAccessOnly(w) \/ GeneratePair(w)
    PROVE  ScopeInv'
<1> USE DEF TypeInv
<1> DEFINE a == SignedToken(req[w])
<1>1. /\ pc[w] = "generate" /\ pc' = [pc EXCEPT ![w] = "storeAccess"]
      /\ pair'[w].access = a /\ \A v \in Worker \ {w} : pair'[v] = pair[v]
      /\ UNCHANGED <<codeInfo, accessTokens, req>>
  <2>1. CASE GenerateAccessOnly(w)
    BY <2>1 DEF GenerateAccessOnly, Goto, TypeOK, storeVars
  <2>2. CASE GeneratePair(w)
    BY <2>2 DEF GeneratePair, Goto, TypeOK
  <2> QED
    BY <2>1, <2>2
<1>2. SoundToken(a) /\ a \in AccessToken
  BY <1>1, SignedSound, SignedTokenType
<1>3. \A r \in DOMAIN refreshInfo : refreshInfo'[r] = refreshInfo[r]
  BY DEF GenerateAccessOnly, GeneratePair, storeVars
<1>4. \A v \in Worker : Granted(v)'
  <2>1. ASSUME NEW v \in Worker, v # w PROVE Granted(v)'
    <3>1. /\ Granted(v) /\ pc'[v] = pc[v] /\ req'[v] = req[v] /\ pair'[v] = pair[v]
          /\ req[v].kind = "refresh_token" /\ pc[v] \in {"deleteRefresh", "deleteAccess", "generate"}
               => req[v].token \in DOMAIN refreshInfo
      <4>1. req[v].kind = "refresh_token" => req[v].token \in RefreshToken
        BY RequestFields DEF TypeOK, RefreshRequest
      <4> QED
        BY <1>1, <2>1, <4>1 DEF ScopeInv, TypeOK, Shape, RequestShape, Tokenless
    <3> QED
      BY <1>3, <3>1 DEF Granted, RefreshAccepted, RefreshedScope, SoundToken, Within
  <2>2. Granted(w)'
    <3>1. Granted(w) /\ pc'[w] = "storeAccess" /\ req'[w] = req[w] /\ pair'[w].access = a
      BY <1>1 DEF ScopeInv, TypeOK
    <3>2. SoundToken(pair[w].access)'
      BY <1>2, <3>1 DEF SoundToken, Within
    <3> QED
      BY <3>1, <3>2 DEF Granted, Within
  <2> QED
    BY <2>1, <2>2
<1>5. \A t \in DOMAIN accessTokens' : SoundToken(t)'
  BY <1>1 DEF ScopeInv, SoundToken, Within
<1>6. CASE GenerateAccessOnly(w)
  <2>1. UNCHANGED <<refreshInfo, lineage>>
    BY <1>6 DEF GenerateAccessOnly, storeVars
  <2> QED
    BY <1>1, <1>4, <1>5, <2>1 DEF ScopeInv, RecordsWithin, Within, GrantNeverWidens
<1>7. CASE GeneratePair(w)
  <2>1. PICK refresh \in RefreshToken \ DOMAIN refreshInfo : GeneratePair(w)!(refresh)
    BY <1>7 DEF GeneratePair
  <2>2. /\ DOMAIN refreshInfo' = DOMAIN refreshInfo \cup {refresh}
        /\ refreshInfo'[refresh].client = a.client /\ refreshInfo'[refresh].user = a.user
        /\ refreshInfo'[refresh].scope = a.scope
        /\ DOMAIN lineage' = DOMAIN lineage \cup {refresh}
        /\ \A r \in DOMAIN lineage : lineage'[r] = lineage[r] /\ r # refresh
        /\ lineage'[refresh].from = Traded(req[w])
    BY <2>1 DEF TypeOK
  <2>3. RecordsWithin'
    BY <1>1, <1>2, <1>3, <2>2 DEF ScopeInv, RecordsWithin, SoundToken, Within
  <2>4. ASSUME NEW r \in DOMAIN lineage', lineage'[r].from # NoToken
        PROVE  LET old == lineage'[r].from
                   was == IF old \in Code THEN codeInfo'[old] ELSE refreshInfo'[old] IN
               Below(refreshInfo'[r], was)
    <3>1. CASE r \in DOMAIN lineage
      BY <1>1, <1>3, <2>2, <2>4, <3>1, WidensNotAgain DEF ScopeInv
    <3>2. CASE r = refresh
      <4> DEFINE old == Traded(req[w])
                 was == IF old \in Code THEN codeInfo'[old] ELSE refreshInfo'[old]
      <4>1. old # NoToken
        BY <2>2, <2>4, <3>2
      <4>2. Below(a, was)
        BY <1>1, <1>3, <4>1, SignedBelow, GrantsAssumption DEF TypeOK
      <4> QED
        BY <2>2, <3>2, <4>2 DEF Below
    <3> QED
      BY <2>2, <3>1, <3>2
  <2>5. GrantNeverWidens'
    BY <2>4 DEF GrantNeverWidens, Below
  <2> QED
    BY <1>4, <1>5, <2>3, <2>5 DEF ScopeInv
<1> QED
  BY <1>6, <1>7

\* Storing, failing and answering move sound tokens only.
LEMMA StoreScopeInv ==
    ASSUME TypeInv, ScopeInv, NEW w \in Worker,
           GenerateFails(w) \/ StoreAccess(w) \/ StoreRefresh(w) \/ Respond(w)
    PROVE  ScopeInv'
<1> USE DEF TypeInv
<1>1. /\ UNCHANGED <<codeInfo, refreshInfo, lineage>>
      /\ \A v \in Worker \ {w} : pc'[v] = pc[v] /\ req'[v] = req[v] /\ pair'[v] = pair[v]
      /\ pc'[w] \in {"error", "ok", "storeRefresh", "idle"}
      /\ req'[w] \in {req[w], NoRequest}
  BY DEF GenerateFails, StoreAccess, StoreRefresh, Respond, Goto, TypeOK, storeVars
<1>2. ASSUME NEW v \in Worker \ {w} PROVE Granted(v)'
  <2>1. Granted(v) /\ pc'[v] = pc[v] /\ req'[v] = req[v] /\ pair'[v] = pair[v]
    BY <1>1 DEF ScopeInv
  <2>2. RefreshAccepted(req[v])' <=> RefreshAccepted(req[v])
    BY <1>1 DEF RefreshAccepted, RefreshedScope
  <2> QED
    BY <2>1, <2>2 DEF Granted, SoundToken, Within
<1>3. Granted(w)'
  BY <1>1 DEF ScopeInv, Granted, Within, NoRequest
<1>4. \A a \in DOMAIN accessTokens' : SoundToken(a)
  <2>1. CASE StoreAccess(w)
    <3>1. SoundToken(pair[w].access)
      BY <2>1 DEF StoreAccess, ScopeInv, Granted
    <3> QED
      BY <2>1, <3>1 DEF StoreAccess, ScopeInv
  <2>2. CASE ~StoreAccess(w)
    BY <2>2 DEF GenerateFails, StoreRefresh, Respond, storeVars, ScopeInv
  <2> QED
    BY <2>1, <2>2
<1>5. RecordsWithin' /\ \A a \in DOMAIN accessTokens' : SoundToken(a)'
  BY <1>1, <1>4 DEF ScopeInv, RecordsWithin, SoundToken, Within
<1>6. GrantNeverWidens'
  BY <1>1 DEF ScopeInv, GrantNeverWidens
<1> QED
  BY <1>2, <1>3, <1>5, <1>6 DEF ScopeInv

\* Every step keeps scopes within the registration and below what they were.
LEMMA NextScopeInv ==
    ASSUME TypeInv, SpentInv, ScopeInv, [Next]_vars
    PROVE  ScopeInv'
<1>1. CASE Authorize
  BY <1>1, AuthorizeScopeInv
<1>2. CASE \E w \in Worker : Arrive(w) \/ Serve(w)
  BY <1>2, ArriveScopeInv, LookupScopeInv, GenerateScopeInv, StoreScopeInv DEF Serve
<1>3. CASE Collect \/ Tick \/ UNCHANGED vars
  <2>1. /\ UNCHANGED <<codeInfo, refreshInfo, lineage, pc, req, pair>>
        /\ DOMAIN accessTokens' \subseteq DOMAIN accessTokens
    BY <1>3 DEF Collect, CollectCode, CollectAccess, CollectRefresh, Tick, vars, workerVars,
       storeVars, AccessTokensWithout, Restrict
  <2> QED
    BY <2>1 DEF ScopeInv, RecordsWithin, SoundToken, Within, Granted, RefreshAccepted,
       RefreshedScope, GrantNeverWidens
<1> QED
  BY <1>1, <1>2, <1>3 DEF Next

\* So it is in every reachable state.
THEOREM ScopeInvariant == Spec => [](SafetyInv /\ ScopeInv)
<1>1. Init => SafetyInv /\ ScopeInv
  BY InitTypeInv, InitSpentInv, InitScopeInv DEF SafetyInv
<1>2. SafetyInv /\ ScopeInv /\ [Next]_vars => SafetyInv' /\ ScopeInv'
  BY NextTypeInv, NextSpentInv, NextScopeInv DEF SafetyInv
<1> QED
  BY <1>1, <1>2, PTL DEF Spec

\* Through any number of exchanges and refreshes, with any number of requests in
\* flight, tokens keep user and client and their scope never grows
\* (grant.go:230-262).
THEOREM GrantNeverWidensHolds == Spec => []GrantNeverWidens
<1>1. ScopeInv => GrantNeverWidens
  BY DEF ScopeInv
<1> QED
  BY <1>1, ScopeInvariant, PTL

\* No grant and no chain of grants leaves the client's registration, and none
\* speaks of a user where there is none (store.go:280-300, grant.go:194).
THEOREM ScopeWithinRegistrationHolds == Spec => []ScopeWithinRegistration
<1>1. SafetyInv /\ ScopeInv => ScopeWithinRegistration
  BY DEF SafetyInv, TypeInv, TypeOK, ScopeInv, RecordsWithin, SoundToken, Within,
         ScopeWithinRegistration
<1> QED
  BY <1>1, ScopeInvariant, PTL

=============================================================================
