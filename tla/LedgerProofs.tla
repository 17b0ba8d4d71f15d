----------------------------- MODULE LedgerProofs -----------------------------
(***************************************************************************)
(* The stores and handlers of Grants implement CredentialLedger, for any   *)
(* finite number of request slots, and TokenLife, for any number; for      *)
(* every value of the other constants.                                     *)
(***************************************************************************)
EXTENDS GrantsProofs, FiniteSetTheorems

\* A request that holds a refresh token it has not stored yet.
Carries(w) == pc[w] \in {"storeAccess", "storeRefresh"} /\ pair[w].refresh # NoToken

\* What is live has been stored; what is on its way has not.
LEMMA LiveIsStored ==
    ASSUME SafetyInv
    PROVE  /\ codes \cup refreshTokens \subseteq Stored
           /\ Stored \subseteq Credential
           /\ InFlight \cap refreshTokens = {}
<1> USE DEF SafetyInv, TypeInv
<1>1. ASSUME NEW r \in InFlight PROVE r \notin refreshTokens
  <2>1. PICK w \in Worker : pc[w] \in {"storeAccess", "storeRefresh"} /\ pair[w].refresh = r
    BY <1>1 DEF InFlight
  <2>2. CASE r = NoToken
    BY <2>2, TokensDisjoint DEF TypeOK
  <2>3. CASE r # NoToken
    BY <2>1, <2>3 DEF SpentInv, Unseen
  <2> QED
    BY <2>2, <2>3
<1> QED
  BY <1>1 DEF Stored, Credential, TypeOK

\* The stored credentials change only with the records and with what is carried.
LEMMA SameStored ==
    ASSUME SafetyInv, UNCHANGED <<codeInfo, refreshInfo>>,
           \A w \in Worker : Carries(w)' <=> Carries(w),
           \A w \in Worker : Carries(w) => pair'[w].refresh = pair[w].refresh
    PROVE  Stored' = Stored
<1>1. ASSUME NEW r \in RefreshToken PROVE r \in InFlight' <=> r \in InFlight
  <2>1. r \in InFlight <=> \E w \in Worker : Carries(w) /\ pair[w].refresh = r
    BY TokensDisjoint DEF InFlight, Carries
  <2>2. r \in InFlight' <=> \E w \in Worker : Carries(w)' /\ pair'[w].refresh = r
    BY TokensDisjoint DEF InFlight, Carries
  <2> QED
    BY <2>1, <2>2
<1> QED
  BY <1>1 DEF Stored, SafetyInv, TypeInv, TypeOK

\* A step that stores nothing and removes at most one key is a retirement or
\* nothing at all.
LEMMA RetireOrStutter ==
    ASSUME SafetyInv, Stored' = Stored,
           \A r \in Stored \cap RefreshToken : lineage'[r] = lineage[r],
           NEW c,
           codes' \cup refreshTokens' \in
               {codes \cup refreshTokens, (codes \cup refreshTokens) \ {c}}
    PROVE  Ledger!Next \/ UNCHANGED Ledger!ledgerVars
<1>1. [d \in Credential |-> IF d \in Stored \cap RefreshToken THEN lineage[d].from ELSE NoToken]'
        = [d \in Credential |-> IF d \in Stored \cap RefreshToken THEN lineage[d].from ELSE NoToken]
  OBVIOUS
<1>2. CASE codes' \cup refreshTokens' = codes \cup refreshTokens
  BY <1>1, <1>2 DEF Ledger!ledgerVars
<1>3. CASE /\ codes' \cup refreshTokens' = (codes \cup refreshTokens) \ {c}
           /\ c \in codes \cup refreshTokens
  <2>1. c \in Credential /\ c \in Stored
    BY <1>3, LiveIsStored
  <2>2. Ledger!Retire(c)
    BY <1>1, <1>3, <2>1 DEF Ledger!Retire
  <2> QED
    BY <2>1, <2>2 DEF Ledger!Next
<1> QED
  BY <1>2, <1>3

\* A new code is issued.
LEMMA AuthorizeIssues ==
    ASSUME SafetyInv, Authorize
    PROVE  Ledger!Next
<1> USE DEF SafetyInv, TypeInv
<1>1. PICK code \in Code \ DOMAIN codeInfo : /\ codes' = codes \cup {code}
                                             /\ DOMAIN codeInfo' = DOMAIN codeInfo \cup {code}
  BY DEF Authorize
<1>2. UNCHANGED <<refreshInfo, refreshTokens, pc, req, pair, lineage>>
  BY DEF Authorize, workerVars
<1>3. code \notin DOMAIN refreshInfo /\ code \in Credential /\ code \notin RefreshToken
  BY GrantsAssumption DEF TypeOK, Credential
<1>4. InFlight' = InFlight
  BY <1>2 DEF InFlight
<1>5. Stored' = Stored \cup {code} /\ code \notin Stored
  BY <1>1, <1>2, <1>3, <1>4 DEF Stored
<1>6. [d \in Credential |-> IF d \in Stored \cap RefreshToken THEN lineage[d].from ELSE NoToken]'
        = [d \in Credential |-> IF d \in Stored \cap RefreshToken THEN lineage[d].from ELSE NoToken]
  BY <1>2, <1>3, <1>5
<1>7. code \notin codes \cup refreshTokens
  BY <1>5, LiveIsStored
<1>8. Stored' \ (codes' \cup refreshTokens') = Stored \ (codes \cup refreshTokens)
  BY <1>1, <1>2, <1>5
<1>9. Ledger!Issue(code)
  BY <1>1, <1>2, <1>3, <1>5, <1>6, <1>7, <1>8 DEF Ledger!Issue, Ledger!Fresh
<1> QED
  BY <1>3, <1>9 DEF Ledger!Next

\* Arrivals, lookups, deletions, failures, answers, sweeps and the clock.
LEMMA OthersRetire ==
    ASSUME SafetyInv,
           \/ \E w \in Worker :
                \/ Arrive(w) \/ GetCode(w) \/ DeleteCode(w) \/ GetRefresh(w)
                \/ DeleteRefresh(w) \/ GetAccess(w) \/ DeleteAccess(w)
                \/ GenerateAccessOnly(w) \/ GenerateFails(w) \/ StoreAccess(w) \/ Respond(w)
           \/ Collect \/ Tick \/ UNCHANGED vars
    PROVE  Ledger!Next \/ UNCHANGED Ledger!ledgerVars
<1> USE DEF SafetyInv, TypeInv
<1>1. ASSUME NEW w \in Worker, Arrive(w) PROVE Ledger!Next \/ UNCHANGED Ledger!ledgerVars
  <2>1. /\ UNCHANGED <<codeInfo, codes, refreshInfo, refreshTokens, lineage, pair>>
        /\ \A v \in Worker : Carries(v)' <=> Carries(v)
    BY <1>1, ArriveRequest DEF ArrivesAs, TypeOK, storeVars, Carries
  <2> QED
    BY <2>1, SameStored, RetireOrStutter
<1>2. ASSUME NEW w \in Worker, GetCode(w) \/ DeleteCode(w)
      PROVE  Ledger!Next \/ UNCHANGED Ledger!ledgerVars
  <2>1. /\ UNCHANGED <<codeInfo, refreshInfo, refreshTokens, lineage, pair>>
        /\ \A v \in Worker : Carries(v)' <=> Carries(v)
    BY <1>2 DEF GetCode, DeleteCode, Goto, TypeOK, Carries
  <2>2. req[w].code \notin refreshTokens
    BY <1>2, GrantsAssumption DEF GetCode, DeleteCode, Shape, RequestShape, TypeOK
  <2>3. codes' = codes \/ codes' = codes \ {req[w].code}
    BY <1>2 DEF GetCode, DeleteCode, CodesAfterGet, CodesWithout
  <2> QED
    BY <2>1, <2>2, <2>3, SameStored, RetireOrStutter
<1>3. ASSUME NEW w \in Worker, GetRefresh(w) \/ DeleteRefresh(w)
      PROVE  Ledger!Next \/ UNCHANGED Ledger!ledgerVars
  <2>1. /\ UNCHANGED <<codeInfo, codes, refreshInfo, lineage, pair>>
        /\ \A v \in Worker : Carries(v)' <=> Carries(v)
    <3>1. CASE GetRefresh(w)
      <4>1. AfterGetRefresh(req[w]) \in {"deleteRefresh", "ok", "error"}
        BY DEF AfterGetRefresh
      <4> QED
        BY <3>1, <4>1 DEF GetRefresh, Goto, TypeOK, Carries
    <3>2. CASE DeleteRefresh(w)
      BY <3>2 DEF DeleteRefresh, Goto, TypeOK, Carries
    <3> QED
      BY <1>3, <3>1, <3>2
  <2>2. refreshTokens' = refreshTokens \/ refreshTokens' = refreshTokens \ {req[w].token}
    BY <1>3 DEF GetRefresh, DeleteRefresh, RefreshTokensAfterGet, RefreshTokensWithout
  <2>3. codes' \cup refreshTokens' \in
          {codes \cup refreshTokens, (codes \cup refreshTokens) \ {req[w].token}}
    <3>1. CASE req[w].token \in refreshTokens
      BY <2>1, <2>2, <3>1, GrantsAssumption DEF TypeOK
    <3>2. CASE req[w].token \notin refreshTokens
      BY <2>1, <2>2, <3>2
    <3> QED
      BY <3>1, <3>2
  <2>4. Stored' = Stored
    BY <2>1, SameStored
  <2> QED
    BY <2>1, <2>3, <2>4, RetireOrStutter
<1>4. ASSUME NEW w \in Worker,
             \/ GetAccess(w) \/ DeleteAccess(w) \/ GenerateAccessOnly(w) \/ GenerateFails(w)
             \/ StoreAccess(w) \/ Respond(w)
      PROVE  Ledger!Next \/ UNCHANGED Ledger!ledgerVars
  <2>1. UNCHANGED <<codeInfo, codes, refreshInfo, refreshTokens, lineage>>
    BY <1>4 DEF GetAccess, DeleteAccess, GenerateAccessOnly, GenerateFails, StoreAccess,
       Respond, storeVars
  <2>2. /\ \A v \in Worker \ {w} : pc'[v] = pc[v] /\ pair'[v] = pair[v]
        /\ Carries(w)' <=> Carries(w)
        /\ Carries(w) => pair'[w] = pair[w]
    <3>1. CASE GetAccess(w)
      BY <3>1 DEF GetAccess, Goto, TypeOK, Carries, AfterGetAccess
    <3>2. CASE DeleteAccess(w) \/ GenerateFails(w)
      BY <3>2 DEF DeleteAccess, GenerateFails, Goto, TypeOK, Carries
    <3>3. CASE GenerateAccessOnly(w)
      BY <3>3 DEF GenerateAccessOnly, Goto, TypeOK, Carries
    <3>4. CASE StoreAccess(w)
      BY <3>4 DEF StoreAccess, Goto, TypeOK, Carries
    <3>5. CASE Respond(w)
      BY <3>5 DEF Respond, Goto, TypeOK, Carries
    <3> QED
      BY <1>4, <3>1, <3>2, <3>3, <3>4, <3>5
  <2>3. \A v \in Worker : Carries(v)' <=> Carries(v)
    BY <2>2 DEF Carries
  <2> QED
    BY <2>1, <2>2, <2>3, SameStored, RetireOrStutter
<1>5. CASE Collect
  <2>1. /\ UNCHANGED <<codeInfo, refreshInfo, lineage, pair, pc>>
        /\ \A v \in Worker : Carries(v)' <=> Carries(v)
    BY <1>5 DEF Collect, CollectCode, CollectAccess, CollectRefresh, workerVars, Carries
  <2>2. CASE CollectCode
    <3>1. PICK c \in codes : codes' = codes \ {c} /\ UNCHANGED refreshTokens
      BY <2>2 DEF CollectCode
    <3>2. c \notin refreshTokens
      BY GrantsAssumption DEF TypeOK
    <3> QED
      BY <2>1, <3>1, <3>2, SameStored, RetireOrStutter
  <2>3. CASE CollectRefresh
    <3>1. PICK c \in refreshTokens : refreshTokens' = refreshTokens \ {c} /\ UNCHANGED codes
      BY <2>3 DEF CollectRefresh
    <3>2. c \notin codes
      BY GrantsAssumption DEF TypeOK
    <3> QED
      BY <2>1, <3>1, <3>2, SameStored, RetireOrStutter
  <2>4. CASE CollectAccess
    <3>1. UNCHANGED <<codes, refreshTokens>>
      BY <2>4 DEF CollectAccess
    <3> QED
      BY <2>1, <3>1, SameStored, RetireOrStutter
  <2> QED
    BY <1>5, <2>2, <2>3, <2>4 DEF Collect
<1>6. CASE Tick \/ UNCHANGED vars
  <2>1. /\ UNCHANGED <<codeInfo, codes, refreshInfo, refreshTokens, lineage, pair, pc>>
        /\ \A v \in Worker : Carries(v)' <=> Carries(v)
    BY <1>6 DEF Tick, vars, workerVars, storeVars, Carries
  <2> QED
    BY <2>1, SameStored, RetireOrStutter
<1> QED
  BY <1>1, <1>2, <1>3, <1>4, <1>5, <1>6

\* A generated refresh token is on its way, and the ledger does not see it yet.
LEMMA GeneratePairStutters ==
    ASSUME SafetyInv, NEW w \in Worker, GeneratePair(w)
    PROVE  Ledger!Next \/ UNCHANGED Ledger!ledgerVars
<1> USE DEF SafetyInv, TypeInv
<1>1. PICK refresh \in RefreshToken \ DOMAIN refreshInfo : GeneratePair(w)!(refresh)
  BY DEF GeneratePair
<1>2. /\ pc[w] = "generate" /\ pc' = [pc EXCEPT ![w] = "storeAccess"]
      /\ pair'[w].refresh = refresh /\ \A v \in Worker \ {w} : pair'[v] = pair[v]
      /\ DOMAIN refreshInfo' = DOMAIN refreshInfo \cup {refresh}
      /\ \A r \in DOMAIN lineage : lineage'[r] = lineage[r]
      /\ UNCHANGED <<codeInfo, codes, refreshTokens>>
  BY <1>1 DEF Goto, TypeOK
<1>3. ASSUME NEW r \in RefreshToken
      PROVE  r \in InFlight' <=> r \in InFlight \cup {refresh}
  BY <1>2 DEF InFlight, TypeOK
<1>4. refresh \notin DOMAIN codeInfo
  BY <1>1, GrantsAssumption DEF TypeOK
<1>5. Stored' = Stored
  BY <1>2, <1>3, <1>4, <1>1 DEF Stored, TypeOK
<1>6. \A r \in Stored \cap RefreshToken : lineage'[r] = lineage[r]
  BY <1>2, GrantsAssumption DEF Stored, TypeOK
<1> QED
  BY <1>2, <1>5, <1>6, RetireOrStutter

\* The ledger counts as the finite-set library does.
LEMMA SameCardinality == \A S : Ledger!Cardinality(S) = Cardinality(S)
BY DEF Ledger!Cardinality, Cardinality

\* Fewer credentials than request slots have been traded for old so far, if one
\* more slot is about to bring its own.
LEMMA RoomForHeir ==
    ASSUME IsFiniteSet(Worker), SafetyInv, NEW w \in Worker, Carries(w),
           NEW old, old = lineage[pair[w].refresh].from, old # NoToken
    PROVE  Cardinality(Ledger!Heirs(old)) < Cardinality(Worker)
<1> USE DEF SafetyInv, TypeInv
<1> DEFINE r == pair[w].refresh
           heirs == Ledger!Heirs(old)
           slot == [d \in heirs |-> lineage[d].by]
           others == Worker \ {lineage[r].by}
<1>1. r \in DOMAIN lineage /\ r \in InFlight /\ lineage[r] \in Lineage
  BY DEF Carries, Shape, PairShape, TypeOK, InFlight
<1>2. ASSUME NEW d \in heirs
      PROVE  /\ d \in DOMAIN lineage /\ lineage[d] \in Lineage
             /\ lineage[d].from = old /\ d # r
  <2>1. d \in Stored
    BY <1>2, LiveIsStored DEF Ledger!Heirs
  <2>2. d \in Credential /\ d \in Stored \cap RefreshToken /\ lineage[d].from = old
    BY <1>2, <2>1, LiveIsStored DEF Ledger!Heirs
  <2>3. d \in DOMAIN refreshInfo /\ d \notin InFlight
    BY <2>2, GrantsAssumption DEF Stored, TypeOK
  <2> QED
    BY <1>1, <2>2, <2>3 DEF TypeOK
<1>3. \A d \in heirs : lineage[d].by \in others
  BY <1>1, <1>2 DEF SpentInv, OncePerWorker, Lineage
<1>4. \A d, e \in heirs : lineage[d].by = lineage[e].by => d = e
  BY <1>2 DEF SpentInv, OncePerWorker, Lineage
<1>5. slot \in Injection(heirs, others)
  BY <1>3, <1>4 DEF Injection, IsInjective
<1>6. IsFiniteSet(others) /\ Cardinality(others) = Cardinality(Worker) - 1
  BY <1>1, FS_RemoveElement DEF Lineage
<1>7. IsFiniteSet(heirs) /\ Cardinality(heirs) <= Cardinality(others)
  BY <1>5, <1>6, FS_Injection
<1>8. Cardinality(Worker) \in Nat /\ Cardinality(heirs) \in Nat
  BY <1>7, FS_CardinalityType
<1> QED
  BY <1>6, <1>7, <1>8

\* Storing the refresh token of a new pair issues it, or lets it succeed the
\* credential it was traded for, which has retired.
LEMMA StoreRefreshSucceeds ==
    ASSUME IsFiniteSet(Worker), SafetyInv, NEW w \in Worker, StoreRefresh(w)
    PROVE  Ledger!Next
<1> USE DEF SafetyInv, TypeInv
<1> DEFINE live == codes \cup refreshTokens
<1>0. PICK r \in RefreshToken, old \in Credential \cup {NoToken} :
        r = pair[w].refresh /\ r \in DOMAIN lineage /\ old = lineage[r].from
  <2>1. pair[w].refresh \in RefreshToken /\ pair[w].refresh \in DOMAIN lineage
    BY DEF StoreRefresh, Shape, PairShape, TypeOK
  <2>2. lineage[pair[w].refresh].from \in Credential \cup {NoToken}
    BY <2>1 DEF TypeOK, Lineage
  <2> QED
    BY <2>1, <2>2
<1>1. /\ pc[w] = "storeRefresh" /\ pc' = [pc EXCEPT ![w] = "ok"]
      /\ refreshTokens' = refreshTokens \cup {r}
      /\ UNCHANGED <<codeInfo, codes, refreshInfo, pair, lineage>>
  BY <1>0 DEF StoreRefresh, Goto
<1>2. Carries(w) /\ r \in DOMAIN refreshInfo
  BY <1>0, <1>1 DEF Carries, Shape, PairShape, TypeOK
<1>3. Unseen(r)
  BY <1>0, <1>1, <1>2 DEF SpentInv, Carries
<1>4. r \in InFlight /\ r \notin DOMAIN codeInfo
  BY <1>0, <1>1, <1>2, GrantsAssumption DEF InFlight, TypeOK
<1>5. ASSUME NEW s \in RefreshToken PROVE s \in InFlight' <=> s \in InFlight \ {r}
  <2>1. \A v \in Worker : pc'[v] \in {"storeAccess", "storeRefresh"} <=>
                             pc[v] \in {"storeAccess", "storeRefresh"} /\ v # w
    BY <1>1 DEF TypeOK
  <2>2. \A v \in Worker \ {w} : pair[v].refresh # r
    BY <1>0, <1>2 DEF SpentInv, PairsDistinct, Carries
  <2> QED
    BY <1>0, <1>1, <2>1, <2>2 DEF InFlight
<1>6. Stored' = Stored \cup {r} /\ r \notin Stored /\ r \in Credential
  BY <1>0, <1>1, <1>2, <1>4, <1>5 DEF Stored, TypeOK, Credential
<1>7. live' = live \cup {r} /\ r \notin live
  BY <1>1, <1>6, LiveIsStored
<1>8. Stored' \ live' = Stored \ live
  BY <1>6, <1>7
<1>9. r \in Ledger!Fresh
  BY <1>6, <1>7 DEF Ledger!Fresh
<1>10. [d \in Credential |-> IF d \in Stored \cap RefreshToken THEN lineage[d].from ELSE NoToken]'
         = [[d \in Credential |-> IF d \in Stored \cap RefreshToken THEN lineage[d].from
                                 ELSE NoToken] EXCEPT ![r] = old]
  BY <1>0, <1>1, <1>2, <1>6
<1>11. CASE old = NoToken
  <2>1. [d \in Credential |-> IF d \in Stored \cap RefreshToken THEN lineage[d].from ELSE NoToken]'
          = [d \in Credential |-> IF d \in Stored \cap RefreshToken THEN lineage[d].from ELSE NoToken]
    BY <1>0, <1>1, <1>6, <1>11
  <2>2. Ledger!Issue(r)
    BY <1>7, <1>8, <1>9, <2>1 DEF Ledger!Issue
  <2> QED
    BY <1>6, <2>2 DEF Ledger!Next
<1>12. CASE old # NoToken
  <2>1. old \in DOMAIN codeInfo \cup DOMAIN refreshInfo /\ old \notin live
    BY <1>0, <1>12 DEF SpentInv, SourcesGone
  <2>2. old \notin InFlight
    BY <1>0, <2>1, TokensDisjoint DEF InFlight, SpentInv, Unseen, TypeOK
  <2>3. old \in Stored /\ old \in Credential
    BY <2>1, <2>2, LiveIsStored DEF Stored
  <2>4. Cardinality(Ledger!Heirs(old)) < Cardinality(Worker)
    BY <1>0, <1>2, <1>12, RoomForHeir
  <2>5. Ledger!Succeed(r, old)
    BY <1>7, <1>8, <1>9, <1>10, <2>1, <2>3, <2>4, SameCardinality DEF Ledger!Succeed
  <2> QED
    BY <1>6, <2>3, <2>5 DEF Ledger!Next
<1> QED
  BY <1>11, <1>12

\* With finitely many requests in flight, what clients see of codes and refresh
\* tokens is what the ledger promises: each is live once, a replacement only
\* after what it replaces has retired, and no more replacements than requests
\* (grant.go:95-149 and 221-268 over store.go).
THEOREM LedgerImplemented ==
    ASSUME IsFiniteSet(Worker)
    PROVE  Spec => LedgerSpec
<1>1. Init => Ledger!Init
  BY DEF Init, Ledger!Init, Stored, InFlight
<1>2. SafetyInv /\ [Next]_vars => Ledger!Next \/ UNCHANGED Ledger!ledgerVars
  <2> SUFFICES ASSUME SafetyInv, [Next]_vars
               PROVE  Ledger!Next \/ UNCHANGED Ledger!ledgerVars
    OBVIOUS
  <2>1. CASE Authorize
    BY <2>1, AuthorizeIssues
  <2>2. ASSUME NEW w \in Worker, GeneratePair(w) \/ StoreRefresh(w)
        PROVE  Ledger!Next \/ UNCHANGED Ledger!ledgerVars
    BY <2>2, GeneratePairStutters, StoreRefreshSucceeds
  <2>3. CASE \/ \E w \in Worker :
                  \/ Arrive(w) \/ GetCode(w) \/ DeleteCode(w) \/ GetRefresh(w)
                  \/ DeleteRefresh(w) \/ GetAccess(w) \/ DeleteAccess(w)
                  \/ GenerateAccessOnly(w) \/ GenerateFails(w) \/ StoreAccess(w) \/ Respond(w)
             \/ Collect \/ Tick \/ UNCHANGED vars
    BY <2>3, OthersRetire
  <2> QED
    BY <2>1, <2>2, <2>3 DEF Next, Serve
<1> QED
  BY <1>1, <1>2, SafetyInvariant, PTL DEF Spec, LedgerSpec, Ledger!Spec

-----------------------------------------------------------------------------
(* Access tokens, and the refinement of TokenLife *)

\* The client of a request holds the token it is about, or the refresh token.
Entitled(q) ==
    IF q.token \in RefreshToken THEN refreshInfo[q.token].client = q.client
    ELSE q.token \in Signable /\ q.token.client = q.client

\* Who owns which access token: a refresh token names one of its own client's, and
\* the check of the client that a rotation or revocation makes stays good until the
\* deletions it is for.  Every string in use was signed by now.
Owned ==
    /\ now \in 0 .. MaxTime
    /\ DOMAIN accessTokens \subseteq Signable
    /\ \A r \in DOMAIN refreshInfo :
         refreshInfo[r].access \in Signable /\ refreshInfo[r].access.client = refreshInfo[r].client
    /\ \A w \in Worker : pc[w] = "storeAccess" => pair[w].access \in Signable
    /\ \A w \in Worker : pc[w] \in {"deleteRefresh", "deleteAccess"} => Entitled(req[w])

\* What is signed now is signable.
LEMMA SignedIsSignable ==
    ASSUME TypeInv, Owned, NEW w \in Worker, pc[w] = "generate"
    PROVE  SignedToken(req[w]) \in Signable
<1> DEFINE N == MaxTime \div TicksPerSecond
<1>1. now \div TicksPerSecond \in 0 .. N
  BY GrantsAssumption DEF Owned
<1>2. SignedToken(req[w]) \in AccessToken /\ SignedToken(req[w]).iat = now \div TicksPerSecond
  BY SignedTokenType DEF SignedToken
<1> QED
  BY <1>1, <1>2 DEF AccessToken, Signable

\* A check that is made lets only the token's client go on.
LEMMA CheckedIsEntitled ==
    ASSUME TypeInv, Owned, NEW w \in Worker
    PROVE  /\ pc[w] = "getRefresh" /\ AfterGetRefresh(req[w]) = "deleteRefresh" => Entitled(req[w])
           /\ pc[w] = "getAccess" /\ AfterGetAccess(req[w]) = "deleteAccess" => Entitled(req[w])
           /\ AfterGetRefresh(req[w]) \in {"deleteRefresh", "ok", "error"}
           /\ AfterGetAccess(req[w]) \in {"deleteAccess", "getRefresh", "ok", "error"}
<1>1. ASSUME AfterGetRefresh(req[w]) = "deleteRefresh" PROVE Entitled(req[w])
  <2>1. req[w].token \in RefreshToken
    BY <1>1 DEF AfterGetRefresh, RefreshFound, TypeInv, TypeOK
  <2> QED
    BY <1>1, <2>1 DEF AfterGetRefresh, RefreshAccepted, Entitled
<1>2. ASSUME AfterGetAccess(req[w]) = "deleteAccess" PROVE Entitled(req[w])
  <2>1. req[w].token \in Signable /\ req[w].token \in AccessToken
    BY <1>2 DEF AfterGetAccess, AccessFound, Owned, TypeInv, TypeOK
  <2> QED
    BY <1>2, <2>1, TokensDisjoint DEF AfterGetAccess, Entitled
<1> QED
  BY <1>1, <1>2 DEF AfterGetRefresh, AfterGetAccess

\* A request that comes to the deletion of an access token is entitled to it.
LEMMA EntitledToDelete ==
    ASSUME TypeInv, Owned, NEW w \in Worker, pc[w] \in {"deleteRefresh", "deleteAccess"}
    PROVE  AccessToDelete(req[w]) \in Signable /\ AccessToDelete(req[w]).client = req[w].client
<1>1. Entitled(req[w])
  BY DEF Owned
<1>2. CASE req[w].token \in RefreshToken
  <2>1. req[w].token \in DOMAIN refreshInfo
    BY <1>2 DEF TypeInv, Shape, RequestShape
  <2> QED
    BY <1>1, <1>2, <2>1 DEF Owned, Entitled, AccessToDelete
<1>3. CASE req[w].token \notin RefreshToken
  BY <1>1, <1>3 DEF Entitled, AccessToDelete
<1> QED
  BY <1>2, <1>3

\* Nobody comes to own what was another's: every step keeps Owned.
LEMMA NextOwned ==
    ASSUME TypeInv, Owned, [Next]_vars
    PROVE  Owned'
<1> USE DEF TypeInv
\* While the records stay and the strings are signable, only a request that newly comes
\* to its deletions or to storing has anything to show.
<1>1. ASSUME now' \in 0 .. MaxTime, DOMAIN accessTokens' \subseteq Signable, UNCHANGED refreshInfo,
             \A v \in Worker :
               /\ pc'[v] = "storeAccess" => pc[v] = "storeAccess" /\ pair'[v] = pair[v]
               /\ pc'[v] \in {"deleteRefresh", "deleteAccess"} =>
                     Entitled(req[v]) /\ req'[v] = req[v]
      PROVE  Owned'
  BY <1>1 DEF Owned, Entitled, Signable
<1>2. now \in 0 .. MaxTime /\ DOMAIN accessTokens \subseteq Signable
  BY DEF Owned
<1>3. CASE Authorize
  BY <1>1, <1>2, <1>3 DEF Authorize, workerVars, Owned
<1>4. ASSUME NEW w \in Worker, Arrive(w) PROVE Owned'
  <2>1. PICK request \in Request, label \in {"getCode", "generate", "getRefresh", "getAccess"} :
          ArrivesAs(w, request, label)
    BY <1>4, ArriveRequest
  <2> QED
    BY <2>1, <1>1, <1>2 DEF ArrivesAs, Owned, storeVars, TypeOK
<1>5. ASSUME NEW w \in Worker, GetCode(w) \/ DeleteCode(w) \/ GenerateFails(w) \/ Respond(w)
      PROVE  Owned'
  BY <1>5, <1>1, <1>2 DEF GetCode, DeleteCode, GenerateFails, Respond, Goto, Owned, storeVars, TypeOK
<1>6. ASSUME NEW w \in Worker, GetRefresh(w) \/ DeleteRefresh(w) \/ StoreRefresh(w) PROVE Owned'
  <2>1. /\ UNCHANGED <<now, refreshInfo, accessTokens, req, pair>>
        /\ \A v \in Worker \ {w} : pc'[v] = pc[v]
        /\ pc'[w] # "storeAccess"
    BY <1>6, CheckedIsEntitled DEF GetRefresh, DeleteRefresh, StoreRefresh, Goto, TypeOK
  <2>2. pc'[w] \in {"deleteRefresh", "deleteAccess"} => Entitled(req[w])
    BY <1>6, CheckedIsEntitled DEF GetRefresh, DeleteRefresh, StoreRefresh, Goto, TypeOK, Owned
  <2> QED
    BY <2>1, <2>2, <1>1, <1>2 DEF Owned
<1>7. ASSUME NEW w \in Worker, GetAccess(w) \/ DeleteAccess(w) PROVE Owned'
  <2>1. /\ UNCHANGED <<now, refreshInfo, req, pair>>
        /\ \A v \in Worker \ {w} : pc'[v] = pc[v]
        /\ pc'[w] # "storeAccess"
        /\ DOMAIN accessTokens' \subseteq DOMAIN accessTokens
    BY <1>7, CheckedIsEntitled DEF GetAccess, DeleteAccess, Goto, TypeOK, AccessTokensAfterGet,
       AccessTokensWithout, Restrict
  <2>2. pc'[w] \in {"deleteRefresh", "deleteAccess"} => Entitled(req[w])
    BY <1>7, CheckedIsEntitled DEF GetAccess, DeleteAccess, Goto, TypeOK, Owned
  <2> QED
    BY <2>1, <2>2, <1>1, <1>2 DEF Owned
<1>8. ASSUME NEW w \in Worker, GenerateAccessOnly(w) \/ GeneratePair(w) PROVE Owned'
  <2> DEFINE access == SignedToken(req[w])
  <2>1. access \in Signable
    BY <1>8, SignedIsSignable DEF GenerateAccessOnly, GeneratePair
  <2>2. /\ UNCHANGED <<now, accessTokens, req>> /\ pc' = [pc EXCEPT ![w] = "storeAccess"]
        /\ pair'[w].access = access /\ \A v \in Worker \ {w} : pair'[v] = pair[v]
    <3>1. CASE GenerateAccessOnly(w)
      BY <3>1 DEF GenerateAccessOnly, Goto, TypeOK, storeVars
    <3>2. CASE GeneratePair(w)
      BY <3>2 DEF GeneratePair, Goto, TypeOK
    <3> QED
      BY <1>8, <3>1, <3>2
  <2>3. /\ DOMAIN refreshInfo \subseteq DOMAIN refreshInfo'
        /\ \A r \in DOMAIN refreshInfo : refreshInfo'[r] = refreshInfo[r]
        /\ \A r \in DOMAIN refreshInfo' \ DOMAIN refreshInfo :
             refreshInfo'[r].access = access /\ refreshInfo'[r].client = access.client
    <3>1. CASE GenerateAccessOnly(w)
      BY <3>1 DEF GenerateAccessOnly, storeVars
    <3>2. CASE GeneratePair(w)
      BY <3>2 DEF GeneratePair
    <3> QED
      BY <1>8, <3>1, <3>2
  <2> HIDE DEF access
  <2>4. \A r \in DOMAIN refreshInfo' :
          refreshInfo'[r].access \in Signable /\ refreshInfo'[r].access.client = refreshInfo'[r].client
    BY <2>1, <2>3 DEF Owned
  <2>5. \A v \in Worker : pc'[v] = "storeAccess" => pair'[v].access \in Signable
    BY <2>1, <2>2 DEF Owned, TypeOK
  <2>6. ASSUME NEW v \in Worker, pc'[v] \in {"deleteRefresh", "deleteAccess"}
        PROVE  Entitled(req[v])'
    <3>1. pc[v] = pc'[v] /\ req'[v] = req[v] /\ Entitled(req[v])
      BY <2>2, <2>6 DEF Owned, TypeOK
    <3>2. req[v].token \in RefreshToken => req[v].token \in DOMAIN refreshInfo
      BY <2>6, <3>1 DEF Shape, RequestShape
    <3> QED
      BY <2>3, <3>1, <3>2 DEF Entitled, Signable
  <2> QED
    BY <2>2, <2>4, <2>5, <2>6, <1>2 DEF Owned, Signable
<1>9. ASSUME NEW w \in Worker, StoreAccess(w) PROVE Owned'
  BY <1>9, <1>1, <1>2 DEF StoreAccess, Goto, Owned, TypeOK
<1>10. CASE Collect
  BY <1>10, <1>1, <1>2 DEF Collect, CollectCode, CollectAccess, CollectRefresh, AccessTokensWithout,
     Restrict, workerVars, Owned
<1>11. CASE Tick
  <2>1. now' \in 0 .. MaxTime
    BY <1>11, <1>2, GrantsAssumption DEF Tick
  <2> QED
    BY <2>1, <1>11, <1>1, <1>2 DEF Tick, storeVars, workerVars, Owned
<1>12. CASE UNCHANGED vars
  BY <1>12, <1>1, <1>2 DEF vars, storeVars, workerVars, Owned
<1> QED
  BY <1>3, <1>4, <1>5, <1>6, <1>7, <1>8, <1>9, <1>10, <1>11, <1>12 DEF Next, Serve

\* What TokenLife sees of Grants.
Valid == {a \in DOMAIN accessTokens : JWTValid(a)}
Lapsed == {a \in Signable : ~JWTValid(a)}
Deleting(w) == pc[w] = "deleteAccess"

\* Those being withdrawn are the access tokens that requests are about to delete,
\* every one by its own client.
OwnersWithdraw ==
    /\ Withdrawing = {AccessToDelete(req[w]) : w \in {v \in Worker : Deleting(v)}}
    /\ Withdrawing \subseteq Signable

LEMMA WithdrawingIs == TypeInv /\ Owned => OwnersWithdraw
BY EntitledToDelete DEF OwnersWithdraw, Withdrawing, Deleting

\* ... after a step as before it.
LEMMA WithdrawingIsNext == TypeInv' /\ Owned' => OwnersWithdraw'
BY WithdrawingIs, PTL

\* A deletion that stays under way is of the same token.
LEMMA SameDeletion ==
    ASSUME TypeInv, NEW v \in Worker, pc[v] \in {"deleteRefresh", "deleteAccess"}, req'[v] = req[v],
           \A r \in DOMAIN refreshInfo : refreshInfo'[r] = refreshInfo[r]
    PROVE  AccessToDelete(req[v])' = AccessToDelete(req[v])
<1>1. req[v].token \in RefreshToken => req[v].token \in DOMAIN refreshInfo
  BY DEF TypeInv, Shape, RequestShape
<1> QED
  BY <1>1 DEF AccessToDelete

\* A step in which no request comes to such a deletion or ends one does not show in
\* what is being withdrawn.
LEMMA SameWithdrawing ==
    ASSUME TypeInv, Owned, TypeInv', Owned',
           \A v \in Worker : Deleting(v)' <=> Deleting(v),
           \A v \in Worker : Deleting(v) => req'[v] = req[v],
           \A r \in DOMAIN refreshInfo : refreshInfo'[r] = refreshInfo[r]
    PROVE  Withdrawing' = Withdrawing
<1>1. \A v \in Worker : Deleting(v) => AccessToDelete(req[v])' = AccessToDelete(req[v])
  BY SameDeletion DEF Deleting
<1>2. Withdrawing = {AccessToDelete(req[w]) : w \in {v \in Worker : Deleting(v)}}
  BY WithdrawingIs DEF OwnersWithdraw
<1>3. Withdrawing' = {AccessToDelete(req[w])' : w \in {v \in Worker : Deleting(v)'}}
  BY WithdrawingIsNext DEF OwnersWithdraw
<1> QED
  BY <1>1, <1>2, <1>3

\* What stores and lookups see of an access token's expiry does not contradict its own:
\* an entry that has expired is of a token whose time is up.
LEMMA RemovedHasLapsed ==
    ASSUME TypeInv, BackedInv, NEW a, ~AccessFound(a) \/ ~JWTValid(a), UNCHANGED now,
           accessTokens' = AccessTokensWithout(a)
    PROVE  Valid' = Valid
<1>1. a \in DOMAIN accessTokens => ~JWTValid(a)
  BY StoredLongEnough DEF ValidMeansStored
<1>2. DOMAIN accessTokens' = DOMAIN accessTokens \ {a}
  BY DEF AccessTokensWithout, Restrict
<1>3. \A b : JWTValid(b)' <=> JWTValid(b)
  BY DEF JWTValid, Ticks
<1> QED
  BY <1>1, <1>2, <1>3 DEF Valid

LEMMA StepLife ==
    ASSUME TypeInv, BackedInv, Owned, [Next]_vars
    PROVE  Life!Next \/ UNCHANGED Life!lifeVars
<1> DEFINE Implemented == Life!Next \/ UNCHANGED Life!lifeVars
<1>1. TypeInv' /\ Owned'
  BY NextTypeInv, NextOwned
<1>2. UNCHANGED now => \A a : JWTValid(a)' <=> JWTValid(a)
  BY DEF JWTValid, Ticks
<1>3. UNCHANGED now => UNCHANGED Lapsed
  BY <1>2 DEF Lapsed, Signable
<1>4. UNCHANGED <<now, accessTokens>> => UNCHANGED Valid
  BY <1>2 DEF Valid
<1>5. ASSUME UNCHANGED now, UNCHANGED Valid, UNCHANGED Withdrawing PROVE Implemented
  BY <1>3, <1>5 DEF Life!lifeVars, Valid, Lapsed
\* Most steps are about other tokens, or none.
<1>6. ASSUME NEW w \in Worker, UNCHANGED now, UNCHANGED Valid, ~Deleting(w), ~Deleting(w)',
             \A v \in Worker \ {w} : pc'[v] = pc[v] /\ req'[v] = req[v],
             \A r \in DOMAIN refreshInfo : refreshInfo'[r] = refreshInfo[r]
      PROVE  Implemented
  <2>1. UNCHANGED Withdrawing
    BY <1>1, <1>6, SameWithdrawing DEF Deleting
  <2> QED
    BY <2>1, <1>5, <1>6
\* A request comes to a deletion: TokenLife's Ask.
<1>7. ASSUME NEW w \in Worker, UNCHANGED <<now, refreshInfo, req>>, UNCHANGED Valid,
             pc[w] = "deleteRefresh" \/ Entitled(req[w]), ~Deleting(w), Deleting(w)',
             \A v \in Worker \ {w} : pc'[v] = pc[v]
      PROVE  Implemented
  <2> DEFINE a == AccessToDelete(req[w])
  <2>1. \A v \in Worker : AccessToDelete(req[v])' = AccessToDelete(req[v])
    BY <1>7 DEF AccessToDelete
  <2>2. Withdrawing = {AccessToDelete(req[v]) : v \in {u \in Worker : Deleting(u)}}
    BY WithdrawingIs DEF OwnersWithdraw
  <2>3. Withdrawing' = {AccessToDelete(req[v])' : v \in {u \in Worker : Deleting(u)'}}
        /\ Withdrawing' \subseteq Signable
    BY <1>1, WithdrawingIsNext DEF OwnersWithdraw
  <2>4. \A v \in Worker : Deleting(v)' <=> Deleting(v) \/ v = w
    BY <1>7 DEF Deleting
  <2> HIDE DEF a
  <2>5. Withdrawing' = Withdrawing \cup {a}
    BY <2>1, <2>2, <2>3, <2>4 DEF a
  <2>6. a \in Signable
    BY <2>3, <2>5
  <2>7. Life!Ask
    BY <2>5, <2>6, <1>3, <1>7 DEF Life!Ask, Valid, Lapsed
  <2> QED
    BY <2>7 DEF Life!Next
<1>8. CASE Authorize
  <2>1. UNCHANGED <<now, accessTokens, refreshInfo, pc, req>>
    BY <1>8 DEF Authorize, workerVars
  <2>2. UNCHANGED Withdrawing
    BY <2>1 DEF Withdrawing, AccessToDelete
  <2> QED
    BY <2>1, <2>2, <1>4, <1>5
<1>9. ASSUME NEW w \in Worker, Arrive(w) PROVE Implemented
  <2>1. PICK request \in Request, label \in {"getCode", "generate", "getRefresh", "getAccess"} :
          ArrivesAs(w, request, label)
    BY <1>9, ArriveRequest DEF TypeInv
  <2>2. /\ UNCHANGED <<now, accessTokens, refreshInfo>> /\ ~Deleting(w) /\ ~Deleting(w)'
        /\ \A v \in Worker \ {w} : pc'[v] = pc[v] /\ req'[v] = req[v]
    BY <2>1 DEF ArrivesAs, storeVars, Deleting, TypeInv, TypeOK
  <2> QED
    BY <2>2, <1>4, <1>6
<1>10. ASSUME NEW w \in Worker,
              \/ GetCode(w) \/ DeleteCode(w) \/ GetRefresh(w) \/ GenerateAccessOnly(w)
              \/ GeneratePair(w) \/ GenerateFails(w) \/ StoreRefresh(w) \/ Respond(w)
       PROVE  Implemented
  <2>1. /\ UNCHANGED <<now, accessTokens>> /\ ~Deleting(w) /\ ~Deleting(w)'
        /\ \A v \in Worker \ {w} : pc'[v] = pc[v] /\ req'[v] = req[v]
        /\ \A r \in DOMAIN refreshInfo : refreshInfo'[r] = refreshInfo[r]
    <3>1. CASE GetCode(w) \/ DeleteCode(w) \/ StoreRefresh(w)
      BY <3>1 DEF GetCode, DeleteCode, StoreRefresh, Goto, Deleting, TypeInv, TypeOK
    <3>2. CASE GetRefresh(w)
      BY <3>2, CheckedIsEntitled DEF GetRefresh, Goto, Deleting, TypeInv, TypeOK
    <3>3. CASE GenerateAccessOnly(w) \/ GenerateFails(w)
      BY <3>3 DEF GenerateAccessOnly, GenerateFails, Goto, Deleting, storeVars, TypeInv, TypeOK
    <3>4. CASE GeneratePair(w)
      BY <3>4 DEF GeneratePair, Goto, Deleting, TypeInv, TypeOK
    <3>5. CASE Respond(w)
      BY <3>5 DEF Respond, Goto, Deleting, storeVars, TypeInv, TypeOK
    <3> QED
      BY <1>10, <3>1, <3>2, <3>3, <3>4, <3>5
  <2> QED
    BY <2>1, <1>4, <1>6
<1>11. ASSUME NEW w \in Worker, DeleteRefresh(w) PROVE Implemented
  <2>1. /\ UNCHANGED <<now, accessTokens, refreshInfo, req>> /\ pc[w] = "deleteRefresh"
        /\ ~Deleting(w) /\ Deleting(w)' /\ \A v \in Worker \ {w} : pc'[v] = pc[v]
    BY <1>11 DEF DeleteRefresh, Goto, Deleting, TypeInv, TypeOK
  <2> QED
    BY <2>1, <1>4, <1>7
<1>12. ASSUME NEW w \in Worker, GetAccess(w) PROVE Implemented
  <2>1. /\ UNCHANGED <<now, refreshInfo, req>> /\ pc[w] = "getAccess"
        /\ pc' = [pc EXCEPT ![w] = AfterGetAccess(req[w])]
        /\ accessTokens' = AccessTokensAfterGet(req[w].token)
    BY <1>12 DEF GetAccess, Goto
  <2>2. ~Deleting(w) /\ \A v \in Worker \ {w} : pc'[v] = pc[v] /\ req'[v] = req[v]
    BY <2>1 DEF Deleting, TypeInv, TypeOK
  <2>3. UNCHANGED Valid
    <3>1. CASE AccessFound(req[w].token)
      BY <2>1, <3>1, <1>4 DEF AccessTokensAfterGet
    <3>2. CASE ~AccessFound(req[w].token)
      BY <2>1, <3>2, RemovedHasLapsed DEF AccessTokensAfterGet
    <3> QED
      BY <3>1, <3>2
  <2>4. CASE Deleting(w)'
    <3>1. Entitled(req[w])
      BY <2>1, <2>4, CheckedIsEntitled DEF Deleting, TypeInv, TypeOK
    <3> QED
      BY <3>1, <2>1, <2>2, <2>3, <2>4, <1>7
  <2>5. CASE ~Deleting(w)'
    BY <2>1, <2>2, <2>3, <2>5, <1>6
  <2> QED
    BY <2>4, <2>5
\* The deletion itself; others may be about to delete the same token.
<1>13. ASSUME NEW w \in Worker, DeleteAccess(w) PROVE Implemented
  <2> DEFINE a == AccessToDelete(req[w])
  <2>1. /\ UNCHANGED <<now, refreshInfo, req>> /\ Deleting(w) /\ ~Deleting(w)'
        /\ \A v \in Worker \ {w} : pc'[v] = pc[v]
        /\ accessTokens' = AccessTokensWithout(a)
    BY <1>13 DEF DeleteAccess, Goto, Deleting, TypeInv, TypeOK
  <2>2. Withdrawing = {AccessToDelete(req[v]) : v \in {u \in Worker : Deleting(u)}}
    BY WithdrawingIs DEF OwnersWithdraw
  <2>3. Withdrawing' = {AccessToDelete(req[v])' : v \in {u \in Worker : Deleting(u)'}}
    BY <1>1, WithdrawingIsNext DEF OwnersWithdraw
  <2>4. \A v \in Worker : AccessToDelete(req[v])' = AccessToDelete(req[v])
    BY <2>1 DEF AccessToDelete
  <2>5. \A v \in Worker : Deleting(v)' <=> Deleting(v) /\ v # w
    BY <2>1 DEF Deleting
  <2>6. DOMAIN accessTokens' = DOMAIN accessTokens \ {a}
    BY <2>1 DEF AccessTokensWithout, Restrict
  <2> HIDE DEF a
  <2>7. a \in Withdrawing /\ Withdrawing' \in {Withdrawing, Withdrawing \ {a}}
    BY <2>1, <2>2, <2>3, <2>4, <2>5 DEF a
  <2>8. Valid' = Valid \ {a}
    BY <2>1, <2>6, <1>2 DEF Valid
  <2>9. Life!Withdraw
    BY <2>1, <2>7, <2>8, <1>3 DEF Life!Withdraw, Valid, Lapsed
  <2> QED
    BY <2>9 DEF Life!Next
\* An access token is stored, perhaps in the place of an equal one.
<1>14. ASSUME NEW w \in Worker, StoreAccess(w) PROVE Implemented
  <2> DEFINE a == pair[w].access
  <2>1. /\ UNCHANGED <<now, refreshInfo, req>> /\ ~Deleting(w) /\ ~Deleting(w)'
        /\ \A v \in Worker \ {w} : pc'[v] = pc[v] /\ req'[v] = req[v]
        /\ DOMAIN accessTokens' = DOMAIN accessTokens \cup {a}
        /\ pc[w] = "storeAccess"
    BY <1>14 DEF StoreAccess, Goto, Deleting, TypeInv, TypeOK
  <2>2. a \in Signable
    BY <2>1 DEF Owned
  <2> HIDE DEF a
  <2>3. CASE JWTValid(a)
    <3>1. Valid' = Valid \cup {a}
      BY <2>1, <2>3, <1>2 DEF Valid
    <3>2. Withdrawing' = Withdrawing
      BY <2>1, <1>1, SameWithdrawing DEF Deleting
    <3>3. a \in Signable \ Lapsed
      BY <2>2, <2>3 DEF Lapsed
    <3>4. Life!Issue
      BY <3>1, <3>2, <3>3, <2>1, <1>3 DEF Life!Issue, Valid, Lapsed
    <3> QED
      BY <3>4 DEF Life!Next
  <2>4. CASE ~JWTValid(a)
    <3>1. Valid' = Valid
      BY <2>1, <2>4, <1>2 DEF Valid
    <3> QED
      BY <3>1, <2>1, <1>6
  <2> QED
    BY <2>3, <2>4
<1>15. CASE Collect
  <2>1. /\ UNCHANGED <<now, refreshInfo, pc, req>>
    BY <1>15 DEF Collect, CollectCode, CollectAccess, CollectRefresh, workerVars
  <2>2. UNCHANGED Withdrawing
    BY <2>1 DEF Withdrawing, AccessToDelete
  <2>3. CASE CollectAccess
    <3>1. PICK a \in DOMAIN accessTokens :
            Expired(accessTokens[a]) /\ accessTokens' = AccessTokensWithout(a)
      BY <2>3 DEF CollectAccess
    <3>2. UNCHANGED Valid
      BY <2>1, <3>1, RemovedHasLapsed DEF AccessFound
    <3> QED
      BY <2>1, <2>2, <3>2, <1>5
  <2>4. CASE CollectCode \/ CollectRefresh
    <3>1. UNCHANGED accessTokens
      BY <2>4 DEF CollectCode, CollectRefresh
    <3> QED
      BY <2>1, <2>2, <3>1, <1>4, <1>5
  <2> QED
    BY <1>15, <2>3, <2>4 DEF Collect
<1>16. CASE Tick
  <2>1. UNCHANGED <<accessTokens, refreshInfo, pc, req>> /\ now' = now + 1
    BY <1>16 DEF Tick, storeVars, workerVars
  <2>2. UNCHANGED Withdrawing
    BY <2>1 DEF Withdrawing, AccessToDelete
  <2>3. \A a \in Signable : ~JWTValid(a) => ~JWTValid(a)'
    <3>1. now \in Nat /\ \A a \in Signable : Ticks(a.iat + AccessExpiry) \in Nat
      BY GrantsAssumption DEF Owned, Signable, Ticks
    <3>2. \A a \in Signable : Ticks(a.iat + AccessExpiry)' = Ticks(a.iat + AccessExpiry)
      BY DEF Ticks
    <3> QED
      BY <2>1, <3>1, <3>2 DEF JWTValid
  <2>4. DOMAIN accessTokens \subseteq Signable
    BY DEF Owned
  <2>5. /\ Lapsed' \in SUBSET Signable /\ Lapsed \subseteq Lapsed'
        /\ Valid' = Valid \ Lapsed'
    BY <2>1, <2>3, <2>4 DEF Valid, Lapsed, Signable
  <2>6. Life!Lapse
    BY <2>2, <2>5 DEF Life!Lapse, Valid, Lapsed
  <2> QED
    BY <2>6 DEF Life!Next
<1>17. CASE UNCHANGED vars
  <2>1. UNCHANGED <<now, accessTokens, refreshInfo, pc, req>>
    BY <1>17 DEF vars, storeVars, workerVars
  <2>2. UNCHANGED Withdrawing
    BY <2>1 DEF Withdrawing, AccessToDelete
  <2> QED
    BY <2>1, <2>2, <1>4, <1>5
<1> QED
  BY <1>8, <1>9, <1>10, <1>11, <1>12, <1>13, <1>14, <1>15, <1>16, <1>17 DEF Next, Serve

\* An access token ends by its time or by its own client's wish, for any number of
\* requests, sweeps and tokens that share a string: no lookup, sweep, overwriting or
\* other client's request ends one before (grant.go, server.go, store.go).
THEOREM TokenLifeImplemented == Spec => TokenLifeSpec
<1>1. Init => Owned
  BY GrantsAssumption DEF Init, Owned
<1>2. Init => Life!Init
  <2> SUFFICES ASSUME Init PROVE Life!Init
    OBVIOUS
  <2>1. Valid = {} /\ Withdrawing = {}
    BY DEF Init, Valid, Withdrawing
  <2>2. ASSUME NEW a \in Signable PROVE JWTValid(a)
    <3>1. a.iat \in Nat /\ TicksPerSecond \in Nat \ {0} /\ AccessExpiry \in Nat \ {0}
      BY GrantsAssumption DEF Signable
    <3>2. a.iat + AccessExpiry \in Nat \ {0}
      BY <3>1
    <3>3. \A m, n \in Nat \ {0} : m * n > 0
      BY Z3
    <3> QED
      BY <3>1, <3>2, <3>3 DEF Init, JWTValid, Ticks
  <2> QED
    BY <2>1, <2>2 DEF Life!Init, Valid, Lapsed
<1>3. TypeInv /\ Owned /\ [Next]_vars => Owned'
  BY NextOwned
<1>4. TypeInv /\ BackedInv /\ Owned /\ [Next]_vars => Life!Next \/ UNCHANGED Life!lifeVars
  BY StepLife
<1> QED
  BY <1>1, <1>2, <1>3, <1>4, BackedInvariant, PTL DEF Spec, TokenLifeSpec, Life!Spec

=============================================================================
