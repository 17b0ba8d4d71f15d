-------------------------- MODULE GrantsProperties --------------------------
(***************************************************************************)
(* What must hold of Grants.                                               *)
(***************************************************************************)
EXTENDS Grants, FiniteSets

\* A refresh token is usable only after the credential it was traded for is
\* gone from the stores: the replacement and what it replaces never both work,
\* even when several requests present the old credential at once (grant.go
\* deletes at 112 and 248 before issueTokenPair stores at 82).
ReplacedIsGone ==
    \A r \in refreshTokens : lineage[r].from \notin codes \cup refreshTokens

\* One request slot never redeems the same credential twice: replaying a code
\* or a rotated refresh token after the first answer always fails.  It bounds
\* the damage of the Get/Delete window (grant.go:107-112 and 226-248): at most
\* as many pairs from one credential as requests were in flight at once.
OncePerWorker ==
    \A r, s \in DOMAIN lineage :
        lineage[r] = lineage[s] /\ lineage[r].from # NoToken => r = s

\* An attempt takes the code out of the store before it checks anything about it,
\* and whether its checks fail, its tokens cannot be generated or it succeeds
\* (grant.go:112 before 114-130).  That it stays out is part of LedgerSpec; so no
\* request that looks the code up from then on redeems it.  One that has looked it
\* up before still may: see CodeSingleUse.
AttemptSpendsCode ==
    \A w \in Worker :
        req[w].kind = "authorization_code" /\ pc[w] \in {"generate", "ok", "error"} =>
            req[w].code \notin codes

\* README:724, "Authorization code single-use": one code, one token pair.
CodeSingleUse ==
    \A r, s \in DOMAIN lineage :
        lineage[r].from = lineage[s].from /\ lineage[r].from \in Code => r = s

\* README:726 and skill/SKILL.md:656: a refresh token is spent by its first exchange.
RefreshSingleUse ==
    \A r, s \in DOMAIN lineage :
        lineage[r].from = lineage[s].from /\ lineage[r].from \in RefreshToken => r = s

\* No access token of a user stays usable by itself: while it lives, so does a
\* refresh token whose revocation or rotation deletes it and which expires no
\* earlier; the exceptions are the windows of a request that is about to store
\* that refresh token or to delete that access token.  skill/SKILL.md:680, "revoking a
\* refresh token also revokes its access token"; README:96 for rotation.  Two
\* pairs issued in one second share the access token, so this is not a matter
\* of one pair alone.
NoOrphanAccess ==
    \A a \in DOMAIN accessTokens :
        a.user # NoUser /\ ~Expired(accessTokens[a]) =>
            \/ \E r \in refreshTokens :
                 /\ refreshInfo[r].access = a
                 /\ refreshInfo[r].expiresAt >= accessTokens[a]
            \/ \E w \in Worker : pc[w] = "storeRefresh" /\ pair[w].access = a
            \/ \E w \in Worker : pc[w] = "deleteAccess" /\ AccessToDelete(req[w]) = a

\* Through any number of exchanges a token keeps the user and the client it was
\* first granted to, and its scope never grows (skill/SKILL.md:650).  A client with
\* registered scopes needs no exception; for one registered without any, a grant
\* with the empty scope string is no limit (store.go:305).
GrantNeverWidens ==
    \A r \in DOMAIN lineage :
        LET old == lineage[r].from
            new == refreshInfo[r]
            was == IF old \in Code THEN codeInfo[old] ELSE refreshInfo[old] IN
        old # NoToken =>
            /\ new.client = was.client /\ new.user = was.user
            /\ \/ splitSpaces(new.scope) \subseteq splitSpaces(was.scope)
               \/ RegisteredScopes[new.client] = {} /\ was.scope = NoScope

\* No token outside the client's registration, by any grant or chain of grants
\* (README:727), and openid only where there is a user to speak of
\* (grant.go:194 checks the scope as resolved, not as requested).
ScopeWithinRegistration ==
    /\ \A a \in DOMAIN accessTokens :
         /\ RegisteredScopes[a.client] # {} =>
              /\ a.scope # NoScope
              /\ splitSpaces(a.scope) \subseteq RegisteredScopes[a.client]
         /\ ContainsScope(a.scope, OpenID) => a.user # NoUser
    /\ \A c \in codes :
         RegisteredScopes[codeInfo[c].client] # {} =>
             splitSpaces(codeInfo[c].scope) \subseteq RegisteredScopes[codeInfo[c].client]

\* ValidateAccessToken: the JWT's own exp claim, in whole seconds.
JWTValid(a) == now < Ticks(a.iat + AccessExpiry)

\* The store entry of an access token outlives the token's exp claim, so
\* ValidateBearerToken rejects a valid JWT only because it was revoked, and its
\* lookup never deletes (server.go:86-102 with the truncation at token.go:41).
\* Not obvious: the entry may have been written by another request of the same
\* second, with another expiry.
ValidMeansStored ==
    \A a \in DOMAIN accessTokens : JWTValid(a) => AccessFound(a)

\* After a revocation of its own refresh token is answered with 200, the token
\* is gone, whatever ran in between; with no hint or the right one.
RevocationEffective ==
    \A w \in Worker :
        LET q == req[w] IN
        /\ pc[w] = "ok" /\ q.kind = "revoke" /\ q.token \in RefreshToken
        /\ q.hint # "access_token" /\ refreshInfo[q.token].client = q.client
        => q.token \notin refreshTokens

-----------------------------------------------------------------------------
(* The abstract specification.  A refresh token counts from the moment it  *)
(* is in the store; its record exists before, while a request holds it.    *)

InFlight == {pair[w].refresh : w \in {v \in Worker : pc[v] \in {"storeAccess", "storeRefresh"}}}
Stored == DOMAIN codeInfo \cup (DOMAIN refreshInfo \ InFlight)

Ledger == INSTANCE CredentialLedger WITH
    NoCredential <- NoToken,
    MaxHeirs <- Cardinality(Worker),
    live <- codes \cup refreshTokens,
    retired <- Stored \ (codes \cup refreshTokens),
    source <- [c \in Credential |-> IF c \in Stored \cap RefreshToken
                                    THEN lineage[c].from ELSE NoToken]

\* The stores and handlers implement the ledger, with as many successors to a
\* credential as there are request slots: one, if requests are served one at a
\* time.
LedgerSpec == Ledger!Spec

\* The strings that can be signed before the clock stops, and those that a request
\* is about to delete which its own client holds.
Signable ==
    [client : Client, user : User \cup {NoUser}, scope : ScopeString,
     iat : 0 .. (MaxTime \div TicksPerSecond)]
Withdrawing ==
    {AccessToDelete(req[w]) : w \in {v \in Worker :
        pc[v] = "deleteAccess" /\ AccessToDelete(req[v]).client = req[v].client}}

Life == INSTANCE TokenLife WITH
    Token <- Signable,
    valid <- {a \in DOMAIN accessTokens : JWTValid(a)},
    leaving <- Withdrawing,
    lapsed <- {a \in Signable : ~JWTValid(a)}

\* An access token stops working for two reasons alone: its time is up, or the client
\* it was issued to revokes or rotates it, be it through any of the refresh tokens
\* that name it; no lookup, sweep, overwriting or request of another client ends it
\* before (grant.go:249, server.go:109-147, store.go:149-200).
TokenLifeSpec == Life!Spec

-----------------------------------------------------------------------------
(* Claims of the documentation that the code does not keep *)

\* README:96 "old refresh token + old access token deleted on exchange; new
\* pair created": once the new pair is answered, the old access token is gone.
RotationRevokesOldAccess ==
    \A w \in Worker :
        pc[w] = "ok" /\ req[w].kind = "refresh_token" =>
            refreshInfo[req[w].token].access \notin DOMAIN accessTokens

\* skill/SKILL.md:678, the hint "helps the server look up faster", and
\* handler/revoke.go:105, 200 means "Token revoked or not found".
AnsweredMeansRevoked ==
    \A w \in Worker :
        LET q == req[w] IN
        /\ pc[w] = "ok" /\ q.kind = "revoke" /\ q.token \in RefreshToken
        /\ refreshInfo[q.token].client = q.client
        => q.token \notin refreshTokens

=============================================================================
