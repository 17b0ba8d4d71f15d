------------------------------ MODULE IDTokens ------------------------------
(***************************************************************************)
(* What a client is told about a user: the ID tokens of the grants and the *)
(* answers of the UserInfo endpoint (internal/server: grant.go, token.go;  *)
(* internal/service/userinfo_service.go), on top of the logins and logouts *)
(* of Sessions, whose codes the grants begin with.                         *)
(*                                                                         *)
(* That a code or a refresh token works once, that tokens expire and may   *)
(* be revoked is the matter of Grants and Bearer.  Here every credential   *)
(* keeps working, so whatever those withhold is allowed as well: what is   *)
(* told never widens by that.  A client exchanges a code while it is the   *)
(* latest; later it would be told the same, which depends on the code      *)
(* alone.                                                                  *)
(***************************************************************************)
EXTENDS Sessions, Scopes

CONSTANTS
    Client,
    RegisteredScopes,  \* Client.Scopes
    AllowedGrants,     \* Client.AllowedGrantTypes
    RequestOf,         \* granted authorization request |-> its client and scope
    Profile,           \* user |-> which of name and email its record has
    NoGrant,           \* no tokens yet
    Nothing            \* an answer that says nothing of a user

GrantType == {"authorization_code", "password", "client_credentials", "refresh_token"}

\* What Server.Authorize grants has passed ValidateClientScope.
GrantedURI == {uri \in AuthorizeURI : VerdictOf[uri] = "granted"}

ASSUME IDTokensAssumption ==
    /\ RegisteredScopes \in [Client -> SUBSET ScopeName]
    /\ AllowedGrants \in [Client -> SUBSET GrantType]
    /\ RequestOf \in [GrantedURI -> [client : Client, scope : ScopeString]]
    /\ \A uri \in GrantedURI :
         LET q == RequestOf[uri] IN ScopePermitted(RegisteredScopes[q.client], q.scope)
    /\ Profile \in [User -> SUBSET {"name", "email"}]
    /\ NoUser \notin User

VARIABLES
    grant,  \* the tokens the client holds: whose they are and their scope, and
            \* (history) by what grant, for whom and with what scope they began
    told    \* history: what the latest answer says of a user: how it came, the
            \* user, the auth_time of an ID token, the claims about the user

clientVars == <<grant, told>>

Origin == [via : GrantType, user : User \cup {NoUser}, scope : ScopeString]
Grant ==
    [client : Client, user : User \cup {NoUser}, scope : ScopeString,
     refreshable : BOOLEAN, origin : Origin]

-----------------------------------------------------------------------------
(* ID tokens *)

EmailClaims(user) ==
    IF "email" \in Profile[user] THEN {"email", "email_verified"} ELSE {}

\* The claims a scope stands for, at both endpoints.
UserClaims_UnfilteredFault(user, scope) == EmailClaims(user) \cup (Profile[user] \cap {"name"})
UserClaims(user, scope) ==
    (IF ContainsScope(scope, "email") THEN EmailClaims(user) ELSE {})
        \cup (IF ContainsScope(scope, "profile") THEN Profile[user] \cap {"name"} ELSE {})

ShouldIncludeIDToken(scope, user) == ContainsScope(scope, OpenID) /\ user # NoUser

\* The id_token of a token response, if it has one.
IDToken(via, user, scope, authTime) ==
    IF ShouldIncludeIDToken(scope, user)
    THEN [via |-> via, sub |-> user, auth_time |-> authTime, claims |-> UserClaims(user, scope)]
    ELSE Nothing

\* The tokens of a grant; client credentials get no refresh token.
Begin(via, client, user, scope) ==
    grant' = [client |-> client, user |-> user, scope |-> scope,
              refreshable |-> via # "client_credentials",
              origin |-> [via |-> via, user |-> user, scope |-> scope]]

-----------------------------------------------------------------------------
(* The client *)

Exchange ==
    /\ code # NoCode
    /\ LET q == RequestOf[code.uri.request]
           scope == ResolvedScope(RegisteredScopes[q.client], q.scope) IN
       /\ "authorization_code" \in AllowedGrants[q.client]
       /\ Begin("authorization_code", q.client, code.user, scope)
       /\ told' = IDToken("authorization_code", code.user, scope, code.authTime)
    /\ UNCHANGED vars

Password ==
    \E client \in Client, user \in User, requested \in ScopeString :
        LET scope == ResolvedScope(RegisteredScopes[client], requested) IN
        /\ "password" \in AllowedGrants[client]
        /\ ScopePermitted(RegisteredScopes[client], requested)
        /\ Begin("password", client, user, scope)
        /\ told' = IDToken("password", user, scope, now)
        /\ UNCHANGED vars

ClientCredentials ==
    \E client \in Client, requested \in ScopeString :
        LET scope == ResolvedScope(RegisteredScopes[client], requested) IN
        /\ "client_credentials" \in AllowedGrants[client]
        /\ ScopePermitted(RegisteredScopes[client], requested)
        /\ ~ContainsScope(scope, OpenID)
        /\ Begin("client_credentials", client, NoUser, scope)
        /\ told' = Nothing
        /\ UNCHANGED vars

\* Whatever scope the tokens had when they were granted, the present one limits
\* the next.
Refresh ==
    \E requested \in ScopeString :
        LET registered == RegisteredScopes[grant.client]
            wanted == IF requested = NoScope THEN grant.scope ELSE requested
            scope == ResolvedScope(registered, wanted) IN
        /\ grant # NoGrant /\ grant.refreshable
        /\ "refresh_token" \in AllowedGrants[grant.client]
        /\ ScopePermitted(registered, wanted)
        /\ requested # NoScope => isScopeNarrowed(scope, grant.scope)
        /\ grant' = [grant EXCEPT !.scope = scope]
        /\ told' = IDToken("refresh_token", grant.user, scope, now)
        /\ UNCHANGED vars

\* GetUserInfo with the access token.
UserInfo ==
    /\ grant # NoGrant
    /\ ContainsScope(grant.scope, OpenID)
    /\ grant.user \in User
    /\ told' = [via |-> "userinfo", sub |-> grant.user, auth_time |-> 0,
                claims |-> UserClaims(grant.user, grant.scope)]
    /\ UNCHANGED vars
    /\ UNCHANGED grant

-----------------------------------------------------------------------------

ClientInit == Init /\ grant = NoGrant /\ told = Nothing

ClientNext ==
    \/ Next /\ UNCHANGED clientVars
    \/ Exchange \/ Password \/ ClientCredentials \/ Refresh \/ UserInfo

ClientSpec == ClientInit /\ [][ClientNext]_<<vars, clientVars>>

-----------------------------------------------------------------------------
(* Properties *)

\* No ID token and no UserInfo answer, after any number of refreshes, says more
\* than the scope of the grant they began with stands for, nor anything without
\* openid, nor speaks of anyone else (token.go:66-75, userinfo_service.go:25-41,
\* grant.go:230-262).  The empty scope string of a client registered without
\* scopes is no limit (store.go:305).
Unlimited(g) == RegisteredScopes[g.client] = {} /\ g.origin.scope = NoScope
DisclosedAsGranted ==
    told # Nothing =>
        /\ told.sub = grant.origin.user /\ told.sub \in User
        /\ Unlimited(grant) \/
             /\ ContainsScope(grant.origin.scope, OpenID)
             /\ "email" \in told.claims => ContainsScope(grant.origin.scope, "email")
             /\ "name" \in told.claims => ContainsScope(grant.origin.scope, "profile")

-----------------------------------------------------------------------------
(* A claim of the documentation that the code does not keep *)

\* skill/SKILL.md:490: auth_time is the time at which the user authenticated; for
\* tokens that began with a code, the time of a login of that very user, whatever
\* handlers of other tabs do between the two Sets of a login (login.go:61-63) and
\* the two Gets before a code (handler.go:78-85), and after any refresh.
AuthTimeIsLogin ==
    told # Nothing /\ told.via # "userinfo" /\ grant.origin.via = "authorization_code" =>
        <<told.sub, told.auth_time>> \in logins

=============================================================================
