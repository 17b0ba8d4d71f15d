--------------------------- MODULE IDTokensProofs ---------------------------
(***************************************************************************)
(* What a client is told about a user, for any tabs, users, requests,      *)
(* clients and scopes.                                                     *)
(*                                                                         *)
(* DisclosedAsGranted is inductive once it is known how the scope of the   *)
(* tokens relates to that of the grant they began with (Within), that only *)
(* a client registered without scopes ever has the empty scope string,     *)
(* which isScopeNarrowed takes for no limit (Known), and that codes are    *)
(* for requests that were granted (Typed).                                 *)
(***************************************************************************)
EXTENDS IDTokens, SessionsProofs

\* The steps of a client leave the browser and its session alone.
LEMMA ClientStep == ClientNext \/ UNCHANGED <<vars, clientVars>> => [Next]_vars
BY DEF ClientNext, Exchange, Password, ClientCredentials, Refresh, UserInfo

LEMMA SessionsOfClients == ClientSpec => Spec
<1>1. ClientInit => Init
    BY DEF ClientInit
<1>2. [ClientNext]_<<vars, clientVars>> => [Next]_vars
    BY ClientStep
<1> QED
    BY <1>1, <1>2, PTL DEF ClientSpec, Spec

-----------------------------------------------------------------------------
(* Codes are for requests that were granted *)

Requested(t) == tab[t].at \in {"authorize", "saveReturn", "issue"} => tab[t].uri \in URI

CodeGranted ==
    code # NoCode => code.uri \in URI /\ code.uri.request \in GrantedURI

Typed ==
    /\ TypeOK
    /\ \A t \in Tab : LoginNamesUser(t) /\ Requested(t)
    /\ CodeGranted

\* A code is for a request that Server.Authorize grants, whatever the login gate
\* has saved before it was looked at (authorize.go:43-63), for any number of tabs.
LEMMA TypedInductive == Typed /\ [Next]_vars => Typed'
<1> SUFFICES ASSUME Typed, [Next]_vars PROVE Typed'
    OBVIOUS
<1>1. TypeOK /\ TypeOK'
    BY TypeInductive DEF Typed
<1>2. tab \in [Tab -> TabState] /\ \A t \in Tab : LoginNamesUser(t) /\ Requested(t)
    BY DEF Typed, TypeOK
<1> DEFINE Fine(x) == /\ x.at \in {"startLogin", "stampLogin"} => x.user # NoUser
                      /\ x.at \in {"authorize", "saveReturn", "issue"} => x.uri \in URI
           Tabs == \A t \in Tab : LoginNamesUser(t) /\ Requested(t)
<1>3. \A page \in Resting \cup {"startLogout"} : Fine(AtRest(page))
    BY DEF AtRest, Resting
<1>4. \A uri \in URI : Fine(Asking(uri))
    BY DEF AtRest, Asking
<1>5. ASSUME NEW t \in Tab, NEW x, Fine(x), tab' = [tab EXCEPT ![t] = x] PROVE Tabs'
    BY <1>2, <1>5 DEF LoginNamesUser, Requested
<1>6. ASSUME UNCHANGED tab PROVE Tabs'
    BY <1>2, <1>6 DEF LoginNamesUser, Requested
<1>7. ASSUME NEW t \in Tab, NEW values, NEW step, Start(t, values, step),
             step \in {"stampLogin", "saveLogout"}, step = "stampLogin" => tab[t].user # NoUser
      PROVE  Tabs'
    BY <1>2, <1>7 DEF Start, LoginNamesUser, Requested, TabState
<1>8. ASSUME UNCHANGED code PROVE CodeGranted'
    BY <1>8 DEF Typed, CodeGranted
<1> HIDE DEF Fine, Tabs
<1>9. ASSUME Tabs', CodeGranted' PROVE Typed'
    BY <1>1, <1>9 DEF Typed, Tabs
<1>10. CASE UNCHANGED vars \/ Tick
    BY <1>6, <1>8, <1>9, <1>10 DEF vars, Tick
<1>11. ASSUME NEW t \in Tab, Serve(t) PROVE Typed'
  <2>1. CASE StartAuthorize(t)
    <3> DEFINE x == [tab[t] EXCEPT
                 !.at = IF session.LoggedInUserID = NoUser THEN "saveReturn" ELSE "issue",
                 !.user = session.LoggedInUserID,
                 !.data = IF sharing THEN EmptySession ELSE session]
    <3>1. tab' = [tab EXCEPT ![t] = x] /\ UNCHANGED code
        BY <2>1 DEF StartAuthorize, Goto
    <3>2. x.at \in {"saveReturn", "issue"} /\ x.uri = tab[t].uri
        BY <1>2 DEF TabState
    <3>3. Fine(x)
        BY <3>2, <2>1, <1>2 DEF Fine, StartAuthorize, Requested
    <3> HIDE DEF x
    <3> QED
        BY <3>1, <3>3, <1>5, <1>8, <1>9
  <2>2. CASE SaveReturn(t) \/ SaveLogout(t) \/ Refuse(t)
    <3>1. PICK page \in Resting : tab' = [tab EXCEPT ![t] = AtRest(page)] /\ UNCHANGED code
        BY <2>2 DEF SaveReturn, SaveLogout, Refuse, Goto, Resting
    <3> QED
        BY <3>1, <1>3, <1>5, <1>8, <1>9
  <2>3. CASE Issue(t)
    <3>1. /\ tab' = [tab EXCEPT ![t] = AtRest("client")]
          /\ code'.uri = tab[t].uri /\ tab[t].uri \in URI
          /\ VerdictOf[tab[t].uri.request] = "granted"
        BY <2>3, <1>2 DEF Issue, Goto, Requested
    <3>2. CodeGranted'
        BY <3>1 DEF CodeGranted, GrantedURI, URI
    <3> QED
        BY <3>1, <3>2, <1>3, <1>5, <1>9 DEF Resting
  <2>4. CASE StartLogin(t)
      BY <2>4, <1>2, <1>7, <1>8, <1>9 DEF StartLogin, LoginNamesUser
  <2>5. CASE StartLogout(t)
      BY <2>5, <1>7, <1>8, <1>9 DEF StartLogout
  <2>6. CASE StampLogin(t)
    <3>1. Fine([tab[t] EXCEPT !.at = "answerLogin", !.user = NoUser])
        BY <1>2 DEF Fine, TabState
    <3> QED
        BY <2>6, <3>1, <1>5, <1>8, <1>9 DEF StampLogin, Goto
  <2>7. CASE AnswerLogin(t)
    <3>1. Values(t).ReturnURI \in URI \cup {NoURI}
        BY <1>1, <1>2 DEF Values, TypeOK, TabState, SessionData
    <3> QED
        BY <3>1, <2>7, <1>3, <1>4, <1>5, <1>8, <1>9 DEF AnswerLogin, Goto, Resting
  <2> QED
      BY <2>1, <2>2, <2>3, <2>4, <2>5, <2>6, <2>7, <1>11 DEF Serve
<1>12. ASSUME NEW t \in Tab, Person(t) PROVE Typed'
  <2>1. session.ReturnURI \in URI \cup {NoURI}
      BY <1>1 DEF TypeOK, SessionData
  <2>2. CASE Open(t)
    <3>1. \A request \in AuthorizeURI : [request |-> request, denied |-> FALSE] \in URI
        BY DEF URI
    <3>2. Tabs'
        BY <3>1, <2>2, <1>3, <1>4, <1>5 DEF Open, Goto, Resting
    <3> QED
        BY <3>2, <2>2, <1>8, <1>9 DEF Open
  <2>3. CASE SubmitLogin(t)
    <3>1. PICK user \in User : tab' = [tab EXCEPT ![t] = [AtRest("startLogin") EXCEPT !.user = user]]
        BY <2>3 DEF SubmitLogin, Goto
    <3>2. Fine([AtRest("startLogin") EXCEPT !.user = user])
        BY SessionsAssumption DEF Fine, AtRest
    <3> QED
        BY <3>1, <3>2, <2>3, <1>5, <1>8, <1>9 DEF SubmitLogin
  <2>4. CASE Allow(t)
      BY <2>1, <2>4, <1>4, <1>5, <1>8, <1>9 DEF Allow, Goto
  <2>5. CASE Deny(t)
    <3>1. session.ReturnURI # NoURI => [session.ReturnURI EXCEPT !.denied = TRUE] \in URI
        BY <2>1 DEF URI
    <3>2. Tabs'
        BY <3>1, <2>5, <1>3, <1>4, <1>5 DEF Deny, Goto, Resting
    <3> QED
        BY <3>2, <2>5, <1>8, <1>9 DEF Deny
  <2> QED
      BY <2>2, <2>3, <2>4, <2>5, <1>12 DEF Person
<1> QED
    BY <1>10, <1>11, <1>12 DEF Next

\* For any clients' steps as well.
LEMMA TypedAlways == ClientSpec => []Typed
<1>1. Init => Typed
    BY SessionsAssumption DEF Init, Typed, CodeGranted, TypeOK, LoginNamesUser, Requested, TabState, Place,
       Resting, AtRest, SessionData, EmptySession
<1>2. Typed /\ [Next]_vars => Typed'
    BY TypedInductive
<1>3. Spec => []Typed
    BY <1>1, <1>2, PTL DEF Spec
<1> QED
    BY <1>3, SessionsOfClients, PTL

-----------------------------------------------------------------------------
(* What is told stays within the grant *)

Known ==
    grant # NoGrant =>
        /\ grant \in Grant
        /\ grant.user = grant.origin.user
        /\ RegisteredScopes[grant.client] # {} => grant.scope # NoScope
        /\ grant.scope = NoScope => grant.origin.scope = NoScope

Within ==
    grant # NoGrant =>
        Unlimited(grant) \/ splitSpaces(grant.scope) \subseteq splitSpaces(grant.origin.scope)

ClientInv == Known /\ Within /\ DisclosedAsGranted

\* An answer about tokens of this scope says no more than they allow, so no more
\* than the grant they are within.
LEMMA TellsWithin ==
    ASSUME NEW g, NEW user, NEW scope, NEW via, NEW time,
           Unlimited(g) \/ splitSpaces(scope) \subseteq splitSpaces(g.origin.scope),
           user = g.origin.user, user \in User \cup {NoUser}, grant' = g,
           \/ told' = IDToken(via, user, scope, time)
           \/ /\ ShouldIncludeIDToken(scope, user)
              /\ told' = [via |-> via, sub |-> user, auth_time |-> time,
                          claims |-> UserClaims(user, scope)]
    PROVE  DisclosedAsGranted'
<1> SUFFICES ASSUME told' # Nothing PROVE DisclosedAsGranted'
    BY DEF DisclosedAsGranted
<1>1. /\ told'.sub = user /\ told'.claims = UserClaims(user, scope)
      /\ ContainsScope(scope, OpenID) /\ user # NoUser
    BY DEF IDToken, ShouldIncludeIDToken
<1>2. ("email" \in told'.claims => ContainsScope(scope, "email"))
        /\ ("name" \in told'.claims => ContainsScope(scope, "profile"))
    BY <1>1 DEF UserClaims, EmailClaims
<1>3. Unlimited(g) \/ \A name : ContainsScope(scope, name) => ContainsScope(g.origin.scope, name)
    BY DEF ContainsScope
<1>4. Unlimited(g)' <=> Unlimited(g)
    BY DEF Unlimited
<1> QED
    BY <1>1, <1>2, <1>3, <1>4 DEF DisclosedAsGranted, Unlimited

\* A grant begins with a scope that is its own origin.
LEMMA BeginsWithin ==
    ASSUME NEW via \in GrantType, NEW client \in Client, NEW user \in User \cup {NoUser},
           NEW requested \in ScopeString,
           Begin(via, client, user, ResolvedScope(RegisteredScopes[client], requested)),
           \/ \E type, time : told' = IDToken(type, user,
                                 ResolvedScope(RegisteredScopes[client], requested), time)
           \/ told' = Nothing
    PROVE  ClientInv'
<1> DEFINE scope == ResolvedScope(RegisteredScopes[client], requested)
           g == [client |-> client, user |-> user, scope |-> scope,
                 refreshable |-> via # "client_credentials",
                 origin |-> [via |-> via, user |-> user, scope |-> scope]]
<1>1. grant' = g
    BY DEF Begin
<1>2. RegisteredScopes[client] # NoScope /\ RegisteredScopes[client] \in SUBSET ScopeName
    BY IDTokensAssumption, ScopesAssumption
<1>3. (RegisteredScopes[client] # {} => scope # NoScope) /\ scope \in ScopeString
    BY <1>2 DEF ResolvedScope, ScopeString
<1>4. /\ g.client = client /\ g.user = user /\ g.scope = scope
      /\ g.origin.user = user /\ g.origin.scope = scope
      /\ g \in Grant
    BY <1>3 DEF Grant, Origin
<1>5. told' = Nothing => DisclosedAsGranted'
    BY DEF DisclosedAsGranted
<1> HIDE DEF scope, g
<1>6. Known' /\ Within'
    BY <1>1, <1>3, <1>4 DEF Known, Within
<1>7. DisclosedAsGranted'
  <2>1. CASE \E type, time : told' = IDToken(type, user, scope, time)
    <3>1. PICK type, time : told' = IDToken(type, user, scope, time)
        BY <2>1
    <3> QED
        BY <3>1, <1>1, <1>4, TellsWithin
  <2> QED
      BY <2>1, <1>5 DEF scope
<1> QED
    BY <1>6, <1>7 DEF ClientInv

LEMMA ClientInductive ==
    Typed /\ ClientInv /\ [ClientNext]_<<vars, clientVars>> => ClientInv'
<1> SUFFICES ASSUME Typed, ClientInv, [ClientNext]_<<vars, clientVars>> PROVE ClientInv'
    OBVIOUS
<1>1. CASE UNCHANGED clientVars
    BY <1>1 DEF clientVars, ClientInv, Known, Within, DisclosedAsGranted, Unlimited
<1>2. CASE Exchange
  <2> DEFINE q == RequestOf[code.uri.request]
  <2>1. code.uri.request \in GrantedURI /\ code.user \in User \cup {NoUser}
      BY <1>2 DEF Exchange, Typed, CodeGranted, TypeOK
  <2>2. q.client \in Client /\ q.scope \in ScopeString
      BY <2>1, IDTokensAssumption
  <2>3. /\ Begin("authorization_code", q.client, code.user,
                 ResolvedScope(RegisteredScopes[q.client], q.scope))
        /\ told' = IDToken("authorization_code", code.user,
                           ResolvedScope(RegisteredScopes[q.client], q.scope), code.authTime)
      BY <1>2 DEF Exchange
  <2> HIDE DEF q
  <2> QED
      BY <2>1, <2>2, <2>3, BeginsWithin DEF GrantType
<1>3. CASE Password
  <2>1. PICK client \in Client, user \in User, requested \in ScopeString :
          /\ Begin("password", client, user, ResolvedScope(RegisteredScopes[client], requested))
          /\ told' = IDToken("password", user,
                             ResolvedScope(RegisteredScopes[client], requested), now)
      BY <1>3 DEF Password
  <2> QED
      BY <2>1, BeginsWithin DEF GrantType
<1>4. CASE ClientCredentials
  <2>1. PICK client \in Client, requested \in ScopeString :
          /\ Begin("client_credentials", client, NoUser,
                   ResolvedScope(RegisteredScopes[client], requested))
          /\ told' = Nothing
      BY <1>4 DEF ClientCredentials
  <2> QED
      BY <2>1, BeginsWithin DEF GrantType
<1>5. CASE Refresh
  <2>1. grant # NoGrant /\ grant \in Grant /\ grant.client \in Client
      BY <1>5 DEF Refresh, ClientInv, Known, Grant
  <2> DEFINE registered == RegisteredScopes[grant.client]
             wanted(requested) == IF requested = NoScope THEN grant.scope ELSE requested
             scope(requested) == ResolvedScope(registered, wanted(requested))
  <2>2. PICK requested \in ScopeString :
          /\ requested # NoScope => isScopeNarrowed(scope(requested), grant.scope)
          /\ grant' = [grant EXCEPT !.scope = scope(requested)]
          /\ told' = IDToken("refresh_token", grant.user, scope(requested), now)
      BY <1>5 DEF Refresh
  <2>3. registered # NoScope /\ registered \subseteq ScopeName
      BY <2>1, IDTokensAssumption, ScopesAssumption DEF ClientInv, Known
  <2>4. (registered # {} => scope(requested) # NoScope) /\ scope(requested) \in ScopeString
      BY <2>1, <2>3 DEF ResolvedScope, ScopeString, Grant
  \* Without a new scope the present one stays; a new one is narrower.
  <2>5. splitSpaces(scope(requested)) \subseteq splitSpaces(grant.scope)
          \/ (registered = {} /\ grant.scope = NoScope)
    <3>1. CASE requested = NoScope
        BY <3>1, <2>1 DEF ResolvedScope, splitSpaces, ClientInv, Known
    <3>2. CASE requested # NoScope
        BY <3>2, <2>1, <2>2 DEF isScopeNarrowed, ClientInv, Known
    <3> QED
        BY <3>1, <3>2
  <2>6. scope(requested) = NoScope => grant.scope = NoScope
      BY <2>4 DEF ResolvedScope
  <2> DEFINE s == scope(requested)
             g == [grant EXCEPT !.scope = s]
  <2>7. /\ g \in Grant /\ g.client = grant.client /\ g.user = grant.user
        /\ g.origin = grant.origin /\ g.scope = s
      BY <2>1, <2>4 DEF Grant
  <2> HIDE DEF s, wanted, scope
  <2>8. grant' = g /\ told' = IDToken("refresh_token", g.user, g.scope, now)
      BY <2>2, <2>7 DEF s
  <2> HIDE DEF g
  <2>9. Known'
      BY <2>1, <2>4, <2>6, <2>7, <2>8 DEF ClientInv, Known, s
  <2>10. Unlimited(g) \/ splitSpaces(g.scope) \subseteq splitSpaces(g.origin.scope)
      BY <2>1, <2>5, <2>7 DEF ClientInv, Known, Within, Unlimited, s
  <2>11. Within'
      BY <2>8, <2>10 DEF Within, Unlimited
  <2>12. g.user = g.origin.user /\ g.user \in User \cup {NoUser}
      BY <2>1, <2>7 DEF ClientInv, Known, Grant
  <2>13. DisclosedAsGranted'
      BY <2>8, <2>10, <2>12, TellsWithin
  <2> QED
      BY <2>9, <2>11, <2>13 DEF ClientInv
<1>6. CASE UserInfo
  <2>1. grant # NoGrant /\ UNCHANGED grant /\ grant.user \in User
      BY <1>6 DEF UserInfo
  <2>2. Known' /\ Within'
      BY <2>1 DEF ClientInv, Known, Within, Unlimited
  <2>3. ShouldIncludeIDToken(grant.scope, grant.user)
      BY <2>1, <1>6, IDTokensAssumption DEF UserInfo, ShouldIncludeIDToken
  <2>4. told' = [via |-> "userinfo", sub |-> grant.user, auth_time |-> 0,
                 claims |-> UserClaims(grant.user, grant.scope)]
      BY <1>6 DEF UserInfo
  <2>5. /\ Unlimited(grant) \/ splitSpaces(grant.scope) \subseteq splitSpaces(grant.origin.scope)
        /\ grant.user = grant.origin.user
      BY <2>1 DEF ClientInv, Known, Within
  <2>6. DisclosedAsGranted'
      BY <2>1, <2>3, <2>4, <2>5, TellsWithin
  <2> QED
      BY <2>2, <2>6 DEF ClientInv
<1> QED
    BY <1>1, <1>2, <1>3, <1>4, <1>5, <1>6 DEF ClientNext

\* Nothing is told beyond the scope of the grant the tokens began with, for any
\* number of refreshes, any clients, registrations and scopes.
THEOREM DisclosedAsGrantedHolds == ClientSpec => []DisclosedAsGranted
<1>1. ClientInit => ClientInv
    BY DEF ClientInit, ClientInv, Known, Within, DisclosedAsGranted
<1>2. Typed /\ ClientInv /\ [ClientNext]_<<vars, clientVars>> => ClientInv'
    BY ClientInductive
<1>3. ClientInv => DisclosedAsGranted
    BY DEF ClientInv
<1> QED
    BY <1>1, <1>2, <1>3, TypedAlways, PTL DEF ClientSpec

=============================================================================
