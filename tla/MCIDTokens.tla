----------------------------- MODULE MCIDTokens -----------------------------
(* Values for the constants of IDTokens, and the order in which its runs let *)
(* the browser and the client act.                                           *)
EXTENDS IDTokens, TLC

Everything == {"browse", "logout"}
NoLogout == {"browse"}

\* "web" is registered with every scope, "open" with none.
MCRegisteredScopes ==
    [c \in Client |-> IF c = "open" THEN {} ELSE ScopeName]
MCAllowedGrants ==
    [c \in Client |-> IF c = "open" THEN GrantType
                      ELSE {"authorization_code", "refresh_token"}]
MCVerdictOf == [uri \in AuthorizeURI |-> IF uri = "faulty" THEN "returned" ELSE "granted"]
MCRequestOf == [uri \in GrantedURI |-> [client |-> "web", scope |-> NoScope]]
MCProfile == [u \in User |-> {"name", "email"}]

\* Bound: once there is a code, the person leaves a tab that has come to the client
\* alone; when all have, the clock and the client begin.  Neither side writes what the
\* other reads but for the code, and nothing stated of either depends on when a user
\* logged in.
Left(t) == code # NoCode /\ tab[t].at = "client"
BrowserFirstNext ==
    \/ /\ grant = NoGrant /\ UNCHANGED clientVars
       /\ \E t \in Tab : Serve(t) \/ (~Left(t) /\ Person(t))
    \/ grant # NoGrant /\ UNCHANGED clientVars /\ Tick
    \/ /\ \A t \in Tab : Left(t)
       /\ Exchange \/ Password \/ ClientCredentials \/ Refresh \/ UserInfo

BrowserFirstSpec ==
    /\ ClientInit /\ [][BrowserFirstNext]_<<vars, clientVars>>
    /\ \A t \in Tab : WF_vars(Serve(t))

=============================================================================
