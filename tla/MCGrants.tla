------------------------------ MODULE MCGrants ------------------------------
(* Values for the constants of Grants, and the symmetry of its runs.        *)
EXTENDS GrantsProperties, TLC

OneClient  == {"web"}
TwoClients == {"web", "any"}

\* As cmd/server/main.go registers its clients, but for "any", which is
\* registered without scopes and so is unrestricted.
MCRegisteredScopes ==
    [c \in Client |-> IF c = "any" THEN {} ELSE ScopeName]
MCRedirectURIs == [c \in Client |-> RedirectURI]
MCAllowedGrantTypes == [c \in Client |-> GrantType]

ExchangeTraffic == {"authorize", "authorization_code"}
CodeTraffic     == {"authorize", "authorization_code", "refresh_token", "revoke"}
RefreshTraffic  == {"password", "refresh_token", "revoke"}
ScopeTraffic    == {"authorize", "authorization_code", "client_credentials", "refresh_token"}

OmittedScope == {NoScope}
AllScopes    == ScopeString

TokenSymmetry ==
    Permutations(Worker) \cup Permutations(Code) \cup Permutations(RefreshToken)

\* Of clients that are registered alike.
OwnerSymmetry == TokenSymmetry \cup Permutations(Client)

=============================================================================
