\* One request at a time, all in one second, every scope string, a client with
\* registered scopes and one without.
SPECIFICATION LateSpec
CONSTANTS
    OpenID = "openid"
    ScopeName = {"openid", "profile"}
    NoScope = NoScope
    Worker = {w1}
    Client <- TwoClients
    User = {"alice"}
    NoUser = ""
    Code = {k1}
    RefreshToken = {r1, r2, r3}
    NoToken = NoToken
    Verifier = {"v1"}
    RedirectURI = {"uri"}
    RegisteredScopes <- MCRegisteredScopes
    RedirectURIs <- MCRedirectURIs
    AllowedGrantTypes <- MCAllowedGrantTypes
    TicksPerSecond = 1
    CodeExpiry = 1
    AccessExpiry = 1
    RefreshExpiry = 2
    MaxTime = 2
    Traffic <- ScopeTraffic
    RequestScopes <- AllScopes
    Blank = " "
    Letter = {"a", "b"}
    Word <- MCWord
    MaxLength = 6
SYMMETRY TokenSymmetry
INVARIANTS TypeOK CodeSingleUse RefreshSingleUse GrantNeverWidens ScopeWithinRegistration SplitsIntoNames
