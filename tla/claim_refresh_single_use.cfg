\* Two rotations of one refresh token at a time.
SPECIFICATION Spec
CONSTANTS
    OpenID = "openid"
    ScopeName = {"openid"}
    NoScope = NoScope
    Worker = {w1, w2}
    Client <- OneClient
    User = {"alice"}
    NoUser = ""
    Code = {k1}
    RefreshToken = {r1, r2, r3}
    NoToken = NoToken
    Verifier = {"v1"}
    RedirectURI = {"uri"}
    RegisteredScopes <- MCRegisteredScopes
    RedirectURIs <- MCRedirectURIs
    AllowedGrantTypes <- MCAllowedGrantTypes
    TicksPerSecond = 1
    CodeExpiry = 1
    AccessExpiry = 1
    RefreshExpiry = 2
    MaxTime = 3
    Traffic <- RefreshTraffic
    RequestScopes <- OmittedScope
SYMMETRY TokenSymmetry
INVARIANTS RefreshSingleUse
