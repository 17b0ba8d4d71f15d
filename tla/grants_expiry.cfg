\* Two requests at a time across the expiry of their tokens, at half-second steps:
\* password grants, rotations and revocations, with fewer tokens than grants_races and
\* more time.
SPECIFICATION Spec
CONSTANTS
    OpenID = "openid"
    ScopeName = {"openid"}
    NoScope = NoScope
    Worker = {w1, w2}
    Client <- OneClient
    User = {"alice"}
    NoUser = ""
    Code = {k1}
    RefreshToken = {r1, r2}
    NoToken = NoToken
    Verifier = {"v1"}
    RedirectURI = {"uri"}
    RegisteredScopes <- MCRegisteredScopes
    RedirectURIs <- MCRedirectURIs
    AllowedGrantTypes <- MCAllowedGrantTypes
    TicksPerSecond = 2
    CodeExpiry = 1
    AccessExpiry = 1
    RefreshExpiry = 2
    MaxTime = 5
    Traffic <- RefreshTraffic
    RequestScopes <- OmittedScope
SYMMETRY TokenSymmetry
INVARIANTS NoOrphanAccess ValidMeansStored RevocationEffective
