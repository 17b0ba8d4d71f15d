\* Two requests at a time, all in one second, of two clients that present each other's
\* credentials: exchanges of one code with the right and the wrong verifier, rotations
\* and revocations of what comes of it.
SPECIFICATION Spec
CONSTANTS
    OpenID = "openid"
    ScopeName = {"openid"}
    NoScope = NoScope
    Worker = {w1, w2}
    Client = {c1, c2}
    User = {"alice"}
    NoUser = ""
    Code = {k1}
    RefreshToken = {r1, r2, r3}
    NoToken = NoToken
    Verifier = {"v1", "v2"}
    RedirectURI = {"uri"}
    RegisteredScopes <- MCRegisteredScopes
    RedirectURIs <- MCRedirectURIs
    AllowedGrantTypes <- MCAllowedGrantTypes
    TicksPerSecond = 1
    CodeExpiry = 1
    AccessExpiry = 1
    RefreshExpiry = 2
    MaxTime = 0
    Traffic <- CodeTraffic
    RequestScopes <- OmittedScope
SYMMETRY OwnerSymmetry
INVARIANTS OncePerWorker AttemptSpendsCode ReplacedIsGone
PROPERTIES LedgerSpec TokenLifeSpec
