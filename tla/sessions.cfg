\* Two tabs and two users at the login gate, with a request that is granted and one that is
\* not, logging in and out, with handlers on shared values or on copies; then a client that
\* does what it can with the codes, beside one registered without scopes.
SPECIFICATION BrowserFirstSpec
CONSTANTS
    NoUser = NoUser
    NoURI = NoURI
    NoCode = NoCode
    NoScope = NoScope
    NoGrant = NoGrant
    Nothing = Nothing
    Tab = {t1, t2}
    User = {alice, bob}
    AuthorizeURI = {"req", "faulty"}
    VerdictOf <- MCVerdictOf
    Deeds <- Everything
    MaxTime = 2
    ScopeName = {"openid", "email", "profile"}
    OpenID = "openid"
    Client = {"web", "open"}
    RegisteredScopes <- MCRegisteredScopes
    AllowedGrants <- MCAllowedGrants
    RequestOf <- MCRequestOf
    Profile <- MCProfile
INVARIANTS DisclosedAsGranted
PROPERTIES LogoutHolds LoginReachesClient
