\* Two tabs, one user, one of them logging in; the client that holds the code.
SPECIFICATION ClientSpec
CONSTANTS
    NoUser = NoUser
    NoURI = NoURI
    NoCode = NoCode
    NoScope = NoScope
    NoGrant = NoGrant
    Nothing = Nothing
    Tab = {t1, t2}
    User = {alice}
    AuthorizeURI = {"req"}
    VerdictOf <- MCVerdictOf
    Deeds <- NoLogout
    MaxTime = 2
    ScopeName = {"openid"}
    OpenID = "openid"
    Client = {"web"}
    RegisteredScopes <- MCRegisteredScopes
    AllowedGrants <- MCAllowedGrants
    RequestOf <- MCRequestOf
    Profile <- MCProfile
INVARIANTS AuthTimeIsLogin
