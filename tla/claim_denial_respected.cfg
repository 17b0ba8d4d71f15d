\* One tab, one user.
SPECIFICATION Spec
CONSTANTS
    NoUser = NoUser
    NoURI = NoURI
    NoCode = NoCode
    Tab = {t1}
    User = {alice}
    AuthorizeURI = {req1}
    VerdictOf <- AllGranted
    Deeds <- NoLogout
    MaxTime = 2
INVARIANTS DenialRespected
