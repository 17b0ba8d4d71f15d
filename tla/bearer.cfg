\* Two requests at a time and the sweep, at half-second steps to past the expiry of
\* tokens of one second; two clients, one of which owns all tokens.
SPECIFICATION FairSpec
CONSTANTS
    Client = {"web", "other"}
    ClientID = {"web", "other", ""}
    NoID = ""
    ClientSecret <- MCClientSecret
    SecretString = {"s1", "s2"}
    Worker = {w1, w2}
    Grant = {"g"}
    OwnerOf <- MCOwnerOf
    TicksPerSecond = 2
    AccessExpiry = 1
    NoToken = NoToken
    MaxTime = 3
INVARIANTS TypeOK RefusedForAReason OnlyOwnersWithdraw WalkMissesNothing
PROPERTIES LifeSpec ExpiredEntriesCollected
