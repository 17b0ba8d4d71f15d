\* Two addresses and room for one, so that every insertion sweeps: enough requests of
\* each to fill two windows and enter a third.
SPECIFICATION Spec
CONSTANTS
    Address = {ip1, ip2}
    Limit = 2
    Window = 1
    MaxVisitors = 1
    MaxTime = 4
    MaxRequests = 6
SYMMETRY AddressSymmetry
INVARIANTS AtMostTwiceTheLimit
PROPERTIES RefusedOnlyWhenSpent WindowsSpec OutgrownOnlyByLive
