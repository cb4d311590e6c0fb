SPECIFICATION FairSpec
CONSTANTS
    f1 = f1
    b1 = b1
    u1 = u1
    s1 = s1
    NoRequest = NoRequest
    NoToken = NoToken
    Partial = Partial
    MayLeave <- OneFlash
    Request <- Routes
    Flash <- OneFlash
    Bootload <- Bootloads
    Roster <- Enrollment
    Token <- OneLease
INVARIANTS FlashesAreRight
PROPERTIES RecordsAreTrueWhenMade LeaseTakesTheBench
