SPECIFICATION Spec
CONSTANTS
    memRead = memRead
    coreState = coreState
    coreHalt = coreHalt
    reset = reset
    NoRequest = NoRequest
    Request <- Routes
    MayLeave <- Routes
    Halting <- StopsTheCore
    Peeking <- LooksOn
    Resetting <- StartsTheCore
INVARIANTS LeftAsFound
PROPERTIES CoreIsLetRun
