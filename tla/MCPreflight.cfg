SPECIFICATION PreflightSpec
CONSTANTS
    study = study
    good = good
    bad = bad
    isr = isr
    self = self
    NoRequest = NoRequest
    Factory = Factory
    Blank = Blank
    Other = Other
    Request <- Routes
    MayLeave <- HangUps
    Study <- Studies
    Flash <- Flashes
    Flags <- MCFlags
    Wanted <- MCWanted
    Unwanted <- MCUnwanted
    Repeats <- MCRepeats
    MaxFrames = 2
CHECK_DEADLOCK FALSE
INVARIANTS HeaderIsOfTheBoard
PROPERTIES WaitersAreAnswered GuardsAreReleased PreflightsEnd
