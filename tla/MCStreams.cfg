SPECIFICATION StreamSpec
CONSTANTS
    Payload <- Records
    SegmentMax = 6
    MaxRecords = 5
CHECK_DEADLOCK FALSE
INVARIANTS LossIsSaid StampsAreRight LoadIsRight RenderingsAreRight
