\* Three messages of two bytes over two links, with two faults.
SPECIFICATION FairLinkSpec
CONSTANTS
    Size = 1
    Junk = Junk
    MaxMessages = 3
    MaxFaults = 2
    MaxLinks = 2
CHECK_DEADLOCK FALSE
INVARIANTS DamageIsContained
PROPERTIES WholeFrames FramesAreDelivered
