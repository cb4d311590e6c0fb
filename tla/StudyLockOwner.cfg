\* As StudyLock.cfg, for what the code says of a study that is in flight.
SPECIFICATION LockSpec
CONSTANTS
    NoOne = NoOne
    BenchStudy = {p1, p2}
    HostStudy = {h1, h2}
    Hello = {doctor}
    MayLeave = {p1, p2, h1, h2, doctor}
INVARIANTS LockHasOwner
