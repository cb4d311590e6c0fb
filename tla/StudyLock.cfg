\* Two bench studies, two host studies and a hello that is called again.
SPECIFICATION FairLockSpec
CONSTANTS
    NoOne = NoOne
    BenchStudy = {p1, p2}
    HostStudy = {h1, h2}
    Hello = {doctor}
    MayLeave = {p1, p2, h1, h2, doctor}
INVARIANTS OneSessionAtATime SlotsBelongToRunner
PROPERTIES LockIsFreed
