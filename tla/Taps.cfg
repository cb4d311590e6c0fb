\* A POSTed capture, a bench study and a host study on one signal, with an
\* exchange and a DELETE.
SPECIFICATION FairTapSpec
CONSTANTS
    Nobody = Nobody
    Capture = {c1, h1}
    Host = {h1}
    Bench = {b1}
    Exchange = {x1}
    Delete = {d1}
    MaxBytes = 2
CHECK_DEADLOCK FALSE
INVARIANTS RefusedMeansNotWritten OpenPortsAreClaimed
PROPERTIES EarlyEndsAreSaid OthersRecordsStay PortsAreLetGo
