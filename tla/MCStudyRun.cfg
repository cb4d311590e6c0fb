SPECIFICATION FairSpec
CONSTANTS
    Delay <- Delays
    Timeout <- Timeouts
    Tolerant = {1}
    Grace = 2
    Latency = 1
    Tap = {t1}
    NoTap = NoTap
    MaxUndecodable = 2
    MaxWire = 2
CHECK_DEADLOCK FALSE
INVARIANTS WorkingBenchIsNotTimedOut RecordIsTrue StopIsPutDownRight
PROPERTIES EndsStayTrue RunsEnd
