SPECIFICATION DialogSpec
CONSTANTS
    Dialog <- Dialogs4
    Cell <- Cells3
    Byte <- Bytes2
    NewLine = "n"
    Command <- CommandLine
    Until <- Prompt
    Timeout = 2
    PortWait = 1
    FlushWait = 2
    MinInterval = 2
    LogPoll = 2
    MaxRead = 4
    MaxCells = 5
    MaxDialogs = 2
    MaxOverrun = 2
    None = None
CHECK_DEADLOCK FALSE
INVARIANTS ReplyIsTheCommands EarlyEndsAreEarned 
