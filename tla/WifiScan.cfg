SPECIFICATION ScanSpec
CONSTANTS
    Cmds <- ScanCmds
    Txts <- ScanTxts
    ATTACH = ATTACH
    DETACH = DETACH
    OK <- OkTxt
    FAIL <- FailTxt
    MaxReq = 4
    MaxSock = 2
    MaxOpen = 2
    MaxEvents = 0
    DQLen = 2
    CQLen = 2
    ap = ap
    hidden = hidden
    BSSs <- MCBSSs
    Nameless <- MCNameless
    Unlisted <- MCUnlisted
    MaxLines = 1
    MaxCalls = 2
    MaxChanges = 2
    MaxFaults = 2
INVARIANTS ScanTypeOK SnapshotOfCall ListMeansAccepted
PROPERTIES ScanReturns
CHECK_DEADLOCK FALSE
