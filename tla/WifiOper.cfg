SPECIFICATION OperSpec
CONSTANTS
    Cmds <- OperCmds
    Txts <- OperTxts
    ATTACH = ATTACH
    DETACH = DETACH
    OK <- OkTxt
    FAIL <- FailTxt
    MaxReq = 18
    MaxSock = 2
    MaxOpen = 2
    MaxEvents = 0
    DQLen = 4
    CQLen = 4
    NetIds <- MCNetIds
    UserNets <- MCUserNets
    Flags <- MCFlags
    MaxCalls = 2
    MaxFaults = 1
INVARIANTS OperTypeOK OthersUntouched NoResidue ConfiguredOnSuccess
CHECK_DEADLOCK FALSE
