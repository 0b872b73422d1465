SPECIFICATION OperSpec
CONSTANTS
    Cmds <- OperCmds
    Txts <- OperTxts
    ATTACH = ATTACH
    DETACH = DETACH
    OK <- OkTxt
    FAIL <- FailTxt
    MaxReq = 9
    MaxSock = 2
    MaxOpen = 1
    MaxEvents = 0
    DQLen = 10
    CQLen = 10
    NetIds <- MCNetIds
    UserNets <- MCUserNets
    Flags <- MCFlags
    MaxCalls = 1
    MaxFaults = 9
PROPERTIES ConnectReturns
CHECK_DEADLOCK FALSE
