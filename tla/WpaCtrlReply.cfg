SPECIFICATION Spec
CONSTANTS
    Cmds <- MCCmds
    Txts <- MCTxts
    ATTACH = ATTACH
    DETACH = DETACH
    OK = "OK"
    FAIL = "FAIL"
    MaxReq = 3
    MaxSock = 2
    MaxOpen = 2
    MaxEvents = 1
    DQLen = 2
    CQLen = 2
INVARIANTS ReplyIsForCommand
CHECK_DEADLOCK FALSE
