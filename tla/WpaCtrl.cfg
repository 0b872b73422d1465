SPECIFICATION Spec
CONSTANTS
    Cmds <- MCCmds
    Txts <- MCTxts
    ATTACH = ATTACH
    DETACH = DETACH
    OK = "OK"
    FAIL = "FAIL"
    MaxReq = 3
    MaxSock = 2
    MaxOpen = 2
    MaxEvents = 1
    DQLen = 2
    CQLen = 2
INVARIANTS TypeOK ReplyMatches AttachedIsRegistered LagIsBounded
PROPERTIES AnswersAdvance CallsReturn ImplementsFifo
CHECK_DEADLOCK FALSE
