------------------------------ MODULE MCWpaCtrl ------------------------------
(* A client that sends plain commands and attaches and detaches, small       *)
(* buffers, two connections, and a daemon that opens up to two sockets.      *)
EXTENDS WpaCtrlFifo
MCCmds == {"PING"}
MCTxts == {"OK", "FAIL"}
==============================================================================
