---------------------------- MODULE MCCtrlMonitors ---------------------------
(* Two monitors that open one connection each and may attach twice on it, and *)
(* buffers of two datagrams, so that the send buffer is more than half full   *)
(* when three are unread.                                                     *)
EXTENDS CtrlMonitors
MCLevels == {2, 3}
==============================================================================
