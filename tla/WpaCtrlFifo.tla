----------------------------- MODULE WpaCtrlFifo -----------------------------
(* The connection of wpa_ctrl.c and ctrl_iface_unix.c implements FifoRpc:     *)
(* the answers under way are the replies in the client's socket and the       *)
(* requests of this connection still in the daemon's.                         *)
EXTENDS WpaCtrl

Fifo == INSTANCE FifoRpc WITH
            calls    <- nreq,
            busy     <- IF pc = "idle" THEN 0 ELSE cur.id,
            sent     <- pc = "wait",
            underway <- UnderWay,
            res      <- <<last.req, last.ans>>

\* Calls on a connection return the oldest answer under way, in order, each
\* once, through lost replies, late replies, events and daemon restarts.
ImplementsFifo == Fifo!Spec
=============================================================================
