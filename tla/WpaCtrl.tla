------------------------------- MODULE WpaCtrl -------------------------------
(***************************************************************************)
(* The control-interface connection between a client of                    *)
(* src/common/wpa_ctrl.c and the wpa_supplicant daemon                      *)
(* (wpa_supplicant/ctrl_iface_unix.c): two UNIX datagram sockets, blocking  *)
(* request/reply calls with a ten-second select, unsolicited events on the  *)
(* same socket, and a daemon that may close and reopen its socket.          *)
(*                                                                         *)
(* Datagrams carry no request number.  The numbers in this module are       *)
(* ghosts: they let the properties say which request an answer belongs to.  *)
(***************************************************************************)
EXTENDS Naturals, Sequences, FiniteSets

CONSTANTS
    Cmds,      \* the command lines a client sends, apart from the next two
    ATTACH, DETACH,
    Txts,      \* the reply texts
    OK, FAIL,  \* the two reply texts of ATTACH and DETACH
    MaxReq,    \* bound: requests in a behaviour
    MaxSock,   \* bound: sockets the daemon opens in a behaviour
    MaxOpen,   \* bound: connections the client opens in a behaviour
    MaxEvents, \* bound: events in a behaviour
    DQLen,     \* datagrams the daemon's socket buffers
    CQLen      \* datagrams the client's socket buffers

ASSUME TxtAssumption == OK \in Txts /\ FAIL \in Txts /\ OK # FAIL
ASSUME BoundAssumption ==
    /\ MaxReq \in Nat /\ MaxSock \in Nat /\ MaxOpen \in Nat
    /\ MaxEvents \in Nat /\ DQLen \in Nat /\ CQLen \in Nat
ASSUME CmdAssumption ==
    ATTACH \notin Cmds /\ DETACH \notin Cmds /\ ATTACH # DETACH

VARIABLES
    dsock,     \* daemon: its socket (0: closed, -1 in the code), numbered
    nsock,     \* ghost: sockets the daemon has opened
    rxD,       \* datagrams in the daemon's socket
    mon,       \* entries of ctrl_dst that hold this client's address
    conn,      \* client: the daemon socket ctrl_conn is connected to, 0: NULL
    addr,      \* client: the static counter in the socket's local path
    rxC,       \* datagrams in the client's socket
    pc,        \* client: where wpa_ctrl_request is
    cur,       \* client: the request being made
    last,      \* client: how the last call on this connection returned
    nreq,      \* ghost: requests made
    base,      \* ghost: nreq when the connection was opened
    abandoned, \* ghost: requests of this connection that returned while
               \*        their reply could still arrive
    answered,  \* ghost: the newest request of this connection whose reply
               \*        was read
    nevents    \* ghost: events sent

dvars == <<dsock, nsock, rxD, mon>>
cvars == <<conn, addr, rxC, pc, cur, last>>
gvars == <<nreq, base, abandoned, answered>>
vars  == <<dvars, cvars, gvars, nevents>>

AllCmds == Cmds \cup {ATTACH, DETACH}

Request  == [id : Nat, cmd : AllCmds, from : Nat]
Datagram == [kind : {"reply", "event"}, id : Nat, txt : Txts]

\* Return values: 0 is "ok", -1 "fail", -2 "timeout"; "none" before any call.
Result == [cmd : AllCmds, ret : {"none", "ok", "fail", "timeout"},
           req : Nat, ans : Nat, txt : Txts]

NoResult == [cmd |-> ATTACH, ret |-> "none", req |-> 0, ans |-> 0,
             txt |-> FAIL]

ReplyMsg(i, t) == [kind |-> "reply", id |-> i, txt |-> t]
EventMsg == [kind |-> "event", id |-> 0, txt |-> FAIL]

\* The client's socket is still connected to the socket the daemon has open;
\* otherwise send() fails with ECONNREFUSED and sendto() with EPERM.
Connected == conn # 0 /\ conn = dsock

Init ==
    /\ dsock = 1 /\ nsock = 1 /\ rxD = <<>> /\ mon = 0
    /\ conn = 0 /\ addr = 0 /\ rxC = <<>> /\ pc = "idle"
    /\ cur = [id |-> 0, cmd |-> ATTACH, from |-> 0]
    /\ last = NoResult
    /\ nreq = 0 /\ base = 0 /\ abandoned = {} /\ answered = 0
    /\ nevents = 0

-----------------------------------------------------------------------------
(* The client: wpa_ctrl.c *)

\* mutant: the local path does not depend on the counter
SameAddr == 1

\* wpa_ctrl_open2: the local path is made from a counter that only grows, so
\* no connection of the process ever reuses the address of an earlier one.
NextAddr == addr + 1

Open ==
    /\ conn = 0
    /\ addr < MaxOpen
    /\ addr' = NextAddr
    /\ conn' = dsock                 \* 0: connect() failed, NULL is returned
    /\ rxC' = <<>>
    /\ last' = NoResult
    /\ mon' = 0
    /\ base' = nreq /\ abandoned' = {} /\ answered' = 0
    /\ UNCHANGED <<dsock, nsock, rxD, pc, cur, nreq, nevents>>

\* wpa_ctrl_close: unlinks the path and closes the socket; what was buffered
\* in it is gone.  The daemon's ctrl_dst entry now has a dead address.
Close ==
    /\ conn # 0
    /\ pc = "idle"
    /\ conn' = 0
    /\ rxC' = <<>>
    /\ last' = NoResult
    /\ mon' = 0
    /\ base' = nreq /\ abandoned' = {} /\ answered' = 0
    /\ UNCHANGED <<dsock, nsock, rxD, addr, pc, cur, nreq, nevents>>

\* A call of wpa_ctrl_request begins.
Call(c) ==
    /\ conn # 0
    /\ pc = "idle"
    /\ nreq < MaxReq
    /\ nreq' = nreq + 1
    /\ cur' = [id |-> nreq + 1, cmd |-> c, from |-> addr]
    /\ pc' = "send"
    /\ UNCHANGED <<dvars, conn, addr, rxC, last, base, abandoned, answered,
                   nevents>>

\* wpa_ctrl_request returns r having read no reply.
ReturnError(r) ==
    /\ pc' = "idle"
    /\ last' = [cmd |-> cur.cmd, ret |-> r, req |-> cur.id, ans |-> 0,
                txt |-> FAIL]
    /\ UNCHANGED <<dvars, conn, addr, cur, nreq, base, answered, nevents>>

SendOk ==
    /\ pc = "send"
    /\ Connected
    /\ Len(rxD) < DQLen
    /\ rxD' = Append(rxD, cur)
    /\ pc' = "wait"
    /\ UNCHANGED <<dsock, nsock, mon, conn, addr, rxC, cur, last, gvars,
                   nevents>>

\* The peer is gone, or its buffer (shared with the daemon's other clients)
\* stayed full for the five seconds of retries.
SendFail ==
    /\ pc = "send"
    /\ ReturnError("fail")
    /\ UNCHANGED <<rxC, abandoned>>

\* A message that begins with '<' goes to msg_cb and the wait starts again.
RecvEvent ==
    /\ pc = "wait"
    /\ rxC # <<>> /\ Head(rxC).kind = "event"
    /\ rxC' = Tail(rxC)
    /\ UNCHANGED <<dvars, conn, addr, pc, cur, last, gvars, nevents>>

\* mutant: the text of the reply is not looked at
RetOfAny(c, t) == "ok"

\* What the caller makes of a reply: wpa_ctrl_attach and wpa_ctrl_detach
\* accept "OK\n" only (wpa_ctrl_attach_helper).
RetOfReply(c, t) ==
    IF c \in {ATTACH, DETACH} /\ t # OK THEN "fail" ELSE "ok"

\* mutant: the reply is copied but stays in the socket (MSG_PEEK)
RecvReplyPeek ==
    /\ pc = "wait"
    /\ rxC # <<>> /\ Head(rxC).kind = "reply"
    /\ pc' = "idle"
    /\ last' = [cmd |-> cur.cmd,
                ret |-> RetOfReply(cur.cmd, Head(rxC).txt),
                req |-> cur.id, ans |-> Head(rxC).id, txt |-> Head(rxC).txt]
    /\ answered' = Head(rxC).id
    /\ UNCHANGED <<dvars, conn, addr, rxC, cur, nreq, base, abandoned, nevents>>

\* The first datagram that is no event is taken as the reply, whichever
\* request it answers.
RecvReply ==
    /\ pc = "wait"
    /\ rxC # <<>> /\ Head(rxC).kind = "reply"
    /\ rxC' = Tail(rxC)
    /\ pc' = "idle"
    /\ last' = [cmd |-> cur.cmd,
                ret |-> RetOfReply(cur.cmd, Head(rxC).txt),
                req |-> cur.id, ans |-> Head(rxC).id, txt |-> Head(rxC).txt]
    /\ answered' = Head(rxC).id
    /\ UNCHANGED <<dvars, conn, addr, cur, nreq, base, abandoned, nevents>>

\* mutant: select() without a time limit ends only when the peer has gone
NoTimeout ==
    /\ pc = "wait"
    /\ rxC = <<>>
    /\ ~Connected
    /\ ReturnError("timeout")
    /\ abandoned' = abandoned \cup {cur.id}
    /\ UNCHANGED rxC

\* select() saw nothing for ten seconds.
Timeout ==
    /\ pc = "wait"
    /\ rxC = <<>>
    /\ ReturnError("timeout")
    /\ abandoned' = abandoned \cup {cur.id}
    /\ UNCHANGED rxC

\* select() or recv() failed.
RecvError ==
    /\ pc = "wait"
    /\ ReturnError("fail")
    /\ abandoned' = abandoned \cup {cur.id}
    /\ UNCHANGED rxC

\* wpa_ctrl_recv, called between requests when wpa_ctrl_pending says so.
Recv ==
    /\ conn # 0
    /\ pc = "idle"
    /\ rxC # <<>>
    /\ rxC' = Tail(rxC)
    /\ answered' = IF Head(rxC).kind = "reply" THEN Head(rxC).id ELSE answered
    /\ UNCHANGED <<dvars, conn, addr, pc, cur, last, nreq, base, abandoned,
                   nevents>>

-----------------------------------------------------------------------------
(* The daemon: ctrl_iface_unix.c *)

\* mutant: detaching an address that is not in ctrl_dst succeeds
MayAnswerAny(q, t) == q.cmd \in {ATTACH, DETACH} => t \in {OK, FAIL}

\* What the daemon answers, and ctrl_dst when it has.  Attaching twice makes
\* two entries; ctrl_iface_attach fails only when memory is short.
MayAnswer(q, t) ==
    /\ q.cmd = ATTACH => t \in {OK, FAIL}
    /\ q.cmd = DETACH => t = IF mon > 0 THEN OK ELSE FAIL

MonAfter(q, t) ==
    CASE q.cmd = ATTACH /\ t = OK -> mon + 1
      [] q.cmd = DETACH /\ t = OK -> mon - 1
      [] OTHER                      -> mon

\* mutant: the request is answered but stays in the socket
ReplyPeek ==
    LET q == Head(rxD) IN
    /\ dsock # 0
    /\ rxD # <<>>
    /\ Connected /\ q.from = addr /\ Len(rxC) < CQLen
    /\ \E t \in Txts :
          /\ MayAnswer(q, t)
          /\ mon' = MonAfter(q, t)
          /\ rxC' = Append(rxC, ReplyMsg(q.id, t))
    /\ UNCHANGED <<dsock, nsock, rxD, conn, addr, pc, cur, last, gvars, nevents>>

\* wpa_supplicant_ctrl_iface_receive, the reply is sent.
Reply ==
    LET q == Head(rxD) IN
    /\ dsock # 0
    /\ rxD # <<>>
    /\ Connected /\ q.from = addr /\ Len(rxC) < CQLen
    /\ rxD' = Tail(rxD)
    /\ \E t \in Txts :
          /\ MayAnswer(q, t)
          /\ mon' = MonAfter(q, t)
          /\ rxC' = Append(rxC, ReplyMsg(q.id, t))
    /\ UNCHANGED <<dsock, nsock, conn, addr, pc, cur, last, gvars, nevents>>

\* The client that asked has closed its socket: sendto fails and an ATTACH is
\* undone, so no entry of the present address changes.
ReplyUnsent ==
    LET q == Head(rxD) IN
    /\ dsock # 0
    /\ rxD # <<>>
    /\ ~(Connected /\ q.from = addr)
    /\ rxD' = Tail(rxD)
    /\ UNCHANGED <<dsock, nsock, mon, cvars, gvars, nevents>>

\* wpas_ctrl_iface_reinit: close the socket (what it buffered is lost) and
\* open a new one at the same path, or fail and stay without one.
Reinit ==
    /\ rxD' = <<>>
    /\ \/ nsock < MaxSock /\ nsock' = nsock + 1 /\ dsock' = nsock + 1
       \/ nsock' = nsock /\ dsock' = 0

\* The client's buffer is full: the reply is lost, the socket is reopened and
\* an ATTACH (but not a DETACH) is undone.
ReplyOverflow ==
    LET q == Head(rxD) IN
    /\ dsock # 0
    /\ rxD # <<>>
    /\ Connected /\ q.from = addr /\ Len(rxC) >= CQLen
    /\ mon' = IF q.cmd = DETACH /\ mon > 0 THEN mon - 1 ELSE mon
    /\ Reinit
    /\ UNCHANGED <<cvars, gvars, nevents>>

\* wpa_supplicant_ctrl_iface_send, the datagram for one entry of ctrl_dst
\* with this client's address.
Event ==
    /\ Connected
    /\ mon > 0
    /\ nevents < MaxEvents
    /\ nevents' = nevents + 1
    /\ Len(rxC) < CQLen
    /\ rxC' = Append(rxC, EventMsg)
    /\ UNCHANGED <<dvars, conn, addr, pc, cur, last, gvars>>

\* The entry's address cannot be reached from the socket the daemon has now
\* (EPERM): the entry goes.
EventUnsent ==
    /\ dsock # 0 /\ dsock # conn
    /\ mon > 0
    /\ mon' = mon - 1
    /\ UNCHANGED <<dsock, nsock, rxD, cvars, gvars, nevents>>

\* The socket is reopened because some monitor's buffer is full; when it is
\* this client's and it failed ten times before, its entry goes.
Reopen ==
    /\ dsock # 0
    /\ Reinit
    /\ \/ mon' = mon
       \/ mon > 0 /\ mon' = mon - 1
    /\ UNCHANGED <<cvars, gvars, nevents>>

\* The daemon exits or crashes.
Stop ==
    /\ dsock # 0
    /\ dsock' = 0
    /\ rxD' = <<>>
    /\ mon' = 0
    /\ UNCHANGED <<nsock, cvars, gvars, nevents>>

\* A daemon starts (wpa_supplicant_ctrl_iface_init) and replaces the socket
\* file a crash left behind.
Start ==
    /\ dsock = 0
    /\ nsock < MaxSock
    /\ nsock' = nsock + 1
    /\ dsock' = nsock + 1
    /\ mon' = 0
    /\ UNCHANGED <<rxD, cvars, gvars, nevents>>

-----------------------------------------------------------------------------
Client ==
    \/ Open \/ Close
    \/ \E c \in AllCmds : Call(c)
    \/ SendOk \/ SendFail
    \/ RecvEvent \/ RecvReply \/ Timeout \/ RecvError
    \/ Recv

Daemon ==
    \/ Reply \/ ReplyUnsent \/ ReplyOverflow
    \/ Event \/ EventUnsent \/ Reopen \/ Stop \/ Start

Next == Client \/ Daemon

\* A thread inside wpa_ctrl_request keeps running and select() keeps its
\* time limit.  Nothing is assumed of the daemon.
Fairness ==
    /\ WF_vars(SendOk \/ SendFail)
    /\ WF_vars(RecvEvent \/ RecvReply \/ Timeout)

Spec == Init /\ [][Next]_vars /\ Fairness

-----------------------------------------------------------------------------
(* Properties *)

TypeOK ==
    /\ dsock \in Nat /\ nsock \in Nat /\ rxD \in Seq(Request) /\ mon \in Nat
    /\ conn \in Nat /\ addr \in Nat /\ rxC \in Seq(Datagram)
    /\ pc \in {"idle", "send", "wait"} /\ cur \in Request /\ last \in Result
    /\ nreq \in Nat /\ base \in Nat /\ abandoned \in SUBSET Nat
    /\ answered \in Nat /\ nevents \in Nat

\* A call that returns 0 has read the reply to its own request, unless this
\* same connection gave up on a request before; then it may have read the
\* reply to an earlier request, but to none older than the first one given
\* up on, and never to one that an earlier connection made.
ReplyMatches ==
    last.ret = "ok" =>
        /\ base < last.ans /\ last.ans <= last.req
        /\ last.ans # last.req => \E a \in abandoned : a <= last.ans

\* What the documentation of wpa_ctrl_request promises: the response that is
\* written to reply is the response to the command that was sent.
ReplyIsForCommand == last.ret = "ok" => last.ans = last.req

\* Replies are read in the order of their requests, each at most once, even
\* when calls time out and late replies arrive: the reply a call returns is
\* newer than any that was read on the connection before.
AnswersAdvance ==
    [][/\ answered' # answered => answered' > answered \/ answered' = 0
       /\ last' # last /\ last'.ans # 0 => last'.ans > answered]_vars

\* While the connection lasts and nothing was abandoned on it,
\* wpa_ctrl_attach returns 0 only when the daemon has registered the client,
\* and registered it still is.
AttachedIsRegistered ==
    pc = "idle" /\ last.cmd = ATTACH /\ last.ret = "ok"
        /\ abandoned = {} /\ Connected => mon > 0

\* The requests of this connection whose answer is still under way.
UnderWay ==
    {rxC[i].id : i \in {j \in DOMAIN rxC : rxC[j].kind = "reply"}}
        \cup {rxD[i].id : i \in {j \in DOMAIN rxD :
                                    conn # 0 /\ rxD[j].from = addr}}

\* Every answer under way beyond the one being waited for was given up on:
\* the connection falls behind by at most one reply per abandoned request.
\* With none abandoned the socket is empty of replies between calls.
LagIsBounded ==
    Cardinality(UnderWay) <= Cardinality(abandoned)
                             + (IF pc = "wait" THEN 1 ELSE 0)

\* Every call of wpa_ctrl_request returns, whatever the daemon does, provided
\* the events it is sent come to an end (MaxEvents): each event restarts the
\* ten seconds of select(), so a client that is flooded with them never does.
CallsReturn == pc # "idle" ~> pc = "idle"
=============================================================================
