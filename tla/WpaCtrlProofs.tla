---------------------------- MODULE WpaCtrlProofs ----------------------------
(***************************************************************************)
(* Proofs about the control connection, for any commands, bounds and        *)
(* buffer sizes.                                                            *)
(***************************************************************************)
EXTENDS WpaCtrlFifo, FiniteSetTheorems, TLAPS

\* The inductive invariant.  The two sockets together hold the requests in
\* the order in which they were made.
Ordered ==
    /\ \A i, j \in DOMAIN rxC :
          i < j /\ rxC[i].kind = "reply" /\ rxC[j].kind = "reply"
              => rxC[i].id < rxC[j].id
    /\ \A i, j \in DOMAIN rxD : i < j => rxD[i].id < rxD[j].id
    /\ \A i \in DOMAIN rxC, j \in DOMAIN rxD :
          rxC[i].kind = "reply" => rxC[i].id < rxD[j].id

\* A request is made once and the number of the call in progress is the
\* newest; until it is sent it is in no socket.
Numbered ==
    /\ base <= nreq
    /\ pc # "idle" => conn # 0 /\ cur.id = nreq /\ cur.from = addr
                      /\ base < nreq
    /\ \A j \in DOMAIN rxD :
          /\ rxD[j].from <= addr
          /\ rxD[j].id <= nreq
          /\ pc = "send" => rxD[j].id < nreq
    /\ \A i \in DOMAIN rxC : rxC[i].kind = "reply" =>
          /\ rxC[i].id <= nreq
          /\ pc = "send" => rxC[i].id < nreq

\* Every answer under way belongs to this connection, is newer than the last
\* one read, and is the one being waited for or owed to the past.
Owed(p) ==
    /\ base < p
    /\ answered < p
    /\ (pc = "wait" /\ p = cur.id) \/ \E a \in abandoned : a <= p

AllOwed ==
    /\ \A i \in DOMAIN rxC : rxC[i].kind = "reply" => Owed(rxC[i].id)
    /\ \A j \in DOMAIN rxD : conn # 0 /\ rxD[j].from = addr => Owed(rxD[j].id)
    /\ answered <= nreq
    /\ pc = "send" => answered < nreq
    /\ pc # "idle" => \A a \in abandoned : a < nreq
    /\ \A a \in abandoned : a <= nreq

IInv == TypeOK /\ Ordered /\ Numbered /\ AllOwed /\ ReplyMatches

-----------------------------------------------------------------------------
(* What taking the head of a socket's buffer and appending to it does to the *)
(* positions of the datagrams.                                               *)

LEMMA TailFacts ==
    ASSUME NEW S, NEW s \in Seq(S), s # <<>>
    PROVE  /\ Head(s) = s[1] /\ 1 \in DOMAIN s
           /\ \A i \in DOMAIN s : i \in Nat /\ i >= 1
           /\ \A i \in DOMAIN Tail(s) :
                 /\ i \in Nat /\ i >= 1
                 /\ i + 1 \in DOMAIN s
                 /\ Tail(s)[i] = s[i + 1]
  OBVIOUS

LEMMA AppendFacts ==
    ASSUME NEW S, NEW s \in Seq(S), NEW e \in S
    PROVE  /\ Len(s) \in Nat
           /\ DOMAIN s = 1 .. Len(s)
           /\ DOMAIN Append(s, e) = 1 .. (Len(s) + 1)
           /\ \A i \in DOMAIN Append(s, e) :
                 \/ i \in DOMAIN s /\ Append(s, e)[i] = s[i]
                 \/ i = Len(s) + 1 /\ Append(s, e)[i] = e
  OBVIOUS

LEMMA ElementFacts ==
    ASSUME NEW S, NEW s \in Seq(S), NEW i \in DOMAIN s PROVE s[i] \in S
  OBVIOUS

LEMMA TypeFacts ==
    ASSUME TypeOK
    PROVE  /\ rxC \in Seq(Datagram) /\ rxD \in Seq(Request) /\ nreq \in Nat
           /\ addr \in Nat /\ base \in Nat /\ cur \in Request /\ cur.id \in Nat
           /\ answered \in Nat /\ abandoned \in SUBSET Nat
           /\ \A i \in DOMAIN rxC : rxC[i].id \in Nat
           /\ \A j \in DOMAIN rxD : rxD[j].id \in Nat /\ rxD[j].from \in Nat
<1>1. \A i \in DOMAIN rxC : rxC[i] \in Datagram
  BY ElementFacts DEF TypeOK
<1>2. \A j \in DOMAIN rxD : rxD[j] \in Request
  BY ElementFacts DEF TypeOK
<1>3. \A m \in Datagram : m.id \in Nat
  BY DEF Datagram
<1>4. \A q \in Request : q.id \in Nat /\ q.from \in Nat
  BY DEF Request
<1> QED
  BY <1>1, <1>2, <1>3, <1>4 DEF TypeOK

-----------------------------------------------------------------------------
LEMMA InitIInv == Init => IInv
  BY TxtAssumption DEF Init, IInv, TypeOK, Ordered, Numbered, AllOwed, Owed, ReplyMatches,
     Request, Datagram, Result, NoResult, AllCmds

LEMMA StepType == TypeOK /\ [Next]_vars => TypeOK'
<1> SUFFICES ASSUME TypeOK, [Next]_vars PROVE TypeOK'
  OBVIOUS
<1> USE DEF TypeOK, dvars, cvars, gvars
<1>1. CASE Open
  BY <1>1, TxtAssumption DEF Open, NextAddr, NoResult, Result, AllCmds
<1>2. CASE Close
  BY <1>2, TxtAssumption DEF Close, NoResult, Result, AllCmds
<1>3. ASSUME NEW c \in AllCmds, Call(c) PROVE TypeOK'
  BY <1>3 DEF Call, Request
<1>4. CASE SendOk
  BY <1>4 DEF SendOk
<1>5. CASE SendFail
  BY <1>5, TxtAssumption DEF SendFail, ReturnError, Result, Request
<1>6. CASE RecvEvent
  BY <1>6 DEF RecvEvent
<1>7. CASE RecvReply
  <2>1. Head(rxC) \in Datagram /\ Tail(rxC) \in Seq(Datagram)
    BY <1>7 DEF RecvReply
  <2>2. RetOfReply(cur.cmd, Head(rxC).txt) \in {"ok", "fail"}
    BY DEF RetOfReply
  <2> QED BY <1>7, <2>1, <2>2 DEF RecvReply, Datagram, Result, Request
<1>8. CASE Timeout
  BY <1>8, TxtAssumption DEF Timeout, ReturnError, Result, Request
<1>9. CASE RecvError
  BY <1>9, TxtAssumption DEF RecvError, ReturnError, Result, Request
<1>10. CASE Recv
  <2>1. Head(rxC) \in Datagram /\ Tail(rxC) \in Seq(Datagram)
    BY <1>10 DEF Recv
  <2> QED BY <1>10, <2>1 DEF Recv, Datagram
<1>11. CASE Reply
  <2>1. Head(rxD) \in Request /\ Tail(rxD) \in Seq(Request)
    BY <1>11 DEF Reply
  <2>2. PICK t \in Txts :
           /\ MayAnswer(Head(rxD), t)
           /\ mon' = MonAfter(Head(rxD), t)
           /\ rxC' = Append(rxC, ReplyMsg(Head(rxD).id, t))
    BY <1>11 DEF Reply
  <2>3. mon' \in Nat
    <3>1. CASE Head(rxD).cmd = ATTACH /\ t = OK
      <4>1. MonAfter(Head(rxD), t) = mon + 1
        BY <3>1, CmdAssumption, Zenon DEF MonAfter
      <4> QED BY <2>2, <4>1
    <3>2. CASE Head(rxD).cmd = DETACH /\ t = OK
      <4>1. mon > 0
        BY <2>2, <3>2, TxtAssumption DEF MayAnswer
      <4>2. MonAfter(Head(rxD), t) = mon - 1
        BY <3>2, CmdAssumption, Zenon DEF MonAfter
      <4> QED BY <2>2, <4>1, <4>2
    <3>3. CASE t # OK \/ Head(rxD).cmd \notin {ATTACH, DETACH}
      BY <2>2, <3>3 DEF MonAfter
    <3> QED BY <3>1, <3>2, <3>3
  <2>4. ReplyMsg(Head(rxD).id, t) \in Datagram
    BY <2>1 DEF ReplyMsg, Datagram, Request
  <2> QED BY <1>11, <2>1, <2>2, <2>3, <2>4 DEF Reply
<1>12. CASE ReplyUnsent
  BY <1>12 DEF ReplyUnsent
<1>13. CASE ReplyOverflow
  BY <1>13 DEF ReplyOverflow, Reinit
<1>14. CASE Event
  <2>1. EventMsg \in Datagram
    BY TxtAssumption DEF EventMsg, Datagram
  <2> QED BY <1>14, <2>1 DEF Event
<1>15. CASE Reopen
  <2>1. mon' \in Nat
    BY <1>15 DEF Reopen
  <2>2. dsock' \in Nat /\ nsock' \in Nat /\ rxD' \in Seq(Request)
    BY <1>15 DEF Reopen, Reinit
  <2> QED BY <1>15, <2>1, <2>2 DEF Reopen
<1>19. CASE EventUnsent
  BY <1>19 DEF EventUnsent
<1>16. CASE Stop
  BY <1>16 DEF Stop
<1>17. CASE Start
  BY <1>17 DEF Start
<1>18. CASE UNCHANGED vars
  BY <1>18 DEF vars
<1> QED
  BY <1>1, <1>2, <1>3, <1>4, <1>5, <1>6, <1>7, <1>8, <1>9, <1>10, <1>11,
     <1>12, <1>13, <1>14, <1>15, <1>16, <1>17, <1>18, <1>19
     DEF Next, Client, Daemon

\* The state variables keep their types under every step of client and daemon.
THEOREM TypeCorrect == Spec => []TypeOK
<1>1. Init => TypeOK
  BY InitIInv DEF IInv
<1> QED
  BY <1>1, StepType, PTL DEF Spec

-----------------------------------------------------------------------------
LEMMA StepOrdered ==
    IInv /\ [Next]_vars => Ordered'
<1> SUFFICES ASSUME IInv, [Next]_vars PROVE Ordered'
  OBVIOUS
<1> USE DEF IInv, dvars, cvars, gvars
<1>0. rxC \in Seq(Datagram) /\ rxD \in Seq(Request)
  BY DEF TypeOK
<1>1. CASE Open
  BY <1>1 DEF Open, Ordered
<1>2. CASE Close
  BY <1>2 DEF Close, Ordered
<1>3. ASSUME NEW c \in AllCmds, Call(c) PROVE Ordered'
  BY <1>3 DEF Call, Ordered
<1>4. CASE SendOk
  <2>1. rxD' = Append(rxD, cur) /\ rxC' = rxC /\ pc = "send"
    BY <1>4 DEF SendOk
  <2>2. cur \in Request
    BY DEF TypeOK
  <2>3. \A j \in DOMAIN rxD : rxD[j].id < cur.id
    BY <2>1 DEF Numbered
  <2>4. \A i \in DOMAIN rxC : rxC[i].kind = "reply" => rxC[i].id < cur.id
    BY <2>1 DEF Numbered
  <2>5. ASSUME NEW i \in DOMAIN rxD', NEW j \in DOMAIN rxD', i < j
        PROVE  rxD'[i].id < rxD'[j].id
    BY <1>0, <2>1, <2>2, <2>3, <2>5, AppendFacts DEF Ordered
  <2>6. ASSUME NEW i \in DOMAIN rxC, NEW j \in DOMAIN rxD',
               rxC[i].kind = "reply"
        PROVE  rxC[i].id < rxD'[j].id
    BY <1>0, <2>1, <2>2, <2>4, <2>6, AppendFacts DEF Ordered
  <2> QED BY <2>1, <2>5, <2>6 DEF Ordered
<1>5. CASE SendFail
  BY <1>5 DEF SendFail, ReturnError, Ordered
<1>6. ASSUME rxC # <<>>, rxC' = Tail(rxC), UNCHANGED rxD PROVE Ordered'
  BY <1>0, <1>6, TailFacts DEF Ordered
<1>7. CASE RecvEvent \/ RecvReply \/ Recv
  BY <1>6, <1>7 DEF RecvEvent, RecvReply, Recv
<1>8. CASE Timeout \/ RecvError
  BY <1>8 DEF Timeout, RecvError, ReturnError, Ordered
<1>9. CASE Reply
  <2>1. PICK t \in Txts : rxC' = Append(rxC, ReplyMsg(Head(rxD).id, t))
    BY <1>9 DEF Reply
  <2> DEFINE m == ReplyMsg(Head(rxD).id, t)
  <2>2. rxD # <<>> /\ rxD' = Tail(rxD)
    BY <1>9 DEF Reply
  <2>3. m \in Datagram /\ m.id = Head(rxD).id
    <3>1. Head(rxD) \in Request
      BY <1>0, <2>2
    <3> QED BY <3>1 DEF ReplyMsg, Datagram, Request
  <2>4. Head(rxD) = rxD[1] /\ 1 \in DOMAIN rxD
    BY <1>0, <2>2, TailFacts
  <2>5. \A i \in DOMAIN rxC : rxC[i].kind = "reply" => rxC[i].id < m.id
    BY <2>3, <2>4 DEF Ordered
  <2>6. \A j \in DOMAIN rxD' : j + 1 \in DOMAIN rxD /\ rxD'[j] = rxD[j + 1]
                               /\ j \in Nat /\ j >= 1
    BY <1>0, <2>2, TailFacts
  <2>7. \A j \in DOMAIN rxD' : m.id < rxD'[j].id
    BY <2>3, <2>4, <2>6 DEF Ordered
  <2> HIDE DEF m
  <2>8. ASSUME NEW i \in DOMAIN rxC', NEW j \in DOMAIN rxC', i < j,
               rxC'[i].kind = "reply", rxC'[j].kind = "reply"
        PROVE  rxC'[i].id < rxC'[j].id
    <3>1. rxC' = Append(rxC, m)
      BY <2>1 DEF m
    <3> QED BY <1>0, <2>3, <2>5, <2>8, <3>1, AppendFacts DEF Ordered
  <2>9. ASSUME NEW i \in DOMAIN rxD', NEW j \in DOMAIN rxD', i < j
        PROVE  rxD'[i].id < rxD'[j].id
    BY <2>6, <2>9 DEF Ordered
  <2>10. ASSUME NEW i \in DOMAIN rxC', NEW j \in DOMAIN rxD',
                rxC'[i].kind = "reply"
         PROVE  rxC'[i].id < rxD'[j].id
    <3>1. rxC' = Append(rxC, m)
      BY <2>1 DEF m
    <3> QED
      BY <1>0, <2>3, <2>6, <2>7, <2>10, <3>1, AppendFacts DEF Ordered
  <2> QED BY <2>8, <2>9, <2>10 DEF Ordered
<1>10. CASE ReplyUnsent
  <2>1. rxD # <<>> /\ rxD' = Tail(rxD) /\ rxC' = rxC
    BY <1>10 DEF ReplyUnsent
  <2>2. \A j \in DOMAIN rxD' : j + 1 \in DOMAIN rxD /\ rxD'[j] = rxD[j + 1]
                               /\ j \in Nat /\ j >= 1
    BY <1>0, <2>1, TailFacts
  <2> QED BY <2>1, <2>2 DEF Ordered
<1>11. CASE ReplyOverflow \/ Reopen \/ Stop
  <2>1. rxD' = <<>> /\ rxC' = rxC
    BY <1>11 DEF ReplyOverflow, Reopen, Stop, Reinit
  <2> QED BY <2>1 DEF Ordered
<1>12. CASE Event
  <2>1. rxC' = Append(rxC, EventMsg) /\ rxD' = rxD
    BY <1>12 DEF Event
  <2>2. EventMsg \in Datagram /\ EventMsg.kind = "event"
    BY TxtAssumption DEF EventMsg, Datagram
  <2> QED BY <1>0, <2>1, <2>2, AppendFacts DEF Ordered
<1>13. CASE Start \/ EventUnsent
  BY <1>13 DEF Start, EventUnsent, Ordered
<1>14. CASE UNCHANGED vars
  BY <1>14 DEF vars, Ordered
<1> QED
  BY <1>1, <1>2, <1>3, <1>4, <1>5, <1>7, <1>8, <1>9, <1>10, <1>11,
     <1>12, <1>13, <1>14 DEF Next, Client, Daemon

-----------------------------------------------------------------------------
LEMMA StepNumbered ==
    IInv /\ [Next]_vars => Numbered'
<1> SUFFICES ASSUME IInv, [Next]_vars PROVE Numbered'
  OBVIOUS
<1> USE DEF IInv, dvars, cvars, gvars
<1>0. /\ rxC \in Seq(Datagram) /\ rxD \in Seq(Request) /\ nreq \in Nat
      /\ addr \in Nat /\ base \in Nat /\ cur \in Request
      /\ \A i \in DOMAIN rxC : rxC[i].id \in Nat
      /\ \A j \in DOMAIN rxD : rxD[j].id \in Nat /\ rxD[j].from \in Nat
  BY TypeFacts
<1>1. CASE Open
  <2>1. addr' = addr + 1 /\ rxD' = rxD /\ rxC' = <<>> /\ nreq' = nreq
        /\ pc' = pc /\ base' = nreq /\ conn = 0
    BY <1>1 DEF Open, NextAddr
  <2>2. pc = "idle"
    BY <2>1 DEF Numbered
  <2> QED BY <1>0, <2>1, <2>2 DEF Numbered
<1>2. CASE Close
  BY <1>0, <1>2 DEF Close, Numbered
<1>3. ASSUME NEW c \in AllCmds, Call(c) PROVE Numbered'
  <2>1. /\ nreq' = nreq + 1 /\ pc' = "send" /\ rxC' = rxC /\ rxD' = rxD
        /\ base' = base /\ conn' = conn /\ addr' = addr /\ conn # 0
        /\ cur'.id = nreq + 1 /\ cur'.from = addr
    BY <1>3 DEF Call
  <2> QED BY <1>0, <2>1 DEF Numbered
<1>4. CASE SendOk
  <2>1. /\ rxD' = Append(rxD, cur) /\ pc = "send" /\ pc' = "wait"
        /\ UNCHANGED <<rxC, nreq, base, conn, addr, cur>>
    BY <1>4 DEF SendOk
  <2>2. \A j \in DOMAIN rxD' :
           rxD'[j] = cur \/ (j \in DOMAIN rxD /\ rxD'[j] = rxD[j])
    BY <1>0, <2>1, AppendFacts
  <2> QED BY <1>0, <2>1, <2>2 DEF Numbered
<1>5. CASE SendFail \/ Timeout \/ RecvError
  <2>1. pc' = "idle" /\ UNCHANGED <<rxC, rxD, nreq, base, conn, addr, cur>>
    BY <1>5 DEF SendFail, Timeout, RecvError, ReturnError
  <2> QED BY <2>1 DEF Numbered
<1>6. CASE RecvEvent \/ RecvReply \/ Recv
  <2>1. /\ rxC # <<>> /\ rxC' = Tail(rxC)
        /\ UNCHANGED <<rxD, nreq, base, conn, addr, cur>>
        /\ pc' = pc \/ pc' = "idle"
    BY <1>6 DEF RecvEvent, RecvReply, Recv
  <2>2. \A i \in DOMAIN rxC' : i + 1 \in DOMAIN rxC /\ rxC'[i] = rxC[i + 1]
    BY <1>0, <2>1, TailFacts
  <2> QED BY <2>1, <2>2 DEF Numbered
<1>7. CASE Reply
  <2>1. PICK t \in Txts : rxC' = Append(rxC, ReplyMsg(Head(rxD).id, t))
    BY <1>7 DEF Reply
  <2> DEFINE m == ReplyMsg(Head(rxD).id, t)
  <2>2. rxD # <<>> /\ rxD' = Tail(rxD)
        /\ UNCHANGED <<pc, nreq, base, conn, addr, cur>>
    BY <1>7 DEF Reply
  <2>3. \A j \in DOMAIN rxD' : j + 1 \in DOMAIN rxD /\ rxD'[j] = rxD[j + 1]
    BY <1>0, <2>2, TailFacts
  <2>4. Head(rxD) = rxD[1] /\ 1 \in DOMAIN rxD
    BY <1>0, <2>2, TailFacts
  <2>5. m \in Datagram /\ m.id = rxD[1].id
    <3>1. Head(rxD) \in Request
      BY <1>0, <2>2
    <3> QED BY <2>4, <3>1 DEF ReplyMsg, Datagram, Request
  <2>6. \A i \in DOMAIN rxC' :
           rxC'[i] = m \/ (i \in DOMAIN rxC /\ rxC'[i] = rxC[i])
    BY <1>0, <2>1, <2>5, AppendFacts
  <2> HIDE DEF m
  <2> QED BY <2>2, <2>3, <2>4, <2>5, <2>6 DEF Numbered
<1>8. CASE ReplyUnsent
  <2>1. rxD # <<>> /\ rxD' = Tail(rxD) /\ rxC' = rxC
        /\ UNCHANGED <<pc, nreq, base, conn, addr, cur>>
    BY <1>8 DEF ReplyUnsent
  <2>2. \A j \in DOMAIN rxD' : j + 1 \in DOMAIN rxD /\ rxD'[j] = rxD[j + 1]
    BY <1>0, <2>1, TailFacts
  <2> QED BY <2>1, <2>2 DEF Numbered
<1>9. CASE ReplyOverflow \/ Reopen \/ Stop
  <2>1. rxD' = <<>> /\ UNCHANGED <<rxC, pc, nreq, base, conn, addr, cur>>
    BY <1>9 DEF ReplyOverflow, Reopen, Stop, Reinit
  <2> QED BY <2>1 DEF Numbered
<1>10. CASE Event
  <2>1. /\ rxC' = Append(rxC, EventMsg)
        /\ UNCHANGED <<rxD, pc, nreq, base, conn, addr, cur>>
    BY <1>10 DEF Event
  <2>2. EventMsg \in Datagram /\ EventMsg.kind = "event"
    BY TxtAssumption DEF EventMsg, Datagram
  <2>3. \A i \in DOMAIN rxC' :
           rxC'[i] = EventMsg \/ (i \in DOMAIN rxC /\ rxC'[i] = rxC[i])
    BY <1>0, <2>1, <2>2, AppendFacts
  <2> QED BY <2>1, <2>2, <2>3 DEF Numbered
<1>11. CASE Start \/ EventUnsent
  BY <1>11 DEF Start, EventUnsent, Numbered
<1>12. CASE UNCHANGED vars
  BY <1>12 DEF vars, Numbered
<1> QED
  BY <1>1, <1>2, <1>3, <1>4, <1>5, <1>6, <1>7, <1>8, <1>9, <1>10, <1>11,
     <1>12 DEF Next, Client, Daemon

-----------------------------------------------------------------------------
LEMMA StepOwed ==
    IInv /\ [Next]_vars => AllOwed'
<1> SUFFICES ASSUME IInv, [Next]_vars PROVE AllOwed'
  OBVIOUS
<1> USE DEF IInv, dvars, cvars, gvars
<1>0. /\ rxC \in Seq(Datagram) /\ rxD \in Seq(Request) /\ nreq \in Nat
      /\ addr \in Nat /\ base \in Nat /\ cur \in Request /\ cur.id \in Nat
      /\ answered \in Nat /\ abandoned \in SUBSET Nat
      /\ \A i \in DOMAIN rxC : rxC[i].id \in Nat
      /\ \A j \in DOMAIN rxD : rxD[j].id \in Nat /\ rxD[j].from \in Nat
  BY TypeFacts
<1>1. CASE Open
  <2>1. /\ addr' = addr + 1 /\ rxD' = rxD /\ rxC' = <<>> /\ nreq' = nreq
        /\ pc' = pc /\ abandoned' = {} /\ answered' = 0 /\ conn = 0
    BY <1>1 DEF Open, NextAddr
  <2>2. pc = "idle" /\ \A j \in DOMAIN rxD' : rxD'[j].from # addr'
    BY <1>0, <2>1 DEF Numbered
  <2> QED BY <1>0, <2>1, <2>2 DEF AllOwed
<1>2. CASE Close
  BY <1>0, <1>2 DEF Close, AllOwed
<1>3. ASSUME NEW c \in AllCmds, Call(c) PROVE AllOwed'
  <2>1. /\ nreq' = nreq + 1 /\ pc = "idle" /\ pc' = "send"
        /\ UNCHANGED <<rxC, rxD, base, conn, addr, abandoned, answered>>
    BY <1>3 DEF Call
  <2> QED BY <1>0, <2>1 DEF AllOwed, Owed
<1>4. CASE SendOk
  <2>1. /\ rxD' = Append(rxD, cur) /\ pc = "send" /\ pc' = "wait"
        /\ UNCHANGED <<rxC, nreq, base, conn, addr, cur, abandoned, answered>>
    BY <1>4 DEF SendOk
  <2>2. \A j \in DOMAIN rxD' :
           rxD'[j] = cur \/ (j \in DOMAIN rxD /\ rxD'[j] = rxD[j])
    BY <1>0, <2>1, AppendFacts
  <2>3. base < cur.id /\ answered < cur.id
    BY <1>0, <2>1 DEF Numbered, AllOwed
  <2> QED BY <1>0, <2>1, <2>2, <2>3 DEF AllOwed, Owed
<1>5. CASE SendFail
  <2>1. /\ pc = "send" /\ pc' = "idle"
        /\ UNCHANGED <<rxC, rxD, nreq, base, conn, addr, cur, abandoned,
                       answered>>
    BY <1>5 DEF SendFail, ReturnError
  <2> QED BY <1>0, <2>1 DEF AllOwed, Owed
<1>6. CASE Timeout \/ RecvError
  <2>1. /\ pc = "wait" /\ pc' = "idle" /\ abandoned' = abandoned \cup {cur.id}
        /\ UNCHANGED <<rxC, rxD, nreq, base, conn, addr, cur, answered>>
    BY <1>6 DEF Timeout, RecvError, ReturnError
  <2>2. cur.id = nreq
    BY <2>1 DEF Numbered
  <2>3. \A p \in Nat : Owed(p) => Owed(p)'
    BY <1>0, <2>1 DEF Owed
  <2> QED BY <1>0, <2>1, <2>2, <2>3 DEF AllOwed
<1>7. CASE RecvEvent
  <2>1. /\ rxC # <<>> /\ rxC' = Tail(rxC)
        /\ UNCHANGED <<pc, rxD, nreq, base, conn, addr, cur, abandoned,
                       answered>>
    BY <1>7 DEF RecvEvent
  <2>2. \A i \in DOMAIN rxC' : i + 1 \in DOMAIN rxC /\ rxC'[i] = rxC[i + 1]
    BY <1>0, <2>1, TailFacts
  <2> QED BY <2>1, <2>2 DEF AllOwed, Owed
<1>8. ASSUME rxC # <<>>, rxC' = Tail(rxC), Head(rxC).kind = "reply",
             answered' = Head(rxC).id, pc' = "idle", pc # "send",
             UNCHANGED <<rxD, nreq, base, conn, addr, cur, abandoned>>
      PROVE  AllOwed'
  <2>1. Head(rxC) = rxC[1] /\ 1 \in DOMAIN rxC
    BY <1>0, <1>8, TailFacts
  <2>2. \A i \in DOMAIN rxC' : i + 1 \in DOMAIN rxC /\ rxC'[i] = rxC[i + 1]
                               /\ i \in Nat /\ i >= 1
    BY <1>0, <1>8, TailFacts
  <2>3. Owed(rxC[1].id) /\ rxC[1].id <= nreq
    BY <1>8, <2>1 DEF AllOwed, Numbered
  <2> DEFINE StillOwed(p) == /\ base < p /\ rxC[1].id < p
                             /\ \E a \in abandoned : a <= p
  <2>4. ASSUME NEW p \in Nat, Owed(p), rxC[1].id < p, p <= nreq
        PROVE  StillOwed(p)
    <3>1. (\E a \in abandoned : a <= p)
      BY <1>0, <1>8, <2>1, <2>3, <2>4 DEF Owed, Numbered
    <3> QED BY <2>4, <3>1 DEF Owed
  <2>5. \A i \in DOMAIN rxC' : rxC'[i].kind = "reply" =>
           rxC[1].id < rxC'[i].id
    BY <1>8, <2>1, <2>2 DEF Ordered
  <2>6. \A i \in DOMAIN rxC' : rxC'[i].kind = "reply" => StillOwed(rxC'[i].id)
    BY <1>0, <2>2, <2>4, <2>5 DEF AllOwed, Numbered
  <2>7. \A j \in DOMAIN rxD : rxC[1].id < rxD[j].id
    BY <1>8, <2>1 DEF Ordered
  <2>8. \A j \in DOMAIN rxD :
           conn # 0 /\ rxD[j].from = addr => StillOwed(rxD[j].id)
    BY <1>0, <2>4, <2>7 DEF AllOwed, Numbered
  <2> QED BY <1>0, <1>8, <2>1, <2>3, <2>6, <2>8 DEF AllOwed, Owed
<1>9. CASE RecvReply
  BY <1>8, <1>9 DEF RecvReply
<1>10. CASE Recv
  <2>1. CASE Head(rxC).kind = "reply"
    BY <1>8, <1>10, <2>1 DEF Recv
  <2>2. CASE Head(rxC).kind # "reply"
    <3>1. /\ rxC # <<>> /\ rxC' = Tail(rxC)
          /\ UNCHANGED <<pc, rxD, nreq, base, conn, addr, cur, abandoned,
                         answered>>
      BY <1>10, <2>2 DEF Recv
    <3>2. \A i \in DOMAIN rxC' : i + 1 \in DOMAIN rxC /\ rxC'[i] = rxC[i + 1]
      BY <1>0, <3>1, TailFacts
    <3> QED BY <3>1, <3>2 DEF AllOwed, Owed
  <2> QED BY <2>1, <2>2
<1>11. CASE Reply
  <2>1. PICK t \in Txts : rxC' = Append(rxC, ReplyMsg(Head(rxD).id, t))
    BY <1>11 DEF Reply
  <2> DEFINE m == ReplyMsg(Head(rxD).id, t)
  <2>2. /\ rxD # <<>> /\ rxD' = Tail(rxD) /\ conn # 0
        /\ Head(rxD).from = addr
        /\ UNCHANGED <<pc, nreq, base, conn, addr, cur, abandoned, answered>>
    BY <1>11 DEF Reply, Connected
  <2>3. \A j \in DOMAIN rxD' : j + 1 \in DOMAIN rxD /\ rxD'[j] = rxD[j + 1]
    BY <1>0, <2>2, TailFacts
  <2>4. Head(rxD) = rxD[1] /\ 1 \in DOMAIN rxD
    BY <1>0, <2>2, TailFacts
  <2>5. m \in Datagram /\ m.id = rxD[1].id
    <3>1. Head(rxD) \in Request
      BY <1>0, <2>2
    <3> QED BY <2>4, <3>1 DEF ReplyMsg, Datagram, Request
  <2>6. \A i \in DOMAIN rxC' :
           rxC'[i] = m \/ (i \in DOMAIN rxC /\ rxC'[i] = rxC[i])
    BY <1>0, <2>1, <2>5, AppendFacts
  <2>7. Owed(m.id)
    BY <2>2, <2>4, <2>5 DEF AllOwed
  <2> HIDE DEF m
  <2> QED BY <2>2, <2>3, <2>6, <2>7 DEF AllOwed, Owed
<1>12. CASE ReplyUnsent
  <2>1. rxD # <<>> /\ rxD' = Tail(rxD) /\ rxC' = rxC
        /\ UNCHANGED <<pc, nreq, base, conn, addr, cur, abandoned, answered>>
    BY <1>12 DEF ReplyUnsent
  <2>2. \A j \in DOMAIN rxD' : j + 1 \in DOMAIN rxD /\ rxD'[j] = rxD[j + 1]
    BY <1>0, <2>1, TailFacts
  <2> QED BY <2>1, <2>2 DEF AllOwed, Owed
<1>13. CASE ReplyOverflow \/ Reopen \/ Stop
  <2>1. rxD' = <<>> /\ UNCHANGED <<rxC, pc, nreq, base, conn, addr, cur,
                                   abandoned, answered>>
    BY <1>13 DEF ReplyOverflow, Reopen, Stop, Reinit
  <2> QED BY <2>1 DEF AllOwed, Owed
<1>14. CASE Event
  <2>1. /\ rxC' = Append(rxC, EventMsg)
        /\ UNCHANGED <<rxD, pc, nreq, base, conn, addr, cur, abandoned,
                       answered>>
    BY <1>14 DEF Event
  <2>2. EventMsg \in Datagram /\ EventMsg.kind = "event"
    BY TxtAssumption DEF EventMsg, Datagram
  <2>3. \A i \in DOMAIN rxC' :
           rxC'[i] = EventMsg \/ (i \in DOMAIN rxC /\ rxC'[i] = rxC[i])
    BY <1>0, <2>1, <2>2, AppendFacts
  <2> QED BY <2>1, <2>2, <2>3 DEF AllOwed, Owed
<1>15. CASE Start \/ EventUnsent
  BY <1>15 DEF Start, EventUnsent, AllOwed, Owed
<1>16. CASE UNCHANGED vars
  BY <1>16 DEF vars, AllOwed, Owed
<1> QED
  BY <1>1, <1>2, <1>3, <1>4, <1>5, <1>6, <1>7, <1>9, <1>10, <1>11,
     <1>12, <1>13, <1>14, <1>15, <1>16 DEF Next, Client, Daemon

-----------------------------------------------------------------------------
LEMMA StepMatches ==
    IInv /\ [Next]_vars => ReplyMatches'
<1> SUFFICES ASSUME IInv, [Next]_vars PROVE ReplyMatches'
  OBVIOUS
<1> USE DEF IInv, dvars, cvars, gvars
<1>1. CASE RecvReply
  <2>1. /\ rxC # <<>> /\ Head(rxC).kind = "reply" /\ pc = "wait"
        /\ last'.req = cur.id /\ last'.ans = Head(rxC).id
        /\ base' = base /\ abandoned' = abandoned
    BY <1>1 DEF RecvReply
  <2>2. Head(rxC) = rxC[1] /\ 1 \in DOMAIN rxC
    BY <2>1, TailFacts DEF TypeOK
  <2>3. Owed(rxC[1].id) /\ rxC[1].id <= cur.id
    BY <2>1, <2>2 DEF AllOwed, Numbered
  <2> QED BY <2>1, <2>2, <2>3 DEF ReplyMatches, Owed
<1>2. CASE Timeout \/ RecvError \/ SendFail
  BY <1>2 DEF Timeout, RecvError, SendFail, ReturnError, ReplyMatches
<1>3. CASE Open \/ Close
  BY <1>3 DEF Open, Close, NoResult, ReplyMatches
<1>4. CASE UNCHANGED <<last, base, abandoned>>
  BY <1>4 DEF ReplyMatches
<1> QED
  BY <1>1, <1>2, <1>3, <1>4 DEF Next, Client, Daemon, Call, SendOk,
     RecvEvent, Recv, Reply, ReplyUnsent, ReplyOverflow, Event, EventUnsent,
     Reopen, Stop, Start, vars

\* IInv is an invariant of the connection.
THEOREM InductiveInvariant == Spec => []IInv
<1>1. IInv /\ [Next]_vars => IInv'
  BY StepType, StepOrdered, StepNumbered, StepOwed, StepMatches DEF IInv
<1> QED
  BY <1>1, InitIInv, PTL DEF Spec

\* A call that returns 0 read its own reply, or one of the same connection no
\* older than the first request that connection gave up on.
THEOREM RepliesMatch == Spec => []ReplyMatches
<1>1. IInv => ReplyMatches
  BY DEF IInv
<1> QED
  BY <1>1, InductiveInvariant, PTL

\* Replies are read in the order of their requests, each at most once.
THEOREM AnswersInOrder == Spec => AnswersAdvance
<1> DEFINE Advance ==
      /\ answered' # answered => answered' > answered \/ answered' = 0
      /\ last' # last /\ last'.ans # 0 => last'.ans > answered
<1>1. ASSUME IInv, [Next]_vars
      PROVE  [Advance]_vars
  <2>1. ASSUME rxC # <<>>, Head(rxC).kind = "reply"
        PROVE  Head(rxC).id > answered
    <3>1. Head(rxC) = rxC[1] /\ 1 \in DOMAIN rxC /\ rxC[1].id \in Nat
      BY <1>1, <2>1, TailFacts, TypeFacts DEF IInv
    <3>2. answered < rxC[1].id
      BY <1>1, <2>1, <3>1 DEF IInv, AllOwed, Owed
    <3> QED BY <1>1, <2>1, <3>1, <3>2 DEF IInv, TypeOK
  <2>2. CASE RecvReply
    BY <2>1, <2>2 DEF RecvReply
  <2>3. CASE Recv
    BY <2>1, <2>3 DEF Recv
  <2>4. CASE Open \/ Close
    BY <2>4 DEF Open, Close, NoResult
  <2>5. CASE SendFail \/ Timeout \/ RecvError
    BY <2>5 DEF SendFail, Timeout, RecvError, ReturnError
  <2>6. CASE UNCHANGED <<answered, last>>
    BY <2>6
  <2> QED
    BY <1>1, <2>2, <2>3, <2>4, <2>5, <2>6 DEF Next, Client, Daemon, Call,
       SendOk, RecvEvent, Reply, ReplyUnsent, ReplyOverflow, Event,
       EventUnsent, Reopen, Stop, Start, vars, cvars, gvars
<1> QED
  BY <1>1, InductiveInvariant, PTL DEF Spec, AnswersAdvance

-----------------------------------------------------------------------------
(* The lag of the answers *)

\* UnderWay as a relation: request p is in one of the two sockets.
LEMMA UnderWayFacts ==
    ASSUME NEW p
    PROVE  p \in UnderWay <=>
              \/ \E i \in DOMAIN rxC : rxC[i].kind = "reply" /\ rxC[i].id = p
              \/ \E j \in DOMAIN rxD :
                    conn # 0 /\ rxD[j].from = addr /\ rxD[j].id = p
BY DEF UnderWay

\* What is under way is finite, and so is what was given up on.
LEMMA LagFinite ==
    ASSUME IInv
    PROVE  /\ UnderWay \in SUBSET Nat /\ IsFiniteSet(UnderWay)
           /\ IsFiniteSet(abandoned)
           /\ Cardinality(UnderWay) \in Nat /\ Cardinality(abandoned) \in Nat
<1>1. /\ nreq \in Nat /\ abandoned \in SUBSET Nat
      /\ \A a \in abandoned : a <= nreq
  BY DEF IInv, TypeOK, AllOwed
<1>2. UnderWay \in SUBSET Nat /\ \A p \in UnderWay : p <= nreq
  BY UnderWayFacts, TypeFacts DEF IInv, Numbered
<1>3. IsFiniteSet(UnderWay) /\ IsFiniteSet(abandoned)
  BY <1>1, <1>2, FS_BoundedSetOfNaturals
<1> QED
  BY <1>2, <1>3, FS_CardinalityType

\* A step after which no more is under way, no less was given up on, and no
\* call ends.
LEMMA LagKept ==
    ASSUME IInv, LagIsBounded, UnderWay' \subseteq UnderWay,
           abandoned' = abandoned, pc = "wait" => pc' = "wait"
    PROVE  LagIsBounded'
<1>1. Cardinality(UnderWay') <= Cardinality(UnderWay)
      /\ Cardinality(UnderWay') \in Nat
  BY LagFinite, FS_Subset, FS_CardinalityType
<1> QED
  BY <1>1, LagFinite DEF LagIsBounded

\* The step takes the head of the client's socket.
LEMMA HeadTaken ==
    ASSUME IInv, rxC # <<>>, rxC' = Tail(rxC), UNCHANGED <<rxD, conn, addr>>
    PROVE  /\ Head(rxC).kind # "reply" => UnderWay' = UnderWay
           /\ Head(rxC).kind = "reply" =>
                 /\ Head(rxC).id \in UnderWay
                 /\ \A p \in UnderWay : Head(rxC).id <= p
                 /\ UnderWay' = UnderWay \ {Head(rxC).id}
<1>0. /\ rxC \in Seq(Datagram)
      /\ \A i \in DOMAIN rxC : rxC[i].id \in Nat
      /\ \A j \in DOMAIN rxD : rxD[j].id \in Nat
  BY TypeFacts DEF IInv
<1>1. Head(rxC) = rxC[1] /\ 1 \in DOMAIN rxC
  BY <1>0, TailFacts
<1>2. \A i \in DOMAIN rxC' : i + 1 \in DOMAIN rxC /\ rxC'[i] = rxC[i + 1]
                             /\ i \in Nat /\ i >= 1
  BY <1>0, TailFacts
<1>3. \A i \in DOMAIN rxC : i = 1 \/ (i - 1 \in DOMAIN rxC' /\ rxC'[i - 1] = rxC[i]
                                      /\ i \in Nat /\ i > 1)
  BY <1>0
<1>4. \A p : p \in UnderWay' <=>
         \/ \E i \in DOMAIN rxC' : rxC'[i].kind = "reply" /\ rxC'[i].id = p
         \/ \E j \in DOMAIN rxD :
               conn # 0 /\ rxD[j].from = addr /\ rxD[j].id = p
  BY DEF UnderWay
<1>k. /\ \A i \in DOMAIN rxC :
            rxC[i].kind = "reply" /\ i # 1 => rxC[i].id \in UnderWay'
      /\ \A j \in DOMAIN rxD :
            conn # 0 /\ rxD[j].from = addr => rxD[j].id \in UnderWay'
  <2>1. ASSUME NEW i \in DOMAIN rxC, rxC[i].kind = "reply", i # 1
        PROVE  rxC[i].id \in UnderWay'
    <3>1. i - 1 \in DOMAIN rxC' /\ rxC'[i - 1] = rxC[i]
      BY <1>3, <2>1
    <3>2. \E k \in DOMAIN rxC' : rxC'[k].kind = "reply" /\ rxC'[k].id = rxC[i].id
      BY <2>1, <3>1
    <3> QED BY <1>4, <3>2
  <2> QED BY <1>4, <2>1
<1>5. CASE Head(rxC).kind # "reply"
  <2>1. \A p : p \in UnderWay' => p \in UnderWay
    BY <1>2, <1>4, UnderWayFacts
  <2>2. \A p : p \in UnderWay => p \in UnderWay'
    BY <1>1, <1>k, <1>5, UnderWayFacts
  <2> QED BY <1>5, <2>1, <2>2
<1>6. CASE Head(rxC).kind = "reply"
  <2> DEFINE h == rxC[1].id
  <2>1. h \in UnderWay /\ h \in Nat
    BY <1>0, <1>1, <1>6, UnderWayFacts
  <2>2. \A i \in DOMAIN rxC : i # 1 /\ rxC[i].kind = "reply" => h < rxC[i].id
    BY <1>0, <1>1, <1>3, <1>6 DEF IInv, Ordered
  <2>3. \A j \in DOMAIN rxD : h < rxD[j].id
    BY <1>1, <1>6 DEF IInv, Ordered
  <2>4. \A p \in UnderWay : p = h \/ (p \in Nat /\ h < p /\ p \in UnderWay')
    BY <1>0, <1>k, <2>2, <2>3, UnderWayFacts
  <2>5. \A p : p \in UnderWay' => p \in UnderWay /\ p # h
    <3>1. \A i \in DOMAIN rxC' : rxC'[i].kind = "reply" =>
             rxC'[i].id \in UnderWay /\ rxC'[i].id # h
      BY <1>0, <1>2, <2>1, <2>2, UnderWayFacts
    <3>2. \A j \in DOMAIN rxD : conn # 0 /\ rxD[j].from = addr =>
             rxD[j].id \in UnderWay /\ rxD[j].id # h
      BY <1>0, <2>1, <2>3, UnderWayFacts
    <3> QED BY <1>4, <3>1, <3>2
  <2>6. UnderWay' = UnderWay \ {h}
    BY <2>4, <2>5
  <2> QED BY <1>1, <1>6, <2>1, <2>4, <2>6
<1> QED
  BY <1>5, <1>6

\* What each step does to the answers under way.
LEMMA UnderWaySteps ==
    ASSUME IInv, [Next]_vars
    PROVE  \/ (Open \/ Close) /\ UnderWay' = {}
           \/ SendOk /\ UnderWay' = UnderWay \cup {cur.id}
           \/ /\ RecvReply \/ Recv
              /\ Head(rxC).id \in UnderWay
              /\ \A p \in UnderWay : Head(rxC).id <= p
              /\ UnderWay' = UnderWay \ {Head(rxC).id}
           \/ /\ ReplyUnsent \/ ReplyOverflow \/ Reopen \/ Stop
              /\ UnderWay' \subseteq UnderWay
           \/ /\ (\E c \in AllCmds : Call(c)) \/ SendFail \/ Timeout \/ RecvError
              /\ UnderWay' = UnderWay
           \/ /\ \/ RecvEvent \/ Recv \/ Reply \/ Event \/ EventUnsent
                 \/ Start \/ UNCHANGED vars
              /\ UnderWay' = UnderWay
<1> USE DEF dvars, cvars, gvars
<1>0. /\ rxC \in Seq(Datagram) /\ rxD \in Seq(Request)
      /\ addr \in Nat /\ cur \in Request /\ cur.id \in Nat
      /\ \A j \in DOMAIN rxD : rxD[j].from \in Nat
  BY TypeFacts DEF IInv
<1>u. ASSUME UNCHANGED <<rxC, rxD, conn, addr>> PROVE UnderWay' = UnderWay
  BY <1>u DEF UnderWay
<1>1. CASE Open
  <2>1. \A j \in DOMAIN rxD : rxD[j].from # addr + 1
    BY <1>0 DEF IInv, Numbered
  <2>2. UnderWay' = {}
    BY <1>1, <2>1 DEF Open, NextAddr, UnderWay
  <2> QED BY <1>1, <2>2
<1>2. CASE Close
  BY <1>2 DEF Close, UnderWay
<1>3. CASE (\E c \in AllCmds : Call(c)) \/ SendFail \/ Timeout \/ RecvError
  <2>1. UNCHANGED <<rxC, rxD, conn, addr>>
    BY <1>3 DEF Call, SendFail, Timeout, RecvError, ReturnError
  <2> QED BY <1>3, <1>u, <2>1
<1>4. CASE SendOk
  <2>1. /\ pc = "send" /\ rxD' = Append(rxD, cur)
        /\ UNCHANGED <<rxC, conn, addr>>
    BY <1>4 DEF SendOk
  <2>2. conn # 0 /\ cur.from = addr
    BY <2>1 DEF IInv, Numbered
  <2>3. /\ \A j \in DOMAIN rxD' :
              rxD'[j] = cur \/ (j \in DOMAIN rxD /\ rxD'[j] = rxD[j])
        /\ \A j \in DOMAIN rxD : j \in DOMAIN rxD' /\ rxD'[j] = rxD[j]
        /\ Len(rxD) + 1 \in DOMAIN rxD' /\ rxD'[Len(rxD) + 1] = cur
    BY <1>0, <2>1
  <2>4. UnderWay' = UnderWay \cup {cur.id}
    <3>1. UnderWay' \subseteq UnderWay \cup {cur.id}
      BY <2>1, <2>3 DEF UnderWay
    <3>2. UnderWay \subseteq UnderWay'
      BY <2>1, <2>3 DEF UnderWay
    <3>3. cur.id \in UnderWay'
      BY <2>1, <2>2, <2>3 DEF UnderWay
    <3> QED BY <3>1, <3>2, <3>3
  <2> QED BY <1>4, <2>4
<1>5. CASE RecvEvent
  <2>1. /\ rxC # <<>> /\ rxC' = Tail(rxC) /\ UNCHANGED <<rxD, conn, addr>>
        /\ Head(rxC).kind = "event"
    BY <1>5 DEF RecvEvent
  <2> QED BY <1>5, <2>1, HeadTaken
<1>6. CASE RecvReply
  <2>1. /\ rxC # <<>> /\ rxC' = Tail(rxC) /\ UNCHANGED <<rxD, conn, addr>>
        /\ Head(rxC).kind = "reply"
    BY <1>6 DEF RecvReply
  <2> QED BY <1>6, <2>1, HeadTaken
<1>7. CASE Recv
  <2>1. /\ rxC # <<>> /\ rxC' = Tail(rxC) /\ UNCHANGED <<rxD, conn, addr>>
    BY <1>7 DEF Recv
  <2> QED BY <1>7, <2>1, HeadTaken
<1>8. CASE Reply
  <2>1. PICK t \in Txts : rxC' = Append(rxC, ReplyMsg(Head(rxD).id, t))
    BY <1>8 DEF Reply
  <2> DEFINE m == ReplyMsg(Head(rxD).id, t)
  <2>2. /\ rxD # <<>> /\ rxD' = Tail(rxD) /\ conn # 0
        /\ Head(rxD).from = addr /\ UNCHANGED <<conn, addr>>
    BY <1>8 DEF Reply, Connected
  <2>3. /\ \A j \in DOMAIN rxD' : j + 1 \in DOMAIN rxD /\ rxD'[j] = rxD[j + 1]
        /\ \A j \in DOMAIN rxD :
              j = 1 \/ (j - 1 \in DOMAIN rxD' /\ rxD'[j - 1] = rxD[j])
    BY <1>0, <2>2
  <2>4. Head(rxD) = rxD[1] /\ 1 \in DOMAIN rxD
    BY <1>0, <2>2, TailFacts
  <2>5. m \in Datagram /\ m.id = rxD[1].id /\ m.kind = "reply"
    <3>1. Head(rxD) \in Request
      BY <1>0, <2>2
    <3> QED BY <2>4, <3>1 DEF ReplyMsg, Datagram, Request
  <2> HIDE DEF m
  <2>6. rxC' = Append(rxC, m)
    BY <2>1 DEF m
  <2>7. /\ \A i \in DOMAIN rxC' :
              rxC'[i] = m \/ (i \in DOMAIN rxC /\ rxC'[i] = rxC[i])
        /\ \A i \in DOMAIN rxC : i \in DOMAIN rxC' /\ rxC'[i] = rxC[i]
        /\ Len(rxC) + 1 \in DOMAIN rxC' /\ rxC'[Len(rxC) + 1] = m
    BY <1>0, <2>5, <2>6
  <2>8. m.id \in UnderWay /\ m.id \in UnderWay'
    <3>1. m.id \in UnderWay
      BY <2>2, <2>4, <2>5, UnderWayFacts
    <3>2. m.id \in UnderWay'
      BY <2>5, <2>7 DEF UnderWay
    <3> QED BY <3>1, <3>2
  <2>9. UnderWay' \subseteq UnderWay
    BY <2>2, <2>3, <2>7, <2>8 DEF UnderWay
  <2>10. \A j \in DOMAIN rxD : conn # 0 /\ rxD[j].from = addr =>
            rxD[j].id \in UnderWay'
    BY <2>2, <2>3, <2>5, <2>8 DEF UnderWay
  <2>11. \A i \in DOMAIN rxC : rxC[i].kind = "reply" => rxC[i].id \in UnderWay'
    BY <2>7 DEF UnderWay
  <2>12. \A p \in UnderWay : p \in UnderWay'
    BY <2>10, <2>11, UnderWayFacts
  <2> QED BY <1>8, <2>9, <2>12
<1>9. CASE ReplyUnsent
  <2>1. /\ rxD # <<>> /\ rxD' = Tail(rxD) /\ UNCHANGED <<rxC, conn, addr>>
    BY <1>9 DEF ReplyUnsent
  <2>2. \A j \in DOMAIN rxD' : j + 1 \in DOMAIN rxD /\ rxD'[j] = rxD[j + 1]
    BY <1>0, <2>1, TailFacts
  <2>3. UnderWay' \subseteq UnderWay
    BY <2>1, <2>2 DEF UnderWay
  <2> QED BY <1>9, <2>3
<1>10. CASE ReplyOverflow \/ Reopen \/ Stop
  <2>1. rxD' = <<>> /\ UNCHANGED <<rxC, conn, addr>>
    BY <1>10 DEF ReplyOverflow, Reopen, Stop, Reinit
  <2>2. UnderWay' \subseteq UnderWay
    BY <2>1 DEF UnderWay
  <2> QED BY <1>10, <2>2
<1>11. CASE Event
  <2>1. rxC' = Append(rxC, EventMsg) /\ UNCHANGED <<rxD, conn, addr>>
    BY <1>11 DEF Event
  <2>2. EventMsg \in Datagram /\ EventMsg.kind = "event"
    BY TxtAssumption DEF EventMsg, Datagram
  <2>3. /\ \A i \in DOMAIN rxC' :
              rxC'[i] = EventMsg \/ (i \in DOMAIN rxC /\ rxC'[i] = rxC[i])
        /\ \A i \in DOMAIN rxC : i \in DOMAIN rxC' /\ rxC'[i] = rxC[i]
    BY <1>0, <2>1, <2>2
  <2>4. UnderWay' = UnderWay
    <3>1. UnderWay' \subseteq UnderWay
      BY <2>1, <2>2, <2>3 DEF UnderWay
    <3>2. UnderWay \subseteq UnderWay'
      BY <2>1, <2>3 DEF UnderWay
    <3> QED BY <3>1, <3>2
  <2> QED BY <1>11, <2>4
<1>12. CASE Start \/ EventUnsent \/ UNCHANGED vars
  <2>1. UNCHANGED <<rxC, rxD, conn, addr>>
    BY <1>12 DEF Start, EventUnsent, vars
  <2> QED BY <1>12, <1>u, <2>1
<1> QED
  BY <1>1, <1>2, <1>3, <1>4, <1>5, <1>6, <1>7, <1>8, <1>9, <1>10, <1>11,
     <1>12 DEF Next, Client, Daemon

LEMMA StepLag == IInv /\ LagIsBounded /\ [Next]_vars => LagIsBounded'
<1> SUFFICES ASSUME IInv, LagIsBounded, [Next]_vars
             PROVE  LagIsBounded'
  OBVIOUS
<1> USE DEF dvars, cvars, gvars
<1>1. CASE (Open \/ Close) /\ UnderWay' = {}
  <2>1. abandoned' = {} /\ Cardinality({}) = 0
    BY <1>1, FS_EmptySet DEF Open, Close
  <2> QED BY <1>1, <2>1 DEF LagIsBounded
<1>2. CASE SendOk /\ UnderWay' = UnderWay \cup {cur.id}
  <2>1. pc = "send" /\ pc' = "wait" /\ UNCHANGED abandoned
    BY <1>2 DEF SendOk
  <2>2. Cardinality(UnderWay') \in
           {Cardinality(UnderWay), Cardinality(UnderWay) + 1}
    BY <1>2, LagFinite, FS_AddElement
  <2>3. Cardinality(UnderWay) <= Cardinality(abandoned)
    BY <2>1, LagFinite DEF LagIsBounded
  <2> QED BY <2>1, <2>2, <2>3, LagFinite DEF LagIsBounded
<1>3. CASE /\ RecvReply /\ Head(rxC).id \in UnderWay
           /\ UnderWay' = UnderWay \ {Head(rxC).id}
  <2>1. pc = "wait" /\ pc' = "idle" /\ UNCHANGED abandoned
    BY <1>3 DEF RecvReply
  <2>2. Cardinality(UnderWay') = Cardinality(UnderWay) - 1
    BY <1>3, LagFinite, FS_RemoveElement
  <2> QED BY <2>1, <2>2, LagFinite DEF LagIsBounded
<1>4. CASE Timeout \/ RecvError
  <2>1. /\ pc = "wait" /\ pc' = "idle" /\ UNCHANGED <<rxC, rxD, conn, addr>>
        /\ abandoned' = abandoned \cup {cur.id}
    BY <1>4 DEF Timeout, RecvError, ReturnError
  <2>2. UnderWay' = UnderWay
    BY <2>1 DEF UnderWay
  <2>3. cur.id \notin abandoned
    BY <2>1, TypeFacts DEF IInv, AllOwed, Numbered
  <2>4. Cardinality(abandoned') = Cardinality(abandoned) + 1
    BY <2>1, <2>3, LagFinite, FS_AddElement
  <2> QED BY <2>1, <2>2, <2>4, LagFinite DEF LagIsBounded
<1>5. ASSUME \/ ReplyUnsent \/ ReplyOverflow \/ Reopen \/ Stop \/ SendFail
             \/ RecvEvent \/ Recv \/ Reply \/ Event \/ EventUnsent \/ Start
             \/ UNCHANGED vars \/ \E c \in AllCmds : Call(c),
             UnderWay' \subseteq UnderWay
      PROVE  LagIsBounded'
  <2>1. abandoned' = abandoned /\ (pc = "wait" => pc' = "wait")
    BY <1>5 DEF ReplyUnsent, ReplyOverflow, Reopen, Stop, SendFail,
       ReturnError, RecvEvent, Recv, Reply, Event, EventUnsent, Start, Call,
       vars
  <2> QED BY <1>5, <2>1, LagKept
<1> QED
  BY <1>1, <1>2, <1>3, <1>4, <1>5, UnderWaySteps

\* The connection falls behind by at most one reply per request it gave up on,
\* whatever is lost, late or repeated, for every bound and buffer size.
THEOREM LagBounded == Spec => []LagIsBounded
<1>1. Init => LagIsBounded
  <2> SUFFICES ASSUME Init PROVE LagIsBounded
    OBVIOUS
  <2>1. UnderWay = {} /\ abandoned = {}
    BY DEF Init, UnderWay
  <2> QED BY <2>1, FS_EmptySet DEF Init, LagIsBounded
<1> QED
  BY <1>1, StepLag, InductiveInvariant, PTL DEF Spec
-----------------------------------------------------------------------------
(* The connection implements FifoRpc.  The oldest answer under way is the     *)
(* first reply in the client's socket, because both sockets keep the order of *)
(* the requests; nothing else needs to be known of them.                      *)

LEMMA InitFifo == Init => Fifo!Init
  BY DEF Init, Fifo!Init, UnderWay, NoResult

LEMMA StepFifo == IInv /\ [Next]_vars => [Fifo!Next]_(Fifo!vars)
<1> SUFFICES ASSUME IInv, [Next]_vars PROVE [Fifo!Next]_(Fifo!vars)
  OBVIOUS
<1> USE DEF dvars, cvars, gvars
<1>0. /\ pc # "idle" => cur.id # 0 /\ cur.id = nreq
      /\ conn = 0 => pc = "idle"
      /\ nreq \in Nat /\ pc \in {"idle", "send", "wait"}
  BY DEF IInv, Numbered, TypeOK
<1>1. CASE (Open \/ Close) /\ UnderWay' = {}
  <2>1. /\ pc = "idle" /\ UNCHANGED <<nreq, pc>> /\ last' = NoResult
    BY <1>0, <1>1 DEF Open, Close
  <2>2. Fifo!Reset
    BY <1>1, <2>1 DEF Fifo!Reset, NoResult
  <2> QED BY <2>2 DEF Fifo!Next
<1>2. CASE SendOk /\ UnderWay' = UnderWay \cup {cur.id}
  <2>1. pc = "send" /\ pc' = "wait" /\ UNCHANGED <<nreq, cur, last>>
    BY <1>2 DEF SendOk
  <2>2. Fifo!Send
    BY <1>0, <1>2, <2>1 DEF Fifo!Send
  <2> QED BY <2>2 DEF Fifo!Next
<1>3. CASE /\ RecvReply
           /\ Head(rxC).id \in UnderWay
           /\ \A p \in UnderWay : Head(rxC).id <= p
           /\ UnderWay' = UnderWay \ {Head(rxC).id}
  <2>1. /\ pc = "wait" /\ pc' = "idle" /\ UNCHANGED nreq
        /\ last'.req = cur.id /\ last'.ans = Head(rxC).id
    BY <1>3 DEF RecvReply
  <2>2. Fifo!Return
    BY <1>0, <1>3, <2>1 DEF Fifo!Return, Fifo!Take
  <2> QED BY <2>2 DEF Fifo!Next
<1>4. CASE /\ Recv
           /\ Head(rxC).id \in UnderWay
           /\ \A p \in UnderWay : Head(rxC).id <= p
           /\ UnderWay' = UnderWay \ {Head(rxC).id}
  <2>1. pc = "idle" /\ UNCHANGED <<nreq, pc, last>>
    BY <1>4 DEF Recv
  <2>2. Fifo!Skip
    BY <1>4, <2>1 DEF Fifo!Skip, Fifo!Take
  <2> QED BY <2>2 DEF Fifo!Next
<1>5. CASE /\ ReplyUnsent \/ ReplyOverflow \/ Reopen \/ Stop
           /\ UnderWay' \subseteq UnderWay
  <2>1. UNCHANGED <<nreq, pc, cur, last>>
    BY <1>5 DEF ReplyUnsent, ReplyOverflow, Reopen, Stop
  <2>2. Fifo!Lose
    BY <1>5, <2>1 DEF Fifo!Lose
  <2> QED BY <2>2 DEF Fifo!Next
<1>6. ASSUME NEW c \in AllCmds, Call(c), UnderWay' = UnderWay
      PROVE  Fifo!Next
  <2>1. /\ pc = "idle" /\ pc' = "send" /\ nreq' = nreq + 1
        /\ cur'.id = nreq + 1 /\ UNCHANGED last
    BY <1>6 DEF Call
  <2>2. Fifo!Call
    BY <1>6, <2>1 DEF Fifo!Call
  <2> QED BY <2>2 DEF Fifo!Next
<1>7. CASE (SendFail \/ Timeout \/ RecvError) /\ UnderWay' = UnderWay
  <2>1. /\ pc # "idle" /\ pc' = "idle" /\ UNCHANGED nreq
        /\ last'.req = cur.id /\ last'.ans = 0
    BY <1>7 DEF SendFail, Timeout, RecvError, ReturnError
  <2>2. Fifo!Fail
    BY <1>0, <1>7, <2>1 DEF Fifo!Fail
  <2> QED BY <2>2 DEF Fifo!Next
<1>8. CASE /\ \/ RecvEvent \/ Recv \/ Reply \/ Event \/ EventUnsent
              \/ Start \/ UNCHANGED vars
           /\ UnderWay' = UnderWay
  <2>1. UNCHANGED <<nreq, pc, cur, last>>
    BY <1>8 DEF RecvEvent, Recv, Reply, Event, EventUnsent, Start, vars
  <2> QED BY <1>8, <2>1 DEF Fifo!vars
<1> QED
  BY <1>1, <1>2, <1>3, <1>4, <1>5, <1>6, <1>7, <1>8, UnderWaySteps

\* Calls on a connection return the oldest answer under way, in order, each
\* once, for any commands, bounds and buffer sizes.
THEOREM ConnectionIsFifo == Spec => ImplementsFifo
<1>1. Spec => Fifo!Init /\ [][Fifo!Next]_(Fifo!vars)
  BY InitFifo, StepFifo, InductiveInvariant, PTL DEF Spec
<1> QED
  BY <1>1 DEF ImplementsFifo, Fifo!Spec
-----------------------------------------------------------------------------
(* Registration.  While nothing was abandoned the daemon can only be          *)
(* answering the call in progress, so an OK that wpa_ctrl_attach is about to  *)
(* read was written when this client's entry was added.                       *)

\* A request in the daemon's socket with the number of the call that waits is
\* that call's request.
SameRequest ==
    \A j \in DOMAIN rxD : pc = "wait" /\ rxD[j].id = cur.id => rxD[j] = cur

\* The daemon never reopens a socket it closed: a new one has a new number.
Sockets == conn <= nsock /\ dsock <= nsock

Registered ==
    Connected /\ abandoned = {} =>
        /\ pc = "idle" /\ last.cmd = ATTACH /\ last.ret = "ok" => mon > 0
        /\ pc = "wait" /\ cur.cmd = ATTACH =>
              \A i \in DOMAIN rxC :
                 rxC[i].kind = "reply" /\ rxC[i].txt = OK => mon > 0

AInv == SameRequest /\ Sockets /\ Registered

LEMMA InitAInv == Init => AInv
  BY DEF Init, AInv, SameRequest, Sockets, Registered, NoResult

LEMMA StepSameRequest == IInv /\ AInv /\ [Next]_vars => SameRequest'
<1> SUFFICES ASSUME IInv, AInv, [Next]_vars PROVE SameRequest'
  OBVIOUS
<1> USE DEF dvars, cvars, gvars
<1>0. /\ rxD \in Seq(Request) /\ cur \in Request
      /\ \A j \in DOMAIN rxD : rxD[j].id \in Nat
  BY TypeFacts DEF IInv
<1>1. CASE SendOk
  <2>1. rxD' = Append(rxD, cur) /\ cur' = cur /\ pc = "send"
    BY <1>1 DEF SendOk
  <2>2. \A j \in DOMAIN rxD' :
           rxD'[j] = cur \/ (j \in DOMAIN rxD /\ rxD'[j] = rxD[j])
    BY <1>0, <2>1, AppendFacts
  <2>3. \A j \in DOMAIN rxD : rxD[j].id # cur.id
    BY <1>0, <2>1 DEF IInv, Numbered
  <2> QED BY <2>1, <2>2, <2>3 DEF SameRequest
<1>2. CASE Reply \/ ReplyUnsent
  <2>1. rxD # <<>> /\ rxD' = Tail(rxD) /\ UNCHANGED <<pc, cur>>
    BY <1>2 DEF Reply, ReplyUnsent
  <2>2. \A j \in DOMAIN rxD' : j + 1 \in DOMAIN rxD /\ rxD'[j] = rxD[j + 1]
    BY <1>0, <2>1, TailFacts
  <2> QED BY <2>1, <2>2 DEF AInv, SameRequest
<1>3. CASE ReplyOverflow \/ Reopen \/ Stop
  BY <1>3 DEF ReplyOverflow, Reopen, Stop, Reinit, SameRequest
<1>4. CASE pc' # "wait" \/ UNCHANGED <<rxD, pc, cur>>
  BY <1>4 DEF AInv, SameRequest
<1> QED
  BY <1>1, <1>2, <1>3, <1>4 DEF Next, Client, Daemon, Open, Close, Call,
     SendFail, RecvEvent, RecvReply, Timeout, RecvError, ReturnError, Recv,
     Event, EventUnsent, Start, vars

LEMMA StepSockets == IInv /\ AInv /\ [Next]_vars => Sockets'
<1> SUFFICES ASSUME IInv, AInv, [Next]_vars PROVE Sockets'
  OBVIOUS
<1> USE DEF dvars, cvars, gvars
<1>0. conn \in Nat /\ dsock \in Nat /\ nsock \in Nat /\ Sockets
  BY DEF IInv, TypeOK, AInv
<1>1. CASE Open \/ Close
  BY <1>0, <1>1 DEF Open, Close, Sockets
<1>2. CASE ReplyOverflow \/ Reopen
  <2>1. Reinit /\ conn' = conn
    BY <1>2 DEF ReplyOverflow, Reopen
  <2> QED BY <1>0, <2>1 DEF Reinit, Sockets
<1>3. CASE Stop \/ Start
  BY <1>0, <1>3 DEF Stop, Start, Sockets
<1>4. CASE UNCHANGED <<conn, dsock, nsock>>
  BY <1>0, <1>4 DEF Sockets
<1> QED
  BY <1>1, <1>2, <1>3, <1>4 DEF Next, Client, Daemon, Call, SendOk,
     SendFail, RecvEvent, RecvReply, Timeout, RecvError, ReturnError, Recv,
     Reply, ReplyUnsent, Event, EventUnsent, vars

LEMMA StepRegistered == IInv /\ AInv /\ [Next]_vars => Registered'
<1> SUFFICES ASSUME IInv, AInv, [Next]_vars PROVE Registered'
  OBVIOUS
<1> USE DEF dvars, cvars, gvars
<1>0. /\ rxC \in Seq(Datagram) /\ rxD \in Seq(Request) /\ cur \in Request
      /\ conn \in Nat /\ dsock \in Nat /\ nsock \in Nat /\ mon \in Nat
      /\ Registered /\ Sockets /\ SameRequest
  BY DEF IInv, TypeOK, AInv
<1>1. CASE Open \/ Close
  <2>1. last'.ret = "none" /\ rxC' = <<>>
    BY <1>1 DEF Open, Close, NoResult
  <2> QED BY <2>1 DEF Registered
<1>2. ASSUME NEW c \in AllCmds, Call(c) PROVE Registered'
  BY <1>2 DEF Call, Registered
<1>3. CASE SendOk
  <2>1. /\ pc = "send" /\ pc' = "wait"
        /\ UNCHANGED <<rxC, cur, last, abandoned, mon, conn, dsock>>
    BY <1>3 DEF SendOk
  <2>2. ASSUME abandoned = {} PROVE \A i \in DOMAIN rxC : rxC[i].kind # "reply"
    BY <2>1, <2>2 DEF IInv, AllOwed, Owed
  <2> QED BY <2>1, <2>2 DEF Registered
<1>4. CASE SendFail
  <2>1. pc' = "idle" /\ last'.ret = "fail"
    BY <1>4 DEF SendFail, ReturnError
  <2> QED BY <2>1 DEF Registered
<1>5. CASE Timeout \/ RecvError
  <2>1. pc' = "idle" /\ last'.ret \in {"fail", "timeout"}
    BY <1>5 DEF Timeout, RecvError, ReturnError
  <2> QED BY <2>1 DEF Registered
<1>6. CASE RecvEvent \/ Recv
  <2>1. /\ rxC # <<>> /\ rxC' = Tail(rxC)
        /\ UNCHANGED <<pc, cur, last, abandoned, mon, conn, dsock>>
    BY <1>6 DEF RecvEvent, Recv
  <2>2. \A i \in DOMAIN rxC' : i + 1 \in DOMAIN rxC /\ rxC'[i] = rxC[i + 1]
    BY <1>0, <2>1, TailFacts
  <2> QED BY <1>0, <2>1, <2>2 DEF Registered, Connected
<1>7. CASE RecvReply
  <2>1. /\ pc = "wait" /\ pc' = "idle" /\ rxC # <<>>
        /\ Head(rxC).kind = "reply"
        /\ last'.cmd = cur.cmd
        /\ last'.ret = RetOfReply(cur.cmd, Head(rxC).txt)
        /\ UNCHANGED <<abandoned, mon, conn, dsock>>
    BY <1>7 DEF RecvReply
  <2>2. Head(rxC) = rxC[1] /\ 1 \in DOMAIN rxC
    BY <1>0, <2>1, TailFacts
  <2>3. last'.cmd = ATTACH /\ last'.ret = "ok" => rxC[1].txt = OK
    BY <2>1, <2>2 DEF RetOfReply
  <2> QED BY <1>0, <2>1, <2>2, <2>3 DEF Registered, Connected
<1>8. CASE Reply
  <2>1. /\ Connected /\ rxD # <<>> /\ Head(rxD).from = addr
        /\ UNCHANGED <<pc, cur, last, abandoned, conn, dsock>>
    BY <1>8 DEF Reply
  <2>2. PICK t \in Txts :
           /\ MayAnswer(Head(rxD), t)
           /\ mon' = MonAfter(Head(rxD), t)
           /\ rxC' = Append(rxC, ReplyMsg(Head(rxD).id, t))
    BY <1>8 DEF Reply
  <2>3. Head(rxD) = rxD[1] /\ 1 \in DOMAIN rxD
    BY <1>0, <2>1, TailFacts
  <2> SUFFICES ASSUME abandoned = {} PROVE Registered'
    BY <2>1 DEF Registered
  <2>4. pc = "wait" /\ rxD[1].id = cur.id
    <3>1. Owed(rxD[1].id)
      BY <2>1, <2>3 DEF Connected, IInv, AllOwed
    <3> QED BY <3>1 DEF Owed
  <2>5. Head(rxD) = cur
    BY <1>0, <2>3, <2>4 DEF SameRequest
  <2> SUFFICES ASSUME cur.cmd = ATTACH, NEW i \in DOMAIN rxC',
                      rxC'[i].kind = "reply", rxC'[i].txt = OK
               PROVE  mon' > 0
    BY <2>1, <2>4 DEF Registered
  <2>6. CASE t = OK
    <3>1. MonAfter(Head(rxD), t) = mon + 1
      BY <2>5, <2>6, CmdAssumption, Zenon DEF MonAfter
    <3> QED BY <1>0, <2>2, <3>1
  <2>7. CASE t # OK
    <3>1. MonAfter(Head(rxD), t) = mon
      BY <2>5, <2>7, CmdAssumption DEF MonAfter
    <3>2. ReplyMsg(cur.id, t) \in Datagram /\ ReplyMsg(cur.id, t).txt = t
      BY <1>0 DEF ReplyMsg, Datagram, Request
    <3>3. i \in DOMAIN rxC /\ rxC'[i] = rxC[i]
      BY <1>0, <2>2, <2>5, <2>7, <3>2, AppendFacts
    <3> QED BY <1>0, <2>1, <2>2, <2>4, <3>1, <3>3 DEF Registered
  <2> QED BY <2>6, <2>7
<1>9. CASE ReplyOverflow \/ Reopen \/ Stop \/ Start
  <2>1. ~Connected'
    <3>1. CASE ReplyOverflow \/ Reopen
      <4>1. Reinit /\ conn' = conn
        BY <3>1 DEF ReplyOverflow, Reopen
      <4> QED BY <1>0, <4>1 DEF Reinit, Sockets, Connected
    <3>2. CASE Stop \/ Start
      BY <1>0, <3>2 DEF Stop, Start, Sockets, Connected
    <3> QED BY <1>9, <3>1, <3>2
  <2> QED BY <2>1 DEF Registered
<1>10. CASE ReplyUnsent
  BY <1>0, <1>10 DEF ReplyUnsent, Registered, Connected
<1>11. CASE Event
  <2>1. mon > 0 /\ mon' = mon
    BY <1>11 DEF Event
  <2> QED BY <2>1 DEF Registered
<1>12. CASE EventUnsent
  <2>1. ~Connected'
    BY <1>12 DEF EventUnsent, Connected
  <2> QED BY <2>1 DEF Registered
<1>13. CASE UNCHANGED vars
  BY <1>0, <1>13 DEF vars, Registered, Connected
<1> QED
  BY <1>1, <1>2, <1>3, <1>4, <1>5, <1>6, <1>7, <1>8, <1>9, <1>10, <1>11,
     <1>12, <1>13 DEF Next, Client, Daemon

\* A wpa_ctrl_attach that returned 0 on a connection that lasts and gave up on
\* nothing has its entry in ctrl_dst, however often the daemon reopened its
\* socket before.
THEOREM AttachRegisters == Spec => []AttachedIsRegistered
<1>1. IInv /\ AInv /\ [Next]_vars => AInv'
  BY StepSameRequest, StepSockets, StepRegistered DEF AInv
<1>2. AInv => AttachedIsRegistered
  BY DEF AInv, Registered, AttachedIsRegistered
<1> QED
  BY <1>1, <1>2, InitAInv, InductiveInvariant, PTL DEF Spec
-----------------------------------------------------------------------------
(* What the callers of the connection rely on. *)

\* The connection is open and no request on it was given up on.
Clean == conn # 0 /\ abandoned = {}

\* While nothing was given up on, the socket holds at most one reply, and that
\* to the request in progress.
LEMMA CleanFacts ==
    ASSUME IInv, AInv, Clean
    PROVE  /\ \A i \in DOMAIN rxC : rxC[i].kind = "reply" => pc = "wait"
           /\ \A i, j \in DOMAIN rxC :
                 rxC[i].kind = "reply" /\ rxC[j].kind = "reply" => i = j
           /\ \A j \in DOMAIN rxD : rxD[j].from = addr =>
                 /\ pc = "wait" /\ rxD[j] = cur
                 /\ \A i \in DOMAIN rxC : rxC[i].kind # "reply"
<1>0. /\ rxC \in Seq(Datagram) /\ rxD \in Seq(Request) /\ cur.id \in Nat
      /\ DOMAIN rxC \subseteq Nat
  BY TypeFacts DEF IInv
<1>1. \A i \in DOMAIN rxC : rxC[i].kind = "reply" =>
         pc = "wait" /\ rxC[i].id = cur.id
  BY DEF IInv, AllOwed, Owed, Clean
<1>2. \A j \in DOMAIN rxD : rxD[j].from = addr =>
         pc = "wait" /\ rxD[j].id = cur.id
  BY DEF IInv, AllOwed, Owed, Clean
<1>3. ASSUME NEW i \in DOMAIN rxC, NEW j \in DOMAIN rxC,
             rxC[i].kind = "reply", rxC[j].kind = "reply", i < j
      PROVE  FALSE
  BY <1>0, <1>1, <1>3 DEF IInv, Ordered
<1>4. \A i, j \in DOMAIN rxC :
         rxC[i].kind = "reply" /\ rxC[j].kind = "reply" => i = j
  BY <1>0, <1>3
<1>5. ASSUME NEW j \in DOMAIN rxD, rxD[j].from = addr
      PROVE  /\ pc = "wait" /\ rxD[j] = cur
             /\ \A i \in DOMAIN rxC : rxC[i].kind # "reply"
  <2>1. rxD[j] = cur
    BY <1>2, <1>5 DEF AInv, SameRequest
  <2>2. \A i \in DOMAIN rxC : rxC[i].kind = "reply" => cur.id < cur.id
    BY <1>1, <2>1 DEF IInv, Ordered
  <2> QED BY <1>0, <1>2, <1>5, <2>1, <2>2
<1> QED
  BY <1>1, <1>4, <1>5
=============================================================================
