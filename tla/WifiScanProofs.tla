--------------------------- MODULE WifiScanProofs ----------------------------
(***************************************************************************)
(* Proofs about get_wifi_scan_results, for any access points, reply sizes    *)
(* and bounds.  The library's steps are steps of the connection, so what is  *)
(* proved of it in WpaCtrlProofs holds here: while nothing was given up on,  *)
(* only the request in progress is under way.                               *)
(***************************************************************************)
EXTENDS WifiScan, WpaCtrlProofs

LEMMA CmdFacts ==
    /\ "SCAN" \in AllCmds /\ "SCAN_RESULTS" \in AllCmds
    /\ "SCAN" # ATTACH /\ "SCAN" # DETACH
    /\ "SCAN_RESULTS" # ATTACH /\ "SCAN_RESULTS" # DETACH
    /\ \A s : CmdOf(s) \in AllCmds
  BY ScanAssumption, CmdAssumption DEF AllCmds, ScanCmds, CmdOf

\* A step of the library, the user or the daemon is a step of the connection
\* or leaves it alone.
LEMMA ConnectionStep == [ScanNext]_allvars => [Next]_vars
<1> SUFFICES ASSUME [ScanNext]_allvars PROVE [Next]_vars
  OBVIOUS
<1>1. CASE Library
  BY <1>1, CmdFacts DEF Library, ScanSendOk, ScanRecvReply, ScanGivenUp,
     ScanRecvError, ScanSendFail, Issue, ResumeScan, ResumeResults, Returned,
     Next, Client
<1>2. CASE User
  BY <1>2 DEF User, InitWpaCli, DeinitWpaCli, GetWifiScanResults, Next, Client
<1>3. CASE Wpas
  BY <1>3 DEF Wpas, ScanReply, ScanReplyUnsent, ScanReopen, ScanStop,
     ScanStart, ScanTimeout, TriggerScan, ScanResults, OtherResults,
     SetState, Disable, Enable, DaemonOnly, Next, Daemon
<1>4. CASE UNCHANGED allvars
  BY <1>4 DEF allvars
<1> QED
  BY <1>1, <1>2, <1>3, <1>4 DEF ScanNext

LEMMA ConnectionInvariant == ScanSpec => [](IInv /\ AInv)
<1>1. ScanInit => IInv /\ AInv
  BY InitIInv, InitAInv DEF ScanInit
<1>2. IInv /\ AInv /\ [ScanNext]_allvars => (IInv /\ AInv)'
  BY ConnectionStep, StepType, StepOrdered, StepNumbered, StepOwed,
     StepMatches, StepSameRequest, StepSockets, StepRegistered
     DEF IInv, AInv
<1> QED
  BY <1>1, <1>2, PTL DEF ScanSpec
-----------------------------------------------------------------------------
(* Types *)

\* The two halves of the state that ScanTypeOK speaks of.
LibraryOK ==
    /\ at \in {"idle", "scan", "scan_results"} /\ asked \in BOOLEAN
    /\ ret \in {"none", "null", "list"} /\ items \subseteq BSSs

DaemonOK ==
    /\ wstate \in {"disabled", "joining", "rest"}
    /\ due \in BOOLEAN /\ scanning \in BOOLEAN /\ work \in BOOLEAN
    /\ driver \in BOOLEAN /\ pending \in Nat /\ table \in Tables
    /\ scanning => work /\ driver
    /\ wstate = "disabled" => table = <<>> /\ ~work /\ pending = 0

GhostOK == accepted \in BOOLEAN /\ snap \subseteq Tables

LEMMA TypeParts == ScanTypeOK <=> TypeOK /\ LibraryOK /\ DaemonOK /\ GhostOK
  BY DEF ScanTypeOK, LibraryOK, DaemonOK, GhostOK

LEMMA EmptyTable == <<>> \in Tables
<1>1. <<>> \in [1 .. 0 -> BSSs]
  OBVIOUS
<1>2. Cardinality(BSSs) \in Nat => <<>> \in SeqOf(BSSs, Cardinality(BSSs))
  BY <1>1 DEF SeqOf
<1>3. IsFiniteSet(BSSs) => Cardinality(BSSs) \in Nat
  BY FS_CardinalityType
<1>4. IsInjective(<<>>)
  BY DEF IsInjective
<1> QED
  BY <1>2, <1>3, <1>4, BssAssumption DEF Tables

\* The lines of a table are among its BSSs, and are all those to be listed
\* when the table fits.
LEMMA LinesFacts ==
    ASSUME NEW t \in Tables
    PROVE  /\ LinesOf(t) \subseteq ToSet(t) /\ ToSet(t) \subseteq BSSs
           /\ LinesOf(t) \cap Unlisted = {}
           /\ Len(t) <= MaxLines => ToSet(t) \ Unlisted \subseteq LinesOf(t)
<1> DEFINE listed == {k \in DOMAIN t : t[k] \notin Unlisted}
<1>1. /\ t \in Seq(BSSs) /\ DOMAIN t = 1 .. Len(t) /\ Len(t) \in Nat
  BY DEF Tables, SeqOf
<1>2. ToSet(t) \subseteq BSSs
  BY <1>1 DEF ToSet
<1>3. LinesOf(t) \subseteq ToSet(t) /\ LinesOf(t) \cap Unlisted = {}
  BY DEF LinesOf, ToSet
<1>4. ASSUME Len(t) <= MaxLines, NEW k \in listed
      PROVE  t[k] \in LinesOf(t)
  <2>1. k \in 1 .. Len(t) /\ MaxLines \in Nat
    BY <1>1, BssAssumption
  <2>2. /\ IsFiniteSet(1 .. k) /\ Cardinality(1 .. k) = k
    BY <2>1, FS_Interval
  <2>3. /\ Cardinality(listed \cap (1 .. k)) <= k
        /\ Cardinality(listed \cap (1 .. k)) \in Nat
    BY <2>2, FS_Subset, FS_CardinalityType
  <2>4. Cardinality(listed \cap (1 .. k)) <= MaxLines
    BY <1>4, <2>1, <2>3
  <2> QED BY <2>4 DEF LinesOf
<1> QED
  BY <1>2, <1>3, <1>4 DEF ToSet
LEMMA TextFacts ==
    ASSUME NEW t \in Txts
    PROVE  /\ t.lines \subseteq BSSs
           /\ t.k = "ok" <=> t = OkTxt
  BY ScanAssumption DEF ScanTxts, Txt, OkTxt, FailTxt, BusyTxt

LEMMA InitScanType == ScanInit => ScanTypeOK
<1> SUFFICES ASSUME ScanInit PROVE ScanTypeOK
  OBVIOUS
<1>1. TypeOK
  BY InitIInv DEF ScanInit, IInv
<1>2. LibraryOK /\ GhostOK
  BY DEF ScanInit, LibraryOK, GhostOK
<1>3. DaemonOK
  BY EmptyTable DEF ScanInit, DaemonOK
<1> QED
  BY <1>1, <1>2, <1>3, TypeParts

LEMMA StepLibraryOK ==
    ASSUME ScanTypeOK, [ScanNext]_allvars PROVE LibraryOK'
<1>0. LibraryOK /\ TypeOK
  BY TypeParts
<1> USE DEF svars
<1>1. CASE UNCHANGED svars
  BY <1>0, <1>1 DEF LibraryOK
<1>2. CASE Issue
  BY <1>0, <1>2 DEF Issue, LibraryOK
<1>3. CASE ResumeScan
  BY <1>0, <1>3 DEF ResumeScan, Returned, LibraryOK
<1>4. CASE ResumeResults
  <2>1. ItemsOf(last.txt) \subseteq BSSs
    BY <1>0, TextFacts DEF TypeOK, Result, ItemsOf
  <2> QED BY <1>0, <1>4, <2>1 DEF ResumeResults, Returned, LibraryOK
<1>5. CASE GetWifiScanResults
  BY <1>0, <1>5 DEF GetWifiScanResults, LibraryOK
<1>6. CASE DeinitWpaCli
  BY <1>0, <1>6 DEF DeinitWpaCli, LibraryOK
<1> QED
  BY <1>1, <1>2, <1>3, <1>4, <1>5, <1>6
     DEF ScanNext, Library, User, Wpas, ScanSendOk, ScanRecvReply,
     ScanGivenUp, ScanRecvError, ScanSendFail, Fault, InitWpaCli, ScanReply,
     ScanReplyUnsent, Handled, ScanReopen, ScanStop, ScanStart, ScanTimeout,
     TriggerScan, ScanResults, OtherResults, SetState, Disable, Enable,
     DaemonOnly, allvars

LEMMA StepDaemonOK ==
    ASSUME ScanTypeOK, [ScanNext]_allvars PROVE DaemonOK'
<1>0. DaemonOK
  BY TypeParts
<1> USE DEF bvars
<1>1. CASE UNCHANGED bvars
  BY <1>0, <1>1 DEF DaemonOK
<1>2. ASSUME NEW c, Handled(c) PROVE DaemonOK'
  BY <1>0, <1>2 DEF Handled, DaemonOK
<1>3. CASE ScanStart
  BY <1>3, EmptyTable DEF ScanStart, DaemonOK
<1>4. CASE ScanTimeout
  <2>1. /\ due' = FALSE /\ UNCHANGED <<work, driver, table>>
        /\ \/ UNCHANGED <<wstate, scanning, pending>>
           \/ /\ wstate # "disabled" /\ wstate' = "rest" /\ scanning' = FALSE
              /\ UNCHANGED pending
           \/ /\ wstate # "disabled" /\ pending' = pending + 1
              /\ UNCHANGED <<wstate, scanning>>
    BY <1>4 DEF ScanTimeout
  <2>2. /\ pending' \in Nat
        /\ wstate = "disabled" => pending' = 0
    BY <1>0, <2>1 DEF DaemonOK
  <2>3. /\ due' \in BOOLEAN /\ scanning' \in {scanning, FALSE}
        /\ wstate' \in {"disabled", "joining", "rest"}
        /\ wstate' = "disabled" <=> wstate = "disabled"
    BY <1>0, <2>1 DEF DaemonOK
  <2>4. UNCHANGED <<work, driver, table>>
    BY <2>1
  <2>5. CASE scanning' = scanning
    BY <1>0, <2>2, <2>3, <2>4, <2>5 DEF DaemonOK
  <2>6. CASE scanning' = FALSE
    BY <1>0, <2>2, <2>3, <2>4, <2>6 DEF DaemonOK
  <2> QED BY <2>3, <2>5, <2>6
<1>5. CASE TriggerScan
  <2>1. /\ pending > 0 /\ pending' = pending - 1
        /\ UNCHANGED <<wstate, table>> /\ due' \in {due, TRUE}
        /\ \/ work' = TRUE /\ scanning' = TRUE /\ driver' = TRUE
           \/ scanning' = FALSE /\ UNCHANGED <<work, driver>>
    BY <1>5 DEF TriggerScan
  <2>2. pending' \in Nat /\ wstate # "disabled"
    BY <1>0, <2>1 DEF DaemonOK
  <2> QED BY <1>0, <2>1, <2>2 DEF DaemonOK
<1>6. CASE ScanResults
  <2>1. driver' = FALSE /\ UNCHANGED pending
    BY <1>6 DEF ScanResults
  <2>2. CASE UNCHANGED <<wstate, due, work, scanning, table>>
             /\ wstate = "disabled"
    BY <1>0, <2>1, <2>2 DEF DaemonOK
  <2>3. CASE /\ wstate # "disabled" /\ scanning' = FALSE
             /\ work' \in {work, FALSE} /\ table' \in Tables
             /\ wstate' \in {wstate, "rest"} /\ due' \in {due, TRUE}
    BY <1>0, <2>1, <2>3 DEF DaemonOK
  <2>4. table \in Tables
    BY <1>0 DEF DaemonOK
  <2> QED BY <1>6, <2>2, <2>3, <2>4 DEF ScanResults, Rescanned
<1>7. CASE OtherResults
  <2>1. table' \in Tables
    BY <1>7 DEF OtherResults, Rescanned
  <2> QED BY <1>0, <1>7, <2>1 DEF OtherResults, DaemonOK
<1>8. CASE SetState
  BY <1>0, <1>8 DEF SetState, DaemonOK
<1>9. CASE Disable
  BY <1>0, <1>9, EmptyTable DEF Disable, DaemonOK
<1>10. CASE Enable
  BY <1>0, <1>10 DEF Enable, DaemonOK
<1> QED
  BY <1>1, <1>2, <1>3, <1>4, <1>5, <1>6, <1>7, <1>8, <1>9, <1>10
     DEF ScanNext, Library, User, Wpas, ScanSendOk, ScanRecvReply,
     ScanGivenUp, ScanRecvError, ScanSendFail, Fault, InitWpaCli, ScanReply,
     ScanReplyUnsent, ScanReopen, ScanStop, Issue, ResumeScan,
     ResumeResults, Returned, GetWifiScanResults, DeinitWpaCli, allvars

LEMMA StepGhostOK ==
    ASSUME ScanTypeOK, [ScanNext]_allvars PROVE GhostOK'
<1>0. GhostOK /\ table \in Tables
  BY TypeParts DEF DaemonOK
<1> USE DEF hvars
<1>1. CASE UNCHANGED hvars
  BY <1>0, <1>1 DEF GhostOK
<1>2. CASE ScanReply
  BY <1>0, <1>2 DEF ScanReply, GhostOK
<1>3. CASE GetWifiScanResults
  BY <1>3 DEF GetWifiScanResults, GhostOK
<1> QED
  BY <1>1, <1>2, <1>3
     DEF ScanNext, Library, User, Wpas, ScanSendOk, ScanRecvReply,
     ScanGivenUp, ScanRecvError, ScanSendFail, Fault, InitWpaCli,
     ScanReplyUnsent, ScanReopen, ScanStop, ScanStart, Issue, ResumeScan,
     ResumeResults, Returned, DeinitWpaCli, ScanTimeout, TriggerScan,
     ScanResults, OtherResults, SetState, Disable, Enable, DaemonOnly, allvars

LEMMA StepScanType == ScanTypeOK /\ [ScanNext]_allvars => ScanTypeOK'
<1> SUFFICES ASSUME ScanTypeOK, [ScanNext]_allvars PROVE ScanTypeOK'
  OBVIOUS
<1>1. TypeOK'
  BY ConnectionStep, StepType, TypeParts
<1> QED
  BY <1>1, TypeParts, StepLibraryOK, StepDaemonOK, StepGhostOK
     DEF ScanTypeOK, LibraryOK, DaemonOK, GhostOK

\* The variables keep their types, the table its form, and the flags of a scan
\* agree, on the connection as it is.
THEOREM ScanTypeCorrect == ScanSpec => []ScanTypeOK
<1> QED
  BY InitScanType, StepScanType, PTL DEF ScanSpec
-----------------------------------------------------------------------------
(* What the call knows.  The invariant follows the two requests of a call     *)
(* from their replies in the socket to the list that is returned.             *)

\* The request in progress is the one the call is at; without a session there
\* is no call, and the last one returned nothing.
Control ==
    /\ pc # "idle" => at # "idle" /\ asked /\ cur.cmd = CmdOf(at)
    /\ asked => at # "idle"
    /\ conn = 0 => at = "idle" /\ ret # "list" /\ (ret = "null" => ~accepted)

\* The text t answers SCAN_RESULTS in this call.
Snapshot(t) == \E T \in snap : t = Txt("scan", LinesOf(T))

\* SCAN is to be sent; its reply is in the socket; its reply was read.
ScanPhase ==
    /\ at = "scan" /\ (~asked \/ pc = "send") => ~accepted
    /\ at = "scan" /\ pc = "wait" =>
          (accepted <=> \E i \in DOMAIN rxC :
                           rxC[i].kind = "reply" /\ rxC[i].txt = OkTxt)
    /\ at = "scan" /\ asked /\ pc = "idle" /\ last.ret = "ok" =>
          (accepted <=> last.txt = OkTxt)

\* The same for SCAN_RESULTS.
ResultsPhase ==
    /\ at = "scan_results" => accepted
    /\ at = "scan_results" /\ pc = "wait" =>
          \A i \in DOMAIN rxC : rxC[i].kind = "reply" => Snapshot(rxC[i].txt)
    /\ at = "scan_results" /\ asked /\ pc = "idle" /\ last.ret = "ok" =>
          Snapshot(last.txt)

\* The call has returned.
ReturnPhase ==
    at = "idle" =>
        /\ ret = "list" => accepted /\ \E t : Snapshot(t) /\ items = ItemsOf(t)
        /\ ret = "null" /\ accepted => last.ret # "ok"

SInv == Control /\ (Clean => ScanPhase /\ ResultsPhase /\ ReturnPhase)

LEMMA InitSInv == ScanInit => SInv
  BY DEF ScanInit, Init, SInv, Control, Clean, CmdOf

LEMMA StepControl ==
    ASSUME IInv, SInv, LibraryOK, [ScanNext]_allvars PROVE Control'
<1>0. Control
  BY DEF SInv
<1> USE DEF dvars, cvars, gvars, vars, svars, bvars, hvars
<1>1. CASE UNCHANGED <<at, asked, ret, accepted, conn, cur>> /\ (pc' = pc \/ pc' = "idle")
  BY <1>0, <1>1 DEF Control
<1>2. CASE ScanSendOk
  <2>1. pc = "send" /\ UNCHANGED <<at, asked, ret, accepted, conn, cur>>
    BY <1>2 DEF ScanSendOk, SendOk
  <2> QED BY <1>0, <2>1 DEF Control
<1>3. CASE Issue
  <2>1. /\ at # "idle" /\ asked' = TRUE /\ conn # 0
        /\ cur'.cmd = CmdOf(at) /\ UNCHANGED <<at, ret, accepted, conn>>
    BY <1>3 DEF Issue, Call
  <2> QED BY <1>0, <2>1 DEF Control
<1>4. CASE ResumeScan \/ ResumeResults
  <2>1. /\ at # "idle" /\ asked' = FALSE /\ pc' = "idle"
        /\ UNCHANGED <<accepted, conn>>
    BY <1>4 DEF ResumeScan, ResumeResults, Returned
  <2>2. conn # 0
    BY <1>0, <2>1 DEF Control
  <2> QED BY <2>1, <2>2 DEF Control
<1>5. CASE InitWpaCli
  <2>1. at = "idle" /\ conn = 0 /\ UNCHANGED <<at, asked, ret, accepted, pc>>
    BY <1>5 DEF InitWpaCli, Open
  <2> QED BY <1>0, <2>1 DEF Control
<1>6. CASE DeinitWpaCli
  <2>1. /\ at = "idle" /\ ret' = "none" /\ pc' = "idle"
        /\ UNCHANGED <<at, asked>>
    BY <1>6 DEF DeinitWpaCli, Close
  <2> QED BY <1>0, <2>1 DEF Control
<1>7. CASE GetWifiScanResults
  <2>1. /\ at = "idle" /\ accepted' = FALSE /\ UNCHANGED <<vars, asked>>
        /\ IF conn # 0 THEN at' = "scan" /\ ret' = "none"
                       ELSE at' = "idle" /\ ret' = "null"
    BY <1>7 DEF GetWifiScanResults
  <2> QED BY <1>0, <2>1 DEF Control
<1>8. CASE ScanReply
  <2>1. conn # 0 /\ UNCHANGED <<at, asked, ret, conn, cur, pc>>
    BY <1>8 DEF ScanReply, Reply, Handled, Connected
  <2> QED BY <1>0, <2>1 DEF Control
<1>9. CASE Wpas /\ ~ScanReply
  <2>1. UNCHANGED <<at, asked, ret, accepted, conn, cur, pc>>
    BY <1>9 DEF Wpas, ScanReplyUnsent, ReplyUnsent, Handled, ScanReopen,
       Reopen, ScanStop, Stop, ScanStart, Start, Fault, ScanTimeout,
       TriggerScan, ScanResults, OtherResults, SetState, Disable, Enable,
       DaemonOnly
  <2> QED BY <1>1, <2>1
<1>10. CASE ScanRecvReply \/ ScanGivenUp \/ ScanRecvError \/ ScanSendFail
  <2>1. pc' = "idle" /\ UNCHANGED <<at, asked, ret, accepted, conn, cur>>
    BY <1>10 DEF ScanRecvReply, RecvReply, ScanGivenUp, Timeout,
       ScanRecvError, RecvError, ScanSendFail, SendFail, ReturnError, Fault
  <2> QED BY <1>1, <2>1
<1>11. CASE UNCHANGED allvars
  BY <1>1, <1>11 DEF allvars
<1> QED
  BY <1>2, <1>3, <1>4, <1>5, <1>6, <1>7, <1>8, <1>9, <1>10, <1>11
     DEF ScanNext, Library, User

Phases == ScanPhase /\ ResultsPhase /\ ReturnPhase

\* The daemon answers the request in progress.
LEMMA ReplyPhases ==
    ASSUME IInv, AInv, SInv, ScanTypeOK, ScanReply, Clean PROVE Phases'
<1> DEFINE r == Head(rxD)
<1>0. /\ rxC \in Seq(Datagram) /\ rxD \in Seq(Request) /\ cur \in Request
      /\ at \in {"scan", "scan_results", "idle"} /\ table \in Tables
  BY TypeFacts, TypeParts DEF IInv, LibraryOK, DaemonOK
<1>1. /\ rxD # <<>> /\ r.from = addr
      /\ UNCHANGED <<pc, cur, last, conn, abandoned, at, asked, ret, items>>
  BY DEF ScanReply, Reply, Handled, svars, gvars
<1>2. r = rxD[1] /\ 1 \in DOMAIN rxD
  BY <1>0, <1>1, TailFacts
<1>3. /\ pc = "wait" /\ r = cur
      /\ \A i \in DOMAIN rxC : rxC[i].kind # "reply"
  BY <1>1, <1>2, CleanFacts
<1>4. PICK t \in Txts : rxC' = Append(rxC, ReplyMsg(cur.id, t))
  BY <1>3 DEF ScanReply, Reply
<1> DEFINE m == ReplyMsg(cur.id, t)
<1>5. m \in Datagram /\ m.txt = t /\ m.kind = "reply"
  BY <1>0 DEF ReplyMsg, Datagram, Request
<1> HIDE DEF m, r
<1>6. /\ rxC' = Append(rxC, m)
      /\ rxC'[Len(rxC')] = m /\ Len(rxC') \in DOMAIN rxC'
      /\ \A i \in DOMAIN rxC' : rxC'[i].kind = "reply" => rxC'[i] = m
  <2>1. rxC' = Append(rxC, m)
    BY <1>4 DEF m
  <2>2. \A i \in DOMAIN rxC' :
           \/ i \in DOMAIN rxC /\ rxC'[i] = rxC[i]
           \/ i = Len(rxC) + 1 /\ rxC'[i] = m
    BY <1>0, <1>5, <2>1, AppendFacts
  <2>3. rxC'[Len(rxC')] = m /\ Len(rxC') \in DOMAIN rxC'
    BY <1>0, <1>5, <2>1
  <2> QED BY <1>3, <2>1, <2>2, <2>3
<1>7. /\ t = Handle(cur.cmd)
      /\ accepted' = (accepted \/ (cur.cmd = "SCAN" /\ t = OkTxt))
      /\ snap' = IF cur.cmd = "SCAN_RESULTS" THEN {table} ELSE snap
  <2>1. /\ rxC'[Len(rxC')].txt = Handle(r.cmd)
        /\ accepted' = (accepted \/ (r.id = cur.id /\ r.cmd = "SCAN"
                                     /\ Handle(r.cmd) = OkTxt))
        /\ snap' = IF r.id = cur.id /\ r.cmd = "SCAN_RESULTS"
                   THEN {table} ELSE snap
    BY DEF ScanReply, r
  <2> QED BY <1>3, <1>5, <1>6, <2>1
<1>8. at # "idle" /\ asked /\ cur.cmd = CmdOf(at)
  BY <1>3 DEF SInv, Control
<1>9. CASE at = "scan"
  <2>1. cur.cmd = "SCAN" /\ ~accepted
    BY <1>3, <1>8, <1>9 DEF CmdOf, SInv, ScanPhase
  <2>2. accepted' <=> t = OkTxt
    BY <1>7, <2>1
  <2> QED BY <1>1, <1>3, <1>5, <1>6, <1>8, <1>9, <2>2
          DEF Phases, ScanPhase, ResultsPhase, ReturnPhase
<1>10. CASE at = "scan_results"
  <2>1. cur.cmd = "SCAN_RESULTS" /\ accepted
    BY <1>8, <1>10 DEF CmdOf, SInv, ResultsPhase
  <2>2. t = Txt("scan", LinesOf(table)) /\ snap' = {table} /\ accepted'
    BY <1>7, <2>1 DEF Handle
  <2>3. Snapshot(t)'
    BY <2>2 DEF Snapshot
  <2> QED BY <1>1, <1>3, <1>5, <1>6, <1>10, <2>2, <2>3
          DEF Phases, ScanPhase, ResultsPhase, ReturnPhase, Snapshot
<1> QED
  BY <1>0, <1>8, <1>9, <1>10

\* A request returns with the reply that is first in the socket.
LEMMA RecvPhases ==
    ASSUME IInv, AInv, SInv, ScanTypeOK, ScanRecvReply, Clean PROVE Phases'
<1> USE DEF svars, hvars
<1>0. rxC \in Seq(Datagram) /\ at \in {"scan", "scan_results", "idle"}
  BY TypeParts DEF IInv, TypeOK, LibraryOK
<1>1. /\ pc = "wait" /\ pc' = "idle" /\ rxC # <<>>
      /\ Head(rxC).kind = "reply" /\ last'.txt = Head(rxC).txt
      /\ UNCHANGED <<at, asked, ret, items, accepted, snap>>
  BY DEF ScanRecvReply, RecvReply
<1>2. Head(rxC) = rxC[1] /\ 1 \in DOMAIN rxC
  BY <1>0, <1>1, TailFacts
<1>3. \A i \in DOMAIN rxC : rxC[i].kind = "reply" => i = 1
  BY <1>1, <1>2, CleanFacts
<1>4. at # "idle" /\ asked
  BY <1>1 DEF SInv, Control
<1>5. CASE at = "scan"
  <2>1. accepted <=> rxC[1].txt = OkTxt
    BY <1>1, <1>2, <1>3, <1>5 DEF SInv, ScanPhase
  <2> QED BY <1>1, <1>2, <1>4, <1>5, <2>1
          DEF Phases, ScanPhase, ResultsPhase, ReturnPhase
<1>6. CASE at = "scan_results"
  <2>1. accepted /\ Snapshot(rxC[1].txt)
    BY <1>1, <1>2, <1>6 DEF SInv, ResultsPhase
  <2>2. \E T \in snap : rxC[1].txt = Txt("scan", LinesOf(T))
    BY <2>1 DEF Snapshot
  <2> QED BY <1>1, <1>2, <1>4, <1>6, <2>1, <2>2
          DEF Phases, ScanPhase, ResultsPhase, ReturnPhase, Snapshot
<1> QED
  BY <1>0, <1>4, <1>5, <1>6
LEMMA StepPhases ==
    ASSUME IInv, AInv, SInv, ScanTypeOK, [ScanNext]_allvars, Clean' PROVE Phases'
<1> USE DEF dvars, cvars, gvars, vars, svars, bvars, hvars
<1>0. /\ Control /\ (Clean => Phases)
      /\ at \in {"scan", "scan_results", "idle"} /\ last \in Result
      /\ pc \in {"idle", "send", "wait"}
  BY TypeParts DEF SInv, Phases, LibraryOK, TypeOK
<1>1. ASSUME UNCHANGED <<at, asked, ret, items, accepted, snap, conn,
                         abandoned, pc, last, rxC>>
      PROVE  Phases'
  BY <1>0, <1>1
     DEF Clean, Phases, ScanPhase, ResultsPhase, ReturnPhase, Snapshot
<1>2. CASE ScanSendOk
  <2>1. /\ pc = "send" /\ pc' = "wait" /\ Clean
        /\ UNCHANGED <<at, asked, ret, items, accepted, snap, rxC>>
    BY <1>2 DEF ScanSendOk, SendOk, Clean
  <2>2. \A i \in DOMAIN rxC : rxC[i].kind # "reply"
    BY <2>1, CleanFacts
  <2>3. at # "idle"
    BY <1>0, <2>1 DEF Control
  <2> QED BY <1>0, <2>1, <2>2, <2>3
          DEF Phases, ScanPhase, ResultsPhase, ReturnPhase
<1>3. CASE ScanRecvReply
  <2>1. Clean
    BY <1>3 DEF ScanRecvReply, RecvReply, Clean
  <2> QED BY <1>3, <2>1, RecvPhases
<1>4. CASE ScanGivenUp \/ ScanRecvError
  <2>1. abandoned' # {}
    BY <1>4 DEF ScanGivenUp, Timeout, ScanRecvError, RecvError
  <2> QED BY <2>1 DEF Clean
<1>5. CASE ScanSendFail
  <2>1. /\ pc = "send" /\ pc' = "idle" /\ last'.ret = "fail" /\ Clean
        /\ UNCHANGED <<at, asked, ret, items, accepted, snap>>
    BY <1>5 DEF ScanSendFail, SendFail, ReturnError, Fault, Clean
  <2>2. at # "idle" /\ asked
    BY <1>0, <2>1 DEF Control
  <2> QED BY <1>0, <2>1, <2>2
          DEF Phases, ScanPhase, ResultsPhase, ReturnPhase
<1>6. CASE Issue
  <2>1. /\ at # "idle" /\ ~asked /\ pc' = "send" /\ Clean
        /\ UNCHANGED <<at, ret, items, accepted, snap>>
    BY <1>6 DEF Issue, Call, Clean
  <2> QED BY <1>0, <2>1 DEF Phases, ScanPhase, ResultsPhase, ReturnPhase
<1>7. CASE ResumeScan
  <2>1. /\ at = "scan" /\ asked /\ pc = "idle" /\ asked' = FALSE /\ Clean
        /\ UNCHANGED <<pc, last, accepted, snap>>
        /\ IF ScanAccepted THEN at' = "scan_results" /\ UNCHANGED ret
                           ELSE at' = "idle" /\ ret' = "null"
    BY <1>7 DEF ResumeScan, Returned, Clean
  <2>2. last.ret = "ok" => (accepted <=> last.txt = OkTxt)
    BY <1>0, <2>1 DEF Phases, ScanPhase
  <2>3. ScanAccepted <=> last.ret = "ok" /\ last.txt = OkTxt
    BY <1>0, TextFacts DEF ScanAccepted, Result
  <2> QED BY <2>1, <2>2, <2>3
          DEF Phases, ScanPhase, ResultsPhase, ReturnPhase
<1>8. CASE ResumeResults
  <2>1. /\ at = "scan_results" /\ asked /\ pc = "idle" /\ at' = "idle"
        /\ Clean /\ UNCHANGED <<pc, last, accepted, snap>>
        /\ IF last.ret = "ok" THEN ret' = "list" /\ items' = ItemsOf(last.txt)
                              ELSE ret' = "null" /\ UNCHANGED items
    BY <1>8 DEF ResumeResults, Returned, Clean
  <2>2. accepted /\ (last.ret = "ok" => Snapshot(last.txt))
    BY <1>0, <2>1 DEF Phases, ResultsPhase
  <2> QED BY <2>1, <2>2
          DEF Phases, ScanPhase, ResultsPhase, ReturnPhase, Snapshot
<1>9. CASE InitWpaCli
  <2>1. conn = 0 /\ UNCHANGED <<at, ret, accepted>>
    BY <1>9 DEF InitWpaCli, Open
  <2>2. at = "idle" /\ ret # "list" /\ (ret = "null" => ~accepted)
    BY <1>0, <2>1 DEF Control
  <2> QED BY <2>1, <2>2 DEF Phases, ScanPhase, ResultsPhase, ReturnPhase
<1>10. CASE DeinitWpaCli
  BY <1>10 DEF DeinitWpaCli, Close, Clean
<1>11. CASE GetWifiScanResults
  <2>1. /\ at = "idle" /\ conn' = conn /\ accepted' = FALSE
        /\ UNCHANGED <<pc, asked>>
        /\ IF conn # 0 THEN at' = "scan" /\ ret' = "none"
                       ELSE at' = "idle" /\ ret' = "null"
    BY <1>11 DEF GetWifiScanResults
  <2>2. pc = "idle" /\ ~asked
    BY <1>0, <2>1 DEF Control
  <2>3. at' = "scan"
    BY <2>1 DEF Clean
  <2> QED BY <2>1, <2>2, <2>3
          DEF Phases, ScanPhase, ResultsPhase, ReturnPhase
<1>12. CASE ScanReply
  <2>1. Clean
    BY <1>12 DEF ScanReply, Reply, Clean
  <2> QED BY <1>12, <2>1, ReplyPhases
<1>13. CASE Wpas /\ ~ScanReply
  <2>1. UNCHANGED <<at, asked, ret, items, accepted, snap, conn, abandoned,
                    pc, last, rxC>>
    BY <1>13 DEF Wpas, ScanReplyUnsent, ReplyUnsent, Handled, ScanReopen,
       Reopen, ScanStop, Stop, ScanStart, Start, Fault, ScanTimeout,
       TriggerScan, ScanResults, OtherResults, SetState, Disable, Enable,
       DaemonOnly
  <2> QED BY <1>1, <2>1
<1>14. CASE UNCHANGED allvars
  BY <1>1, <1>14 DEF allvars
<1> QED
  BY <1>2, <1>3, <1>4, <1>5, <1>6, <1>7, <1>8, <1>9, <1>10, <1>11, <1>12,
     <1>13, <1>14 DEF ScanNext, Library, User

\* The invariant of the call, on the connection as it is.
THEOREM ScanInvariant == ScanSpec => [](ScanTypeOK /\ SInv)
<1>1. IInv /\ AInv /\ ScanTypeOK /\ SInv /\ [ScanNext]_allvars => (ScanTypeOK /\ SInv)'
  BY StepScanType, StepControl, StepPhases, TypeParts DEF SInv, Phases
<1> QED
  BY <1>1, InitScanType, InitSInv, ConnectionInvariant, PTL DEF ScanSpec

\* A list is returned only for a scan that the daemon accepted in this call.
THEOREM ListsAreAccepted == ScanSpec => []ListMeansAccepted
<1>1. SInv => ListMeansAccepted
  BY DEF SInv, Clean, ReturnPhase, ListMeansAccepted
<1> QED
  BY <1>1, ScanInvariant, PTL

\* The list is the daemon's table at one moment of the call, for any table and
\* any room in the reply, late and lost replies of other connections and
\* restarts of the daemon included.
THEOREM ListIsSnapshot == ScanSpec => []SnapshotOfCall
<1>1. ASSUME ScanTypeOK, SInv PROVE SnapshotOfCall
  <2> SUFFICES ASSUME at = "idle", ret = "list", Clean
               PROVE  \E T \in snap :
                         /\ items \subseteq ToSet(T)
                         /\ Len(T) <= MaxLines
                               => ToSet(T) \ (Nameless \cup Unlisted)
                                     \subseteq items
    BY DEF SnapshotOfCall, Clean
  <2>1. PICK t : Snapshot(t) /\ items = ItemsOf(t)
    BY <1>1 DEF SInv, ReturnPhase
  <2>2. PICK T \in snap : t = Txt("scan", LinesOf(T))
    BY <2>1 DEF Snapshot
  <2>3. T \in Tables
    BY <1>1, TypeParts DEF GhostOK
  <2>4. items = LinesOf(T) \ Nameless
    BY <2>1, <2>2 DEF ItemsOf, Txt
  <2> QED BY <2>3, <2>4, LinesFacts
<1> QED
  BY <1>1, ScanInvariant, PTL
=============================================================================
