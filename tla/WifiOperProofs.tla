--------------------------- MODULE WifiOperProofs ----------------------------
(***************************************************************************)
(* Proofs about connect_wifi and its session, for any networks, flags and    *)
(* bounds.  The library's steps are steps of the connection, so what is      *)
(* proved of it in WpaCtrlProofs holds here; on top of it the invariant      *)
(* follows the id of the network that a call adds from the daemon's answer   *)
(* to each of the commands that name it.                                     *)
(***************************************************************************)
EXTENDS WifiOper, WpaCtrlProofs
-----------------------------------------------------------------------------
(* The invariant *)

\* A command that the library sends.
OwnCmds ==
    /\ \A j \in DOMAIN rxD : rxD[j].cmd \in OperCmds
    /\ pc # "idle" => cur.cmd \in OperCmds

\* What is free in the network table is blank.
Blank(t) == \A i \in NetIds : t[i].by = "none" => t[i] = NoNet

\* Where connect_wifi is and where its request is agree.
Control ==
    /\ pc # "idle" => asked /\ (step # "psk" => cur.cmd = CmdOf(step))
    /\ asked => step \notin {"idle", "crashed"}
    /\ step \notin {"idle", "crashed"} => inited
    /\ step # "crashed" => (inited <=> conn # 0)
    /\ step = "psk" /\ asked => "psk" \in mishaps

\* While no request was given up on, the daemon holds only the request in
\* progress.
Quiet == "gaveup" \notin mishaps

OnlyCurrent ==
    Quiet => /\ abandoned = {}
             /\ \A j \in DOMAIN rxD : conn # 0 /\ rxD[j].from = addr

\* While the daemon runs on, a session stays connected to it.
StaysConnected ==
    "daemon" \notin mishaps => dsock # 0 /\ (conn # 0 => conn = dsock)

OInv == /\ OperTypeOK /\ OwnCmds /\ Blank(nets)
        /\ Control /\ OnlyCurrent /\ StaysConnected

\* The request in progress was answered with the text t.
Got(t) ==
    /\ asked
    /\ \/ pc = "wait" /\ \E i \in DOMAIN rxC :
                            rxC[i].kind = "reply" /\ rxC[i].txt = t
       \/ pc = "idle" /\ last.ret = "ok" /\ last.txt = t

EditSteps == {"ssid", "key_mgmt", "wep_key", "psk", "enable", "disable",
              "remove"}

\* The text is the id of a network that is not the user's.
OwnId(t) == t.k = "id" /\ t.n \in NetIds \ UserNets

Safe == mishaps \cap {"gaveup", "addfail", "psk"} = {}

\* connect_wifi takes the id of a network of its own through its steps.
OwnNetwork ==
    /\ \A i \in UserNets : nets[i] = UserNet
    /\ step = "add" => \A t \in Txts : Got(t) => OwnId(t)
    /\ step = "add_list" /\ saved.ret = "ok" => OwnId(saved.txt)
    /\ step \in EditSteps => OwnId(network_id)

\* The network after each step that was answered OK.
Named == [NewNet EXCEPT !.ssid = TRUE]
Keyed == [Named EXCEPT !.key = "wep"]
Final == [Keyed EXCEPT !.on = TRUE]

NetBefore(s) == CASE s = "ssid"     -> NewNet
                  [] s = "key_mgmt" -> Named
                  [] s = "wep_key"  -> Named
                  [] s = "enable"   -> Keyed

NetAfter(s) == CASE s = "ssid"     -> Named
                 [] s = "key_mgmt" -> Named
                 [] s = "wep_key"  -> Keyed
                 [] s = "enable"   -> Final

Alive == Safe /\ "daemon" \notin mishaps

Progress ==
    /\ step = "add" => \A t \in Txts : Got(t) => nets[t.n] = NewNet
    /\ step = "add_list" /\ saved.ret = "ok" => nets[saved.txt.n] = NewNet
    /\ step \in {"ssid", "key_mgmt", "wep_key", "enable"} =>
          nets[Atoi(network_id)] =
              IF Got(OkTxt) THEN NetAfter(step) ELSE NetBefore(step)
    /\ step = "idle" /\ ret = "ok" => nets[Atoi(network_id)] = Final

\* The table is what it was before the call, but for the network i that the
\* call added.
Added(i) ==
    /\ before[i] = NoNet /\ nets[i].by = "lib"
    /\ \A k \in NetIds : k # i => nets[k] = before[k]

Answered == asked /\ pc = "idle" => last.ret = "ok"

Residue ==
    /\ step = "add" => IF \E t \in Txts : Got(t)
                       THEN \A t \in Txts : Got(t) => Added(t.n)
                       ELSE nets = before
    /\ step = "add_list" => saved.ret = "ok" /\ Added(saved.txt.n)
    /\ step \in EditSteps \ {"remove"} => Added(Atoi(network_id))
    /\ step = "remove" => IF \E t \in Txts : Got(t) THEN nets = before
                                                    ELSE Added(Atoi(network_id))
    /\ step = "remove_list" => nets = before
    /\ step = "idle" /\ ret = "fail" => nets = before

PInv == /\ Safe => OwnNetwork
        /\ Alive => Progress
        /\ mishaps = {} => Answered /\ Residue

-----------------------------------------------------------------------------
(* Commands and texts *)

LEMMA TextFacts ==
    /\ \A t \in Txts : t.n \in NetIds /\ t.s \subseteq NetIds
    /\ \A t \in Txts : t.k = "ok" <=> t = OkTxt
    /\ \A t \in Txts : t.k = "fail" <=> t = FailTxt
    /\ OkTxt # FailTxt /\ OkTxt \in Txts /\ FailTxt \in Txts
    /\ \A n \in NetIds : Txt("id", n, {}) \in Txts
    /\ \A s \in SUBSET NetIds : Txt("list", 0, s) \in Txts
    /\ NoTxt.n \in NetIds
<1> USE OperAssumption, NetAssumption
<1>1. OkTxt # FailTxt /\ OkTxt \in Txts /\ FailTxt \in Txts
  BY DEF OperTxts, Txt, OkTxt, FailTxt
<1>2. ASSUME NEW t \in Txts PROVE t.n \in NetIds /\ t.s \subseteq NetIds
  <2>1. CASE t \in {OkTxt, FailTxt}
    BY <2>1 DEF Txt, OkTxt, FailTxt
  <2>2. CASE \E n \in NetIds : t = Txt("id", n, {})
    BY <2>2 DEF Txt
  <2>3. CASE \E s \in SUBSET NetIds : t = Txt("list", 0, s)
    BY <2>3 DEF Txt
  <2> QED BY <2>1, <2>2, <2>3 DEF OperTxts
<1>3. \A t \in Txts : (t.k = "ok" <=> t = OkTxt) /\ (t.k = "fail" <=> t = FailTxt)
  BY DEF OperTxts, Txt, OkTxt, FailTxt
<1>4. /\ \A n \in NetIds : Txt("id", n, {}) \in Txts
      /\ \A s \in SUBSET NetIds : Txt("list", 0, s) \in Txts
  BY DEF OperTxts
<1>5. NoTxt.n \in NetIds
  BY DEF NoTxt, Txt
<1> QED
  BY <1>1, <1>2, <1>3, <1>4, <1>5

LEMMA CmdFacts ==
    /\ OperCmds \subseteq AllCmds
    /\ \A c \in OperCmds : c # ATTACH /\ c # DETACH
    /\ \A i \in NetIds : Cmd("SET_NETWORK", i, "psk") \in OperCmds
    /\ \A c \in OperCmds :
          /\ c.id \in NetIds
          /\ c.op \in {"ADD_NETWORK", "LIST_NETWORKS", "SET_NETWORK",
                       "ENABLE_NETWORK", "DISABLE_NETWORK", "REMOVE_NETWORK"}
<1> USE OperAssumption, NetAssumption
<1>1. OperCmds \subseteq AllCmds /\ \A c \in OperCmds : c # ATTACH /\ c # DETACH
  BY CmdAssumption DEF AllCmds
<1>2. \A i \in NetIds : Cmd("SET_NETWORK", i, "psk") \in OperCmds
  BY DEF OperCmds
<1>3. \A c \in OperCmds :
         /\ c.id \in NetIds
         /\ c.op \in {"ADD_NETWORK", "LIST_NETWORKS", "SET_NETWORK",
                      "ENABLE_NETWORK", "DISABLE_NETWORK", "REMOVE_NETWORK"}
  BY DEF OperCmds, Cmd
<1> QED
  BY <1>1, <1>2, <1>3

Steps == {"add", "add_list", "ssid", "key_mgmt", "wep_key", "enable",
          "disable", "remove", "remove_list"}

LEMMA CmdOfFacts ==
    ASSUME network_id \in Txts \cup {NoTxt}, NEW s \in Steps
    PROVE  CmdOf(s) \in OperCmds
<1>1. Atoi(network_id) \in NetIds
  BY TextFacts DEF Atoi
<1>2. \A v : VarOf(v) \in {v, "id"}
  BY DEF VarOf
<1>3. CASE s \in {"add", "add_list", "remove_list"}
  BY <1>3 DEF CmdOf, OperCmds, Cmd
<1>4. CASE s \in {"ssid", "key_mgmt", "wep_key"}
  BY <1>1, <1>2, <1>4 DEF CmdOf, OperCmds, Cmd
<1>5. CASE s \in {"enable", "disable", "remove"}
  BY <1>1, <1>5 DEF CmdOf, OperCmds, Cmd
<1> QED
  BY <1>3, <1>4, <1>5 DEF Steps

-----------------------------------------------------------------------------
(* The connection under the library *)

\* A step of the library, the user or the daemon is a step of the connection,
\* or the failed init_wpa_cli that uses up a local address.
LEMMA ConnectionStep ==
    ASSUME OperTypeOK, [OperNext]_allvars
    PROVE  [Next]_vars \/ InitWpaCliFails
<1>1. CASE Issue
  <2>1. CmdOf(step) \in AllCmds
    BY <1>1, CmdOfFacts, CmdFacts DEF Issue, OperTypeOK, Steps
  <2> QED BY <1>1, <2>1 DEF Issue, Next, Client
<1>2. CASE IssuePsk
  BY <1>2, CmdFacts DEF IssuePsk, Next, Client
<1>3. CASE Library /\ ~Issue /\ ~IssuePsk
  BY <1>3 DEF Library, OperSendOk, OperRecvReply, OperTimeout, OperRecvError,
     OperSendFail, PasswordRefused, PasswordCrash, ResumeAdd, ResumeAddList,
     OverrunCrash, ResumeSet, ResumeEnable, ResumeCleanup, ResumeRemoveList,
     Returned, Next, Client
<1>4. CASE User
  BY <1>4 DEF User, InitWpaCli, DeinitWpaCli, ConnectWifi, Next, Client
<1>5. CASE Wpas
  BY <1>5 DEF Wpas, OperReply, OperReplyUnsent, OperReopen, OperStop,
     OperStart, Next, Daemon
<1>6. CASE UNCHANGED allvars
  BY <1>6 DEF allvars
<1> QED
  BY <1>1, <1>2, <1>3, <1>4, <1>5, <1>6 DEF OperNext

\* A failed init_wpa_cli leaves the connection closed.
LEMMA FailsConnection ==
    ASSUME IInv, AInv, InitWpaCliFails, conn = 0 PROVE IInv' /\ AInv'
<1>1. /\ addr' \in Nat /\ addr' >= addr /\ addr \in Nat /\ pc = "idle"
  BY DEF IInv, TypeOK, Numbered, InitWpaCliFails, NextAddr
<1>2. UNCHANGED <<dsock, nsock, rxD, mon, conn, rxC, pc, cur, last, nreq,
                  base, abandoned, answered, nevents>>
  BY DEF InitWpaCliFails, dvars, gvars
<1>3. \A j \in DOMAIN rxD : rxD[j].from \in Nat /\ rxD[j].from <= addr
  BY TypeFacts DEF IInv, Numbered
<1>4. TypeOK' /\ Ordered' /\ ReplyMatches'
  BY <1>1, <1>2 DEF IInv, TypeOK, Ordered, ReplyMatches
<1>5. Numbered'
  <2>1. \A j \in DOMAIN rxD : rxD[j].from <= addr'
    BY <1>1, <1>3
  <2> QED BY <1>1, <1>2, <2>1 DEF IInv, Numbered
<1>6. AllOwed'
  BY <1>1, <1>2 DEF IInv, AllOwed, Owed
<1>7. AInv'
  BY <1>1, <1>2 DEF AInv, SameRequest, Sockets, Registered, Connected
<1> QED
  BY <1>4, <1>5, <1>6, <1>7 DEF IInv

LEMMA StepConnection ==
    ASSUME IInv, AInv, OInv, [OperNext]_allvars PROVE IInv' /\ AInv'
<1>1. OperTypeOK
  BY DEF OInv
<1>2. CASE [Next]_vars
  BY <1>2, StepType, StepOrdered, StepNumbered, StepOwed, StepMatches,
     StepSameRequest, StepSockets, StepRegistered DEF IInv, AInv
<1>3. CASE InitWpaCliFails
  BY <1>3, FailsConnection DEF InitWpaCliFails, OInv, Control
<1> QED
  BY <1>1, <1>2, <1>3, ConnectionStep

-----------------------------------------------------------------------------
(* Types *)

\* The parts of OperTypeOK above the connection.
LibraryOK ==
    /\ inited \in BOOLEAN /\ ifname \in {"null", "live", "freed"}
    /\ networks \subseteq NetIds
    /\ step \in Steps \cup {"idle", "crashed", "psk"}
    /\ asked \in BOOLEAN /\ flag \in Nat /\ saved \in Result
    /\ network_id \in Txts \cup {NoTxt} /\ ret \in {"none", "ok", "fail"}
    /\ ncalls \in Nat

TableOK == nets \in [NetIds -> Net] /\ before \in [NetIds -> Net] /\ Blank(nets)

GhostOK ==
    /\ nfaults \in Nat
    /\ mishaps \subseteq {"gaveup", "addfail", "psk", "sendfail", "daemon"}

LEMMA TypeParts ==
    OperTypeOK /\ Blank(nets) <=> TypeOK /\ LibraryOK /\ TableOK /\ GhostOK
  BY DEF OperTypeOK, LibraryOK, TableOK, GhostOK, Steps

LEMMA StepLibraryOK ==
    ASSUME OInv, [OperNext]_allvars PROVE LibraryOK'
<1>0. LibraryOK /\ last \in Result /\ last.txt \in Txts /\ saved.txt \in Txts
  BY TypeParts DEF OInv, TypeOK, Result, LibraryOK
<1> USE DEF lvars, ovars, appvars, LibraryOK, Steps
<1>1. CASE UNCHANGED <<lvars, ovars>>
  BY <1>0, <1>1
<1>2. CASE Issue \/ IssuePsk \/ PasswordRefused \/ PasswordCrash
  BY <1>0, <1>2 DEF Issue, IssuePsk, PasswordRefused, PasswordCrash
<1>3. CASE ResumeAdd
  BY <1>0, <1>3 DEF ResumeAdd, Returned
<1>4. CASE ResumeAddList
  <2>1. NetworksAfter \subseteq NetIds
    BY <1>0, TextFacts DEF NetworksAfter
  <2>2. /\ networks' = NetworksAfter /\ asked' = FALSE
        /\ step' \in {"ssid", "idle"} /\ ret' \in {ret, "fail"}
        /\ network_id' \in {network_id, saved.txt}
        /\ UNCHANGED <<inited, ifname, flag, saved, ncalls>>
    BY <1>4 DEF ResumeAddList, Returned, IdTaken
  <2> QED BY <1>0, <2>1, <2>2
<1>5. CASE OverrunCrash
  BY <1>0, <1>5 DEF OverrunCrash, Returned
<1>6. CASE ResumeSet
  <2>1. \A s \in {"ssid", "key_mgmt", "wep_key", "psk"} :
           AfterOk(s) \in {"key_mgmt", "psk", "disable", "wep_key", "enable"}
    BY DEF AfterOk
  <2>2. /\ step' \in {"key_mgmt", "psk", "disable", "wep_key", "enable"}
        /\ asked' = FALSE
        /\ UNCHANGED appvars
    BY <1>6, <2>1 DEF ResumeSet, Returned
  <2> QED BY <1>0, <2>2
<1>7. CASE ResumeEnable
  BY <1>0, <1>7 DEF ResumeEnable, Returned
<1>8. CASE ResumeCleanup
  BY <1>0, <1>8 DEF ResumeCleanup, Returned, AfterDisable
<1>9. CASE ResumeRemoveList
  <2>1. NetworksAfter \subseteq NetIds
    BY <1>0, TextFacts DEF NetworksAfter
  <2> QED BY <1>0, <1>9, <2>1 DEF ResumeRemoveList, Returned
<1>10. CASE InitWpaCli \/ InitWpaCliFails
  <2>1. /\ ifname' \in {"null", "live", "freed"} /\ inited' \in BOOLEAN
        /\ UNCHANGED <<networks, ovars>>
    BY <1>0, <1>10
       DEF InitWpaCli, InitWpaCliFails, IfnamesAtOpen, DefaultIfnames
  <2> QED BY <1>0, <2>1
<1>11. CASE DeinitWpaCli
  BY <1>0, <1>11 DEF DeinitWpaCli
<1>12. ASSUME NEW f \in Flags, ConnectWifi(f) PROVE LibraryOK'
  BY <1>0, <1>12, NetAssumption DEF ConnectWifi
<1> QED
  BY <1>1, <1>2, <1>3, <1>4, <1>5, <1>6, <1>7, <1>8, <1>9, <1>10, <1>11,
     <1>12 DEF OperNext, Library, User, Wpas, OperSendOk, OperRecvReply,
     OperTimeout, OperRecvError, OperSendFail, Fault, OperReply,
     OperReplyUnsent, OperReopen, OperStop, OperStart, allvars

\* Handling a command changes at most one network, to one it may be.
LEMMA HandleFacts ==
    ASSUME TableOK, NEW c \in OperCmds, NEW o \in Handle(c)
    PROVE  /\ o[1] \in [NetIds -> Net] /\ Blank(o[1]) /\ o[2] \in Txts
           /\ \/ /\ c.op = "ADD_NETWORK"
                 /\ o[1] = nets /\ o[2] = FailTxt
              \/ /\ c.op = "ADD_NETWORK"
                 /\ \E f \in FreeIds : /\ o[1] = [nets EXCEPT ![f] = NewNet]
                                       /\ o[2] = Txt("id", f, {})
              \/ /\ c.op = "LIST_NETWORKS" /\ o[1] = nets
              \/ /\ c.op \notin {"ADD_NETWORK", "LIST_NETWORKS"}
                 /\ o[2] = OkTxt /\ Applies(c)
                 /\ o[1] = [nets EXCEPT ![c.id] = Edited(c, nets[c.id])]
              \/ /\ c.op \notin {"ADD_NETWORK", "LIST_NETWORKS"}
                 /\ o[1] = nets /\ o[2] = FailTxt
                 /\ c.op = "SET_NETWORK" \/ ~Applies(c)
<1>0. /\ nets \in [NetIds -> Net] /\ Blank(nets) /\ c.id \in NetIds
      /\ c.op \in {"ADD_NETWORK", "LIST_NETWORKS", "SET_NETWORK",
                   "ENABLE_NETWORK", "DISABLE_NETWORK", "REMOVE_NETWORK"}
  BY CmdFacts DEF TableOK
<1>1. CASE c.op = "ADD_NETWORK"
  <2>1. CASE o = <<nets, FailTxt>>
    BY <1>0, <1>1, <2>1, TextFacts
  <2>2. CASE o # <<nets, FailTxt>>
    <3>1. PICK f \in FreeIds :
             o = <<[nets EXCEPT ![f] = NewNet], Txt("id", f, {})>>
      BY <1>1, <2>2 DEF Handle
    <3>2. f \in NetIds /\ NewNet \in Net /\ NewNet.by = "lib"
      BY DEF FreeIds, NewNet, Net
    <3>3. o[1] \in [NetIds -> Net] /\ Blank(o[1])
      BY <1>0, <3>1, <3>2 DEF Blank
    <3> QED BY <1>1, <3>1, <3>2, <3>3, TextFacts
  <2> QED BY <2>1, <2>2
<1>2. CASE c.op = "LIST_NETWORKS"
  <2>1. o = <<nets, Txt("list", 0, Used)>>
    BY <1>2 DEF Handle
  <2>2. Used \in SUBSET NetIds
    BY DEF Used
  <2> QED BY <1>0, <1>2, <2>1, <2>2, TextFacts
<1>3. CASE c.op \notin {"ADD_NETWORK", "LIST_NETWORKS"}
  <2> DEFINE n == nets[c.id]
  <2>1. /\ o \in {<<[nets EXCEPT ![c.id] = Edited(c, n)], OkTxt>>,
                  <<nets, FailTxt>>}
        /\ IF o[2] = OkTxt THEN Applies(c)
           ELSE c.op = "SET_NETWORK" \/ ~Applies(c)
    BY <1>3 DEF Handle
  <2>2. CASE o = <<nets, FailTxt>>
    BY <1>0, <1>3, <2>1, <2>2, TextFacts
  <2>3. CASE o = <<[nets EXCEPT ![c.id] = Edited(c, n)], OkTxt>>
    <3>1. Applies(c) /\ n \in Net /\ n.by # "none"
      BY <1>0, <2>1, <2>3 DEF Applies, Used
    <3>2. NoNet \in Net
      BY DEF NoNet, Net
    <3>3. \A v : SetVar(n, v) \in Net /\ SetVar(n, v).by = n.by
      BY <3>1 DEF SetVar, Net
    <3>4. Edited(c, n) \in Net /\ (Edited(c, n).by = "none" => Edited(c, n) = NoNet)
      <4>1. CASE c.op = "SET_NETWORK"
        BY <3>1, <3>3, <4>1 DEF Edited
      <4>2. CASE c.op \in {"ENABLE_NETWORK", "DISABLE_NETWORK"}
        BY <3>1, <4>2 DEF Edited, Net
      <4>3. CASE c.op = "REMOVE_NETWORK"
        BY <3>2, <4>3 DEF Edited
      <4> QED BY <1>0, <1>3, <4>1, <4>2, <4>3
    <3>5. o[1] \in [NetIds -> Net] /\ Blank(o[1])
      BY <1>0, <2>3, <3>4 DEF Blank
    <3> QED BY <1>3, <2>3, <3>1, <3>5, TextFacts
  <2> QED BY <2>1, <2>2, <2>3
<1> QED
  BY <1>1, <1>2, <1>3

LEMMA ConfiguredFacts ==
    /\ Configured \in [NetIds -> Net] /\ Blank(Configured)
    /\ \A i \in UserNets : Configured[i] = UserNet
<1>1. UserNet \in Net /\ NoNet \in Net /\ UserNet.by = "user"
  BY DEF UserNet, NoNet, Net
<1> QED
  BY <1>1, NetAssumption DEF Configured, Blank

\* The request that is answered is one of the library's.
LEMMA HeadIsOwn ==
    ASSUME OInv, rxD # <<>>
    PROVE  Head(rxD) = rxD[1] /\ 1 \in DOMAIN rxD /\ Head(rxD).cmd \in OperCmds
<1>1. rxD \in Seq(Request)
  BY DEF OInv, OperTypeOK, TypeOK
<1>2. Head(rxD) = rxD[1] /\ 1 \in DOMAIN rxD
  BY <1>1, TailFacts
<1> QED
  BY <1>2 DEF OInv, OwnCmds

LEMMA StepTableOK ==
    ASSUME OInv, [OperNext]_allvars PROVE TableOK'
<1>0. TableOK
  BY TypeParts DEF OInv
<1> USE DEF lvars, ovars, appvars
<1>1. CASE UNCHANGED <<nets, before>>
  BY <1>0, <1>1 DEF TableOK, Blank
<1>2. CASE OperReply \/ OperReplyUnsent
  <2>1. /\ rxD # <<>> /\ UNCHANGED before
        /\ \E o \in Handle(Head(rxD).cmd) : nets' = o[1]
    BY <1>2 DEF OperReply, OperReplyUnsent, Reply, ReplyUnsent
  <2>2. PICK o \in Handle(Head(rxD).cmd) : nets' = o[1]
    BY <2>1
  <2>3. Head(rxD).cmd \in OperCmds
    BY <2>1, HeadIsOwn
  <2>4. o[1] \in [NetIds -> Net] /\ Blank(o[1])
    BY <1>0, <2>3, HandleFacts
  <2> QED BY <1>0, <2>1, <2>2, <2>4 DEF TableOK, Blank
<1>3. CASE OperStart
  BY <1>0, <1>3, ConfiguredFacts DEF OperStart, TableOK, Blank
<1>4. ASSUME NEW f \in Flags, ConnectWifi(f) PROVE TableOK'
  BY <1>0, <1>4 DEF ConnectWifi, TableOK, Blank
<1> QED
  BY <1>1, <1>2, <1>3, <1>4 DEF OperNext, Library, User, Wpas, OperSendOk,
     OperRecvReply, OperTimeout, OperRecvError, OperSendFail, Fault,
     OperReopen, OperStop, Issue, IssuePsk, PasswordRefused, PasswordCrash,
     ResumeAdd, ResumeAddList, OverrunCrash, ResumeSet, ResumeEnable,
     ResumeCleanup, ResumeRemoveList, Returned, InitWpaCli, InitWpaCliFails,
     DeinitWpaCli, allvars

\* What has gone wrong stays on record.
LEMMA StepGhostOK ==
    ASSUME OInv, [OperNext]_allvars PROVE GhostOK' /\ mishaps \subseteq mishaps'
<1>0. GhostOK
  BY TypeParts DEF OInv
<1> USE DEF lvars, ovars, appvars, GhostOK
<1>1. CASE UNCHANGED <<nfaults, mishaps>>
  BY <1>0, <1>1
<1>2. ASSUME NEW m \in {"gaveup", "sendfail", "daemon"}, NEW b, Fault(m, b)
      PROVE  GhostOK' /\ mishaps \subseteq mishaps'
  BY <1>0, <1>2 DEF Fault
<1>3. CASE OperReply
  BY <1>0, <1>3 DEF OperReply
<1>4. CASE IssuePsk
  BY <1>0, <1>4 DEF IssuePsk
<1> QED
  BY <1>1, <1>2, <1>3, <1>4 DEF OperNext, Library, User, Wpas, OperSendOk,
     OperRecvReply, OperTimeout, OperRecvError, OperSendFail,
     OperReopen, OperStop, OperStart, OperReplyUnsent, Issue, PasswordRefused,
     PasswordCrash, ResumeAdd, ResumeAddList, OverrunCrash, ResumeSet,
     ResumeEnable, ResumeCleanup, ResumeRemoveList, Returned, InitWpaCli,
     InitWpaCliFails, DeinitWpaCli, ConnectWifi, allvars

LEMMA StepOwnCmds ==
    ASSUME OInv, [OperNext]_allvars PROVE OwnCmds'
<1>0. /\ rxD \in Seq(Request) /\ cur \in Request /\ OwnCmds
      /\ network_id \in Txts \cup {NoTxt}
      /\ step \in Steps \cup {"idle", "crashed", "psk"}
  BY TypeParts DEF OInv, TypeOK, LibraryOK
<1> USE DEF dvars, cvars, vars
<1>1. CASE UNCHANGED <<rxD, cur>> /\ (pc' = pc \/ pc' = "idle")
  BY <1>0, <1>1 DEF OwnCmds
<1>2. CASE OperSendOk
  <2>1. rxD' = Append(rxD, cur) /\ cur' = cur /\ pc = "send"
    BY <1>2 DEF OperSendOk, SendOk
  <2>2. \A j \in DOMAIN rxD' :
           rxD'[j] = cur \/ (j \in DOMAIN rxD /\ rxD'[j] = rxD[j])
    BY <1>0, <2>1, AppendFacts
  <2> QED BY <1>0, <2>1, <2>2 DEF OwnCmds
<1>3. CASE Issue
  <2>1. CmdOf(step) \in OperCmds
    BY <1>0, <1>3, CmdOfFacts DEF Issue
  <2> QED BY <1>0, <1>3, <2>1 DEF Issue, Call, OwnCmds
<1>4. CASE IssuePsk
  BY <1>0, <1>4, CmdFacts DEF IssuePsk, Call, OwnCmds
<1>5. CASE OperReply \/ OperReplyUnsent
  <2>1. rxD # <<>> /\ rxD' = Tail(rxD) /\ UNCHANGED <<pc, cur>>
    BY <1>5 DEF OperReply, OperReplyUnsent, Reply, ReplyUnsent
  <2>2. \A j \in DOMAIN rxD' : j + 1 \in DOMAIN rxD /\ rxD'[j] = rxD[j + 1]
    BY <1>0, <2>1, TailFacts
  <2> QED BY <1>0, <2>1, <2>2 DEF OwnCmds
<1>6. CASE OperReopen \/ OperStop
  <2>1. rxD' = <<>> /\ UNCHANGED <<pc, cur>>
    BY <1>6 DEF OperReopen, OperStop, Reopen, Stop, Reinit
  <2> QED BY <1>0, <2>1 DEF OwnCmds
<1>7. CASE OperRecvReply \/ OperTimeout \/ OperRecvError \/ OperSendFail
  <2>1. UNCHANGED <<rxD, cur>> /\ pc' = "idle"
    BY <1>7 DEF OperRecvReply, RecvReply, OperTimeout, Timeout,
       OperRecvError, RecvError, OperSendFail, SendFail, ReturnError
  <2> QED BY <1>1, <2>1
<1>8. CASE OperStart \/ InitWpaCli \/ InitWpaCliFails \/ DeinitWpaCli
           \/ PasswordCrash \/ OverrunCrash
  <2>1. UNCHANGED <<rxD, cur, pc>>
    BY <1>8 DEF OperStart, Start, InitWpaCli, Open, InitWpaCliFails,
       DeinitWpaCli, PasswordCrash, OverrunCrash, Close
  <2> QED BY <1>1, <2>1
<1>9. CASE UNCHANGED vars
  BY <1>1, <1>9
<1> QED
  BY <1>2, <1>3, <1>4, <1>5, <1>6, <1>7, <1>8, <1>9 DEF OperNext, Library,
     User, Wpas, PasswordRefused, ResumeAdd, ResumeAddList, ResumeSet,
     ResumeEnable, ResumeCleanup, ResumeRemoveList, ConnectWifi, allvars

-----------------------------------------------------------------------------
(* Where the call is *)

LEMMA StepControl ==
    ASSUME IInv, OInv, [OperNext]_allvars PROVE Control'
<1>0. Control /\ LibraryOK
  BY TypeParts DEF OInv
<1> USE DEF dvars, cvars, gvars, vars, lvars, ovars, appvars
<1>1. ASSUME UNCHANGED <<conn, cur, step, asked, inited, network_id>>,
             mishaps \subseteq mishaps',
             pc' = pc \/ pc' = "idle" \/ pc # "idle"
      PROVE  Control'
  <2>1. CmdOf(step)' = CmdOf(step)
    BY <1>1 DEF CmdOf, VarOf, Atoi
  <2> QED BY <1>0, <1>1, <2>1 DEF Control
<1>2. CASE OperSendOk \/ OperRecvReply \/ OperTimeout \/ OperRecvError
           \/ OperSendFail
  <2>1. /\ UNCHANGED <<conn, cur, step, asked, inited, network_id>>
        /\ mishaps \subseteq mishaps' /\ pc # "idle"
    BY <1>2 DEF OperSendOk, SendOk, OperRecvReply, RecvReply, OperTimeout,
       Timeout, OperRecvError, RecvError, OperSendFail, SendFail,
       ReturnError, Fault
  <2> QED BY <1>1, <2>1
<1>3. CASE Issue
  <2>1. /\ step \notin {"idle", "crashed", "psk"} /\ cur'.cmd = CmdOf(step)
        /\ asked' = TRUE /\ UNCHANGED <<conn, step, inited, network_id>>
    BY <1>3 DEF Issue, Call
  <2>2. CmdOf(step)' = CmdOf(step)
    BY <2>1 DEF CmdOf, VarOf, Atoi
  <2> QED BY <1>0, <2>1, <2>2 DEF Control
<1>4. CASE IssuePsk
  <2>1. /\ step = "psk" /\ step' = "psk" /\ asked' = TRUE
        /\ "psk" \in mishaps' /\ UNCHANGED <<conn, inited>>
    BY <1>4 DEF IssuePsk, Call
  <2> QED BY <1>0, <2>1 DEF Control
<1>5. CASE PasswordRefused \/ ResumeAdd \/ ResumeAddList \/ ResumeSet
           \/ ResumeEnable \/ ResumeCleanup \/ ResumeRemoveList
  <2>1. /\ step \notin {"idle", "crashed"} /\ step' # "crashed"
        /\ ~asked' /\ pc' = "idle" /\ UNCHANGED <<conn, inited>>
    <3>1. CASE PasswordRefused
      BY <1>0, <3>1 DEF PasswordRefused, Control
    <3>2. CASE ResumeSet
      <4>1. \A s \in {"ssid", "key_mgmt", "wep_key", "psk"} :
               AfterOk(s) # "crashed"
        BY DEF AfterOk
      <4> QED BY <3>2, <4>1 DEF ResumeSet, Returned
    <3>3. CASE ResumeAdd \/ ResumeAddList \/ ResumeEnable \/ ResumeCleanup
               \/ ResumeRemoveList
      BY <3>3 DEF ResumeAdd, ResumeAddList, ResumeEnable, ResumeCleanup,
         ResumeRemoveList, Returned, AfterDisable
    <3> QED BY <1>5, <3>1, <3>2, <3>3
  <2> QED BY <1>0, <2>1 DEF Control
<1>6. CASE PasswordCrash \/ OverrunCrash
  <2>1. step' = "crashed" /\ ~asked' /\ pc' = "idle"
    BY <1>6 DEF PasswordCrash, OverrunCrash, Returned, Close
  <2> QED BY <2>1 DEF Control
<1>7. CASE InitWpaCli
  <2>1. /\ step = "idle" /\ step' = "idle" /\ conn' = dsock
        /\ (inited' <=> dsock # 0) /\ UNCHANGED <<asked, pc>>
    BY <1>7 DEF InitWpaCli, Open
  <2> QED BY <1>0, <2>1 DEF Control
<1>8. CASE InitWpaCliFails
  <2>1. UNCHANGED <<conn, cur, step, asked, inited, network_id, mishaps, pc>>
    BY <1>8 DEF InitWpaCliFails
  <2> QED BY <1>1, <2>1
<1>9. CASE DeinitWpaCli
  <2>1. /\ step = "idle" /\ step' \in {"idle", "crashed"} /\ conn' = 0
        /\ inited' = FALSE /\ pc' = "idle" /\ UNCHANGED asked
    BY <1>9 DEF DeinitWpaCli, Close
  <2> QED BY <1>0, <2>1 DEF Control
<1>10. ASSUME NEW f \in Flags, ConnectWifi(f) PROVE Control'
  <2>1. /\ step = "idle" /\ UNCHANGED <<conn, inited, asked, pc>>
        /\ step' = IF inited THEN "add" ELSE "idle"
    BY <1>10 DEF ConnectWifi
  <2> QED BY <1>0, <2>1 DEF Control
<1>11. CASE Wpas
  <2>1. /\ UNCHANGED <<conn, cur, step, asked, inited, network_id, pc>>
        /\ mishaps \subseteq mishaps'
    BY <1>11 DEF Wpas, OperReply, Reply, OperReplyUnsent, ReplyUnsent,
       OperReopen, Reopen, OperStop, Stop, OperStart, Start, Fault
  <2> QED BY <1>1, <2>1
<1>12. CASE UNCHANGED allvars
  BY <1>1, <1>12 DEF allvars
<1> QED
  BY <1>2, <1>3, <1>4, <1>5, <1>6, <1>7, <1>8, <1>9, <1>10, <1>11, <1>12
     DEF OperNext, Library, User

LEMMA StepOnlyCurrent ==
    ASSUME IInv, AInv, OInv, [OperNext]_allvars PROVE OnlyCurrent'
<1>0. /\ OnlyCurrent /\ mishaps \subseteq mishaps' /\ rxD \in Seq(Request)
      /\ Control
  BY StepGhostOK DEF OInv, OperTypeOK, TypeOK
<1> SUFFICES ASSUME Quiet'
             PROVE  /\ abandoned' = {}
                    /\ \A j \in DOMAIN rxD' :
                          conn' # 0 /\ rxD'[j].from = addr'
  BY DEF OnlyCurrent
<1>q. Quiet /\ abandoned = {}
  BY <1>0 DEF Quiet, OnlyCurrent
<1>d. \A j \in DOMAIN rxD : conn # 0 /\ rxD[j].from = addr
  BY <1>0, <1>q DEF OnlyCurrent
<1>e. pc = "idle" => DOMAIN rxD = {}
  BY <1>q, <1>d, CleanFacts DEF Clean
<1> USE DEF dvars, cvars, gvars, vars, lvars, ovars, appvars
<1>1. CASE UNCHANGED <<abandoned, conn, addr, rxD>>
  BY <1>1, <1>q, <1>d
<1>2. CASE OperSendOk
  <2>1. /\ rxD' = Append(rxD, cur) /\ pc = "send"
        /\ UNCHANGED <<conn, addr, abandoned>>
    BY <1>2 DEF OperSendOk, SendOk
  <2>2. \A j \in DOMAIN rxD' :
           rxD'[j] = cur \/ (j \in DOMAIN rxD /\ rxD'[j] = rxD[j])
    BY <1>0, <2>1, AppendFacts, TypeFacts DEF IInv
  <2>3. conn # 0 /\ cur.from = addr
    BY <2>1 DEF IInv, Numbered
  <2> QED BY <1>q, <1>d, <2>1, <2>2, <2>3
<1>3. CASE OperTimeout \/ OperRecvError
  BY <1>3 DEF OperTimeout, OperRecvError, Fault, Quiet
<1>4. CASE OperReply \/ OperReplyUnsent
  <2>1. /\ rxD # <<>> /\ rxD' = Tail(rxD)
        /\ UNCHANGED <<conn, addr, abandoned>>
    BY <1>4 DEF OperReply, OperReplyUnsent, Reply, ReplyUnsent
  <2>2. \A j \in DOMAIN rxD' : j + 1 \in DOMAIN rxD /\ rxD'[j] = rxD[j + 1]
    BY <1>0, <2>1, TailFacts
  <2> QED BY <1>q, <1>d, <2>1, <2>2
<1>5. CASE OperReopen \/ OperStop
  <2>1. rxD' = <<>> /\ UNCHANGED abandoned
    BY <1>5 DEF OperReopen, OperStop, Reopen, Stop, Reinit
  <2> QED BY <1>q, <2>1
<1>6. CASE InitWpaCli \/ InitWpaCliFails \/ DeinitWpaCli \/ PasswordCrash
           \/ OverrunCrash
  <2>1. /\ abandoned' = {} /\ rxD' = rxD
    BY <1>6, <1>q DEF InitWpaCli, Open, InitWpaCliFails, DeinitWpaCli,
       PasswordCrash, OverrunCrash, Close
  <2>2. pc = "idle"
    <3>1. conn = 0 => pc = "idle"
      BY DEF IInv, Numbered, TypeOK
    <3> QED BY <1>0, <1>6, <3>1 DEF InitWpaCli, Open, InitWpaCliFails,
            DeinitWpaCli, PasswordCrash, OverrunCrash, Close, Control
  <2> QED BY <1>e, <2>1, <2>2
<1> QED
  BY <1>1, <1>2, <1>3, <1>4, <1>5, <1>6 DEF OperNext, Library, User, Wpas,
     OperRecvReply, RecvReply, OperSendFail, SendFail, ReturnError, OperStart,
     Start, Issue, IssuePsk, Call, PasswordRefused, ResumeAdd, ResumeAddList,
     ResumeSet, ResumeEnable, ResumeCleanup, ResumeRemoveList, ConnectWifi,
     allvars

LEMMA StepStaysConnected ==
    ASSUME OInv, [OperNext]_allvars PROVE StaysConnected'
<1>0. StaysConnected /\ mishaps \subseteq mishaps'
  BY StepGhostOK DEF OInv
<1> SUFFICES ASSUME "daemon" \notin mishaps'
             PROVE  dsock' # 0 /\ (conn' # 0 => conn' = dsock')
  BY DEF StaysConnected
<1>1. dsock # 0 /\ (conn # 0 => conn = dsock)
  BY <1>0 DEF StaysConnected
<1> USE DEF dvars, cvars, gvars, vars, lvars, ovars, appvars
<1>2. CASE OperReopen \/ OperStop
  BY <1>2 DEF OperReopen, OperStop, Fault
<1>3. CASE OperStart
  BY <1>1, <1>3 DEF OperStart, Start
<1>4. CASE UNCHANGED dsock /\ conn' \in {conn, dsock, 0}
  BY <1>1, <1>4
<1> QED
  BY <1>2, <1>3, <1>4 DEF OperNext, Library, User, Wpas, OperSendOk, SendOk,
     OperRecvReply, RecvReply, OperTimeout, Timeout, OperRecvError, RecvError,
     OperSendFail, SendFail, ReturnError, Issue, IssuePsk, Call,
     PasswordRefused, PasswordCrash, OverrunCrash, Close, ResumeAdd, ResumeAddList, ResumeSet,
     ResumeEnable, ResumeCleanup, ResumeRemoveList, InitWpaCli, Open,
     InitWpaCliFails, DeinitWpaCli, ConnectWifi, OperReply, Reply,
     OperReplyUnsent, ReplyUnsent, allvars

LEMMA InitOInv == OperInit => IInv /\ AInv /\ OInv
<1> SUFFICES ASSUME OperInit PROVE IInv /\ AInv /\ OInv
  OBVIOUS
<1>1. IInv /\ AInv
  BY InitIInv, InitAInv DEF OperInit
<1>2. LibraryOK
  BY TxtAssumption DEF OperInit, LibraryOK, NoResult, Result, AllCmds
<1>3. TableOK /\ GhostOK
  BY ConfiguredFacts DEF OperInit, TableOK, GhostOK
<1>4. OperTypeOK /\ Blank(nets)
  BY <1>1, <1>2, <1>3, TypeParts DEF IInv
<1>5. OwnCmds /\ OnlyCurrent
  BY DEF OperInit, Init, OwnCmds, OnlyCurrent
<1>6. Control /\ StaysConnected
  BY DEF OperInit, Init, Control, StaysConnected
<1> QED
  BY <1>1, <1>4, <1>5, <1>6 DEF OInv

LEMMA StepOInv ==
    ASSUME IInv, AInv, OInv, [OperNext]_allvars PROVE OInv'
<1>1. TypeOK'
  BY StepConnection DEF IInv
<1>2. (OperTypeOK /\ Blank(nets))'
  BY <1>1, StepLibraryOK, StepTableOK, StepGhostOK
     DEF OperTypeOK, LibraryOK, TableOK, GhostOK, Steps
<1> QED
  BY <1>2, StepOwnCmds, StepControl, StepOnlyCurrent, StepStaysConnected
     DEF OInv

\* The invariant of the session, and of the connection under it.
THEOREM OperInvariant == OperSpec => [](IInv /\ AInv /\ OInv)
<1>1. IInv /\ AInv /\ OInv /\ [OperNext]_allvars => (IInv /\ AInv /\ OInv)'
  BY StepConnection, StepOInv
<1> QED
  BY <1>1, InitOInv, PTL DEF OperSpec

\* Every variable keeps its type: connect_wifi only names networks the daemon
\* can have, whatever text it takes for an id.
THEOREM OperTypeCorrect == OperSpec => []OperTypeOK
<1>1. OInv => OperTypeOK
  BY DEF OInv
<1> QED
  BY <1>1, OperInvariant, PTL

-----------------------------------------------------------------------------
(* What the request in progress was answered *)

\* The steps that neither answer a request nor move connect_wifi on.
Passive ==
    \/ OperSendOk \/ OperRecvReply \/ OperSendFail \/ Issue
    \/ OperReplyUnsent \/ OperReopen \/ OperStop \/ OperStart
    \/ InitWpaCli \/ InitWpaCliFails \/ UNCHANGED allvars

Crash ==
    /\ DeinitWpaCli \/ PasswordCrash \/ OverrunCrash
    /\ step' = "crashed"

LEMMA StepCases ==
    ASSUME [OperNext]_allvars
    PROVE  \/ OperTimeout \/ OperRecvError \/ IssuePsk \/ Passive \/ OperReply
           \/ PasswordRefused \/ Crash \/ (DeinitWpaCli /\ step' = "idle")
           \/ (\E f \in Flags : ConnectWifi(f))
           \/ ResumeAdd \/ ResumeAddList \/ ResumeSet \/ ResumeEnable
           \/ ResumeCleanup \/ ResumeRemoveList
  BY DEF OperNext, Library, User, Wpas, Passive, Crash, DeinitWpaCli,
     PasswordCrash, OverrunCrash

\* A passive step keeps the answer: a reply is taken from the socket and kept.
LEMMA PassiveFacts ==
    ASSUME IInv, AInv, OInv, Passive, Quiet
    PROVE  /\ UNCHANGED <<step, saved, network_id, ret, before>>
           /\ \A t : Got(t)' <=> Got(t)
           /\ nets' = nets \/ OperReplyUnsent \/ OperStart
<1>0. /\ Control /\ abandoned = {} /\ rxC \in Seq(Datagram)
      /\ pc \in {"idle", "send", "wait"}
  BY DEF OInv, OnlyCurrent, OperTypeOK, TypeOK
<1> USE DEF dvars, cvars, gvars, vars, lvars, ovars, appvars
<1>1. /\ UNCHANGED <<step, saved, network_id, ret, before>>
      /\ nets' = nets \/ OperReplyUnsent \/ OperStart
  BY DEF Passive, OperSendOk, OperRecvReply, OperSendFail, Fault, Issue,
     OperReplyUnsent, OperReopen, OperStop, OperStart, InitWpaCli,
     InitWpaCliFails, allvars
<1>2. CASE UNCHANGED <<asked, pc, rxC, last>>
  BY <1>1, <1>2 DEF Got
<1>3. CASE OperSendOk
  <2>1. /\ pc = "send" /\ pc' = "wait" /\ UNCHANGED rxC
    BY <1>3 DEF OperSendOk, SendOk
  <2>2. conn # 0
    BY <2>1 DEF IInv, Numbered
  <2>3. \A i \in DOMAIN rxC : rxC[i].kind # "reply"
    BY <1>0, <2>1, <2>2, CleanFacts DEF Clean
  <2> QED BY <1>1, <2>1, <2>3 DEF Got
<1>4. CASE OperRecvReply
  <2>1. /\ pc = "wait" /\ pc' = "idle" /\ rxC # <<>>
        /\ Head(rxC).kind = "reply" /\ last'.txt = Head(rxC).txt
        /\ last'.ret = RetOfReply(cur.cmd, Head(rxC).txt)
        /\ UNCHANGED asked
    BY <1>4 DEF OperRecvReply, RecvReply
  <2>2. last'.ret = "ok"
    BY <2>1, CmdFacts DEF RetOfReply, OInv, OwnCmds
  <2>3. Head(rxC) = rxC[1] /\ 1 \in DOMAIN rxC
    BY <1>0, <2>1, TailFacts
  <2>4. conn # 0
    BY <2>1 DEF IInv, Numbered
  <2>5. \A i \in DOMAIN rxC : rxC[i].kind = "reply" => i = 1
    BY <1>0, <2>1, <2>3, <2>4, CleanFacts DEF Clean
  <2> QED BY <1>1, <2>1, <2>2, <2>3, <2>5 DEF Got
<1>5. CASE OperSendFail
  <2>1. pc = "send" /\ pc' = "idle" /\ last'.ret = "fail"
    BY <1>5 DEF OperSendFail, SendFail, ReturnError
  <2> QED BY <1>1, <2>1 DEF Got
<1>6. CASE Issue
  <2>1. ~asked /\ pc' = "send"
    BY <1>6 DEF Issue, Call
  <2> QED BY <1>1, <2>1 DEF Got
<1>7. CASE InitWpaCli \/ InitWpaCliFails
  <2>1. step = "idle" /\ UNCHANGED asked
    BY <1>7 DEF InitWpaCli, InitWpaCliFails
  <2>2. ~asked
    BY <1>0, <2>1 DEF Control
  <2> QED BY <1>1, <2>1, <2>2 DEF Got
<1>8. CASE OperReplyUnsent \/ OperReopen \/ OperStop \/ OperStart
           \/ UNCHANGED allvars
  <2>1. UNCHANGED <<asked, pc, rxC, last>>
    BY <1>8 DEF OperReplyUnsent, ReplyUnsent, OperReopen, Reopen, OperStop,
       Stop, OperStart, Start, Fault, allvars
  <2> QED BY <1>2, <2>1
<1> QED
  BY <1>1, <1>3, <1>4, <1>5, <1>6, <1>7, <1>8 DEF Passive

\* While nothing was given up on, the daemon handles the request in progress.
LEMMA HeadIsCurrent ==
    ASSUME IInv, AInv, OInv, Quiet, rxD # <<>>
    PROVE  /\ Head(rxD) = cur /\ cur.cmd \in OperCmds /\ pc = "wait" /\ asked
           /\ step # "psk" => cur.cmd = CmdOf(step) /\ step \in Steps
           /\ conn # 0 /\ cur.from = addr /\ abandoned = {}
           /\ \A i \in DOMAIN rxC : rxC[i].kind # "reply"
<1>1. Head(rxD) = rxD[1] /\ 1 \in DOMAIN rxD /\ Head(rxD).cmd \in OperCmds
  BY HeadIsOwn
<1>2. conn # 0 /\ rxD[1].from = addr /\ abandoned = {}
  BY <1>1 DEF OInv, OnlyCurrent
<1>3. /\ pc = "wait" /\ rxD[1] = cur
      /\ \A i \in DOMAIN rxC : rxC[i].kind # "reply"
  BY <1>1, <1>2, CleanFacts DEF Clean
<1> QED
  BY <1>1, <1>2, <1>3 DEF OInv, Control, OperTypeOK, Steps

LEMMA ReplyFacts ==
    ASSUME IInv, AInv, OInv, OperReply, Quiet
    PROVE  /\ step # "psk" => cur.cmd = CmdOf(step) /\ step \in Steps
           /\ cur.cmd \in OperCmds
           /\ \A t : ~Got(t)
           /\ UNCHANGED <<step, saved, network_id, ret, before>>
           /\ \E o \in Handle(cur.cmd) :
                 /\ nets' = o[1]
                 /\ \A t : Got(t)' <=> t = o[2]
                 /\ AddFailed(cur.cmd, o) => "addfail" \in mishaps'
<1>0. /\ rxC \in Seq(Datagram) /\ cur \in Request /\ TableOK
  BY TypeParts DEF OInv, TypeOK
<1>1. rxD # <<>> /\ UNCHANGED <<pc, asked, last>>
  BY DEF OperReply, Reply, ovars
<1>2. /\ Head(rxD) = cur /\ cur.cmd \in OperCmds /\ pc = "wait" /\ asked
      /\ step # "psk" => cur.cmd = CmdOf(step) /\ step \in Steps
      /\ \A i \in DOMAIN rxC : rxC[i].kind # "reply"
  BY <1>1, HeadIsCurrent
<1>3. PICK o \in Handle(cur.cmd) :
         /\ rxC'[Len(rxC')].txt = o[2]
         /\ nets' = o[1]
         /\ mishaps' = IF AddFailed(cur.cmd, o)
                       THEN mishaps \cup {"addfail"} ELSE mishaps
  BY <1>2 DEF OperReply
<1>4. PICK t \in Txts : rxC' = Append(rxC, ReplyMsg(cur.id, t))
  BY <1>2 DEF OperReply, Reply
<1> DEFINE m == ReplyMsg(cur.id, t)
<1>5. m \in Datagram /\ m.txt = t /\ m.kind = "reply"
  BY <1>0 DEF ReplyMsg, Datagram, Request
<1>6. rxC' = Append(rxC, m)
  BY <1>4
<1> HIDE DEF m
<1>7. /\ rxC'[Len(rxC')] = m /\ Len(rxC') \in DOMAIN rxC'
      /\ \A i \in DOMAIN rxC' : rxC'[i].kind = "reply" => rxC'[i] = m
  <2>1. \A i \in DOMAIN rxC' :
           \/ i \in DOMAIN rxC /\ rxC'[i] = rxC[i]
           \/ i = Len(rxC) + 1 /\ rxC'[i] = m
    BY <1>0, <1>5, <1>6, AppendFacts
  <2>2. rxC'[Len(rxC')] = m /\ Len(rxC') \in DOMAIN rxC'
    BY <1>0, <1>5, <1>6
  <2> QED BY <1>2, <2>1, <2>2
<1>8. t = o[2]
  BY <1>3, <1>5, <1>7
<1>9. \A u : Got(u)' <=> u = o[2]
  BY <1>1, <1>2, <1>5, <1>7, <1>8 DEF Got
<1>10. \A u : ~Got(u)
  BY <1>2 DEF Got
<1>11. UNCHANGED <<step, saved, network_id, ret, before>>
  BY DEF OperReply, ovars
<1> QED
  BY <1>2, <1>3, <1>9, <1>10, <1>11

\* The command of each step, when network_id is an id.
LEMMA CmdOfParts ==
    /\ CmdOf("add").op = "ADD_NETWORK"
    /\ CmdOf("add_list").op = "LIST_NETWORKS"
    /\ CmdOf("remove_list").op = "LIST_NETWORKS"
    /\ \A s \in EditSteps \ {"psk"} :
          /\ CmdOf(s).id = Atoi(network_id)
          /\ CmdOf(s).op \notin {"ADD_NETWORK", "LIST_NETWORKS"}
          /\ network_id.k = "id" => CmdOf(s).var # "id"
    /\ \A s \in {"enable", "disable", "remove"} : CmdOf(s).op # "SET_NETWORK"
<1>1. /\ CmdOf("add").op = "ADD_NETWORK"
      /\ CmdOf("add_list").op = "LIST_NETWORKS"
      /\ CmdOf("remove_list").op = "LIST_NETWORKS"
  BY DEF CmdOf, Cmd
<1>2. ASSUME NEW s \in EditSteps \ {"psk"}
      PROVE  /\ CmdOf(s).id = Atoi(network_id)
             /\ CmdOf(s).op \notin {"ADD_NETWORK", "LIST_NETWORKS"}
             /\ network_id.k = "id" => CmdOf(s).var # "id"
             /\ s \in {"enable", "disable", "remove"}
                   => CmdOf(s).op # "SET_NETWORK"
  BY <1>2 DEF CmdOf, Cmd, VarOf, EditSteps
<1> QED
  BY <1>1, <1>2 DEF EditSteps

\* The texts that a request may have returned with.
LEMMA ReturnedText ==
    ASSUME OInv, asked, pc = "idle", last.ret = "ok"
    PROVE  last.txt \in Txts /\ Got(last.txt)
  BY DEF OInv, OperTypeOK, TypeOK, Result, Got

LEMMA NoneGot == ~asked' => \A t : ~Got(t)'
  BY DEF Got

-----------------------------------------------------------------------------
(* The user's networks *)

\* Handling the command of a step leaves the user's networks alone, and a new
\* network is not one of them: its id is above every id in use.
LEMMA HandleOwn ==
    ASSUME TableOK, OwnNetwork, step \in Steps,
           network_id \in Txts \cup {NoTxt}, NEW o \in Handle(CmdOf(step))
    PROVE  /\ \A i \in UserNets : o[1][i] = UserNet
           /\ step = "add" => o[2] = FailTxt \/ OwnId(o[2])
<1>0. /\ CmdOf(step) \in OperCmds /\ nets \in [NetIds -> Net]
      /\ \A i \in UserNets : i \in NetIds /\ nets[i] = UserNet
  BY CmdOfFacts, NetAssumption DEF TableOK, OwnNetwork
<1>1. ASSUME NEW f \in FreeIds PROVE f \in NetIds \ UserNets
  <2>1. UserNets \subseteq Used
    BY <1>0 DEF Used, UserNet
  <2>2. f \in NetIds /\ \A i \in UserNets : i < f
    BY <2>1 DEF FreeIds
  <2> QED BY <2>2, NetAssumption
<1>2. CASE step = "add"
  <2>1. \/ o[1] = nets /\ o[2] = FailTxt
        \/ \E f \in FreeIds : /\ o[1] = [nets EXCEPT ![f] = NewNet]
                              /\ o[2] = Txt("id", f, {})
    BY <1>0, <1>2, HandleFacts, CmdOfParts
  <2>2. CASE o[1] = nets /\ o[2] = FailTxt
    BY <1>0, <2>2
  <2>3. ASSUME NEW f \in FreeIds, o[1] = [nets EXCEPT ![f] = NewNet],
               o[2] = Txt("id", f, {})
        PROVE  (\A i \in UserNets : o[1][i] = UserNet) /\ OwnId(o[2])
    <3>1. f \in NetIds \ UserNets
      BY <1>1
    <3>2. OwnId(o[2])
      BY <2>3, <3>1 DEF OwnId, Txt
    <3> QED BY <1>0, <2>3, <3>1, <3>2
  <2> QED BY <2>1, <2>2, <2>3
<1>3. CASE step \in {"add_list", "remove_list"}
  <2>1. o[1] = nets
    BY <1>0, <1>3, HandleFacts, CmdOfParts
  <2> QED BY <1>0, <1>3, <2>1
<1>4. CASE step \in EditSteps
  <2>1. step # "psk"
    BY DEF Steps
  <2>2. CmdOf(step).id \notin UserNets
    BY <1>4, <2>1, CmdOfParts DEF OwnNetwork, OwnId, Atoi
  <2>3. \/ o[1] = nets
        \/ o[1] = [nets EXCEPT ![CmdOf(step).id] =
                                   Edited(CmdOf(step), nets[CmdOf(step).id])]
    BY <1>0, <1>4, <2>1, HandleFacts, CmdOfParts
  <2> QED BY <1>0, <1>4, <2>2, <2>3 DEF EditSteps
<1> QED
  BY <1>2, <1>3, <1>4 DEF Steps, EditSteps

LEMMA StepOwnNetwork ==
    ASSUME IInv, AInv, OInv, PInv, [OperNext]_allvars, Safe'
    PROVE  OwnNetwork'
<1>0. /\ mishaps \subseteq mishaps' /\ TableOK /\ Control
      /\ network_id \in Txts \cup {NoTxt}
      /\ step \in Steps \cup {"idle", "crashed", "psk"}
  BY StepGhostOK, TypeParts DEF OInv, LibraryOK
<1>1. Safe /\ Quiet /\ OwnNetwork /\ (asked => step # "psk")
  BY <1>0 DEF Safe, Quiet, PInv, Control
<1> USE DEF lvars, ovars, appvars, vars
<1>2. CASE OperTimeout \/ OperRecvError \/ IssuePsk
  BY <1>2 DEF OperTimeout, OperRecvError, IssuePsk, Fault, Safe
<1>3. CASE Passive
  <2>1. /\ UNCHANGED <<step, saved, network_id, ret, before>>
        /\ \A t : Got(t)' <=> Got(t)
        /\ nets' = nets \/ OperReplyUnsent \/ OperStart
    BY <1>1, <1>3, PassiveFacts
  <2>2. \A i \in UserNets : nets'[i] = UserNet
    <3>1. CASE nets' = nets
      BY <1>1, <3>1 DEF OwnNetwork
    <3>2. CASE OperStart
      BY <3>2, ConfiguredFacts DEF OperStart
    <3>3. CASE OperReplyUnsent
      <4>1. rxD # <<>> /\ \E o \in Handle(Head(rxD).cmd) : nets' = o[1]
        BY <3>3 DEF OperReplyUnsent, ReplyUnsent
      <4>2. Head(rxD).cmd = CmdOf(step) /\ step \in Steps
        BY <1>1, <4>1, HeadIsCurrent
      <4> QED BY <1>0, <1>1, <4>1, <4>2, HandleOwn
    <3> QED BY <2>1, <3>1, <3>2, <3>3
  <2> QED BY <1>1, <2>1, <2>2 DEF OwnNetwork, OwnId
<1>4. CASE OperReply
  <2>1. /\ asked /\ UNCHANGED <<step, saved, network_id>>
    BY <1>1, <1>4, ReplyFacts, HeadIsCurrent DEF OperReply, Reply
  <2>2. /\ cur.cmd = CmdOf(step) /\ step \in Steps
    BY <1>1, <1>4, <2>1, ReplyFacts
  <2>3. PICK o \in Handle(cur.cmd) :
           /\ nets' = o[1]
           /\ \A t : Got(t)' <=> t = o[2]
           /\ AddFailed(cur.cmd, o) => "addfail" \in mishaps'
    BY <1>1, <1>4, ReplyFacts
  <2>4. /\ \A i \in UserNets : nets'[i] = UserNet
        /\ step = "add" => o[2] = FailTxt \/ OwnId(o[2])
    BY <1>0, <1>1, <2>2, <2>3, HandleOwn
  <2>5. step = "add" => OwnId(o[2])
    BY <2>2, <2>3, <2>4, CmdOfParts DEF AddFailed, Safe
  <2> QED BY <1>1, <2>1, <2>3, <2>4, <2>5 DEF OwnNetwork, OwnId
<1>5. CASE PasswordRefused
  BY <1>1, <1>5 DEF PasswordRefused, OwnNetwork, OwnId, EditSteps
<1>6. CASE Crash \/ (DeinitWpaCli /\ step' = "idle")
  <2>1. step' \in {"crashed", "idle"} /\ UNCHANGED nets
    BY <1>6 DEF Crash, DeinitWpaCli, PasswordCrash, OverrunCrash
  <2> QED BY <1>1, <2>1 DEF OwnNetwork, EditSteps
<1>7. ASSUME NEW f \in Flags, ConnectWifi(f) PROVE OwnNetwork'
  <2>1. /\ step' \in {"add", "idle"} /\ ~asked' /\ UNCHANGED nets
    BY <1>0, <1>7 DEF ConnectWifi, Control
  <2> QED BY <1>1, <2>1, NoneGot DEF OwnNetwork, EditSteps
<1>8. CASE ResumeAdd
  <2>1. /\ step = "add" /\ asked /\ pc = "idle" /\ saved' = last
        /\ step' = "add_list" /\ UNCHANGED nets
    BY <1>8 DEF ResumeAdd, Returned
  <2>2. last.ret = "ok" => OwnId(last.txt)
    BY <1>1, <2>1, ReturnedText DEF OwnNetwork
  <2> QED BY <1>1, <2>1, <2>2 DEF OwnNetwork, OwnId, EditSteps
<1>9. CASE ResumeAddList
  <2>1. /\ step = "add_list" /\ UNCHANGED nets
        /\ \/ saved.ret = "ok" /\ network_id' = saved.txt /\ step' = "ssid"
           \/ step' = "idle"
    BY <1>9 DEF ResumeAddList, Returned, IdTaken
  <2> QED BY <1>1, <2>1 DEF OwnNetwork, OwnId, EditSteps
<1>10. CASE ResumeSet \/ ResumeEnable \/ ResumeCleanup \/ ResumeRemoveList
  <2>1. /\ UNCHANGED <<nets, network_id>>
        /\ step' \in EditSteps => step \in EditSteps
        /\ step' \notin {"add", "add_list"}
    <3>1. CASE ResumeSet
      <4>1. \A s \in {"ssid", "key_mgmt", "wep_key", "psk"} :
               AfterOk(s) \notin {"add", "add_list"}
        BY DEF AfterOk
      <4> QED BY <3>1, <4>1 DEF ResumeSet, Returned, EditSteps
    <3>2. CASE ResumeEnable \/ ResumeCleanup \/ ResumeRemoveList
      BY <3>2 DEF ResumeEnable, ResumeCleanup, ResumeRemoveList, Returned,
         AfterDisable, EditSteps
    <3> QED BY <1>10, <3>1, <3>2
  <2> QED BY <1>1, <2>1 DEF OwnNetwork, OwnId
<1> QED
  BY <1>2, <1>3, <1>4, <1>5, <1>6, <1>7, <1>8, <1>9, <1>10, StepCases

-----------------------------------------------------------------------------
(* The network that is added *)

\* While the daemon runs on and nothing was given up on, every request that is
\* handled is answered.
LEMMA NoneUnsent ==
    ASSUME IInv, AInv, OInv, Alive, Passive
    PROVE  ~OperReplyUnsent /\ ~OperStart
<1>1. Quiet /\ dsock # 0 /\ (conn # 0 => conn = dsock)
  BY DEF Alive, Safe, Quiet, OInv, StaysConnected
<1>2. ~OperStart
  BY <1>1 DEF OperStart, Start
<1>3. ASSUME OperReplyUnsent PROVE FALSE
  <2>1. rxD # <<>> /\ ~(Connected /\ Head(rxD).from = addr)
    BY <1>3 DEF OperReplyUnsent, ReplyUnsent
  <2>2. conn # 0 /\ Head(rxD).from = addr
    BY <1>1, <2>1, HeadIsCurrent
  <2> QED BY <1>1, <2>1, <2>2 DEF Connected
<1> QED
  BY <1>2, <1>3

\* The command of a step on its network, when the daemon carries it out.
LEMMA EditedFacts ==
    ASSUME network_id.k = "id",
           NEW s \in {"ssid", "key_mgmt", "wep_key", "enable"}
    PROVE  /\ Edited(CmdOf(s), NetBefore(s)) = NetAfter(s)
           /\ NetBefore(s).by = "lib"
<1>1. \A v : VarOf(v) = v
  BY DEF VarOf
<1>2. /\ CmdOf("ssid") = Cmd("SET_NETWORK", Atoi(network_id), "ssid")
      /\ CmdOf("key_mgmt") = Cmd("SET_NETWORK", Atoi(network_id), "key_mgmt")
      /\ CmdOf("wep_key") = Cmd("SET_NETWORK", Atoi(network_id), "wep_key0")
      /\ CmdOf("enable") = Cmd("ENABLE_NETWORK", Atoi(network_id), "-")
  BY <1>1 DEF CmdOf
<1> USE DEF Edited, Cmd, SetVar, NetBefore, NetAfter
<1>b. NewNet.by = "lib" /\ Named.by = "lib" /\ Keyed.by = "lib"
  BY DEF Keyed, Named, NewNet
<1>3. CASE s = "ssid"
  BY <1>2, <1>3, <1>b DEF Named
<1>4. CASE s = "key_mgmt"
  BY <1>2, <1>4, <1>b
<1>5. CASE s = "wep_key"
  BY <1>2, <1>5, <1>b DEF Keyed
<1>6. CASE s = "enable"
  BY <1>2, <1>6, <1>b DEF Final
<1> QED
  BY <1>3, <1>4, <1>5, <1>6

SetSteps == {"ssid", "key_mgmt", "wep_key", "enable"}

\* The daemon's answer to a step, and the network it leaves.
LEMMA HandleProgress ==
    ASSUME TableOK, OwnNetwork, Progress, \A t : ~Got(t),
           network_id \in Txts \cup {NoTxt}, step \in Steps,
           NEW o \in Handle(CmdOf(step))
    PROVE  /\ step = "add" => o[2] = FailTxt \/ o[1][o[2].n] = NewNet
           /\ step = "add_list" => o[1] = nets
           /\ step \in SetSteps =>
                 o[1][Atoi(network_id)] =
                     IF o[2] = OkTxt THEN NetAfter(step) ELSE NetBefore(step)
<1>0. CmdOf(step) \in OperCmds /\ nets \in [NetIds -> Net]
  BY CmdOfFacts DEF TableOK
<1>1. CASE step = "add"
  <2>1. \/ o[2] = FailTxt
        \/ \E f \in FreeIds : /\ o[1] = [nets EXCEPT ![f] = NewNet]
                              /\ o[2] = Txt("id", f, {})
    BY <1>0, <1>1, HandleFacts, CmdOfParts
  <2>2. \A f \in FreeIds : f \in NetIds
    BY DEF FreeIds
  <2>3. ASSUME NEW f \in FreeIds, o[1] = [nets EXCEPT ![f] = NewNet],
               o[2] = Txt("id", f, {})
        PROVE  o[1][o[2].n] = NewNet
    <3>1. o[2].n = f /\ f \in NetIds
      BY <2>2, <2>3 DEF Txt
    <3> QED BY <1>0, <2>3, <3>1
  <2>4. o[2] = FailTxt \/ o[1][o[2].n] = NewNet
    BY <2>1, <2>3
  <2> QED BY <1>1, <2>4 DEF SetSteps
<1>2. CASE step = "add_list"
  BY <1>0, <1>2, HandleFacts, CmdOfParts DEF SetSteps
<1>3. CASE step \in SetSteps
  <2> DEFINE c == CmdOf(step)
             n == Atoi(network_id)
  <2>1. network_id.k = "id" /\ n \in NetIds
    BY <1>3 DEF OwnNetwork, OwnId, EditSteps, SetSteps, Atoi
  <2>2. nets[n] = NetBefore(step)
    BY <1>3 DEF Progress, SetSteps
  <2>3. c.id = n /\ c.op \notin {"ADD_NETWORK", "LIST_NETWORKS"}
    BY <1>3, CmdOfParts DEF SetSteps, EditSteps
  <2>4. \/ o[2] = OkTxt /\ o[1] = [nets EXCEPT ![n] = Edited(c, nets[n])]
        \/ o[2] = FailTxt /\ o[1] = nets
    BY <1>0, <2>3, HandleFacts
  <2>5. Edited(c, nets[n]) = NetAfter(step)
    BY <1>3, <2>1, <2>2, EditedFacts DEF SetSteps
  <2>6. o[1][n] = IF o[2] = OkTxt THEN NetAfter(step) ELSE NetBefore(step)
    BY <1>0, <2>1, <2>2, <2>4, <2>5, TextFacts
  <2> QED BY <1>3, <2>6 DEF SetSteps
<1> QED
  BY <1>1, <1>2, <1>3

LEMMA StepProgress ==
    ASSUME IInv, AInv, OInv, PInv, [OperNext]_allvars, Alive'
    PROVE  Progress'
<1>0. /\ mishaps \subseteq mishaps' /\ TableOK /\ Control
      /\ network_id \in Txts \cup {NoTxt}
      /\ step \in Steps \cup {"idle", "crashed", "psk"}
  BY StepGhostOK, TypeParts DEF OInv, LibraryOK
<1>1. /\ Alive /\ Quiet /\ OwnNetwork /\ Progress
      /\ (asked => step # "psk")
  BY <1>0 DEF Alive, Safe, Quiet, PInv, Control
<1> USE DEF lvars, ovars, appvars, vars
<1>2. CASE OperTimeout \/ OperRecvError \/ IssuePsk
  BY <1>2 DEF OperTimeout, OperRecvError, IssuePsk, Fault, Safe, Alive
<1>3. CASE Passive
  <2>1. /\ UNCHANGED <<step, saved, network_id, ret, nets>>
        /\ \A t : Got(t)' <=> Got(t)
    BY <1>1, <1>3, PassiveFacts, NoneUnsent
  <2> QED BY <1>1, <2>1 DEF Progress, Atoi
<1>4. CASE OperReply
  <2>1. /\ asked /\ UNCHANGED <<step, saved, network_id, ret>>
        /\ \A t : ~Got(t)
    BY <1>1, <1>4, ReplyFacts, HeadIsCurrent DEF OperReply, Reply
  <2>2. /\ cur.cmd = CmdOf(step) /\ step \in Steps
    BY <1>1, <1>4, <2>1, ReplyFacts
  <2>3. PICK o \in Handle(cur.cmd) :
           /\ nets' = o[1]
           /\ \A t : Got(t)' <=> t = o[2]
           /\ AddFailed(cur.cmd, o) => "addfail" \in mishaps'
    BY <1>1, <1>4, ReplyFacts
  <2>4. /\ step = "add" => o[2] = FailTxt \/ nets'[o[2].n] = NewNet
        /\ step = "add_list" => nets' = nets
        /\ step \in SetSteps =>
              nets'[Atoi(network_id)] =
                  IF o[2] = OkTxt THEN NetAfter(step) ELSE NetBefore(step)
    BY <1>0, <1>1, <2>1, <2>2, <2>3, HandleProgress
  <2>5. step = "add" => o[2] # FailTxt
    BY <2>2, <2>3, CmdOfParts DEF AddFailed, Safe, Alive
  <2>6. step # "idle"
    BY <2>2 DEF Steps
  <2> QED BY <1>1, <2>1, <2>3, <2>4, <2>5, <2>6 DEF Progress, SetSteps, Atoi
<1>5. CASE PasswordRefused
  BY <1>5 DEF PasswordRefused, Progress
<1>6. CASE Crash
  BY <1>6 DEF Crash, Progress
<1>7. CASE DeinitWpaCli /\ step' = "idle"
  <2>1. step = "idle" /\ UNCHANGED <<nets, ret, network_id>>
    BY <1>7 DEF DeinitWpaCli
  <2> QED BY <1>1, <1>7, <2>1 DEF Progress, Atoi
<1>8. ASSUME NEW f \in Flags, ConnectWifi(f) PROVE Progress'
  <2>1. /\ step' \in {"add", "idle"} /\ ~asked' /\ ret' # "ok"
    BY <1>0, <1>8 DEF ConnectWifi, Control
  <2> QED BY <2>1, NoneGot DEF Progress
<1>9. CASE ResumeAdd
  <2>1. /\ step = "add" /\ asked /\ pc = "idle" /\ saved' = last
        /\ step' = "add_list" /\ UNCHANGED nets
    BY <1>9 DEF ResumeAdd, Returned
  <2>2. last.ret = "ok" => nets[last.txt.n] = NewNet
    BY <1>1, <2>1, ReturnedText DEF Progress
  <2> QED BY <2>1, <2>2 DEF Progress
<1>10. CASE ResumeAddList
  <2>1. /\ step = "add_list" /\ UNCHANGED nets /\ ~asked'
        /\ \/ saved.ret = "ok" /\ network_id' = saved.txt /\ step' = "ssid"
           \/ step' = "idle" /\ ret' = "fail"
    BY <1>10 DEF ResumeAddList, Returned, IdTaken
  <2> QED BY <1>1, <2>1, NoneGot DEF Progress, Atoi, NetBefore
<1>11. CASE ResumeSet
  <2>1. PICK s \in {"ssid", "key_mgmt", "wep_key"} :
           /\ step = s /\ asked /\ pc = "idle" /\ ~asked'
           /\ step' = IF CommOk THEN AfterOk(s) ELSE "disable"
           /\ UNCHANGED <<nets, network_id>>
    BY <1>1, <1>11 DEF ResumeSet, Returned
  <2>2. CommOk => Got(OkTxt)
    BY <2>1 DEF CommOk, Got
  <2>3. CommOk => nets[Atoi(network_id)] = NetAfter(s)
    BY <1>1, <2>1, <2>2 DEF Progress
  <2>4. \/ AfterOk(s) \in {"key_mgmt", "wep_key", "enable"}
           /\ NetAfter(s) = NetBefore(AfterOk(s))
        \/ AfterOk(s) \in {"psk", "disable"}
    <3>1. CASE s = "ssid"
      BY <3>1 DEF AfterOk, NetAfter, NetBefore
    <3>2. CASE s = "key_mgmt"
      BY <3>2 DEF AfterOk, NetAfter, NetBefore
    <3>3. CASE s = "wep_key"
      BY <3>3 DEF AfterOk, NetAfter, NetBefore
    <3> QED BY <3>1, <3>2, <3>3
  <2> QED BY <2>1, <2>3, <2>4, NoneGot DEF Progress, Atoi
<1>12. CASE ResumeEnable
  <2>1. /\ step = "enable" /\ asked /\ pc = "idle"
        /\ UNCHANGED <<nets, network_id>>
        /\ \/ CommOk /\ step' = "idle"
           \/ step' = "disable"
    BY <1>12 DEF ResumeEnable, Returned
  <2>2. CommOk => Got(OkTxt)
    BY <2>1 DEF CommOk, Got
  <2>3. CommOk => nets[Atoi(network_id)] = Final
    BY <1>1, <2>1, <2>2 DEF Progress, NetAfter
  <2> QED BY <2>1, <2>3 DEF Progress, Atoi
<1>13. CASE ResumeCleanup
  BY <1>13 DEF ResumeCleanup, AfterDisable, Progress
<1>14. CASE ResumeRemoveList
  BY <1>14 DEF ResumeRemoveList, Progress
<1> QED
  BY <1>2, <1>3, <1>4, <1>5, <1>6, <1>7, <1>8, <1>9, <1>10, <1>11, <1>12,
     <1>13, <1>14, StepCases

-----------------------------------------------------------------------------
(* What a failed call leaves behind *)

\* A request that returned was answered, while nothing went wrong.
LEMMA StepAnswered ==
    ASSUME IInv, AInv, OInv, PInv, [OperNext]_allvars, mishaps' = {}
    PROVE  Answered'
<1>0. mishaps = {} /\ Control
  BY StepGhostOK DEF OInv
<1>1. Quiet /\ Answered
  BY <1>0 DEF PInv, Quiet
<1> USE DEF lvars, ovars, appvars, vars, dvars, cvars, gvars
<1>2. CASE OperTimeout \/ OperRecvError \/ IssuePsk \/ OperSendFail
           \/ OperReopen \/ OperStop
  BY <1>2 DEF OperTimeout, OperRecvError, IssuePsk, OperSendFail, OperReopen,
     OperStop, Fault
<1>3. CASE OperRecvReply
  <2>1. pc = "wait" /\ last'.ret = RetOfReply(cur.cmd, Head(rxC).txt)
    BY <1>3 DEF OperRecvReply, RecvReply
  <2>2. last'.ret = "ok"
    BY <2>1, CmdFacts DEF RetOfReply, OInv, OwnCmds
  <2> QED BY <2>2 DEF Answered
<1>4. CASE OperSendOk \/ Issue
  BY <1>4 DEF OperSendOk, SendOk, Issue, Call, Answered
<1>5. CASE ~asked'
  BY <1>5 DEF Answered
<1>6. CASE UNCHANGED <<asked, pc, last>>
  BY <1>1, <1>6 DEF Answered
<1>7. CASE InitWpaCli \/ InitWpaCliFails \/ DeinitWpaCli \/ PasswordCrash
           \/ OverrunCrash
  <2>1. ~asked'
    BY <1>0, <1>7 DEF InitWpaCli, InitWpaCliFails, DeinitWpaCli,
       PasswordCrash, OverrunCrash, Returned, Control
  <2> QED BY <1>5, <2>1
<1>8. CASE OperReply \/ OperReplyUnsent \/ OperStart
  <2>1. UNCHANGED <<asked, pc, last>>
    BY <1>8 DEF OperReply, Reply, OperReplyUnsent, ReplyUnsent, OperStart,
       Start
  <2> QED BY <1>6, <2>1
<1> QED
  BY <1>2, <1>3, <1>4, <1>5, <1>6, <1>7, <1>8 DEF OperNext, Library, User,
     Wpas, PasswordRefused, ResumeAdd, ResumeAddList, ResumeSet, ResumeEnable,
     ResumeCleanup, ResumeRemoveList, Returned, ConnectWifi, allvars

\* Handling the command of a step changes the added network only, and
\* removing it restores the table.
LEMMA HandleResidue ==
    ASSUME TableOK, OwnNetwork, Residue, \A t : ~Got(t), asked,
           network_id \in Txts \cup {NoTxt}, step \in Steps,
           NEW o \in Handle(CmdOf(step))
    PROVE  /\ step = "add" /\ o[2] # FailTxt =>
                 /\ before[o[2].n] = NoNet /\ o[1][o[2].n].by = "lib"
                 /\ \A k \in NetIds : k # o[2].n => o[1][k] = before[k]
           /\ step \in EditSteps \ {"remove"} =>
                 /\ o[1][Atoi(network_id)].by = "lib"
                 /\ \A k \in NetIds :
                       k # Atoi(network_id) => o[1][k] = nets[k]
           /\ step = "remove" => o[1] = before
           /\ step \in {"add_list", "remove_list"} => o[1] = nets
<1>0. /\ CmdOf(step) \in OperCmds /\ nets \in [NetIds -> Net]
      /\ before \in [NetIds -> Net] /\ step # "psk"
  BY CmdOfFacts DEF TableOK, Steps
<1>1. ASSUME step = "add", o[2] # FailTxt
      PROVE  /\ before[o[2].n] = NoNet /\ o[1][o[2].n].by = "lib"
             /\ \A k \in NetIds : k # o[2].n => o[1][k] = before[k]
  <2>1. PICK f \in FreeIds : /\ o[1] = [nets EXCEPT ![f] = NewNet]
                             /\ o[2] = Txt("id", f, {})
    BY <1>0, <1>1, HandleFacts, CmdOfParts
  <2>2. nets = before
    BY <1>1 DEF Residue
  <2>3. f \in NetIds /\ f \notin Used /\ o[2].n = f
    BY <2>1, NetAssumption DEF FreeIds, Used, Txt
  <2>4. nets[f] = NoNet
    BY <2>3 DEF Used, TableOK, Blank
  <2> QED BY <1>0, <2>1, <2>2, <2>3, <2>4 DEF NewNet
<1>2. ASSUME step \in EditSteps
      PROVE  /\ step # "remove" => o[1][Atoi(network_id)].by = "lib"
             /\ step = "remove" => o[1][Atoi(network_id)] = NoNet
             /\ \A k \in NetIds : k # Atoi(network_id) => o[1][k] = nets[k]
  <2> DEFINE c == CmdOf(step)
             n == Atoi(network_id)
             w == nets[n]
  <2>1. network_id.k = "id" /\ n \in NetIds
    BY <1>2 DEF OwnNetwork, OwnId, Atoi
  <2>2. w \in Net /\ w.by = "lib"
    BY <1>0, <1>2, <2>1 DEF Residue, Added, EditSteps
  <2>3. /\ c.id = n /\ c.op \notin {"ADD_NETWORK", "LIST_NETWORKS"}
        /\ c.var # "id"
    BY <1>0, <1>2, <2>1, CmdOfParts
  <2>4. Applies(c)
    BY <2>1, <2>2, <2>3 DEF Applies, Used
  <2>5. \/ o[1] = [nets EXCEPT ![n] = Edited(c, w)]
        \/ o[1] = nets /\ c.op = "SET_NETWORK"
    BY <1>0, <2>3, <2>4, HandleFacts
  <2>6. CASE step = "remove"
    <3>1. c.op = "REMOVE_NETWORK" /\ Edited(c, w) = NoNet
      BY <2>6 DEF CmdOf, Cmd, Edited
    <3> QED BY <1>0, <2>1, <2>5, <2>6, <3>1
  <2>7. CASE step # "remove"
    <3>1. c.op \in {"SET_NETWORK", "ENABLE_NETWORK", "DISABLE_NETWORK"}
      BY <1>0, <1>2, <2>7 DEF CmdOf, Cmd, EditSteps
    <3>2. \A v : SetVar(w, v).by = "lib"
      BY <2>2 DEF SetVar, Net
    <3>3. Edited(c, w).by = "lib"
      BY <2>2, <3>1, <3>2 DEF Edited, Net
    <3> QED BY <1>0, <2>1, <2>2, <2>5, <2>7, <3>3
  <2> QED BY <2>6, <2>7
<1>3. ASSUME step = "remove" PROVE o[1] = before
  <2>1. Added(Atoi(network_id)) /\ Atoi(network_id) \in NetIds
    BY <1>3 DEF Residue, OwnNetwork, OwnId, Atoi, EditSteps
  <2>2. o[1] \in [NetIds -> Net]
    BY <1>0, HandleFacts
  <2>3. \A k \in NetIds : o[1][k] = before[k]
    BY <1>2, <1>3, <2>1 DEF Added, EditSteps
  <2> QED BY <1>0, <2>2, <2>3
<1>4. step \in {"add_list", "remove_list"} => o[1] = nets
  BY <1>0, HandleFacts, CmdOfParts
<1> QED
  BY <1>1, <1>2, <1>3, <1>4 DEF EditSteps

LEMMA StepResidue ==
    ASSUME IInv, AInv, OInv, PInv, [OperNext]_allvars, mishaps' = {}
    PROVE  Residue'
<1>0. /\ mishaps = {} /\ TableOK /\ Control
      /\ network_id \in Txts \cup {NoTxt}
      /\ step \in Steps \cup {"idle", "crashed", "psk"}
  BY StepGhostOK, TypeParts DEF OInv, LibraryOK
<1>1. /\ Alive /\ Quiet /\ OwnNetwork /\ Residue /\ Answered
      /\ (asked => step # "psk")
  BY <1>0 DEF Alive, Safe, Quiet, PInv, Control
<1>a. ASSUME UNCHANGED <<nets, before>>, NEW i PROVE Added(i)' <=> Added(i)
  BY <1>a DEF Added
<1> USE DEF lvars, ovars, appvars, vars
<1>2. CASE OperTimeout \/ OperRecvError \/ IssuePsk
  BY <1>2 DEF OperTimeout, OperRecvError, IssuePsk, Fault
<1>3. CASE Passive
  <2>1. /\ UNCHANGED <<step, saved, network_id, ret, nets, before>>
        /\ \A t : Got(t)' <=> Got(t)
    BY <1>1, <1>3, PassiveFacts, NoneUnsent
  <2>2. \A i : Added(i)' <=> Added(i)
    BY <1>a, <2>1
  <2> QED BY <1>1, <2>1, <2>2 DEF Residue, Atoi, Added
<1>4. CASE OperReply
  <2>1. /\ asked /\ UNCHANGED <<step, saved, network_id, ret, before>>
        /\ \A t : ~Got(t)
    BY <1>1, <1>4, ReplyFacts, HeadIsCurrent DEF OperReply, Reply
  <2>2. /\ cur.cmd = CmdOf(step) /\ step \in Steps /\ cur.cmd \in OperCmds
    BY <1>1, <1>4, <2>1, ReplyFacts
  <2>3. PICK o \in Handle(cur.cmd) :
           /\ nets' = o[1]
           /\ \A t : Got(t)' <=> t = o[2]
           /\ AddFailed(cur.cmd, o) => "addfail" \in mishaps'
    BY <1>1, <1>4, ReplyFacts
  <2>4. o[2] \in Txts /\ nets' \in [NetIds -> Net]
    BY <1>0, <2>2, <2>3, HandleFacts
  <2>5. step = "add" => o[2] # FailTxt
    BY <2>2, <2>3, CmdOfParts DEF AddFailed
  <2>6. /\ step = "add" =>
              /\ before[o[2].n] = NoNet /\ nets'[o[2].n].by = "lib"
              /\ \A k \in NetIds : k # o[2].n => nets'[k] = before[k]
        /\ step \in EditSteps \ {"remove"} =>
              /\ nets'[Atoi(network_id)].by = "lib"
              /\ \A k \in NetIds :
                    k # Atoi(network_id) => nets'[k] = nets[k]
        /\ step = "remove" => nets' = before
        /\ step \in {"add_list", "remove_list"} => nets' = nets
    BY <1>0, <1>1, <2>1, <2>2, <2>3, <2>5, HandleResidue
  <2>7. CASE step = "add"
    BY <2>1, <2>3, <2>4, <2>6, <2>7 DEF Residue, Added, EditSteps
  <2>8. CASE step \in {"add_list", "remove_list"}
    BY <1>1, <2>1, <2>6, <2>8 DEF Residue, Added, EditSteps
  <2>9. CASE step \in EditSteps \ {"remove"}
    BY <1>1, <2>1, <2>6, <2>9 DEF Residue, Added, EditSteps, Atoi
  <2>10. CASE step = "remove"
    BY <2>1, <2>3, <2>4, <2>6, <2>10 DEF Residue, EditSteps
  <2> QED BY <2>2, <2>7, <2>8, <2>9, <2>10 DEF Steps, EditSteps
<1>5. CASE PasswordRefused
  <2>1. /\ step \in {"wep_key", "psk"} /\ step' = "disable"
        /\ UNCHANGED <<nets, before, network_id>>
    BY <1>5 DEF PasswordRefused
  <2> QED BY <1>1, <2>1 DEF Residue, EditSteps, Added, Atoi
<1>6. CASE Crash
  BY <1>6 DEF Crash, Residue, EditSteps
<1>7. CASE DeinitWpaCli /\ step' = "idle"
  <2>1. step = "idle" /\ UNCHANGED <<nets, ret, before>>
    BY <1>7 DEF DeinitWpaCli
  <2> QED BY <1>1, <1>7, <2>1 DEF Residue, EditSteps
<1>8. ASSUME NEW f \in Flags, ConnectWifi(f) PROVE Residue'
  <2>1. /\ step' \in {"add", "idle"} /\ ~asked' /\ before' = nets
        /\ nets' = nets
    BY <1>0, <1>8 DEF ConnectWifi, Control
  <2> QED BY <2>1, NoneGot DEF Residue, EditSteps
<1>9. CASE ResumeAdd
  <2>1. /\ step = "add" /\ asked /\ pc = "idle" /\ saved' = last
        /\ step' = "add_list" /\ UNCHANGED <<nets, before>>
    BY <1>9 DEF ResumeAdd, Returned
  <2>2. last.ret = "ok"
    BY <1>1, <2>1 DEF Answered
  <2>3. Added(last.txt.n)
    BY <1>1, <2>1, <2>2, ReturnedText DEF Residue
  <2> QED BY <2>1, <2>2, <2>3 DEF Residue, EditSteps, Added
<1>10. CASE ResumeAddList
  <2>1. saved.ret = "ok" /\ Added(saved.txt.n)
    BY <1>1, <1>10 DEF ResumeAddList, Returned, Residue
  <2>2. /\ network_id' = saved.txt /\ step' = "ssid"
        /\ UNCHANGED <<nets, before>>
    BY <1>10, <2>1 DEF ResumeAddList, IdTaken
  <2> QED BY <2>1, <2>2 DEF Residue, EditSteps, Added, Atoi
<1>11. CASE ResumeSet \/ ResumeEnable
  <2>1. /\ step \in EditSteps \ {"remove"}
        /\ UNCHANGED <<nets, before, network_id>>
        /\ \/ step' \in EditSteps \ {"remove"}
           \/ step' = "idle" /\ ret' = "ok"
    <3>1. CASE ResumeSet
      <4>1. \A s \in {"ssid", "key_mgmt", "wep_key", "psk"} :
               AfterOk(s) \in EditSteps \ {"remove"}
        BY DEF AfterOk, EditSteps
      <4> QED BY <3>1, <4>1 DEF ResumeSet, Returned, EditSteps
    <3>2. CASE ResumeEnable
      BY <3>2 DEF ResumeEnable, Returned, EditSteps
    <3> QED BY <1>11, <3>1, <3>2
  <2>2. Added(Atoi(network_id))
    BY <1>1, <2>1 DEF Residue
  <2>3. CASE step' \in EditSteps \ {"remove"}
    BY <2>1, <2>2, <2>3 DEF Residue, EditSteps, Added, Atoi
  <2>4. CASE step' = "idle" /\ ret' = "ok"
    BY <2>4 DEF Residue, EditSteps
  <2> QED BY <2>1, <2>3, <2>4
<1>12. CASE ResumeCleanup
  <2>1. /\ asked /\ pc = "idle" /\ ~asked'
        /\ UNCHANGED <<nets, before, network_id>>
        /\ \/ step = "disable" /\ step' = "remove"
           \/ step = "remove" /\ step' = "remove_list"
    BY <1>12 DEF ResumeCleanup, Returned, AfterDisable
  <2>2. CASE step = "disable"
    <3>1. Added(Atoi(network_id)) /\ step' = "remove"
      BY <1>1, <2>1, <2>2 DEF Residue, EditSteps
    <3> QED BY <2>1, <3>1, NoneGot DEF Residue, EditSteps, Added, Atoi
  <2>3. CASE step = "remove"
    <3>1. \E t \in Txts : Got(t)
      BY <1>1, <2>1, ReturnedText DEF Answered
    <3>2. nets = before /\ step' = "remove_list"
      BY <1>1, <2>1, <2>3, <3>1 DEF Residue
    <3> QED BY <2>1, <3>2 DEF Residue, EditSteps
  <2> QED BY <2>1, <2>2, <2>3
<1>13. CASE ResumeRemoveList
  <2>1. step = "remove_list" /\ step' = "idle" /\ UNCHANGED <<nets, before>>
    BY <1>13 DEF ResumeRemoveList, Returned
  <2> QED BY <1>1, <2>1 DEF Residue, EditSteps
<1> QED
  BY <1>2, <1>3, <1>4, <1>5, <1>6, <1>7, <1>8, <1>9, <1>10, <1>11, <1>12,
     <1>13, StepCases

-----------------------------------------------------------------------------
(* The theorems *)

LEMMA InitPInv == OperInit => PInv
<1> SUFFICES ASSUME OperInit PROVE PInv
  OBVIOUS
<1>1. OwnNetwork
  BY ConfiguredFacts DEF OperInit, OwnNetwork, EditSteps
<1>2. Progress
  BY DEF OperInit, Progress
<1>3. Answered /\ Residue
  BY DEF OperInit, Answered, Residue, EditSteps
<1> QED
  BY <1>1, <1>2, <1>3 DEF PInv

\* The invariant of a call of connect_wifi.
THEOREM CallInvariant == OperSpec => []PInv
<1>1. IInv /\ AInv /\ OInv /\ PInv /\ [OperNext]_allvars => PInv'
  BY StepOwnNetwork, StepProgress, StepAnswered, StepResidue DEF PInv
<1> QED
  BY <1>1, InitPInv, OperInvariant, PTL DEF OperSpec

\* The networks of the configuration file stay as they are, for any number of
\* them, of calls, sessions, send errors and daemon restarts, as long as no
\* request was given up on, ADD_NETWORK did not fail and no WPA password was
\* set.
THEOREM UserNetworksKept == OperSpec => []OthersUntouched
<1>1. PInv => OthersUntouched
  BY DEF PInv, Safe, OwnNetwork, OthersUntouched
<1> QED
  BY <1>1, CallInvariant, PTL

\* A call that returns -1 with nothing gone wrong but a refused value leaves
\* the daemon's networks as it found them.
THEOREM FailureLeavesNothing == OperSpec => []NoResidue
<1>1. PInv => NoResidue
  BY DEF PInv, Residue, NoResidue
<1> QED
  BY <1>1, CallInvariant, PTL

\* A call that returns 0 has added, named and enabled one network and set a
\* WEP key on it, which need not be the one the caller meant, as long as no
\* request was given up on, ADD_NETWORK did not fail, the daemon stayed and no
\* WPA password was set; send errors do not matter.
THEOREM SuccessConfigures == OperSpec => []ConfiguredOnSuccess
<1>1. Final = [by |-> "lib", ssid |-> TRUE, key |-> "wep", on |-> TRUE]
  <2>1. NewNet \in Net /\ Named \in Net
    BY DEF NewNet, Named, Net
  <2>2. Keyed \in Net /\ Final \in Net
    BY <2>1 DEF Keyed, Final, Net
  <2>3. Final.by = "lib" /\ Final.ssid /\ Final.key = "wep" /\ Final.on
    BY DEF Final, Keyed, Named, NewNet
  <2> QED BY <2>2, <2>3 DEF Net
<1>2. ASSUME PInv PROVE ConfiguredOnSuccess
  <2> SUFFICES ASSUME step = "idle", ret = "ok",
                      mishaps \cap {"gaveup", "addfail", "psk", "daemon"} = {}
               PROVE  nets[Atoi(network_id)] = Final
    BY <1>1 DEF ConfiguredOnSuccess
  <2>1. Alive
    BY DEF Alive, Safe
  <2> QED BY <1>2, <2>1 DEF PInv, Progress
<1> QED
  BY <1>2, CallInvariant, PTL
=============================================================================
