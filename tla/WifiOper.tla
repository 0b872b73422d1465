------------------------------ MODULE WifiOper -------------------------------
(***************************************************************************)
(* The library end to end: the session of libwpa_cli_wrapper.c              *)
(* (init_wpa_cli, wpa_cli_execute, deinit_wpa_cli) and connect_wifi of      *)
(* wpa_cli_oper.c, over the connection of WpaCtrl and a daemon that keeps a *)
(* table of networks.  connect_wifi is a sequence of requests; each waits   *)
(* for its reply while the daemon runs, answers late, or goes away.         *)
(*                                                                         *)
(* The library never attaches as a monitor, so no event reaches its socket, *)
(* and it has at most one reply under way per request it gave up on, so its *)
(* buffer does not fill: the actions of WpaCtrl for these are left out.     *)
(***************************************************************************)
EXTENDS WpaCtrl

CONSTANTS
    NetIds,     \* bound: the network ids, 0 .. n
    UserNets,   \* the ids of the networks in the daemon's configuration file
    Flags,      \* the values of WifiConfig.flag: 0 WEP, 1 WPA, 2 no password
    MaxCalls,   \* bound: calls of connect_wifi
    MaxFaults   \* bound: timeouts, errors and daemon failures that are not
                \*        forced by earlier ones

ASSUME NetAssumption ==
    /\ UserNets \subseteq NetIds /\ NetIds \subseteq Nat /\ 0 \in NetIds
    /\ Flags \subseteq Nat
    /\ MaxCalls \in Nat /\ MaxFaults \in Nat

VARIABLES
    \* libwpa_cli_wrapper.c
    inited,     \* g_wpa__cli_initialized
    ifname,     \* ctrl_ifname: "null", "live", or "freed" (dangling)
    networks,   \* the cached list of network ids
    \* connect_wifi
    step,       \* the request it is at; "idle" outside, "crashed" for good
    asked,      \* that request is being made
    flag,       \* config->flag
    saved,      \* how ADD_NETWORK ended, while update_networks runs
    network_id, \* the local array of that name
    ret,        \* what the last call returned: "none", "ok" (0), "fail" (-1)
    \* the daemon
    nets,       \* the network table
    \* ghosts
    before,     \* the table when connect_wifi was called
    ncalls, nfaults,
    mishaps     \* what has gone wrong so far

lvars == <<inited, ifname, networks>>
ovars == <<step, asked, flag, saved, network_id, ret, before, ncalls>>
allvars == <<vars, lvars, ovars, nets, nfaults, mishaps>>

-----------------------------------------------------------------------------
(* Commands and reply texts, abstracted to what their readers tell apart. *)

Cmd(op, i, var) == [op |-> op, id |-> i, var |-> var]

OperCmds ==
    {Cmd(op, 0, "-") : op \in {"ADD_NETWORK", "LIST_NETWORKS"}}
    \cup {Cmd("SET_NETWORK", i, v) : i \in NetIds,
                              v \in {"ssid", "key_mgmt", "wep_key0", "psk", "id"}}
    \cup {Cmd(op, i, "-") : i \in NetIds,
             op \in {"ENABLE_NETWORK", "DISABLE_NETWORK", "REMOVE_NETWORK"}}

Txt(k, n, s) == [k |-> k, n |-> n, s |-> s]
OkTxt   == Txt("ok", 0, {})
FailTxt == Txt("fail", 0, {})
NoTxt   == Txt("empty", 0, {})
OperTxts ==
    {OkTxt, FailTxt} \cup {Txt("id", n, {}) : n \in NetIds}
    \cup {Txt("list", 0, s) : s \in SUBSET NetIds}

\* The commands and texts of the connection are those.
ASSUME OperAssumption ==
    Cmds = OperCmds /\ Txts = OperTxts /\ OK = OkTxt /\ FAIL = FailTxt

\* atoi() of a reply used as a network id: "OK", "FAIL" and the header of a
\* network list all read as 0.
Atoi(t) == t.n

-----------------------------------------------------------------------------
(* The daemon's network table. *)

Net == [by : {"none", "user", "lib"}, ssid : BOOLEAN,
        key : {"unset", "wep", "psk"}, on : BOOLEAN]
NoNet   == [by |-> "none", ssid |-> FALSE, key |-> "unset", on |-> FALSE]
UserNet == [by |-> "user", ssid |-> FALSE, key |-> "unset", on |-> TRUE]
NewNet  == [by |-> "lib",  ssid |-> FALSE, key |-> "unset", on |-> FALSE]

Configured == [i \in NetIds |-> IF i \in UserNets THEN UserNet ELSE NoNet]
Used == {i \in NetIds : nets[i].by # "none"}

\* wpa_config_add_network: one more than the largest id in use.
FreeIds == {f \in NetIds : /\ \A i \in Used : i < f
                           /\ f = 0 \/ f - 1 \in Used}

\* wpa_config_set on one variable.  A key is recorded by its kind only: its
\* text is not the caller's (CmdOf, IssuePsk).
SetVar(n, v) ==
    CASE v = "ssid"     -> [n EXCEPT !.ssid = TRUE]
      [] v = "wep_key0" -> [n EXCEPT !.key = "wep"]
      [] v = "psk"      -> [n EXCEPT !.key = "psk"]
      [] OTHER          -> n

\* A network after the command c on it.
Edited(c, n) ==
    CASE c.op = "SET_NETWORK"     -> SetVar(n, c.var)
      [] c.op = "ENABLE_NETWORK"  -> [n EXCEPT !.on = TRUE]
      [] c.op = "DISABLE_NETWORK" -> [n EXCEPT !.on = FALSE]
      [] c.op = "REMOVE_NETWORK"  -> NoNet

\* The command names a network there is, and no variable that there is not.
Applies(c) == c.id \in Used /\ c.var # "id"

\* wpa_supplicant_ctrl_iface_process: the table and the reply text after a
\* command.  A value the daemon does not accept, and memory running out
\* while a network is added, give FAIL.
Handle(c) ==
    IF c.op = "ADD_NETWORK" THEN
       {<<[nets EXCEPT ![f] = NewNet], Txt("id", f, {})>> : f \in FreeIds}
           \cup {<<nets, FailTxt>>}
    ELSE IF c.op = "LIST_NETWORKS" THEN {<<nets, Txt("list", 0, Used)>>}
    ELSE {o \in {<<[nets EXCEPT ![c.id] = Edited(c, @)], OkTxt>>,
                 <<nets, FailTxt>>} :
            IF o[2] = OkTxt THEN Applies(c)
            ELSE c.op = "SET_NETWORK" \/ ~Applies(c)}

AddFailed(c, o) == c.op = "ADD_NETWORK" /\ o[2] = FailTxt

OperReply ==
    /\ Reply
    /\ \E o \in Handle(Head(rxD).cmd) :
          /\ rxC'[Len(rxC')].txt = o[2]
          /\ nets' = o[1]
          /\ mishaps' = IF AddFailed(Head(rxD).cmd, o)
                        THEN mishaps \cup {"addfail"} ELSE mishaps
    /\ UNCHANGED <<lvars, ovars, nfaults>>

\* The command of a client that has gone is carried out all the same.
OperReplyUnsent ==
    /\ ReplyUnsent
    /\ \E o \in Handle(Head(rxD).cmd) : nets' = o[1]
    /\ UNCHANGED <<lvars, ovars, nfaults, mishaps>>

-----------------------------------------------------------------------------
(* Failures: at most MaxFaults of them, beyond those that follow from the    *)
(* earlier ones because no answer can come any more.                         *)

Fault(m, forced) ==
    /\ forced \/ nfaults < MaxFaults
    /\ nfaults' = IF nfaults < MaxFaults THEN nfaults + 1 ELSE nfaults
    /\ mishaps' = mishaps \cup {m}
    /\ UNCHANGED <<lvars, ovars, nets>>

OperTimeout   == Timeout /\ Fault("gaveup", UnderWay = {})
OperRecvError == RecvError /\ Fault("gaveup", FALSE)
OperSendFail  == SendFail
                 /\ Fault("sendfail", ~Connected \/ Len(rxD) >= DQLen)
OperReopen    == Reopen /\ Fault("daemon", FALSE)
OperStop      == Stop /\ Fault("daemon", FALSE)

\* A new daemon reads its configuration file.
OperStart ==
    /\ Start
    /\ nets' = Configured
    /\ UNCHANGED <<lvars, ovars, nfaults, mishaps>>

OperSendOk    == SendOk /\ UNCHANGED <<lvars, ovars, nets, nfaults, mishaps>>
OperRecvReply == RecvReply /\ UNCHANGED <<lvars, ovars, nets, nfaults, mishaps>>

-----------------------------------------------------------------------------
(* The session: init_wpa_cli and deinit_wpa_cli. *)

\* wpa_cli_get_default_ifname: the first socket in the control directory, if
\* there is one; a crashed daemon leaves its socket file behind.
DefaultIfnames == IF dsock # 0 THEN {"live"} ELSE {"null", "live"}

\* ctrl_ifname when the connection is opened.  It is looked up only when it
\* is NULL; after deinit_wpa_cli it points to freed memory.
IfnamesAtOpen == IF ifname = "null" THEN DefaultIfnames ELSE {ifname}

InitWpaCli ==
    /\ step = "idle" /\ ~inited
    /\ ifname' \in IfnamesAtOpen
    /\ ifname' # "null"
    /\ Open
    /\ inited' = (dsock # 0)
    /\ UNCHANGED <<networks, ovars, nets, nfaults, mishaps>>

\* No name, and wpa_ctrl_open is not called, or a freed one whose memory was
\* reused: nothing to connect to.
InitWpaCliFails ==
    /\ step = "idle" /\ ~inited
    /\ ifname' \in IfnamesAtOpen
    /\ \/ ifname' = "null" /\ addr' = addr
       \/ ifname' = "freed" /\ addr < MaxOpen /\ addr' = NextAddr
    /\ UNCHANGED <<dvars, conn, rxC, pc, cur, last, gvars, nevents,
                   inited, networks, ovars, nets, nfaults, mishaps>>

\* The name is freed but the pointer is kept; freeing it again aborts or
\* goes unnoticed.
DeinitWpaCli ==
    /\ step = "idle" /\ inited
    /\ Close
    /\ inited' = FALSE
    /\ ifname' = "freed"
    /\ step' \in (IF ifname = "freed" THEN {"idle", "crashed"} ELSE {"idle"})
    /\ UNCHANGED <<networks, asked, flag, saved, network_id, ret, before,
                   ncalls, nets, nfaults, mishaps>>

-----------------------------------------------------------------------------
(* connect_wifi *)

appvars == <<lvars, flag, saved, network_id, ret, before, ncalls,
             nets, nfaults, mishaps>>

ConnectWifi(f) ==
    /\ step = "idle" /\ ncalls < MaxCalls
    /\ ncalls' = ncalls + 1
    /\ flag' = f
    /\ network_id' = NoTxt
    /\ before' = nets
    /\ IF inited THEN step' = "add" /\ ret' = "none"
                 ELSE step' = "idle" /\ ret' = "fail"
    /\ UNCHANGED <<vars, lvars, asked, saved, nets, nfaults, mishaps>>

\* A network list taken for the id shifts the words of the command line: the
\* variable set_network names is then "id", which no network has.
VarOf(v) == IF network_id.k = "list" THEN "id" ELSE v

\* The command line of each step.  In the one of "wep_key" the value is not
\* the caller's password: config->password is a single char that is printed
\* with %s, so the value is the text at that address, if it can be read
\* (PasswordCrash) and is not empty (PasswordRefused).  The daemon accepts it
\* as a key or answers FAIL.
CmdOf(s) ==
    CASE s = "add" -> Cmd("ADD_NETWORK", 0, "-")
      [] s \in {"add_list", "remove_list"} -> Cmd("LIST_NETWORKS", 0, "-")
      [] s = "ssid"     -> Cmd("SET_NETWORK", Atoi(network_id), VarOf("ssid"))
      [] s = "key_mgmt" -> Cmd("SET_NETWORK", Atoi(network_id), VarOf("key_mgmt"))
      [] s = "wep_key"  -> Cmd("SET_NETWORK", Atoi(network_id), VarOf("wep_key0"))
      [] s = "enable"   -> Cmd("ENABLE_NETWORK", Atoi(network_id), "-")
      [] s = "disable"  -> Cmd("DISABLE_NETWORK", Atoi(network_id), "-")
      [] s = "remove"   -> Cmd("REMOVE_NETWORK", Atoi(network_id), "-")

Issue ==
    /\ step \notin {"idle", "crashed", "psk"} /\ ~asked
    /\ Call(CmdOf(step))
    /\ asked' = TRUE
    /\ UNCHANGED <<appvars, step>>

\* set_password for WPA formats "set_network %s psk %s" with the password
\* only: it stands where the network id belongs, and what is printed as the
\* value is whatever the second %s finds.
IssuePsk ==
    /\ step = "psk" /\ ~asked
    /\ \E i \in NetIds : Call(Cmd("SET_NETWORK", i, "psk"))
    /\ asked' = TRUE
    /\ mishaps' = mishaps \cup {"psk"}
    /\ UNCHANGED <<lvars, flag, saved, network_id, ret, before, ncalls,
                   nets, nfaults, step>>

\* The wrapper wants a network id, a variable and a value, and refuses the
\* command line when the text printed for one of them is empty.
PasswordRefused ==
    /\ step \in {"wep_key", "psk"} /\ ~asked
    /\ step' = "disable"
    /\ UNCHANGED <<vars, appvars, asked>>

\* The char taken for an address, and the argument that the WPA format reads
\* and that is not there: either may fault.
PasswordCrash ==
    /\ step \in {"wep_key", "psk"} /\ ~asked
    /\ Close
    /\ step' = "crashed"
    /\ UNCHANGED <<appvars, asked>>

\* wpa_cli_comm_exec succeeded.
CommOk == last.ret = "ok" /\ last.txt = OkTxt

\* update_networks: the list is flushed, and refilled from the lines after
\* the first when the request succeeded.
NetworksAfter == IF last.ret = "ok" THEN last.txt.s ELSE {}

\* A request has returned.
Returned(s) == step = s /\ asked /\ pc = "idle" /\ asked' = FALSE

ResumeAdd ==
    /\ Returned("add")
    /\ saved' = last
    /\ step' = "add_list"
    /\ UNCHANGED <<vars, lvars, flag, network_id, ret, before, ncalls, nets,
                   nfaults, mishaps>>

\* mutant: update_networks reads its list into the caller's buffer
IdFromList == last.txt

\* add_network takes any reply text as the id.  A text longer than the 15
\* characters network_id has room for overruns it.
IdTaken == saved.txt
TooLong == saved.txt.k = "list"

ResumeAddList ==
    /\ Returned("add_list")
    /\ networks' = NetworksAfter
    /\ IF saved.ret = "ok"
       THEN /\ network_id' = IdTaken
            /\ step' = "ssid"
            /\ UNCHANGED ret
       ELSE /\ ret' = "fail"
            /\ step' = "idle"
            /\ UNCHANGED network_id
    /\ UNCHANGED <<vars, inited, ifname, flag, saved, before, ncalls, nets,
                   nfaults, mishaps>>

OverrunCrash ==
    /\ Returned("add_list")
    /\ saved.ret = "ok" /\ TooLong
    /\ Close
    /\ step' = "crashed"
    /\ UNCHANGED appvars

\* mutant: set_password returns nothing for a flag it does not know
AfterOkNoDefault(s) ==
    CASE s = "ssid"     -> CASE flag = 0 -> "key_mgmt"
                             [] flag = 1 -> "psk"
                             [] OTHER    -> "undefined"
      [] s = "key_mgmt" -> "wep_key"
      [] OTHER          -> "enable"

\* mutant: set_password sets key_mgmt and no key
AfterOkNoKey(s) ==
    CASE s = "ssid"     -> CASE flag = 0 -> "key_mgmt"
                             [] flag = 1 -> "psk"
                             [] OTHER    -> "disable"
      [] OTHER          -> "enable"

\* Where connect_wifi goes from a step that must be answered OK.
AfterOk(s) ==
    CASE s = "ssid"     -> CASE flag = 0 -> "key_mgmt"
                             [] flag = 1 -> "psk"
                             [] OTHER    -> "disable"
      [] s = "key_mgmt" -> "wep_key"
      [] s = "wep_key"  -> "enable"
      [] s = "psk"      -> "enable"

ResumeSet ==
    /\ \E s \in {"ssid", "key_mgmt", "wep_key", "psk"} :
          /\ Returned(s)
          /\ step' = IF CommOk THEN AfterOk(s) ELSE "disable"
    /\ UNCHANGED <<vars, appvars>>

ResumeEnable ==
    /\ Returned("enable")
    /\ IF CommOk THEN step' = "idle" /\ ret' = "ok"
                 ELSE step' = "disable" /\ UNCHANGED ret
    /\ UNCHANGED <<vars, lvars, flag, saved, network_id, before, ncalls,
                   nets, nfaults, mishaps>>

\* mutant: the network is disabled but not removed
SkipRemove == "remove_list"

\* The network is disabled and removed whatever the daemon answers.
AfterDisable == "remove"

ResumeCleanup ==
    /\ \/ Returned("disable") /\ step' = AfterDisable
       \/ Returned("remove")  /\ step' = "remove_list"
    /\ UNCHANGED <<vars, appvars>>

ResumeRemoveList ==
    /\ Returned("remove_list")
    /\ networks' = NetworksAfter
    /\ step' = "idle"
    /\ ret' = "fail"
    /\ UNCHANGED <<vars, inited, ifname, flag, saved, network_id, before,
                   ncalls, nets, nfaults, mishaps>>

-----------------------------------------------------------------------------
OperInit ==
    /\ Init
    /\ inited = FALSE /\ ifname = "null" /\ networks = {}
    /\ step = "idle" /\ asked = FALSE /\ flag = 0 /\ saved = NoResult
    /\ network_id = NoTxt /\ ret = "none"
    /\ nets = Configured /\ before = Configured
    /\ ncalls = 0 /\ nfaults = 0 /\ mishaps = {}

Library ==
    \/ OperSendOk \/ OperRecvReply
    \/ OperTimeout \/ OperRecvError \/ OperSendFail
    \/ Issue \/ IssuePsk \/ PasswordRefused \/ PasswordCrash
    \/ ResumeAdd \/ ResumeAddList \/ OverrunCrash
    \/ ResumeSet \/ ResumeEnable \/ ResumeCleanup \/ ResumeRemoveList

User == InitWpaCli \/ InitWpaCliFails \/ DeinitWpaCli
        \/ \E f \in Flags : ConnectWifi(f)

Wpas == OperReply \/ OperReplyUnsent \/ OperReopen \/ OperStop \/ OperStart

OperNext == Library \/ User \/ Wpas

\* The caller's thread runs on inside connect_wifi; select() keeps its time
\* limit.  Nothing is assumed of the daemon.
OperFairness ==
    /\ WF_allvars(OperSendOk \/ OperSendFail)
    /\ WF_allvars(OperRecvReply \/ OperTimeout)
    /\ WF_allvars(Issue \/ IssuePsk \/ PasswordRefused)
    /\ WF_allvars(ResumeAdd \/ ResumeAddList \/ ResumeSet \/ ResumeEnable
                  \/ ResumeCleanup \/ ResumeRemoveList)

OperSpec == OperInit /\ [][OperNext]_allvars /\ OperFairness

-----------------------------------------------------------------------------
(* Properties *)

OperTypeOK ==
    /\ TypeOK
    /\ inited \in BOOLEAN /\ ifname \in {"null", "live", "freed"}
    /\ networks \subseteq NetIds
    /\ step \in {"idle", "crashed", "add", "add_list", "ssid", "key_mgmt",
                 "wep_key", "psk", "enable", "disable", "remove",
                 "remove_list"}
    /\ asked \in BOOLEAN /\ flag \in Nat /\ saved \in Result
    /\ network_id \in Txts \cup {NoTxt} /\ ret \in {"none", "ok", "fail"}
    /\ nets \in [NetIds -> Net] /\ before \in [NetIds -> Net]
    /\ ncalls \in Nat /\ nfaults \in Nat
    /\ mishaps \subseteq {"gaveup", "addfail", "psk", "sendfail", "daemon"}

\* The networks of the configuration file are never modified or removed by
\* connect_wifi, through send errors, daemon restarts and reconnections,
\* unless a request was given up on, ADD_NETWORK failed, or a WPA password
\* was set.
OthersUntouched ==
    mishaps \cap {"gaveup", "addfail", "psk"} = {} =>
        \A i \in UserNets : nets[i] = UserNet

\* When connect_wifi returns -1 and nothing went wrong but a refused value,
\* the daemon's networks are what they were before the call.
NoResidue ==
    step = "idle" /\ ret = "fail" /\ mishaps = {} => nets = before

\* When connect_wifi returns 0, the network it added exists, has the SSID and
\* a WEP key, and is enabled, unless a request was given up on, ADD_NETWORK
\* failed, the daemon went away, or the password was a WPA one.  That the key
\* is the caller's cannot be had: the password is a char printed with %s.
ConfiguredOnSuccess ==
    step = "idle" /\ ret = "ok"
        /\ mishaps \cap {"gaveup", "addfail", "psk", "daemon"} = {} =>
            nets[Atoi(network_id)] =
                [by |-> "lib", ssid |-> TRUE, key |-> "wep", on |-> TRUE]

\* connect_wifi returns, or the process dies, whatever the daemon does.
ConnectReturns == step # "idle" ~> step \in {"idle", "crashed"}

\* wpa_cli_oper.h: connect_wifi returns 0 on success, a negative value on
\* failure.  With every request answered, it does not return 0 when the
\* daemon failed to add the network.
FailureIsReported ==
    step = "idle" /\ ret = "ok" /\ mishaps \subseteq {"addfail"}
        => mishaps = {}
=============================================================================
