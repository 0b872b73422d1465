------------------------------ MODULE WifiScan -------------------------------
(***************************************************************************)
(* get_wifi_scan_results of wpa_cli_oper.c over the connection of WpaCtrl:  *)
(* the request SCAN, which must be answered OK, then SCAN_RESULTS, whose    *)
(* answer is split into lines and fields.  The daemon scans, loses and finds *)
(* BSSs, joins networks and has its interface disabled in between.          *)
(*                                                                         *)
(* The daemon's BSS table is the list bss_id; what keeps it in order is the *)
(* subject of BssTable.  The interface has the radio to itself: an interface *)
(* that shares it would hand on its scan results.  Scheduled scans, which   *)
(* SCAN cancels, and SCAN's parameters, which the library does not use, are *)
(* left out.                                                                *)
(***************************************************************************)
EXTENDS WpaCtrl, SequencesExt

CONSTANTS
    BSSs,       \* the BSSs there are
    Nameless,   \* those whose line has an empty field: hidden SSID, no flags
    Unlisted,   \* P2P listen discovery: no line at all
    MaxLines,   \* the lines that fit into a reply
    MaxCalls,   \* bound: calls of get_wifi_scan_results
    MaxChanges, \* bound: changes of the interface's state but for enabling
                \*        it, scans queued and results of scans of others
    MaxFaults   \* bound: errors and daemon failures; requests given up on
                \*        are bounded by MaxReq

ASSUME BssAssumption ==
    /\ IsFiniteSet(BSSs) /\ Nameless \subseteq BSSs /\ Unlisted \subseteq BSSs
    /\ MaxLines \in Nat /\ MaxCalls \in Nat /\ MaxChanges \in Nat
    /\ MaxFaults \in Nat

VARIABLES
    \* get_wifi_scan_results
    at,         \* the request it is at, "idle" outside
    asked,      \* that request is being made
    ret,        \* what the last call of this session returned: "none",
                \* "null", "list"
    items,      \* the list
    ncalls,
    \* the daemon
    wstate,     \* wpa_state: "disabled", "joining" (authenticating to group
                \* handshake), "rest" (anything else)
    due,        \* the timeout wpa_supplicant_scan is registered
    pending,    \* the number of scan works that wait in the radio's queue
    work,       \* wpa_s->scan_work is set: a scan work has been started
    scanning,   \* wpa_s->scanning
    driver,     \* the driver runs a scan of ours
    table,      \* bss_id
    nchanges,
    \* ghosts
    accepted,   \* the daemon has answered OK to a SCAN of this call
    snap,       \* the table when it answered SCAN_RESULTS in this call
    nfaults

svars == <<at, asked, ret, items, ncalls>>
bvars == <<wstate, due, pending, work, scanning, driver, table, nchanges>>
hvars == <<accepted, snap>>
allvars == <<vars, svars, bvars, hvars, nfaults>>

-----------------------------------------------------------------------------
(* Commands and reply texts.  A line of the answer to SCAN_RESULTS stands     *)
(* for the BSS it describes; the library makes no use of their order.         *)

ScanCmds == {"SCAN", "SCAN_RESULTS"}

Txt(k, lines) == [k |-> k, lines |-> lines]
OkTxt   == Txt("ok", {})
FailTxt == Txt("fail", {})
BusyTxt == Txt("busy", {})

Tables == {s \in SeqOf(BSSs, Cardinality(BSSs)) : IsInjective(s)}
ScanTxts == {OkTxt, FailTxt, BusyTxt} \cup {Txt("scan", S) : S \in SUBSET BSSs}

\* The commands and texts of the connection are those.
ASSUME ScanAssumption ==
    Cmds = ScanCmds /\ Txts = ScanTxts /\ OK = OkTxt /\ FAIL = FailTxt

-----------------------------------------------------------------------------
(* The daemon *)

\* mutant: the listing starts one line late (the header's)
LinesAfterFirst(t) == {t[k] : k \in 2 .. Len(t)}

\* wpa_supplicant_ctrl_iface_scan_results for the table t: one line per BSS,
\* whole lines as long as there is room.
LinesOf(t) ==
    LET listed == {k \in DOMAIN t : t[k] \notin Unlisted}
        room(k) == Cardinality(listed \cap (1 .. k)) <= MaxLines
    IN  {t[k] : k \in {j \in listed : room(j)}}

\* wpas_ctrl_scan: no scan work may be in the queue, waiting or started.  The
\* scan itself is queued from a timeout, after the reply.
ScanAnswer ==
    CASE wstate = "disabled" -> FailTxt
      [] wstate = "rest" /\ ~scanning /\ ~work /\ pending = 0 -> OkTxt
      [] OTHER -> BusyTxt

\* wpa_supplicant_ctrl_iface_process on the two commands.
Handle(c) == IF c = "SCAN" THEN ScanAnswer ELSE Txt("scan", LinesOf(table))

Handled(c) ==
    /\ due' = (due \/ (c = "SCAN" /\ Handle(c) = OkTxt))
    /\ UNCHANGED <<svars, wstate, pending, work, scanning, driver, table,
                   nchanges, nfaults>>

ScanReply ==
    LET r == Head(rxD) IN
    /\ Reply
    /\ rxC'[Len(rxC')].txt = Handle(r.cmd)
    /\ Handled(r.cmd)
    /\ accepted' = (accepted \/ (r.id = cur.id /\ r.cmd = "SCAN"
                                 /\ Handle(r.cmd) = OkTxt))
    /\ snap' = IF r.id = cur.id /\ r.cmd = "SCAN_RESULTS"
               THEN {table} ELSE snap

\* The command of a client that has gone is carried out all the same.
ScanReplyUnsent ==
    /\ ReplyUnsent
    /\ Handled(Head(rxD).cmd)
    /\ UNCHANGED hvars

\* The fields of the daemon change, the connection does not.
DaemonOnly ==
    /\ dsock # 0
    /\ UNCHANGED <<vars, svars, hvars, nfaults>>

Change == nchanges < MaxChanges /\ nchanges' = nchanges + 1

\* wpa_supplicant_scan, called by its timeout.  It does nothing (disabled, or
\* a connection without a scan), or gives up with wpa_supplicant_set_state
\* (disconnected, no enabled network), which clears scanning, or queues a
\* scan work.  When a scan is running, a started work is left or there is no
\* memory, the timeout is registered again: nothing changes.
ScanTimeout ==
    /\ DaemonOnly
    /\ due
    /\ due' = FALSE
    /\ \/ UNCHANGED <<wstate, scanning, pending, nchanges>>
       \/ /\ wstate # "disabled"
          /\ wstate' = "rest" /\ scanning' = FALSE
          /\ UNCHANGED <<pending, nchanges>>
       \/ /\ wstate # "disabled" /\ ~scanning /\ ~work
          /\ Change
          /\ pending' = pending + 1
          /\ UNCHANGED <<wstate, scanning>>
    /\ UNCHANGED <<work, driver, table>>

\* wpas_trigger_scan_cb, when radio_start_next_work gets to the work: two scan
\* works are never started together.  The driver may refuse, and does while
\* it is scanning; only a scan that is not manual is tried again.
TriggerScan ==
    /\ DaemonOnly
    /\ pending > 0 /\ ~work
    /\ pending' = pending - 1
    /\ \/ /\ ~driver
          /\ work' = TRUE /\ scanning' = TRUE /\ driver' = TRUE
          /\ UNCHANGED due
       \/ /\ scanning' = FALSE
          /\ due' \in {due, TRUE}
          /\ UNCHANGED <<work, driver>>
    /\ UNCHANGED <<wstate, table, nchanges>>

\* wpa_bss_update_start to wpa_bss_update_end: BSSs not found for a while are
\* dropped, new ones are added at the end.
Rescanned ==
    {s \in Tables :
        \E gone \in SUBSET BSSs :
           IsPrefix(SelectSeq(table, LAMBDA b : b \notin gone), s)}

\* EVENT_SCAN_RESULTS for a scan of ours.  A disabled interface ignores it.
\* Otherwise scanning is cleared, and: the results are fetched, or they are
\* not and a new scan is asked for, and the scan work ends, network selection
\* or a disconnection changing the state or asking for a scan; or they are
\* not fetched (ap_scan 2, an AP, a scan only) and the work stays, for good.
ScanResults ==
    /\ DaemonOnly
    /\ driver
    /\ driver' = FALSE
    /\ \/ /\ wstate = "disabled"
          /\ UNCHANGED <<wstate, due, work, scanning, table>>
       \/ /\ wstate # "disabled"
          /\ scanning' = FALSE /\ work' = FALSE
          /\ table' \in Rescanned
          /\ wstate' \in {wstate, "rest"} /\ due' \in {due, TRUE}
       \/ /\ wstate # "disabled"
          /\ scanning' = FALSE
          /\ UNCHANGED <<wstate, due, work, table>>
    /\ UNCHANGED <<pending, nchanges>>

\* EVENT_SCAN_RESULTS for the scan of another program: scanning is cleared all
\* the same and the results are used, but not to choose a network; the work
\* and the driver's scan go on.
OtherResults ==
    /\ DaemonOnly /\ Change
    /\ wstate # "disabled"
    /\ scanning' = FALSE
    /\ table' \in Rescanned
    /\ UNCHANGED <<wstate, due, pending, work, driver>>

\* wpa_supplicant_set_state, to authenticating and on, and back to completed
\* or disconnected: in any state but WPA_SCANNING the flag is cleared, even
\* if the driver is scanning.  A connection cancels the timeout, and a lost
\* one registers it.
SetState ==
    /\ DaemonOnly /\ Change
    /\ wstate # "disabled"
    /\ wstate' \in {"joining", "rest"}
    /\ scanning' = FALSE
    /\ due' \in BOOLEAN
    /\ UNCHANGED <<pending, work, driver, table>>

\* mutant: the table is not flushed
DisableKeepsTable ==
    /\ DaemonOnly /\ Change
    /\ wstate # "disabled"
    /\ wstate' = "disabled" /\ scanning' = FALSE
    /\ work' = FALSE /\ pending' = 0
    /\ UNCHANGED <<due, driver, table>>

\* EVENT_INTERFACE_DISABLED: no BSS is in use, and all are flushed; the radio
\* works are removed, but the driver goes on.
Disable ==
    /\ DaemonOnly /\ Change
    /\ wstate # "disabled"
    /\ wstate' = "disabled" /\ scanning' = FALSE
    /\ work' = FALSE /\ pending' = 0
    /\ table' = <<>>
    /\ UNCHANGED <<due, driver>>

\* EVENT_INTERFACE_ENABLED
Enable ==
    /\ DaemonOnly
    /\ wstate = "disabled"
    /\ wstate' = "rest" /\ scanning' = FALSE /\ due' = TRUE
    /\ UNCHANGED <<pending, work, driver, table, nchanges>>

-----------------------------------------------------------------------------
(* The connection: the library does not attach, so no event reaches it. *)

Fault(forced) ==
    /\ forced \/ nfaults < MaxFaults
    /\ nfaults' = IF nfaults < MaxFaults THEN nfaults + 1 ELSE nfaults
    /\ UNCHANGED <<svars, bvars, hvars>>

ScanGivenUp  == Timeout /\ UNCHANGED <<svars, bvars, hvars, nfaults>>
ScanRecvError == RecvError /\ Fault(FALSE)
ScanSendFail == SendFail /\ Fault(~Connected \/ Len(rxD) >= DQLen)
ScanReopen   == Reopen /\ Fault(FALSE)
ScanStop     == Stop /\ Fault(FALSE)

\* A new daemon has an empty table and a scan ahead of it.
ScanStart ==
    /\ Start
    /\ wstate' = "rest" /\ due' = TRUE /\ scanning' = FALSE
    /\ pending' = 0 /\ work' = FALSE /\ driver' = FALSE /\ table' = <<>>
    /\ UNCHANGED <<svars, hvars, nchanges, nfaults>>

ScanSendOk    == SendOk /\ UNCHANGED <<svars, bvars, hvars, nfaults>>
ScanRecvReply == RecvReply /\ UNCHANGED <<svars, bvars, hvars, nfaults>>

\* init_wpa_cli and deinit_wpa_cli
InitWpaCli == at = "idle" /\ Open
              /\ UNCHANGED <<svars, bvars, hvars, nfaults>>
DeinitWpaCli == at = "idle" /\ Close
                /\ ret' = "none" /\ items' = {}
                /\ UNCHANGED <<at, asked, ncalls, bvars, hvars, nfaults>>

-----------------------------------------------------------------------------
(* get_wifi_scan_results *)

\* Without a session wpa_cli_execute returns -1 at once.
GetWifiScanResults ==
    /\ at = "idle" /\ ncalls < MaxCalls
    /\ ncalls' = ncalls + 1
    /\ items' = {}
    /\ IF conn # 0 THEN at' = "scan" /\ ret' = "none"
                   ELSE at' = "idle" /\ ret' = "null"
    /\ accepted' = FALSE /\ snap' = {}
    /\ UNCHANGED <<vars, asked, bvars, nfaults>>

CmdOf(s) == IF s = "scan" THEN "SCAN" ELSE "SCAN_RESULTS"

Issue ==
    /\ at # "idle" /\ ~asked
    /\ Call(CmdOf(at))
    /\ asked' = TRUE
    /\ UNCHANGED <<at, ret, items, ncalls, bvars, hvars, nfaults>>

\* wpa_cli_execute has returned.
Returned(s) ==
    /\ at = s /\ asked /\ pc = "idle"
    /\ asked' = FALSE
    /\ UNCHANGED <<vars, ncalls, bvars, hvars, nfaults>>

\* mutant: any answer will do
AnyAnswer == last.ret = "ok"

\* buf begins with "OK".
ScanAccepted == last.ret = "ok" /\ last.txt.k = "ok"

ResumeScan ==
    /\ Returned("scan")
    /\ IF ScanAccepted THEN at' = "scan_results" /\ UNCHANGED ret
                       ELSE at' = "idle" /\ ret' = "null"
    /\ UNCHANGED items

\* get_wifi_scan_item_from_line on each line: only lines of five fields make
\* an item.  strtok_r takes an empty field together with its neighbour, so a
\* line without SSID or flags has four; the header has one, and so does any
\* text that is no scan result at all.
ItemsOf(t) == t.lines \ Nameless

ResumeResults ==
    /\ Returned("scan_results")
    /\ at' = "idle"
    /\ IF last.ret = "ok" THEN ret' = "list" /\ items' = ItemsOf(last.txt)
                          ELSE ret' = "null" /\ UNCHANGED items

-----------------------------------------------------------------------------
ScanInit ==
    /\ Init
    /\ at = "idle" /\ asked = FALSE /\ ret = "none" /\ items = {}
    /\ ncalls = 0
    /\ wstate = "rest" /\ due = FALSE /\ scanning = FALSE
    /\ pending = 0 /\ work = FALSE /\ driver = FALSE
    /\ table = <<>> /\ nchanges = 0
    /\ accepted = FALSE /\ snap = {} /\ nfaults = 0

Library ==
    \/ ScanSendOk \/ ScanRecvReply
    \/ ScanGivenUp \/ ScanRecvError \/ ScanSendFail
    \/ Issue \/ ResumeScan \/ ResumeResults

User == InitWpaCli \/ DeinitWpaCli \/ GetWifiScanResults

Wpas == ScanReply \/ ScanReplyUnsent \/ ScanReopen \/ ScanStop \/ ScanStart
        \/ ScanTimeout \/ TriggerScan \/ ScanResults \/ OtherResults
        \/ SetState \/ Disable \/ Enable

ScanNext == Library \/ User \/ Wpas

\* The caller's thread runs on inside get_wifi_scan_results; select() keeps
\* its time limit.  Nothing is assumed of the daemon.
ScanFairness ==
    /\ WF_allvars(ScanSendOk \/ ScanSendFail)
    /\ WF_allvars(ScanRecvReply \/ ScanGivenUp)
    /\ WF_allvars(Issue \/ ResumeScan \/ ResumeResults)

ScanSpec == ScanInit /\ [][ScanNext]_allvars /\ ScanFairness

-----------------------------------------------------------------------------
(* Properties *)

ScanTypeOK ==
    /\ TypeOK
    /\ at \in {"idle", "scan", "scan_results"} /\ asked \in BOOLEAN
    /\ ret \in {"none", "null", "list"} /\ items \subseteq BSSs
    /\ wstate \in {"disabled", "joining", "rest"}
    /\ {due, scanning, work, driver} \subseteq BOOLEAN /\ pending \in Nat
    /\ table \in Tables
    /\ accepted \in BOOLEAN /\ snap \subseteq Tables
    /\ scanning => work /\ driver
    /\ wstate = "disabled" => table = <<>> /\ ~work /\ pending = 0

\* A list that get_wifi_scan_results returns is a snapshot: every item is a
\* BSS that was in the daemon's table at one moment during the call, and if
\* the table fitted into a reply then every BSS of it with an SSID is in the
\* list.  This needs that no request of this connection was given up on:
\* deinit_wpa_cli and init_wpa_cli restore it, whatever went before.
SnapshotOfCall ==
    at = "idle" /\ ret = "list" /\ conn # 0 /\ abandoned = {} =>
        \E T \in snap :
            /\ items \subseteq ToSet(T)
            /\ Len(T) <= MaxLines
                  => ToSet(T) \ (Nameless \cup Unlisted) \subseteq items

\* A call returns a list only when the daemon accepted the scan it asked for,
\* and NULL after an accepted scan only when SCAN_RESULTS was not answered;
\* as long as no request of this connection was given up on.
ListMeansAccepted ==
    at = "idle" /\ conn # 0 /\ abandoned = {} =>
        /\ ret = "list" => accepted
        /\ ret = "null" /\ accepted => last.ret # "ok"

\* get_wifi_scan_results returns, whatever the daemon does.
ScanReturns == at # "idle" ~> at = "idle"
=============================================================================
