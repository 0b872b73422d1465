------------------------------ MODULE RadioWork ------------------------------
(***************************************************************************)
(* The radio work queue (wpa_supplicant.c): the interfaces of one radio ask *)
(* for it with radio_add_work; radio_start_next_work, run by a timeout of   *)
(* zero seconds, starts a work by its callback, and radio_work_done ends    *)
(* it.  Together with the owners of works: scans (scan.c, events.c),        *)
(* connections (sme.c), works that end by themselves (GAS queries) and      *)
(* works of external programs (RADIO_WORK commands of ctrl_iface.c).        *)
(***************************************************************************)
EXTENDS Integers, FiniteSets

CONSTANTS
    Ifaces,           \* the interfaces of the radio
    Kinds,            \* the kinds of work: records of type and bands
    MAX_ACTIVE_WORKS,
    MaxWorks,         \* bound: works ever added
    MaxScans          \* bound: scans of other programs

ASSUME RadioAssumption ==
    /\ Kinds \subseteq [type : STRING, bands : Nat]
    /\ MAX_ACTIVE_WORKS \in 1 .. 2   \* 2 in wpa_supplicant_i.h
    /\ {MaxWorks, MaxScans} \subseteq Nat

VARIABLES
    simultaneous,     \* WPA_DRIVER_FLAGS_OFFCHANNEL_SIMULTANEOUS
    ifaces,           \* radio->ifaces
    disabled,         \* the interfaces in WPA_INTERFACE_DISABLED
    work,             \* radio->work: the works, numbered as they were added
    num_active_works,
    timer,            \* the timeout radio_start_next_work is registered
    external_scan_running,
    ext_work_in_progress,
    added, scans,     \* counters for the bounds
    lost              \* ghost: a wake-up of the queue was lost

config == <<simultaneous, ifaces, disabled>>
vars == <<config, work, num_active_works, timer, external_scan_running,
          ext_work_in_progress, added, scans, lost>>

Init ==
    /\ simultaneous \in BOOLEAN
    /\ ifaces = Ifaces /\ disabled = {}
    /\ work = {} /\ num_active_works = 0 /\ timer = FALSE
    /\ external_scan_running = FALSE
    /\ ext_work_in_progress = [i \in Ifaces |-> FALSE]
    /\ added = 0 /\ scans = 0 /\ lost = FALSE

Started == {w \in work : w.started}
IsExt(w) == w.kind.type = "ext"
IsConnect(w) == w.kind.type = "sme-connect"
IsScan(w) == w.kind.type = "scan"

\* radio_add_work puts connect works at the front of the list and all others
\* at its end: their numbers tell their order.
Position(w) == IF IsConnect(w) THEN -w.n ELSE w.n
Ahead(v, w) == Position(v) < Position(w)

\* The first work of the list that is in S, as a set.
First(S) == {w \in S : ~\E v \in S : Ahead(v, w)}

\* mutant: a work that goes is never counted down
ActiveStays(S) == num_active_works

\* num_active_works after radio_work_free of the works in S.
ActiveWithout(S) == num_active_works - Cardinality(S \cap Started)

\* radio_work_check_next(i) registers the timeout.
Wakes(i) == work' # {} /\ ~ext_work_in_progress'[i]

\* radio_work_check_next(i), with t for the timeout so far.  The wake-up is
\* lost when it is refused though no work is in progress.
CheckNext(i, t) ==
    /\ timer' = (t \/ Wakes(i))
    /\ lost' = (lost \/ (/\ work' # {} /\ ~Wakes(i)
                         /\ Started' = {}))

-----------------------------------------------------------------------------
(* Adding works *)

New(i, kind) ==
    [n |-> added + 1, iface |-> i, kind |-> kind, started |-> FALSE,
     over |-> FALSE]

\* mutant: the first work is left to the next wake-up
SchedulesLater(queue) == simultaneous /\ num_active_works < MAX_ACTIVE_WORKS

\* radio_add_work schedules the start of the first work, and with parallel
\* works of any.
Schedules(queue) ==
    queue = {} \/ (simultaneous /\ num_active_works < MAX_ACTIVE_WORKS)

Up(i) == i \in ifaces \ disabled

\* radio_add_work at the end of the queue: wpa_supplicant_trigger_scan,
\* gas_query_tx, wpas_ctrl_radio_work_add.
AddWork(i, kind) ==
    /\ Up(i) \/ (i \in ifaces /\ kind.type = "ext")
    /\ added < MaxWorks
    /\ kind.type # "sme-connect"
    /\ kind.type = "scan" => ~\E w \in Started : w.iface = i /\ IsScan(w)
    /\ work' = work \cup {New(i, kind)}
    /\ added' = added + 1
    /\ UNCHANGED ext_work_in_progress
    /\ IF Schedules(work) THEN CheckNext(i, timer) ELSE UNCHANGED <<timer, lost>>
    /\ UNCHANGED <<config, num_active_works, external_scan_running, scans>>

\* sme_authenticate: a connect work that waits is removed, which wakes the
\* queue; the new one goes to the front.
Connect(i, kind) ==
    LET mine == {w \in work : w.iface = i /\ IsConnect(w)}
        rest == work \ mine
    IN /\ Up(i)
       /\ added < MaxWorks
       /\ kind.type = "sme-connect"
       /\ mine \cap Started = {}
       /\ work' = rest \cup {New(i, kind)}
       /\ added' = added + 1
       /\ UNCHANGED ext_work_in_progress
       /\ IF Schedules(rest) \/ (mine # {} /\ rest # {})
          THEN CheckNext(i, timer) ELSE UNCHANGED <<timer, lost>>
       /\ UNCHANGED <<config, num_active_works, external_scan_running, scans>>

-----------------------------------------------------------------------------
(* Starting works *)

\* mutant: works of one band run in parallel
ParallelTypes(a, w) == a.kind.type # w.kind.type

\* Two works may run at the same time.
Parallel(a, w) == a.kind.type # w.kind.type /\ a.kind.bands # w.kind.bands

\* radio_work_get_next_work, where works that need new scan results are
\* passed over (skip) during a scan of another program.  While a work runs,
\* only the works that wait ahead of every connect work are looked at.
NextWork(skip) ==
    LET held(w) == skip /\ external_scan_running /\ IsScan(w)
        waiting == work \ Started
        early == {w \in waiting :
                    \A c \in waiting : IsConnect(c) => Ahead(w, c)}
    IN IF Started = {}
       THEN First({w \in work : ~held(w)})
       ELSE First({w \in early :
                /\ \A a \in First(Started) : ~IsConnect(a) /\ Parallel(a, w)
                /\ ~held(w)})

\* The work that radio_start_next_work starts, if any.
ToStart(skip) ==
    IF simultaneous
    THEN IF num_active_works < MAX_ACTIVE_WORKS THEN NextWork(skip) ELSE {}
    ELSE {w \in First(work) : ~w.started /\ ~external_scan_running}

\* num_active_works once the work to start has been looked for: the counter
\* is put right when the list is empty or none of its works is active.
Recounted ==
    IF \/ work = {}
       \/ simultaneous /\ num_active_works < MAX_ACTIVE_WORKS /\ Started = {}
    THEN 0 ELSE num_active_works

\* radio_start_next_work with nothing to start.
StartNothing(skip) ==
    /\ timer
    /\ ToStart(skip) = {}
    /\ timer' = FALSE
    /\ num_active_works' = Recounted
    /\ UNCHANGED <<config, work, external_scan_running, ext_work_in_progress,
                   added, scans, lost>>

\* radio_start_next_work: the callback begins the operation.
Start(skip) ==
    /\ timer
    /\ \E w \in ToStart(skip) :
        /\ work' = (work \ {w}) \cup {[w EXCEPT !.started = TRUE]}
        /\ num_active_works' = Recounted + 1
        /\ ext_work_in_progress' =
             [ext_work_in_progress EXCEPT ![w.iface] = @ \/ IsExt(w)]
        /\ IF simultaneous /\ num_active_works' < MAX_ACTIVE_WORKS
           THEN CheckNext(w.iface, FALSE)
           ELSE timer' = FALSE /\ UNCHANGED lost
    /\ UNCHANGED <<config, external_scan_running, added, scans>>

\* radio_start_next_work: the callback cannot begin and calls
\* radio_work_done itself (scan refused, BSS or network gone).
StartFails(skip) ==
    /\ timer
    /\ \E w \in ToStart(skip) :
        /\ ~IsExt(w)
        /\ work' = work \ {w}
        /\ num_active_works' = Recounted
        /\ UNCHANGED ext_work_in_progress
        /\ CheckNext(w.iface, FALSE)
    /\ UNCHANGED <<config, external_scan_running, added, scans>>

-----------------------------------------------------------------------------
(* Ending works *)

\* mutant: the next work is not looked for
DoneSilent(w) ==
    /\ work' = work \ {w}
    /\ num_active_works' = ActiveWithout({w})
    /\ UNCHANGED <<timer, lost>>

\* radio_work_done(w) of a started work, with ext_work_in_progress' given.
Done(w) ==
    /\ work' = work \ {w}
    /\ num_active_works' = ActiveWithout({w})
    /\ CheckNext(w.iface, timer)

\* A connect work or a query is over, or an external work has timed out
\* (wpas_ctrl_radio_work_timeout).
Finish(n) ==
    \E w \in Started :
        /\ w.n = n
        /\ ~IsScan(w)
        /\ ext_work_in_progress' =
             [ext_work_in_progress EXCEPT ![w.iface] = @ /\ ~IsExt(w)]
        /\ Done(w)
        /\ UNCHANGED <<config, external_scan_running, added, scans>>

\* EVENT_SCAN_RESULTS for a scan of the interface's own.
ScanResults(n) ==
    \E w \in Started :
        /\ w.n = n
        /\ IsScan(w) /\ ~w.over
        /\ external_scan_running' = FALSE
        /\ UNCHANGED ext_work_in_progress
        /\ Done(w)
        /\ UNCHANGED <<config, added, scans>>

\* The same when the results cannot be fetched and the scan was requested by
\* a SCAN TYPE=ONLY command or in AP mode: the work is not ended.
ScanResultsFail(n) ==
    \E w \in Started :
        /\ w.n = n
        /\ IsScan(w) /\ ~w.over
        /\ external_scan_running' = FALSE
        /\ work' = (work \ {w}) \cup {[w EXCEPT !.over = TRUE]}
        /\ timer' = (timer \/ ~ext_work_in_progress[w.iface])
        /\ lost' = TRUE
        /\ UNCHANGED <<config, num_active_works, ext_work_in_progress,
                       added, scans>>

\* wpas_ctrl_radio_work_done on interface i: any external work of the radio,
\* started or not.
ExtDone(i, n) ==
    \E w \in work :
        /\ i \in ifaces
        /\ w.n = n
        /\ IsExt(w)
        /\ ext_work_in_progress' = [ext_work_in_progress EXCEPT ![i] = FALSE]
        /\ IF w.started THEN Done(w)
           ELSE /\ work' = work \ {w}
                /\ UNCHANGED <<num_active_works, timer, lost>>
        /\ UNCHANGED <<config, external_scan_running, added, scans>>

-----------------------------------------------------------------------------
(* Scans of other programs; interfaces that come and go *)

\* EVENT_SCAN_STARTED
ExternalScan ==
    /\ ifaces # {}
    /\ scans < MaxScans
    /\ ~external_scan_running
    /\ external_scan_running' = TRUE
    /\ scans' = scans + 1
    /\ UNCHANGED <<config, work, num_active_works, timer,
                   ext_work_in_progress, added, lost>>

\* EVENT_SCAN_RESULTS for it, on interface i.
ExternalScanResults(i) ==
    /\ i \in ifaces
    /\ external_scan_running
    /\ external_scan_running' = FALSE
    /\ UNCHANGED <<work, ext_work_in_progress>>
    /\ IF i \in disabled
       THEN lost' = TRUE /\ UNCHANGED timer
       ELSE CheckNext(i, timer)
    /\ UNCHANGED <<config, num_active_works, added, scans>>

\* radio_remove_works, for all works that satisfy the type and interface.
RemoveWorks(i, S) ==
    /\ work' = work \ S
    /\ num_active_works' = ActiveWithout(S)
    /\ CheckNext(i, timer)

\* EVENT_INTERFACE_DISABLED
Disable(i) ==
    /\ Up(i)
    /\ disabled' = disabled \cup {i}
    /\ UNCHANGED ext_work_in_progress
    /\ RemoveWorks(i, {w \in work : w.iface = i})
    /\ UNCHANGED <<simultaneous, ifaces, external_scan_running, added, scans>>

\* EVENT_INTERFACE_ENABLED
Enable(i) ==
    /\ i \in ifaces \cap disabled
    /\ disabled' = disabled \ {i}
    /\ UNCHANGED <<simultaneous, ifaces, work, num_active_works, timer,
                   external_scan_running, ext_work_in_progress, added, scans,
                   lost>>

\* The FLUSH command on interface i (wpas_ctrl_flush).
FlushAll(i) ==
    /\ i \in ifaces
    /\ ext_work_in_progress' = [ext_work_in_progress EXCEPT ![i] = FALSE]
    /\ work' = {}
    /\ num_active_works' = ActiveWithout(work)
    /\ UNCHANGED <<config, timer, external_scan_running, added, scans, lost>>

\* mutant: only external works go with the interface
GoneExt(i) == {w \in work : IsExt(w)}

\* The works that go with interface i.
GoneWith(i) == {w \in work : w.iface = i \/ IsExt(w)}

\* wpa_supplicant_deinit_iface: wpas_ctrl_radio_work_flush ends the external
\* works of all interfaces, radio_remove_interface the other works of i.
RemoveIface(i) ==
    LET gone == GoneWith(i)
        stays == \A w \in gone \cap Started : IsExt(w) =>
                    ext_work_in_progress[w.iface]
    IN /\ i \in ifaces
       /\ ifaces' = ifaces \ {i}
       /\ disabled' = disabled \ {i}
       /\ UNCHANGED ext_work_in_progress
       /\ work' = work \ gone
       /\ num_active_works' = ActiveWithout(gone)
       /\ IF ifaces' = {} THEN timer' = FALSE /\ UNCHANGED lost
          ELSE CheckNext(i, timer \/ (work' # {} /\ ~stays))
       /\ UNCHANGED <<simultaneous, external_scan_running, added, scans>>

StartNext == \E skip \in BOOLEAN :
    StartNothing(skip) \/ Start(skip) \/ StartFails(skip)

Next ==
    \/ \E i \in Ifaces, kind \in Kinds : AddWork(i, kind) \/ Connect(i, kind)
    \/ StartNext
    \/ \E n \in 1 .. added :
        \/ Finish(n) \/ ScanResults(n) \/ ScanResultsFail(n)
        \/ \E i \in Ifaces : ExtDone(i, n)
    \/ ExternalScan
    \/ \E i \in Ifaces :
        \/ ExternalScanResults(i) \/ Disable(i) \/ Enable(i)
        \/ FlushAll(i) \/ RemoveIface(i)

\* The event loop runs its timeouts; operations of the driver, external works
\* and scans end (SME and GAS timeouts, the driver's scan results, the
\* timeout of external works).
Fairness ==
    /\ WF_vars(StartNext)
    /\ \A n \in 1 .. MaxWorks : WF_vars(Finish(n) \/ ScanResults(n))
    /\ WF_vars(\E i \in Ifaces : ExternalScanResults(i))

Spec == Init /\ [][Next]_vars /\ Fairness

-----------------------------------------------------------------------------
(* Properties *)

Work == [n : 1 .. MaxWorks, iface : ifaces, kind : Kinds,
         started : BOOLEAN, over : BOOLEAN]

TypeOK ==
    /\ simultaneous \in BOOLEAN /\ ifaces \subseteq Ifaces
    /\ disabled \subseteq ifaces
    /\ work \subseteq Work
    /\ num_active_works \in Nat
    /\ {timer, external_scan_running, lost} \subseteq BOOLEAN
    /\ ext_work_in_progress \in [Ifaces -> BOOLEAN]
    /\ added \in 0 .. MaxWorks /\ scans \in 0 .. MaxScans

\* The counter that limits parallel works is the number of started works,
\* however works end: done, cancelled, flushed or with their interface.
ActiveCount == num_active_works = Cardinality(Started)

\* With a driver that does several operations at once, at most two works run,
\* of different types and on different bands, and a connection runs alone.
ParallelWorks ==
    simultaneous =>
        /\ Cardinality(Started) <= MAX_ACTIVE_WORKS
        /\ \A v, w \in Started : v # w =>
             /\ v.kind.type # w.kind.type /\ v.kind.bands # w.kind.bands
             /\ ~IsConnect(v)

\* While works wait and none runs, the queue will be looked at again: the
\* timeout is registered or a scan of another program will end, unless a
\* wake-up was lost.
NoStall ==
    work # {} /\ Started = {} => timer \/ external_scan_running \/ lost

\* Every work is started or removed after finitely many works and scans,
\* unless a wake-up was lost.
WorksServed ==
    \A n \in 1 .. MaxWorks :
        (\E w \in work : w.n = n /\ ~w.started) ~>
            (lost \/ ~\E w \in work : w.n = n /\ ~w.started)

\* wpa_supplicant.c describes radio works as operations with exclusive radio
\* control; without a driver for parallel operations one runs at a time.
ExclusiveRadio == ~simultaneous => Cardinality(Started) <= 1
=============================================================================
