# wpa_cli_wrapper: TLA+ models, TLC runs and TLAPS proofs

wpa_cli_wrapper turns the commands of `wpa_cli` into C calls. A program links
`libwpa_cli_wrapper.a`, opens one control connection to a running
`wpa_supplicant` daemon, sends text commands over it and gets the reply texts
back; `wpa_cli_oper` builds operations such as "connect to this network" out of
several such commands. This directory models the parts that carry that
behaviour: the control connection, the daemon's end of it, `connect_wifi` and
`get_wifi_scan_results`; behind the commands, the daemon's radio work queue and
its table of access points; and the library's priority queue.
`W/` below stands for `src/wpa_supplicant-2.6/`.

## 1. Inventory

| component | state | operations | hard parts |
|---|---|---|---|
| Control client, `W/src/common/wpa_ctrl.c` | a connected UNIX datagram socket with a local path made from pid and a counter | open, close, request (send with retries, select for ten seconds, recv), attach, detach, recv, pending | replies carry no request number; timeouts race late replies; events arrive on the same socket and restart the wait |
| Daemon control socket, requests, `W/wpa_supplicant/ctrl_iface_unix.c`, `W/src/common/ctrl_iface_common.c` | socket, list `ctrl_dst` of monitors | receive and answer, attach, detach, level, reinit, init, deinit, wait (`-W`) | a reply that cannot be sent, an ATTACH that must be undone, a socket that is reopened under its clients |
| Daemon control socket, events, same files | `ctrl_dst` with error counts and levels, `msg_queue`, `throttle_count`, the queue timer | `msg_cb`, the sending loop, `msg_queue`, `queue_limit`, `queue_timeout`, `send_pending` | slow monitors, entries removed while the list is walked, order of held back and new events, a lost timer |
| Global control interface, same file | a second copy of the above, sharing the timer | the same | two queues behind one timer |
| Network table, `W/wpa_supplicant/ctrl_iface.c`, `config.c`, `wpa_supplicant.c` | networks by id | ADD, SET, ENABLE, DISABLE, REMOVE, LIST, SELECT_NETWORK, SAVE_CONFIG | ids are one more than the largest in use; any client may change any network |
| Library session, `W/wpa_supplicant/libwpa_cli_wrapper.c` | `ctrl_conn`, `ctrl_ifname`, `g_wpa__cli_initialized`, cached lists | `init_wpa_cli`, `wpa_cli_execute` (split the line, look the command up, run its handler), `deinit_wpa_cli` | pointers kept after free, a second request hidden in a handler (`update_networks`) |
| `connect_wifi`, `src/wpa_cli_oper/wpa_cli_oper.c` | `network_id` | up to nine requests in sequence and a clean-up | one of several steps fails, replies used without being looked at |
| `get_wifi_scan_results`, same file | none | SCAN, SCAN_RESULTS, splitting into items | results older than the scan, lines of the wrong shape |
| Priority queue, `src/wpa_cli_oper/smartlist.c` | an array used as a heap; each item stores its position | add, pop, remove | the heap order and the stored positions through every swap |
| smartlist, bit array, `compat` | arrays | list, set and string operations | boundaries |
| BSS table, `W/wpa_supplicant/bss.c`, with `events.c`, `sme.c` | two lists of the same entries, the results of the last scan, the current BSS, the BSS of the pending connect work | start, update (add, update, move), end of a round of results; eviction, expiry, flush; connect, associate, disassociate | entries are moved by realloc and freed while four kinds of pointers name them |
| Radio work queue, `W/wpa_supplicant/wpa_supplicant.c`, with `scan.c`, `sme.c`, `events.c`, `ctrl_iface.c` | the queue of works of all interfaces of a radio, the count of active ones, a timeout, flags for external works and scans | add, start next, done, remove, flush, interface removed | wake-ups that get lost, works that run beside each other, works whose interface goes |
| the rest of `W/` | | | an unmodified copy of wpa_supplicant 2.6, not the program's own logic |

How they interact: `connect_wifi` calls `wpa_cli_execute`, which blocks in
`wpa_ctrl_request`; that exchanges datagrams with the daemon's event loop,
which runs one handler at a time, while other clients' events and failures act
on the same sockets. A SCAN command registers a timeout; the scan it starts is a
radio work, competing with connections and with the works of external programs;
its results update the BSS table, which SCAN_RESULTS lists. There is no concurrency inside the library (its variables
are global and unprotected; it is for one thread), so the interleavings are
those of the client thread, the daemon, other clients, and the kernel's
buffers.

What makes each part correct:

* connection: a call returns its own reply or, after a timeout, a late one of
  the same connection, never one from another connection, in order, each once;
  the lag is bounded; every call returns; attach tells the truth;
* events: the loop touches no freed entry, the queue has a timer and a bound,
  a monitor sees events in order and without unexplained gaps, the queue drains;
* `connect_wifi`: it changes only the network it added, leaves nothing behind
  on failure, has configured the network on success, and returns;
* `get_wifi_scan_results`: a list is the daemon's table at one moment of the
  call, and means that the scan was accepted; the call returns;
* BSS table: the two lists agree, no pointer dangles, an attempt to connect is
  for the access point that was chosen;
* radio queue: the count is right, works that exclude each other do not run
  together, and no work is forgotten;
* priority queue: an item knows its position, and pop returns a least one.

The hazards, each at its line and with the properties aimed at it, are listed
in `PROJECT.json`.

## 2. Modules

| module | models |
|---|---|
| `WpaCtrl` | the control client and the daemon's request side, one client |
| `FifoRpc` | abstract: what a control connection promises its caller |
| `WpaCtrlFifo` | the refinement mapping from `WpaCtrl` to `FifoRpc` |
| `WpaCtrlProofs` | proofs about `WpaCtrl` and its refinement of `FifoRpc` |
| `WifiOper` | extends `WpaCtrl`: session, `connect_wifi`, network table |
| `WifiOperProofs` | proofs about `WifiOper` |
| `CtrlMonitors` | the daemon's event side with several monitors |
| `CtrlMonitorsProofs` | proofs about `CtrlMonitors` |
| `WifiScan` | extends `WpaCtrl`: `get_wifi_scan_results` and a daemon that scans |
| `WifiScanProofs` | proofs about `WifiScan` |
| `BssTable` | the BSS table and the pointers into it |
| `BssTableProofs` | proofs about `BssTable` |
| `RadioWork` | the radio work queue and the owners of works |
| `RadioWorkProofs` | proofs about `RadioWork` |
| `Pqueue` | the priority queue |
| `PqueueProofs` | proofs about `Pqueue` |
| `MC...` | one for each module that is run: constants for TLC |

### WpaCtrl

State: the daemon's socket `dsock` (numbered, so that a connection to an old
one can be told), the datagrams `rxD` in it, `mon`, the number of entries of
`ctrl_dst` with this client's address; the client's connection `conn`, its
address `addr` (the `counter` of `wpa_ctrl_open2`), the datagrams `rxC` in its
socket, and where `wpa_ctrl_request` is (`pc`). Requests are numbered by ghosts
(`nreq`, `base`, `abandoned`, `answered`); the code has no such numbers, which
is what the properties are about.

Actions: `Open`, `Close`, `Call`, `SendOk`, `SendFail`, `RecvEvent`,
`RecvReply`, `Timeout`, `RecvError`, `Recv` for the client; `Reply`,
`ReplyUnsent`, `ReplyOverflow`, `Event`, `EventUnsent`, `Reopen`, `Stop`,
`Start` for the daemon. A handler of the daemon is one step: its event loop
runs one handler at a time and the client can only see the datagram it sends.
`Reopen` is the reinit some other monitor's full buffer causes. The kernel is
external: a datagram sent to a connected, live socket arrives once and in
order, closing a socket discards what it holds, and a connected datagram socket
accepts nothing from another peer.

`FifoRpc` says what of this a caller can see: one call at a time, and a set of
requests whose answers are under way, of which the oldest, the one with the
smallest number, is the one a call returns. `WpaCtrlFifo` maps the requests in
the two sockets to that set.

### WifiOper

Extends `WpaCtrl` with commands and reply texts. A text is abstracted to what
its readers tell apart: "OK", "FAIL", an id, a network list; `atoi` of anything
but an id is 0, which is what the code computes. Every request of
`connect_wifi` is a step of its own (`step`), and `update_networks`, called by
the handlers of `add_network` and `remove_network`, is a request of its own
(`add_list`, `remove_list`). Undefined behaviour is a choice. The password is a
single `char` that is printed with `%s`: the text at that address goes into the
command, is empty and refused, or cannot be read (`CmdOf`, `PasswordRefused`,
`PasswordCrash`), so a key is recorded by its kind and never as the caller's.
The others are the format with a missing argument (`IssuePsk`), the copy past
`network_id` (`OverrunCrash`), the freed interface name (`IfnamesAtOpen`,
`DeinitWpaCli`). The library never attaches, so the event actions of `WpaCtrl`
are not used, and one reply per request cannot fill its buffer.

`mishaps` records what has gone wrong, so that each property can say under
which failures it holds: "gaveup" (a request returned without its reply),
"sendfail", "daemon" (reopened or stopped), "addfail" (ADD_NETWORK answered
FAIL), "psk" (a WPA password was set).

### CtrlMonitors

State of `struct ctrl_iface_priv` (`sock`, `ctrl_dst`, `msg_queue`,
`throttle_count`), the registration of the queue timer, the position of the
sending loop (`dst`, the node its saved next pointer names), and the monitors
with their sockets. An entry has a node number that stands for its memory:
`LoopNodeIsLive` says the number the loop holds is still in the list. A send of
one event to one entry is a step, because monitors read, close and open between
two sends; requests are handled in one step, since `WpaCtrl` has their
delivery.

### WifiScan

Extends `WpaCtrl` as `WifiOper` does: SCAN and SCAN_RESULTS are requests of
their own, and between any two steps of the call the daemon may run its timeout,
which queues a scan work (`ScanTimeout`), start that work (`TriggerScan`), get
results of its own scan or of another program's (`ScanResults`, `OtherResults`),
change state (`SetState`), lose or get back its interface (`Disable`, `Enable`),
stop and start. A scan is in the radio's queue (`pending`), started (`work`), in
the driver (`driver`) and announced by a flag (`scanning`), and these come apart:
the flag is cleared by any change of state, a disabled interface loses its works
while the driver goes on, and results that cannot be fetched may leave the work
where it is. A reply is the set of the BSSs on its lines, the first `MaxLines` that are listed (`LinesOf`); `ItemsOf` is what the parser
makes of it: lines of five fields only, so a BSS without SSID or flags is lost,
because `strtok_r` joins empty fields. The ghosts `accepted` and `snap` record
what the daemon did for the requests of this very call.

### BssTable

An entry lives at an address of `Addr`; an address that was freed may be used
again. `Update` moves an entry (realloc) or not; `Add` evicts when the table is
full; both put the entry into the array of results unless it cannot be grown
(`List`; the ghost `short` records that); `SetMaxCount` is SET bss_max_count, which
leaves the table as it is; `UpdateEnd` expires what a scan that covered the access points `S` did not
see; `Flush` is `wpa_bss_flush` and `wpa_bss_flush_by_age`. A round of results is
several steps in which nothing else runs (`pc`), as the code's loop is. The
lists are sequences of addresses; removing an entry is described by where the
others are afterwards (`At`), as unlinking keeps their order. The
other actions are the ones that take pointers into the table or give them up:
`Connect` (`sme_authenticate`), `WorkStart` and `WorkDrop`
(`sme_auth_start_cb`), `Assoc`, `Completed`, `SmeDeauth`, and four kinds of
disassociation. The ghost `dangling` marks that the current BSS was evicted, which the code
allows; what reads of freed memory do after that is not modelled, so the model
stops there.

### RadioWork

The queue is a set of works with the numbers in which they were added; connect
works go to the front, so the numbers and kinds give the order (`Position`).
`AddWork` and `Connect` are `radio_add_work` at the end and at the front of the
queue with what their callers do around it; `Start`, `StartFails` and
`StartNothing` are `radio_start_next_work`, for drivers with and without
simultaneous off-channel operations. Works end by `Finish`, `ScanResults`,
`ExtDone`, or with `Disable`, `FlushAll` and `RemoveIface`. Scans of other
programs hold scans back (`ExternalScan`). The ghost `lost` records that the
queue should have been looked at and was not: the flag of an external work that
is gone, results that could not be fetched, or results on a disabled interface.

### Pqueue

The array with its items' `idx` fields; every iteration of the two sift loops
is a step, and calls do not overlap. The ghost `misplaced` records that
`smartlist_pqueue_remove` put an item below a greater one.

## 3. Runs

| run | checks | states | bounds |
|---|---|---|---|
| `WpaCtrl` | all properties of `WpaCtrl` and `ImplementsFifo` | 131 000 | 3 requests, 2 connections, 2 daemon sockets, 1 event, buffers of 2 |
| `WpaCtrlReply` | `ReplyIsForCommand`, violated | | same |
| `WifiOper` | `OthersUntouched`, `NoResidue`, `ConfiguredOnSuccess`, types | 480 000 | 2 calls of `connect_wifi`, 2 sessions, one daemon restart, one unforced fault, ids 0..2 with 0 the user's, flags 0, 1, 2 |
| `WifiOperLive` | `ConnectReturns` | 391 000 | 1 call, as many faults as requests |
| `WifiOperFail` | `FailureIsReported`, violated | | as `WifiOper` |
| `WifiScan` | `SnapshotOfCall`, `ListMeansAccepted`, `ScanReturns`, types | 732 000 | 2 calls, 4 requests, 2 connections, one restart, 2 changes, two unforced faults, 2 BSSs, one without SSID, one line to a reply |
| `CtrlMonitors` | all properties of `CtrlMonitors`, `QueueDrains` too | 1 594 000 | 2 monitors, 3 events, 3 requests, 2 sockets, limit 2, count modulo 3 |
| `BssTable` | all properties of `BssTable` | 704 000 | 3 access points, two of one BSSID, one of them without SSID, 4 addresses, a table of 2 whose limit may be set to 1, an array of 2 that is grown or not, expiry after 2 scans |
| `RadioWork` | all properties of `RadioWork` | 88 000 | 2 interfaces, 4 kinds of work, 3 works, one scan of another program, both kinds of driver |
| `RadioWorkExclusive` | `ExclusiveRadio`, violated | | same |
| `Pqueue` | `StoredPositions`, `HeapOrder`, `PopsLeast`, types | 26 000 | 6 items with 4 keys |
| `PqueueRemove` | `MinHeap`, violated | | same |

Why the bounds are enough: three requests are one that is given up on, one that
reads its late reply and one that reads the reply of that; two connections and
two sockets are what it takes for a reply or an entry to be stale; buffers of
two can be full with one event and one reply in them. In `WifiOper`, 18
requests are two complete calls, and a fault in the first call shows in the
second. In `WifiScan`, four requests are two complete calls, a reply with one
line is cut off when two BSSs are listed (P2P devices, which have no line, are
only in the theorems), and two changes (enabling the interface
is not counted) are enough for a scan to be queued, started, overtaken by a
disabled interface and to end after it is enabled.
In `CtrlMonitors`, three requests let one monitor attach twice and the
other once; a limit of 2 and three events reach the limit with a message
pending; the send buffer is more than half full when three of its four
datagrams are unread; with `CountMod = 3` the count wraps, and the bound of the
queue fails without the condition of `QueueBounded`. In
`BssTable` the third access point makes the table overflow, two entries with one
BSSID tell a lookup by BSSID from one by SSID, and four addresses leave one to
move to when all three access points are in the table; an array of two is full
when the third result comes, and a limit of 1 is below a table of two or three.
No network without SSID is configured in the run; the current BSS gets to be one
that matches no network, and evicted, by a roam to a BSSID that was only seen
without SSID. In `RadioWork` three works
are one that runs, one put in front of it and one that waits. Six items are
the fewest with which `smartlist_pqueue_remove` can go wrong. `BssTable` uses
symmetry in the addresses, which only name memory; it has no liveness property.
Most runs allow deadlock because the bounds end every behaviour and because a
daemon whose reinit has failed, or whose last interface is gone, really stays as
it is; `Pqueue` never stops.

What the properties mean, in the terms of the code, stands above each of them.
The deeper ones:

* `ReplyMatches`, `AnswersAdvance`, `LagIsBounded` and `ImplementsFifo`
  together describe what a caller can rely on: nothing ties a reply to its
  request, and yet replies come in order, once, only from this connection, and
  lag by at most one per request that was given up on. `ReplyIsForCommand`,
  which the documentation of `wpa_ctrl_request` reads like, is false.
* `AttachedIsRegistered`: the daemon undoes an ATTACH whose reply it cannot
  send, so a client told OK is registered as long as its connection lasts.
* `LoopNodeIsLive`: the loop saves the next node and then detaches by address;
  with an address attached twice, the entry freed is the first with it, which
  is the loop's own or one already passed.
* `NoSilentGap`: a failed send reopens the socket or removes the entry, so a
  monitor that goes on receiving has missed nothing but what the queue dropped
  (for events of the highest level; a change of level hides others by request).
* `OthersUntouched` holds through send errors, restarts and reconnections. Its
  three exceptions are needed: the counterexamples without them are the
  findings below and the late reply read as an id.
* `SnapshotOfCall`, `ListMeansAccepted`: the list may be of an earlier scan, but
  not of an earlier call, although nothing in the code ties the two requests to
  each other. Both need that no request of the connection was given up on; a new
  connection is enough to restore them.
* `PointersLive`, `AttemptAsRequested`: the addresses of the table are used
  again, so a pointer that was missed would not only dangle but in time name
  another access point.
* `ResultsAreSeen`, `TableBounded`: an entry that could not be listed is in the
  table and not in the results, the only way in which the two differ; a table
  that is longer than its limit, because the limit was lowered, does not grow.
* `NoStall`, `WorksServed`: nothing polls the queue; every change that lets a
  work run must register the timeout, on drivers of both kinds.
* `HeapOrder`, `PopsLeast`: in spite of the finding below the damage of a
  remove is confined to the case `misplaced` describes.

Findings (details with quotations in `PROJECT.json`):

1. after a timeout `wpa_ctrl_request` returns the reply to an earlier command
   (run `WpaCtrlReply`);
2. `connect_wifi` takes FAIL in answer to ADD_NETWORK for network 0, configures
   it and may return 0 (run `WifiOperFail`);
3. an open network (flag 2) is always given up on;
4. for WPA the password is formatted where the network id belongs;
5. for WEP the password, a single `char`, is printed with `%s`: the key that is set
   is not the caller's;
6. `bss_max_count`, "Maximum number of BSS entries to keep in memory", is exceeded
   once it was lowered at run time, as an add evicts one entry at a time;
7. `smartlist_pqueue_remove` can leave an item below a greater one (run
   `PqueueRemove`);
8. on a radio without parallel operations a connection that is put at the head of
   the queue starts beside a work that is running (run `RadioWorkExclusive`, in
   whose trace that is an external work of the other interface; it may as well be
   a scan);
9. wake-ups of the radio queue are lost: `ext_work_in_progress` outlives its
   work, and scan results on a disabled interface do not look at the queue;
10. a scan work whose results cannot be fetched is not ended when the scan was for
    SCAN TYPE=ONLY or in AP mode;
11. the eviction of entries of no configured network does not spare the current
    BSS;
12. `wpa_bss_flush_by_age` stops at the first young entry of a list that is not in
    the order of age;
13. a late OK or FAIL-BUSY read as scan results gives an empty list instead of
    NULL.

Those without a run are visible in the models as the exceptions their properties
make: 4 in the mishap "psk" of `WifiOper`, 9 and 10 in `lost`, 11 in `dangling`, 13 in
the condition on `abandoned`. Number 3 is what `WifiOper` does for flag 2: the
call always ends in its clean-up. Number 5 is why a network of `WifiOper` has "a
WEP key" and no more; number 10 is in `WifiScan` too, whose SCAN is then answered
FAIL-BUSY for good. Number 6 is why `TableBounded` speaks of growth. Number 12 was found in reading; the model has no time. Also seen: `wpa_ctrl.h` says a request blocks "for up to two seconds", the
code waits ten.

## 4. Fairness

* `WpaCtrl`, `WifiOper`, `WifiScan`: weak fairness of the steps the calling
  thread takes inside `wpa_ctrl_request` and the operation that calls it: it keeps running, `send` retries
  for at most five seconds, `select` has a time limit. Nothing is assumed of the
  daemon, which may stop for ever. `RecvError` and the crashes are not forced.
* Events: every event restarts the ten seconds, so `CallsReturn` needs the
  events to come to an end; `MaxEvents` is that assumption.
* `CtrlMonitors`: weak fairness of the daemon's own handlers (its event loop
  keeps running and its timers fire) and of each monitor's reading. A monitor
  that stops reading can hold the queue back for ever. Requests are bounded:
  a client that keeps asking without reading could keep the buffer half full.
* `RadioWork`: weak fairness of `radio_start_next_work` (a registered timeout
  fires), of the end of every started work (SME and GAS have timeouts, external
  works have `wpas_ctrl_radio_work_timeout`, a driver ends its scans) and of the
  end of other programs' scans. Nothing forces a start to succeed.
* `BssTable` and `Pqueue` have no liveness property and no fairness.

## 5. Proofs

Every invariant and every action property of the passing runs, and the
refinement, is proved for all values of the constants; the bounds of the runs
are constants too, so the theorems hold for any number of requests, events,
calls, faults and restarts. The assumptions are the named ASSUMEs of the
modules, which TLC evaluates in the runs.

`WpaCtrlProofs`, for every set of commands and texts and every bound, from
`TxtAssumption`, `BoundAssumption` and `CmdAssumption`:

* `TypeCorrect`: `TypeOK`;
* `RepliesMatch`: `ReplyMatches`;
* `AnswersInOrder`: `AnswersAdvance`;
* `LagBounded`: `LagIsBounded`;
* `AttachRegisters`: `AttachedIsRegistered`;
* `ConnectionIsFifo`: `ImplementsFifo`.

`ReplyMatches` is not inductive: a reply is matched by what was in the sockets
before. The inductive invariant `IInv` adds that the requests under way are in
increasing order, in `rxC` and in `rxD` and across the two, newer than `base`
and than `answered` and no newer than the request being made (`Ordered`,
`Numbered`); that those of this connection are owed, that is, the one being
waited for or no older than one that was abandoned (`AllOwed`); and that no
request comes from an address not yet used. A call that finds an answer older
than its own request therefore has an abandoned request at or before it.
`LagIsBounded` is preserved given `IInv`: a step adds to the requests under way
only the one that is now waited for, a call that returns a reply takes one away,
and a call that gives up adds its own request to the abandoned ones, where by
`IInv` it is new.
For `AttachedIsRegistered` the invariant `AInv` says the same of an OK that is
still in the client's socket (`Registered`), that the request the daemon holds
under the number of the call is that call's (`SameRequest`), and that sockets of
the daemon are never reopened under an old number (`Sockets`). For the refinement, `IInv` makes the head of
the client's socket the smallest number under way, so that each action maps to the step of
`FifoRpc` of the same meaning or to a stutter.

`CtrlMonitorsProofs`, from `LevelAssumption` and `SizeAssumption`:

* `TypeCorrect`: `TypeOK`;
* `LoopIsSafe`: `LoopNodeIsLive`, inductive given the types (`NextNodeKept`):
  the entry detached for the loop's position is at that position or before it,
  so the next one stays. The first match exists because a
  non-empty set of positions has a least element (`WFMin` of
  WellFoundedInduction);
* `QueueIsBounded`: `QueueBounded`, from `Counted`: until the count wraps,
  `throttle_count` is the number of messages throttled since the queue was
  last passed by, and the queue is no longer than it and shorter than `Limit`;
* `PendingIsTimed`: `PendingHasTimer`, inductive as it stands;
* `EventsAreInOrder`: `EventsInOrder`, from `InOrder`: the queue is increasing,
  its elements are events that have happened, and what was sent to any monitor
  is no newer than the event in the loop and older than all in the queue;
* `GapsAreDropped`: `NoSilentGap`, from `GInv`. New entries go to the front of
  the list, so node numbers descend along it (`Descends`) and "the loop has yet
  to come to this monitor" is a comparison of two nodes. An event of the highest
  level that such a monitor was not sent is then before it in the loop, held
  back or dropped (`Accounted`); everything after an event that is held back is
  held back or dropped too (`HeldComplete`); and a send that fails for a
  connected monitor changes the socket, which ends the claim about it.

`PqueueProofs`, from `KeyAssumption` (the keys are comparable numbers):

* `TypeCorrect`: `TypeOK`;
* `PositionsAreStored`: `StoredPositions`, from `Stored`, which adds the other
  direction: the position an item stores holds that item;
* `HeapIsOrdered`: `HeapOrder`, which says nothing of the states inside a loop.
  The inductive invariant does: the order may be broken between the loop's
  position and its parent in `pqueue_add`, or its children in `heapify`
  (`InOrder`), and the children of that position are no less than its parent
  (`Across`), so a swap cannot break the order elsewhere;
* `PopIsLeast`: `PopsLeast`. In an ordered heap the least position with a key
  less than the top's would have a parent with such a key (`TopIsLeast`, with
  `WFMin` in place of an induction).

`WifiOperProofs`, from `NetAssumption` and `OperAssumption` and those of
`WpaCtrl`. 0 is assumed to be an id because `atoi` of any text that is not one
gives 0:

* `OperTypeCorrect`: `OperTypeOK`;
* `UserNetworksKept`: `OthersUntouched`;
* `FailureLeavesNothing`: `NoResidue`;
* `SuccessConfigures`: `ConfiguredOnSuccess`.

The invariants of `WpaCtrl` are proved again for the actions `WifiOper` makes
of its actions; `OInv` adds that the place of `connect_wifi` and that of its
request agree (`Control`) and that a network not in the table has no settings
left (`Blank`). `PInv` follows one call: as long as no request was given up on, ADD_NETWORK did
not fail and no WPA password was set (`Safe`), the id it carries is of a network of its own
(`OwnNetwork`); if the daemon has not been reopened or stopped either (`Alive`), the network
has the settings of the steps passed, with a WEP key of any text (`Progress`); and without any mishap every
request that ended was answered (`Answered`), so that a call in its clean-up
leaves nothing (`Residue`).

`WifiScanProofs`, from `BssAssumption` and `ScanAssumption` and those of
`WpaCtrl`:

* `ScanTypeCorrect`: `ScanTypeOK`;
* `ListsAreAccepted`: `ListMeansAccepted`;
* `ListIsSnapshot`: `SnapshotOfCall`.

`SInv` goes through the call in phases: for SCAN, for SCAN_RESULTS and after the
return, on a connection on which nothing was given up on (`Clean`), it says what
the ghosts `accepted` and `snap` have to do with the text of the reply, in the
socket and once it was read (`ScanPhase`, `ResultsPhase`,
`ReturnPhase`). Without that condition a late reply of another phase is possible
and the claim is void, which is why finding 13 exists. `ScanTypeOK` is inductive as
it stands; that a set flag `scanning` means a started work and a busy driver is
part of it, and the converse is not true.

`BssTableProofs`, from `TableAssumption`: `TypeCorrect` (`TypeOK`),
`EntriesAreUnique` (`UniqueEntries`), `PointersAreLive` (`PointersLive`),
`ResultsSeen` (`ResultsAreSeen`), `TableIsBounded` (`TableBounded`) and
`AttemptsAreAsRequested` (`AttemptAsRequested`). The inductive invariant
`BInv` says that `bss` and `bss_id` have every entry once, and the results the
entries that were seen, once, and all of them without `short` (`Lists`); that no access point has two entries; that the connect work, unless
it was told of a removal, names an entry of its access point; and that the
current BSS is an entry. `TableBounded` is an action property: only `wpa_bss_add`
makes the table longer (`AddBounded`), and no state bound holds, because the limit
may be lowered. The lemmas on `ListOf` say what appending, removing
and replacing do to such a list, in terms of positions.

`RadioWorkProofs`, from `RadioAssumption`: `TypeCorrect` (`TypeOK`),
`ActiveCounted` (`ActiveCount`), `ParallelAllowed` (`ParallelWorks`) and
`QueueAwake` (`NoStall`). The four need each other: `radio_start_next_work`
compares one work that runs with the next, which is enough only if
`num_active_works` is right and at most `MAX_ACTIVE_WORKS` run (`RInv`). That
constant is 2 in `wpa_supplicant_i.h` and is assumed to be 1 or 2: with three,
the comparison with a single running work would no longer be enough.

What stays with TLC: the liveness properties `CallsReturn`, `ConnectReturns`,
`ScanReturns`, `QueueDrains` and `WorksServed`, which need fairness and ENABLED,
and the counterexamples of the runs that end in a violation.

## 6. Not modelled

* `wpa_supplicant_ctrl_iface_wait` (option `-W`, start-up only), the global
  control interface, the UDP and named-pipe transports, Android's sockets.
* The interactive and action modes of `wpa_cli` that `libwpa_cli_wrapper.c`
  still contains: no function of its header reaches them.
* Debug messages that handlers produce while they run come back as events in
  the code; in `CtrlMonitors` they are events after the handler.
* Splitting of command lines and the lookup by prefix in the table of commands
  (`parse_line`, `wpa_request`): the operations of `wpa_cli_oper.c` use full
  names and few words.
* A session that mixes `connect_wifi` and `get_wifi_scan_results`: both leave only
  the state of the connection behind, which each meets in its own module.
* Scheduled scans and the parameters of SCAN; in `WifiScan`, other interfaces on
  the same radio, whose results would be handed on; the WPS and P2P exceptions of
  the BSS table, SAE (not in the default build), changes of the configured
  networks and of `bss_expiration_scan_count` while the table is in use, the contents of an entry, drivers with their own SME; the
  association between authentication and completion.
* The list operations of smartlist, the bit array and `compat`: straight-line code
  over arrays and characters without state of its own.
* Sizes of datagrams, time.
* The rest of wpa_supplicant: choice of networks, drivers, crypto, EAP, WPS, P2P,
  D-Bus, the GUI. It is some 400 000 lines of an unmodified release of another
  project; the parts the library's commands reach are the ones modelled.

## 7. Plan

1. The global control interface beside the per-interface one: two queues, one
   timer; other clients that add and remove networks during `connect_wifi`.
2. SELECT_NETWORK and SAVE_CONFIG, and the choice of a network from the results of
   a scan, between `BssTable` and `RadioWork`.
3. Both with their theorems, in the modules of proofs above.
