----------------------------- MODULE CtrlMonitors ----------------------------
(***************************************************************************)
(* The event side of the daemon's control socket (ctrl_iface_unix.c and     *)
(* ctrl_iface_common.c): the list of attached monitors, the loop that sends *)
(* an event to each of them, the queue that holds events back while the     *)
(* socket's send buffer is more than half full, its limit and its timer,    *)
(* and the reopening of the socket when a send would block.                 *)
(*                                                                         *)
(* Requests are handled in one step here; WpaCtrl has their delivery.  The  *)
(* daemon runs one handler at a time, but the monitors run between any two  *)
(* of its sends.  Debug lines the handlers print through wpa_dbg come back  *)
(* as events: here they are events after the handler.                       *)
(***************************************************************************)
EXTENDS Naturals, Sequences, FiniteSets

CONSTANTS
    Monitors,   \* the client processes
    Levels,     \* message priorities, with
    INFO,       \* the level a monitor starts with,
    TOP,        \* and the highest
    MaxErrors,  \* failed sends an entry survives, 10 in the code
    Limit,      \* throttled messages before the oldest is dropped, 2000
    CountMod,   \* unsigned int: 2^32
    RxLen,      \* datagrams a monitor's socket buffers
    SndBuf,     \* datagrams the daemon's socket may have under way
    MaxEvents,  \* bound: events in a behaviour
    MaxSock,    \* bound: sockets the daemon opens
    MaxOpen,    \* bound: connections each monitor opens
    MaxReq      \* bound: requests of the monitors

ASSUME LevelAssumption ==
    /\ Levels \subseteq Nat /\ INFO \in Levels /\ TOP \in Levels
    /\ \A l \in Levels : l <= TOP
ASSUME SizeAssumption ==
    /\ MaxErrors \in Nat /\ Limit \in Nat /\ CountMod \in Nat
    /\ 1 < Limit /\ Limit < CountMod
    /\ RxLen \in Nat /\ SndBuf \in Nat
    /\ MaxEvents \in Nat /\ MaxSock \in Nat /\ MaxOpen \in Nat
    /\ MaxReq \in Nat

VARIABLES
    \* struct ctrl_iface_priv
    sock,           \* 0: closed (-1 in the code); sockets are numbered
    ctrl_dst,       \* the entries, in list order
    msg_queue,      \* numbers of the events held back
    throttle_count,
    timer,          \* wpas_ctrl_msg_queue_timeout is registered
    up,             \* the interface is initialised
    \* the handler that runs
    pc,             \* "idle", "drain" (send_pending_iface), "send" (the loop)
    back,           \* where the loop returns to
    msg,            \* the event being sent
    dst,            \* the node the loop is at; 0 at its end
    \* the monitors
    conn,           \* the daemon socket each is connected to, 0: closed
    gen,            \* connections it has opened: its address
    rx,             \* the unread datagrams in its socket
    \* ghosts
    hist,           \* the levels of all events so far
    lost,           \* the events dropped from the queue or never queued
    got,            \* the last event sent to each monitor's address
    throttled,      \* messages throttled since throttle_count was reset
    nsock, nreq     \* sockets opened, requests handled

qvars == <<msg_queue, throttle_count, timer, throttled>>
hvars == <<pc, back, msg, dst>>
mvars == <<conn, gen, rx, got>>
vars  == <<sock, nsock, up, ctrl_dst, nreq, qvars, hvars, mvars, hist, lost>>

Entry == [node : Nat, m : Monitors, gen : Nat, errors : Nat, level : Nat]

Init ==
    /\ sock = 1 /\ nsock = 1 /\ up = TRUE
    /\ ctrl_dst = <<>> /\ nreq = 0
    /\ msg_queue = <<>> /\ throttle_count = 0 /\ timer = FALSE
    /\ throttled = 0
    /\ pc = "idle" /\ back = "idle" /\ msg = 0 /\ dst = 0
    /\ conn = [m \in Monitors |-> 0] /\ gen = [m \in Monitors |-> 0]
    /\ rx = [m \in Monitors |-> 0] /\ got = [m \in Monitors |-> 0]
    /\ hist = <<>> /\ lost = {}

-----------------------------------------------------------------------------
(* The sockets. *)

\* The datagrams sent from the present socket that nobody has read (TIOCOUTQ).
OutQ == Cardinality({x \in Monitors \X (1 .. RxLen) :
                        conn[x[1]] = sock /\ x[2] <= rx[x[1]]})

\* wpas_ctrl_iface_throttle: FALSE when there is no socket.
Throttle == sock # 0 /\ OutQ > SndBuf \div 2

Full(m) == rx[m] >= RxLen \/ OutQ >= SndBuf

\* errno of a send to an entry's address, "ok" when it succeeds.  A closed
\* client has removed its path, a crashed one has not; the socket of a live
\* one accepts only what comes from the socket it is connected to.
SendResults(e) ==
    IF conn[e.m] = 0 \/ gen[e.m] # e.gen THEN {"ENOENT", "ECONNREFUSED"}
    ELSE IF conn[e.m] # sock THEN {"EPERM"}
    ELSE IF Full(e.m) THEN {"EAGAIN"}
    ELSE {"ok"}

\* mutant: the socket stays open when a send would block
ReinitNever == UNCHANGED <<sock, nsock>>

\* wpas_ctrl_iface_reinit: what the clients sent to the old socket, and their
\* connections to it, are gone.  If no socket can be opened none is tried
\* again.
Reinit ==
    \/ nsock < MaxSock /\ nsock' = nsock + 1 /\ sock' = nsock + 1
    \/ nsock' = nsock /\ sock' = 0

-----------------------------------------------------------------------------
(* The list of monitors. *)

RemoveAt(s, i) == [k \in 1 .. Len(s) - 1 |-> IF k < i THEN s[k] ELSE s[k + 1]]

\* The positions of the entries with an address, and the first and the last
\* of a set of positions.
Matches(m, g) == {i \in DOMAIN ctrl_dst : ctrl_dst[i].m = m
                                          /\ ctrl_dst[i].gen = g}
FirstOf(I) == CHOOSE i \in I : \A j \in I : i <= j
LastOf(I)  == CHOOSE i \in I : \A j \in I : j <= i

\* mutant: the last entry with the address is removed
DetachLast(m, g) ==
    IF Matches(m, g) = {} THEN ctrl_dst
    ELSE RemoveAt(ctrl_dst, LastOf(Matches(m, g)))

\* ctrl_iface_detach: the first entry with the address is removed.
Detached(m, g) ==
    IF Matches(m, g) = {} THEN ctrl_dst
    ELSE RemoveAt(ctrl_dst, FirstOf(Matches(m, g)))

\* mutant: the entry's errors are not initialised
AttachedRaw(m) ==
    <<[node |-> nreq + 1, m |-> m, gen |-> gen[m], level |-> INFO]>> \o ctrl_dst

\* ctrl_iface_attach: a new entry at the head, even if there is one already.
Attached(m) ==
    <<[node |-> nreq + 1, m |-> m, gen |-> gen[m], errors |-> 0,
       level |-> INFO]>> \o ctrl_dst

\* ctrl_iface_level: the first entry with the address.
Leveled(m, l) ==
    IF Matches(m, gen[m]) = {} THEN ctrl_dst
    ELSE [ctrl_dst EXCEPT ![FirstOf(Matches(m, gen[m]))].level = l]

-----------------------------------------------------------------------------
(* wpa_supplicant_ctrl_iface_receive *)

\* The reply is sent, or it would block and the socket is reopened.
Answer(m) ==
    \/ /\ ~Full(m)
       /\ rx' = [rx EXCEPT ![m] = @ + 1]
       /\ UNCHANGED <<sock, nsock>>
    \/ /\ Full(m)
       /\ Reinit
       /\ UNCHANGED rx

Request(m) ==
    /\ pc = "idle" /\ sock # 0 /\ conn[m] = sock
    /\ nreq < MaxReq
    /\ nreq' = nreq + 1

\* No entry is made when memory is short, and one whose reply cannot be sent
\* is removed again.  got starts again with a monitor's first entry.
Attach(m) ==
    /\ Request(m)
    /\ Answer(m)
    /\ \/ ~Full(m) /\ ctrl_dst' = Attached(m)
       \/ ctrl_dst' = ctrl_dst
    /\ got' = IF Matches(m, gen[m]) = {} THEN [got EXCEPT ![m] = 0] ELSE got
    /\ UNCHANGED <<up, qvars, hvars, conn, gen, hist, lost>>

Detach(m) ==
    /\ Request(m)
    /\ Answer(m)
    /\ ctrl_dst' = Detached(m, gen[m])
    /\ UNCHANGED <<up, qvars, hvars, conn, gen, got, hist, lost>>

Level(m, l) ==
    /\ Request(m)
    /\ Answer(m)
    /\ ctrl_dst' = Leveled(m, l)
    /\ UNCHANGED <<up, qvars, hvars, conn, gen, got, hist, lost>>

-----------------------------------------------------------------------------
(* Events: wpa_supplicant_ctrl_iface_msg_cb and what it calls *)

\* wpa_supplicant_ctrl_iface_send, up to its loop.
StartSend(i, b) ==
    IF sock = 0 \/ ctrl_dst = <<>>
    THEN pc' = b /\ UNCHANGED <<back, msg, dst>>
    ELSE pc' = "send" /\ back' = b /\ msg' = i /\ dst' = ctrl_dst[1].node

\* mutant: only the send buffer decides whether an event is held back
HoldBackThrottled == Throttle

\* An event is held back behind those already held back.
HoldBack == msg_queue # <<>> \/ Throttle

\* mutant: the limit is never applied
QueueUnlimited(c) == msg_queue

\* wpas_ctrl_msg_queue_limit: from the Limit-th throttled message on, the
\* oldest one pending makes room.
QueueLimited(c) ==
    IF c >= Limit /\ msg_queue # <<>> THEN Tail(msg_queue) ELSE msg_queue

\* mutant: the timer is not registered for a message that is queued
TimerKept == timer

\* wpas_ctrl_msg_queue registers its timeout anew.
TimerSet == TRUE

EmitHeld(i) ==
    LET c == (throttle_count + 1) % CountMod
        q == QueueLimited(c)
        dropped == {msg_queue[k] : k \in DOMAIN msg_queue}
                       \ {q[k] : k \in DOMAIN q} IN
    /\ HoldBack
    /\ throttle_count' = c
    /\ throttled' = throttled + 1
    /\ \/ /\ msg_queue' = Append(q, i)
          /\ timer' = TimerSet
          /\ lost' = lost \cup dropped
       \/ /\ msg_queue' = q            \* no memory for the message
          /\ timer' = timer
          /\ lost' = lost \cup dropped \cup {i}
    /\ UNCHANGED hvars

EmitNow(i) ==
    /\ ~HoldBack
    /\ throttle_count' = 0
    /\ throttled' = 0
    /\ StartSend(i, "idle")
    /\ UNCHANGED <<msg_queue, timer, lost>>

Emit(l) ==
    /\ pc = "idle" /\ up
    /\ Len(hist) < MaxEvents
    /\ hist' = Append(hist, l)
    /\ EmitHeld(Len(hist) + 1) \/ EmitNow(Len(hist) + 1)
    /\ UNCHANGED <<sock, nsock, up, ctrl_dst, nreq, mvars>>

\* wpas_ctrl_msg_queue_timeout.
QueueTimeout ==
    /\ pc = "idle" /\ timer
    /\ timer' = FALSE
    /\ pc' = "drain"
    /\ UNCHANGED <<sock, nsock, up, ctrl_dst, nreq, msg_queue,
                   throttle_count, throttled, back, msg, dst, mvars, hist,
                   lost>>

\* One turn of the loop of wpas_ctrl_msg_send_pending_iface.
DrainOne ==
    /\ pc = "drain"
    /\ msg_queue # <<>> /\ ~Throttle
    /\ msg_queue' = Tail(msg_queue)
    /\ StartSend(Head(msg_queue), "drain")
    /\ UNCHANGED <<sock, nsock, up, ctrl_dst, nreq, throttle_count, timer,
                   throttled, mvars, hist, lost>>

\* mutant: the timeout is not registered again
TimerNotRenewed == timer

\* What could not be sent yet waits for another timeout.
TimerAfterDrain == timer \/ (msg_queue # <<>> /\ sock # 0)

DrainDone ==
    /\ pc = "drain"
    /\ msg_queue = <<>> \/ Throttle
    /\ timer' = TimerAfterDrain
    /\ pc' = "idle"
    /\ UNCHANGED <<sock, nsock, up, ctrl_dst, nreq, msg_queue,
                   throttle_count, throttled, back, msg, dst, mvars, hist,
                   lost>>

\* dl_list_for_each_safe: the node after the entry at position i, read before
\* the entry is worked on.
NodeAfter(i) == IF i < Len(ctrl_dst) THEN ctrl_dst[i + 1].node ELSE 0

\* The loop goes on at node n, or ends.
Continue(n) ==
    /\ dst' = n
    /\ IF n = 0 THEN pc' = back /\ back' = "idle" /\ msg' = 0
               ELSE UNCHANGED <<pc, back, msg>>

\* The loop of wpa_supplicant_ctrl_iface_send, one entry.
SendSkip(i) ==
    /\ hist[msg] < ctrl_dst[i].level
    /\ Continue(NodeAfter(i))
    /\ UNCHANGED <<sock, nsock, ctrl_dst, rx, got>>

SendOk(i) ==
    /\ hist[msg] >= ctrl_dst[i].level
    /\ "ok" \in SendResults(ctrl_dst[i])
    /\ ctrl_dst' = [ctrl_dst EXCEPT ![i].errors = 0]
    /\ rx' = [rx EXCEPT ![ctrl_dst[i].m] = @ + 1]
    /\ got' = [got EXCEPT ![ctrl_dst[i].m] = msg]
    /\ Continue(NodeAfter(i))
    /\ UNCHANGED <<sock, nsock>>

\* The list after a failed send: the entry counts the error, or an entry
\* with its address is detached.
AfterError(i, errno) ==
    IF ctrl_dst[i].errors + 1 > MaxErrors \/ errno \in {"ENOENT", "EPERM"}
    THEN Detached(ctrl_dst[i].m, ctrl_dst[i].gen)
    ELSE [ctrl_dst EXCEPT ![i].errors = @ + 1]

SendError(i) ==
    /\ hist[msg] >= ctrl_dst[i].level
    /\ \E errno \in SendResults(ctrl_dst[i]) \ {"ok"} :
          /\ ctrl_dst' = AfterError(i, errno)
          /\ IF errno = "EAGAIN"
             THEN /\ Reinit
                  /\ Continue(IF sock' = 0 THEN 0 ELSE NodeAfter(i))
             ELSE /\ Continue(NodeAfter(i))
                  /\ UNCHANGED <<sock, nsock>>
    /\ UNCHANGED <<rx, got>>

Send ==
    /\ pc = "send"
    /\ \E i \in DOMAIN ctrl_dst :
          /\ ctrl_dst[i].node = dst
          /\ SendSkip(i) \/ SendOk(i) \/ SendError(i)
    /\ UNCHANGED <<up, nreq, qvars, conn, gen, hist, lost>>

-----------------------------------------------------------------------------
\* wpa_supplicant_ctrl_iface_deinit.
Deinit ==
    /\ pc = "idle" /\ up
    /\ up' = FALSE
    /\ sock' = 0
    /\ ctrl_dst' = <<>>
    /\ msg_queue' = <<>> /\ timer' = FALSE
    /\ throttle_count' = 0 /\ throttled' = 0
    /\ UNCHANGED <<nsock, nreq, hvars, mvars, hist, lost>>

\* wpa_supplicant_ctrl_iface_init, in this daemon or the next.
Start ==
    /\ ~up
    /\ nsock < MaxSock
    /\ up' = TRUE
    /\ sock' = nsock + 1 /\ nsock' = nsock + 1
    /\ UNCHANGED <<ctrl_dst, nreq, qvars, hvars, mvars, hist, lost>>

-----------------------------------------------------------------------------
(* The monitors (wpa_ctrl_open, wpa_ctrl_close, wpa_ctrl_recv) *)

Open(m) ==
    /\ conn[m] = 0 /\ sock # 0
    /\ gen[m] < MaxOpen
    /\ gen' = [gen EXCEPT ![m] = @ + 1]
    /\ conn' = [conn EXCEPT ![m] = sock]
    /\ rx' = [rx EXCEPT ![m] = 0]
    /\ got' = [got EXCEPT ![m] = 0]
    /\ UNCHANGED <<sock, nsock, up, ctrl_dst, nreq, qvars, hvars, hist, lost>>

Close(m) ==
    /\ conn[m] # 0
    /\ conn' = [conn EXCEPT ![m] = 0]
    /\ rx' = [rx EXCEPT ![m] = 0]
    /\ got' = [got EXCEPT ![m] = 0]
    /\ UNCHANGED <<sock, nsock, up, ctrl_dst, nreq, qvars, hvars, gen, hist,
                   lost>>

Read(m) ==
    /\ rx[m] > 0
    /\ rx' = [rx EXCEPT ![m] = @ - 1]
    /\ UNCHANGED <<sock, nsock, up, ctrl_dst, nreq, qvars, hvars, conn, gen,
                   got, hist, lost>>

-----------------------------------------------------------------------------
Handler == QueueTimeout \/ DrainOne \/ DrainDone \/ Send

Next ==
    \/ Handler
    \/ \E l \in Levels : Emit(l)
    \/ Deinit \/ Start
    \/ \E m \in Monitors :
          \/ Attach(m) \/ Detach(m)
          \/ \E l \in Levels : Level(m, l)
          \/ Open(m) \/ Close(m) \/ Read(m)

\* The event loop keeps running, and monitors keep reading.
Fairness == WF_vars(Handler) /\ \A m \in Monitors : WF_vars(Read(m))

Spec == Init /\ [][Next]_vars /\ Fairness

-----------------------------------------------------------------------------
(* Properties *)

TypeOK ==
    /\ sock \in Nat /\ nsock \in Nat /\ up \in BOOLEAN
    /\ ctrl_dst \in Seq(Entry) /\ nreq \in Nat
    /\ msg_queue \in Seq(Nat) /\ throttle_count \in Nat /\ timer \in BOOLEAN
    /\ throttled \in Nat
    /\ pc \in {"idle", "drain", "send"} /\ back \in {"idle", "drain"}
    /\ msg \in Nat /\ dst \in Nat
    /\ conn \in [Monitors -> Nat] /\ gen \in [Monitors -> Nat]
    /\ rx \in [Monitors -> Nat] /\ got \in [Monitors -> Nat]
    /\ hist \in Seq(Levels) /\ lost \subseteq Nat

\* The node the sending loop goes to next has not been freed, although the
\* loop detaches entries by address and an address may be listed twice.
LoopNodeIsLive ==
    pc = "send" => \E i \in DOMAIN ctrl_dst : ctrl_dst[i].node = dst

\* Whenever the daemon goes back to its event loop with messages held back,
\* the timeout that will send them is registered.
PendingHasTimer ==
    msg_queue # <<>> => timer \/ pc = "drain" \/ (pc = "send" /\ back = "drain")

\* Fewer than Limit messages are ever pending, as long as the 32-bit count of
\* throttled messages has not wrapped around.
QueueBounded == throttled < CountMod => Len(msg_queue) < Limit

\* A monitor is sent events in the order they happened: one that was held
\* back is never overtaken.  An event may come twice to a monitor that is
\* attached twice, but not after a later one.
EventsInOrder ==
    [][\A m \in Monitors : got'[m] # got[m] =>
           got'[m] > got[m] \/ got'[m] = 0]_vars

\* A monitor that gets an event has got every event of the highest level
\* since the first one it got, except those the queue dropped: a failed send
\* cuts the connection, it does not leave a silent gap.
NoSilentGap ==
    [][\A m \in Monitors : got[m] # 0 /\ got'[m] > got[m] =>
           \A i \in got[m] + 1 .. got'[m] - 1 : hist[i] = TOP => i \in lost]_vars

\* Messages held back are sent, dropped or discarded in the end, if monitors
\* keep reading.
QueueDrains == msg_queue # <<>> ~> msg_queue = <<>>
=============================================================================
