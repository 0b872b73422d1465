------------------------------ MODULE BssTable -------------------------------
(***************************************************************************)
(* The daemon's table of seen access points (bss.c) and the pointers that   *)
(* other parts keep into it: the results of the last scan, the current BSS  *)
(* and the BSS of a pending connect work.  Entries are moved by realloc and *)
(* freed by eviction, expiry and flushes; addresses are used again.         *)
(* An access point stands for a pair of BSSID and SSID.  The handlers of    *)
(* the event loop run one at a time; a round of scan results takes one step *)
(* per result, during which nothing else runs.  Drivers are of the kind     *)
(* with an SME in the daemon (nl80211), which is built without SAE; the     *)
(* configured networks and bss_expiration_scan_count do not change.         *)
(***************************************************************************)
EXTENDS Integers, Sequences, FiniteSets, SequencesExt

CONSTANTS
    Aps, Bssid, Ssid,    \* access points, with their BSSID and SSID
    KnownSsids,          \* the SSIDs of the configured networks
    AnySsid,             \* the network without an SSID ...
    Wildcard,            \* ... which is configured or not
    MaxCount,            \* bss_max_count as configured ...
    MaxCounts,           \* ... and the values it is set to later
    Expire,              \* bss_expiration_scan_count
    Slots,               \* the size that last_scan_res gets first
    Addr,                \* addresses for entries
    NULL

Bssids == {Bssid[a] : a \in Aps}
Networks == KnownSsids \cup (IF Wildcard THEN {AnySsid} ELSE {})

\* struct wpa_bss: the access point, and whether and how long ago it was seen.
Entry == [ap : Aps, seen : BOOLEAN, miss : 0 .. Expire - 1]

\* struct wpa_connect_work of a "sme-connect" work; ap is ghost.
Work == [bss : Addr \cup {NULL}, removed : BOOLEAN, started : BOOLEAN,
         net : Networks, ap : Aps]

ASSUME TableAssumption ==
    /\ Ssid \in [Aps -> STRING] /\ KnownSsids \subseteq STRING
    /\ Wildcard \in BOOLEAN
    /\ MaxCount \in Nat \ {0} /\ MaxCounts \subseteq Nat
    /\ Expire \in Nat \ {0} /\ Slots \in Nat \ {0}
    /\ Cardinality(Addr) > Cardinality(Aps)
    /\ NULL \notin Addr /\ NULL \notin Entry /\ NULL \notin Work

VARIABLES
    ent,           \* the entries, by address; NULL where there is none
    bss,           \* wpa_s->bss: addresses, the least recently updated first
    bss_id,        \* wpa_s->bss_id: addresses in the order of the ids
    last_scan_res, \* addresses, in the order of the results
    res_size,      \* last_scan_res_size
    short,         \* ghost: there was no memory to list a result of the round
    max_count,     \* conf->bss_max_count
    current_bss, current_ssid,
    bssid, pending_bssid,
    cwork,         \* the connect work of the radio queue, or NULL
    pc,            \* "idle", or in a round: "scan", "assoc"
    dangling       \* ghost: current_bss was freed; the model stops there

table == <<ent, bss, bss_id, last_scan_res, res_size, short>>
station == <<current_ssid, bssid, pending_bssid>>
vars == <<table, max_count, current_bss, station, cwork, pc, dangling>>

Live == {p \in Addr : ent[p] # NULL}
Free == Addr \ Live

Init ==
    /\ ent = [p \in Addr |-> NULL]
    /\ bss = <<>> /\ bss_id = <<>>
    /\ last_scan_res = <<>> /\ res_size = 0 /\ short = FALSE
    /\ max_count = MaxCount
    /\ current_bss = NULL /\ current_ssid = NULL
    /\ bssid = NULL /\ pending_bssid = NULL
    /\ cwork = NULL /\ pc = "idle" /\ dangling = FALSE

-----------------------------------------------------------------------------
(* Positions in a list *)

\* The i-th position of K.
Nth(K, i) == CHOOSE k \in K : Cardinality({j \in K : j <= k}) = i

\* The elements of s at the positions K, in their order.
At(s, K) == [i \in 1 .. Cardinality(K) |-> s[Nth(K, i)]]

-----------------------------------------------------------------------------
(* Looking up and removing entries *)

\* wpa_bss_get: the entry of an access point.
Entries(a) == {p \in Live : ent[p].ap = a}

\* wpa_bss_get_bssid: the most recently updated entry with BSSID b.
LatestWith(b) ==
    LET K == {k \in DOMAIN bss : Bssid[ent[bss[k]].ap] = b}
    IN IF K = {} THEN NULL ELSE bss[Max(K)]

\* wpa_supplicant_get_new_bss
NewBss(b) ==
    LET exact == {p \in Live : /\ Bssid[ent[p].ap] = b
                               /\ Ssid[ent[p].ap] = current_ssid}
    IN IF exact # {} THEN CHOOSE p \in exact : TRUE ELSE LatestWith(b)

SsidAt(p) == Ssid[ent[p].ap]

\* wpa_bss_known
KnownBss(p) == SsidAt(p) \in KnownSsids

\* wpa_bss_in_use
InUse(p) ==
    \/ p = current_bss
    \/ /\ current_bss # NULL => SsidAt(p) = SsidAt(current_bss)
       /\ Bssid[ent[p].ap] \in {bssid, pending_bssid}

\* mutant: the pending connect work keeps its pointer
CworkKept(S) == cwork

\* wpa_bss_update_pending_connect(old, NULL) for the entries in S.
CworkWithout(S) ==
    IF cwork # NULL /\ cwork.bss \in S
    THEN [cwork EXCEPT !.bss = NULL, !.removed = TRUE]
    ELSE cwork

\* The first occurrence of each element of S taken out of the sequence s.
WithoutFirst(s, S) ==
    At(s, {k \in DOMAIN s : s[k] \notin S \/ \E j \in 1 .. k - 1 : s[j] = s[k]})

Without(s, S) == At(s, {k \in DOMAIN s : s[k] \notin S})

\* wpa_bss_remove for the entries in S, in any order.
RemoveAll(S) ==
    /\ ent' = [p \in Addr |-> IF p \in S THEN NULL ELSE ent[p]]
    /\ bss' = Without(bss, S)
    /\ bss_id' = Without(bss_id, S)
    /\ last_scan_res' = WithoutFirst(last_scan_res, S)
    /\ cwork' = CworkWithout(S)
    /\ UNCHANGED <<res_size, short>>

-----------------------------------------------------------------------------
(* A round of scan results: wpa_supplicant_get_scan_results *)

\* wpa_bss_update_start
Begin ==
    /\ ent' = [p \in Addr |-> IF ent[p] = NULL THEN NULL
                              ELSE [ent[p] EXCEPT !.seen = FALSE]]
    /\ last_scan_res' = <<>> /\ short' = FALSE
    /\ UNCHANGED <<bss, bss_id, res_size>>

\* A round for a scan event or a scan of another interface.
UpdateStart ==
    /\ pc = "idle" /\ ~dangling
    /\ Begin
    /\ pc' = "scan"
    /\ UNCHANGED <<max_count, current_bss, station, cwork, dangling>>

\* mutant: the old address stays
MovedNot(s, p, q) == s

\* The address q in place of p in a sequence.
Moved(s, p, q) == [k \in DOMAIN s |-> IF s[k] = p THEN q ELSE s[k]]

\* The entry q at the end of the list s of results.  Where the array is full
\* it is grown, or there is no memory and the entry is left out.
List(s, q) ==
    \/ /\ Len(s) < res_size
       /\ last_scan_res' = Append(s, q)
       /\ UNCHANGED <<res_size, short>>
    \/ /\ Len(s) >= res_size
       /\ last_scan_res' = Append(s, q)
       /\ res_size' = IF res_size = 0 THEN Slots ELSE 2 * res_size
       /\ UNCHANGED short
    \/ /\ Len(s) >= res_size
       /\ last_scan_res' = s
       /\ short' = TRUE
       /\ UNCHANGED res_size

\* mutant: an updated entry is listed again
ListTwice(s, q) == List(s, q)

\* The updated entry in the results, unless it is already there.
ListOnce(s, q) ==
    IF q \in Range(s) THEN last_scan_res' = s /\ UNCHANGED <<res_size, short>>
    ELSE List(s, q)

\* mutant: only the list is told of the new address
CurrentStays(p, q) == current_bss

\* current_bss after an entry has moved from p to q.
CurrentMoved(p, q) == IF current_bss = p THEN q ELSE current_bss

\* wpa_bss_update_scan_res for a known access point: wpa_bss_update.  With
\* more information elements than before the entry is reallocated, and stays
\* where it is (q = p, also when there is no memory) or moves.
Update(a) ==
    /\ pc # "idle"
    /\ \E p \in Entries(a) : \E q \in {p} \cup Free :
        /\ ent' = [ent EXCEPT ![p] = NULL,
                              ![q] = [ap |-> a, seen |-> TRUE, miss |-> 0]]
        /\ bss' = Append(Without(bss, {p}), q)
        /\ bss_id' = Moved(bss_id, p, q)
        /\ ListOnce(Moved(last_scan_res, p, q), q)
        /\ current_bss' = CurrentMoved(p, q)
        /\ cwork' = IF cwork # NULL /\ cwork.bss = p
                    THEN [cwork EXCEPT !.bss = q] ELSE cwork
    /\ UNCHANGED <<max_count, station, pc, dangling>>

\* wpa_bss_remove_oldest: the positions it takes the first of.
Evictable ==
    LET unknown == {k \in DOMAIN bss : ~KnownBss(bss[k])}
    IN IF unknown # {} THEN unknown
       ELSE {k \in DOMAIN bss : ~InUse(bss[k])}

\* mutant: one entry too many is kept
FullLate == Len(bss) > max_count

\* One entry more would be more than bss_max_count.
Full == Len(bss) + 1 > max_count

\* wpa_bss_update_scan_res for a new access point: wpa_bss_add.  Memory for
\* the entry is taken before another one is freed.
Add(a) ==
    /\ pc # "idle"
    /\ Entries(a) = {}
    /\ LET out == IF Full /\ Evictable # {} THEN {bss[Min(Evictable)]} ELSE {}
       IN \E q \in Free :
            /\ ent' = [p \in Addr |->
                         IF p = q THEN [ap |-> a, seen |-> TRUE, miss |-> 0]
                         ELSE IF p \in out THEN NULL ELSE ent[p]]
            /\ bss' = Append(Without(bss, out), q)
            /\ bss_id' = Append(Without(bss_id, out), q)
            /\ List(WithoutFirst(last_scan_res, out), q)
            /\ cwork' = CworkWithout(out)
            /\ dangling' = (current_bss \in out)
    /\ max_count' = IF Full /\ Evictable = {} THEN Len(bss) + 1
                    ELSE max_count
    /\ pc' = IF dangling' THEN "idle" ELSE pc
    /\ UNCHANGED <<current_bss, station>>

\* SET bss_max_count, and RECONFIGURE, which also ends the connection: the
\* table is left as it is.
SetMaxCount(n) ==
    /\ pc = "idle" /\ ~dangling
    /\ max_count' = n
    /\ UNCHANGED <<table, current_bss, station, cwork, pc, dangling>>

\* wpa_bss_update_end: no entry expires after an aborted scan or without a
\* new one.
UpdateEndOld ==
    /\ pc = "scan"
    /\ pc' = "idle"
    /\ UNCHANGED <<table, max_count, current_bss, station, cwork, dangling>>

\* mutant: one scan too late
ExpiredLate(miss) == miss > Expire

\* The entry was not seen in enough scans.
Expired(miss) == miss >= Expire

\* The entries that a scan for the access points S looks at.
Scanned(S) == {p \in Live : ent[p].ap \in S /\ ~InUse(p)}

\* wpa_bss_update_end after a new scan that covered the access points S.
UpdateEnd(S) ==
    LET missed(p) == ent[p].miss + (IF ent[p].seen THEN 0 ELSE 1)
        out == {p \in Scanned(S) : Expired(missed(p))}
    IN /\ pc = "scan"
       /\ pc' = "idle"
       /\ ent' = [p \in Addr |->
                    IF p \in out THEN NULL
                    ELSE IF p \in Scanned(S)
                         THEN [ent[p] EXCEPT !.miss = missed(p)]
                         ELSE ent[p]]
       /\ bss' = Without(bss, out)
       /\ bss_id' = Without(bss_id, out)
       /\ last_scan_res' = WithoutFirst(last_scan_res, out)
       /\ cwork' = CworkWithout(out)
       /\ UNCHANGED <<res_size, short, max_count, current_bss, station,
                      dangling>>

-----------------------------------------------------------------------------
(* Flushes *)

\* wpa_bss_flush_by_age removes entries in list order up to the first one
\* that is not old; wpa_bss_flush removes all.  Both keep those in use.
Flush(n) ==
    /\ pc = "idle" /\ ~dangling
    /\ RemoveAll({p \in Live : ~InUse(p) /\ \E k \in 1 .. n : p = bss[k]})
    /\ UNCHANGED <<max_count, current_bss, station, pc, dangling>>

-----------------------------------------------------------------------------
(* Connections *)

\* The connect work that sme_authenticate adds.
Request(p, net) ==
    [bss |-> p, removed |-> FALSE, started |-> FALSE, net |-> net,
     ap |-> ent[p].ap]

\* wpa_supplicant_associate for a result of the last scan, sme_authenticate:
\* nothing while a connect work has started; one that waits is replaced.
Connect(p, net) ==
    /\ pc = "idle" /\ ~dangling
    /\ p \in Range(last_scan_res)
    /\ net \in {AnySsid, SsidAt(p)}
    /\ cwork # NULL => ~cwork.started
    /\ cwork' = Request(p, net)
    /\ UNCHANGED <<table, max_count, current_bss, station, pc, dangling>>

\* sme_auth_start_cb: the BSS of the work is still there.
WorkValid == ~cwork.removed /\ cwork.bss \in Range(bss)

WorkPending == pc = "idle" /\ ~dangling /\ cwork # NULL /\ ~cwork.started

\* sme_auth_start_cb, sme_send_authentication: the driver authenticates, or
\* there are no cipher suites and the work ends, with current_bss set and
\* current_ssid as it was.
WorkStart ==
    /\ WorkPending
    /\ WorkValid
    /\ current_bss' = cwork.bss
    /\ bssid' = NULL
    /\ pending_bssid' = Bssid[ent[cwork.bss].ap]
    /\ \/ current_ssid' = cwork.net /\ cwork' = [cwork EXCEPT !.started = TRUE]
       \/ current_ssid' = current_ssid /\ cwork' = NULL
    /\ UNCHANGED <<table, max_count, pc, dangling>>

\* sme_auth_start_cb: the BSS is gone, or the network was disabled.
WorkDrop ==
    /\ WorkPending
    /\ cwork' = NULL
    /\ UNCHANGED <<table, max_count, current_bss, station, pc, dangling>>

\* wpas_connect_work_done
WorkDone == IF cwork # NULL /\ cwork.started THEN NULL ELSE cwork

Connecting == pc = "idle" /\ ~dangling /\ current_ssid # NULL

\* wpa_supplicant_event_assoc with a BSSID other than the current one, after
\* a request of the daemon's or a roam of the driver's within the network.
\* Without an entry for it the driver's results are fetched first, if they
\* can be.
Assoc(b) ==
    /\ Connecting
    /\ b # bssid
    /\ bssid # NULL \/ pending_bssid # NULL
    /\ bssid' = b
    /\ pending_bssid' = NULL
    /\ IF NewBss(b) # NULL
       THEN /\ current_bss' = NewBss(b)
            /\ UNCHANGED <<table, pc>>
       ELSE /\ UNCHANGED current_bss
            /\ \/ Begin /\ pc' = "assoc"
               \/ UNCHANGED <<table, pc>>
    /\ UNCHANGED <<current_ssid, max_count, cwork, dangling>>

\* wpa_supplicant_update_current_bss, after it has fetched the results.
AssocUpdated ==
    /\ pc = "assoc"
    /\ current_bss' = IF NewBss(bssid) # NULL THEN NewBss(bssid)
                      ELSE current_bss
    /\ pc' = "idle"
    /\ UNCHANGED <<table, max_count, station, cwork, dangling>>

\* wpa_supplicant_set_state(WPA_COMPLETED)
Completed ==
    /\ Connecting
    /\ bssid # NULL
    /\ cwork # NULL /\ cwork.started
    /\ cwork' = WorkDone
    /\ UNCHANGED <<table, max_count, current_bss, station, pc, dangling>>

\* sme_deauth, when an authentication or association was rejected or timed
\* out: current_bss and current_ssid stay.
SmeDeauth ==
    /\ Connecting
    /\ pending_bssid # NULL
    /\ bssid' = NULL /\ pending_bssid' = NULL
    /\ cwork' = WorkDone
    /\ UNCHANGED <<table, max_count, current_bss, current_ssid, pc, dangling>>

\* wpa_supplicant_mark_disassoc
MarkDisassoc ==
    /\ bssid' = NULL /\ pending_bssid' = NULL
    /\ current_ssid' = NULL /\ current_bss' = NULL

\* wpa_supplicant_event_disassoc_finish and the failures that end with
\* wpa_supplicant_mark_disassoc; with again, the AP dropped the station,
\* which tries the same BSS once more.
Disassoc(again) ==
    /\ Connecting
    /\ again => current_bss # NULL
    /\ MarkDisassoc
    /\ cwork' = IF again THEN Request(current_bss, current_ssid) ELSE WorkDone
    /\ UNCHANGED <<table, max_count, pc, dangling>>

\* wpa_supplicant_event_disassoc_finish when the AP does not answer any more:
\* its entry is removed.
DisassocLost ==
    /\ Connecting
    /\ current_bss # NULL
    /\ MarkDisassoc
    /\ ent' = [ent EXCEPT ![current_bss] = NULL]
    /\ bss' = Without(bss, {current_bss})
    /\ bss_id' = Without(bss_id, {current_bss})
    /\ last_scan_res' = WithoutFirst(last_scan_res, {current_bss})
    /\ cwork' = IF WorkDone = NULL THEN NULL ELSE CworkWithout({current_bss})
    /\ UNCHANGED <<res_size, short, max_count, pc, dangling>>

\* The same while authenticating: the authentication goes on
\* (sme_disassoc_while_authenticating).
DisassocAuthenticating ==
    /\ Connecting
    /\ bssid = NULL /\ pending_bssid # NULL
    /\ current_bss' = NULL
    /\ cwork' = WorkDone
    /\ UNCHANGED <<table, max_count, station, pc, dangling>>

Next ==
    \/ UpdateStart
    \/ \E a \in Aps : Update(a) \/ Add(a)
    \/ UpdateEndOld
    \/ \E S \in SUBSET Aps : UpdateEnd(S)
    \/ \E n \in MaxCounts : SetMaxCount(n)
    \/ \E n \in DOMAIN bss : Flush(n)
    \/ \E p \in Addr, net \in Networks : Connect(p, net)
    \/ WorkStart \/ WorkDrop
    \/ \E b \in Bssids : Assoc(b)
    \/ AssocUpdated \/ Completed \/ SmeDeauth
    \/ \E again \in BOOLEAN : Disassoc(again)
    \/ DisassocLost \/ DisassocAuthenticating

Spec == Init /\ [][Next]_vars

-----------------------------------------------------------------------------
(* Properties *)

TypeOK ==
    /\ ent \in [Addr -> Entry \cup {NULL}]
    /\ bss \in Seq(Addr) /\ bss_id \in Seq(Addr) /\ last_scan_res \in Seq(Addr)
    /\ res_size \in Nat /\ short \in BOOLEAN
    /\ max_count \in Nat
    /\ current_bss \in Addr \cup {NULL}
    /\ current_ssid \in Networks \cup {NULL}
    /\ bssid \in Bssids \cup {NULL} /\ pending_bssid \in Bssids \cup {NULL}
    /\ cwork \in Work \cup {NULL}
    /\ pc \in {"idle", "scan", "assoc"} /\ dangling \in BOOLEAN

\* Both lists hold every entry once, and no access point has two entries,
\* whatever was moved, evicted, expired or flushed.
UniqueEntries ==
    /\ Range(bss) = Live /\ Len(bss) = Cardinality(Live)
    /\ Range(bss_id) = Live /\ Len(bss_id) = Cardinality(Live)
    /\ \A a \in Aps : Cardinality(Entries(a)) <= 1

\* No pointer into the table outlives its entry: the results of the last
\* scan, the connect work's BSS and the current BSS are entries of the table,
\* unless the current BSS was evicted for matching no configured network.
PointersLive ==
    /\ Range(last_scan_res) \subseteq Live
    /\ cwork # NULL => cwork.removed \/ cwork.bss \in Live
    /\ dangling \/ current_bss \in Live \cup {NULL}

\* The results of the last scan are entries that it updated, each once, and
\* all of them unless there was no memory to list one: the next network is
\* chosen from all that was seen and nothing else.
ResultsAreSeen ==
    LET updated == {p \in Live : ent[p].seen}
    IN /\ Range(last_scan_res) \subseteq updated
       /\ IsInjective(last_scan_res)
       /\ short \/ updated \subseteq Range(last_scan_res)

\* The table never grows beyond bss_max_count: one that has more entries,
\* because the limit was lowered, gets no new entry without losing one.  The
\* daemon itself raises the limit only when every entry is in use and of a
\* configured network.
TableBounded ==
    [][/\ Len(bss') > Len(bss) => Len(bss') <= max_count'
       /\ max_count' # max_count /\ pc # "idle" =>
             \A p \in Live : InUse(p) /\ KnownBss(p)]_vars

\* A connection attempt that starts is for the access point it was requested
\* for, though the entry may have moved and its address been used again.
AttemptAsRequested ==
    [][WorkStart => ent[current_bss'].ap = cwork.ap]_vars
=============================================================================
