-------------------------- MODULE CtrlMonitorsProofs -------------------------
(***************************************************************************)
(* Proofs about the monitors and the event queue, for any number of         *)
(* monitors, any buffer sizes and any limit.                                *)
(***************************************************************************)
EXTENDS CtrlMonitors, TLAPS, WellFoundedInduction

-----------------------------------------------------------------------------
(* Sequences *)

LEMMA TailFacts ==
    ASSUME NEW S, NEW s \in Seq(S), s # <<>>
    PROVE  /\ Head(s) = s[1] /\ 1 \in DOMAIN s /\ Head(s) \in S
           /\ Tail(s) \in Seq(S) /\ Len(Tail(s)) = Len(s) - 1
           /\ \A i \in DOMAIN s : i \in Nat /\ i >= 1
           /\ \A i \in DOMAIN Tail(s) :
                 i \in Nat /\ i + 1 \in DOMAIN s /\ Tail(s)[i] = s[i + 1]
  OBVIOUS

LEMMA AppendFacts ==
    ASSUME NEW S, NEW s \in Seq(S), NEW e \in S
    PROVE  /\ Append(s, e) \in Seq(S) /\ Len(Append(s, e)) = Len(s) + 1
           /\ Len(s) \in Nat /\ DOMAIN s = 1 .. Len(s)
           /\ \A i \in DOMAIN Append(s, e) :
                 \/ i \in DOMAIN s /\ Append(s, e)[i] = s[i]
                 \/ i = Len(s) + 1 /\ Append(s, e)[i] = e
  OBVIOUS

LEMMA ElementFacts ==
    ASSUME NEW S, NEW s \in Seq(S), NEW i \in DOMAIN s
    PROVE  s[i] \in S /\ i \in Nat /\ i >= 1 /\ i <= Len(s)
  OBVIOUS

LEMMA ConsFacts ==
    ASSUME NEW S, NEW s \in Seq(S), NEW e \in S
    PROVE  <<e>> \o s \in Seq(S)
  OBVIOUS

LEMMA ExceptFacts ==
    ASSUME NEW S, NEW s \in Seq(S), NEW i \in DOMAIN s, NEW e \in S
    PROVE  /\ [s EXCEPT ![i] = e] \in Seq(S)
           /\ DOMAIN [s EXCEPT ![i] = e] = DOMAIN s
  OBVIOUS

\* Removing position k keeps every element after it, one position earlier.
LEMMA RemoveFacts ==
    ASSUME NEW S, NEW s \in Seq(S), NEW k \in DOMAIN s
    PROVE  /\ RemoveAt(s, k) \in Seq(S)
           /\ \A i \in DOMAIN s : i >= k /\ i < Len(s) =>
                 i \in DOMAIN RemoveAt(s, k) /\ RemoveAt(s, k)[i] = s[i + 1]
  BY DEF RemoveAt

\* A set of positions that is not empty has a first one.
LEMMA FirstFacts ==
    ASSUME NEW I \in SUBSET Nat, I # {}
    PROVE  FirstOf(I) \in I /\ \A j \in I : FirstOf(I) <= j
<1> DEFINE R == {x \in Nat \X Nat : x[1] < x[2]}
<1>1. IsWellFoundedOn(R, Nat)
  BY NatLessThanWellFounded DEF OpToRel
<1>2. PICK x \in I : \A y \in I : <<y, x>> \notin R
  BY <1>1, WFMin, Zenon
<1>3. ASSUME NEW y \in I PROVE x <= y
  <2>1. x \in Nat /\ y \in Nat /\ <<y, x>> \notin R
    BY <1>2
  <2>2. ~(y < x)
    BY <2>1
  <2> QED BY <2>1, <2>2
<1> QED
  BY <1>3 DEF FirstOf

-----------------------------------------------------------------------------
(* The list of monitors *)

LEMMA MatchFacts ==
    ASSUME TypeOK, NEW m, NEW g, Matches(m, g) # {}
    PROVE  /\ FirstOf(Matches(m, g)) \in DOMAIN ctrl_dst
           /\ \A i \in Matches(m, g) : FirstOf(Matches(m, g)) <= i
<1>1. Matches(m, g) \in SUBSET Nat
  BY ElementFacts DEF TypeOK, Matches
<1> QED
  BY <1>1, FirstFacts DEF Matches

LEMMA ListTypes ==
    ASSUME TypeOK
    PROVE  /\ \A m, g : Detached(m, g) \in Seq(Entry)
           /\ \A m \in Monitors : Attached(m) \in Seq(Entry)
           /\ \A m \in Monitors, l \in Levels : Leveled(m, l) \in Seq(Entry)
<1>1. ASSUME NEW m, NEW g PROVE Detached(m, g) \in Seq(Entry)
  <2>1. CASE Matches(m, g) = {}
    BY <2>1 DEF Detached, TypeOK
  <2>2. CASE Matches(m, g) # {}
    <3>1. FirstOf(Matches(m, g)) \in DOMAIN ctrl_dst
      BY <2>2, MatchFacts
    <3>2. RemoveAt(ctrl_dst, FirstOf(Matches(m, g))) \in Seq(Entry)
      BY <3>1, RemoveFacts DEF TypeOK
    <3> QED BY <2>2, <3>2 DEF Detached
  <2> QED BY <2>1, <2>2
<1>2. ASSUME NEW m \in Monitors PROVE Attached(m) \in Seq(Entry)
  <2>1. [node |-> nreq + 1, m |-> m, gen |-> gen[m], errors |-> 0,
         level |-> INFO] \in Entry
    BY LevelAssumption DEF TypeOK, Entry
  <2> QED BY <2>1, ConsFacts DEF Attached, TypeOK
<1>3. ASSUME NEW m \in Monitors, NEW l \in Levels
      PROVE  Leveled(m, l) \in Seq(Entry)
  <2>1. CASE Matches(m, gen[m]) = {}
    BY <2>1 DEF Leveled, TypeOK
  <2>2. CASE Matches(m, gen[m]) # {}
    <3> DEFINE k == FirstOf(Matches(m, gen[m]))
    <3>1. k \in DOMAIN ctrl_dst
      BY <2>2, MatchFacts
    <3> HIDE DEF k
    <3>2. ctrl_dst[k] \in Entry
      BY <3>1, ElementFacts DEF TypeOK
    <3>3. [ctrl_dst[k] EXCEPT !.level = l] \in Entry
      BY <3>2, LevelAssumption DEF Entry
    <3>4. [ctrl_dst EXCEPT ![k] = [ctrl_dst[k] EXCEPT !.level = l]] \in Seq(Entry)
      BY <3>1, <3>3, ExceptFacts DEF TypeOK
    <3> QED BY <2>2, <3>4 DEF Leveled, k
  <2> QED BY <2>1, <2>2
<1> QED
  BY <1>1, <1>2, <1>3

LEMMA ErrorsType ==
    ASSUME NEW e \in Entry, NEW n \in Nat
    PROVE  e.errors \in Nat /\ [e EXCEPT !.errors = n] \in Entry
  BY DEF Entry

\* The entry at position i after its send succeeded or failed.
LEMMA EntryTypes ==
    ASSUME TypeOK, NEW i \in DOMAIN ctrl_dst
    PROVE  /\ ctrl_dst[i] \in Entry /\ NodeAfter(i) \in Nat
           /\ [ctrl_dst EXCEPT ![i].errors = 0] \in Seq(Entry)
           /\ [ctrl_dst EXCEPT ![i].errors = @ + 1] \in Seq(Entry)
           /\ \A errno : AfterError(i, errno) \in Seq(Entry)
<1>1. ctrl_dst[i] \in Entry /\ ctrl_dst \in Seq(Entry)
  BY ElementFacts DEF TypeOK
<1>2. NodeAfter(i) \in Nat
  <2>1. CASE i < Len(ctrl_dst)
    <3>1. i + 1 \in DOMAIN ctrl_dst
      BY <1>1, <2>1
    <3>2. ctrl_dst[i + 1] \in Entry
      BY <1>1, <3>1, ElementFacts
    <3> QED BY <2>1, <3>2 DEF NodeAfter, Entry
  <2> QED BY <2>1 DEF NodeAfter
<1>3. /\ [ctrl_dst[i] EXCEPT !.errors = 0] \in Entry
      /\ [ctrl_dst[i] EXCEPT !.errors = @ + 1] \in Entry
  <2>1. ctrl_dst[i].errors \in Nat
    BY <1>1, ErrorsType
  <2>2. ctrl_dst[i].errors + 1 \in Nat
    BY <2>1
  <2> QED BY <1>1, <2>2, ErrorsType
<1>4. /\ [ctrl_dst EXCEPT ![i] = [ctrl_dst[i] EXCEPT !.errors = 0]] \in Seq(Entry)
      /\ [ctrl_dst EXCEPT ![i] = [ctrl_dst[i] EXCEPT !.errors = @ + 1]]
            \in Seq(Entry)
  BY <1>1, <1>3, ExceptFacts
<1>5. \A errno : AfterError(i, errno) \in Seq(Entry)
  BY <1>4, ListTypes DEF AfterError
<1> QED
  BY <1>1, <1>2, <1>4, <1>5

-----------------------------------------------------------------------------
(* Types *)

LEMMA InitType == Init => TypeOK
<1> SUFFICES ASSUME Init PROVE TypeOK
  OBVIOUS
<1>1. /\ <<>> \in Seq(Entry) /\ <<>> \in Seq(Nat) /\ <<>> \in Seq(Levels)
      /\ [m \in Monitors |-> 0] \in [Monitors -> Nat]
  OBVIOUS
<1> QED
  BY <1>1 DEF Init, TypeOK

LEMMA AnswerTypes ==
    ASSUME TypeOK, NEW m \in Monitors, Request(m), Answer(m)
    PROVE  /\ rx' \in [Monitors -> Nat] /\ sock' \in Nat /\ nsock' \in Nat
           /\ nreq' \in Nat
<1>1. nreq' \in Nat
  BY DEF Request, TypeOK
<1>2. rx' \in [Monitors -> Nat]
  <2>1. [rx EXCEPT ![m] = @ + 1] \in [Monitors -> Nat]
    BY DEF TypeOK
  <2>2. rx' = [rx EXCEPT ![m] = @ + 1] \/ rx' = rx
    BY DEF Answer
  <2> QED BY <2>1, <2>2 DEF TypeOK
<1>3. sock' \in Nat /\ nsock' \in Nat
  BY DEF Answer, Reinit, TypeOK
<1> QED
  BY <1>1, <1>2, <1>3

LEMMA FirstNode == TypeOK /\ ctrl_dst # <<>> => ctrl_dst[1].node \in Nat
<1> SUFFICES ASSUME TypeOK, ctrl_dst # <<>> PROVE ctrl_dst[1].node \in Nat
  OBVIOUS
<1>1. ctrl_dst[1] \in Entry
  BY TailFacts DEF TypeOK
<1> QED
  BY <1>1 DEF Entry

LEMMA CountFacts ==
    /\ \A c \in Nat : (c + 1) % CountMod \in Nat
    /\ \A c \in Nat : c + 1 < CountMod => (c + 1) % CountMod = c + 1
  BY SizeAssumption

\* What a held-back event does to the queue.
LEMMA HeldFacts ==
    ASSUME TypeOK, NEW i \in Nat, EmitHeld(i)
    PROVE  \E q \in Seq(Nat) :
              /\ q = QueueLimited((throttle_count + 1) % CountMod)
              /\ throttle_count' = (throttle_count + 1) % CountMod
              /\ throttled' = throttled + 1
              /\ \/ msg_queue' = Append(q, i) /\ timer' = TRUE
                 \/ msg_queue' = q /\ timer' = timer
              /\ lost' \subseteq Nat
              /\ UNCHANGED hvars
<1> DEFINE q == QueueLimited((throttle_count + 1) % CountMod)
<1>1. q \in Seq(Nat)
  BY TailFacts DEF QueueLimited, TypeOK
<1>2. \A k \in DOMAIN msg_queue : msg_queue[k] \in Nat
  BY ElementFacts DEF TypeOK
<1>3. lost' \subseteq Nat
  BY <1>2 DEF EmitHeld, TypeOK
<1>4. /\ throttle_count' = (throttle_count + 1) % CountMod
      /\ throttled' = throttled + 1
      /\ \/ msg_queue' = Append(q, i) /\ timer' = TRUE
         \/ msg_queue' = q /\ timer' = timer
      /\ UNCHANGED hvars
  BY DEF EmitHeld, TimerSet
<1> QED
  BY <1>1, <1>3, <1>4

LEMMA SendTypes ==
    ASSUME TypeOK, Send
    PROVE  TypeOK'
<1>1. PICK i \in DOMAIN ctrl_dst :
         ctrl_dst[i].node = dst /\ (SendSkip(i) \/ SendOk(i) \/ SendError(i))
  BY DEF Send
<1>2. /\ ctrl_dst[i] \in Entry /\ NodeAfter(i) \in Nat
      /\ [ctrl_dst EXCEPT ![i].errors = 0] \in Seq(Entry)
      /\ \A errno : AfterError(i, errno) \in Seq(Entry)
  BY EntryTypes
<1>3. ctrl_dst[i].m \in Monitors
  BY <1>2 DEF Entry
<1>4. ASSUME NEW n \in Nat, Continue(n)
      PROVE  /\ dst' \in Nat /\ msg' \in Nat /\ back' \in {"idle", "drain"}
             /\ pc' \in {"idle", "drain", "send"}
  BY <1>4 DEF Continue, TypeOK
<1>5. CASE SendSkip(i)
  BY <1>2, <1>4, <1>5 DEF SendSkip, Send, TypeOK, qvars
<1>6. CASE SendOk(i)
  <2>1. rx' \in [Monitors -> Nat] /\ got' \in [Monitors -> Nat]
    BY <1>3, <1>6 DEF SendOk, TypeOK
  <2> QED
    BY <1>2, <1>4, <1>6, <2>1 DEF SendOk, Send, TypeOK, qvars
<1>7. CASE SendError(i)
  <2>1. ctrl_dst' \in Seq(Entry) /\ sock' \in Nat /\ nsock' \in Nat
    BY <1>2, <1>7 DEF SendError, TypeOK, Reinit
  <2>2. \E n \in Nat : Continue(n)
    BY <1>2, <1>7 DEF SendError
  <2> QED
    BY <1>4, <1>7, <2>1, <2>2 DEF SendError, Send, TypeOK, qvars
<1> QED
  BY <1>1, <1>5, <1>6, <1>7

LEMMA StepType == TypeOK /\ [Next]_vars => TypeOK'
<1> SUFFICES ASSUME TypeOK, [Next]_vars PROVE TypeOK'
  OBVIOUS
<1> USE DEF TypeOK, qvars, hvars, mvars
<1>1. ASSUME NEW m \in Monitors, Attach(m) PROVE TypeOK'
  <2>1. ctrl_dst' \in Seq(Entry)
    BY <1>1, ListTypes DEF Attach
  <2>2. got' \in [Monitors -> Nat]
    BY <1>1 DEF Attach
  <2> QED BY <1>1, <2>1, <2>2, AnswerTypes DEF Attach
<1>2. ASSUME NEW m \in Monitors, Detach(m) PROVE TypeOK'
  BY <1>2, ListTypes, AnswerTypes DEF Detach
<1>3. ASSUME NEW m \in Monitors, NEW l \in Levels, Level(m, l) PROVE TypeOK'
  BY <1>3, ListTypes, AnswerTypes DEF Level
<1>4. ASSUME NEW l \in Levels, Emit(l) PROVE TypeOK'
  <2>1. hist' \in Seq(Levels) /\ Len(hist) + 1 \in Nat
    BY <1>4, AppendFacts DEF Emit
  <2>2. CASE EmitHeld(Len(hist) + 1)
    <3>1. /\ msg_queue' \in Seq(Nat) /\ throttle_count' \in Nat
          /\ throttled' \in Nat /\ timer' \in BOOLEAN /\ lost' \subseteq Nat
          /\ UNCHANGED hvars
      <4>1. PICK q \in Seq(Nat) :
               /\ throttle_count' = (throttle_count + 1) % CountMod
               /\ throttled' = throttled + 1
               /\ \/ msg_queue' = Append(q, Len(hist) + 1) /\ timer' = TRUE
                  \/ msg_queue' = q /\ timer' = timer
               /\ lost' \subseteq Nat
               /\ UNCHANGED hvars
        BY <2>1, <2>2, HeldFacts
      <4>2. timer' \in BOOLEAN
        BY <4>1, Zenon
      <4>3. Append(q, Len(hist) + 1) \in Seq(Nat)
        BY <2>1, AppendFacts
      <4>4. msg_queue' \in Seq(Nat)
        BY <4>1, <4>3
      <4>5. throttle_count' \in Nat /\ throttled' \in Nat
        BY <4>1, CountFacts
      <4> QED BY <4>1, <4>2, <4>4, <4>5
    <3> QED BY <1>4, <2>1, <3>1 DEF Emit
  <2>3. CASE EmitNow(Len(hist) + 1)
    <3>1. ctrl_dst # <<>> => ctrl_dst[1].node \in Nat
      BY FirstNode
    <3>2. /\ pc' \in {"idle", "drain", "send"} /\ back' \in {"idle", "drain"}
          /\ msg' \in Nat /\ dst' \in Nat
      BY <2>1, <2>3, <3>1 DEF EmitNow, StartSend
    <3> QED BY <1>4, <2>1, <2>3, <3>2 DEF Emit, EmitNow
  <2> QED BY <1>4, <2>2, <2>3 DEF Emit
<1>5. CASE QueueTimeout
  BY <1>5 DEF QueueTimeout
<1>6. CASE DrainOne
  <2>1. Head(msg_queue) \in Nat /\ Tail(msg_queue) \in Seq(Nat)
    BY <1>6, TailFacts DEF DrainOne
  <2>2. ctrl_dst # <<>> => ctrl_dst[1].node \in Nat
    BY FirstNode
  <2> QED BY <1>6, <2>1, <2>2 DEF DrainOne, StartSend
<1>7. CASE DrainDone
  <2>1. timer' \in BOOLEAN
    BY <1>7, Zenon DEF DrainDone, TimerAfterDrain
  <2> QED BY <1>7, <2>1 DEF DrainDone
<1>8. CASE Send
  BY <1>8, SendTypes
<1>9. CASE Deinit
  <2>1. <<>> \in Seq(Entry) /\ <<>> \in Seq(Nat)
    OBVIOUS
  <2> QED BY <1>9, <2>1 DEF Deinit
<1>10. CASE Start
  BY <1>10 DEF Start
<1>11. ASSUME NEW m \in Monitors, Open(m) \/ Close(m) \/ Read(m) PROVE TypeOK'
  <2>1. CASE Open(m)
    BY <2>1 DEF Open
  <2>2. CASE Close(m)
    BY <2>2 DEF Close
  <2>3. CASE Read(m)
    BY <2>3 DEF Read
  <2> QED BY <1>11, <2>1, <2>2, <2>3
<1>12. CASE UNCHANGED vars
  BY <1>12 DEF vars
<1> QED
  BY <1>1, <1>2, <1>3, <1>4, <1>5, <1>6, <1>7, <1>8, <1>9, <1>10, <1>11,
     <1>12 DEF Next, Handler

\* The list of monitors, the queue and the daemon's registers keep their
\* types under every step.
THEOREM TypeCorrect == Spec => []TypeOK
  BY InitType, StepType, PTL DEF Spec

-----------------------------------------------------------------------------
(* The limit of the queue *)

\* Until it wraps around, the counter has counted every message throttled
\* since the queue was last empty, so the queue is no longer than that.
Counted ==
    throttled < CountMod =>
        /\ throttle_count = throttled
        /\ Len(msg_queue) <= throttled
        /\ Len(msg_queue) < Limit

LEMMA StepCounted == TypeOK /\ Counted /\ [Next]_vars => Counted'
<1> SUFFICES ASSUME TypeOK, Counted, [Next]_vars PROVE Counted'
  OBVIOUS
<1>0. /\ throttled \in Nat /\ throttle_count \in Nat
      /\ msg_queue \in Seq(Nat) /\ Len(msg_queue) \in Nat
  BY DEF TypeOK
<1>1. ASSUME NEW l \in Levels, Emit(l) PROVE Counted'
  <2>1. CASE EmitHeld(Len(hist) + 1)
    <3> DEFINE c == (throttle_count + 1) % CountMod
    <3>1. Len(hist) + 1 \in Nat
      BY DEF TypeOK
    <3>2. PICK q \in Seq(Nat) :
             /\ q = QueueLimited(c)
             /\ throttle_count' = c
             /\ throttled' = throttled + 1
             /\ msg_queue' = Append(q, Len(hist) + 1) \/ msg_queue' = q
      BY <2>1, <3>1, HeldFacts
    <3>3. Len(msg_queue') <= Len(q) + 1
      BY <3>1, <3>2, AppendFacts
    <3> SUFFICES ASSUME throttled + 1 < CountMod PROVE Counted'
      BY <3>2 DEF Counted
    <3>4. /\ throttle_count = throttled /\ Len(msg_queue) <= throttled
          /\ Len(msg_queue) < Limit
      BY <1>0, SizeAssumption DEF Counted
    <3>5. c = throttled + 1
      BY <1>0, <3>4, CountFacts
    <3> HIDE DEF c
    <3>6. CASE c >= Limit /\ msg_queue # <<>>
      <4>1. q = Tail(msg_queue)
        BY <3>2, <3>6 DEF QueueLimited
      <4>2. Len(q) = Len(msg_queue) - 1
        BY <1>0, <3>6, <4>1, TailFacts
      <4> QED
        BY <1>0, <3>2, <3>3, <3>4, <3>5, <4>2, SizeAssumption DEF Counted
    <3>7. CASE c >= Limit /\ msg_queue = <<>>
      <4>1. Len(q) = 0
        BY <3>2, <3>7 DEF QueueLimited
      <4> QED
        BY <1>0, <3>2, <3>3, <3>5, <4>1, SizeAssumption DEF Counted
    <3>8. CASE c < Limit
      <4>1. q = msg_queue
        BY <1>0, <3>2, <3>5, <3>8, SizeAssumption DEF QueueLimited
      <4> QED
        BY <1>0, <3>2, <3>3, <3>4, <3>5, <3>8, <4>1, SizeAssumption DEF Counted
    <3> QED
      BY <1>0, <3>5, <3>6, <3>7, <3>8, SizeAssumption
  <2>2. CASE EmitNow(Len(hist) + 1)
    <3>1. msg_queue = <<>>
      BY <2>2 DEF EmitNow, HoldBack
    <3> QED
      BY <2>2, <3>1, SizeAssumption DEF EmitNow, Counted
  <2> QED BY <1>1, <2>1, <2>2 DEF Emit
<1>2. CASE DrainOne
  <2>1. Len(msg_queue') = Len(msg_queue) - 1
    BY <1>0, <1>2, TailFacts DEF DrainOne
  <2>2. UNCHANGED <<throttle_count, throttled>>
    BY <1>2 DEF DrainOne
  <2> QED BY <1>0, <2>1, <2>2, SizeAssumption DEF Counted
<1>3. CASE Deinit
  BY <1>3, SizeAssumption DEF Deinit, Counted
<1>4. CASE UNCHANGED <<msg_queue, throttle_count, throttled>>
  BY <1>4 DEF Counted
<1> QED
  BY <1>1, <1>2, <1>3, <1>4 DEF Next, Handler, Attach, Detach, Level,
     QueueTimeout, DrainDone, Send, Start, Open, Close, Read, vars, qvars

\* Fewer than Limit messages are ever held back, for any limit and any width
\* of the counter, until the counter wraps around.
THEOREM QueueIsBounded == Spec => []QueueBounded
<1>1. Init => Counted
  BY SizeAssumption DEF Init, Counted
<1>2. Counted => QueueBounded
  BY DEF Counted, QueueBounded
<1> QED
  BY <1>1, <1>2, StepCounted, InitType, StepType, PTL DEF Spec

-----------------------------------------------------------------------------
(* The timer *)

LEMMA StepTimer == TypeOK /\ PendingHasTimer /\ [Next]_vars => PendingHasTimer'
<1> SUFFICES ASSUME TypeOK, PendingHasTimer, [Next]_vars PROVE PendingHasTimer'
  OBVIOUS
<1>1. ASSUME NEW l \in Levels, Emit(l) PROVE PendingHasTimer'
  <2>1. pc = "idle"
    BY <1>1 DEF Emit
  <2>2. CASE EmitHeld(Len(hist) + 1)
    <3>1. Len(hist) + 1 \in Nat
      BY DEF TypeOK
    <3>2. timer' = TRUE \/ (timer' = timer /\ msg_queue' \in {msg_queue, Tail(msg_queue)}
                                            /\ (msg_queue = <<>> => msg_queue' = <<>>))
      BY <2>2, <3>1, HeldFacts DEF QueueLimited
    <3>3. msg_queue # <<>> => timer
      BY <2>1 DEF PendingHasTimer
    <3> QED BY <3>2, <3>3 DEF PendingHasTimer
  <2>3. CASE EmitNow(Len(hist) + 1)
    <3>1. msg_queue' = <<>>
      BY <2>3 DEF EmitNow, HoldBack
    <3> QED BY <3>1 DEF PendingHasTimer
  <2> QED BY <1>1, <2>2, <2>3 DEF Emit
<1>2. CASE QueueTimeout
  BY <1>2 DEF QueueTimeout, PendingHasTimer
<1>3. CASE DrainOne
  BY <1>3 DEF DrainOne, StartSend, PendingHasTimer
<1>4. CASE DrainDone
  BY <1>4 DEF DrainDone, TimerAfterDrain, Throttle, PendingHasTimer
<1>5. CASE Send
  <2>1. PICK n : Continue(n)
    BY <1>5 DEF Send, SendSkip, SendOk, SendError
  <2>2. pc = "send" /\ UNCHANGED <<msg_queue, timer>>
    BY <1>5 DEF Send, qvars
  <2>3. CASE n = 0
    BY <2>1, <2>2, <2>3 DEF Continue, PendingHasTimer, TypeOK
  <2>4. CASE n # 0
    BY <2>1, <2>2, <2>4 DEF Continue, PendingHasTimer
  <2> QED BY <2>3, <2>4
<1>6. CASE Deinit
  BY <1>6 DEF Deinit, PendingHasTimer
<1>7. CASE UNCHANGED <<msg_queue, timer, pc, back>>
  BY <1>7 DEF PendingHasTimer
<1> QED
  BY <1>1, <1>2, <1>3, <1>4, <1>5, <1>6, <1>7 DEF Next, Handler, Attach,
     Detach, Level, Start, Open, Close, Read, vars, qvars, hvars

\* Messages held back always have the timeout that will send them.
THEOREM PendingIsTimed == Spec => []PendingHasTimer
<1>1. Init => PendingHasTimer
  BY DEF Init, PendingHasTimer
<1> QED
  BY <1>1, StepTimer, InitType, StepType, PTL DEF Spec

-----------------------------------------------------------------------------
(* The sending loop *)

\* The node after position i is still in the list when the loop has worked on
\* position i: what it removes is the first entry with the address of the
\* one at i, which is not after i.
LEMMA NextNodeKept ==
    ASSUME TypeOK, NEW i \in DOMAIN ctrl_dst, NEW errno, NodeAfter(i) # 0,
           NEW l, l \in {ctrl_dst, [ctrl_dst EXCEPT ![i].errors = 0],
                        AfterError(i, errno)}
    PROVE  \E j \in DOMAIN l : l[j].node = NodeAfter(i)
<1>1. /\ i \in Nat /\ i < Len(ctrl_dst) /\ NodeAfter(i) = ctrl_dst[i + 1].node
      /\ i + 1 \in DOMAIN ctrl_dst /\ i + 1 # i
  BY ElementFacts DEF TypeOK, NodeAfter
<1>2. CASE l = ctrl_dst
  BY <1>1, <1>2
<1>3. ASSUME NEW x, l = [ctrl_dst EXCEPT ![i].errors = x]
      PROVE  \E j \in DOMAIN l : l[j].node = NodeAfter(i)
  <2>1. DOMAIN l = DOMAIN ctrl_dst /\ l[i + 1] = ctrl_dst[i + 1]
    BY <1>1, <1>3
  <2> QED BY <1>1, <2>1
<1>4. CASE l = Detached(ctrl_dst[i].m, ctrl_dst[i].gen)
  <2> DEFINE I == Matches(ctrl_dst[i].m, ctrl_dst[i].gen)
             k == FirstOf(I)
  <2>1. i \in I
    BY DEF Matches
  <2>2. k \in DOMAIN ctrl_dst /\ k <= i
    BY <2>1, MatchFacts
  <2>3. l = RemoveAt(ctrl_dst, k)
    BY <1>4, <2>1 DEF Detached
  <2> HIDE DEF k, I
  <2>4. k \in Nat
    BY <2>2, ElementFacts DEF TypeOK
  <2>5. i \in DOMAIN l /\ l[i] = ctrl_dst[i + 1]
    BY <1>1, <2>2, <2>3, <2>4, RemoveFacts DEF TypeOK
  <2> QED BY <1>1, <2>5
<1> QED
  BY <1>2, <1>3, <1>4 DEF AfterError

LEMMA StepLive == TypeOK /\ LoopNodeIsLive /\ [Next]_vars => LoopNodeIsLive'
<1> SUFFICES ASSUME TypeOK, LoopNodeIsLive, [Next]_vars PROVE LoopNodeIsLive'
  OBVIOUS
<1>1. ASSUME NEW x, NEW b \in {"idle", "drain"}, StartSend(x, b),
             ctrl_dst' = ctrl_dst
      PROVE  LoopNodeIsLive'
  <2>1. ctrl_dst # <<>> => 1 \in DOMAIN ctrl_dst
    BY TailFacts DEF TypeOK
  <2> QED BY <1>1, <2>1 DEF StartSend, LoopNodeIsLive
<1>2. ASSUME NEW l \in Levels, Emit(l) PROVE LoopNodeIsLive'
  <2>1. CASE EmitHeld(Len(hist) + 1)
    BY <1>2, <2>1 DEF Emit, EmitHeld, hvars, LoopNodeIsLive
  <2>2. CASE EmitNow(Len(hist) + 1)
    BY <1>1, <1>2, <2>2 DEF Emit, EmitNow
  <2> QED BY <1>2, <2>1, <2>2 DEF Emit
<1>3. CASE DrainOne
  BY <1>1, <1>3 DEF DrainOne
<1>4. CASE Send
  <2>1. PICK i \in DOMAIN ctrl_dst :
           SendSkip(i) \/ SendOk(i) \/ SendError(i)
    BY <1>4 DEF Send
  <2>2. PICK errno :
           /\ ctrl_dst' \in {ctrl_dst, [ctrl_dst EXCEPT ![i].errors = 0],
                             AfterError(i, errno)}
           /\ Continue(0) \/ Continue(NodeAfter(i))
    BY <2>1 DEF SendSkip, SendOk, SendError
  <2>3. back # "send"
    BY DEF TypeOK
  <2>4. CASE Continue(0)
    BY <2>3, <2>4 DEF Continue, LoopNodeIsLive
  <2>5. CASE Continue(NodeAfter(i)) /\ NodeAfter(i) # 0
    <3>1. \E j \in DOMAIN ctrl_dst' : ctrl_dst'[j].node = NodeAfter(i)
      BY <2>2, <2>5, NextNodeKept
    <3>2. dst' = NodeAfter(i)
      BY <2>5 DEF Continue
    <3> QED BY <3>1, <3>2 DEF LoopNodeIsLive
  <2> QED BY <2>2, <2>4, <2>5
<1>5. ASSUME pc' # "send" PROVE LoopNodeIsLive'
  BY <1>5 DEF LoopNodeIsLive
<1>6. CASE UNCHANGED <<pc, dst, ctrl_dst>>
  BY <1>6 DEF LoopNodeIsLive
<1> QED
  BY <1>2, <1>3, <1>4, <1>5, <1>6 DEF Next, Handler, Attach, Detach, Level,
     Request, QueueTimeout, DrainDone, Deinit, Start, Open, Close, Read, vars,
     hvars

\* The loop that sends an event to every monitor never follows a freed entry.
THEOREM LoopIsSafe == Spec => []LoopNodeIsLive
<1>1. Init => LoopNodeIsLive
  BY DEF Init, LoopNodeIsLive
<1> QED
  BY <1>1, StepLive, InitType, StepType, PTL DEF Spec

-----------------------------------------------------------------------------
(* The order of events *)

\* The queue holds events in the order they happened, none of them sent to
\* anyone yet; the one being sent is older than all of them and at least as
\* new as any that was sent.
QueueOrdered ==
    /\ \A k \in DOMAIN msg_queue : 1 <= msg_queue[k] /\ msg_queue[k] <= Len(hist)
    /\ \A j, k \in DOMAIN msg_queue : j < k => msg_queue[j] < msg_queue[k]

SentBefore ==
    /\ \A m \in Monitors : got[m] <= Len(hist)
    /\ \A m \in Monitors, k \in DOMAIN msg_queue : got[m] < msg_queue[k]
    /\ pc = "send" => /\ msg <= Len(hist)
                      /\ \A m \in Monitors : got[m] <= msg
                      /\ \A k \in DOMAIN msg_queue : msg < msg_queue[k]

InOrder == QueueOrdered /\ SentBefore

LEMMA OrderTypes ==
    ASSUME TypeOK
    PROVE  /\ msg_queue \in Seq(Nat) /\ Len(hist) \in Nat /\ msg \in Nat
           /\ \A k \in DOMAIN msg_queue : k \in Nat /\ msg_queue[k] \in Nat
           /\ \A m \in Monitors : got[m] \in Nat
  BY ElementFacts DEF TypeOK

\* Taking the head of the queue, and then appending a newer event.
LEMMA OrderTail ==
    ASSUME TypeOK, InOrder, msg_queue # <<>>, NEW t, t = Tail(msg_queue)
    PROVE  \A k \in DOMAIN t : /\ k \in Nat /\ k + 1 \in DOMAIN msg_queue
                              /\ t[k] = msg_queue[k + 1]
                              /\ Head(msg_queue) < t[k]
<1>1. \A k \in DOMAIN t : k \in Nat /\ k + 1 \in DOMAIN msg_queue
                          /\ t[k] = msg_queue[k + 1]
  BY TailFacts, OrderTypes
<1>2. Head(msg_queue) = msg_queue[1] /\ 1 \in DOMAIN msg_queue
      /\ \A k \in DOMAIN msg_queue : k >= 1
  BY TailFacts, OrderTypes
<1>3. ASSUME NEW k \in DOMAIN t PROVE msg_queue[1] < t[k]
  <2>1. k \in Nat /\ k + 1 \in DOMAIN msg_queue /\ t[k] = msg_queue[k + 1]
    BY <1>1
  <2>2. k # 0
    BY TailFacts, OrderTypes
  <2>3. 1 < k + 1
    BY <2>1, <2>2
  <2> QED BY <1>2, <2>1, <2>3 DEF InOrder, QueueOrdered
<1> QED
  BY <1>1, <1>2, <1>3

LEMMA StepOrder == TypeOK /\ InOrder /\ [Next]_vars => InOrder'
<1> SUFFICES ASSUME TypeOK, InOrder, [Next]_vars PROVE InOrder'
  OBVIOUS
<1>0. /\ msg_queue \in Seq(Nat) /\ Len(hist) \in Nat /\ msg \in Nat
      /\ \A k \in DOMAIN msg_queue : k \in Nat /\ msg_queue[k] \in Nat
      /\ \A m \in Monitors : got[m] \in Nat
  BY OrderTypes
<1>1. ASSUME NEW l \in Levels, Emit(l) PROVE InOrder'
  <2>1. /\ pc = "idle" /\ got' = got
        /\ hist' = Append(hist, l)
    BY <1>1 DEF Emit, mvars
  <2>2. Len(hist') = Len(hist) + 1
    BY <2>1, AppendFacts DEF TypeOK
  <2>3. CASE EmitHeld(Len(hist) + 1)
    <3>0. Len(hist) + 1 \in Nat
      BY <1>0
    <3>1. PICK q \in Seq(Nat) :
             /\ q = msg_queue \/ (msg_queue # <<>> /\ q = Tail(msg_queue))
             /\ msg_queue' = Append(q, Len(hist) + 1) \/ msg_queue' = q
             /\ UNCHANGED hvars
      BY <2>3, <3>0, HeldFacts DEF QueueLimited
    <3>2. /\ \A k \in DOMAIN q : /\ k \in Nat /\ q[k] \in Nat
                                 /\ 1 <= q[k] /\ q[k] <= Len(hist)
                                 /\ \A m \in Monitors : got[m] < q[k]
          /\ \A j, k \in DOMAIN q : j < k => q[j] < q[k]
      <4>1. CASE q = msg_queue
        BY <1>0, <4>1 DEF InOrder, QueueOrdered, SentBefore
      <4>2. CASE msg_queue # <<>> /\ q = Tail(msg_queue)
        <5>1. \A k \in DOMAIN q : k \in Nat /\ k + 1 \in DOMAIN msg_queue
                                  /\ q[k] = msg_queue[k + 1]
          BY <4>2, OrderTail
        <5>2. \A j, k \in DOMAIN q : j < k => j + 1 < k + 1
          BY <5>1
        <5>3. \A j, k \in DOMAIN q : j < k => q[j] < q[k]
          BY <5>1, <5>2 DEF InOrder, QueueOrdered
        <5>4. \A k \in DOMAIN q : /\ k \in Nat /\ q[k] \in Nat
                                  /\ 1 <= q[k] /\ q[k] <= Len(hist)
          BY <1>0, <5>1 DEF InOrder, QueueOrdered
        <5>5. \A k \in DOMAIN q, m \in Monitors : got[m] < q[k]
          BY <5>1 DEF InOrder, SentBefore
        <5> QED BY <5>3, <5>4, <5>5
      <4> QED BY <3>1, <4>1, <4>2
    <3>3. \A k \in DOMAIN msg_queue' :
             \/ k \in DOMAIN q /\ msg_queue'[k] = q[k]
             \/ k = Len(q) + 1 /\ msg_queue'[k] = Len(hist) + 1
      <4>1. \A k \in DOMAIN Append(q, Len(hist) + 1) :
               \/ k \in DOMAIN q /\ Append(q, Len(hist) + 1)[k] = q[k]
               \/ k = Len(q) + 1 /\ Append(q, Len(hist) + 1)[k] = Len(hist) + 1
        BY <3>0, AppendFacts
      <4> QED BY <3>1, <4>1
    <3>4. \A k \in DOMAIN q : k <= Len(q)
      BY ElementFacts
    <3>5. Len(q) \in Nat
      OBVIOUS
    <3>6. QueueOrdered'
      <4>1. ASSUME NEW k \in DOMAIN msg_queue'
            PROVE  1 <= msg_queue'[k] /\ msg_queue'[k] <= Len(hist')
        BY <1>0, <2>2, <3>2, <3>3
      <4>2. ASSUME NEW j \in DOMAIN msg_queue', NEW k \in DOMAIN msg_queue', j < k
            PROVE  msg_queue'[j] < msg_queue'[k]
        <5>1. CASE k \in DOMAIN q /\ msg_queue'[k] = q[k]
          <6>1. k <= Len(q) /\ k \in Nat
            BY <3>2, <3>4, <5>1
          <6>2. j # Len(q) + 1
            BY <3>5, <4>2, <6>1
          <6> QED BY <3>2, <3>3, <4>2, <5>1, <6>2
        <5>2. CASE k = Len(q) + 1 /\ msg_queue'[k] = Len(hist) + 1
          <6>1. j # Len(q) + 1
            BY <3>5, <4>2, <5>2
          <6>2. j \in DOMAIN q /\ msg_queue'[j] = q[j]
            BY <3>3, <6>1
          <6> QED BY <1>0, <3>2, <5>2, <6>2
        <5> QED BY <3>3, <5>1, <5>2
      <4> QED BY <4>1, <4>2 DEF QueueOrdered
    <3>7. \A m \in Monitors : got[m] <= Len(hist)
      BY DEF InOrder, SentBefore
    <3>8. pc' = "idle"
      BY <2>1, <3>1 DEF hvars
    <3>9. SentBefore'
      BY <1>0, <2>1, <2>2, <3>2, <3>3, <3>7, <3>8 DEF SentBefore
    <3> QED BY <3>6, <3>9 DEF InOrder
  <2>4. CASE EmitNow(Len(hist) + 1)
    <3>1. msg_queue = <<>> /\ msg_queue' = <<>>
      BY <2>4 DEF EmitNow, HoldBack
    <3>2. pc' = "send" => msg' = Len(hist) + 1
      BY <2>4 DEF EmitNow, StartSend
    <3>3. \A m \in Monitors : got[m] <= Len(hist)
      BY DEF InOrder, SentBefore
    <3>4. SentBefore'
      BY <1>0, <2>1, <2>2, <3>1, <3>2, <3>3 DEF SentBefore
    <3>5. QueueOrdered'
      BY <3>1 DEF QueueOrdered
    <3> QED BY <3>4, <3>5 DEF InOrder
  <2> QED BY <1>1, <2>3, <2>4 DEF Emit
<1>2. CASE DrainOne
  <2>1. /\ msg_queue # <<>> /\ msg_queue' = Tail(msg_queue)
        /\ hist' = hist /\ got' = got
        /\ pc' = "send" => msg' = Head(msg_queue)
    BY <1>2 DEF DrainOne, StartSend, mvars
  <2>2. \A k \in DOMAIN msg_queue' :
           /\ k \in Nat /\ k + 1 \in DOMAIN msg_queue
           /\ msg_queue'[k] = msg_queue[k + 1]
           /\ Head(msg_queue) < msg_queue'[k]
    BY <2>1, OrderTail
  <2>3. Head(msg_queue) = msg_queue[1] /\ 1 \in DOMAIN msg_queue
    BY <1>0, <2>1, TailFacts
  <2>4. QueueOrdered'
    <3>1. \A j, k \in DOMAIN msg_queue' : j < k => j + 1 < k + 1
      BY <2>2
    <3>2. \A j, k \in DOMAIN msg_queue' : j < k => msg_queue'[j] < msg_queue'[k]
      BY <2>2, <3>1 DEF InOrder, QueueOrdered
    <3>3. \A k \in DOMAIN msg_queue' :
             1 <= msg_queue'[k] /\ msg_queue'[k] <= Len(hist')
      BY <2>1, <2>2 DEF InOrder, QueueOrdered
    <3> QED BY <3>2, <3>3 DEF QueueOrdered
  <2>5. SentBefore'
    BY <1>0, <2>1, <2>2, <2>3 DEF InOrder, QueueOrdered, SentBefore
  <2> QED BY <2>4, <2>5 DEF InOrder
<1>3. CASE Send
  <2>1. PICK i \in DOMAIN ctrl_dst :
           SendSkip(i) \/ SendOk(i) \/ SendError(i)
    BY <1>3 DEF Send
  <2>2. pc = "send" /\ UNCHANGED <<msg_queue, hist>>
    BY <1>3 DEF Send, qvars
  <2>3. ctrl_dst[i].m \in Monitors
    BY EntryTypes DEF Entry
  <2>4. /\ got' = got \/ got' = [got EXCEPT ![ctrl_dst[i].m] = msg]
        /\ pc' = "send" => msg' = msg
    <3>1. back # "send"
      BY DEF TypeOK
    <3>2. got' = got \/ got' = [got EXCEPT ![ctrl_dst[i].m] = msg]
      BY <2>1 DEF SendSkip, SendOk, SendError
    <3>3. \E n : Continue(n)
      BY <2>1 DEF SendSkip, SendOk, SendError
    <3>4. pc' = "send" => msg' = msg
      BY <3>1, <3>3 DEF Continue
    <3> QED BY <3>2, <3>4
  <2>5. \A m \in Monitors : got'[m] = got[m] \/ got'[m] = msg
    BY <2>3, <2>4 DEF TypeOK
  <2>6. SentBefore'
    BY <1>0, <2>2, <2>4, <2>5 DEF InOrder, SentBefore
  <2> QED BY <2>2, <2>6 DEF InOrder, QueueOrdered
<1>4. CASE Deinit
  BY <1>4 DEF Deinit, InOrder, QueueOrdered, SentBefore, mvars, hvars
<1>5. ASSUME UNCHANGED <<msg_queue, hist, msg, pc>>,
             \A m \in Monitors : got'[m] = got[m] \/ got'[m] = 0
      PROVE  InOrder'
  <2>1. QueueOrdered'
    BY <1>5 DEF InOrder, QueueOrdered
  <2>2. \A m \in Monitors : got'[m] <= got[m]
    BY <1>0, <1>5
  <2>3. \A m \in Monitors : got'[m] \in Nat
    BY <1>0, <1>5
  <2>4. \A m \in Monitors : got'[m] <= Len(hist)
    BY <1>0, <2>2, <2>3 DEF InOrder, SentBefore
  <2>5. \A m \in Monitors, k \in DOMAIN msg_queue : got'[m] < msg_queue[k]
    BY <1>0, <2>2, <2>3 DEF InOrder, SentBefore
  <2>6. pc = "send" => \A m \in Monitors : got'[m] <= msg
    BY <1>0, <2>2, <2>3 DEF InOrder, SentBefore
  <2>7. SentBefore'
    BY <1>5, <2>4, <2>5, <2>6 DEF InOrder, SentBefore
  <2> QED BY <2>1, <2>7 DEF InOrder
<1>6. ASSUME NEW m \in Monitors,
             Attach(m) \/ Open(m) \/ Close(m) \/ Read(m) \/ Detach(m)
               \/ \E l \in Levels : Level(m, l)
      PROVE  InOrder'
  <2>1. got' = got \/ got' = [got EXCEPT ![m] = 0]
    BY <1>6 DEF Attach, Open, Close, Read, Detach, Level
  <2>2. \A n \in Monitors : got'[n] = got[n] \/ got'[n] = 0
    BY <2>1 DEF TypeOK
  <2>3. UNCHANGED <<msg_queue, hist, msg, pc>>
    BY <1>6 DEF Attach, Open, Close, Read, Detach, Level, qvars, hvars
  <2> QED BY <1>5, <2>2, <2>3
<1>7. ASSUME UNCHANGED <<msg_queue, hist, got>>, pc' # "send" PROVE InOrder'
  BY <1>7 DEF InOrder, QueueOrdered, SentBefore
<1>8. CASE QueueTimeout \/ DrainDone
  BY <1>7, <1>8 DEF QueueTimeout, DrainDone, mvars
<1>9. CASE Start \/ UNCHANGED vars
  BY <1>5, <1>9 DEF Start, vars, qvars, hvars, mvars
<1> QED
  BY <1>1, <1>2, <1>3, <1>4, <1>6, <1>8, <1>9 DEF Next, Handler

\* Monitors are sent events in the order they happened, whatever is held back,
\* dropped or reopened on the way.
THEOREM EventsAreInOrder == Spec => EventsInOrder
<1>1. Init => InOrder
  BY DEF Init, InOrder, QueueOrdered, SentBefore
<1>2. ASSUME TypeOK, InOrder, [Next]_vars
      PROVE  [\A m \in Monitors : got'[m] # got[m] =>
                 got'[m] > got[m] \/ got'[m] = 0]_vars
  <2>1. CASE Send
    <3>1. PICK i \in DOMAIN ctrl_dst :
             SendSkip(i) \/ SendOk(i) \/ SendError(i)
      BY <2>1 DEF Send
    <3>2. ctrl_dst[i].m \in Monitors
      BY <1>2, EntryTypes DEF Entry
    <3>3. got' = got \/ got' = [got EXCEPT ![ctrl_dst[i].m] = msg]
      BY <3>1 DEF SendSkip, SendOk, SendError
    <3>4. \A m \in Monitors : got'[m] = got[m] \/ got'[m] = msg
      BY <1>2, <3>2, <3>3 DEF TypeOK
    <3>5. pc = "send"
      BY <2>1 DEF Send
    <3> QED
      BY <1>2, <3>4, <3>5, OrderTypes DEF InOrder, SentBefore
  <2>2. ASSUME NEW m \in Monitors, Attach(m) \/ Open(m) \/ Close(m)
        PROVE  \A n \in Monitors : got'[n] = got[n] \/ got'[n] = 0
    BY <1>2, <2>2 DEF Attach, Open, Close, TypeOK
  <2>3. CASE got' = got
    BY <2>3
  <2> QED
    BY <1>2, <2>1, <2>2, <2>3 DEF Next, Handler, Detach, Level, Read, Emit,
       QueueTimeout, DrainOne, DrainDone, Deinit, Start, vars, mvars
<1> QED
  BY <1>1, <1>2, StepOrder, InitType, StepType, PTL DEF Spec, EventsInOrder

-----------------------------------------------------------------------------
(* Gaps: what became of the events a monitor was not sent *)

\* The events held back.
Held == {msg_queue[k] : k \in DOMAIN msg_queue}

\* The numbers of sockets that have been opened.
SocksKnown == sock <= nsock /\ \A m \in Monitors : conn[m] <= nsock

\* The entries of a list: the newest first, their nodes not above n.
Descends(l, n) ==
    /\ \A i \in DOMAIN l : 1 <= l[i].node /\ l[i].node <= n /\ l[i].level <= TOP
    /\ \A i, j \in DOMAIN l : i < j => l[j].node < l[i].node

\* Everything after an event that is held back or being sent is held back
\* too, or was dropped.
HeldComplete ==
    /\ \A h \in Held : \A j \in h .. Len(hist) : j \in Held \cup lost
    /\ pc = "send" => \A j \in msg + 1 .. Len(hist) : j \in Held \cup lost

\* A monitor that was sent an event and is still attached and connected.
Listening(m) ==
    sock # 0 /\ conn[m] = sock /\ got[m] # 0 /\ Matches(m, gen[m]) # {}

\* The loop has yet to come to an entry of the monitor.
ToCome(m) == \E k \in Matches(m, gen[m]) : ctrl_dst[k].node <= dst

\* Why a monitor has not been sent event j: it was dropped or is held back,
\* or the loop that sends it has not come to the monitor.
Explained(m, j) ==
    j \in lost \/ j \in Held \/ (pc = "send" /\ j = msg /\ ToCome(m))

\* The events of the highest level after the last one such a monitor was sent.
Accounted ==
    \A m \in Monitors : Listening(m) =>
        \A j \in got[m] + 1 .. Len(hist) : hist[j] = TOP => Explained(m, j)

\* The inductive invariant for NoSilentGap.
GInv == SocksKnown /\ Descends(ctrl_dst, nreq) /\ HeldComplete /\ Accounted

\* The list l is what is left of the present one.
LeftOf(l) ==
    \A k \in DOMAIN l : \E j \in DOMAIN ctrl_dst :
        /\ l[k].node = ctrl_dst[j].node
        /\ l[k].m = ctrl_dst[j].m /\ l[k].gen = ctrl_dst[j].gen

\* The list l still has the entry at position j.
StillIn(l, j) ==
    \E k \in DOMAIN l : /\ l[k].node = ctrl_dst[j].node
                        /\ l[k].m = ctrl_dst[j].m /\ l[k].gen = ctrl_dst[j].gen

LEMMA ListFacts ==
    ASSUME TypeOK
    PROVE  /\ ctrl_dst \in Seq(Entry) /\ Len(ctrl_dst) \in Nat
           /\ DOMAIN ctrl_dst = 1 .. Len(ctrl_dst)
           /\ \A k \in DOMAIN ctrl_dst :
                 /\ ctrl_dst[k] \in Entry /\ ctrl_dst[k].node \in Nat
                 /\ ctrl_dst[k].m \in Monitors /\ ctrl_dst[k].level \in Nat
                 /\ ctrl_dst[k].errors \in Nat
           /\ nreq \in Nat
<1>1. ctrl_dst \in Seq(Entry) /\ nreq \in Nat
  BY DEF TypeOK
<1>2. \A k \in DOMAIN ctrl_dst : ctrl_dst[k] \in Entry
  BY <1>1, ElementFacts
<1> QED
  BY <1>1, <1>2 DEF Entry

\* ctrl_iface_detach removes no entry with another address.
LEMMA DetachedList ==
    ASSUME TypeOK, Descends(ctrl_dst, nreq), NEW m, NEW g
    PROVE  /\ Descends(Detached(m, g), nreq) /\ LeftOf(Detached(m, g))
           /\ \A j \in DOMAIN ctrl_dst :
                 ctrl_dst[j].m # m \/ ctrl_dst[j].gen # g => StillIn(Detached(m, g), j)
<1>1. CASE Matches(m, g) = {}
  BY <1>1 DEF Detached, LeftOf, StillIn
<1>2. CASE Matches(m, g) # {}
  <2> DEFINE f == FirstOf(Matches(m, g))
             l == RemoveAt(ctrl_dst, f)
             n == Len(ctrl_dst)
  <2>1. f \in DOMAIN ctrl_dst /\ Detached(m, g) = l
    BY <1>2, MatchFacts DEF Detached
  <2>2. ctrl_dst[f].m = m /\ ctrl_dst[f].gen = g
    <3>1. Matches(m, g) \in SUBSET Nat
      BY ElementFacts DEF TypeOK, Matches
    <3>2. f \in Matches(m, g)
      BY <1>2, <3>1, FirstFacts
    <3> QED BY <3>2 DEF Matches
  <2>3. n \in Nat /\ DOMAIN ctrl_dst = 1 .. n
    BY ListFacts
  <2> HIDE DEF f
  <2>4. DOMAIN l = 1 .. n - 1
    BY DEF RemoveAt
  <2>5. \A k \in 1 .. n - 1 : l[k] = IF k < f THEN ctrl_dst[k] ELSE ctrl_dst[k + 1]
    BY DEF RemoveAt
  <2> HIDE DEF l, n
  <2>6. \A k \in 1 .. n - 1 : /\ k \in DOMAIN ctrl_dst /\ k + 1 \in DOMAIN ctrl_dst
                              /\ k \in Nat
    BY <2>3
  <2>7. LeftOf(l)
    BY <2>4, <2>5, <2>6 DEF LeftOf
  <2>8. Descends(l, nreq)
    <3>1. \A k \in DOMAIN l : /\ 1 <= l[k].node /\ l[k].node <= nreq
                              /\ l[k].level <= TOP
      BY <2>4, <2>5, <2>6 DEF Descends
    <3>2. ASSUME NEW i \in DOMAIN l, NEW j \in DOMAIN l, i < j
          PROVE  l[j].node < l[i].node
      <4>1. i \in Nat /\ j \in Nat /\ f \in Nat /\ i < j
        BY <2>1, <2>3, <2>4, <3>2
      <4>2. i + 1 < j + 1 /\ i < j + 1 /\ (j < f => i < f)
        BY <4>1
      <4> QED BY <2>4, <2>5, <2>6, <4>1, <4>2 DEF Descends
    <3> QED BY <3>1, <3>2 DEF Descends
  <2>9. ASSUME NEW j \in DOMAIN ctrl_dst, ctrl_dst[j].m # m \/ ctrl_dst[j].gen # g
        PROVE  StillIn(l, j)
    <3>1. j # f /\ j \in 1 .. n /\ f \in 1 .. n
      BY <2>1, <2>2, <2>3, <2>9
    <3>2. CASE j < f
      <4>1. j \in DOMAIN l /\ l[j] = ctrl_dst[j]
        BY <2>3, <2>4, <2>5, <3>1, <3>2
      <4> QED BY <4>1 DEF StillIn
    <3>3. CASE f < j
      <4>1. /\ j - 1 \in 1 .. n - 1 /\ ~(j - 1 < f) /\ (j - 1) + 1 = j
        BY <2>3, <3>1, <3>3
      <4>2. j - 1 \in DOMAIN l /\ l[j - 1] = ctrl_dst[j]
        BY <2>4, <2>5, <4>1
      <4> QED BY <4>2 DEF StillIn
    <3> QED BY <2>3, <3>1, <3>2, <3>3
  <2> QED BY <2>1, <2>7, <2>8, <2>9
<1> QED
  BY <1>1, <1>2

\* Counting an error or setting a level keeps every entry where it is.
LEMMA EditedList ==
    ASSUME TypeOK, Descends(ctrl_dst, nreq), NEW i \in DOMAIN ctrl_dst, NEW l,
           \/ \E x : l = [ctrl_dst EXCEPT ![i].errors = x]
           \/ \E x \in Levels : l = [ctrl_dst EXCEPT ![i].level = x]
           \/ l = ctrl_dst
    PROVE  /\ Descends(l, nreq) /\ LeftOf(l)
           /\ \A j \in DOMAIN ctrl_dst : StillIn(l, j)
<1>1. ctrl_dst[i] \in Entry
  BY ListFacts
<1>2. /\ DOMAIN l = DOMAIN ctrl_dst
      /\ \A k \in DOMAIN ctrl_dst : /\ l[k].node = ctrl_dst[k].node
                                    /\ l[k].m = ctrl_dst[k].m
                                    /\ l[k].gen = ctrl_dst[k].gen
                                    /\ l[k].level = ctrl_dst[k].level \/ l[k].level \in Levels
  <2>1. CASE \E x : l = [ctrl_dst EXCEPT ![i].errors = x]
    BY <1>1, <2>1 DEF Entry
  <2>2. CASE \E x \in Levels : l = [ctrl_dst EXCEPT ![i].level = x]
    BY <1>1, <2>2 DEF Entry
  <2>3. CASE l = ctrl_dst
    BY <2>3
  <2> QED BY <2>1, <2>2, <2>3
<1>3. \A x \in Levels : x <= TOP
  BY LevelAssumption
<1>4. Descends(l, nreq)
  BY <1>2, <1>3 DEF Descends
<1> QED
  BY <1>2, <1>4 DEF LeftOf, StillIn

LEMMA AttachedList ==
    ASSUME TypeOK, Descends(ctrl_dst, nreq), NEW m \in Monitors
    PROVE  /\ Descends(Attached(m), nreq + 1)
           /\ \A k \in DOMAIN Attached(m) :
                 Attached(m)[k].m # m => \E j \in DOMAIN ctrl_dst :
                                            Attached(m)[k] = ctrl_dst[j]
<1> DEFINE e == [node |-> nreq + 1, m |-> m, gen |-> gen[m], errors |-> 0,
                 level |-> INFO]
           l == Attached(m)
           n == Len(ctrl_dst)
<1>1. /\ ctrl_dst \in Seq(Entry) /\ n \in Nat /\ nreq \in Nat
      /\ DOMAIN ctrl_dst = 1 .. n
      /\ \A k \in DOMAIN ctrl_dst : ctrl_dst[k].node \in Nat
  BY ListFacts
<1>2. e.node = nreq + 1 /\ e.m = m /\ e.level = INFO /\ INFO <= TOP
  BY LevelAssumption
<1>3. l = <<e>> \o ctrl_dst
  BY DEF Attached
<1> HIDE DEF e, l
<1>4. /\ DOMAIN l = 1 .. n + 1 /\ l[1] = e
      /\ \A k \in 2 .. n + 1 : l[k] = ctrl_dst[k - 1] /\ k - 1 \in DOMAIN ctrl_dst
  BY <1>1, <1>3
<1>5. \A k \in 1 .. n + 1 : k = 1 \/ k \in 2 .. n + 1
  BY <1>1
<1>6. \A k \in DOMAIN l : 1 <= l[k].node /\ l[k].node <= nreq + 1 /\ l[k].level <= TOP
  <2> TAKE k \in DOMAIN l
  <2>1. CASE k = 1
    BY <1>1, <1>2, <1>4, <2>1
  <2>2. CASE k \in 2 .. n + 1
    <3>1. k - 1 \in DOMAIN ctrl_dst /\ l[k] = ctrl_dst[k - 1]
      BY <1>4, <2>2
    <3> QED BY <1>1, <3>1 DEF Descends
  <2> QED BY <1>4, <1>5, <2>1, <2>2
<1>7. ASSUME NEW i \in DOMAIN l, NEW j \in DOMAIN l, i < j
      PROVE  l[j].node < l[i].node
  <2>1. j \in 2 .. n + 1 /\ i \in Nat /\ j \in Nat
    BY <1>1, <1>4, <1>7
  <2>2. l[j] = ctrl_dst[j - 1] /\ j - 1 \in DOMAIN ctrl_dst
    BY <1>4, <2>1
  <2>3. CASE i = 1
    BY <1>1, <1>2, <1>4, <2>2, <2>3 DEF Descends
  <2>4. CASE i \in 2 .. n + 1
    <3>1. l[i] = ctrl_dst[i - 1] /\ i - 1 \in DOMAIN ctrl_dst
      BY <1>4, <2>4
    <3>2. i - 1 < j - 1
      BY <1>7, <2>1
    <3> QED BY <2>2, <3>1, <3>2 DEF Descends
  <2> QED BY <1>4, <1>5, <2>3, <2>4
<1>8. ASSUME NEW k \in DOMAIN l, l[k].m # m
      PROVE  \E j \in DOMAIN ctrl_dst : l[k] = ctrl_dst[j]
  <2>1. k \in 2 .. n + 1
    BY <1>2, <1>4, <1>5, <1>8
  <2> QED BY <1>4, <2>1
<1> QED
  BY <1>6, <1>7, <1>8 DEF Descends, l

\* An entry of a lower node than the one at i comes after it in the loop.
LEMMA LaterNode ==
    ASSUME TypeOK, Descends(ctrl_dst, nreq),
           NEW i \in DOMAIN ctrl_dst, NEW k \in DOMAIN ctrl_dst,
           ctrl_dst[k].node < ctrl_dst[i].node
    PROVE  NodeAfter(i) # 0 /\ ctrl_dst[k].node <= NodeAfter(i)
<1>1. /\ Len(ctrl_dst) \in Nat /\ DOMAIN ctrl_dst = 1 .. Len(ctrl_dst)
      /\ \A j \in DOMAIN ctrl_dst : ctrl_dst[j].node \in Nat
  BY ListFacts
<1>2. i < k
  <2>1. k < i => ctrl_dst[i].node < ctrl_dst[k].node
    BY DEF Descends
  <2>2. ~(k < i) /\ k # i
    BY <1>1, <2>1
  <2> QED BY <1>1, <2>2
<1>3. i + 1 \in DOMAIN ctrl_dst /\ i < Len(ctrl_dst)
  BY <1>1, <1>2
<1>4. NodeAfter(i) = ctrl_dst[i + 1].node /\ ctrl_dst[i + 1].node # 0
  BY <1>1, <1>3 DEF NodeAfter, Descends
<1>5. CASE k = i + 1
  BY <1>1, <1>4, <1>5
<1>6. CASE i + 1 < k
  BY <1>1, <1>3, <1>4, <1>6 DEF Descends
<1> QED
  BY <1>1, <1>2, <1>4, <1>5, <1>6

\* The socket is never one of before, and is reopened only as a new one.
LEMMA StepSocks == TypeOK /\ SocksKnown /\ [Next]_vars => SocksKnown'
<1> SUFFICES ASSUME TypeOK, SocksKnown, [Next]_vars PROVE SocksKnown'
  OBVIOUS
<1>0. sock \in Nat /\ nsock \in Nat /\ conn \in [Monitors -> Nat]
  BY DEF TypeOK
<1>1. ASSUME UNCHANGED <<sock, nsock>> \/ Reinit, UNCHANGED conn PROVE SocksKnown'
  <2>1. CASE UNCHANGED <<sock, nsock>>
    BY <1>1, <2>1 DEF SocksKnown
  <2>2. CASE Reinit
    <3>1. nsock' \in Nat /\ sock' <= nsock' /\ nsock <= nsock'
      BY <1>0, <2>2 DEF Reinit
    <3> QED BY <1>0, <1>1, <3>1 DEF SocksKnown
  <2> QED BY <1>1, <2>1, <2>2
<1>2. CASE Send
  BY <1>1, <1>2 DEF Send, SendSkip, SendOk, SendError
<1>3. ASSUME NEW m \in Monitors, Open(m) \/ Close(m) PROVE SocksKnown'
  BY <1>0, <1>3 DEF Open, Close, SocksKnown
<1>4. CASE Deinit
  BY <1>0, <1>4 DEF Deinit, SocksKnown, mvars
<1>5. CASE Start
  BY <1>0, <1>5 DEF Start, SocksKnown, mvars
<1>6. ASSUME NEW m \in Monitors, Attach(m) \/ Detach(m) \/ \E l \in Levels : Level(m, l)
      PROVE  SocksKnown'
  BY <1>1, <1>6 DEF Attach, Detach, Level, Answer
<1>7. CASE UNCHANGED <<sock, nsock, conn>>
  BY <1>7 DEF SocksKnown
<1> QED
  BY <1>2, <1>3, <1>4, <1>5, <1>6, <1>7
  DEF Next, Handler, Emit, QueueTimeout, DrainOne, DrainDone, Read, vars, mvars

\* Which entries the sending loop leaves.
LEMMA SentList ==
    ASSUME TypeOK, Descends(ctrl_dst, nreq), NEW i \in DOMAIN ctrl_dst,
           SendSkip(i) \/ SendOk(i) \/ SendError(i)
    PROVE  /\ Descends(ctrl_dst', nreq) /\ LeftOf(ctrl_dst')
           /\ \A j \in DOMAIN ctrl_dst :
                 \/ ctrl_dst[j].m = ctrl_dst[i].m /\ ctrl_dst[j].gen = ctrl_dst[i].gen
                 \/ StillIn(ctrl_dst', j)
<1>1. CASE SendSkip(i)
  BY <1>1, EditedList DEF SendSkip
<1>2. CASE SendOk(i)
  BY <1>2, EditedList DEF SendOk
<1>3. CASE SendError(i)
  <2>1. PICK errno : ctrl_dst' = AfterError(i, errno)
    BY <1>3 DEF SendError
  <2>2. CASE ctrl_dst' = Detached(ctrl_dst[i].m, ctrl_dst[i].gen)
    BY <2>2, DetachedList
  <2>3. CASE ctrl_dst' = [ctrl_dst EXCEPT ![i].errors = @ + 1]
    BY <2>3, EditedList
  <2> QED BY <2>1, <2>2, <2>3 DEF AfterError
<1> QED
  BY <1>1, <1>2, <1>3

\* The list after a LEVEL request.
LEMMA LeveledList ==
    ASSUME TypeOK, Descends(ctrl_dst, nreq), NEW m, NEW l \in Levels
    PROVE  Descends(Leveled(m, l), nreq) /\ LeftOf(Leveled(m, l))
<1>1. CASE Matches(m, gen[m]) = {}
  BY <1>1 DEF Leveled, LeftOf
<1>2. CASE Matches(m, gen[m]) # {}
  <2>1. FirstOf(Matches(m, gen[m])) \in DOMAIN ctrl_dst
    BY <1>2, MatchFacts
  <2> QED BY <1>2, <2>1, EditedList DEF Leveled
<1> QED
  BY <1>1, <1>2

LEMMA DescendsMore ==
    ASSUME NEW l \in Seq(Entry), NEW n \in Nat, Descends(l, n)
    PROVE  Descends(l, n + 1)
<1>1. \A k \in DOMAIN l : l[k].node \in Nat
  <2>1. \A k \in DOMAIN l : l[k] \in Entry
    BY ElementFacts
  <2> QED BY <2>1 DEF Entry
<1> QED
  BY <1>1 DEF Descends

LEMMA StepDescends ==
    TypeOK /\ Descends(ctrl_dst, nreq) /\ [Next]_vars => Descends(ctrl_dst', nreq')
<1> SUFFICES ASSUME TypeOK, Descends(ctrl_dst, nreq), [Next]_vars
             PROVE  Descends(ctrl_dst', nreq')
  OBVIOUS
<1>0. ctrl_dst \in Seq(Entry) /\ nreq \in Nat
  BY DEF TypeOK
<1>1. CASE Send
  <2>1. PICK i \in DOMAIN ctrl_dst : SendSkip(i) \/ SendOk(i) \/ SendError(i)
    BY <1>1 DEF Send
  <2>2. nreq' = nreq
    BY <1>1 DEF Send
  <2> QED BY <2>1, <2>2, SentList
<1>2. ASSUME NEW m \in Monitors, Attach(m) PROVE Descends(ctrl_dst', nreq')
  BY <1>0, <1>2, AttachedList, DescendsMore DEF Attach, Request
<1>3. ASSUME NEW m \in Monitors, Detach(m) PROVE Descends(ctrl_dst', nreq')
  <2>1. Detached(m, gen[m]) \in Seq(Entry) /\ Descends(Detached(m, gen[m]), nreq)
    BY ListTypes, DetachedList
  <2> QED BY <1>0, <1>3, <2>1, DescendsMore DEF Detach, Request
<1>4. ASSUME NEW m \in Monitors, NEW l \in Levels, Level(m, l)
      PROVE  Descends(ctrl_dst', nreq')
  <2>1. Leveled(m, l) \in Seq(Entry) /\ Descends(Leveled(m, l), nreq)
    BY ListTypes, LeveledList
  <2> QED BY <1>0, <1>4, <2>1, DescendsMore DEF Level, Request
<1>5. CASE Deinit
  BY <1>5 DEF Deinit, Descends
<1>6. CASE UNCHANGED <<ctrl_dst, nreq>>
  BY <1>6
<1> QED
  BY <1>1, <1>2, <1>3, <1>4, <1>5, <1>6
  DEF Next, Handler, Emit, QueueTimeout, DrainOne, DrainDone, Start, Open, Close,
      Read, vars

\* What is held back when an event is: it, and what is not dropped.
LEMMA HeldAfter ==
    ASSUME TypeOK, NEW x \in Nat, EmitHeld(x)
    PROVE  /\ Held' \subseteq Held \cup {x} /\ lost \subseteq lost'
           /\ Held \cup {x} \subseteq Held' \cup lost'
<1> DEFINE c == (throttle_count + 1) % CountMod
           q == QueueLimited(c)
           Q == {q[k] : k \in DOMAIN q}
           dropped == Held \ Q
<1>1. /\ \/ msg_queue' = Append(q, x) /\ lost' = lost \cup dropped
         \/ msg_queue' = q /\ lost' = lost \cup dropped \cup {x}
  BY DEF EmitHeld, Held
<1>2. msg_queue \in Seq(Nat)
  BY DEF TypeOK
<1>3. q = msg_queue \/ (msg_queue # <<>> /\ q = Tail(msg_queue))
  BY DEF QueueLimited
<1> HIDE DEF q
<1>4. q \in Seq(Nat) /\ Q \subseteq Held
  <2>1. CASE q = msg_queue
    BY <1>2, <2>1 DEF Held
  <2>2. CASE msg_queue # <<>> /\ q = Tail(msg_queue)
    BY <1>2, <2>2, TailFacts DEF Held
  <2> QED BY <1>3, <2>1, <2>2
<1>5. CASE msg_queue' = Append(q, x) /\ lost' = lost \cup dropped
  <2>1. Held' = Q \cup {x}
    <3>1. /\ Len(q) \in Nat /\ DOMAIN q = 1 .. Len(q)
          /\ DOMAIN Append(q, x) = 1 .. Len(q) + 1
          /\ \A k \in 1 .. Len(q) : Append(q, x)[k] = q[k]
          /\ Append(q, x)[Len(q) + 1] = x
      BY <1>4
    <3>2. 1 .. Len(q) + 1 = 1 .. Len(q) \cup {Len(q) + 1}
      BY <3>1
    <3> QED BY <1>5, <3>1, <3>2 DEF Held
  <2> QED BY <1>4, <1>5, <2>1
<1>6. CASE msg_queue' = q /\ lost' = lost \cup dropped \cup {x}
  <2>1. Held' = Q
    BY <1>6 DEF Held
  <2> QED BY <1>4, <1>6, <2>1
<1> QED
  BY <1>1, <1>5, <1>6

\* What is held back when the oldest event is taken.
LEMMA HeldTail ==
    ASSUME TypeOK, InOrder, msg_queue # <<>>, msg_queue' = Tail(msg_queue)
    PROVE  /\ Head(msg_queue) \in Held /\ Head(msg_queue) \in Nat
           /\ Held' = Held \ {Head(msg_queue)}
           /\ \A h \in Held' : Head(msg_queue) < h /\ h \in Nat
<1>1. /\ Head(msg_queue) = msg_queue[1] /\ 1 \in DOMAIN msg_queue
      /\ Head(msg_queue) \in Nat /\ Len(msg_queue) \in Nat
      /\ DOMAIN msg_queue = 1 .. Len(msg_queue)
      /\ DOMAIN Tail(msg_queue) = 1 .. Len(msg_queue) - 1
      /\ \A k \in DOMAIN msg_queue : msg_queue[k] \in Nat
  BY TailFacts, OrderTypes
<1>2. \A k \in DOMAIN msg_queue' : /\ k \in Nat /\ k + 1 \in DOMAIN msg_queue
                                   /\ msg_queue'[k] = msg_queue[k + 1]
                                   /\ Head(msg_queue) < msg_queue'[k]
  BY OrderTail
<1>3. \A h \in Held' : Head(msg_queue) < h /\ h \in Nat /\ h \in Held
  BY <1>1, <1>2 DEF Held
<1>4. ASSUME NEW h \in Held, h # Head(msg_queue) PROVE h \in Held'
  <2>1. PICK k \in DOMAIN msg_queue : h = msg_queue[k]
    BY DEF Held
  <2>2. k - 1 \in DOMAIN msg_queue' /\ (k - 1) + 1 = k
    BY <1>1, <1>4, <2>1
  <2>3. h = msg_queue'[k - 1]
    BY <1>2, <2>1, <2>2
  <2> QED BY <2>2, <2>3 DEF Held
<1>5. Head(msg_queue) \in Held
  BY <1>1 DEF Held
<1>6. \A h \in Held' : h # Head(msg_queue)
  BY <1>1, <1>3
<1> QED
  BY <1>1, <1>3, <1>4, <1>5, <1>6

LEMMA HistFacts ==
    ASSUME TypeOK, NEW l \in Levels, hist' = Append(hist, l)
    PROVE  /\ Len(hist) \in Nat /\ Len(hist') = Len(hist) + 1
           /\ \A j \in 1 .. Len(hist) : hist'[j] = hist[j]
           /\ \A a \in Nat : \A j \in a .. Len(hist') :
                 j = Len(hist) + 1 \/ j \in a .. Len(hist)
<1>1. hist \in Seq(Levels)
  BY DEF TypeOK
<1> QED
  BY <1>1

LEMMA StepHeld == TypeOK /\ InOrder /\ HeldComplete /\ [Next]_vars => HeldComplete'
<1> SUFFICES ASSUME TypeOK, InOrder, HeldComplete, [Next]_vars PROVE HeldComplete'
  OBVIOUS
<1>0. Len(hist) \in Nat /\ \A h \in Held : h \in Nat
  BY OrderTypes DEF Held
<1>1. ASSUME NEW l \in Levels, Emit(l) PROVE HeldComplete'
  <2>1. pc = "idle" /\ hist' = Append(hist, l) /\ Len(hist) + 1 \in Nat
    BY <1>0, <1>1 DEF Emit
  <2>2. /\ Len(hist') = Len(hist) + 1
        /\ \A a \in Nat : \A j \in a .. Len(hist') :
              j = Len(hist) + 1 \/ j \in a .. Len(hist)
    BY <2>1, HistFacts
  <2>3. CASE EmitHeld(Len(hist) + 1)
    <3>1. /\ Held' \subseteq Held \cup {Len(hist) + 1} /\ lost \subseteq lost'
          /\ Held \cup {Len(hist) + 1} \subseteq Held' \cup lost'
      BY <2>1, <2>3, HeldAfter
    <3>2. pc' = "idle"
      BY <2>1, <2>3 DEF EmitHeld, hvars
    <3>3. ASSUME NEW h \in Held', NEW j \in h .. Len(hist')
          PROVE  j \in Held' \cup lost'
      <4>1. CASE j = Len(hist) + 1
        BY <3>1, <4>1
      <4>2. CASE j # Len(hist) + 1
        <5>1. h \in Held /\ j \in h .. Len(hist)
          <6>1. CASE h \in Held
            BY <1>0, <2>2, <4>2, <6>1, <3>3
          <6>2. CASE h = Len(hist) + 1
            BY <1>0, <2>2, <4>2, <6>2, <3>3
          <6> QED BY <3>1, <6>1, <6>2
        <5> QED BY <3>1, <5>1 DEF HeldComplete
      <4> QED BY <4>1, <4>2
    <3> QED BY <3>2, <3>3 DEF HeldComplete
  <2>4. CASE EmitNow(Len(hist) + 1)
    <3>1. Held' = {}
      BY <2>4 DEF EmitNow, HoldBack, Held
    <3>2. pc' = "send" => msg' = Len(hist) + 1
      BY <2>4, <2>1 DEF EmitNow, StartSend
    <3>3. pc' = "send" => msg' + 1 .. Len(hist') = {}
      BY <1>0, <2>2, <3>2
    <3> QED BY <3>1, <3>3 DEF HeldComplete
  <2> QED BY <1>1, <2>3, <2>4 DEF Emit
<1>2. CASE DrainOne
  <2>1. /\ msg_queue # <<>> /\ msg_queue' = Tail(msg_queue)
        /\ UNCHANGED <<hist, lost>>
        /\ pc' = "send" => msg' = Head(msg_queue)
    BY <1>2 DEF DrainOne, StartSend
  <2>2. /\ Head(msg_queue) \in Held /\ Head(msg_queue) \in Nat
        /\ Held' = Held \ {Head(msg_queue)}
        /\ \A h \in Held' : Head(msg_queue) < h /\ h \in Nat
    BY <2>1, HeldTail
  <2>3. \A j \in Head(msg_queue) + 1 .. Len(hist) : j \in Held' \cup lost
    <3>1. \A j \in Head(msg_queue) + 1 .. Len(hist) :
             j # Head(msg_queue) /\ j \in Head(msg_queue) .. Len(hist)
      BY <1>0, <2>2
    <3> QED BY <2>2, <3>1 DEF HeldComplete
  <2>4. \A h \in Held' : \A j \in h .. Len(hist) : j \in Held' \cup lost
    <3>1. \A h \in Held' : \A j \in h .. Len(hist) : j \in Head(msg_queue) + 1 .. Len(hist)
      BY <1>0, <2>2
    <3> QED BY <2>3, <3>1
  <2> QED BY <2>1, <2>3, <2>4 DEF HeldComplete
<1>3. CASE Send
  <2>1. PICK i \in DOMAIN ctrl_dst : SendSkip(i) \/ SendOk(i) \/ SendError(i)
    BY <1>3 DEF Send
  <2>2. \E n : Continue(n)
    BY <2>1 DEF SendSkip, SendOk, SendError
  <2>3. pc' = "send" => msg' = msg
    BY <2>2 DEF Continue, TypeOK
  <2>4. pc = "send" /\ Held' = Held /\ UNCHANGED <<hist, lost>>
    BY <1>3 DEF Send, qvars, Held
  <2> QED BY <2>3, <2>4 DEF HeldComplete
<1>4. CASE Deinit
  <2>1. Held' = {} /\ pc' = "idle"
    BY <1>4 DEF Deinit, Held, hvars
  <2> QED BY <2>1 DEF HeldComplete
<1>5. ASSUME UNCHANGED <<msg_queue, hist, lost>>,
             pc' # "send" \/ UNCHANGED <<pc, msg>>
      PROVE  HeldComplete'
  <2>1. Held' = Held
    BY <1>5 DEF Held
  <2> QED BY <1>5, <2>1 DEF HeldComplete
<1>6. ASSUME NEW m \in Monitors,
             Attach(m) \/ Open(m) \/ Close(m) \/ Read(m) \/ Detach(m)
               \/ \E l \in Levels : Level(m, l)
      PROVE  HeldComplete'
  BY <1>5, <1>6 DEF Attach, Open, Close, Read, Detach, Level, qvars, hvars
<1>7. CASE QueueTimeout \/ DrainDone
  BY <1>5, <1>7 DEF QueueTimeout, DrainDone
<1>8. CASE Start \/ UNCHANGED vars
  BY <1>5, <1>8 DEF Start, vars, qvars, hvars
<1> QED
  BY <1>1, <1>2, <1>3, <1>4, <1>6, <1>7, <1>8 DEF Next, Handler

\* With another socket nobody is connected any more.
LEMMA NoneListening ==
    ASSUME TypeOK, SocksKnown, UNCHANGED conn, sock' = 0 \/ sock' = nsock + 1
    PROVE  \A m \in Monitors : ~Listening(m)'
<1>1. \A m \in Monitors : conn[m] \in Nat /\ conn[m] <= nsock /\ nsock \in Nat
  BY DEF TypeOK, SocksKnown
<1> QED
  BY <1>1 DEF Listening

\* The monitors that are listening after a step were before it.
LEMMA StillListening ==
    ASSUME NEW m \in Monitors, Listening(m)', sock' = sock, conn'[m] = conn[m],
           got'[m] = got[m], gen'[m] = gen[m], LeftOf(ctrl_dst')
    PROVE  Listening(m)
<1>1. PICK k \in DOMAIN ctrl_dst' : ctrl_dst'[k].m = m /\ ctrl_dst'[k].gen = gen'[m]
  BY DEF Listening, Matches
<1>2. PICK j \in DOMAIN ctrl_dst : ctrl_dst[j].m = m /\ ctrl_dst[j].gen = gen[m]
  BY <1>1 DEF LeftOf
<1> QED
  BY <1>2 DEF Listening, Matches

\* The first node is that of the loop's start, so every entry is to come.
LEMMA AllToCome ==
    ASSUME TypeOK, Descends(ctrl_dst, nreq), NEW x, NEW b \in {"idle", "drain"},
           StartSend(x, b), UNCHANGED <<sock, conn, gen, got, ctrl_dst>>,
           NEW m \in Monitors, Listening(m)
    PROVE  pc' = "send" /\ msg' = x /\ ToCome(m)'
<1>1. PICK k \in Matches(m, gen[m]) : k \in DOMAIN ctrl_dst
  BY DEF Listening, Matches
<1>2. /\ Len(ctrl_dst) \in Nat /\ DOMAIN ctrl_dst = 1 .. Len(ctrl_dst)
      /\ \A j \in DOMAIN ctrl_dst : ctrl_dst[j].node \in Nat
  BY ListFacts
<1>3. 1 \in DOMAIN ctrl_dst /\ ctrl_dst # <<>> /\ (k = 1 \/ 1 < k)
  BY <1>1, <1>2
<1>4. ctrl_dst[k].node <= ctrl_dst[1].node
  BY <1>1, <1>2, <1>3 DEF Descends
<1>5. pc' = "send" /\ msg' = x /\ dst' = ctrl_dst[1].node
  BY <1>3 DEF StartSend, Listening
<1>6. k \in Matches(m, gen[m])'
  BY <1>1 DEF Matches
<1> QED
  BY <1>4, <1>5, <1>6 DEF ToCome

LEMMA EmitAccounted ==
    ASSUME TypeOK, InOrder, GInv, NEW l \in Levels, Emit(l)
    PROVE  Accounted'
<1>1. /\ pc = "idle" /\ hist' = Append(hist, l)
      /\ UNCHANGED <<sock, conn, gen, got, ctrl_dst>>
  BY DEF Emit, mvars
<1>2. /\ Len(hist) \in Nat /\ Len(hist') = Len(hist) + 1
      /\ \A j \in 1 .. Len(hist) : hist'[j] = hist[j]
  BY <1>1, HistFacts
<1> SUFFICES ASSUME NEW m \in Monitors, Listening(m)',
                    NEW j \in got[m] + 1 .. Len(hist'), hist'[j] = TOP
             PROVE  Explained(m, j)'
  BY <1>1 DEF Accounted
<1>3. Listening(m)
  BY <1>1 DEF Listening, Matches
<1>4. j # Len(hist) + 1 => j \in lost \/ j \in Held
  <2>1. got[m] \in Nat
    BY OrderTypes
  <2>2. j # Len(hist) + 1 => j \in got[m] + 1 .. Len(hist) /\ j \in 1 .. Len(hist)
    BY <1>2, <2>1
  <2>3. j # Len(hist) + 1 => Explained(m, j)
    BY <1>2, <1>3, <2>2 DEF GInv, Accounted
  <2> QED BY <1>1, <2>3 DEF Explained
<1>5. CASE EmitHeld(Len(hist) + 1)
  <2>1. /\ lost \subseteq lost'
        /\ Held \cup {Len(hist) + 1} \subseteq Held' \cup lost'
    BY <1>2, <1>5, HeldAfter
  <2> QED BY <1>4, <2>1 DEF Explained
<1>6. CASE EmitNow(Len(hist) + 1)
  <2>1. Held = {} /\ lost' = lost
    BY <1>6 DEF EmitNow, HoldBack, Held
  <2>2. pc' = "send" /\ msg' = Len(hist) + 1 /\ ToCome(m)'
    <3>1. StartSend(Len(hist) + 1, "idle")
      BY <1>6 DEF EmitNow
    <3> QED BY <1>1, <1>3, <3>1, AllToCome DEF GInv
  <2> QED BY <1>4, <2>1, <2>2 DEF Explained
<1> QED
  BY <1>5, <1>6 DEF Emit

LEMMA DrainAccounted ==
    ASSUME TypeOK, InOrder, GInv, DrainOne PROVE Accounted'
<1>1. /\ msg_queue # <<>> /\ msg_queue' = Tail(msg_queue) /\ pc = "drain"
      /\ StartSend(Head(msg_queue), "drain")
      /\ UNCHANGED <<sock, conn, gen, got, ctrl_dst, hist, lost>>
  BY DEF DrainOne, mvars
<1>2. Held' = Held \ {Head(msg_queue)}
  BY <1>1, HeldTail
<1> SUFFICES ASSUME NEW m \in Monitors, Listening(m)',
                    NEW j \in got[m] + 1 .. Len(hist), hist[j] = TOP
             PROVE  Explained(m, j)'
  BY <1>1 DEF Accounted
<1>3. Listening(m)
  BY <1>1 DEF Listening, Matches
<1>4. j \in lost \/ j \in Held
  BY <1>1, <1>3 DEF GInv, Accounted, Explained
<1>5. pc' = "send" /\ msg' = Head(msg_queue) /\ ToCome(m)'
  BY <1>1, <1>3, AllToCome DEF GInv
<1> QED
  BY <1>1, <1>2, <1>4, <1>5 DEF Explained

\* The monitor whose entry is at i is connected, or the entry is an old one.
LEMMA SendErrors ==
    ASSUME TypeOK, SocksKnown, NEW i \in DOMAIN ctrl_dst, SendError(i),
           UNCHANGED <<conn, gen>>, NEW m \in Monitors, Listening(m)'
    PROVE  /\ UNCHANGED sock /\ Continue(NodeAfter(i))
           /\ ctrl_dst[i].m # m \/ ctrl_dst[i].gen # gen[m]
<1>1. PICK errno \in SendResults(ctrl_dst[i]) \ {"ok"} :
          IF errno = "EAGAIN"
          THEN /\ Reinit
               /\ Continue(IF sock' = 0 THEN 0 ELSE NodeAfter(i))
          ELSE /\ Continue(NodeAfter(i))
               /\ UNCHANGED <<sock, nsock>>
  BY DEF SendError
<1>2. errno # "EAGAIN"
  <2>1. ASSUME Reinit PROVE FALSE
    <3>1. sock' = 0 \/ sock' = nsock + 1
      BY <2>1 DEF Reinit
    <3> QED BY <3>1, NoneListening
  <2> QED BY <1>1, <2>1
<1>3. sock' = sock /\ conn[m] = sock /\ sock # 0
  BY <1>1, <1>2 DEF Listening
<1>4. ctrl_dst[i].m = m /\ ctrl_dst[i].gen = gen[m] =>
         errno \in {"EAGAIN", "ok"}
  BY <1>1, <1>3 DEF SendResults
<1> QED
  BY <1>1, <1>2, <1>3, <1>4

LEMMA SendAccounted ==
    ASSUME TypeOK, InOrder, GInv, Send PROVE Accounted'
<1>1. PICK i \in DOMAIN ctrl_dst :
        ctrl_dst[i].node = dst /\ (SendSkip(i) \/ SendOk(i) \/ SendError(i))
  BY DEF Send
<1>2. pc = "send" /\ UNCHANGED <<msg_queue, conn, gen, hist, lost>> /\ Held' = Held
  BY DEF Send, qvars, Held
<1>3. /\ Len(hist) \in Nat /\ msg \in Nat /\ \A m \in Monitors : got[m] \in Nat
      /\ hist \in Seq(Levels)
  BY OrderTypes DEF TypeOK
<1>4. LeftOf(ctrl_dst')
  BY <1>1, SentList DEF GInv
<1> SUFFICES ASSUME NEW m \in Monitors, Listening(m)',
                    NEW j \in got'[m] + 1 .. Len(hist), hist[j] = TOP
             PROVE  Explained(m, j)'
  BY <1>2 DEF Accounted
\* An entry of m after the one at i is to come still, if it is still there.
<1>5. ASSUME Continue(NodeAfter(i)), NEW k \in Matches(m, gen[m]),
             ctrl_dst[k].node < dst, StillIn(ctrl_dst', k)
      PROVE  pc' = "send" /\ msg' = msg /\ ToCome(m)'
  <2>1. k \in DOMAIN ctrl_dst /\ ctrl_dst[k].m = m /\ ctrl_dst[k].gen = gen[m]
    BY <1>5 DEF Matches
  <2>2. NodeAfter(i) # 0 /\ ctrl_dst[k].node <= NodeAfter(i)
    BY <1>1, <1>5, <2>1, LaterNode DEF GInv
  <2>3. pc' = "send" /\ msg' = msg /\ dst' = NodeAfter(i)
    BY <1>2, <1>5, <2>2 DEF Continue
  <2>4. PICK n \in DOMAIN ctrl_dst' :
           /\ ctrl_dst'[n].node = ctrl_dst[k].node
           /\ ctrl_dst'[n].m = m /\ ctrl_dst'[n].gen = gen[m]
    BY <1>5, <2>1 DEF StillIn
  <2>5. n \in Matches(m, gen[m])'
    BY <1>2, <2>4 DEF Matches
  <2> QED BY <2>2, <2>3, <2>4, <2>5 DEF ToCome
<1>6. ASSUME UNCHANGED sock, got'[m] = got[m]
      PROVE  Explained(m, j)
  <2>1. Listening(m)
    BY <1>2, <1>4, <1>6, StillListening
  <2> QED BY <1>6, <2>1 DEF GInv, Accounted
<1>7. CASE SendSkip(i)
  <2>1. UNCHANGED <<sock, got>> /\ hist[msg] < ctrl_dst[i].level
    BY <1>7 DEF SendSkip
  <2>2. j # msg
    <3>1. ctrl_dst[i].level <= TOP /\ ctrl_dst[i].level \in Nat /\ TOP \in Nat
      BY ListFacts, LevelAssumption DEF GInv, Descends
    <3> QED BY <2>1, <3>1
  <2>3. j \in lost \/ j \in Held
    BY <1>6, <2>1, <2>2 DEF Explained
  <2> QED BY <1>2, <2>3 DEF Explained
<1>8. CASE SendOk(i)
  <2>1. /\ UNCHANGED sock /\ Continue(NodeAfter(i))
        /\ got' = [got EXCEPT ![ctrl_dst[i].m] = msg]
    BY <1>8 DEF SendOk
  <2>2. CASE ctrl_dst[i].m = m
    <3>1. got'[m] = msg
      BY <2>1, <2>2 DEF TypeOK
    <3>2. j \in msg + 1 .. Len(hist)
      BY <3>1
    <3>3. j \in Held \cup lost
      BY <1>2, <3>2 DEF GInv, HeldComplete
    <3> QED BY <1>2, <3>3 DEF Explained
  <2>3. CASE ctrl_dst[i].m # m
    <3>1. got'[m] = got[m]
      BY <2>1, <2>3 DEF TypeOK
    <3>2. Explained(m, j)
      BY <1>6, <2>1, <3>1
    <3>3. CASE j \in lost \/ j \in Held
      BY <1>2, <3>3 DEF Explained
    <3>4. CASE j = msg /\ ToCome(m)
      <4>1. PICK k \in Matches(m, gen[m]) : ctrl_dst[k].node <= dst
        BY <3>4 DEF ToCome
      <4>2. k \in DOMAIN ctrl_dst /\ ctrl_dst[k].m = m
        BY DEF Matches
      <4>3. ctrl_dst[k].node < dst
        <5>1. k # i /\ (k < i \/ i < k)
          BY <2>3, <4>2, ListFacts
        <5>2. ctrl_dst[k].node # ctrl_dst[i].node
          BY <4>2, <5>1, ListFacts DEF GInv, Descends
        <5> QED BY <1>1, <4>1, <4>2, <5>2, ListFacts
      <4>4. StillIn(ctrl_dst', k)
        BY <1>1, <2>3, <4>2, SentList DEF GInv
      <4>5. pc' = "send" /\ msg' = msg /\ ToCome(m)'
        BY <1>5, <2>1, <4>1, <4>3, <4>4
      <4> QED BY <3>4, <4>5 DEF Explained
    <3> QED BY <3>2, <3>3, <3>4 DEF Explained
  <2> QED BY <2>2, <2>3
<1>9. CASE SendError(i)
  <2>1. /\ UNCHANGED sock /\ Continue(NodeAfter(i))
        /\ ctrl_dst[i].m # m \/ ctrl_dst[i].gen # gen[m]
    BY <1>2, <1>9, SendErrors DEF GInv
  <2>2. got' = got
    BY <1>9 DEF SendError
  <2>3. Explained(m, j)
    BY <1>6, <2>1, <2>2
  <2>4. CASE j \in lost \/ j \in Held
    BY <1>2, <2>4 DEF Explained
  <2>5. CASE j = msg /\ ToCome(m)
    <3>1. PICK k \in Matches(m, gen[m]) : ctrl_dst[k].node <= dst
      BY <2>5 DEF ToCome
    <3>2. k \in DOMAIN ctrl_dst /\ ctrl_dst[k].m = m /\ ctrl_dst[k].gen = gen[m]
      BY DEF Matches
    <3>3. ctrl_dst[k].node < dst
      <4>1. k # i /\ (k < i \/ i < k)
        BY <2>1, <3>2, ListFacts
      <4>2. ctrl_dst[k].node # ctrl_dst[i].node
        BY <3>2, <4>1, ListFacts DEF GInv, Descends
      <4> QED BY <1>1, <3>1, <3>2, <4>2, ListFacts
    <3>4. StillIn(ctrl_dst', k)
      BY <1>1, <2>1, <3>2, SentList DEF GInv
    <3>5. pc' = "send" /\ msg' = msg /\ ToCome(m)'
      BY <1>5, <2>1, <3>1, <3>3, <3>4
    <3> QED BY <2>5, <3>5 DEF Explained
  <2> QED BY <2>3, <2>4, <2>5 DEF Explained
<1> QED
  BY <1>1, <1>7, <1>8, <1>9

\* Between events, a step that lets nobody else listen explains as much.
LEMMA IdleAccounted ==
    ASSUME TypeOK, GInv, UNCHANGED <<msg_queue, hist, lost>>,
           pc # "send", pc' # "send",
           \A m \in Monitors : Listening(m)' => Listening(m) /\ got'[m] = got[m]
    PROVE  Accounted'
<1>1. Held' = Held
  BY DEF Held
<1> QED
  BY <1>1 DEF GInv, Accounted, Explained

LEMMA RequestAccounted ==
    ASSUME TypeOK, GInv, NEW r \in Monitors,
           Attach(r) \/ Detach(r) \/ \E l \in Levels : Level(r, l)
    PROVE  Accounted'
<1>1. /\ pc = "idle" /\ pc' = "idle" /\ Answer(r)
      /\ UNCHANGED <<msg_queue, hist, lost, conn, gen>>
  BY DEF Attach, Detach, Level, Request, qvars, hvars
<1>2. ASSUME NEW m \in Monitors, Listening(m)'
      PROVE  Listening(m) /\ got'[m] = got[m]
  <2>1. UNCHANGED sock
    <3>1. ASSUME Reinit PROVE FALSE
      <4>1. sock' = 0 \/ sock' = nsock + 1
        BY <3>1 DEF Reinit
      <4> QED BY <1>1, <1>2, <4>1, NoneListening DEF GInv
    <3> QED BY <1>1, <3>1 DEF Answer
  <2>2. CASE Attach(r)
    <3>1. got'[m] # 0
      BY <1>2 DEF Listening
    <3>2. got' = IF Matches(r, gen[r]) = {} THEN [got EXCEPT ![r] = 0] ELSE got
      BY <2>2 DEF Attach
    <3>3. got'[m] = got[m] /\ (m = r => Matches(r, gen[r]) # {})
      BY <3>1, <3>2 DEF TypeOK
    <3>4. Matches(m, gen[m]) # {}
      <4>1. CASE m = r
        BY <3>3, <4>1
      <4>2. CASE m # r /\ ctrl_dst' = Attached(r)
        <5>1. PICK k \in DOMAIN ctrl_dst' :
                 ctrl_dst'[k].m = m /\ ctrl_dst'[k].gen = gen[m]
          BY <1>1, <1>2 DEF Listening, Matches
        <5>2. PICK n \in DOMAIN ctrl_dst : ctrl_dst'[k] = ctrl_dst[n]
          BY <4>2, <5>1, AttachedList DEF GInv
        <5> QED BY <5>1, <5>2 DEF Matches
      <4>3. CASE ctrl_dst' = ctrl_dst
        BY <1>1, <1>2, <4>3 DEF Listening, Matches
      <4> QED BY <2>2, <4>1, <4>2, <4>3 DEF Attach
    <3> QED BY <1>1, <1>2, <2>1, <3>3, <3>4 DEF Listening
  <2>3. CASE Detach(r) \/ \E l \in Levels : Level(r, l)
    <3>1. got' = got
      BY <2>3 DEF Detach, Level
    <3>2. LeftOf(ctrl_dst')
      BY <2>3, DetachedList, LeveledList DEF Detach, Level, GInv
    <3> QED BY <1>1, <1>2, <2>1, <3>1, <3>2, StillListening
  <2> QED BY <2>2, <2>3
<1> QED
  BY <1>1, <1>2, IdleAccounted

LEMMA MonitorAccounted ==
    ASSUME TypeOK, GInv, NEW r \in Monitors, Open(r) \/ Close(r) \/ Read(r)
    PROVE  Accounted'
<1>1. /\ UNCHANGED <<sock, ctrl_dst, msg_queue, hist, lost, pc, msg, dst>>
      /\ Held' = Held
  BY DEF Open, Close, Read, qvars, hvars, Held
<1> SUFFICES ASSUME NEW m \in Monitors, Listening(m)' PROVE
                 \A j \in got'[m] + 1 .. Len(hist) : hist[j] = TOP => Explained(m, j)'
  BY <1>1 DEF Accounted
<1>2. got'[m] # 0
  BY DEF Listening
<1>3. conn'[m] = conn[m] /\ gen'[m] = gen[m] /\ got'[m] = got[m]
  BY <1>2 DEF Open, Close, Read, TypeOK
<1>4. Matches(m, gen[m])' = Matches(m, gen[m])
  BY <1>1, <1>3 DEF Matches
<1>5. Listening(m) /\ (ToCome(m)' <=> ToCome(m))
  BY <1>1, <1>3, <1>4 DEF Listening, ToCome
<1> QED
  BY <1>1, <1>3, <1>5 DEF GInv, Accounted, Explained

LEMMA StepGap == TypeOK /\ InOrder /\ GInv /\ [Next]_vars => GInv'
<1> SUFFICES ASSUME TypeOK, InOrder, GInv, [Next]_vars PROVE GInv'
  OBVIOUS
<1>1. SocksKnown' /\ Descends(ctrl_dst', nreq') /\ HeldComplete'
  BY StepSocks, StepDescends, StepHeld DEF GInv
<1>2. Accounted'
  <2>1. CASE QueueTimeout \/ DrainDone
    <3>1. /\ pc # "send" /\ pc' # "send" /\ UNCHANGED <<msg_queue, hist, lost>>
          /\ UNCHANGED <<sock, ctrl_dst, conn, gen, got>>
      BY <2>1 DEF QueueTimeout, DrainDone, mvars
    <3>2. \A m \in Monitors : Listening(m)' => Listening(m)
      BY <3>1 DEF Listening, Matches
    <3> QED BY <3>1, <3>2, IdleAccounted
  <2>2. CASE Deinit \/ Start
    <3>1. (sock' = 0 \/ sock' = nsock + 1) /\ UNCHANGED conn
      BY <2>2 DEF Deinit, Start, mvars
    <3> QED BY <3>1, NoneListening DEF GInv, Accounted
  <2>3. CASE UNCHANGED vars
    <3>1. UNCHANGED <<sock, ctrl_dst, conn, gen, got, msg_queue, hist, lost, pc, msg, dst>>
      BY <2>3 DEF vars, qvars, hvars, mvars
    <3> QED BY <3>1 DEF GInv, Accounted, Listening, Explained, ToCome, Matches, Held
  <2> QED
    BY <2>1, <2>2, <2>3, EmitAccounted, DrainAccounted, SendAccounted,
       RequestAccounted, MonitorAccounted DEF Next, Handler
<1> QED
  BY <1>1, <1>2 DEF GInv

\* A monitor that goes on being sent events has missed none of the highest
\* level but those the queue dropped: whatever else keeps an event from it
\* (wpa_supplicant_ctrl_iface_send, wpas_ctrl_iface_reinit) ends its
\* attachment or its connection.
THEOREM GapsAreDropped == Spec => NoSilentGap
<1>1. Init => InOrder /\ GInv
  <2> SUFFICES ASSUME Init PROVE InOrder /\ GInv
    OBVIOUS
  <2>1. InOrder
    BY DEF Init, InOrder, QueueOrdered, SentBefore
  <2>2. SocksKnown /\ Descends(ctrl_dst, nreq)
    BY DEF Init, SocksKnown, Descends
  <2>3. Held = {} /\ pc = "idle" /\ \A m \in Monitors : got[m] = 0
    BY DEF Init, Held
  <2>4. HeldComplete /\ Accounted
    BY <2>3 DEF HeldComplete, Accounted, Listening
  <2> QED BY <2>1, <2>2, <2>4 DEF GInv
<1>2. ASSUME TypeOK, InOrder, GInv, [Next]_vars
      PROVE  [\A m \in Monitors : got[m] # 0 /\ got'[m] > got[m] =>
                 \A i \in got[m] + 1 .. got'[m] - 1 :
                     hist[i] = TOP => i \in lost]_vars
  <2>1. \A m \in Monitors : got[m] \in Nat /\ Len(hist) \in Nat /\ msg \in Nat
    BY <1>2, OrderTypes
  <2>2. CASE Send
    <3> SUFFICES ASSUME NEW m \in Monitors, got[m] # 0, got'[m] > got[m],
                        NEW j \in got[m] + 1 .. got'[m] - 1, hist[j] = TOP
                 PROVE  j \in lost
      OBVIOUS
    <3>1. PICK i \in DOMAIN ctrl_dst :
             SendSkip(i) \/ SendOk(i) \/ SendError(i)
      BY <2>2 DEF Send
    <3>2. SendOk(i)
      <4>1. got' # got
        BY <2>1
      <4> QED BY <3>1, <4>1 DEF SendSkip, SendError
    <3>3. /\ ctrl_dst[i].m = m /\ got'[m] = msg
          /\ "ok" \in SendResults(ctrl_dst[i])
      <4>1. got' = [got EXCEPT ![ctrl_dst[i].m] = msg]
        BY <3>2 DEF SendOk
      <4>2. got'[m] # got[m]
        BY <2>1
      <4> QED BY <1>2, <3>2, <4>1, <4>2 DEF SendOk, TypeOK
    <3>4. Listening(m)
      BY <3>3 DEF SendResults, Listening, Matches
    <3>5. pc = "send" /\ msg <= Len(hist) /\ \A k \in DOMAIN msg_queue : msg < msg_queue[k]
      BY <1>2, <2>2 DEF Send, InOrder, SentBefore
    <3>6. j \in got[m] + 1 .. Len(hist) /\ j < msg
      BY <2>1, <3>3, <3>5
    <3>7. Explained(m, j)
      BY <1>2, <3>4, <3>6 DEF GInv, Accounted
    <3>8. j \notin Held /\ j # msg
      BY <1>2, <2>1, <3>5, <3>6, OrderTypes DEF Held
    <3> QED BY <3>7, <3>8 DEF Explained
  <2>3. ASSUME NEW m \in Monitors, Attach(m) \/ Open(m) \/ Close(m)
        PROVE  \A n \in Monitors : got'[n] = got[n] \/ got'[n] = 0
    BY <1>2, <2>3 DEF Attach, Open, Close, TypeOK
  <2>4. ASSUME \A n \in Monitors : got'[n] = got[n] \/ got'[n] = 0
        PROVE  \A n \in Monitors : ~(got'[n] > got[n])
    BY <2>1, <2>4
  <2>5. CASE got' = got
    BY <2>1, <2>5
  <2> QED
    BY <1>2, <2>2, <2>3, <2>4, <2>5 DEF Next, Handler, Detach, Level, Read, Emit,
       QueueTimeout, DrainOne, DrainDone, Deinit, Start, vars, mvars
<1> QED
  BY <1>1, <1>2, StepGap, StepOrder, InitType, StepType, PTL DEF Spec, NoSilentGap
=============================================================================
