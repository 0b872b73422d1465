--------------------------- MODULE RadioWorkProofs ---------------------------
(***************************************************************************)
(* Proofs about the radio work queue, for any interfaces, kinds of work and  *)
(* bounds.                                                                  *)
(***************************************************************************)
EXTENDS RadioWork, FiniteSetTheorems, WellFoundedInduction, TLAPS

\* No two works of the queue have the same number.
Numbered ==
    /\ IsFiniteSet(work)
    /\ \A v, w \in work : v.n = w.n => v = w
    /\ \A w \in work : w.n <= added

\* The inductive invariant: the counter is right because every started work
\* is one element, and works run in parallel in the allowed pairs because the
\* counter is right.
RInv == TypeOK /\ Numbered /\ ActiveCount /\ ParallelWorks /\ NoStall

-----------------------------------------------------------------------------
(* The steps by what they do to the queue *)

\* radio_work_free of the works in S.
Removes(S) ==
    /\ S \subseteq work
    /\ work' = work \ S
    /\ num_active_works' = ActiveWithout(S)
    /\ UNCHANGED <<simultaneous, added>>

\* radio_add_work, after the waiting works in S are gone.
Adds(i, kind, S) ==
    /\ i \in ifaces /\ kind \in Kinds
    /\ S \subseteq work /\ S \cap Started = {}
    /\ added < MaxWorks /\ added' = added + 1
    /\ work' = (work \ S) \cup {New(i, kind)}
    /\ UNCHANGED <<config, num_active_works>>

\* Work w is replaced by v, the same work in another condition.
Becomes(w, v) ==
    /\ w \in work /\ v.n = w.n /\ v.iface = w.iface /\ v.kind = w.kind
    /\ v \in Work
    /\ work' = (work \ {w}) \cup {v}
    /\ UNCHANGED <<config, added>>

LEMMA TypeFacts ==
    ASSUME TypeOK
    PROVE  /\ added \in Nat /\ MaxWorks \in Nat /\ added <= MaxWorks
           /\ num_active_works \in Nat
           /\ \A w \in work :
                 /\ w.n \in Nat /\ w.n \in 1 .. MaxWorks /\ w.iface \in ifaces
                 /\ w.iface \in Ifaces /\ w.kind \in Kinds
                 /\ w.started \in BOOLEAN /\ w.over \in BOOLEAN
<1>1. MaxWorks \in Nat
  BY RadioAssumption
<1> QED
  BY <1>1 DEF TypeOK, Work

LEMMA StartedFinite ==
    ASSUME IsFiniteSet(work)
    PROVE  IsFiniteSet(Started) /\ Cardinality(Started) \in Nat
<1>1. Started \subseteq work
  BY DEF Started
<1> QED
  BY <1>1, FS_Subset, FS_CardinalityType

LEMMA RemovesStarted ==
    ASSUME NEW S, Removes(S) PROVE Started' = Started \ (S \cap Started)
  BY DEF Removes, Started

LEMMA AddsStarted ==
    ASSUME NEW i, NEW kind, NEW S, Adds(i, kind, S) PROVE Started' = Started
<1>1. ~New(i, kind).started
  BY DEF New
<1> QED
  BY <1>1 DEF Adds, Started

\* What the steps of the queue keep of Numbered, and of the types of works.
LEMMA RemovesNumbered ==
    ASSUME Numbered, NEW S, Removes(S) PROVE Numbered'
<1>1. IsFiniteSet(work')
  BY FS_Subset DEF Removes, Numbered
<1> QED
  BY <1>1 DEF Removes, Numbered

LEMMA AddsNumbered ==
    ASSUME TypeOK, Numbered, NEW i, NEW kind, NEW S, Adds(i, kind, S)
    PROVE  Numbered' /\ work' \subseteq Work'
<1>1. IsFiniteSet(work')
  <2>1. IsFiniteSet(work \ S)
    BY FS_Subset DEF Numbered
  <2> QED BY <2>1, FS_AddElement DEF Adds
<1>2. New(i, kind).n = added + 1
  BY DEF New
<1>3. \A v, w \in work' : v.n = w.n => v = w
  BY <1>2, TypeFacts DEF Adds, Numbered
<1>4. \A w \in work' : w.n <= added'
  BY <1>2, TypeFacts DEF Adds, Numbered
<1>5. New(i, kind) \in Work
  BY TypeFacts DEF Adds, New, Work
<1> QED
  BY <1>1, <1>3, <1>4, <1>5 DEF Adds, Numbered, TypeOK, Work, config

LEMMA BecomesNumbered ==
    ASSUME TypeOK, Numbered, NEW w, NEW v, Becomes(w, v)
    PROVE  Numbered' /\ work' \subseteq Work'
<1>1. IsFiniteSet(work')
  <2>1. IsFiniteSet(work \ {w})
    BY FS_Subset DEF Numbered
  <2> QED BY <2>1, FS_AddElement DEF Becomes
<1> QED
  BY <1>1 DEF Becomes, Numbered, TypeOK, Work, config

-----------------------------------------------------------------------------
(* Every step of the specification is one of those steps *)

LEMMA ExceptFacts ==
    ASSUME TypeOK, NEW w \in work
    PROVE  /\ [w EXCEPT !.started = TRUE] \in Work
           /\ [w EXCEPT !.started = TRUE].started
           /\ [w EXCEPT !.started = TRUE].n = w.n
           /\ [w EXCEPT !.started = TRUE].iface = w.iface
           /\ [w EXCEPT !.started = TRUE].kind = w.kind
           /\ [w EXCEPT !.over = TRUE] \in Work
           /\ [w EXCEPT !.over = TRUE].started = w.started
           /\ [w EXCEPT !.over = TRUE].n = w.n
           /\ [w EXCEPT !.over = TRUE].iface = w.iface
           /\ [w EXCEPT !.over = TRUE].kind = w.kind
<1>1. w \in Work
  BY DEF TypeOK
<1> QED
  BY <1>1 DEF Work
\* The work that is started waits; with parallel works allowed, fewer than
\* MAX_ACTIVE_WORKS run and each of them may run beside it.
Startable(w) ==
    /\ w \in work /\ ~w.started
    /\ simultaneous =>
          /\ num_active_works < MAX_ACTIVE_WORKS
          /\ \A a \in Started : ~IsConnect(a) /\ ~IsConnect(w) /\ Parallel(a, w)

LEMMA OneStarted ==
    ASSUME TypeOK, Numbered, ActiveCount, Started # {},
           num_active_works < MAX_ACTIVE_WORKS
    PROVE  \E a : Started = {a} /\ First(Started) = {a}
<1>1. MAX_ACTIVE_WORKS \in 1 .. 2
  BY RadioAssumption
<1>2. IsFiniteSet(Started) /\ Cardinality(Started) \in Nat
  BY StartedFinite DEF Numbered
<1>3. Cardinality(Started) # 0
  BY <1>2, FS_EmptySet
<1>4. Cardinality(Started) = 1
  BY <1>1, <1>2, <1>3 DEF ActiveCount
<1>5. PICK a : Started = {a}
  BY <1>2, <1>4, FS_Singleton
<1>6. a.n \in Nat
  BY <1>5, TypeFacts DEF Started
<1>7. ~Ahead(a, a)
  BY <1>6 DEF Ahead, Position
<1> QED
  BY <1>5, <1>7 DEF First

LEMMA ToStartFacts ==
    ASSUME RInv, NEW skip, NEW w \in ToStart(skip) PROVE Startable(w)
<1>0. TypeOK /\ Numbered /\ ActiveCount
  BY DEF RInv
<1>1. CASE ~simultaneous
  BY <1>1 DEF ToStart, First, Startable
<1>2. CASE simultaneous
  <2>1. num_active_works < MAX_ACTIVE_WORKS /\ w \in NextWork(skip)
    BY <1>2 DEF ToStart
  <2>2. CASE Started = {}
    BY <1>2, <2>1, <2>2 DEF NextWork, First, Startable, Started
  <2>3. CASE Started # {}
    <3>1. PICK a : Started = {a} /\ First(Started) = {a}
      BY <1>0, <2>1, <2>3, OneStarted
    <3>2. /\ w \in work \ Started
          /\ \A c \in work \ Started : IsConnect(c) => Ahead(w, c)
          /\ \A b \in First(Started) : ~IsConnect(b) /\ Parallel(b, w)
      BY <2>1, <2>3 DEF NextWork, First
    <3>3. ~Ahead(w, w)
      <4>1. w.n \in Nat
        BY <1>0, <3>2, TypeFacts
      <4> QED BY <4>1 DEF Ahead, Position
    <3> QED BY <1>2, <2>1, <3>1, <3>2, <3>3 DEF Startable, Started
  <2> QED BY <2>2, <2>3
<1> QED
  BY <1>1, <1>2

LEMMA RecountedSame == ASSUME RInv PROVE Recounted = num_active_works
<1>1. ASSUME Started = {} PROVE num_active_works = 0
  BY <1>1, FS_EmptySet DEF RInv, ActiveCount
<1>2. work = {} => Started = {}
  BY DEF Started
<1> QED
  BY <1>1, <1>2 DEF Recounted

\* What a step may do to the queue and its counter.
Shape ==
    \/ \E S : Removes(S)
    \/ \E i, kind, S : Adds(i, kind, S)
    \/ \E w : /\ Startable(w)
              /\ Becomes(w, [w EXCEPT !.started = TRUE])
              /\ num_active_works' = num_active_works + 1
    \/ \E w \in Started : /\ Becomes(w, [w EXCEPT !.over = TRUE])
                          /\ UNCHANGED num_active_works
    \/ UNCHANGED <<simultaneous, work, num_active_works, added>>

\* A work that waits goes: the counter stays.
LEMMA RemovesWaiting ==
    ASSUME RInv, NEW w \in work, ~w.started, work' = work \ {w},
           UNCHANGED <<simultaneous, num_active_works, added>>
    PROVE  Shape
<1>1. {w} \cap Started = {}
  BY DEF Started
<1>2. ActiveWithout({w}) = num_active_works
  BY <1>1, FS_EmptySet DEF ActiveWithout, RInv, TypeOK
<1>3. Removes({w})
  BY <1>2 DEF Removes
<1> QED
  BY <1>3 DEF Shape

LEMMA StepShape == ASSUME RInv, [Next]_vars PROVE Shape
<1> USE DEF config
<1>0. TypeOK
  BY DEF RInv
<1>1. ASSUME NEW i \in Ifaces, NEW kind \in Kinds, AddWork(i, kind)
      PROVE  Shape
  <2>1. Adds(i, kind, {})
    BY <1>1 DEF AddWork, Up, Adds
  <2> QED BY <2>1 DEF Shape
<1>2. ASSUME NEW i \in Ifaces, NEW kind \in Kinds, Connect(i, kind)
      PROVE  Shape
  <2> DEFINE mine == {w \in work : w.iface = i /\ IsConnect(w)}
  <2>1. Adds(i, kind, mine)
    BY <1>2 DEF Connect, Up, Adds
  <2> QED BY <2>1 DEF Shape
<1>3. ASSUME NEW skip, StartNothing(skip) PROVE Shape
  BY <1>3, RecountedSame DEF StartNothing, Shape
<1>4. ASSUME NEW skip, Start(skip) PROVE Shape
  <2>1. PICK w \in ToStart(skip) :
           /\ work' = (work \ {w}) \cup {[w EXCEPT !.started = TRUE]}
           /\ num_active_works' = Recounted + 1
    BY <1>4 DEF Start
  <2>2. Startable(w) /\ w \in work
    BY <2>1, ToStartFacts DEF Startable
  <2>3. Becomes(w, [w EXCEPT !.started = TRUE])
    BY <1>0, <1>4, <2>1, <2>2, ExceptFacts DEF Becomes, Start
  <2> QED BY <2>1, <2>2, <2>3, RecountedSame DEF Shape
<1>5. ASSUME NEW skip, StartFails(skip) PROVE Shape
  <2>1. PICK w \in ToStart(skip) :
           work' = work \ {w} /\ num_active_works' = Recounted
    BY <1>5 DEF StartFails
  <2>2. w \in work /\ ~w.started
    BY <2>1, ToStartFacts DEF Startable
  <2> QED BY <1>5, <2>1, <2>2, RecountedSame, RemovesWaiting DEF StartFails
<1>6. ASSUME NEW w \in work, Done(w), UNCHANGED <<simultaneous, added>>
      PROVE  Shape
  <2>1. Removes({w})
    BY <1>6 DEF Done, Removes
  <2> QED BY <2>1 DEF Shape
<1>7. ASSUME NEW n, Finish(n) \/ ScanResults(n) PROVE Shape
  <2>1. PICK w \in work : Done(w) /\ UNCHANGED <<simultaneous, added>>
    BY <1>7 DEF Finish, ScanResults, Started
  <2> QED BY <1>6, <2>1
<1>8. ASSUME NEW n, ScanResultsFail(n) PROVE Shape
  <2>1. PICK w \in Started :
           /\ work' = (work \ {w}) \cup {[w EXCEPT !.over = TRUE]}
           /\ UNCHANGED <<config, num_active_works, added>>
    BY <1>8 DEF ScanResultsFail
  <2>2. w \in work
    BY DEF Started
  <2>3. Becomes(w, [w EXCEPT !.over = TRUE])
    BY <1>0, <2>1, <2>2, ExceptFacts DEF Becomes
  <2> QED BY <2>1, <2>3 DEF Shape
<1>9. ASSUME NEW i, NEW n, ExtDone(i, n) PROVE Shape
  <2>1. PICK w \in work :
           /\ IF w.started THEN Done(w)
              ELSE /\ work' = work \ {w}
                   /\ UNCHANGED <<num_active_works, timer, lost>>
           /\ UNCHANGED <<simultaneous, added>>
    BY <1>9 DEF ExtDone
  <2>2. CASE w.started
    BY <1>6, <2>1, <2>2
  <2>3. CASE ~w.started
    BY <2>1, <2>3, RemovesWaiting
  <2> QED BY <2>2, <2>3
<1>10. ASSUME NEW i, Disable(i) PROVE Shape
  <2>1. Removes({w \in work : w.iface = i})
    BY <1>10 DEF Disable, RemoveWorks, Removes
  <2> QED BY <2>1 DEF Shape
<1>11. ASSUME NEW i, FlushAll(i) PROVE Shape
  <2>1. Removes(work)
    BY <1>11 DEF FlushAll, Removes
  <2> QED BY <2>1 DEF Shape
<1>12. ASSUME NEW i, RemoveIface(i) PROVE Shape
  <2>1. Removes(GoneWith(i))
    BY <1>12 DEF RemoveIface, GoneWith, Removes
  <2> QED BY <2>1 DEF Shape
<1>13. ASSUME NEW i, ExternalScanResults(i) \/ Enable(i) PROVE Shape
  BY <1>13 DEF ExternalScanResults, Enable, Shape
<1>14. CASE ExternalScan \/ UNCHANGED vars
  BY <1>14 DEF ExternalScan, vars, Shape
<1> QED
  BY <1>1, <1>2, <1>3, <1>4, <1>5, <1>7, <1>8, <1>9, <1>10, <1>11, <1>12,
     <1>13, <1>14 DEF Next, StartNext
-----------------------------------------------------------------------------
(* The counter and the works that run together *)

\* A work that is started is a new element of Started; one that is over
\* takes its own place in it.
LEMMA BecomesStarted ==
    ASSUME TypeOK, Numbered, NEW w \in work,
           Becomes(w, [w EXCEPT !.started = TRUE]), ~w.started
    PROVE  /\ Started' = Started \cup {[w EXCEPT !.started = TRUE]}
           /\ [w EXCEPT !.started = TRUE] \notin Started
<1> DEFINE v == [w EXCEPT !.started = TRUE]
<1>1. v.started /\ v.n = w.n
  BY ExceptFacts
<1>2. v \notin work
  BY <1>1 DEF Numbered
<1> HIDE DEF v
<1>3. work' = (work \ {w}) \cup {v}
  BY DEF Becomes, v
<1>4. Started' = Started \cup {v} /\ v \notin Started
  BY <1>1, <1>2, <1>3 DEF Started
<1> QED
  BY <1>4 DEF v

LEMMA BecomesOver ==
    ASSUME TypeOK, NEW w \in Started, Becomes(w, [w EXCEPT !.over = TRUE])
    PROVE  Started' = (Started \ {w}) \cup {[w EXCEPT !.over = TRUE]}
<1> DEFINE v == [w EXCEPT !.over = TRUE]
<1>1. v.started
  BY ExceptFacts DEF Started
<1> HIDE DEF v
<1>2. work' = (work \ {w}) \cup {v}
  BY DEF Becomes, v
<1>3. Started' = (Started \ {w}) \cup {v}
  BY <1>1, <1>2 DEF Started
<1> QED
  BY <1>3 DEF v

LEMMA StepNumbered == RInv /\ [Next]_vars => Numbered'
<1> SUFFICES ASSUME RInv, [Next]_vars PROVE Numbered'
  OBVIOUS
<1>1. TypeOK /\ Numbered
  BY DEF RInv
<1>2. ASSUME UNCHANGED <<simultaneous, work, num_active_works, added>>
      PROVE  Numbered'
  BY <1>1, <1>2 DEF Numbered
<1> QED
  BY <1>1, <1>2, StepShape, RemovesNumbered, AddsNumbered, BecomesNumbered
     DEF Shape

LEMMA StepActive == RInv /\ [Next]_vars => ActiveCount'
<1> SUFFICES ASSUME RInv, [Next]_vars PROVE ActiveCount'
  OBVIOUS
<1>0. /\ TypeOK /\ Numbered /\ num_active_works = Cardinality(Started)
      /\ IsFiniteSet(Started) /\ Cardinality(Started) \in Nat
  BY StartedFinite DEF RInv, Numbered, ActiveCount
<1>1. ASSUME NEW S, Removes(S) PROVE ActiveCount'
  <2>1. Started' = Started \ (S \cap Started)
    BY <1>1, RemovesStarted
  <2>2. Cardinality(Started \ (S \cap Started)) =
           Cardinality(Started) - Cardinality(Started \cap (S \cap Started))
    BY <1>0, FS_Difference
  <2>3. Started \cap (S \cap Started) = S \cap Started
    OBVIOUS
  <2>4. num_active_works' = num_active_works - Cardinality(S \cap Started)
    BY <1>1 DEF Removes, ActiveWithout
  <2> QED BY <1>0, <2>1, <2>2, <2>3, <2>4 DEF ActiveCount
<1>2. ASSUME NEW i, NEW kind, NEW S, Adds(i, kind, S) PROVE ActiveCount'
  BY <1>0, <1>2, AddsStarted DEF Adds, ActiveCount
<1>3. ASSUME NEW w, Startable(w), Becomes(w, [w EXCEPT !.started = TRUE]),
             num_active_works' = num_active_works + 1
      PROVE  ActiveCount'
  <2>1. w \in work /\ ~w.started
    BY <1>3 DEF Startable
  <2>2. /\ Started' = Started \cup {[w EXCEPT !.started = TRUE]}
        /\ [w EXCEPT !.started = TRUE] \notin Started
    BY <1>0, <1>3, <2>1, BecomesStarted
  <2>3. Cardinality(Started') = Cardinality(Started) + 1
    BY <1>0, <2>2, FS_AddElement
  <2> QED BY <1>0, <1>3, <2>3 DEF ActiveCount
<1>4. ASSUME NEW w \in Started, Becomes(w, [w EXCEPT !.over = TRUE]),
             UNCHANGED num_active_works
      PROVE  ActiveCount'
  <2> DEFINE v == [w EXCEPT !.over = TRUE]
  <2>1. Started' = (Started \ {w}) \cup {v}
    BY <1>0, <1>4, BecomesOver
  <2>2. v \notin Started \ {w}
    <3>1. w \in work /\ v.n = w.n
      BY <1>0, ExceptFacts DEF Started
    <3> QED BY <1>0, <3>1 DEF Numbered, Started
  <2> HIDE DEF v
  <2>3. /\ IsFiniteSet(Started \ {w})
        /\ Cardinality(Started \ {w}) = Cardinality(Started) - 1
    BY <1>0, FS_RemoveElement
  <2>4. Cardinality(Started') = Cardinality(Started \ {w}) + 1
    BY <2>1, <2>2, <2>3, FS_AddElement
  <2> QED BY <1>0, <1>4, <2>3, <2>4 DEF ActiveCount
<1>5. ASSUME UNCHANGED <<simultaneous, work, num_active_works, added>>
      PROVE  ActiveCount'
  BY <1>0, <1>5 DEF ActiveCount, Started
<1> QED
  BY <1>1, <1>2, <1>3, <1>4, <1>5, StepShape DEF Shape

\* The pairs that ParallelWorks allows.
Compatible(T) ==
    \A v, w \in T : v # w =>
        /\ v.kind.type # w.kind.type /\ v.kind.bands # w.kind.bands
        /\ ~IsConnect(v)

LEMMA StepParallel == RInv /\ ActiveCount' /\ [Next]_vars => ParallelWorks'
<1> SUFFICES ASSUME RInv, ActiveCount', [Next]_vars, simultaneous'
             PROVE  /\ Cardinality(Started') <= MAX_ACTIVE_WORKS
                    /\ Compatible(Started')
  BY DEF ParallelWorks, Compatible
<1>0. /\ TypeOK /\ Numbered /\ num_active_works = Cardinality(Started)
      /\ IsFiniteSet(Started) /\ Cardinality(Started) \in Nat
      /\ num_active_works' = Cardinality(Started')
      /\ MAX_ACTIVE_WORKS \in Nat
  BY StartedFinite, RadioAssumption DEF RInv, Numbered, ActiveCount
<1>1. simultaneous
  BY StepShape DEF Shape, Removes, Adds, Becomes, config
<1>2. Cardinality(Started) <= MAX_ACTIVE_WORKS /\ Compatible(Started)
  BY <1>1 DEF RInv, ParallelWorks, Compatible
<1>3. ASSUME Started' \subseteq Started
      PROVE  Cardinality(Started') <= MAX_ACTIVE_WORKS /\ Compatible(Started')
  <2>1. Cardinality(Started') <= Cardinality(Started)
        /\ Cardinality(Started') \in Nat
    BY <1>0, <1>3, FS_Subset, FS_CardinalityType
  <2> QED BY <1>0, <1>2, <1>3, <2>1 DEF Compatible
<1>4. ASSUME NEW w, Startable(w), Becomes(w, [w EXCEPT !.started = TRUE]),
             num_active_works' = num_active_works + 1
      PROVE  Cardinality(Started') <= MAX_ACTIVE_WORKS /\ Compatible(Started')
  <2> DEFINE v == [w EXCEPT !.started = TRUE]
  <2>1. w \in work /\ ~w.started
    BY <1>4 DEF Startable
  <2>2. Started' = Started \cup {v}
    BY <1>0, <1>4, <2>1, BecomesStarted
  <2>3. v.kind = w.kind
    BY <1>0, <2>1, ExceptFacts
  <2> HIDE DEF v
  <2>4. Cardinality(Started') <= MAX_ACTIVE_WORKS
    BY <1>0, <1>1, <1>4 DEF Startable
  <2>5. \A a \in Started : /\ ~IsConnect(a) /\ ~IsConnect(v)
                           /\ a.kind.type # v.kind.type
                           /\ a.kind.bands # v.kind.bands
    BY <1>1, <1>4, <2>3 DEF Startable, Parallel, IsConnect
  <2> QED BY <1>2, <2>2, <2>4, <2>5 DEF Compatible
<1>5. ASSUME NEW w \in Started, Becomes(w, [w EXCEPT !.over = TRUE]),
             UNCHANGED num_active_works
      PROVE  Cardinality(Started') <= MAX_ACTIVE_WORKS /\ Compatible(Started')
  <2> DEFINE v == [w EXCEPT !.over = TRUE]
  <2>1. Started' = (Started \ {w}) \cup {v}
    BY <1>0, <1>5, BecomesOver
  <2>2. v.kind = w.kind
    BY <1>0, ExceptFacts DEF Started
  <2> HIDE DEF v
  <2>3. Compatible(Started')
    BY <1>2, <2>1, <2>2 DEF Compatible, IsConnect
  <2> QED BY <1>0, <1>2, <1>5, <2>3
<1>6. ASSUME NEW S, Removes(S) PROVE Started' \subseteq Started
  BY <1>6, RemovesStarted
<1>7. ASSUME NEW i, NEW kind, NEW S, Adds(i, kind, S)
      PROVE  Started' \subseteq Started
  BY <1>7, AddsStarted
<1>8. ASSUME UNCHANGED <<simultaneous, work, num_active_works, added>>
      PROVE  Started' \subseteq Started
  BY <1>8 DEF Started
<1> QED
  BY <1>3, <1>4, <1>5, <1>6, <1>7, <1>8, StepShape DEF Shape

-----------------------------------------------------------------------------
(* The wake-ups *)

\* After radio_work_check_next works that wait alone are looked at again, or
\* the wake-up was lost.
LEMMA CheckNextFacts ==
    ASSUME NEW i, NEW t, CheckNext(i, t)
    PROVE  /\ t \in BOOLEAN => timer' \in BOOLEAN
           /\ lost' \in BOOLEAN
           /\ NoStall'
  BY DEF CheckNext, Wakes, NoStall

\* Of any works of the queue one is the first.
LEMMA FirstExists ==
    ASSUME TypeOK, NEW S \in SUBSET work, S # {} PROVE First(S) # {}
<1> DEFINE R == {ss \in Nat \X Nat : ss[1] < ss[2]}
           T == {Position(w) + MaxWorks : w \in S}
<1>1. MaxWorks \in Nat
  BY RadioAssumption
<1>2. \A w \in S : Position(w) \in Int /\ Position(w) + MaxWorks \in Nat
  <2>1. \A w \in S : w.n \in Nat /\ w.n <= MaxWorks
    BY <1>1, TypeFacts
  <2> QED BY <1>1, <2>1 DEF Position
<1>3. T \subseteq Nat /\ T # {}
  BY <1>2
<1>4. IsWellFoundedOn(R, Nat)
  BY NatLessThanWellFounded DEF OpToRel
<1>5. PICK m \in T : \A y \in T : <<y, m>> \notin R
  BY <1>3, <1>4, WFMin, Zenon
<1>6. PICK w \in S : m = Position(w) + MaxWorks
  OBVIOUS
<1>7. \A v \in S : ~Ahead(v, w)
  <2> SUFFICES ASSUME NEW v \in S, Position(v) < Position(w) PROVE FALSE
    BY DEF Ahead
  <2>1. Position(v) + MaxWorks < m
    BY <1>1, <1>2, <1>6
  <2> QED BY <1>2, <1>3, <1>5, <2>1
<1> QED
  BY <1>7 DEF First

\* When radio_start_next_work finds nothing to start and no work runs, a scan
\* of another program is the reason.
LEMMA NothingToStart ==
    ASSUME RInv, NEW skip, ToStart(skip) = {}, work # {}, Started = {}
    PROVE  external_scan_running
<1>0. TypeOK /\ num_active_works = 0 /\ MAX_ACTIVE_WORKS \in 1 .. 2
  BY FS_EmptySet, RadioAssumption DEF RInv, ActiveCount
<1>1. CASE simultaneous
  <2> SUFFICES ASSUME ~external_scan_running PROVE FALSE
    OBVIOUS
  <2>1. NextWork(skip) = {}
    BY <1>0, <1>1 DEF ToStart
  <2>2. First({w \in work : TRUE}) = {}
    BY <2>1 DEF NextWork
  <2>3. {w \in work : TRUE} = work
    OBVIOUS
  <2> QED BY <1>0, <2>2, <2>3, FirstExists
<1>2. CASE ~simultaneous
  <2>1. PICK w : w \in First(work)
    BY <1>0, FirstExists
  <2>2. ~w.started
    BY <2>1 DEF First, Started
  <2> QED BY <1>2, <2>1, <2>2 DEF ToStart
<1> QED
  BY <1>1, <1>2

LEMMA StepNoStall == RInv /\ [Next]_vars => NoStall'
<1> SUFFICES ASSUME RInv, [Next]_vars PROVE NoStall'
  OBVIOUS
<1> USE DEF config
<1>0. TypeOK /\ NoStall
  BY DEF RInv
<1>1. ASSUME UNCHANGED <<timer, lost, external_scan_running>>,
             work' = {} \/ Started # {} \/ work # {}, Started' = Started
      PROVE  NoStall'
  BY <1>0, <1>1 DEF NoStall, Started
<1>2. ASSUME NEW i \in Ifaces, NEW kind \in Kinds, AddWork(i, kind)
      PROVE  NoStall'
  <2>1. CASE Schedules(work)
    BY <1>2, <2>1, CheckNextFacts DEF AddWork
  <2>2. CASE ~Schedules(work)
    <3>1. work # {}
      BY <2>2 DEF Schedules
    <3>2. Adds(i, kind, {})
      BY <1>2 DEF AddWork, Up, Adds
    <3> QED BY <1>1, <1>2, <2>2, <3>1, <3>2, AddsStarted DEF AddWork
  <2> QED BY <2>1, <2>2
<1>3. ASSUME NEW i \in Ifaces, NEW kind \in Kinds, Connect(i, kind)
      PROVE  NoStall'
  <2> DEFINE mine == {w \in work : w.iface = i /\ IsConnect(w)}
             wake == Schedules(work \ mine) \/ (mine # {} /\ work \ mine # {})
  <2>1. CASE wake
    BY <1>3, <2>1, CheckNextFacts DEF Connect
  <2>2. CASE ~wake
    <3>1. work # {}
      BY <2>2 DEF Schedules
    <3>2. Adds(i, kind, mine)
      BY <1>3 DEF Connect, Up, Adds
    <3>3. UNCHANGED <<timer, lost, external_scan_running>>
      BY <1>3, <2>2 DEF Connect
    <3> QED BY <1>1, <3>1, <3>2, <3>3, AddsStarted
  <2> QED BY <2>1, <2>2
<1>4. ASSUME NEW skip, StartNothing(skip) PROVE NoStall'
  <2>1. ToStart(skip) = {} /\ UNCHANGED <<work, external_scan_running>>
    BY <1>4 DEF StartNothing
  <2>2. Started' = Started
    BY <2>1 DEF Started
  <2> QED BY <2>1, <2>2, NothingToStart DEF NoStall
<1>5. ASSUME NEW skip, Start(skip) PROVE NoStall'
  <2>1. PICK w \in ToStart(skip) :
           work' = (work \ {w}) \cup {[w EXCEPT !.started = TRUE]}
    BY <1>5 DEF Start
  <2>2. [w EXCEPT !.started = TRUE].started
    BY <1>0, <2>1, ToStartFacts, ExceptFacts DEF Startable
  <2>3. Started' # {}
    BY <2>1, <2>2 DEF Started
  <2> QED BY <2>3 DEF NoStall
<1>6. ASSUME NEW skip, StartFails(skip) PROVE NoStall'
  BY <1>6, CheckNextFacts DEF StartFails
<1>7. ASSUME NEW n, Finish(n) \/ ScanResults(n) PROVE NoStall'
  BY <1>7, CheckNextFacts DEF Finish, ScanResults, Done
<1>8. ASSUME NEW n, ScanResultsFail(n) PROVE NoStall'
  BY <1>8 DEF ScanResultsFail, NoStall
<1>9. ASSUME NEW i, NEW n, ExtDone(i, n) PROVE NoStall'
  <2>1. PICK w \in work :
           /\ IF w.started THEN Done(w)
              ELSE /\ work' = work \ {w}
                   /\ UNCHANGED <<num_active_works, timer, lost>>
           /\ UNCHANGED external_scan_running
    BY <1>9 DEF ExtDone
  <2>2. CASE w.started
    BY <2>1, <2>2, CheckNextFacts DEF Done
  <2>3. CASE ~w.started
    <3>1. Started' = Started
      BY <2>1, <2>3 DEF Started
    <3> QED BY <1>1, <2>1, <2>3, <3>1
  <2> QED BY <2>2, <2>3
<1>10. ASSUME NEW i, Disable(i) PROVE NoStall'
  BY <1>10, CheckNextFacts DEF Disable, RemoveWorks
<1>11. ASSUME NEW i, FlushAll(i) PROVE NoStall'
  BY <1>11 DEF FlushAll, NoStall
<1>12. ASSUME NEW i, RemoveIface(i) PROVE NoStall'
  <2>1. CASE ifaces' = {}
    <3>1. ifaces = {i}
      BY <1>12, <2>1 DEF RemoveIface
    <3>2. \A w \in work : w.iface = i
      BY <1>0, <3>1, TypeFacts
    <3>3. work' = {}
      BY <1>12, <3>2 DEF RemoveIface, GoneWith
    <3> QED BY <3>3 DEF NoStall
  <2>2. CASE ifaces' # {}
    BY <1>12, <2>2, CheckNextFacts DEF RemoveIface
  <2> QED BY <2>1, <2>2
<1>13. ASSUME NEW i, ExternalScanResults(i) PROVE NoStall'
  <2>1. CASE i \in disabled
    BY <1>13, <2>1 DEF ExternalScanResults, NoStall
  <2>2. CASE i \notin disabled
    BY <1>13, <2>2, CheckNextFacts DEF ExternalScanResults
  <2> QED BY <2>1, <2>2
<1>14. ASSUME NEW i, Enable(i) PROVE NoStall'
  BY <1>0, <1>14 DEF Enable, NoStall, Started
<1>15. CASE ExternalScan
  BY <1>15 DEF ExternalScan, NoStall
<1>16. CASE UNCHANGED vars
  BY <1>0, <1>16 DEF vars, NoStall, Started
<1> QED
  BY <1>2, <1>3, <1>4, <1>5, <1>6, <1>7, <1>8, <1>9, <1>10, <1>11, <1>12,
     <1>13, <1>14, <1>15, <1>16 DEF Next, StartNext

-----------------------------------------------------------------------------
(* Types *)

\* The variables that do not describe the queue.
RestOK ==
    /\ simultaneous \in BOOLEAN /\ ifaces \subseteq Ifaces
    /\ disabled \subseteq ifaces
    /\ timer \in BOOLEAN /\ external_scan_running \in BOOLEAN
    /\ lost \in BOOLEAN
    /\ ext_work_in_progress \in [Ifaces -> BOOLEAN]
    /\ added \in 0 .. MaxWorks /\ scans \in 0 .. MaxScans

LEMMA StepRest == RInv /\ [Next]_vars => RestOK'
<1> SUFFICES ASSUME RInv, [Next]_vars PROVE RestOK'
  OBVIOUS
<1> USE DEF config
<1>0. RestOK /\ TypeOK /\ MaxWorks \in Nat /\ MaxScans \in Nat
  BY RadioAssumption DEF RInv, TypeOK, RestOK
<1>1. ASSUME NEW i, NEW t, CheckNext(i, t), t \in BOOLEAN
      PROVE  timer' \in BOOLEAN /\ lost' \in BOOLEAN
  BY <1>1, CheckNextFacts
<1>2. ASSUME NEW i \in Ifaces, NEW kind \in Kinds,
             AddWork(i, kind) \/ Connect(i, kind)
      PROVE  RestOK'
  <2>1. timer' \in BOOLEAN /\ lost' \in BOOLEAN
    BY <1>0, <1>1, <1>2 DEF AddWork, Connect, RestOK
  <2>2. /\ added' \in 0 .. MaxWorks
        /\ UNCHANGED <<config, external_scan_running, ext_work_in_progress,
                       scans>>
    BY <1>0, <1>2 DEF AddWork, Connect, RestOK
  <2> QED BY <1>0, <2>1, <2>2 DEF RestOK
<1>3. ASSUME NEW skip, StartNothing(skip) PROVE RestOK'
  BY <1>0, <1>3 DEF StartNothing, RestOK
<1>4. ASSUME NEW skip, Start(skip) PROVE RestOK'
  <2>1. PICK w \in ToStart(skip) :
           /\ ext_work_in_progress' =
                [ext_work_in_progress EXCEPT ![w.iface] = @ \/ IsExt(w)]
           /\ IF simultaneous /\ num_active_works' < MAX_ACTIVE_WORKS
              THEN CheckNext(w.iface, FALSE)
              ELSE timer' = FALSE /\ UNCHANGED lost
    BY <1>4 DEF Start
  <2>2. timer' \in BOOLEAN /\ lost' \in BOOLEAN
    BY <1>0, <1>1, <2>1 DEF RestOK
  <2>3. ext_work_in_progress' \in [Ifaces -> BOOLEAN]
    BY <1>0, <2>1 DEF RestOK
  <2> QED BY <1>0, <1>4, <2>2, <2>3 DEF Start, RestOK
<1>5. ASSUME NEW skip, StartFails(skip) PROVE RestOK'
  <2>1. timer' \in BOOLEAN /\ lost' \in BOOLEAN
    BY <1>1, <1>5 DEF StartFails
  <2> QED BY <1>0, <1>5, <2>1 DEF StartFails, RestOK
<1>6. ASSUME NEW n, Finish(n) \/ ScanResults(n) PROVE RestOK'
  <2>1. PICK w :
           /\ Done(w)
           /\ \/ ext_work_in_progress' =
                   [ext_work_in_progress EXCEPT ![w.iface] = @ /\ ~IsExt(w)]
              \/ UNCHANGED ext_work_in_progress
           /\ external_scan_running' \in {external_scan_running, FALSE}
           /\ UNCHANGED <<config, added, scans>>
    BY <1>6 DEF Finish, ScanResults
  <2>2. timer' \in BOOLEAN /\ lost' \in BOOLEAN
    BY <1>0, <1>1, <2>1 DEF Done, RestOK
  <2>3. ext_work_in_progress' \in [Ifaces -> BOOLEAN]
    BY <1>0, <2>1 DEF RestOK
  <2> QED BY <1>0, <2>1, <2>2, <2>3 DEF RestOK
<1>7. ASSUME NEW n, ScanResultsFail(n) PROVE RestOK'
  BY <1>0, <1>7 DEF ScanResultsFail, RestOK
<1>8. ASSUME NEW i, NEW n, ExtDone(i, n) PROVE RestOK'
  <2>1. PICK w \in work :
           /\ ext_work_in_progress' = [ext_work_in_progress EXCEPT ![i] = FALSE]
           /\ IF w.started THEN Done(w)
              ELSE /\ work' = work \ {w}
                   /\ UNCHANGED <<num_active_works, timer, lost>>
           /\ UNCHANGED <<config, external_scan_running, added, scans>>
    BY <1>8 DEF ExtDone
  <2>2. timer' \in BOOLEAN /\ lost' \in BOOLEAN
    BY <1>0, <1>1, <2>1 DEF Done, RestOK
  <2>3. ext_work_in_progress' \in [Ifaces -> BOOLEAN]
    BY <1>0, <2>1 DEF RestOK
  <2> QED BY <1>0, <2>1, <2>2, <2>3 DEF RestOK
<1>9. ASSUME NEW i, Disable(i) PROVE RestOK'
  <2>1. timer' \in BOOLEAN /\ lost' \in BOOLEAN
    BY <1>0, <1>1, <1>9 DEF Disable, RemoveWorks, RestOK
  <2> QED BY <1>0, <1>9, <2>1 DEF Disable, Up, RestOK
<1>10. ASSUME NEW i, Enable(i) PROVE RestOK'
  BY <1>0, <1>10 DEF Enable, RestOK
<1>11. ASSUME NEW i, FlushAll(i) PROVE RestOK'
  <2>1. ext_work_in_progress' \in [Ifaces -> BOOLEAN]
    BY <1>0, <1>11 DEF FlushAll, RestOK
  <2> QED BY <1>0, <1>11, <2>1 DEF FlushAll, RestOK
<1>12. ASSUME NEW i, RemoveIface(i) PROVE RestOK'
  <2>1. timer' \in BOOLEAN /\ lost' \in BOOLEAN
    <3>1. CASE ifaces' = {}
      BY <1>0, <1>12, <3>1 DEF RemoveIface, RestOK
    <3>2. CASE ifaces' # {}
      <4>1. PICK t : t \in BOOLEAN /\ CheckNext(i, t)
        BY <1>0, <1>12, <3>2 DEF RemoveIface, RestOK
      <4> QED BY <1>1, <4>1
    <3> QED BY <3>1, <3>2
  <2> QED BY <1>0, <1>12, <2>1 DEF RemoveIface, RestOK
<1>13. ASSUME NEW i, ExternalScanResults(i) PROVE RestOK'
  <2>1. timer' \in BOOLEAN /\ lost' \in BOOLEAN
    BY <1>0, <1>1, <1>13 DEF ExternalScanResults, RestOK
  <2> QED BY <1>0, <1>13, <2>1 DEF ExternalScanResults, RestOK
<1>14. CASE ExternalScan
  BY <1>0, <1>14 DEF ExternalScan, RestOK
<1>15. CASE UNCHANGED vars
  BY <1>0, <1>15 DEF vars, RestOK
<1> QED
  BY <1>2, <1>3, <1>4, <1>5, <1>6, <1>7, <1>8, <1>9, <1>10, <1>11, <1>12,
     <1>13, <1>14, <1>15 DEF Next, StartNext

\* Every work belongs to an interface that the radio still has.
LEMMA StepWork == RInv /\ [Next]_vars => work' \subseteq Work'
<1> SUFFICES ASSUME RInv, [Next]_vars PROVE work' \subseteq Work'
  OBVIOUS
<1>0. TypeOK /\ Numbered /\ work \subseteq Work
  BY DEF RInv, TypeOK
<1>1. ASSUME NEW i, RemoveIface(i) PROVE work' \subseteq Work'
  <2>1. ifaces' = ifaces \ {i} /\ work' = work \ GoneWith(i)
    BY <1>1 DEF RemoveIface
  <2>2. \A w \in work' : w \in work /\ w.iface # i
    BY <2>1 DEF GoneWith
  <2> QED BY <1>0, <2>1, <2>2 DEF Work
<1>2. CASE ~\E i \in Ifaces : RemoveIface(i)
  <2>1. ifaces' = ifaces
    BY <1>2 DEF Next, AddWork, Connect, StartNext, StartNothing, Start,
       StartFails, Finish, ScanResults, ScanResultsFail, ExtDone,
       ExternalScan, ExternalScanResults, Disable, Enable, FlushAll, config,
       vars
  <2>2. work' \subseteq work => work' \subseteq Work'
    BY <1>0, <2>1 DEF Work
  <2> QED
    BY <1>0, <2>2, StepShape, AddsNumbered, BecomesNumbered
       DEF Shape, Removes
<1> QED
  BY <1>1, <1>2

LEMMA StepType == RInv /\ ActiveCount' /\ Numbered' /\ [Next]_vars => TypeOK'
<1> SUFFICES ASSUME RInv, ActiveCount', Numbered', [Next]_vars PROVE TypeOK'
  OBVIOUS
<1>1. num_active_works' \in Nat
  <2>1. Started' \subseteq work'
    BY DEF Started
  <2> QED BY <2>1, FS_Subset, FS_CardinalityType DEF Numbered, ActiveCount
<1> QED
  BY <1>1, StepRest, StepWork DEF TypeOK, RestOK

-----------------------------------------------------------------------------
LEMMA InitRInv == Init => RInv
<1> SUFFICES ASSUME Init PROVE RInv
  OBVIOUS
<1>1. work = {} /\ Started = {} /\ num_active_works = 0
  BY DEF Init, Started
<1>2. Cardinality({}) = 0 /\ IsFiniteSet({})
  BY FS_EmptySet
<1>3. MaxWorks \in Nat /\ MaxScans \in Nat /\ MAX_ACTIVE_WORKS \in Nat
  BY RadioAssumption
<1>4. RestOK
  <2>1. ext_work_in_progress \in [Ifaces -> BOOLEAN]
    BY DEF Init
  <2>2. added \in 0 .. MaxWorks /\ scans \in 0 .. MaxScans
    BY <1>3 DEF Init
  <2>3. ifaces \subseteq Ifaces /\ disabled \subseteq ifaces
    BY DEF Init
  <2> QED BY <2>1, <2>2, <2>3, Zenon DEF Init, RestOK
<1>5. TypeOK
  BY <1>1, <1>4 DEF TypeOK, RestOK
<1> QED
  BY <1>1, <1>2, <1>3, <1>5
     DEF RInv, Numbered, ActiveCount, ParallelWorks, NoStall

\* RInv is an invariant of the radio's queue.
THEOREM InductiveInvariant == Spec => []RInv
<1>1. RInv /\ [Next]_vars => RInv'
  BY StepNumbered, StepActive, StepParallel, StepNoStall, StepType DEF RInv
<1> QED
  BY <1>1, InitRInv, PTL DEF Spec

\* The variables keep their types; no work outlives its interface on the radio.
THEOREM TypeCorrect == Spec => []TypeOK
<1>1. RInv => TypeOK
  BY DEF RInv
<1> QED
  BY <1>1, InductiveInvariant, PTL

\* num_active_works is the number of started works, however they end.
THEOREM ActiveCounted == Spec => []ActiveCount
<1>1. RInv => ActiveCount
  BY DEF RInv
<1> QED
  BY <1>1, InductiveInvariant, PTL

\* Only works of different types and bands run together, at most
\* MAX_ACTIVE_WORKS of them, and none beside a connection.
THEOREM ParallelAllowed == Spec => []ParallelWorks
<1>1. RInv => ParallelWorks
  BY DEF RInv
<1> QED
  BY <1>1, InductiveInvariant, PTL

\* The queue never waits with nothing registered to look at it again, unless
\* a wake-up was lost.
THEOREM QueueAwake == Spec => []NoStall
<1>1. RInv => NoStall
  BY DEF RInv
<1> QED
  BY <1>1, InductiveInvariant, PTL
=============================================================================
