--------------------------- MODULE BssTableProofs ----------------------------
(***************************************************************************)
(* Proofs about the BSS table, for any access points, networks, addresses,   *)
(* sizes of the table and expiry counts.                                    *)
(***************************************************************************)
EXTENDS BssTable, FiniteSetTheorems, WellFoundedInduction, TLAPS

\* The sequence s lists the addresses S, each once.
ListOf(s, S) == s \in Seq(Addr) /\ IsInjective(s) /\ Range(s) = S

Seen == {p \in Live : ent[p].seen}

\* The entries in the results of the last scan.
Listed == Range(last_scan_res)

\* The three lists and what they list.
Lists ==
    /\ ListOf(bss, Live) /\ ListOf(bss_id, Live)
    /\ ListOf(last_scan_res, Listed) /\ Listed \subseteq Seen
    /\ short \/ Listed = Seen

\* No access point has two entries.
OneEach == \A p, q \in Live : ent[p].ap = ent[q].ap => p = q

\* The BSS of a connect work that was not told of a removal is an entry of
\* the access point that the work was made for.
WorkKnown ==
    cwork # NULL /\ ~cwork.removed =>
        cwork.bss \in Live /\ ent[cwork.bss].ap = cwork.ap

\* The current BSS is an entry, in a round of results in any case.
CurrentLive ==
    /\ dangling \/ current_bss \in Live \cup {NULL}
    /\ pc # "idle" => ~dangling

\* The inductive invariant.
BInv == TypeOK /\ Lists /\ OneEach /\ WorkKnown /\ CurrentLive

-----------------------------------------------------------------------------
(* Positions and lists *)

\* A set of positions has a first one.
LEMMA MinFacts ==
    ASSUME NEW K \in SUBSET Nat, K # {}
    PROVE  Min(K) \in K /\ \A k \in K : Min(K) <= k
<1> DEFINE R == {x \in Nat \X Nat : x[1] < x[2]}
<1>1. IsWellFoundedOn(R, Nat)
  BY NatLessThanWellFounded DEF OpToRel
<1>2. PICK m \in K : \A k \in K : <<k, m>> \notin R
  BY <1>1, WFMin, Zenon
<1>3. \A k \in K : m <= k
  <2> TAKE k \in K
  <2>1. k \in Nat /\ m \in Nat /\ ~(k < m)
    BY <1>2
  <2> QED BY <2>1
<1> QED
  BY <1>3 DEF Min

\* A bounded set of positions has a last one.
LEMMA MaxFacts ==
    ASSUME NEW n \in Nat, NEW K \in SUBSET (1 .. n), K # {}
    PROVE  Max(K) \in K /\ \A k \in K : k <= Max(K)
<1> DEFINE D == {n - k : k \in K}
<1>1. D \in SUBSET Nat /\ D # {}
  <2>1. \A k \in K : n - k \in Nat
    OBVIOUS
  <2> QED BY <2>1
<1>2. PICK m \in K : n - m = Min(D)
  BY <1>1, MinFacts
<1>3. \A k \in K : n - m <= n - k
  BY <1>1, <1>2, MinFacts
<1>4. \A k \in K : k <= m
  BY <1>3
<1> QED
  BY <1>4 DEF Max

\* The positions of K have the ranks 1 .. Cardinality(K), each once.
LEMMA NthFacts ==
    ASSUME NEW n \in Nat, NEW K \in SUBSET (1 .. n)
    PROVE  /\ IsFiniteSet(K) /\ Cardinality(K) \in Nat
           /\ \A i \in 1 .. Cardinality(K) : Nth(K, i) \in K
           /\ \A i, j \in 1 .. Cardinality(K) : Nth(K, i) = Nth(K, j) => i = j
           /\ \A k \in K : \E i \in 1 .. Cardinality(K) : Nth(K, i) = k
<1> DEFINE Upto(k) == {j \in K : j <= k}
           rank == [k \in K |-> Cardinality(Upto(k))]
           N == 1 .. Cardinality(K)
<1>1. IsFiniteSet(K) /\ Cardinality(K) \in Nat
  <2>1. n \in Int /\ 1 \in Int
    OBVIOUS
  <2>2. IsFiniteSet(1 .. n)
    BY <2>1, FS_Interval
  <2> QED BY <2>2, FS_Subset, FS_CardinalityType
<1>2. IsFiniteSet(N) /\ Cardinality(N) = Cardinality(K)
  <2>1. Cardinality(K) \in Int /\ 1 \in Int
    BY <1>1
  <2> QED BY <2>1, <1>1, FS_Interval
<1>3. \A k \in K : IsFiniteSet(Upto(k)) /\ Cardinality(Upto(k)) \in N
  <2> TAKE k \in K
  <2>1. Upto(k) \in SUBSET K
    OBVIOUS
  <2>2. IsFiniteSet(Upto(k)) /\ Cardinality(Upto(k)) <= Cardinality(K)
    BY <2>1, <1>1, FS_Subset
  <2>3. k \in Upto(k)
    OBVIOUS
  <2>4. Cardinality(Upto(k)) \in Nat /\ Cardinality(Upto(k)) # 0
    BY <2>2, <2>3, FS_CardinalityType, FS_EmptySet
  <2> QED BY <2>2, <2>4, <1>1
<1>4. \A k, l \in K : Cardinality(Upto(k)) = Cardinality(Upto(l)) => k = l
  <2>1. ASSUME NEW k \in K, NEW l \in K, k < l
        PROVE  Cardinality(Upto(k)) # Cardinality(Upto(l))
    <3>1. Upto(k) \in SUBSET Upto(l)
      <4>1. ASSUME NEW j \in Upto(k) PROVE j \in Upto(l)
        <5>1. j \in Nat /\ k \in Nat /\ l \in Nat /\ j <= k
          OBVIOUS
        <5> QED BY <2>1, <5>1
      <4> QED BY <4>1
    <3>2. l \in Upto(l) /\ l \notin Upto(k)
      BY <2>1
    <3> QED BY <3>1, <3>2, <1>3, FS_Subset
  <2>2. \A k, l \in K : k = l \/ k < l \/ l < k
    OBVIOUS
  <2> QED BY <2>1, <2>2
<1>5. rank \in Injection(K, N)
  <2>1. rank \in [K -> N]
    BY <1>3
  <2>2. \A k, l \in K : rank[k] = rank[l] => k = l
    BY <1>4
  <2> QED BY <2>1, <2>2 DEF Injection, IsInjective
<1>6. rank \in Surjection(K, N)
  BY <1>2, <1>5, FS_Injection
<1>7. \A i \in N : \E k \in K : Cardinality(Upto(k)) = i
  BY <1>6 DEF Surjection
<1>8. \A i \in N : Nth(K, i) \in K /\ Cardinality(Upto(Nth(K, i))) = i
  BY <1>7 DEF Nth
<1>9. \A k \in K : Nth(K, Cardinality(Upto(k))) = k
  BY <1>3, <1>4, <1>8
<1> QED
  BY <1>1, <1>3, <1>8, <1>9

\* The elements at some positions of a list are a list of those elements.
LEMMA AtFacts ==
    ASSUME NEW S, NEW s, ListOf(s, S), NEW K \in SUBSET (DOMAIN s)
    PROVE  ListOf(At(s, K), {s[k] : k \in K})
<1>1. Len(s) \in Nat /\ DOMAIN s = 1 .. Len(s) /\ \A k \in DOMAIN s : s[k] \in Addr
  BY DEF ListOf
<1>2. /\ Cardinality(K) \in Nat
      /\ \A i \in 1 .. Cardinality(K) : Nth(K, i) \in K
      /\ \A i, j \in 1 .. Cardinality(K) : Nth(K, i) = Nth(K, j) => i = j
      /\ \A k \in K : \E i \in 1 .. Cardinality(K) : Nth(K, i) = k
  BY <1>1, NthFacts
<1>3. At(s, K) \in Seq(Addr) /\ DOMAIN At(s, K) = 1 .. Cardinality(K)
  BY <1>1, <1>2 DEF At
<1>4. IsInjective(At(s, K))
  BY <1>2, <1>3 DEF At, ListOf, IsInjective
<1>5. Range(At(s, K)) = {s[k] : k \in K}
  BY <1>2, <1>3 DEF At, Range
<1> QED
  BY <1>3, <1>4, <1>5 DEF ListOf

LEMMA WithoutFacts ==
    ASSUME NEW S, NEW s, ListOf(s, S), NEW R
    PROVE  ListOf(Without(s, R), S \ R) /\ ListOf(WithoutFirst(s, R), S \ R)
<1> DEFINE K == {k \in DOMAIN s : s[k] \notin R}
           F == {k \in DOMAIN s : s[k] \notin R \/ \E j \in 1 .. k - 1 : s[j] = s[k]}
<1>1. {s[k] : k \in K} = S \ R
  BY DEF ListOf, Range
<1>2. F = K
  <2>1. Len(s) \in Nat /\ DOMAIN s = 1 .. Len(s)
    BY DEF ListOf
  <2>2. \A k \in DOMAIN s : \A j \in 1 .. k - 1 : j \in DOMAIN s /\ j # k
    BY <2>1
  <2> QED BY <2>2 DEF ListOf, IsInjective
<1>3. ListOf(At(s, K), S \ R)
  <2>1. K \in SUBSET (DOMAIN s)
    OBVIOUS
  <2> QED BY <1>1, <2>1, AtFacts
<1> QED
  BY <1>2, <1>3 DEF Without, WithoutFirst

LEMMA AppendFacts ==
    ASSUME NEW S, NEW s, ListOf(s, S), NEW q \in Addr, q \notin S
    PROVE  ListOf(Append(s, q), S \cup {q})
<1>1. Len(s) \in Nat /\ DOMAIN s = 1 .. Len(s)
  BY DEF ListOf
<1>2. /\ Append(s, q) \in Seq(Addr)
      /\ DOMAIN Append(s, q) = 1 .. Len(s) + 1
      /\ \A k \in 1 .. Len(s) : Append(s, q)[k] = s[k] /\ s[k] \in S
      /\ Append(s, q)[Len(s) + 1] = q
  BY <1>1 DEF ListOf, Range
<1>3. 1 .. Len(s) + 1 = 1 .. Len(s) \cup {Len(s) + 1}
  BY <1>1
<1>4. IsInjective(Append(s, q))
  BY <1>1, <1>2, <1>3 DEF ListOf, IsInjective
<1>5. Range(Append(s, q)) = S \cup {q}
  <2>1. S = {s[k] : k \in 1 .. Len(s)}
    BY <1>1 DEF ListOf, Range
  <2> QED BY <1>2, <1>3, <2>1 DEF Range
<1> QED
  BY <1>2, <1>4, <1>5 DEF ListOf

LEMMA MovedFacts ==
    ASSUME NEW S, NEW s, ListOf(s, S), NEW p, NEW q \in Addr, q \notin S \ {p}
    PROVE  ListOf(Moved(s, p, q),
                  (S \ {p}) \cup (IF p \in S THEN {q} ELSE {}))
<1>1. Len(s) \in Nat /\ DOMAIN s = 1 .. Len(s) /\ \A k \in DOMAIN s : s[k] \in Addr
  BY DEF ListOf
<1>2. Moved(s, p, q) \in Seq(Addr) /\ DOMAIN Moved(s, p, q) = DOMAIN s
  BY <1>1 DEF Moved
<1>3. IsInjective(Moved(s, p, q))
  <2> SUFFICES ASSUME NEW k \in DOMAIN s, NEW l \in DOMAIN s,
                      Moved(s, p, q)[k] = Moved(s, p, q)[l]
               PROVE  k = l
    BY <1>2 DEF IsInjective
  <2>1. s[k] \in S /\ s[l] \in S
    BY DEF ListOf, Range
  <2>2. s[k] = s[l]
    BY <2>1 DEF Moved
  <2> QED BY <2>2 DEF ListOf, IsInjective
<1>4. Range(Moved(s, p, q)) = (S \ {p}) \cup (IF p \in S THEN {q} ELSE {})
  BY <1>2 DEF Moved, Range, ListOf
<1> QED
  BY <1>2, <1>3, <1>4 DEF ListOf

\* A list is as long as the set it lists is large.
LEMMA ListLength ==
    ASSUME NEW S, NEW s, ListOf(s, S)
    PROVE  IsFiniteSet(S) /\ Len(s) = Cardinality(S) /\ Len(s) \in Nat
<1>1. Len(s) \in Nat /\ DOMAIN s = 1 .. Len(s)
  BY DEF ListOf
<1>2. s \in Bijection(1 .. Len(s), S)
  <2>1. s \in [1 .. Len(s) -> S] /\ \A p \in S : \E k \in 1 .. Len(s) : s[k] = p
    BY <1>1 DEF ListOf, Range
  <2>2. \A k, l \in 1 .. Len(s) : s[k] = s[l] => k = l
    BY <1>1 DEF ListOf, IsInjective
  <2> QED BY <1>1, <2>1, <2>2 DEF Bijection, Injection, Surjection, IsInjective
<1>3. ExistsBijection(1 .. Len(s), S)
  BY <1>2 DEF ExistsBijection
<1>4. IsFiniteSet(1 .. Len(s)) /\ Cardinality(1 .. Len(s)) = Len(s)
  <2>1. Len(s) \in Int /\ 1 \in Int
    BY <1>1
  <2>2. IsFiniteSet(1 .. Len(s))
    BY <2>1, FS_Interval
  <2>3. Cardinality(1 .. Len(s)) = IF 1 > Len(s) THEN 0 ELSE Len(s) - 1 + 1
    BY <2>1, FS_Interval
  <2> QED BY <1>1, <2>2, <2>3
<1> QED
  BY <1>1, <1>3, <1>4, FS_Bijection

-----------------------------------------------------------------------------
(* The table *)

LEMMA EntryFacts ==
    ASSUME TypeOK
    PROVE  /\ Live \subseteq Addr /\ NULL \notin Live
           /\ \A p \in Live : /\ ent[p] \in Entry /\ ent[p].ap \in Aps
                               /\ ent[p].seen \in BOOLEAN
                               /\ ent[p].miss \in 0 .. Expire - 1
<1>1. ent \in [Addr -> Entry \cup {NULL}] /\ NULL \notin Addr
  BY TableAssumption DEF TypeOK
<1>2. \A p \in Live : ent[p] \in Entry
  BY <1>1 DEF Live
<1> QED
  BY <1>1, <1>2 DEF Live, Entry

\* Nothing of the table changes: its properties are those of before.
LEMMA SameTable ==
    ASSUME BInv, UNCHANGED table
    PROVE  /\ Lists' /\ OneEach' /\ Live' = Live
           /\ ent' \in [Addr -> Entry \cup {NULL}]
           /\ bss' \in Seq(Addr) /\ bss_id' \in Seq(Addr)
           /\ last_scan_res' \in Seq(Addr)
           /\ res_size' \in Nat /\ short' \in BOOLEAN
<1>1. UNCHANGED <<ent, bss, bss_id, last_scan_res, res_size, short>>
  BY DEF table
<1>2. Live' = Live /\ Seen' = Seen /\ Listed' = Listed
  BY <1>1 DEF Live, Seen, Listed
<1> QED
  BY <1>1, <1>2 DEF BInv, TypeOK, Lists, OneEach, ListOf

\* The entries in S are removed; of the others an action may count misses.
Shrinks(S) ==
    /\ S \subseteq Live
    /\ ent' \in [Addr -> Entry \cup {NULL}]
    /\ \A p \in Addr :
         IF p \in Live \ S
         THEN /\ ent'[p] \in Entry
              /\ ent'[p].ap = ent[p].ap /\ ent'[p].seen = ent[p].seen
         ELSE ent'[p] = NULL
    /\ bss' = Without(bss, S)
    /\ bss_id' = Without(bss_id, S)
    /\ last_scan_res' = WithoutFirst(last_scan_res, S)
    /\ UNCHANGED <<res_size, short>>

LEMMA ShrinksTable ==
    ASSUME BInv, NEW S, Shrinks(S)
    PROVE  /\ Lists' /\ OneEach' /\ Live' = Live \ S
           /\ ent' \in [Addr -> Entry \cup {NULL}]
           /\ bss' \in Seq(Addr) /\ bss_id' \in Seq(Addr)
           /\ last_scan_res' \in Seq(Addr)
           /\ res_size' \in Nat /\ short' \in BOOLEAN
<1>1. NULL \notin Entry
  BY TableAssumption
<1>2. Live \subseteq Addr
  BY DEF Live
<1>3. Live' = Live \ S
  BY <1>1, <1>2 DEF Shrinks, Live
<1>4. Seen' = Seen \ S
  <2>1. \A p \in Live \ S : ent'[p].seen = ent[p].seen
    BY <1>2 DEF Shrinks
  <2> QED BY <1>3, <2>1 DEF Seen
<1>5. Lists'
  <2>1. ListOf(bss', Live') /\ ListOf(bss_id', Live')
    BY <1>3, WithoutFacts DEF BInv, Lists, Shrinks
  <2>2. ListOf(last_scan_res', Listed \ S)
    BY WithoutFacts DEF BInv, Lists, Shrinks
  <2>3. Listed' = Listed \ S
    BY <2>2 DEF ListOf, Listed
  <2> QED BY <1>4, <2>1, <2>2, <2>3 DEF BInv, Lists, Shrinks
<1>6. OneEach'
  <2>1. \A p \in Live \ S : ent'[p].ap = ent[p].ap
    BY <1>2 DEF Shrinks
  <2> QED BY <1>3, <2>1 DEF OneEach, BInv
<1> QED
  BY <1>3, <1>5, <1>6 DEF BInv, TypeOK, Shrinks, Lists, ListOf

\* A connect work that is told of the removal, or is unchanged.
LEMMA WorkWithout ==
    ASSUME BInv, NEW S, Live \ S \subseteq Live',
           \A p \in Live \ S : ent'[p].ap = ent[p].ap
    PROVE  /\ cwork' = CworkWithout(S) => cwork' \in Work \cup {NULL} /\ WorkKnown'
           /\ cwork' = NULL => cwork' \in Work \cup {NULL} /\ WorkKnown'
<1>1. ASSUME cwork' = CworkWithout(S)
      PROVE  cwork' \in Work \cup {NULL} /\ WorkKnown'
  <2>1. CASE cwork # NULL /\ cwork.bss \in S
    <3>1. cwork \in Work /\ cwork' = [cwork EXCEPT !.bss = NULL, !.removed = TRUE]
      BY <1>1, <2>1 DEF BInv, TypeOK, CworkWithout
    <3>2. cwork' \in Work /\ cwork'.removed = TRUE
      BY <3>1 DEF Work
    <3> QED BY <3>2 DEF WorkKnown
  <2>2. CASE ~(cwork # NULL /\ cwork.bss \in S)
    <3>1. cwork' = cwork
      BY <1>1, <2>2 DEF CworkWithout
    <3> QED BY <2>2, <3>1 DEF BInv, TypeOK, WorkKnown
  <2> QED BY <2>1, <2>2
<1>2. ASSUME cwork' = NULL PROVE cwork' \in Work \cup {NULL} /\ WorkKnown'
  BY <1>2 DEF WorkKnown
<1> QED
  BY <1>1, <1>2

LEMMA ShrinksKeeps ==
    ASSUME BInv, NEW S, Shrinks(S)
    PROVE  Live \ S \subseteq Live' /\ \A p \in Live \ S : ent'[p].ap = ent[p].ap
<1>1. Live' = Live \ S
  BY ShrinksTable
<1>2. Live \subseteq Addr
  BY DEF Live
<1> QED
  BY <1>1, <1>2 DEF Shrinks

-----------------------------------------------------------------------------
(* Rounds of scan results *)

\* wpa_bss_update_start: no result yet, and no entry is gone.
LEMMA BeginTable ==
    ASSUME BInv, Begin
    PROVE  /\ Lists' /\ OneEach' /\ Live' = Live
           /\ ent' \in [Addr -> Entry \cup {NULL}]
           /\ bss' \in Seq(Addr) /\ bss_id' \in Seq(Addr)
           /\ last_scan_res' \in Seq(Addr)
           /\ res_size' \in Nat /\ short' \in BOOLEAN
           /\ \A p \in Live : ent'[p].ap = ent[p].ap
<1>1. NULL \notin Entry /\ ent \in [Addr -> Entry \cup {NULL}]
  BY TableAssumption DEF BInv, TypeOK
<1>2. \A p \in Live : /\ p \in Addr /\ ent[p] \in Entry
                      /\ ent'[p] = [ent[p] EXCEPT !.seen = FALSE]
  BY <1>1 DEF Live, Begin
<1>3. \A p \in Live : /\ ent'[p] \in Entry /\ ent'[p].ap = ent[p].ap
                      /\ ent'[p].seen = FALSE
  BY <1>2 DEF Entry
<1>4. \A p \in Addr \ Live : ent'[p] = NULL
  BY DEF Begin, Live
<1>5. ent' \in [Addr -> Entry \cup {NULL}]
  BY <1>3, <1>4 DEF Begin
<1>6. Live' = Live /\ Seen' = {}
  BY <1>1, <1>2, <1>3, <1>4 DEF Live, Seen
<1>7. ListOf(<<>>, {})
  BY DEF ListOf, IsInjective, Range
<1>8. Lists'
  <2>1. last_scan_res' = <<>> /\ Listed' = {} /\ UNCHANGED <<bss, bss_id>>
    BY <1>7 DEF Begin, Listed, ListOf
  <2> QED BY <1>6, <1>7, <2>1 DEF BInv, Lists
<1>9. OneEach'
  BY <1>3, <1>6 DEF BInv, OneEach
<1>10. res_size' \in Nat /\ short' \in BOOLEAN
  BY DEF BInv, TypeOK, Begin
<1> QED
  BY <1>3, <1>5, <1>6, <1>8, <1>9, <1>10
  DEF BInv, TypeOK, Begin, Lists, ListOf

LEMMA UpdateStartStep ==
    ASSUME BInv, UpdateStart PROVE BInv'
<1>1. Lists' /\ OneEach' /\ Live' = Live
  BY BeginTable DEF UpdateStart
<1>2. TypeOK'
  BY BeginTable DEF BInv, TypeOK, UpdateStart, station
<1>3. WorkKnown' /\ CurrentLive'
  BY BeginTable DEF BInv, WorkKnown, CurrentLive, UpdateStart
<1> QED
  BY <1>1, <1>2, <1>3 DEF BInv

LEMMA UpdateEndOldStep ==
    ASSUME BInv, UpdateEndOld PROVE BInv'
<1>1. Lists' /\ OneEach' /\ Live' = Live
  BY SameTable DEF UpdateEndOld
<1>2. TypeOK'
  BY DEF BInv, TypeOK, UpdateEndOld, station, table
<1>3. WorkKnown' /\ CurrentLive'
  BY <1>1 DEF BInv, WorkKnown, CurrentLive, UpdateEndOld, table
<1> QED
  BY <1>1, <1>2, <1>3 DEF BInv

LEMMA UpdateEndStep ==
    ASSUME BInv, NEW S \in SUBSET Aps, UpdateEnd(S) PROVE BInv'
<1> DEFINE missed(p) == ent[p].miss + (IF ent[p].seen THEN 0 ELSE 1)
           out == {p \in Scanned(S) : Expired(missed(p))}
<1>0. NULL \notin Entry /\ Expire \in Nat \ {0}
  BY TableAssumption
<1>1. \A p \in Live : /\ p \in Addr /\ ent[p] \in Entry /\ ent[p].ap \in Aps
                      /\ ent[p].seen \in BOOLEAN /\ ent[p].miss \in 0 .. Expire - 1
  BY EntryFacts DEF BInv
<1>2. out \subseteq Scanned(S) /\ Scanned(S) \subseteq Live
  BY DEF Scanned
<1>3. \A p \in Scanned(S) \ out : missed(p) \in 0 .. Expire - 1
  BY <1>0, <1>1, <1>2 DEF Expired
<1>4. \A p \in Addr :
         ent'[p] = IF p \in out THEN NULL
                   ELSE IF p \in Scanned(S) THEN [ent[p] EXCEPT !.miss = missed(p)]
                        ELSE ent[p]
  BY DEF UpdateEnd
<1>5. \A p \in Live \ out :
         /\ ent'[p] \in Entry
         /\ ent'[p].ap = ent[p].ap /\ ent'[p].seen = ent[p].seen
  <2> TAKE p \in Live \ out
  <2>1. CASE p \in Scanned(S)
    <3>1. ent'[p] = [ent[p] EXCEPT !.miss = missed(p)] /\ missed(p) \in 0 .. Expire - 1
      BY <1>1, <1>3, <1>4, <2>1
    <3> HIDE DEF missed
    <3> QED BY <1>1, <3>1 DEF Entry
  <2>2. CASE p \notin Scanned(S)
    BY <1>1, <1>4, <2>2
  <2> QED BY <2>1, <2>2
<1>6. \A p \in Addr \ (Live \ out) : ent'[p] = NULL
  BY <1>2, <1>4 DEF Live
<1>7. ent' \in [Addr -> Entry \cup {NULL}]
  <2>1. \A p \in Addr : ent'[p] \in Entry \cup {NULL}
    BY <1>5, <1>6
  <2>2. ent' = [p \in Addr |-> ent'[p]]
    BY DEF UpdateEnd
  <2> QED BY <2>1, <2>2
<1>8. /\ bss' = Without(bss, out) /\ bss_id' = Without(bss_id, out)
      /\ last_scan_res' = WithoutFirst(last_scan_res, out)
      /\ cwork' = CworkWithout(out) /\ pc' = "idle"
      /\ UNCHANGED <<res_size, short, max_count, current_bss, station, dangling>>
  BY DEF UpdateEnd
<1> HIDE DEF out, missed
<1>9. Shrinks(out)
  BY <1>2, <1>5, <1>6, <1>7, <1>8 DEF Shrinks
<1>10. Live' = Live \ out
  BY <1>9, ShrinksTable
<1>11. cwork' \in Work \cup {NULL} /\ WorkKnown'
  BY <1>8, <1>9, ShrinksKeeps, WorkWithout
<1>12. current_bss \notin out
  BY <1>2 DEF Scanned, InUse
<1>13. CurrentLive'
  BY <1>8, <1>10, <1>12 DEF BInv, CurrentLive
<1>14. TypeOK'
  BY <1>8, <1>9, <1>11, ShrinksTable DEF BInv, TypeOK, station
<1> QED
  BY <1>9, <1>11, <1>13, <1>14, ShrinksTable DEF BInv

\* An entry that was seen is added to the results, or there is no memory.
LEMMA ListFacts ==
    ASSUME BInv, NEW T, NEW s, ListOf(s, T), T \subseteq Seen',
           NEW q \in Addr, q \notin T, q \in Seen',
           short \/ T \cup {q} = Seen', List(s, q)
    PROVE  /\ ListOf(last_scan_res', Listed') /\ Listed' \subseteq Seen'
           /\ short' \/ Listed' = Seen'
           /\ res_size' \in Nat /\ short' \in BOOLEAN
<1>1. ListOf(Append(s, q), T \cup {q})
  BY AppendFacts
<1>2. /\ res_size \in Nat /\ short \in BOOLEAN
      /\ Slots \in Nat /\ 2 * res_size \in Nat
  BY TableAssumption DEF BInv, TypeOK
<1>3. CASE last_scan_res' = Append(s, q) /\ UNCHANGED short
  <2>1. Listed' = T \cup {q}
    BY <1>1, <1>3 DEF Listed, ListOf
  <2>2. res_size' \in Nat
    BY <1>2 DEF List
  <2> QED BY <1>1, <1>2, <1>3, <2>1, <2>2
<1>4. CASE last_scan_res' = s /\ short' = TRUE /\ UNCHANGED res_size
  <2>1. Listed' = T
    BY <1>4 DEF Listed, ListOf
  <2> QED BY <1>2, <1>4, <2>1
<1> QED
  BY <1>3, <1>4 DEF List

\* wpa_bss_update: wherever realloc puts the entry, every pointer follows.
LEMMA UpdateStep ==
    ASSUME BInv, NEW a \in Aps, Update(a) PROVE BInv'
<1> DEFINE new == [ap |-> a, seen |-> TRUE, miss |-> 0]
<1>0. NULL \notin Entry /\ new \in Entry
  BY TableAssumption DEF Entry
<1>1. PICK p \in Entries(a), q \in Addr :
        /\ q \in {p} \cup Free
        /\ ent' = [ent EXCEPT ![p] = NULL, ![q] = new]
        /\ bss' = Append(Without(bss, {p}), q)
        /\ bss_id' = Moved(bss_id, p, q)
        /\ ListOnce(Moved(last_scan_res, p, q), q)
        /\ current_bss' = CurrentMoved(p, q)
        /\ cwork' = IF cwork # NULL /\ cwork.bss = p
                    THEN [cwork EXCEPT !.bss = q] ELSE cwork
  <2>1. \A p \in Entries(a) : \A q \in {p} \cup Free : q \in Addr
    BY DEF Entries, Live, Free
  <2> QED BY <2>1 DEF Update
<1>2. UNCHANGED <<max_count, station, pc, dangling>> /\ pc # "idle"
  BY DEF Update
<1>3. /\ p \in Live /\ p \in Addr /\ ent[p].ap = a /\ q \notin Live \ {p}
      /\ Live \subseteq Addr
  BY <1>1 DEF Entries, Live, Free
<1> HIDE DEF new
<1>4. /\ ent' \in [Addr -> Entry \cup {NULL}] /\ ent'[q] = new
      /\ \A r \in Addr \ {p, q} : ent'[r] = ent[r]
      /\ q # p => ent'[p] = NULL
  BY <1>0, <1>1, <1>3 DEF BInv, TypeOK
<1>5. new.ap = a /\ new.seen = TRUE
  BY DEF new
<1>6. Live' = (Live \ {p}) \cup {q}
  BY <1>0, <1>3, <1>4 DEF Live
<1>7. Seen' = (Seen \ {p}) \cup {q}
  BY <1>3, <1>4, <1>5, <1>6 DEF Seen
<1>8. /\ ListOf(bss, Live) /\ ListOf(bss_id, Live)
      /\ ListOf(last_scan_res, Listed) /\ Listed \subseteq Seen
      /\ short \/ Listed = Seen
  BY DEF BInv, Lists
<1>9. ListOf(bss', Live')
  <2>1. ListOf(Without(bss, {p}), Live \ {p})
    BY <1>8, WithoutFacts
  <2> QED BY <1>1, <1>3, <1>6, <2>1, AppendFacts
<1>10. ListOf(bss_id', Live')
  BY <1>1, <1>3, <1>6, <1>8, MovedFacts
<1>11. /\ ListOf(last_scan_res', Listed') /\ Listed' \subseteq Seen'
       /\ short' \/ Listed' = Seen'
       /\ res_size' \in Nat /\ short' \in BOOLEAN
  <2> DEFINE s == Moved(last_scan_res, p, q)
             T == (Listed \ {p}) \cup (IF p \in Listed THEN {q} ELSE {})
  <2>1. q \notin Listed \ {p}
    BY <1>3, <1>8 DEF Seen
  <2>2. ListOf(s, T) /\ T \subseteq Seen' /\ Seen' \ {q} = Seen \ {p, q}
    BY <1>7, <1>8, <2>1, MovedFacts
  <2>3. Range(s) = T /\ (q \in T <=> p \in Listed)
    BY <2>1, <2>2 DEF ListOf
  <2>4. short \/ T \cup {q} = Seen'
    BY <1>7, <1>8
  <2>5. ListOnce(s, q)
    BY <1>1
  <2> HIDE DEF s, T
  <2>6. CASE q \in T
    <3>1. last_scan_res' = s /\ UNCHANGED <<res_size, short>>
      BY <2>3, <2>5, <2>6 DEF ListOnce
    <3> QED BY <2>2, <2>3, <2>4, <2>6, <3>1 DEF Listed, BInv, TypeOK
  <2>7. CASE q \notin T
    <3>1. List(s, q)
      BY <2>3, <2>5, <2>7 DEF ListOnce
    <3>2. q \in Seen'
      BY <1>7
    <3> QED BY <2>2, <2>4, <2>7, <3>1, <3>2, ListFacts
  <2> QED BY <2>6, <2>7
<1>12. Lists'
  BY <1>9, <1>10, <1>11 DEF Lists
<1>13. OneEach'
  <2>1. \A r \in Live \ {p} : r = q \/ (ent'[r].ap = ent[r].ap /\ ent[r].ap # a)
    BY <1>3, <1>4 DEF BInv, OneEach
  <2> QED BY <1>3, <1>4, <1>5, <1>6, <2>1 DEF BInv, OneEach
<1>15. cwork' \in Work \cup {NULL} /\ WorkKnown'
  <2>1. CASE cwork # NULL /\ cwork.bss = p
    <3>1. cwork \in Work /\ cwork' = [cwork EXCEPT !.bss = q]
      BY <1>1, <2>1 DEF BInv, TypeOK
    <3>2. /\ cwork' \in Work /\ cwork'.bss = q /\ cwork'.ap = cwork.ap
          /\ cwork'.removed = cwork.removed
      BY <3>1 DEF Work
    <3> QED BY <1>3, <1>4, <1>5, <1>6, <2>1, <3>2 DEF BInv, WorkKnown
  <2>2. CASE ~(cwork # NULL /\ cwork.bss = p)
    <3>1. cwork' = cwork
      BY <1>1, <2>2
    <3>2. \A r \in Live \ {p} : r \in Live' /\ ent'[r] = ent[r]
      BY <1>3, <1>4, <1>6
    <3> QED BY <2>2, <3>1, <3>2 DEF BInv, TypeOK, WorkKnown
  <2> QED BY <2>1, <2>2
<1>16. CurrentLive' /\ current_bss' \in Addr \cup {NULL}
  BY <1>1, <1>2, <1>6 DEF BInv, TypeOK, CurrentLive, CurrentMoved
<1>17. TypeOK'
  BY <1>2, <1>4, <1>11, <1>12, <1>15, <1>16
  DEF BInv, TypeOK, Lists, ListOf, station
<1> QED
  BY <1>12, <1>13, <1>15, <1>16, <1>17 DEF BInv

\* The entry that wpa_bss_remove_oldest removes is one of the table.
LEMMA EvictedFacts ==
    ASSUME BInv, Evictable # {}
    PROVE  bss[Min(Evictable)] \in Live
<1>1. Len(bss) \in Nat /\ DOMAIN bss = 1 .. Len(bss) /\ Range(bss) = Live
  BY DEF BInv, TypeOK, Lists, ListOf
<1>2. Evictable \subseteq DOMAIN bss
  BY DEF Evictable
<1>3. Min(Evictable) \in DOMAIN bss
  <2>1. Evictable \in SUBSET Nat
    BY <1>1, <1>2
  <2> QED BY <1>2, <2>1, MinFacts
<1> QED
  BY <1>1, <1>3 DEF Range

\* wpa_bss_add: a new entry, in a table made smaller or a limit made larger.
LEMMA AddStep ==
    ASSUME BInv, NEW a \in Aps, Add(a) PROVE BInv'
<1> DEFINE new == [ap |-> a, seen |-> TRUE, miss |-> 0]
           out == IF Full /\ Evictable # {} THEN {bss[Min(Evictable)]} ELSE {}
<1>0. NULL \notin Entry /\ new \in Entry /\ new.ap = a /\ new.seen = TRUE
  BY TableAssumption DEF Entry
<1>1. PICK q \in Free :
        /\ ent' = [p \in Addr |-> IF p = q THEN new
                                  ELSE IF p \in out THEN NULL ELSE ent[p]]
        /\ bss' = Append(Without(bss, out), q)
        /\ bss_id' = Append(Without(bss_id, out), q)
        /\ List(WithoutFirst(last_scan_res, out), q)
        /\ cwork' = CworkWithout(out)
        /\ dangling' = (current_bss \in out)
  BY DEF Add
<1>2. /\ max_count' = IF Full /\ Evictable = {} THEN Len(bss) + 1 ELSE max_count
      /\ pc' = IF dangling' THEN "idle" ELSE pc
      /\ UNCHANGED <<current_bss, station>> /\ pc # "idle" /\ Entries(a) = {}
  BY DEF Add
<1>3. out \subseteq Live
  BY EvictedFacts
<1>4. q \in Addr /\ q \notin Live /\ Live \subseteq Addr
  BY DEF Free, Live
<1>5. /\ ListOf(bss, Live) /\ ListOf(bss_id, Live)
      /\ ListOf(last_scan_res, Listed) /\ Listed \subseteq Seen
      /\ short \/ Listed = Seen
  BY DEF BInv, Lists
<1>7. max_count' \in Nat
  BY <1>2 DEF BInv, TypeOK
<1> HIDE DEF new, out
<1>8. /\ ent' \in [Addr -> Entry \cup {NULL}] /\ ent'[q] = new
      /\ \A p \in Addr \ (out \cup {q}) : ent'[p] = ent[p]
      /\ \A p \in out : ent'[p] = NULL
  BY <1>0, <1>1, <1>3, <1>4 DEF BInv, TypeOK
<1>9. Live' = (Live \ out) \cup {q}
  BY <1>0, <1>3, <1>4, <1>8 DEF Live
<1>10. Seen' = (Seen \ out) \cup {q}
  BY <1>0, <1>3, <1>4, <1>8, <1>9 DEF Seen
<1>11. Lists' /\ res_size' \in Nat /\ short' \in BOOLEAN
  <2>1. /\ ListOf(Without(bss, out), Live \ out)
        /\ ListOf(Without(bss_id, out), Live \ out)
        /\ ListOf(WithoutFirst(last_scan_res, out), Listed \ out)
    BY <1>5, WithoutFacts
  <2>2. q \notin Live \ out /\ q \notin Listed \ out
    BY <1>4, <1>5 DEF Seen
  <2>3. ListOf(bss', Live') /\ ListOf(bss_id', Live')
    BY <1>1, <1>4, <1>9, <2>1, <2>2, AppendFacts
  <2>4. /\ Listed \ out \subseteq Seen' /\ q \in Seen'
        /\ short \/ (Listed \ out) \cup {q} = Seen'
    BY <1>5, <1>10
  <2>5. /\ ListOf(last_scan_res', Listed') /\ Listed' \subseteq Seen'
        /\ short' \/ Listed' = Seen'
        /\ res_size' \in Nat /\ short' \in BOOLEAN
    BY <1>1, <1>4, <2>1, <2>2, <2>4, ListFacts
  <2> QED BY <2>3, <2>5 DEF Lists
<1>12. OneEach'
  <2>1. \A p \in Live \ out : ent'[p] = ent[p] /\ ent[p].ap # a
    BY <1>2, <1>4, <1>8 DEF Entries
  <2> QED BY <1>0, <1>8, <1>9, <2>1 DEF BInv, OneEach
<1>14. cwork' \in Work \cup {NULL} /\ WorkKnown'
  <2>1. Live \ out \subseteq Live' /\ \A p \in Live \ out : ent'[p].ap = ent[p].ap
    BY <1>4, <1>8, <1>9
  <2> QED BY <1>1, <2>1, WorkWithout
<1>15. CurrentLive'
  BY <1>1, <1>2, <1>9 DEF BInv, CurrentLive
<1>16. dangling' \in BOOLEAN /\ pc' \in {"idle", "scan", "assoc"}
  <2>1. dangling' \in BOOLEAN
    BY <1>1
  <2> QED BY <2>1, <1>2 DEF BInv, TypeOK
<1>17. TypeOK'
  BY <1>2, <1>7, <1>8, <1>11, <1>14, <1>16 DEF BInv, TypeOK, Lists, ListOf, station
<1> QED
  BY <1>11, <1>12, <1>14, <1>15, <1>17 DEF BInv

-----------------------------------------------------------------------------
(* Flushes and connections *)

LEMMA RemovesShrinks ==
    ASSUME BInv, NEW S, S \subseteq Live, UNCHANGED <<res_size, short>>,
           ent' = [p \in Addr |-> IF p \in S THEN NULL ELSE ent[p]],
           bss' = Without(bss, S), bss_id' = Without(bss_id, S),
           last_scan_res' = WithoutFirst(last_scan_res, S)
    PROVE  Shrinks(S)
<1>1. ent \in [Addr -> Entry \cup {NULL}]
  BY DEF BInv, TypeOK
<1>2. \A p \in Live : ent[p] \in Entry
  BY EntryFacts DEF BInv
<1> QED
  BY <1>1, <1>2 DEF Shrinks, Live

LEMMA SetMaxCountStep ==
    ASSUME BInv, NEW n \in MaxCounts, SetMaxCount(n) PROVE BInv'
<1>1. Lists' /\ OneEach' /\ Live' = Live
  BY SameTable DEF SetMaxCount
<1>2. TypeOK'
  BY TableAssumption DEF BInv, TypeOK, SetMaxCount, station, table
<1>3. WorkKnown' /\ CurrentLive'
  BY <1>1 DEF BInv, WorkKnown, CurrentLive, SetMaxCount, table
<1> QED
  BY <1>1, <1>2, <1>3 DEF BInv

LEMMA FlushStep ==
    ASSUME BInv, NEW n, Flush(n) PROVE BInv'
<1> DEFINE S == {p \in Live : ~InUse(p) /\ \E k \in 1 .. n : p = bss[k]}
<1>1. /\ RemoveAll(S)
      /\ UNCHANGED <<max_count, current_bss, station, pc, dangling>>
  BY DEF Flush
<1>2. S \subseteq Live /\ current_bss \notin S
  BY DEF InUse
<1> HIDE DEF S
<1>3. Shrinks(S)
  BY <1>1, <1>2, RemovesShrinks DEF RemoveAll
<1>4. Live' = Live \ S
  BY <1>3, ShrinksTable
<1>5. cwork' \in Work \cup {NULL} /\ WorkKnown'
  BY <1>1, <1>3, ShrinksKeeps, WorkWithout DEF RemoveAll
<1>6. CurrentLive'
  BY <1>1, <1>2, <1>4 DEF BInv, CurrentLive
<1>7. TypeOK'
  BY <1>1, <1>3, <1>5, ShrinksTable DEF BInv, TypeOK, station
<1> QED
  BY <1>3, <1>5, <1>6, <1>7, ShrinksTable DEF BInv

\* The BSS that an association is looked up for is an entry, if there is one.
LEMMA NewBssFacts ==
    ASSUME BInv, NEW b
    PROVE  NewBss(b) \in Live \cup {NULL}
<1> DEFINE K == {k \in DOMAIN bss : Bssid[ent[bss[k]].ap] = b}
           exact == {p \in Live : /\ Bssid[ent[p].ap] = b
                                  /\ Ssid[ent[p].ap] = current_ssid}
<1>1. Len(bss) \in Nat /\ DOMAIN bss = 1 .. Len(bss) /\ Range(bss) = Live
  BY DEF BInv, TypeOK, Lists, ListOf
<1>2. LatestWith(b) \in Live \cup {NULL}
  <2>1. CASE K = {}
    BY <2>1 DEF LatestWith
  <2>2. CASE K # {}
    <3>1. K \in SUBSET (1 .. Len(bss))
      BY <1>1
    <3>2. Max(K) \in K
      BY <1>1, <2>2, <3>1, MaxFacts
    <3>3. bss[Max(K)] \in Live
      BY <1>1, <3>2 DEF Range
    <3> QED BY <2>2, <3>3 DEF LatestWith
  <2> QED BY <2>1, <2>2
<1>3. CASE exact = {}
  BY <1>2, <1>3 DEF NewBss
<1>4. CASE exact # {}
  <2>1. (CHOOSE p \in exact : TRUE) \in exact
    BY <1>4
  <2> QED BY <1>4, <2>1 DEF NewBss
<1> QED
  BY <1>3, <1>4

\* A step that leaves the table alone, and the pointers as the table allows.
LEMMA TableKept ==
    ASSUME BInv, UNCHANGED <<table, dangling>>, pc' = pc \/ pc' = "idle",
           UNCHANGED max_count \/ max_count' \in Nat,
           current_bss' \in Live \cup {NULL} \/ UNCHANGED current_bss,
           current_ssid' \in Networks \cup {NULL},
           bssid' \in Bssids \cup {NULL}, pending_bssid' \in Bssids \cup {NULL},
           cwork' \in Work \cup {NULL}, WorkKnown'
    PROVE  BInv'
<1>1. Live' = Live /\ Live \subseteq Addr
  BY SameTable DEF Live
<1>2. CurrentLive' /\ current_bss' \in Addr \cup {NULL}
  BY <1>1 DEF BInv, CurrentLive, TypeOK
<1>3. TypeOK'
  BY <1>1, <1>2, SameTable DEF BInv, TypeOK
<1> QED
  BY <1>2, <1>3, SameTable DEF BInv

\* The connect works of a table that is left alone: none, the one there was
\* in another condition, or one for an entry.
LEMMA WorkCases ==
    ASSUME BInv, UNCHANGED table
    PROVE  /\ cwork' = NULL => cwork' \in Work \cup {NULL} /\ WorkKnown'
           /\ cwork' = cwork => cwork' \in Work \cup {NULL} /\ WorkKnown'
           /\ cwork # NULL /\ cwork' = [cwork EXCEPT !.started = TRUE]
                 => cwork' \in Work \cup {NULL} /\ WorkKnown'
           /\ \A p \in Live, net \in Networks : cwork' = Request(p, net)
                 => cwork' \in Work \cup {NULL} /\ WorkKnown'
<1>1. Live' = Live /\ ent' = ent
  BY DEF table, Live
<1>2. ASSUME cwork # NULL, cwork' = [cwork EXCEPT !.started = TRUE]
      PROVE  cwork' \in Work \cup {NULL} /\ WorkKnown'
  <2>1. cwork \in Work
    BY <1>2 DEF BInv, TypeOK
  <2>2. /\ cwork' \in Work /\ cwork'.bss = cwork.bss /\ cwork'.ap = cwork.ap
        /\ cwork'.removed = cwork.removed
    BY <1>2, <2>1 DEF Work
  <2> QED BY <1>1, <1>2, <2>2 DEF BInv, WorkKnown
<1>3. ASSUME NEW p \in Live, NEW net \in Networks, cwork' = Request(p, net)
      PROVE  cwork' \in Work \cup {NULL} /\ WorkKnown'
  <2>1. p \in Addr /\ ent[p].ap \in Aps
    BY EntryFacts DEF BInv
  <2>2. cwork' \in Work /\ cwork'.bss = p /\ cwork'.ap = ent[p].ap
    BY <1>3, <2>1 DEF Request, Work
  <2> QED BY <1>1, <2>2 DEF WorkKnown
<1> QED
  BY <1>1, <1>2, <1>3 DEF BInv, TypeOK, WorkKnown

LEMMA ConnectStep ==
    ASSUME BInv, NEW p \in Addr, NEW net \in Networks, Connect(p, net)
    PROVE  BInv'
<1>1. p \in Live
  BY DEF Connect, BInv, Lists, Listed, Seen
<1>2. cwork' \in Work \cup {NULL} /\ WorkKnown'
  BY <1>1, WorkCases DEF Connect
<1>3. /\ UNCHANGED <<table, max_count, dangling, pc, current_bss>>
      /\ UNCHANGED <<current_ssid, bssid, pending_bssid>>
  BY DEF Connect, station
<1> QED
  BY <1>2, <1>3, TableKept DEF BInv, TypeOK

LEMMA WorkStartStep ==
    ASSUME BInv, WorkStart PROVE BInv'
<1>1. /\ cwork \in Work /\ cwork # NULL /\ cwork.removed = FALSE
  BY DEF WorkStart, WorkPending, WorkValid, BInv, TypeOK, Work
<1>2. cwork.bss \in Live /\ cwork.net \in Networks
  BY <1>1 DEF BInv, WorkKnown, Work
<1>3. cwork' \in Work \cup {NULL} /\ WorkKnown'
  <2>1. CASE cwork' = NULL
    BY <2>1, WorkCases DEF WorkStart
  <2>2. CASE cwork' = [cwork EXCEPT !.started = TRUE]
    BY <1>1, <2>2, WorkCases DEF WorkStart
  <2> QED BY <2>1, <2>2 DEF WorkStart
<1>4. Bssid[ent[cwork.bss].ap] \in Bssids
  BY <1>2, EntryFacts DEF BInv, Bssids
<1>5. /\ UNCHANGED <<table, max_count, dangling, pc>>
      /\ current_bss' = cwork.bss /\ current_ssid' \in {cwork.net, current_ssid}
      /\ bssid' = NULL /\ pending_bssid' = Bssid[ent[cwork.bss].ap]
  BY DEF WorkStart
<1> QED
  BY <1>2, <1>3, <1>4, <1>5, TableKept DEF BInv, TypeOK

LEMMA WorkDropStep ==
    ASSUME BInv, WorkDrop PROVE BInv'
<1>1. cwork' \in Work \cup {NULL} /\ WorkKnown'
  BY WorkCases DEF WorkDrop
<1>2. /\ UNCHANGED <<table, max_count, dangling, pc, current_bss>>
      /\ UNCHANGED <<current_ssid, bssid, pending_bssid>>
  BY DEF WorkDrop, station
<1> QED
  BY <1>1, <1>2, TableKept DEF BInv, TypeOK

LEMMA AssocStep ==
    ASSUME BInv, NEW b \in Bssids, Assoc(b) PROVE BInv'
<1>1. /\ bssid' = b /\ pending_bssid' = NULL
      /\ UNCHANGED <<current_ssid, max_count, cwork, dangling>>
      /\ ~dangling
  BY DEF Assoc, Connecting
<1>2. CASE UNCHANGED <<table, pc>>
  <2>1. current_bss' \in Live \cup {NULL} \/ UNCHANGED current_bss
    BY NewBssFacts DEF Assoc
  <2>2. cwork' \in Work \cup {NULL} /\ WorkKnown'
    BY <1>1, <1>2, WorkCases
  <2> QED BY <1>1, <1>2, <2>1, <2>2, TableKept DEF BInv, TypeOK
<1>3. CASE Begin /\ pc' = "assoc" /\ UNCHANGED current_bss
  <2>1. Lists' /\ OneEach' /\ Live' = Live
    BY <1>1, <1>3, BeginTable
  <2>2. TypeOK'
    BY <1>1, <1>3, BeginTable DEF BInv, TypeOK
  <2>3. WorkKnown' /\ CurrentLive'
    BY <1>1, <1>3, BeginTable DEF BInv, WorkKnown, CurrentLive
  <2> QED BY <2>1, <2>2, <2>3 DEF BInv
<1> QED
  BY <1>2, <1>3 DEF Assoc

LEMMA AssocUpdatedStep ==
    ASSUME BInv, AssocUpdated PROVE BInv'
<1>1. cwork' \in Work \cup {NULL} /\ WorkKnown'
  BY WorkCases DEF AssocUpdated
<1>2. current_bss' \in Live \cup {NULL} \/ UNCHANGED current_bss
  BY NewBssFacts DEF AssocUpdated
<1>3. /\ UNCHANGED <<table, max_count, dangling>> /\ pc' = "idle"
      /\ UNCHANGED <<current_ssid, bssid, pending_bssid>>
  BY DEF AssocUpdated, station
<1> QED
  BY <1>1, <1>2, <1>3, TableKept DEF BInv, TypeOK

LEMMA WorkDoneCases == WorkDone = NULL \/ WorkDone = cwork
  BY DEF WorkDone

LEMMA CompletedStep ==
    ASSUME BInv, Completed PROVE BInv'
<1>1. cwork' \in Work \cup {NULL} /\ WorkKnown'
  BY WorkCases, WorkDoneCases DEF Completed
<1>2. /\ UNCHANGED <<table, max_count, dangling, pc, current_bss>>
      /\ UNCHANGED <<current_ssid, bssid, pending_bssid>>
  BY DEF Completed, station
<1> QED
  BY <1>1, <1>2, TableKept DEF BInv, TypeOK

LEMMA SmeDeauthStep ==
    ASSUME BInv, SmeDeauth PROVE BInv'
<1>1. cwork' \in Work \cup {NULL} /\ WorkKnown'
  BY WorkCases, WorkDoneCases DEF SmeDeauth
<1>2. /\ UNCHANGED <<table, max_count, dangling, pc, current_bss, current_ssid>>
      /\ bssid' = NULL /\ pending_bssid' = NULL
  BY DEF SmeDeauth
<1> QED
  BY <1>1, <1>2, TableKept DEF BInv, TypeOK

LEMMA DisassocStep ==
    ASSUME BInv, NEW again \in BOOLEAN, Disassoc(again) PROVE BInv'
<1>1. /\ UNCHANGED <<table, max_count, dangling, pc>>
      /\ bssid' = NULL /\ pending_bssid' = NULL
      /\ current_ssid' = NULL /\ current_bss' = NULL
  BY DEF Disassoc, MarkDisassoc
<1>2. cwork' \in Work \cup {NULL} /\ WorkKnown'
  <2>1. CASE again
    <3>1. current_bss \in Live /\ current_ssid \in Networks
      BY <2>1 DEF Disassoc, Connecting, BInv, CurrentLive, TypeOK
    <3>2. cwork' = Request(current_bss, current_ssid)
      BY <2>1 DEF Disassoc
    <3> QED BY <1>1, <3>1, <3>2, WorkCases
  <2>2. CASE ~again
    BY <1>1, <2>2, WorkCases, WorkDoneCases DEF Disassoc
  <2> QED BY <2>1, <2>2
<1> QED
  BY <1>1, <1>2, TableKept

LEMMA DisassocLostStep ==
    ASSUME BInv, DisassocLost PROVE BInv'
<1> DEFINE S == {current_bss}
<1>1. /\ ent' = [ent EXCEPT ![current_bss] = NULL]
      /\ bss' = Without(bss, S) /\ bss_id' = Without(bss_id, S)
      /\ last_scan_res' = WithoutFirst(last_scan_res, S)
      /\ cwork' = NULL \/ cwork' = CworkWithout(S)
      /\ UNCHANGED <<res_size, short, max_count, pc, dangling>>
      /\ bssid' = NULL /\ pending_bssid' = NULL
      /\ current_ssid' = NULL /\ current_bss' = NULL
  BY DEF DisassocLost, MarkDisassoc
<1>2. S \subseteq Live
  BY DEF DisassocLost, Connecting, BInv, CurrentLive
<1>3. ent' = [p \in Addr |-> IF p \in S THEN NULL ELSE ent[p]]
  BY <1>1 DEF BInv, TypeOK
<1> HIDE DEF S
<1>4. Shrinks(S)
  BY <1>1, <1>2, <1>3, RemovesShrinks
<1>5. cwork' \in Work \cup {NULL} /\ WorkKnown'
  BY <1>1, <1>4, ShrinksKeeps, WorkWithout
<1>6. CurrentLive'
  BY <1>1 DEF BInv, CurrentLive
<1>7. TypeOK'
  BY <1>1, <1>4, <1>5, ShrinksTable DEF BInv, TypeOK
<1> QED
  BY <1>4, <1>5, <1>6, <1>7, ShrinksTable DEF BInv

LEMMA DisassocAuthenticatingStep ==
    ASSUME BInv, DisassocAuthenticating PROVE BInv'
<1>1. cwork' \in Work \cup {NULL} /\ WorkKnown'
  BY WorkCases, WorkDoneCases DEF DisassocAuthenticating
<1>2. /\ UNCHANGED <<table, max_count, dangling, pc>> /\ current_bss' = NULL
      /\ UNCHANGED <<current_ssid, bssid, pending_bssid>>
  BY DEF DisassocAuthenticating, station
<1> QED
  BY <1>1, <1>2, TableKept DEF BInv, TypeOK

-----------------------------------------------------------------------------
(* The theorems *)

LEMMA InitBInv == Init => BInv
<1> SUFFICES ASSUME Init PROVE BInv
  OBVIOUS
<1>1. Live = {} /\ Seen = {}
  BY DEF Init, Live, Seen
<1>2. ListOf(<<>>, {})
  BY DEF ListOf, IsInjective, Range
<1>3. TypeOK
  <2>1. MaxCount \in Nat /\ <<>> \in Seq(Addr)
    BY TableAssumption
  <2>2. ent \in [Addr -> Entry \cup {NULL}]
    BY DEF Init
  <2>3. dangling \in BOOLEAN /\ short \in BOOLEAN
    BY Zenon DEF Init
  <2> QED BY <2>1, <2>2, <2>3 DEF Init, TypeOK
<1>4. Lists /\ OneEach
  <2>1. Listed = {}
    BY <1>2 DEF Init, Listed, ListOf
  <2> QED BY <1>1, <1>2, <2>1 DEF Init, Lists, OneEach
<1> QED
  BY <1>3, <1>4 DEF Init, BInv, WorkKnown, CurrentLive

LEMMA NextBInv ==
    ASSUME BInv, [Next]_vars PROVE BInv'
<1>1. CASE UNCHANGED vars
  <2>1. /\ UNCHANGED <<table, max_count, dangling, pc, current_bss, cwork>>
        /\ UNCHANGED <<current_ssid, bssid, pending_bssid>>
    BY <1>1 DEF vars, station
  <2>2. cwork' \in Work \cup {NULL} /\ WorkKnown'
    BY <2>1, WorkCases
  <2> QED BY <2>1, <2>2, TableKept DEF BInv, TypeOK
<1> QED
  BY <1>1, UpdateStartStep, UpdateStep, AddStep, UpdateEndOldStep, UpdateEndStep,
     SetMaxCountStep, FlushStep, ConnectStep, WorkStartStep, WorkDropStep,
     AssocStep, AssocUpdatedStep, CompletedStep, SmeDeauthStep, DisassocStep,
     DisassocLostStep, DisassocAuthenticatingStep
  DEF Next

\* Through every order of updates, evictions, expiries, flushes and
\* connections (bss.c, sme.c, events.c), the lists list the entries.
THEOREM TableInvariant == Spec => []BInv
<1> QED BY InitBInv, NextBInv, PTL DEF Spec

\* The type invariant of the table and of the pointers into it.
THEOREM TypeCorrect == Spec => []TypeOK
<1>1. BInv => TypeOK
  BY DEF BInv
<1> QED BY <1>1, TableInvariant, PTL

\* wpa_bss_add, wpa_bss_update and wpa_bss_remove keep both lists complete
\* and without repetition, and one entry for an access point.
THEOREM EntriesAreUnique == Spec => []UniqueEntries
<1>1. BInv => UniqueEntries
  <2> SUFFICES ASSUME BInv PROVE UniqueEntries
    OBVIOUS
  <2>1. /\ Range(bss) = Live /\ Len(bss) = Cardinality(Live)
        /\ Range(bss_id) = Live /\ Len(bss_id) = Cardinality(Live)
    BY ListLength DEF BInv, Lists, ListOf
  <2>2. ASSUME NEW a \in Aps PROVE Cardinality(Entries(a)) <= 1
    <3>1. CASE Entries(a) = {}
      BY <3>1, FS_EmptySet
    <3>2. CASE Entries(a) # {}
      <4>1. PICK p : Entries(a) = {p}
        BY <3>2 DEF Entries, BInv, OneEach
      <4> QED BY <4>1, FS_Singleton
    <3> QED BY <3>1, <3>2
  <2> QED BY <2>1, <2>2 DEF UniqueEntries
<1> QED BY <1>1, TableInvariant, PTL

\* Whatever frees or moves an entry tells the scan results, the connect work
\* and, but for an eviction, the current BSS.
THEOREM PointersAreLive == Spec => []PointersLive
<1>1. BInv => PointersLive
  <2> SUFFICES ASSUME BInv PROVE PointersLive
    OBVIOUS
  <2>1. Range(last_scan_res) \subseteq Live
    BY DEF BInv, Lists, Listed, Seen
  <2>2. cwork # NULL => cwork.removed \/ cwork.bss \in Live
    BY DEF BInv, WorkKnown
  <2> QED BY <2>1, <2>2 DEF PointersLive, BInv, CurrentLive
<1> QED BY <1>1, TableInvariant, PTL

\* last_scan_res holds what wpa_bss_update_scan_res was called for since
\* wpa_bss_update_start and is still there, each once and, as long as there
\* was memory to grow the array, all of it.
THEOREM ResultsSeen == Spec => []ResultsAreSeen
<1>1. BInv => ResultsAreSeen
  BY DEF BInv, Lists, ListOf, Listed, Seen, ResultsAreSeen
<1> QED BY <1>1, TableInvariant, PTL

\* The length of a list that loses elements, or one and gets another.
LEMMA ShorterFacts ==
    ASSUME BInv, NEW R
    PROVE  /\ Len(bss) \in Nat /\ Len(Without(bss, R)) \in Nat
           /\ Len(Without(bss, R)) <= Len(bss)
           /\ \A p \in Live : R = {p} => Len(Without(bss, R)) = Len(bss) - 1
           /\ \A q \in Addr :
                 Len(Append(Without(bss, R), q)) = Len(Without(bss, R)) + 1
<1>1. ListOf(bss, Live) /\ ListOf(Without(bss, R), Live \ R)
  BY WithoutFacts DEF BInv, Lists
<1>2. /\ IsFiniteSet(Live) /\ Len(bss) = Cardinality(Live)
      /\ Len(Without(bss, R)) = Cardinality(Live \ R)
      /\ Len(bss) \in Nat /\ Len(Without(bss, R)) \in Nat
  BY <1>1, ListLength
<1>3. Cardinality(Live \ R) <= Cardinality(Live)
  BY <1>2, FS_Subset
<1>4. \A p \in Live : R = {p} => Cardinality(Live \ R) = Cardinality(Live) - 1
  BY <1>2, FS_RemoveElement
<1>5. \A q \in Addr :
         Len(Append(Without(bss, R), q)) = Len(Without(bss, R)) + 1
  <2>1. Without(bss, R) \in Seq(Addr)
    BY <1>1 DEF ListOf, BInv, TypeOK, Live
  <2> QED BY <2>1
<1> QED
  BY <1>2, <1>3, <1>4, <1>5

\* wpa_bss_add, the only step that makes the table longer or the limit larger.
LEMMA AddBounded ==
    ASSUME BInv, NEW a \in Aps, Add(a)
    PROVE  /\ Len(bss') > Len(bss) => Len(bss') <= max_count'
           /\ max_count' # max_count => \A p \in Live : InUse(p) /\ KnownBss(p)
<1> DEFINE out == IF Full /\ Evictable # {} THEN {bss[Min(Evictable)]} ELSE {}
<1>1. PICK q \in Addr : bss' = Append(Without(bss, out), q)
  BY DEF Add, Free
<1>2. max_count' = IF Full /\ Evictable = {} THEN Len(bss) + 1 ELSE max_count
  BY DEF Add
<1>3. Len(bss) \in Nat /\ max_count \in Nat
  BY ShorterFacts DEF BInv, TypeOK
<1>4. Len(bss') = Len(Without(bss, out)) + 1
  BY <1>1, ShorterFacts
<1>5. Len(Without(bss, out)) \in Nat /\ Len(Without(bss, out)) <= Len(bss)
  BY ShorterFacts
<1>6. CASE Full /\ Evictable # {}
  <2>1. out = {bss[Min(Evictable)]} /\ bss[Min(Evictable)] \in Live
    BY <1>6, EvictedFacts
  <2>2. Len(Without(bss, out)) = Len(bss) - 1
    BY <2>1, ShorterFacts
  <2> QED BY <1>2, <1>3, <1>4, <1>6, <2>2
<1>7. CASE Full /\ Evictable = {}
  <2>1. Len(bss') <= max_count'
    BY <1>2, <1>3, <1>4, <1>5, <1>7
  <2>2. \A p \in Live : InUse(p) /\ KnownBss(p)
    <3>1. \A p \in Live : \E k \in DOMAIN bss : bss[k] = p
      BY DEF BInv, Lists, ListOf, Range
    <3>2. \A k \in DOMAIN bss : KnownBss(bss[k]) /\ InUse(bss[k])
      BY <1>7 DEF Evictable
    <3> QED BY <3>1, <3>2
  <2> QED BY <2>1, <2>2
<1>8. CASE ~Full
  BY <1>2, <1>3, <1>4, <1>5, <1>8 DEF Full
<1> QED
  BY <1>6, <1>7, <1>8

\* wpa_bss_add grows the table up to bss_max_count and no further, also when
\* the limit was lowered below the number of entries, and raises the limit
\* only when it could remove nothing.
THEOREM TableIsBounded == Spec => TableBounded
<1>1. BInv /\ [Next]_vars =>
        [/\ Len(bss') > Len(bss) => Len(bss') <= max_count'
         /\ max_count' # max_count /\ pc # "idle" =>
               \A p \in Live : InUse(p) /\ KnownBss(p)]_vars
  <2> SUFFICES ASSUME BInv, Next
               PROVE  /\ Len(bss') > Len(bss) => Len(bss') <= max_count'
                      /\ max_count' # max_count /\ pc # "idle" =>
                            \A p \in Live : InUse(p) /\ KnownBss(p)
    OBVIOUS
  <2>1. CASE \E a \in Aps : Add(a)
    BY <2>1, AddBounded
  <2>2. CASE \E a \in Aps : Update(a)
    <3>1. PICK p \in Live, q \in Addr : bss' = Append(Without(bss, {p}), q)
      BY <2>2 DEF Update, Entries, Free, Live
    <3>2. Len(bss') = Len(bss)
      BY <3>1, ShorterFacts
    <3>3. max_count' = max_count
      BY <2>2 DEF Update
    <3> QED BY <3>2, <3>3, ShorterFacts
  <2>3. ASSUME bss' = bss \/ \E R : bss' = Without(bss, R),
               max_count' = max_count \/ pc = "idle"
        PROVE  /\ Len(bss') > Len(bss) => Len(bss') <= max_count'
               /\ max_count' # max_count /\ pc # "idle" =>
                     \A p \in Live : InUse(p) /\ KnownBss(p)
    BY <2>3, ShorterFacts
  <2>4. CASE \/ \E S \in SUBSET Aps : UpdateEnd(S)
             \/ \E n \in DOMAIN bss : Flush(n)
             \/ DisassocLost
    BY <2>3, <2>4 DEF UpdateEnd, Flush, RemoveAll, DisassocLost
  <2>5. CASE \/ \E n \in MaxCounts : SetMaxCount(n)
             \/ UpdateStart \/ UpdateEndOld \/ WorkStart \/ WorkDrop
             \/ \E p \in Addr, net \in Networks : Connect(p, net)
             \/ \E b \in Bssids : Assoc(b)
             \/ AssocUpdated \/ Completed \/ SmeDeauth
             \/ \E again \in BOOLEAN : Disassoc(again)
             \/ DisassocAuthenticating
    <3>1. bss' = bss
      BY <2>5 DEF SetMaxCount, UpdateStart, UpdateEndOld, WorkStart, WorkDrop,
         Connect, Assoc, AssocUpdated, Completed, SmeDeauth, Disassoc,
         DisassocAuthenticating, Begin, table
    <3>2. max_count' = max_count \/ pc = "idle"
      BY <2>5 DEF SetMaxCount, UpdateStart, UpdateEndOld, WorkStart, WorkDrop,
         Connect, Assoc, AssocUpdated, Completed, SmeDeauth, Disassoc,
         DisassocAuthenticating
    <3> QED BY <2>3, <3>1, <3>2
  <2> QED BY <2>1, <2>2, <2>4, <2>5 DEF Next
<1> QED BY <1>1, TableInvariant, PTL DEF Spec, TableBounded

\* sme_auth_start_cb never authenticates with another access point than the
\* one sme_authenticate was called for.
THEOREM AttemptsAreAsRequested == Spec => AttemptAsRequested
<1>1. BInv /\ [Next]_vars => [WorkStart => ent[current_bss'].ap = cwork.ap]_vars
  <2> SUFFICES ASSUME BInv, WorkStart PROVE ent[current_bss'].ap = cwork.ap
    OBVIOUS
  <2>1. /\ cwork \in Work /\ cwork # NULL /\ ~cwork.removed
        /\ current_bss' = cwork.bss
    BY DEF WorkStart, WorkPending, WorkValid, BInv, TypeOK
  <2> QED BY <2>1 DEF BInv, WorkKnown
<1> QED BY <1>1, TableInvariant, PTL DEF Spec, AttemptAsRequested
=============================================================================
