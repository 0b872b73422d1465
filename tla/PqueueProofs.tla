---------------------------- MODULE PqueueProofs -----------------------------
(***************************************************************************)
(* Proofs about Pqueue, for every set of items and every assignment of      *)
(* keys.  The inductive invariant says what holds between two iterations    *)
(* of a loop: the order may be broken at the loop's position only, and the  *)
(* neighbours of that position are in order across it.                      *)
(***************************************************************************)
EXTENDS Pqueue, NaturalsInduction, WellFoundedInduction, TLAPS

\* The stored positions, in both directions, and the loop's position.
Stored ==
    /\ \A i \in Positions : idx[At(i)] = i
    /\ \A x \in Items : idx[x] # -1 => idx[x] \in Positions /\ At(idx[x]) = x
    /\ pc # "idle" => at \in Positions

\* No item is less than its parent, but for the item at the loop's position
\* in pqueue_add and its children in heapify ...
InOrder ==
    \A i \in Positions \ {0} :
        Less(At(i), At(PARENT(i))) =>
            \/ pc = "up" /\ i = at
            \/ pc = "down" /\ PARENT(i) = at

\* ... and the children of that position are no less than its parent.
Across ==
    pc # "idle" /\ at > 0 =>
        \A i \in Positions \ {0} :
            PARENT(i) = at => ~Less(At(i), At(PARENT(at)))

Ordered == ~misplaced => InOrder /\ Across

IInv == TypeOK /\ Stored /\ Ordered

-----------------------------------------------------------------------------
(* Positions *)

LEMMA ParentFacts ==
    ASSUME NEW i \in Nat, i > 0
    PROVE  /\ PARENT(i) \in Nat
           /\ PARENT(i) < i
           /\ i = 2 * PARENT(i) + 1 \/ i = 2 * PARENT(i) + 2
BY DEF PARENT

LEMMA ChildFacts ==
    ASSUME NEW i \in Nat
    PROVE  /\ LEFT_CHILD(i) \in Nat
           /\ LEFT_CHILD(i) > i
           /\ PARENT(LEFT_CHILD(i)) = i
           /\ PARENT(LEFT_CHILD(i) + 1) = i
BY DEF PARENT, LEFT_CHILD

LEMMA ChildrenOnly ==
    ASSUME NEW i \in Nat, i > 0
    PROVE  i = LEFT_CHILD(PARENT(i)) \/ i = LEFT_CHILD(PARENT(i)) + 1
BY DEF PARENT, LEFT_CHILD

LEMMA AtIsItem ==
    ASSUME TypeOK, NEW i \in Positions
    PROVE  At(i) \in Items /\ i \in Nat /\ i + 1 \in DOMAIN list
BY DEF TypeOK, At, Positions, num_used

LEMMA BestFacts ==
    ASSUME TypeOK, NEW i \in Positions, LEFT_CHILD(i) < num_used
    PROVE  /\ Best(i) \in Positions
           /\ Best(i) \in {i, LEFT_CHILD(i), LEFT_CHILD(i) + 1}
           /\ ~Less(At(i), At(Best(i)))
           /\ ~Less(At(LEFT_CHILD(i)), At(Best(i)))
           /\ LEFT_CHILD(i) + 1 < num_used =>
                ~Less(At(LEFT_CHILD(i) + 1), At(Best(i)))
<1> DEFINE l == LEFT_CHILD(i)
<1>1. i \in Nat /\ l \in Nat /\ l > i /\ num_used \in Nat
  BY ChildFacts DEF Positions, TypeOK, num_used
<1>2. l \in Positions /\ (l + 1 < num_used => l + 1 \in Positions)
  BY <1>1 DEF Positions
<1>3. Key[At(i)] \in Nat /\ Key[At(l)] \in Nat
  BY <1>2, AtIsItem, KeyAssumption
<1>4. l + 1 < num_used => Key[At(l + 1)] \in Nat
  BY <1>2, AtIsItem, KeyAssumption
<1> HIDE DEF l
<1> QED
  BY <1>1, <1>2, <1>3, <1>4 DEF Best, Less, l

-----------------------------------------------------------------------------
(* Positions are stored *)

\* What Swap leaves of list, item by item.
LEMMA SwapFacts ==
    ASSUME TypeOK, Stored, NEW i \in Positions, NEW j \in Positions, i # j,
           Swap(i, j)
    PROVE  /\ list' \in Seq(Items) /\ idx' \in [Items -> Int]
           /\ Len(list') = Len(list)
           /\ list'[i + 1] = list[j + 1] /\ list'[j + 1] = list[i + 1]
           /\ \A k \in Positions \ {i, j} : list'[k + 1] = list[k + 1]
           /\ \A k \in Positions : idx'[list'[k + 1]] = k
           /\ \A x \in Items : idx'[x] # -1 =>
                idx'[x] \in Positions /\ list'[idx'[x] + 1] = x
<1>1. /\ list \in Seq(Items) /\ idx \in [Items -> Int] /\ Len(list) \in Nat
      /\ i \in 0 .. Len(list) - 1 /\ j \in 0 .. Len(list) - 1
  BY DEF TypeOK, Positions, num_used
<1>2. /\ At(i) \in Items /\ At(j) \in Items /\ At(i) # At(j)
      /\ At(i) = list[i + 1] /\ At(j) = list[j + 1]
  BY AtIsItem DEF Stored, At
<1>3. /\ list' \in Seq(Items)
      /\ Len(list') = Len(list)
      /\ list'[i + 1] = list[j + 1] /\ list'[j + 1] = list[i + 1]
      /\ \A k \in Positions \ {i, j} : list'[k + 1] = list[k + 1]
  BY <1>1, <1>2 DEF Swap, Positions, num_used
<1>4. /\ idx' \in [Items -> Int]
      /\ idx'[At(j)] = i /\ idx'[At(i)] = j
      /\ \A x \in Items \ {At(i), At(j)} : idx'[x] = idx[x]
  BY <1>1, <1>2 DEF Swap
<1>5. ASSUME NEW k \in Positions PROVE idx'[list'[k + 1]] = k
  <2>1. k = i \/ k = j \/ (k \notin {i, j} /\ At(k) \notin {At(i), At(j)})
    BY DEF Stored
  <2>2. At(k) \in Items /\ At(k) = list[k + 1] /\ idx[At(k)] = k
    BY AtIsItem DEF Stored, At
  <2> QED
    BY <1>2, <1>3, <1>4, <2>1, <2>2
<1>6. ASSUME NEW x \in Items, idx'[x] # -1
      PROVE  idx'[x] \in Positions /\ list'[idx'[x] + 1] = x
  <2>1. CASE x \in {At(i), At(j)}
    BY <1>2, <1>3, <1>4, <2>1
  <2>2. CASE x \notin {At(i), At(j)}
    <3>1. idx[x] \in Positions /\ At(idx[x]) = x /\ idx'[x] = idx[x]
      BY <1>4, <1>6, <2>2 DEF Stored
    <3>2. idx[x] \notin {i, j}
      BY <2>2, <3>1
    <3> QED
      BY <1>3, <3>1, <3>2 DEF At
  <2> QED BY <2>1, <2>2
<1> QED
  BY <1>3, <1>4, <1>5, <1>6

\* What Refill leaves of list.
LEMMA RefillFacts ==
    ASSUME TypeOK, Stored, NEW i \in Positions, Refill(i, At(i))
    PROVE  /\ list' \in Seq(Items) /\ idx' \in [Items -> Int]
           /\ Len(list') = Len(list) - 1
           /\ \A k \in 0 .. Len(list) - 2 :
                list'[k + 1] = IF k = i THEN At(num_used - 1) ELSE At(k)
           /\ \A k \in 0 .. Len(list) - 2 : idx'[list'[k + 1]] = k
           /\ \A x \in Items : idx'[x] # -1 =>
                /\ idx'[x] \in 0 .. Len(list) - 2
                /\ list'[idx'[x] + 1] = x
           /\ \/ pc' = "idle" /\ at' = 0 /\ i = num_used - 1
              \/ pc' = "down" /\ at' = i /\ i \in 0 .. Len(list) - 2
<1> DEFINE n == Len(list) - 1
<1>1. /\ list \in Seq(Items) /\ idx \in [Items -> Int]
      /\ n \in Nat /\ i \in 0 .. n /\ n = num_used - 1
      /\ n \in Positions /\ Len(list) = n + 1
  BY DEF TypeOK, Positions, num_used
<1>2. /\ At(i) \in Items /\ At(n) \in Items
      /\ i # n => At(i) # At(n)
  BY <1>1, AtIsItem DEF Stored
<1>3. \A k \in 0 .. n : /\ At(k) \in Items /\ At(k) = list[k + 1]
                         /\ idx[At(k)] = k
  BY <1>1, AtIsItem DEF Stored, At, Positions, num_used
<1>4. \A x \in Items : idx[x] # -1 => idx[x] \in 0 .. n /\ At(idx[x]) = x
  BY <1>1 DEF Stored, Positions, num_used
<1>5. Len(list) - 2 = n - 1 /\ Len(list) - 1 = n
  BY <1>1
<1> HIDE DEF n
<1>6. \A k \in 0 .. n - 1 : k \in 0 .. n /\ k # n
  BY <1>1
<1>7. CASE i = n
  <2>1. /\ list' = SubSeq(list, 1, n) /\ idx' = [idx EXCEPT ![At(i)] = -1]
        /\ pc' = "idle" /\ at' = 0
    BY <1>1, <1>7 DEF Refill
  <2>2. /\ list' \in Seq(Items) /\ Len(list') = n
        /\ \A k \in 0 .. n - 1 : list'[k + 1] = list[k + 1]
    BY <1>1, <2>1
  <2>3. /\ idx' \in [Items -> Int] /\ idx'[At(i)] = -1
        /\ \A x \in Items \ {At(i)} : idx'[x] = idx[x]
    BY <1>1, <1>2, <2>1
  <2>4. \A k \in 0 .. n - 1 : list'[k + 1] = At(k) /\ idx'[At(k)] = k
    <3> TAKE k \in 0 .. n - 1
    <3>1. k \in 0 .. n /\ k # i
      BY <1>6, <1>7
    <3>2. At(k) \in Items /\ At(k) # At(i) /\ idx[At(k)] = k
      BY <1>1, <1>3, <3>1
    <3> QED BY <1>3, <2>2, <2>3, <3>1, <3>2
  <2>5. ASSUME NEW x \in Items, idx'[x] # -1
        PROVE  idx'[x] \in 0 .. n - 1 /\ list'[idx'[x] + 1] = x
    <3>1. x # At(i) /\ idx'[x] = idx[x] /\ idx[x] \in 0 .. n /\ At(idx[x]) = x
      BY <1>4, <2>3, <2>5
    <3>2. idx[x] \in 0 .. n - 1
      BY <1>1, <1>7, <3>1
    <3> QED BY <2>4, <3>1, <3>2
  <2>6. \A k \in 0 .. n - 1 : k # i /\ idx'[list'[k + 1]] = k
    BY <1>6, <1>7, <2>4
  <2> QED
    BY <1>1, <1>5, <1>7, <2>1, <2>2, <2>3, <2>4, <2>5, <2>6
<1>8. CASE i # n
  <2>1. /\ list' = [SubSeq(list, 1, n) EXCEPT ![i + 1] = At(n)]
        /\ idx' = [idx EXCEPT ![At(i)] = -1, ![At(n)] = i]
        /\ pc' = "down" /\ at' = i
    BY <1>1, <1>8 DEF Refill
  <2>2. i \in 0 .. n - 1
    BY <1>1, <1>8
  <2>3. /\ SubSeq(list, 1, n) \in Seq(Items) /\ Len(SubSeq(list, 1, n)) = n
        /\ \A k \in 1 .. n : SubSeq(list, 1, n)[k] = list[k]
    BY <1>1
  <2>4. /\ list' \in Seq(Items) /\ Len(list') = n
        /\ list'[i + 1] = At(n)
        /\ \A k \in 0 .. n - 1 : k # i => list'[k + 1] = list[k + 1]
    <3> DEFINE s == SubSeq(list, 1, n)
    <3>1. i + 1 \in 1 .. n /\ n \in Nat /\ At(n) \in Items
      BY <1>1, <1>2, <1>8
    <3>2. /\ s \in Seq(Items) /\ Len(s) = n /\ list' = [s EXCEPT ![i + 1] = At(n)]
          /\ \A k \in 1 .. n : s[k] = list[k]
      BY <2>1, <2>3
    <3> HIDE DEF s
    <3>3. /\ list' \in Seq(Items) /\ Len(list') = n /\ list'[i + 1] = At(n)
          /\ \A k \in 1 .. n : k # i + 1 => list'[k] = list[k]
      BY <3>1, <3>2
    <3>4. \A k \in 0 .. n - 1 : k + 1 \in 1 .. n /\ (k # i => k + 1 # i + 1)
      BY <1>1
    <3> QED BY <3>3, <3>4
  <2>5. /\ idx' \in [Items -> Int] /\ idx'[At(i)] = -1 /\ idx'[At(n)] = i
        /\ \A x \in Items \ {At(i), At(n)} : idx'[x] = idx[x]
    BY <1>1, <1>2, <1>8, <2>1
  <2>6. \A k \in 0 .. n - 1 : list'[k + 1] = IF k = i THEN At(n) ELSE At(k)
    BY <1>3, <2>4
  <2>7. ASSUME NEW k \in 0 .. n - 1 PROVE idx'[list'[k + 1]] = k
    <3>1. CASE k = i
      BY <2>5, <2>6, <3>1
    <3>2. CASE k # i
      <4>1. At(k) \notin {At(i), At(n)} /\ idx[At(k)] = k /\ At(k) \in Items
        BY <1>1, <1>3, <1>6, <3>2
      <4> QED BY <2>5, <2>6, <3>2, <4>1
    <3> QED BY <3>1, <3>2
  <2>8. ASSUME NEW x \in Items, idx'[x] # -1
        PROVE  idx'[x] \in 0 .. n - 1 /\ list'[idx'[x] + 1] = x
    <3>1. CASE x = At(n)
      BY <2>2, <2>4, <2>5, <3>1
    <3>2. CASE x # At(n)
      <4>1. /\ x # At(i) /\ idx'[x] = idx[x]
            /\ idx[x] \in 0 .. n /\ At(idx[x]) = x
        BY <1>4, <2>5, <2>8, <3>2
      <4>2. idx[x] # n /\ idx[x] # i
        BY <3>2, <4>1
      <4>3. idx[x] \in 0 .. n - 1
        BY <1>1, <4>1, <4>2
      <4> QED BY <2>6, <4>1, <4>2, <4>3
    <3> QED BY <3>1, <3>2
  <2> QED
    BY <1>1, <1>5, <2>1, <2>4, <2>5, <2>6, <2>7, <2>8, <2>2
<1> QED
  BY <1>7, <1>8

-----------------------------------------------------------------------------
(* The order of the heap *)

\* Every position but the first has a parent, further up.
LEMMA ParentInHeap ==
    ASSUME TypeOK
    PROVE  /\ num_used \in Nat
           /\ \A i \in Positions \ {0} :
                i \in Nat /\ i > 0 /\ PARENT(i) \in Positions /\ PARENT(i) < i
           /\ \A i \in Positions : Key[list[i + 1]] \in Nat
<1>1. num_used \in Nat
  BY DEF TypeOK, num_used
<1>2. ASSUME NEW i \in Positions \ {0}
      PROVE  i \in Nat /\ i > 0 /\ PARENT(i) \in Positions /\ PARENT(i) < i
  <2>1. i \in Nat /\ i > 0 /\ i < num_used
    BY <1>1 DEF Positions
  <2>2. PARENT(i) \in Nat /\ PARENT(i) < i
    BY <2>1, ParentFacts
  <2> QED
    BY <1>1, <2>1, <2>2 DEF Positions
<1>3. ASSUME NEW i \in Positions PROVE Key[list[i + 1]] \in Nat
  BY AtIsItem, KeyAssumption DEF At
<1> QED
  BY <1>1, <1>2, <1>3

\* smartlist_pqueue_add, up to its loop.
LEMMA AddKeeps ==
    ASSUME IInv, NEW x \in Items, Add(x)
    PROVE  IInv'
<1> DEFINE n == Len(list)
<1>1. /\ TypeOK /\ Stored /\ n \in Nat /\ list \in Seq(Items)
      /\ idx \in [Items -> Int] /\ num_used = n
  BY DEF IInv, TypeOK, num_used
<1>2. /\ list' \in Seq(Items) /\ Len(list') = n + 1 /\ list'[n + 1] = x
      /\ \A k \in 0 .. n - 1 : list'[k + 1] = list[k + 1]
  BY <1>1 DEF Add
<1>3. /\ idx' \in [Items -> Int] /\ idx'[x] = n /\ idx[x] = -1
      /\ \A y \in Items \ {x} : idx'[y] = idx[y]
      /\ pc = "idle" /\ pc' = "up" /\ at' = n
      /\ misplaced' = misplaced /\ popped' = popped
  BY <1>1 DEF Add
<1>4. /\ \A k \in 0 .. n - 1 : list[k + 1] \in Items /\ idx[list[k + 1]] = k
      /\ \A y \in Items : idx[y] # -1 =>
            idx[y] \in 0 .. n - 1 /\ list[idx[y] + 1] = y
  BY <1>1, AtIsItem DEF Stored, At, Positions, num_used
<1>5. Positions = 0 .. n - 1 /\ Positions' = 0 .. n
  BY <1>1, <1>2 DEF Positions, num_used
<1> HIDE DEF n
<1>6. TypeOK'
  BY <1>1, <1>2, <1>3 DEF TypeOK
<1>7. ASSUME NEW k \in 0 .. n PROVE idx'[list'[k + 1]] = k
  <2>1. CASE k = n
    BY <1>2, <1>3, <2>1
  <2>2. CASE k # n
    <3>1. k \in 0 .. n - 1
      BY <1>1, <2>2
    <3>2. list[k + 1] \in Items \ {x}
      BY <1>3, <1>4, <3>1
    <3> QED BY <1>2, <1>3, <1>4, <3>1, <3>2
  <2> QED BY <2>1, <2>2
<1>8. ASSUME NEW y \in Items, idx'[y] # -1
      PROVE  idx'[y] \in 0 .. n /\ list'[idx'[y] + 1] = y
  <2>1. CASE y = x
    BY <1>1, <1>2, <1>3, <2>1
  <2>2. CASE y # x
    <3>1. idx'[y] = idx[y] /\ idx[y] \in 0 .. n - 1 /\ list[idx[y] + 1] = y
      BY <1>3, <1>4, <1>8, <2>2
    <3> QED BY <1>1, <1>2, <3>1
  <2> QED BY <2>1, <2>2
<1>9. Stored'
  BY <1>1, <1>3, <1>5, <1>7, <1>8 DEF Stored, At
<1>10. ASSUME ~misplaced' PROVE InOrder' /\ Across'
  <2>1. InOrder
    BY <1>3, <1>10 DEF IInv, Ordered
  <2>2. ASSUME NEW i \in Positions' \ {0}, i # n
        PROVE  ~Less(At(i), At(PARENT(i)))'
    <3>1. i \in Positions \ {0} /\ i \in 0 .. n - 1
      BY <1>1, <1>5, <2>2
    <3>2. PARENT(i) \in 0 .. n - 1
      BY <1>1, <1>5, <3>1, ParentInHeap
    <3> QED
      BY <1>2, <1>3, <2>1, <3>1, <3>2 DEF InOrder, Less, At
  <2>3. ASSUME NEW i \in Positions' \ {0} PROVE PARENT(i) # n
    BY <1>1, <1>5, ParentFacts
  <2> QED
    BY <1>3, <2>2, <2>3 DEF InOrder, Across, PARENT
<1> QED
  BY <1>6, <1>9, <1>10 DEF IInv, Ordered

\* The first part of smartlist_pqueue_pop and smartlist_pqueue_remove, when
\* the last item does not belong above position i.
LEMMA RefillKeeps ==
    ASSUME IInv, pc = "idle", NEW i \in Positions, Refill(i, At(i)),
           popped' \in Items \cup {NoItem}, misplaced' \in BOOLEAN,
           ~misplaced' => ~misplaced /\ ~BelongsAbove(i)
    PROVE  IInv'
<1> DEFINE n == Len(list) - 1
<1>1. /\ TypeOK /\ Stored /\ n \in Nat /\ i \in 0 .. n
      /\ Positions = 0 .. n /\ num_used = n + 1 /\ num_used - 1 = n
      /\ Len(list) - 2 = n - 1
  BY DEF IInv, TypeOK, Positions, num_used
<1>2. /\ list' \in Seq(Items) /\ idx' \in [Items -> Int] /\ Len(list') = n
      /\ \A k \in 0 .. n - 1 :
           list'[k + 1] = IF k = i THEN At(n) ELSE At(k)
      /\ \A k \in 0 .. n - 1 : idx'[list'[k + 1]] = k
      /\ \A x \in Items : idx'[x] # -1 =>
           idx'[x] \in 0 .. n - 1 /\ list'[idx'[x] + 1] = x
      /\ \/ pc' = "idle" /\ at' = 0 /\ i = n
         \/ pc' = "down" /\ at' = i /\ i \in 0 .. n - 1
  BY <1>1, RefillFacts
<1>3. Positions' = 0 .. n - 1
  BY <1>2 DEF Positions, num_used
<1> HIDE DEF n
<1>4. TypeOK'
  BY <1>1, <1>2 DEF TypeOK
<1>5. Stored'
  BY <1>2, <1>3 DEF Stored, At
<1>6. ASSUME ~misplaced' PROVE InOrder' /\ Across'
  <2>1. \A j \in Positions \ {0} : ~Less(At(j), At(PARENT(j)))
    BY <1>6 DEF IInv, Ordered, InOrder
  <2>2. ASSUME NEW j \in Positions' \ {0}
        PROVE  /\ j \in Positions \ {0} /\ j \in 0 .. n - 1 /\ j # n
               /\ PARENT(j) \in 0 .. n - 1 /\ PARENT(j) < j
    <3>1. j \in 0 .. n - 1 /\ j \in Positions \ {0} /\ j # n
      BY <1>1, <1>3
    <3>2. PARENT(j) \in Positions /\ PARENT(j) < j
      BY <1>1, <3>1, ParentInHeap
    <3> QED BY <1>1, <3>1, <3>2
  <2>3. i > 0 /\ i # n => ~Less(At(n), At(PARENT(i)))
    BY <1>1, <1>6 DEF BelongsAbove
  <2>4. InOrder'
    <3>1. ASSUME NEW j \in Positions' \ {0}, Less(At(j), At(PARENT(j)))'
          PROVE  PARENT(j) = i /\ i \in 0 .. n - 1
      <4>1. /\ list'[j + 1] = IF j = i THEN At(n) ELSE At(j)
            /\ list'[PARENT(j) + 1] = IF PARENT(j) = i THEN At(n) ELSE At(PARENT(j))
        BY <1>2, <2>2
      <4>2. Key[list'[j + 1]] < Key[list'[PARENT(j) + 1]]
        BY <3>1 DEF Less, At, PARENT
      <4>3. CASE PARENT(j) # i /\ j # i
        BY <2>1, <2>2, <4>1, <4>2, <4>3 DEF Less
      <4>4. CASE PARENT(j) # i /\ j = i
        <5>1. i > 0 /\ i # n
          BY <1>1, <2>2, <4>4
        <5> QED BY <2>3, <4>1, <4>2, <4>4, <5>1 DEF Less
      <4> QED BY <2>2, <4>3, <4>4
    <3> QED
      BY <1>1, <1>2, <3>1 DEF InOrder, PARENT
  <2>5. Across'
    <3>1. SUFFICES ASSUME pc' # "idle", i > 0, at' = i, i \in 0 .. n - 1,
                          NEW j \in Positions' \ {0}, PARENT(j) = i
                   PROVE  ~Less(list'[j + 1], list'[PARENT(i) + 1])
      BY <1>2 DEF Across, At, PARENT, Less
    <3>2. i \in Positions \ {0} /\ PARENT(i) \in 0 .. n - 1 /\ PARENT(i) # i
      BY <1>1, <3>1, ParentInHeap
    <3>3. list'[j + 1] = At(j) /\ list'[PARENT(i) + 1] = At(PARENT(i))
      BY <1>1, <1>2, <2>2, <3>1, <3>2
    <3>4. ~Less(At(j), At(i)) /\ ~Less(At(i), At(PARENT(i)))
      BY <2>1, <2>2, <3>1, <3>2
    <3>5. /\ Key[At(j)] \in Nat /\ Key[At(i)] \in Nat
          /\ Key[At(PARENT(i))] \in Nat
      BY <1>1, <2>2, <3>2, ParentInHeap DEF At
    <3> QED BY <3>3, <3>4, <3>5 DEF Less
  <2> QED BY <2>4, <2>5
<1> QED
  BY <1>4, <1>5, <1>6 DEF IInv, Ordered

\* A swap of two positions and a move of the loop keep the types and the
\* stored positions.
LEMMA SwapKeeps ==
    ASSUME IInv, NEW i \in Positions, NEW j \in Positions, i # j, Swap(i, j),
           at' \in Positions, UNCHANGED <<pc, popped, misplaced>>
    PROVE  /\ TypeOK' /\ Stored' /\ Positions' = Positions
           /\ list'[i + 1] = list[j + 1] /\ list'[j + 1] = list[i + 1]
           /\ \A k \in Positions \ {i, j} : list'[k + 1] = list[k + 1]
<1>1. TypeOK /\ Stored
  BY DEF IInv
<1>2. /\ list' \in Seq(Items) /\ idx' \in [Items -> Int]
      /\ Len(list') = Len(list)
      /\ list'[i + 1] = list[j + 1] /\ list'[j + 1] = list[i + 1]
      /\ \A k \in Positions \ {i, j} : list'[k + 1] = list[k + 1]
      /\ \A k \in Positions : idx'[list'[k + 1]] = k
      /\ \A x \in Items : idx'[x] # -1 =>
           idx'[x] \in Positions /\ list'[idx'[x] + 1] = x
  BY <1>1, SwapFacts
<1>3. Positions' = Positions
  BY <1>2 DEF Positions, num_used
<1>4. TypeOK'
  BY <1>1, <1>2, ParentInHeap DEF TypeOK, Positions
<1>5. Stored'
  BY <1>2, <1>3 DEF Stored, At
<1> QED
  BY <1>2, <1>3, <1>4, <1>5

\* One iteration of the loop of smartlist_pqueue_add.
LEMMA SiftUpKeeps ==
    ASSUME IInv, SiftUp
    PROVE  IInv'
<1>1. TypeOK /\ Stored /\ pc = "up" /\ at \in Positions
      /\ popped' = popped /\ misplaced' = misplaced
  BY DEF IInv, SiftUp, Stored
<1>2. CASE at > 0 /\ Less(At(at), At(PARENT(at)))
  <2> DEFINE a == at
             p == PARENT(at)
  <2>1. /\ a \in Positions \ {0} /\ p \in Positions /\ p # a /\ p < a
        /\ a \in Nat /\ p \in Nat
    BY <1>1, <1>2, ParentInHeap DEF Positions
  <2>2. Swap(p, a) /\ at' = p /\ pc' = "up"
    BY <1>1, <1>2 DEF SiftUp
  <2>3. /\ TypeOK' /\ Stored' /\ Positions' = Positions
        /\ list'[p + 1] = list[a + 1] /\ list'[a + 1] = list[p + 1]
        /\ \A k \in Positions \ {p, a} : list'[k + 1] = list[k + 1]
    BY <1>1, <2>1, <2>2, SwapKeeps
  <2>4. Key[list[a + 1]] < Key[list[p + 1]]
    BY <1>2 DEF Less, At
  <2>5. a = at /\ p = PARENT(at)
    OBVIOUS
  <2> HIDE DEF a, p
  <2>6. ASSUME ~misplaced' PROVE InOrder' /\ Across'
    <3>1. \A i \in Positions \ {0, a} :
            ~(Key[list[i + 1]] < Key[list[PARENT(i) + 1]])
      BY <1>1, <2>5, <2>6 DEF IInv, Ordered, InOrder, Less, At
    <3>2. \A i \in Positions \ {0} :
            PARENT(i) = a => ~(Key[list[i + 1]] < Key[list[p + 1]])
      BY <1>1, <1>2, <2>5, <2>6 DEF IInv, Ordered, Across, Less, At
    <3>3. /\ \A i \in Positions \ {0} :
               i \in Nat /\ PARENT(i) \in Positions /\ PARENT(i) < i
          /\ \A i \in Positions : Key[list[i + 1]] \in Nat
      BY <1>1, ParentInHeap
    <3>4. ASSUME NEW i \in Positions \ {0}, i # p
          PROVE  ~(Key[list'[i + 1]] < Key[list'[PARENT(i) + 1]])
      <4>1. CASE i = a
        BY <2>1, <2>3, <2>4, <2>5, <3>3, <4>1
      <4>2. CASE i # a /\ PARENT(i) = a
        BY <2>1, <2>3, <3>2, <3>4, <4>2
      <4>3. CASE i # a /\ PARENT(i) = p
        <5>1. /\ ~(Key[list[i + 1]] < Key[list[p + 1]])
              /\ list'[i + 1] = list[i + 1]
          BY <2>3, <3>1, <3>4, <4>3
        <5> QED BY <2>1, <2>3, <2>4, <3>3, <4>3, <5>1
      <4>4. CASE i # a /\ PARENT(i) \notin {a, p}
        BY <2>3, <3>1, <3>3, <3>4, <4>4
      <4> QED BY <4>1, <4>2, <4>3, <4>4
    <3>5. ASSUME p > 0, NEW i \in Positions \ {0}, PARENT(i) = p
          PROVE  ~(Key[list'[i + 1]] < Key[list'[PARENT(p) + 1]])
      <4>1. /\ p \in Positions \ {0, a} /\ PARENT(p) \in Positions \ {p, a}
            /\ ~(Key[list[p + 1]] < Key[list[PARENT(p) + 1]])
        BY <2>1, <3>1, <3>3, <3>5
      <4>2. list'[PARENT(p) + 1] = list[PARENT(p) + 1]
        BY <2>3, <4>1
      <4>3. CASE i = a
        BY <2>3, <4>1, <4>2, <4>3
      <4>4. CASE i # a
        <5>1. i # p /\ list'[i + 1] = list[i + 1]
              /\ ~(Key[list[i + 1]] < Key[list[p + 1]])
          BY <2>3, <3>1, <3>3, <3>5, <4>4
        <5>2. /\ Key[list[i + 1]] \in Nat /\ Key[list[p + 1]] \in Nat
              /\ Key[list[PARENT(p) + 1]] \in Nat
          BY <2>1, <3>3, <4>1
        <5>3. ~(Key[list[i + 1]] < Key[list[PARENT(p) + 1]])
          BY <4>1, <5>1, <5>2
        <5> QED BY <4>2, <5>1, <5>3
      <4> QED BY <4>3, <4>4
    <3> QED
      BY <2>2, <2>3, <3>4, <3>5 DEF InOrder, Across, Less, At, PARENT
  <2> QED
    BY <2>3, <2>6 DEF IInv, Ordered
<1>3. CASE ~(at > 0 /\ Less(At(at), At(PARENT(at))))
  <2>1. pc' = "idle" /\ at' = 0 /\ list' = list /\ idx' = idx
    BY <1>3 DEF SiftUp
  <2>2. TypeOK' /\ Stored' /\ Positions' = Positions
    BY <1>1, <2>1 DEF TypeOK, Stored, Positions, num_used, At
  <2>3. ASSUME ~misplaced' PROVE InOrder' /\ Across'
    <3>1. ASSUME NEW i \in Positions \ {0} PROVE ~Less(At(i), At(PARENT(i)))
      <4>1. i > 0
        BY <1>1, ParentInHeap
      <4> QED BY <1>1, <1>3, <2>3, <4>1 DEF IInv, Ordered, InOrder
    <3> QED
      BY <2>1, <2>2, <3>1 DEF InOrder, Across, Less, At, PARENT
  <2> QED
    BY <2>2, <2>3 DEF IInv, Ordered
<1> QED
  BY <1>2, <1>3

\* One iteration of the loop of smartlist_heapify.
LEMMA SiftDownKeeps ==
    ASSUME IInv, SiftDown
    PROVE  IInv'
<1>1. TypeOK /\ Stored /\ pc = "down" /\ at \in Positions
      /\ popped' = popped /\ misplaced' = misplaced /\ at \in Nat
      /\ num_used \in Nat
  BY DEF IInv, SiftDown, Stored, TypeOK, num_used
<1>2. /\ \A i \in Positions \ {0} :
           i \in Nat /\ PARENT(i) \in Positions /\ PARENT(i) < i
      /\ \A i \in Positions : Key[list[i + 1]] \in Nat
  BY <1>1, ParentInHeap
<1>3. ASSUME NEW i \in Positions \ {0}, PARENT(i) = at
      PROVE  /\ LEFT_CHILD(at) < num_used
             /\ ~(Key[list[i + 1]] < Key[list[Best(at) + 1]])
  <2>1. i \in Nat /\ i > 0 /\ i < num_used
    BY <1>1 DEF Positions
  <2>2. i = LEFT_CHILD(at) \/ i = LEFT_CHILD(at) + 1
    BY <1>3, <2>1, ChildrenOnly
  <2>3. LEFT_CHILD(at) \in Nat /\ LEFT_CHILD(at) < num_used
    BY <1>1, <2>1, <2>2, ChildFacts
  <2>4. ~Less(At(i), At(Best(at)))
    BY <1>1, <2>1, <2>2, <2>3, BestFacts
  <2> QED
    BY <2>3, <2>4 DEF Less, At
<1>4. CASE LEFT_CHILD(at) < num_used /\ Best(at) # at
  <2> DEFINE a == at
             b == Best(at)
  <2>1. /\ a \in Positions /\ b \in Positions /\ b # a
        /\ ~(Key[list[a + 1]] < Key[list[b + 1]])
        /\ b \in {LEFT_CHILD(a), LEFT_CHILD(a) + 1}
    BY <1>1, <1>4, BestFacts DEF Less, At
  <2>2. PARENT(b) = a /\ b > a /\ a \in Nat /\ b \in Nat /\ b # 0
    BY <1>1, <2>1, ChildFacts
  <2>3. Swap(a, b) /\ at' = b /\ pc' = "down"
    BY <1>1, <1>4 DEF SiftDown
  <2>4. /\ TypeOK' /\ Stored' /\ Positions' = Positions
        /\ list'[a + 1] = list[b + 1] /\ list'[b + 1] = list[a + 1]
        /\ \A k \in Positions \ {a, b} : list'[k + 1] = list[k + 1]
    BY <1>1, <2>1, <2>3, SwapKeeps
  <2>5. \A i \in Positions \ {0} : PARENT(i) = a =>
            ~(Key[list[i + 1]] < Key[list[b + 1]])
    BY <1>3
  <2>6. a = at
    OBVIOUS
  <2> HIDE DEF a, b
  <2>7. ASSUME ~misplaced' PROVE InOrder' /\ Across'
    <3>1. \A i \in Positions \ {0} : PARENT(i) # a =>
            ~(Key[list[i + 1]] < Key[list[PARENT(i) + 1]])
      BY <1>1, <2>6, <2>7 DEF IInv, Ordered, InOrder, Less, At
    <3>2. a > 0 => ~(Key[list[b + 1]] < Key[list[PARENT(a) + 1]])
      BY <1>1, <2>1, <2>2, <2>6, <2>7 DEF IInv, Ordered, Across, Less, At
    <3>3. ASSUME NEW i \in Positions \ {0}, PARENT(i) # b
          PROVE  ~(Key[list'[i + 1]] < Key[list'[PARENT(i) + 1]])
      <4>1. CASE i = b
        BY <2>1, <2>2, <2>4, <4>1
      <4>2. CASE i # b /\ PARENT(i) = a
        <5>1. i # a
          BY <1>2, <2>2, <4>2
        <5> QED BY <2>4, <2>5, <3>3, <4>2, <5>1
      <4>3. CASE i = a
        <5>1. a > 0 /\ PARENT(a) \in Positions \ {a, b}
          BY <1>2, <2>2, <3>3, <4>3
        <5> QED BY <2>4, <3>2, <4>3, <5>1
      <4>4. CASE i \notin {a, b} /\ PARENT(i) # a
        BY <1>2, <2>4, <3>1, <3>3, <4>4
      <4> QED BY <4>1, <4>2, <4>3, <4>4
    <3>4. ASSUME NEW i \in Positions \ {0}, PARENT(i) = b
          PROVE  ~(Key[list'[i + 1]] < Key[list'[PARENT(b) + 1]])
      <4>1. i \notin {a, b} /\ PARENT(i) # a
        BY <1>2, <2>2, <3>4
      <4> QED BY <2>2, <2>4, <3>1, <3>4, <4>1
    <3> QED
      BY <2>3, <2>4, <3>3, <3>4 DEF InOrder, Across, Less, At, PARENT
  <2> QED
    BY <2>4, <2>7 DEF IInv, Ordered
<1>5. CASE ~(LEFT_CHILD(at) < num_used /\ Best(at) # at)
  <2>1. pc' = "idle" /\ at' = 0 /\ list' = list /\ idx' = idx
    BY <1>5 DEF SiftDown
  <2>2. TypeOK' /\ Stored' /\ Positions' = Positions
    BY <1>1, <2>1 DEF TypeOK, Stored, Positions, num_used, At
  <2>3. ASSUME ~misplaced' PROVE InOrder' /\ Across'
    <3>1. ASSUME NEW i \in Positions \ {0} PROVE ~Less(At(i), At(PARENT(i)))
      <4>1. CASE PARENT(i) = at
        BY <1>3, <1>5, <4>1 DEF Less, At
      <4>2. CASE PARENT(i) # at
        BY <1>1, <2>3, <4>2 DEF IInv, Ordered, InOrder
      <4> QED BY <4>1, <4>2
    <3> QED
      BY <2>1, <2>2, <3>1 DEF InOrder, Across, Less, At, PARENT
  <2> QED
    BY <2>2, <2>3 DEF IInv, Ordered
<1> QED
  BY <1>4, <1>5

-----------------------------------------------------------------------------
(* Theorems *)

LEMMA PopKeeps ==
    ASSUME IInv, Pop
    PROVE  IInv'
<1>1. /\ 0 \in Positions /\ popped' = At(0) /\ At(0) \in Items
      /\ ~BelongsAbove(0) /\ misplaced' = misplaced /\ misplaced \in BOOLEAN
  <2>1. TypeOK /\ num_used \in Nat /\ num_used > 0
    BY DEF IInv, Pop, TypeOK, num_used
  <2>2. 0 \in Positions
    BY <2>1 DEF Positions
  <2>3. At(0) \in Items
    BY <2>1, <2>2, AtIsItem
  <2> QED
    BY <2>1, <2>2, <2>3 DEF Pop, BelongsAbove, TypeOK
<1> QED
  BY <1>1, RefillKeeps DEF Pop

LEMMA RemoveKeeps ==
    ASSUME IInv, NEW x \in Items, Remove(x)
    PROVE  IInv'
<1>1. /\ pc = "idle" /\ idx[x] \in Positions /\ At(idx[x]) = x
      /\ Refill(idx[x], x)
      /\ misplaced' = (misplaced \/ BelongsAbove(idx[x]))
      /\ popped' \in Items \cup {NoItem}
  BY DEF IInv, Stored, Remove, TypeOK
<1>2. PICK i \in Positions : i = idx[x]
  BY <1>1
<1>3. misplaced' \in BOOLEAN /\ (~misplaced' => ~misplaced /\ ~BelongsAbove(i))
  BY <1>1, <1>2, Zenon
<1>4. Refill(i, At(i))
  BY <1>1, <1>2
<1> QED
  BY <1>1, <1>3, <1>4, RefillKeeps

LEMMA InitHolds == Init => IInv
<1> SUFFICES ASSUME Init PROVE IInv
  OBVIOUS
<1>1. Len(list) = 0 /\ list \in Seq(Items)
  BY DEF Init
<1>2. Positions = {}
  BY <1>1 DEF Positions, num_used
<1>3. at \in Nat /\ idx \in [Items -> Int] /\ pc = "idle" /\ popped = NoItem
  BY DEF Init
<1>4. misplaced \in BOOLEAN
  BY Zenon DEF Init
<1>5. TypeOK
  BY <1>1, <1>3, <1>4 DEF TypeOK
<1>6. Stored
  BY <1>2 DEF Init, Stored
<1> QED
  BY <1>2, <1>3, <1>5, <1>6 DEF IInv, Ordered, InOrder, Across

LEMMA StepKeeps == IInv /\ [Next]_vars => IInv'
<1> SUFFICES ASSUME IInv, [Next]_vars PROVE IInv'
  OBVIOUS
<1>1. ASSUME NEW x \in Items, Add(x) PROVE IInv'
  BY <1>1, AddKeeps
<1>2. ASSUME NEW x \in Items, Remove(x) PROVE IInv'
  BY <1>2, RemoveKeeps
<1>3. CASE Pop
  BY <1>3, PopKeeps
<1>4. CASE SiftUp
  BY <1>4, SiftUpKeeps
<1>5. CASE SiftDown
  BY <1>5, SiftDownKeeps
<1>6. CASE UNCHANGED vars
  BY <1>6 DEF vars, IInv, TypeOK, Stored, Ordered, InOrder, Across, Positions,
              num_used, At, Less, PARENT
<1> QED
  BY <1>1, <1>2, <1>3, <1>4, <1>5, <1>6 DEF Next

\* The inductive invariant holds in every reachable state.
LEMMA Inductive == Spec => []IInv
BY InitHolds, StepKeeps, PTL DEF Spec

\* Types: idx fields are integers, the loops stay at positions.
THEOREM TypeCorrect == Spec => []TypeOK
<1>1. IInv => TypeOK
  BY DEF IInv
<1> QED
  BY <1>1, Inductive, PTL

\* Every queued item stores the position it is at, and every other one -1,
\* for any number of items and any calls.
THEOREM PositionsAreStored == Spec => []StoredPositions
<1>1. IInv => StoredPositions
  <2> SUFFICES ASSUME IInv PROVE StoredPositions
    OBVIOUS
  <2>1. ASSUME NEW x \in Items, idx[x] # -1 PROVE x \in Queued
    <3>1. idx[x] \in Positions /\ At(idx[x]) = x
      BY <2>1 DEF IInv, Stored
    <3>2. idx[x] + 1 \in DOMAIN list
      BY <3>1, AtIsItem DEF IInv
    <3> QED BY <3>1, <3>2 DEF Queued, At
  <2> QED
    BY <2>1 DEF IInv, Stored, StoredPositions
<1> QED
  BY <1>1, Inductive, PTL

\* Between calls no item is less than its parent, as long as no remove has
\* put an item below a greater one.
THEOREM HeapIsOrdered == Spec => []HeapOrder
<1>1. IInv => HeapOrder
  BY DEF IInv, Ordered, InOrder, HeapOrder
<1> QED
  BY <1>1, Inductive, PTL

\* The top of an ordered heap is least: the first position with a key less
\* than the top's would have a parent with such a key.
LEMMA TopIsLeast ==
    ASSUME TypeOK, num_used > 0,
           \A i \in Positions \ {0} : ~Less(At(i), At(PARENT(i)))
    PROVE  \A x \in Queued : ~Less(x, At(0))
<1> DEFINE R == {x \in Nat \X Nat : x[1] < x[2]}
           S == {i \in Positions : Less(At(i), At(0))}
<1>1. num_used \in Nat /\ 0 \in Positions /\ S \subseteq Nat
  BY ParentInHeap DEF Positions
<1>2. S = {}
  <2>1. SUFFICES ASSUME S # {} PROVE FALSE
    OBVIOUS
  <2>2. IsWellFoundedOn(R, Nat)
    BY NatLessThanWellFounded DEF OpToRel
  <2>3. PICK m \in S : \A y \in S : <<y, m>> \notin R
    BY <1>1, <2>1, <2>2, WFMin, Zenon
  <2>4. /\ m \in Positions /\ Key[list[m + 1]] < Key[list[0 + 1]]
        /\ Key[list[m + 1]] \in Nat /\ Key[list[0 + 1]] \in Nat
    BY <1>1, ParentInHeap DEF Less, At
  <2>5. m # 0
    BY <2>4
  <2>6. PARENT(m) \in Positions /\ PARENT(m) < m /\ m \in Nat
    BY <2>4, <2>5, ParentInHeap
  <2>7. /\ ~(Key[list[m + 1]] < Key[list[PARENT(m) + 1]])
        /\ Key[list[PARENT(m) + 1]] \in Nat
    BY <2>4, <2>5, <2>6, ParentInHeap DEF Less, At
  <2>8. PARENT(m) \in S
    BY <2>4, <2>6, <2>7 DEF Less, At
  <2>9. <<PARENT(m), m>> \in R
    BY <1>1, <2>6, <2>8
  <2> QED BY <2>3, <2>8, <2>9
<1>3. ASSUME NEW x \in Queued PROVE \E i \in Positions : x = At(i)
  <2>1. PICK k \in DOMAIN list : x = list[k]
    BY <1>3 DEF Queued
  <2>2. k \in 1 .. num_used /\ k - 1 \in Positions /\ (k - 1) + 1 = k
    BY <2>1 DEF TypeOK, Positions, num_used
  <2> QED BY <2>1, <2>2 DEF At
<1> QED
  BY <1>2, <1>3

\* smartlist_pqueue_pop returns an item with the least key of all in the
\* queue, as long as no remove has put an item below a greater one.
THEOREM PopIsLeast == Spec => PopsLeast
<1>1. IInv /\ [Next]_vars =>
        [Pop /\ ~misplaced => \A x \in Queued : ~Less(x, popped')]_vars
  <2>1. ASSUME IInv, Pop, ~misplaced
        PROVE  \A x \in Queued : ~Less(x, popped')
    <3>1. /\ TypeOK /\ num_used > 0 /\ popped' = At(0)
          /\ \A i \in Positions \ {0} : ~Less(At(i), At(PARENT(i)))
      BY <2>1 DEF Pop, IInv, Ordered, InOrder
    <3> QED BY <3>1, TopIsLeast
  <2> QED BY <2>1
<1> QED
  BY <1>1, Inductive, PTL DEF Spec, PopsLeast
=============================================================================
