-------------------------------- MODULE Pqueue -------------------------------
(***************************************************************************)
(* The priority queue of smartlist.c: a binary heap in the array of a       *)
(* smartlist, whose items store their own position so that an item can be   *)
(* removed without a search.  smartlist_pqueue_add, _pop and _remove are    *)
(* called one at a time; each iteration of their loops is a step here.      *)
(* Positions count from 0 as in the code; list[i] is list[i + 1] here.      *)
(***************************************************************************)
EXTENDS Integers, Sequences

CONSTANTS
    Items,     \* the items, each with an idx field
    Key,       \* what compare() compares
    NoItem     \* no item

ASSUME KeyAssumption == Key \in [Items -> Nat] /\ NoItem \notin Items

VARIABLES
    list,      \* the used part of the array; num_used is its length
    idx,       \* the idx field of every item, -1 outside a queue
    pc,        \* "idle", "up" (the loop of pqueue_add), "down" (heapify)
    at,        \* the loop's position
    popped,    \* ghost: the item pqueue_pop returned last
    misplaced  \* ghost: a pqueue_remove has put an item below a greater one

vars == <<list, idx, pc, at, popped, misplaced>>

num_used == Len(list)
At(i) == list[i + 1]
Positions == 0 .. num_used - 1
Queued == {list[k] : k \in DOMAIN list}

\* compare(a, b) < 0
Less(a, b) == Key[a] < Key[b]

LEFT_CHILD(i) == 2 * i + 1
PARENT(i) == (i - 1) \div 2

Init ==
    /\ list = <<>> /\ idx = [x \in Items |-> -1]
    /\ pc = "idle" /\ at = 0
    /\ popped = NoItem /\ misplaced = FALSE

-----------------------------------------------------------------------------
\* mutant: only the position of the item that moves up is updated
SwapOne(i, j) ==
    /\ list' = [list EXCEPT ![i + 1] = At(j), ![j + 1] = At(i)]
    /\ idx' = [idx EXCEPT ![At(j)] = i]

\* Two items change places, and both are told (UPDATE_IDX).
Swap(i, j) ==
    /\ list' = [list EXCEPT ![i + 1] = At(j), ![j + 1] = At(i)]
    /\ idx' = [idx EXCEPT ![At(j)] = i, ![At(i)] = j]

\* smartlist_pqueue_add, up to its loop.
Add(x) ==
    /\ pc = "idle"
    /\ idx[x] = -1
    /\ list' = Append(list, x)
    /\ idx' = [idx EXCEPT ![x] = num_used]
    /\ at' = num_used
    /\ pc' = "up"
    /\ UNCHANGED <<popped, misplaced>>

\* One iteration of the loop of smartlist_pqueue_add.
SiftUp ==
    /\ pc = "up"
    /\ IF at > 0 /\ Less(At(at), At(PARENT(at)))
       THEN /\ Swap(PARENT(at), at)
            /\ at' = PARENT(at)
            /\ UNCHANGED pc
       ELSE /\ pc' = "idle"
            /\ at' = 0
            /\ UNCHANGED <<list, idx>>
    /\ UNCHANGED <<popped, misplaced>>

\* The last item takes position i, from which an item has gone.
Refill(i, gone) ==
    LET n == num_used - 1 IN
    IF i = n
    THEN /\ list' = SubSeq(list, 1, n)
         /\ idx' = [idx EXCEPT ![gone] = -1]
         /\ pc' = "idle" /\ at' = 0
    ELSE /\ list' = [SubSeq(list, 1, n) EXCEPT ![i + 1] = At(n)]
         /\ idx' = [idx EXCEPT ![gone] = -1, ![At(n)] = i]
         /\ pc' = "down" /\ at' = i

\* mutant: the position of the top is returned, not the top
PopPosition ==
    /\ pc = "idle"
    /\ num_used > 0
    /\ Refill(0, At(0))
    /\ popped' = -1
    /\ UNCHANGED misplaced

\* smartlist_pqueue_pop, up to heapify.
Pop ==
    /\ pc = "idle"
    /\ num_used > 0
    /\ Refill(0, At(0))
    /\ popped' = At(0)
    /\ UNCHANGED misplaced

\* The item that takes the place of a removed one belongs above it.
BelongsAbove(i) ==
    /\ i > 0 /\ i < num_used - 1
    /\ Less(At(num_used - 1), At(PARENT(i)))

\* smartlist_pqueue_remove, up to heapify.
Remove(x) ==
    /\ pc = "idle"
    /\ idx[x] # -1
    /\ Refill(idx[x], x)
    /\ misplaced' = (misplaced \/ BelongsAbove(idx[x]))
    /\ UNCHANGED popped

\* mutant: the right child is not looked at
BestIsLeft(i) ==
    IF Less(At(i), At(LEFT_CHILD(i))) THEN i ELSE LEFT_CHILD(i)

\* The position smartlist_heapify finds best among i and its children.
Best(i) ==
    LET l == LEFT_CHILD(i)
        b == IF Less(At(i), At(l)) THEN i ELSE l
    IN IF l + 1 < num_used /\ Less(At(l + 1), At(b)) THEN l + 1 ELSE b

\* One iteration of the loop of smartlist_heapify.
SiftDown ==
    /\ pc = "down"
    /\ IF LEFT_CHILD(at) < num_used /\ Best(at) # at
       THEN /\ Swap(at, Best(at))
            /\ at' = Best(at)
            /\ UNCHANGED pc
       ELSE /\ pc' = "idle"
            /\ at' = 0
            /\ UNCHANGED <<list, idx>>
    /\ UNCHANGED <<popped, misplaced>>

Next ==
    \/ \E x \in Items : Add(x) \/ Remove(x)
    \/ Pop \/ SiftUp \/ SiftDown

Spec == Init /\ [][Next]_vars

-----------------------------------------------------------------------------
(* Properties *)

TypeOK ==
    /\ list \in Seq(Items)
    /\ idx \in [Items -> Int]
    /\ pc \in {"idle", "up", "down"}
    /\ at \in Nat
    /\ popped \in Items \cup {NoItem}
    /\ misplaced \in BOOLEAN

\* Every queued item stores the position it is at and every other one -1,
\* through all swaps: pqueue_remove takes out the item it was given.
StoredPositions ==
    /\ \A i \in Positions : idx[At(i)] = i
    /\ \A x \in Items : idx[x] # -1 => x \in Queued

\* Between calls no item is less than its parent, unless a pqueue_remove has
\* moved an item below a greater one.
HeapOrder ==
    pc = "idle" /\ ~misplaced =>
        \A i \in Positions \ {0} : ~Less(At(i), At(PARENT(i)))

\* pqueue_pop returns an item with the least key of all in the queue, unless
\* a pqueue_remove has moved an item below a greater one.
PopsLeast ==
    [][Pop /\ ~misplaced => \A x \in Queued : ~Less(x, popped')]_vars

\* smartlist.c calls the container a min-heap, in which no item is less than
\* its parent, whatever calls were made.
MinHeap ==
    pc = "idle" => \A i \in Positions \ {0} : ~Less(At(i), At(PARENT(i)))
=============================================================================
