SPECIFICATION Spec
CONSTANTS
    Items <- MCItems
    Key <- MCKey
    NoItem = NoItem
INVARIANTS MinHeap
