SPECIFICATION Spec
CONSTANTS
    Items <- MCItems
    Key <- MCKey
    NoItem = NoItem
INVARIANTS TypeOK StoredPositions HeapOrder
PROPERTIES PopsLeast
