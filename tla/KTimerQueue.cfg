SPECIFICATION Spec
CONSTANTS
    Nodes = {1, 2, 3, 4, 5, 6}
    Null = Null
    Addr <- MCAddr
    Expiries <- MCExpiries
INVARIANTS
    OneTreePerNode
    TraversalInOrder
PROPERTIES
    RefinesTimerQueue
