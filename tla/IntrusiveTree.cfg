SPECIFICATION Spec
CONSTANTS
    Nodes = {1, 2, 3, 4, 5, 6, 7, 8, 9, 10, 11, 12}
    Null = Null
    Addr <- MCAddr
    Key <- MCKey
INVARIANTS
    RedBlack
    HoldsExactly
    WalkInOrder
    UpperBoundIsNext
