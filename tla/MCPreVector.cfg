SPECIFICATION Spec
CONSTANTS
    N = 2
    Val <- MCVal
    Zero = 0
    MaxSize = 3
    MaxVals = 2
INVARIANTS
    LayoutOK
    OrderTotal
PROPERTIES
    ImplementsVectors
    EraseKeepsCapacity
