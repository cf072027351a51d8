CONSTANTS
    t1 = t1
    t2 = t2
    t3 = t3
    Tables = {t1, t2, t3}
    NoTable = NoTable
    NoHead = NoHead
    Heads <- FourHeads
    Quantum = 2
    MaxTick = 3
    MaxVersion = 2
    MaxKeys = 6
SPECIFICATION Spec
INVARIANTS
    GITypeOK
    OneCurrentKey
    PriorityHeap
PROPERTY ImplementsIndex
