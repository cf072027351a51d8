CONSTANTS
    t1 = t1
    t2 = t2
    f1 = f1
    f2 = f2
    Tables = {t1, t2}
    Files = {f1, f2}
    Control = Control
    NoTable = NoTable
    NoFile = NoFile
    Header <- HeaderTwo
    Commands <- AllCommands
    MaxQueries = 5
    Quantum = 2
    Workload <- AnyProgram
SPECIFICATION Spec
INVARIANTS
    TypeOK
    OwnedOnce
    RunningCount
    BarrierOrder
    IndexFresh
    ParkedByBarrier
    NoMissedWakeup
    FileSerial
    
PROPERTY KeepsPromise
