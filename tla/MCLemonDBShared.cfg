CONSTANTS
    w1 = w1
    w2 = w2
    t1 = t1
    t2 = t2
    f1 = f1
    f2 = f2
    Workers = {w1, w2}
    Tables = {t1, t2}
    Files = {f1, f2}
    Control = Control
    NoTable = NoTable
    NoFile = NoFile
    Header <- HeaderTwo
    Commands <- SharedCommands
    MaxQueries = 6
    Quantum = 64
    FetchBatchSize = 2
    Workload <- Shared
SPECIFICATION DBSpec
INVARIANT RaceFree
