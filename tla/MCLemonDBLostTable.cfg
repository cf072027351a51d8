CONSTANTS
    w1 = w1
    w2 = w2
    t1 = t1
    t2 = t2
    f1 = f1
    f2 = f2
    Workers = {w1, w2}
    Tables <- ManyFiles
    Files <- ManyFiles
    Control = Control
    NoTable = NoTable
    NoFile = NoFile
    Header <- HeaderMany
    Commands <- ManyCommands
    MaxQueries = 6
    Quantum = 64
    FetchBatchSize = 4
    Workload <- LostTable
SPECIFICATION FairDBSpec
PROPERTY ProcessEnds
