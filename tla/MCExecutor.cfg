CONSTANTS
    TableFile <- TwoTableFiles
    Language <- AllLanguage
    Main = "main"
    Threads = {1, 2}
    MinQueries = 3
    MinTables = 2
    Programs <- SomePrograms
SPECIFICATION FairExecutorSpec
INVARIANTS
    ExecutorTypeOK
    AcceptsExactly
    ReadsLanguage
    LoadsAreNamed
    ReadsBreadthFirst
    ResultsInOrder
PROPERTY EndsOrWaits
