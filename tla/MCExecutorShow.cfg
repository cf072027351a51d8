CONSTANTS
    TableFile <- TwoTableFiles
    Language <- AllLanguage
    Main = "main"
    Threads = {2}
    MinQueries = 3
    MinTables = 2
    Programs <- ShowPrograms
SPECIFICATION ExecutorSpec
INVARIANT SameOutput
