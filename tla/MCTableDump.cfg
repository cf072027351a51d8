CONSTANTS
    a = a
    b = b
    aCopy = aCopy
    bCopy = bCopy
    Keys = {a, b, aCopy, bCopy}
    NoKey = NoKey
    CopyKey <- CopyKeyDef
    NumFields = 2
    Half = 2
    MaxRows = 4
    Statements <- SomeStatements
    Reads <- SomeReads
    KeyRank <- Rank
    NameWidth <- ShortNames
    ColumnWidth = 2
SPECIFICATION TableSpec
INVARIANT DumpReadsBack
