------------------------------- MODULE Executor -------------------------------
(***************************************************************************)
(* executeQueries: the main stream and the files it LISTENs to are read    *)
(* and parsed to the last statement, the size of the program decides       *)
(* whether it runs on this thread or on the Runtime, and the results are   *)
(* printed.                                                                *)
(*                                                                         *)
(* A result is printed as its number; what else it says is the business of *)
(* module LemonDB.  LIST and SHOWTABLE print while they execute.  Of the   *)
(* scheduler only the order of files and barriers and the registration of  *)
(* tables are here.                                                        *)
(***************************************************************************)
EXTENDS Parser

CONSTANTS
    Main,            \* the file given with --listen
    Threads,         \* the numbers of threads asked for
    MinQueries,      \* FallbackThresholds::minQueries, 1000 in the code
    MinTables,       \* FallbackThresholds::minTables, 3 in the code
    Programs         \* the query files: functions from names to statements

ASSUME ExecutorAssumption ==
    /\ Threads \subseteq Nat \ {0}
    /\ \A p \in Programs : /\ Main \in DOMAIN p /\ DOMAIN p \subseteq STRING
                            /\ IsFiniteSet(DOMAIN p)
                            /\ p \in [DOMAIN p -> Seq(Text)]

VARIABLES
    phase,           \* where executeQueries is
    source,          \* the query files, which nothing writes
    numThreads,
    input,           \* the statements left in the stream being read
    fileQueue,       \* files to be read
    listenFiles,     \* files the file being read LISTENs to
    allQueries,
    counter,         \* single-threaded: the queries begun
    executed,        \* multi-threaded: the queries executed by the workers
    stdout

executorVars == <<parserVars, phase, source, numThreads, input, fileQueue,
                  listenFiles, allQueries, counter, executed, stdout>>

ExecutorInit ==
    /\ ParserInit
    /\ phase = "collect"
    /\ source \in Programs
    /\ numThreads \in Threads
    /\ input = source[Main]
    /\ fileQueue = <<>>
    /\ listenFiles = <<>>
    /\ allQueries = <<>>
    /\ counter = 0
    /\ executed = {}
    /\ stdout = <<>>

-----------------------------------------------------------------------------
(* Reading.                                                                *)

\* The file a LISTEN names goes to where, any other query to no such place.
Heard(where, o) ==
    IF o.query.type = "Listen" THEN Append(where, o.query.file) ELSE where

\* One statement up to its semicolon; one that cannot be parsed is reported and left
\* out.  collectQueriesFromStream puts LISTEN's file on the queue, processFile puts it
\* aside.
ReadStatement ==
    /\ phase \in {"collect", "process"} /\ input # <<>>
    /\ parseQuery(Head(input))
    /\ input' = Tail(input)
    /\ LET o == parsed'.outcome
       IN  CASE o.status = "Made" ->
                  /\ allQueries' = Append(allQueries, o.query)
                  /\ fileQueue' = IF phase = "collect" THEN Heard(fileQueue, o)
                                  ELSE fileQueue
                  /\ listenFiles' = IF phase = "process" THEN Heard(listenFiles, o)
                                    ELSE listenFiles
                  /\ UNCHANGED phase
             [] o.status = "Failed" ->
                  UNCHANGED <<phase, allQueries, fileQueue, listenFiles>>
             [] OTHER -> phase' = "undefined"
                         /\ UNCHANGED <<allQueries, fileQueue, listenFiles>>
    /\ UNCHANGED <<source, numThreads, counter, executed, stdout>>

\* Mutant: the files a file LISTENs to are read before those already waiting.
EndOfStreamDepthFirst ==
    /\ phase \in {"collect", "process"} /\ input = <<>>
    /\ fileQueue' = listenFiles \o fileQueue
    /\ listenFiles' = <<>>
    /\ phase' = "next"
    /\ UNCHANGED <<parserVars, source, numThreads, input, allQueries, counter,
                   executed, stdout>>

\* The stream has no semicolon left; what is behind the last one is dropped.
EndOfStream ==
    /\ phase \in {"collect", "process"} /\ input = <<>>
    /\ fileQueue' = fileQueue \o listenFiles
    /\ listenFiles' = <<>>
    /\ phase' = "next"
    /\ UNCHANGED <<parserVars, source, numThreads, input, allQueries, counter,
                   executed, stdout>>

\* Mutant: a file that cannot be opened stays in front of the queue.
OpenNextOrWait ==
    /\ phase = "next" /\ fileQueue # <<>>
    /\ IF Head(fileQueue) \in DOMAIN source
       THEN /\ phase' = "process" /\ input' = source[Head(fileQueue)]
            /\ fileQueue' = Tail(fileQueue)
       ELSE UNCHANGED <<phase, input, fileQueue>>
    /\ UNCHANGED <<parserVars, source, numThreads, listenFiles, allQueries, counter,
                   executed, stdout>>

\* A file that cannot be opened is reported and skipped.
OpenNext ==
    /\ phase = "next" /\ fileQueue # <<>>
    /\ fileQueue' = Tail(fileQueue)
    /\ IF Head(fileQueue) \in DOMAIN source
       THEN phase' = "process" /\ input' = source[Head(fileQueue)]
       ELSE UNCHANGED <<phase, input>>
    /\ UNCHANGED <<parserVars, source, numThreads, listenFiles, allQueries, counter,
                   executed, stdout>>

-----------------------------------------------------------------------------
(* Deciding.                                                               *)

Queries == DOMAIN allQueries

\* analyzeWorkload: a query without a table does not count for the tables.
TableCount == Cardinality({allQueries[k].table : k \in Queries} \ {""})

shouldFallback == Len(allQueries) < MinQueries \/ TableCount < MinTables

Decide ==
    /\ phase = "next" /\ fileQueue = <<>>
    /\ phase' = IF numThreads = 1 \/ shouldFallback THEN "single" ELSE "multi"
    /\ UNCHANGED <<parserVars, source, numThreads, input, fileQueue, listenFiles,
                   allQueries, counter, executed, stdout>>

-----------------------------------------------------------------------------
(* Executing and printing.                                                 *)

Listing(k) == [prints |-> "listing", of |-> k]
Result(k)  == [prints |-> "result", of |-> k]

\* What the query itself prints.  (The tables the programs use exist.)
ExecutionPrints(k) ==
    IF allQueries[k].type \in {"List", "PrintTable"} THEN <<Listing(k)>> ELSE <<>>

\* Database::exit throws out of the loop, to main.
ExecuteHere ==
    /\ phase = "single" /\ counter < Len(allQueries)
    /\ counter' = counter + 1
    /\ IF allQueries[counter'].type = "Quit"
       THEN phase' = "done" /\ UNCHANGED stdout
       ELSE /\ stdout' = stdout \o ExecutionPrints(counter')
                                \o <<Result(counter')>>
            /\ UNCHANGED phase
    /\ UNCHANGED <<parserVars, source, numThreads, input, fileQueue, listenFiles,
                   allQueries, executed>>

\* Mutant: the loop counts its own end as a query.
LoopDoneCounted ==
    /\ phase = "single" /\ counter = Len(allQueries)
    /\ counter' = counter + 1 /\ phase' = "done"
    /\ UNCHANGED <<parserVars, source, numThreads, input, fileQueue, listenFiles,
                   allQueries, executed, stdout>>

LoopDone ==
    /\ phase = "single" /\ counter = Len(allQueries)
    /\ phase' = "done"
    /\ UNCHANGED <<parserVars, source, numThreads, input, fileQueue, listenFiles,
                   allQueries, counter, executed, stdout>>

\* The queries in front that query k waits for at least: a barrier for the barriers, a
\* LOAD or a DUMP for those of its file.  The rest of the order, and the queries it
\* loses, are the subject of TaskQueue and LemonDB; here it is left open.
WaitsFor(k) ==
    {j \in 1 .. (k - 1) :
        LET types == {allQueries[j].type, allQueries[k].type}
        IN  \/ types \subseteq BarrierTypes
            \/ types \subseteq {"Load", "Dump"} /\ allQueries[j].file = allQueries[k].file}

\* The tables query j registers.  A LOAD that waited for a DUMP of its file looks the
\* name of its table up again.
Creates(j) ==
    CASE allQueries[j].type = "Load" ->
           {allQueries[j].table} \cup {fileTableNameMap[f] :
               f \in {allQueries[j].file} \cap DOMAIN fileTableNameMap}
      [] allQueries[j].type = "CopyTable" ->
           {allQueries[j].table, allQueries[j].newTable}
      [] OTHER -> {}

\* Query k goes to the queue of its table, not to the barriers or the loads.
IsQueued(k) == allQueries[k].type \notin BarrierTypes \cup {"Load"}

\* A worker executes a query, also one behind QUIT, whose exception is its result.  A
\* query in the queue of a table is handed out once some LOAD or COPYTABLE has
\* registered the table; in front of that one it is dropped, and prints nothing.
ExecuteOnWorker(k) ==
    /\ phase = "multi" /\ k \notin executed
    /\ WaitsFor(k) \subseteq executed
    /\ \/ /\ ~IsQueued(k)
          /\ stdout' = stdout \o ExecutionPrints(k)
       \/ /\ IsQueued(k)
          /\ \E j \in executed :
                /\ allQueries[k].table \in Creates(j)
                /\ stdout' = IF k < j THEN stdout ELSE stdout \o ExecutionPrints(k)
    /\ executed' = executed \cup {k}
    /\ UNCHANGED <<parserVars, phase, source, numThreads, input, fileQueue,
                   listenFiles, allQueries, counter>>

\* waitAll blocks on the future of a query that has no result: the workers poll the
\* scheduler.  It may be for ever: nothing need create the table of a query.
WaitAllBlocks ==
    /\ phase = "multi" /\ executed # Queries
    /\ UNCHANGED executorVars

\* Mutant: every result but that of QUIT is printed.
ShownAll == {k \in Queries : allQueries[k].type # "Quit"}

\* The results that are printed: the first QUIT has none, and ends the printing.
Shown == {k \in Queries : \A j \in 1 .. k : allQueries[j].type # "Quit"}

\* waitAll and getResultsInOrder, then one result after the other.
PrintResults ==
    /\ phase = "multi" /\ executed = Queries
    /\ stdout' = stdout \o [k \in 1 .. Cardinality(Shown) |-> Result(k)]
    /\ phase' = "done"
    /\ UNCHANGED <<parserVars, source, numThreads, input, fileQueue, listenFiles,
                   allQueries, counter, executed>>

Ended == phase \in {"done", "undefined"} /\ UNCHANGED executorVars

ExecutorStep ==
    \/ ReadStatement \/ EndOfStream \/ OpenNext \/ Decide
    \/ ExecuteHere \/ LoopDone
    \/ \E k \in Queries : ExecuteOnWorker(k)
    \/ PrintResults

ExecutorNext == ExecutorStep \/ WaitAllBlocks \/ Ended

ExecutorSpec == ExecutorInit /\ [][ExecutorNext]_executorVars

\* The main thread goes on when it can; so do the workers, on which nothing below rests.
FairExecutorSpec == ExecutorSpec /\ WF_executorVars(ExecutorStep)

-----------------------------------------------------------------------------
(* Properties.                                                             *)

\* Every variable of executeQueries and of its parser has its type: whatever tokens a
\* statement consists of, a builder takes only tokens that are there.
ExecutorTypeOK ==
    /\ complex \in Builder
    /\ DOMAIN fileTableNameMap \subseteq STRING
    /\ Range(fileTableNameMap) \subseteq Name
    /\ parsed \in [text : Text, outcome : Outcomes]
    /\ phase \in {"collect", "process", "next", "single", "multi", "done",
                  "undefined"}
    /\ DOMAIN source \subseteq STRING /\ Range(source) \subseteq Seq(Text)
    /\ numThreads \in Threads
    /\ input \in Seq(Text)
    /\ allQueries \in Seq(Query)
    /\ fileQueue \in Seq(Name) /\ listenFiles \in Seq(Name)
    /\ counter \in 0 .. Len(allQueries)
    /\ executed \subseteq Queries
    /\ stdout \in Seq([prints : {"listing", "result"}, of : Queries])

\* The file a LOAD stands for was last DUMPed under the name the LOAD was given, be
\* the two in different query files, or else the name is the one in the file on disk:
\* the cached name is never older than the DUMPs in front of the LOAD.
LoadsAreNamed ==
    \A k \in Queries : allQueries[k].type = "Load" =>
        LET file  == allQueries[k].file
            dumps == {j \in 1 .. (k - 1) : /\ allQueries[j].type = "Dump"
                                           /\ allQueries[j].file = file}
        IN  allQueries[k].table =
              IF dumps # {} THEN allQueries[Max(dumps)].table
              ELSE IF file \in DOMAIN TableFile THEN TableFile[file] ELSE ""

\* The files in the order they are read: those the main file LISTENs to, then those
\* these LISTEN to, and so on, level by level.
Called(t) ==
    IF DebugMatches(t) /\ t[1] = "LISTEN" /\ t[3] \in DOMAIN source THEN <<t[3]>>
    ELSE <<>>

ListensTo(file) ==
    FlattenSeq([i \in DOMAIN source[file] |-> Called(source[file][i])])

Levels ==
    LET level[n \in 0 .. Cardinality(DOMAIN source)] ==
            IF n = 0 THEN <<Main>>
            ELSE FlattenSeq([i \in DOMAIN level[n - 1] |->
                                ListensTo(level[n - 1][i])])
    IN  level

ReadingOrder ==
    FlattenSeq([n \in 1 .. Cardinality(DOMAIN source) |-> Levels[n - 1]])

Parses(t) ==
    /\ t # <<>>
    /\ \/ DebugMatches(t) \/ ManageTableMatches(t)
       \/ Complex(t, parseToken(Cleared, t)).status = "Made"

\* The program is the statements of these files that can be parsed, in this order:
\* none is lost or read twice, whatever files are missing or LISTENed to again.
ReadsBreadthFirst ==
    phase = "next" /\ fileQueue = <<>> =>
        LET texts == FlattenSeq([i \in DOMAIN ReadingOrder |-> source[ReadingOrder[i]]])
            known == FlattenSeq([i \in DOMAIN texts |->
                                    IF Parses(texts[i]) THEN <<texts[i]>> ELSE <<>>])
        IN  Len(allQueries) = Len(known)
            /\ \A k \in Queries : known[k] \in Spellings(allQueries[k])

\* The queries the program stands for end at its first QUIT.
BeforeQuit ==
    LET quits == {k \in Queries : allQueries[k].type = "Quit"}
    IN  IF quits = {} THEN Len(allQueries) ELSE Min(quits) - 1

ResultPlaces == {i \in DOMAIN stdout : stdout[i].prints = "result"}

\* In both modes every query in front of QUIT has its number on standard output, in
\* program order, once, and no other query has.
ResultsInOrder ==
    phase = "done" =>
        /\ {stdout[i].of : i \in ResultPlaces} = 1 .. BeforeQuit
        /\ \A i, j \in ResultPlaces : i < j => stdout[i].of < stdout[j].of

\* Standard output is the same in both modes: what LIST and SHOWTABLE print stands in
\* front of their own result.
SameOutput ==
    phase = "done" =>
        stdout = FlattenSeq([k \in 1 .. BeforeQuit |->
                                ExecutionPrints(k) \o <<Result(k)>>])

\* Every program is read to its end and decided upon, however its files LISTEN to each
\* other as long as none does to itself or a file that leads to it; without workers it
\* ends.  (In the multi-threaded mode the main thread then waits in waitAll: whether it
\* comes back is up to the scheduler, see ProcessEnds of LemonDB.)
EndsOrWaits == <>(phase \in {"multi", "done", "undefined"})
=============================================================================
