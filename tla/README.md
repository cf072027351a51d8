# LemonDB in TLA+

LemonDB is an in-memory table database. A program of queries is read and parsed
as a whole and then executed, either query by query on the main thread or, for
large programs, by a pool of worker threads that fetch tasks from a
dependency-aware scheduler. This directory models the program from the parser to
the printed result: reading and parsing, the scheduler with its index, the
workers and table locks, the tables under their queries, the files. It
model-checks each part on small instances and proves, for all instances, the types
and the central properties of the scheduler, the index, the workers and locks, the
tables, the parser and the executor.

## The system

| Part | State | Operations | Module |
|---|---|---|---|
| `TaskQueue` | a queue per table, `loadQueue`, `barriers`, `waitingTables`, counters, mutex `mu` | `registerTask`, `setReady`, `fetchNext`, the completion callback | `TaskQueue`; what it promises: `Dispatch` |
| `DependencyManager` | last scheduled and last completed operation per file and table, heaps of waiting items | `markScheduled`, `addWait`, `notifyCompleted` | `TaskQueue` |
| `GlobalIndex` | a heap of versioned keys, one of them live per indexed table | `upsert`, `pickBest` | `GlobalIndex`; what it promises: `TableIndex` |
| `Runtime` | futures in submission order | `submitQuery`, `startExecution`, `waitAll`, `getResultsInOrder`, destructor | `LemonDB`, `Executor` |
| `Threadpool` | `local_queue_`, the workers | `work`, `executeTask`, `run_logic` | `LemonDB` |
| `LockManager` | a shared mutex per table | `lockS`, `lockX`, `unlockS`, `unlockX` | `LockManager` |
| `Database` | the tables, `fileTableNameMap`, files | `registerTable`, `operator[]`, `dropTable`, load and dump | `LemonDB`, `Parser`, `TableQueries` |
| `Table`, writing queries | row vector and key map | `INSERT`, `DELETE`, `DUPLICATE`, `UPDATE`, `ADD`, `SUB`, `SWAP`, `TRUNCATE` | `Table` |
| reading queries | - | `SELECT`, `COUNT`, `SUM`, `MIN`, `MAX` | `TableQueries` |
| `QueryParser`, builders | what the builders keep between statements | `parseQuery` | `Parser` |
| `executeQueries`, `FallbackAnalyzer` | query files to be read, the program, standard output | LISTEN, the choice of the mode, both modes, printing | `Executor` |
| query types | - | `getQueryKind`, `classifyPriority` | `Queries` |

How they interact: the main thread reads the query files and parses every
statement, then decides on the mode. In the multi-threaded mode it registers every
query, then opens the queue. Each worker takes a task from the shared local queue
or fetches up to 16 tasks under `mu`; it executes one task under the lock of the
one table its query names, sets the promise, and runs the task's callback, which
takes `mu` again, registers tables, releases what waited for the task and makes
the next query of the table visible. After `mu` is released the callback
decrements `running`. The main thread waits for the promises and prints.

What is hard here, and what correctness means:

- *Scheduler.* An item moves between eight structures; it must not be lost or
  served twice (`OwnedOnce`), its wake-up must not be missed
  (`NoMissedWakeup`), the index must describe the queue heads (`IndexFresh`),
  barriers (LIST, QUIT) must not be overtaken (`BarrierOrder`), what they held back
  must come back (`ParkedByBarrier`), and the operations on one file must be
  serial (`FileSerial`). A query must not be served before its table has been created,
  however the table came to be on the index (`ServedWhenCreated`). The counter `running` changes outside `mu`
  (`RunningCount`). Seen from outside, all this amounts to module `Dispatch`
  (`KeepsPromise`), which also says that a barrier starts alone.
- *Index.* The heap keeps stale keys, and its comparator is not transitive. No table
  may be picked twice or forgotten (`OneCurrentKey`, `ImplementsIndex`), and
  priorities must survive (`PriorityHeap`).
- *The whole.* Whatever the workers do, outputs, tables and files must be those
  of the single-threaded mode (`SerialOutput`, `SerialFinalState`), a query handed
  out must be executed, and only once (`ExecutedOnce`), rows must not be raced for
  (`RaceFree`) and the process must end (`ProcessEnds`).
- *Storage.* Rows move while statements run over them; the key map must follow
  (`KeyMapExact`), a statement must do what it says (`StatementEffect`) and a
  failing one must not leave half its work where the code claims atomicity by
  collecting first (`FailureAtomic`). UPDATE, ADD, SUB, SWAP do not collect: what
  they leave of a failure is exactly the rows in front of it (`FailedUpdateStops`).
  What a reading query answers must not depend
  on where the rows lie (`SelectExact`, `AggregatesExact`).
- *Front end.* Builders outlive the statement they parse: exactly the language
  must be accepted, whatever came before (`AcceptsExactly`, `ReadsLanguage`). A
  LOAD must get the table its file will hold (`LoadsAreNamed`). Files that LISTEN
  to files must each be read as often and as early as they should
  (`ReadsBreadthFirst`), results must be printed in order and only up to QUIT
  (`ResultsInOrder`), and a program must be read to its end, decided upon and, on one
  thread, executed to its end (`EndsOrWaits`).

`PROJECT.json` lists the components, hazards and findings with their lines.

## The modules

**`Queries`** holds the enumerations and the two classification functions.

**`TaskQueue`** models the scheduler. An item is its sequence number; `owner`
says which structure holds it. One call of `fetchNext` is one or more steps:
an iteration that puts a candidate into a waiting heap leaves `mu = "fetching"`,
and the call ends in `FetchNothing`, `FetchBarrier`, `FetchLoad` or
`FetchTable`. The callback is `BeginCompletion` (registration and
`updateDependencyRecords`), one step per released item
(`UpdateReadyFiles`, `UpdateReadyTables`, in the code's order),
`FinishCompletion` (index, unlock) and, without `mu`, `Retire`. While `mu` is
held no other step of the queue is enabled except `Retire`. Notes on faithfulness:

- Parsing and registration of a query are one action. Registration does not read
  `fileTableName`; only parsing and (after all parsing) completions do.
- `fileTableName` starts as the names in the existing files (`Header`): the
  first `getFileTableName` of a path caches the name on disk, and nothing writes
  a file before all parsing is done. A missing file names no table; it is
  represented by `Control`.
- `registerTask`'s rejection after QUIT cannot happen: every query is registered
  before any is fetched.
- `waitingTables` is a set: pushing a table twice has the effect of once.
- `index[t]` is the `headSeq` of the live key of `t`. Of the order in which the
  index yields tables, `Picks` assumes what `TableIndex` promises and no more.
- When `fetchNext` prefers the table, the load candidate, already out of
  `loadQueue`, is destroyed with its promise: owner `"broken"`.
- `classifyActions` throws for a pending LOAD whose table a later query has
  registered; nothing catches the exception and the process ends. The model goes on
  (see `NeedRegister`).

**`Dispatch`** is the scheduler as its callers see it: a query is queued, running,
reported and done, with the order of barriers and files as guards of `Start`.
`TaskQueue` implements it under the mapping `StatusOf`, which forgets the structure
an item is in. Two things are deliberately absent from it: a LOAD may be lost, and
the order of the queries of one table is not promised, since the code keeps neither
promise for every program.

**`GlobalIndex`** models the heap itself: `upsert` pushes a key with a new version,
`pickBest` pops until the top is current, one iteration per step. Because `KeyCmp`
is not transitive (stamps count only when they differ by the quantum or more), what
the heap yields depends on how the library keeps it, so `std::push_heap` and
`std::pop_heap` are modelled as libstdc++ does them, and marked external. With the
quantum passed neither the plain heap property nor the order "by enqueueTick" that
`GlobalIndex.h:14` describes holds; what does is `PriorityHeap` and **`TableIndex`**.

**`LockManager`** is instantiated by **`LemonDB`**, which extends `TaskQueue`.
A worker's program counter cuts `work()` wherever another thread can come in
between. A row is the sequence number of the write that made it, so a table is
the history of its writes, and equal tables mean equal histories; what a query
prints is the rows it saw. `Serial` executes the same effects one by one.
`std::shared_mutex` prefers neither readers nor writers here. Workers that spin
before the queue opens are left at their start.

**`Table`** is one table under one statement at a time (the writer holds the
exclusive lock). Statements that walk over rows do so one row per step, so a row
that throws leaves exactly what the code leaves. Values run from `-Half` to
`Half - 1`, for `Half` half the number of values of the type; `ToValue` is the
narrowing cast. After UPDATE gives a row the key of
another one the code dereferences invalid iterators; the model stops there
(phase `"collided"`).

**`TableQueries`** extends it with the queries that change nothing, as operators on
the rows in the order in which they lie, translated loop by loop; the properties
compare them with definitions on the set of rows. `Reload` is the file DUMP writes,
as far as LOAD can tell its columns apart.

**`Parser`** is `parseQuery` on a statement that is already cut into tokens: the
chain Debug, ManageTable, Complex, Failed, with the members of
`ComplexQueryBuilder` as state. `Spellings` describes the language the other way
round, from a query to its texts, and the properties relate the two. A statement
that ends in its first parenthesis makes the code read past its tokens: outcome
`Undefined`.

**`Executor`** extends it with `executeQueries`: streams, the LISTEN queue, the
choice of the mode, both modes, printing. Its multi-threaded mode has the
registration of tables: a query in the queue of a table is handed out once a LOAD or
COPYTABLE that creates the table (`Creates`) has been executed, and dropped when it is
in front of that one in the program; a query of a table that nothing creates is never
handed out, and `waitAll` waits (`WaitAllBlocks`). Of the scheduler's order it keeps that of the
barriers and that of the LOADs and DUMPs of a file (`WaitsFor`) and leaves the
rest open, so that what holds here holds for more orders than the code has; that order and
the scheduler's failures are the subject of `TaskQueue` and `LemonDB`. Text behind the
last semicolon is dropped, as in the code. The tables that SHOWTABLE names are taken
to exist when it is executed. A file that LISTENs to itself is read for ever, so the
programs checked are acyclic.

**Mutants.** Operators commented "Mutant" are plausible bugs in the definition
that follows them; each property is violated when one of them takes its place.

## The runs

| Run | Question | Bounds |
|---|---|---|
| `scheduler` | the scheduler's invariants, and that it implements `Dispatch`, for every program | 4 of 12 commands or 5 of 7, 2 tables, 2 files, quantum 2: 1.2M states |
| `serial` | equivalence with the single-threaded mode, every query executed once, and termination | 2 workers, programs of 5 queries: 0.6M states |
| `shared_table` | row races when two tasks of a table are out at once | 2 workers, 6 queries: 0.2M states |
| `table` | storage under every sequence of writing statements, where a failing one stops; answers of the reading queries in every state | 4 keys, 3 rows, 2 fields, 2-bit values: 0.77M states |
| `global_index` | the heap under every sequence of upserts, picks and ticks implements `TableIndex` | 3 tables, 4 heads, 2 versions, 6 keys, 3 ticks, quantum 2: 0.18M states |
| `executor` | the language, the order of reading and printing; that every program is read, decided upon and, on one thread, executed to its end | 120 queries in every spelling, SELECT damaged in every way, each with a second statement; three nested files; both modes: 0.48M states |

Why the bounds are enough to be interesting: two tables and two files give every
shape of dependency (file, source, destination); four commands give a barrier with
something before and behind it; five with dependencies give a DUMP-LOAD chain
next to a COPYTABLE that waits twice; a quantum of 2 gives both regimes of the
index. Two workers and a fetch batch of two give a batch that is partly executed
while the other worker fetches. Three rows let the last one take the place of a
deleted one while a third stays. Three tables of equal priority with stamps 0 to 3
are what a cycle in `KeyCmp` takes, and six keys hold every version of every
table. A damaged statement (a token lost, replaced, or everything behind it cut
off) followed by a sound one shows what a builder keeps. The code enters the
multi-threaded mode for programs of at least 1000 queries and three tables;
`MinQueries` and `MinTables` scale that to 3 and 2, and in the runs of `LemonDB`
the programs stand for the queries that interact in a longer one, the rest being on
other tables. In `serial` the scheduler alone already keeps the tasks of one table
apart, so the locks have a run of their own, `shared_table`.

`SerialOutput` and `SerialFinalState` are about the programs that `Orderly` names: no
LIST; QUIT only at the end; in front of a LOAD no query of its own priority but LOADs;
and what creates a table, a LOAD or a COPYTABLE, is the first query that names it.
The theorems assume no more; `serial` takes two families of such programs
(both tables loaded first, or one table loaded and copied once), for which the state
space is small. Outside `Orderly` the properties fail. The violation runs show how, each
with a fixed program, and `table` and `executor` have one each:

| Run | What is said | What happens |
|---|---|---|
| `lost_load` | every query gets a result | a LOAD taken out of `loadQueue` and not preferred is destroyed |
| `lost_table` | `waitAll` returns | a table picked and not preferred is not put back on the index |
| `list_overtaken` | the output is the single-threaded one | what LIST held back is released when LIST is handed out, and a DROP runs before it reads |
| `copy_again` | the output is the single-threaded one | DROP and COPYTABLE both index the table, and its queries overtake the copy |
| `dump_lost` | a DUMP can be loaded | a value as wide as its column is glued to the one before |
| `show_early` | the output is the single-threaded one | SHOWTABLE prints while it executes, before every numbered result |

`lost_table` needs one LOAD more than a worker fetches in a batch; the program is
a function of the batch size, 4 in the run and 16 in the code.

Further limits of the code that follow from the same definitions, without a run of
their own: a query of a table that nothing creates is never indexed and `waitAll`
blocks (that it is never handed out is `ServedWhenCreated`); COPYTABLE of a table to
itself waits for itself, and `waitAll` blocks too; QUIT waits for the tasks that run, not for "all tasks" (`src/README.md:176`); two LOADs behind
DUMPs that exchange their files reach the exception of `classifyActions`; UPDATE of
KEY does not look whether the key is taken; a DUMP that waits for its file can be
overtaken by an UPDATE of its table. Two lines of the same page of `src/README.md`
do not match the parser: LISTEN (line 174) needs its file in parentheses, and LIST
(line 175) is not restricted to debug mode.

**Fairness.** `FairDBSpec`: weak fairness for the main thread's two steps and for
each worker: the operating system runs every thread. Nothing more is assumed, in
particular not that a lock is granted in any order; a worker that waits for `mu` or
for a table lock is only assumed to go on if it can go on from some point on.
`FairExecutorSpec`: weak fairness for the step of the program as a whole, which is
less than the fairness of each thread; `EndsOrWaits` rests on the steps of the main
thread alone and says nothing of the time after it has started the workers. Deadlock is
checked in every run; `Terminated`, `Ended`, `WaitAllBlocks` (a main thread that waits for
a result is not stuck as far as the operating system can tell: the workers poll) and the
idle workers are the only stuttering. Whether the wait of the main thread ends is
`ProcessEnds` of `LemonDB`: for the orderly programs of `serial` it does, and `lost_table`
shows a program for which it does not. The two further ones that are known, a query of a
table that nothing creates and a COPYTABLE of a table to itself, have no run; `serial`
does not meet them.

## Proofs

All theorems hold for every value of the constants that satisfies the named
assumptions, which TLC evaluates in the runs: of the scheduler and the workers,
`NamesAssumption`, `HeaderAssumption`, `BoundsAssumption`, `CommandsAssumption` and
`PoolAssumption`; of the index, `HeadsAssumption` and `LimitsAssumption`; of the
tables, `TableAssumption` and `ReadsAssumption`; of the front end, `ParserAssumption`,
`LanguageAssumption` and `ExecutorAssumption`. The theorems on orderly programs state their hypothesis, that
every program of `Workload` is `Orderly`.

*The scheduler.*

- `TaskQueueProofs`: `TypeCorrect`, one lemma per action. `TypeOK` is inductive
  once it says that `current` is an item while a callback holds `mu` (`MuTypeOK`).
  `IndexAlwaysFresh` and `NothingParkedForever` are inductive together with
  `TypeOK`: the first because every push to the front of a queue is followed by an
  upsert and every pop is preceded by the removal of the key; the second because
  `getFetched` parks only what is behind a queued barrier and `fetchBarrier` unparks
  everything.
- `TaskQueueOwners`: `EveryItemOwnedOnce`. `OwnedOnce` says item by item where it
  is; the inductive `Ownership` says structure by structure what it lists, which is
  what a step changes. Each structure lists, without repetition, exactly the items it
  owns, and only a callback has released items in its hands.
- `TaskQueueOrder`: first the shapes of the steps, in terms of `owner` alone: a step
  `Moves` items, `HandsOut` one, or `Advances` one. From these follow
  `RunningCountExact`; with the invariant that barriers stand in line and hold back
  what is behind them (`LineInv`), `NothingOvertakesBarriers` and
  `BarriersStartAlone`; with the chain of the operations on a file (`FileInv`:
  each waits for the one before it, and what the file's completed number has passed is
  over), `FileOperationsSerial`; and from all of them `SchedulerKeepsPromise`: the
  initial state maps to one of `Dispatch`, and every step to a step or a stutter.
  The last part is `NoWakeupMissed`. `notifyCompleted` stops at the first item it
  holds back, so the proof needs that nothing behind that item could go. `ChainInv`
  says why: of two items that need a table, the later one waits for the earlier one
  or for something behind it (`TableChain`; `FileChain` for files), and every
  item waits for something earlier (`DepsEarlier`). So whatever is behind the item
  that was held back waits for a number at least as large. A COPYTABLE
  ends the release only when both of its tables hold it back, and a DUMP never does;
  they stop it less often, which leaves less behind.
  `ServedOnlyWhenCreated` rests on `MadeInv`: a table that is on the index or parked has
  been created, and so has the table of every query that has left its queue. A
  completion puts on the index what its own query created (`RegistersOnly`), its own
  table, or that of a released item, which had left the queue before.

*The index.*

- `GlobalIndexProofs`: `IndexKeepsInvariant`, and from it `IndexTypeCorrect`,
  `OneKeyIsCurrent`, `PrioritiesAlwaysHeap` and the refinement
  `HeapImplementsIndex`. `KeyCmp` is no order, so that the vector is a heap says
  little. `RiseOrders` and `PopOrders` say what the library's functions keep in spite
  of that: any transitive relation that `KeyCmp` refines, along every path to the top.
  That is the order of the priorities at all times, and the order of the program among
  equal priorities while no two stamps differ by the quantum; `GIInv` has both, and
  that versions in the heap are distinct and not newer than the last one given out.
  The top is then the table `TableIndex` may pick, and a stale key popped is a
  stutter of `TableIndex`.
- `Induction`: the least element and strong induction as facts about sets of natural
  numbers. The induction theorems of the library take an operator as a parameter, which
  the provers here cannot instantiate; these take the set of the numbers for
  which the statement holds. The facts about the recursive `PathTo`, about sums and
  about flattened sequences rest on it.

*Workers and locks.*

- `LemonDBProofs`: `DBTypeCorrect`; `RowsNeverRacedFor`: `RaceFree` for programs
  without LIST, any number of workers; `WorkersUseScheduler`: what the pool does is a
  behaviour of `TaskQueue`, so all its theorems, and `Dispatch`'s promise
  (`PoolKeepsPromise`), hold under the pool; `EveryQueryExecutedOnce`.
  For the races: the table an item locks
  is the one its query names (`TargetInv`); a worker between Acquire and Release
  holds that lock, in a mode that cannot change any more because registration is over
  (`GuardInv`); and locks exclude (`Exclusive`). The assumption about LIST is
  needed: LIST reads the size of every table and locks none.
  For the execution: what is fetched is in one place, in the batch or the local
  queue or in one worker's hands (`Apart`), only what is fetched is there (`Busy`), and
  an item has its result exactly from the execution on (`Promised`).
  The second half is about orderly programs, of any length and on any number of tables,
  files and workers: `OrderlyProgramsComplete`, `TableQueriesSerial`, `OutputIsSerial`
  and `FinalStateIsSerial`. Neither the locks nor the index keep two queries
  of a table in order, and tables have no chain of dependencies as files have. What does
  is a token (`Token`): the entry of the table on the index, which passes to the query
  that is fetched and comes back when its callback ends. `OrderInv` says that a table
  has one token at most, none before what creates it is over, and that its
  queries leave the queue in their order, each when the one before is over. Every way
  a token could be doubled (the second `upsert` of DROP and COPYTABLE), come early
  (a barrier that unparks a table) or be lost (a table or LOAD picked and not preferred)
  has a lemma that says why an orderly program does not meet it.
  From there the data: a query changes nothing but the tables and the file it names
  (`EffectRest`), and what it does depends on these alone (`EffectSame`). So `SerialInv`
  follows each table and each file by itself: the queries that name it have executed up
  to some number and no further, and it is what the single-threaded mode has there
  (`TableAt`, `FileAt`). The next query that names it finds it as
  the single-threaded mode does (`CaughtUp`, `ExecuteAlike`), although the tables
  have got to different places at that moment.

*The tables.*

- `TableProofs`: `TableTypeCorrect`, `KeyMapAlwaysExact`, `StatementsHaveTheirEffect`,
  `FailuresAreAtomic` and `UpdatesStopWhereTheyFail`; `SelectsAreExact` and `AggregatesAreExact`. The inductive `TableInv` adds to `KeyMapExact` the types
  of rows, map and cursor and that the keys a DUPLICATE has collected have a copy key
  (`TodoOK`). The lemmas `AppendRow`, `ReplaceRow` and `SwapAndPop` say what the
  three ways to change the vector do to it; `PushBackExact`, `DeleteExact`,
  `DuplicateExact` and `SetKeyExact` carry them over to the map.
  `StatementEffect` speaks of the end of a statement only; `EffectInv` says what is
  true in its middle: what is in the key list when the cursor has come to a row
  (`CollectedTo`), what is gone or copied when some keys remain (`TreatedBut`), what
  is changed when some rows remain, none of the others having been too short
  (`VisitedTo`). That ADD and SUB write the
  right values, wrapped, follows from the sum over the fields taken in any order.
  The reading queries need no more than `TableInv`. Each loop of theirs is a fold over
  the places of the rows (`FoldsAreTables`, `LoopPrefix`); the rows a query finds are
  those that match, in their order, and each once since keys are distinct (`FoundIs`).
  So the loop of SUM is the sum over the set of them (`SumLoopIs`), those of MIN
  and MAX end at a value that occurs and that none passes (`ExtremeLoopIs`), and the lines
  of SELECT have one order by their keys (`SortLinesIs`). `RefusedIs` relates the errors:
  the loop throws exactly when some row, wherever it lies, is one it fails on.

*The front end.*

- `ExecutorProofs`: `ExecutorTypeCorrect`, `StatementsAcceptedExactly`, `LanguageIsRead`,
  `FilesReadBreadthFirst`, `LoadsBearTheirNames` and `ResultsPrintedInOrder`. `TokenShape` says what
  `parseToken` leaves in a builder, whatever was there before, and the lemmas
  `ComplexMade`, `DebugMade` and `ManageMade` that a query that was made is spelt by
  its statement. The other way round, `ComplexLaid` says at which places the tokens of a
  spelling stand, `TokenRead` that `parseToken` finds them there, and `PlainRead` that the
  statement is read as the query it spells, with any number of operands and conditions
  and whatever the tokens are, keywords or not (`LanguageAssumption`: a query holds what
  its statement says, an operand is not `)`, a condition has three tokens; LOAD is left
  out, since its table is not in its statement). `ExecutorInv` adds to the properties `NamesKnown`, that the cache of
  table names agrees with the files on the disk and the DUMPs read so far, and
  `PrintedSoFar`, how far the output has got in each phase of either mode, and
  `ReadingSoFar`, which counts what has been read: the statements read and those in the
  input are those of the files opened; the main file and the files these statements
  LISTEN to, as far as they exist, are the files opened and then those on the queue or put
  aside; and no file was opened before the LISTEN that names it. When
  nothing waits, the files opened are therefore the main file and all they LISTEN to
  (`AllHeard`, `HeardBefore`). That there is only one such order, the one level by level,
  is `ReadInLevels`, for any finite set of files (`ExecutorAssumption`): the files behind
  a level are what it and they LISTEN to, so they are fewer from level to level, or
  else the levels would go on for ever (`NoEndlessLevels`), and as many levels
  as there are files are enough.

What stays with TLC, and why:

- `ProcessEnds`, `EndsOrWaits`: liveness under fairness. Every invariant and action
  property the passing runs check is a theorem.

## Not modelled

- `main.cpp` and `ArgParser`: the command line, options and messages, without
  state that the rest depends on.
- `QueryResult`, `formatter.h`, `uexception.h`: text layout and the classes of
  exceptions. Which kind of result a query has, whether it fails, and what is printed
  in which order are modelled where they matter.
- Splitting a statement into tokens, and the values and names inside a token.
- `FallbackAnalyzer::estimateQueryComplexity`, `QueryTask.h`, `FakeQueryBuilder`:
  nothing calls them.
- Malformed files other than those a DUMP writes; LOAD fails on them without effect.

## What is left

The programs that LIST, or that drop a table and create it again in a way that the
scheduler does keep in order: they are not `Orderly`, and which of them have the serial
output is open.
