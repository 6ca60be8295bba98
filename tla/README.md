# Verification of pgloader-go

TLA+ modules, TLC configurations and TLAPS proofs about pgloader-go, the program that
loads CSV files and MySQL, SQLite, SQL Server and PostgreSQL databases into PostgreSQL.
Paths below are relative to `src/`. `PROJECT.json` maps every definition to the lines it
models.

## 1. The system

| Component | State | Operations | Interacts with |
|---|---|---|---|
| Pipeline (`internal/pipeline`) | one batch, one pooled connection, position in the source | `Run`: acquire, read rows by callback, flush full batches, flush the rest; `flush` | source (`MapRows` callback), pool, COPY writer, monitor channel, context |
| Parallel copy and migration (`internal/orchestrator`) | phase; per table a wait group, an error channel, a cancellable context | `Migration.Run`, `copyAllTables`, `copyWithConcurrency` | sources, pipelines, monitor |
| Batches, COPY (`internal/copy`) | rows, row and byte counters | `NewBatch`, `Reset`, `FlushBatch`, `RetryBatch`, text encoding | PostgreSQL |
| Monitor (`internal/monitor`) | event channel (1000), statistics per table, `done` | `Start`, `Stop`, `loop`, `processEvent`, `WriteSummary` | every goroutine sends to it |
| Sources (`internal/source/*`) | catalog, active table, WHERE clause of a shard, connections | `FetchMetadata`, `PrepareTarget`, `CompleteTarget`, `ConcurrencySupport`, `SetActiveTable`, `MapRows`, `Clone` | source server, target pool, cast engine |
| Catalog (`internal/catalog`) | tables, columns, keys, indexes | SQL generation | sources |
| Cast engine (`internal/cast`) | ordered rules | `Apply`, `GetTransform` | sources |
| Options (`internal/config`) | `Config` | `ApplyWithOption` | command line, load files |
| Load files (`internal/configfile`) | parser position and clause; per command a pool and a monitor | `ParseFile`, `ExecuteCommand` | everything above |
| Command line (`cmd/pgloader`) | root context, signal goroutine, pool, monitor | `main`, `RunE`, `runMySQL`, ... | everything above |

What is hard in it, and what makes each part correct:

* **Parallel copy.** One goroutine per shard; they share a context that any of them
  cancels, an error channel nobody reads until all are done, a pool that may be smaller
  than the number of shards and the monitor's bounded channel. COPY of a batch commits on
  its own. Correct means: no row twice, success only when all rows are there, the failure
  reported is the cause and not the cancellation it provoked, connections return, nothing
  runs on after the return, the summary is right, and all of this ends.
* **Sharding.** Ranges are computed from a minimum and maximum read earlier, in another
  snapshot, with 64-bit arithmetic. Correct means: rows that nobody touches are read by
  exactly one shard.
* **Batch retry.** Probing for bad rows uses COPY, which commits; connections fail during
  the search. Correct means: exactly the bad rows are rejected and no other row is lost.
* **Migration and re-runs.** Every DDL statement commits on its own; a run that fails
  leaves its work to the next one. Correct means: what a successful run promises does not
  depend on what earlier runs left.
* **Catalog navigation.** Reading and writing find the active table by different fields.
  Correct means: each table is read once and written to its own target.
* **Commands.** Two paths to one load, `ExecuteCommand` and `RunE`, with the same phases in
  another order and another treatment of errors. Correct means: scripts are all or nothing
  and stay on their side of the load, commands stop at the first error, every path returns,
  the summary is final when it is printed.
* **Materialized views.** Tables created in the source database must be dropped on every
  path, and nothing else may be.
* **Options.** Four ways to give one, with aliases and exclusions. Correct means: the last one
  about a setting decides it.
* **Load files.** A state machine over clauses whose readers each stop at their own list of
  words. Correct means: clauses in any order are read whole, no text of an accepted file is
  lost or lands in another clause, and the readers advance.
* **The way of a row.** Driver, conversion, cast rule, transform and COPY encoding each look at
  the Go type that the step before left; CSV files are read by a header, skipped lines and a
  first row that is peeked at; PostgreSQL is read by a second goroutine through a pipe. Correct
  means: a row keeps its columns and NULLs, a value arrives as it was, no record is lost, and
  no goroutine stays behind or uses a connection that was given back.
* **Metadata and the target's schema.** Filters select tables, the types, defaults and filters
  of another dialect are translated, and statements that depend on each other are issued for
  several schemas. Correct means: the catalog has what was selected, keys, defaults and
  filters keep their meaning, the order of statements is one PostgreSQL accepts, what was
  read is built, and the tables of others stay.

`PROJECT.json` lists the hazards one by one, at their lines.

## 2. Modules

Composition: `ParallelCopy` extends `Monitor` (the channel and its loop) and implements
`TableLoad`. `ParallelCopy` assumes of the shards what `SourceProofs` proves of the
ranges. `Migration` takes the load of a table as the single step that `TableLoad` promises.
`Command` extends `Monitor` too and runs the phases around a load, of which it keeps the
connections and the COPYs. `Migration` is parameterised by the settings that `Options`
computes; `MaterializedViews` is the part of a SQL Server command that writes to the source.
`RowPath` opens the step that `ParallelCopy` calls a row: it extends `Values`, which extends
`CastRules` and `CopyText`. `TargetSchema` extends `Metadata`, whose `FetchMetadata` ends where
`PrepareTarget` begins, and `Metadata` uses `Defaults` and the cast rules.

**`Monitor`.** `events` is the buffered channel, `channel` whether `Stop` has closed it,
`loop` whether the loop goroutine has returned, `stats` the per-table statistics. `Send`,
`ProcessEvent`, `LoopExit` and `Close` are the channel operations; other modules use them
inside their actions. Times, bytes and the printed report are left out.

**`TableLoad`** (abstract). Groups of missing rows become visible; success is reported only
when none is missing; nothing is written after the report. A failed load leaves what it
has committed.

**`ParallelCopy`.** One `pc` per shard goroutine, with one label per blocking call:
`start` (send), `acquire` (pool), `read` (row callback), `flush` and `copy` (before and
while COPY is in flight), `written` and `rejected` (the event to send), `end`, `return`
(deferred release), `report` (error channel), `cancel`, `done`. `main` is the goroutine
that waits (`copyWithConcurrency`) and then stops the monitor. Whether the root context or
the shards' own was cancelled is kept apart in `cancels`. The environment may fail any
call at any time, with one exception: an exhausted pool answers nothing (`PoolErr`), so a shard
in `acquire` waits there until another returns its connection or the context is done. `CopyFails` may leave the rows committed, since the answer of a COPY can
be lost. A sequential pipeline is the case of one shard, whose error is returned directly
by the code and through `errCh` in the model.

**`Sharding`.** `ReadBounds` is the min/max query, `ReadShard(i)` the query of shard *i*,
`ReadWhole` the query of the unsharded pipeline, `Put` and `Delete` other clients of the
source. `Wrap` is 64-bit two's complement, scaled to `MaxInt`. The first primary key column
of a table with several is not unique; the ranges partition its values all the same.

**`BatchRetry`.** `RetryBatch` with the recursion of `findBadRows` as the sequence of ranges
it still has to test, in its order. Any COPY may lose the connection, committed or not. The
program does not call `RetryBatch`: `Pipeline.flush` gives up at the first rejected batch
(`internal/pipeline/pipeline.go:118`), and only the tests of `internal/copy` use its parts.

**`Migration`.** One action per statement of `Run`, `PrepareTarget` and `CompleteTarget`,
`Refused` for what the server refuses in the present state of the target, `Fail` for any
failure. `StartRun` begins a run with any options on whatever target is there. The schema
is `"public"` or one off the search path.

**`TableNavigation`.** `TableNames`, `ActiveTable`, `SchemaName` and `Found` (the scan of
`SetActiveTable`) as operators, `copyAllTables` as actions over them, for the SQL Server
source (several schemas) and the others (one).

**`Command`.** `via` is how the program was started: with a `.load` file
(`ExecuteConfigFile`, one `ExecuteCommand` per command) or with flags (`RunE`). `pc` is the
phase and `step` the place in it; `FilePhase` and `FlagsPhase` are the two orders. A script is
its number of statements: for a file one transaction statement by statement (`execSQL`), for
flags one message (`execSQLFile`). `conns` is the pgx pool, which reuses idle connections and
closes broken ones; `pool.Close` waits for all of them. The pipelines of the load acquire,
copy, report and release, any number of `Shards` at a time. The user may interrupt anywhere.

**`MaterializedViews`.** `createMaterializedViews` and the deferred `DropMaterializedViews`,
statement by statement, over several runs against one source database in which the user may
own tables of the same names. `server` records whether a statement failed by accident, as
opposed to a name that is taken or a cancelled context.

**`Options`.** `ApplyWithOption` on one option, a keyword and a value; then the lists, in the
order of `ExecuteCommand` (file: `WITH`, then `--with` followed by what `main.go` makes of two
flags) and of `RunE` (`--with`, then those flags written over it). Initial states are all combinations
of lists and flags.

**`LoadParser`.** A file is a sequence of tokens; several words that the parser compares as
one (`BEFORE LOAD DO`) are one token. `state` is `parseCommand`'s, `clause` says that one of its
readers is running, `rest` that the cursor is inside a token: `readValue` stops at a comma or
semicolon even within a quote, and the rest of the token is read next. The fields of a command hold positions in the file, which
makes it possible to say that a text was lost.

**`CopyText`, `CastRules`, `Values`.** Operators only. `CopyText` has `FormatRowToCopyText` and the
server's reading of the stream; `CastRules` the rules of three sources in their order, merged
where types differ, with integer widths scaled down; `Values` what the drivers return, the
conversions of `MapRows`, the transforms and the input functions of PostgreSQL's types. Text
is a sequence of the symbols that some step treats apart.

**`RowPath`.** `MapRows` of the five sources, the callback of `Pipeline.Run` and `flush`, for one
pipeline. `copier` is the goroutine that runs `CopyTo`, `pipe` the `io.Pipe`, `buf` the scanner.
`MaxLine` is the scanner's limit of 256 MB. A file may fail to open, and the source's pool to give
a connection, before anything is read. A connection that is released while it is in
use is destroyed, as pgx does. The context may be found cancelled at every row, and any
query may fail.

**`Defaults`, `Metadata`.** `Defaults` has the translation of defaults and of filters as
operators, with PostgreSQL's reading of the result. `Metadata` has one operator per reader and
engine, as the code has one method, and `FetchMetadata` as three actions: discover, fetch a
table, rename the views. A table of the model is what the queries return of it.
`SourcesAssumption` says what a source can be: it lists each table once, and of a table each
index once, among them at most one primary key, which has columns and includes no other; only SQL Server has several schemas, whose views do not share a name with a table
of theirs (so that the table made for a view keeps a name of its own when it is renamed); only
PostgreSQL has partitions, and a partition is not listed as a table.

**`TargetSchema`.** `PrepareScript` and `CompleteScript` are the statements in their order,
`Execute` one of them; `IsRefused` and `After` are PostgreSQL's part. `Rerun` starts another run,
with other settings, on what is there. Tables, indexes, keys, foreign keys, types, functions,
sequences, partitions and triggers are kept; rows are `Migration`'s.

## 3. Runs

| Run | Instance | Shows |
|---|---|---|
| `parallel_copy` | 3 shards, 4 rows, batches of 2 rows or 3 bytes, 2 connections, channel of 1; 492,762 states | `NoDuplicates`, `SuccessIsComplete`, `RootCauseReported`, `SummaryExact`, `NothingRunsAfterReturn`, `LoadEnds`, and the refinement of `TableLoad` |
| `sharding` | 3 rows, 4-bit integers, 3 shards, five keys; 708,500 states | `StableRowsReadOnce` |
| `batch_retry` | all batches of at most 5 rows, all sets of bad rows; 2,205 states | `RejectsExactlyBad`, `NoRowLost`, `RetryEnds` |
| `migration` | 2 tables that reference each other, 2 rows, 22 option sets, 3 runs; 27,327 states | `LoadedOnce`, `DropMakesRerunSafe`, `CompleteMeansComplete` |
| `table_navigation` | all catalogs of at most 2 schemas with at most 3 tables; 1,198 states | `EachTableOnce`, `FindsItsTables` |
| `command` | 2 commands with scripts of 0 to 2 statements, 2 connections, 2 COPYs, channel of 2; 17,200 states | `ScriptsAtomic`, `InOrder`, `LoadBetweenScripts`, `SummaryIsFinal`, `CommandEnds` |
| `materialized_views` | 3 views, 3 runs; 7,406 states | `UserTablesKept`, `LeavesNoTrace` |
| `options` | all lists of at most 2 of 11 options, all flags; 938,679 states | `LastOptionWins` |
| `load_parser` | 8,862 files: a head and up to 3 of 20 lines of clauses, or broken heads and ends; 126,987 states | `TextsInTheirClause`, `NothingLost`, `WellFormedIsRead`, `Terminates` |
| `row_path` | 4,933 loads: every kind of column with every telling value, and CSV files under all settings; batches of 2; 41,626 states | `RowsFramed`, `ValuesArrive`, `RowsArrive`, `PooledIsIdle`, `LoadAndCopierEnd` |
| `row_path_binary` | the same | counterexample to `BinaryArrives` |
| `schema` | 130 databases and settings of four engines, 2 runs; 20,154 states | `CatalogComplete`, `KeysRead`, `DefaultsKept`, `FiltersKept`, `TargetComplete`, `OnlyKnownRefusals`, `OthersSpared` |

Bounds, and why they are enough:

* `parallel_copy`: a shard that fills a batch by rows and ends inside a second one, a shard
  whose row reaches the byte limit alone, a shard with no row. Fewer connections than
  shards and room for one event make every blocking case happen: the third shard waits
  until another has released, and `LoadEnds` fails when `Release` is left out (its mutant). The theorems of section 5
  remove all these bounds for safety.
* `sharding`: 4-bit keys include a span whose subtraction overflows, one shorter than the
  number of shards, one that leaves a remainder, a single key. `Concurrency = 3` has a
  first, an inner and a last range.
* `batch_retry`: five rows give unequal halves on two levels.
* `migration`: with two tables in a cycle each table is both child and parent, loaded
  before and after the other. The third run meets what two others left. Every option that
  the properties tell apart is on in one set and off in another.
* `command`: the first command has both scripts and settings, the second only a script
  after the load, so the branches on absent scripts and settings are taken and the second meets what the first left. Two
  connections and two pipelines can exhaust the pool, and two events fill the channel, which
  is the least that `RunE` needs before it starts the monitor (`PhasesAssumption`).
* `materialized_views`: three views give a first, an inner and a last statement of both
  loops; the second run meets the remains of the first, the third those of both. Section 5
  removes the bounds.
* `options`: two options in each list can contradict each other within a list and across
  lists, and name one setting in two ways. Section 5 removes the bound.
* `table_navigation`: the catalogs hold the same name in both schemas and indexes beyond the
  number of schemas. Section 5 removes the bounds.
* `load_parser`: three lines give every clause a clause before and one after it; the lines
  hold options that look like clauses, clauses cut short, commas at either end and quotes
  with a semicolon. Files of two commands and of comments have shorter bodies. Section 5
  proves two of the properties for files of any tokens and any length.
* `row_path`: integers of 2 to 6 bits have a value at either edge, one beside it, and 0; texts
  have every pair of symbols that the encoding treats apart. Three rows against batches of
  two fill one batch and leave one row. CSV files have up to three records of four kinds,
  one of another width. A line of PostgreSQL is longer than `MaxLine` in one load.
* `schema`: each database has the smallest set of tables with the situations that matter to
  its engine: a foreign key to a later table and one to its own, the same index name in two
  tables, the same table in two schemas, a key in another order than the table, types that
  need each other. Every default and filter that a reader treats apart is there. One run
  builds, the next meets what it left, with the same or other settings. Each engine is also
  told to load one table, one that it has and one that it has not. Section 5 proves three of
  the properties for every source.

Deadlock is checked in `parallel_copy`, where `Terminated` marks the exit of the process.
The other models stop where their program returns, and their configurations say so. (A
parser that does not end would be a stuttering one; `Terminates` is the property for it.)

**Fairness.** `parallel_copy` assumes weak fairness of each shard's goroutine, of the waiting
goroutine and of the monitor's loop: the Go scheduler runs every goroutine that can run, and
a call on a connection ends with an answer or an error. A shard that waits for a connection
has no step of its own to be forced to take: only a release or a cancellation frees it. That
weak fairness is enough is due to the number of shards, each of which takes one connection
once. The outcome of a call and the user's interrupt are not fair: nothing has to succeed. `batch_retry` assumes that its sequential
code goes on. `command` assumes weak fairness of the main goroutine, of the pipelines and of
the monitor's loop once it is started, since calls to the servers return; the goroutine that
waits for a signal need never act. The failure of a load (`LoadRefused`) is fair only when the
context is done, and `Acquire` of an exhausted pool does not fail, so that no failure that
may happen frees a pipeline that waits. `load_parser` is one sequential function. `row_path` assumes
weak fairness of the goroutine that copies and of the one that reads: both are scheduled,
and the server goes on sending or the connection fails.

## 4. Disagreements between the code and its comments

One of them is a run that is expected to find a counterexample; `findings` in `PROJECT.json`
quotes the line. `ByteVectorToBytea` converts binary data to PostgreSQL's hex format, says its
comment, but `MapRows` of the SQL Server source has made a string of the value before, which
the transform leaves alone (`row_path_binary`).

The others were met while reading the code for the models; no run singles them out, and
where a property would fail for one of them its exception is named at the property.

The load and its options:

* Sequences of a schema that is not on the search path are not reset, silently
  (`internal/source/mysql/source.go:509`).
* `SetActiveTable` of the SQL Server source looks into the first schema only, so `dbo.a` may
  activate `app.a` (`internal/source/mssql/source.go:157`).
* Settings (`SET`) reach one connection of the pool, not those of the other pipelines
  (`internal/configfile/executor.go:100`).
* Without a load file `--with 'no foreign keys'` and `--with 'include drop'` are overwritten
  by flags that were not given (`cmd/pgloader/main.go:223`).
* The last range of a sharded table is empty when its greatest key is the greatest `int64`
  (`internal/source/pgsql/source.go:195`); `KeysFit` excludes it.
* `RetryBatch` imports good rows more than once, and takes a lost connection for bad rows.
* `data only` still prepares the target schema.
* `SchemaName` of the SQL Server source is not always the schema of the active table.
* `--dry-run` does not look at the source.
* After an interrupt the tables made for materialized views stay in the source database,
  since the deferred call gets the cancelled context; `LeavesNoTrace` excludes it.
* `--include-drop=false` and `--foreign-keys=true` do not prevail over a load file.
* `drop indexes` drops the tables.
* The options that are specific to CSV files are refused as unknown, and `truncate` is
  accepted for a CSV load and read by nobody.

Load files:

* A dollar-quoted text with a semicolon among options keeps `readOptionsUntil` where it is for
  ever (`internal/configfile/parser.go:545`; the comment at :370 speaks of no infinite loops).
  `Terminates` excludes it.
* `INTO TARGET TABLE` compares eleven characters with twelve and reads `TARGET` as the target.
* What follows a text that is no clause is skipped to the end of the command, without an
  error. Unknown words of a cast rule are ignored too.

Values:

* SQL Server's and SQLite's bytes become strings before any transform looks at them.
* `BIGINT UNSIGNED` beyond `int64` wraps; an unsigned `AUTO_INCREMENT` becomes `serial`, since the
  rule for `bigserial` stands after it (`internal/cast/cast.go:211`); a wide integer of SQLite
  does not fit the type of its declared name.
* MySQL's zero dates become the year 1 before `zero-dates-to-null` can see them; fractions of
  seconds are dropped.
* `BIT(n)` with n no multiple of 8 becomes `bit varying(n)` and gets eight characters per byte:
  every row is refused (`internal/cast/transforms.go:207`).
* `escapeCopyString` writes `?` for bytes that are not UTF-8; its comment says U+FFFD.
* CSV values are always trimmed, and the first record, skipped or not, fixes the number of
  fields of all.
* A row of PostgreSQL longer than the scanner's buffer leaves the copying goroutine in its
  write for ever; `LoadAndCopierEnd` excludes it.

Metadata and schema (`Metadata`, `TargetSchema`):

* No column of MySQL is flagged as key, so its tables are never sharded; SQL Server's reader
  may flag a table of the same name in another schema.
* SQLite's UNIQUE constraints and the filters of its partial indexes are not read, composite
  keys come in the order of the table, a foreign key without columns is an error, two to one
  table get the same name.
* Defaults are lost or refused: MySQL's empty text, a backslash, `CURRENT_TIMESTAMP(6)`; SQLite's
  quoted texts and boolean numbers; `((1)+(2))` of SQL Server, whose parentheses are stripped
  from unlike pairs.
* Filters of SQL Server keep the case of names while the columns are lowered, spaces in a
  literal collapse, a literal with `)` is cut; included columns become key columns; names
  that differ by a dot are merged.
* Index names are unique per table in MySQL and per schema in PostgreSQL: the second index of
  a name is passed over without a word, as is one with the name of a table or a sequence.
  `TargetComplete` excludes it.
* A table that the command names and the source does not have is read as one without columns:
  MySQL, SQL Server and SQLite go on and drop and create it in the target.
* Foreign keys of MySQL, SQLite and PostgreSQL name no schema of their own, and fail off
  `public`.
* PostgreSQL: types are created by kind and name and functions before tables, whatever they
  need; sequences no column owns are not created; partitions are created without a schema; a
  primary key becomes a unique index; `DROP TYPE ... CASCADE` in the load of one table takes
  columns of the others, which `OthersSpared` allows for the source's types only.

## 5. Proofs

TLAPS proves the following for every value of the constants that satisfies the named
assumptions. The heart of each component's part is an inductive invariant.

**`MonitorProofs`.** Lemmas for the two models that use the monitor. What a property of the
summary says is a balance: what the statistics show plus what the channel still holds
(`Credit`) equals what was done. The sum over the channel is the cardinality of a set with
one element for each unit that an event will add (`Units`), so that no induction over the
channel is needed: appending an event adds a disjoint part (`UnitsOfAppend`), taking the
first one away moves the others down by one (`UnitsOfTail`). Hence `SendCredits`, `LoopKeepsCredit`
(the loop changes no balance) and `DrainedCredit` (with an empty channel the balance is what the
statistics show).

**`ParallelCopyProofs`.** Assumptions: the shards are finitely many, read disjoint parts of
the table and together all of it (`PartitionAssumption`), and all capacities are positive.
`Invariance` proves the inductive invariant `IInv`. The properties are not inductive: that
success is complete needs to know what a shard has committed at each label. `ControlInv`
says what each label implies for batch, error and connection. `DataInv` relates the target
to positions in the shard's rows: loaded up to `Saved`, not loaded beyond `next`, and the
batch in between all loaded or all not, which is what the atomicity of COPY gives even when
its answer is lost. `CauseInv` says that every error is in the channel before its shard is
done and that a cancellation without an interrupt has a cause in the channel. From `IInv`
follow `TypeOK`, `NoDuplicates`, `SuccessIsComplete`, `PrefixCommitted`, `RootCauseReported`,
`NoConnectionLeak`, the action property `NothingRunsAfterReturn`, and `Refinement`: every
step is a step or a stutter of `TableLoad`.

`SummaryIsExact` needs more: `SummaryInv` says that the balance of written rows is the number of
rows whose COPY the shards know to be committed (`AckedRows`), and the balance of ended shards
the number of shards that ended without an error. `AckedStep` shows that only the report of a
batch moves the former, by the size of the batch. At the end the channel is empty, and the
rows in the target are those acknowledged and the `Unacknowledged` ones, by a bijection between
positions of shards and rows.

**`SourceProofs`.** Three components of the sources. Their modules share no name (hence `ViewSpec`
and `NavSpec`), so that one module can extend them all.

* Sharding. `RangesPartition` is the arithmetic: the ranges between two bounds contain every
  key once, for any concurrency, with spans that overflow included, as long as the greatest
  key plus the concurrency does not (`KeysFit`). `ShardingInvariance` needs no such condition:
  it says that what a shard has read of an untouched row is decided by the bounds. Together
  they give `ShardsReadOnce`.
* Materialized views. The user's tables are among those that were there when the run began,
  and these among the present ones; what is recorded to be dropped was created by the run.
  With what each phase has recorded so far, this gives `UserTablesAreKept`, `RunsLeaveNoTrace` and
  `ViewsTypeCorrect`, for any number of views and runs (`BoundsAssumption`).
* Navigation. `FlattenOfOne` opens the flattened sequence of tables for a catalog of one schema.
  Then a table's name has one match (`OneSchemaTables`), which is where the assumption is needed
  that no two tables of a schema have one name (`CatalogsAssumption`), and the loop copies the
  tables in their order (`InCatalogOrder`): `EachTableIsLoadedOnce` and `TablesAreFound`, for catalogs
  of any size. With several schemas the code does neither (section 4).

**`RowPathProofs`.** Assumptions: the sizes (`SizesAssumption`); no decimal number is one of the
symbols that the encoding escapes (`NumeralsAssumption`); and what a driver, a file or a server
can hand to `MapRows` (`JobsAssumption`): rows have a column at least (`encoding/csv` never returns
a record without a field, and a table that is read has columns), a value of a SQL column is of
that column's type, and PostgreSQL sends only text of its encoding, as the server checks what it stores. Nothing is
assumed of the number of rows or columns, of the length of texts, or of the sizes.

* *The round trip.* `CopyRoundTrip`: the server reads from the encoding of any rows the values
  that were encoded, and NULL where there was none. The encoding is a concatenation of pieces,
  the reader splits by unescaped separators, where escaped means after an odd number of
  backslashes. `FlattenPlaces` says where in a concatenation each piece stands, `NothingOpenAtFirst` and its
  neighbours that no piece leaves a backslash open, so that a separator inside a value is
  always escaped and one between two values never. `HandedGo` then says that what `MapRows`
  hands over, from every source and after every cast rule and transform, is nil, a text or
  bytes of the symbols that the encoding knows, which is the hypothesis of the round trip.
* *Framing.* `BatchesAreFramed`: at every moment the batch is read row by row as what `MapRows` handed
  over. It is not inductive: of PostgreSQL, the rows come through a pipe and a scanner's buffer.
  `FramedInv` says that the batch is the last `Len(batch)` rows that were seen (`Batched`) and that between
  the copying goroutine and the scanner are at most a line in the pipe and one in the buffer, of
  the rows that follow (`InFlight`).
* *Arrival.* `RowsLandInOrder`: from PostgreSQL and CSV files the rows land under the names of
  their columns in the order of the source, and a load that succeeds has landed all of them, whichever
  the source. `ArriveInv` counts: the rows seen are those skipped, those in the target and those
  in the batch (`Counted`), and says when the columns are settled (`Named`); with `FramedInv` a flush
  appends just the next rows.
* *Connections.* `PooledConnectionsAreIdle`: the pipe has an end of its own only when the goroutine
  that writes it has ended (`PipeInv`), and this is all that `MapRows` learns before it gives the
  connection back. Tables, values and the encoding do not matter.

TLC checked `FramedInv` and `ArriveInv` on the instance of `row_path` before they were proved.

**`MigrationProofs`, the rows.** Assumption: `Order` lists every table once and foreign keys stay among
the tables. `MInv` says, for each stage, what the run has done to the tables before the
cursor and not to those after it: `LoadInv` for rows, `ScratchInv` for tables and
constraints. It gives `LoadsOnce`, `RerunsSafely` and `CompletesTheTarget` over any number
of runs (`MaxRuns` is only compared with), any tables and any foreign keys.

**`MigrationProofs`, the catalog and the target's schema.** Assumption: what a source can be
(`SourcesAssumption`, section 2). Nothing is assumed of the number of tables, columns, indexes,
schemas or runs, nor of filters, views and settings.

* *The catalog.* `SchemaInv` says that after each step of `FetchMetadata` the catalog holds, of the
  first *n* tables wanted, what was read of each and nothing else, in schemas and with names that
  are distinct (`CatalogOfFirst`); `AppendKeeps`, `MarkKeeps` and `RenameKeeps` are its three steps.
  The table names that are distinct while the tables are read are those of the source, and
  afterwards those of the views. It gives `CatalogOfTheLoaded`.
* *Keys.* What the catalog has of a table is what the reader made of it, so `KeysOfTheLoaded` is about
  the four readers (`KeyListed`, `KeyOfSQLite`, `KeyOfMSSQL`). SQL Server's indexes come as one list of
  rows, a row per column, which the code groups by the name of the index: the rows of the key
  follow one another (`RowPlaces`), no other row has their name unless two names become one
  (`Merged`), and what a filter keeps of places that follow one another stands as it
  stood (`PickedRun` in `SequenceLemmas`).
* *What is spared.* The scripts are concatenations over the catalog, and `PrepareElements` and
  `CompleteElements` say which statements are in them; so a `DROP TABLE` names a table that is
  loaded and a `DROP TYPE` a type of the source (`DropsLoaded`, the other part of `SchemaInv`), and
  `AfterSpares` looks at what each takes away.
  It gives `TablesSpared`.
* *What is built.* `TargetComplete` looks at the end of the last of several runs, any of which may
  have failed at any statement. `BuildInv` says that each statement that builds something is
  still in the script, or what it builds is there (`Made`) and no statement in the rest of the
  script undoes it. `PrepareInOrder` is the lemma about the order: no `DROP` comes after what it
  would take away, of the same table or of another, because no two tables have one name and no
  partition has that of a table. `CREATE INDEX IF NOT EXISTS` does not fail when the name is taken,
  so that nothing says at once that the index in the way is the one wanted. `IndexesOfSource`
  says, over all runs, that an index of the target which is not a key is one that this source has
  for the table of that name under the views of *some* run; `SameTable` that the table is then the
  same under the views of this run, and `IndexNames` that the index is. It gives `AllIsBuilt`.

The lemmas speak of sequences by their elements (`JoinElements`, `ConcatElements`, `PickedFacts`) and,
where order counts, by their places (`JoinInOrder`, from `FlattenPlaces` in `SequenceLemmas`). TLC
checked `BuildInv` on the instance of `schema` before it was proved. Reading the model for the
proof gave the two exceptions that `TargetComplete` names besides the index of another table:
a table or a sequence, and the name that PostgreSQL chose for a key.

**`CommandProofs`.** Assumptions: the scripts' lengths are natural numbers and the capacities
positive. The properties speak of what the target has, which no single state of the program
shows. `PhaseInv` says it for each place: nothing of the running command before its first
script is committed, that script and nothing of the second one during the load, all of it
once the command ends without an error. `ScriptInv` adds that a script of a file runs in a
transaction and stops at its end, `TaskInv` that pipelines live only inside the load, without
which a late COPY could follow the second script. It gives `ScriptsAreAtomic`, `CommandsInOrder`
and `LoadsBetweenScripts`, for any number of commands, statements, connections and COPYs.

`SummariesAreFinal` brings in the pool and the monitor (`SummaryInv`): a pipeline keeps its
connection until it has reported, so no two of them use one; and as long as there is no error, the
balance of the load's rows plus the pipelines that are about to report is what the load has
copied. The summary is printed after the loop has returned, which it does with an empty
channel.

**Batch retry** (in `RowPathProofs`, since a batch of rows is what it retries). While the connection lasts, every bad row is found or lies in a range
still to be tested, and only bad rows are found (`SearchInv`); `HalvesCover` is the arithmetic
of the split, `TwoBefore` and `HeadAndTail` what it does to the ranges. Once the connection is
lost nothing is known of what was found, but then the last COPY cannot succeed unless it has
no row to send. It gives `RejectsTheBadRows`, `LosesNoRow` and `RetryTypeCorrect` for batches of
any size.

**`LoadParserProofs`.** Assumption: files are sequences of tokens (`FilesAssumption`). The properties
look at an accepted file and the stored texts, from which the parser's way is to be
recovered; the invariant `IInv` keeps what the parser forgets. `Headed`: the texts of each
clause, of the running command and of those that are done, follow one keyword of that clause,
with no other keyword in between but a `SET` that was read as a text; and that keyword is in no
text. `Places`: texts lie behind the cursor, so a later step can cover no keyword, which makes
`Headed` stable. `Accounted`: of all that the cursor has passed, each token is a word of the
syntax, a text, or a text that was replaced. `Control` says where the cursor can stand in each
state, among other things that a semicolon is still ahead, without which a reader could run
past the end. Each reader has a lemma (`...Moves`) that shows its step to pass some tokens as one of
four kinds: outside any clause, within the open one, opening a clause, or reading a target
(`Outside`, `Within`, `Opens`, `Targets`). A lemma for each kind shows that it keeps the invariant.
It gives `TextsStayInTheirClause` and `NothingIsLost`, for files of any tokens and any length.
TLC checked `IInv` on the instance of the run before it was proved.

The readers' loops are `CHOOSE`s of the first position where they stop. That such a position
exists is an induction in principle; here a set of positions has a least element because `<` is
well-founded (`FirstPosition`), which needs no operator parameter. `removeComments` is a
recursive function, of which only the set of its results' tokens is needed.

**Options** (in `LoadParserProofs`, since the options of a command come from its load file). Assumption: the offered options are options (`OfferedAssumption`). The
invariant adds to `TypeOK` and `LastOptionWins` that the options applied so far are a prefix of
`WITH` followed by `--with` (`Progress`), and how long a prefix in each phase; without it
nothing says that an option is not skipped. `ApplyDecides` is what `ApplyWithOption` does to a
setting that an option is about and to the others. It gives `LastOptionDecides`,
`CliPrevails` and `OptionsTypeCorrect`, for lists of any length.

**Type invariants.** Each module states the types of its variables in `TypeOK` (or a name of its own,
where modules are extended together). They are proved
for `ParallelCopy`, `Sharding`, `Migration`, `Options`, `MaterializedViews` and `BatchRetry`; `CommandProofs`,
`LoadParserProofs` and the navigation part of `SourceProofs` prove the part their properties
need (`Types`, `NavTypes`). The runs check the properties that say more.

**Only model-checked.**

* `LoadEnds`, `RetryEnds`, `CommandEnds`, `LoadAndCopierEnd` and `Terminates` are liveness.
* `WellFormedIsRead` compares the parser's steps with the file without its line ends (`Flat`),
  which is a fold over the file: that each reader consumes the next stretch of it is
  an induction over data.
* `ValuesArrive`: the transforms are a finite table of cases per type, source and form of a value,
  which TLC goes through value by value; a proof would repeat the table. What holds of all
  of them, that they end in something the encoding can write, is proved (`HandedGo`).
* `DefaultsKept` and `FiltersKept` compare what an expression says in two dialects: the translation
  runs over the expression, an induction over data, and the meaning of a default is an input.
* `OnlyKnownRefusals` says of each statement which of its reasons are in the source. A proof would
  take as assumptions all that a consistent source has (indexes on columns that exist, foreign keys
  on unique columns, names that stay distinct when folded) for each engine, and go
  through `IsRefused` for each kind of statement.

## 6. Not modelled

* **Source connections.** Clones open one connection each and nothing closes them. It is a fact
  about the shape of the code; how many connections a server allows is not in it.
* **User cast rules.** `parseCastRule` reads words of a rule; `EngineOf` takes the resulting rules
  as a parameter, which the runs leave empty.
* **PostgreSQL's rules** (`PgDefaultRules`) rename seven types, `money` and `xid` among them;
  `TargetType` has the names. No property reads them: `DefaultsKept` and the refusal of defaults
  are about the other engines, and rows of PostgreSQL pass as text. The cast of `money` in the
  source's query is left out.
* **Transforms** of spatial types, money and uuid, `GuessParams`, comments, quoting, operator
  classes, actions of foreign keys: pure functions on text without an interaction.
* **PostgreSQL's extensions**, `INHERITS`, partition keys that are expressions, and `pg_trgm`.
* **Times, bytes and the printed report** of the monitor.
* **Below the tokens of a load file**: upper and lower case, the ends of words, comments inside
  a text.
* Test fixtures, container files and documentation have no logic of the program.

What would come next: the composition of `Metadata` with `Sharding` once key flags are set in
the code, and a proof of `OnlyKnownRefusals` engine by engine.
