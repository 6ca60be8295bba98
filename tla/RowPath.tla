------------------------------ MODULE RowPath ------------------------------
(***************************************************************************)
(* The way of the rows of one table through one pipeline: MapRows of the    *)
(* five sources, the encoding of rows, the batches, and COPY at the target. *)
(* PostgreSQL is read by a goroutine that writes COPY TO into a pipe; a CSV *)
(* file by records; the others by a cursor.                                 *)
(***************************************************************************)
EXTENDS Values, FiniteSets

CONSTANTS
    Jobs,         \* what may be loaded
    BatchSize,    \* rows of a batch
    MaxLine       \* symbols of the longest line the scanner takes

ASSUME SizesAssumption == BatchSize \in Nat \ {0} /\ MaxLine \in Nat

\* A value of a source column. Integers are printed in digits; the driver
\* returns binary columns as bytes.
Numbers == Signed(Bits.bigint) \cup Unsigned(Bits.bigint)
Value == [null : BOOLEAN, text : Seq(STRING), n : Numbers]
IsValueOf(c, v) ==
    /\ v \in Value
    /\ c.type \in Integral /\ ~v.null => v.text = <<ToString(v.n)>>
    /\ c.type \in Binary => v.text \in Seq(Bytes)
IsTextValue(v) == v = NullValue \/ (v = Text(v.text) /\ \A p \in 1..Len(v.text) : v.text[p] # "bad")

SQL == {"mysql", "mssql", "sqlite"}

ASSUME NumeralsAssumption ==
    \A n \in Numbers : ToString(n) \notin DOMAIN EscapeOf /\ ToString(AsInt64(n)) \notin DOMAIN EscapeOf

\* Tables and files have columns; a CSV record is a sequence of texts. All that
\* PostgreSQL sends is text of its encoding.
ASSUME JobsAssumption ==
    \A j \in Jobs :
        /\ j.source = "csv" => j.rows \in Seq(Seq(Seq(STRING))) /\ j.skip \in Nat
        /\ j.source # "csv" => j.rows \in Seq(Seq(Value))
        /\ \A k \in 1..Len(j.rows) :
              /\ j.rows[k] # <<>>
              /\ j.source \in SQL => \A i \in 1..Len(j.rows[k]) : IsValueOf(j.cols[i], j.rows[k][i])
              /\ j.source = "pgsql" => \A i \in 1..Len(j.rows[k]) : IsTextValue(j.rows[k][i])

VARIABLES
    job,          \* [source, table, cols, rows] or, for CSV, also skip, header, names
    reader,       \* "start", "skip", "header", "first", "rows", "mapped" or "done"
    seen,         \* rows, or records of the file, read
    width,        \* fields of a CSV record, 0 until one is read
    columns,      \* the columns that COPY names
    batch,        \* formatted rows
    target,       \* the rows of the target, each a function of its columns
    result,       \* "", "ok" or "error"
    copier,       \* the goroutine of MapRows: "off", "copying", "writing" or "ended"
    sent,         \* rows it has taken from the server
    pipe,         \* what it has written and the scanner has not read
    closed,       \* how the pipe was closed: "", "EOF", "error" or "reader"
    buf,          \* what the scanner has read and not split
    conn          \* the source connection: "pool", "held" or "destroyed"

copierVars == <<copier, sent, pipe, closed, buf, conn>>
rowVars == <<job, reader, seen, width, columns, batch, target, result, copierVars>>

IsSQL == job.source \in SQL
TypeOf(name) == LET i == CHOOSE i \in 1..Len(job.table) : job.table[i] = name IN
                IF IsSQL THEN Apply(EngineOf(job.source, <<>>), job.cols[i]).target ELSE "text"

----------------------------------------------------------------------------
(* COPY at the target, and the callback of Pipeline.Run *)

\* The server takes all rows of a COPY or none.
CopyTaken(rows) ==
    /\ {columns[i] : i \in 1..Len(columns)} \subseteq {job.table[i] : i \in 1..Len(job.table)}
    /\ \A i, j \in 1..Len(columns) : i # j => columns[i] # columns[j]
    /\ \A r \in 1..Len(rows) :
          /\ Len(rows[r]) = Len(columns)
          /\ \A i \in 1..Len(columns) : Input(TypeOf(columns[i]), rows[r][i]).ok
TargetRow(cells) ==
    [name \in {job.table[i] : i \in 1..Len(job.table)} |->
        IF \E i \in 1..Len(columns) : columns[i] = name
        THEN Input(TypeOf(name), cells[CHOOSE i \in 1..Len(columns) : columns[i] = name]).value
        ELSE NullValue]

\* Mutant: the connection goes back to the pool whatever it is doing.
FailReleasesBusy(close) ==
    /\ result' = "error" /\ reader' = "done"
    /\ closed' = IF close /\ closed = "" /\ job.source = "pgsql" THEN "reader" ELSE closed
    /\ conn' = IF conn = "held" THEN "pool" ELSE conn

\* MapRows returns an error; a deferred Release destroys a connection in use.
Fail(close) ==
    /\ result' = "error" /\ reader' = "done"
    /\ closed' = IF close /\ closed = "" /\ job.source = "pgsql" THEN "reader" ELSE closed
    /\ conn' \in IF conn # "held" THEN {conn} ELSE IF copier = "ended" THEN {"pool", "destroyed"} ELSE {"destroyed"}

\* pipeline.flush. COPY fails for the rows, or because the server or the
\* context is gone, whatever the rows.
Flush(rows) ==
    LET read1 == ReadStream(FlattenSeq(rows)) IN
    /\ CopyTaken(read1)
    /\ target' = target \o [r \in 1..Len(read1) |-> TargetRow(read1[r])]
    /\ batch' = <<>>

\* The callback of Run. It may find the context cancelled.
ProcessRow(formatted) ==
    \/ Fail(TRUE) /\ UNCHANGED <<batch, target>>
    \/ /\ IF Len(batch) + 1 >= BatchSize
          THEN Flush(Append(batch, formatted))
          ELSE batch' = Append(batch, formatted) /\ UNCHANGED target
       /\ UNCHANGED <<reader, result, closed, conn>>

\* The rows that do not fill a batch.
FlushFinal ==
    /\ reader = "mapped" /\ reader' = "done"
    /\ \/ result' = "error" /\ batch # <<>> /\ UNCHANGED <<batch, target>>
       \/ result' = "ok" /\ batch = <<>> /\ UNCHANGED <<batch, target>>
       \/ result' = "ok" /\ batch # <<>> /\ Flush(batch)
    /\ UNCHANGED <<job, seen, width, columns, copierVars>>

----------------------------------------------------------------------------
(* MapRows of MySQL, SQL Server and SQLite *)

RowOf(values) ==
    [i \in 1..Len(values) |->
        Transformed(Apply(EngineOf(job.source, <<>>), job.cols[i]).transform,
                    Convert(job.cols[i], Driver(job.cols[i], values[i])))]

Query ==
    /\ reader = "start" /\ IsSQL
    /\ reader' = "rows" /\ columns' = job.table
    /\ UNCHANGED <<job, seen, width, batch, target, result, copierVars>>

NextRow ==
    /\ reader = "rows" /\ IsSQL /\ seen < Len(job.rows)
    /\ seen' = seen + 1
    /\ ProcessRow(FormatRowToCopyText(RowOf(job.rows[seen + 1])))
    /\ UNCHANGED <<job, width, columns, copier, sent, pipe, buf>>

RowsEnd ==
    /\ reader = "rows" /\ IsSQL /\ seen = Len(job.rows)
    /\ reader' = "mapped"
    /\ UNCHANGED <<job, seen, width, columns, batch, target, result, copierVars>>

\* Mutant: rows.Err is not asked after the loop.
QueryFailsUnseen ==
    /\ reader \in {"start", "rows"} /\ IsSQL
    /\ IF reader = "start" THEN Fail(FALSE) ELSE reader' = "mapped" /\ UNCHANGED <<result, closed, conn>>
    /\ UNCHANGED <<job, seen, width, columns, batch, target, copier, sent, pipe, buf>>

\* The query is refused, or the cursor ends for an error (rows.Err).
QueryFails ==
    /\ reader \in {"start", "rows"} /\ IsSQL
    /\ Fail(FALSE)
    /\ UNCHANGED <<job, seen, width, columns, batch, target, copier, sent, pipe, buf>>

----------------------------------------------------------------------------
(* MapRows of PostgreSQL *)

StartCopier ==
    /\ reader = "start" /\ job.source = "pgsql"
    /\ reader' = "rows" /\ columns' = job.table
    /\ copier' = "copying" /\ conn' = "held"
    /\ UNCHANGED <<job, seen, width, batch, target, result, sent, pipe, closed, buf>>

\* The source's pool has no connection to give, before the goroutine starts.
AcquireSourceFails ==
    /\ reader = "start" /\ job.source = "pgsql"
    /\ Fail(FALSE)
    /\ UNCHANGED <<job, seen, width, columns, batch, target, copier, sent, pipe, buf>>

\* The values of a row as COPY TO of the source writes them.
RowSent(row) == [i \in 1..Len(row) |-> IF row[i].null THEN Nil ELSE Str(row[i].text)]

\* The server sends one message per row; Write returns when it is read.
CopierWrites ==
    /\ copier = "copying" /\ sent < Len(job.rows) /\ conn # "destroyed"
    /\ sent' = sent + 1 /\ copier' = "writing"
    /\ pipe' = FormatRowToCopyText(RowSent(job.rows[sent + 1]))
    /\ UNCHANGED <<job, reader, seen, width, columns, batch, target, result, closed, buf, conn>>

\* A closed pipe fails the write, and CopyTo with it.
CopierUnblocks ==
    /\ copier = "writing" /\ (pipe = <<>> \/ closed = "reader")
    /\ copier' = IF closed = "reader" THEN "ended" ELSE "copying"
    /\ pipe' = <<>>
    /\ UNCHANGED <<job, reader, seen, width, columns, batch, target, result, sent, closed, buf, conn>>


\* CloseWithError(err): after all rows, or when the connection is lost.
CopierEnds ==
    /\ copier = "copying"
    /\ copier' = "ended"
    /\ \/ sent = Len(job.rows) /\ conn # "destroyed" /\ closed' = IF closed = "" THEN "EOF" ELSE closed
       \/ closed' = IF closed = "" THEN "error" ELSE closed
    /\ UNCHANGED <<job, reader, seen, width, columns, batch, target, result, sent, pipe, buf, conn>>

ScannerReads ==
    /\ reader = "rows" /\ job.source = "pgsql"
    /\ pipe # <<>> /\ buf = <<>>
    /\ buf' = pipe /\ pipe' = <<>>
    /\ UNCHANGED <<job, reader, seen, width, columns, batch, target, result, copier, sent, closed, conn>>

\* ScanLines: up to a line end, without a carriage return before it.
LineEnd == CHOOSE i \in 1..Len(buf) : buf[i] = "NL" /\ \A j \in 1..(i - 1) : buf[j] # "NL"
Line == IF LineEnd > 1 /\ buf[LineEnd - 1] = "CR" THEN SubSeq(buf, 1, LineEnd - 2) ELSE SubSeq(buf, 1, LineEnd - 1)

\* A line that does not fit ends the scan, and nobody closes the pipe.
ScannerLine ==
    /\ reader = "rows" /\ buf # <<>>
    /\ IF LineEnd > MaxLine
       THEN Fail(FALSE) /\ UNCHANGED <<seen, batch, target, buf>>
       ELSE /\ seen' = seen + 1
            /\ buf' = SubSeq(buf, LineEnd + 1, Len(buf))
            /\ ProcessRow(Append(Line, "NL"))
    /\ UNCHANGED <<job, width, columns, copier, sent, pipe>>

\* Mutant: MapRows returns without closing the pipe.
CancelledLeavesPipe ==
    /\ reader = "rows" /\ buf # <<>>
    /\ Fail(FALSE)
    /\ UNCHANGED <<job, seen, width, columns, batch, target, copier, sent, pipe, buf>>

\* The context is found cancelled when a line has been read.
Cancelled ==
    /\ reader = "rows" /\ buf # <<>>
    /\ Fail(TRUE)
    /\ UNCHANGED <<job, seen, width, columns, batch, target, copier, sent, pipe, buf>>

ScannerEnds ==
    /\ reader = "rows" /\ job.source = "pgsql"
    /\ buf = <<>> /\ pipe = <<>> /\ closed \in {"EOF", "error"}
    /\ IF closed = "EOF"
       THEN reader' = "mapped" /\ conn' = "pool" /\ UNCHANGED <<result, closed>>
       ELSE Fail(FALSE)
    /\ UNCHANGED <<job, seen, width, columns, batch, target, copier, sent, pipe, buf>>

----------------------------------------------------------------------------
(* MapRows of a CSV file *)

Trim(text) ==
    LET solid == {i \in 1..Len(text) : text[i] # "blank"} IN
    IF solid = {} THEN <<>>
    ELSE SubSeq(text, CHOOSE i \in solid : \A j \in solid : i <= j, CHOOSE i \in solid : \A j \in solid : i >= j)


\* applyNullIf trims every value; an empty one is NULL unless KeepNullIfs.
ApplyNullIf(text) ==
    IF (Trim(text) = <<>> /\ ~job.keep) \/ Trim(text) \in job.nullIf THEN Nil ELSE Str(Trim(text))
BuildRow(record) == [i \in 1..Len(record) |-> ApplyNullIf(record[i])]

NameIn(text) == IF Trim(text) = <<>> THEN "" ELSE Trim(text)[1]
IsCSV == job.source = "csv"
\* reader.Read: the first record fixes the number of fields of all.
Readable == seen < Len(job.rows) /\ (width = 0 \/ Len(job.rows[seen + 1]) = width)
Record == job.rows[seen + 1]
TakeRecord == seen' = seen + 1 /\ width' = Len(Record)

OpenFile ==
    /\ reader = "start" /\ IsCSV
    /\ reader' = "skip" /\ columns' = job.names
    /\ UNCHANGED <<job, seen, width, batch, target, result, copierVars>>

OpenFileFails ==
    /\ reader = "start" /\ IsCSV
    /\ Fail(FALSE)
    /\ UNCHANGED <<job, seen, width, columns, batch, target, copier, sent, pipe, buf>>

SkipLine ==
    /\ reader = "skip" /\ seen < job.skip /\ Readable
    /\ TakeRecord
    /\ UNCHANGED <<job, reader, columns, batch, target, result, copierVars>>

SkipEnds ==
    /\ reader = "skip" /\ seen = job.skip
    /\ reader' = IF job.header THEN "header" ELSE IF columns = <<>> THEN "first" ELSE "rows"
    /\ UNCHANGED <<job, seen, width, columns, batch, target, result, copierVars>>


ReadHeader ==
    /\ reader = "header" /\ Readable
    /\ TakeRecord
    /\ columns' = IF columns = <<>> THEN [i \in 1..Len(Record) |-> NameIn(Record[i])] ELSE columns
    /\ reader' = "rows"
    /\ UNCHANGED <<job, batch, target, result, copierVars>>

\* Without names the columns are called col_1 and so on.
ReadFirst ==
    /\ reader = "first" /\ Readable
    /\ columns' = [i \in 1..Len(Record) |-> "col_" \o ToString(i)]
    /\ reader' = "rows"
    /\ UNCHANGED <<job, seen, width, batch, target, result, copierVars>>

ReadRecord ==
    /\ reader = "rows" /\ IsCSV /\ Readable
    /\ TakeRecord
    /\ ProcessRow(FormatRowToCopyText(BuildRow(Record)))
    /\ UNCHANGED <<job, columns, copier, sent, pipe, buf>>

\* The end of the file is an error for the skipped lines and the header.
FileEnds ==
    /\ IsCSV /\ seen = Len(job.rows)
    /\ \/ reader \in {"rows", "first"} /\ reader' = "mapped" /\ UNCHANGED <<result, closed, conn>>
       \/ (reader = "header" \/ (reader = "skip" /\ seen < job.skip)) /\ Fail(FALSE)
    /\ UNCHANGED <<job, seen, width, columns, batch, target, copier, sent, pipe, buf>>

ReadFails ==
    /\ IsCSV /\ reader \in {"skip", "header", "first", "rows"}
    /\ seen < Len(job.rows) /\ ~Readable /\ (reader = "skip" => seen < job.skip)
    /\ Fail(FALSE)
    /\ UNCHANGED <<job, seen, width, columns, batch, target, copier, sent, pipe, buf>>

----------------------------------------------------------------------------

RowInit ==
    /\ job \in Jobs
    /\ reader = "start" /\ seen = 0 /\ width = 0 /\ columns = <<>>
    /\ batch = <<>> /\ target = <<>> /\ result = ""
    /\ copier = "off" /\ sent = 0 /\ pipe = <<>> /\ closed = "" /\ buf = <<>> /\ conn = "pool"

Copier == CopierWrites \/ CopierUnblocks \/ CopierEnds
Reader ==
    \/ Query \/ NextRow \/ RowsEnd \/ QueryFails
    \/ StartCopier \/ AcquireSourceFails \/ ScannerReads \/ ScannerLine \/ Cancelled \/ ScannerEnds
    \/ OpenFile \/ OpenFileFails \/ SkipLine \/ SkipEnds \/ ReadHeader \/ ReadFirst \/ ReadRecord
    \/ FileEnds \/ ReadFails
    \/ FlushFinal

RowNext == Copier \/ Reader

\* Goroutines are scheduled; the server goes on sending or the connection fails.
RowSpec == RowInit /\ [][RowNext]_rowVars /\ WF_rowVars(Copier) /\ WF_rowVars(Reader)

----------------------------------------------------------------------------
(* Properties *)

RowTypeOK ==
    /\ reader \in {"start", "skip", "header", "first", "rows", "mapped", "done"}
    /\ seen \in 0..Len(job.rows) /\ Len(batch) < BatchSize
    /\ result \in {"", "ok", "error"} /\ result # "" <=> reader = "done"
    /\ copier \in {"off", "copying", "writing", "ended"} /\ sent \in 0..Len(job.rows)
    /\ closed \in {"", "EOF", "error", "reader"} /\ conn \in {"pool", "held", "destroyed"}
    /\ conn = "held" => copier # "off" /\ reader = "rows"

\* The row that stands at place i of the batch, as MapRows handed it over.
HandedRow(row) == IF IsSQL THEN RowOf(row) ELSE IF IsCSV THEN BuildRow(row) ELSE RowSent(row)
Handed(i) == HandedRow(job.rows[seen - Len(batch) + i])
Printed(g) == IF g.kind = "string" THEN ValidUTF8(g.text)
              ELSE IF g.kind = "bytes" THEN <<"\\", "x">> \o [i \in 1..Len(g.text) |-> Hex(g.text[i])] ELSE g.text

CellOf(g) == IF g.kind = "nil" THEN NullCell ELSE TextCell(Printed(g))

\* Whatever the values, the server reads the rows of a batch with the columns
\* and NULLs they were written with: no character of a value ends a field or a
\* row or makes a NULL (FormatRowToCopyText, escapeCopyString, ScanLines).
RowsFramed ==
    LET r == ReadStream(FlattenSeq(batch)) IN
    result # "error" =>
    /\ Len(r) = Len(batch)
    /\ \A i \in 1..Len(batch) :
          /\ Len(r[i]) = Len(Handed(i))
          /\ \A j \in 1..Len(r[i]) : r[i][j] = CellOf(Handed(i)[j])

\* The values that the code is known to change or to have refused: unsigned
\* numbers beyond int64, unsigned serials, SQLite integers wider than declared,
\* zero dates, fractions of seconds and odd numbers of bits of MySQL, bytes that
\* are not text in SQLite, binary values of SQL Server and SQLite, and NUL.
Lossy(c, v) ==
    \/ c.source = "mysql" /\ c.unsigned /\ c.type = "bigint" /\ v.n \notin Signed(Bits.bigint)
    \/ c.source = "mysql" /\ c.unsigned /\ c.auto /\ v.n \notin Signed(Bits.serial)
    \/ c.source = "sqlite" /\ c.type \in Integral \ {"integer", "bigint"} /\ v.n \notin Signed(Bits[c.type])
    \/ c.type = "bit" /\ c.mod = "(3)"
    \/ c.type \in Dates /\ (v.text = <<"zero">> \/ (c.source = "mysql" /\ v.text = <<"day.f">>))
    \/ c.source # "mysql" /\ c.type \in Binary
    \/ /\ c.source # "mysql" \/ c.type \notin Binary \cup Texts \cup {"bit"}
       /\ \E i \in 1..Len(v.text) : v.text[i] \in {"NUL", "bad"}

LossyRow(row) == \E j \in 1..Len(row) : Lossy(job.cols[j], row[j])
Arrived(k) ==
    \A j \in 1..Len(job.table) : LET got == target[k][job.table[j]]
                                     want == Expected(job.cols[j], job.rows[k][j]) IN
        got.null = want.null /\ got.text = want.text

\* Of MySQL, SQL Server and SQLite every other value arrives as it was, through
\* driver, conversion, cast rule, transform and COPY, and none is refused.
ValuesArrive ==
    IsSQL /\ (\A k \in 1..Len(job.rows) : ~LossyRow(job.rows[k])) =>
        /\ \A k \in 1..Len(target) : Arrived(k)
        /\ CopyTaken(ReadStream(FlattenSeq(batch)))

\* What a CSV record should give under a column name.
FirstRecord == job.skip + (IF job.header THEN 1 ELSE 0)
Names ==
    IF job.names # <<>> THEN job.names
    ELSE IF job.header THEN [i \in 1..Len(job.rows[FirstRecord]) |-> NameIn(job.rows[FirstRecord][i])]
    ELSE [i \in 1..Len(job.rows[FirstRecord + 1]) |-> "col_" \o ToString(i)]
CSVCell(record, name) ==
    IF \E i \in 1..Len(Names) : Names[i] = name
    THEN LET text == Trim(record[CHOOSE i \in 1..Len(Names) : Names[i] = name]) IN
         IF (text = <<>> /\ ~job.keep) \/ text \in job.nullIf THEN NullValue ELSE Text(ValidUTF8(text))
    ELSE NullValue

\* Of a CSV file and of PostgreSQL every row arrives under the names of its
\* columns, in order, and a load that succeeds has all of them: no record is
\* lost to the lines skipped, the header or the peek at the first row.
RowsArrive ==
    /\ job.source = "pgsql" =>
          \A k \in 1..Len(target), j \in 1..Len(job.table) : target[k][job.table[j]] = job.rows[k][j]
    /\ IsCSV =>
          \A k \in 1..Len(target), j \in 1..Len(job.table) :
             target[k][job.table[j]] = CSVCell(job.rows[FirstRecord + k], job.table[j])
    /\ result = "ok" => Len(target) = Len(job.rows) - (IF IsCSV THEN FirstRecord ELSE 0)

\* A connection that is back in the source's pool is used by no goroutine: the
\* deferred Release of MapRows may run while CopyTo is working (maprows.go).
PooledIsIdle == conn = "pool" => copier \in {"off", "ended"}

TooLong ==
    \E k \in 1..Len(job.rows) :
        Len(FormatRowToCopyText([j \in 1..Len(job.rows[k]) |-> Str(job.rows[k][j].text)])) > MaxLine

\* Every load returns, and the goroutine of MapRows ends too, except when a row
\* was longer than the scanner takes: then it stays in its write for ever.
LoadAndCopierEnd ==
    <>[](reader = "done" /\ (copier \in {"off", "ended"} \/ (job.source = "pgsql" /\ TooLong)))

\* "ByteVectorToBytea converts binary data to PostgreSQL bytea hex format"
\* (transforms.go): a binary column of SQL Server arrives byte for byte. MapRows
\* has made a string of it before the transform, which then does nothing.
BinaryArrives ==
    \A k \in 1..Len(target), j \in 1..Len(job.table) :
        job.source = "mssql" /\ job.cols[j].type \in Binary =>
            target[k][job.table[j]].text = job.rows[k][j].text
=============================================================================
