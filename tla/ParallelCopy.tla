---------------------------- MODULE ParallelCopy ----------------------------
(***************************************************************************)
(* Loading the data of one table: orchestrator.copyWithConcurrency, the     *)
(* pipelines it runs (one goroutine per shard, pipeline.Run and flush), the *)
(* batches they fill (copy.Batch, FlushBatch), the connection pool and the  *)
(* context they share, and the monitor they report to, up to mon.Stop in    *)
(* cmd/pgloader. A table loaded by a single sequential pipeline is the case *)
(* of one shard.                                                            *)
(*                                                                          *)
(* A row is an element of Row and ShardRows[s] the rows shard s reads, in   *)
(* the order the source returns them. COPY of a batch is one statement      *)
(* outside any transaction: the server commits all of the batch or nothing. *)
(* The outside world chooses: the source, the pool and the server may fail  *)
(* at any call, the user may interrupt (SIGINT cancels the root context),   *)
(* and a connection lost, or a context cancelled, while COPY is in flight   *)
(* hides from the client whether the server committed.                      *)
(***************************************************************************)
EXTENDS Monitor, Integers, FiniteSets

CONSTANTS
    Shard,        \* the shards of the table, one goroutine each
    Row,          \* the rows of the source table
    ShardRows,    \* ShardRows[s]: the sequence of rows that shard s reads
    RowBytes,     \* RowBytes[r]: length of row r in COPY text
    BatchSize,    \* Config.BatchSize, rows
    BatchBytes,   \* Config.BatchBytes
    MaxConns,     \* connections the target pool may open
    Table         \* the name events are filed under

ASSUME ShardAssumption ==
    /\ IsFiniteSet(Shard)
    /\ ShardRows \in [Shard -> Seq(Row)]
    /\ Table \in TableNames

ASSUME SizeAssumption ==
    /\ RowBytes \in [Row -> Nat]
    /\ BatchSize \in Nat \ {0}
    /\ BatchBytes \in Nat \ {0}
    /\ MaxConns \in Nat \ {0}

\* The shards read disjoint parts of the table and miss none of it: what
\* module Sharding shows of the ranges that ConcurrencySupport computes.
ASSUME PartitionAssumption ==
    /\ \A s, t \in Shard : \A i \in DOMAIN ShardRows[s], j \in DOMAIN ShardRows[t] :
          ShardRows[s][i] = ShardRows[t][j] => s = t /\ i = j
    /\ \A r \in Row : \E s \in Shard : \E i \in DOMAIN ShardRows[s] : ShardRows[s][i] = r

VARIABLES
    pc,           \* where each shard's goroutine is
    next,         \* rows each shard has taken from its source
    batch,        \* each pipeline's batch
    drained,      \* the shards whose MapRows has returned nil
    err,          \* what pipe.Run returns, "nil" unless it failed
    conns,        \* the shards that hold a connection of the target pool
    target,       \* copies of each source row committed in the target table
    errCh,        \* the buffered error channel of copyWithConcurrency
    cancels,      \* who cancelled the shards' context: "user" (SIGINT or SIGTERM
                  \* on the root context), "shard" (a call of cancel)
    main,         \* the goroutine that waits for the shards and stops the monitor
    result        \* what copyWithConcurrency returned

pipeVars == <<pc, next, batch, drained, err, conns, target>>
mainVars == <<errCh, main, result>>
vars == <<pipeVars, mainVars, cancels, monitorVars>>

PC == {"start", "acquire", "read", "flush", "copy", "written", "rejected",
       "end", "return", "report", "cancel", "done"}

Failure == {"acquire", "source", "copy", "canceled"}

Batch == [data : Seq(Row), rowCount : Nat, byteCount : Nat]

----------------------------------------------------------------------------
(* The batch *)

EmptyBatch == [data |-> <<>>, rowCount |-> 0, byteCount |-> 0]

AddRow(b, r) ==
    [data      |-> Append(b.data, r),
     rowCount  |-> b.rowCount + 1,
     byteCount |-> b.byteCount + RowBytes[r]]

Full(b) == b.rowCount >= BatchSize \/ b.byteCount >= BatchBytes

\* Mutant: Reset forgets the data slice, so the next COPY sends old rows too.
ResetCountersOnly(b) == [b EXCEPT !.rowCount = 0, !.byteCount = 0]

Reset(b) == EmptyBatch

\* Mutant: the remaining rows are flushed only if they fill a batch.
HasFullRemainder(b) == Full(b)

HasRemainder(b) == b.rowCount > 0

----------------------------------------------------------------------------
(* The context: done when SIGINT cancels the root or a shard calls cancel. *)

CtxDone == cancels # {}

CtxErr == IF CtxDone THEN {"canceled"} ELSE {}

Goto(s, label) == pc' = [pc EXCEPT ![s] = label]

FailWith(s, e, label) == err' = [err EXCEPT ![s] = e] /\ Goto(s, label)

Evt(type, n) == [type |-> type, table |-> Table, count |-> n]

----------------------------------------------------------------------------
(* pipeline.Run for shard s *)

Start(s) ==
    /\ pc[s] = "start"
    /\ Send(Evt("start", 0))
    /\ Goto(s, "acquire")
    /\ UNCHANGED <<next, batch, drained, err, conns, target, mainVars, cancels>>

\* pool.Acquire blocks while every connection is out.
Acquire(s) ==
    /\ pc[s] = "acquire"
    /\ ~CtxDone
    /\ Cardinality(conns) < MaxConns
    /\ conns' = conns \cup {s}
    /\ Goto(s, "read")
    /\ UNCHANGED <<next, batch, drained, err, target, mainVars, cancels, monitorVars>>

\* A pool with room may fail to connect. An exhausted one answers nothing until
\* a connection comes back or the context is done.
PoolErr == IF Cardinality(conns) < MaxConns THEN {"acquire"} ELSE {}

AcquireFails(s) ==
    /\ pc[s] = "acquire"
    /\ \E e \in PoolErr \cup CtxErr : FailWith(s, e, "return")
    /\ UNCHANGED <<next, batch, drained, conns, target, mainVars, cancels, monitorVars>>

\* One call of the row callback that MapRows makes.
ProcessRow(s) ==
    /\ pc[s] = "read"
    /\ ~CtxDone
    /\ next[s] < Len(ShardRows[s])
    /\ next' = [next EXCEPT ![s] = @ + 1]
    /\ LET b == AddRow(batch[s], ShardRows[s][next[s] + 1])
       IN  /\ batch' = [batch EXCEPT ![s] = b]
           /\ Goto(s, IF Full(b) THEN "flush" ELSE "read")
    /\ UNCHANGED <<drained, err, conns, target, mainVars, cancels, monitorVars>>

\* The source query fails, or it or the callback sees the context done.
MapRowsFails(s) ==
    /\ pc[s] = "read"
    /\ \E e \in {"source"} \cup CtxErr : FailWith(s, e, "return")
    /\ UNCHANGED <<next, batch, drained, conns, target, mainVars, cancels, monitorVars>>

MapRowsEnds(s) ==
    /\ pc[s] = "read"
    /\ next[s] = Len(ShardRows[s])
    /\ drained' = drained \cup {s}
    /\ Goto(s, IF HasRemainder(batch[s]) THEN "flush" ELSE "end")
    /\ UNCHANGED <<next, batch, err, conns, target, mainVars, cancels, monitorVars>>

----------------------------------------------------------------------------
(* pipeline.flush and copy.FlushBatch for shard s *)

BeginCopy(s) ==
    /\ pc[s] = "flush"
    /\ ~CtxDone
    /\ Goto(s, "copy")
    /\ UNCHANGED <<next, batch, drained, err, conns, target, mainVars, cancels, monitorVars>>

\* CopyFrom refuses a context that is already done before it sends a byte.
CopyRefused(s) ==
    /\ pc[s] = "flush"
    /\ CtxDone
    /\ FailWith(s, "canceled", "rejected")
    /\ UNCHANGED <<next, batch, drained, conns, target, mainVars, cancels, monitorVars>>

\* The rows of COPY's data, each as often as it stands there, are in the table.
Load(data) ==
    [r \in Row |-> target[r] + Cardinality({i \in DOMAIN data : data[i] = r})]

CopyCommits(s) ==
    /\ pc[s] = "copy"
    /\ target' = Load(batch[s].data)
    /\ Goto(s, "written")
    /\ UNCHANGED <<next, batch, drained, err, conns, mainVars, cancels, monitorVars>>

\* The server rejects the batch, or the answer is lost: in the second case
\* the server may have committed.
CopyFails(s) ==
    /\ pc[s] = "copy"
    /\ \E e \in {"copy"} \cup CtxErr : FailWith(s, e, "rejected")
    /\ target' \in {target, Load(batch[s].data)}
    /\ UNCHANGED <<next, batch, drained, conns, mainVars, cancels, monitorVars>>

WriteCount(s) == batch[s].rowCount

ReportWrite(s) ==
    /\ pc[s] = "written"
    /\ Send(Evt("write", WriteCount(s)))
    /\ IF s \in drained
       THEN Goto(s, "end") /\ UNCHANGED batch
       ELSE Goto(s, "read") /\ batch' = [batch EXCEPT ![s] = Reset(@)]
    /\ UNCHANGED <<next, drained, err, conns, target, mainVars, cancels>>

ReportError(s) ==
    /\ pc[s] = "rejected"
    /\ Send(Evt("error", batch[s].rowCount))
    /\ Goto(s, "return")
    /\ UNCHANGED <<next, batch, drained, err, conns, target, mainVars, cancels>>

ReportEnd(s) ==
    /\ pc[s] = "end"
    /\ Send(Evt("end", 0))
    /\ Goto(s, "return")
    /\ UNCHANGED <<next, batch, drained, err, conns, target, mainVars, cancels>>

----------------------------------------------------------------------------
(* The goroutine around pipeline.Run in copyWithConcurrency *)

\* Mutant: nothing gives the connection back.
ReleaseNot(s) == conns

\* The deferred conn.Release of pipeline.Run.
Release(s) == conns \ {s}

Return(s) ==
    /\ pc[s] = "return"
    /\ conns' = Release(s)
    /\ Goto(s, IF err[s] = "nil" THEN "done" ELSE "report")
    /\ UNCHANGED <<next, batch, drained, err, target, mainVars, cancels, monitorVars>>

\* Mutant: room for one error only.
ErrChCapOne == 1

\* make(chan error, len(shards)): nobody receives until all shards are done.
ErrChCap == Cardinality(Shard)

ReportFailure(s) ==
    /\ pc[s] = "report"
    /\ Len(errCh) < ErrChCap
    /\ errCh' = Append(errCh, err[s])
    /\ Goto(s, "cancel")
    /\ UNCHANGED <<next, batch, drained, err, conns, target, main, result,
                   cancels, monitorVars>>

Cancel(s) ==
    /\ pc[s] = "cancel"
    /\ cancels' = cancels \cup {"shard"}
    /\ Goto(s, "done")
    /\ UNCHANGED <<next, batch, drained, err, conns, target, mainVars,
                   monitorVars>>

Pipe(s) ==
    \/ Start(s) \/ Acquire(s) \/ AcquireFails(s)
    \/ ProcessRow(s) \/ MapRowsFails(s) \/ MapRowsEnds(s)
    \/ BeginCopy(s) \/ CopyRefused(s) \/ CopyCommits(s) \/ CopyFails(s)
    \/ ReportWrite(s) \/ ReportError(s) \/ ReportEnd(s)
    \/ Return(s) \/ ReportFailure(s) \/ Cancel(s)

----------------------------------------------------------------------------
(* The goroutine that called copyWithConcurrency *)

\* Mutant: the wait ends with the first shard.
SomeDone == \E s \in Shard : pc[s] = "done"

AllDone == \A s \in Shard : pc[s] = "done"

\* Mutant: the first error in the channel, whatever it is.
FirstReceived(q) == IF q = <<>> THEN "nil" ELSE q[1]

\* Mutant: a load that was only cancelled counts as done.
CancelIsSuccess(q) ==
    IF \E i \in DOMAIN q : q[i] # "canceled"
    THEN q[CHOOSE i \in DOMAIN q : q[i] # "canceled"]
    ELSE "nil"

\* The first error that is not the echo of a cancellation, else the first.
FirstError(q) ==
    LET causes == {i \in DOMAIN q : q[i] # "canceled"}
    IN  IF q = <<>> THEN "nil"
        ELSE IF causes = {} THEN q[1]
        ELSE q[CHOOSE i \in causes : \A j \in causes : i <= j]

\* wg.Wait, the choice of the error, and the deferred cancel.
WaitReturns ==
    /\ main = "wait"
    /\ AllDone
    /\ result' = FirstError(errCh)
    /\ cancels' = cancels \cup {"shard"}
    /\ main' = "stop"
    /\ UNCHANGED <<pipeVars, errCh, monitorVars>>

StopMonitor ==
    /\ main = "stop"
    /\ Close
    /\ main' = "join"
    /\ UNCHANGED <<pipeVars, errCh, cancels, result>>

JoinMonitor ==
    /\ main = "join"
    /\ loop = "returned"
    /\ main' = "exit"
    /\ UNCHANGED <<pipeVars, errCh, cancels, result, monitorVars>>

Main == WaitReturns \/ StopMonitor \/ JoinMonitor

Interrupt ==
    /\ main = "wait"
    /\ "user" \notin cancels
    /\ cancels' = cancels \cup {"user"}
    /\ UNCHANGED <<pipeVars, mainVars, monitorVars>>

MonitorLoop ==
    /\ Loop
    /\ UNCHANGED <<pipeVars, mainVars, cancels>>

\* The process has exited.
Terminated ==
    /\ main = "exit"
    /\ UNCHANGED vars

Init ==
    /\ pc = [s \in Shard |-> "start"]
    /\ next = [s \in Shard |-> 0]
    /\ batch = [s \in Shard |-> EmptyBatch]
    /\ drained = {}
    /\ err = [s \in Shard |-> "nil"]
    /\ conns = {}
    /\ target = [r \in Row |-> 0]
    /\ errCh = <<>>
    /\ cancels = {}
    /\ main = "wait"
    /\ result = "running"
    /\ MonitorInit

Next ==
    \/ \E s \in Shard : Pipe(s)
    \/ Main
    \/ Interrupt
    \/ MonitorLoop
    \/ Terminated

\* Goroutines are scheduled fairly and a call on a connection ends, with an
\* answer or with an error; a call of Acquire ends only if there is a connection
\* to have or the context is done. Nothing makes the user interrupt.
Fairness ==
    /\ \A s \in Shard : WF_vars(Pipe(s))
    /\ WF_vars(Main)
    /\ WF_vars(MonitorLoop)

Spec == Init /\ [][Next]_vars

FairSpec == Spec /\ Fairness

----------------------------------------------------------------------------
(* Properties *)

PipeTypeOK ==
    /\ pc \in [Shard -> PC]
    /\ next \in [Shard -> Nat]
    /\ batch \in [Shard -> Batch]
    /\ drained \in SUBSET Shard
    /\ err \in [Shard -> Failure \cup {"nil"}]
    /\ conns \in SUBSET Shard
    /\ target \in [Row -> Nat]
    /\ \A s \in Shard : /\ next[s] <= Len(ShardRows[s])
                        /\ Len(batch[s].data) = batch[s].rowCount
                        /\ batch[s].rowCount <= BatchSize

MainTypeOK ==
    /\ errCh \in Seq(Failure)
    /\ cancels \in SUBSET {"user", "shard"}
    /\ main \in {"wait", "stop", "join", "exit"}
    /\ result \in Failure \cup {"nil", "running"}

\* Types; and a batch never holds more than BatchSize rows, its counter
\* being the length of its data (Pipeline.Run's row callback and Reset).
TypeOK ==
    /\ MonitorTypeOK
    /\ PipeTypeOK
    /\ MainTypeOK

\* No source row is ever in the target twice: not through a batch that is
\* sent again, not through a COPY whose answer was lost.
NoDuplicates == \A r \in Row : target[r] <= 1

\* A load that reports no error has every row of the table in the target.
SuccessIsComplete == result = "nil" => \A r \in Row : target[r] = 1

\* What a shard has committed is always a prefix of what it reads: a failed
\* load loses a tail of each range, never rows from its middle.
PrefixCommitted ==
    \A s \in Shard : \A j \in DOMAIN ShardRows[s] : \A i \in 1..j :
        target[ShardRows[s][j]] > 0 => target[ShardRows[s][i]] > 0

\* When one shard's failure cancels the others, the load reports that
\* failure and not the cancellation it caused: "context canceled" is the
\* answer only when the user interrupted and nothing else went wrong.
RootCauseReported ==
    result = "canceled" =>
        "user" \in cancels /\ \A s \in Shard : err[s] \in {"nil", "canceled"}

\* When the load returns, each connection is back in the pool, on every path.
NoConnectionLeak == main # "wait" => conns = {}

\* Once copyWithConcurrency has returned no goroutine of it runs on: nothing
\* is written to the table and no event is sent to the closing monitor.
NothingRunsAfterReturn == [][main # "wait" => UNCHANGED <<pc, target>>]_vars

Loaded == {r \in Row : target[r] > 0}

\* Rows of a COPY that failed on the client and committed on the server.
Unacknowledged ==
    {r \in Loaded : \E s \in Shard :
        err[s] # "nil" /\ \E i \in DOMAIN batch[s].data : batch[s].data[i] = r}

\* The summary, printed once Stop has returned, counts every row written
\* except those whose COPY the client saw fail, and no other; a successful
\* load has an end event from every shard.
SummaryExact ==
    main = "exit" =>
        /\ stats[Table].written + Cardinality(Unacknowledged) = Cardinality(Loaded)
        /\ result = "nil" => stats[Table].ended = Cardinality(Shard)

\* Every load ends, with the monitor stopped: neither a full event channel,
\* nor errors nobody has received yet, nor a pool with fewer connections than
\* shards can block it for good. A shard that waits for a connection gets one
\* because those before it give theirs back on every path.
LoadEnds == <>(main = "exit")

LoadResult ==
    IF main = "wait" THEN "running" ELSE IF result = "nil" THEN "ok" ELSE "failed"

TL == INSTANCE TableLoad WITH result <- LoadResult

\* The load implements TableLoad: groups of missing rows appear, success is
\* reported only on a complete table, and nothing changes after the report.
ImplementsTableLoad == TL!Spec
=============================================================================
