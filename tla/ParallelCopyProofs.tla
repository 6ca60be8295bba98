------------------------- MODULE ParallelCopyProofs -------------------------
(***************************************************************************)
(* The safety of ParallelCopy for every set of shards, every partition of   *)
(* the rows among them, every batch limit and every size of pool and        *)
(* channel. IInv is the inductive invariant: who holds what at each label   *)
(* (ControlInv), which rows are in the target given what a shard has read   *)
(* and batched (DataInv), and where a cancellation comes from (CauseInv).   *)
(* SummaryInv adds to it what the monitor has been told and has counted.    *)
(***************************************************************************)
EXTENDS ParallelCopy, MonitorProofs, WellFoundedInduction

\* The labels before a pipeline has an error to return.
Healthy == {"start", "acquire", "read", "flush", "copy", "written", "end"}

\* Shard s has flushed all that it read, and read all there is.
Complete(s) == pc[s] = "end" \/ (pc[s] \in {"return", "done"} /\ err[s] = "nil")

Control(s) ==
    /\ pc[s] \in {"start", "acquire"} => batch[s] = EmptyBatch /\ next[s] = 0
    /\ pc[s] = "read" => batch[s].rowCount < BatchSize
    /\ pc[s] \in Healthy => err[s] = "nil"
    /\ pc[s] \in {"rejected", "report", "cancel"} => err[s] # "nil"
    /\ pc[s] \in {"start", "acquire", "read"} => s \notin drained
    /\ s \in drained => next[s] = Len(ShardRows[s])
    /\ Complete(s) => s \in drained
    /\ pc[s] \in {"start", "acquire", "report", "cancel", "done"} => s \notin conns

ControlInv == \A s \in Shard : Control(s)

\* The rows of s in batches already reset, that is, committed for certain.
Saved(s) == next[s] - Len(batch[s].data)

\* The batch is the stretch of the shard's rows from Saved(s) + 1 to next[s].
BatchIsTail(s) ==
    /\ Len(batch[s].data) <= next[s]
    /\ \A i \in 1..Len(batch[s].data) : batch[s].data[i] = ShardRows[s][Saved(s) + i]

\* Rows before the batch are loaded, rows after it are not, and those in it
\* are all loaded or all not.
TargetFollows(s) ==
    \A i \in DOMAIN ShardRows[s] :
        /\ i <= Saved(s) => target[ShardRows[s][i]] = 1
        /\ i > next[s] => target[ShardRows[s][i]] = 0
        /\ Saved(s) < i /\ i <= next[s] =>
              /\ target[ShardRows[s][i]] \in {0, 1}
              /\ pc[s] \in {"read", "flush", "copy"} => target[ShardRows[s][i]] = 0
              /\ pc[s] = "written" \/ Complete(s) => target[ShardRows[s][i]] = 1
              /\ \A j \in DOMAIN ShardRows[s] :
                    Saved(s) < j /\ j <= next[s] =>
                        target[ShardRows[s][j]] = target[ShardRows[s][i]]

DataInv == \A s \in Shard : BatchIsTail(s) /\ TargetFollows(s)

CauseInv ==
    /\ \A s \in Shard : pc[s] \in {"cancel", "done"} /\ err[s] # "nil" =>
                           \E i \in DOMAIN errCh : errCh[i] = err[s]
    /\ \A s \in Shard : err[s] = "canceled" => CtxDone
    /\ \A i \in DOMAIN errCh : errCh[i] = "canceled" => CtxDone
    /\ main = "wait" =>
          /\ "shard" \in cancels => "user" \in cancels \/ \E i \in DOMAIN errCh : errCh[i] # "canceled"
          /\ result = "running"
    /\ main # "wait" =>
          /\ AllDone
          /\ result = "nil" => \A s \in Shard : err[s] = "nil"
          /\ RootCauseReported

IInv == TypeOK /\ ControlInv /\ DataInv /\ CauseInv

----------------------------------------------------------------------------
(* Types *)

LEMMA EmptyBatchType ==
  /\ EmptyBatch \in Batch
  /\ EmptyBatch.rowCount = 0
  /\ Len(EmptyBatch.data) = 0
  BY DEF EmptyBatch, Batch

LEMMA InitType == Init => TypeOK
  <1> SUFFICES ASSUME Init PROVE TypeOK
    OBVIOUS
  <1>1. MonitorTypeOK
    BY EventCapAssumption
    DEF Init, MonitorInit, MonitorTypeOK, TableStats, NoStats, Event
  <1>2. batch \in [Shard -> Batch]
    BY EmptyBatchType DEF Init
  <1>3. \A s \in Shard : /\ next[s] <= Len(ShardRows[s])
                        /\ Len(batch[s].data) = batch[s].rowCount
                        /\ batch[s].rowCount <= BatchSize
    <2>1. \A s \in Shard : Len(ShardRows[s]) \in Nat
      BY ShardAssumption
    <2>2. QED
      BY <2>1, EmptyBatchType, SizeAssumption DEF Init
  <1>4. PipeTypeOK
    BY <1>2, <1>3 DEF Init, PipeTypeOK, PC
  <1>5. MainTypeOK
    BY DEF Init, MainTypeOK
  <1>6. QED
    BY <1>1, <1>4, <1>5 DEF TypeOK

\* COPY of a batch adds to each row a natural number of copies.
LEMMA LoadType ==
  ASSUME target \in [Row -> Nat], NEW data \in Seq(Row)
  PROVE  Load(data) \in [Row -> Nat]
  <1> SUFFICES ASSUME NEW r \in Row
               PROVE  Cardinality({i \in DOMAIN data : data[i] = r}) \in Nat
    BY DEF Load
  <1>1. IsFiniteSet(1..Len(data))
    BY FS_Interval
  <1>2. IsFiniteSet({i \in DOMAIN data : data[i] = r})
    BY <1>1, FS_Subset
  <1>3. QED
    BY <1>2, FS_CardinalityType

LEMMA EvtType ==
  ASSUME NEW type \in EventType, NEW n \in Nat
  PROVE  Evt(type, n) \in Event
  BY ShardAssumption DEF Evt, Event

\* What each step does to the monitor.
LEMMA MonitorStep ==
  ASSUME PipeTypeOK, [Next]_vars
  PROVE  (\E evt \in Event : Send(evt)) \/ Loop \/ Close \/ UNCHANGED monitorVars
  <1>1. ASSUME NEW s \in Shard, Pipe(s)
        PROVE  (\E evt \in Event : Send(evt)) \/ UNCHANGED monitorVars
    <2>1. batch[s].rowCount \in Nat
      BY DEF PipeTypeOK, Batch
    <2>2. CASE Start(s) \/ ReportEnd(s)
      BY <2>2, EvtType DEF Start, ReportEnd, EventType
    <2>3. CASE ReportWrite(s) \/ ReportError(s)
      BY <2>1, <2>3, EvtType DEF ReportWrite, ReportError, EventType, WriteCount
    <2>4. CASE Acquire(s) \/ AcquireFails(s) \/ ProcessRow(s) \/ MapRowsFails(s) \/ MapRowsEnds(s)
      BY <2>4 DEF Acquire, AcquireFails, ProcessRow, MapRowsFails, MapRowsEnds
    <2>5. CASE BeginCopy(s) \/ CopyRefused(s) \/ CopyCommits(s) \/ CopyFails(s)
      BY <2>5 DEF BeginCopy, CopyRefused, CopyCommits, CopyFails
    <2>6. CASE Return(s) \/ ReportFailure(s) \/ Cancel(s)
      BY <2>6 DEF Return, ReportFailure, Cancel
    <2>7. QED
      BY <1>1, <2>2, <2>3, <2>4, <2>5, <2>6 DEF Pipe
  <1>2. CASE Main
    BY <1>2 DEF Main, WaitReturns, StopMonitor, JoinMonitor
  <1>3. CASE Interrupt
    BY <1>3 DEF Interrupt
  <1>4. CASE MonitorLoop
    BY <1>4 DEF MonitorLoop
  <1>5. CASE UNCHANGED vars
    BY <1>5 DEF vars
  <1>6. QED
    BY <1>1, <1>2, <1>3, <1>4, <1>5 DEF Next, Terminated

LEMMA PipeTypeStep ==
  ASSUME PipeTypeOK, MainTypeOK, ControlInv, NEW s \in Shard, Pipe(s)
  PROVE  PipeTypeOK' /\ MainTypeOK'
  <1>1. CASE Start(s)
    BY <1>1 DEF Start, Goto, PipeTypeOK, MainTypeOK, PC, mainVars
  <1>2. CASE Acquire(s)
    BY <1>2 DEF Acquire, Goto, PipeTypeOK, MainTypeOK, PC, mainVars
  <1>3. CASE AcquireFails(s)
    BY <1>3 DEF AcquireFails, FailWith, Goto, PoolErr, CtxErr, Failure, PipeTypeOK, MainTypeOK, PC, mainVars
  <1>4. CASE ProcessRow(s)
    <2> DEFINE r == ShardRows[s][next[s] + 1]
               b == AddRow(batch[s], r)
    <2>1. r \in Row /\ RowBytes[r] \in Nat
      <3>1. ShardRows[s] \in Seq(Row) /\ next[s] \in Nat
        BY ShardAssumption DEF PipeTypeOK
      <3>2. next[s] + 1 \in 1..Len(ShardRows[s])
        BY <1>4, <3>1 DEF ProcessRow
      <3>3. QED
        BY <3>1, <3>2, SizeAssumption
    <2>2. /\ b \in Batch
          /\ Len(b.data) = b.rowCount
          /\ b.rowCount <= BatchSize
      <3>1. /\ batch[s].data \in Seq(Row)
            /\ batch[s].rowCount \in Nat
            /\ batch[s].byteCount \in Nat
            /\ Len(batch[s].data) = batch[s].rowCount
        BY DEF PipeTypeOK, Batch
      <3>2. batch[s].rowCount < BatchSize
        BY <1>4 DEF ProcessRow, ControlInv, Control
      <3>3. /\ Append(batch[s].data, r) \in Seq(Row)
            /\ Len(Append(batch[s].data, r)) = batch[s].rowCount + 1
        BY <2>1, <3>1
      <3>4. batch[s].rowCount + 1 <= BatchSize
        BY <3>1, <3>2, SizeAssumption
      <3>5. QED
        BY <2>1, <3>1, <3>3, <3>4 DEF AddRow, Batch
    <2>3. next' \in [Shard -> Nat] /\ \A t \in Shard : next'[t] <= Len(ShardRows[t])
      <3>1. \A t \in Shard : Len(ShardRows[t]) \in Nat
        BY ShardAssumption
      <3>2. QED
        BY <1>4, <3>1 DEF ProcessRow, PipeTypeOK
    <2> HIDE DEF b
    <2>4. pc' \in [Shard -> PC] /\ batch' = [batch EXCEPT ![s] = b]
      BY <1>4 DEF ProcessRow, Goto, PipeTypeOK, PC, b
    <2>5. QED
      BY <1>4, <2>2, <2>3, <2>4 DEF ProcessRow, PipeTypeOK, MainTypeOK, mainVars
  <1>5. CASE MapRowsFails(s)
    BY <1>5 DEF MapRowsFails, FailWith, Goto, CtxErr, Failure, PipeTypeOK, MainTypeOK, PC, mainVars
  <1>6. CASE MapRowsEnds(s)
    BY <1>6 DEF MapRowsEnds, Goto, PipeTypeOK, MainTypeOK, PC, mainVars
  <1>7. CASE BeginCopy(s)
    BY <1>7 DEF BeginCopy, Goto, PipeTypeOK, MainTypeOK, PC, mainVars
  <1>8. CASE CopyRefused(s)
    BY <1>8 DEF CopyRefused, FailWith, Goto, Failure, PipeTypeOK, MainTypeOK, PC, mainVars
  <1>9. batch[s].data \in Seq(Row)
    BY DEF PipeTypeOK, Batch
  <1>10. CASE CopyCommits(s)
    <2>1. target' \in [Row -> Nat]
      BY <1>9, <1>10, LoadType DEF CopyCommits, PipeTypeOK
    <2>2. QED
      BY <1>10, <2>1 DEF CopyCommits, Goto, PipeTypeOK, MainTypeOK, PC, mainVars
  <1>11. CASE CopyFails(s)
    <2>1. target' \in [Row -> Nat]
      BY <1>9, <1>11, LoadType DEF CopyFails, PipeTypeOK
    <2>2. QED
      BY <1>11, <2>1
      DEF CopyFails, FailWith, Goto, CtxErr, Failure, PipeTypeOK, MainTypeOK, PC, mainVars
  <1>12. CASE ReportWrite(s)
    <2>1. batch' \in [Shard -> Batch] /\ pc' \in [Shard -> PC]
      BY <1>12, EmptyBatchType DEF ReportWrite, Reset, Goto, PipeTypeOK, PC
    <2>2. \A t \in Shard : /\ Len(batch'[t].data) = batch'[t].rowCount
                           /\ batch'[t].rowCount <= BatchSize
      <3> SUFFICES ASSUME NEW t \in Shard
                   PROVE  /\ Len(batch'[t].data) = batch'[t].rowCount
                          /\ batch'[t].rowCount <= BatchSize
        OBVIOUS
      <3>1. batch'[t] = batch[t] \/ batch'[t] = EmptyBatch
        BY <1>12 DEF ReportWrite, Reset, PipeTypeOK
      <3>2. QED
        BY <3>1, EmptyBatchType, SizeAssumption DEF PipeTypeOK
    <2>3. UNCHANGED <<next, drained, err, conns, target, mainVars, cancels>>
      BY <1>12 DEF ReportWrite
    <2>4. MainTypeOK'
      BY <2>3 DEF MainTypeOK, mainVars
    <2>5. PipeTypeOK'
      BY <2>1, <2>2, <2>3 DEF PipeTypeOK
    <2>6. QED
      BY <2>4, <2>5
  <1>13. CASE ReportError(s)
    BY <1>13 DEF ReportError, Goto, PipeTypeOK, MainTypeOK, PC, mainVars
  <1>14. CASE ReportEnd(s)
    BY <1>14 DEF ReportEnd, Goto, PipeTypeOK, MainTypeOK, PC, mainVars
  <1>15. CASE Return(s)
    BY <1>15 DEF Return, Release, Goto, PipeTypeOK, MainTypeOK, PC, mainVars
  <1>16. CASE ReportFailure(s)
    <2>1. err[s] \in Failure
      BY <1>16 DEF ReportFailure, PipeTypeOK, ControlInv, Control
    <2>2. errCh' \in Seq(Failure)
      BY <1>16, <2>1 DEF ReportFailure, MainTypeOK
    <2>3. QED
      BY <1>16, <2>2 DEF ReportFailure, Goto, PipeTypeOK, MainTypeOK, PC
  <1>17. CASE Cancel(s)
    BY <1>17 DEF Cancel, Goto, PipeTypeOK, MainTypeOK, PC, mainVars
  <1>18. QED
    BY <1>1, <1>2, <1>3, <1>4, <1>5, <1>6, <1>7, <1>8, <1>10, <1>11, <1>12, <1>13,
       <1>14, <1>15, <1>16, <1>17 DEF Pipe

----------------------------------------------------------------------------
(* Control *)

LEMMA ControlStep ==
  ASSUME PipeTypeOK, ControlInv, NEW s \in Shard, Pipe(s)
  PROVE  ControlInv'
  <1> SUFFICES ASSUME NEW t \in Shard PROVE Control(t)'
    BY DEF ControlInv
  <1> USE DEF Control, Complete, Healthy, PipeTypeOK
  <1>1. Control(t) /\ Control(s)
    BY DEF ControlInv
  <1>2. CASE Start(s)
    BY <1>1, <1>2 DEF Start, Goto
  <1>3. CASE Acquire(s)
    BY <1>1, <1>3, EmptyBatchType, SizeAssumption DEF Acquire, Goto
  <1>4. CASE AcquireFails(s)
    BY <1>1, <1>4 DEF AcquireFails, FailWith, PoolErr, CtxErr, Goto
  <1>5. CASE ProcessRow(s)
    <2> DEFINE b == AddRow(batch[s], ShardRows[s][next[s] + 1])
    <2>1. batch' = [batch EXCEPT ![s] = b] /\ (~Full(b) => b.rowCount < BatchSize)
      BY <1>5, SizeAssumption DEF ProcessRow, AddRow, Full, Batch
    <2> HIDE DEF b
    <2>2. pc' = [pc EXCEPT ![s] = IF Full(b) THEN "flush" ELSE "read"]
      BY <1>5 DEF ProcessRow, Goto, b
    <2>3. UNCHANGED <<drained, err, conns>> /\ next'[t] = (IF t = s THEN next[s] + 1 ELSE next[t])
      BY <1>5 DEF ProcessRow
    <2>4. s \notin drained
      BY <1>1, <1>5 DEF ProcessRow
    <2>5. QED
      BY <1>1, <1>5, <2>1, <2>2, <2>3, <2>4 DEF ProcessRow
  <1>6. CASE MapRowsFails(s)
    BY <1>1, <1>6 DEF MapRowsFails, FailWith, CtxErr, Goto
  <1>7. CASE MapRowsEnds(s)
    BY <1>1, <1>7 DEF MapRowsEnds, HasRemainder, Goto
  <1>8. CASE BeginCopy(s)
    BY <1>1, <1>8 DEF BeginCopy, Goto
  <1>9. CASE CopyRefused(s)
    BY <1>1, <1>9 DEF CopyRefused, FailWith, Goto
  <1>10. CASE CopyCommits(s)
    BY <1>1, <1>10 DEF CopyCommits, Goto
  <1>11. CASE CopyFails(s)
    BY <1>1, <1>11 DEF CopyFails, FailWith, CtxErr, Goto
  <1>12. CASE ReportWrite(s)
    BY <1>1, <1>12, EmptyBatchType, SizeAssumption DEF ReportWrite, Reset, Goto
  <1>13. CASE ReportError(s)
    BY <1>1, <1>13 DEF ReportError, Goto
  <1>14. CASE ReportEnd(s)
    BY <1>1, <1>14 DEF ReportEnd, Goto
  <1>15. CASE Return(s)
    BY <1>1, <1>15 DEF Return, Release, Goto
  <1>16. CASE ReportFailure(s)
    BY <1>1, <1>16 DEF ReportFailure, Goto
  <1>17. CASE Cancel(s)
    BY <1>1, <1>17 DEF Cancel, Goto
  <1>18. QED
    BY <1>2, <1>3, <1>4, <1>5, <1>6, <1>7, <1>8, <1>9, <1>10, <1>11, <1>12, <1>13, <1>14, <1>15, <1>16, <1>17 DEF Pipe

----------------------------------------------------------------------------
(* Data *)

\* COPY of a shard's batch adds one copy of each row of the batch, and none
\* of any other row of the table: the rows a shard reads are distinct.
LEMMA LoadOnce ==
  ASSUME PipeTypeOK, NEW s \in Shard, BatchIsTail(s),
         NEW t \in Shard, NEW i \in DOMAIN ShardRows[t]
  PROVE  Load(batch[s].data)[ShardRows[t][i]] =
           target[ShardRows[t][i]] + (IF t = s /\ Saved(s) < i /\ i <= next[s] THEN 1 ELSE 0)
  <1> DEFINE data == batch[s].data
             r == ShardRows[t][i]
             there == {j \in DOMAIN data : data[j] = r}
  <1>1. /\ data \in Seq(Row) /\ next[s] \in Nat /\ Len(data) \in Nat /\ Len(data) <= next[s]
        /\ next[s] <= Len(ShardRows[s])
        /\ ShardRows[s] \in Seq(Row) /\ ShardRows[t] \in Seq(Row)
        /\ DOMAIN data = 1..Len(data)
    BY ShardAssumption DEF PipeTypeOK, Batch, BatchIsTail
  <1>2. r \in Row /\ i \in 1..Len(ShardRows[t]) /\ target[r] \in Nat
    BY <1>1 DEF PipeTypeOK
  <1>3. Load(data)[r] = target[r] + Cardinality(there)
    BY <1>2 DEF Load
  <1>4. \A j \in DOMAIN data : data[j] = r <=> t = s /\ i = Saved(s) + j
    <2> SUFFICES ASSUME NEW j \in DOMAIN data
                 PROVE  data[j] = r <=> t = s /\ i = Saved(s) + j
      OBVIOUS
    <2>1. Saved(s) + j \in DOMAIN ShardRows[s]
      BY <1>1 DEF Saved
    <2>2. data[j] = ShardRows[s][Saved(s) + j]
      BY <1>1 DEF BatchIsTail
    <2>3. QED
      BY <2>1, <2>2, PartitionAssumption
  <1>5. CASE t = s /\ Saved(s) < i /\ i <= next[s]
    <2>1. i - Saved(s) \in DOMAIN data /\ i = Saved(s) + (i - Saved(s))
      BY <1>1, <1>2, <1>5 DEF Saved
    <2>2. \A j \in DOMAIN data : i = Saved(s) + j => j = i - Saved(s)
      BY <1>1, <1>2 DEF Saved
    <2>3. there = {i - Saved(s)}
      BY <1>4, <1>5, <2>1, <2>2
    <2>4. QED
      BY <1>2, <1>3, <1>5, <2>3, FS_Singleton
  <1>6. CASE ~(t = s /\ Saved(s) < i /\ i <= next[s])
    <2>1. \A j \in DOMAIN data : ~(t = s /\ i = Saved(s) + j)
      BY <1>1, <1>2, <1>6 DEF Saved
    <2>2. there = {}
      BY <1>4, <2>1
    <2>3. QED
      BY <1>2, <1>3, <1>6, <2>2, FS_EmptySet
  <1>7. QED
    BY <1>5, <1>6

\* A step that moves only labels and errors keeps the data of shard t in step.
LEMMA DataFrame ==
  ASSUME PipeTypeOK, NEW t \in Shard, BatchIsTail(t), TargetFollows(t),
         next'[t] = next[t], batch'[t] = batch[t], UNCHANGED target,
         pc'[t] \in {"read", "flush", "copy"} =>
            pc[t] \in {"read", "flush", "copy"} \/ Len(batch[t].data) = 0,
         pc'[t] = "written" \/ Complete(t)' =>
            pc[t] = "written" \/ Complete(t) \/ Len(batch[t].data) = 0
  PROVE  BatchIsTail(t)' /\ TargetFollows(t)'
  <1>1. Saved(t)' = Saved(t)
    BY DEF Saved
  <1>2. BatchIsTail(t)'
    BY <1>1 DEF BatchIsTail
  <1>3. ASSUME NEW i \in DOMAIN ShardRows[t], Saved(t) < i, i <= next[t]
        PROVE  Len(batch[t].data) # 0
    BY <1>3, ShardAssumption DEF Saved, PipeTypeOK
  <1>4. TargetFollows(t)'
    BY <1>1, <1>3 DEF TargetFollows
  <1>5. QED
    BY <1>2, <1>4

\* The commit of the batch of s, seen by any shard t, whether or not the
\* client hears of it.
LEMMA DataCommit ==
  ASSUME PipeTypeOK, NEW s \in Shard, NEW t \in Shard, pc[s] = "copy",
         BatchIsTail(s), TargetFollows(s), BatchIsTail(t), TargetFollows(t),
         target' = Load(batch[s].data), UNCHANGED <<next, batch>>,
         t # s => pc'[t] = pc[t] /\ (Complete(t)' = Complete(t)),
         t = s => pc'[t] \in {"written", "rejected"}
  PROVE  BatchIsTail(t)' /\ TargetFollows(t)'
  <1>1. Saved(t)' = Saved(t)
    BY DEF Saved
  <1>2. BatchIsTail(t)'
    BY <1>1 DEF BatchIsTail
  <1>3. CASE t # s
    <2>1. \A i \in DOMAIN ShardRows[t] : target'[ShardRows[t][i]] = target[ShardRows[t][i]]
      <3> SUFFICES ASSUME NEW i \in DOMAIN ShardRows[t]
                   PROVE  target'[ShardRows[t][i]] = target[ShardRows[t][i]]
        OBVIOUS
      <3>1. ShardRows[t] \in Seq(Row)
        BY ShardAssumption
      <3>2. target[ShardRows[t][i]] \in Nat
        BY <3>1 DEF PipeTypeOK
      <3>3. QED
        BY <1>3, <3>2, LoadOnce
    <2>2. TargetFollows(t)'
      BY <1>1, <1>3, <2>1 DEF TargetFollows
    <2>3. QED
      BY <1>2, <2>2
  <1>4. CASE t = s
    <2>1. ASSUME NEW i \in DOMAIN ShardRows[s]
          PROVE  /\ i <= Saved(s) => target'[ShardRows[s][i]] = 1
                 /\ i > next[s] => target'[ShardRows[s][i]] = 0
                 /\ Saved(s) < i /\ i <= next[s] => target'[ShardRows[s][i]] = 1
      <3>1. /\ ShardRows[s] \in Seq(Row) /\ batch[s].data \in Seq(Row) /\ next[s] \in Nat
        BY ShardAssumption DEF PipeTypeOK, Batch
      <3>2. i \in Int /\ Saved(s) \in Int /\ Saved(s) <= next[s]
        BY <3>1 DEF Saved
      <3>3. target'[ShardRows[s][i]] =
              target[ShardRows[s][i]] + (IF Saved(s) < i /\ i <= next[s] THEN 1 ELSE 0)
        BY LoadOnce
      <3>4. QED
        BY <3>1, <3>2, <3>3 DEF TargetFollows
    <2>2. TargetFollows(s)'
      <3>1. pc'[s] \in {"written", "rejected"}
        BY <1>4
      <3>2. QED
        BY <1>1, <1>4, <2>1, <3>1 DEF TargetFollows
    <2>3. QED
      BY <1>2, <1>4, <2>2
  <1>5. QED
    BY <1>3, <1>4

LEMMA DataStep ==
  ASSUME PipeTypeOK, ControlInv, DataInv, NEW s \in Shard, Pipe(s)
  PROVE  DataInv'
  <1> SUFFICES ASSUME NEW t \in Shard PROVE BatchIsTail(t)' /\ TargetFollows(t)'
    BY DEF DataInv
  <1> DEFINE Labels == /\ next'[t] = next[t] /\ batch'[t] = batch[t] /\ UNCHANGED target
                       /\ pc'[t] \in {"read", "flush", "copy"} =>
                             pc[t] \in {"read", "flush", "copy"} \/ Len(batch[t].data) = 0
                       /\ pc'[t] = "written" \/ Complete(t)' =>
                             pc[t] = "written" \/ Complete(t) \/ Len(batch[t].data) = 0
  <1>1. /\ Control(s) /\ Control(t)
        /\ BatchIsTail(s) /\ BatchIsTail(t)
        /\ TargetFollows(s) /\ TargetFollows(t)
    BY DEF ControlInv, DataInv
  <1>2. Labels => BatchIsTail(t)' /\ TargetFollows(t)'
    BY <1>1, DataFrame
  <1>3. CASE Start(s)
    <2>1. Labels
      BY <1>1, <1>3 DEF Start, Goto, Complete, Control, Healthy, PipeTypeOK
    <2>2. QED
      BY <1>2, <2>1
  <1>4. CASE Acquire(s)
    <2>1. Labels
      BY <1>1, <1>4, EmptyBatchType DEF Acquire, Goto, Complete, Control, Healthy, PipeTypeOK
    <2>2. QED
      BY <1>2, <2>1
  <1>5. CASE AcquireFails(s)
    <2>1. Labels
      BY <1>1, <1>5 DEF AcquireFails, FailWith, PoolErr, CtxErr, Goto, Complete, Control, Healthy, PipeTypeOK
    <2>2. QED
      BY <1>2, <2>1
  <1>6. CASE MapRowsFails(s)
    <2>1. Labels
      BY <1>1, <1>6 DEF MapRowsFails, FailWith, CtxErr, Goto, Complete, Control, Healthy, PipeTypeOK
    <2>2. QED
      BY <1>2, <2>1
  <1>7. CASE MapRowsEnds(s)
    <2>1. Labels
      BY <1>1, <1>7 DEF MapRowsEnds, HasRemainder, Goto, Complete, Control, Healthy, PipeTypeOK
    <2>2. QED
      BY <1>2, <2>1
  <1>8. CASE BeginCopy(s)
    <2>1. Labels
      BY <1>1, <1>8 DEF BeginCopy, Goto, Complete, Control, Healthy, PipeTypeOK
    <2>2. QED
      BY <1>2, <2>1
  <1>9. CASE CopyRefused(s)
    <2>1. Labels
      BY <1>1, <1>9 DEF CopyRefused, FailWith, Goto, Complete, Control, Healthy, PipeTypeOK
    <2>2. QED
      BY <1>2, <2>1
  <1>10. CASE ReportError(s)
    <2>1. Labels
      BY <1>1, <1>10 DEF ReportError, Goto, Complete, Control, Healthy, PipeTypeOK
    <2>2. QED
      BY <1>2, <2>1
  <1>11. CASE ReportEnd(s)
    <2>1. Labels
      BY <1>1, <1>11 DEF ReportEnd, Goto, Complete, Control, Healthy, PipeTypeOK
    <2>2. QED
      BY <1>2, <2>1
  <1>12. CASE Return(s)
    <2>1. Labels
      BY <1>1, <1>12 DEF Return, Goto, Complete, Control, Healthy, PipeTypeOK
    <2>2. QED
      BY <1>2, <2>1
  <1>13. CASE ReportFailure(s)
    <2>1. Labels
      BY <1>1, <1>13 DEF ReportFailure, Goto, Complete, Control, Healthy, PipeTypeOK
    <2>2. QED
      BY <1>2, <2>1
  <1>14. CASE Cancel(s)
    <2>1. Labels
      BY <1>1, <1>14 DEF Cancel, Goto, Complete, Control, Healthy, PipeTypeOK
    <2>2. QED
      BY <1>2, <2>1
  <1>15. CASE ProcessRow(s)
    <2>1. CASE t # s
      <3>1. Labels
        BY <1>15, <2>1 DEF ProcessRow, Goto, Complete, PipeTypeOK
      <3>2. QED
        BY <1>2, <3>1
    <2>2. CASE t = s
      <3> DEFINE r == ShardRows[s][next[s] + 1]
                 k == Len(batch[s].data)
      <3>1. /\ ShardRows[s] \in Seq(Row) /\ next[s] \in Nat /\ k \in Nat
            /\ batch[s].data \in Seq(Row) /\ k <= next[s]
        BY <1>1, ShardAssumption DEF PipeTypeOK, Batch, BatchIsTail
      <3>2. next[s] + 1 \in DOMAIN ShardRows[s] /\ r \in Row
        BY <1>15, <3>1 DEF ProcessRow
      <3>3. next'[s] = next[s] + 1 /\ batch'[s].data = Append(batch[s].data, r)
        BY <1>15 DEF ProcessRow, AddRow, PipeTypeOK
      <3>4. Len(batch'[s].data) = k + 1 /\ Saved(s)' = Saved(s) /\ Saved(s) \in Nat
        <4>1. Len(Append(batch[s].data, r)) = k + 1
          BY <3>1, <3>2
        <4>2. next[s] + 1 - (k + 1) = next[s] - k /\ next[s] - k \in Nat
          BY <3>1
        <4>3. Len(batch'[s].data) = k + 1
          BY <3>3, <4>1
        <4>4. Saved(s)' = next'[s] - Len(batch'[s].data) /\ Saved(s) = next[s] - k
          BY DEF Saved
        <4>5. Saved(s)' = next[s] - k
          BY <3>1, <3>3, <4>2, <4>3, <4>4
        <4>6. QED
          BY <4>2, <4>3, <4>4, <4>5
      <3>5. BatchIsTail(s)'
        <4>1. Len(batch'[s].data) <= next'[s]
          BY <3>1, <3>3, <3>4
        <4>2. ASSUME NEW i \in 1..(k + 1)
              PROVE  batch'[s].data[i] = ShardRows[s][Saved(s) + i]
          <5>1. CASE i \in 1..k
            <6>1. batch'[s].data[i] = batch[s].data[i]
              BY <3>1, <3>2, <3>3, <5>1
            <6>2. QED
              BY <1>1, <5>1, <6>1 DEF BatchIsTail
          <5>2. CASE i = k + 1
            <6>1. batch'[s].data[i] = r
              BY <3>1, <3>2, <3>3, <5>2
            <6>2. Saved(s) + i = next[s] + 1
              <7>1. next[s] - k + (k + 1) = next[s] + 1
                BY <3>1
              <7>2. QED
                BY <5>2, <7>1 DEF Saved
            <6>3. QED
              BY <6>1, <6>2
          <5>3. i \in 1..k \/ i = k + 1
            <6>1. k \in Nat /\ i \in 1..(k + 1)
              BY <3>1, <4>2
            <6> HIDE DEF k
            <6>2. QED
              BY <6>1
          <5>4. QED
            BY <5>1, <5>2, <5>3
        <4>3. QED
          BY <3>4, <4>1, <4>2 DEF BatchIsTail
      <3>6. TargetFollows(s)'
        <4>1. /\ target' = target /\ pc[s] = "read"
              /\ pc'[s] \in {"read", "flush"}
          BY <1>15 DEF ProcessRow, Goto, PipeTypeOK
        <4>2. ~(pc'[s] = "written" \/ Complete(s)')
          BY <4>1 DEF Complete
        <4>3. ASSUME NEW i \in DOMAIN ShardRows[s], Saved(s) < i, i <= next[s] + 1
              PROVE  target[ShardRows[s][i]] = 0
          BY <1>1, <3>1, <4>1, <4>3 DEF TargetFollows
        <4>4. ASSUME NEW i \in DOMAIN ShardRows[s], i > next[s] + 1
              PROVE  target[ShardRows[s][i]] = 0
          BY <1>1, <3>1, <4>4 DEF TargetFollows
        <4>5. ASSUME NEW i \in DOMAIN ShardRows[s], i <= Saved(s)
              PROVE  target[ShardRows[s][i]] = 1
          BY <1>1, <4>5 DEF TargetFollows
        <4>6. QED
          BY <3>3, <3>4, <4>1, <4>2, <4>3, <4>4, <4>5 DEF TargetFollows
      <3>7. QED
        BY <2>2, <3>5, <3>6
    <2>3. QED
      BY <2>1, <2>2
  <1>16. CASE CopyCommits(s)
    <2>1. target' = Load(batch[s].data) /\ pc[s] = "copy"
      BY <1>16 DEF CopyCommits
    <2>2. pc'[t] = (IF t = s THEN "written" ELSE pc[t]) /\ UNCHANGED <<next, batch, err>>
      BY <1>16 DEF CopyCommits, Goto, PipeTypeOK
    <2>3. QED
      BY <1>1, <2>1, <2>2, DataCommit DEF Complete
  <1>17. CASE CopyFails(s)
    <2>1. /\ pc[s] = "copy" /\ UNCHANGED <<next, batch>>
          /\ pc'[t] = (IF t = s THEN "rejected" ELSE pc[t])
          /\ t # s => err'[t] = err[t]
      BY <1>17 DEF CopyFails, FailWith, Goto, PipeTypeOK
    <2>2. CASE target' = target
      <3>1. Labels
        BY <2>1, <2>2 DEF Complete
      <3>2. QED
        BY <1>2, <3>1
    <2>3. CASE target' = Load(batch[s].data)
      BY <1>1, <2>1, <2>3, DataCommit DEF Complete
    <2>4. QED
      BY <1>17, <2>2, <2>3 DEF CopyFails
  <1>18. CASE ReportWrite(s)
    <2>1. /\ pc[s] = "written" /\ UNCHANGED <<next, target, err>>
          /\ t # s => batch'[t] = batch[t] /\ pc'[t] = pc[t]
          /\ s \in drained => batch'[s] = batch[s] /\ pc'[s] = "end"
          /\ s \notin drained => batch'[s] = EmptyBatch /\ pc'[s] = "read"
      BY <1>18 DEF ReportWrite, Reset, Goto, PipeTypeOK
    <2>2. CASE t # s \/ s \in drained
      <3>1. Labels
        BY <2>1, <2>2 DEF Complete
      <3>2. QED
        BY <1>2, <3>1
    <2>3. CASE t = s /\ s \notin drained
      <3>1. /\ next[s] \in Nat /\ Len(batch'[s].data) = 0
            /\ Saved(s)' = next[s]
        BY <2>1, <2>3, EmptyBatchType DEF Saved, PipeTypeOK
      <3>2. BatchIsTail(s)'
        BY <2>1, <3>1 DEF BatchIsTail
      <3>3. ASSUME NEW i \in DOMAIN ShardRows[s], i <= next[s]
            PROVE  target[ShardRows[s][i]] = 1
        <4>1. i \in Int /\ Saved(s) \in Int
          <5>1. /\ ShardRows[s] \in Seq(Row) /\ batch[s].data \in Seq(Row)
                /\ next[s] \in Nat
            BY ShardAssumption DEF PipeTypeOK, Batch
          <5>2. QED
            BY <5>1 DEF Saved
        <4>2. QED
          BY <1>1, <2>1, <3>3, <4>1 DEF TargetFollows
      <3>4. ASSUME NEW i \in DOMAIN ShardRows[s], i > next[s]
            PROVE  target[ShardRows[s][i]] = 0
        BY <1>1, <3>4 DEF TargetFollows
      <3>5. ASSUME NEW i \in DOMAIN ShardRows[s]
            PROVE  ~(next[s] < i /\ i <= next[s])
        BY <3>1, ShardAssumption
      <3>6. TargetFollows(s)'
        BY <2>1, <3>1, <3>3, <3>4, <3>5 DEF TargetFollows
      <3>7. QED
        BY <2>3, <3>2, <3>6
    <2>4. QED
      BY <2>2, <2>3
  <1>19. QED
    BY <1>3, <1>4, <1>5, <1>6, <1>7, <1>8, <1>9, <1>10, <1>11, <1>12, <1>13, <1>14, <1>15, <1>16, <1>17, <1>18 DEF Pipe

----------------------------------------------------------------------------
(* Errors and cancellation *)

\* A set of indices that is not empty has a smallest element.
LEMMA SmallestIndex ==
  ASSUME NEW n \in Nat, NEW S \in SUBSET (1..n), S # {}
  PROVE  \E i \in S : \A j \in S : i <= j
  <1> DEFINE Less == {ss \in Nat \X Nat : ss[1] < ss[2]}
  <1>1. Less = OpToRel(<, Nat)
    BY Zenon DEF OpToRel
  <1>2. IsWellFoundedOn(Less, Nat)
    BY <1>1, NatLessThanWellFounded, Zenon
  <1>3. S \subseteq Nat
    OBVIOUS
  <1> HIDE DEF Less
  <1>4. \E i \in S : \A j \in S : ~(<<j, i>> \in Less)
    BY <1>2, <1>3, WFMin, Zenon
  <1>5. ASSUME NEW i \in S, NEW j \in S, ~(<<j, i>> \in Less)
        PROVE  i <= j
    BY <1>3, <1>5 DEF Less
  <1>6. QED
    BY <1>4, <1>5

\* What FirstError picks: nothing from nothing, a cause if there is one.
LEMMA FirstErrorPick ==
  ASSUME NEW q \in Seq(Failure)
  PROVE  /\ FirstError(q) = "nil" <=> q = <<>>
         /\ FirstError(q) \in Failure \cup {"nil"}
         /\ FirstError(q) = "canceled" => \A i \in DOMAIN q : q[i] = "canceled"
  <1> DEFINE causes == {i \in DOMAIN q : q[i] # "canceled"}
             first == CHOOSE i \in causes : \A j \in causes : i <= j
  <1>1. DOMAIN q = 1..Len(q) /\ Len(q) \in Nat /\ \A i \in DOMAIN q : q[i] \in Failure
    OBVIOUS
  <1>2. q # <<>> => 1 \in DOMAIN q
    BY <1>1
  <1>3. causes # {} => first \in causes
    <2>1. ASSUME causes # {}
          PROVE  \E i \in causes : \A j \in causes : i <= j
      BY <1>1, <2>1, SmallestIndex
    <2>2. QED
      BY <2>1
  <1>4. FirstError(q) =
          IF q = <<>> THEN "nil" ELSE IF causes = {} THEN q[1] ELSE q[first]
    BY DEF FirstError
  <1>5. "nil" \notin Failure
    BY DEF Failure
  <1>6. CASE q = <<>>
    BY <1>1, <1>4, <1>6
  <1>7. CASE q # <<>> /\ causes = {}
    BY <1>1, <1>2, <1>4, <1>5, <1>7
  <1>8. CASE q # <<>> /\ causes # {}
    <2>1. first \in DOMAIN q /\ q[first] # "canceled"
      BY <1>3, <1>8
    <2> HIDE DEF first
    <2>2. FirstError(q) = q[first]
      BY <1>4, <1>8
    <2>3. QED
      BY <1>1, <1>5, <1>8, <2>1, <2>2
  <1>9. QED
    BY <1>6, <1>7, <1>8

LEMMA CauseStep ==
  ASSUME PipeTypeOK, MainTypeOK, ControlInv, CauseInv, NEW s \in Shard, Pipe(s)
  PROVE  CauseInv'
  <1> USE DEF PipeTypeOK, MainTypeOK
  <1>1. Control(s) /\ UNCHANGED <<main, result>>
    BY DEF ControlInv, Pipe, Start, Acquire, AcquireFails, ProcessRow, MapRowsFails, MapRowsEnds,
           BeginCopy, CopyRefused, CopyCommits, CopyFails, ReportWrite, ReportError, ReportEnd,
           Return, ReportFailure, Cancel, mainVars
  <1>2. pc[s] # "done" /\ main = "wait"
    <2>1. pc[s] # "done"
      BY DEF Pipe, Start, Acquire, AcquireFails, ProcessRow, MapRowsFails, MapRowsEnds,
             BeginCopy, CopyRefused, CopyCommits, CopyFails, ReportWrite, ReportError, ReportEnd,
             Return, ReportFailure, Cancel
    <2>2. QED
      BY <2>1 DEF CauseInv, AllDone
  <1>3. CASE /\ UNCHANGED <<errCh, cancels>>
             /\ \A t \in Shard : \/ err'[t] = err[t]
                                 \/ err'[t] # "canceled" /\ pc'[t] \notin {"cancel", "done"}
                                 \/ CtxDone /\ pc'[t] \notin {"cancel", "done"}
             /\ \A t \in Shard : pc'[t] \in {"cancel", "done"} =>
                                 pc[t] \in {"cancel", "done"} \/ err'[t] = "nil"
    <2>1. CtxDone' = CtxDone /\ UNCHANGED <<errCh, cancels, main, result>>
      BY <1>1, <1>3 DEF CtxDone
    <2>2. ASSUME NEW t \in Shard, pc'[t] \in {"cancel", "done"}, err'[t] # "nil"
          PROVE  \E i \in DOMAIN errCh : errCh[i] = err'[t]
      <3>1. pc[t] \in {"cancel", "done"} /\ err'[t] = err[t]
        BY <1>3, <2>2
      <3>2. QED
        BY <2>2, <3>1 DEF CauseInv
    <2>3. ASSUME NEW t \in Shard, err'[t] = "canceled"
          PROVE  CtxDone
      BY <1>3, <2>3 DEF CauseInv
    <2>4. QED
      BY <1>2, <2>1, <2>2, <2>3 DEF CauseInv
  <1>4. CASE Start(s) \/ Acquire(s) \/ ProcessRow(s) \/ MapRowsEnds(s) \/ BeginCopy(s)
    BY <1>3, <1>4 DEF Start, Acquire, ProcessRow, MapRowsEnds, BeginCopy, Goto, mainVars
  <1>5. CASE CopyCommits(s) \/ ReportWrite(s) \/ ReportError(s) \/ ReportEnd(s) \/ Return(s)
    BY <1>3, <1>5 DEF CopyCommits, ReportWrite, ReportError, ReportEnd, Return, Goto, mainVars
  <1>6. CASE AcquireFails(s) \/ MapRowsFails(s)
    BY <1>3, <1>6 DEF AcquireFails, MapRowsFails, FailWith, PoolErr, CtxErr, Goto, mainVars
  <1>7. CASE CopyRefused(s) \/ CopyFails(s)
    BY <1>3, <1>7 DEF CopyRefused, CopyFails, FailWith, CtxErr, Goto, mainVars
  <1>8. CASE ReportFailure(s)
    <2>1. /\ errCh' = Append(errCh, err[s]) /\ UNCHANGED <<err, cancels>>
          /\ pc'[s] = "cancel" /\ \A t \in Shard \ {s} : pc'[t] = pc[t]
          /\ err[s] \in Failure
      BY <1>1, <1>8 DEF ReportFailure, Goto, Control
    <2>2. /\ DOMAIN errCh \subseteq DOMAIN errCh'
          /\ \A i \in DOMAIN errCh : errCh'[i] = errCh[i]
          /\ Len(errCh) + 1 \in DOMAIN errCh' /\ errCh'[Len(errCh) + 1] = err[s]
      BY <2>1
    <2>3. ASSUME NEW t \in Shard, pc'[t] \in {"cancel", "done"}, err'[t] # "nil"
          PROVE  \E i \in DOMAIN errCh' : errCh'[i] = err'[t]
      <3>1. CASE t = s
        BY <2>1, <2>2, <3>1
      <3>2. CASE t # s
        <4>1. pc[t] \in {"cancel", "done"} /\ err[t] # "nil"
          BY <2>1, <2>3, <3>2
        <4>2. PICK i \in DOMAIN errCh : errCh[i] = err[t]
          BY <4>1 DEF CauseInv
        <4>3. i \in DOMAIN errCh' /\ errCh'[i] = err[t] /\ err' = err
          BY <2>1, <2>2, <4>2
        <4>4. QED
          BY <4>3
      <3>3. QED
        BY <3>1, <3>2
    <2>4. "shard" \in cancels' =>
             "user" \in cancels' \/ \E i \in DOMAIN errCh' : errCh'[i] # "canceled"
      BY <1>2, <2>1, <2>2 DEF CauseInv
    <2>5. \A i \in DOMAIN errCh' : errCh'[i] = "canceled" => CtxDone'
      BY <2>1 DEF CauseInv, CtxDone
    <2>6. QED
      BY <1>1, <1>2, <2>1, <2>3, <2>4, <2>5 DEF CauseInv, CtxDone
  <1>9. CASE Cancel(s)
    <2>1. /\ cancels' = cancels \cup {"shard"} /\ UNCHANGED <<err, errCh>>
          /\ pc[s] = "cancel" /\ err[s] # "nil"
          /\ \A t \in Shard \ {s} : pc'[t] = pc[t]
      BY <1>1, <1>9 DEF Cancel, Goto, Control, mainVars
    <2>2. "user" \in cancels \/ \E i \in DOMAIN errCh : errCh[i] # "canceled"
      BY <1>2, <2>1 DEF CauseInv, CtxDone
    <2>3. QED
      BY <1>1, <1>2, <2>1, <2>2 DEF CauseInv, CtxDone
  <1>10. QED
    BY <1>4, <1>5, <1>6, <1>7, <1>8, <1>9 DEF Pipe

\* The steps of the waiting goroutine, of the user and of the monitor.
LEMMA OtherStep ==
  ASSUME IInv, Main \/ Interrupt \/ MonitorLoop \/ UNCHANGED vars
  PROVE  PipeTypeOK' /\ MainTypeOK' /\ ControlInv' /\ DataInv' /\ CauseInv'
  <1>1. UNCHANGED pipeVars /\ UNCHANGED errCh
    BY DEF Main, WaitReturns, StopMonitor, JoinMonitor, Interrupt, MonitorLoop, vars, mainVars
  <1>2. PipeTypeOK' /\ ControlInv' /\ DataInv'
    <2>1. PipeTypeOK'
      BY <1>1 DEF IInv, TypeOK, PipeTypeOK, pipeVars
    <2>2. ASSUME NEW s \in Shard
          PROVE  Control(s)' /\ BatchIsTail(s)' /\ TargetFollows(s)'
      <3>1. UNCHANGED <<Saved(s), Complete(s)>>
        BY <1>1 DEF Saved, Complete, pipeVars
      <3>2. Control(s) /\ BatchIsTail(s) /\ TargetFollows(s)
        BY DEF IInv, ControlInv, DataInv
      <3>3. Control(s)'
        BY <1>1, <3>1, <3>2 DEF Control, pipeVars
      <3>4. BatchIsTail(s)' /\ TargetFollows(s)'
        BY <1>1, <3>1, <3>2 DEF BatchIsTail, TargetFollows, pipeVars
      <3>5. QED
        BY <3>3, <3>4
    <2>3. QED
      BY <2>1, <2>2 DEF ControlInv, DataInv
  <1>3. CauseInv /\ MainTypeOK
    BY DEF IInv, TypeOK
  <1>4. CASE WaitReturns
    <2>1. /\ errCh \in Seq(Failure) /\ main = "wait" /\ main' = "stop" /\ AllDone
          /\ result' = FirstError(errCh) /\ cancels' = cancels \cup {"shard"}
      BY <1>3, <1>4 DEF WaitReturns, MainTypeOK
    <2>2. MainTypeOK'
      BY <1>1, <1>3, <2>1, FirstErrorPick DEF MainTypeOK
    <2>3. \A s \in Shard : err[s] # "nil" => \E i \in DOMAIN errCh : errCh[i] = err[s]
      BY <1>3, <2>1 DEF CauseInv, AllDone
    <2>4. result' = "nil" => \A s \in Shard : err[s] = "nil"
      <3>1. result' = "nil" => errCh = <<>>
        BY <2>1, FirstErrorPick
      <3>2. errCh = <<>> => ~ \E i \in DOMAIN errCh : TRUE
        OBVIOUS
      <3>3. QED
        BY <2>3, <3>1, <3>2
    <2>5. ASSUME result' = "canceled"
          PROVE  "user" \in cancels /\ \A s \in Shard : err[s] \in {"nil", "canceled"}
      <3>1. errCh # <<>> /\ \A i \in DOMAIN errCh : errCh[i] = "canceled"
        BY <2>1, <2>5, FirstErrorPick
      <3>2. 1 \in DOMAIN errCh
        BY <2>1, <3>1
      <3>3. CtxDone
        BY <1>3, <3>1, <3>2 DEF CauseInv
      <3>4. "user" \in cancels
        BY <1>3, <2>1, <3>1, <3>3 DEF CauseInv, CtxDone, MainTypeOK
      <3>5. QED
        BY <2>3, <3>1, <3>4
    <2>6. AllDone' /\ RootCauseReported'
      BY <1>1, <2>1, <2>5 DEF AllDone, RootCauseReported, pipeVars
    <2>7. CauseInv'
      BY <1>1, <1>3, <2>1, <2>4, <2>6 DEF CauseInv, CtxDone, pipeVars
    <2>8. QED
      BY <1>2, <2>2, <2>7
  <1>5. CASE StopMonitor \/ JoinMonitor
    <2>1. /\ UNCHANGED <<errCh, cancels, result>> /\ main # "wait"
          /\ main' \in {"join", "exit"}
      BY <1>5 DEF StopMonitor, JoinMonitor
    <2>2. CauseInv' /\ MainTypeOK'
      BY <1>1, <1>3, <2>1
      DEF CauseInv, CtxDone, AllDone, RootCauseReported, MainTypeOK, pipeVars
    <2>3. QED
      BY <1>2, <2>2
  <1>6. CASE Interrupt
    <2>1. UNCHANGED mainVars /\ main = "wait" /\ cancels' = cancels \cup {"user"}
      BY <1>6 DEF Interrupt
    <2>2. CauseInv' /\ MainTypeOK'
      BY <1>1, <1>3, <2>1 DEF CauseInv, CtxDone, MainTypeOK, mainVars, pipeVars
    <2>3. QED
      BY <1>2, <2>2
  <1>7. CASE MonitorLoop \/ UNCHANGED vars
    <2>1. UNCHANGED mainVars /\ UNCHANGED cancels
      BY <1>7 DEF MonitorLoop, vars
    <2>2. CauseInv' /\ MainTypeOK'
      BY <1>1, <1>3, <2>1
      DEF CauseInv, CtxDone, AllDone, RootCauseReported, MainTypeOK, mainVars, pipeVars
    <2>3. QED
      BY <1>2, <2>2
  <1>8. QED
    BY <1>4, <1>5, <1>6, <1>7 DEF Main

----------------------------------------------------------------------------
(* The invariant *)

LEMMA InitInv == Init => IInv
  <1> SUFFICES ASSUME Init PROVE IInv
    OBVIOUS
  <1>1. TypeOK
    BY InitType
  <1>2. ControlInv
    BY DEF Init, ControlInv, Control, Complete
  <1>3. DataInv
    <2> SUFFICES ASSUME NEW s \in Shard PROVE BatchIsTail(s) /\ TargetFollows(s)
      BY DEF DataInv
    <2>1. /\ pc[s] = "start" /\ next[s] = 0 /\ Len(batch[s].data) = 0
          /\ Saved(s) = 0 /\ ShardRows[s] \in Seq(Row)
      BY EmptyBatchType, ShardAssumption DEF Init, Saved
    <2>2. \A i \in DOMAIN ShardRows[s] : i > 0 /\ target[ShardRows[s][i]] = 0
      BY <2>1 DEF Init
    <2>3. QED
      BY <2>1, <2>2 DEF BatchIsTail, TargetFollows
  <1>4. CauseInv
    BY DEF Init, CauseInv
  <1>5. QED
    BY <1>1, <1>2, <1>3, <1>4 DEF IInv

LEMMA NextInv == IInv /\ [Next]_vars => IInv'
  <1> SUFFICES ASSUME IInv, [Next]_vars PROVE IInv'
    OBVIOUS
  <1>1. /\ MonitorTypeOK /\ PipeTypeOK /\ MainTypeOK
        /\ ControlInv /\ DataInv /\ CauseInv
    BY DEF IInv, TypeOK
  <1>2. MonitorTypeOK'
    BY <1>1, MonitorStep, MonitorTypeStep
  <1>3. PipeTypeOK' /\ MainTypeOK' /\ ControlInv' /\ DataInv' /\ CauseInv'
    <2>1. CASE \E s \in Shard : Pipe(s)
      BY <1>1, <2>1, PipeTypeStep, ControlStep, DataStep, CauseStep
    <2>2. CASE Main \/ Interrupt \/ MonitorLoop \/ UNCHANGED vars
      BY <2>2, OtherStep
    <2>3. QED
      BY <2>1, <2>2 DEF Next, Terminated
  <1>4. QED
    BY <1>2, <1>3 DEF IInv, TypeOK

\* In every reachable state the inductive invariant holds: types, control,
\* the shape of each batch and of the target, and the origin of each error.
THEOREM Invariance == Spec => []IInv
  BY InitInv, NextInv, PTL DEF Spec

----------------------------------------------------------------------------
(* The properties *)

\* Every variable stays in its type, and no batch outgrows BatchSize, its
\* counter being the length of its data: Batch.AddRow, Reset, Pipeline.Run.
THEOREM TypeCorrect == Spec => []TypeOK
  BY Invariance, PTL DEF IInv

\* What TargetFollows says of one row of shard s.
LEMMA RowCopies ==
  ASSUME IInv, NEW s \in Shard, NEW i \in DOMAIN ShardRows[s]
  PROVE  /\ target[ShardRows[s][i]] \in {0, 1}
         /\ Complete(s) => target[ShardRows[s][i]] = 1
         /\ \A j \in 1..i : target[ShardRows[s][i]] = 1 => target[ShardRows[s][j]] = 1
  <1>1. /\ ShardRows[s] \in Seq(Row) /\ batch[s].data \in Seq(Row) /\ next[s] \in Nat
        /\ next[s] <= Len(ShardRows[s])
    BY ShardAssumption DEF IInv, TypeOK, PipeTypeOK, Batch
  <1>2. /\ DOMAIN ShardRows[s] = 1..Len(ShardRows[s]) /\ Len(ShardRows[s]) \in Nat
        /\ Saved(s) \in Int /\ Saved(s) <= next[s]
    BY <1>1 DEF Saved
  <1>3. TargetFollows(s) /\ Control(s)
    BY DEF IInv, DataInv, ControlInv
  <1>4. Complete(s) => next[s] = Len(ShardRows[s])
    BY <1>3 DEF Control
  <1>5. target[ShardRows[s][i]] \in {0, 1}
    BY <1>1, <1>2, <1>3 DEF TargetFollows
  <1>6. Complete(s) => target[ShardRows[s][i]] = 1
    BY <1>1, <1>2, <1>3, <1>4 DEF TargetFollows
  <1>7. ASSUME NEW j \in 1..i, target[ShardRows[s][i]] = 1
        PROVE  target[ShardRows[s][j]] = 1
    <2>1. j \in DOMAIN ShardRows[s] /\ j <= i /\ i <= next[s]
      BY <1>1, <1>2, <1>3, <1>7 DEF TargetFollows
    <2>2. CASE j <= Saved(s)
      BY <1>3, <2>1, <2>2 DEF TargetFollows
    <2>3. CASE Saved(s) < j
      <3>1. Saved(s) < i /\ j <= next[s]
        BY <1>1, <1>2, <2>1, <2>3
      <3>2. QED
        BY <1>3, <1>7, <2>1, <2>3, <3>1 DEF TargetFollows
    <2>4. QED
      BY <1>2, <2>1, <2>2, <2>3
  <1>8. QED
    BY <1>5, <1>6, <1>7

\* No row of the source is in the target twice, whatever fails and whoever
\* interrupts: each batch is copied once and the shards read disjoint rows.
THEOREM LoadsWithoutDuplicates == Spec => []NoDuplicates
  <1>1. IInv => NoDuplicates
    BY RowCopies, PartitionAssumption DEF NoDuplicates
  <1>2. QED
    BY <1>1, Invariance, PTL

\* copyWithConcurrency returns nil only when every source row was committed.
THEOREM SuccessMeansComplete == Spec => []SuccessIsComplete
  <1>1. ASSUME IInv, result = "nil", NEW s \in Shard
        PROVE  Complete(s)
    BY <1>1 DEF IInv, CauseInv, AllDone, Complete
  <1>2. IInv => SuccessIsComplete
    BY <1>1, RowCopies, PartitionAssumption DEF SuccessIsComplete
  <1>3. QED
    BY <1>2, Invariance, PTL

\* At every moment, also between failures, each shard has committed a prefix
\* of its range: batches go out in the order they were read.
THEOREM CommitsPrefixes == Spec => []PrefixCommitted
  <1>1. ASSUME IInv, NEW s \in Shard, NEW j \in DOMAIN ShardRows[s], NEW i \in 1..j,
               target[ShardRows[s][j]] > 0
        PROVE  target[ShardRows[s][i]] > 0
    <2>1. target[ShardRows[s][j]] = 1
      BY <1>1, RowCopies
    <2>2. target[ShardRows[s][i]] = 1
      BY <1>1, <2>1, RowCopies
    <2>3. QED
      BY <2>2
  <1>2. IInv => PrefixCommitted
    BY <1>1 DEF PrefixCommitted
  <1>3. QED
    BY <1>2, Invariance, PTL

\* A failure of one shard is never masked by the cancellations it causes.
THEOREM ReportsRootCause == Spec => []RootCauseReported
  <1>1. IInv => RootCauseReported
    BY DEF IInv, CauseInv, RootCauseReported
  <1>2. QED
    BY <1>1, Invariance, PTL

\* When copyWithConcurrency returns, every connection is back in the pool.
THEOREM ReleasesConnections == Spec => []NoConnectionLeak
  <1>1. IInv => NoConnectionLeak
    BY DEF IInv, CauseInv, AllDone, TypeOK, PipeTypeOK, ControlInv, Control, NoConnectionLeak
  <1>2. QED
    BY <1>1, Invariance, PTL

\* After the return no goroutine of the load takes a step: no row is written
\* and no event sent, so mon.Stop closes a channel that nobody sends to.
THEOREM QuietAfterReturn == Spec => NothingRunsAfterReturn
  <1>1. ASSUME IInv, [Next]_vars, main # "wait"
        PROVE  UNCHANGED <<pc, target>>
    <2>1. \A s \in Shard : pc[s] = "done"
      BY <1>1 DEF IInv, CauseInv, AllDone
    <2>2. ASSUME NEW s \in Shard PROVE ~Pipe(s)
      BY <2>1 DEF Pipe, Start, Acquire, AcquireFails, ProcessRow, MapRowsFails, MapRowsEnds,
                  BeginCopy, CopyRefused, CopyCommits, CopyFails, ReportWrite, ReportError,
                  ReportEnd, Return, ReportFailure, Cancel
    <2>3. QED
      BY <1>1, <2>2 DEF Next, Main, WaitReturns, StopMonitor, JoinMonitor, Interrupt,
                        MonitorLoop, Terminated, vars, pipeVars
  <1>2. IInv /\ [Next]_vars => [main # "wait" => UNCHANGED <<pc, target>>]_vars
    BY <1>1
  <1>3. QED
    BY <1>2, Invariance, PTL DEF Spec, NothingRunsAfterReturn

----------------------------------------------------------------------------
(* The summary *)

\* The rows of s whose COPY was reported as a success are its first Acked(s).
Acked(s) == IF Complete(s) THEN next[s] ELSE Saved(s)

AckedRows == {p \in Shard \X Nat : p[2] \in 1..Acked(p[1])}

EndedShards == {s \in Shard : pc[s] \in {"return", "done"} /\ err[s] = "nil"}

\* The monitor is told of every such row, and of every shard that ended, once;
\* it returns only when it has filed everything it was told.
SummaryInv ==
    /\ IsFiniteSet(AckedRows)
    /\ Countable("write", Table) /\ Credit("write", Table) = Cardinality(AckedRows)
    /\ Countable("end", Table) /\ Credit("end", Table) = Cardinality(EndedShards)
    /\ loop = "returned" => channel = "closed" /\ events = <<>>
    /\ main = "exit" => loop = "returned"

LEMMA TableCounts == /\ Table \in TableNames
                     /\ "write" \in CountedTypes /\ "end" \in CountedTypes
  BY ShardAssumption DEF CountedTypes

LEMMA EndedShardsFinite == IsFiniteSet(EndedShards) /\ Cardinality(EndedShards) \in Nat
  BY ShardAssumption, FS_Subset, FS_CardinalityType DEF EndedShards

LEMMA AckedType ==
  ASSUME IInv, NEW s \in Shard
  PROVE  Acked(s) \in Nat /\ Saved(s) \in Nat /\ Acked(s) <= Len(ShardRows[s])
  <1>1. /\ next[s] \in Nat /\ batch[s].data \in Seq(Row) /\ next[s] <= Len(ShardRows[s])
        /\ Len(batch[s].data) <= next[s] /\ Len(ShardRows[s]) \in Nat
    BY ShardAssumption DEF IInv, TypeOK, PipeTypeOK, Batch, DataInv, BatchIsTail
  <1>2. QED
    BY <1>1 DEF Acked, Saved

\* A report of a write acknowledges the rows of its batch, and nothing else
\* acknowledges a row or takes an acknowledgement back.
LEMMA AckedStep ==
  ASSUME IInv, NEW s \in Shard, Pipe(s), NEW t \in Shard
  PROVE  Acked(t)' = Acked(t) + (IF t = s /\ pc[s] = "written" THEN batch[s].rowCount ELSE 0)
  <1>1. /\ PipeTypeOK /\ Control(s) /\ Control(t) /\ Acked(t) \in Nat
        /\ Len(batch[s].data) = batch[s].rowCount /\ batch[s].data \in Seq(Row)
        /\ next[s] \in Nat /\ batch[s].rowCount \in Nat /\ batch[t].rowCount \in Nat
    BY AckedType DEF IInv, TypeOK, PipeTypeOK, ControlInv, Batch
  <1>2. CASE t # s
    <2>1. pc'[t] = pc[t] /\ err'[t] = err[t] /\ next'[t] = next[t] /\ batch'[t] = batch[t]
      BY <1>1, <1>2 DEF Pipe, Start, Acquire, AcquireFails, ProcessRow, MapRowsFails, MapRowsEnds,
                  BeginCopy, CopyRefused, CopyCommits, CopyFails, ReportWrite, ReportError,
                  ReportEnd, Return, ReportFailure, Cancel, FailWith, Goto, PipeTypeOK
    <2>2. QED
      BY <1>1, <1>2, <2>1 DEF Acked, Complete, Saved
  <1>3. CASE t = s
    <2> USE DEF Acked, Complete, Saved, Control, Healthy, FailWith, Goto, PipeTypeOK
    <2>1. CASE Start(s) \/ Acquire(s) \/ AcquireFails(s)
      <3>1. /\ pc[s] \in {"start", "acquire"} /\ next'[s] = next[s] /\ batch'[s] = batch[s]
            /\ pc'[s] \in {"acquire", "read"} \/ (pc'[s] = "return" /\ err'[s] # "nil")
        BY <1>1, <2>1 DEF Start, Acquire, AcquireFails, PoolErr, CtxErr
      <3>2. ~Complete(s) /\ ~Complete(s)'
        BY <3>1
      <3>3. QED
        BY <1>1, <1>3, <3>1, <3>2
    <2>2. CASE ProcessRow(s)
      <3> DEFINE b == AddRow(batch[s], ShardRows[s][next[s] + 1])
      <3>1. Len(b.data) = Len(batch[s].data) + 1
        BY <1>1 DEF AddRow
      <3> HIDE DEF b
      <3>2. batch'[s] = b /\ next'[s] = next[s] + 1 /\ pc[s] = "read" /\ pc'[s] \in {"read", "flush"}
        BY <1>1, <2>2 DEF ProcessRow, b
      <3>3. Acked(s) = next[s] - Len(batch[s].data) /\ Acked(s)' = next'[s] - Len(batch'[s].data)
        BY <3>2
      <3>4. Len(batch[s].data) \in Nat
        BY <1>1
      <3>5. QED
        BY <1>1, <1>3, <3>1, <3>2, <3>3, <3>4
    <2>3. CASE MapRowsFails(s)
      BY <1>1, <1>3, <2>3 DEF MapRowsFails, CtxErr
    <2>4. CASE MapRowsEnds(s)
      <3>1. pc[s] = "read" /\ next'[s] = next[s] /\ batch'[s] = batch[s]
        BY <2>4 DEF MapRowsEnds
      <3>2. pc'[s] = "flush" \/ (pc'[s] = "end" /\ batch[s].rowCount = 0)
        BY <1>1, <2>4 DEF MapRowsEnds, HasRemainder
      <3>3. Acked(s) = next[s] - Len(batch[s].data)
        BY <3>1
      <3>4. Acked(s)' = Acked(s)
        BY <1>1, <3>1, <3>2, <3>3
      <3>5. QED
        BY <1>1, <1>3, <3>1, <3>4
    <2>5. CASE BeginCopy(s) \/ CopyRefused(s) \/ CopyCommits(s) \/ CopyFails(s)
      BY <1>1, <1>3, <2>5 DEF BeginCopy, CopyRefused, CopyCommits, CopyFails, CtxErr
    <2>6. CASE ReportWrite(s)
      <3>1. pc[s] = "written" /\ next'[s] = next[s]
        BY <2>6 DEF ReportWrite
      <3>2. CASE s \in drained
        BY <1>1, <1>3, <2>6, <3>1, <3>2 DEF ReportWrite
      <3>3. CASE s \notin drained
        <4>1. Len(batch'[s].data) = 0 /\ pc'[s] = "read"
          BY <1>1, <2>6, <3>3, EmptyBatchType DEF ReportWrite, Reset
        <4>2. QED
          BY <1>1, <1>3, <3>1, <4>1
      <3>4. QED
        BY <3>2, <3>3
    <2>7. CASE ReportError(s) \/ ReportEnd(s) \/ Return(s)
      BY <1>1, <1>3, <2>7 DEF ReportError, ReportEnd, Return
    <2>8. CASE ReportFailure(s) \/ Cancel(s)
      BY <1>1, <1>3, <2>8 DEF ReportFailure, Cancel
    <2>9. QED
      BY <2>1, <2>2, <2>3, <2>4, <2>5, <2>6, <2>7, <2>8 DEF Pipe
  <1>4. QED
    BY <1>2, <1>3

\* The acknowledged rows grow by the length of the batch that is reported.
LEMMA AckedRowsStep ==
  ASSUME IInv, IsFiniteSet(AckedRows), NEW s \in Shard, Pipe(s)
  PROVE  /\ IsFiniteSet(AckedRows')
         /\ Cardinality(AckedRows') = Cardinality(AckedRows) + (IF pc[s] = "written" THEN batch[s].rowCount ELSE 0)
  <1>1. batch[s].rowCount \in Nat /\ Cardinality(AckedRows) \in Nat
    BY FS_CardinalityType DEF IInv, TypeOK, PipeTypeOK, Batch
  <1>2. \A t \in Shard : Acked(t) \in Nat
    BY AckedType
  <1>3. CASE pc[s] # "written"
    <2>1. \A t \in Shard : Acked(t)' = Acked(t)
      BY <1>2, <1>3, AckedStep
    <2>2. AckedRows' = AckedRows
      BY <2>1 DEF AckedRows
    <2>3. QED
      BY <1>1, <1>3, <2>2
  <1>4. CASE pc[s] = "written"
    <2> DEFINE a == Acked(s)
               k == batch[s].rowCount
               new == {s} \X ((a + 1)..(a + k))
    <2>1. \A t \in Shard : Acked(t)' = Acked(t) + (IF t = s THEN k ELSE 0)
      BY <1>4, AckedStep
    <2>2. a \in Nat /\ k \in Nat
      BY <1>1, <1>2
    <2>3. AckedRows' = AckedRows \cup new
      BY <1>2, <2>1, <2>2 DEF AckedRows
    <2>4. AckedRows \cap new = {}
      BY <2>2 DEF AckedRows
    <2>5. IsFiniteSet(new) /\ Cardinality(new) = k
      <3> HIDE DEF a, k
      <3>1. IsFiniteSet({s}) /\ Cardinality({s}) = 1
        BY FS_Singleton
      <3>2. IsFiniteSet((a + 1)..(a + k)) /\ Cardinality((a + 1)..(a + k)) = k
        BY <2>2, FS_Interval
      <3>3. IsFiniteSet(new) /\ Cardinality(new) = Cardinality({s}) * Cardinality((a + 1)..(a + k))
        BY <3>1, <3>2, FS_Product
      <3>4. 1 * k = k
        BY <2>2
      <3>5. QED
        BY <3>1, <3>2, <3>3, <3>4
    <2> HIDE DEF a, k, new
    <2>6. /\ IsFiniteSet(AckedRows \cup new)
          /\ Cardinality(AckedRows \cup new) = Cardinality(AckedRows) + Cardinality(new) - Cardinality({})
      BY <2>4, <2>5, FS_Union
    <2>7. QED
      BY <1>1, <1>4, <2>2, <2>3, <2>5, <2>6, FS_EmptySet DEF k
  <1>5. QED
    BY <1>3, <1>4

\* What a shard's step sends, and how the shards that ended change.
LEMMA PipeReports ==
  ASSUME IInv, NEW s \in Shard, Pipe(s)
  PROVE  \/ /\ UNCHANGED monitorVars /\ pc[s] \notin {"written", "end"}
            /\ EndedShards' = EndedShards
         \/ \E evt \in Event :
              /\ Send(evt)
              /\ Amount(evt, "write", Table) = (IF pc[s] = "written" THEN batch[s].rowCount ELSE 0)
              /\ Amount(evt, "end", Table) = (IF pc[s] = "end" THEN 1 ELSE 0)
              /\ EndedShards' = (IF pc[s] = "end" THEN EndedShards \cup {s} ELSE EndedShards)
              /\ pc[s] = "end" => s \notin EndedShards
  <1>1. PipeTypeOK /\ Control(s) /\ batch[s].rowCount \in Nat
    BY DEF IInv, TypeOK, PipeTypeOK, ControlInv, Batch
  <1>2. ASSUME NEW type \in EventType, NEW n \in Nat
        PROVE  /\ Evt(type, n) \in Event
               /\ Amount(Evt(type, n), "write", Table) = (IF type = "write" THEN n ELSE 0)
               /\ Amount(Evt(type, n), "end", Table) = (IF type = "end" THEN 1 ELSE 0)
    BY EvtType DEF Evt, Amount
  <1> USE DEF EndedShards, Goto, FailWith, PipeTypeOK
  <1>3. CASE Start(s)
    <2>1. Send(Evt("start", 0)) /\ pc[s] = "start" /\ EndedShards' = EndedShards
      BY <1>1, <1>3 DEF Start
    <2>2. QED
      BY <1>2, <2>1 DEF EventType
  <1>4. CASE ReportWrite(s)
    <2>1. Send(Evt("write", batch[s].rowCount)) /\ pc[s] = "written" /\ EndedShards' = EndedShards
      BY <1>1, <1>4 DEF ReportWrite, WriteCount
    <2>2. QED
      BY <1>1, <1>2, <2>1 DEF EventType
  <1>5. CASE ReportError(s)
    <2>1. Send(Evt("error", batch[s].rowCount)) /\ pc[s] = "rejected"
      BY <1>5 DEF ReportError
    <2>2. EndedShards' = EndedShards
      BY <1>1, <1>5 DEF ReportError, Control
    <2>3. QED
      BY <1>1, <1>2, <2>1, <2>2 DEF EventType
  <1>6. CASE ReportEnd(s)
    <2>1. Send(Evt("end", 0)) /\ pc[s] = "end" /\ s \notin EndedShards
      BY <1>6 DEF ReportEnd
    <2>2. EndedShards' = EndedShards \cup {s}
      BY <1>1, <1>6 DEF ReportEnd, Control, Healthy
    <2>3. QED
      BY <1>2, <2>1, <2>2 DEF EventType
  <1>7. CASE Acquire(s) \/ AcquireFails(s) \/ ProcessRow(s)
    <2>1. UNCHANGED monitorVars /\ pc[s] \in {"acquire", "read"}
      BY <1>7 DEF Acquire, AcquireFails, ProcessRow
    <2>2. EndedShards' = EndedShards
      BY <1>1, <1>7 DEF Acquire, AcquireFails, ProcessRow, PoolErr, CtxErr
    <2>3. QED
      BY <2>1, <2>2
  <1>8. CASE MapRowsFails(s) \/ MapRowsEnds(s)
    <2>1. UNCHANGED monitorVars /\ pc[s] = "read"
      BY <1>8 DEF MapRowsFails, MapRowsEnds
    <2>2. EndedShards' = EndedShards
      BY <1>1, <1>8 DEF MapRowsFails, MapRowsEnds, CtxErr
    <2>3. QED
      BY <2>1, <2>2
  <1>9. CASE BeginCopy(s) \/ CopyRefused(s) \/ CopyCommits(s) \/ CopyFails(s)
    <2>1. UNCHANGED monitorVars /\ pc[s] \in {"flush", "copy"}
      BY <1>9 DEF BeginCopy, CopyRefused, CopyCommits, CopyFails
    <2>2. EndedShards' = EndedShards
      BY <1>1, <1>9 DEF BeginCopy, CopyRefused, CopyCommits, CopyFails
    <2>3. QED
      BY <2>1, <2>2
  <1>10. CASE Return(s) \/ ReportFailure(s) \/ Cancel(s)
    <2>1. UNCHANGED monitorVars /\ pc[s] \in {"return", "report", "cancel"}
      BY <1>10 DEF Return, ReportFailure, Cancel
    <2>2. EndedShards' = EndedShards
      BY <1>1, <1>10 DEF Return, ReportFailure, Cancel, Control
    <2>3. QED
      BY <2>1, <2>2
  <1>11. QED
    BY <1>3, <1>4, <1>5, <1>6, <1>7, <1>8, <1>9, <1>10 DEF Pipe

LEMMA SummaryStep ==
  ASSUME IInv, SummaryInv, [Next]_vars
  PROVE  SummaryInv'
  <1>1. MonitorTypeOK
    BY DEF IInv, TypeOK
  <1>2. CASE \E s \in Shard : Pipe(s)
    <2>1. PICK s \in Shard : Pipe(s)
      BY <1>2
    <2>2. UNCHANGED <<main, loop, channel>>
      BY <2>1 DEF Pipe, Start, Acquire, AcquireFails, ProcessRow, MapRowsFails, MapRowsEnds,
                  BeginCopy, CopyRefused, CopyCommits, CopyFails, ReportWrite, ReportError,
                  ReportEnd, Return, ReportFailure, Cancel, mainVars, monitorVars, Send
    <2>3. /\ IsFiniteSet(AckedRows')
          /\ Cardinality(AckedRows') = Cardinality(AckedRows) + (IF pc[s] = "written" THEN batch[s].rowCount ELSE 0)
      BY <2>1, AckedRowsStep DEF SummaryInv
    <2>4. /\ Credit("write", Table) = Cardinality(AckedRows) /\ Credit("end", Table) = Cardinality(EndedShards)
          /\ Credit("write", Table) \in Nat /\ Credit("end", Table) \in Nat
      BY <1>1, CreditType, TableCounts DEF SummaryInv
    <2>5. CASE /\ UNCHANGED monitorVars /\ pc[s] \notin {"written", "end"}
               /\ EndedShards' = EndedShards
      <3>1. /\ Countable("write", Table)' /\ Credit("write", Table)' = Credit("write", Table)
            /\ Countable("end", Table)' /\ Credit("end", Table)' = Credit("end", Table)
        BY <1>1, <2>5, LoopKeepsCredit, TableCounts DEF SummaryInv
      <3>2. Cardinality(AckedRows') = Cardinality(AckedRows)
        BY <2>3, <2>4, <2>5
      <3>3. UNCHANGED events
        BY <2>5 DEF monitorVars
      <3>4. QED
        BY <2>2, <2>3, <2>4, <2>5, <3>1, <3>2, <3>3 DEF SummaryInv
    <2>6. ASSUME NEW evt \in Event, Send(evt),
                 Amount(evt, "write", Table) = (IF pc[s] = "written" THEN batch[s].rowCount ELSE 0),
                 Amount(evt, "end", Table) = (IF pc[s] = "end" THEN 1 ELSE 0),
                 EndedShards' = (IF pc[s] = "end" THEN EndedShards \cup {s} ELSE EndedShards),
                 pc[s] = "end" => s \notin EndedShards
          PROVE  SummaryInv'
      <3>1. /\ Countable("write", Table)'
            /\ Credit("write", Table)' = Credit("write", Table) + Amount(evt, "write", Table)
        BY <1>1, <2>6, SendCredits, TableCounts DEF SummaryInv
      <3>2. /\ Countable("end", Table)'
            /\ Credit("end", Table)' = Credit("end", Table) + Amount(evt, "end", Table)
        BY <1>1, <2>6, SendCredits, TableCounts DEF SummaryInv
      <3>3. Cardinality(EndedShards') = Cardinality(EndedShards) + (IF pc[s] = "end" THEN 1 ELSE 0)
        <4>1. Cardinality(EndedShards \cup {s}) = (IF s \in EndedShards THEN Cardinality(EndedShards)
                                                  ELSE Cardinality(EndedShards) + 1)
          BY EndedShardsFinite, FS_AddElement
        <4>2. QED
          BY <2>6, <4>1, EndedShardsFinite
      <3>4. loop # "returned"
        BY <2>6 DEF Send, SummaryInv
      <3>5. Credit("write", Table)' = Cardinality(AckedRows') /\ Credit("end", Table)' = Cardinality(EndedShards')
        BY <2>3, <2>4, <2>6, <3>1, <3>2, <3>3
      <3>6. QED
        BY <2>2, <2>3, <3>1, <3>2, <3>4, <3>5 DEF SummaryInv
    <2>7. QED
      BY <2>1, <2>5, <2>6, PipeReports
  <1>3. CASE Main \/ Interrupt \/ MonitorLoop \/ UNCHANGED vars
    <2>1. Loop \/ Close \/ UNCHANGED monitorVars
      BY <1>3 DEF Main, WaitReturns, StopMonitor, JoinMonitor, Interrupt, MonitorLoop, vars
    <2>2. UNCHANGED pipeVars
      BY <1>3 DEF Main, WaitReturns, StopMonitor, JoinMonitor, Interrupt, MonitorLoop, vars
    <2>3. /\ Countable("write", Table)' /\ Credit("write", Table)' = Credit("write", Table)
          /\ Countable("end", Table)' /\ Credit("end", Table)' = Credit("end", Table)
      BY <1>1, <2>1, LoopKeepsCredit, TableCounts DEF SummaryInv
    <2>4. \A t \in Shard : Acked(t)' = Acked(t)
      BY <2>2 DEF Acked, Complete, Saved, pipeVars
    <2>5. AckedRows' = AckedRows /\ EndedShards' = EndedShards
      BY <2>2, <2>4 DEF AckedRows, EndedShards, pipeVars
    <2>6. loop' = "returned" => channel' = "closed" /\ events' = <<>>
      BY <2>1 DEF SummaryInv, Loop, ProcessEvent, LoopExit, Close, monitorVars
    <2>7. main' = "exit" => loop' = "returned"
      BY <1>3 DEF SummaryInv, Main, WaitReturns, StopMonitor, JoinMonitor, Interrupt, MonitorLoop, vars,
                  mainVars, monitorVars, Loop, ProcessEvent, LoopExit
    <2>8. QED
      BY <2>3, <2>5, <2>6, <2>7 DEF SummaryInv
  <1>4. QED
    BY <1>2, <1>3 DEF Next, Terminated

\* The account of the summary holds of every state.
THEOREM SummaryInvariance == Spec => []SummaryInv
  <1>1. Init => SummaryInv
    <2> SUFFICES ASSUME Init PROVE SummaryInv
      OBVIOUS
    <2>1. MonitorTypeOK
      BY InitType DEF TypeOK
    <2>2. events = <<>> /\ loop = "running" /\ main = "wait" /\ stats[Table] = NoStats
      BY ShardAssumption DEF Init, MonitorInit
    <2>3. /\ Countable("write", Table) /\ Credit("write", Table) = 0
          /\ Countable("end", Table) /\ Credit("end", Table) = 0
      BY <2>1, <2>2, DrainedCredit, TableCounts DEF Tally, NoStats
    <2>4. AckedRows = {}
      <3>1. \A s \in Shard : Acked(s) = 0
        BY EmptyBatchType DEF Init, Acked, Complete, Saved
      <3>2. QED
        BY <3>1 DEF AckedRows
    <2>5. EndedShards = {}
      BY DEF Init, EndedShards
    <2>6. QED
      BY <2>2, <2>3, <2>4, <2>5, FS_EmptySet DEF SummaryInv
  <1>2. QED
    BY <1>1, SummaryStep, Invariance, PTL DEF Spec

\* There are finitely many rows: the shards are finitely many sequences.
LEMMA FiniteRows == IsFiniteSet(Row)
  <1> DEFINE Rows(s) == {ShardRows[s][i] : i \in DOMAIN ShardRows[s]}
             all == {Rows(s) : s \in Shard}
             f == [s \in Shard |-> Rows(s)]
  <1>1. ASSUME NEW s \in Shard
        PROVE  IsFiniteSet(Rows(s))
    <2>1. ShardRows[s] \in Seq(Row)
      BY ShardAssumption
    <2>2. IsFiniteSet(DOMAIN ShardRows[s])
      BY <2>1, FS_Interval
    <2>3. ShardRows[s] \in Surjection(DOMAIN ShardRows[s], Rows(s))
      BY <2>1 DEF Surjection
    <2> HIDE DEF Rows
    <2>4. QED
      BY <2>2, <2>3, FS_Surjection
  <1>2. f \in Surjection(Shard, all)
    BY DEF Surjection
  <1>3. Row \subseteq UNION all
    BY PartitionAssumption
  <1>4. \A T \in all : IsFiniteSet(T)
    BY <1>1
  <1> HIDE DEF all, f
  <1>5. IsFiniteSet(all)
    BY <1>2, ShardAssumption, FS_Surjection
  <1>6. QED
    BY <1>3, <1>4, <1>5, FS_UNION, FS_Subset

\* A position in the batch is one in the shard's rows.
LEMMA WithinTail ==
  ASSUME NEW saved \in Nat, NEW len \in Nat, NEW last \in Nat, NEW all \in Nat, NEW k \in 1..len,
         last = saved + len, last <= all
  PROVE  saved + k \in 1..all /\ saved < saved + k /\ saved + k <= last
  OBVIOUS

\* When every shard is done, the rows in the table whose COPY the client did
\* not see fail are those of the acknowledged batches.
LEMMA AcknowledgedRows ==
  ASSUME IInv, AllDone, NEW s \in Shard, NEW i \in DOMAIN ShardRows[s]
  PROVE  ShardRows[s][i] \in Loaded \ Unacknowledged <=> i <= Acked(s)
  <1> DEFINE r == ShardRows[s][i]
  <1>0. /\ ShardRows[s] \in Seq(Row) /\ Len(ShardRows[s]) \in Nat /\ i \in 1..Len(ShardRows[s])
        /\ r \in Row
    BY ShardAssumption
  <1>1. /\ pc[s] = "done" /\ BatchIsTail(s) /\ TargetFollows(s) /\ Control(s)
        /\ batch[s].data \in Seq(Row) /\ Len(batch[s].data) \in Nat
        /\ next[s] \in Nat /\ next[s] <= Len(ShardRows[s])
        /\ Saved(s) \in Nat /\ Saved(s) = next[s] - Len(batch[s].data)
        /\ i \in 1..Len(ShardRows[s]) /\ Len(ShardRows[s]) \in Nat /\ r \in Row
        /\ ShardRows[s] \in Seq(Row)
    <2>1. pc[s] = "done"
      BY DEF AllDone
    <2>2. BatchIsTail(s) /\ TargetFollows(s) /\ Control(s)
      BY DEF IInv, DataInv, ControlInv
    <2>3. next[s] \in Nat /\ next[s] <= Len(ShardRows[s]) /\ batch[s].data \in Seq(Row)
      BY DEF IInv, TypeOK, PipeTypeOK, Batch
    <2>4. Len(batch[s].data) \in Nat
      BY <2>3
    <2>5. Saved(s) \in Nat
      BY AckedType
    <2>6. QED
      BY <1>0, <2>1, <2>2, <2>3, <2>4, <2>5 DEF Saved
  <1>2. r \in Unacknowledged <=> r \in Loaded /\ err[s] # "nil" /\ \E k \in DOMAIN batch[s].data : batch[s].data[k] = r
    <2>1. ASSUME NEW t \in Shard, NEW k \in DOMAIN batch[t].data, batch[t].data[k] = r
          PROVE  t = s
      <3>1. /\ BatchIsTail(t) /\ batch[t].data \in Seq(Row) /\ ShardRows[t] \in Seq(Row)
            /\ next[t] \in Nat /\ next[t] <= Len(ShardRows[t]) /\ Saved(t) \in Nat
        BY ShardAssumption, AckedType DEF IInv, TypeOK, PipeTypeOK, Batch, DataInv
      <3>2. k \in 1..Len(batch[t].data) /\ r = ShardRows[t][Saved(t) + k]
        <4>1. k \in 1..Len(batch[t].data)
          BY <3>1
        <4>2. QED
          BY <2>1, <3>1, <4>1 DEF BatchIsTail
      <3>3. Saved(t) + k \in DOMAIN ShardRows[t]
        <4>1. /\ Len(batch[t].data) \in Nat /\ Len(ShardRows[t]) \in Nat
              /\ next[t] = Saved(t) + Len(batch[t].data) /\ DOMAIN ShardRows[t] = 1..Len(ShardRows[t])
          BY <3>1 DEF Saved
        <4>2. Saved(t) + k \in 1..Len(ShardRows[t])
          BY <3>1, <3>2, <4>1, WithinTail
        <4>3. QED
          BY <4>1, <4>2
      <3>4. QED
        BY <3>2, <3>3, PartitionAssumption
    <2>2. QED
      BY <2>1 DEF Unacknowledged
  <1>3. (\E k \in DOMAIN batch[s].data : batch[s].data[k] = r) <=> Saved(s) < i /\ i <= next[s]
    <2>1. ASSUME NEW k \in DOMAIN batch[s].data, batch[s].data[k] = r
          PROVE  Saved(s) < i /\ i <= next[s]
      <3> BatchIsTail(s) /\ batch[s].data \in Seq(Row)
        BY <1>1
      <3>1. k \in 1..Len(batch[s].data) /\ r = ShardRows[s][Saved(s) + k]
        BY <2>1 DEF BatchIsTail
      <3>3. Saved(s) + k \in 1..Len(ShardRows[s]) /\ Saved(s) < Saved(s) + k /\ Saved(s) + k <= next[s]
        <4>1. /\ Saved(s) \in Nat /\ Len(batch[s].data) \in Nat /\ Len(ShardRows[s]) \in Nat
              /\ next[s] = Saved(s) + Len(batch[s].data) /\ next[s] <= Len(ShardRows[s])
          BY <1>1
        <4>2. QED
          BY <3>1, <4>1, WithinTail
      <3>4. i = Saved(s) + k
        BY <1>1, <3>1, <3>3, PartitionAssumption
      <3>5. QED
        BY <3>3, <3>4
    <2>2. ASSUME Saved(s) < i, i <= next[s]
          PROVE  \E k \in DOMAIN batch[s].data : batch[s].data[k] = r
      <3> DEFINE k == i - Saved(s)
      <3>1. /\ i \in Nat /\ Saved(s) \in Nat /\ Len(batch[s].data) \in Nat
            /\ next[s] = Saved(s) + Len(batch[s].data)
        BY <1>1
      <3>2. k \in 1..Len(batch[s].data) /\ Saved(s) + k = i
        BY <2>2, <3>1
      <3> HIDE DEF k
      <3>3. batch[s].data[k] = ShardRows[s][Saved(s) + k] /\ k \in DOMAIN batch[s].data
        BY <1>1, <3>2 DEF BatchIsTail
      <3>4. QED
        BY <3>2, <3>3
    <2>3. QED
      BY <2>1, <2>2
  <1>4. CASE err[s] = "nil"
    <2>1. Complete(s) /\ next[s] = Len(ShardRows[s]) /\ Acked(s) = next[s]
      BY <1>1, <1>4 DEF Complete, Control, Acked
    <2>2. target[r] = 1
      BY <1>1, <2>1, RowCopies
    <2>3. QED
      BY <1>1, <1>2, <1>4, <2>1, <2>2 DEF Loaded
  <1>5. CASE err[s] # "nil"
    <2>1. Acked(s) = Saved(s)
      BY <1>1, <1>5 DEF Complete, Acked
    <2>2. CASE i <= Saved(s)
      <3>1. target[r] = 1
        BY <1>1, <2>2 DEF TargetFollows
      <3>2. QED
        BY <1>1, <1>2, <1>3, <2>1, <2>2, <3>1 DEF Loaded
    <2>3. CASE Saved(s) < i /\ i <= next[s]
      BY <1>1, <1>2, <1>3, <1>5, <2>1, <2>3
    <2>4. CASE i > next[s]
      <3>1. target[r] = 0
        BY <1>1, <2>4 DEF TargetFollows
      <3>2. QED
        BY <1>1, <2>1, <2>4, <3>1 DEF Loaded
    <2>5. QED
      BY <1>1, <2>2, <2>3, <2>4
  <1>6. QED
    BY <1>4, <1>5

\* The summary of a load counts every row in the table once, except those of
\* a COPY that the client saw fail and the server did: for every number of
\* shards and rows, every batch limit and every size of the channel. After a
\* success each shard has reported its end.
THEOREM SummaryIsExact == Spec => []SummaryExact
  <1>1. ASSUME IInv, SummaryInv, main = "exit"
        PROVE  /\ stats[Table].written + Cardinality(Unacknowledged) = Cardinality(Loaded)
               /\ result = "nil" => stats[Table].ended = Cardinality(Shard)
    <2>1. AllDone /\ (result = "nil" => \A s \in Shard : err[s] = "nil") /\ MonitorTypeOK /\ events = <<>>
      BY <1>1 DEF IInv, TypeOK, CauseInv, SummaryInv
    <2>2. stats[Table].written = Cardinality(AckedRows) /\ stats[Table].ended = Cardinality(EndedShards)
      BY <1>1, <2>1, DrainedCredit, TableCounts DEF SummaryInv, Tally
    <2>3. result = "nil" => stats[Table].ended = Cardinality(Shard)
      <3>1. result = "nil" => EndedShards = Shard
        BY <2>1 DEF EndedShards, AllDone
      <3>2. QED
        BY <2>2, <3>1
    <2>4. ExistsBijection(AckedRows, Loaded \ Unacknowledged)
      <3> DEFINE f == [p \in AckedRows |-> ShardRows[p[1]][p[2]]]
      <3>1. ASSUME NEW p \in AckedRows
            PROVE  /\ p = <<p[1], p[2]>> /\ p[1] \in Shard /\ p[2] \in DOMAIN ShardRows[p[1]]
                   /\ p[2] <= Acked(p[1])
        <4>1. p = <<p[1], p[2]>> /\ p[1] \in Shard /\ p[2] \in 1..Acked(p[1])
          BY DEF AckedRows
        <4>2. Acked(p[1]) \in Nat /\ Acked(p[1]) <= Len(ShardRows[p[1]]) /\ ShardRows[p[1]] \in Seq(Row)
          BY <1>1, <4>1, AckedType, ShardAssumption
        <4>3. QED
          BY <4>1, <4>2
      <3>2. \A p \in AckedRows : f[p] \in Loaded \ Unacknowledged
        BY <1>1, <2>1, <3>1, AcknowledgedRows
      <3>3. \A p, q \in AckedRows : f[p] = f[q] => p = q
        <4> SUFFICES ASSUME NEW p \in AckedRows, NEW q \in AckedRows, f[p] = f[q]
                     PROVE  p = q
          OBVIOUS
        <4>1. ShardRows[p[1]][p[2]] = ShardRows[q[1]][q[2]]
          OBVIOUS
        <4>2. p[1] = q[1] /\ p[2] = q[2]
          BY <3>1, <4>1, PartitionAssumption
        <4>3. QED
          BY <3>1, <4>2
      <3>4. ASSUME NEW r \in Loaded \ Unacknowledged
            PROVE  \E p \in AckedRows : f[p] = r
        <4>1. PICK s \in Shard : \E i \in DOMAIN ShardRows[s] : ShardRows[s][i] = r
          BY PartitionAssumption DEF Loaded
        <4>2. PICK i \in DOMAIN ShardRows[s] : ShardRows[s][i] = r
          BY <4>1
        <4>3. i <= Acked(s)
          BY <1>1, <2>1, <4>2, AcknowledgedRows
        <4>4. <<s, i>> \in AckedRows
          <5>1. i \in Nat \ {0} /\ Acked(s) \in Nat
            BY <1>1, AckedType, ShardAssumption
          <5>2. QED
            BY <4>3, <5>1 DEF AckedRows
        <4>5. QED
          BY <4>2, <4>4
      <3>5. f \in Bijection(AckedRows, Loaded \ Unacknowledged)
        BY <3>2, <3>3, <3>4 DEF Bijection, Injection, Surjection, IsInjective
      <3>6. QED
        BY <3>5 DEF ExistsBijection
    <2>5. Cardinality(Loaded \ Unacknowledged) = Cardinality(AckedRows)
      BY <1>1, <2>4, FS_Bijection DEF SummaryInv
    <2>6. Cardinality(Loaded \ Unacknowledged) = Cardinality(Loaded) - Cardinality(Unacknowledged)
      <3>1. IsFiniteSet(Loaded)
        BY FiniteRows, FS_Subset DEF Loaded
      <3>2. Loaded \cap Unacknowledged = Unacknowledged
        BY DEF Unacknowledged
      <3>3. QED
        BY <3>1, <3>2, FS_Difference
    <2>7. Cardinality(Loaded) \in Nat /\ Cardinality(Unacknowledged) \in Nat
      BY FiniteRows, FS_Subset, FS_CardinalityType DEF Loaded, Unacknowledged
    <2>8. QED
      BY <2>2, <2>3, <2>5, <2>6, <2>7
  <1>2. IInv /\ SummaryInv => SummaryExact
    BY <1>1 DEF SummaryExact
  <1>3. QED
    BY <1>2, Invariance, SummaryInvariance, PTL

----------------------------------------------------------------------------
(* Refinement *)

\* A COPY that commits makes a set of missing rows appear, once each.
LEMMA CommitMaps ==
  ASSUME IInv, NEW s \in Shard, pc[s] = "copy", target' = Load(batch[s].data)
  PROVE  \E rows \in SUBSET TL!Missing :
            target' = [r \in Row |-> IF r \in rows THEN 1 ELSE target[r]]
  <1> DEFINE rows == {r \in Row : target'[r] # target[r]}
  <1>1. ASSUME NEW r \in Row
        PROVE  target'[r] = target[r] \/ (target[r] = 0 /\ target'[r] = 1)
    <2>1. PICK t \in Shard : \E i \in DOMAIN ShardRows[t] : ShardRows[t][i] = r
      BY PartitionAssumption
    <2>2. PICK i \in DOMAIN ShardRows[t] : ShardRows[t][i] = r
      BY <2>1
    <2>3. PipeTypeOK /\ BatchIsTail(s) /\ TargetFollows(s)
      BY DEF IInv, TypeOK, DataInv
    <2>4. target'[r] = target[r] + (IF t = s /\ Saved(s) < i /\ i <= next[s] THEN 1 ELSE 0)
      BY <2>2, <2>3, LoadOnce
    <2>5. target[r] \in Nat
      BY <2>3 DEF PipeTypeOK
    <2>6. t = s /\ Saved(s) < i /\ i <= next[s] => target[r] = 0
      BY <2>2, <2>3 DEF TargetFollows
    <2>7. QED
      BY <2>4, <2>5, <2>6
  <1>2. rows \in SUBSET TL!Missing
    BY <1>1 DEF TL!Missing
  <1>3. target' = [r \in Row |-> target'[r]]
    BY DEF Load
  <1>4. \A r \in Row : target'[r] = (IF r \in rows THEN 1 ELSE target[r])
    BY <1>1
  <1>5. target' = [r \in Row |-> IF r \in rows THEN 1 ELSE target[r]]
    BY <1>3, <1>4
  <1>6. QED
    BY <1>2, <1>5

\* Every step of the load is a step of TableLoad or a stutter.
LEMMA StepMaps ==
  ASSUME IInv, IInv', [Next]_vars
  PROVE  [TL!Next]_(TL!loadVars)
  <1>1. MainTypeOK /\ (main = "wait" => result = "running")
    BY DEF IInv, TypeOK, CauseInv
  <1>2. CASE \E s \in Shard : Pipe(s)
    <2>1. PICK s \in Shard : Pipe(s)
      BY <1>2
    <2>2. UNCHANGED <<main, result>>
      BY <2>1 DEF Pipe, Start, Acquire, AcquireFails, ProcessRow, MapRowsFails, MapRowsEnds,
                  BeginCopy, CopyRefused, CopyCommits, CopyFails, ReportWrite, ReportError,
                  ReportEnd, Return, ReportFailure, Cancel, mainVars
    <2>3. main = "wait"
      BY <2>1 DEF IInv, CauseInv, AllDone, Pipe, Start, Acquire, AcquireFails, ProcessRow,
                  MapRowsFails, MapRowsEnds, BeginCopy, CopyRefused, CopyCommits, CopyFails,
                  ReportWrite, ReportError, ReportEnd, Return, ReportFailure, Cancel
    <2>4. LoadResult = "running" /\ LoadResult' = LoadResult
      BY <2>2, <2>3 DEF LoadResult
    <2>5. UNCHANGED target \/ (pc[s] = "copy" /\ target' = Load(batch[s].data))
      BY <2>1 DEF Pipe, Start, Acquire, AcquireFails, ProcessRow, MapRowsFails, MapRowsEnds,
                  BeginCopy, CopyRefused, CopyCommits, CopyFails, ReportWrite, ReportError,
                  ReportEnd, Return, ReportFailure, Cancel
    <2>6. CASE UNCHANGED target
      BY <2>4, <2>6 DEF TL!loadVars
    <2>7. CASE pc[s] = "copy" /\ target' = Load(batch[s].data)
      BY <2>4, <2>7, CommitMaps DEF TL!Next, TL!Commit
    <2>8. QED
      BY <2>5, <2>6, <2>7
  <1>3. CASE WaitReturns
    <2>1. /\ main = "wait" /\ main' = "stop" /\ UNCHANGED target
          /\ LoadResult = "running"
      BY <1>3 DEF WaitReturns, pipeVars, LoadResult
    <2>2. CASE result' = "nil"
      <3>1. LoadResult' = "ok"
        BY <2>1, <2>2 DEF LoadResult
      <3>2. ASSUME NEW s \in Shard PROVE Complete(s)
        <4>1. pc[s] = "done" /\ err[s] = "nil"
          BY <1>3, <2>1, <2>2 DEF WaitReturns, pipeVars, IInv, CauseInv, AllDone
        <4>2. QED
          BY <4>1 DEF Complete
      <3>3. TL!Missing = {}
        BY <3>2, RowCopies, PartitionAssumption DEF TL!Missing
      <3>4. QED
        BY <2>1, <3>1, <3>3 DEF TL!Next, TL!Succeed
    <2>3. CASE result' # "nil"
      <3>1. LoadResult' = "failed"
        BY <2>1, <2>3 DEF LoadResult
      <3>2. QED
        BY <2>1, <3>1 DEF TL!Next, TL!Fail
    <2>4. QED
      BY <2>2, <2>3
  <1>4. CASE StopMonitor \/ JoinMonitor
    BY <1>4 DEF StopMonitor, JoinMonitor, pipeVars, LoadResult, TL!loadVars
  <1>5. CASE Interrupt \/ MonitorLoop \/ UNCHANGED vars
    BY <1>5 DEF Interrupt, MonitorLoop, vars, pipeVars, mainVars, LoadResult, TL!loadVars
  <1>6. QED
    BY <1>2, <1>3, <1>4, <1>5 DEF Next, Main, Terminated

\* Parallel pipelines over a shared pool, context and monitor implement the
\* loading of one table as TableLoad promises it, failures and signals included.
THEOREM Refinement == Spec => ImplementsTableLoad
  <1>1. Init => TL!Init
    BY DEF Init, TL!Init, LoadResult
  <1>2. IInv /\ IInv' /\ [Next]_vars => [TL!Next]_(TL!loadVars)
    BY StepMaps
  <1>3. QED
    BY <1>1, <1>2, Invariance, PTL DEF Spec, ImplementsTableLoad, TL!Spec
=============================================================================
