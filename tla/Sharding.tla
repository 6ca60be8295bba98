------------------------------- MODULE Sharding -------------------------------
(***************************************************************************)
(* The key ranges a table is split into for parallel loading:               *)
(* PgSQLSource.ConcurrencySupport reads the least and greatest primary key  *)
(* and gives each shard a WHERE clause, and each shard later reads its rows *)
(* with a query of its own (MapRows), while other clients write to the      *)
(* source table: nothing holds the bounds and the queries together in one   *)
(* snapshot. Keys are int64 in the code and wrap at MaxInt here.            *)
(*                                                                          *)
(* The MySQL and SQL Server sources compute the same ranges with the same   *)
(* statements.                                                              *)
(***************************************************************************)
EXTENDS Integers, FiniteSets

CONSTANTS
    Row,          \* the rows that are ever in the source table
    Key,          \* values of the first column of the primary key
    Concurrency,  \* Config.Concurrency
    MaxInt        \* greatest int64

MinInt == -MaxInt - 1

ASSUME IntAssumption == MaxInt \in Nat /\ Key \subseteq MinInt..MaxInt

\* With a concurrency of 1 or less ConcurrencySupport returns no shards.
ASSUME ConcurrencyAssumption == Concurrency \in 2..MaxInt

VARIABLES
    present,      \* the rows now in the source table
    key,          \* key[r]: the key of row r, its last one if it is gone
    phase,        \* "bounds" before the bounds are read, then "shards", or
                  \* "whole" for the one pipeline of a table found empty
    bounds,       \* the least and the greatest key, as read
    queried,      \* the shards whose query has run
    read,         \* read[i]: the rows that the query of shard i returned
    touched       \* rows written to since the bounds were read

vars == <<present, key, phase, bounds, queried, read, touched>>
sourceTable == <<present, key>>

Index == 0 .. Concurrency - 1

Bounds == [min : MinInt..MaxInt, max : MinInt..MaxInt]

----------------------------------------------------------------------------
(* The ranges *)

\* Two's complement of a sum or difference of two int64 values.
Wrap(x) ==
    IF x > MaxInt THEN x - 2 * (MaxInt + 1)
    ELSE IF x < MinInt THEN x + 2 * (MaxInt + 1)
    ELSE x

\* Go's / truncates and \div rounds down: they differ only below 1.
RangeSize(b) ==
    LET size == Wrap(b.max - b.min) \div Concurrency
    IN  IF size < 1 THEN 1 ELSE size

Lo(b, i) == Wrap(b.min + i * RangeSize(b))

\* Mutant: the last range ends like the others.
HiWithoutRemainder(b, i) == Wrap(Lo(b, i) + RangeSize(b))

Hi(b, i) ==
    IF i = Concurrency - 1 THEN Wrap(b.max + 1) ELSE Wrap(Lo(b, i) + RangeSize(b))

InRange(b, i, k) == Lo(b, i) <= k /\ k < Hi(b, i)

----------------------------------------------------------------------------
(* The load *)

\* SELECT min(pk), max(pk). Both are NULL when the table is empty.
ReadBounds ==
    /\ phase = "bounds"
    /\ IF present = {}
       THEN phase' = "whole" /\ UNCHANGED bounds
       ELSE /\ phase' = "shards"
            /\ \E least, greatest \in present :
                  /\ \A r \in present : key[least] <= key[r] /\ key[r] <= key[greatest]
                  /\ bounds' = [min |-> key[least], max |-> key[greatest]]
    /\ UNCHANGED <<sourceTable, queried, read, touched>>

\* The COPY (SELECT ... WHERE lo <= pk AND pk < hi) of shard i: one statement,
\* so one snapshot, taken whenever that shard's goroutine gets to it.
ReadShard(i) ==
    /\ phase = "shards"
    /\ i \notin queried
    /\ queried' = queried \cup {i}
    /\ read' = [read EXCEPT ![i] = {r \in present : InRange(bounds, i, key[r])}]
    /\ UNCHANGED <<sourceTable, phase, bounds, touched>>

\* The query without WHERE of the sequential pipeline.
ReadWhole ==
    /\ phase = "whole"
    /\ queried = {}
    /\ queried' = Index
    /\ read' = [read EXCEPT ![0] = present]
    /\ UNCHANGED <<sourceTable, phase, bounds, touched>>

AllRead == queried = Index

\* Another client inserts row r with key k, or moves it to key k.
Put(r, k) ==
    /\ phase # "bounds"
    /\ ~AllRead
    /\ present' = present \cup {r}
    /\ key' = [key EXCEPT ![r] = k]
    /\ touched' = touched \cup {r}
    /\ UNCHANGED <<phase, bounds, queried, read>>

Delete(r) ==
    /\ phase # "bounds"
    /\ ~AllRead
    /\ r \in present
    /\ present' = present \ {r}
    /\ touched' = touched \cup {r}
    /\ UNCHANGED <<key, phase, bounds, queried, read>>

\* The table is any table when the bounds are read: writes before that do not
\* matter.
Init ==
    /\ present \in SUBSET Row
    /\ key \in [Row -> Key]
    /\ phase = "bounds"
    /\ bounds = [min |-> 0, max |-> 0]
    /\ queried = {}
    /\ read = [i \in Index |-> {}]
    /\ touched = {}

Next ==
    \/ ReadBounds
    \/ \E i \in Index : ReadShard(i)
    \/ ReadWhole
    \/ \E r \in Row : Delete(r) \/ \E k \in Key : Put(r, k)

Spec == Init /\ [][Next]_vars

----------------------------------------------------------------------------
(* Properties *)

\* Types; and the bounds the shards divide are in order (the two columns of the
\* query in ConcurrencySupport).
TypeOK ==
    /\ present \in SUBSET Row
    /\ key \in [Row -> Key]
    /\ phase \in {"bounds", "shards", "whole"}
    /\ bounds \in Bounds
    /\ phase = "shards" => bounds.min <= bounds.max
    /\ queried \in SUBSET Index
    /\ read \in [Index -> SUBSET Row]
    /\ touched \in SUBSET Row

ReadOnce(r) ==
    \E i \in Index : r \in read[i] /\ \A j \in Index \ {i} : r \notin read[j]

\* A key far enough from MaxInt for the bounds of the ranges not to wrap.
KeysFit == \A k \in Key : k + Concurrency <= MaxInt

\* Whatever others write, a row they leave alone is read by exactly one
\* shard: the ranges computed from the bounds neither overlap nor leave a gap.
StableRowsReadOnce ==
    AllRead => \A r \in present \ touched : ReadOnce(r)
=============================================================================
