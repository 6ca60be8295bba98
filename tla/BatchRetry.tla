------------------------------ MODULE BatchRetry ------------------------------
(***************************************************************************)
(* copy.RetryBatch, the recovery from a rejected COPY: send the whole       *)
(* batch, search for the bad rows by halves (findBadRows, testRange), then  *)
(* send the good ones. Every one of these is a FlushBatch, a COPY statement *)
(* that the server commits on its own when no row of it is bad.             *)
(*                                                                          *)
(* Rows are their indices 0 .. size-1 and the recursion of findBadRows is   *)
(* the sequence of ranges still to test, in the order it reaches them. The  *)
(* connection may be lost at any COPY, before or after the server commits;  *)
(* every later COPY on it fails. A context cancelled on the way is the same *)
(* case: no later COPY is sent.                                             *)
(***************************************************************************)
EXTENDS Integers, FiniteSets, Sequences

CONSTANT MaxRows      \* bound on the rows of the batch

ASSUME MaxRowsAssumption == MaxRows \in Nat

VARIABLES
    size,             \* rows in the batch
    bad,              \* the rows that make the server reject a COPY
    connection,       \* "up", or "lost" for good
    pc,               \* "whole", "search", "clean" or "done"
    pending,          \* ranges <<lo, hi>> findBadRows has still to test
    found,            \* the badIndices returned so far
    copies,           \* of each row, in the target table
    imported,         \* RetryResult.Imported
    rejected,         \* RetryResult.Rejected
    err               \* "nil", or "failed" if RetryBatch returns an error

vars == <<size, bad, connection, pc, pending, found, copies, imported, rejected, err>>

MaxIndex == MaxRows - 1

Rows == 0 .. size - 1

----------------------------------------------------------------------------
(* FlushBatch *)

Sent(rows) == [i \in 0..MaxIndex |-> IF i \in rows THEN copies[i] + 1 ELSE copies[i]]

\* An empty batch is not sent at all.
FlushSucceeds(rows) ==
    /\ rows # {} => connection = "up"
    /\ rows \cap bad = {}
    /\ copies' = Sent(rows)
    /\ UNCHANGED connection

\* The server rejects the batch, or the connection is lost, with the COPY
\* committed or not.
FlushFails(rows) ==
    /\ rows # {}
    /\ \/ connection = "up" /\ rows \cap bad # {} /\ UNCHANGED <<connection, copies>>
       \/ connection = "lost" /\ UNCHANGED <<connection, copies>>
       \/ /\ connection = "up"
          /\ connection' = "lost"
          /\ copies' \in {copies} \cup (IF rows \cap bad = {} THEN {Sent(rows)} ELSE {})

----------------------------------------------------------------------------
(* RetryBatch *)

WholeSucceeds ==
    /\ pc = "whole"
    /\ FlushSucceeds(Rows)
    /\ imported' = size
    /\ pc' = "done"
    /\ UNCHANGED <<size, bad, pending, found, rejected, err>>

WholeFails ==
    /\ pc = "whole"
    /\ FlushFails(Rows)
    /\ pending' = <<<<0, size - 1>>>>
    /\ pc' = "search"
    /\ UNCHANGED <<size, bad, found, imported, rejected, err>>

RowsOf(r) == r[1] .. r[2]

\* testRange succeeds: no bad row in the range.
TestSucceeds ==
    /\ pc = "search"
    /\ pending # <<>>
    /\ FlushSucceeds(RowsOf(Head(pending)))
    /\ pending' = Tail(pending)
    /\ UNCHANGED <<size, bad, pc, found, imported, rejected, err>>

\* Mutant: the row in the middle stays in both halves.
HalvesOverlap(lo, hi) ==
    LET mid == (lo + hi) \div 2 IN <<<<lo, mid>>, <<mid, hi>>>>

\* Mutant: the row in the middle falls between the halves.
HalvesSkipMiddle(lo, hi) ==
    LET mid == (lo + hi) \div 2 IN <<<<lo, mid - 1>>, <<mid + 1, hi>>>>

Halves(lo, hi) ==
    LET mid == (lo + hi) \div 2 IN <<<<lo, mid>>, <<mid + 1, hi>>>>

\* testRange fails: a single row is bad, a longer range is split.
TestFails ==
    /\ pc = "search"
    /\ pending # <<>>
    /\ LET lo == Head(pending)[1]
           hi == Head(pending)[2]
       IN  /\ FlushFails(lo .. hi)
           /\ IF lo = hi
              THEN found' = found \cup {lo} /\ pending' = Tail(pending)
              ELSE pending' = Halves(lo, hi) \o Tail(pending) /\ UNCHANGED found
    /\ UNCHANGED <<size, bad, pc, imported, rejected, err>>

SearchEnds ==
    /\ pc = "search"
    /\ pending = <<>>
    /\ rejected' = found
    /\ pc' = "clean"
    /\ UNCHANGED <<size, bad, connection, pending, found, copies, imported, err>>

Good == Rows \ found

\* Mutant: the rejected rows are counted as imported.
CleanCountsAll ==
    /\ pc = "clean"
    /\ FlushSucceeds(Good)
    /\ imported' = size
    /\ pc' = "done"
    /\ UNCHANGED <<size, bad, pending, found, rejected, err>>

CleanSucceeds ==
    /\ pc = "clean"
    /\ FlushSucceeds(Good)
    /\ imported' = Cardinality(Good)
    /\ pc' = "done"
    /\ UNCHANGED <<size, bad, pending, found, rejected, err>>

CleanFails ==
    /\ pc = "clean"
    /\ FlushFails(Good)
    /\ err' = "failed"
    /\ pc' = "done"
    /\ UNCHANGED <<size, bad, pending, found, imported, rejected>>

Init ==
    /\ size \in 0..MaxRows
    /\ bad \in SUBSET Rows
    /\ connection = "up"
    /\ pc = "whole"
    /\ pending = <<>>
    /\ found = {}
    /\ copies = [i \in 0..MaxIndex |-> 0]
    /\ imported = 0
    /\ rejected = {}
    /\ err = "nil"

Next ==
    \/ WholeSucceeds \/ WholeFails
    \/ TestSucceeds \/ TestFails \/ SearchEnds
    \/ CleanSucceeds \/ CleanFails

\* RetryBatch is sequential code that blocks only in COPY, which returns.
Spec == Init /\ [][Next]_vars /\ WF_vars(Next)

----------------------------------------------------------------------------
(* Properties *)

\* Types; and no range of the search leaves the batch (findBadRows).
TypeOK ==
    /\ size \in 0..MaxRows
    /\ bad \in SUBSET Rows
    /\ connection \in {"up", "lost"}
    /\ pc \in {"whole", "search", "clean", "done"}
    /\ pending \in Seq((0..MaxIndex) \X (0..MaxIndex))
    /\ found \in SUBSET Rows
    /\ copies \in [0..MaxIndex -> Nat]
    /\ imported \in 0..size
    /\ rejected \in SUBSET Rows
    /\ err \in {"nil", "failed"}

\* While the connection lasts RetryBatch succeeds on every batch, and the rows
\* it rejects are exactly the bad ones: the halves miss no row.
RejectsExactlyBad == pc = "done" /\ connection = "up" => err = "nil" /\ rejected = bad

\* When RetryBatch returns no error, a row it does not reject is in the
\* target, also when the connection was lost on the way, and Imported counts
\* these rows.
NoRowLost ==
    pc = "done" /\ err = "nil" =>
        /\ \A i \in Rows \ rejected : copies[i] > 0
        /\ imported = Cardinality(Rows \ rejected)

\* The search ends for every batch and every set of bad rows.
RetryEnds == <>(pc = "done")
=============================================================================
