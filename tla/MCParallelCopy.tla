--------------------------- MODULE MCParallelCopy ---------------------------
(***************************************************************************)
(* Three shards for a pool of two connections: one that fills a batch by    *)
(* rows and ends inside a second, one whose only row reaches the byte       *)
(* limit alone, and one whose range of keys is empty.                       *)
(***************************************************************************)
EXTENDS ParallelCopy, TLC

CONSTANTS s1, s2, s3, r1, r2, r3, r4

MCShard == {s1, s2, s3}
MCRow == {r1, r2, r3, r4}
MCShardRows == (s1 :> <<r1, r2, r3>>) @@ (s2 :> <<r4>>) @@ (s3 :> <<>>)
MCRowBytes == [r \in MCRow |-> IF r = r4 THEN 3 ELSE 1]
=============================================================================
