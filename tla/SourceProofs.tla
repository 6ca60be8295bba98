---------------------------- MODULE SourceProofs ----------------------------
(***************************************************************************)
(* Proofs about the sources: the key ranges a table is split into, the      *)
(* tables that stand in for views, and the way through the catalog.         *)
(*                                                                          *)
(* Each part is about one of the models, which share no variable.           *)
(***************************************************************************)
EXTENDS Sharding, MaterializedViews, TableNavigation, TLAPS

----------------------------------------------------------------------------
(* Sharding. For every table, concurrency and width of integer: keys that   *)
(* stay clear of the greatest integer by Concurrency are split without gap  *)
(* or overlap, and rows nobody writes to are read by exactly one shard.     *)

\* What is needed of multiplication, stated where nothing else distracts.
LEMMA ProductMonotone ==
  ASSUME NEW a \in Nat, NEW b \in Nat, NEW n \in Nat, a <= b
  PROVE  a * n <= b * n
  <1>1. PICK d \in Nat : b = a + d
    <2>1. b - a \in Nat /\ b = a + (b - a)
      OBVIOUS
    <2>2. QED
      BY <2>1
  <1>2. b * n = a * n + d * n /\ d * n \in Nat
    BY <1>1
  <1>3. a * n \in Nat
    OBVIOUS
  <1>4. QED
    BY <1>2, <1>3

LEMMA ProductSucc ==
  ASSUME NEW a \in Int, NEW n \in Int
  PROVE  (a + 1) * n = a * n + n
  OBVIOUS

LEMMA Quotient ==
  ASSUME NEW x \in Nat, NEW n \in Nat \ {0}
  PROVE  /\ x \div n \in Nat
         /\ (x \div n) * n <= x
         /\ x < (x \div n) * n + n
  OBVIOUS

\* The size of the ranges: Concurrency of them fit between the bounds, or the
\* size is 1.
LEMMA RangeSizeBound ==
  ASSUME NEW b \in Bounds, b.min <= b.max
  PROVE  /\ RangeSize(b) \in Nat \ {0}
         /\ RangeSize(b) = 1 \/ Concurrency * RangeSize(b) <= b.max - b.min
  <1> DEFINE span == b.max - b.min
             size == Wrap(span) \div Concurrency
  <1>1. /\ MaxInt \in Nat /\ Concurrency \in Nat \ {0} /\ Concurrency <= MaxInt
        /\ b.min \in MinInt..MaxInt /\ b.max \in MinInt..MaxInt
    BY IntAssumption, ConcurrencyAssumption DEF Bounds
  <1>2. span \in Nat
    BY <1>1 DEF MinInt
  <1>3. CASE span <= MaxInt
    <2>1. Wrap(span) = span
      BY <1>1, <1>2, <1>3 DEF Wrap, MinInt
    <2>2. size \in Nat /\ size * Concurrency <= span
      BY <1>1, <1>2, <2>1, Quotient
    <2>3. size * Concurrency = Concurrency * size
      BY <1>1, <2>2
    <2> HIDE DEF size, span
    <2>4. QED
      BY <2>2, <2>3 DEF RangeSize, size, span
  <1>4. CASE span > MaxInt
    <2>1. Wrap(span) \in Int /\ Wrap(span) < 0
      BY <1>1, <1>2, <1>4 DEF Wrap, MinInt
    <2>2. size \in Int /\ size < 1
      BY <1>1, <2>1
    <2>3. RangeSize(b) = 1
      BY <2>2 DEF RangeSize
    <2>4. QED
      BY <2>3
  <1>5. QED
    BY <1>2, <1>3, <1>4, <1>1
\* Away from the greatest integer nothing wraps.
LEMMA RangeEnds ==
  ASSUME KeysFit, NEW b \in Bounds, b.min \in Key, b.max \in Key, b.min <= b.max,
         NEW i \in Index
  PROVE  /\ Lo(b, i) = b.min + i * RangeSize(b)
         /\ i # Concurrency - 1 => Hi(b, i) = b.min + (i + 1) * RangeSize(b)
         /\ i = Concurrency - 1 => Hi(b, i) = b.max + 1
  <1> DEFINE R == RangeSize(b)
  <1>1. /\ MaxInt \in Nat /\ Concurrency \in Nat \ {0} /\ Concurrency <= MaxInt
        /\ b.min \in MinInt..MaxInt /\ b.max \in MinInt..MaxInt
        /\ b.min + Concurrency <= MaxInt /\ b.max + Concurrency <= MaxInt
        /\ i \in Nat /\ i + 1 <= Concurrency
    BY IntAssumption, ConcurrencyAssumption DEF Bounds, KeysFit, Index
  <1>2. R \in Nat \ {0} /\ (R = 1 \/ Concurrency * R <= b.max - b.min)
    BY RangeSizeBound
  <1> HIDE DEF R
  <1>3. /\ i * R \in Nat /\ (i + 1) * R = i * R + R
        /\ (i + 1) * R <= Concurrency * R
    BY <1>1, <1>2, ProductMonotone, ProductSucc
  <1>4. b.min + (i + 1) * R <= MaxInt
    <2>1. CASE R = 1
      BY <1>1, <2>1
    <2>2. CASE Concurrency * R <= b.max - b.min
      <3>1. (i + 1) * R \in Nat /\ Concurrency * R \in Nat
        BY <1>1, <1>2
      <3>2. QED
        BY <1>1, <1>3, <2>2, <3>1
    <2>3. QED
      BY <1>2, <2>1, <2>2
  <1>5. Wrap(b.min + i * R) = b.min + i * R
    BY <1>1, <1>2, <1>3, <1>4 DEF Wrap, MinInt
  <1>6. Lo(b, i) = b.min + i * R
    BY <1>5 DEF Lo, R
  <1>7. i # Concurrency - 1 => Hi(b, i) = b.min + (i + 1) * R
    <2>1. Wrap(b.min + i * R + R) = b.min + i * R + R
      BY <1>1, <1>2, <1>3, <1>4 DEF Wrap, MinInt
    <2>2. i # Concurrency - 1 => Hi(b, i) = Wrap(Lo(b, i) + R)
      BY DEF Hi, R
    <2>3. b.min + i * R + R = b.min + (i + 1) * R
      BY <1>1, <1>2, <1>3 DEF MinInt
    <2>4. QED
      BY <1>6, <2>1, <2>2, <2>3
  <1>8. i = Concurrency - 1 => Hi(b, i) = b.max + 1
    <2>1. Wrap(b.max + 1) = b.max + 1
      BY <1>1 DEF Wrap, MinInt
    <2>2. QED
      BY <2>1 DEF Hi
  <1>9. QED
    BY <1>6, <1>7, <1>8 DEF R

\* Every key between the bounds falls in exactly one range.
THEOREM RangesPartition ==
  ASSUME KeysFit, NEW b \in Bounds, b.min \in Key, b.max \in Key, b.min <= b.max,
         NEW k \in Key, b.min <= k, k <= b.max
  PROVE  \E i \in Index : InRange(b, i, k) /\ \A j \in Index \ {i} : ~InRange(b, j, k)
  <1> DEFINE R == RangeSize(b)
             q == (k - b.min) \div R
             last == Concurrency - 1
  <1>1. /\ k \in Int /\ b.min \in Int /\ b.max \in Int /\ last \in Nat /\ Index = 0..last
    BY IntAssumption, ConcurrencyAssumption DEF Bounds, MinInt, Index
  <1>2. R \in Nat \ {0}
    BY RangeSizeBound
  <1>3. q \in Nat /\ b.min + q * R <= k /\ k < b.min + (q + 1) * R
    <2>1. k - b.min \in Nat
      BY <1>1
    <2> HIDE DEF R
    <2>2. q \in Nat /\ q * R <= k - b.min /\ k - b.min < q * R + R
      BY <1>2, <2>1, Quotient
    <2>3. (q + 1) * R = q * R + R /\ q * R \in Int
      BY <1>2, <2>2, ProductSucc
    <2> HIDE DEF q
    <2>4. QED
      BY <1>1, <1>2, <2>2, <2>3
  <1>4. \A i \in Index : /\ Lo(b, i) = b.min + i * R
                         /\ i # last => Hi(b, i) = b.min + (i + 1) * R
                         /\ i = last => Hi(b, i) = b.max + 1
    BY RangeEnds
  <1> HIDE DEF R, q, last
  <1>5. \A m, n \in Nat : m <= n => m * R <= n * R
    BY <1>2, ProductMonotone
  <1>6. \A m \in Nat : m * R \in Nat
    BY <1>2
  \* A range that ends at or before the start of range number n misses k.
  <1>7. ASSUME NEW n \in Nat, n <= last, b.min + n * R <= k, NEW j \in Index, j < n
        PROVE  ~InRange(b, j, k)
    <2>1. j \in Nat /\ j # last /\ j + 1 <= n
      BY <1>1, <1>7
    <2>2. Hi(b, j) = b.min + (j + 1) * R /\ (j + 1) * R <= n * R
      BY <1>4, <1>5, <2>1
    <2>3. (j + 1) * R \in Nat /\ n * R \in Nat
      BY <1>6, <2>1
    <2>4. QED
      BY <1>1, <1>7, <2>2, <2>3 DEF InRange
  <1>8. CASE q < last
    <2>1. q \in Index /\ q # last
      BY <1>1, <1>3, <1>8
    <2>2. InRange(b, q, k)
      BY <1>3, <1>4, <2>1 DEF InRange
    <2>3. ASSUME NEW j \in Index, j > q PROVE ~InRange(b, j, k)
      <3>1. j \in Nat /\ q + 1 <= j
        BY <1>1, <1>3, <2>3
      <3>2. Lo(b, j) = b.min + j * R /\ (q + 1) * R <= j * R
        BY <1>3, <1>4, <1>5, <3>1
      <3>3. (q + 1) * R \in Nat /\ j * R \in Nat
        BY <1>3, <1>6, <3>1
      <3>4. QED
        BY <1>1, <1>3, <3>2, <3>3 DEF InRange
    <2>4. ASSUME NEW j \in Index \ {q} PROVE ~InRange(b, j, k)
      <3>1. CASE j < q
        <4>1. q <= last
          BY <1>1, <1>3, <1>8
        <4>2. QED
          BY <1>3, <1>7, <3>1, <4>1
      <3>2. CASE j > q
        BY <2>3, <3>2
      <3>3. QED
        BY <1>1, <1>3, <3>1, <3>2
    <2>5. QED
      BY <2>1, <2>2, <2>4
  <1>9. CASE q >= last
    <2>1. last \in Index
      BY <1>1
    <2>2. b.min + last * R <= k
      <3>1. last * R <= q * R /\ last * R \in Nat /\ q * R \in Nat
        BY <1>1, <1>3, <1>5, <1>6, <1>9
      <3>2. QED
        BY <1>1, <1>3, <3>1
    <2>3. InRange(b, last, k)
      BY <1>1, <1>4, <2>1, <2>2 DEF InRange
    <2>4. ASSUME NEW j \in Index \ {last} PROVE ~InRange(b, j, k)
      <3>1. j < last
        BY <1>1
      <3>2. QED
        BY <1>1, <1>7, <2>2, <3>1
    <2>5. QED
      BY <2>1, <2>3, <2>4
  <1>10. QED
    BY <1>1, <1>3, <1>8, <1>9

----------------------------------------------------------------------------
(* The load *)

\* Rows nobody has touched are where the bounds saw them, and a shard whose
\* query has run has read those of its range.
StableInv ==
    /\ phase = "bounds" => queried = {} /\ read = [i \in Index |-> {}] /\ touched = {}
    /\ phase = "whole" => present \subseteq touched
    /\ phase = "shards" =>
          /\ bounds.min \in Key /\ bounds.max \in Key /\ bounds.min <= bounds.max
          /\ \A r \in present \ touched :
                /\ bounds.min <= key[r] /\ key[r] <= bounds.max
                /\ \A i \in Index :
                      r \in read[i] <=> i \in queried /\ InRange(bounds, i, key[r])

SInv == TypeOK /\ StableInv

\* The inductive invariant holds in every reachable state; it does not depend
\* on where the keys lie.
THEOREM ShardingInvariance == Spec => []SInv
  <1>1. Init => SInv
    BY IntAssumption DEF Init, SInv, TypeOK, StableInv, Bounds, MinInt
  <1>2. SInv /\ [Next]_vars => SInv'
    <2> SUFFICES ASSUME SInv, [Next]_vars PROVE SInv'
      OBVIOUS
    <2> USE DEF SInv, TypeOK, StableInv, sourceTable
    <2>1. CASE ReadBounds
      <3>1. CASE present = {}
        BY <2>1, <3>1 DEF ReadBounds
      <3>2. CASE present # {}
        <4>1. PICK least \in present, greatest \in present :
                 /\ \A r \in present : key[least] <= key[r] /\ key[r] <= key[greatest]
                 /\ bounds' = [min |-> key[least], max |-> key[greatest]]
          BY <2>1, <3>2 DEF ReadBounds
        <4>2. key[least] \in Key /\ key[greatest] \in Key
          OBVIOUS
        <4>3. bounds'.min = key[least] /\ bounds'.max = key[greatest] /\ bounds' \in Bounds
          BY <4>1, <4>2, IntAssumption DEF Bounds
        <4>4. /\ phase' = "shards" /\ queried = {} /\ touched = {}
              /\ \A i \in Index : read[i] = {}
              /\ UNCHANGED <<present, key, queried, read, touched>>
          BY <2>1, <3>2 DEF ReadBounds
        <4>5. key[least] <= key[greatest]
          BY <4>1
        <4>6. TypeOK'
          BY <4>3, <4>4, <4>5
        <4>7. StableInv'
          BY <4>1, <4>2, <4>3, <4>4, <4>5
        <4>8. QED
          BY <4>6, <4>7
      <3>3. QED
        BY <3>1, <3>2
    <2>2. ASSUME NEW i \in Index, ReadShard(i) PROVE SInv'
      BY <2>2 DEF ReadShard
    <2>3. CASE ReadWhole
      BY <2>3 DEF ReadWhole
    <2>4. ASSUME NEW r \in Row, Delete(r) PROVE SInv'
      BY <2>4 DEF Delete
    <2>5. ASSUME NEW r \in Row, NEW k \in Key, Put(r, k) PROVE SInv'
      BY <2>5 DEF Put
    <2>6. CASE UNCHANGED vars
      BY <2>6 DEF vars
    <2>7. QED
      BY <2>1, <2>2, <2>3, <2>4, <2>5, <2>6 DEF Next
  <1>3. QED
    BY <1>1, <1>2, PTL DEF Spec

\* The variables keep their types, and the bounds that were read are in order.
THEOREM ShardingTypeCorrect == Spec => []TypeOK
  BY ShardingInvariance, PTL DEF SInv

\* Rows that no other client writes between the reading of the bounds and the
\* last shard's query are read by exactly one shard, for every table, number of
\* shards and width of integer, if the keys stay Concurrency below MaxInt.
THEOREM ShardsReadOnce ==
  ASSUME KeysFit
  PROVE  Spec => []StableRowsReadOnce
  <1>1. ASSUME SInv, AllRead, NEW r \in present \ touched
        PROVE  ReadOnce(r)
    <2>1. 0 \in Index
      BY ConcurrencyAssumption, IntAssumption DEF Index
    <2>2. phase = "shards"
      BY <1>1, <2>1 DEF SInv, TypeOK, StableInv, AllRead
    <2>3. key[r] \in Key
      BY <1>1 DEF SInv, TypeOK
    <2>4. \E i \in Index : /\ InRange(bounds, i, key[r])
                           /\ \A j \in Index \ {i} : ~InRange(bounds, j, key[r])
      BY <1>1, <2>2, <2>3, RangesPartition DEF SInv, TypeOK, StableInv
    <2>5. QED
      BY <1>1, <2>2, <2>4 DEF SInv, StableInv, AllRead, ReadOnce
  <1>2. SInv => StableRowsReadOnce
    BY <1>1 DEF StableRowsReadOnce
  <1>3. QED
    BY <1>2, ShardingInvariance, PTL

----------------------------------------------------------------------------
(* MaterializedViews. The tables of the user are there from the start, so   *)
(* every run finds them, and what a run records to drop was not there when  *)
(* it began: this is TypeOK's last conjunct, and the strengthening is that  *)
(* what a run found is still there.                                         *)

ViewsInv == ViewTypeOK /\ user \subseteq found /\ found \subseteq tables

\* Every step keeps the invariant.
LEMMA StepKeepsViewsInv ==
    ASSUME ViewsInv, [ViewNext]_viewVars
    PROVE  ViewsInv'
  <1> USE DEF ViewsInv, ViewTypeOK
  <1>1. CASE Begin
    BY <1>1, BoundsAssumption DEF Begin
  <1>2. CASE Load \/ LoadReturns \/ DropEnds \/ Interrupt
    BY <1>2 DEF Load, LoadReturns, DropEnds, Interrupt
  <1>3. CASE DropFails
    <2>1. CASE UNCHANGED tables
      BY <1>3, <2>1 DEF DropFails
    <2>2. ASSUME NEW v \in View, First(v, tempViewTables), tables' = tables \ {v}
          PROVE  ViewsInv'
      BY <1>3, <2>2 DEF DropFails, First
    <2>3. QED
      BY <1>3, <2>1, <2>2 DEF DropFails
  <1>4. ASSUME NEW v \in View, ViewStep(v)
        PROVE  ViewsInv'
    <2>1. CASE SelectInto(v)
      BY <2>1 DEF SelectInto
    <2>2. CASE SelectIntoRefused(v)
      BY <2>2 DEF SelectIntoRefused
    <2>3. CASE SelectIntoFails(v)
      BY <2>3 DEF SelectIntoFails
    <2>4. CASE DropTable(v)
      BY <2>4 DEF DropTable, First
    <2>5. QED
      BY <1>4, <2>1, <2>2, <2>3, <2>4 DEF ViewStep
  <1>5. CASE UNCHANGED viewVars
    BY <1>5 DEF viewVars
  <1>6. QED
    BY <1>1, <1>2, <1>3, <1>4, <1>5 DEF ViewNext

\* The invariant holds of every state of every behaviour.
THEOREM ViewsInvariance == ViewSpec => []ViewsInv
  <1>1. ViewInit => ViewsInv
    BY BoundsAssumption DEF ViewInit, ViewsInv, ViewTypeOK
  <1>2. QED
    BY <1>1, StepKeepsViewsInv, PTL DEF ViewSpec

\* A recorded table exists and is new in the run (TypeOK), for any number of
\* views and runs.
THEOREM ViewsTypeCorrect == ViewSpec => []ViewTypeOK
  BY ViewsInvariance, PTL DEF ViewsInv

\* DropMaterializedViews never drops a table that belongs to the user.
THEOREM UserTablesAreKept == ViewSpec => []UserTablesKept
  <1>1. ViewsInv => UserTablesKept
    BY DEF ViewsInv, UserTablesKept
  <1>2. QED
    BY <1>1, ViewsInvariance, PTL

\* An undisturbed run leaves the source database as it found it.
THEOREM RunsLeaveNoTrace == ViewSpec => []LeavesNoTrace
  <1> DEFINE Fresh == /\ place # "idle" /\ server = "sound" => tables = found \cup tempViewTables
                      /\ place = "idle" => LeavesNoTrace
  <1>1. ViewInit => Fresh
    BY DEF ViewInit, LeavesNoTrace
  <1>2. ViewsInv /\ Fresh /\ [ViewNext]_viewVars => Fresh'
    <2> SUFFICES ASSUME ViewsInv, Fresh, [ViewNext]_viewVars
                 PROVE  Fresh'
      OBVIOUS
    <2> USE DEF LeavesNoTrace, ViewsInv, ViewTypeOK
    <2>1. CASE Begin
      BY <2>1 DEF Begin
    <2>2. CASE Load \/ LoadReturns \/ DropEnds \/ Interrupt \/ DropFails
      BY <2>2 DEF Load, LoadReturns, DropEnds, Interrupt, DropFails
    <2>3. ASSUME NEW v \in View, ViewStep(v)
          PROVE  Fresh'
      <3>1. CASE SelectInto(v)
        BY <3>1 DEF SelectInto
      <3>2. CASE SelectIntoRefused(v) \/ SelectIntoFails(v)
        BY <3>2 DEF SelectIntoRefused, SelectIntoFails
      <3>3. CASE DropTable(v)
        BY <3>3 DEF DropTable, First
      <3>4. QED
        BY <2>3, <3>1, <3>2, <3>3 DEF ViewStep
    <2>4. CASE UNCHANGED viewVars
      BY <2>4 DEF viewVars
    <2>5. QED
      BY <2>1, <2>2, <2>3, <2>4 DEF ViewNext
  <1>3. Fresh => LeavesNoTrace
    BY DEF LeavesNoTrace
  <1>4. QED
    BY <1>1, <1>2, <1>3, ViewsInvariance, PTL DEF ViewSpec

----------------------------------------------------------------------------
(* TableNavigation. A load of one schema reads and writes the tables in the *)
(* order of the catalog, each by its own name, for catalogs of any size.    *)

\* The tables of a catalog of one schema are those of the schema.
LEMMA FlattenOfOne ==
    ASSUME NEW seqs, Len(seqs) = 1
    PROVE  FlattenSeq(seqs) = seqs[1]
  <1> DEFINE P(f) == f = [i \in 1..Len(seqs) |-> IF i = 1 THEN seqs[i] ELSE f[i - 1] \o seqs[i]]
             W == [i \in 1..1 |-> seqs[1]]
  <1>1. P(W)
    <2>1. \A i \in 1..1 : i = 1
      OBVIOUS
    <2>2. QED
      BY <2>1
  <1>2. P(CHOOSE f : P(f))
    <2>1. \E f : P(f)
      BY <1>1
    <2> HIDE DEF P
    <2>2. QED
      BY <2>1
  <1>3. FlattenSeq(seqs) = (CHOOSE f : P(f))[Len(seqs)]
    <2>1. Len(seqs) # 0
      OBVIOUS
    <2>2. QED
      BY <2>1, Zenon DEF FlattenSeq
  <1> DEFINE F == CHOOSE f : P(f)
  <1>4. F = [i \in 1..1 |-> IF i = 1 THEN seqs[i] ELSE F[i - 1] \o seqs[i]]
    BY <1>2
  <1> HIDE DEF F
  <1>5. F[1] = seqs[1]
    BY <1>4
  <1>6. QED
    BY <1>3, <1>5 DEF F


NavTypes ==
    /\ catalog \in Catalogs
    /\ pos \in 1 .. Len(Tables) + 1
    /\ stage \in {"activate", "copy", "done", "failed"}

\* Every table before the current one is loaded, and the current one is active.
InCatalogOrder ==
    /\ copies = [i \in 1 .. pos - 1 |-> [from |-> Tables[i], to |-> Tables[i]]]
    /\ stage = "copy" => activeTable = pos /\ pos <= Len(Tables)
    /\ stage = "done" => pos = Len(Tables) + 1
    /\ stage = "failed" => faults = 1

\* What is known of the tables once there is one schema; nothing else about the
\* catalog is needed below.
OneSchemaFacts ==
    /\ Len(Tables) \in Nat
    /\ DOMAIN Tables = 1..Len(Tables)
    /\ \A i \in DOMAIN Tables : Found(Tables[i]) = {i}
    /\ \A i \in DOMAIN Tables : Qualified(schema, Tables[i].table) = Tables[i]
    /\ \A i \in DOMAIN Tables : Tables[i].schema = schema

LEMMA OneSchemaTables ==
    ASSUME catalog \in Catalogs, OneSchema
    PROVE  OneSchemaFacts
  <1> DEFINE names == catalog[1].tables
  <1>1. catalog \in Seq([name : Name, tables : Seq(Name)]) /\ Len(catalog) = 1
    BY CatalogsAssumption DEF OneSchema
  <1>2. 1 \in DOMAIN catalog /\ DOMAIN catalog = 1..1 /\ catalog # <<>>
    BY <1>1
  <1>3. names \in Seq(Name) /\ catalog[1].name = schema
    <2> DEFINE Schema == [name : Name, tables : Seq(Name)]
    <2>1. catalog[1] \in Schema
      <3> HIDE DEF Schema
      <3>1. catalog \in Seq(Schema)
        BY <1>1 DEF Schema
      <3>2. QED
        BY <1>1, <3>1
    <2>2. QED
      BY <2>1 DEF OneSchema
  <1>4. \A i, j \in DOMAIN names : names[i] = names[j] => i = j
    BY <1>2, CatalogsAssumption
  <1>5. Tables = TablesOf(catalog[1])
    <2> DEFINE seqs == [k \in DOMAIN catalog |-> TablesOf(catalog[k])]
    <2>1. seqs[1] = TablesOf(catalog[1])
      BY <1>2
    <2>2. Len(seqs) = 1
      <3>1. DOMAIN seqs = 1..1
        BY <1>2
      <3> HIDE DEF seqs
      <3>2. QED
        BY <3>1
    <2> HIDE DEF seqs
    <2>3. FlattenSeq(seqs) = seqs[1]
      BY <2>2, FlattenOfOne
    <2>4. QED
      BY <2>1, <2>3 DEF Tables, seqs
  <1>6. Tables = [i \in DOMAIN names |-> Qualified(schema, names[i])]
    BY <1>3, <1>5 DEF TablesOf
  <1>7. DOMAIN names = 1..Len(names) /\ Len(names) \in Nat
    BY <1>3
  <1>8. DOMAIN Tables = DOMAIN names /\ Len(Tables) = Len(names)
    BY <1>6, <1>7
  <1>9. \A i \in DOMAIN Tables : Tables[i] = Qualified(schema, names[i])
    BY <1>6
  <1>10. \A i \in DOMAIN Tables : Found(Tables[i]) = {i}
    <2> TAKE i \in DOMAIN Tables
    <2>1. Tables[i].table = names[i]
      BY <1>9 DEF Qualified
    <2>2. Found(Tables[i]) = {j \in DOMAIN names : names[j] = names[i]}
      BY <1>2, <2>1 DEF Found
    <2>3. QED
      BY <1>4, <1>8, <2>2
  <1>11. \A i \in DOMAIN Tables :
            /\ Qualified(schema, Tables[i].table) = Tables[i]
            /\ Tables[i].schema = schema
    BY <1>9 DEF Qualified
  <1>12. QED
    BY <1>7, <1>8, <1>10, <1>11 DEF OneSchemaFacts


\* The active table is the current one, and its rows go to the table of the same
\* name: SchemaName, which looks at the number of schemas, is right with one.
LEMMA NavStep ==
    ASSUME OneSchemaFacts, OneSchemaFacts', OneSchema,
           NavTypes, InCatalogOrder, [NavNext]_navVars
    PROVE  NavTypes' /\ InCatalogOrder'
  <1>1. UNCHANGED <<kind, catalog, schema>> /\ Tables' = Tables
    BY DEF NavNext, navVars, sourceFields, SetActiveTable, NotFound, Copy,
           CopyFails, AllVisited, Tables, TablesOf
  <1> DEFINE n == Len(Tables)
  <1>2. n \in Nat /\ DOMAIN Tables = 1..n /\ pos \in 1 .. n + 1
    BY DEF OneSchemaFacts, NavTypes
  <1>3. ASSUME stage = "copy"
        PROVE  /\ ActiveTable = Tables[pos] /\ Destination = Tables[pos]
               /\ Exists(Destination)
    <2>1. pos \in DOMAIN Tables /\ activeTable = pos
      BY <1>2, <1>3 DEF InCatalogOrder
    <2>2. ActiveTable = Tables[pos]
      BY <2>1 DEF ActiveTable
    <2>3. SchemaName = schema
      BY <2>1, <2>2 DEF SchemaName, OneSchemaFacts
    <2>4. Destination = Tables[pos]
      BY <2>1, <2>2, <2>3 DEF Destination, OneSchemaFacts
    <2>5. QED
      BY <2>1, <2>2, <2>4 DEF Exists
  <1> HIDE DEF n
  <1>4. CASE SetActiveTable
    <2>1. stage = "activate" /\ stage' = "copy" /\ pos <= n /\ UNCHANGED <<pos, copies, faults>>
      BY <1>4 DEF SetActiveTable, TableNames, n
    <2>2. Found(Tables[pos]) = {pos}
      BY <1>2, <2>1 DEF OneSchemaFacts
    <2>3. activeTable' = pos
      BY <1>4, <2>2 DEF SetActiveTable, TableNames
    <2>4. QED
      BY <1>1, <1>2, <2>1, <2>3 DEF NavTypes, InCatalogOrder, n
  <1>5. CASE NotFound
    <2>1. pos <= n
      BY <1>5 DEF NotFound, TableNames, n
    <2>2. pos \in DOMAIN Tables
      BY <1>2, <2>1
    <2>3. Found(Tables[pos]) = {pos}
      BY <2>2 DEF OneSchemaFacts
    <2>4. Found(Tables[pos]) = {}
      BY <1>5 DEF NotFound, TableNames
    <2>5. QED
      BY <2>3, <2>4
  <1>6. CASE Copy
    <2>1. stage = "copy" /\ stage' = "activate" /\ pos' = pos + 1 /\ UNCHANGED faults
      BY <1>6 DEF Copy
    <2>2. pos <= n
      BY <2>1 DEF InCatalogOrder, n
    <2>3. copies' = Append(copies, [from |-> Tables[pos], to |-> Tables[pos]])
      BY <1>3, <1>6, <2>1 DEF Copy
    <2>4. copies = [i \in 1 .. pos - 1 |-> [from |-> Tables[i], to |-> Tables[i]]]
      BY DEF InCatalogOrder
    <2>5. copies' = [i \in 1 .. pos' - 1 |-> [from |-> Tables[i], to |-> Tables[i]]]
      <3> DEFINE Pair(i) == [from |-> Tables[i], to |-> Tables[i]]
      <3>1. /\ copies' = Append(copies, Pair(pos))
            /\ copies = [i \in 1 .. pos - 1 |-> Pair(i)]
        BY <2>3, <2>4
      <3> HIDE DEF Pair
      <3>2. copies' = [i \in 1 .. pos |-> Pair(i)]
        BY <1>2, <3>1
      <3>3. pos' - 1 = pos
        BY <1>2, <2>1
      <3>4. QED
        BY <3>2, <3>3 DEF Pair
    <2>6. QED
      BY <1>1, <1>2, <2>1, <2>2, <2>5 DEF NavTypes, InCatalogOrder, n
  <1>7. CASE CopyFails
    <2>1. stage' = "failed" /\ faults' = 1 /\ UNCHANGED <<pos, copies>>
      BY <1>3, <1>7 DEF CopyFails
    <2>2. QED
      BY <1>1, <2>1 DEF NavTypes, InCatalogOrder
  <1>8. CASE AllVisited
    BY <1>1, <1>2, <1>8 DEF AllVisited, TableNames, NavTypes, InCatalogOrder, n
  <1>9. CASE UNCHANGED navVars
    BY <1>1, <1>9 DEF navVars, NavTypes, InCatalogOrder
  <1>10. QED
    BY <1>4, <1>5, <1>6, <1>7, <1>8, <1>9 DEF NavNext

NavInv ==
    /\ catalog \in Catalogs
    /\ OneSchema => OneSchemaFacts /\ NavTypes /\ InCatalogOrder

\* The inductive invariant of the loop over the tables.
THEOREM NavInvariance == NavSpec => []NavInv
  <1>1. NavInit => NavInv
    <2> SUFFICES ASSUME NavInit, OneSchema
                 PROVE  OneSchemaFacts /\ NavTypes /\ InCatalogOrder
      BY DEF NavInit, NavInv
    <2>1. catalog \in Catalogs /\ pos = 1 /\ stage = "activate" /\ copies = <<>>
      BY DEF NavInit
    <2>2. OneSchemaFacts
      BY <2>1, OneSchemaTables
    <2>3. QED
      BY <2>1, <2>2 DEF OneSchemaFacts, NavTypes, InCatalogOrder
  <1>2. NavInv /\ [NavNext]_navVars => NavInv'
    <2> SUFFICES ASSUME NavInv, [NavNext]_navVars
                 PROVE  NavInv'
      OBVIOUS
    <2>1. UNCHANGED <<catalog, schema>>
      BY DEF NavNext, navVars, sourceFields, SetActiveTable, NotFound, Copy,
             CopyFails, AllVisited
    <2>2. (OneSchema' <=> OneSchema) /\ (OneSchemaFacts' <=> OneSchemaFacts)
      BY <2>1 DEF OneSchema, OneSchemaFacts, Tables, TablesOf, Found
    <2>3. QED
      BY <2>1, <2>2, NavStep DEF NavInv
  <1>3. QED
    BY <1>1, <1>2, PTL DEF NavSpec

\* copyAllTables: a load of one schema that ends without error has read every
\* table of the catalog once and written it to the table of its own name.
THEOREM EachTableIsLoadedOnce == NavSpec => []EachTableOnce
  <1>1. NavInv => EachTableOnce
    BY DEF NavInv, EachTableOnce, OneSchemaFacts, InCatalogOrder
  <1>2. QED
    BY <1>1, NavInvariance, PTL

\* SetActiveTable and SchemaName: with one schema, no load fails because a table
\* of its own catalog is not found.
THEOREM TablesAreFound == NavSpec => []FindsItsTables
  <1>1. NavInv => FindsItsTables
    BY DEF NavInv, FindsItsTables, InCatalogOrder
  <1>2. QED
    BY <1>1, NavInvariance, PTL

=============================================================================
