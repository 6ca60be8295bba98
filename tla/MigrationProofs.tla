--------------------------- MODULE MigrationProofs ---------------------------
(***************************************************************************)
(* What a migration promises for every source, its rows first: MInv is what *)
(* the run has done at each stage to the tables before the current one, and *)
(* not yet to those after it, whatever the foreign keys (cycles included),  *)
(* the options and the runs before.                                         *)
(*                                                                          *)
(* Then its schema. SchemaInv is that the catalog holds what has been read  *)
(* of the tables so far and that the scripts drop no other. BuildInv adds   *)
(* that each statement of a run is still to come or has built what it was   *)
(* to, with nothing to come that undoes it, and that the indexes which      *)
(* CREATE INDEX IF NOT EXISTS may pass over are those of this source. The   *)
(* keys are a property of what the readers return.                          *)
(***************************************************************************)
EXTENDS Migration, TargetSchema, SequenceLemmas, FiniteSetTheorems, TLAPS

Fresh == opts \cap {"CreateTables", "Truncate"} # {}

Preparing == stage \in {"drop", "create", "truncate"}

Completing == stage \in {"index", "fkey", "sequence"}

AbsentIsEmpty == \A t \in Table : t \notin exists => rows[t] = Empty

\* When the run has emptied, and when it has loaded, the i-th table.
IsEmptied(i) ==
    \/ Preparing /\ i < at
    \/ stage = "truncate" /\ "CreateTables" \in opts /\ i <= at
    \/ stage = "copy" /\ i >= at

IsLoaded(i) ==
    \/ stage = "copy" /\ i < at
    \/ Completing
    \/ stage = "done" /\ "SchemaOnly" \notin opts

\* The rows during a run that creates or truncates.
RowsOf(i) ==
    /\ IsEmptied(i) => rows[Order[i]] = Empty
    /\ IsLoaded(i) => \A r \in Row : rows[Order[i]][r] = 1

LoadInv ==
    /\ stage = "fetch" => at = 1
    /\ AbsentIsEmpty
    /\ Fresh => \A i \in 1..Len(Order) : RowsOf(i)

\* The tables and the constraints during a run that drops first.
ScratchInv ==
    /\ \A t \in fkeys : Parent[t] \in Table
    /\ FromScratch =>
        /\ Preparing => \A i \in 1..Len(Order) : i < at =>
              /\ Order[i] \in exists /\ Order[i] \notin keyed
              /\ \A t \in fkeys : t # Order[i] /\ Parent[t] # Order[i]
        /\ stage = "create" => Here \notin exists
        /\ stage = "truncate" => Here \in exists /\ Here \notin keyed
        /\ stage \in {"create", "truncate"} =>
              \A t \in fkeys : t # Here /\ Parent[t] # Here
        /\ stage = "copy" => exists = Table /\ keyed = {} /\ fkeys = {}
        /\ stage = "index" =>
              /\ exists = Table /\ fkeys = {}
              /\ \A i \in 1..Len(Order) :
                    Order[i] \in keyed <=> "CreateIndexes" \in opts /\ i < at
        /\ stage = "fkey" =>
              /\ exists = Table
              /\ \A t \in Table : t \in keyed <=> "CreateIndexes" \in opts
              /\ \A i \in 1..Len(Order) :
                    Order[i] \in fkeys <=>
                        "ForeignKeys" \in opts /\ i < at /\ Parent[Order[i]] # NoParent
        /\ stage = "sequence" \/ (stage = "done" /\ opts \cap {"SchemaOnly", "DataOnly"} = {}) =>
              /\ exists = Table
              /\ "CreateIndexes" \in opts => keyed = Table
              /\ "ForeignKeys" \in opts => \A t \in Table : Parent[t] # NoParent => t \in fkeys
        /\ schema = "public" /\ faults = 0 /\ "ResetSequences" \in opts =>
              /\ stage = "sequence" => \A i \in 1..Len(Order) : i < at => Order[i] \notin lagging
              /\ stage = "done" /\ opts \cap {"SchemaOnly", "DataOnly"} = {} => lagging = {}

MInv == TypeOK /\ LoadInv /\ ScratchInv

----------------------------------------------------------------------------
(* Facts about the tables and the current one *)

LEMMA OrderFacts ==
  /\ Len(Order) \in Nat /\ Len(Order) > 0 /\ DOMAIN Order = 1..Len(Order)
  /\ \A i \in 1..Len(Order) : Order[i] \in Table
  /\ \A t \in Table : \E i \in 1..Len(Order) : Order[i] = t
  /\ \A i, j \in 1..Len(Order) : Order[i] = Order[j] => i = j
  BY OrderAssumption

LEMMA HereFacts ==
  ASSUME TypeOK
  PROVE  at \in 1..Len(Order) /\ at \in Nat /\ Here \in Table /\ Here = Order[at]
  BY OrderFacts DEF TypeOK, Here

\* The cursor after a loop step.
LEMMA NextTableFacts ==
  ASSUME TypeOK, NEW this, NEW following, NextTable(this, following)
  PROVE  /\ at' \in 1..Len(Order)
         /\ \/ at < Len(Order) /\ stage' = this /\ at' = at + 1
            \/ at = Len(Order) /\ stage' = following /\ at' = 1
  BY OrderFacts, HereFacts DEF NextTable

LEMMA EmptyFacts == Empty \in [Row -> Nat] /\ \A r \in Row : Empty[r] = 0
  BY DEF Empty

----------------------------------------------------------------------------
(* Types *)

LEMMA MigrationTypeStep == TypeOK /\ [Next]_vars => TypeOK'
  <1> SUFFICES ASSUME TypeOK, [Next]_vars PROVE TypeOK'
    OBVIOUS
  <1> USE HereFacts, OrderFacts DEF TypeOK, Stays, Stages, target
  <1>1. ASSUME NEW o \in OptionSets, StartRun(o) PROVE TypeOK'
    BY <1>1 DEF StartRun
  <1>2. CASE FetchMetadata
    BY <1>2 DEF FetchMetadata
  <1>3. CASE DropTable
    <2>1. rows' \in [Table -> [Row -> Nat]]
      <3>1. rows' = rows \/ rows' = [rows EXCEPT ![Here] = Empty]
        BY <1>3 DEF DropTable
      <3>2. QED
        BY <3>1, EmptyFacts
    <2>2. QED
      BY <1>3, <2>1 DEF DropTable
  <1>4. CASE CreateTable
    BY <1>4 DEF CreateTable
  <1>5. CASE Truncate
    <2>1. rows' \in [Table -> [Row -> Nat]]
      BY <1>5, EmptyFacts DEF Truncate
    <2>2. at' \in DOMAIN Order /\ stage' \in Stages \cup {"idle", "done", "failed"}
      BY <1>5, NextTableFacts DEF Truncate, AfterPrepare
    <2>3. QED
      BY <1>5, <2>1, <2>2 DEF Truncate
  <1>6. ASSUME NEW some \in SUBSET Row PROVE Copied(some) \in [Table -> [Row -> Nat]]
    <2>1. \A r \in Row : rows[Here][r] \in Nat
      OBVIOUS
    <2>2. [r \in Row |-> IF r \in some THEN rows[Here][r] + 1 ELSE rows[Here][r]] \in [Row -> Nat]
      BY <2>1
    <2>3. QED
      BY <2>2 DEF Copied
  <1>7. CASE Copy
    <2>1. rows' \in [Table -> [Row -> Nat]]
      BY <1>6, <1>7 DEF Copy
    <2>2. at' \in DOMAIN Order /\ stage' \in Stages \cup {"idle", "done", "failed"}
      BY <1>7, NextTableFacts DEF Copy, AfterCopy
    <2>3. QED
      BY <1>7, <2>1, <2>2 DEF Copy
  <1>8. CASE CreateIndex
    <2>1. at' \in DOMAIN Order /\ stage' \in Stages \cup {"idle", "done", "failed"}
      BY <1>8, NextTableFacts DEF CreateIndex
    <2>2. QED
      BY <1>8, <2>1 DEF CreateIndex, Refused
  <1>9. CASE CreateForeignKey
    <2>1. at' \in DOMAIN Order /\ stage' \in Stages \cup {"idle", "done", "failed"}
      BY <1>9, NextTableFacts DEF CreateForeignKey
    <2>2. QED
      BY <1>9, <2>1 DEF CreateForeignKey, Refused
  <1>10. CASE ResetSequence
    <2>1. at' \in DOMAIN Order /\ stage' \in Stages \cup {"idle", "done", "failed"}
      BY <1>10, NextTableFacts DEF ResetSequence
    <2>2. QED
      BY <1>10, <2>1 DEF ResetSequence
  <1>11. CASE Fail
    <2>1. rows' \in [Table -> [Row -> Nat]] /\ lagging' \in SUBSET Table
      BY <1>6, <1>11 DEF Fail
    <2>2. QED
      BY <1>11, <2>1 DEF Fail
  <1>12. CASE UNCHANGED vars
    BY <1>12 DEF vars, runVars
  <1>13. QED
    BY <1>1, <1>2, <1>3, <1>4, <1>5, <1>7, <1>8, <1>9, <1>10, <1>11, <1>12 DEF Next, Work
----------------------------------------------------------------------------
(* The rows *)

LEMMA LoadStep == TypeOK /\ LoadInv /\ [Next]_vars => LoadInv'
  <1> SUFFICES ASSUME TypeOK, LoadInv, [Next]_vars PROVE LoadInv'
    OBVIOUS
  <1> USE DEF RowsOf, IsEmptied, IsLoaded, Preparing, Completing
  <1>1. /\ rows \in [Table -> [Row -> Nat]] /\ at \in 1..Len(Order) /\ Len(Order) \in Nat
        /\ Here \in Table /\ Here = Order[at] /\ exists \in SUBSET Table
    BY HereFacts, OrderFacts DEF TypeOK
  <1>2. (stage = "fetch" => at = 1) /\ AbsentIsEmpty /\ (Fresh => \A i \in 1..Len(Order) : RowsOf(i))
    BY DEF LoadInv
  \* Order[i] is the current table only at i = at.
  <1>3. \A i \in 1..Len(Order) : Order[i] \in Table /\ (Order[i] = Here => i = at)
    BY <1>1, OrderFacts
  <1>0. /\ at \in Nat /\ at <= Len(Order) /\ Len(Order) \in Nat
        /\ \A i \in 1..Len(Order) : i \in Nat /\ i <= Len(Order)
    BY <1>1
  <1>4. ASSUME UNCHANGED <<rows, exists, opts>>, stage' # "fetch" \/ at' = 1,
               \A i \in 1..Len(Order) : (IsEmptied(i)' => IsEmptied(i)) /\ (IsLoaded(i)' => IsLoaded(i))
        PROVE  LoadInv'
    BY <1>2, <1>4 DEF LoadInv, AbsentIsEmpty, Fresh
  <1>5. ASSUME NEW o \in OptionSets, StartRun(o) PROVE LoadInv'
    BY <1>2, <1>5 DEF StartRun, LoadInv, AbsentIsEmpty, target
  <1>6. CASE FetchMetadata
    <2>1. stage = "fetch" /\ stage' = "drop" /\ at' = at /\ UNCHANGED <<rows, exists, opts>>
      BY <1>6 DEF FetchMetadata, target, Stays
    <2>2. QED
      BY <1>1, <1>2, <1>4, <2>1
  <1>7. CASE DropTable
    <2>1. /\ stage = "drop" /\ stage' = "create" /\ at' = at /\ opts' = opts
          /\ \/ rows' = rows /\ exists' = exists
             \/ rows' = [rows EXCEPT ![Here] = Empty] /\ exists' = exists \ {Here}
      BY <1>7 DEF DropTable, target, Stays
    <2>2. CASE rows' = rows /\ exists' = exists
      BY <1>1, <1>4, <2>1, <2>2
    <2>3. CASE rows' = [rows EXCEPT ![Here] = Empty] /\ exists' = exists \ {Here}
      <3>1. AbsentIsEmpty'
        BY <1>1, <1>2, <2>3 DEF AbsentIsEmpty
      <3>2. ASSUME NEW i \in 1..Len(Order), Fresh PROVE RowsOf(i)'
        BY <1>1, <1>2, <1>3, <2>1, <2>3, <3>2
      <3>3. QED
        BY <2>1, <3>1, <3>2 DEF LoadInv, Fresh
    <2>4. QED
      BY <2>1, <2>2, <2>3
  <1>8. CASE CreateTable
    <2>1. /\ stage = "create" /\ stage' = "truncate" /\ at' = at /\ opts' = opts
          /\ rows' = rows /\ exists \subseteq exists'
          /\ "CreateTables" \in opts => Here \notin exists
      BY <1>8 DEF CreateTable, Refused, Stays
    <2>2. "CreateTables" \in opts => rows[Here] = Empty
      BY <1>1, <1>2, <2>1 DEF AbsentIsEmpty
    <2>3. ASSUME NEW i \in 1..Len(Order), Fresh PROVE RowsOf(i)'
      BY <1>1, <1>2, <2>1, <2>2, <2>3
    <2>4. QED
      BY <1>2, <2>1, <2>3 DEF LoadInv, AbsentIsEmpty, Fresh
  <1>9. CASE Truncate
    <2>1. /\ stage = "truncate" /\ opts' = opts /\ exists' = exists
          /\ \/ "Truncate" \in opts /\ rows' = [rows EXCEPT ![Here] = Empty]
             \/ "Truncate" \notin opts /\ rows' = rows
      BY <1>9 DEF Truncate, Stays
    <2>2. \/ at < Len(Order) /\ stage' = "drop" /\ at' = at + 1
          \/ /\ at = Len(Order) /\ at' = 1
             /\ stage' = "copy" \/ (stage' = "done" /\ "SchemaOnly" \in opts)
      BY <1>9, NextTableFacts DEF Truncate, AfterPrepare
    <2>3. AbsentIsEmpty'
      BY <1>1, <1>2, <2>1 DEF AbsentIsEmpty
    <2>4. ASSUME Fresh, NEW i \in 1..Len(Order), i <= at
          PROVE  rows'[Order[i]] = Empty
      <3>1. RowsOf(i) /\ Order[i] \in Table /\ i \in Nat /\ at \in Nat
        BY <1>0, <1>2, <1>3, <2>4
      <3>2. i < at => rows[Order[i]] = Empty
        BY <2>1, <3>1
      <3>3. CASE "Truncate" \in opts
        <4>1. rows'[Here] = Empty /\ \A t \in Table : rows'[t] = rows[t] \/ rows'[t] = Empty
          BY <1>1, <2>1, <3>3
        <4>2. i = at => Order[i] = Here
          BY <1>1
        <4>3. QED
          BY <2>4, <3>1, <3>2, <4>1, <4>2
      <3>4. CASE "Truncate" \notin opts
        <4>1. rows' = rows /\ "CreateTables" \in opts
          BY <2>1, <2>4, <3>4 DEF Fresh
        <4>2. i = at => rows[Order[i]] = Empty
          BY <2>1, <3>1, <4>1
        <4>3. QED
          BY <2>4, <3>1, <3>2, <4>1, <4>2
      <3>5. QED
        BY <3>3, <3>4
    <2>5. ASSUME NEW i \in 1..Len(Order), Fresh PROVE RowsOf(i)'
      <3>1. i \in Nat /\ at \in Nat /\ i <= Len(Order)
        BY <1>1
      <3>2. CASE at < Len(Order) /\ stage' = "drop" /\ at' = at + 1
        <4>1. ~IsLoaded(i)' /\ (IsEmptied(i)' => i <= at)
          BY <3>1, <3>2
        <4>2. QED
          BY <2>4, <2>5, <4>1
      <3>3. CASE at = Len(Order) /\ at' = 1 /\ stage' = "copy"
        <4>1. ~IsLoaded(i)' /\ i <= at
          BY <3>1, <3>3
        <4>2. QED
          BY <2>4, <2>5, <4>1
      <3>4. CASE stage' = "done" /\ "SchemaOnly" \in opts
        <4>1. ~IsLoaded(i)' /\ ~IsEmptied(i)'
          BY <2>1, <3>4
        <4>2. QED
          BY <4>1
      <3>5. QED
        BY <2>2, <3>2, <3>3, <3>4
    <2>6. QED
      BY <2>1, <2>2, <2>3, <2>5 DEF LoadInv, Fresh
  <1>10. CASE Copy
    <2>1. /\ stage = "copy" /\ opts' = opts /\ exists' = exists /\ rows' = Copied(Row)
          /\ Here \in exists
      BY <1>10 DEF Copy, Stays, Refused
    <2>2. \/ at < Len(Order) /\ stage' = "copy" /\ at' = at + 1
          \/ at = Len(Order) /\ at' = 1 /\ stage' \in {"done", "index"}
      BY <1>10, NextTableFacts DEF Copy, AfterCopy
    <2>3. /\ \A t \in Table \ {Here} : rows'[t] = rows[t]
          /\ \A r \in Row : rows'[Here][r] = rows[Here][r] + 1
      BY <1>1, <2>1 DEF Copied
    <2>4. AbsentIsEmpty'
      BY <1>2, <2>1, <2>3 DEF AbsentIsEmpty
    <2>5. Fresh => \A r \in Row : rows'[Here][r] = 1
      <3>1. Fresh => rows[Here] = Empty
        BY <1>1, <1>2, <2>1
      <3>2. QED
        BY <2>3, <3>1, EmptyFacts
    <2>6. ASSUME NEW i \in 1..Len(Order), Fresh PROVE RowsOf(i)'
      <3>1. CASE i = at
        <4>1. ~IsEmptied(i)'
          BY <1>0, <2>2, <3>1
        <4>2. Order[i] = Here
          BY <1>1, <3>1
        <4>3. QED
          BY <2>5, <2>6, <4>1, <4>2
      <3>2. CASE i # at
        <4>1. rows'[Order[i]] = rows[Order[i]]
          BY <1>3, <2>3, <3>2
        <4>2. RowsOf(i)
          BY <1>2, <2>6
        <4>3. IsEmptied(i)' => IsEmptied(i)
          BY <1>0, <2>1, <2>2, <3>2
        <4>4. IsLoaded(i)' => IsLoaded(i)
          BY <1>0, <2>1, <2>2, <3>2
        <4>5. QED
          BY <4>1, <4>2, <4>3, <4>4
      <3>3. QED
        BY <3>1, <3>2
    <2>7. QED
      BY <2>1, <2>2, <2>4, <2>6 DEF LoadInv, Fresh
  <1>11. CASE CreateIndex \/ CreateForeignKey \/ ResetSequence
    <2>1. /\ Completing /\ stage' \in {"index", "fkey", "sequence", "done"}
          /\ UNCHANGED <<rows, exists, opts>>
      BY <1>11, NextTableFacts DEF CreateIndex, CreateForeignKey, ResetSequence, Stays
    <2>2. QED
      BY <1>4, <2>1
  <1>12. CASE Fail
    <2>1. stage' = "failed" /\ opts' = opts /\ exists' = exists
      BY <1>12 DEF Fail, target
    <2>2. rows' = rows \/ (Here \in exists /\ \E some \in SUBSET Row : rows' = Copied(some))
      BY <1>12 DEF Fail, target
    <2>3. \A t \in Table : t \notin exists => rows'[t] = rows[t]
      BY <1>1, <2>2 DEF Copied
    <2>4. QED
      BY <1>2, <2>1, <2>3 DEF LoadInv, AbsentIsEmpty
  <1>13. CASE UNCHANGED vars
    BY <1>4, <1>2, <1>13 DEF vars, runVars, target
  <1>14. QED
    BY <1>5, <1>6, <1>7, <1>8, <1>9, <1>10, <1>11, <1>12, <1>13 DEF Next, Work

----------------------------------------------------------------------------
(* The tables and the constraints *)

LEMMA ScratchStep == TypeOK /\ LoadInv /\ ScratchInv /\ [Next]_vars => ScratchInv'
  <1> SUFFICES ASSUME TypeOK, LoadInv, ScratchInv, [Next]_vars PROVE ScratchInv'
    OBVIOUS
  <1> USE DEF Preparing, FromScratch
  <1>1. /\ at \in 1..Len(Order) /\ Len(Order) \in Nat /\ Here \in Table /\ Here = Order[at]
        /\ exists \in SUBSET Table /\ keyed \in SUBSET exists /\ fkeys \in SUBSET exists
        /\ lagging \in SUBSET Table
    BY HereFacts, OrderFacts DEF TypeOK
  <1>2. /\ \A i \in 1..Len(Order) : Order[i] \in Table /\ (Order[i] = Here => i = at)
        /\ \A t \in Table : \E i \in 1..Len(Order) : Order[i] = t
    BY <1>1, OrderFacts
  <1>3. /\ at \in Nat /\ at <= Len(Order) /\ Len(Order) \in Nat
        /\ \A i \in 1..Len(Order) : i \in Nat /\ i <= Len(Order)
    BY <1>1
  <1>4. \A t \in fkeys : Parent[t] \in Table
    BY DEF ScratchInv
  <1>5. ASSUME NEW o \in OptionSets, StartRun(o) PROVE ScratchInv'
    BY <1>4, <1>5 DEF StartRun, target, ScratchInv
  <1>6. CASE FetchMetadata
    <2>1. /\ stage' = "drop" /\ at' = 1
          /\ UNCHANGED <<opts, exists, keyed, fkeys>>
      BY <1>6 DEF FetchMetadata, target, Stays, LoadInv
    <2>2. \A i \in 1..Len(Order) : ~(i < 1)
      BY <1>3
    <2>3. QED
      BY <1>4, <2>1, <2>2 DEF ScratchInv
  <1>7. CASE DropTable
    <2>1. stage = "drop" /\ stage' = "create" /\ at' = at /\ opts' = opts /\ Here' = Here
      BY <1>7 DEF DropTable, Stays, Here
    <2>2. fkeys' \subseteq fkeys
      BY <1>7 DEF DropTable, target
    <2>3. ASSUME FromScratch
          PROVE  /\ exists' = exists \ {Here} /\ keyed' = keyed \ {Here}
                 /\ fkeys' = fkeys \ ({Here} \cup ReferencedBy(Here))
      BY <1>7, <2>3 DEF DropTable
    <2>4. QED
      BY <1>1, <1>2, <1>4, <2>1, <2>2, <2>3 DEF ScratchInv, ReferencedBy
  <1>8. CASE CreateTable
    <2>1. /\ stage = "create" /\ stage' = "truncate" /\ at' = at /\ opts' = opts /\ Here' = Here
          /\ keyed' = keyed /\ fkeys' = fkeys /\ exists \subseteq exists'
          /\ "CreateTables" \in opts => Here \notin exists /\ Here \in exists'
      BY <1>8 DEF CreateTable, Refused, Stays, Here
    <2>2. QED
      BY <1>1, <2>1 DEF ScratchInv
  <1>9. CASE Truncate
    <2>1. /\ stage = "truncate" /\ opts' = opts
          /\ UNCHANGED <<exists, keyed, fkeys>>
      BY <1>9 DEF Truncate, Stays
    <2>2. \/ at < Len(Order) /\ stage' = "drop" /\ at' = at + 1
          \/ /\ at = Len(Order) /\ at' = 1
             /\ stage' = "copy" \/ (stage' = "done" /\ "SchemaOnly" \in opts)
      BY <1>9, NextTableFacts DEF Truncate, AfterPrepare
    <2>3. ASSUME FromScratch, NEW i \in 1..Len(Order), i <= at
          PROVE  /\ Order[i] \in exists /\ Order[i] \notin keyed
                 /\ \A t \in fkeys : t # Order[i] /\ Parent[t] # Order[i]
      <3>1. CASE i = at
        BY <1>1, <2>1, <2>3, <3>1 DEF ScratchInv
      <3>2. CASE i < at
        BY <2>1, <2>3, <3>2 DEF ScratchInv
      <3>3. QED
        BY <1>3, <2>3, <3>1, <3>2
    <2>4. CASE at < Len(Order) /\ stage' = "drop" /\ at' = at + 1
      <3>1. \A i \in 1..Len(Order) : i < at' => i <= at
        BY <1>3, <2>4
      <3>2. QED
        BY <1>4, <2>1, <2>3, <2>4, <3>1 DEF ScratchInv
    <2>5. CASE at = Len(Order) /\ at' = 1 /\ stage' = "copy"
      <3>1. ASSUME FromScratch PROVE exists = Table /\ keyed = {} /\ fkeys = {}
        <4>1. \A i \in 1..Len(Order) : i <= at
          BY <1>3, <2>5
        <4>2. \A t \in Table : t \in exists /\ t \notin keyed /\ t \notin fkeys
          BY <1>2, <2>3, <3>1, <4>1
        <4>3. QED
          BY <1>1, <4>2
      <3>2. QED
        BY <1>4, <2>1, <2>5, <3>1 DEF ScratchInv
    <2>6. CASE stage' = "done" /\ "SchemaOnly" \in opts
      BY <1>4, <2>1, <2>6 DEF ScratchInv
    <2>7. QED
      BY <2>2, <2>4, <2>5, <2>6
  <1>10. CASE Copy
    <2>1. stage = "copy" /\ opts' = opts /\ UNCHANGED <<exists, keyed, fkeys>>
      BY <1>10 DEF Copy, Stays
    <2>2. \/ stage' = "copy"
          \/ stage' = "done" /\ "DataOnly" \in opts
          \/ stage' = "index" /\ at' = 1
      BY <1>10, NextTableFacts DEF Copy, AfterCopy
    <2>3. \A i \in 1..Len(Order) : ~(i < 1)
      BY <1>3
    <2>4. QED
      BY <1>4, <2>1, <2>2, <2>3 DEF ScratchInv
  <1>11. CASE CreateIndex
    <2>1. /\ stage = "index" /\ opts' = opts /\ exists' = exists /\ fkeys' = fkeys
          /\ "CreateIndexes" \in opts => keyed' = keyed \cup {Here}
          /\ "CreateIndexes" \notin opts => keyed' = keyed
      BY <1>11 DEF CreateIndex, Stays
    <2>2. \/ at < Len(Order) /\ stage' = "index" /\ at' = at + 1
          \/ at = Len(Order) /\ stage' = "fkey" /\ at' = 1
      BY <1>11, NextTableFacts DEF CreateIndex
    <2>3. ASSUME FromScratch
          PROVE  /\ exists = Table /\ fkeys = {}
                 /\ \A i \in 1..Len(Order) :
                       Order[i] \in keyed' <=> "CreateIndexes" \in opts /\ i <= at
      <3>1. /\ exists = Table /\ fkeys = {}
            /\ \A i \in 1..Len(Order) :
                  Order[i] \in keyed <=> "CreateIndexes" \in opts /\ i < at
        BY <2>1, <2>3 DEF ScratchInv
      <3>2. \A i \in 1..Len(Order) : i <= at <=> i < at \/ i = at
        BY <1>3
      <3>3. \A i \in 1..Len(Order) : Order[i] = Here <=> i = at
        BY <1>1, <1>2
      <3>4. QED
        BY <2>1, <3>1, <3>2, <3>3
    <2>4. CASE at < Len(Order) /\ stage' = "index" /\ at' = at + 1
      <3>1. \A i \in 1..Len(Order) : i < at' <=> i <= at
        BY <1>3, <2>4
      <3>2. QED
        BY <1>4, <2>1, <2>3, <2>4, <3>1 DEF ScratchInv
    <2>5. CASE at = Len(Order) /\ stage' = "fkey" /\ at' = 1
      <3>1. \A i \in 1..Len(Order) : i <= at /\ ~(i < 1)
        BY <1>3, <2>5
      <3>2. FromScratch => \A t \in Table : t \in keyed' <=> "CreateIndexes" \in opts
        BY <1>2, <2>3, <3>1
      <3>3. QED
        BY <1>4, <2>1, <2>3, <2>5, <3>1, <3>2 DEF ScratchInv
    <2>6. QED
      BY <2>2, <2>4, <2>5
  <1>12. CASE CreateForeignKey
    <2> DEFINE creates == "ForeignKeys" \in opts /\ Parent[Here] # NoParent
    <2>1. /\ stage = "fkey" /\ opts' = opts /\ exists' = exists /\ keyed' = keyed
          /\ creates => fkeys' = fkeys \cup {Here}
          /\ ~creates => fkeys' = fkeys
      BY <1>12 DEF CreateForeignKey, Stays
    <2>2. \/ at < Len(Order) /\ stage' = "fkey" /\ at' = at + 1
          \/ at = Len(Order) /\ stage' = "sequence" /\ at' = 1
      BY <1>12, NextTableFacts DEF CreateForeignKey
    <2>3. \A t \in fkeys' : Parent[t] \in Table
      BY <1>1, <1>4, <2>1, OrderAssumption
    <2>4. ASSUME FromScratch
          PROVE  /\ exists = Table
                 /\ \A t \in Table : t \in keyed <=> "CreateIndexes" \in opts
                 /\ \A i \in 1..Len(Order) :
                       Order[i] \in fkeys' <=>
                           "ForeignKeys" \in opts /\ i <= at /\ Parent[Order[i]] # NoParent
      <3>1. /\ exists = Table
            /\ \A t \in Table : t \in keyed <=> "CreateIndexes" \in opts
            /\ \A i \in 1..Len(Order) :
                  Order[i] \in fkeys <=>
                      "ForeignKeys" \in opts /\ i < at /\ Parent[Order[i]] # NoParent
        BY <2>1, <2>4 DEF ScratchInv
      <3>2. \A i \in 1..Len(Order) : i <= at <=> i < at \/ i = at
        BY <1>3
      <3>3. \A i \in 1..Len(Order) : Order[i] = Here <=> i = at
        BY <1>1, <1>2
      <3>4. QED
        BY <2>1, <3>1, <3>2, <3>3
    <2>5. CASE at < Len(Order) /\ stage' = "fkey" /\ at' = at + 1
      <3>1. \A i \in 1..Len(Order) : i < at' <=> i <= at
        BY <1>3, <2>5
      <3>2. QED
        BY <2>1, <2>3, <2>4, <2>5, <3>1 DEF ScratchInv
    <2>6. CASE at = Len(Order) /\ stage' = "sequence" /\ at' = 1
      <3>1. \A i \in 1..Len(Order) : i <= at /\ ~(i < 1)
        BY <1>3, <2>6
      <3>2. FromScratch /\ "ForeignKeys" \in opts =>
                \A t \in Table : Parent[t] # NoParent => t \in fkeys'
        BY <1>2, <2>4, <3>1
      <3>3. FromScratch /\ "CreateIndexes" \in opts => keyed = Table
        BY <1>1, <2>4
      <3>4. QED
        BY <2>1, <2>3, <2>4, <2>6, <3>1, <3>2, <3>3 DEF ScratchInv
    <2>7. QED
      BY <2>2, <2>5, <2>6
  <1>13. CASE ResetSequence
    <2>1. /\ stage = "sequence" /\ UNCHANGED <<opts, schema, exists, keyed, fkeys>>
          /\ lagging' \subseteq lagging
          /\ faults' = 0 => faults = 0
      BY <1>13 DEF ResetSequence
    <2>2. \/ at < Len(Order) /\ stage' = "sequence" /\ at' = at + 1
          \/ at = Len(Order) /\ stage' = "done" /\ at' = 1
      BY <1>13, NextTableFacts DEF ResetSequence
    <2> DEFINE careful == FromScratch /\ schema = "public" /\ "ResetSequences" \in opts
    <2>3. ASSUME careful, faults' = 0, NEW i \in 1..Len(Order), i <= at
          PROVE  Order[i] \notin lagging'
      <3>1. exists = Table
        BY <2>1, <2>3 DEF ScratchInv
      <3>2. Here \notin lagging'
        BY <1>1, <1>13, <2>3, <3>1 DEF ResetSequence
      <3>3. i < at => Order[i] \notin lagging
        BY <2>1, <2>3 DEF ScratchInv
      <3>4. i < at \/ Order[i] = Here
        BY <1>1, <1>3, <2>3
      <3>5. QED
        BY <2>1, <3>2, <3>3, <3>4
    <2>4. CASE at < Len(Order) /\ stage' = "sequence" /\ at' = at + 1
      <3>1. \A i \in 1..Len(Order) : i < at' => i <= at
        BY <1>3, <2>4
      <3>2. QED
        BY <1>4, <2>1, <2>3, <2>4, <3>1 DEF ScratchInv
    <2>5. CASE at = Len(Order) /\ stage' = "done" /\ at' = 1
      <3>1. \A i \in 1..Len(Order) : i <= at
        BY <1>3, <2>5
      <3>2. careful /\ faults' = 0 => lagging' = {}
        BY <1>1, <1>2, <2>1, <2>3, <3>1
      <3>3. QED
        BY <1>4, <2>1, <2>5, <3>2 DEF ScratchInv
    <2>6. QED
      BY <2>2, <2>4, <2>5
  <1>14. CASE Fail
    BY <1>4, <1>14 DEF Fail, target, ScratchInv
  <1>15. CASE UNCHANGED vars
    BY <1>15 DEF vars, runVars, target, ScratchInv, Here
  <1>16. QED
    BY <1>5, <1>6, <1>7, <1>8, <1>9, <1>10, <1>11, <1>12, <1>13, <1>14, <1>15 DEF Next, Work

----------------------------------------------------------------------------
(* The theorems *)

\* MInv holds after any number of runs: the argument behind the theorems below.
THEOREM MigrationInvariance == Spec => []MInv
  <1>1. Init => MInv
    <2> SUFFICES ASSUME Init PROVE MInv
      OBVIOUS
    <2>1. TypeOK
      BY EmptyFacts, OrderFacts DEF Init, TypeOK, Stages
    <2>2. LoadInv
      BY DEF Init, LoadInv, AbsentIsEmpty, Fresh
    <2>3. ScratchInv
      BY DEF Init, ScratchInv, FromScratch
    <2>4. QED
      BY <2>1, <2>2, <2>3 DEF MInv
  <1>2. MInv /\ [Next]_vars => MInv'
    BY MigrationTypeStep, LoadStep, ScratchStep DEF MInv
  <1>3. QED
    BY <1>1, <1>2, PTL DEF Spec

\* The target and the cursor keep their types whatever runs follow each other;
\* no key or constraint exists without its table.
THEOREM MigrationTypeCorrect == Spec => []TypeOK
  BY MigrationInvariance, PTL DEF MInv

\* A run that created or truncated the tables and ended without error loaded
\* every row once: the loops of PrepareTarget and copyAllTables visit all.
THEOREM LoadsOnce == Spec => []LoadedOnce
  <1>1. MInv => LoadedOnce
    BY OrderFacts DEF MInv, LoadInv, LoadedOnce, Fresh, RowsOf, IsLoaded
  <1>2. QED
    BY <1>1, MigrationInvariance, PTL

\* With "include drop", no statement of a later run is refused for what an
\* earlier run left, foreign keys that reference each other included.
THEOREM RerunsSafely == Spec => []DropMakesRerunSafe
  <1>1. MInv => DropMakesRerunSafe
    <2> SUFFICES ASSUME MInv, FromScratch PROVE ~Refused
      BY DEF DropMakesRerunSafe
    <2>1. /\ at \in 1..Len(Order) /\ at \in Nat /\ Here \in Table /\ Here = Order[at] /\ ~(at < at)
          /\ rows \in [Table -> [Row -> Nat]]
      BY HereFacts DEF MInv, TypeOK
    <2>2. ScratchInv /\ LoadInv
      BY DEF MInv
    <2>3. CASE stage = "create"
      BY <2>2, <2>3 DEF ScratchInv, Refused, FromScratch
    <2>4. CASE stage = "truncate"
      BY <2>2, <2>4 DEF ScratchInv, Refused, FromScratch, ReferencedBy
    <2>5. CASE stage = "copy"
      <3>1. exists = Table /\ keyed = {} /\ fkeys = {}
        BY <2>2, <2>5 DEF ScratchInv
      <3>2. QED
        BY <2>1, <2>5, <3>1 DEF Refused
    <2>6. CASE stage = "index" \/ stage = "fkey"
      <3>1. \A t \in Table : \A r \in Row : rows[t][r] = 1
        BY <2>2, <2>6, OrderFacts DEF LoadInv, Fresh, FromScratch, RowsOf, IsLoaded, Completing
      <3>2. CASE stage = "index"
        <4>1. exists = Table /\ ("CreateIndexes" \in opts => Here \notin keyed)
          BY <2>1, <2>2, <3>2 DEF ScratchInv
        <4>2. QED
          BY <2>1, <3>1, <3>2, <4>1 DEF Refused
      <3>3. CASE stage = "fkey"
        <4>1. /\ exists = Table /\ ("CreateIndexes" \in opts => keyed = Table)
              /\ Here \notin fkeys
          BY <2>1, <2>2, <3>3 DEF ScratchInv, MInv, TypeOK
        <4>2. Parent[Here] # NoParent => Parent[Here] \in Table
          BY <2>1, OrderAssumption
        <4>3. QED
          BY <2>1, <3>1, <3>3, <4>1, <4>2 DEF Refused, FromScratch
      <3>4. QED
        BY <2>6, <3>2, <3>3
    <2>7. QED
      BY <2>3, <2>4, <2>5, <2>6 DEF Refused
  <1>2. QED
    BY <1>1, MigrationInvariance, PTL

\* A complete run from scratch that ends without error has made every table,
\* key and constraint it was asked for.
THEOREM CompletesTheTarget == Spec => []CompleteMeansComplete
  <1>1. MInv => CompleteMeansComplete
    BY DEF MInv, ScratchInv, CompleteMeansComplete
  <1>2. QED
    BY <1>1, MigrationInvariance, PTL

----------------------------------------------------------------------------
(* The catalog and the scripts made of it *)

\* The tables to read, in their order.
Wanted == IF job.table # "" THEN <<Named>> ELSE Discovered

\* The views made into tables are renamed when all tables are read.
NameAt(t, phase) == IF phase = "tables" THEN t.name ELSE FinalName(t)

\* The catalog has of t what was read of it; only key columns are marked later.
AsRead(e, t, phase) ==
    /\ e = [name |-> NameAt(t, phase), cols |-> e.cols, indexes |-> ReadIndexes(t),
            fkeys |-> [i \in 1..Len(t.fkeys) |-> ReadForeignKey(t, t.fkeys[i])],
            children |-> t.children, triggers |-> t.triggers]
    /\ IsSequence(e.cols) /\ Len(e.cols) = Len(t.cols)
    /\ \A k \in 1..Len(t.cols) : e.cols[k] = [ReadColumn(t, t.cols[k]) EXCEPT !.pk = e.cols[k].pk]

IsEntry(cat, i, j, t, phase) == cat[i].name = SchemaOf(t) /\ AsRead(cat[i].tables[j], t, phase)

\* The catalog of the first n tables: each of them once, and no other.
Shaped(cat) ==
    /\ IsSequence(cat)
    /\ \A i \in 1..Len(cat) : cat[i] = [name |-> cat[i].name, tables |-> cat[i].tables] /\ IsSequence(cat[i].tables)
Distinct(cat) ==
    /\ \A i, j \in 1..Len(cat) : cat[i].name = cat[j].name => i = j
    /\ job.engine # "mssql" => Len(cat) = 1 /\ cat[1].name = job.schema
    /\ \A i \in 1..Len(cat) : \A j, k \in 1..Len(cat[i].tables) : cat[i].tables[j].name = cat[i].tables[k].name => j = k
HoldsFirst(cat, n, phase) ==
    /\ \A i \in 1..Len(cat) : \A j \in 1..Len(cat[i].tables) : \E k \in 1..n : IsEntry(cat, i, j, Wanted[k], phase)
    /\ \A k \in 1..n : \E i \in 1..Len(cat) : \E j \in 1..Len(cat[i].tables) : IsEntry(cat, i, j, Wanted[k], phase)

CatalogOfFirst(cat, n, phase) == Shaped(cat) /\ Distinct(cat) /\ HoldsFirst(cat, n, phase)

ReadInv ==
    /\ job.table = "" /\ pc \notin {"start", "error"} => ~DiscoveryFails
    /\ pc = "tables" =>
          /\ IsSequence(todo)
          /\ \E n \in 0..Len(Wanted) :
                /\ Len(todo) = Len(Wanted) - n /\ \A q \in 1..Len(todo) : todo[q] = Wanted[n + q]
                /\ CatalogOfFirst(catalog, n, "tables")
    /\ pc \in {"read", "prepare", "complete", "done"} => CatalogOfFirst(catalog, Len(Wanted), "read")

TypeNames == {type.name : type \in Elements(job.types)}

\* No DROP TABLE names a table that is not loaded, no DROP TYPE a type that the
\* source does not have.
DropsLoaded(statements) ==
    /\ IsSequence(statements)
    /\ \A st \in Elements(statements) :
          /\ st.op = "drop" => <<st.schema, st.name>> \in LoadedNames
          /\ st.op = "dropType" => st.name \in TypeNames

SchemaInv ==
    /\ job \in Jobs
    /\ pc \in {"start", "tables", "read", "prepare", "complete", "done", "error"}
    /\ ReadInv /\ DropsLoaded(script)

----------------------------------------------------------------------------
(* Sequences of any elements *)

\* A sequence is the function from its indices to its elements.
LEMMA SequenceFacts ==
    ASSUME NEW s, IsSequence(s)
    PROVE  /\ Len(s) \in Nat /\ DOMAIN s = 1..Len(s)
           /\ s \in [1..Len(s) -> Elements(s)]
           /\ s = [i \in 1..Len(s) |-> s[i]]
           /\ \A i \in 1..Len(s) : s[i] \in Elements(s)
           /\ \A x \in Elements(s) : \E i \in 1..Len(s) : s[i] = x
  BY DEF IsSequence, Elements

\* A function whose domain is 1..n is a sequence.
LEMMA MakesSequence ==
    ASSUME NEW n \in Nat, NEW s, DOMAIN s = 1..n, s = [i \in 1..n |-> s[i]]
    PROVE  IsSequence(s) /\ Len(s) = n
  <1>1. s \in Seq({s[i] : i \in 1..n})
    <2>1. s \in [1..n -> {s[i] : i \in 1..n}]
      OBVIOUS
    <2>2. QED
      BY <2>1
  <1>2. Len(s) = n
    BY <1>1
  <1>3. QED
    BY <1>1, <1>2 DEF IsSequence, Elements

\* The members of Seq(S) are sequences in this sense.
LEMMA SequenceOf ==
    ASSUME NEW S, NEW s \in Seq(S)
    PROVE  IsSequence(s)
  <1>1. Len(s) \in Nat /\ DOMAIN s = 1..Len(s) /\ s = [i \in 1..Len(s) |-> s[i]]
    OBVIOUS
  <1>2. QED
    BY <1>1, MakesSequence

\* The empty sequence, whose indices are none.
LEMMA EmptySequence == IsSequence(<<>>) /\ Len(<<>>) = 0 /\ 1..Len(<<>>) = {} /\ Elements(<<>>) = {}
  <1>1. <<>> \in Seq({}) /\ Len(<<>>) = 0
    BY EmptySeq
  <1>2. IsSequence(<<>>)
    BY <1>1, SequenceOf
  <1>3. QED
    BY <1>1, <1>2 DEF Elements

\* What Head and Tail give of a sequence that is not empty.
LEMMA SequenceTail ==
    ASSUME NEW s, IsSequence(s), s # <<>>
    PROVE  /\ IsSequence(Tail(s)) /\ Len(Tail(s)) = Len(s) - 1 /\ Len(s) >= 1
           /\ Head(s) = s[1] /\ \A i \in 1..(Len(s) - 1) : Tail(s)[i] = s[i + 1]
  <1> DEFINE S == Elements(s)
  <1>1. s \in Seq(S)
    BY DEF IsSequence
  <1> HIDE DEF S
  <1>2. Tail(s) \in Seq(S) /\ Len(Tail(s)) = Len(s) - 1 /\ Len(s) >= 1
        /\ Head(s) = s[1] /\ \A i \in 1..(Len(s) - 1) : Tail(s)[i] = s[i + 1]
    BY <1>1
  <1>3. QED
    BY <1>2, SequenceOf

\* What Append gives.
LEMMA SequenceAppend ==
    ASSUME NEW s, IsSequence(s), NEW x
    PROVE  /\ IsSequence(Append(s, x)) /\ Len(Append(s, x)) = Len(s) + 1
           /\ \A i \in 1..Len(s) : Append(s, x)[i] = s[i]
           /\ Append(s, x)[Len(s) + 1] = x
  <1> DEFINE S == Elements(s) \cup {x}
  <1>1. s \in Seq(S) /\ x \in S
    <2>1. s \in [1..Len(s) -> S] /\ Len(s) \in Nat
      BY SequenceFacts
    <2>2. QED
      BY <2>1
  <1> HIDE DEF S
  <1>2. Append(s, x) \in Seq(S) /\ Len(Append(s, x)) = Len(s) + 1
        /\ (\A i \in 1..Len(s) : Append(s, x)[i] = s[i]) /\ Append(s, x)[Len(s) + 1] = x
    BY <1>1
  <1>3. QED
    BY <1>2, SequenceOf

\* FlattenHolds for sequences of any elements.
LEMMA JoinHolds ==
    ASSUME NEW seqs, IsSequence(seqs), \A k \in 1..Len(seqs) : IsSequence(seqs[k])
    PROVE  /\ IsSequence(FlattenSeq(seqs))
           /\ \A p \in 1..Len(FlattenSeq(seqs)) : \E k \in 1..Len(seqs) : \E q \in 1..Len(seqs[k]) :
                 FlattenSeq(seqs)[p] = seqs[k][q]
           /\ \A k \in 1..Len(seqs) : \A q \in 1..Len(seqs[k]) : \E p \in 1..Len(FlattenSeq(seqs)) :
                 FlattenSeq(seqs)[p] = seqs[k][q]
  <1> DEFINE S == UNION {Elements(seqs[k]) : k \in 1..Len(seqs)}
  <1>1. Len(seqs) \in Nat /\ seqs = [i \in 1..Len(seqs) |-> seqs[i]]
    BY SequenceFacts
  <1>2. ASSUME NEW k \in 1..Len(seqs) PROVE seqs[k] \in Seq(S)
    <2>1. seqs[k] \in [1..Len(seqs[k]) -> Elements(seqs[k])] /\ Len(seqs[k]) \in Nat
      BY SequenceFacts
    <2>2. Elements(seqs[k]) \subseteq S
      OBVIOUS
    <2>3. QED
      BY <2>1, <2>2
  <1> HIDE DEF S
  <1>3. seqs \in [1..Len(seqs) -> Seq(S)]
    BY <1>1, <1>2
  <1>4. seqs \in Seq(Seq(S))
    BY <1>1, <1>3
  <1>5. FlattenSeq(seqs) \in Seq(S)
    BY <1>4, FlattenHolds
  <1>6. IsSequence(FlattenSeq(seqs))
    BY <1>5, SequenceOf
  <1>7. QED
    BY <1>4, <1>6, FlattenHolds

----------------------------------------------------------------------------
(* What is wanted *)

\* Least chooses a member.
LEMMA LeastIn ==
    ASSUME NEW n \in Nat, NEW S \in SUBSET (1..n), S # {}
    PROVE  Least(S) \in S
  <1> DEFINE T == {i \in 0..n : i \in S}
  <1>1. T \in SUBSET (0..n) /\ T = S
    <2>1. \A i \in 1..n : i \in 0..n
      OBVIOUS
    <2>2. QED
      BY <2>1
  <1> HIDE DEF T
  <1>2. PICK i \in T : \A j \in T : i <= j
    BY <1>1, FirstFailure
  <1>3. i \in S /\ \A j \in S : i <= j
    BY <1>1, <1>2
  <1>4. QED
    BY <1>3 DEF Least

\* matchAny is one of three, and what two of them mean.
LEMMA MatchFacts ==
    ASSUME NEW name, NEW patterns, IsSequence(patterns)
    PROVE  /\ TableMatches(name, patterns) \in {"yes", "no", "invalid"}
           /\ TableMatches(name, patterns) = "yes" => \E i \in 1..Len(patterns) : name \in patterns[i].names
           /\ TableMatches(name, patterns) = "no" => \A i \in 1..Len(patterns) : name \notin patterns[i].names
  <1> DEFINE tried == {i \in 1..Len(patterns) : name \in patterns[i].names \/ ~patterns[i].valid}
  <1>1. Len(patterns) \in Nat
    BY SequenceFacts
  <1>2. CASE tried = {}
    <2>1. TableMatches(name, patterns) = "no"
      BY <1>2 DEF TableMatches
    <2>2. QED
      BY <1>2, <2>1
  <1>3. CASE tried # {}
    <2> DEFINE least == Least(tried)
    <2>1. least \in tried
      BY <1>1, <1>3, LeastIn
    <2>2. TableMatches(name, patterns) = IF patterns[least].valid THEN "yes" ELSE "invalid"
      BY <1>3 DEF TableMatches
    <2> HIDE DEF least
    <2>3. patterns[least].valid => name \in patterns[least].names
      BY <2>1
    <2>4. QED
      BY <2>1, <2>2, <2>3
  <1>4. QED
    BY <1>2, <1>3

\* ShouldIncludeTable keeps the tables that the command loads.
LEMMA SelectedFacts ==
    ASSUME job \in Jobs, job.table = "", job.engine # "pgsql", NEW t \in Elements(job.tables)
    PROVE  /\ Selected(t) = "yes" => t \in Loaded
           /\ t \in Loaded /\ Selected(t) # "invalid" => Selected(t) = "yes"
  <1>1. IsSequence(job.only) /\ IsSequence(job.except)
    BY SourcesAssumption DEF SourcesAssumption
  <1> DEFINE only == IF job.only = <<>> THEN "yes" ELSE TableMatches(t.name, job.only)
             hit == TableMatches(t.name, job.except)
             Chosen == job.only = <<>> \/ \E i \in 1..Len(job.only) : t.name \in job.only[i].names
             Spared == \A i \in 1..Len(job.except) : t.name \notin job.except[i].names
  <1>2. (only = "yes" => Chosen) /\ (only = "no" => ~Chosen) /\ only \in {"yes", "no", "invalid"}
    BY <1>1, MatchFacts
  <1>3. (hit = "yes" => ~Spared) /\ (hit = "no" => Spared) /\ hit \in {"yes", "no", "invalid"}
    BY <1>1, MatchFacts
  <1>4. job.except = <<>> => Spared
    <2>1. 1..Len(<<>>) = {}
      BY EmptySequence
    <2>2. QED
      BY <2>1
  <1>5. t \in Loaded <=> Chosen /\ Spared
    BY DEF Loaded
  <1>6. Selected(t) = IF only # "yes" THEN only ELSE IF job.except = <<>> THEN "yes"
                      ELSE IF hit = "yes" THEN "no" ELSE IF hit = "no" THEN "yes" ELSE "invalid"
    BY DEF Selected
  <1> HIDE DEF only, hit, Chosen, Spared
  <1>7. QED
    BY <1>2, <1>3, <1>4, <1>5, <1>6

\* What is known of the lists of a source table.
Listing(t) ==
    /\ IsSequence(t.cols) /\ IsSequence(t.indexes) /\ IsSequence(t.fkeys) /\ IsSequence(t.children)
    /\ IsSequence(t.triggers) /\ \A x \in Elements(t.indexes) : IsSequence(x.cols) /\ IsSequence(x.included)

\* A table that the source lacks.
Missing(t) == t.cols = <<>> /\ t.indexes = <<>> /\ t.fkeys = <<>> /\ t.children = <<>> /\ t.triggers = <<>>

\* The source's lists are sequences and its tables have names of their own.
LEMMA TableFacts ==
    ASSUME job \in Jobs
    PROVE  /\ IsSequence(job.tables) /\ IsSequence(job.types) /\ IsSequence(job.functions)
           /\ \A t \in Elements(job.tables) : Listing(t)
           /\ \A i, k \in 1..Len(job.tables) :
                 SchemaOf(job.tables[i]) = SchemaOf(job.tables[k]) /\ FinalName(job.tables[i]) = FinalName(job.tables[k]) => i = k
           /\ \A t : job.engine # "mssql" => FinalName(t) = t.name
  <1>1. /\ IsSequence(job.tables) /\ IsSequence(job.types) /\ IsSequence(job.functions)
        /\ \A t \in Elements(job.tables) : Listing(t)
    BY SourcesAssumption DEF SourcesAssumption, Listing
  <1>2. /\ \A i, k \in 1..Len(job.tables) :
              job.tables[i].schema = job.tables[k].schema /\ FinalName(job.tables[i]) = FinalName(job.tables[k]) => i = k
        /\ job.engine # "mssql" => job.views = {} /\ \A t, u \in Elements(job.tables) : t.schema = u.schema
    BY SourcesAssumption DEF SourcesAssumption, FinalName
  <1>3. ASSUME NEW i \in 1..Len(job.tables), NEW k \in 1..Len(job.tables),
               SchemaOf(job.tables[i]) = SchemaOf(job.tables[k]), FinalName(job.tables[i]) = FinalName(job.tables[k])
        PROVE  i = k
    <2>1. job.tables[i] \in Elements(job.tables) /\ job.tables[k] \in Elements(job.tables)
      BY <1>1, SequenceFacts
    <2>2. job.tables[i].schema = job.tables[k].schema
      BY <1>2, <1>3, <2>1 DEF SchemaOf
    <2>3. QED
      BY <1>2, <1>3, <2>2
  <1>4. ASSUME NEW t, job.engine # "mssql" PROVE FinalName(t) = t.name
    BY <1>2, <1>4 DEF FinalName
  <1>5. QED
    BY <1>1, <1>3, <1>4

\* A table of the command that the source lacks is read as one without columns.
LEMMA NamedFacts ==
    ASSUME job \in Jobs, job.table # ""
    PROVE  /\ Listing(Named) /\ Named.name = job.table
           /\ Loaded # {} => Named \in Elements(job.tables) /\ Loaded = {Named}
           /\ Loaded = {} => Missing(Named)
  <1> DEFINE Hits == {i \in 1..Len(job.tables) : job.tables[i].name = job.table /\
                        (job.engine = "mssql" => job.tables[i].schema = job.schema)}
  <1>1. Len(job.tables) \in Nat /\ IsSequence(job.tables)
    BY TableFacts, SequenceFacts
  <1>2. CASE Hits = {}
    <2>1. Named = [schema |-> job.schema, name |-> job.table, cols |-> <<>>, indexes |-> <<>>, fkeys |-> <<>>,
                   children |-> <<>>, triggers |-> <<>>]
      BY <1>2 DEF Named
    <2>2. IsSequence(<<>>) /\ Elements(<<>>) = {}
      BY EmptySequence
    <2>3. Loaded = {}
      <3>1. SUFFICES ASSUME NEW t \in Loaded PROVE FALSE
        OBVIOUS
      <3>2. t \in Elements(job.tables) /\ t.name = job.table /\ (job.engine = "mssql" => t.schema = job.schema)
        BY <3>1 DEF Loaded
      <3>3. PICK i \in 1..Len(job.tables) : job.tables[i] = t
        BY <1>1, <3>2, SequenceFacts
      <3>4. QED
        BY <1>2, <3>2, <3>3
    <2>4. /\ Named.name = job.table /\ Named.cols = <<>> /\ Named.indexes = <<>> /\ Named.fkeys = <<>>
          /\ Named.children = <<>> /\ Named.triggers = <<>>
      BY <2>1
    <2>5. QED
      BY <2>2, <2>3, <2>4 DEF Listing, Missing
  <1>3. CASE Hits # {}
    <2> DEFINE h == Least(Hits)
    <2>1. h \in Hits
      BY <1>1, <1>3, LeastIn
    <2>2. Named = job.tables[h]
      BY <1>3 DEF Named
    <2> HIDE DEF h
    <2>3. Named \in Elements(job.tables) /\ Named.name = job.table /\ (job.engine = "mssql" => Named.schema = job.schema)
      BY <1>1, <2>1, <2>2, SequenceFacts
    <2>4. Named \in Loaded
      BY <2>3 DEF Loaded
    <2>5. ASSUME NEW t \in Loaded PROVE t = Named
      <3>1. t \in Elements(job.tables) /\ t.name = job.table /\ (job.engine = "mssql" => t.schema = job.schema)
        BY <2>5 DEF Loaded
      <3>2. PICK i \in 1..Len(job.tables) : job.tables[i] = t
        BY <1>1, <3>1, SequenceFacts
      <3>3. /\ SchemaOf(t) = SchemaOf(Named)
            /\ job.engine = "mssql" => t.schema = Named.schema
        BY <2>3, <3>1 DEF SchemaOf
      <3>4. job.engine # "mssql" => FinalName(t) = t.name /\ FinalName(Named) = Named.name
        BY <2>3, <3>1, TableFacts
      <3>5. FinalName(t) = FinalName(Named)
        <4>1. CASE job.engine = "mssql"
          BY <2>3, <3>1, <3>3, <4>1 DEF FinalName
        <4>2. QED
          BY <2>3, <3>1, <3>4, <4>1
      <3>6. i = h
        BY <2>1, <2>2, <3>2, <3>3, <3>5, TableFacts
      <3>7. QED
        BY <2>2, <3>2, <3>6
    <2>6. QED
      BY <2>3, <2>4, <2>5, TableFacts
  <1>4. QED
    BY <1>2, <1>3

\* The tables to read are tables of the source, each once, but for a missing
\* one; without a filter that cannot be compiled they are those to be loaded.
LEMMA WantedFacts ==
    ASSUME job \in Jobs
    PROVE  /\ IsSequence(Wanted) /\ Len(Wanted) \in Nat
           /\ \A k \in 1..Len(Wanted) :
                 /\ Listing(Wanted[k])
                 /\ <<SchemaOf(Wanted[k]), FinalName(Wanted[k])>> \in LoadedNames
                 /\ (job.table # "" => Loaded # {}) => Wanted[k] \in Loaded
           /\ \A k, m \in 1..Len(Wanted) :
                 SchemaOf(Wanted[k]) = SchemaOf(Wanted[m]) /\ FinalName(Wanted[k]) = FinalName(Wanted[m]) => k = m
           /\ (job.table = "" => ~DiscoveryFails) => \A t \in Loaded : \E k \in 1..Len(Wanted) : Wanted[k] = t
  <1>1. Loaded \subseteq Elements(job.tables)
    BY DEF Loaded
  <1>2. \A t \in Loaded : <<SchemaOf(t), FinalName(t)>> \in LoadedNames
    BY DEF LoadedNames
  <1>3. CASE job.table # ""
    <2>1. Wanted = <<Named>>
      BY <1>3 DEF Wanted
    <2>2. /\ IsSequence(Wanted) /\ Len(Wanted) = 1 /\ Wanted[1] = Named
      <3>1. <<Named>> \in Seq({Named}) /\ Len(<<Named>>) = 1 /\ <<Named>>[1] = Named
        OBVIOUS
      <3>2. QED
        BY <2>1, <3>1, SequenceOf
    <2>3. <<SchemaOf(Named), FinalName(Named)>> \in LoadedNames
      BY <1>3 DEF LoadedNames
    <2>4. Listing(Named) /\ (Loaded # {} => Loaded = {Named})
      BY <1>3, NamedFacts
    <2>5. 1 \in 1..Len(Wanted) /\ (\A k \in 1..Len(Wanted) : k = 1) /\ Len(Wanted) \in Nat
      BY <2>2
    <2>6. \A t \in Loaded : t = Wanted[1]
      BY <2>2, <2>4
    <2>7. \A k \in 1..Len(Wanted) :
             Listing(Wanted[k]) /\ <<SchemaOf(Wanted[k]), FinalName(Wanted[k])>> \in LoadedNames
      BY <2>2, <2>3, <2>4, <2>5
    <2>8. Loaded # {} => \A k \in 1..Len(Wanted) : Wanted[k] \in Loaded
      BY <2>2, <2>4, <2>5
    <2>9. QED
      BY <1>3, <2>2, <2>5, <2>6, <2>7, <2>8
  <1>4. CASE job.table = "" /\ job.engine = "pgsql"
    <2>1. Wanted = job.tables
      BY <1>4 DEF Wanted, Discovered
    <2>2. Loaded = Elements(job.tables)
      BY <1>4 DEF Loaded
    <2>3. IsSequence(job.tables) /\ Len(job.tables) \in Nat
          /\ (\A k \in 1..Len(job.tables) : job.tables[k] \in Loaded)
          /\ \A t \in Loaded : \E k \in 1..Len(job.tables) : job.tables[k] = t
      BY <2>2, TableFacts, SequenceFacts
    <2>4. QED
      BY <1>1, <1>2, <2>1, <2>3, TableFacts
  <1>5. CASE job.table = "" /\ job.engine # "pgsql"
    <2> DEFINE tables == job.tables
               K == {i \in 1..Len(tables) : Selected(tables[i]) = "yes"}
               picked == Picked(tables, K)
    <2>1. Wanted = picked
      <3>1. Wanted = FlattenSeq([i \in 1..Len(tables) |-> IF Selected(tables[i]) = "yes" THEN <<tables[i]>> ELSE <<>>])
        BY <1>5 DEF Wanted, Discovered, Filter
      <3>2. [i \in 1..Len(tables) |-> IF Selected(tables[i]) = "yes" THEN <<tables[i]>> ELSE <<>>]
              = [i \in 1..Len(tables) |-> IF i \in K THEN <<tables[i]>> ELSE <<>>]
        OBVIOUS
      <3>3. QED
        BY <3>1, <3>2 DEF Picked
    <2>2. tables \in Seq(Elements(tables)) /\ Len(tables) \in Nat
      BY TableFacts, SequenceFacts DEF IsSequence
    <2>3. \A i \in 1..Len(tables) : tables[i] \in Elements(tables)
      BY TableFacts, SequenceFacts
    <2>4. \A i \in K : i \in 1..Len(tables) /\ tables[i] \in Loaded
      BY <1>5, <2>3, SelectedFacts
    <2>5. ASSUME ~DiscoveryFails, NEW i \in 1..Len(tables), tables[i] \in Loaded PROVE i \in K
      <3>1. Selected(tables[i]) # "invalid"
        BY <1>5, <2>5 DEF DiscoveryFails
      <3>2. QED
        BY <1>5, <2>3, <2>5, <3>1, SelectedFacts
    <2> HIDE DEF tables, K
    <2>6. picked \in Seq(Elements(tables))
      BY <2>2, PickedFrom
    <2>7. PICK from \in [1..Len(picked) -> 1..Len(tables)] :
              /\ \A p \in 1..Len(picked) : from[p] \in K /\ picked[p] = tables[from[p]]
              /\ \A p, q \in 1..Len(picked) : p < q => from[p] < from[q]
              /\ \A i \in 1..Len(tables) : i \in K => \E p \in 1..Len(picked) : from[p] = i
      BY <2>2, PickedFrom
    <2>8. IsSequence(picked) /\ Len(picked) \in Nat
      BY <2>6, SequenceOf, SequenceFacts
    <2> HIDE DEF picked
    <2>9. ASSUME NEW k \in 1..Len(picked)
          PROVE  picked[k] \in Loaded /\ Listing(picked[k])
      <3>1. picked[k] \in Loaded
        BY <2>4, <2>7
      <3>2. QED
        BY <1>1, <3>1, TableFacts DEF tables
    <2>10. ASSUME NEW k \in 1..Len(picked), NEW m \in 1..Len(picked),
                  SchemaOf(picked[k]) = SchemaOf(picked[m]), FinalName(picked[k]) = FinalName(picked[m])
           PROVE  k = m
      <3>1. from[k] = from[m]
        <4>1. picked[k] = tables[from[k]] /\ picked[m] = tables[from[m]]
              /\ from[k] \in 1..Len(tables) /\ from[m] \in 1..Len(tables)
          BY <2>7
        <4>2. QED
          BY <2>10, <4>1, TableFacts DEF tables
      <3>2. ~(k < m) /\ ~(m < k)
        <4>1. from[k] \in Nat /\ from[m] \in Nat
          BY <2>2, <2>7
        <4>2. ~(from[k] < from[m]) /\ ~(from[m] < from[k])
          BY <3>1, <4>1
        <4>3. QED
          BY <2>7, <4>2
      <3>3. k \in Nat /\ m \in Nat
        BY <2>8
      <3>4. QED
        BY <3>2, <3>3
    <2>11. ASSUME ~DiscoveryFails, NEW t \in Loaded PROVE \E k \in 1..Len(picked) : picked[k] = t
      <3>1. PICK i \in 1..Len(tables) : tables[i] = t
        BY <1>1, <2>11, TableFacts, SequenceFacts DEF tables
      <3>2. i \in K
        BY <2>5, <2>11, <3>1
      <3>3. QED
        BY <2>7, <3>1, <3>2
    <2>12. QED
      BY <1>2, <1>5, <2>1, <2>8, <2>9, <2>10, <2>11
  <1>6. QED
    BY <1>3, <1>4, <1>5

\* The partitions of a table have names that no table read has.
LEMMA WantedFrom ==
    ASSUME job \in Jobs, NEW k \in 1..Len(Wanted)
    PROVE  /\ Wanted[k] \in Elements(job.tables) \/ Missing(Wanted[k])
           /\ \A m \in 1..Len(Wanted) : FinalName(Wanted[m]) \notin Elements(Wanted[k].children)
           /\ Wanted[k].children # <<>> => job.engine = "pgsql"
  <1>1. CASE job.table # "" => Loaded # {}
    <2>1. \A m \in 1..Len(Wanted) : Wanted[m] \in Elements(job.tables)
      BY <1>1, WantedFacts DEF Loaded
    <2>2. \A t, u \in Elements(job.tables) : t.children # <<>> => job.engine = "pgsql" /\ u.name \notin Elements(t.children)
      BY SourcesAssumption DEF SourcesAssumption
    <2>3. CASE Wanted[k].children = <<>>
      BY <2>1, <2>3, EmptySequence
    <2>4. CASE Wanted[k].children # <<>>
      BY <2>1, <2>2, <2>4, TableFacts
    <2>5. QED
      BY <2>1, <2>3, <2>4
  <1>2. CASE job.table # "" /\ Loaded = {}
    <2>1. Wanted = <<Named>>
      BY <1>2 DEF Wanted
    <2>2. Len(<<Named>>) = 1 /\ <<Named>>[1] = Named
      OBVIOUS
    <2>3. k = 1
      BY <2>1, <2>2
    <2>4. Wanted[k] = Named
      BY <2>1, <2>2, <2>3
    <2>5. Missing(Wanted[k])
      BY <1>2, <2>4, NamedFacts
    <2>6. QED
      BY <2>5, EmptySequence DEF Missing
  <1>3. QED
    BY <1>1, <1>2

----------------------------------------------------------------------------
(* What is read is in lists *)

\* A sequence of one.
LEMMA SingleSequence == ASSUME NEW x PROVE IsSequence(<<x>>) /\ Len(<<x>>) = 1 /\ <<x>>[1] = x
  <1>1. <<x>> \in Seq({x}) /\ Len(<<x>>) = 1 /\ <<x>>[1] = x
    OBVIOUS
  <1>2. QED
    BY <1>1, SequenceOf

\* Filter keeps the elements at the places picked, and no others.
LEMMA PickedFacts ==
    ASSUME NEW seq, IsSequence(seq), NEW K
    PROVE  /\ IsSequence(Picked(seq, K))
           /\ \A p \in 1..Len(Picked(seq, K)) : \E i \in 1..Len(seq) : i \in K /\ Picked(seq, K)[p] = seq[i]
           /\ \A i \in 1..Len(seq) : i \in K => \E p \in 1..Len(Picked(seq, K)) : Picked(seq, K)[p] = seq[i]
  <1>1. seq \in Seq(Elements(seq))
    BY DEF IsSequence
  <1>2. IsSequence(Picked(seq, K))
    BY <1>1, PickedFrom, SequenceOf
  <1>3. PICK from \in [1..Len(Picked(seq, K)) -> 1..Len(seq)] :
              /\ \A p \in 1..Len(Picked(seq, K)) : from[p] \in K /\ Picked(seq, K)[p] = seq[from[p]]
              /\ \A i \in 1..Len(seq) : i \in K => \E p \in 1..Len(Picked(seq, K)) : from[p] = i
    BY <1>1, PickedFrom
  <1>4. QED
    BY <1>2, <1>3

\* FlattenSeq of sequences is a sequence.
LEMMA JoinedSequence ==
    ASSUME NEW n \in Nat, NEW seqs, DOMAIN seqs = 1..n, seqs = [i \in 1..n |-> seqs[i]],
           \A i \in 1..n : IsSequence(seqs[i])
    PROVE  IsSequence(FlattenSeq(seqs))
  <1>1. IsSequence(seqs) /\ Len(seqs) = n
    BY MakesSequence
  <1>2. QED
    BY <1>1, JoinHolds

\* The elements of two sequences in a row are theirs, at their places.
LEMMA ConcatHolds ==
    ASSUME NEW s, NEW u, IsSequence(s), IsSequence(u)
    PROVE  /\ IsSequence(s \o u) /\ Len(s \o u) = Len(s) + Len(u)
           /\ \A i \in 1..Len(s \o u) :
                 (\E j \in 1..Len(s) : (s \o u)[i] = s[j]) \/ (\E j \in 1..Len(u) : (s \o u)[i] = u[j])
           /\ \A j \in 1..Len(s) : (s \o u)[j] = s[j]
           /\ \A j \in 1..Len(u) : (s \o u)[Len(s) + j] = u[j]
  <1> DEFINE S == Elements(s) \cup Elements(u)
             m == Len(s)
             n == Len(u)
             w == s \o u
  <1>1. s \in [1..m -> S] /\ u \in [1..n -> S] /\ m \in Nat /\ n \in Nat
    BY SequenceFacts
  <1>2. s \in Seq(S) /\ u \in Seq(S)
    BY <1>1
  <1> HIDE DEF S
  <1>3. w \in Seq(S) /\ Len(w) = m + n
        /\ \A i \in 1..(m + n) : w[i] = IF i <= m THEN s[i] ELSE u[i - m]
    BY <1>2, ConcatProperties
  <1> HIDE DEF m, n, w
  <1>4. ASSUME NEW i \in 1..(m + n) PROVE (\E j \in 1..m : w[i] = s[j]) \/ (\E j \in 1..n : w[i] = u[j])
    <2>1. i \in 1..m \/ i - m \in 1..n
      BY <1>1
    <2>2. i <= m \/ i - m \in 1..n
      BY <1>1
    <2>3. CASE i <= m
      <3>1. w[i] = s[i]
        BY <1>3, <2>3
      <3>2. i \in 1..m
        BY <1>1, <2>3
      <3>3. QED
        BY <3>1, <3>2
    <2>4. CASE ~(i <= m)
      <3>1. w[i] = u[i - m]
        BY <1>3, <2>4
      <3>2. QED
        BY <2>2, <2>4, <3>1
    <2>5. QED
      BY <2>3, <2>4
  <1>5. ASSUME NEW j \in 1..m PROVE w[j] = s[j]
    <2>1. j \in 1..(m + n) /\ j <= m
      BY <1>1
    <2>2. QED
      BY <1>3, <2>1
  <1>6. ASSUME NEW j \in 1..n PROVE w[m + j] = u[j]
    <2> DEFINE i == m + j
    <2>1. i \in 1..(m + n) /\ ~(i <= m) /\ i - m = j
      BY <1>1
    <2> HIDE DEF i
    <2>2. w[i] = u[i - m]
      BY <1>3, <2>1
    <2>3. QED
      BY <2>1, <2>2 DEF i
  <1>7. IsSequence(w)
    BY <1>3, SequenceOf
  <1>8. QED
    BY <1>3, <1>4, <1>5, <1>6, <1>7 DEF m, n, w

\* What the pieces of a script hold.
LEMMA JoinElements ==
    ASSUME NEW n \in Nat, NEW seqs, DOMAIN seqs = 1..n, seqs = [i \in 1..n |-> seqs[i]],
           \A i \in 1..n : IsSequence(seqs[i])
    PROVE  /\ IsSequence(FlattenSeq(seqs))
           /\ Elements(FlattenSeq(seqs)) = UNION {Elements(seqs[i]) : i \in 1..n}
  <1> DEFINE flat == FlattenSeq(seqs)
             all == UNION {Elements(seqs[i]) : i \in 1..n}
  <1>1. IsSequence(seqs) /\ Len(seqs) = n
    BY MakesSequence
  <1>2. /\ IsSequence(flat)
        /\ \A p \in 1..Len(flat) : \E k \in 1..n : \E q \in 1..Len(seqs[k]) : flat[p] = seqs[k][q]
        /\ \A k \in 1..n : \A q \in 1..Len(seqs[k]) : \E p \in 1..Len(flat) : flat[p] = seqs[k][q]
    BY <1>1, JoinHolds
  <1> HIDE DEF flat
  <1>3. ASSUME NEW x \in Elements(flat) PROVE x \in all
    <2>1. PICK p \in 1..Len(flat) : flat[p] = x
      BY DEF Elements
    <2>2. PICK k \in 1..n : \E q \in 1..Len(seqs[k]) : flat[p] = seqs[k][q]
      BY <1>2
    <2>3. x \in Elements(seqs[k])
      BY <2>1, <2>2 DEF Elements
    <2>4. QED
      BY <2>3
  <1>4. ASSUME NEW k \in 1..n, NEW x \in Elements(seqs[k]) PROVE x \in Elements(flat)
    <2>1. PICK q \in 1..Len(seqs[k]) : seqs[k][q] = x
      BY DEF Elements
    <2>2. PICK p \in 1..Len(flat) : flat[p] = seqs[k][q]
      BY <1>2
    <2>3. QED
      BY <2>1, <2>2 DEF Elements
  <1>5. QED
    BY <1>2, <1>3, <1>4 DEF flat

\* The elements of two sequences in a row are theirs.
LEMMA ConcatElements ==
    ASSUME NEW s, NEW u, IsSequence(s), IsSequence(u)
    PROVE  IsSequence(s \o u) /\ Elements(s \o u) = Elements(s) \cup Elements(u)
  <1> DEFINE w == s \o u
  <1>1. /\ IsSequence(w) /\ Len(w) = Len(s) + Len(u)
        /\ \A i \in 1..Len(w) : (\E j \in 1..Len(s) : w[i] = s[j]) \/ (\E j \in 1..Len(u) : w[i] = u[j])
        /\ \A j \in 1..Len(s) : w[j] = s[j]
        /\ \A j \in 1..Len(u) : w[Len(s) + j] = u[j]
    BY ConcatHolds
  <1> DEFINE m == Len(s)
             n == Len(u)
  <1>2. m \in Nat /\ n \in Nat
    BY SequenceFacts
  <1> HIDE DEF w, m, n
  <1>3. (\A j \in 1..m : j \in 1..(m + n)) /\ (\A j \in 1..n : m + j \in 1..(m + n))
    BY <1>2
  <1>4. Elements(w) \subseteq Elements(s) \cup Elements(u)
    BY <1>1 DEF Elements
  <1>5. ASSUME NEW x \in Elements(s) PROVE x \in Elements(w)
    <2>1. PICK j \in 1..m : s[j] = x
      BY DEF Elements, m
    <2>2. w[j] = x /\ j \in 1..Len(w)
      BY <1>1, <1>3, <2>1 DEF m, n
    <2>3. QED
      BY <2>2 DEF Elements
  <1>6. ASSUME NEW x \in Elements(u) PROVE x \in Elements(w)
    <2>1. PICK j \in 1..n : u[j] = x
      BY DEF Elements, n
    <2>2. w[m + j] = x /\ m + j \in 1..Len(w)
      BY <1>1, <1>3, <2>1 DEF m, n
    <2>3. QED
      BY <2>2 DEF Elements
  <1>7. QED
    BY <1>1, <1>4, <1>5, <1>6 DEF w

\* The element of a sequence of one.
LEMMA SingleElements == ASSUME NEW x PROVE IsSequence(<<x>>) /\ Elements(<<x>>) = {x}
  <1>1. IsSequence(<<x>>) /\ Len(<<x>>) = 1 /\ <<x>>[1] = x
    BY SingleSequence
  <1>2. Elements(<<x>>) = {<<x>>[i] : i \in 1..1}
    BY <1>1 DEF Elements
  <1>3. 1 \in 1..1 /\ \A i \in 1..1 : i = 1
    OBVIOUS
  <1>4. QED
    BY <1>1, <1>2, <1>3

\* The elements of a sequence given by its indices.
LEMMA MapElements ==
    ASSUME NEW n \in Nat, NEW s, DOMAIN s = 1..n, s = [i \in 1..n |-> s[i]]
    PROVE  IsSequence(s) /\ Elements(s) = {s[i] : i \in 1..n}
  BY MakesSequence DEF Elements

\* The rows that SQL Server gives for the indexes of a table, none without an
\* index.
LEMMA RowsSequence ==
    ASSUME NEW t, Listing(t)
    PROVE  IsSequence(MSSQLIndexRows(t)) /\ (t.indexes = <<>> => 1..Len(MSSQLIndexRows(t)) = {})
  <1> DEFINE given == MSSQLIndexRows(t)
             OneRow(x, j) == [index |-> Undot(x.name), kind |-> x.kind, col |-> Lower((x.cols \o x.included)[j]),
                           filter |-> TranslateFilter(PrintMSSQL(x.conds))]
             parts == [i \in 1..Len(t.indexes) |->
                          [j \in 1..Len(t.indexes[i].cols \o t.indexes[i].included) |-> OneRow(t.indexes[i], j)]]
  <1>0. IsSequence(t.indexes) /\ Len(t.indexes) \in Nat
    BY SequenceFacts DEF Listing
  <1>1. given = FlattenSeq(parts)
    BY DEF MSSQLIndexRows
  <1>2. ASSUME NEW i \in 1..Len(t.indexes) PROVE IsSequence(parts[i])
    <2> DEFINE x == t.indexes[i]
               n == Len(x.cols \o x.included)
    <2>1. x \in Elements(t.indexes)
      BY <1>0, SequenceFacts
    <2>2. IsSequence(x.cols) /\ IsSequence(x.included)
      BY <2>1 DEF Listing
    <2>3. n \in Nat
      BY <2>2, ConcatHolds, SequenceFacts
    <2>4. parts[i] = [j \in 1..n |-> OneRow(x, j)]
      OBVIOUS
    <2> HIDE DEF n, parts, OneRow
    <2>5. DOMAIN parts[i] = 1..n /\ parts[i] = [j \in 1..n |-> parts[i][j]]
      BY <2>4
    <2>6. QED
      BY <2>3, <2>5, MakesSequence
  <1>3. DOMAIN parts = 1..Len(t.indexes) /\ parts = [i \in 1..Len(t.indexes) |-> parts[i]]
    OBVIOUS
  <1> HIDE DEF parts, given
  <1>4. IsSequence(given) /\ Elements(given) = UNION {Elements(parts[i]) : i \in 1..Len(t.indexes)}
    BY <1>0, <1>1, <1>2, <1>3, JoinElements
  <1>5. ASSUME t.indexes = <<>> PROVE 1..Len(given) = {}
    <2>1. Elements(given) = {}
      BY <1>4, <1>5, EmptySequence
    <2>2. QED
      BY <1>4, <2>1, SequenceFacts
  <1>6. QED
    BY <1>4, <1>5 DEF given

\* The indexes that the rows make, one for each first row of a name.
LEMMA GroupFacts ==
    ASSUME NEW given, IsSequence(given)
    PROVE  /\ IsSequence(GroupRows(given))
           /\ \A x \in Elements(GroupRows(given)) :
                 \E i \in 1..Len(given) : x.name = given[i].index /\ \A j \in 1..(i - 1) : given[j].index # given[i].index
           /\ \A x, y \in Elements(GroupRows(given)) : x.name = y.name => x = y
  <1> DEFINE ColsOf(name) == FlattenSeq([i \in 1..Len(given) |-> IF given[i].index = name THEN <<given[i].col>> ELSE <<>>])
             IsFirst(i) == \A j \in 1..(i - 1) : given[j].index # given[i].index
             Group(r) == CatalogIndex(r.index, r.kind, ColsOf(r.index), r.filter)
             parts == [i \in 1..Len(given) |-> IF IsFirst(i) THEN <<Group(given[i])>> ELSE <<>>]
  <1>0. Len(given) \in Nat
    BY SequenceFacts
  <1>1. GroupRows(given) = FlattenSeq(parts)
    BY DEF GroupRows
  <1>2. \A r : Group(r).name = r.index
    BY DEF CatalogIndex
  <1> HIDE DEF Group
  <1>3. ASSUME NEW i \in 1..Len(given)
        PROVE  IsSequence(parts[i]) /\ \A x \in Elements(parts[i]) : IsFirst(i) /\ x = Group(given[i])
    <2>1. (IsFirst(i) /\ parts[i] = <<Group(given[i])>>) \/ parts[i] = <<>>
      OBVIOUS
    <2> HIDE DEF parts, IsFirst
    <2>2. QED
      BY <2>1, SingleElements, EmptySequence
  <1>4. DOMAIN parts = 1..Len(given) /\ parts = [i \in 1..Len(given) |-> parts[i]]
    OBVIOUS
  <1> HIDE DEF parts
  <1>5. IsSequence(FlattenSeq(parts)) /\ Elements(FlattenSeq(parts)) = UNION {Elements(parts[i]) : i \in 1..Len(given)}
    BY <1>0, <1>3, <1>4, JoinElements
  <1>6. ASSUME NEW x \in Elements(GroupRows(given)) PROVE \E i \in 1..Len(given) : IsFirst(i) /\ x = Group(given[i])
    <2>1. PICK i \in 1..Len(given) : x \in Elements(parts[i])
      BY <1>1, <1>5
    <2>2. IsFirst(i) /\ x = Group(given[i])
      BY <1>3, <2>1
    <2>3. QED
      BY <2>2
  <1>7. ASSUME NEW i \in 1..Len(given), NEW k \in 1..Len(given), IsFirst(i), IsFirst(k), given[i].index = given[k].index
        PROVE  i = k
    <2>1. k \notin 1..(i - 1) /\ i \notin 1..(k - 1)
      BY <1>7
    <2>2. QED
      BY <1>0, <2>1
  <1>8. ASSUME NEW x \in Elements(GroupRows(given)), NEW y \in Elements(GroupRows(given)), x.name = y.name
        PROVE  x = y
    <2>1. PICK i \in 1..Len(given) : IsFirst(i) /\ x = Group(given[i])
      BY <1>6
    <2>2. PICK k \in 1..Len(given) : IsFirst(k) /\ y = Group(given[k])
      BY <1>6
    <2>3. given[i].index = given[k].index
      BY <1>2, <1>8, <2>1, <2>2
    <2> HIDE DEF IsFirst
    <2>4. i = k
      BY <1>7, <2>1, <2>2, <2>3
    <2>5. QED
      BY <2>1, <2>2, <2>4
  <1>9. ASSUME NEW x \in Elements(GroupRows(given))
        PROVE  \E i \in 1..Len(given) : x.name = given[i].index /\ \A j \in 1..(i - 1) : given[j].index # given[i].index
    <2>1. PICK i \in 1..Len(given) : IsFirst(i) /\ x = Group(given[i])
      BY <1>6
    <2>2. x.name = given[i].index
      BY <1>2, <2>1
    <2>3. QED
      BY <2>1, <2>2
  <1>10. IsSequence(GroupRows(given))
    BY <1>1, <1>5
  <1>11. QED
    BY <1>8, <1>9, <1>10

\* The indexes that a source reads are a sequence.
LEMMA ReadIsSequence ==
    ASSUME NEW t, Listing(t)
    PROVE  IsSequence(ReadIndexes(t))
  <1>1. IsSequence(t.indexes) /\ Len(t.indexes) \in Nat /\ IsSequence(t.cols) /\ Len(t.cols) \in Nat
    BY SequenceFacts DEF Listing
  <1>2. ASSUME NEW indexes, IsSequence(indexes) PROVE IsSequence(Listed(indexes))
    <2>1. Len(indexes) \in Nat
      BY <1>2, SequenceFacts
    <2>2. DOMAIN Listed(indexes) = 1..Len(indexes) /\ Listed(indexes) = [i \in 1..Len(indexes) |-> Listed(indexes)[i]]
      BY DEF Listed
    <2>3. QED
      BY <2>1, <2>2, MakesSequence
  <1>3. IsSequence(MSSQLIndexes(t))
    <2> DEFINE given == MSSQLIndexRows(t)
    <2>1. IsSequence(given)
      BY RowsSequence
    <2>2. Len(given) \in Nat
      BY <2>1, SequenceFacts
    <2> HIDE DEF given
    <2>3. IsSequence(GroupRows(given))
      BY <2>1, GroupFacts
    <2>4. QED
      BY <2>3 DEF MSSQLIndexes, given
  <1>4. IsSequence(SQLiteIndexes(t))
    <2> DEFINE K == {i \in 1..Len(t.indexes) : t.indexes[i].kind \notin {"auto", "pk"}}
               kept == Filter(t.indexes, LAMBDA x : x.kind \notin {"auto", "pk"})
               own == Listed(kept)
    <2>1. kept = Picked(t.indexes, K)
      <3>1. kept = FlattenSeq([i \in 1..Len(t.indexes) |->
                       IF t.indexes[i].kind \notin {"auto", "pk"} THEN <<t.indexes[i]>> ELSE <<>>])
        BY DEF Filter
      <3>2. [i \in 1..Len(t.indexes) |-> IF t.indexes[i].kind \notin {"auto", "pk"} THEN <<t.indexes[i]>> ELSE <<>>]
              = [i \in 1..Len(t.indexes) |-> IF i \in K THEN <<t.indexes[i]>> ELSE <<>>]
        OBVIOUS
      <3>3. QED
        BY <3>1, <3>2 DEF Picked
    <2>2. SQLiteIndexes(t) = EnsurePKIndex(t, own)
      BY DEF SQLiteIndexes
    <2> HIDE DEF K, kept
    <2>3. IsSequence(own)
      BY <1>1, <1>2, <2>1, PickedFacts
    <2> HIDE DEF own
    <2> DEFINE new == CatalogIndex(t.name \o "_pkey", "pk", ColumnOrder(t), <<>>)
    <2>4. EnsurePKIndex(t, own) = own \/ EnsurePKIndex(t, own) = Append(own, new)
      BY DEF EnsurePKIndex
    <2> HIDE DEF new
    <2>5. IsSequence(Append(own, new))
      BY <2>3, SequenceAppend
    <2>6. QED
      BY <2>2, <2>3, <2>4, <2>5
  <1>5. IsSequence(MySQLIndexes(t)) /\ IsSequence(PgSQLIndexes(t))
    BY <1>1, <1>2 DEF MySQLIndexes, PgSQLIndexes
  <1>6. QED
    BY <1>3, <1>4, <1>5 DEF ReadIndexes

----------------------------------------------------------------------------
(* The catalog grows by one table at a time *)

\* The positions up to n, one of the tables wanted.
LEMMA UpTo ==
    ASSUME job \in Jobs, NEW n \in 0..Len(Wanted)
    PROVE  n \in Nat /\ \A k \in 1..n : k \in 1..Len(Wanted)
  <1> DEFINE len == Len(Wanted)
  <1>1. len \in Nat
    BY WantedFacts
  <1> HIDE DEF len
  <1>2. \A m \in 0..len : m \in Nat /\ \A k \in 1..m : k \in 1..len
    BY <1>1
  <1>3. QED
    BY <1>2 DEF len

\* The name in the target follows from the name and the schema.
LEMMA NamesApart ==
    ASSUME job \in Jobs, NEW t, NEW u, SchemaOf(t) = SchemaOf(u), t.name = u.name
    PROVE  FinalName(t) = FinalName(u)
  <1>1. CASE job.engine = "mssql"
    BY <1>1 DEF SchemaOf, FinalName
  <1>2. CASE job.engine # "mssql"
    BY <1>2, TableFacts
  <1>3. QED
    BY <1>1, <1>2

\* Only the marks of key columns change.
LEMMA FlagKeeps ==
    ASSUME NEW e, NEW t, AsRead(e, t, "tables"), NEW ks, Listing(t)
    PROVE  AsRead(FlagColumns(e, ks), t, "tables") /\ FlagColumns(e, ks).name = e.name
  <1> DEFINE f == FlagColumns(e, ks)
             cols == [k \in 1..Len(e.cols) |-> [e.cols[k] EXCEPT !.pk = @ \/ k \in ks]]
  <1>1. /\ e = [name |-> NameAt(t, "tables"), cols |-> e.cols, indexes |-> ReadIndexes(t),
                fkeys |-> [i \in 1..Len(t.fkeys) |-> ReadForeignKey(t, t.fkeys[i])],
                children |-> t.children, triggers |-> t.triggers]
        /\ IsSequence(e.cols) /\ Len(e.cols) = Len(t.cols)
        /\ \A k \in 1..Len(t.cols) : e.cols[k] = [ReadColumn(t, t.cols[k]) EXCEPT !.pk = e.cols[k].pk]
    BY DEF AsRead
  <1>2. f = [e EXCEPT !.cols = cols]
    BY DEF FlagColumns
  <1> DEFINE indexes == ReadIndexes(t)
             keys == [i \in 1..Len(t.fkeys) |-> ReadForeignKey(t, t.fkeys[i])]
  <1> HIDE DEF f, cols, indexes, keys
  <1>3. e = [name |-> NameAt(t, "tables"), cols |-> e.cols, indexes |-> indexes, fkeys |-> keys,
             children |-> t.children, triggers |-> t.triggers]
    BY <1>1 DEF indexes, keys
  <1>4. f = [name |-> NameAt(t, "tables"), cols |-> cols, indexes |-> indexes, fkeys |-> keys,
             children |-> t.children, triggers |-> t.triggers]
    BY <1>2, <1>3
  <1>5. f.name = e.name /\ f.cols = cols
    BY <1>3, <1>4
  <1>6. Len(t.cols) \in Nat
    BY SequenceFacts DEF Listing
  <1>7. DOMAIN cols = 1..Len(t.cols) /\ cols = [k \in 1..Len(t.cols) |-> cols[k]]
    BY <1>1 DEF cols
  <1>8. IsSequence(cols) /\ Len(cols) = Len(t.cols)
    BY <1>6, <1>7, MakesSequence
  <1>9. ASSUME NEW k \in 1..Len(t.cols)
        PROVE  cols[k] = [ReadColumn(t, t.cols[k]) EXCEPT !.pk = cols[k].pk]
    <2> DEFINE r == ReadColumn(t, t.cols[k])
               c == e.cols[k]
               old == c.pk
               mark == old \/ k \in ks
    <2>1. c = [r EXCEPT !.pk = old]
      BY <1>1
    <2>2. cols[k] = [c EXCEPT !.pk = mark]
      BY <1>1 DEF cols
    <2>3. "pk" \in DOMAIN r
      BY DEF ReadColumn, MySQLColumn, MSSQLColumn, SQLiteColumn, PgSQLColumn, CatalogColumn
    <2> HIDE DEF r, c, old, mark
    <2>4. cols[k] = [r EXCEPT !.pk = mark]
      BY <2>1, <2>2
    <2>5. cols[k].pk = mark
      BY <2>3, <2>4
    <2>6. QED
      BY <2>4, <2>5 DEF r
  <1>10. QED
    BY <1>4, <1>5, <1>8, <1>9 DEF AsRead, f, indexes, keys

\* setPKFlag changes no name and no schema.
LEMMA MarkKeeps ==
    ASSUME job \in Jobs, NEW n \in 0..Len(Wanted), NEW cat, CatalogOfFirst(cat, n, "tables"), NEW t
    PROVE  CatalogOfFirst(MarkKey(cat, t), n, "tables")
  <1> DEFINE m == MarkKey(cat, t)
  <1>1. CASE job.engine # "mssql"
    BY <1>1 DEF MarkKey
  <1>2. CASE job.engine = "mssql"
    <2> DEFINE cols == UNION {Elements(x.cols) : x \in {x \in Elements(ReadIndexes(t)) : x.primary}}
               Hits(col) == {h \in (1..Len(cat)) \X (UNION {1..Len(cat[i].tables) : i \in 1..Len(cat)}) :
                        /\ h[2] <= Len(cat[h[1]].tables) /\ cat[h[1]].tables[h[2]].name = t.name
                        /\ col \in {c.name : c \in Elements(cat[h[1]].tables[h[2]].cols)}}
               IsFirst(h, col) == h \in Hits(col) /\ \A o \in Hits(col) : h[1] < o[1] \/ (h[1] = o[1] /\ h[2] <= o[2])
               Flagged(i, j) == {k \in 1..Len(cat[i].tables[j].cols) :
                            LET col == cat[i].tables[j].cols[k].name IN col \in cols /\ IsFirst(<<i, j>>, col)}
    <2>1. m = [i \in 1..Len(cat) |->
                [name |-> cat[i].name,
                 tables |-> [j \in 1..Len(cat[i].tables) |-> FlagColumns(cat[i].tables[j], Flagged(i, j))]]]
      BY <1>2 DEF MarkKey, SetPKFlag
    <2> HIDE DEF m, cols, Flagged
    <2>2. /\ IsSequence(cat) /\ Len(cat) \in Nat
          /\ \A i \in 1..Len(cat) : IsSequence(cat[i].tables) /\ Len(cat[i].tables) \in Nat
      BY SequenceFacts DEF CatalogOfFirst, Shaped
    <2>3. DOMAIN m = 1..Len(cat) /\ m = [i \in 1..Len(cat) |-> m[i]]
      BY <2>1
    <2>4. IsSequence(m) /\ Len(m) = Len(cat)
      BY <2>2, <2>3, MakesSequence
    <2>5. ASSUME NEW i \in 1..Len(cat)
          PROVE  /\ m[i] = [name |-> m[i].name, tables |-> m[i].tables] /\ m[i].name = cat[i].name
                 /\ IsSequence(m[i].tables) /\ Len(m[i].tables) = Len(cat[i].tables)
                 /\ \A j \in 1..Len(cat[i].tables) : m[i].tables[j] = FlagColumns(cat[i].tables[j], Flagged(i, j))
      <3> DEFINE tables == [j \in 1..Len(cat[i].tables) |-> FlagColumns(cat[i].tables[j], Flagged(i, j))]
      <3>1. m[i] = [name |-> cat[i].name, tables |-> tables]
        BY <2>1
      <3>2. DOMAIN tables = 1..Len(cat[i].tables) /\ tables = [j \in 1..Len(cat[i].tables) |-> tables[j]]
        OBVIOUS
      <3>3. \A j \in 1..Len(cat[i].tables) : tables[j] = FlagColumns(cat[i].tables[j], Flagged(i, j))
        OBVIOUS
      <3> HIDE DEF tables
      <3>4. IsSequence(tables) /\ Len(tables) = Len(cat[i].tables)
        BY <2>2, <3>2, MakesSequence
      <3>5. QED
        BY <3>1, <3>3, <3>4
    <2>6. \A k \in 1..n : Listing(Wanted[k])
      <3>1. \A k \in 1..Len(Wanted) : Listing(Wanted[k])
        BY WantedFacts
      <3>2. QED
        BY <3>1, UpTo
    <2>7. \A i \in 1..Len(cat) : \A j \in 1..Len(cat[i].tables) : \E k \in 1..n : IsEntry(cat, i, j, Wanted[k], "tables")
      BY DEF CatalogOfFirst, HoldsFirst
    <2>8. ASSUME NEW i \in 1..Len(cat), NEW j \in 1..Len(cat[i].tables), NEW k \in 1..n, IsEntry(cat, i, j, Wanted[k], "tables")
          PROVE  IsEntry(m, i, j, Wanted[k], "tables") /\ m[i].tables[j].name = cat[i].tables[j].name
      <3> DEFINE u == Wanted[k]
                 e == cat[i].tables[j]
      <3>1. cat[i].name = SchemaOf(u) /\ AsRead(e, u, "tables") /\ Listing(u)
        BY <2>6, <2>8 DEF IsEntry
      <3>2. m[i].name = cat[i].name /\ m[i].tables[j] = FlagColumns(e, Flagged(i, j))
        BY <2>5
      <3> HIDE DEF u, e
      <3>3. AsRead(m[i].tables[j], u, "tables") /\ m[i].tables[j].name = e.name
        BY <3>1, <3>2, FlagKeeps
      <3>4. QED
        BY <3>1, <3>2, <3>3 DEF IsEntry, u, e
    <2>9. HoldsFirst(m, n, "tables")
      <3>1. ASSUME NEW i \in 1..Len(m), NEW j \in 1..Len(m[i].tables) PROVE \E k \in 1..n : IsEntry(m, i, j, Wanted[k], "tables")
        <4>1. i \in 1..Len(cat) /\ j \in 1..Len(cat[i].tables)
          BY <2>4, <2>5
        <4>2. QED
          BY <2>7, <2>8, <4>1
      <3>2. ASSUME NEW k \in 1..n PROVE \E i \in 1..Len(m) : \E j \in 1..Len(m[i].tables) : IsEntry(m, i, j, Wanted[k], "tables")
        <4>1. PICK i \in 1..Len(cat) : \E j \in 1..Len(cat[i].tables) : IsEntry(cat, i, j, Wanted[k], "tables")
          BY DEF CatalogOfFirst, HoldsFirst
        <4>2. PICK j \in 1..Len(cat[i].tables) : IsEntry(cat, i, j, Wanted[k], "tables")
          BY <4>1
        <4>3. i \in 1..Len(m) /\ j \in 1..Len(m[i].tables) /\ IsEntry(m, i, j, Wanted[k], "tables")
          BY <2>4, <2>5, <2>8, <4>2
        <4>4. QED
          BY <4>3
      <3>3. QED
        BY <3>1, <3>2 DEF HoldsFirst
    <2>10. Shaped(m)
      BY <2>4, <2>5 DEF Shaped
    <2>11. \A i \in 1..Len(cat) : \A j \in 1..Len(cat[i].tables) : m[i].tables[j].name = cat[i].tables[j].name
      BY <2>7, <2>8
    <2>12. Distinct(m)
      <3>1. Distinct(cat)
        BY DEF CatalogOfFirst
      <3>2. \A i, j \in 1..Len(m) : m[i].name = m[j].name => i = j
        BY <2>4, <2>5, <3>1 DEF Distinct
      <3>3. ASSUME NEW i \in 1..Len(m), NEW j \in 1..Len(m[i].tables), NEW k \in 1..Len(m[i].tables),
                   m[i].tables[j].name = m[i].tables[k].name
            PROVE  j = k
        <4>1. i \in 1..Len(cat) /\ j \in 1..Len(cat[i].tables) /\ k \in 1..Len(cat[i].tables)
          BY <2>4, <2>5
        <4>2. cat[i].tables[j].name = cat[i].tables[k].name
          BY <2>11, <3>3, <4>1
        <4>3. QED
          BY <3>1, <4>1, <4>2 DEF Distinct
      <3>4. QED
        BY <1>2, <3>2, <3>3 DEF Distinct
    <2>13. QED
      BY <2>9, <2>10, <2>12 DEF CatalogOfFirst, m
  <1>3. QED
    BY <1>1, <1>2

\* Where AppendTable puts the table t: at the end of the h-th schema, an old
\* one or a new one, after its q tables.
Appended(new, cat, t, h, q) ==
    /\ Shaped(new) /\ Len(new) \in Nat /\ h \in 1..Len(new) /\ q \in Nat
    /\ \A i \in 1..Len(cat) : i \in 1..Len(new)
    /\ \A i \in 1..Len(new) : i # h => i \in 1..Len(cat) /\ new[i] = cat[i]
    /\ new[h].name = SchemaOf(t) /\ Len(new[h].tables) = q + 1 /\ new[h].tables[q + 1] = ReadTable(t)
    /\ \A j \in 1..q : h \in 1..Len(cat) /\ j \in 1..Len(cat[h].tables) /\ new[h].tables[j] = cat[h].tables[j]
    /\ h \in 1..Len(cat) => cat[h].name = SchemaOf(t) /\ Len(cat[h].tables) = q /\ Len(new) = Len(cat)
    /\ h \notin 1..Len(cat) => \A i \in 1..Len(cat) : cat[i].name # SchemaOf(t)

\* AppendTable puts the table last in its schema, an old one or a new one.
LEMMA AppendShape ==
    ASSUME NEW cat, Shaped(cat), NEW t
    PROVE  \E h, q : Appended(AppendTable(cat, t), cat, t, h, q)
  <1> DEFINE new == AppendTable(cat, t)
             same == {i \in 1..Len(cat) : cat[i].name = SchemaOf(t)}
             r == ReadTable(t)
             n == Len(cat)
  <1>1. /\ IsSequence(cat) /\ n \in Nat /\ DOMAIN cat = 1..n
        /\ \A i \in 1..n : IsSequence(cat[i].tables) /\ Len(cat[i].tables) \in Nat
        /\ \A i \in 1..n : cat[i] = [name |-> cat[i].name, tables |-> cat[i].tables]
    BY SequenceFacts DEF Shaped
  <1>2. CASE same # {}
    <2> DEFINE h == Least(same)
               q == Len(cat[h].tables)
               added == Append(cat[h].tables, r)
    <2>1. h \in same
      BY <1>1, <1>2, LeastIn
    <2>2. new = [cat EXCEPT ![h].tables = added]
      BY <1>2 DEF AppendTable
    <2>3. h \in 1..n /\ cat[h].name = SchemaOf(t)
      BY <2>1
    <2> HIDE DEF h, n, r
    <2>4. /\ IsSequence(added) /\ Len(added) = q + 1 /\ added[q + 1] = r /\ q \in Nat
          /\ \A j \in 1..q : added[j] = cat[h].tables[j]
      BY <1>1, <2>3, SequenceAppend
    <2> HIDE DEF new, added
    <2>5. DOMAIN new = 1..n /\ (\A i \in 1..n : i # h => new[i] = cat[i]) /\ new[h] = [cat[h] EXCEPT !.tables = added]
      BY <1>1, <2>2, <2>3
    <2>6. new = [i \in 1..n |-> new[i]]
      BY <1>1, <2>2, <2>5
    <2>7. IsSequence(new) /\ Len(new) = n
      BY <1>1, <2>5, <2>6, MakesSequence
    <2>8. cat[h] = [name |-> cat[h].name, tables |-> cat[h].tables]
      BY <1>1, <2>3
    <2>9. new[h] = [name |-> SchemaOf(t), tables |-> added]
      BY <2>3, <2>5, <2>8
    <2>10. new[h].name = SchemaOf(t) /\ new[h].tables = added
      BY <2>9
    <2>11. \A i \in 1..n : new[i] = [name |-> new[i].name, tables |-> new[i].tables] /\ IsSequence(new[i].tables)
      BY <1>1, <2>4, <2>5, <2>9, <2>10
    <2>12. Shaped(new)
      BY <2>7, <2>11 DEF Shaped
    <2>13. Appended(new, cat, t, h, q)
      BY <1>1, <2>3, <2>4, <2>5, <2>7, <2>10, <2>12 DEF Appended, n, r
    <2>14. QED
      BY <2>13 DEF new
  <1>3. CASE same = {}
    <2> DEFINE s == [name |-> SchemaOf(t), tables |-> <<r>>]
    <2>1. new = Append(cat, s)
      BY <1>3 DEF AppendTable
    <2>2. IsSequence(<<r>>) /\ Len(<<r>>) = 1 /\ <<r>>[1] = r
      BY SingleSequence
    <2>3. \A i \in 1..n : cat[i].name # SchemaOf(t)
      BY <1>3
    <2> HIDE DEF new, r, n, same
    <2>4. s = [name |-> s.name, tables |-> s.tables] /\ s.name = SchemaOf(t) /\ s.tables = <<r>>
      OBVIOUS
    <2> HIDE DEF s
    <2>5. IsSequence(new) /\ Len(new) = n + 1 /\ (\A i \in 1..n : new[i] = cat[i]) /\ new[n + 1] = s
      BY <1>1, <2>1, SequenceAppend DEF n
    <2> DEFINE h == n + 1
    <2>6. h \in 1..Len(new) /\ Len(new) \in Nat /\ h \notin 1..n /\ (\A i \in 1..n : i \in 1..Len(new))
          /\ \A i \in 1..Len(new) : i # h => i \in 1..n
      BY <1>1, <2>5
    <2>7. new[h] = s
      BY <2>5
    <2> HIDE DEF h
    <2>8. \A i \in 1..Len(new) : new[i] = [name |-> new[i].name, tables |-> new[i].tables] /\ IsSequence(new[i].tables)
      BY <1>1, <2>2, <2>4, <2>5, <2>6, <2>7
    <2>9. Shaped(new)
      BY <2>5, <2>8 DEF Shaped
    <2>10. new[h].name = SchemaOf(t) /\ new[h].tables = <<r>>
      BY <2>4, <2>7
    <2>11. Len(new[h].tables) = 0 + 1 /\ new[h].tables[0 + 1] = r /\ 0 \in Nat /\ \A j \in 1..0 : FALSE
      BY <2>2, <2>10
    <2>12. Appended(new, cat, t, h, 0)
      BY <2>3, <2>5, <2>6, <2>9, <2>10, <2>11 DEF Appended, n, r
    <2>13. QED
      BY <2>12 DEF new
  <1>4. QED
    BY <1>2, <1>3

\* What the source reads of a table is that table's entry.
LEMMA ReadAsRead ==
    ASSUME NEW t, Listing(t)
    PROVE  AsRead(ReadTable(t), t, "tables") /\ ReadTable(t).name = t.name
  <1> DEFINE cols == ReadColumns(t)
             indexes == ReadIndexes(t)
             keys == [i \in 1..Len(t.fkeys) |-> ReadForeignKey(t, t.fkeys[i])]
             e == ReadTable(t)
  <1>1. e = [name |-> t.name, cols |-> cols, indexes |-> indexes, fkeys |-> keys,
             children |-> t.children, triggers |-> t.triggers]
    BY DEF ReadTable
  <1>2. Len(t.cols) \in Nat
    BY SequenceFacts DEF Listing
  <1>3. /\ DOMAIN cols = 1..Len(t.cols) /\ cols = [k \in 1..Len(t.cols) |-> cols[k]]
        /\ \A k \in 1..Len(t.cols) : cols[k] = ReadColumn(t, t.cols[k])
    BY DEF ReadColumns
  <1>4. NameAt(t, "tables") = t.name
    BY DEF NameAt
  <1> HIDE DEF e, cols, indexes, keys
  <1>5. IsSequence(cols) /\ Len(cols) = Len(t.cols)
    BY <1>2, <1>3, MakesSequence
  <1>6. e.cols = cols /\ e.name = t.name
    BY <1>1
  <1>7. ASSUME NEW k \in 1..Len(t.cols) PROVE cols[k] = [ReadColumn(t, t.cols[k]) EXCEPT !.pk = cols[k].pk]
    <2> DEFINE r == ReadColumn(t, t.cols[k])
    <2>1. \E name, type, auto, default, pk, seq, owned, utype :
             r = [name |-> name, type |-> type, auto |-> auto, default |-> default, pk |-> pk, seq |-> seq,
                  owned |-> owned, utype |-> utype]
      BY DEF ReadColumn, MySQLColumn, MSSQLColumn, SQLiteColumn, PgSQLColumn, CatalogColumn
    <2> HIDE DEF r
    <2>2. r = [r EXCEPT !.pk = r.pk]
      BY <2>1
    <2>3. cols[k] = r
      BY <1>3 DEF r
    <2>4. QED
      BY <2>2, <2>3 DEF r
  <1>8. QED
    BY <1>1, <1>4, <1>5, <1>6, <1>7 DEF AsRead, e, indexes, keys

\* One more table is read, and those before it stay where they are.
LEMMA AppendKeeps ==
    ASSUME job \in Jobs, NEW n \in 0..Len(Wanted), n + 1 \in 1..Len(Wanted),
           NEW cat, CatalogOfFirst(cat, n, "tables")
    PROVE  CatalogOfFirst(AppendTable(cat, Wanted[n + 1]), n + 1, "tables")
  <1> DEFINE t == Wanted[n + 1]
             new == AppendTable(cat, t)
             r == ReadTable(t)
  <1>1. Shaped(cat) /\ Distinct(cat) /\ HoldsFirst(cat, n, "tables")
    BY DEF CatalogOfFirst
  <1>2. \E h, q : Appended(new, cat, t, h, q)
    BY <1>1, AppendShape
  <1>3. Listing(t)
    BY WantedFacts
  <1>4. AsRead(r, t, "tables") /\ r.name = t.name
    BY <1>3, ReadAsRead
  <1>5. n \in Nat /\ (\A k \in 1..n : k \in 1..Len(Wanted) /\ k \in 1..(n + 1) /\ k # n + 1) /\ n + 1 \in 1..(n + 1)
    <2>1. n \in Nat /\ \A k \in 1..n : k \in 1..Len(Wanted)
      BY UpTo
    <2>2. QED
      BY <2>1
  <1> HIDE DEF new, r
  <1>6. PICK h, q : Appended(new, cat, t, h, q)
    BY <1>2
  <1>7. /\ Shaped(new) /\ Len(new) \in Nat /\ h \in 1..Len(new) /\ q \in Nat
        /\ \A i \in 1..Len(cat) : i \in 1..Len(new)
        /\ \A i \in 1..Len(new) : i # h => i \in 1..Len(cat) /\ new[i] = cat[i]
        /\ new[h].name = SchemaOf(t) /\ Len(new[h].tables) = q + 1 /\ new[h].tables[q + 1] = r
        /\ \A j \in 1..q : h \in 1..Len(cat) /\ j \in 1..Len(cat[h].tables) /\ new[h].tables[j] = cat[h].tables[j]
        /\ h \in 1..Len(cat) => cat[h].name = SchemaOf(t) /\ Len(cat[h].tables) = q /\ Len(new) = Len(cat)
        /\ h \notin 1..Len(cat) => \A i \in 1..Len(cat) : cat[i].name # SchemaOf(t)
    BY <1>6 DEF Appended, r
  <1>8. \A j \in 1..(q + 1) : j = q + 1 \/ j \in 1..q
    BY <1>7
  <1>9. q + 1 \in 1..(q + 1) /\ \A j \in 1..q : j \in 1..(q + 1)
    BY <1>7
  <1>10. ASSUME NEW i \in 1..Len(new), NEW j \in 1..Len(new[i].tables), ~(i = h /\ j = q + 1)
         PROVE  /\ i \in 1..Len(cat) /\ j \in 1..Len(cat[i].tables)
                /\ new[i].name = cat[i].name /\ new[i].tables[j] = cat[i].tables[j]
    <2>1. CASE i = h
      <3>1. j \in 1..q
        BY <1>7, <1>8, <1>10, <2>1
      <3>2. QED
        BY <1>7, <2>1, <3>1
    <2>2. CASE i # h
      BY <1>7, <2>2
    <2>3. QED
      BY <2>1, <2>2
  <1>11. ASSUME NEW i \in 1..Len(cat), NEW j \in 1..Len(cat[i].tables)
         PROVE  /\ i \in 1..Len(new) /\ j \in 1..Len(new[i].tables) /\ ~(i = h /\ j = q + 1)
                /\ new[i].name = cat[i].name /\ new[i].tables[j] = cat[i].tables[j]
    <2>1. CASE i = h
      <3>1. j \in 1..q /\ j \in 1..(q + 1) /\ new[i].tables[j] = cat[i].tables[j]
        BY <1>7, <1>9, <2>1
      <3>2. j # q + 1
        BY <1>7, <3>1
      <3>3. QED
        BY <1>7, <2>1, <3>1, <3>2
    <2>2. CASE i # h
      BY <1>7, <2>2
    <2>3. QED
      BY <2>1, <2>2
  <1>12. IsEntry(new, h, q + 1, t, "tables")
    BY <1>4, <1>7 DEF IsEntry
  <1>13. \A i \in 1..Len(cat) : \A j \in 1..Len(cat[i].tables) : \E k \in 1..n : IsEntry(cat, i, j, Wanted[k], "tables")
    BY <1>1 DEF HoldsFirst
  <1>14. HoldsFirst(new, n + 1, "tables")
    <2>1. ASSUME NEW i \in 1..Len(new), NEW j \in 1..Len(new[i].tables)
          PROVE  \E k \in 1..(n + 1) : IsEntry(new, i, j, Wanted[k], "tables")
      <3>1. CASE i = h /\ j = q + 1
        BY <1>5, <1>12, <3>1
      <3>2. CASE ~(i = h /\ j = q + 1)
        <4>1. i \in 1..Len(cat) /\ j \in 1..Len(cat[i].tables) /\ new[i].name = cat[i].name
              /\ new[i].tables[j] = cat[i].tables[j]
          BY <1>10, <3>2
        <4>2. PICK k \in 1..n : IsEntry(cat, i, j, Wanted[k], "tables")
          BY <1>13, <4>1
        <4>3. IsEntry(new, i, j, Wanted[k], "tables")
          BY <4>1, <4>2 DEF IsEntry
        <4>4. QED
          BY <1>5, <4>3
      <3>3. QED
        BY <3>1, <3>2
    <2>2. ASSUME NEW k \in 1..(n + 1)
          PROVE  \E i \in 1..Len(new) : \E j \in 1..Len(new[i].tables) : IsEntry(new, i, j, Wanted[k], "tables")
      <3>1. CASE k = n + 1
        BY <1>7, <1>9, <1>12, <3>1
      <3>2. CASE k # n + 1
        <4>1. k \in 1..n
          BY <1>5, <3>2
        <4>2. PICK i \in 1..Len(cat) : \E j \in 1..Len(cat[i].tables) : IsEntry(cat, i, j, Wanted[k], "tables")
          BY <1>1, <4>1 DEF HoldsFirst
        <4>3. PICK j \in 1..Len(cat[i].tables) : IsEntry(cat, i, j, Wanted[k], "tables")
          BY <4>2
        <4>4. IsEntry(new, i, j, Wanted[k], "tables")
          BY <1>11, <4>3 DEF IsEntry
        <4>5. QED
          BY <1>11, <4>4
      <3>3. QED
        BY <3>1, <3>2
    <2>3. QED
      BY <2>1, <2>2 DEF HoldsFirst
  <1>15. \A i, j \in 1..Len(cat) : cat[i].name = cat[j].name => i = j
    BY <1>1 DEF Distinct
  <1>16. \A i, j \in 1..Len(new) : new[i].name = new[j].name => i = j
    <2>1. \A j \in 1..Len(new) : j # h => new[j].name # SchemaOf(t)
      BY <1>7, <1>15
    <2>2. QED
      BY <1>7, <1>15, <2>1
  <1>17. ASSUME NEW i \in 1..Len(new), NEW j \in 1..Len(new[i].tables), ~(i = h /\ j = q + 1), new[i].name = SchemaOf(t)
         PROVE  new[i].tables[j].name # t.name
    <2>1. PICK k \in 1..n : IsEntry(cat, i, j, Wanted[k], "tables")
      BY <1>10, <1>13, <1>17
    <2>2. SchemaOf(Wanted[k]) = SchemaOf(t) /\ AsRead(new[i].tables[j], Wanted[k], "tables")
      BY <1>10, <1>17, <2>1 DEF IsEntry
    <2>3. new[i].tables[j].name = Wanted[k].name
      BY <2>2 DEF AsRead, NameAt
    <2>4. SUFFICES ASSUME Wanted[k].name = t.name PROVE FALSE
      BY <2>3
    <2>5. FinalName(Wanted[k]) = FinalName(t)
      BY <2>2, <2>4, NamesApart
    <2>6. k = n + 1
      BY <1>5, <2>2, <2>5, WantedFacts
    <2>7. QED
      BY <1>5, <2>6
  <1>18. ASSUME NEW i \in 1..Len(new), NEW j \in 1..Len(new[i].tables), NEW k \in 1..Len(new[i].tables),
                new[i].tables[j].name = new[i].tables[k].name
         PROVE  j = k
    <2>1. CASE i = h /\ j = q + 1
      BY <1>4, <1>7, <1>17, <1>18, <2>1
    <2>2. CASE i = h /\ k = q + 1
      BY <1>4, <1>7, <1>17, <1>18, <2>2
    <2>3. CASE ~(i = h /\ j = q + 1) /\ ~(i = h /\ k = q + 1)
      <3>1. i \in 1..Len(cat) /\ j \in 1..Len(cat[i].tables) /\ k \in 1..Len(cat[i].tables)
            /\ cat[i].tables[j].name = cat[i].tables[k].name
        BY <1>10, <1>18, <2>3
      <3>2. QED
        BY <1>1, <3>1 DEF Distinct
    <2>4. QED
      BY <2>1, <2>2, <2>3
  <1>19. job.engine # "mssql" => Len(new) = 1 /\ new[1].name = job.schema
    <2>1. SUFFICES ASSUME job.engine # "mssql" PROVE Len(new) = 1 /\ new[1].name = job.schema
      OBVIOUS
    <2>2. Len(cat) = 1 /\ cat[1].name = job.schema /\ SchemaOf(t) = job.schema
      BY <1>1, <2>1 DEF Distinct, SchemaOf
    <2>3. 1 \in 1..Len(cat) /\ \A i \in 1..Len(cat) : i = 1
      BY <2>2
    <2>4. h \in 1..Len(cat)
      BY <1>7, <2>2, <2>3
    <2>5. h = 1
      BY <2>3, <2>4
    <2>6. QED
      BY <1>7, <2>2, <2>4, <2>5
  <1>20. Distinct(new)
    BY <1>16, <1>18, <1>19 DEF Distinct
  <1>21. QED
    BY <1>7, <1>14, <1>20 DEF CatalogOfFirst, new

\* The entry e of the schema named s when views have been renamed.
RenamedEntry(s, e) == IF <<s, e.name>> \in job.views THEN [e EXCEPT !.name = Strip(@)] ELSE e
RenamedCatalog(cat) ==
    [i \in 1..Len(cat) |->
        [name |-> cat[i].name, tables |-> [j \in 1..Len(cat[i].tables) |-> RenamedEntry(cat[i].name, cat[i].tables[j])]]]

\* A view's table takes the view's name.
LEMMA EntryRenamed ==
    ASSUME job \in Jobs, NEW e, NEW t, AsRead(e, t, "tables")
    PROVE  AsRead(RenamedEntry(SchemaOf(t), e), t, "read") /\ RenamedEntry(SchemaOf(t), e).name = FinalName(t)
  <1> DEFINE f == RenamedEntry(SchemaOf(t), e)
             indexes == ReadIndexes(t)
             keys == [i \in 1..Len(t.fkeys) |-> ReadForeignKey(t, t.fkeys[i])]
  <1>1. /\ e = [name |-> t.name, cols |-> e.cols, indexes |-> indexes, fkeys |-> keys,
                children |-> t.children, triggers |-> t.triggers]
        /\ IsSequence(e.cols) /\ Len(e.cols) = Len(t.cols)
        /\ \A k \in 1..Len(t.cols) : e.cols[k] = [ReadColumn(t, t.cols[k]) EXCEPT !.pk = e.cols[k].pk]
    BY DEF AsRead, NameAt
  <1> HIDE DEF indexes, keys
  <1>2. e.name = t.name
    BY <1>1
  <1>3. f = IF <<SchemaOf(t), t.name>> \in job.views THEN [e EXCEPT !.name = Strip(t.name)] ELSE e
    BY <1>2 DEF RenamedEntry
  <1>4. FinalName(t) = IF <<SchemaOf(t), t.name>> \in job.views THEN Strip(t.name) ELSE t.name
    <2>1. CASE job.engine = "mssql"
      BY <2>1 DEF FinalName, SchemaOf
    <2>2. CASE job.engine # "mssql"
      <3>1. job.views = {}
        BY <2>2, SourcesAssumption DEF SourcesAssumption
      <3>2. QED
        BY <3>1 DEF FinalName
    <2>3. QED
      BY <2>1, <2>2
  <1> HIDE DEF f
  <1>5. f = [name |-> FinalName(t), cols |-> e.cols, indexes |-> indexes, fkeys |-> keys,
             children |-> t.children, triggers |-> t.triggers]
    <2>1. [e EXCEPT !.name = Strip(t.name)]
            = [name |-> Strip(t.name), cols |-> e.cols, indexes |-> indexes, fkeys |-> keys,
               children |-> t.children, triggers |-> t.triggers]
      BY <1>1
    <2>2. QED
      BY <1>1, <1>3, <1>4, <2>1
  <1>6. f.name = FinalName(t) /\ f.cols = e.cols
    BY <1>5
  <1>7. NameAt(t, "read") = FinalName(t)
    BY DEF NameAt
  <1>8. QED
    BY <1>1, <1>5, <1>6, <1>7 DEF AsRead, f, indexes, keys

\* Renaming all views changes the names and nothing else.
LEMMA RenameKeeps ==
    ASSUME job \in Jobs, NEW cat, CatalogOfFirst(cat, Len(Wanted), "tables")
    PROVE  CatalogOfFirst(RenamedCatalog(cat), Len(Wanted), "read")
  <1> DEFINE m == RenamedCatalog(cat)
             n == Len(Wanted)
  <1>1. Shaped(cat) /\ Distinct(cat) /\ HoldsFirst(cat, n, "tables")
    BY DEF CatalogOfFirst
  <1>2. /\ IsSequence(cat) /\ Len(cat) \in Nat
        /\ \A i \in 1..Len(cat) : IsSequence(cat[i].tables) /\ Len(cat[i].tables) \in Nat
    BY <1>1, SequenceFacts DEF Shaped
  <1>3. /\ DOMAIN m = 1..Len(cat) /\ m = [i \in 1..Len(cat) |-> m[i]]
        /\ \A i \in 1..Len(cat) : m[i] =
              [name |-> cat[i].name, tables |-> [j \in 1..Len(cat[i].tables) |-> RenamedEntry(cat[i].name, cat[i].tables[j])]]
    BY DEF RenamedCatalog
  <1> HIDE DEF m, n
  <1>4. IsSequence(m) /\ Len(m) = Len(cat)
    BY <1>2, <1>3, MakesSequence
  <1>5. ASSUME NEW i \in 1..Len(cat)
        PROVE  /\ m[i] = [name |-> m[i].name, tables |-> m[i].tables] /\ m[i].name = cat[i].name
               /\ IsSequence(m[i].tables) /\ Len(m[i].tables) = Len(cat[i].tables)
               /\ \A j \in 1..Len(cat[i].tables) : m[i].tables[j] = RenamedEntry(cat[i].name, cat[i].tables[j])
    <2> DEFINE tables == [j \in 1..Len(cat[i].tables) |-> RenamedEntry(cat[i].name, cat[i].tables[j])]
    <2>1. m[i] = [name |-> cat[i].name, tables |-> tables]
      BY <1>3
    <2>2. DOMAIN tables = 1..Len(cat[i].tables) /\ tables = [j \in 1..Len(cat[i].tables) |-> tables[j]]
      OBVIOUS
    <2>3. \A j \in 1..Len(cat[i].tables) : tables[j] = RenamedEntry(cat[i].name, cat[i].tables[j])
      OBVIOUS
    <2> HIDE DEF tables
    <2>4. IsSequence(tables) /\ Len(tables) = Len(cat[i].tables)
      BY <1>2, <2>2, MakesSequence
    <2>5. QED
      BY <2>1, <2>3, <2>4
  <1>6. \A i \in 1..Len(cat) : \A j \in 1..Len(cat[i].tables) : \E k \in 1..n : IsEntry(cat, i, j, Wanted[k], "tables")
    BY <1>1 DEF HoldsFirst
  <1>7. ASSUME NEW i \in 1..Len(cat), NEW j \in 1..Len(cat[i].tables), NEW k \in 1..n,
               IsEntry(cat, i, j, Wanted[k], "tables")
        PROVE  /\ IsEntry(m, i, j, Wanted[k], "read") /\ m[i].tables[j].name = FinalName(Wanted[k])
               /\ cat[i].tables[j].name = Wanted[k].name /\ m[i].name = SchemaOf(Wanted[k])
    <2> DEFINE u == Wanted[k]
               e == cat[i].tables[j]
    <2>1. cat[i].name = SchemaOf(u) /\ AsRead(e, u, "tables")
      BY <1>7 DEF IsEntry
    <2>2. m[i].name = cat[i].name /\ m[i].tables[j] = RenamedEntry(cat[i].name, e)
      BY <1>5
    <2> HIDE DEF u, e
    <2>3. AsRead(m[i].tables[j], u, "read") /\ m[i].tables[j].name = FinalName(u)
      BY <2>1, <2>2, EntryRenamed
    <2>4. e.name = u.name
      BY <2>1 DEF AsRead, NameAt
    <2>5. QED
      BY <2>1, <2>2, <2>3, <2>4 DEF IsEntry, u, e
  <1>8. HoldsFirst(m, n, "read")
    <2>1. ASSUME NEW i \in 1..Len(m), NEW j \in 1..Len(m[i].tables) PROVE \E k \in 1..n : IsEntry(m, i, j, Wanted[k], "read")
      <3>1. i \in 1..Len(cat) /\ j \in 1..Len(cat[i].tables)
        BY <1>4, <1>5
      <3>2. QED
        BY <1>6, <1>7, <3>1
    <2>2. ASSUME NEW k \in 1..n PROVE \E i \in 1..Len(m) : \E j \in 1..Len(m[i].tables) : IsEntry(m, i, j, Wanted[k], "read")
      <3>1. PICK i \in 1..Len(cat) : \E j \in 1..Len(cat[i].tables) : IsEntry(cat, i, j, Wanted[k], "tables")
        BY <1>1 DEF HoldsFirst
      <3>2. PICK j \in 1..Len(cat[i].tables) : IsEntry(cat, i, j, Wanted[k], "tables")
        BY <3>1
      <3>3. i \in 1..Len(m) /\ j \in 1..Len(m[i].tables) /\ IsEntry(m, i, j, Wanted[k], "read")
        BY <1>4, <1>5, <1>7, <3>2
      <3>4. QED
        BY <3>3
    <2>3. QED
      BY <2>1, <2>2 DEF HoldsFirst
  <1>9. Shaped(m)
    BY <1>4, <1>5 DEF Shaped
  <1>10. \A i, j \in 1..Len(m) : m[i].name = m[j].name => i = j
    BY <1>1, <1>4, <1>5 DEF Distinct
  <1>11. ASSUME NEW i \in 1..Len(m), NEW j \in 1..Len(m[i].tables), NEW k \in 1..Len(m[i].tables),
                m[i].tables[j].name = m[i].tables[k].name
         PROVE  j = k
    <2>1. i \in 1..Len(cat) /\ j \in 1..Len(cat[i].tables) /\ k \in 1..Len(cat[i].tables)
      BY <1>4, <1>5
    <2>2. PICK a \in 1..n : IsEntry(cat, i, j, Wanted[a], "tables")
      BY <1>6, <2>1
    <2>3. PICK b \in 1..n : IsEntry(cat, i, k, Wanted[b], "tables")
      BY <1>6, <2>1
    <2>4. /\ FinalName(Wanted[a]) = FinalName(Wanted[b]) /\ SchemaOf(Wanted[a]) = SchemaOf(Wanted[b])
          /\ cat[i].tables[j].name = Wanted[a].name /\ cat[i].tables[k].name = Wanted[b].name
      BY <1>7, <1>11, <2>1, <2>2, <2>3
    <2>5. a = b
      BY <2>4, WantedFacts DEF n
    <2>6. cat[i].tables[j].name = cat[i].tables[k].name
      BY <2>4, <2>5
    <2>7. QED
      BY <1>1, <2>1, <2>6 DEF Distinct
  <1>12. Distinct(m)
    <2>1. job.engine # "mssql" => Len(cat) = 1 /\ cat[1].name = job.schema
      BY <1>1 DEF Distinct
    <2>2. job.engine # "mssql" => Len(m) = 1 /\ m[1].name = job.schema
      <3>1. SUFFICES ASSUME job.engine # "mssql" PROVE Len(m) = 1 /\ m[1].name = job.schema
        OBVIOUS
      <3>2. 1 \in 1..Len(cat)
        BY <2>1, <3>1
      <3>3. QED
        BY <1>4, <1>5, <2>1, <3>1, <3>2
    <2>3. QED
      BY <1>10, <1>11, <2>2 DEF Distinct
  <1>13. QED
    BY <1>8, <1>9, <1>12 DEF CatalogOfFirst, m, n

----------------------------------------------------------------------------
(* The scripts *)

\* The lists of the catalog are sequences, and its names those of the tables loaded.
LEMMA EntryLists ==
    ASSUME job \in Jobs, CatalogOfFirst(catalog, Len(Wanted), "read")
    PROVE  /\ IsSequence(catalog) /\ Len(catalog) \in Nat
           /\ \A i \in 1..Len(catalog) :
                 /\ IsSequence(catalog[i].tables) /\ Len(catalog[i].tables) \in Nat
                 /\ \A j \in 1..Len(catalog[i].tables) : LET e == catalog[i].tables[j] IN
                       /\ IsSequence(e.cols) /\ IsSequence(e.indexes) /\ IsSequence(e.fkeys)
                       /\ IsSequence(e.children) /\ IsSequence(e.triggers)
                       /\ <<catalog[i].name, e.name>> \in LoadedNames
  <1>1. Shaped(catalog) /\ HoldsFirst(catalog, Len(Wanted), "read")
    BY DEF CatalogOfFirst
  <1>2. IsSequence(catalog) /\ Len(catalog) \in Nat
    BY <1>1, SequenceFacts DEF Shaped
  <1>3. \A i \in 1..Len(catalog) : IsSequence(catalog[i].tables) /\ Len(catalog[i].tables) \in Nat
    BY <1>1, SequenceFacts DEF Shaped
  <1>4. ASSUME NEW i \in 1..Len(catalog), NEW j \in 1..Len(catalog[i].tables)
        PROVE  LET e == catalog[i].tables[j] IN
               /\ IsSequence(e.cols) /\ IsSequence(e.indexes) /\ IsSequence(e.fkeys)
               /\ IsSequence(e.children) /\ IsSequence(e.triggers)
               /\ <<catalog[i].name, e.name>> \in LoadedNames
    <2> DEFINE e == catalog[i].tables[j]
    <2>1. PICK k \in 1..Len(Wanted) : IsEntry(catalog, i, j, Wanted[k], "read")
      BY <1>1 DEF HoldsFirst
    <2> DEFINE t == Wanted[k]
               indexes == ReadIndexes(t)
               keys == [n \in 1..Len(t.fkeys) |-> ReadForeignKey(t, t.fkeys[n])]
    <2>2. Listing(t) /\ <<SchemaOf(t), FinalName(t)>> \in LoadedNames
      BY WantedFacts
    <2>3. catalog[i].name = SchemaOf(t)
      BY <2>1 DEF IsEntry
    <2>4. /\ e = [name |-> FinalName(t), cols |-> e.cols, indexes |-> indexes, fkeys |-> keys,
                  children |-> t.children, triggers |-> t.triggers]
          /\ IsSequence(e.cols)
      BY <2>1 DEF IsEntry, AsRead, NameAt
    <2>5. IsSequence(indexes)
      BY <2>2, ReadIsSequence
    <2>6. IsSequence(keys)
      <3>1. Len(t.fkeys) \in Nat
        BY <2>2, SequenceFacts DEF Listing
      <3>2. DOMAIN keys = 1..Len(t.fkeys) /\ keys = [n \in 1..Len(t.fkeys) |-> keys[n]]
        OBVIOUS
      <3> HIDE DEF keys, t
      <3>3. QED
        BY <3>1, <3>2, MakesSequence
    <2> HIDE DEF e, indexes, keys
    <2>7. e.name = FinalName(t) /\ e.indexes = indexes /\ e.fkeys = keys /\ e.children = t.children /\ e.triggers = t.triggers
      BY <2>4
    <2>8. QED
      BY <2>2, <2>3, <2>4, <2>5, <2>6, <2>7 DEF e, Listing
  <1>5. QED
    BY <1>2, <1>3, <1>4
\* An option leaves all statements or none.
LEMMA WhenElements ==
    ASSUME NEW option, NEW s, IsSequence(s)
    PROVE  IsSequence(When(option, s)) /\ Elements(When(option, s)) = {x \in Elements(s) : option \in job.opts}
  BY EmptySequence DEF When

\* The pieces of a catalog's tables, joined.
LEMMA NestElements ==
    ASSUME NEW cat, IsSequence(cat), \A i \in 1..Len(cat) : IsSequence(cat[i].tables),
           NEW P, \A i \in 1..Len(cat) : \A j \in 1..Len(cat[i].tables) : IsSequence(P[i][j]),
           NEW joined, joined = FlattenSeq([i \in 1..Len(cat) |-> FlattenSeq([j \in 1..Len(cat[i].tables) |-> P[i][j]])])
    PROVE  /\ IsSequence(joined)
           /\ \A x : x \in Elements(joined) <=>
                 \E i \in 1..Len(cat) : \E j \in 1..Len(cat[i].tables) : x \in Elements(P[i][j])
  <1> DEFINE OfSchema(i) == [j \in 1..Len(cat[i].tables) |-> P[i][j]]
             G == [i \in 1..Len(cat) |-> FlattenSeq(OfSchema(i))]
  <1>1. ASSUME NEW i \in 1..Len(cat)
        PROVE  IsSequence(G[i]) /\ Elements(G[i]) = UNION {Elements(P[i][j]) : j \in 1..Len(cat[i].tables)}
    <2> DEFINE r == OfSchema(i)
               n == Len(cat[i].tables)
    <2>1. n \in Nat
      BY SequenceFacts
    <2>2. DOMAIN r = 1..n /\ r = [j \in 1..n |-> r[j]] /\ \A j \in 1..n : r[j] = P[i][j]
      OBVIOUS
    <2>3. G[i] = FlattenSeq(r)
      OBVIOUS
    <2>4. \A j \in 1..n : IsSequence(P[i][j])
      OBVIOUS
    <2> HIDE DEF G, r, n
    <2>5. IsSequence(FlattenSeq(r)) /\ Elements(FlattenSeq(r)) = UNION {Elements(r[j]) : j \in 1..n}
      BY <2>1, <2>2, <2>4, JoinElements
    <2>6. QED
      BY <2>2, <2>3, <2>5 DEF n
  <1>2. Len(cat) \in Nat
    BY SequenceFacts
  <1>3. DOMAIN G = 1..Len(cat) /\ G = [i \in 1..Len(cat) |-> G[i]]
    OBVIOUS
  <1> DEFINE H == FlattenSeq(G)
  <1>4. H = joined
    OBVIOUS
  <1> HIDE DEF G
  <1>5. IsSequence(H) /\ Elements(H) = UNION {Elements(G[i]) : i \in 1..Len(cat)}
    BY <1>1, <1>2, <1>3, JoinElements
  <1> HIDE DEF H
  <1>6. \A x : x \in Elements(H) <=> \E i \in 1..Len(cat) : x \in Elements(G[i])
    BY <1>5
  <1>7. ASSUME NEW x, NEW i \in 1..Len(cat)
        PROVE  x \in Elements(G[i]) <=> \E j \in 1..Len(cat[i].tables) : x \in Elements(P[i][j])
    BY <1>1
  <1>8. \A x : x \in Elements(H) <=>
            \E i \in 1..Len(cat) : \E j \in 1..Len(cat[i].tables) : x \in Elements(P[i][j])
    BY <1>6, <1>7
  <1>9. QED
    BY <1>4, <1>5, <1>8

\* The statements f[1], ..., f[n] of an option.
Optional(option, f, n) == FlattenSeq([k \in 1..n |-> When(option, <<f[k]>>)])

\* Statements one for each of a list, under an option.
LEMMA OptionElements ==
    ASSUME NEW n \in Nat, NEW option, NEW f
    PROVE  /\ IsSequence(Optional(option, f, n))
           /\ \A st \in Elements(Optional(option, f, n)) : option \in job.opts /\ \E k \in 1..n : st = f[k]
           /\ option \in job.opts => \A k \in 1..n : f[k] \in Elements(Optional(option, f, n))
  <1> DEFINE seqs == [k \in 1..n |-> When(option, <<f[k]>>)]
             g == FlattenSeq(seqs)
  <1>1. ASSUME NEW k \in 1..n
        PROVE  IsSequence(seqs[k]) /\ \A st : st \in Elements(seqs[k]) <=> option \in job.opts /\ st = f[k]
    <2>1. seqs[k] = When(option, <<f[k]>>)
      OBVIOUS
    <2>2. IsSequence(<<f[k]>>) /\ Elements(<<f[k]>>) = {f[k]}
      BY SingleElements
    <2> HIDE DEF seqs
    <2>3. IsSequence(seqs[k]) /\ Elements(seqs[k]) = {x \in Elements(<<f[k]>>) : option \in job.opts}
      BY <2>1, <2>2, WhenElements
    <2>4. QED
      BY <2>2, <2>3
  <1>2. DOMAIN seqs = 1..n /\ seqs = [k \in 1..n |-> seqs[k]]
    OBVIOUS
  <1>3. g = Optional(option, f, n)
    BY DEF Optional
  <1> HIDE DEF seqs
  <1>4. IsSequence(g) /\ Elements(g) = UNION {Elements(seqs[k]) : k \in 1..n}
    BY <1>1, <1>2, JoinElements
  <1>5. \A st : st \in Elements(g) <=> \E k \in 1..n : st \in Elements(seqs[k])
    BY <1>4
  <1> HIDE DEF g
  <1>6. ASSUME NEW st \in Elements(g) PROVE option \in job.opts /\ \E k \in 1..n : st = f[k]
    BY <1>1, <1>5
  <1>7. ASSUME option \in job.opts, NEW k \in 1..n PROVE f[k] \in Elements(g)
    BY <1>1, <1>5, <1>7
  <1>8. QED
    BY <1>3, <1>4, <1>6, <1>7

\* One statement for every index of every table, if indexes are created.
LEMMA IndexElements ==
    ASSUME job \in Jobs, CatalogOfFirst(catalog, Len(Wanted), "read")
    PROVE  /\ IsSequence(IndexStatements(catalog))
           /\ \A st : st \in Elements(IndexStatements(catalog)) <=>
                 /\ "CreateIndexes" \in job.opts
                 /\ \E i \in 1..Len(catalog) : \E j \in 1..Len(catalog[i].tables) :
                       \E x \in Elements(catalog[i].tables[j].indexes) : st = Statement("index", catalog[i].name, catalog[i].tables[j].name, x)
  <1> DEFINE List(i, j) == catalog[i].tables[j].indexes
             F(i, j) == [k \in 1..Len(List(i, j)) |-> Statement("index", catalog[i].name, catalog[i].tables[j].name, List(i, j)[k])]
             Q(i, j) == FlattenSeq([k \in 1..Len(List(i, j)) |-> When("CreateIndexes", <<F(i, j)[k]>>)])
             P == [i \in 1..Len(catalog) |-> [j \in 1..Len(catalog[i].tables) |-> Q(i, j)]]
  <1>1. IndexStatements(catalog) = FlattenSeq([i \in 1..Len(catalog) |-> FlattenSeq([j \in 1..Len(catalog[i].tables) |-> P[i][j]])])
    BY DEF IndexStatements, Over
  <1>2. /\ IsSequence(catalog) /\ \A i \in 1..Len(catalog) : IsSequence(catalog[i].tables)
        /\ \A i \in 1..Len(catalog) : \A j \in 1..Len(catalog[i].tables) : IsSequence(List(i, j))
    BY EntryLists
  <1>3. ASSUME NEW i \in 1..Len(catalog), NEW j \in 1..Len(catalog[i].tables)
        PROVE  /\ IsSequence(P[i][j])
               /\ \A st \in Elements(P[i][j]) : "CreateIndexes" \in job.opts /\ \E x \in Elements(List(i, j)) : st = Statement("index", catalog[i].name, catalog[i].tables[j].name, x)
               /\ "CreateIndexes" \in job.opts => \A x \in Elements(List(i, j)) : Statement("index", catalog[i].name, catalog[i].tables[j].name, x) \in Elements(P[i][j])
    <2> DEFINE list == List(i, j)
               f == F(i, j)
               n == Len(list)
               option == "CreateIndexes"
    <2>1. P[i][j] = Optional(option, f, n)
      BY DEF Optional
    <2>2. \A k \in 1..n : f[k] = Statement("index", catalog[i].name, catalog[i].tables[j].name, list[k])
      OBVIOUS
    <2>3. IsSequence(list) /\ n \in Nat
      BY <1>2, SequenceFacts
    <2> HIDE DEF list, f, P, n, option
    <2>4. /\ IsSequence(P[i][j])
          /\ \A st \in Elements(P[i][j]) : option \in job.opts /\ \E k \in 1..n : st = f[k]
          /\ option \in job.opts => \A k \in 1..n : f[k] \in Elements(P[i][j])
      BY <2>1, <2>3, OptionElements
    <2>5. (\A k \in 1..n : list[k] \in Elements(list)) /\ \A x \in Elements(list) : \E k \in 1..n : list[k] = x
      BY DEF Elements, n
    <2>6. ASSUME NEW st \in Elements(P[i][j])
          PROVE  option \in job.opts /\ \E x \in Elements(list) : st = Statement("index", catalog[i].name, catalog[i].tables[j].name, x)
      <3>1. option \in job.opts /\ \E k \in 1..n : st = f[k]
        BY <2>4
      <3>2. PICK k \in 1..n : st = f[k]
        BY <3>1
      <3>3. st = Statement("index", catalog[i].name, catalog[i].tables[j].name, list[k]) /\ list[k] \in Elements(list)
        BY <2>2, <2>5, <3>2
      <3>4. QED
        BY <3>1, <3>3
    <2>7. ASSUME option \in job.opts, NEW x \in Elements(list) PROVE Statement("index", catalog[i].name, catalog[i].tables[j].name, x) \in Elements(P[i][j])
      <3>1. PICK k \in 1..n : list[k] = x
        BY <2>5
      <3>2. f[k] = Statement("index", catalog[i].name, catalog[i].tables[j].name, x)
        BY <2>2, <3>1
      <3>3. QED
        BY <2>4, <2>7, <3>2
    <2>8. QED
      BY <2>4, <2>6, <2>7 DEF list, option
  <1> DEFINE G == IndexStatements(catalog)
  <1> HIDE DEF P, G
  <1>4. \A i \in 1..Len(catalog) : \A j \in 1..Len(catalog[i].tables) : IsSequence(P[i][j])
    BY <1>3
  <1>5. G = FlattenSeq([i \in 1..Len(catalog) |-> FlattenSeq([j \in 1..Len(catalog[i].tables) |-> P[i][j]])])
    BY <1>1 DEF G
  <1>6. /\ IsSequence(G)
        /\ \A x : x \in Elements(G) <=>
              \E i \in 1..Len(catalog) : \E j \in 1..Len(catalog[i].tables) : x \in Elements(P[i][j])
    BY <1>2, <1>4, <1>5, NestElements
  <1> HIDE DEF List
  <1>7. ASSUME NEW st, st \in Elements(G)
        PROVE  /\ "CreateIndexes" \in job.opts
               /\ \E i \in 1..Len(catalog) : \E j \in 1..Len(catalog[i].tables) :
                     \E x \in Elements(List(i, j)) : st = Statement("index", catalog[i].name, catalog[i].tables[j].name, x)
    <2>1. PICK i \in 1..Len(catalog) : \E j \in 1..Len(catalog[i].tables) : st \in Elements(P[i][j])
      BY <1>6, <1>7
    <2>2. PICK j \in 1..Len(catalog[i].tables) : st \in Elements(P[i][j])
      BY <2>1
    <2>3. "CreateIndexes" \in job.opts /\ \E x \in Elements(List(i, j)) : st = Statement("index", catalog[i].name, catalog[i].tables[j].name, x)
      BY <1>3, <2>2
    <2>4. QED
      BY <2>3
  <1>8. ASSUME "CreateIndexes" \in job.opts, NEW i \in 1..Len(catalog), NEW j \in 1..Len(catalog[i].tables),
               NEW x \in Elements(List(i, j))
        PROVE  Statement("index", catalog[i].name, catalog[i].tables[j].name, x) \in Elements(G)
    <2>1. Statement("index", catalog[i].name, catalog[i].tables[j].name, x) \in Elements(P[i][j])
      BY <1>3, <1>8
    <2>2. QED
      BY <1>6, <2>1
  <1>9. ASSUME NEW st
        PROVE  st \in Elements(G) <=>
                  /\ "CreateIndexes" \in job.opts
                  /\ \E i \in 1..Len(catalog) : \E j \in 1..Len(catalog[i].tables) :
                        \E x \in Elements(List(i, j)) : st = Statement("index", catalog[i].name, catalog[i].tables[j].name, x)
    BY <1>7, <1>8
  <1>10. QED
    BY <1>6, <1>9 DEF G, List

\* One statement for every foreign key, if foreign keys are created.
LEMMA ForeignKeyElements ==
    ASSUME job \in Jobs, CatalogOfFirst(catalog, Len(Wanted), "read")
    PROVE  /\ IsSequence(ForeignKeyStatements(catalog))
           /\ \A st : st \in Elements(ForeignKeyStatements(catalog)) <=>
                 /\ "ForeignKeys" \in job.opts
                 /\ \E i \in 1..Len(catalog) : \E j \in 1..Len(catalog[i].tables) :
                       \E x \in Elements(catalog[i].tables[j].fkeys) : st = Statement("fkey", x.schema, x.on, x)
  <1> DEFINE List(i, j) == catalog[i].tables[j].fkeys
             F(i, j) == [k \in 1..Len(List(i, j)) |-> Statement("fkey", List(i, j)[k].schema, List(i, j)[k].on, List(i, j)[k])]
             Q(i, j) == FlattenSeq([k \in 1..Len(List(i, j)) |-> When("ForeignKeys", <<F(i, j)[k]>>)])
             P == [i \in 1..Len(catalog) |-> [j \in 1..Len(catalog[i].tables) |-> Q(i, j)]]
  <1>1. ForeignKeyStatements(catalog) = FlattenSeq([i \in 1..Len(catalog) |-> FlattenSeq([j \in 1..Len(catalog[i].tables) |-> P[i][j]])])
    BY DEF ForeignKeyStatements, Over
  <1>2. /\ IsSequence(catalog) /\ \A i \in 1..Len(catalog) : IsSequence(catalog[i].tables)
        /\ \A i \in 1..Len(catalog) : \A j \in 1..Len(catalog[i].tables) : IsSequence(List(i, j))
    BY EntryLists
  <1>3. ASSUME NEW i \in 1..Len(catalog), NEW j \in 1..Len(catalog[i].tables)
        PROVE  /\ IsSequence(P[i][j])
               /\ \A st \in Elements(P[i][j]) : "ForeignKeys" \in job.opts /\ \E x \in Elements(List(i, j)) : st = Statement("fkey", x.schema, x.on, x)
               /\ "ForeignKeys" \in job.opts => \A x \in Elements(List(i, j)) : Statement("fkey", x.schema, x.on, x) \in Elements(P[i][j])
    <2> DEFINE list == List(i, j)
               f == F(i, j)
               n == Len(list)
               option == "ForeignKeys"
    <2>1. P[i][j] = Optional(option, f, n)
      BY DEF Optional
    <2>2. \A k \in 1..n : f[k] = Statement("fkey", list[k].schema, list[k].on, list[k])
      OBVIOUS
    <2>3. IsSequence(list) /\ n \in Nat
      BY <1>2, SequenceFacts
    <2> HIDE DEF list, f, P, n, option
    <2>4. /\ IsSequence(P[i][j])
          /\ \A st \in Elements(P[i][j]) : option \in job.opts /\ \E k \in 1..n : st = f[k]
          /\ option \in job.opts => \A k \in 1..n : f[k] \in Elements(P[i][j])
      BY <2>1, <2>3, OptionElements
    <2>5. (\A k \in 1..n : list[k] \in Elements(list)) /\ \A x \in Elements(list) : \E k \in 1..n : list[k] = x
      BY DEF Elements, n
    <2>6. ASSUME NEW st \in Elements(P[i][j])
          PROVE  option \in job.opts /\ \E x \in Elements(list) : st = Statement("fkey", x.schema, x.on, x)
      <3>1. option \in job.opts /\ \E k \in 1..n : st = f[k]
        BY <2>4
      <3>2. PICK k \in 1..n : st = f[k]
        BY <3>1
      <3>3. st = Statement("fkey", list[k].schema, list[k].on, list[k]) /\ list[k] \in Elements(list)
        BY <2>2, <2>5, <3>2
      <3>4. QED
        BY <3>1, <3>3
    <2>7. ASSUME option \in job.opts, NEW x \in Elements(list) PROVE Statement("fkey", x.schema, x.on, x) \in Elements(P[i][j])
      <3>1. PICK k \in 1..n : list[k] = x
        BY <2>5
      <3>2. f[k] = Statement("fkey", x.schema, x.on, x)
        BY <2>2, <3>1
      <3>3. QED
        BY <2>4, <2>7, <3>2
    <2>8. QED
      BY <2>4, <2>6, <2>7 DEF list, option
  <1> DEFINE G == ForeignKeyStatements(catalog)
  <1> HIDE DEF P, G
  <1>4. \A i \in 1..Len(catalog) : \A j \in 1..Len(catalog[i].tables) : IsSequence(P[i][j])
    BY <1>3
  <1>5. G = FlattenSeq([i \in 1..Len(catalog) |-> FlattenSeq([j \in 1..Len(catalog[i].tables) |-> P[i][j]])])
    BY <1>1 DEF G
  <1>6. /\ IsSequence(G)
        /\ \A x : x \in Elements(G) <=>
              \E i \in 1..Len(catalog) : \E j \in 1..Len(catalog[i].tables) : x \in Elements(P[i][j])
    BY <1>2, <1>4, <1>5, NestElements
  <1> HIDE DEF List
  <1>7. ASSUME NEW st, st \in Elements(G)
        PROVE  /\ "ForeignKeys" \in job.opts
               /\ \E i \in 1..Len(catalog) : \E j \in 1..Len(catalog[i].tables) :
                     \E x \in Elements(List(i, j)) : st = Statement("fkey", x.schema, x.on, x)
    <2>1. PICK i \in 1..Len(catalog) : \E j \in 1..Len(catalog[i].tables) : st \in Elements(P[i][j])
      BY <1>6, <1>7
    <2>2. PICK j \in 1..Len(catalog[i].tables) : st \in Elements(P[i][j])
      BY <2>1
    <2>3. "ForeignKeys" \in job.opts /\ \E x \in Elements(List(i, j)) : st = Statement("fkey", x.schema, x.on, x)
      BY <1>3, <2>2
    <2>4. QED
      BY <2>3
  <1>8. ASSUME "ForeignKeys" \in job.opts, NEW i \in 1..Len(catalog), NEW j \in 1..Len(catalog[i].tables),
               NEW x \in Elements(List(i, j))
        PROVE  Statement("fkey", x.schema, x.on, x) \in Elements(G)
    <2>1. Statement("fkey", x.schema, x.on, x) \in Elements(P[i][j])
      BY <1>3, <1>8
    <2>2. QED
      BY <1>6, <2>1
  <1>9. ASSUME NEW st
        PROVE  st \in Elements(G) <=>
                  /\ "ForeignKeys" \in job.opts
                  /\ \E i \in 1..Len(catalog) : \E j \in 1..Len(catalog[i].tables) :
                        \E x \in Elements(List(i, j)) : st = Statement("fkey", x.schema, x.on, x)
    BY <1>7, <1>8
  <1>10. QED
    BY <1>6, <1>9 DEF G, List

\* One statement for every trigger, if triggers are created.
LEMMA TriggerElements ==
    ASSUME job \in Jobs, CatalogOfFirst(catalog, Len(Wanted), "read")
    PROVE  /\ IsSequence(TriggerStatements(catalog))
           /\ \A st : st \in Elements(TriggerStatements(catalog)) <=>
                 /\ "CreateTriggers" \in job.opts
                 /\ \E i \in 1..Len(catalog) : \E j \in 1..Len(catalog[i].tables) :
                       \E x \in Elements(catalog[i].tables[j].triggers) : st = Statement("trigger", catalog[i].name, catalog[i].tables[j].name, x)
  <1> DEFINE List(i, j) == catalog[i].tables[j].triggers
             F(i, j) == [k \in 1..Len(List(i, j)) |-> Statement("trigger", catalog[i].name, catalog[i].tables[j].name, List(i, j)[k])]
             Q(i, j) == FlattenSeq([k \in 1..Len(List(i, j)) |-> When("CreateTriggers", <<F(i, j)[k]>>)])
             P == [i \in 1..Len(catalog) |-> [j \in 1..Len(catalog[i].tables) |-> Q(i, j)]]
  <1>1. TriggerStatements(catalog) = FlattenSeq([i \in 1..Len(catalog) |-> FlattenSeq([j \in 1..Len(catalog[i].tables) |-> P[i][j]])])
    BY DEF TriggerStatements, Over
  <1>2. /\ IsSequence(catalog) /\ \A i \in 1..Len(catalog) : IsSequence(catalog[i].tables)
        /\ \A i \in 1..Len(catalog) : \A j \in 1..Len(catalog[i].tables) : IsSequence(List(i, j))
    BY EntryLists
  <1>3. ASSUME NEW i \in 1..Len(catalog), NEW j \in 1..Len(catalog[i].tables)
        PROVE  /\ IsSequence(P[i][j])
               /\ \A st \in Elements(P[i][j]) : "CreateTriggers" \in job.opts /\ \E x \in Elements(List(i, j)) : st = Statement("trigger", catalog[i].name, catalog[i].tables[j].name, x)
               /\ "CreateTriggers" \in job.opts => \A x \in Elements(List(i, j)) : Statement("trigger", catalog[i].name, catalog[i].tables[j].name, x) \in Elements(P[i][j])
    <2> DEFINE list == List(i, j)
               f == F(i, j)
               n == Len(list)
               option == "CreateTriggers"
    <2>1. P[i][j] = Optional(option, f, n)
      BY DEF Optional
    <2>2. \A k \in 1..n : f[k] = Statement("trigger", catalog[i].name, catalog[i].tables[j].name, list[k])
      OBVIOUS
    <2>3. IsSequence(list) /\ n \in Nat
      BY <1>2, SequenceFacts
    <2> HIDE DEF list, f, P, n, option
    <2>4. /\ IsSequence(P[i][j])
          /\ \A st \in Elements(P[i][j]) : option \in job.opts /\ \E k \in 1..n : st = f[k]
          /\ option \in job.opts => \A k \in 1..n : f[k] \in Elements(P[i][j])
      BY <2>1, <2>3, OptionElements
    <2>5. (\A k \in 1..n : list[k] \in Elements(list)) /\ \A x \in Elements(list) : \E k \in 1..n : list[k] = x
      BY DEF Elements, n
    <2>6. ASSUME NEW st \in Elements(P[i][j])
          PROVE  option \in job.opts /\ \E x \in Elements(list) : st = Statement("trigger", catalog[i].name, catalog[i].tables[j].name, x)
      <3>1. option \in job.opts /\ \E k \in 1..n : st = f[k]
        BY <2>4
      <3>2. PICK k \in 1..n : st = f[k]
        BY <3>1
      <3>3. st = Statement("trigger", catalog[i].name, catalog[i].tables[j].name, list[k]) /\ list[k] \in Elements(list)
        BY <2>2, <2>5, <3>2
      <3>4. QED
        BY <3>1, <3>3
    <2>7. ASSUME option \in job.opts, NEW x \in Elements(list) PROVE Statement("trigger", catalog[i].name, catalog[i].tables[j].name, x) \in Elements(P[i][j])
      <3>1. PICK k \in 1..n : list[k] = x
        BY <2>5
      <3>2. f[k] = Statement("trigger", catalog[i].name, catalog[i].tables[j].name, x)
        BY <2>2, <3>1
      <3>3. QED
        BY <2>4, <2>7, <3>2
    <2>8. QED
      BY <2>4, <2>6, <2>7 DEF list, option
  <1> DEFINE G == TriggerStatements(catalog)
  <1> HIDE DEF P, G
  <1>4. \A i \in 1..Len(catalog) : \A j \in 1..Len(catalog[i].tables) : IsSequence(P[i][j])
    BY <1>3
  <1>5. G = FlattenSeq([i \in 1..Len(catalog) |-> FlattenSeq([j \in 1..Len(catalog[i].tables) |-> P[i][j]])])
    BY <1>1 DEF G
  <1>6. /\ IsSequence(G)
        /\ \A x : x \in Elements(G) <=>
              \E i \in 1..Len(catalog) : \E j \in 1..Len(catalog[i].tables) : x \in Elements(P[i][j])
    BY <1>2, <1>4, <1>5, NestElements
  <1> HIDE DEF List
  <1>7. ASSUME NEW st, st \in Elements(G)
        PROVE  /\ "CreateTriggers" \in job.opts
               /\ \E i \in 1..Len(catalog) : \E j \in 1..Len(catalog[i].tables) :
                     \E x \in Elements(List(i, j)) : st = Statement("trigger", catalog[i].name, catalog[i].tables[j].name, x)
    <2>1. PICK i \in 1..Len(catalog) : \E j \in 1..Len(catalog[i].tables) : st \in Elements(P[i][j])
      BY <1>6, <1>7
    <2>2. PICK j \in 1..Len(catalog[i].tables) : st \in Elements(P[i][j])
      BY <2>1
    <2>3. "CreateTriggers" \in job.opts /\ \E x \in Elements(List(i, j)) : st = Statement("trigger", catalog[i].name, catalog[i].tables[j].name, x)
      BY <1>3, <2>2
    <2>4. QED
      BY <2>3
  <1>8. ASSUME "CreateTriggers" \in job.opts, NEW i \in 1..Len(catalog), NEW j \in 1..Len(catalog[i].tables),
               NEW x \in Elements(List(i, j))
        PROVE  Statement("trigger", catalog[i].name, catalog[i].tables[j].name, x) \in Elements(G)
    <2>1. Statement("trigger", catalog[i].name, catalog[i].tables[j].name, x) \in Elements(P[i][j])
      BY <1>3, <1>8
    <2>2. QED
      BY <1>6, <2>1
  <1>9. ASSUME NEW st
        PROVE  st \in Elements(G) <=>
                  /\ "CreateTriggers" \in job.opts
                  /\ \E i \in 1..Len(catalog) : \E j \in 1..Len(catalog[i].tables) :
                        \E x \in Elements(List(i, j)) : st = Statement("trigger", catalog[i].name, catalog[i].tables[j].name, x)
    BY <1>7, <1>8
  <1>10. QED
    BY <1>6, <1>9 DEF G, List

\* CompleteTarget's statements are those three kinds.
LEMMA CompleteElements ==
    ASSUME job \in Jobs, CatalogOfFirst(catalog, Len(Wanted), "read")
    PROVE  /\ IsSequence(CompleteScript)
           /\ Elements(CompleteScript) = Elements(IndexStatements(catalog)) \cup Elements(ForeignKeyStatements(catalog))
                                            \cup Elements(TriggerStatements(catalog))
           /\ \A st \in Elements(CompleteScript) : st.op \in {"index", "fkey", "trigger"}
  <1> DEFINE a == IndexStatements(catalog)
             b == ForeignKeyStatements(catalog)
             c == TriggerStatements(catalog)
  <1>1. IsSequence(a) /\ \A st \in Elements(a) : st.op = "index"
    BY IndexElements DEF Statement
  <1>2. IsSequence(b) /\ \A st \in Elements(b) : st.op = "fkey"
    BY ForeignKeyElements DEF Statement
  <1>3. IsSequence(c) /\ \A st \in Elements(c) : st.op = "trigger"
    BY TriggerElements DEF Statement
  <1>4. CompleteScript = (a \o b) \o c \/ CompleteScript = a \o (b \o c)
    BY DEF CompleteScript
  <1> HIDE DEF a, b, c
  <1>5. IsSequence(a \o b) /\ Elements(a \o b) = Elements(a) \cup Elements(b)
    BY <1>1, <1>2, ConcatElements
  <1>6. IsSequence((a \o b) \o c) /\ Elements((a \o b) \o c) = Elements(a) \cup Elements(b) \cup Elements(c)
    BY <1>3, <1>5, ConcatElements
  <1>7. IsSequence(b \o c) /\ Elements(b \o c) = Elements(b) \cup Elements(c)
    BY <1>2, <1>3, ConcatElements
  <1>8. IsSequence(a \o (b \o c)) /\ Elements(a \o (b \o c)) = Elements(a) \cup Elements(b) \cup Elements(c)
    BY <1>1, <1>7, ConcatElements
  <1>9. QED
    BY <1>1, <1>2, <1>3, <1>4, <1>6, <1>8 DEF a, b, c

\* Statement b takes away what statement a has made.
Undoes(b, a) ==
    \/ a.op = "create" /\ (b.op = "dropType" \/ (b.op = "drop" /\ b.schema = a.schema /\ b.name = a.name))
    \/ a.op = "partition" /\ b.op = "drop" /\
          ((b.schema = a.schema /\ b.name = a.name) \/ (b.schema = "public" /\ b.name = a.arg))

\* No statement of a script undoes an earlier one.
InOrder(s) ==
    /\ IsSequence(s)
    /\ \A p, q \in 1..Len(s) : p < q => ~Undoes(s[q], s[p])

\* Two scripts in order, the second undoing nothing of the first.
LEMMA ConcatInOrder ==
    ASSUME NEW s, NEW u, InOrder(s), InOrder(u),
           \A a \in Elements(s) : \A b \in Elements(u) : ~Undoes(b, a)
    PROVE  InOrder(s \o u)
  <1> DEFINE w == s \o u
             m == Len(s)
             n == Len(u)
  <1>1. IsSequence(s) /\ IsSequence(u) /\ m \in Nat /\ n \in Nat
    BY SequenceFacts DEF InOrder
  <1>2. /\ IsSequence(w) /\ Len(w) = m + n
        /\ \A j \in 1..m : w[j] = s[j]
        /\ \A j \in 1..n : w[m + j] = u[j]
    BY <1>1, ConcatHolds
  <1>3. (\A j \in 1..m : s[j] \in Elements(s)) /\ (\A j \in 1..n : u[j] \in Elements(u))
    BY <1>1, SequenceFacts
  <1> HIDE DEF w, m, n
  <1>4. \A p \in 1..(m + n) : p \in 1..m \/ \E j \in 1..n : p = m + j
    <2>1. \A p \in 1..(m + n) : p \in 1..m \/ (p - m \in 1..n /\ p = m + (p - m))
      BY <1>1
    <2>2. QED
      BY <2>1
  <1>5. ASSUME NEW p \in 1..(m + n), NEW q \in 1..(m + n), p < q PROVE ~Undoes(w[q], w[p])
    <2>1. CASE p \in 1..m /\ q \in 1..m
      BY <1>2, <1>5, <2>1 DEF InOrder, m
    <2>2. CASE p \in 1..m /\ q \notin 1..m
      <3>1. PICK j \in 1..n : q = m + j
        BY <1>4, <2>2
      <3>2. w[q] = u[j] /\ w[p] = s[p]
        BY <1>2, <2>2, <3>1
      <3>3. QED
        BY <1>3, <2>2, <3>2
    <2>3. CASE p \notin 1..m
      <3>1. PICK i \in 1..n : p = m + i
        BY <1>4, <2>3
      <3>2. q \notin 1..m
        BY <1>1, <1>5, <3>1
      <3>3. PICK j \in 1..n : q = m + j
        BY <1>4, <3>2
      <3>4. w[p] = u[i] /\ w[q] = u[j]
        BY <1>2, <3>1, <3>3
      <3>5. i < j
        BY <1>1, <1>5, <3>1, <3>3
      <3>6. QED
        BY <3>4, <3>5 DEF InOrder, n
    <2>4. QED
      BY <2>1, <2>2, <2>3
  <1>6. QED
    BY <1>2, <1>5 DEF InOrder, w

\* Scripts in order, none undoing anything of one before it.
LEMMA JoinInOrder ==
    ASSUME NEW n \in Nat, NEW seqs, DOMAIN seqs = 1..n, seqs = [i \in 1..n |-> seqs[i]],
           \A i \in 1..n : InOrder(seqs[i]),
           \A i, j \in 1..n : i < j => \A a \in Elements(seqs[i]) : \A b \in Elements(seqs[j]) : ~Undoes(b, a)
    PROVE  InOrder(FlattenSeq(seqs))
  <1> DEFINE flat == FlattenSeq(seqs)
             S == UNION {Elements(seqs[k]) : k \in 1..n}
  <1>1. \A i \in 1..n : IsSequence(seqs[i]) /\ Len(seqs[i]) \in Nat
    BY SequenceFacts DEF InOrder
  <1>2. IsSequence(flat)
    BY <1>1, JoinElements
  <1>3. ASSUME NEW k \in 1..n PROVE seqs[k] \in Seq(S)
    <2>1. seqs[k] \in [1..Len(seqs[k]) -> Elements(seqs[k])] /\ Len(seqs[k]) \in Nat
      BY <1>1, SequenceFacts
    <2>2. Elements(seqs[k]) \subseteq S
      OBVIOUS
    <2>3. QED
      BY <2>1, <2>2
  <1> HIDE DEF S
  <1>4. seqs \in [1..n -> Seq(S)]
    BY <1>3
  <1>5. seqs \in Seq(Seq(S)) /\ Len(seqs) = n
    BY <1>4
  <1>6. \E end : Places(flat, seqs, end)
    BY <1>5, FlattenPlaces
  <1> HIDE DEF flat
  <1>7. PICK end : Places(flat, seqs, end)
    BY <1>6
  <1>8. /\ end \in [0..n -> Nat]
        /\ \A k \in 1..n : end[k] = end[k - 1] + Len(seqs[k])
        /\ \A k \in 1..n : \A q \in 1..Len(seqs[k]) : flat[end[k - 1] + q] = seqs[k][q]
        /\ \A p \in 1..Len(flat) : \E k \in 1..n : p \in (end[k - 1] + 1)..end[k]
    BY <1>5, <1>7, Zenon DEF Places
  <1>9. ASSUME NEW k \in 1..n
        PROVE  end[k - 1] \in Nat /\ end[k] \in Nat /\ end[k - 1] <= end[k]
    <2>1. k \in 0..n /\ k - 1 \in 0..n
      OBVIOUS
    <2>2. end[k - 1] \in Nat /\ end[k] \in Nat /\ Len(seqs[k]) \in Nat /\ end[k] = end[k - 1] + Len(seqs[k])
      BY <1>1, <1>8, <2>1
    <2> DEFINE a == end[k - 1]
               b == end[k]
               l == Len(seqs[k])
    <2> HIDE DEF a, b, l
    <2>3. a \in Nat /\ b \in Nat /\ l \in Nat /\ b = a + l
      BY <2>2 DEF a, b, l
    <2>4. a <= b
      BY <2>3
    <2>5. QED
      BY <2>3, <2>4 DEF a, b
  <1>10. ASSUME NEW k \in 1..n, NEW p \in (end[k - 1] + 1)..end[k]
         PROVE  p - end[k - 1] \in 1..Len(seqs[k]) /\ flat[p] = seqs[k][p - end[k - 1]]
                /\ p \in Nat
    <2> DEFINE a == end[k - 1]
               b == end[k]
               l == Len(seqs[k])
               q == p - a
    <2>1. a \in Nat /\ b \in Nat /\ l \in Nat /\ b = a + l /\ p \in (a + 1)..b
      BY <1>1, <1>8, <1>9
    <2>2. \A r \in 1..l : flat[a + r] = seqs[k][r]
      BY <1>8
    <2> HIDE DEF a, b, l
    <2>3. q \in 1..l /\ a + q = p /\ p \in Nat
      BY <2>1
    <2> HIDE DEF q
    <2>4. flat[p] = seqs[k][q]
      BY <2>2, <2>3
    <2>5. QED
      BY <2>3, <2>4 DEF q, a, l
  \* A later piece starts no earlier than an earlier one ends.
  <1>11. ASSUME NEW i \in 1..n, NEW j \in 1..n, i < j PROVE end[i] <= end[j - 1]
    <2> DEFINE Bad == {m \in 0..n : i <= m /\ m < j /\ ~(end[i] <= end[m])}
    <2>1. SUFFICES ASSUME Bad # {} PROVE FALSE
      <3>1. j - 1 \in 0..n /\ i <= j - 1 /\ j - 1 < j
        BY <1>11
      <3>2. QED
        BY <3>1
    <2>2. PICK m \in Bad : \A r \in 0..(m - 1) : r \notin Bad
      BY <2>1, FirstFailure
    <2>3. m \in 0..n /\ i <= m /\ m < j /\ ~(end[i] <= end[m])
      OBVIOUS
    <2>4. m # i
      <3>1. i \in 0..n
        OBVIOUS
      <3>2. end[i] \in Nat
        BY <1>8, <3>1
      <3>3. QED
        BY <2>3, <3>2
    <2>5. m - 1 \in 0..(m - 1) /\ m - 1 \in 0..n /\ i <= m - 1 /\ m - 1 < j /\ m \in 1..n
      BY <2>3, <2>4
    <2>6. end[i] <= end[m - 1]
      BY <2>2, <2>5
    <2>7. end[m - 1] <= end[m] /\ end[m - 1] \in Nat /\ end[m] \in Nat /\ end[i] \in Nat
      BY <1>9, <2>5
    <2>8. QED
      <3> DEFINE a == end[i]
                 b == end[m - 1]
                 c == end[m]
      <3> HIDE DEF a, b, c
      <3>1. a <= b /\ b <= c /\ ~(a <= c) /\ a \in Nat /\ b \in Nat /\ c \in Nat
        BY <2>3, <2>6, <2>7 DEF a, b, c
      <3>2. QED
        BY <3>1
  <1>12. ASSUME NEW p \in 1..Len(flat), NEW q \in 1..Len(flat), p < q PROVE ~Undoes(flat[q], flat[p])
    <2>1. PICK i \in 1..n : p \in (end[i - 1] + 1)..end[i]
      BY <1>8
    <2>2. PICK j \in 1..n : q \in (end[j - 1] + 1)..end[j]
      BY <1>8
    <2> DEFINE a == end[i - 1]
               b == end[i]
               c == end[j - 1]
               d == end[j]
    <2>3. a \in Nat /\ b \in Nat /\ c \in Nat /\ d \in Nat /\ p \in (a + 1)..b /\ q \in (c + 1)..d
      BY <1>9, <2>1, <2>2
    <2>4. /\ p - a \in 1..Len(seqs[i]) /\ flat[p] = seqs[i][p - a]
          /\ q - c \in 1..Len(seqs[j]) /\ flat[q] = seqs[j][q - c]
      BY <1>10, <2>1, <2>2
    <2>5. j < i => d <= a
      BY <1>11
    <2> HIDE DEF a, b, c, d
    <2>6. ~(j < i)
      BY <1>12, <2>3, <2>5
    <2>7. CASE i = j
      <3>1. a = c
        BY <2>7 DEF a, c
      <3>2. p - a < q - c
        BY <1>12, <2>3, <3>1
      <3>3. QED
        BY <2>4, <2>7, <3>2 DEF InOrder
    <2>8. CASE i < j
      <3>1. flat[p] \in Elements(seqs[i]) /\ flat[q] \in Elements(seqs[j])
        BY <2>4 DEF Elements
      <3>2. QED
        BY <2>8, <3>1
    <2>9. QED
      <3>1. i < j \/ i = j \/ j < i
        OBVIOUS
      <3>2. QED
        BY <2>6, <2>7, <2>8, <3>1
  <1>13. QED
    BY <1>2, <1>12 DEF InOrder, flat

\* Statements that neither make nor take a table, and drop types of the source.
Other(s) ==
    /\ IsSequence(s)
    /\ \A st \in Elements(s) :
          /\ st.op \in {"schema", "dropType", "type", "function", "sequence"}
          /\ st.op = "dropType" => st.name \in TypeNames

\* No statement is of the other kinds.
LEMMA OtherNone == Other(<<>>)
  BY EmptySequence DEF Other

\* A statement that builds no table and drops none.
LEMMA OtherOne ==
    ASSUME NEW op \in {"schema", "dropType", "type", "function", "sequence"}, NEW n, NEW name, NEW arg,
           op = "dropType" => name \in TypeNames
    PROVE  Other(<<Statement(op, n, name, arg)>>)
  <1> DEFINE st == Statement(op, n, name, arg)
  <1>1. st.op = op /\ st.name = name
    BY DEF Statement
  <1> HIDE DEF st
  <1>2. IsSequence(<<st>>) /\ Elements(<<st>>) = {st}
    BY SingleElements
  <1>3. QED
    BY <1>1, <1>2 DEF Other, st

\* The same under an option.
LEMMA OtherWhen ==
    ASSUME NEW option, NEW s, Other(s)
    PROVE  Other(When(option, s))
  BY OtherNone DEF When

\* The same of two scripts in a row.
LEMMA OtherConcat ==
    ASSUME NEW s, NEW u, Other(s), Other(u)
    PROVE  Other(s \o u)
  <1>1. IsSequence(s \o u) /\ Elements(s \o u) = Elements(s) \cup Elements(u)
    BY ConcatElements DEF Other
  <1>2. QED
    BY <1>1 DEF Other

\* The same of many.
LEMMA OtherJoin ==
    ASSUME NEW n \in Nat, NEW seqs, DOMAIN seqs = 1..n, seqs = [i \in 1..n |-> seqs[i]],
           \A i \in 1..n : Other(seqs[i])
    PROVE  Other(FlattenSeq(seqs))
  <1>1. IsSequence(FlattenSeq(seqs)) /\ Elements(FlattenSeq(seqs)) = UNION {Elements(seqs[i]) : i \in 1..n}
    BY JoinElements DEF Other
  <1>2. QED
    BY <1>1 DEF Other

\* What builds no table cannot be undone.
LEMMA OtherInOrder ==
    ASSUME NEW s, Other(s)
    PROVE  InOrder(s) /\ \A a \in Elements(s) : \A b : ~Undoes(b, a)
  <1>1. \A a \in Elements(s) : \A b : ~Undoes(b, a)
    BY DEF Other, Undoes
  <1>2. IsSequence(s) /\ \A p \in 1..Len(s) : s[p] \in Elements(s)
    BY SequenceFacts DEF Other
  <1>3. QED
    BY <1>1, <1>2 DEF InOrder

\* The types of the source, in the order of their creation, are a sequence.
LEMMA TypesSequence ==
    ASSUME job \in Jobs
    PROVE  IsSequence(Types) /\ \A i \in 1..Len(Types) : Types[i].name \in TypeNames
  <1> DEFINE kinds == <<"enum", "domain", "composite">>
             Of(kind) == {i \in 1..Len(job.types) : job.types[i].kind = kind}
             seqs == [i \in 1..3 |-> Picked(job.types, Of(kinds[i]))]
  <1>1. Types = FlattenSeq([i \in 1..Len(kinds) |->
                    FlattenSeq([k \in 1..Len(job.types) |-> IF job.types[k].kind = kinds[i] THEN <<job.types[k]>> ELSE <<>>])])
    BY DEF Types, Over, Filter
  <1>2. Len(kinds) = 3
    OBVIOUS
  <1> HIDE DEF kinds
  <1>3. ASSUME NEW kind
        PROVE  FlattenSeq([k \in 1..Len(job.types) |-> IF job.types[k].kind = kind THEN <<job.types[k]>> ELSE <<>>])
                  = Picked(job.types, Of(kind))
    <2>1. [k \in 1..Len(job.types) |-> IF job.types[k].kind = kind THEN <<job.types[k]>> ELSE <<>>]
            = [k \in 1..Len(job.types) |-> IF k \in Of(kind) THEN <<job.types[k]>> ELSE <<>>]
      OBVIOUS
    <2>2. QED
      BY <2>1 DEF Picked
  <1> HIDE DEF Of
  <1>4. [i \in 1..Len(kinds) |->
            FlattenSeq([k \in 1..Len(job.types) |-> IF job.types[k].kind = kinds[i] THEN <<job.types[k]>> ELSE <<>>])] = seqs
    BY <1>2, <1>3
  <1>5. ASSUME NEW i \in 1..3
        PROVE  IsSequence(seqs[i]) /\ Elements(seqs[i]) \subseteq Elements(job.types)
    <2>1. seqs[i] = Picked(job.types, Of(kinds[i]))
      OBVIOUS
    <2> HIDE DEF seqs
    <2>2. IsSequence(job.types)
      BY TableFacts
    <2>3. IsSequence(seqs[i]) /\ \A p \in 1..Len(seqs[i]) : \E k \in 1..Len(job.types) : seqs[i][p] = job.types[k]
      BY <2>1, <2>2, PickedFacts
    <2>4. QED
      BY <2>3 DEF Elements
  <1>6. DOMAIN seqs = 1..3 /\ seqs = [i \in 1..3 |-> seqs[i]] /\ 3 \in Nat
    OBVIOUS
  <1> HIDE DEF seqs
  <1>7. IsSequence(FlattenSeq(seqs)) /\ Elements(FlattenSeq(seqs)) = UNION {Elements(seqs[i]) : i \in 1..3}
    BY <1>5, <1>6, JoinElements
  <1> DEFINE flat == FlattenSeq(seqs)
  <1>8. Types = flat
    BY <1>1, <1>4
  <1> HIDE DEF flat
  <1>9. IsSequence(flat) /\ Elements(flat) \subseteq Elements(job.types)
    BY <1>5, <1>7 DEF flat
  <1>10. IsSequence(Types) /\ Elements(Types) \subseteq Elements(job.types)
    BY <1>8, <1>9
  <1>11. \A i \in 1..Len(Types) : Types[i] \in Elements(job.types)
    BY <1>10 DEF Elements
  <1>12. QED
    BY <1>10, <1>11 DEF TypeNames

\* CREATE SEQUENCE builds no table.
LEMMA SequencesOther ==
    ASSUME NEW tables, IsSequence(tables), \A j \in 1..Len(tables) : IsSequence(tables[j].cols)
    PROVE  Other(Sequences(tables))
  <1> DEFINE C(c) == IF c.owned /\ c.seq # "" THEN <<Statement("sequence", job.schema, c.seq, "")>> ELSE <<>>
             row(j) == [k \in 1..Len(tables[j].cols) |-> C(tables[j].cols[k])]
             seqs == [j \in 1..Len(tables) |-> FlattenSeq(row(j))]
  <1>1. Sequences(tables) = FlattenSeq(seqs)
    BY DEF Sequences, Over
  <1>2. ASSUME NEW c PROVE Other(C(c))
    BY OtherOne, OtherNone
  <1> HIDE DEF C
  <1>3. ASSUME NEW j \in 1..Len(tables) PROVE Other(seqs[j])
    <2> DEFINE r == row(j)
               n == Len(tables[j].cols)
    <2>1. n \in Nat
      BY SequenceFacts
    <2>2. DOMAIN r = 1..n /\ r = [k \in 1..n |-> r[k]] /\ \A k \in 1..n : r[k] = C(tables[j].cols[k])
      OBVIOUS
    <2>3. seqs[j] = FlattenSeq(r)
      OBVIOUS
    <2> HIDE DEF seqs, r, n
    <2>4. Other(FlattenSeq(r))
      BY <1>2, <2>1, <2>2, OtherJoin
    <2>5. QED
      BY <2>3, <2>4
  <1>4. DOMAIN seqs = 1..Len(tables) /\ seqs = [j \in 1..Len(tables) |-> seqs[j]] /\ Len(tables) \in Nat
    BY SequenceFacts
  <1> HIDE DEF seqs
  <1>5. QED
    BY <1>1, <1>3, <1>4, OtherJoin

\* Nor do the types and functions of a PostgreSQL source.
LEMMA PgSQLOther ==
    ASSUME job \in Jobs, CatalogOfFirst(catalog, Len(Wanted), "read")
    PROVE  Other(PreparePgSQL)
  <1> DEFINE drops == [i \in 1..Len(Types) |-> When("IncludeDrop", <<Statement("dropType", job.schema, Types[i].name, "")>>)]
             types == [i \in 1..Len(Types) |-> <<Statement("type", job.schema, Types[i].name, Types[i])>>]
             functions == [i \in 1..Len(job.functions) |->
                              <<Statement("function", job.schema, job.functions[i].name, job.functions[i])>>]
             seqs == [i \in 1..Len(catalog) |-> Sequences(catalog[i].tables)]
             a == FlattenSeq(drops)
             b == FlattenSeq(types)
             c == FlattenSeq(functions)
             d == FlattenSeq(seqs)
  <1>1. PreparePgSQL = a \o b \o c \o d
    BY DEF PreparePgSQL, Over
  <1>2. Len(Types) \in Nat /\ Len(job.functions) \in Nat /\ Len(catalog) \in Nat
    BY TypesSequence, TableFacts, EntryLists, SequenceFacts
  <1>3. Other(a)
    <2>1. \A i \in 1..Len(Types) : Other(drops[i])
      BY TypesSequence, OtherOne, OtherWhen
    <2>2. DOMAIN drops = 1..Len(Types) /\ drops = [i \in 1..Len(Types) |-> drops[i]]
      OBVIOUS
    <2> HIDE DEF drops
    <2>3. QED
      BY <1>2, <2>1, <2>2, OtherJoin
  <1>4. Other(b)
    <2>1. \A i \in 1..Len(Types) : Other(types[i])
      BY OtherOne
    <2>2. DOMAIN types = 1..Len(Types) /\ types = [i \in 1..Len(Types) |-> types[i]]
      OBVIOUS
    <2> HIDE DEF types
    <2>3. QED
      BY <1>2, <2>1, <2>2, OtherJoin
  <1>5. Other(c)
    <2>1. \A i \in 1..Len(job.functions) : Other(functions[i])
      BY OtherOne
    <2>2. DOMAIN functions = 1..Len(job.functions) /\ functions = [i \in 1..Len(job.functions) |-> functions[i]]
      OBVIOUS
    <2> HIDE DEF functions
    <2>3. QED
      BY <1>2, <2>1, <2>2, OtherJoin
  <1>6. Other(d)
    <2>1. ASSUME NEW i \in 1..Len(catalog) PROVE Other(seqs[i])
      <3>1. IsSequence(catalog[i].tables) /\ \A j \in 1..Len(catalog[i].tables) : IsSequence(catalog[i].tables[j].cols)
        BY EntryLists
      <3>2. Other(Sequences(catalog[i].tables))
        BY <3>1, SequencesOther
      <3>3. QED
        BY <3>2
    <2>2. DOMAIN seqs = 1..Len(catalog) /\ seqs = [i \in 1..Len(catalog) |-> seqs[i]]
      OBVIOUS
    <2> HIDE DEF seqs
    <2>3. QED
      BY <1>2, <2>1, <2>2, OtherJoin
  <1> HIDE DEF a, b, c, d
  <1>7. Other(a \o b \o c \o d)
    BY <1>3, <1>4, <1>5, <1>6, OtherConcat
  <1>8. QED
    BY <1>1, <1>7

\* A script without DROP is in order.
LEMMA NoDropInOrder ==
    ASSUME NEW s, IsSequence(s), \A st \in Elements(s) : st.op \notin {"drop", "dropType"}
    PROVE  InOrder(s)
  <1>1. \A p \in 1..Len(s) : s[p].op \notin {"drop", "dropType"}
    BY SequenceFacts
  <1>2. QED
    BY <1>1 DEF InOrder, Undoes

\* An option leaves a script in order.
LEMMA WhenInOrder ==
    ASSUME NEW option, NEW s, InOrder(s)
    PROVE  InOrder(When(option, s))
  <1>1. InOrder(<<>>)
    BY EmptySequence DEF InOrder
  <1>2. QED
    BY <1>1 DEF When

\* A statement that PrepareTable may make of the table t of the schema s.
OfTable(st, s, t) ==
    \/ st = Statement("drop", s, t.name, "") \/ st = Statement("truncate", s, t.name, "")
    \/ "CreateTables" \in job.opts /\
          (st = Statement("create", s, t.name, t)
           \/ \E i \in 1..Len(t.children) : st = Statement("partition", s, t.name, t.children[i]))

\* The statements of one table: its DROP comes first.
LEMMA PrepareTableFacts ==
    ASSUME NEW s, NEW t, IsSequence(t.children)
    PROVE  /\ InOrder(PrepareTable(s, t))
           /\ \A st \in Elements(PrepareTable(s, t)) : OfTable(st, s, t)
           /\ "CreateTables" \in job.opts =>
                 /\ Statement("create", s, t.name, t) \in Elements(PrepareTable(s, t))
                 /\ \A i \in 1..Len(t.children) :
                       Statement("partition", s, t.name, t.children[i]) \in Elements(PrepareTable(s, t))
  <1> DEFINE drop == Statement("drop", s, t.name, "")
             truncate == Statement("truncate", s, t.name, "")
             create == Statement("create", s, t.name, t)
             n == Len(t.children)
             f == [i \in 1..n |-> Statement("partition", s, t.name, t.children[i])]
             a == When("IncludeDrop", <<drop>>)
             b == When("CreateTables", <<create>> \o f)
             c == When("Truncate", <<truncate>>)
  <1>1. PrepareTable(s, t) = a \o b \o c
    BY DEF PrepareTable
  <1>2. n \in Nat
    BY SequenceFacts
  <1>3. IsSequence(f) /\ Elements(f) = {f[i] : i \in 1..n} /\ \A i \in 1..n : f[i] = Statement("partition", s, t.name, t.children[i])
    <2>1. DOMAIN f = 1..n /\ f = [i \in 1..n |-> f[i]]
      OBVIOUS
    <2>2. \A i \in 1..n : f[i] = Statement("partition", s, t.name, t.children[i])
      OBVIOUS
    <2> HIDE DEF f, n
    <2>3. IsSequence(f) /\ Elements(f) = {f[i] : i \in 1..n}
      BY <1>2, <2>1, MapElements
    <2>4. QED
      BY <2>2, <2>3
  <1>4. drop.op = "drop" /\ truncate.op = "truncate" /\ create.op = "create" /\ \A i \in 1..n : f[i].op = "partition"
    BY DEF Statement
  <1>5. IsSequence(<<drop>>) /\ Elements(<<drop>>) = {drop} /\ IsSequence(<<truncate>>) /\ Elements(<<truncate>>) = {truncate}
        /\ IsSequence(<<create>>) /\ Elements(<<create>>) = {create}
    BY SingleElements
  <1> DEFINE tables == <<create>> \o f
  <1>6. IsSequence(tables) /\ Elements(tables) = {create} \cup Elements(f)
    BY <1>3, <1>5, ConcatElements
  <1>7. /\ IsSequence(a) /\ Elements(a) = {x \in {drop} : "IncludeDrop" \in job.opts}
        /\ IsSequence(b) /\ Elements(b) = {x \in {create} \cup Elements(f) : "CreateTables" \in job.opts}
        /\ IsSequence(c) /\ Elements(c) = {x \in {truncate} : "Truncate" \in job.opts}
    BY <1>5, <1>6, WhenElements
  <1>8. InOrder(a)
    <2>1. IsSequence(a) /\ \A p, q \in 1..Len(a) : a[p] = drop /\ a[q] = drop
      BY <1>7, SequenceFacts
    <2>2. QED
      BY <1>4, <2>1 DEF InOrder, Undoes
  <1>9. InOrder(b)
    <2>1. \A st \in Elements(b) : st.op \notin {"drop", "dropType"}
      BY <1>3, <1>4, <1>7
    <2>2. QED
      BY <1>7, <2>1, NoDropInOrder
  <1>10. InOrder(c)
    <2>1. \A st \in Elements(c) : st.op \notin {"drop", "dropType"}
      BY <1>4, <1>7
    <2>2. QED
      BY <1>7, <2>1, NoDropInOrder
  <1>11. \A x \in Elements(a) : \A y : ~Undoes(y, x)
    BY <1>4, <1>7 DEF Undoes
  <1>12. \A x : \A y \in Elements(b) \cup Elements(c) : ~Undoes(y, x)
    <2>1. \A y \in Elements(b) \cup Elements(c) : y.op \in {"create", "partition", "truncate"}
      BY <1>3, <1>4, <1>7
    <2>2. QED
      BY <2>1 DEF Undoes
  <1> HIDE DEF a, b, c
  <1>13. InOrder(a \o b) /\ Elements(a \o b) = Elements(a) \cup Elements(b) /\ IsSequence(a \o b)
    BY <1>7, <1>8, <1>9, <1>11, ConcatInOrder, ConcatElements
  <1>14. InOrder((a \o b) \o c) /\ Elements((a \o b) \o c) = Elements(a) \cup Elements(b) \cup Elements(c)
    BY <1>7, <1>10, <1>12, <1>13, ConcatInOrder, ConcatElements
  <1> DEFINE all == PrepareTable(s, t)
  <1>15. InOrder(all) /\ Elements(all) = Elements(a) \cup Elements(b) \cup Elements(c)
    BY <1>1, <1>14
  <1> HIDE DEF all
  <1>16. \A st \in Elements(all) : OfTable(st, s, t)
    <2> TAKE st \in Elements(all)
    <2>1. CASE st \in Elements(a)
      BY <1>7, <2>1 DEF OfTable
    <2>2. CASE st \in Elements(c)
      BY <1>7, <2>2 DEF OfTable
    <2>3. CASE st \in Elements(b)
      <3>1. "CreateTables" \in job.opts /\ (st = create \/ st \in Elements(f))
        BY <1>7, <2>3
      <3>2. st \in Elements(f) => \E i \in 1..n : st = f[i]
        BY <1>3
      <3> HIDE DEF f
      <3>3. st \in Elements(f) => \E i \in 1..n : st = Statement("partition", s, t.name, t.children[i])
        BY <1>3, <3>2
      <3>4. QED
        BY <3>1, <3>3 DEF OfTable
    <2>4. QED
      BY <1>15, <2>1, <2>2, <2>3
  <1>17. "CreateTables" \in job.opts => create \in Elements(all) /\ \A i \in 1..n : f[i] \in Elements(all)
    BY <1>3, <1>7, <1>15
  <1>18. QED
    BY <1>3, <1>15, <1>16, <1>17 DEF all

\* The statements of the i-th schema: first those that concern no table.
Leading(i) == CreateSchema(catalog[i].name) \o (IF job.engine = "pgsql" THEN PreparePgSQL ELSE <<>>)
OfTables(i) == FlattenSeq([j \in 1..Len(catalog[i].tables) |-> PrepareTable(catalog[i].name, catalog[i].tables[j])])

\* What comes before a schema's tables builds none.
LEMMA LeadingOther ==
    ASSUME job \in Jobs, CatalogOfFirst(catalog, Len(Wanted), "read"), NEW i
    PROVE  Other(Leading(i))
  <1>1. Other(CreateSchema(catalog[i].name))
    BY OtherOne, OtherNone DEF CreateSchema
  <1>2. Other(IF job.engine = "pgsql" THEN PreparePgSQL ELSE <<>>)
    BY PgSQLOther, OtherNone
  <1>3. QED
    BY <1>1, <1>2, OtherConcat DEF Leading

\* The statements of a schema's tables are those of each of them.
LEMMA OfTablesFacts ==
    ASSUME job \in Jobs, CatalogOfFirst(catalog, Len(Wanted), "read"), NEW i \in 1..Len(catalog)
    PROVE  /\ IsSequence(OfTables(i))
           /\ Elements(OfTables(i)) =
                 UNION {Elements(PrepareTable(catalog[i].name, catalog[i].tables[j])) : j \in 1..Len(catalog[i].tables)}
           /\ \A j \in 1..Len(catalog[i].tables) : InOrder(PrepareTable(catalog[i].name, catalog[i].tables[j]))
  <1> DEFINE n == Len(catalog[i].tables)
             seqs == [j \in 1..n |-> PrepareTable(catalog[i].name, catalog[i].tables[j])]
  <1>1. n \in Nat /\ \A j \in 1..n : IsSequence(catalog[i].tables[j].children)
    BY EntryLists
  <1>2. \A j \in 1..n : InOrder(PrepareTable(catalog[i].name, catalog[i].tables[j]))
    BY <1>1, PrepareTableFacts
  <1>3. DOMAIN seqs = 1..n /\ seqs = [j \in 1..n |-> seqs[j]]
        /\ \A j \in 1..n : seqs[j] = PrepareTable(catalog[i].name, catalog[i].tables[j])
    OBVIOUS
  <1>4. OfTables(i) = FlattenSeq(seqs)
    BY DEF OfTables
  <1> HIDE DEF seqs, n
  <1>5. \A j \in 1..n : IsSequence(seqs[j])
    BY <1>2, <1>3 DEF InOrder
  <1>6. IsSequence(FlattenSeq(seqs)) /\ Elements(FlattenSeq(seqs)) = UNION {Elements(seqs[j]) : j \in 1..n}
    BY <1>1, <1>3, <1>5, JoinElements
  <1>7. UNION {Elements(seqs[j]) : j \in 1..n} = UNION {Elements(PrepareTable(catalog[i].name, catalog[i].tables[j])) : j \in 1..n}
    BY <1>3
  <1>8. QED
    BY <1>2, <1>4, <1>6, <1>7 DEF n

\* PrepareTarget's statements are of a table of the catalog, or build none.
LEMMA PrepareElements ==
    ASSUME job \in Jobs, CatalogOfFirst(catalog, Len(Wanted), "read")
    PROVE  /\ IsSequence(PrepareScript)
           /\ \A st \in Elements(PrepareScript) :
                 \/ /\ st.op \in {"schema", "dropType", "type", "function", "sequence"}
                    /\ st.op = "dropType" => st.name \in TypeNames
                 \/ \E i \in 1..Len(catalog) : \E j \in 1..Len(catalog[i].tables) :
                       OfTable(st, catalog[i].name, catalog[i].tables[j])
           /\ \A i \in 1..Len(catalog) : \A j \in 1..Len(catalog[i].tables) :
                 Elements(PrepareTable(catalog[i].name, catalog[i].tables[j])) \subseteq Elements(PrepareScript)
  <1> DEFINE n == Len(catalog)
             seqs == [i \in 1..n |-> Leading(i) \o OfTables(i)]
  <1>1. n \in Nat
    BY EntryLists
  <1>2. PrepareScript = FlattenSeq(seqs)
    BY DEF PrepareScript, Over, Leading, OfTables
  <1>3. DOMAIN seqs = 1..n /\ seqs = [i \in 1..n |-> seqs[i]] /\ \A i \in 1..n : seqs[i] = Leading(i) \o OfTables(i)
    OBVIOUS
  <1> HIDE DEF seqs
  <1>4. ASSUME NEW i \in 1..n
        PROVE  IsSequence(seqs[i]) /\ Elements(seqs[i]) = Elements(Leading(i)) \cup Elements(OfTables(i))
    <2>1. IsSequence(Leading(i)) /\ IsSequence(OfTables(i))
      BY LeadingOther, OfTablesFacts DEF Other
    <2>2. QED
      BY <1>3, <2>1, ConcatElements
  <1>5. IsSequence(PrepareScript) /\ Elements(PrepareScript) = UNION {Elements(seqs[i]) : i \in 1..n}
    BY <1>1, <1>2, <1>3, <1>4, JoinElements
  <1>6. ASSUME NEW st \in Elements(PrepareScript)
        PROVE  \/ /\ st.op \in {"schema", "dropType", "type", "function", "sequence"}
                  /\ st.op = "dropType" => st.name \in TypeNames
               \/ \E i \in 1..Len(catalog) : \E j \in 1..Len(catalog[i].tables) : OfTable(st, catalog[i].name, catalog[i].tables[j])
    <2>1. PICK i \in 1..n : st \in Elements(seqs[i])
      BY <1>5
    <2>2. CASE st \in Elements(Leading(i))
      BY <2>2, LeadingOther DEF Other
    <2>3. CASE st \in Elements(OfTables(i))
      <3>1. PICK j \in 1..Len(catalog[i].tables) : st \in Elements(PrepareTable(catalog[i].name, catalog[i].tables[j]))
        BY <2>3, OfTablesFacts
      <3>2. IsSequence(catalog[i].tables[j].children)
        BY EntryLists
      <3>3. OfTable(st, catalog[i].name, catalog[i].tables[j])
        BY <3>1, <3>2, PrepareTableFacts
      <3>4. QED
        BY <3>3
    <2>4. QED
      BY <1>4, <2>1, <2>2, <2>3
  <1>7. ASSUME NEW i \in 1..n, NEW j \in 1..Len(catalog[i].tables)
        PROVE  Elements(PrepareTable(catalog[i].name, catalog[i].tables[j])) \subseteq Elements(PrepareScript)
    <2>1. Elements(PrepareTable(catalog[i].name, catalog[i].tables[j])) \subseteq Elements(OfTables(i))
      BY OfTablesFacts
    <2>2. Elements(OfTables(i)) \subseteq Elements(seqs[i])
      BY <1>4
    <2>3. QED
      BY <1>5, <2>1, <2>2
  <1>8. QED
    BY <1>5, <1>6, <1>7

\* PrepareTarget drops no table that the command does not load, and no type but
\* the source's.
LEMMA PrepareDrops ==
    ASSUME job \in Jobs, CatalogOfFirst(catalog, Len(Wanted), "read")
    PROVE  DropsLoaded(PrepareScript)
  <1>1. ASSUME NEW st \in Elements(PrepareScript), st.op = "drop" PROVE <<st.schema, st.name>> \in LoadedNames
    <2>1. PICK i \in 1..Len(catalog) : \E j \in 1..Len(catalog[i].tables) : OfTable(st, catalog[i].name, catalog[i].tables[j])
      BY <1>1, PrepareElements
    <2>2. PICK j \in 1..Len(catalog[i].tables) : OfTable(st, catalog[i].name, catalog[i].tables[j])
      BY <2>1
    <2>3. st.schema = catalog[i].name /\ st.name = catalog[i].tables[j].name
      <3> DEFINE name == catalog[i].name
                 t == catalog[i].tables[j]
      <3>1. OfTable(st, name, t)
        BY <2>2
      <3> HIDE DEF name, t
      <3>2. \E op, arg : st = Statement(op, name, t.name, arg)
        BY <3>1, Zenon DEF OfTable
      <3>3. st.schema = name /\ st.name = t.name
        <4>1. PICK op, arg : st = Statement(op, name, t.name, arg)
          BY <3>2
        <4>2. QED
          BY <4>1 DEF Statement
      <3>4. QED
        BY <3>3 DEF name, t
    <2>4. <<catalog[i].name, catalog[i].tables[j].name>> \in LoadedNames
      BY EntryLists
    <2>5. QED
      BY <2>3, <2>4
  <1>2. ASSUME NEW st \in Elements(PrepareScript), st.op = "dropType" PROVE st.name \in TypeNames
    <2>1. CASE st.name \in TypeNames
      BY <2>1
    <2>2. CASE st.name \notin TypeNames
      <3>1. PICK i \in 1..Len(catalog) : \E j \in 1..Len(catalog[i].tables) : OfTable(st, catalog[i].name, catalog[i].tables[j])
        BY <1>2, <2>2, PrepareElements
      <3>2. PICK j \in 1..Len(catalog[i].tables) : OfTable(st, catalog[i].name, catalog[i].tables[j])
        BY <3>1
      <3> DEFINE s == catalog[i].name
                 t == catalog[i].tables[j]
      <3>3. OfTable(st, s, t)
        BY <3>2
      <3> HIDE DEF s, t
      <3>4. \E op \in {"drop", "truncate", "create", "partition"} : \E arg : st = Statement(op, s, t.name, arg)
        BY <3>3, Zenon DEF OfTable
      <3>5. PICK op \in {"drop", "truncate", "create", "partition"} : \E arg : st = Statement(op, s, t.name, arg)
        BY <3>4
      <3>6. st.op = op
        BY <3>5 DEF Statement
      <3>7. QED
        BY <1>2, <3>5, <3>6
    <2>3. QED
      BY <2>1, <2>2
  <1>3. QED
    BY <1>1, <1>2, PrepareElements DEF DropsLoaded

\* CompleteTarget drops none at all.
LEMMA CompleteDrops ==
    ASSUME job \in Jobs, CatalogOfFirst(catalog, Len(Wanted), "read")
    PROVE  DropsLoaded(CompleteScript)
  BY CompleteElements DEF DropsLoaded

----------------------------------------------------------------------------
(* The steps *)

\* While the run lasts its settings and names stay.
LEMMA JobStays ==
    ASSUME job' = job
    PROVE  /\ Wanted' = Wanted /\ LoadedNames' = LoadedNames /\ (DiscoveryFails' <=> DiscoveryFails)
           /\ \A t : SchemaOf(t)' = SchemaOf(t) /\ FinalName(t)' = FinalName(t)
  <1>1. Wanted' = Wanted
    BY DEF Wanted, Named, Discovered, Filter, Selected, TableMatches
  <1>2. LoadedNames' = LoadedNames
    BY DEF LoadedNames, Loaded, SchemaOf, FinalName, Named
  <1>3. DiscoveryFails' <=> DiscoveryFails
    BY DEF DiscoveryFails, Selected, TableMatches
  <1>4. \A t : SchemaOf(t)' = SchemaOf(t) /\ FinalName(t)' = FinalName(t)
    BY DEF SchemaOf, FinalName
  <1>5. QED
    BY <1>1, <1>2, <1>3, <1>4

\* So does what its source reads.
LEMMA ReadStays ==
    ASSUME job' = job, NEW t
    PROVE  ReadIndexes(t)' = ReadIndexes(t) /\ (\A c : ReadColumn(t, c)' = ReadColumn(t, c))
           /\ (\A k : ReadForeignKey(t, k)' = ReadForeignKey(t, k))
  <1>1. ReadIndexes(t)' = ReadIndexes(t)
    BY DEF ReadIndexes
  <1>2. \A c : ReadColumn(t, c)' = ReadColumn(t, c)
    BY DEF ReadColumn
  <1>3. \A k : ReadForeignKey(t, k)' = ReadForeignKey(t, k)
    BY DEF ReadForeignKey
  <1>4. QED
    BY <1>1, <1>2, <1>3

\* So does what an entry of the catalog is.
LEMMA EntryStays ==
    ASSUME job' = job, NEW cat, NEW i, NEW j, NEW t, NEW phase
    PROVE  IsEntry(cat, i, j, t, phase)' <=> IsEntry(cat, i, j, t, phase)
  <1>1. \A e : AsRead(e, t, phase)' <=> AsRead(e, t, phase)
    BY ReadStays, JobStays DEF AsRead, NameAt
  <1>2. QED
    BY <1>1, JobStays DEF IsEntry

\* So does what the catalog is to hold.
LEMMA CatalogStays ==
    ASSUME job' = job, NEW cat, NEW n, NEW phase
    PROVE  CatalogOfFirst(cat, n, phase)' <=> CatalogOfFirst(cat, n, phase)
  <1>1. Distinct(cat)' <=> Distinct(cat)
    BY DEF Distinct
  <1>2. HoldsFirst(cat, n, phase)' <=> HoldsFirst(cat, n, phase)
    <2>1. Wanted' = Wanted
      BY JobStays
    <2>2. \A i, j, k : IsEntry(cat, i, j, Wanted[k], phase)' <=> IsEntry(cat, i, j, Wanted[k], phase)
      BY <2>1, EntryStays, Zenon
    <2>3. QED
      BY <2>2 DEF HoldsFirst
  <1>3. QED
    BY <1>1, <1>2 DEF CatalogOfFirst

\* The new catalog holds the first n tables.
LEMMA CatalogBecomes ==
    ASSUME job' = job, NEW cat, catalog' = cat, NEW n, NEW phase, CatalogOfFirst(cat, n, phase)
    PROVE  CatalogOfFirst(catalog, n, phase)'
  BY CatalogStays

\* So do the names of the tables loaded.
LEMMA DropsStay ==
    ASSUME job' = job, NEW s, script' = s, DropsLoaded(s)
    PROVE  DropsLoaded(script)'
  BY JobStays DEF DropsLoaded, TypeNames

\* The rest of a script drops what the script did.
LEMMA TailDrops ==
    ASSUME DropsLoaded(script), script # <<>>
    PROVE  DropsLoaded(Tail(script))
  <1>1. IsSequence(script) /\ IsSequence(Tail(script)) /\ Len(Tail(script)) = Len(script) - 1 /\ Len(script) \in Nat
        /\ \A i \in 1..(Len(script) - 1) : Tail(script)[i] = script[i + 1]
    BY SequenceTail, SequenceFacts DEF DropsLoaded
  <1>2. \A st \in Elements(Tail(script)) : st \in Elements(script)
    <2> TAKE st \in Elements(Tail(script))
    <2>1. PICK i \in 1..Len(Tail(script)) : Tail(script)[i] = st
      BY <1>1, SequenceFacts
    <2>2. i \in 1..(Len(script) - 1) /\ i + 1 \in 1..Len(script)
      BY <1>1
    <2>3. QED
      BY <1>1, <2>1, <2>2, SequenceFacts
  <1>3. QED
    BY <1>1, <1>2 DEF DropsLoaded

\* An empty script drops nothing.
LEMMA NoDrops == DropsLoaded(<<>>)
  BY EmptySequence DEF DropsLoaded

\* Before the first table is read.
LEMMA StartOfCatalog ==
    ASSUME job \in Jobs
    PROVE  CatalogOfFirst(IF job.engine = "mssql" THEN <<>> ELSE <<[name |-> job.schema, tables |-> <<>>]>>, 0, "tables")
  <1>0. 1..0 = {}
    OBVIOUS
  <1>1. CASE job.engine = "mssql"
    <2>1. Shaped(<<>>) /\ Distinct(<<>>) /\ HoldsFirst(<<>>, 0, "tables")
      BY <1>0, <1>1, EmptySequence DEF Shaped, Distinct, HoldsFirst
    <2>2. QED
      BY <1>1, <2>1 DEF CatalogOfFirst
  <1>2. CASE job.engine # "mssql"
    <2> DEFINE s == [name |-> job.schema, tables |-> <<>>]
               cat == <<s>>
    <2>1. IsSequence(cat) /\ Len(cat) = 1 /\ cat[1] = s
      BY SingleSequence
    <2>2. s.name = job.schema /\ s.tables = <<>> /\ s = [name |-> s.name, tables |-> s.tables]
      OBVIOUS
    <2>3. 1..1 = {1}
      OBVIOUS
    <2> HIDE DEF cat, s
    <2>4. \A i \in 1..Len(cat) : i = 1 /\ cat[i] = s
      BY <2>1, <2>3
    <2>5. Shaped(cat)
      BY <2>1, <2>2, <2>4, EmptySequence DEF Shaped
    <2>6. Distinct(cat)
      BY <2>1, <2>2, <2>4, EmptySequence DEF Distinct
    <2>7. HoldsFirst(cat, 0, "tables")
      BY <1>0, <2>1, <2>2, <2>4, EmptySequence DEF HoldsFirst
    <2>8. QED
      BY <1>2, <2>5, <2>6, <2>7 DEF CatalogOfFirst, cat, s
  <1>3. QED
    BY <1>1, <1>2

\* SchemaInv when the first run begins.
LEMMA SchemaBegins == SchemaInit => SchemaInv
  BY NoDrops DEF SchemaInit, Begin, SchemaInv, ReadInv

\* The tables are found: nothing is in the catalog yet.
LEMMA DiscoverSteps ==
    ASSUME SchemaInv, DiscoverTables, script' = script
    PROVE  SchemaInv'
  <1>0. job' = job /\ job \in Jobs /\ pc = "start" /\ DropsLoaded(script)
    BY DEF SchemaInv, DiscoverTables
  <1>1. DropsLoaded(script)'
    BY <1>0, DropsStay
  <1>2. CASE job.table = "" /\ DiscoveryFails
    <2>1. pc' = "error"
      BY <1>2 DEF DiscoverTables
    <2>2. QED
      BY <1>0, <1>1, <2>1 DEF SchemaInv, ReadInv
  <1>3. CASE ~(job.table = "" /\ DiscoveryFails)
    <2> DEFINE cat == IF job.engine = "mssql" THEN <<>> ELSE <<[name |-> job.schema, tables |-> <<>>]>>
    <2>1. pc' = "tables" /\ todo' = Wanted /\ catalog' = cat
      BY <1>3 DEF DiscoverTables, Wanted
    <2>2. CatalogOfFirst(cat, 0, "tables")
      BY <1>0, StartOfCatalog
    <2> HIDE DEF cat
    <2>3. CatalogOfFirst(catalog, 0, "tables")'
      BY <1>0, <2>1, <2>2, CatalogBecomes
    <2>4. Wanted' = Wanted /\ (DiscoveryFails' <=> DiscoveryFails)
      BY <1>0, JobStays
    <2>5. IsSequence(Wanted) /\ Len(Wanted) \in Nat
      BY <1>0, WantedFacts
    <2>6. 0 \in 0..Len(Wanted) /\ Len(Wanted) = Len(Wanted) - 0 /\ \A q \in 1..Len(Wanted) : q = 0 + q
      BY <2>5
    <2>7. ReadInv'
      <3>1. IsSequence(todo)' /\ Len(todo') = Len(Wanted) - 0 /\ \A q \in 1..Len(todo') : todo'[q] = Wanted[0 + q]
        BY <2>1, <2>5, <2>6 DEF IsSequence, Elements
      <3>2. QED
        BY <1>0, <1>3, <2>1, <2>3, <2>4, <2>6, <3>1 DEF ReadInv
    <2>8. QED
      BY <1>0, <1>1, <2>1, <2>7 DEF SchemaInv
  <1>4. QED
    BY <1>2, <1>3

\* With the n tables read, the next one is the first of those to read.
LEMMA FetchSteps ==
    ASSUME SchemaInv, FetchTable, script' = script
    PROVE  SchemaInv'
  <1>0. job' = job /\ job \in Jobs /\ pc = "tables" /\ DropsLoaded(script) /\ todo # <<>> /\ IsSequence(todo)
        /\ (job.table = "" => ~DiscoveryFails)
    BY DEF SchemaInv, FetchTable, ReadInv
  <1>1. DropsLoaded(script)'
    BY <1>0, DropsStay
  <1>2. CASE Unreadable(Head(todo))
    <2>1. pc' = "error"
      BY <1>2 DEF FetchTable
    <2>2. QED
      BY <1>0, <1>1, <2>1 DEF SchemaInv, ReadInv
  <1>3. CASE ~Unreadable(Head(todo))
    <2>1. PICK n \in 0..Len(Wanted) :
             /\ Len(todo) = Len(Wanted) - n /\ \A q \in 1..Len(todo) : todo[q] = Wanted[n + q]
             /\ CatalogOfFirst(catalog, n, "tables")
      BY <1>0 DEF SchemaInv, ReadInv
    <2> DEFINE t == Wanted[n + 1]
               marked == MarkKey(catalog, t)
               cat == AppendTable(marked, t)
    <2>2. /\ IsSequence(Tail(todo)) /\ Len(Tail(todo)) = Len(todo) - 1 /\ Len(todo) >= 1 /\ Len(todo) \in Nat
          /\ Head(todo) = todo[1] /\ \A i \in 1..(Len(todo) - 1) : Tail(todo)[i] = todo[i + 1]
      BY <1>0, SequenceTail, SequenceFacts
    <2>3. Len(Wanted) \in Nat
      BY <1>0, WantedFacts
    <2> DEFINE w == Len(Wanted)
               l == Len(todo)
    <2>4. /\ n + 1 \in 1..w /\ n + 1 \in 0..w /\ 1 \in 1..l /\ l - 1 = w - (n + 1)
          /\ \A q \in 1..(l - 1) : q + 1 \in 1..l /\ n + (q + 1) = (n + 1) + q
      <3>1. w \in Nat /\ l \in Nat /\ l >= 1 /\ l = w - n
        BY <2>1, <2>2, <2>3
      <3> HIDE DEF w, l
      <3>2. QED
        BY <3>1
    <2>5. Head(todo) = t
      BY <2>1, <2>2, <2>4
    <2>6. pc' = pc /\ todo' = Tail(todo) /\ catalog' = cat
      BY <1>3, <2>5 DEF FetchTable
    <2> HIDE DEF w, l
    <2>7. CatalogOfFirst(marked, n, "tables")
      BY <1>0, <2>1, MarkKeeps
    <2> HIDE DEF marked
    <2>8. CatalogOfFirst(cat, n + 1, "tables")
      BY <1>0, <2>4, <2>7, AppendKeeps DEF w
    <2> HIDE DEF cat
    <2>9. CatalogOfFirst(catalog, n + 1, "tables")'
      BY <1>0, <2>6, <2>8, CatalogBecomes
    <2>10. \A q \in 1..(l - 1) : Tail(todo)[q] = Wanted[(n + 1) + q]
      <3> TAKE q \in 1..(l - 1)
      <3>1. Tail(todo)[q] = todo[q + 1]
        BY <2>2 DEF l
      <3>2. todo[q + 1] = Wanted[n + (q + 1)]
        BY <2>1, <2>4 DEF l
      <3>3. n + (q + 1) = (n + 1) + q
        BY <2>4
      <3>4. QED
        BY <3>1, <3>2, <3>3
    <2> DEFINE rest == Tail(todo)
    <2>11. IsSequence(rest) /\ Len(rest) = w - (n + 1) /\ \A q \in 1..Len(rest) : rest[q] = Wanted[(n + 1) + q]
      BY <2>2, <2>4, <2>10 DEF l
    <2>12. Wanted' = Wanted /\ (DiscoveryFails' <=> DiscoveryFails) /\ todo' = rest
      BY <1>0, <2>6, JobStays
    <2> HIDE DEF rest
    <2>13. ReadInv'
      <3>1. IsSequence(todo)' /\ Len(todo') = Len(Wanted') - (n + 1) /\ \A q \in 1..Len(todo') : todo'[q] = Wanted'[(n + 1) + q]
        BY <2>11, <2>12 DEF IsSequence, Elements, w
      <3>2. n + 1 \in 0..Len(Wanted')
        BY <2>4, <2>12 DEF w
      <3>3. QED
        BY <1>0, <2>6, <2>9, <2>12, <3>1, <3>2 DEF ReadInv
    <2>14. QED
      BY <1>0, <1>1, <2>6, <2>13 DEF SchemaInv
  <1>4. QED
    BY <1>2, <1>3

\* The catalog is complete.
LEMMA RenameSteps ==
    ASSUME SchemaInv, RenameViews, script' = script
    PROVE  SchemaInv'
  <1>0. job' = job /\ job \in Jobs /\ pc = "tables" /\ DropsLoaded(script) /\ todo = <<>> /\ pc' = "read"
        /\ (job.table = "" => ~DiscoveryFails)
    BY DEF SchemaInv, RenameViews, ReadInv
  <1>1. DropsLoaded(script)'
    BY <1>0, DropsStay
  <1>2. PICK n \in 0..Len(Wanted) : Len(todo) = Len(Wanted) - n /\ CatalogOfFirst(catalog, n, "tables")
    BY <1>0 DEF SchemaInv, ReadInv
  <1>3. n = Len(Wanted)
    <2>1. Len(todo) = 0 /\ Len(Wanted) \in Nat
      BY <1>0, EmptySequence, WantedFacts
    <2> DEFINE w == Len(Wanted)
    <2>2. w \in Nat /\ 0 = w - n /\ n \in 0..w
      BY <1>2, <2>1
    <2> HIDE DEF w
    <2>3. n = w
      BY <2>2
    <2>4. QED
      BY <2>3 DEF w
  <1> DEFINE cat == RenamedCatalog(catalog)
  <1>4. CatalogOfFirst(cat, Len(Wanted), "read")
    BY <1>0, <1>2, <1>3, RenameKeeps
  <1>5. catalog' = cat
    <2> DEFINE new(i) == [j \in 1..Len(catalog[i].tables) |-> RenamedEntry(catalog[i].name, catalog[i].tables[j])]
    <2>1. catalog' = [i \in 1..Len(catalog) |-> [catalog[i] EXCEPT !.tables = new(i)]]
      BY DEF RenameViews, RenamedEntry
    <2>2. \A i \in 1..Len(catalog) : catalog[i] = [name |-> catalog[i].name, tables |-> catalog[i].tables]
      BY <1>2 DEF CatalogOfFirst, Shaped
    <2>3. cat = [i \in 1..Len(catalog) |-> [name |-> catalog[i].name, tables |-> new(i)]]
      BY DEF RenamedCatalog
    <2> HIDE DEF new, cat
    <2>4. \A i \in 1..Len(catalog) : [catalog[i] EXCEPT !.tables = new(i)] = [name |-> catalog[i].name, tables |-> new(i)]
      <3> TAKE i \in 1..Len(catalog)
      <3> DEFINE c == catalog[i]
                 x == new(i)
      <3>1. c = [name |-> c.name, tables |-> c.tables]
        BY <2>2
      <3> HIDE DEF c, x
      <3>2. [c EXCEPT !.tables = x] = [name |-> c.name, tables |-> x]
        BY <3>1
      <3>3. QED
        BY <3>2 DEF c, x
    <2>5. QED
      BY <2>1, <2>3, <2>4
  <1> HIDE DEF cat
  <1>6. CatalogOfFirst(catalog, Len(Wanted), "read")'
    BY <1>0, <1>4, <1>5, CatalogBecomes, JobStays
  <1>7. QED
    BY <1>0, <1>1, <1>6, JobStays DEF SchemaInv, ReadInv

\* A run that fails.
LEMMA ErrorSteps ==
    ASSUME SchemaInv, job' = job, pc' = "error", NEW s, script' = s, DropsLoaded(s)
    PROVE  SchemaInv'
  BY DropsStay DEF SchemaInv, ReadInv

\* After reading, the catalog stays as it is.
LEMMA LaterSteps ==
    ASSUME SchemaInv, pc \in {"read", "prepare", "complete", "done"}, job' = job, catalog' = catalog,
           pc' \in {"read", "prepare", "complete", "done"}, NEW s, script' = s, DropsLoaded(s)
    PROVE  SchemaInv'
  <1>1. CatalogOfFirst(catalog, Len(Wanted), "read") /\ job \in Jobs /\ (job.table = "" => ~DiscoveryFails)
    BY DEF SchemaInv, ReadInv
  <1>2. CatalogOfFirst(catalog, Len(Wanted), "read")'
    BY <1>1, JobStays, CatalogStays
  <1>3. DropsLoaded(script)'
    BY DropsStay
  <1>4. QED
    BY <1>1, <1>2, <1>3, JobStays DEF SchemaInv, ReadInv

\* A run that follows.
LEMMA RerunSteps ==
    ASSUME SchemaInv, Rerun
    PROVE  SchemaInv'
  <1>1. DropsLoaded(script)'
    <2>1. script' = <<>>
      BY DEF Rerun
    <2>2. QED
      BY <2>1, EmptySequence DEF DropsLoaded
  <1>2. QED
    BY <1>1 DEF Rerun, SchemaInv, ReadInv

\* Nothing happens.
LEMMA StutterSteps ==
    ASSUME SchemaInv, UNCHANGED schemaVars
    PROVE  SchemaInv'
  <1>0. job' = job /\ pc' = pc /\ todo' = todo /\ catalog' = catalog /\ script' = script
    BY DEF schemaVars, metadataVars
  <1>1. DropsLoaded(script)'
    BY <1>0, DropsStay DEF SchemaInv
  <1>2. Wanted' = Wanted /\ (DiscoveryFails' <=> DiscoveryFails)
    BY <1>0, JobStays
  <1>3. \A n, phase : CatalogOfFirst(catalog, n, phase) => CatalogOfFirst(catalog, n, phase)'
    BY <1>0, CatalogStays
  <1>4. QED
    BY <1>0, <1>1, <1>2, <1>3 DEF SchemaInv, ReadInv, IsSequence, Elements

\* Every step keeps SchemaInv.
LEMMA SchemaSteps ==
    ASSUME SchemaInv, [SchemaNext]_schemaVars
    PROVE  SchemaInv'
  <1>1. DropsLoaded(script)
    BY DEF SchemaInv
  <1>2. ASSUME Fetch PROVE SchemaInv'
    BY <1>2, DiscoverSteps, FetchSteps, RenameSteps DEF Fetch
  <1>3. ASSUME FetchFails PROVE SchemaInv'
    BY <1>1, <1>3, ErrorSteps DEF FetchFails, QueryFails
  <1>4. ASSUME BeginPrepare PROVE SchemaInv'
    <2> DEFINE s == PrepareScript
    <2>1. DropsLoaded(s)
      BY <1>4, PrepareDrops DEF BeginPrepare, SchemaInv, ReadInv
    <2>2. script' = s
      BY <1>4 DEF BeginPrepare
    <2> HIDE DEF s
    <2>3. QED
      BY <1>4, <2>1, <2>2, LaterSteps DEF BeginPrepare
  <1>5. ASSUME Execute PROVE SchemaInv'
    <2>1. CASE IsRefused(Head(script))
      BY <1>5, <2>1, NoDrops, ErrorSteps DEF Execute
    <2>2. CASE ~IsRefused(Head(script))
      <3> DEFINE s == Tail(script)
      <3>1. DropsLoaded(s)
        BY <1>1, <1>5, TailDrops DEF Execute
      <3>2. script' = s /\ pc' = pc
        BY <1>5, <2>2 DEF Execute
      <3> HIDE DEF s
      <3>3. QED
        BY <1>5, <3>1, <3>2, LaterSteps DEF Execute
    <2>3. QED
      BY <2>1, <2>2
  <1>6. ASSUME StatementFails PROVE SchemaInv'
    <2>1. CASE Head(script).op = "dropType"
      <3> DEFINE s == Tail(script)
      <3>1. DropsLoaded(s)
        BY <1>1, <1>6, TailDrops DEF StatementFails
      <3>2. script' = s /\ pc' = pc
        BY <1>6, <2>1 DEF StatementFails
      <3> HIDE DEF s
      <3>3. QED
        BY <1>6, <3>1, <3>2, LaterSteps DEF StatementFails
    <2>2. CASE Head(script).op # "dropType"
      BY <1>6, <2>2, NoDrops, ErrorSteps DEF StatementFails
    <2>3. QED
      BY <2>1, <2>2
  <1>7. ASSUME BeginComplete PROVE SchemaInv'
    <2> DEFINE s == CompleteScript
    <2>1. DropsLoaded(s)
      BY <1>7, CompleteDrops DEF BeginComplete, SchemaInv, ReadInv
    <2>2. script' = s
      BY <1>7 DEF BeginComplete
    <2> HIDE DEF s
    <2>3. QED
      BY <1>7, <2>1, <2>2, LaterSteps DEF BeginComplete
  <1>8. ASSUME Complete PROVE SchemaInv'
    BY <1>1, <1>8, LaterSteps DEF Complete
  <1>9. QED
    BY <1>2, <1>3, <1>4, <1>5, <1>6, <1>7, <1>8, RerunSteps, StutterSteps DEF SchemaNext

\* The catalog holds what FetchMetadata has read so far, each table once and in
\* order, and no script drops a table that the command does not load.
THEOREM ScriptsOfCatalog == SchemaSpec => []SchemaInv
  <1>1. SchemaInit => SchemaInv
    BY SchemaBegins
  <1>2. SchemaInv /\ [SchemaNext]_schemaVars => SchemaInv'
    BY SchemaSteps
  <1>3. QED
    BY <1>1, <1>2, PTL DEF SchemaSpec

\* What a step takes from the target.
Spared ==
    \A t \in db.tables \ db'.tables :
        \/ <<t.schema, t.name>> \in LoadedNames \/ t.parent \in LoadedNames
        \/ \E type \in Elements(job.types) : WithoutColumns(t, type.name) \in db'.tables

\* A statement takes away no table but its own and that table's partitions, and
\* of others no column but those of the type it drops.
LEMMA AfterSpares ==
    ASSUME NEW st,
           st.op = "drop" => <<st.schema, st.name>> \in LoadedNames,
           st.op = "dropType" => st.name \in TypeNames,
           NEW t \in db.tables, t \notin After(st).tables
    PROVE  \/ <<t.schema, t.name>> \in LoadedNames \/ t.parent \in LoadedNames
           \/ \E type \in Elements(job.types) : WithoutColumns(t, type.name) \in After(st).tables
  <1>1. CASE st.op = "drop"
    <2>1. After(st) = WithoutTable(st.schema, st.name)
      BY <1>1 DEF After
    <2>2. (t.schema = st.schema /\ t.name = st.name) \/ t.parent = <<st.schema, st.name>>
      BY <2>1 DEF WithoutTable
    <2>3. QED
      BY <1>1, <2>2
  <1>2. CASE st.op = "dropType"
    <2>1. After(st) = WithoutType(st.name)
      BY <1>2 DEF After
    <2> DEFINE Less(u) == WithoutColumns(u, st.name)
    <2>2. WithoutType(st.name).tables \in {{Less(u) : u \in db.tables}, db.tables}
      BY DEF WithoutType, WithoutColumns, Filter
    <2> HIDE DEF Less
    <2>3. Less(t) \in After(st).tables
      BY <2>1, <2>2
    <2>4. WithoutColumns(t, st.name) \in After(st).tables
      BY <2>3 DEF Less
    <2>5. QED
      BY <1>2, <2>4 DEF TypeNames
  <1>3. CASE st.op \notin {"drop", "dropType"}
    BY <1>3 DEF After
  <1>4. QED
    BY <1>1, <1>2, <1>3

\* PrepareTarget and CompleteTarget take away no table but those loaded and their
\* partitions, and of others no column but those of the source's types, whatever
\* the source and the filters.
THEOREM TablesSpared == SchemaSpec => OthersSpared
  <1>1. ASSUME SchemaInv, SchemaNext PROVE Spared
    <2>1. CASE Execute
      <3>1. script # <<>> /\ (db' = After(Head(script)) \/ db' = db)
        BY <2>1 DEF Execute
      <3>2. Head(script) \in Elements(script)
        <4>1. IsSequence(script)
          BY <1>1 DEF SchemaInv, DropsLoaded
        <4>2. Head(script) = script[1] /\ 1 \in 1..Len(script)
          BY <3>1, <4>1, SequenceTail, SequenceFacts
        <4>3. QED
          BY <4>1, <4>2, SequenceFacts
      <3>3. /\ Head(script).op = "drop" => <<Head(script).schema, Head(script).name>> \in LoadedNames
            /\ Head(script).op = "dropType" => Head(script).name \in TypeNames
        BY <1>1, <3>2 DEF SchemaInv, DropsLoaded
      <3>4. QED
        BY <3>1, <3>3, AfterSpares DEF Spared
    <2>2. CASE ~Execute
      <3>1. db' = db
        BY <1>1, <2>2 DEF SchemaNext, Fetch, FetchFails, Fault, BeginPrepare, StatementFails, BeginComplete, Complete, Rerun
      <3>2. QED
        BY <3>1 DEF Spared
    <2>3. QED
      BY <2>1, <2>2
  <1>2. SchemaInv /\ [SchemaNext]_schemaVars => [Spared]_schemaVars
    BY <1>1
  <1>3. QED
    BY <1>2, ScriptsOfCatalog, PTL DEF SchemaSpec, OthersSpared, Spared

\* The place of a loaded table in a catalog that is read.
LEMMA EntryFound ==
    ASSUME job \in Jobs, CatalogOfFirst(catalog, Len(Wanted), "read"), NEW t, NEW i \in 1..Len(catalog),
           NEW j \in 1..Len(catalog[i].tables), IsEntry(catalog, i, j, t, "read")
    PROVE  /\ EntriesOf(t) = {<<i, j>>}
           /\ CatalogOf(t) = catalog[i].tables[j]
  <1>1. catalog[i].name = SchemaOf(t) /\ catalog[i].tables[j].name = FinalName(t)
    <2> DEFINE e == catalog[i].tables[j]
    <2>1. catalog[i].name = SchemaOf(t) /\ AsRead(e, t, "read")
      BY Zenon DEF IsEntry
    <2> HIDE DEF e
    <2>2. e.name = NameAt(t, "read")
      BY <2>1 DEF AsRead
    <2>3. NameAt(t, "read") = FinalName(t)
      BY DEF NameAt
    <2>4. QED
      BY <2>1, <2>2, <2>3 DEF e
  <1>2. \A h \in 1..Len(catalog) : (job.engine = "mssql" => catalog[h].name = t.schema) <=> h = i
    <2>1. \A h, m \in 1..Len(catalog) : catalog[h].name = catalog[m].name => h = m
      BY DEF CatalogOfFirst, Distinct
    <2>2. job.engine # "mssql" => \A h \in 1..Len(catalog) : h = i
      <3>1. job.engine # "mssql" => Len(catalog) = 1
        BY DEF CatalogOfFirst, Distinct
      <3>2. 1..1 = {1}
        OBVIOUS
      <3>3. QED
        BY <3>1, <3>2
    <2>3. job.engine = "mssql" => SchemaOf(t) = t.schema
      BY DEF SchemaOf
    <2>4. QED
      BY <1>1, <2>1, <2>2, <2>3
  <1>3. \A k \in 1..Len(catalog[i].tables) : catalog[i].tables[k].name = FinalName(t) <=> k = j
    BY <1>1 DEF CatalogOfFirst, Distinct
  <1>4. CatalogOf(t) = catalog[i].tables[j]
    <2> DEFINE h == CHOOSE h \in 1..Len(catalog) : job.engine = "mssql" => catalog[h].name = t.schema
               k == CHOOSE k \in 1..Len(catalog[h].tables) : catalog[h].tables[k].name = FinalName(t)
    <2>1. CatalogOf(t) = catalog[h].tables[k]
      BY DEF CatalogOf
    <2>2. h = i
      BY <1>2
    <2> HIDE DEF h
    <2>3. k = j
      BY <1>3, <2>2
    <2> HIDE DEF k
    <2>4. QED
      BY <2>1, <2>2, <2>3
  <1>5. Len(catalog) \in Nat /\ \A h \in 1..Len(catalog) : Len(catalog[h].tables) \in Nat
    BY EntryLists
  <1> DEFINE Columns == UNION {1..Len(catalog[h].tables) : h \in 1..Len(catalog)}
  <1>6. EntriesOf(t) = {e \in (1..Len(catalog)) \X Columns :
                           /\ e[2] <= Len(catalog[e[1]].tables)
                           /\ job.engine = "mssql" => catalog[e[1]].name = t.schema
                           /\ catalog[e[1]].tables[e[2]].name = FinalName(t)}
    BY DEF EntriesOf
  <1>7. j \in Columns /\ \A k \in Columns : k \in Nat /\ k >= 1
    BY <1>5
  <1> HIDE DEF Columns
  <1>8. <<i, j>> \in EntriesOf(t)
    <2>1. j <= Len(catalog[i].tables)
      <3> DEFINE l == Len(catalog[i].tables)
      <3>1. l \in Nat /\ j \in 1..l
        BY <1>5
      <3> HIDE DEF l
      <3>2. j <= l
        BY <3>1
      <3>3. QED
        BY <3>2 DEF l
    <2>2. QED
      BY <1>1, <1>2, <1>6, <1>7, <2>1
  <1>9. ASSUME NEW e \in EntriesOf(t) PROVE e = <<i, j>>
    <2>1. /\ e \in (1..Len(catalog)) \X Columns /\ e = <<e[1], e[2]>>
          /\ e[1] \in 1..Len(catalog) /\ e[2] \in Columns /\ e[2] <= Len(catalog[e[1]].tables)
          /\ job.engine = "mssql" => catalog[e[1]].name = t.schema
          /\ catalog[e[1]].tables[e[2]].name = FinalName(t)
      BY <1>6
    <2> DEFINE h == e[1]
               k == e[2]
    <2>2. /\ e = <<h, k>> /\ h \in 1..Len(catalog) /\ k \in Columns /\ k <= Len(catalog[h].tables)
          /\ job.engine = "mssql" => catalog[h].name = t.schema
          /\ catalog[h].tables[k].name = FinalName(t)
      BY <2>1
    <2> HIDE DEF h, k
    <2>3. h = i
      BY <1>2, <2>2
    <2>4. k \in 1..Len(catalog[i].tables)
      <3> DEFINE l == Len(catalog[i].tables)
      <3>1. l \in Nat /\ k \in Nat /\ k >= 1 /\ k <= l
        BY <1>5, <1>7, <2>2, <2>3
      <3> HIDE DEF l
      <3>2. k \in 1..l
        BY <3>1
      <3>3. QED
        BY <3>2 DEF l
    <2>5. k = j
      BY <1>3, <2>2, <2>3, <2>4
    <2>6. QED
      BY <2>2, <2>3, <2>5
  <1>10. QED
    BY <1>4, <1>8, <1>9

\* The columns of an entry have the names of the table's.
LEMMA ColumnsNamed ==
    ASSUME job \in Jobs, NEW e, NEW t, AsRead(e, t, "read"), IsSequence(t.cols)
    PROVE  [k \in 1..Len(e.cols) |-> e.cols[k].name] =
              [k \in 1..Len(t.cols) |-> IF job.engine = "mssql" THEN Lower(t.cols[k].name) ELSE t.cols[k].name]
  <1>1. Len(e.cols) = Len(t.cols)
    BY Zenon DEF AsRead
  <1>2. ASSUME NEW k \in 1..Len(t.cols)
        PROVE  e.cols[k].name = IF job.engine = "mssql" THEN Lower(t.cols[k].name) ELSE t.cols[k].name
    <2> DEFINE c == ReadColumn(t, t.cols[k])
               x == e.cols[k].pk
    <2>1. e.cols[k] = [c EXCEPT !.pk = x]
      BY Zenon DEF AsRead
    <2>2. \E auto, pk : c = CatalogColumn(t.cols[k], IF job.engine = "mssql" THEN Lower(t.cols[k].name) ELSE t.cols[k].name, auto, pk)
      BY DEF ReadColumn, MySQLColumn, MSSQLColumn, SQLiteColumn, PgSQLColumn
    <2> DEFINE d == t.cols[k]
               name == IF job.engine = "mssql" THEN Lower(t.cols[k].name) ELSE t.cols[k].name
    <2>3. PICK auto, pk : c = CatalogColumn(d, name, auto, pk)
      BY <2>2
    <2> HIDE DEF c, x, d, name
    <2>4. [c EXCEPT !.pk = x].name = name
      BY <2>3 DEF CatalogColumn
    <2>5. QED
      BY <2>1, <2>4 DEF name
  <1>3. QED
    BY <1>1, <1>2

\* FetchMetadata, AddSchema and the renaming of views leave one entry for each
\* table that the filters select, in its schema, with all columns in their order.
THEOREM CatalogOfTheLoaded == SchemaSpec => []CatalogComplete
  <1>1. ASSUME SchemaInv, Ready, job.table # "" => Loaded # {}
        PROVE  /\ \A i \in 1..Len(catalog) : \A j \in 1..Len(catalog[i].tables) : \E t \in Loaded : <<i, j>> \in EntriesOf(t)
               /\ \A i, j \in 1..Len(catalog) : catalog[i].name = catalog[j].name => i = j
               /\ \A t \in Loaded :
                     /\ \E e \in EntriesOf(t) : EntriesOf(t) = {e}
                     /\ [i \in 1..Len(CatalogOf(t).cols) |-> CatalogOf(t).cols[i].name] =
                           [i \in 1..Len(t.cols) |-> IF job.engine = "mssql" THEN Lower(t.cols[i].name) ELSE t.cols[i].name]
    <2>1. job \in Jobs /\ CatalogOfFirst(catalog, Len(Wanted), "read") /\ (job.table = "" => ~DiscoveryFails)
      BY <1>1 DEF Ready, SchemaInv, ReadInv
    <2>2. /\ \A k \in 1..Len(Wanted) : Wanted[k] \in Loaded
          /\ \A t \in Loaded : \E k \in 1..Len(Wanted) : Wanted[k] = t
      BY <1>1, <2>1, WantedFacts
    <2>3. ASSUME NEW i \in 1..Len(catalog), NEW j \in 1..Len(catalog[i].tables)
          PROVE  \E t \in Loaded : <<i, j>> \in EntriesOf(t)
      <3>1. PICK k \in 1..Len(Wanted) : IsEntry(catalog, i, j, Wanted[k], "read")
        BY <2>1 DEF CatalogOfFirst, HoldsFirst
      <3>2. <<i, j>> \in EntriesOf(Wanted[k])
        BY <2>1, <3>1, EntryFound
      <3>3. QED
        BY <2>2, <3>2
    <2>4. \A i, j \in 1..Len(catalog) : catalog[i].name = catalog[j].name => i = j
      BY <2>1 DEF CatalogOfFirst, Distinct
    <2>5. ASSUME NEW t \in Loaded
          PROVE  /\ \E e \in EntriesOf(t) : EntriesOf(t) = {e}
                 /\ [i \in 1..Len(CatalogOf(t).cols) |-> CatalogOf(t).cols[i].name] =
                       [i \in 1..Len(t.cols) |-> IF job.engine = "mssql" THEN Lower(t.cols[i].name) ELSE t.cols[i].name]
      <3>1. PICK k \in 1..Len(Wanted) : Wanted[k] = t
        BY <2>2
      <3>2. PICK i \in 1..Len(catalog) : \E j \in 1..Len(catalog[i].tables) : IsEntry(catalog, i, j, t, "read")
        BY <2>1, <3>1 DEF CatalogOfFirst, HoldsFirst
      <3>3. PICK j \in 1..Len(catalog[i].tables) : IsEntry(catalog, i, j, t, "read")
        BY <3>2
      <3>4. EntriesOf(t) = {<<i, j>>} /\ CatalogOf(t) = catalog[i].tables[j]
        BY <2>1, <3>3, EntryFound
      <3>5. AsRead(CatalogOf(t), t, "read")
        BY <3>3, <3>4 DEF IsEntry
      <3>6. IsSequence(t.cols)
        BY <2>1, <3>1, WantedFacts DEF Listing
      <3>7. QED
        BY <2>1, <3>4, <3>5, <3>6, ColumnsNamed
    <2>6. QED
      BY <2>3, <2>4, <2>5
  <1>2. SchemaInv => CatalogComplete
    BY <1>1 DEF CatalogComplete
  <1>3. QED
    BY <1>2, ScriptsOfCatalog, PTL

----------------------------------------------------------------------------
(* What is built *)

\* What an entry of the catalog that is read has of its table.
LEMMA EntryOf ==
    ASSUME NEW i, NEW j, NEW t, IsEntry(catalog, i, j, t, "read")
    PROVE  LET e == catalog[i].tables[j] IN
           catalog[i].name = SchemaOf(t) /\ e.name = FinalName(t) /\ e.children = t.children /\ e.indexes = ReadIndexes(t)
  <1> DEFINE e == catalog[i].tables[j]
  <1>1. catalog[i].name = SchemaOf(t) /\ AsRead(e, t, "read")
    BY Zenon DEF IsEntry
  <1> HIDE DEF e
  <1>2. e.name = NameAt(t, "read") /\ e.children = t.children /\ e.indexes = ReadIndexes(t)
    BY <1>1 DEF AsRead
  <1>3. NameAt(t, "read") = FinalName(t)
    BY DEF NameAt
  <1>4. QED
    BY <1>1, <1>2, <1>3 DEF e

\* Each entry is one of the tables wanted.
LEMMA EntryIsWanted ==
    ASSUME CatalogOfFirst(catalog, Len(Wanted), "read"), NEW i \in 1..Len(catalog), NEW j \in 1..Len(catalog[i].tables)
    PROVE  \E k \in 1..Len(Wanted) : IsEntry(catalog, i, j, Wanted[k], "read")
  BY DEF CatalogOfFirst, HoldsFirst

\* A partition has no entry of its own, and only PostgreSQL has partitions.
LEMMA EntryChildren ==
    ASSUME job \in Jobs, CatalogOfFirst(catalog, Len(Wanted), "read"),
           NEW i \in 1..Len(catalog), NEW j \in 1..Len(catalog[i].tables)
    PROVE  /\ \A h \in 1..Len(catalog) : \A k \in 1..Len(catalog[h].tables) :
                 catalog[h].tables[k].name \notin Elements(catalog[i].tables[j].children)
           /\ catalog[i].tables[j].children # <<>> => job.engine = "pgsql"
  <1>1. PICK m \in 1..Len(Wanted) : IsEntry(catalog, i, j, Wanted[m], "read")
    BY EntryIsWanted
  <1>2. catalog[i].tables[j].children = Wanted[m].children
    BY <1>1, EntryOf
  <1>3. ASSUME NEW h \in 1..Len(catalog), NEW k \in 1..Len(catalog[h].tables)
        PROVE  catalog[h].tables[k].name \notin Elements(catalog[i].tables[j].children)
    <2>1. PICK n \in 1..Len(Wanted) : IsEntry(catalog, h, k, Wanted[n], "read")
      BY EntryIsWanted
    <2>2. catalog[h].tables[k].name = FinalName(Wanted[n])
      BY <2>1, EntryOf
    <2>3. QED
      BY <1>2, <2>2, WantedFrom
  <1>4. QED
    BY <1>2, <1>3, WantedFrom

\* The fields that a statement of a table has.
LEMMA OfTableFields ==
    ASSUME NEW st, NEW s, NEW t, OfTable(st, s, t), IsSequence(t.children)
    PROVE  /\ st.schema = s /\ st.name = t.name /\ st.op \in {"drop", "truncate", "create", "partition"}
           /\ st.op = "partition" => st.arg \in Elements(t.children)
  <1>1. CASE st = Statement("drop", s, t.name, "")
    BY <1>1 DEF Statement
  <1>2. CASE st = Statement("truncate", s, t.name, "")
    BY <1>2 DEF Statement
  <1>3. CASE st = Statement("create", s, t.name, t)
    BY <1>3 DEF Statement
  <1>4. CASE \E i \in 1..Len(t.children) : st = Statement("partition", s, t.name, t.children[i])
    <2>1. PICK i \in 1..Len(t.children) : st = Statement("partition", s, t.name, t.children[i])
      BY <1>4
    <2>2. t.children[i] \in Elements(t.children)
      BY SequenceFacts
    <2> DEFINE child == t.children[i]
    <2>3. st = Statement("partition", s, t.name, child)
      BY <2>1
    <2> HIDE DEF child
    <2>4. st.schema = s /\ st.name = t.name /\ st.op = "partition" /\ st.arg = child
      BY <2>3 DEF Statement
    <2>5. QED
      BY <2>2, <2>4 DEF child
  <1>5. QED
    BY <1>1, <1>2, <1>3, <1>4, Zenon DEF OfTable

\* A statement of one table undoes none of another table of the load.
LEMMA TablesApart ==
    ASSUME job \in Jobs, CatalogOfFirst(catalog, Len(Wanted), "read"),
           NEW i \in 1..Len(catalog), NEW j \in 1..Len(catalog[i].tables),
           NEW h \in 1..Len(catalog), NEW k \in 1..Len(catalog[h].tables), i # h \/ j # k,
           NEW a, OfTable(a, catalog[i].name, catalog[i].tables[j]),
           NEW b, OfTable(b, catalog[h].name, catalog[h].tables[k])
    PROVE  ~Undoes(b, a)
  <1>1. IsSequence(catalog[i].tables[j].children) /\ IsSequence(catalog[h].tables[k].children)
    BY EntryLists
  <1>2. /\ a.schema = catalog[i].name /\ a.name = catalog[i].tables[j].name
        /\ a.op = "partition" => a.arg \in Elements(catalog[i].tables[j].children)
    BY <1>1, OfTableFields
  <1>3. b.schema = catalog[h].name /\ b.name = catalog[h].tables[k].name /\ b.op \in {"drop", "truncate", "create", "partition"}
    BY <1>1, OfTableFields
  <1>4. ~(b.schema = a.schema /\ b.name = a.name)
    <2>1. i = h => j # k
      OBVIOUS
    <2>2. catalog[i].name = catalog[h].name => i = h
      BY DEF CatalogOfFirst, Distinct
    <2>3. i = h /\ catalog[i].tables[j].name = catalog[h].tables[k].name => j = k
      BY DEF CatalogOfFirst, Distinct
    <2>4. QED
      BY <1>2, <1>3, <2>1, <2>2, <2>3
  <1>5. a.op = "partition" => b.name # a.arg
    BY <1>2, <1>3, EntryChildren
  <1>6. QED
    BY <1>3, <1>4, <1>5 DEF Undoes

\* A schema's tables: no DROP of one undoes what is built for another.
LEMMA OfTablesInOrder ==
    ASSUME job \in Jobs, CatalogOfFirst(catalog, Len(Wanted), "read"), NEW i \in 1..Len(catalog)
    PROVE  InOrder(OfTables(i))
  <1> DEFINE n == Len(catalog[i].tables)
             seqs == [j \in 1..n |-> PrepareTable(catalog[i].name, catalog[i].tables[j])]
  <1>1. n \in Nat /\ \A j \in 1..n : IsSequence(catalog[i].tables[j].children)
    BY EntryLists
  <1>2. DOMAIN seqs = 1..n /\ seqs = [j \in 1..n |-> seqs[j]]
        /\ \A j \in 1..n : seqs[j] = PrepareTable(catalog[i].name, catalog[i].tables[j])
    OBVIOUS
  <1>3. OfTables(i) = FlattenSeq(seqs)
    BY DEF OfTables
  <1>4. \A j \in 1..n : InOrder(PrepareTable(catalog[i].name, catalog[i].tables[j]))
    BY <1>1, PrepareTableFacts
  <1>5. ASSUME NEW j \in 1..n, NEW k \in 1..n, j < k, NEW a \in Elements(seqs[j]), NEW b \in Elements(seqs[k])
        PROVE  ~Undoes(b, a)
    <2>1. OfTable(a, catalog[i].name, catalog[i].tables[j]) /\ OfTable(b, catalog[i].name, catalog[i].tables[k])
      BY <1>1, <1>2, PrepareTableFacts
    <2>2. j # k
      BY <1>5
    <2>3. QED
      BY <2>1, <2>2, TablesApart
  <1> HIDE DEF seqs, n
  <1>6. \A j \in 1..n : InOrder(seqs[j])
    BY <1>2, <1>4
  <1>7. QED
    BY <1>1, <1>2, <1>3, <1>5, <1>6, JoinInOrder

\* The statements of a schema, and of all schemas, are in order: DROP TYPE comes
\* before the tables, and only the one schema of PostgreSQL has any.
LEMMA PrepareInOrder ==
    ASSUME job \in Jobs, CatalogOfFirst(catalog, Len(Wanted), "read")
    PROVE  InOrder(PrepareScript)
  <1> DEFINE n == Len(catalog)
             seqs == [i \in 1..n |-> Leading(i) \o OfTables(i)]
  <1>1. n \in Nat
    BY EntryLists
  <1>2. PrepareScript = FlattenSeq(seqs)
    BY DEF PrepareScript, Over, Leading, OfTables
  <1>3. DOMAIN seqs = 1..n /\ seqs = [i \in 1..n |-> seqs[i]] /\ \A i \in 1..n : seqs[i] = Leading(i) \o OfTables(i)
    OBVIOUS
  <1> HIDE DEF seqs
  <1>4. ASSUME NEW i \in 1..n
        PROVE  InOrder(seqs[i]) /\ Elements(seqs[i]) = Elements(Leading(i)) \cup Elements(OfTables(i))
    <2>1. Other(Leading(i)) /\ InOrder(OfTables(i))
      BY LeadingOther, OfTablesInOrder
    <2>2. InOrder(Leading(i)) /\ \A a \in Elements(Leading(i)) : \A b : ~Undoes(b, a)
      BY <2>1, OtherInOrder
    <2>3. IsSequence(Leading(i)) /\ IsSequence(OfTables(i))
      BY <2>1 DEF Other, InOrder
    <2>4. InOrder(Leading(i) \o OfTables(i))
      BY <2>1, <2>2, ConcatInOrder
    <2>5. Elements(Leading(i) \o OfTables(i)) = Elements(Leading(i)) \cup Elements(OfTables(i))
      BY <2>3, ConcatElements
    <2>6. QED
      BY <1>3, <2>4, <2>5
  <1>5. ASSUME NEW i \in 1..n, NEW h \in 1..n, i < h, NEW a \in Elements(seqs[i]), NEW b \in Elements(seqs[h])
        PROVE  ~Undoes(b, a)
    <2>1. i # h
      BY <1>5
    <2>2. job.engine = "mssql"
      <3>1. job.engine # "mssql" => n = 1
        BY DEF CatalogOfFirst, Distinct
      <3>2. 1..1 = {1}
        OBVIOUS
      <3> HIDE DEF n
      <3>3. QED
        BY <2>1, <3>1, <3>2
    <2>3. CASE a \in Elements(Leading(i))
      BY <2>3, LeadingOther, OtherInOrder
    <2>4. CASE b \in Elements(Leading(h))
      <3>1. Leading(h) = CreateSchema(catalog[h].name) \o <<>>
        BY <2>2 DEF Leading
      <3> DEFINE c == CreateSchema(catalog[h].name)
                 st == Statement("schema", "", catalog[h].name, "")
      <3>2. IsSequence(c) /\ Elements(c) \subseteq {st}
        <4>1. c = <<>> \/ c = <<st>>
          BY DEF CreateSchema
        <4> HIDE DEF c, st
        <4>2. QED
          BY <4>1, SingleElements, EmptySequence
      <3>3. st.op = "schema"
        BY DEF Statement
      <3> HIDE DEF c, st
      <3>4. IsSequence(<<>>) /\ Elements(<<>>) = {}
        BY EmptySequence
      <3>5. Elements(c \o <<>>) = Elements(c) \cup Elements(<<>>)
        BY <3>2, <3>4, ConcatElements
      <3>6. b.op = "schema"
        BY <2>4, <3>1, <3>2, <3>3, <3>4, <3>5 DEF c
      <3>7. QED
        BY <3>6 DEF Undoes
    <2>5. CASE a \in Elements(OfTables(i)) /\ b \in Elements(OfTables(h))
      <3>1. PICK j \in 1..Len(catalog[i].tables) : a \in Elements(PrepareTable(catalog[i].name, catalog[i].tables[j]))
        BY <2>5, OfTablesFacts
      <3>2. PICK k \in 1..Len(catalog[h].tables) : b \in Elements(PrepareTable(catalog[h].name, catalog[h].tables[k]))
        BY <2>5, OfTablesFacts
      <3>3. IsSequence(catalog[i].tables[j].children) /\ IsSequence(catalog[h].tables[k].children)
        BY EntryLists
      <3>4. OfTable(a, catalog[i].name, catalog[i].tables[j]) /\ OfTable(b, catalog[h].name, catalog[h].tables[k])
        BY <3>1, <3>2, <3>3, PrepareTableFacts
      <3>5. QED
        BY <2>1, <3>4, TablesApart
    <2>6. QED
      BY <1>4, <2>3, <2>4, <2>5
  <1> HIDE DEF n
  <1>6. QED
    BY <1>1, <1>2, <1>3, <1>4, <1>5, JoinInOrder

\* The indexes made of a list of the source.
LEMMA ListedFacts ==
    ASSUME NEW indexes, IsSequence(indexes)
    PROVE  /\ IsSequence(Listed(indexes)) /\ Len(Listed(indexes)) = Len(indexes)
           /\ \A x \in Elements(Listed(indexes)) : \E i \in 1..Len(indexes) :
                 x = CatalogIndex(indexes[i].name, indexes[i].kind, indexes[i].cols, <<>>)
  <1> DEFINE l == Listed(indexes)
             n == Len(indexes)
             f(i) == CatalogIndex(indexes[i].name, indexes[i].kind, indexes[i].cols, <<>>)
  <1>1. n \in Nat
    BY SequenceFacts
  <1>2. DOMAIN l = 1..n /\ l = [i \in 1..n |-> l[i]] /\ \A i \in 1..n : l[i] = f(i)
    BY DEF Listed
  <1> HIDE DEF l, n, f
  <1>3. IsSequence(l) /\ Len(l) = n /\ Elements(l) = {l[i] : i \in 1..n}
    BY <1>1, <1>2, MapElements, MakesSequence
  <1>4. \A x \in Elements(l) : \E i \in 1..n : x = f(i)
    BY <1>2, <1>3
  <1>5. QED
    BY <1>3, <1>4 DEF l, n, f

\* SQLite's indexes: those listed, and the one made for the key.
LEMMA SQLiteIndexFacts ==
    ASSUME NEW t, Listing(t)
    PROVE  /\ \A x \in Elements(SQLiteIndexes(t)) :
                 \/ x.primary
                 \/ \E i \in 1..Len(t.indexes) :
                       x = CatalogIndex(t.indexes[i].name, t.indexes[i].kind, t.indexes[i].cols, <<>>)
           /\ Missing(t) => Elements(SQLiteIndexes(t)) = {}
  <1> DEFINE n == Len(t.indexes)
             K == {i \in 1..n : t.indexes[i].kind \notin {"auto", "pk"}}
             kept == Filter(t.indexes, LAMBDA x : x.kind \notin {"auto", "pk"})
             own == Listed(kept)
             f(i) == CatalogIndex(t.indexes[i].name, t.indexes[i].kind, t.indexes[i].cols, <<>>)
             key == ColumnOrder(t)
             new == CatalogIndex(t.name \o "_pkey", "pk", key, <<>>)
  <1>0. IsSequence(t.indexes) /\ n \in Nat /\ IsSequence(t.cols) /\ Len(t.cols) \in Nat
    BY SequenceFacts DEF Listing
  <1>1. kept = Picked(t.indexes, K)
    <2>1. kept = FlattenSeq([i \in 1..n |-> IF t.indexes[i].kind \notin {"auto", "pk"} THEN <<t.indexes[i]>> ELSE <<>>])
      BY DEF Filter
    <2>2. [i \in 1..n |-> IF t.indexes[i].kind \notin {"auto", "pk"} THEN <<t.indexes[i]>> ELSE <<>>]
            = [i \in 1..n |-> IF i \in K THEN <<t.indexes[i]>> ELSE <<>>]
      OBVIOUS
    <2>3. QED
      BY <2>1, <2>2 DEF Picked
  <1>2. SQLiteIndexes(t) = EnsurePKIndex(t, own)
    BY DEF SQLiteIndexes
  <1>3. EnsurePKIndex(t, own) = own \/ (EnsurePKIndex(t, own) = Append(own, new) /\ key # <<>>)
    BY DEF EnsurePKIndex
  <1>4. new.primary
    BY DEF CatalogIndex
  <1> HIDE DEF K, kept
  <1>5. /\ IsSequence(kept)
        /\ \A p \in 1..Len(kept) : \E i \in 1..n : kept[p] = t.indexes[i]
    <2> DEFINE q == t.indexes
    <2>1. /\ IsSequence(Picked(q, K))
          /\ \A p \in 1..Len(Picked(q, K)) : \E i \in 1..Len(q) : i \in K /\ Picked(q, K)[p] = q[i]
      <3>1. IsSequence(q)
        BY <1>0
      <3> HIDE DEF q
      <3>2. QED
        BY <3>1, PickedFacts
    <2> HIDE DEF n
    <2>2. kept = Picked(q, K)
      BY <1>1
    <2>3. n = Len(q)
      BY DEF n
    <2> HIDE DEF q
    <2>4. \A p \in 1..Len(kept) : \E i \in 1..n : kept[p] = q[i]
      BY <2>1, <2>2, <2>3, Zenon
    <2>5. IsSequence(kept)
      BY <2>1, <2>2
    <2>6. QED
      BY <2>4, <2>5 DEF q
  <1>6. /\ IsSequence(own)
        /\ \A x \in Elements(own) : \E p \in 1..Len(kept) : x = CatalogIndex(kept[p].name, kept[p].kind, kept[p].cols, <<>>)
    BY <1>5, ListedFacts
  <1>7. \A x \in Elements(own) : \E i \in 1..n : x = f(i)
    <2> TAKE x \in Elements(own)
    <2>1. PICK p \in 1..Len(kept) : x = CatalogIndex(kept[p].name, kept[p].kind, kept[p].cols, <<>>)
      BY <1>6
    <2>2. PICK i \in 1..n : kept[p] = t.indexes[i]
      BY <1>5
    <2>3. QED
      BY <2>1, <2>2
  <1> HIDE DEF own, f, new, key
  <1>8. Append(own, new) = own \o <<new>>
    BY <1>6 DEF IsSequence
  <1>9. Elements(Append(own, new)) = Elements(own) \cup {new}
    <2>1. IsSequence(<<new>>) /\ Elements(<<new>>) = {new}
      BY SingleElements
    <2>2. QED
      BY <1>6, <1>8, <2>1, ConcatElements
  <1>10. \A x \in Elements(SQLiteIndexes(t)) : x \in Elements(own) \/ (x = new /\ key # <<>>)
    BY <1>2, <1>3, <1>9
  <1>11. ASSUME Missing(t) PROVE key = <<>>
    <2> DEFINE names == [i \in 1..Len(t.cols) |-> t.cols[i].name]
               parts == [i \in 1..Len(names) |-> IF Contains(KeyOf(t), names[i]) THEN <<names[i]>> ELSE <<>>]
    <2>1. key = FlattenSeq(parts)
      BY DEF key, ColumnOrder, Filter
    <2>2. Len(names) = 0
      <3>1. Len(t.cols) = 0 /\ 1..Len(t.cols) = {}
        BY <1>11, EmptySequence DEF Missing
      <3>2. DOMAIN names = 1..0 /\ names = [i \in 1..0 |-> names[i]]
        BY <3>1
      <3> HIDE DEF names
      <3>3. QED
        BY <3>2, MakesSequence
    <2>3. DOMAIN parts = 1..0 /\ parts = [i \in 1..0 |-> parts[i]] /\ 1..0 = {}
      BY <2>2
    <2> HIDE DEF parts
    <2>4. IsSequence(FlattenSeq(parts)) /\ Elements(FlattenSeq(parts)) = UNION {Elements(parts[i]) : i \in 1..0}
      BY <2>3, JoinElements
    <2>5. IsSequence(key) /\ Elements(key) = {}
      BY <2>1, <2>3, <2>4
    <2>6. Len(key) \in Nat /\ 1..Len(key) = {} /\ key \in Seq({})
      BY <2>5, SequenceFacts DEF IsSequence
    <2>7. QED
      BY <2>6
  <1>12. ASSUME Missing(t) PROVE Elements(SQLiteIndexes(t)) = {}
    <2>1. 1..n = {}
      BY <1>12, EmptySequence DEF Missing
    <2>2. QED
      BY <1>7, <1>10, <1>11, <1>12, <2>1
  <1>13. ASSUME NEW x \in Elements(SQLiteIndexes(t)), ~x.primary PROVE \E i \in 1..n : x = f(i)
    BY <1>4, <1>7, <1>10, <1>13
  <1>14. QED
    BY <1>12, <1>13 DEF f, n

\* Of a table, two indexes of one name that are not its key are the same; a
\* table that the source lacks has none.
LEMMA IndexNames ==
    ASSUME NEW t, Listing(t), \A i, k \in 1..Len(t.indexes) : t.indexes[i].name = t.indexes[k].name => i = k
    PROVE  \A x, y \in Elements(ReadIndexes(t)) : x.name = y.name /\ ~x.primary /\ ~y.primary => x = y
  <1> DEFINE f(i) == CatalogIndex(t.indexes[i].name, t.indexes[i].kind, t.indexes[i].cols, <<>>)
  <1>1. \A i, k \in 1..Len(t.indexes) : f(i).name = f(k).name => f(i) = f(k)
    <2>1. \A i \in 1..Len(t.indexes) : f(i).name = t.indexes[i].name
      BY DEF CatalogIndex
    <2> HIDE DEF f
    <2>2. QED
      BY <2>1
  <1> DEFINE n == Len(t.indexes)
  <1>2. CASE job.engine = "mssql"
    <2>1. ReadIndexes(t) = GroupRows(MSSQLIndexRows(t))
      BY <1>2 DEF ReadIndexes, MSSQLIndexes
    <2>2. QED
      BY <2>1, RowsSequence, GroupFacts
  <1>3. CASE job.engine # "mssql"
    <2>1. \A x \in Elements(ReadIndexes(t)) : ~x.primary => \E i \in 1..n : x = f(i)
      <3>1. CASE job.engine = "sqlite"
        <4>1. ReadIndexes(t) = SQLiteIndexes(t)
          BY <3>1 DEF ReadIndexes
        <4>2. QED
          BY <4>1, SQLiteIndexFacts
      <3>2. CASE job.engine # "sqlite"
        <4>1. ReadIndexes(t) = Listed(t.indexes)
          BY <1>3, <3>2 DEF ReadIndexes, MySQLIndexes, PgSQLIndexes
        <4>2. IsSequence(t.indexes)
          BY DEF Listing
        <4>3. QED
          BY <4>1, <4>2, ListedFacts
      <3>3. QED
        BY <3>1, <3>2
    <2> HIDE DEF f, n
    <2>2. \A i, k \in 1..n : f(i).name = f(k).name => f(i) = f(k)
      BY <1>1 DEF n
    <2>3. QED
      BY <2>1, <2>2
  <1>4. QED
    BY <1>2, <1>3

\* A table that the source does not have is read without indexes.
LEMMA MissingHasNone ==
    ASSUME NEW t, Listing(t), Missing(t)
    PROVE  Elements(ReadIndexes(t)) = {}
  <1>1. 1..Len(t.indexes) = {} /\ t.indexes = <<>> /\ IsSequence(t.indexes)
    BY EmptySequence DEF Missing, Listing
  <1>2. CASE job.engine = "mssql"
    <2>1. ReadIndexes(t) = GroupRows(MSSQLIndexRows(t))
      BY <1>2 DEF ReadIndexes, MSSQLIndexes
    <2>2. IsSequence(MSSQLIndexRows(t)) /\ 1..Len(MSSQLIndexRows(t)) = {}
      BY <1>1, RowsSequence
    <2> DEFINE given == MSSQLIndexRows(t)
    <2> HIDE DEF given
    <2>3. \A x \in Elements(GroupRows(given)) : \E i \in 1..Len(given) : TRUE
      BY <2>2, GroupFacts DEF given
    <2>4. QED
      BY <2>1, <2>2, <2>3 DEF given
  <1>3. CASE job.engine = "sqlite"
    <2>1. ReadIndexes(t) = SQLiteIndexes(t)
      BY <1>3 DEF ReadIndexes
    <2>2. QED
      BY <2>1, SQLiteIndexFacts
  <1>4. CASE job.engine \notin {"mssql", "sqlite"}
    <2>1. ReadIndexes(t) = Listed(t.indexes)
      BY <1>4 DEF ReadIndexes, MySQLIndexes, PgSQLIndexes
    <2>2. QED
      BY <1>1, <2>1, ListedFacts
  <1>5. QED
    BY <1>2, <1>3, <1>4

\* The statements that build what the run reads and is told to build.
Creates(st) ==
    /\ "CreateTables" \in job.opts
    /\ \E i \in 1..Len(catalog) : \E j \in 1..Len(catalog[i].tables) :
          \/ st = Statement("create", catalog[i].name, catalog[i].tables[j].name, catalog[i].tables[j])
          \/ \E k \in 1..Len(catalog[i].tables[j].children) :
                st = Statement("partition", catalog[i].name, catalog[i].tables[j].name, catalog[i].tables[j].children[k])
Completes(st) ==
    \/ /\ "CreateIndexes" \in job.opts
       /\ \E i \in 1..Len(catalog) : \E j \in 1..Len(catalog[i].tables) :
             \E x \in Elements(catalog[i].tables[j].indexes) : st = Statement("index", catalog[i].name, catalog[i].tables[j].name, x)
    \/ /\ "ForeignKeys" \in job.opts
       /\ \E i \in 1..Len(catalog) : \E j \in 1..Len(catalog[i].tables) :
             \E x \in Elements(catalog[i].tables[j].fkeys) : st = Statement("fkey", x.schema, x.on, x)
    \/ /\ "CreateTriggers" \in job.opts
       /\ \E i \in 1..Len(catalog) : \E j \in 1..Len(catalog[i].tables) :
             \E x \in Elements(catalog[i].tables[j].triggers) : st = Statement("trigger", catalog[i].name, catalog[i].tables[j].name, x)

\* What a statement was to build is there.
Made(st) ==
    /\ st.op = "create" => [schema |-> st.schema, name |-> st.name, parent |-> <<>>, cols |-> st.arg.cols] \in db.tables
    /\ st.op = "partition" =>
          [schema |-> "public", name |-> st.arg, parent |-> <<st.schema, st.name>>, cols |-> <<>>] \in db.tables
    /\ st.op = "index" => HasIndex(st.schema, st.name, st.arg)
    /\ st.op = "fkey" => st.arg \in db.fkeys
    /\ st.op = "trigger" => <<st.schema, st.name, st.arg.name>> \in db.triggers

\* Every index but a key is one that this source has, in a table that this run
\* or an earlier one named.
NameUnder(views, t) == IF <<t.schema, t.name>> \in views THEN Strip(t.name) ELSE t.name
IndexOfTable(y, views, t, x) ==
    /\ ~x.primary /\ y.schema = SchemaOf(t) /\ y.table = NameUnder(views, t)
    /\ y.name = x.name /\ y.cols = x.cols /\ y.unique = x.unique /\ y.filter = x.filter
OfSource(y) ==
    \E j \in Jobs :
        /\ j.engine = job.engine /\ j.schema = job.schema /\ j.tables = job.tables
        /\ \E t \in Elements(job.tables) : \E x \in Elements(ReadIndexes(t)) : IndexOfTable(y, j.views, t, x)
IndexesOfSource == job.engine # "pgsql" => \A y \in db.indexes : y.primary \/ OfSource(y)

\* Each statement of the run is still to come, or has built what it was to and
\* nothing to come undoes it.
TablesToBuild ==
    /\ InOrder(script)
    /\ \A st \in Elements(script) : st.op \notin {"index", "fkey", "trigger"}
    /\ \A a : Creates(a) => a \in Elements(script) \/ (Made(a) /\ \A b \in Elements(script) : ~Undoes(b, a))
RestToBuild ==
    /\ \A st \in Elements(script) : Completes(st)
    /\ \A a : Completes(a) => a \in Elements(script) \/ Made(a)
ToBuild ==
    /\ pc = "prepare" => TablesToBuild
    /\ pc \in {"complete", "done"} => \A a : Creates(a) => Made(a)
    /\ pc = "complete" => RestToBuild
    /\ pc = "done" => \A a : Completes(a) => Made(a)

BuildInv == SchemaInv /\ IndexesOfSource /\ ToBuild

\* The statements that the run is told to make have these fields.
LEMMA CreatesFields ==
    ASSUME NEW st, Creates(st)
    PROVE  st.op \in {"create", "partition"}
  <1>1. \E s, name, arg : st = Statement("create", s, name, arg) \/ st = Statement("partition", s, name, arg)
    BY Zenon DEF Creates
  <1>2. QED
    BY <1>1 DEF Statement

\* Nor do CompleteTarget's have others.
LEMMA CompletesFields ==
    ASSUME NEW st, Completes(st)
    PROVE  st.op \in {"index", "fkey", "trigger"}
  <1>1. \E s, name, arg : \/ st = Statement("index", s, name, arg) \/ st = Statement("fkey", s, name, arg)
                            \/ st = Statement("trigger", s, name, arg)
    BY Zenon DEF Completes
  <1>2. QED
    BY <1>1 DEF Statement

\* The catalog and the settings say what is to be built.
LEMMA BuildStays ==
    ASSUME job' = job, catalog' = catalog, NEW st
    PROVE  (Creates(st)' <=> Creates(st)) /\ (Completes(st)' <=> Completes(st))
  BY DEF Creates, Completes, Statement

\* What the source has does not change from run to run.
LEMMA SourceStays ==
    ASSUME job'.engine = job.engine, job'.schema = job.schema, job'.tables = job.tables, NEW y
    PROVE  OfSource(y)' <=> OfSource(y)
  <1>1. ASSUME NEW t PROVE ReadIndexes(t)' = ReadIndexes(t) /\ SchemaOf(t)' = SchemaOf(t)
    <2>1. ReadIndexes(t)' = ReadIndexes(t)
      BY DEF ReadIndexes
    <2>2. SchemaOf(t)' = SchemaOf(t)
      BY DEF SchemaOf
    <2>3. QED
      BY <2>1, <2>2
  <1>2. \A views, t, x : IndexOfTable(y, views, t, x)' <=> IndexOfTable(y, views, t, x)
    BY <1>1 DEF IndexOfTable
  <1>3. QED
    BY <1>1, <1>2 DEF OfSource

\* Under the names of two runs of one source a table's name is still its own.
LEMMA SameTable ==
    ASSUME job \in Jobs, NEW r \in Jobs, r.engine = job.engine, r.schema = job.schema, r.tables = job.tables,
           NEW t \in Elements(job.tables), NEW u \in Elements(job.tables),
           SchemaOf(t) = SchemaOf(u), FinalName(t) = NameUnder(r.views, u)
    PROVE  t = u
  <1>1. \A n : Strip(Strip(n)) = Strip(n) /\ \A m : Strip(m) # m /\ Strip(n) # n => m = n
    BY DEF Strip
  <1>2. t.schema = u.schema
    BY SourcesAssumption DEF SourcesAssumption, SchemaOf
  <1>3. \A j \in Jobs : \A i, k \in 1..Len(j.tables) :
            j.tables[i].schema = j.tables[k].schema /\ NameUnder(j.views, j.tables[i]) = NameUnder(j.views, j.tables[k]) => i = k
    BY SourcesAssumption DEF SourcesAssumption, NameUnder
  <1>4. PICK i \in 1..Len(job.tables) : job.tables[i] = t
    BY TableFacts, SequenceFacts
  <1>5. PICK k \in 1..Len(job.tables) : job.tables[k] = u
    BY TableFacts, SequenceFacts
  <1>6. NameUnder(job.views, t) = NameUnder(job.views, u) => t = u
    BY <1>2, <1>3, <1>4, <1>5
  <1>7. NameUnder(r.views, t) = NameUnder(r.views, u) => t = u
    BY <1>2, <1>3, <1>4, <1>5
  <1>8. NameUnder(job.views, t) = NameUnder(r.views, u)
    BY DEF FinalName, NameUnder
  <1> DEFINE nt == NameUnder(job.views, t)
             nu == NameUnder(r.views, u)
             ot == NameUnder(r.views, t)
             ou == NameUnder(job.views, u)
             n == t.name
             m == u.name
  <1>9. nt \in {n, Strip(n)} /\ ot \in {n, Strip(n)} /\ nu \in {m, Strip(m)} /\ ou \in {m, Strip(m)}
    BY DEF NameUnder
  <1>10. n = m => nt = ou
    BY <1>2 DEF NameUnder
  <1> HIDE DEF nt, nu, ot, ou
  <1>11. nt = ou \/ ot = nu
    BY <1>1, <1>8, <1>9, <1>10 DEF nt, nu
  <1>12. QED
    BY <1>6, <1>7, <1>11 DEF nt, nu, ot, ou

\* No statement but CREATE INDEX adds an index.
LEMMA StepIndexes ==
    ASSUME NEW st, NEW y \in After(st).indexes, y \notin db.indexes
    PROVE  st.op = "index" /\ y = BuiltIndex(st)
  <1>1. \A s, name : WithoutTable(s, name).indexes \subseteq db.indexes
    BY DEF WithoutTable
  <1>2. \A name : WithoutType(name).indexes \subseteq db.indexes
    BY DEF WithoutType
  <1>3. QED
    BY <1>1, <1>2 DEF After

\* The indexes to build are those read of the source's tables.
LEMMA IndexStatement ==
    ASSUME job \in Jobs, CatalogOfFirst(catalog, Len(Wanted), "read"), NEW st, Completes(st), st.op = "index"
    PROVE  \E t \in Elements(job.tables) : \E x \in Elements(ReadIndexes(t)) :
              st = Statement("index", SchemaOf(t), FinalName(t), x)
  <1>1. \A s, name, arg : Statement("fkey", s, name, arg).op # "index" /\ Statement("trigger", s, name, arg).op # "index"
    BY DEF Statement
  <1>2. \E i \in 1..Len(catalog) : \E j \in 1..Len(catalog[i].tables) :
           \E x \in Elements(catalog[i].tables[j].indexes) : st = Statement("index", catalog[i].name, catalog[i].tables[j].name, x)
    BY <1>1, Zenon DEF Completes
  <1>3. PICK i \in 1..Len(catalog) : \E j \in 1..Len(catalog[i].tables) :
           \E x \in Elements(catalog[i].tables[j].indexes) : st = Statement("index", catalog[i].name, catalog[i].tables[j].name, x)
    BY <1>2
  <1>4. PICK j \in 1..Len(catalog[i].tables) :
           \E x \in Elements(catalog[i].tables[j].indexes) : st = Statement("index", catalog[i].name, catalog[i].tables[j].name, x)
    BY <1>3
  <1>5. PICK x \in Elements(catalog[i].tables[j].indexes) : st = Statement("index", catalog[i].name, catalog[i].tables[j].name, x)
    BY <1>4
  <1>6. PICK k \in 1..Len(Wanted) : IsEntry(catalog, i, j, Wanted[k], "read")
    BY EntryIsWanted
  <1>7. /\ catalog[i].name = SchemaOf(Wanted[k]) /\ catalog[i].tables[j].name = FinalName(Wanted[k])
        /\ catalog[i].tables[j].indexes = ReadIndexes(Wanted[k])
    BY <1>6, EntryOf
  <1>8. Wanted[k] \in Elements(job.tables)
    <2>1. Listing(Wanted[k])
      BY WantedFacts
    <2>2. ~Missing(Wanted[k])
      BY <1>5, <1>7, <2>1, MissingHasNone
    <2>3. QED
      BY <2>2, WantedFrom
  <1>9. x \in Elements(ReadIndexes(Wanted[k])) /\ st = Statement("index", SchemaOf(Wanted[k]), FinalName(Wanted[k]), x)
    BY <1>5, <1>7
  <1>10. QED
    BY <1>8, <1>9, Zenon

\* What a run builds is an index of its source.
LEMMA BuiltOfSource ==
    ASSUME job \in Jobs, CatalogOfFirst(catalog, Len(Wanted), "read"), job.engine # "pgsql",
           NEW st, Completes(st), st.op = "index"
    PROVE  BuiltIndex(st).primary \/ OfSource(BuiltIndex(st))
  <1>1. PICK t \in Elements(job.tables) : \E x \in Elements(ReadIndexes(t)) :
            st = Statement("index", SchemaOf(t), FinalName(t), x)
    BY IndexStatement
  <1>2. PICK x \in Elements(ReadIndexes(t)) : st = Statement("index", SchemaOf(t), FinalName(t), x)
    BY <1>1
  <1> DEFINE y == BuiltIndex(st)
  <1>3. st.schema = SchemaOf(t) /\ st.name = FinalName(t) /\ st.arg = x
    BY <1>2 DEF Statement
  <1>4. y.primary <=> x.primary
    BY <1>3, Zenon DEF BuiltIndex
  <1>5. CASE ~x.primary
    <2>1. IndexName(st) = x.name
      BY <1>3, <1>5, Zenon DEF IndexName
    <2>2. y.schema = SchemaOf(t) /\ y.table = FinalName(t) /\ y.name = x.name /\ y.cols = x.cols
          /\ y.unique = x.unique /\ y.filter = x.filter
      BY <1>3, <2>1 DEF BuiltIndex
    <2> HIDE DEF y
    <2>3. FinalName(t) = NameUnder(job.views, t)
      BY DEF FinalName, NameUnder
    <2>4. IndexOfTable(y, job.views, t, x)
      BY <1>5, <2>2, <2>3 DEF IndexOfTable
    <2>5. OfSource(y)
      BY <2>4 DEF OfSource
    <2>6. QED
      BY <2>5 DEF y
  <1>6. QED
    BY <1>4, <1>5

\* CREATE INDEX leaves the index built, or passes over a name that is taken; an
\* index of that name in the same table is the same one.
LEMMA MakesIndex ==
    ASSUME job \in Jobs, CatalogOfFirst(catalog, Len(Wanted), "read"), IndexesOfSource,
           NEW st, Completes(st), st.op = "index", job' = job, db' = After(st)
    PROVE  HasIndex(st.schema, st.name, st.arg)'
  <1> DEFINE x == st.arg
             y == BuiltIndex(st)
  <1>1. CASE ~Skipped(st)
    <2>1. y \in db'.indexes
      BY <1>1 DEF After
    <2>2. y.schema = st.schema /\ y.table = st.name /\ y.cols = x.cols /\ y.unique = x.unique /\ y.filter = x.filter
      BY DEF BuiltIndex
    <2> HIDE DEF y
    <2>3. QED
      BY <2>1, <2>2 DEF HasIndex
  <1>2. CASE Skipped(st)
    <2>1. db' = db
      BY <1>2 DEF After
    <2>2. job.engine # "pgsql" /\ ~x.primary /\ NameTaken(st.schema, x.name)
      BY <1>2 DEF Skipped
    <2>3. CASE TablesAt(st.schema, x.name) # {} \/ <<st.schema, x.name>> \in db.seqs
      BY <2>1, <2>2, <2>3 DEF HasIndex, TablesAt
    <2>4. CASE \E o \in db.indexes : o.schema = st.schema /\ o.name = x.name
      <3>1. PICK o \in db.indexes : o.schema = st.schema /\ o.name = x.name
        BY <2>4
      <3>2. CASE o.table # st.name \/ o.primary
        BY <2>1, <2>2, <3>1, <3>2 DEF HasIndex
      <3>3. CASE o.table = st.name /\ ~o.primary
        <4>1. OfSource(o)
          BY <2>2, <3>3 DEF IndexesOfSource
        <4>2. PICK t \in Elements(job.tables) : \E z \in Elements(ReadIndexes(t)) :
                  st = Statement("index", SchemaOf(t), FinalName(t), z)
          BY IndexStatement
        <4>3. PICK z \in Elements(ReadIndexes(t)) : st = Statement("index", SchemaOf(t), FinalName(t), z)
          BY <4>2
        <4>4. st.schema = SchemaOf(t) /\ st.name = FinalName(t) /\ x = z
          BY <4>3 DEF Statement
        <4>5. PICK r \in Jobs :
                  /\ r.engine = job.engine /\ r.schema = job.schema /\ r.tables = job.tables
                  /\ \E u \in Elements(job.tables) : \E v \in Elements(ReadIndexes(u)) : IndexOfTable(o, r.views, u, v)
          BY <4>1 DEF OfSource
        <4>6. PICK u \in Elements(job.tables) : \E v \in Elements(ReadIndexes(u)) : IndexOfTable(o, r.views, u, v)
          BY <4>5
        <4>7. PICK v \in Elements(ReadIndexes(u)) : IndexOfTable(o, r.views, u, v)
          BY <4>6
        <4>8. /\ ~v.primary /\ o.schema = SchemaOf(u) /\ o.table = NameUnder(r.views, u)
              /\ o.name = v.name /\ o.cols = v.cols /\ o.unique = v.unique /\ o.filter = v.filter
          BY <4>7 DEF IndexOfTable
        <4>9. SchemaOf(t) = SchemaOf(u) /\ FinalName(t) = NameUnder(r.views, u)
          BY <3>1, <3>3, <4>4, <4>8
        <4>10. t = u
          BY <4>5, <4>9, SameTable
        <4>11. Listing(t) /\ \A i, k \in 1..Len(t.indexes) : t.indexes[i].name = t.indexes[k].name => i = k
          <5>1. Listing(t)
            BY TableFacts
          <5>2. \A i, k \in 1..Len(t.indexes) : t.indexes[i].name = t.indexes[k].name => i = k
            BY SourcesAssumption DEF SourcesAssumption
          <5>3. QED
            BY <5>1, <5>2
        <4>12. z = v
          <5>1. v \in Elements(ReadIndexes(t)) /\ z.name = v.name /\ ~z.primary
            BY <2>2, <3>1, <4>4, <4>8, <4>10
          <5>2. QED
            BY <4>8, <4>11, <5>1, IndexNames
        <4> HIDE DEF x
        <4>13. o.cols = x.cols /\ o.unique = x.unique /\ o.filter = x.filter
          BY <4>4, <4>8, <4>12
        <4>14. o \in db'.indexes
          BY <2>1
        <4>15. QED
          BY <3>1, <3>3, <4>13, <4>14 DEF HasIndex, x
      <3>4. QED
        BY <3>2, <3>3
    <2>5. QED
      BY <2>2, <2>3, <2>4 DEF NameTaken
  <1>3. QED
    BY <1>1, <1>2

\* A table that is built stays, but for a statement that undoes it.
LEMMA TablesStay ==
    ASSUME NEW a, a.op \in {"create", "partition"}, Made(a), NEW b, ~Undoes(b, a), db' = After(b)
    PROVE  Made(a)'
  <1> DEFINE table == [schema |-> a.schema, name |-> a.name, parent |-> <<>>, cols |-> a.arg.cols]
             part == [schema |-> "public", name |-> a.arg, parent |-> <<a.schema, a.name>>, cols |-> <<>>]
  <1>1. ASSUME NEW t \in db.tables,
               \/ t = table /\ a.op = "create"
               \/ t = part /\ a.op = "partition"
        PROVE  t \in After(b).tables
    <2>1. CASE b.op = "drop"
      <3>1. ~(t.schema = b.schema /\ t.name = b.name) /\ t.parent # <<b.schema, b.name>>
        <4>1. CASE t = table /\ a.op = "create"
          <5>1. t.schema = a.schema /\ t.name = a.name /\ t.parent = <<>>
            BY <4>1
          <5>2. <<>> # <<b.schema, b.name>>
            OBVIOUS
          <5>3. QED
            BY <2>1, <4>1, <5>1, <5>2 DEF Undoes
        <4>2. CASE t = part /\ a.op = "partition"
          <5>1. t.schema = "public" /\ t.name = a.arg /\ t.parent = <<a.schema, a.name>>
            BY <4>2
          <5>2. ~(b.schema = a.schema /\ b.name = a.name) /\ ~(b.schema = "public" /\ b.name = a.arg)
            BY <2>1, <4>2, Zenon DEF Undoes
          <5>3. QED
            BY <5>1, <5>2
        <4>3. QED
          BY <1>1, <4>1, <4>2
      <3>2. t \in WithoutTable(b.schema, b.name).tables
        BY <3>1 DEF WithoutTable
      <3>3. QED
        BY <2>1, <3>2 DEF After
    <2>2. CASE b.op = "dropType"
      <3>1. CASE a.op = "create"
        BY <2>2, <3>1 DEF Undoes
      <3>2. CASE t = part /\ a.op = "partition"
        <4> DEFINE name == b.name
                   none == [i \in 1..Len(t.cols) |-> IF t.cols[i].utype # name THEN <<t.cols[i]>> ELSE <<>>]
                   kept == FlattenSeq(none)
        <4>1. t.cols = <<>> /\ 1..Len(<<>>) = 1..0 /\ 1..0 = {}
          BY <3>2, EmptySequence
        <4>2. DOMAIN none = 1..0 /\ none = [i \in 1..0 |-> none[i]]
          BY <4>1
        <4> HIDE DEF none
        <4>3. IsSequence(kept) /\ Elements(kept) = UNION {Elements(none[i]) : i \in 1..0}
          BY <4>1, <4>2, JoinElements
        <4>4. IsSequence(kept) /\ Elements(kept) = {}
          BY <4>1, <4>3
        <4>5. kept = <<>>
          <5>1. Len(kept) \in Nat /\ 1..Len(kept) = {} /\ kept \in Seq({})
            BY <4>4, SequenceFacts DEF IsSequence
          <5>2. QED
            BY <5>1
        <4>6. [t EXCEPT !.cols = kept] \in WithoutType(name).tables
          <5>1. WithoutType(name).tables = {[u EXCEPT !.cols = Filter(u.cols, LAMBDA c : c.utype # name)] : u \in db.tables}
            BY DEF WithoutType
          <5>2. kept = Filter(t.cols, LAMBDA c : c.utype # name)
            BY DEF Filter, none
          <5> HIDE DEF kept
          <5>3. QED
            BY <5>1, <5>2
        <4>7. [t EXCEPT !.cols = kept] = t
          BY <3>2, <4>5
        <4>8. t \in WithoutType(name).tables
          BY <4>6, <4>7
        <4>9. QED
          BY <2>2, <4>8 DEF After
      <3>3. QED
        BY <1>1, <3>1, <3>2
    <2>3. CASE b.op \notin {"drop", "dropType"}
      BY <2>3 DEF After
    <2>4. QED
      BY <2>1, <2>2, <2>3
  <1>2. a.op = "create" => table \in db'.tables
    BY <1>1 DEF Made
  <1>3. a.op = "partition" => part \in db'.tables
    BY <1>1 DEF Made
  <1>4. QED
    BY <1>2, <1>3 DEF Made

\* CompleteTarget's statements take nothing away.
LEMMA AllStays ==
    ASSUME NEW a, Made(a), NEW b, b.op \in {"index", "fkey", "trigger"}, db' = After(b), job' = job
    PROVE  Made(a)'
  <1>1. /\ db'.tables = db.tables /\ db'.seqs = db.seqs
        /\ db.indexes \subseteq db'.indexes /\ db.fkeys \subseteq db'.fkeys /\ db.triggers \subseteq db'.triggers
    <2>1. CASE b.op = "index"
      BY <2>1 DEF After
    <2>2. CASE b.op = "fkey"
      BY <2>2 DEF After
    <2>3. CASE b.op = "trigger"
      BY <2>3 DEF After
    <2>4. QED
      BY <2>1, <2>2, <2>3
  <1>2. ASSUME NEW s, NEW name, NEW x, HasIndex(s, name, x)
        PROVE  HasIndex(s, name, x)'
    <2>1. \A n : TablesAt(s, n) = TablesAt(s, n)'
      BY <1>1 DEF TablesAt
    <2>2. QED
      BY <1>1, <1>2, <2>1 DEF HasIndex
  <1>3. a.op = "index" => HasIndex(a.schema, a.name, a.arg)'
    BY <1>2 DEF Made
  <1>4. QED
    BY <1>1, <1>3 DEF Made

\* A statement that is not refused builds what it is to build.
LEMMA Makes ==
    ASSUME job \in Jobs, CatalogOfFirst(catalog, Len(Wanted), "read"), IndexesOfSource,
           NEW st, Creates(st) \/ Completes(st), job' = job, db' = After(st)
    PROVE  Made(st)'
  <1>1. st.op \in {"create", "partition", "index", "fkey", "trigger"}
    BY CreatesFields, CompletesFields
  <1>2. CASE st.op = "create"
    <2>1. [schema |-> st.schema, name |-> st.name, parent |-> <<>>, cols |-> st.arg.cols] \in db'.tables
      BY <1>2 DEF After
    <2>2. QED
      BY <1>2, <2>1 DEF Made
  <1>3. CASE st.op = "partition"
    <2>1. [schema |-> "public", name |-> st.arg, parent |-> <<st.schema, st.name>>, cols |-> <<>>] \in db'.tables
      BY <1>3 DEF After
    <2>2. QED
      BY <1>3, <2>1 DEF Made
  <1>4. CASE st.op = "index"
    <2>1. Completes(st)
      BY <1>4, CreatesFields
    <2>2. HasIndex(st.schema, st.name, st.arg)'
      BY <1>4, <2>1, MakesIndex
    <2>3. QED
      BY <1>4, <2>2 DEF Made
  <1>5. CASE st.op = "fkey"
    <2>1. st.arg \in db'.fkeys
      BY <1>5 DEF After
    <2>2. QED
      BY <1>5, <2>1 DEF Made
  <1>6. CASE st.op = "trigger"
    <2>1. <<st.schema, st.name, st.arg.name>> \in db'.triggers
      BY <1>6 DEF After
    <2>2. QED
      BY <1>6, <2>1 DEF Made
  <1>7. QED
    BY <1>1, <1>2, <1>3, <1>4, <1>5, <1>6

\* The first statement of a script, and the rest.
LEMMA HeadAndTail ==
    ASSUME NEW s, IsSequence(s), s # <<>>
    PROVE  /\ IsSequence(Tail(s)) /\ Head(s) \in Elements(s)
           /\ \A a \in Elements(Tail(s)) : a \in Elements(s)
           /\ \A a \in Elements(s) : a = Head(s) \/ a \in Elements(Tail(s))
           /\ InOrder(s) => InOrder(Tail(s)) /\ \A b \in Elements(Tail(s)) : ~Undoes(b, Head(s))
  <1> DEFINE n == Len(s)
             r == Tail(s)
             h == Head(s)
  <1>1. /\ IsSequence(r) /\ Len(r) = n - 1 /\ n \in Nat /\ n >= 1
        /\ h = s[1] /\ \A i \in 1..(n - 1) : r[i] = s[i + 1]
    BY SequenceTail, SequenceFacts
  <1>2. \A i \in 1..n : s[i] \in Elements(s)
    BY SequenceFacts
  <1>3. \A i \in 1..Len(r) : r[i] \in Elements(r)
    BY <1>1, SequenceFacts
  <1>4. \A a \in Elements(r) : \E i \in 1..Len(r) : r[i] = a
    BY <1>1, SequenceFacts
  <1>5. \A a \in Elements(s) : \E i \in 1..n : s[i] = a
    BY SequenceFacts
  <1> HIDE DEF n, r, h
  <1>6. /\ \A i \in 1..(n - 1) : i + 1 \in 1..n /\ 1 < i + 1
        /\ \A i, k \in 1..(n - 1) : i < k => i + 1 < k + 1
        /\ \A i \in 1..n : i # 1 => i - 1 \in 1..(n - 1) /\ (i - 1) + 1 = i
        /\ 1 \in 1..n
    BY <1>1
  <1>7. h \in Elements(s)
    BY <1>1, <1>2, <1>6
  <1>8. ASSUME NEW a \in Elements(r) PROVE a \in Elements(s)
    <2>1. PICK i \in 1..(n - 1) : r[i] = a
      BY <1>1, <1>4
    <2>2. s[i + 1] = a /\ i + 1 \in 1..n
      BY <1>1, <1>6, <2>1
    <2>3. QED
      BY <1>2, <2>2
  <1>9. ASSUME NEW a \in Elements(s) PROVE a = h \/ a \in Elements(r)
    <2>1. PICK i \in 1..n : s[i] = a
      BY <1>5
    <2>2. CASE i = 1
      BY <1>1, <2>1, <2>2
    <2>3. CASE i # 1
      <3> DEFINE k == i - 1
      <3>1. k \in 1..(n - 1) /\ k + 1 = i
        BY <1>6, <2>3
      <3> HIDE DEF k
      <3>2. r[k] = a
        BY <1>1, <2>1, <3>1
      <3>3. QED
        BY <1>1, <1>3, <3>1, <3>2
    <2>4. QED
      BY <2>2, <2>3
  <1>10. ASSUME InOrder(s) PROVE InOrder(r) /\ \A b \in Elements(r) : ~Undoes(b, h)
    <2>1. \A p, q \in 1..n : p < q => ~Undoes(s[q], s[p])
      BY <1>10 DEF InOrder, n
    <2>2. ASSUME NEW p \in 1..(n - 1), NEW q \in 1..(n - 1), p < q PROVE ~Undoes(r[q], r[p])
      <3>1. p + 1 \in 1..n /\ q + 1 \in 1..n /\ p + 1 < q + 1
        BY <1>6, <2>2
      <3>2. ~Undoes(s[q + 1], s[p + 1])
        BY <2>1, <3>1
      <3>3. QED
        BY <1>1, <3>2
    <2>3. ASSUME NEW b \in Elements(r) PROVE ~Undoes(b, h)
      <3>1. PICK i \in 1..(n - 1) : r[i] = b
        BY <1>1, <1>4
      <3>2. i + 1 \in 1..n /\ 1 < i + 1 /\ 1 \in 1..n
        BY <1>6
      <3>3. ~Undoes(s[i + 1], s[1])
        BY <2>1, <3>2
      <3>4. QED
        BY <1>1, <3>1, <3>3
    <2>4. QED
      BY <1>1, <2>2, <2>3 DEF InOrder
  <1>11. QED
    BY <1>1, <1>7, <1>8, <1>9, <1>10 DEF r, h

\* A statement that leaves the target as it is, or builds what it is to build,
\* leaves only what is still to come.
LEMMA PrepareStep ==
    ASSUME job \in Jobs, CatalogOfFirst(catalog, Len(Wanted), "read"), IndexesOfSource, TablesToBuild,
           script # <<>>, script' = Tail(script), job' = job, catalog' = catalog,
           \/ db' = After(Head(script))
           \/ db' = db /\ Head(script).op = "dropType"
    PROVE  TablesToBuild'
  <1> DEFINE st == Head(script)
  <1>1. IsSequence(script) /\ InOrder(script)
    BY DEF TablesToBuild, InOrder
  <1>2. /\ InOrder(script') /\ \A b \in Elements(script') : b \in Elements(script) /\ ~Undoes(b, st)
        /\ \A a \in Elements(script) : a = st \/ a \in Elements(script')
        /\ st \in Elements(script)
    BY <1>1, HeadAndTail
  <1>3. \A b \in Elements(script') : b.op \notin {"index", "fkey", "trigger"}
    BY <1>2 DEF TablesToBuild
  <1>4. ASSUME NEW a, Creates(a), a \notin Elements(script')
        PROVE  Made(a)' /\ \A b \in Elements(script') : ~Undoes(b, a)
    <2>1. CASE a = st
      <3>1. db' = After(a)
        BY <1>4, <2>1, CreatesFields
      <3>2. Made(a)'
        BY <1>4, <3>1, Makes
      <3>3. QED
        BY <1>2, <2>1, <3>2
    <2>2. CASE a # st
      <3>1. Made(a) /\ \A b \in Elements(script) : ~Undoes(b, a)
        BY <1>2, <1>4, <2>2 DEF TablesToBuild
      <3>2. ~Undoes(st, a)
        BY <1>2, <3>1
      <3>3. CASE db' = After(st)
        BY <1>2, <1>4, <3>1, <3>2, <3>3, CreatesFields, TablesStay
      <3>4. CASE db' = db
        <4>1. Made(a)'
          BY <1>4, <3>1, <3>4, CreatesFields DEF Made
        <4>2. QED
          BY <1>2, <3>1, <4>1
      <3>5. QED
        BY <3>3, <3>4
    <2>3. QED
      BY <2>1, <2>2
  <1>5. \A a : Creates(a)' => Creates(a)
    BY BuildStays
  <1>6. QED
    BY <1>2, <1>3, <1>4, <1>5 DEF TablesToBuild, Undoes

\* The same of the second script, which takes nothing away.
LEMMA CompleteStep ==
    ASSUME job \in Jobs, CatalogOfFirst(catalog, Len(Wanted), "read"), IndexesOfSource, RestToBuild,
           \A a : Creates(a) => Made(a), IsSequence(script),
           script # <<>>, script' = Tail(script), job' = job, catalog' = catalog, db' = After(Head(script))
    PROVE  RestToBuild' /\ \A a : Creates(a)' => Made(a)'
  <1>0. PICK st : st = Head(script)
    OBVIOUS
  <1>1. /\ \A b \in Elements(script') : b \in Elements(script)
        /\ \A a \in Elements(script) : a = st \/ a \in Elements(script')
        /\ st \in Elements(script)
    BY <1>0, HeadAndTail
  <1>2. Completes(st) /\ st.op \in {"index", "fkey", "trigger"}
    BY <1>1, CompletesFields DEF RestToBuild
  <1>3. \A a : Made(a) => Made(a)'
    BY <1>0, <1>2, AllStays
  <1>4. Made(st)'
    <2>1. db' = After(st)
      BY <1>0
    <2>2. QED
      BY <1>2, <2>1, Makes
  <1>5. \A a : (Creates(a)' <=> Creates(a)) /\ (Completes(a)' <=> Completes(a))
    BY BuildStays
  <1>6. \A a \in Elements(script') : Completes(a)'
    BY <1>1, <1>5 DEF RestToBuild
  <1>7. ASSUME NEW a, Completes(a) PROVE a \in Elements(script') \/ Made(a)'
    <2>1. CASE Made(a)
      BY <1>3, <2>1
    <2>2. CASE a \in Elements(script)
      BY <1>1, <1>4, <2>2
    <2>3. QED
      BY <1>7, <2>1, <2>2 DEF RestToBuild
  <1>8. RestToBuild'
    BY <1>5, <1>6, <1>7 DEF RestToBuild
  <1>9. QED
    BY <1>3, <1>5, <1>8

\* A statement leaves no index that the source has not.
LEMMA IndexStep ==
    ASSUME job \in Jobs, CatalogOfFirst(catalog, Len(Wanted), "read"), IndexesOfSource, NEW st,
           st.op = "index" => Completes(st), job' = job, db' = After(st)
    PROVE  IndexesOfSource'
  <1>1. ASSUME job.engine # "pgsql", NEW y \in db'.indexes PROVE y.primary \/ OfSource(y)
    <2>1. CASE y \in db.indexes
      BY <1>1, <2>1 DEF IndexesOfSource
    <2>2. CASE y \notin db.indexes
      <3>1. st.op = "index" /\ y = BuiltIndex(st)
        BY <1>1, <2>2, StepIndexes
      <3>2. BuiltIndex(st).primary \/ OfSource(BuiltIndex(st))
        BY <1>1, <3>1, BuiltOfSource
      <3>3. QED
        BY <3>1, <3>2
    <2>3. QED
      BY <2>1, <2>2
  <1>2. \A y : OfSource(y)' <=> OfSource(y)
    BY SourceStays
  <1>3. QED
    BY <1>1, <1>2 DEF IndexesOfSource

\* Nor does a step that leaves the target as it is.
LEMMA IndexesStay ==
    ASSUME IndexesOfSource, db' = db, job'.engine = job.engine, job'.schema = job.schema, job'.tables = job.tables
    PROVE  IndexesOfSource'
  <1>1. \A y : OfSource(y)' <=> OfSource(y)
    BY SourceStays
  <1>2. QED
    BY <1>1 DEF IndexesOfSource

\* PrepareTarget's statements create every table and partition, and nothing
\* that CompleteTarget builds.
LEMMA PreparedOps ==
    ASSUME job \in Jobs, CatalogOfFirst(catalog, Len(Wanted), "read"), NEW st \in Elements(PrepareScript)
    PROVE  st.op \notin {"index", "fkey", "trigger"}
  <1>1. CASE st.op \in {"schema", "dropType", "type", "function", "sequence"}
    BY <1>1
  <1>2. CASE \E i \in 1..Len(catalog) : \E j \in 1..Len(catalog[i].tables) : OfTable(st, catalog[i].name, catalog[i].tables[j])
    <2>1. PICK i \in 1..Len(catalog) : \E j \in 1..Len(catalog[i].tables) : OfTable(st, catalog[i].name, catalog[i].tables[j])
      BY <1>2
    <2>2. PICK j \in 1..Len(catalog[i].tables) : OfTable(st, catalog[i].name, catalog[i].tables[j])
      BY <2>1
    <2>3. IsSequence(catalog[i].tables[j].children)
      BY EntryLists
    <2>4. QED
      BY <2>2, <2>3, OfTableFields
  <1>3. QED
    BY <1>1, <1>2, PrepareElements

\* All that is to be created is in PrepareTarget's script.
LEMMA PreparesAll ==
    ASSUME job \in Jobs, CatalogOfFirst(catalog, Len(Wanted), "read"), NEW st, Creates(st)
    PROVE  st \in Elements(PrepareScript)
  <1>1. PICK i \in 1..Len(catalog) : \E j \in 1..Len(catalog[i].tables) :
          \/ st = Statement("create", catalog[i].name, catalog[i].tables[j].name, catalog[i].tables[j])
          \/ \E k \in 1..Len(catalog[i].tables[j].children) :
                st = Statement("partition", catalog[i].name, catalog[i].tables[j].name, catalog[i].tables[j].children[k])
    BY Zenon DEF Creates
  <1>2. PICK j \in 1..Len(catalog[i].tables) :
          \/ st = Statement("create", catalog[i].name, catalog[i].tables[j].name, catalog[i].tables[j])
          \/ \E k \in 1..Len(catalog[i].tables[j].children) :
                st = Statement("partition", catalog[i].name, catalog[i].tables[j].name, catalog[i].tables[j].children[k])
    BY <1>1
  <1> DEFINE t == catalog[i].tables[j]
             s == catalog[i].name
  <1>3. IsSequence(t.children)
    BY EntryLists
  <1>4. "CreateTables" \in job.opts
    BY DEF Creates
  <1>5. Elements(PrepareTable(s, t)) \subseteq Elements(PrepareScript)
    BY PrepareElements
  <1>6. st = Statement("create", s, t.name, t) \/ \E k \in 1..Len(t.children) : st = Statement("partition", s, t.name, t.children[k])
    BY <1>2
  <1> HIDE DEF t, s
  <1>7. /\ Statement("create", s, t.name, t) \in Elements(PrepareTable(s, t))
        /\ \A k \in 1..Len(t.children) : Statement("partition", s, t.name, t.children[k]) \in Elements(PrepareTable(s, t))
    BY <1>3, <1>4, PrepareTableFacts
  <1>8. QED
    BY <1>5, <1>6, <1>7, Zenon

\* Every step of a run keeps BuildInv.
LEMMA BuildSteps ==
    ASSUME BuildInv, [SchemaNext]_schemaVars
    PROVE  IndexesOfSource' /\ ToBuild'
  <1>1. SchemaInv /\ IndexesOfSource /\ ToBuild
    BY DEF BuildInv
  <1>2. job \in Jobs /\ IsSequence(script) /\
        (pc \in {"read", "prepare", "complete", "done"} => CatalogOfFirst(catalog, Len(Wanted), "read"))
    BY <1>1 DEF SchemaInv, ReadInv, DropsLoaded
  <1>3. ASSUME db' = db, job' = job, pc' \notin {"prepare", "complete", "done"} PROVE IndexesOfSource' /\ ToBuild'
    BY <1>1, <1>3, IndexesStay DEF ToBuild
  <1>4. ASSUME Fetch PROVE IndexesOfSource' /\ ToBuild'
    BY <1>3, <1>4 DEF Fetch, DiscoverTables, FetchTable, RenameViews
  <1>5. ASSUME FetchFails PROVE IndexesOfSource' /\ ToBuild'
    BY <1>3, <1>5 DEF FetchFails, Fault, QueryFails
  <1>6. ASSUME BeginPrepare PROVE IndexesOfSource' /\ ToBuild'
    <2> DEFINE s == PrepareScript
    <2>1. CatalogOfFirst(catalog, Len(Wanted), "read")
      BY <1>2, <1>6 DEF BeginPrepare
    <2>2. InOrder(s)
      BY <1>2, <2>1, PrepareInOrder
    <2>3. \A st \in Elements(s) : st.op \notin {"index", "fkey", "trigger"}
      BY <1>2, <2>1, PreparedOps
    <2>4. \A a : Creates(a) => a \in Elements(s)
      BY <1>2, <2>1, PreparesAll
    <2>5. \A a : Creates(a)' <=> Creates(a)
      BY <1>6, BuildStays DEF BeginPrepare
    <2>6. script' = s /\ pc' = "prepare" /\ db' = db /\ job' = job
      BY <1>6 DEF BeginPrepare
    <2> HIDE DEF s
    <2>7. TablesToBuild'
      BY <2>2, <2>3, <2>4, <2>5, <2>6 DEF TablesToBuild, InOrder, Undoes
    <2>8. QED
      BY <1>1, <2>6, <2>7, IndexesStay DEF ToBuild
  <1>7. ASSUME Execute PROVE IndexesOfSource' /\ ToBuild'
    <2>1. pc \in {"prepare", "complete"} /\ script # <<>> /\ job' = job /\ catalog' = catalog
      BY <1>7 DEF Execute
    <2>2. CASE IsRefused(Head(script))
      BY <1>3, <1>7, <2>1, <2>2 DEF Execute
    <2>3. CASE ~IsRefused(Head(script))
      <3>1. db' = After(Head(script)) /\ script' = Tail(script) /\ pc' = pc
        BY <1>7, <2>3 DEF Execute
      <3>2. CatalogOfFirst(catalog, Len(Wanted), "read") /\ Head(script) \in Elements(script)
        BY <1>2, <2>1, HeadAndTail
      <3>3. CASE pc = "prepare"
        <4>1. TablesToBuild
          BY <1>1, <3>3 DEF ToBuild
        <4>2. TablesToBuild'
          BY <1>1, <1>2, <2>1, <3>1, <3>2, <4>1, PrepareStep
        <4>3. Head(script).op # "index"
          BY <3>2, <4>1 DEF TablesToBuild
        <4>4. IndexesOfSource'
          BY <1>1, <1>2, <2>1, <3>1, <3>2, <4>3, IndexStep
        <4>5. QED
          BY <3>1, <3>3, <4>2, <4>4 DEF ToBuild
      <3>4. CASE pc = "complete"
        <4>1. RestToBuild /\ \A a : Creates(a) => Made(a)
          BY <1>1, <3>4 DEF ToBuild
        <4>2. RestToBuild' /\ \A a : Creates(a)' => Made(a)'
          BY <1>1, <1>2, <2>1, <3>1, <3>2, <4>1, CompleteStep
        <4>3. Completes(Head(script))
          BY <3>2, <4>1 DEF RestToBuild
        <4>4. IndexesOfSource'
          BY <1>1, <1>2, <2>1, <3>1, <3>2, <4>3, IndexStep
        <4>5. QED
          BY <3>1, <3>4, <4>2, <4>4 DEF ToBuild
      <3>5. QED
        BY <2>1, <3>3, <3>4
    <2>4. QED
      BY <2>2, <2>3
  <1>8. ASSUME StatementFails PROVE IndexesOfSource' /\ ToBuild'
    <2>1. db' = db /\ job' = job /\ catalog' = catalog /\ pc \in {"prepare", "complete"} /\ script # <<>>
      BY <1>8 DEF StatementFails, Fault
    <2>2. IndexesOfSource'
      BY <1>1, <2>1, IndexesStay
    <2>3. CASE Head(script).op # "dropType"
      BY <1>3, <1>8, <2>1, <2>3 DEF StatementFails
    <2>4. CASE Head(script).op = "dropType"
      <3>1. script' = Tail(script) /\ pc' = pc
        BY <1>8, <2>4 DEF StatementFails
      <3>2. CatalogOfFirst(catalog, Len(Wanted), "read") /\ Head(script) \in Elements(script)
        BY <1>2, <2>1, HeadAndTail
      <3>3. CASE pc = "prepare"
        <4>1. TablesToBuild
          BY <1>1, <3>3 DEF ToBuild
        <4>2. TablesToBuild'
          BY <1>1, <1>2, <2>1, <2>4, <3>1, <3>2, <4>1, PrepareStep
        <4>3. QED
          BY <2>2, <3>1, <3>3, <4>2 DEF ToBuild
      <3>4. CASE pc = "complete"
        <4>1. Completes(Head(script))
          BY <1>1, <3>2, <3>4 DEF ToBuild, RestToBuild
        <4>2. QED
          BY <2>4, <4>1, CompletesFields
      <3>5. QED
        BY <2>1, <3>3, <3>4
    <2>5. QED
      BY <2>3, <2>4
  <1>9. ASSUME BeginComplete PROVE IndexesOfSource' /\ ToBuild'
    <2> DEFINE s == CompleteScript
    <2>1. CatalogOfFirst(catalog, Len(Wanted), "read")
      BY <1>2, <1>9 DEF BeginComplete
    <2>2. \A a : a \in Elements(s) <=> Completes(a)
      <3>1. Elements(s) = Elements(IndexStatements(catalog)) \cup Elements(ForeignKeyStatements(catalog))
                             \cup Elements(TriggerStatements(catalog))
        BY <1>2, <2>1, CompleteElements
      <3> HIDE DEF s
      <3>2. QED
        BY <1>2, <2>1, <3>1, IndexElements, ForeignKeyElements, TriggerElements, Zenon DEF Completes
    <2>3. \A a : Creates(a) => Made(a)
      <3>1. TablesToBuild /\ script = <<>>
        BY <1>1, <1>9 DEF BeginComplete, ToBuild
      <3>2. QED
        BY <3>1, EmptySequence DEF TablesToBuild
    <2>4. \A a : (Creates(a)' <=> Creates(a)) /\ (Completes(a)' <=> Completes(a))
      BY <1>9, BuildStays DEF BeginComplete
    <2>5. script' = s /\ pc' = "complete" /\ db' = db /\ job' = job
      BY <1>9 DEF BeginComplete
    <2> HIDE DEF s
    <2>6. RestToBuild'
      BY <2>2, <2>4, <2>5 DEF RestToBuild
    <2>7. \A a : Made(a)' <=> Made(a)
      BY <2>5 DEF Made, HasIndex, TablesAt
    <2>8. QED
      BY <1>1, <2>3, <2>4, <2>5, <2>6, <2>7, IndexesStay DEF ToBuild
  <1>10. ASSUME Complete PROVE IndexesOfSource' /\ ToBuild'
    <2>1. db' = db /\ job' = job /\ catalog' = catalog /\ pc = "complete" /\ pc' = "done" /\ script = <<>>
      BY <1>10 DEF Complete
    <2>2. (\A a : Creates(a) => Made(a)) /\ RestToBuild
      BY <1>1, <2>1 DEF ToBuild
    <2>3. \A a : Completes(a) => Made(a)
      BY <2>1, <2>2, EmptySequence DEF RestToBuild
    <2>4. \A a : (Creates(a)' <=> Creates(a)) /\ (Completes(a)' <=> Completes(a))
      BY <2>1, BuildStays
    <2>5. \A a : Made(a)' <=> Made(a)
      BY <2>1 DEF Made, HasIndex, TablesAt
    <2>6. QED
      BY <1>1, <2>1, <2>2, <2>3, <2>4, <2>5, IndexesStay DEF ToBuild
  <1>11. ASSUME Rerun PROVE IndexesOfSource' /\ ToBuild'
    <2>1. db' = db /\ pc' = "start" /\ job'.engine = job.engine /\ job'.schema = job.schema /\ job'.tables = job.tables
      BY <1>11 DEF Rerun
    <2>2. QED
      BY <1>1, <2>1, IndexesStay DEF ToBuild
  <1>12. ASSUME UNCHANGED schemaVars PROVE IndexesOfSource' /\ ToBuild'
    <2>1. db' = db /\ job' = job /\ catalog' = catalog /\ pc' = pc /\ script' = script
      BY <1>12 DEF schemaVars, metadataVars
    <2>2. \A a : (Creates(a)' <=> Creates(a)) /\ (Completes(a)' <=> Completes(a))
      BY <2>1, BuildStays
    <2>3. \A a : Made(a)' <=> Made(a)
      BY <2>1 DEF Made, HasIndex, TablesAt
    <2>4. (TablesToBuild => TablesToBuild') /\ (RestToBuild => RestToBuild')
      BY <2>1, <2>2, <2>3 DEF TablesToBuild, RestToBuild, InOrder, Undoes
    <2>5. QED
      BY <1>1, <2>1, <2>2, <2>3, <2>4, IndexesStay DEF ToBuild
  <1>13. QED
    BY <1>4, <1>5, <1>6, <1>7, <1>8, <1>9, <1>10, <1>11, <1>12 DEF SchemaNext

\* What is built when a run has done all it was to do, of each table read.
LEMMA AllBuilt ==
    ASSUME job \in Jobs, CatalogOfFirst(catalog, Len(Wanted), "read"), \A a : Creates(a) => Made(a), \A a : Completes(a) => Made(a),
           NEW i \in 1..Len(catalog), NEW j \in 1..Len(catalog[i].tables)
    PROVE  Built(catalog[i].name, catalog[i].tables[j])
  <1> DEFINE s == catalog[i].name
             t == catalog[i].tables[j]
  <1>1. IsSequence(t.cols) /\ IsSequence(t.children)
    BY EntryLists
  <1>2. ASSUME "CreateTables" \in job.opts
        PROVE  /\ {c.name : c \in Elements(t.cols)} \subseteq ColumnsOf(TablesAt(s, t.name))
               /\ \A k \in 1..Len(t.children) : TablesAt("public", t.children[k]) # {}
    <2> DEFINE a == Statement("create", s, t.name, t)
               table == [schema |-> s, name |-> t.name, parent |-> <<>>, cols |-> t.cols]
    <2>1. Creates(a)
      BY <1>2, Zenon DEF Creates
    <2>2. a.op = "create" /\ a.schema = s /\ a.name = t.name /\ a.arg = t
      BY DEF Statement
    <2>3. table \in db.tables
      <3> HIDE DEF a
      <3>1. Made(a)
        BY <2>1
      <3>2. QED
        BY <2>2, <3>1 DEF Made
    <2>4. table \in TablesAt(s, t.name) /\ table.cols = t.cols
      BY <2>3 DEF TablesAt
    <2> HIDE DEF table
    <2>5. {c.name : c \in Elements(t.cols)} \subseteq ColumnsOf(TablesAt(s, t.name))
      BY <2>4 DEF ColumnsOf, Elements
    <2>6. ASSUME NEW k \in 1..Len(t.children) PROVE TablesAt("public", t.children[k]) # {}
      <3> DEFINE b == Statement("partition", s, t.name, t.children[k])
                 part == [schema |-> "public", name |-> t.children[k], parent |-> <<s, t.name>>, cols |-> <<>>]
      <3>1. Creates(b)
        BY <1>2, Zenon DEF Creates
      <3>2. b.op = "partition" /\ b.schema = s /\ b.name = t.name /\ b.arg = t.children[k]
        BY DEF Statement
      <3>3. part \in db.tables
        <4> HIDE DEF b
        <4>1. Made(b)
          BY <3>1
        <4>2. QED
          BY <3>2, <4>1 DEF Made
      <3>4. QED
        BY <3>3 DEF TablesAt
    <2>7. QED
      BY <2>5, <2>6
  <1>3. ASSUME "CreateIndexes" \in job.opts, NEW x \in Elements(t.indexes) PROVE HasIndex(s, t.name, x)
    <2> DEFINE a == Statement("index", s, t.name, x)
    <2>1. Completes(a)
      BY <1>3, Zenon DEF Completes
    <2>2. a.op = "index" /\ a.schema = s /\ a.name = t.name /\ a.arg = x
      BY DEF Statement
    <2> HIDE DEF a
    <2>3. Made(a)
      BY <2>1
    <2>4. QED
      BY <2>2, <2>3 DEF Made
  <1>4. ASSUME "ForeignKeys" \in job.opts, NEW k \in Elements(t.fkeys) PROVE k \in db.fkeys
    <2> DEFINE a == Statement("fkey", k.schema, k.on, k)
    <2>1. Completes(a)
      BY <1>4, Zenon DEF Completes
    <2>2. a.op = "fkey" /\ a.arg = k
      BY DEF Statement
    <2> HIDE DEF a
    <2>3. Made(a)
      BY <2>1
    <2>4. QED
      BY <2>2, <2>3 DEF Made
  <1>5. ASSUME "CreateTriggers" \in job.opts, NEW g \in Elements(t.triggers) PROVE <<s, t.name, g.name>> \in db.triggers
    <2> DEFINE a == Statement("trigger", s, t.name, g)
    <2>1. Completes(a)
      BY <1>5, Zenon DEF Completes
    <2>2. a.op = "trigger" /\ a.schema = s /\ a.name = t.name /\ a.arg = g
      BY DEF Statement
    <2> HIDE DEF a
    <2>3. Made(a)
      BY <2>1
    <2>4. QED
      BY <2>2, <2>3 DEF Made
  <1> HIDE DEF s, t
  <1>6. Built(s, t)
    BY <1>2, <1>3, <1>4, <1>5 DEF Built
  <1>7. QED
    BY <1>6 DEF s, t

\* BuildInv holds after any number of runs, also of runs that failed half way.
THEOREM BuildInvariance == SchemaSpec => []BuildInv
  <1>1. SchemaInit => BuildInv
    <2>1. SUFFICES ASSUME SchemaInit PROVE BuildInv
      OBVIOUS
    <2>2. db.indexes = {} /\ pc = "start"
      BY <2>1 DEF SchemaInit, Begin, EmptyDatabase
    <2>3. QED
      BY <2>1, <2>2, SchemaBegins DEF BuildInv, IndexesOfSource, ToBuild
  <1>2. BuildInv /\ [SchemaNext]_schemaVars => BuildInv'
    BY SchemaSteps, BuildSteps DEF BuildInv
  <1>3. QED
    BY <1>1, <1>2, PTL DEF SchemaSpec

\* A run of PrepareTarget and CompleteTarget that ends without error has built
\* every table, partition, index, key, foreign key and trigger that it read and was
\* told to build, on whatever earlier runs have left.
THEOREM AllIsBuilt == SchemaSpec => []TargetComplete
  <1>1. ASSUME BuildInv, pc = "done", NEW s \in Elements(catalog), NEW t \in Elements(s.tables)
        PROVE  Built(s.name, t)
    <2>1. job \in Jobs /\ CatalogOfFirst(catalog, Len(Wanted), "read")
          /\ (\A a : Creates(a) => Made(a)) /\ (\A a : Completes(a) => Made(a))
      BY <1>1 DEF BuildInv, SchemaInv, ReadInv, ToBuild
    <2>2. PICK i \in 1..Len(catalog) : catalog[i] = s
      BY <2>1, EntryLists, SequenceFacts
    <2>3. PICK j \in 1..Len(catalog[i].tables) : catalog[i].tables[j] = t
      <3>1. IsSequence(catalog[i].tables)
        BY <2>1, EntryLists
      <3>2. QED
        BY <2>2, <3>1, SequenceFacts
    <2>4. Built(catalog[i].name, catalog[i].tables[j])
      BY <2>1, AllBuilt
    <2>5. QED
      BY <2>2, <2>3, <2>4
  <1>2. BuildInv => TargetComplete
    BY <1>1 DEF TargetComplete
  <1>3. QED
    BY <1>2, BuildInvariance, PTL

----------------------------------------------------------------------------
(* The key of a table *)

\* The indexes have one key, of these columns, or none if there are no columns.
KeyIs(indexes, cols) ==
    \/ cols = <<>> /\ \A i \in 1..Len(indexes) : ~indexes[i].primary
    \/ /\ cols # <<>>
       /\ \E p \in 1..Len(indexes) :
             /\ indexes[p].primary /\ indexes[p].cols = cols
             /\ \A i \in 1..Len(indexes) : indexes[i].primary => i = p

\* What the source's key looks like.
Keyed(t) == \A i, k \in 1..Len(t.indexes) : t.indexes[i].kind = "pk" =>
                /\ t.indexes[k].kind = "pk" => i = k
                /\ t.indexes[i].cols # <<>> /\ t.indexes[i].included = <<>>

\* The key of a table is its only index of that kind.
LEMMA KeyFound ==
    ASSUME NEW t, Listing(t), Keyed(t)
    PROVE  \/ KeyOf(t) = <<>> /\ \A i \in 1..Len(t.indexes) : t.indexes[i].kind # "pk"
           \/ /\ KeyOf(t) # <<>>
              /\ \E p \in 1..Len(t.indexes) :
                    /\ t.indexes[p].kind = "pk" /\ KeyOf(t) = t.indexes[p].cols
                    /\ \A i \in 1..Len(t.indexes) : t.indexes[i].kind = "pk" => i = p
  <1> DEFINE keys == IndexOf(t, "pk")
             n == Len(t.indexes)
  <1>1. n \in Nat
    BY SequenceFacts DEF Listing
  <1>2. keys = {i \in 1..n : t.indexes[i].kind = "pk"}
    BY DEF IndexOf
  <1>3. KeyOf(t) = IF keys = {} THEN <<>> ELSE t.indexes[Least(keys)].cols
    BY DEF KeyOf
  <1> HIDE DEF keys
  <1>4. CASE keys = {}
    BY <1>2, <1>3, <1>4
  <1>5. CASE keys # {}
    <2> DEFINE p == Least(keys)
    <2>1. p \in keys
      BY <1>1, <1>2, <1>5, LeastIn
    <2>2. KeyOf(t) = t.indexes[p].cols
      BY <1>3, <1>5
    <2> HIDE DEF p
    <2>3. p \in 1..n /\ t.indexes[p].kind = "pk"
      BY <1>2, <2>1
    <2>4. QED
      BY <2>2, <2>3 DEF Keyed
  <1>6. QED
    BY <1>4, <1>5

\* The fields of an index that concern keys.
LEMMA IndexFields ==
    ASSUME NEW name, NEW kind, NEW cols, NEW filter, NEW x, x = CatalogIndex(name, kind, cols, filter)
    PROVE  x.primary = (kind = "pk") /\ x.cols = cols
  <1>1. x = [name |-> name, primary |-> kind = "pk", unique |-> kind \in {"pk", "unique"}, cols |-> cols, filter |-> filter]
    BY DEF CatalogIndex
  <1>2. x.cols = cols
    BY <1>1
  <1>3. x.primary = (kind = "pk")
    BY <1>1
  <1>4. QED
    BY <1>2, <1>3

\* What is listed as it is has the key of the source.
LEMMA KeyListed ==
    ASSUME NEW t, Listing(t), Keyed(t)
    PROVE  KeyIs(Listed(t.indexes), KeyOf(t))
  <1> DEFINE l == Listed(t.indexes)
             n == Len(t.indexes)
  <1>1. IsSequence(t.indexes)
    BY DEF Listing
  <1>2. Len(l) = n
    BY <1>1, ListedFacts
  <1>3. \A i \in 1..n : (l[i].primary <=> t.indexes[i].kind = "pk") /\ l[i].cols = t.indexes[i].cols
    <2> TAKE i \in 1..n
    <2>1. l[i] = CatalogIndex(t.indexes[i].name, t.indexes[i].kind, t.indexes[i].cols, <<>>)
      BY DEF Listed
    <2> HIDE DEF l
    <2>2. l[i].primary = (t.indexes[i].kind = "pk") /\ l[i].cols = t.indexes[i].cols
      BY <2>1, IndexFields
    <2>3. QED
      BY <2>2
  <1> HIDE DEF l
  <1>4. QED
    BY <1>2, <1>3, KeyFound DEF KeyIs, l

\* SQLite's key is the index made for it, in the order of the table.
LEMMA KeyOfSQLite ==
    ASSUME NEW t, Listing(t), KeyOf(t) = ColumnOrder(t)
    PROVE  KeyIs(SQLiteIndexes(t), KeyOf(t))
  <1> DEFINE n == Len(t.indexes)
             K == {i \in 1..n : t.indexes[i].kind \notin {"auto", "pk"}}
             kept == Filter(t.indexes, LAMBDA x : x.kind \notin {"auto", "pk"})
             own == Listed(kept)
             key == ColumnOrder(t)
             new == CatalogIndex(t.name \o "_pkey", "pk", key, <<>>)
  <1>0. IsSequence(t.indexes) /\ n \in Nat
    BY SequenceFacts DEF Listing
  <1>1. kept = Picked(t.indexes, K)
    <2>1. kept = FlattenSeq([i \in 1..n |-> IF t.indexes[i].kind \notin {"auto", "pk"} THEN <<t.indexes[i]>> ELSE <<>>])
      BY DEF Filter
    <2>2. [i \in 1..n |-> IF t.indexes[i].kind \notin {"auto", "pk"} THEN <<t.indexes[i]>> ELSE <<>>]
            = [i \in 1..n |-> IF i \in K THEN <<t.indexes[i]>> ELSE <<>>]
      OBVIOUS
    <2>3. QED
      BY <2>1, <2>2 DEF Picked
  <1>2. SQLiteIndexes(t) = EnsurePKIndex(t, own)
    BY DEF SQLiteIndexes
  <1> HIDE DEF kept
  <1>3. IsSequence(kept) /\ \A p \in 1..Len(kept) : kept[p].kind # "pk"
    <2> DEFINE q == t.indexes
    <2>1. /\ IsSequence(Picked(q, K))
          /\ \A p \in 1..Len(Picked(q, K)) : \E i \in 1..Len(q) : i \in K /\ Picked(q, K)[p] = q[i]
      <3>1. IsSequence(q)
        BY <1>0
      <3> HIDE DEF q, K
      <3>2. QED
        BY <3>1, PickedFacts
    <2>2. \A i \in K : q[i].kind # "pk"
      OBVIOUS
    <2> HIDE DEF q, K
    <2>3. kept = Picked(q, K)
      BY <1>1 DEF q
    <2>4. QED
      BY <2>1, <2>2, <2>3
  <1>4. IsSequence(own) /\ Len(own) = Len(kept)
    BY <1>3, ListedFacts
  <1>5. \A i \in 1..Len(own) : ~own[i].primary
    <2> TAKE i \in 1..Len(own)
    <2>1. own[i] = CatalogIndex(kept[i].name, kept[i].kind, kept[i].cols, <<>>)
      BY <1>4 DEF Listed
    <2> HIDE DEF own
    <2>2. kept[i].kind # "pk"
      BY <1>3, <1>4
    <2>3. QED
      BY <2>1, <2>2, IndexFields
  <1> HIDE DEF own
  <1>6. CASE key = <<>>
    <2>1. SQLiteIndexes(t) = own
      BY <1>2, <1>6 DEF EnsurePKIndex
    <2>2. QED
      BY <1>5, <1>6, <2>1 DEF KeyIs
  <1>7. CASE key # <<>>
    <2> DEFINE s == Append(own, new)
    <2>1. SQLiteIndexes(t) = s
      BY <1>2, <1>5, <1>7 DEF EnsurePKIndex
    <2>2. new.primary /\ new.cols = key
      BY DEF CatalogIndex
    <2> HIDE DEF new, key
    <2>3. Len(s) = Len(own) + 1 /\ (\A i \in 1..Len(own) : s[i] = own[i]) /\ s[Len(own) + 1] = new
      BY <1>4, SequenceAppend
    <2>4. Len(own) \in Nat
      BY <1>4, SequenceFacts
    <2> HIDE DEF s
    <2> DEFINE p == Len(own) + 1
    <2>5. p \in 1..Len(s) /\ s[p].primary /\ s[p].cols = key
      BY <2>2, <2>3, <2>4
    <2>6. \A i \in 1..Len(s) : s[i].primary => i = p
      BY <1>5, <2>3, <2>4
    <2>7. QED
      BY <1>7, <2>1, <2>5, <2>6 DEF KeyIs, key
  <1>8. QED
    BY <1>6, <1>7

\* The parts of a list that is picked from another, here the rows.
GroupIndex(given, i) ==
    CatalogIndex(given[i].index, given[i].kind,
                 FlattenSeq([k \in 1..Len(given) |-> IF given[k].index = given[i].index THEN <<given[k].col>> ELSE <<>>]),
                 given[i].filter)
FirstOfName(given) == {i \in 1..Len(given) : \A j \in 1..(i - 1) : given[j].index # given[i].index}

\* Each first row of a name makes one index, and nothing else does.
LEMMA GroupPlaces ==
    ASSUME NEW given, IsSequence(given)
    PROVE  LET s == GroupRows(given) IN
           /\ Len(s) \in Nat
           /\ \E from \in [1..Len(s) -> 1..Len(given)] :
                 /\ \A p \in 1..Len(s) : from[p] \in FirstOfName(given) /\ s[p] = GroupIndex(given, from[p])
                 /\ \A p, q \in 1..Len(s) : from[p] = from[q] => p = q
                 /\ \A i \in FirstOfName(given) : \E p \in 1..Len(s) : from[p] = i
  <1> DEFINE n == Len(given)
             K == FirstOfName(given)
             all == [i \in 1..n |-> GroupIndex(given, i)]
             S == {all[i] : i \in 1..n}
             s == GroupRows(given)
  <1>1. n \in Nat
    BY SequenceFacts
  <1>2. all \in Seq(S) /\ Len(all) = n
    <2>1. all \in [1..n -> S]
      OBVIOUS
    <2>2. QED
      BY <1>1, <2>1
  <1>3. s = Picked(all, K)
    <2> DEFINE Test(i) == \A j \in 1..(i - 1) : given[j].index # given[i].index
               raw == [i \in 1..n |-> IF Test(i) THEN <<GroupIndex(given, i)>> ELSE <<>>]
               picks == [i \in 1..n |-> IF i \in K THEN <<all[i]>> ELSE <<>>]
    <2>1. s = FlattenSeq(raw)
      BY DEF GroupRows, GroupIndex
    <2>2. \A i \in 1..n : (i \in K <=> Test(i)) /\ all[i] = GroupIndex(given, i)
      BY DEF FirstOfName
    <2> HIDE DEF all, K, Test
    <2>3. raw = picks
      BY <2>2
    <2>4. Picked(all, K) = FlattenSeq(picks)
      BY <1>2 DEF Picked
    <2> HIDE DEF raw, picks
    <2>5. QED
      BY <2>1, <2>3, <2>4
  <1>4. \A i \in 1..n : all[i] = GroupIndex(given, i)
    OBVIOUS
  <1>5. K \subseteq 1..n
    BY DEF FirstOfName
  <1> HIDE DEF all, K, s, S
  <1>6. /\ s \in Seq(S)
        /\ \E from \in [1..Len(s) -> 1..n] :
              /\ \A p \in 1..Len(s) : from[p] \in K /\ s[p] = all[from[p]]
              /\ \A p, q \in 1..Len(s) : p < q => from[p] < from[q]
              /\ \A i \in 1..n : i \in K => \E p \in 1..Len(s) : from[p] = i
    BY <1>2, <1>3, PickedFrom
  <1>7. PICK from \in [1..Len(s) -> 1..n] :
              /\ \A p \in 1..Len(s) : from[p] \in K /\ s[p] = all[from[p]]
              /\ \A p, q \in 1..Len(s) : p < q => from[p] < from[q]
              /\ \A i \in 1..n : i \in K => \E p \in 1..Len(s) : from[p] = i
    BY <1>6
  <1>8. Len(s) \in Nat
    BY <1>6
  <1>9. \A p, q \in 1..Len(s) : from[p] = from[q] => p = q
    <2> TAKE p, q \in 1..Len(s)
    <2>1. from[p] \in Nat /\ from[q] \in Nat /\ p \in Nat /\ q \in Nat
      BY <1>1, <1>8
    <2>2. (p < q => from[p] < from[q]) /\ (q < p => from[q] < from[p])
      BY <1>7
    <2>3. QED
      BY <2>1, <2>2
  <1>10. \A p \in 1..Len(s) : from[p] \in K /\ s[p] = GroupIndex(given, from[p])
    BY <1>4, <1>5, <1>7
  <1>11. \A i \in K : \E p \in 1..Len(s) : from[p] = i
    BY <1>5, <1>7
  <1>12. QED
    BY <1>8, <1>9, <1>10, <1>11 DEF s, K, n

\* Rows of no key make no key.
LEMMA GroupNoKey ==
    ASSUME NEW given, IsSequence(given), \A i \in 1..Len(given) : given[i].kind # "pk"
    PROVE  KeyIs(GroupRows(given), <<>>)
  <1> DEFINE s == GroupRows(given)
  <1>1. PICK from \in [1..Len(s) -> 1..Len(given)] :
           \A p \in 1..Len(s) : from[p] \in FirstOfName(given) /\ s[p] = GroupIndex(given, from[p])
    BY GroupPlaces
  <1> HIDE DEF s
  <1>2. ASSUME NEW p \in 1..Len(s) PROVE ~s[p].primary
    <2>1. s[p] = GroupIndex(given, from[p]) /\ given[from[p]].kind # "pk"
      BY <1>1
    <2>2. s[p].primary = (given[from[p]].kind = "pk")
      BY <2>1, IndexFields DEF GroupIndex
    <2>3. QED
      BY <2>1, <2>2
  <1>3. QED
    BY <1>2 DEF KeyIs, s

\* The rows of the key, which come one after the other and share their name with
\* no other row, make one key of their columns.
LEMMA GroupKey ==
    ASSUME NEW given, IsSequence(given), NEW a \in Nat, NEW m \in Nat, m >= 1, a + m <= Len(given), NEW name,
           \A i \in 1..Len(given) : (given[i].index = name <=> i \in (a + 1)..(a + m)),
           \A i \in 1..Len(given) : (given[i].kind = "pk" <=> i \in (a + 1)..(a + m)),
           NEW cols, IsSequence(cols), Len(cols) = m, \A q \in 1..m : given[a + q].col = cols[q]
    PROVE  KeyIs(GroupRows(given), cols)
  <1> DEFINE n == Len(given)
             s == GroupRows(given)
             first == a + 1
             own == FlattenSeq([k \in 1..n |-> IF given[k].index = name THEN <<given[k].col>> ELSE <<>>])
  <1>0. n \in Nat /\ first \in 1..n /\ first \in (a + 1)..(a + m)
    BY SequenceFacts
  <1>1. own = cols
    <2> DEFINE all == [k \in 1..n |-> given[k].col]
               S == {all[k] : k \in 1..n}
               K == {k \in 1..n : given[k].index = name}
    <2>1. all \in Seq(S) /\ Len(all) = n
      <3>1. all \in [1..n -> S]
        OBVIOUS
      <3>2. QED
        BY <1>0, <3>1
    <2>2. own = Picked(all, K)
      <3> DEFINE raw == [k \in 1..n |-> IF given[k].index = name THEN <<given[k].col>> ELSE <<>>]
                 picks == [k \in 1..n |-> IF k \in K THEN <<all[k]>> ELSE <<>>]
      <3>1. raw = picks
        OBVIOUS
      <3>2. Picked(all, K) = FlattenSeq(picks)
        BY <2>1 DEF Picked
      <3>3. own = FlattenSeq(raw)
        OBVIOUS
      <3> HIDE DEF raw, picks, own, all, K
      <3>4. QED
        BY <3>1, <3>2, <3>3
    <2>3. \A k \in 1..n : (k \in K <=> k \in (a + 1)..(a + m)) /\ all[k] = given[k].col
      OBVIOUS
    <2> HIDE DEF all, K, S, own
    <2>4. Len(own) = m /\ \A q \in 1..m : own[q] = all[a + q]
      <3>1. a + m <= Len(all) /\ \A k \in 1..Len(all) : k \in K <=> k \in (a + 1)..(a + m)
        BY <2>1, <2>3
      <3>2. Len(Picked(all, K)) = m /\ \A q \in 1..m : Picked(all, K)[q] = all[a + q]
        <4>1. IsRun(K, all, a, m)
          BY <3>1 DEF IsRun
        <4>2. QED
          BY <2>1, <4>1, PickedRun
      <3>3. QED
        BY <2>2, <3>2
    <2>5. own \in Seq(S)
      BY <2>1, <2>2, PickedFrom
    <2>6. IsSequence(own)
      BY <2>5, SequenceOf
    <2>7. \A q \in 1..m : own[q] = cols[q]
      <3> TAKE q \in 1..m
      <3>1. a + q \in 1..n
        BY <1>0
      <3>2. QED
        BY <2>3, <2>4, <3>1
    <2>8. own = [q \in 1..m |-> own[q]] /\ cols = [q \in 1..m |-> cols[q]]
      BY <2>4, <2>6, SequenceFacts
    <2>9. QED
      BY <2>7, <2>8
  <1>2. first \in FirstOfName(given)
    <2>1. \A j \in 1..(first - 1) : j \in 1..n /\ j \notin (a + 1)..(a + m)
      BY <1>0
    <2>2. given[first].index = name /\ \A j \in 1..(first - 1) : given[j].index # name
      BY <1>0, <2>1
    <2>3. QED
      BY <1>0, <2>2 DEF FirstOfName
  <1>3. \A i \in FirstOfName(given) : i \in (a + 1)..(a + m) => i = first
    <2> TAKE i \in FirstOfName(given)
    <2> HAVE i \in (a + 1)..(a + m)
    <2>1. i \in 1..n /\ \A j \in 1..(i - 1) : given[j].index # given[i].index
      BY DEF FirstOfName
    <2>2. given[i].index = name /\ given[first].index = name
      BY <1>0, <2>1
    <2>3. first \notin 1..(i - 1)
      BY <2>1, <2>2
    <2>4. QED
      BY <1>0, <2>1, <2>3
  <1> HIDE DEF first, own
  <1>4. PICK from \in [1..Len(s) -> 1..n] :
           /\ \A p \in 1..Len(s) : from[p] \in FirstOfName(given) /\ s[p] = GroupIndex(given, from[p])
           /\ \A p, q \in 1..Len(s) : from[p] = from[q] => p = q
           /\ \A i \in FirstOfName(given) : \E p \in 1..Len(s) : from[p] = i
    BY GroupPlaces
  <1>5. PICK g \in 1..Len(s) : from[g] = first
    BY <1>2, <1>4
  <1>6. given[first].index = name /\ given[first].kind = "pk"
    BY <1>0
  <1>7. GroupIndex(given, first) = CatalogIndex(given[first].index, given[first].kind, own, given[first].filter)
    BY <1>6 DEF GroupIndex, own
  <1> HIDE DEF s, n
  <1>8. s[g].primary /\ s[g].cols = cols
    <2>1. s[g] = CatalogIndex(given[first].index, given[first].kind, own, given[first].filter)
      BY <1>4, <1>5, <1>7
    <2>2. s[g].primary = (given[first].kind = "pk") /\ s[g].cols = own
      BY <2>1, IndexFields
    <2>3. QED
      BY <1>1, <1>6, <2>2
  <1>9. ASSUME NEW p \in 1..Len(s), s[p].primary PROVE p = g
    <2>1. s[p] = GroupIndex(given, from[p]) /\ from[p] \in FirstOfName(given)
      BY <1>4
    <2>2. s[p].primary = (given[from[p]].kind = "pk")
      BY <2>1, IndexFields DEF GroupIndex
    <2>3. given[from[p]].kind = "pk"
      BY <1>9, <2>2
    <2>4. from[p] = first
      BY <1>3, <2>1, <2>3, <1>4 DEF n
    <2>5. QED
      BY <1>4, <1>5, <2>4
  <1>10. cols # <<>>
    BY EmptySequence
  <1>11. QED
    BY <1>8, <1>9, <1>10 DEF KeyIs, s

\* SQL Server's rows are those of its indexes, one after the other, a row per
\* column.
LEMMA RowPlaces ==
    ASSUME NEW t, Listing(t)
    PROVE  LET given == MSSQLIndexRows(t)
               n == Len(t.indexes)
               Width(k) == Len(t.indexes[k].cols \o t.indexes[k].included)
           IN  /\ IsSequence(given)
               /\ \E end \in [0..n -> Nat] :
                     /\ \A k \in 1..n : end[k] = end[k - 1] + Width(k) /\ end[k] <= Len(given) /\ end[k - 1] \in Nat
                     /\ \A k \in 1..n : \A q \in 1..Width(k) :
                           LET r == given[end[k - 1] + q] IN
                           /\ r.index = Undot(t.indexes[k].name) /\ r.kind = t.indexes[k].kind
                           /\ r.col = Lower((t.indexes[k].cols \o t.indexes[k].included)[q])
                     /\ \A p \in 1..Len(given) : \E k \in 1..n : p \in (end[k - 1] + 1)..end[k]
  <1> DEFINE given == MSSQLIndexRows(t)
             n == Len(t.indexes)
             Columns(k) == t.indexes[k].cols \o t.indexes[k].included
             Width(k) == Len(Columns(k))
             OneRow(k, j) == [index |-> Undot(t.indexes[k].name), kind |-> t.indexes[k].kind, col |-> Lower(Columns(k)[j]),
                              filter |-> TranslateFilter(PrintMSSQL(t.indexes[k].conds))]
             parts == [k \in 1..n |-> [j \in 1..Width(k) |-> OneRow(k, j)]]
             S == UNION {{OneRow(k, j) : j \in 1..Width(k)} : k \in 1..n}
  <1>0. IsSequence(t.indexes) /\ n \in Nat
    BY SequenceFacts DEF Listing
  <1>1. \A k \in 1..n : Width(k) \in Nat
    <2> TAKE k \in 1..n
    <2>1. t.indexes[k] \in Elements(t.indexes)
      BY <1>0, SequenceFacts
    <2>2. IsSequence(t.indexes[k].cols) /\ IsSequence(t.indexes[k].included)
      BY <2>1 DEF Listing
    <2>3. QED
      BY <2>2, ConcatHolds, SequenceFacts
  <1>2. given = FlattenSeq(parts)
    BY DEF MSSQLIndexRows
  <1>3. ASSUME NEW k \in 1..n
        PROVE  /\ parts[k] \in Seq(S) /\ Len(parts[k]) = Width(k)
               /\ \A q \in 1..Width(k) : parts[k][q] = OneRow(k, q)
    <2>1. parts[k] = [j \in 1..Width(k) |-> OneRow(k, j)]
      OBVIOUS
    <2>2. \A j \in 1..Width(k) : OneRow(k, j) \in S
      <3> DEFINE Of(h) == {OneRow(h, j) : j \in 1..Width(h)}
      <3>1. S = UNION {Of(h) : h \in 1..n}
        OBVIOUS
      <3>2. \A j \in 1..Width(k) : OneRow(k, j) \in Of(k)
        OBVIOUS
      <3> HIDE DEF Of, S, OneRow, Width
      <3>3. QED
        BY <3>1, <3>2
    <2> HIDE DEF parts, S, OneRow, Width
    <2>3. parts[k] \in [1..Width(k) -> S]
      BY <2>1, <2>2
    <2>4. QED
      BY <1>1, <2>1, <2>3
  <1>4. parts = [k \in 1..n |-> parts[k]]
    OBVIOUS
  <1>5. \A k \in 1..n : \A q \in 1..Width(k) :
           /\ OneRow(k, q).index = Undot(t.indexes[k].name) /\ OneRow(k, q).kind = t.indexes[k].kind
           /\ OneRow(k, q).col = Lower(Columns(k)[q])
    OBVIOUS
  <1> HIDE DEF parts, S, OneRow, Width, Columns, given
  <1>6. parts \in Seq(Seq(S)) /\ Len(parts) = n
    <2>1. parts \in [1..n -> Seq(S)]
      BY <1>3, <1>4
    <2>2. QED
      BY <1>0, <2>1
  <1>7. given \in Seq(S) /\ \E end : Places(given, parts, end)
    BY <1>2, <1>6, FlattenPlaces
  <1>8. PICK end : Places(given, parts, end)
    BY <1>7
  <1>9. IsSequence(given)
    BY <1>7, SequenceOf
  <1> HIDE DEF n
  <1>10. end \in [0..n -> Nat] /\ \A p \in 1..Len(given) : \E k \in 1..n : p \in (end[k - 1] + 1)..end[k]
    BY <1>6, <1>8, Zenon DEF Places
  <1>11. \A k \in 1..n : end[k] = end[k - 1] + Width(k) /\ end[k] <= Len(given) /\ end[k - 1] \in Nat
    <2> TAKE k \in 1..n
    <2>1. end[k] = end[k - 1] + Len(parts[k]) /\ end[k] <= Len(given)
      BY <1>6, <1>8, Zenon DEF Places
    <2>2. k - 1 \in 0..n
      BY <1>0 DEF n
    <2>3. QED
      BY <1>3, <1>10, <2>1, <2>2
  <1>12. \A k \in 1..n : \A q \in 1..Width(k) : given[end[k - 1] + q] = OneRow(k, q)
    <2> TAKE k \in 1..n
    <2> TAKE q \in 1..Width(k)
    <2>1. \A r \in 1..Len(parts[k]) : given[end[k - 1] + r] = parts[k][r]
      BY <1>6, <1>8, Zenon DEF Places
    <2>2. QED
      BY <1>3, <2>1
  <1>13. \A k \in 1..n : \A q \in 1..Width(k) :
            LET r == given[end[k - 1] + q] IN
            /\ r.index = Undot(t.indexes[k].name) /\ r.kind = t.indexes[k].kind
            /\ r.col = Lower(Columns(k)[q])
    BY <1>5, <1>12
  <1>14. QED
    BY <1>9, <1>10, <1>11, <1>13 DEF n, Width, Columns, given

\* SQL Server's key has its columns, in their order, unless the names of two
\* indexes become one.
LEMMA KeyOfMSSQL ==
    ASSUME NEW t, Listing(t), Keyed(t), ~Merged(t)
    PROVE  KeyIs(MSSQLIndexes(t), Lowered(KeyOf(t)))
  <1> DEFINE given == MSSQLIndexRows(t)
             n == Len(t.indexes)
             Columns(k) == t.indexes[k].cols \o t.indexes[k].included
             Width(k) == Len(Columns(k))
  <1>0. IsSequence(t.indexes) /\ n \in Nat
    BY SequenceFacts DEF Listing
  <1>1. IsSequence(given)
    BY RowPlaces
  <1>2. PICK end \in [0..n -> Nat] :
            /\ \A k \in 1..n : end[k] = end[k - 1] + Width(k) /\ end[k] <= Len(given) /\ end[k - 1] \in Nat
            /\ \A k \in 1..n : \A q \in 1..Width(k) :
                  LET r == given[end[k - 1] + q] IN
                  /\ r.index = Undot(t.indexes[k].name) /\ r.kind = t.indexes[k].kind
                  /\ r.col = Lower(Columns(k)[q])
            /\ \A p \in 1..Len(given) : \E k \in 1..n : p \in (end[k - 1] + 1)..end[k]
    BY RowPlaces
  <1>3. \A k \in 1..n : IsSequence(t.indexes[k].cols) /\ IsSequence(t.indexes[k].included) /\ Width(k) \in Nat
    <2> TAKE k \in 1..n
    <2>1. t.indexes[k] \in Elements(t.indexes)
      BY <1>0, SequenceFacts
    <2>2. IsSequence(t.indexes[k].cols) /\ IsSequence(t.indexes[k].included)
      BY <2>1 DEF Listing
    <2>3. QED
      BY <2>2, ConcatHolds, SequenceFacts
  <1>4. MSSQLIndexes(t) = GroupRows(given)
    BY DEF MSSQLIndexes
  <1> HIDE DEF given, Width
  <1>5. Len(given) \in Nat
    BY <1>1, SequenceFacts
  <1>6. ASSUME NEW k \in 1..n, NEW p \in (end[k - 1] + 1)..end[k]
        PROVE  p \in 1..Len(given) /\ given[p].index = Undot(t.indexes[k].name) /\ given[p].kind = t.indexes[k].kind
    <2>1. end[k] = end[k - 1] + Width(k) /\ end[k] <= Len(given) /\ end[k - 1] \in Nat /\ Width(k) \in Nat
      BY <1>2, <1>3
    <2> DEFINE q == p - end[k - 1]
    <2>2. q \in 1..Width(k) /\ end[k - 1] + q = p /\ p \in 1..Len(given)
      BY <1>5, <2>1
    <2> HIDE DEF q
    <2>3. given[end[k - 1] + q].index = Undot(t.indexes[k].name) /\ given[end[k - 1] + q].kind = t.indexes[k].kind
      BY <1>2, <2>2
    <2>4. QED
      BY <2>2, <2>3
  <1>7. CASE KeyOf(t) = <<>> /\ \A i \in 1..n : t.indexes[i].kind # "pk"
    <2>1. \A p \in 1..Len(given) : given[p].kind # "pk"
      <3> TAKE p \in 1..Len(given)
      <3>1. PICK k \in 1..n : p \in (end[k - 1] + 1)..end[k]
        BY <1>2
      <3>2. QED
        BY <1>6, <1>7, <3>1
    <2>2. KeyIs(GroupRows(given), <<>>)
      BY <1>1, <2>1, GroupNoKey
    <2>3. Lowered(KeyOf(t)) = <<>>
      <3>1. Len(KeyOf(t)) = 0
        BY <1>7, EmptySequence
      <3>2. Lowered(KeyOf(t)) = [i \in 1..0 |-> Lower(KeyOf(t)[i])]
        BY <3>1 DEF Lowered
      <3>3. QED
        BY <3>2
    <2>4. QED
      BY <1>4, <2>2, <2>3
  <1>8. ASSUME KeyOf(t) # <<>>, NEW k \in 1..n, t.indexes[k].kind = "pk", KeyOf(t) = t.indexes[k].cols,
               \A i \in 1..n : t.indexes[i].kind = "pk" => i = k
        PROVE  KeyIs(MSSQLIndexes(t), Lowered(KeyOf(t)))
    <2> DEFINE key == t.indexes[k].cols
               m == Len(key)
               a == end[k - 1]
               name == Undot(t.indexes[k].name)
               cols == Lowered(key)
    <2>1. IsSequence(key) /\ key # <<>> /\ m \in Nat /\ m >= 1
      <3>1. IsSequence(key) /\ key # <<>>
        BY <1>3, <1>8
      <3> HIDE DEF key
      <3>2. QED
        BY <3>1, SequenceFacts, SequenceTail
    <2>2. Columns(k) = key /\ Width(k) = m
      <3>1. t.indexes[k].included = <<>>
        BY <1>8 DEF Keyed
      <3>2. key \o <<>> = key
        <4>1. key \in Seq(Elements(key))
          BY <2>1 DEF IsSequence
        <4> HIDE DEF key
        <4>2. QED
          BY <4>1
      <3>3. QED
        BY <3>1, <3>2 DEF Width
    <2>3. a \in Nat /\ end[k] = a + m /\ a + m <= Len(given)
      BY <1>2, <2>2
    <2>4. \A i \in 1..Len(given) : (given[i].index = name <=> i \in (a + 1)..(a + m)) /\ (given[i].kind = "pk" <=> i \in (a + 1)..(a + m))
      <3> TAKE i \in 1..Len(given)
      <3>1. PICK h \in 1..n : i \in (end[h - 1] + 1)..end[h]
        BY <1>2
      <3>2. given[i].index = Undot(t.indexes[h].name) /\ given[i].kind = t.indexes[h].kind
        BY <1>6, <3>1
      <3>3. given[i].index = name => h = k
        BY <3>2 DEF Merged
      <3>4. given[i].kind = "pk" => h = k
        BY <1>8, <3>2
      <3>5. h = k => i \in (a + 1)..(a + m)
        BY <2>3, <3>1
      <3>6. i \in (a + 1)..(a + m) => given[i].index = name /\ given[i].kind = "pk"
        BY <1>6, <1>8, <2>3
      <3>7. QED
        BY <3>3, <3>4, <3>5, <3>6
    <2>5. DOMAIN cols = 1..m /\ cols = [q \in 1..m |-> cols[q]] /\ \A q \in 1..m : cols[q] = Lower(key[q])
      BY DEF Lowered
    <2>6. IsSequence(cols) /\ Len(cols) = m
      <3> HIDE DEF cols, m
      <3>1. QED
        BY <2>1, <2>5, MakesSequence
    <2>7. \A q \in 1..m : given[a + q].col = cols[q]
      BY <1>2, <2>2, <2>5
    <2> HIDE DEF a, m, name, cols, key
    <2>8. KeyIs(GroupRows(given), cols)
      BY <1>1, <2>1, <2>3, <2>4, <2>6, <2>7, GroupKey
    <2>9. QED
      BY <1>4, <1>8, <2>8 DEF cols, key
  <1>9. QED
    BY <1>7, <1>8, KeyFound

\* A key that is read in each table is what KeysRead asks for.
LEMMA KeyCounted ==
    ASSUME NEW s, NEW cols, KeyIs(s, cols)
    PROVE  LET key == {i \in 1..Len(s) : s[i].primary} IN
           Cardinality(key) = (IF cols = <<>> THEN 0 ELSE 1) /\ \A i \in key : s[i].cols = cols
  <1> DEFINE key == {i \in 1..Len(s) : s[i].primary}
  <1>1. CASE cols = <<>> /\ \A i \in 1..Len(s) : ~s[i].primary
    <2>1. key = {}
      BY <1>1
    <2>2. QED
      BY <1>1, <2>1, FS_EmptySet
  <1>2. CASE cols # <<>> /\ \E p \in 1..Len(s) : /\ s[p].primary /\ s[p].cols = cols
                                                 /\ \A i \in 1..Len(s) : s[i].primary => i = p
    <2>1. PICK p \in 1..Len(s) : s[p].primary /\ s[p].cols = cols /\ \A i \in 1..Len(s) : s[i].primary => i = p
      BY <1>2
    <2>2. key = {p}
      BY <2>1
    <2>3. QED
      BY <1>2, <2>1, <2>2, FS_Singleton
  <1>3. QED
    BY <1>1, <1>2 DEF KeyIs

\* The readers of the four sources give a table its key, with its columns in
\* their order; so a loaded table has it in the catalog.
THEOREM KeysOfTheLoaded == SchemaSpec => []KeysRead
  <1>1. ASSUME SchemaInv, Ready, NEW t \in Loaded, ~Merged(t), job.engine = "sqlite" => KeyOf(t) = ColumnOrder(t)
        PROVE  LET key == {i \in 1..Len(CatalogOf(t).indexes) : CatalogOf(t).indexes[i].primary} IN
               /\ Cardinality(key) = (IF KeyOf(t) = <<>> THEN 0 ELSE 1)
               /\ \A i \in key : CatalogOf(t).indexes[i].cols =
                     [k \in 1..Len(KeyOf(t)) |-> IF job.engine = "mssql" THEN Lower(KeyOf(t)[k]) ELSE KeyOf(t)[k]]
    <2>1. job \in Jobs /\ CatalogOfFirst(catalog, Len(Wanted), "read") /\ (job.table = "" => ~DiscoveryFails)
      BY <1>1 DEF Ready, SchemaInv, ReadInv
    <2>2. PICK m \in 1..Len(Wanted) : Wanted[m] = t
      BY <2>1, WantedFacts
    <2>3. PICK i \in 1..Len(catalog) : \E j \in 1..Len(catalog[i].tables) : IsEntry(catalog, i, j, t, "read")
      BY <2>1, <2>2 DEF CatalogOfFirst, HoldsFirst
    <2>4. PICK j \in 1..Len(catalog[i].tables) : IsEntry(catalog, i, j, t, "read")
      BY <2>3
    <2>5. CatalogOf(t).indexes = ReadIndexes(t)
      <3>1. CatalogOf(t) = catalog[i].tables[j]
        BY <2>1, <2>4, EntryFound
      <3>2. catalog[i].tables[j].indexes = ReadIndexes(t)
        BY <2>4, EntryOf
      <3>3. QED
        BY <3>1, <3>2
    <2>6. Listing(t)
      BY <2>1, <2>2, WantedFacts
    <2>7. Keyed(t)
      <3>1. t \in Elements(job.tables)
        BY DEF Loaded
      <3>2. QED
        <4>1. \A u \in Elements(job.tables) : Keyed(u)
          BY <2>1, SourcesAssumption DEF SourcesAssumption, Keyed
        <4>2. QED
          BY <3>1, <4>1
    <2> DEFINE key == KeyOf(t)
               cols == [k \in 1..Len(key) |-> IF job.engine = "mssql" THEN Lower(key[k]) ELSE key[k]]
    <2>8. key = [k \in 1..Len(key) |-> key[k]] /\ Len(key) \in Nat
      <3>1. IsSequence(key)
        <4>1. CASE key = <<>>
          BY <4>1, EmptySequence
        <4>2. CASE key # <<>>
          <5>1. PICK p \in 1..Len(t.indexes) : key = t.indexes[p].cols
            BY <2>6, <2>7, <4>2, KeyFound
          <5>2. t.indexes[p] \in Elements(t.indexes)
            BY <2>6, SequenceFacts DEF Listing
          <5>3. QED
            BY <2>6, <5>1, <5>2 DEF Listing
        <4>3. QED
          BY <4>1, <4>2
      <3> HIDE DEF key
      <3>2. QED
        BY <3>1, SequenceFacts
    <2>9. KeyIs(ReadIndexes(t), cols) /\ (cols = <<>> <=> key = <<>>)
      <3> HIDE DEF key
      <3>1. CASE job.engine = "mssql"
        <4>1. ReadIndexes(t) = MSSQLIndexes(t) /\ cols = Lowered(key)
          BY <3>1 DEF ReadIndexes, Lowered
        <4>2. KeyIs(MSSQLIndexes(t), Lowered(key))
          BY <1>1, <2>6, <2>7, KeyOfMSSQL DEF key
        <4>3. QED
          BY <4>1, <4>2
      <3>2. CASE job.engine # "mssql"
        <4>1. cols = key
          BY <2>8, <3>2
        <4>2. KeyIs(ReadIndexes(t), key)
          BY <1>1, <2>6, <2>7, <3>2, KeyListed, KeyOfSQLite DEF ReadIndexes, MySQLIndexes, SQLiteIndexes, PgSQLIndexes, key
        <4>3. QED
          BY <4>1, <4>2
      <3>3. QED
        BY <3>1, <3>2
    <2> HIDE DEF cols, key
    <2> DEFINE s == CatalogOf(t).indexes
               keys == {h \in 1..Len(s) : s[h].primary}
    <2>10. KeyIs(s, cols)
      BY <2>5, <2>9
    <2> HIDE DEF s
    <2>11. Cardinality(keys) = (IF cols = <<>> THEN 0 ELSE 1) /\ \A h \in keys : s[h].cols = cols
      BY <2>10, KeyCounted
    <2>12. QED
      BY <2>9, <2>11 DEF s, cols, key
  <1>2. SchemaInv => KeysRead
    BY <1>1 DEF KeysRead
  <1>3. QED
    BY <1>2, ScriptsOfCatalog, PTL
=============================================================================
