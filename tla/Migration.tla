------------------------------ MODULE Migration ------------------------------
(***************************************************************************)
(* The life of a migration, orchestrator.Migration.Run: fetch the source's  *)
(* metadata, prepare the target (PrepareTarget), copy each table, complete  *)
(* the target (CompleteTarget); and the runs the user makes after it, with  *)
(* the same options or others, on the target that earlier runs have left.   *)
(*                                                                          *)
(* Every statement is its own transaction and the first error ends the run, *)
(* so what a failed run did stays. The target is modelled by what later     *)
(* statements depend on: which tables exist, the copies of each source row, *)
(* primary keys, foreign keys, and sequences that lag behind the rows. A    *)
(* table has one index, its primary key, and at most one foreign key;       *)
(* loading one table is TableLoad in a single step.                         *)
(***************************************************************************)
EXTENDS Naturals, Sequences

CONSTANTS
    Table,         \* the source's tables
    Order,         \* the tables in the order FetchMetadata found them
    Parent,        \* Parent[t]: the table t's foreign key references
    NoParent,      \* Parent[t] of a table without foreign key
    Row,           \* the rows of each table
    Schemas,       \* "public", or "other" for a schema not on the search path
    OptionSets,    \* the options a user may run a migration with
    MaxRuns        \* bound on the runs

Options == {"CreateTables", "Truncate", "IncludeDrop", "CreateIndexes",
            "ForeignKeys", "ResetSequences", "SchemaOnly", "DataOnly"}

\* ApplyWithOption makes "SchemaOnly" and "DataOnly" exclude each other.
ASSUME OptionsAssumption ==
    /\ OptionSets \subseteq SUBSET Options
    /\ \A o \in OptionSets : ~({"SchemaOnly", "DataOnly"} \subseteq o)

ASSUME OrderAssumption ==
    /\ Order \in Seq(Table)
    /\ Order # <<>>
    /\ \A t \in Table : \E i \in DOMAIN Order : Order[i] = t
    /\ \A i, j \in DOMAIN Order : Order[i] = Order[j] => i = j
    /\ Parent \in [Table -> Table \cup {NoParent}]
    /\ NoParent \notin Table

VARIABLES
    opts,          \* the options of the current run
    stage,         \* the statement the run is at, "idle", "done" or "failed"
    at,            \* its table, by position in Order
    runs,          \* runs started
    faults,        \* 1 once a statement of this run failed for no reason of its own
    schema,        \* the target schema
    exists,        \* the tables that exist in the target
    rows,          \* rows[t][r]: copies of row r in table t of the target
    keyed,         \* the tables with a primary key
    fkeys,         \* the tables whose foreign key exists
    lagging        \* the tables whose sequence would hand out a key in use

runVars == <<opts, stage, at, runs, faults, schema>>
target == <<exists, rows, keyed, fkeys, lagging>>
vars == <<runVars, target>>

Stages == {"fetch", "drop", "create", "truncate", "copy", "index", "fkey", "sequence"}

Here == Order[at]

Empty == [r \in Row |-> 0]

Running == stage \in Stages

\* Foreign keys of other tables that reference t.
ReferencedBy(t) == {u \in fkeys : Parent[u] = t /\ u # t}

----------------------------------------------------------------------------
(* Where the run goes next *)

\* Mutant: the loop over the tables ends before the last.
NextTableOneShort(this, following) ==
    IF at + 1 < Len(Order)
    THEN stage' = this /\ at' = at + 1
    ELSE stage' = following /\ at' = 1

NextTable(this, following) ==
    IF at < Len(Order)
    THEN stage' = this /\ at' = at + 1
    ELSE stage' = following /\ at' = 1

AfterPrepare == IF "SchemaOnly" \in opts THEN "done" ELSE "copy"

AfterCopy == IF "DataOnly" \in opts THEN "done" ELSE "index"

Stays == UNCHANGED <<opts, runs, faults, schema>>

----------------------------------------------------------------------------
(* What the server refuses *)

Refused ==
    \/ /\ stage = "create" /\ "CreateTables" \in opts
       /\ Here \in exists
    \/ /\ stage = "truncate" /\ "Truncate" \in opts
       /\ Here \notin exists \/ ReferencedBy(Here) # {}
    \/ /\ stage = "copy"
       /\ \/ Here \notin exists
          \/ Here \in keyed /\ \E r \in Row : rows[Here][r] > 0
          \/ /\ Here \in fkeys /\ Parent[Here] # Here
             /\ \E r \in Row : rows[Parent[Here]][r] = 0
    \/ /\ stage = "index" /\ "CreateIndexes" \in opts
       /\ \/ Here \notin exists
          \/ Here \in keyed
          \/ \E r \in Row : rows[Here][r] > 1
    \/ /\ stage = "fkey" /\ "ForeignKeys" \in opts /\ Parent[Here] # NoParent
       /\ \/ {Here, Parent[Here]} \cap exists # {Here, Parent[Here]}
          \/ Here \in fkeys
          \/ Parent[Here] \notin keyed
          \/ \E r \in Row : rows[Parent[Here]][r] = 0 /\ rows[Here] # Empty

----------------------------------------------------------------------------
(* The statements *)

StartRun(o) ==
    /\ ~Running
    /\ runs < MaxRuns
    /\ opts' = o
    /\ stage' = "fetch"
    /\ at' = 1
    /\ runs' = runs + 1
    /\ faults' = 0
    /\ UNCHANGED <<schema, target>>

FetchMetadata ==
    /\ stage = "fetch"
    /\ stage' = "drop"
    /\ UNCHANGED <<at, target>> /\ Stays

\* Mutant: DROP TABLE spares what depends on the table.
DropWithoutCascade ==
    /\ stage = "drop"
    /\ stage' = "create"
    /\ IF "IncludeDrop" \in opts /\ ReferencedBy(Here) = {}
       THEN /\ exists' = exists \ {Here}
            /\ rows' = [rows EXCEPT ![Here] = Empty]
            /\ keyed' = keyed \ {Here}
            /\ lagging' = lagging \ {Here}
            /\ fkeys' = fkeys \ {Here}
       ELSE UNCHANGED target
    /\ UNCHANGED at /\ Stays

\* DROP TABLE IF EXISTS ... CASCADE
DropTable ==
    /\ stage = "drop"
    /\ stage' = "create"
    /\ IF "IncludeDrop" \in opts
       THEN /\ exists' = exists \ {Here}
            /\ rows' = [rows EXCEPT ![Here] = Empty]
            /\ keyed' = keyed \ {Here}
            /\ lagging' = lagging \ {Here}
            /\ fkeys' = fkeys \ ({Here} \cup ReferencedBy(Here))
       ELSE UNCHANGED target
    /\ UNCHANGED at /\ Stays

\* Mutant: CREATE TABLE IF NOT EXISTS.
CreateIfNotExists ==
    /\ stage = "create"
    /\ stage' = "truncate"
    /\ exists' = IF "CreateTables" \in opts THEN exists \cup {Here} ELSE exists
    /\ UNCHANGED <<at, rows, keyed, fkeys, lagging>> /\ Stays

CreateTable ==
    /\ stage = "create"
    /\ ~Refused
    /\ stage' = "truncate"
    /\ exists' = IF "CreateTables" \in opts THEN exists \cup {Here} ELSE exists
    /\ UNCHANGED <<at, rows, keyed, fkeys, lagging>> /\ Stays

Truncate ==
    /\ stage = "truncate"
    /\ ~Refused
    /\ rows' = IF "Truncate" \in opts THEN [rows EXCEPT ![Here] = Empty] ELSE rows
    /\ NextTable("drop", AfterPrepare)
    /\ UNCHANGED <<exists, keyed, fkeys, lagging>> /\ Stays

\* Rows of a copy that reach the table: all of them, or the batches committed
\* before the error.
Copied(some) ==
    [rows EXCEPT ![Here] = [r \in Row |-> IF r \in some THEN @[r] + 1 ELSE @[r]]]

Copy ==
    /\ stage = "copy"
    /\ ~Refused
    /\ rows' = Copied(Row)
    /\ lagging' = lagging \cup {Here}
    /\ NextTable("copy", AfterCopy)
    /\ UNCHANGED <<exists, keyed, fkeys>> /\ Stays

CreateIndex ==
    /\ stage = "index"
    /\ ~Refused
    /\ keyed' = IF "CreateIndexes" \in opts THEN keyed \cup {Here} ELSE keyed
    /\ NextTable("index", "fkey")
    /\ UNCHANGED <<exists, rows, fkeys, lagging>> /\ Stays

CreateForeignKey ==
    /\ stage = "fkey"
    /\ ~Refused
    /\ fkeys' = IF "ForeignKeys" \in opts /\ Parent[Here] # NoParent
                THEN fkeys \cup {Here} ELSE fkeys
    /\ NextTable("fkey", "sequence")
    /\ UNCHANGED <<exists, rows, keyed, lagging>> /\ Stays

\* setval names the sequence without its schema, so only on the search path is
\* it found; and any error of setval is skipped, a lost connection included.
ResetSequence ==
    /\ stage = "sequence"
    /\ \/ /\ lagging' = IF "ResetSequences" \in opts /\ schema = "public" /\ Here \in exists
                        THEN lagging \ {Here} ELSE lagging
          /\ UNCHANGED faults
       \/ lagging' = lagging /\ faults' = 1
    /\ NextTable("sequence", "done")
    /\ UNCHANGED <<opts, runs, schema, exists, rows, keyed, fkeys>>

\* Whatever the run is at fails: refused by the server, or for a reason of the
\* outside world (a connection lost, the disk full, the user's interrupt). A
\* failed copy leaves the rows of any batches that the server accepts.
Fail ==
    /\ Running
    /\ stage # "sequence"
    /\ stage' = "failed"
    /\ faults' = IF Refused THEN faults ELSE 1
    /\ \/ UNCHANGED target
       \/ /\ stage = "copy"
          /\ Here \in exists
          /\ \E some \in SUBSET Row :
                /\ Here \in keyed => \A r \in some : rows[Here][r] = 0
                /\ rows' = Copied(some)
                /\ lagging' = IF some = {} THEN lagging ELSE lagging \cup {Here}
          /\ UNCHANGED <<exists, keyed, fkeys>>
    /\ UNCHANGED <<opts, at, runs, schema>>

Init ==
    /\ opts = {}
    /\ stage = "idle"
    /\ at = 1
    /\ runs = 0
    /\ faults = 0
    /\ schema \in Schemas
    /\ exists \in {{}, Table}
    /\ rows = [t \in Table |-> Empty]
    /\ keyed = {}
    /\ fkeys = {}
    /\ lagging = {}

Work ==
    \/ FetchMetadata \/ DropTable \/ CreateTable \/ Truncate
    \/ Copy \/ CreateIndex \/ CreateForeignKey \/ ResetSequence
    \/ Fail

Next == (\E o \in OptionSets : StartRun(o)) \/ Work

Spec == Init /\ [][Next]_vars

----------------------------------------------------------------------------
(* Properties *)

TypeOK ==
    /\ opts \in OptionSets \cup {{}}
    /\ stage \in Stages \cup {"idle", "done", "failed"}
    /\ at \in DOMAIN Order
    /\ runs \in Nat
    /\ faults \in {0, 1}
    /\ schema \in Schemas
    /\ exists \in SUBSET Table
    /\ rows \in [Table -> [Row -> Nat]]
    /\ keyed \in SUBSET exists
    /\ fkeys \in SUBSET exists
    /\ lagging \in SUBSET Table

\* A run that created the tables or truncated them, and ended without error,
\* has loaded every row once, whatever earlier runs had left in the target.
LoadedOnce ==
    stage = "done" /\ "SchemaOnly" \notin opts
                   /\ opts \cap {"CreateTables", "Truncate"} # {} =>
        \A t \in Table : \A r \in Row : rows[t][r] = 1

\* The options of a run that starts by dropping what it creates.
FromScratch ==
    /\ {"IncludeDrop", "CreateTables"} \subseteq opts
    /\ "ForeignKeys" \in opts => "CreateIndexes" \in opts

\* Such a run is refused nothing, wherever an earlier run stopped: it fails
\* only for a reason of the outside world.
DropMakesRerunSafe == FromScratch => ~Refused

\* A complete run from scratch that ends without error leaves all constraints,
\* and on the search path no sequence behind its table.
CompleteMeansComplete ==
    stage = "done" /\ FromScratch /\ opts \cap {"SchemaOnly", "DataOnly"} = {} =>
        /\ exists = Table
        /\ "CreateIndexes" \in opts => keyed = Table
        /\ "ForeignKeys" \in opts => \A t \in Table : Parent[t] # NoParent => t \in fkeys
        /\ "ResetSequences" \in opts /\ schema = "public" /\ faults = 0 => lagging = {}
=============================================================================
