--------------------------- MODULE TableNavigation ---------------------------
(***************************************************************************)
(* How the tables of a catalog are visited: copyAllTables asks the source   *)
(* for its TableNames and, for each name, makes that table the active one   *)
(* (SetActiveTable); reading (MapRows) then goes by ActiveTable and writing *)
(* (pipeline.New) by SchemaName and TableName. All of them share the        *)
(* source's activeTable, an index, and a SQL Server catalog has several     *)
(* schemas.                                                                 *)
(*                                                                          *)
(* A name is a record; the code joins its parts with a dot and splits it at *)
(* the first one. Loading a table is one step.                              *)
(***************************************************************************)
EXTENDS Naturals, SequencesExt

CONSTANTS
    Name,         \* names of schemas and tables
    Catalogs,     \* what FetchMetadata may find: a sequence of schemas, each a
                  \* record of its name and the sequence of its tables' names
    Configured    \* the schemas a source may be configured with

\* A database has no two tables of one name in a schema.
ASSUME CatalogsAssumption ==
    /\ Catalogs \subseteq Seq([name : Name, tables : Seq(Name)])
    /\ \A c \in Catalogs : \A k \in DOMAIN c : \A i, j \in DOMAIN c[k].tables :
          c[k].tables[i] = c[k].tables[j] => i = j

VARIABLES
    kind,         \* "mssql", or "other" for a source of MySQL, SQLite or PostgreSQL
    catalog,
    schema,       \* the source's configured schema
    activeTable,  \* its index of the active table, from 1
    pos,          \* position in TableNames
    stage,        \* "activate", "copy", "done" or "failed"
    copies,       \* the loads done: from a source table to a target table
    faults        \* 1 once a load failed for a reason of the outside world

navVars == <<kind, catalog, schema, activeTable, pos, stage, copies, faults>>
sourceFields == <<kind, catalog, schema>>

Qualified(s, t) == [schema |-> s, table |-> t]

----------------------------------------------------------------------------
(* The catalog *)

\* The tables of one schema of the catalog, in order.
TablesOf(s) == [i \in DOMAIN s.tables |-> Qualified(s.name, s.tables[i])]

\* All the tables, schema by schema. PrepareTarget has created them in the
\* target, which has no others here.
Tables == FlattenSeq([k \in DOMAIN catalog |-> TablesOf(catalog[k])])

\* "schema.table" for SQL Server; the others leave the schema out, which is the
\* same to them: their catalog has one.
TableNames == Tables

ActiveTable == Tables[activeTable]

\* The test of the SQL Server source compares the index of a table with the
\* number of schemas.
SchemaName ==
    IF kind = "mssql" /\ activeTable <= Len(catalog) THEN ActiveTable.schema ELSE schema

----------------------------------------------------------------------------
(* copyAllTables *)

\* Mutant: any table of the schema will do.
FoundAny(name) == IF catalog = <<>> THEN {} ELSE DOMAIN catalog[1].tables

\* Mutant: the scan of the schema misses its last table.
FoundButLast(name) ==
    IF catalog = <<>> THEN {}
    ELSE {i \in 1 .. Len(catalog[1].tables) - 1 : catalog[1].tables[i] = name.table}

\* Where SetActiveTable finds a table: it leaves the loop after one schema.
Found(name) ==
    IF catalog = <<>> THEN {}
    ELSE {i \in DOMAIN catalog[1].tables : catalog[1].tables[i] = name.table}

SetActiveTable ==
    /\ stage = "activate"
    /\ pos <= Len(TableNames)
    /\ \E i \in Found(TableNames[pos]) : activeTable' = i
    /\ stage' = "copy"
    /\ UNCHANGED <<sourceFields, pos, copies, faults>>

NotFound ==
    /\ stage = "activate"
    /\ pos <= Len(TableNames)
    /\ Found(TableNames[pos]) = {}
    /\ stage' = "failed"
    /\ UNCHANGED <<sourceFields, activeTable, pos, copies, faults>>

\* The table the rows go to: pipeline.New(..., SchemaName(), TableName()).
Destination == Qualified(SchemaName, ActiveTable.table)

Exists(t) == \E i \in DOMAIN Tables : Tables[i] = t

Copy ==
    /\ stage = "copy"
    /\ Exists(Destination)
    /\ copies' = Append(copies, [from |-> ActiveTable, to |-> Destination])
    /\ pos' = pos + 1
    /\ stage' = "activate"
    /\ UNCHANGED <<sourceFields, activeTable, faults>>

\* Without its table the COPY is refused; any load may fail anyway.
CopyFails ==
    /\ stage = "copy"
    /\ faults' = IF Exists(Destination) THEN 1 ELSE faults
    /\ stage' = "failed"
    /\ UNCHANGED <<sourceFields, activeTable, pos, copies>>

AllVisited ==
    /\ stage = "activate"
    /\ pos > Len(TableNames)
    /\ stage' = "done"
    /\ UNCHANGED <<sourceFields, activeTable, pos, copies, faults>>

\* A source other than SQL Server puts its whole catalog in the configured
\* schema.
NavInit ==
    /\ kind \in {"mssql", "other"}
    /\ schema \in Configured
    /\ catalog \in Catalogs
    /\ kind = "other" => Len(catalog) = 1 /\ catalog[1].name = schema
    /\ activeTable = 1
    /\ pos = 1
    /\ stage = "activate"
    /\ copies = <<>>
    /\ faults = 0

NavNext == SetActiveTable \/ NotFound \/ Copy \/ CopyFails \/ AllVisited

NavSpec == NavInit /\ [][NavNext]_navVars

----------------------------------------------------------------------------
(* Properties *)

\* Types; and the loop has loaded every table it has passed.
NavTypeOK ==
    /\ schema \in Configured /\ catalog \in Catalogs
    /\ activeTable \in 1 .. Len(Tables) + 1
    /\ pos \in 1 .. Len(Tables) + 1
    /\ stage \in {"activate", "copy", "done", "failed"}
    /\ Len(copies) = pos - 1
    /\ faults \in {0, 1}

\* All the tables are in the schema that the source is configured with.
OneSchema == Len(catalog) = 1 /\ catalog[1].name = schema

\* A load of one schema that ends without error has read every table of the
\* catalog once and written it to the target table of its own name, though
\* reading and writing find their table on different ways.
EachTableOnce ==
    stage = "done" /\ OneSchema =>
        copies = [i \in DOMAIN Tables |-> [from |-> Tables[i], to |-> Tables[i]]]

\* Such a load never fails because a table of its own catalog is not found, in
\* the source or in the target.
FindsItsTables == stage = "failed" /\ OneSchema => faults = 1
=============================================================================
