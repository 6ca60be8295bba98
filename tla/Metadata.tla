------------------------------ MODULE Metadata ------------------------------
(***************************************************************************)
(* FetchMetadata of the four database sources: which tables are discovered  *)
(* and what is read of each into the catalog. The queries of one table are  *)
(* one step here; any of them may fail.                                     *)
(*                                                                          *)
(* A table of the source is [schema, name, cols, indexes, fkeys, children,  *)
(* triggers]; an index [name, kind, cols, included, conds] of kind "pk",    *)
(* "unique", "plain" or, for SQLite's automatic ones, "auto"; a foreign key *)
(* [name, cols, schema, ref, refcols].                                      *)
(***************************************************************************)
EXTENDS Defaults

CONSTANT Jobs     \* what may be read: a source, its settings, its database

VARIABLES
    job,          \* [engine, schema, table, only, except, opts, tables, views, types, functions]
    pc,           \* "start", "tables", "read", "prepare", "complete", "done" or "error"
    todo,         \* the tables to read
    catalog       \* the schemas read, each [name, tables]

metadataVars == <<job, pc, todo, catalog>>

Elements(seq) == {seq[i] : i \in 1..Len(seq)}
IsSequence(s) == s \in Seq(Elements(s))

\* The folding of names, for the names that have upper case or a dot.
Lower(name) == IF name = "Id" THEN "id" ELSE IF name = "Kind" THEN "kind" ELSE name
Undot(name) == IF name = "ix.kind" THEN "ix_kind" ELSE name
Strip(name) == IF name = "v_pgloader" THEN "v" ELSE name

\* A source gives its tables in some order, each once, and of a table each index
\* once. Only SQL Server has tables in more than one schema, and its views share
\* the names of its tables; only PostgreSQL has partitions, which are not tables
\* of their own.
SourcesAssumption ==
    \A j \in Jobs :
        LET NameOf(t) == IF <<t.schema, t.name>> \in j.views THEN Strip(t.name) ELSE t.name IN
        /\ IsSequence(j.tables) /\ IsSequence(j.only) /\ IsSequence(j.except)
        /\ IsSequence(j.types) /\ IsSequence(j.functions)
        /\ \A t \in Elements(j.tables) :
              IsSequence(t.cols) /\ IsSequence(t.indexes) /\ IsSequence(t.fkeys) /\ IsSequence(t.children)
              /\ IsSequence(t.triggers) /\ \A x \in Elements(t.indexes) : IsSequence(x.cols) /\ IsSequence(x.included)
        /\ \A i, k \in 1..Len(j.tables) :
              j.tables[i].schema = j.tables[k].schema /\ NameOf(j.tables[i]) = NameOf(j.tables[k]) => i = k
        /\ \A t, u \in Elements(j.tables) :
              /\ \A i, k \in 1..Len(t.indexes) : t.indexes[i].name = t.indexes[k].name => i = k
              /\ t.children # <<>> => j.engine = "pgsql" /\ u.name \notin Elements(t.children)
        /\ \A t \in Elements(j.tables) : \A i, k \in 1..Len(t.indexes) : t.indexes[i].kind = "pk" =>
              /\ t.indexes[k].kind = "pk" => i = k
              /\ t.indexes[i].cols # <<>> /\ t.indexes[i].included = <<>>
        /\ j.engine # "mssql" => j.views = {} /\ \A t, u \in Elements(j.tables) : t.schema = u.schema
ASSUME SourcesAssumption

----------------------------------------------------------------------------
(* Discovery *)

\* A pattern is [names, valid]: what it matches, and whether it compiles. An
\* invalid one is found when it is tried, that is if none before it matches.
TableMatches(name, patterns) ==
    LET tried == {i \in 1..Len(patterns) : name \in patterns[i].names \/ ~patterns[i].valid} IN
    IF tried = {} THEN "no" ELSE IF patterns[Least(tried)].valid THEN "yes" ELSE "invalid"

\* The elements that pass a test, in their order.
Filter(seq, Test(_)) == FlattenSeq([i \in 1..Len(seq) |-> IF Test(seq[i]) THEN <<seq[i]>> ELSE <<>>])

\* Mutant: what is excluded is not asked of a table that is included.
SelectedByOne(t) ==
    IF job.only # <<>> THEN TableMatches(t.name, job.only)
    ELSE IF TableMatches(t.name, job.except) = "yes" THEN "no" ELSE "yes"

Selected(t) ==
    LET only == IF job.only = <<>> THEN "yes" ELSE TableMatches(t.name, job.only) IN
    IF only # "yes" THEN only
    ELSE IF job.except = <<>> THEN "yes"
    ELSE IF TableMatches(t.name, job.except) = "yes" THEN "no"
    ELSE IF TableMatches(t.name, job.except) = "no" THEN "yes" ELSE "invalid"

\* PostgreSQL's reader has no filter, and partitions are not tables of its own.
Discovered ==
    IF job.engine = "pgsql" THEN job.tables ELSE Filter(job.tables, LAMBDA t : Selected(t) = "yes")
DiscoveryFails == job.engine # "pgsql" /\ \E i \in 1..Len(job.tables) : Selected(job.tables[i]) = "invalid"

\* The one table of the command, empty if the source has none of that name.
Named ==
    LET hits == {i \in 1..Len(job.tables) : job.tables[i].name = job.table /\
                    (job.engine = "mssql" => job.tables[i].schema = job.schema)} IN
    IF hits # {} THEN job.tables[Least(hits)]
    ELSE [schema |-> job.schema, name |-> job.table, cols |-> <<>>, indexes |-> <<>>, fkeys |-> <<>>,
          children |-> <<>>, triggers |-> <<>>]

----------------------------------------------------------------------------
(* Columns, indexes and foreign keys of a table *)

IndexOf(t, kind) == {i \in 1..Len(t.indexes) : t.indexes[i].kind = kind}
KeyOf(t) == IF IndexOf(t, "pk") = {} THEN <<>> ELSE t.indexes[Least(IndexOf(t, "pk"))].cols

\* The default rules of PostgreSQL; every other type keeps its name.
PgRenamed ==
    [money |-> "numeric", txid_snapshot |-> "text", pg_lsn |-> "text", xid |-> "bigint", cid |-> "bigint",
     pg_node_tree |-> "text", aclitem |-> "text"]
TargetType(c, auto) ==
    IF c.source = "pgsql"
    THEN IF c.type \in DOMAIN PgRenamed THEN PgRenamed[c.type] ELSE c.type
    ELSE Apply(EngineOf(c.source, <<>>), [c EXCEPT !.auto = auto]).target

CatalogColumn(c, name, auto, pk) ==
    [name |-> name, type |-> TargetType(c, auto), auto |-> auto, default |-> DefaultOf(c, TargetType(c, FALSE)),
     pk |-> pk, seq |-> c.seq, owned |-> c.owned, utype |-> c.utype]

\* detectAutoIncrement: a key column of type integer, if the table has
\* AUTOINCREMENT; only then does its type become bigserial.
DetectAutoIncrement(t, c) == c.auto /\ c.type = "integer" /\ Contains(KeyOf(t), c.name)

MySQLColumn(c) == CatalogColumn(c, c.name, c.auto, FALSE)
MSSQLColumn(c) == CatalogColumn(c, Lower(c.name), c.auto, FALSE)
SQLiteColumn(t, c) == CatalogColumn(c, c.name, DetectAutoIncrement(t, c), Contains(KeyOf(t), c.name))
PgSQLColumn(t, c) == CatalogColumn(c, c.name, c.auto, Contains(KeyOf(t), c.name))
ReadColumn(t, c) ==
    IF job.engine = "mysql" THEN MySQLColumn(c)
    ELSE IF job.engine = "mssql" THEN MSSQLColumn(c)
    ELSE IF job.engine = "sqlite" THEN SQLiteColumn(t, c) ELSE PgSQLColumn(t, c)
ReadColumns(t) == [i \in 1..Len(t.cols) |-> ReadColumn(t, t.cols[i])]

CatalogIndex(name, kind, cols, filter) ==
    [name |-> name, primary |-> kind = "pk", unique |-> kind \in {"pk", "unique"}, cols |-> cols, filter |-> filter]

\* One row per column, those of the key before those only included.
MSSQLIndexRows(t) ==
    FlattenSeq([i \in 1..Len(t.indexes) |->
        LET x == t.indexes[i] IN
        [j \in 1..Len(x.cols \o x.included) |->
            [index |-> Undot(x.name), kind |-> x.kind, col |-> Lower((x.cols \o x.included)[j]),
             filter |-> TranslateFilter(PrintMSSQL(x.conds))]]])

\* The rows of one name make one index, in the order the names come; the first
\* of them says what kind of index it is.
GroupRows(rows) ==
    LET ColsOf(name) == FlattenSeq([i \in 1..Len(rows) |-> IF rows[i].index = name THEN <<rows[i].col>> ELSE <<>>])
        IsFirst(i) == \A j \in 1..(i - 1) : rows[j].index # rows[i].index
        Group(r) == CatalogIndex(r.index, r.kind, ColsOf(r.index), r.filter)
    IN  FlattenSeq([i \in 1..Len(rows) |-> IF IsFirst(i) THEN <<Group(rows[i])>> ELSE <<>>])

\* Mutant: SQLite's row-id keys get no index.
EnsureNoPKIndex(t, indexes) == indexes

\* A key without an index of its own gets one, of the key columns in the order
\* of the table.
ColumnOrder(t) == Filter([i \in 1..Len(t.cols) |-> t.cols[i].name], LAMBDA n : Contains(KeyOf(t), n))
EnsurePKIndex(t, indexes) ==
    LET key == ColumnOrder(t) IN
    IF key = <<>> \/ \E i \in 1..Len(indexes) : indexes[i].primary THEN indexes
    ELSE Append(indexes, CatalogIndex(t.name \o "_pkey", "pk", key, <<>>))

Listed(indexes) ==
    [i \in 1..Len(indexes) |-> CatalogIndex(indexes[i].name, indexes[i].kind, indexes[i].cols, <<>>)]

MySQLIndexes(t) == Listed(t.indexes)
MSSQLIndexes(t) == GroupRows(MSSQLIndexRows(t))
\* Of SQLite's list only what CREATE INDEX made is kept (origin "c").
SQLiteIndexes(t) == EnsurePKIndex(t, Listed(Filter(t.indexes, LAMBDA x : x.kind \notin {"auto", "pk"})))
PgSQLIndexes(t) == Listed(t.indexes)
ReadIndexes(t) ==
    IF job.engine = "mysql" THEN MySQLIndexes(t)
    ELSE IF job.engine = "mssql" THEN MSSQLIndexes(t)
    ELSE IF job.engine = "sqlite" THEN SQLiteIndexes(t) ELSE PgSQLIndexes(t)

\* A foreign key of the catalog; "" is a table named without schema.
CatalogForeignKey(t, k, name, schema, refschema) ==
    [name |-> name, schema |-> schema, on |-> t.name, cols |-> k.cols, refschema |-> refschema, ref |-> k.ref,
     refcols |-> k.refcols]
Lowered(names) == [i \in 1..Len(names) |-> Lower(names[i])]

MySQLForeignKey(t, k) == CatalogForeignKey(t, k, k.name, "", "")
MSSQLForeignKey(t, k) ==
    CatalogForeignKey(t, [k EXCEPT !.cols = Lowered(@), !.refcols = Lowered(@)], Undot(k.name), t.schema, k.schema)
SQLiteForeignKey(t, k) == CatalogForeignKey(t, k, "fk_" \o t.name \o "_" \o k.ref, "", "")
PgSQLForeignKey(t, k) == CatalogForeignKey(t, k, k.name, "", k.schema)
ReadForeignKey(t, k) ==
    IF job.engine = "mysql" THEN MySQLForeignKey(t, k)
    ELSE IF job.engine = "mssql" THEN MSSQLForeignKey(t, k)
    ELSE IF job.engine = "sqlite" THEN SQLiteForeignKey(t, k) ELSE PgSQLForeignKey(t, k)

ReadTable(t) ==
    [name |-> t.name, cols |-> ReadColumns(t), indexes |-> ReadIndexes(t),
     fkeys |-> [i \in 1..Len(t.fkeys) |-> ReadForeignKey(t, t.fkeys[i])],
     children |-> t.children, triggers |-> t.triggers]

\* SQLite gives no column for a key that references the primary key by
\* default, which cannot be scanned; PostgreSQL must find the table.
Unreadable(t) ==
    \/ job.engine = "sqlite" /\ \E i \in 1..Len(t.fkeys) : t.fkeys[i].refcols = <<>>
    \/ job.engine = "pgsql" /\ \A i \in 1..Len(job.tables) : job.tables[i].name # t.name

----------------------------------------------------------------------------
(* The catalog *)

\* setPKFlag looks a table up by its name among those already in the catalog,
\* where the one being read is not yet: MySQL marks nothing, SQL Server a
\* column of a table of the same name in a schema read before.
FlagColumns(t, ks) == [t EXCEPT !.cols = [k \in 1..Len(t.cols) |-> [t.cols[k] EXCEPT !.pk = @ \/ k \in ks]]]
SetPKFlag(cat, name, cols) ==
    LET Hits(col) == {h \in (1..Len(cat)) \X (UNION {1..Len(cat[i].tables) : i \in 1..Len(cat)}) :
                        /\ h[2] <= Len(cat[h[1]].tables) /\ cat[h[1]].tables[h[2]].name = name
                        /\ col \in {c.name : c \in Elements(cat[h[1]].tables[h[2]].cols)}}
        IsFirst(h, col) == h \in Hits(col) /\ \A o \in Hits(col) : h[1] < o[1] \/ (h[1] = o[1] /\ h[2] <= o[2])
        Flagged(i, j) == {k \in 1..Len(cat[i].tables[j].cols) :
                            LET col == cat[i].tables[j].cols[k].name IN col \in cols /\ IsFirst(<<i, j>>, col)}
    IN  [i \in 1..Len(cat) |->
            [name |-> cat[i].name,
             tables |-> [j \in 1..Len(cat[i].tables) |-> FlagColumns(cat[i].tables[j], Flagged(i, j))]]]

MarkKey(cat, t) ==
    IF job.engine # "mssql" THEN cat
    ELSE SetPKFlag(cat, t.name, UNION {Elements(x.cols) : x \in {x \in Elements(ReadIndexes(t)) : x.primary}})

\* Only SQL Server's schemas are kept apart in the target.
SchemaOf(t) == IF job.engine = "mssql" THEN t.schema ELSE job.schema
AppendTable(cat, t) ==
    LET same == {i \in 1..Len(cat) : cat[i].name = SchemaOf(t)} IN
    IF same # {} THEN [cat EXCEPT ![Least(same)].tables = Append(@, ReadTable(t))]
    ELSE Append(cat, [name |-> SchemaOf(t), tables |-> <<ReadTable(t)>>])

DiscoverTables ==
    /\ pc = "start"
    /\ IF job.table = "" /\ DiscoveryFails
       THEN pc' = "error" /\ UNCHANGED <<todo, catalog>>
       ELSE /\ pc' = "tables"
            /\ todo' = IF job.table # "" THEN <<Named>> ELSE Discovered
            /\ catalog' = IF job.engine = "mssql" THEN <<>> ELSE <<[name |-> job.schema, tables |-> <<>>]>>
    /\ UNCHANGED job

FetchTable ==
    /\ pc = "tables" /\ todo # <<>>
    /\ IF Unreadable(Head(todo))
       THEN pc' = "error" /\ UNCHANGED <<todo, catalog>>
       ELSE /\ catalog' = AppendTable(MarkKey(catalog, Head(todo)), Head(todo))
            /\ todo' = Tail(todo) /\ UNCHANGED pc
    /\ UNCHANGED job

\* The tables made of views get the names of their views.
RenameViews ==
    /\ pc = "tables" /\ todo = <<>>
    /\ catalog' = [i \in 1..Len(catalog) |->
           LET Renamed(t) == IF <<catalog[i].name, t.name>> \in job.views THEN [t EXCEPT !.name = Strip(@)] ELSE t IN
           [catalog[i] EXCEPT !.tables = [j \in 1..Len(@) |-> Renamed(@[j])]]]
    /\ pc' = "read"
    /\ UNCHANGED <<job, todo>>

QueryFails ==
    /\ pc \in {"start", "tables"}
    /\ pc' = "error"
    /\ UNCHANGED <<job, todo, catalog>>

----------------------------------------------------------------------------
(* Properties *)

Loaded == {t \in Elements(job.tables) :
              IF job.table # "" THEN t.name = job.table /\ (job.engine = "mssql" => t.schema = job.schema)
              ELSE job.engine = "pgsql" \/
                   /\ job.only = <<>> \/ \E i \in 1..Len(job.only) : t.name \in job.only[i].names
                   /\ \A i \in 1..Len(job.except) : t.name \notin job.except[i].names}
Ready == pc \notin {"start", "tables", "error"}

\* The name a table has in the end, and what the catalog has of it.
FinalName(t) == IF <<t.schema, t.name>> \in job.views THEN Strip(t.name) ELSE t.name
CatalogOf(t) ==
    LET i == CHOOSE i \in 1..Len(catalog) : job.engine = "mssql" => catalog[i].name = t.schema
        j == CHOOSE j \in 1..Len(catalog[i].tables) : catalog[i].tables[j].name = FinalName(t)
    IN  catalog[i].tables[j]

\* Where the catalog has t.
EntriesOf(t) ==
    {e \in (1..Len(catalog)) \X (UNION {1..Len(catalog[i].tables) : i \in 1..Len(catalog)}) :
        /\ e[2] <= Len(catalog[e[1]].tables)
        /\ job.engine = "mssql" => catalog[e[1]].name = t.schema
        /\ catalog[e[1]].tables[e[2]].name = FinalName(t)}

\* The catalog has one entry for each table that the filters select and no
\* other, in one entry for its schema, with all columns in their order; views
\* made into tables have the views' names.
CatalogComplete ==
    Ready /\ (job.table # "" => Loaded # {}) =>
        /\ \A i \in 1..Len(catalog) : \A j \in 1..Len(catalog[i].tables) : \E t \in Loaded : <<i, j>> \in EntriesOf(t)
        /\ \A i, j \in 1..Len(catalog) : catalog[i].name = catalog[j].name => i = j
        /\ \A t \in Loaded :
              /\ \E e \in EntriesOf(t) : EntriesOf(t) = {e}
              /\ [i \in 1..Len(CatalogOf(t).cols) |-> CatalogOf(t).cols[i].name] =
                    [i \in 1..Len(t.cols) |-> IF job.engine = "mssql" THEN Lower(t.cols[i].name) ELSE t.cols[i].name]

\* Two names of indexes that become one, which SQL Server's reader merges.
Merged(t) == \E i, j \in 1..Len(t.indexes) : i # j /\ Undot(t.indexes[i].name) = Undot(t.indexes[j].name)

\* The key of each table is read as the source has it, its columns in the
\* order of the key; two indexes of SQL Server whose names differ by a dot
\* become one, and SQLite's keys are read in the order of the table.
KeysRead ==
    Ready => \A t \in Loaded :
        ~Merged(t) /\ (job.engine = "sqlite" => KeyOf(t) = ColumnOrder(t)) =>
            LET key == {i \in 1..Len(CatalogOf(t).indexes) : CatalogOf(t).indexes[i].primary} IN
            /\ Cardinality(key) = (IF KeyOf(t) = <<>> THEN 0 ELSE 1)
            /\ \A i \in key : CatalogOf(t).indexes[i].cols =
                  [k \in 1..Len(KeyOf(t)) |-> IF job.engine = "mssql" THEN Lower(KeyOf(t)[k]) ELSE KeyOf(t)[k]]

\* The defaults known to get another value or to be refused: MySQL's empty
\* text, text with a backslash, and calls it takes for text; SQLite's quoted
\* text and boolean numbers; an expression of two operands of SQL Server.
DefaultLost(c) ==
    \/ c.source = "mysql" /\ (c.raw = <<>> \/ Contains(c.raw, "\\") \/ c.raw = <<"CURRENT_TIMESTAMP(6)">>)
    \/ c.source = "sqlite" /\ c.raw # Absent /\ (IsQuoted(c.raw) \/ (c.type = "boolean" /\ c.raw \in {<<"0">>, <<"1">>}))
    \/ c.source = "mssql" /\ Contains(c.raw, "+")

\* Every other default is accepted for the column's new type, and gives a new
\* row the value that it had in the source.
DefaultsKept ==
    Ready => \A t \in Loaded : \A i \in 1..Len(t.cols) :
        DefaultLost(t.cols[i]) \/ job.engine = "pgsql" \/
            Evaluate(TargetType(t.cols[i], FALSE), CatalogOf(t).cols[i].default) = t.cols[i].means

NoSpaces(s) == SelectSeq(s, LAMBDA c : c # " ")
Bare(s) == IF s # <<>> /\ s[1] = "(" /\ s[Len(s)] = ")" THEN Inner(s) ELSE s
\* A literal whose ")" is taken for one of the filter's, and the rest of the
\* literal for the filter.
Broken(conds) == \E i \in 1..Len(conds) : IsQuoted(conds[i].arg) /\ Contains(conds[i].arg, ")")

\* The filter of an index says the same in PostgreSQL, whatever its literals
\* hold, except for ")", for the number of the spaces in them and for
\* parentheses around the whole.
FiltersKept ==
    Ready /\ job.engine = "mssql" => \A t \in Loaded : Merged(t) \/ \A i \in 1..Len(t.indexes) :
        \/ Broken(t.indexes[i].conds)
        \/ Bare(NoSpaces(CatalogOf(t).indexes[i].filter)) = NoSpaces(PrintPG(t.indexes[i].conds))
=============================================================================
