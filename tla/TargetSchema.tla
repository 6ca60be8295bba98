---------------------------- MODULE TargetSchema ----------------------------
(***************************************************************************)
(* PrepareTarget and CompleteTarget of the four database sources: the       *)
(* statements that build the target's schema from the catalog, one step     *)
(* each, what PostgreSQL refuses of them, and the runs that follow on what  *)
(* an earlier run left.                                                     *)
(*                                                                          *)
(* The rows, and with them TRUNCATE and setval, are Migration's; comments   *)
(* change nothing that a later statement depends on and are left out.       *)
(***************************************************************************)
EXTENDS Metadata

CONSTANT MaxRounds   \* bound on the runs

VARIABLES
    script,          \* the statements still to execute
    db,              \* the target database
    rounds,          \* runs begun
    faulty           \* has a statement or a query failed for no reason of its own

schemaVars == <<metadataVars, script, db, rounds, faulty>>

\* A statement [op, schema, name, arg].
Statement(op, schema, name, arg) == [op |-> op, schema |-> schema, name |-> name, arg |-> arg]
When(option, statements) == IF option \in job.opts THEN statements ELSE <<>>
Over(seq, F(_)) == FlattenSeq([i \in 1..Len(seq) |-> F(seq[i])])

----------------------------------------------------------------------------
(* PrepareTarget *)

CreateSchema(name) ==
    IF job.engine # "pgsql" /\ name \in {"", "public"} THEN <<>> ELSE <<Statement("schema", "", name, "")>>

PrepareTable(schema, t) ==
    When("IncludeDrop", <<Statement("drop", schema, t.name, "")>>)
    \o When("CreateTables",
            <<Statement("create", schema, t.name, t)>>
            \o [i \in 1..Len(t.children) |-> Statement("partition", schema, t.name, t.children[i])])
    \o When("Truncate", <<Statement("truncate", schema, t.name, "")>>)

\* Enums, domains, then composites, each kind in the order of the names.
Types ==
    Over(<<"enum", "domain", "composite">>, LAMBDA kind : Filter(job.types, LAMBDA t : t.kind = kind))

\* The sequences that columns own, and never those only named in a default.
Sequences(tables) ==
    Over(tables, LAMBDA t : Over(t.cols, LAMBDA c :
        IF c.owned /\ c.seq # "" THEN <<Statement("sequence", job.schema, c.seq, "")>> ELSE <<>>))

PreparePgSQL ==
    Over(Types, LAMBDA t : When("IncludeDrop", <<Statement("dropType", job.schema, t.name, "")>>))
    \o Over(Types, LAMBDA t : <<Statement("type", job.schema, t.name, t)>>)
    \o Over(job.functions, LAMBDA f : <<Statement("function", job.schema, f.name, f)>>)
    \o Over(catalog, LAMBDA s : Sequences(s.tables))

PrepareScript ==
    Over(catalog, LAMBDA s :
        CreateSchema(s.name)
        \o (IF job.engine = "pgsql" THEN PreparePgSQL ELSE <<>>)
        \o Over(s.tables, LAMBDA t : PrepareTable(s.name, t)))

----------------------------------------------------------------------------
(* CompleteTarget *)

IndexStatements(cat) ==
    Over(cat, LAMBDA s : Over(s.tables, LAMBDA t : Over(t.indexes, LAMBDA x :
        When("CreateIndexes", <<Statement("index", s.name, t.name, x)>>))))
ForeignKeyStatements(cat) ==
    Over(cat, LAMBDA s : Over(s.tables, LAMBDA t : Over(t.fkeys, LAMBDA k :
        When("ForeignKeys", <<Statement("fkey", k.schema, k.on, k)>>))))
TriggerStatements(cat) ==
    Over(cat, LAMBDA s : Over(s.tables, LAMBDA t : Over(t.triggers, LAMBDA g :
        When("CreateTriggers", <<Statement("trigger", s.name, t.name, g)>>))))

\* Mutant: the foreign keys of a table come with its indexes.
CompleteByTable ==
    Over(catalog, LAMBDA s : Over(s.tables, LAMBDA t :
        LET one == <<[name |-> s.name, tables |-> <<t>>]>> IN
        IndexStatements(one) \o ForeignKeyStatements(one) \o TriggerStatements(one)))

\* Mutant: only the first schema is completed.
CompleteFirstSchema ==
    LET first == IF catalog = <<>> THEN <<>> ELSE <<catalog[1]>> IN
    IndexStatements(first) \o ForeignKeyStatements(first) \o TriggerStatements(first)

\* All indexes of all schemas come before the first foreign key.
CompleteScript == IndexStatements(catalog) \o ForeignKeyStatements(catalog) \o TriggerStatements(catalog)

----------------------------------------------------------------------------
(* What PostgreSQL makes of a statement (external) *)

EmptyDatabase ==
    [schemas |-> {"public"}, types |-> {}, functions |-> {}, seqs |-> {}, tables |-> {}, indexes |-> {},
     fkeys |-> {}, triggers |-> {}]

\* A name without schema is looked up, and created, in "public".
Where(schema) == IF schema = "" THEN "public" ELSE schema
TablesAt(schema, name) == {t \in db.tables : t.schema = schema /\ t.name = name}
ColumnsOf(tables) == UNION {{t.cols[i].name : i \in 1..Len(t.cols)} : t \in tables}

\* Tables, indexes and sequences share the names of their schema.
NameTaken(schema, name) ==
    \/ TablesAt(schema, name) # {}
    \/ \E x \in db.indexes : x.schema = schema /\ x.name = name
    \/ <<schema, name>> \in db.seqs

IndexName(st) == IF st.arg.primary /\ job.engine # "pgsql" THEN st.name \o " key" ELSE st.arg.name
BuiltIndex(st) ==
    [schema |-> st.schema, name |-> IndexName(st), table |-> st.name, cols |-> st.arg.cols,
     unique |-> st.arg.unique, primary |-> st.arg.primary /\ job.engine # "pgsql", filter |-> st.arg.filter]
\* CREATE INDEX IF NOT EXISTS, which pg_get_indexdef does not print, passes
\* over a name that is taken; ADD PRIMARY KEY chooses one that is not.
Skipped(st) == job.engine # "pgsql" /\ ~st.arg.primary /\ NameTaken(st.schema, st.arg.name)

ColumnRefused(c) ==
    \/ c.utype # "" /\ c.utype \notin db.types
    \/ c.seq # "" /\ <<job.schema, c.seq>> \notin db.seqs
    \/ job.engine # "pgsql" /\ Evaluate(c.type, c.default) = <<"refused">>

IsRefused(st) ==
    \/ st.op \in {"type", "function"} /\ ~(st.arg.needs \subseteq db.types \cup db.functions \cup {t.name : t \in db.tables})
    \/ st.op = "type" /\ st.name \in db.types
    \/ st.op = "create" /\ (st.schema \notin db.schemas \/ NameTaken(st.schema, st.name)
                            \/ \E c \in Elements(st.arg.cols) : ColumnRefused(c))
    \/ st.op = "partition" /\ NameTaken("public", st.arg)
    \/ st.op = "truncate" /\ (TablesAt(st.schema, st.name) = {}
                              \/ \E k \in db.fkeys : Where(k.refschema) = st.schema /\ k.ref = st.name /\ k.on # st.name)
    \/ st.op = "index" /\ ~Skipped(st) /\
          \/ ~(Elements(st.arg.cols) \cup NamesIn(st.arg.filter) \subseteq ColumnsOf(TablesAt(st.schema, st.name)))
          \/ job.engine = "pgsql" /\ NameTaken(st.schema, st.arg.name)
          \/ st.arg.primary /\ \E x \in db.indexes : x.schema = st.schema /\ x.table = st.name /\ x.primary
    \/ st.op = "fkey" /\ LET k == st.arg IN
          \/ ~(Elements(k.cols) \subseteq ColumnsOf(TablesAt(Where(k.schema), k.on)))
          \/ \E o \in db.fkeys : o.schema = k.schema /\ o.on = k.on /\ o.name = k.name
          \/ ~\E x \in db.indexes : /\ x.schema = Where(k.refschema) /\ x.table = k.ref
                                    /\ x.unique /\ x.filter = <<>> /\ Elements(x.cols) = Elements(k.refcols)
    \/ st.op = "trigger" /\ (TablesAt(st.schema, st.name) = {} \/ st.arg.function \notin db.functions
                             \/ <<st.schema, st.name, st.arg.name>> \in db.triggers)

UsersOf(name) == {f.name : f \in {f \in Elements(job.functions) : name \in f.needs}}

\* DROP TABLE CASCADE takes what is on the table or refers to it.
WithoutTable(schema, name) ==
    [db EXCEPT !.tables = {t \in @ : ~(t.schema = schema /\ t.name = name) /\ t.parent # <<schema, name>>},
               !.indexes = {x \in @ : x.schema # schema \/ x.table # name},
               !.fkeys = {k \in @ : ~(Where(k.schema) = schema /\ k.on = name)
                                    /\ ~(Where(k.refschema) = schema /\ k.ref = name)},
               !.triggers = {g \in @ : g[1] # schema \/ g[2] # name},
               !.functions = @ \ UsersOf(name)]

\* DROP TYPE CASCADE takes the columns of the type, of every table, and what
\* is on them.
WithoutType(name) ==
    LET Kept(t) == Filter(t.cols, LAMBDA c : c.utype # name)
        Lost(schema, table) == {c.name : c \in {c \in UNION {Elements(t.cols) : t \in TablesAt(schema, table)} : c.utype = name}}
    IN  [db EXCEPT !.types = @ \ {name},
                   !.functions = @ \ UsersOf(name),
                   !.tables = {[t EXCEPT !.cols = Kept(t)] : t \in @},
                   !.indexes = {x \in @ : Elements(x.cols) \cap Lost(x.schema, x.table) = {}}]

After(st) ==
    IF st.op = "schema" THEN [db EXCEPT !.schemas = @ \cup {st.name}]
    ELSE IF st.op = "type" THEN [db EXCEPT !.types = @ \cup {st.name}]
    ELSE IF st.op = "dropType" THEN WithoutType(st.name)
    ELSE IF st.op = "function" THEN [db EXCEPT !.functions = @ \cup {st.name}]
    ELSE IF st.op = "sequence" THEN [db EXCEPT !.seqs = @ \cup {<<st.schema, st.name>>}]
    ELSE IF st.op = "drop" THEN WithoutTable(st.schema, st.name)
    ELSE IF st.op = "create"
    THEN [db EXCEPT !.tables = @ \cup {[schema |-> st.schema, name |-> st.name, parent |-> <<>>, cols |-> st.arg.cols]}]
    ELSE IF st.op = "partition"
    THEN [db EXCEPT !.tables = @ \cup {[schema |-> "public", name |-> st.arg, parent |-> <<st.schema, st.name>>, cols |-> <<>>]}]
    ELSE IF st.op = "index" THEN IF Skipped(st) THEN db ELSE [db EXCEPT !.indexes = @ \cup {BuiltIndex(st)}]
    ELSE IF st.op = "fkey" THEN [db EXCEPT !.fkeys = @ \cup {st.arg}]
    ELSE IF st.op = "trigger" THEN [db EXCEPT !.triggers = @ \cup {<<st.schema, st.name, st.arg.name>>}]
    ELSE db

----------------------------------------------------------------------------
(* The run *)

Begin == rounds = 1 /\ faulty = FALSE /\ script = <<>> /\ db = EmptyDatabase

SchemaInit == /\ job \in Jobs /\ pc = "start" /\ todo = <<>> /\ catalog = <<>>
        /\ Begin

Fetch == (DiscoverTables \/ FetchTable \/ RenameViews) /\ UNCHANGED <<script, db, rounds, faulty>>

Fault == /\ ~faulty
         /\ faulty' = TRUE
         /\ UNCHANGED <<db, rounds>>
\* No statement is in a transaction with another: what was done stays.
StatementFails ==
    /\ Fault /\ pc \in {"prepare", "complete"} /\ script # <<>>
    /\ IF Head(script).op = "dropType" THEN pc' = pc /\ script' = Tail(script) ELSE pc' = "error" /\ script' = <<>>
    /\ UNCHANGED <<job, todo, catalog>>
FetchFails == Fault /\ QueryFails /\ UNCHANGED script

BeginPrepare ==
    /\ pc = "read"
    /\ pc' = "prepare" /\ script' = PrepareScript
    /\ UNCHANGED <<job, todo, catalog, db, rounds, faulty>>

Execute ==
    /\ pc \in {"prepare", "complete"} /\ script # <<>>
    /\ IF IsRefused(Head(script))
       THEN pc' = "error" /\ script' = <<>> /\ UNCHANGED db
       ELSE db' = After(Head(script)) /\ script' = Tail(script) /\ UNCHANGED pc
    /\ UNCHANGED <<job, todo, catalog, rounds, faulty>>

\* The rows are copied between the two scripts.
BeginComplete ==
    /\ pc = "prepare" /\ script = <<>>
    /\ pc' = "complete" /\ script' = CompleteScript
    /\ UNCHANGED <<job, todo, catalog, db, rounds, faulty>>

Complete ==
    /\ pc = "complete" /\ script = <<>>
    /\ pc' = "done"
    /\ UNCHANGED <<job, todo, catalog, script, db, rounds, faulty>>

\* The user loads the same database again, with these settings or others.
Rerun ==
    /\ pc \in {"done", "error"} /\ rounds < MaxRounds
    /\ \E j \in Jobs : /\ j.engine = job.engine /\ j.schema = job.schema /\ j.tables = job.tables
                       /\ job' = j
    /\ pc' = "start" /\ todo' = <<>> /\ catalog' = <<>> /\ script' = <<>>
    /\ rounds' = rounds + 1 /\ faulty' = FALSE
    /\ UNCHANGED db

SchemaNext == Fetch \/ FetchFails \/ BeginPrepare \/ Execute \/ StatementFails \/ BeginComplete \/ Complete \/ Rerun

SchemaSpec == SchemaInit /\ [][SchemaNext]_schemaVars

----------------------------------------------------------------------------
(* Properties *)

\* The target is one that PostgreSQL can hold: tables are in schemas, and what
\* belongs to a table goes with it.
SchemaTypeOK ==
    /\ pc \in {"start", "tables", "read", "prepare", "complete", "done", "error"}
    /\ rounds \in 1..MaxRounds /\ faulty \in BOOLEAN
    /\ script # <<>> => pc \in {"prepare", "complete"}
    /\ \A t \in db.tables : t.schema \in db.schemas /\ TablesAt(t.schema, t.name) = {t}
    /\ \A x \in db.indexes : Elements(x.cols) \subseteq ColumnsOf(TablesAt(x.schema, x.table)) /\ x.cols # <<>>
    /\ \A k \in db.fkeys : TablesAt(Where(k.schema), k.on) # {} /\ TablesAt(Where(k.refschema), k.ref) # {}
    /\ \A g \in db.triggers : TablesAt(g[1], g[2]) # {}

\* PostgreSQL's names of the tables that this run loads, or is told to: the one
\* that the command names may be missing in the source.
LoadedNames ==
    {<<SchemaOf(t), FinalName(t)>> : t \in Loaded \cup (IF job.table # "" THEN {Named} ELSE {})}

\* A run that ends well has built every table, index, key, foreign key and
\* trigger that it read and was told to build. Only an index whose name a table,
\* a sequence or another index of the schema has, which the source allows and
\* PostgreSQL does not, may be missing: IF NOT EXISTS passes over it without a
\* word.
HasIndex(schema, name, x) ==
    \/ \E y \in db.indexes :
          /\ y.schema = schema /\ y.table = name
          /\ y.cols = x.cols /\ y.unique = x.unique /\ y.filter = x.filter
    \/ /\ job.engine # "pgsql" /\ ~x.primary
       /\ \/ TablesAt(schema, x.name) # {} \/ <<schema, x.name>> \in db.seqs
          \/ \E y \in db.indexes : y.schema = schema /\ y.name = x.name /\ (y.table # name \/ y.primary)
Built(schema, t) ==
    /\ "CreateTables" \in job.opts =>
          /\ {c.name : c \in Elements(t.cols)} \subseteq ColumnsOf(TablesAt(schema, t.name))
          /\ \A i \in 1..Len(t.children) : TablesAt("public", t.children[i]) # {}
    /\ "CreateIndexes" \in job.opts => \A x \in Elements(t.indexes) : HasIndex(schema, t.name, x)
    /\ "ForeignKeys" \in job.opts => Elements(t.fkeys) \subseteq db.fkeys
    /\ "CreateTriggers" \in job.opts => \A g \in Elements(t.triggers) : <<schema, t.name, g.name>> \in db.triggers
TargetComplete ==
    pc = "done" => \A s \in Elements(catalog) : \A t \in Elements(s.tables) : Built(s.name, t)

\* What the server is known to refuse.
Misordered(needs, name) ==
    ~(needs \subseteq {Types[i].name : i \in {i \in 1..Len(Types) : \A j \in 1..i : Types[j].name # name}})
ReferencedTable(k) == {t \in Loaded : t.name = k.ref /\ (job.engine = "mssql" => t.schema = k.refschema)}
KnownRefusal(st) ==
    \/ faulty
    \/ rounds > 1 /\ "IncludeDrop" \notin job.opts
    \/ "CreateTables" \notin job.opts
    \/ st.op \in {"type", "function"} /\ Misordered(st.arg.needs, st.name)
    \/ st.op = "create" /\ \E t \in Loaded : t.name = st.name /\
          \E c \in Elements(t.cols) : DefaultLost(c) \/ (c.seq # "" /\ ~c.owned)
    \/ st.op = "index" /\ \E c \in NamesIn(st.arg.filter) : Lower(c) # c
    \/ st.op = "fkey" /\
          \/ st.schema = "" /\ job.schema # "public"
          \/ job.engine = "sqlite" /\ \E t \in Loaded : t.name = st.name /\
                \E i, j \in 1..Len(t.fkeys) : i # j /\ t.fkeys[i].ref = t.fkeys[j].ref
          \/ ReferencedTable(st.arg) = {} \/ "CreateIndexes" \notin job.opts
          \/ job.engine = "sqlite" /\ \E t \in ReferencedTable(st.arg) : KeyOf(t) # st.arg.refcols

\* The scripts are in an order that PostgreSQL accepts: on an empty target, and
\* again with "include drop" on one that any run has left, it refuses no
\* statement but for one of the reasons above, which lie in the statement.
OnlyKnownRefusals == script # <<>> /\ IsRefused(Head(script)) => KnownRefusal(Head(script))

\* What DROP TYPE ... CASCADE leaves of a table.
WithoutColumns(t, type) == [t EXCEPT !.cols = Filter(@, LAMBDA c : c.utype # type)]

\* A statement touches no table, and no column of one, that the command does
\* not load (PrepareTarget); DROP TYPE ... CASCADE may take of such a table the
\* columns of one of the source's types, and leaves the rest of it.
OthersSpared ==
    [][\A t \in db.tables \ db'.tables :
          \/ <<t.schema, t.name>> \in LoadedNames \/ t.parent \in LoadedNames
          \/ \E type \in Elements(job.types) : WithoutColumns(t, type.name) \in db'.tables]_schemaVars
=============================================================================
