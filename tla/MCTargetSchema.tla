--------------------------- MODULE MCTargetSchema ---------------------------
(***************************************************************************)
(* One small database per source, with the settings that matter to it.      *)
(***************************************************************************)
EXTENDS TargetSchema

Col(source, name, type, mod, auto, raw, means) ==
    [source |-> source, type |-> type, mod |-> mod, unsigned |-> FALSE, auto |-> auto,
     name |-> name, raw |-> raw, means |-> means, utype |-> "", seq |-> "", owned |-> FALSE]
Plain(source, name, type) == Col(source, name, type, "", FALSE, Absent, <<"NULL">>)
Auto(source, name, type) == Col(source, name, type, "", TRUE, Absent, <<"NULL">>)
Key(cols) == [name |-> "PRIMARY", kind |-> "pk", cols |-> cols, included |-> <<>>, conds |-> <<>>]
Index(name, kind, cols) == [Key(cols) EXCEPT !.name = name, !.kind = kind]
FKey(name, cols, schema, ref, refcols) ==
    [name |-> name, cols |-> cols, schema |-> schema, ref |-> ref, refcols |-> refcols]
Table(schema, name, cols, indexes, fkeys) ==
    [schema |-> schema, name |-> name, cols |-> cols, indexes |-> indexes, fkeys |-> fkeys,
     children |-> <<>>, triggers |-> <<>>]

Build == {"CreateTables", "CreateIndexes", "ForeignKeys", "CreateTriggers"}
Settings == {Build, Build \cup {"IncludeDrop"}, (Build \ {"CreateTables"}) \cup {"Truncate"}}
Job(engine, schema, opts, tables) ==
    [engine |-> engine, schema |-> schema, table |-> "", only |-> <<>>, except |-> <<>>, opts |-> opts,
     tables |-> tables, views |-> {}, types |-> <<>>, functions |-> <<>>]

\* The tables a command may select: all, one, or those of patterns.
Pattern(names) == [names |-> names, valid |-> TRUE]
Invalid == [names |-> {}, valid |-> FALSE]
Selections(j, one, all) ==
    {j, [j EXCEPT !.table = one], [j EXCEPT !.table = "none"], [j EXCEPT !.only = <<Pattern({one})>>],
     [j EXCEPT !.only = <<Pattern(all)>>, !.except = <<Pattern({one})>>],
     [j EXCEPT !.except = <<Pattern({one}), Invalid>>], [j EXCEPT !.only = <<Invalid>>]}

MySQL ==
    <<Table("", "orders", <<Auto("mysql", "id", "int"), Plain("mysql", "user", "int")>>,
            <<Key(<<"id">>), Index("ix", "plain", <<"user">>)>>, <<FKey("fk_user", <<"user">>, "", "users", <<"id">>)>>),
      Table("", "users", <<Auto("mysql", "id", "int"), Plain("mysql", "name", "varchar"), Plain("mysql", "boss", "int")>>,
            <<Key(<<"id">>), Index("ix", "plain", <<"name">>), Index("uq", "unique", <<"name", "boss">>)>>,
            <<FKey("fk_boss", <<"boss">>, "", "users", <<"id">>)>>)>>

Cond(col, op, arg) == [col |-> col, op |-> op, arg |-> arg]
MSSQL(conds) ==
    <<Table("app", "orders", <<Plain("mssql", "Id", "int"), Plain("mssql", "Kind", "nvarchar"), Plain("mssql", "user", "int")>>,
            <<Key(<<"Id", "user">>), [Index("ix.kind", "plain", <<"Kind">>) EXCEPT !.included = <<"user">>, !.conds = conds]>>,
            <<FKey("fk.user", <<"user">>, "dbo", "users", <<"Id">>)>>),
      Table("dbo", "users", <<Auto("mssql", "Id", "int")>>, <<Key(<<"Id">>)>>, <<>>),
      Table("dbo", "v_pgloader", <<Plain("mssql", "Id", "int")>>, <<>>, <<>>)>>
TwoOfAName ==
    <<Table("app", "users", <<Plain("mssql", "Id", "int"), Plain("mssql", "user", "int")>>,
            <<Key(<<"user">>), Index("ix.kind", "unique", <<"Id">>), Index("ix_kind", "plain", <<"user">>)>>, <<>>),
      Table("dbo", "users", <<Plain("mssql", "Id", "int")>>, <<Key(<<"Id">>), Index("ix.kind", "unique", <<"Id">>)>>, <<>>)>>

SQLite(refcols) ==
    <<Table("", "a", <<Plain("sqlite", "x", "text"), Plain("sqlite", "id", "integer"), Plain("sqlite", "b", "bigint")>>,
            <<Key(<<"id">>), Index("auto", "auto", <<"x">>), Index("ix", "unique", <<"b">>)>>,
            <<FKey("", <<"b">>, "", "b", refcols)>>),
      Table("", "b", <<Auto("sqlite", "id", "integer"), Plain("sqlite", "y", "text")>>,
            <<Key(<<"id">>), Index("auto", "auto", <<"y">>)>>, <<>>),
      Table("", "c", <<Plain("sqlite", "p", "text"), Plain("sqlite", "q", "text")>>, <<Key(<<"q", "p">>)>>,
            <<FKey("", <<"p">>, "", "a", <<"b">>), FKey("", <<"q">>, "", "a", <<"b">>)>>)>>

Typed(name, utype) == [Plain("pgsql", name, utype) EXCEPT !.utype = utype]
Serial(seq, owned) == [Plain("pgsql", "id", "integer") EXCEPT !.seq = seq, !.owned = owned, !.auto = TRUE]
PgSQL(owned) ==
    <<[Table("", "log", <<Plain("pgsql", "day", "date"), Typed("mood", "mood")>>, <<>>, <<>>) EXCEPT !.children = <<"log_1">>],
      [Table("", "person", <<Serial("person_id_seq", owned), Typed("addr", "address")>>,
             <<Index("person_pkey", "pk", <<"id">>)>>, <<FKey("self", <<"id">>, "public", "person", <<"id">>)>>)
       EXCEPT !.triggers = <<[name |-> "stamp", function |-> "stamp"]>>]>>
PgTypes(needs) ==
    <<[name |-> "address", kind |-> "composite", needs |-> {"zip", "mood"}], [name |-> "mood", kind |-> "enum", needs |-> {}],
      [name |-> "zip", kind |-> "domain", needs |-> needs]>>
PgFunctions == <<[name |-> "of_mood", needs |-> {"mood"}], [name |-> "stamp", needs |-> {}]>>
OfPerson == <<[name |-> "of_person", needs |-> {"person"}]>>

\* A table of one column with a default.
Default(source, type, mod, raw, means) ==
    Job(source, IF source = "mssql" THEN "dbo" ELSE "public", Build,
        <<Table(IF source = "mssql" THEN "dbo" ELSE "", "t", <<Col(source, "c", type, mod, FALSE, raw, means)>>, <<>>, <<>>)>>)
N == <<"NULL">>
Now == <<"CURRENT_TIMESTAMP">>
Defaults1 ==
    {Default("mysql", "varchar", "", raw[1], raw[2]) : raw \in
        {<<N, N>>, <<<<>>, <<>>>>, <<<<"a">>, <<"a">>>>, <<<<"a", "'">>, <<"a", "'">>>>, <<<<"\\">>, <<"\\">>>>}}
    \cup {Default("mysql", "tinyint", "(1)", raw[1], raw[2]) : raw \in {<<<<"0">>, <<"false">>>>, <<<<"1">>, <<"true">>>>}}
    \cup {Default("mysql", "int", "", <<"0">>, <<"0">>), Default("mysql", "bit", "(1)", <<"b'1'">>, <<"true">>)}
    \cup {Default("mysql", "datetime", "", raw[1], raw[2]) : raw \in
            {<<Now, Now>>, <<<<"current_timestamp()">>, Now>>, <<<<"CURRENT_TIMESTAMP(6)">>, Now>>, <<<<"zero">>, N>>,
             <<<<"day">>, <<"day">>>>}}
    \cup {Default("mssql", "int", "", raw[1], raw[2]) : raw \in
            {<<<<"(", "(", "1", ")", ")">>, <<"1">>>>, <<<<"(", "NULL", ")">>, N>>,
             <<<<"(", "(", "1", ")", "+", "(", "1", ")", ")">>, <<"2">>>>}}
    \cup {Default("mssql", "bit", "", <<"(", "(", "0", ")", ")">>, <<"false">>),
          Default("mssql", "bit", "", <<"(", "(", "1", ")", ")">>, <<"true">>),
          Default("mssql", "datetime2", "", <<"(", "getdate()", ")">>, Now),
          Default("mssql", "nvarchar", "", <<"(", "N", "'", "a", "'", ")">>, <<"a">>)}
    \cup {Default("sqlite", "text", "", raw[1], raw[2]) : raw \in
            {<<N, N>>, <<<<"'", "a", "'">>, <<"a">>>>}}
    \cup {Default("sqlite", "integer", "", <<"1">>, <<"1">>), Default("sqlite", "boolean", "", <<"1">>, <<"true">>),
          Default("sqlite", "datetime", "", <<"datetime(", "'", "now", "'", ")">>, Now)}

Filters ==
    {<<>>, <<Cond("user", "!=", <<"5">>)>>, <<Cond("Kind", "=", <<"'", "a", "'">>)>>,
     <<Cond("user", ">", <<"(", "5", ")">>), Cond("user", "!=", <<"7">>)>>,
     <<Cond("user", "=", <<"'", "[", "(", "!=", " ", " ", "'">>)>>,
     <<Cond("user", "=", <<"'", "[", "]", ")", "'">>)>>}

MCJobs ==
    UNION {Selections(Job("mysql", "public", o, MySQL), "users", {"users", "orders"}) : o \in Settings}
    \cup {Job("mysql", "app", o, MySQL) : o \in Settings}
    \cup UNION {{[j EXCEPT !.views = {<<"dbo", "v_pgloader">>}] :
                    j \in Selections(Job("mssql", "dbo", o, MSSQL(<<Cond("user", "!=", <<"5">>)>>)), "users", {"users", "v_pgloader"})} :
                 o \in Settings}
    \cup {Job("mssql", "dbo", Build, MSSQL(conds)) : conds \in Filters}
    \cup {Job("mssql", "dbo", o, TwoOfAName) : o \in Settings}
    \cup UNION {Selections(Job("sqlite", "public", o, SQLite(<<"id">>)), "b", {"a", "b"}) : o \in Settings}
    \cup {Job("sqlite", "public", Build, SQLite(refcols)) : refcols \in {<<>>, <<"y">>}}
    \cup {[Job("pgsql", "public", o, PgSQL(TRUE)) EXCEPT !.types = PgTypes({}), !.functions = PgFunctions, !.table = t] :
            o \in Settings, t \in {"", "log", "person", "none"}}
    \cup {[Job("pgsql", s, Build, PgSQL(owned)) EXCEPT !.types = PgTypes(needs), !.functions = f] :
            s \in {"public", "app"}, owned \in BOOLEAN, needs \in {{}, {"address"}}, f \in {PgFunctions, OfPerson}}
    \cup Defaults1
=============================================================================
