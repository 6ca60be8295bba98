------------------------------ MODULE MCRowPath ------------------------------
(***************************************************************************)
(* Tables of one column with every value and every pair of telling values,  *)
(* tables of two columns, and CSV files with all settings.                  *)
(***************************************************************************)
EXTENDS RowPath

C(source, type, mod) == Column(source, type, mod, FALSE, FALSE)
Ints(source, auto) == {Column(source, t, "", FALSE, auto) : t \in Integral \ {"integer"}}

AllColumns ==
    Ints("mysql", FALSE) \cup Ints("mysql", TRUE) \cup Ints("mssql", FALSE) \cup Ints("sqlite", FALSE)
    \cup {Column("mysql", t, "", TRUE, a) : t \in {"tinyint", "smallint", "int", "bigint"}, a \in BOOLEAN}
    \cup {Column("sqlite", "integer", "", FALSE, TRUE), C("mysql", "tinyint", "(1)")}
    \cup {C("mysql", "bit", mod) : mod \in {"(1)", "(3)", "(16)"}}
    \cup {C("mssql", "bit", ""), C("sqlite", "boolean", "")}
    \cup {C("mysql", t, "") : t \in {"varchar", "longtext", "enum", "blob", "varbinary", "datetime", "date"}}
    \cup {C("mssql", t, "") : t \in {"nvarchar", "varbinary", "datetime2"}}
    \cup {C("sqlite", t, "") : t \in {"text", "blob", "datetime", "timestamp"}}

RangeOf(c) ==
    IF c.unsigned THEN Unsigned(Bits[c.type])
    ELSE IF c.source = "mssql" /\ c.type = "tinyint" THEN Unsigned(Bits.tinyint)
    ELSE IF c.source = "sqlite" THEN Signed(Bits.bigint) ELSE Signed(Bits[c.type])
Edges(s) == {n \in s : (n - 1) \notin s \/ (n + 1) \notin s \/ n \in {-1, 0, 1}}

Symbols == {"a", "\\", "NL", "TAB", "CR", "x", "N"}
Strings == {<<>>} \cup {<<a>> : a \in Symbols \cup {"NUL", "bad"}}
           \cup {<<a, b>> : a \in Symbols, b \in Symbols \cup {"NUL"}} \cup {<<"bad", "bad", "a">>}
Telling == {<<>>, <<"\\", "N">>, <<"TAB">>, <<"a", "CR">>, <<"\\">>}

Flag(b) == [null |-> FALSE, text |-> IF b THEN <<"t">> ELSE <<"f">>, n |-> IF b THEN 1 ELSE 0]
ValuesOf(c) ==
    {NullValue} \cup
    (IF c.type \in {"bit", "boolean"}
     THEN IF c.source # "mysql" THEN {Flag(TRUE), Flag(FALSE)}
          ELSE IF c.mod = "(16)" THEN {Text(<<b, "bad">>) : b \in {"NUL", "a"}}
          ELSE {Text(<<b>>) : b \in {"NUL", "a"}}
     ELSE IF c.type \in Integral THEN {Number(n) : n \in Edges(RangeOf(c))}
     ELSE IF c.type \in Dates
     THEN {Text(<<d>>) : d \in {"day", "day.f"} \cup (IF c.source = "mssql" THEN {} ELSE {"zero"})}
     \* the connection of MySQL converts to UTF-8, and so do strings of SQL Server
     ELSE {Text(s) : s \in {s \in Strings : c.type \in Binary \/ c.source = "sqlite" \/ \A i \in 1..Len(s) : s[i] # "bad"}})

Job(source, cols, rows) ==
    [source |-> source, cols |-> cols, rows |-> rows,
     table |-> [i \in 1..Len(rows[1]) |-> IF i = 1 THEN "c1" ELSE "c2"],
     skip |-> 0, header |-> FALSE, names |-> <<>>, nullIf |-> {}, keep |-> FALSE]

SQLJobs ==
    UNION {{Job(c.source, <<c>>, <<<<v>>>>) : v \in ValuesOf(c)} : c \in AllColumns}
    \cup {Job("mysql", <<C("mysql", "varchar", ""), C("mysql", "blob", "")>>,
              <<<<Text(s), Text(t)>>, <<Text(t), NullValue>>>>) : s \in Telling, t \in Telling}
    \cup {Job("sqlite", <<C("sqlite", "text", "")>>, <<<<Text(<<"a">>)>>, <<NullValue>>, <<Text(s)>>>>) : s \in Telling}

PGJobs ==
    {Job("pgsql", <<>>, <<<<Text(s), Text(t)>>, <<Text(t), NullValue>>, <<NullValue, Text(s)>>>>) :
        s \in Telling, t \in Telling}
    \cup {Job("pgsql", <<>>, <<<<Text(<<"a">>)>>, <<Text([i \in 1..10 |-> "a"])>>, <<Text(<<"x">>)>>>>)}

Records == {<<<<"blank", "a">>, <<"blank">>>>, <<<<"c2">>, <<"c1", "blank">>>>, <<<<"\\">>, <<"bad", "bad">>>>, <<<<"a">>>>}
CSVJobs ==
    {[source |-> "csv", cols |-> <<>>, rows |-> rows, table |-> table,
      skip |-> skip, header |-> header, names |-> names, nullIf |-> nullIf, keep |-> nullIf # {}] :
        rows \in UNION {[1..n -> Records] : n \in 0..3}, skip \in 0..1, header \in BOOLEAN,
        table \in {<<"c1", "c2">>, <<"col_1", "col_2">>},
        names \in {<<>>, <<"c2", "c1">>, <<"c1">>}, nullIf \in {{}, {<<"a">>}}}

MCJobs == SQLJobs \cup PGJobs \cup CSVJobs
=============================================================================
