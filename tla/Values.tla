------------------------------- MODULE Values -------------------------------
(***************************************************************************)
(* The way of one value: what the driver returns for a column, what MapRows *)
(* converts it to, the column's transform, and what a PostgreSQL column of  *)
(* the target type makes of the text it gets.                               *)
(*                                                                          *)
(* A source value is [null, text, n]. A date is "day", "day.f" (with a      *)
(* fraction of a second), "zero" (0000-00-00) or "year1", Go's zero time.   *)
(***************************************************************************)
EXTENDS CastRules

Integral == {"tinyint", "smallint", "mediumint", "int", "integer", "bigint"}
Dates == {"date", "datetime", "timestamp", "datetime2", "smalldatetime"}
Bin(b) == "bits " \o b
Number(n) == [null |-> FALSE, text |-> <<ToString(n)>>, n |-> n]
Text(s) == [null |-> FALSE, text |-> s, n |-> 0]
NullValue == [null |-> TRUE, text |-> <<>>, n |-> 0]

ReadDate(text) == IF text = <<"zero">> THEN <<"year1">> ELSE text

\* go-sql-driver 1.8 with parseTime: numbers are parsed, the rest are bytes.
MySQLDriver(c, v) ==
    IF c.type = "bigint" /\ c.unsigned THEN Go("uint", v.text, v.n)
    ELSE IF c.type \in Integral THEN Go("int", v.text, v.n)
    ELSE IF c.type \in Dates THEN Go("time", ReadDate(v.text), 0)
    ELSE Go("bytes", v.text, 0)

\* go-mssqldb; MapRows selects dates as text (getColumnSQLExpression).
MSSQLDriver(c, v) ==
    IF c.type = "bit" THEN Go("bool", v.text, v.n)
    ELSE IF c.type \in Integral THEN Go("int", v.text, v.n)
    ELSE IF c.type \in Binary \cup {"image", "decimal"} THEN Go("bytes", v.text, 0)
    ELSE Str(v.text)

\* go-sqlite3: the declared type makes booleans and dates.
SQLiteDriver(c, v) ==
    IF c.type = "boolean" THEN Go("bool", v.text, v.n)
    ELSE IF c.type \in Integral THEN Go("int", v.text, v.n)
    ELSE IF c.type \in Dates THEN Go("time", ReadDate(v.text), 0)
    ELSE IF c.type = "blob" THEN Go("bytes", v.text, 0)
    ELSE Str(v.text)

Driver(c, v) ==
    IF v.null THEN Nil
    ELSE IF c.source = "mysql" THEN MySQLDriver(c, v)
    ELSE IF c.source = "mssql" THEN MSSQLDriver(c, v)
    ELSE SQLiteDriver(c, v)

IntOf(n) == Go("int", <<ToString(n)>>, n)

\* The layout for times has no fraction; unsigned numbers become int64.
ConvertMySQLValue(c, g) ==
    IF g.kind = "bytes" THEN IF c.type \in Binary THEN g ELSE Str(g.text)
    ELSE IF g.kind = "uint" THEN IntOf(AsInt64(g.n))
    ELSE IF g.kind = "time" THEN Str(IF g.text = <<"day.f">> THEN <<"day">> ELSE g.text)
    ELSE g

\* convertMSSQLValue and convertSQLiteValue: bytes become strings whatever the column.
ConvertOtherValue(g) ==
    IF g.kind = "bool" THEN IntOf(g.n)
    ELSE IF g.kind \in {"bytes", "time"} THEN Str(g.text)
    ELSE g

Convert(c, g) == IF c.source = "mysql" THEN ConvertMySQLValue(c, g) ELSE ConvertOtherValue(g)

Bool(b) == Str(IF b THEN <<"t">> ELSE <<"f">>)

\* The transforms, on the kinds of values that MapRows hands over; those of
\* spatial types, money and uuid are left out.
TinyIntToBool(g) == IF g.kind = "int" THEN Bool(g.n # 0) ELSE g
MssqlBitToBoolean(g) == IF g.kind = "int" THEN Bool(g.n # 0) ELSE g
BitToBool(g) == IF g.kind = "string" THEN Bool(g.text = <<>> \/ g.text[1] # "NUL") ELSE g
\* A string of bits, those of one byte as one symbol.
BitToBinStr(g) ==
    IF g.kind # "string" THEN g
    ELSE IF g.text = <<>> THEN Str(<<"0">>) ELSE Str([i \in 1..Len(g.text) |-> Bin(g.text[i])])
ZeroDatesToNull(g) == IF g.kind = "string" /\ g.text = <<"zero">> THEN Nil ELSE g
RemoveNullChars(g) == IF g.kind = "string" THEN Str(Without(g.text, "NUL")) ELSE g
FloatToString(g) == Str(g.text)
ByteVectorToBytea(g) ==
    IF g.kind = "bytes" THEN Str(<<"\\", "x">> \o [i \in 1..Len(g.text) |-> Hex(g.text[i])]) ELSE g

Transformed(name, g) ==
    IF g.kind = "nil" THEN Nil
    ELSE IF name = "tinyint-to-bool" THEN TinyIntToBool(g)
    ELSE IF name = "sql-server-bit-to-boolean" THEN MssqlBitToBoolean(g)
    ELSE IF name = "bit-to-bool" THEN BitToBool(g)
    ELSE IF name = "bit-to-binstr" THEN BitToBinStr(g)
    ELSE IF name = "zero-dates-to-null" THEN ZeroDatesToNull(g)
    ELSE IF name = "remove-null-chars" THEN RemoveNullChars(g)
    ELSE IF name = "float-to-string" THEN FloatToString(g)
    ELSE IF name = "byte-vector-to-bytea" THEN ByteVectorToBytea(g)
    ELSE g

----------------------------------------------------------------------------
(* The target's input functions *)

Refused == [ok |-> FALSE, value |-> NullValue]
Taken(text) == [ok |-> TRUE, value |-> Text(text)]

Bytes == DOMAIN HexOf
Unhex(h) == CHOOSE b \in Bytes : Hex(b) = h

InputBytea(s) ==
    IF Len(s) >= 2 /\ s[1] = "\\" /\ s[2] = "x"
    THEN IF \A i \in 3..Len(s) : \E b \in Bytes : Hex(b) = s[i]
         THEN Taken([i \in 1..(Len(s) - 2) |-> Unhex(s[i + 2])]) ELSE Refused
    ELSE LET escapes == {i \in 1..Len(s) : s[i] = "\\"} \ Escaped(s) IN
         IF \E i \in escapes : i = Len(s) \/ s[i + 1] # "\\"
         THEN Refused
         ELSE Taken(FlattenSeq([i \in 1..Len(s) |-> IF i \in escapes THEN <<>> ELSE <<s[i]>>]))

\* Strings of so many bits, eight of them in a symbol.
BitStrings == [t \in {"bit varying(3)", "bit varying(16)"} |-> IF t = "bit varying(3)" THEN 3 ELSE 16]

InputInteger(w, s) ==
    IF \E n \in Signed(w) : s = <<ToString(n)>> THEN Taken(s) ELSE Refused

Input(target, cell) ==
    IF cell.null THEN [ok |-> TRUE, value |-> NullValue]
    ELSE IF \E i \in 1..Len(cell.text) : cell.text[i] \in {"NUL", "bad"} THEN Refused
    ELSE IF target \in DOMAIN Bits THEN InputInteger(Bits[target], cell.text)
    ELSE IF target = "bytea" THEN InputBytea(cell.text)
    ELSE IF target \in DOMAIN BitStrings
    THEN IF /\ Len(cell.text) <= BitStrings[target] \div 8
            /\ \A i \in 1..Len(cell.text) : cell.text[i] = "0" \/ \E b \in Bytes : cell.text[i] = Bin(b)
         THEN Taken(cell.text) ELSE Refused
    ELSE IF target = "boolean"
    THEN IF cell.text \in {<<"t">>, <<"1">>} THEN Taken(<<"t">>)
         ELSE IF cell.text \in {<<"f">>, <<"0">>} THEN Taken(<<"f">>) ELSE Refused
    ELSE IF target \in {"timestamptz", "timestamp", "date"}
    THEN IF cell.text \in {<<"day">>, <<"day.f">>, <<"year1">>} THEN Taken(cell.text) ELSE Refused
    ELSE Taken(cell.text)

----------------------------------------------------------------------------
(* What should arrive *)

Expected(c, v) ==
    IF v.null THEN NullValue
    ELSE IF \/ c.type \in {"bit", "tinyint"} /\ c.mod = "(1)" /\ c.source = "mysql"
            \/ c.type = "bit" /\ c.source = "mssql"
            \/ c.type = "boolean"
    THEN Text(IF v.text \in {<<"0">>, <<"f">>, <<"NUL">>} THEN <<"f">> ELSE <<"t">>)
    ELSE IF c.type = "bit" THEN Text([i \in 1..Len(v.text) |-> Bin(v.text[i])])
    ELSE IF c.type \in Dates /\ v.text = <<"zero">> THEN NullValue
    ELSE IF c.source = "mysql" /\ c.type \in Texts THEN Text(Without(v.text, "NUL"))
    ELSE Text(v.text)
=============================================================================
