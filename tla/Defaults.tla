------------------------------ MODULE Defaults ------------------------------
(***************************************************************************)
(* What the metadata readers make of a column's default and of the filter   *)
(* of an index, and what PostgreSQL makes of the result.                    *)
(*                                                                          *)
(* SQL text is a sequence of symbols: a name, a number, a call, a quote, a  *)
(* bracket, a parenthesis, a space. "absent" stands for no default.         *)
(***************************************************************************)
EXTENDS CastRules

Absent == <<"absent">>
Quoted(s) == <<"'">> \o s \o <<"'">>
IsQuoted(s) == Len(s) >= 2 /\ s[1] = "'" /\ s[Len(s)] = "'"
Inner(s) == SubSeq(s, 2, Len(s) - 1)

----------------------------------------------------------------------------
(* Defaults *)

IsTextType(type) ==
    type \in Texts \cup {"char", "varchar", "enum", "set", "date", "datetime", "timestamp", "time"}

\* escapeDefault doubles quotes and backslashes.
EscapeDefault(s) == FlattenSeq([i \in 1..Len(s) |-> IF s[i] \in {"\\", "'"} THEN <<s[i], s[i]>> ELSE <<s[i]>>])

BooleanOf(s) == IF s \in {<<"0">>, <<"b'0'">>} THEN <<"false">> ELSE IF s \in {<<"1">>, <<"b'1'">>} THEN <<"true">> ELSE s

MySQLDefault(c, target) ==
    LET plain ==
            IF c.raw = <<"NULL">> THEN <<"NULL">>
            ELSE IF c.raw \in {<<"CURRENT_TIMESTAMP">>, <<"current_timestamp()">>} THEN <<"CURRENT_TIMESTAMP">>
            ELSE IF IsTextType(c.type) THEN Quoted(EscapeDefault(c.raw)) ELSE c.raw
    IN  IF c.raw \in {Absent, <<>>} THEN <<>>
        ELSE IF target = "boolean" THEN BooleanOf(plain)
        ELSE IF target \in {"date", "timestamptz"} /\ plain = Quoted(<<"zero">>) THEN <<>> ELSE plain

\* Two parentheses around the whole become one, as long as there are two at
\* either end; then one pair goes.
Unwrap[s \in Seq(STRING)] ==
    IF Len(s) >= 4 /\ s[1] = "(" /\ s[2] = "(" /\ s[Len(s)] = ")" /\ s[Len(s) - 1] = ")" THEN Unwrap[Inner(s)]
    ELSE IF Len(s) >= 2 /\ s[1] = "(" /\ s[Len(s)] = ")" THEN Inner(s) ELSE s

\* Mutant: SQL Server's 0 and 1 are left to PostgreSQL.
NormalizeNoBoolean(raw, target) == IF Unwrap[raw] = <<"NULL">> THEN <<>> ELSE Unwrap[raw]

NormalizeMSSQLDefault(raw, target) ==
    LET s == Unwrap[raw]
        plain == IF s # <<>> /\ s[1] = "N" /\ IsQuoted(Tail(s)) THEN Tail(s) ELSE s
    IN  IF s = <<"NULL">> THEN <<>>
        ELSE IF target = "boolean" /\ plain \in {<<"0">>, <<"1">>} THEN BooleanOf(plain)
        ELSE IF plain \in {<<"getdate()">>, <<"CURRENT_TIMESTAMP">>, <<"sysdatetimeoffset()">>} THEN <<"CURRENT_TIMESTAMP">>
        ELSE IF plain # <<>> /\ plain[1] = "CONVERT(" /\ Contains(plain, "getdate()") THEN <<"CURRENT_TIMESTAMP">>
        ELSE IF plain \in {<<"newid()">>, <<"newsequentialid()">>} THEN <<"gen_random_uuid()">>
        ELSE plain

MSSQLDefault(c, target) == IF c.raw \in {Absent, <<>>} THEN <<>> ELSE NormalizeMSSQLDefault(c.raw, target)

\* The default is kept as SQLite has it, quotes and all, and quoted again.
SQLiteDefault(c) ==
    IF c.raw = Absent THEN <<>>
    ELSE IF c.raw \in {<<"NULL">>, <<"CURRENT_TIMESTAMP">>} THEN c.raw
    ELSE IF c.raw # <<>> /\ c.raw[1] = "datetime(" THEN <<"CURRENT_TIMESTAMP">>
    ELSE IF c.type \in {"text", "varchar", "nvarchar", "char", "date", "datetime", "timestamp"}
    THEN Quoted(FlattenSeq([i \in 1..Len(c.raw) |-> IF c.raw[i] = "'" THEN <<"'", "'">> ELSE <<c.raw[i]>>]))
    ELSE c.raw

DefaultOf(c, target) ==
    IF c.source = "mysql" THEN MySQLDefault(c, target)
    ELSE IF c.source = "mssql" THEN MSSQLDefault(c, target)
    ELSE IF c.source = "sqlite" THEN SQLiteDefault(c) ELSE <<>>

\* The value PostgreSQL gives a new row; <<"refused">> if CREATE TABLE fails.
\* With standard_conforming_strings a backslash stands for itself.
Evaluate(target, s) ==
    IF s \in {<<>>, <<"NULL">>} THEN <<"NULL">>
    ELSE IF IsQuoted(s)
    THEN LET text == FlattenSeq([i \in 1..Len(Inner(s)) |->
                        IF i > 1 /\ Inner(s)[i] = "'" /\ Inner(s)[i - 1] = "'" THEN <<>> ELSE <<Inner(s)[i]>>])
         IN  IF target \in {"date", "timestamptz", "timestamp"} /\ text # <<"day">> THEN <<"refused">> ELSE text
    ELSE IF s \in {<<"true">>, <<"false">>} THEN IF target = "boolean" THEN s ELSE <<"refused">>
    ELSE IF s \in {<<"0">>, <<"1">>} THEN IF target = "boolean" THEN <<"refused">> ELSE s
    ELSE IF s \in {<<"CURRENT_TIMESTAMP">>, <<"gen_random_uuid()">>} THEN s
    ELSE <<"refused">>

----------------------------------------------------------------------------
(* The filter of an index of SQL Server *)

Depth(s, j) == Cardinality({i \in 1..j : s[i] = "("}) - Cardinality({i \in 1..j : s[i] = ")"})
IsBalanced(s) == Depth(s, Len(s)) = 0 /\ \A j \in 1..Len(s) : Depth(s, j) >= 0
Least(S) == CHOOSE i \in S : \A j \in S : i <= j

\* strings.Fields and Join: one space for many, none at the ends.
Collapse(s) ==
    FlattenSeq([i \in 1..Len(s) |->
        IF s[i] = " " /\ (i = 1 \/ s[i - 1] = " " \/ \A j \in i..Len(s) : s[j] = " ") THEN <<>> ELSE <<s[i]>>])

StripOuterParens[s \in Seq(STRING)] ==
    IF Len(s) > 1 /\ s[1] = "(" /\ s[Len(s)] = ")" /\ IsBalanced(Inner(s)) THEN StripOuterParens[Inner(s)] ELSE s

Translate[s \in Seq(STRING)] ==
    LET Closing(c) == {j \in 2..Len(s) : s[j] = c}
        Matching == {j \in 2..Len(s) : Depth(s, j) = 0}
        After(j) == Translate[SubSeq(s, j + 1, Len(s))]
    IN  IF s = <<>> THEN <<>>
        ELSE IF s[1] = "(" /\ Matching # {}
        THEN <<"(">> \o Collapse(Translate[StripOuterParens[SubSeq(s, 2, Least(Matching) - 1)]]) \o <<")">> \o After(Least(Matching))
        ELSE IF s[1] = "[" /\ Closing("]") # {}
        THEN <<"\"">> \o SubSeq(s, 2, Least(Closing("]")) - 1) \o <<"\"">> \o After(Least(Closing("]")))
        ELSE IF s[1] = "'" /\ Closing("'") # {}
        THEN SubSeq(s, 1, Least(Closing("'"))) \o After(Least(Closing("'")))
        ELSE <<IF s[1] = "!=" THEN "<>" ELSE s[1]>> \o After(1)

\* Mutant: the parentheses of a condition are not written again.
TranslateFlat(s) == LET t == Collapse(Translate[StripOuterParens[s]]) IN SelectSeq(t, LAMBDA c : c \notin {"(", ")"})

TranslateFilterExpr(s) == Collapse(Translate[StripOuterParens[s]])
TranslateFilter(s) == IF s = <<>> THEN <<>> ELSE TranslateFilterExpr(s)

\* A filter as SQL Server prints it: conditions [col, op, arg] joined by AND.
Join(parts) == FlattenSeq([i \in 1..Len(parts) |-> (IF i > 1 THEN <<" ", "AND", " ">> ELSE <<>>) \o parts[i]])
PrintMSSQL(conds) ==
    IF conds = <<>> THEN <<>>
    ELSE <<"(">> \o Join([i \in 1..Len(conds) |-> <<"[", conds[i].col, "]", conds[i].op>> \o conds[i].arg]) \o <<")">>
\* The same in PostgreSQL.
PrintPG(conds) ==
    Join([i \in 1..Len(conds) |->
        <<"\"", conds[i].col, "\"", IF conds[i].op = "!=" THEN "<>" ELSE conds[i].op>> \o conds[i].arg])

NamesIn(filter) == {filter[i + 1] : i \in {i \in 1..(Len(filter) - 2) : filter[i] = "\"" /\ filter[i + 2] = "\""}}
=============================================================================
