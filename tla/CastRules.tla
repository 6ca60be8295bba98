----------------------------- MODULE CastRules -----------------------------
(***************************************************************************)
(* The cast engine: the rules that map a source column to a target type and *)
(* a transform (cast.go and the rule files), what each MapRows makes of the *)
(* driver's values, and the transforms (transforms.go).                     *)
(*                                                                          *)
(* Rules of one shape are one rule here: their types differ, so that their  *)
(* order among themselves does not matter. Integers have Bits[type] bits,   *)
(* in the order of the real widths. Rules on types without values here      *)
(* (spatial types, enum, xml, the reg family) are left out.                 *)
(***************************************************************************)
EXTENDS CopyText, TLC

\* The widths, scaled down.
Bits == [tinyint |-> 2, smallint |-> 3, mediumint |-> 4, int |-> 5, integer |-> 5, bigint |-> 6,
         serial |-> 5, smallserial |-> 3, bigserial |-> 6]
Signed(w) == -(2 ^ (w - 1))..(2 ^ (w - 1) - 1)
Unsigned(w) == 0..(2 ^ w - 1)
AsInt64(n) == IF n >= 2 ^ (Bits.bigint - 1) THEN n - 2 ^ Bits.bigint ELSE n

\* A column: where it is, its type, its modifier or "", and its attributes.
Column(source, type, mod, unsigned, auto) ==
    [source |-> source, type |-> type, mod |-> mod, unsigned |-> unsigned, auto |-> auto]

\* A rule: "any", "yes" and "no" are the TriState of unsigned and auto.
Rule(types, target, transform) ==
    [types |-> types, mod |-> "", unsigned |-> "any", auto |-> "any", target |-> target, transform |-> transform]
OfMod(rule) == [rule EXCEPT !.mod = "(1)"]
OfUnsigned(rule) == [rule EXCEPT !.unsigned = "yes"]
OfAuto(rule) == [rule EXCEPT !.auto = "yes"]

Tri(t, b) == t = "any" \/ (t = "yes") = b
Matches(rule, c) ==
    /\ rule.types = {} \/ c.type \in rule.types
    /\ rule.mod = "" \/ c.mod = rule.mod
    /\ Tri(rule.unsigned, c.unsigned)
    /\ Tri(rule.auto, c.auto)

\* A target type may take over the modifier of the source.
SubstituteTypemod(target, c) == IF target = "bit varying($mod)" THEN "bit varying" \o c.mod ELSE target

\* The first rule that matches; without one the type keeps its name.
Apply(rules, c) ==
    LET hits == {i \in 1..Len(rules) : Matches(rules[i], c)}
        first == CHOOSE i \in hits : \A j \in hits : i <= j
    IN  IF hits = {} THEN [target |-> c.type, transform |-> ""]
        ELSE [target |-> SubstituteTypemod(rules[first].target, c), transform |-> rules[first].transform]

Binary == {"binary", "varbinary", "tinyblob", "blob", "mediumblob", "longblob"}
Texts == {"tinytext", "text", "mediumtext", "longtext"}

IntegerRules ==
    <<Rule({"tinyint", "smallint"}, "smallint", ""), Rule({"mediumint", "int", "integer"}, "integer", ""),
      Rule({"bigint"}, "bigint", "")>>

\* Mutant: the rules for signed integers come before those for unsigned ones.
MySQLRulesSignedFirst ==
    <<OfMod(Rule({"bit"}, "boolean", "bit-to-bool")), Rule({"bit"}, "bit varying($mod)", "bit-to-binstr"),
      OfMod(Rule({"tinyint"}, "boolean", "tinyint-to-bool"))>> \o IntegerRules

\* "int" with AUTO_INCREMENT stands before "int" UNSIGNED with AUTO_INCREMENT,
\* whose rule is never reached.
MySQLRules ==
    <<OfMod(Rule({"bit"}, "boolean", "bit-to-bool")),
      Rule({"bit"}, "bit varying($mod)", "bit-to-binstr"),
      OfMod(Rule({"tinyint"}, "boolean", "tinyint-to-bool")),
      OfAuto(Rule({"int", "mediumint", "smallint", "tinyint"}, "serial", "int-to-id")),
      OfAuto(OfUnsigned(Rule({"int"}, "bigserial", "int-to-id"))),
      OfAuto(Rule({"bigint"}, "bigserial", "int-to-id")),
      OfUnsigned(Rule({"tinyint"}, "smallint", "")),
      OfUnsigned(Rule({"smallint", "mediumint"}, "integer", "")),
      OfUnsigned(Rule({"int"}, "bigint", "")),
      OfUnsigned(Rule({"bigint"}, "numeric", ""))>>
    \o IntegerRules \o
    <<Rule({"float", "double", "real"}, "float", ""),
      Rule({"decimal", "numeric", "dec", "fixed"}, "numeric", ""),
      Rule({"char", "varchar"}, "varchar", ""),
      Rule(Texts, "text", "remove-null-chars"),
      Rule(Binary, "bytea", ""),
      Rule({"datetime", "timestamp"}, "timestamptz", "zero-dates-to-null"),
      Rule({"date"}, "date", "zero-dates-to-null"),
      Rule({"enum", "set"}, "text", "")>>

MSSQLRules ==
    <<Rule({"char", "nchar", "varchar", "nvarchar", "ntext"}, "text", ""),
      OfAuto(Rule({"int", "bigint"}, "bigserial", "")),
      OfAuto(Rule({"smallint"}, "smallserial", "")),
      OfAuto(Rule({"tinyint"}, "serial", ""))>>
    \o IntegerRules \o
    <<Rule({"bit"}, "boolean", "sql-server-bit-to-boolean"),
      Rule({"float", "real"}, "float", "float-to-string"),
      Rule({"numeric", "decimal", "money", "smallmoney"}, "numeric", "float-to-string"),
      Rule({"binary", "varbinary", "image", "hierarchyid", "geography"}, "bytea", "byte-vector-to-bytea"),
      Rule({"smalldatetime", "datetime", "datetime2", "datetimeoffset"}, "timestamptz", "")>>

SQLiteRules ==
    <<OfAuto(Rule({"integer"}, "bigserial", "int-to-id")), Rule({"integer"}, "bigint", "")>>
    \o IntegerRules \o
    <<Rule({"real", "float", "double"}, "float", ""),
      Rule({"numeric", "decimal"}, "numeric", ""),
      Rule({"text", "varchar", "nvarchar", "char", "nchar", "clob"}, "text", ""),
      Rule({"blob"}, "bytea", ""),
      Rule({"boolean", "bool"}, "boolean", ""),
      Rule({"datetime"}, "timestamptz", "zero-dates-to-null"),
      Rule({"timestamp"}, "timestamp", "")>>

\* The rules of the command come before those of the source.
EngineOf(source, userRules) ==
    userRules \o (IF source = "mysql" THEN MySQLRules ELSE IF source = "mssql" THEN MSSQLRules ELSE SQLiteRules)
=============================================================================
