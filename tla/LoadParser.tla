----------------------------- MODULE LoadParser -----------------------------
(***************************************************************************)
(* The parser of .load files (parser.go): comments, the split into commands *)
(* at semicolons, and the clause machine of parseCommand with the readers   *)
(* of values, lists, options and SQL statements.                            *)
(*                                                                          *)
(* A file is a sequence of tokens separated by blanks: keywords (those of   *)
(* several words, such as BEFORE LOAD DO, are one token), "word" and "uri"  *)
(* (a URI of a known scheme), "list" (a parenthesized list), "sql"          *)
(* ($$...$$), "sql;" (the same with a semicolon inside), the comma, "NL"    *)
(* and ";". "$$" opens a quote that is never closed. Fields of a command    *)
(* hold positions in the file, so a text is known by where it stands.       *)
(***************************************************************************)
EXTENDS Integers, Sequences, FiniteSets

CONSTANT Files      \* the files that may be parsed

OptionClauses == {"WITH", "SET", "CAST", "INCLUDING", "EXCLUDING", "MATERIALIZE"}
SQLClauses == {"BEFORE", "AFTER"}
ValueClauses == {"TARGETTABLE", "TARGETSCHEMA"}
Clauses == OptionClauses \cup SQLClauses \cup ValueClauses
Fields == OptionClauses \cup SQLClauses \cup {"CSV", "FROM", "columns", "INTO", "table", "schema", "skipped"}

Quoted == {"sql", "sql;"}
Separators == {",", "NL", ";"}
Tokens == Clauses \cup Quoted \cup Separators
          \cup {"LOAD", "DATABASE", "CSV", "FROM", "INTO", "word", "uri", "list", "ALLVIEWS", "comment", "$$"}

ASSUME FilesAssumption == Files \subseteq Seq(Tokens)

VARIABLES
    file,      \* the tokens, without comments once they are split
    pos,       \* the next token
    rest,      \* "rest" when a value reader stopped inside that token, else ""
    state,     \* "split", the state of parseCommand, or "end"
    clause,    \* the clause whose options or statements are being read, or ""
    cmd,       \* the command being read: field -> its texts
    cmds,      \* the commands read
    result     \* "", "ok" or "error"

vars == <<file, pos, rest, state, clause, cmd, cmds, result>>

NoCommand == [f \in Fields |-> <<>>]

\* skipSpace: line ends are blanks everywhere but within an option.
Skip(p) == CHOOSE q \in p..(Len(file) + 1) :
              /\ q > Len(file) \/ file[q] # "NL"
              /\ \A i \in p..(q - 1) : file[i] = "NL"

EndsAt(p) == p > Len(file) \/ file[p] = ";"
AtEnd == EndsAt(pos) /\ rest = ""
Tok == IF rest # "" THEN rest ELSE file[pos]

Fail ==
    /\ result' = "error" /\ state' = "end" /\ cmds' = <<>>
    /\ UNCHANGED <<file, pos, rest, clause, cmd>>

\* Mutant: EXCLUDING is not among the clauses that may follow another.
AdvanceStateNoExcluding(p, left) ==
    IF left # "" \/ EndsAt(p) \/ file[p] \notin Clauses \ {"EXCLUDING"} THEN "done" ELSE file[p]

\* advanceState: what is no clause ends the command, and nothing after it counts.
AdvanceState(p, left) == IF left # "" \/ EndsAt(p) \/ file[p] \notin Clauses THEN "done" ELSE file[p]

----------------------------------------------------------------------------
(* removeComments and splitCommands *)

WithoutComments ==
    LET kept[i \in 0..Len(file)] ==
            IF i = 0 THEN <<>>
            ELSE IF file[i] = "comment" THEN kept[i - 1]
            ELSE Append(kept[i - 1], file[i])
    IN  kept[Len(file)]

\* What follows the last semicolon must be blank, and every $$ closed.
SplitOK(f) ==
    /\ \A i \in 1..Len(f) : f[i] # "$$"
    /\ \E i \in 1..Len(f) : f[i] = ";" /\ \A j \in (i + 1)..Len(f) : f[j] = "NL"

Split ==
    /\ state = "split"
    /\ IF SplitOK(WithoutComments)
       THEN /\ file' = WithoutComments /\ state' = "init"
            /\ UNCHANGED <<pos, rest, clause, cmd, cmds, result>>
       ELSE Fail

----------------------------------------------------------------------------
(* parseCommand up to INTO *)

\* readValue stops within a token of several words, at a comma inside a list
\* and at the semicolon of a quote. At a comma it reads the empty text.
Value(p) == IF file[p] = "," THEN <<p, p - 1>> ELSE <<p, p>>
StopsInside(p) == file[p] \in {"list", "sql;"} \cup ((SQLClauses \cup ValueClauses) \cup {"INCLUDING", "EXCLUDING"})
Rest(p) == IF StopsInside(p) THEN "rest" ELSE ""
AfterValue(p) == IF file[p] = "," \/ StopsInside(p) THEN p ELSE Skip(p + 1)

ReadLoad ==
    /\ state = "init" /\ Skip(pos) <= Len(file)
    /\ IF file[Skip(pos)] = "LOAD"
       THEN state' = "type" /\ pos' = Skip(Skip(pos) + 1) /\ UNCHANGED <<file, rest, clause, cmd, cmds, result>>
       ELSE IF file[Skip(pos)] = ";"    \* an empty command
       THEN pos' = Skip(pos) + 1 /\ UNCHANGED <<file, rest, state, clause, cmd, cmds, result>>
       ELSE Fail

ReadType ==
    /\ state = "type" /\ ~AtEnd
    /\ IF Tok \in {"DATABASE", "CSV"}
       THEN /\ cmd' = [cmd EXCEPT !["CSV"] = IF Tok = "CSV" THEN <<Value(pos)>> ELSE <<>>]
            /\ pos' = Skip(pos + 1) /\ state' = "from"
            /\ UNCHANGED <<file, rest, clause, cmds, result>>
       ELSE Fail

ReadFrom ==
    /\ state = "from" /\ ~AtEnd
    /\ LET v == Skip(pos + 1)
           l == AfterValue(v) IN
       IF Tok = "FROM" /\ ~EndsAt(v)
       THEN /\ IF cmd["CSV"] # <<>> /\ ~StopsInside(v) /\ l <= Len(file) /\ file[l] = "list"
               THEN /\ cmd' = [cmd EXCEPT !["FROM"] = <<Value(v)>>, !["columns"] = <<Value(l)>>]
                    /\ pos' = Skip(l + 1) /\ rest' = ""
               ELSE /\ cmd' = [cmd EXCEPT !["FROM"] = <<Value(v)>>]
                    /\ pos' = l /\ rest' = Rest(v)
            /\ state' = "into"
            /\ UNCHANGED <<file, clause, cmds, result>>
       ELSE Fail

\* The test for TARGET TABLE compares eleven characters with twelve, so that
\* INTO TARGET TABLE reads "TARGET" as the target.
ReadInto ==
    /\ state = "into" /\ ~AtEnd
    /\ LET v == Skip(pos + 1) IN
       IF Tok = "INTO" /\ ~EndsAt(v)
       THEN /\ cmd' = [cmd EXCEPT !["INTO"] = <<Value(v)>>]
            /\ pos' = AfterValue(v) /\ rest' = Rest(v)
            /\ state' = AdvanceState(AfterValue(v), Rest(v))
            /\ UNCHANGED <<file, clause, cmds, result>>
       ELSE Fail

----------------------------------------------------------------------------
(* The clauses *)

\* TARGET TABLE sets the schema too, to the one in the name or to "public".
ReadTarget ==
    /\ state \in ValueClauses
    /\ LET v == Skip(pos + 1) IN
       IF EndsAt(v)
       THEN Fail
       ELSE /\ cmd' = [f \in Fields |-> IF f = "schema" \/ (f = "table" /\ state = "TARGETTABLE")
                                        THEN <<Value(v)>> ELSE cmd[f]]
            /\ pos' = AfterValue(v) /\ rest' = Rest(v)
            /\ state' = AdvanceState(AfterValue(v), Rest(v))
            /\ UNCHANGED <<file, clause, cmds, result>>

\* The texts of a clause replace those of an earlier one of its kind.
OpenClause ==
    /\ state \in OptionClauses \cup SQLClauses
    /\ clause = ""
    /\ LET v == Skip(pos + 1) IN
       IF state = "MATERIALIZE" /\ ~EndsAt(v) /\ file[v] = "ALLVIEWS"
       THEN /\ cmd' = [cmd EXCEPT ![state] = <<<<v, v>>>>]
            /\ pos' = Skip(v + 1) /\ state' = AdvanceState(Skip(v + 1), "")
            /\ UNCHANGED clause
       ELSE /\ cmd' = [cmd EXCEPT ![state] = <<>>]
            /\ pos' = v /\ clause' = state
            /\ UNCHANGED state
    /\ UNCHANGED <<file, rest, cmds, result>>

\* Mutant: within an option CAST is not looked for either.
OptionEndsNotAtCast(p, q) ==
    \/ EndsAt(q) \/ file[q] \in {",", "NL", "sql;"}
    \/ q > p /\ file[q] \in Clauses \ {"SET", "CAST"}

\* An option ends at a comma, a line end, a semicolon (of a quote), or, once it
\* has begun, at a clause other than SET.
OptionEndsAt(p, q) ==
    \/ EndsAt(q) \/ file[q] \in {",", "NL", "sql;"}
    \/ q > p /\ file[q] \in Clauses \ {"SET"}
OptionEnd(p) == CHOOSE q \in p..(Len(file) + 1) :
                   /\ OptionEndsAt(p, q)
                   /\ \A i \in p..(q - 1) : ~OptionEndsAt(p, i)

\* readOptionsUntil: one round of its outer loop. At the semicolon of a quote
\* the round reads nothing and moves nothing, and so does every later one.
ReadOption ==
    /\ clause \in OptionClauses
    /\ ~AtEnd /\ Tok \notin Clauses \cup {","}
    /\ LET e == OptionEnd(pos) IN
       IF rest # ""
       THEN UNCHANGED <<cmd, pos, rest>>
       ELSE IF ~EndsAt(e) /\ file[e] = "sql;"
       THEN cmd' = [cmd EXCEPT ![clause] = Append(@, <<pos, e>>)] /\ pos' = e /\ rest' = "rest"
       ELSE /\ cmd' = [cmd EXCEPT ![clause] = Append(@, <<pos, e - 1>>)]
            /\ pos' = Skip(IF ~EndsAt(e) /\ file[e] = "," THEN e + 1 ELSE e)
            /\ UNCHANGED rest
    /\ UNCHANGED <<file, state, clause, cmds, result>>

\* readSQLStatements: one statement.
ReadStatement ==
    /\ clause \in SQLClauses /\ ~AtEnd /\ Tok \in Quoted
    /\ cmd' = [cmd EXCEPT ![clause] = Append(@, <<pos, pos>>)]
    /\ pos' = Skip(pos + 1)
    /\ UNCHANGED <<file, rest, state, clause, cmds, result>>

\* Mutant: a comma after a statement is looked at and not passed.
SkipCommaNot ==
    /\ clause # "" /\ ~AtEnd /\ Tok = ","
    /\ pos' = Skip(pos + (IF clause \in SQLClauses THEN 0 ELSE 1))
    /\ UNCHANGED <<file, rest, state, clause, cmd, cmds, result>>

\* Mutant: what stands after a comma is passed with it.
SkipCommaTooFar ==
    /\ clause # "" /\ ~AtEnd /\ Tok = ","
    /\ pos' = IF EndsAt(Skip(pos + 1)) THEN Skip(pos + 1) ELSE Skip(Skip(pos + 1) + 1)
    /\ UNCHANGED <<file, rest, state, clause, cmd, cmds, result>>

SkipComma ==
    /\ clause # "" /\ ~AtEnd /\ Tok = ","
    /\ pos' = Skip(pos + 1)
    /\ UNCHANGED <<file, rest, state, clause, cmd, cmds, result>>

CloseClause ==
    /\ clause # ""
    /\ \/ AtEnd
       \/ clause \in OptionClauses /\ Tok \in Clauses
       \/ clause \in SQLClauses /\ Tok \notin Quoted \cup {","}
    /\ clause' = ""
    /\ state' = AdvanceState(pos, rest)
    /\ UNCHANGED <<file, pos, rest, cmd, cmds, result>>

----------------------------------------------------------------------------
(* The end of a command and of the file *)

CommandEnd == CHOOSE q \in pos..Len(file) : file[q] = ";" /\ \A i \in pos..(q - 1) : file[i] # ";"

\* The default case of the switch: the rest of the command is passed over.
SkipRest ==
    /\ state = "done" /\ ~AtEnd
    /\ cmd' = [cmd EXCEPT !["skipped"] = <<<<pos, CommandEnd - 1>>>>]
    /\ pos' = CommandEnd /\ rest' = ""
    /\ UNCHANGED <<file, state, clause, cmds, result>>

\* A database command needs a source of a known scheme; the rest may be missing.
SourceKnown == cmd["FROM"] # <<>> /\ file[cmd["FROM"][1][1]] = "uri"

EndCommand ==
    /\ state \notin {"split", "init", "end"} /\ clause = "" /\ AtEnd
    /\ IF cmd["CSV"] # <<>> \/ SourceKnown
       THEN /\ cmds' = Append(cmds, cmd) /\ cmd' = NoCommand
            /\ state' = "init" /\ pos' = pos + 1
            /\ UNCHANGED <<file, rest, clause, result>>
       ELSE Fail

EndFile ==
    /\ state = "init" /\ Skip(pos) > Len(file)
    /\ IF cmds # <<>>
       THEN result' = "ok" /\ state' = "end" /\ UNCHANGED <<file, pos, rest, clause, cmd, cmds>>
       ELSE Fail

Init ==
    /\ file \in Files
    /\ pos = 1 /\ rest = "" /\ state = "split" /\ clause = ""
    /\ cmd = NoCommand /\ cmds = <<>> /\ result = ""

Next ==
    \/ Split \/ ReadLoad \/ ReadType \/ ReadFrom \/ ReadInto
    \/ ReadTarget \/ OpenClause \/ ReadOption \/ ReadStatement \/ SkipComma \/ CloseClause
    \/ SkipRest \/ EndCommand \/ EndFile

\* The parser is one function call: it runs until it returns.
Spec == Init /\ [][Next]_vars /\ WF_vars(Next)

----------------------------------------------------------------------------
(* Properties *)

\* Types; no command is returned with an error, and the texts of a command lie
\* in order in the file.
TypeOK ==
    /\ pos \in 1..(Len(file) + 1) /\ rest \in {"", "rest"}
    /\ state \in {"split", "init", "type", "from", "into", "done", "end"} \cup Clauses
    /\ clause \in {"", state} /\ result \in {"", "ok", "error"}
    /\ result # "" <=> state = "end"
    /\ result = "ok" <=> result # "" /\ cmds # <<>>
    /\ \A c \in {cmds[i] : i \in 1..Len(cmds)} \cup {cmd}, f \in Fields :
          \A i \in 1..Len(c[f]) : i > 1 => c[f][i - 1][2] < c[f][i][1]

Texts(c, f) == UNION {c[f][i][1]..c[f][i][2] : i \in 1..Len(c[f])}
Stored(p) == \E i \in 1..Len(cmds), f \in Fields : p \in Texts(cmds[i], f)
\* The keyword of the clause that position p is in: the last one before it
\* that is not itself a text.
Keyword(p) == CHOOSE k \in 1..(p - 1) :
                 /\ file[k] \in Clauses /\ ~Stored(k)
                 /\ \A i \in (k + 1)..(p - 1) : file[i] \in Clauses => Stored(i)

\* Every text of an option or SQL clause stands after the keyword of that clause
\* and before any other clause; the one keyword that may be read as a text is a
\* SET that does not begin a line or follow a comma (readOptionsUntil).
TextsInTheirClause ==
    result = "ok" =>
        \A i \in 1..Len(cmds), f \in OptionClauses \cup SQLClauses : \A p \in Texts(cmds[i], f) :
            /\ file[Keyword(p)] = f
            /\ file[p] \in Clauses => file[p] = "SET" /\ file[p - 1] \notin {",", "NL"}

SameClause(k, q) == file[q] = file[k] \/ (file[k] = "TARGETSCHEMA" /\ file[q] = "TARGETTABLE")
Replaced(p) ==
    \E k \in 1..(p - 1), q \in (p + 1)..Len(file) :
        /\ {file[k], file[q]} \subseteq Clauses /\ SameClause(k, q) /\ ~Stored(k) /\ ~Stored(q)
        /\ \A i \in (k + 1)..p : file[i] \in Clauses => Stored(i) \/ file[i] = "SET"
        /\ \A i \in k..q : file[i] # ";"

\* Of an accepted file nothing is lost: every text is in its command, or in the
\* part that is skipped as a whole, or a later clause of the same kind has
\* replaced it (the assignments of parseCommand).
NothingLost ==
    result = "ok" =>
        \A p \in 1..Len(file) :
            \/ file[p] \in Separators \cup Clauses \cup {"LOAD", "DATABASE", "CSV", "FROM", "INTO"}
            \/ Stored(p) \/ Replaced(p)

Flat(f) == SelectSeq(f, LAMBDA t : t \notin {"NL", "comment"})
WellFormedHeads ==
    {<<"LOAD", "DATABASE", "FROM", "uri", "INTO", "uri">>,
     <<"LOAD", "CSV", "FROM", "word", "INTO", "uri">>,
     <<"LOAD", "CSV", "FROM", "word", "list", "INTO", "uri">>}
HeadAt(f, i, h) ==
    /\ i + Len(h) <= Len(f) /\ f[i + Len(h)] \in Clauses \cup {";"}
    /\ \A j \in 1..Len(h) : f[i + j - 1] = h[j]
Section(f, i) == {j \in (i + 1)..Len(f) : \A k \in (i + 1)..j : f[k] \notin Clauses \cup {";"}}

\* A file as the documentation writes one: heads, then clauses in any order and
\* number, SET at the start of a line, no dollar quote among options.
WellFormed ==
    LET f == Flat(file) IN
    /\ Len(f) > 0 /\ f[1] = "LOAD" /\ f[Len(f)] = ";"
    /\ \A i \in 1..Len(f) : f[i] # "$$"
    /\ \A i \in 2..Len(f) : f[i - 1] = ";" => f[i] = "LOAD"
    /\ \A i \in 1..Len(file) : file[i] = "SET" => file[i - 1] \in {"NL", ",", "comment"}
    /\ \A i \in 1..Len(f) : f[i] = "LOAD" => \E h \in WellFormedHeads : HeadAt(f, i, h)
    /\ \A i \in 1..Len(f) : f[i] \in Clauses =>
          LET s == Section(f, i) IN
          IF f[i] \in ValueClauses THEN s = {i + 1} /\ f[i + 1] = "word"
          ELSE IF f[i] \in SQLClauses THEN \A j \in s : f[j] \in Quoted \cup {","}
          ELSE \A j \in s : f[j] \in {"word", ","} \/ (f[i] = "MATERIALIZE" /\ s = {i + 1} /\ f[j] = "ALLVIEWS")

\* A well-formed file is accepted, all its commands are read, and no clause of
\* them is skipped, whatever their order (advanceState after every clause).
WellFormedIsRead ==
    WellFormed /\ result # "" =>
        /\ result = "ok"
        /\ Len(cmds) = Cardinality({i \in 1..Len(file) : file[i] = ";"})
        /\ \A i \in 1..Len(cmds) : cmds[i]["skipped"] = <<>>

\* Parsing ends, except at a semicolon quoted among options: no other file keeps
\* a reader where it is (the loops of parseCommand, readOptionsUntil,
\* readSQLStatements).
Terminates == <>(result # "" \/ (rest # "" /\ clause # ""))
=============================================================================
