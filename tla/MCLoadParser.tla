---------------------------- MODULE MCLoadParser ----------------------------
(***************************************************************************)
(* Files of one command with up to three lines of clauses, whole, cut short *)
(* or continued; and files of broken heads, comments and two commands.      *)
(***************************************************************************)
EXTENDS LoadParser, SequencesExt

DatabaseHead == <<"LOAD", "DATABASE", "NL", "FROM", "uri", "NL", "INTO", "uri">>

Lines ==
    {<<"WITH", "word", ",", "word">>, <<"WITH", "word", "SET", "word">>, <<"word">>,
     <<"SET", "word">>, <<"SET", "sql", ",">>, <<"CAST", "word", "WITH", "word">>,
     <<"CAST", ",", "word", ",", "SET", "word">>,
     <<"INCLUDING", "word", ",", "word">>, <<"EXCLUDING", "word", "CAST", "word">>, <<"EXCLUDING">>,
     <<"MATERIALIZE", "ALLVIEWS">>, <<"MATERIALIZE", "word", "sql">>, <<"MATERIALIZE", "word", "sql;">>,
     <<"BEFORE", "sql;", ",", "sql">>, <<"AFTER", "sql">>, <<"AFTER", "word">>,
     <<"TARGETTABLE", "word">>, <<"TARGETSCHEMA", "word">>, <<"TARGETTABLE", "BEFORE", "sql">>, <<"TARGETSCHEMA">>}

Body(lines) == FlattenSeq([i \in 1..Len(lines) |-> <<"NL">> \o lines[i]])

Heads ==
    {<<"LOAD", "CSV", "FROM", "word", "list", "NL", "INTO", "uri">>,
     <<"LOAD", "CSV", "FROM", "word", "INTO", "TARGETTABLE", "word">>,
     <<"LOAD", "CSV", "FROM", "word", "INTO", ",", "word">>, <<"LOAD", "CSV", "FROM", "list", "INTO", "uri">>,
     <<"LOAD", "CSV">>, <<"LOAD", "CSV", "FROM">>, <<"LOAD", "word">>, <<"word">>, <<"LOAD">>, <<>>,
     <<"LOAD", "DATABASE", "FROM", "word", "INTO", "uri">>, <<"LOAD", "DATABASE", "FROM", "uri">>,
     <<"LOAD", "DATABASE", "FROM", "sql;", "INTO", "uri">>, <<"LOAD", "DATABASE", "INTO", "uri">>,
     <<"LOAD", "DATABASE", "FROM", "uri", "INTO">>, <<"comment", "NL">> \o DatabaseHead,
     <<"LOAD", "DATABASE", "FROM", "uri", "INTO", "$$">>}
Ends == {<<>>, <<";">>, <<";", "NL", "comment">>, <<";", "word">>, <<";">> \o DatabaseHead \o <<";">>,
         <<";", ";">>, <<";", "word", ";">>}

MCFiles ==
    {DatabaseHead \o Body(lines) \o <<"NL", ";">> : lines \in UNION {[1..n -> Lines] : n \in 0..3}}
    \cup {head \o body \o e : head \in Heads \cup {DatabaseHead}, e \in Ends,
          body \in {<<>>, <<"NL", "WITH", "word">>, <<"NL", "TARGETTABLE", "word", "BEFORE", "sql">>}}
=============================================================================
