------------------------------ MODULE MCOptions ------------------------------
(***************************************************************************)
(* Lists of up to two options, of both signs, with an alias, a number, the  *)
(* two scopes, an option of CSV files and one that nobody knows.            *)
(***************************************************************************)
EXTENDS Options

On(keyword) == [keyword |-> keyword, value |-> 1]
Off(keyword) == [keyword |-> keyword, value |-> 0]

MCOffered ==
    {On("IncludeDrop"), Off("IncludeDrop"), On("DropIndexes"), On("ForeignKeys"), Off("ForeignKeys"),
     On("SchemaOnly"), On("DataOnly"), On("Truncate"), On("BatchSize"), On("CSV"), On("unknown")}
=============================================================================
