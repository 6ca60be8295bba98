---------------------------- MODULE MCMigration ----------------------------
(***************************************************************************)
(* Two tables that reference each other and a few runs. The first table     *)
(* stands for a child loaded before its parent, the second for a parent     *)
(* loaded after its child.                                                  *)
(***************************************************************************)
EXTENDS Migration, TLC

CONSTANTS a, b, r1, r2

MCTable == {a, b}
MCOrder == <<a, b>>
MCParent == (a :> b) @@ (b :> a)
MCRow == {r1, r2}

Default == {"CreateTables", "CreateIndexes", "ForeignKeys", "ResetSequences"}
NoForeignKeys == Default \ {"ForeignKeys"}
NoIndexes == Default \ {"CreateIndexes"}
NoCreate == Default \ {"CreateTables"}

MCOptionSets ==
    {o \cup extra : o \in {Default, NoForeignKeys, NoCreate},
                    extra \in {{}, {"Truncate"}, {"IncludeDrop"}, {"DataOnly"},
                               {"SchemaOnly"}, {"IncludeDrop", "SchemaOnly"},
                               {"Truncate", "DataOnly"}}}
        \cup {NoIndexes}
=============================================================================
