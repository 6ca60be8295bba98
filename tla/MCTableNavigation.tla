------------------------- MODULE MCTableNavigation -------------------------
(***************************************************************************)
(* Catalogs of up to two schemas, each with up to three tables in the order *)
(* of their names, as the sources discover them; the same names may stand   *)
(* in both schemas.                                                         *)
(***************************************************************************)
EXTENDS TableNavigation

Ordered == {<<>>, <<"a">>, <<"b">>, <<"c">>, <<"a", "b">>, <<"a", "c">>, <<"b", "c">>,
            <<"a", "b", "c">>}

MCSchema(n) == [name : {n}, tables : Ordered]

MCConfigured == {"app", "dbo"}

MCName == {"app", "dbo", "a", "b", "c"}

\* SQL Server puts a schema in the catalog with its first table; the other
\* sources' only schema may have no table.
MCCatalogs ==
    {<<>>} \cup {<<s>> : s \in MCSchema("app") \cup MCSchema("dbo")}
        \cup {<<s, t>> : s \in {x \in MCSchema("app") : x.tables # <<>>},
                         t \in {x \in MCSchema("dbo") : x.tables # <<>>}}
=============================================================================
