-------------------------- MODULE MaterializedViews --------------------------
(***************************************************************************)
(* MATERIALIZE VIEWS of the MSSQL source: createMaterializedViews copies    *)
(* every view asked for into a table of the SOURCE database, the view's     *)
(* name with "_pgloader" appended, and a deferred DropMaterializedViews     *)
(* drops these tables when the command is over. Commands are run one after  *)
(* the other, each in a process of its own, against the same database.      *)
(*                                                                          *)
(* A view is a number, its place in the order they are materialized in; the *)
(* same number is the table for it. The user may own tables of such names.  *)
(***************************************************************************)
EXTENDS Naturals

CONSTANTS
    Views,       \* the number of views
    MaxRuns      \* bound on the runs

ASSUME BoundsAssumption == Views \in Nat /\ MaxRuns \in Nat

VARIABLES
    user,            \* tables of such names that belong to the user
    tables,          \* all tables of such names in the source database
    found,           \* those that were there when the run began
    todo,            \* views still to materialize
    tempViewTables,  \* tables the run has recorded to drop
    place,           \* "idle" between runs, "materialize", "load" or "drop"
    ctx,             \* "live", or "cancelled" by the user
    server,          \* "faulty" once a statement of the run failed by accident
    runs

viewVars == <<user, tables, found, todo, tempViewTables, place, ctx, server, runs>>

View == 1..Views

First(v, S) == v \in S /\ \A w \in S : v <= w

Begin ==
    /\ place = "idle" /\ runs < MaxRuns
    /\ todo' \in SUBSET View
    /\ found' = tables
    /\ tempViewTables' = {}
    /\ place' = "materialize" /\ ctx' = "live" /\ server' = "sound"
    /\ runs' = runs + 1
    /\ UNCHANGED <<user, tables>>

\* Mutant: the table is recorded before the statement that creates it.
SelectIntoRefusedRecorded(v) ==
    /\ place = "materialize" /\ First(v, todo)
    /\ ctx = "live" /\ v \in tables
    /\ tempViewTables' = tempViewTables \cup {v}
    /\ place' = "drop"
    /\ UNCHANGED <<user, tables, found, todo, ctx, server, runs>>

SelectInto(v) ==
    /\ place = "materialize" /\ First(v, todo)
    /\ ctx = "live" /\ v \notin tables
    /\ tables' = tables \cup {v}
    /\ tempViewTables' = tempViewTables \cup {v}
    /\ todo' = todo \ {v}
    /\ UNCHANGED <<user, found, place, ctx, server, runs>>

\* SELECT INTO does not overwrite a table. FetchMetadata fails, and with it
\* the migration; the deferred call remains.
SelectIntoRefused(v) ==
    /\ place = "materialize" /\ First(v, todo)
    /\ ctx = "live" /\ v \in tables
    /\ place' = "drop"
    /\ UNCHANGED <<user, tables, found, todo, tempViewTables, ctx, server, runs>>

\* The connection is lost, before or after the server created the table, or
\* the context is cancelled before the statement is sent.
SelectIntoFails(v) ==
    /\ place = "materialize" /\ First(v, todo)
    /\ \/ ctx = "cancelled" /\ UNCHANGED <<tables, server>>
       \/ tables' \in {tables, tables \cup {v}} /\ server' = "faulty"
    /\ place' = "drop"
    /\ UNCHANGED <<user, found, todo, tempViewTables, ctx, runs>>

Load ==
    /\ place = "materialize" /\ todo = {}
    /\ place' = "load"
    /\ UNCHANGED <<user, tables, found, todo, tempViewTables, ctx, server, runs>>

\* Mutant: a migration that fails returns without the deferred call.
LoadReturnsAtOnce ==
    /\ place = "load"
    /\ place' \in {"drop", "idle"}
    /\ UNCHANGED <<user, tables, found, todo, tempViewTables, ctx, server, runs>>

\* Migration.Run returns, with an error or without.
LoadReturns ==
    /\ place = "load"
    /\ place' = "drop"
    /\ UNCHANGED <<user, tables, found, todo, tempViewTables, ctx, server, runs>>

DropTable(v) ==
    /\ place = "drop" /\ First(v, tempViewTables)
    /\ ctx = "live"
    /\ tables' = tables \ {v}
    /\ tempViewTables' = tempViewTables \ {v}
    /\ UNCHANGED <<user, found, todo, place, ctx, server, runs>>

\* The first error ends DropMaterializedViews: execMSSQL only warns.
DropFails ==
    /\ place = "drop" /\ tempViewTables # {}
    /\ \/ ctx = "cancelled" /\ UNCHANGED <<tables, server>>
       \/ /\ server' = "faulty"
          /\ \E v \in View : First(v, tempViewTables) /\ tables' \in {tables, tables \ {v}}
    /\ place' = "idle"
    /\ UNCHANGED <<user, found, todo, tempViewTables, ctx, runs>>

DropEnds ==
    /\ place = "drop" /\ tempViewTables = {}
    /\ place' = "idle"
    /\ UNCHANGED <<user, tables, found, todo, tempViewTables, ctx, server, runs>>

\* An interrupt cancels the context that the deferred call uses too.
Interrupt ==
    /\ place # "idle" /\ ctx = "live"
    /\ ctx' = "cancelled"
    /\ UNCHANGED <<user, tables, found, todo, tempViewTables, place, server, runs>>

ViewInit ==
    /\ user \in SUBSET View
    /\ tables = user /\ found = user
    /\ todo = {} /\ tempViewTables = {}
    /\ place = "idle" /\ ctx = "live" /\ server = "sound" /\ runs = 0

ViewStep(v) == SelectInto(v) \/ SelectIntoRefused(v) \/ SelectIntoFails(v) \/ DropTable(v)

ViewNext ==
    \/ Begin \/ Load \/ LoadReturns \/ DropFails \/ DropEnds \/ Interrupt
    \/ \E v \in View : ViewStep(v)

ViewSpec == ViewInit /\ [][ViewNext]_viewVars

----------------------------------------------------------------------------
(* Properties *)

\* Types; and a table recorded to be dropped exists, and did not exist when
\* the run began.
ViewTypeOK ==
    /\ user \in SUBSET View /\ tables \in SUBSET View /\ found \in SUBSET View
    /\ todo \in SUBSET View /\ tempViewTables \in SUBSET View
    /\ place \in {"idle", "materialize", "load", "drop"}
    /\ ctx \in {"live", "cancelled"} /\ server \in {"sound", "faulty"}
    /\ runs \in 0..MaxRuns
    /\ place # "idle" => tempViewTables \subseteq tables /\ tempViewTables \cap found = {}

\* DropMaterializedViews never drops a table of the user, whatever it is
\* called and whatever earlier runs left behind.
UserTablesKept == user \subseteq tables

\* A run that is not interrupted, and whose statements do not fail by
\* accident, leaves the source database as it found it, also when the
\* migration fails or the name of a table is taken.
LeavesNoTrace ==
    place = "idle" /\ ctx = "live" /\ server = "sound" => tables = found
=============================================================================
