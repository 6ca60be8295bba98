------------------------------- MODULE Options -------------------------------
(***************************************************************************)
(* How the options of a command become its Config: the defaults, the WITH   *)
(* clause of a .load file, --with, and the flags --foreign-keys and         *)
(* --include-drop, one option at a time (ApplyWithOption), in the order of  *)
(* ExecuteCommand for a file and of RunE for flags.                         *)
(*                                                                          *)
(* An option is its keyword and its value: 0 and 1 for "no x" and "x". The  *)
(* keyword is the name of the setting it stands for, except "DropIndexes",  *)
(* the scopes, "CSV" for the options that only parseCSVWithOptions knows,   *)
(* and "unknown" for a text that nobody knows or a number that is none.     *)
(***************************************************************************)
EXTENDS Integers, Sequences

CONSTANTS
    Offered,      \* the options a user may give
    MaxOptions    \* bound on the options of WITH, and of --with

Toggles == {"CreateTables", "CreateIndexes", "ForeignKeys", "IncludeDrop", "Truncate",
            "ResetSequences", "CreateTriggers", "OnErrorStop", "Comments"}
Numbers == {"BatchSize", "Concurrency", "PrefetchRows", "RowsPerRange"}
Scopes == {"SchemaOnly", "DataOnly"}
Settings == Toggles \cup Numbers \cup Scopes

Keywords == Settings \cup {"DropIndexes", "CSV", "unknown"}
\* There is no "no schema only".
Option == {o \in [keyword : Keywords, value : Int] : o.keyword \in Scopes => o.value = 1}

\* A flag that is not on the command line.
Absent == -1

ASSUME OfferedAssumption ==
    /\ Offered \subseteq Option
    /\ MaxOptions \in Nat

VARIABLES
    via,          \* "file" or "flags"
    fkeys, drop,  \* --foreign-keys and --include-drop: 0, 1 or Absent
    with,         \* the WITH clause of the file
    cliWith,      \* --with, and what main.go appends to it for a file
    given,        \* the options applied so far, oldest first
    cfg,          \* the Config
    pc,           \* "with", "cli", "flags" or "done"
    err

inputVars == <<via, fkeys, drop, with, cliWith>>
optionsVars == <<inputVars, given, cfg, pc, err>>

DefaultConfig ==
    [s \in Settings |->
        IF s \in {"CreateTables", "CreateIndexes", "ForeignKeys", "ResetSequences", "CreateTriggers"}
        THEN 1
        ELSE IF s = "BatchSize" THEN 50000
        ELSE IF s = "Concurrency" THEN 1
        ELSE IF s = "PrefetchRows" THEN 10000
        ELSE IF s = "RowsPerRange" THEN 50000
        ELSE 0]

----------------------------------------------------------------------------
(* ApplyWithOption *)

Accepted(o) == o.keyword \notin {"CSV", "unknown"}

\* "drop indexes" is the same as "include drop".
SettingOf(o) == IF o.keyword = "DropIndexes" THEN "IncludeDrop" ELSE o.keyword

\* "schema only" and "data only" exclude each other.
Apply(c, o) ==
    IF o.keyword \in Scopes
    THEN [s \in Settings |-> IF s = o.keyword THEN 1 ELSE IF s \in Scopes THEN 0 ELSE c[s]]
    ELSE [c EXCEPT ![SettingOf(o)] = o.value]

\* The next option of a list: the first one refused ends the command.
ApplyNext(options, applied) ==
    LET o == options[applied + 1] IN
    IF Accepted(o)
    THEN /\ cfg' = Apply(cfg, o)
         /\ given' = Append(given, o)
         /\ UNCHANGED <<pc, err>>
    ELSE /\ err' = "option" /\ pc' = "done"
         /\ UNCHANGED <<cfg, given>>

----------------------------------------------------------------------------
(* ExecuteCommand and RunE *)

ApplyWith ==
    /\ pc = "with"
    /\ IF Len(given) < Len(with)
       THEN ApplyNext(with, Len(given))
       ELSE pc' = "cli" /\ UNCHANGED <<cfg, given, err>>
    /\ UNCHANGED inputVars

\* Mutant: an option of --with is skipped when WITH has set the same thing.
ApplyCliWithUnset ==
    /\ pc = "cli"
    /\ IF Len(given) < Len(with) + Len(cliWith)
       THEN LET o == cliWith[Len(given) - Len(with) + 1] IN
            IF \E i \in 1..Len(with) : SettingOf(with[i]) = SettingOf(o)
            THEN given' = Append(given, o) /\ UNCHANGED <<cfg, pc, err>>
            ELSE ApplyNext(cliWith, Len(given) - Len(with))
       ELSE pc' = "flags" /\ UNCHANGED <<cfg, given, err>>
    /\ UNCHANGED inputVars

ApplyCliWith ==
    /\ pc = "cli"
    /\ IF Len(given) < Len(with) + Len(cliWith)
       THEN ApplyNext(cliWith, Len(given) - Len(with))
       ELSE pc' = "flags" /\ UNCHANGED <<cfg, given, err>>
    /\ UNCHANGED inputVars

Fkeys == IF fkeys = Absent THEN 1 ELSE fkeys
Drop == IF drop = Absent THEN 0 ELSE drop

\* RunE writes both flags over what --with has set, also when they are absent.
ApplyFlags ==
    /\ pc = "flags"
    /\ cfg' = IF via = "flags" THEN [cfg EXCEPT !["ForeignKeys"] = Fkeys, !["IncludeDrop"] = Drop] ELSE cfg
    /\ pc' = "done"
    /\ UNCHANGED <<inputVars, given, err>>

\* For a file main.go turns the flags into options at the end of --with.
FlagOptions ==
    (IF Fkeys = 0 THEN <<[keyword |-> "ForeignKeys", value |-> 0]>> ELSE <<>>)
        \o (IF Drop = 1 THEN <<[keyword |-> "IncludeDrop", value |-> 1]>> ELSE <<>>)

Lists == UNION {[1..n -> Offered] : n \in 0..MaxOptions}

OptionsInit ==
    /\ via \in {"file", "flags"}
    /\ fkeys \in {0, 1, Absent} /\ drop \in {0, 1, Absent}
    /\ with \in (IF via = "file" THEN Lists ELSE {<<>>})
    /\ \E given0 \in Lists : cliWith = IF via = "file" THEN given0 \o FlagOptions ELSE given0
    /\ given = <<>> /\ cfg = DefaultConfig /\ pc = "with" /\ err = "nil"

OptionsNext == ApplyWith \/ ApplyCliWith \/ ApplyFlags

OptionsSpec == OptionsInit /\ [][OptionsNext]_optionsVars

Ready == pc = "done" /\ err = "nil"

----------------------------------------------------------------------------
(* Properties *)

\* Types; "schema only" and "data only" are never both in force.
OptionsTypeOK ==
    /\ via \in {"file", "flags"}
    /\ fkeys \in {0, 1, Absent} /\ drop \in {0, 1, Absent}
    /\ with \in Seq(Option) /\ cliWith \in Seq(Option) /\ given \in Seq(Option)
    /\ cfg \in [Settings -> Int]
    /\ pc \in {"with", "cli", "flags", "done"} /\ err \in {"nil", "option"}
    /\ cfg["SchemaOnly"] = 0 \/ cfg["DataOnly"] = 0

Touches(o, s) == SettingOf(o) = s \/ (o.keyword \in Scopes /\ s \in Scopes)

ValueFor(o, s) == IF SettingOf(o) = s THEN o.value ELSE 0

\* The last option of the list that is about s decides it, else the default.
Decides(list, c, s) ==
    \/ /\ c[s] = DefaultConfig[s]
       /\ \A i \in DOMAIN list : ~Touches(list[i], s)
    \/ \E i \in DOMAIN list :
          /\ c[s] = ValueFor(list[i], s) /\ Touches(list[i], s)
          /\ \A j \in DOMAIN list : j > i => ~Touches(list[j], s)

\* The setting of which RunE disregards the options.
Overwritten(s) == via = "flags" /\ pc = "done" /\ s \in {"ForeignKeys", "IncludeDrop"}

\* ApplyWithOption: whatever options were given, of which list and in which
\* order, a setting has the value of the last one about it, or its default.
LastOptionWins == \A s \in Settings : Overwritten(s) \/ Decides(given, cfg, s)

\* ExecuteCommand: every option of WITH and then every one of --with has been
\* applied when the command begins to load, so --with prevails over WITH.
CliWithPrevails == Ready => given = with \o cliWith
=============================================================================
