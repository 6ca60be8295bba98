------------------------------- MODULE Command -------------------------------
(***************************************************************************)
(* The life of a command: ExecuteConfigFile and ExecuteCommand for the      *)
(* commands of a .load file, RunE for the one command given as arguments.   *)
(* Both open a pool, apply settings, run a script before the load, the      *)
(* load, a script after it, stop the monitor and print its summary, but not *)
(* in the same order and not with the same treatment of errors.             *)
(*                                                                          *)
(* The load is a number of COPYs on connections of the pool (ParallelCopy   *)
(* has the detail). A script is the number of its statements. What happens  *)
(* inside pgx, and in the server at COMMIT, is external.                    *)
(***************************************************************************)
EXTENDS Monitor, FiniteSets

CONSTANTS
    Commands,    \* the commands: settings, statements before and after
    MaxConns,    \* the most connections of the pool
    Shards,      \* the most pipelines of a load that run at a time
    Copies       \* COPYs of a load

ASSUME CommandsAssumption ==
    /\ Commands \in Seq([set : {0, 1}, before : Nat, after : Nat])
    /\ Commands # <<>>

ASSUME SizesAssumption ==
    /\ MaxConns \in Nat \ {0} /\ Shards \in Nat \ {0} /\ Copies \in Nat

\* The two events that RunE sends before the monitor is started must fit.
ASSUME PhasesAssumption == {"before", "load", "after", "total"} \subseteq TableNames /\ EventCap >= 2

VARIABLES
    via,         \* "file" for ExecuteConfigFile, "flags" for RunE
    dryRun,      \* "yes" with --dry-run
    cmd,         \* the command that runs
    pc,          \* the phase it is in
    step,        \* where in the phase
    monitor,     \* "new", or "started"
    ctx,         \* "live" until the user interrupts
    conns,       \* the connections of the pool
    task,        \* what a pipeline of the load does with each of them
    sent,        \* statements of the running script that were executed
    tx,          \* "open" between BEGIN and COMMIT of execSQL
    applied,     \* statements of each command's scripts that are committed
    copied,      \* COPYs of each command that are committed
    err,         \* which step's error is to be returned, or "nil"
    summary      \* "printed" by WriteSummary, else "none"

poolVars == <<conns, task>>
targetVars == <<sent, tx, applied, copied>>
inputVars == <<via, dryRun>>
controlVars == <<cmd, pc, step, monitor, err, summary>>
vars == <<monitorVars, poolVars, targetVars, inputVars, controlVars, ctx>>

Conn == 1..MaxConns
Index == 1..Len(Commands)
NoConn == [state |-> "none", set |-> 0]

Using == {c \in Conn : task[c] # "none"}

\* The statements of the script of this phase.
Statements == Commands[cmd][pc]

EventOf(type, phase) == [type |-> type, table |-> phase, count |-> 1]

----------------------------------------------------------------------------
(* The pool of connections *)

\* pgxpool hands out an idle connection before it opens another.
CanAcquire(c) ==
    /\ ctx = "live"
    /\ \/ conns[c].state = "idle"
       \/ conns[c].state = "none" /\ \A d \in Conn : conns[d].state # "idle"

\* Acquire waits while every connection is out, unless the context is done; a
\* pool with room may fail to connect.
AcquireCanFail == ctx = "cancelled" \/ \E c \in Conn : conns[c].state # "busy"

Acquired(c) == [conns EXCEPT ![c].state = "busy"]

\* Release returns a connection to the pool; one that was lost, or that is
\* in a transaction, is closed instead.
Released(c, lost) ==
    IF lost THEN [conns EXCEPT ![c] = NoConn] ELSE [conns EXCEPT ![c].state = "idle"]

----------------------------------------------------------------------------
(* Order of the phases *)

\* Mutant: the monitor is started after the load.
FlagsPhaseLateStart ==
    [connect |-> "set", set |-> "options", options |-> "before", before |-> "load",
     load |-> "monitor", monitor |-> "after", after |-> "stop"]

\* Mutant: the script to run after the load runs before it.
FilePhaseSwapped ==
    [options |-> "connect", connect |-> "set", set |-> "monitor", monitor |-> "before",
     before |-> "after", after |-> "load", load |-> "stop"]

FilePhase ==
    [options |-> "connect", connect |-> "set", set |-> "monitor", monitor |-> "before",
     before |-> "load", load |-> "after", after |-> "stop"]

FlagsPhase ==
    [connect |-> "set", set |-> "options", options |-> "before", before |-> "monitor",
     monitor |-> "load", load |-> "after", after |-> "stop"]

FollowingPhase(p) == IF via = "file" THEN FilePhase[p] ELSE FlagsPhase[p]

FirstPhase == IF via = "file" THEN "options" ELSE "connect"

Goto(p, s) == pc' = p /\ step' = s

Continue == Goto(FollowingPhase(pc), "enter")

\* The deferred pool.Close runs on every return after "connect".
ReturnError(e) == err' = e /\ Goto("close", "enter")

----------------------------------------------------------------------------
(* ExecuteCommand and RunE *)

\* WITH options, --with and, for a file, --dry-run and the target's URI.
Options ==
    /\ pc = "options"
    /\ \/ via = "file" /\ dryRun = "no" /\ Continue /\ UNCHANGED err
       \/ via = "flags" /\ dryRun = "no" /\ Continue /\ UNCHANGED err
       \/ via = "file" /\ ReturnError("options")
       \/ via = "flags" /\ dryRun = "no" /\ ReturnError("options")
       \/ via = "flags" /\ dryRun = "yes" /\ ctx = "live" /\ ReturnError("nil")
       \/ via = "flags" /\ dryRun = "yes" /\ ReturnError("ping")
    /\ UNCHANGED <<monitorVars, poolVars, targetVars, inputVars, ctx, cmd, monitor, summary>>

\* pgxpool.New makes the pool; it connects when a connection is wanted.
Connect ==
    /\ pc = "connect"
    /\ \/ Continue /\ UNCHANGED err
       \/ ReturnError("connect")
    /\ UNCHANGED <<monitorVars, poolVars, targetVars, inputVars, ctx, cmd, monitor, summary>>

\* SET SESSION for every setting, on one connection of the pool.
Set ==
    /\ pc = "set"
    /\ \/ /\ Commands[cmd].set = 0
          /\ Continue
          /\ UNCHANGED <<conns, err>>
       \/ /\ Commands[cmd].set = 1
          /\ \E c \in Conn :
                /\ CanAcquire(c)
                /\ \/ conns' = [conns EXCEPT ![c] = [state |-> "idle", set |-> 1]] /\ Continue /\ UNCHANGED err
                   \/ conns' = [conns EXCEPT ![c].state = "idle"] /\ ReturnError("set")
       \/ Commands[cmd].set = 1 /\ AcquireCanFail /\ ReturnError("set") /\ UNCHANGED conns
    /\ UNCHANGED <<monitorVars, task, targetVars, inputVars, ctx, cmd, monitor, summary>>

StartMonitor ==
    /\ pc = "monitor"
    /\ monitor' = "started"
    /\ Continue
    /\ UNCHANGED <<monitorVars, poolVars, targetVars, inputVars, ctx, cmd, err, summary>>

----------------------------------------------------------------------------
(* The scripts: execSQL for a file, execSQLFile for flags *)

InScript(s) == pc \in {"before", "after"} /\ step = s

scriptUnchanged == <<inputVars, ctx, cmd, monitor, summary, task, copied>>

\* A file has no event for a script it does not have; flags always do.
ScriptEnter ==
    /\ InScript("enter")
    /\ IF via = "file" /\ Statements = 0
       THEN Continue /\ UNCHANGED monitorVars
       ELSE /\ Send(EventOf("start", pc))
            /\ Goto(pc, IF Statements = 0 THEN "leave" ELSE "acquire")
    /\ UNCHANGED <<scriptUnchanged, err, conns, sent, tx, applied>>

\* A file's command stops the monitor when the script before the load fails,
\* and goes on when the one after it fails; RunE returns at once.
ScriptError ==
    /\ err' = pc
    /\ IF via = "file"
       THEN IF pc = "before" THEN Goto("stop", "enter") ELSE Goto(pc, "leave")
       ELSE Goto("close", "enter")

ScriptAcquire ==
    /\ InScript("acquire")
    /\ \/ \E c \in Conn :
              /\ CanAcquire(c)
              /\ conns' = Acquired(c)
              /\ Goto(pc, IF via = "file" THEN "begin" ELSE "exec")
              /\ UNCHANGED err
       \/ AcquireCanFail /\ ScriptError /\ UNCHANGED conns
    /\ sent' = 0
    /\ UNCHANGED <<scriptUnchanged, monitorVars, tx, applied>>

\* An error of a statement, after which execSQL rolls back, or the loss of
\* the connection. The deferred Release returns the connection.
ScriptFails(s) ==
    /\ InScript(s)
    /\ \E c \in Conn, lost \in {TRUE, FALSE} :
          conns[c].state = "busy" /\ conns' = Released(c, lost)
    /\ tx' = "none"
    /\ ScriptError
    /\ UNCHANGED <<scriptUnchanged, monitorVars, sent>>

\* Mutant: the statements run without a transaction.
BeginNot ==
    /\ InScript("begin") /\ ctx = "live"
    /\ Goto(pc, "exec")
    /\ UNCHANGED <<scriptUnchanged, monitorVars, conns, err, sent, tx, applied>>

\* A call begun after an interrupt fails; one that an interrupt meets under way
\* fails too, or has succeeded just before it.
Begin ==
    /\ InScript("begin") /\ ctx = "live"
    /\ tx' = "open"
    /\ Goto(pc, "exec")
    /\ UNCHANGED <<scriptUnchanged, monitorVars, conns, err, sent, applied>>

BeginFails == ScriptFails("begin") /\ UNCHANGED applied

\* What the server has of a script after n more of its statements.
Apply(n) == [applied EXCEPT ![cmd][pc] = @ + n]

ExecStatement ==
    /\ InScript("exec") /\ ctx = "live"
    /\ via = "file" /\ sent < Statements
    /\ sent' = sent + 1
    /\ applied' = IF tx = "open" THEN applied ELSE Apply(1)
    /\ UNCHANGED <<scriptUnchanged, monitorVars, conns, err, tx, pc, step>>

ExecFails ==
    /\ ScriptFails("exec")
    /\ via = "file" /\ sent < Statements
    /\ UNCHANGED applied

ScriptReturns ==
    /\ \E c \in Conn : conns[c].state = "busy" /\ conns' = Released(c, FALSE)
    /\ tx' = "none"
    /\ Goto(pc, "leave")
    /\ UNCHANGED <<scriptUnchanged, monitorVars, err, sent>>

Commit ==
    /\ InScript("exec") /\ ctx = "live"
    /\ via = "file" /\ sent = Statements
    /\ applied' = IF tx = "open" THEN Apply(sent) ELSE applied
    /\ ScriptReturns

\* The connection is lost at COMMIT, which the server did or did not do.
CommitFails ==
    /\ ScriptFails("exec")
    /\ via = "file" /\ sent = Statements
    /\ applied' \in {applied, IF tx = "open" THEN Apply(sent) ELSE applied}

\* execSQLFile sends the file in one message, which is one transaction.
ExecFile ==
    /\ InScript("exec") /\ ctx = "live"
    /\ via = "flags"
    /\ applied' = Apply(Statements)
    /\ ScriptReturns

ExecFileFails ==
    /\ via = "flags"
    /\ ScriptFails("exec")
    /\ applied' \in {applied, Apply(Statements)}

\* RunE ends with an event for the total time.
ScriptLeave ==
    /\ InScript("leave")
    /\ Send(EventOf("end", pc))
    /\ IF via = "flags" /\ pc = "after" THEN Goto(pc, "total") ELSE Continue
    /\ UNCHANGED <<scriptUnchanged, err, conns, sent, tx, applied>>

ReportTotal ==
    /\ InScript("total")
    /\ Send(EventOf("end", "total"))
    /\ Continue
    /\ UNCHANGED <<scriptUnchanged, err, conns, sent, tx, applied>>

ScriptStep ==
    \/ ScriptEnter \/ ScriptAcquire \/ Begin \/ BeginFails \/ ExecStatement \/ ExecFails
    \/ Commit \/ CommitFails \/ ExecFile \/ ExecFileFails \/ ScriptLeave \/ ReportTotal

----------------------------------------------------------------------------
(* The load: Migration.Run or Pipeline.Run *)

loadUnchanged == <<inputVars, ctx, cmd, monitor, summary, sent, tx, applied>>

\* RunE returns at once for an unknown type, or a CSV file without a table.
LoadStarts ==
    /\ pc = "load" /\ step = "enter"
    /\ \/ Goto("load", "run") /\ UNCHANGED err
       \/ via = "flags" /\ ReturnError("type")
    /\ UNCHANGED <<loadUnchanged, monitorVars, poolVars, copied>>

\* A source that cannot be opened or read, a statement that fails.
LoadRefused ==
    /\ pc = "load" /\ step = "run" /\ err = "nil"
    /\ err' = "load"
    /\ UNCHANGED <<loadUnchanged, monitorVars, poolVars, copied, pc, step>>

\* Mutant: a load that failed ends like one that succeeded.
LoadEndsAlike ==
    /\ pc = "load" /\ step = "run" /\ Using = {}
    /\ err = "load" \/ copied[cmd] = Copies
    /\ err' = "nil"
    /\ Continue
    /\ UNCHANGED <<loadUnchanged, monitorVars, poolVars, copied>>

\* Every pipeline has ended. A file's command goes on to the script after
\* the load also when the load has failed; RunE does not.
LoadEnds ==
    /\ pc = "load" /\ step = "run" /\ Using = {}
    /\ err = "load" \/ copied[cmd] = Copies
    /\ IF via = "flags" /\ err = "load" THEN Goto("stop", "enter") ELSE Continue
    /\ UNCHANGED <<loadUnchanged, monitorVars, poolVars, copied, err>>

LoadAcquire(c) ==
    /\ pc = "load" /\ step = "run" /\ err = "nil"
    /\ Cardinality(Using) < Shards
    /\ copied[cmd] + Cardinality({d \in Conn : task[d] = "copy"}) < Copies
    /\ CanAcquire(c)
    /\ conns' = Acquired(c)
    /\ task' = [task EXCEPT ![c] = "copy"]
    /\ UNCHANGED <<loadUnchanged, monitorVars, copied, pc, step, err>>

LoadCopies(c) ==
    /\ task[c] = "copy"
    /\ task' = [task EXCEPT ![c] = "write"]
    /\ copied' = [copied EXCEPT ![cmd] = @ + 1]
    /\ UNCHANGED <<loadUnchanged, monitorVars, conns, pc, step, err>>

LoadCopyFails(c) ==
    /\ task[c] = "copy"
    /\ task' = [task EXCEPT ![c] = "error"]
    /\ copied' \in {copied, [copied EXCEPT ![cmd] = @ + 1]}
    /\ err' = "load"
    /\ UNCHANGED <<loadUnchanged, monitorVars, conns, pc, step>>

LoadReports(c) ==
    /\ task[c] \in {"write", "error"}
    /\ Send(EventOf(task[c], "load"))
    /\ \E lost \in {FALSE, task[c] = "error"} : conns' = Released(c, lost)
    /\ task' = [task EXCEPT ![c] = "none"]
    /\ UNCHANGED <<loadUnchanged, copied, pc, step, err>>

Pipeline(c) == LoadAcquire(c) \/ LoadCopies(c) \/ LoadCopyFails(c) \/ LoadReports(c)

----------------------------------------------------------------------------
(* The end of a command *)

endUnchanged == <<inputVars, ctx, targetVars, task>>

StopCloses ==
    /\ pc = "stop" /\ step = "enter"
    /\ Close
    /\ Goto("stop", "join")
    /\ UNCHANGED <<endUnchanged, conns, cmd, monitor, err, summary>>

\* A file's command prints the summary also when the script after the load
\* has failed.
PrintsSummary == err = "nil" \/ (via = "file" /\ err = "after")

\* Mutant: Stop does not wait for the loop to end.
StopJoinsNot ==
    /\ pc = "stop" /\ step = "join"
    /\ summary' = IF PrintsSummary THEN "printed" ELSE summary
    /\ Goto("close", "enter")
    /\ UNCHANGED <<endUnchanged, monitorVars, conns, cmd, monitor, err>>

StopJoins ==
    /\ pc = "stop" /\ step = "join"
    /\ loop = "returned"
    /\ summary' = IF PrintsSummary THEN "printed" ELSE summary
    /\ Goto("close", "enter")
    /\ UNCHANGED <<endUnchanged, monitorVars, conns, cmd, monitor, err>>

\* pool.Close waits until every connection is back.
ClosePool ==
    /\ pc = "close"
    /\ \A c \in Conn : conns[c].state # "busy"
    /\ conns' = [c \in Conn |-> NoConn]
    /\ Goto("returned", "enter")
    /\ UNCHANGED <<endUnchanged, monitorVars, cmd, monitor, err, summary>>

\* ExecuteConfigFile stops at the first command that returns an error.
NextCommand ==
    /\ pc = "returned"
    /\ via = "file" /\ err = "nil" /\ cmd < Len(Commands)
    /\ cmd' = cmd + 1
    /\ Goto(FirstPhase, "enter")
    /\ monitor' = "new"
    /\ summary' = "none"
    /\ events' = <<>> /\ channel' = "open" /\ loop' = "running"
    /\ stats' = [t \in TableNames |-> NoStats]
    /\ UNCHANGED <<endUnchanged, conns, err>>

Finish ==
    /\ pc = "returned"
    /\ ~(via = "file" /\ err = "nil" /\ cmd < Len(Commands))
    /\ Goto("done", "enter")
    /\ UNCHANGED <<endUnchanged, monitorVars, conns, cmd, monitor, err, summary>>

Calls ==
    \/ Options \/ Connect \/ Set \/ StartMonitor \/ ScriptStep
    \/ LoadStarts \/ LoadEnds
    \/ StopCloses \/ StopJoins \/ ClosePool \/ NextCommand \/ Finish

Main == Calls \/ LoadRefused

\* The goroutine of main that waits for a signal.
Interrupt ==
    /\ ctx = "live" /\ pc # "done"
    /\ ctx' = "cancelled"
    /\ UNCHANGED <<monitorVars, poolVars, targetVars, inputVars, controlVars>>

MonitorLoop ==
    /\ monitor = "started" /\ pc # "done"
    /\ Loop
    /\ UNCHANGED <<poolVars, targetVars, inputVars, controlVars, ctx>>

Pipelines == \E c \in Conn : Pipeline(c)

Init ==
    /\ MonitorInit
    /\ via \in {"file", "flags"} /\ dryRun \in {"yes", "no"}
    /\ cmd = 1 /\ pc = FirstPhase /\ step = "enter"
    /\ monitor = "new" /\ ctx = "live" /\ err = "nil" /\ summary = "none"
    /\ conns = [c \in Conn |-> NoConn]
    /\ task = [c \in Conn |-> "none"]
    /\ sent = 0 /\ tx = "none"
    /\ applied = [i \in Index |-> [before |-> 0, after |-> 0]]
    /\ copied = [i \in Index |-> 0]

Next == Main \/ Pipelines \/ Interrupt \/ MonitorLoop

LoadCancelled == ctx = "cancelled" /\ LoadRefused

\* Every goroutine is scheduled; calls to the servers return. The load need not
\* fail, unless its context is done: a pipeline that waits is not freed by a
\* failure that may happen.
Spec ==
    /\ Init /\ [][Next]_vars
    /\ WF_vars(Calls \/ LoadCancelled) /\ WF_vars(Pipelines) /\ WF_vars(MonitorLoop)

----------------------------------------------------------------------------
(* Properties *)

Phase == {"options", "connect", "set", "monitor", "before", "load", "after", "stop",
          "close", "returned", "done"}

\* Types; the monitor's channel is closed only when nothing of the command is
\* left to report, and a transaction is open only in a running script.
TypeOK ==
    /\ MonitorTypeOK
    /\ via \in {"file", "flags"} /\ dryRun \in {"yes", "no"}
    /\ cmd \in Index
    /\ pc \in Phase
    /\ step \in {"enter", "acquire", "begin", "exec", "leave", "total", "run", "join"}
    /\ monitor \in {"new", "started"} /\ ctx \in {"live", "cancelled"}
    /\ conns \in [Conn -> [state : {"none", "idle", "busy"}, set : {0, 1}]]
    /\ task \in [Conn -> {"none", "copy", "write", "error"}]
    /\ sent \in Nat /\ tx \in {"none", "open"}
    /\ applied \in [Index -> [before : Nat, after : Nat]]
    /\ copied \in [Index -> 0..Copies]
    /\ err \in {"nil", "options", "ping", "connect", "set", "before", "type", "load", "after"}
    /\ summary \in {"none", "printed"}
    /\ channel = "closed" => pc \notin {"before", "load", "after"}
    /\ tx = "open" => pc \in {"before", "after"} /\ step = "exec"

\* Both paths run a script in a transaction: all of it is in the target or
\* nothing is, whatever fails (execSQL, execSQLFile).
ScriptsAtomic == \A i \in Index : \A s \in {"before", "after"} : applied[i][s] \in {0, Commands[i][s]}

Complete(i) ==
    /\ applied[i].before = Commands[i].before
    /\ copied[i] = Copies
    /\ applied[i].after = Commands[i].after

Touched(i) == applied[i].before > 0 \/ copied[i] > 0 \/ applied[i].after > 0

\* ExecuteConfigFile: a command changes the target only when those before it
\* are complete; a program that returns no error has completed all of them. If
\* the load's error is returned, the script after the load was run nevertheless.
InOrder ==
    /\ \A i, j \in Index : i < j /\ Touched(j) => Complete(i)
    /\ pc = "done" /\ err = "nil" /\ dryRun = "no" =>
          \A i \in Index : (i = 1 \/ via = "file") => Complete(i)
    /\ pc = "done" /\ err = "load" /\ via = "file" => applied[cmd].after = Commands[cmd].after

\* ExecuteCommand and RunE: rows are loaded only after the script for before
\* the load was committed, and none after the script for after the load was.
LoadBetweenScripts ==
    [][\A i \in Index : copied'[i] # copied[i] =>
          applied[i].before = Commands[i].before /\ applied[i].after = 0]_vars

\* WriteSummary reads the statistics when nobody writes them any more, and
\* they count every COPY when no error is returned.
SummaryIsFinal ==
    summary = "printed" =>
        /\ loop = "returned" /\ events = <<>>
        /\ err = "nil" => stats["load"].written = copied[cmd]

\* ExecuteCommand and RunE return on every path, whatever fails: no send to
\* the monitor, no Stop and no pool.Close waits for ever.
CommandEnds == <>(pc = "done")
=============================================================================
