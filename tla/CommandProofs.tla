---------------------------- MODULE CommandProofs ----------------------------
(***************************************************************************)
(* Proofs about Command: for any number of commands, of statements, of      *)
(* connections and of COPYs. The properties speak of what is in the target; *)
(* the invariant says, for each place of the program, which parts of the    *)
(* running command are there (PhaseInv), that the parts of a transaction    *)
(* are not (ScriptInv), and that the pipelines run inside the load only.    *)
(* What the pool and the monitor hold does not matter for them; it does for *)
(* the summary, whose invariant (SummaryInv) adds the balance of events     *)
(* that MonitorProofs provides.                                             *)
(***************************************************************************)
EXTENDS Command, MonitorProofs

Steps == {"enter", "acquire", "begin", "exec", "leave", "total", "run", "join"}

Types ==
    /\ via \in {"file", "flags"} /\ dryRun \in {"yes", "no"}
    /\ cmd \in Index /\ pc \in Phase /\ step \in Steps
    /\ task \in [Conn -> {"none", "copy", "write", "error"}]
    /\ sent \in Nat /\ tx \in {"none", "open"}
    /\ applied \in [Index -> [before : Nat, after : Nat]]
    /\ copied \in [Index -> Nat]
    /\ err \in {"nil", "options", "ping", "connect", "set", "before", "type", "load", "after"}

Untouched(i) == applied[i].before = 0 /\ applied[i].after = 0 /\ copied[i] = 0

\* The script before the load is not yet in the target.
Early ==
    \/ pc \in {"options", "connect", "set"} \/ (pc = "monitor" /\ via = "file")
    \/ (pc = "before" /\ step # "leave")

\* The script before the load is in the target, the one after it is not begun.
Between ==
    (pc = "before" /\ step = "leave") \/ (pc = "monitor" /\ via = "flags") \/ pc = "load"

Ended == pc \in {"stop", "close", "returned", "done"}

\* What the place of the program says of the running command.
PhaseInv ==
    /\ Early => Untouched(cmd) /\ err = "nil"
    /\ Between =>
          /\ applied[cmd].before = Commands[cmd].before /\ applied[cmd].after = 0
          /\ err = "nil" \/ (err = "load" /\ pc = "load" /\ step = "run")
    /\ pc = "after" /\ step \notin {"leave", "total"} =>
          /\ applied[cmd].before = Commands[cmd].before /\ applied[cmd].after = 0
          /\ (err = "nil" /\ copied[cmd] = Copies) \/ err = "load"
    /\ pc = "after" /\ step \in {"leave", "total"} =>
          /\ err \in {"nil", "load", "after"}
          /\ err = "nil" => Complete(cmd)
          /\ err = "load" => applied[cmd].after = Commands[cmd].after
    /\ Ended =>
          /\ err = "nil" => Complete(cmd) \/ (via = "flags" /\ dryRun = "yes")
          /\ err = "load" /\ via = "file" => applied[cmd].after = Commands[cmd].after

\* In a script of a file: it runs in a transaction, and never past its end.
ScriptInv ==
    pc \in {"before", "after"} =>
        /\ step = "total" => pc = "after"
        /\ step = "begin" => via = "file" /\ sent = 0
        /\ step = "exec" /\ via = "file" => tx = "open" /\ sent <= Statements

\* Only the load has pipelines.
TaskInv == \A c \in Conn : task[c] # "none" => pc = "load" /\ step = "run"

\* The commands before the running one, and those after it.
OthersInv ==
    /\ \A i \in Index : (i < cmd => Complete(i)) /\ (i > cmd => Untouched(i))
    /\ via = "flags" => cmd = 1
    /\ pc = "done" /\ err = "nil" /\ via = "file" => cmd = Len(Commands)

CInv == Types /\ PhaseInv /\ ScriptInv /\ TaskInv /\ OthersInv /\ ScriptsAtomic

----------------------------------------------------------------------------
(* Facts about the constants *)

\* Every command has two scripts, whose lengths are natural numbers.
LEMMA CommandFacts ==
    /\ 1 \in Index
    /\ \A i \in Index : Commands[i].before \in Nat /\ Commands[i].after \in Nat
  <1> DEFINE R == [set : {0, 1}, before : Nat, after : Nat]
  <1>1. \A x \in R : x.before \in Nat /\ x.after \in Nat
    OBVIOUS
  <1>2. Commands \in Seq(R) /\ Commands # <<>>
    BY CommandsAssumption
  <1> HIDE DEF R
  <1>3. Commands \in [Index -> R] /\ Len(Commands) \in Nat
    BY <1>2 DEF Index
  <1>4. QED
    BY <1>1, <1>2, <1>3 DEF Index

\* The order of the phases, for both ways to start.
LEMMA PhaseOrder ==
    ASSUME via \in {"file", "flags"}
    PROVE  /\ pc = "options" => FollowingPhase(pc) = IF via = "file" THEN "connect" ELSE "before"
           /\ pc = "connect" => FollowingPhase(pc) = "set"
           /\ pc = "set" => FollowingPhase(pc) = IF via = "file" THEN "monitor" ELSE "options"
           /\ pc = "monitor" => FollowingPhase(pc) = IF via = "file" THEN "before" ELSE "load"
           /\ pc = "before" => FollowingPhase(pc) = IF via = "file" THEN "load" ELSE "monitor"
           /\ pc = "load" => FollowingPhase(pc) = "after"
           /\ pc = "after" => FollowingPhase(pc) = "stop"
  BY DEF FollowingPhase, FilePhase, FlagsPhase

----------------------------------------------------------------------------
(* The steps *)

\* Steps before the scripts and after them leave the target alone.
LEMMA OuterSteps ==
    ASSUME CInv, Options \/ Connect \/ Set \/ StartMonitor
    PROVE  CInv'
  <1>1. UNCHANGED <<applied, copied, task, sent, tx, via, dryRun, cmd>>
    BY DEF Options, Connect, Set, StartMonitor, poolVars, targetVars, inputVars
  <1>2. CASE Options
    BY <1>1, <1>2, PhaseOrder
       DEF Options, CInv, Types, Phase, Steps, Continue, Goto, ReturnError, PhaseInv, Early, Between, Ended,
           Untouched, Complete, ScriptInv, TaskInv, OthersInv, ScriptsAtomic
  <1>3. CASE Connect
    BY <1>1, <1>3, PhaseOrder
       DEF Connect, CInv, Types, Phase, Steps, Continue, Goto, ReturnError, PhaseInv, Early, Between, Ended,
           Untouched, Complete, ScriptInv, TaskInv, OthersInv, ScriptsAtomic
  <1>4. CASE Set
    BY <1>1, <1>4, PhaseOrder
       DEF Set, CInv, Types, Phase, Steps, Continue, Goto, ReturnError, PhaseInv, Early, Between, Ended,
           Untouched, Complete, ScriptInv, TaskInv, OthersInv, ScriptsAtomic
  <1>5. CASE StartMonitor
    BY <1>1, <1>5, PhaseOrder
       DEF StartMonitor, CInv, Types, Phase, Steps, Continue, Goto, ReturnError, PhaseInv, Early, Between, Ended,
           Untouched, Complete, ScriptInv, TaskInv, OthersInv, ScriptsAtomic
  <1>6. QED
    BY <1>2, <1>3, <1>4, <1>5

\* The steps of a script. Those that leave the target alone only have to show
\* where they lead; an error leads past the script, with an error to return.
LEMMA ScriptSteps ==
    ASSUME CInv, ScriptStep
    PROVE  CInv'
  <1> USE DEF CInv, Types, Phase, Steps, Continue, Goto, PhaseInv, Early, Between, Ended,
           Untouched, Complete, ScriptInv, TaskInv, OthersInv, ScriptsAtomic, InScript, Statements
  <1>1. UNCHANGED <<via, dryRun, cmd, task, copied>>
    BY DEF ScriptStep, ScriptEnter, ScriptAcquire, Begin, BeginFails, ScriptFails, ExecStatement, ExecFails,
           ScriptReturns, Commit, CommitFails, ExecFile, ExecFileFails, ScriptLeave, ReportTotal,
           scriptUnchanged, inputVars
  <1>2. Commands[cmd].before \in Nat /\ Commands[cmd].after \in Nat
    BY CommandFacts
  <1>3. CASE ScriptEnter
    BY <1>1, <1>2, <1>3, PhaseOrder DEF ScriptEnter
  <1>4. CASE ScriptAcquire
    BY <1>1, <1>2, <1>4, PhaseOrder DEF ScriptAcquire, ScriptError
  <1>5. CASE Begin
    BY <1>1, <1>2, <1>5, PhaseOrder DEF Begin
  <1>6. CASE BeginFails
    BY <1>1, <1>2, <1>6, PhaseOrder DEF BeginFails, ScriptFails, ScriptError
  <1>7. CASE ExecStatement
    BY <1>1, <1>2, <1>7, PhaseOrder DEF ExecStatement, Apply
  <1>8. CASE ExecFails
    BY <1>1, <1>2, <1>8, PhaseOrder DEF ExecFails, ScriptFails, ScriptError
  <1>9. CASE Commit
    BY <1>1, <1>2, <1>9, PhaseOrder DEF Commit, ScriptReturns, Apply
  <1>10. CASE CommitFails
    <2>1. CASE applied' = applied
      BY <1>1, <1>2, <1>10, <2>1 DEF CommitFails, ScriptFails, ScriptError
    <2>2. CASE applied' = Apply(sent)
      BY <1>1, <1>2, <1>10, <2>2 DEF CommitFails, ScriptFails, ScriptError, Apply
    <2>3. QED
      BY <1>10, <2>1, <2>2 DEF CommitFails
  <1>11. CASE ExecFile
    BY <1>1, <1>2, <1>11, PhaseOrder DEF ExecFile, ScriptReturns, Apply
  <1>12. CASE ExecFileFails
    BY <1>1, <1>2, <1>12, PhaseOrder DEF ExecFileFails, ScriptFails, ScriptError, Apply
  <1>13. CASE ScriptLeave
    BY <1>1, <1>2, <1>13, PhaseOrder DEF ScriptLeave
  <1>14. CASE ReportTotal
    BY <1>1, <1>2, <1>14, PhaseOrder DEF ReportTotal
  <1>15. QED
    BY <1>3, <1>4, <1>5, <1>6, <1>7, <1>8, <1>9, <1>10, <1>11, <1>12, <1>13, <1>14 DEF ScriptStep

\* The steps of the load: copied changes inside it only.
LEMMA LoadSteps ==
    ASSUME CInv, LoadStarts \/ LoadRefused \/ LoadEnds \/ Pipelines
    PROVE  CInv'
  <1> USE DEF CInv, Types, Phase, Steps, Continue, Goto, ReturnError, PhaseInv, Early, Between, Ended,
           Untouched, Complete, ScriptInv, TaskInv, OthersInv, ScriptsAtomic, loadUnchanged, inputVars, Statements
  <1>1. CASE LoadStarts
    BY <1>1, PhaseOrder DEF LoadStarts, poolVars
  <1>2. CASE LoadRefused
    BY <1>2, PhaseOrder DEF LoadRefused, poolVars
  <1>3. CASE LoadEnds
    BY <1>3, PhaseOrder DEF LoadEnds, poolVars, Using
  <1>4. ASSUME NEW c \in Conn, Pipeline(c)
        PROVE  CInv'
    <2>1. CASE LoadAcquire(c)
      BY <2>1 DEF LoadAcquire
    <2>2. CASE LoadCopies(c) \/ LoadCopyFails(c)
      <3>1. pc = "load" /\ step = "run"
        BY <2>2 DEF LoadCopies, LoadCopyFails
      <3>2. copied' = copied \/ copied' = [copied EXCEPT ![cmd] = @ + 1]
        BY <2>2 DEF LoadCopies, LoadCopyFails
      <3>3. copied' \in [Index -> Nat] /\ \A i \in Index : i # cmd => copied'[i] = copied[i]
        BY <3>2
      <3>4. /\ UNCHANGED <<via, dryRun, cmd, pc, step, sent, tx, applied>>
            /\ err' = err \/ err' = "load"
            /\ task' \in [Conn -> {"none", "copy", "write", "error"}]
        BY <2>2 DEF LoadCopies, LoadCopyFails
      <3>5. PhaseInv' /\ ScriptInv' /\ TaskInv'
        BY <3>1, <3>4
      <3>6. OthersInv'
        BY <3>1, <3>3, <3>4 DEF Index
      <3>7. QED
        BY <3>3, <3>4, <3>5, <3>6
    <2>3. CASE LoadReports(c)
      BY <2>3 DEF LoadReports
    <2>4. QED
      BY <1>4, <2>1, <2>2, <2>3 DEF Pipeline
  <1>5. QED
    BY <1>1, <1>2, <1>3, <1>4 DEF Pipelines

\* The end of a command, and the start of the next one of a file.
LEMMA EndSteps ==
    ASSUME CInv, StopCloses \/ StopJoins \/ ClosePool \/ NextCommand \/ Finish
    PROVE  CInv'
  <1> USE DEF CInv, Types, Phase, Steps, Goto, PhaseInv, Early, Between, Ended,
           Untouched, Complete, ScriptInv, TaskInv, OthersInv, ScriptsAtomic, endUnchanged, inputVars, targetVars
  <1>1. CASE StopCloses
    BY <1>1 DEF StopCloses, Index
  <1>2. CASE StopJoins
    BY <1>2 DEF StopJoins, Index
  <1>3. CASE ClosePool
    BY <1>3 DEF ClosePool, Index
  <1>4. CASE NextCommand
    BY <1>4 DEF NextCommand, FirstPhase, Index
  <1>5. CASE Finish
    <2>1. /\ pc = "returned" /\ pc' = "done" /\ step' = "enter" /\ err' = err
          /\ via = "file" /\ err = "nil" => cmd >= Len(Commands)
          /\ UNCHANGED <<targetVars, inputVars, task, cmd>>
      BY <1>5 DEF Finish, Index
    <2>2. Types' /\ PhaseInv'
      BY <2>1
    <2>3. ScriptInv' /\ TaskInv' /\ ScriptsAtomic'
      BY <2>1
    <2>4. OthersInv'
      BY <2>1 DEF Index
    <2>5. QED
      BY <2>2, <2>3, <2>4
  <1>6. QED
    BY <1>1, <1>2, <1>3, <1>4, <1>5

----------------------------------------------------------------------------
(* The theorems *)

\* ExecuteConfigFile, ExecuteCommand and RunE: the inductive invariant.
THEOREM CommandInvariance == Spec => []CInv
  <1>1. Init => CInv
    <2> SUFFICES ASSUME Init
                 PROVE  CInv
      OBVIOUS
    <2> USE CommandFacts DEF Init, FirstPhase, Phase, Steps
    <2>1. Types /\ cmd = 1
      BY DEF Types
    <2>2. \A i \in Index : Untouched(i)
      BY DEF Untouched
    <2>3. PhaseInv /\ ScriptInv /\ TaskInv
      BY <2>1, <2>2 DEF PhaseInv, Early, Between, Ended, ScriptInv, TaskInv
    <2>4. OthersInv /\ ScriptsAtomic
      <3>1. \A i \in Index : i >= 1
        BY DEF Index
      <3>2. pc # "done"
        OBVIOUS
      <3>3. OthersInv
        BY <2>1, <2>2, <3>1, <3>2 DEF OthersInv, Index
      <3>4. ASSUME NEW i \in Index, NEW s \in {"before", "after"}
            PROVE  applied[i][s] = 0
        BY DEF Init
      <3>5. QED
        BY <3>3, <3>4 DEF ScriptsAtomic
    <2>5. QED
      BY <2>1, <2>3, <2>4 DEF CInv
  <1>2. CInv /\ [Next]_vars => CInv'
    <2> SUFFICES ASSUME CInv, [Next]_vars
                 PROVE  CInv'
      OBVIOUS
    <2>1. CASE Main
      BY <2>1, OuterSteps, ScriptSteps, LoadSteps, EndSteps DEF Main, Calls
    <2>2. CASE Pipelines
      BY <2>2, LoadSteps
    <2>3. CASE Interrupt \/ MonitorLoop \/ UNCHANGED vars
      <3>1. UNCHANGED <<inputVars, controlVars, targetVars, task>>
        BY <2>3 DEF Interrupt, MonitorLoop, vars, poolVars
      <3>2. QED
        BY <3>1 DEF CInv, Types, PhaseInv, Early, Between, Ended, Untouched, Complete, ScriptInv, TaskInv,
           OthersInv, ScriptsAtomic, Statements, inputVars, controlVars, targetVars
    <2>4. QED
      BY <2>1, <2>2, <2>3 DEF Next
  <1>3. QED
    BY <1>1, <1>2, PTL DEF Spec

\* execSQL and execSQLFile: each script is in the target whole or not at all,
\* whatever fails.
THEOREM ScriptsAreAtomic == Spec => []ScriptsAtomic
  BY CommandInvariance, PTL DEF CInv

\* ExecuteConfigFile: commands touch the target in the order of the file.
THEOREM CommandsInOrder == Spec => []InOrder
  <1>1. CInv => InOrder
    BY DEF CInv, Types, PhaseInv, Ended, OthersInv, InOrder, Touched, Untouched, Complete, Index
  <1>2. QED
    BY <1>1, CommandInvariance, PTL

\* ExecuteCommand and RunE: no row moves before the script for before the load
\* is committed, and none after the one for after the load is.
THEOREM LoadsBetweenScripts == Spec => LoadBetweenScripts
  <1> DEFINE Step == \A i \in Index : copied'[i] # copied[i] =>
                        applied[i].before = Commands[i].before /\ applied[i].after = 0
  <1>1. ASSUME CInv, [Next]_vars
        PROVE  [Step]_vars
    <2>1. CASE UNCHANGED copied
      BY <2>1
    <2>2. ASSUME NEW c \in Conn, LoadCopies(c) \/ LoadCopyFails(c)
          PROVE  Step
      <3>1. pc = "load"
        BY <1>1, <2>2 DEF CInv, TaskInv, LoadCopies, LoadCopyFails
      <3>2. applied[cmd].before = Commands[cmd].before /\ applied[cmd].after = 0
        BY <1>1, <3>1 DEF CInv, PhaseInv, Between
      <3>3. \A i \in Index : copied'[i] # copied[i] => i = cmd
        BY <1>1, <2>2 DEF CInv, Types, LoadCopies, LoadCopyFails
      <3>4. QED
        BY <3>2, <3>3
    <2>3. UNCHANGED copied \/ \E c \in Conn : LoadCopies(c) \/ LoadCopyFails(c)
      BY <1>1
         DEF Next, Main, Calls, Options, Connect, Set, StartMonitor, ScriptStep, ScriptEnter, ScriptAcquire, Begin,
             BeginFails, ScriptFails, ExecStatement, ExecFails, ScriptReturns, Commit, CommitFails, ExecFile,
             ExecFileFails, ScriptLeave, ReportTotal, scriptUnchanged, LoadStarts, LoadRefused, LoadEnds,
             Pipelines, Pipeline, LoadAcquire, LoadReports, StopCloses, StopJoins, ClosePool, NextCommand, Finish,
             endUnchanged, Interrupt, MonitorLoop, targetVars, vars
    <2>4. QED
      BY <2>1, <2>2, <2>3
  <1>2. QED
    BY <1>1, CommandInvariance, PTL DEF Spec, LoadBetweenScripts

----------------------------------------------------------------------------
(* The summary *)

\* The pipelines that have copied and not yet reported it.
Writers == {c \in Conn : task[c] = "write"}

\* What the load has committed is reported, in the channel, or about to be.
Accounted == err = "nil" => Credit("write", "load") + Cardinality(Writers) = copied[cmd]

\* A pipeline has its connection until it reports.
PoolInv ==
    /\ conns \in [Conn -> [state : {"none", "idle", "busy"}, set : {0, 1}]]
    /\ \A c \in Conn : task[c] # "none" => conns[c].state = "busy"

SummaryInv ==
    /\ MonitorTypeOK /\ PoolInv
    /\ Countable("write", "load") /\ Accounted
    /\ loop = "returned" => channel = "closed" /\ events = <<>>
    /\ summary \in {"none", "printed"}
    /\ summary = "printed" => loop = "returned" /\ pc \in {"close", "returned", "done"}

LEMMA WriteOfLoad == "write" \in CountedTypes /\ "load" \in TableNames
  BY PhasesAssumption DEF CountedTypes

LEMMA WritersFinite == IsFiniteSet(Writers) /\ Cardinality(Writers) \in Nat
  <1>1. IsFiniteSet(Conn)
    BY SizesAssumption, FS_Interval DEF Conn
  <1>2. QED
    BY <1>1, FS_Subset, FS_CardinalityType DEF Writers

\* The steps other than the pipelines' and the start of the next command send
\* no write event, and leave the load's rows alone.
LEMMA QuietSteps ==
    ASSUME CInv, [Next]_vars, ~NextCommand, \A c \in Conn : ~Pipeline(c)
    PROVE  /\ \/ \E e \in Event : Send(e) /\ Amount(e, "write", "load") = 0
              \/ Loop \/ Close \/ UNCHANGED monitorVars
           /\ UNCHANGED <<cmd, task, copied>>
           /\ err' = "nil" => err = "nil"
           /\ conns' = conns \/ pc # "load"
  <1>1. ASSUME NEW t \in {"start", "end"}, NEW p \in {"before", "after", "total"}
        PROVE  EventOf(t, p) \in Event /\ Amount(EventOf(t, p), "write", "load") = 0
    BY PhasesAssumption DEF EventOf, Event, EventType, Amount
  <1>2. CASE ScriptEnter \/ ScriptLeave \/ ReportTotal
    BY <1>1, <1>2 DEF ScriptEnter, ScriptLeave, ReportTotal, InScript, scriptUnchanged, inputVars
  <1>3. CASE ScriptAcquire \/ Begin \/ BeginFails \/ ExecStatement \/ ExecFails
    BY <1>3 DEF ScriptAcquire, Begin, BeginFails, ExecStatement, ExecFails, ScriptFails, ScriptError, InScript,
                scriptUnchanged, inputVars
  <1>4. CASE Commit \/ CommitFails \/ ExecFile \/ ExecFileFails
    BY <1>4 DEF Commit, CommitFails, ExecFile, ExecFileFails, ScriptFails, ScriptReturns, ScriptError, InScript,
                scriptUnchanged, inputVars
  <1>5. CASE Options \/ Connect \/ Set \/ StartMonitor
    BY <1>5 DEF CInv, PhaseInv, Early, Options, Connect, Set, StartMonitor, ReturnError, Goto, poolVars, targetVars, inputVars
  <1>6. CASE LoadStarts \/ LoadRefused \/ LoadEnds
    BY <1>6 DEF LoadStarts, LoadRefused, LoadEnds, ReturnError, Goto, loadUnchanged, poolVars
  <1>7. CASE StopCloses \/ StopJoins \/ ClosePool \/ Finish
    BY <1>7 DEF StopCloses, StopJoins, ClosePool, Finish, endUnchanged, targetVars
  <1>8. CASE Interrupt \/ MonitorLoop \/ UNCHANGED vars
    BY <1>8 DEF Interrupt, MonitorLoop, vars, poolVars, targetVars, controlVars
  <1>9. QED
    BY <1>2, <1>3, <1>4, <1>5, <1>6, <1>7, <1>8 DEF Next, Main, Calls, ScriptStep, Pipelines

\* The pool's records keep their type, whoever changes them.
LEMMA PoolSteps ==
    ASSUME CInv, PoolInv, [Next]_vars
    PROVE  PoolInv'
  <1> DEFINE R == [state : {"none", "idle", "busy"}, set : {0, 1}]
  <1>1. conns \in [Conn -> R] /\ \A c \in Conn : task[c] # "none" => conns[c].state = "busy"
    BY DEF PoolInv
  <1>2. ASSUME NEW c \in Conn
        PROVE  /\ Acquired(c) \in [Conn -> R]
               /\ \A d \in Conn : Acquired(c)[d] = IF d = c THEN [conns[d] EXCEPT !.state = "busy"] ELSE conns[d]
               /\ Acquired(c)[c].state = "busy"
    BY <1>1 DEF Acquired
  <1>3. ASSUME NEW c \in Conn, \E lost \in {TRUE, FALSE} : conns' = Released(c, lost)
        PROVE  conns' \in [Conn -> R] /\ \A d \in Conn : d # c => conns'[d] = conns[d]
    <2>1. conns' = [conns EXCEPT ![c] = NoConn] \/ conns' = [conns EXCEPT ![c].state = "idle"]
      BY <1>3 DEF Released
    <2>2. QED
      BY <1>1, <2>1 DEF NoConn
  <1>4. ASSUME NEW c \in Conn, Pipeline(c)
        PROVE  PoolInv'
    <2>1. task \in [Conn -> {"none", "copy", "write", "error"}]
      BY DEF CInv, Types
    <2>2. CASE LoadAcquire(c)
      <3>1. conns' = Acquired(c) /\ task' = [task EXCEPT ![c] = "copy"]
        BY <2>2 DEF LoadAcquire
      <3>2. QED
        BY <1>1, <1>2, <2>1, <3>1 DEF PoolInv
    <2>3. CASE LoadCopies(c) \/ LoadCopyFails(c)
      <3>1. conns' = conns /\ task[c] # "none" /\ \A d \in Conn : d # c => task'[d] = task[d]
        BY <2>1, <2>3 DEF LoadCopies, LoadCopyFails
      <3>2. QED
        BY <1>1, <3>1 DEF PoolInv
    <2>4. CASE LoadReports(c)
      <3>1. /\ task' = [task EXCEPT ![c] = "none"]
            /\ \E lost \in {TRUE, FALSE} : conns' = Released(c, lost)
        BY <2>4 DEF LoadReports
      <3>2. QED
        BY <1>1, <1>3, <2>1, <3>1 DEF PoolInv
    <2>5. QED
      BY <1>4, <2>2, <2>3, <2>4 DEF Pipeline
  <1>5. CASE ~ \E c \in Conn : Pipeline(c)
    <2>1. conns' \in [Conn -> R]
      <3>1. CASE Set
        <4>1. /\ conns' = conns \/ \E c \in Conn : \/ conns' = [conns EXCEPT ![c] = [state |-> "idle", set |-> 1]]
                                                   \/ conns' = [conns EXCEPT ![c].state = "idle"]
          BY <3>1 DEF Set
        <4>2. QED
          BY <1>1, <4>1
      <3>2. CASE ScriptAcquire
        <4>1. conns' = conns \/ \E c \in Conn : conns' = Acquired(c)
          BY <3>2 DEF ScriptAcquire
        <4>2. QED
          BY <1>1, <1>2, <4>1
      <3>3. CASE BeginFails \/ ExecFails \/ Commit \/ CommitFails \/ ExecFile \/ ExecFileFails
        <4>1. \E c \in Conn, lost \in {TRUE, FALSE} : conns' = Released(c, lost)
          BY <3>3 DEF BeginFails, ExecFails, Commit, CommitFails, ExecFile, ExecFileFails, ScriptFails, ScriptReturns
        <4>2. QED
          BY <1>3, <4>1
      <3>4. CASE ClosePool
        BY <3>4 DEF ClosePool, NoConn
      <3>5. CASE ScriptEnter \/ Begin \/ ExecStatement \/ ScriptLeave \/ ReportTotal
        BY <1>1, <3>5 DEF ScriptEnter, Begin, ExecStatement, ScriptLeave, ReportTotal
      <3>6. CASE Options \/ Connect \/ StartMonitor \/ LoadStarts \/ LoadRefused \/ LoadEnds
        BY <1>1, <3>6 DEF Options, Connect, StartMonitor, LoadStarts, LoadRefused, LoadEnds, poolVars
      <3>7. CASE StopCloses \/ StopJoins \/ NextCommand \/ Finish
        BY <1>1, <3>7 DEF StopCloses, StopJoins, NextCommand, Finish
      <3>8. CASE Interrupt \/ MonitorLoop \/ UNCHANGED vars
        BY <1>1, <3>8 DEF Interrupt, MonitorLoop, vars, poolVars
      <3>9. QED
        BY <1>5, <3>1, <3>2, <3>3, <3>4, <3>5, <3>6, <3>7, <3>8 DEF Next, Main, Calls, ScriptStep, Pipelines
    <2>2. UNCHANGED task /\ (conns' = conns \/ pc # "load")
      <3>1. CASE NextCommand
        BY <3>1 DEF NextCommand, endUnchanged
      <3>2. CASE ~NextCommand
        BY <1>5, <3>2, QuietSteps
      <3>3. QED
        BY <3>1, <3>2
    <2>3. QED
      BY <1>1, <2>1, <2>2 DEF PoolInv, CInv, TaskInv
  <1>6. QED
    BY <1>4, <1>5

\* A pipeline that starts, copies or reports keeps the account.
LEMMA PipelineAccounts ==
    ASSUME CInv, SummaryInv, NEW c \in Conn, Pipeline(c)
    PROVE  MonitorTypeOK' /\ Countable("write", "load")' /\ Accounted'
  <1>1. /\ cmd \in Index /\ copied \in [Index -> Nat] /\ cmd' = cmd
        /\ task \in [Conn -> {"none", "copy", "write", "error"}]
        /\ task[c] # "none" => conns[c].state = "busy"
    BY DEF CInv, Types, SummaryInv, PoolInv, Pipeline, LoadAcquire, LoadCopies, LoadCopyFails, LoadReports,
           loadUnchanged
  <1>2. MonitorTypeOK /\ Countable("write", "load") /\ Accounted
    BY DEF SummaryInv
  <1>3. CASE LoadAcquire(c) \/ LoadCopies(c) \/ LoadCopyFails(c)
    <2> UNCHANGED monitorVars
      BY <1>3 DEF LoadAcquire, LoadCopies, LoadCopyFails
    <2>1. MonitorTypeOK' /\ Countable("write", "load")' /\ Credit("write", "load")' = Credit("write", "load")
      BY <1>2, MonitorTypeStep, LoopKeepsCredit, WriteOfLoad
    <2>2. CASE LoadAcquire(c)
      <3>1. UNCHANGED <<copied, err>> /\ Writers' = Writers
        BY <1>1, <2>2 DEF LoadAcquire, Writers, CanAcquire
      <3>2. QED
        BY <1>1, <1>2, <2>1, <3>1 DEF Accounted
    <2>3. CASE LoadCopies(c)
      <3>1. UNCHANGED err /\ Writers' = Writers \cup {c} /\ c \notin Writers /\ copied'[cmd] = copied[cmd] + 1
        BY <1>1, <2>3 DEF LoadCopies, Writers
      <3>2. Cardinality(Writers') = Cardinality(Writers) + 1
        BY <3>1, WritersFinite, FS_AddElement
      <3>3. Credit("write", "load") \in Nat
        BY <1>2, WriteOfLoad, CreditType
      <3>4. QED
        BY <1>1, <1>2, <2>1, <3>1, <3>2, <3>3, WritersFinite DEF Accounted
    <2>4. CASE LoadCopyFails(c)
      BY <2>1, <2>4 DEF LoadCopyFails, Accounted
    <2>5. QED
      BY <1>3, <2>2, <2>3, <2>4
  <1>4. CASE LoadReports(c)
    <2> DEFINE e == EventOf(task[c], "load")
    <2>1. Send(e) /\ UNCHANGED <<copied, err>> /\ task[c] \in {"write", "error"} /\ task' = [task EXCEPT ![c] = "none"]
      BY <1>4 DEF LoadReports
    <2>2. e \in Event /\ Amount(e, "write", "load") = (IF task[c] = "write" THEN 1 ELSE 0)
      BY <2>1, WriteOfLoad DEF EventOf, Event, EventType, Amount
    <2> HIDE DEF e
    <2>3. /\ MonitorTypeOK' /\ Countable("write", "load")'
          /\ Credit("write", "load")' = Credit("write", "load") + Amount(e, "write", "load")
      BY <1>2, <2>1, <2>2, MonitorTypeStep, SendCredits, WriteOfLoad
    <2>4. Cardinality(Writers') = Cardinality(Writers) - (IF task[c] = "write" THEN 1 ELSE 0)
      <3>1. Writers' = Writers \ {c} /\ (c \in Writers <=> task[c] = "write")
        BY <1>1, <2>1 DEF Writers
      <3>2. Cardinality(Writers \ {c}) = IF c \in Writers THEN Cardinality(Writers) - 1 ELSE Cardinality(Writers)
        BY WritersFinite, FS_RemoveElement
      <3>3. QED
        BY <3>1, <3>2, WritersFinite
    <2>5. Credit("write", "load") \in Nat
      BY <1>2, WriteOfLoad, CreditType
    <2>6. QED
      BY <1>1, <1>2, <2>1, <2>2, <2>3, <2>4, <2>5, WritersFinite DEF Accounted
  <1>5. QED
    BY <1>3, <1>4 DEF Pipeline

\* The invariant behind the summary holds of every state.
THEOREM SummaryInvariance == Spec => []SummaryInv
  <1>1. Init => SummaryInv
    <2> SUFFICES ASSUME Init
                 PROVE  SummaryInv
      OBVIOUS
    <2>1. MonitorTypeOK /\ events = <<>> /\ loop = "running" /\ summary = "none"
      BY EventCapAssumption DEF Init, MonitorInit, MonitorTypeOK, TableStats, NoStats
    <2>2. /\ Countable("write", "load") /\ Credit("write", "load") = Tally("write", "load")
      BY <2>1, DrainedCredit, WriteOfLoad DEF MonitorTypeOK
    <2>3. Tally("write", "load") = 0
      BY WriteOfLoad DEF Init, MonitorInit, Tally, NoStats
    <2>4. Writers = {} /\ copied[cmd] = 0
      BY CommandFacts DEF Init, Writers
    <2>5. Accounted
      BY <2>2, <2>3, <2>4, FS_EmptySet DEF Accounted
    <2>6. PoolInv
      BY DEF Init, PoolInv, NoConn
    <2>7. QED
      BY <2>1, <2>2, <2>5, <2>6 DEF SummaryInv
  <1>2. CInv /\ SummaryInv /\ [Next]_vars => SummaryInv'
    <2> SUFFICES ASSUME CInv, SummaryInv, [Next]_vars
                 PROVE  SummaryInv'
      OBVIOUS
    <2>1. PoolInv'
      BY PoolSteps DEF SummaryInv
    <2>2. ASSUME NEW c \in Conn, Pipeline(c)
          PROVE  SummaryInv'
      <3>1. /\ pc = "load" /\ pc' = pc /\ summary' = summary
            /\ loop' = loop /\ channel' = channel /\ (events' = events \/ channel = "open")
        BY <2>2 DEF CInv, TaskInv, Pipeline, LoadAcquire, LoadCopies, LoadCopyFails, LoadReports, loadUnchanged,
                    Send, monitorVars
      <3>2. QED
        BY <2>1, <2>2, <3>1, PipelineAccounts DEF SummaryInv
    <2>3. CASE NextCommand
      <3>1. /\ pc = "returned" /\ cmd' = cmd + 1 /\ cmd' \in Index /\ UNCHANGED <<copied, task>>
            /\ events' = <<>> /\ loop' = "running" /\ summary' = "none" /\ channel' = "open"
            /\ stats' = [t \in TableNames |-> NoStats]
        BY <2>3 DEF NextCommand, endUnchanged, targetVars, CInv, Types, Index
      <3>2. MonitorTypeOK'
        BY <3>1, EventCapAssumption DEF MonitorTypeOK, TableStats, NoStats
      <3>3. IsFiniteSet(Units(events', "write", "load")) /\ Cardinality(Units(events', "write", "load")) = 0
        <4>1. Units(events', "write", "load") = {}
          BY <3>1 DEF Units
        <4>2. QED
          BY <4>1, FS_EmptySet
      <3>4. Countable("write", "load")' /\ Credit("write", "load")' = 0
        <4>1. stats'["load"].written = 0
          BY <3>1, WriteOfLoad DEF NoStats
        <4>2. QED
          BY <3>3, <4>1 DEF Countable, Credit, Tally
      <3>5. Writers' = {} /\ copied'[cmd'] = 0
        BY <3>1 DEF CInv, TaskInv, Types, OthersInv, Untouched, Writers, Index
      <3>6. Accounted'
        BY <3>4, <3>5, FS_EmptySet DEF Accounted
      <3>7. QED
        BY <2>1, <3>1, <3>2, <3>4, <3>6 DEF SummaryInv
    <2>4. CASE ~NextCommand /\ \A c \in Conn : ~Pipeline(c)
      <3>1. /\ \/ \E e \in Event : Send(e) /\ Amount(e, "write", "load") = 0
               \/ Loop \/ Close \/ UNCHANGED monitorVars
            /\ UNCHANGED <<cmd, task, copied>>
            /\ err' = "nil" => err = "nil"
        BY <2>4, QuietSteps
      <3>2. MonitorTypeOK'
        BY <3>1, MonitorTypeStep DEF SummaryInv
      <3>3. Countable("write", "load")' /\ Credit("write", "load")' = Credit("write", "load")
        <4>1. CASE Loop \/ Close \/ UNCHANGED monitorVars
          BY <4>1, LoopKeepsCredit, WriteOfLoad DEF SummaryInv
        <4>2. ASSUME NEW e \in Event, Send(e), Amount(e, "write", "load") = 0
              PROVE  Countable("write", "load")' /\ Credit("write", "load")' = Credit("write", "load")
          BY <4>2, SendCredits, CreditType, WriteOfLoad DEF SummaryInv
        <4>3. QED
          BY <3>1, <4>1, <4>2
      <3>4. Accounted'
        BY <3>1, <3>3 DEF SummaryInv, Accounted, Writers
      <3>5. loop' = "returned" => channel' = "closed" /\ events' = <<>>
        BY <3>1 DEF SummaryInv, Send, Loop, ProcessEvent, LoopExit, Close, monitorVars
      <3>6. summary' \in {"none", "printed"} /\ (summary' = "printed" => loop' = "returned" /\ pc' \in {"close", "returned", "done"})
        <4>1. summary \in {"none", "printed"} /\ (summary = "printed" => loop = "returned" /\ pc \in {"close", "returned", "done"})
          BY DEF SummaryInv
        <4>2. CASE StopJoins
          BY <4>1, <4>2 DEF StopJoins, Goto, monitorVars
        <4>3. CASE ~StopJoins
          <5>1. summary' = summary
            BY <2>4, <4>3
               DEF Next, Main, Calls, Options, Connect, Set, StartMonitor, ScriptStep, ScriptEnter, ScriptAcquire, Begin,
                   BeginFails, ScriptFails, ExecStatement, ExecFails, ScriptReturns, Commit, CommitFails, ExecFile,
                   ExecFileFails, ScriptLeave, ReportTotal, scriptUnchanged, LoadStarts, LoadRefused, LoadEnds,
                   loadUnchanged, Pipelines, StopCloses, ClosePool, Finish, Interrupt, MonitorLoop, controlVars, vars
          <5>2. summary = "printed" => loop' = loop
            BY <3>1, <4>1 DEF Loop, ProcessEvent, LoopExit, Send, Close, monitorVars
          <5>3. pc \in {"close", "returned", "done"} => pc' \in {"close", "returned", "done"}
            BY <2>4, <4>3
               DEF Next, Main, Calls, Options, Connect, Set, StartMonitor, ScriptStep, ScriptEnter, ScriptAcquire, Begin,
                   BeginFails, ScriptFails, ExecStatement, ExecFails, ScriptReturns, Commit, CommitFails, ExecFile,
                   ExecFileFails, ScriptLeave, ReportTotal, InScript, LoadStarts, LoadRefused, LoadEnds,
                   Pipelines, StopCloses, ClosePool, Finish, Goto, Interrupt, MonitorLoop, controlVars, vars
          <5>4. QED
            BY <4>1, <5>1, <5>2, <5>3
        <4>4. QED
          BY <4>2, <4>3
      <3>7. QED
        BY <2>1, <3>2, <3>3, <3>4, <3>5, <3>6 DEF SummaryInv
    <2>5. QED
      BY <2>2, <2>3, <2>4
  <1>3. QED
    BY <1>1, <1>2, CommandInvariance, PTL DEF Spec

\* ExecuteCommand and RunE: the summary is printed when the monitor has ended
\* with nothing left in its channel, and unless an error is returned it counts
\* every COPY of the load, for any number of connections, COPYs and commands.
THEOREM SummariesAreFinal == Spec => []SummaryIsFinal
  <1>1. CInv /\ SummaryInv => SummaryIsFinal
    <2> SUFFICES ASSUME CInv, SummaryInv, summary = "printed"
                 PROVE  loop = "returned" /\ events = <<>> /\ (err = "nil" => stats["load"].written = copied[cmd])
      BY DEF SummaryIsFinal
    <2>1. loop = "returned" /\ events = <<>> /\ pc # "load"
      BY DEF SummaryInv
    <2>2. Writers = {}
      BY <2>1 DEF CInv, TaskInv, Writers
    <2>3. Credit("write", "load") = stats["load"].written /\ stats["load"].written \in Nat
      BY <2>1, DrainedCredit, CreditType, WriteOfLoad DEF SummaryInv, Tally
    <2>4. QED
      BY <2>1, <2>2, <2>3, FS_EmptySet DEF SummaryInv, Accounted
  <1>2. QED
    BY <1>1, CommandInvariance, SummaryInvariance, PTL
=============================================================================
