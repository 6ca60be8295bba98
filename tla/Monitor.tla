------------------------------- MODULE Monitor -------------------------------
(***************************************************************************)
(* The statistics monitor of internal/monitor: a buffered channel that      *)
(* every goroutine of a load sends its events to, one goroutine (loop) that *)
(* drains it into per-table statistics, and Stop, which closes the channel  *)
(* and waits for that goroutine.                                            *)
(*                                                                          *)
(* Wall-clock times, bytes and the printed report are left out; a table     *)
(* with no entry in the code's map is a table whose statistics are all 0.   *)
(***************************************************************************)
EXTENDS Naturals, Sequences

CONSTANTS
    TableNames,  \* what events are filed under: tables and phases
    EventCap     \* capacity of the event channel (1000 in NewMonitor)

ASSUME EventCapAssumption == EventCap \in Nat \ {0}

VARIABLES
    events,      \* contents of the channel, oldest first
    channel,     \* "open" until Stop closes it
    loop,        \* "running" until the goroutine returns and closes done
    stats        \* per-table statistics

monitorVars == <<events, channel, loop, stats>>

EventType == {"start", "end", "write", "error"}

Event == [type : EventType, table : TableNames, count : Nat]

TableStats == [written : Nat, errors : Nat, ended : Nat]

NoStats == [written |-> 0, errors |-> 0, ended |-> 0]

MonitorInit ==
    /\ events = <<>>
    /\ channel = "open"
    /\ loop = "running"
    /\ stats = [t \in TableNames |-> NoStats]

(***************************************************************************)
(* A send blocks while the buffer is full. A send on the closed channel     *)
(* would panic: no action models it, and NothingRunsAfterReturn shows that  *)
(* every goroutine that sends has ended before Stop closes the channel.     *)
(***************************************************************************)
Send(evt) ==
    /\ channel = "open"
    /\ Len(events) < EventCap
    /\ events' = Append(events, evt)
    /\ UNCHANGED <<channel, loop, stats>>

AddEvent(ts, evt) ==
    [written |-> ts.written + (IF evt.type = "write" THEN evt.count ELSE 0),
     errors  |-> ts.errors + (IF evt.type = "error" THEN 1 ELSE 0),
     ended   |-> ts.ended + (IF evt.type = "end" THEN 1 ELSE 0)]

ProcessEvent ==
    /\ events # <<>>
    /\ stats' = [stats EXCEPT ![Head(events).table] = AddEvent(@, Head(events))]
    /\ events' = Tail(events)
    /\ UNCHANGED <<channel, loop>>

\* Mutant: Stop flags the loop, which quits without draining what is buffered.
LoopExitEarly ==
    /\ channel = "closed"
    /\ loop = "running"
    /\ loop' = "returned"
    /\ UNCHANGED <<events, channel, stats>>

\* The range over the channel ends when it is closed AND drained.
LoopExit ==
    /\ channel = "closed"
    /\ events = <<>>
    /\ loop = "running"
    /\ loop' = "returned"
    /\ UNCHANGED <<events, channel, stats>>

Loop == ProcessEvent \/ LoopExit

Close ==
    /\ channel = "open"
    /\ channel' = "closed"
    /\ UNCHANGED <<events, loop, stats>>

MonitorTypeOK ==
    /\ events \in Seq(Event)
    /\ Len(events) <= EventCap
    /\ channel \in {"open", "closed"}
    /\ loop \in {"running", "returned"}
    /\ stats \in [TableNames -> TableStats]
=============================================================================
