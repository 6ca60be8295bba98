------------------------------ MODULE TableLoad ------------------------------
(***************************************************************************)
(* What loading one table promises, whatever the number of pipelines:       *)
(* groups of source rows become visible in the target, no row a second      *)
(* time, and the load reports success only when every row is there. A       *)
(* failed load leaves the groups committed so far (COPY commits on its own, *)
(* there is no enclosing transaction), and nothing is written after either  *)
(* report.                                                                  *)
(***************************************************************************)
EXTENDS Naturals

CONSTANT Row            \* the rows of the source table

VARIABLES
    target,             \* copies of each source row in the target table
    result              \* "running", "ok" or "failed"

loadVars == <<target, result>>

Missing == {r \in Row : target[r] = 0}

Init ==
    /\ target = [r \in Row |-> 0]
    /\ result = "running"

Commit ==
    /\ result = "running"
    /\ \E rows \in SUBSET Missing :
          target' = [r \in Row |-> IF r \in rows THEN 1 ELSE target[r]]
    /\ UNCHANGED result

Succeed ==
    /\ result = "running"
    /\ Missing = {}
    /\ result' = "ok"
    /\ UNCHANGED target

Fail ==
    /\ result = "running"
    /\ result' = "failed"
    /\ UNCHANGED target

Next == Commit \/ Succeed \/ Fail

Spec == Init /\ [][Next]_loadVars
=============================================================================
