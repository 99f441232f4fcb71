--------------------------- MODULE TaskSchedulingMC ---------------------------
(***************************************************************************)
(* Instances of TaskScheduling for TLC: a root with a plan of three steps, *)
(* the last of which waits for the second and belongs to another agent;    *)
(* and two roots of two agents on one port, one of them an                 *)
(* autonomous job.                                                         *)
(***************************************************************************)
EXTENDS TaskScheduling, TLC

CONSTANTS main, first, second, kid, side, last, other, port

MCPlanTasks == {main, kid, first, second}
MCPlanParent == [t \in MCPlanTasks |-> IF t = main THEN None ELSE main]
MCPlanPlan == [t \in MCPlanTasks |-> IF t = main THEN <<kid, first, second>> ELSE <<>>]
MCPlanDeps == [t \in MCPlanTasks |-> IF t = second THEN {first} ELSE {}]
MCPlanAgent == [t \in MCPlanTasks |-> IF t = second THEN other ELSE main]
MCPlanPort == [t \in MCPlanTasks |-> port]

MCRoots == {side, last}
MCRootParent == [t \in MCRoots |-> None]
MCRootPlan == [t \in MCRoots |-> <<>>]
MCRootDeps == [t \in MCRoots |-> {}]
MCRootAgent == [t \in MCRoots |-> IF t = side THEN other ELSE main]
MCRootPort == [t \in MCRoots |-> port]
===============================================================================
