---------------------------- MODULE MCRequests -----------------------------
(* A request from the queue to its response, or the tasks and children of   *)
(* the scripts of two requests, one of the two to a behaviour.              *)
EXTENDS MCApiServer, AsyncTasks

(* Two request threads, a pool of three tasks and one child.                *)
CONSTANTS o1, o2

MCOwners == {o1, o2}

VARIABLE front

vars == <<apiVars, taskVars, front>>

Path(A) == front = "path" /\ A /\ UNCHANGED <<front, taskVars>>
Tasks(A) == front = "tasks" /\ A /\ UNCHANGED <<front, apiVars>>

Init == /\ front \in {"path", "tasks"}
        /\ ApiInit /\ TaskInit
        /\ front = "tasks" => ~overlap
Next == Path(ApiNext) \/ Tasks(TaskNext)

(* A component that has not begun owes no step.                             *)
Spec == Init /\ [][Next]_vars /\ ApiFairness /\ TaskFairness
=============================================================================
