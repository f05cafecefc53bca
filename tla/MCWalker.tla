------------------------------ MODULE MCWalker ------------------------------
(* The variables of a script under the tree walker and the accelerator, or  *)
(* the ways it leaves a statement early, one of the two to a behaviour.  A  *)
(* script of the first kind evaluates the method call and one other node:   *)
(* programs meet in the scope and in the body of the method only.           *)
EXTENDS MCBytecode, MCFlow

VARIABLE front

vars == <<bvars, flowVars, front>>

Variables(A) == front \in Sites /\ A /\ UNCHANGED <<front, flowVars>>
Control(A) == front = "control" /\ A /\ UNCHANGED <<front, bvars>>

Evaluates == \E site \in {front, "method"} : Evaluate(site)

InitW == front \in {"sum", "loop", "control"} /\ Script /\ FlowInit
NextW == Variables(ScopeStep \/ EndRequest \/ Evaluates) \/ Control(FlowNext)

SpecW == InitW /\ [][NextW]_vars
=============================================================================
