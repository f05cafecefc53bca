--------------------------- MODULE MCFiberContext ---------------------------
(***************************************************************************)
(* Two tasks, one worker, one value: enough for two tasks that overlap.    *)
(***************************************************************************)
EXTENDS FiberContext

CONSTANTS w1

MCWorkers == {w1}
=============================================================================
