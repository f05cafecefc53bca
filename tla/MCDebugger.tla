----------------------------- MODULE MCDebugger -----------------------------
(* Two lines, calls two deep, and one frame more than they need.           *)
EXTENDS Debugger

CONSTANTS l1, l2

MCLines == {l1, l2}
MCMarked == {l1}
=============================================================================
