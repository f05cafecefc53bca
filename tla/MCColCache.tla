----------------------------- MODULE MCColCache -----------------------------
(* Two rows; a view and a view of it, or two of one list.                  *)
EXTENDS ColCache

CONSTANTS a1, a2, a3, v1, v2

MCFileRows == <<a1, a2>>
MCSpare == {a3}
MCViews == {v1, v2}
=============================================================================
