-------------------------- MODULE MCProcessBudget --------------------------
(* Two helper processes: one may end on its own while the other survives.   *)
EXTENDS ProcessBudget

CONSTANTS h1, h2

MCHelpers == {h1, h2}
=============================================================================
