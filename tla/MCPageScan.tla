----------------------------- MODULE MCPageScan -----------------------------
(* Model checking of PageScan. *)
EXTENDS PageScan
=============================================================================
