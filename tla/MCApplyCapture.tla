--------------------------- MODULE MCApplyCapture ---------------------------
(* Symmetry of the capture: no job, tab or coroutine is special.           *)
EXTENDS ApplyCapture, TLC

Symmetric ==
    UNION {Permutations(S) : S \in {Jobs, SourceTabs, NewTabs, Handlers}}
=============================================================================
