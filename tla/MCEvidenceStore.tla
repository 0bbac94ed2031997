--------------------------- MODULE MCEvidenceStore ---------------------------
(* Symmetry of the evidence store: no process, company or URL is special. *)
EXTENDS EvidenceStore, TLC

Symmetric ==
    UNION {Permutations(S) :
              S \in {Processes, Companies, Sites, Careers, BoardIds}}
=============================================================================
