-------------------------- MODULE CheckpointPrefix --------------------------
(***************************************************************************)
(* Stage checkpoints of one execution fingerprint and the single rule that *)
(* decides which of them may be reused (job_source_agent/                  *)
(* checkpoint_prefix.py).  A checkpoint is the pair of the phase that      *)
(* executed the stage and the phase of the upstream result it was computed *)
(* on; its payload is abstracted to the class the inspector puts it in:    *)
(*                                                                         *)
(*   reusable   success / not_applicable with the required safe outputs    *)
(*   negative   finalized, but failed, partial or unsupported              *)
(*   malformed  success without its required output, unsafe URL            *)
(*   absent     no file, or one the store refuses to decode                *)
(***************************************************************************)
EXTENDS Integers

CONSTANTS StageCount,    \* number of pipeline stages (seven in the code)
          UpstreamLast   \* last stage of the website/identity phase (S3)

ASSUME StageAssumption ==
    /\ StageCount \in Nat
    /\ UpstreamLast \in Nat
    /\ 1 <= UpstreamLast
    /\ UpstreamLast + 3 <= StageCount

Stages  == 1..StageCount
Career  == UpstreamLast + 1     \* S4 career_discovery
Board   == StageCount - 2       \* S5 job_board_discovery
Opening == StageCount - 1       \* S6 opening_match
End     == StageCount + 1       \* END_OF_PIPELINE_CHECKPOINT_BOUNDARY

Classes == {"reusable", "negative", "malformed"}
Absent  == [phase |-> 0, base |-> 0, class |-> "absent"]
Slots   == [phase : Nat, base : Nat, class : Classes \cup {"absent"}]
Chains  == [Stages -> Slots]

NoChain == [t \in Stages |-> Absent]

(* Mutant: the finalized flag of the inspection is forgotten.              *)
AcceptsFinalized(slot, finalized) == slot.class \in {"reusable", "negative"}

(* Status test of _validate_checkpoint: a same-attempt continuation also   *)
(* accepts finalized negative stages, nothing accepts malformed ones.      *)
Accepts(slot, finalized) ==
    \/ slot.class = "reusable"
    \/ finalized /\ slot.class = "negative"

(* Mutant: only the requested stage's own predecessor is looked at.        *)
IsUncheckedStart(store, req, finalized, eff) ==
    /\ eff \in 1..req
    /\ \A t \in Stages : t = eff - 1 => Accepts(store[t], finalized)
    /\ eff # req => ~Accepts(store[eff], finalized)

(* eff is the effective start of an inspection that asks to start at req.  *)
IsEffectiveStart(store, req, finalized, eff) ==
    /\ eff \in 1..req
    /\ \A t \in Stages : t < eff => Accepts(store[t], finalized)
    /\ eff # req => ~Accepts(store[eff], finalized)

(* The executions an inspection hands out: those before the first gap.     *)
Before(store, eff) ==
    [t \in Stages |-> IF t < eff THEN store[t] ELSE Absent]

(* inspect_complete_checkpoint_prefix: what parent recovery may restore.   *)
Authoritative(store) ==
    [t \in Stages |->
        IF \A u \in Stages : u <= t => Accepts(store[u], FALSE)
        THEN store[t] ELSE Absent]

Complete(chain) == chain[StageCount] # Absent

(* Neighbouring executions belong together: the later one was computed on  *)
(* the very result the earlier one holds.  There may be gaps.              *)
Coherent(chain) ==
    \A t, u \in Stages :
        (u = t + 1 /\ chain[t] # Absent /\ chain[u] # Absent)
            => chain[u].base = chain[t].phase

(* The same without gaps: a prefix of one run of the pipeline.             *)
IsChain(chain) ==
    /\ Coherent(chain)
    /\ \A t, u \in Stages :
          (u = t + 1 /\ chain[u] # Absent) => chain[t] # Absent
=============================================================================
