---------------------------- MODULE ReusableChain ----------------------------
(***************************************************************************)
(* What stage checkpoints promise: one chain of stage executions that is   *)
(* extended one stage at a time, by an execution computed on its current   *)
(* last element, and otherwise only cut back.  Crashes, kills, retries,    *)
(* reruns and checkpoints that cannot be written are all one of the two.   *)
(***************************************************************************)
EXTENDS CheckpointPrefix

VARIABLE chain

HasLength(n) == \A t \in Stages : (chain[t] # Absent) <=> t <= n

Init == chain = NoChain

(* Stage s completes on the chain of its s - 1 predecessors; which phase   *)
(* executed it is not the specification's business.                        *)
Extend(s) ==
    /\ HasLength(s - 1)
    /\ chain'[s].class = "reusable"
    /\ chain'[s].base = IF s = 1 THEN 0 ELSE chain[s - 1].phase
    /\ chain' = [chain EXCEPT ![s] = chain'[s]]

CutBack(s) == chain' = Before(chain, s)

Next == \E s \in Stages : Extend(s) \/ CutBack(s)

Spec == Init /\ [][Next]_chain
=============================================================================
