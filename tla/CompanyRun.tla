----------------------------- MODULE CompanyRun -----------------------------
(***************************************************************************)
(* One company of a live batch, from the command line to its durable batch *)
(* completion: scripts/live_batch_eval.py (run_company and the batch       *)
(* loader), the child process that runs ApplicationRunner.run, and the     *)
(* stage checkpoint directory both share.                                  *)
(*                                                                         *)
(* A batch invocation chooses a start (nothing, --resume-from-stage,       *)
(* --rerun-stage, --no-resume or an automatic retry of a stored            *)
(* completion), then runs up to three child phases (upstream, discovery,   *)
(* downstream).  A child can be killed by its hard deadline or die at any  *)
(* step; the whole batch can die at any step.                              *)
(***************************************************************************)
EXTENDS CheckpointPrefix

CONSTANTS MaxPhases,   \* bound on the child phases of a behaviour
          Resumes,     \* stages --resume-from-stage may name
          Reruns       \* stages --rerun-stage may name

ASSUME RunAssumption ==
    /\ MaxPhases \in Nat
    /\ Resumes \subseteq 2..Opening
    /\ Reruns \subseteq 2..Opening

VARIABLES
    disk,     \* checkpoint files of the fingerprint
    ledger,   \* durable batch completion of the company
    parent,   \* program counter of the batch parent
    req,      \* what this invocation was asked, and its selected start
    first,    \* phases run before this attempt began
    phases,   \* phases run so far; the identity of the current one
    best,     \* upstream_result / discovery_result held by the parent
    child,    \* the child process
    ctx       \* PipelineContext.stage_results in the child

vars == <<disk, ledger, parent, req, first, phases, best, child, ctx>>

ParentPcs == {"idle", "drop", "select", "upstream", "route",
              "discovery", "gate", "downstream"}
ChildPcs  == {"none", "inspect", "cut", "run", "raised"}

NoRequest == [retry |-> 0, resume |-> 0, rerun |-> 0, sel |-> 0]
NoChild   == [pc |-> "none", next |-> 1, stop |-> 1,
              finalized |-> FALSE, strict |-> FALSE]
NoLedger  == [action |-> "none", stage |-> 1, chain |-> NoChain]

TypeOK ==
    /\ disk \in Chains
    /\ ledger \in [action : {"none", "restore", "retry"},
                   stage : Stages, chain : Chains]
    /\ parent \in ParentPcs
    /\ req \in [retry : 0..StageCount, resume : 0..StageCount,
                rerun : 0..StageCount, sel : 0..StageCount]
    /\ first \in Nat
    /\ phases \in Nat
    /\ best \in Chains
    /\ child \in [pc : ChildPcs, next : 1..End, stop : Stages,
                  finalized : BOOLEAN, strict : BOOLEAN]
    /\ ctx \in Chains

Init ==
    /\ disk = NoChain
    /\ ledger = NoLedger
    /\ parent = "idle"
    /\ req = NoRequest
    /\ first = 0
    /\ phases = 0
    /\ best = NoChain
    /\ child = NoChild
    /\ ctx = NoChain

-----------------------------------------------------------------------------
(* Mutant: invalidation begins one stage too early.                        *)
UnlinkPrevious(s) ==
    \E t \in Stages :
        /\ s - 1 <= t
        /\ disk[t] # Absent
        /\ disk' = [disk EXCEPT ![t] = Absent]

(* FilesystemCheckpointStore.invalidate_from unlinks the stage files one   *)
(* by one in canonical order: a kill may leave any later ones behind.      *)
UnlinkNext(s) ==
    \E t \in Stages :
        /\ s <= t
        /\ disk[t] # Absent
        /\ \A u \in Stages : s <= u /\ u < t => disk[u] = Absent
        /\ disk' = [disk EXCEPT ![t] = Absent]

InvalidatedFrom(s) == \A t \in Stages : s <= t => disk[t] = Absent

(* Statuses _completed_stage_prefix keeps when a failure is reported.      *)
Succeeded(slot) == slot.class \in {"reusable", "malformed"}

FailurePrefix(chain) ==
    [t \in Stages |->
        IF t < StageCount /\ \A u \in Stages : u <= t => Succeeded(chain[u])
        THEN chain[t] ELSE Absent]

(* classify_completion_resume on the first stage that did not succeed: its *)
(* retryable flag is the stage's own and may be either.                    *)
ResultDecision(chain, action, s) ==
    \/ action = "restore" /\ s = 1
    \/ /\ action = "retry"
       /\ s \in Stages
       /\ chain[s].class = "negative"
       /\ \A t \in Stages : t < s => Succeeded(chain[t])

(* failure_result fails the first stage that is not in the kept prefix;    *)
(* with no prefix it reports S1, or S1-S3 when the input names a website.  *)
FailureDecision(chain, action, s) ==
    \/ action = "restore" /\ s = 1
    \/ /\ action = "retry"
       /\ IF chain = NoChain
          THEN s \in {2, Career}
          ELSE /\ s \in Stages
               /\ chain[s] = Absent
               /\ \A t \in Stages : t < s => chain[t] # Absent

(* The attempt is over: the parent drops its state and the child is gone.  *)
EndAttempt ==
    /\ parent' = "idle"
    /\ req' = NoRequest
    /\ best' = NoChain
    /\ child' = NoChild
    /\ ctx' = NoChain
    /\ first' = phases
    /\ UNCHANGED <<disk, phases>>

PublishResult(chain) ==
    /\ \E action \in {"restore", "retry"}, s \in Stages :
          /\ ResultDecision(chain, action, s)
          /\ ledger' = [action |-> action, stage |-> s, chain |-> chain]
    /\ EndAttempt

PublishFailure(chain) ==
    /\ \E action \in {"restore", "retry"}, s \in Stages :
          /\ FailureDecision(FailurePrefix(chain), action, s)
          /\ ledger' = [action |-> action, stage |-> s,
                        chain |-> FailurePrefix(chain)]
    /\ EndAttempt

(* run_with_process_budget(run_pipeline_phase, ...): rerun_from, when set, *)
(* replaces start_at (PipelineApplication.discover).                       *)
Launch(pc, start, stop, rerun, finalized) ==
    /\ phases < MaxPhases
    /\ phases' = phases + 1
    /\ parent' = pc
    /\ child' = [pc |-> "inspect",
                 next |-> IF rerun # 0 THEN rerun ELSE start,
                 stop |-> stop,
                 finalized |-> finalized,
                 strict |-> rerun # 0]
    /\ ctx' = NoChain

UpstreamRerun   == IF req.rerun <= UpstreamLast THEN req.rerun ELSE 0
DownstreamRerun == IF req.rerun > UpstreamLast THEN req.rerun ELSE 0

-----------------------------------------------------------------------------
(* Batch loader and start of run_company *)

(* Mutant: an automatic retry starts without dropping the old checkpoints. *)
InvokeUndropped(resume, rerun, noResume) ==
    /\ parent = "idle"
    /\ resume = 0 \/ rerun = 0
    /\ LET consulted == ~noResume /\ rerun = 0
           retry == IF consulted /\ ledger.action = "retry"
                    THEN ledger.stage ELSE 0
       IN /\ ~(consulted /\ ledger.action = "restore")
          /\ req' = [retry |-> retry, resume |-> resume,
                     rerun |-> rerun, sel |-> 0]
          /\ parent' = "select"
    /\ UNCHANGED <<disk, ledger, first, phases, best, child, ctx>>

(* _load_completed_companies: a stored completion that is not retryable is *)
(* restored and nothing runs; --no-resume and --rerun-stage ignore it.     *)
Invoke(resume, rerun, noResume) ==
    /\ parent = "idle"
    /\ resume = 0 \/ rerun = 0
    /\ LET consulted == ~noResume /\ rerun = 0
           retry == IF consulted /\ ledger.action = "retry"
                    THEN ledger.stage ELSE 0
       IN /\ ~(consulted /\ ledger.action = "restore")
          /\ req' = [retry |-> retry, resume |-> resume,
                     rerun |-> rerun, sel |-> 0]
          /\ parent' = IF retry # 0 THEN "drop" ELSE "select"
    /\ UNCHANGED <<disk, ledger, first, phases, best, child, ctx>>

(* stage_store.invalidate_from(fingerprint, retry_stage) *)
DropRetried ==
    /\ parent = "drop"
    /\ UnlinkNext(req.retry)
    /\ UNCHANGED <<ledger, parent, req, first, phases, best, child, ctx>>

DropDone ==
    /\ parent = "drop"
    /\ InvalidatedFrom(req.retry)
    /\ parent' = "select"
    /\ UNCHANGED <<disk, ledger, req, first, phases, best, child, ctx>>

(* selected_start: the automatic retry wins over --resume-from-stage, and  *)
(* both fall back to the earliest defect.                                  *)
IsSelected(sel) ==
    IF req.retry # 0 THEN IsEffectiveStart(disk, req.retry, FALSE, sel)
    ELSE IF req.resume # 0 THEN IsEffectiveStart(disk, req.resume, FALSE, sel)
    ELSE sel = req.rerun

(* _explicit_rerun_preflight fails before any child or checkpoint change.  *)
RerunRefused ==
    /\ parent = "select"
    /\ req.rerun # 0
    /\ ~IsEffectiveStart(disk, req.rerun, FALSE, req.rerun)
    /\ PublishFailure(NoChain)

SelectUpstream ==
    /\ parent = "select"
    /\ req.rerun # 0 => IsEffectiveStart(disk, req.rerun, FALSE, req.rerun)
    /\ \E sel \in 0..UpstreamLast :
          /\ IsSelected(sel)
          /\ req' = [req EXCEPT !.sel = sel]
          /\ Launch("upstream", IF sel = 0 THEN 1 ELSE sel, UpstreamLast,
                    UpstreamRerun, FALSE)
    /\ first' = phases
    /\ UNCHANGED <<disk, ledger, best>>

SelectDownstream ==
    /\ parent = "select"
    /\ req.rerun # 0 => IsEffectiveStart(disk, req.rerun, FALSE, req.rerun)
    /\ \E sel \in Career..StageCount :
          /\ IsSelected(sel)
          /\ req' = [req EXCEPT !.sel = sel]
    /\ parent' = "route"
    /\ first' = phases
    /\ UNCHANGED <<disk, ledger, phases, best, child, ctx>>

-----------------------------------------------------------------------------
(* The child: ApplicationRunner.run over the selected stages *)

ChildInspect ==
    /\ child.pc = "inspect"
    /\ \E eff \in Stages :
          /\ IsEffectiveStart(disk, child.next, child.finalized, eff)
          /\ IF child.strict /\ eff # child.next
             THEN /\ child' = [child EXCEPT !.pc = "raised"]
                  /\ ctx' = ctx
             ELSE /\ child' = [child EXCEPT !.pc = "cut", !.next = eff]
                  /\ ctx' = Before(disk, eff)
    /\ UNCHANGED <<disk, ledger, parent, req, first, phases, best>>

ChildCut ==
    /\ child.pc = "cut"
    /\ UnlinkNext(child.next)
    /\ UNCHANGED <<ledger, parent, req, first, phases, best, child, ctx>>

(* Mutant: the stages run before the later checkpoints are gone.           *)
ChildCutSkipped ==
    /\ child.pc = "cut"
    /\ child' = [child EXCEPT !.pc = "run"]
    /\ UNCHANGED <<disk, ledger, parent, req, first, phases, best, ctx>>

ChildCutDone ==
    /\ child.pc = "cut"
    /\ InvalidatedFrom(child.next)
    /\ child' = [child EXCEPT !.pc = "run"]
    /\ UNCHANGED <<disk, ledger, parent, req, first, phases, best, ctx>>

(* One stage runs on the context built so far, is applied and saved; a     *)
(* board portfolio without a replay-safe projection is not kept on disk.   *)
ChildRunStage(class, kept) ==
    /\ child.pc = "run"
    /\ child.next <= child.stop
    /\ kept \/ child.next = Board
    /\ LET s == child.next
           base == IF s = 1 THEN 0 ELSE ctx[s - 1].phase
           execution == [phase |-> phases, base |-> base, class |-> class]
       IN /\ ctx' = [ctx EXCEPT ![s] = execution]
          /\ disk' = [disk EXCEPT ![s] = IF kept THEN execution ELSE Absent]
          /\ child' = [child EXCEPT !.next = s + 1]
    /\ UNCHANGED <<ledger, parent, req, first, phases, best>>

ChildReturned == child.pc = "run" /\ child.next > child.stop

-----------------------------------------------------------------------------
(* Phase outcomes in the parent.  The deadline may expire whatever the     *)
(* child is doing, and the child may die with an exception at any step.    *)

Recovered == Authoritative(disk)
RecoveredOrBest == IF Recovered = NoChain THEN best ELSE Recovered

(* Without a website the company ends here with the upstream result.       *)
UpstreamReturned ==
    /\ parent = "upstream"
    /\ ChildReturned
    /\ \/ /\ parent' = "route"
          /\ best' = ctx
          /\ child' = NoChild
          /\ ctx' = NoChain
          /\ UNCHANGED <<disk, ledger, req, first, phases>>
       \/ /\ \E t \in 1..UpstreamLast : ctx[t].class # "reusable"
          /\ PublishResult(ctx)

UpstreamTimedOut ==
    /\ parent = "upstream"
    /\ IF Complete(Recovered) THEN PublishResult(Recovered)
                              ELSE PublishFailure(Recovered)

UpstreamRaised ==
    /\ parent = "upstream"
    /\ PublishFailure(Recovered)

(* downstream_start: _downstream_start_stage looks at the checkpoints      *)
(* again when --resume-from-stage names the board or the opening.          *)
IsDownstreamStart(s) ==
    IF req.sel > UpstreamLast THEN s = req.sel
    ELSE IF req.resume \in {Board, Opening}
    THEN IsEffectiveStart(disk, req.resume, FALSE, s)
    ELSE s = Career

RouteExhausted ==
    /\ parent = "route"
    /\ PublishFailure(best)

RouteDiscovery ==
    /\ parent = "route"
    /\ \E s \in 1..Board :
          /\ IsDownstreamStart(s)
          /\ Launch("discovery", s, Board, DownstreamRerun, TRUE)
    /\ UNCHANGED <<disk, ledger, req, first, best>>

RouteDownstream ==
    /\ parent = "route"
    /\ \E s \in Stages :
          /\ IsDownstreamStart(s)
          /\ Launch("downstream", s, StageCount, DownstreamRerun, TRUE)
    /\ UNCHANGED <<disk, ledger, req, first, best>>

DiscoveryReturned ==
    /\ parent = "discovery"
    /\ ChildReturned
    /\ parent' = "gate"
    /\ best' = ctx
    /\ child' = NoChild
    /\ ctx' = NoChain
    /\ UNCHANGED <<disk, ledger, req, first, phases>>

(* A board that was durably verified before the kill still goes on, unless *)
(* the reconstructed result withholds its Job List URL.                    *)
DiscoveryFailed ==
    /\ parent = "discovery"
    /\ \/ /\ Recovered[Board] # Absent
          /\ parent' = "gate"
          /\ best' = Recovered
          /\ child' = NoChild
          /\ ctx' = NoChain
          /\ UNCHANGED <<disk, ledger, req, first, phases>>
       \/ PublishFailure(RecoveredOrBest)

(* _can_continue_to_opening_validation: a successful board goes on with a  *)
(* Job List URL even when its checkpoint would not be accepted for reuse.  *)
CanContinue ==
    \/ Succeeded(best[Board])
    \/ /\ best[Board].class = "negative"
       /\ IsEffectiveStart(disk, Opening, TRUE, Opening)

GateStop ==
    /\ parent = "gate"
    /\ PublishResult(best)

GateShort ==
    /\ parent = "gate"
    /\ CanContinue
    /\ PublishFailure(best)

(* Mutant: the opening phase starts over at career discovery.              *)
GateOpeningFromCareer ==
    /\ parent = "gate"
    /\ CanContinue
    /\ Launch("downstream", Career, StageCount, DownstreamRerun, TRUE)
    /\ UNCHANGED <<disk, ledger, req, first, best>>

GateOpening ==
    /\ parent = "gate"
    /\ CanContinue
    /\ Launch("downstream", Opening, StageCount, DownstreamRerun, TRUE)
    /\ UNCHANGED <<disk, ledger, req, first, best>>

DownstreamReturned ==
    /\ parent = "downstream"
    /\ ChildReturned
    /\ PublishResult(ctx)

DownstreamTimedOut ==
    /\ parent = "downstream"
    /\ IF Complete(Recovered) THEN PublishResult(Recovered)
                              ELSE PublishFailure(RecoveredOrBest)

DownstreamRaised ==
    /\ parent = "downstream"
    /\ PublishFailure(RecoveredOrBest)

(* The batch process dies; what is durable is what the disk holds.         *)
BatchCrash ==
    /\ parent # "idle"
    /\ EndAttempt
    /\ UNCHANGED ledger

-----------------------------------------------------------------------------
Batch ==
    \/ DropRetried \/ DropDone
    \/ RerunRefused \/ SelectUpstream \/ SelectDownstream
    \/ RouteExhausted \/ RouteDiscovery \/ RouteDownstream
    \/ GateStop \/ GateShort \/ GateOpening

Child ==
    \/ ChildInspect \/ ChildCut \/ ChildCutDone
    \/ \E class \in Classes, kept \in BOOLEAN : ChildRunStage(class, kept)

Outcome ==
    \/ UpstreamReturned \/ UpstreamTimedOut \/ UpstreamRaised
    \/ DiscoveryReturned \/ DiscoveryFailed
    \/ DownstreamReturned \/ DownstreamTimedOut \/ DownstreamRaised

Next ==
    \/ \E resume \in Resumes \cup {0}, rerun \in Reruns \cup {0},
          noResume \in BOOLEAN : Invoke(resume, rerun, noResume)
    \/ Batch
    \/ Child
    \/ Outcome
    \/ BatchCrash

Spec == Init /\ [][Next]_vars
-----------------------------------------------------------------------------
(* Properties *)

(* Whatever was killed, dropped, rerun or resumed, two neighbouring stage  *)
(* checkpoints on disk always belong together: the later stage ran on the  *)
(* very result the earlier file holds (save and invalidate_from).          *)
DiskCoherent == Coherent(disk)

(* The context a child computes on is one gapless chain: a restored prefix *)
(* never mixes runs and never skips a stage that produced nothing usable   *)
(* (inspect_checkpoint_prefix and the restore loop of ApplicationRunner).  *)
ContextCoherent == IsChain(ctx)

(* The durable completion, built from a returned, recovered or truncated   *)
(* result, is one gapless chain too (_record_company_completion,           *)
(* _recover_checkpoint_prefix, _completed_stage_prefix).                   *)
LedgerCoherent == IsChain(ledger.chain)

(* The three together: wherever the results of stages are kept, on disk,   *)
(* in a child or in the durable completion, neighbours come of one run.    *)
ResultsOfOneRun == DiskCoherent /\ ContextCoherent /\ LedgerCoherent

(* A failed stage of an earlier attempt is never reused: only the attempt  *)
(* that produced a negative result may carry it (same_attempt_continuation *)
(* in inspect_finalized_checkpoint_prefix).                                *)
NegativesAreOwn ==
    \A t \in Stages : ctx[t].class = "negative" => ctx[t].phase > first

(* What ties the child's context to the files it shares with the parent:   *)
(* restored or saved stages are the ones on disk, and once the child runs  *)
(* stages nothing on disk is later than its context.                       *)
ChildInv ==
    /\ IsChain(ctx)
    /\ child.pc # "none" => parent \in {"upstream", "discovery", "downstream"}
    /\ child.pc \in {"none", "inspect", "raised"} => ctx = NoChain
    /\ child.pc \in {"cut", "run"} =>
          \A t \in Stages : ctx[t] # Absent <=> t < child.next
    /\ child.pc = "cut" =>
          \A t \in Stages : t < child.next => ctx[t] = disk[t]
    /\ child.pc = "run" =>
          \A t \in Stages : disk[t] = ctx[t] \/ disk[t] = Absent

(* The inductive invariant behind the three coherence properties.          *)
IInv ==
    /\ TypeOK
    /\ Coherent(disk)
    /\ IsChain(best)
    /\ IsChain(ledger.chain)
    /\ ChildInv

Running == parent # "idle"
Asked == IF req.retry # 0 THEN req.retry
         ELSE IF req.resume # 0 THEN req.resume
         ELSE IF req.rerun # 0 THEN req.rerun ELSE 1

(* An attempt never destroys a reusable prefix it was told to keep: the    *)
(* stages before the one it retries, resumes or reruns from stay on disk   *)
(* (invalidate_from is always called at or after the effective start).     *)
PrefixKept ==
    [][\A t \in Stages :
          (Running /\ t < Asked /\ Authoritative(disk)[t] # Absent)
              => disk'[t] = disk[t]]_vars

(* What the opening phase of an explicit S4 or S5 rerun computes a second  *)
(* time: its child starts at the stage that was named once more.           *)
StartedOver(t) ==
    parent = "downstream" /\ DownstreamRerun # 0 /\ DownstreamRerun <= t

(* A reusable stage executed and saved in this attempt survives the later  *)
(* phases of the same attempt (split discovery and opening phases), unless *)
(* an explicit rerun of a downstream stage starts over at or before it.    *)
OwnWorkKept ==
    [][\A t \in Stages :
          (/\ Authoritative(disk)[t] # Absent
           /\ disk[t].phase > first
           /\ ~StartedOver(t)) => disk'[t] = disk[t]]_vars

(* A complete result published by an automatic retry has recomputed the    *)
(* stage whose failure is being retried: the old outcome cannot come back  *)
(* through parent recovery (DropRetried precedes the first child).         *)
RetryIsFresh ==
    [][(ledger' # ledger /\ req.retry # 0 /\ Complete(ledger'.chain))
          => \A t \in req.retry..StageCount :
                ledger'.chain[t].phase > first]_vars

(* --rerun-stage: "Invalidate this stage and downstream checkpoints, then  *)
(* recompute them."  A complete result published by an explicit rerun      *)
(* holds only recomputed stages from the rerun stage on.                   *)
RerunIsFresh ==
    [][(ledger' # ledger /\ req.rerun # 0 /\ Complete(ledger'.chain))
          => \A t \in req.rerun..StageCount :
                ledger'.chain[t].phase > first]_vars

(* The reusable prefix on disk implements the abstract chain.              *)
Reusable == INSTANCE ReusableChain WITH chain <- Authoritative(disk)
ImplementsChain == Reusable!Spec
=============================================================================
