-------------------------- MODULE CompanyRun_proofs --------------------------
(***************************************************************************)
(* What CompanyRun guarantees for every number of stages, every split into *)
(* phases, every set of resume and rerun stages and every bound.           *)
(***************************************************************************)
EXTENDS CompanyRun, TLAPS

LEMMA AbsentIsSlot == Absent \in Slots
  BY DEF Absent, Slots

LEMMA NoChainIsChain == NoChain \in Chains /\ IsChain(NoChain)
  <1>1. NoChain \in Chains
    BY AbsentIsSlot DEF NoChain, Chains
  <1>2. IsChain(NoChain)
    BY DEF NoChain, IsChain, Coherent
  <1> QED BY <1>1, <1>2

LEMMA StageNumbers ==
    /\ Stages \subseteq Nat
    /\ End \in Nat
    /\ Career \in Stages /\ Board \in Stages /\ Opening \in Stages
    /\ StageCount \in Stages /\ UpstreamLast \in Stages
    /\ 1 \in Stages
  BY StageAssumption DEF Stages, End, Career, Board, Opening

-----------------------------------------------------------------------------
(* The operators of CheckpointPrefix keep chains chains. *)

(* Nothing absent is ever accepted, finalized or not (_validate_checkpoint). *)
LEMMA AcceptedIsPresent ==
  ASSUME NEW slot, NEW finalized, Accepts(slot, finalized)
  PROVE  slot # Absent
  BY DEF Accepts, Absent

(* What parent recovery reads from coherent files is a gapless chain.      *)
LEMMA AuthoritativeIsChain ==
  ASSUME NEW store \in Chains, Coherent(store)
  PROVE  Authoritative(store) \in Chains /\ IsChain(Authoritative(store))
  <1> DEFINE A == Authoritative(store)
  <1>1. A \in Chains
    BY AbsentIsSlot DEF Authoritative, Chains
  <1>2. \A t \in Stages : A[t] # Absent =>
            /\ A[t] = store[t]
            /\ \A u \in Stages : u <= t => Accepts(store[u], FALSE)
    BY DEF Authoritative
  <1>3. \A t, u \in Stages : (u = t + 1 /\ A[u] # Absent) => A[t] # Absent
    <2> SUFFICES ASSUME NEW t \in Stages, NEW u \in Stages,
                        u = t + 1, A[u] # Absent
                 PROVE  A[t] # Absent
      OBVIOUS
    <2>1. \A v \in Stages : v <= t => Accepts(store[v], FALSE)
      BY <1>2, StageAssumption DEF Stages, Accepts
    <2>2. A[t] = store[t]
      BY <2>1 DEF Authoritative
    <2>3. Accepts(store[t], FALSE)
      BY <2>1, StageAssumption DEF Stages, Accepts
    <2> QED BY <2>2, <2>3, AcceptedIsPresent
  <1>4. Coherent(A)
    BY <1>2 DEF Coherent
  <1> QED BY <1>1, <1>3, <1>4 DEF IsChain

(* What an inspection restores before its effective start is a gapless     *)
(* chain that holds every stage before that start.                         *)
LEMMA RestoredIsChain ==
  ASSUME NEW store \in Chains, Coherent(store),
         NEW asked \in Nat, NEW finalized \in BOOLEAN, NEW eff,
         IsEffectiveStart(store, asked, finalized, eff)
  PROVE  /\ Before(store, eff) \in Chains
         /\ IsChain(Before(store, eff))
         /\ \A t \in Stages : Before(store, eff)[t] # Absent <=> t < eff
  <1> DEFINE B == Before(store, eff)
  <1>1. B \in Chains
    BY AbsentIsSlot DEF Before, Chains
  <1>2. \A t \in Stages : t < eff => store[t] # Absent
    BY AcceptedIsPresent DEF IsEffectiveStart
  <1>3. \A t \in Stages : B[t] # Absent <=> t < eff
    BY <1>2 DEF Before
  <1>4. \A t \in Stages : t < eff => B[t] = store[t]
    BY DEF Before
  <1>5. eff \in Nat
    BY DEF IsEffectiveStart
  <1>6. Coherent(B)
    BY <1>3, <1>4 DEF Coherent
  <1>7. \A t, u \in Stages : (u = t + 1 /\ B[u] # Absent) => B[t] # Absent
    BY <1>3, <1>5, StageNumbers
  <1> QED BY <1>1, <1>3, <1>6, <1>7 DEF IsChain

(* Truncating a result for a reported failure keeps it a gapless chain.    *)
LEMMA FailurePrefixIsChain ==
  ASSUME NEW chain \in Chains, IsChain(chain)
  PROVE  FailurePrefix(chain) \in Chains /\ IsChain(FailurePrefix(chain))
  <1> DEFINE F == FailurePrefix(chain)
  <1>1. F \in Chains
    BY AbsentIsSlot DEF FailurePrefix, Chains
  <1>2. \A t \in Stages : F[t] # Absent =>
            /\ F[t] = chain[t]
            /\ t < StageCount
            /\ \A u \in Stages : u <= t => Succeeded(chain[u])
    BY DEF FailurePrefix
  <1>3. \A t, u \in Stages : (u = t + 1 /\ F[u] # Absent) => F[t] # Absent
    <2> SUFFICES ASSUME NEW t \in Stages, NEW u \in Stages,
                        u = t + 1, F[u] # Absent
                 PROVE  F[t] # Absent
      OBVIOUS
    <2>1. t < StageCount /\ \A v \in Stages : v <= t => Succeeded(chain[v])
      BY <1>2, StageNumbers, StageAssumption DEF Stages
    <2>2. F[t] = chain[t]
      BY <2>1 DEF FailurePrefix
    <2>3. chain[t] # Absent
      BY <1>2, <2>1 DEF IsChain
    <2> QED BY <2>2, <2>3
  <1>4. Coherent(F)
    BY <1>2 DEF Coherent, IsChain
  <1> QED BY <1>1, <1>3, <1>4 DEF IsChain

(* Deleting one file cannot make neighbours disagree.                      *)
LEMMA UnlinkKeepsCoherence ==
  ASSUME NEW store \in Chains, Coherent(store), NEW t \in Stages
  PROVE  LET cut == [store EXCEPT ![t] = Absent]
         IN cut \in Chains /\ Coherent(cut)
  BY AbsentIsSlot DEF Chains, Coherent

-----------------------------------------------------------------------------
(* The invariant is inductive. *)

LEMMA InitInv == Init => IInv
  <1> SUFFICES ASSUME Init PROVE IInv
    OBVIOUS
  <1>1. TypeOK
    BY NoChainIsChain, StageNumbers, StageAssumption
       DEF Init, TypeOK, NoLedger, NoRequest, NoChild, ParentPcs, ChildPcs,
           Stages, End
  <1>2. ChildInv
    BY NoChainIsChain DEF Init, ChildInv, NoChild
  <1> QED
    BY <1>1, <1>2, NoChainIsChain DEF Init, IInv, NoLedger, IsChain

(* Publishing or losing an attempt leaves only the files and the ledger.   *)
LEMMA EndAttemptKeepsInv ==
  ASSUME IInv, EndAttempt,
         ledger' \in [action : {"none", "restore", "retry"},
                      stage : Stages, chain : Chains],
         IsChain(ledger'.chain)
  PROVE  IInv'
  <1>1. TypeOK'
    BY NoChainIsChain, StageNumbers, StageAssumption
       DEF IInv, TypeOK, EndAttempt, NoRequest, NoChild, ParentPcs, ChildPcs,
           Stages, End
  <1>2. ChildInv'
    BY NoChainIsChain DEF EndAttempt, ChildInv, NoChild
  <1> QED
    BY <1>1, <1>2, NoChainIsChain DEF IInv, EndAttempt

LEMMA PublishResultKeepsInv ==
  ASSUME IInv, NEW chain \in Chains, IsChain(chain), PublishResult(chain)
  PROVE  IInv'
  <1>1. EndAttempt
    BY DEF PublishResult
  <1>2. PICK action \in {"restore", "retry"}, s \in Stages :
          ledger' = [action |-> action, stage |-> s, chain |-> chain]
    BY DEF PublishResult
  <1> QED BY <1>1, <1>2, EndAttemptKeepsInv

LEMMA PublishFailureKeepsInv ==
  ASSUME IInv, NEW chain \in Chains, IsChain(chain), PublishFailure(chain)
  PROVE  IInv'
  <1>1. EndAttempt
    BY DEF PublishFailure
  <1>2. PICK action \in {"restore", "retry"}, s \in Stages :
          ledger' = [action |-> action, stage |-> s,
                     chain |-> FailurePrefix(chain)]
    BY DEF PublishFailure
  <1> QED BY <1>1, <1>2, EndAttemptKeepsInv, FailurePrefixIsChain

(* A new phase starts with an empty context and leaves the files alone.    *)
LEMMA LaunchKeepsInv ==
  ASSUME IInv,
         NEW pc \in {"upstream", "discovery", "downstream"},
         NEW start \in Stages, NEW stop \in Stages,
         NEW rerun \in 0..StageCount, NEW finalized \in BOOLEAN,
         Launch(pc, start, stop, rerun, finalized),
         req' \in [retry : 0..StageCount, resume : 0..StageCount,
                   rerun : 0..StageCount, sel : 0..StageCount],
         first' \in Nat,
         UNCHANGED <<disk, ledger, best>>
  PROVE  IInv'
  <1>1. child' \in [pc : ChildPcs, next : 1..End, stop : Stages,
                    finalized : BOOLEAN, strict : BOOLEAN]
    <2>1. (IF rerun # 0 THEN rerun ELSE start) \in 1..End
      BY StageAssumption DEF Stages, End
    <2>2. (rerun # 0) \in BOOLEAN
      OBVIOUS
    <2> QED BY <2>1, <2>2 DEF Launch, ChildPcs
  <1>2. TypeOK'
    BY <1>1, NoChainIsChain DEF IInv, TypeOK, Launch, ParentPcs
  <1>3. ChildInv'
    BY NoChainIsChain DEF Launch, ChildInv
  <1> QED BY <1>2, <1>3 DEF IInv

LEMMA RecoveredIsChain ==
  ASSUME IInv
  PROVE  /\ Recovered \in Chains /\ IsChain(Recovered)
         /\ RecoveredOrBest \in Chains /\ IsChain(RecoveredOrBest)
  <1>1. Recovered \in Chains /\ IsChain(Recovered)
    BY AuthoritativeIsChain DEF IInv, TypeOK, Recovered
  <1> QED BY <1>1 DEF IInv, TypeOK, RecoveredOrBest

-----------------------------------------------------------------------------
(* The child *)

LEMMA ChildInspectKeepsInv == IInv /\ ChildInspect => IInv'
  <1> SUFFICES ASSUME IInv, ChildInspect PROVE IInv'
    OBVIOUS
  <1>1. PICK eff \in Stages :
          /\ IsEffectiveStart(disk, child.next, child.finalized, eff)
          /\ IF child.strict /\ eff # child.next
             THEN child' = [child EXCEPT !.pc = "raised"] /\ ctx' = ctx
             ELSE /\ child' = [child EXCEPT !.pc = "cut", !.next = eff]
                  /\ ctx' = Before(disk, eff)
    BY DEF ChildInspect
  <1>2. CASE child.strict /\ eff # child.next
    <2>1. TypeOK'
      BY <1>1, <1>2 DEF IInv, TypeOK, ChildInspect, ChildPcs
    <2>2. ChildInv'
      BY <1>1, <1>2 DEF IInv, TypeOK, ChildInspect, ChildInv, ChildPcs
    <2> QED BY <2>1, <2>2 DEF IInv, ChildInspect
  <1>3. CASE ~(child.strict /\ eff # child.next)
    <2>1. /\ ctx' \in Chains
          /\ IsChain(ctx')
          /\ \A t \in Stages : ctx'[t] # Absent <=> t < eff
      <3>1. child.next \in Nat /\ child.finalized \in BOOLEAN
        BY StageNumbers DEF IInv, TypeOK
      <3> QED BY <1>1, <1>3, <3>1, RestoredIsChain DEF IInv, TypeOK
    <2>2. child' = [child EXCEPT !.pc = "cut", !.next = eff]
      BY <1>1, <1>3
    <2>3. eff \in 1..End
      BY StageAssumption DEF Stages, End
    <2>4. /\ child' \in [pc : ChildPcs, next : 1..End, stop : Stages,
                         finalized : BOOLEAN, strict : BOOLEAN]
          /\ child'.pc = "cut" /\ child'.next = eff
      BY <2>2, <2>3 DEF IInv, TypeOK, ChildPcs
    <2>8. TypeOK'
      BY <2>1, <2>4 DEF IInv, TypeOK, ChildInspect
    <2>5. \A t \in Stages : t < eff => ctx'[t] = disk'[t]
      BY <1>1, <1>3 DEF ChildInspect, Before
    <2>6. child'.pc # "none" => parent' \in {"upstream", "discovery", "downstream"}
      BY DEF IInv, ChildInv, ChildInspect
    <2>7. ChildInv'
      BY <2>1, <2>4, <2>5, <2>6 DEF ChildInv
    <2> QED BY <2>7, <2>8 DEF IInv, ChildInspect
  <1> QED BY <1>2, <1>3

LEMMA ChildCutKeepsInv == IInv /\ ChildCut => IInv'
  <1> SUFFICES ASSUME IInv, ChildCut PROVE IInv'
    OBVIOUS
  <1>1. PICK t \in Stages :
          child.next <= t /\ disk' = [disk EXCEPT ![t] = Absent]
    BY DEF ChildCut, UnlinkNext
  <1>2. disk' \in Chains /\ Coherent(disk')
    BY <1>1, UnlinkKeepsCoherence DEF IInv, TypeOK
  <1>3. TypeOK'
    BY <1>2 DEF IInv, TypeOK, ChildCut
  <1>4. ChildInv'
    <2>1. \A u \in Stages : u < child.next => disk'[u] = disk[u]
      BY <1>1, StageNumbers DEF IInv, TypeOK, Chains
    <2> QED BY <2>1 DEF IInv, ChildInv, ChildCut
  <1> QED BY <1>2, <1>3, <1>4 DEF IInv, ChildCut

LEMMA ChildCutDoneKeepsInv == IInv /\ ChildCutDone => IInv'
  <1> SUFFICES ASSUME IInv, ChildCutDone PROVE IInv'
    OBVIOUS
  <1>1. TypeOK' /\ child'.pc = "run" /\ child'.next = child.next
    BY DEF IInv, TypeOK, ChildCutDone, ChildPcs
  <1>2. \A t \in Stages : disk'[t] = ctx'[t] \/ disk'[t] = Absent
    <2> SUFFICES ASSUME NEW t \in Stages
                 PROVE  disk[t] = ctx[t] \/ disk[t] = Absent
      BY DEF ChildCutDone
    <2>1. t < child.next \/ child.next <= t
      BY StageNumbers DEF IInv, TypeOK
    <2> QED BY <2>1 DEF IInv, ChildInv, ChildCutDone, InvalidatedFrom
  <1>3. ChildInv'
    BY <1>1, <1>2 DEF IInv, ChildInv, ChildCutDone
  <1> QED BY <1>1, <1>3 DEF IInv, ChildCutDone

(* The step that writes: stage s runs on ctx[s - 1], nothing later exists. *)
LEMMA ChildRunStageKeepsInv ==
  ASSUME IInv, NEW class \in Classes, NEW kept \in BOOLEAN,
         ChildRunStage(class, kept)
  PROVE  IInv'
  <1> DEFINE s == child.next
             base == IF s = 1 THEN 0 ELSE ctx[s - 1].phase
             execution == [phase |-> phases, base |-> base, class |-> class]
  <1>1. /\ ctx' = [ctx EXCEPT ![s] = execution]
        /\ disk' = [disk EXCEPT ![s] = IF kept THEN execution ELSE Absent]
        /\ child' = [child EXCEPT !.next = s + 1]
        /\ child.pc = "run"
        /\ UNCHANGED <<ledger, parent, req, first, phases, best>>
    BY DEF ChildRunStage
  <1>2. s \in Stages /\ s \in Nat /\ s + 1 \in 1..End
    BY StageAssumption DEF ChildRunStage, IInv, TypeOK, Stages, End
  <1>3. s # 1 => s - 1 \in Stages
    BY <1>2, StageAssumption DEF Stages
  <1>4. execution \in Slots
    <2>1. base \in Nat
      BY <1>3 DEF IInv, TypeOK, Chains, Slots
    <2> QED BY <2>1 DEF IInv, TypeOK, Slots
  <1>5. execution # Absent
    BY DEF Absent, Classes
  <1>6. ctx' \in Chains /\ disk' \in Chains
    BY <1>1, <1>4, AbsentIsSlot DEF IInv, TypeOK, Chains
  <1>7. /\ ctx'[s] = execution
        /\ disk'[s] = execution \/ disk'[s] = Absent
        /\ \A t \in Stages : t # s => ctx'[t] = ctx[t] /\ disk'[t] = disk[t]
    BY <1>1, <1>2 DEF IInv, TypeOK, Chains
  <1>8. \A t \in Stages : ctx[t] # Absent <=> t < s
    BY <1>1 DEF IInv, ChildInv
  <1>9. \A t \in Stages : ctx'[t] # Absent <=> t < s + 1
    BY <1>2, <1>5, <1>7, <1>8, StageNumbers
  <1>10. execution.base = base
    OBVIOUS
  <1>11. Coherent(ctx')
    <2> SUFFICES ASSUME NEW t \in Stages, NEW u \in Stages, u = t + 1,
                        ctx'[t] # Absent, ctx'[u] # Absent
                 PROVE  ctx'[u].base = ctx'[t].phase
      BY DEF Coherent
    <2>1. CASE u = s
      <3>1. t # s /\ s # 1 /\ s - 1 = t
        BY <2>1, StageAssumption DEF Stages
      <3>2. base = ctx[t].phase
        BY <3>1
      <3> QED BY <2>1, <3>1, <3>2, <1>7, <1>10
    <2>2. CASE u # s
      <3>1. u < s /\ t < s
        BY <2>2, <1>2, <1>9, StageNumbers
      <3>2. ctx'[u] = ctx[u] /\ ctx'[t] = ctx[t]
        BY <3>1, <1>7, <1>2, StageNumbers
      <3> QED BY <3>2 DEF IInv, ChildInv, IsChain, Coherent
    <2> QED BY <2>1, <2>2
  <1>12. IsChain(ctx')
    BY <1>9, <1>11, <1>2, StageNumbers DEF IsChain
  <1>13. \A t \in Stages : disk'[t] = ctx'[t] \/ disk'[t] = Absent
    BY <1>1, <1>7 DEF IInv, ChildInv
  <1>14. Coherent(disk')
    BY <1>11, <1>13 DEF Coherent
  <1>15. TypeOK'
    BY <1>1, <1>2, <1>6 DEF IInv, TypeOK
  <1>16. child'.pc = "run" /\ child'.next = s + 1
    BY <1>1 DEF IInv, TypeOK
  <1>17. ChildInv'
    BY <1>1, <1>9, <1>12, <1>13, <1>16 DEF IInv, ChildInv
  <1> QED BY <1>1, <1>14, <1>15, <1>17 DEF IInv

-----------------------------------------------------------------------------
(* The batch parent *)

LEMMA InvokeKeepsInv ==
  ASSUME IInv, NEW resume \in Resumes \cup {0}, NEW rerun \in Reruns \cup {0},
         NEW noResume \in BOOLEAN, Invoke(resume, rerun, noResume)
  PROVE  IInv'
  <1>1. /\ req' \in [retry : 0..StageCount, resume : 0..StageCount,
                     rerun : 0..StageCount, sel : 0..StageCount]
        /\ parent' \in {"drop", "select"}
        /\ parent = "idle"
        /\ UNCHANGED <<disk, ledger, first, phases, best, child, ctx>>
    BY StageAssumption, RunAssumption
       DEF Invoke, IInv, TypeOK, Stages, Opening
  <1>2. TypeOK'
    BY <1>1 DEF IInv, TypeOK, ParentPcs
  <1>3. ChildInv'
    BY <1>1 DEF IInv, ChildInv
  <1> QED BY <1>1, <1>2, <1>3 DEF IInv

LEMMA DropKeepsInv == IInv /\ (DropRetried \/ DropDone) => IInv'
  <1> SUFFICES ASSUME IInv PROVE DropRetried \/ DropDone => IInv'
    OBVIOUS
  <1>1. ASSUME DropRetried PROVE IInv'
    <2>1. PICK t \in Stages : disk' = [disk EXCEPT ![t] = Absent]
      BY <1>1 DEF DropRetried, UnlinkNext
    <2>2. disk' \in Chains /\ Coherent(disk')
      BY <2>1, UnlinkKeepsCoherence DEF IInv, TypeOK
    <2>3. TypeOK'
      BY <1>1, <2>2 DEF IInv, TypeOK, DropRetried
    <2>4. child.pc = "none"
      BY <1>1 DEF IInv, ChildInv, DropRetried
    <2>5. ChildInv'
      BY <1>1, <2>4 DEF IInv, ChildInv, DropRetried
    <2> QED BY <1>1, <2>2, <2>3, <2>5 DEF IInv, DropRetried
  <1>2. ASSUME DropDone PROVE IInv'
    <2>1. TypeOK'
      BY <1>2 DEF IInv, TypeOK, DropDone, ParentPcs
    <2>2. ChildInv'
      BY <1>2 DEF IInv, ChildInv, DropDone
    <2> QED BY <1>2, <2>1, <2>2 DEF IInv, DropDone
  <1> QED BY <1>1, <1>2

LEMMA SelectKeepsInv == IInv /\ (SelectUpstream \/ SelectDownstream) => IInv'
  <1> SUFFICES ASSUME IInv PROVE SelectUpstream \/ SelectDownstream => IInv'
    OBVIOUS
  <1>0. phases \in Nat
    BY DEF IInv, TypeOK
  <1>1. ASSUME SelectUpstream PROVE IInv'
    <2>1. PICK sel \in 0..UpstreamLast :
            /\ req' = [req EXCEPT !.sel = sel]
            /\ Launch("upstream", IF sel = 0 THEN 1 ELSE sel, UpstreamLast,
                      UpstreamRerun, FALSE)
      BY <1>1 DEF SelectUpstream
    <2>2. (IF sel = 0 THEN 1 ELSE sel) \in Stages
      BY StageAssumption DEF Stages
    <2>3. UpstreamRerun \in 0..StageCount
      BY StageAssumption DEF IInv, TypeOK, UpstreamRerun
    <2>4. req' \in [retry : 0..StageCount, resume : 0..StageCount,
                    rerun : 0..StageCount, sel : 0..StageCount]
      <3>1. sel \in 0..StageCount
        BY StageAssumption
      <3> QED BY <2>1, <3>1 DEF IInv, TypeOK
    <2>5. first' \in Nat /\ UNCHANGED <<disk, ledger, best>>
      BY <1>0, <1>1 DEF SelectUpstream
    <2> DEFINE start == IF sel = 0 THEN 1 ELSE sel
    <2> HIDE DEF start
    <2>6. Launch("upstream", start, UpstreamLast, UpstreamRerun, FALSE)
      BY <2>1 DEF start
    <2>7. start \in Stages
      BY <2>2 DEF start
    <2> QED BY <2>3, <2>4, <2>5, <2>6, <2>7, StageNumbers, LaunchKeepsInv
  <1>2. ASSUME SelectDownstream PROVE IInv'
    <2>1. PICK sel \in Career..StageCount : req' = [req EXCEPT !.sel = sel]
      BY <1>2 DEF SelectDownstream
    <2>2. sel \in 0..StageCount
      BY StageAssumption DEF Career
    <2>3. TypeOK'
      BY <1>0, <1>2, <2>1, <2>2 DEF IInv, TypeOK, SelectDownstream, ParentPcs
    <2>4. child.pc = "none"
      BY <1>2 DEF IInv, ChildInv, SelectDownstream
    <2>5. ChildInv'
      BY <1>2, <2>4 DEF IInv, ChildInv, SelectDownstream
    <2> QED BY <1>2, <2>3, <2>5 DEF IInv, SelectDownstream
  <1> QED BY <1>1, <1>2

(* Routing and the gate launch a phase or publish a truncated result.      *)
LEMMA RouteKeepsInv ==
  IInv /\ (RouteDiscovery \/ RouteDownstream \/ GateOpening) => IInv'
  <1> SUFFICES ASSUME IInv,
                      RouteDiscovery \/ RouteDownstream \/ GateOpening
               PROVE  IInv'
    OBVIOUS
  <1>1. DownstreamRerun \in 0..StageCount
    BY StageAssumption DEF IInv, TypeOK, DownstreamRerun
  <1>2. UNCHANGED <<disk, ledger, req, first, best>>
    BY DEF RouteDiscovery, RouteDownstream, GateOpening
  <1>3. /\ first' \in Nat
        /\ req' \in [retry : 0..StageCount, resume : 0..StageCount,
                     rerun : 0..StageCount, sel : 0..StageCount]
    BY <1>2 DEF IInv, TypeOK
  <1>4. PICK pc \in {"upstream", "discovery", "downstream"},
             start \in Stages, stop \in Stages :
          Launch(pc, start, stop, DownstreamRerun, TRUE)
    <2>1. CASE RouteDiscovery
      <3>1. 1..Board \subseteq Stages
        BY StageAssumption DEF Board, Stages
      <3> QED BY <2>1, <3>1, StageNumbers DEF RouteDiscovery
    <2>2. CASE RouteDownstream
      BY <2>2, StageNumbers DEF RouteDownstream
    <2>3. CASE GateOpening
      BY <2>3, StageNumbers DEF GateOpening
    <2> QED BY <2>1, <2>2, <2>3
  <1> QED BY <1>1, <1>2, <1>3, <1>4, LaunchKeepsInv

LEMMA PublishKeepsInv ==
  /\ IInv
  /\ RerunRefused \/ RouteExhausted \/ GateStop \/ GateShort
  => IInv'
  <1> SUFFICES ASSUME IInv,
                      RerunRefused \/ RouteExhausted \/ GateStop \/ GateShort
               PROVE  IInv'
    OBVIOUS
  <1>1. best \in Chains /\ IsChain(best)
    BY DEF IInv, TypeOK
  <1>2. \/ PublishFailure(NoChain) \/ PublishFailure(best)
        \/ PublishResult(best)
    BY DEF RerunRefused, RouteExhausted, GateStop, GateShort
  <1> QED BY <1>1, <1>2, NoChainIsChain, PublishResultKeepsInv,
             PublishFailureKeepsInv

(* A returned phase hands its context over; a killed or failed one hands   *)
(* over what recovery reads from the files.                                *)
LEMMA OutcomeKeepsInv == IInv /\ Outcome => IInv'
  <1> SUFFICES ASSUME IInv, Outcome PROVE IInv'
    OBVIOUS
  <1>1. ctx \in Chains /\ IsChain(ctx)
    BY DEF IInv, TypeOK, ChildInv
  <1>2. CASE \/ PublishResult(ctx) \/ PublishResult(Recovered)
             \/ PublishFailure(Recovered) \/ PublishFailure(RecoveredOrBest)
    BY <1>1, <1>2, RecoveredIsChain, PublishResultKeepsInv,
       PublishFailureKeepsInv
  <1>3. CASE /\ parent' \in {"route", "gate"}
             /\ best' = ctx \/ best' = Recovered
             /\ child' = NoChild
             /\ ctx' = NoChain
             /\ UNCHANGED <<disk, ledger, req, first, phases>>
    <2>1. best' \in Chains /\ IsChain(best')
      BY <1>1, <1>3, RecoveredIsChain
    <2>2. TypeOK'
      BY <1>3, <2>1, NoChainIsChain, StageNumbers, StageAssumption
         DEF IInv, TypeOK, NoChild, ParentPcs, ChildPcs, Stages, End
    <2>3. ChildInv'
      BY <1>3, NoChainIsChain DEF ChildInv, NoChild
    <2> QED BY <1>3, <2>1, <2>2, <2>3 DEF IInv
  <1> QED
    BY <1>2, <1>3
       DEF Outcome, UpstreamReturned, UpstreamTimedOut, UpstreamRaised,
           DiscoveryReturned, DiscoveryFailed, DownstreamReturned,
           DownstreamTimedOut, DownstreamRaised

LEMMA BatchCrashKeepsInv == IInv /\ BatchCrash => IInv'
  BY EndAttemptKeepsInv DEF IInv, TypeOK, BatchCrash

LEMMA StutterKeepsInv == IInv /\ UNCHANGED vars => IInv'
  BY DEF IInv, TypeOK, ChildInv, vars

THEOREM Inductive == Spec => []IInv
  <1>1. IInv /\ [Next]_vars => IInv'
    <2> SUFFICES ASSUME IInv, [Next]_vars PROVE IInv'
      OBVIOUS
    <2>1. CASE \E resume \in Resumes \cup {0}, rerun \in Reruns \cup {0},
                  noResume \in BOOLEAN : Invoke(resume, rerun, noResume)
      BY <2>1, InvokeKeepsInv
    <2>2. CASE Batch
      BY <2>2, DropKeepsInv, SelectKeepsInv, RouteKeepsInv, PublishKeepsInv
         DEF Batch
    <2>3. CASE Child
      BY <2>3, ChildInspectKeepsInv, ChildCutKeepsInv, ChildCutDoneKeepsInv,
         ChildRunStageKeepsInv DEF Child
    <2>4. CASE Outcome
      BY <2>4, OutcomeKeepsInv
    <2>5. CASE BatchCrash
      BY <2>5, BatchCrashKeepsInv
    <2>6. CASE UNCHANGED vars
      BY <2>6, StutterKeepsInv
    <2> QED BY <2>1, <2>2, <2>3, <2>4, <2>5, <2>6 DEF Next
  <1> QED BY <1>1, InitInv, PTL DEF Spec

-----------------------------------------------------------------------------
(* Type correctness of the batch, its child and their files.               *)
THEOREM TypeCorrect == Spec => []TypeOK
  <1>1. IInv => TypeOK
    BY DEF IInv
  <1> QED BY <1>1, Inductive, PTL

(* Kills between the unlinks of an invalidation, between two saves or      *)
(* before a phase writes anything never leave neighbouring checkpoint      *)
(* files of different runs; what an ApplicationRunner restores and         *)
(* computes on, and whatever a batch completion stores, returned,          *)
(* recovered after a kill or truncated, is a gapless prefix of one run.    *)
THEOREM ResultsAreOneRun == Spec => []ResultsOfOneRun
  <1>1. IInv => DiskCoherent
    BY DEF IInv, DiskCoherent
  <1>2. IInv => ContextCoherent
    BY DEF IInv, ChildInv, ContextCoherent
  <1>3. IInv => LedgerCoherent
    BY DEF IInv, LedgerCoherent
  <1>4. IInv => ResultsOfOneRun
    BY <1>1, <1>2, <1>3 DEF ResultsOfOneRun
  <1> QED BY <1>4, Inductive, PTL

-----------------------------------------------------------------------------
(* What an attempt keeps, and what it may not reuse *)

PhasePcs == {"upstream", "discovery", "downstream"}

(* The opening phase of an explicit downstream rerun starts over at the    *)
(* stage that was named.                                                   *)
StartsOver == parent = "downstream" /\ DownstreamRerun # 0

(* Where an attempt stands: its request, its start and its phases.         *)
PhaseInv ==
    /\ req.rerun \in Reruns \cup {0}
    /\ req.rerun # 0 => req.retry = 0 /\ req.resume = 0
    /\ first <= phases
    /\ \A t \in Stages : disk[t].phase <= phases
    /\ parent \in {"idle", "drop", "select"} => first = phases /\ best = NoChain
    /\ parent = "drop" => req.retry # 0
    /\ parent \in {"route", "gate"} \cup PhasePcs =>
          /\ req.rerun # 0 => req.sel = req.rerun
          /\ req.rerun = Opening => parent \in {"route", "downstream"}
    /\ parent \in PhasePcs => first < phases /\ child.pc # "none"
    /\ parent = "upstream" =>
          req.sel <= UpstreamLast /\ child.stop = UpstreamLast /\ ~child.finalized
    /\ parent = "discovery" => child.stop = Board
    /\ parent \in {"upstream", "discovery"} =>
          /\ child.next <= child.stop + 1
          /\ child.pc # "run" => child.next <= child.stop

(* Before the downstream phases nothing is on disk from S4 on, or the      *)
(* start that was selected still stands as the inspection found it.        *)
RouteInv ==
    parent = "route" =>
        IF req.sel <= UpstreamLast
        THEN \A t \in Stages : Career <= t => disk[t] = Absent
        ELSE /\ IsEffectiveStart(disk, Asked, FALSE, req.sel)
             /\ \A t \in Stages : disk[t].phase <= first

(* A checkpoint parent recovery would read, and one of this attempt.       *)
Restorable(t) == Authoritative(disk)[t] # Absent
Own(t) == Restorable(t) /\ disk[t].phase > first

(* From stage n on there is nothing that is to be kept, nothing own.       *)
NoneKeptFrom(n) == \A t \in Stages : n <= t /\ t < Asked => ~Restorable(t)
NoneOwnFrom(n)  == \A t \in Stages : n <= t => ~Own(t)

Cutting == child.pc \in {"inspect", "cut", "raised"}

KeepInv ==
    /\ Cutting => NoneKeptFrom(child.next)
    /\ parent = "gate" => NoneKeptFrom(Opening)
    /\ Cutting /\ ~StartsOver => NoneOwnFrom(child.next)
    /\ parent = "gate" => NoneOwnFrom(Opening)

(* What a retry may publish from the retried stage on is absent or new.    *)
NewFrom(n, chain) ==
    \A t \in Stages : n <= t => chain[t] = Absent \/ chain[t].phase > first

Gapless(chain) ==
    \A t, u \in Stages : t < u /\ chain[u] # Absent => chain[t] # Absent

FreshInv ==
    /\ Gapless(best)
    /\ req.retry # 0 /\ parent \notin {"idle", "drop"} =>
          /\ NewFrom(req.retry, disk)
          /\ NewFrom(req.retry, ctx)
          /\ NewFrom(req.retry, best)

(* A negative result before stage n was produced by this attempt.          *)
OwnNegatives(n, chain) ==
    \A t \in Stages : t < n /\ chain[t].class = "negative" => chain[t].phase > first

NegativeInv ==
    /\ NegativesAreOwn
    /\ child.pc = "inspect" /\ child.finalized => OwnNegatives(child.next, disk)
    /\ parent = "route" /\ req.sel <= UpstreamLast => OwnNegatives(End, disk)
    /\ parent = "gate" => OwnNegatives(Opening, disk)

AttemptInv == PhaseInv /\ RouteInv /\ KeepInv /\ FreshInv /\ NegativeInv

LEMMA Typed ==
  ASSUME IInv
  PROVE  /\ first \in Nat /\ phases \in Nat
         /\ \A t \in Stages : disk[t].phase \in Nat /\ ctx[t].phase \in Nat
                              /\ best[t].phase \in Nat
         /\ req.retry \in 0..StageCount /\ req.resume \in 0..StageCount
         /\ req.rerun \in 0..StageCount /\ req.sel \in 0..StageCount
         /\ child.next \in 1..End /\ child.stop \in Stages
         /\ Asked \in Stages
  <1>1. /\ first \in Nat /\ phases \in Nat
        /\ req.retry \in 0..StageCount /\ req.resume \in 0..StageCount
        /\ req.rerun \in 0..StageCount /\ req.sel \in 0..StageCount
        /\ child.next \in 1..End /\ child.stop \in Stages
    BY DEF IInv, TypeOK
  <1>2. \A chain \in Chains : \A t \in Stages : chain[t].phase \in Nat
    BY DEF Chains, Slots
  <1>3. disk \in Chains /\ ctx \in Chains /\ best \in Chains
    BY DEF IInv, TypeOK
  <1>4. Asked \in Stages
    BY <1>1, StageAssumption DEF Asked, Stages
  <1> QED BY <1>1, <1>2, <1>3, <1>4

(* What parent recovery reads, stage by stage.                             *)
LEMMA RestorableStages ==
  ASSUME NEW store, NEW t \in Stages
  PROVE  /\ Authoritative(store)[t] # Absent
              <=> \A u \in Stages : u <= t => Accepts(store[u], FALSE)
         /\ Authoritative(store)[t] # Absent => Authoritative(store)[t] = store[t]
  <1> DEFINE All == \A u \in Stages : u <= t => Accepts(store[u], FALSE)
  <1>1. Authoritative(store)[t] = IF All THEN store[t] ELSE Absent
    BY DEF Authoritative
  <1>2. ASSUME All PROVE store[t] # Absent
    <2>1. t <= t
      BY StageNumbers
    <2>2. Accepts(store[t], FALSE)
      BY <1>2, <2>1
    <2> QED BY <2>2, AcceptedIsPresent
  <1> HIDE DEF All
  <1>3. /\ Authoritative(store)[t] # Absent <=> All
        /\ Authoritative(store)[t] # Absent => Authoritative(store)[t] = store[t]
    BY <1>1, <1>2
  <1> QED BY <1>3 DEF All

(* A gap hides everything behind it.                                       *)
LEMMA GapHides ==
  ASSUME NEW store, NEW s \in Stages, ~Accepts(store[s], FALSE), NEW t \in Stages, s <= t
  PROVE  Authoritative(store)[t] = Absent
  BY RestorableStages

(* An inspection that starts earlier than asked met a gap there.           *)
LEMMA NothingBehindDefect ==
  ASSUME NEW store, NEW asked \in Nat, NEW finalized \in BOOLEAN,
         NEW eff \in Stages, IsEffectiveStart(store, asked, finalized, eff)
  PROVE  /\ eff <= asked
         /\ eff # asked => \A t \in Stages : eff <= t => Authoritative(store)[t] = Absent
         /\ \A t \in Stages : t < eff => Accepts(store[t], finalized)
  <1>1. eff <= asked
    BY DEF IsEffectiveStart
  <1>2. ASSUME eff # asked PROVE ~Accepts(store[eff], FALSE)
    BY <1>2 DEF IsEffectiveStart, Accepts
  <1> QED BY <1>1, <1>2, GapHides DEF IsEffectiveStart

(* Deleting a file adds nothing to what recovery reads.                    *)
LEMMA UnlinkShrinks ==
  ASSUME NEW store \in Chains, NEW k \in Stages, NEW cut,
         cut = [store EXCEPT ![k] = Absent]
  PROVE  \A t \in Stages :
            /\ cut[t] = store[t] \/ cut[t] = Absent
            /\ Authoritative(cut)[t] # Absent =>
                  Authoritative(store)[t] # Absent /\ cut[t] = store[t]
  <1>1. \A t \in Stages : cut[t] = IF t = k THEN Absent ELSE store[t]
    BY DEF Chains
  <1>2. \A fin : ~Accepts(Absent, fin)
    BY AcceptedIsPresent
  <1> SUFFICES ASSUME NEW t \in Stages
               PROVE  Authoritative(cut)[t] # Absent =>
                        Authoritative(store)[t] # Absent /\ cut[t] = store[t]
    BY <1>1
  <1>3. ASSUME Authoritative(cut)[t] # Absent
        PROVE  \A u \in Stages : u <= t => Accepts(cut[u], FALSE) /\ cut[u] = store[u]
    <2> SUFFICES ASSUME NEW u \in Stages, u <= t
                 PROVE  Accepts(cut[u], FALSE) /\ cut[u] = store[u]
      OBVIOUS
    <2>1. Accepts(cut[u], FALSE)
      BY <1>3, RestorableStages
    <2> QED BY <2>1, <1>1, <1>2
  <1> SUFFICES ASSUME Authoritative(cut)[t] # Absent
               PROVE  Authoritative(store)[t] # Absent /\ cut[t] = store[t]
    OBVIOUS
  <1>4. \A u \in Stages : u <= t => Accepts(store[u], FALSE) /\ cut[u] = store[u]
    BY <1>3
  <1>5. Authoritative(store)[t] # Absent
    BY <1>4, RestorableStages
  <1>6. t <= t
    BY StageNumbers
  <1> QED BY <1>4, <1>5, <1>6

LEMMA NoChainIsNew ==
  /\ Gapless(NoChain)
  /\ \A t \in Stages : NoChain[t] = Absent /\ NoChain[t].class = "absent"
  BY DEF NoChain, Gapless, Absent

-----------------------------------------------------------------------------
(* The invariant of an attempt is inductive. *)

LEMMA InitAttempt == Init => AttemptInv
  <1> SUFFICES ASSUME Init PROVE AttemptInv
    OBVIOUS
  <1>1. PhaseInv
    BY NoChainIsNew DEF Init, PhaseInv, NoRequest, PhasePcs, NoChain, Absent
  <1>2. RouteInv /\ KeepInv
    BY DEF Init, RouteInv, KeepInv, Cutting, NoChild
  <1>3. FreshInv /\ NegativeInv
    BY NoChainIsNew
       DEF Init, FreshInv, NegativeInv, NegativesAreOwn, NoChild, NoRequest
  <1> QED BY <1>1, <1>2, <1>3 DEF AttemptInv

(* Publishing, failing and losing an attempt all end it.                   *)
LEMMA EndKeepsAttempt ==
  ASSUME IInv, AttemptInv, EndAttempt
  PROVE  AttemptInv'
  <1>1. PhaseInv'
    BY Typed DEF AttemptInv, PhaseInv, EndAttempt, NoRequest, PhasePcs
  <1>2. RouteInv' /\ KeepInv'
    BY DEF EndAttempt, RouteInv, KeepInv, Cutting, NoChild
  <1>3. FreshInv' /\ NegativeInv'
    BY NoChainIsNew
       DEF EndAttempt, FreshInv, NegativeInv, NegativesAreOwn, NoChild, NoRequest
  <1> QED BY <1>1, <1>2, <1>3 DEF AttemptInv

LEMMA InvokeKeepsAttempt ==
  ASSUME IInv, AttemptInv,
         NEW resume \in Resumes \cup {0}, NEW rerun \in Reruns \cup {0},
         NEW noResume \in BOOLEAN, Invoke(resume, rerun, noResume)
  PROVE  AttemptInv'
  <1>1. /\ parent = "idle" /\ parent' \in {"drop", "select"}
        /\ parent' = "drop" <=> req'.retry # 0
        /\ req'.resume = resume /\ req'.rerun = rerun /\ req'.sel = 0
        /\ rerun # 0 => req'.retry = 0 /\ resume = 0
        /\ UNCHANGED <<disk, ledger, first, phases, best, child, ctx>>
    BY DEF Invoke
  <1>2. PhaseInv'
    BY <1>1 DEF AttemptInv, PhaseInv, PhasePcs
  <1>3. child.pc = "none"
    BY <1>1 DEF IInv, ChildInv
  <1>4. RouteInv' /\ KeepInv'
    BY <1>1, <1>3 DEF RouteInv, KeepInv, Cutting
  <1>5. FreshInv'
    BY <1>1 DEF AttemptInv, FreshInv
  <1>6. NegativeInv'
    BY <1>1, <1>3 DEF AttemptInv, NegativeInv, NegativesAreOwn
  <1> QED BY <1>2, <1>4, <1>5, <1>6 DEF AttemptInv

LEMMA DropKeepsAttempt ==
  ASSUME IInv, AttemptInv, DropRetried \/ DropDone
  PROVE  AttemptInv'
  <1>1. /\ parent = "drop" /\ parent' \in {"drop", "select"}
        /\ UNCHANGED <<ledger, req, first, phases, best, child, ctx>>
    BY DEF DropRetried, DropDone
  <1>2. child.pc = "none" /\ ctx = NoChain /\ best = NoChain
    BY <1>1 DEF IInv, ChildInv, AttemptInv, PhaseInv
  <1>3. \A t \in Stages : disk'[t] = disk[t] \/ disk'[t] = Absent
    <2>1. CASE DropRetried
      BY <2>1, UnlinkShrinks DEF DropRetried, UnlinkNext, IInv, TypeOK
    <2>2. CASE DropDone
      BY <2>2 DEF DropDone
    <2> QED BY <2>1, <2>2
  <1>4. PhaseInv'
    <2>1. \A t \in Stages : disk'[t].phase <= phases'
      BY <1>1, <1>3, Typed DEF AttemptInv, PhaseInv, Absent
    <2> QED BY <1>1, <2>1 DEF AttemptInv, PhaseInv, PhasePcs
  <1>5. RouteInv' /\ KeepInv'
    BY <1>1, <1>2 DEF RouteInv, KeepInv, Cutting
  <1>6. FreshInv'
    <2>1. parent' = "select" => \A t \in Stages : req.retry <= t => disk'[t] = Absent
      BY <1>1 DEF DropRetried, DropDone, InvalidatedFrom
    <2> QED BY <1>1, <1>2, <2>1, NoChainIsNew DEF FreshInv, NewFrom
  <1>7. NegativeInv'
    BY <1>1, <1>2, NoChainIsNew DEF NegativeInv, NegativesAreOwn
  <1> QED BY <1>4, <1>5, <1>6, <1>7 DEF AttemptInv

(* A phase starts where nothing is left to keep, nothing is its attempt's  *)
(* own and, for a continuation, no failure before it is an older one.      *)
LEMMA LaunchKeepsAttempt ==
  ASSUME IInv, AttemptInv, parent \notin {"idle", "drop"},
         parent' \in PhasePcs, phases' = phases + 1, ctx' = NoChain,
         disk' = disk, best' = best, first' = first, req'.retry = req.retry,
         req'.resume = req.resume, req'.rerun = req.rerun,
         NEW n \in Stages, child'.pc = "inspect", child'.next = n,
         parent' = "upstream" =>
            /\ req'.sel <= UpstreamLast
            /\ child'.stop = UpstreamLast
            /\ ~child'.finalized,
         parent' = "discovery" => child'.stop = Board,
         parent' # "downstream" => n <= child'.stop /\ n <= child'.stop + 1,
         req.rerun # 0 => req'.sel = req.rerun,
         req.rerun = Opening => parent' = "downstream",
         NoneKeptFrom(n),
         ~(parent' = "downstream" /\ DownstreamRerun # 0) => NoneOwnFrom(n),
         child'.finalized => OwnNegatives(n, disk)
  PROVE  AttemptInv'
  <1>1. parent' # "route" /\ parent' # "gate" /\ parent' # "idle"
        /\ parent' # "drop" /\ parent' # "select"
    BY DEF PhasePcs
  <1>2. PhaseInv'
    <2>1. first' < phases' /\ \A t \in Stages : disk'[t].phase <= phases'
      BY Typed DEF AttemptInv, PhaseInv
    <2> QED BY <1>1, <2>1, Typed DEF AttemptInv, PhaseInv, PhasePcs
  <1>3. RouteInv'
    BY <1>1 DEF RouteInv
  <1>4. KeepInv'
    <2>1. Asked' = Asked
      BY DEF Asked
    <2>2. StartsOver' <=> parent' = "downstream" /\ DownstreamRerun # 0
      BY DEF StartsOver, DownstreamRerun
    <2> QED BY <1>1, <2>1, <2>2
            DEF KeepInv, NoneKeptFrom, NoneOwnFrom, Own, Restorable
  <1>5. FreshInv'
    BY <1>1, NoChainIsNew DEF AttemptInv, FreshInv, NewFrom
  <1>6. NegativeInv'
    BY <1>1, NoChainIsNew DEF NegativeInv, NegativesAreOwn, OwnNegatives
  <1> QED BY <1>2, <1>3, <1>4, <1>5, <1>6 DEF AttemptInv

(* A start at or before what was asked, selected by an inspection.         *)
LEMMA InspectedStart ==
  ASSUME NEW n \in Stages, Asked \in Stages,
         n = Asked \/ IsEffectiveStart(disk, Asked, FALSE, n)
  PROVE  NoneKeptFrom(n)
  <1>1. CASE n = Asked
    BY <1>1, StageNumbers DEF NoneKeptFrom
  <1>2. CASE n # Asked
    BY <1>2, NothingBehindDefect, StageNumbers DEF NoneKeptFrom, Restorable
  <1> QED BY <1>1, <1>2

LEMMA SelectUpstreamKeepsAttempt ==
  ASSUME IInv, AttemptInv, SelectUpstream
  PROVE  AttemptInv'
  <1>1. PICK sel \in 0..UpstreamLast :
          /\ IsSelected(sel)
          /\ req' = [req EXCEPT !.sel = sel]
          /\ Launch("upstream", IF sel = 0 THEN 1 ELSE sel, UpstreamLast,
                    UpstreamRerun, FALSE)
    BY DEF SelectUpstream
  <1> DEFINE start == IF sel = 0 THEN 1 ELSE sel
             n == IF UpstreamRerun # 0 THEN UpstreamRerun ELSE start
  <1>2. /\ first = phases /\ first' = first /\ parent = "select"
        /\ req.rerun # 0 => req.retry = 0 /\ req.resume = 0
        /\ UNCHANGED <<disk, best>>
    BY DEF SelectUpstream, AttemptInv, PhaseInv
  <1>3. /\ req'.sel = sel /\ UNCHANGED <<req.retry, req.resume, req.rerun>>
    BY <1>1 DEF IInv, TypeOK
  <1>7. n = Asked \/ IsEffectiveStart(disk, Asked, FALSE, n)
    <2>1. CASE req.rerun = 0 /\ (req.retry # 0 \/ req.resume # 0)
      <3>1. IsEffectiveStart(disk, Asked, FALSE, sel)
        BY <1>1, <2>1 DEF IsSelected, Asked
      <3>2. sel # 0
        BY <3>1, Typed, StageNumbers DEF IsEffectiveStart
      <3> QED BY <2>1, <3>1, <3>2 DEF UpstreamRerun
    <2>2. CASE req.rerun # 0
      <3>1. sel = req.rerun /\ Asked = req.rerun
        BY <1>1, <1>2, <2>2 DEF IsSelected, Asked
      <3> QED BY <2>2, <3>1 DEF UpstreamRerun
    <2>3. CASE req.rerun = 0 /\ req.retry = 0 /\ req.resume = 0
      BY <1>1, <2>3 DEF IsSelected, Asked, UpstreamRerun
    <2> QED BY <2>1, <2>2, <2>3
  <1>8. n \in Stages /\ n <= UpstreamLast /\ n <= UpstreamLast + 1
    BY <1>1, Typed, StageAssumption DEF UpstreamRerun, Stages
  <1>9. req.rerun # 0 => sel = req.rerun /\ req.rerun # Opening
    <2>1. req.rerun # 0 => sel = req.rerun
      BY <1>1, <1>2 DEF IsSelected
    <2> QED BY <2>1, StageAssumption DEF Opening
  <1>10. req.rerun # Opening
    BY <1>9, StageAssumption DEF Opening
  <1>11. NoneKeptFrom(n)
    BY <1>7, <1>8, InspectedStart, Typed
  <1>12. NoneOwnFrom(n)
    BY <1>2, Typed DEF NoneOwnFrom, Own, AttemptInv, PhaseInv
  <1>13. /\ parent' = "upstream" /\ phases' = phases + 1 /\ ctx' = NoChain
         /\ child'.pc = "inspect" /\ child'.next = n
         /\ child'.stop = UpstreamLast /\ ~child'.finalized
    <2>1. /\ parent' = "upstream" /\ phases' = phases + 1 /\ ctx' = NoChain
          /\ child' = [pc |-> "inspect", next |-> n, stop |-> UpstreamLast,
                       finalized |-> FALSE, strict |-> UpstreamRerun # 0]
      BY <1>1 DEF Launch
    <2> HIDE DEF n
    <2> QED BY <2>1
  <1>14. sel <= UpstreamLast
    BY StageAssumption
  <1> HIDE DEF n
  <1> QED BY <1>2, <1>3, <1>8, <1>9, <1>10, <1>11, <1>12, <1>13, <1>14,
             LaunchKeepsAttempt DEF PhasePcs

LEMMA SelectDownstreamKeepsAttempt ==
  ASSUME IInv, AttemptInv, SelectDownstream
  PROVE  AttemptInv'
  <1>1. PICK sel \in Career..StageCount :
          IsSelected(sel) /\ req' = [req EXCEPT !.sel = sel]
    BY DEF SelectDownstream
  <1>2. /\ first = phases /\ first' = first /\ parent = "select" /\ parent' = "route"
        /\ req.rerun # 0 => req.retry = 0 /\ req.resume = 0
        /\ req.rerun # 0 => IsEffectiveStart(disk, req.rerun, FALSE, req.rerun)
        /\ UNCHANGED <<disk, phases, best, child, ctx>>
    BY DEF SelectDownstream, AttemptInv, PhaseInv
  <1>3. /\ req'.sel = sel /\ UNCHANGED <<req.retry, req.resume, req.rerun>>
        /\ Asked' = Asked
    BY <1>1 DEF IInv, TypeOK, Asked
  <1>4. child.pc = "none"
    BY <1>2 DEF IInv, ChildInv
  <1>5. sel > UpstreamLast
    BY StageAssumption DEF Career
  <1>6. req.rerun # 0 => sel = req.rerun
    BY <1>1, <1>2 DEF IsSelected
  <1>7. IsEffectiveStart(disk, Asked, FALSE, sel)
    <2>1. CASE req.retry # 0
      BY <1>1, <2>1 DEF IsSelected, Asked
    <2>2. CASE req.retry = 0 /\ req.resume # 0
      BY <1>1, <2>2 DEF IsSelected, Asked
    <2>3. CASE req.retry = 0 /\ req.resume = 0
      <3>1. sel = req.rerun
        BY <1>1, <2>3 DEF IsSelected
      <3>2. req.rerun # 0
        BY <3>1, StageAssumption DEF Career
      <3>3. Asked = req.rerun
        BY <2>3, <3>2 DEF Asked
      <3> QED BY <1>2, <3>1, <3>2, <3>3
    <2> QED BY <2>1, <2>2, <2>3
  <1>8. PhaseInv'
    BY <1>2, <1>3, <1>6 DEF AttemptInv, PhaseInv, PhasePcs
  <1>9. RouteInv'
    <2>1. ~(sel <= UpstreamLast)
      BY <1>5, StageAssumption DEF Career
    <2> QED BY <1>2, <1>3, <1>7, <2>1 DEF RouteInv, AttemptInv, PhaseInv
  <1>10. KeepInv'
    BY <1>2, <1>4 DEF KeepInv, Cutting
  <1>11. FreshInv'
    BY <1>2, <1>3 DEF AttemptInv, FreshInv, NewFrom
  <1>12. NegativeInv'
    <2>1. ~(sel <= UpstreamLast)
      BY <1>5, StageAssumption DEF Career
    <2> QED BY <1>2, <1>3, <1>4, <2>1 DEF AttemptInv, NegativeInv, NegativesAreOwn
  <1> QED BY <1>8, <1>9, <1>10, <1>11, <1>12 DEF AttemptInv

(* Where the downstream phases start: nothing is left to keep from there   *)
(* on, and no failure before it is an older one.                           *)
LEMMA DownstreamStart ==
  ASSUME IInv, AttemptInv, parent = "route",
         NEW s \in Stages, IsDownstreamStart(s)
  PROVE  /\ s = IF DownstreamRerun # 0 THEN DownstreamRerun ELSE s
         /\ NoneKeptFrom(s) /\ NoneOwnFrom(s) /\ OwnNegatives(s, disk)
         /\ req.rerun = Opening => s = Opening
  <1>1. req.rerun # 0 => req.sel = req.rerun
    BY DEF AttemptInv, PhaseInv
  <1>2. CASE req.sel <= UpstreamLast
    <2>1. \A t \in Stages : Career <= t => Authoritative(disk)[t] = Absent
      BY <1>2, RestorableStages DEF AttemptInv, RouteInv
    <2>2. DownstreamRerun = 0 /\ req.rerun # Opening
      BY <1>1, <1>2, Typed, StageAssumption DEF DownstreamRerun, Opening
    <2>3. \A t \in Stages : s <= t => Authoritative(disk)[t] = Absent
      <3>1. ~(req.sel > UpstreamLast)
        BY <1>2, Typed, StageAssumption
      <3>2. CASE req.resume \in {Board, Opening} /\ s # req.resume
        <4>1. IsEffectiveStart(disk, req.resume, FALSE, s)
          BY <3>1, <3>2 DEF IsDownstreamStart
        <4>2. req.resume \in Nat
          BY Typed
        <4> QED BY <3>2, <4>1, <4>2, NothingBehindDefect
      <3>3. CASE req.resume \notin {Board, Opening} \/ s = req.resume
        <4>1. s = Career \/ s = Board \/ s = Opening
          BY <3>1, <3>3 DEF IsDownstreamStart
        <4>2. Career <= s
          BY <4>1, StageAssumption DEF Career, Board, Opening
        <4> QED BY <2>1, <4>2, StageNumbers
      <3> QED BY <3>2, <3>3
    <2>4. NoneKeptFrom(s) /\ NoneOwnFrom(s)
      BY <2>3 DEF NoneKeptFrom, NoneOwnFrom, Own, Restorable
    <2>5. OwnNegatives(s, disk)
      <3>1. \A t \in Stages : t < End
        BY StageAssumption DEF Stages, End
      <3> QED BY <1>2, <3>1 DEF AttemptInv, NegativeInv, OwnNegatives
    <2> QED BY <2>2, <2>4, <2>5
  <1>3. CASE ~(req.sel <= UpstreamLast)
    <2>1. /\ IsEffectiveStart(disk, Asked, FALSE, req.sel)
          /\ \A t \in Stages : disk[t].phase <= first
      BY <1>3 DEF AttemptInv, RouteInv
    <2>2. s = req.sel
      <3>1. req.sel > UpstreamLast
        BY <1>3, Typed, StageAssumption
      <3> QED BY <3>1 DEF IsDownstreamStart
    <2>3. DownstreamRerun # 0 => DownstreamRerun = s
      BY <1>1, <2>2 DEF DownstreamRerun
    <2>4. NoneKeptFrom(s)
      BY <2>1, <2>2, InspectedStart, Typed
    <2>5. NoneOwnFrom(s)
      BY <2>1, Typed DEF NoneOwnFrom, Own
    <2>6. OwnNegatives(s, disk)
      BY <2>1, <2>2 DEF IsEffectiveStart, Accepts, OwnNegatives
    <2>7. req.rerun = Opening => s = Opening
      BY <1>1, <2>2, StageAssumption DEF Opening
    <2> QED BY <2>3, <2>4, <2>5, <2>6, <2>7
  <1> QED BY <1>2, <1>3

LEMMA RouteKeepsAttempt ==
  ASSUME IInv, AttemptInv, RouteDiscovery \/ RouteDownstream
  PROVE  AttemptInv'
  <1>1. /\ parent = "route" /\ UNCHANGED <<disk, req, first, best>>
        /\ req.rerun # 0 => req.sel = req.rerun
    BY DEF RouteDiscovery, RouteDownstream, AttemptInv, PhaseInv
  <1>2. PICK s \in Stages :
          /\ IsDownstreamStart(s)
          /\ \/ s <= Board /\ Launch("discovery", s, Board, DownstreamRerun, TRUE)
             \/ Launch("downstream", s, StageCount, DownstreamRerun, TRUE)
    <2>1. 1..Board \subseteq Stages /\ \A s \in 1..Board : s <= Board
      BY StageAssumption DEF Board, Stages
    <2> QED BY <2>1 DEF RouteDiscovery, RouteDownstream
  <1>3. /\ s = IF DownstreamRerun # 0 THEN DownstreamRerun ELSE s
        /\ NoneKeptFrom(s) /\ NoneOwnFrom(s) /\ OwnNegatives(s, disk)
        /\ req.rerun = Opening => s = Opening
    BY <1>1, <1>2, DownstreamStart
  <1>4. /\ parent' \in {"discovery", "downstream"} /\ phases' = phases + 1
        /\ ctx' = NoChain /\ child'.pc = "inspect" /\ child'.next = s
        /\ parent' = "discovery" => child'.stop = Board /\ s <= Board
    BY <1>2, <1>3 DEF Launch
  <1>5. s <= Board => s <= Board + 1 /\ s # Opening
    BY StageAssumption DEF Board, Opening, Stages
  <1>6. req.rerun = Opening => parent' = "downstream"
    BY <1>3, <1>4, <1>5
  <1>7. parent' # "downstream" => s <= child'.stop /\ s <= child'.stop + 1
    BY <1>4, <1>5
  <1> QED BY <1>1, <1>3, <1>4, <1>6, <1>7, LaunchKeepsAttempt DEF PhasePcs

(* At the gate an explicit rerun of an earlier downstream stage starts     *)
(* over at that stage, every other request goes on with the opening.       *)
LEMMA GateKeepsAttempt ==
  ASSUME IInv, AttemptInv, GateOpening
  PROVE  AttemptInv'
  <1> DEFINE n == IF DownstreamRerun # 0 THEN DownstreamRerun ELSE Opening
  <1>1. /\ parent = "gate" /\ UNCHANGED <<disk, req, first, best>>
        /\ Launch("downstream", Opening, StageCount, DownstreamRerun, TRUE)
        /\ req.rerun # 0 => req.sel = req.rerun
        /\ req.rerun # Opening
        /\ NoneKeptFrom(Opening) /\ OwnNegatives(Opening, disk)
        /\ NoneOwnFrom(Opening)
    BY DEF GateOpening, AttemptInv, PhaseInv, KeepInv, NegativeInv, PhasePcs
  <1>2. /\ parent' = "downstream" /\ phases' = phases + 1 /\ ctx' = NoChain
        /\ child'.pc = "inspect" /\ child'.next = n
    BY <1>1 DEF Launch
  <1>3. req.rerun \in Reruns \cup {0} /\ (req.rerun # 0 => req.retry = 0 /\ req.resume = 0)
    BY DEF AttemptInv, PhaseInv
  <1>4. n \in Stages /\ n <= Opening
    <2>1. req.rerun # 0 => req.rerun \in 2..Opening
      BY <1>3, RunAssumption
    <2>2. \A t \in 2..Opening : t \in Stages /\ t <= Opening
      BY StageAssumption DEF Stages, Opening
    <2>3. Opening \in Stages /\ Opening <= Opening
      BY StageNumbers
    <2> QED BY <2>1, <2>2, <2>3 DEF DownstreamRerun
  <1>5. NoneKeptFrom(n)
    <2>1. CASE DownstreamRerun # 0
      <3>1. n = Asked
        BY <1>3, <2>1 DEF DownstreamRerun, Asked
      <3> QED BY <3>1, <1>4, Typed, InspectedStart
    <2>2. CASE DownstreamRerun = 0
      BY <1>1, <2>2
    <2> QED BY <2>1, <2>2
  <1>6. DownstreamRerun = 0 => NoneOwnFrom(n)
    BY <1>1
  <1>7. OwnNegatives(n, disk)
    <2> HIDE DEF n
    <2>1. \A t \in Stages : t < n => t < Opening
      BY <1>4, StageNumbers
    <2> QED BY <1>1, <2>1 DEF OwnNegatives
  <1> HIDE DEF n
  <1> QED BY <1>1, <1>2, <1>4, <1>5, <1>6, <1>7, LaunchKeepsAttempt DEF PhasePcs

(* A child step happens inside a phase of the attempt.                     *)
LEMMA InPhase ==
  ASSUME IInv, child.pc # "none"
  PROVE  /\ parent \in PhasePcs
         /\ parent \notin {"idle", "drop", "select", "route", "gate"}
  BY DEF IInv, ChildInv, PhasePcs

LEMMA ChildInspectKeepsAttempt ==
  ASSUME IInv, AttemptInv, ChildInspect
  PROVE  AttemptInv'
  <1>1. PICK eff \in Stages :
          /\ IsEffectiveStart(disk, child.next, child.finalized, eff)
          /\ IF child.strict /\ eff # child.next
             THEN child' = [child EXCEPT !.pc = "raised"] /\ ctx' = ctx
             ELSE /\ child' = [child EXCEPT !.pc = "cut", !.next = eff]
                  /\ ctx' = Before(disk, eff)
    BY DEF ChildInspect
  <1>2. /\ child.pc = "inspect" /\ ctx = NoChain /\ Cutting
        /\ UNCHANGED <<disk, parent, req, first, phases, best>>
        /\ Asked' = Asked
    BY DEF ChildInspect, IInv, ChildInv, Cutting, Asked
  <1>3. parent \in PhasePcs /\ parent \notin {"idle", "drop", "select", "route", "gate"}
    BY <1>2, InPhase
  <1>4. /\ eff <= child.next
        /\ eff # child.next => \A t \in Stages : eff <= t => Authoritative(disk)[t] = Absent
        /\ \A t \in Stages : t < eff => Accepts(disk[t], child.finalized)
    <2>1. child.next \in Nat /\ child.finalized \in BOOLEAN
      BY StageNumbers DEF IInv, TypeOK
    <2> QED BY <1>1, <2>1, NothingBehindDefect
  <1>5. /\ child'.pc \in {"raised", "cut"} /\ child'.stop = child.stop
        /\ \/ child'.next = child.next /\ ctx' = NoChain /\ child'.pc = "raised"
           \/ child'.next = eff /\ ctx' = Before(disk, eff)
    BY <1>1, <1>2 DEF IInv, TypeOK
  <1>6. child'.next <= child.next /\ child'.next \in Nat
    BY <1>4, <1>5, Typed, StageNumbers
  <1>7. PhaseInv'
    <2>1. parent \in {"upstream", "discovery"} =>
            child'.next <= child'.stop + 1 /\ child'.next <= child'.stop
      <3>1. parent \in {"upstream", "discovery"} => child.next <= child.stop
        BY <1>2 DEF AttemptInv, PhaseInv
      <3>2. child.stop \in Nat /\ child.next \in Nat
        <4>1. child.stop \in Stages /\ child.next \in 1..End
          BY DEF IInv, TypeOK
        <4>2. Stages \subseteq Nat /\ 1..End \subseteq Nat
          BY StageAssumption DEF Stages, End
        <4> QED BY <4>1, <4>2
      <3>3. child.next <= child.stop =>
              child'.next <= child.stop /\ child'.next <= child.stop + 1
        BY <1>6, <3>2
      <3> QED BY <1>5, <3>1, <3>3
    <2>2. parent = "upstream" => ~child'.finalized
      BY <1>1 DEF IInv, TypeOK, AttemptInv, PhaseInv
    <2> QED BY <1>2, <1>3, <1>5, <2>1, <2>2 DEF AttemptInv, PhaseInv, PhasePcs
  <1>8. RouteInv'
    BY <1>2, <1>3 DEF RouteInv
  <1>9. KeepInv'
    <2>1. NoneKeptFrom(eff) /\ (~StartsOver => NoneOwnFrom(eff))
      BY <1>2, <1>4 DEF AttemptInv, KeepInv, NoneKeptFrom, NoneOwnFrom, Own, Restorable
    <2>2. NoneKeptFrom(child.next) /\ (~StartsOver => NoneOwnFrom(child.next))
      BY <1>2 DEF AttemptInv, KeepInv
    <2>3. /\ NoneKeptFrom(child'.next)
          /\ ~StartsOver => NoneOwnFrom(child'.next)
      BY <1>5, <2>1, <2>2
    <2> QED BY <1>2, <1>3, <2>3
            DEF StartsOver, DownstreamRerun, KeepInv, NoneKeptFrom, NoneOwnFrom, Own, Restorable
  <1>10. FreshInv'
    <2>1. \A t \in Stages : ctx'[t] = Absent \/ ctx'[t] = disk[t]
      BY <1>5 DEF NoChain, Before
    <2> QED BY <1>2, <2>1 DEF AttemptInv, FreshInv, NewFrom
  <1>11. NegativeInv'
    <2>1. ASSUME NEW t \in Stages, ctx'[t].class = "negative"
          PROVE  ctx'[t].phase > first
      <3>1. ctx'[t] = disk[t] /\ t < eff
        BY <1>5, <2>1 DEF NoChain, Before, Absent
      <3>2. child.finalized
        BY <1>4, <2>1, <3>1 DEF Accepts
      <3>3. OwnNegatives(child.next, disk)
        BY <1>2, <3>2 DEF AttemptInv, NegativeInv
      <3>4. t < child.next
        BY <1>4, <3>1, Typed, StageNumbers
      <3> QED BY <2>1, <3>1, <3>3, <3>4 DEF OwnNegatives
    <2> QED BY <1>2, <1>3, <1>5, <2>1 DEF NegativeInv, NegativesAreOwn
  <1> QED BY <1>7, <1>8, <1>9, <1>10, <1>11 DEF AttemptInv

LEMMA ChildCutKeepsAttempt ==
  ASSUME IInv, AttemptInv, ChildCut \/ ChildCutDone
  PROVE  AttemptInv'
  <1>1. /\ child.pc = "cut" /\ Cutting
        /\ child'.pc \in {"cut", "run"} /\ child'.next = child.next
        /\ child'.stop = child.stop /\ child'.finalized = child.finalized
        /\ UNCHANGED <<parent, req, first, phases, best, ctx>>
        /\ Asked' = Asked
    BY DEF ChildCut, ChildCutDone, IInv, TypeOK, Cutting, Asked
  <1>2. parent \in PhasePcs /\ parent \notin {"idle", "drop", "select", "route", "gate"}
    BY <1>1, InPhase
  <1>3. \A t \in Stages :
          /\ disk'[t] = disk[t] \/ disk'[t] = Absent
          /\ Authoritative(disk')[t] # Absent =>
                Authoritative(disk)[t] # Absent /\ disk'[t] = disk[t]
    <2>1. CASE ChildCut
      <3>1. PICK k \in Stages : disk' = [disk EXCEPT ![k] = Absent]
        BY <2>1 DEF ChildCut, UnlinkNext
      <3>2. disk \in Chains
        BY DEF IInv, TypeOK
      <3>3. \A cut : cut = [disk EXCEPT ![k] = Absent] =>
              \A t \in Stages :
                 /\ cut[t] = disk[t] \/ cut[t] = Absent
                 /\ Authoritative(cut)[t] # Absent =>
                      Authoritative(disk)[t] # Absent /\ cut[t] = disk[t]
        BY <3>2, UnlinkShrinks
      <3> QED BY <3>1, <3>3
    <2>2. CASE ChildCutDone
      BY <2>2 DEF ChildCutDone
    <2> QED BY <2>1, <2>2
  <1>4. PhaseInv'
    <2>1. \A t \in Stages : disk'[t].phase <= phases'
      BY <1>1, <1>3, Typed DEF AttemptInv, PhaseInv, Absent
    <2> QED BY <1>1, <1>2, <2>1 DEF AttemptInv, PhaseInv
  <1>5. RouteInv'
    BY <1>1, <1>2 DEF RouteInv
  <1>6. KeepInv'
    BY <1>1, <1>2, <1>3
       DEF AttemptInv, StartsOver, DownstreamRerun, KeepInv, NoneKeptFrom, NoneOwnFrom, Own, Restorable
  <1>7. FreshInv'
    BY <1>1, <1>3 DEF AttemptInv, FreshInv, NewFrom
  <1>8. NegativeInv'
    BY <1>1, <1>2 DEF AttemptInv, NegativeInv, NegativesAreOwn
  <1> QED BY <1>4, <1>5, <1>6, <1>7, <1>8 DEF AttemptInv

(* Whatever a stage saves or hands on carries the number of this phase.    *)
LEMMA ChildRunStageKeepsAttempt ==
  ASSUME IInv, AttemptInv, NEW class \in Classes, NEW kept \in BOOLEAN,
         ChildRunStage(class, kept)
  PROVE  AttemptInv'
  <1> DEFINE s == child.next
  <1> DEFINE base == IF s = 1 THEN 0 ELSE ctx[s - 1].phase
             execution == [phase |-> phases, base |-> base, class |-> class]
  <1>1. /\ execution.phase = phases
        /\ ctx' = [ctx EXCEPT ![s] = execution]
        /\ disk' = [disk EXCEPT ![s] = IF kept THEN execution ELSE Absent]
    BY DEF ChildRunStage
  <1> HIDE DEF execution
  <1>2. /\ child.pc = "run" /\ s <= child.stop
        /\ child' = [child EXCEPT !.next = s + 1]
        /\ UNCHANGED <<parent, req, first, phases, best>>
    BY DEF ChildRunStage
  <1>3. parent \in PhasePcs /\ parent \notin {"idle", "drop", "select", "route", "gate"}
    BY <1>2, InPhase
  <1>4. first < phases
    BY <1>3 DEF AttemptInv, PhaseInv
  <1>5. \A t \in Stages :
          /\ ctx'[t] = ctx[t] \/ ctx'[t].phase = phases
          /\ disk'[t] = disk[t] \/ disk'[t] = Absent \/ disk'[t].phase = phases
    BY <1>1 DEF IInv, TypeOK, Chains
  <1>6. /\ child'.pc = "run" /\ child'.next = s + 1 /\ child'.stop = child.stop
        /\ child'.finalized = child.finalized
    BY <1>2 DEF IInv, TypeOK
  <1>7. PhaseInv'
    <2>1. \A t \in Stages : disk'[t].phase <= phases'
      BY <1>2, <1>5, Typed DEF AttemptInv, PhaseInv, Absent
    <2>2. child'.next <= child'.stop + 1
      BY <1>2, <1>6, Typed, StageNumbers
    <2> QED BY <1>2, <1>3, <1>6, <2>1, <2>2 DEF AttemptInv, PhaseInv
  <1>8. RouteInv' /\ KeepInv'
    BY <1>2, <1>3, <1>6 DEF RouteInv, KeepInv, Cutting
  <1>9. phases > first
    BY <1>4, Typed
  <1>10. FreshInv'
    BY <1>2, <1>5, <1>9 DEF AttemptInv, FreshInv, NewFrom
  <1>11. NegativeInv'
    BY <1>2, <1>3, <1>5, <1>6, <1>9 DEF AttemptInv, NegativeInv, NegativesAreOwn
  <1> QED BY <1>7, <1>8, <1>10, <1>11 DEF AttemptInv

(* A child that ran its stages left nothing on disk behind its context.    *)
LEMMA ReturnedStages ==
  ASSUME IInv, AttemptInv, child.pc = "run", child.next = child.stop + 1
  PROVE  /\ Gapless(ctx)
         /\ \A t \in Stages : child.stop < t => disk[t] = Absent
         /\ \A n : OwnNegatives(n, disk)
  <1>1. child.next \in Nat /\ child.stop \in Nat
    <2>1. child.stop \in Stages /\ child.next \in 1..End
      BY DEF IInv, TypeOK
    <2>2. Stages \subseteq Nat /\ 1..End \subseteq Nat
      BY StageAssumption DEF Stages, End
    <2> QED BY <2>1, <2>2
  <1>2. /\ \A t \in Stages : ctx[t] # Absent <=> t < child.next
        /\ \A t \in Stages : disk[t] = ctx[t] \/ disk[t] = Absent
    BY DEF IInv, ChildInv
  <1>3. Gapless(ctx)
    BY <1>1, <1>2, StageNumbers DEF Gapless
  <1>4. \A t \in Stages : child.stop < t => disk[t] = Absent
    <2> SUFFICES ASSUME NEW t \in Stages, child.stop < t
                 PROVE  disk[t] = Absent
      OBVIOUS
    <2>1. ~(t < child.next)
      BY <1>1, StageNumbers
    <2> QED BY <1>2, <2>1
  <1>5. \A n : OwnNegatives(n, disk)
    BY <1>2 DEF OwnNegatives, AttemptInv, NegativeInv, NegativesAreOwn, Absent
  <1> QED BY <1>3, <1>4, <1>5

(* Handing a phase's result to the parent.                                 *)
LEMMA HandOverKeepsAttempt ==
  ASSUME IInv, AttemptInv,
         parent \in {"upstream", "discovery"},
         \/ parent = "upstream" /\ parent' = "route"
         \/ parent = "discovery" /\ parent' = "gate",
         child' = NoChild, ctx' = NoChain,
         UNCHANGED <<disk, req, first, phases>>,
         Gapless(best'), req.retry # 0 => NewFrom(req.retry, best'),
         parent = "upstream" => \A t \in Stages : Career <= t => disk[t] = Absent,
         parent = "upstream" => OwnNegatives(End, disk),
         parent = "discovery" => NoneKeptFrom(Opening) /\ OwnNegatives(Opening, disk),
         parent = "discovery" => NoneOwnFrom(Opening)
  PROVE  AttemptInv'
  <1>1. child'.pc = "none" /\ Asked' = Asked
    BY DEF NoChild, Asked
  <1>2. PhaseInv'
    BY DEF AttemptInv, PhaseInv, PhasePcs
  <1>3. RouteInv'
    BY DEF AttemptInv, PhaseInv, RouteInv
  <1>4. KeepInv'
    BY <1>1 DEF KeepInv, Cutting, NoneKeptFrom, NoneOwnFrom, Own, Restorable
  <1>5. FreshInv'
    BY NoChainIsNew DEF AttemptInv, FreshInv, NewFrom
  <1>6. NegativeInv'
    BY <1>1, NoChainIsNew DEF NegativeInv, NegativesAreOwn, OwnNegatives
  <1> QED BY <1>2, <1>3, <1>4, <1>5, <1>6 DEF AttemptInv

LEMMA RecoveredIsGapless ==
  /\ Gapless(Recovered)
  /\ \A n : NewFrom(n, disk) => NewFrom(n, Recovered)
  <1>1. Gapless(Recovered)
    <2> SUFFICES ASSUME NEW t \in Stages, NEW u \in Stages, t < u,
                        Authoritative(disk)[u] # Absent
                 PROVE  Authoritative(disk)[t] # Absent
      BY DEF Gapless, Recovered
    <2>1. \A v \in Stages : v <= t => v <= u
      BY StageNumbers
    <2> QED BY <2>1, RestorableStages
  <1>2. \A n : NewFrom(n, disk) => NewFrom(n, Recovered)
    BY RestorableStages DEF NewFrom, Recovered
  <1> QED BY <1>1, <1>2

LEMMA UpstreamReturnedKeepsAttempt ==
  ASSUME IInv, AttemptInv, UpstreamReturned
  PROVE  AttemptInv'
  <1>1. CASE PublishResult(ctx)
    BY <1>1, EndKeepsAttempt DEF PublishResult
  <1>2. CASE parent' = "route" /\ best' = ctx /\ child' = NoChild /\ ctx' = NoChain
             /\ UNCHANGED <<disk, ledger, req, first, phases>>
    <2>1. parent = "upstream" /\ child.pc = "run" /\ child.next > child.stop
      BY DEF UpstreamReturned, ChildReturned
    <2>2. child.stop = UpstreamLast /\ child.next <= child.stop + 1
      BY <2>1 DEF AttemptInv, PhaseInv
    <2>3. child.next = child.stop + 1 /\ Career = child.stop + 1
      BY <2>1, <2>2, Typed, StageAssumption DEF Career
    <2>4. /\ Gapless(ctx)
          /\ \A t \in Stages : child.stop < t => disk[t] = Absent
          /\ OwnNegatives(End, disk)
      BY <2>1, <2>3, ReturnedStages
    <2>5. \A t \in Stages : Career <= t => disk[t] = Absent
      BY <2>2, <2>4, StageAssumption DEF Career, Stages
    <2>6. req.retry # 0 => NewFrom(req.retry, ctx)
      BY <2>1 DEF AttemptInv, FreshInv
    <2> QED BY <1>2, <2>1, <2>4, <2>5, <2>6, HandOverKeepsAttempt
  <1> QED BY <1>1, <1>2 DEF UpstreamReturned

LEMMA DiscoveryReturnedKeepsAttempt ==
  ASSUME IInv, AttemptInv, DiscoveryReturned
  PROVE  AttemptInv'
  <1>1. /\ parent = "discovery" /\ child.pc = "run" /\ child.next > child.stop
        /\ parent' = "gate" /\ best' = ctx /\ child' = NoChild /\ ctx' = NoChain
        /\ UNCHANGED <<disk, ledger, req, first, phases>>
    BY DEF DiscoveryReturned, ChildReturned
  <1>2. child.stop = Board /\ child.next <= child.stop + 1
    BY <1>1 DEF AttemptInv, PhaseInv
  <1>3. child.next = child.stop + 1 /\ Opening = child.stop + 1
    BY <1>1, <1>2, Typed, StageAssumption DEF Board, Opening
  <1>4. /\ Gapless(ctx)
        /\ \A t \in Stages : child.stop < t => disk[t] = Absent
        /\ OwnNegatives(Opening, disk)
    BY <1>1, <1>3, ReturnedStages
  <1>5. \A t \in Stages : Opening <= t => Authoritative(disk)[t] = Absent
    <2>1. \A t \in Stages : Opening <= t => disk[t] = Absent
      BY <1>2, <1>4, StageAssumption DEF Opening, Board, Stages
    <2> QED BY <2>1, RestorableStages
  <1>6. NoneKeptFrom(Opening) /\ NoneOwnFrom(Opening)
    BY <1>5 DEF NoneKeptFrom, NoneOwnFrom, Own, Restorable
  <1>7. req.retry # 0 => NewFrom(req.retry, ctx)
    BY <1>1 DEF AttemptInv, FreshInv
  <1> QED BY <1>1, <1>4, <1>6, <1>7, HandOverKeepsAttempt

(* A board recovered after a kill was either already there before the      *)
(* child wrote, or is the last thing it wrote.                             *)
LEMMA DiscoveryFailedKeepsAttempt ==
  ASSUME IInv, AttemptInv, DiscoveryFailed
  PROVE  AttemptInv'
  <1>1. CASE PublishFailure(RecoveredOrBest)
    BY <1>1, EndKeepsAttempt DEF PublishFailure
  <1>2. CASE /\ Recovered[Board] # Absent
             /\ parent' = "gate" /\ best' = Recovered
             /\ child' = NoChild /\ ctx' = NoChain
             /\ UNCHANGED <<disk, ledger, req, first, phases>>
    <2>1. parent = "discovery" /\ child.pc # "none"
      BY DEF DiscoveryFailed, AttemptInv, PhaseInv, PhasePcs
    <2>2. /\ child.stop = Board /\ child.next <= Board + 1
          /\ child.pc # "run" => child.next <= Board
      BY <2>1 DEF AttemptInv, PhaseInv
    <2>3. /\ \A t \in Stages : t <= Board => Accepts(disk[t], FALSE)
          /\ disk[Board] # Absent
      BY <1>2, RestorableStages, StageNumbers DEF Recovered
    <2>4. OwnNegatives(Opening, disk)
      <3>1. \A t \in Stages : t < Opening => t <= Board
        BY StageAssumption DEF Opening, Board, Stages
      <3> QED BY <2>3, <3>1 DEF OwnNegatives, Accepts
    <2>5. NoneKeptFrom(Opening) /\ NoneOwnFrom(Opening)
      <3>1. CASE child.pc = "run"
        <4>1. Board < child.next
          BY <2>3, <3>1, StageNumbers DEF IInv, ChildInv
        <4>2. child.next = child.stop + 1
          BY <2>2, <4>1, Typed, StageAssumption DEF Board
        <4>3. \A t \in Stages : Board < t => disk[t] = Absent
          BY <2>2, <3>1, <4>2, ReturnedStages
        <4>4. \A t \in Stages : Opening <= t => disk[t] = Absent
          BY <4>3, StageAssumption DEF Opening, Board, Stages
        <4> QED BY <4>4, RestorableStages
                DEF NoneKeptFrom, NoneOwnFrom, Own, Restorable
      <3>2. CASE child.pc # "run"
        <4>1. Cutting
          BY <2>1, <3>2 DEF Cutting, IInv, TypeOK, ChildPcs
        <4>2. \A t \in Stages : Opening <= t => child.next <= t
          BY <2>2, <3>2, Typed, StageAssumption DEF Opening, Board, Stages
        <4>3. ~StartsOver
          BY <2>1 DEF StartsOver
        <4> QED BY <4>1, <4>2, <4>3 DEF AttemptInv, KeepInv, NoneKeptFrom, NoneOwnFrom
      <3> QED BY <3>1, <3>2
    <2>6. Gapless(Recovered) /\ (req.retry # 0 => NewFrom(req.retry, Recovered))
      BY <2>1, RecoveredIsGapless DEF AttemptInv, FreshInv
    <2> QED BY <1>2, <2>1, <2>4, <2>5, <2>6, HandOverKeepsAttempt
  <1> QED BY <1>1, <1>2 DEF DiscoveryFailed

(* All other outcomes publish, fail or lose the attempt.                   *)
LEMMA EndingSteps ==
  ASSUME \/ RerunRefused \/ RouteExhausted \/ GateStop \/ GateShort
         \/ UpstreamTimedOut \/ UpstreamRaised \/ DownstreamReturned
         \/ DownstreamTimedOut \/ DownstreamRaised \/ BatchCrash
  PROVE  EndAttempt
  BY DEF RerunRefused, RouteExhausted, GateStop, GateShort, UpstreamTimedOut,
         UpstreamRaised, DownstreamReturned, DownstreamTimedOut,
         DownstreamRaised, BatchCrash, PublishResult, PublishFailure

LEMMA StutterKeepsAttempt == AttemptInv /\ UNCHANGED vars => AttemptInv'
  <1> SUFFICES ASSUME AttemptInv, UNCHANGED vars PROVE AttemptInv'
    OBVIOUS
  <1> USE DEF vars
  <1>1. PhaseInv'
    BY DEF AttemptInv, PhaseInv
  <1>2. RouteInv'
    BY DEF AttemptInv, RouteInv, Asked
  <1>3. KeepInv'
    BY DEF AttemptInv, KeepInv, Cutting, StartsOver, DownstreamRerun, NoneKeptFrom,
       NoneOwnFrom, Own, Restorable, Asked
  <1>4. FreshInv'
    BY DEF AttemptInv, FreshInv, NewFrom
  <1>5. NegativeInv'
    BY DEF AttemptInv, NegativeInv, NegativesAreOwn, OwnNegatives
  <1> QED BY <1>1, <1>2, <1>3, <1>4, <1>5 DEF AttemptInv

(* Where an attempt stands, what it must keep and what it may not reuse is *)
(* known at every step of every behaviour of batches, children and kills.  *)
THEOREM AttemptInductive == Spec => [](IInv /\ AttemptInv)
  <1>1. Init => AttemptInv
    BY InitAttempt
  <1>2. IInv /\ AttemptInv /\ [Next]_vars => AttemptInv'
    <2> SUFFICES ASSUME IInv, AttemptInv, [Next]_vars PROVE AttemptInv'
      OBVIOUS
    <2>1. CASE \E resume \in Resumes \cup {0}, rerun \in Reruns \cup {0},
                  noResume \in BOOLEAN : Invoke(resume, rerun, noResume)
      BY <2>1, InvokeKeepsAttempt
    <2>2. CASE Batch
      BY <2>2, DropKeepsAttempt, SelectUpstreamKeepsAttempt,
         SelectDownstreamKeepsAttempt, RouteKeepsAttempt, GateKeepsAttempt,
         EndingSteps, EndKeepsAttempt DEF Batch
    <2>3. CASE Child
      BY <2>3, ChildInspectKeepsAttempt, ChildCutKeepsAttempt,
         ChildRunStageKeepsAttempt DEF Child
    <2>4. CASE Outcome
      BY <2>4, UpstreamReturnedKeepsAttempt, DiscoveryReturnedKeepsAttempt,
         DiscoveryFailedKeepsAttempt, EndingSteps, EndKeepsAttempt DEF Outcome
    <2>5. CASE BatchCrash
      BY <2>5, EndingSteps, EndKeepsAttempt
    <2>6. CASE UNCHANGED vars
      BY <2>6, StutterKeepsAttempt
    <2> QED BY <2>1, <2>2, <2>3, <2>4, <2>5, <2>6 DEF Next
  <1> QED BY <1>1, <1>2, Inductive, PTL DEF Spec

-----------------------------------------------------------------------------
(* What follows for whole behaviours *)

(* In no attempt, whatever was killed or restored before it, does a child  *)
(* compute on the failed, partial or unsupported stage of an earlier       *)
(* attempt: a finalized negative is continued by its own attempt only.     *)
THEOREM NegativesStayOwn == Spec => []NegativesAreOwn
  <1>1. AttemptInv => NegativesAreOwn
    BY DEF AttemptInv, NegativeInv
  <1> QED BY <1>1, AttemptInductive, PTL

(* A stage being run has no file yet.                                      *)
LEMMA RunsOnAbsent ==
  ASSUME IInv, child.pc = "run"
  PROVE  \A t \in Stages : child.next <= t =>
            disk[t] = Absent /\ Authoritative(disk)[t] = Absent
  <1> SUFFICES ASSUME NEW t \in Stages, child.next <= t
               PROVE  disk[t] = Absent
    BY RestorableStages
  <1>1. child.next \in Nat
    <2>1. child.next \in 1..End
      BY DEF IInv, TypeOK
    <2> QED BY <2>1, StageNumbers
  <1>2. ~(t < child.next)
    BY <1>1, StageNumbers
  <1> QED BY <1>2 DEF IInv, ChildInv

(* Only invalidation and the save of a stage change the files.             *)
LEMMA DiskSteps ==
  ASSUME [Next]_vars
  PROVE  \/ disk' = disk \/ DropRetried \/ ChildCut
         \/ \E class \in Classes, kept \in BOOLEAN : ChildRunStage(class, kept)
  BY EndingSteps
     DEF Next, Batch, Child, Outcome, vars, EndAttempt, Invoke, DropDone,
       SelectUpstream, SelectDownstream, RouteDiscovery, RouteDownstream,
       GateOpening, ChildInspect, ChildCutDone, UpstreamReturned,
       DiscoveryReturned, DiscoveryFailed, PublishResult, PublishFailure

(* A checkpoint recovery would read only disappears when it is dropped for *)
(* a retry or cut behind the effective start of a phase.                   *)
LEMMA OnlyCutsDelete ==
  ASSUME IInv, AttemptInv, [Next]_vars, NEW t \in Stages,
         Restorable(t), disk'[t] # disk[t]
  PROVE  \/ parent = "drop" /\ req.retry # 0 /\ req.retry <= t
         \/ Cutting /\ child.next <= t
  <1>1. \/ disk' = disk \/ DropRetried \/ ChildCut
        \/ \E class \in Classes, kept \in BOOLEAN : ChildRunStage(class, kept)
    BY DiskSteps
  <1>2. CASE DropRetried
    <2>1. parent = "drop" /\ req.retry # 0
      BY <1>2 DEF DropRetried, AttemptInv, PhaseInv
    <2>2. PICK k \in Stages : req.retry <= k /\ disk' = [disk EXCEPT ![k] = Absent]
      BY <1>2 DEF DropRetried, UnlinkNext
    <2> QED BY <2>1, <2>2 DEF IInv, TypeOK, Chains
  <1>3. CASE ChildCut
    <2>1. PICK k \in Stages : child.next <= k /\ disk' = [disk EXCEPT ![k] = Absent]
      BY <1>3 DEF ChildCut, UnlinkNext
    <2> QED BY <1>3, <2>1 DEF ChildCut, Cutting, IInv, TypeOK, Chains
  <1>4. ASSUME NEW class \in Classes, NEW kept \in BOOLEAN, ChildRunStage(class, kept)
        PROVE  FALSE
    <2>1. child.pc = "run" /\ \A u \in Stages : u # child.next => disk'[u] = disk[u]
      BY <1>4 DEF ChildRunStage, IInv, TypeOK, Chains
    <2>2. t = child.next
      BY <2>1
    <2> QED BY <2>1, <2>2, RunsOnAbsent, StageNumbers DEF Restorable
  <1> QED BY <1>1, <1>2, <1>3, <1>4

(* The stages before the one an attempt retries, resumes or reruns from    *)
(* are on disk when it ends, whatever it met and however it ended: every   *)
(* invalidate_from lies at or behind what was asked or behind a gap.       *)
THEOREM PrefixIsKept == Spec => PrefixKept
  <1>1. ASSUME IInv, AttemptInv, [Next]_vars, NEW t \in Stages,
               Running, t < Asked, Authoritative(disk)[t] # Absent
        PROVE  disk'[t] = disk[t]
    <2> SUFFICES ASSUME disk'[t] # disk[t] PROVE FALSE
      OBVIOUS
    <2>1. CASE parent = "drop" /\ req.retry # 0 /\ req.retry <= t
      <3>1. Asked = req.retry
        BY <2>1 DEF Asked
      <3>2. req.retry \in 0..StageCount
        BY <1>1, Typed
      <3> QED BY <1>1, <2>1, <3>1, <3>2, StageNumbers
    <2>2. CASE Cutting /\ child.next <= t
      BY <1>1, <2>2 DEF AttemptInv, KeepInv, NoneKeptFrom, Restorable
    <2> QED BY <1>1, <2>1, <2>2, OnlyCutsDelete DEF Restorable
  <1>2. IInv /\ AttemptInv /\ [Next]_vars =>
          [\A t \in Stages :
              (Running /\ t < Asked /\ Authoritative(disk)[t] # Absent)
                  => disk'[t] = disk[t]]_vars
    BY <1>1
  <1> QED BY <1>2, AttemptInductive, PTL DEF Spec, PrefixKept

(* No phase of an attempt deletes what an earlier phase of it computed,    *)
(* saved and left reusable, whichever stages the batch resumes, retries or *)
(* reruns.  Only the opening phase of an explicit career or board rerun    *)
(* starts over at the stage that was named, and even there the stages      *)
(* before it stay.                                                         *)
THEOREM OwnWorkIsKept == Spec => OwnWorkKept
  <1>1. ASSUME IInv, AttemptInv, [Next]_vars, NEW t \in Stages,
               Authoritative(disk)[t] # Absent, disk[t].phase > first,
               ~StartedOver(t)
        PROVE  disk'[t] = disk[t]
    <2> SUFFICES ASSUME disk'[t] # disk[t] PROVE FALSE
      OBVIOUS
    <2>1. CASE parent = "drop" /\ req.retry # 0 /\ req.retry <= t
      <3>1. first = phases
        BY <1>1, <2>1 DEF AttemptInv, PhaseInv
      <3>2. disk[t].phase <= phases
        BY <1>1 DEF AttemptInv, PhaseInv
      <3> QED BY <1>1, <3>1, <3>2, Typed
    <2>2. CASE Cutting /\ child.next <= t
      <3>1. CASE ~StartsOver
        BY <1>1, <2>2, <3>1 DEF AttemptInv, KeepInv, NoneOwnFrom, Own, Restorable
      <3>2. CASE StartsOver
        <4>1. req.rerun # 0 /\ DownstreamRerun = req.rerun
          BY <3>2 DEF StartsOver, DownstreamRerun
        <4>2. Asked = req.rerun
          BY <1>1, <4>1 DEF AttemptInv, PhaseInv, Asked
        <4>3. t < Asked
          <5>1. Asked \in Stages
            BY <1>1, Typed
          <5>2. ~(Asked <= t)
            BY <1>1, <3>2, <4>1, <4>2 DEF StartedOver, StartsOver
          <5> QED BY <5>1, <5>2, StageNumbers
        <4> QED BY <1>1, <2>2, <4>3 DEF AttemptInv, KeepInv, NoneKeptFrom, Restorable
      <3> QED BY <3>1, <3>2
    <2> QED BY <1>1, <2>1, <2>2, OnlyCutsDelete DEF Restorable
  <1>2. IInv /\ AttemptInv /\ [Next]_vars =>
          [\A t \in Stages :
              (/\ Authoritative(disk)[t] # Absent
               /\ disk[t].phase > first
               /\ ~StartedOver(t)) => disk'[t] = disk[t]]_vars
    BY <1>1
  <1> QED BY <1>2, AttemptInductive, PTL DEF Spec, OwnWorkKept

(* A complete completion is a result that was returned or recovered.       *)
LEMMA CompleteResults ==
  ASSUME IInv, AttemptInv, [Next]_vars, ledger' # ledger, Complete(ledger'.chain)
  PROVE  /\ parent \notin {"idle", "drop"}
         /\ \E chain \in {ctx, best, Recovered} : ledger'.chain = chain /\ Gapless(chain)
  <1>1. \A chain : PublishResult(chain) => ledger'.chain = chain
    BY DEF PublishResult
  <1>2. \A chain : ~PublishFailure(chain)
    <2>1. \A chain : ~Complete(FailurePrefix(chain))
      BY StageNumbers, StageAssumption DEF Complete, FailurePrefix
    <2> QED BY <2>1 DEF PublishFailure
  <1>3. \/ PublishResult(ctx) /\ child.pc = "run" /\ parent \in PhasePcs
        \/ PublishResult(Recovered) /\ parent \in PhasePcs
        \/ PublishResult(best) /\ parent = "gate"
    <2>1. Batch => GateStop
      BY <1>2 DEF Batch, DropRetried, DropDone, RerunRefused, SelectUpstream,
         SelectDownstream, RouteExhausted, RouteDiscovery, RouteDownstream,
         GateShort, GateOpening
    <2>2. ~Child /\ ~BatchCrash /\ ~(UNCHANGED vars)
      BY DEF Child, ChildInspect, ChildCut, ChildCutDone, ChildRunStage, BatchCrash, vars
    <2>3. \A resume, rerun, noResume : ~Invoke(resume, rerun, noResume)
      BY DEF Invoke
    <2>4. Outcome => \/ PublishResult(ctx) /\ child.pc = "run" /\ parent \in PhasePcs
                     \/ PublishResult(Recovered) /\ parent \in PhasePcs
      BY <1>2 DEF Outcome, UpstreamReturned, UpstreamTimedOut, UpstreamRaised,
         DiscoveryReturned, DiscoveryFailed, DownstreamReturned,
         DownstreamTimedOut, DownstreamRaised, ChildReturned, PhasePcs
    <2> QED BY <2>1, <2>2, <2>3, <2>4 DEF Next, GateStop
  <1>4. child.pc = "run" => Gapless(ctx)
    <2>1. child.next \in Nat
      <3>1. child.next \in 1..End
        BY DEF IInv, TypeOK
      <3> QED BY <3>1, StageNumbers
    <2> SUFFICES ASSUME child.pc = "run", NEW t \in Stages, NEW u \in Stages,
                        t < u, ctx[u] # Absent
                 PROVE  ctx[t] # Absent
      BY DEF Gapless
    <2>2. ctx[t] # Absent <=> t < child.next
      BY DEF IInv, ChildInv
    <2>3. u < child.next
      BY DEF IInv, ChildInv
    <2>4. t \in Nat /\ u \in Nat
      BY StageNumbers
    <2> QED BY <2>1, <2>2, <2>3, <2>4
  <1>5. Gapless(best) /\ Gapless(Recovered)
    BY RecoveredIsGapless DEF AttemptInv, FreshInv
  <1> QED BY <1>1, <1>3, <1>4, <1>5 DEF PhasePcs

(* When an automatic retry ends in a complete result, the retried stage    *)
(* and all behind it were computed in that attempt: the failure that is    *)
(* being retried does not come back through the files, the parent's copy   *)
(* or recovery after a kill.                                               *)
THEOREM RetriesAreFresh == Spec => RetryIsFresh
  <1>1. ASSUME IInv, AttemptInv, [Next]_vars, ledger' # ledger,
               req.retry # 0, Complete(ledger'.chain),
               NEW t \in req.retry..StageCount
        PROVE  ledger'.chain[t].phase > first
    <2>1. PICK chain \in {ctx, best, Recovered} : ledger'.chain = chain /\ Gapless(chain)
      BY <1>1, CompleteResults
    <2>2. NewFrom(req.retry, chain)
      BY <1>1, CompleteResults, RecoveredIsGapless DEF AttemptInv, FreshInv
    <2>3. req.retry \in Nat \ {0}
      BY <1>1, Typed
    <2>4. t \in Stages /\ req.retry <= t /\ (t = StageCount \/ t < StageCount)
      BY <2>3, StageAssumption DEF Stages
    <2>5. chain[t] # Absent
      BY <1>1, <2>1, <2>4, StageNumbers DEF Complete, Gapless
    <2> QED BY <2>1, <2>2, <2>4, <2>5 DEF NewFrom
  <1>2. IInv /\ AttemptInv /\ [Next]_vars =>
          [(ledger' # ledger /\ req.retry # 0 /\ Complete(ledger'.chain))
              => \A t \in req.retry..StageCount : ledger'.chain[t].phase > first]_vars
    BY <1>1
  <1> QED BY <1>2, AttemptInductive, PTL DEF Spec, RetryIsFresh

-----------------------------------------------------------------------------
(* The reusable prefix on disk implements the abstract chain. *)

LEMMA StageOrder ==
  \A t, u \in Stages :
     /\ t <= t
     /\ ~(t < u) <=> u <= t
     /\ t < u => t <= u /\ t # u
     /\ t <= u /\ t # u => t < u
     /\ \A v \in Stages : t <= u /\ u < v => t < v
  BY StageNumbers

LEMMA SamePrefix ==
  ASSUME NEW one, NEW other, NEW t \in Stages,
         \A u \in Stages : u <= t => one[u] = other[u]
  PROVE  Authoritative(one)[t] = Authoritative(other)[t]
  <1> DEFINE All(store) == \A u \in Stages : u <= t => Accepts(store[u], FALSE)
  <1>1. /\ Authoritative(one)[t] = IF All(one) THEN one[t] ELSE Absent
        /\ Authoritative(other)[t] = IF All(other) THEN other[t] ELSE Absent
    BY DEF Authoritative
  <1>2. All(one) <=> All(other)
    OBVIOUS
  <1>3. one[t] = other[t]
    BY StageOrder
  <1> HIDE DEF All
  <1> QED BY <1>1, <1>2, <1>3

(* Unlinking stage k cuts the reusable prefix back to the stages before k. *)
LEMMA UnlinkCutsBack ==
  ASSUME NEW store \in Chains, NEW k \in Stages
  PROVE  Authoritative([store EXCEPT ![k] = Absent])
            = Before(Authoritative(store), k)
  <1> DEFINE cut == [store EXCEPT ![k] = Absent]
  <1>1. \A t \in Stages : cut[t] = IF t = k THEN Absent ELSE store[t]
    BY DEF Chains
  <1>2. ~Accepts(Absent, FALSE)
    BY AcceptedIsPresent
  <1> HIDE DEF cut
  <1>3. ASSUME NEW t \in Stages
        PROVE  Authoritative(cut)[t] = Before(Authoritative(store), k)[t]
    <2>1. CASE t < k
      <3>1. \A u \in Stages : u <= t => cut[u] = store[u]
        BY <1>1, <2>1, StageOrder
      <3>2. Authoritative(cut)[t] = Authoritative(store)[t]
        BY <3>1, SamePrefix
      <3> QED BY <2>1, <3>2 DEF Before
    <2>2. CASE ~(t < k)
      <3>1. k <= t /\ ~Accepts(cut[k], FALSE)
        BY <1>1, <1>2, <2>2, StageOrder
      <3>2. Authoritative(cut)[t] = Absent
        BY <3>1, RestorableStages
      <3> QED BY <2>2, <3>2 DEF Before
    <2> QED BY <2>1, <2>2
  <1> QED BY <1>3 DEF Authoritative, Before, cut

(* Saving stage s, with nothing on disk from s on, extends a prefix that   *)
(* holds all its predecessors if the result is reusable and changes        *)
(* nothing otherwise.                                                      *)
LEMMA SaveExtends ==
  ASSUME NEW store \in Chains, NEW s \in Stages, NEW slot \in Slots,
         \A t \in Stages : s <= t => store[t] = Absent,
         Authoritative([store EXCEPT ![s] = slot]) # Authoritative(store)
  PROVE  /\ slot.class = "reusable"
         /\ \A t \in Stages : t < s => Accepts(store[t], FALSE)
         /\ Authoritative([store EXCEPT ![s] = slot])
              = [Authoritative(store) EXCEPT ![s] = slot]
  <1> DEFINE saved == [store EXCEPT ![s] = slot]
             A == Authoritative(store)
             B == Authoritative(saved)
  <1>1. \A t \in Stages : saved[t] = IF t = s THEN slot ELSE store[t]
    BY DEF Chains
  <1>2. ~Accepts(Absent, FALSE)
    BY AcceptedIsPresent
  <1> HIDE DEF saved
  <1>3. \A t \in Stages : t < s => B[t] = A[t]
    <2> SUFFICES ASSUME NEW t \in Stages, t < s PROVE B[t] = A[t]
      OBVIOUS
    <2>1. \A u \in Stages : u <= t => saved[u] = store[u]
      BY <1>1, StageOrder
    <2> QED BY <2>1, SamePrefix
  <1>4. \A t \in Stages : s <= t => A[t] = Absent
    BY <1>2, RestorableStages, StageOrder
  <1>5. \A t \in Stages : s < t => B[t] = Absent
    <2> SUFFICES ASSUME NEW t \in Stages, s < t PROVE B[t] = Absent
      OBVIOUS
    <2>1. saved[t] = Absent /\ t <= t
      BY <1>1, StageOrder
    <2> QED BY <1>2, <2>1, RestorableStages
  <1>6. DOMAIN A = Stages /\ DOMAIN B = Stages
        /\ A = [t \in Stages |-> A[t]] /\ B = [t \in Stages |-> B[t]]
    BY DEF Authoritative
  <1>7. B[s] # Absent
    <2> SUFFICES ASSUME B[s] = Absent PROVE FALSE
      OBVIOUS
    <2> HIDE DEF A, B
    <2>1. \A t \in Stages : B[t] = A[t]
      BY <1>3, <1>4, <1>5, StageOrder
    <2>2. A = B
      BY <1>6, <2>1
    <2> QED BY <2>2 DEF A, B, saved
  <1>8. B[s] = saved[s] /\ \A u \in Stages : u <= s => Accepts(saved[u], FALSE)
    BY <1>7, RestorableStages
  <1>9. slot.class = "reusable"
    <2>1. Accepts(saved[s], FALSE)
      BY <1>8, StageOrder
    <2> QED BY <1>1, <2>1 DEF Accepts
  <1>10. \A t \in Stages : t < s => Accepts(store[t], FALSE)
    BY <1>1, <1>8, StageOrder
  <1>11. B = [A EXCEPT ![s] = slot]
    <2> HIDE DEF A, B
    <2>1. \A t \in Stages : B[t] = IF t = s THEN slot ELSE A[t]
      BY <1>1, <1>3, <1>4, <1>5, <1>8, StageOrder
    <2> QED BY <1>6, <2>1
  <1> QED BY <1>9, <1>10, <1>11 DEF saved

LEMMA SameOperators ==
  /\ Reusable!Stages = Stages /\ Reusable!Absent = Absent
  /\ Reusable!NoChain = NoChain
  /\ \A store, eff : Reusable!Before(store, eff) = Before(store, eff)
  BY DEF Reusable!Stages, Reusable!Absent, Reusable!NoChain, Reusable!Before,
         Stages, Absent, NoChain, Before

LEMMA CutIsCutBack ==
  ASSUME IInv, DropRetried \/ ChildCut
  PROVE  Reusable!Next
  <1>1. PICK k \in Stages : disk' = [disk EXCEPT ![k] = Absent]
    BY DEF DropRetried, ChildCut, UnlinkNext
  <1>2. Authoritative([disk EXCEPT ![k] = Absent]) = Before(Authoritative(disk), k)
    BY UnlinkCutsBack DEF IInv, TypeOK
  <1>3. Reusable!CutBack(k)
    BY <1>1, <1>2, SameOperators DEF Reusable!CutBack
  <1> QED BY <1>3, SameOperators DEF Reusable!Next

LEMMA RunIsExtend ==
  ASSUME IInv, NEW class \in Classes, NEW kept \in BOOLEAN,
         ChildRunStage(class, kept),
         Authoritative(disk)' # Authoritative(disk)
  PROVE  Reusable!Next
  <1> DEFINE s == child.next
             base == IF s = 1 THEN 0 ELSE ctx[s - 1].phase
             execution == [phase |-> phases, base |-> base, class |-> class]
             A == Authoritative(disk)
  <1>1. /\ disk' = [disk EXCEPT ![s] = IF kept THEN execution ELSE Absent]
        /\ child.pc = "run" /\ s <= child.stop
    BY DEF ChildRunStage
  <1>2. s \in Stages /\ s \in Nat
    BY <1>1, StageAssumption DEF IInv, TypeOK, Stages, End
  <1>3. s # 1 => s - 1 \in Stages
    BY <1>2, StageAssumption DEF Stages
  <1>4. execution \in Slots
    <2>1. base \in Nat
      BY <1>3 DEF IInv, TypeOK, Chains, Slots
    <2> QED BY <2>1 DEF IInv, TypeOK, Slots
  <1>5. \A t \in Stages : s <= t => disk[t] = Absent /\ A[t] = Absent
    BY <1>1, RunsOnAbsent
  <1> DEFINE slot == IF kept THEN execution ELSE Absent
  <1>6. disk' = [disk EXCEPT ![s] = slot] /\ slot \in Slots /\ disk \in Chains
    BY <1>1, <1>4, AbsentIsSlot DEF IInv, TypeOK
  <1>7. slot = execution \/ slot = Absent
    OBVIOUS
  <1>8. execution.class = class /\ execution.base = base
    OBVIOUS
  <1> HIDE DEF slot, execution
  <1>9. /\ slot.class = "reusable"
        /\ \A t \in Stages : t < s => Accepts(disk[t], FALSE)
        /\ Authoritative([disk EXCEPT ![s] = slot]) = [A EXCEPT ![s] = slot]
    <2>1. Authoritative([disk EXCEPT ![s] = slot]) # Authoritative(disk)
      BY <1>6
    <2>2. \A t \in Stages : s <= t => disk[t] = Absent
      BY <1>5
    <2> HIDE DEF s
    <2> QED BY <2>1, <2>2, <1>2, <1>6, SaveExtends, Zenon
  <1>10. slot = execution
    BY <1>7, <1>9 DEF Absent
  <1>11. \A t \in Stages : t < s => A[t] # Absent /\ A[t] = disk[t]
    <2> SUFFICES ASSUME NEW t \in Stages, t < s
                 PROVE  A[t] # Absent /\ A[t] = disk[t]
      OBVIOUS
    <2>1. \A u \in Stages : u <= t => u < s
      BY <1>2, StageOrder
    <2>2. \A u \in Stages : u <= t => Accepts(disk[u], FALSE)
      BY <1>9, <2>1
    <2> QED BY <2>2, RestorableStages
  <1>12. Reusable!HasLength(s - 1)
    <2>1. \A t \in Stages : t <= s - 1 <=> t < s
      BY <1>2, StageNumbers
    <2>2. \A t \in Stages : A[t] # Absent <=> t <= s - 1
      BY <1>2, <1>5, <1>11, <2>1, StageOrder
    <2> QED BY <2>2, SameOperators DEF Reusable!HasLength
  <1> DEFINE B == Authoritative(disk)'
  <1>13. B = [A EXCEPT ![s] = slot] /\ B[s] = slot
    <2>1. B = [A EXCEPT ![s] = slot]
      BY <1>6, <1>9
    <2>2. [A EXCEPT ![s] = slot][s] = slot
      BY <1>2 DEF Authoritative
    <2> QED BY <2>1, <2>2
  <1>14. B[s].base = IF s = 1 THEN 0 ELSE A[s - 1].phase
    <2>1. s # 1 => s - 1 < s
      BY <1>2
    <2>2. s # 1 => A[s - 1] = ctx[s - 1]
      BY <1>1, <1>3, <1>11, <2>1 DEF IInv, ChildInv
    <2> QED BY <1>8, <1>10, <1>13, <2>2
  <1>15. Reusable!Extend(s)
    BY <1>9, <1>12, <1>13, <1>14 DEF Reusable!Extend
  <1> QED BY <1>2, <1>15, SameOperators DEF Reusable!Next

(* Kills, retries, resumes and reruns, phases that overlap what is on disk *)
(* and results that cannot be saved: the files recovery would read are at  *)
(* every moment one chain that is extended by its next stage or cut back.  *)
THEOREM ChainIsImplemented == Spec => ImplementsChain
  <1>1. Init => Reusable!Init
    <2> SUFFICES ASSUME Init PROVE Authoritative(disk) = NoChain
      BY SameOperators DEF Reusable!Init
    <2> QED BY DEF Init, Authoritative, NoChain
  <1>2. IInv /\ [Next]_vars => [Reusable!Next]_(Authoritative(disk))
    <2> SUFFICES ASSUME IInv, [Next]_vars, Authoritative(disk)' # Authoritative(disk)
                 PROVE  Reusable!Next
      OBVIOUS
    <2>1. disk' # disk
      OBVIOUS
    <2> QED BY <2>1, DiskSteps, CutIsCutBack, RunIsExtend
  <1> QED BY <1>1, <1>2, Inductive, PTL DEF Spec, ImplementsChain, Reusable!Spec
=============================================================================
