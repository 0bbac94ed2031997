-------------------------- MODULE Budgets_proofs --------------------------
(***************************************************************************)
(* Safety of the budgets in time: those of the fetches of a stage, for any *)
(* hosts, times, retries and limits, and that of the process in which a    *)
(* company runs, for any set of helper processes.  The two specifications, *)
(* Spec and PBSpec, stand side by side; nothing is composed.               *)
(***************************************************************************)
EXTENDS FetchBudgets, ProcessBudget, TLAPS

-----------------------------------------------------------------------------
(* The fetches of a stage.                                                 *)

(* A fetch goes to the network only with time before the deadline of its   *)
(* stage, and once that deadline is passed nothing more is added.          *)
TimeInv ==
    /\ overrun > 0 => clock > StageDeadline
    /\ call.pc = "transport" => clock + call.timeout <= StageDeadline /\ call.timeout > 0
    /\ overrun <= Grace + Timeout
    /\ renders = 0 => overrun <= Grace

(* Guesses leave the reserve, and a fetch at the network found its circuit *)
(* closed.                                                                 *)
ScopeInv ==
    /\ scope.speculative <= Limit - Reserved /\ scope.speculative <= scope.dispatched
    /\ told = "dispatches" => scope.dispatched = Limit
    /\ call.pc # "idle" => told = "none" /\ call.host \in Hosts
    /\ scope.refused = scope.denials
    /\ call.pc = "transport" /\ scope.open => ~CircuitOpen
    /\ DeniersAreLeftAlone

IInv == TypeOK /\ TimeInv /\ ScopeInv /\ BlameIsJust

-----------------------------------------------------------------------------

LEMMA NewScopeIsScope ==
  ASSUME NEW open \in BOOLEAN
  PROVE  NewScope(open) \in Scopes
<1>1. [h \in Hosts |-> 0] \in [Hosts -> Nat]
  OBVIOUS
<1>2. 0 \in 0..Limit
  BY BudgetAssumption
<1> QED
  BY <1>1, <1>2 DEF NewScope, Scopes

LEMMA SomeOutcomes ==
  /\ {"none", "reserved", "dispatches", "stage time", "company time"} \subseteq Outcomes
  /\ Answers \subseteq Outcomes
BY DEF Outcomes

LEMMA IdleIsCall == Idle \in Calls
  BY BudgetAssumption DEF Idle, Calls

LEMMA StageDeadlineIsInt ==
  /\ StageDeadline \in Int
  /\ stage' = stage => StageDeadline' = StageDeadline
<1>1. StageDeadline = Deadline \/ StageDeadline = Deadline - StageReserve
  BY BudgetAssumption DEF StageDeadline
<1>2. Deadline \in Int /\ Deadline - StageReserve \in Int
  BY BudgetAssumption
<1> QED
  BY <1>1, <1>2 DEF StageDeadline

LEMMA InitInv == Init => IInv
  <1> SUFFICES ASSUME Init PROVE IInv
    OBVIOUS
  <1> USE BudgetAssumption DEF Init
  <1>1. TypeOK
    <2>1. policy \in Policies /\ stage \in Stages
      BY DEF NoPolicy, Policies, Stages
    <2>2. scope \in Scopes /\ call \in Calls /\ told \in Outcomes
      BY NewScopeIsScope, IdleIsCall, SomeOutcomes
    <2>3. clock \in Nat /\ overrun \in Nat /\ renders \in 0..RenderBudget
      OBVIOUS
    <2> QED
      BY <2>1, <2>2, <2>3 DEF TypeOK
  <1>2. TimeInv
    BY DEF TimeInv, Idle
  <1>3. ScopeInv
    BY DEF ScopeInv, Idle, NewScope, DeniersAreLeftAlone
  <1> QED
    BY <1>1, <1>2, <1>3 DEF IInv, BlameIsJust

-----------------------------------------------------------------------------
(* What a stage does around its fetches.                                   *)

StageStep ==
    \/ Work \/ NextStage \/ OpenPolicy \/ ClosePolicy \/ OpenScope \/ CloseScope
    \/ \E h \in Hosts, speculative \in BOOLEAN : Begin(h, speculative)

LEMMA StageStepsKeepType == TypeOK /\ StageStep => TypeOK'
  <1> SUFFICES ASSUME TypeOK, StageStep PROVE TypeOK'
    OBVIOUS
  <1> USE BudgetAssumption DEF TypeOK
  <1>1. CASE Work
    BY <1>1 DEF Work
  <1>2. CASE NextStage
    BY <1>2, SomeOutcomes DEF NextStage, Stages
  <1>3. CASE OpenPolicy
    <2>1. clock + LocalSeconds \in Nat
      OBVIOUS
    <2>2. policy' \in Policies
      BY <1>3, <2>1 DEF OpenPolicy, Policies
    <2> QED
      BY <1>3, <2>2 DEF OpenPolicy
  <1>4. CASE ClosePolicy
    BY <1>4, SomeOutcomes DEF ClosePolicy, NoPolicy, Policies
  <1>5. CASE OpenScope
    BY <1>5, NewScopeIsScope, SomeOutcomes DEF OpenScope
  <1>6. CASE CloseScope
    BY <1>6, NewScopeIsScope, SomeOutcomes DEF CloseScope
  <1>7. ASSUME NEW h \in Hosts, NEW s \in BOOLEAN, Begin(h, s) PROVE TypeOK'
    <2>1. call' \in Calls
      BY <1>7 DEF Begin, Calls
    <2> QED
      BY <1>7, <2>1, SomeOutcomes DEF Begin
  <1> QED
    BY <1>1, <1>2, <1>3, <1>4, <1>5, <1>6, <1>7 DEF StageStep

(* What was just to say remains so as time passes.                         *)
LEMMA BlameStays ==
  ASSUME NEW now \in Int, NEW later \in Int, later >= now,
         NEW delay \in Int, NEW end \in Int, now + delay >= end
  PROVE  later + delay >= end
OBVIOUS

LEMMA StageStepsKeepTime ==
  TypeOK /\ TimeInv /\ BlameIsJust /\ StageStep => TimeInv' /\ BlameIsJust'
  <1> SUFFICES ASSUME TypeOK, TimeInv, BlameIsJust, StageStep
               PROVE  TimeInv' /\ BlameIsJust'
    OBVIOUS
  <1>0. clock \in Int /\ MaxDelay \in Int /\ Deadline \in Int /\ StageReserve \in Int
    BY BudgetAssumption DEF TypeOK
  <1>1. CASE Work
    <2>1. /\ clock' = clock + 1 /\ call.pc = "idle"
          /\ UNCHANGED <<stage, call, told, overrun, renders>>
      BY <1>1 DEF Work, Working
    <2>2. TimeInv'
      BY <1>0, <2>1, StageDeadlineIsInt DEF TimeInv
    <2>3. BlameIsJust'
      <3>0. Deadline - StageReserve \in Int
        BY <1>0
      <3>1. clock' \in Int /\ clock' >= clock /\ told' = told
        BY <1>0, <2>1
      <3>2. told = "company time" => clock' + MaxDelay >= Deadline
        BY <1>0, <3>1, BlameStays DEF BlameIsJust
      <3>3. told = "stage time" => clock' + MaxDelay >= Deadline - StageReserve
        BY <1>0, <3>0, <3>1, BlameStays DEF BlameIsJust
      <3> QED
        BY <3>1, <3>2, <3>3 DEF BlameIsJust
    <2> QED
      BY <2>2, <2>3
  <1>2. CASE NextStage
    <2>1. /\ call.pc = "idle" /\ told' = "none" /\ overrun' = 0 /\ call' = call
      BY <1>2 DEF NextStage, Working
    <2>2. TimeInv'
      BY <2>1, BudgetAssumption DEF TimeInv
    <2>3. BlameIsJust'
      BY <2>1 DEF BlameIsJust
    <2> QED
      BY <2>2, <2>3
  <1>3. ASSUME UNCHANGED <<clock, stage, overrun, renders>>,
               call'.pc # "transport" \/ call' = call,
               told' = "none" \/ told' = told
        PROVE  TimeInv' /\ BlameIsJust'
    <2>1. TimeInv'
      BY <1>3, StageDeadlineIsInt DEF TimeInv
    <2>2. BlameIsJust'
      BY <1>3 DEF BlameIsJust
    <2> QED
      BY <2>1, <2>2
  <1>4. CASE OpenPolicy \/ ClosePolicy
    BY <1>3, <1>4 DEF OpenPolicy, ClosePolicy
  <1>5. CASE OpenScope \/ CloseScope
    BY <1>3, <1>5 DEF OpenScope, CloseScope
  <1>6. CASE \E h \in Hosts, s \in BOOLEAN : Begin(h, s)
    BY <1>3, <1>6 DEF Begin
  <1> QED
    BY <1>1, <1>2, <1>4, <1>5, <1>6 DEF StageStep

LEMMA StageStepsKeepScope == TypeOK /\ ScopeInv /\ StageStep => ScopeInv'
  <1> SUFFICES ASSUME TypeOK, ScopeInv, StageStep PROVE ScopeInv'
    OBVIOUS
  <1> USE BudgetAssumption
      DEF ScopeInv, DeniersAreLeftAlone, CircuitOpen, Working
  <1>1. CASE Work
    BY <1>1 DEF Work
  <1>2. CASE NextStage
    BY <1>2 DEF NextStage
  <1>3. CASE OpenPolicy
    BY <1>3 DEF OpenPolicy
  <1>4. CASE ClosePolicy
    BY <1>4 DEF ClosePolicy
  <1>5. CASE OpenScope
    BY <1>5 DEF OpenScope, NewScope
  <1>6. CASE CloseScope
    BY <1>6 DEF CloseScope, NewScope
  <1>7. ASSUME NEW h \in Hosts, NEW s \in BOOLEAN, Begin(h, s) PROVE ScopeInv'
    BY <1>7 DEF Begin
  <1> QED
    BY <1>1, <1>2, <1>3, <1>4, <1>5, <1>6, <1>7 DEF StageStep
-----------------------------------------------------------------------------
(* An attempt without time, rejected, or sent.                             *)

AttemptStep == OutOfTime \/ Reject \/ Dispatch

LEMMA RemainingIsBounded ==
  ASSUME TypeOK, NEW t \in Int
  PROVE  Remaining(t) \in Int /\ Remaining(t) <= StageDeadline - t
<1>1. policy.deadline \in Int /\ StageDeadline \in Int
  BY StageDeadlineIsInt DEF TypeOK, Policies
<1>2. CASE policy.on /\ policy.deadline < StageDeadline
  BY <1>1, <1>2 DEF Remaining
<1>3. CASE ~(policy.on /\ policy.deadline < StageDeadline)
  BY <1>1, <1>3 DEF Remaining
<1> QED
  BY <1>2, <1>3

(* A deadline that is blamed is the one that leaves no more than delay.    *)
LEMMA BlamedIsOver ==
  ASSUME TypeOK, NEW t \in Nat, NEW delay \in 0..MaxDelay, NEW otherwise \in Answers,
         Remaining(t) <= delay
  PROVE  /\ DeadlineReason(otherwise) \in Outcomes
         /\ DeadlineReason(otherwise) = "company time" => t + MaxDelay >= Deadline
         /\ DeadlineReason(otherwise) = "stage time" => t + MaxDelay >= Deadline - StageReserve
         /\ DeadlineReason(otherwise) # "dispatches"
<1>1. CASE policy.on /\ policy.deadline < StageDeadline
  BY <1>1, SomeOutcomes DEF DeadlineReason, Answers
<1>2. CASE ~(policy.on /\ policy.deadline < StageDeadline)
  <2>1. StageDeadline - t <= delay
    BY <1>2 DEF Remaining
  <2>2. t + MaxDelay >= StageDeadline
    BY <2>1, StageDeadlineIsInt, BudgetAssumption
  <2>3. CASE stage = "career" /\ StageReserve > 0
    <3>1. DeadlineReason(otherwise) = "stage time"
      BY <1>2, <2>3 DEF DeadlineReason
    <3> QED
      BY <3>1, <2>2, <2>3, SomeOutcomes DEF StageDeadline
  <2>4. CASE ~(stage = "career" /\ StageReserve > 0)
    <3>1. DeadlineReason(otherwise) = "company time"
      BY <1>2, <2>4 DEF DeadlineReason
    <3>2. StageDeadline = Deadline
      BY <2>4, BudgetAssumption DEF StageDeadline
    <3> QED
      BY <3>1, <3>2, <2>2, SomeOutcomes
  <2> QED
    BY <2>3, <2>4
<1> QED
  BY <1>1, <1>2

(* The step of a fetch that ends without going to the network again.       *)
LEMMA EndKeepsInv ==
  ASSUME IInv, NEW ending \in Outcomes, End(ending),
         clock' \in Nat, clock' >= clock, UNCHANGED <<stage, policy>>,
         scope' \in Scopes, renders' \in 0..RenderBudget, overrun' \in Nat,
         overrun' > 0 => clock' > StageDeadline,
         overrun' <= Grace + Timeout, renders' = 0 => overrun' <= Grace,
         scope'.speculative <= Limit - Reserved, scope'.speculative <= scope'.dispatched,
         scope'.refused = scope'.denials,
         \A h \in Hosts : scope'.refused[h] <= DenialLimit,
         ending = "dispatches" => scope'.dispatched = Limit,
         ending = "company time" => clock' + MaxDelay >= Deadline,
         ending = "stage time" => clock' + MaxDelay >= Deadline - StageReserve
  PROVE  IInv'
<1>1. call' = Idle /\ told' = ending
  BY DEF End
<1>2. call'.pc = "idle"
  BY <1>1 DEF Idle
<1>3. TypeOK'
  BY <1>1, IdleIsCall DEF IInv, TypeOK
<1>4. TimeInv'
  BY <1>2, StageDeadlineIsInt DEF TimeInv
<1>5. ScopeInv'
  BY <1>1, <1>2 DEF ScopeInv, DeniersAreLeftAlone
<1>6. BlameIsJust'
  BY <1>1 DEF BlameIsJust
<1> QED
  BY <1>3, <1>4, <1>5, <1>6 DEF IInv

LEMMA AttemptStepsKeepInv == IInv /\ AttemptStep => IInv'
  <1> SUFFICES ASSUME IInv, AttemptStep PROVE IInv'
    OBVIOUS
  <1>0. /\ clock \in Nat /\ renders \in 0..RenderBudget /\ overrun \in Nat /\ scope \in Scopes
        /\ scope.speculative <= Limit - Reserved /\ scope.speculative <= scope.dispatched
        /\ scope.refused = scope.denials
        /\ \A h \in Hosts : scope.refused[h] <= DenialLimit
        /\ overrun <= Grace + Timeout /\ (renders = 0 => overrun <= Grace)
        /\ overrun > 0 => clock > StageDeadline
    BY DEF IInv, TypeOK, TimeInv, ScopeInv, DeniersAreLeftAlone
  <1>a. TypeOK
    BY DEF IInv
  <1>b. ASSUME UNCHANGED <<clock, stage, policy, scope, overrun, renders>>,
               NEW ending \in Outcomes, End(ending),
               ending = "dispatches" => scope.dispatched = Limit,
               ending = "company time" => clock + MaxDelay >= Deadline,
               ending = "stage time" => clock + MaxDelay >= Deadline - StageReserve
        PROVE  IInv'
    <2>1. clock' = clock /\ scope' = scope /\ renders' = renders /\ overrun' = overrun
      BY <1>b
    <2>2. clock' \in Nat /\ clock' >= clock /\ renders' \in 0..RenderBudget /\ overrun' \in Nat
      BY <1>0, <2>1
    <2>3. /\ overrun' > 0 => clock' > StageDeadline
          /\ overrun' <= Grace + Timeout /\ (renders' = 0 => overrun' <= Grace)
      BY <1>0, <2>1, Zenon
    <2>4. /\ scope' \in Scopes
          /\ scope'.speculative <= Limit - Reserved /\ scope'.speculative <= scope'.dispatched
          /\ scope'.refused = scope'.denials
          /\ \A h \in Hosts : scope'.refused[h] <= DenialLimit
      BY <1>0, <2>1, Zenon
    <2>5. /\ ending = "dispatches" => scope'.dispatched = Limit
          /\ ending = "company time" => clock' + MaxDelay >= Deadline
          /\ ending = "stage time" => clock' + MaxDelay >= Deadline - StageReserve
      BY <1>b, <2>1, Zenon
    <2> QED
      BY <1>b, <2>2, <2>3, <2>4, <2>5, EndKeepsInv
  <1>1. CASE OutOfTime
    <2>1. /\ UNCHANGED <<clock, stage, policy, scope, overrun, renders>>
          /\ Remaining(clock) <= 0 /\ End(DeadlineReason("timeout"))
      BY <1>1 DEF OutOfTime
    <2>2. 0 \in 0..MaxDelay /\ "timeout" \in Answers
      BY BudgetAssumption DEF Answers
    <2>3. /\ DeadlineReason("timeout") \in Outcomes
          /\ DeadlineReason("timeout") = "company time" => clock + MaxDelay >= Deadline
          /\ DeadlineReason("timeout") = "stage time" => clock + MaxDelay >= Deadline - StageReserve
          /\ DeadlineReason("timeout") # "dispatches"
      BY <1>0, <1>a, <2>1, <2>2, BlamedIsOver
    <2> QED
      BY <1>b, <2>1, <2>3
  <1>2. CASE Reject
    <2>1. UNCHANGED <<clock, stage, policy, scope, overrun, renders>>
      BY <1>2 DEF Reject
    <2>2. /\ "denied" \in Outcomes /\ "reserved" \in Outcomes /\ "dispatches" \in Outcomes
      BY SomeOutcomes DEF Answers
    <2>3. CASE End("denied")
      BY <1>b, <2>1, <2>2, <2>3
    <2>4. CASE End("reserved")
      BY <1>b, <2>1, <2>2, <2>4
    <2>5. CASE ~call.speculative /\ ~DispatchLeft /\ End("dispatches")
      <3>1. scope.dispatched = Limit
        BY <1>0, <2>5, BudgetAssumption DEF DispatchLeft, Scopes
      <3> QED
        BY <1>b, <2>1, <2>2, <2>5, <3>1
    <2> QED
      BY <1>2, <2>3, <2>4, <2>5 DEF Reject
  <1>3. CASE Dispatch
    <2>1. /\ call.pc = "attempt" /\ Remaining(clock) > 0 /\ (scope.open => ~CircuitOpen /\ DispatchLeft)
          /\ UNCHANGED <<clock, stage, policy, told, overrun, renders>>
      BY <1>3 DEF Dispatch
    <2>2. /\ call'.pc = "transport" /\ call'.host = call.host
          /\ call'.timeout = IF Remaining(clock) < Timeout THEN Remaining(clock) ELSE Timeout
      BY <1>3 DEF Dispatch, IInv, TypeOK, Calls
    <2>3. /\ Remaining(clock) \in Int /\ Remaining(clock) <= StageDeadline - clock
      BY <1>0, RemainingIsBounded DEF IInv
    <2>4. /\ call'.timeout \in 1..Timeout /\ clock + call'.timeout <= StageDeadline
      BY <1>0, <2>1, <2>2, <2>3, StageDeadlineIsInt, BudgetAssumption
    <2>5. call' \in Calls
      <3>1. call \in Calls /\ call'.timeout \in 0..Timeout
        BY <1>a, <2>4 DEF TypeOK
      <3>2. call' = [call EXCEPT !.pc = "transport", !.timeout = call'.timeout]
        BY <1>3, <2>2, <3>1 DEF Dispatch, Calls
      <3> QED
        BY <3>1, <3>2 DEF Calls
    <2>6. scope' \in Scopes /\ scope'.open = scope.open
          /\ scope'.speculative <= Limit - Reserved /\ scope'.speculative <= scope'.dispatched
          /\ scope'.refused = scope.refused /\ scope'.denials = scope.denials
      <3>1. CASE ~scope.open
        BY <1>0, <1>3, <3>1 DEF Dispatch
      <3>2. CASE scope.open /\ call.speculative
        <4>1. scope' = [scope EXCEPT !.dispatched = @ + 1, !.speculative = @ + 1]
          BY <1>3, <3>2 DEF Dispatch
        <4>2. /\ scope.dispatched + 1 \in 0..Limit /\ scope.speculative + 1 \in 0..Limit
              /\ scope.speculative + 1 <= Limit - Reserved
          BY <1>0, <2>1, <3>2, BudgetAssumption DEF DispatchLeft, Scopes
        <4>3. scope' \in Scopes
          BY <1>0, <4>1, <4>2 DEF Scopes
        <4>4. /\ scope'.open = scope.open /\ scope'.refused = scope.refused
              /\ scope'.denials = scope.denials
              /\ scope'.dispatched = scope.dispatched + 1
              /\ scope'.speculative = scope.speculative + 1
          BY <1>0, <4>1 DEF Scopes
        <4>5. scope.speculative + 1 <= scope.dispatched + 1
          BY <1>0 DEF Scopes
        <4> QED
          BY <4>2, <4>3, <4>4, <4>5
      <3>3. CASE scope.open /\ ~call.speculative
        <4>1. scope' = [scope EXCEPT !.dispatched = @ + 1]
          BY <1>3, <3>3 DEF Dispatch, Scopes
        <4>2. scope.dispatched + 1 \in 0..Limit
          BY <1>0, <2>1, <3>3, BudgetAssumption DEF DispatchLeft, Scopes
        <4> QED
          BY <1>0, <4>1, <4>2 DEF Scopes
      <3> QED
        BY <3>1, <3>2, <3>3
    <2>7. TypeOK'
      BY <2>1, <2>5, <2>6 DEF IInv, TypeOK
    <2>8. TimeInv'
      BY <1>0, <2>1, <2>2, <2>4, StageDeadlineIsInt DEF TimeInv
    <2>9. ScopeInv'
      BY <2>1, <2>2, <2>6 DEF IInv, ScopeInv, DeniersAreLeftAlone, CircuitOpen
    <2>10. BlameIsJust'
      BY <2>1 DEF IInv, BlameIsJust
    <2> QED
      BY <2>7, <2>8, <2>9, <2>10 DEF IInv
  <1> QED
    BY <1>1, <1>2, <1>3 DEF AttemptStep

-----------------------------------------------------------------------------
(* The answer of the transport.                                            *)

Seconds == 0..Timeout + Grace + Timeout

AnswerStep ==
    \E seconds \in Seconds, answer \in Answers :
       \/ Final(seconds, answer)
       \/ \E delay \in 0..MaxDelay : GivesUp(seconds, answer, delay) \/ Retry(seconds, answer, delay)

LEMMA PastTheDeadline ==
  ASSUME NEW t, t > StageDeadline
  PROVE  Past(t) = t - StageDeadline
BY DEF Past

(* Before an answer the deadline is not passed; after it, it is passed by  *)
(* what the transport took beyond its timeout.                             *)
LEMMA OverrunIsBounded ==
  ASSUME IInv, NEW seconds \in Seconds, NEW answer \in Answers,
         call.pc = "transport", TransportTakes(seconds, answer)
  PROVE  /\ overrun' \in Nat /\ renders' \in 0..RenderBudget
         /\ overrun' > 0 => clock + seconds > StageDeadline
         /\ overrun' <= Grace + Timeout /\ (renders' = 0 => overrun' <= Grace)
<1>1. /\ clock \in Nat /\ overrun \in Nat /\ renders \in 0..RenderBudget
      /\ call.timeout \in 0..Timeout /\ seconds \in Nat
      /\ clock + call.timeout <= StageDeadline /\ StageDeadline \in Int
      /\ overrun > 0 => clock > StageDeadline
  BY StageDeadlineIsInt, BudgetAssumption DEF IInv, TypeOK, Calls, TimeInv, Seconds
<1>2. overrun = 0 /\ Past(clock) = 0
  BY <1>1 DEF Past
<1>3. overrun' = Past(clock + seconds)
  <2>1. overrun' = overrun + Past(clock + seconds) - Past(clock)
    BY DEF TransportTakes
  <2>2. Past(clock + seconds) \in Int
    BY <1>1 DEF Past
  <2> QED
    BY <1>2, <2>1, <2>2
<1>4. CASE clock + seconds <= StageDeadline
  <2>1. overrun' = 0
    BY <1>1, <1>3, <1>4 DEF Past
  <2>2. renders' \in 0..RenderBudget
    <3>1. renders' = renders \/ (renders < RenderBudget /\ renders' = renders + 1)
      BY Zenon DEF TransportTakes
    <3> QED
      BY <1>1, <3>1, BudgetAssumption
  <2> QED
    BY <2>1, <2>2, BudgetAssumption
<1>5. CASE clock + seconds > StageDeadline
  <2>1. overrun' = clock + seconds - StageDeadline
    <3>1. Past(clock + seconds) = clock + seconds - StageDeadline
      BY <1>1, <1>5, PastTheDeadline
    <3> QED
      BY <1>3, <3>1
  <2>2. overrun' <= seconds - call.timeout
    BY <1>1, <2>1
  <2>3. CASE seconds <= call.timeout + Grace /\ renders' = renders
    <3>1. overrun' <= Grace /\ overrun' \in Nat
      BY <1>1, <1>5, <2>1, <2>2, <2>3, BudgetAssumption
    <3> QED
      BY <1>1, <1>5, <2>3, <3>1, BudgetAssumption
  <2>4. CASE /\ renders < RenderBudget /\ renders' = renders + 1
             /\ seconds <= call.timeout + Grace + call.timeout
    <3>1. overrun' <= Grace + Timeout /\ overrun' \in Nat
      BY <1>1, <1>5, <2>1, <2>2, <2>4, BudgetAssumption
    <3>2. renders' \in 0..RenderBudget /\ renders' # 0
      BY <1>1, <2>4, BudgetAssumption
    <3> QED
      BY <1>5, <3>1, <3>2
  <2> QED
    BY <2>3, <2>4 DEF TransportTakes
<1> QED
  BY <1>1, <1>4, <1>5

(* A host is denied again only while its circuit is closed.                *)
LEMMA HeardKeepsScope ==
  ASSUME IInv, NEW answer \in Answers, call.pc = "transport", scope' = Heard(answer)
  PROVE  /\ scope' \in Scopes
         /\ scope'.speculative <= Limit - Reserved /\ scope'.speculative <= scope'.dispatched
         /\ scope'.refused = scope'.denials
         /\ \A h \in Hosts : scope'.refused[h] <= DenialLimit
<1>1. /\ scope \in Scopes /\ call.host \in Hosts
      /\ scope.speculative <= Limit - Reserved /\ scope.speculative <= scope.dispatched
      /\ scope.refused = scope.denials
      /\ \A h \in Hosts : scope.refused[h] <= DenialLimit
      /\ scope.open => ~CircuitOpen
  BY DEF IInv, TypeOK, ScopeInv, DeniersAreLeftAlone
<1>2. CASE ~scope.open
  BY <1>1, <1>2 DEF Heard
<1>3. CASE scope.open
  <2> DEFINE n == IF answer = "page" THEN 0
                  ELSE IF answer = "denied" THEN scope.denials[call.host] + 1
                  ELSE scope.denials[call.host]
             counted == [scope.denials EXCEPT ![call.host] = n]
  <2>1. scope.denials \in [Hosts -> Nat] /\ scope.denials[call.host] \in Nat
    BY <1>1 DEF Scopes
  <2>2. n \in Nat /\ n <= DenialLimit
    BY <1>1, <1>3, <2>1, BudgetAssumption DEF CircuitOpen
  <2>3. counted \in [Hosts -> Nat] /\ \A h \in Hosts : counted[h] <= DenialLimit
    BY <1>1, <2>1, <2>2
  <2>4. scope' = [scope EXCEPT !.denials = counted, !.refused = counted]
    BY <1>1, <1>3 DEF Heard, Scopes
  <2> HIDE DEF counted
  <2> QED
    BY <1>1, <2>3, <2>4 DEF Scopes
<1> QED
  BY <1>2, <1>3

LEMMA AnswerStepsKeepInv == IInv /\ AnswerStep => IInv'
  <1> SUFFICES ASSUME IInv,
                      NEW seconds \in Seconds, NEW answer \in Answers,
                      \/ Final(seconds, answer)
                      \/ \E delay \in 0..MaxDelay :
                            GivesUp(seconds, answer, delay) \/ Retry(seconds, answer, delay)
               PROVE  IInv'
    BY DEF AnswerStep
  <1> DEFINE later == clock + seconds
  <1>1. /\ TypeOK /\ clock \in Nat /\ seconds \in Nat /\ later \in Nat /\ later >= clock
    BY BudgetAssumption DEF IInv, TypeOK, Seconds
  <1>2. /\ call.pc = "transport" /\ TransportTakes(seconds, answer)
        /\ UNCHANGED <<stage, policy>>
    BY DEF Final, GivesUp, Retry
  <1>3. scope' = Heard(answer)
    BY <1>2 DEF TransportTakes
  <1>4. /\ overrun' \in Nat /\ renders' \in 0..RenderBudget
        /\ overrun' > 0 => later > StageDeadline
        /\ overrun' <= Grace + Timeout /\ (renders' = 0 => overrun' <= Grace)
    BY <1>2, OverrunIsBounded
  <1>5. /\ scope' \in Scopes
        /\ scope'.speculative <= Limit - Reserved /\ scope'.speculative <= scope'.dispatched
        /\ scope'.refused = scope'.denials
        /\ \A h \in Hosts : scope'.refused[h] <= DenialLimit
    BY <1>2, <1>3, HeardKeepsScope
  <1>6. ASSUME clock' = later, NEW ending \in Outcomes, End(ending), ending # "dispatches",
               ending = "company time" => later + MaxDelay >= Deadline,
               ending = "stage time" => later + MaxDelay >= Deadline - StageReserve
        PROVE  IInv'
    BY <1>1, <1>2, <1>4, <1>5, <1>6, EndKeepsInv
  <1>7. /\ answer \in Outcomes
        /\ answer # "dispatches" /\ answer # "company time" /\ answer # "stage time"
    BY SomeOutcomes DEF Answers
  <1>8. CASE Final(seconds, answer)
    BY <1>6, <1>7, <1>8 DEF Final
  <1>9. ASSUME NEW delay \in 0..MaxDelay, GivesUp(seconds, answer, delay) PROVE IInv'
    <2>1. clock' = later
      BY <1>9 DEF GivesUp
    <2>2. CASE CutShort(answer, later) /\ End(DeadlineReason("timeout"))
      <3>1. Remaining(later) <= 0 /\ 0 \in 0..MaxDelay /\ "timeout" \in Answers
        BY <2>2, BudgetAssumption DEF CutShort, Answers
      <3>2. /\ DeadlineReason("timeout") \in Outcomes
            /\ DeadlineReason("timeout") = "company time" => later + MaxDelay >= Deadline
            /\ DeadlineReason("timeout") = "stage time" => later + MaxDelay >= Deadline - StageReserve
            /\ DeadlineReason("timeout") # "dispatches"
        BY <1>1, <3>1, BlamedIsOver
      <3> QED
        BY <1>6, <2>1, <2>2, <3>2
    <2>3. CASE End(answer)
      BY <1>6, <1>7, <2>1, <2>3
    <2>4. CASE Remaining(later) <= delay /\ End(DeadlineReason(answer))
      <3>1. /\ DeadlineReason(answer) \in Outcomes
            /\ DeadlineReason(answer) = "company time" => later + MaxDelay >= Deadline
            /\ DeadlineReason(answer) = "stage time" => later + MaxDelay >= Deadline - StageReserve
            /\ DeadlineReason(answer) # "dispatches"
        BY <1>1, <1>9, <2>4, BlamedIsOver
      <3> QED
        BY <1>6, <2>1, <2>4, <3>1
    <2> QED
      BY <1>9, <2>2, <2>3, <2>4 DEF GivesUp
  <1>10. ASSUME NEW delay \in 0..MaxDelay, Retry(seconds, answer, delay) PROVE IInv'
    <2>1. /\ call.attempt <= AllowedRetries /\ Remaining(later) > delay
          /\ clock' = later + delay /\ told' = told
          /\ call' = [call EXCEPT !.pc = "attempt", !.attempt = @ + 1, !.timeout = 0]
      BY <1>10 DEF Retry
    <2>2. /\ AllowedRetries \in 0..MaxRetries /\ delay \in Nat
          /\ clock' \in Nat /\ clock' >= clock
      BY <1>1, <2>1, BudgetAssumption DEF AllowedRetries
    <2>3. overrun' = 0
      <3>1. Remaining(later) <= StageDeadline - later
        BY <1>1, RemainingIsBounded
      <3>2. later <= StageDeadline
        BY <1>1, <2>1, <2>2, <3>1, RemainingIsBounded, StageDeadlineIsInt
      <3> QED
        BY <1>1, <1>4, <3>2, StageDeadlineIsInt
    <2>4. call' \in Calls /\ call'.pc = "attempt" /\ call'.host = call.host
      <3>1. call \in Calls /\ call.attempt + 1 \in 0..MaxRetries + 1 /\ 0 \in 0..Timeout
        BY <1>1, <2>1, <2>2, BudgetAssumption DEF TypeOK, Calls
      <3> QED
        BY <2>1, <3>1 DEF Calls
    <2>5. TypeOK'
      BY <1>1, <1>2, <1>4, <1>5, <2>1, <2>2, <2>4 DEF TypeOK
    <2>6. TimeInv'
      BY <1>4, <2>3, <2>4 DEF TimeInv
    <2>7. ScopeInv'
      BY <1>2, <1>5, <2>1, <2>4 DEF IInv, ScopeInv, DeniersAreLeftAlone
    <2>8. BlameIsJust'
      BY <1>2, <2>1 DEF IInv, ScopeInv, BlameIsJust
    <2> QED
      BY <2>5, <2>6, <2>7, <2>8 DEF IInv
  <1> QED
    BY <1>8, <1>9, <1>10

-----------------------------------------------------------------------------

LEMMA NextKeepsInv == IInv /\ [Next]_vars => IInv'
  <1> SUFFICES ASSUME IInv, [Next]_vars PROVE IInv'
    OBVIOUS
  <1>1. CASE StageStep
    BY <1>1, StageStepsKeepType, StageStepsKeepTime, StageStepsKeepScope DEF IInv
  <1>2. CASE AttemptStep
    BY <1>2, AttemptStepsKeepInv
  <1>3. CASE AnswerStep
    BY <1>3, AnswerStepsKeepInv
  <1>4. CASE UNCHANGED vars
    <2>1. TypeOK' /\ BlameIsJust'
      BY <1>4 DEF IInv, TypeOK, BlameIsJust, vars
    <2>2. TimeInv'
      BY <1>4, StageDeadlineIsInt DEF IInv, TimeInv, vars
    <2>3. ScopeInv'
      BY <1>4 DEF IInv, ScopeInv, DeniersAreLeftAlone, CircuitOpen, vars
    <2> QED
      BY <2>1, <2>2, <2>3 DEF IInv
  <1> QED
    BY <1>1, <1>2, <1>3, <1>4 DEF Next, Attempts, StageStep, AttemptStep, AnswerStep, Seconds

LEMMA Invariance == Spec => []IInv
<1>1. Init => IInv
  BY InitInv
<1>2. IInv /\ [Next]_vars => IInv'
  BY NextKeepsInv
<1> QED
  BY <1>1, <1>2, PTL DEF Spec

(* Every reachable state of the budgets has its type: the dispatches of a  *)
(* career discovery, the attempts of a fetch and the pages loaded in a     *)
(* browser stay within their limits (retrying_fetcher.py, fetch;           *)
(* career_transport_budget.py, fetch).                                     *)
THEOREM TypeCorrect == Spec => []TypeOK
<1>1. IInv => TypeOK
  BY DEF IInv
<1> QED
  BY <1>1, Invariance, PTL

(* For any times, delays and answers the fetches of a stage take no more   *)
(* from the time kept back than one transport may (retrying_fetcher.py,    *)
(* _remaining_time and the bounded timeout).                               *)
THEOREM TimeIsKept == Spec => []LaterTimeIsKept
<1>1. IInv => LaterTimeIsKept
  <2>1. IInv => overrun <= Grace + Timeout /\ (renders = 0 => overrun <= Grace)
    BY DEF IInv, TimeInv
  <2>2. Grace + 0 = Grace
    BY BudgetAssumption
  <2> QED
    BY <2>1, <2>2, Zenon DEF LaterTimeIsKept
<1> QED
  BY <1>1, Invariance, PTL

(* Guesses never take the dispatches reserved for fetches with evidence    *)
(* (career_transport_budget.py, fetch).                                    *)
THEOREM ReserveIsKept == Spec => []ReserveServesEvidence
<1>1. IInv => ReserveServesEvidence
  <2> SUFFICES ASSUME IInv, told = "dispatches"
               PROVE  scope.dispatched - scope.speculative >= Reserved
    BY DEF ReserveServesEvidence
  <2>1. /\ scope.speculative <= Limit - Reserved /\ scope.dispatched = Limit
        /\ scope.speculative \in Int
    BY DEF IInv, TypeOK, Scopes, ScopeInv
  <2> QED
    BY <2>1, BudgetAssumption
<1> QED
  BY <1>1, Invariance, PTL

(* A host is denied DenialLimit times at most between two pages of one     *)
(* career discovery (career_transport_budget.py, fetch).                   *)
THEOREM DeniersLeftAlone == Spec => []DeniersAreLeftAlone
<1>1. IInv => DeniersAreLeftAlone
  BY DEF IInv, ScopeInv
<1> QED
  BY <1>1, Invariance, PTL

(* A failure blamed on the time of the stage or of the company comes when  *)
(* that time is over, but for the delay of another attempt                 *)
(* (retrying_fetcher.py, _active_global_deadline_reason).                  *)
THEOREM BlameJust == Spec => []BlameIsJust
<1>1. IInv => BlameIsJust
  BY DEF IInv
<1> QED
  BY <1>1, Invariance, PTL

-----------------------------------------------------------------------------
(* The isolated process.                                                   *)

(* Places of a worker that has not stamped its envelope yet.               *)
PreStamp == {"boot", "leader", "flagging", "work", "result", "written", "stamping"}

(* The worker's own bookkeeping: what it has done by the time it is there. *)
WorkerInv ==
    /\ child \in {"work", "result", "written", "stamping", "stamped", "exit"} => ready
    /\ helpers # {} => ready
    /\ child \in PreStamp => stamp = "none"
    /\ child \in {"result", "written", "stamping"} => status # "none"
    /\ child \in {"written", "stamping"} => envelope = status
    /\ stamp # "none" => envelope = status /\ status # "none"
    /\ message => ready /\ child \notin PreStamp

(* The parent reads the envelope only when the worker can no longer make   *)
(* it count, and stops it a second time only when its group is settled.    *)
ParentInv ==
    /\ parent # "poll" => notified \/ late
    /\ notified => child \notin PreStamp
    /\ outcome # "none" => late \/ child \notin PreStamp
    /\ parent \in {"read", "close"} \/ round = 2 => child \in Dead \/ ready
    /\ round = 2 /\ parent \in {"signal", "join", "kill"} =>
          groupSeen \/ (child \in Dead /\ helpers = {})

CallInv ==
    /\ PBTypeOK
    /\ WorkerInv
    /\ ParentInv
    /\ AcceptedInTime
    /\ NothingLost
    /\ NoSurvivors

LEMMA CallInit == PBInit => CallInv
  <1> SUFFICES ASSUME PBInit PROVE CallInv
    OBVIOUS
  <1>1. PBTypeOK
    <2>1. outcome # "none" <=> parent \in {"close", "done"} \/ round = 2
      BY SMT DEF PBInit
    <2>2. helpers \subseteq Helpers
      BY DEF PBInit
    <2> QED
      BY <2>1, <2>2 DEF PBInit, PBTypeOK, ParentPcs, ChildPcs
  <1>2. WorkerInv
    BY DEF PBInit, WorkerInv, PreStamp
  <1>3. ParentInv
    BY DEF PBInit, ParentInv
  <1> QED
    BY <1>1, <1>2, <1>3 DEF PBInit, CallInv, AcceptedInTime, NothingLost, NoSurvivors

(* Every step of the worker.                                               *)
LEMMA WorkerKeepsInv == CallInv /\ Worker => CallInv'
  <1> SUFFICES ASSUME CallInv, Worker PROVE CallInv'
    OBVIOUS
  <1> USE DEF CallInv, PBTypeOK, WorkerInv, ParentInv, AcceptedInTime, NothingLost,
              NoSurvivors, ParentPcs, ChildPcs, Dead, Orphaned, PreStamp,
              WorkerStep, callVars
  <1>1. CASE BecomeLeader
    BY <1>1 DEF BecomeLeader
  <1>2. CASE TakeReadyLock
    BY <1>2 DEF TakeReadyLock
  <1>3. CASE SetReady
    BY <1>3 DEF SetReady
  <1>4. CASE PublishEnvelope
    BY <1>4 DEF PublishEnvelope
  <1>5. CASE TakeStampLock
    BY <1>5 DEF TakeStampLock
  <1>6. CASE Stamp
    BY <1>6 DEF Stamp
  <1>7. CASE Notify
    BY <1>7 DEF Notify
  <1>8. ASSUME NEW h \in Helpers, StartHelper(h) PROVE CallInv'
    BY <1>8 DEF StartHelper
  <1>9. ASSUME NEW end \in {"ok", "error"}, FinishWork(end) PROVE CallInv'
    BY <1>9 DEF FinishWork
  <1> QED
    BY <1>1, <1>2, <1>3, <1>4, <1>5, <1>6, <1>7, <1>8, <1>9 DEF Worker

LEMMA KilledIsDead ==
  ASSUME NEW pc \in ChildPcs
  PROVE  Killed(pc) \in Dead /\ (pc \in Dead => Killed(pc) = pc)
  BY DEF Killed, ChildPcs, Dead, Orphaned

(* The clock, a worker or a helper that ends by itself.                    *)
LEMMA EnvironmentKeepsInv == CallInv /\ Environment => CallInv'
  <1> SUFFICES ASSUME CallInv, Environment PROVE CallInv'
    OBVIOUS
  <1>0. Killed(child) \in Dead
    BY KilledIsDead DEF CallInv, PBTypeOK
  <1> USE DEF CallInv, PBTypeOK, WorkerInv, ParentInv, AcceptedInTime, NothingLost,
              NoSurvivors, ParentPcs, ChildPcs, Dead, Orphaned, PreStamp
  <1>1. CASE Expire
    BY <1>1 DEF Expire, callVars, workerVars
  <1>2. CASE WorkerEnds
    BY <1>0, <1>2 DEF WorkerEnds, callVars
  <1>3. ASSUME NEW h \in Helpers, HelperEnds(h) PROVE CallInv'
    BY <1>3 DEF HelperEnds, callVars
  <1> QED BY <1>1, <1>2, <1>3 DEF Environment

(* Every step of the parent.                                               *)
LEMMA ParentKeepsInv == CallInv /\ Parent => CallInv'
  <1> SUFFICES ASSUME CallInv, Parent PROVE CallInv'
    OBVIOUS
  <1>0. Killed(child) \in Dead /\ (child \in Dead => Killed(child) = child)
    BY KilledIsDead DEF CallInv, PBTypeOK
  <1> USE DEF CallInv, PBTypeOK, WorkerInv, ParentInv, AcceptedInTime, NothingLost,
              NoSurvivors, ParentPcs, ChildPcs, Dead, Orphaned, PreStamp,
              workerVars
  <1>1. CASE PollReady
    BY <1>1 DEF PollReady
  <1>2. CASE PollExpired
    BY <1>2 DEF PollExpired
  <1>3. CASE ReadFlag
    BY <1>3 DEF ReadFlag
  <1>4. CASE SignalTree
    BY <1>0, <1>4 DEF SignalTree
  <1>5. CASE Join
    BY <1>5 DEF Join
  <1>6. CASE KillTree
    BY <1>0, <1>6 DEF KillTree
  <1>7. CASE ReadEnvelope
    BY <1>7 DEF ReadEnvelope
  <1>8. CASE Close
    BY <1>8 DEF Close
  <1> QED
    BY <1>1, <1>2, <1>3, <1>4, <1>5, <1>6, <1>7, <1>8 DEF Parent

THEOREM CallInductive == PBSpec => []CallInv
  <1>1. CallInv /\ UNCHANGED pbVars => CallInv'
    BY DEF CallInv, PBTypeOK, WorkerInv, ParentInv, AcceptedInTime, NothingLost,
           NoSurvivors, pbVars, callVars, workerVars
  <1>2. CallInv /\ [PBNext]_pbVars => CallInv'
    BY <1>1, WorkerKeepsInv, EnvironmentKeepsInv, ParentKeepsInv DEF PBNext
  <1> QED BY <1>2, CallInit, PTL DEF PBSpec

(* The program counters, flags and files of a call and of its worker.      *)
THEOREM CallTypes == PBSpec => []PBTypeOK
  <1>1. CallInv => PBTypeOK
    BY DEF CallInv
  <1> QED BY <1>1, CallInductive, PTL

(* What the call hands on was published before the deadline, and what was  *)
(* stamped before the deadline is never reported as a timeout or as a      *)
(* worker without a result.                                                *)
THEOREM ReturnedWhatWasPublished == PBSpec => []ReturnedAsPublished
  <1>1. CallInv => ReturnedAsPublished
    BY DEF CallInv, ReturnedAsPublished
  <1> QED BY <1>1, CallInductive, PTL

(* When the call has returned, its worker and all its helpers are dead.    *)
THEOREM TreeIsStopped == PBSpec => []NoSurvivors
  <1>1. CallInv => NoSurvivors
    BY DEF CallInv
  <1> QED BY <1>1, CallInductive, PTL

=============================================================================
