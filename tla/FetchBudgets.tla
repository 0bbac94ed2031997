---------------------------- MODULE FetchBudgets ----------------------------
(***************************************************************************)
(* The fetches of one child process on their way to the network: the       *)
(* retries, their deadlines and the time kept back for later stages        *)
(* (retrying_fetcher.py), and under them the dispatches of the career      *)
(* discovery with their reserve and the circuit of a host that denies      *)
(* access (career_transport_budget.py).  Time is counted in seconds.       *)
(***************************************************************************)
EXTENDS Integers

CONSTANTS Hosts, NoHost,
          Timeout,      \* of the transport
          Grace,        \* what hard_timeout adds to it
          RenderBudget, \* pages that a child may also load in a browser
          Deadline,     \* retry_deadline of the company
          StageReserve, \* of the career stage, for the stages after it
          LocalSeconds, \* max_elapsed_seconds of a retry scope
          MaxRetries,
          MaxDelay,     \* of a retry; the delay has a random part
          Limit, Reserved,  \* dispatches of a career discovery
          DenialLimit   \* _HOST_DENIAL_LIMIT

ASSUME BudgetAssumption ==
    /\ NoHost \notin Hosts
    /\ Timeout \in Nat \ {0} /\ Grace \in Nat /\ RenderBudget \in Nat
    /\ Deadline \in Nat /\ StageReserve \in 0..Deadline
    /\ LocalSeconds \in Nat /\ MaxRetries \in Nat /\ MaxDelay \in Nat
    /\ Limit \in Nat /\ Reserved \in 0..Limit
    /\ DenialLimit \in Nat \ {0}

VARIABLES
    clock,
    stage,   \* the stage at work
    policy,  \* the retry scope around the fetches, if there is one
    scope,   \* the career discovery scope; speculative and refused are
             \* history: speculative dispatches, and the denials of a host
             \* since its last page
    call,    \* the fetch under way
    renders, \* render_attempts of the transport
    told,    \* history: how the last fetch ended
    overrun  \* history: seconds the fetches of this stage took beyond the
             \* stage's own deadline

vars == <<clock, stage, policy, scope, call, renders, told, overrun>>

Stages   == {"website", "career", "opening"}
Answers  == {"page", "denied", "failed", "transient", "timeout"}
Outcomes == Answers \cup {"none", "reserved", "dispatches", "stage time", "company time"}

Calls    == [pc : {"idle", "attempt", "transport"}, host : Hosts \cup {NoHost},
             speculative : BOOLEAN, attempt : 0..MaxRetries + 1, timeout : 0..Timeout]
Policies == [on : BOOLEAN, deadline : Nat]
Scopes   == [open : BOOLEAN, dispatched : 0..Limit, denials : [Hosts -> Nat],
             speculative : 0..Limit, refused : [Hosts -> Nat]]

Idle     == [pc |-> "idle", host |-> NoHost, speculative |-> FALSE, attempt |-> 0, timeout |-> 0]
NoPolicy == [on |-> FALSE, deadline |-> 0]
NewScope(open) == [open |-> open, dispatched |-> 0, denials |-> [h \in Hosts |-> 0],
                   speculative |-> 0, refused |-> [h \in Hosts |-> 0]]

TypeOK ==
    /\ clock \in Nat
    /\ stage \in Stages
    /\ policy \in Policies
    /\ scope \in Scopes
    /\ call \in Calls
    /\ renders \in 0..RenderBudget
    /\ told \in Outcomes
    /\ overrun \in Nat

Init ==
    /\ clock = 0
    /\ stage = "website"
    /\ policy = NoPolicy
    /\ scope = NewScope(FALSE)
    /\ call = Idle
    /\ renders = 0
    /\ told = "none"
    /\ overrun = 0

-----------------------------------------------------------------------------
(* Time.                                                                   *)

StageDeadline == Deadline - (IF stage = "career" THEN StageReserve ELSE 0)

\* _remaining_time at second t
Remaining(t) ==
    IF policy.on /\ policy.deadline < StageDeadline THEN policy.deadline - t
    ELSE StageDeadline - t

(* Mutant: the end of a retry scope counts as the end of the company.      *)
AnyDeadlineReason(otherwise) ==
    IF stage = "career" /\ StageReserve > 0 THEN "stage time" ELSE "company time"

\* _active_global_deadline_reason and _deadline_error: a retry scope that
\* ends first says nothing of the company's time.
DeadlineReason(otherwise) ==
    IF policy.on /\ policy.deadline < StageDeadline THEN otherwise
    ELSE IF stage = "career" /\ StageReserve > 0 THEN "stage time" ELSE "company time"

AllowedRetries == IF policy.on THEN 0 ELSE MaxRetries

-----------------------------------------------------------------------------
(* What a stage does around its fetches.                                   *)

Working == call.pc = "idle"

Work ==
    /\ Working
    /\ clock < Deadline
    /\ clock' = clock + 1
    /\ UNCHANGED <<stage, policy, scope, call, told, overrun, renders>>

NextStage ==
    /\ Working /\ ~policy.on /\ ~scope.open
    /\ \/ stage = "website" /\ stage' = "career"
       \/ stage = "career" /\ stage' = "opening"
    /\ told' = "none" /\ overrun' = 0
    /\ UNCHANGED <<clock, policy, scope, call, renders>>

\* retry_scope, of the website resolver only
OpenPolicy ==
    /\ Working /\ stage = "website" /\ ~policy.on
    /\ policy' = [on |-> TRUE, deadline |-> clock + LocalSeconds]
    /\ UNCHANGED <<clock, stage, scope, call, told, overrun, renders>>

ClosePolicy ==
    /\ Working /\ policy.on
    /\ policy' = NoPolicy
    /\ told' = "none"
    /\ UNCHANGED <<clock, stage, scope, call, overrun, renders>>

\* career_discovery_scope
OpenScope ==
    /\ Working /\ stage = "career" /\ ~scope.open
    /\ scope' = NewScope(TRUE)
    /\ told' = "none"
    /\ UNCHANGED <<clock, stage, policy, call, overrun, renders>>

CloseScope ==
    /\ Working /\ scope.open
    /\ scope' = NewScope(FALSE)
    /\ told' = "none"
    /\ UNCHANGED <<clock, stage, policy, call, overrun, renders>>

\* The speculative phase is the one of the guessed provider boards.
Begin(h, speculative) ==
    /\ Working
    /\ speculative => scope.open
    /\ call' = [pc |-> "attempt", host |-> h, speculative |-> speculative,
                attempt |-> 1, timeout |-> 0]
    /\ told' = "none"
    /\ UNCHANGED <<clock, stage, policy, scope, overrun, renders>>

-----------------------------------------------------------------------------
(* One attempt: the deadline, the dispatch, the answer.                    *)

End(outcome) == call' = Idle /\ told' = outcome

\* The loop's first test: an attempt needs time, also the first.
OutOfTime ==
    /\ call.pc = "attempt"
    /\ Remaining(clock) <= 0
    /\ End(DeadlineReason("timeout"))
    /\ UNCHANGED <<clock, stage, policy, scope, overrun, renders>>

CircuitOpen == scope.denials[call.host] >= DenialLimit

(* Mutant: the last reserved dispatch goes to a guess.                     *)
AnyDispatchLeft == scope.dispatched < Limit

DispatchLeft ==
    IF call.speculative THEN Limit - scope.dispatched > Reserved
    ELSE scope.dispatched < Limit

\* None of these rejections is retried.
Reject ==
    /\ call.pc = "attempt" /\ scope.open
    /\ Remaining(clock) > 0
    /\ \/ CircuitOpen /\ End("denied")
       \/ ~CircuitOpen /\ ~DispatchLeft
          /\ End(IF call.speculative THEN "reserved" ELSE "dispatches")
    /\ UNCHANGED <<clock, stage, policy, scope, overrun, renders>>

(* Mutant: the transport keeps its own timeout.                            *)
DispatchUnbounded ==
    /\ call.pc = "attempt"
    /\ Remaining(clock) > 0
    /\ scope.open => ~CircuitOpen /\ DispatchLeft
    /\ call' = [call EXCEPT !.pc = "transport", !.timeout = Timeout]
    /\ scope' = IF ~scope.open THEN scope
                ELSE [scope EXCEPT !.dispatched = @ + 1,
                                   !.speculative = IF call.speculative THEN @ + 1 ELSE @]
    /\ UNCHANGED <<clock, stage, policy, told, overrun, renders>>

Dispatch ==
    /\ call.pc = "attempt"
    /\ Remaining(clock) > 0
    /\ scope.open => ~CircuitOpen /\ DispatchLeft
    /\ call' = [call EXCEPT !.pc = "transport",
                    !.timeout = IF Remaining(clock) < Timeout THEN Remaining(clock) ELSE Timeout]
    /\ scope' = IF ~scope.open THEN scope
                ELSE [scope EXCEPT !.dispatched = @ + 1,
                                   !.speculative = IF call.speculative THEN @ + 1 ELSE @]
    /\ UNCHANGED <<clock, stage, policy, told, overrun, renders>>

(* Mutant: any answer that is no denial closes the circuit.                *)
HeardAny(answer) ==
    IF ~scope.open THEN scope
    ELSE [scope EXCEPT
            !.denials[call.host] = IF answer = "denied" THEN @ + 1 ELSE 0,
            !.refused[call.host] = IF answer = "page" THEN 0
                                   ELSE IF answer = "denied" THEN @ + 1 ELSE @]

Heard(answer) ==
    IF ~scope.open THEN scope
    ELSE [scope EXCEPT
            !.denials[call.host] = IF answer = "page" THEN 0
                                   ELSE IF answer = "denied" THEN @ + 1 ELSE @,
            !.refused[call.host] = IF answer = "page" THEN 0
                                   ELSE IF answer = "denied" THEN @ + 1 ELSE @]

Past(t) == IF t > StageDeadline THEN t - StageDeadline ELSE 0

\* The transport takes its timeout and the grace at most, with a browser the
\* timeout once more; a timeout takes no less than the timeout.
TransportTakes(seconds, answer) ==
    /\ seconds >= (IF answer = "timeout" THEN call.timeout ELSE 0)
    /\ \/ seconds <= call.timeout + Grace /\ renders' = renders
       \/ /\ renders < RenderBudget /\ renders' = renders + 1
          /\ seconds <= call.timeout + Grace + call.timeout
    /\ overrun' = overrun + Past(clock + seconds) - Past(clock)
    /\ scope' = Heard(answer)

\* A page, or an error that no retry can help.
Final(seconds, answer) ==
    /\ call.pc = "transport"
    /\ answer \in {"page", "denied", "failed"}
    /\ TransportTakes(seconds, answer)
    /\ clock' = clock + seconds
    /\ End(answer)
    /\ UNCHANGED <<stage, policy>>

\* The transport's timeout was cut short by a deadline that is now over.
CutShort(answer, t) ==
    /\ answer = "timeout" /\ call.timeout < Timeout
    /\ Remaining(t) <= 0
    /\ DeadlineReason("timeout") # "timeout"

GivesUp(seconds, answer, delay) ==
    /\ call.pc = "transport"
    /\ answer \in {"transient", "timeout"}
    /\ TransportTakes(seconds, answer)
    /\ clock' = clock + seconds
    /\ \/ CutShort(answer, clock + seconds) /\ End(DeadlineReason("timeout"))
       \/ /\ ~CutShort(answer, clock + seconds) /\ call.attempt > AllowedRetries
          /\ End(answer)
       \/ /\ ~CutShort(answer, clock + seconds) /\ call.attempt <= AllowedRetries
          /\ Remaining(clock + seconds) <= delay
          /\ End(DeadlineReason(answer))
    /\ UNCHANGED <<stage, policy>>

(* Mutant: the attempts are not counted.                                   *)
RetryUncounted(seconds, answer, delay) ==
    /\ call.pc = "transport"
    /\ answer \in {"transient", "timeout"}
    /\ ~CutShort(answer, clock + seconds)
    /\ call.attempt <= AllowedRetries
    /\ Remaining(clock + seconds) > delay
    /\ TransportTakes(seconds, answer)
    /\ clock' = clock + seconds + delay
    /\ call' = [call EXCEPT !.pc = "attempt", !.timeout = 0]
    /\ UNCHANGED <<stage, policy, told>>

\* With the sleep before the next attempt.
Retry(seconds, answer, delay) ==
    /\ call.pc = "transport"
    /\ answer \in {"transient", "timeout"}
    /\ ~CutShort(answer, clock + seconds)
    /\ call.attempt <= AllowedRetries
    /\ Remaining(clock + seconds) > delay
    /\ TransportTakes(seconds, answer)
    /\ clock' = clock + seconds + delay
    /\ call' = [call EXCEPT !.pc = "attempt", !.attempt = @ + 1, !.timeout = 0]
    /\ UNCHANGED <<stage, policy, told>>

-----------------------------------------------------------------------------

Attempts ==
    \/ OutOfTime \/ Reject \/ Dispatch
    \/ \E seconds \in 0..Timeout + Grace + Timeout, answer \in Answers :
          \/ Final(seconds, answer)
          \/ \E delay \in 0..MaxDelay :
                GivesUp(seconds, answer, delay) \/ Retry(seconds, answer, delay)

Next ==
    \/ Work \/ NextStage \/ OpenPolicy \/ ClosePolicy \/ OpenScope \/ CloseScope
    \/ \E h \in Hosts, speculative \in BOOLEAN : Begin(h, speculative)
    \/ Attempts

Spec == Init /\ [][Next]_vars

\* The transport answers within its timeout and the child runs.
FairSpec == Spec /\ WF_vars(Attempts)

-----------------------------------------------------------------------------

(* However the fetches of a stage are cut, retried and delayed, together   *)
(* they take no more from the time kept back for the stages after it, or   *)
(* from the end of the company's time, than one transport may: its grace,  *)
(* and with a browser its timeout once more.                               *)
LaterTimeIsKept == overrun <= Grace + (IF renders = 0 THEN 0 ELSE Timeout)

(* A fetch backed by evidence is told that the dispatches are used up only *)
(* after others like it used the dispatches reserved for them: guesses     *)
(* never take those.                                                       *)
ReserveServesEvidence ==
    told = "dispatches" => scope.dispatched - scope.speculative >= Reserved

(* Within one career discovery a host that denied access twice is left     *)
(* alone, whatever other failures and retries lie between the denials.     *)
DeniersAreLeftAlone == \A h \in Hosts : scope.refused[h] <= DenialLimit

(* A failure blamed on a budget, which makes the company's result one to   *)
(* be retried, is one: the time of the stage or of the company is over but *)
(* for the delay of another attempt.                                       *)
BlameIsJust ==
    /\ told = "company time" => clock + MaxDelay >= Deadline
    /\ told = "stage time"   => clock + MaxDelay >= Deadline - StageReserve

(* Every fetch ends.                                                       *)
FetchesEnd == call.pc # "idle" ~> call.pc = "idle"
=============================================================================
