---------------------------- MODULE ProcessBudget ----------------------------
(***************************************************************************)
(* run_with_process_budget (job_source_agent/process_budget.py): a parent  *)
(* runs a function in a spawned worker with a hard wall-clock deadline.    *)
(* The worker publishes its result in an envelope file, stamps the time in *)
(* shared memory and then sends one byte string through a pipe; the parent *)
(* polls the pipe, at the deadline stops the process tree, and believes an *)
(* envelope only when its stamp is not after the deadline.                 *)
(*                                                                         *)
(* The two multiprocessing.Value locks are plain semaphores: a process     *)
(* killed inside a critical section never gives its lock back.             *)
(* (Names of the specification carry PB so that Budgets_proofs can extend  *)
(* this module beside FetchBudgets.)                                       *)
(***************************************************************************)
CONSTANT Helpers    \* processes the function may start (browsers, drivers)

VARIABLES
    parent,      \* program counter of run_with_process_budget
    round,       \* which of the two _stop_process_tree calls is running
    notified,    \* notification_received
    groupSeen,   \* group_ready, as _stop_process_tree read it
    outcome,     \* what the call will return or raise
    late,        \* the deadline is over
    child,       \* program counter of _worker_entrypoint
    status,      \* "ok" or "error", once the function has ended
    ready,       \* process_group_ready.value
    envelope,    \* the published envelope file
    stamp,       \* published_at.value, compared with the deadline
    message,     \* the notification is in the pipe
    helpers      \* live descendants in the worker's process group

workerVars == <<child, status, ready, envelope, stamp, message, helpers>>
callVars   == <<parent, round, notified, groupSeen, outcome>>
pbVars     == <<callVars, late, workerVars>>

ParentPcs == {"poll", "flag", "signal", "join", "kill", "read", "close", "done"}

(* "flagging" and "stamping" are inside the two critical sections; a worker *)
(* that died there is kept apart, because its lock stays taken.             *)
ChildPcs  == {"boot", "leader", "flagging", "work", "result", "written",
              "stamping", "stamped", "exit",
              "dead", "died_flagging", "died_stamping"}
Orphaned  == {"died_flagging", "died_stamping"}
Dead      == {"dead"} \cup Orphaned

PBTypeOK ==
    /\ parent \in ParentPcs
    /\ round \in {1, 2}
    /\ notified \in BOOLEAN
    /\ groupSeen \in BOOLEAN
    /\ outcome \in {"none", "ok", "error", "exceeded", "no_result"}
    /\ outcome # "none" <=> parent \in {"close", "done"} \/ round = 2
    /\ late \in BOOLEAN
    /\ child \in ChildPcs
    /\ status \in {"none", "ok", "error"}
    /\ ready \in BOOLEAN
    /\ envelope \in {"none", "ok", "error"}
    /\ stamp \in {"none", "in_time", "late"}
    /\ message \in BOOLEAN
    /\ helpers \subseteq Helpers

PBInit ==
    /\ parent = "poll"
    /\ round = 1
    /\ notified = FALSE
    /\ groupSeen = FALSE
    /\ outcome = "none"
    /\ late = FALSE
    /\ child = "boot"
    /\ status = "none"
    /\ ready = FALSE
    /\ envelope = "none"
    /\ stamp = "none"
    /\ message = FALSE
    /\ helpers = {}

-----------------------------------------------------------------------------
(* The clock and the worker *)

Expire ==
    /\ ~late
    /\ late' = TRUE
    /\ UNCHANGED <<callVars, workerVars>>

Killed(pc) ==
    CASE pc = "flagging" -> "died_flagging"
      [] pc = "stamping" -> "died_stamping"
      [] pc \in Dead     -> pc
      [] OTHER           -> "dead"

WorkerStep(from, to) ==
    /\ child = from
    /\ child' = to
    /\ UNCHANGED <<callVars, late>>

(* os.setsid(), then the flag under its lock *)
BecomeLeader ==
    /\ WorkerStep("boot", "leader")
    /\ UNCHANGED <<status, ready, envelope, stamp, message, helpers>>

TakeReadyLock ==
    /\ WorkerStep("leader", "flagging")
    /\ UNCHANGED <<status, ready, envelope, stamp, message, helpers>>

SetReady ==
    /\ WorkerStep("flagging", "work")
    /\ ready' = TRUE
    /\ UNCHANGED <<status, envelope, stamp, message, helpers>>

StartHelper(h) ==
    /\ WorkerStep("work", "work")
    /\ helpers' = helpers \cup {h}
    /\ UNCHANGED <<status, ready, envelope, stamp, message>>

FinishWork(end) ==
    /\ WorkerStep("work", "result")
    /\ status' = end
    /\ UNCHANGED <<ready, envelope, stamp, message, helpers>>

(* _write_envelope_atomically: the file is there whole or not at all.      *)
PublishEnvelope ==
    /\ WorkerStep("result", "written")
    /\ envelope' = status
    /\ UNCHANGED <<status, ready, stamp, message, helpers>>

TakeStampLock ==
    /\ WorkerStep("written", "stamping")
    /\ UNCHANGED <<status, ready, envelope, stamp, message, helpers>>

Stamp ==
    /\ WorkerStep("stamping", "stamped")
    /\ stamp' = IF late THEN "late" ELSE "in_time"
    /\ UNCHANGED <<status, ready, envelope, message, helpers>>

(* The pipe may be broken already; that is swallowed.                      *)
Notify ==
    /\ WorkerStep("stamped", "exit")
    /\ message' = (parent = "poll")
    /\ UNCHANGED <<status, ready, envelope, stamp, helpers>>

(* The worker ends, or dies of its own (killed by the system, a full disk).*)
WorkerEnds ==
    /\ child \notin Dead
    /\ child' = Killed(child)
    /\ UNCHANGED <<callVars, late, status, ready, envelope, stamp, message,
                   helpers>>

HelperEnds(h) ==
    /\ h \in helpers
    /\ helpers' = helpers \ {h}
    /\ UNCHANGED <<callVars, late, child, status, ready, envelope, stamp, message>>

-----------------------------------------------------------------------------
(* The parent *)

(* receiver.poll: the notification, or the end of file of a dead worker    *)
PollReady ==
    /\ parent = "poll"
    /\ message \/ child \in Dead
    /\ notified' = TRUE
    /\ parent' = "read"
    /\ UNCHANGED <<round, groupSeen, outcome, late, workerVars>>

PollExpired ==
    /\ parent = "poll"
    /\ late
    /\ ~message /\ child \notin Dead
    /\ parent' = "flag"
    /\ UNCHANGED <<round, notified, groupSeen, outcome, late, workerVars>>

(* Mutant: the parent waits until the worker leads its process group.      *)
AwaitFlag ==
    /\ parent = "flag"
    /\ ready
    /\ groupSeen' = ready
    /\ parent' = "signal"
    /\ UNCHANGED <<round, notified, outcome, late, workerVars>>

(* _stop_process_tree: the flag is read under the worker's lock            *)
ReadFlag ==
    /\ parent = "flag"
    /\ child \notin {"flagging", "died_flagging"}
    /\ groupSeen' = ready
    /\ parent' = "signal"
    /\ UNCHANGED <<round, notified, outcome, late, workerVars>>

(* SIGTERM to the group, or to the worker alone when it is no leader yet;  *)
(* delivery is asynchronous, so either may run on for a while.             *)
SignalTree ==
    /\ parent = "signal"
    /\ child' \in {child, Killed(child)}
    /\ IF groupSeen THEN helpers' \in SUBSET helpers
                    ELSE helpers' = helpers
    /\ parent' = "join"
    /\ UNCHANGED <<round, notified, groupSeen, outcome, late,
                   status, ready, envelope, stamp, message>>

(* process.join(timeout=2): the worker is gone, or two seconds are.        *)
Join ==
    /\ parent = "join"
    /\ parent' = "kill"
    /\ UNCHANGED <<round, notified, groupSeen, outcome, late, workerVars>>

(* SIGKILL to what is left of the group, or to the worker; last join       *)
KillTree ==
    /\ parent = "kill"
    /\ child' = Killed(child)
    /\ helpers' = IF groupSeen THEN {} ELSE helpers
    /\ parent' = IF round = 1 THEN "read" ELSE "done"
    /\ UNCHANGED <<round, notified, groupSeen, outcome, late,
                   status, ready, envelope, stamp, message>>

(* Mutant: the notification decides, the stamp is not looked at.           *)
ReadUnstamped ==
    /\ parent = "read"
    /\ outcome' = IF notified THEN envelope ELSE "exceeded"
    /\ parent' = "close"
    /\ UNCHANGED <<round, notified, groupSeen, late, workerVars>>

(* _read_published_envelope, and what the call makes of it                 *)
ReadEnvelope ==
    /\ parent = "read"
    /\ child \notin {"stamping", "died_stamping"}
    /\ outcome' = CASE stamp = "in_time" -> envelope
                     [] OTHER -> IF notified THEN "no_result" ELSE "exceeded"
    /\ parent' = "close"
    /\ UNCHANGED <<round, notified, groupSeen, late, workerVars>>

(* Mutant: a worker that is gone is not stopped again.                     *)
CloseDead ==
    /\ parent = "close"
    /\ parent' = IF child \in Dead THEN "done" ELSE "flag"
    /\ round' = 2
    /\ UNCHANGED <<notified, groupSeen, outcome, late, workerVars>>

(* finally: close the pipe, join briefly, stop the tree once more          *)
Close ==
    /\ parent = "close"
    /\ parent' = "flag"
    /\ round' = 2
    /\ UNCHANGED <<notified, groupSeen, outcome, late, workerVars>>

-----------------------------------------------------------------------------
Worker ==
    \/ BecomeLeader \/ TakeReadyLock \/ SetReady
    \/ PublishEnvelope \/ TakeStampLock \/ Stamp \/ Notify
    \/ \E h \in Helpers : StartHelper(h)
    \/ \E end \in {"ok", "error"} : FinishWork(end)

Environment == Expire \/ WorkerEnds \/ \E h \in Helpers : HelperEnds(h)

Parent ==
    \/ PollReady \/ PollExpired
    \/ ReadFlag \/ SignalTree \/ Join \/ KillTree
    \/ ReadEnvelope \/ Close

PBNext == Worker \/ Environment \/ Parent

(* The clock goes on, the operating system schedules the parent, and a     *)
(* process inside a critical section gets to leave it.  Nothing is assumed *)
(* of the function the worker runs.                                        *)
Fairness ==
    /\ WF_pbVars(Expire)
    /\ WF_pbVars(Parent)
    /\ WF_pbVars(SetReady \/ Stamp)

PBSpec == PBInit /\ [][PBNext]_pbVars /\ Fairness
-----------------------------------------------------------------------------
(* Properties *)

(* A result or an exception of the function is passed on only when it was  *)
(* published before the deadline, and it is the one the function ended     *)
(* with (publication_time > deadline in _read_published_envelope).         *)
AcceptedInTime ==
    outcome \in {"ok", "error"} => stamp = "in_time" /\ outcome = status

(* "avoiding a race where the operation finished within budget but blocked *)
(* while sending its result to the parent": whatever is stamped in time is *)
(* returned, however the notification, the deadline and the kill interleave.*)
NothingLost ==
    outcome \in {"exceeded", "no_result"} => stamp # "in_time"

(* Both together: the call returns the result of the function if and only  *)
(* if it was published in time, and never that of another moment.          *)
ReturnedAsPublished == AcceptedInTime /\ NothingLost

(* When the call returns, the worker and everything it started is gone,    *)
(* also when the first stop saw the worker before it led its group.        *)
NoSurvivors ==
    parent = "done" => child \in Dead /\ helpers = {}

Returned == parent = "done"

(* "Run a picklable function in a process tree with a hard deadline": the  *)
(* call returns, unless the worker died inside a critical section, whose   *)
(* lock the parent then waits for without end.                             *)
ReturnsUnlessOrphaned == <>(Returned \/ child \in Orphaned)
=============================================================================
