--------------------------- MODULE ExtensionRuns ---------------------------
(***************************************************************************)
(* Verification runs of the Chrome extension.  The popup submits the       *)
(* scanned jobs to the local bridge, remembers the run in chrome.storage   *)
(* and polls it; the popup may be closed at any moment and opened again.   *)
(* The bridge executes whole runs one after the other, the companies of a  *)
(* run in a pool of workers, and forgets everything when it exits.         *)
(***************************************************************************)
EXTENDS Naturals, FiniteSets

CONSTANTS Workers,     \* --workers of the bridge
          Sizes,       \* how many companies a submission may have
          MaxRetries,  \* MAX_POLL_RETRIES
          MaxRuns,     \* bound on the submissions
          MaxRestarts, \* bound on the restarts of the bridge
          NoRun

ASSUME RunsAssumption ==
    /\ Workers \in Nat \ {0} /\ Sizes \subseteq Nat \ {0}
    /\ MaxRetries \in Nat /\ MaxRuns \in Nat /\ MaxRestarts \in Nat
    /\ NoRun \notin Nat

RunIds == 1..MaxRuns

VARIABLES
    page,       \* the popup: its state object and what it is waiting for
    storage,    \* runId and the connection in chrome.storage.local
    post,       \* the popup's POST /v1/runs
    strays,     \* POSTs the popup gave up but that may still arrive
    bridge,     \* the bridge process and the number of its restarts
    runs        \* ExtensionRunManager._runs, and how far each one is; lost is
                \* history: the popup lost sight of the run by a POST without
                \* an answer, a poll given up or another connection

vars == <<page, storage, post, strays, bridge, runs>>

Ops      == {"none", "run", "poll", "save", "scan"}
Statuses == {"none", "queued", "running", "complete", "failed", "gone"}

\* here: the fields name this bridge and its token
Page == [open : BOOLEAN, starting : BOOLEAN, op : Ops, records : BOOLEAN, here : BOOLEAN,
         runId : RunIds \cup {NoRun}, inFlight : BOOLEAN, timer : BOOLEAN,
         retries : 0..MaxRetries]
Run  == [status : Statuses, submitted : {0} \cup Sizes, waiting : Nat, working : 0..Workers,
         broken : BOOLEAN, lost : BOOLEAN]

Closed == [open |-> FALSE, starting |-> FALSE, op |-> "none", records |-> FALSE, here |-> TRUE,
           runId |-> NoRun, inFlight |-> FALSE, timer |-> FALSE, retries |-> 0]
Unused == [status |-> "none", submitted |-> 0, waiting |-> 0, working |-> 0,
           broken |-> FALSE, lost |-> FALSE]
NoPost == [state |-> "none", size |-> 0, run |-> NoRun]

Storages == [runId : RunIds \cup {NoRun}, here : BOOLEAN]
Posts    == [state : {"none", "sent", "lost", "accepted"}, size : {0} \cup Sizes,
             run : RunIds \cup {NoRun}]
Bridges  == [state : {"up", "closing", "down"}, restarts : 0..MaxRestarts]

TypeOK ==
    /\ page \in Page
    /\ storage \in Storages
    /\ post \in Posts
    /\ strays \in Nat
    /\ bridge \in Bridges
    /\ runs \in [RunIds -> Run]

Init ==
    /\ page = Closed
    /\ storage = [runId |-> NoRun, here |-> TRUE]
    /\ post = NoPost
    /\ strays = 0
    /\ bridge = [state |-> "up", restarts |-> 0]
    /\ runs = [r \in RunIds |-> Unused]

Unfinished(r) == runs[r].status \in {"queued", "running"}
Fresh == {r \in RunIds : runs[r].status = "none"}
Idle  == page.open /\ page.op = "none"

Lost(r, lost) ==
    IF r # NoRun /\ Unfinished(r) THEN [runs EXCEPT ![r].lost = lost] ELSE runs

-----------------------------------------------------------------------------
(* The popup.  A person's clicks come between storage calls, which take    *)
(* milliseconds; requests take up to eight seconds and do not stop clicks, *)
(* typing or closing.                                                      *)

(* Mutant: a saved run does not count as being in flight.                  *)
OpenForgetful(records) ==
    /\ ~page.open
    /\ page' = [Closed EXCEPT !.open = TRUE, !.starting = TRUE, !.records = records,
                              !.here = storage.here, !.runId = storage.runId]
    /\ UNCHANGED <<storage, post, strays, bridge, runs>>

\* loadSettings up to the connection check, which is no busy operation.
Open(records) ==
    /\ ~page.open
    /\ page' = [Closed EXCEPT !.open = TRUE, !.starting = TRUE, !.records = records,
                              !.here = storage.here, !.runId = storage.runId,
                              !.inFlight = storage.runId # NoRun]
    /\ UNCHANGED <<storage, post, strays, bridge, runs>>

\* pollRun up to its request.
Polling(p) ==
    IF p.runId = NoRun \/ p.op # "none" THEN p
    ELSE [p EXCEPT !.op = "poll", !.timer = FALSE]

StartupDone(connected) ==
    /\ page.open /\ page.starting
    /\ connected => page.here /\ bridge.state = "up"
    /\ page' = IF connected THEN Polling([page EXCEPT !.starting = FALSE])
               ELSE [page EXCEPT !.starting = FALSE]
    /\ UNCHANGED <<storage, post, strays, bridge, runs>>

\* An unanswered POST is lost, still arrives, or has made a run.
AbandonPost ==
    /\ post' = NoPost
    /\ runs' = Lost(post.run, TRUE)
    /\ \/ post.state = "sent" /\ strays' = strays + 1
       \/ strays' = strays

Close ==
    /\ page.open
    /\ page' = Closed
    /\ AbandonPost
    /\ UNCHANGED <<storage, bridge>>

\* clearStaleRun, for the page and for the storage
Cleared(p) == [p EXCEPT !.runId = NoRun, !.inFlight = FALSE, !.retries = 0, !.timer = FALSE]
Forgotten  == [storage EXCEPT !.runId = NoRun]

\* runDiscovery; the button is disabled while a run is in flight.
ClickVerify(n) ==
    /\ Idle /\ page.records /\ ~page.inFlight
    /\ strays < Cardinality(Fresh)
    /\ page' = [Cleared(page) EXCEPT !.inFlight = TRUE, !.op = "run"]
    /\ storage' = Forgotten
    /\ post' = [state |-> IF page.here THEN "sent" ELSE "lost", size |-> n, run |-> NoRun]
    /\ UNCHANGED <<strays, bridge, runs>>

PostReply ==
    /\ page.op = "run" /\ post.state = "accepted"
    /\ page' = Polling([page EXCEPT !.op = "none", !.runId = post.run])
    /\ storage' = [storage EXCEPT !.runId = post.run]
    /\ post' = NoPost
    /\ UNCHANGED <<strays, bridge, runs>>

(* Mutant: a failed submission leaves the run in flight.                   *)
PostFailsInFlight ==
    /\ page.op = "run"
    /\ page' = [page EXCEPT !.op = "none"]
    /\ AbandonPost
    /\ UNCHANGED <<storage, bridge>>

\* Timeout, connection error, refusal or an invalid answer.
PostFails ==
    /\ page.op = "run"
    /\ page' = [page EXCEPT !.op = "none", !.inFlight = FALSE]
    /\ AbandonPost
    /\ UNCHANGED <<storage, bridge>>

\* The bridge answers 404 for a run it does not know, and 401 to the token
\* of another instance.
PollGone ==
    /\ page.op = "poll"
    /\ \/ ~page.here
       \/ bridge.state = "up" /\ runs[page.runId].status = "gone"
    /\ page' = [Cleared(page) EXCEPT !.op = "none"]
    /\ storage' = Forgotten
    /\ runs' = Lost(page.runId, TRUE)
    /\ UNCHANGED <<post, strays, bridge>>

PollFinished ==
    /\ page.op = "poll" /\ page.here /\ bridge.state = "up"
    /\ runs[page.runId].status \in {"complete", "failed"}
    /\ page' = [page EXCEPT !.op = "none", !.inFlight = FALSE, !.retries = 0]
    /\ UNCHANGED <<storage, post, strays, bridge, runs>>

(* Mutant: the answer does not lead to another poll.                       *)
PollOnce ==
    /\ page.op = "poll" /\ page.here /\ bridge.state = "up"
    /\ Unfinished(page.runId)
    /\ page' = [page EXCEPT !.op = "none", !.inFlight = TRUE, !.retries = 0]
    /\ runs' = Lost(page.runId, FALSE)
    /\ UNCHANGED <<storage, post, strays, bridge>>

PollUnfinished ==
    /\ page.op = "poll" /\ page.here /\ bridge.state = "up"
    /\ Unfinished(page.runId)
    /\ page' = [page EXCEPT !.op = "none", !.inFlight = TRUE, !.retries = 0, !.timer = TRUE]
    /\ runs' = Lost(page.runId, FALSE)
    /\ UNCHANGED <<storage, post, strays, bridge>>

\* Timeout, connection error or a server error: some more attempts.
PollRetries ==
    /\ page.op = "poll"
    /\ page.retries < MaxRetries
    /\ page' = [page EXCEPT !.op = "none", !.retries = @ + 1, !.timer = TRUE]
    /\ UNCHANGED <<storage, post, strays, bridge, runs>>

\* The last of them failed, or another server gave an answer that is none.
PollGivesUp ==
    /\ page.op = "poll"
    /\ page.retries = MaxRetries \/ ~page.here
    /\ page' = [page EXCEPT !.op = "none", !.inFlight = FALSE]
    /\ runs' = Lost(page.runId, TRUE)
    /\ UNCHANGED <<storage, post, strays, bridge>>

\* The callback of schedulePoll.  While another operation is busy the poll
\* is dropped and nothing schedules the next one.
TimerFires ==
    /\ page.open /\ page.timer
    /\ page' = Polling([page EXCEPT !.timer = FALSE])
    /\ UNCHANGED <<storage, post, strays, bridge, runs>>

Refresh ==
    /\ Idle /\ page.runId # NoRun
    /\ page' = Polling(page)
    /\ UNCHANGED <<storage, post, strays, bridge, runs>>

\* The connection fields are read at every request, saved or not.
EditConnection ==
    /\ page.open
    /\ page' = [page EXCEPT !.here = ~@]
    /\ UNCHANGED <<storage, post, strays, bridge, runs>>

\* saveConnection up to its health check.
ClickSave ==
    /\ Idle
    /\ IF page.runId # NoRun /\ page.here # storage.here
       THEN /\ page' = [Cleared(page) EXCEPT !.op = "save"]
            /\ storage' = [runId |-> NoRun, here |-> page.here]
            /\ runs' = Lost(page.runId, TRUE)
       ELSE /\ page' = [page EXCEPT !.op = "save"]
            /\ storage' = [storage EXCEPT !.here = page.here]
            /\ UNCHANGED runs
    /\ UNCHANGED <<post, strays, bridge>>

\* scanSelected and scanLoadedPage: both forget the run first.
ClickScan ==
    /\ Idle /\ ~page.inFlight
    /\ page' = [Cleared(page) EXCEPT !.op = "scan", !.records = FALSE]
    /\ storage' = Forgotten
    /\ UNCHANGED <<post, strays, bridge, runs>>

ScanEnds(records) ==
    /\ page.op = "scan"
    /\ page' = [page EXCEPT !.op = "none", !.records = records]
    /\ UNCHANGED <<storage, post, strays, bridge, runs>>

SaveEnds ==
    /\ page.op = "save"
    /\ page' = [page EXCEPT !.op = "none"]
    /\ UNCHANGED <<storage, post, strays, bridge, runs>>

-----------------------------------------------------------------------------
(* The bridge.                                                             *)

Serving == bridge.state \in {"up", "closing"}

Ended(status) == [Unused EXCEPT !.status = status]

\* submit.  Run ids are given in order, so they also order the executor's
\* queue.  A handler that comes to it after close() records a failed run.
Submitted(n) ==
    IF bridge.state = "up" THEN [Unused EXCEPT !.status = "queued", !.submitted = n, !.waiting = n]
    ELSE Ended("failed")
IsNext(r) == r \in Fresh /\ \A q \in Fresh : r <= q

AcceptPost(r) ==
    /\ Serving /\ post.state = "sent" /\ IsNext(r)
    /\ runs' = [runs EXCEPT ![r] = Submitted(post.size)]
    /\ post' = [post EXCEPT !.state = "accepted", !.run = r]
    /\ UNCHANGED <<page, storage, strays, bridge>>

AcceptStray(r, n) ==
    /\ Serving /\ strays > 0 /\ IsNext(r)
    /\ runs' = [runs EXCEPT ![r] = [Submitted(n) EXCEPT !.lost = TRUE]]
    /\ strays' = strays - 1
    /\ UNCHANGED <<page, storage, post, bridge>>

ChangeRun(r, change) ==
    /\ Serving
    /\ runs' = [runs EXCEPT ![r] = change]
    /\ UNCHANGED <<page, storage, post, strays, bridge>>

(* Mutant: a run that fails takes the executor's thread with it.           *)
BeginAfterSuccess(r) ==
    /\ runs[r].status = "queued"
    /\ \A q \in 1..r - 1 : runs[q].status = "complete"
    /\ ChangeRun(r, [runs[r] EXCEPT !.status = "running"])

\* The executor has one thread.
BeginRun(r) ==
    /\ runs[r].status = "queued"
    /\ \A q \in RunIds : runs[q].status # "running" /\ (Unfinished(q) => r <= q)
    /\ ChangeRun(r, [runs[r] EXCEPT !.status = "running"])

Alone(r) == Workers = 1 \/ runs[r].submitted = 1

\* A pool of one is no pool: the run's own thread takes the companies one
\* after the other and an exception ends it.
StartCompany(r) ==
    /\ runs[r].status = "running"
    /\ runs[r].waiting > 0
    /\ IF Alone(r) THEN runs[r].working = 0 /\ ~runs[r].broken
                   ELSE runs[r].working < Workers
    /\ ChangeRun(r, [runs[r] EXCEPT !.waiting = @ - 1, !.working = @ + 1])

\* A company returns, which the run counts, or raises, which breaks the run.
CompanyEnds(r, raises) ==
    /\ runs[r].working > 0
    /\ ChangeRun(r, [runs[r] EXCEPT !.working = @ - 1, !.broken = @ \/ raises])

\* The artifacts are written before the result is published, or fail to be.
CompleteRun(r, written) ==
    /\ runs[r].status = "running" /\ ~runs[r].broken
    /\ runs[r].waiting = 0 /\ runs[r].working = 0
    /\ ChangeRun(r, Ended(IF written THEN "complete" ELSE "failed"))

(* Mutant: the failure is published while other companies are at work.     *)
FailRunAtOnce(r) ==
    /\ runs[r].status = "running" /\ runs[r].broken
    /\ ChangeRun(r, [runs[r] EXCEPT !.status = "failed"])

\* The pool lets everything submitted to it end before the exception leaves.
FailRun(r) ==
    /\ runs[r].status = "running" /\ runs[r].broken
    /\ runs[r].working = 0 /\ (~Alone(r) => runs[r].waiting = 0)
    /\ ChangeRun(r, Ended("failed"))

\* server_close; then close() waits for what is queued.
StopBridge ==
    /\ bridge.state = "up"
    /\ bridge' = [bridge EXCEPT !.state = "closing"]
    /\ UNCHANGED <<page, storage, post, strays, runs>>

\* The end of that wait, or a kill: the runs were in memory only.
ExitBridge(killed) ==
    /\ Serving
    /\ ~killed => bridge.state = "closing" /\ \A r \in RunIds : ~Unfinished(r)
    /\ bridge' = [bridge EXCEPT !.state = "down"]
    /\ runs' = [r \in RunIds |->
                   IF runs[r].status = "none" THEN Unused ELSE Ended("gone")]
    /\ UNCHANGED <<page, storage, post, strays>>

StartBridge ==
    /\ bridge.state = "down"
    /\ bridge.restarts < MaxRestarts
    /\ bridge' = [state |-> "up", restarts |-> bridge.restarts + 1]
    /\ UNCHANGED <<page, storage, post, strays, runs>>

-----------------------------------------------------------------------------

Requests ==
    \/ \E b \in BOOLEAN : StartupDone(b)
    \/ PostReply \/ PostFails
    \/ PollGone \/ PollFinished \/ PollUnfinished \/ PollRetries \/ PollGivesUp
    \/ SaveEnds

Execution(r) ==
    \/ BeginRun(r) \/ StartCompany(r) \/ (\E raises \in BOOLEAN : CompanyEnds(r, raises))
    \/ \E written \in BOOLEAN : CompleteRun(r, written)
    \/ FailRun(r)

Person ==
    \/ \E b \in BOOLEAN : Open(b) \/ ScanEnds(b)
    \/ Close
    \/ \E n \in Sizes : ClickVerify(n)
    \/ Refresh \/ EditConnection \/ ClickSave \/ ClickScan

Next ==
    \/ Person
    \/ Requests
    \/ TimerFires
    \/ \E r \in RunIds : AcceptPost(r) \/ (\E n \in Sizes : AcceptStray(r, n)) \/ Execution(r)
    \/ StopBridge \/ (\E killed \in BOOLEAN : ExitBridge(killed)) \/ StartBridge

Spec == Init /\ [][Next]_vars

(* Every request ends within its timeout, timers fire, and the bridge's    *)
(* threads run; that the pipeline of a company returns is assumed.  Nothing *)
(* is assumed of the person.                                               *)
Fairness ==
    /\ WF_vars(Requests)
    /\ WF_vars(TimerFires)
    /\ \A r \in RunIds : WF_vars(Execution(r))

FairSpec == Spec /\ Fairness

-----------------------------------------------------------------------------

(* Whole runs never overlap and a run keeps to its workers, also when a    *)
(* company raises while others are at work (docs/adr/0038).                *)
OneRunAtATime ==
    /\ \A r, q \in RunIds : runs[r].working > 0 /\ runs[q].working > 0 => r = q
    /\ \A r \in RunIds : runs[r].working > 0 => runs[r].status = "running"

(* A page that waits for nothing and shows a run in flight, so that Verify *)
(* and both scans are disabled, knows the run and can be refreshed.        *)
NoStuckControl ==
    Idle /\ page.inFlight => page.runId # NoRun

(* An unfinished run that the popup did not lose sight of is the run in    *)
(* storage (or its answer is on the way), and an open popup has it in      *)
(* flight: no second run can be submitted and no scan forgets it.          *)
UnfinishedRunIsKept ==
    \A r \in RunIds : Unfinished(r) /\ ~runs[r].lost =>
        \/ post.state = "accepted" /\ post.run = r
        \/ /\ storage.runId = r
           /\ page.open => page.runId = r /\ page.inFlight

(* A queued run ends, in whatever way, whoever is looking.                 *)
RunsEnd == \A r \in RunIds : Unfinished(r) ~> ~Unfinished(r)

(* A popup that submits or polls comes to the end of the run by itself, by *)
(* an answer or by giving up.  Only saving a connection may end that: a    *)
(* timer that fires meanwhile is dropped, and Refresh is then the way on.  *)
FlightsEnd ==
    page.timer \/ page.op \in {"run", "poll"} ~> ~page.inFlight \/ page.op = "save"
=============================================================================
