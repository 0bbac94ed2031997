# Verification of the AI Job Source Agent

TLA+ models of the parts of `job_source_agent` that keep state across processes,
crashes and retries, the TLC configurations that check them, and TLAPS proofs of
what matters most. Paths below are relative to the repository; `live_batch_eval.py`
is `scripts/live_batch_eval.py`, the other Python files are in `job_source_agent/`.

## 1. The system

The agent takes a company and a LinkedIn posting and walks seven stages
(`models.py`, `PIPELINE_STAGES`): S1 LinkedIn discovery, S2 website, S3 hiring
identity, S4 career page, S5 job board, S6 opening, S7 validation. The page
heuristics inside a stage fill most of the repository; the correctness of a *run*
rests on a small amount of protocol code around them.

| component | state | operations | talks to |
|---|---|---|---|
| stage checkpoint store (`stage_checkpoint.py`) and prefix inspector (`checkpoint_prefix.py`) | one JSON file per stage and execution fingerprint | load, save, invalidate_from; three inspections | runner, batch parent |
| application runner (`application_runner.py`, `pipeline_application.py`) | the pipeline context of one child process | preflight, invalidate, restore, run and save each stage | checkpoint store, snapshot capture |
| live batch (`live_batch_eval.py`, `completion_resume.py`, `batch_checkpoint.py`) | durable completion per company, the phase results the parent holds | load completions, choose a start, run up to three child phases, recover, publish | process budget, checkpoint store |
| process budget (`process_budget.py`) | worker process group, pipe, envelope file, two locked shared values | run with a hard deadline, stop the tree | operating system |
| evidence store (`company_discovery_evidence_store.py`) | one JSON file with website, career page and boards per company | load, save, invalidate under a flock | S2, S4, S5, `prepare_company`, extension runs |
| snapshot capture and scoped replay (`snapshot*.py`, `evidence_scope.py`, `outcome_tape.py`, `scoped_replay.py`) | scopes, page and failure journals of a capture attempt | begin, record, finalize, abort, replay | runner, fetchers |
| fetch stack (`page_cache.py`, `retrying_fetcher.py`, `career_transport_budget.py`) | cache, host circuits, dispatches, deadlines, retry scopes | fetch, open and close a scope | stages |
| career discovery (`JobSourceAgent._find_career_page` in `pipeline.py`, `career_candidate_scheduler.py`) | remembered links, the trace of one search, the fetches of each pass | read a source, schedule its candidates, visit them, judge the failure | fetch stack |
| extension bridge (`extension_bridge.py`) | pairing, run records, worker pool | pair, submit, status, close | Chrome extension, pipeline |
| extension pages (`extension/popup.js`, `extension/content.js`) | the popup's state, the run id and the snapshot in `chrome.storage`, the scan loop in the page | scan, cancel, verify, poll, save the connection | bridge, service worker |
| apply capture (`extension/background.js`) | pending and completed apply captures in `chrome.storage` | begin, tab events, finalize, status | extension pages |
| candidate coordination and portfolio, other stages, matching, providers, web access, reporting | per call | search and parse pages | each other |

**Concurrency.** The batch runs companies in a thread pool, and each phase of a
company in a spawned process of its own. A child is single-threaded. Parent and
child share files; parent, child and the child's browsers share signals. The
evidence store file is shared by all of them and by other runs, the journals of a
snapshot directory by the children of all companies. In the browser the popup, the
service worker and the content script run callbacks between each other's awaits,
and any of the three may go away.

**Hard behaviour.** Children are killed at their deadline at any instruction, the
batch may be killed itself, files are replaced or unlinked one at a time, an
attempt consists of several phases that each re-inspect the disk, and results
computed from different phases are merged by the parent.

What makes each component correct:

* checkpoints: neighbouring stage files always come from one run; a restored
  context is one gapless chain; a failure of an earlier attempt is not reused;
* company run: work an attempt was told to keep, or has done itself, survives it;
  what it publishes is one chain; a retry or rerun publishes recomputed stages;
* process budget: exactly the results published by the deadline are returned,
  nothing outlives the call, the call returns;
* evidence store: no lost update, layers only get newer, lower layers belong to
  the upper ones;
* snapshot capture: a replay sees exactly the outcomes of the recorded scope, in
  order, or fails;
* fetch stack: no fetch beyond a budget, and what is kept back for later stages and
  for fetches with evidence is kept; a failure names the budget that ended it;
* career discovery: evidence goes before guesses whatever is reserved, no visit is
  spent on a link twice, and a page is reported missing only when the evidence was tried;
* bridge and extension: runs do not overlap, the popup never loses an unfinished run
  by itself and always gets its controls back; no late answer is shown; a captured
  address comes from the tab that the Apply control opened.

## 2. Modules

| module | models | checked by |
|---|---|---|
| `CheckpointPrefix` | a checkpoint as data, the acceptance rule, the inspections | with `CompanyRun` |
| `CompanyRun` | batch parent, child runner and checkpoint directory for one company | `MCCompanyRun`: `CompanyRun.cfg`, `CompanyRerun.cfg`, `RerunFresh.cfg` |
| `ReusableChain` | what checkpoints promise, abstractly | `ImplementsChain` |
| `CompanyRun_proofs` | proofs | |
| `ProcessBudget` | parent, worker and helpers of one budgeted call | `MCProcessBudget`: `ProcessBudget.cfg` |
| `EvidenceRecord` | the operations on one company's evidence record | with `EvidenceStore` |
| `EvidenceStore` | processes sharing the evidence file under the flock | `MCEvidenceStore`: `EvidenceStore.cfg` |
| `AtomicEvidence` | atomic updates of records, abstractly | `ImplementsAtomic` |
| `EvidenceStore_proofs` | proofs | |
| `ApplyCapture` | the listeners of `extension/background.js`, the browser and its user | `MCApplyCapture`: `ApplyCapture.cfg`, `UnrelatedTab.cfg` |
| `ApplyCapture_proofs` | proofs | |
| `ScopedCapture` | the children of all companies writing one snapshot directory, and the replay | `MCScopedCapture`: `ScopedCapture.cfg` |
| `ScopedCapture_proofs` | proofs | |
| `ExtensionRuns` | popup, bridge and its queue of runs | `MCExtensionRuns`: `ExtensionRuns.cfg` |
| `ExtensionRuns_proofs` | proofs | |
| `PageScan` | popup, content script and LinkedIn page during scans | `MCPageScan`: `PageScan.cfg` |
| `PageScan_proofs` | proofs | |
| `FetchBudgets` | retries, deadlines, dispatches and denying hosts of one child | `MCFetchBudgets`: `FetchBudgets.cfg` |
| `Budgets_proofs` | proofs about `FetchBudgets` and `ProcessBudget` | |
| `CareerSchedule` | the order of career candidates with its reservations, as operators | with `CareerDiscovery` |
| `CareerDiscovery` | the search for a career page | `MCCareerDiscovery`: `CareerDiscovery.cfg` |
| `CareerDiscovery_proofs` | proofs about `CareerSchedule` and `CareerDiscovery` | |

### CompanyRun

A checkpoint is `[phase, base, class]`: the child phase that executed the stage,
the phase of the predecessor's result it was computed on, and the class the
inspector sees (`reusable`, `negative`, `malformed`; `absent` for a missing or
undecodable file). `phase` and `base` are history: they say where a result came
from, which the code does not store and the properties need. The actions follow
the source in order:

* `Invoke`, `DropRetried`, `DropDone`: `_load_completed_companies`. A stored
  completion that is not retryable ends the matter; a retryable one first drops
  the checkpoints from the failed stage on, one unlink per step.
* `RerunRefused`, `SelectUpstream`, `SelectDownstream`: `_explicit_rerun_preflight`
  and the choice of the start in `run_company`.
* `ChildInspect`, `ChildCut`, `ChildCutDone`, `ChildRunStage`: one child in
  `ApplicationRunner.run`. Restore happens in memory, so it is one step with the
  inspection; nobody else writes the directory meanwhile.
* `UpstreamReturned` ... `DownstreamRaised`, `CanContinue`, the gate and route
  actions: the phase outcomes and the parent's decisions. A deadline or an
  exception may strike in any state of the child, because the wall clock is not
  modelled.
* `PublishResult`, `PublishFailure`, `EndAttempt`: the durable completion.
* `BatchCrash`: the batch dies at any point.

The wall clock, budgets and the digits of the fingerprint are abstracted: a phase
may time out whenever it runs, and there is one fingerprint, that of compatible
attempts. Whether the result of S2 to S5 has the URLs later decisions ask for is a
nondeterministic choice.

### ProcessBudget

`parent` and `child` are program counters of `run_with_process_budget` and
`_worker_entrypoint`; each lock region has its own place, and a worker killed there
is remembered (`died_flagging`, `died_stamping`) since a multiprocessing lock is
not released by death. Time is one bit, `late`; the stamp is compared with it when
it is taken. SIGTERM may or may not have reached a process when the parent goes
on. The atomic publication of the envelope (`artifact_publish.py`) is one step.
Left out: results that cannot be pickled and envelope files damaged from outside.

### EvidenceStore

Each process observes a layer (the time is taken then), waits for the flock, reads
the whole file, applies one operation to its copy, replaces the file and unlocks;
it may die anywhere. An invalidation names the URL of the layer that was loaded
when the check began. `Apply` translates `save` and `invalidate`. A board is a layer of
its own: `save` compares it with the other boards only, and ADR 28 calls the layers
independently optional, so nothing is asked of its relation to website or career page.
Left out: URL normalisation, the evidence URL as a second key of an invalidation, and a file that
cannot be read (the code then starts from an empty store).

### ApplyCapture

Every listener of the service worker is a coroutine in a slot of `handler`, and one
step is one awaited `chrome.*` call with the code up to the next. `session` is the
pending capture and `captures` the record store; `tabs` and `events` are the
browser, external to the code: a tab knows its opener, the page it shows and the
page it is loading, and created and updated events arrive in the order they were
sent, perhaps much later than the page itself. A page is a posting, the site that
the Apply control of a job leads to, or another public site; that is all
`sanitizeExternalApplyUrl` and the properties tell apart. `content.js` appears with
its part of the protocol: it selects the posting again, clicks only while the page
shows the job, and the click opens a tab, replaces the page or fails. The record store
is the code's map by job id, kept newest first; a new record replaces that of its job
(`OfOthers`).

People, pages, events and the 20 s limit act at any time, also between two awaits of a
listener: a capture may be begun while another is being finished, two may find nothing
pending at once, and a capture may expire under the listener that records it. One thing
is simplified: a report of a tab's title or icon comes at once, and only when no other
event is under way, so it always has the page as it is. Left out: tabs that are closed,
a worker stopped between two awaits, rejected messages and status requests that find no
expired capture (they change nothing), and events of tabs that are still loading.

That no record is lost is not a property, since it does not hold: `persistCompletedCapture`
reads the record store, waits and writes it (`background.js:159-179`), and a listener of
one capture may do so around a listener of another. `NothingMissed` and `CapturedOnce`
hold all the same, for any number of listeners (section 4).

### ScopedCapture

`journal` is the content of the two journals in the order it was written, `sequence`
the number file, `lock` the flock. A child numbers a request (`Fetch`), records its
terminal outcome under the lock, and freezes the scope into the checkpoint when the
stage returns; a kill may leave a line without its newline, onto which the next
record is appended. A replay loads the frozen scopes, one stage at a time, and serves
them in any order the replayed stage asks. The model has stages and attempts; the
runs are bounded to one of each, with a stage that may be repeated within its
attempt. Left out: the content of pages, artifacts beside the journals and the
retention of old snapshots.

### ExtensionRuns

`page` is the popup's `state` object with what it is waiting for, `storage` what
`chrome.storage.local` keeps of it, `post` and `strays` the submissions on their way,
`runs` the bridge's records. The popup can be closed at any moment and opened again;
its connection fields can be edited to something that is refused and back; a request
can fail before or after it reached the bridge; the bridge can be stopped (it then
finishes its queue), killed and started again, empty. Assumed: clicks do not fall
into the milliseconds of a storage or tab call, there is one popup, and the pipeline
of a company returns. The `completed` counter is abstracted to how many companies
wait and work. `lost` is history: the popup lost sight of the run, by a submission
without an answer, polls given up or another connection. Left out: pairing and the
checks of origins, which change no run.

### PageScan

The popup sends a scan or a cancellation to the tab; the content script answers a
scan once, at the end. `calls` says at which await each `scanLoadedPage` is: clearing the
old snapshot, preparing the content script, waiting for the answer, reading the stored
details, saving the new snapshot. Between any two of them the scan may be cancelled, by a
click, by the watchdog (`Cancel`) or by closing the popup. `answers` and `acks` are the
promises the popup waits for, `scan` the loop of `collectPage`. `given` and `cut` are
history: the scans the popup ended before it had taken their answer, and after. LinkedIn
is external: a click on a card takes effect later, a newer click replaces one that has
not yet, and it may be slower than the code waits; the cards keep their jobs. Merged: the
two storage calls that clear the old snapshot and the query of the tab are one await, as
each is followed by the same check. Left out: storage calls that fail, scans of the
selected job only, cards that LinkedIn recycles while the list is scrolled, and what is
read of a job.

### FetchBudgets

`RetryingFetcher` over `CareerTransportBudgetFetcher` over the transport, as
`composition.py:111-118` stacks them, used by one stage after the other. Time is in
seconds. The transport is external: it answers within its timeout and a grace of one
second (`hard_timeout`, `web.py:925`), and with smart rendering may take its timeout
once more. Delays of a retry are any up to `MaxDelay`, which stands for the random
part and the `Retry-After` of a host. Retry scopes are opened in the website stage
only and the stage reserve applies in the career stage only, as in the code. Left
out: the time a browser takes to launch (the code does not bound it), the renders
reserved for explicit actions, `www` and bare host as one key, and the page cache.

### CareerSchedule and CareerDiscovery

`Schedule` is `schedule_career_candidates`: the candidates by tier of evidence,
representatives of a family before their aliases, then three reservations, each of
which may move one link into the window of fetches: a guess on the other host form, a
guessed subdomain, the locale root of the target region (the gateway).

`CareerDiscovery` is `_find_career_page`: the sources in their order, the pass that
each opens over its candidates, and in it one step per candidate (`Skip`, `Verify`,
`Refuse`, `Fail`, `OpenGateway`). The page of a gateway opens a pass within the pass. A
step is a visit, which is what the code counts (`fetch_attempts`, `pipeline.py:4774`)
and limits, not a request: for one candidate it may ask the adapter of a provider
(`pipeline.py:4779`, 5320), the page, the adapter again when the page failed (4812, 5380),
the payload of a CMS (4917) and the API of the provider (4955, 5421), often at the same
URL. The requests have limits of their own (`FetchBudgets`). `trace` is
what the code reads back from its nested trace: denials per site, evidence that could
not be reached, an exhausted budget. `attempted` is only kept when the homepage was
navigated before (`remembers`).

Abstracted: candidates below the eligible score are left out, sort keys are distinct
(a stable sort makes them so), a tier follows from the origin and one bit for
explicit career words, guesses on a guessed subdomain have no other guess in their
family (`Listed`, which `_common_path_candidates` provides). Whether a page is a
career page, what a provider adapter says of a link and what each source finds is
free. A page or an error that is neither retryable nor a denial settles a link (`Verify`);
`LOGIN_REQUIRED` is a denial of the site and settles the link (`Refuse`), since it is not
retryable (`reasons.py:28`); a 403 is a denial as well, but its link remains to be reached
(`Fail`), as `pipeline.py:6014` has it; the failure of a provider's adapter stays in the
trace even when the page then answers. Denials that the further requests of a visit meet
are those of a provider's host and are left out; candidates of the ATS source are not on
the official host, so it makes no difference that its pass has a trace of its own; a homepage that redirects to another host, and
the reasons of the transport budget, the deadline (see `FetchBudgets`) and of missing
offline fixtures are left out.

## 3. Runs

| run | result | bounds |
|---|---|---|
| `company_run` | passes, 750,303 states | five stages (one upstream stage instead of three), three child phases, resume from the opening, automatic retry |
| `company_rerun` | passes, 1,053,071 states | five stages, one upstream, three child phases, rerun of the career page, the board or the opening |
| `rerun_fresh` | violated: `RerunIsFresh` | four child phases |
| `process_budget` | passes, 1,854 states | two helper processes |
| `evidence_store` | passes, 260,348 states with symmetry | two processes, two companies, two websites, two career pages, three boards with a list cut at two, a clock up to three, four calls |
| `apply_capture` | passes, 2,612,907 states with symmetry | two jobs, one posting tab, two new tabs, two listeners at a time, two captures, a store of one record, one event under way |
| `unrelated_tab` | violated: `UnrelatedTabsAreRefused` | one job, one posting tab, one new tab, one capture |
| `scoped_capture` | passes, 1,823,818 states with symmetry | two companies, two requests, two requests of a stage, three records, two stage runs without a checkpoint |
| `extension_runs` | passes, 334,320 states | two workers, runs of one or two companies, one retry, two runs, one restart |
| `page_scan` | passes, 660,514 states | two jobs, two scans, any number of reloads |
| `fetch_budgets` | passes, 34,764 states | two hosts, a timeout of three seconds, a company deadline of eight with two kept back, two retries, five dispatches with two reserved |
| `career_discovery` | passes, 5,344,896 states | seven links of the homepage (a gateway, three more with evidence of which one is on a provider's site, a guessed path, its alias on the other host form, a guessed subdomain) for four visits of a pass, two of the bundle's; one or two links of each other source, several of them named before; the ATS source, whose guesses are no evidence, finds nothing |

What the passing runs show:

* `company_run`: interrupted phases, retries and resumes never mix the executions of
  different runs, on disk, in the context or in the completion (`ResultsOfOneRun`, whose
  three parts are `DiskCoherent`, `ContextCoherent` and `LedgerCoherent`); failures of an
  earlier attempt are not reused (`NegativesAreOwn`); what an attempt was to keep survives
  (`PrefixKept`); a retry publishes new work (`RetryIsFresh`).
* `company_rerun`: with an explicit rerun of any downstream stage, and without one, no
  phase destroys what its own attempt has saved (`OwnWorkKept`), but for what the rerun
  stage, handed to the opening phase again, starts over there; and the checkpoints
  implement `ReusableChain`. That results are of one run then as well is proved
  (section 4), as is all this for reruns of upstream stages, which the run leaves out.
* `process_budget`: exactly the results published in time are returned
  (`ReturnedAsPublished`), nothing outlives the call (`NoSurvivors`), and the call
  returns (`ReturnsUnlessOrphaned`).
* `evidence_store`: the shared file behaves as a record that is updated atomically
  (`ImplementsAtomic`), layers only get newer and belong together.
* `apply_capture`: the completed page of a live capture's target is not missed
  (`NothingMissed`), and a capture that was recorded is over or waits for another tab
  (`CapturedOnce`).
* `scoped_capture`: as long as the journals can be read, each saved scope loads and is
  what its stage saw (`SavedScopesLoad`), and a replay in any order repeats it
  (`ReplayRepeatsTheCapture`).
* `extension_runs`: `OneRunAtATime` for the bridge; `NoStuckControl` and
  `UnfinishedRunIsKept` for the popup; every run and every wait for one ends.
* `page_scan`: `NothingLateIsShown`, `SelectionRestored`, and every scan ends for the
  popup whatever the page does.
* `fetch_budgets`: what is kept back is kept up to one transport's excess
  (`LaterTimeIsKept`), guesses never take what is reserved for evidence, hosts that deny
  are left alone, a budget that is blamed is used up (`BlameIsJust`), every fetch ends.
* `career_discovery`: no reservation costs evidence its place
  (`EvidenceGoesFirst`), the two reserved guesses do not push each other out
  (`ReservesAreVisited`), a pass with its nested passes keeps its limit
  (`WithinPassLimit`), no visit is spent on a link twice (`NotVisitedAgain`), and a miss is
  earned (`MissIsEarned`).

Type invariants are proved for every module (section 4); three runs (`evidence_store`,
`apply_capture`, `scoped_capture`) check theirs as well.

Why the bounds are enough to be interesting. Every phase kind (upstream,
discovery, downstream) is kept, the merged upstream stages differ only in name, and
three phases allow a complete split attempt, or an interrupted attempt with two
retries. A rerun needs the files before its stage, so it follows a first attempt of one
phase or two: one of the career page then goes on to its opening phase, or is followed by
a later attempt that meets what an interrupted cut left; one of the board or the opening
has its child as the third phase. In the evidence store four calls suffice to store a website, a career page
and a board and replace any of them while two processes overlap; three boards
overflow a list of two. In the apply capture the second new tab competes with the
target, the second capture meets the first one live, expired, being finished and
finished, and two records compete for one place. In the snapshot store a record of the other company and a
repeated stage both come between the records of a scope. With two runs one is queued
while the other works, and the second may be one the popup lost; two workers have one
company fail while the other is at work. With two scans the answer of the first meets
the second in every place. The times of `fetch_budgets` let a timeout straddle each
deadline, and five dispatches leave guesses one to lose. In the career discovery
evidence, of which a pass may have none or up to four links, leaves the guesses four
fetches down to none; the alias and the subdomain compete for a reserve; and the links named by
several sources let a link be offered first as a guess, first by a gateway's page or
again after a failure.

The evidence store, the budgeted call, the snapshot store, the fetches and the search
for a career page come to rest when no call, record, time or source is left, so these
runs do not check for deadlock; the company run and the three runs of the extension
are checked for it and have none.

**Fairness.**

* `ProcessBudget`: the deadline passes, the operating system schedules the parent, and
  a process inside a lock region gets to leave it. Nothing is assumed of the function
  the worker runs, which may hang for ever. Under this the call returns unless the
  worker dies inside a lock region (`ReturnsUnlessOrphaned`).
* `ExtensionRuns`: requests end within the timeout the popup gives them, timers fire,
  the bridge's threads run. Nothing is assumed of the person, so nobody needs to click
  for `RunsEnd` and `FlightsEnd`.
* `PageScan`: promises and messages are served and the watchdog fires. Nothing is
  assumed of the loop in the page, since a hidden tab may hold its timers back.
* `FetchBudgets`: the transport answers within its timeout and the child runs.

**The violations** are disagreements of code and documentation:

1. `RerunIsFresh`: `--rerun-stage` promises to "invalidate this stage and
   downstream checkpoints, then recompute them". If the child is killed before it
   invalidates, the parent recovers the complete old chain and publishes it.
2. `UnrelatedTabsAreRefused`: `EXTENSION_ACCEPTANCE.md:84` binds a captured address to
   the tab opened by the explicit action and excludes unrelated tabs, while `onCreated`
   takes any tab opened from the posting's page (`background.js:291`), also one that the
   person opened just before the capture.

Disagreements met while modelling, without a run of their own:

* With `--rerun-stage` of S4 or S5 the opening phase receives the rerun stage again
  (`live_batch_eval.py:1437`, `pipeline_application.py:52`) and starts over there, at the
  cost of the board just verified and of the window that `live_batch_eval.py:1915`
  reserves for the opening.
* A record appended behind a line that a killed child left without its newline is joined
  to it (`snapshot.py:894`), and the journal can no longer be read
  (`snapshot_replay.py:534`); decision 10 of ADR 14 has records of an interrupted stage
  ignored. Hence `SavedScopesLoad` speaks of journals that can be read.
* A gateway moved in front of the guesses pushes the reserved subdomain probe out of the
  window (`career_candidate_scheduler.py:112`; `CHANGELOG.md:2746` reserves it). Hence
  `ReservesAreVisited` exempts passes with a reserved gateway.
* An exhausted budget noted by one pass stays the reason of the failure although later
  passes tried every link (`pipeline.py:5040`; `IMPLEMENTATION_PLAN.md:4810`).
* A link in the window whose fetch a gateway's page took is not counted as untried
  (`pipeline.py:4711`; the test at `tests/test_pipeline_offline.py:927` names the rule for
  links beyond the window). Hence `MissIsEarned` exempts links that a gateway crowded out.
* A guess that timed out keeps the same link, named by the sitemap, from being tried and
  reported as unreached (`pipeline.py:4697`; `CHANGELOG.md:2950`).
* A scan cancelled while its answer is being stored is over for the popup, and its records
  are saved and shown all the same: `scanLoadedPage` asks whether the scan is active when
  the answer comes (`popup.js:750`) and not after the two storage calls (756, 757). The
  test `pageCancellationRecoversButtons` of `popup_harness.js` expects no records after a
  cancellation. Hence `NothingLateIsShown` speaks of scans given up before their answer was
  taken.
* A pass limited to one visit may make three requests or more (the lines are in section
  2), against the names of the limits (`max_career_candidate_fetches`,
  `max_ats_board_fetches`). Hence `WithinPassLimit` speaks of visits.
* The denial of the official host that limits the leads of a search
  (`CHANGELOG.md:2744`) is read two passes before they are scheduled (`pipeline.py:789`).

Further, the "hard deadline" of the process budget waits for a lock that a killed worker
may hold (`process_budget.py:211`; hence `ReturnsUnlessOrphaned`). Step 9 of `EXTENSION_ACCEPTANCE.md` keeps both
scan controls disabled until the run ends, but the popup enables them after its last
retry (`popup.js:902`; hence `lost`). A scan cancelled while the content script is
prepared is sent all the same (`popup.js:749`), and the next one is answered busy with
an empty result. ADR 2 and `EXTENSION_ACCEPTANCE.md:49` promise the original selection
unconditionally; `SelectionRestored` exempts a page slower than the code waits.

## 4. Proofs

All theorems hold for every value of the constants under the named assumptions of
the modules (`StageAssumption`, `RunAssumption`, `RecordAssumption`,
`StoreAssumption`, `RunsAssumption`, `ScanAssumption`, `BudgetAssumption`,
`DiscoveryAssumption`, and a `CaptureAssumption` each of `ApplyCapture` and
`ScopedCapture`), which the configurations satisfy. Every safety property of a passing
run is proved. In each module an invariant is strengthened until every action
keeps it, TLC checks it, and there is one lemma per action or kind of action.

* **CompanyRun.** `IInv` joins type correctness, coherence of the disk, gapless
  chains in the parent's best result and in the completion, and `ChildInv`: while a
  child cuts, its context agrees with the files before the cut; while it runs, every
  file that exists is the one in its context. The last part is what makes a save
  safe, and neither coherence property is inductive without it. From `Inductive`
  follow `TypeCorrect` and `ResultsAreOneRun`.

  What an attempt must keep and may reuse is not in `IInv`: `AttemptInv` adds where the
  attempt stands (`PhaseInv`), that the start the parent selected still fits the disk when
  the phases begin (`RouteInv`), that from the stage at which a child cuts on nothing is
  left that recovery would read and that is to be kept or was computed by this attempt
  (`KeepInv`), that files, context and best result hold from the retried stage on nothing
  that is older than the retry (`FreshInv`), and that negatives a finalized start builds on
  are the attempt's own (`NegativeInv`). From `AttemptInductive`: `NegativesStayOwn`, and
  the action properties `PrefixIsKept`, `OwnWorkIsKept` and `RetriesAreFresh`.

  `OwnWorkIsKept` has no hypothesis on the reruns: its exception, `StartedOver`, is the
  opening phase of an explicit rerun, which is handed the rerun stage again. Its child cuts
  from that stage on and not before.

  `ChainIsImplemented` proves the refinement step by step: what recovery would read of the
  disk is extended by the stage a child saves, since the child runs on absent files
  (`RunsOnAbsent`) and its context is what the disk holds, or it is cut by an unlink.
* **ProcessBudget** (in `Budgets_proofs`). `CallInv` adds where the
  worker's bookkeeping stands at each place, and that the parent reads the envelope only
  when the worker can no longer be before its stamp, unless it is dead or late. From it
  follow `CallTypes`, `ReturnedWhatWasPublished` and `TreeIsStopped`.
* **EvidenceStore.** The invariant is that the copy of the lock holder equals the
  file; with it each replacement is one operation on the current record
  (`ReplaceIsUpdate`). `ApplyKeepsRecord` says what every operation preserves. From
  both follow `CareerBelongs`, `LockHasOwner`, `LayersGetNewer` and the refinement
  `StoreIsAtomic`. Types and order of the board lists rest on what saving a board does to
  a list that is newest first: the other identities keep their order (`Others`), the new
  board's place exists because the natural numbers are well ordered (`Sorted`), and a cut
  keeps a prefix (`Cut`). From these `TypeCorrect` and `BoardsInOrder`.
* **ApplyCapture**, for any number of listeners. `ShapeInv` says which call each listener
  can be waiting for. `NewInv` says that an id which a beginning capture has not stored yet
  and a tab whose creation is not answered yet are new exactly once, and `SoundInv` that
  therefore no record, stored capture or copy in a listener names them: this is what a
  stale copy cannot break. `AttendInv` says that a completed page of the target is in an
  event or with a listener that will look at it, `OverInv` that a recorded capture which is
  still pending has a listener about to clear it. From them `TypeCorrect`, `NoPageMissed`, `RecordedOnce`, and
  `TakenNearby`: a record is taken in the source tab or a tab opened from it, which is what
  is left of the acceptance criterion that `unrelated_tab` refutes.
* **ScopedCapture**, for any number of companies, stages, attempts and kills. `WriteInv`
  gives the lock to the child that numbers a record; `HeldInv` says that numbers in the
  journals are below the one being written. `ScopeInv` says of each scope at work that its
  records have ordinals and numbers in the same order, are in the journals, and are newer
  than all else there with the id of the scope: a killed or repeated stage leaves records of
  the same scope behind, and only the bounds of the frozen reference keep them out.
  `SavedInv` says the same of the frozen scopes and is kept because later records have later
  numbers. All of it is conditional on journals without joined lines (`AllClean`), which
  `Written` can lose and never regain. `ReplayInv` says that the outcomes handed out of a
  tape are, for each identity, an initial part in order. From them `TypeCorrect`,
  `SavedScopesAreLoaded`, `ReplayIsFaithful`.
* **ExtensionRuns.** `PageInv` ties what an open popup shows to what is stored and to
  what it waits for, `ThreadInv` a working company to the one running run. With them
  `UnfinishedRunIsKept` is inductive: `TypeCorrect`, `NoOverlap`, `ControlsComeBack`,
  `RunIsKept`.
* **PageScan.** `PopupInv` says that only the newest scan is in progress, that an answer the
  popup has taken is its or that of a scan cut off since (`Taken`), and so are the records
  in `state.records`, which a save stores whoever's they are by then;
  `LoopInv` where the clicks are: while nobody interfered, the selected job is the
  original one or one the loop clicked and remembers. From them `TypeCorrect`,
  `NothingLate` and the action property `SelectionIsRestored`.
* **FetchBudgets** (in `Budgets_proofs`). `TimeInv` bounds what an attempt under way can still take beyond
  the stage's deadline, `ScopeInv` the dispatches that guesses took. From them
  `TypeCorrect`, `TimeIsKept`, `ReserveIsKept`, `DeniersLeftAlone`, `BlameJust`.
* **CareerSchedule** (in `CareerDiscovery_proofs`). The schedule is a sorted sequence defined by counting what goes
  ahead, so the work is to show that it is one: `Ahead` is a strict total order
  (`AheadIsAnOrder`) and counting along it fills every place exactly once
  (`EveryPlaceIsTaken`). Then what one reservation moves (`MovedForward`,
  `ReserveDoes`), and the three after each other: `EveryLinkOnce` (no reservation loses
  or doubles a link), `GuessesComeLast`, `BothReservesStay`.
* **CareerDiscovery.** `IInv` has the place of the search with the passes under way,
  and in `Core`: that a nested pass has one visit, paid for by the pass around it
  (`BudgetInv`); that what a pass still has to visit was visited by its nested pass at
  most (`MemoryInv`); that each scheduled link with evidence is accounted for, waits in a
  pass or is told by the trace (`MissInv`); and the theorems about the schedule for the
  windows of all passes (`ScheduleInv`). From it `TypeCorrect`, `LimitKept`,
  `VisitedOnlyOnce`, `MissEarned`, `EvidenceFirstAlways`, `ReservesAlways`.

Only model-checked: `ReturnsUnlessOrphaned`, `RunsEnd`, `FlightsEnd`,
`ScanEnds` and `FetchesEnd`, since liveness under fairness is out of the prover's reach;
and the two violations. What recursive definitions compute for every input is not proved
either, so the models avoid recursion: orders are counted (`CareerSchedule`) or chosen by
a least number (`LeastNat`).

## 5. Not modelled, and the plan

Not modelled for good: page heuristics, matching, provider parsers, network and
browser access, configuration, evaluation and reports, candidate coordination. They
fill most of the repository (the rest of `pipeline.py`, `stages/discovery.py`,
`website_resolver.py`, `opening_matcher.py`, the inventories), hold no state across
calls and are sequential: what they decide is a nondeterministic choice in the models
that call them.

Planned, in this order:

1. The tab that the Apply control opens told apart from others in `ApplyCapture`, as a
   correction of `onCreated` would have to, and a record store that is written without
   losing a record.
2. The page cache under the fetches, with its bounds and the requests it may answer.
3. A second writer on one fingerprint directory: orphaned children and duplicate
   inputs of a cohort; recapture of missing boundaries.
4. Pairing of the bridge; the merge of candidates by the coordinator.
