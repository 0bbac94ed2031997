---------------------------- MODULE ApplyCapture ----------------------------
(***************************************************************************)
(* The capture of an External Apply address by the Chrome extension        *)
(* (extension/background.js).  A message begins a capture, the content     *)
(* script clicks the Apply control of the posting, and tab events finish   *)
(* it.  Every listener of the service worker is a coroutine: it runs to    *)
(* its next await of a chrome.* call, other listeners run in between, and  *)
(* all they share is the pending capture in chrome.storage.session and the *)
(* captured records in chrome.storage.local.                               *)
(*                                                                         *)
(* One step here is one awaited call and the code up to the next one.      *)
(* People, pages and the 20 s limit act at any time in between.            *)
(***************************************************************************)
EXTENDS FiniteSets, Integers, Sequences

CONSTANTS
    Jobs,          \* LinkedIn job IDs
    SourceTabs,    \* tabs that may show a LinkedIn posting
    OtherTabs,     \* tabs in which the user browses something else
    NewTabs,       \* tabs that may be opened from any of these
    Handlers,      \* coroutines that may be active at one time
    MaxRecords,    \* MAX_CAPTURE_RECORDS
    Earlier,       \* number of records kept from earlier sessions
    MaxCaptures,   \* bound on the captures begun
    MaxEvents,     \* bound on the tab events not yet delivered
    None           \* an undefined value

ASSUME CaptureAssumption ==
    /\ SourceTabs \cap NewTabs = {}
    /\ MaxRecords \in Nat \ {0}
    /\ Earlier \in 0..MaxRecords
    /\ MaxCaptures \in Nat
    /\ MaxEvents \in Nat
    /\ SourceTabs \cap OtherTabs = {}
    /\ None \notin Jobs \cup SourceTabs \cup OtherTabs \cup NewTabs

VARIABLES
    session,    \* externalApplyCapturePending
    captures,   \* externalApplyCaptures, newest record first
    tabs,       \* the browser's tabs
    events,     \* tab events on their way to the listeners
    handler,    \* the coroutines
    begun,      \* captures begun; numbers them and orders started_at
    expired     \* captures up to this one are past expires_at

vars == <<session, captures, tabs, events, handler, begun, expired>>

Tabs == SourceTabs \cup NewTabs

(* A page: nothing yet, the posting of a job, the site that the Apply      *)
(* control of a job leads to, or any other public site.                    *)
Blank      == [kind |-> "blank", job |-> None]
Other      == [kind |-> "other", job |-> None]
Posting(j) == [kind |-> "posting", job |-> j]
Site(j)    == [kind |-> "site", job |-> j]
Pages == {Blank, Other} \cup {Posting(j) : j \in Jobs} \cup {Site(j) : j \in Jobs}

(* sanitizeExternalApplyUrl accepts the address.                           *)
IsExternal(page) == page.kind \in {"site", "other"}

Captures == [id : 1..MaxCaptures, job : Jobs, source : SourceTabs,
             target : NewTabs \cup {None}]
Records == [id : 0..MaxCaptures, job : Jobs, source : SourceTabs,
            tab : Tabs, page : Pages]
EarlierRecords ==
    {r \in Records : r.id = 0 /\ r.tab = r.source /\ r.page = Site(r.job)}
Ops == {"none", "begin", "status", "created", "updated"}
Pcs == {"idle", "read", "drop", "write", "trigger", "undo", "look",
        "reread", "redrop", "load", "store", "clear"}

IdleHandler == [pc |-> "idle", op |-> "none", tab |-> None, page |-> Blank,
                job |-> None, pend |-> None, records |-> <<>>]

Live(pending) == pending # None /\ pending.id > expired

TypeOK ==
    /\ session \in Captures \cup {None}
    /\ captures \in Seq(Records) /\ Len(captures) <= MaxRecords
    /\ tabs \in [Tabs -> [opener : SourceTabs \cup OtherTabs \cup {None},
                          page : Pages, next : Pages \cup {None}]]
    /\ events \in Seq([kind : {"created", "updated"}, tab : Tabs,
                       page : Pages])
    /\ begun \in 0..MaxCaptures
    /\ expired \in 0..begun
    /\ \A h \in Handlers :
          /\ handler[h].pc \in Pcs /\ handler[h].op \in Ops
          /\ handler[h].pc # "idle" => handler[h].op # "none"
          /\ handler[h].pc \in {"write", "load"}
                => handler[h].pend \in Captures
          /\ handler[h].records \in Seq(Records)

Init ==
    /\ session = None
    /\ captures \in [1..Earlier -> EarlierRecords]
    /\ \A i, k \in 1..Earlier :
          captures[i].job = captures[k].job => i = k
    /\ tabs = [t \in Tabs |->
                  [opener |-> None, page |-> Blank, next |-> None]]
    /\ events = <<>>
    /\ handler = [h \in Handlers |-> IdleHandler]
    /\ begun = 0
    /\ expired = 0

-----------------------------------------------------------------------------
(* The browser and its user *)

(* The address a listener is given with the status of the tab: only a tab  *)
(* that has finished loading counts as complete.                           *)
Shown(tab) == IF tab.next = None THEN tab.page ELSE Blank

Notify(kind, t, page) ==
    /\ Len(events) < MaxEvents
    /\ events' = Append(events, [kind |-> kind, tab |-> t, page |-> page])

(* The user selects a posting.  Its address is not external, so its own    *)
(* tab events change nothing and are left out.                             *)
SelectPosting(s, j) ==
    /\ tabs[s].page # Posting(j)
    /\ tabs' = [tabs EXCEPT ![s].page = Posting(j)]
    /\ UNCHANGED <<session, captures, events, handler, begun, expired>>

(* A tab opened from s that is to show page.                               *)
Opened(s, t, page) ==
    /\ tabs[t].opener = None
    /\ Notify("created", t, Blank)
    /\ tabs' = [tabs EXCEPT ![t] =
                   [opener |-> s, page |-> Blank, next |-> page]]

(* The user opens any other link of the page in a tab of its own.          *)
OpenOther(s, t) ==
    /\ Opened(s, t, Other)
    /\ UNCHANGED <<session, captures, handler, begun, expired>>

(* A page has loaded.                                                      *)
LoadPage(t) ==
    /\ tabs[t].next # None
    /\ Notify("updated", t, tabs[t].next)
    /\ tabs' = [tabs EXCEPT ![t].page = tabs[t].next, ![t].next = None]
    /\ UNCHANGED <<session, captures, handler, begun, expired>>

(* CAPTURE_TTL_MS after its start a capture has expired.                   *)
Expire ==
    /\ expired < begun
    /\ expired' = expired + 1
    /\ UNCHANGED <<session, captures, tabs, events, handler, begun>>

-----------------------------------------------------------------------------
(* The service worker *)

Goto(h, pc) == handler' = [handler EXCEPT ![h].pc = pc]
Finish(h)   == handler' = [handler EXCEPT ![h] = IdleHandler]

Enter(h, op, pc, t, page, j) ==
    /\ handler[h].pc = "idle"
    /\ handler' = [handler EXCEPT ![h] =
          [IdleHandler EXCEPT !.pc = pc, !.op = op, !.tab = t,
                              !.page = page, !.job = j]]

(* beginCapture up to chrome.tabs.get: the source tab shows the posting.   *)
BeginCapture(h, s, j) ==
    /\ begun < MaxCaptures
    /\ tabs[s].page = Posting(j)
    /\ Enter(h, "begin", "read", s, Blank, j)
    /\ UNCHANGED <<session, captures, tabs, events, begun, expired>>

(* getCaptureStatus: its reading matters only if it meets an expired       *)
(* capture, which is removed next.                                         *)
GetCaptureStatus(h) ==
    /\ session # None /\ ~Live(session)
    /\ Enter(h, "status", "drop", None, Blank, None)
    /\ UNCHANGED <<session, captures, tabs, events, begun, expired>>

(* The onCreated and onUpdated listeners are called in order.              *)
Deliver(h) ==
    /\ events # <<>>
    /\ LET e == Head(events)
       IN Enter(h, e.kind, "read", e.tab, e.page, None)
    /\ events' = Tail(events)
    /\ UNCHANGED <<session, captures, tabs, begun, expired>>

(* Title and icon changes are reported too, with the tab as it is.  Such a *)
(* report is taken to be delivered at once.                                *)
ReportTab(h, t) ==
    /\ events = <<>>
    /\ IsExternal(Shown(tabs[t]))
    /\ Enter(h, "updated", "read", t, Shown(tabs[t]), None)
    /\ UNCHANGED <<session, captures, tabs, events, begun, expired>>

(* startedAt is taken, and the new capture is on its way to the storage.   *)
NewCapture(h) ==
    /\ begun < MaxCaptures
    /\ begun' = begun + 1
    /\ handler' = [handler EXCEPT ![h].pc = "write", ![h].pend =
          [id |-> begun + 1, job |-> handler[h].job,
           source |-> handler[h].tab, target |-> None]]

(* getLivePendingCapture finds nothing.                                    *)
ReadNothing(h) ==
    /\ handler[h].pc \in {"read", "reread"}
    /\ session = None
    /\ IF handler[h].op = "begin"
       THEN NewCapture(h)
       ELSE Finish(h) /\ UNCHANGED begun
    /\ UNCHANGED <<session, captures, tabs, events, expired>>

(* getLivePendingCapture finds an expired capture and removes it next.     *)
ReadExpired(h) ==
    /\ handler[h].pc \in {"read", "reread"}
    /\ session # None /\ ~Live(session)
    /\ Goto(h, IF handler[h].pc = "read" THEN "drop" ELSE "redrop")
    /\ UNCHANGED <<session, captures, tabs, events, begun, expired>>

DropExpired(h) ==
    /\ handler[h].pc \in {"drop", "redrop"}
    /\ session' = None
    /\ IF handler[h].op = "begin"
       THEN NewCapture(h)
       ELSE Finish(h) /\ UNCHANGED begun
    /\ UNCHANGED <<captures, tabs, events, expired>>

(* A live capture: a new one is refused.                                   *)
BeginRefused(h) ==
    /\ handler[h].pc = "read" /\ handler[h].op = "begin"
    /\ Live(session)
    /\ Finish(h)
    /\ UNCHANGED <<session, captures, tabs, events, begun, expired>>

(* onCreated: a tab opened from the source tab becomes the target, unless  *)
(* there is one.                                                           *)
TabCreated(h) ==
    /\ handler[h].pc = "read" /\ handler[h].op = "created"
    /\ Live(session)
    /\ IF /\ tabs[handler[h].tab].opener = session.source
          /\ session.target \in {None, handler[h].tab}
       THEN handler' = [handler EXCEPT ![h].pc = "write", ![h].pend =
                [session EXCEPT !.target = handler[h].tab]]
       ELSE Finish(h)
    /\ UNCHANGED <<session, captures, tabs, events, begun, expired>>

(* onUpdated: only the source and the target tab matter.                   *)
TabUpdated(h) ==
    /\ handler[h].pc = "read" /\ handler[h].op = "updated"
    /\ Live(session)
    /\ IF handler[h].tab \in {session.source, session.target}
       THEN Goto(h, "reread") ELSE Finish(h)
    /\ UNCHANGED <<session, captures, tabs, events, begun, expired>>

(* Mutant: the event of the new tab is used as it was sent.                *)
WriteAndUseEvent(h) ==
    /\ handler[h].pc = "write"
    /\ session' = handler[h].pend
    /\ handler' = [handler EXCEPT ![h].pend = None, ![h].pc =
          IF handler[h].op = "begin" THEN "trigger" ELSE "reread"]
    /\ UNCHANGED <<captures, tabs, events, begun, expired>>

(* chrome.storage.session.set                                              *)
WritePending(h) ==
    /\ handler[h].pc = "write"
    /\ session' = handler[h].pend
    /\ handler' = [handler EXCEPT ![h].pend = None, ![h].pc =
          IF handler[h].op = "begin" THEN "trigger" ELSE "look"]
    /\ UNCHANGED <<captures, tabs, events, begun, expired>>

(* chrome.tabs.get of the new tab                                          *)
LookAtTab(h) ==
    /\ handler[h].pc = "look"
    /\ LET t == handler[h].tab
       IN handler' = [handler EXCEPT ![h].pc = "reread",
                                     ![h].page = Shown(tabs[t])]
    /\ UNCHANGED <<session, captures, tabs, events, begun, expired>>

(* prepareExternalApply of content.js selects the posting again.           *)
SelectForApply(h) ==
    /\ handler[h].pc = "trigger"
    /\ LET s == handler[h].tab  j == handler[h].job
       IN /\ tabs[s].page \in {Posting(k) : k \in Jobs \ {j}}
          /\ tabs' = [tabs EXCEPT ![s].page = Posting(j)]
    /\ UNCHANGED <<session, captures, events, handler, begun, expired>>

(* triggerExternalApply of content.js: the control is clicked only while   *)
(* the page shows the job.  It opens a tab ...                             *)
ClickOpensTab(h, t) ==
    /\ handler[h].pc = "trigger"
    /\ LET s == handler[h].tab  j == handler[h].job
       IN /\ tabs[s].page = Posting(j)
          /\ Opened(s, t, Site(j))
    /\ Finish(h)
    /\ UNCHANGED <<session, captures, begun, expired>>

(* ... or replaces the page, and may take the answer with it.              *)
ClickNavigates(h, answered) ==
    /\ handler[h].pc = "trigger"
    /\ LET s == handler[h].tab  j == handler[h].job
       IN /\ tabs[s].page = Posting(j)
          /\ tabs' = [tabs EXCEPT ![s].next = Site(j)]
    /\ IF answered THEN Finish(h) ELSE Goto(h, "undo")
    /\ UNCHANGED <<session, captures, events, begun, expired>>

(* The control, the page or the content script is not there.               *)
TriggerFails(h) ==
    /\ handler[h].pc = "trigger"
    /\ Goto(h, "undo")
    /\ UNCHANGED <<session, captures, tabs, events, begun, expired>>

(* clearPendingCapture after a failed trigger                              *)
UndoCapture(h) ==
    /\ handler[h].pc = "undo"
    /\ session' = None
    /\ Finish(h)
    /\ UNCHANGED <<captures, tabs, events, begun, expired>>

(* maybeFinalizeCapture reads the capture again and tests tab and address. *)
MaybeFinalize(h) ==
    /\ handler[h].pc = "reread"
    /\ Live(session)
    /\ IF /\ handler[h].tab \in {session.source, session.target}
          /\ IsExternal(handler[h].page)
       THEN handler' = [handler EXCEPT ![h].pc = "load",
                                       ![h].pend = session]
       ELSE Finish(h)
    /\ UNCHANGED <<session, captures, tabs, events, begun, expired>>

(* Mutant: nothing is cut off.                                             *)
KeepAll(n, seq) == seq

(* slice(0, MAX_CAPTURE_RECORDS)                                           *)
Keep(n, seq) == SubSeq(seq, 1, IF Len(seq) < n THEN Len(seq) ELSE n)

(* The records of the other jobs: the container has one record per job.    *)
OfOthers(job, seq) ==
    IF \A i \in DOMAIN seq : seq[i].job # job THEN seq
    ELSE LET i == CHOOSE i \in DOMAIN seq : seq[i].job = job
         IN SubSeq(seq, 1, i - 1) \o SubSeq(seq, i + 1, Len(seq))

NewRecord(h) ==
    [id |-> handler[h].pend.id, job |-> handler[h].pend.job,
     source |-> handler[h].pend.source, tab |-> handler[h].tab,
     page |-> handler[h].page]

(* The container as it will be stored                                      *)
Store(h, records) ==
    handler' = [handler EXCEPT ![h] =
        [IdleHandler EXCEPT !.pc = "store", !.op = handler[h].op,
                            !.records = records]]

(* persistCompletedCapture: chrome.storage.local.get; the new record       *)
(* replaces that of its job and comes first, the oldest are cut off.       *)
LoadCaptures(h) ==
    /\ handler[h].pc = "load"
    /\ Store(h, Keep(MaxRecords,
                     <<NewRecord(h)>> \o OfOthers(handler[h].pend.job, captures)))
    /\ UNCHANGED <<session, captures, tabs, events, begun, expired>>

(* Mutant: the pending capture is left to expire.                          *)
StoreAndLeave(h) ==
    /\ handler[h].pc = "store"
    /\ captures' = handler[h].records
    /\ Finish(h)
    /\ UNCHANGED <<session, tabs, events, begun, expired>>

(* chrome.storage.local.set                                                *)
StoreCaptures(h) ==
    /\ handler[h].pc = "store"
    /\ captures' = handler[h].records
    /\ handler' = [handler EXCEPT ![h] = [IdleHandler EXCEPT !.pc = "clear",
                                           !.op = handler[h].op]]
    /\ UNCHANGED <<session, tabs, events, begun, expired>>

(* clearPendingCapture, whatever is pending by now                         *)
ClearPending(h) ==
    /\ handler[h].pc = "clear"
    /\ session' = None
    /\ Finish(h)
    /\ UNCHANGED <<captures, tabs, events, begun, expired>>

-----------------------------------------------------------------------------
Browser ==
    \/ \E s \in SourceTabs, j \in Jobs : SelectPosting(s, j)
    \/ \E s \in SourceTabs \cup OtherTabs, t \in NewTabs : OpenOther(s, t)
    \/ \E t \in Tabs : LoadPage(t)
    \/ Expire

Listener(h) ==
    \/ \E s \in SourceTabs, j \in Jobs : BeginCapture(h, s, j)
    \/ GetCaptureStatus(h) \/ Deliver(h)
    \/ \E t \in Tabs : ReportTab(h, t)
    \/ ReadNothing(h) \/ ReadExpired(h) \/ DropExpired(h) \/ BeginRefused(h)
    \/ TabCreated(h) \/ TabUpdated(h) \/ WritePending(h) \/ LookAtTab(h)
    \/ SelectForApply(h)
    \/ \E t \in NewTabs : ClickOpensTab(h, t)
    \/ \E answered \in BOOLEAN : ClickNavigates(h, answered)
    \/ TriggerFails(h) \/ UndoCapture(h)
    \/ MaybeFinalize(h) \/ LoadCaptures(h) \/ StoreCaptures(h)
    \/ ClearPending(h)

Next == Browser \/ \E h \in Handlers : Listener(h)

Spec == Init /\ [][Next]_vars
-----------------------------------------------------------------------------
(* Properties *)

(* Nothing is on its way to a listener and none is at work; a capture may  *)
(* wait for the content script.                                            *)
Quiet ==
    /\ events = <<>>
    /\ \A h \in Handlers : handler[h].pc \in {"idle", "trigger"}

(* A stored record belongs to its capture: it was taken in the source tab  *)
(* of that capture or in a tab opened from there (docs/ARCHITECTURE.md;    *)
(* onCreated, onUpdated and the second reading in maybeFinalizeCapture),   *)
(* on a public site.                                                       *)
TakenNearItsSource ==
    \A i \in DOMAIN captures :
        LET r == captures[i]
        IN /\ r.tab = r.source \/ tabs[r.tab].opener = r.source
           /\ IsExternal(r.page)

(* A record from another tab than the source is from the tab that the      *)
(* Apply control opened, never from one the person opened through another  *)
(* link of the posting (docs/EXTENSION_ACCEPTANCE.md).                     *)
UnrelatedTabsAreRefused ==
    \A i \in DOMAIN captures :
        captures[i].tab # captures[i].source => captures[i].page = Site(captures[i].job)

(* The page of a new tab may be complete before or after the tab becomes   *)
(* the target.  Either the listener of the creation sees it when it looks  *)
(* at the tab again, or the listener of the update finds the target: when  *)
(* all listeners are done no live capture has an external target page.     *)
NothingMissed ==
    (Quiet /\ Live(session) /\ session.target # None)
        => LET t == tabs[session.target]
           IN ~IsExternal(Shown(t))

(* Once a capture is recorded it is over (persistCompletedCapture).  Only   *)
(* a listener of another new tab, which had read it before, may write it   *)
(* back (onCreated); what is left then waits for that other tab and never  *)
(* for the recorded one.                                                   *)
CapturedOnce ==
    (Quiet /\ session # None)
        => \A i \in DOMAIN captures :
              captures[i].id = session.id
                 => session.target \notin {None, captures[i].tab}
=============================================================================
