------------------------------ MODULE PageScan ------------------------------
(***************************************************************************)
(* Scans of a LinkedIn jobs page.  The popup of the extension asks the     *)
(* content script of the tab to click through the cards of the page; the   *)
(* content script answers once at the end and restores the selection.  The *)
(* popup can cancel, gives a scan up when its cancellation is answered and *)
(* may be closed; the content script goes on for a while in each case.     *)
(* Chrome and LinkedIn are external: messages to a tab stay in order, a    *)
(* click on a card takes effect later, and a newer click replaces it.      *)
(***************************************************************************)
EXTENDS Naturals, Sequences

CONSTANTS Jobs,       \* the jobs with a card on the page
          NoJob,
          MaxScans    \* bound on the scans started

ASSUME ScanAssumption == NoJob \notin Jobs /\ MaxScans \in Nat

ScanIds == 1..MaxScans
NoScan  == 0
Ids     == ScanIds \cup {NoScan}

VARIABLES
    popup,   \* state.pageScan, and the scans whose records it shows and holds in
             \* state.records; given and cut are history: the scans it ended
             \* before it took their answer, and while it stored it
    saved,   \* the scan whose records are in the stored snapshot
    calls,   \* how far each call of scanLoadedPage is
    inbox,   \* messages on their way to the tab
    answers, \* what each page scan message was answered
    acks,    \* what each cancel message was answered
    scan,    \* activePageScan and the loop of collectPage; user and gaveUp are
             \* history: a click of the person, a wait that LinkedIn outlasted
    tab      \* the selected job, a click without effect yet

vars == <<popup, saved, calls, inbox, answers, acks, scan, tab>>

Messages == [type : {"scan", "cancel"}, id : ScanIds]
NoLoop   == [pc |-> "none", asker |-> NoScan, cards |-> {}, todo |-> {}, job |-> NoJob,
             original |-> NoJob, found |-> FALSE, cancelled |-> FALSE,
             gaveUp |-> FALSE, user |-> FALSE]

Popups == [open : BOOLEAN, scan : Ids, cancelling : BOOLEAN, next : 1..MaxScans + 1,
           shown : Ids, records : Ids, given : SUBSET ScanIds, cut : SUBSET ScanIds]
Loops  == [pc : {"none", "next", "card", "wait", "detail", "restore", "restoring"},
           asker : Ids, cards : SUBSET Jobs, todo : SUBSET Jobs,
           job : Jobs \cup {NoJob}, original : Jobs \cup {NoJob}, found : BOOLEAN,
           cancelled : BOOLEAN, gaveUp : BOOLEAN, user : BOOLEAN]
Tabs   == [selected : Jobs \cup {NoJob}, clicked : Jobs \cup {NoJob}]
CallStates   == {"none", "clearing", "preparing", "asked", "hydrating", "saving"}
AnswerStates == {"none", "records", "nothing", "failed"}
AckStates    == {"none", "cancelled", "idle", "failed"}

TypeOK ==
    /\ popup \in Popups
    /\ saved \in Ids
    /\ calls \in [ScanIds -> CallStates]
    /\ inbox \in Seq(Messages)
    /\ answers \in [ScanIds -> AnswerStates]
    /\ acks \in [ScanIds -> AckStates]
    /\ scan \in Loops
    /\ tab \in Tabs

Init ==
    /\ popup = [open |-> FALSE, scan |-> NoScan, cancelling |-> FALSE, next |-> 1,
                shown |-> NoScan, records |-> NoScan, given |-> {}, cut |-> {}]
    /\ saved = NoScan
    /\ calls = [i \in ScanIds |-> "none"]
    /\ inbox = <<>>
    /\ answers = [i \in ScanIds |-> "none"]
    /\ acks = [i \in ScanIds |-> "none"]
    /\ scan = NoLoop
    /\ tab \in [selected : Jobs \cup {NoJob}, clicked : {NoJob}]

-----------------------------------------------------------------------------
(* The popup.  A storage call takes effect when it is made; what follows   *)
(* its await is a step of its own.                                         *)

page == <<scan, tab>>

Show(i, p) == [p EXCEPT !.shown = i, !.records = i]

\* loadSettings shows the stored snapshot.
Open ==
    /\ ~popup.open
    /\ popup' = [Show(saved, popup) EXCEPT !.open = TRUE]
    /\ UNCHANGED <<saved, calls, inbox, answers, acks, page>>

\* finishPageScan
Finished(i, p) ==
    IF p.scan = i THEN [p EXCEPT !.scan = NoScan, !.cancelling = FALSE] ELSE p

Taken(i) == calls[i] \in {"hydrating", "saving"}

\* The popup ends a scan without an answer, or in the middle of storing it.
GivenUp(i, p) ==
    IF p.scan = i /\ i # NoScan
    THEN [Finished(i, p) EXCEPT !.given = IF Taken(i) THEN @ ELSE @ \cup {i},
                                !.cut = IF Taken(i) THEN @ \cup {i} ELSE @]
    ELSE p

Close ==
    /\ popup.open
    /\ popup' = [Show(NoScan, GivenUp(popup.scan, popup)) EXCEPT !.open = FALSE]
    /\ calls' = [i \in ScanIds |-> "none"]
    /\ acks' = [i \in ScanIds |-> "none"]
    /\ answers' = [i \in ScanIds |-> "none"]
    /\ UNCHANGED <<saved, inbox, page>>

ClickScan ==
    /\ popup.open /\ popup.scan = NoScan /\ popup.next \in ScanIds
    /\ popup' = [Show(NoScan, popup) EXCEPT !.scan = popup.next, !.next = @ + 1]
    /\ saved' = NoScan
    /\ calls' = [calls EXCEPT ![popup.next] = "clearing"]
    /\ UNCHANGED <<inbox, answers, acks, page>>

\* The snapshot and the stale run are gone and the tab is known.
Cleared(i) ==
    /\ calls[i] = "clearing"
    /\ calls' = [calls EXCEPT ![i] = IF popup.scan = i THEN "preparing" ELSE "none"]
    /\ UNCHANGED <<popup, saved, inbox, answers, acks, page>>

\* ensureContentScript.  Whether the scan is still wanted is not asked again
\* before its message is sent.
Prepare(i) ==
    /\ calls[i] = "preparing"
    /\ calls' = [calls EXCEPT ![i] = "asked"]
    /\ inbox' = Append(inbox, [type |-> "scan", id |-> i])
    /\ UNCHANGED <<popup, saved, answers, acks, page>>

\* Also: the tab does not show LinkedIn jobs.
PrepareFails(i) ==
    /\ calls[i] \in {"clearing", "preparing"}
    /\ calls' = [calls EXCEPT ![i] = "none"]
    /\ popup' = Finished(i, popup)
    /\ UNCHANGED <<saved, inbox, answers, acks, page>>

\* cancelPageScan by a click before the tab is known
CancelEarly ==
    /\ popup.scan # NoScan /\ calls[popup.scan] = "clearing"
    /\ popup' = GivenUp(popup.scan, popup)
    /\ UNCHANGED <<saved, calls, inbox, answers, acks, page>>

\* cancelPageScan, by a click or by the watchdog.  Nobody listens in the tab
\* while the content script is not installed.
Cancel ==
    /\ popup.scan # NoScan /\ ~popup.cancelling /\ calls[popup.scan] # "clearing"
    /\ popup' = [popup EXCEPT !.cancelling = TRUE]
    /\ \/ /\ inbox' = Append(inbox, [type |-> "cancel", id |-> popup.scan])
          /\ UNCHANGED acks
       \/ /\ calls[popup.scan] = "preparing"
          /\ acks' = [acks EXCEPT ![popup.scan] = "failed"]
          /\ UNCHANGED inbox
    /\ UNCHANGED <<saved, calls, answers, page>>

(* Mutant: only a cancellation that reached a running scan ends it.        *)
CancelAnsweredIfReached(i) ==
    /\ acks[i] # "none"
    /\ acks' = [acks EXCEPT ![i] = "none"]
    /\ popup' = IF acks[i] = "cancelled" THEN GivenUp(i, popup) ELSE popup
    /\ UNCHANGED <<saved, calls, inbox, answers, page>>

\* Whatever the answer, the scan is over for the popup.
CancelAnswered(i) ==
    /\ acks[i] # "none"
    /\ acks' = [acks EXCEPT ![i] = "none"]
    /\ popup' = GivenUp(i, popup)
    /\ UNCHANGED <<saved, calls, inbox, answers, page>>

\* The scan whose records an answer carries; a busy or empty one has none.
Carried(i) == IF answers[i] = "records" THEN i ELSE NoScan

(* Mutant: the answer of a scan that was given up is taken all the same.   *)
AnsweredLate(i) ==
    /\ calls[i] = "asked" /\ answers[i] \in {"records", "nothing"}
    /\ calls' = [calls EXCEPT ![i] = "hydrating"]
    /\ popup' = [popup EXCEPT !.records = Carried(i)]
    /\ UNCHANGED <<saved, inbox, answers, acks, page>>

\* The only check between the answer and its display is made here.
Answered(i) ==
    /\ calls[i] = "asked" /\ answers[i] \in {"records", "nothing"}
    /\ IF popup.scan = i
       THEN calls' = [calls EXCEPT ![i] = "hydrating"]
            /\ popup' = [popup EXCEPT !.records = Carried(i)] /\ UNCHANGED answers
       ELSE calls' = [calls EXCEPT ![i] = "none"]
            /\ answers' = [answers EXCEPT ![i] = "none"] /\ UNCHANGED popup
    /\ UNCHANGED <<saved, inbox, acks, page>>

AnswerFails(i) ==
    /\ calls[i] = "asked" /\ answers[i] = "failed"
    /\ calls' = [calls EXCEPT ![i] = "none"] /\ answers' = [answers EXCEPT ![i] = "none"]
    /\ popup' = Finished(i, popup)
    /\ UNCHANGED <<saved, inbox, acks, page>>

\* saveScanSnapshot stores what state.records holds by now.
Hydrated(i) ==
    /\ calls[i] = "hydrating"
    /\ calls' = [calls EXCEPT ![i] = "saving"]
    /\ saved' = popup.records
    /\ UNCHANGED <<popup, inbox, answers, acks, page>>

\* renderPageScan
Rendered(i) ==
    /\ calls[i] = "saving"
    /\ calls' = [calls EXCEPT ![i] = "none"] /\ answers' = [answers EXCEPT ![i] = "none"]
    /\ popup' = Finished(i, Show(Carried(i), popup))
    /\ UNCHANGED <<saved, inbox, acks, page>>

-----------------------------------------------------------------------------
(* The content script.                                                     *)

client == <<popup, saved, calls>>

\* A popup that was closed hears no answer.
Reply(i, answer) == IF calls[i] = "asked" THEN [answers EXCEPT ![i] = answer] ELSE answers

\* The loop starts with the cards that show a job.
Started(id, cards) ==
    [NoLoop EXCEPT !.pc = "next", !.asker = id, !.original = tab.selected,
                   !.user = tab.clicked # NoJob,
                   !.cards = cards, !.todo = cards]

\* A second page scan is answered busy.  The popup has no use for the answer
\* to the cancellation of a scan that is over.
Deliver(cards) ==
    /\ inbox # <<>>
    /\ inbox' = Tail(inbox)
    /\ LET m == Head(inbox)
       IN  CASE m.type = "scan" /\ scan # NoLoop ->
                  /\ answers' = Reply(m.id, "nothing")
                  /\ UNCHANGED <<acks, scan>>
             [] m.type = "scan" /\ scan = NoLoop ->
                  /\ scan' = Started(m.id, cards)
                  /\ UNCHANGED <<answers, acks>>
             [] m.type = "cancel" ->
                  /\ acks' = IF popup.scan # m.id THEN acks
                             ELSE [acks EXCEPT ![m.id] =
                                      IF scan # NoLoop /\ ~scan.cancelled THEN "cancelled" ELSE "idle"]
                  /\ scan' = IF scan = NoLoop THEN scan ELSE [scan EXCEPT !.cancelled = TRUE]
                  /\ UNCHANGED answers
    /\ UNCHANGED <<client, tab>>

Loop(change) ==
    /\ scan' = change
    /\ UNCHANGED <<client, inbox, answers, acks>>

\* settleCardMetadata, which a cancellation makes end early
TakeCard(j) ==
    /\ scan.pc = "next" /\ ~scan.cancelled
    /\ j \in scan.todo
    /\ Loop([scan EXCEPT !.pc = "card", !.job = j, !.todo = @ \ {j}])
    /\ UNCHANGED tab

CardIncomplete ==
    /\ scan.pc = "card"
    /\ Loop([scan EXCEPT !.pc = "next"])
    /\ UNCHANGED tab

ClickCard ==
    /\ scan.pc = "card"
    /\ IF tab.selected = scan.job
       THEN Loop([scan EXCEPT !.pc = "detail"]) /\ UNCHANGED tab
       ELSE Loop([scan EXCEPT !.pc = "wait"]) /\ tab' = [tab EXCEPT !.clicked = scan.job]

\* waitForSelectedJob
SelectionSeen ==
    /\ scan.pc = "wait" /\ tab.selected = scan.job
    /\ Loop([scan EXCEPT !.pc = "detail"])
    /\ UNCHANGED tab

SelectionGivenUp ==
    /\ scan.pc = "wait" /\ tab.selected # scan.job
    /\ Loop([scan EXCEPT !.pc = "next", !.gaveUp = TRUE])
    /\ UNCHANGED tab

\* settleDetailFor and the new record
DetailSettled ==
    /\ scan.pc = "detail"
    /\ Loop([scan EXCEPT !.pc = "next", !.found = TRUE])
    /\ UNCHANGED tab

CardsDone == scan.pc = "next" /\ (scan.cancelled \/ scan.todo = {})

ToRestore ==
    /\ scan.original # NoJob /\ scan.original # tab.selected
    /\ scan.original \in scan.cards

(* Mutant: a cancelled scan returns at once.                               *)
RestoreUnlessCancelled ==
    /\ CardsDone /\ ToRestore
    /\ Loop([scan EXCEPT !.pc = IF scan.cancelled THEN "restoring" ELSE "restore"])
    /\ UNCHANGED tab

Restore ==
    /\ CardsDone /\ ToRestore
    /\ Loop([scan EXCEPT !.pc = "restore"])
    /\ UNCHANGED tab

RestoreClick ==
    /\ scan.pc = "restore"
    /\ Loop([scan EXCEPT !.pc = "restoring"])
    /\ tab' = [tab EXCEPT !.clicked = scan.original]

\* The wait for the original selection, if any, is over either way.
EndLoop ==
    /\ scan.pc = "restoring" \/ (CardsDone /\ ~ToRestore)
    /\ scan' = NoLoop
    /\ answers' = Reply(scan.asker, IF scan.found THEN "records" ELSE "nothing")
    /\ UNCHANGED <<client, inbox, acks, tab>>

-----------------------------------------------------------------------------
(* LinkedIn and the person in front of it.                                 *)

Navigate ==
    /\ tab.clicked # NoJob
    /\ tab' = [tab EXCEPT !.selected = tab.clicked, !.clicked = NoJob]
    /\ UNCHANGED <<client, inbox, answers, acks, scan>>

SelectJob(j) ==
    /\ tab' = [tab EXCEPT !.clicked = j]
    /\ scan' = IF scan = NoLoop THEN scan ELSE [scan EXCEPT !.user = TRUE]
    /\ UNCHANGED <<client, inbox, answers, acks>>

\* A new document: what the old content script had not answered fails.
Reload ==
    /\ tab' = [tab EXCEPT !.clicked = NoJob]
    /\ scan' = NoLoop
    /\ inbox' = <<>>
    /\ answers' = [i \in ScanIds |->
                      IF calls[i] = "asked" /\ answers[i] = "none" THEN "failed" ELSE answers[i]]
    /\ acks' = [i \in ScanIds |->
                   IF \E k \in 1..Len(inbox) : inbox[k] = [type |-> "cancel", id |-> i]
                           /\ popup.scan = i
                   THEN "failed" ELSE acks[i]]
    /\ UNCHANGED client

-----------------------------------------------------------------------------

Call(i) ==
    \/ Cleared(i) \/ Prepare(i) \/ PrepareFails(i)
    \/ Answered(i) \/ AnswerFails(i) \/ Hydrated(i) \/ Rendered(i)

Popup == \E i \in ScanIds : Call(i) \/ CancelAnswered(i)

Collect ==
    \/ \E j \in Jobs : TakeCard(j)
    \/ CardIncomplete \/ ClickCard \/ SelectionSeen \/ SelectionGivenUp \/ DetailSettled
    \/ Restore \/ RestoreClick \/ EndLoop

Next ==
    \/ Open \/ Close \/ ClickScan \/ CancelEarly \/ Cancel
    \/ Popup
    \/ (\E cards \in SUBSET Jobs : Deliver(cards))
    \/ Collect
    \/ Navigate \/ (\E j \in Jobs : SelectJob(j)) \/ Reload

Spec == Init /\ [][Next]_vars

(* Promises and messages are served and the watchdog fires.  Of the loop in *)
(* the page nothing is assumed: a hidden tab may hold its timers back.     *)
Fairness ==
    /\ \A i \in ScanIds : WF_vars(Call(i)) /\ WF_vars(CancelAnswered(i))
    /\ WF_vars(\E cards \in SUBSET Jobs : Deliver(cards))
    /\ WF_vars(Cancel)

FairSpec == Spec /\ Fairness

-----------------------------------------------------------------------------

(* A scan that the popup gave up or was closed on before it took the       *)
(* answer is never shown or stored: the person was told it was cancelled.  *)
(* What is on display or in the stored snapshot is of the newest scan, or  *)
(* of one cancelled between its answer and its display (scanLoadedPage     *)
(* asks pageScanIsActive when the answer comes and not again).             *)
NothingLateIsShown ==
    /\ {popup.shown, saved} \cap popup.given = {}
    /\ {popup.shown, saved} \subseteq {NoScan, popup.next - 1} \cup popup.cut

\* The selection once the last click has taken effect
SelectionToBe == IF tab.clicked = NoJob THEN tab.selected ELSE tab.clicked

(* A scan that comes to its end, cancelled or not, leaves the selection as *)
(* it found it (docs/adr/0002).  It cannot when the person clicked a card  *)
(* meanwhile or just before, when the job has no card, or when LinkedIn    *)
(* was slower than a wait for a selection.                                 *)
SelectionRestored ==
    [][ EndLoop
          /\ scan.original \in scan.cards /\ ~scan.user /\ ~scan.gaveUp
        => SelectionToBe' = scan.original ]_vars

(* Every scan ends for the popup, which then enables its buttons again,    *)
(* whatever became of the loop in the page.                                *)
ScanEnds == popup.scan # NoScan ~> popup.scan = NoScan
=============================================================================
