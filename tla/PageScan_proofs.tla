--------------------------- MODULE PageScan_proofs ---------------------------
(***************************************************************************)
(* Safety of the page scans, for any set of jobs and any bounds: a scan    *)
(* given up before its answer is never shown or stored, and a scan         *)
(* restores the selection.                                                 *)
(***************************************************************************)
EXTENDS PageScan, TLAPS

Handlers ==
    \/ Open \/ Close \/ ClickScan \/ CancelEarly \/ Cancel
    \/ Popup

(* The popup has at most the newest scan; an answer it has taken, and what *)
(* state.records holds, is of that scan or of one cancelled since.         *)
PopupInv ==
    /\ popup.given \cup popup.cut \subseteq 1..popup.next - 1
    /\ popup.given \cap popup.cut = {}
    /\ popup.scan # NoScan =>
          /\ popup.scan = popup.next - 1
          /\ popup.scan \notin popup.given \cup popup.cut
    /\ popup.records \in {NoScan, popup.next - 1} \cup popup.cut
    /\ popup.records \notin popup.given
    /\ \A i \in ScanIds : Taken(i) => popup.scan = i \/ i \in popup.cut
    /\ popup.scan # NoScan /\ ~Taken(popup.scan) =>
          popup.scan \notin {popup.shown, popup.records, saved}

(* What is selected, and which click is under way, at each place of a loop *)
(* that neither the person nor a slow page disturbed.                      *)
LoopInv ==
    scan # NoLoop /\ ~scan.user /\ ~scan.gaveUp =>
        /\ scan.pc \in {"next", "card", "detail", "restore"} => tab.clicked = NoJob
        /\ scan.pc = "wait" => tab.clicked = NoJob \/ tab.selected # scan.job
        /\ scan.pc \in {"restore", "restoring"} => scan.original # NoJob
        /\ scan.pc = "restoring" => SelectionToBe = scan.original

IInv == TypeOK /\ PopupInv /\ NothingLateIsShown /\ LoopInv

-----------------------------------------------------------------------------

LEMMA InitInv == Init => IInv
  <1> SUFFICES ASSUME Init PROVE IInv
    OBVIOUS
  <1>1. TypeOK
    <2>1. popup \in Popups /\ saved \in Ids
      BY ScanAssumption DEF Init, Popups, Ids, ScanIds, NoScan
    <2>2. scan \in Loops
      BY DEF Init, Loops, NoLoop, Ids
    <2>3. tab \in Tabs
      BY ScanAssumption DEF Init, Tabs
    <2> QED
      BY <2>1, <2>2, <2>3 DEF Init, TypeOK, CallStates, AnswerStates, AckStates
  <1> QED
    BY <1>1 DEF IInv, PopupInv, Taken, NothingLateIsShown, LoopInv, Init

(* How the popup ends a scan.                                              *)
LEMMA PopupEnds ==
  ASSUME NEW p \in Popups, NEW i \in Ids
  PROVE  Finished(i, p) \in Popups /\ GivenUp(i, p) \in Popups
<1>1. Finished(i, p) \in Popups
  BY DEF Finished, Popups, Ids
<1>2. CASE p.scan = i /\ i # NoScan
  <2> DEFINE f == Finished(i, p)
  <2>1. i \in ScanIds /\ f \in Popups
    BY <1>1, <1>2 DEF Ids
  <2>2. GivenUp(i, p) = [f EXCEPT !.given = IF Taken(i) THEN f.given ELSE f.given \cup {i},
                                  !.cut = IF Taken(i) THEN f.cut \cup {i} ELSE f.cut]
    BY <1>2 DEF GivenUp
  <2> HIDE DEF f
  <2>3. CASE Taken(i)
    <3>1. GivenUp(i, p) = [f EXCEPT !.given = f.given, !.cut = f.cut \cup {i}]
      BY <2>2, <2>3
    <3>2. f.given \in SUBSET ScanIds /\ f.cut \cup {i} \in SUBSET ScanIds
      BY <2>1 DEF Popups
    <3> QED
      BY <1>1, <2>1, <3>1, <3>2, Zenon DEF Popups
  <2>4. CASE ~Taken(i)
    <3>1. GivenUp(i, p) = [f EXCEPT !.given = f.given \cup {i}, !.cut = f.cut]
      BY <2>2, <2>4
    <3>2. f.given \cup {i} \in SUBSET ScanIds /\ f.cut \in SUBSET ScanIds
      BY <2>1 DEF Popups
    <3> QED
      BY <1>1, <2>1, <3>1, <3>2, Zenon DEF Popups
  <2> QED
    BY <2>3, <2>4
<1>3. CASE ~(p.scan = i /\ i # NoScan)
  BY <1>1, <1>3 DEF GivenUp
<1> QED
  BY <1>1, <1>2, <1>3

LEMMA ShowsTyped ==
  ASSUME NEW p \in Popups, NEW i \in Ids
  PROVE  Show(i, p) \in Popups
BY DEF Show, Popups

(* What a scan given up leaves of the popup.                               *)
LEMMA GivesUp ==
  ASSUME NEW p \in Popups, NEW i \in Ids
  PROVE  /\ GivenUp(i, p).scan \in {p.scan, NoScan}
         /\ p.scan = i => GivenUp(i, p).scan = NoScan
         /\ GivenUp(i, p).next = p.next
         /\ GivenUp(i, p).records = p.records
         /\ GivenUp(i, p).shown = p.shown
         /\ p.scan = i /\ i # NoScan /\ Taken(i) =>
               GivenUp(i, p).given = p.given /\ GivenUp(i, p).cut = p.cut \cup {i}
         /\ p.scan = i /\ i # NoScan /\ ~Taken(i) =>
               GivenUp(i, p).given = p.given \cup {i} /\ GivenUp(i, p).cut = p.cut
         /\ ~(p.scan = i /\ i # NoScan) => GivenUp(i, p) = p
<1>1. CASE p.scan = i /\ i # NoScan /\ Taken(i)
  BY <1>1 DEF GivenUp, Finished, Popups
<1>2. CASE p.scan = i /\ i # NoScan /\ ~Taken(i)
  BY <1>2 DEF GivenUp, Finished, Popups
<1>3. CASE ~(p.scan = i /\ i # NoScan)
  BY <1>3 DEF GivenUp, Popups
<1> QED
  BY <1>1, <1>2, <1>3

LEMMA HandlersKeepType == TypeOK /\ Handlers => TypeOK'
  <1> SUFFICES ASSUME TypeOK, Handlers PROVE TypeOK'
    OBVIOUS
  <1> USE DEF TypeOK, page
  <1>1. CASE Open
    BY <1>1, ShowsTyped DEF Open, Popups
  <1>2. CASE Close
    <2>1. Show(NoScan, GivenUp(popup.scan, popup)) \in Popups
      BY PopupEnds, ShowsTyped DEF Popups, Ids
    <2>2. popup' \in Popups
      BY <1>2, <2>1 DEF Close, Popups, Ids
    <2> QED
      BY <1>2, <2>2 DEF Close, CallStates, AckStates, AnswerStates
  <1>3. CASE ClickScan
    <2>1. popup.next \in ScanIds /\ popup.next + 1 \in 1..MaxScans + 1
      BY <1>3, ScanAssumption DEF ClickScan, ScanIds
    <2>2. Show(NoScan, popup) \in Popups
      BY ShowsTyped DEF Ids
    <2>3. popup' \in Popups
      <3>1. popup' = [Show(NoScan, popup) EXCEPT !.scan = popup.next, !.next = popup.next + 1]
        BY <1>3 DEF ClickScan, Show
      <3>2. popup.next \in Ids
        BY <2>1 DEF Ids
      <3> QED
        BY <2>1, <2>2, <3>1, <3>2 DEF Popups
    <2>4. saved' \in Ids
      BY <1>3 DEF ClickScan, Ids
    <2> QED
      BY <1>3, <2>3, <2>4 DEF ClickScan, CallStates
  <1>4. CASE Cancel
    <2>1. popup.scan \in ScanIds
      BY <1>4 DEF Cancel, Popups, Ids
    <2>2. popup' \in Popups
      BY <1>4 DEF Cancel, Popups
    <2>3. [type |-> "cancel", id |-> popup.scan] \in Messages
      BY <2>1 DEF Messages
    <2>4. inbox' \in Seq(Messages) /\ acks' \in [ScanIds -> AckStates]
      BY <1>4, <2>3, SMTT(60) DEF Cancel, AckStates
    <2> QED
      BY <1>4, <2>2, <2>4 DEF Cancel
  <1>5. CASE CancelEarly
    BY <1>5, PopupEnds DEF CancelEarly, Popups
  <1>6. ASSUME NEW i \in ScanIds, Cleared(i) PROVE TypeOK'
    BY <1>6 DEF Cleared, CallStates
  <1>7. ASSUME NEW i \in ScanIds, Prepare(i) PROVE TypeOK'
    <2>1. [type |-> "scan", id |-> i] \in Messages
      BY DEF Messages
    <2> QED
      BY <1>7, <2>1 DEF Prepare, CallStates
  <1>8. ASSUME NEW i \in ScanIds, PrepareFails(i) PROVE TypeOK'
    BY <1>8, PopupEnds DEF PrepareFails, Ids, CallStates
  <1>9. ASSUME NEW i \in ScanIds, CancelAnswered(i) PROVE TypeOK'
    BY <1>9, PopupEnds DEF CancelAnswered, Ids, AckStates
  <1>10. ASSUME NEW i \in ScanIds, Answered(i) PROVE TypeOK'
    <2>1. Carried(i) \in Ids
      BY DEF Carried, Ids
    <2>2. [popup EXCEPT !.records = Carried(i)] \in Popups
      BY <2>1 DEF Popups
    <2> QED
      BY <1>10, <2>2 DEF Answered, CallStates, AnswerStates
  <1>11. ASSUME NEW i \in ScanIds, AnswerFails(i) PROVE TypeOK'
    BY <1>11, PopupEnds DEF AnswerFails, Ids, CallStates, AnswerStates
  <1>12. ASSUME NEW i \in ScanIds, Hydrated(i) PROVE TypeOK'
    BY <1>12 DEF Hydrated, Popups, CallStates
  <1>13. ASSUME NEW i \in ScanIds, Rendered(i) PROVE TypeOK'
    <2>1. Carried(i) \in Ids /\ i \in Ids
      BY DEF Carried, Ids
    <2>2. Finished(i, Show(Carried(i), popup)) \in Popups
      BY <2>1, ShowsTyped, PopupEnds
    <2> QED
      BY <1>13, <2>2 DEF Rendered, CallStates, AnswerStates
  <1> QED
    BY <1>1, <1>2, <1>3, <1>4, <1>5, <1>6, <1>7, <1>8, <1>9, <1>10, <1>11, <1>12, <1>13
       DEF Handlers, Popup, Call

LEMMA GivesUpKeeps ==
  ASSUME IInv, NEW i \in Ids,
         popup' = GivenUp(i, popup), UNCHANGED <<saved, calls>>
  PROVE  PopupInv' /\ NothingLateIsShown'
<1>0. popup \in Popups /\ saved \in Ids /\ MaxScans \in Nat
  BY ScanAssumption DEF IInv, TypeOK
<1>1. \A k \in ScanIds : Taken(k)' <=> Taken(k)
  BY DEF Taken
<1>2. /\ popup'.next = popup.next /\ popup'.shown = popup.shown
      /\ popup'.records = popup.records /\ saved' = saved
  BY <1>0, GivesUp
<1> USE DEF IInv, PopupInv, NothingLateIsShown
<1>3. CASE popup.scan = i /\ i # NoScan /\ Taken(i)
  <2>1. /\ popup'.scan = NoScan /\ popup'.given = popup.given
        /\ popup'.cut = popup.cut \cup {i}
    BY <1>0, <1>3, GivesUp
  <2>2. i \in ScanIds /\ i = popup.next - 1 /\ i \notin popup.given
        /\ i \in 1..popup.next - 1
    BY <1>0, <1>3 DEF Ids, ScanIds, NoScan, Popups
  <2> QED
    BY <1>0, <1>1, <1>2, <2>1, <2>2
<1>4. CASE popup.scan = i /\ i # NoScan /\ ~Taken(i)
  <2>1. /\ popup'.scan = NoScan /\ popup'.given = popup.given \cup {i}
        /\ popup'.cut = popup.cut
    BY <1>0, <1>4, GivesUp
  <2>2. i \in ScanIds /\ i = popup.next - 1 /\ i \in 1..popup.next - 1
        /\ i \notin {popup.shown, popup.records, saved} \cup popup.cut
    BY <1>0, <1>4 DEF Ids, ScanIds, NoScan, Popups
  <2> QED
    BY <1>0, <1>1, <1>2, <1>4, <2>1, <2>2
<1>5. CASE ~(popup.scan = i /\ i # NoScan)
  BY <1>0, <1>5, GivesUp DEF Taken
<1> QED
  BY <1>3, <1>4, <1>5

LEMMA HandlersKeepPopup ==
  IInv /\ Handlers => PopupInv' /\ NothingLateIsShown'
  <1> SUFFICES ASSUME IInv, Handlers PROVE PopupInv' /\ NothingLateIsShown'
    OBVIOUS
  <1>0. /\ popup \in Popups /\ saved \in Ids /\ popup.scan \in Ids
        /\ calls \in [ScanIds -> CallStates]
        /\ MaxScans \in Nat
    BY ScanAssumption DEF IInv, TypeOK, Popups
  <1> USE <1>0 DEF IInv, PopupInv, NothingLateIsShown, Ids, ScanIds, NoScan, Taken
  <1>1. CASE Open
    BY <1>1 DEF Open, Show, Popups
  <1>2. CASE Close
    <2>1. /\ popup'.scan = NoScan /\ popup'.shown = NoScan /\ popup'.records = NoScan
          /\ popup'.next = popup.next /\ saved' = saved
          /\ popup'.given = GivenUp(popup.scan, popup).given
          /\ popup'.cut = GivenUp(popup.scan, popup).cut
          /\ \A i \in ScanIds : ~Taken(i)'
      BY <1>2, GivesUp, PopupEnds DEF Close, Show, Popups
    <2>2. CASE popup.scan = NoScan
      BY <2>1, <2>2, GivesUp DEF Popups
    <2>3. CASE popup.scan # NoScan /\ Taken(popup.scan)
      BY <2>1, <2>3, GivesUp DEF Popups
    <2>4. CASE popup.scan # NoScan /\ ~Taken(popup.scan)
      <3>1. popup'.given = popup.given \cup {popup.scan} /\ popup'.cut = popup.cut
        BY <2>1, <2>4, GivesUp
      <3>2. popup.scan = popup.next - 1 /\ popup.scan \in 1..popup.next - 1
            /\ saved # popup.scan /\ popup.scan \notin popup.cut
        BY <2>4 DEF Popups
      <3> QED
        BY <2>1, <3>1, <3>2
    <2> QED
      BY <2>2, <2>3, <2>4
  <1>3. CASE ClickScan
    <2>1. /\ popup'.scan = popup.next /\ popup'.next = popup.next + 1
          /\ popup'.shown = NoScan /\ popup'.records = NoScan /\ saved' = NoScan
          /\ popup'.given = popup.given /\ popup'.cut = popup.cut
          /\ popup.scan = NoScan /\ popup.next \in ScanIds
      BY <1>3 DEF ClickScan, Show, Popups
    <2>2. \A i \in ScanIds : Taken(i)' => Taken(i)
      BY <1>3 DEF ClickScan
    <2> QED
      BY <2>1, <2>2 DEF Popups
  <1>4. CASE Cancel
    BY <1>4 DEF Cancel, Popups
  <1>5. CASE CancelEarly
    <2>1. ~Taken(popup.scan) /\ popup' = GivenUp(popup.scan, popup)
          /\ UNCHANGED <<saved, calls>> /\ popup.scan # NoScan
      BY <1>5 DEF CancelEarly
    <2>2. \A i \in ScanIds : Taken(i)' <=> Taken(i)
      BY <2>1
    <2> QED
      BY <2>1, <2>2, GivesUpKeeps
  <1>6. ASSUME NEW i \in ScanIds,
               Cleared(i) \/ Prepare(i) \/ PrepareFails(i) \/ AnswerFails(i)
        PROVE  PopupInv' /\ NothingLateIsShown'
    <2>1. /\ \A k \in ScanIds : Taken(k)' <=> Taken(k)
          /\ ~Taken(i)
          /\ popup' \in {popup, Finished(i, popup)} /\ saved' = saved
      BY <1>6 DEF Cleared, Prepare, PrepareFails, AnswerFails
    <2>2. CASE popup' = popup
      BY <2>1, <2>2
    <2>3. CASE popup' = Finished(i, popup)
      BY <2>1, <2>3 DEF Finished, Popups
    <2> QED
      BY <2>1, <2>2, <2>3
  <1>7. ASSUME NEW i \in ScanIds, CancelAnswered(i)
        PROVE  PopupInv' /\ NothingLateIsShown'
    <2>1. popup' = GivenUp(i, popup) /\ UNCHANGED <<saved, calls>>
      BY <1>7 DEF CancelAnswered
    <2> QED
      BY <2>1, GivesUpKeeps
  <1>8. ASSUME NEW i \in ScanIds, Answered(i)
        PROVE  PopupInv' /\ NothingLateIsShown'
    <2>1. CASE popup.scan = i
      <3>1. /\ popup' = [popup EXCEPT !.records = Carried(i)] /\ saved' = saved
            /\ calls' = [calls EXCEPT ![i] = "hydrating"]
            /\ Carried(i) \in {i, NoScan}
        BY <1>8, <2>1 DEF Answered, Carried
      <3> QED
        BY <2>1, <3>1 DEF Popups
    <2>2. CASE popup.scan # i
      BY <1>8, <2>2 DEF Answered
    <2> QED
      BY <2>1, <2>2
  <1>9. ASSUME NEW i \in ScanIds, Hydrated(i)
        PROVE  PopupInv' /\ NothingLateIsShown'
    <2>1. /\ \A k \in ScanIds : Taken(k)' <=> Taken(k)
          /\ popup' = popup /\ saved' = popup.records
      BY <1>9 DEF Hydrated
    <2> QED
      BY <2>1
  <1>10. ASSUME NEW i \in ScanIds, Rendered(i)
         PROVE  PopupInv' /\ NothingLateIsShown'
    <2>1. /\ saved' = saved /\ Taken(i)
          /\ \A k \in ScanIds : Taken(k)' <=> Taken(k) /\ k # i
      BY <1>10 DEF Rendered
    <2>2. /\ popup'.next = popup.next
          /\ popup'.given = popup.given /\ popup'.cut = popup.cut
          /\ popup'.shown = Carried(i) /\ popup'.records = Carried(i)
          /\ popup'.scan = IF popup.scan = i THEN NoScan ELSE popup.scan
          /\ Carried(i) \in {i, NoScan}
      BY <1>10 DEF Rendered, Finished, Show, Popups, Carried
    <2> QED
      BY <2>1, <2>2 DEF Popups
  <1> QED
    BY <1>1, <1>2, <1>3, <1>4, <1>5, <1>6, <1>7, <1>8, <1>9, <1>10 DEF Handlers, Popup, Call

LEMMA HandlersKeepInv == IInv /\ Handlers => IInv'
  <1> SUFFICES ASSUME IInv, Handlers PROVE IInv'
    OBVIOUS
  <1>1. UNCHANGED <<scan, tab>>
    BY DEF Handlers, Popup, Call, page, Open, Close, ClickScan, CancelEarly, Cancel, Cleared,
           Prepare, PrepareFails, CancelAnswered, Answered, AnswerFails, Hydrated, Rendered
  <1>2. LoopInv'
    BY <1>1 DEF IInv, LoopInv, SelectionToBe
  <1> QED
    BY <1>2, HandlersKeepType, HandlersKeepPopup DEF IInv

-----------------------------------------------------------------------------
(* Steps in the tab leave the popup alone.                                 *)

TabSteps ==
    \/ (\E cards \in SUBSET Jobs : Deliver(cards))
    \/ Collect
    \/ Navigate \/ (\E j \in Jobs : SelectJob(j)) \/ Reload

(* What a message does to the loop.                                        *)
LEMMA DeliverToLoop ==
  ASSUME TypeOK, NEW cards \in SUBSET Jobs, Deliver(cards)
  PROVE  /\ UNCHANGED tab
         /\ \/ scan' = scan
            \/ scan # NoLoop /\ scan' = [scan EXCEPT !.cancelled = TRUE]
            \/ scan = NoLoop /\ scan' = Started(Head(inbox).id, cards)
<1>1. Head(inbox).type \in {"scan", "cancel"}
  <2>1. Head(inbox) \in Messages
    BY DEF Deliver, TypeOK
  <2> QED
    BY <2>1 DEF Messages
<1>2. CASE Head(inbox).type = "scan" /\ scan # NoLoop
  BY <1>2 DEF Deliver
<1>3. CASE Head(inbox).type = "scan" /\ scan = NoLoop
  BY <1>3 DEF Deliver
<1>4. CASE Head(inbox).type = "cancel"
  BY <1>4 DEF Deliver
<1> QED
  BY <1>1, <1>2, <1>3, <1>4

LEMMA DeliverKeepsType ==
  ASSUME TypeOK, NEW cards \in SUBSET Jobs, Deliver(cards)
  PROVE  TypeOK'
<1> DEFINE m == Head(inbox)
<1>1. /\ m \in Messages
      /\ inbox' \in Seq(Messages)
  BY DEF Deliver, TypeOK
<1>2. UNCHANGED <<popup, saved, calls, tab>>
  BY DEF Deliver, client
<1> USE DEF TypeOK
<1>3. Started(m.id, cards) \in Loops
  <2>1. m.id \in Ids /\ tab.selected \in Jobs \cup {NoJob}
    BY <1>1 DEF Messages, Ids, Tabs
  <2> HIDE DEF m, TypeOK
  <2> QED BY <2>1, ZenonT(60) DEF Started, NoLoop, Loops, Ids
<1>4. CASE m.type = "scan" /\ scan # NoLoop
  <2>1. answers' = Reply(m.id, "nothing") /\ UNCHANGED <<acks, scan>>
    BY <1>1, <1>4 DEF Deliver, Messages
  <2> QED
    BY <1>1, <1>2, <2>1 DEF Reply, AnswerStates
<1>5. CASE m.type = "scan" /\ scan = NoLoop
  <2>1. scan' = Started(m.id, cards) /\ UNCHANGED <<answers, acks>>
    BY <1>1, <1>5 DEF Deliver, Messages
  <2> QED
    BY <1>1, <1>2, <1>3, <2>1
<1>6. CASE m.type = "cancel"
  <2>1. /\ acks' \in [ScanIds -> AckStates]
        /\ UNCHANGED answers
    BY <1>1, <1>6 DEF Deliver, Messages, AckStates
  <2>2. scan' = IF scan = NoLoop THEN scan ELSE [scan EXCEPT !.cancelled = TRUE]
    BY <1>1, <1>6 DEF Deliver, Messages
  <2>3. scan' \in Loops
    BY <2>2 DEF Loops
  <2> QED
    BY <1>1, <1>2, <2>1, <2>3
<1> QED
  BY <1>1, <1>4, <1>5, <1>6 DEF Messages

LEMMA CollectKeepsType == TypeOK /\ Collect => TypeOK'
  <1> SUFFICES ASSUME TypeOK, Collect PROVE TypeOK'
    OBVIOUS
  <1> USE DEF TypeOK, client, Loop, Loops
  <1>1. ASSUME NEW j \in Jobs, TakeCard(j) PROVE TypeOK'
    BY <1>1 DEF TakeCard
  <1>2. CASE CardIncomplete
    BY <1>2 DEF CardIncomplete
  <1>3. CASE ClickCard
    BY <1>3 DEF ClickCard, Tabs
  <1>4. CASE SelectionSeen
    BY <1>4 DEF SelectionSeen
  <1>5. CASE SelectionGivenUp
    BY <1>5 DEF SelectionGivenUp
  <1>6. CASE DetailSettled
    BY <1>6 DEF DetailSettled
  <1>7. CASE Restore
    BY <1>7 DEF Restore
  <1>8. CASE RestoreClick
    BY <1>8 DEF RestoreClick, Tabs
  <1>9. CASE EndLoop
    BY <1>9 DEF EndLoop, Reply, NoLoop, AnswerStates, Ids
  <1> QED
    BY <1>1, <1>2, <1>3, <1>4, <1>5, <1>6, <1>7, <1>8, <1>9 DEF Collect

LEMMA TabStepsKeepType == TypeOK /\ TabSteps => TypeOK'
  <1> SUFFICES ASSUME TypeOK, TabSteps PROVE TypeOK'
    OBVIOUS
  <1> USE DEF TypeOK, client
  <1>1. CASE Navigate
    BY <1>1 DEF Navigate, Tabs
  <1>2. ASSUME NEW j \in Jobs, SelectJob(j) PROVE TypeOK'
    BY <1>2 DEF SelectJob, Tabs, Loops
  <1>3. CASE Reload
    <2>1. tab' \in Tabs
      BY <1>3 DEF Reload, Tabs
    <2>2. NoLoop \in Loops /\ <<>> \in Seq(Messages)
      BY DEF NoLoop, Loops, Ids
    <2> QED
      BY <1>3, <2>1, <2>2 DEF Reload, AnswerStates, AckStates
  <1> QED
    BY <1>1, <1>2, <1>3, DeliverKeepsType, CollectKeepsType DEF TabSteps

(* An undisturbed loop knows where every click of its own went.            *)
LEMMA TabStepsKeepLoop == TypeOK /\ LoopInv /\ TabSteps => LoopInv'
  <1> SUFFICES ASSUME TypeOK, LoopInv, TabSteps PROVE LoopInv'
    OBVIOUS
  <1> USE ScanAssumption DEF TypeOK, Loops, Tabs, LoopInv, SelectionToBe, client, Loop
  <1>1. ASSUME NEW cards \in SUBSET Jobs, Deliver(cards) PROVE LoopInv'
    <2>1. CASE scan' = scan
      BY <1>1, <2>1, DeliverToLoop
    <2>2. CASE scan # NoLoop /\ scan' = [scan EXCEPT !.cancelled = TRUE]
      BY <1>1, <2>2, DeliverToLoop
    <2>3. CASE scan' = Started(Head(inbox).id, cards)
      BY <1>1, <2>3, DeliverToLoop DEF Started, NoLoop
    <2> QED
      BY <1>1, <2>1, <2>2, <2>3, DeliverToLoop
  <1>2. ASSUME NEW j \in Jobs, TakeCard(j) PROVE LoopInv'
    BY <1>2 DEF TakeCard, NoLoop
  <1>3. CASE CardIncomplete
    BY <1>3 DEF CardIncomplete, NoLoop
  <1>4. CASE ClickCard
    BY <1>4 DEF ClickCard, NoLoop
  <1>5. CASE SelectionSeen
    BY <1>5 DEF SelectionSeen, NoLoop
  <1>6. CASE SelectionGivenUp
    BY <1>6 DEF SelectionGivenUp
  <1>7. CASE DetailSettled
    BY <1>7 DEF DetailSettled, NoLoop
  <1>8. CASE Restore
    BY <1>8 DEF Restore, CardsDone, ToRestore, NoLoop
  <1>9. CASE RestoreClick
    BY <1>9 DEF RestoreClick, NoLoop
  <1>10. CASE EndLoop
    BY <1>10 DEF EndLoop
  <1>11. CASE Navigate
    BY <1>11 DEF Navigate
  <1>12. ASSUME NEW j \in Jobs, SelectJob(j) PROVE LoopInv'
    BY <1>12 DEF SelectJob
  <1>13. CASE Reload
    BY <1>13 DEF Reload
  <1> QED
    BY <1>1, <1>2, <1>3, <1>4, <1>5, <1>6, <1>7, <1>8, <1>9, <1>10, <1>11, <1>12, <1>13
       DEF TabSteps, Collect

LEMMA TabStepsKeepInv == IInv /\ TabSteps => IInv'
  <1> SUFFICES ASSUME IInv, TabSteps PROVE IInv'
    OBVIOUS
  <1>1. UNCHANGED <<popup, saved, calls>>
    BY DEF TabSteps, Collect, client, Loop, Deliver, TakeCard, CardIncomplete,
           ClickCard, SelectionSeen, SelectionGivenUp, DetailSettled, Restore,
           RestoreClick, EndLoop, Navigate, SelectJob, Reload
  <1>2. PopupInv' /\ NothingLateIsShown'
    BY <1>1 DEF IInv, PopupInv, Taken, NothingLateIsShown
  <1> QED
    BY <1>2, TabStepsKeepType, TabStepsKeepLoop DEF IInv

-----------------------------------------------------------------------------

LEMMA NextKeepsInv == IInv /\ [Next]_vars => IInv'
  <1> SUFFICES ASSUME IInv, [Next]_vars PROVE IInv'
    OBVIOUS
  <1>1. CASE UNCHANGED vars
    BY <1>1 DEF vars, IInv, TypeOK, PopupInv, Taken, NothingLateIsShown, LoopInv, SelectionToBe
  <1>2. CASE Next
    BY <1>2, HandlersKeepInv, TabStepsKeepInv DEF Next, Handlers, TabSteps
  <1> QED
    BY <1>1, <1>2

(* The inductive invariant holds in every reachable state.                 *)
THEOREM Invariance == Spec => []IInv
  BY InitInv, NextKeepsInv, PTL DEF Spec

(* Every reachable state has its type.                                     *)
THEOREM TypeCorrect == Spec => []TypeOK
  <1>1. IInv => TypeOK
    BY DEF IInv
  <1> QED
    BY <1>1, Invariance, PTL

(* The popup never shows or stores the answer of a scan it gave up or was  *)
(* closed on before that answer came, and of older scans only one that was *)
(* cancelled while its answer was being stored.                            *)
THEOREM NothingLate == Spec => []NothingLateIsShown
  <1>1. IInv => NothingLateIsShown
    BY DEF IInv
  <1> QED
    BY <1>1, Invariance, PTL

(* A step that ends an undisturbed loop finds the selection restored.      *)
LEMMA EndRestores ==
  ASSUME IInv, EndLoop, scan.original \in scan.cards, ~scan.user, ~scan.gaveUp
  PROVE  SelectionToBe' = scan.original
<1>1. scan.original \in Jobs /\ UNCHANGED tab /\ scan # NoLoop
  BY DEF EndLoop, CardsDone, NoLoop, IInv, TypeOK, Loops
<1>2. CASE scan.pc = "restoring"
  BY <1>1, <1>2 DEF IInv, LoopInv, SelectionToBe
<1>3. CASE CardsDone /\ ~ToRestore
  <2>1. tab.selected = scan.original /\ tab.clicked = NoJob
    BY <1>1, <1>3, ScanAssumption DEF CardsDone, ToRestore, IInv, LoopInv
  <2> QED
    BY <1>1, <2>1 DEF SelectionToBe
<1> QED
  BY <1>2, <1>3 DEF EndLoop

(* The selection is restored after every scan that neither the person nor  *)
(* a slow page disturbed, cancelled or not.                                *)
THEOREM SelectionIsRestored == Spec => SelectionRestored
  <1>1. IInv /\ [Next]_vars =>
          [ EndLoop
              /\ scan.original \in scan.cards /\ ~scan.user /\ ~scan.gaveUp
            => SelectionToBe' = scan.original ]_vars
    BY EndRestores
  <1> QED
    BY <1>1, Invariance, PTL DEF Spec, SelectionRestored
=============================================================================
