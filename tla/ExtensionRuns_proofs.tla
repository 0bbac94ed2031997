------------------------ MODULE ExtensionRuns_proofs ------------------------
(***************************************************************************)
(* Safety of the verification runs, for any pool, any sizes of submissions *)
(* and any bounds: runs do not overlap, no control of the popup stays      *)
(* disabled for ever, and an unfinished run in sight is kept.              *)
(***************************************************************************)
EXTENDS ExtensionRuns, TLAPS

(* Where the run id is, by what the popup waits for.                       *)
PageInv ==
    /\ page.open => page.runId = storage.runId
    /\ ~page.open => page.op = "none" /\ ~page.inFlight
    /\ post.state # "none" <=> page.op = "run"
    /\ page.op = "run" => page.inFlight /\ page.runId = NoRun
    /\ page.op = "poll" => page.runId # NoRun
    /\ page.inFlight /\ page.op # "run" => page.runId # NoRun
    /\ post.state = "accepted" => post.run \in RunIds

(* The executor's one thread.                                              *)
ThreadInv ==
    /\ \A r \in RunIds : runs[r].working > 0 => runs[r].status = "running"
    /\ \A r, q \in RunIds :
          runs[r].status = "running" /\ runs[q].status = "running" => r = q

IInv == TypeOK /\ PageInv /\ ThreadInv /\ UnfinishedRunIsKept

LEMMA InitInv == Init => IInv
  <1> SUFFICES ASSUME Init PROVE IInv
    OBVIOUS
  <1>1. page \in Page /\ storage \in Storages /\ post \in Posts
    BY RunsAssumption DEF Init, Page, Closed, Ops, Storages, Posts, NoPost
  <1>2. bridge \in Bridges /\ runs \in [RunIds -> Run]
    BY RunsAssumption DEF Init, Bridges, Run, Unused, Statuses
  <1>3. TypeOK
    BY <1>1, <1>2 DEF Init, TypeOK
  <1>4. PageInv
    BY DEF Init, PageInv, Closed, NoPost
  <1> QED
    BY <1>3, <1>4 DEF Init, IInv, ThreadInv, UnfinishedRunIsKept, Unfinished, Unused

-----------------------------------------------------------------------------
(* The helpers                                                             *)

(* A poll that starts changes no more than what the page waits for.        *)
LEMMA PolledPage ==
  ASSUME NEW p \in Page
  PROVE  /\ Polling(p) \in Page
         /\ Polling(p).open = p.open /\ Polling(p).runId = p.runId
         /\ Polling(p).inFlight = p.inFlight
         /\ p.runId = NoRun \/ p.op # "none" => Polling(p).op = p.op
         /\ p.runId # NoRun /\ p.op = "none" => Polling(p).op = "poll"
  BY DEF Polling, Page, Ops

LEMMA ClearedPage ==
  ASSUME NEW p \in Page
  PROVE  /\ Cleared(p) \in Page
         /\ Cleared(p).open = p.open /\ Cleared(p).op = p.op
         /\ Cleared(p).runId = NoRun /\ Cleared(p).inFlight = FALSE
<1>1. 0 \in 0..MaxRetries
  BY RunsAssumption
<1> QED
  BY <1>1 DEF Cleared, Page

(* Losing sight of a run, or finding it again, changes nothing else.       *)
LEMMA LostRuns ==
  ASSUME TypeOK, NEW r \in RunIds \cup {NoRun}, NEW b \in BOOLEAN
  PROVE  /\ Lost(r, b) \in [RunIds -> Run]
         /\ \A q \in RunIds : /\ Lost(r, b)[q].status = runs[q].status
                              /\ Lost(r, b)[q].working = runs[q].working
                              /\ q # r => Lost(r, b)[q].lost = runs[q].lost
         /\ r \in RunIds /\ Unfinished(r) => Lost(r, b)[r].lost = b
<1>1. runs \in [RunIds -> Run] /\ NoRun \notin RunIds
  BY RunsAssumption DEF TypeOK, RunIds
<1>2. CASE r # NoRun /\ Unfinished(r)
  <2>1. r \in RunIds /\ Lost(r, b) = [runs EXCEPT ![r].lost = b]
    BY <1>2 DEF Lost
  <2>2. [runs[r] EXCEPT !.lost = b] \in Run
    BY <1>1, <2>1 DEF Run
  <2>3. /\ [runs[r] EXCEPT !.lost = b].status = runs[r].status
        /\ [runs[r] EXCEPT !.lost = b].working = runs[r].working
        /\ [runs[r] EXCEPT !.lost = b].lost = b
    BY <1>1, <2>1 DEF Run
  <2> QED
    BY <1>1, <2>1, <2>2, <2>3
<1>3. CASE ~(r # NoRun /\ Unfinished(r))
  BY <1>1, <1>3 DEF Lost
<1> QED
  BY <1>2, <1>3

-----------------------------------------------------------------------------
(* The popup                                                               *)

PageSteps ==
    \/ Person
    \/ Requests
    \/ TimerFires

LEMMA PageStepsKeepType == TypeOK /\ PageSteps => TypeOK'
  <1> SUFFICES ASSUME TypeOK, PageSteps PROVE TypeOK'
    OBVIOUS
  <1> USE DEF TypeOK
  <1>0. /\ 0 \in 0..MaxRetries
        /\ {"none", "run", "poll", "save", "scan"} \subseteq Ops
    BY RunsAssumption DEF Ops
  <1>1. ASSUME NEW b \in BOOLEAN, Open(b) PROVE TypeOK'
    <2>1. page' \in Page
      BY <1>1, <1>0 DEF Open, Page, Closed, Storages
    <2> QED
      BY <1>1, <2>1 DEF Open
  <1>2. ASSUME NEW b \in BOOLEAN, StartupDone(b) PROVE TypeOK'
    <2>0. [page EXCEPT !.starting = FALSE] \in Page
      BY DEF Page
    <2>1. page' \in Page
      BY <1>2, <2>0, PolledPage DEF StartupDone
    <2> QED
      BY <1>2, <2>1 DEF StartupDone
  <1>3. CASE Close
    <2>1. page' \in Page
      BY <1>3, <1>0 DEF Close, Page, Closed
    <2>2. post.run \in RunIds \cup {NoRun}
      BY DEF Posts
    <2>3. post' \in Posts /\ strays' \in Nat
      BY <1>3, RunsAssumption DEF Close, AbandonPost, NoPost, Posts
    <2>4. runs' \in [RunIds -> Run]
      BY <1>3, <2>2, LostRuns DEF Close, AbandonPost
    <2> QED
      BY <1>3, <2>1, <2>3, <2>4 DEF Close
  <1>4. ASSUME NEW n \in Sizes, ClickVerify(n) PROVE TypeOK'
    <2>0. Cleared(page) \in Page
      BY ClearedPage
    <2>1. page' \in Page
      BY <1>4, <1>0, <2>0 DEF ClickVerify, Page
    <2>3. post' \in Posts
      BY <1>4 DEF ClickVerify, Posts
    <2>4. storage' \in Storages
      BY <1>4 DEF ClickVerify, Forgotten, Storages
    <2> QED
      BY <1>4, <2>1, <2>3, <2>4 DEF ClickVerify
  <1>5. CASE PostReply
    <2>0. post.run \in RunIds \cup {NoRun}
      BY DEF Posts
    <2>5. [page EXCEPT !.op = "none", !.runId = post.run] \in Page
      BY <1>0, <2>0 DEF Page
    <2>1. page' \in Page
      BY <1>5, <2>5, PolledPage DEF PostReply
    <2>3. post' \in Posts /\ storage' \in Storages
      BY <1>5, <2>0 DEF PostReply, NoPost, Posts, Storages
    <2> QED
      BY <1>5, <2>1, <2>3 DEF PostReply
  <1>6. CASE PostFails
    <2>1. page' \in Page
      BY <1>6, <1>0 DEF PostFails, Page
    <2>2. post.run \in RunIds \cup {NoRun}
      BY DEF Posts
    <2>3. post' \in Posts /\ strays' \in Nat
      BY <1>6, RunsAssumption DEF PostFails, AbandonPost, NoPost, Posts
    <2>4. runs' \in [RunIds -> Run]
      BY <1>6, <2>2, LostRuns DEF PostFails, AbandonPost
    <2> QED
      BY <1>6, <2>1, <2>3, <2>4 DEF PostFails
  <1>7. CASE PollGone
    <2>0. Cleared(page) \in Page
      BY ClearedPage
    <2>1. page' \in Page
      BY <1>7, <1>0, <2>0 DEF PollGone, Page
    <2>2. page.runId \in RunIds \cup {NoRun}
      BY DEF Page
    <2>4. storage' \in Storages
      BY <1>7 DEF PollGone, Forgotten, Storages
    <2> QED
      BY <1>7, <2>1, <2>2, LostRuns, <2>4 DEF PollGone
  <1>8. CASE PollFinished
    <2>1. page' \in Page
      BY <1>8, <1>0 DEF PollFinished, Page
    <2> QED
      BY <1>8, <2>1 DEF PollFinished
  <1>9. CASE PollUnfinished
    <2>1. page' \in Page
      BY <1>9, <1>0 DEF PollUnfinished, Page
    <2>2. page.runId \in RunIds \cup {NoRun}
      BY DEF Page
    <2> QED
      BY <1>9, <2>1, <2>2, LostRuns DEF PollUnfinished
  <1>10. CASE PollRetries
    <2>0. page.retries + 1 \in 0..MaxRetries
      BY <1>10, RunsAssumption DEF PollRetries, Page
    <2>1. page' \in Page
      BY <1>10, <1>0, <2>0 DEF PollRetries, Page
    <2> QED
      BY <1>10, <2>1 DEF PollRetries
  <1>11. CASE PollGivesUp
    <2>1. page' \in Page
      BY <1>11, <1>0 DEF PollGivesUp, Page
    <2>2. page.runId \in RunIds \cup {NoRun}
      BY DEF Page
    <2> QED
      BY <1>11, <2>1, <2>2, LostRuns DEF PollGivesUp
  <1>12. CASE TimerFires
    <2>0. [page EXCEPT !.timer = FALSE] \in Page
      BY DEF Page
    <2>1. page' \in Page
      BY <1>12, <2>0, PolledPage DEF TimerFires
    <2> QED
      BY <1>12, <2>1 DEF TimerFires
  <1>13. CASE Refresh
    <2>1. page' \in Page
      BY <1>13, PolledPage DEF Refresh
    <2> QED
      BY <1>13, <2>1 DEF Refresh
  <1>14. CASE EditConnection
    <2>1. page' \in Page
      BY <1>14, <1>0 DEF EditConnection, Page
    <2> QED
      BY <1>14, <2>1 DEF EditConnection
  <1>15. CASE ClickSave
    <2>0. Cleared(page) \in Page
      BY ClearedPage
    <2>1. page' \in Page
      BY <1>15, <1>0, <2>0 DEF ClickSave, Page
    <2>2. page.runId \in RunIds \cup {NoRun}
      BY DEF Page
    <2>4. storage' \in Storages
      <3>1. page.here \in BOOLEAN
        BY DEF Page
      <3>2. CASE page.runId # NoRun /\ page.here # storage.here
        BY <1>15, <3>1, <3>2 DEF ClickSave, Storages
      <3>3. CASE ~(page.runId # NoRun /\ page.here # storage.here)
        BY <1>15, <3>1, <3>3 DEF ClickSave, Storages
      <3> QED
        BY <3>2, <3>3
    <2>5. runs' \in [RunIds -> Run]
      BY <1>15, <2>2, LostRuns DEF ClickSave
    <2> QED
      BY <1>15, <2>1, <2>4, <2>5 DEF ClickSave
  <1>16. CASE ClickScan
    <2>0. Cleared(page) \in Page
      BY ClearedPage
    <2>1. page' \in Page
      BY <1>16, <1>0, <2>0 DEF ClickScan, Page
    <2>4. storage' \in Storages
      BY <1>16 DEF ClickScan, Forgotten, Storages
    <2> QED
      BY <1>16, <2>1, <2>4 DEF ClickScan
  <1>17. ASSUME NEW b \in BOOLEAN, ScanEnds(b) PROVE TypeOK'
    <2>1. page' \in Page
      BY <1>17, <1>0 DEF ScanEnds, Page
    <2> QED
      BY <1>17, <2>1 DEF ScanEnds
  <1>18. CASE SaveEnds
    <2>1. page' \in Page
      BY <1>18, <1>0 DEF SaveEnds, Page
    <2> QED
      BY <1>18, <2>1 DEF SaveEnds
  <1> QED
    BY <1>1, <1>2, <1>3, <1>4, <1>5, <1>6, <1>7, <1>8, <1>9, <1>10,
       <1>11, <1>12, <1>13, <1>14, <1>15, <1>16, <1>17, <1>18
       DEF PageSteps, Person, Requests

LEMMA PageStepsKeepPage == TypeOK /\ PageInv /\ PageSteps => PageInv'
  <1> SUFFICES ASSUME TypeOK, PageInv, PageSteps PROVE PageInv'
    OBVIOUS
  <1> USE DEF TypeOK, PageInv
  <1>0. "none" \in Ops /\ NoRun \notin RunIds
    BY RunsAssumption DEF Ops, RunIds
  <1>1. ASSUME NEW b \in BOOLEAN, Open(b) PROVE PageInv'
    BY <1>1 DEF Open, Closed, Page, Storages, Posts
  <1>2. ASSUME NEW b \in BOOLEAN, StartupDone(b) PROVE PageInv'
    <2> DEFINE p == [page EXCEPT !.starting = FALSE]
    <2>1. p \in Page
      BY <1>0 DEF Page, Posts
    <2>2. /\ p.open = page.open /\ p.inFlight = page.inFlight
          /\ p.op = page.op /\ p.runId = page.runId
      BY DEF Page
    <2>3. page' \in {p, Polling(p)}
      BY <1>2 DEF StartupDone
    <2> HIDE DEF p
    <2>4. /\ page'.open = page.open /\ page'.inFlight = page.inFlight
          /\ page'.runId = page.runId
          /\ \/ page'.op = page.op
             \/ page.runId # NoRun /\ page.op = "none" /\ page'.op = "poll"
      BY <2>1, <2>2, <2>3, PolledPage DEF Page
    <2>5. page.open /\ UNCHANGED <<storage, post>>
      BY <1>2 DEF StartupDone
    <2> QED
      BY <2>4, <2>5 DEF Page, Storages, Posts
  <1>3. CASE Close
    BY <1>3 DEF Close, AbandonPost, Closed, NoPost, Page, Storages, Posts
  <1>4. ASSUME NEW n \in Sizes, ClickVerify(n) PROVE PageInv'
    <2>1. /\ Cleared(page) \in Page
          /\ Cleared(page).open = page.open /\ Cleared(page).op = page.op
          /\ Cleared(page).runId = NoRun /\ Cleared(page).inFlight = FALSE
      BY ClearedPage
    <2> QED
      BY <1>4, <2>1 DEF ClickVerify, Idle, Forgotten, Page, Storages, Posts
  <1>5. CASE PostReply
    <2> DEFINE p == [page EXCEPT !.op = "none", !.runId = post.run]
    <2>1. p \in Page
      BY <1>0 DEF Page, Posts
    <2>2. /\ p.open = page.open /\ p.inFlight = page.inFlight
          /\ p.op = "none" /\ p.runId = post.run
      BY DEF Page
    <2>3. page' = Polling(p)
      BY <1>5 DEF PostReply
    <2> HIDE DEF p
    <2>4. post.run \in RunIds /\ page.op = "run" /\ post'.state = "none" /\ storage'.runId = post.run
      BY <1>5 DEF PostReply, NoPost, Storages
    <2> QED
      BY <1>0, <1>5, <2>1, <2>2, <2>3, <2>4, PolledPage DEF PostReply, Page
  <1>6. CASE PostFails
    BY <1>6 DEF PostFails, AbandonPost, NoPost, Page, Storages, Posts
  <1>7. CASE PollGone
    <2>1. /\ Cleared(page) \in Page
          /\ Cleared(page).open = page.open /\ Cleared(page).op = page.op
          /\ Cleared(page).runId = NoRun /\ Cleared(page).inFlight = FALSE
      BY ClearedPage
    <2> QED
      BY <1>7, <2>1 DEF PollGone, Forgotten, Page, Storages, Posts
  <1>8. CASE PollFinished
    BY <1>8 DEF PollFinished, Page, Storages, Posts
  <1>9. CASE PollUnfinished
    BY <1>9 DEF PollUnfinished, Page, Storages, Posts
  <1>10. CASE PollRetries
    BY <1>10 DEF PollRetries, Page, Storages, Posts
  <1>11. CASE PollGivesUp
    BY <1>11 DEF PollGivesUp, Page, Storages, Posts
  <1>12. CASE TimerFires
    <2> DEFINE p == [page EXCEPT !.timer = FALSE]
    <2>1. p \in Page
      BY <1>0 DEF Page, Posts
    <2>2. /\ p.open = page.open /\ p.inFlight = page.inFlight
          /\ p.op = page.op /\ p.runId = page.runId
      BY DEF Page
    <2>3. page' = Polling(p)
      BY <1>12 DEF TimerFires
    <2> HIDE DEF p
    <2>4. /\ page'.open = page.open /\ page'.inFlight = page.inFlight
          /\ page'.runId = page.runId
          /\ \/ page'.op = page.op
             \/ page.runId # NoRun /\ page.op = "none" /\ page'.op = "poll"
      BY <2>1, <2>2, <2>3, PolledPage DEF Page
    <2>5. page.open /\ UNCHANGED <<storage, post>>
      BY <1>12 DEF TimerFires
    <2> QED
      BY <2>4, <2>5 DEF Page, Storages, Posts
  <1>13. CASE Refresh
    BY <1>13, PolledPage DEF Refresh, Idle, Page, Storages, Posts
  <1>14. CASE EditConnection
    BY <1>14 DEF EditConnection, Page, Storages, Posts
  <1>15. CASE ClickSave
    <2>1. /\ Cleared(page) \in Page
          /\ Cleared(page).open = page.open /\ Cleared(page).op = page.op
          /\ Cleared(page).runId = NoRun /\ Cleared(page).inFlight = FALSE
      BY ClearedPage
    <2> QED
      <3>1. CASE page.runId # NoRun /\ page.here # storage.here
        <4>1. /\ page'.open = page.open /\ page'.inFlight = FALSE
              /\ page'.runId = NoRun /\ page'.op = "save"
          BY <1>15, <2>1, <3>1 DEF ClickSave, Page
        <4>2. page.open /\ page.op = "none" /\ storage'.runId = NoRun /\ UNCHANGED post
          BY <1>15, <3>1 DEF ClickSave, Idle
        <4> QED
          BY <4>1, <4>2 DEF Page, Posts
      <3>2. CASE ~(page.runId # NoRun /\ page.here # storage.here)
        BY <1>15, <3>2 DEF ClickSave, Idle, Page, Storages, Posts
      <3> QED
        BY <3>1, <3>2
  <1>16. CASE ClickScan
    <2>1. /\ Cleared(page) \in Page
          /\ Cleared(page).open = page.open /\ Cleared(page).op = page.op
          /\ Cleared(page).runId = NoRun /\ Cleared(page).inFlight = FALSE
      BY ClearedPage
    <2> QED
      BY <1>16, <2>1 DEF ClickScan, Idle, Forgotten, Page, Storages, Posts
  <1>17. ASSUME NEW b \in BOOLEAN, ScanEnds(b) PROVE PageInv'
    BY <1>17 DEF ScanEnds, Page, Storages, Posts
  <1>18. CASE SaveEnds
    BY <1>18 DEF SaveEnds, Page, Storages, Posts
  <1> QED
    BY <1>1, <1>2, <1>3, <1>4, <1>5, <1>6, <1>7, <1>8, <1>9, <1>10,
       <1>11, <1>12, <1>13, <1>14, <1>15, <1>16, <1>17, <1>18
       DEF PageSteps, Person, Requests

(* Whatever the popup does, the runs stay where they are in the bridge.    *)
LEMMA PageStepsAndRuns ==
  ASSUME TypeOK, PageSteps
  PROVE  \A q \in RunIds : runs'[q].status = runs[q].status /\ runs'[q].working = runs[q].working
<1>1. \/ runs' = runs
      \/ runs' = Lost(post.run, TRUE)
      \/ \E b \in BOOLEAN : runs' = Lost(page.runId, b)
  BY DEF PageSteps, Person, Requests, Open, StartupDone, Close, AbandonPost, ClickVerify,
         PostReply, PostFails, PollGone, PollFinished, PollUnfinished, PollRetries,
         PollGivesUp, TimerFires, Refresh, EditConnection, ClickSave, ClickScan, ScanEnds,
         SaveEnds
<1>2. page.runId \in RunIds \cup {NoRun} /\ post.run \in RunIds \cup {NoRun}
  BY DEF TypeOK, Page, Posts
<1>3. ASSUME NEW r \in RunIds \cup {NoRun}, NEW b \in BOOLEAN, runs' = Lost(r, b)
      PROVE  \A q \in RunIds : runs'[q].status = runs[q].status
                               /\ runs'[q].working = runs[q].working
  <2>1. \A q \in RunIds : /\ Lost(r, b)[q].status = runs[q].status
                          /\ Lost(r, b)[q].working = runs[q].working
    BY LostRuns
  <2> QED BY <1>3, <2>1
<1> QED
  BY <1>1, <1>2, <1>3

(* Where the popup keeps run r.                                            *)
Kept(r) ==
    \/ post.state = "accepted" /\ post.run = r
    \/ /\ storage.runId = r
       /\ page.open => page.runId = r /\ page.inFlight

(* A page that waits for no answer to a POST has the run itself.           *)
LEMMA KeptByPage ==
  ASSUME TypeOK, PageInv, NEW r \in RunIds, Kept(r), page.op # "run"
  PROVE  storage.runId = r /\ (page.open => page.runId = r /\ page.inFlight)
  BY DEF Kept, PageInv

LEMMA PageStepsKeepRun == IInv /\ PageSteps => UnfinishedRunIsKept'
  <1> SUFFICES ASSUME IInv, PageSteps, NEW r \in RunIds, Unfinished(r)', ~runs'[r].lost
               PROVE  Kept(r)'
    BY DEF UnfinishedRunIsKept, Kept
  <1>1. TypeOK /\ PageInv /\ (Unfinished(r) /\ ~runs[r].lost => Kept(r))
    BY DEF IInv, UnfinishedRunIsKept, Kept
  <1>2. Unfinished(r) /\ r # NoRun
    BY <1>1, PageStepsAndRuns, RunsAssumption DEF Unfinished, RunIds
  <1>3. runs' = runs => Kept(r)
    BY <1>1, <1>2
  <1>4. ASSUME NEW q \in RunIds \cup {NoRun}, runs' = Lost(q, TRUE) PROVE r # q /\ Kept(r)
    BY <1>1, <1>2, <1>4, LostRuns
  <1>5. page.runId \in RunIds \cup {NoRun} /\ post.run \in RunIds \cup {NoRun}
    BY <1>1 DEF TypeOK, Page, Posts
  <1>6. page.op # "none" => page.open
    BY <1>1 DEF PageInv
  <1>7. ASSUME NEW b \in BOOLEAN, Open(b) PROVE Kept(r)'
    <2>1. page.op # "run" /\ Kept(r)
      BY <1>1, <1>3, <1>7 DEF Open, PageInv
    <2>2. storage.runId = r
      BY <1>1, <2>1, KeptByPage
    <2>3. page'.runId = r /\ page'.inFlight /\ storage' = storage
      BY <1>2, <1>7, <2>2 DEF Open, Closed
    <2> QED
      BY <2>2, <2>3 DEF Kept
  <1>8. CASE Close
    <2>1. r # post.run /\ Kept(r)
      BY <1>4, <1>5, <1>8 DEF Close, AbandonPost
    <2> QED
      BY <1>8, <2>1 DEF Close, Closed, Kept
  <1>9. ASSUME NEW n \in Sizes, ClickVerify(n) PROVE Kept(r)'
    <2>1. page.op # "run" /\ page.open /\ ~page.inFlight /\ Kept(r)
      BY <1>3, <1>9 DEF ClickVerify, Idle
    <2> QED
      BY <1>1, <2>1, KeptByPage
  <1>10. CASE PostReply
    <2>1. page.open /\ page.op = "run" /\ page.runId = NoRun /\ page.inFlight /\ Kept(r)
      BY <1>1, <1>3, <1>6, <1>10 DEF PostReply, PageInv
    <2>2. post.run = r
      BY <1>2, <2>1 DEF Kept
    <2> DEFINE p == [page EXCEPT !.op = "none", !.runId = post.run]
    <2>3. p \in Page /\ p.runId = r /\ p.inFlight
      BY <1>1, <2>1, <2>2 DEF TypeOK, Page, Posts, Ops
    <2>4. page' = Polling(p) /\ storage'.runId = r
      BY <1>1, <1>10, <2>2 DEF PostReply, TypeOK, Storages
    <2> HIDE DEF p
    <2> QED
      BY <2>3, <2>4, PolledPage DEF Kept, Page
  <1>11. CASE PostFails
    <2>1. r # post.run /\ Kept(r)
      BY <1>4, <1>5, <1>11 DEF PostFails, AbandonPost
    <2>2. page.open /\ page.runId = NoRun
      BY <1>1, <1>6, <1>11 DEF PostFails, PageInv
    <2> QED
      BY <1>2, <2>1, <2>2 DEF Kept
  <1>12. CASE PollGone
    <2>1. r # page.runId /\ Kept(r) /\ page.op = "poll"
      BY <1>4, <1>5, <1>12 DEF PollGone
    <2> QED
      BY <1>1, <1>6, <2>1, KeptByPage
  <1>13. CASE PollFinished
    <2>1. Kept(r) /\ page.op = "poll" /\ ~Unfinished(page.runId)
      BY <1>3, <1>13 DEF PollFinished, Unfinished
    <2> QED
      BY <1>1, <1>2, <1>6, <2>1, KeptByPage
  <1>14. CASE PollUnfinished
    <2>1. page.op = "poll" /\ page.open /\ page.runId = storage.runId
      BY <1>1, <1>6, <1>14 DEF PollUnfinished, PageInv
    <2>2. r = page.runId
      <3>1. ASSUME r # page.runId PROVE Kept(r)
        BY <1>1, <1>2, <1>5, <1>14, <3>1, LostRuns DEF PollUnfinished
      <3> QED
        BY <1>1, <2>1, <3>1, KeptByPage
    <2>3. page'.runId = page.runId /\ page'.inFlight /\ storage' = storage
      BY <1>1, <1>14 DEF PollUnfinished, TypeOK, Page
    <2> QED
      BY <2>1, <2>2, <2>3 DEF Kept
  <1>15. CASE PollGivesUp
    <2>1. r # page.runId /\ Kept(r) /\ page.op = "poll"
      BY <1>4, <1>5, <1>15 DEF PollGivesUp
    <2> QED
      BY <1>1, <1>6, <2>1, KeptByPage
  <1>16. CASE ClickSave
    <2>1. page.open /\ page.op = "none"
      BY <1>16 DEF ClickSave, Idle
    <2>2. CASE page.runId # NoRun /\ page.here # storage.here
      <3>1. r # page.runId /\ Kept(r)
        BY <1>4, <1>5, <1>16, <2>2 DEF ClickSave
      <3> QED
        BY <1>1, <2>1, <3>1, KeptByPage
    <2>3. CASE ~(page.runId # NoRun /\ page.here # storage.here)
      <3>1. Kept(r) /\ post' = post /\ storage' = [storage EXCEPT !.here = page.here]
        BY <1>3, <1>16, <2>3 DEF ClickSave
      <3>2. page' = [page EXCEPT !.op = "save"]
        BY <1>16, <2>3 DEF ClickSave
      <3>3. storage'.runId = storage.runId /\ page'.runId = page.runId
            /\ page'.inFlight = page.inFlight
        BY <1>1, <3>1, <3>2 DEF TypeOK, Page, Storages
      <3>4. storage.runId = r /\ page.runId = r /\ page.inFlight
        BY <1>1, <2>1, <3>1, KeptByPage
      <3> QED
        BY <3>3, <3>4 DEF Kept
    <2> QED
      BY <2>2, <2>3
  <1>17. CASE ClickScan
    <2>1. page.op # "run" /\ page.open /\ ~page.inFlight /\ Kept(r)
      BY <1>3, <1>17 DEF ClickScan, Idle
    <2> QED
      BY <1>1, <2>1, KeptByPage
  <1>18. ASSUME NEW b \in BOOLEAN, StartupDone(b) PROVE Kept(r)'
    <2> DEFINE p == [page EXCEPT !.starting = FALSE]
    <2>1. p \in Page /\ p.runId = page.runId /\ p.inFlight = page.inFlight
      BY <1>1 DEF TypeOK, Page
    <2>2. page' \in {p, Polling(p)}
      BY <1>18 DEF StartupDone
    <2> HIDE DEF p
    <2>3. page'.runId = page.runId /\ page'.inFlight = page.inFlight
      BY <2>1, <2>2, PolledPage
    <2>4. page.open /\ Kept(r) /\ UNCHANGED <<storage, post>>
      BY <1>3, <1>6, <1>18 DEF StartupDone
    <2> QED
      BY <2>3, <2>4 DEF Kept
  <1>19. CASE PollRetries
    <2>3. page'.runId = page.runId /\ page'.inFlight = page.inFlight
      BY <1>1, <1>19 DEF PollRetries, TypeOK, Page
    <2>4. page.open /\ Kept(r) /\ UNCHANGED <<storage, post>>
      BY <1>3, <1>6, <1>19 DEF PollRetries
    <2> QED
      BY <2>3, <2>4 DEF Kept
  <1>20. CASE TimerFires
    <2> DEFINE p == [page EXCEPT !.timer = FALSE]
    <2>1. p \in Page /\ p.runId = page.runId /\ p.inFlight = page.inFlight
      BY <1>1 DEF TypeOK, Page
    <2>2. page' \in {p, Polling(p)}
      BY <1>20 DEF TimerFires
    <2> HIDE DEF p
    <2>3. page'.runId = page.runId /\ page'.inFlight = page.inFlight
      BY <2>1, <2>2, PolledPage
    <2>4. page.open /\ Kept(r) /\ UNCHANGED <<storage, post>>
      BY <1>3, <1>6, <1>20 DEF TimerFires
    <2> QED
      BY <2>3, <2>4 DEF Kept
  <1>21. CASE Refresh
    <2>3. page'.runId = page.runId /\ page'.inFlight = page.inFlight
      BY <1>1, <1>21, PolledPage DEF Refresh, TypeOK
    <2>4. page.open /\ Kept(r) /\ UNCHANGED <<storage, post>>
      BY <1>3, <1>6, <1>21 DEF Refresh, Idle
    <2> QED
      BY <2>3, <2>4 DEF Kept
  <1>22. CASE EditConnection
    <2>3. page'.runId = page.runId /\ page'.inFlight = page.inFlight
      BY <1>1, <1>22 DEF EditConnection, TypeOK, Page
    <2>4. page.open /\ Kept(r) /\ UNCHANGED <<storage, post>>
      BY <1>3, <1>6, <1>22 DEF EditConnection
    <2> QED
      BY <2>3, <2>4 DEF Kept
  <1>23. ASSUME NEW b \in BOOLEAN, ScanEnds(b) PROVE Kept(r)'
    <2>3. page'.runId = page.runId /\ page'.inFlight = page.inFlight
      BY <1>1, <1>23 DEF ScanEnds, TypeOK, Page
    <2>4. page.open /\ Kept(r) /\ UNCHANGED <<storage, post>>
      BY <1>3, <1>6, <1>23 DEF ScanEnds
    <2> QED
      BY <2>3, <2>4 DEF Kept
  <1>24. CASE SaveEnds
    <2>3. page'.runId = page.runId /\ page'.inFlight = page.inFlight
      BY <1>1, <1>24 DEF SaveEnds, TypeOK, Page
    <2>4. page.open /\ Kept(r) /\ UNCHANGED <<storage, post>>
      BY <1>3, <1>6, <1>24 DEF SaveEnds
    <2> QED
      BY <2>3, <2>4 DEF Kept
  <1> QED
    BY <1>7, <1>8, <1>9, <1>10, <1>11, <1>12, <1>13, <1>14, <1>15, <1>16,
       <1>17, <1>18, <1>19, <1>20, <1>21, <1>22, <1>23, <1>24
       DEF PageSteps, Person, Requests

-----------------------------------------------------------------------------
(* The bridge                                                              *)

(* The executor leaves page, storage and post alone and changes one run,   *)
(* whose status may only go on.                                            *)
LEMMA ExecutionStep ==
  ASSUME TypeOK, NEW r \in RunIds, Execution(r)
  PROVE  /\ UNCHANGED <<page, storage, post, strays, bridge>>
         /\ runs'[r] \in Run /\ runs' = [runs EXCEPT ![r] = runs'[r]]
         /\ Unfinished(r)' => Unfinished(r) /\ runs'[r].lost = runs[r].lost
  <1> USE RunsAssumption DEF TypeOK
  <1>1. runs[r] \in Run
    OBVIOUS
  <1>2. CASE BeginRun(r)
    BY <1>1, <1>2 DEF BeginRun, ChangeRun, Run, Statuses, Unfinished
  <1>3. CASE StartCompany(r)
    <2>1. runs[r].waiting - 1 \in Nat
      BY <1>1, <1>3 DEF StartCompany, Run
    <2>2. runs[r].working + 1 \in 0..Workers
      BY <1>1, <1>3 DEF StartCompany, Run
    <2> QED
      BY <1>1, <1>3, <2>1, <2>2 DEF StartCompany, ChangeRun, Run, Unfinished
  <1>4. ASSUME NEW raises \in BOOLEAN, CompanyEnds(r, raises)
        PROVE  /\ UNCHANGED <<page, storage, post, strays, bridge>>
               /\ runs'[r] \in Run /\ runs' = [runs EXCEPT ![r] = runs'[r]]
               /\ Unfinished(r)' => Unfinished(r) /\ runs'[r].lost = runs[r].lost
    <2>1. runs[r].working - 1 \in 0..Workers
      BY <1>1, <1>4 DEF CompanyEnds, Run
    <2> QED
      BY <1>1, <1>4, <2>1 DEF CompanyEnds, ChangeRun, Run, Unfinished
  <1>5. ASSUME NEW written \in BOOLEAN, CompleteRun(r, written)
        PROVE  /\ UNCHANGED <<page, storage, post, strays, bridge>>
               /\ runs'[r] \in Run /\ runs' = [runs EXCEPT ![r] = runs'[r]]
               /\ Unfinished(r)' => Unfinished(r) /\ runs'[r].lost = runs[r].lost
    BY <1>1, <1>5 DEF CompleteRun, ChangeRun, Ended, Unused, Run, Statuses, Unfinished
  <1>6. CASE FailRun(r)
    BY <1>1, <1>6 DEF FailRun, ChangeRun, Ended, Unused, Run, Statuses, Unfinished
  <1> QED
    BY <1>2, <1>3, <1>4, <1>5, <1>6 DEF Execution

(* One thread, when one run changes.                                       *)
LEMMA ThreadOfOneRun ==
  ASSUME TypeOK, ThreadInv, NEW r \in RunIds, NEW c \in Run, runs' = [runs EXCEPT ![r] = c],
         c.working > 0 => c.status = "running",
         c.status = "running" => \A q \in RunIds : q # r => runs[q].status # "running"
  PROVE  ThreadInv'
  BY DEF TypeOK, ThreadInv

LEMMA ExecutionKeepsThread ==
  ASSUME TypeOK, ThreadInv, NEW r \in RunIds, Execution(r)
  PROVE  ThreadInv'
  <1> DEFINE c == runs'[r]
  <1>1. c \in Run /\ runs' = [runs EXCEPT ![r] = c]
    BY ExecutionStep
  <1>2. runs \in [RunIds -> Run] /\ runs[r] \in Run
    BY DEF TypeOK
  <1>3. /\ c.working > 0 => c.status = "running"
        /\ c.status = "running" => \A q \in RunIds : q # r => runs[q].status # "running"
    <2>1. CASE BeginRun(r)
      <3>1. c = [runs[r] EXCEPT !.status = "running"]
        BY <1>2, <2>1 DEF BeginRun, ChangeRun
      <3>2. c.status = "running"
        BY <1>2, <3>1 DEF Run
      <3> QED
        BY <2>1, <3>2 DEF BeginRun
    <2>2. CASE StartCompany(r)
      <3>1. c = [runs[r] EXCEPT !.waiting = @ - 1, !.working = @ + 1]
        BY <1>2, <2>2 DEF StartCompany, ChangeRun
      <3>2. runs[r].status = "running" /\ c.status = runs[r].status
        BY <1>2, <2>2, <3>1 DEF StartCompany, Run
      <3> QED
        BY <3>2 DEF ThreadInv
    <2>3. ASSUME NEW raises \in BOOLEAN, CompanyEnds(r, raises)
          PROVE  /\ c.working > 0 => c.status = "running"
                 /\ c.status = "running" =>
                       \A q \in RunIds : q # r => runs[q].status # "running"
      <3>1. c = [runs[r] EXCEPT !.working = @ - 1, !.broken = @ \/ raises]
        BY <1>2, <2>3 DEF CompanyEnds, ChangeRun
      <3>2. runs[r].working > 0 /\ c.status = runs[r].status
        BY <1>2, <2>3, <3>1 DEF CompanyEnds, Run
      <3> QED
        BY <3>2 DEF ThreadInv
    <2>4. ASSUME NEW written \in BOOLEAN, CompleteRun(r, written)
          PROVE  c.working = 0 /\ c.status # "running"
      BY <1>2, <2>4 DEF CompleteRun, ChangeRun, Ended, Unused
    <2>5. CASE FailRun(r)
      BY <1>2, <2>5 DEF FailRun, ChangeRun, Ended, Unused
    <2> QED
      BY <2>1, <2>2, <2>3, <2>4, <2>5 DEF Execution
  <1> HIDE DEF c
  <1> QED
    BY <1>1, <1>3, ThreadOfOneRun

LEMMA ExecutionKeepsInv ==
  ASSUME IInv, NEW r \in RunIds, Execution(r)
  PROVE  IInv'
  <1>1. TypeOK /\ PageInv /\ ThreadInv /\ UnfinishedRunIsKept
    BY DEF IInv
  <1>2. /\ UNCHANGED <<page, storage, post, strays, bridge>>
        /\ runs'[r] \in Run /\ runs' = [runs EXCEPT ![r] = runs'[r]]
        /\ Unfinished(r)' => Unfinished(r) /\ runs'[r].lost = runs[r].lost
    BY <1>1, ExecutionStep
  <1>3. TypeOK'
    BY <1>1, <1>2 DEF TypeOK
  <1>4. PageInv'
    BY <1>1, <1>2 DEF PageInv
  <1>5. UnfinishedRunIsKept'
    <2> SUFFICES ASSUME NEW q \in RunIds, Unfinished(q)', ~runs'[q].lost PROVE Kept(q)'
      BY DEF UnfinishedRunIsKept, Kept
    <2>1. Unfinished(q) /\ ~runs[q].lost
      <3>1. CASE q = r
        BY <1>2, <3>1
      <3>2. CASE q # r
        BY <1>1, <1>2, <3>2 DEF TypeOK, Unfinished
      <3> QED
        BY <3>1, <3>2
    <2>2. Kept(q)
      BY <1>1, <2>1 DEF UnfinishedRunIsKept, Kept
    <2> QED
      BY <1>2, <2>2 DEF Kept
  <1> QED
    BY <1>1, <1>3, <1>4, <1>5, ExecutionKeepsThread DEF IInv

(* A run that the bridge has just taken is queued or failed, and new.      *)
LEMMA SubmittedRun ==
  ASSUME NEW n \in {0} \cup Sizes
  PROVE  /\ Submitted(n) \in Run /\ [Submitted(n) EXCEPT !.lost = TRUE] \in Run
         /\ Submitted(n).working = 0 /\ Submitted(n).status # "running"
         /\ [Submitted(n) EXCEPT !.lost = TRUE].working = 0
         /\ [Submitted(n) EXCEPT !.lost = TRUE].status # "running"
         /\ [Submitted(n) EXCEPT !.lost = TRUE].lost
  <1>1. n \in Nat /\ 0 \in 0..Workers
    BY RunsAssumption
  <1> QED
    BY <1>1 DEF Submitted, Ended, Unused, Run, Statuses

LEMMA AcceptPostKeepsInv ==
  ASSUME IInv, NEW r \in RunIds, AcceptPost(r)
  PROVE  IInv'
  <1>1. TypeOK /\ PageInv /\ ThreadInv /\ UnfinishedRunIsKept
    BY DEF IInv
  <1>2. post.size \in {0} \cup Sizes
    BY <1>1 DEF TypeOK, Posts
  <1> DEFINE c == Submitted(post.size)
  <1>3. /\ post.state = "sent" /\ runs' = [runs EXCEPT ![r] = c]
        /\ post' = [post EXCEPT !.state = "accepted", !.run = r]
        /\ UNCHANGED <<page, storage, strays, bridge>>
    BY DEF AcceptPost
  <1>4. c \in Run /\ c.working = 0 /\ c.status # "running"
    BY <1>2, SubmittedRun
  <1> HIDE DEF c
  <1>5. post' \in Posts /\ post'.state = "accepted" /\ post'.run = r
    BY <1>1, <1>3 DEF TypeOK, Posts
  <1>6. TypeOK'
    BY <1>1, <1>3, <1>4, <1>5 DEF TypeOK
  <1>7. PageInv'
    BY <1>1, <1>3, <1>5 DEF PageInv
  <1>8. ThreadInv'
    <2>1. (c.working > 0 => c.status = "running") /\ c.status # "running"
      BY <1>4
    <2> QED
      BY <1>1, <1>3, <1>4, <2>1, ThreadOfOneRun
  <1>9. UnfinishedRunIsKept'
    <2> SUFFICES ASSUME NEW q \in RunIds, Unfinished(q)', ~runs'[q].lost PROVE Kept(q)'
      BY DEF UnfinishedRunIsKept, Kept
    <2>1. CASE q = r
      BY <1>5, <2>1 DEF Kept
    <2>2. CASE q # r
      <3>1. Unfinished(q) /\ ~runs[q].lost
        BY <1>1, <1>3, <2>2 DEF TypeOK, Unfinished
      <3>2. Kept(q)
        BY <1>1, <3>1 DEF UnfinishedRunIsKept, Kept
      <3> QED
        BY <1>3, <3>2 DEF Kept
    <2> QED
      BY <2>1, <2>2
  <1> QED
    BY <1>6, <1>7, <1>8, <1>9 DEF IInv

LEMMA AcceptStrayKeepsInv ==
  ASSUME IInv, NEW r \in RunIds, NEW n \in Sizes, AcceptStray(r, n)
  PROVE  IInv'
  <1>1. TypeOK /\ PageInv /\ ThreadInv /\ UnfinishedRunIsKept
    BY DEF IInv
  <1> DEFINE c == [Submitted(n) EXCEPT !.lost = TRUE]
  <1>2. /\ strays > 0 /\ strays' = strays - 1 /\ runs' = [runs EXCEPT ![r] = c]
        /\ UNCHANGED <<page, storage, post, bridge>>
    BY DEF AcceptStray
  <1>3. c \in Run /\ c.working = 0 /\ c.status # "running" /\ c.lost
    BY SubmittedRun
  <1> HIDE DEF c
  <1>4. strays' \in Nat
    BY <1>1, <1>2 DEF TypeOK
  <1>5. TypeOK'
    BY <1>1, <1>2, <1>3, <1>4 DEF TypeOK
  <1>6. PageInv'
    BY <1>1, <1>2 DEF PageInv
  <1>7. ThreadInv'
    <2>1. (c.working > 0 => c.status = "running") /\ c.status # "running"
      BY <1>3
    <2> QED
      BY <1>1, <1>2, <1>3, <2>1, ThreadOfOneRun
  <1>8. UnfinishedRunIsKept'
    <2> SUFFICES ASSUME NEW q \in RunIds, Unfinished(q)', ~runs'[q].lost PROVE Kept(q)'
      BY DEF UnfinishedRunIsKept, Kept
    <2>1. q # r
      BY <1>1, <1>2, <1>3 DEF TypeOK
    <2>2. Unfinished(q) /\ ~runs[q].lost
      BY <1>1, <1>2, <2>1 DEF TypeOK, Unfinished
    <2>3. Kept(q)
      BY <1>1, <2>2 DEF UnfinishedRunIsKept, Kept
    <2> QED
      BY <1>2, <2>3 DEF Kept
  <1> QED
    BY <1>5, <1>6, <1>7, <1>8 DEF IInv

LEMMA ExitKeepsInv ==
  ASSUME IInv, NEW killed \in BOOLEAN, ExitBridge(killed)
  PROVE  IInv'
  <1>1. TypeOK /\ PageInv
    BY DEF IInv
  <1> DEFINE c(r) == IF runs[r].status = "none" THEN Unused ELSE Ended("gone")
  <1>2. /\ runs' = [r \in RunIds |-> c(r)] /\ bridge' = [bridge EXCEPT !.state = "down"]
        /\ UNCHANGED <<page, storage, post, strays>>
    BY DEF ExitBridge
  <1>3. 0 \in 0..Workers
    BY RunsAssumption
  <1>4. \A r \in RunIds : /\ c(r) \in Run /\ c(r).working = 0
                         /\ c(r).status \notin {"queued", "running"}
    BY <1>3 DEF Ended, Unused, Run, Statuses
  <1> HIDE DEF c
  <1>5. bridge' \in Bridges
    BY <1>1, <1>2 DEF TypeOK, Bridges
  <1>6. TypeOK'
    BY <1>1, <1>2, <1>4, <1>5 DEF TypeOK
  <1>7. PageInv'
    BY <1>1, <1>2 DEF PageInv
  <1> QED
    BY <1>2, <1>4, <1>6, <1>7 DEF IInv, ThreadInv, UnfinishedRunIsKept, Unfinished

-----------------------------------------------------------------------------
(* The whole                                                               *)

LEMMA NextKeepsInv == IInv /\ [Next]_vars => IInv'
  <1> SUFFICES ASSUME IInv, [Next]_vars PROVE IInv'
    OBVIOUS
  <1>1. CASE PageSteps
    <2>1. ThreadInv'
      BY <1>1, PageStepsAndRuns DEF IInv, ThreadInv
    <2> QED
      BY <1>1, <2>1, PageStepsKeepType, PageStepsKeepPage, PageStepsKeepRun DEF IInv
  <1>2. ASSUME NEW r \in RunIds,
               AcceptPost(r) \/ (\E n \in Sizes : AcceptStray(r, n)) \/ Execution(r)
        PROVE  IInv'
    BY <1>2, AcceptPostKeepsInv, AcceptStrayKeepsInv, ExecutionKeepsInv
  <1>3. ASSUME bridge' \in Bridges, UNCHANGED <<page, storage, post, strays, runs>>
        PROVE  IInv'
    BY <1>3 DEF IInv, TypeOK, PageInv, ThreadInv, UnfinishedRunIsKept, Unfinished
  <1>4. CASE StopBridge
    <2>1. bridge' \in Bridges
      BY <1>4 DEF StopBridge, Bridges, IInv, TypeOK
    <2> QED
      BY <1>3, <1>4, <2>1 DEF StopBridge
  <1>5. CASE StartBridge
    <2>1. bridge' \in Bridges
      BY <1>5, RunsAssumption DEF StartBridge, Bridges, IInv, TypeOK
    <2> QED
      BY <1>3, <1>5, <2>1 DEF StartBridge
  <1>6. CASE \E killed \in BOOLEAN : ExitBridge(killed)
    BY <1>6, ExitKeepsInv
  <1>7. CASE UNCHANGED vars
    BY <1>7 DEF vars, IInv, TypeOK, PageInv, ThreadInv, UnfinishedRunIsKept, Unfinished
  <1> QED
    BY <1>1, <1>2, <1>4, <1>5, <1>6, <1>7 DEF Next, PageSteps

THEOREM Invariance == Spec => []IInv
  BY InitInv, NextKeepsInv, PTL DEF Spec

(* Every variable of the popup and of the bridge keeps its type; above all *)
(* a poll is retried at most MAX_POLL_RETRIES times and a run has no more  *)
(* companies at work than the pool has workers.                            *)
THEOREM TypeCorrect == Spec => []TypeOK
  <1>1. IInv => TypeOK
    BY DEF IInv
  <1> QED
    BY <1>1, Invariance, PTL

(* The executor of the bridge works on one run at a time, however runs     *)
(* fail and whenever the bridge is stopped (docs/adr/0038).                *)
THEOREM NoOverlap == Spec => []OneRunAtATime
  <1>1. IInv => OneRunAtATime
    BY DEF IInv, ThreadInv, OneRunAtATime
  <1> QED
    BY <1>1, Invariance, PTL

(* A popup that waits for nothing and has its buttons disabled by a run in *)
(* flight knows which run that is.                                         *)
THEOREM ControlsComeBack == Spec => []NoStuckControl
  <1>1. IInv => NoStuckControl
    BY DEF IInv, PageInv, NoStuckControl, Idle
  <1> QED
    BY <1>1, Invariance, PTL

(* The popup may be closed and opened at any moment, and the bridge killed *)
(* or restarted: an unfinished run it did not lose sight of stays the run  *)
(* in storage and blocks a second submission.                              *)
THEOREM RunIsKept == Spec => []UnfinishedRunIsKept
  <1>1. IInv => UnfinishedRunIsKept
    BY DEF IInv
  <1> QED
    BY <1>1, Invariance, PTL
=============================================================================
