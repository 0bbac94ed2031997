---------------------------- MODULE EvidenceStore ----------------------------
(***************************************************************************)
(* The processes that share one evidence store file                        *)
(* (FilesystemCompanyDiscoveryEvidenceStore): batch parents in             *)
(* prepare_company, their pipeline children, CLI and extension runs.  Each *)
(* observes something, waits for the flock, reads the whole file, applies  *)
(* one operation to its copy, replaces the file and unlocks.  A process    *)
(* may die or fail at any of these points.                                 *)
(***************************************************************************)
EXTENDS EvidenceRecord

CONSTANTS Processes,
          Companies,
          MaxAge,     \* max_age_seconds
          MaxCalls,   \* bound on the store calls of a behaviour
          NoProcess

ASSUME StoreAssumption ==
    /\ MaxAge \in Nat
    /\ MaxCalls \in Nat
    /\ NoProcess \notin Processes

VARIABLES
    file,    \* the records of the store file
    lock,    \* holder of the flock
    clock,   \* time.time()
    calls,   \* calls made so far
    pc,      \* where each process is
    call,    \* company and operation of its current call
    copy     \* the payload it has read

vars == <<file, lock, clock, calls, pc, call, copy>>

Empty  == [c \in Companies |-> EmptyRecord]
NoCall == [company |-> NoUrl, op |-> NoUrl]
Calls  == [company : Companies, op : Operations]

TypeOK ==
    /\ file \in [Companies -> Records]
    /\ lock \in Processes \cup {NoProcess}
    /\ clock \in Times
    /\ calls \in 0..MaxCalls
    /\ pc \in [Processes -> {"idle", "waiting", "reading", "written"}]
    /\ call \in [Processes -> Calls \cup {NoCall}]
    /\ copy \in [Processes -> [Companies -> Records]]

Init ==
    /\ file = Empty
    /\ lock = NoProcess
    /\ clock = 1
    /\ calls = 0
    /\ pc = [p \in Processes |-> "idle"]
    /\ call = [p \in Processes |-> NoCall]
    /\ copy = [p \in Processes |-> Empty]

Tick ==
    /\ clock < MaxClock
    /\ clock' = clock + 1
    /\ UNCHANGED <<file, lock, calls, pc, call, copy>>

Begin(p, c, kind, layer) ==
    /\ pc[p] = "idle"
    /\ calls < MaxCalls
    /\ calls' = calls + 1
    /\ pc' = [pc EXCEPT ![p] = "waiting"]
    /\ call' = [call EXCEPT ![p] =
                  [company |-> c, op |-> [kind |-> kind, layer |-> layer]]]
    /\ UNCHANGED <<file, lock, clock, copy>>

(* prepare_company and the S2, S4 and S5 stages: observed_at is taken      *)
(* before the lock; a career page names the website of its run.            *)
SaveSiteCall(p, c, url) ==
    Begin(p, c, "save_site", [url |-> url, at |-> clock])

SaveCareerCall(p, c, url, site) ==
    Begin(p, c, "save_career", [url |-> url, site |-> site, at |-> clock])

SaveBoardCall(p, c, url) ==
    Begin(p, c, "save_board", [url |-> url, at |-> clock])

(* A stored layer was loaded, found wrong, and is to be invalidated.       *)
DropSiteCall(p, c) ==
    /\ SiteIsVisible(file[c], clock, MaxAge)
    /\ Begin(p, c, "drop_site", file[c].site)

DropCareerCall(p, c) ==
    /\ CareerIsVisible(file[c], clock, MaxAge)
    /\ Begin(p, c, "drop_career", file[c].career)

(* Mutant: the lock does not exclude other processes.                      *)
AcquireShared(p) ==
    /\ pc[p] = "waiting"
    /\ lock' = p
    /\ pc' = [pc EXCEPT ![p] = "reading"]
    /\ copy' = [copy EXCEPT ![p] = file]
    /\ UNCHANGED <<file, clock, calls, call>>

(* fcntl.flock(LOCK_EX), then _read_payload *)
Acquire(p) ==
    /\ pc[p] = "waiting"
    /\ lock = NoProcess
    /\ lock' = p
    /\ pc' = [pc EXCEPT ![p] = "reading"]
    /\ copy' = [copy EXCEPT ![p] = file]
    /\ UNCHANGED <<file, clock, calls, call>>

(* The operation on the copy and os.replace; an invalidation that matches  *)
(* nothing writes nothing.                                                 *)
Replace(p) ==
    /\ pc[p] = "reading"
    /\ file' = [copy[p] EXCEPT ![call[p].company] = Apply(call[p].op, @)]
    /\ pc' = [pc EXCEPT ![p] = "written"]
    /\ UNCHANGED <<lock, clock, calls, call, copy>>

(* fsync of the directory and flock(LOCK_UN) *)
Release(p) ==
    /\ pc[p] = "written"
    /\ lock' = NoProcess
    /\ pc' = [pc EXCEPT ![p] = "idle"]
    /\ call' = [call EXCEPT ![p] = NoCall]
    /\ copy' = [copy EXCEPT ![p] = Empty]
    /\ UNCHANGED <<file, clock, calls>>

(* The process is killed, or a write fails and the caller swallows the     *)
(* OSError: the lock goes with the descriptor, the file stays as it is.    *)
Die(p) ==
    /\ pc[p] # "idle"
    /\ lock' = IF lock = p THEN NoProcess ELSE lock
    /\ pc' = [pc EXCEPT ![p] = "idle"]
    /\ call' = [call EXCEPT ![p] = NoCall]
    /\ copy' = [copy EXCEPT ![p] = Empty]
    /\ UNCHANGED <<file, clock, calls>>

Next ==
    \/ Tick
    \/ \E p \in Processes, c \in Companies :
          \/ \E url \in Sites : SaveSiteCall(p, c, url)
          \/ \E url \in Careers, site \in Sites : SaveCareerCall(p, c, url, site)
          \/ \E url \in BoardIds : SaveBoardCall(p, c, url)
          \/ DropSiteCall(p, c)
          \/ DropCareerCall(p, c)
    \/ \E p \in Processes : Acquire(p) \/ Replace(p) \/ Release(p) \/ Die(p)

Spec == Init /\ [][Next]_vars
-----------------------------------------------------------------------------
(* Properties *)

(* Whoever replaced or invalidated the website between a run's S2 and its  *)
(* S4 save, a stored career page is always one of the website stored with  *)
(* it (the website_url test of save, the drop of lower layers).            *)
CareerOfItsWebsite == \A c \in Companies : CareerFits(file[c])

(* The board list that is cut at MaxBoards is newest first with one entry  *)
(* per identity, so the cut never drops a board in favour of an older or   *)
(* duplicate one, however late a save arrives.                             *)
NewestBoardsFirst ==
    \A c \in Companies :
        \A i, j \in DOMAIN file[c].boards :
            i < j => /\ file[c].boards[i].at >= file[c].boards[j].at
                     /\ file[c].boards[i].url # file[c].boards[j].url

(* A process that observed a layer earlier but got the lock later never    *)
(* replaces the newer observation (_layer_is_not_newer).                   *)
NeverOlder ==
    [][\A c \in Companies :
          /\ file'[c].site # NoSite => file'[c].site.at >= file[c].site.at
          /\ (file'[c].career # NoCareer /\ file'[c].site = file[c].site)
                 => file'[c].career.at >= file[c].career.at]_vars

(* A process that dies in the store does not lock the others out: whoever  *)
(* holds the lock is still at work between flock and unlock.               *)
LockIsHeld ==
    \A p \in Processes : lock = p <=> pc[p] \in {"reading", "written"}

(* The inductive invariant: what a process has read is the file as long as *)
(* it holds the lock, so that its write applies to the current records.    *)
CallsOK ==
    /\ pc \in [Processes -> {"idle", "waiting", "reading", "written"}]
    /\ call \in [Processes -> Calls \cup {NoCall}]
    /\ \A p \in Processes : pc[p] # "idle" => call[p] \in Calls

IInv ==
    /\ lock \in Processes \cup {NoProcess}
    /\ clock \in Times
    /\ CallsOK
    /\ LockIsHeld
    /\ copy = [p \in Processes |-> copy[p]]
    /\ \A p \in Processes : pc[p] = "reading" => copy[p] = file
    /\ file = [c \in Companies |-> file[c]]
    /\ \A c \in Companies : HasLayers(file[c]) /\ CareerFits(file[c])

(* The store behaves as if each call were one indivisible update of one    *)
(* company's record: no update is lost, whoever dies holding the lock.     *)
Atomic == INSTANCE AtomicEvidence WITH records <- file
ImplementsAtomic == Atomic!Spec
=============================================================================
