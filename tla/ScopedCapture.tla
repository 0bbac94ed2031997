--------------------------- MODULE ScopedCapture ---------------------------
(***************************************************************************)
(* Scoped snapshot capture and its replay.  The pipeline children of all   *)
(* companies share one snapshot directory: two journals, one sequence file *)
(* and one flock.  A child numbers the requests of the stage it runs,      *)
(* writes each terminal outcome to a journal and, when the stage returns,  *)
(* freezes the scope into the stage checkpoint.  The replay script later   *)
(* rebuilds the frozen scopes from the journals and serves them, one stage *)
(* at a time, to the same pipeline.                                        *)
(***************************************************************************)
EXTENDS Naturals, FiniteSets, Sequences

CONSTANTS Companies,
          Requests,      \* request identities
          LastStage,     \* the stages are 1..LastStage
          MaxAttempts,   \* bound on the attempts of a company
          MaxRequests,   \* bound on the requests of a stage
          MaxSequence,   \* bound on the records of the store
          MaxFailures,   \* bound on the stage runs that end without a checkpoint
          Nobody

ASSUME CaptureAssumption ==
    /\ LastStage \in Nat \ {0} /\ MaxAttempts \in Nat
    /\ MaxRequests \in Nat /\ MaxSequence \in Nat /\ MaxFailures \in Nat
    /\ Nobody \notin Companies

Stages == 1..LastStage
Kinds  == {"page", "fetch_failure"}

\* The scope id is a digest of the attempt and the stage: a stage that an
\* attempt runs twice has the same scope twice.
Scopes == [company : Companies, attempt : 1..MaxAttempts, stage : Stages]

Records == [scope : Scopes, ordinal : 1..MaxRequests, sequence : 1..MaxSequence,
            request : Requests, kind : Kinds]

\* A journal line; only the last one may lack its newline.
NoRecord == [kind |-> "none"]
Line(text, record, ended) == [text |-> text, record |-> record, ended |-> ended]
Lines ==
    {Line("record", r, e) : r \in Records, e \in BOOLEAN}
        \cup {Line(t, NoRecord, e) : t \in {"torn", "corrupt"}, e \in BOOLEAN}

\* EvidenceScopeRef
ScopeRefs == [scope : Scopes, count : 0..MaxRequests,
              first : 0..MaxSequence, last : 0..MaxSequence,
              digest : UNION {[1..n -> Requests \X Kinds] : n \in 0..MaxRequests}]
Unsaved == [scope |-> "none"]

Tapes == UNION {[1..n -> Records] : n \in 0..MaxRequests}

VARIABLES
    journal,   \* lines of snapshots.jsonl and fetch-failures.jsonl
    sequence,  \* the number in .snapshot-sequence
    lock,      \* the company whose child holds the flock
    attempt,   \* capture attempt of each company
    child,     \* the company's child process and its active scope
    saved,     \* snapshot_scope in the lineage of each stage checkpoint
    observed,  \* what that stage saw when it ran
    failures,  \* stage runs that ended without a checkpoint
    replay     \* the replay of one company's record

store == <<journal, sequence, lock>>
vars  == <<journal, sequence, lock, attempt, child, saved, observed, failures, replay>>

NoChild == [pc |-> "none", stage |-> 1, next |-> 1, terminal |-> {},
            request |-> Nobody, kind |-> "none", number |-> 0]
NoReplay == [phase |-> "none", company |-> Nobody, tapes |-> <<>>, stage |-> 1,
             consumed |-> {}, handed |-> <<>>, expected |-> <<>>]

TypeOK ==
    /\ \A k \in Kinds : journal[k] \in Seq(Lines)
    /\ sequence \in 0..MaxSequence
    /\ lock \in Companies \cup {Nobody}
    /\ attempt \in [Companies -> 0..MaxAttempts]
    /\ child \in [Companies ->
          [pc : {"none", "running", "locked", "numbered"},
           stage : Stages, next : 1..MaxRequests + 1,
           terminal : SUBSET Records, request : Requests \cup {Nobody},
           kind : Kinds \cup {"none"}, number : 0..MaxSequence]]
    /\ \A c \in Companies, s \in Stages :
          /\ saved[c][s] \in ScopeRefs \cup {Unsaved}
          /\ observed[c][s] \in Tapes
    /\ failures \in 0..MaxFailures
    /\ replay.phase \in {"none", "ready", "active", "done", "refused", "diverged"}

Init ==
    /\ journal = [k \in Kinds |-> <<>>]
    /\ sequence = 0
    /\ lock = Nobody
    /\ attempt = [c \in Companies |-> 0]
    /\ child = [c \in Companies |-> NoChild]
    /\ saved = [c \in Companies |-> [s \in Stages |-> Unsaved]]
    /\ observed = [c \in Companies |-> [s \in Stages |-> <<>>]]
    /\ failures = 0
    /\ replay = NoReplay

-----------------------------------------------------------------------------
(* The pipeline child.  Its attempt id comes from the batch parent, which  *)
(* gives the same one to every child of an invocation.                     *)

\* begin_stage: the scope is empty and its ordinals start at 1.
Begun(s) == [NoChild EXCEPT !.pc = "running", !.stage = s]

StartChild(c, s, fresh, cut) ==
    /\ replay.phase = "none"
    /\ child[c].pc = "none"
    /\ \A r \in 1..s - 1 : saved[c][r] # Unsaved
    /\ IF fresh THEN attempt[c] < MaxAttempts ELSE attempt[c] > 0
    /\ attempt' = IF fresh THEN [attempt EXCEPT ![c] = @ + 1] ELSE attempt
    /\ saved' = IF cut
                THEN [saved EXCEPT ![c] = [r \in Stages |-> IF r < s THEN @[r] ELSE Unsaved]]
                ELSE saved
    /\ child' = [child EXCEPT ![c] = Begun(s)]
    /\ UNCHANGED <<store, observed, failures, replay>>

ActiveScope(c) ==
    [company |-> c, attempt |-> attempt[c], stage |-> child[c].stage]

\* Room for the records being written.
Room == sequence + Cardinality({c \in Companies : child[c].pc = "locked"}) < MaxSequence

MayRequest(c) == child[c].pc = "running" /\ child[c].next <= MaxRequests

\* An exception that is no transport error: no record for the ordinal, and
\* a stage that swallows it goes on.
RaiseOther(c) ==
    /\ MayRequest(c)
    /\ failures < MaxFailures
    /\ child' = [child EXCEPT ![c].next = @ + 1]
    /\ UNCHANGED <<store, attempt, saved, observed, failures, replay>>

Numbering(c, u, k) ==
    [child EXCEPT ![c] = [child[c] EXCEPT !.pc = "locked", !.next = @ + 1, !.request = u,
                                          !.kind = k, !.number = sequence + 1]]

(* Mutant: the number is read without the lock.                            *)
FetchUnlocked(c, u, k) ==
    /\ MayRequest(c)
    /\ Room
    /\ lock' = c
    /\ child' = Numbering(c, u, k)
    /\ UNCHANGED <<journal, sequence, attempt, saved, observed, failures, replay>>

\* begin_request and the fetch touch nothing shared, so they are one step
\* with the flock and the number that _next_sequence reads under it.
Fetch(c, u, k) ==
    /\ MayRequest(c)
    /\ Room
    /\ lock = Nobody
    /\ lock' = c
    /\ child' = Numbering(c, u, k)
    /\ UNCHANGED <<journal, sequence, attempt, saved, observed, failures, replay>>

(* Mutant: the file holds the next number, which the reader adds to again. *)
WriteNextSequence(c) ==
    /\ child[c].pc = "locked"
    /\ sequence' = child[c].number + 1
    /\ child' = [child EXCEPT ![c].pc = "numbered"]
    /\ UNCHANGED <<journal, lock, attempt, saved, observed, failures, replay>>

WriteSequence(c) ==
    /\ child[c].pc = "locked"
    /\ sequence' = child[c].number
    /\ child' = [child EXCEPT ![c].pc = "numbered"]
    /\ UNCHANGED <<journal, lock, attempt, saved, observed, failures, replay>>

PendingRecord(c) ==
    [scope |-> ActiveScope(c), ordinal |-> child[c].next - 1,
     sequence |-> child[c].number, request |-> child[c].request, kind |-> child[c].kind]

\* Text appended to a line without its newline becomes part of that line;
\* what two fragments join to is no JSON.
Written(lines, line) ==
    IF lines # <<>> /\ ~lines[Len(lines)].ended
    THEN [lines EXCEPT ![Len(lines)] = Line("corrupt", NoRecord, line.ended)]
    ELSE Append(lines, line)

AppendRecord(c) ==
    LET r == PendingRecord(c) IN
    /\ child[c].pc = "numbered"
    /\ journal' = [journal EXCEPT ![r.kind] = Written(@, Line("record", r, TRUE))]
    /\ lock' = Nobody
    /\ child' = [child EXCEPT ![c] = [child[c] EXCEPT !.pc = "running",
                                                      !.terminal = @ \cup {r},
                                                      !.request = Nobody, !.kind = "none",
                                                      !.number = 0]]
    /\ UNCHANGED <<sequence, attempt, saved, observed, failures, replay>>

\* The descriptors of a scope by ordinal.
ByOrdinal(S) == [i \in 1..Cardinality(S) |-> CHOOSE r \in S : r.ordinal = i]
Terminated(c) == {r.ordinal : r \in child[c].terminal} = 1..child[c].next - 1

Bounds(S) == {r.sequence : r \in S}
Least(S)    == IF S = {} THEN 0 ELSE CHOOSE n \in S : \A m \in S : n <= m
Greatest(S) == IF S = {} THEN 0 ELSE CHOOSE n \in S : \A m \in S : n >= m

FrozenScope(c) ==
    LET S == child[c].terminal IN
    [scope |-> ActiveScope(c), count |-> child[c].next - 1,
     first |-> Least(Bounds(S)), last |-> Greatest(Bounds(S)),
     digest |-> [i \in 1..Cardinality(S) |-> <<ByOrdinal(S)[i].request, ByOrdinal(S)[i].kind>>]]

\* finalize, the lineage and the checkpoint; then the next stage, or the end
\* of the child.  A death in between leaves what a death before it leaves.
FinishStage(c, returns) ==
    LET s == child[c].stage IN
    /\ child[c].pc = "running"
    /\ Terminated(c)
    /\ s = LastStage => returns
    /\ saved' = [saved EXCEPT ![c][s] = FrozenScope(c)]
    /\ observed' = [observed EXCEPT ![c][s] = ByOrdinal(child[c].terminal)]
    /\ child' = [child EXCEPT ![c] = IF returns THEN NoChild ELSE Begun(s + 1)]
    /\ UNCHANGED <<store, attempt, failures, replay>>

\* The stage or finalize raises, or the budget ends the child between two
\* writes: the scope is dropped.
AbortStage(c) ==
    /\ child[c].pc = "running"
    /\ failures < MaxFailures
    /\ failures' = failures + 1
    /\ child' = [child EXCEPT ![c] = NoChild]
    /\ UNCHANGED <<store, attempt, saved, observed, replay>>

\* The budget kills the child inside a write.  The kernel drops its flock;
\* a record being appended is missing, cut off, or lacks its newline.
Kill(c) ==
    LET r == PendingRecord(c) IN
    /\ child[c].pc \in {"locked", "numbered"}
    /\ failures < MaxFailures
    /\ failures' = failures + 1
    /\ lock' = IF lock = c THEN Nobody ELSE lock
    /\ \/ journal' = journal
       \/ /\ child[c].pc = "numbered"
          /\ \E cut \in {Line("torn", NoRecord, FALSE), Line("record", r, FALSE)} :
                journal' = [journal EXCEPT ![r.kind] = Written(@, cut)]
    /\ child' = [child EXCEPT ![c] = NoChild]
    /\ UNCHANGED <<sequence, attempt, saved, observed, replay>>

-----------------------------------------------------------------------------
(* The loader.                                                             *)

\* An absent journal is empty.  One incomplete line is skipped at the end;
\* a journal that has nothing else is an error.
Readable(k) ==
    \/ journal[k] = <<>>
    \/ /\ \A i \in DOMAIN journal[k] : journal[k][i].text # "corrupt"
       /\ \E i \in DOMAIN journal[k] : journal[k][i].text = "record"

InJournal(k) ==
    {journal[k][i].record : i \in {j \in DOMAIN journal[k] : journal[k][j].text = "record"}}

InScope(ref) ==
    {r \in InJournal("page") \cup InJournal("fetch_failure") :
        /\ ref.count > 0
        /\ r.scope = ref.scope
        /\ ref.first <= r.sequence /\ r.sequence <= ref.last}

Agrees(ref, S) ==
    /\ Cardinality(S) = ref.count
    /\ {r.ordinal : r \in S} = 1..ref.count
    /\ \A r \in S : ref.digest[r.ordinal] = <<r.request, r.kind>>
    /\ Least(Bounds(S)) = ref.first /\ Greatest(Bounds(S)) = ref.last

Loads(ref) ==
    /\ \A k \in Kinds : Readable(k)
    /\ Agrees(ref, InScope(ref))

Tape(ref) == ByOrdinal(InScope(ref))

\* The stages whose lineage the company's last result carries.
Recorded(c) == {s \in Stages : \A r \in 1..s : saved[c][r] # Unsaved}

\* The script copies what it reads: captures after that change nothing, so
\* the replay is the last thing to happen here.
LoadTapes(c) ==
    /\ replay.phase = "none"
    /\ \A d \in Companies : child[d].pc = "none"
    /\ Recorded(c) # {}
    /\ replay' =
          IF \A s \in Recorded(c) : Loads(saved[c][s])
          THEN [NoReplay EXCEPT !.phase = "ready", !.company = c,
                                !.tapes = [s \in Recorded(c) |-> Tape(saved[c][s])],
                                !.handed = [s \in Recorded(c) |-> <<>>],
                                !.expected = [s \in Recorded(c) |-> observed[c][s]]]
          ELSE [replay EXCEPT !.phase = "refused"]
    /\ UNCHANGED <<store, attempt, child, saved, observed, failures>>

(* ScopedReplayController: one tape at a time, in stage order.             *)

ReplayBegin ==
    /\ replay.phase = "ready"
    /\ replay.stage \in DOMAIN replay.tapes
    /\ replay' = [replay EXCEPT !.phase = "active", !.consumed = {}]
    /\ UNCHANGED <<store, attempt, child, saved, observed, failures>>

Matching(u) ==
    {i \in DOMAIN replay.tapes[replay.stage] \ replay.consumed :
        replay.tapes[replay.stage][i].request = u}

(* Mutant: the last entry of that identity.                                *)
ReplayFetchLast(u) ==
    /\ replay.phase = "active"
    /\ Matching(u) # {}
    /\ LET i == Greatest(Matching(u)) IN
       replay' = [replay EXCEPT !.consumed = @ \cup {i},
                                !.handed[replay.stage] = Append(@, replay.tapes[replay.stage][i])]
    /\ UNCHANGED <<store, attempt, child, saved, observed, failures>>

\* The first entry of that identity not handed out yet.  A request without
\* one is answered with OFFLINE_TAPE_DIVERGENCE and changes nothing.
ReplayFetch(u) ==
    /\ replay.phase = "active"
    /\ Matching(u) # {}
    /\ LET i == Least(Matching(u)) IN
       replay' = [replay EXCEPT !.consumed = @ \cup {i},
                                !.handed[replay.stage] = Append(@, replay.tapes[replay.stage][i])]
    /\ UNCHANGED <<store, attempt, child, saved, observed, failures>>

ReplayFinalize ==
    /\ replay.phase = "active"
    /\ replay' =
          IF replay.consumed = DOMAIN replay.tapes[replay.stage]
          THEN [replay EXCEPT !.phase = "ready", !.stage = @ + 1]
          ELSE [replay EXCEPT !.phase = "diverged"]
    /\ UNCHANGED <<store, attempt, child, saved, observed, failures>>

\* A stage that raises in the replay fails the replay of its record.
ReplayAbort ==
    /\ replay.phase = "active"
    /\ replay' = [replay EXCEPT !.phase = "diverged"]
    /\ UNCHANGED <<store, attempt, child, saved, observed, failures>>

AllConsumed ==
    /\ replay.phase = "ready"
    /\ replay.stage \notin DOMAIN replay.tapes
    /\ replay' = [replay EXCEPT !.phase = "done"]
    /\ UNCHANGED <<store, attempt, child, saved, observed, failures>>

-----------------------------------------------------------------------------

Next ==
    \/ \E c \in Companies :
          \/ \E s \in Stages, fresh, cut \in BOOLEAN : StartChild(c, s, fresh, cut)
          \/ RaiseOther(c)
          \/ \E u \in Requests, k \in Kinds : Fetch(c, u, k)
          \/ WriteSequence(c)
          \/ AppendRecord(c)
          \/ \E returns \in BOOLEAN : FinishStage(c, returns)
          \/ AbortStage(c)
          \/ Kill(c)
          \/ LoadTapes(c)
    \/ ReplayBegin
    \/ \E u \in Requests : ReplayFetch(u)
    \/ ReplayFinalize
    \/ ReplayAbort
    \/ AllConsumed

Spec == Init /\ [][Next]_vars

-----------------------------------------------------------------------------

(* As long as the journals can be read, every scope a checkpoint refers to *)
(* loads, and its tape is what the stage saw: not the records of another   *)
(* company, of an earlier attempt, of an invocation that was killed, or of *)
(* the first run of a stage its attempt ran twice.                         *)
SavedScopesLoad ==
    (\A k \in Kinds : Readable(k)) =>
        \A c \in Companies, s \in Stages :
            saved[c][s] # Unsaved =>
                Loads(saved[c][s]) /\ Tape(saved[c][s]) = observed[c][s]

(* What was handed out in the replay of a stage repeats what the stage saw:*)
(* each outcome once, and those of one identity in their order.            *)
Repeats(handed, seen) ==
    /\ {handed[i] : i \in DOMAIN handed} = {seen[n] : n \in DOMAIN seen}
    /\ \A i, k \in DOMAIN handed, m, n \in DOMAIN seen :
          (/\ i < k /\ handed[i] = seen[m] /\ handed[k] = seen[n]
           /\ seen[m].request = seen[n].request) => m < n

(* A replay that ends repeats every stage, in whatever order the stage     *)
(* asks.                                                                   *)
ReplayRepeatsTheCapture ==
    replay.phase = "done" =>
        \A s \in DOMAIN replay.expected :
            Repeats(replay.handed[s], replay.expected[s])
=============================================================================
