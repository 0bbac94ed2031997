------------------------- MODULE ScopedCapture_proofs -------------------------
(***************************************************************************)
(* Proofs about scoped snapshots, for any number of companies, stages,     *)
(* attempts, requests and kills: a saved scope is loaded as its stage saw  *)
(* it, and a replay repeats it.                                            *)
(***************************************************************************)
EXTENDS ScopedCapture, FiniteSetTheorems, WellFoundedInduction, TLAPS

-----------------------------------------------------------------------------
(* The inductive invariant                                                 *)

Children ==
    [pc : {"none", "running", "locked", "numbered"},
     stage : Stages, next : 1..MaxRequests + 1,
     terminal : SUBSET Records, request : Requests \cup {Nobody},
     kind : Kinds \cup {"none"}, number : 0..MaxSequence]

TypeInv ==
    /\ journal \in [Kinds -> Seq(Lines)]
    /\ sequence \in 0..MaxSequence
    /\ lock \in Companies \cup {Nobody}
    /\ attempt \in [Companies -> 0..MaxAttempts]
    /\ child \in [Companies -> Children]
    /\ saved \in [Companies -> [Stages -> ScopeRefs \cup {Unsaved}]]
    /\ observed \in [Companies -> [Stages -> Tapes]]
    /\ failures \in 0..MaxFailures

(* No line is two fragments joined; what the journals then hold.           *)
Clean(lines) == \A i \in 1..Len(lines) : lines[i].text # "corrupt"
AllClean     == \A k \in Kinds : Clean(journal[k])
Held         == InJournal("page") \cup InJournal("fetch_failure")

(* The number is below the one that is being written.                      *)
Used(n) ==
    /\ n <= sequence
    /\ \A c \in Companies : child[c].pc = "numbered" => n < child[c].number

HeldInv == AllClean => \A r \in Held : Used(r.sequence)

(* Who numbers a record holds the lock.                                    *)
Writes(c) == child[c].pc \in {"locked", "numbered"}

WriteInv ==
    \A c \in Companies :
        Writes(c) =>
            /\ lock = c
            /\ child[c].next >= 2 /\ child[c].request \in Requests
            /\ child[c].kind \in Kinds /\ child[c].number >= 1
            /\ child[c].pc = "locked" => child[c].number = sequence + 1
            /\ child[c].pc = "numbered" => child[c].number = sequence

(* The records of the scope at work: in the order of their ordinals, in    *)
(* the journals, and newer than whatever else has the id of the scope.     *)
ScopeAt(c) ==
    child[c].pc # "none" =>
        /\ attempt[c] >= 1
        /\ \A r \in child[c].terminal :
              /\ r.scope = ActiveScope(c)
              /\ r.ordinal < child[c].next
              /\ Writes(c) => r.ordinal < child[c].next - 1
              /\ Used(r.sequence)
              /\ AllClean => r \in Held
        /\ \A r, q \in child[c].terminal :
              /\ r.ordinal < q.ordinal => r.sequence < q.sequence
              /\ r.ordinal = q.ordinal => r = q
        /\ AllClean =>
              \A r \in Held, q \in child[c].terminal :
                  r.scope = ActiveScope(c) /\ r \notin child[c].terminal
                      => r.sequence < q.sequence

ScopeInv == \A c \in Companies : ScopeAt(c)

(* The sequence of a stage's records with the reference made of it.        *)
Frozen(ref, tape) ==
    /\ ref.count \in Nat /\ tape \in [1..ref.count -> Records]
    /\ \A i \in 1..ref.count :
          /\ tape[i].ordinal = i /\ tape[i].scope = ref.scope
          /\ ref.digest[i] = <<tape[i].request, tape[i].kind>>
    /\ \A i, k \in 1..ref.count : i < k => tape[i].sequence < tape[k].sequence
    /\ ref.count = 0 => ref.first = 0 /\ ref.last = 0
    /\ ref.count > 0 => /\ ref.first = tape[1].sequence
                        /\ ref.last = tape[ref.count].sequence

Kept(ref, tape) ==
    /\ \A i \in 1..ref.count : tape[i] \in Held
    /\ \A r \in Held :
          r.scope = ref.scope /\ ref.first <= r.sequence /\ r.sequence <= ref.last
              => \E i \in 1..ref.count : r = tape[i]

SavedAt(c, s) ==
    saved[c][s] # Unsaved =>
        /\ Frozen(saved[c][s], observed[c][s])
        /\ Used(saved[c][s].last)
        /\ AllClean => Kept(saved[c][s], observed[c][s])

SavedInv == \A c \in Companies, s \in Stages : SavedAt(c, s)

CaptureInv == TypeInv /\ HeldInv /\ WriteInv /\ ScopeInv /\ SavedInv

(* A tape that is handed out: its places are told apart by their records.  *)
IsTape(tape) == \E n \in Nat : /\ tape \in [1..n -> Records]
                               /\ \A i \in 1..n : tape[i].ordinal = i

(* What has been handed out of a tape, always the first of an identity.    *)
Handed(tape, consumed, handed) ==
    /\ consumed \subseteq DOMAIN tape
    /\ {handed[i] : i \in DOMAIN handed} = {tape[n] : n \in consumed}
    /\ \A n \in consumed, m \in DOMAIN tape :
          m < n /\ tape[m].request = tape[n].request => m \in consumed
    /\ \A i, k \in DOMAIN handed, m, n \in DOMAIN tape :
          (/\ i < k /\ handed[i] = tape[m] /\ handed[k] = tape[n]
           /\ tape[m].request = tape[n].request) => m < n

(* One stage of a replay r: before, at and after the stage it is at.       *)
StageAt(r, s) ==
    /\ IsTape(r.tapes[s]) /\ r.handed[s] \in Seq(Records)
    /\ s < r.stage => Handed(r.tapes[s], DOMAIN r.tapes[s], r.handed[s])
    /\ s > r.stage => r.handed[s] = <<>>
    /\ s = r.stage /\ r.phase = "ready" => r.handed[s] = <<>>
    /\ s = r.stage /\ r.phase = "active" => Handed(r.tapes[s], r.consumed, r.handed[s])

ReplayAt(r) ==
    /\ r.stage \in Nat /\ r.stage >= 1
    /\ r.tapes = r.expected
    /\ DOMAIN r.handed = DOMAIN r.tapes /\ DOMAIN r.tapes \subseteq Stages
    /\ \A s \in DOMAIN r.tapes : \A q \in 1..s : q \in DOMAIN r.tapes
    /\ \A s \in DOMAIN r.tapes : StageAt(r, s)
    /\ r.phase = "active" => r.stage \in DOMAIN r.tapes
    /\ r.phase = "done" => r.stage \notin DOMAIN r.tapes

ReplayInv ==
    /\ DOMAIN replay = DOMAIN NoReplay
    /\ replay.phase \in {"none", "ready", "active", "done", "refused", "diverged"}
    /\ replay.phase \in {"ready", "active", "done"} => ReplayAt(replay)

IInv == CaptureInv /\ ReplayInv

-----------------------------------------------------------------------------
(* The journals                                                            *)

Taken(lines) ==
    {lines[i].record : i \in {j \in DOMAIN lines : lines[j].text = "record"}}

LEMMA LineTypes ==
  \A line \in Lines :
      /\ line.text \in {"record", "torn", "corrupt"} /\ line.ended \in BOOLEAN
      /\ line.text = "record" => line.record \in Records
  BY DEF Lines, Line

LEMMA LinesHave ==
  /\ \A r \in Records : \A e \in BOOLEAN : Line("record", r, e) \in Lines
  /\ \A e \in BOOLEAN : Line("torn", NoRecord, e) \in Lines
<1>1. \A r \in Records, e \in BOOLEAN :
         Line("record", r, e) \in {Line("record", q, f) : q \in Records, f \in BOOLEAN}
  OBVIOUS
<1>2. \A e \in BOOLEAN : Line("torn", NoRecord, e)
         \in {Line(t, NoRecord, f) : t \in {"torn", "corrupt"}, f \in BOOLEAN}
  OBVIOUS
<1> QED BY <1>1, <1>2 DEF Lines

LEMMA TakenAre ==
  ASSUME NEW lines \in Seq(Lines)
  PROVE  Taken(lines) \subseteq Records
<1>1. \A i \in DOMAIN lines : lines[i] \in Lines
  OBVIOUS
<1> QED BY <1>1, LineTypes DEF Taken

(* A clean journal has all it had and what was written.                    *)
LEMMA WrittenIs ==
  ASSUME NEW lines \in Seq(Lines), NEW line \in Lines
  PROVE  /\ Written(lines, line) \in Seq(Lines)
         /\ Clean(Written(lines, line)) =>
              /\ Clean(lines)
              /\ Taken(Written(lines, line))
                   = Taken(lines) \cup {x \in {line.record} : line.text = "record"}
<1>1. Len(lines) \in Nat /\ DOMAIN lines = 1..Len(lines)
  OBVIOUS
<1>2. CASE lines # <<>> /\ ~lines[Len(lines)].ended
  <2> DEFINE joined == Line("corrupt", NoRecord, line.ended)
             new == [lines EXCEPT ![Len(lines)] = joined]
  <2>1. joined \in Lines /\ joined.text = "corrupt"
    BY LineTypes DEF Lines, Line
  <2>2. Len(lines) \in 1..Len(lines)
    BY <1>1, <1>2
  <2> HIDE DEF joined
  <2>3. new \in Seq(Lines) /\ Len(new) = Len(lines) /\ new[Len(lines)] = joined
    BY <2>1, <2>2
  <2>4. ~Clean(new)
    BY <2>1, <2>2, <2>3 DEF Clean
  <2> QED BY <1>2, <2>3, <2>4 DEF Written, joined
<1>3. CASE ~(lines # <<>> /\ ~lines[Len(lines)].ended)
  <2> DEFINE new == Append(lines, line)
  <2>1. Written(lines, line) = new
    BY <1>3 DEF Written
  <2>2. /\ new \in Seq(Lines) /\ Len(new) = Len(lines) + 1
        /\ \A i \in 1..Len(lines) : new[i] = lines[i]
        /\ new[Len(lines) + 1] = line
        /\ DOMAIN new = 1..(Len(lines) + 1)
    BY <1>1
  <2> HIDE DEF new
  <2>3. Clean(new) => Clean(lines)
    BY <1>1, <2>2 DEF Clean
  <2>4. Taken(new) = Taken(lines) \cup {x \in {line.record} : line.text = "record"}
    <3>1. \A i : i \in DOMAIN new <=> i \in DOMAIN lines \/ i = Len(lines) + 1
      BY <1>1, <2>2
    <3>2. Len(lines) + 1 \notin DOMAIN lines
      BY <1>1
    <3> QED BY <1>1, <2>2, <3>1, <3>2 DEF Taken
  <2> QED BY <2>1, <2>2, <2>3, <2>4
<1> QED BY <1>2, <1>3

LEMMA HeldAre ==
  ASSUME TypeInv
  PROVE  Held \subseteq Records
<1>1. \A k \in Kinds : InJournal(k) = Taken(journal[k]) /\ journal[k] \in Seq(Lines)
  BY DEF InJournal, Taken, TypeInv
<1> QED BY <1>1, TakenAre DEF Held, Kinds

(* One line is written to one journal.                                     *)
LEMMA JournalWritten ==
  ASSUME TypeInv, NEW k \in Kinds, NEW line \in Lines,
         journal' = [journal EXCEPT ![k] = Written(@, line)]
  PROVE  /\ journal' \in [Kinds -> Seq(Lines)]
         /\ AllClean' =>
              /\ AllClean
              /\ Held' = Held \cup {x \in {line.record} : line.text = "record"}
<1>1. \A m \in Kinds : /\ InJournal(m) = Taken(journal[m])
                       /\ InJournal(m)' = Taken(journal'[m])
  BY DEF InJournal, Taken
<1>2. /\ journal \in [Kinds -> Seq(Lines)]
      /\ journal'[k] = Written(journal[k], line)
      /\ \A m \in Kinds : m # k => journal'[m] = journal[m]
  BY DEF TypeInv
<1>3. /\ journal'[k] \in Seq(Lines)
      /\ Clean(journal'[k]) =>
           /\ Clean(journal[k])
           /\ Taken(journal'[k])
                = Taken(journal[k]) \cup {x \in {line.record} : line.text = "record"}
  BY <1>2, WrittenIs
<1>4. journal' \in [Kinds -> Seq(Lines)]
  BY <1>2, <1>3
<1>5. ASSUME AllClean'
      PROVE  /\ AllClean
             /\ Held' = Held \cup {x \in {line.record} : line.text = "record"}
  <2>1. \A m \in Kinds : Clean(journal'[m])
    BY <1>5 DEF AllClean, Clean
  <2>2. AllClean
    BY <1>2, <1>3, <2>1 DEF AllClean
  <2>3. "page" \in Kinds /\ "fetch_failure" \in Kinds /\ k \in {"page", "fetch_failure"}
    BY DEF Kinds
  <2>4. Taken(journal'[k])
          = Taken(journal[k]) \cup {x \in {line.record} : line.text = "record"}
    BY <1>3, <2>1
  <2> QED BY <1>1, <1>2, <2>2, <2>3, <2>4 DEF Held
<1> QED BY <1>4, <1>5

LEMMA JournalSame ==
  ASSUME journal' = journal
  PROVE  (AllClean' <=> AllClean) /\ Held' = Held
  BY DEF AllClean, Clean, Held, InJournal

-----------------------------------------------------------------------------
(* What a step of child c leaves of the others                             *)

(* Numbers in use stay in use, and a record that comes is newer than all.  *)
Forward(c) ==
    /\ \A n \in 0..MaxSequence : Used(n) => Used(n)'
    /\ AllClean' => /\ AllClean /\ Held \subseteq Held'
                    /\ \A r \in Held' : \/ r \in Held
                                        \/ /\ r \in Records /\ r.scope.company = c
                                           /\ Used(r.sequence)'
                                           /\ \A n \in 0..MaxSequence :
                                                 Used(n) => n < r.sequence

Others(c) == \A d \in Companies : d # c => child'[d] = child[d] /\ attempt'[d] = attempt[d]

LEMMA HeldKept ==
  ASSUME TypeInv, HeldInv, NEW c, Forward(c)
  PROVE  HeldInv'
<1> SUFFICES ASSUME AllClean', NEW r \in Held' PROVE Used(r.sequence)'
  BY DEF HeldInv
<1>1. CASE r \in Held
  <2>1. r.sequence \in 0..MaxSequence
    BY <1>1, HeldAre DEF Records
  <2>2. Used(r.sequence)
    BY <1>1 DEF Forward, HeldInv
  <2> QED BY <2>1, <2>2 DEF Forward
<1>2. CASE r \notin Held
  BY <1>2 DEF Forward
<1> QED BY <1>1, <1>2

LEMMA SavedKept ==
  ASSUME TypeInv, NEW c, Forward(c), NEW d \in Companies, NEW s \in Stages,
         SavedAt(d, s), saved'[d][s] = saved[d][s], observed'[d][s] = observed[d][s]
  PROVE  SavedAt(d, s)'
<1> SUFFICES ASSUME saved[d][s] # Unsaved
             PROVE  /\ Frozen(saved[d][s], observed[d][s])'
                    /\ Used(saved[d][s].last)'
                    /\ AllClean' => Kept(saved[d][s], observed[d][s])'
  BY DEF SavedAt
<1>1. PICK ref, tape : ref = saved[d][s] /\ tape = observed[d][s]
  OBVIOUS
<1>2. /\ Frozen(ref, tape) /\ Used(ref.last) /\ (AllClean => Kept(ref, tape))
      /\ ref \in ScopeRefs
  BY <1>1 DEF SavedAt, TypeInv
<1>3. Frozen(saved[d][s], observed[d][s])'
  BY <1>1, <1>2
<1>4. ref.last \in 0..MaxSequence
  BY <1>2 DEF ScopeRefs
<1>5. Used(saved[d][s].last)'
  <2>1. Used(ref.last)'
    BY <1>2, <1>4 DEF Forward
  <2> QED BY <1>1, <2>1 DEF Used
<1>6. ASSUME AllClean' PROVE Kept(saved[d][s], observed[d][s])'
  <2>1. Kept(ref, tape)
    BY <1>2, <1>6 DEF Forward
  <2>2. \A r \in Held' : r \in Held \/ ref.last < r.sequence
    BY <1>2, <1>4, <1>6 DEF Forward
  <2>3. \A i \in 1..ref.count : tape[i] \in Held'
    BY <1>6, <2>1 DEF Kept, Forward
  <2>4. ASSUME NEW r \in Held', r.scope = ref.scope, ref.first <= r.sequence,
               r.sequence <= ref.last
        PROVE  \E i \in 1..ref.count : r = tape[i]
    <3>1. CASE r \in Held
      BY <2>1, <2>4, <3>1 DEF Kept
    <3>2. CASE ref.last < r.sequence /\ r \notin Held
      <4>1. r.sequence \in Nat
        BY <1>6, <2>4, <3>2 DEF Forward, Records
      <4> QED BY <4>1, <1>4, <2>4, <3>2
    <3> QED BY <2>2, <3>1, <3>2
  <2> QED BY <1>1, <2>3, <2>4 DEF Kept
<1> QED BY <1>3, <1>5, <1>6

(* The scope of another child.                                             *)
LEMMA ScopeKept ==
  ASSUME TypeInv, NEW c \in Companies, Forward(c), Others(c),
         NEW d \in Companies, d # c, ScopeAt(d)
  PROVE  ScopeAt(d)'
<1> SUFFICES ASSUME child[d].pc # "none" PROVE ScopeAt(d)'
  BY DEF ScopeAt, Others
<1>1. /\ child'[d] = child[d] /\ attempt'[d] = attempt[d]
      /\ ActiveScope(d)' = ActiveScope(d) /\ ActiveScope(d).company = d
      /\ (Writes(d)' <=> Writes(d))
  BY DEF Others, ActiveScope, Writes
<1>2. child[d].terminal \subseteq Records
  BY DEF TypeInv, Children
<1>3. ASSUME NEW r \in child[d].terminal
      PROVE  /\ r.scope = ActiveScope(d) /\ r.ordinal < child[d].next
             /\ Writes(d) => r.ordinal < child[d].next - 1
             /\ Used(r.sequence)' /\ (AllClean' => r \in Held')
  <2>1. r.sequence \in 0..MaxSequence
    BY <1>2 DEF Records
  <2> QED BY <2>1 DEF ScopeAt, Forward
<1>4. ASSUME AllClean', NEW r \in Held', NEW q \in child[d].terminal,
             r.scope = ActiveScope(d), r \notin child[d].terminal
      PROVE  r.sequence < q.sequence
  <2>1. r \in Held
    BY <1>1, <1>4 DEF Forward
  <2>2. AllClean
    BY <1>4 DEF Forward
  <2> QED BY <1>4, <2>1, <2>2 DEF ScopeAt
<1> QED BY <1>1, <1>3, <1>4 DEF ScopeAt

(* A scope in which nothing is recorded yet, and one that is dropped.      *)
LEMMA ScopeEmpty ==
  ASSUME NEW c \in Companies, child'[c].terminal = {},
         child'[c].pc # "none" => attempt'[c] >= 1
  PROVE  ScopeAt(c)'
  BY DEF ScopeAt

(* A step of c that leaves the journals and what is saved as they are.     *)
LEMMA QuietKept ==
  ASSUME TypeInv, CaptureInv, NEW c \in Companies, Others(c), Forward(c),
         saved' = saved, observed' = observed, ScopeAt(c)'
  PROVE  HeldInv' /\ ScopeInv' /\ SavedInv'
<1>1. HeldInv'
  BY HeldKept DEF CaptureInv
<1>2. ScopeInv'
  BY ScopeKept DEF ScopeInv, CaptureInv
<1>3. SavedInv'
  BY SavedKept DEF SavedInv, CaptureInv
<1> QED BY <1>1, <1>2, <1>3

(* Nothing is written.                                                     *)
LEMMA SameForward ==
  ASSUME NEW c, journal' = journal, \A n \in 0..MaxSequence : Used(n) => Used(n)'
  PROVE  Forward(c)
  BY JournalSame DEF Forward

LEMMA SameUsed ==
  ASSUME sequence' = sequence,
         \A d \in Companies : child'[d].pc = "numbered"
            => child[d].pc = "numbered" /\ child'[d].number = child[d].number
  PROVE  \A n : Used(n) => Used(n)'
  BY DEF Used

LEMMA WritesKept ==
  ASSUME WriteInv, NEW c \in Companies, Others(c), sequence' = sequence,
         lock' = lock, Writes(c)' => Writes(c) /\ child'[c] = child[c]
  PROVE  WriteInv'
  BY DEF WriteInv, Writes, Others

(* A child of the shape it must have.                                      *)
LEMMA ChildMoved ==
  ASSUME TypeInv, NEW c \in Companies, NEW new \in Children,
         child' = [child EXCEPT ![c] = new]
  PROVE  /\ child' \in [Companies -> Children] /\ child'[c] = new
         /\ \A d \in Companies : d # c => child'[d] = child[d]
  BY DEF TypeInv

LEMMA NoChildIs ==
  /\ NoChild \in Children /\ NoChild.pc = "none" /\ NoChild.terminal = {}
  /\ \A s \in Stages : /\ Begun(s) \in Children /\ Begun(s).pc = "running"
                       /\ Begun(s).terminal = {}
<1>1. 1 \in Stages /\ 1 \in 1..MaxRequests + 1 /\ 0 \in 0..MaxSequence
  BY CaptureAssumption DEF Stages
<1> QED BY <1>1 DEF NoChild, Begun, Children

-----------------------------------------------------------------------------
(* The steps of a child                                                    *)

LEMMA StartKeeps ==
  ASSUME CaptureInv, NEW c \in Companies, NEW s \in Stages,
         NEW fresh \in BOOLEAN, NEW cut \in BOOLEAN, StartChild(c, s, fresh, cut)
  PROVE  CaptureInv'
<1>0. /\ TypeInv /\ WriteInv /\ child[c].pc = "none"
      /\ child' = [child EXCEPT ![c] = Begun(s)]
      /\ UNCHANGED <<journal, sequence, lock, observed, failures>>
  BY DEF CaptureInv, StartChild, store
<1>1. /\ child' \in [Companies -> Children] /\ child'[c] = Begun(s)
      /\ \A d \in Companies : d # c => child'[d] = child[d]
  BY <1>0, NoChildIs, ChildMoved
<1>2. /\ attempt' \in [Companies -> 0..MaxAttempts] /\ attempt'[c] >= 1
      /\ \A d \in Companies : d # c => attempt'[d] = attempt[d]
  <2>1. attempt[c] \in 0..MaxAttempts /\ MaxAttempts \in Nat
    BY <1>0, CaptureAssumption DEF TypeInv
  <2>2. CASE fresh
    <3>1. attempt[c] < MaxAttempts /\ attempt' = [attempt EXCEPT ![c] = @ + 1]
      BY <2>2 DEF StartChild
    <3> QED BY <1>0, <2>1, <3>1 DEF TypeInv
  <2>3. CASE ~fresh
    <3>1. attempt[c] > 0 /\ attempt' = attempt
      BY <2>3 DEF StartChild
    <3> QED BY <1>0, <2>1, <3>1 DEF TypeInv
  <2> QED BY <2>2, <2>3
<1>3. \A d \in Companies, r \in Stages :
         saved'[d][r] = saved[d][r] \/ saved'[d][r] = Unsaved
  BY <1>0 DEF StartChild, TypeInv
<1>4. saved' \in [Companies -> [Stages -> ScopeRefs \cup {Unsaved}]]
  BY <1>0 DEF StartChild, TypeInv
<1>5. Others(c) /\ child'[c].pc = "running" /\ child'[c].terminal = {}
  BY <1>1, <1>2, NoChildIs DEF Others
<1>6. Forward(c)
  BY <1>0, <1>1, <1>5, SameUsed, SameForward
<1>7. TypeInv'
  BY <1>0, <1>1, <1>2, <1>4 DEF TypeInv
<1>8. WriteInv'
  BY <1>0, <1>5, WritesKept DEF Writes
<1>9. HeldInv'
  BY <1>0, <1>6, HeldKept DEF CaptureInv
<1>10. ScopeInv'
  BY <1>0, <1>2, <1>5, <1>6, ScopeEmpty, ScopeKept DEF ScopeInv, CaptureInv
<1>11. SavedInv'
  <2> SUFFICES ASSUME NEW d \in Companies, NEW r \in Stages PROVE SavedAt(d, r)'
    BY DEF SavedInv
  <2>1. CASE saved'[d][r] = saved[d][r]
    BY <1>0, <1>6, <2>1, SavedKept DEF CaptureInv, SavedInv
  <2>2. CASE saved'[d][r] = Unsaved
    BY <2>2 DEF SavedAt
  <2> QED BY <1>3, <2>1, <2>2
<1> QED BY <1>7, <1>8, <1>9, <1>10, <1>11 DEF CaptureInv

LEMMA RaiseKeeps ==
  ASSUME CaptureInv, NEW c \in Companies, RaiseOther(c)
  PROVE  CaptureInv'
<1> DEFINE new == [child[c] EXCEPT !.next = @ + 1]
<1>0. /\ TypeInv /\ WriteInv /\ ScopeAt(c) /\ child[c].pc = "running"
      /\ child[c] \in Children /\ child[c].next <= MaxRequests
      /\ child' = [child EXCEPT ![c].next = @ + 1]
      /\ UNCHANGED <<journal, sequence, lock, attempt, saved, observed, failures>>
  BY DEF CaptureInv, ScopeInv, RaiseOther, MayRequest, store, TypeInv
<1>1. child[c].next \in Nat /\ child[c].next + 1 \in 1..MaxRequests + 1
  BY <1>0, CaptureAssumption DEF Children
<1>2. new \in Children
  BY <1>0, <1>1 DEF Children
<1>3. child' = [child EXCEPT ![c] = new]
  BY <1>0 DEF TypeInv
<1>4. /\ new.pc = "running" /\ new.terminal = child[c].terminal
      /\ new.next = child[c].next + 1 /\ new.stage = child[c].stage
  BY <1>0 DEF Children
<1> HIDE DEF new
<1>5. /\ child' \in [Companies -> Children] /\ child'[c] = new
      /\ \A d \in Companies : d # c => child'[d] = child[d]
  BY <1>0, <1>2, <1>3, ChildMoved
<1>6. Others(c)
  BY <1>0, <1>5 DEF Others
<1>7. Forward(c)
  BY <1>0, <1>4, <1>5, SameUsed, SameForward
<1>8. ScopeAt(c)'
  <2>1. ActiveScope(c)' = ActiveScope(c) /\ ~Writes(c)'
    BY <1>0, <1>4, <1>5 DEF ActiveScope, Writes
  <2>2. \A r \in child[c].terminal : r \in Records /\ r.ordinal < child[c].next + 1
                                     /\ r.sequence \in 0..MaxSequence
    BY <1>0, <1>1 DEF ScopeAt, Children, Records
  <2>3. \A r \in child[c].terminal : Used(r.sequence)'
    BY <1>0, <1>7, <2>2 DEF ScopeAt, Forward
  <2>4. (AllClean' <=> AllClean) /\ Held' = Held
    BY <1>0, JournalSame
  <2> QED BY <1>0, <1>4, <1>5, <2>1, <2>2, <2>3, <2>4 DEF ScopeAt
<1>9. HeldInv' /\ ScopeInv' /\ SavedInv'
  BY <1>0, <1>6, <1>7, <1>8, QuietKept
<1>10. WriteInv'
  BY <1>0, <1>4, <1>5, <1>6, WritesKept DEF Writes
<1>11. TypeInv'
  BY <1>0, <1>5 DEF TypeInv
<1> QED BY <1>9, <1>10, <1>11 DEF CaptureInv

LEMMA FetchKeeps ==
  ASSUME CaptureInv, NEW c \in Companies, NEW u \in Requests, NEW k \in Kinds,
         Fetch(c, u, k)
  PROVE  CaptureInv'
<1> DEFINE new == [child[c] EXCEPT !.pc = "locked", !.next = @ + 1, !.request = u,
                                   !.kind = k, !.number = sequence + 1]
<1>0. /\ TypeInv /\ WriteInv /\ ScopeAt(c) /\ child[c].pc = "running"
      /\ child[c] \in Children /\ child[c].next <= MaxRequests
      /\ Room /\ lock = Nobody /\ lock' = c
      /\ UNCHANGED <<journal, sequence, attempt, saved, observed, failures>>
  BY DEF CaptureInv, ScopeInv, Fetch, MayRequest, TypeInv
<1>a. child' = [child EXCEPT ![c] = new]
  BY DEF Fetch, Numbering
<1>1. child[c].next \in Nat /\ child[c].next >= 1 /\ child[c].next + 1 \in 1..MaxRequests + 1
  BY <1>0, CaptureAssumption DEF Children
<1>2. \A d \in Companies : ~Writes(d)
  BY <1>0, CaptureAssumption DEF WriteInv
<1>3. sequence \in Nat /\ sequence + 1 \in 0..MaxSequence
  <2>1. {d \in Companies : child[d].pc = "locked"} = {}
    BY <1>2 DEF Writes
  <2>2. sequence + 0 < MaxSequence
    BY <1>0, <2>1, FS_EmptySet DEF Room
  <2> QED BY <1>0, <2>2, CaptureAssumption DEF TypeInv
<1>4. new \in Children
  BY <1>0, <1>1, <1>3 DEF Children
<1>5. /\ new.pc = "locked" /\ new.terminal = child[c].terminal
      /\ new.next = child[c].next + 1 /\ new.stage = child[c].stage
      /\ new.request = u /\ new.kind = k /\ new.number = sequence + 1
  BY <1>0 DEF Children
<1> HIDE DEF new
<1>6. /\ child' \in [Companies -> Children] /\ child'[c] = new
      /\ \A d \in Companies : d # c => child'[d] = child[d]
  BY <1>0, <1>a, <1>4, ChildMoved
<1>7. Others(c)
  BY <1>0, <1>6 DEF Others
<1>8. Forward(c)
  <2>1. \A d \in Companies : child'[d].pc = "numbered"
           => child[d].pc = "numbered" /\ child'[d].number = child[d].number
    BY <1>5, <1>6
  <2> QED BY <1>0, <2>1, SameUsed, SameForward
<1>9. ScopeAt(c)'
  <2>1. ActiveScope(c)' = ActiveScope(c)
    BY <1>0, <1>5, <1>6 DEF ActiveScope
  <2>2. \A r \in child[c].terminal :
          /\ r \in Records /\ r.sequence \in 0..MaxSequence
          /\ r.ordinal < child[c].next + 1 /\ r.ordinal < child[c].next + 1 - 1
    BY <1>0, <1>1 DEF ScopeAt, Children, Records
  <2>3. \A r \in child[c].terminal : Used(r.sequence)'
    BY <1>0, <1>8, <2>2 DEF ScopeAt, Forward
  <2>4. (AllClean' <=> AllClean) /\ Held' = Held
    BY <1>0, JournalSame
  <2>5. child'[c].terminal = child[c].terminal /\ child'[c].next = child[c].next + 1
    BY <1>5, <1>6
  <2>6. attempt'[c] >= 1
    BY <1>0 DEF ScopeAt
  <2>7. ASSUME NEW r \in child[c].terminal
        PROVE  /\ r.scope = ActiveScope(c)' /\ r.ordinal < child'[c].next
               /\ r.ordinal < child'[c].next - 1
               /\ Used(r.sequence)' /\ (AllClean' => r \in Held')
    <3>1. r.scope = ActiveScope(c) /\ (AllClean => r \in Held)
      BY <1>0 DEF ScopeAt
    <3>2. r.ordinal < child'[c].next /\ r.ordinal < child'[c].next - 1
      <4>1. r.ordinal \in Nat /\ r.ordinal < child[c].next
        BY <1>0, <2>2 DEF ScopeAt, Records
      <4> QED BY <1>1, <2>5, <4>1
    <3> QED BY <2>1, <2>3, <2>4, <3>1, <3>2
  <2>8. \A r, q \in child[c].terminal :
           /\ r.ordinal < q.ordinal => r.sequence < q.sequence
           /\ r.ordinal = q.ordinal => r = q
    BY <1>0 DEF ScopeAt
  <2>9. AllClean' => \A r \in Held', q \in child[c].terminal :
           r.scope = ActiveScope(c)' /\ r \notin child[c].terminal
              => r.sequence < q.sequence
    BY <1>0, <2>1, <2>4 DEF ScopeAt
  <2> QED BY <2>5, <2>6, <2>7, <2>8, <2>9 DEF ScopeAt
<1>10. HeldInv' /\ ScopeInv' /\ SavedInv'
  BY <1>0, <1>7, <1>8, <1>9, QuietKept
<1>11. WriteInv'
  <2>1. \A d \in Companies : d # c => ~Writes(d)'
    BY <1>2, <1>6 DEF Writes
  <2> QED BY <1>0, <1>1, <1>3, <1>5, <1>6, <2>1 DEF WriteInv
<1>12. TypeInv'
  BY <1>0, <1>6 DEF TypeInv
<1> QED BY <1>10, <1>11, <1>12 DEF CaptureInv

LEMMA WriteKeeps ==
  ASSUME CaptureInv, NEW c \in Companies, WriteSequence(c)
  PROVE  CaptureInv'
<1> DEFINE new == [child[c] EXCEPT !.pc = "numbered"]
<1>0. /\ TypeInv /\ WriteInv /\ ScopeAt(c) /\ child[c].pc = "locked" /\ Writes(c)
      /\ child[c] \in Children
      /\ sequence' = child[c].number /\ child' = [child EXCEPT ![c].pc = "numbered"]
      /\ UNCHANGED <<journal, lock, attempt, saved, observed, failures>>
  BY DEF CaptureInv, ScopeInv, WriteSequence, TypeInv, Writes
<1>1. /\ lock = c /\ child[c].number = sequence + 1
      /\ child[c].next >= 2 /\ child[c].request \in Requests /\ child[c].kind \in Kinds
      /\ child[c].number >= 1
      /\ \A d \in Companies : d # c => ~Writes(d)
  BY <1>0 DEF WriteInv
<1>2. /\ sequence \in Nat /\ sequence' = sequence + 1
      /\ sequence' \in 0..MaxSequence /\ child[c].number \in 0..MaxSequence
  BY <1>0, <1>1, CaptureAssumption DEF TypeInv, Children
<1>3. new \in Children /\ child' = [child EXCEPT ![c] = new]
  BY <1>0 DEF Children, TypeInv
<1>4. /\ new.pc = "numbered" /\ new.terminal = child[c].terminal
      /\ new.next = child[c].next /\ new.stage = child[c].stage
      /\ new.request = child[c].request /\ new.kind = child[c].kind
      /\ new.number = child[c].number
  BY <1>0 DEF Children
<1> HIDE DEF new
<1>5. /\ child' \in [Companies -> Children] /\ child'[c] = new
      /\ \A d \in Companies : d # c => child'[d] = child[d]
  BY <1>0, <1>3, ChildMoved
<1>6. Others(c) /\ \A d \in Companies : d # c => ~Writes(d)'
  BY <1>0, <1>1, <1>5 DEF Others, Writes
<1>7. Forward(c)
  <2>1. ASSUME NEW n \in 0..MaxSequence, Used(n) PROVE Used(n)'
    <3>1. n \in Nat /\ n <= sequence
      BY <2>1 DEF Used
    <3>2. n <= sequence' /\ n < child[c].number
      BY <1>1, <1>2, <3>1
    <3> QED BY <1>4, <1>5, <1>6, <3>2 DEF Used, Writes
  <2> QED BY <1>0, <2>1, SameForward
<1>8. ScopeAt(c)'
  <2>1. /\ ActiveScope(c)' = ActiveScope(c) /\ Writes(c)
        /\ child'[c].terminal = child[c].terminal /\ child'[c].next = child[c].next
        /\ child[c].pc # "none"
    BY <1>0, <1>4, <1>5 DEF ActiveScope
  <2>2. \A r \in child[c].terminal : Used(r.sequence)'
    BY <1>0, <1>7, <2>1 DEF ScopeAt, Forward, Children, Records
  <2>3. (AllClean' <=> AllClean) /\ Held' = Held
    BY <1>0, JournalSame
  <2> QED BY <1>0, <2>1, <2>2, <2>3 DEF ScopeAt
<1>9. HeldInv' /\ ScopeInv' /\ SavedInv'
  BY <1>0, <1>6, <1>7, <1>8, QuietKept
<1>10. WriteInv'
  BY <1>0, <1>1, <1>4, <1>5, <1>6 DEF WriteInv
<1>11. TypeInv'
  BY <1>0, <1>2, <1>5 DEF TypeInv
<1> QED BY <1>9, <1>10, <1>11 DEF CaptureInv

(* The record that is being written, which no journal and no scope has.    *)
LEMMA PendingIs ==
  ASSUME CaptureInv, NEW c \in Companies, child[c].pc = "numbered"
  PROVE  LET r == PendingRecord(c) IN
         /\ r \in Records /\ Line("record", r, TRUE) \in Lines
         /\ Line("record", r, FALSE) \in Lines /\ r.kind \in Kinds
         /\ r.scope = ActiveScope(c) /\ r.scope.company = c
         /\ r.ordinal = child[c].next - 1
         /\ r.sequence = child[c].number /\ r.sequence = sequence
         /\ \A n \in 0..MaxSequence : Used(n) => n < r.sequence
         /\ lock = c
         /\ \A d \in Companies : d # c => ~Writes(d)
<1> DEFINE r == PendingRecord(c)
<1>1. /\ TypeInv /\ WriteInv /\ Writes(c) /\ ScopeAt(c) /\ child[c] \in Children
  BY DEF CaptureInv, Writes, ScopeInv, TypeInv
<1>2. /\ lock = c /\ child[c].number = sequence
      /\ child[c].next >= 2 /\ child[c].request \in Requests /\ child[c].kind \in Kinds
      /\ child[c].number >= 1
      /\ \A d \in Companies : d # c => ~Writes(d)
  BY <1>1 DEF WriteInv
<1>3. ActiveScope(c) \in Scopes /\ ActiveScope(c).company = c
  <2>1. attempt[c] \in 1..MaxAttempts /\ child[c].stage \in Stages
    BY <1>1, CaptureAssumption DEF ScopeAt, TypeInv, Children
  <2> QED BY <2>1 DEF ActiveScope, Scopes
<1>4. child[c].next - 1 \in 1..MaxRequests
  BY <1>1, <1>2, CaptureAssumption DEF Children
<1>5. child[c].number \in 1..MaxSequence
  BY <1>1, <1>2, CaptureAssumption DEF Children
<1>6. /\ r.scope = ActiveScope(c) /\ r.ordinal = child[c].next - 1
      /\ r.sequence = child[c].number /\ r.kind = child[c].kind
      /\ r \in Records
  BY <1>2, <1>3, <1>4, <1>5 DEF PendingRecord, Records
<1> HIDE DEF r
<1>7. Line("record", r, TRUE) \in Lines /\ Line("record", r, FALSE) \in Lines
  BY <1>6, LinesHave
<1>8. \A n \in 0..MaxSequence : Used(n) => n < r.sequence
  BY <1>6 DEF Used
<1> QED BY <1>2, <1>3, <1>6, <1>7, <1>8 DEF r

LEMMA AppendKeeps ==
  ASSUME CaptureInv, NEW c \in Companies, AppendRecord(c)
  PROVE  CaptureInv'
<1>0. /\ TypeInv /\ WriteInv /\ HeldInv /\ ScopeAt(c) /\ child[c].pc = "numbered"
      /\ Writes(c) /\ child[c] \in Children
  BY DEF CaptureInv, ScopeInv, AppendRecord, TypeInv, Writes
<1>1. PICK r : r = PendingRecord(c)
  OBVIOUS
<1>2. /\ r \in Records /\ Line("record", r, TRUE) \in Lines /\ r.kind \in Kinds
      /\ r.scope = ActiveScope(c) /\ r.scope.company = c /\ r.ordinal = child[c].next - 1
      /\ r.sequence = sequence
      /\ \A n \in 0..MaxSequence : Used(n) => n < r.sequence
      /\ \A d \in Companies : d # c => ~Writes(d)
  BY <1>0, <1>1, PendingIs
<1> DEFINE new == [child[c] EXCEPT !.pc = "running", !.terminal = @ \cup {r},
                                   !.request = Nobody, !.kind = "none", !.number = 0]
<1>3. /\ journal' = [journal EXCEPT ![r.kind] = Written(@, Line("record", r, TRUE))]
      /\ child' = [child EXCEPT ![c] = new]
      /\ lock' = Nobody
      /\ UNCHANGED <<sequence, attempt, saved, observed, failures>>
  BY <1>1 DEF AppendRecord
<1>4. new \in Children
  <2>1. 0 \in 0..MaxSequence
    BY CaptureAssumption
  <2>2. child[c].terminal \cup {r} \in SUBSET Records
    BY <1>0, <1>2 DEF Children
  <2> QED BY <1>0, <2>1, <2>2 DEF Children
<1>5. /\ new.pc = "running" /\ new.terminal = child[c].terminal \cup {r}
      /\ new.next = child[c].next /\ new.stage = child[c].stage
  BY <1>0 DEF Children
<1> HIDE DEF new
<1>6. /\ child' \in [Companies -> Children] /\ child'[c] = new
      /\ \A d \in Companies : d # c => child'[d] = child[d]
  BY <1>0, <1>3, <1>4, ChildMoved
<1>7. Others(c) /\ \A d \in Companies : ~Writes(d)'
  BY <1>2, <1>3, <1>5, <1>6 DEF Others, Writes
<1>8. /\ journal' \in [Kinds -> Seq(Lines)]
      /\ AllClean' => (AllClean /\ Held' = Held \cup {r})
  <2>1. LET line == Line("record", r, TRUE) IN line.text = "record" /\ line.record = r
    BY DEF Line
  <2> QED BY <1>0, <1>2, <1>3, <2>1, JournalWritten
<1>9. /\ \A n : Used(n) => Used(n)'
      /\ Used(r.sequence)'
  <2>1. \A n : n <= sequence' => Used(n)'
    BY <1>7 DEF Used, Writes
  <2>2. sequence \in Nat
    BY <1>0 DEF TypeInv
  <2> QED BY <1>2, <1>3, <2>1, <2>2 DEF Used
<1>10. Forward(c)
  BY <1>2, <1>8, <1>9 DEF Forward
<1>11. \A q \in child[c].terminal :
          /\ q \in Records /\ q.scope = ActiveScope(c)
          /\ q.ordinal < r.ordinal /\ q.sequence < r.sequence /\ Used(q.sequence)
          /\ AllClean => q \in Held
  <2> SUFFICES ASSUME NEW q \in child[c].terminal
               PROVE  /\ q \in Records /\ q.scope = ActiveScope(c)
                      /\ q.ordinal < r.ordinal /\ q.sequence < r.sequence
                      /\ Used(q.sequence) /\ (AllClean => q \in Held)
    OBVIOUS
  <2>1. q \in Records /\ q.sequence \in 0..MaxSequence
    BY <1>0 DEF Children, Records
  <2>2. /\ q.scope = ActiveScope(c) /\ q.ordinal < child[c].next - 1
        /\ Used(q.sequence) /\ (AllClean => q \in Held)
    BY <1>0 DEF ScopeAt
  <2> QED BY <1>2, <2>1, <2>2
<1>12. ScopeAt(c)'
  <2>1. /\ ActiveScope(c)' = ActiveScope(c) /\ ~Writes(c)'
        /\ child'[c].terminal = child[c].terminal \cup {r}
        /\ child'[c].next = child[c].next /\ attempt'[c] >= 1
    BY <1>0, <1>3, <1>5, <1>6, <1>7 DEF ActiveScope, ScopeAt
  <2>2. child[c].next \in Nat /\ r.ordinal \in Nat /\ r.sequence \in Nat
    BY <1>0, <1>2, CaptureAssumption DEF Children, Records
  <2>3. ASSUME NEW q \in child[c].terminal \cup {r}
        PROVE  /\ q.scope = ActiveScope(c) /\ q.ordinal < child[c].next
               /\ Used(q.sequence)' /\ (AllClean' => q \in Held')
    <3>1. CASE q \in child[c].terminal
      BY <1>0, <1>8, <1>9, <1>11, <3>1 DEF ScopeAt
    <3>2. CASE q = r
      BY <1>2, <1>8, <1>9, <2>2, <3>2
    <3> QED BY <3>1, <3>2
  <2>4. ASSUME NEW p \in child[c].terminal \cup {r}, NEW q \in child[c].terminal \cup {r}
        PROVE  /\ p.ordinal < q.ordinal => p.sequence < q.sequence
               /\ p.ordinal = q.ordinal => p = q
    <3>1. CASE p \in child[c].terminal /\ q \in child[c].terminal
      BY <1>0, <3>1 DEF ScopeAt
    <3>2. CASE p = r /\ q = r
      BY <2>2, <3>2
    <3>3. CASE p \in child[c].terminal /\ q = r
      BY <1>11, <2>2, <3>3 DEF Records
    <3>4. CASE p = r /\ q \in child[c].terminal
      <4>1. q.ordinal < r.ordinal /\ q.ordinal \in Nat
        BY <1>11, <3>4 DEF Records
      <4> QED BY <2>2, <3>4, <4>1
    <3> QED BY <3>1, <3>2, <3>3, <3>4
  <2>5. ASSUME AllClean', NEW p \in Held', NEW q \in child[c].terminal \cup {r},
               p.scope = ActiveScope(c), p \notin child[c].terminal \cup {r}
        PROVE  p.sequence < q.sequence
    <3>1. p \in Held /\ p \in Records /\ AllClean
      BY <1>0, <1>8, <2>5, HeldAre
    <3>2. CASE q \in child[c].terminal
      BY <1>0, <2>5, <3>1, <3>2 DEF ScopeAt
    <3>3. CASE q = r
      <4>1. Used(p.sequence) /\ p.sequence \in 0..MaxSequence
        BY <1>0, <3>1 DEF HeldInv, Records
      <4> QED BY <1>2, <3>3, <4>1
    <3> QED BY <3>2, <3>3
  <2> QED BY <2>1, <2>3, <2>4, <2>5 DEF ScopeAt
<1>13. HeldInv' /\ ScopeInv' /\ SavedInv'
  BY <1>0, <1>3, <1>7, <1>10, <1>12, QuietKept
<1>14. WriteInv'
  BY <1>7 DEF WriteInv
<1>15. TypeInv'
  BY <1>0, <1>3, <1>6, <1>8 DEF TypeInv
<1> QED BY <1>13, <1>14, <1>15 DEF CaptureInv

(* The child is gone, and with it its scope.                               *)
LEMMA DroppedKeeps ==
  ASSUME CaptureInv, NEW c \in Companies, child' = [child EXCEPT ![c] = NoChild],
         lock' = IF lock = c THEN Nobody ELSE lock,
         journal' \in [Kinds -> Seq(Lines)], Forward(c), failures' \in 0..MaxFailures,
         UNCHANGED <<sequence, attempt, saved, observed>>
  PROVE  CaptureInv'
<1>0. TypeInv /\ WriteInv
  BY DEF CaptureInv
<1>1. /\ child' \in [Companies -> Children] /\ child'[c] = NoChild
      /\ \A d \in Companies : d # c => child'[d] = child[d]
  BY <1>0, NoChildIs, ChildMoved
<1>2. Others(c) /\ ~Writes(c)' /\ \A d \in Companies : d # c => (Writes(d)' <=> Writes(d))
  BY <1>1, NoChildIs DEF Others, Writes
<1>3. ScopeAt(c)'
  BY <1>1, NoChildIs, ScopeEmpty
<1>4. HeldInv' /\ ScopeInv' /\ SavedInv'
  BY <1>0, <1>2, <1>3, QuietKept
<1>5. WriteInv'
  <2> SUFFICES ASSUME NEW d \in Companies, Writes(d)'
               PROVE  /\ lock' = d /\ child'[d] = child[d] /\ Writes(d)
    BY <1>0 DEF WriteInv
  <2> QED BY <1>0, <1>1, <1>2 DEF WriteInv
<1>6. TypeInv'
  BY <1>0, <1>1 DEF TypeInv
<1> QED BY <1>4, <1>5, <1>6 DEF CaptureInv

LEMMA AbortKeeps ==
  ASSUME CaptureInv, NEW c \in Companies, AbortStage(c)
  PROVE  CaptureInv'
<1>0. /\ TypeInv /\ WriteInv /\ child[c].pc = "running"
      /\ child' = [child EXCEPT ![c] = NoChild] /\ failures' = failures + 1
      /\ failures < MaxFailures
      /\ UNCHANGED <<journal, sequence, lock, attempt, saved, observed>>
  BY DEF CaptureInv, AbortStage, store
<1>1. failures' \in 0..MaxFailures
  BY <1>0, CaptureAssumption DEF TypeInv
<1>2. ~Writes(c)
  BY <1>0 DEF Writes
<1>3. /\ child' \in [Companies -> Children] /\ child'[c] = NoChild
      /\ \A d \in Companies : d # c => child'[d] = child[d]
  BY <1>0, NoChildIs, ChildMoved
<1>4. Forward(c)
  BY <1>0, <1>3, NoChildIs, SameUsed, SameForward
<1>5. Others(c)
  BY <1>0, <1>3 DEF Others
<1>6. HeldInv' /\ ScopeInv' /\ SavedInv'
  BY <1>0, <1>3, <1>4, <1>5, NoChildIs, ScopeEmpty, QuietKept
<1>7. WriteInv'
  BY <1>0, <1>2, <1>3, <1>5, NoChildIs, WritesKept DEF Writes
<1>8. TypeInv'
  BY <1>0, <1>1, <1>3 DEF TypeInv
<1> QED BY <1>6, <1>7, <1>8 DEF CaptureInv

LEMMA KillKeeps ==
  ASSUME CaptureInv, NEW c \in Companies, Kill(c)
  PROVE  CaptureInv'
<1>0. /\ TypeInv /\ WriteInv /\ Writes(c)
      /\ child' = [child EXCEPT ![c] = NoChild] /\ failures' \in 0..MaxFailures
      /\ lock' = IF lock = c THEN Nobody ELSE lock
      /\ UNCHANGED <<sequence, attempt, saved, observed>>
  <2>1. failures \in 0..MaxFailures /\ failures < MaxFailures /\ failures' = failures + 1
    BY DEF CaptureInv, TypeInv, Kill
  <2>2. failures' \in 0..MaxFailures
    BY <2>1, CaptureAssumption
  <2> QED BY <2>2 DEF CaptureInv, Kill, Writes
<1>1. /\ child' \in [Companies -> Children] /\ child'[c] = NoChild
      /\ \A d \in Companies : d # c => child'[d] = child[d]
  BY <1>0, NoChildIs, ChildMoved
<1>2. \A d \in Companies : ~Writes(d)'
  BY <1>0, <1>1, NoChildIs DEF Writes, WriteInv
<1>3. \A n : Used(n) => Used(n)'
  BY <1>0, <1>2 DEF Used, Writes
<1>4. journal' \in [Kinds -> Seq(Lines)] /\ Forward(c)
  <2>1. CASE journal' = journal
    BY <1>0, <1>3, <2>1, SameForward DEF TypeInv
  <2>2. CASE journal' # journal
    <3>1. PICK r : r = PendingRecord(c)
      OBVIOUS
    <3>2. child[c].pc = "numbered"
      BY <2>2 DEF Kill
    <3>3. /\ r \in Records /\ r.kind \in Kinds /\ r.scope.company = c
          /\ r.sequence = sequence /\ Line("record", r, FALSE) \in Lines
          /\ \A n \in 0..MaxSequence : Used(n) => n < r.sequence
      BY <3>1, <3>2, PendingIs
    <3>4. PICK cut \in {Line("torn", NoRecord, FALSE), Line("record", r, FALSE)} :
             journal' = [journal EXCEPT ![r.kind] = Written(@, cut)]
      BY <2>2, <3>1 DEF Kill
    <3>5. cut \in Lines /\ (cut.text = "record" => cut.record = r)
      <4>1. CASE cut = Line("torn", NoRecord, FALSE)
        BY <4>1, LinesHave DEF Line
      <4>2. CASE cut = Line("record", r, FALSE)
        BY <3>3, <4>2 DEF Line
      <4> QED BY <3>4, <4>1, <4>2
    <3>6. /\ journal' \in [Kinds -> Seq(Lines)]
          /\ AllClean' => /\ AllClean
                          /\ Held' = Held \cup {x \in {cut.record} : cut.text = "record"}
      BY <1>0, <3>3, <3>4, <3>5, JournalWritten
    <3>7. AllClean' => AllClean /\ Held \subseteq Held' /\ \A x \in Held' : x \in Held \/ x = r
      BY <3>5, <3>6
    <3>8. Used(r.sequence)'
      BY <1>0, <1>2, <3>3 DEF Used, Writes, TypeInv
    <3> QED BY <1>3, <3>3, <3>6, <3>7, <3>8 DEF Forward
  <2> QED BY <2>1, <2>2
<1> QED BY <1>0, <1>4, DroppedKeeps

-----------------------------------------------------------------------------
(* A frozen scope                                                          *)

(* Records numbered 1..n in the order of their sequence.                   *)
Numbered(S, n) ==
    /\ n \in Nat /\ S \subseteq Records
    /\ {r.ordinal : r \in S} = 1..n
    /\ \A r, q \in S : /\ r.ordinal < q.ordinal => r.sequence < q.sequence
                       /\ r.ordinal = q.ordinal => r = q

LEMMA ByOrdinalIs ==
  ASSUME NEW S, NEW n, Numbered(S, n)
  PROVE  /\ Cardinality(S) = n
         /\ ByOrdinal(S) \in [1..n -> Records]
         /\ \A i \in 1..n : ByOrdinal(S)[i] \in S /\ ByOrdinal(S)[i].ordinal = i
         /\ \A r \in S : r.ordinal \in 1..n /\ ByOrdinal(S)[r.ordinal] = r
<1> DEFINE f == [i \in 1..n |-> CHOOSE r \in S : r.ordinal = i]
<1>1. \A i \in 1..n : \E r \in S : r.ordinal = i
  BY DEF Numbered
<1>2. \A i \in 1..n : f[i] \in S /\ f[i].ordinal = i
  BY <1>1
<1>3. \A r \in S : r.ordinal \in 1..n
  BY DEF Numbered
<1>4. f \in [1..n -> S]
  BY <1>2
<1> HIDE DEF f
<1>5. \A r \in S : f[r.ordinal] = r
  BY <1>2, <1>3 DEF Numbered
<1>6. f \in Injection(1..n, S)
  BY <1>2, <1>4 DEF Injection, IsInjective
<1>7. f \in Surjection(1..n, S)
  BY <1>3, <1>4, <1>5 DEF Surjection
<1>8. Cardinality(S) = n
  BY <1>6, <1>7, FS_CountingElements DEF Numbered, ExistsBijection, Bijection
<1>9. ByOrdinal(S) = f
  BY <1>8 DEF ByOrdinal, f
<1>10. f \in [1..n -> Records]
  BY <1>4 DEF Numbered
<1> QED BY <1>2, <1>3, <1>5, <1>8, <1>9, <1>10

(* The bounds are the first and the last record's.                         *)
LEMMA BoundsAre ==
  ASSUME NEW S, NEW n, Numbered(S, n), NEW tape, tape = ByOrdinal(S)
  PROVE  /\ n = 0 => Least(Bounds(S)) = 0 /\ Greatest(Bounds(S)) = 0
         /\ n > 0 => /\ Least(Bounds(S)) = tape[1].sequence
                     /\ Greatest(Bounds(S)) = tape[n].sequence
<1>1. /\ tape \in [1..n -> Records]
      /\ \A i \in 1..n : tape[i] \in S /\ tape[i].ordinal = i
      /\ \A r \in S : r.ordinal \in 1..n /\ tape[r.ordinal] = r
      /\ n \in Nat
  <2>1. n \in Nat
    BY DEF Numbered
  <2> QED BY <2>1, ByOrdinalIs
<1>2. Bounds(S) \subseteq Nat
  BY DEF Bounds, Numbered, Records
<1>3. CASE n = 0
  <2>1. S = {}
    BY <1>1, <1>3
  <2> QED BY <1>3, <2>1 DEF Bounds, Least, Greatest
<1>4. CASE n > 0
  <2>1. 1 \in 1..n /\ n \in 1..n
    BY <1>1, <1>4
  <2>2. \A i, k \in 1..n : i < k => tape[i].sequence < tape[k].sequence
    BY <1>1 DEF Numbered
  <2>3. \A i \in 1..n : tape[i].sequence \in Nat
    BY <1>1 DEF Records
  <2>4. \A m \in Bounds(S) : tape[1].sequence <= m /\ m <= tape[n].sequence
    <3> SUFFICES ASSUME NEW r \in S
                 PROVE  tape[1].sequence <= r.sequence /\ r.sequence <= tape[n].sequence
      BY DEF Bounds
    <3>1. PICK i \in 1..n : r = tape[i]
      BY <1>1
    <3>2. i = 1 \/ 1 < i
      BY <1>1, <3>1
    <3>3. i = n \/ i < n
      BY <1>1, <3>1
    <3> QED BY <2>1, <2>2, <2>3, <3>1, <3>2, <3>3
  <2>5. tape[1].sequence \in Bounds(S) /\ tape[n].sequence \in Bounds(S)
    BY <1>1, <2>1 DEF Bounds
  <2>6. \A m \in Bounds(S) :
           /\ (\A x \in Bounds(S) : m <= x) => m = tape[1].sequence
           /\ (\A x \in Bounds(S) : m >= x) => m = tape[n].sequence
    BY <1>2, <2>3, <2>4, <2>5
  <2>7. Least(Bounds(S)) = tape[1].sequence
    BY <1>2, <2>4, <2>5, <2>6 DEF Least
  <2>8. Greatest(Bounds(S)) = tape[n].sequence
    BY <1>2, <2>4, <2>5, <2>6 DEF Greatest
  <2> QED BY <1>4, <2>7, <2>8
<1> QED BY <1>1, <1>3, <1>4

(* What a stage that returns makes of its scope.                           *)
LEMMA FreezeIs ==
  ASSUME CaptureInv, NEW c \in Companies, child[c].pc = "running", Terminated(c),
         NEW ref, ref = FrozenScope(c), NEW tape, tape = ByOrdinal(child[c].terminal)
  PROVE  /\ ref \in ScopeRefs /\ tape \in Tapes
         /\ Frozen(ref, tape) /\ Used(ref.last) /\ (AllClean => Kept(ref, tape))
<1> DEFINE S == child[c].terminal
           n == child[c].next - 1
<1>0. TypeInv /\ WriteInv /\ ScopeAt(c) /\ child[c] \in Children
  BY DEF CaptureInv, ScopeInv, TypeInv
<1>1. n \in 0..MaxRequests
  BY <1>0, CaptureAssumption DEF Children
<1>2. Numbered(S, n)
  <2>1. n \in Nat
    BY <1>1, CaptureAssumption
  <2>2. S \subseteq Records /\ {r.ordinal : r \in S} = 1..n
    BY <1>0 DEF Children, Terminated
  <2> QED BY <1>0, <2>1, <2>2 DEF ScopeAt, Numbered
<1>3. \A r \in S : /\ r \in Records /\ r.scope = ActiveScope(c) /\ Used(r.sequence)
                   /\ AllClean => r \in Held
  BY <1>0 DEF ScopeAt, Children
<1>4. AllClean => \A r \in Held, q \in S :
         r.scope = ActiveScope(c) /\ r \notin S => r.sequence < q.sequence
  BY <1>0 DEF ScopeAt
<1>5. ActiveScope(c) \in Scopes
  <2>1. attempt[c] \in 1..MaxAttempts /\ child[c].stage \in Stages
    BY <1>0, CaptureAssumption DEF ScopeAt, TypeInv, Children
  <2> QED BY <2>1 DEF ActiveScope, Scopes
<1>6. /\ n \in Nat /\ Cardinality(S) = n /\ tape \in [1..n -> Records]
      /\ \A i \in 1..n : tape[i] \in S /\ tape[i].ordinal = i
      /\ \A r \in S : r.ordinal \in 1..n /\ tape[r.ordinal] = r
  <2>1. n \in Nat
    BY <1>2 DEF Numbered
  <2> HIDE DEF S, n
  <2> QED BY <1>2, <2>1, ByOrdinalIs DEF S
<1>7. /\ n = 0 => Least(Bounds(S)) = 0 /\ Greatest(Bounds(S)) = 0
      /\ n > 0 => /\ Least(Bounds(S)) = tape[1].sequence
                  /\ Greatest(Bounds(S)) = tape[n].sequence
  <2> HIDE DEF n
  <2> QED BY <1>2, BoundsAre
<1>8. /\ ref.scope = ActiveScope(c) /\ ref.count = n
      /\ ref.first = Least(Bounds(S)) /\ ref.last = Greatest(Bounds(S))
      /\ ref.digest = [i \in 1..n |-> <<tape[i].request, tape[i].kind>>]
      /\ ref = [scope |-> ref.scope, count |-> ref.count, first |-> ref.first,
                last |-> ref.last, digest |-> ref.digest]
  BY <1>6 DEF FrozenScope
<1>9. \A i, k \in 1..n : i < k => tape[i].sequence < tape[k].sequence
  BY <1>2, <1>6 DEF Numbered
<1> HIDE DEF S, n
<1>10. \A i \in 1..n : /\ tape[i] \in Records /\ tape[i].sequence \in 1..MaxSequence
                       /\ tape[i].request \in Requests /\ tape[i].kind \in Kinds
  BY <1>6 DEF Records
<1>11. tape \in Tapes
  BY <1>1, <1>6 DEF Tapes
<1>12. ref.first \in 0..MaxSequence /\ ref.last \in 0..MaxSequence
  <2>1. CASE n = 0
    BY <1>7, <1>8, <2>1, CaptureAssumption
  <2>2. CASE n > 0
    <3>1. 1 \in 1..n /\ n \in 1..n
      BY <1>6, <2>2
    <3> QED BY <1>7, <1>8, <1>10, <2>2, <3>1
  <2> QED BY <1>6, <2>1, <2>2
<1>13. ref \in ScopeRefs
  <2>1. ref.digest \in [1..n -> Requests \X Kinds]
    BY <1>8, <1>10
  <2>2. ref.digest \in UNION {[1..m -> Requests \X Kinds] : m \in 0..MaxRequests}
    BY <1>1, <2>1
  <2> QED BY <1>1, <1>5, <1>8, <1>12, <2>2 DEF ScopeRefs
<1>14. Frozen(ref, tape)
  <2>1. \A i \in 1..n : /\ tape[i].ordinal = i /\ tape[i].scope = ref.scope
                        /\ ref.digest[i] = <<tape[i].request, tape[i].kind>>
    BY <1>3, <1>6, <1>8
  <2> QED BY <1>6, <1>7, <1>8, <1>9, <2>1 DEF Frozen
<1>15. Used(ref.last)
  <2>1. CASE n = 0
    <3>1. sequence \in Nat /\ \A d \in Companies : child[d].number \in Nat
      BY <1>0, CaptureAssumption DEF TypeInv, Children
    <3>2. \A d \in Companies : child[d].pc = "numbered" => 0 < child[d].number
      BY <1>0, <3>1 DEF WriteInv, Writes
    <3> QED BY <1>7, <1>8, <2>1, <3>1, <3>2 DEF Used
  <2>2. CASE n > 0
    <3>1. n \in 1..n
      BY <1>6, <2>2
    <3> QED BY <1>3, <1>6, <1>7, <1>8, <2>2, <3>1
  <2> QED BY <1>6, <2>1, <2>2
<1>16. ASSUME AllClean PROVE Kept(ref, tape)
  <2>1. \A i \in 1..n : tape[i] \in Held
    BY <1>3, <1>6, <1>16
  <2>2. ASSUME NEW r \in Held, r.scope = ref.scope,
               ref.first <= r.sequence, r.sequence <= ref.last
        PROVE  \E i \in 1..n : r = tape[i]
    <3>1. r.sequence \in 1..MaxSequence
      BY <1>0, <2>2, HeldAre DEF Records
    <3>2. n # 0
      BY <1>7, <1>8, <2>2, <3>1
    <3>3. 1 \in 1..n /\ n > 0
      BY <1>6, <3>2
    <3>4. r \in S
      <4>1. tape[1] \in S /\ tape[1].sequence \in Nat /\ ref.first = tape[1].sequence
        BY <1>6, <1>7, <1>8, <1>10, <3>3
      <4>2. r \notin S => r.sequence < tape[1].sequence
        BY <1>4, <1>8, <1>16, <2>2, <4>1
      <4> QED BY <2>2, <3>1, <4>1, <4>2
    <3> QED BY <1>6, <3>4
  <2> QED BY <1>8, <2>1, <2>2 DEF Kept
<1> QED BY <1>11, <1>13, <1>14, <1>15, <1>16

LEMMA FinishKeeps ==
  ASSUME CaptureInv, NEW c \in Companies, NEW returns \in BOOLEAN, FinishStage(c, returns)
  PROVE  CaptureInv'
<1>0. /\ TypeInv /\ WriteInv /\ ScopeAt(c) /\ SavedInv
      /\ child[c].pc = "running" /\ Terminated(c) /\ child[c].stage \in Stages
      /\ UNCHANGED <<journal, sequence, lock, attempt, failures>>
  BY DEF CaptureInv, ScopeInv, FinishStage, store, TypeInv, Children
<1>1. PICK s \in Stages : s = child[c].stage
  BY <1>0
<1>2. PICK ref : ref = FrozenScope(c)
  OBVIOUS
<1>3. PICK tape : tape = ByOrdinal(child[c].terminal)
  OBVIOUS
<1>4. /\ saved' = [saved EXCEPT ![c][s] = ref]
      /\ observed' = [observed EXCEPT ![c][s] = tape]
      /\ child' = [child EXCEPT ![c] = IF returns THEN NoChild ELSE Begun(s + 1)]
      /\ s = LastStage => returns
  BY <1>1, <1>2, <1>3 DEF FinishStage
<1>5. /\ ref \in ScopeRefs /\ tape \in Tapes
      /\ Frozen(ref, tape) /\ Used(ref.last) /\ (AllClean => Kept(ref, tape))
  BY <1>0, <1>2, <1>3, FreezeIs
<1>6. PICK new \in Children : /\ child' = [child EXCEPT ![c] = new]
                              /\ new.pc # "numbered" /\ new.pc # "locked"
                              /\ new.terminal = {}
  <2>1. CASE returns
    BY <1>4, <2>1, NoChildIs
  <2>2. CASE ~returns
    <3>1. s + 1 \in Stages
      BY <1>1, <1>4, <2>2, CaptureAssumption DEF Stages
    <3> QED BY <1>4, <2>2, <3>1, NoChildIs
  <2> QED BY <2>1, <2>2
<1>7. /\ child' \in [Companies -> Children] /\ child'[c] = new
      /\ \A d \in Companies : d # c => child'[d] = child[d]
  BY <1>0, <1>6, ChildMoved
<1>8. Others(c)
  BY <1>0, <1>7 DEF Others
<1>9. Forward(c)
  <2>1. \A d \in Companies : child'[d].pc = "numbered"
           => child[d].pc = "numbered" /\ child'[d].number = child[d].number
    BY <1>6, <1>7
  <2> QED BY <1>0, <2>1, SameUsed, SameForward
<1>10. HeldInv'
  BY <1>0, <1>9, HeldKept DEF CaptureInv
<1>11. ScopeInv'
  <2>1. ScopeAt(c)'
    <3>1. attempt'[c] >= 1 /\ child'[c].terminal = {}
      BY <1>0, <1>6, <1>7 DEF ScopeAt
    <3> QED BY <3>1, ScopeEmpty
  <2> QED BY <1>0, <1>8, <1>9, <2>1, ScopeKept DEF ScopeInv, CaptureInv
<1>12. WriteInv'
  BY <1>0, <1>6, <1>7, <1>8, WritesKept DEF Writes
<1>13. /\ saved' \in [Companies -> [Stages -> ScopeRefs \cup {Unsaved}]]
       /\ observed' \in [Companies -> [Stages -> Tapes]]
       /\ saved'[c][s] = ref /\ observed'[c][s] = tape
       /\ \A d \in Companies, r \in Stages : d # c \/ r # s =>
             saved'[d][r] = saved[d][r] /\ observed'[d][r] = observed[d][r]
  BY <1>0, <1>4, <1>5 DEF TypeInv
<1>14. SavedInv'
  <2> SUFFICES ASSUME NEW d \in Companies, NEW r \in Stages PROVE SavedAt(d, r)'
    BY DEF SavedInv
  <2>1. CASE d # c \/ r # s
    BY <1>0, <1>9, <1>13, <2>1, SavedKept DEF SavedInv
  <2>2. CASE d = c /\ r = s
    <3>1. Frozen(saved[d][r], observed[d][r])'
      BY <1>5, <1>13, <2>2
    <3>2. Used(saved[d][r].last)'
      <4>1. Used(ref.last)'
        BY <1>5, <1>9 DEF Forward, ScopeRefs
      <4> QED BY <1>13, <2>2, <4>1 DEF Used
    <3>3. AllClean' => Kept(saved[d][r], observed[d][r])'
      <4>1. AllClean' => Kept(ref, tape) /\ Held' = Held
        BY <1>0, <1>5, JournalSame
      <4> QED BY <1>13, <2>2, <4>1 DEF Kept
    <3> QED BY <3>1, <3>2, <3>3 DEF SavedAt
  <2> QED BY <2>1, <2>2
<1>15. TypeInv'
  BY <1>0, <1>7, <1>13 DEF TypeInv
<1> QED BY <1>10, <1>11, <1>12, <1>14, <1>15 DEF CaptureInv

(* A frozen scope that is kept is loaded, and as it was.                   *)
LEMMA LoadsBack ==
  ASSUME TypeInv, NEW ref \in ScopeRefs, NEW tape, Frozen(ref, tape), Kept(ref, tape)
  PROVE  /\ Agrees(ref, InScope(ref)) /\ Tape(ref) = tape
<1> DEFINE S == InScope(ref)
           n == ref.count
<1>1. n \in Nat /\ tape \in [1..n -> Records]
  BY DEF Frozen
<1>2. \A i \in 1..n : /\ tape[i].ordinal = i /\ tape[i].scope = ref.scope
                      /\ ref.digest[i] = <<tape[i].request, tape[i].kind>>
                      /\ tape[i] \in Held
  BY DEF Frozen, Kept
<1>3. \A i, k \in 1..n : i < k => tape[i].sequence < tape[k].sequence
  BY DEF Frozen
<1>4. \A i \in 1..n : ref.first <= tape[i].sequence /\ tape[i].sequence <= ref.last
  <2> SUFFICES ASSUME NEW i \in 1..n
               PROVE  ref.first <= tape[i].sequence /\ tape[i].sequence <= ref.last
    OBVIOUS
  <2>1. 1 \in 1..n /\ n \in 1..n /\ n > 0 /\ (i = 1 \/ 1 < i) /\ (i = n \/ i < n)
    BY <1>1
  <2>2. ref.first = tape[1].sequence /\ ref.last = tape[n].sequence
    BY <2>1 DEF Frozen
  <2>3. /\ tape[1].sequence \in Nat /\ tape[n].sequence \in Nat
        /\ tape[i].sequence \in Nat
    BY <1>1, <2>1 DEF Records
  <2> QED BY <1>3, <2>1, <2>2, <2>3
<1>5. \A r : r \in S <=> \E i \in 1..n : r = tape[i]
  <2>1. ASSUME NEW i \in 1..n PROVE tape[i] \in S
    <3>1. n > 0
      BY <1>1, <2>1
    <3> QED BY <1>2, <1>4, <2>1, <3>1 DEF InScope, Held
  <2>2. ASSUME NEW r \in S PROVE \E i \in 1..n : r = tape[i]
    BY <2>2 DEF InScope, Kept, Held
  <2> QED BY <2>1, <2>2
<1> HIDE DEF S
<1>6. Numbered(S, n)
  <2>1. S \subseteq Records
    BY <1>1, <1>5
  <2>2. {r.ordinal : r \in S} = 1..n
    BY <1>2, <1>5
  <2>3. ASSUME NEW r \in S, NEW q \in S
        PROVE  /\ r.ordinal < q.ordinal => r.sequence < q.sequence
               /\ r.ordinal = q.ordinal => r = q
    <3>1. PICK i \in 1..n, k \in 1..n : r = tape[i] /\ q = tape[k]
      BY <1>5
    <3> QED BY <1>2, <1>3, <3>1
  <2> QED BY <1>1, <2>1, <2>2, <2>3 DEF Numbered
<1> HIDE DEF n
<1>7. PICK found : found = ByOrdinal(S)
  OBVIOUS
<1>8. /\ Cardinality(S) = n /\ found \in [1..n -> Records]
      /\ \A i \in 1..n : found[i] \in S /\ found[i].ordinal = i
  BY <1>6, <1>7, ByOrdinalIs
<1>9. found = tape
  <2>1. ASSUME NEW i \in 1..n PROVE found[i] = tape[i]
    <3>1. PICK k \in 1..n : found[i] = tape[k]
      BY <1>5, <1>8
    <3> QED BY <1>2, <1>8, <3>1
  <2> QED BY <1>1, <1>8, <2>1
<1>10. Least(Bounds(S)) = ref.first /\ Greatest(Bounds(S)) = ref.last
  <2>1. /\ n = 0 => Least(Bounds(S)) = 0 /\ Greatest(Bounds(S)) = 0
        /\ n > 0 => /\ Least(Bounds(S)) = tape[1].sequence
                    /\ Greatest(Bounds(S)) = tape[n].sequence
    BY <1>6, <1>7, <1>9, BoundsAre
  <2> QED BY <1>1, <2>1 DEF Frozen, n
<1>11. \A r \in S : ref.digest[r.ordinal] = <<r.request, r.kind>>
  BY <1>2, <1>5
<1>12. {r.ordinal : r \in S} = 1..n
  BY <1>6 DEF Numbered
<1> QED BY <1>7, <1>8, <1>9, <1>10, <1>11, <1>12 DEF Agrees, Tape, S, n

-----------------------------------------------------------------------------
(* The replay                                                              *)

(* The natural numbers are well ordered.                                   *)
LEMMA LeastNat ==
  ASSUME NEW T, T \subseteq Nat, T # {}
  PROVE  \E x \in T : \A y \in T : x <= y
<1> DEFINE R == OpToRel(<, Nat)
<1>1. IsWellFoundedOn(R, Nat)
  BY NatLessThanWellFounded
<1>2. R = {w \in Nat \X Nat : w[1] < w[2]}
  BY DEF OpToRel
<1> HIDE DEF R
<1>3. PICK x \in T : \A y \in T : ~(<<y, x>> \in R)
  BY <1>1, WFMin
<1>4. \A y \in T : x <= y
  <2> SUFFICES ASSUME NEW y \in T PROVE x <= y
    OBVIOUS
  <2>1. x \in Nat /\ y \in Nat /\ ~(<<y, x>> \in R)
    BY <1>3
  <2>2. ~(y < x)
    BY <1>2, <2>1
  <2> QED BY <2>1, <2>2
<1> QED BY <1>4

(* The first place of an identity that is not handed out yet.              *)
LEMMA LeastIs ==
  ASSUME NEW T, T \subseteq Nat, T # {}
  PROVE  Least(T) \in T /\ \A y \in T : Least(T) <= y
<1>1. \E x \in T : \A y \in T : x <= y
  BY LeastNat
<1> QED BY <1>1 DEF Least

LEMMA NothingHanded ==
  ASSUME NEW tape, NEW handed, handed = <<>>
  PROVE  Handed(tape, {}, handed) /\ handed \in Seq(Records)
  BY DEF Handed

(* Another outcome of a tape: the first of its identity that is left.      *)
LEMMA OneMore ==
  ASSUME NEW tape, IsTape(tape), NEW consumed, NEW handed, handed \in Seq(Records),
         Handed(tape, consumed, handed),
         NEW i \in DOMAIN tape, i \notin consumed,
         \A m \in DOMAIN tape : tape[m].request = tape[i].request /\ m \notin consumed
            => i <= m
  PROVE  /\ Handed(tape, consumed \cup {i}, Append(handed, tape[i]))
         /\ Append(handed, tape[i]) \in Seq(Records)
<1>1. PICK n \in Nat : tape \in [1..n -> Records] /\ \A k \in 1..n : tape[k].ordinal = k
  BY DEF IsTape
<1>2. PICK h \in Nat : h = Len(handed) /\ DOMAIN handed = 1..h
  OBVIOUS
<1>3. PICK new : new = Append(handed, tape[i])
  OBVIOUS
<1>4. /\ new \in Seq(Records) /\ DOMAIN new = 1..(h + 1) /\ new[h + 1] = tape[i]
      /\ \A k \in 1..h : new[k] = handed[k]
  BY <1>1, <1>2, <1>3
<1>5. /\ consumed \subseteq 1..n /\ {handed[k] : k \in 1..h} = {tape[m] : m \in consumed}
      /\ \A m \in consumed, k \in 1..n :
            k < m /\ tape[k].request = tape[m].request => k \in consumed
      /\ \A j, k \in 1..h, m, l \in 1..n :
            (/\ j < k /\ handed[j] = tape[m] /\ handed[k] = tape[l]
             /\ tape[m].request = tape[l].request) => m < l
  BY <1>1, <1>2 DEF Handed
<1>6. consumed \cup {i} \subseteq DOMAIN tape
  BY <1>1, <1>5
<1>7. {new[k] : k \in DOMAIN new} = {tape[m] : m \in consumed \cup {i}}
  <2>1. \A k : k \in 1..(h + 1) <=> k \in 1..h \/ k = h + 1
    BY <1>2
  <2>2. \A k \in 1..h : \E m \in consumed : handed[k] = tape[m]
    BY <1>5
  <2>3. \A m \in consumed : \E k \in 1..h : handed[k] = tape[m]
    <3> SUFFICES ASSUME NEW m \in consumed PROVE \E k \in 1..h : handed[k] = tape[m]
      OBVIOUS
    <3>1. tape[m] \in {handed[k] : k \in 1..h}
      BY <1>5
    <3> QED BY <3>1
  <2>4. \A k \in DOMAIN new : \E m \in consumed \cup {i} : new[k] = tape[m]
    BY <1>4, <2>1, <2>2
  <2>5. \A m \in consumed \cup {i} : \E k \in DOMAIN new : new[k] = tape[m]
    <3>1. \A m \in consumed : \E k \in 1..h : new[k] = tape[m] /\ k \in DOMAIN new
      BY <1>4, <2>1, <2>3
    <3>2. h + 1 \in DOMAIN new
      BY <1>4, <2>1
    <3> QED BY <1>4, <3>1, <3>2
  <2> QED BY <2>4, <2>5
<1>8. ASSUME NEW m \in consumed \cup {i}, NEW k \in DOMAIN tape,
             k < m, tape[k].request = tape[m].request
      PROVE  k \in consumed \cup {i}
  <2>1. CASE m \in consumed
    BY <1>1, <1>5, <1>8, <2>1
  <2>2. CASE m = i
    <3>1. k \in Nat /\ i \in Nat
      BY <1>1, <1>8
    <3> QED BY <1>8, <2>2, <3>1
  <2> QED BY <1>8, <2>1, <2>2
<1>9. ASSUME NEW j \in DOMAIN new, NEW k \in DOMAIN new,
             NEW m \in DOMAIN tape, NEW l \in DOMAIN tape,
             j < k, new[j] = tape[m], new[k] = tape[l],
             tape[m].request = tape[l].request
      PROVE  m < l
  <2>1. /\ j \in 1..h /\ k \in 1..(h + 1) /\ m \in 1..n /\ l \in 1..n /\ i \in 1..n
        /\ (k \in 1..h \/ k = h + 1)
    BY <1>1, <1>2, <1>4, <1>9
  <2>2. CASE k \in 1..h
    BY <1>4, <1>5, <1>9, <2>1, <2>2
  <2>3. CASE k = h + 1
    <3>1. l = i
      BY <1>1, <1>4, <1>9, <2>1, <2>3
    <3>2. m \in consumed
      <4>1. PICK x \in consumed : handed[j] = tape[x]
        BY <1>5, <2>1
      <4>2. x \in 1..n /\ tape[x] = tape[m]
        BY <1>4, <1>5, <1>9, <2>1, <4>1
      <4> QED BY <1>1, <2>1, <4>1, <4>2
    <3>3. ~(i < m)
      BY <1>5, <1>9, <2>1, <3>1, <3>2
    <3> QED BY <2>1, <3>1, <3>2, <3>3
  <2> QED BY <2>1, <2>2, <2>3
<1>10. Handed(tape, consumed \cup {i}, new)
  BY <1>6, <1>7, <1>8, <1>9 DEF Handed
<1> QED BY <1>3, <1>4, <1>10

(* Journals that can be read have no joined lines.                         *)
LEMMA ReadableIsClean ==
  ASSUME TypeInv, \A k \in Kinds : Readable(k)
  PROVE  AllClean
<1> SUFFICES ASSUME NEW k \in Kinds PROVE Clean(journal[k])
  BY DEF AllClean
<1>1. journal[k] \in Seq(Lines) /\ DOMAIN journal[k] = 1..Len(journal[k])
  BY DEF TypeInv
<1> QED BY <1>1 DEF Readable, Clean

LEMMA SavedLoads ==
  ASSUME CaptureInv, \A k \in Kinds : Readable(k),
         NEW c \in Companies, NEW s \in Stages, saved[c][s] # Unsaved
  PROVE  Loads(saved[c][s]) /\ Tape(saved[c][s]) = observed[c][s]
<1>1. TypeInv /\ SavedAt(c, s) /\ AllClean
  BY ReadableIsClean DEF CaptureInv, SavedInv
<1>2. saved[c][s] \in ScopeRefs
  BY <1>1 DEF TypeInv
<1>3. Frozen(saved[c][s], observed[c][s]) /\ Kept(saved[c][s], observed[c][s])
  BY <1>1 DEF SavedAt
<1> QED BY <1>1, <1>2, <1>3, LoadsBack DEF Loads

LEMMA LoadKeeps ==
  ASSUME CaptureInv, ReplayInv, NEW c \in Companies, LoadTapes(c)
  PROVE  ReplayInv'
<1> DEFINE stages == Recorded(c)
           tapes == [s \in stages |-> Tape(saved[c][s])]
           none == [s \in stages |-> <<>>]
           seen == [s \in stages |-> observed[c][s]]
           ready == [NoReplay EXCEPT !.phase = "ready", !.company = c, !.tapes = tapes,
                                     !.handed = none, !.expected = seen]
<1>1. /\ replay.phase = "none" /\ stages # {} /\ DOMAIN replay = DOMAIN NoReplay
      /\ replay' = IF \A s \in stages : Loads(saved[c][s])
                   THEN ready ELSE [replay EXCEPT !.phase = "refused"]
  BY DEF LoadTapes, ReplayInv
<1>2. stages \subseteq Stages /\ \A s \in stages : saved[c][s] # Unsaved
  <2>1. \A s \in Stages : s \in 1..s
    BY CaptureAssumption DEF Stages
  <2> QED BY <2>1 DEF Recorded
<1>3. \A s \in stages : \A q \in 1..s : q \in stages
  <2> SUFFICES ASSUME NEW s \in stages, NEW q \in 1..s PROVE q \in stages
    OBVIOUS
  <2>1. s \in Stages /\ \A r \in 1..s : saved[c][r] # Unsaved
    BY DEF Recorded
  <2>2. q \in Stages /\ \A r \in 1..q : r \in 1..s
    BY <2>1, CaptureAssumption DEF Stages
  <2> QED BY <2>1, <2>2 DEF Recorded
<1>4. CASE ~\A s \in stages : Loads(saved[c][s])
  <2>1. replay' = [replay EXCEPT !.phase = "refused"]
    BY <1>1, <1>4
  <2>2. "phase" \in DOMAIN replay
    BY <1>1 DEF NoReplay
  <2>3. DOMAIN replay' = DOMAIN NoReplay /\ replay'.phase = "refused"
    BY <1>1, <2>1, <2>2
  <2> QED BY <2>3 DEF ReplayInv
<1>5. CASE \A s \in stages : Loads(saved[c][s])
  <2>1. \A k \in Kinds : Readable(k)
    BY <1>1, <1>5 DEF Loads
  <2>2. \A s \in stages : Tape(saved[c][s]) = observed[c][s]
    BY <1>2, <2>1, SavedLoads
  <2>3. tapes = seen
    BY <2>2
  <2>4. \A s \in stages : IsTape(seen[s])
    <3> SUFFICES ASSUME NEW s \in stages PROVE IsTape(observed[c][s])
      OBVIOUS
    <3>1. Frozen(saved[c][s], observed[c][s])
      BY <1>2 DEF CaptureInv, SavedInv, SavedAt
    <3> QED BY <3>1 DEF Frozen, IsTape
  <2>5. PICK new : new = replay'
    OBVIOUS
  <2>6. /\ DOMAIN new = DOMAIN NoReplay /\ new.phase = "ready" /\ new.stage = 1
        /\ new.tapes = tapes /\ new.handed = none /\ new.expected = seen
    BY <1>1, <1>5, <2>5 DEF NoReplay
  <2>7. DOMAIN new.tapes = stages /\ DOMAIN new.handed = stages
    BY <2>6
  <2> HIDE DEF stages
  <2>8. ASSUME NEW s \in stages PROVE StageAt(new, s)
    <3>1. new.tapes[s] = seen[s] /\ new.handed[s] = <<>> /\ IsTape(new.tapes[s])
      BY <2>3, <2>4, <2>6, <2>8
    <3>2. s \in Stages /\ ~(s < 1)
      BY <1>2, <2>8, CaptureAssumption DEF Stages
    <3>3. new.handed[s] \in Seq(Records)
      BY <3>1
    <3> QED BY <2>6, <3>1, <3>2, <3>3 DEF StageAt
  <2>9. ReplayAt(new)
    BY <1>2, <1>3, <2>3, <2>6, <2>7, <2>8 DEF ReplayAt
  <2> QED BY <2>5, <2>6, <2>9 DEF ReplayInv
<1> QED BY <1>4, <1>5

LEMMA BeginKeeps ==
  ASSUME ReplayInv, ReplayBegin
  PROVE  ReplayInv'
<1>1. PICK r, new : r = replay /\ new = replay'
  OBVIOUS
<1>2. /\ DOMAIN r = DOMAIN NoReplay /\ ReplayAt(r) /\ r.phase = "ready"
      /\ r.stage \in DOMAIN r.tapes
      /\ new = [r EXCEPT !.phase = "active", !.consumed = {}]
  BY <1>1 DEF ReplayInv, ReplayBegin
<1>3. /\ DOMAIN new = DOMAIN NoReplay /\ new.phase = "active" /\ new.consumed = {}
      /\ new.stage = r.stage /\ new.tapes = r.tapes /\ new.handed = r.handed
      /\ new.expected = r.expected
  BY <1>2 DEF NoReplay
<1>4. ASSUME NEW s \in DOMAIN r.tapes PROVE StageAt(new, s)
  <2>1. StageAt(r, s)
    BY <1>2, <1>4 DEF ReplayAt
  <2>2. s = r.stage => Handed(r.tapes[s], {}, r.handed[s])
    BY <1>2, <2>1, NothingHanded DEF StageAt
  <2> QED BY <1>2, <1>3, <2>1, <2>2 DEF StageAt
<1>5. ReplayAt(new)
  BY <1>2, <1>3, <1>4 DEF ReplayAt
<1> QED BY <1>1, <1>3, <1>5 DEF ReplayInv

LEMMA HandKeeps ==
  ASSUME ReplayInv, NEW u \in Requests, ReplayFetch(u)
  PROVE  ReplayInv'
<1>1. PICK r, new, T : r = replay /\ new = replay' /\ T = Matching(u)
  OBVIOUS
<1>2. PICK i : i = Least(T)
  OBVIOUS
<1>3. PICK s : s = r.stage
  OBVIOUS
<1> DEFINE after == Append(r.handed[s], r.tapes[s][i])
<1>4. /\ DOMAIN r = DOMAIN NoReplay /\ ReplayAt(r) /\ r.phase = "active" /\ T # {}
      /\ T = {m \in DOMAIN r.tapes[s] \ r.consumed : r.tapes[s][m].request = u}
      /\ new = [r EXCEPT !.consumed = @ \cup {i}, !.handed[s] = Append(@, r.tapes[s][i])]
  BY <1>1, <1>2, <1>3 DEF ReplayInv, ReplayFetch, Matching
<1>5. /\ s \in DOMAIN r.tapes /\ s \in DOMAIN r.handed /\ StageAt(r, s)
      /\ IsTape(r.tapes[s]) /\ r.handed[s] \in Seq(Records)
      /\ Handed(r.tapes[s], r.consumed, r.handed[s])
  BY <1>3, <1>4 DEF ReplayAt, StageAt
<1>6. /\ DOMAIN new = DOMAIN NoReplay /\ new.phase = "active"
      /\ new.consumed = r.consumed \cup {i} /\ new.stage = r.stage
      /\ new.tapes = r.tapes /\ new.expected = r.expected
      /\ new.handed = [r.handed EXCEPT ![s] = after]
  BY <1>4 DEF NoReplay
<1>7. /\ DOMAIN new.handed = DOMAIN r.handed /\ new.handed[s] = after
      /\ \A q \in DOMAIN r.handed : q # s => new.handed[q] = r.handed[q]
  BY <1>5, <1>6
<1>8. /\ i \in DOMAIN r.tapes[s] /\ i \notin r.consumed
      /\ \A m \in DOMAIN r.tapes[s] :
            r.tapes[s][m].request = r.tapes[s][i].request /\ m \notin r.consumed => i <= m
  <2>1. T \subseteq Nat
    BY <1>4, <1>5 DEF IsTape
  <2>2. i \in T /\ \A y \in T : i <= y
    BY <1>2, <1>4, <2>1, LeastIs
  <2> QED BY <1>4, <2>2
<1>9. Handed(r.tapes[s], r.consumed \cup {i}, after) /\ after \in Seq(Records)
  BY <1>5, <1>8, OneMore
<1> HIDE DEF after
<1>10. ASSUME NEW q \in DOMAIN r.tapes PROVE StageAt(new, q)
  <2>1. StageAt(r, q) /\ s \in Nat /\ q \in Nat /\ q \in DOMAIN r.handed
    BY <1>3, <1>4, <1>10 DEF ReplayAt, Stages
  <2>2. CASE q = s
    BY <1>3, <1>5, <1>6, <1>7, <1>9, <2>1, <2>2 DEF StageAt
  <2>3. CASE q # s
    BY <1>3, <1>4, <1>6, <1>7, <2>1, <2>3 DEF StageAt
  <2> QED BY <2>2, <2>3
<1>11. ReplayAt(new)
  BY <1>4, <1>6, <1>7, <1>10 DEF ReplayAt
<1> QED BY <1>1, <1>6, <1>11 DEF ReplayInv

LEMMA FinalizeKeeps ==
  ASSUME ReplayInv, ReplayFinalize
  PROVE  ReplayInv'
<1>1. PICK r, new : r = replay /\ new = replay'
  OBVIOUS
<1>2. /\ DOMAIN r = DOMAIN NoReplay /\ ReplayAt(r) /\ r.phase = "active"
      /\ new = IF r.consumed = DOMAIN r.tapes[r.stage]
               THEN [r EXCEPT !.phase = "ready", !.stage = @ + 1]
               ELSE [r EXCEPT !.phase = "diverged"]
  BY <1>1 DEF ReplayInv, ReplayFinalize
<1>3. CASE r.consumed # DOMAIN r.tapes[r.stage]
  <2>1. DOMAIN new = DOMAIN NoReplay /\ new.phase = "diverged"
    BY <1>2, <1>3 DEF NoReplay
  <2> QED BY <1>1, <2>1 DEF ReplayInv
<1>4. CASE r.consumed = DOMAIN r.tapes[r.stage]
  <2>1. /\ DOMAIN new = DOMAIN NoReplay /\ new.phase = "ready"
        /\ new.stage = r.stage + 1 /\ new.tapes = r.tapes /\ new.handed = r.handed
        /\ new.expected = r.expected
    BY <1>2, <1>4 DEF NoReplay
  <2>2. ASSUME NEW s \in DOMAIN r.tapes PROVE StageAt(new, s)
    <3>1. StageAt(r, s) /\ r.stage \in Nat /\ s \in Nat
      BY <1>2, <2>2 DEF ReplayAt, Stages
    <3>2. s = r.stage => Handed(r.tapes[s], DOMAIN r.tapes[s], r.handed[s])
      BY <1>2, <1>4, <3>1 DEF StageAt
    <3>3. CASE s < new.stage
      <4>1. s < r.stage \/ s = r.stage
        BY <2>1, <3>1, <3>3
      <4> QED BY <2>1, <3>1, <3>2, <3>3, <4>1 DEF StageAt
    <3>4. CASE ~(s < new.stage)
      <4>1. s > r.stage
        BY <2>1, <3>1, <3>4
      <4> QED BY <2>1, <3>1, <3>4, <4>1 DEF StageAt
    <3> QED BY <3>3, <3>4
  <2>3. ReplayAt(new)
    BY <1>2, <2>1, <2>2 DEF ReplayAt
  <2> QED BY <1>1, <2>1, <2>3 DEF ReplayInv
<1> QED BY <1>3, <1>4

LEMMA StopsKeep ==
  ASSUME ReplayInv, ReplayAbort \/ AllConsumed
  PROVE  ReplayInv'
<1>1. PICK r, new : r = replay /\ new = replay'
  OBVIOUS
<1>2. CASE ReplayAbort
  <2>1. DOMAIN new = DOMAIN NoReplay /\ new.phase = "diverged"
    BY <1>1, <1>2 DEF NoReplay, ReplayInv, ReplayAbort
  <2> QED BY <1>1, <2>1 DEF ReplayInv
<1>3. CASE AllConsumed
  <2>1. /\ DOMAIN r = DOMAIN NoReplay /\ ReplayAt(r) /\ r.phase = "ready"
        /\ r.stage \notin DOMAIN r.tapes /\ new = [r EXCEPT !.phase = "done"]
    BY <1>1, <1>3 DEF ReplayInv, AllConsumed
  <2>2. /\ DOMAIN new = DOMAIN NoReplay /\ new.phase = "done"
        /\ new.stage = r.stage /\ new.tapes = r.tapes /\ new.handed = r.handed
        /\ new.expected = r.expected
    BY <2>1 DEF NoReplay
  <2>3. \A s \in DOMAIN r.tapes : StageAt(new, s)
    BY <2>1, <2>2 DEF ReplayAt, StageAt
  <2>4. ReplayAt(new)
    BY <2>1, <2>2, <2>3 DEF ReplayAt
  <2> QED BY <1>1, <2>2, <2>4 DEF ReplayInv
<1> QED BY <1>2, <1>3

-----------------------------------------------------------------------------
(* The theorems                                                            *)

LEMMA StartsWell == Init => IInv
<1> SUFFICES ASSUME Init PROVE IInv
  OBVIOUS
<1>1. \A k \in Kinds : journal[k] = <<>>
  BY DEF Init
<1>2. Held = {}
  BY <1>1 DEF Held, InJournal, Kinds
<1>3. TypeInv
  <2>1. <<>> \in Seq(Lines) /\ <<>> \in Tapes
    <3>1. <<>> \in [1..0 -> Records] /\ 0 \in 0..MaxRequests
      BY CaptureAssumption
    <3> QED BY <3>1 DEF Tapes
  <2>2. 0 \in 0..MaxSequence /\ 0 \in 0..MaxAttempts /\ 0 \in 0..MaxFailures
    BY CaptureAssumption
  <2> QED BY <2>1, <2>2, NoChildIs DEF Init, TypeInv
<1>4. \A c \in Companies : child[c].pc = "none"
  BY NoChildIs DEF Init
<1>5. \A c \in Companies, s \in Stages : saved[c][s] = Unsaved
  BY DEF Init
<1>6. CaptureInv
  BY <1>2, <1>3, <1>4, <1>5
     DEF CaptureInv, HeldInv, WriteInv, Writes, ScopeInv, ScopeAt, SavedInv, SavedAt
<1>7. ReplayInv
  BY DEF Init, ReplayInv, NoReplay
<1> QED BY <1>6, <1>7 DEF IInv

(* A step of the replay leaves the capture as it is.                       *)
LEMMA CaptureStands ==
  ASSUME CaptureInv, UNCHANGED <<journal, sequence, lock, attempt, child, saved,
                                 observed, failures>>
  PROVE  CaptureInv'
<1>1. /\ TypeInv' /\ WriteInv' /\ (\A n : Used(n)' <=> Used(n))
      /\ (AllClean' <=> AllClean) /\ Held' = Held
  BY JournalSame DEF CaptureInv, TypeInv, WriteInv, Writes, Used
<1>2. HeldInv'
  BY <1>1 DEF CaptureInv, HeldInv
<1>3. ScopeInv'
  BY <1>1 DEF CaptureInv, ScopeInv, ScopeAt, ActiveScope, Writes
<1>4. SavedInv'
  <2> SUFFICES ASSUME NEW c \in Companies, NEW s \in Stages PROVE SavedAt(c, s)'
    BY DEF SavedInv
  <2>1. SavedAt(c, s)
    BY DEF CaptureInv, SavedInv
  <2> QED BY <1>1, <2>1 DEF SavedAt, Kept
<1> QED BY <1>1, <1>2, <1>3, <1>4 DEF CaptureInv

LEMMA NextKeeps ==
  ASSUME IInv, [Next]_vars
  PROVE  IInv'
<1>0. CaptureInv /\ ReplayInv
  BY DEF IInv
<1>1. ASSUME UNCHANGED vars PROVE IInv'
  BY <1>0, <1>1, CaptureStands DEF vars, IInv, ReplayInv
<1>2. ASSUME NEW c \in Companies, NEW s \in Stages, NEW fresh \in BOOLEAN,
             NEW cut \in BOOLEAN, StartChild(c, s, fresh, cut)
      PROVE  IInv'
  <2>1. CaptureInv'
    BY <1>0, <1>2, StartKeeps
  <2> QED BY <1>0, <1>2, <2>1 DEF StartChild, IInv, ReplayInv
<1>3. ASSUME NEW c \in Companies, RaiseOther(c) PROVE IInv'
  <2>1. CaptureInv'
    BY <1>0, <1>3, RaiseKeeps
  <2> QED BY <1>0, <1>3, <2>1 DEF RaiseOther, IInv, ReplayInv
<1>4. ASSUME NEW c \in Companies, NEW u \in Requests, NEW k \in Kinds, Fetch(c, u, k)
      PROVE  IInv'
  <2>1. CaptureInv'
    BY <1>0, <1>4, FetchKeeps
  <2> QED BY <1>0, <1>4, <2>1 DEF Fetch, IInv, ReplayInv
<1>5. ASSUME NEW c \in Companies, WriteSequence(c) PROVE IInv'
  <2>1. CaptureInv'
    BY <1>0, <1>5, WriteKeeps
  <2> QED BY <1>0, <1>5, <2>1 DEF WriteSequence, IInv, ReplayInv
<1>6. ASSUME NEW c \in Companies, AppendRecord(c) PROVE IInv'
  <2>1. CaptureInv'
    BY <1>0, <1>6, AppendKeeps
  <2> QED BY <1>0, <1>6, <2>1 DEF AppendRecord, IInv, ReplayInv
<1>7. ASSUME NEW c \in Companies, NEW returns \in BOOLEAN, FinishStage(c, returns)
      PROVE  IInv'
  <2>1. CaptureInv'
    BY <1>0, <1>7, FinishKeeps
  <2> QED BY <1>0, <1>7, <2>1 DEF FinishStage, IInv, ReplayInv
<1>8. ASSUME NEW c \in Companies, AbortStage(c) PROVE IInv'
  <2>1. CaptureInv'
    BY <1>0, <1>8, AbortKeeps
  <2> QED BY <1>0, <1>8, <2>1 DEF AbortStage, IInv, ReplayInv
<1>9. ASSUME NEW c \in Companies, Kill(c) PROVE IInv'
  <2>1. CaptureInv'
    BY <1>0, <1>9, KillKeeps
  <2> QED BY <1>0, <1>9, <2>1 DEF Kill, IInv, ReplayInv
<1>10. ASSUME NEW c \in Companies, LoadTapes(c) PROVE IInv'
  <2>1. CaptureInv'
    BY <1>0, <1>10, CaptureStands DEF LoadTapes, store
  <2> QED BY <1>0, <1>10, <2>1, LoadKeeps DEF IInv
<1>11. ASSUME ReplayBegin PROVE IInv'
  <2>1. CaptureInv'
    BY <1>0, <1>11, CaptureStands DEF ReplayBegin, store
  <2> QED BY <1>0, <1>11, <2>1, BeginKeeps DEF IInv
<1>12. ASSUME NEW u \in Requests, ReplayFetch(u) PROVE IInv'
  <2>1. CaptureInv'
    BY <1>0, <1>12, CaptureStands DEF ReplayFetch, store
  <2> QED BY <1>0, <1>12, <2>1, HandKeeps DEF IInv
<1>13. ASSUME ReplayFinalize PROVE IInv'
  <2>1. CaptureInv'
    BY <1>0, <1>13, CaptureStands DEF ReplayFinalize, store
  <2> QED BY <1>0, <1>13, <2>1, FinalizeKeeps DEF IInv
<1>14. ASSUME ReplayAbort \/ AllConsumed PROVE IInv'
  <2>1. CaptureInv'
    BY <1>0, <1>14, CaptureStands DEF ReplayAbort, AllConsumed, store
  <2> QED BY <1>0, <1>14, <2>1, StopsKeep DEF IInv
<1> QED BY <1>1, <1>2, <1>3, <1>4, <1>5, <1>6, <1>7, <1>8, <1>9, <1>10, <1>11, <1>12,
           <1>13, <1>14 DEF Next

(* The inductive invariant: what the journals hold of every scope at work  *)
(* and of every saved one, and what a replay has handed out of its tapes.  *)
THEOREM Inductive == Spec => []IInv
<1>1. Init => IInv
  BY StartsWell
<1>2. IInv /\ [Next]_vars => IInv'
  BY NextKeeps
<1> QED BY <1>1, <1>2, PTL DEF Spec

(* Journals, sequence file, lock, children, saved references and what the  *)
(* stages saw have their types.                                            *)
THEOREM TypeCorrect == Spec => []TypeOK
<1>1. IInv => TypeOK
  <2> SUFFICES ASSUME IInv PROVE TypeOK
    OBVIOUS
  <2>1. TypeInv /\ ReplayInv
    BY DEF IInv, CaptureInv
  <2> QED BY <2>1 DEF TypeInv, ReplayInv, TypeOK, Children
<1> QED BY <1>1, Inductive, PTL

(* While the journals can be read every scope that a checkpoint refers to  *)
(* is loaded, and loaded as the stage saw it, whatever other children      *)
(* wrote and whatever was killed (ScopedSnapshotStore, the snapshot_scope  *)
(* of the checkpoint lineage).                                             *)
THEOREM SavedScopesAreLoaded == Spec => []SavedScopesLoad
<1>1. IInv => SavedScopesLoad
  BY SavedLoads DEF IInv, SavedScopesLoad
<1> QED BY <1>1, Inductive, PTL

(* A replay that ends has repeated every stage of the record: each outcome *)
(* once, those of one identity in their order, in whatever order the       *)
(* identities were asked for (ScopedReplayController).                     *)
THEOREM ReplayIsFaithful == Spec => []ReplayRepeatsTheCapture
<1>1. IInv => ReplayRepeatsTheCapture
  <2> SUFFICES ASSUME ReplayInv, replay.phase = "done", NEW s \in DOMAIN replay.expected
               PROVE  Repeats(replay.handed[s], replay.expected[s])
    BY DEF IInv, ReplayRepeatsTheCapture
  <2>1. PICK r : r = replay
    OBVIOUS
  <2>2. ReplayAt(r) /\ r.phase = "done" /\ s \in DOMAIN r.tapes
    BY <2>1 DEF ReplayInv, ReplayAt
  <2>3. r.tapes = r.expected /\ StageAt(r, s)
    BY <2>2 DEF ReplayAt
  <2>4. s < r.stage
    <3>1. s \in Nat /\ s >= 1 /\ r.stage \in Nat /\ r.stage >= 1
      BY <2>2 DEF ReplayAt, Stages
    <3>2. r.stage \notin 1..s
      BY <2>2 DEF ReplayAt
    <3> QED BY <3>1, <3>2
  <2>5. Handed(r.tapes[s], DOMAIN r.tapes[s], r.handed[s])
    BY <2>3, <2>4 DEF StageAt
  <2> QED BY <2>1, <2>3, <2>5 DEF Handed, Repeats
<1> QED BY <1>1, Inductive, PTL
=============================================================================
