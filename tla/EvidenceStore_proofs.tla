------------------------ MODULE EvidenceStore_proofs ------------------------
(***************************************************************************)
(* Proofs about the shared evidence store, for any set of processes,       *)
(* companies and URLs and any bounds: the lock makes every replacement of  *)
(* the file an update of the current one, and on that a stored career page *)
(* always belongs to the stored website, no layer is replaced by an older  *)
(* observation, the board list stays newest first with one entry per       *)
(* identity, and the store implements atomic updates.                      *)
(***************************************************************************)
EXTENDS EvidenceStore, SequenceTheorems, WellFoundedInduction, TLAPS

-----------------------------------------------------------------------------
(* Operations on one record *)

LEMMA EmptyHasLayers == HasLayers(EmptyRecord) /\ CareerFits(EmptyRecord)
  BY DEF HasLayers, CareerFits, EmptyRecord, NoSite, NoCareer

(* Every operation keeps the shape of a record, keeps the career page with *)
(* its website, and never puts an older layer in the place of a newer one. *)
ApplyIsSound(record, after) ==
    /\ HasLayers(after)
    /\ CareerFits(after)
    /\ after.site # NoSite => after.site.at >= record.site.at
    /\ (after.career # NoCareer /\ after.site = record.site)
          => after.career.at >= record.career.at

LEMMA ApplyKeepsRecord ==
  ASSUME NEW record, HasLayers(record), CareerFits(record),
         NEW op \in Operations
  PROVE  ApplyIsSound(record, Apply(op, record))
<1> DEFINE after == Apply(op, record)
<1>0. /\ record.site.at \in Int
      /\ record.career.at \in Int
      /\ record.site # NoSite => record.site.url # NoUrl
      /\ record.site = NoSite => record.career = NoCareer
  BY RecordAssumption DEF HasLayers, CareerFits, SiteLayers, CareerLayers,
     NoSite, NoCareer, Times
<1>1. ApplyIsSound(record, record)
  BY <1>0 DEF ApplyIsSound
<1>2. ApplyIsSound(record, EmptyRecord)
  BY EmptyHasLayers DEF ApplyIsSound, EmptyRecord
<1>3. ASSUME NEW boards
      PROVE  ApplyIsSound(record, [record EXCEPT !.boards = boards])
  BY <1>0 DEF ApplyIsSound, HasLayers, CareerFits
<1>4. CASE op.kind = "save_site"
  <2>1. op.layer \in SiteLayers
    BY <1>4 DEF Operations
  <2>2. after = SaveSite(record, op.layer)
    BY <1>4 DEF Apply
  <2>3. CASE op.layer.at < record.site.at
    BY <1>1, <2>2, <2>3 DEF SaveSite
  <2>4. ASSUME op.layer.at >= record.site.at,
               record.site # NoSite => record.site.url = op.layer.url
        PROVE  ApplyIsSound(record, [record EXCEPT !.site = op.layer])
    <3> DEFINE new == [record EXCEPT !.site = op.layer]
    <3>1. /\ new.site = op.layer
          /\ new.career = record.career
          /\ HasLayers(new)
      BY <2>1 DEF HasLayers
    <3>2. CareerFits(new)
      BY <1>0, <2>4, <3>1 DEF CareerFits
    <3> QED BY <1>0, <2>4, <3>1, <3>2 DEF ApplyIsSound
  <2>5. ASSUME op.layer.at >= record.site.at, record.site.url # op.layer.url
        PROVE  ApplyIsSound(record, [EmptyRecord EXCEPT !.site = op.layer])
    <3>1. /\ EmptyRecord.career = NoCareer
          /\ HasLayers(EmptyRecord)
      BY EmptyHasLayers DEF EmptyRecord
    <3> QED BY <1>0, <2>1, <2>5, <3>1 DEF ApplyIsSound, HasLayers, CareerFits
  <2>6. op.layer.at \in Int
    BY <2>1, RecordAssumption DEF SiteLayers, Times
  <2>7. CASE op.layer.at >= record.site.at
    <3>1. CASE record.site # NoSite /\ record.site.url # op.layer.url
      <4>1. after = [EmptyRecord EXCEPT !.site = op.layer]
        BY <1>0, <2>2, <2>6, <2>7, <3>1 DEF SaveSite
      <4> QED BY <2>5, <2>7, <3>1, <4>1
    <3>2. CASE record.site = NoSite \/ record.site.url = op.layer.url
      <4>1. after = [record EXCEPT !.site = op.layer]
        BY <1>0, <2>2, <2>6, <2>7, <3>2 DEF SaveSite
      <4> QED BY <2>4, <2>7, <3>2, <4>1
    <3> QED BY <3>1, <3>2
  <2> QED BY <1>0, <2>3, <2>6, <2>7
<1>5. CASE op.kind = "save_career"
  <2>1. op.layer \in CareerLayers
    BY <1>5 DEF Operations
  <2>2. after = SaveCareer(record, op.layer)
    BY <1>5 DEF Apply
  <2>3. op.layer.at \in Int
    BY <2>1, RecordAssumption DEF CareerLayers, Times
  <2>4. ASSUME NEW boards, record.site.url = op.layer.site,
               op.layer.at >= record.career.at
        PROVE  ApplyIsSound(record, [record EXCEPT !.career = op.layer,
                                                   !.boards = boards])
    <3> DEFINE new == [record EXCEPT !.career = op.layer, !.boards = boards]
    <3>1. /\ new.site = record.site
          /\ new.career = op.layer
          /\ HasLayers(new)
      BY <2>1 DEF HasLayers
    <3>2. CareerFits(new)
      BY <2>4, <3>1 DEF CareerFits
    <3> QED BY <1>0, <2>4, <3>1, <3>2 DEF ApplyIsSound
  <2>5. CASE record.site.url # op.layer.site
             \/ op.layer.at < record.career.at
    BY <1>1, <2>2, <2>5 DEF SaveCareer
  <2>6. CASE record.site.url = op.layer.site
             /\ op.layer.at >= record.career.at
    <3> DEFINE boards == IF record.career = NoCareer
                            \/ record.career.url = op.layer.url
                         THEN record.boards ELSE <<>>
    <3>1. after = [record EXCEPT !.career = op.layer, !.boards = boards]
      BY <1>0, <2>2, <2>3, <2>6 DEF SaveCareer, HasLayers
    <3> HIDE DEF boards
    <3> QED BY <2>4, <2>6, <3>1
  <2> QED BY <1>0, <2>3, <2>5, <2>6
<1>6. CASE op.kind = "save_board"
  <2>1. after = SaveBoard(record, op.layer)
    BY <1>6 DEF Apply
  <2> QED BY <1>1, <1>3, <2>1 DEF SaveBoard
<1>7. CASE op.kind = "drop_site"
  <2>1. after = InvalidateSite(record, op.layer.url)
    BY <1>7 DEF Apply
  <2> QED BY <1>1, <1>2, <2>1 DEF InvalidateSite
<1>8. CASE op.kind = "drop_career"
  <2>1. after = InvalidateCareer(record, op.layer.url)
    BY <1>8 DEF Apply
  <2>2. ASSUME NEW boards
        PROVE  ApplyIsSound(record, [record EXCEPT !.career = NoCareer,
                                                   !.boards = boards])
    <3> DEFINE new == [record EXCEPT !.career = NoCareer, !.boards = boards]
    <3>1. /\ new.site = record.site
          /\ new.career = NoCareer
          /\ HasLayers(new)
      BY DEF HasLayers
    <3> QED BY <1>0, <3>1 DEF ApplyIsSound, CareerFits
  <2> QED BY <1>1, <1>2, <2>1, <2>2 DEF InvalidateCareer
<1> QED BY <1>4, <1>5, <1>6, <1>7, <1>8 DEF Operations

-----------------------------------------------------------------------------
(* The inductive invariant *)

LEMMA InitInv == Init => IInv
  BY EmptyHasLayers, StoreAssumption, RecordAssumption
     DEF Init, IInv, CallsOK, LockIsHeld, Empty, Times

LEMMA BeginKeepsInv ==
  ASSUME IInv,
         NEW p \in Processes, NEW c \in Companies, NEW kind, NEW layer,
         [kind |-> kind, layer |-> layer] \in Operations,
         Begin(p, c, kind, layer)
  PROVE  IInv'
<1> DEFINE new == [company |-> c, op |-> [kind |-> kind, layer |-> layer]]
<1>1. new \in Calls
  BY DEF Calls
<1>2. CallsOK'
  BY <1>1 DEF IInv, CallsOK, Begin
<1>3. LockIsHeld'
  BY DEF IInv, CallsOK, LockIsHeld, Begin
<1>4. \A q \in Processes : pc'[q] = "reading" => pc[q] = "reading"
  BY DEF IInv, CallsOK, Begin
<1> QED BY <1>2, <1>3, <1>4 DEF IInv, Begin

(* Every call names an operation on a typed layer observed in bounds.      *)
LEMMA CallKeepsInv ==
  ASSUME IInv, NEW p \in Processes, NEW c \in Companies,
         \/ \E url \in Sites : SaveSiteCall(p, c, url)
         \/ \E url \in Careers, site \in Sites : SaveCareerCall(p, c, url, site)
         \/ \E url \in BoardIds : SaveBoardCall(p, c, url)
         \/ DropSiteCall(p, c)
         \/ DropCareerCall(p, c)
  PROVE  IInv'
<1>0. clock \in Times
  BY DEF IInv
<1>1. ASSUME NEW url \in Sites, SaveSiteCall(p, c, url) PROVE IInv'
  <2>1. [kind |-> "save_site", layer |-> [url |-> url, at |-> clock]]
           \in Operations
    BY <1>0 DEF Operations, SiteLayers
  <2> QED BY <1>1, <2>1, BeginKeepsInv DEF SaveSiteCall
<1>2. ASSUME NEW url \in Careers, NEW site \in Sites,
             SaveCareerCall(p, c, url, site)
      PROVE  IInv'
  <2>1. [kind |-> "save_career",
         layer |-> [url |-> url, site |-> site, at |-> clock]] \in Operations
    BY <1>0 DEF Operations, CareerLayers
  <2> QED BY <1>2, <2>1, BeginKeepsInv DEF SaveCareerCall
<1>3. ASSUME NEW url \in BoardIds, SaveBoardCall(p, c, url)
      PROVE  IInv'
  <2>1. [kind |-> "save_board", layer |-> [url |-> url, at |-> clock]]
           \in Operations
    BY <1>0 DEF Operations, BoardLayers
  <2> QED BY <1>3, <2>1, BeginKeepsInv DEF SaveBoardCall
<1>4. CASE DropSiteCall(p, c)
  <2>1. file[c].site \in SiteLayers
    BY <1>4 DEF IInv, HasLayers, DropSiteCall, SiteIsVisible, Fresh, NoSite
  <2>2. [kind |-> "drop_site", layer |-> file[c].site] \in Operations
    BY <2>1 DEF Operations
  <2> QED BY <1>4, <2>2, BeginKeepsInv DEF DropSiteCall
<1>5. CASE DropCareerCall(p, c)
  <2>1. file[c].career \in CareerLayers
    BY <1>5 DEF IInv, HasLayers, DropCareerCall, CareerIsVisible, Fresh,
                NoCareer
  <2>2. [kind |-> "drop_career", layer |-> file[c].career] \in Operations
    BY <2>1 DEF Operations
  <2> QED BY <1>5, <2>2, BeginKeepsInv DEF DropCareerCall
<1> QED BY <1>1, <1>2, <1>3, <1>4, <1>5

LEMMA AcquireKeepsInv ==
  ASSUME IInv, NEW p \in Processes, Acquire(p)
  PROVE  IInv'
<1>1. CallsOK'
  BY DEF IInv, CallsOK, Acquire
<1>2. LockIsHeld'
  BY StoreAssumption DEF IInv, CallsOK, LockIsHeld, Acquire
<1>3. \A q \in Processes : pc'[q] = "reading" => copy'[q] = file'
  BY DEF IInv, CallsOK, LockIsHeld, Acquire
<1> QED BY <1>1, <1>2, <1>3 DEF IInv, Acquire

(* The holder of the lock writes: the file it replaces is the one it read, *)
(* and only the record of the call's company differs.                      *)
LEMMA ReplaceIsUpdate ==
  ASSUME IInv, NEW p \in Processes, Replace(p)
  PROVE  /\ call[p] \in Calls
         /\ file' = [file EXCEPT ![call[p].company] =
                        Apply(call[p].op, @)]
  BY DEF IInv, CallsOK, Replace

LEMMA ReplaceKeepsInv ==
  ASSUME IInv, NEW p \in Processes, Replace(p)
  PROVE  IInv'
<1>1. CallsOK'
  BY DEF IInv, CallsOK, Replace
<1>2. LockIsHeld'
  BY DEF IInv, CallsOK, LockIsHeld, Replace
<1>3. \A q \in Processes : pc'[q] # "reading"
  BY <1>2 DEF IInv, CallsOK, LockIsHeld, Replace
<1>4. \A c \in Companies : HasLayers(file'[c]) /\ CareerFits(file'[c])
  BY ReplaceIsUpdate, ApplyKeepsRecord DEF IInv, Calls, ApplyIsSound
<1>5. file' = [c \in Companies |-> file'[c]]
  BY ReplaceIsUpdate DEF IInv
<1> QED BY <1>1, <1>2, <1>3, <1>4, <1>5 DEF IInv, Replace

LEMMA LeaveKeepsInv ==
  ASSUME IInv, NEW p \in Processes, Release(p) \/ Die(p)
  PROVE  IInv'
<1>1. CallsOK'
  BY DEF IInv, CallsOK, Release, Die
<1>2. LockIsHeld'
  BY StoreAssumption DEF IInv, CallsOK, LockIsHeld, Release, Die
<1>3. \A q \in Processes : pc'[q] = "reading" => copy'[q] = file'
  BY DEF IInv, CallsOK, Release, Die
<1> QED BY <1>1, <1>2, <1>3 DEF IInv, Release, Die

LEMMA TickKeepsInv == ASSUME IInv, Tick PROVE IInv'
  BY RecordAssumption DEF IInv, CallsOK, LockIsHeld, Tick, Times

LEMMA StutterKeepsInv == ASSUME IInv, UNCHANGED vars PROVE IInv'
  BY DEF IInv, CallsOK, LockIsHeld, vars

THEOREM Inductive == Spec => []IInv
<1>1. IInv /\ [Next]_vars => IInv'
  <2> SUFFICES ASSUME IInv, [Next]_vars PROVE IInv'
    OBVIOUS
  <2> QED
    BY CallKeepsInv, AcquireKeepsInv, ReplaceKeepsInv, LeaveKeepsInv,
       TickKeepsInv, StutterKeepsInv DEF Next
<1> QED BY InitInv, <1>1, PTL DEF Spec

-----------------------------------------------------------------------------
(* The results *)

(* A stored career page always belongs to the stored website.              *)
THEOREM CareerBelongs == Spec => []CareerOfItsWebsite
<1>1. IInv => CareerOfItsWebsite
  BY DEF IInv, CareerOfItsWebsite
<1> QED BY <1>1, Inductive, PTL

(* The lock is held by a process exactly while it is at work in the store. *)
THEOREM LockHasOwner == Spec => []LockIsHeld
<1>1. IInv => LockIsHeld
  BY DEF IInv
<1> QED BY <1>1, Inductive, PTL

(* Only a replacement changes the file.                                    *)
LEMMA FileChanges ==
  ASSUME IInv, [Next]_vars
  PROVE  file' = file \/ \E p \in Processes : Replace(p)
  BY DEF Next, vars, Tick, SaveSiteCall, SaveCareerCall, SaveBoardCall,
         DropSiteCall, DropCareerCall, Begin, Acquire, Release, Die

(* A late writer never replaces a newer observation by an older one.       *)
THEOREM LayersGetNewer == Spec => NeverOlder
<1> DEFINE Newer ==
      \A c \in Companies :
          /\ file'[c].site # NoSite => file'[c].site.at >= file[c].site.at
          /\ (file'[c].career # NoCareer /\ file'[c].site = file[c].site)
                 => file'[c].career.at >= file[c].career.at
<1>1. IInv /\ [Next]_vars => [Newer]_vars
  <2> SUFFICES ASSUME IInv, [Next]_vars PROVE Newer
    OBVIOUS
  <2>0. \A c \in Companies : file[c].site.at \in Int /\ file[c].career.at \in Int
    BY RecordAssumption DEF IInv, HasLayers, SiteLayers, CareerLayers, NoSite,
       NoCareer, Times
  <2>1. CASE file' = file
    BY <2>0, <2>1
  <2>2. ASSUME NEW p \in Processes, Replace(p) PROVE Newer
    <3> SUFFICES ASSUME NEW c \in Companies
                 PROVE  /\ file'[c].site # NoSite
                              => file'[c].site.at >= file[c].site.at
                        /\ (file'[c].career # NoCareer
                              /\ file'[c].site = file[c].site)
                              => file'[c].career.at >= file[c].career.at
      OBVIOUS
    <3>1. CASE c = call[p].company
      <4>1. file'[c] = Apply(call[p].op, file[c])
        BY <2>2, <3>1, ReplaceIsUpdate DEF IInv
      <4>2. ApplyIsSound(file[c], file'[c])
        BY <2>2, <4>1, ReplaceIsUpdate, ApplyKeepsRecord DEF IInv, Calls
      <4> QED BY <4>2 DEF ApplyIsSound
    <3>2. CASE c # call[p].company
      <4>1. file'[c] = file[c]
        BY <2>2, <3>2, ReplaceIsUpdate DEF IInv
      <4> QED BY <2>0, <4>1
    <3> QED BY <3>1, <3>2
  <2> QED BY <2>1, <2>2, FileChanges
<1> QED BY <1>1, Inductive, PTL DEF Spec, NeverOlder

(* The file with its lock and copies implements atomic updates.            *)
THEOREM StoreIsAtomic == Spec => ImplementsAtomic
<1>1. Init => Atomic!Init
  BY DEF Init, Atomic!Init, Empty
<1>2. IInv /\ [Next]_vars => [Atomic!Next]_file
  <2> SUFFICES ASSUME IInv, [Next]_vars, file' # file PROVE Atomic!Next
    OBVIOUS
  <2>1. PICK p \in Processes : Replace(p)
    BY FileChanges
  <2>2. /\ call[p].company \in Companies
        /\ call[p].op \in Operations
        /\ Atomic!Update(call[p].company, call[p].op)
    BY <2>1, ReplaceIsUpdate DEF Calls, Atomic!Update
  <2> QED BY <2>2 DEF Atomic!Next
<1> QED BY <1>1, <1>2, Inductive, PTL DEF Spec, ImplementsAtomic, Atomic!Spec

-----------------------------------------------------------------------------
(* The board list *)

BoardLists == UNION {[1..n -> BoardLayers] : n \in 0..MaxBoards}

(* Newest first and one entry per identity.                                *)
Ordered(boards) ==
    \A i, j \in 1..Len(boards) :
        i < j => /\ boards[i].at >= boards[j].at
                 /\ boards[i].url # boards[j].url

LEMMA BoardListsAre ==
  ASSUME NEW boards
  PROVE  boards \in BoardLists
            <=> boards \in Seq(BoardLayers) /\ Len(boards) <= MaxBoards
<1>1. ASSUME boards \in BoardLists
      PROVE  boards \in Seq(BoardLayers) /\ Len(boards) <= MaxBoards
  <2>1. PICK n \in 0..MaxBoards : boards \in [1..n -> BoardLayers]
    BY <1>1 DEF BoardLists
  <2>2. n \in Nat /\ n <= MaxBoards
    BY RecordAssumption
  <2>3. boards \in Seq(BoardLayers)
    BY <2>1, <2>2, SeqDef
  <2>4. Len(boards) = n
    BY <2>1, <2>2, <2>3, LenProperties
  <2> QED BY <2>2, <2>3, <2>4
<1>2. ASSUME boards \in Seq(BoardLayers), Len(boards) <= MaxBoards
      PROVE  boards \in BoardLists
  <2>1. Len(boards) \in 0..MaxBoards /\ boards \in [1..Len(boards) -> BoardLayers]
    BY <1>2, LenProperties, RecordAssumption
  <2> QED BY <2>1 DEF BoardLists
<1> QED BY <1>1, <1>2

(* The natural numbers are well ordered.                                   *)
LEMMA LeastNat ==
  ASSUME NEW T, T \subseteq Nat, T # {}
  PROVE  \E x \in T : \A y \in T : x <= y
<1> DEFINE R == OpToRel(<, Nat)
<1>1. IsWellFoundedOn(R, Nat)
  BY NatLessThanWellFounded
<1>2. R = {w \in Nat \X Nat : w[1] < w[2]}
  BY DEF OpToRel
<1> HIDE DEF R
<1>3. PICK x \in T : \A y \in T : ~(<<y, x>> \in R)
  BY <1>1, WFMin
<1>4. \A y \in T : x <= y
  <2> SUFFICES ASSUME NEW y \in T PROVE x <= y
    OBVIOUS
  <2>1. x \in Nat /\ y \in Nat /\ ~(<<y, x>> \in R)
    BY <1>3
  <2>2. ~(y < x)
    BY <1>2, <2>1
  <2> QED BY <2>1, <2>2
<1> QED BY <1>4

LEMMA TimesAreNumbers ==
  \A layer \in BoardLayers : layer.at \in Int
  BY DEF BoardLayers, Times

(* In a list that is newest first, those at least as new as a given time   *)
(* come before all others.                                                 *)
LEMMA PlaceExists ==
  ASSUME NEW boards \in Seq(BoardLayers), Ordered(boards), NEW at \in Int
  PROVE  \E k \in 0..Len(boards) :
            \A i \in DOMAIN boards : i <= k <=> boards[i].at >= at
<1>1. /\ Len(boards) \in Nat /\ DOMAIN boards = 1..Len(boards)
      /\ \A i \in 1..Len(boards) : boards[i].at \in Int
  BY LenProperties, TimesAreNumbers, ElementOfSeq
<1> DEFINE T == {i \in 1..Len(boards) : boards[i].at < at}
<1>2. CASE T = {}
  <2>1. \A i \in 1..Len(boards) : boards[i].at >= at /\ i <= Len(boards)
    BY <1>1, <1>2
  <2> QED BY <1>1, <2>1
<1>3. CASE T # {}
  <2>1. T \subseteq Nat
    BY <1>1
  <2>2. PICK m \in T : \A i \in T : m <= i
    BY <1>3, <2>1, LeastNat
  <2>3. m - 1 \in 0..Len(boards) /\ m \in 1..Len(boards) /\ boards[m].at < at
    BY <1>1, <2>2
  <2>4. ASSUME NEW i \in 1..Len(boards)
        PROVE  i <= m - 1 <=> boards[i].at >= at
    <3>1. CASE i < m
      <4>1. i \notin T
        BY <1>1, <2>2, <2>3, <3>1
      <4>2. boards[i].at >= at
        BY <1>1, <4>1
      <4> QED BY <1>1, <2>3, <3>1, <4>2
    <3>2. CASE i = m
      BY <1>1, <2>3, <3>2
    <3>3. CASE m < i
      <4>1. boards[m].at >= boards[i].at
        BY <2>3, <3>3 DEF Ordered
      <4>2. boards[i].at < at
        BY <1>1, <2>3, <4>1
      <4> QED BY <1>1, <2>3, <3>3, <4>2
    <3> QED BY <1>1, <2>3, <3>1, <3>2, <3>3
  <2> QED BY <1>1, <2>3, <2>4
<1> QED BY <1>2, <1>3

LEMMA TailLength ==
  \A x, y \in Nat : x <= y =>
     /\ y - (x + 1) + 1 = y - x
     /\ (IF x + 1 <= y THEN y - (x + 1) + 1 ELSE 0) = y - x
     /\ \A i \in 1..(y - x) : x + 1 + i - 1 = x + i
  OBVIOUS

(* Taking an identity out leaves the list in order, without it.            *)
LEMMA OthersAre ==
  ASSUME NEW boards \in Seq(BoardLayers), Ordered(boards), NEW url
  PROVE  LET rest == Others(boards, url)
         IN  /\ rest \in Seq(BoardLayers)
             /\ Len(rest) <= Len(boards)
             /\ Ordered(rest)
             /\ \A i \in 1..Len(rest) : rest[i].url # url
<1> DEFINE n == Len(boards)
           rest == Others(boards, url)
<1>1. n \in Nat /\ DOMAIN boards = 1..n /\ \A i \in 1..n : boards[i] \in BoardLayers
  BY LenProperties, ElementOfSeq
<1>2. CASE \A i \in DOMAIN boards : boards[i].url # url
  BY <1>1, <1>2 DEF Others
<1>3. CASE ~ \A i \in DOMAIN boards : boards[i].url # url
  <2> DEFINE d == CHOOSE i \in DOMAIN boards : boards[i].url = url
             front == SubSeq(boards, 1, d - 1)
             back == SubSeq(boards, d + 1, n)
  <2>1. d \in 1..n /\ boards[d].url = url
    BY <1>1, <1>3
  <2>2. rest = front \o back
    BY <1>3 DEF Others
  <2> HIDE DEF d
  <2>3. /\ front \in Seq(BoardLayers) /\ Len(front) = d - 1
        /\ \A i \in 1..(d - 1) : front[i] = boards[i]
    <3>1. \A i \in 1..(d - 1) : boards[i] \in BoardLayers
      BY <1>1, <2>1
    <3>2. 1 \in Int /\ d - 1 \in Int
      BY <2>1
    <3>3. /\ front \in Seq(BoardLayers)
          /\ Len(front) = IF 1 <= d - 1 THEN d - 1 - 1 + 1 ELSE 0
          /\ \A i \in 1..(d - 1 - 1 + 1) : front[i] = boards[1 + i - 1]
      BY <3>1, <3>2, SubSeqProperties
    <3> QED BY <2>1, <3>3
  <2>4. /\ back \in Seq(BoardLayers) /\ Len(back) = n - d
        /\ \A i \in 1..(n - d) : back[i] = boards[d + i]
    <3>1. \A i \in (d + 1)..n : boards[i] \in BoardLayers
      BY <1>1, <2>1
    <3>2. d + 1 \in Int /\ n \in Int
      BY <1>1, <2>1
    <3>3. /\ back \in Seq(BoardLayers)
          /\ Len(back) = IF d + 1 <= n THEN n - (d + 1) + 1 ELSE 0
          /\ \A i \in 1..(n - (d + 1) + 1) : back[i] = boards[d + 1 + i - 1]
      BY <3>1, <3>2, SubSeqProperties
    <3>4. /\ n - (d + 1) + 1 = n - d
          /\ (IF d + 1 <= n THEN n - (d + 1) + 1 ELSE 0) = n - d
          /\ \A i \in 1..(n - d) : d + 1 + i - 1 = d + i
      <4>1. d \in Nat /\ n \in Nat /\ d <= n
        BY <1>1, <2>1
      <4> HIDE DEF n
      <4> QED BY <4>1, TailLength
    <3> HIDE DEF back
    <3> QED BY <3>3, <3>4
  <2> HIDE DEF front, back, rest
  <2>5. /\ rest \in Seq(BoardLayers) /\ Len(rest) = n - 1
        /\ \A i \in 1..(n - 1) : rest[i] = IF i < d THEN boards[i] ELSE boards[i + 1]
    <3>1. /\ rest \in Seq(BoardLayers)
          /\ Len(rest) = Len(front) + Len(back)
          /\ \A i \in 1..(Len(front) + Len(back)) : rest[i] =
                IF i <= Len(front) THEN front[i] ELSE back[i - Len(front)]
      BY <2>2, <2>3, <2>4, ConcatProperties
    <3>2. Len(rest) = n - 1 /\ Len(front) + Len(back) = n - 1
      BY <1>1, <2>1, <2>3, <2>4, <3>1
    <3>3. ASSUME NEW i \in 1..(n - 1)
          PROVE  rest[i] = IF i < d THEN boards[i] ELSE boards[i + 1]
      <4>1. CASE i < d
        <5>1. i \in 1..(d - 1) /\ i <= d - 1
          BY <1>1, <2>1, <4>1
        <5> QED BY <2>3, <3>1, <3>2, <4>1, <5>1
      <4>2. CASE ~(i < d)
        <5>1. ~(i <= d - 1) /\ i - (d - 1) \in 1..(n - d)
          BY <1>1, <2>1, <4>2
        <5>2. rest[i] = back[i - (d - 1)]
          BY <2>3, <3>1, <3>2, <5>1
        <5>3. back[i - (d - 1)] = boards[d + (i - (d - 1))]
          BY <2>4, <5>1
        <5>4. d + (i - (d - 1)) = i + 1
          BY <1>1, <2>1
        <5> QED BY <4>2, <5>2, <5>3, <5>4
      <4> QED BY <4>1, <4>2
    <3> QED BY <3>1, <3>2, <3>3
  <2>6. Ordered(rest)
    <3> SUFFICES ASSUME NEW i \in 1..(n - 1), NEW j \in 1..(n - 1), i < j
                 PROVE  rest[i].at >= rest[j].at /\ rest[i].url # rest[j].url
      BY <2>5 DEF Ordered
    <3>1. PICK a \in 1..n, b \in 1..n :
            a < b /\ rest[i] = boards[a] /\ rest[j] = boards[b]
      <4>1. i \in 1..n /\ i + 1 \in 1..n /\ j \in 1..n /\ j + 1 \in 1..n
        BY <1>1
      <4>2. i < j /\ i < j + 1 /\ i + 1 < j + 1 /\ (j < d => i < d)
        BY <1>1, <2>1
      <4> QED BY <2>5, <4>1, <4>2
    <3> QED BY <3>1 DEF Ordered
  <2>7. ASSUME NEW i \in 1..(n - 1) PROVE rest[i].url # url
    <3>1. CASE i < d
      <4>1. i \in 1..n
        BY <1>1
      <4> QED BY <2>1, <2>5, <3>1, <4>1 DEF Ordered
    <3>2. CASE ~(i < d)
      <4>1. i + 1 \in 1..n /\ d < i + 1
        BY <1>1, <2>1, <3>2
      <4> QED BY <2>1, <2>5, <3>2, <4>1 DEF Ordered
    <3> QED BY <3>1, <3>2
  <2>8. n - 1 <= n
    BY <1>1
  <2> QED BY <2>5, <2>6, <2>7, <2>8 DEF rest
<1> QED BY <1>2, <1>3

(* Sorting in a board of a new identity keeps the list in order.           *)
LEMMA SortedIs ==
  ASSUME NEW boards \in Seq(BoardLayers), Ordered(boards),
         NEW board \in BoardLayers,
         \A i \in 1..Len(boards) : boards[i].url # board.url
  PROVE  LET list == Sorted(boards, board)
         IN  list \in Seq(BoardLayers) /\ Ordered(list)
<1> DEFINE n == Len(boards)
           k == CHOOSE k \in 0..n :
                  \A i \in DOMAIN boards : i <= k <=> boards[i].at >= board.at
           front == SubSeq(boards, 1, k)
           head == front \o <<board>>
           back == SubSeq(boards, k + 1, n)
           list == Sorted(boards, board)
<1>1. n \in Nat /\ DOMAIN boards = 1..n /\ \A i \in 1..n : boards[i] \in BoardLayers
  BY LenProperties, ElementOfSeq
<1>2. k \in 0..n /\ \A i \in 1..n : i <= k <=> boards[i].at >= board.at
  <2>1. \E m \in 0..n : \A i \in DOMAIN boards : i <= m <=> boards[i].at >= board.at
    BY PlaceExists, TimesAreNumbers
  <2> QED BY <1>1, <2>1
<1>3. list = head \o back
  BY DEF Sorted
<1> HIDE DEF k, list
<1>4. /\ front \in Seq(BoardLayers) /\ Len(front) = k
      /\ \A i \in 1..k : front[i] = boards[i]
  <2>1. \A i \in 1..k : boards[i] \in BoardLayers
    BY <1>1, <1>2
  <2>2. 1 \in Int /\ k \in Int
    BY <1>2
  <2>3. /\ front \in Seq(BoardLayers)
        /\ Len(front) = IF 1 <= k THEN k - 1 + 1 ELSE 0
        /\ \A i \in 1..(k - 1 + 1) : front[i] = boards[1 + i - 1]
    BY <2>1, <2>2, SubSeqProperties
  <2>4. /\ k - 1 + 1 = k
        /\ (IF 1 <= k THEN k - 1 + 1 ELSE 0) = k
        /\ \A i \in 1..k : 1 + i - 1 = i
    BY <1>1, <1>2
  <2> HIDE DEF front
  <2> QED BY <2>3, <2>4
<1>5. /\ back \in Seq(BoardLayers) /\ Len(back) = n - k
      /\ \A i \in 1..(n - k) : back[i] = boards[k + i]
  <2>1. \A i \in (k + 1)..n : boards[i] \in BoardLayers
    BY <1>1, <1>2
  <2>2. k + 1 \in Int /\ n \in Int
    BY <1>1, <1>2
  <2>3. /\ back \in Seq(BoardLayers)
        /\ Len(back) = IF k + 1 <= n THEN n - (k + 1) + 1 ELSE 0
        /\ \A i \in 1..(n - (k + 1) + 1) : back[i] = boards[k + 1 + i - 1]
    BY <2>1, <2>2, SubSeqProperties
  <2>4. /\ n - (k + 1) + 1 = n - k
        /\ (IF k + 1 <= n THEN n - (k + 1) + 1 ELSE 0) = n - k
        /\ \A i \in 1..(n - k) : k + 1 + i - 1 = k + i
    <3>1. k \in Nat /\ n \in Nat /\ k <= n
      BY <1>1, <1>2
    <3> HIDE DEF n
    <3> QED BY <3>1, TailLength
  <2> HIDE DEF back
  <2> QED BY <2>3, <2>4
<1> HIDE DEF front, back
<1>6. <<board>> \in Seq(BoardLayers) /\ Len(<<board>>) = 1 /\ <<board>>[1] = board
  OBVIOUS
<1>7. /\ head \in Seq(BoardLayers) /\ Len(head) = k + 1
      /\ \A i \in 1..(k + 1) : head[i] = IF i <= k THEN boards[i] ELSE board
  <2>1. /\ head \in Seq(BoardLayers) /\ Len(head) = k + 1
        /\ \A i \in 1..(k + 1) : head[i] = IF i <= k THEN front[i] ELSE <<board>>[i - k]
    BY <1>4, <1>6, ConcatProperties
  <2>2. \A i \in 1..(k + 1) : (i <= k => i \in 1..k) /\ (~(i <= k) => i - k = 1)
    BY <1>2
  <2> HIDE DEF head
  <2> QED BY <1>4, <1>6, <2>1, <2>2
<1> HIDE DEF head
<1>8. /\ list \in Seq(BoardLayers) /\ Len(list) = n + 1
      /\ \A i \in 1..(n + 1) : list[i] = IF i <= k THEN boards[i]
                                        ELSE IF i = k + 1 THEN board
                                        ELSE boards[i - 1]
  <2>1. /\ list \in Seq(BoardLayers) /\ Len(list) = Len(head) + Len(back)
        /\ \A i \in 1..(Len(head) + Len(back)) :
              list[i] = IF i <= Len(head) THEN head[i] ELSE back[i - Len(head)]
    BY <1>3, <1>5, <1>7, ConcatProperties
  <2>2. Len(head) + Len(back) = n + 1
    BY <1>1, <1>2, <1>5, <1>7
  <2>3. ASSUME NEW i \in 1..(n + 1)
        PROVE  list[i] = IF i <= k THEN boards[i]
                         ELSE IF i = k + 1 THEN board ELSE boards[i - 1]
    <3>1. CASE i <= k + 1
      <4>1. i \in 1..(k + 1) /\ (~(i <= k) => i = k + 1)
        BY <1>2, <3>1
      <4> QED BY <1>7, <2>1, <2>2, <3>1, <4>1
    <3>2. CASE ~(i <= k + 1)
      <4>1. i - (k + 1) \in 1..(n - k) /\ k + (i - (k + 1)) = i - 1
            /\ ~(i <= k) /\ i # k + 1
        BY <1>1, <1>2, <3>2
      <4>2. list[i] = back[i - (k + 1)]
        BY <1>7, <2>1, <2>2, <3>2
      <4> QED BY <1>5, <4>1, <4>2
    <3> QED BY <3>1, <3>2
  <2> QED BY <2>1, <2>2, <2>3
<1>9. Ordered(list)
  <2> SUFFICES ASSUME NEW i \in 1..(n + 1), NEW j \in 1..(n + 1), i < j
               PROVE  list[i].at >= list[j].at /\ list[i].url # list[j].url
    BY <1>8 DEF Ordered
  <2>1. CASE i = k + 1
    <3>1. list[i] = board /\ list[j] = boards[j - 1] /\ j - 1 \in 1..n /\ ~(j - 1 <= k)
      BY <1>1, <1>2, <1>8, <2>1
    <3>2. ~(boards[j - 1].at >= board.at)
      BY <1>2, <3>1
    <3> QED BY <1>1, <3>1, <3>2, TimesAreNumbers
  <2>2. CASE j = k + 1
    <3>1. list[j] = board /\ list[i] = boards[i] /\ i \in 1..n /\ i <= k
      BY <1>1, <1>2, <1>8, <2>2
    <3> QED BY <1>2, <3>1
  <2>3. CASE i # k + 1 /\ j # k + 1
    <3>1. PICK a \in 1..n, b \in 1..n :
            a < b /\ list[i] = boards[a] /\ list[j] = boards[b]
      <4>1. CASE j <= k
        <5>1. i \in 1..n /\ j \in 1..n /\ i <= k
          BY <1>1, <1>2, <4>1
        <5> QED BY <1>8, <4>1, <5>1
      <4>2. CASE i <= k /\ ~(j <= k)
        <5>1. i \in 1..n /\ j - 1 \in 1..n /\ i < j - 1
          BY <1>1, <1>2, <2>3, <4>2
        <5> QED BY <1>8, <2>3, <4>2, <5>1
      <4>3. CASE ~(i <= k) /\ ~(j <= k)
        <5>1. i - 1 \in 1..n /\ j - 1 \in 1..n /\ i - 1 < j - 1
          BY <1>1, <1>2, <2>3, <4>3
        <5> QED BY <1>8, <2>3, <4>3, <5>1
      <4> QED BY <1>2, <4>1, <4>2, <4>3
    <3> QED BY <3>1 DEF Ordered
  <2> QED BY <2>1, <2>2, <2>3
<1> QED BY <1>8, <1>9 DEF list

LEMMA CutIs ==
  ASSUME NEW boards \in Seq(BoardLayers), Ordered(boards)
  PROVE  Cut(boards) \in BoardLists /\ Ordered(Cut(boards))
<1> DEFINE m == IF Len(boards) < MaxBoards THEN Len(boards) ELSE MaxBoards
           list == Cut(boards)
<1>1. /\ Len(boards) \in Nat
      /\ \A i \in 1..Len(boards) : boards[i] \in BoardLayers
  BY LenProperties, ElementOfSeq
<1>2. m \in Nat /\ m <= Len(boards) /\ m <= MaxBoards
  BY <1>1, RecordAssumption
<1>3. list = SubSeq(boards, 1, m)
  BY DEF Cut
<1> HIDE DEF m, list
<1>4. list \in Seq(BoardLayers) /\ Len(list) = m /\ \A i \in 1..m : list[i] = boards[i]
  <2>1. \A i \in 1..m : boards[i] \in BoardLayers /\ i \in 1..Len(boards)
    BY <1>1, <1>2
  <2>2. 1 \in Int /\ m \in Int
    BY <1>2
  <2>3. /\ list \in Seq(BoardLayers)
        /\ Len(list) = IF 1 <= m THEN m - 1 + 1 ELSE 0
        /\ \A i \in 1..(m - 1 + 1) : list[i] = boards[1 + i - 1]
    BY <1>3, <2>1, <2>2, SubSeqProperties
  <2>4. /\ m - 1 + 1 = m
        /\ (IF 1 <= m THEN m - 1 + 1 ELSE 0) = m
        /\ \A i \in 1..m : 1 + i - 1 = i
    BY <1>2
  <2> QED BY <2>3, <2>4
<1>5. \A i \in 1..m : i \in 1..Len(boards)
  BY <1>1, <1>2
<1> QED BY <1>2, <1>4, <1>5, BoardListsAre DEF Ordered, list

(* Saving a board keeps the list within its limit and in order, every      *)
(* other operation keeps the list or empties it.                           *)
HasBoards(record) == record.boards \in BoardLists /\ Ordered(record.boards)

LEMMA EmptyHasBoards == <<>> \in BoardLists /\ Ordered(<<>>)
<1>1. <<>> \in Seq(BoardLayers) /\ Len(<<>>) = 0 /\ Len(<<>>) <= MaxBoards
  BY EmptySeq, RecordAssumption
<1>2. <<>> \in BoardLists
  BY <1>1, BoardListsAre
<1>3. 1..Len(<<>>) = {}
  BY <1>1
<1>4. Ordered(<<>>)
  BY <1>3 DEF Ordered
<1> QED BY <1>2, <1>4

LEMMA ApplyKeepsBoards ==
  ASSUME NEW record, HasLayers(record), HasBoards(record), NEW op \in Operations
  PROVE  HasBoards(Apply(op, record))
<1> DEFINE after == Apply(op, record)
<1>1. CASE op.kind = "save_board"
  <2>1. after = SaveBoard(record, op.layer) /\ op.layer \in BoardLayers
    BY <1>1 DEF Apply, Operations
  <2> DEFINE rest == Others(record.boards, op.layer.url)
  <2>2. record.boards \in Seq(BoardLayers)
    BY BoardListsAre DEF HasBoards
  <2>3. /\ rest \in Seq(BoardLayers) /\ Ordered(rest)
        /\ \A i \in 1..Len(rest) : rest[i].url # op.layer.url
    BY <2>2, OthersAre DEF HasBoards
  <2>4. /\ Sorted(rest, op.layer) \in Seq(BoardLayers)
        /\ Ordered(Sorted(rest, op.layer))
    BY <2>1, <2>3, SortedIs
  <2>5. /\ Cut(Sorted(rest, op.layer)) \in BoardLists
        /\ Ordered(Cut(Sorted(rest, op.layer)))
    BY <2>4, CutIs
  <2>6. after = record \/ after.boards = Cut(Sorted(rest, op.layer))
    BY <2>1 DEF SaveBoard, HasLayers
  <2> QED BY <2>5, <2>6 DEF HasBoards
<1>2. CASE op.kind # "save_board"
  <2>1. after.boards = record.boards \/ after.boards = <<>>
    <3>1. CASE op.kind = "save_site"
      BY <3>1 DEF Apply, SaveSite, EmptyRecord, HasLayers
    <3>2. CASE op.kind = "save_career"
      BY <3>2 DEF Apply, SaveCareer, HasLayers
    <3>3. CASE op.kind = "drop_site"
      BY <3>3 DEF Apply, InvalidateSite, EmptyRecord
    <3>4. CASE op.kind = "drop_career"
      BY <3>4 DEF Apply, InvalidateCareer, EmptyRecord, HasLayers
    <3> QED BY <1>2, <3>1, <3>2, <3>3, <3>4 DEF Operations
  <2> QED BY <2>1, EmptyHasBoards DEF HasBoards
<1> QED BY <1>1, <1>2

LEMMA RecordsAre ==
  ASSUME NEW record, HasLayers(record), HasBoards(record)
  PROVE  record \in Records
  BY DEF HasLayers, HasBoards, Records, BoardLists

LEMMA EmptyIsRecord == EmptyRecord \in Records /\ HasBoards(EmptyRecord)
<1>1. HasBoards(EmptyRecord)
  BY EmptyHasBoards DEF HasBoards, EmptyRecord
<1> QED BY <1>1, EmptyHasLayers, RecordsAre

(* What is left to add to IInv: the board lists and the untouched copies.  *)
BoardInv ==
    /\ calls \in 0..MaxCalls
    /\ copy \in [Processes -> [Companies -> Records]]
    /\ \A c \in Companies : HasBoards(file[c])

LEMMA TypedFile == IInv /\ BoardInv => file \in [Companies -> Records]
  BY RecordsAre DEF IInv, BoardInv

LEMMA StepKeepsBoards ==
  ASSUME IInv, BoardInv, [Next]_vars
  PROVE  BoardInv'
<1> USE DEF BoardInv
<1>1. CASE UNCHANGED vars
  BY <1>1 DEF vars
<1>2. CASE Tick
  BY <1>2 DEF Tick
<1>3. ASSUME NEW p \in Processes, NEW c \in Companies, NEW kind, NEW layer,
             Begin(p, c, kind, layer)
      PROVE  BoardInv'
  BY <1>3, StoreAssumption DEF Begin
<1>4. ASSUME NEW p \in Processes, Acquire(p) PROVE BoardInv'
  BY <1>4, TypedFile DEF Acquire
<1>5. ASSUME NEW p \in Processes, Replace(p) PROVE BoardInv'
  <2>1. \A c \in Companies : HasBoards(file'[c])
    BY <1>5, ReplaceIsUpdate, ApplyKeepsBoards DEF IInv, Calls
  <2> QED BY <1>5, <2>1 DEF Replace
<1>6. ASSUME NEW p \in Processes, Release(p) \/ Die(p) PROVE BoardInv'
  BY <1>6, EmptyIsRecord DEF Release, Die, Empty
<1> QED
  BY <1>1, <1>2, <1>3, <1>4, <1>5, <1>6
     DEF Next, SaveSiteCall, SaveCareerCall, SaveBoardCall, DropSiteCall,
         DropCareerCall

LEMMA BoardsInductive == Spec => [](IInv /\ BoardInv)
<1>1. Init => BoardInv
  BY EmptyIsRecord, StoreAssumption DEF Init, BoardInv, Empty
<1> QED BY <1>1, StepKeepsBoards, Inductive, PTL DEF Spec

(* Type correctness of the file, the lock, the calls and the copies.       *)
THEOREM TypeCorrect == Spec => []TypeOK
<1>1. IInv /\ BoardInv => TypeOK
  BY TypedFile DEF IInv, CallsOK, BoardInv, TypeOK
<1> QED BY <1>1, BoardsInductive, PTL

(* However late a save gets the lock, the stored boards are newest first   *)
(* with one entry per identity: the cut never drops a board in favour of   *)
(* an older or a duplicate one.                                            *)
THEOREM BoardsInOrder == Spec => []NewestBoardsFirst
<1>1. IInv /\ BoardInv => NewestBoardsFirst
  <2> SUFFICES ASSUME BoardInv, NEW c \in Companies
               PROVE  \A i, j \in DOMAIN file[c].boards :
                        i < j => /\ file[c].boards[i].at >= file[c].boards[j].at
                                 /\ file[c].boards[i].url # file[c].boards[j].url
    BY DEF NewestBoardsFirst
  <2>1. file[c].boards \in Seq(BoardLayers) /\ Ordered(file[c].boards)
    BY BoardListsAre DEF BoardInv, HasBoards
  <2> QED BY <2>1, LenProperties DEF Ordered
<1> QED BY <1>1, BoardsInductive, PTL
=============================================================================
