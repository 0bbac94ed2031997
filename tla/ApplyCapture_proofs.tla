------------------------- MODULE ApplyCapture_proofs -------------------------
(***************************************************************************)
(* Proofs about the apply capture of the extension, for any tabs, jobs and *)
(* limits and any number of listeners at work at once: a record is taken   *)
(* near its posting, no page of the target is missed, and what a second    *)
(* new tab brings back of a recorded capture never records the same tab.   *)
(***************************************************************************)
EXTENDS ApplyCapture, SequenceTheorems, TLAPS

-----------------------------------------------------------------------------
(* The inductive invariant                                                 *)

Events == [kind : {"created", "updated"}, tab : Tabs, page : Pages]

(* The shape of a listener: which calls it may be waiting for.             *)
HandlerRecords ==
    [pc : Pcs, op : Ops, tab : Tabs \cup {None}, page : Pages,
     job : Jobs \cup {None}, pend : Captures \cup {None}, records : Seq(Records)]

TypeInv ==
    /\ session \in Captures \cup {None}
    /\ captures \in Seq(Records) /\ Len(captures) <= MaxRecords
    /\ tabs \in [Tabs -> [opener : SourceTabs \cup OtherTabs \cup {None},
                          page : Pages, next : Pages \cup {None}]]
    /\ events \in Seq(Events)
    /\ begun \in 0..MaxCaptures
    /\ expired \in 0..begun
    /\ handler \in [Handlers -> HandlerRecords]

ShapeOf(r) ==
    /\ r.pc = "idle" => r = IdleHandler
    /\ r.op = "none" => r.pc = "idle"
    /\ r.op = "begin" =>
        /\ r.pc \in {"read", "drop", "write", "trigger", "undo"}
        /\ r.tab \in SourceTabs /\ r.job \in Jobs
    /\ r.op = "status" => r.pc \in {"read", "drop"}
    /\ r.op = "created" => r.pc \notin {"trigger", "undo"}
    /\ r.op = "updated" => r.pc \notin {"trigger", "undo", "write", "look"}
    /\ (r.op = "created" /\ r.pc \notin {"store", "clear"}) => r.tab \in NewTabs
    /\ (r.op = "updated" /\ r.pc \notin {"store", "clear"}) => r.tab \in Tabs
    /\ r.pc \in {"write", "load"} => r.pend \in Captures /\ r.pend.id <= begun
    /\ r.pc = "store" => Len(r.records) <= MaxRecords

ShapeInv == \A h \in Handlers : ShapeOf(handler[h])

(* A capture that is begun but not yet stored, and a tab whose creation no *)
(* listener has answered yet.                                              *)
Begins(h)    == handler[h].pc = "write" /\ handler[h].op = "begin"
Announces(h) == handler[h].op = "created" /\ handler[h].pc \in {"read", "drop", "write"}
Told(i)      == events[i].kind = "created"

IsNewId(n)  == \E h \in Handlers : Begins(h) /\ handler[h].pend.id = n
IsNewTab(t) ==
    \/ t \in NewTabs /\ tabs[t].opener = None
    \/ \E i \in 1..Len(events) : Told(i) /\ events[i].tab = t
    \/ \E h \in Handlers : Announces(h) /\ handler[h].tab = t

(* Each of them is new once.                                               *)
NewInv ==
    /\ \A h, g \in Handlers :
          Begins(h) /\ Begins(g) /\ handler[h].pend.id = handler[g].pend.id => h = g
    /\ \A h, g \in Handlers :
          Announces(h) /\ Announces(g) /\ handler[h].tab = handler[g].tab => h = g
    /\ \A i, k \in 1..Len(events) :
          Told(i) /\ Told(k) /\ events[i].tab = events[k].tab => i = k
    /\ \A i \in 1..Len(events), h \in Handlers :
          Told(i) /\ Announces(h) => events[i].tab # handler[h].tab
    /\ \A i \in 1..Len(events) :
          Told(i) => events[i].tab \in NewTabs /\ tabs[events[i].tab].opener # None
    /\ \A h \in Handlers : Announces(h) => tabs[handler[h].tab].opener # None

(* What is new is nowhere else: not in the stored capture, not in one that *)
(* a listener has read, not in a record.                                   *)
Near(r) ==
    /\ r.tab = r.source \/ tabs[r.tab].opener = r.source
    /\ IsExternal(r.page)

Sound(r) == Near(r) /\ r.id <= begun /\ ~IsNewId(r.id) /\ ~IsNewTab(r.tab)

Pointed(p) ==
    /\ p.id <= begun
    /\ p.target # None => tabs[p.target].opener = p.source

Known(p) == Pointed(p) /\ ~IsNewId(p.id) /\ ~IsNewTab(p.target)

SoundAt(h) ==
    /\ Begins(h) => handler[h].pend.target = None
    /\ (handler[h].pc = "write" /\ handler[h].op = "created") =>
        /\ Pointed(handler[h].pend) /\ ~IsNewId(handler[h].pend.id)
        /\ handler[h].pend.target = handler[h].tab
    /\ handler[h].pc = "load" =>
        /\ Known(handler[h].pend)
        /\ handler[h].tab \in {handler[h].pend.source, handler[h].pend.target}
        /\ IsExternal(handler[h].page)
    /\ handler[h].pc = "store" =>
        \A i \in 1..Len(handler[h].records) : Sound(handler[h].records[i])

SoundInv ==
    /\ session # None => Known(session)
    /\ \A i \in 1..Len(captures) : Sound(captures[i])
    /\ \A h \in Handlers : SoundAt(h)

(* An external page of the target is about to be looked at.                *)
Concerns(r, t) ==
    \/ r.pc = "look" /\ r.tab = t
    \/ r.pc = "read" /\ r.op = "updated" /\ r.tab = t /\ IsExternal(r.page)
    \/ r.pc = "reread" /\ r.tab = t /\ IsExternal(r.page)
    \/ r.pc \in {"load", "store", "clear"}

Attended(t) ==
    \/ \E i \in 1..Len(events) :
          events[i].kind = "updated" /\ events[i].tab = t /\ IsExternal(events[i].page)
    \/ \E h \in Handlers : Concerns(handler[h], t)

AttendInv ==
    (Live(session) /\ session.target # None /\ IsExternal(Shown(tabs[session.target])))
        => Attended(session.target)

(* A recorded capture that is still pending is about to be cleared.        *)
OverInv ==
    session # None =>
        \A i \in 1..Len(captures) :
            (captures[i].id = session.id /\ session.target \in {None, captures[i].tab})
                => \E h \in Handlers : handler[h].pc = "clear"

IInv == TypeInv /\ ShapeInv /\ NewInv /\ SoundInv /\ AttendInv /\ OverInv

-----------------------------------------------------------------------------
(* The records of a container                                              *)

LEMMA KeptRecords ==
  ASSUME NEW T, NEW r \in T, NEW seq \in Seq(T), NEW job
  PROVE  /\ Keep(MaxRecords, <<r>> \o OfOthers(job, seq)) \in Seq(T)
         /\ Len(Keep(MaxRecords, <<r>> \o OfOthers(job, seq))) <= MaxRecords
<1> DEFINE rest == OfOthers(job, seq)
           all == <<r>> \o rest
           n == IF Len(all) < MaxRecords THEN Len(all) ELSE MaxRecords
<1>1. rest \in Seq(T)
  <2>1. CASE \A i \in DOMAIN seq : seq[i].job # job
    BY <2>1 DEF OfOthers
  <2>2. CASE ~(\A i \in DOMAIN seq : seq[i].job # job)
    <3> DEFINE k == CHOOSE i \in DOMAIN seq : seq[i].job = job
    <3>1. k \in 1..Len(seq) /\ Len(seq) \in Nat
      BY <2>2, LenProperties
    <3>2. rest = SubSeq(seq, 1, k - 1) \o SubSeq(seq, k + 1, Len(seq))
      BY <2>2 DEF OfOthers
    <3> HIDE DEF k, rest
    <3>3. \A i \in 1..Len(seq) : seq[i] \in T
      BY ElementOfSeq
    <3>4. SubSeq(seq, 1, k - 1) \in Seq(T)
      <4>1. 1 \in Int /\ k - 1 \in Int /\ \A i \in 1..(k - 1) : seq[i] \in T
        BY <3>1, <3>3
      <4> QED BY <4>1, SubSeqProperties
    <3>5. SubSeq(seq, k + 1, Len(seq)) \in Seq(T)
      <4>1. k + 1 \in Int /\ Len(seq) \in Int
            /\ \A i \in (k + 1)..Len(seq) : seq[i] \in T
        BY <3>1, <3>3
      <4> QED BY <4>1, SubSeqProperties
    <3> QED BY <3>2, <3>4, <3>5, ConcatProperties
  <2> QED BY <2>1, <2>2
<1> HIDE DEF rest
<1>2. <<r>> \in Seq(T)
  OBVIOUS
<1>3. all \in Seq(T)
  BY <1>1, <1>2, ConcatProperties
<1> HIDE DEF all
<1>4. Len(all) \in Nat /\ \A i \in 1..Len(all) : all[i] \in T
  BY <1>3, LenProperties, ElementOfSeq
<1>5. n \in Nat /\ n <= MaxRecords /\ n <= Len(all)
  BY <1>4, CaptureAssumption
<1>6. Keep(MaxRecords, all) = SubSeq(all, 1, n)
  BY DEF Keep
<1> HIDE DEF n
<1>7. 1 \in Int /\ n \in Int /\ \A i \in 1..n : all[i] \in T
  BY <1>4, <1>5
<1>8. /\ SubSeq(all, 1, n) \in Seq(T)
      /\ Len(SubSeq(all, 1, n)) = IF 1 <= n THEN n - 1 + 1 ELSE 0
  BY <1>7, SubSeqProperties
<1>9. Len(SubSeq(all, 1, n)) <= MaxRecords
  BY <1>5, <1>8
<1> QED BY <1>6, <1>8, <1>9 DEF all, rest

LEMMA InSeq ==
  ASSUME NEW S, NEW seq \in Seq(S), NEW T, \A i \in 1..Len(seq) : seq[i] \in T
  PROVE  seq \in Seq(T)
<1>1. Len(seq) \in Nat /\ seq \in [1..Len(seq) -> S]
  BY LenProperties
<1>2. seq \in [1..Len(seq) -> T]
  BY <1>1
<1> QED BY <1>1, <1>2, SeqDef

(* An event sent and an event delivered.                                   *)
LEMMA Sent ==
  ASSUME events \in Seq(Events), NEW kind \in {"created", "updated"},
         NEW t \in Tabs, NEW page \in Pages, Notify(kind, t, page)
  PROVE  /\ events' \in Seq(Events)
         /\ Len(events) \in Nat /\ Len(events') = Len(events) + 1
         /\ \A i \in 1..Len(events) : events'[i] = events[i]
         /\ events'[Len(events) + 1] = [kind |-> kind, tab |-> t, page |-> page]
<1>1. [kind |-> kind, tab |-> t, page |-> page] \in Events
  BY DEF Events
<1> QED BY <1>1, AppendProperties, LenProperties DEF Notify

LEMMA StillThere ==
  ASSUME events \in Seq(Events), NEW kind \in {"created", "updated"},
         NEW t \in Tabs, NEW page \in Pages, Notify(kind, t, page)
  PROVE  /\ \A i \in 1..Len(events) : events'[i] = events[i] /\ i \in 1..Len(events')
         /\ \E k \in 1..Len(events') :
               events'[k] = [kind |-> kind, tab |-> t, page |-> page]
<1>1. /\ Len(events) \in Nat /\ Len(events') = Len(events) + 1
      /\ \A i \in 1..Len(events) : events'[i] = events[i]
      /\ events'[Len(events) + 1] = [kind |-> kind, tab |-> t, page |-> page]
  BY Sent
<1>2. Len(events) + 1 \in 1..Len(events')
  BY <1>1
<1>3. \A i \in 1..Len(events) : i \in 1..Len(events')
  BY <1>1
<1> QED BY <1>1, <1>2, <1>3

LEMMA Delivered ==
  ASSUME events \in Seq(Events), events # <<>>, events' = Tail(events)
  PROVE  /\ events' \in Seq(Events)
         /\ Len(events) \in Nat /\ 1 \in 1..Len(events) /\ Len(events') = Len(events) - 1
         /\ \A i \in 1..Len(events') : events'[i] = events[i + 1]
         /\ Head(events) = events[1] /\ Head(events) \in Events
<1>1. Len(events) \in Nat \ {0}
  BY EmptySeq
<1> QED BY <1>1, HeadTailProperties

-----------------------------------------------------------------------------
(* Types                                                                   *)

LEMMA PagesAre ==
  /\ Blank \in Pages /\ Other \in Pages
  /\ \A j \in Jobs : Posting(j) \in Pages /\ Site(j) \in Pages
  /\ \A t \in Tabs : TypeInv => Shown(tabs[t]) \in Pages
<1>1. /\ Blank \in Pages /\ Other \in Pages
      /\ \A j \in Jobs : Posting(j) \in Pages /\ Site(j) \in Pages
  BY DEF Pages
<1> QED BY <1>1 DEF TypeInv, Shown

LEMMA IdleIs == IdleHandler \in HandlerRecords
<1>1. <<>> \in Seq(Records)
  BY EmptySeq
<1> QED BY <1>1, PagesAre DEF IdleHandler, HandlerRecords, Pcs, Ops

(* A listener's step leaves the others where they are.                     *)
Only(h) == \A g \in Handlers : g # h => handler'[g] = handler[g]

LEMMA Moved ==
  ASSUME TypeInv, NEW h \in Handlers, NEW new \in HandlerRecords,
         handler' = [handler EXCEPT ![h] = new]
  PROVE  handler' \in [Handlers -> HandlerRecords] /\ Only(h) /\ handler'[h] = new
  BY DEF TypeInv, Only

LEMMA Gone ==
  ASSUME TypeInv, NEW h \in Handlers, Finish(h)
  PROVE  handler' \in [Handlers -> HandlerRecords] /\ Only(h) /\ handler'[h] = IdleHandler
  BY Moved, IdleIs DEF Finish

LEMMA Went ==
  ASSUME TypeInv, NEW h \in Handlers, NEW pc \in Pcs, Goto(h, pc)
  PROVE  /\ handler' \in [Handlers -> HandlerRecords] /\ Only(h)
         /\ handler'[h] = [handler[h] EXCEPT !.pc = pc]
<1>1. handler' = [handler EXCEPT ![h] = [handler[h] EXCEPT !.pc = pc]]
  BY DEF Goto, TypeInv
<1>2. [handler[h] EXCEPT !.pc = pc] \in HandlerRecords
  BY DEF TypeInv, HandlerRecords
<1> QED BY <1>1, <1>2, Moved

Start(op, pc, t, page, j) ==
    [IdleHandler EXCEPT !.pc = pc, !.op = op, !.tab = t, !.page = page, !.job = j]

LEMMA Entered ==
  ASSUME TypeInv, NEW h \in Handlers, NEW op \in Ops, NEW pc \in Pcs,
         NEW t \in Tabs \cup {None}, NEW page \in Pages, NEW j \in Jobs \cup {None},
         Enter(h, op, pc, t, page, j)
  PROVE  /\ handler' \in [Handlers -> HandlerRecords] /\ Only(h)
         /\ handler'[h] = Start(op, pc, t, page, j)
<1> DEFINE new == Start(op, pc, t, page, j)
<1>1. new \in HandlerRecords
  BY IdleIs DEF HandlerRecords, IdleHandler, Start
<1>2. handler' = [handler EXCEPT ![h] = new]
  BY DEF Enter, Start
<1> HIDE DEF new
<1>3. handler' \in [Handlers -> HandlerRecords] /\ Only(h) /\ handler'[h] = new
  BY <1>1, <1>2, Moved
<1> QED BY <1>3 DEF new

(* A capture is begun by a listener at work on a posting.                  *)
Fresh(h) == [id |-> begun + 1, job |-> handler[h].job,
             source |-> handler[h].tab, target |-> None]

LEMMA Numbered ==
  ASSUME TypeInv, ShapeInv, NEW h \in Handlers, handler[h].op = "begin", NewCapture(h)
  PROVE  /\ handler' \in [Handlers -> HandlerRecords] /\ Only(h)
         /\ handler'[h] = [handler[h] EXCEPT !.pc = "write", !.pend = Fresh(h)]
         /\ Fresh(h) \in Captures
         /\ begun' = begun + 1 /\ begun' \in 0..MaxCaptures
<1> DEFINE new == [handler[h] EXCEPT !.pc = "write", !.pend = Fresh(h)]
<1>1. handler[h] \in HandlerRecords /\ handler[h].tab \in SourceTabs /\ handler[h].job \in Jobs
  BY DEF TypeInv, ShapeInv, ShapeOf
<1>2. begun' = begun + 1 /\ begun' \in 0..MaxCaptures /\ begun + 1 \in 1..MaxCaptures
  BY CaptureAssumption DEF NewCapture, TypeInv
<1>3. Fresh(h) \in Captures
  BY <1>1, <1>2 DEF Fresh, Captures
<1>4. new \in HandlerRecords
  BY <1>1, <1>3 DEF HandlerRecords, Pcs
<1>5. handler' = [handler EXCEPT ![h] = new]
  BY DEF NewCapture, Fresh, TypeInv
<1> HIDE DEF new
<1>6. handler' \in [Handlers -> HandlerRecords] /\ Only(h) /\ handler'[h] = new
  BY <1>4, <1>5, Moved
<1> QED BY <1>2, <1>3, <1>6 DEF new

LEMMA ShapeOne ==
  ASSUME TypeInv, ShapeInv, NEW h \in Handlers, Only(h),
         begun' = begun \/ begun' = begun + 1, ShapeOf(handler[h])'
  PROVE  ShapeInv'
<1>1. ASSUME NEW g \in Handlers, g # h PROVE ShapeOf(handler[g])'
  <2>1. handler'[g] = handler[g] /\ ShapeOf(handler[g])
    BY <1>1 DEF Only, ShapeInv
  <2>2. \A n \in Nat : n <= begun => n <= begun'
    BY DEF TypeInv
  <2>3. handler[g].pc \in {"write", "load"} => handler[g].pend.id \in Nat
    BY <2>1 DEF ShapeOf, Captures
  <2> QED BY <2>1, <2>2, <2>3 DEF ShapeOf
<1> QED BY <1>1 DEF ShapeInv

LEMMA Names ==
  /\ \A op \in {"begin", "status", "created", "updated"} : op \in Ops
  /\ \A pc \in {"read", "drop", "trigger", "undo", "reread", "redrop"} : pc \in Pcs
  BY DEF Ops, Pcs

(* Types and shapes of what a listener does.                               *)
Typed(h) == TypeInv' /\ ShapeInv' /\ Only(h)

LEMMA GoneTypes ==
  ASSUME TypeInv, ShapeInv, NEW h \in Handlers, Finish(h),
         session' \in Captures \cup {None},
         UNCHANGED <<captures, tabs, events, begun, expired>>
  PROVE  Typed(h)
<1>1. handler' \in [Handlers -> HandlerRecords] /\ Only(h) /\ handler'[h] = IdleHandler
  BY Gone
<1>2. ShapeOf(handler[h])'
  BY <1>1 DEF ShapeOf, IdleHandler
<1> QED BY <1>1, <1>2, ShapeOne DEF Typed, TypeInv

LEMMA NumberedTypes ==
  ASSUME TypeInv, ShapeInv, NEW h \in Handlers, handler[h].op = "begin",
         handler[h].pc # "idle", NewCapture(h), session' \in Captures \cup {None},
         UNCHANGED <<captures, tabs, events, expired>>
  PROVE  Typed(h)
<1>1. /\ handler' \in [Handlers -> HandlerRecords] /\ Only(h)
      /\ handler'[h] = [handler[h] EXCEPT !.pc = "write", !.pend = Fresh(h)]
      /\ Fresh(h) \in Captures /\ Fresh(h).id = begun'
      /\ begun' = begun + 1 /\ begun' \in 0..MaxCaptures
  BY Numbered DEF Fresh
<1>2. handler[h] \in HandlerRecords /\ ShapeOf(handler[h])
  BY DEF TypeInv, ShapeInv
<1>3. begun' <= begun' /\ expired' \in 0..begun'
  BY <1>1 DEF TypeInv
<1>4. ShapeOf(handler[h])'
  BY <1>1, <1>2, <1>3 DEF ShapeOf, HandlerRecords
<1> QED BY <1>1, <1>3, <1>4, ShapeOne DEF Typed, TypeInv

(* The container that a listener is about to store.                        *)
LEMMA Loaded ==
  ASSUME TypeInv, NEW h \in Handlers, LoadCaptures(h), NewRecord(h) \in Records
  PROVE  /\ handler' \in [Handlers -> HandlerRecords] /\ Only(h)
         /\ handler'[h].pc = "store" /\ handler'[h].op = handler[h].op
         /\ handler'[h].records =
              Keep(MaxRecords, <<NewRecord(h)>> \o OfOthers(handler[h].pend.job, captures))
         /\ handler'[h].records \in Seq(Records) /\ Len(handler'[h].records) <= MaxRecords
<1> DEFINE records ==
             Keep(MaxRecords, <<NewRecord(h)>> \o OfOthers(handler[h].pend.job, captures))
           new == [IdleHandler EXCEPT !.pc = "store", !.op = handler[h].op,
                                      !.records = records]
<1>1. records \in Seq(Records) /\ Len(records) <= MaxRecords
  BY KeptRecords DEF TypeInv
<1>2. handler' = [handler EXCEPT ![h] = new]
  BY DEF LoadCaptures, Store
<1> HIDE DEF records
<1>3. new \in HandlerRecords
  BY <1>1, IdleIs DEF HandlerRecords, Pcs, IdleHandler, TypeInv
<1>4. new.pc = "store" /\ new.op = handler[h].op /\ new.records = records
  BY DEF IdleHandler
<1> HIDE DEF new
<1>5. handler' \in [Handlers -> HandlerRecords] /\ Only(h) /\ handler'[h] = new
  BY <1>2, <1>3, Moved
<1> QED BY <1>1, <1>4, <1>5 DEF records

LEMMA LoadTypes ==
  ASSUME TypeInv, ShapeInv, NEW h \in Handlers, LoadCaptures(h), NewRecord(h) \in Records
  PROVE  Typed(h)
<1>1. handler[h].pc = "load" /\ handler[h] \in HandlerRecords /\ ShapeOf(handler[h])
  BY DEF LoadCaptures, TypeInv, ShapeInv
<1>2. ShapeOf(handler[h])'
  BY <1>1, Loaded DEF ShapeOf, HandlerRecords, Ops
<1> QED BY <1>2, Loaded, ShapeOne DEF LoadCaptures, Typed, TypeInv

LEMMA ListenerTypes ==
  ASSUME TypeInv, ShapeInv, NewInv, SoundInv, NEW h \in Handlers, Listener(h)
  PROVE  Typed(h)
<1> USE DEF Typed
<1>0. /\ handler[h] \in HandlerRecords /\ ShapeOf(handler[h])
      /\ session \in Captures \cup {None}
      /\ session # None => session \in Captures /\ session.id <= begun
  BY DEF TypeInv, ShapeInv, SoundInv, Known, Pointed
<1>1. ASSUME NEW s \in SourceTabs, NEW j \in Jobs, BeginCapture(h, s, j)
      PROVE  Typed(h)
  <2>1. s \in Tabs /\ Blank \in Pages
    BY PagesAre DEF Tabs
  <2>2. /\ handler' \in [Handlers -> HandlerRecords] /\ Only(h)
        /\ handler'[h] = Start("begin", "read", s, Blank, j)
    BY <1>1, <2>1, Entered, Names DEF BeginCapture
  <2>3. ShapeOf(handler[h])'
    BY <2>2 DEF ShapeOf, IdleHandler, Start
  <2> QED BY <1>1, <2>2, <2>3, ShapeOne DEF BeginCapture, TypeInv
<1>2. CASE GetCaptureStatus(h)
  <2>1. /\ handler' \in [Handlers -> HandlerRecords] /\ Only(h)
        /\ handler'[h] = Start("status", "drop", None, Blank, None)
    BY <1>2, PagesAre, Entered, Names DEF GetCaptureStatus
  <2>2. ShapeOf(handler[h])'
    BY <2>1 DEF ShapeOf, IdleHandler, Start
  <2> QED BY <1>2, <2>1, <2>2, ShapeOne DEF GetCaptureStatus, TypeInv
<1>3. CASE Deliver(h)
  <2> DEFINE e == Head(events)
  <2>1. e \in Events /\ events' \in Seq(Events)
    BY <1>3, Delivered DEF Deliver, TypeInv
  <2> HIDE DEF e
  <2>2. e.kind \in {"created", "updated"} /\ e.tab \in Tabs /\ e.page \in Pages
    BY <2>1 DEF Events
  <2>3. Enter(h, e.kind, "read", e.tab, e.page, None)
    BY <1>3 DEF Deliver, e
  <2>4. /\ handler' \in [Handlers -> HandlerRecords] /\ Only(h)
        /\ handler'[h] = Start(e.kind, "read", e.tab, e.page, None)
    BY <2>2, <2>3, Entered, Names
  <2>5. e.kind = "created" => e.tab \in NewTabs
    BY <1>3, Delivered DEF Deliver, TypeInv, NewInv, e, Told
  <2>6. ShapeOf(handler[h])'
    BY <2>2, <2>4, <2>5 DEF ShapeOf, IdleHandler, Start
  <2> QED BY <1>3, <2>1, <2>4, <2>6, ShapeOne DEF Deliver, TypeInv
<1>4. CASE ReadNothing(h)
  <2>1. CASE handler[h].op = "begin"
    <3>1. NewCapture(h) /\ UNCHANGED <<session, captures, tabs, events, expired>>
      BY <1>4, <2>1 DEF ReadNothing
    <3>2. handler[h].pc # "idle" /\ session' \in Captures \cup {None}
      BY <1>0, <1>4, <3>1 DEF ReadNothing
    <3> QED BY <2>1, <3>1, <3>2, NumberedTypes
  <2>2. CASE handler[h].op # "begin"
    BY <1>4, <2>2, Gone, GoneTypes DEF ReadNothing
  <2> QED BY <2>1, <2>2
<1>5. CASE ReadExpired(h)
  <2>1. PICK pc \in {"drop", "redrop"} :
          Goto(h, pc) /\ (handler[h].pc = "read" <=> pc = "drop")
    BY <1>5 DEF ReadExpired
  <2>2. /\ handler' \in [Handlers -> HandlerRecords] /\ Only(h)
        /\ handler'[h] = [handler[h] EXCEPT !.pc = pc]
    BY <2>1, Went, Names
  <2>3. ShapeOf(handler[h])'
    BY <1>0, <1>5, <2>1, <2>2 DEF ReadExpired, ShapeOf, HandlerRecords
  <2> QED BY <1>5, <2>2, <2>3, ShapeOne DEF ReadExpired, TypeInv
<1>6. CASE DropExpired(h)
  <2>1. session' \in Captures \cup {None}
    BY <1>6 DEF DropExpired
  <2>2. CASE handler[h].op = "begin"
    <3>1. NewCapture(h) /\ UNCHANGED <<captures, tabs, events, expired>>
      BY <1>6, <2>2 DEF DropExpired
    <3>2. handler[h].pc # "idle"
      BY <1>6 DEF DropExpired
    <3> QED BY <2>1, <2>2, <3>1, <3>2, NumberedTypes
  <2>3. CASE handler[h].op # "begin"
    BY <1>6, <2>1, <2>3, GoneTypes DEF DropExpired
  <2> QED BY <2>2, <2>3
<1>7. CASE BeginRefused(h) \/ UndoCapture(h) \/ ClearPending(h)
  BY <1>0, <1>7, GoneTypes DEF BeginRefused, UndoCapture, ClearPending
<1>8. CASE TabCreated(h)
  <2>1. CASE Finish(h)
    BY <1>0, <1>8, <2>1, GoneTypes DEF TabCreated
  <2>2. CASE ~Finish(h)
    <3> DEFINE pend == [session EXCEPT !.target = handler[h].tab]
               new == [handler[h] EXCEPT !.pc = "write", !.pend = pend]
    <3>1. /\ handler' = [handler EXCEPT ![h].pc = "write", ![h].pend = pend]
          /\ handler[h].op = "created" /\ handler[h].pc = "read" /\ session # None
      BY <1>8, <2>2 DEF TabCreated, Live
    <3>2. pend \in Captures /\ pend.id <= begun
      BY <1>0, <3>1 DEF Captures, ShapeOf
    <3>3. new \in HandlerRecords /\ handler' = [handler EXCEPT ![h] = new]
      BY <1>0, <3>1, <3>2 DEF HandlerRecords, Pcs, TypeInv
    <3> HIDE DEF new
    <3>4. handler' \in [Handlers -> HandlerRecords] /\ Only(h) /\ handler'[h] = new
      BY <3>3, Moved
    <3>5. ShapeOf(handler[h])'
      BY <1>0, <1>8, <3>1, <3>2, <3>4 DEF TabCreated, ShapeOf, new, HandlerRecords
    <3> QED BY <1>8, <3>4, <3>5, ShapeOne DEF TabCreated, TypeInv
  <2> QED BY <2>1, <2>2
<1>9. CASE TabUpdated(h)
  <2>1. CASE Finish(h)
    BY <1>0, <1>9, <2>1, GoneTypes DEF TabUpdated
  <2>2. CASE Goto(h, "reread")
    <3>1. /\ handler' \in [Handlers -> HandlerRecords] /\ Only(h)
          /\ handler'[h] = [handler[h] EXCEPT !.pc = "reread"]
      BY <2>2, Went, Names
    <3>2. ShapeOf(handler[h])'
      BY <1>0, <1>9, <3>1 DEF TabUpdated, ShapeOf, HandlerRecords
    <3> QED BY <1>9, <3>1, <3>2, ShapeOne DEF TabUpdated, TypeInv
  <2> QED BY <1>9, <2>1, <2>2 DEF TabUpdated
<1>10. CASE WritePending(h)
  <2> DEFINE pc == IF handler[h].op = "begin" THEN "trigger" ELSE "look"
             new == [handler[h] EXCEPT !.pc = pc, !.pend = None]
  <2>1. new \in HandlerRecords /\ handler' = [handler EXCEPT ![h] = new]
    BY <1>0, <1>10 DEF WritePending, HandlerRecords, Pcs, TypeInv
  <2>2. session' \in Captures
    BY <1>0, <1>10 DEF WritePending, ShapeOf
  <2> HIDE DEF new
  <2>3. handler' \in [Handlers -> HandlerRecords] /\ Only(h) /\ handler'[h] = new
    BY <2>1, Moved
  <2>4. ShapeOf(handler[h])'
    BY <1>0, <1>10, <2>3 DEF WritePending, ShapeOf, new, HandlerRecords
  <2> QED BY <1>10, <2>2, <2>3, <2>4, ShapeOne DEF WritePending, TypeInv
<1>11. CASE LookAtTab(h)
  <2> DEFINE new == [handler[h] EXCEPT !.pc = "reread", !.page = Shown(tabs[handler[h].tab])]
  <2>1. handler[h].op = "created" /\ handler[h].tab \in Tabs
    BY <1>0, <1>11 DEF LookAtTab, ShapeOf, HandlerRecords, Tabs, Ops
  <2>2. new \in HandlerRecords /\ handler' = [handler EXCEPT ![h] = new]
    BY <1>0, <1>11, <2>1, PagesAre DEF LookAtTab, HandlerRecords, Pcs, TypeInv
  <2> HIDE DEF new
  <2>3. handler' \in [Handlers -> HandlerRecords] /\ Only(h) /\ handler'[h] = new
    BY <2>2, Moved
  <2>4. ShapeOf(handler[h])'
    BY <1>0, <1>11, <2>1, <2>3 DEF LookAtTab, ShapeOf, new, HandlerRecords
  <2> QED BY <1>11, <2>3, <2>4, ShapeOne DEF LookAtTab, TypeInv
<1>12. CASE SelectForApply(h)
  <2>1. handler' = handler /\ Only(h) /\ handler[h].job \in Jobs
    BY <1>0, <1>12 DEF SelectForApply, Only, ShapeOf, HandlerRecords, Ops
  <2>2. TypeInv'
    BY <1>12, <2>1, PagesAre DEF SelectForApply, TypeInv
  <2> QED BY <1>12, <2>1, <2>2 DEF SelectForApply, ShapeInv, ShapeOf
<1>13. ASSUME NEW t \in NewTabs, ClickOpensTab(h, t) PROVE Typed(h)
  <2>1. t \in Tabs /\ handler[h].tab \in SourceTabs /\ handler[h].job \in Jobs
    BY <1>0, <1>13 DEF ClickOpensTab, Tabs, ShapeOf, HandlerRecords, Ops
  <2>2. events' \in Seq(Events)
    BY <1>13, <2>1, Sent, PagesAre DEF ClickOpensTab, Opened, TypeInv
  <2>3. tabs' \in [Tabs -> [opener : SourceTabs \cup OtherTabs \cup {None},
                            page : Pages, next : Pages \cup {None}]]
    BY <1>13, <2>1, PagesAre DEF ClickOpensTab, Opened, TypeInv
  <2>4. handler' \in [Handlers -> HandlerRecords] /\ Only(h) /\ handler'[h] = IdleHandler
    BY <1>13, Gone DEF ClickOpensTab
  <2>5. ShapeOf(handler[h])'
    BY <2>4 DEF ShapeOf, IdleHandler
  <2> QED BY <1>13, <2>2, <2>3, <2>4, <2>5, ShapeOne DEF ClickOpensTab, TypeInv
<1>14. ASSUME NEW answered \in BOOLEAN, ClickNavigates(h, answered) PROVE Typed(h)
  <2>1. handler[h].tab \in Tabs /\ handler[h].job \in Jobs
    BY <1>0, <1>14 DEF ClickNavigates, Tabs, ShapeOf, HandlerRecords, Ops
  <2>2. tabs' \in [Tabs -> [opener : SourceTabs \cup OtherTabs \cup {None},
                            page : Pages, next : Pages \cup {None}]]
    BY <1>14, <2>1, PagesAre DEF ClickNavigates, TypeInv
  <2>3. /\ handler' \in [Handlers -> HandlerRecords] /\ Only(h) 
        /\ \/ handler'[h] = IdleHandler
           \/ handler'[h] = [handler[h] EXCEPT !.pc = "undo"]
    BY <1>14, Gone, Went, Names DEF ClickNavigates
  <2>4. ShapeOf(handler[h])'
    <3>1. CASE handler'[h] = IdleHandler
      BY <3>1 DEF ShapeOf, IdleHandler
    <3>2. CASE handler'[h] = [handler[h] EXCEPT !.pc = "undo"]
      <4>1. handler[h].pc = "trigger"
        BY <1>14 DEF ClickNavigates
      <4> QED BY <1>0, <3>2, <4>1 DEF ShapeOf, HandlerRecords
    <3> QED BY <2>3, <3>1, <3>2
  <2> QED BY <1>14, <2>2, <2>3, <2>4, ShapeOne DEF ClickNavigates, TypeInv
<1>15. CASE TriggerFails(h)
  <2>1. /\ handler' \in [Handlers -> HandlerRecords] /\ Only(h)
        /\ handler'[h] = [handler[h] EXCEPT !.pc = "undo"]
    BY <1>15, Went, Names DEF TriggerFails
  <2>2. ShapeOf(handler[h])'
    BY <1>0, <1>15, <2>1 DEF TriggerFails, ShapeOf, HandlerRecords
  <2> QED BY <1>15, <2>1, <2>2, ShapeOne DEF TriggerFails, TypeInv
<1>16. CASE MaybeFinalize(h)
  <2>1. CASE Finish(h)
    BY <1>0, <1>16, <2>1, GoneTypes DEF MaybeFinalize
  <2>2. CASE ~Finish(h)
    <3> DEFINE new == [handler[h] EXCEPT !.pc = "load", !.pend = session]
    <3>1. /\ handler' = [handler EXCEPT ![h].pc = "load", ![h].pend = session]
          /\ handler[h].pc = "reread" /\ session # None
      BY <1>16, <2>2 DEF MaybeFinalize, Live
    <3>2. new \in HandlerRecords /\ handler' = [handler EXCEPT ![h] = new]
      BY <1>0, <3>1 DEF HandlerRecords, Pcs, TypeInv
    <3> HIDE DEF new
    <3>3. handler' \in [Handlers -> HandlerRecords] /\ Only(h) /\ handler'[h] = new
      BY <3>2, Moved
    <3>4. ShapeOf(handler[h])'
      BY <1>0, <1>16, <3>1, <3>3 DEF MaybeFinalize, ShapeOf, new, HandlerRecords
    <3> QED BY <1>16, <3>3, <3>4, ShapeOne DEF MaybeFinalize, TypeInv
  <2> QED BY <2>1, <2>2
<1>17. CASE LoadCaptures(h)
  <2>1. NewRecord(h) \in Records
    BY <1>0, <1>17, CaptureAssumption DEF LoadCaptures, NewRecord, Records, Captures, ShapeOf, HandlerRecords, SoundInv, Tabs, Ops
  <2> QED BY <1>17, <2>1, LoadTypes
<1>18. CASE StoreCaptures(h)
  <2> DEFINE new == [IdleHandler EXCEPT !.pc = "clear", !.op = handler[h].op]
  <2>1. new \in HandlerRecords /\ handler' = [handler EXCEPT ![h] = new]
    BY <1>0, <1>18, IdleIs DEF StoreCaptures, HandlerRecords, Pcs, IdleHandler
  <2>2. captures' \in Seq(Records) /\ Len(captures') <= MaxRecords
    BY <1>0, <1>18 DEF StoreCaptures, HandlerRecords, ShapeOf
  <2> HIDE DEF new
  <2>3. handler' \in [Handlers -> HandlerRecords] /\ Only(h) /\ handler'[h] = new
    BY <2>1, Moved
  <2>4. ShapeOf(handler[h])'
    BY <1>0, <1>18, <2>3 DEF StoreCaptures, ShapeOf, new, HandlerRecords, IdleHandler
  <2> QED BY <1>18, <2>2, <2>3, <2>4, ShapeOne DEF StoreCaptures, TypeInv
<1>19. ASSUME NEW t \in Tabs, ReportTab(h, t) PROVE Typed(h)
  <2>1. Shown(tabs[t]) \in Pages
    BY PagesAre
  <2>2. /\ handler' \in [Handlers -> HandlerRecords] /\ Only(h)
        /\ handler'[h] = Start("updated", "read", t, Shown(tabs[t]), None)
    BY <1>19, <2>1, Entered, Names DEF ReportTab
  <2>3. ShapeOf(handler[h])'
    BY <2>2 DEF ShapeOf, IdleHandler, Start
  <2> QED BY <1>19, <2>2, <2>3, ShapeOne DEF ReportTab, TypeInv
<1> QED
  BY <1>1, <1>2, <1>3, <1>4, <1>5, <1>6, <1>7, <1>8, <1>9, <1>10, <1>11, <1>12, <1>13,
     <1>14, <1>15, <1>16, <1>17, <1>18, <1>19
     DEF Listener

LEMMA BrowserTypes ==
  ASSUME TypeInv, ShapeInv, Browser
  PROVE  TypeInv' /\ ShapeInv' /\ handler' = handler
<1>1. handler' = handler /\ begun' = begun /\ session' = session /\ captures' = captures
  BY DEF Browser, SelectPosting, OpenOther, LoadPage, Expire
<1>2. events' \in Seq(Events)
  <2>1. ASSUME NEW s, NEW t \in NewTabs, OpenOther(s, t) PROVE events' \in Seq(Events)
    BY <2>1, Sent, PagesAre DEF OpenOther, Opened, TypeInv, Tabs
  <2>2. ASSUME NEW t \in Tabs, LoadPage(t) PROVE events' \in Seq(Events)
    <3>1. tabs[t].next \in Pages
      BY <2>2 DEF LoadPage, TypeInv
    <3> QED BY <2>2, <3>1, Sent DEF LoadPage, TypeInv
  <2> QED BY <2>1, <2>2 DEF Browser, SelectPosting, Expire, TypeInv
<1>3. tabs' \in [Tabs -> [opener : SourceTabs \cup OtherTabs \cup {None},
                          page : Pages, next : Pages \cup {None}]]
  <2>1. ASSUME NEW s \in SourceTabs, NEW j \in Jobs, SelectPosting(s, j)
        PROVE  tabs' \in [Tabs -> [opener : SourceTabs \cup OtherTabs \cup {None},
                                   page : Pages, next : Pages \cup {None}]]
    BY <2>1, PagesAre DEF SelectPosting, TypeInv
  <2>2. ASSUME NEW s \in SourceTabs \cup OtherTabs, NEW t \in NewTabs, OpenOther(s, t)
        PROVE  tabs' \in [Tabs -> [opener : SourceTabs \cup OtherTabs \cup {None},
                                   page : Pages, next : Pages \cup {None}]]
    BY <2>2, PagesAre DEF OpenOther, Opened, TypeInv, Tabs
  <2>3. ASSUME NEW t \in Tabs, LoadPage(t)
        PROVE  tabs' \in [Tabs -> [opener : SourceTabs \cup OtherTabs \cup {None},
                                   page : Pages, next : Pages \cup {None}]]
    BY <2>3, PagesAre DEF LoadPage, TypeInv
  <2> QED BY <2>1, <2>2, <2>3 DEF Browser, Expire, TypeInv
<1>4. expired' \in 0..begun'
  <2>1. expired' = expired \/ (expired < begun /\ expired' = expired + 1)
    BY DEF Browser, SelectPosting, OpenOther, LoadPage, Expire
  <2>2. expired \in 0..begun /\ begun \in Nat
    BY DEF TypeInv
  <2> QED BY <1>1, <2>1, <2>2
<1> QED BY <1>1, <1>2, <1>3, <1>4 DEF TypeInv, ShapeInv, ShapeOf

-----------------------------------------------------------------------------
(* New captures and new tabs                                               *)

(* No step makes something new that was in use before.                     *)
Fewer ==
    /\ begun <= begun'
    /\ \A n \in 0..begun : IsNewId(n)' => IsNewId(n)
    /\ \A t \in Tabs \cup {None} : IsNewTab(t)' => IsNewTab(t)
    /\ \A t \in Tabs : tabs[t].opener # None => tabs'[t].opener = tabs[t].opener

SameOpeners == \A t \in Tabs : tabs'[t].opener = tabs[t].opener

LEMMA CalmNews ==
  ASSUME TypeInv, ShapeInv, NewInv, NEW h \in Handlers, Only(h),
         ~Begins(h)', Announces(h)' => Announces(h) /\ handler'[h].tab = handler[h].tab,
         events' = events, begun' = begun, SameOpeners, TypeInv'
  PROVE  NewInv' /\ Fewer
<1>1. \A g \in Handlers : Begins(g)' => g # h /\ Begins(g) /\ handler'[g] = handler[g]
  BY DEF Only, Begins
<1>2. \A g \in Handlers : Announces(g)' => Announces(g) /\ handler'[g].tab = handler[g].tab
  BY DEF Only, Announces
<1>3. \A i : Told(i)' <=> Told(i)
  BY DEF Told
<1>4. \A g \in Handlers : Announces(g) => handler[g].tab \in Tabs
  BY DEF ShapeInv, ShapeOf, Announces, Tabs
<1>5. NewTabs \subseteq Tabs
  BY DEF Tabs
<1>6. \A i \in 1..Len(events) : Told(i) => events[i].tab \in Tabs
  BY <1>5 DEF NewInv
<1>7. begun \in Nat
  BY DEF TypeInv
<1>8. Fewer
  <2>1. \A n \in 0..begun : IsNewId(n)' => IsNewId(n)
    BY <1>1 DEF IsNewId
  <2>2. \A t \in Tabs \cup {None} : IsNewTab(t)' => IsNewTab(t)
    BY <1>2, <1>3, <1>5 DEF IsNewTab, SameOpeners
  <2> QED BY <1>7, <2>1, <2>2 DEF Fewer, SameOpeners
<1>9. NewInv'
  <2>1. \A g, k \in Handlers :
          (Begins(g) /\ Begins(k) /\ handler[g].pend.id = handler[k].pend.id)' => g = k
    BY <1>1 DEF NewInv
  <2>2. \A g, k \in Handlers :
          (Announces(g) /\ Announces(k) /\ handler[g].tab = handler[k].tab)' => g = k
    BY <1>2 DEF NewInv
  <2>3. \A i, k \in 1..Len(events') :
          (Told(i) /\ Told(k) /\ events[i].tab = events[k].tab)' => i = k
    BY <1>3 DEF NewInv
  <2>4. \A i \in 1..Len(events'), g \in Handlers :
          (Told(i) /\ Announces(g))' => events'[i].tab # handler'[g].tab
    BY <1>2, <1>3 DEF NewInv
  <2>5. \A i \in 1..Len(events') :
          Told(i)' => events'[i].tab \in NewTabs /\ tabs'[events'[i].tab].opener # None
    BY <1>3, <1>6 DEF NewInv, SameOpeners
  <2>6. \A g \in Handlers : Announces(g)' => tabs'[handler'[g].tab].opener # None
    <3> SUFFICES ASSUME NEW g \in Handlers, Announces(g)'
                 PROVE  tabs'[handler'[g].tab].opener # None
      OBVIOUS
    <3>1. Announces(g) /\ handler'[g].tab = handler[g].tab
      BY <1>2
    <3>2. tabs[handler[g].tab].opener # None
      BY <3>1 DEF NewInv
    <3> QED BY <1>4, <3>1, <3>2 DEF SameOpeners
  <2> QED BY <2>1, <2>2, <2>3, <2>4, <2>5, <2>6 DEF NewInv
<1> QED BY <1>8, <1>9

(* A tab is opened, by the click on the Apply control or by the person.    *)
LEMMA OpenedNews ==
  ASSUME TypeInv, ShapeInv, NewInv, NEW s \in SourceTabs \cup OtherTabs, NEW t \in NewTabs,
         NEW page \in Pages, Opened(s, t, page), begun' = begun,
         \A g \in Handlers : Begins(g)' => Begins(g) /\ handler'[g] = handler[g],
         \A g \in Handlers : Announces(g)' => Announces(g) /\ handler'[g] = handler[g]
  PROVE  NewInv' /\ Fewer
<1> DEFINE n == Len(events)
<1>1. /\ t \in Tabs /\ NewTabs \subseteq Tabs /\ begun \in Nat
      /\ \A g \in Handlers : Announces(g) => handler[g].tab \in Tabs
      /\ s # None
  BY CaptureAssumption DEF Tabs, ShapeInv, ShapeOf, Announces, TypeInv
<1>2. /\ n \in Nat /\ Len(events') = n + 1
      /\ \A i \in 1..n : events'[i] = events[i]
      /\ events'[n + 1] = [kind |-> "created", tab |-> t, page |-> Blank]
  BY <1>1, Sent, PagesAre DEF Opened, TypeInv
<1>3. /\ tabs[t].opener = None /\ tabs'[t].opener = s
      /\ \A u \in Tabs : u # t => tabs'[u] = tabs[u]
  BY <1>1 DEF Opened, TypeInv
<1> HIDE DEF n
<1>4. \A i \in 1..n : (Told(i)' <=> Told(i)) /\ events'[i].tab = events[i].tab
  BY <1>2 DEF Told
<1>5. events'[n + 1].tab = t
  BY <1>2
<1>6. \A i \in 1..Len(events') : i \in 1..n \/ i = n + 1
  BY <1>2
<1>7. /\ \A i \in 1..n : Told(i) => events[i].tab # t /\ events[i].tab \in Tabs
      /\ \A g \in Handlers : Announces(g) => handler[g].tab # t
  BY <1>1, <1>3 DEF NewInv, n
<1>8. Fewer
  <2>1. \A m \in 0..begun : IsNewId(m)' => IsNewId(m)
    BY DEF IsNewId
  <2>2. \A u \in Tabs \cup {None} : IsNewTab(u)' => IsNewTab(u)
    <3> SUFFICES ASSUME NEW u \in Tabs \cup {None}, IsNewTab(u)', u # t
                 PROVE  IsNewTab(u)
      BY <1>3 DEF IsNewTab
    <3>1. CASE u \in NewTabs /\ tabs'[u].opener = None
      BY <1>1, <1>3, <3>1 DEF IsNewTab
    <3>2. ASSUME NEW i \in 1..Len(events'), Told(i)', events'[i].tab = u PROVE IsNewTab(u)
      BY <1>4, <1>5, <1>6, <3>2 DEF IsNewTab, n
    <3>3. ASSUME NEW g \in Handlers, Announces(g)', handler'[g].tab = u PROVE IsNewTab(u)
      BY <3>3 DEF IsNewTab
    <3> QED BY <3>1, <3>2, <3>3 DEF IsNewTab
  <2> QED BY <1>1, <1>3, <2>1, <2>2 DEF Fewer
<1>9. NewInv'
  <2>1. \A g, k \in Handlers :
          (Begins(g) /\ Begins(k) /\ handler[g].pend.id = handler[k].pend.id)' => g = k
    BY DEF NewInv
  <2>2. \A g, k \in Handlers :
          (Announces(g) /\ Announces(k) /\ handler[g].tab = handler[k].tab)' => g = k
    BY DEF NewInv
  <2>3. \A i, k \in 1..Len(events') :
          (Told(i) /\ Told(k) /\ events[i].tab = events[k].tab)' => i = k
    BY <1>4, <1>5, <1>6, <1>7 DEF NewInv, n
  <2>4. \A i \in 1..Len(events'), g \in Handlers :
          (Told(i) /\ Announces(g))' => events'[i].tab # handler'[g].tab
    BY <1>4, <1>5, <1>6, <1>7 DEF NewInv, n
  <2>5. \A i \in 1..Len(events') :
          Told(i)' => events'[i].tab \in NewTabs /\ tabs'[events'[i].tab].opener # None
    BY <1>1, <1>3, <1>4, <1>5, <1>6, <1>7 DEF NewInv, n
  <2>6. \A g \in Handlers : Announces(g)' => tabs'[handler'[g].tab].opener # None
    BY <1>1, <1>3, <1>7 DEF NewInv
  <2> QED BY <2>1, <2>2, <2>3, <2>4, <2>5, <2>6 DEF NewInv
<1> QED BY <1>8, <1>9

(* An event about a tab that was told of before.                           *)
LEMMA UpdatedNews ==
  ASSUME TypeInv, NewInv, NEW t \in Tabs, NEW page \in Pages,
         Notify("updated", t, page), SameOpeners, begun' = begun, handler' = handler,
         \A g \in Handlers : Announces(g) => handler[g].tab \in Tabs
  PROVE  NewInv' /\ Fewer
<1> DEFINE n == Len(events)
<1>1. /\ n \in Nat /\ Len(events') = n + 1
      /\ \A i \in 1..n : events'[i] = events[i]
      /\ events'[n + 1].kind = "updated"
  <2>1. events \in Seq(Events)
    BY DEF TypeInv
  <2>2. /\ Len(events) \in Nat /\ Len(events') = Len(events) + 1
        /\ \A i \in 1..Len(events) : events'[i] = events[i]
        /\ events'[Len(events) + 1] = [kind |-> "updated", tab |-> t, page |-> page]
    BY <2>1, Sent
  <2> QED BY <2>2
<1> HIDE DEF n
<1>2. \A i \in 1..Len(events') :
        Told(i)' => i \in 1..n /\ Told(i) /\ events'[i].tab = events[i].tab
  BY <1>1 DEF Told
<1>3. \A g \in Handlers : /\ Begins(g)' <=> Begins(g)
                          /\ Announces(g)' <=> Announces(g)
  BY DEF Begins, Announces
<1>4. begun \in Nat /\ NewTabs \subseteq Tabs
  BY DEF TypeInv, Tabs
<1>5. Fewer
  <2>1. \A m \in 0..begun : IsNewId(m)' => IsNewId(m)
    BY <1>3 DEF IsNewId
  <2>2. \A u \in Tabs \cup {None} : IsNewTab(u)' => IsNewTab(u)
    BY <1>2, <1>3, <1>4 DEF IsNewTab, SameOpeners, n
  <2> QED BY <1>4, <2>1, <2>2 DEF Fewer, SameOpeners
<1>6. NewInv'
  <2>1. \A g, k \in Handlers :
          (Begins(g) /\ Begins(k) /\ handler[g].pend.id = handler[k].pend.id)' => g = k
    BY <1>3 DEF NewInv
  <2>2. \A g, k \in Handlers :
          (Announces(g) /\ Announces(k) /\ handler[g].tab = handler[k].tab)' => g = k
    BY <1>3 DEF NewInv
  <2>3. \A i, k \in 1..Len(events') :
          (Told(i) /\ Told(k) /\ events[i].tab = events[k].tab)' => i = k
    BY <1>2 DEF NewInv, n
  <2>4. \A i \in 1..Len(events'), g \in Handlers :
          (Told(i) /\ Announces(g))' => events'[i].tab # handler'[g].tab
    BY <1>2, <1>3 DEF NewInv, n
  <2>5. \A i \in 1..Len(events') :
          Told(i)' => events'[i].tab \in NewTabs /\ tabs'[events'[i].tab].opener # None
    BY <1>2, <1>4 DEF NewInv, SameOpeners, n
  <2>6. \A g \in Handlers : Announces(g)' => tabs'[handler'[g].tab].opener # None
    BY <1>3 DEF NewInv, SameOpeners
  <2> QED BY <2>1, <2>2, <2>3, <2>4, <2>5, <2>6 DEF NewInv
<1> QED BY <1>5, <1>6

(* A creation is answered, or another event.                               *)
LEMMA DeliveredNews ==
  ASSUME TypeInv, ShapeInv, NewInv, NEW h \in Handlers, Deliver(h)
  PROVE  NewInv' /\ Fewer
<1> DEFINE n == Len(events)
           e == Head(events)
<1>1. /\ n \in Nat /\ 1 \in 1..n /\ Len(events') = n - 1
      /\ \A i \in 1..Len(events') : events'[i] = events[i + 1]
      /\ e = events[1] /\ e \in Events
  BY Delivered DEF Deliver, TypeInv
<1>2. /\ handler[h].pc = "idle" /\ Only(h)
      /\ handler'[h].pc = "read" /\ handler'[h].op = e.kind /\ handler'[h].tab = e.tab
  <2> HIDE DEF e
  <2>1. e.kind \in {"created", "updated"} /\ e.tab \in Tabs /\ e.page \in Pages
    BY <1>1 DEF Events
  <2>2. Enter(h, e.kind, "read", e.tab, e.page, None)
    BY DEF Deliver, e
  <2>3. Only(h) /\ handler'[h] = Start(e.kind, "read", e.tab, e.page, None)
    BY <2>1, <2>2, Entered, Names
  <2>4. handler[h].pc = "idle"
    BY <2>2 DEF Enter
  <2>5. handler'[h].pc = "read" /\ handler'[h].op = e.kind /\ handler'[h].tab = e.tab
    BY <2>3 DEF Start, IdleHandler
  <2> QED BY <2>3, <2>4, <2>5
<1> HIDE DEF n, e
<1>3. \A i \in 1..Len(events') :
        /\ i + 1 \in 1..n /\ i + 1 # 1
        /\ Told(i)' => Told(i + 1) /\ events'[i].tab = events[i + 1].tab
  BY <1>1 DEF Told
<1>4. \A g \in Handlers : Begins(g)' => Begins(g) /\ handler'[g] = handler[g]
  BY <1>2 DEF Begins, Only
<1>5. \A g \in Handlers : Announces(g)' =>
        \/ g # h /\ Announces(g) /\ handler'[g].tab = handler[g].tab
        \/ g = h /\ Told(1) /\ handler'[g].tab = events[1].tab
  BY <1>1, <1>2 DEF Announces, Only, Told
<1>6. begun \in Nat /\ begun' = begun /\ tabs' = tabs
  BY DEF Deliver, TypeInv
<1>7. Fewer
  <2>1. \A m \in 0..begun : IsNewId(m)' => IsNewId(m)
    BY <1>4 DEF IsNewId
  <2>2. \A u \in Tabs \cup {None} : IsNewTab(u)' => IsNewTab(u)
    <3> SUFFICES ASSUME NEW u \in Tabs \cup {None}, IsNewTab(u)'
                 PROVE  IsNewTab(u)
      OBVIOUS
    <3>1. CASE u \in NewTabs /\ tabs'[u].opener = None
      BY <1>6, <3>1 DEF IsNewTab
    <3>2. ASSUME NEW i \in 1..Len(events'), Told(i)', events'[i].tab = u PROVE IsNewTab(u)
      BY <1>3, <3>2 DEF IsNewTab, n
    <3>3. ASSUME NEW g \in Handlers, Announces(g)', handler'[g].tab = u PROVE IsNewTab(u)
      BY <1>1, <1>5, <3>3 DEF IsNewTab, n
    <3> QED BY <3>1, <3>2, <3>3 DEF IsNewTab
  <2> QED BY <1>6, <2>1, <2>2 DEF Fewer
<1>8. NewInv'
  <2>1. \A g, k \in Handlers :
          (Begins(g) /\ Begins(k) /\ handler[g].pend.id = handler[k].pend.id)' => g = k
    BY <1>4 DEF NewInv
  <2>2. \A g, k \in Handlers :
          (Announces(g) /\ Announces(k) /\ handler[g].tab = handler[k].tab)' => g = k
    BY <1>1, <1>5 DEF NewInv, n
  <2>3. \A i, k \in 1..Len(events') :
          (Told(i) /\ Told(k) /\ events[i].tab = events[k].tab)' => i = k
    <3> SUFFICES ASSUME NEW i \in 1..Len(events'), NEW k \in 1..Len(events'),
                        (Told(i) /\ Told(k) /\ events[i].tab = events[k].tab)'
                 PROVE  i = k
      OBVIOUS
    <3>1. i + 1 = k + 1
      BY <1>3 DEF NewInv, n
    <3> QED BY <3>1
  <2>4. \A i \in 1..Len(events'), g \in Handlers :
          (Told(i) /\ Announces(g))' => events'[i].tab # handler'[g].tab
    BY <1>1, <1>3, <1>5 DEF NewInv, n
  <2>5. \A i \in 1..Len(events') :
          Told(i)' => events'[i].tab \in NewTabs /\ tabs'[events'[i].tab].opener # None
    BY <1>3, <1>6 DEF NewInv, n
  <2>6. \A g \in Handlers : Announces(g)' => tabs'[handler'[g].tab].opener # None
    BY <1>1, <1>5, <1>6 DEF NewInv, n
  <2> QED BY <2>1, <2>2, <2>3, <2>4, <2>5, <2>6 DEF NewInv
<1> QED BY <1>7, <1>8

(* A capture is numbered.                                                  *)
LEMMA NumberedNews ==
  ASSUME TypeInv, ShapeInv, NewInv, NEW h \in Handlers, handler[h].op = "begin",
         NewCapture(h), UNCHANGED <<tabs, events>>
  PROVE  NewInv' /\ Fewer
<1>1. /\ Only(h) /\ handler'[h].op = "begin" /\ handler'[h].pend.id = begun + 1
      /\ begun \in Nat /\ begun' = begun + 1
  <2>1. handler[h] \in HandlerRecords /\ begun \in Nat
    BY DEF TypeInv
  <2>2. /\ Only(h) /\ begun' = begun + 1
        /\ handler'[h] = [handler[h] EXCEPT !.pc = "write", !.pend = Fresh(h)]
    BY Numbered
  <2>3. handler'[h].op = "begin" /\ handler'[h].pend = Fresh(h)
    BY <2>1, <2>2 DEF HandlerRecords
  <2> QED BY <2>1, <2>2, <2>3 DEF Fresh
<1>2. \A g \in Handlers : g # h /\ Begins(g)' =>
        Begins(g) /\ handler'[g] = handler[g] /\ handler[g].pend.id # begun + 1
  <2>1. \A g \in Handlers : Begins(g) => handler[g].pend.id \in 1..MaxCaptures
                                         /\ handler[g].pend.id <= begun
    BY DEF ShapeInv, ShapeOf, Begins, Captures
  <2> QED BY <1>1, <2>1 DEF Begins, Only
<1>3. \A g \in Handlers : Announces(g)' => Announces(g) /\ handler'[g] = handler[g]
  BY <1>1 DEF Announces, Only
<1>4. \A i : Told(i)' <=> Told(i)
  BY DEF Told
<1>5. Fewer
  <2>1. \A m \in 0..begun : IsNewId(m)' => IsNewId(m)
    BY <1>1, <1>2 DEF IsNewId
  <2>2. \A u \in Tabs \cup {None} : IsNewTab(u)' => IsNewTab(u)
    BY <1>3, <1>4 DEF IsNewTab
  <2> QED BY <1>1, <2>1, <2>2 DEF Fewer
<1>6. NewInv'
  <2>1. \A g, k \in Handlers :
          (Begins(g) /\ Begins(k) /\ handler[g].pend.id = handler[k].pend.id)' => g = k
    BY <1>1, <1>2 DEF NewInv
  <2>2. \A g, k \in Handlers :
          (Announces(g) /\ Announces(k) /\ handler[g].tab = handler[k].tab)' => g = k
    BY <1>3 DEF NewInv
  <2>3. \A i, k \in 1..Len(events') :
          (Told(i) /\ Told(k) /\ events[i].tab = events[k].tab)' => i = k
    BY <1>4 DEF NewInv
  <2>4. \A i \in 1..Len(events'), g \in Handlers :
          (Told(i) /\ Announces(g))' => events'[i].tab # handler'[g].tab
    BY <1>3, <1>4 DEF NewInv
  <2>5. \A i \in 1..Len(events') :
          Told(i)' => events'[i].tab \in NewTabs /\ tabs'[events'[i].tab].opener # None
    BY <1>4 DEF NewInv
  <2>6. \A g \in Handlers : Announces(g)' => tabs'[handler'[g].tab].opener # None
    BY <1>3 DEF NewInv
  <2> QED BY <2>1, <2>2, <2>3, <2>4, <2>5, <2>6 DEF NewInv
<1> QED BY <1>5, <1>6

LEMMA GoneNews ==
  ASSUME TypeInv, ShapeInv, NewInv, NEW h \in Handlers, Finish(h),
         UNCHANGED <<events, begun>>, SameOpeners, TypeInv'
  PROVE  NewInv' /\ Fewer
<1>1. Only(h) /\ ~Begins(h)' /\ ~Announces(h)'
  BY Gone DEF Begins, Announces, IdleHandler
<1> QED BY <1>1, CalmNews

LEMMA WentNews ==
  ASSUME TypeInv, ShapeInv, NewInv, NEW h \in Handlers,
         NEW pc \in Pcs \ {"write"}, Goto(h, pc),
         pc = "drop" => handler[h].pc = "read", pc # "read",
         UNCHANGED <<events, begun>>, SameOpeners, TypeInv'
  PROVE  NewInv' /\ Fewer
<1>1. Only(h) /\ handler'[h] = [handler[h] EXCEPT !.pc = pc]
  BY Went
<1>2. handler[h] \in HandlerRecords
  BY DEF TypeInv
<1>3. ~Begins(h)' /\ (Announces(h)' => Announces(h) /\ handler'[h].tab = handler[h].tab)
  BY <1>1, <1>2 DEF Begins, Announces, HandlerRecords
<1> QED BY <1>1, <1>3, CalmNews

LEMMA ListenerNews ==
  ASSUME TypeInv, ShapeInv, NewInv, NEW h \in Handlers, Listener(h), Typed(h)
  PROVE  NewInv' /\ Fewer
<1> USE DEF Typed
<1>0. handler[h] \in HandlerRecords /\ ShapeOf(handler[h])
  BY DEF TypeInv, ShapeInv
<1>1. ASSUME NEW s \in SourceTabs, NEW j \in Jobs, BeginCapture(h, s, j)
      PROVE  NewInv' /\ Fewer
  <2>1. handler'[h] = Start("begin", "read", s, Blank, j)
    BY <1>1, PagesAre, Entered, Names DEF BeginCapture, Tabs
  <2>2. ~Begins(h)' /\ ~Announces(h)'
    BY <2>1 DEF Begins, Announces, Start, IdleHandler
  <2> QED BY <1>1, <2>2, CalmNews DEF BeginCapture, SameOpeners
<1>2. CASE GetCaptureStatus(h)
  <2>1. handler'[h] = Start("status", "drop", None, Blank, None)
    BY <1>2, PagesAre, Entered, Names DEF GetCaptureStatus
  <2>2. ~Begins(h)' /\ ~Announces(h)'
    BY <2>1 DEF Begins, Announces, Start, IdleHandler
  <2> QED BY <1>2, <2>2, CalmNews DEF GetCaptureStatus, SameOpeners
<1>3. CASE Deliver(h)
  BY <1>3, DeliveredNews
<1>4. CASE ReadNothing(h) /\ handler[h].op = "begin"
  BY <1>4, NumberedNews DEF ReadNothing
<1>5. CASE ReadNothing(h) /\ handler[h].op # "begin"
  BY <1>5, GoneNews DEF ReadNothing, SameOpeners
<1>6. CASE ReadExpired(h)
  <2>1. PICK pc \in {"drop", "redrop"} : Goto(h, pc) /\ (pc = "drop" => handler[h].pc = "read")
    BY <1>6 DEF ReadExpired
  <2> QED BY <1>6, <2>1, WentNews, Names DEF ReadExpired, SameOpeners
<1>7. CASE DropExpired(h) /\ handler[h].op = "begin"
  BY <1>7, NumberedNews DEF DropExpired
<1>8. CASE DropExpired(h) /\ handler[h].op # "begin"
  BY <1>8, GoneNews DEF DropExpired, SameOpeners
<1>9. CASE BeginRefused(h) \/ UndoCapture(h) \/ ClearPending(h)
  BY <1>9, GoneNews DEF BeginRefused, UndoCapture, ClearPending, SameOpeners
<1>10. CASE TabCreated(h)
  <2>1. CASE Finish(h)
    BY <1>10, <2>1, GoneNews DEF TabCreated, SameOpeners
  <2>2. CASE ~Finish(h)
    <3> DEFINE pend == [session EXCEPT !.target = handler[h].tab]
    <3>1. handler' = [handler EXCEPT ![h].pc = "write", ![h].pend = pend]
      BY <1>10, <2>2 DEF TabCreated
    <3> HIDE DEF pend
    <3>2. handler[h].op = "created" /\ handler[h].pc = "read"
      BY <1>10 DEF TabCreated
    <3>3. handler'[h].op = "created" /\ handler'[h].tab = handler[h].tab
      BY <1>0, <3>1, <3>2 DEF TypeInv, HandlerRecords
    <3>4. ~Begins(h)' /\ Announces(h)
      BY <3>2, <3>3 DEF Begins, Announces
    <3> QED BY <1>10, <3>3, <3>4, CalmNews DEF TabCreated, SameOpeners
  <2> QED BY <2>1, <2>2
<1>11. CASE TabUpdated(h)
  BY <1>11, GoneNews, WentNews, Names DEF TabUpdated, SameOpeners
<1>12. CASE WritePending(h)
  <2>1. handler'[h].pc \in {"trigger", "look"}
    BY <1>0, <1>12 DEF WritePending, TypeInv, HandlerRecords
  <2>2. ~Begins(h)' /\ ~Announces(h)'
    BY <2>1 DEF Begins, Announces
  <2> QED BY <1>12, <2>2, CalmNews DEF WritePending, SameOpeners
<1>13. CASE LookAtTab(h)
  <2>1. handler'[h].pc = "reread"
    BY <1>0, <1>13 DEF LookAtTab, TypeInv, HandlerRecords
  <2>2. ~Begins(h)' /\ ~Announces(h)'
    BY <2>1 DEF Begins, Announces
  <2> QED BY <1>13, <2>2, CalmNews DEF LookAtTab, SameOpeners
<1>14. CASE SelectForApply(h)
  <2>1. handler' = handler /\ handler[h].pc = "trigger"
    BY <1>14 DEF SelectForApply
  <2>2. ~Begins(h)' /\ ~Announces(h)'
    BY <2>1 DEF Begins, Announces
  <2>3. SameOpeners
    BY <1>14 DEF SelectForApply, SameOpeners, TypeInv
  <2> QED BY <1>14, <2>2, <2>3, CalmNews DEF SelectForApply
<1>15. ASSUME NEW t \in NewTabs, ClickOpensTab(h, t) PROVE NewInv' /\ Fewer
  <2>1. handler[h].tab \in SourceTabs /\ handler[h].job \in Jobs
    BY <1>0, <1>15 DEF ClickOpensTab, ShapeOf, HandlerRecords, Ops
  <2>2. Opened(handler[h].tab, t, Site(handler[h].job)) /\ begun' = begun
    BY <1>15 DEF ClickOpensTab
  <2>3. Only(h) /\ ~Begins(h)' /\ ~Announces(h)'
    BY <1>15, Gone DEF ClickOpensTab, Begins, Announces, IdleHandler
  <2>4. /\ \A g \in Handlers : Begins(g)' => Begins(g) /\ handler'[g] = handler[g]
        /\ \A g \in Handlers : Announces(g)' => Announces(g) /\ handler'[g] = handler[g]
    BY <2>3 DEF Only, Begins, Announces
  <2> QED BY <2>1, <2>2, <2>4, OpenedNews, PagesAre
<1>16. ASSUME NEW answered \in BOOLEAN, ClickNavigates(h, answered)
       PROVE  NewInv' /\ Fewer
  <2>1. SameOpeners
    BY <1>16 DEF ClickNavigates, SameOpeners, TypeInv
  <2> QED BY <1>16, <2>1, GoneNews, WentNews, Names DEF ClickNavigates
<1>17. CASE TriggerFails(h)
  BY <1>17, WentNews, Names DEF TriggerFails, SameOpeners
<1>18. CASE MaybeFinalize(h)
  <2>1. CASE Finish(h)
    BY <1>18, <2>1, GoneNews DEF MaybeFinalize, SameOpeners
  <2>2. CASE ~Finish(h)
    <3>1. handler' = [handler EXCEPT ![h].pc = "load", ![h].pend = session]
      BY <1>18, <2>2 DEF MaybeFinalize
    <3>2. handler'[h].pc = "load"
      BY <1>0, <3>1 DEF TypeInv, HandlerRecords
    <3>3. ~Begins(h)' /\ ~Announces(h)'
      BY <3>2 DEF Begins, Announces
    <3> QED BY <1>18, <3>3, CalmNews DEF MaybeFinalize, SameOpeners
  <2> QED BY <2>1, <2>2
<1>19. CASE LoadCaptures(h)
  <2>1. handler'[h].pc = "store"
    BY <1>0, <1>19 DEF LoadCaptures, Store, TypeInv, HandlerRecords, IdleHandler
  <2>2. ~Begins(h)' /\ ~Announces(h)'
    BY <2>1 DEF Begins, Announces
  <2> QED BY <1>19, <2>2, CalmNews DEF LoadCaptures, SameOpeners
<1>20. CASE StoreCaptures(h)
  <2>1. handler'[h].pc = "clear"
    BY <1>0, <1>20 DEF StoreCaptures, TypeInv, HandlerRecords, IdleHandler
  <2>2. ~Begins(h)' /\ ~Announces(h)'
    BY <2>1 DEF Begins, Announces
  <2> QED BY <1>20, <2>2, CalmNews DEF StoreCaptures, SameOpeners
<1>21. ASSUME NEW t \in Tabs, ReportTab(h, t) PROVE NewInv' /\ Fewer
  <2>1. handler'[h] = Start("updated", "read", t, Shown(tabs[t]), None)
    BY <1>21, PagesAre, Entered, Names DEF ReportTab
  <2>2. ~Begins(h)' /\ ~Announces(h)'
    BY <2>1 DEF Begins, Announces, Start, IdleHandler
  <2> QED BY <1>21, <2>2, CalmNews DEF ReportTab, SameOpeners
<1> QED
  BY <1>1, <1>2, <1>3, <1>4, <1>5, <1>6, <1>7, <1>8, <1>9, <1>10, <1>11, <1>12, <1>13,
     <1>14, <1>15, <1>16, <1>17, <1>18, <1>19, <1>20, <1>21
     DEF Listener

LEMMA BrowserNews ==
  ASSUME TypeInv, ShapeInv, NewInv, Browser
  PROVE  NewInv' /\ Fewer
<1>1. /\ handler' = handler /\ begun' = begun /\ begun \in Nat
      /\ \A g \in Handlers : Announces(g) => handler[g].tab \in Tabs
  <2>1. handler' = handler /\ begun' = begun
    BY DEF Browser, SelectPosting, OpenOther, LoadPage, Expire
  <2>2. begun \in Nat
    BY DEF TypeInv
  <2>3. \A g \in Handlers : Announces(g) => handler[g].tab \in Tabs
    BY DEF ShapeInv, ShapeOf, Announces, Tabs
  <2> QED BY <2>1, <2>2, <2>3
<1>2. ASSUME SameOpeners, events' = events PROVE NewInv' /\ Fewer
  <2>1. \A g \in Handlers : /\ Begins(g)' <=> Begins(g)
                            /\ Announces(g)' <=> Announces(g)
    BY <1>1 DEF Begins, Announces
  <2>2. \A i : Told(i)' <=> Told(i)
    BY <1>2 DEF Told
  <2>3. Fewer
    BY <1>1, <1>2, <2>1, <2>2 DEF Fewer, SameOpeners, IsNewId, IsNewTab, Tabs
  <2>4. NewInv'
    BY <1>1, <1>2, <2>1, <2>2 DEF NewInv, SameOpeners, Tabs
  <2> QED BY <2>3, <2>4
<1>3. ASSUME NEW s \in SourceTabs, NEW j \in Jobs, SelectPosting(s, j)
      PROVE  NewInv' /\ Fewer
  BY <1>2, <1>3 DEF SelectPosting, SameOpeners, TypeInv
<1>4. ASSUME NEW s \in SourceTabs \cup OtherTabs, NEW t \in NewTabs, OpenOther(s, t)
      PROVE  NewInv' /\ Fewer
  <2>1. Opened(s, t, Other)
    BY <1>4 DEF OpenOther
  <2>2. /\ \A g \in Handlers : Begins(g)' => Begins(g) /\ handler'[g] = handler[g]
        /\ \A g \in Handlers : Announces(g)' => Announces(g) /\ handler'[g] = handler[g]
    BY <1>1 DEF Begins, Announces
  <2> QED BY <1>1, <2>1, <2>2, OpenedNews, PagesAre
<1>5. ASSUME NEW t \in Tabs, LoadPage(t) PROVE NewInv' /\ Fewer
  <2>1. tabs[t].next \in Pages /\ SameOpeners
    BY <1>5 DEF LoadPage, TypeInv, SameOpeners
  <2> QED BY <1>1, <1>5, <2>1, UpdatedNews DEF LoadPage
<1>6. CASE Expire
  BY <1>2, <1>6 DEF Expire, SameOpeners
<1> QED BY <1>3, <1>4, <1>5, <1>6 DEF Browser

-----------------------------------------------------------------------------
(* What is in use stays sound                                              *)

LEMMA UseKept ==
  ASSUME TypeInv, TypeInv', Fewer
  PROVE  /\ \A r \in Records : Sound(r) => Sound(r)'
         /\ \A p \in Captures : /\ Pointed(p) => Pointed(p)'
                                /\ p.id <= begun /\ ~IsNewId(p.id) => ~IsNewId(p.id)'
                                /\ Known(p) => Known(p)'
<1>1. begun \in Nat /\ begun' \in Nat /\ begun <= begun'
  BY DEF TypeInv, Fewer
<1>2. ASSUME NEW r \in Records, Sound(r) PROVE Sound(r)'
  <2>1. r.tab \in Tabs /\ r.id \in 0..begun /\ r.source # None /\ r.id \in Nat
    BY <1>1, <1>2, CaptureAssumption DEF Records, Sound
  <2>2. Near(r)'
    BY <1>2, <2>1 DEF Sound, Near, Fewer
  <2>3. r.id <= begun'
    <3> QED BY <1>1, <1>2, <2>1 DEF Sound
  <2> QED BY <1>2, <2>1, <2>2, <2>3 DEF Sound, Fewer
<1>3. ASSUME NEW p \in Captures
      PROVE  /\ Pointed(p) => Pointed(p)'
             /\ p.id <= begun /\ ~IsNewId(p.id) => ~IsNewId(p.id)'
             /\ Known(p) => Known(p)'
  <2>1. p.target \in Tabs \cup {None} /\ p.source # None /\ p.id \in Nat
    BY CaptureAssumption DEF Captures, Tabs
  <2>2. Pointed(p) => Pointed(p)'
    BY <1>1, <2>1 DEF Pointed, Fewer
  <2>3. p.id <= begun /\ ~IsNewId(p.id) => ~IsNewId(p.id)'
    BY <1>1, <2>1 DEF Fewer
  <2> QED BY <2>1, <2>2, <2>3 DEF Known, Pointed, Fewer
<1> QED BY <1>2, <1>3

LEMMA SoundOne ==
  ASSUME TypeInv, TypeInv', ShapeInv, SoundInv, Fewer, NEW h \in Handlers, Only(h),
         session' # None => Known(session)',
         \A i \in 1..Len(captures') : Sound(captures[i])',
         SoundAt(h)'
  PROVE  SoundInv'
<1>1. ASSUME NEW g \in Handlers, g # h PROVE SoundAt(g)'
  <2>1. handler'[g] = handler[g] /\ SoundAt(g) /\ ShapeOf(handler[g])
    BY <1>1 DEF Only, SoundInv, ShapeInv
  <2>2. handler[g] \in HandlerRecords
    BY DEF TypeInv
  <2>3. handler[g].pc \in {"write", "load"} =>
          handler[g].pend \in Captures /\ handler[g].pend.id <= begun
    BY <2>1 DEF ShapeOf
  <2>4. \A i \in 1..Len(handler[g].records) : handler[g].records[i] \in Records
    BY <2>2, ElementOfSeq DEF HandlerRecords
  <2>5. Begins(g)' <=> Begins(g)
    BY <2>1 DEF Begins
  <2> QED BY <2>1, <2>3, <2>4, <2>5, UseKept DEF SoundAt
<1> QED BY <1>1 DEF SoundInv

LEMMA SoundStored ==
  ASSUME TypeInv, TypeInv', SoundInv, Fewer
  PROVE  /\ (session' = session \/ session' = None) => (session' # None => Known(session)')
         /\ captures' = captures => \A i \in 1..Len(captures') : Sound(captures[i])'
<1>1. ASSUME session' = session, session' # None PROVE Known(session)'
  <2>1. session \in Captures /\ Known(session)
    BY <1>1 DEF TypeInv, SoundInv
  <2>2. \A p \in Captures : p = session => Known(p)'
    BY <2>1, UseKept
  <2>3. \A p \in Captures : p = session => Known(session)'
    BY <1>1, <2>2 DEF Known, Pointed
  <2> QED BY <2>1, <2>3
<1>2. ASSUME captures' = captures, NEW i \in 1..Len(captures') PROVE Sound(captures[i])'
  <2>1. captures[i] \in Records /\ Sound(captures[i])
    BY <1>2, ElementOfSeq DEF TypeInv, SoundInv
  <2>2. \A r \in Records : r = captures[i] => Sound(r)'
    BY <2>1, UseKept
  <2>3. \A r \in Records : r = captures[i] => Sound(captures[i])'
    BY <1>2, <2>2 DEF Sound, Near
  <2> QED BY <2>1, <2>3
<1> QED BY <1>1, <1>2

LEMMA SoundCalm ==
  ASSUME TypeInv, TypeInv', ShapeInv, SoundInv, Fewer, NEW h \in Handlers, Only(h),
         session' = session \/ session' = None, captures' = captures,
         handler'[h].pc \notin {"write", "load", "store"}
  PROVE  SoundInv'
<1>1. SoundAt(h)'
  BY DEF SoundAt, Begins
<1> QED BY <1>1, SoundStored, SoundOne

(* The pending capture is written: what was new in it is so no longer.     *)
LEMMA WrittenSound ==
  ASSUME TypeInv, TypeInv', ShapeInv, ShapeInv', NewInv, NewInv', SoundInv, Fewer,
         NEW h \in Handlers, Only(h), WritePending(h)
  PROVE  SoundInv'
<1>0. /\ handler[h] \in HandlerRecords /\ ShapeOf(handler[h]) /\ SoundAt(h)
      /\ handler[h].pc = "write"
  BY DEF TypeInv, ShapeInv, SoundInv, WritePending
<1>a. handler[h].pend \in Captures /\ handler[h].pend.id <= begun
      /\ handler[h].op \in {"begin", "created"}
  BY <1>0 DEF ShapeOf, HandlerRecords, Ops
<1>b. PICK p \in Captures : p = handler[h].pend
  BY <1>a
<1>1. /\ p.id <= begun /\ session' = p
      /\ captures' = captures /\ tabs' = tabs /\ events' = events /\ begun' = begun
  BY <1>a, <1>b DEF WritePending
<1>2. handler'[h].pc \in {"trigger", "look"}
  BY <1>0 DEF WritePending, TypeInv, HandlerRecords
<1>3. SoundAt(h)'
  BY <1>2 DEF SoundAt, Begins
<1>4. ~Begins(h)' /\ ~Announces(h)'
  BY <1>2 DEF Begins, Announces
<1>5. Pointed(p) /\ ~IsNewId(p.id)' /\ ~IsNewTab(p.target)'
  <2>1. CASE handler[h].op = "begin"
    <3>1. Begins(h) /\ p.target = None
      BY <1>0, <1>b, <2>1 DEF Begins, SoundAt
    <3>2. Pointed(p)
      BY <1>1, <3>1 DEF Pointed
    <3>3. ~IsNewId(p.id)'
      <4>1. \A g \in Handlers : Begins(g)' => g # h /\ Begins(g) /\ handler'[g] = handler[g]
        BY <1>4 DEF Begins, Only
      <4> QED BY <1>b, <3>1, <4>1 DEF NewInv, IsNewId
    <3>4. ~IsNewTab(None)'
      <4>1. \A i \in 1..Len(events') : Told(i)' => events'[i].tab # None
        BY CaptureAssumption DEF NewInv
      <4>2. \A g \in Handlers : Announces(g)' => handler'[g].tab # None
        BY CaptureAssumption DEF ShapeInv, ShapeOf, Announces
      <4> QED BY <4>1, <4>2, CaptureAssumption DEF IsNewTab
    <3> QED BY <3>1, <3>2, <3>3, <3>4
  <2>2. CASE handler[h].op = "created"
    <3>1. Pointed(p) /\ ~IsNewId(p.id) /\ p.target = handler[h].tab
      BY <1>0, <1>b, <2>2 DEF SoundAt
    <3>2. ~IsNewId(p.id)'
      BY <1>1, <3>1, UseKept
    <3>3. Announces(h)
      BY <1>0, <2>2 DEF Announces
    <3>4. ~IsNewTab(p.target)'
      <4>1. tabs[p.target].opener # None
        BY <3>1, <3>3 DEF NewInv
      <4>2. \A i \in 1..Len(events') : Told(i)' => events'[i].tab # p.target
        BY <1>1, <3>1, <3>3 DEF NewInv, Told
      <4>3. \A g \in Handlers : Announces(g)' =>
              g # h /\ Announces(g) /\ handler'[g].tab = handler[g].tab
        BY <1>4 DEF Announces, Only
      <4>4. \A g \in Handlers : Announces(g)' => handler'[g].tab # p.target
        BY <3>1, <3>3, <4>3 DEF NewInv
      <4> QED BY <1>1, <4>1, <4>2, <4>4 DEF IsNewTab
    <3> QED BY <3>1, <3>2, <3>4
  <2> QED BY <1>a, <2>1, <2>2
<1>6. Known(session)'
  <2>1. Pointed(session)'
    BY <1>1, <1>5 DEF Pointed
  <2>2. ~IsNewId(session.id)' /\ ~IsNewTab(session.target)'
    BY <1>1, <1>5 DEF IsNewId, IsNewTab
  <2> QED BY <2>1, <2>2 DEF Known
<1> QED BY <1>1, <1>3, <1>6, SoundStored, SoundOne

(* The tab that a listener takes for the target.                           *)
LEMMA CreatedSound ==
  ASSUME TypeInv, TypeInv', ShapeInv, NewInv, SoundInv, Fewer,
         NEW h \in Handlers, Only(h), TabCreated(h), ~Finish(h)
  PROVE  SoundInv'
<1>0. /\ handler[h] \in HandlerRecords /\ ShapeOf(handler[h])
      /\ session # None /\ session \in Captures /\ Known(session)
      /\ session' = session /\ captures' = captures /\ tabs' = tabs /\ begun' = begun
      /\ handler[h].op = "created" /\ handler[h].pc = "read"
      /\ tabs[handler[h].tab].opener = session.source
  BY DEF TypeInv, ShapeInv, SoundInv, TabCreated, Live
<1>a. handler[h].tab \in NewTabs
  BY <1>0 DEF ShapeOf
<1>b. [session EXCEPT !.target = handler[h].tab] \in Captures
  BY <1>0, <1>a DEF Captures
<1>1. PICK p \in Captures : p = [session EXCEPT !.target = handler[h].tab]
  BY <1>b
<1>2. /\ handler'[h].op = "created" /\ handler'[h].tab = handler[h].tab
      /\ handler'[h].pc = "write" /\ handler'[h].pend = p
  <2>1. handler' = [handler EXCEPT ![h].pc = "write", ![h].pend = p]
    BY <1>1 DEF TabCreated
  <2> QED BY <1>0, <2>1 DEF TypeInv, HandlerRecords
<1>3. p.id = session.id /\ p.source = session.source /\ p.target = handler[h].tab
  BY <1>0, <1>1 DEF Captures
<1>4. p.id <= begun /\ ~IsNewId(p.id)
  BY <1>0, <1>3 DEF Known, Pointed
<1>5. Pointed(p) /\ Pointed(p)' /\ ~IsNewId(p.id)'
  <2>1. Pointed(p)
    BY <1>0, <1>3, <1>4 DEF Pointed
  <2> QED BY <1>4, <2>1, UseKept
<1>6. Pointed(handler[h].pend)' /\ ~IsNewId(handler[h].pend.id)'
  <2>1. Pointed(handler[h].pend)'
    BY <1>2, <1>5 DEF Pointed
  <2> QED BY <1>2, <1>5, <2>1 DEF IsNewId
<1>7. SoundAt(h)'
  BY <1>2, <1>3, <1>6 DEF SoundAt, Begins
<1> QED BY <1>0, <1>7, SoundStored, SoundOne

(* A listener decides to record.                                           *)
LEMMA FinalSound ==
  ASSUME TypeInv, TypeInv', ShapeInv, NewInv, SoundInv, Fewer,
         NEW h \in Handlers, Only(h), MaybeFinalize(h), ~Finish(h)
  PROVE  SoundInv'
<1>0. /\ handler[h] \in HandlerRecords
      /\ session # None /\ session' = session /\ captures' = captures
      /\ handler[h].tab \in {session.source, session.target}
      /\ IsExternal(handler[h].page)
      /\ handler' = [handler EXCEPT ![h].pc = "load", ![h].pend = session]
  BY DEF TypeInv, MaybeFinalize, Live
<1>1. /\ handler'[h].pc = "load" /\ handler'[h].pend = session
      /\ handler'[h].tab = handler[h].tab /\ handler'[h].page = handler[h].page
  BY <1>0 DEF TypeInv, HandlerRecords
<1>2. Known(session)'
  BY <1>0, SoundStored
<1>3. Known(handler[h].pend)'
  BY <1>0, <1>1, <1>2 DEF Known, Pointed
<1>4. SoundAt(h)'
  BY <1>0, <1>1, <1>3 DEF SoundAt, Begins
<1> QED BY <1>0, <1>4, SoundStored, SoundOne

LEMMA LoadedSound ==
  ASSUME TypeInv, TypeInv', ShapeInv, NewInv, SoundInv, Fewer,
         NEW h \in Handlers, LoadCaptures(h)
  PROVE  SoundInv'
<1> DEFINE T == {r \in Records : Sound(r)}
           r == NewRecord(h)
<1>0. /\ handler[h] \in HandlerRecords /\ ShapeOf(handler[h]) /\ SoundAt(h)
      /\ handler[h].pc = "load"
      /\ session' = session /\ captures' = captures
  BY DEF TypeInv, ShapeInv, SoundInv, LoadCaptures
<1>1. handler[h].pend \in Captures /\ Known(handler[h].pend)
      /\ handler[h].tab \in {handler[h].pend.source, handler[h].pend.target}
      /\ IsExternal(handler[h].page)
  BY <1>0 DEF ShapeOf, SoundAt
<1>2. handler[h].tab \in Tabs
  BY <1>0 DEF ShapeOf, HandlerRecords, Ops, Tabs
<1>3. r \in Records
  BY <1>0, <1>1, <1>2, CaptureAssumption
     DEF NewRecord, Records, Captures, HandlerRecords
<1>4. Near(r)
  BY <1>1, <1>2, CaptureAssumption DEF NewRecord, Near, Known, Pointed, Tabs
<1>5. ~IsNewTab(handler[h].tab)
  <2>1. CASE handler[h].tab = handler[h].pend.target
    BY <1>1, <2>1 DEF Known
  <2>2. CASE handler[h].tab = handler[h].pend.source
    <3>1. handler[h].tab \notin NewTabs
      BY <1>1, <2>2, CaptureAssumption DEF Captures
    <3> QED BY <3>1 DEF IsNewTab, NewInv, ShapeInv, ShapeOf, Announces
  <2> QED BY <1>1, <2>1, <2>2
<1>6. r \in T
  BY <1>1, <1>3, <1>4, <1>5 DEF Sound, Known, Pointed, NewRecord
<1>7. captures \in Seq(T)
  <2>1. \A i \in 1..Len(captures) : captures[i] \in T
    BY ElementOfSeq DEF TypeInv, SoundInv
  <2> QED BY <2>1, InSeq DEF TypeInv
<1> HIDE DEF T
<1>8. Keep(MaxRecords, <<r>> \o OfOthers(handler[h].pend.job, captures)) \in Seq(T)
  BY <1>6, <1>7, KeptRecords
<1>9. /\ Only(h) /\ handler'[h].pc = "store"
      /\ handler'[h].records = Keep(MaxRecords, <<r>> \o OfOthers(handler[h].pend.job, captures))
  BY <1>3, Loaded
<1>10. handler'[h].records \in Seq(T)
  BY <1>8, <1>9
<1>11. \A i \in 1..Len(handler'[h].records) : Sound(handler[h].records[i])'
  <2> SUFFICES ASSUME NEW i \in 1..Len(handler'[h].records)
               PROVE  Sound(handler[h].records[i])'
    OBVIOUS
  <2>1. handler'[h].records[i] \in T
    BY <1>10, ElementOfSeq
  <2>2. \A q \in Records : q = handler'[h].records[i] => Sound(q)'
    BY <2>1, UseKept DEF T
  <2>3. \A q \in Records : q = handler'[h].records[i] => Sound(handler[h].records[i])'
    BY <2>2 DEF Sound, Near
  <2> QED BY <2>1, <2>3 DEF T
<1>12. SoundAt(h)'
  BY <1>9, <1>11 DEF SoundAt, Begins
<1> QED BY <1>0, <1>9, <1>12, SoundStored, SoundOne
LEMMA NumberedSound ==
  ASSUME TypeInv, TypeInv', ShapeInv, SoundInv, Fewer, NEW h \in Handlers,
         handler[h].op = "begin", NewCapture(h),
         session' = session \/ session' = None, captures' = captures
  PROVE  SoundInv'
<1>1. /\ Only(h) /\ handler'[h] = [handler[h] EXCEPT !.pc = "write", !.pend = Fresh(h)]
      /\ handler[h] \in HandlerRecords
  BY Numbered DEF TypeInv
<1>2. /\ handler'[h].pc = "write" /\ handler'[h].op = "begin"
      /\ handler'[h].pend = Fresh(h)
  BY <1>1 DEF HandlerRecords
<1>3. handler'[h].pend.target = None
  BY <1>2 DEF Fresh
<1>4. SoundAt(h)'
  BY <1>2, <1>3 DEF SoundAt
<1> QED BY <1>1, <1>4, SoundStored, SoundOne

LEMMA StoredSound ==
  ASSUME TypeInv, TypeInv', ShapeInv, SoundInv, Fewer, NEW h \in Handlers, Only(h),
         StoreCaptures(h)
  PROVE  SoundInv'
<1>1. /\ handler[h] \in HandlerRecords /\ SoundAt(h) /\ handler[h].pc = "store"
      /\ captures' = handler[h].records /\ session' = session
  BY DEF TypeInv, SoundInv, StoreCaptures
<1>2. handler'[h].pc = "clear"
  BY DEF StoreCaptures, TypeInv, IdleHandler
<1>3. SoundAt(h)'
  BY <1>2 DEF SoundAt, Begins
<1>4. ASSUME NEW i \in 1..Len(captures') PROVE Sound(captures[i])'
  <2>1. captures'[i] \in Records
    BY <1>1, ElementOfSeq DEF HandlerRecords
  <2>2. \A r \in Records : r = captures'[i] => Sound(r)'
    BY <1>1, UseKept DEF SoundAt
  <2>3. \A r \in Records : r = captures'[i] => Sound(captures[i])'
    BY <2>2 DEF Sound, Near
  <2> QED BY <2>1, <2>3
<1> QED BY <1>1, <1>3, <1>4, SoundStored, SoundOne

LEMMA ListenerSound ==
  ASSUME TypeInv, TypeInv', ShapeInv, ShapeInv', NewInv, NewInv', SoundInv, Fewer,
         NEW h \in Handlers, Only(h), Listener(h)
  PROVE  SoundInv'
<1>0. handler[h] \in HandlerRecords
  BY DEF TypeInv
<1>1. ASSUME NEW pc \in Pcs, Goto(h, pc), pc \notin {"write", "load", "store"},
             session' = session, captures' = captures
      PROVE  SoundInv'
  <2>1. handler'[h].pc = pc /\ handler'[h].pc \notin {"write", "load", "store"}
    BY <1>1 DEF Goto, TypeInv, HandlerRecords
  <2> QED BY <1>1, <2>1, SoundCalm
<1>2. ASSUME Finish(h), session' = session \/ session' = None, captures' = captures
      PROVE  SoundInv'
  <2>1. handler'[h].pc = "idle"
    BY <1>2, Gone DEF IdleHandler
  <2> QED BY <1>2, <2>1, SoundCalm
<1>3. ASSUME NEW op, NEW pc \in {"read", "drop"}, NEW t, NEW page, NEW j,
             Enter(h, op, pc, t, page, j), session' = session, captures' = captures
      PROVE  SoundInv'
  <2>1. handler'[h].pc = pc
    BY <1>3 DEF Enter, IdleHandler, TypeInv
  <2> QED BY <1>3, <2>1, SoundCalm
<1>4. ASSUME NEW s \in SourceTabs, NEW j \in Jobs, BeginCapture(h, s, j)
      PROVE  SoundInv'
  BY <1>3, <1>4 DEF BeginCapture
<1>5. CASE GetCaptureStatus(h) \/ Deliver(h)
  BY <1>3, <1>5 DEF GetCaptureStatus, Deliver
<1>6. CASE (ReadNothing(h) \/ DropExpired(h)) /\ handler[h].op = "begin"
  BY <1>6, NumberedSound DEF ReadNothing, DropExpired
<1>7. CASE (ReadNothing(h) \/ DropExpired(h)) /\ handler[h].op # "begin"
  BY <1>2, <1>7 DEF ReadNothing, DropExpired
<1>8. CASE ReadExpired(h)
  BY <1>1, <1>8, Names DEF ReadExpired
<1>9. CASE BeginRefused(h) \/ UndoCapture(h) \/ ClearPending(h)
  BY <1>2, <1>9 DEF BeginRefused, UndoCapture, ClearPending
<1>10. CASE TabCreated(h)
  BY <1>2, <1>10, CreatedSound DEF TabCreated
<1>11. CASE TabUpdated(h)
  BY <1>1, <1>2, <1>11, Names DEF TabUpdated
<1>12. CASE WritePending(h)
  BY <1>12, WrittenSound
<1>13. CASE LookAtTab(h)
  <2>1. handler'[h].pc = "reread"
    BY <1>0, <1>13 DEF LookAtTab, TypeInv, HandlerRecords
  <2> QED BY <1>13, <2>1, SoundCalm DEF LookAtTab
<1>14. CASE SelectForApply(h)
  BY <1>14, SoundCalm DEF SelectForApply
<1>15. ASSUME NEW t \in NewTabs, ClickOpensTab(h, t) PROVE SoundInv'
  BY <1>2, <1>15 DEF ClickOpensTab
<1>16. ASSUME NEW answered \in BOOLEAN, ClickNavigates(h, answered) PROVE SoundInv'
  BY <1>1, <1>2, <1>16, Names DEF ClickNavigates
<1>17. CASE TriggerFails(h)
  BY <1>1, <1>17, Names DEF TriggerFails
<1>18. CASE MaybeFinalize(h)
  BY <1>2, <1>18, FinalSound DEF MaybeFinalize
<1>19. CASE LoadCaptures(h)
  BY <1>19, LoadedSound
<1>20. CASE StoreCaptures(h)
  BY <1>20, StoredSound
<1>21. ASSUME NEW t \in Tabs, ReportTab(h, t) PROVE SoundInv'
  BY <1>3, <1>21 DEF ReportTab
<1> QED
  BY <1>4, <1>5, <1>6, <1>7, <1>8, <1>9, <1>10, <1>11, <1>12, <1>13, <1>14, <1>15,
     <1>16, <1>17, <1>18, <1>19, <1>20, <1>21
     DEF Listener

LEMMA BrowserSound ==
  ASSUME TypeInv, TypeInv', ShapeInv, SoundInv, Fewer, Browser
  PROVE  SoundInv'
<1>1. handler' = handler /\ session' = session /\ captures' = captures
  BY DEF Browser, SelectPosting, OpenOther, LoadPage, Expire
<1>2. ASSUME NEW h \in Handlers PROVE SoundAt(h)'
  <2>1. SoundAt(h) /\ ShapeOf(handler[h]) /\ handler[h] \in HandlerRecords
    BY DEF SoundInv, ShapeInv, TypeInv
  <2>2. handler[h].pc \in {"write", "load"} =>
          handler[h].pend \in Captures /\ handler[h].pend.id <= begun
    BY <2>1 DEF ShapeOf
  <2>3. \A i \in 1..Len(handler[h].records) : handler[h].records[i] \in Records
    BY <2>1, ElementOfSeq DEF HandlerRecords
  <2>4. Begins(h)' <=> Begins(h)
    BY <1>1 DEF Begins
  <2> QED BY <1>1, <2>1, <2>2, <2>3, <2>4, UseKept DEF SoundAt
<1> QED BY <1>1, <1>2, SoundStored DEF SoundInv

-----------------------------------------------------------------------------
(* The page of the target                                                  *)

(* The target has a page that is to be recorded.                           *)
Waits == Live(session) /\ session.target # None /\ IsExternal(Shown(tabs[session.target]))

LEMMA TargetIs ==
  ASSUME TypeInv, SoundInv, session # None, session.target # None
  PROVE  /\ session \in Captures /\ session.target \in NewTabs
         /\ session.target \in Tabs /\ session.target \notin SourceTabs
         /\ tabs[session.target].opener # None
<1>1. session \in Captures /\ Known(session)
  BY DEF TypeInv, SoundInv
<1>2. session.source # None /\ session.source \in SourceTabs /\ session.target \in NewTabs
  BY <1>1, CaptureAssumption DEF Captures
<1> QED BY <1>1, <1>2, CaptureAssumption DEF Known, Pointed, Tabs

(* Who attends to the target goes on to do so.                             *)
LEMMA AttendKept ==
  ASSUME AttendInv, session' = session, Waits' => Waits,
         \A i \in 1..Len(events) : \E k \in 1..Len(events') : events'[k] = events[i],
         Waits => \A g \in Handlers : Concerns(handler[g], session.target)
                                         => Concerns(handler'[g], session.target)
  PROVE  AttendInv'
<1> SUFFICES ASSUME Waits' PROVE Attended(session.target)'
  BY DEF AttendInv, Waits
<1>1. Waits /\ Attended(session.target)
  BY DEF AttendInv, Waits
<1>2. CASE \E g \in Handlers : Concerns(handler[g], session.target)
  <2>1. PICK g \in Handlers : Concerns(handler[g], session.target)
    BY <1>2
  <2>2. Concerns(handler[g], session.target)'
    BY <1>1, <2>1 DEF Concerns
  <2> QED BY <2>2 DEF Attended
<1>3. CASE \E i \in 1..Len(events) : /\ events[i].kind = "updated"
                                     /\ events[i].tab = session.target
                                     /\ IsExternal(events[i].page)
  BY <1>3 DEF Attended, IsExternal
<1> QED BY <1>1, <1>2, <1>3 DEF Attended

LEMMA AttendSame ==
  ASSUME TypeInv, SoundInv, AttendInv, NEW h \in Handlers, Only(h),
         session' = session, expired' = expired, events' = events,
         session # None /\ session.target # None
            => tabs'[session.target] = tabs[session.target],
         Waits /\ Concerns(handler[h], session.target)
            => Concerns(handler'[h], session.target)
  PROVE  AttendInv'
<1>1. Waits' => Waits
  BY DEF Waits, Live, Shown, IsExternal
<1>2. \A g \in Handlers : Waits /\ Concerns(handler[g], session.target)
                             => Concerns(handler'[g], session.target)
  BY DEF Only
<1>3. \A i \in 1..Len(events) : \E k \in 1..Len(events') : events'[k] = events[i]
  OBVIOUS
<1> QED BY <1>1, <1>2, <1>3, AttendKept

LEMMA Calm ==
  \A r, t :
     (\/ r.pc \in {"idle", "drop", "write", "trigger", "undo", "redrop"}
      \/ r.pc = "read" /\ r.op # "updated") => ~Concerns(r, t)
  BY DEF Concerns

(* The address the listener of a new tab finds, or that of the event.      *)
LEMMA LookedAt ==
  ASSUME TypeInv, SoundInv, AttendInv, NEW h \in Handlers, Only(h), LookAtTab(h)
  PROVE  AttendInv'
<1>1. /\ handler[h] \in HandlerRecords /\ handler[h].pc = "look"
      /\ session' = session /\ tabs' = tabs /\ events' = events /\ expired' = expired
  BY DEF LookAtTab, TypeInv
<1>2. /\ handler'[h].pc = "reread" /\ handler'[h].tab = handler[h].tab
      /\ handler'[h].page = Shown(tabs[handler[h].tab])
  BY <1>1 DEF LookAtTab, TypeInv, HandlerRecords
<1>3. Waits /\ Concerns(handler[h], session.target) => Concerns(handler'[h], session.target)
  BY <1>1, <1>2 DEF Waits, Concerns
<1> QED BY <1>1, <1>3, AttendSame

(* The capture that is written has its new tab looked at.                  *)
LEMMA WrittenAttends ==
  ASSUME TypeInv, ShapeInv, SoundInv, AttendInv, NEW h \in Handlers, Only(h),
         WritePending(h)
  PROVE  AttendInv'
<1>1. /\ handler[h] \in HandlerRecords /\ ShapeOf(handler[h]) /\ SoundAt(h)
      /\ handler[h].pc = "write" /\ session' = handler[h].pend
  BY DEF WritePending, TypeInv, ShapeInv, SoundInv
<1>2. CASE handler[h].op = "begin"
  <2>1. session'.target = None
    BY <1>1, <1>2 DEF SoundAt, Begins
  <2> QED BY <2>1 DEF AttendInv
<1>3. CASE handler[h].op # "begin"
  <2>1. handler[h].op = "created"
    BY <1>1, <1>3 DEF ShapeOf, HandlerRecords, Ops
  <2>2. session'.target = handler[h].tab
    BY <1>1, <2>1 DEF SoundAt
  <2>3. handler'[h].pc = "look" /\ handler'[h].tab = handler[h].tab
    BY <1>1, <1>3 DEF WritePending, TypeInv, HandlerRecords
  <2>4. Concerns(handler[h], session.target)'
    BY <2>2, <2>3 DEF Concerns
  <2> QED BY <2>4 DEF AttendInv, Attended
<1> QED BY <1>2, <1>3

(* An event about the target goes to the listener that answers it.         *)
LEMMA DeliveredAttends ==
  ASSUME TypeInv, SoundInv, AttendInv, NEW h \in Handlers, Only(h), Deliver(h)
  PROVE  AttendInv'
<1> SUFFICES ASSUME Waits' PROVE Attended(session.target)'
  BY DEF AttendInv, Waits
<1>1. /\ session' = session /\ tabs' = tabs /\ expired' = expired
      /\ events # <<>> /\ events' = Tail(events) /\ events \in Seq(Events)
      /\ handler[h].pc = "idle"
  BY DEF Deliver, Enter, TypeInv
<1>2. Attended(session.target)
  BY <1>1 DEF AttendInv, Waits, Live, Shown
<1>3. /\ Len(events) \in Nat /\ Len(events') = Len(events) - 1
      /\ \A i \in 1..Len(events') : events'[i] = events[i + 1]
      /\ Head(events) = events[1] /\ events[1] \in Events
  BY <1>1, Delivered
<1>4. CASE \E g \in Handlers : Concerns(handler[g], session.target)
  <2>1. PICK g \in Handlers : Concerns(handler[g], session.target)
    BY <1>4
  <2>2. g # h
    BY <1>1, <2>1, Calm
  <2>3. Concerns(handler[g], session.target)'
    BY <1>1, <2>1, <2>2 DEF Only
  <2> QED BY <2>3 DEF Attended
<1>5. ASSUME NEW i \in 1..Len(events), events[i].kind = "updated",
             events[i].tab = session.target, IsExternal(events[i].page)
      PROVE  Attended(session.target)'
  <2>1. CASE i = 1
    <3> DEFINE e == events[1]
    <3>1. e.kind \in {"created", "updated"} /\ e.tab \in Tabs /\ e.page \in Pages
      BY <1>3 DEF Events
    <3> HIDE DEF e
    <3>2. Enter(h, e.kind, "read", e.tab, e.page, None)
      BY <1>3 DEF Deliver, e
    <3>3. handler'[h] = Start(e.kind, "read", e.tab, e.page, None)
      BY <3>1, <3>2, Entered, Names
    <3>4. /\ handler'[h].pc = "read" /\ handler'[h].op = "updated"
          /\ handler'[h].tab = session.target /\ IsExternal(handler'[h].page)
      BY <1>5, <2>1, <3>3 DEF e, Start, IdleHandler
    <3>5. Concerns(handler[h], session.target)'
      BY <1>1, <3>4 DEF Concerns, IsExternal
    <3> QED BY <3>5 DEF Attended
  <2>2. CASE i # 1
    <3>1. i - 1 \in 1..Len(events') /\ events'[i - 1] = events[i]
      BY <1>3, <2>2
    <3> QED BY <1>1, <1>5, <3>1 DEF Attended, IsExternal
  <2> QED BY <2>1, <2>2
<1> QED BY <1>2, <1>4, <1>5 DEF Attended

LEMMA ListenerAttends ==
  ASSUME TypeInv, ShapeInv, SoundInv, AttendInv, NEW h \in Handlers, Only(h),
         Listener(h)
  PROVE  AttendInv'
<1>0. handler[h] \in HandlerRecords /\ ShapeOf(handler[h])
  BY DEF TypeInv, ShapeInv
<1>1. ASSUME session' = None PROVE AttendInv'
  BY <1>1 DEF AttendInv, Live
<1>2. ASSUME session' = session, ~Live(session), expired' = expired PROVE AttendInv'
  BY <1>2 DEF AttendInv, Live
<1>3. ASSUME session' = session, expired' = expired, events' = events,
             session # None /\ session.target # None
                => tabs'[session.target] = tabs[session.target],
             \A t : ~Concerns(handler[h], t)
      PROVE  AttendInv'
  BY <1>3, AttendSame
<1>4. ASSUME NEW s \in SourceTabs, NEW j \in Jobs, BeginCapture(h, s, j)
      PROVE  AttendInv'
  BY <1>3, <1>4, Calm DEF BeginCapture, Enter
<1>5. CASE GetCaptureStatus(h)
  BY <1>2, <1>5 DEF GetCaptureStatus
<1>6. CASE Deliver(h)
  BY <1>6, DeliveredAttends
<1>7. CASE ReadNothing(h) \/ DropExpired(h) \/ UndoCapture(h) \/ ClearPending(h)
  BY <1>1, <1>7 DEF ReadNothing, DropExpired, UndoCapture, ClearPending
<1>8. CASE ReadExpired(h)
  BY <1>2, <1>8 DEF ReadExpired
<1>9. CASE BeginRefused(h)
  BY <1>3, <1>9, Calm DEF BeginRefused
<1>10. CASE TabCreated(h)
  BY <1>3, <1>10, Calm DEF TabCreated
<1>11. CASE TabUpdated(h)
  <2>1. /\ session' = session /\ tabs' = tabs /\ events' = events /\ expired' = expired
        /\ handler[h].pc = "read" /\ handler[h].op = "updated"
    BY <1>11 DEF TabUpdated
  <2>2. CASE Goto(h, "reread")
    <3>1. /\ handler'[h].pc = "reread" /\ handler'[h].tab = handler[h].tab
          /\ handler'[h].page = handler[h].page
      BY <1>0, <2>2 DEF Goto, TypeInv, HandlerRecords
    <3>2. \A t : Concerns(handler[h], t) => Concerns(handler'[h], t)
      BY <2>1, <3>1 DEF Concerns
    <3> QED BY <2>1, <3>2, AttendSame
  <2>3. CASE handler[h].tab \notin {session.source, session.target}
    <3>1. ~Concerns(handler[h], session.target)
      BY <2>1, <2>3 DEF Concerns
    <3> QED BY <2>1, <3>1, AttendSame
  <2> QED BY <1>11, <2>2, <2>3 DEF TabUpdated
<1>12. CASE WritePending(h)
  BY <1>12, WrittenAttends
<1>13. CASE LookAtTab(h)
  BY <1>13, LookedAt
<1>14. CASE SelectForApply(h)
  <2>1. handler[h].tab \in SourceTabs
    BY <1>0, <1>14 DEF SelectForApply, ShapeOf, HandlerRecords, Ops
  <2>2. session # None /\ session.target # None
           => tabs'[session.target] = tabs[session.target]
    BY <1>14, <2>1, TargetIs DEF SelectForApply, TypeInv
  <2> QED BY <1>3, <1>14, <2>2, Calm DEF SelectForApply
<1>15. ASSUME NEW t \in NewTabs, ClickOpensTab(h, t) PROVE AttendInv'
  <2>1. handler[h].tab \in SourceTabs /\ handler[h].job \in Jobs /\ t \in Tabs
    BY <1>0, <1>15 DEF ClickOpensTab, ShapeOf, HandlerRecords, Ops, Tabs
  <2>2. /\ Opened(handler[h].tab, t, Site(handler[h].job))
        /\ session' = session /\ expired' = expired /\ handler[h].pc = "trigger"
    BY <1>15 DEF ClickOpensTab
  <2>3. session # None /\ session.target # None
           => tabs'[session.target] = tabs[session.target]
    BY <2>2, TargetIs DEF Opened, TypeInv
  <2>4. Waits' => Waits
    BY <2>2, <2>3 DEF Waits, Live, Shown, IsExternal
  <2>5. \A i \in 1..Len(events) : events'[i] = events[i] /\ i \in 1..Len(events')
    BY <2>1, <2>2, StillThere, PagesAre DEF Opened, TypeInv
  <2>6. \A g \in Handlers : Concerns(handler[g], session.target)
                               => Concerns(handler'[g], session.target)
    BY <2>2, Calm DEF Only
  <2> QED BY <2>2, <2>4, <2>5, <2>6, AttendKept
<1>16. ASSUME NEW answered \in BOOLEAN, ClickNavigates(h, answered) PROVE AttendInv'
  <2>1. handler[h].tab \in SourceTabs
    BY <1>0, <1>16 DEF ClickNavigates, ShapeOf, HandlerRecords, Ops
  <2>2. session # None /\ session.target # None
           => tabs'[session.target] = tabs[session.target]
    BY <1>16, <2>1, TargetIs DEF ClickNavigates, TypeInv
  <2> QED BY <1>3, <1>16, <2>2, Calm DEF ClickNavigates
<1>17. CASE TriggerFails(h)
  BY <1>3, <1>17, Calm DEF TriggerFails
<1>18. CASE MaybeFinalize(h)
  <2>1. /\ session' = session /\ tabs' = tabs /\ events' = events /\ expired' = expired
        /\ handler[h].pc = "reread"
    BY <1>18 DEF MaybeFinalize
  <2>2. CASE /\ handler[h].tab \in {session.source, session.target}
             /\ IsExternal(handler[h].page)
    <3>1. handler' = [handler EXCEPT ![h].pc = "load", ![h].pend = session]
      BY <1>18, <2>2 DEF MaybeFinalize
    <3>2. handler'[h].pc = "load"
      BY <1>0, <3>1 DEF TypeInv, HandlerRecords
    <3>3. \A t : Concerns(handler'[h], t)
      BY <3>2 DEF Concerns
    <3> QED BY <2>1, <3>3, AttendSame
  <2>3. CASE ~(/\ handler[h].tab \in {session.source, session.target}
               /\ IsExternal(handler[h].page))
    <3>1. ~Concerns(handler[h], session.target)
      BY <2>1, <2>3 DEF Concerns
    <3> QED BY <2>1, <3>1, AttendSame
  <2> QED BY <2>2, <2>3
<1>19. CASE LoadCaptures(h)
  <2>1. handler'[h].pc = "store"
    BY <1>0, <1>19 DEF LoadCaptures, Store, TypeInv, HandlerRecords, IdleHandler
  <2>2. \A t : Concerns(handler'[h], t)
    BY <2>1 DEF Concerns
  <2> QED BY <1>19, <2>2, AttendSame DEF LoadCaptures
<1>20. CASE StoreCaptures(h)
  <2>1. handler'[h].pc = "clear"
    BY <1>0, <1>20 DEF StoreCaptures, TypeInv, HandlerRecords, IdleHandler
  <2>2. \A t : Concerns(handler'[h], t)
    BY <2>1 DEF Concerns
  <2> QED BY <1>20, <2>2, AttendSame DEF StoreCaptures
<1>21. ASSUME NEW t \in Tabs, ReportTab(h, t) PROVE AttendInv'
  BY <1>3, <1>21, Calm DEF ReportTab, Enter
<1> QED
  BY <1>4, <1>5, <1>6, <1>7, <1>8, <1>9, <1>10, <1>11, <1>12, <1>13, <1>14, <1>15,
     <1>16, <1>17, <1>18, <1>19, <1>20, <1>21
     DEF Listener

LEMMA BrowserAttends ==
  ASSUME TypeInv, SoundInv, AttendInv, Browser
  PROVE  AttendInv'
<1>1. handler' = handler /\ session' = session
  BY DEF Browser, SelectPosting, OpenOther, LoadPage, Expire
<1>2. \A g \in Handlers : Concerns(handler[g], session.target)
                             => Concerns(handler'[g], session.target)
  BY <1>1
<1>3. ASSUME NEW s \in SourceTabs, NEW j \in Jobs, SelectPosting(s, j)
      PROVE  AttendInv'
  <2>1. session # None /\ session.target # None
           => tabs'[session.target] = tabs[session.target]
    BY <1>3, TargetIs DEF SelectPosting, TypeInv
  <2>2. Waits' => Waits
    BY <1>1, <1>3, <2>1 DEF SelectPosting, Waits, Live, Shown, IsExternal
  <2> QED BY <1>1, <1>2, <1>3, <2>2, AttendKept DEF SelectPosting
<1>4. ASSUME NEW s \in SourceTabs \cup OtherTabs, NEW t \in NewTabs, OpenOther(s, t)
      PROVE  AttendInv'
  <2>1. Opened(s, t, Other) /\ expired' = expired /\ t \in Tabs
    BY <1>4 DEF OpenOther, Tabs
  <2>2. session # None /\ session.target # None
           => tabs'[session.target] = tabs[session.target]
    BY <2>1, TargetIs DEF Opened, TypeInv
  <2>3. Waits' => Waits
    BY <1>1, <2>1, <2>2 DEF Waits, Live, Shown, IsExternal
  <2>4. \A i \in 1..Len(events) : events'[i] = events[i] /\ i \in 1..Len(events')
    BY <2>1, StillThere, PagesAre DEF Opened, TypeInv
  <2> QED BY <1>1, <1>2, <2>3, <2>4, AttendKept
<1>5. ASSUME NEW t \in Tabs, LoadPage(t) PROVE AttendInv'
  <2>1. /\ tabs[t].next \in Pages /\ expired' = expired
        /\ Notify("updated", t, tabs[t].next)
        /\ tabs' = [tabs EXCEPT ![t].page = tabs[t].next, ![t].next = None]
    BY <1>5 DEF LoadPage, TypeInv
  <2>2. /\ \A i \in 1..Len(events) : events'[i] = events[i] /\ i \in 1..Len(events')
        /\ \E k \in 1..Len(events') :
              events'[k] = [kind |-> "updated", tab |-> t, page |-> tabs[t].next]
    BY <2>1, StillThere DEF TypeInv
  <2>3. CASE session # None /\ session.target = t
    <3>1. Shown(tabs[t])' = tabs[t].next
      BY <2>1 DEF Shown, TypeInv
    <3>2. Waits' => Attended(session.target)'
      BY <1>1, <2>2, <2>3, <3>1 DEF Waits, Attended, Shown, IsExternal
    <3> QED BY <3>2 DEF Waits, AttendInv
  <2>4. CASE ~(session # None /\ session.target = t)
    <3>1. session # None /\ session.target # None
             => tabs'[session.target] = tabs[session.target]
      BY <2>1, <2>4, TargetIs DEF TypeInv
    <3>2. Waits' => Waits
      BY <1>1, <2>1, <3>1 DEF Waits, Live, Shown, IsExternal
    <3> QED BY <1>1, <1>2, <2>2, <3>2, AttendKept
  <2> QED BY <2>3, <2>4
<1>6. CASE Expire
  <2>1. Live(session)' => Live(session)
    <3>1. expired \in Int /\ expired' = expired + 1
      BY <1>6 DEF Expire, TypeInv
    <3>2. session # None => session.id \in Int
      BY DEF TypeInv, Captures
    <3> QED BY <1>1, <3>1, <3>2 DEF Live
  <2>2. Waits' => Waits
    BY <1>1, <1>6, <2>1 DEF Expire, Waits, Shown, IsExternal
  <2> QED BY <1>1, <1>2, <1>6, <2>2, AttendKept DEF Expire
<1> QED BY <1>3, <1>4, <1>5, <1>6 DEF Browser

-----------------------------------------------------------------------------
(* What is recorded is over                                                *)

LEMMA OverKept ==
  ASSUME OverInv, session' = session, captures' = captures,
         \A g \in Handlers : handler[g].pc = "clear" => handler'[g].pc = "clear"
  PROVE  OverInv'
  BY DEF OverInv

(* A capture that is written back is a new one or waits for a new tab.     *)
LEMMA WrittenOver ==
  ASSUME TypeInv, ShapeInv, SoundInv, NEW h \in Handlers, WritePending(h)
  PROVE  OverInv'
<1>1. /\ handler[h] \in HandlerRecords /\ ShapeOf(handler[h]) /\ SoundAt(h)
      /\ handler[h].pc = "write" /\ session' = handler[h].pend /\ captures' = captures
  BY DEF WritePending, TypeInv, ShapeInv, SoundInv
<1>2. \A i \in 1..Len(captures) : ~IsNewId(captures[i].id) /\ ~IsNewTab(captures[i].tab)
  BY DEF SoundInv, Sound
<1>3. CASE handler[h].op = "begin"
  <2>1. IsNewId(handler[h].pend.id)
    BY <1>1, <1>3 DEF IsNewId, Begins
  <2> QED BY <1>1, <1>2, <2>1 DEF OverInv
<1>4. CASE handler[h].op # "begin"
  <2>1. handler[h].op = "created"
    BY <1>1, <1>4 DEF ShapeOf, HandlerRecords, Ops
  <2>2. /\ handler[h].pend.target = handler[h].tab
        /\ handler[h].tab \in NewTabs /\ handler[h].tab # None
    BY <1>1, <2>1, CaptureAssumption DEF SoundAt, ShapeOf
  <2>3. IsNewTab(handler[h].tab)
    BY <1>1, <2>1 DEF IsNewTab, Announces
  <2> QED BY <1>1, <1>2, <2>2, <2>3 DEF OverInv
<1> QED BY <1>3, <1>4

LEMMA ListenerOver ==
  ASSUME TypeInv, ShapeInv, SoundInv, OverInv, NEW h \in Handlers, Only(h),
         Listener(h)
  PROVE  OverInv'
<1>1. ASSUME session' = None PROVE OverInv'
  BY <1>1 DEF OverInv
<1>2. ASSUME session' = session, captures' = captures, handler[h].pc # "clear"
      PROVE  OverInv'
  BY <1>2, OverKept DEF Only
<1>3. ASSUME NEW s \in SourceTabs, NEW j \in Jobs, BeginCapture(h, s, j)
      PROVE  OverInv'
  BY <1>2, <1>3 DEF BeginCapture, Enter
<1>4. CASE GetCaptureStatus(h) \/ Deliver(h)
  BY <1>2, <1>4 DEF GetCaptureStatus, Deliver, Enter
<1>5. CASE ReadNothing(h) \/ DropExpired(h) \/ UndoCapture(h) \/ ClearPending(h)
  BY <1>1, <1>5 DEF ReadNothing, DropExpired, UndoCapture, ClearPending
<1>6. CASE ReadExpired(h) \/ BeginRefused(h) \/ TabCreated(h) \/ TabUpdated(h) \/ LookAtTab(h)
  BY <1>2, <1>6 DEF ReadExpired, BeginRefused, TabCreated, TabUpdated, LookAtTab
<1>7. CASE SelectForApply(h) \/ TriggerFails(h) \/ MaybeFinalize(h) \/ LoadCaptures(h)
  BY <1>2, <1>7 DEF SelectForApply, TriggerFails, MaybeFinalize, LoadCaptures
<1>8. ASSUME NEW t \in NewTabs, ClickOpensTab(h, t) PROVE OverInv'
  BY <1>2, <1>8 DEF ClickOpensTab
<1>9. ASSUME NEW answered \in BOOLEAN, ClickNavigates(h, answered) PROVE OverInv'
  BY <1>2, <1>9 DEF ClickNavigates
<1>10. CASE WritePending(h)
  BY <1>10, WrittenOver
<1>11. CASE StoreCaptures(h)
  <2>1. handler'[h].pc = "clear"
    BY <1>11 DEF StoreCaptures, TypeInv, IdleHandler
  <2> QED BY <2>1 DEF OverInv
<1>12. ASSUME NEW t \in Tabs, ReportTab(h, t) PROVE OverInv'
  BY <1>2, <1>12 DEF ReportTab, Enter
<1> QED
  BY <1>3, <1>4, <1>5, <1>6, <1>7, <1>8, <1>9, <1>10, <1>11, <1>12 DEF Listener

-----------------------------------------------------------------------------
(* The invariant is inductive                                              *)

LEMMA InitEstablishes == Init => IInv
<1> SUFFICES ASSUME Init PROVE IInv
  OBVIOUS
<1>1. /\ \A h \in Handlers : handler[h] = IdleHandler
      /\ events = <<>> /\ session = None /\ begun = 0 /\ expired = 0
      /\ Len(events) = 0
  BY DEF Init
<1>2. captures \in Seq(EarlierRecords) /\ Len(captures) = Earlier
  BY CaptureAssumption DEF Init
<1>3. \A i \in 1..Len(captures) : captures[i] \in EarlierRecords
  BY <1>2, ElementOfSeq
<1>4. \A t \in Tabs : tabs[t] = [opener |-> None, page |-> Blank, next |-> None]
  BY DEF Init
<1>5. TypeInv
  <2>1. captures \in Seq(Records) /\ Len(captures) <= MaxRecords
    <3>1. \A i \in 1..Len(captures) : captures[i] \in Records
      BY <1>3 DEF EarlierRecords
    <3> QED BY <1>2, <3>1, InSeq, CaptureAssumption
  <2>2. tabs \in [Tabs -> [opener : SourceTabs \cup OtherTabs \cup {None},
                           page : Pages, next : Pages \cup {None}]]
    BY PagesAre DEF Init
  <2>3. handler \in [Handlers -> HandlerRecords]
    BY IdleIs DEF Init
  <2>4. events \in Seq(Events)
    BY <1>1, EmptySeq
  <2> QED BY <1>1, <2>1, <2>2, <2>3, <2>4, CaptureAssumption DEF TypeInv
<1>6. ShapeInv
  BY <1>1 DEF ShapeInv, ShapeOf, IdleHandler
<1>7. \A h \in Handlers : handler[h].pc = "idle"
  BY <1>1 DEF IdleHandler
<1>8. NewInv
  BY <1>1, <1>7 DEF NewInv, Begins, Announces
<1>9. SoundInv
  <2>1. ASSUME NEW i \in 1..Len(captures) PROVE Sound(captures[i])
    <3>1. /\ captures[i].id = 0 /\ captures[i].tab = captures[i].source
          /\ captures[i].source \in SourceTabs /\ captures[i].page = Site(captures[i].job)
      BY <1>3 DEF EarlierRecords, Records
    <3>2. Near(captures[i])
      BY <3>1 DEF Near, IsExternal, Site
    <3>3. ~IsNewId(captures[i].id)
      BY <1>7 DEF IsNewId, Begins
    <3>4. captures[i].tab \notin NewTabs
      BY <3>1, CaptureAssumption
    <3>5. ~IsNewTab(captures[i].tab)
      BY <1>1, <1>7, <3>4 DEF IsNewTab, Announces
    <3> QED BY <1>1, <3>1, <3>2, <3>3, <3>5 DEF Sound
  <2>2. ASSUME NEW h \in Handlers PROVE SoundAt(h)
    BY <1>7 DEF SoundAt, Begins
  <2> QED BY <1>1, <2>1, <2>2 DEF SoundInv
<1>10. AttendInv /\ OverInv
  BY <1>1 DEF AttendInv, OverInv, Live
<1> QED BY <1>5, <1>6, <1>8, <1>9, <1>10 DEF IInv

LEMMA StepKeeps == IInv /\ [Next]_vars => IInv'
<1> SUFFICES ASSUME IInv, [Next]_vars PROVE IInv'
  OBVIOUS
<1> USE DEF IInv
<1>1. ASSUME NEW h \in Handlers, Listener(h) PROVE IInv'
  <2>1. TypeInv' /\ ShapeInv' /\ Only(h)
    BY <1>1, ListenerTypes DEF Typed
  <2>2. NewInv' /\ Fewer
    BY <1>1, <2>1, ListenerNews DEF Typed
  <2>3. SoundInv'
    BY <1>1, <2>1, <2>2, ListenerSound
  <2>4. AttendInv'
    BY <1>1, <2>1, ListenerAttends
  <2>5. OverInv'
    BY <1>1, <2>1, ListenerOver
  <2> QED BY <2>1, <2>2, <2>3, <2>4, <2>5
<1>2. CASE Browser
  <2>1. TypeInv' /\ ShapeInv' /\ handler' = handler
    BY <1>2, BrowserTypes
  <2>2. NewInv' /\ Fewer
    BY <1>2, BrowserNews
  <2>3. SoundInv'
    BY <1>2, <2>1, <2>2, BrowserSound
  <2>4. AttendInv'
    BY <1>2, BrowserAttends
  <2>5. session' = session /\ captures' = captures
    BY <1>2 DEF Browser, SelectPosting, OpenOther, LoadPage, Expire
  <2>6. OverInv'
    BY <2>1, <2>5, OverKept
  <2> QED BY <2>1, <2>2, <2>3, <2>4, <2>6
<1>3. CASE UNCHANGED vars
  <2>1. \A h \in Handlers : (Begins(h)' <=> Begins(h)) /\ (Announces(h)' <=> Announces(h))
    BY <1>3 DEF vars, Begins, Announces
  <2>2. TypeInv' /\ ShapeInv'
    BY <1>3 DEF vars, TypeInv, ShapeInv, ShapeOf
  <2>3. NewInv' /\ Fewer
    <3>1. \A i : Told(i)' <=> Told(i)
      BY <1>3 DEF vars, Told
    <3>2. NewInv'
      BY <1>3, <2>1, <3>1 DEF vars, NewInv
    <3>3. begun <= begun'
      BY <1>3 DEF vars, TypeInv
    <3> QED BY <1>3, <2>1, <3>1, <3>2, <3>3 DEF vars, Fewer, IsNewId, IsNewTab
  <2>4. SoundInv'
    <3>1. ASSUME NEW r PROVE Sound(r)' <=> Sound(r)
      BY <1>3, <2>1 DEF vars, Sound, Near, IsNewId, IsNewTab, Told
    <3> QED BY <1>3, <2>1 DEF vars, SoundInv, SoundAt, Sound, Near, Known, Pointed, IsNewId, IsNewTab, Told
  <2>5. AttendInv' /\ OverInv'
    BY <1>3 DEF vars, AttendInv, Attended, Concerns, OverInv, Live, Shown, IsExternal
  <2> QED BY <2>2, <2>3, <2>4, <2>5
<1> QED BY <1>1, <1>2, <1>3 DEF Next

(* The invariant holds of every behaviour.                                 *)
THEOREM Inductive == Spec => []IInv
<1>1. Init => IInv
  BY InitEstablishes
<1>2. IInv /\ [Next]_vars => IInv'
  BY StepKeeps
<1> QED BY <1>1, <1>2, PTL DEF Spec

(* The values of the storage, the tabs and the listeners are of their      *)
(* kinds, and at most MAX_CAPTURE_RECORDS records are kept.                *)
THEOREM TypeCorrect == Spec => []TypeOK
<1>1. IInv => TypeOK
  <2> SUFFICES ASSUME IInv PROVE TypeOK
    OBVIOUS
  <2>1. TypeInv /\ \A h \in Handlers : handler[h] \in HandlerRecords /\ ShapeOf(handler[h])
    BY DEF IInv, TypeInv, ShapeInv
  <2>2. ASSUME NEW h \in Handlers
        PROVE  /\ handler[h].pc \in Pcs /\ handler[h].op \in Ops
               /\ handler[h].pc # "idle" => handler[h].op # "none"
               /\ handler[h].pc \in {"write", "load"} => handler[h].pend \in Captures
               /\ handler[h].records \in Seq(Records)
    BY <2>1 DEF ShapeOf, HandlerRecords
  <2> QED BY <2>1, <2>2 DEF TypeInv, TypeOK, Events
<1> QED BY <1>1, Inductive, PTL

(* A record is taken in the source tab of its capture or in a tab opened   *)
(* from there, on a public site, whatever the listeners of other tabs and  *)
(* captures do in between (onCreated, onUpdated and maybeFinalizeCapture   *)
(* of background.js).                                                      *)
THEOREM TakenNearby == Spec => []TakenNearItsSource
<1>1. IInv => TakenNearItsSource
  <2> SUFFICES ASSUME IInv, NEW i \in DOMAIN captures
               PROVE  /\ captures[i].tab = captures[i].source
                         \/ tabs[captures[i].tab].opener = captures[i].source
                      /\ IsExternal(captures[i].page)
    BY DEF TakenNearItsSource
  <2>1. i \in 1..Len(captures)
    BY LenProperties DEF IInv, TypeInv
  <2> QED BY <2>1 DEF IInv, SoundInv, Sound, Near
<1> QED BY <1>1, Inductive, PTL

LEMMA QuietIs ==
  ASSUME Quiet
  PROVE  Len(events) = 0 /\ \A h \in Handlers : \A t : ~Concerns(handler[h], t)
  BY Calm DEF Quiet

(* The page of a new tab is seen by the listener of its creation or by     *)
(* that of its update, in any order of the two and of the page's loading.  *)
THEOREM NoPageMissed == Spec => []NothingMissed
<1>1. IInv => NothingMissed
  <2> SUFFICES ASSUME IInv, Quiet, Live(session), session.target # None,
                      IsExternal(Shown(tabs[session.target]))
               PROVE  FALSE
    BY DEF NothingMissed
  <2>1. Attended(session.target)
    BY DEF IInv, AttendInv
  <2> QED BY <2>1, QuietIs DEF Attended
<1> QED BY <1>1, Inductive, PTL

(* A recorded capture is cleared, or what a listener of another new tab    *)
(* wrote back of it waits for that tab (persistCompletedCapture and        *)
(* onCreated of background.js).                                            *)
THEOREM RecordedOnce == Spec => []CapturedOnce
<1>1. IInv => CapturedOnce
  <2> SUFFICES ASSUME IInv, Quiet, session # None, NEW i \in DOMAIN captures,
                      captures[i].id = session.id,
                      session.target \in {None, captures[i].tab}
               PROVE  FALSE
    BY DEF CapturedOnce
  <2>1. i \in 1..Len(captures)
    BY LenProperties DEF IInv, TypeInv
  <2>2. \E h \in Handlers : handler[h].pc = "clear"
    BY <2>1 DEF IInv, OverInv
  <2> QED BY <2>2 DEF Quiet
<1> QED BY <1>1, Inductive, PTL
=============================================================================
