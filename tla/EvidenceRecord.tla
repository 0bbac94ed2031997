--------------------------- MODULE EvidenceRecord ---------------------------
(***************************************************************************)
(* One company's record in the company discovery evidence store            *)
(* (job_source_agent/company_discovery_evidence_store.py): a verified      *)
(* website, a verified career page of that website, and the verified       *)
(* provider boards, newest first.  Layers carry the time they were         *)
(* observed.  URLs and board identities are model values.                  *)
(***************************************************************************)
EXTENDS Integers, Sequences

CONSTANTS Sites,      \* website URLs
          Careers,    \* career page URLs
          BoardIds,   \* provider, tenant and canonical board URL together
          MaxBoards,  \* _MAX_PROVIDER_BOARDS (eight in the code)
          MaxClock,   \* bound on the observation times
          NoUrl       \* URL of a layer that is not there

ASSUME RecordAssumption ==
    /\ MaxBoards \in Nat \ {0}
    /\ MaxClock \in Nat \ {0}
    /\ NoUrl \notin Sites \cup Careers \cup BoardIds

Times == 1..MaxClock

SiteLayers   == [url : Sites, at : Times]
CareerLayers == [url : Careers, site : Sites, at : Times]
BoardLayers  == [url : BoardIds, at : Times]

NoSite   == [url |-> NoUrl, at |-> 0]
NoCareer == [url |-> NoUrl, site |-> NoUrl, at |-> 0]

EmptyRecord == [site |-> NoSite, career |-> NoCareer, boards |-> <<>>]

Records ==
    [site   : SiteLayers \cup {NoSite},
     career : CareerLayers \cup {NoCareer},
     boards : UNION {[1..n -> BoardLayers] : n \in 0..MaxBoards}]

(* The part of Records that does not look into the board list.             *)
HasLayers(record) ==
    record \in [site   : SiteLayers \cup {NoSite},
               career : CareerLayers \cup {NoCareer},
               boards : {record.boards}]

(* The career page belongs to the website it is stored with.               *)
CareerFits(record) ==
    record.career # NoCareer => record.career.site = record.site.url

(* The calls the pipeline makes.  Nothing invalidates a single board.      *)
Operations ==
    [kind : {"save_site", "drop_site"}, layer : SiteLayers]
    \cup [kind : {"save_career", "drop_career"}, layer : CareerLayers]
    \cup [kind : {"save_board"}, layer : BoardLayers]

-----------------------------------------------------------------------------
(* Mutant: an older observation replaces a newer one.                      *)
SaveSiteAnyAge(record, site) ==
    IF record.site # NoSite /\ record.site.url # site.url
    THEN [EmptyRecord EXCEPT !.site = site]
    ELSE [record EXCEPT !.site = site]

(* save(website=...): not older than what is there; another website drops  *)
(* everything that hung on the previous one.                               *)
SaveSite(record, site) ==
    IF site.at < record.site.at THEN record
    ELSE IF record.site # NoSite /\ record.site.url # site.url
    THEN [EmptyRecord EXCEPT !.site = site]
    ELSE [record EXCEPT !.site = site]

(* Mutant: the career page is stored whatever the current website is.      *)
SaveCareerUnchecked(record, career) ==
    IF career.at < record.career.at THEN record
    ELSE [record EXCEPT
            !.career = career,
            !.boards = IF record.career = NoCareer
                          \/ record.career.url = career.url
                       THEN @ ELSE <<>>]

(* save(career=...): only for the website that is stored now, not older;   *)
(* another career page drops the boards.                                   *)
SaveCareer(record, career) ==
    IF record.site.url # career.site \/ career.at < record.career.at
    THEN record
    ELSE [record EXCEPT
            !.career = career,
            !.boards = IF record.career = NoCareer
                          \/ record.career.url = career.url
                       THEN @ ELSE <<>>]

(* The boards of other identities, in their order.  An identity is listed  *)
(* at most once (NewestBoardsFirst).                                       *)
Others(boards, url) ==
    IF \A i \in DOMAIN boards : boards[i].url # url THEN boards
    ELSE LET i == CHOOSE i \in DOMAIN boards : boards[i].url = url
         IN SubSeq(boards, 1, i - 1) \o SubSeq(boards, i + 1, Len(boards))

(* The stable sort of a list that is newest first and one appended board:  *)
(* it goes behind those observed later or at the same time.                *)
Sorted(boards, board) ==
    LET k == CHOOSE k \in 0..Len(boards) :
               \A i \in DOMAIN boards : i <= k <=> boards[i].at >= board.at
    IN SubSeq(boards, 1, k) \o <<board>> \o SubSeq(boards, k + 1, Len(boards))

Cut(boards) ==
    SubSeq(boards, 1, IF Len(boards) < MaxBoards THEN Len(boards) ELSE MaxBoards)

(* Mutant: the list is not cut back to its limit.                          *)
SaveBoardUncut(record, board) ==
    [record EXCEPT !.boards = Sorted(Others(@, board.url), board)]

(* Mutant: the new board goes to the end and the list is not sorted.       *)
SaveBoardLast(record, board) ==
    [record EXCEPT !.boards = Cut(Append(Others(@, board.url), board))]

(* save(provider_board=...): one entry per identity, the newest one; the   *)
(* oldest fall off the end.  Website and career of the record are not      *)
(* looked at.                                                              *)
SaveBoard(record, board) ==
    IF \E i \in DOMAIN record.boards :
          /\ record.boards[i].url = board.url
          /\ record.boards[i].at > board.at
    THEN record
    ELSE [record EXCEPT !.boards = Cut(Sorted(Others(@, board.url), board))]

(* invalidate(layer="website" / "career", evidence_url=url): an entry with *)
(* that URL goes, with everything below it; an empty record is removed.    *)
InvalidateSite(record, url) ==
    IF record.site.url = url THEN EmptyRecord ELSE record

InvalidateCareer(record, url) ==
    IF record.career.url # url THEN record
    ELSE IF record.site = NoSite THEN EmptyRecord
    ELSE [record EXCEPT !.career = NoCareer, !.boards = <<>>]

Apply(op, record) ==
    CASE op.kind = "save_site"   -> SaveSite(record, op.layer)
      [] op.kind = "save_career" -> SaveCareer(record, op.layer)
      [] op.kind = "save_board"  -> SaveBoard(record, op.layer)
      [] op.kind = "drop_site"   -> InvalidateSite(record, op.layer.url)
      [] op.kind = "drop_career" -> InvalidateCareer(record, op.layer.url)

-----------------------------------------------------------------------------
(* load: a layer must be fresh, and a career page needs its website.       *)
Fresh(layer, now, maxAge) ==
    /\ layer.url # NoUrl
    /\ layer.at <= now
    /\ now - layer.at <= maxAge

SiteIsVisible(record, now, maxAge) == Fresh(record.site, now, maxAge)

CareerIsVisible(record, now, maxAge) ==
    /\ Fresh(record.site, now, maxAge)
    /\ Fresh(record.career, now, maxAge)
=============================================================================
