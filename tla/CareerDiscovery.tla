--------------------------- MODULE CareerDiscovery ---------------------------
(***************************************************************************)
(* The search for a company's career page: JobSourceAgent._find_career_page*)
(* with _select_verified_career_candidate.  One source of links after the  *)
(* other is read; for each the candidates are scheduled and the first of   *)
(* them visited until one proves to be a career page.  The page of a       *)
(* regional gateway opens a pass of its own within the pass.  What all     *)
(* passes leave in the shared trace decides the reason of a failure.       *)
(*                                                                         *)
(* A visit is what the code counts (fetch_attempts): one candidate, with   *)
(* all that is asked for it, its page and, for a provider's board, the     *)
(* adapter and the API as well, often at the same URL.  Whether a page is  *)
(* a career page, and what a source finds, is free.                        *)
(***************************************************************************)
EXTENDS CareerSchedule

CONSTANTS MaxCandidates, \* max_candidates
          MaxFetches,    \* max_career_candidate_fetches
          BundleFetches, \* max_fetches of a bundle pass
          AtsFetches,    \* max_ats_board_fetches
          Offers         \* the candidates that each source may find

Sources == {"evidence", "primary", "bundle", "sitemap", "ats", "search", "gateway"}
Sites   == {"official", "careers", "region", "ats", "third"}

ASSUME DiscoveryAssumption ==
    /\ MaxCandidates \in Nat /\ MaxFetches \in Nat
    /\ BundleFetches \in Nat /\ AtsFetches \in Nat
    /\ \A s \in Sources : Listed(Offers[s]) /\ \A c \in Offers[s] : c.site \in Sites

VARIABLES
    at,         \* how far _find_career_page is
    passes,     \* the passes under way, the innermost last
    homepage,   \* whether the homepage could be fetched
    bundled,    \* bundle_attempted
    denial,     \* official_host_denial, as of before the sitemap
    remembers,  \* whether homepage evidence was given: URLs are remembered
    attempted,  \* attempted_candidate_urls
    trace,      \* what the trace says of denials per site, of evidence that
                \* could not be reached and of an exhausted budget
    result,
    visits,     \* history: visits of the outermost pass and those within it
    seen        \* history: URLs by what became of them

vars == <<at, passes, homepage, bundled, denial, remembers, attempted, trace,
          result, visits, seen>>

Candidates == UNION {Offers[s] : s \in Sources}
Urls    == {c.url : c \in Candidates}
Results == {"none", "found", "denied", "budget", "unreached", "not_found"}
Places  == {"evidence", "homepage", "early bundle", "primary", "late bundle",
            "sitemap", "ats", "search", "verdict", "end"}

\* queued: evidence that a pass scheduled; nested: visited from a gateway;
\* again: visited once more although remembered; settled: answered for good,
\* by a page or by an error that another try is not to change; crowded: left
\* in a window whose visits a gateway used up; skipped: on a site that
\* denies access
Fates == {"queued", "visited", "nested", "again", "settled", "crowded", "skipped"}

Passes == [source : Sources, home : Sites, limit : Nat, spent : Nat, of : SUBSET Candidates,
           window : Seq(Candidates), left : SUBSET Candidates, gateways : SUBSET Candidates]

TypeOK ==
    /\ at \in Places
    /\ passes \in Seq(Passes) /\ Len(passes) <= 2
    /\ \A n \in 1..Len(passes) : passes[n].spent <= passes[n].limit
    /\ homepage \in BOOLEAN /\ bundled \in BOOLEAN
    /\ denial \in BOOLEAN /\ remembers \in BOOLEAN
    /\ attempted \in SUBSET Urls
    /\ trace \in [denials : [Sites -> 0..2], unreached : BOOLEAN, exhausted : BOOLEAN]
    /\ result \in Results
    /\ visits \in Nat
    /\ seen \in [Fates -> SUBSET Urls]

Init ==
    /\ at = "evidence"
    /\ passes = <<>>
    /\ homepage = FALSE /\ bundled = FALSE /\ denial = FALSE
    /\ remembers \in BOOLEAN
    /\ attempted = {}
    /\ trace = [denials |-> [s \in Sites |-> 0], unreached |-> FALSE, exhausted |-> FALSE]
    /\ result = "none"
    /\ visits = 0
    /\ seen = [f \in Fates |-> {}]

-----------------------------------------------------------------------------
(* A pass.                                                                 *)

UrlsOf(S) == {c.url : c \in S}

Limit(source) ==
    Smaller(MaxCandidates,
            CASE source = "bundle"  -> BundleFetches
              [] source = "ats"     -> AtsFetches
              [] source = "gateway" -> 1
              [] OTHER              -> MaxFetches)

(* Mutant: a new pass forgets what was attempted.                          *)
EvenAttempted(S, urls) == S

NotAttempted(S, urls) == {c \in S : c.url \notin urls}

NewPass(source, fresh, home) ==
    LET limit == Limit(source)
        order == Schedule(fresh, limit)
        cut   == Smaller(limit, Len(order))
    IN [source |-> source, home |-> home, limit |-> limit, spent |-> 0, of |-> fresh,
        window |-> SubSeq(order, 1, cut), left |-> ToSet(SubSeq(order, cut + 1, Len(order))),
        gateways |-> IF limit >= 2 /\ Gateways(fresh) # {} THEN {ReservedGateway(fresh)} ELSE {}]

Note(fates, f, U) == [fates EXCEPT ![f] = @ \cup U]

Queued(fates, S) == Note(fates, "queued", UrlsOf(Evidence(S)))

\* _dedupe_candidates
Finds(source) ==
    {S \in SUBSET Offers[source] : \A c, d \in S : c.url = d.url => c = d}

Idle == passes = <<>> /\ result = "none"

Begin(source, found) ==
    /\ LET fresh == NotAttempted(found, attempted) IN
        /\ passes' = <<NewPass(source, fresh, "official")>>
        /\ seen' = Queued(seen, fresh)
    /\ visits' = 0
    /\ UNCHANGED <<attempted, trace, result, remembers>>

Omit == UNCHANGED <<passes, visits, seen, attempted, trace, result, remembers>>

-----------------------------------------------------------------------------
(* _find_career_page: one source after the other.                          *)

\* _same_official_host_access_failure
Denied(site) == trace.denials[site] >= 2

CountDenial(t, site) == [t EXCEPT !.denials[site] = Smaller(2, @ + 1)]

FromEvidence ==
    /\ at = "evidence" /\ Idle
    /\ at' = "homepage"
    /\ IF remembers THEN \E S \in Finds("evidence") : Begin("evidence", S) ELSE Omit
    /\ UNCHANGED <<homepage, bundled, denial>>

FetchHomepage ==
    /\ at = "homepage" /\ Idle
    /\ at' = "early bundle"
    /\ \/ homepage' = TRUE /\ result' \in {"none", "found"} /\ UNCHANGED trace
       \/ /\ homepage' = FALSE /\ UNCHANGED result
          /\ trace' \in {trace, CountDenial(trace, "official")}
    /\ UNCHANGED <<passes, bundled, denial, remembers, attempted, visits, seen>>

\* whether a link of the homepage scores high is free
FromEarlyBundle ==
    /\ at = "early bundle" /\ Idle
    /\ at' = "primary"
    /\ \/ /\ homepage /\ bundled' = TRUE
          /\ \E S \in Finds("bundle") : Begin("bundle", S)
       \/ UNCHANGED bundled /\ Omit
    /\ UNCHANGED <<homepage, denial>>

IsDirect(c) == c.origin \in {"identity_career_root", "page_link", "verified_homepage_navigation"}

FromPrimary ==
    /\ at = "primary" /\ Idle
    /\ at' = "late bundle"
    /\ \E S \in Finds("primary") :
        /\ homepage /\ ~bundled => \E c \in S : IsDirect(c)
        /\ ~homepage => \A c \in S : c.origin # "page_link"
        /\ Begin("primary", S)
    /\ UNCHANGED <<homepage, bundled, denial>>

FromLateBundle ==
    /\ at = "late bundle" /\ Idle
    /\ at' = "sitemap"
    /\ IF homepage /\ ~bundled
       THEN \E S \in Finds("bundle") : Begin("bundle", S)
       ELSE Omit
    /\ UNCHANGED <<homepage, bundled, denial>>

FromSitemap ==
    /\ at = "sitemap" /\ Idle
    /\ at' = "ats"
    /\ denial' = Denied("official")
    /\ IF Denied("official") THEN Omit ELSE \E S \in Finds("sitemap") : Begin("sitemap", S)
    /\ UNCHANGED <<homepage, bundled>>

FromAts ==
    /\ at = "ats" /\ Idle
    /\ at' = "search"
    /\ \E S \in Finds("ats") : Begin("ats", S)
    /\ UNCHANGED <<homepage, bundled, denial>>

Leads(S) == IF denial THEN {c \in S : c.site # "third"} ELSE S

FromSearch ==
    /\ at = "search" /\ Idle
    /\ at' = "verdict"
    /\ \E S \in Finds("search") : Begin("search", Leads(S))
    /\ UNCHANGED <<homepage, bundled, denial>>

(* Mutant: the failure of a link with evidence is not looked for.          *)
HastyVerdict ==
    /\ at = "verdict" /\ Idle
    /\ at' = "end"
    /\ result' = IF Denied("official") THEN "denied"
                 ELSE IF trace.exhausted THEN "budget" ELSE "not_found"
    /\ UNCHANGED <<passes, homepage, bundled, denial, remembers, attempted, trace, visits, seen>>

Verdict ==
    /\ at = "verdict" /\ Idle
    /\ at' = "end"
    /\ result' = IF Denied("official") THEN "denied"
                 ELSE IF trace.exhausted THEN "budget"
                 ELSE IF trace.unreached THEN "unreached" ELSE "not_found"
    /\ UNCHANGED <<passes, homepage, bundled, denial, remembers, attempted, trace, visits, seen>>

-----------------------------------------------------------------------------
(* _select_verified_career_candidate: one candidate after the other.       *)

Top == passes[Len(passes)]
OnTop(p) == [passes EXCEPT ![Len(passes)] = p]

Visiting ==
    /\ result = "none" /\ passes # <<>>
    /\ Top.window # <<>> /\ Top.spent < Top.limit

IsDenied(c) == Denied(Top.home) /\ c.origin # "identity_career_root" /\ c.site = Top.home

Remember(c) == attempted' = IF remembers THEN attempted \cup {c.url} ELSE attempted

Skip ==
    /\ Visiting
    /\ LET c == Head(Top.window) IN
        /\ IsDenied(c)
        /\ Remember(c)
        /\ passes' = OnTop([Top EXCEPT !.window = Tail(@)])
        /\ seen' = Note(seen, "skipped", {c.url})
    /\ UNCHANGED <<at, homepage, bundled, denial, remembers, trace, result, visits>>

Recorded(c) ==
    LET visited == Note(seen, "visited", {c.url})
        repeats == IF remembers /\ c.url \in seen["visited"] THEN {c.url} ELSE {}
        inside  == IF Len(passes) = 2 THEN {c.url} ELSE {}
    IN Note(Note(visited, "again", repeats), "nested", inside)

Visit(c) ==
    /\ ~IsDenied(c)
    /\ Remember(c)
    /\ visits' = visits + 1
    /\ UNCHANGED <<at, homepage, bundled, denial, remembers>>

Visited(p, cost) == [p EXCEPT !.window = Tail(@), !.spent = @ + cost]

\* _retryable_evidence_candidate_failure finds the failure of this link
Unreached(t, c) == [t EXCEPT !.unreached = @ \/ IsEvidence(c)]

\* A page, an adapter's answer, or an error that is neither retryable nor a
\* denial.  The adapter of a provider's board is asked first: its failure
\* stays in the trace even when the page then answers.
Verify ==
    /\ Visiting
    /\ LET c == Head(Top.window) IN
        /\ Visit(c)
        /\ result' \in {"none", "found"}
        /\ passes' = OnTop(Visited(Top, 1))
        /\ seen' = Note(Recorded(c), "settled", {c.url})
        /\ trace' \in {trace} \cup (IF c.site = "ats" THEN {Unreached(trace, c)} ELSE {})

\* LOGIN_REQUIRED is a denial of the site, but not a failure to try again
Refuse ==
    /\ Visiting
    /\ LET c == Head(Top.window) IN
        /\ Visit(c)
        /\ trace' = CountDenial(trace, c.site)
        /\ passes' = OnTop(Visited(Top, 1))
        /\ seen' = Note(Recorded(c), "settled", {c.url})
        /\ UNCHANGED result

\* a retryable error, or HTTP_FORBIDDEN, which is a denial as well
Fail ==
    /\ Visiting
    /\ LET c == Head(Top.window) IN
        /\ Visit(c)
        /\ \E t \in {trace, CountDenial(trace, c.site)} : trace' = Unreached(t, c)
        /\ passes' = OnTop(Visited(Top, 1))
        /\ seen' = Recorded(c)
        /\ UNCHANGED result

(* Mutant: the visit of a link of the gateway's page is free.              *)
FreeNested == 1

\* the gateway's own visit and the one for a link of its page
WithNested == 2

RoomForNested == Top.spent + 1 < Top.limit

OpenGateway ==
    /\ Visiting
    /\ LET c == Head(Top.window)
           p == Visited(Top, WithNested)
       IN
        /\ c \in Top.gateways /\ RoomForNested
        /\ Visit(c)
        /\ \E S \in Finds("gateway") \ {{}} :
            LET fresh == NotAttempted(S, attempted') IN
            /\ passes' = Append(OnTop(p), NewPass("gateway", fresh, c.site))
            /\ seen' = Queued(Note(Recorded(c), "settled", {c.url}), fresh)
        /\ UNCHANGED <<trace, result>>

\* after its nested pass a gateway's page may itself be the career page
EndPass ==
    /\ result = "none" /\ passes # <<>>
    /\ Top.window = <<>> \/ Top.spent >= Top.limit
    /\ passes' = SubSeq(passes, 1, Len(passes) - 1)
    /\ trace' = [trace EXCEPT !.exhausted = @ \/ Evidence(Top.left) # {}]
    /\ result' \in IF Len(passes) = 2 THEN {"none", "found"} ELSE {"none"}
    /\ seen' = Note(seen, "crowded", UrlsOf(Evidence(ToSet(Top.window))))
    /\ UNCHANGED <<at, homepage, bundled, denial, remembers, attempted, visits>>

Next ==
    \/ FromEvidence \/ FetchHomepage \/ FromEarlyBundle \/ FromPrimary
    \/ FromLateBundle \/ FromSitemap \/ FromAts \/ FromSearch \/ Verdict
    \/ Skip \/ Verify \/ Refuse \/ Fail \/ OpenGateway \/ EndPass

Spec == Init /\ [][Next]_vars

-----------------------------------------------------------------------------
(* Properties.                                                             *)

\* A pass visits no more candidates than its limit, those that a gateway's
\* page leads to included (pipeline.py:4705, 4746, 5006).  It bounds visits,
\* not requests: a visit of a provider's board may make several.
WithinPassLimit == passes # <<>> => visits <= passes[1].limit

\* With homepage evidence no pass spends one of its visits on a URL that was
\* visited before, whichever sources name it; only a link that a gateway's
\* page names as well as the pass around it may be (pipeline.py:4697, 4775).
NotVisitedAgain == seen["again"] \subseteq seen["nested"]

\* No reservation lets a guess, or any link but the gateway, be visited
\* before evidence or in its place (career_candidate_scheduler.py:78).
EvidenceGoesFirst ==
    \A n \in 1..Len(passes) : LET p == passes[n] IN
        \A i \in 1..Len(p.window) :
            ~IsEvidence(p.window[i]) /\ p.window[i] \notin p.gateways =>
                Evidence(p.left \cup ToSet(SubSeq(p.window, i, Len(p.window)))) = {}

\* With room for both, and no gateway, the host fallback and the subdomain
\* probe that are reserved are both in the window, whatever else was found
\* (career_candidate_scheduler.py:74, 91).
ReservesAreVisited ==
    \A n \in 1..Len(passes) : LET p == passes[n] IN
        p.limit >= 4 /\ p.gateways = {} /\ Cardinality(Evidence(p.of)) <= p.limit - 2 =>
            /\ SubdomainProbes(p.of) # {} => ReservedProbe(p.of) \notin p.left
            /\ HostFallbacks(p.of) # {} => ReservedFallback(p.of) \notin p.left

\* The career page is reported as not found, which no retry follows, only
\* when each link with evidence that a pass scheduled was answered for good:
\* by a page, or by an error that another try is not to change (404, 401, a
\* captcha).  Left out are links for which a gateway left no visit or whose
\* site denied access (pipeline.py:942, 6014).
MissIsEarned ==
    result = "not_found" =>
        seen["queued"] \subseteq seen["settled"] \cup seen["crowded"] \cup seen["skipped"]
=============================================================================
