--------------------------- MODULE CareerSchedule ---------------------------
(***************************************************************************)
(* The order in which the career discovery visits its candidate links and  *)
(* the three reservations that move a link into the fetch window           *)
(* (career_candidate_scheduler.py).  A candidate is a record: its url, the *)
(* origin of the link, whether HTTPS and career words make it explicit,    *)
(* whether it leads to a locale root of the target region, its site (host  *)
(* without www), www, the locale and the locale-free route of its path,    *)
(* and its two sort keys: rank (score and boost, the higher first) and     *)
(* frank (place within its family, the lower first).  Keys are distinct,   *)
(* as a stable sort of a list makes them, and candidates whose score is    *)
(* too low to be eligible are not in the model.                            *)
(***************************************************************************)
EXTENDS Integers, FiniteSets, SequencesExt

IdentityOrigins   == {"identity_career_root"}
FirstPartyOrigins == {"page_link", "verified_homepage_navigation", "first_party_bundle_navigation"}
GuessOrigins      == {"path_probe", "subdomain_probe", "blind_ats_probe"}
FoundOrigins      == {"sitemap", "search_result"}

Tier(c) ==
    IF c.origin \in IdentityOrigins THEN 0
    ELSE IF c.explicit /\ c.origin \in FirstPartyOrigins THEN 1
    ELSE IF c.origin \in GuessOrigins THEN 3
    ELSE IF c.origin \in FoundOrigins THEN 2
    ELSE 4

IsEvidence(c) == Tier(c) <= 2
Evidence(S)   == {c \in S : IsEvidence(c)}

-----------------------------------------------------------------------------
(* Families and the order of a set of candidates.                          *)

Family(S, c) ==
    {d \in S : Tier(d) = Tier(c) /\ d.site = c.site /\ d.route = c.route}

Representative(S, c) ==
    CHOOSE d \in Family(S, c) : \A e \in Family(S, c) : d.frank <= e.frank

IsAlias(S, c) == Representative(S, c) # c

Ahead(S, c, d) ==
    \/ Tier(c) < Tier(d)
    \/ /\ Tier(c) = Tier(d)
       /\ \/ ~IsAlias(S, c) /\ IsAlias(S, d)
          \/ (IsAlias(S, c) <=> IsAlias(S, d)) /\ c.rank > d.rank

Ordered(S) ==
    [i \in 1..Cardinality(S) |->
        CHOOSE c \in S : Cardinality({d \in S : Ahead(S, d, c)}) = i - 1]

-----------------------------------------------------------------------------
(* Reservations.  Positions count from 0, as in the code.                  *)

SubdomainProbes(S) == {c \in S : c.origin = "subdomain_probe"}

\* Candidates as the code finds them: distinct keys, and no other guess on a
\* site that was guessed itself
Listed(S) ==
    /\ IsFiniteSet(S)
    /\ \A c \in S : c.rank \in Nat /\ c.frank \in Nat
    /\ \A c, d \in S : c.rank = d.rank \/ c.frank = d.frank => c = d
    /\ \A c \in SubdomainProbes(S) : Family(S, c) = {c}

HostFallbacks(S) ==
    {c \in S : /\ Tier(c) = 3
               /\ c.www # Representative(S, c).www
               /\ c.locale = Representative(S, c).locale}

Gateways(S) == {c \in S : c.origin = "page_link" /\ c.region}

ReservedProbe(S) ==
    CHOOSE c \in SubdomainProbes(S) : \A d \in SubdomainProbes(S) : c.rank >= d.rank

ReservedFallback(S) ==
    CHOOSE c \in HostFallbacks(S) : \A d \in HostFallbacks(S) :
        \/ Representative(S, c).rank > Representative(S, d).rank
        \/ Representative(S, c) = Representative(S, d) /\ c.frank <= d.frank

ReservedGateway(S) ==
    CHOOSE c \in Gateways(S) : \A d \in Gateways(S) : c = d \/ Ahead(S, c, d)

Larger(m, n)  == IF m > n THEN m ELSE n
Smaller(m, n) == IF m < n THEN m ELSE n

\* c moves to the given position if that lies in the window and c beyond it
Reserve(seq, c, position, limit) ==
    IF position < limit /\ \E i \in limit + 1..Len(seq) : seq[i] = c
    THEN LET i == CHOOSE i \in limit + 1..Len(seq) : seq[i] = c
         IN InsertAt(RemoveAt(seq, i), position + 1, c)
    ELSE seq

(* Mutant: the fallback's place is counted from the end of the window      *)
(* alone.                                                                  *)
FallbackOverEvidence(S, seq, limit) ==
    IF limit >= 3 /\ HostFallbacks(S) # {}
    THEN Reserve(seq, ReservedFallback(S),
                 limit - (IF limit >= 4 /\ SubdomainProbes(S) # {} THEN 2 ELSE 1), limit)
    ELSE seq

(* Mutant: the fallback leaves no room for the probe behind it.            *)
FallbackInLastPlace(S, seq, limit) ==
    IF limit >= 3 /\ HostFallbacks(S) # {}
    THEN Reserve(seq, ReservedFallback(S), Larger(Cardinality(Evidence(S)), limit - 1), limit)
    ELSE seq

WithFallback(S, seq, limit) ==
    IF limit >= 3 /\ HostFallbacks(S) # {}
    THEN Reserve(seq, ReservedFallback(S),
                 Larger(Cardinality(Evidence(S)),
                        limit - (IF limit >= 4 /\ SubdomainProbes(S) # {} THEN 2 ELSE 1)), limit)
    ELSE seq

WithProbe(S, seq, limit) ==
    IF limit >= 2 /\ SubdomainProbes(S) # {}
    THEN Reserve(seq, ReservedProbe(S), Larger(Cardinality(Evidence(S)), limit - 1), limit)
    ELSE seq

WithGateway(S, seq, limit) ==
    IF limit >= 2 /\ Gateways(S) # {}
    THEN Reserve(seq, ReservedGateway(S), Smaller(Cardinality(Evidence(S)), limit - 1), limit)
    ELSE seq

\* schedule_career_candidates
Schedule(S, limit) ==
    WithGateway(S, WithProbe(S, WithFallback(S, Ordered(S), limit), limit), limit)
=============================================================================
