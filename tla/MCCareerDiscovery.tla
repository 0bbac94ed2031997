------------------------ MODULE MCCareerDiscovery ------------------------
(* Seven links of the primary source, of which four are evidence, one on  *)
(* a provider's site, with a guess, its host alias and a guessed           *)
(* subdomain; one or two of the others, some of which several sources      *)
(* name.  The guessed boards of the ATS source, no evidence, are left out. *)
EXTENDS CareerDiscovery

Link(url, origin, explicit, site, route, rank) ==
    [url |-> url, origin |-> origin, explicit |-> explicit, region |-> FALSE, site |-> site,
     www |-> FALSE, locale |-> "none", route |-> route, rank |-> rank, frank |-> 100 - rank]

None == [s \in Sources |-> {}]

Guess(route, rank) == Link(route, "path_probe", FALSE, "official", route, rank)

DiscoveryOffers == [None EXCEPT
    !["evidence"] = {
        Link("team", "verified_homepage_navigation", TRUE, "official", "team", 40)},
    !["primary"] = {
        [Link("us", "page_link", TRUE, "region", "/", 35) EXCEPT !.region = TRUE],
        Link("apply", "identity_career_root", FALSE, "ats", "apply", 90),
        Link("team", "page_link", TRUE, "official", "team", 40),
        Link("join", "page_link", TRUE, "official", "join", 30),
        Guess("careers", 29),
        [Guess("careers", 28) EXCEPT !.url = "www careers", !.www = TRUE],
        Link("careers host", "subdomain_probe", FALSE, "careers", "/", 10)},
    !["bundle"]  = {Link("join", "first_party_bundle_navigation", TRUE, "official", "join", 30)},
    !["sitemap"] = {Link("careers", "sitemap", FALSE, "official", "careers", 20)},
    !["search"]  = {Link("blog", "search_result", FALSE, "third", "jobs", 10)},
    !["gateway"] = {Link("team", "page_link", TRUE, "official", "team", 20),
                    Link("us jobs", "page_link", TRUE, "region", "jobs", 10)}]
=============================================================================
