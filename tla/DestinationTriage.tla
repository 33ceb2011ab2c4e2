------------------------ MODULE DestinationTriage ------------------------
(***************************************************************************)
(* destination-triage.ts: which of the links found on a result page are    *)
(* worth a child run.  The requests become candidates with a kind, signals,*)
(* warnings and a score; repeated and hopeless ones are rejected; the best *)
(* are selected within two budgets; the results of the child runs label    *)
(* the selection, and when a child disappoints the summary advises budgets *)
(* for another run.  A link is what its url and text show: the page it     *)
(* leads to, its host and the words and patterns in it (text).  A query is *)
(* a set of words, empty when there is none.                               *)
(***************************************************************************)
EXTENDS Integers, Sequences, FiniteSets, SequencesExt, FiniteSetsExt, TLC

CONSTANTS
    Requests,     \* lists of links a page may yield
    Surfaces,     \* parent pages: [family, platform, providers, host, address,
                  \* searched, asked]: words of its url, those of them that were
                  \* searched for, and the query of the caller, {} or {words}
    Children,     \* what the child run of a destination may bring back:
                  \* [status, shows, links]
    Aliases,      \* words that mean the same in different scripts
    Budgets,      \* a top-K and a per-domain budget, as the caller gives them
    TopKCeiling   \* no run selects more, 5 in the code

Families == {"search", "map", "blog", "travel_booking", "commerce", "portal", "video_social", "generic_web"}

ASSUME TriageAssumption ==
    /\ TopKCeiling \in Nat \ {0}
    /\ \A requests \in Requests : requests \in Seq(ToSet(requests))
    /\ \A s \in Surfaces : s.family \in Families
    /\ \A b \in Budgets : b[1] \in Int /\ (b[2] = {} \/ \E n \in b[2] : n \in Int /\ b[2] = {n})

\* What the first rule that holds says; a rule is <<answer, condition>>.
FirstRule(rules, otherwise) ==
    LET holding == {n \in DOMAIN rules : rules[n][2]}
        first == CHOOSE n \in holding : \A k \in holding : n <= k
    IN  IF holding = {} THEN otherwise ELSE rules[first][1]

-----------------------------------------------------------------------------
(* Kinds, intents and source families                                      *)

\* The patterns of candidateKindFor in the order they are tried.
KindRules ==
    << <<"news", "news">>, <<"blog", "blog">>, <<"map", "map_place">>,
       <<"forum", "community">>, <<"video", "media">>, <<"homepage", "official">>,
       <<"rating", "review">>, <<"shop", "commerce">>, <<"hotel_name", "generic">>,
       <<"hotel", "generic">>, <<"price_word", "commerce">>, <<"video_word", "media">>,
       <<"homepage_word", "official">>, <<"review_word", "review">>,
       <<"local_word", "map_place">> >>

CandidateKindFor(link) ==
    FirstRule([i \in DOMAIN KindRules |-> <<KindRules[i][2], KindRules[i][1] \in link.text>>], "generic")

\* A query of the caller, even a blank one, hides the one in the page's url.
Query(surface) == IF surface.asked = {} THEN surface.searched ELSE UNION surface.asked

\* matchingDestinationQueryTokens finds some word of the query, or an alias.
Overlaps(query, words) ==
    \E q \in query, w \in words : q = w \/ \E group \in Aliases : {q, w} \subseteq group

\* The first intent whose words occur in the query or in the parent's url.
IntentRules ==
    << <<"commerce_offer", {"price", "deal", "shop", "hotel"}>>,
       <<"fresh_news", {"latest", "today", "news", "article"}>>,
       <<"experience_review", {"review", "rating", "blog", "best"}>>,
       <<"media_content", {"video", "reel", "photo", "watch"}>>,
       <<"official_fact", {"official", "contact", "manual", "source"}>>,
       <<"local_place", {"near", "map", "menu", "cafe"}>> >>

DestinationQueryIntent(surface) ==
    LET words == Query(surface) \cup surface.address
    IN  FirstRule([i \in DOMAIN IntentRules |-> <<IntentRules[i][1], IntentRules[i][2] \cap words # {}>>],
                  "general")

IntentFits ==
    [fresh_news |-> {"news"}, official_fact |-> {"official"},
     experience_review |-> {"blog", "review", "community"},
     local_place |-> {"map_place", "review"}, commerce_offer |-> {"commerce", "review"},
     media_content |-> {"media"}, general |-> {}]

IntentRunnersUp ==
    [fresh_news |-> [official |-> 4], official_fact |-> [map_place |-> 8],
     experience_review |-> [media |-> 6], local_place |-> [review |-> 10, official |-> 5],
     commerce_offer |-> [review |-> 8, official |-> 4],
     media_content |-> [community |-> 6], general |-> <<>>]

Granted(table, key) == IF key \in DOMAIN table THEN table[key] ELSE 0

\* queryIntentScore: the runners-up that also fit keep their smaller bonus.
QueryIntentScore(intent, kind) ==
    IF kind \in DOMAIN IntentRunnersUp[intent] THEN IntentRunnersUp[intent][kind]
    ELSE IF kind \in IntentFits[intent] THEN 22 ELSE 0

FamilyKinds ==
    [map |-> {"map_place", "review", "official"},
     blog |-> {"blog", "community", "media", "official"},
     portal |-> {"news", "blog", "community", "review", "official"},
     travel_booking |-> {"commerce", "review", "map_place", "official"},
     commerce |-> {"commerce", "review", "official"},
     video_social |-> {"media", "community", "official"}]

SourceFamilyFits(family, kind) ==
    family \in DOMAIN FamilyKinds => kind \in FamilyKinds[family]

-----------------------------------------------------------------------------
(* Surfaces that are never worth a run                                     *)

\* providerBoilerplateSurface: at a provider some places are kept, others are
\* parts of its own shell; the first rule that knows the place decides.
ProviderRules ==
    << [at |-> "kakao_map",     keep |-> {"kakao_place"},        drop |-> {"kakao_corporate"}],
       [at |-> "naver_map",     keep |-> {"naver_place"},        drop |-> {"naver_shell"}],
       [at |-> "google_map",    keep |-> {"google_place"},       drop |-> {"google_account"}],
       [at |-> "google_search", keep |-> {},                     drop |-> {"google_utility", "google_results"}],
       [at |-> "google_news",   keep |-> {"google_article"},     drop |-> {"google_news_shell", "google_utility"}],
       [at |-> "reuters",       keep |-> {"reuters_article"},    drop |-> {"reuters_section", "reuters_utility"}],
       [at |-> "bing",          keep |-> {},                     drop |-> {"bing_results"}],
       [at |-> "yahoo",         keep |-> {"yahoo_story"},        drop |-> {"yahoo_home", "yahoo_help", "yahoo_results"}],
       [at |-> "yahoo_japan",   keep |-> {},                     drop |-> {"yahoo_japan_results"}] >>

ProviderBoilerplate(surface, link) ==
    LET knows(rule) == rule.at \in surface.providers /\ link.text \cap (rule.keep \cup rule.drop) # {}
        rules == SelectSeq(ProviderRules, knows)
    IN  \/ "parent_anchor" \in link.text
        \/ rules # <<>> /\ link.text \cap Head(rules).keep = {}

HardRejectionFor(surface, link) ==
    FirstRule(<< <<"private", "login" \in link.text>>,
                 <<"low_value", "low_value" \in link.text \/ ProviderBoilerplate(surface, link)>>,
                 <<"unsupported", ~link.http>> >>, "none")

-----------------------------------------------------------------------------
(* Scores                                                                  *)

\* Multipliers in tenths: rank, query, authority, freshness, family fit.
Profile(surface) ==
    LET plain == [rank |-> 10, query |-> 10, authority |-> 10, fresh |-> 10, fit |-> 10, kinds |-> <<>>]
        local == [rank |-> 8, query |-> 8, authority |-> 11, fresh |-> 6, fit |-> 13,
                  kinds |-> [map_place |-> 18, review |-> 8]]
        offers == [rank |-> 8, query |-> 11, authority |-> 8, fresh |-> 15, fit |-> 14, kinds |-> <<>>]
    IN CASE surface.family = "search" -> plain
         [] surface.family = "map" -> local
         [] surface.family = "blog" ->
                [rank |-> 9, query |-> 10, authority |-> 8, fresh |-> 11, fit |-> 12,
                 kinds |-> [blog |-> 6, community |-> 4, media |-> 3, official |-> 3]]
         [] surface.family = "portal" /\ surface.platform \in {"yelp", "tripadvisor"} -> local
         [] surface.family = "portal" /\ surface.platform \notin {"yelp", "tripadvisor"} ->
                [rank |-> 10, query |-> 10, authority |-> 12, fresh |-> 13, fit |-> 11,
                 kinds |-> [news |-> 6, community |-> 4, review |-> 4, official |-> 3]]
         [] surface.family = "travel_booking" ->
                [offers EXCEPT !.kinds = [commerce |-> 8, review |-> 5, map_place |-> 5, official |-> 3]]
         [] surface.family = "commerce" ->
                [offers EXCEPT !.kinds = [commerce |-> 8, review |-> 5, official |-> 3]]
         [] surface.family = "video_social" ->
                [rank |-> 9, query |-> 10, authority |-> 9, fresh |-> 12, fit |-> 12,
                 kinds |-> [media |-> 8, community |-> 5, official |-> 3]]
         [] surface.family = "generic_web" ->
                [plain EXCEPT !.kinds = [official |-> 4, news |-> 3, blog |-> 3]]

\* Math.round(points * multiplier)
Times(points, tenths) == (points * tenths + 5) \div 10

KindScore(kind) ==
    CASE kind \in {"official", "news", "blog", "community", "review"} -> 12
      [] kind \in {"commerce", "map_place", "media"} -> 8
      [] OTHER -> 0

SumOver(weights, present) == SumFunctionOnSet(weights, DOMAIN weights \cap present)

\* candidateSignals and authoritySignals: a publisher or a place also counts
\* by its name when the kind is theirs.
AuthoritySignals(kind, link) ==
    (link.text \cap {"authority", "official_hint", "institution", "publisher_text", "local_text"})
    \cup (IF kind = "news" /\ "outlet" \in link.text THEN {"publisher_text"} ELSE {})
    \cup (IF kind = "map_place" /\ "venue" \in link.text THEN {"local_text"} ELSE {})

AuthorityScore(kind, link) ==
    Min({20, SumOver([authority |-> 8, official_hint |-> 12, institution |-> 10,
                      publisher_text |-> 8, local_text |-> 6], AuthoritySignals(kind, link))})

\* A link dated in the last years gains, one with only old dates loses twice.
FreshnessScore(link) ==
    FirstRule(<< <<8, "recent_year" \in link.text>>, <<2 - 8, "stale_year" \in link.text>>,
                 <<2, "some_year" \in link.text>> >>, 0)

WarningScore(surface, link) ==
    (IF link.host = surface.host THEN -5 ELSE 0)
    + (IF "low_value" \in link.text \/ ProviderBoilerplate(surface, link) THEN -50 ELSE 0)
    - SumOver([login |-> 40, stale_year |-> 8], link.text)

ScoreCandidate(surface, link, rank) ==
    LET kind == CandidateKindFor(link)
        p == Profile(surface)
    IN  50 + Times(Max({0, 12 - rank}), p.rank) + KindScore(kind)
           + Times(IF Overlaps(Query(surface), link.text) THEN 14 ELSE 0, p.query)
           + Times(AuthorityScore(kind, link), p.authority)
           + Times(FreshnessScore(link), p.fresh)
           + Times(IF SourceFamilyFits(surface.family, kind) THEN 8 ELSE -12, p.fit)
           + QueryIntentScore(DestinationQueryIntent(surface), kind) + Granted(p.kinds, kind)
           + (IF link.host # surface.host THEN 4 ELSE 0) + WarningScore(surface, link)

-----------------------------------------------------------------------------
(* Selection                                                               *)

NormalizeMaxSelected(k) == Max({0, Min({TopKCeiling, k})})

\* The per-domain budget is {} when absent, else {n}.
NormalizeMaxPerDomain(perDomain, maxSelected) ==
    CASE maxSelected = 0 -> 0
      [] maxSelected > 0 /\ perDomain = {} -> Min({2, maxSelected})
      [] OTHER -> Max({0, Min(perDomain \cup {maxSelected})})

BuildCandidate(surface, requests, i) ==
    LET link == requests[i]
    IN  [dest |-> link.dest, host |-> link.host, http |-> link.http, text |-> link.text,
         rank |-> i, kind |-> CandidateKindFor(link), score |-> ScoreCandidate(surface, link, i)]

Candidates(surface, requests) ==
    [i \in 1..Len(requests) |-> BuildCandidate(surface, requests, i)]

\* The first mention of a destination counts, the others are duplicates even
\* when the first is rejected.
Repeats(requests, i) == \E k \in 1..(i - 1) : requests[k].dest = requests[i].dest

Eligible(surface, candidates) ==
    {i \in DOMAIN candidates : ~Repeats(candidates, i) /\ HardRejectionFor(surface, candidates[i]) = "none"}

Before(a, b) == a.score > b.score \/ (a.score = b.score /\ a.rank < b.rank)

\* The eligible candidates, the best first.
Sorted(candidates, eligible) ==
    LET better(i) == {k \in eligible : Before(candidates[k], candidates[i])}
    IN  [n \in 1..Cardinality(eligible) |-> CHOOSE i \in eligible : Cardinality(better(i)) + 1 = n]

SameHost(candidates, some, i) == {k \in some : candidates[k].host = candidates[i].host}

\* Mutant: the domain is looked at before the top-K budget.
Consider_DomainFirst(candidates, acc, i, maxSelected, maxPerDomain) ==
    LET spent == Cardinality(SameHost(candidates, acc.picked, i)) >= maxPerDomain
    IN  CASE spent -> [acc EXCEPT !.limited = @ \cup {i}]
          [] ~spent /\ Cardinality(acc.picked) >= maxSelected -> acc
          [] OTHER -> [acc EXCEPT !.picked = @ \cup {i}]

\* Nothing is considered once the top-K budget is spent; a candidate whose
\* domain has spent its own budget is passed over.
Consider(candidates, acc, i, maxSelected, maxPerDomain) ==
    LET full == Cardinality(acc.picked) >= maxSelected
        spent == Cardinality(SameHost(candidates, acc.picked, i)) >= maxPerDomain
    IN  CASE full -> acc
          [] ~full /\ spent -> [acc EXCEPT !.limited = @ \cup {i}]
          [] OTHER -> [acc EXCEPT !.picked = @ \cup {i}]

SelectWithinBudgets(candidates, sorted, maxSelected, maxPerDomain) ==
    LET after[n \in 0..Len(sorted)] ==
            IF n = 0 THEN [picked |-> {}, limited |-> {}]
            ELSE Consider(candidates, after[n - 1], sorted[n], maxSelected, maxPerDomain)
    IN  after[Len(sorted)]

\* There is a query, if only a blank one.
Asked(surface) == surface.asked # {} \/ Query(surface) # {}

\* A captured child is judged by what its evidence shows, a failed one by its
\* error.  The page may support the intent although its link did not.
ClassifyChild(surface, kind, child) ==
    LET intent == DestinationQueryIntent(surface)
        unfit == intent # "general" /\ kind \notin IntentFits[intent] /\ intent \notin child.shows
    IN  CASE child.status = "absent" -> "useful"
          [] child.status = "failed" ->
                FirstRule(<< <<"paywalled", "paywall" \in child.shows>>,
                             <<"private", "login" \in child.shows>> >>, "blocked")
          [] child.status = "ok" ->
                FirstRule(<< <<"useful", "unrecorded" \in child.shows>>,
                             <<"blocked", "obstructed" \in child.shows>>,
                             <<"low_value", "thin" \in child.shows>>,
                             <<"off_topic", unfit \/ (Asked(surface) /\ "no_overlap" \in child.shows)>> >>, "useful")

\* buildDestinationTriage: which candidates, by rank, get which verdict.
Triage(surface, candidates, children, budget) ==
    LET maxSelected == NormalizeMaxSelected(budget[1])
        maxPerDomain == NormalizeMaxPerDomain(budget[2], maxSelected)
        eligible == Eligible(surface, candidates)
        chosen == SelectWithinBudgets(candidates, Sorted(candidates, eligible), maxSelected, maxPerDomain)
        picked == chosen.picked
    IN  [selected |-> picked,
         useful |-> {i \in picked : ClassifyChild(surface, candidates[i].kind,
                                                  children[candidates[i].dest]) = "useful"},
         domain_budget |-> chosen.limited,
         top_k_budget |-> eligible \ (picked \cup chosen.limited),
         duplicate |-> {i \in DOMAIN candidates : Repeats(candidates, i)},
         hard |-> {i \in DOMAIN candidates : ~Repeats(candidates, i)} \ eligible,
         maxSelected |-> maxSelected, maxPerDomain |-> maxPerDomain]

\* Mutant: only the top-K budget is raised.
RetryAdvice_TopKOnly(t) ==
    LET k == IF t.selected = t.useful THEN t.maxSelected
             ELSE Min({TopKCeiling, t.maxSelected + Cardinality(t.top_k_budget)})
    IN  IF k = t.maxSelected THEN [kind |-> "none"] ELSE [kind |-> "increase", budget |-> <<k, {t.maxPerDomain}>>]

\* The budgets advised for another run, when a selected child disappointed
\* and candidates were left out for a budget.
RetryAdvice(t) ==
    LET downgraded == t.selected # t.useful
        topK == IF downgraded THEN Cardinality(t.top_k_budget) ELSE 0
        domain == IF downgraded THEN Cardinality(t.domain_budget) ELSE 0
        k == IF topK > 0 THEN Min({TopKCeiling, t.maxSelected + topK}) ELSE t.maxSelected
        d == IF domain > 0 THEN Min({k, t.maxPerDomain + domain}) ELSE t.maxPerDomain
    IN  CASE topK + domain = 0 -> [kind |-> "none"]
          [] topK + domain > 0 /\ k = t.maxSelected /\ d = t.maxPerDomain -> [kind |-> "narrow"]
          [] OTHER -> [kind |-> "increase", budget |-> <<k, {d}>>]

-----------------------------------------------------------------------------
(* A page is triaged, its children run, and the advice is followed.        *)

VARIABLES
    surface, candidates,           \* the page and the candidates its links make
    children,                      \* what their destinations bring back
    budget,                        \* the budgets of the run
    triage,                        \* the result, or <<>> before the first run
    tried,                         \* destinations a child run has captured
    idle                           \* runs in a row that captured nothing new

triageVars == <<surface, candidates, children, budget, triage, tried, idle>>

\* Whoever captures the children warns that a query is missed where there is one.
TriageInit ==
    /\ surface \in Surfaces
    /\ \E requests \in Requests : candidates = Candidates(surface, requests)
    /\ children \in [{candidates[i].dest : i \in DOMAIN candidates} ->
                        {child \in Children : "no_overlap" \in child.shows => Asked(surface)}]
    /\ budget \in Budgets
    /\ triage = <<>>
    /\ tried = {}
    /\ idle = 0

RunWith(b) ==
    LET t == Triage(surface, candidates, children, b)
        captured == {candidates[i].dest : i \in t.selected}
    IN  /\ budget' = b
        /\ triage' = t
        /\ tried' = tried \cup captured
        /\ idle' = IF captured \subseteq tried THEN idle + 1 ELSE 0
        /\ UNCHANGED <<surface, candidates, children>>

FirstRun == triage = <<>> /\ RunWith(budget)

FollowAdvice ==
    /\ triage # <<>>
    /\ RetryAdvice(triage).kind = "increase"
    /\ RunWith(RetryAdvice(triage).budget)

TriageNext == FirstRun \/ FollowAdvice

-----------------------------------------------------------------------------
\* The selection is the best the budgets allow: every request gets one
\* verdict, and an eligible candidate is selected exactly when fewer than
\* maxPerDomain better ones share its domain and fewer than maxSelected better
\* ones pass that test; the domain is blamed only while top-K room was left.
SelectsTheBest ==
    triage # <<>> =>
        LET c == candidates
            fit == {i \in DOMAIN c : HardRejectionFor(surface, c[i]) = "none" /\ ~Repeats(c, i)}
            better == [i \in fit |-> {k \in fit : Before(c[k], c[i])}]
            domainHasRoom == [i \in fit |->
                Cardinality({k \in better[i] : c[k].host = c[i].host}) < triage.maxPerDomain]
            topKHasRoom == [i \in fit |->
                Cardinality({k \in better[i] : domainHasRoom[k]}) < triage.maxSelected]
        IN  /\ triage.selected = {i \in fit : topKHasRoom[i] /\ domainHasRoom[i]}
            /\ triage.domain_budget = {i \in fit : topKHasRoom[i] /\ ~domainHasRoom[i]}
            /\ triage.top_k_budget = {i \in fit : ~topKHasRoom[i]}
            /\ \A i \in DOMAIN c :
                 Cardinality({v \in {"selected", "domain_budget", "top_k_budget", "duplicate", "hard"} :
                                  i \in triage[v]}) = 1

\* Whoever follows the advice gets somewhere: no two runs in a row capture
\* nothing new, and when no larger budget is advised although a child still
\* disappoints, every eligible destination has been tried or the ceiling is
\* reached.
AdviceReachesAll ==
    triage # <<>> =>
        /\ idle <= 1
        /\ (RetryAdvice(triage).kind # "increase" /\ triage.selected # triage.useful)
             => \/ triage.maxSelected = TopKCeiling
                \/ {candidates[i].dest : i \in triage.top_k_budget \cup triage.domain_budget} \subseteq tried

=============================================================================
