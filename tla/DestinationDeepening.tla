----------------------- MODULE DestinationDeepening -----------------------
(***************************************************************************)
(* destination-triage.ts, what follows a selection: the links a captured   *)
(* child shows become proposals for a second depth, or, if the child was   *)
(* blocked, advice to open them with a profile the user has signed in; the *)
(* summary counts it all and every verdict carries its reasons.            *)
(***************************************************************************)
EXTENDS DestinationTriage, Selection

CONSTANT Caps  \* [deeper, samples, urls]: links per child (5), recovery samples (10) and
               \* urls named by the advice (5)

\* Of a child without evidence nothing is known but its error.
ASSUME DeepeningAssumption ==
    /\ Caps \in [{"deeper", "samples", "urls"} -> Nat \ {0}]
    /\ \A child \in Children :
          /\ child.status \in {"absent", "ok", "failed"}
          /\ child.links \in Seq(ToSet(child.links))
          /\ "unrecorded" \in child.shows => child.shows \subseteq {"unrecorded", "paywall", "login"}

Child(i) == children[candidates[i].dest]
Verdict(i) == ClassifyChild(surface, candidates[i].kind, Child(i))

\* Members of a set of <<name, condition>> whose condition holds.
Those(pairs) == {pair[1] : pair \in {p \in pairs : p[2]}}

-----------------------------------------------------------------------------
(* Reasons                                                                  *)

DecisionReasons(c) ==
    LET signs == AuthoritySignals(c.kind, c)
        price == c.kind = "commerce" \/ "price_word" \in c.text
    IN  [positive |-> Those({
             <<"query_overlap", Overlaps(Query(surface), c.text)>>,
             <<"official_domain_match", c.kind = "official" \/ signs \cap {"official_hint", "institution"} # {}>>,
             <<"fresh_publisher_article", c.kind = "news" /\ "recent_year" \in c.text
                                              /\ signs \cap {"publisher_text", "authority"} # {}>>,
             <<"local_place_match", c.kind = "map_place" \/ "local_text" \in signs>>,
             <<"price_or_offer_visible", price>>,
             <<"source_family_fit", SourceFamilyFits(surface.family, c.kind)>>,
             <<"query_intent_match", c.kind \in IntentFits[DestinationQueryIntent(surface)]>>}),
         negative |-> Those({
             <<"portal_shell", "low_value" \in c.text \/ ProviderBoilerplate(surface, c)>>,
             <<"private_or_login_surface", "login" \in c.text>>,
             <<"stale_or_mismatched_source", "stale_year" \in c.text
                                                 \/ ~SourceFamilyFits(surface.family, c.kind)>>,
             <<"unsupported_destination", ~c.http>>})]

VerdictReason ==
    [blocked |-> {"blocked_surface"}, paywalled |-> {"paywalled_surface"},
     private |-> {"private_or_login_surface"}, low_value |-> {"thin_content"},
     off_topic |-> {"off_topic"}, useful |-> {}]

\* What the child shows counts with what it is judged to be.
ChildReasons(child, verdict) ==
    LET shows == IF child.status = "absent" THEN {} ELSE child.shows \ {"unrecorded"}
    IN  [positive |-> Those({<<"query_overlap", "overlap" \in shows>>,
                             <<"transcript_or_ocr_hit", "ocr" \in shows>>,
                             <<"price_or_offer_visible", "commerce_offer" \in shows>>}),
         negative |-> VerdictReason[verdict] \cup
                      Those({<<"thin_content", "thin" \in shows>>,
                             <<"blocked_surface", "obstructed" \in shows>>,
                             <<"off_topic", "no_overlap" \in shows>>})]

\* Each list of rejections has the reason of its own.
RejectionReason(i) ==
    Those({<<"duplicate", i \in triage.duplicate>>,
           <<"domain_budget", i \in triage.domain_budget>>,
           <<"top_k_budget", i \in triage.top_k_budget>>,
           <<"private_or_login_surface", i \in triage.hard /\ HardRejectionFor(surface, candidates[i]) = "private">>,
           <<"portal_shell", i \in triage.hard /\ HardRejectionFor(surface, candidates[i]) = "low_value">>,
           <<"unsupported_destination",
             i \in triage.hard /\ HardRejectionFor(surface, candidates[i]) = "unsupported">>})

Reasons(i) ==
    LET base == DecisionReasons(candidates[i])
        more == ChildReasons(Child(i), Verdict(i))
    IN  IF i \in triage.selected
        THEN [positive |-> base.positive \cup more.positive, negative |-> base.negative \cup more.negative]
        ELSE [base EXCEPT !.negative = @ \cup RejectionReason(i)]

-----------------------------------------------------------------------------
(* Deeper links                                                             *)

\* The first links of the child that lead elsewhere; of those that lead to
\* one place only the first counts, whatever becomes of it.
DeepeningCandidates(page, links) ==
    LET first(i) == \A k \in 1..(i - 1) : links[k].dest # links[i].dest
        worthwhile(i) ==
            /\ first(i) /\ links[i].http
            /\ links[i].dest # page.dest
            /\ links[i].text \cap {"low_value", "login"} = {}
            /\ ~ProviderBoilerplate([providers |-> page.text], links[i])
        fit == Chosen(links, {i \in DOMAIN links : worthwhile(i)})
    IN  SubSeq(fit, 1, Min({Caps.deeper, Len(fit)}))

\* Only evidence that was recorded carries links.
Deeper(i) ==
    IF Child(i).status = "absent" \/ "unrecorded" \in Child(i).shows THEN <<>>
    ELSE DeepeningCandidates(candidates[i], Child(i).links)

DeepeningReason(links) ==
    LET kinds == {CandidateKindFor(links[n]) : n \in DOMAIN links}
    IN  FirstRule(<< <<"source_document", \E n \in DOMAIN links : "source" \in links[n].text>>,
                     <<"official_link", "official" \in kinds>>,
                     <<"review_or_map_link", kinds \cap {"review", "map_place"} # {}>>,
                     <<"primary_media_link", "media" \in kinds>> >>, "manual_review_required")

\* Selected candidates with the best first, as the triage lists them.
Selected == Sorted(candidates, triage.selected)

Proposals ==
    LET s == Selected
        proposes(i) == Verdict(i) = "useful" /\ Deeper(i) # <<>>
        proposing == Chosen(s, {n \in DOMAIN s : proposes(s[n])})
    IN  [n \in DOMAIN proposing |->
            [child |-> candidates[proposing[n]].dest, links |-> Deeper(proposing[n]),
             reason |-> DeepeningReason(Deeper(proposing[n]))]]

-----------------------------------------------------------------------------
(* Recovery of blocked children                                             *)

BlockedChild(i) ==
    Verdict(i) \in {"blocked", "paywalled", "private"} \/ "obstructed" \in Child(i).shows

\* What a blocked child contributes.
Recoverable(i) ==
    LET deeper == IF BlockedChild(i) THEN Deeper(i) ELSE <<>>
    IN  [n \in DOMAIN deeper |-> [child |-> candidates[i].dest, url |-> deeper[n].dest, domain |-> deeper[n].host]]

RecoveryCandidates ==
    LET s == Selected
        found[n \in 0..Len(s)] == IF n = 0 THEN <<>> ELSE found[n - 1] \o Recoverable(s[n])
    IN  found[Len(s)]

\* The advice names the first sample; the profile is named after its domain.
RecoveryAdvice(samples, count) ==
    IF samples = <<>> THEN {}
    ELSE LET first == Head(samples)
             urls == FoldLeft(LAMBDA found, s : IF s.url \in ToSet(found) THEN found ELSE Append(found, s.url),
                              <<>>, samples)
         IN  {[profile |-> first.domain, setup |-> first.child, recovery |-> first.url,
               urls |-> SubSeq(urls, 1, Min({Caps.urls, Len(urls)})), count |-> count]}

-----------------------------------------------------------------------------
(* The summary                                                              *)

\* What is said of a triage whose selection was useful, or stood behind a wall, and
\* of the links that were found for recovery.
SummaryOf(useful, walled, found) ==
    LET all == DOMAIN candidates
        fallback == IF useful = triage.selected THEN {}
                    ELSE {i \in all \ triage.selected :
                              Reasons(i).negative \cap {"domain_budget", "top_k_budget"} # {}}
        samples == SubSeq(found, 1, Min({Caps.samples, Len(found)}))
        advice == RecoveryAdvice(samples, Len(found))
    IN  [status |-> FirstRule(<< <<"no_candidates", all = {}>>,
                                 <<"partial", walled # {} \/ triage.selected = {} \/ useful # triage.selected>> >>,
                              "selected"),
         fallback |-> fallback, samples |-> samples, recoverable |-> Len(found), advice |-> advice,
         retry |-> fallback # {} \/ advice # {}]

Summary ==
    SummaryOf({i \in triage.selected : Verdict(i) = "useful"},
              {i \in triage.selected : Verdict(i) \in {"blocked", "paywalled", "private"}} \cup
                  {i \in triage.hard : HardRejectionFor(surface, candidates[i]) = "private"},
              RecoveryCandidates)

\* What is recorded of the triage, with the status of each record.
Records(summary, proposals) ==
    IF candidates = <<>> THEN {}
    ELSE {<<"destination_candidate", "ok">>,
          <<"destination_triage", IF summary.status = "selected" THEN "ok" ELSE "partial">>}
         \cup (IF proposals = <<>> THEN {} ELSE {<<"destination_deepening_proposal", "ok">>})

-----------------------------------------------------------------------------
\* Nobody's links are lost or offered twice: the distinct worthwhile links of
\* a useful child are one proposal, those of a blocked child are counted for
\* recovery, and a child that was merely poor offers none; a verdict other
\* than useful has a reason, a useful one none against it from the child, and
\* the summary says "selected" only when nothing disappointed.
LinksAccounted(deeper, proposals, summary) ==
    LET links == [i \in triage.selected |-> {deeper[i][n].dest : n \in DOMAIN deeper[i]}]
        of(i) == {n \in DOMAIN proposals : proposals[n].child = candidates[i].dest}
    IN  /\ \A i \in triage.selected :
              /\ Cardinality(links[i]) = Len(deeper[i])
              /\ candidates[i].dest \notin links[i]
              /\ Cardinality(of(i)) = IF Verdict(i) = "useful" /\ links[i] # {} THEN 1 ELSE 0
              /\ Verdict(i) = "useful" <=>
                    Reasons(i).negative \cap UNION Range(VerdictReason) = {}
        /\ summary.recoverable =
               SumFunctionOnSet([i \in triage.selected |->
                                    IF Verdict(i) \in {"blocked", "paywalled", "private"}
                                    THEN Cardinality(links[i]) ELSE 0], triage.selected)
        /\ summary.advice = {} <=> summary.recoverable = 0
        /\ \A i \in triage.duplicate \cup triage.hard : i \notin summary.fallback
        /\ <<"destination_triage", "ok">> \in Records(summary, proposals) <=>
               /\ triage.selected # {} /\ triage.selected = triage.useful
               /\ \A i \in triage.hard : "private_or_login_surface" \notin RejectionReason(i)

\* That is so of the links, the proposals and the summary of every triage.
DeeperLinksAccounted ==
    triage # <<>> => LinksAccounted([i \in triage.selected |-> Deeper(i)], Proposals, Summary)

\* What a triage tells to do next, a rerun or deeper links, leaves nothing out.
\* (destination-triage.ts:500-742)
NextStepsAccounted == AdviceReachesAll /\ DeeperLinksAccounted

=============================================================================
