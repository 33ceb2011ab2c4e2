------------------------------ MODULE MCPlanning ------------------------------
(***************************************************************************)
(* What is decided outside of a run's own stages: which destinations to     *)
(* open, which follow-ups to make, when to look at a video, which media to  *)
(* keep, what goes into the operator's notes, what a gate makes of claims,  *)
(* and what becomes of a bundle.  The parts share nothing, so each          *)
(* behaviour is of one of them.                                             *)
(***************************************************************************)
EXTENDS DestinationRecovery, SearchFollowups, FrameSampling, MediaCapture, MemoryVault, ClaimGate, EvidenceBundle,
        BrowserlessCapture, OfficialApi

VARIABLES part  \* which of them

-----------------------------------------------------------------------------
(* The links of a result page, with budgets that leave some of them out.    *)

Link(d, h, t) == [dest |-> d, host |-> h, http |-> TRUE, text |-> t]
A1 == Link("a1", "d1", {"news", "seoul_ko", "recent_year"})
A2 == Link("a2", "d1", {"blog", "google_article"})
A3 == Link("a3", "d1", {"hotel"})
B1 == Link("b1", "d2", {"homepage", "official_hint"})
B2 == Link("b2", "d2", {"shop", "stale_year"})
Login == Link("b1", "d2", {"login"})
Shell == Link("s1", "p", {"google_results"})
Mail == [Link("m1", "d2", {}) EXCEPT !.http = FALSE]

MCRequests ==
    {<<A1, A2, A3, B1>>, <<B1, A3, A2, A1>>, <<A3, B2, A1, A2, B1>>, <<A3, A2, A1>>}
    \cup SeqOf({A1, B1, Login, Shell, Mail}, 2)

MCSurfaces ==
    {[family |-> "search", platform |-> "google_search", providers |-> {"google_search"},
      host |-> "p", address |-> {"google"}, searched |-> {"hotel"}, asked |-> {{"seoul", "latest"}}],
     [family |-> "travel_booking", platform |-> "agoda", providers |-> {},
      host |-> "d2", address |-> {}, searched |-> {}, asked |-> {}]}

MCAliases == {{"seoul", "seoul_ko"}}

\* Links of a child, some of them repeated, leading back or not worth a look.
Deep1 == Link("x1", "d3", {"source"})
Deep2 == Link("x2", "d4", {"homepage"})
MCChildren ==
    {[status |-> "absent", shows |-> {}, links |-> <<>>],
     [status |-> "ok", shows |-> {"ocr"}, links |-> <<Deep2, A1, Login, Deep2>>],
     [status |-> "ok", shows |-> {"obstructed", "fresh_news"}, links |-> <<Deep1, Deep1, Deep2, B1>>],
     [status |-> "failed", shows |-> {"login"}, links |-> <<Mail>>]}

MCCaps == [deeper |-> 2, samples |-> 3, urls |-> 1]
MCBudgets == {<<1, {1}>>, <<2, {1}>>, <<2, {2}>>, <<7, {}>>, <<0, {1}>>}

-----------------------------------------------------------------------------
(* Run directories with several triages, some unreadable or of old versions. *)

Sample(c, u, h) == [child |-> c, url |-> u, domain |-> h]
Row(p, t) == [valid |-> TRUE, triage |-> TRUE, inside |-> TRUE, text |-> t, path |-> p]

MCLedgers ==
    {{}, {<<>>}, {<<Row("t1", TRUE), Row("t2", TRUE), Row("t1", TRUE)>>},
     {<<[Row("t1", TRUE) EXCEPT !.valid = FALSE], Row("t2", FALSE)>>},
     {<<[Row("t1", TRUE) EXCEPT !.inside = FALSE], [Row("t2", TRUE) EXCEPT !.triage = FALSE], Row("t3", FALSE)>>}}

MCWalks == {<<Row("t1", FALSE), Row("t3", FALSE)>>, <<Row("t2", TRUE), Row("t3", TRUE)>>}

Written(samples, count) ==
    [state |-> "ok", samples |-> samples, count |-> count, advice |-> RecoveryAdvice(samples, count)]
MCContents ==
    {[state |-> "garbage", samples |-> <<>>, count |-> 0, advice |-> {}],
     Written(<<>>, 0), Written(<<Sample("a1", "x1", "d3"), Sample("a1", "x2", "d4")>>, 4),
     [Written(<<Sample("a1", "x2", "d4")>>, 1) EXCEPT !.advice = {}],
     Written(<<Sample("a2", "x'1", "d4")>>, 1)}

-----------------------------------------------------------------------------
(* Result pages with repeated urls, one of them suspected under one title    *)
(* only, a wall and a result without a url.                                 *)

MCIntents ==
    {[wants |-> {"korean", "review", "visual"}, words |-> {"photo"}],
     [wants |-> {"structured", "video", "review"}, words |-> {"official"}]}

Plain(u) == <<u, {}>>
Result(u, m) == [url |-> u, marks |-> m]

MCPages ==
    {<<>>,
     <<Result(Plain("u1"), {"terms"}), Result(Plain("u2"), {"wall", "review", "login_url"}),
       Result(Plain("u1"), {"blog"}), Result(Plain("u3"), {"wall", "review"}), Result(None, {"terms", "review"})>>,
     <<Result(Plain("u4"), {"terms"}), Result(Plain("u4"), {"wall"})>>,
     <<Result(Plain("u2"), {"ad"}), Result(Plain("google"), {"terms"}), Result(Plain("google"), {"detail"})>>}

MCLimits == {[arms |-> 2, candidates |-> 3, total |-> 4], [arms |-> 0, candidates |-> 2, total |-> 2]}

-----------------------------------------------------------------------------
(* A film of five pictures; one time may fail to be sampled.                *)

MCVideos ==
    {[film |-> [t \in 0..8 |-> p[1 + (t \div 2)]], length |-> {8}, cues |-> {<<1, 4>>}, text |-> {2, 6},
      broken |-> b] : p \in [1..5 -> {{}, {1}, {1, 2, 3}, {3, 4}}], b \in {{}, {6}}}

Sampling(times, frames_, dense, around, cap, limit, hits) ==
    [times |-> times, stride |-> 3, maxFrames |-> frames_, dense |-> dense, window |-> around, step |-> around,
     maxDense |-> cap, threshold |-> limit, maxHits |-> hits]

MCSamplings ==
    {Sampling({0, 2, 4, 6, 8}, 5, TRUE, 1, 4, 2, 2), Sampling({0, 2, 4, 6, 8}, 4, TRUE, 2, 2, 4, 1),
     Sampling({}, 5, TRUE, 2, 2, 1, 1), Sampling({}, 5, FALSE, 2, 2, 3, 1)}

-----------------------------------------------------------------------------
(* Responses that tell their length, lie about it, or do not tell.          *)

Response(n, s, t) == [name |-> n, size |-> s, told |-> t, capturable |-> TRUE]
MCMedia ==
    {Response("a", 2, {2}), Response("b", 2, {}), Response("d", 4, {1}),
     [Response("e", 1, {}) EXCEPT !.capturable = FALSE]}

(* Two bridges of two runs of one day; a rerun of one run is proved about.  *)
Bridge(i, r, m, d) == [id |-> i, run |-> r, method |-> m, day |-> d]
MCBridges == {Bridge(1, "r1", "m1", "d1"), Bridge(2, "r2", "m2", "d1")}

-----------------------------------------------------------------------------
(* Three captures of one story, where only the second resembles the others, *)
(* two pages of one publisher, data copied from one, a frame, transcripts.  *)

MCSuffixes == {<<"co", "uk">>}
MCLower(w) == IF w = "SEOUL" THEN "seoul" ELSE w

Story == <<"SEOUL", "opens", "a", "park", "by", "the", "river", "today">>
Page(host, text) == [kind |-> "page_text", agent |-> FALSE, host |-> host, text |-> text, binds |-> {}]
Other(kind, host) == [Page(host, <<>>) EXCEPT !.kind = kind]

MCSource ==
    [a |-> Page(<<"www", "a", "co", "uk">>, SubSeq(Story, 1, 6)),
     b |-> Page(<<"b", "co", "uk">>, Story),
     c |-> Page(<<"c", "com">>, SubSeq(Story, 3, 8)),
     d |-> Page(<<"m", "c", "com">>, <<"hotel", "4", "stars", "in", "SEOUL", "19", "900">>),
     e |-> [Page(<<"c", "com">>, <<"19", "900">>) EXCEPT !.kind = "structured_data", !.agent = TRUE],
     f |-> Other("frame_screenshot", <<>>),
     g |-> [Other("capture_transcript", <<>>) EXCEPT !.binds = {<<"a", SubSeq(Story, 1, 6)>>}],
     h |-> [Other("capture_transcript", <<>>) EXCEPT !.binds = {<<"a", Story>>}],
     n |-> Other("source_navigation_action", <<"b", "co", "uk">>),
     z |-> Other("destination_candidate", <<"c", "com">>)]

Span(type, quote) == [type |-> type, quote |-> quote, tokens |-> <<>>]
Claim(id, kind, anchor) ==
    [artifact |-> id, type |-> "text", kind |-> kind, stamped |-> FALSE, anchor |-> anchor,
     taxonomy |-> "quote", sources |-> <<>>, min |-> 2]
From(id) == [artifact |-> id, quote |-> <<>>]

MCClaims ==
    LET quoted == Claim("a", "page_text", Span("text_span", <<"seoul", "opens">>))
        derived == [Claim("d", "page_text", Span("text_span", <<"hotel">>)) EXCEPT
                        !.taxonomy = "aggregated", !.anchor.tokens = <<"900", "hotel">>]
    IN  {quoted, [quoted EXCEPT !.sources = <<From("b"), From("c")>>],
         [quoted EXCEPT !.sources = <<[From("c") EXCEPT !.quote = <<"river", "today">>], From("d")>>],
         [quoted EXCEPT !.sources = <<From("a"), From("d"), From("f")>>, !.min = 3],
         derived, [derived EXCEPT !.anchor.tokens = <<"19", "900">>],
         Claim("e", "structured_data", Span("none", <<>>)),
         [Claim("f", "frame_screenshot", Span("frame", <<>>)) EXCEPT !.type = "visual", !.stamped = TRUE],
         [Claim("z", "destination_candidate", Span("none", <<>>)) EXCEPT !.sources = <<From("n")>>]}

Said(id, words) == [artifact |-> id, quote |-> words]
Judgment(verdict, support, refute, min) ==
    [verdict |-> verdict, support |-> support, refute |-> refute, min |-> min]

MCJudgments ==
    LET story == {Said("a", <<"opens", "a">>), Said("b", <<"a", "park">>), Said("c", <<"a", "park">>)}
    IN  {Judgment("supported", story, {}, 2), Judgment("supported", {Said("a", <<"park">>), Said("c", <<"park">>)}, {}, 2),
         Judgment("supported", {Said("d", <<"hotel">>)}, {}, 1),
         Judgment("supported", {Said("a", <<"opens">>)}, {Said("d", <<"hotel">>)}, 1),
         Judgment("refuted", {}, {Said("d", <<"park">>)}, 2), Judgment("insufficient", {}, {}, 2)}

MCForeign ==
    {[registered |-> {"a", "b", "c", "d", "e", "f", "n"}, claims |-> {}, judgments |-> {}],
     [registered |-> {"b", "c", "d", "e", "f", "n", "z"},
      claims |-> {[Claim("a", "page_text", Span("none", <<>>)) EXCEPT !.sources = <<From("a")>>, !.min = 1]},
      judgments |-> {Judgment("supported", {Said("b", <<"park">>)}, {}, 0)}]}

MCExtractions ==
    {[text |-> "d", values |-> << << <<"19900">>, <<"19", "900">> >>, << <<"5">> >>, << <<"hotel">> >> >>],
     [text |-> "f", values |-> << << <<"4">> >> >>], [text |-> "e", values |-> << << <<"19", "900">> >> >>]}

-----------------------------------------------------------------------------
(* Runs with an odd number of artifacts, two of one content, a large file,   *)
(* one that is gone, one that changed since it was recorded.                 *)

Recorded(i, p, was) == [id |-> i, path |-> p, sha |-> Sha256(was), named |-> TRUE]
MCRunDirs ==
    {[rows |-> <<>>, disk |-> <<>>, meta |-> {}],
     [rows |-> <<Recorded(2, "p2", "y"), Recorded(1, "p1", "x"), Recorded(3, "p3", "x")>>,
      disk |-> [p1 |-> "x", p2 |-> "y", p3 |-> "x"], meta |-> {"chromium"}],
     [rows |-> <<Recorded(1, "p1", "x"), Recorded(2, "p2", "large"), Recorded(3, "p3", "y")>>,
      disk |-> [p1 |-> "x", p2 |-> "large"], meta |-> {"garbage"}],
     [rows |-> <<Recorded(1, "p1", "y"), [Recorded(2, "p2", "x") EXCEPT !.named = FALSE], Recorded(3, "", "x")>>,
      disk |-> [p1 |-> "y", p2 |-> "y"], meta |-> {}],
     [rows |-> <<Recorded(1, "p1", "x"), Recorded(2, "p2", "y")>>,
      disk |-> [p1 |-> "x", p2 |-> "x"], meta |-> {}]}

-----------------------------------------------------------------------------
(* A site that redirects to itself, to a shop below it, elsewhere and in a   *)
(* circle; local addresses; pages with and without obstructions.             *)

Url(host, status, to) ==
    [http |-> TRUE, host |-> host, v4 |-> <<>>, v6 |-> "", status |-> status, to |-> to, html |-> TRUE,
     chars |-> 2, bytes |-> 2, text |-> "long", mount |-> FALSE]

MCSite ==
    [home |-> Url(<<"a", "com">>, 302, "shop"), shop |-> Url(<<"shop", "a", "com">>, 200, ""),
     moved |-> Url(<<"a", "com">>, 302, "other"), other |-> Url(<<"b", "com">>, 200, ""),
     round |-> Url(<<"a", "com">>, 302, "round"), far |-> Url(<<"a", "com">>, 302, "home"),
     gone |-> Url(<<"a", "com">>, 404, ""), ftp |-> [Url(<<"a", "com">>, 302, "") EXCEPT !.to = "mail"],
     mail |-> [Url(<<"a", "com">>, 200, "") EXCEPT !.http = FALSE],
     shell |-> [Url(<<"a", "com">>, 200, "") EXCEPT !.text = "short", !.mount = TRUE],
     short |-> [Url(<<"a", "com">>, 200, "") EXCEPT !.text = "short", !.chars = 3, !.bytes = 5],
     pdf |-> [Url(<<"a", "com">>, 200, "") EXCEPT !.html = FALSE],
     local |-> Url(<<"localhost">>, 200, ""), printer |-> Url(<<"printer", "local">>, 404, ""),
     lan |-> [Url(<<"172.16.1.1">>, 404, "") EXCEPT !.v4 = <<172, 16>>],
     wan |-> [Url(<<"172.32.1.1">>, 404, "") EXCEPT !.v4 = <<172, 32>>],
     six |-> [Url(<<"fe80">>, 404, "") EXCEPT !.v6 = "fe80"]]

Task(u) == [url |-> u, asks |-> {}, topics |-> {}, filled |-> {}, auto |-> TRUE, social |-> FALSE,
            bound |-> FALSE, endpoint |-> "none"]
MCTasks ==
    {Task(u) : u \in {"home", "moved", "round", "far", "gone", "ftp", "shell", "pdf", "local", "printer",
                      "lan", "wan", "six"}}
    \cup {[Task("short") EXCEPT !.bound = b, !.topics = {"video", "price"}] : b \in BOOLEAN}
    \cup {[Task("home") EXCEPT !.topics = {w}, !.social = TRUE, !.endpoint = "feed"] : w \in {"map", "label"}}
    \cup {[Task("home") EXCEPT !.auto = FALSE, !.asks = {"stt_asr"}, !.endpoint = "headed",
                               !.filled = {"decision", "scope", "criteria", "boundaries"}]}

MCScreens ==
    {{}, {"get the app"}, {"open app to continue", "captcha"}, {"video unavailable"}, {"could not load"},
     {"not available in your country"}, {"confirm your age", "get the app"}, {"continue with google"},
     {"log in to continue", "video unavailable"}}

GatewayAnswer(text, shows) == [ok |-> TRUE, size |-> 2, text |-> text, shows |-> shows, usable |-> TRUE]
MCAnswers ==
    {GatewayAnswer("long", {}), GatewayAnswer("short", {}), GatewayAnswer("long", {"captcha"}),
     GatewayAnswer("long", {"pardon our interruption"}), [GatewayAnswer("long", {}) EXCEPT !.size = 9],
     [GatewayAnswer("long", {}) EXCEPT !.ok = FALSE]}

(* Every platform, with and without a medium, under any credentials.        *)
MCApiTasks ==
    {[platform |-> p, media |-> m, enabled |-> e,
      credential |-> [k \in ToSet(LookupTemplates(p)) |-> c[IF k = Head(LookupTemplates(p)) THEN 1 ELSE 2]]] :
        p \in {"youtube", "instagram", "tiktok", "generic"}, m \in BOOLEAN, e \in BOOLEAN,
        c \in [1..2 -> {"absent", "unset", "set"}]}

-----------------------------------------------------------------------------
\* The parts whose turn it is not have one initial state each.
TriageAtRest ==
    /\ surface = CHOOSE s \in Surfaces : TRUE
    /\ candidates = <<>> /\ children = <<>> /\ budget = <<0, {1}>>
    /\ triage = <<>> /\ tried = {} /\ idle = 0

RecoveryAtRest ==
    /\ ledger = {} /\ walk = <<>> /\ content = <<>>
    /\ profiles = {} /\ flags = {} /\ recovery = {} /\ opened = {}

SamplingAtRest ==
    /\ video = [film |-> <<>>, length |-> {}, cues |-> {}, text |-> {}, broken |-> {}]
    /\ o = Sampling({}, 0, FALSE, 1, 0, 1, 0)
    /\ length = {} /\ round = "base" /\ frames = {}
    /\ plan = [times |-> {}, length |-> {}, omitted |-> 0]

CaptureAtRest ==
    /\ task = CHOOSE k \in Tasks : k.url = "home" /\ ~k.auto
    /\ step = "done" /\ hop = "" /\ asked = <<>> /\ got = {} /\ met = {} /\ replan = {} /\ attempts = <<>>

ApiAtRest ==
    /\ api = [platform |-> "generic", media |-> FALSE, enabled |-> FALSE, credential |-> <<>>]
    /\ lookups = <<>> /\ apiRows = <<>> /\ apiCache = {} /\ apiStep = "done"

BundleAtRest ==
    /\ runDir = [rows |-> <<>>, disk |-> <<>>, meta |-> {}]
    /\ bundle = <<>> /\ sealed = <<>> /\ anchored = {} /\ exported = <<>> /\ edits = 0

GateAtRest == registered = {} /\ claims = {} /\ judgments = {} /\ proposals = <<>> /\ told = {}

PlanningInit ==
    /\ part \in {"triage", "recovery", "followups", "sampling", "media", "vault", "gate", "bundle", "capture", "api"}
    /\ IF part = "triage" THEN TriageInit ELSE TriageAtRest
    /\ IF part = "recovery" THEN RecoveryInit ELSE RecoveryAtRest
    /\ IF part = "sampling" THEN SamplingInit ELSE SamplingAtRest
    /\ part # "vault" => files = [p \in Paths |-> Missing]
    /\ IF part = "gate" THEN GateInit ELSE GateAtRest
    /\ IF part = "bundle" THEN BundleInit ELSE BundleAtRest
    /\ IF part = "capture" THEN BrowserlessInit ELSE CaptureAtRest
    /\ IF part = "api" THEN ApiInit ELSE ApiAtRest
    /\ FollowupInit /\ MediaInit /\ VaultInit

PlanningNext ==
    \/ /\ part = "triage" /\ TriageNext
       /\ UNCHANGED <<part, recoveryVars, followupVars, samplingVars, mediaVars, vaultVars,
                      gateVars, bundleVars, browserlessVars, apiVars>>
    \/ /\ part = "recovery" /\ RecoveryNext
       /\ UNCHANGED <<part, triageVars, followupVars, samplingVars, mediaVars, vaultVars,
                      gateVars, bundleVars, browserlessVars, apiVars>>
    \/ /\ part = "followups" /\ FollowupNext
       /\ UNCHANGED <<part, triageVars, recoveryVars, samplingVars, mediaVars, vaultVars,
                      gateVars, bundleVars, browserlessVars, apiVars>>
    \/ /\ part = "sampling" /\ SamplingNext
       /\ UNCHANGED <<part, triageVars, recoveryVars, followupVars, mediaVars, vaultVars,
                      gateVars, bundleVars, browserlessVars, apiVars>>
    \/ /\ part = "media" /\ MediaNext
       /\ UNCHANGED <<part, triageVars, recoveryVars, followupVars, samplingVars, vaultVars,
                      gateVars, bundleVars, browserlessVars, apiVars>>
    \/ /\ part = "vault" /\ VaultNext
       /\ UNCHANGED <<part, triageVars, recoveryVars, followupVars, samplingVars, mediaVars,
                      gateVars, bundleVars, browserlessVars, apiVars>>
    \/ /\ part = "gate" /\ GateNext
       /\ UNCHANGED <<part, triageVars, recoveryVars, followupVars, samplingVars, mediaVars,
                      vaultVars, bundleVars, browserlessVars, apiVars>>
    \/ /\ part = "bundle" /\ BundleNext
       /\ UNCHANGED <<part, triageVars, recoveryVars, followupVars, samplingVars, mediaVars,
                      vaultVars, gateVars, browserlessVars, apiVars>>
    \/ /\ part = "capture" /\ BrowserlessNext
       /\ UNCHANGED <<part, triageVars, recoveryVars, followupVars, samplingVars, mediaVars,
                      vaultVars, gateVars, bundleVars, apiVars>>
    \/ /\ part = "api" /\ ApiNext
       /\ UNCHANGED <<part, triageVars, recoveryVars, followupVars, samplingVars, mediaVars,
                      vaultVars, gateVars, bundleVars, browserlessVars>>

=============================================================================
