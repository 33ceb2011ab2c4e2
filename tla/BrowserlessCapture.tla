------------------------- MODULE BrowserlessCapture -------------------------
(***************************************************************************)
(* How a run comes by a page with as little of a browser as will do: what   *)
(* the question asks for (intent-profile.ts), a plain GET that follows      *)
(* redirects (http-tier0-capture.ts), the browser otherwise, and public     *)
(* gateways where the page shows an obstacle that is not an access wall     *)
(* (browser-obstructions.ts, acquisition-method-planner.ts,                 *)
(* public-gateway-capture.ts).  EvidenceWorkflow has the stages around it.  *)
(***************************************************************************)
EXTENDS Naturals, Sequences, FiniteSets, SequencesExt

CONSTANTS
    Tasks,       \* [url, asks, topics, filled, auto, social, bound, endpoint] of runs
    Site,        \* by url: [http, host, v4, v6, status, to, html, chars, bytes, text, mount]
    Screens,     \* the sets of signals that the text of a page may show
    Answers,     \* [ok, size, text, shows, usable] of gateways
    MaxBytes, MaxRedirects

ASSUME BrowserlessAssumption == {MaxBytes, MaxRedirects} \subseteq Nat

VARIABLES
    task,
    step,      \* what comes next
    hop,       \* the url to ask for
    asked,     \* the urls asked for directly, in order
    got,       \* the page bundles: [kind, by, url]
    met,       \* the kinds of obstruction in the page, whoever brought it
    replan,    \* {} or the plan made because of them
    attempts   \* the gateways tried: <<key, status>>

browserlessVars == <<task, step, hop, asked, got, met, replan, attempts>>

-----------------------------------------------------------------------------
(* The question                                                            *)

\* What words in the question, the url or the source's family ask for.
ShapesOf == [price |-> {"structured_data"}, search |-> {"semi_structured_dom"},
             design |-> {"ui_screenshot"}, label |-> {"ocr_image_text"}, video |-> {"video_frames"},
             caption |-> {"captions_transcript"}, speech |-> {"stt_asr"}, tts |-> {"tts_detection"},
             music |-> {"audio_events"}, place |-> {"map_place_state"}, login |-> {"byte_faithful_byo"},
             map |-> {"ui_screenshot", "ocr_image_text", "map_place_state"}]

InferShapes(t) == {"page_text", "page_html"} \cup t.asks \cup UNION {ShapesOf[w] : w \in t.topics}

MissingIntentFields(t) ==
    ({"decision", "scope", "criteria", "boundaries"} \ t.filled) \cup (IF t.asks = {} THEN {"shapes"} ELSE {})

IntentStatus(t) ==
    IF MissingIntentFields(t) = {} THEN "locked"
    ELSE IF "decision" \in t.filled \/ t.asks # {} THEN "provisional" ELSE "underspecified"

RecommendedOptions(t) ==
    LET shapes == InferShapes(t)
        any(some) == shapes \cap some # {}
    IN  [full |-> any({"ui_screenshot", "ocr_image_text", "video_frames", "map_place_state"}),
         frames |-> any({"video_frames"}), ocr |-> any({"ocr_image_text", "map_place_state"}),
         dense |-> any({"video_frames", "captions_transcript", "stt_asr"}),
         api |-> any({"structured_data"}), heavy |-> any({"stt_asr", "tts_detection", "audio_events"})]

\* Pictures need a browser, frames alone do not ask for one.
TriesTier0(t) == t.auto /\ InferShapes(t) \cap {"ui_screenshot", "ocr_image_text", "map_place_state"} = {}

-----------------------------------------------------------------------------
(* Tier 0                                                                  *)

\* Only the host of the run's own url, and those below it.
DomainAllowed(u) == IsSuffix(Site[task.url].host, Site[u].host)

\* Bytes are counted where the connection's certificate is bound to the capture,
\* characters otherwise.
WithinCap(u) == (IF task.bound THEN Site[u].bytes ELSE Site[u].chars) <= MaxBytes

\* Nothing to read before a browser has rendered it.
ClientRenderedShell(u) == Site[u].text = "none" \/ (Site[u].text = "short" /\ Site[u].mount)

Redirects(u) == Site[u].status = 302 /\ Site[u].to # ""
Acquired(u) == Site[u].status = 200 /\ Site[u].html /\ WithinCap(u) /\ ~ClientRenderedShell(u)

BrowserlessInit ==
    /\ task \in Tasks
    /\ step = IF TriesTier0(task) THEN "request" ELSE "browser"
    /\ hop = task.url /\ asked = <<>> /\ got = {}
    /\ met = {} /\ replan = {} /\ attempts = <<>>

Keep(kind) == got' = got \cup {[kind |-> kind, by |-> "http", url |-> Last(asked)]}

\* One GET of a hop that the fence lets pass.
Request ==
    /\ step = "request" /\ Len(asked) <= MaxRedirects
    /\ Site[hop].http /\ DomainAllowed(hop)
    /\ asked' = Append(asked, hop)
    /\ IF Redirects(hop) THEN hop' = Site[hop].to /\ UNCHANGED step
       ELSE step' = (IF Acquired(hop) THEN "page" ELSE "browser") /\ UNCHANGED hop
    /\ UNCHANGED <<task, got, met, replan, attempts>>

\* The page, then what is derived from it (its facts may be none).
Derive ==
    \/ step = "page" /\ Keep("page") /\ step' \in {"transcript", "structured"}
    \/ step = "transcript" /\ Keep("transcript") /\ step' = "structured"
    \/ step = "structured" /\ (Keep("structured") \/ UNCHANGED got) /\ step' = "classify"

DeriveNext == Derive /\ UNCHANGED <<task, hop, asked, met, replan, attempts>>

\* A hop that is fenced off, no http url or one too many; a timeout or an error
\* anywhere, also in writing: what was written stays, and the browser takes over.
Declines ==
    /\ step \in {"request", "page", "transcript", "structured"}
    /\ step' = "browser"
    /\ UNCHANGED <<task, hop, asked, got, met, replan, attempts>>

-----------------------------------------------------------------------------
(* The page's obstructions and the plan that is made of them                *)

Signals == [login_wall |-> {"log in to continue", "continue with google"},
            app_interstitial |-> {"open app to continue", "get the app"},
            bot_block |-> {"captcha", "pardon our interruption"},
            region_gate |-> {"not available in your country"}, age_gate |-> {"confirm your age"},
            media_unavailable |-> {"video unavailable", "could not load"}]

Weak == {"get the app", "could not load"}

\* Weak signals count on social platforms only.
ClassifyBrowserObstructions(shows, social) ==
    {kind \in DOMAIN Signals : Signals[kind] \cap (IF social THEN shows ELSE shows \ Weak) # {}}

\* Mutant: an app's interstitial hides a wall behind it.
ObservedFailure_AppFirst(kinds) ==
    IF kinds \cap {"app_interstitial", "media_unavailable"} # {} THEN "browser_blocked"
    ELSE IF "bot_block" \in kinds THEN "captcha_or_challenge"
    ELSE IF kinds # {} THEN "login_or_paywall"
    ELSE "none"

ObservedFailure(kinds) ==
    IF "bot_block" \in kinds THEN "captcha_or_challenge"
    ELSE IF kinds \cap {"login_wall", "age_gate", "region_gate"} # {} THEN "login_or_paywall"
    ELSE IF kinds \cap {"app_interstitial", "media_unavailable"} # {} THEN "browser_blocked"
    ELSE "none"

Terminal == {"login_or_paywall", "captcha_or_challenge"}
Method(key, phase, tier, status) == [key |-> key, phase |-> phase, tier |-> tier, status |-> status]

\* No caller allows an external bridge or asks for a bulk collection.
PlanAcquisitionMethods(t, failure) ==
    LET endpoint == IF t.endpoint = "none" THEN <<>> ELSE <<Method("public_endpoint", 0, t.endpoint, "try")>>
        direct == <<Method("discovery", 1, "feed", "try"), Method("tier0", 1, "http_fetch", "try"),
                    Method("extract", 1, "model_extract", "conditional"), Method("browser", 2, "headed", "try")>>
        consented == IF failure \in Terminal THEN <<Method("consented_profile", 3, "profile", "terminal")>> ELSE <<>>
    IN  [failure |-> failure,
         methods |-> endpoint \o direct \o consented \o <<Method("byo", 4, "byo_capture", "conditional")>>,
         escalates |-> failure \notin Terminal]

ShouldAttemptPublicGateway(plan) ==
    /\ plan.failure \notin Terminal \cup {"none"}
    /\ \E m \in ToSet(plan.methods) : m.tier = "feed" /\ m.status = "try"

\* Not this machine, not its network.
IsPublicHttpUrl(u) ==
    LET s == Site[u]
    IN  /\ s.http
        /\ IF s.v4 # <<>> THEN /\ s.v4[1] \notin {0, 10, 127} /\ s.v4[1] < 224
                               /\ ~(s.v4[1] = 172 /\ s.v4[2] \in 16..31)
                               /\ s.v4 \notin {<<192, 168>>, <<169, 254>>}
           ELSE IF s.v6 # "" THEN s.v6 \notin {"::1", "fc", "fd", "fe80"}
           ELSE Last(s.host) \notin {"localhost", "local"} /\ Len(s.host) > 1

\* The text of the page that plain HTTP brought, of the browser's, or of none,
\* where the capture failed, decides what the run tries yet.
Classify ==
    /\ step \in {"browser", "classify"}
    /\ \E shows \in Screens :
          LET kinds == ClassifyBrowserObstructions(shows, task.social)
              plan == PlanAcquisitionMethods(task, ObservedFailure(kinds))
          IN  /\ met' = kinds
              /\ replan' = IF kinds = {} THEN {} ELSE {plan}
              /\ step' = IF kinds # {} /\ ShouldAttemptPublicGateway(plan) /\ IsPublicHttpUrl(task.url)
                         THEN "reader" ELSE "done"
    /\ UNCHANGED <<task, hop, asked, got, attempts>>

-----------------------------------------------------------------------------
(* The gateways: a reader, then an archive that is first asked for its      *)
(* latest snapshot.                                                         *)

ChallengeSignals == {"log in to continue", "captcha"}

\* Enough text, and not the text of a wall.
Recovered(a) ==
    a.ok /\ a.size <= MaxBytes /\ a.text = "long" /\ a.shows \cap ChallengeSignals = {}

Attempted(key, status) == attempts' = Append(attempts, <<key, status>>)

\* A refusal, a timeout, an error: the next one, if there is one.
TryGateway(key, at, next) ==
    /\ step = at
    /\ \/ \E a \in Answers :
            IF Recovered(a)
            THEN /\ got' = got \cup {[kind |-> "page", by |-> key, url |-> task.url]}
                 /\ Attempted(key, "ok") /\ step' = "done"
            ELSE Attempted(key, "declined") /\ step' = next /\ UNCHANGED got
       \/ Attempted(key, "error") /\ step' = next /\ UNCHANGED got
    /\ UNCHANGED <<task, hop, asked, met, replan>>

\* A snapshot is usable on the archive's own host only.
AskAvailability ==
    /\ step = "archive"
    /\ \/ \E a \in Answers : /\ a.ok /\ a.usable
                             /\ step' = "snapshot" /\ UNCHANGED attempts
       \/ \E status \in {"declined", "error"} : Attempted("wayback_latest", status) /\ step' = "done"
    /\ UNCHANGED <<task, hop, asked, got, met, replan>>

BrowserlessNext ==
    \/ Request
    \/ DeriveNext
    \/ Declines
    \/ Classify
    \/ TryGateway("jina_reader", "reader", "archive")
    \/ AskAvailability
    \/ TryGateway("wayback_latest", "snapshot", "done")

-----------------------------------------------------------------------------

By(who) == {p \in got : p.by = who}

\* However a site redirects, the run asks only its own host over http, a bounded
\* number of times, and what it keeps is from the last answer, a fitting page.
\* (http-tier0-capture.ts:170-204)
StaysWithinFence ==
    /\ Len(asked) <= MaxRedirects + 1
    /\ \A i \in DOMAIN asked : Site[asked[i]].http /\ DomainAllowed(asked[i])
    /\ \A p \in By("http") : p.url = Last(asked) /\ Acquired(p.url)

\* An access wall among the obstructions, alone or with others, ends what the run
\* tries on its own, be it in the browser's page or in one that plain HTTP brought:
\* no gateway is asked, and the plan says consent or BYO; any other obstruction of
\* a public page is taken to a gateway, and a private address to none.
\* (evidence-runner.ts:282-341 and 516-541)
WallsEndIt ==
    LET wall == met \cap {"bot_block", "login_wall", "age_gate", "region_gate"} # {}
        plan == CHOOSE p \in replan : TRUE
        terminal == {m \in ToSet(plan.methods) : m.status = "terminal"}
    IN  /\ met = {} <=> replan = {}
        /\ wall => attempts = <<>> /\ terminal # {} /\ ~plan.escalates
        /\ met # {} /\ ~wall => terminal = {} /\ plan.escalates
        /\ step = "done" /\ met # {} /\ ~wall => (attempts # <<>> <=> IsPublicHttpUrl(task.url))
        /\ met # {} => \A i, k \in DOMAIN plan.methods : i < k => plan.methods[i].phase <= plan.methods[k].phase

\* One gateway's text at most, from the last of the attempts, which alone
\* succeeded, beside the page of the run itself or instead of it.
\* (public-gateway-capture.ts:78-96)
OneGateway ==
    /\ \A i \in DOMAIN attempts : attempts[i][2] = "ok" => i = Len(attempts) /\ By(attempts[i][1]) # {}
    /\ Cardinality(By("jina_reader") \cup By("wayback_latest")) =
           Cardinality({i \in DOMAIN attempts : attempts[i][2] = "ok"})
    /\ Cardinality({attempts[i][1] : i \in DOMAIN attempts}) = Len(attempts)

\* What the profile recommends for pictures to be read is what the run arranges:
\* tier 0, which has no pictures, is left out.
PicturesAreSeen == RecommendedOptions(task).ocr => asked = <<>> /\ By("http") = {}

ComesByItHonestly == StaysWithinFence /\ WallsEndIt /\ OneGateway /\ PicturesAreSeen

=============================================================================
