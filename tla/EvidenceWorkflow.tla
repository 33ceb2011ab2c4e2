-------------------------- MODULE EvidenceWorkflow --------------------------
(***************************************************************************)
(* One call of runEvidenceWorkflow (src/evidence-runner.ts) with the       *)
(* captures it makes.  The stages still to run are a sequence; a stage is  *)
(* begun (runStage looks at the abort signal), works, and then succeeds,   *)
(* fails, or is given up because of the abort while its work goes on.      *)
(***************************************************************************)
EXTENDS Naturals, Sequences, FiniteSets, Functions

CONSTANTS
    Options    \* bound: the options a run may be started with

ASSUME OptionsAssumption == \A o \in Options :
    /\ {o.tier0, o.cache, o.ownsPool, o.waits, o.dense, o.ocr, o.api, o.gate} \subseteq BOOLEAN
    /\ o.frames \in {"unset", "on", "off"}
    /\ o.profile \in {"none", "storage_state", "persistent"}  \* of a named profile
    /\ o.cache => o.profile = "none"
    /\ o.shapes \subseteq {"ui_screenshot", "ocr_image_text", "map_place_state", "video_frames"}

VARIABLES
    opt,       \* the options, after the intent profile has had its say
    todo,      \* the stages still to run, the one under way first
    busy,      \* the first stage has begun
    aborted,   \* "no", "early" or, after the final report, "late"
    lease,     \* "none", "active", "expired" or "released"
    open,      \* the lease's browser context is open
    engine,    \* the pool's browser runs
    rows,      \* the artifact ledger
    kept,      \* the rows the workflow holds on to, for the claims
    claims,    \* the claims file: what each claim cites, and its label
    source,    \* capturedViaHttp, capturedViaCache: "http", "cache" or "browser"
    verdict,   \* of the claim gate: "none", "ok" or "rejected"
    late,      \* work given up by an abort that still goes on
    outcome    \* "running", "completed", "aborted" or "failed"

control == <<todo, busy, outcome>>
browserVars == <<lease, open, engine>>
evidence == <<rows, kept, claims, source, verdict>>
vars == <<opt, aborted, late, control, browserVars, evidence>>

Row(group, status) == [group |-> group, status |-> status]

-----------------------------------------------------------------------------
\* The stages, in order.
Opening == <<"setup", "capability", "source_strategy", "method_plan", "source_registry",
             "intent_profile", "api_readiness", "official_api">>

Attempts(o) == (IF o.tier0 THEN <<"http_tier0">> ELSE <<>>)
            \o (IF o.cache THEN <<"cache_replay">> ELSE <<>>)

Browsing(o) == <<"prewarm", "acquire_context", "open_page">>
            \o (IF o.waits THEN <<"wait">> ELSE <<>>)
            \o <<"overlay_dismissal", "overlay_artifact", "page_capture", "run_meta">>
            \o (IF o.cache THEN <<"cache_store">> ELSE <<>>)

Sampling(o) == IF o.frames = "off" THEN <<>>
              ELSE <<"wait_for_selector", "frame_sampling">>
                \o (IF o.dense THEN <<"dense_frames", "scene_frames">> ELSE <<>>)

Reading(o) == <<"ocr">>
           \o (IF o.dense /\ o.ocr THEN <<"ocr_hit_frames", "ocr_dense">> ELSE <<>>)
           \o <<"structured", "client_state", "release">>

Analyses == <<"trend_analysis", "search_candidates", "search_strategy", "deepening_ledger",
              "obstructions", "runtime_plan", "public_gateway">>

Closing(o) == <<"assessment", "claims">> \o (IF o.gate THEN <<"claim_gate">> ELSE <<>>)
           \o <<"final_report", "metrics">>

\* captureBrowserEvidence: its try block, then its finally block.
CaptureStages(o) ==
    Attempts(o) \o Browsing(o) \o Sampling(o) \o Reading(o) \o <<"finally">>

\* applyIntentProfileRuntimeOptions: what the question needs overrides the options.
Visual == {"ui_screenshot", "ocr_image_text", "map_place_state"}
RuntimeOptions(o) ==
    LET visual == o.shapes \cap Visual # {}
    IN  [o EXCEPT !.tier0 = @ /\ ~visual,
                  !.cache = @ /\ ~visual,
                  !.ocr = @ \/ o.shapes \cap {"ocr_image_text", "map_place_state"} # {},
                  !.frames = IF @ = "unset" /\ "video_frames" \in o.shapes THEN "on" ELSE @]

\* Leaving the try block: only the finally block and what follows it remain.
ToFinish == <<"finally">> \o Analyses \o Closing(opt)

Framing == {"wait_for_selector", "frame_sampling", "dense_frames", "scene_frames"}

\* The rest after the frames have failed: the catch block around them.
AfterFrames == Reading(opt) \o ToFinish

Init ==
    /\ opt \in {RuntimeOptions(o) : o \in Options}
    /\ todo = Opening \o CaptureStages(opt) \o Analyses \o Closing(opt)
    /\ busy = FALSE /\ aborted = "no"
    /\ lease = "none" /\ open = FALSE /\ engine = ~opt.ownsPool
    /\ rows = {} /\ kept = {} /\ claims = {} /\ source = "browser" /\ verdict = "none"
    /\ late = {} /\ outcome = "running"

-----------------------------------------------------------------------------
\* How each stage treats the abort signal and errors.

\* No runStage call: the signal is not looked at when they begin.
Unchecked == {"run_meta", "frame_failure", "client_state", "release", "capture_failure", "finally", "metrics"}

\* withAbort around the write of a bundle or of the claims: the abort ends the
\* stage, the write goes on.
RacedWrites == {"capability", "source_strategy", "method_plan", "source_registry", "intent_profile",
                "overlay_artifact", "page_capture", "frame_sampling", "dense_frames", "scene_frames",
                "ocr_hit_frames", "structured", "search_strategy", "deepening_ledger",
                "runtime_plan", "assessment", "claims"}

\* Mutant: the wait for the page to settle does not watch the signal.
RacedWaits_NotWait == {"setup", "official_api", "http_tier0", "open_page", "overlay_dismissal",
               "run_meta", "wait_for_selector", "ocr", "ocr_dense", "trend_analysis",
               "search_candidates", "obstructions", "public_gateway", "claim_gate",
               "final_report", "metrics"}

\* Stages that wait under the signal without writing to the ledger meanwhile, at
\* least for a part of their work (see Deaf).
RacedWaits == {"setup", "official_api", "http_tier0", "open_page", "wait", "overlay_dismissal",
               "run_meta", "wait_for_selector", "ocr", "ocr_dense", "trend_analysis",
               "search_candidates", "obstructions", "public_gateway", "claim_gate",
               "final_report", "metrics"}

\* Mutant: the report is written outside the race.
EndsRaced_NotReport == (RacedWrites \ ({"overlay_artifact", "page_capture"} \cup Framing))
                \cup {"setup", "wait", "run_meta", "wait_for_selector", "claim_gate", "metrics"}

\* Stages that end in the race itself: once aborted, they return nothing.  The
\* others still write a last row, or record a failure, that nothing races.
EndsRaced == (RacedWrites \ ({"overlay_artifact", "page_capture"} \cup Framing))
                \cup {"setup", "wait", "run_meta", "wait_for_selector", "claim_gate",
                      "final_report", "metrics"}

\* A catch block around the stage hides every error, the abort's as well.
Swallowed == {"run_meta", "cache_store", "structured", "client_state", "release", "metrics"}

\* These turn every error into a refusal of their own, the abort's as well.
Declines == {"http_tier0", "public_gateway"}

\* Calls of the pool that first ask whether the lease is active.
AsksLease == {"open_page", "wait", "overlay_dismissal", "wait_for_selector", "frame_sampling",
              "dense_frames", "scene_frames", "ocr_hit_frames", "client_state"}

\* Stages that run only when what came before calls for them.
Optional == {"dense_frames", "scene_frames", "ocr_hit_frames", "structured", "client_state",
             "runtime_plan", "public_gateway"}
CalledFor(s) ==
    CASE s = "ocr_hit_frames" -> \E r \in kept : r.group = "frame"
      [] s = "runtime_plan" -> \E r \in kept : r.group = "obstructions"
      [] s = "public_gateway" -> \E r \in kept : r.group = "runtime_plan"
      [] OTHER -> TRUE

-----------------------------------------------------------------------------
\* The rows a stage may append, of those that a claim or a later stage asks for.
Either(group) == {{Row(group, "ok")}, {Row(group, "partial")}}

Yields(s) ==
    CASE s \in {"capability", "assessment"} -> {{Row(s, "ok")}}
      [] s \in {"api_readiness", "public_gateway"} -> {{}, {Row(s, "ok")}}
      [] s = "obstructions" -> {{}, {Row(s, "partial")}}
      [] s \in {"runtime_plan", "frame_failure"} -> {{Row(s, "partial")}}
      [] s = "official_api" -> IF opt.api THEN {{}} \cup Either(s) ELSE {{}}
      [] s \in {"frame_sampling", "dense_frames", "scene_frames", "ocr_hit_frames"} -> Either("frame")
      [] s \in {"ocr", "ocr_dense"} -> IF opt.ocr THEN Either("ocr") ELSE {{}}
      [] s = "page_capture" -> Either("page_browser")
      [] s = "capture_failure" -> {{Row("page_failure", "partial")}}
      [] OTHER -> {{}}

\* What captureBrowserEvidence returns from its catch block: of the capture
\* only the failure's own rows and those of the frames that failed.
Forgotten == {"page_http", "page_cache", "page_browser", "frame", "ocr"}

AfterError == {r \in kept : r.group \notin Forgotten}

-----------------------------------------------------------------------------
\* buildClaims.  A claim names the row it cites and how it was verified.
Held(group) == {r \in kept : r.group = group}
Pages == UNION {Held(g) : g \in {"page_http", "page_cache", "page_browser", "page_failure"}}
Cites(about, some, level) == {[about |-> about, row |-> r, level |-> level] : r \in some}

FramesFine == Held("frame") # {} /\ \A r \in Held("frame") : r.status = "ok"

\* frameResult's rows, else those of the failure, else the assessment.
FrameRecords == IF Held("frame") # {} THEN Held("frame") ELSE Held("frame_failure")
FallbackFrame == IF FrameRecords # {} THEN FrameRecords ELSE Held("assessment")

\* Mutant: a replayed page is labelled as if this run had rendered it.
PageLevel_Seen == IF source = "http" THEN "http_fetch" ELSE "browser_visible"
PageLevel == CASE source = "cache" -> "cached_capture"
               [] source = "http" -> "http_fetch"
               [] OTHER -> "browser_visible"

FrameClaim == IF FramesFine /\ opt.frames # "off" THEN Cites("frames", Held("frame"), "visual")
              ELSE Cites("frames", FallbackFrame, "inferred")

OcrOk == {r \in Held("ocr") : r.status = "ok"}
OcrClaim == IF OcrOk # {} THEN Cites("ocr", OcrOk, "ocr_extracted")
            ELSE Cites("ocr", Held("ocr"), "unverified")

BuildClaims ==
    Cites("capability", Held("capability"), "verified")
      \cup Cites("page", Pages, PageLevel)
      \cup FrameClaim
      \cup Cites("audio", Held("assessment"), "unverified")
      \cup Cites("api", Held("official_api"), "official_api")
      \cup OcrClaim
      \cup Cites("obstruction", Held("obstructions"), "browser_visible")
      \cup Cites("gateway", Held("public_gateway"), "grounded")
      \cup Cites("readiness", Held("api_readiness"), "grounded")

\* Three captures write files of the same names: a later one puts its bytes
\* under the earlier one's rows.
Overwritten == {r \in rows : r.group = "page_http" /\ \E q \in rows : q.group = "page_browser"}

\* runClaimGate in final mode, as far as the workflow can disappoint it.
GateAccepts ==
    /\ claims # {} /\ Overwritten = {}
    /\ \A c \in claims : c.row \in rows
    /\ \A c \in claims : c.level = "visual" => c.row.group = "frame"

-----------------------------------------------------------------------------
Ends(s) == busy /\ busy' = FALSE
Returns(s) == Ends(s) /\ (aborted = "no" \/ s \notin EndsRaced)

\* The next stage, and the same with nothing learnt from this one.
Continue == todo' = Tail(todo) /\ UNCHANGED outcome
Appends(new) == rows' = rows \cup new /\ kept' = kept \cup new

\* An error leaves captureBrowserEvidence through its finally block.
InCapture == "finally" \in Range(todo) /\ Head(todo) \notin Range(Opening)
Throw(kind) == todo' = (IF InCapture THEN <<"finally", kind>> ELSE <<kind>>) /\ UNCHANGED outcome

\* runStage finds no abort and calls the stage's work.
Begin(s) ==
    /\ ~busy
    /\ aborted = "no" \/ s \in Unchecked
    /\ s \in Optional => CalledFor(s)
    /\ busy' = TRUE
    /\ UNCHANGED <<opt, aborted, late, todo, outcome, browserVars, evidence>>

\* runStage finds the abort: the stage never starts.
StopsAtCheck(s) ==
    /\ ~busy /\ aborted # "no" /\ s \notin Unchecked
    /\ IF s \in Swallowed THEN Continue ELSE Throw("aborted")
    /\ UNCHANGED <<opt, aborted, late, busy, browserVars, evidence>>

\* Nothing calls for the stage: no cue or scene was hit, nothing structured was
\* found, no obstruction was met.  Without frames at a hit there is no OCR of them.
Skip(s) ==
    /\ ~busy /\ s \in Optional
    /\ todo' = IF s = "ocr_hit_frames" /\ Head(Tail(todo)) = "ocr_dense" THEN Tail(Tail(todo)) ELSE Tail(todo)
    /\ UNCHANGED outcome
    /\ UNCHANGED <<opt, aborted, late, busy, browserVars, evidence>>

\* Stages whose success is the rows they append.
Plain == Range(Opening \o Analyses) \cup {"run_meta", "cache_store", "wait", "overlay_dismissal",
            "overlay_artifact", "wait_for_selector", "frame_sampling", "dense_frames", "scene_frames",
            "frame_failure", "ocr", "ocr_hit_frames", "ocr_dense", "structured", "client_state",
            "assessment", "metrics"}

Succeeds(s) ==
    /\ Returns(s) /\ s \in Plain
    /\ s \in AsksLease => lease = "active" /\ open
    /\ \E new \in Yields(s) : Appends(new)
    /\ Continue
    /\ UNCHANGED <<opt, aborted, late, browserVars, claims, source, verdict>>

-----------------------------------------------------------------------------
\* httpTier0Capture: the page, then what is derived from it.  An error after the
\* first bundle declines the capture although its rows are in the ledger.
Tier0(s) ==
    /\ Returns(s) /\ s = "http_tier0"
    /\ \/ /\ Appends({Row("page_http", "ok")})
          /\ source' = "http"
          /\ todo' = ToFinish
       \/ /\ rows' = rows \cup {Row("page_http", "ok")}
          /\ todo' = Tail(todo)
          /\ UNCHANGED <<kept, source>>
       \/ /\ todo' = Tail(todo)
          /\ UNCHANGED <<rows, kept, source>>
    /\ UNCHANGED <<opt, aborted, late, outcome, browserVars, claims, verdict>>

\* tryReplayCachedCapture: a hit stands for the capture, a miss goes on.
Replay(s) ==
    /\ Returns(s) /\ s = "cache_replay"
    /\ \/ /\ Appends({Row("page_cache", "ok")})
          /\ source' = "cache"
          /\ todo' = ToFinish
       \/ /\ todo' = Tail(todo)
          /\ UNCHANGED <<rows, kept, source>>
    /\ UNCHANGED <<opt, aborted, late, outcome, browserVars, claims, verdict>>

Prewarm(s) ==
    /\ Returns(s) /\ s = "prewarm"
    /\ engine' = TRUE
    /\ Continue
    /\ UNCHANGED <<opt, aborted, late, lease, open, evidence>>

AcquireContext(s) ==
    /\ Returns(s) /\ s = "acquire_context"
    /\ lease' = "active"
    /\ Continue
    /\ UNCHANGED <<opt, aborted, late, open, engine, evidence>>

\* openPage creates the context; a page that cannot be opened leaves it there.
OpenPage(s) ==
    /\ Returns(s) /\ s = "open_page"
    /\ lease = "active"
    /\ open' = TRUE
    /\ Continue
    /\ UNCHANGED <<opt, aborted, late, lease, engine, evidence>>

\* capturePage records its own failure as the page's evidence.
PageCapture(s) ==
    /\ Returns(s) /\ s = "page_capture" /\ lease = "active" /\ open
    /\ \E new \in Yields(s) : Appends(new)
    /\ Continue
    /\ UNCHANGED <<opt, aborted, late, browserVars, claims, source, verdict>>

\* The catch block of captureBrowserEvidence: what is returned is the failure.
CaptureFailure(s) ==
    /\ Returns(s) /\ s = "capture_failure"
    /\ \E new \in Yields(s) : rows' = rows \cup new /\ kept' = AfterError \cup new
    /\ Continue
    /\ UNCHANGED <<opt, aborted, late, browserVars, claims, source, verdict>>

\* pool.releaseContext: the lease is released, its context closed.  The state of a
\* named profile is saved first; when its directory cannot be made, the pool drops
\* the context without closing it.  The workflow swallows that error.
ClosedUnlessUnsaved == IF opt.profile = "none" THEN {FALSE} ELSE {open, FALSE}
Released == lease' = "released" /\ open' \in ClosedUnlessUnsaved
Release(s) ==
    /\ Returns(s) /\ s = "release"
    /\ Released
    /\ Continue
    /\ UNCHANGED <<opt, aborted, late, engine, evidence>>

\* Mutant: only a lease that is still active is given back.
Finally_ActiveOnly(s) ==
    /\ Returns(s) /\ s = "finally"
    /\ IF lease = "active" THEN Released ELSE UNCHANGED <<lease, open>>
    /\ engine' = (engine /\ ~opt.ownsPool)
    /\ Continue
    /\ UNCHANGED <<opt, aborted, late, evidence>>

\* The finally block: the lease if it is still there (a release that failed is not
\* tried again), the pool if it is ours.  With the pool's browser go its contexts,
\* but a persistent profile runs in a browser of its own.
Finally(s) ==
    /\ Returns(s) /\ s = "finally"
    /\ lease' = IF lease \in {"active", "expired"} THEN "released" ELSE lease
    /\ open' \in IF opt.ownsPool /\ opt.profile # "persistent" THEN {FALSE}
                ELSE IF lease' # lease THEN ClosedUnlessUnsaved ELSE {open}
    /\ engine' = (engine /\ ~opt.ownsPool)
    /\ Continue
    /\ UNCHANGED <<opt, aborted, late, evidence>>

AppendClaims(s) ==
    /\ Returns(s) /\ s = "claims"
    /\ claims' = BuildClaims
    /\ Continue
    /\ UNCHANGED <<opt, aborted, late, browserVars, rows, kept, source, verdict>>

ClaimGate(s) ==
    /\ Returns(s) /\ s = "claim_gate"
    /\ verdict' = IF GateAccepts THEN "ok" ELSE "rejected"
    /\ Continue
    /\ UNCHANGED <<opt, aborted, late, browserVars, rows, kept, claims, source>>

FinalReport(s) ==
    /\ Returns(s) /\ s = "final_report"
    /\ Continue
    /\ UNCHANGED <<opt, aborted, late, browserVars, evidence>>

-----------------------------------------------------------------------------
\* Where an error other than the abort leads.
Fail(s) ==
    \/ s \in Swallowed \cup Declines \cup {"overlay_dismissal"} /\ Continue
    \/ s \in Framing /\ todo' = <<"frame_failure">> \o AfterFrames /\ UNCHANGED outcome
    \/ /\ InCapture
       /\ s \notin Swallowed \cup Declines \cup Framing \cup {"overlay_dismissal", "capture_failure", "finally"}
       /\ todo' = <<"capture_failure">> \o ToFinish /\ UNCHANGED outcome
    \/ /\ ~InCapture \/ s = "capture_failure"
       /\ s \notin Swallowed \cup Declines
       /\ Throw("failed")

\* A page that openPage failed to open leaves the context it has made.
Fails(s) ==
    /\ Returns(s) /\ s \notin {"release", "finally"}
    /\ Fail(s)
    /\ IF s = "open_page" THEN open' \in {open, TRUE} ELSE UNCHANGED open
    /\ UNCHANGED <<opt, aborted, late, lease, engine, evidence>>

\* The abort ends the stage.  openPage dresses the abort of its navigation as an
\* error of its own, so that one is handled as a failed capture.
Interrupted(s) ==
    /\ Ends(s) /\ aborted # "no" /\ s \in RacedWrites \cup RacedWaits
    /\ IF s \in Swallowed \cup Declines THEN Continue
       ELSE IF s = "open_page" THEN Throw("aborted") \/ Fail(s)
       ELSE Throw("aborted")
    /\ late' = late \cup ({s} \cap RacedWrites)
    /\ IF s = "open_page" THEN open' \in {open, TRUE} ELSE UNCHANGED open
    /\ UNCHANGED <<opt, aborted, lease, engine, evidence>>

\* The work that was given up goes on, and writes after all (or fails unseen).
LateWork(s) ==
    /\ s \in late
    /\ late' = late \ {s}
    /\ \/ s = "claims" /\ claims' = BuildClaims /\ UNCHANGED rows
       \/ /\ s # "claims"
          /\ \E new \in Yields(s) : rows' = rows \cup new
          /\ UNCHANGED claims
       \/ UNCHANGED <<rows, claims>>
    /\ UNCHANGED <<opt, aborted, control, browserVars, kept, source, verdict>>

-----------------------------------------------------------------------------
\* Somebody cancels the run; the signal stays aborted.
Abort ==
    /\ outcome = "running" /\ aborted = "no"
    /\ aborted' = IF "final_report" \in Range(todo) THEN "early" ELSE "late"
    /\ UNCHANGED <<opt, late, control, browserVars, evidence>>

\* Nobody renews the lease, whose ttl is 180 s; the reaper of a shared pool
\* closes the context of an overdue lease.
LeaseExpires ==
    /\ lease = "active"
    /\ lease' = "expired"
    /\ open' \in (IF opt.ownsPool THEN {open} ELSE {open, FALSE})
    /\ UNCHANGED <<opt, aborted, late, control, engine, evidence>>

\* An error on its way out is the last thing to do.
Rethrown == {"aborted", "failed"}

\* The error reaches the caller, or the result does.
Settle ==
    /\ outcome = "running" /\ ~busy
    /\ \/ todo = <<>> /\ outcome' = "completed" /\ UNCHANGED todo
       \/ todo # <<>> /\ Head(todo) \in Rethrown /\ outcome' = Head(todo) /\ todo' = <<>>
    /\ UNCHANGED <<opt, aborted, late, busy, browserVars, evidence>>

StageEnds(s) ==
    \/ Succeeds(s) \/ Tier0(s) \/ Replay(s) \/ Prewarm(s) \/ AcquireContext(s) \/ OpenPage(s)
    \/ PageCapture(s) \/ CaptureFailure(s) \/ Release(s) \/ Finally(s)
    \/ AppendClaims(s) \/ ClaimGate(s) \/ FinalReport(s)
    \/ Fails(s)

\* The stage to do now, if there is one.
Now == IF outcome # "running" \/ todo = <<>> THEN {} ELSE {Head(todo)} \ Rethrown

Next ==
    \/ \E s \in Now : Begin(s) \/ StopsAtCheck(s) \/ Skip(s) \/ StageEnds(s) \/ Interrupted(s)
    \/ \E s \in late : LateWork(s)
    \/ Abort
    \/ LeaseExpires
    \/ Settle

Spec == Init /\ [][Next]_vars

\* Work that does not watch the signal and comes back, as it is short or has a
\* timeout.
Prompt == {"api_readiness", "cache_replay", "cache_store", "prewarm", "acquire_context",
           "frame_failure", "release", "capture_failure", "finally"}

\* Work that has neither the signal nor a timeout: reading the client state, and
\* making and ending the OCR engine's worker, around recognitions that have both.
Deaf == {"client_state"} \cup (IF opt.ocr THEN {"ocr", "ocr_dense"} ELSE {})

\* The workflow goes on by itself, and what the abort interrupts comes back.
\* Work that watches the signal may otherwise take for ever.
FairSpec ==
    /\ Spec
    /\ WF_vars(\E s \in Now : Begin(s) \/ StopsAtCheck(s) \/ Skip(s))
    /\ WF_vars(\E s \in Now \cap Prompt : StageEnds(s))
    /\ WF_vars(\E s \in Now \ Deaf : Interrupted(s))
    /\ WF_vars(Settle)

-----------------------------------------------------------------------------
\* A named profile whose state could not be saved keeps its context, unless it goes
\* with the browser of the run's own pool.
MayStayOpen == opt.profile = "persistent" \/ (opt.profile = "storage_state" /\ ~opt.ownsPool)

\* Whatever way the run ends (a result, an error, an abort at any point), its
\* lease has been given back, a pool of its own has been shut down, and its
\* context is closed, that of a named profile excepted, whose failed release is
\* swallowed and not tried again. (evidence-runner.ts:974-975 and 1013-1020)
NothingLeftOpen ==
    outcome # "running" => /\ lease \in {"none", "released"}
                           /\ opt.ownsPool => ~engine
                           /\ open => MayStayOpen

\* A claim never cites what is not in the ledger, and is never labelled better
\* than its row: fetched, replayed and rendered pages are told apart, a visual
\* claim rests on frames that were all sampled well.  It holds for claims that
\* are written after the run has been aborted as well.
ClaimsHonest ==
    \A c \in claims :
        /\ c.row \in rows
        /\ c.about = "page" => c.level =
               CASE c.row.group = "page_http" -> "http_fetch"
                 [] c.row.group = "page_cache" -> "cached_capture"
                 [] OTHER -> "browser_visible"
        /\ c.level \in {"visual", "ocr_extracted"} => c.row.status = "ok"

\* A run that was cancelled before its report was written never completes
\* (cancel of the scheduler relies on it), and what a completed run has in its
\* ledger and its claims is final: no work it gave up is still to write.
AbortHonoured == outcome = "completed" => aborted # "early" /\ late = {}

\* The final gate accepts the run the workflow has put together itself, unless
\* a tier-0 capture failed half-way and the browser then wrote over its files.
OwnRunAccepted ==
    verdict = "rejected" => Row("page_http", "ok") \in rows \ kept

\* The claims a run makes of itself say what they rest on, and stand in its gate.
\* (evidence-runner.ts:391-412, 1701-1877)
OwnClaimsStand == ClaimsHonest /\ OwnRunAccepted

\* A cancelled run ends, even if the work it waits for never does: apart from the
\* OCR engine and the client state (Deaf), no stage that may wait without end keeps
\* the run. (abort.ts:15-31, ocr.ts:119 and 220)
CancelSettles ==
    <>[](aborted = "early" => outcome # "running" \/ (busy /\ Now \cap Deaf # {}))

=============================================================================
