---------------------- MODULE EvidenceWorkflow_proofs ----------------------
(***************************************************************************)
(* What holds of every run of the evidence workflow, whatever its options.  *)
(***************************************************************************)
EXTENDS EvidenceWorkflow, SequenceTheorems, TLAPS

\* Where each stage stands in the plan.  Stages of one rank come in the order
\* of the code; no proof needs more than the ranks.
Capturing == {"wait", "overlay_dismissal", "overlay_artifact",
              "page_capture", "run_meta", "cache_store", "wait_for_selector", "frame_sampling", "dense_frames",
              "scene_frames", "frame_failure", "ocr", "ocr_hit_frames", "ocr_dense", "structured",
              "client_state", "capture_failure"}
Opened == {"setup", "capability", "source_strategy", "method_plan", "source_registry",
           "intent_profile", "api_readiness", "official_api"}
Analysed == {"trend_analysis", "search_candidates", "search_strategy", "deepening_ledger",
             "obstructions", "runtime_plan", "public_gateway", "assessment"}

Rank(s) ==
    IF s \in Opened THEN 0
    ELSE IF s = "http_tier0" THEN 1
    ELSE IF s \in {"cache_replay", "prewarm", "acquire_context"} THEN 2
    ELSE IF s = "open_page" THEN 3
    ELSE IF s \in Capturing THEN 4
    ELSE IF s = "release" THEN 5
    ELSE IF s = "finally" THEN 6
    ELSE IF s \in Analysed THEN 7
    ELSE IF s = "claims" THEN 8
    ELSE IF s = "claim_gate" THEN 9
    ELSE IF s = "final_report" THEN 10
    ELSE IF s = "metrics" THEN 11
    ELSE 12

Stage == Opened \cup Capturing \cup Analysed \cup Rethrown
            \cup {"http_tier0", "cache_replay", "prewarm", "acquire_context", "open_page", "release", "finally", "claims", "claim_gate", "final_report", "metrics"}

\* The stages left.
Left == Range(todo)

\* The stages left are in order, an error on its way out is the last; a capture
\* still has its finally block before it, and everything but an error the
\* claims and the report.
Ordered(seq) == \A i, j \in 1..Len(seq) : i < j => Rank(seq[i]) <= Rank(seq[j]) /\ seq[i] \notin Rethrown
Covered(left) ==
    /\ \A s \in left : Rank(s) \in 1..5 => "finally" \in left
    /\ \A s \in left : Rank(s) < 8 /\ s # "finally" => "claims" \in left
    /\ \A s \in left : Rank(s) < 10 /\ s # "finally" => "final_report" \in left
    /\ "finally" \in left => "final_report" \in left \/ left \cap Rethrown # {}

Planned(seq) == seq \in Seq(Stage) /\ Ordered(seq) /\ Covered(Range(seq))
PlanInv ==
    /\ Planned(todo)
    /\ outcome # "running" => todo = <<>>

\* Before the capture and after its finally block nothing is open, but for what a
\* named profile keeps.
Clean == lease \in {"none", "released"} /\ (opt.ownsPool => ~engine) /\ (open => MayStayOpen)

\* No context without a lease; after the lease, that of a named profile only.
Closed == (lease = "none" => ~open) /\ (lease = "released" /\ open => opt.profile # "none")

LeaseInv ==
    /\ lease \in {"none", "active", "expired", "released"}
    /\ opt.profile \in {"none", "storage_state", "persistent"}
    /\ Closed
    /\ "finally" \notin Left \/ Left \cap Opened # {} => Clean
    /\ "open_page" \in Left => "acquire_context" \in Left \/ lease \in {"active", "expired"}

\* An abort before the report keeps the run from getting past it.
AbortInv ==
    /\ aborted \in {"no", "early", "late"}
    /\ late # {} => aborted = "early"
    /\ late \cap {"claims", "page_capture"} # {} => Left \subseteq {"finally"} \cup Rethrown
    /\ aborted = "late" => "final_report" \notin Left
    /\ aborted = "early" =>
          /\ outcome # "completed"
          /\ outcome = "running" => Left \cap (Rethrown \cup {"final_report"}) # {}

\* What the workflow holds on to is in the ledger, and its page rows are of the
\* way the page was got.
Paged == {"page_http", "page_cache", "page_browser", "page_failure"}
EvidenceInv ==
    /\ kept \subseteq rows
    /\ \A r \in kept : /\ r.group = "page_http" => source = "http"
                       /\ r.group = "page_cache" => source = "cache"
                       /\ r.group \in {"page_browser", "page_failure"} => source = "browser"
    /\ source # "browser" => \A s \in Left : Rank(s) >= 6
    /\ Left \cap {"http_tier0", "cache_replay"} # {} => \A r \in kept : r.group \notin Paged
    /\ source = "http" \/ "http_tier0" \in Left => \A r \in rows : r.group # "page_browser"
    /\ "page_capture" \in late => source # "http"
    /\ \A r \in rows : r.group = "page_http" => r = Row("page_http", "ok")
    /\ "claims" \in Left => "capability" \in Left \/ Row("capability", "ok") \in kept

ClaimsInv ==
    /\ ClaimsHonest /\ OwnRunAccepted
    /\ \A c \in claims : c.level = "visual" => c.row.group = "frame"
    /\ verdict # "none" => \A s \in Left : Rank(s) >= 9
    /\ "claim_gate" \in Left => "claims" \in Left \/ claims # {}

WorkflowInv == PlanInv /\ LeaseInv /\ AbortInv /\ EvidenceInv /\ ClaimsInv

-----------------------------------------------------------------------------
\* The plan.

\* What the proofs need of the ranks.
LEMMA Ranks ==
    /\ \A s \in Stage : Rank(s) \in 0..12 /\ (Rank(s) = 0 <=> s \in Opened) /\ (Rank(s) = 12 <=> s \in Rethrown)
                      /\ (Rank(s) = 6 <=> s = "finally")
    /\ \A s \in Capturing : Rank(s) = 4
    /\ \A s \in Analysed : Rank(s) = 7
    /\ Rank("http_tier0") = 1 /\ Rank("cache_replay") = 2 /\ Rank("prewarm") = 2 /\ Rank("acquire_context") = 2
    /\ Rank("open_page") = 3 /\ Rank("release") = 5 /\ Rank("finally") = 6 /\ Rank("claims") = 8 /\ Rank("claim_gate") = 9
    /\ Rank("final_report") = 10 /\ Rank("metrics") = 11
  BY DEF Rank, Stage, Opened, Capturing, Analysed, Rethrown

\* A part of the plan: stages in order, of the ranks from lo to hi.
Part(seq, lo, hi) ==
    /\ seq \in Seq(Stage \ Rethrown)
    /\ \A i, j \in 1..Len(seq) : i < j => Rank(seq[i]) <= Rank(seq[j])
    /\ \A s \in Range(seq) : Rank(s) \in lo..hi

\* The first stage left, and the others.
LEMMA HeadAndTail ==
    ASSUME NEW seq \in Seq(Stage), seq # <<>>
    PROVE  /\ Tail(seq) \in Seq(Stage)
           /\ Range(seq) = {Head(seq)} \cup Range(Tail(seq))
           /\ Ordered(seq) => /\ Ordered(Tail(seq))
                              /\ \A s \in Range(Tail(seq)) : Rank(Head(seq)) <= Rank(s)
                              /\ Head(seq) \in Rethrown => Tail(seq) = <<>>
<1>1. /\ Tail(seq) \in Seq(Stage) /\ Len(seq) \in Nat \ {0} /\ Len(Tail(seq)) = Len(seq) - 1
      /\ \A i \in 1..Len(Tail(seq)) : Tail(seq)[i] = seq[i + 1]
      /\ Head(seq) = seq[1]
  BY HeadTailProperties, EmptySeq
<1>2. /\ Range(seq) = {seq[i] : i \in 1..Len(seq)}
      /\ Range(Tail(seq)) = {Tail(seq)[i] : i \in 1..Len(Tail(seq))}
  BY <1>1, RangeEquality
<1>3. Range(seq) = {Head(seq)} \cup Range(Tail(seq))
  <2>1. ASSUME NEW s \in Range(seq) PROVE s \in {Head(seq)} \cup Range(Tail(seq))
    <3>1. PICK i \in 1..Len(seq) : s = seq[i]
      BY <1>2
    <3>2. CASE i = 1
      BY <1>1, <3>1, <3>2
    <3>3. CASE i # 1
      <4>1. i - 1 \in 1..Len(Tail(seq)) /\ Tail(seq)[i - 1] = s
        BY <1>1, <3>1, <3>3
      <4> QED
        BY <1>2, <4>1
    <3> QED
      BY <3>2, <3>3
  <2>2. ASSUME NEW s \in Range(Tail(seq)) PROVE s \in Range(seq)
    <3>1. PICK i \in 1..Len(Tail(seq)) : s = Tail(seq)[i]
      BY <1>2
    <3>2. i + 1 \in 1..Len(seq) /\ seq[i + 1] = s
      BY <1>1, <3>1
    <3> QED
      BY <1>2, <3>2
  <2>3. Head(seq) \in Range(seq)
    BY <1>1, <1>2
  <2> QED
    BY <2>1, <2>2, <2>3
<1>4. ASSUME Ordered(seq)
      PROVE  /\ Ordered(Tail(seq))
             /\ \A s \in Range(Tail(seq)) : Rank(Head(seq)) <= Rank(s)
             /\ Head(seq) \in Rethrown => Tail(seq) = <<>>
  <2>1. Ordered(Tail(seq))
    <3> SUFFICES ASSUME NEW i \in 1..Len(Tail(seq)), NEW j \in 1..Len(Tail(seq)), i < j
                 PROVE  Rank(Tail(seq)[i]) <= Rank(Tail(seq)[j]) /\ Tail(seq)[i] \notin Rethrown
      BY DEF Ordered
    <3>1. i + 1 \in 1..Len(seq) /\ j + 1 \in 1..Len(seq) /\ i + 1 < j + 1
      BY <1>1
    <3> QED
      BY <1>1, <1>4, <3>1 DEF Ordered
  <2>2. ASSUME NEW s \in Range(Tail(seq)) PROVE Rank(Head(seq)) <= Rank(s) /\ Head(seq) \notin Rethrown
    <3>1. PICK i \in 1..Len(Tail(seq)) : s = Tail(seq)[i]
      BY <1>2
    <3>2. i + 1 \in 1..Len(seq) /\ 1 \in 1..Len(seq) /\ 1 < i + 1 /\ s = seq[i + 1]
      BY <1>1, <3>1
    <3> QED
      BY <1>1, <1>4, <3>2 DEF Ordered
  <2>3. Tail(seq) # <<>> => Range(Tail(seq)) # {}
    <3> SUFFICES ASSUME Tail(seq) # <<>> PROVE Tail(seq)[1] \in Range(Tail(seq))
      OBVIOUS
    <3>1. 1 \in 1..Len(Tail(seq))
      BY <1>1, EmptySeq
    <3> QED
      BY <1>2, <3>1
  <2> QED
    BY <2>1, <2>2, <2>3
<1> QED
  BY <1>1, <1>3, <1>4

\* Parts one after the other are a part.
LEMMA PartsInOrder ==
    ASSUME NEW a, NEW b, NEW lo \in Nat, NEW mid \in Nat, NEW up \in Nat, NEW hi \in Nat,
           Part(a, lo, mid), Part(b, up, hi), lo <= up, mid <= up, mid <= hi
    PROVE  Part(a \o b, lo, hi) /\ Range(a \o b) = Range(a) \cup Range(b)
<1>1. /\ a \in Seq(Stage \ Rethrown) /\ b \in Seq(Stage \ Rethrown) /\ a \o b \in Seq(Stage \ Rethrown)
      /\ Len(a) \in Nat /\ Len(b) \in Nat /\ Len(a \o b) = Len(a) + Len(b)
      /\ \A i \in 1..Len(a) + Len(b) : (a \o b)[i] = IF i <= Len(a) THEN a[i] ELSE b[i - Len(a)]
  BY ConcatProperties, LenProperties DEF Part
<1>2. Range(a \o b) = Range(a) \cup Range(b)
  BY <1>1, RangeConcatenation
<1>3. \A s \in Range(a \o b) : Rank(s) \in lo..hi
  BY <1>2 DEF Part
<1>4. ASSUME NEW i \in 1..Len(a \o b), NEW j \in 1..Len(a \o b), i < j
      PROVE  Rank((a \o b)[i]) <= Rank((a \o b)[j])
  <2>1. CASE j <= Len(a)
    <3>1. (a \o b)[i] = a[i] /\ (a \o b)[j] = a[j] /\ i \in 1..Len(a) /\ j \in 1..Len(a)
      BY <1>1, <1>4, <2>1
    <3> QED
      BY <1>4, <3>1 DEF Part
  <2>2. CASE i > Len(a)
    <3>1. /\ (a \o b)[i] = b[i - Len(a)] /\ (a \o b)[j] = b[j - Len(a)]
          /\ i - Len(a) \in 1..Len(b) /\ j - Len(a) \in 1..Len(b) /\ i - Len(a) < j - Len(a)
      BY <1>1, <1>4, <2>2
    <3> QED
      BY <3>1 DEF Part
  <2>3. CASE i <= Len(a) /\ j > Len(a)
    <3>1. /\ (a \o b)[i] = a[i] /\ (a \o b)[j] = b[j - Len(a)]
          /\ i \in 1..Len(a) /\ j - Len(a) \in 1..Len(b)
      BY <1>1, <1>4, <2>3
    <3>2. a[i] \in Range(a) /\ b[j - Len(a)] \in Range(b)
      BY <1>1, <3>1, RangeEquality
    <3> QED
      BY <3>1, <3>2 DEF Part
  <2> QED
    BY <1>1, <2>1, <2>2, <2>3
<1> QED
  BY <1>1, <1>2, <1>3, <1>4 DEF Part

\* Stages of one rank are a part, in any order.
LEMMA PartOfOneRank ==
    ASSUME NEW rank \in Nat, NEW S \in SUBSET (Stage \ Rethrown), \A s \in S : Rank(s) = rank, NEW seq \in Seq(S)
    PROVE  Part(seq, rank, rank) /\ Range(seq) \subseteq S
<1>1. Range(seq) \subseteq S
  BY RangeOfSeq
<1>2. seq \in Seq(Stage \ Rethrown)
  BY SeqMonotonic
<1>3. \A i \in 1..Len(seq) : Rank(seq[i]) = rank
  BY ElementOfSeq
<1> QED
  BY <1>1, <1>2, <1>3 DEF Part


\* A sequence that may be there or not.
LEMMA Perhaps ==
    ASSUME NEW S, NEW c, NEW seq \in Seq(S)
    PROVE  (IF c THEN seq ELSE <<>>) \in Seq(S)
  BY EmptySeq

\* The stages that close a run.
LEMMA ClosingPart == Part(Closing(opt), 7, 11) /\ {"claims", "final_report"} \subseteq Range(Closing(opt))
<1> DEFINE gate == IF opt.gate THEN <<"claim_gate">> ELSE <<>>
<1>1. Part(<<"assessment", "claims">>, 7, 8) /\ "claims" \in Range(<<"assessment", "claims">>)
  <2>1. Rank("assessment") = 7 /\ Rank("claims") = 8
    BY Ranks DEF Analysed
  <2>2. "assessment" \in Stage \ Rethrown /\ "claims" \in Stage \ Rethrown
    BY DEF Stage, Rethrown, Analysed
  <2> QED
    BY <2>1, <2>2 DEF Part, Range
<1>2. Part(gate, 9, 9)
  <2>1. gate \in Seq({"claim_gate"}) /\ {"claim_gate"} \in SUBSET (Stage \ Rethrown)
    <3>1. <<"claim_gate">> \in Seq({"claim_gate"})
      OBVIOUS
    <3>2. gate \in Seq({"claim_gate"})
      BY <3>1, Perhaps
    <3> QED
      BY <3>2 DEF Stage, Rethrown
  <2> QED
    BY <2>1, Ranks, PartOfOneRank
<1>3. Part(<<"final_report", "metrics">>, 10, 11) /\ "final_report" \in Range(<<"final_report", "metrics">>)
  <2>1. "final_report" \in Stage \ Rethrown /\ "metrics" \in Stage \ Rethrown
    BY DEF Stage, Rethrown
  <2> QED
    BY <2>1, Ranks DEF Part, Range
<1> HIDE DEF gate
<1>4. Part(<<"assessment", "claims">> \o gate, 7, 9) /\ "claims" \in Range(<<"assessment", "claims">> \o gate)
  BY <1>1, <1>2, PartsInOrder
<1>5. /\ Part((<<"assessment", "claims">> \o gate) \o <<"final_report", "metrics">>, 7, 11)
      /\ {"claims", "final_report"} \subseteq Range((<<"assessment", "claims">> \o gate) \o <<"final_report", "metrics">>)
  BY <1>3, <1>4, PartsInOrder
<1> QED
  BY <1>5 DEF Closing, gate

\* The stages from the finally block on.
LEMMA FinishingPart ==
    /\ Part(ToFinish, 6, 11)
    /\ {"finally", "claims", "final_report"} \subseteq Range(ToFinish)
    /\ Part(Analyses \o Closing(opt), 7, 11)
    /\ {"claims", "final_report"} \subseteq Range(Analyses \o Closing(opt))
<1>1. Part(<<"finally">>, 6, 6) /\ Range(<<"finally">>) = {"finally"}
  <2>1. Part(<<"finally">>, 6, 6)
    <3>1. {"finally"} \in SUBSET (Stage \ Rethrown) /\ <<"finally">> \in Seq({"finally"})
      BY DEF Stage, Rethrown
    <3> QED
      BY <3>1, Ranks, PartOfOneRank
  <2>2. Range(<<"finally">>) = {"finally"}
    BY DEF Range
  <2> QED
    BY <2>1, <2>2
<1>2. Part(Analyses, 7, 7)
  <2>1. Analyses \in Seq(Analysed) /\ Analysed \in SUBSET (Stage \ Rethrown)
    BY DEF Analyses, Analysed, Stage, Rethrown
  <2> QED
    BY <2>1, Ranks, PartOfOneRank
<1>3. Part(Closing(opt), 7, 11) /\ {"claims", "final_report"} \subseteq Range(Closing(opt))
  BY ClosingPart
<1>4. /\ Part(Analyses \o Closing(opt), 7, 11)
      /\ {"claims", "final_report"} \subseteq Range(Analyses \o Closing(opt))
  BY <1>2, <1>3, PartsInOrder
<1>5. Part(<<"finally">> \o Analyses, 6, 7) /\ "finally" \in Range(<<"finally">> \o Analyses)
  BY <1>1, <1>2, PartsInOrder
<1>6. /\ Part((<<"finally">> \o Analyses) \o Closing(opt), 6, 11)
      /\ {"finally", "claims", "final_report"} \subseteq Range((<<"finally">> \o Analyses) \o Closing(opt))
  BY <1>3, <1>5, PartsInOrder
<1> QED
  BY <1>4, <1>6 DEF ToFinish

\* The stages that read what was captured, up to the release.
LEMMA ReadingPart == Part(Reading(opt), 4, 5)
<1> DEFINE hits == IF opt.dense /\ opt.ocr THEN <<"ocr_hit_frames", "ocr_dense">> ELSE <<>>
<1>1. Capturing \in SUBSET (Stage \ Rethrown) /\ <<"ocr">> \in Seq(Capturing) /\ hits \in Seq(Capturing)
  <2>1. <<"ocr_hit_frames", "ocr_dense">> \in Seq(Capturing)
    BY DEF Capturing
  <2>2. hits \in Seq(Capturing)
    BY <2>1, Perhaps
  <2> QED
    BY <2>2 DEF Capturing, Stage, Rethrown
<1>2. Part(<<"ocr">>, 4, 4) /\ Part(hits, 4, 4)
  BY <1>1, Ranks, PartOfOneRank
<1>3. Part(<<"structured", "client_state", "release">>, 4, 5)
  <2>1. Rank("structured") = 4 /\ Rank("client_state") = 4 /\ Rank("release") = 5
    BY Ranks DEF Capturing
  <2>2. {"structured", "client_state", "release"} \subseteq Stage \ Rethrown
    BY DEF Stage, Rethrown, Capturing
  <2> QED
    BY <2>1, <2>2 DEF Part, Range
<1> HIDE DEF hits
<1>4. Part(<<"ocr">> \o hits, 4, 4)
  BY <1>2, PartsInOrder
<1>5. Part((<<"ocr">> \o hits) \o <<"structured", "client_state", "release">>, 4, 5)
  BY <1>3, <1>4, PartsInOrder
<1> QED
  BY <1>5 DEF Reading, hits

\* The plans after a failed capture and after failed frames.
LEMMA RecoveringParts ==
    /\ Part(<<"capture_failure">> \o ToFinish, 4, 11)
    /\ Range(<<"capture_failure">> \o ToFinish) = {"capture_failure"} \cup Range(ToFinish)
    /\ Part(<<"frame_failure">> \o AfterFrames, 4, 11)
    /\ Range(<<"frame_failure">> \o AfterFrames) = {"frame_failure"} \cup Range(Reading(opt)) \cup Range(ToFinish)
<1>1. Capturing \in SUBSET (Stage \ Rethrown) /\ <<"capture_failure">> \in Seq(Capturing) /\ <<"frame_failure">> \in Seq(Capturing)
  BY DEF Capturing, Stage, Rethrown
<1>2. Part(<<"capture_failure">>, 4, 4) /\ Part(<<"frame_failure">>, 4, 4)
  BY <1>1, Ranks, PartOfOneRank
<1>3. Range(<<"capture_failure">>) = {"capture_failure"} /\ Range(<<"frame_failure">>) = {"frame_failure"}
  BY DEF Range
<1>4. Part(AfterFrames, 4, 11) /\ Range(AfterFrames) = Range(Reading(opt)) \cup Range(ToFinish)
  BY ReadingPart, FinishingPart, PartsInOrder DEF AfterFrames
<1>5. Part(<<"capture_failure">> \o ToFinish, 4, 11)
      /\ Range(<<"capture_failure">> \o ToFinish) = {"capture_failure"} \cup Range(ToFinish)
  BY <1>2, <1>3, FinishingPart, PartsInOrder
<1>6. Part(<<"frame_failure">> \o AfterFrames, 4, 11)
      /\ Range(<<"frame_failure">> \o AfterFrames) = {"frame_failure"} \cup Range(AfterFrames)
  BY <1>2, <1>3, <1>4, PartsInOrder
<1> QED
  BY <1>4, <1>5, <1>6

\* The plan a run starts with.
LEMMA WholePlan ==
    LET plan == Opening \o CaptureStages(opt) \o Analyses \o Closing(opt)
    IN  Part(plan, 0, 11) /\ {"capability", "acquire_context", "finally", "claims", "final_report"} \subseteq Range(plan)
<1> DEFINE http == IF opt.tier0 THEN <<"http_tier0">> ELSE <<>>
           cached == IF opt.cache THEN <<"cache_replay">> ELSE <<>>
           launch == <<"prewarm", "acquire_context", "open_page">>
           waits == IF opt.waits THEN <<"wait">> ELSE <<>>
           page == <<"overlay_dismissal", "overlay_artifact", "page_capture", "run_meta">>
           stores == IF opt.cache THEN <<"cache_store">> ELSE <<>>
<1>1. Part(Opening, 0, 0) /\ "capability" \in Range(Opening)
  <2>1. Opening \in Seq(Opened) /\ Opened \in SUBSET (Stage \ Rethrown)
    BY DEF Opening, Opened, Stage, Rethrown
  <2>2. \A s \in Opened : Rank(s) = 0
    BY Ranks DEF Stage
  <2>3. "capability" \in Range(Opening)
    BY DEF Opening, Range
  <2> QED
    BY <2>1, <2>2, <2>3, PartOfOneRank
<1>2. Part(http, 1, 1) /\ Part(cached, 2, 2)
  <2>1. http \in Seq({"http_tier0"}) /\ {"http_tier0"} \in SUBSET (Stage \ Rethrown)
    <3>1. <<"http_tier0">> \in Seq({"http_tier0"})
      OBVIOUS
    <3>2. http \in Seq({"http_tier0"})
      BY <3>1, Perhaps
    <3> QED
      BY <3>2 DEF Stage, Rethrown
  <2>2. cached \in Seq({"cache_replay"}) /\ {"cache_replay"} \in SUBSET (Stage \ Rethrown)
    <3>1. <<"cache_replay">> \in Seq({"cache_replay"})
      OBVIOUS
    <3>2. cached \in Seq({"cache_replay"})
      BY <3>1, Perhaps
    <3> QED
      BY <3>2 DEF Stage, Rethrown
  <2>3. Part(http, 1, 1)
    BY <2>1, Ranks, PartOfOneRank
  <2>4. Part(cached, 2, 2)
    BY <2>2, Ranks, PartOfOneRank
  <2> QED
    BY <2>3, <2>4
<1>3. Part(launch, 2, 3) /\ "acquire_context" \in Range(launch)
  <2>1. Rank("prewarm") = 2 /\ Rank("acquire_context") = 2 /\ Rank("open_page") = 3
    BY Ranks
  <2>2. {"prewarm", "acquire_context", "open_page"} \subseteq Stage \ Rethrown
    BY DEF Stage, Rethrown, Capturing
  <2> QED
    BY <2>1, <2>2 DEF Part, Range
<1>4. Part(waits, 4, 4) /\ Part(page, 4, 4) /\ Part(stores, 4, 4) /\ Part(Sampling(opt), 4, 4)
  <2>1. Capturing \in SUBSET (Stage \ Rethrown) /\ waits \in Seq(Capturing) /\ page \in Seq(Capturing)
        /\ stores \in Seq(Capturing)
    <3>1. <<"wait">> \in Seq(Capturing) /\ <<"cache_store">> \in Seq(Capturing)
      BY DEF Capturing
    <3>2. page \in Seq(Capturing) /\ Capturing \in SUBSET (Stage \ Rethrown)
      BY DEF Capturing, Stage, Rethrown
    <3> QED
      BY <3>1, <3>2, Perhaps
  <2>2. Sampling(opt) \in Seq(Capturing)
    <3>1. <<"wait_for_selector", "frame_sampling">> \in Seq(Capturing) /\ <<>> \in Seq(Capturing)
          /\ (IF opt.dense THEN <<"dense_frames", "scene_frames">> ELSE <<>>) \in Seq(Capturing)
      <4>1. <<"dense_frames", "scene_frames">> \in Seq(Capturing) /\ <<"wait_for_selector", "frame_sampling">> \in Seq(Capturing)
        BY DEF Capturing
      <4> QED
        BY <4>1, Perhaps, EmptySeq
    <3>2. <<"wait_for_selector", "frame_sampling">> \o (IF opt.dense THEN <<"dense_frames", "scene_frames">> ELSE <<>>)
            \in Seq(Capturing)
      BY <3>1, ConcatProperties
    <3> QED
      BY <3>1, <3>2 DEF Sampling
  <2> QED
    BY <2>1, <2>2, Ranks, PartOfOneRank
<1> HIDE DEF http, cached, launch, waits, page, stores
<1>5. Part(http \o cached, 1, 2)
  BY <1>2, PartsInOrder
<1>6. Part(launch \o waits, 2, 4) /\ "acquire_context" \in Range(launch \o waits)
  BY <1>3, <1>4, PartsInOrder
<1>7. Part((launch \o waits) \o page, 2, 4) /\ "acquire_context" \in Range((launch \o waits) \o page)
  BY <1>4, <1>6, PartsInOrder
<1>8. Part(((launch \o waits) \o page) \o stores, 2, 4) /\ "acquire_context" \in Range(((launch \o waits) \o page) \o stores)
  BY <1>4, <1>7, PartsInOrder
<1>9. Part(Attempts(opt), 1, 2) /\ Part(Browsing(opt), 2, 4) /\ "acquire_context" \in Range(Browsing(opt))
  BY <1>5, <1>8 DEF Attempts, Browsing, http, cached, launch, waits, page, stores
<1>10. Part(<<"finally">>, 6, 6) /\ Range(<<"finally">>) = {"finally"}
  <2>1. {"finally"} \in SUBSET (Stage \ Rethrown) /\ <<"finally">> \in Seq({"finally"})
    BY DEF Stage, Rethrown
  <2>2. Range(<<"finally">>) = {"finally"}
    BY DEF Range
  <2> QED
    BY <2>1, <2>2, Ranks, PartOfOneRank
<1>11. Part(Attempts(opt) \o Browsing(opt), 1, 4) /\ "acquire_context" \in Range(Attempts(opt) \o Browsing(opt))
  BY <1>9, PartsInOrder
<1>12. Part((Attempts(opt) \o Browsing(opt)) \o Sampling(opt), 1, 4)
       /\ "acquire_context" \in Range((Attempts(opt) \o Browsing(opt)) \o Sampling(opt))
  BY <1>4, <1>11, PartsInOrder
<1>13. Part(((Attempts(opt) \o Browsing(opt)) \o Sampling(opt)) \o Reading(opt), 1, 5)
       /\ "acquire_context" \in Range(((Attempts(opt) \o Browsing(opt)) \o Sampling(opt)) \o Reading(opt))
  BY <1>12, ReadingPart, PartsInOrder
<1>14. Part(CaptureStages(opt), 1, 6) /\ {"acquire_context", "finally"} \subseteq Range(CaptureStages(opt))
  BY <1>10, <1>13, PartsInOrder DEF CaptureStages
<1>15. Part(Opening \o CaptureStages(opt), 0, 6)
       /\ {"capability", "acquire_context", "finally"} \subseteq Range(Opening \o CaptureStages(opt))
  BY <1>1, <1>14, PartsInOrder
<1>16. Part(Analyses, 7, 7)
  <2>1. Analyses \in Seq(Analysed) /\ Analysed \in SUBSET (Stage \ Rethrown)
    BY DEF Analyses, Analysed, Stage, Rethrown
  <2> QED
    BY <2>1, Ranks, PartOfOneRank
<1>17. Part((Opening \o CaptureStages(opt)) \o Analyses, 0, 7)
       /\ {"capability", "acquire_context", "finally"} \subseteq Range((Opening \o CaptureStages(opt)) \o Analyses)
  BY <1>15, <1>16, PartsInOrder
<1> QED
  BY <1>17, ClosingPart, PartsInOrder

\* A plan without its first stage is a plan.
LEMMA TailIsPlan ==
    ASSUME NEW seq, Planned(seq), seq # <<>>, Head(seq) \notin Rethrown
    PROVE  /\ Planned(Tail(seq)) /\ Range(seq) = {Head(seq)} \cup Range(Tail(seq))
           /\ \A x \in Range(Tail(seq)) : Rank(Head(seq)) <= Rank(x)
           /\ Range(seq) \subseteq Stage
<1> DEFINE s == Head(seq)
           rest == Range(Tail(seq))
<1>1. /\ Range(seq) = {s} \cup rest /\ \A x \in rest : Rank(s) <= Rank(x)
      /\ s \in Stage \ Rethrown /\ Range(seq) \subseteq Stage
      /\ Tail(seq) \in Seq(Stage) /\ Ordered(Tail(seq))
  BY HeadAndTail, RangeOfSeq DEF Planned
<1> HIDE DEF s, rest
<1>2. Covered(rest)
  <2>1. ASSUME NEW x \in rest, Rank(x) \in 1..5 PROVE "finally" \in rest
    BY <1>1, <2>1, Ranks DEF Planned, Covered
  <2>2. ASSUME NEW x \in rest, Rank(x) < 8, x # "finally" PROVE "claims" \in rest
    BY <1>1, <2>2, Ranks DEF Planned, Covered
  <2>3. ASSUME NEW x \in rest, Rank(x) < 10, x # "finally" PROVE "final_report" \in rest
    BY <1>1, <2>3, Ranks DEF Planned, Covered
  <2>4. ASSUME "finally" \in rest PROVE "final_report" \in rest \/ rest \cap Rethrown # {}
    BY <1>1, <2>4, Ranks DEF Planned, Covered
  <2> QED
    BY <2>1, <2>2, <2>3, <2>4 DEF Covered
<1> QED
  BY <1>1, <1>2 DEF Planned, s, rest

\* The stage that is under way or to begin.
LEMMA NowIsFirst ==
    ASSUME PlanInv, NEW s \in Now
    PROVE  /\ s = Head(todo) /\ todo # <<>> /\ outcome = "running" /\ s \in Stage \ Rethrown /\ s \in Left
           /\ Left \subseteq Stage /\ \A x \in Left : Rank(s) <= Rank(x)
           /\ Covered(Left)
<1>1. s = Head(todo) /\ todo # <<>> /\ outcome = "running" /\ s \notin Rethrown
  BY DEF Now
<1>2. Left = {s} \cup Range(Tail(todo)) /\ (\A x \in Range(Tail(todo)) : Rank(s) <= Rank(x)) /\ Left \subseteq Stage
  BY <1>1, TailIsPlan DEF PlanInv, Left
<1>3. Rank(s) \in 0..12
  BY <1>2, Ranks
<1> QED
  BY <1>1, <1>2, <1>3 DEF PlanInv, Planned, Left

\* One stage is done, the others are left.
LEMMA Passing ==
    ASSUME PlanInv, NEW s \in Now, todo' = Tail(todo), outcome' = outcome
    PROVE  PlanInv' /\ Left = {s} \cup Left' /\ \A x \in Left' : Rank(s) <= Rank(x)
<1>1. s = Head(todo) /\ todo # <<>> /\ outcome = "running" /\ s \notin Rethrown
  BY NowIsFirst
<1> QED
  BY <1>1, TailIsPlan DEF PlanInv, Left

\* A stage that nothing calls for is skipped, the OCR of its frames with it.
LEMMA Skipping ==
    ASSUME PlanInv, NEW s, s \in Now, Skip(s)
    PROVE  /\ PlanInv' /\ Left' \subseteq Left /\ Left \subseteq {s, "ocr_dense"} \cup Left'
           /\ \A x \in Left' : Rank(s) <= Rank(x)
<1>1. /\ s = Head(todo) /\ todo # <<>> /\ outcome = "running" /\ s \notin Rethrown
      /\ outcome' = outcome /\ s \in Optional
  BY NowIsFirst DEF Skip
<1>2. /\ Planned(Tail(todo)) /\ Left = {s} \cup Range(Tail(todo))
      /\ \A x \in Range(Tail(todo)) : Rank(s) <= Rank(x)
  BY <1>1, TailIsPlan DEF PlanInv, Left
<1>3. CASE todo' = Tail(todo)
  BY <1>1, <1>2, <1>3 DEF PlanInv, Left
<1>4. CASE todo' = Tail(Tail(todo)) /\ Head(Tail(todo)) = "ocr_dense" /\ s = "ocr_hit_frames"
  <2>1. Rank(s) = 4
    BY <1>4, Ranks DEF Capturing
  <2>2. Tail(todo) # <<>>
    <3>1. "claims" \in Left
      BY <1>2, <2>1, <1>4, Ranks DEF PlanInv, Planned, Covered, Left
    <3>2. "claims" \in Range(Tail(todo))
      BY <1>2, <1>4, <3>1
    <3>3. Range(<<>>) = {}
      BY DEF Range
    <3> QED
      BY <3>2, <3>3
  <2>3. /\ Planned(todo') /\ Range(Tail(todo)) = {"ocr_dense"} \cup Range(todo')
    BY <1>2, <1>4, <2>2, TailIsPlan DEF Rethrown
  <2> QED
    BY <1>1, <1>2, <2>3 DEF PlanInv, Left
<1> QED
  BY <1>3, <1>4 DEF Skip

\* An error is on its way out.
LEMMA Throwing ==
    ASSUME PlanInv, NEW s \in Now, NEW kind \in Rethrown, Throw(kind)
    PROVE  PlanInv' /\ Left' = IF InCapture THEN {"finally", kind} ELSE {kind}
<1>1. outcome' = "running"
  BY NowIsFirst DEF Throw
<1>2. kind \in Stage /\ "finally" \in Stage /\ "finally" \notin Rethrown /\ Rank(kind) = 12 /\ Rank("finally") = 6
  <2>1. kind \in Stage /\ "finally" \in Stage /\ "finally" \notin Rethrown
    BY DEF Stage, Rethrown
  <2> QED
    BY <2>1, Ranks
<1>3. CASE InCapture
  <2>1. todo' = <<"finally", kind>>
    BY <1>3 DEF Throw
  <2>2. Left' = {"finally", kind}
    BY <2>1 DEF Left, Range
  <2>3. todo' \in Seq(Stage) /\ Ordered(todo')
    BY <1>2, <2>1 DEF Ordered
  <2>4. Covered(Left')
    BY <1>2, <2>2 DEF Covered
  <2> QED
    BY <1>1, <1>3, <2>2, <2>3, <2>4 DEF PlanInv, Planned, Left
<1>4. CASE ~InCapture
  <2>1. todo' = <<kind>>
    BY <1>4 DEF Throw
  <2>2. Left' = {kind}
    BY <2>1 DEF Left, Range
  <2>3. todo' \in Seq(Stage) /\ Ordered(todo')
    BY <1>2, <2>1 DEF Ordered
  <2>4. Covered(Left')
    BY <1>2, <2>2 DEF Covered
  <2> QED
    BY <1>1, <1>4, <2>2, <2>3, <2>4 DEF PlanInv, Planned, Left
<1> QED
  BY <1>3, <1>4

\* A part of the plan that has its finally block and its closing stages is a plan.
LEMMA PartIsPlan ==
    ASSUME NEW seq, NEW lo \in Nat, Part(seq, lo, 11), {"finally", "claims", "final_report"} \subseteq Range(seq)
    PROVE  Planned(seq)
<1>1. seq \in Seq(Stage)
  BY SeqMonotonic DEF Part
<1>2. \A i \in 1..Len(seq) : seq[i] \notin Rethrown
  BY ElementOfSeq DEF Part
<1> QED
  BY <1>1, <1>2 DEF Part, Ordered, Covered, Planned

\* The rest of the capture is skipped, up to its finally block at most.
LEMMA Finishing ==
    ASSUME UNCHANGED opt, outcome' = "running",
           \/ todo' = ToFinish
           \/ todo' = <<"capture_failure">> \o ToFinish
           \/ todo' = <<"frame_failure">> \o AfterFrames
    PROVE  /\ PlanInv' /\ {"finally", "claims", "final_report"} \subseteq Left'
           /\ \A x \in Left' : Rank(x) \in 4..11
           /\ todo' = ToFinish => \A x \in Left' : Rank(x) \in 6..11
<1>1. /\ Part(todo', 4, 11) /\ {"finally", "claims", "final_report"} \subseteq Range(todo')
      /\ todo' = ToFinish => Part(todo', 6, 11)
  <2>1. Part(ToFinish, 6, 11) => Part(ToFinish, 4, 11)
    BY DEF Part
  <2> QED
    BY <2>1, FinishingPart, RecoveringParts
<1>2. Planned(todo')
  BY <1>1, PartIsPlan
<1> QED
  BY <1>1, <1>2 DEF Part, Left, PlanInv

-----------------------------------------------------------------------------
\* The invariant, by the ways in which a step may change the plan.

Passes(s) ==
    /\ Left' \subseteq Left /\ Left \subseteq {s, "ocr_dense"} \cup Left'
    /\ \A x \in Left' : Rank(s) <= Rank(x)
Throws == \E kind \in Rethrown : Left' = IF InCapture THEN {"finally", kind} ELSE {kind}
Finishes(s) ==
    /\ Rank(s) \in 1..5
    /\ {"finally", "claims", "final_report"} \subseteq Left' /\ \A x \in Left' : Rank(x) \in 4..11

\* The stages of the opening, for InCapture.
LEMMA OpeningRange == Range(Opening) = Opened
<1>1. DOMAIN Opening = 1..8
  BY DEF Opening
<1>2. /\ Opening[1] = "setup" /\ Opening[2] = "capability" /\ Opening[3] = "source_strategy"
      /\ Opening[4] = "method_plan" /\ Opening[5] = "source_registry" /\ Opening[6] = "intent_profile"
      /\ Opening[7] = "api_readiness" /\ Opening[8] = "official_api"
  BY DEF Opening
<1>3. \A i \in 1..8 : i = 1 \/ i = 2 \/ i = 3 \/ i = 4 \/ i = 5 \/ i = 6 \/ i = 7 \/ i = 8
  OBVIOUS
<1> QED
  BY <1>1, <1>2, <1>3 DEF Range, Opened

\* Where an error leads: on, out, or to the finally block.
LEMMA Failing ==
    ASSUME PlanInv, NEW s \in Now, Fail(s), s # "finally", UNCHANGED opt
    PROVE  /\ PlanInv' /\ outcome' = outcome
           /\ (Passes(s) /\ s \in Swallowed \cup Declines \cup {"overlay_dismissal"}) \/ Throws \/ Finishes(s)
<1>1. outcome' = "running" /\ outcome' = outcome
  BY NowIsFirst DEF Fail, Continue, Throw
<1>2. CASE s \in Swallowed \cup Declines \cup {"overlay_dismissal"} /\ Continue
  <2>1. PlanInv' /\ Left = {s} \cup Left' /\ \A x \in Left' : Rank(s) <= Rank(x)
    BY <1>1, <1>2, Passing DEF Continue
  <2> QED
    BY <1>1, <1>2, <2>1 DEF Passes
<1>3. CASE s \in Framing /\ todo' = <<"frame_failure">> \o AfterFrames
  <2>1. Rank(s) = 4
    BY <1>3, Ranks DEF Framing, Capturing
  <2> QED
    BY <1>1, <1>3, <2>1, Finishing DEF Finishes
<1>4. CASE InCapture /\ todo' = <<"capture_failure">> \o ToFinish
  <2>1. Rank(s) <= 6 /\ Rank(s) # 6 /\ Rank(s) # 0 /\ Rank(s) \in 0..12
    <3>1. "finally" \in Left /\ s \notin Opened
      BY <1>4, NowIsFirst, OpeningRange DEF InCapture, Left
    <3> QED
      BY <3>1, NowIsFirst, Ranks
  <2> QED
    BY <1>1, <1>4, <2>1, Finishing DEF Finishes
<1>5. CASE Throw("failed")
  BY <1>1, <1>5, Throwing DEF Throws, Rethrown
<1> QED
  BY <1>1, <1>2, <1>3, <1>4, <1>5 DEF Fail

\* A step that changes the plan, and at most opens the context, keeps LeaseInv.
LEMMA LeaseMoves ==
    ASSUME PlanInv, LeaseInv, NEW s \in Now, UNCHANGED <<opt, lease, engine>>,
           open' = open \/ s = "open_page",
           \/ Passes(s) /\ s \notin {"acquire_context", "finally"}
              /\ open' = open
           \/ Throws
           \/ Finishes(s)
    PROVE  LeaseInv'
<1>1. /\ s \in Left /\ s \in Stage /\ Left \subseteq Stage /\ Covered(Left) /\ s = Head(todo)
      /\ \A x \in Left : Rank(s) <= Rank(x)
  BY NowIsFirst
<1>2. Closed'
  <2>1. CASE open' = open
    BY <2>1 DEF LeaseInv, Closed
  <2>2. CASE s = "open_page"
    <3>1. "acquire_context" \notin Left
      BY <1>1, <2>2, Ranks
    <3> QED
      BY <1>1, <2>2, <3>1 DEF LeaseInv, Closed
  <2> QED
    BY <2>1, <2>2
<1>3. CASE Passes(s) /\ s \notin {"acquire_context", "finally"} /\ open' = open
  <2>1. "finally" \in Left => "finally" \in Left'
    BY <1>3 DEF Passes
  <2>2. Left' \cap Opened # {} => Left \cap Opened # {}
    BY <1>3 DEF Passes
  <2>3. "open_page" \in Left' => "open_page" \in Left /\ ("acquire_context" \in Left => "acquire_context" \in Left')
    BY <1>3 DEF Passes
  <2> QED
    BY <1>2, <1>3, <2>1, <2>2, <2>3 DEF LeaseInv, Clean, MayStayOpen
<1>4. CASE Throws
  <2>1. PICK kind \in Rethrown : Left' = IF InCapture THEN {"finally", kind} ELSE {kind}
    BY <1>4 DEF Throws
  <2>2. Left' \cap Opened = {} /\ "open_page" \notin Left'
    BY <2>1 DEF Opened, Rethrown
  <2>3. CASE InCapture
    BY <1>2, <2>1, <2>2, <2>3 DEF LeaseInv
  <2>4. CASE ~InCapture
    <3>1. "finally" \notin Left \/ Left \cap Opened # {}
      BY <1>1, <2>4, OpeningRange DEF InCapture, Left
    <3>2. s # "open_page"
      <4>1. SUFFICES ASSUME s = "open_page" PROVE FALSE
        OBVIOUS
      <4>2. "finally" \in Left
        BY <1>1, <4>1, Ranks DEF Covered
      <4>3. PICK x \in Left : x \in Opened
        BY <3>1, <4>2
      <4> QED
        BY <1>1, <4>1, <4>3, Ranks
    <3>3. Clean /\ open' = open
      BY <3>1, <3>2 DEF LeaseInv
    <3> QED
      BY <1>2, <2>2, <3>3 DEF LeaseInv, Clean, MayStayOpen
  <2> QED
    BY <2>3, <2>4
<1>5. CASE Finishes(s)
  <2>1. "finally" \in Left' /\ Left' \cap Opened = {} /\ "open_page" \notin Left'
    <3>1. ASSUME NEW x \in Left' \cap Opened PROVE FALSE
      BY <1>5, <3>1, Ranks DEF Finishes, Stage
    <3> QED
      BY <1>5, <3>1, Ranks DEF Finishes
  <2> QED
    BY <1>2, <2>1 DEF LeaseInv
<1> QED
  BY <1>3, <1>4, <1>5

\* A step that changes the plan otherwise than by finishing the report keeps
\* AbortInv.
LEMMA AbortMoves ==
    ASSUME PlanInv, AbortInv, NEW s \in Now, UNCHANGED <<aborted, late, outcome>>,
           \/ Passes(s) /\ (s # "final_report" \/ aborted # "early")
           \/ Throws
           \/ Finishes(s)
    PROVE  AbortInv'
<1>1. /\ s \in Left /\ s \in Stage \ Rethrown /\ Left \subseteq Stage /\ Covered(Left)
  BY NowIsFirst
<1>2. CASE Passes(s) /\ (s # "final_report" \/ aborted # "early")
  BY <1>1, <1>2 DEF AbortInv, Passes, Rethrown
<1>3. CASE Throws
  BY <1>3 DEF AbortInv, Throws, Rethrown
<1>4. CASE Finishes(s)
  <2>1. "final_report" \in Left /\ ~(Left \subseteq {"finally"} \cup Rethrown)
    <3>1. Rank(s) < 10 /\ s # "finally"
      BY <1>4, Ranks DEF Finishes
    <3> QED
      BY <1>1, <3>1 DEF Covered
  <2> QED
    BY <1>4, <2>1 DEF AbortInv, Finishes
<1> QED
  BY <1>2, <1>3, <1>4

\* A step that changes the plan, and adds rows other than a page's, keeps
\* EvidenceInv.
LEMMA EvidenceMoves ==
    ASSUME PlanInv, EvidenceInv, NEW s \in Now, UNCHANGED source, late' \subseteq late \cup {s},
           NEW new, rows' = rows \cup new, kept' = kept \cup new, \A r \in new : r.group \notin Paged,
           \/ Passes(s) /\ (s = "capability" => Row("capability", "ok") \in new)
           \/ Throws
           \/ Finishes(s)
    PROVE  EvidenceInv'
<1>1. /\ s \in Left /\ s \in Stage \ Rethrown /\ Left \subseteq Stage /\ Covered(Left)
      /\ \A x \in Left : Rank(s) <= Rank(x)
  BY NowIsFirst
<1>2. /\ kept' \subseteq rows'
      /\ \A r \in kept' : /\ r.group = "page_http" => source' = "http"
                          /\ r.group = "page_cache" => source' = "cache"
                          /\ r.group \in {"page_browser", "page_failure"} => source' = "browser"
      /\ \A r \in rows' : r.group = "page_http" => r = Row("page_http", "ok")
      /\ "page_capture" \in late' => source' # "http"
  <2>1. s = "page_capture" => source = "browser"
    <3>1. Rank("page_capture") = 4
      BY Ranks DEF Capturing
    <3> QED
      BY <1>1, <3>1 DEF EvidenceInv
  <2> QED
    BY <2>1 DEF EvidenceInv, Paged
<1>3. /\ (\A r \in kept : r.group \notin Paged) => \A r \in kept' : r.group \notin Paged
      /\ (\A r \in rows : r.group # "page_browser") => \A r \in rows' : r.group # "page_browser"
  BY DEF Paged
<1>4. CASE Passes(s) /\ (s = "capability" => Row("capability", "ok") \in new)
  <2>1. /\ source' # "browser" => \A x \in Left' : Rank(x) >= 6
        /\ Left' \cap {"http_tier0", "cache_replay"} # {} => \A r \in kept' : r.group \notin Paged
    BY <1>3, <1>4 DEF EvidenceInv, Passes
  <2>2. source' = "http" \/ "http_tier0" \in Left' => \A r \in rows' : r.group # "page_browser"
    BY <1>3, <1>4 DEF EvidenceInv, Passes
  <2>3. "claims" \in Left' => "capability" \in Left' \/ Row("capability", "ok") \in kept'
    BY <1>4 DEF EvidenceInv, Passes
  <2> QED
    BY <1>2, <2>1, <2>2, <2>3 DEF EvidenceInv
<1>5. CASE Throws
  <2>1. PICK kind \in Rethrown : Left' \subseteq {"finally", kind}
    BY <1>5 DEF Throws
  <2>2. /\ \A x \in Left' : Rank(x) >= 6
        /\ Left' \cap {"http_tier0", "cache_replay", "claims"} = {}
    BY <2>1, Ranks DEF Rethrown, Stage
  <2>3. source' = "http" => \A r \in rows' : r.group # "page_browser"
    BY <1>3 DEF EvidenceInv
  <2> QED
    BY <1>2, <2>2, <2>3 DEF EvidenceInv
<1>6. CASE Finishes(s)
  <2>1. Left' \cap {"http_tier0", "cache_replay"} = {}
    BY <1>6, Ranks DEF Finishes
  <2>2. source' = "browser"
    BY <1>1, <1>6 DEF EvidenceInv, Finishes
  <2>3. "claims" \in Left /\ "capability" \notin Left
    <3>1. Rank("capability") = 0
      BY Ranks DEF Opened, Stage
    <3>2. s # "finally"
      BY <1>6, Ranks DEF Finishes
    <3> QED
      BY <1>1, <1>6, <3>1, <3>2 DEF Finishes, Covered
  <2>4. Row("capability", "ok") \in kept'
    BY <2>3 DEF EvidenceInv
  <2>5. "http_tier0" \notin Left'
    BY <2>1
  <2> QED
    BY <1>2, <2>1, <2>2, <2>4, <2>5 DEF EvidenceInv
<1> QED
  BY <1>4, <1>5, <1>6

\* A step that changes the plan, and writes neither claims nor a verdict, keeps
\* ClaimsInv.
LEMMA ClaimsMoves ==
    ASSUME PlanInv, ClaimsInv, NEW s \in Now, UNCHANGED <<claims, verdict>>,
           rows \subseteq rows', \A r \in kept' : r.group = "page_http" => r \in kept,
           \/ Passes(s) /\ s # "claims"
           \/ Throws
           \/ Finishes(s)
    PROVE  ClaimsInv'
<1>1. /\ s \in Left /\ s \in Stage \ Rethrown /\ Left \subseteq Stage /\ Covered(Left)
      /\ \A x \in Left : Rank(s) <= Rank(x)
  BY NowIsFirst
<1>2. ClaimsHonest'
  BY DEF ClaimsInv, ClaimsHonest
<1>3. OwnRunAccepted'
  BY DEF ClaimsInv, OwnRunAccepted, Row
<1>4. \A c \in claims' : c.level = "visual" => c.row.group = "frame"
  BY DEF ClaimsInv
<1>5. /\ verdict' # "none" => \A x \in Left' : Rank(x) >= 9
      /\ "claim_gate" \in Left' => "claims" \in Left' \/ claims' # {}
  <2>1. CASE Passes(s) /\ s # "claims"
    BY <2>1 DEF ClaimsInv, Passes
  <2>2. CASE Throws
    <3>1. PICK kind \in Rethrown : Left' = IF InCapture THEN {"finally", kind} ELSE {kind}
      BY <2>2 DEF Throws
    <3>2. Rank(kind) = 12 /\ Rank("finally") = 6
      BY Ranks DEF Stage
    <3>3. "finally" \in Left => verdict = "none"
      BY <3>2 DEF ClaimsInv
    <3>4. InCapture => "finally" \in Left
      BY DEF InCapture, Left
    <3> QED
      BY <3>1, <3>2, <3>3, <3>4 DEF Rethrown
  <2>3. CASE Finishes(s)
    BY <1>1, <2>3 DEF ClaimsInv, Finishes
  <2> QED
    BY <2>1, <2>2, <2>3
<1> QED
  BY <1>2, <1>3, <1>4, <1>5 DEF ClaimsInv

-----------------------------------------------------------------------------
\* The claims.

\* What a group of claims is about, cites and says.
LEMMA Cited ==
    ASSUME NEW a, NEW some, NEW l, NEW c \in Cites(a, some, l)
    PROVE  c.about = a /\ c.row \in some /\ c.level = l
  BY DEF Cites

\* A claim that is built cites a row that is held, and says no more than it does.
LEMMA BuiltClaims ==
    ASSUME EvidenceInv, NEW c \in BuildClaims
    PROVE  /\ c.row \in rows
           /\ c.about = "page" => c.level =
                  CASE c.row.group = "page_http" -> "http_fetch"
                    [] c.row.group = "page_cache" -> "cached_capture"
                    [] OTHER -> "browser_visible"
           /\ c.level \in {"visual", "ocr_extracted"} => c.row.status = "ok"
           /\ c.level = "visual" => c.row.group = "frame"
<1>1. CASE \E a \in {"capability", "audio", "api", "ocr", "obstruction", "gateway", "readiness"},
              g \in {"capability", "assessment", "official_api", "ocr", "obstructions", "public_gateway", "api_readiness"},
              l \in {"verified", "unverified", "official_api", "browser_visible", "grounded"} : c \in Cites(a, Held(g), l)
  <2>1. PICK a \in {"capability", "audio", "api", "ocr", "obstruction", "gateway", "readiness"},
             g \in {"capability", "assessment", "official_api", "ocr", "obstructions", "public_gateway", "api_readiness"},
             l \in {"verified", "unverified", "official_api", "browser_visible", "grounded"} : c \in Cites(a, Held(g), l)
    BY <1>1
  <2>2. c.about = a /\ c.row \in Held(g) /\ c.level = l
    BY <2>1, Cited
  <2> QED
    BY <2>2 DEF Held, EvidenceInv
<1>2. CASE c \in Cites("page", Pages, PageLevel)
  <2>1. c.about = "page" /\ c.row \in Pages /\ c.level = PageLevel
    BY <1>2, Cited
  <2>2. PageLevel \notin {"visual", "ocr_extracted"}
    BY DEF PageLevel
  <2>3. c.row \in kept /\ c.row.group \in {"page_http", "page_cache", "page_browser", "page_failure"}
    BY <2>1 DEF Pages, Held
  <2>4. /\ c.row.group = "page_http" => PageLevel = "http_fetch"
        /\ c.row.group = "page_cache" => PageLevel = "cached_capture"
        /\ c.row.group \in {"page_browser", "page_failure"} => PageLevel = "browser_visible"
    BY <2>3 DEF EvidenceInv, PageLevel
  <2> QED
    BY <2>1, <2>2, <2>3, <2>4 DEF EvidenceInv
<1>3. CASE c \in FrameClaim
  <2>1. CASE FramesFine /\ c \in Cites("frames", Held("frame"), "visual")
    <3>1. c.about = "frames" /\ c.row \in Held("frame") /\ c.level = "visual"
      BY <2>1, Cited
    <3> QED
      BY <2>1, <3>1 DEF FramesFine, Held, EvidenceInv
  <2>2. CASE c \in Cites("frames", FallbackFrame, "inferred")
    <3>1. c.about = "frames" /\ c.row \in FallbackFrame /\ c.level = "inferred"
      BY <2>2, Cited
    <3> QED
      BY <3>1 DEF FallbackFrame, FrameRecords, Held, EvidenceInv
  <2> QED
    BY <1>3, <2>1, <2>2 DEF FrameClaim
<1>4. CASE c \in Cites("ocr", OcrOk, "ocr_extracted")
  <2>1. c.about = "ocr" /\ c.row \in OcrOk /\ c.level = "ocr_extracted"
    BY <1>4, Cited
  <2> QED
    BY <2>1 DEF OcrOk, Held, EvidenceInv
<1>5. OcrClaim = Cites("ocr", OcrOk, "ocr_extracted") \/ OcrClaim = Cites("ocr", Held("ocr"), "unverified")
  BY DEF OcrClaim
<1> QED
  BY <1>1, <1>2, <1>3, <1>4, <1>5 DEF BuildClaims

\* The claim of the capabilities is always there.
LEMMA SomethingIsClaimed ==
    ASSUME Row("capability", "ok") \in kept
    PROVE  BuildClaims # {}
<1>1. Row("capability", "ok") \in Held("capability")
  BY DEF Held, Row
<1>2. Cites("capability", Held("capability"), "verified") # {}
  BY <1>1 DEF Cites
<1> QED
  BY <1>2 DEF BuildClaims

\* No stage but the capture of the page yields a row of a page.
LEMMA NoPageRows ==
    ASSUME NEW s, NEW new \in Yields(s), NEW r \in new
    PROVE  /\ r.group # "page_http" /\ r.group # "page_cache"
           /\ s # "page_capture" => r.group # "page_browser"
           /\ s # "page_capture" /\ s # "capture_failure" => r.group \notin Paged
  BY DEF Yields, Either, Row, Paged

-----------------------------------------------------------------------------
\* The steps.

\* A stage inside the capture leaves its finally block to do.
LEMMA InsideCapture ==
    ASSUME PlanInv, NEW s \in Now, todo' = Tail(todo), outcome' = outcome, Rank(s) \in 1..5
    PROVE  "finally" \in Left' /\ Left' \cap Opened = {}
<1>1. Left = {s} \cup Left'
  BY Passing
<1>2. Left \subseteq Stage /\ Covered(Left) /\ s \in Left /\ \A x \in Left : Rank(s) <= Rank(x)
  BY NowIsFirst
<1>3. "finally" \in Left'
  BY <1>1, <1>2, Ranks DEF Covered
<1>4. ASSUME NEW x \in Left' \cap Opened PROVE FALSE
  <2>1. Rank(x) = 0 /\ x \in Left
    BY <1>1, <1>2, <1>4, Ranks
  <2> QED
    BY <1>2, <2>1
<1> QED
  BY <1>3, <1>4

\* EvidenceMoves of a step that appends nothing.
LEMMA NoNewEvidence ==
    ASSUME PlanInv, EvidenceInv, NEW s \in Now, UNCHANGED <<rows, kept, source>>, late' \subseteq late \cup {s},
           (Passes(s) /\ s # "capability") \/ Throws \/ Finishes(s)
    PROVE  EvidenceInv'
<1>1. PICK new : new = {}
  OBVIOUS
<1>2. rows' = rows \cup new /\ kept' = kept \cup new /\ \A r \in new : r.group \notin Paged
  BY <1>1
<1>3. (Passes(s) /\ (s = "capability" => Row("capability", "ok") \in new)) \/ Throws \/ Finishes(s)
  OBVIOUS
<1> QED
  BY <1>2, <1>3, EvidenceMoves

\* A step that only moves the plan.
LEMMA QuietMoves ==
    ASSUME WorkflowInv, PlanInv', NEW s \in Now,
           UNCHANGED <<opt, aborted, late, outcome, lease, engine, evidence>>,
           open' = open \/ s = "open_page",
           \/ /\ Passes(s) /\ open' = open
              /\ s \notin {"capability", "acquire_context", "finally", "claims"}
              /\ s # "final_report" \/ aborted # "early"
           \/ Throws
           \/ Finishes(s)
    PROVE  WorkflowInv'
<1>1. UNCHANGED <<opt, aborted, late, outcome, lease, engine, rows, kept, claims, source, verdict>>
  BY DEF evidence
<1>2. PlanInv /\ LeaseInv /\ AbortInv /\ EvidenceInv /\ ClaimsInv
  BY DEF WorkflowInv
<1>3. LeaseInv'
  BY <1>1, <1>2, LeaseMoves
<1>4. AbortInv'
  BY <1>1, <1>2, AbortMoves
<1>5. EvidenceInv'
  BY <1>1, <1>2, NoNewEvidence
<1>6. ClaimsInv'
  BY <1>1, <1>2, ClaimsMoves
<1> QED
  BY <1>3, <1>4, <1>5, <1>6 DEF WorkflowInv

\* A stage begins.
LEMMA BeginStep ==
    ASSUME WorkflowInv, NEW s \in Now, Begin(s)
    PROVE  WorkflowInv'
  BY DEF Begin, WorkflowInv, PlanInv, LeaseInv, AbortInv, EvidenceInv, ClaimsInv, Left, Clean, Closed, MayStayOpen, ClaimsHonest,
         OwnRunAccepted, browserVars, evidence

\* A stage does not begin, because the run is aborted.
LEMMA CheckStep ==
    ASSUME WorkflowInv, NEW s \in Now, StopsAtCheck(s)
    PROVE  WorkflowInv'
<1>1. PlanInv /\ UNCHANGED <<opt, aborted, late, outcome, lease, open, engine, evidence>>
  BY DEF WorkflowInv, StopsAtCheck, browserVars, Continue, Throw
<1>2. CASE s \in Swallowed /\ Continue
  <2>1. PlanInv' /\ Passes(s)
    BY <1>1, <1>2, Passing DEF Continue, Passes
  <2>2. s \notin {"capability", "acquire_context", "finally", "claims", "final_report"}
    BY <1>2 DEF Swallowed
  <2> QED
    BY <1>1, <2>1, <2>2, QuietMoves
<1>3. CASE Throw("aborted")
  <2>1. PlanInv' /\ Throws
    BY <1>1, <1>3, Throwing DEF Throws, Rethrown
  <2> QED
    BY <1>1, <2>1, QuietMoves
<1> QED
  BY <1>2, <1>3 DEF StopsAtCheck

\* A stage does not begin, because nothing calls for it.
LEMMA SkipStep ==
    ASSUME WorkflowInv, NEW s \in Now, Skip(s)
    PROVE  WorkflowInv'
<1>1. PlanInv /\ UNCHANGED <<opt, aborted, late, outcome, lease, open, engine, evidence>>
  BY DEF WorkflowInv, Skip, browserVars
<1>2. PlanInv' /\ Passes(s)
  BY <1>1, Skipping DEF Passes
<1>3. s \notin {"capability", "acquire_context", "finally", "claims", "final_report"}
  BY DEF Skip, Optional
<1> QED
  BY <1>1, <1>2, <1>3, QuietMoves

\* A stage succeeds and appends its rows.
LEMMA SucceedsStep ==
    ASSUME WorkflowInv, NEW s \in Now, Succeeds(s)
    PROVE  WorkflowInv'
<1>1. /\ PlanInv /\ LeaseInv /\ AbortInv /\ EvidenceInv /\ ClaimsInv
      /\ UNCHANGED <<opt, aborted, late, outcome, lease, open, engine, claims, source, verdict>>
      /\ todo' = Tail(todo) /\ s \in Plain
  BY DEF WorkflowInv, Succeeds, browserVars, Continue
<1>2. PICK new \in Yields(s) : rows' = rows \cup new /\ kept' = kept \cup new
  BY DEF Succeeds, Appends
<1>3. PlanInv' /\ Passes(s)
  BY <1>1, Passing DEF Passes
<1>4. s \notin {"acquire_context", "finally", "claims", "final_report", "page_capture", "capture_failure"}
  <2>1. Plain \cap {"acquire_context", "finally", "claims", "final_report", "page_capture", "capture_failure"} = {}
    <3>1. Range(Opening \o Analyses) = Opened \cup Range(Analyses)
      <4>1. Opening \in Seq(Opened \cup Analysed) /\ Analyses \in Seq(Opened \cup Analysed)
        BY DEF Opening, Analyses, Opened, Analysed
      <4> QED
        BY <4>1, OpeningRange, RangeConcatenation
    <3>2. Range(Analyses) \subseteq Analysed
      BY DEF Analyses, Analysed, Range
    <3> QED
      BY <3>1, <3>2 DEF Plain, Opened, Analysed
  <2> QED
    BY <1>1, <2>1
<1>5. \A r \in new : r.group \notin Paged
  BY <1>2, <1>4, NoPageRows
<1>6. s = "capability" => Row("capability", "ok") \in new
  BY <1>2 DEF Yields
<1>7. LeaseInv'
  BY <1>1, <1>3, <1>4, LeaseMoves
<1>8. AbortInv'
  BY <1>1, <1>3, <1>4, AbortMoves
<1>9. EvidenceInv'
  <2>1. late' \subseteq late \cup {s}
    BY <1>1
  <2> QED
    BY <1>1, <1>2, <1>3, <1>5, <1>6, <2>1, EvidenceMoves
<1>10. ClaimsInv'
  <2>1. rows \subseteq rows' /\ \A r \in kept' : r.group = "page_http" => r \in kept
    BY <1>2, <1>5 DEF Paged
  <2> QED
    BY <1>1, <1>3, <1>4, <2>1, ClaimsMoves
<1> QED
  BY <1>3, <1>7, <1>8, <1>9, <1>10 DEF WorkflowInv

\* A stage fails.
LEMMA FailsStep ==
    ASSUME WorkflowInv, NEW s \in Now, Fails(s)
    PROVE  WorkflowInv'
<1>1. /\ PlanInv /\ Fail(s) /\ s # "finally" /\ (open' = open \/ s = "open_page")
      /\ UNCHANGED <<opt, aborted, late, lease, engine, evidence>>
  BY DEF WorkflowInv, Fails
<1>2. PlanInv /\ Fail(s) /\ s # "finally" /\ UNCHANGED opt
  BY DEF WorkflowInv, Fails
<1>3. /\ PlanInv' /\ outcome' = outcome
      /\ (Passes(s) /\ s \in Swallowed \cup Declines \cup {"overlay_dismissal"}) \/ Throws \/ Finishes(s)
  BY <1>2, Failing
<1>4. s \in Swallowed \cup Declines \cup {"overlay_dismissal"} =>
          s \notin {"capability", "acquire_context", "finally", "claims", "final_report", "open_page"}
  BY DEF Swallowed, Declines
<1> QED
  BY <1>1, <1>3, <1>4, QuietMoves

\* A new run of the browser is on its way, or is there already.
LEMMA PrewarmStep ==
    ASSUME WorkflowInv, NEW s \in Now, Prewarm(s)
    PROVE  WorkflowInv'
<1>1. /\ PlanInv /\ LeaseInv /\ AbortInv /\ EvidenceInv /\ ClaimsInv /\ s = "prewarm"
      /\ UNCHANGED <<opt, aborted, late, outcome, lease, open, rows, kept, claims, source, verdict>>
      /\ todo' = Tail(todo)
  BY DEF WorkflowInv, Prewarm, Continue, evidence
<1>2. PlanInv' /\ Passes(s) /\ Left = {s} \cup Left'
  BY <1>1, Passing DEF Passes
<1>3. "finally" \in Left' /\ Left' \cap Opened = {}
  BY <1>1, Ranks, InsideCapture
<1>4. LeaseInv'
  BY <1>1, <1>2, <1>3 DEF LeaseInv, Closed
<1>5. AbortInv'
  BY <1>1, <1>2, AbortMoves
<1>6. EvidenceInv'
  BY <1>1, <1>2, NoNewEvidence
<1>7. ClaimsInv'
  BY <1>1, <1>2, ClaimsMoves
<1> QED
  BY <1>2, <1>4, <1>5, <1>6, <1>7 DEF WorkflowInv

\* The lease is granted.
LEMMA AcquireContextStep ==
    ASSUME WorkflowInv, NEW s \in Now, AcquireContext(s)
    PROVE  WorkflowInv'
<1>1. /\ PlanInv /\ LeaseInv /\ AbortInv /\ EvidenceInv /\ ClaimsInv /\ s = "acquire_context"
      /\ UNCHANGED <<opt, aborted, late, outcome, open, engine, rows, kept, claims, source, verdict>>
      /\ todo' = Tail(todo) /\ lease' = "active"
  BY DEF WorkflowInv, AcquireContext, Continue, evidence
<1>2. PlanInv' /\ Passes(s) /\ Left = {s} \cup Left'
  BY <1>1, Passing DEF Passes
<1>3. "finally" \in Left' /\ Left' \cap Opened = {}
  BY <1>1, Ranks, InsideCapture
<1>4. LeaseInv'
  BY <1>1, <1>3 DEF LeaseInv, Closed
<1>5. AbortInv'
  BY <1>1, <1>2, AbortMoves
<1>6. EvidenceInv'
  BY <1>1, <1>2, NoNewEvidence
<1>7. ClaimsInv'
  BY <1>1, <1>2, ClaimsMoves
<1> QED
  BY <1>2, <1>4, <1>5, <1>6, <1>7 DEF WorkflowInv

\* The page is fetched, or the fetch declines.
LEMMA Tier0Step ==
    ASSUME WorkflowInv, NEW s \in Now, Tier0(s)
    PROVE  WorkflowInv'
<1>1. /\ PlanInv /\ LeaseInv /\ AbortInv /\ EvidenceInv /\ ClaimsInv /\ s = "http_tier0"
      /\ UNCHANGED <<opt, aborted, late, outcome, lease, open, engine, claims, verdict>>
      /\ Rank(s) = 1
  <2>1. Rank("http_tier0") = 1
    BY Ranks
  <2> QED
    BY <2>1 DEF WorkflowInv, Tier0, browserVars
<1>2. /\ s \in Left /\ Left \subseteq Stage /\ Covered(Left) /\ \A x \in Left : Rank(s) <= Rank(x)
      /\ outcome' = "running"
  BY <1>1, NowIsFirst
<1>3. source = "browser" /\ verdict = "none" /\ (\A r \in kept : r.group \notin Paged)
      /\ (\A r \in rows : r.group # "page_browser")
  BY <1>1, <1>2 DEF EvidenceInv, ClaimsInv
<1>4. CASE Appends({Row("page_http", "ok")}) /\ source' = "http" /\ todo' = ToFinish
  <2>1. PlanInv' /\ Finishes(s) /\ {"finally", "claims", "final_report"} \subseteq Left' /\ \A x \in Left' : Rank(x) \in 6..11
    BY <1>1, <1>2, <1>4, Finishing DEF Finishes
  <2>2. LeaseInv' /\ AbortInv'
    BY <1>1, <2>1, LeaseMoves, AbortMoves
  <2>3. EvidenceInv'
    <3>1. kept' = kept \cup {Row("page_http", "ok")} /\ rows' = rows \cup {Row("page_http", "ok")}
      BY <1>4 DEF Appends
    <3>2. /\ kept' \subseteq rows'
          /\ \A r \in kept' : r.group \notin {"page_cache", "page_browser", "page_failure"}
          /\ \A r \in rows' : r.group # "page_browser" /\ (r.group = "page_http" => r = Row("page_http", "ok"))
      BY <1>1, <1>3, <3>1 DEF EvidenceInv, Paged, Row
    <3>3. "page_capture" \notin late'
      BY <1>1, <1>2 DEF AbortInv, Rethrown
    <3>4. "http_tier0" \notin Left' /\ "cache_replay" \notin Left'
      BY <2>1, Ranks
    <3>5. Row("capability", "ok") \in kept'
      <4>1. Rank("capability") = 0
        BY Ranks DEF Opened, Stage
      <4>2. "claims" \in Left /\ "capability" \notin Left
        BY <1>1, <1>2, <4>1 DEF Covered
      <4> QED
        BY <1>1, <3>1, <4>2 DEF EvidenceInv
    <3> QED
      BY <1>4, <2>1, <3>2, <3>3, <3>4, <3>5 DEF EvidenceInv
  <2>4. ClaimsInv'
    BY <1>1, <1>3, <1>4, <2>1 DEF ClaimsInv, ClaimsHonest, OwnRunAccepted, Appends
  <2> QED
    BY <2>1, <2>2, <2>3, <2>4 DEF WorkflowInv
<1>5. CASE rows' = rows \cup {Row("page_http", "ok")} /\ todo' = Tail(todo) /\ UNCHANGED <<kept, source>>
  <2>1. PlanInv' /\ Passes(s) /\ Left' \subseteq Left
    BY <1>1, <1>5, Passing DEF Passes
  <2>2. LeaseInv' /\ AbortInv'
    BY <1>1, <2>1, LeaseMoves, AbortMoves
  <2>3. EvidenceInv'
    <3>1. \A r \in rows' : r.group # "page_browser" /\ (r.group = "page_http" => r = Row("page_http", "ok"))
      BY <1>1, <1>3, <1>5 DEF EvidenceInv, Row
    <3>2. "claims" \in Left' => "capability" \in Left' \/ Row("capability", "ok") \in kept'
      BY <1>1, <1>5, <2>1 DEF EvidenceInv, Passes
    <3> QED
      BY <1>1, <1>3, <1>5, <3>1, <3>2 DEF EvidenceInv, Paged
  <2>4. ClaimsInv'
    BY <1>1, <1>5, <2>1, ClaimsMoves
  <2> QED
    BY <2>1, <2>2, <2>3, <2>4 DEF WorkflowInv
<1>6. CASE todo' = Tail(todo) /\ UNCHANGED <<rows, kept, source>>
  <2>1. PlanInv' /\ Passes(s)
    BY <1>1, <1>6, Passing DEF Passes
  <2> QED
    BY <1>1, <1>6, <2>1, QuietMoves DEF evidence
<1> QED
  BY <1>4, <1>5, <1>6 DEF Tier0

\* An earlier capture is replayed, or there is none.
LEMMA ReplayStep ==
    ASSUME WorkflowInv, NEW s \in Now, Replay(s)
    PROVE  WorkflowInv'
<1>1. /\ PlanInv /\ LeaseInv /\ AbortInv /\ EvidenceInv /\ ClaimsInv /\ s = "cache_replay"
      /\ UNCHANGED <<opt, aborted, late, outcome, lease, open, engine, claims, verdict>>
      /\ Rank(s) = 2
  <2>1. Rank("cache_replay") = 2
    BY Ranks
  <2> QED
    BY <2>1 DEF WorkflowInv, Replay, browserVars
<1>2. /\ s \in Left /\ Left \subseteq Stage /\ Covered(Left) /\ \A x \in Left : Rank(s) <= Rank(x)
      /\ outcome' = "running"
  BY <1>1, NowIsFirst
<1>3. source = "browser" /\ verdict = "none" /\ (\A r \in kept : r.group \notin Paged)
  BY <1>1, <1>2 DEF EvidenceInv, ClaimsInv
<1>4. CASE Appends({Row("page_cache", "ok")}) /\ source' = "cache" /\ todo' = ToFinish
  <2>1. PlanInv' /\ Finishes(s) /\ {"finally", "claims", "final_report"} \subseteq Left' /\ \A x \in Left' : Rank(x) \in 6..11
    BY <1>1, <1>2, <1>4, Finishing DEF Finishes
  <2>2. LeaseInv' /\ AbortInv'
    BY <1>1, <2>1, LeaseMoves, AbortMoves
  <2>3. EvidenceInv'
    <3>1. kept' = kept \cup {Row("page_cache", "ok")} /\ rows' = rows \cup {Row("page_cache", "ok")}
      BY <1>4 DEF Appends
    <3>2. /\ kept' \subseteq rows'
          /\ \A r \in kept' : r.group \notin {"page_http", "page_browser", "page_failure"}
          /\ \A r \in rows' : r.group = "page_http" => r = Row("page_http", "ok")
      BY <1>1, <1>3, <3>1 DEF EvidenceInv, Paged, Row
    <3>3. "http_tier0" \notin Left' /\ "cache_replay" \notin Left'
      BY <2>1, Ranks
    <3>4. Row("capability", "ok") \in kept'
      <4>1. Rank("capability") = 0
        BY Ranks DEF Opened, Stage
      <4>2. "claims" \in Left /\ "capability" \notin Left
        BY <1>1, <1>2, <4>1 DEF Covered
      <4> QED
        BY <1>1, <3>1, <4>2 DEF EvidenceInv
    <3> QED
      BY <1>4, <2>1, <3>2, <3>3, <3>4 DEF EvidenceInv
  <2>4. ClaimsInv'
    BY <1>1, <1>3, <1>4, <2>1 DEF ClaimsInv, ClaimsHonest, OwnRunAccepted, Appends
  <2> QED
    BY <2>1, <2>2, <2>3, <2>4 DEF WorkflowInv
<1>5. CASE todo' = Tail(todo) /\ UNCHANGED <<rows, kept, source>>
  <2>1. PlanInv' /\ Passes(s)
    BY <1>1, <1>5, Passing DEF Passes
  <2> QED
    BY <1>1, <1>5, <2>1, QuietMoves DEF evidence
<1> QED
  BY <1>4, <1>5 DEF Replay

\* The page is opened in its context.
LEMMA OpenPageStep ==
    ASSUME WorkflowInv, NEW s \in Now, OpenPage(s)
    PROVE  WorkflowInv'
<1>1. /\ PlanInv /\ LeaseInv /\ AbortInv /\ EvidenceInv /\ ClaimsInv /\ s = "open_page"
      /\ UNCHANGED <<opt, aborted, late, outcome, lease, engine, rows, kept, claims, source, verdict>>
      /\ todo' = Tail(todo) /\ lease = "active"
  BY DEF WorkflowInv, OpenPage, Continue, evidence
<1>2. PlanInv' /\ Passes(s)
  BY <1>1, Passing DEF Passes
<1>3. "finally" \in Left' /\ Left' \cap Opened = {}
  BY <1>1, Ranks, InsideCapture
<1>4. LeaseInv'
  BY <1>1, <1>3 DEF LeaseInv, Closed
<1>5. AbortInv' /\ EvidenceInv' /\ ClaimsInv'
  <2>1. late' \subseteq late \cup {s}
    BY <1>1
  <2> QED
    BY <1>1, <1>2, <2>1, AbortMoves, NoNewEvidence, ClaimsMoves
<1> QED
  BY <1>2, <1>4, <1>5 DEF WorkflowInv

\* The page is captured, or its failure is recorded.
LEMMA PageCaptureStep ==
    ASSUME WorkflowInv, NEW s \in Now, PageCapture(s)
    PROVE  WorkflowInv'
<1>1. /\ PlanInv /\ LeaseInv /\ AbortInv /\ EvidenceInv /\ ClaimsInv /\ s = "page_capture"
      /\ UNCHANGED <<opt, aborted, late, outcome, lease, open, engine, claims, source, verdict>>
      /\ todo' = Tail(todo)
  BY DEF WorkflowInv, PageCapture, Continue, browserVars
<1>2. PlanInv' /\ Passes(s)
  BY <1>1, Passing DEF Passes
<1>3. PICK new \in Yields(s) : rows' = rows \cup new /\ kept' = kept \cup new
  BY DEF PageCapture, Appends
<1>4. \A r \in new : r.group = "page_browser"
  BY <1>1, <1>3 DEF Yields, Either, Row
<1>5. source = "browser" /\ (\A x \in Left' : Rank(x) >= 4)
  <2>1. Rank(s) = 4
    BY <1>1, Ranks DEF Capturing
  <2>2. s \in Left
    BY <1>1, NowIsFirst
  <2> QED
    BY <1>1, <1>2, <2>1, <2>2 DEF EvidenceInv, Passes
<1>6. EvidenceInv'
  <2>1. "http_tier0" \notin Left' /\ "cache_replay" \notin Left'
    BY <1>5, Ranks
  <2>2. /\ kept' \subseteq rows'
        /\ \A r \in kept' : r.group # "page_http" /\ r.group # "page_cache"
        /\ \A r \in rows' : r.group = "page_http" => r = Row("page_http", "ok")
    BY <1>1, <1>3, <1>4, <1>5 DEF EvidenceInv
  <2>3. "claims" \in Left' => "capability" \in Left' \/ Row("capability", "ok") \in kept'
    BY <1>1, <1>2, <1>3 DEF EvidenceInv, Passes
  <2> QED
    BY <1>1, <1>5, <2>1, <2>2, <2>3 DEF EvidenceInv
<1>7. ClaimsInv'
  <2>1. rows \subseteq rows' /\ \A r \in kept' : r.group = "page_http" => r \in kept
    BY <1>3, <1>4
  <2> QED
    BY <1>1, <1>2, <2>1, ClaimsMoves
<1>8. LeaseInv' /\ AbortInv'
  BY <1>1, <1>2, LeaseMoves, AbortMoves
<1> QED
  BY <1>2, <1>6, <1>7, <1>8 DEF WorkflowInv

\* The failure of the capture is what the capture returns.
LEMMA CaptureFailureStep ==
    ASSUME WorkflowInv, NEW s \in Now, CaptureFailure(s)
    PROVE  WorkflowInv'
<1>1. /\ PlanInv /\ LeaseInv /\ AbortInv /\ EvidenceInv /\ ClaimsInv /\ s = "capture_failure"
      /\ UNCHANGED <<opt, aborted, late, outcome, lease, open, engine, claims, source, verdict>>
      /\ todo' = Tail(todo)
  BY DEF WorkflowInv, CaptureFailure, Continue, browserVars
<1>2. PlanInv' /\ Passes(s)
  BY <1>1, Passing DEF Passes
<1>3. PICK new \in Yields(s) : rows' = rows \cup new /\ kept' = AfterError \cup new
  BY DEF CaptureFailure
<1>4. \A r \in new : r.group = "page_failure"
  BY <1>1, <1>3 DEF Yields, Row
<1>5. source = "browser" /\ (\A x \in Left' : Rank(x) >= 4)
  <2>1. Rank(s) = 4
    BY <1>1, Ranks DEF Capturing
  <2>2. s \in Left
    BY <1>1, NowIsFirst
  <2> QED
    BY <1>1, <1>2, <2>1, <2>2 DEF EvidenceInv, Passes
<1>6. AfterError \subseteq kept /\ (Row("capability", "ok") \in kept => Row("capability", "ok") \in AfterError)
  BY DEF AfterError, Forgotten, Row
<1>7. EvidenceInv'
  <2>1. "http_tier0" \notin Left' /\ "cache_replay" \notin Left'
    BY <1>5, Ranks
  <2>2. /\ kept' \subseteq rows'
        /\ \A r \in kept' : r.group # "page_http" /\ r.group # "page_cache"
        /\ \A r \in rows' : r.group = "page_http" => r = Row("page_http", "ok")
    BY <1>1, <1>3, <1>4, <1>5, <1>6 DEF EvidenceInv
  <2>3. "claims" \in Left' => "capability" \in Left' \/ Row("capability", "ok") \in kept'
    BY <1>1, <1>2, <1>3, <1>6 DEF EvidenceInv, Passes
  <2> QED
    BY <1>1, <1>5, <2>1, <2>2, <2>3 DEF EvidenceInv
<1>8. ClaimsInv'
  <2>1. rows \subseteq rows' /\ \A r \in kept' : r.group = "page_http" => r \in kept
    BY <1>3, <1>4, <1>6
  <2> QED
    BY <1>1, <1>2, <2>1, ClaimsMoves
<1>9. LeaseInv' /\ AbortInv'
  BY <1>1, <1>2, LeaseMoves, AbortMoves
<1> QED
  BY <1>2, <1>7, <1>8, <1>9 DEF WorkflowInv

\* The lease is given back after the capture.
LEMMA ReleaseStep ==
    ASSUME WorkflowInv, NEW s \in Now, Release(s)
    PROVE  WorkflowInv'
<1>1. /\ PlanInv /\ LeaseInv /\ AbortInv /\ EvidenceInv /\ ClaimsInv /\ s = "release"
      /\ UNCHANGED <<opt, aborted, late, outcome, engine, rows, kept, claims, source, verdict>>
      /\ todo' = Tail(todo) /\ lease' = "released" /\ (opt.profile = "none" => ~open')
  BY DEF WorkflowInv, Release, Released, ClosedUnlessUnsaved, Continue, evidence
<1>2. PlanInv' /\ Passes(s)
  BY <1>1, Passing DEF Passes
<1>3. "finally" \in Left' /\ Left' \cap Opened = {}
  BY <1>1, Ranks, InsideCapture
<1>4. LeaseInv'
  <2>1. "open_page" \notin Left'
    BY <1>1, <1>2, Ranks DEF Passes
  <2> QED
    BY <1>1, <1>3, <2>1 DEF LeaseInv, Closed
<1>5. AbortInv' /\ EvidenceInv' /\ ClaimsInv'
  <2>1. late' \subseteq late \cup {s}
    BY <1>1
  <2> QED
    BY <1>1, <1>2, <2>1, AbortMoves, NoNewEvidence, ClaimsMoves
<1> QED
  BY <1>2, <1>4, <1>5 DEF WorkflowInv

\* The finally block leaves nothing open that it can close.
LEMMA FinallyStep ==
    ASSUME WorkflowInv, NEW s \in Now, Finally(s)
    PROVE  WorkflowInv'
<1>1. /\ PlanInv /\ LeaseInv /\ AbortInv /\ EvidenceInv /\ ClaimsInv /\ s = "finally"
      /\ UNCHANGED <<opt, aborted, late, outcome, rows, kept, claims, source, verdict>>
      /\ todo' = Tail(todo)
  BY DEF WorkflowInv, Finally, Continue, evidence
<1>2. PlanInv' /\ Passes(s)
  BY <1>1, Passing DEF Passes
<1>3. /\ lease' \in {"none", "released"} /\ Closed' /\ (open' => MayStayOpen')
  <2>1. lease' = IF lease \in {"active", "expired"} THEN "released" ELSE lease
    BY DEF Finally
  <2>2. CASE opt.ownsPool /\ opt.profile # "persistent"
    <3>1. ~open'
      BY <2>2 DEF Finally
    <3> QED
      BY <1>1, <2>1, <3>1 DEF LeaseInv, Closed
  <2>3. CASE ~(opt.ownsPool /\ opt.profile # "persistent") /\ lease' # lease
    <3>1. open' => opt.profile # "none"
      BY <2>3 DEF Finally, ClosedUnlessUnsaved
    <3> QED
      BY <1>1, <2>1, <2>3, <3>1 DEF LeaseInv, Closed, MayStayOpen
  <2>4. CASE ~(opt.ownsPool /\ opt.profile # "persistent") /\ lease' = lease
    <3>1. open' = open
      BY <2>4 DEF Finally
    <3> QED
      BY <1>1, <2>1, <2>4, <3>1 DEF LeaseInv, Closed, MayStayOpen
  <2> QED
    BY <2>2, <2>3, <2>4
<1>4. opt'.ownsPool => ~engine'
  BY <1>1 DEF Finally
<1>5. LeaseInv'
  <2>1. "open_page" \notin Left'
    BY <1>1, <1>2, Ranks DEF Passes
  <2> QED
    BY <1>1, <1>3, <1>4, <2>1 DEF LeaseInv, Clean
<1>6. AbortInv' /\ EvidenceInv' /\ ClaimsInv'
  <2>1. late' \subseteq late \cup {s}
    BY <1>1
  <2> QED
    BY <1>1, <1>2, <2>1, AbortMoves, NoNewEvidence, ClaimsMoves
<1> QED
  BY <1>2, <1>5, <1>6 DEF WorkflowInv

\* The claims are written.
LEMMA AppendClaimsStep ==
    ASSUME WorkflowInv, NEW s \in Now, AppendClaims(s)
    PROVE  WorkflowInv'
<1>1. /\ PlanInv /\ LeaseInv /\ AbortInv /\ EvidenceInv /\ ClaimsInv /\ s = "claims"
      /\ UNCHANGED <<opt, aborted, late, outcome, lease, open, engine, rows, kept, source, verdict>>
      /\ todo' = Tail(todo) /\ claims' = BuildClaims
  BY DEF WorkflowInv, AppendClaims, Continue, browserVars
<1>2. PlanInv' /\ Passes(s)
  BY <1>1, Passing DEF Passes
<1>3. /\ s \in Left /\ \A x \in Left : Rank(s) <= Rank(x)
      /\ Rank(s) = 8 /\ Rank("capability") = 0
  BY <1>1, NowIsFirst, Ranks DEF Opened, Stage
<1>4. claims' # {}
  <2>1. "capability" \notin Left
    BY <1>3
  <2> QED
    BY <1>1, <1>3, <2>1, SomethingIsClaimed DEF EvidenceInv
<1>5. ClaimsHonest' /\ (\A c \in claims' : c.level = "visual" => c.row.group = "frame")
  BY <1>1, BuiltClaims DEF ClaimsHonest
<1>6. verdict' = "none"
  BY <1>1, <1>3 DEF ClaimsInv
<1>7. ClaimsInv'
  BY <1>4, <1>5, <1>6 DEF ClaimsInv, OwnRunAccepted
<1>8. LeaseInv' /\ AbortInv' /\ EvidenceInv'
  <2>1. late' \subseteq late \cup {s}
    BY <1>1
  <2> QED
    BY <1>1, <1>2, <2>1, LeaseMoves, AbortMoves, NoNewEvidence
<1> QED
  BY <1>2, <1>7, <1>8 DEF WorkflowInv

\* The gate judges the run's own claims.
LEMMA ClaimGateStep ==
    ASSUME WorkflowInv, NEW s \in Now, ClaimGate(s)
    PROVE  WorkflowInv'
<1>1. /\ PlanInv /\ LeaseInv /\ AbortInv /\ EvidenceInv /\ ClaimsInv /\ s = "claim_gate"
      /\ UNCHANGED <<opt, aborted, late, outcome, lease, open, engine, rows, kept, claims, source>>
      /\ todo' = Tail(todo) /\ verdict' = IF GateAccepts THEN "ok" ELSE "rejected"
  BY DEF WorkflowInv, ClaimGate, Continue, browserVars
<1>2. PlanInv' /\ Passes(s)
  BY <1>1, Passing DEF Passes
<1>3. /\ s \in Left /\ \A x \in Left : Rank(s) <= Rank(x)
      /\ Rank(s) = 9 /\ Rank("claims") = 8
  BY <1>1, NowIsFirst, Ranks
<1>4. claims # {}
  <2>1. "claims" \notin Left
    BY <1>3
  <2> QED
    BY <1>1, <1>3, <2>1 DEF ClaimsInv
<1>5. OwnRunAccepted'
  <2>1. SUFFICES ASSUME ~GateAccepts PROVE Row("page_http", "ok") \in rows \ kept
    BY <1>1 DEF OwnRunAccepted
  <2>2. \A c \in claims : c.row \in rows /\ (c.level = "visual" => c.row.group = "frame")
    BY <1>1 DEF ClaimsInv, ClaimsHonest
  <2>3. PICK r \in rows : r.group = "page_http" /\ \E q \in rows : q.group = "page_browser"
    BY <1>4, <2>1, <2>2 DEF GateAccepts, Overwritten
  <2>4. r = Row("page_http", "ok")
    BY <1>1, <2>3 DEF EvidenceInv
  <2>5. r \notin kept
    BY <1>1, <2>3 DEF EvidenceInv
  <2> QED
    BY <2>3, <2>4, <2>5
<1>6. ClaimsInv'
  <2>1. ClaimsHonest' /\ \A c \in claims' : c.level = "visual" => c.row.group = "frame"
    BY <1>1 DEF ClaimsInv, ClaimsHonest
  <2>2. \A x \in Left' : Rank(x) >= 9
    BY <1>2, <1>3 DEF Passes
  <2> QED
    BY <1>1, <1>4, <1>5, <2>1, <2>2 DEF ClaimsInv
<1>7. LeaseInv' /\ AbortInv' /\ EvidenceInv'
  <2>1. late' \subseteq late \cup {s}
    BY <1>1
  <2> QED
    BY <1>1, <1>2, <2>1, LeaseMoves, AbortMoves, NoNewEvidence
<1> QED
  BY <1>2, <1>6, <1>7 DEF WorkflowInv

\* The report is written: no abort has been seen before it.
LEMMA FinalReportStep ==
    ASSUME WorkflowInv, NEW s \in Now, FinalReport(s)
    PROVE  WorkflowInv'
<1>1. /\ PlanInv /\ s = "final_report"
      /\ UNCHANGED <<opt, aborted, late, outcome, lease, open, engine, evidence>>
      /\ todo' = Tail(todo) /\ outcome' = outcome
  BY DEF WorkflowInv, FinalReport, Continue, browserVars
<1>2. aborted # "early"
  BY <1>1 DEF FinalReport, Returns, EndsRaced
<1>3. PlanInv' /\ Passes(s)
  BY <1>1, Passing DEF Passes
<1> QED
  BY <1>1, <1>2, <1>3, QuietMoves

\* An abort ends the stage; what it was writing it may still write.
LEMMA InterruptedStep ==
    ASSUME WorkflowInv, NEW s \in Now, Interrupted(s)
    PROVE  WorkflowInv'
<1>1. /\ PlanInv /\ LeaseInv /\ AbortInv /\ EvidenceInv /\ ClaimsInv
      /\ UNCHANGED <<opt, aborted, lease, engine, rows, kept, claims, source, verdict>>
      /\ s \in RacedWrites \cup RacedWaits
      /\ aborted # "no"
      /\ late' = late \cup ({s} \cap RacedWrites)
      /\ open' = open \/ s = "open_page"
  BY DEF WorkflowInv, Interrupted, evidence
<1>2. s # "finally" /\ s # "acquire_context"
  BY <1>1 DEF RacedWrites, RacedWaits
<1>3. /\ PlanInv' /\ outcome' = outcome
      /\ \/ Passes(s) /\ s \in Swallowed \cup Declines \cup {"overlay_dismissal"} /\ open' = open
         \/ Throws
         \/ Finishes(s) /\ s = "open_page"
  <2>1. CASE s \in Swallowed \cup Declines /\ Continue
    <3>1. s # "open_page"
      BY <2>1 DEF Swallowed, Declines
    <3>2. open' = open /\ outcome' = outcome /\ todo' = Tail(todo)
      BY <1>1, <2>1, <3>1 DEF Continue
    <3>3. PlanInv' /\ Passes(s)
      BY <1>1, <3>2, Passing DEF Passes
    <3> QED
      BY <2>1, <3>2, <3>3
  <2>2. CASE Throw("aborted")
    <3>1. outcome' = outcome
      BY <2>2 DEF Throw
    <3> QED
      BY <1>1, <2>2, <3>1, Throwing DEF Throws, Rethrown
  <2>3. CASE s = "open_page" /\ Fail(s)
    <3>1. s \notin Swallowed \cup Declines \cup {"overlay_dismissal"}
      BY <2>3 DEF Swallowed, Declines
    <3>2. UNCHANGED opt
      BY <1>1
    <3> QED
      BY <1>1, <1>2, <2>3, <3>1, <3>2, Failing
  <2> QED
    BY <2>1, <2>2, <2>3 DEF Interrupted
<1>4. s \notin {"capability", "acquire_context", "finally", "claims", "final_report", "page_capture"} \/ Throws
  <2>1. s \in Swallowed \cup Declines \cup {"overlay_dismissal", "open_page"} =>
            s \notin {"capability", "acquire_context", "finally", "claims", "final_report", "page_capture"}
    BY DEF Swallowed, Declines
  <2> QED
    BY <1>3, <2>1
<1>5. LeaseInv'
  BY <1>1, <1>2, <1>3, LeaseMoves
<1>6. AbortInv'
  <2>1. /\ s \in Left /\ s \in Stage \ Rethrown /\ Covered(Left) /\ outcome' = "running"
    BY <1>1, <1>3, NowIsFirst
  <2>2. s \in RacedWrites => "final_report" \in Left
    <3>1. s \in RacedWrites => Rank(s) < 10
      <4>1. RacedWrites \subseteq Opened \cup Capturing \cup Analysed \cup {"claims"}
        BY DEF RacedWrites, Opened, Capturing, Analysed
      <4>2. \A x \in Opened \cup Capturing \cup Analysed \cup {"claims"} : Rank(x) < 10
        BY Ranks DEF Stage
      <4> QED
        BY <4>1, <4>2
    <3> QED
      BY <1>2, <2>1, <3>1 DEF Covered
  <2>3. late' # {} => aborted' = "early"
    BY <1>1, <2>2 DEF AbortInv
  <2>4. late' \cap {"claims", "page_capture"} # {} => Left' \subseteq {"finally"} \cup Rethrown
    <3>1. late \cap {"claims", "page_capture"} = {}
      BY <1>1, <1>2, <2>1 DEF AbortInv
    <3>2. late' \cap {"claims", "page_capture"} # {} => s \in {"claims", "page_capture"}
      BY <1>1, <3>1
    <3>3. Throws => Left' \subseteq {"finally"} \cup Rethrown
      BY DEF Throws
    <3> QED
      BY <1>4, <3>2, <3>3
  <2>5. aborted' = "late" => "final_report" \notin Left'
    <3>1. CASE Passes(s)
      BY <1>1, <3>1 DEF Passes, AbortInv
    <3>2. CASE Throws
      BY <3>2 DEF Throws, Rethrown
    <3>3. CASE Finishes(s)
      <4>1. "final_report" \in Left
        BY <1>2, <2>1, <3>3 DEF Finishes, Covered
      <4> QED
        BY <1>1, <4>1 DEF AbortInv
    <3> QED
      BY <1>3, <3>1, <3>2, <3>3
  <2>6. aborted' = "early" => Left' \cap (Rethrown \cup {"final_report"}) # {}
    <3>1. CASE Passes(s) /\ s # "final_report"
      BY <1>1, <1>3, <2>1, <3>1 DEF Passes, AbortInv, Rethrown
    <3>2. CASE Throws
      BY <3>2 DEF Throws, Rethrown
    <3>3. CASE Finishes(s)
      BY <3>3 DEF Finishes
    <3> QED
      BY <1>3, <1>4, <3>1, <3>2, <3>3
  <2>7. aborted' \in {"no", "early", "late"} /\ outcome' # "completed"
    BY <1>1, <2>1 DEF AbortInv
  <2> QED
    BY <2>3, <2>4, <2>5, <2>6, <2>7 DEF AbortInv
<1>7. EvidenceInv'
  <2>1. late' \subseteq late \cup {s} /\ UNCHANGED <<rows, kept, source>>
    BY <1>1
  <2> QED
    BY <1>1, <1>3, <1>4, <2>1, NoNewEvidence
<1>8. ClaimsInv'
  BY <1>1, <1>3, <1>4, ClaimsMoves
<1> QED
  BY <1>3, <1>5, <1>6, <1>7, <1>8 DEF WorkflowInv

\* What was given up goes on to write.
LEMMA LateWorkStep ==
    ASSUME WorkflowInv, NEW s \in late, LateWork(s)
    PROVE  WorkflowInv'
<1>1. /\ PlanInv /\ LeaseInv /\ AbortInv /\ EvidenceInv /\ ClaimsInv
      /\ UNCHANGED <<opt, aborted, todo, outcome, lease, open, engine, kept, source, verdict>>
      /\ late' = late \ {s}
  BY DEF WorkflowInv, LateWork, control, browserVars
<1>2. PlanInv' /\ LeaseInv' /\ Left' = Left
  BY <1>1 DEF PlanInv, LeaseInv, Left, Clean, Closed, MayStayOpen
<1>3. AbortInv'
  BY <1>1, <1>2 DEF AbortInv
<1>4. CASE s = "claims" /\ claims' = BuildClaims /\ UNCHANGED rows
  <2>1. EvidenceInv'
    BY <1>1, <1>2, <1>4 DEF EvidenceInv
  <2>2. "claim_gate" \notin Left'
    BY <1>1, <1>2, <1>4 DEF AbortInv, Rethrown
  <2>3. ClaimsHonest' /\ (\A c \in claims' : c.level = "visual" => c.row.group = "frame")
    BY <1>1, <1>4, BuiltClaims DEF ClaimsHonest
  <2>4. OwnRunAccepted' /\ (verdict' # "none" => \A x \in Left' : Rank(x) >= 9)
    BY <1>1, <1>2, <1>4 DEF ClaimsInv, OwnRunAccepted
  <2>5. ClaimsInv'
    BY <2>2, <2>3, <2>4 DEF ClaimsInv
  <2> QED
    BY <1>2, <1>3, <2>1, <2>5 DEF WorkflowInv
<1>5. CASE UNCHANGED claims /\ ((\E new \in Yields(s) : rows' = rows \cup new) \/ UNCHANGED rows)
  <2>1. PICK new : /\ rows' = rows \cup new
                   /\ \A r \in new : r.group # "page_http" /\ (s # "page_capture" => r.group # "page_browser")
    <3>1. CASE \E new \in Yields(s) : rows' = rows \cup new
      BY <3>1, NoPageRows
    <3>2. CASE UNCHANGED rows
      <4>1. PICK new : new = {}
        OBVIOUS
      <4>2. rows' = rows \cup new /\ \A r \in new : FALSE
        BY <3>2, <4>1
      <4> QED
        BY <4>2
    <3> QED
      BY <1>5, <3>1, <3>2
  <2>2. s = "page_capture" => source # "http" /\ "http_tier0" \notin Left
    BY <1>1 DEF EvidenceInv, AbortInv, Rethrown
  <2>3. EvidenceInv'
    <3>1. source' = "http" \/ "http_tier0" \in Left' => \A r \in rows' : r.group # "page_browser"
      BY <1>1, <1>2, <2>1, <2>2 DEF EvidenceInv
    <3>2. \A r \in rows' : r.group = "page_http" => r = Row("page_http", "ok")
      BY <1>1, <2>1 DEF EvidenceInv
    <3>3. kept' \subseteq rows'
      BY <1>1, <2>1 DEF EvidenceInv
    <3> QED
      BY <1>1, <1>2, <3>1, <3>2, <3>3 DEF EvidenceInv
  <2>4. ClaimsInv'
    <3>1. ClaimsHonest' /\ \A c \in claims' : c.level = "visual" => c.row.group = "frame"
      BY <1>1, <1>5, <2>1 DEF ClaimsInv, ClaimsHonest
    <3>2. OwnRunAccepted'
      BY <1>1, <2>1 DEF ClaimsInv, OwnRunAccepted, Row
    <3> QED
      BY <1>1, <1>2, <1>5, <3>1, <3>2 DEF ClaimsInv
  <2> QED
    BY <1>2, <1>3, <2>3, <2>4 DEF WorkflowInv
<1> QED
  BY <1>4, <1>5 DEF LateWork

\* Somebody aborts the run.
LEMMA AbortStep ==
    ASSUME WorkflowInv, Abort
    PROVE  WorkflowInv'
<1>1. /\ PlanInv /\ LeaseInv /\ AbortInv /\ EvidenceInv /\ ClaimsInv
      /\ UNCHANGED <<opt, late, todo, outcome, lease, open, engine, rows, kept, claims, source, verdict>>
      /\ outcome = "running" /\ aborted = "no"
      /\ aborted' = IF "final_report" \in Left THEN "early" ELSE "late"
  BY DEF WorkflowInv, Abort, control, browserVars, evidence, Left
<1>2. Left' = Left
  BY <1>1 DEF Left
<1>3. PlanInv' /\ LeaseInv' /\ EvidenceInv'
  BY <1>1, <1>2 DEF PlanInv, LeaseInv, EvidenceInv, Clean, Closed, MayStayOpen
<1>4. ClaimsInv'
  BY <1>1, <1>2 DEF ClaimsInv, ClaimsHonest, OwnRunAccepted
<1>5. AbortInv'
  BY <1>1, <1>2 DEF AbortInv
<1> QED
  BY <1>3, <1>4, <1>5 DEF WorkflowInv

\* The lease runs out.
LEMMA LeaseExpiresStep ==
    ASSUME WorkflowInv, LeaseExpires
    PROVE  WorkflowInv'
<1>1. /\ PlanInv /\ LeaseInv /\ AbortInv /\ EvidenceInv /\ ClaimsInv
      /\ UNCHANGED <<opt, aborted, late, todo, outcome, engine, rows, kept, claims, source, verdict>>
      /\ lease = "active" /\ lease' = "expired"
  BY DEF WorkflowInv, LeaseExpires, control, evidence
<1>2. Left' = Left
  BY <1>1 DEF Left
<1>3. PlanInv' /\ AbortInv' /\ EvidenceInv'
  BY <1>1, <1>2 DEF PlanInv, AbortInv, EvidenceInv
<1>4. ClaimsInv'
  BY <1>1, <1>2 DEF ClaimsInv, ClaimsHonest, OwnRunAccepted
<1>5. LeaseInv'
  <2>1. "finally" \in Left' /\ Left' \cap Opened = {}
    BY <1>1, <1>2 DEF LeaseInv, Clean
  <2> QED
    BY <1>1, <2>1 DEF LeaseInv, Closed
<1> QED
  BY <1>3, <1>4, <1>5 DEF WorkflowInv

\* The run ends, with its result or with an error.
LEMMA SettleStep ==
    ASSUME WorkflowInv, Settle
    PROVE  WorkflowInv'
<1>1. /\ PlanInv /\ LeaseInv /\ AbortInv /\ EvidenceInv /\ ClaimsInv
      /\ UNCHANGED <<opt, aborted, late, lease, open, engine, rows, kept, claims, source, verdict>>
      /\ outcome = "running"
  BY DEF WorkflowInv, Settle, browserVars, evidence
<1>2. /\ todo' = <<>> /\ Left \subseteq Rethrown
      /\ \/ Left = {} /\ outcome' = "completed"
         \/ outcome' \in Rethrown
  <2>1. CASE todo = <<>> /\ outcome' = "completed" /\ UNCHANGED todo
    BY <2>1 DEF Left, Range
  <2>2. CASE todo # <<>> /\ Head(todo) \in Rethrown /\ outcome' = Head(todo) /\ todo' = <<>>
    <3>1. Range(todo) = {Head(todo)} \cup Range(Tail(todo)) /\ Tail(todo) = <<>>
      BY <1>1, <2>2, HeadAndTail DEF PlanInv, Planned
    <3>2. Range(<<>>) = {}
      BY DEF Range
    <3> QED
      BY <2>2, <3>1, <3>2 DEF Left
  <2> QED
    BY <2>1, <2>2 DEF Settle
<1>3. Left' = {}
  BY <1>2 DEF Left, Range
<1>4. PlanInv'
  <2>1. todo' \in Seq(Stage) /\ Ordered(todo') /\ Covered(Left')
    BY <1>2, <1>3 DEF Ordered, Covered
  <2> QED
    BY <1>2, <2>1 DEF PlanInv, Planned, Left
<1>5. Clean'
  <2>1. "finally" \notin Left
    BY <1>2 DEF Rethrown
  <2> QED
    BY <1>1, <2>1 DEF LeaseInv, Clean, MayStayOpen
<1>6. LeaseInv'
  BY <1>1, <1>3, <1>5 DEF LeaseInv, Closed
<1>7. AbortInv'
  BY <1>1, <1>2, <1>3 DEF AbortInv, Rethrown
<1>8. EvidenceInv' /\ ClaimsInv'
  BY <1>1, <1>3 DEF EvidenceInv, ClaimsInv, ClaimsHonest, OwnRunAccepted
<1> QED
  BY <1>4, <1>6, <1>7, <1>8 DEF WorkflowInv

\* A run starts with the whole plan before it and nothing behind.
LEMMA InitHolds == Init => WorkflowInv
<1> SUFFICES ASSUME Init PROVE WorkflowInv
  OBVIOUS
<1>1. /\ Part(todo, 0, 11)
      /\ {"capability", "acquire_context", "finally", "claims", "final_report"} \subseteq Left
  BY WholePlan DEF Init, Left
<1>2. PlanInv
  <2>1. Planned(todo)
    BY <1>1, PartIsPlan DEF Left
  <2> QED
    BY <2>1 DEF PlanInv, Init
<1>3. LeaseInv
  <2>1. PICK o \in Options : opt = RuntimeOptions(o)
    BY DEF Init
  <2>2. opt.profile = o.profile
    BY <2>1 DEF RuntimeOptions
  <2>3. opt.profile \in {"none", "storage_state", "persistent"}
    BY <2>2, OptionsAssumption
  <2> QED
    BY <1>1, <2>3 DEF LeaseInv, Init, Clean, Closed
<1>4. AbortInv /\ EvidenceInv
  BY <1>1 DEF AbortInv, EvidenceInv, Init
<1>5. ClaimsInv
  BY <1>1 DEF ClaimsInv, ClaimsHonest, OwnRunAccepted, Init
<1> QED
  BY <1>2, <1>3, <1>4, <1>5 DEF WorkflowInv

-----------------------------------------------------------------------------
\* The theorems.

\* The stages left are in the order of the code and the finally block stands
\* between a capture and the end; a lease, a browser of its own and a context,
\* unless a failed release left it, are open only before that block; an abort that came before the report keeps
\* the run from getting past it; what is held for the claims is in the ledger.
\* It holds of every run of runEvidenceWorkflow (evidence-runner.ts:74-465).
THEOREM WorkflowInvariant == Spec => []WorkflowInv
<1>1. WorkflowInv /\ [Next]_vars => WorkflowInv'
  <2> SUFFICES ASSUME WorkflowInv, [Next]_vars PROVE WorkflowInv'
    OBVIOUS
  <2>1. ASSUME NEW s \in Now, Begin(s) \/ StopsAtCheck(s) \/ Skip(s) \/ Interrupted(s) PROVE WorkflowInv'
    BY <2>1, BeginStep, CheckStep, SkipStep, InterruptedStep
  <2>2. ASSUME NEW s \in Now, StageEnds(s) PROVE WorkflowInv'
    BY <2>2, SucceedsStep, Tier0Step, ReplayStep, PrewarmStep, AcquireContextStep, OpenPageStep, PageCaptureStep,
       CaptureFailureStep, ReleaseStep, FinallyStep, AppendClaimsStep, ClaimGateStep, FinalReportStep, FailsStep
       DEF StageEnds
  <2>3. ASSUME NEW s \in late, LateWork(s) PROVE WorkflowInv'
    BY <2>3, LateWorkStep
  <2>4. CASE Abort \/ LeaseExpires \/ Settle
    BY <2>4, AbortStep, LeaseExpiresStep, SettleStep
  <2>5. CASE UNCHANGED vars
    BY <2>5 DEF vars, control, browserVars, evidence, WorkflowInv, PlanInv, LeaseInv, AbortInv, EvidenceInv,
       ClaimsInv, Left, Clean, Closed, MayStayOpen, ClaimsHonest, OwnRunAccepted
  <2> QED
    BY <2>1, <2>2, <2>3, <2>4, <2>5 DEF Next
<1> QED
  BY <1>1, InitHolds, PTL DEF Spec

\* Whatever way a run ends, its lease has been given back and a pool of its own is
\* shut down; its context is closed, but for that of a named profile whose release
\* failed (evidence-runner.ts:974-975 and the finally block, 1013-1020).
THEOREM RunsCleanUp == Spec => []NothingLeftOpen
<1>1. WorkflowInv => NothingLeftOpen
  <2>1. Range(<<>>) = {}
    BY DEF Range
  <2> QED
    BY <2>1 DEF WorkflowInv, PlanInv, LeaseInv, NothingLeftOpen, Left, Clean
<1> QED
  BY <1>1, WorkflowInvariant, PTL

\* The claims a run makes of itself cite rows of its ledger, say how they were
\* got, and stand in its own gate (buildClaims and runClaimGate,
\* evidence-runner.ts:391-412, 1701-1877).
THEOREM OwnClaimsAlwaysStand == Spec => []OwnClaimsStand
<1>1. WorkflowInv => OwnClaimsStand
  BY DEF WorkflowInv, ClaimsInv, OwnClaimsStand
<1> QED
  BY <1>1, WorkflowInvariant, PTL

\* A run that was cancelled before its report never completes, and a completed
\* run has no work left that could still write (throwIfAborted and withAbort,
\* abort.ts:1-45, around every stage).
THEOREM AbortsAreHonoured == Spec => []AbortHonoured
<1>1. WorkflowInv => AbortHonoured
  BY DEF WorkflowInv, AbortInv, AbortHonoured
<1> QED
  BY <1>1, WorkflowInvariant, PTL
=============================================================================
