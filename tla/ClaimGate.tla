----------------------------- MODULE ClaimGate -----------------------------
(***************************************************************************)
(* What a gate in final mode makes of the rows of a run (claim-gate.ts and *)
(* source-independence.ts), and the calls of farm-service.ts that author   *)
(* them.  EvidenceLedger has the interleaving of their file operations;    *)
(* here a call is one step, the bytes on disk are those registered, and a  *)
(* text is a sequence of words.                                            *)
(***************************************************************************)
EXTENDS Integers, Sequences, FiniteSets, SequencesExt, FiniteSetsExt, Selection

CONSTANTS
    Source,        \* by artifact id: [kind, agent, host, text, binds], where agent says
                   \* agent-authored, host is a sequence of labels, and binds the
                   \* {<<id, bytes>>} of a capture transcript
    ClaimForms,    \* [artifact, type, kind, stamped, anchor, taxonomy, sources, min]
    JudgmentForms, \* [verdict, support, refute, min]
    Extractions,   \* [text, values], where a value is the literal forms it may have
    Foreign,       \* [registered, claims, judgments] of a run directory written elsewhere
    PublicSuffixes, \* public suffixes of two labels
    ShingleSize,   \* words in a shingle, 5 in the code
    ScatterFloor,  \* a window up to this size is never too wide, 160 characters
    Lower(_),      \* the lower case of a word
    MaxRows        \* bound on the rows that calls append

\* Rows of the two ledgers.
IsClaim(c) ==
    /\ DOMAIN c = {"artifact", "type", "kind", "stamped", "anchor", "taxonomy", "sources", "min"}
    /\ c.sources \in Seq(ToSet(c.sources)) /\ c.min \in Int
    /\ c.anchor.quote \in Seq(ToSet(c.anchor.quote))

IsJudgment(j) ==
    /\ DOMAIN j = {"verdict", "support", "refute", "min"}
    /\ j.verdict \in {"supported", "refuted", "insufficient"}
    /\ IsFiniteSet(j.support) /\ j.min \in Int

ASSUME GateAssumption ==
    /\ {ShingleSize, ScatterFloor} \subseteq Nat \ {0} /\ MaxRows \in Nat
    /\ \A id \in DOMAIN Source : Source[id].text \in Seq(ToSet(Source[id].text))
    /\ \A c \in ClaimForms : IsClaim(c)
    /\ \A j \in JudgmentForms : IsJudgment(j)
    /\ \A f \in Foreign : /\ f.registered \subseteq DOMAIN Source
                          /\ \A c \in f.claims : IsClaim(c)
                          /\ \A j \in f.judgments : IsJudgment(j)
    /\ \A e \in Extractions :
        /\ e.values \in Seq(ToSet(e.values))
        /\ \A forms \in ToSet(e.values) : forms \in Seq(ToSet(forms))

VARIABLES
    registered,         \* ids in artifacts.jsonl
    claims, judgments,  \* the rows of the other ledgers
    proposals,          \* what groundExtractedClaims has still to add
    told                \* [row, fit, ok]: rows that calls appended, whether each was fit, and
                        \* the answer of the gate

gateVars == <<registered, claims, judgments, proposals, told>>

NormalizeForMatch(text) == [i \in DOMAIN text |-> Lower(text[i])]
Includes(text, part) == \E i \in 0..(Len(text) - Len(part)) : SubSeq(text, i + 1, i + Len(part)) = part
Quotes(id, quote) == Includes(NormalizeForMatch(Source[id].text), NormalizeForMatch(quote))

-----------------------------------------------------------------------------
(* Independence of sources                                                 *)

\* The last two labels, or three below a public suffix of two; <<>> without a host.
RegistrableDomain(host) ==
    LET labels == IF Len(host) > 1 /\ Head(host) = "www" THEN Tail(host) ELSE host
        n == Len(labels)
        keep == IF n > 2 /\ SubSeq(labels, n - 1, n) \in PublicSuffixes THEN 3 ELSE 2
    IN  SubSeq(labels, Max({1, n - keep + 1}), n)

ContentShingles(text) ==
    IF Len(text) <= ShingleSize THEN {text} \ {<<>>}
    ELSE {SubSeq(text, i, i + ShingleSize - 1) : i \in 1..(Len(text) - ShingleSize + 1)}

\* More than 0.6 of the shingles of both are shared.
JaccardAbove(a, b) == 10 * Cardinality(a \cap b) > 6 * Cardinality(a \cup b)

DomainOf(id) == RegistrableDomain(Source[id].host)
Fingerprint(id) == ContentShingles(NormalizeForMatch(Source[id].text))

\* One site, or one story told twice.
Echo(a, b) ==
    \/ DomainOf(a) # <<>> /\ DomainOf(a) = DomainOf(b)
    \/ JaccardAbove(Fingerprint(a), Fingerprint(b))

\* Mutant: the source is moved without the group it is in.
Union_OneOnly(group, i, k) == [group EXCEPT ![i] = group[k]]

Union(group, i, k) == [n \in DOMAIN group |-> IF group[n] = group[i] THEN group[k] ELSE group[n]]

\* A source is compared with each later one.
CompareWithLater(ids, group, i) ==
    LET after[k \in 0..Len(ids)] ==
            IF k = 0 THEN group
            ELSE IF i < k /\ Echo(ids[i], ids[k]) THEN Union(after[k - 1], i, k)
            ELSE after[k - 1]
    IN  after[Len(ids)]

\* The group of each source: sources that echo each other, also through a third
\* one, share a group.
Groups(ids) ==
    LET after[i \in 0..Len(ids)] ==
            IF i = 0 THEN [n \in DOMAIN ids |-> n] ELSE CompareWithLater(ids, after[i - 1], i)
    IN  after[Len(ids)]

\* A source with neither domain nor text does not count.
Counts(id) == DomainOf(id) # <<>> \/ Fingerprint(id) # {}

IndependentSourceGroups(ids) ==
    LET group == Groups(ids)
    IN  Cardinality({group[i] : i \in {k \in DOMAIN ids : Counts(ids[k])}})

-----------------------------------------------------------------------------
(* Claims                                                                  *)

\* Types and kinds that belong together.
WellTyped(c) ==
    LET kind == Source[c.artifact].kind
    IN  /\ c.kind = kind
        /\ c.type = "visual" => kind = "frame_screenshot" /\ c.stamped
        /\ kind = "transcript_cue" => c.type = "text"
        /\ c.type = "audio" => kind = "audio_transcription"

ProvenanceKinds ==
    LET action == {"source_navigation_action"}
        visit == action \cup {"destination_candidate", "source_navigation_followup"}
    IN  [destination_candidate |-> action,
         source_navigation_followup |-> action \cup {"destination_candidate"},
         destination_triage |-> visit,
         destination_deepening_proposal |-> visit,
         destination_deepening_run |-> visit \cup {"destination_deepening_proposal"}]

\* A destination is cited with the steps that led to it; addClaim cites the
\* artifact and every source of the corroboration.
ProvenanceCited(c) ==
    c.kind \in DOMAIN ProvenanceKinds =>
        ProvenanceKinds[c.kind] \subseteq {c.kind} \cup {Source[s.artifact].kind : s \in ToSet(c.sources)}

SelfAsserted(c) == Source[c.artifact].kind = "structured_data" /\ Source[c.artifact].agent

\* The page that self-asserted data was probably copied from.
Repackaged(c) ==
    SelfAsserted(c) /\ \E id \in registered \ {c.artifact} :
        /\ Source[id].kind \notin {"structured_data", "metadata"}
        /\ DomainOf(id) # <<>> /\ DomainOf(id) = DomainOf(c.artifact)

AnchorKind == [ocr_bbox |-> "ocr_text", transcript_cue |-> "transcript_cue", frame |-> "frame_screenshot"]

TextGroundable ==
    {"page_text", "page_html", "ocr_text", "transcript_cue", "audio_transcription", "structured_data",
     "search_result_candidates", "search_strategy_plan", "candidate_deepening_ledger",
     "search_followup_plan", "search_followup_outcome_ledger"}

\* A derived claim needs its tokens only, those given or the words of its quote.
Tokens(c) == ToSet(NormalizeForMatch(IF c.anchor.tokens = <<>> THEN c.anchor.quote ELSE c.anchor.tokens))

Grounded(c) ==
    LET kind == Source[c.artifact].kind
    IN  CASE c.anchor.type = "none" -> TRUE
          [] c.anchor.type \in DOMAIN AnchorKind -> kind = AnchorKind[c.anchor.type]
          [] c.anchor.type = "text_span" /\ c.taxonomy = "quote" ->
                kind \in TextGroundable /\ Quotes(c.artifact, c.anchor.quote)
          [] c.anchor.type = "text_span" /\ c.taxonomy # "quote" ->
                kind \in TextGroundable /\ Tokens(c) \subseteq ToSet(NormalizeForMatch(Source[c.artifact].text))

\* minWindowCoverChars: the window grows to the right, to the next of the places
\* of tokens, and is cut from the left for as long as it holds every token.
Grow(text, tokens, at, window, right) ==
    LET covers == {left \in window.left..right : tokens \subseteq {text[at[n]] : n \in left..right}}
    IN  IF covers = {} THEN window
        ELSE [left |-> Max(covers) + 1,
              best |-> Min({window.best} \cup {at[right] - at[left] + 1 : left \in covers})]

MinWindowCover(text, tokens) ==
    LET at == Ranked({i \in DOMAIN text : text[i] \in tokens})
        window[right \in 0..Len(at)] ==
            IF right = 0 THEN [left |-> 1, best |-> Len(text) + 1]
            ELSE Grow(text, tokens, at, window[right - 1], right)
    IN  window[Len(at)].best

Widest(c) == Max({ScatterFloor, 6 * Len(c.anchor.quote)})

Scattered(c) ==
    /\ c.anchor.type = "text_span" /\ c.taxonomy # "quote" /\ Cardinality(Tokens(c)) >= 2
    /\ MinWindowCover(NormalizeForMatch(Source[c.artifact].text), Tokens(c)) > Widest(c)

\* What an accepted claim is warned of.
Warnings(c) ==
    {name \in {"scattered", "self_asserted", "repackaged", "not_verified"} :
        CASE name = "scattered" -> Scattered(c)
          [] name = "self_asserted" -> SelfAsserted(c) /\ ~Repackaged(c)
          [] name = "repackaged" -> Repackaged(c)
          [] name = "not_verified" -> /\ c.anchor.type = "none"
                                      /\ Source[c.artifact].kind \in {"metadata", "official_api_metadata"}}

Required(min, least) == IF min >= least THEN min ELSE 2

\* Every source is registered and holds what is quoted of it, and there are enough
\* groups of them.
Corroborated(c) ==
    LET all == <<c.artifact>> \o [n \in DOMAIN c.sources |-> c.sources[n].artifact]
    IN  c.sources # <<>> =>
            /\ \A s \in ToSet(c.sources) : s.artifact \in registered /\ Quotes(s.artifact, s.quote)
            /\ IndependentSourceGroups(all) >= Required(c.min, 2)

ClaimOk(c) ==
    /\ c.artifact \in registered
    /\ WellTyped(c) /\ ProvenanceCited(c) /\ Grounded(c) /\ Corroborated(c)

-----------------------------------------------------------------------------
(* Judgments and transcripts                                               *)

SpanOk(s) == s.artifact \in registered /\ Quotes(s.artifact, s.quote)
VerifiedSpans(spans) == {s.artifact : s \in {t \in spans : SpanOk(t)}}

JudgmentOk(j) ==
    LET support == VerifiedSpans(j.support)
    IN  /\ \A s \in j.support \cup j.refute : SpanOk(s)
        /\ CASE j.verdict = "supported" ->
                   /\ support # {} /\ VerifiedSpans(j.refute) = {}
                   /\ IndependentSourceGroups(SetToSeq(support)) >= Required(j.min, 1)
             [] j.verdict = "refuted" -> VerifiedSpans(j.refute) # {}
             [] j.verdict = "insufficient" -> TRUE

\* A transcript is bound to a registered page by the hash on record.
TranscriptConsistent(id) ==
    Source[id].kind = "capture_transcript" =>
        \E b \in Source[id].binds : b[1] \in registered /\ b[2] = Source[b[1]].text

\* The gate over the rows of both ledgers; strictly, no claim may rest on
\* self-asserted data.
GateOk(rows, verdicts, strict) ==
    /\ \A id \in registered : TranscriptConsistent(id)
    /\ \A c \in rows : ClaimOk(c) /\ (strict => ~SelfAsserted(c))
    /\ \A j \in verdicts : JudgmentOk(j)

-----------------------------------------------------------------------------
(* Authoring                                                               *)

GateInit ==
    /\ proposals = <<>> /\ told = {}
    /\ \E f \in Foreign : registered = f.registered /\ claims = f.claims /\ judgments = f.judgments

\* registerEvidence; registerTranscript gives it a transcript_cue.
RegisterEvidence(id) ==
    /\ registered' = registered \cup {id}
    /\ UNCHANGED <<claims, judgments, proposals, told>>

MayAppend == Cardinality(told) < MaxRows

\* A claim is appended, and the gate run on all rows.
Claims(c) ==
    /\ claims' = claims \cup {c}
    /\ told' = told \cup {[row |-> c, fit |-> ClaimOk(c), ok |-> GateOk(claims \cup {c}, judgments, FALSE)]}
    /\ UNCHANGED <<registered, judgments>>

\* Nothing is appended when an artifact or a source is not registered.
AddClaim(c) ==
    /\ MayAppend
    /\ {c.artifact} \cup {s.artifact : s \in ToSet(c.sources)} \subseteq registered
    /\ Claims(c)
    /\ UNCHANGED proposals

JudgeClaim(j) ==
    /\ MayAppend
    /\ {s.artifact : s \in j.support \cup j.refute} \subseteq registered
    /\ judgments' = judgments \cup {j}
    /\ told' = told \cup {[row |-> j, fit |-> JudgmentOk(j), ok |-> GateOk(claims, judgments \cup {j}, FALSE)]}
    /\ UNCHANGED <<registered, claims, proposals>>

\* The literal forms of a value that the visible text has.
LiteralForms(text, forms) == {n \in DOMAIN forms : forms[n] \in SubSeqs(text)}

\* The first such form of a value is quoted; a value without one is dropped.
ProposeGroundedClaims(e) ==
    LET text == Source[e.text].text
        grounded == Chosen(e.values, {n \in DOMAIN e.values : LiteralForms(text, e.values[n]) # {}})
        quote(forms) == forms[Min(LiteralForms(text, forms))]
    IN  [n \in DOMAIN grounded |->
            [artifact |-> e.text, type |-> "text", kind |-> Source[e.text].kind, stamped |-> FALSE,
             anchor |-> [type |-> "text_span", quote |-> quote(grounded[n]), tokens |-> <<>>],
             taxonomy |-> "quote", sources |-> <<>>, min |-> 2]]

GroundExtractedClaims(e) ==
    /\ MayAppend /\ proposals = <<>> /\ e.text \in registered
    /\ proposals' = ProposeGroundedClaims(e)
    /\ UNCHANGED <<registered, claims, judgments, told>>

AddProposal ==
    /\ proposals # <<>>
    /\ Claims(Head(proposals))
    /\ proposals' = Tail(proposals)

GateNext ==
    \/ \E id \in DOMAIN Source : RegisterEvidence(id)
    \/ \E c \in ClaimForms : AddClaim(c)
    \/ \E j \in JudgmentForms : JudgeClaim(j)
    \/ \E e \in Extractions : GroundExtractedClaims(e)
    \/ AddProposal

-----------------------------------------------------------------------------
\* Sources can be dealt out to n groups so that echoes share a group.
Separable(ids, n) ==
    \E deal \in [ids -> 1..n] :
        /\ \A k \in 1..n : \E id \in ids : deal[id] = k /\ Counts(id)
        /\ \A a, b \in ids : Echo(a, b) => deal[a] = deal[b]

\* A verdict stands on what was really captured: whatever is cited twice,
\* echoed by a third source or captured from one site counts once, in a claim
\* as in a judgment, and nothing that has enough of it is refused; a derived
\* claim is unwarned only if its tokens are close together; extraction
\* proposes nothing that the gate refuses, except from a kind that cannot be
\* quoted; whether a row is fit does not change after the call that appended
\* it, so that an unfit one keeps every later gate from answering ok.
VerdictsStand ==
    /\ \A c \in claims :
          LET ids == {c.artifact} \cup {s.artifact : s \in ToSet(c.sources)}
              quoted == \A s \in ToSet(c.sources) : Quotes(s.artifact, s.quote)
          IN  c.sources # <<>> /\ ids \subseteq registered =>
                  (Corroborated(c) <=> quoted /\ Separable(ids, Max({2, c.min})))
    /\ \A j \in judgments :
          j.verdict = "supported" /\ (\A s \in j.support \cup j.refute : SpanOk(s)) =>
              (JudgmentOk(j) <=> j.refute = {} /\ Separable({s.artifact : s \in j.support}, Required(j.min, 1)))
    /\ \A c \in claims :
          c.anchor.type = "text_span" /\ c.taxonomy # "quote" /\ ClaimOk(c) /\ Warnings(c) = {} =>
              LET text == NormalizeForMatch(Source[c.artifact].text)
              IN  \E from \in 1..Len(text) + 1 : Tokens(c) \subseteq
                      {text[i] : i \in DOMAIN text \cap (from..from + Widest(c) - 1)}
    /\ \A n \in DOMAIN proposals : ClaimOk(proposals[n]) <=> proposals[n].kind \in TextGroundable
    /\ \A t \in told :
          /\ t.fit = IF t.row \in claims THEN ClaimOk(t.row) ELSE JudgmentOk(t.row)
          /\ GateOk(claims, judgments, FALSE) \/ t.ok => t.fit

=============================================================================
