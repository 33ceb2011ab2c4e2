--------------------------- MODULE EvidenceLedger ---------------------------
(***************************************************************************)
(* The files of one run directory as many callers, of one process or       *)
(* several, use them at once: ArtifactWriter (src/artifact-writer.ts)      *)
(* registers bundles, addClaim (src/farm-service.ts) appends claims and    *)
(* citations, runClaimGate (src/claim-gate.ts, final mode) judges the run, *)
(* and export (src/evidence-bundle.ts) seals and verifies it.  Every call  *)
(* awaits each of its file operations, so one file operation is one step.  *)
(* A call that dies takes no further step, which every behaviour allows.   *)
(*                                                                         *)
(* A bundle has two files, the metadata and the body; what the writer w    *)
(* puts into both is named w, and so is its hash.  A claim quotes a body:  *)
(* the quote w occurs in the bytes w and in no others.                     *)
(***************************************************************************)
EXTENDS Naturals, Sequences, FiniteSets

CONSTANTS
    Writer,     \* writeCaptureBundle calls
    Author,     \* addClaim calls
    Inspector,  \* farm_run_claim_gate and farm_export_bundle calls
    CaptureId,  \* file bases that capture ids are sanitized to
    NoWriter, NoId,
    Reuse       \* callers may give two bundles one capture id

ASSUME LedgerAssumption ==
    /\ IsFiniteSet(Writer) /\ IsFiniteSet(Author) /\ IsFiniteSet(Inspector)
    /\ NoWriter \notin Writer /\ NoId \notin CaptureId
    /\ Author \cap Inspector = {}
    /\ Reuse \in BOOLEAN

\* Calls that read the run; addClaim ends with a gate of its own.
Reader == Author \cup Inspector

VARIABLES
    wpc,        \* where each bundle stands
    captureId,  \* the file base it writes to
    disk,       \* the bytes of each file, NoWriter when there is none
    artifacts,  \* artifacts.jsonl: each entry stands for the two rows of a bundle
    claims,     \* claims.jsonl, by author
    citations,  \* citations.jsonl, by author
    evidence,   \* the bundle whose body each claim cites
    quote,      \* what it quotes
    exports,    \* the inspections that export, the others judge
    rpc,        \* where each reader stands
    artifactsSeen, claimsSeen, citationsSeen, \* lines each reader has read of each ledger
    todo,       \* rows to hash, then claims to ground
    errors      \* readers that have found an error

writeVars == <<wpc, captureId, disk, artifacts>>
authorVars == <<claims, citations, evidence, quote>>
readVars == <<exports, rpc, artifactsSeen, claimsSeen, citationsSeen, todo, errors>>
vars == <<writeVars, authorVars, readVars>>

File == CaptureId \X {"metadata", "body"}

Registered(n) == {artifacts[i] : i \in 1..n}
Cited(n) == {citations[i] : i \in 1..n}

\* The k-th row of artifacts.jsonl: whose bundle it belongs to, and its file.
RowWriter(k) == artifacts[(k + 1) \div 2]
RowFile(k) == <<captureId[RowWriter(k)], IF k % 2 = 1 THEN "metadata" ELSE "body">>

-----------------------------------------------------------------------------
Init ==
    /\ wpc = [w \in Writer |-> "idle"]
    /\ captureId = [w \in Writer |-> NoId]
    /\ disk = [f \in File |-> NoWriter]
    /\ artifacts = <<>> /\ claims = <<>> /\ citations = <<>>
    /\ evidence = [a \in Author |-> NoWriter]
    /\ quote = [a \in Author |-> NoWriter]
    /\ exports \in SUBSET Inspector
    /\ rpc = [r \in Reader |-> IF r \in Author THEN "idle" ELSE "artifacts"]
    /\ artifactsSeen = [r \in Reader |-> 0]
    /\ claimsSeen = [r \in Reader |-> 0]
    /\ citationsSeen = [r \in Reader |-> 0]
    /\ todo = [r \in Reader |-> {}]
    /\ errors = {}

\* A caller names the capture, or takes the default, a random UUID.
BeginBundle(w, id) ==
    /\ wpc[w] = "idle"
    /\ Reuse \/ \A v \in Writer : captureId[v] # id
    /\ wpc' = [wpc EXCEPT ![w] = "metadata"]
    /\ captureId' = [captureId EXCEPT ![w] = id]
    /\ UNCHANGED <<disk, artifacts, authorVars, readVars>>

\* atomicWrite: the temporary file is renamed over whatever is there.
WriteFile(w) ==
    /\ wpc[w] \in {"metadata", "body"}
    /\ disk' = [disk EXCEPT ![<<captureId[w], wpc[w]>>] = w]
    /\ wpc' = [wpc EXCEPT ![w] = IF wpc[w] = "metadata" THEN "body" ELSE "rows"]
    /\ UNCHANGED <<captureId, artifacts, authorVars, readVars>>

\* All rows of the bundle go into artifacts.jsonl in one append.
AppendRows(w) ==
    /\ wpc[w] = "rows"
    /\ artifacts' = Append(artifacts, w)
    /\ wpc' = [wpc EXCEPT ![w] = "done"]
    /\ UNCHANGED <<captureId, disk, authorVars, readVars>>

-----------------------------------------------------------------------------
\* Mutant: the cited artifact is not looked up.
CheckEvidence_Unchecked(a, w, q) ==
    /\ rpc[a] = "idle"
    /\ evidence' = [evidence EXCEPT ![a] = w]
    /\ quote' = [quote EXCEPT ![a] = q]
    /\ rpc' = [rpc EXCEPT ![a] = "claiming"]
    /\ UNCHANGED <<writeVars, claims, citations, exports, artifactsSeen, claimsSeen, citationsSeen, todo, errors>>

\* addClaim reads the artifact rows and refuses a claim about any other; the
\* quote may be right or wrong.
CheckEvidence(a, w, q) ==
    /\ rpc[a] = "idle"
    /\ w \in Registered(Len(artifacts))
    /\ evidence' = [evidence EXCEPT ![a] = w]
    /\ quote' = [quote EXCEPT ![a] = q]
    /\ rpc' = [rpc EXCEPT ![a] = "claiming"]
    /\ UNCHANGED <<writeVars, claims, citations, exports, artifactsSeen, claimsSeen, citationsSeen, todo, errors>>

AppendClaim(a) ==
    /\ rpc[a] = "claiming"
    /\ claims' = Append(claims, a)
    /\ rpc' = [rpc EXCEPT ![a] = "citing"]
    /\ UNCHANGED <<writeVars, citations, evidence, quote, exports, artifactsSeen, claimsSeen, citationsSeen, todo, errors>>

AppendCitation(a) ==
    /\ rpc[a] = "citing"
    /\ citations' = Append(citations, a)
    /\ rpc' = [rpc EXCEPT ![a] = "artifacts"]
    /\ UNCHANGED <<writeVars, claims, evidence, quote, exports, artifactsSeen, claimsSeen, citationsSeen, todo, errors>>

-----------------------------------------------------------------------------
\* runClaimGate and buildBundleManifest start with artifacts.jsonl; a manifest
\* takes no more from the other ledgers than their length.
ReadArtifacts(r) ==
    /\ rpc[r] = "artifacts"
    /\ artifactsSeen' = [artifactsSeen EXCEPT ![r] = Len(artifacts)]
    /\ IF r \in exports
       THEN /\ rpc' = [rpc EXCEPT ![r] = "hashing"]
            /\ todo' = [todo EXCEPT ![r] = 1..(2 * Len(artifacts))]
       ELSE /\ rpc' = [rpc EXCEPT ![r] = "claims"]
            /\ UNCHANGED todo
    /\ UNCHANGED <<writeVars, authorVars, exports, claimsSeen, citationsSeen, errors>>

ReadClaims(r) ==
    /\ rpc[r] = "claims"
    /\ claimsSeen' = [claimsSeen EXCEPT ![r] = Len(claims)]
    /\ rpc' = [rpc EXCEPT ![r] = "citations"]
    /\ UNCHANGED <<writeVars, authorVars, exports, artifactsSeen, citationsSeen, todo, errors>>

ReadCitations(r) ==
    /\ rpc[r] = "citations"
    /\ citationsSeen' = [citationsSeen EXCEPT ![r] = Len(citations)]
    /\ rpc' = [rpc EXCEPT ![r] = "hashing"]
    /\ todo' = [todo EXCEPT ![r] = 1..(2 * artifactsSeen[r])]
    /\ UNCHANGED <<writeVars, authorVars, exports, artifactsSeen, claimsSeen, errors>>

\* The file of a row exists and has the row's hash.
Intact(k) == disk[RowFile(k)] = RowWriter(k)

\* The file of a row is read and hashed: the gate goes down the ledger, a
\* manifest is sorted by random ids.
HashRow(r, k) ==
    /\ rpc[r] = "hashing" /\ k \in todo[r]
    /\ r \in exports \/ \A m \in todo[r] : k <= m
    /\ todo' = [todo EXCEPT ![r] = @ \ {k}]
    /\ errors' = IF Intact(k) THEN errors ELSE errors \cup {r}
    /\ UNCHANGED <<writeVars, authorVars, exports, rpc, artifactsSeen, claimsSeen, citationsSeen>>

\* What a gate asks of the rows it has read: citations of registered artifacts
\* only, and a citation for each claim, of the artifact that the claim cites.
LedgersMatch(r) ==
    /\ \A a \in Cited(citationsSeen[r]) : evidence[a] \in Registered(artifactsSeen[r])
    /\ \A i \in 1..claimsSeen[r] :
          /\ claims[i] \in Cited(citationsSeen[r])
          /\ evidence[claims[i]] \in Registered(artifactsSeen[r])

\* Mutant: the minimum is exclusive.
TooFewClaims_Exclusive(r) == r \in Inspector /\ claimsSeen[r] <= 1

\* minClaims is 1 by default, and 0 in addClaim.
TooFewClaims(r) == r \in Inspector /\ claimsSeen[r] < 1

HashingEnds(r) ==
    /\ rpc[r] = "hashing" /\ todo[r] = {}
    /\ IF r \in exports
       THEN /\ rpc' = [rpc EXCEPT ![r] = "done"]
            /\ UNCHANGED <<todo, errors>>
       ELSE /\ rpc' = [rpc EXCEPT ![r] = "grounding"]
            /\ todo' = [todo EXCEPT ![r] = {i \in 1..claimsSeen[r] :
                            evidence[claims[i]] \in Registered(artifactsSeen[r])}]
            /\ errors' = IF LedgersMatch(r) /\ ~TooFewClaims(r) THEN errors ELSE errors \cup {r}
    /\ UNCHANGED <<writeVars, authorVars, exports, artifactsSeen, claimsSeen, citationsSeen>>

\* Mutant: an anchored claim is grounded if its artifact can be read.
Grounded_IfReadable(a) == disk[<<captureId[evidence[a]], "body">>] # NoWriter

\* validateClaimGrounding opens the file again and looks for the quote.
Grounded(a) == disk[<<captureId[evidence[a]], "body">>] = quote[a]

GroundClaim(r, i) ==
    /\ rpc[r] = "grounding" /\ i \in todo[r]
    /\ \A j \in todo[r] : i <= j
    /\ todo' = [todo EXCEPT ![r] = @ \ {i}]
    /\ errors' = IF Grounded(claims[i]) THEN errors ELSE errors \cup {r}
    /\ UNCHANGED <<writeVars, authorVars, exports, rpc, artifactsSeen, claimsSeen, citationsSeen>>

GateEnds(r) ==
    /\ rpc[r] = "grounding" /\ todo[r] = {}
    /\ rpc' = [rpc EXCEPT ![r] = "done"]
    /\ UNCHANGED <<writeVars, authorVars, exports, artifactsSeen, claimsSeen, citationsSeen, todo, errors>>

Next ==
    \/ \E w \in Writer :
        \/ \E id \in CaptureId : BeginBundle(w, id)
        \/ WriteFile(w)
        \/ AppendRows(w)
    \/ \E a \in Author :
        \/ \E w, q \in Writer : CheckEvidence(a, w, q)
        \/ AppendClaim(a)
        \/ AppendCitation(a)
    \/ \E r \in Reader :
        \/ ReadArtifacts(r)
        \/ ReadClaims(r)
        \/ ReadCitations(r)
        \/ \E k \in todo[r] : HashRow(r, k) \/ GroundClaim(r, k)
        \/ HashingEnds(r)
        \/ GateEnds(r)

Spec == Init /\ [][Next]_vars

-----------------------------------------------------------------------------
\* The gate, or the export, has answered ok.
SaysOk(r) == rpc[r] = "done" /\ r \notin errors

\* Cite or fail: when a gate answers ok, every claim it has judged quotes the
\* bytes whose hash the cited row records, and an author told ok has had its
\* own claim judged, whatever other callers did between the gate's reads.
OkMeansGrounded ==
    \A r \in Reader \ exports : SaysOk(r) =>
        LET judged == {claims[i] : i \in 1..claimsSeen[r]}
        IN  /\ \A a \in judged : quote[a] = evidence[a]
            /\ r \in Author => r \in judged

\* What the ledgers say is there: at every moment, also in the middle of a bundle
\* or after a crash, each registered file exists with the hash on record, no
\* citation is without its claim and no claim without its artifact; so a bundle
\* exported while captures go on verifies (farm_export_bundle).
LedgersBacked ==
    /\ \A k \in 1..(2 * Len(artifacts)) : Intact(k)
    /\ Cited(Len(citations)) \subseteq {claims[i] : i \in 1..Len(claims)}
    /\ \A i \in 1..Len(claims) : evidence[claims[i]] \in Registered(Len(artifacts))
    /\ \A r \in exports : rpc[r] = "done" => SaysOk(r)

\* An honest run is accepted: a gate that saw all there is, with no claim half
\* appended, refuses only if some claim misquotes its artifact (or there is no
\* claim where one is required).
HonestRunAccepted ==
    \A r \in Reader \ exports :
        /\ rpc[r] = "done"
        /\ artifactsSeen[r] = Len(artifacts) /\ claimsSeen[r] = Len(claims)
        /\ citationsSeen[r] = Len(citations) /\ Len(citations) = Len(claims)
        /\ \A i \in 1..Len(claims) : quote[claims[i]] = evidence[claims[i]]
        /\ r \in Inspector => Len(claims) > 0
        => SaysOk(r)

=============================================================================
