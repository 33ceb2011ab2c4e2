--------------------------- MODULE EvidenceBundle ---------------------------
(***************************************************************************)
(* Bundles of a run directory (evidence-bundle.ts): a manifest over the     *)
(* bytes in place, or an archive that carries them; what the export checks  *)
(* of it, and what a second agent makes of it after it has travelled.       *)
(* EvidenceLedger has the run that is exported while it is written to; here *)
(* an export reads one state of the directory.                              *)
(***************************************************************************)
EXTENDS Integers, Sequences, FiniteSets, SequencesExt, TLC

CONSTANTS
    RunDirs,    \* [rows, disk, meta] of runs: the rows [id, path, sha, named] of
                \* artifacts.jsonl, the readable files, the engine of run-meta.json
    FileBytes,      \* contents of files
    TooLarge,   \* the contents that an archive does not embed
    MaxEdits    \* bound on what happens to a bundle under way

\* Ids can be compared, what is recorded of a file is a hash, and no file is
\* without a name.
ASSUME BundleAssumption ==
    \A dir \in RunDirs :
        /\ DOMAIN dir = {"rows", "disk", "meta"}
        /\ dir.rows \in Seq(ToSet(dir.rows)) /\ "" \notin DOMAIN dir.disk
        /\ \A r \in ToSet(dir.rows) : r.named => r.id \in Nat /\ r.sha = <<r.sha[1]>>

VARIABLES
    runDir,
    bundle,     \* <<>> or the one bundle: [kind, artifacts, root, signature, engine, files, omitted]
    sealed,     \* the artifacts it was exported with
    anchored,   \* the roots in the anchor log
    exported,   \* <<>> or the answer of the export
    edits       \* things that happened to the bundle or the directory since

bundleVars == <<runDir, bundle, sealed, anchored, exported, edits>>

-----------------------------------------------------------------------------
(* Hashes: nothing but equal values hash to the same.  A text of hashes is  *)
(* a sequence, of length 1 for each of them.                                *)

Sha256(value) == <<value>>

\* Mutant: the odd node is dropped.
NextLevel_OddDropped(level) ==
    [i \in 1..(Len(level) \div 2) |-> Sha256(level[2 * i - 1] \o level[2 * i])]

\* Pairs are hashed together, the odd node with itself.
NextLevel(level) ==
    [i \in 1..((Len(level) + 1) \div 2) |->
        Sha256(level[2 * i - 1] \o level[IF 2 * i <= Len(level) THEN 2 * i ELSE 2 * i - 1])]

Halved(level) == IF Len(level) > 1 THEN NextLevel(level) ELSE level

\* The levels of the tree above its leaves; the last of them is the root.
Levels(leaves) ==
    LET level[n \in Nat] == IF n = 0 THEN leaves ELSE Halved(level[n - 1])
    IN  level

MerkleRoot(hashes) ==
    IF hashes = <<>> THEN Sha256(<<>>)
    ELSE Levels([i \in DOMAIN hashes |-> Sha256(hashes[i])])[Len(hashes)][1]

Shas(artifacts) == [i \in DOMAIN artifacts |-> artifacts[i].sha]

-----------------------------------------------------------------------------
(* Export                                                                  *)

\* Rows without an id or a hash are left out, the others put in the order of
\* their ids.
Artifacts(rows) ==
    LET named == {i \in DOMAIN rows : rows[i].named}
        before(i, k) == rows[i].id < rows[k].id \/ (rows[i].id = rows[k].id /\ i < k)
        order == CHOOSE s \in [1..Cardinality(named) -> named] : \A m, n \in DOMAIN s : m < n => before(s[m], s[n])
    IN  [n \in DOMAIN order |-> rows[order[n]]]

EngineProvenance(meta) == meta \ {"garbage"}

\* The signature is over the root alone.
BuildBundleManifest(dir, signed) ==
    LET artifacts == Artifacts(dir.rows)
        root == MerkleRoot(Shas(artifacts))
    IN  [kind |-> "manifest", artifacts |-> artifacts, root |-> root,
         signature |-> IF signed THEN <<root>> ELSE <<>>,
         engine |-> EngineProvenance(dir.meta), files |-> <<>>, omitted |-> {}]

NamedPaths(artifacts) == {a.path : a \in ToSet(artifacts)} \ {""}

\* The archive has the bytes that can be read and are not too large.
ExportBundleArchive(dir, signed) ==
    LET manifest == BuildBundleManifest(dir, signed)
        embedded == {p \in NamedPaths(manifest.artifacts) \cap DOMAIN dir.disk : dir.disk[p] \notin TooLarge}
    IN  [manifest EXCEPT !.kind = "archive",
                         !.files = [p \in embedded |-> dir.disk[p]],
                         !.omitted = NamedPaths(manifest.artifacts) \ embedded]

-----------------------------------------------------------------------------
(* Verification, of a manifest by the files of the directory, of an archive *)
(* by its own; with a public key a signature is checked, if there is one.   *)

BytesFor(b) == IF b.kind = "archive" THEN b.files ELSE runDir.disk

MissingArtifacts(b, bytes) == {a \in ToSet(b.artifacts) : a.path \notin DOMAIN bytes}
TamperedArtifacts(b, bytes) ==
    {a \in ToSet(b.artifacts) \ MissingArtifacts(b, bytes) : Sha256(bytes[a.path]) # a.sha}
MerkleMatches(b) == MerkleRoot(Shas(b.artifacts)) = b.root
SignatureRefused(b) == b.signature \notin {<<>>, <<b.root>>}

Verifies(b, bytes) ==
    /\ TamperedArtifacts(b, bytes) = {} /\ MissingArtifacts(b, bytes) = {}
    /\ MerkleMatches(b) /\ ~SignatureRefused(b)

\* The export of an archive forgives what is missing for a stated reason or
\* has no path; that of a manifest forgives nothing.
ExportAccepts(b) ==
    IF b.kind = "manifest" THEN Verifies(b, BytesFor(b))
    ELSE /\ TamperedArtifacts(b, b.files) = {} /\ MerkleMatches(b)
         /\ \A a \in MissingArtifacts(b, b.files) : a.path \in b.omitted \cup {""}

-----------------------------------------------------------------------------
(* What happens                                                            *)

BundleInit ==
    /\ runDir \in RunDirs
    /\ bundle = <<>> /\ sealed = <<>> /\ anchored = {} /\ exported = <<>> /\ edits = 0

\* export-bundle: the bundle is handed out in any case, its root is anchored
\* when it was accepted and a log is named.
ExportBundle(kind, signed, log) ==
    LET b == IF kind = "archive" THEN ExportBundleArchive(runDir, signed) ELSE BuildBundleManifest(runDir, signed)
        ok == ExportAccepts(b)
    IN  /\ bundle = <<>>
        /\ bundle' = <<b>> /\ sealed' = b.artifacts /\ exported' = <<ok>>
        /\ anchored' = IF ok /\ log THEN {b.root} ELSE {}
        /\ UNCHANGED <<runDir, edits>>

Edited == edits < MaxEdits /\ edits' = edits + 1

\* A file is written anew or removed.
OtherFiles(files) ==
    {[files EXCEPT ![p] = c] : p \in DOMAIN files, c \in FileBytes}
    \cup {[q \in DOMAIN files \ {p} |-> files[q]] : p \in DOMAIN files}

DirectoryChanges ==
    /\ Edited
    /\ \E disk \in OtherFiles(runDir.disk) \ {runDir.disk} : runDir' = [runDir EXCEPT !.disk = disk]
    /\ UNCHANGED <<bundle, sealed, anchored, exported>>

\* Leaves and nodes are hashed alike: these rows have the root of the others.
Paired(artifacts) ==
    LET n == Len(artifacts)
        hash(i) == Sha256(artifacts[i].sha)
    IN  [i \in 1..((n + 1) \div 2) |->
            [artifacts[2 * i - 1] EXCEPT !.sha = hash(2 * i - 1) \o hash(IF 2 * i <= n THEN 2 * i ELSE 2 * i - 1)]]

\* Other, fewer or repeated rows, one row for two with both their hashes.
OtherRows(artifacts) ==
    LET places == 1..Len(artifacts)
    IN  {[artifacts EXCEPT ![i].sha = Sha256(c)] : i \in places, c \in FileBytes}
        \cup {RemoveAt(artifacts, i) : i \in places}
        \cup {Append(artifacts, artifacts[i]) : i \in places}
        \cup {Paired(artifacts)}

\* What a bundle may come to look like: besides, a root that fits its rows, no
\* signature, another engine.
Altered(b) ==
    {[b EXCEPT !.files = f] : f \in OtherFiles(b.files)}
    \cup {[b EXCEPT !.artifacts = rows] : rows \in OtherRows(b.artifacts)}
    \cup {[b EXCEPT !.root = MerkleRoot(Shas(b.artifacts))], [b EXCEPT !.signature = <<>>],
          [b EXCEPT !.engine = {"other"}]}

BundleChanges ==
    /\ bundle # <<>> /\ Edited
    /\ \E b \in Altered(bundle[1]) \ {bundle[1]} : bundle' = <<b>>
    /\ UNCHANGED <<runDir, sealed, anchored, exported>>

BundleNext ==
    \/ \E kind \in {"manifest", "archive"}, signed, log \in BOOLEAN : ExportBundle(kind, signed, log)
    \/ DirectoryChanges
    \/ BundleChanges

-----------------------------------------------------------------------------

Hashed(b, bytes) == {Sha256(bytes[a.path]) : a \in ToSet(b.artifacts)}

\* A bundle that verifies and is signed, or whose root is in the log, brings the
\* bytes it was exported for: each of them and no others, whatever became of its
\* rows, its files and its root under way. (evidence-bundle.ts:69-84, 196-276)
BringsItsBytes(b) ==
    (b.signature # <<>> \/ b.root \in anchored) /\ Verifies(b, BytesFor(b)) =>
        Hashed(b, BytesFor(b)) = {a.sha : a \in ToSet(sealed)}

\* An accepted bundle that nothing happened to verifies, unless the archive had
\* to leave bytes out or a row has no path.
VerifiesUntouched(b) ==
    exported = <<TRUE>> /\ edits = 0 =>
        (Verifies(b, BytesFor(b)) <=> b.omitted = {} /\ \A a \in ToSet(sealed) : a.path # "")

\* Verification says what a bundle brings, after any journey.
BundlesHold == bundle # <<>> => BringsItsBytes(bundle[1]) /\ VerifiesUntouched(bundle[1])

=============================================================================
