---------------------------- MODULE MediaCapture ----------------------------
(***************************************************************************)
(* The media a page of the pool loads (browser-pool.ts): each response of  *)
(* image or subtitle type is checked against the limits, its body awaited, *)
(* and checked again when it has come; capturePage waits a while for the   *)
(* bodies and then writes what there is.                                   *)
(***************************************************************************)
EXTENDS Integers, FiniteSets, Functions

CONSTANTS
    Media,        \* the responses of the page: [name, size, told, capturable]
    MaxCount,     \* MAX_MEDIA_ARTIFACTS_PER_PAGE
    MaxSingle,    \* MAX_SINGLE_MEDIA_BYTES
    MaxTotal,     \* MAX_TOTAL_MEDIA_BYTES_PER_PAGE
    MaxBundles,   \* bound: captures of the page
    NoCapture

ASSUME MediaAssumption ==
    /\ {MaxCount, MaxSingle, MaxTotal, MaxBundles} \subseteq Nat
    /\ \A m \in Media : m.size \in Nat /\ m.told \subseteq Nat  \* {} without a content-length

VARIABLES
    event,     \* of each response: "none", "awaited", "captured" or "skipped"
    total,     \* capturedMediaBytes
    capture,   \* the capture under way: what it waits for, and whether it gave up
    bundles    \* the captures written: [index, artifacts, before, waited]

mediaVars == <<event, total, capture, bundles>>

MediaInit ==
    /\ event = [m \in Media |-> "none"]
    /\ total = 0
    /\ capture = NoCapture
    /\ bundles = {}

In(state) == {m \in Media : event[m] = state}
Bytes(some) == SumFunctionOnSet([m \in some |-> m.size], some)

\* mediaSkipReason: what can be told before the body is there.
SkipAtOnce(m) ==
    \/ ~m.capturable
    \/ Cardinality(In("captured")) >= MaxCount
    \/ \E n \in m.told : n > MaxSingle \/ total + n > MaxTotal

Responds(m) ==
    /\ event[m] = "none"
    /\ event' = [event EXCEPT ![m] = IF SkipAtOnce(m) THEN "skipped" ELSE "awaited"]
    /\ UNCHANGED <<total, capture, bundles>>

\* Mutant: the limits are not looked at again when the body is there.
Fits_AtOnceOnly(m) == TRUE
Fits(m) == m.size <= MaxSingle /\ total + m.size <= MaxTotal

BodyArrives(m) ==
    /\ event[m] = "awaited"
    /\ event' = [event EXCEPT ![m] = IF Fits(m) THEN "captured" ELSE "skipped"]
    /\ total' = IF Fits(m) THEN total + m.size ELSE total
    /\ UNCHANGED <<capture, bundles>>

BodyUnavailable(m) ==
    /\ event[m] = "awaited"
    /\ event' = [event EXCEPT ![m] = "skipped"]
    /\ UNCHANGED <<total, capture, bundles>>

-----------------------------------------------------------------------------
\* drainMediaCaptures waits for the bodies awaited now, or MEDIA_DRAIN_TIMEOUT_MS.
CaptureBegins ==
    /\ capture = NoCapture /\ Cardinality(bundles) < MaxBundles
    /\ capture' = [stage |-> "drain", pending |-> In("awaited"), before |-> Media \ In("none"), waited |-> FALSE]
    /\ UNCHANGED <<event, total, bundles>>

Drained ==
    /\ capture # NoCapture /\ capture.stage = "drain"
    /\ \/ capture.pending \cap In("awaited") = {} /\ capture' = [capture EXCEPT !.stage = "read", !.waited = TRUE]
       \/ capture' = [capture EXCEPT !.stage = "read"]
    /\ UNCHANGED <<event, total, bundles>>

\* After the page has been read, index and artifacts are taken in one go.
BundleWritten ==
    /\ capture # NoCapture /\ capture.stage = "read"
    /\ bundles' = bundles \cup {[index |-> event, artifacts |-> In("captured"),
                                 before |-> capture.before, waited |-> capture.waited]}
    /\ capture' = NoCapture
    /\ UNCHANGED <<event, total>>

\* The page cannot be read, or the run is aborted.
CaptureFails ==
    /\ capture # NoCapture
    /\ capture' = NoCapture
    /\ UNCHANGED <<event, total, bundles>>

MediaNext ==
    \/ \E m \in Media : Responds(m) \/ BodyArrives(m) \/ BodyUnavailable(m)
    \/ CaptureBegins \/ Drained \/ BundleWritten \/ CaptureFails

-----------------------------------------------------------------------------
\* However many bodies are awaited at once, what a page keeps stays within its
\* byte limits, and the running total is what it keeps (captureMediaResponse
\* checks again after its await; the limit on their number it does not check
\* again, and bodies on their way pass it).  A capture has the bytes of exactly
\* the media its index calls captured, and unless it gave up waiting it leaves
\* no response open that came before it.
MediaWithinPage ==
    /\ total = Bytes(In("captured")) /\ total <= MaxTotal
    /\ \A m \in In("captured") : m.size <= MaxSingle
    /\ \A b \in bundles :
         /\ b.artifacts = {m \in Media : b.index[m] = "captured"}
         /\ Bytes(b.artifacts) <= MaxTotal
         /\ b.waited => \A m \in b.before : b.index[m] \in {"captured", "skipped"}

=============================================================================
