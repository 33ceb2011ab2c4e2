------------------------- MODULE MCEvidenceWorkflow -------------------------
EXTENDS EvidenceWorkflow

Bare == [tier0 |-> FALSE, cache |-> FALSE, ownsPool |-> TRUE, waits |-> FALSE, frames |-> "off",
         dense |-> FALSE, ocr |-> FALSE, api |-> FALSE, gate |-> TRUE, shapes |-> {},
         profile |-> "none"]

\* Each branch of the plan in some run; runs of a shared pool, and of a named
\* profile; a run whose intent overrides its options; a run without a gate.
MCOptions == {
    [Bare EXCEPT !.tier0 = TRUE, !.api = TRUE, !.profile = "persistent"],
    [Bare EXCEPT !.cache = TRUE, !.ownsPool = FALSE, !.waits = TRUE],
    [Bare EXCEPT !.frames = "unset", !.dense = TRUE, !.ocr = TRUE, !.ownsPool = FALSE,
                 !.profile = "storage_state"],
    [Bare EXCEPT !.tier0 = TRUE, !.cache = TRUE, !.gate = FALSE, !.shapes = {"map_place_state", "video_frames"}]}

=============================================================================
