------------------------- MODULE MCEvidenceLedger -------------------------
(* Writers are interchangeable, and so are authors and capture ids. *)
EXTENDS EvidenceLedger, TLC

Interchangeable ==
    Permutations(Writer) \cup Permutations(Author) \cup Permutations(CaptureId)
=============================================================================
