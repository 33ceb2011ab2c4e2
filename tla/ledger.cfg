\* Two captures, two authors, one gate or export on one run directory.
SPECIFICATION Spec
CONSTANTS
  Writer = {w1, w2}
  Author = {a1, a2}
  Inspector = {g1}
  CaptureId = {i1, i2}
  NoWriter = NoWriter
  NoId = NoId
  Reuse = FALSE
SYMMETRY Interchangeable
INVARIANTS OkMeansGrounded LedgersBacked HonestRunAccepted
\* Every call is made once, so the model comes to an end.
CHECK_DEADLOCK FALSE
