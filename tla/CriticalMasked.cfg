\* Deduplication hides a critical finding from the safety floor.
CONSTANTS
  f1 = f1
  f2 = f2
  Fingerprints <- MCFingerprints
  MaxIter = 1
  Reports <- MaskReports
  GuardrailsEnabled = TRUE
  RecursionLimit = 11
SPECIFICATION Spec
INVARIANT CannotApproveOverCritical
