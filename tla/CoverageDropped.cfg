\* A blocking coverage finding disappears after a remediation pass.
CONSTANTS
  f1 = f1
  f2 = f2
  Fingerprints <- MCFingerprints
  MaxIter = 1
  Reports <- MCReports
  GuardrailsEnabled = TRUE
  RecursionLimit = 11
SPECIFICATION Spec
INVARIANT CoverageFindingsSurvive
