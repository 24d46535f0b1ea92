\* Every agent and the synthesis degrade, and the report approves.
CONSTANTS
  f1 = f1
  f2 = f2
  Fingerprints <- MCFingerprints
  MaxIter = 1
  Reports <- MCReports
  GuardrailsEnabled = TRUE
  RecursionLimit = 11
SPECIFICATION Spec
INVARIANT NoSilentSuccess
