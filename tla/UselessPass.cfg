\* A pass that patched nothing is followed by another.
CONSTANTS
  f1 = f1
  f2 = f2
  Fingerprints <- MCFingerprints
  MaxIter = 2
  Reports <- MCReports
  GuardrailsEnabled = TRUE
  RecursionLimit = 15
SPECIFICATION Spec
INVARIANT UselessPassEndsLoop
