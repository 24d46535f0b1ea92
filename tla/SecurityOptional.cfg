\* An undelegated SecurityAgent is scheduled and then skips itself.
CONSTANTS
  f1 = f1
  f2 = f2
  Fingerprints <- MCFingerprints
  MaxIter = 1
  Reports <- MCReports
  GuardrailsEnabled = TRUE
  RecursionLimit = 11
SPECIFICATION Spec
INVARIANT SecurityNeverOptional
