\* A recursion limit that lets a clean review and part of one pass through.
CONSTANTS
  f1 = f1
  f2 = f2
  Fingerprints <- MCFingerprints
  MaxIter = 2
  Reports <- MCReports
  GuardrailsEnabled = TRUE
  RecursionLimit = 9
SPECIFICATION Spec
INVARIANT BudgetSuffices
