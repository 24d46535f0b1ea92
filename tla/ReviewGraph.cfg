\* One review, two remediation passes, every interleaving of the fan-out.
CONSTANTS
  f1 = f1
  f2 = f2
  Fingerprints <- MCFingerprints
  MaxIter = 2
  Reports <- MCReports
  GuardrailsEnabled = TRUE
  RecursionLimit = 15
SPECIFICATION FairSpec
INVARIANTS
  TypeOK
  ApprovalFloor
  HumanDecisionStands
  NoCriticalAutoPatched
  LastPatchRescanned
  BlockedNeverAnalysed
  TerminationExplained
PROPERTIES
  KeepsContract
  DecisionIsFinal
  SettlesOrWaits
  DecisionLeadsToReport
