\* Limits that fit two findings, not three; a diff that cannot be shortened.
CONSTANTS
  Lines <- MCLines
  Fingerprints <- MCFingerprints
  Files = 2
  BaseSize = 1
  ItemSize = 2
  ExcerptSize = 4
  DiffSize = 9
  MAX_TOOL_OUTPUT_CHARS = 6
  MAX_OBSERVATION_CHARS = 7
  MaxIter = 2
  MaxSteps = 3
  MaxFaults = 1
  MaxKills = 1
  Script <- MCScript
  Within <- MCWithin
  Deliveries <- MCDeliveries
SPECIFICATION FairSpec
INVARIANTS
  OfflineTypeOK
  ApprovalIsEarned
  EveryPassRepairs
  NoDetectedValueIsHeard
  NoCallVanishes
PROPERTIES
  FixesOnlyWhatWasFound
  OfflineKeepsContract
  OfflineReviewEnds
CHECK_DEADLOCK FALSE
