\* Two reviews of one pull request, in one second or two, or one and a crash, or
\* one and a request that overlaps with its task or with another request.
CONSTANTS
  pr1 = pr1
  Prs <- MCPrs
  MaxJobs = 2
  Resumer = resumer
  MaxClients = 2
  MaxClock = 1
  MaxCrashes = 1
  MaxEvents = 2
  MaxIter = 2
  MaxPatches = 3
  Kinds <- MCKinds
SPECIFICATION FairSpec
INVARIANTS
  ServiceTypeOK
  VerdictIsOnTheCode
  CompleteHasReport
  NobodyWaitsInVain
  EndedHasReport
  RefusedLeavesNothing
  NobodyStopsHalfWay
  OwnDecisionHonoured
PROPERTIES
  KeepsRegister
  AcceptedSettles
  ResumerFinishes
  PauseIsAnswered
CHECK_DEADLOCK FALSE
