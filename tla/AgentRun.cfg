\* Two runs over one router: a ReAct loop and a synthesis.
CONSTANTS
  coordinator = coordinator
  synthesizer = synthesizer
  small = small
  large = large
  Runs <- MCRuns
  Synthesis <- MCSynthesis
  complexity <- MCComplexity
  primary_model = small
  agent_model = large
  synthesis_model = large
  fallback_model = large
  RetryAttempts = 2
  CostCap = 1
  MaxCost = 1
  MaxSteps = 2
SPECIFICATION FairSpec
INVARIANTS
  TypeOK
  SpendBounded
  RequestsBounded
  RunOutcome
  FallbackReported
PROPERTIES
  CapSticks
  RunsAdvance
  RunsEnd
