SPECIFICATION Spec
CONSTANTS
  SourceTxs <- MCSourceTxs
  Contents <- MCContents
  SCAN_CHUNK = 2
  Configured = {"src", "dst"}
  MaxBlock = 3
  Reorgs = 1
  MaxDepth = 1
  Answers <- MCAnswers
  MaxClock = 3
  Bundled <- MCBundled
  Recent = 2
  DelegationSize = 5
  Selectors <- MCSelectors
  Invocations <- MCInvocations
INVARIANTS
  SettledWasDelivered
  FinalIsFinal
  DiscoveredFillSuffices
  DiagnosisHolds
  CleanFeedWasUsable
  VerifiedWasAttested
  VulnerableExactly
CHECK_DEADLOCK FALSE
