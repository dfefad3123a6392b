\* Two routes, every sequence of readings, a signal at every await; seven
\* blocks of history.
SPECIFICATION SolvencySpec
CONSTANTS
  Routes <- MCRoutes
  Outcomes <- MCOutcomes
  MinRatio <- MCMinRatio
  Delta <- MCDelta
  Feeds = {"btc"}
  Hops <- MCHops
  Prices = {0, 1}
  Registry = {"r1", "r2"}
  AdHoc = "adhoc"
  Invocations <- MCInvocations
  MaxBlock = 6
INVARIANTS
  ToldAtRest
  PricesStayAside
  LocatedIsOnset
  ExitZeroMeansBacked
PROPERTIES
  StopsOnSignal
  ImplementsAlertLedger
\* a finished process takes no step
CHECK_DEADLOCK FALSE
