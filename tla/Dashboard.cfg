\* Two sweeps and two faults, answers of one alert, and any number of failures
\* to connect.
SPECIFICATION DashSpec
CONSTANTS
  AlertsLimit = 1
  MaxSweeps = 2
  MaxFaults = 2
INVARIANT
  TabIsExact
PROPERTY
  NewsArrives
\* the sweeps end
CHECK_DEADLOCK FALSE
