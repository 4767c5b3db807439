\* Two guest threads, two samples, a ring that does not hold both of them.
SPECIFICATION Spec
CONSTANTS
  None = None
  Threads <- MCThreads
  Outcomes <- MCOutcomes
  Breakages <- MCBreakages
  RingWords = 8
  DiscoverySweeps = 1
  DiscoveryGiveUp = 1
  Windows = TRUE
  MaxSamples = 2
  MaxIdleReports = 0
CHECK_DEADLOCK FALSE
INVARIANTS TypeOK Accounted ProfileIsWindows FlushComplete NeverOverclaims PortsBalanced ThrottleEarned
PROPERTIES PeakKept QueueSpec Reported
