CONSTANTS
  Threads = {t1, t2, t3}
  Members = 3
  MaxCalls = 4
  MaxFaults = 2
SPECIFICATION FairSpec
INVARIANTS TypeOK OneInitialiser Usable
PROPERTIES LostOnlyByFailure ImplementsShared Answered
CHECK_DEADLOCK FALSE
