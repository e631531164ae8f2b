SPECIFICATION FairSpec
CONSTANTS
  Tickets = {t1}
  Workers = {w1, w2}
  MaxRetries = 1
  MaxFailures = 2
  Window = 2
  MaxCopies = 2
  MaxManual = 1
  MaxFaults = 1
INVARIANTS TypeOK PushedOnce
PROPERTIES OutsideArrives
CHECK_DEADLOCK FALSE
