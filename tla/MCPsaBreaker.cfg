SPECIFICATION FairSpec
CONSTANTS
  Tickets = {t1}
  Workers = {w1, w2}
  MaxRetries = 1
  MaxFailures = 2
  Window = 2
  MaxCopies = 2
  MaxManual = 1
  MaxFaults = 1

PROPERTY BrokenIsDisabled
CHECK_DEADLOCK FALSE
