SPECIFICATION MCSpec
CONSTANTS
  Devices = {d1, d2}
  Names = {k1, k2}
  WithKB = {k1}
  AutoApproved = {k1}
  Others = {o1, o2}
  Deployers = {w1, w2}
  MaxRetries = 3
  MaxRecords = 2
  MaxAsked = 2
  MaxFaults = 1
INVARIANTS TypeOK  
 
CHECK_DEADLOCK FALSE
