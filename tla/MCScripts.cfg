SPECIFICATION FairSpec
CONSTANTS
  Runs = {r1, r2, r3}
  MaxFaults = 2
  MaxCrashes = 1
  MaxQueue = 2
INVARIANTS TypeOK AtMostOnce LostForCause
PROPERTIES ImplementsRunLife QueuedIsDelivered
