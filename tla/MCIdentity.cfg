SPECIFICATION FairSpec
CONSTANTS
  Devices = {d1, d2, d3, d4}
  Tokens = {t1, t2, t3, t4, t5, t6}
  NoDevice = NoDevice
  NoToken = NoToken
  RotateAt = 1
  Lifetime = 3
  MaxFaults = 2
INVARIANTS TypeOK OneToken OneDevice RefusedForCause
PROPERTY HeardAgain
