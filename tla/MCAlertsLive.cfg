SPECIFICATION FairSpec
CONSTANTS
  Devices = {d1}
  Evaluators = {e1}
  MaxAlerts = 2
  MaxFaults = 2
  MaxEval = 1
  LockTTL = 1
  Cooldown = 1
  MaxCooldown = 1
  Switchable = {"metric"}
  OfflineAfter = 0
PROPERTIES HighIsAlerted RecoveryResolved
