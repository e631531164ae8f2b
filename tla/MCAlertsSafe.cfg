SPECIFICATION Spec
CONSTANTS
  Devices = {d1}
  Evaluators = {e1, e2}
  MaxAlerts = 2
  MaxFaults = 1
  MaxEval = 2
  LockTTL = 2
  Cooldown = 1
  MaxCooldown = 1
  Switchable = {}
  OfflineAfter = 0
SYMMETRY EvaluatorSymmetry
INVARIANTS TypeOK ExclusiveUnlessUnsafe OneOpen
PROPERTIES CooldownRespected AcknowledgementKept
