SPECIFICATION Spec
CONSTANTS
  MaxSessions = 2
  MaxCmds = 2
  MaxPosts = 0
  MaxFaults = 1
  MaxOpening = 1
  Users = {u1}
  CmdTimeout = 0
  StuckTimeout = 1
  IdleTimeout = 1
INVARIANTS TypeOK NoOvertaking RerunNeedsReset OneActivePerUser
