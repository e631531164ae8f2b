SPECIFICATION FairSpec
CONSTANTS
  MaxSessions = 1
  MaxCmds = 1
  MaxPosts = 1
  MaxFaults = 2
  MaxOpening = 1
  Users = {u1}
  CmdTimeout = 1
  StuckTimeout = 2
  IdleTimeout = 3
PROPERTIES ImplementsCommandLife RunningEnds WorkerReturns
