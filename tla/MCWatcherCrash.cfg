CONSTANTS
  h1 = h1
  h2 = h2
  h3 = h3
  t1 = t1
  t2 = t2
  t3 = t3
  Hosts <- MCHosts
  Targets <- MCTargets
  NoHost = NoHost
  NoTarget = NoTarget
  NoLock = NoLock
  NoClaim = NoClaim
  MaxCrashes = 1
  MaxTorn = 0
  MaxFaults = 0
SPECIFICATION Spec
SYMMETRY MCSymmetry
CHECK_DEADLOCK FALSE
INVARIANTS
  DeadBootstrapCompletes
