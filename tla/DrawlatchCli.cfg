\* Two terminals, two servers, one crash.
SPECIFICATION Spec
CONSTANTS
  MaxProcesses = 2
  MaxCrashes = 1
  Terminals = {t1, t2}
  NoPid = NoPid
INVARIANTS
  TypeOK
  ServersAreKnown
  CleanExitStopsTunnel
PROPERTY
  EverythingEnds
CHECK_DEADLOCK FALSE
