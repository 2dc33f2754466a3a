\* Up to four receivers, stopped twice, and any number of monitors.
SPECIFICATION FairSpec
CONSTANTS
  None = None
  MaxPids = 4
  MaxStops = 2
INVARIANTS
  TypeOK
  OneReceiver
  DeathIsSeen
PROPERTIES
  ServesAgain
\* Without pids left nothing more can happen.
CHECK_DEADLOCK FALSE
