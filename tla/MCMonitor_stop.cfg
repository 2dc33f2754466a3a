\* A stopped receiver is replaced.
SPECIFICATION FairSpec
CONSTANTS
  None = None
  MaxPids = 3
  MaxStops = 1
PROPERTIES
  ReplacedIsDead
\* Without pids left nothing more can happen.
CHECK_DEADLOCK FALSE
