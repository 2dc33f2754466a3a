\* Two connections, a restart between any two steps, after a power failure or without.
SPECIFICATION Spec
SYMMETRY Peers
CONSTANTS
  c1 = c1
  c2 = c2
  p1 = p1
  p2 = p2
  None = None
  d1 = d1
  Conns = {c1, c2}
  Domains = {d1}
  Mailboxes = {p1}
  ReversePaths = {p1}
  Lines <- OneLine
  MaxRcpt = 1
  MaxSize = 8
  MaxLine = 3
  LineCap = 4
  MaxFiles = 1
  MaxLines = 0
  MaxBoots = 1
INVARIANTS
  IInv
  AcceptedIsDurable
  SpoolAccounted
PROPERTIES
  KeepsPromise
CONSTRAINT AfterRefusal
\* The listener may have stopped and every session ended: nothing is left to do.
CHECK_DEADLOCK FALSE
