\* One connection: 451 without an I/O error.
SPECIFICATION FairSpec
CONSTANTS
  c1 = c1
  c2 = c2
  p1 = p1
  p2 = p2
  None = None
  d1 = d1
  Conns = {c1}
  Domains = {d1}
  Mailboxes = {p1}
  ReversePaths = {p1}
  Lines <- AllLines
  MaxRcpt = 1
  MaxSize = 8
  MaxLine = 3
  LineCap = 4
  MaxFiles = 2
  MaxLines = 1
  MaxBoots = 0
PROPERTIES
  LocalErrorIsReal
\* The listener may have stopped and every session ended: nothing is left to do.
CHECK_DEADLOCK FALSE
