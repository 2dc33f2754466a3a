\* One connection: every kind of line, over two messages.
SPECIFICATION Spec
CONSTANTS
  c1 = c1
  c2 = c2
  p1 = p1
  p2 = p2
  None = None
  d1 = d1
  Conns = {c1}
  Domains = {d1}
  Mailboxes = {p1}
  ReversePaths = {p1}
  Lines <- AllLines
  MaxRcpt = 1
  MaxSize = 8
  MaxLine = 3
  LineCap = 4
  MaxFiles = 2
  MaxLines = 2
  MaxBoots = 0
INVARIANTS
  TypeOK
  ContentInv
PROPERTIES
  VerdictIsTrue
  OnlyTellIsSilent
\* The listener may have stopped and every session ended: nothing is left to do.
CHECK_DEADLOCK FALSE
