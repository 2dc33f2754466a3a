\* One connection: commands and recipients in every order, and a line of text of every kind.
SPECIFICATION Spec
CONSTANTS
  c1 = c1
  c2 = c2
  p1 = p1
  p2 = p2
  None = None
  d1 = d1
  Conns = {c1}
  Domains = {d1}
  Mailboxes = {p1, p2}
  ReversePaths = {p1, None}
  Lines <- AllLines
  MaxRcpt = 2
  MaxSize = 8
  MaxLine = 3
  LineCap = 4
  MaxFiles = 1
  MaxLines = 1
  MaxBoots = 0
INVARIANTS
  EnvelopeIsOwn
  AcceptedIsWhole
\* The listener may have stopped and every session ended: nothing is left to do.
CHECK_DEADLOCK FALSE
