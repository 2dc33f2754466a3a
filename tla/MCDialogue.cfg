\* Every conversation of up to 4 lines of 8 kinds, and every 8 bytes, received in every sequence of pieces.
SPECIFICATION Spec
CONSTANTS
  MaxLines = 4
  MaxStream = 8
  D = D
  Q = Q
  x = x
  CR = CR
  LF = LF
  NUL = NUL
  TooLong = TooLong
  Dot = Dot
  Bytes = {CR, LF, D, Q, x, Dot}
  Streams <- MCStreams
  DataCmd <- MCDataCmd
  QuitCmd <- MCQuitCmd
  CmdCapacity = 2
  LineCapacity = 3
  MaxText = 1
  Leftovers <- MCLeftovers
INVARIANTS
  TypeOK
  LinesAreSplit
  BufferHoldsRest
  ConversationIsOfStream
\* The client may stop sending.
CHECK_DEADLOCK FALSE
