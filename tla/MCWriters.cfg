\* The header with the limits of the code and any memory; two lines of up to 6 bytes,
\* of two that have every bit both ways between them.
SPECIFICATION WritersSpec
CONSTANTS
  HostLens <- MCHostLens
  Leftovers <- MCLeftovers
  Preferred = 78
  MaxLine = 998
  Bytes = {77, 178}
  LineLens = {0, 1, 2, 3, 4, 5, 6}
  LineCount = 2
  CR = CR
  LF = LF
  Garbage = Garbage
INVARIANTS
  TypeOK
  LinesAreEncoded
  HeaderUnfolds
  HeaderLinesFit
\* Either is written once.
CHECK_DEADLOCK FALSE
