\* Short lines over a character of each kind, and longer ones put together from parts.
SPECIFICATION Spec
CONSTANTS
  MaxChars = 5
  Alnum <- MCAlnum
  Others <- MCOthers
  Printable <- MCPrintable
  LocalMax = 4
  DomainMax = 5
  Greetings <- MCGreetings
  Arguments <- MCArguments
  Lower <- MCLower
  BodyKey <- MCBodyKey
  BodyValues <- MCBodyValues
INVARIANTS
  TypeOK
  PathsAreGrammatical
  PathIsMeant
  GreetingIsDomain
\* A line is done with.
CHECK_DEADLOCK FALSE
