\* Every file of up to 5 characters, and of three lines of 18 kinds; the receiver may die twice.
SPECIFICATION FairSpec
CONSTANTS
  MaxChars = 5
  h = h
  p = p
  m = m
  d = d
  Files <- MCFiles
  Chars <- MCChars
  Digit <- MCDigit
  Names = {h, p, m, d}
  Word <- MCWord
  Type <- MCType
  MaxOf <- MCMaxOf
  SizeMax = 20
  Yes <- MCYes
  Junk = {3, 11}
  Unset = Unset
  Invalid = Invalid
  KeyList <- MCKeyList
  Hostname = h
  DataSize = 3
  Default <- MCDefault
  Garbage = Garbage
  MaxBoots = 3
INVARIANTS
  AllTypeOK
  StoreIsFile
  ListensAsConfigured
  DeafByLoss
PROPERTIES
  GetsToListen
\* Where the monitor waits in vain nothing more happens.
CHECK_DEADLOCK FALSE
