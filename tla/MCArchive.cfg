\* Blocks of 4 bytes, text and metadata of up to three of them: sizes have two octal digits.
SPECIFICATION Spec
CONSTANTS
  Block = 4
  Digits = 2
  MaxWrite = 5
  MaxText = 12
  MaxMeta = 9
INVARIANTS
  TypeOK
  BothFound
  PlainlyFound
  FoundIsWhole
PROPERTIES
  TextStays
\* The file is complete, or left as it is.
CHECK_DEADLOCK FALSE
