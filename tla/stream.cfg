SPECIFICATION Spec
CONSTANTS
  Digit = 2
  Mod = 8
  BufSize = 4
  Lengths = {2, 5}
  Start = 6
  MaxIn = 6
  MaxOut = 6
INVARIANTS
  TypeOK
  SizeIsGenuine
PROPERTIES
  ImplementsByteStream
  TransfersEnd
