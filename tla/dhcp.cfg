CONSTANTS
  A = A
  B = B
  a1 = a1
  b1 = b1
  Servers = {A, B}
  Pool <- TwoPools
  Options <- OnlyT1
  DefaultLease = 2
  Rounds = 2
  MaxXid = 3
  Stale = 1
  MaxFactor = 1
  Word = 16
  Garbage = {0}
  NoAddress = none
  NoServer = nobody
SPECIFICATION FairSpec
INVARIANTS TypeOK ConfigWasGranted LeasedIsConfigured RequestsAreComplete
PROPERTY CallsComeBack
