CONSTANTS
  A = A
  B = B
  a1 = a1
  b1 = b1
  Servers = {A}
  Pool <- OnePool
  Options <- LeaseOnly
  DefaultLease = 2
  Rounds = 2
  MaxXid = 4
  Stale = 1
  MaxFactor = 2
  Word = 16
  Garbage = {0, 3}
  NoAddress = none
  NoServer = nobody
SPECIFICATION FairSpec
PROPERTY T1IsHalf
