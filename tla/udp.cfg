CONSTANTS
  Bytes <- TwoBytes
  Peers <- TwoPeers
  MaxLen = 3
  RxSize = 5
  TxSize = 2
  Mod = 4
  Longest = 3
SPECIFICATION FairSpec
INVARIANTS TypeOK RemainingIsThere
PROPERTIES Service DatagramCallsEnd
