\* Queues of one packet and three packet structs: both queues overflow and packets are reused.
SPECIFICATION FairSpec
CONSTANTS
  Packets = {k1, k2, k3}
  Workers = {w1, w2}
  Readers = {r1}
  BatchSize = 2
  OutputCap = 1
  DecryptCap = 1
  MaxDatagrams = 3
  NoPacket = NoPacket
INVARIANTS
  NoUseAfterRelease
  NoLostPacket
  ReadySeparates
  DeliveredInOrder
PROPERTY
  ReaderNotStuck
CHECK_DEADLOCK FALSE
