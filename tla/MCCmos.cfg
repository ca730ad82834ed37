CONSTANTS
  p1 = p1
  p2 = p2
  Pubs = {p1, p2}
  NSlots = 2
  PubTopic <- Topics
  SlotTopic <- SlotTopics
  MaxConn = 2
  MaxBuf = 1
  MaxMsg <- Talk
  NoConn = NoConn
SPECIFICATION Spec
INVARIANT InOrderOncePerSlot
PROPERTY EveryPublisherHeard
