SPECIFICATION Spec
CONSTANTS
  MAX_QUEUE_LENGTH = 3
  Pkts = {p1, p2, p3, big}
  Oversize = {big}
  NullPkt = NullPkt
INVARIANTS ZeroMeansQueued NoLockAfterDestroy
