CONSTANTS
  c1 = c1
  c2 = c2
  f1 = f1
  f2 = f2
  Conns = {c1, c2}
  Fds = {f1, f2}
  Stallers = {c1}
  Parts = 2
  MaxLines = 2
  None = None
SPECIFICATION FairSpec
INVARIANTS OnlyOwnBytes NoSendAfterClose LinesIntact
PROPERTIES ImplementsDelivery DescriptorReturned
CHECK_DEADLOCK FALSE
