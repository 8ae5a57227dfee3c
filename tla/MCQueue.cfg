CONSTANTS
  p1 = p1
  p2 = p2
  c1 = c1
  c2 = c2
  c3 = c3
  Producers = {p1, p2}
  Consumers = {c1, c2, c3}
  Pollers = {r1}
  MaxMessages = 2
SPECIFICATION FairSpec
INVARIANT NoLostWakeup
PROPERTY QueueIsAChannel
