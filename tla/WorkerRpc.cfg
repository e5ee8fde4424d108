SPECIFICATION FairSpec
CONSTANTS
  PageCalls = {p1, p2, p3, p4}
  WorkerCalls = {w1, w2}
  WithCallback = {p1, p2, p4, w1, w2}
  Unencodable = {p4}
  Unreadable = {p3}
  BadAnswer = {w2}
  NoCall = NoCall
  MaxId = 3
INVARIANTS TypeOK TableExact CallsRunInOrder
PROPERTIES PromiseKept MessagesAreServed
CHECK_DEADLOCK FALSE
