\* Three requests, two of them streams, a queue of two rows: the stop marker may find
\* it full.
SPECIFICATION FairSpec
CONSTANTS
  r1 = r1
  r2 = r2
  r3 = r3
  Requests = {r1, r2, r3}
  Streaming = {r1, r2}
  MaxQueue = 2
  Stop = Stop
INVARIANTS
  FlushIsComplete
PROPERTIES
  AnswersAreClosed
  SignalEndsServer
CHECK_DEADLOCK FALSE
