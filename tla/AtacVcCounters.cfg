\* Two tiles whose user threads receive only through the virtual
\* channels: one tile's broadcast and its receipt by the other's
\* filter_incoming_messages.  No receive lowers a counter, so the
\* counters have no race; the threads may stop.
CONSTANTS
  N = 2
  LambdaQueueLength = 100
  MaxOps = 2
  ReceivePaths = {"filter"}
SPECIFICATION Spec
CHECK_DEADLOCK FALSE
INVARIANTS
  CountMatchesTraffic
