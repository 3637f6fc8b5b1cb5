\* Two tiles, three calls: a broadcast of tile 1 whose ++ of
\* s_rambda_buffer_count[0][1] interleaves with tile 0's -- of the same
\* entry in coreRecvW.  A receive nobody sends to waits for ever, so the
\* system may stop.
CONSTANTS
  N = 2
  LambdaQueueLength = 100
  MaxOps = 3
  ReceivePaths = {"coreRecvW"}
SPECIFICATION Spec
CHECK_DEADLOCK FALSE
INVARIANTS
  CountMatchesTraffic
