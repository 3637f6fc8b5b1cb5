\* Two tiles, two packets, a lambda queue of 6 (threshold 2): the flag
\* that refuses broadcasts against the lambda buffers they fill.
CONSTANTS
  Tiles = {t1, t2}
  Types = {USER_1, SHMEM}
  UserTypes = {USER_1}
  CallbackTypes = {SHMEM}
  Broadcast = Broadcast
  EndpointAny = EndpointAny
  Garbage = Garbage
  NoFault = NoFault
  Latency = 0
  MaxClock = 0
  MaxSends = 2
  LambdaQueueLength = 6
  Sigs <- OneSig
  FilterSettings <- NoFilterSettings
SPECIFICATION Spec
CHECK_DEADLOCK FALSE
INVARIANTS
  BlockSendMatchesContention
