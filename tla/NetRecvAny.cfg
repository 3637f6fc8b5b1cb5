\* Two tiles, one packet, no filter: a CAPI receive from CAPI_ENDPOINT_ANY
\* that finds its queue empty.
CONSTANTS
  Tiles = {t1, t2}
  Types = {USER_1, SHMEM}
  UserTypes = {USER_1}
  CallbackTypes = {SHMEM}
  Broadcast = Broadcast
  EndpointAny = EndpointAny
  Garbage = Garbage
  NoFault = NoFault
  Latency = 0
  MaxClock = 0
  MaxSends = 1
  LambdaQueueLength = 100
  Sigs <- OneSig
  FilterSettings <- NoFilterSettings
SPECIFICATION Spec
CHECK_DEADLOCK FALSE
INVARIANTS
  ReceiveReturnsSentPacket
