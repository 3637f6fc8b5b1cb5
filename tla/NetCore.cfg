\* Two tiles, one user and one protocol packet type, two packets, one cycle
\* of clock skew, no filter: the order in which the blocking and the
\* non-blocking receives hand packets to the user thread.  A user thread
\* may wait for a packet nobody sends, so the system may stop.
CONSTANTS
  Tiles = {t1, t2}
  Types = {USER_1, SHMEM}
  UserTypes = {USER_1}
  CallbackTypes = {SHMEM}
  Broadcast = Broadcast
  EndpointAny = EndpointAny
  Garbage = Garbage
  NoFault = NoFault
  Latency = 0
  MaxClock = 1
  MaxSends = 2
  LambdaQueueLength = 100
  Sigs <- OneSig
  FilterSettings <- NoFilterSettings
SPECIFICATION Spec
SYMMETRY TileSymmetry
CHECK_DEADLOCK FALSE
INVARIANTS
  TypeOK
PROPERTIES
  InOrderPerPair
