\* Two tiles, one packet of signature 0 or 1, a filter that passes
\* signature 1, so receive_filtered both hands over and drops packets, and
\* a user thread blocked in netRecv returns once its
\* packet has been sent (weak fairness of the pull loop and the user
\* threads).  A user thread may wait for a packet nobody sends, so the system
\* may stop.
CONSTANTS
  Tiles = {t1, t2}
  Types = {USER_1, SHMEM}
  UserTypes = {USER_1}
  CallbackTypes = {SHMEM}
  Broadcast = Broadcast
  EndpointAny = EndpointAny
  Garbage = Garbage
  NoFault = NoFault
  Latency = 0
  MaxClock = 1
  MaxSends = 1
  LambdaQueueLength = 100
  Sigs <- MCSigs
  FilterSettings <- MCFilterSettings
SPECIFICATION Spec
CHECK_DEADLOCK FALSE
PROPERTIES
  RecvCompletes
