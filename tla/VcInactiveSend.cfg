\* Two tiles, one free channel id: the second create makes an inactive
\* channel with id -1, and send_message still broadcasts on it.
CONSTANTS
  t1 = t1
  t2 = t2
  testChannel1 = testChannel1
  alpha = alpha
  beta = beta
  NameKey <- MCNameKey
  Tiles <- MCTiles
  Wavelengths <- MCWavelengths
  Types = {USER_1, SHMEM}
  UserTypes = {USER_1}
  CallbackTypes = {SHMEM}
  User1 = USER_1
  Broadcast = Broadcast
  EndpointAny = EndpointAny
  Garbage = Garbage
  NoFault = NoFault
  InvalidTile = InvalidTile
  NoVc = NoVc
  NoReg = NoReg
  Names = {testChannel1}
  FirstVcId = 10
  MaxVirtualChannels = 11
  Latency = 0
  MaxClock = 0
  MaxSends = 1
  LambdaQueueLength = 100
  Sigs <- MCVcSigs
  FilterSettings <- MCVcFilterSettings
SPECIFICATION VcSpec
CHECK_DEADLOCK FALSE
INVARIANTS
  QueueIndexInRange
