\* Two tiles, free channel ids, one broadcast: send_message sends from
\* the channel's owner_tile_id, which no constructor writes.
CONSTANTS
  t1 = t1
  t2 = t2
  testChannel1 = testChannel1
  alpha = alpha
  beta = beta
  NameKey <- MCNameKey
  Tiles <- MCTiles
  Wavelengths <- MCWavelengths
  Types = {USER_1, SHMEM}
  UserTypes = {USER_1}
  CallbackTypes = {SHMEM}
  User1 = USER_1
  Broadcast = Broadcast
  EndpointAny = EndpointAny
  Garbage = Garbage
  NoFault = NoFault
  InvalidTile = InvalidTile
  NoVc = NoVc
  NoReg = NoReg
  Names = {testChannel1}
  FirstVcId = 10
  MaxVirtualChannels = 12
  Latency = 0
  MaxClock = 0
  MaxSends = 1
  LambdaQueueLength = 100
  Sigs <- MCVcSigs
  FilterSettings <- MCVcFilterSettings
SPECIFICATION VcSpec
CHECK_DEADLOCK FALSE
INVARIANTS
  SendAvailable
