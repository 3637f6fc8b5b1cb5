\* Two tiles create channels of two names at once, with ids 10 and 11
\* free: the unlocked next_vc_id++ of register_virtual_channel.
CONSTANTS
  t1 = t1
  t2 = t2
  testChannel1 = testChannel1
  alpha = alpha
  beta = beta
  NameKey <- MCNameKey
  Tiles <- MCTiles
  Wavelengths <- MCWavelengths
  Types = {USER_1, SHMEM}
  UserTypes = {USER_1}
  CallbackTypes = {SHMEM}
  User1 = USER_1
  Broadcast = Broadcast
  EndpointAny = EndpointAny
  Garbage = Garbage
  NoFault = NoFault
  InvalidTile = InvalidTile
  NoVc = NoVc
  NoReg = NoReg
  Names = {alpha, beta}
  FirstVcId = 10
  MaxVirtualChannels = 12
  Latency = 0
  MaxClock = 0
  MaxSends = 0
  LambdaQueueLength = 100
  Sigs <- MCVcSigs
  FilterSettings <- MCVcFilterSettings
SPECIFICATION VcSpec
CHECK_DEADLOCK FALSE
INVARIANTS
  ChannelIdsUnique
