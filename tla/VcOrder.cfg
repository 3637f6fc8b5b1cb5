\* atac_test's channel calls on two tiles: one channel name, two
\* broadcasts of signature 0 or 1, a filter that discards signature 0,
\* and as many receive_message calls as the tiles make.  Only id 10 is
\* free, so a second create fails and makes an inactive channel, or,
\* when both pass the table-full test before either stores, takes id 11.  Every
\* packet has time 0, so netRecvNonBlock's pick among a sender's packets
\* is the tie-break.  A tile may stop calling, so the system may stop.
CONSTANTS
  t1 = t1
  t2 = t2
  testChannel1 = testChannel1
  alpha = alpha
  beta = beta
  NameKey <- MCNameKey
  Tiles <- MCTiles
  Wavelengths <- MCWavelengths
  Types = {USER_1, SHMEM}
  UserTypes = {USER_1}
  CallbackTypes = {SHMEM}
  User1 = USER_1
  Broadcast = Broadcast
  EndpointAny = EndpointAny
  Garbage = Garbage
  NoFault = NoFault
  InvalidTile = InvalidTile
  NoVc = NoVc
  NoReg = NoReg
  Names = {testChannel1}
  FirstVcId = 10
  MaxVirtualChannels = 11
  Latency = 0
  MaxClock = 0
  MaxSends = 2
  LambdaQueueLength = 100
  Sigs <- MCVcSigs
  FilterSettings <- MCVcFilterSettings
SPECIFICATION VcSpec
CHECK_DEADLOCK FALSE
INVARIANTS
  VcTypeOK
PROPERTIES
  VcInOrderOnce
