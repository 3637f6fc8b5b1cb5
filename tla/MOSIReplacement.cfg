\* Three addresses competing for a two-way directory set, so entries are
\* displaced and nullified while copies are live, under LIMITED_NO_BROADCAST
\* with one hardware sharer pointer: the second reader of a line has the
\* first one flushed to make room, while two writes race with both.
CONSTANTS
  Tiles = {t1, t2}
  Addresses = {a1, a2, a3}
  NoTile = NoTile
  NoData = NoData
  NoAddr = NoAddr
  DirSlots = 2
  MaxHwSharers = 1
  L2Lines = 2
  L1Lines = 2
  MaxWrites = 2
SPECIFICATION Spec
INVARIANTS
  NoFatalError
  LatestRecoverable
PROPERTIES
  NullifyCompletes
  MemorySpec
