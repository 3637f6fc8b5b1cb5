\* Three tiles and two addresses sharing one-line L1 and L2 sets, so every
\* conflicting fill evicts; a full-map directory with a way per address.
\* One write per behaviour: enough for a stale copy to be told apart.  Under
\* weak fairness of the simulation threads every request is answered.
CONSTANTS
  Tiles = {t1, t2, t3}
  Addresses = {a1, a2}
  NoTile = NoTile
  NoData = NoData
  NoAddr = NoAddr
  DirSlots = 2
  MaxHwSharers = 3
  L2Lines = 1
  L1Lines = 1
  MaxWrites = 1
SPECIFICATION Spec
INVARIANTS
  TypeOK
  NoFatalError
  SingleWriter
  DirectoryTracksCopies
  CopiesHoldLatest
  LatestRecoverable
  FillFindsLineInvalid
  RepliesComeFromSharers
  L1Inclusion
PROPERTIES
  MemorySpec

