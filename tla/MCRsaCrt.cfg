CONSTANTS
  LimbBits = 4
  HenselSteps = 2
  MaxBits = 30
  t1 = t1
  t2 = t2
  Threads <- MCThreads
  Widths <- MCWidths
  Workloads <- MCPrivate
  Error = Error
  Nobody = Nobody
  Flits = 2
  LimbsPerFlit = 1
  Feeds <- MCNoFeed
  BlockSize = 6
  LengthSize = 2
  ByteBits = 4
  FlitBytes = 3
  MaxBytes = 21
SPECIFICATION MCSpec
INVARIANT CrtRight
CHECK_DEADLOCK FALSE
