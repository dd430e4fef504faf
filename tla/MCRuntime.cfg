CONSTANTS
  LimbBits = 4
  HenselSteps = 2
  MaxBits = 30
  t1 = t1
  t2 = t2
  Threads <- MCThreads
  Widths <- MCWidths
  Workloads <- MCWorkloads
  Error = Error
  Nobody = Nobody
  Flits = 2
  LimbsPerFlit = 1
  Feeds <- MCFeeds
  BlockSize = 6
  LengthSize = 2
  ByteBits = 4
  FlitBytes = 3
  MaxBytes = 21
  Hosts <- TwoHosts
  MaxCalls = 1
  MaxPolls = 2
  NumQueues = 2
  Numbers = {0, 1, 2}
  Receivers <- TwoReceivers
  NoThread = NoThread
  MaxSends = 2
  MaxOpens = 2
SPECIFICATION RuntimeSpec
INVARIANTS
  OwnAnswer ServedOnce
  BridgeTypeOK SlotFifo NoSleepOnFlit
  RsaRight Confirmed CipherComplete
  ElementRight MontForm DigestRight
PROPERTIES
  Returns RecvReturns ElementAnswers
