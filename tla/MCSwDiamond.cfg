CONSTANTS
  NumPorts = 2
  MaxFlits = 3
  Erroneous = {}
  Kernels <- DiamondKernels
  Elem <- DiamondElem
  Conns <- DiamondConns
  Chans = {}
  NoChan = NoChan
  SigChan <- NoSignals
  Callers = {}
  Target <- NoTargets
  MaxCalls = 0
SPECIFICATION FairSpec
INVARIANTS NoDuplication Accounted
PROPERTIES Delivered
