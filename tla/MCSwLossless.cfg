CONSTANTS
  NumPorts = 2
  MaxFlits = 4
  Erroneous = {}
  Kernels <- TreeKernels
  Elem <- TreeElem
  Conns <- TreeConns
  Chans = {}
  NoChan = NoChan
  SigChan <- NoSignals
  Callers = {}
  Target <- NoTargets
  MaxCalls = 0
SPECIFICATION Spec
INVARIANTS Lossless
