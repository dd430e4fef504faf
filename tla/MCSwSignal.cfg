CONSTANTS
  NumPorts = 2
  MaxFlits = 3
  Erroneous = {2}
  Kernels <- SignalKernels
  Elem <- SignalElem
  Conns <- SignalConns
  Chans = {"ch_p", "ch_c"}
  NoChan = NoChan
  SigChan <- OwnChan
  Callers = {"h"}
  Target <- CallCounter
  MaxCalls = 2
SPECIFICATION FairSpec
INVARIANTS Accounted AnswersInOrder
PROPERTIES Answered
