CONSTANTS
  Hosts <- OneHost
  MaxCalls = 2
  MaxPolls = 2
SPECIFICATION RpcSpec
INVARIANTS TrueMeansAnswered
CHECK_DEADLOCK FALSE
