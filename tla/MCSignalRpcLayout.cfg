CONSTANTS
  Hosts <- OneHost
  MaxCalls = 1
  MaxPolls = 1
SPECIFICATION RpcSpec
INVARIANTS LayoutKept
CHECK_DEADLOCK FALSE
