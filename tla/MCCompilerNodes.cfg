SPECIFICATION Spec
CONSTANTS
  Programs <- MCPrograms
  MaxConns = 2
  MaxWriteErrors = 2
INVARIANT
  NodesFound
