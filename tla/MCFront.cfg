SPECIFICATION MCSpec
CONSTANTS
  Programs <- MCInputs
  MaxConns = 2
  MaxWriteErrors = 2
  Texts <- MCTexts
  BlockLength = 5
  TokenLength = 4
INVARIANTS
  Wired
  Addressed
  ExitCode
  ImportedOnce
  CyclesFound
  BlocksMatch
PROPERTIES
  Finishes
