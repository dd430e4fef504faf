SPECIFICATION MCSpec
CONSTANTS
  Programs <- OneInput
  MaxConns = 2
  MaxWriteErrors = 2
  Texts <- CppTexts
  BlockLength = 5
  TokenLength = 4
INVARIANTS
  OpaqueCpp17
